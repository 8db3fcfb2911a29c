---------------------------- MODULE MCReplication ----------------------------
(* Instances of Replication for TLC. *)
EXTENDS Replication

CONSTANTS ipA, ipB

(* One batch adds both values, the other one removes ipA and adds ipB with another expiry; *)
(* as each leaves out what changes nothing, they add, extend and remove.  A package with a *)
(* removal is too large for a frame.                                                       *)
Both == [v \in {ipA, ipB} |-> 1]
Swap == [v \in {ipA, ipB} |-> IF v = ipA THEN Absent ELSE 2]

AllChanges == {Both, Swap}
SmallOnes  == {Both, [v \in {ipB} |-> 2]}

(* Nothing set in the environment but zero lifetimes, which New replaces. *)
ZeroTTLs == [snapshot |-> 0, diff |-> 0]

=============================================================================
