-------------------------------- MODULE Feed --------------------------------
(***************************************************************************)
(* What the keeper promises its mirrors.  It names one state of the set    *)
(* after another by growing numbers; a mirror shows a state the keeper has *)
(* named and only ever moves to a later one.  Replication implements this. *)
(***************************************************************************)
EXTENDS Integers

CONSTANT Mirrors

VARIABLES
  log,  \* number -> contents named by it
  at    \* mirror -> the number it is at, and the contents it shows

feed == <<log, at>>

FInit ==
  /\ 0 \in DOMAIN log
  /\ at = [m \in Mirrors |-> [seq |-> 0, shown |-> log[0]]]

(* The keeper names a state, by a number above all earlier ones. *)
Name ==
  /\ \E n \in DOMAIN log' \ DOMAIN log :
       /\ \A k \in DOMAIN log : n > k
       /\ log' = [k \in DOMAIN log \cup {n} |-> IF k = n THEN log'[n] ELSE log[k]]
  /\ UNCHANGED at

(* A mirror moves on to a state that has been named. *)
Move(m) ==
  /\ \E n \in DOMAIN log :
       /\ n > at[m].seq
       /\ at' = [at EXCEPT ![m] = [seq |-> n, shown |-> log[n]]]
  /\ UNCHANGED log

FNext == Name \/ \E m \in Mirrors : Move(m)

FSpec == FInit /\ [][FNext]_feed

=============================================================================
