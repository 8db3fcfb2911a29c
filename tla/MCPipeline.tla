----------------------------- MODULE MCPipeline -----------------------------
(* Instances of Pipeline for TLC. *)
EXTENDS Pipeline

CONSTANTS a, b, solo, origin

Add(vs) == [op |-> "add", vals |-> vs, ttl |-> 1]
Del(vs) == [op |-> "remove", vals |-> vs, ttl |-> 0]

(* Additions of one record and of two, and a removal. *)
MixedScripts == {Add(<<a>>), Add(<<b, a>>), Del(<<a>>)}

(* An addition that the limit refuses unless a removal or a sweep comes first. *)
CrossScripts == {Add(<<b>>), Del(<<a>>)}

(* One writer has an origin of its own, the others send the very same records. *)
PairWhy == [w \in Writers |-> IF w = solo THEN solo ELSE origin]

WriterSymmetry == Permutations(Writers \ {solo})
=============================================================================
