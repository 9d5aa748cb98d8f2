------------------------------- MODULE MCTracer -------------------------------
(***************************************************************************)
(* A round of roots only, then a full one; a deque starts with room for    *)
(* one element and grows, and one object is reached in two ways.           *)
(***************************************************************************)
EXTENDS Tracer, TLC
CONSTANTS o1, o2, o3, o4
MCGraphs == {o1 :> <<o2, o3, o4>> @@ o2 :> <<o4>> @@ o3 :> <<>> @@ o4 :> <<>>}
MCBufSizes == 0 :> 2 @@ 1 :> 4
MCRounds == << [roots |-> <<o1>>, only |-> TRUE], [roots |-> <<o2>>, only |-> FALSE] >>
===============================================================================
