------------------------------- MODULE MCPhased -------------------------------
(* Three threads, calls that reach every clamp and every slice shape:       *)
(* uneven slices with a short last chunk, more groups asked for than there  *)
(* are indexes or room for, a chunk left to the default, one global group,  *)
(* and the two calls that return at once.                                   *)
EXTENDS Phased

MCCalls ==
  {[n |-> 5, chunk |-> 2, groups |-> 2, phases |-> 2],
   [n |-> 2, chunk |-> 1, groups |-> 5, phases |-> 3],
   [n |-> 4, chunk |-> 0, groups |-> 9, phases |-> 1],
   [n |-> 3, chunk |-> 1, groups |-> 0, phases |-> 2],
   [n |-> 0, chunk |-> 1, groups |-> 1, phases |-> 1],
   [n |-> 4, chunk |-> 1, groups |-> 1, phases |-> 0]}
===============================================================================
