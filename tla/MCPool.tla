-------------------------------- MODULE MCPool --------------------------------
(* The caller and two workers; two dispatches, one over more indexes than a  *)
(* chunk divides and one over fewer than there are threads, so that a worker *)
(* may sleep through all the work of a dispatch; and two collections.        *)
EXTENDS Pool

MCCalls ==
  {[n |-> 3, chunk |-> 2], [n |-> 1, chunk |-> 0], [n |-> 0, chunk |-> 1]}
===============================================================================
