--------------------------------- MODULE MCMmc ---------------------------------
(***************************************************************************)
(* Objects of one granule leave holes in blocks of three; the other small  *)
(* object and the large one are a block.                                   *)
(***************************************************************************)
EXTENDS Mmc, TLC
CONSTANTS s1, s2, big
\* Mutators are alike, and so are tracers; all that is checked is safety.
MCSymmetry == Permutations(Mutators) \cup Permutations(Tracers)
MCBounds == {[objects |-> 3, size |-> 9, collections |-> 2],
             [objects |-> 2, size |-> 12, collections |-> 2],
             [objects |-> 2, size |-> 9, collections |-> 3]}
MCSizeOf == s1 :> 1 @@ s2 :> 3 @@ big :> 3
MCSlots == s1 :> 2 @@ s2 :> 1 @@ big :> 1
===============================================================================
