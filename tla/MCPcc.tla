--------------------------------- MODULE MCPcc ---------------------------------
(***************************************************************************)
(* Two mutators, two tracers, two small objects that leave a hole when     *)
(* they meet, and a large one of a page.                                   *)
(***************************************************************************)
EXTENDS Pcc, TLC
CONSTANTS s1, s2, big
MCSizeOf == s1 :> 1 @@ s2 :> 2 @@ big :> 2
===============================================================================
