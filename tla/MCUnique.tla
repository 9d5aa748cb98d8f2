-------------------------------- MODULE MCUnique --------------------------------
(* Every heap of three objects with two fields each, with two statics and any *)
(* frame: chains, cycles through and past the target, and several references  *)
(* from one object are all among them.                                        *)
EXTENDS Unique
===============================================================================
