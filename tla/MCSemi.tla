-------------------------------- MODULE MCSemi --------------------------------
(* The semispace collector with few slots and few objects. *)
EXTENDS Semi
===============================================================================
