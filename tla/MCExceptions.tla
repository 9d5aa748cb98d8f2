----------------------------- MODULE MCExceptions -----------------------------
(* Functions and handlers nested in every order, up to a depth at which a    *)
(* raise has frames and handlers of more than one function to pass.          *)
EXTENDS Exceptions
===============================================================================
