--------------------------------- MODULE MCLsp ---------------------------------
(* One or two projects, a file that no manifest is above but the first lists  *)
(* (src ../shared/s.fpp), and a file nobody lists.                            *)
EXTENDS Lsp

MCProjectOf ==
  [f \in Files |-> CASE f \in {"a", "b"} -> "P"
                     [] f = "q" /\ "Q" \in Projects -> "Q"
                     [] OTHER -> None]

MCSourcesOf == [p \in Projects |-> IF p = "P" THEN <<"a", "s", "b">> ELSE <<"q">>]
===============================================================================
