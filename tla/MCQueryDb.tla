------------------------------- MODULE MCQueryDb -------------------------------
(* The queries of tests/Fpp.Tests/QueryTests.fs put together: one that maps   *)
(* several inputs to one value, one that reads b only for some of them, one   *)
(* that raises on a value, and one that reads all of these, one of them twice *)
(* by two ways.                                                               *)
EXTENDS QueryDb

MCScript(q, seen) ==
  CASE q = "half" ->
         (IF seen = <<>> THEN Reads("a") ELSE Returns(seen[1] \div 2))
    [] q = "pick" ->
         (CASE seen = <<>> -> Reads("half")
            [] Len(seen) = 1 -> IF seen[1] > 0 THEN Returns(7) ELSE Reads("b")
            [] Len(seen) = 2 -> Returns(seen[2]))
    [] q = "check" ->
         (CASE seen = <<>> -> Reads("b")
            [] Len(seen) = 1 -> IF seen[1] = 2 THEN Raises ELSE Returns(0))
    [] q = "all" ->
         (CASE seen = <<>> -> Reads("pick")
            [] Len(seen) = 1 -> Reads("half")
            [] Len(seen) = 2 -> IF seen[1] = 2 THEN Returns(9) ELSE Reads("check")
            [] Len(seen) = 3 -> Returns(seen[1] + seen[2]))
===============================================================================
