-------------------------------- MODULE MCWeak --------------------------------
(***************************************************************************)
(* Two workers, two ephemerons that may hang on each other, and two        *)
(* finalizers.                                                             *)
(***************************************************************************)
EXTENDS Weak

CONSTANTS p1, p2, e1, e2, f1, f2

MCBuckets == {0}
MCBucketOf(o) == 0

\* Each ephemeron's value is the key of the other; what lives, and who waits
\* for whom, depends on the roots and on what is changed here.
Base ==
  [field |-> [o \in Plain |-> NoRef], key |-> (e1 :> p1 @@ e2 :> p2),
   value |-> (e1 :> p2 @@ e2 :> p1), roots |-> {e1, e2},
   object |-> (f1 :> p2 @@ f2 :> p1), closure |-> [f \in Finalizers |-> NoRef],
   priority |-> (f1 :> 0 @@ f2 :> 1)]
MCShapes ==
  { Base,
    [Base EXCEPT !.priority[f2] = 0],
    [Base EXCEPT !.roots = {e1, e2, p1}],
    [Base EXCEPT !.roots = {e1, e2, p1}, !.key[e2] = p1],
    [Base EXCEPT !.roots = {e1, p1}, !.field[p1] = e2],
    \* the keys die
    [Base EXCEPT !.key[e2] = p1, !.object[f2] = p2],
    [Base EXCEPT !.roots = {e1}, !.object[f2] = p2, !.closure[f1] = e2],
    \* an ephemeron and its key fire together
    [Base EXCEPT !.roots = {p1}, !.value[e2] = e1, !.object[f1] = e2, !.object[f2] = p2,
                 !.priority[f2] = 0] }
===============================================================================
