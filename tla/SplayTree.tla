------------------------------- MODULE SplayTree -------------------------------
(***************************************************************************)
(* The splay tree of runtime/gc/src/splay-tree.h: a node stands for a span  *)
(* of addresses, and a lookup by any of them finds the node and rotates it  *)
(* to the root.  The large-object space keeps its nodes in one, and points  *)
(* at them from elsewhere, so a node stays itself through every rotation.   *)
(*                                                                          *)
(* Nodes are named by the address their span starts at; links are fields.   *)
(***************************************************************************)
EXTENDS Integers, FiniteSets

CONSTANT LastAddr      \* bound: addresses are 1 .. LastAddr

ASSUME LastAssumption == LastAddr \in Nat \ {0}

VARIABLES
  tree,            \* the links: root, and left and right of each node
  spans            \* each node's span: the address it ends before

splayVars == <<tree, spans>>

None == 0
Dummy == -1
Addresses == 1 .. LastAddr
NoLinks == [n \in Addresses \cup {Dummy} |-> None]

SplayInit ==
  /\ tree = [root |-> None, left |-> NoLinks, right |-> NoLinks]
  /\ spans = <<>>

Nodes == DOMAIN spans

\* compare a key with the span of node n
Side(key, n) == IF key < n THEN "left" ELSE IF key >= spans[n] THEN "right" ELSE "here"
OtherSide(s) == IF s = "left" THEN "right" ELSE "left"

\* t with node n's link on side s set to c
Link(t, s, n, c) == [t EXCEPT ![s][n] = c]

\* mutant: the rotation loses the subtree in the middle
RotateDropping(t, s, n) ==
  LET kid == t[s][n] IN Link(Link(t, s, n, None), OtherSide(s), kid, n)

\* the child on side s comes up, n goes down
Rotate(t, s, n) ==
  LET kid == t[s][n] IN Link(Link(t, s, n, t[OtherSide(s)][kid]), OtherSide(s), kid, n)

\* the two trees that have been taken off hang on the dummy; ends has the node
\* of each that the next piece is linked to: its left for the greater ones
Assemble(t, n, ends) ==
  LET a == Link(t, "right", ends.right, t.left[n])
      b == Link(a, "left", ends.left, a.right[n])
      c == Link(b, "left", n, b.right[Dummy])
      d == Link(c, "right", n, c.left[Dummy])
  IN [d EXCEPT !.root = n, !.left[Dummy] = None, !.right[Dummy] = None]

RECURSIVE Descend(_, _, _, _)

\* n and all below it goes to the piece of its side, and on with its child
LinkAndGo(t, key, s, n, ends) ==
  Descend(Link(t, s, ends[s], n), key, t[s][n], [ends EXCEPT ![s] = n])

Descend(t, key, n, ends) ==
  LET s == Side(key, n)
      kid == t[s][n]
      turned == Rotate(t, s, n)
  IN CASE s = "here" -> Assemble(t, n, ends)
       [] s # "here" /\ kid = None -> Assemble(t, n, ends)
       [] s # "here" /\ kid # None /\ Side(key, kid) # s -> LinkAndGo(t, key, s, n, ends)
       [] s # "here" /\ kid # None /\ Side(key, kid) = s ->
            IF turned[s][kid] = None THEN Assemble(turned, kid, ends)
            ELSE LinkAndGo(turned, key, s, kid, ends)

\* SPLAY_SPLAY: the tree after it; its root is what it returns
Splay(t, key) ==
  IF t.root = None THEN t
  ELSE Descend(t, key, t.root, [left |-> Dummy, right |-> Dummy])

-------------------------------------------------------------------------------
\* the tree t with a new root over its own, whose node on side s of it is kept
NewRoot(t, n, s) ==
  LET a == Link(t, OtherSide(s), n, t.root)
      b == Link(a, s, n, a[s][t.root])
      c == Link(b, s, t.root, None)
  IN [c EXCEPT !.root = n]

\* SPLAY_INSERT of a span that overlaps none: a span found there is the same,
\* and keeps its node
TreeInsert(lo, hi) ==
  LET t == Splay(tree, lo) IN
  /\ lo < hi
  /\ \A n \in Nodes : (n = lo /\ spans[n] = hi) \/ hi <= n \/ spans[n] <= lo
  /\ tree' = IF t.root = None THEN [t EXCEPT !.root = lo]
             ELSE CASE Side(lo, t.root) = "here" -> t
                    [] Side(lo, t.root) = "left" -> NewRoot(t, lo, "left")
                    [] Side(lo, t.root) = "right" -> NewRoot(t, lo, "right")
  /\ spans' = [n \in Nodes \cup {lo} |-> IF n = lo THEN hi ELSE spans[n]]

\* the root n goes; splayed for its key, what is left of it has no right child
RemoveRoot(t, n) ==
  IF t.left[n] = None THEN [t EXCEPT !.root = t.right[n]]
  ELSE LET l == Splay([t EXCEPT !.root = t.left[n]], n)
       IN Link(l, "right", l.root, t.right[n])

\* SPLAY_REMOVE, of an address of a span that is there; the node is freed
TreeRemove(key) ==
  LET t == Splay(tree, key)
      u == RemoveRoot(t, t.root)
  IN /\ \E n \in Nodes : Side(key, n) = "here"
     /\ tree' = [u EXCEPT !.left[t.root] = None, !.right[t.root] = None]
     /\ spans' = [n \in Nodes \ {t.root} |-> spans[n]]

\* SPLAY_LOOKUP and SPLAY_CONTAINS
TreeLookup(key) ==
  /\ tree' = Splay(tree, key)
  /\ UNCHANGED spans

SplayNext ==
  \/ \E lo \in Addresses, hi \in 2 .. LastAddr + 1 : TreeInsert(lo, hi)
  \/ \E key \in Addresses : TreeRemove(key) \/ TreeLookup(key)

SplaySpec == SplayInit /\ [][SplayNext]_splayVars

-------------------------------------------------------------------------------
(* Properties *)

Parents(n) ==
  Cardinality({x \in Nodes : tree.left[x] = n}) + Cardinality({x \in Nodes : tree.right[x] = n})

\* After any sequence of insertions, removals and lookups: a lookup by any
\* address of a span brings the node of that span to the root, and every node
\* has one parent, the root none.
TreeFindsSpans ==
  /\ \A key \in Addresses :
       LET t == Splay(tree, key)
           found == {n \in Nodes : Side(key, n) = "here"}
       IN found # {} => t.root \in found
  /\ tree.root = None <=> Nodes = {}
  /\ \A n \in Nodes : Parents(n) = IF n = tree.root THEN 0 ELSE 1
===============================================================================
