------------------------------ MODULE LargeSpace ------------------------------
(***************************************************************************)
(* The large object space, runtime/gc/src/large-object-space.h, which all  *)
(* three collectors of F++ share: a mark-sweep space whose objects are     *)
(* whole mappings.  A dead object stays in quarantine, where an allocation *)
(* may take it or its head over, until the background task has passed it   *)
(* twice; then it goes back to the system.                                 *)
(*                                                                         *)
(* The space is one record, which the operations map to another:           *)
(*   nodes      what object_map and object_tree hold: from an address to   *)
(*              [size, live, mark, age]; sizes and addresses are in pages  *)
(*   marked     the mark of this cycle; each collection toggles it         *)
(*   total, free, liveAtLast, freedByLast    the counters of pages         *)
(* The quarantine's lists are the nodes that are not live.  Their size     *)
(* classes are a quarter of an octave apart, so up to eight pages a class  *)
(* is one size.  A list's order is left open: any node of the least size   *)
(* that is large enough may be taken.                                      *)
(***************************************************************************)
EXTENDS Integers, FiniteSets, FiniteSetsExt, Functions

\* The function f with v at x, where f may be defined or not.
With(f, x, v) == [y \in DOMAIN f \cup {x} |-> IF y = x THEN v ELSE f[y]]

Nursery == 0
Mark0 == 1
Mark1 == 3

EmptyLos == [nodes |-> <<>>, marked |-> Mark0, total |-> 0, free |-> 0,
             liveAtLast |-> 0, freedByLast |-> 0]

LiveNodes(los) == {a \in DOMAIN los.nodes : los.nodes[a].live}
DeadNodes(los) == DOMAIN los.nodes \ LiveNodes(los)
Extent(los, a) == a .. a + los.nodes[a].size - 1
PagesOf(los, S) == Cardinality(UNION {Extent(los, a) : a \in S})

LiveNode(n) == [size |-> n, live |-> TRUE, mark |-> Nursery, age |-> 0]
DeadNode(n) == [size |-> n, live |-> FALSE, mark |-> Nursery, age |-> 0]

\* large_object_space_contains_with_lock: dead objects are in the map too
InLos(los, a) == a \in DOMAIN los.nodes
\* large_object_space_is_marked
LosIsMarked(los, a) == los.nodes[a].mark = los.marked

\* large_object_space_mark of an object that has not this cycle's mark
LosMark(los, a) ==
  [los EXCEPT !.nodes[a].mark = los.marked, !.liveAtLast = @ + los.nodes[a].size]

\* large_object_space_start_gc of a major collection
LosStartGc(los) ==
  [los EXCEPT !.marked = IF @ = Mark0 THEN Mark1 ELSE Mark0, !.liveAtLast = 0]

\* large_object_space_process_quarantine
ProcessQuarantine(los) ==
  LET kept == {a \in DOMAIN los.nodes : los.nodes[a].live \/ los.nodes[a].age + 1 < 2}
  IN  [los EXCEPT !.nodes = [a \in kept |-> IF los.nodes[a].live THEN los.nodes[a]
                                            ELSE [los.nodes[a] EXCEPT !.age = @ + 1]]]

\* large_object_space_sweep_one, add_to_freelist
SweepOne(los, node) ==
  IF node.live /\ node.mark # los.marked THEN DeadNode(node.size) ELSE node

\* large_object_space_finish_gc, without the release that follows at once
\* when there is no background thread
LosFinishGc(los) ==
  LET free == los.total - los.liveAtLast
  IN  [los EXCEPT !.nodes = [a \in DOMAIN @ |-> SweepOne(los, @[a])],
                  !.freedByLast = free - los.free, !.free = free]

\* large_object_space_add_to_allocation_counter: the pages allocated since
\* the last collection
LosAllocated(los) == los.total - los.free - los.liveAtLast

\* Where the system maps n fresh pages: the first gap.
FreshPlace(los, n) ==
  LET ends == {0} \cup {a + los.nodes[a].size : a \in DOMAIN los.nodes}
  IN  Min({e \in ends : \A a \in DOMAIN los.nodes :
                           (e .. e + n - 1) \cap Extent(los, a) = {}})

\* large_object_space_alloc from the hole at a: what is too much of it is a
\* node of its own and stays in quarantine
TakeHole(los, a, n) ==
  LET spare == los.nodes[a].size - n
      taken == [los.nodes EXCEPT ![a] = LiveNode(n)]
  IN  [addr |-> a,
       los |-> [los EXCEPT !.nodes = IF spare > 0 THEN With(taken, a + n, DeadNode(spare))
                                     ELSE taken,
                           !.free = @ - n]]

\* large_object_space_alloc with fresh pages
TakeFresh(los, n) ==
  LET a == FreshPlace(los, n)
  IN  [addr |-> a, los |-> [los EXCEPT !.nodes = With(@, a, LiveNode(n)), !.total = @ + n]]

\* large_object_space_alloc: the outcomes, each an address and the new space
LosAlloc(los, n) ==
  LET fits == {a \in DeadNodes(los) : los.nodes[a].size >= n}
      best == {a \in fits : \A b \in fits : los.nodes[a].size <= los.nodes[b].size}
  IN  IF fits = {} THEN {TakeFresh(los, n)} ELSE {TakeHole(los, a, n) : a \in best}

(***************************************************************************)
(* No two nodes share a page, and the counters agree with the nodes: what  *)
(* is live is what was ever mapped less what is counted free.  A hole      *)
(* handed out twice, a tail lost when a hole is split, or a page counted   *)
(* twice when it is freed or taken over, breaks one of the two.            *)
(***************************************************************************)
LosApart(los) ==
  \A a, b \in DOMAIN los.nodes : a # b => Extent(los, a) \cap Extent(los, b) = {}
LosCounts(los) == PagesOf(los, LiveNodes(los)) = los.total - los.free

===============================================================================
