--------------------------------- MODULE Semi ---------------------------------
(***************************************************************************)
(* The semispace collector, runtime/gc/src/semi.c, which F++ builds for    *)
(* wasm and for phones: one mutator, a copying space of two regions, large *)
(* objects that steal pages from both, weak references, and a heap that    *)
(* grows with its live data one region per collection.                     *)
(*                                                                         *)
(* A reference is <<space, offset>>, the space a region or "los".  Sizes   *)
(* and offsets are in words; a small object is one word, a large one whole *)
(* pages.  An object is [kind, fields, fwd]: a struct or a large array has *)
(* one field, an ephemeron its key and its value (runtime/fpprt.c:250-282  *)
(* leaves its chain empty).  A collection is a sequence of steps: todo is  *)
(* the depth-first agenda of edges, grey the finger of Cheney's scan.      *)
(*                                                                         *)
(* id, groots and gfields are history: the same heap as the program sees   *)
(* it, with objects that have names instead of addresses.                  *)
(***************************************************************************)
EXTENDS LargeSpace, Sequences, SequencesExt

CONSTANTS
  Slots,           \* the slots of the shadow stack
  PageSize,        \* in words
  InitialSize,     \* heap_size of the options, in words
  MaxRegion,       \* the largest mapping the system grants a region
  LargeSizes,      \* the large objects asked for, in pages
  Headroom,        \* what the growable policy adds to twice the live data
  MaxObjects,      \* bound: how many objects a behaviour allocates
  MaxCollections   \* bound: how many collections a behaviour has

ASSUME SemiAssumption ==
  /\ IsFiniteSet(Slots)
  /\ PageSize \in Nat \ {0} /\ {Headroom, MaxRegion} \subseteq Nat
  /\ LargeSizes \subseteq Nat \ {0}
  /\ InitialSize \in Nat /\ InitialSize % (2 * PageSize) = 0

VARIABLES
  to,              \* the region allocated from: to_space
  hp, limit,       \* offsets in it
  active, mapped,  \* active_size and mapped_size of each region
  stolen,          \* stolen_pages
  size,            \* heap->size
  los,             \* the large object space
  store,           \* the objects, by reference
  roots,           \* the mutator's roots: a reference each
  epoch,           \* heap->count
  check,           \* check_pending_ephemerons
  pending,         \* the table of pending ephemerons
  resolved,        \* the ephemerons whose keys were found live
  todo, grey,      \* the agenda and the finger of the tracer
  pc,              \* "run", or where collect is
  want,            \* the allocation that waits for the collection
  unstolen,        \* history: pages of large objects that nothing was stolen for
  id, groots, gfields

layoutVars == <<to, hp, limit, active, mapped, stolen, size>>
ephVars == <<check, pending, resolved>>
historyVars == <<id, groots, gfields>>
semiVars == <<layoutVars, los, store, roots, epoch, ephVars, todo, grey, pc, want,
              unstolen, historyVars>>

Regions == {"a", "b"}
Null == <<"null", 0>>
OtherRegion(r) == IF r = "a" THEN "b" ELSE "a"
from == OtherRegion(to)
AlignUp(n, k) == ((n + k - 1) \div k) * k

Struct(f) == [kind |-> "struct", fields |-> <<f>>, fwd |-> Null]
Array(f) == [kind |-> "array", fields |-> <<f>>, fwd |-> Null]
Ephemeron(k, v) == [kind |-> "ephemeron", fields |-> <<k, v>>, fwd |-> Null]
NoWant == [kind |-> "nothing"]

SemiInit ==
  LET region == AlignUp(InitialSize, 2 * PageSize) \div 2 IN
  /\ to = "a" /\ hp = 0 /\ limit = region
  /\ active = [r \in Regions |-> region] /\ mapped = active
  /\ stolen = 0 /\ size = InitialSize
  /\ los = EmptyLos /\ store = <<>>
  /\ roots = [s \in Slots |-> Null]
  /\ epoch = 0 /\ check = FALSE /\ pending = {} /\ resolved = <<>>
  /\ todo = <<>> /\ grey = 0 /\ pc = "run" /\ want = NoWant /\ unstolen = 0
  /\ id = <<>> /\ groots = [s \in Slots |-> 0] /\ gfields = <<>>

(***************************************************************************)
(* The mutator                                                             *)
(***************************************************************************)
\* A new object at r, kept in slot s; the program sees it under a new name.
Place(r, obj, names, s) ==
  LET n == Len(gfields) + 1 IN
  /\ store' = With(store, r, obj)
  /\ id' = With(id, r, n)
  /\ gfields' = Append(gfields, names)
  /\ roots' = [roots EXCEPT ![s] = r]
  /\ groots' = [groots EXCEPT ![s] = n]

\* What an allocation w stores in the object it gets.
NewObject(w) ==
  CASE w.kind = "struct" -> Struct(roots[w.arg])
    [] w.kind = "array" -> Array(roots[w.arg])
    [] w.kind = "ephemeron" -> Ephemeron(roots[w.arg], roots[w.arg2])
NewNames(w) ==
  IF w.kind = "ephemeron" THEN <<groots[w.arg], groots[w.arg2]>> ELSE <<groots[w.arg]>>

Wants ==
  [kind : {"struct"}, arg : Slots, slot : Slots]
    \cup {[kind |-> "array", arg |-> a, slot |-> s, pages |-> n] :
            a \in Slots, s \in Slots, n \in LargeSizes}
    \cup {[kind |-> "ephemeron", arg |-> a, arg2 |-> b, slot |-> s] :
            a \in {r \in Slots : roots[r] # Null}, b \in {r \in Slots : roots[r] # Null},
            s \in Slots}

\* semi_space_steal_pages: what a large object takes from each region
RegionPages(n) == AlignUp(n, 2) \div 2
StolenBytes(n) == (RegionPages(stolen + n) - RegionPages(stolen)) * PageSize
CanSteal(n) == limit - hp >= StolenBytes(n)
\* mutant: only the region in use gives up pages
StealFromOne(n) ==
  /\ stolen' = stolen + n
  /\ limit' = limit - StolenBytes(n)
  /\ active' = [active EXCEPT ![to] = @ - StolenBytes(n)]
  /\ UNCHANGED <<to, hp, mapped, size>>

Steal(n) ==
  /\ stolen' = stolen + n
  /\ limit' = limit - StolenBytes(n)
  /\ active' = [r \in Regions |-> active[r] - StolenBytes(n)]
  /\ UNCHANGED <<to, hp, mapped, size>>

AllocLarge(w) ==
  \E got \in LosAlloc(los, w.pages) :
    /\ los' = got.los
    /\ Place(<<"los", got.addr>>, NewObject(w), NewNames(w), w.slot)

Bump(w) ==
  /\ hp' = hp + 1
  /\ Place(<<to, hp>>, NewObject(w), NewNames(w), w.slot)
  /\ UNCHANGED <<to, limit, active, mapped, stolen, size, los, unstolen>>

\* What the request needs of the space between hp and limit: large pages
\* need no copy reserve.
Bytes(w) == IF w.kind = "array" THEN (w.pages * PageSize) \div 2 ELSE 1
Served(w) == IF w.kind = "array" THEN CanSteal(w.pages) ELSE hp + 1 <= limit

(***************************************************************************)
(* collect                                                                 *)
(***************************************************************************)
\* An edge of the roots is at Null.
RootEdge(s) == [at |-> Null, slot |-> s]
RootEdges == SetToSeq({RootEdge(s) : s \in Slots})

\* collect up to the tracing of the roots: flip
StartCollect(w) ==
  /\ epoch < MaxCollections
  /\ los' = LosStartGc(los)
  /\ to' = from /\ hp' = 0 /\ limit' = active[from] /\ grey' = 0
  /\ epoch' = epoch + 1 /\ check' = FALSE
  /\ todo' = RootEdges
  /\ pc' = "trace" /\ want' = w
  /\ UNCHANGED <<active, mapped, stolen, size, store, roots, pending, resolved,
                 unstolen, historyVars>>

\* gc_allocate_slow, allocate_large: an allocation that needs no collection
Alloc(w) ==
  /\ pc = "run" /\ Len(gfields) < MaxObjects
  /\ Served(w)
  /\ IF w.kind = "array" THEN Steal(w.pages) /\ AllocLarge(w) /\ UNCHANGED unstolen
     ELSE Bump(w)
  /\ UNCHANGED <<epoch, ephVars, todo, grey, pc, want>>

\* mutant: one collection is all an allocation may have
AllocCollectsOnce(w) ==
  /\ pc = "run" /\ Len(gfields) < MaxObjects
  /\ ~Served(w)
  /\ StartCollect(With(w, "again", TRUE))

\* the same when there is no room: collect_for_alloc
AllocCollects(w) ==
  /\ pc = "run" /\ Len(gfields) < MaxObjects
  /\ ~Served(w)
  /\ StartCollect(With(w, "again", FALSE))

\* gc_collect
Collect == pc = "run" /\ StartCollect(NoWant)

\* The program's reads and writes of references.
Load(s, t) ==
  /\ pc = "run" /\ roots[s] # Null /\ s # t
  /\ store[roots[s]].kind # "ephemeron" \/ store[roots[s]].fields[1] # Null
  /\ roots' = [roots EXCEPT ![t] = Last(store[roots[s]].fields)]
  /\ groots' = [groots EXCEPT ![t] = Last(gfields[groots[s]])]
  /\ UNCHANGED <<layoutVars, los, store, epoch, ephVars, todo, grey, pc, want, unstolen,
                 id, gfields>>
Store(s, t) ==
  /\ pc = "run" /\ roots[s] # Null /\ store[roots[s]].kind # "ephemeron"
  /\ store' = [store EXCEPT ![roots[s]].fields[1] = roots[t]]
  /\ gfields' = [gfields EXCEPT ![groots[s]][1] = groots[t]]
  /\ UNCHANGED <<layoutVars, los, roots, epoch, ephVars, todo, grey, pc, want, unstolen,
                 id, groots>>
Forget(s) ==
  /\ pc = "run" /\ roots[s] # Null
  /\ roots' = [roots EXCEPT ![s] = Null]
  /\ groots' = [groots EXCEPT ![s] = 0]
  /\ UNCHANGED <<layoutVars, los, store, epoch, ephVars, todo, grey, pc, want, unstolen,
                 id, gfields>>

(***************************************************************************)
(* Tracing                                                                 *)
(***************************************************************************)
InFrom(r) == r[1] = from /\ r[2] < active[from]
Ref(edge) == IF edge.at = Null THEN roots[edge.slot] ELSE store[edge.at].fields[edge.slot]
Edge(r, i) == [at |-> r, slot |-> i]
\* gc_trace_object: the words of an object that hold references
EdgesOf(r) == [i \in DOMAIN store[r].fields |-> Edge(r, i)]
SetEdge(edge, r, objects) ==
  IF edge.at = Null
  THEN roots' = [roots EXCEPT ![edge.slot] = r] /\ store' = objects
  ELSE store' = [objects EXCEPT ![edge.at].fields[edge.slot] = r] /\ UNCHANGED roots

\* gc_visit_ephemeron_key: whether the key is known to live, and where it is
KeyLives(k) ==
  IF InFrom(k) THEN store[k].fwd # Null
  ELSE k[1] = "los" => LosIsMarked(los, k[2])
KeyNow(k) == IF InFrom(k) THEN store[k].fwd ELSE k

\* gc_resolve_pending_ephemerons, when the object at r has just been marked
\* and is now at r2
WaitingFor(r) == IF check THEN {e \in pending : store[e].fields[1] = r} ELSE {}
ResolvePending(r) ==
  /\ pending' = pending \ WaitingFor(r)
  /\ resolved' = SetToSeq(WaitingFor(r)) \o resolved
KeysMoved(objects, r, r2) ==
  [e \in DOMAIN objects |->
     IF e \in WaitingFor(r) THEN [objects[e] EXCEPT !.fields[1] = r2] ELSE objects[e]]

\* mutant: an edge to what was already copied is left as it is
VisitAgainStale(edge, r) ==
  /\ \/ r = Null
     \/ r # Null /\ InFrom(r) /\ store[r].fwd # Null
     \/ r[1] = "los" /\ LosIsMarked(los, r[2])
  /\ UNCHANGED <<store, roots>>

\* visit of an edge that holds nothing, or that leads to what was visited.  An
\* edge that leads elsewhere (visit_external_object) traps: nothing follows.
VisitAgain(edge, r) ==
  \/ /\ r = Null
     /\ UNCHANGED <<store, roots>>
  \/ /\ r # Null /\ InFrom(r) /\ store[r].fwd # Null
     /\ SetEdge(edge, store[r].fwd, store)
  \/ /\ r[1] = "los" /\ LosIsMarked(los, r[2])
     /\ UNCHANGED <<store, roots>>
VisitKnown ==
  /\ pc = "trace" /\ todo # <<>>
  /\ VisitAgain(Head(todo), Ref(Head(todo)))
  /\ todo' = Tail(todo)
  /\ UNCHANGED <<layoutVars, los, epoch, ephVars, grey, pc, want, unstolen, historyVars>>

\* visit_semi_space, copy: to the end of what was copied
VisitCopy ==
  LET edge == Head(todo)
      r == Ref(edge)
      r2 == <<to, hp>>
  IN
  /\ pc = "trace" /\ todo # <<>>
  /\ r # Null /\ InFrom(r) /\ store[r].fwd = Null
  /\ hp' = hp + 1
  /\ SetEdge(edge, r2, KeysMoved(With([store EXCEPT ![r].fwd = r2], r2, store[r]), r, r2))
  /\ ResolvePending(r)
  /\ id' = With(id, r2, id[r])
  /\ todo' = Tail(todo)
  /\ UNCHANGED <<to, limit, active, mapped, stolen, size, los, epoch, check, grey, pc, want,
                 unstolen, groots, gfields>>

\* visit_large_object_space: marked, and its own edges are visited next
VisitLarge ==
  LET r == Ref(Head(todo)) IN
  /\ pc = "trace" /\ todo # <<>>
  /\ r[1] = "los" /\ ~LosIsMarked(los, r[2])
  /\ los' = LosMark(los, r[2])
  /\ ResolvePending(r)
  /\ todo' = EdgesOf(r) \o Tail(todo)
  /\ UNCHANGED <<layoutVars, store, roots, epoch, check, grey, pc, want, unstolen, historyVars>>

\* mutant: the finger does not go on
ScanObjectAgain ==
  LET r == <<to, grey>> IN
  /\ pc = "trace" /\ todo = <<>> /\ grey < hp
  /\ store[r].kind # "ephemeron"
  /\ todo' = EdgesOf(r)
  /\ UNCHANGED <<layoutVars, los, store, roots, epoch, ephVars, grey, pc, want, unstolen, historyVars>>

\* trace_closure, scan: the next grey object, of any kind but an ephemeron
ScanObject ==
  LET r == <<to, grey>> IN
  /\ pc = "trace" /\ todo = <<>> /\ grey < hp
  /\ store[r].kind # "ephemeron"
  /\ todo' = EdgesOf(r) /\ grey' = grey + 1
  /\ UNCHANGED <<layoutVars, los, store, roots, epoch, ephVars, pc, want, unstolen, historyVars>>

\* gc_trace_ephemeron (each object is scanned once, so the test of its epoch
\* always passes): the value is an edge if the key is
\* known to live, and otherwise the ephemeron waits for the key
ScanEphemeron ==
  LET e == <<to, grey>>
      k == store[e].fields[1]
      waits == k # Null /\ ~KeyLives(k)
  IN
  /\ pc = "trace" /\ todo = <<>> /\ grey < hp
  /\ store[e].kind = "ephemeron"
  /\ grey' = grey + 1
  /\ store' = IF k = Null \/ waits THEN store ELSE [store EXCEPT ![e].fields[1] = KeyNow(k)]
  /\ pending' = IF waits THEN pending \cup {e} ELSE pending
  /\ todo' = IF k = Null \/ waits THEN <<>> ELSE <<Edge(e, 2)>>
  /\ UNCHANGED <<layoutVars, los, roots, epoch, check, resolved, pc, want, unstolen, historyVars>>

Closed == pc = "trace" /\ todo = <<>> /\ grey = hp

\* gc_scan_pending_ephemerons, after the first closure
ScanPending ==
  LET live == {e \in pending : KeyLives(store[e].fields[1])} IN
  /\ Closed /\ ~check
  /\ check' = TRUE
  /\ store' = [e \in DOMAIN store |->
                 IF e \in live THEN [store[e] EXCEPT !.fields[1] = KeyNow(@)] ELSE store[e]]
  /\ pending' = pending \ live
  /\ resolved' = SetToSeq(live) \o resolved
  /\ UNCHANGED <<layoutVars, los, roots, epoch, todo, grey, pc, want, unstolen, historyVars>>

\* resolve_ephemerons: gc_pop_resolved_ephemerons takes the whole list, and
\* gc_trace_resolved_ephemerons visits the values
TraceResolved ==
  /\ Closed /\ check /\ resolved # <<>>
  /\ todo' = [i \in DOMAIN resolved |-> Edge(resolved[i], 2)]
  /\ resolved' = <<>>
  /\ UNCHANGED <<layoutVars, los, store, roots, epoch, check, pending, grey, pc, want, unstolen,
                 historyVars>>

(***************************************************************************)
(* The end of a collection                                                 *)
(***************************************************************************)
\* gc_growable_heap_sizer_target_size: live data count twice, and get room
Target(live) == IF live = 0 THEN 0 ELSE 2 * live + Headroom

\* resize_heap: only the region not in use can be mapped anew; the heap is
\* as large as both regions allow.  grow_region_if_needed fails when the
\* system has no such mapping.
Grown(r, n) == IF n <= mapped[r] \/ n > MaxRegion THEN mapped[r] ELSE n
Resized(new) ==
  LET want_ == AlignUp(new, 2 * PageSize) \div 2
      fromMapped == Grown(from, Max({want_, mapped[to]}))
      region == Min({want_, mapped[to], fromMapped})
  IN  [mapped |-> [mapped EXCEPT ![from] = fromMapped], size |-> 2 * region]
Sized(live) ==
  IF Target(live) > size THEN Resized(Target(live)) ELSE [mapped |-> mapped, size |-> size]

\* gc_sweep_pending_ephemerons: what still waits loses its key
Swept(objects) ==
  [r \in DOMAIN objects |->
     IF r \in pending THEN [objects[r] EXCEPT !.fields[1] = Null] ELSE objects[r]]

\* clear_memory and the release of dead large objects
Kept(space) == {r \in DOMAIN store : r[1] = to \/ (r[1] = "los" /\ r[2] \in LiveNodes(space))}

\* reset_heap_limits: what is left of a region when large objects have their share
NewRegion(heapSize, pages) == heapSize \div 2 - RegionPages(pages) * PageSize

\* collect from the end of tracing: semi_space_finish_gc, gc_heap_sizer_on_gc
\* and reset_heap_limits.  If what was copied does not fit below the new
\* limit, its end has been discarded (region_trim_by) and limit - hp wraps.
FinishCollect ==
  LET swept == ProcessQuarantine(LosFinishGc(los))
      sized == Sized(hp + los.liveAtLast * PageSize)
      region == NewRegion(sized.size, los.liveAtLast)
  IN
  /\ Closed /\ check /\ resolved = <<>>
  /\ los' = swept
  /\ stolen' = los.liveAtLast
  /\ mapped' = sized.mapped /\ size' = sized.size
  /\ active' = [r \in Regions |-> Max({region, 0})]
  /\ limit' = Max({region, 0})
  /\ store' = Restrict(Swept(store), Kept(swept))
  /\ id' = Restrict(id, Kept(swept))
  /\ pending' = {}
  /\ unstolen' = 0
  /\ pc' = IF region < hp THEN "overrun"
           ELSE IF want = NoWant THEN "run" ELSE "retry"
  /\ UNCHANGED <<to, hp, roots, epoch, check, resolved, todo, grey, want, groots, gfields>>

\* collect_for_alloc: the request fits now, and is served; a large object
\* is not charged to the regions again
RetryServed ==
  /\ pc = "retry" /\ Bytes(want) <= limit - hp
  /\ IF want.kind = "array"
     THEN AllocLarge(want) /\ unstolen' = unstolen + want.pages /\ UNCHANGED layoutVars
     ELSE Bump(want)
  /\ pc' = "run" /\ want' = NoWant
  /\ UNCHANGED <<epoch, ephVars, todo, grey>>

\* it does not fit: once more, so that the other region can grow too
RetryCollects ==
  /\ pc = "retry" /\ Bytes(want) > limit - hp /\ ~want.again
  /\ StartCollect([want EXCEPT !.again = TRUE])

\* allocation_failure
RetryFails ==
  /\ pc = "retry" /\ Bytes(want) > limit - hp /\ want.again
  /\ pc' = "failed"
  /\ UNCHANGED <<layoutVars, los, store, roots, epoch, ephVars, todo, grey, want, unstolen,
                 historyVars>>

CollectStep ==
  \/ VisitKnown \/ VisitCopy \/ VisitLarge
  \/ ScanObject \/ ScanEphemeron \/ ScanPending \/ TraceResolved
  \/ FinishCollect \/ RetryServed \/ RetryCollects \/ RetryFails
MutatorStep ==
  \/ \E w \in Wants : Alloc(w) \/ AllocCollects(w)
  \/ Collect
  \/ \E s, t \in Slots : Load(s, t) \/ Store(s, t)
  \/ \E s \in Slots : Forget(s)
SemiNext == CollectStep \/ MutatorStep

\* A collection runs to its end: it is the mutator's own call.
SemiSpec == SemiInit /\ [][SemiNext]_semiVars /\ WF_semiVars(CollectStep)

(***************************************************************************)
(* Properties                                                              *)
(***************************************************************************)
Calm == pc \in {"run", "retry"}

\* What the program can get to without going through a weak key: the least
\* set of names that holds the roots' and is closed along fields; an
\* ephemeron's value counts when its key does.
ObjectNames == 1 .. Len(gfields)
ClosedNames(T) ==
  /\ \A s \in Slots : groots[s] \in T \cup {0}
  /\ \A n \in T :
       IF Len(gfields[n]) = 2
       THEN gfields[n][1] \in T => gfields[n][2] \in T \cup {0}
       ELSE gfields[n][1] \in T \cup {0}
LiveNames ==
  {n \in ObjectNames : \A T \in SUBSET ObjectNames : ClosedNames(T) => n \in T}
NameOf(r) == IF r = Null THEN 0 ELSE id[r]
ObjectNamed(n) == {r \in DOMAIN store : id[r] = n}

(***************************************************************************)
(* What the program sees is what it built.  Each slot leads to the object  *)
(* it was given, each reachable object exists once and has the fields last *)
(* stored in it; a weak reference has lost its target only if nothing else *)
(* reaches it.  (An edge not updated, an object copied twice or not at     *)
(* all, a key found dead too early and cleared: semi.c:182-281,            *)
(* gc-ephemeron.c:445-581.)                                                *)
(***************************************************************************)
SameGraph ==
  Calm =>
    /\ \A s \in Slots : roots[s] # Null => roots[s] \in DOMAIN store
    /\ \A s \in Slots : NameOf(roots[s]) = groots[s]
    /\ \A n \in LiveNames :
         \E r \in ObjectNamed(n) :
           /\ ObjectNamed(n) = {r}
           /\ \A i \in DOMAIN gfields[n] :
                LET f == store[r].fields[i] IN
                \/ f # Null /\ f \in DOMAIN store /\ id[f] = gfields[n][i]
                \/ f = Null /\ gfields[n][i] = 0
                \/ store[r].kind = "ephemeron" /\ store[r].fields[1] = Null
                     /\ gfields[n][1] \notin LiveNames

(***************************************************************************)
(* The large objects and the two regions together stay within the heap:    *)
(* what is stolen is what is live or was not yet collected, and hp keeps   *)
(* below the limit, so long as no large object came out of a collection    *)
(* (semi.c:131-153, 315-354); and no page is in two large objects.         *)
(***************************************************************************)
BudgetKept ==
  /\ LosApart(los) /\ LosCounts(los)
  /\ pc = "run" /\ unstolen = 0 =>
       /\ hp <= limit /\ limit = active[to] /\ active[to] = active[from]
       /\ stolen = PagesOf(los, LiveNodes(los))
       /\ 2 * limit + stolen * PageSize <= size

\* semi.c:352: GC_ASSERT(semi->hp <= new_limit), what survives fits below
\* the limit that the collection sets.
SurvivorsFit == pc # "overrun"

(***************************************************************************)
(* An allocation is refused only when the heap has the size the policy     *)
(* wants for the live data, or the system has no such region: the second   *)
(* collection has grown the region the first could not (semi.c:315-339,    *)
(* 446-463).                                                               *)
(***************************************************************************)
RefusedWhenGrown ==
  pc = "failed" =>
    LET live == hp + los.liveAtLast * PageSize IN
    size >= Target(live) \/ AlignUp(Target(live), 2 * PageSize) \div 2 > MaxRegion

\* Every collection comes to its end, however values and keys of weak
\* references hang together.
CollectionEnds == pc = "trace" ~> pc # "trace"

===============================================================================
