--------------------------------- MODULE Weak ---------------------------------
(***************************************************************************)
(* Ephemerons and finalizers, runtime/gc/src/gc-ephemeron.c and            *)
(* gc-finalizer.c, under the parallel tracer of pcc: several workers trace *)
(* at once, and an ephemeron whose key is not marked yet waits in a table  *)
(* of lock-free lists until whoever marks the key resolves it.             *)
(*                                                                         *)
(* The heap is abstract: Shapes says which objects there are and what they *)
(* hold, marking is one atomic step (module Pcc has its protocol) and  *)
(* the workers' deques are one set, grey (module Tracer).  The lists are   *)
(* pointers: every load and every compare-and-swap is a step.  A worker's  *)
(* program is a stack of operations, work.                                 *)
(*                                                                         *)
(* A behaviour attaches the finalizers, collects once, and hands out what  *)
(* fired.                                                                  *)
(***************************************************************************)
EXTENDS Naturals, Sequences, FiniteSets, FiniteSetsExt, SequencesExt

CONSTANTS
  Workers,         \* tracers of a collection; outside of it, mutators
  Plain,           \* objects with one field
  Ephemerons,
  Finalizers,
  Buckets,         \* of the table of pending ephemerons
  BucketOf(_),     \* pending_ephemeron_bucket, by key
  Shapes           \* the heaps: records [field, key, value, roots, object, closure, priority]

Objects == Plain \cup Ephemerons \cup Finalizers
NoRef == "null"
FiredHead == "head"
Priorities == {0, 1}

ASSUME WeakAssumption ==
  /\ Plain \cap (Ephemerons \cup Finalizers) = {} /\ Ephemerons \cap Finalizers = {}
  /\ IsFiniteSet(Ephemerons) /\ IsFiniteSet(Finalizers)
  /\ {NoRef, FiredHead} \cap Objects = {}
  /\ \A o \in Objects : BucketOf(o) \in Buckets
  /\ \A s \in Shapes :
       /\ s.field \in [Plain -> Objects \cup {NoRef}]
       /\ s.key \in [Ephemerons -> Objects] /\ s.value \in [Ephemerons -> Objects]
       /\ s.roots \subseteq Objects
       /\ s.object \in [Finalizers -> Objects]
       /\ s.closure \in [Finalizers -> Objects \cup {NoRef}]
       /\ s.priority \in [Finalizers -> Priorities]

VARIABLES
  shape,           \* the heap, which no step changes but for keys
  key,             \* each ephemeron's key, Null when it is dead
  markedObjects, greyObjects,    \* what is marked, and what of it waits to be traced
  state,           \* EPHEMERON_STATE of each ephemeron
  link,            \* list cells: the buckets' heads, the pending and resolved links
  checkPending,           \* check_pending_ephemerons
  rootList,        \* roots the workers have still to take: see TakeRoot
  work,            \* each worker's operations, the next one first
  table,           \* the finalizers attached, by priority
  firedList,       \* cells of the fired list, as in link
  handed,          \* history: the finalizers handed out, in order
  phase            \* where collect is

weakHeapVars == <<shape, key>>
traceVars == <<markedObjects, greyObjects, state, link, checkPending, rootList, work>>
finVars == <<table, firedList, handed>>
weakVars == <<weakHeapVars, traceVars, finVars, phase>>

\* Cells of the lists: a bucket, the head of the resolved list, and the two
\* links of each ephemeron.
Bucket(b) == <<"bucket", b>>
Resolved == <<"resolved", "head">>
PendingLink(e) == <<"pending", e>>
ResolvedLink(e) == <<"resolved", e>>
Cells == {Bucket(b) : b \in Buckets} \cup {Resolved}
           \cup {PendingLink(e) : e \in Ephemerons} \cup {ResolvedLink(e) : e \in Ephemerons}

WeakInit ==
  /\ shape \in Shapes
  /\ key = shape.key
  /\ markedObjects = {} /\ greyObjects = {}
  /\ state = [e \in Ephemerons |-> "traced"]
  /\ link = [c \in Cells |-> NoRef]
  /\ checkPending = FALSE /\ rootList = {}
  /\ work = [w \in Workers |-> <<>>]
  /\ table = [p \in Priorities |-> {}]
  /\ firedList = [c \in Finalizers \cup {FiredHead} |-> NoRef]
  /\ handed = <<>> /\ phase = "attach"

Op(w) == Head(work[w])
Doing(w, kind) == work[w] # <<>> /\ Op(w).op = kind
\* The worker goes on with these operations, then with what it had to do.
Instead(w, ops) == work' = [work EXCEPT ![w] = ops \o Tail(@)]

VisitObject(o) == [op |-> "visit", obj |-> o]
Follow(cell, o) == [op |-> "follow", cell |-> cell, obj |-> o]
Skip(cell, o, h, n) == [op |-> "skip", cell |-> cell, obj |-> o, head |-> h, new |-> n]
FollowCas(cell, o, h, n) == [op |-> "followCas", cell |-> cell, obj |-> o, head |-> h, new |-> n]
TryResolve(e) == [op |-> "tryResolve", obj |-> e]
Push(cell, e) == [op |-> "push", cell |-> cell, obj |-> e]
PushCas(cell, e, tail) == [op |-> "pushCas", cell |-> cell, obj |-> e, tail |-> tail]
Enqueue(o) == [op |-> "enqueue", obj |-> o]
VisitKey(e) == [op |-> "visitKey", obj |-> e]
Publish(e) == [op |-> "publish", obj |-> e]
Recheck(e) == [op |-> "recheck", obj |-> e]
SetTraced(e) == [op |-> "setTraced", obj |-> e]
NextResolved(e) == [op |-> "nextResolved", obj |-> e]

(***************************************************************************)
(* Lock-free lists                                                         *)
(***************************************************************************)
LinkOf(cell, e) == IF cell = Resolved THEN ResolvedLink(e) ELSE PendingLink(e)

\* ephemeron_list_push: the tail is read and linked, then the head swapped
PushLoad(w) ==
  /\ Doing(w, "push")
  /\ LET e == Op(w).obj  cell == Op(w).cell IN
       /\ link' = [link EXCEPT ![LinkOf(cell, e)] = link[cell]]
       /\ Instead(w, <<PushCas(cell, e, link[cell])>>)
  /\ UNCHANGED <<weakHeapVars, markedObjects, greyObjects, state, checkPending, rootList, finVars, phase>>
PushSwap(w) ==
  /\ Doing(w, "pushCas")
  /\ LET e == Op(w).obj  cell == Op(w).cell IN
       IF link[cell] = Op(w).tail
       THEN link' = [link EXCEPT ![cell] = e] /\ Instead(w, <<>>)
       ELSE link' = link /\ Instead(w, <<Push(cell, e)>>)
  /\ UNCHANGED <<weakHeapVars, markedObjects, greyObjects, state, checkPending, rootList, finVars, phase>>

\* gc_resolve_pending_ephemerons: of the node that was found
AfterFollow(o, e) ==
  IF e = NoRef THEN <<>>
  ELSE (IF key[e] = o THEN <<TryResolve(e)>> ELSE <<>>) \o <<Follow(PendingLink(e), o)>>

\* ephemeron_list_follow: the cell is read, ...
FollowLoad(w) ==
  /\ Doing(w, "follow")
  /\ LET h == link[Op(w).cell] IN
       Instead(w, IF h = NoRef THEN <<>> ELSE <<Skip(Op(w).cell, Op(w).obj, h, h)>>)
  /\ UNCHANGED <<weakHeapVars, markedObjects, greyObjects, state, link, checkPending, rootList, finVars, phase>>
\* ... dead nodes are skipped one by one, ...
FollowSkip(w) ==
  /\ Doing(w, "skip")
  /\ LET cell == Op(w).cell  o == Op(w).obj  h == Op(w).head  n == Op(w).new IN
       Instead(w, IF n # NoRef /\ state[n] # "pending" THEN <<Skip(cell, o, h, link[PendingLink(n)])>>
                  ELSE IF n = h THEN AfterFollow(o, n)
                  ELSE <<FollowCas(cell, o, h, n)>>)
  /\ UNCHANGED <<weakHeapVars, markedObjects, greyObjects, state, link, checkPending, rootList, finVars, phase>>
\* ... and elided, if no one else has changed the cell
FollowSwap(w) ==
  /\ Doing(w, "followCas")
  /\ LET cell == Op(w).cell  o == Op(w).obj  n == Op(w).new  h == link[Op(w).cell] IN
       \/ /\ h = Op(w).head
          /\ link' = [link EXCEPT ![cell] = n] /\ Instead(w, AfterFollow(o, n))
       \/ /\ h # Op(w).head
          /\ link' = link
          /\ Instead(w, IF h = n THEN AfterFollow(o, n) ELSE <<Skip(cell, o, h, h)>>)
  /\ UNCHANGED <<weakHeapVars, markedObjects, greyObjects, state, checkPending, rootList, finVars, phase>>

\* maybe_resolve_ephemeron
Resolve(w) ==
  /\ Doing(w, "tryResolve")
  /\ LET e == Op(w).obj IN
       IF state[e] = "pending"
       THEN state' = [state EXCEPT ![e] = "resolved"] /\ Instead(w, <<Push(Resolved, e)>>)
       ELSE state' = state /\ Instead(w, <<>>)
  /\ UNCHANGED <<weakHeapVars, markedObjects, greyObjects, link, checkPending, rootList, finVars, phase>>

(***************************************************************************)
(* Tracing                                                                 *)
(***************************************************************************)
Tracing == phase \in {"heap", "weak", "fin0", "fin1"}

\* trace_edge, tracer_visit: of what was not marked, the ephemerons that
\* wait for it are resolved before it is enqueued
VisitEdge(w) ==
  /\ Doing(w, "visit")
  /\ LET o == Op(w).obj IN
       IF o = NoRef \/ o \in markedObjects
       THEN markedObjects' = markedObjects /\ Instead(w, <<>>)
       ELSE /\ markedObjects' = markedObjects \cup {o}
            /\ Instead(w, (IF checkPending THEN <<Follow(Bucket(BucketOf(o)), o)>> ELSE <<>>)
                            \o <<Enqueue(o)>>)
  /\ UNCHANGED <<weakHeapVars, greyObjects, state, link, checkPending, rootList, finVars, phase>>

EnqueueObject(w) ==
  /\ Doing(w, "enqueue")
  /\ greyObjects' = greyObjects \cup {Op(w).obj}
  /\ Instead(w, <<>>)
  /\ UNCHANGED <<weakHeapVars, markedObjects, state, link, checkPending, rootList, finVars, phase>>

\* trace_one: an ephemeron that is traced is claimed first, and since each is
\* enqueued once no other worker has; a dead one is done with.  gc_trace_finalizer: while it is active only its closure counts.
TraceObject(w) ==
  /\ Tracing /\ work[w] = <<>>
  /\ \E o \in greyObjects :
       /\ greyObjects' = greyObjects \ {o}
       /\ state' = IF o \in Ephemerons THEN [state EXCEPT ![o] = "claimed"] ELSE state
       /\ work' = [work EXCEPT ![w] =
            CASE o \in Plain -> <<VisitObject(shape.field[o])>>
              [] o \in Finalizers -> <<VisitObject(shape.closure[o])>>
              [] o \in Ephemerons -> IF key[o] = NoRef THEN <<SetTraced(o)>> ELSE <<VisitKey(o)>>]
  /\ UNCHANGED <<weakHeapVars, markedObjects, link, checkPending, rootList, finVars, phase>>

\* gc_trace_ephemeron: the value of a live key is an edge; other ephemerons
\* are published, ...
LookAtKey(w) ==
  /\ Doing(w, "visitKey")
  /\ LET e == Op(w).obj IN
       Instead(w, IF key[e] \in markedObjects THEN <<VisitObject(shape.value[e]), SetTraced(e)>>
                  ELSE <<Publish(e)>>)
  /\ UNCHANGED <<weakHeapVars, markedObjects, greyObjects, state, link, checkPending, rootList, finVars, phase>>
FinishTraced(w) ==
  /\ Doing(w, "setTraced")
  /\ state' = [state EXCEPT ![Op(w).obj] = "traced"]
  /\ Instead(w, <<>>)
  /\ UNCHANGED <<weakHeapVars, markedObjects, greyObjects, link, checkPending, rootList, finVars, phase>>
AddPending(w) ==
  /\ Doing(w, "publish")
  /\ LET e == Op(w).obj IN
       /\ state' = [state EXCEPT ![e] = "pending"]
       /\ Instead(w, <<Push(Bucket(BucketOf(key[e])), e), Recheck(e)>>)
  /\ UNCHANGED <<weakHeapVars, markedObjects, greyObjects, link, checkPending, rootList, finVars, phase>>
\* mutant: a worker trusts its first look
LookAgainNot(w) ==
  /\ Doing(w, "recheck")
  /\ Instead(w, <<>>)
  /\ UNCHANGED <<weakHeapVars, markedObjects, greyObjects, state, link, checkPending, rootList, finVars, phase>>
\* ... and their keys looked at again: another worker may have marked one
\* and found nothing published
LookAgain(w) ==
  /\ Doing(w, "recheck")
  /\ LET e == Op(w).obj IN
       Instead(w, IF key[e] \in markedObjects THEN <<TryResolve(e)>> ELSE <<>>)
  /\ UNCHANGED <<weakHeapVars, markedObjects, greyObjects, state, link, checkPending, rootList, finVars, phase>>

\* gc_trace_resolved_ephemerons, from the node e of the list on
TraceResolvedFrom(e) ==
  IF e = NoRef THEN <<>> ELSE <<VisitObject(shape.value[e]), SetTraced(e), NextResolved(e)>>
GoNextResolved(w) ==
  /\ Doing(w, "nextResolved")
  /\ Instead(w, TraceResolvedFrom(link[ResolvedLink(Op(w).obj)]))
  /\ UNCHANGED <<weakHeapVars, markedObjects, greyObjects, state, link, checkPending, rootList, finVars, phase>>

\* trace_root: an edge, or a list of resolved ephemerons, whose values are
\* visited
TakeNextRoot(w) ==
  /\ Tracing /\ work[w] = <<>>
  /\ \E r \in rootList :
       /\ rootList' = rootList \ {r}
       /\ work' = [work EXCEPT ![w] =
            IF r.kind = "edge" THEN <<VisitObject(r.obj)>> ELSE TraceResolvedFrom(r.obj)]
  /\ UNCHANGED <<weakHeapVars, markedObjects, greyObjects, state, link, checkPending, finVars, phase>>

Root(o) == [kind |-> "edge", obj |-> o]
Quiet == Tracing /\ rootList = {} /\ greyObjects = {} /\ \A w \in Workers : work[w] = <<>>

(***************************************************************************)
(* The collecting thread: collect, between the rounds of tracing           *)
(***************************************************************************)
\* gc_finalizer_attach; the push is like that of the other lists
Attach(f) ==
  /\ phase = "attach" /\ \A p \in Priorities : f \notin table[p]
  /\ table' = [table EXCEPT ![shape.priority[f]] = @ \cup {f}]
  /\ UNCHANGED <<weakHeapVars, traceVars, firedList, handed, phase>>

Attached == UNION {table[p] : p \in Priorities}
\* add_roots, gc_visit_finalizer_roots; resolve_ephemerons_lazily
StartTrace ==
  /\ phase = "attach" /\ Attached = Finalizers
  /\ phase' = "heap" /\ checkPending' = FALSE
  /\ rootList' = {Root(o) : o \in shape.roots \cup Attached}
  /\ UNCHANGED <<weakHeapVars, markedObjects, greyObjects, state, link, work, finVars>>

\* The list q, before what the cell held.
Chained(q, cell) ==
  [c \in Cells |->
     IF q # <<>> /\ c = cell THEN q[1]
     ELSE IF \E i \in DOMAIN q : c = LinkOf(cell, q[i])
     THEN LET i == CHOOSE i \in DOMAIN q : c = LinkOf(cell, q[i])
          IN  IF i = Len(q) THEN link[cell] ELSE q[i + 1]
     ELSE link[c]]

\* resolve_ephemerons_eagerly, gc_scan_pending_ephemerons; dead nodes are
\* elided later
ResolveEagerly ==
  LET live == {e \in Ephemerons : state[e] = "pending" /\ key[e] \in markedObjects} IN
  /\ Quiet /\ phase = "heap"
  /\ phase' = "weak" /\ checkPending' = TRUE
  /\ state' = [e \in Ephemerons |-> IF e \in live THEN "resolved" ELSE state[e]]
  /\ link' = Chained(SetToSeq(live), Resolved)
  /\ UNCHANGED <<weakHeapVars, markedObjects, greyObjects, rootList, work, finVars>>

\* trace_resolved_ephemerons: the whole list becomes a root
PopResolved ==
  /\ Quiet /\ phase # "heap" /\ link[Resolved] # NoRef
  /\ rootList' = {[kind |-> "resolved", obj |-> link[Resolved]]}
  /\ link' = [link EXCEPT ![Resolved] = NoRef]
  /\ UNCHANGED <<weakHeapVars, markedObjects, greyObjects, state, checkPending, work, finVars, phase>>

\* gc_resolve_finalizers: those whose object nothing has marked fire, and
\* their objects are roots of the next round
FireInto(q) ==
  [c \in DOMAIN firedList |->
     IF q # <<>> /\ c = FiredHead THEN q[1]
     ELSE IF c \in ToSet(q)
     THEN LET i == CHOOSE i \in DOMAIN q : q[i] = c
          IN  IF i = Len(q) THEN firedList[FiredHead] ELSE q[i + 1]
     ELSE firedList[c]]
ResolveFinalizers(p) ==
  LET fires == {f \in table[p] : shape.object[f] \notin markedObjects} IN
  /\ Quiet /\ link[Resolved] = NoRef
  /\ phase = IF p = 0 THEN "weak" ELSE "fin0"
  /\ phase' = IF p = 0 THEN "fin0" ELSE "fin1"
  /\ table' = [table EXCEPT ![p] = @ \ fires]
  /\ firedList' = FireInto(SetToSeq(fires))
  /\ rootList' = {Root(shape.object[f]) : f \in fires}
  /\ UNCHANGED <<weakHeapVars, markedObjects, greyObjects, state, link, checkPending, work, handed>>

\* sweep_ephemerons: what still waits is dead
SweepEphemerons ==
  LET dead == {e \in Ephemerons : state[e] = "pending"} IN
  /\ Quiet /\ phase = "fin1" /\ link[Resolved] = NoRef
  /\ phase' = "done"
  /\ key' = [e \in Ephemerons |-> IF e \in dead THEN NoRef ELSE key[e]]
  /\ state' = [e \in Ephemerons |-> IF e \in dead THEN "traced" ELSE state[e]]
  /\ link' = [c \in Cells |-> IF c \in {Bucket(b) : b \in Buckets} THEN NoRef ELSE link[c]]
  /\ UNCHANGED <<shape, markedObjects, greyObjects, checkPending, rootList, work, finVars>>

\* gc_pop_finalizable: finalizer_list_pop reads the head, and its link when
\* it swaps
PopRead(w) ==
  /\ phase = "done" /\ work[w] = <<>> /\ firedList[FiredHead] # NoRef
  /\ work' = [work EXCEPT ![w] = <<[op |-> "pop", obj |-> firedList[FiredHead]]>>]
  /\ UNCHANGED <<weakHeapVars, markedObjects, greyObjects, state, link, checkPending, rootList, finVars, phase>>
\* mutant: the head is stored, not compared and swapped
PopStore(w) ==
  /\ Doing(w, "pop")
  /\ LET f == Op(w).obj IN
       /\ firedList' = [firedList EXCEPT ![FiredHead] = firedList[f], ![f] = NoRef]
       /\ handed' = Append(handed, f)
  /\ Instead(w, <<>>)
  /\ UNCHANGED <<weakHeapVars, markedObjects, greyObjects, state, link, checkPending, rootList, table, phase>>
PopSwap(w) ==
  /\ Doing(w, "pop")
  /\ LET f == Op(w).obj IN
       \/ /\ firedList[FiredHead] = f
          /\ firedList' = [firedList EXCEPT ![FiredHead] = firedList[f], ![f] = NoRef]
          /\ handed' = Append(handed, f)
       \/ /\ firedList[FiredHead] # f
          /\ UNCHANGED <<firedList, handed>>
  /\ Instead(w, <<>>)
  /\ UNCHANGED <<weakHeapVars, markedObjects, greyObjects, state, link, checkPending, rootList, table, phase>>

WorkerStep(w) ==
  \/ PushLoad(w) \/ PushSwap(w) \/ FollowLoad(w) \/ FollowSkip(w) \/ FollowSwap(w) \/ Resolve(w)
  \/ VisitEdge(w) \/ EnqueueObject(w) \/ TraceObject(w) \/ LookAtKey(w) \/ FinishTraced(w)
  \/ AddPending(w) \/ LookAgain(w) \/ GoNextResolved(w) \/ TakeNextRoot(w)
  \/ PopRead(w) \/ PopSwap(w)
CollectorStep ==
  \/ \E f \in Finalizers : Attach(f)
  \/ StartTrace \/ ResolveEagerly \/ PopResolved \/ SweepEphemerons
  \/ \E p \in Priorities : ResolveFinalizers(p)
WeakNext == CollectorStep \/ \E w \in Workers : WorkerStep(w)

\* Every thread of a collection runs.
WeakSpec ==
  /\ WeakInit /\ [][WeakNext]_weakVars
  /\ WF_weakVars(CollectorStep) /\ \A w \in Workers : WF_weakVars(WorkerStep(w))

(***************************************************************************)
(* Properties                                                              *)
(***************************************************************************)
\* What lives if S does is what every set has that S is part of and that is
\* closed: fields count, closures of attached finalizers, and a value once its
\* key does.
ClosedSet(T) ==
  /\ \A o \in T \cap Plain : shape.field[o] \in T \cup {NoRef}
  /\ \A f \in T \cap Finalizers : shape.closure[f] \in T \cup {NoRef}
  /\ \A e \in T \cap Ephemerons : shape.key[e] \in T => shape.value[e] \in T
LivesWith(S) ==
  {o \in Objects : \A T \in SUBSET Objects : S \subseteq T /\ ClosedSet(T) => o \in T}
FiresAt(p, alive) == {f \in Finalizers : shape.priority[f] = p /\ shape.object[f] \notin alive}
Alive0 == LivesWith(shape.roots \cup Finalizers)
Alive1 == LivesWith(Alive0 \cup {shape.object[f] : f \in FiresAt(0, Alive0)})
Alive2 == LivesWith(Alive1 \cup {shape.object[f] : f \in FiresAt(1, Alive1)})

(***************************************************************************)
(* At the end what is marked is what lives, no more and no less: the value *)
(* of every ephemeron whose key lives was visited, in whatever order keys, *)
(* values and tables were published and read, and no other (the race that  *)
(* gc-ephemeron.c:514-523 names); and an ephemeron is dead just when its   *)
(* key is.  The next collection finds every ephemeron traced and every     *)
(* list empty (gc-ephemeron.c:565-581): nothing that was claimed or        *)
(* resolved is left so, where it would never be traced again.              *)
(***************************************************************************)
MarkedIsAlive ==
  phase = "done" =>
    /\ markedObjects = Alive2
    /\ \A e \in Ephemerons \cap Alive2 :
         key[e] = IF shape.key[e] \in Alive2 THEN shape.key[e] ELSE NoRef
    /\ \A e \in Ephemerons : state[e] = "traced"
    /\ \A b \in Buckets : link[Bucket(b)] = NoRef
    /\ link[Resolved] = NoRef

(***************************************************************************)
(* A finalizer fires when nothing that lives or fired before its priority  *)
(* reaches its object, fires once, and is handed to one mutator only       *)
(* (gc-finalizer.c:258-292, 142-149).                                      *)
(***************************************************************************)
FiredOnce ==
  LET fired == FiresAt(0, Alive0) \cup FiresAt(1, Alive1) IN
  /\ \A i, j \in DOMAIN handed : handed[i] = handed[j] => i = j
  /\ \A i \in DOMAIN handed : handed[i] \in fired
  /\ (phase = "done" /\ firedList[FiredHead] = NoRef) => ToSet(handed) = fired

\* The rounds of tracing come to an end, and all that fired is handed out.
AllHandedOut == <>(phase = "done" /\ firedList[FiredHead] = NoRef)

===============================================================================
