-------------------------------- MODULE Tracer --------------------------------
(***************************************************************************)
(* The parallel tracer, runtime/gc/src/parallel-tracer.h: the thread that  *)
(* collects (worker 0) and its helpers pop roots from a shared list, trace *)
(* objects from work-stealing deques (shared-worklist.h) and decide        *)
(* together that nothing is left.  Between rounds of tracing worker 0      *)
(* holds the lock of every helper.                                         *)
(*                                                                         *)
(* Atomic accesses are sequentially consistent here; the code's orders are *)
(* weaker.  A load or store only its own thread can tell from its          *)
(* neighbour has no step of its own.                                       *)
(***************************************************************************)
EXTENDS Integers, Sequences, FiniteSets, FiniteSetsExt

CONSTANTS
  WorkerCount,     \* tracer->worker_count
  MaxBuf,          \* the largest number of a buffer of a deque
  BufSizes,        \* the elements of each buffer: twice those of the one before
  MaxSpurious,     \* bound: wakeups of helpers that nobody caused
  UnparkEvery,     \* objects worker 0 traces before it looks for sleepers: 128
  HeapObjects,
  Graphs,          \* the heaps: functions from objects to sequences of objects
  Rounds           \* what to trace: sequence of [roots, only], only = trace_roots_only

NoElement == "null"

ASSUME TracerAssumption ==
  /\ WorkerCount \in Nat \ {0} /\ UnparkEvery \in Nat \ {0}
  /\ MaxBuf \in Nat /\ BufSizes \in [0 .. MaxBuf -> Nat \ {0}]
  /\ \A a \in 1 .. MaxBuf : BufSizes[a] = 2 * BufSizes[a - 1]
  /\ NoElement \notin HeapObjects
  /\ \A g \in Graphs : g \in [HeapObjects -> Seq(HeapObjects)]
  /\ Rounds \in Seq([roots : Seq(HeapObjects), only : BOOLEAN])

Nobody == WorkerCount
Ids == 0 .. WorkerCount - 1
Helpers == Ids \ {0}

VARIABLES
  edges,           \* the heap
  round,           \* the round that runs, or ran last
  read,            \* roots.read
  activeTracers, traceEpoch,   \* tracer->active_tracers, epoch
  where,              \* where each worker is
  seen,            \* each helper's trace_epoch
  lock,            \* who holds a helper's lock: an id or Nobody
  spurious,        \* wakeups without cause so far
  asleep,          \* the helpers in pthread_cond_wait that nobody has woken
  stealId,         \* worker->steal_id
  bottom, top,     \* the deques
  buf, data,       \* the number of the active buffer, and each buffer's contents
  reg,             \* registers of a deque operation: b, t, a and x
  rooting,         \* the workers in the loop over the roots
  toTrace,            \* what a root or an object has yet to visit
  tries,           \* victims left to try
  locked,          \* locks worker 0 has taken in its check for termination
  n,               \* objects it traced, modulo UnparkEvery
  marked, traced   \* what is marked; and history: how often each object was traced

dequeVars == <<bottom, top, buf, data>>
syncVars == <<activeTracers, traceEpoch, seen, lock, asleep, locked>>
workVars == <<read, rooting, toTrace, tries, stealId, n>>
tracerHeapVars == <<edges, marked, traced>>
ctlVars == <<round, spurious>>
tracerVars == <<dequeVars, syncVars, workVars, tracerHeapVars, ctlVars, where, reg>>

NoReg == [b |-> 0, t |-> 0, a |-> 0, x |-> NoElement]
SizeOf(a) == BufSizes[a]
Blank == [a \in 0 .. MaxBuf |-> [i \in 0 .. SizeOf(a) - 1 |-> NoElement]]

\* gc_tracer_init: worker 0 takes the locks before it spawns the helpers
TracerInit ==
  /\ edges \in Graphs
  /\ round = 0 /\ read = 0 /\ activeTracers = 0 /\ traceEpoch = 0 /\ n = 0 /\ locked = 1
  /\ where = [w \in Ids |-> IF w = 0 THEN "mutating" ELSE "spawned"]
  /\ seen = [w \in Helpers |-> 0]
  /\ lock = [w \in Helpers |-> 0] /\ asleep = {} /\ rooting = {} /\ spurious = 0
  /\ stealId = [w \in Ids |-> 0] /\ toTrace = [w \in Ids |-> <<>>] /\ tries = [w \in Ids |-> 0]
  /\ bottom = [w \in Ids |-> 0] /\ top = bottom /\ buf = bottom
  /\ data = [w \in Ids |-> Blank]
  /\ reg = [w \in Ids |-> NoReg]
  /\ marked = {} /\ traced = [o \in HeapObjects |-> 0]

At(w, l) == where[w] = l
Goto(w, l) == where' = [where EXCEPT ![w] = l]
Set(w, r) == reg' = [reg EXCEPT ![w] = r]
ClearReg(w) == Set(w, NoReg)
Roots == IF round = 0 THEN <<>> ELSE Rounds[round].roots

(***************************************************************************)
(* Deques                                                                  *)
(***************************************************************************)
Get(w, a, i) == data[w][a][i % SizeOf(a)]
Put(d, a, i, x) == [d EXCEPT ![a][i % SizeOf(a)] = x]
Full(size, a) == size > SizeOf(a) - 1

\* shared_worklist_push: the top is read ...
PushTop(w) ==
  /\ At(w, "push")
  /\ Set(w, [reg[w] EXCEPT !.t = top[w]])
  /\ Goto(w, "pushPut")
  /\ UNCHANGED <<dequeVars, syncVars, workVars, tracerHeapVars, ctlVars>>
\* ... shared_worklist_grow: a full buffer's elements are copied to the next,
\* which becomes the active one; the program ends when there is no larger one ...
PushGrow(w) ==
  /\ At(w, "pushPut") /\ Full(bottom[w] - reg[w].t, buf[w]) /\ buf[w] < MaxBuf
  /\ buf' = [buf EXCEPT ![w] = @ + 1]
  /\ data' = [data EXCEPT ![w][buf[w] + 1] =
       [i \in 0 .. SizeOf(buf[w] + 1) - 1 |->
          LET S == {k \in reg[w].t .. bottom[w] - 1 : k % SizeOf(buf[w] + 1) = i}
          IN  IF S = {} THEN NoElement ELSE Get(w, buf[w], Max(S))]]
  /\ Set(w, [reg[w] EXCEPT !.t = bottom[w]])
  /\ UNCHANGED <<bottom, top, syncVars, workVars, tracerHeapVars, ctlVars, where>>
\* ... then the element is put and the bottom moved
PushPut(w) ==
  /\ At(w, "pushPut") /\ ~Full(bottom[w] - reg[w].t, buf[w])
  /\ data' = [data EXCEPT ![w] = Put(@, buf[w], bottom[w], reg[w].x)]
  /\ ClearReg(w)
  /\ Goto(w, "pushBottom")
  /\ UNCHANGED <<bottom, top, buf, syncVars, workVars, tracerHeapVars, ctlVars>>
PushBottom(w) ==
  /\ At(w, "pushBottom")
  /\ bottom' = [bottom EXCEPT ![w] = @ + 1]
  /\ Goto(w, "visit")
  /\ UNCHANGED <<top, buf, data, syncVars, workVars, tracerHeapVars, ctlVars, reg>>

\* shared_worklist_try_pop: the bottom is lowered before the top is read
PopBottom(w) ==
  /\ At(w, "pop")
  /\ bottom' = [bottom EXCEPT ![w] = @ - 1]
  /\ Goto(w, "popTop")
  /\ UNCHANGED <<top, buf, data, syncVars, workVars, tracerHeapVars, ctlVars, reg>>
\* mutant: the last element is the owner's
PopTopUnraced(w) ==
  /\ At(w, "popTop")
  /\ LET size == bottom[w] + 1 - top[w]
         x == Get(w, buf[w], bottom[w]) IN
       \/ size >= 1 /\ Set(w, [NoReg EXCEPT !.x = x]) /\ Goto(w, "trace")
       \/ size < 1 /\ ClearReg(w) /\ Goto(w, "popRestore")
  /\ UNCHANGED <<dequeVars, syncVars, workVars, tracerHeapVars, ctlVars>>
PopTop(w) ==
  /\ At(w, "popTop")
  /\ LET size == bottom[w] + 1 - top[w]
         x == Get(w, buf[w], bottom[w]) IN
       \/ size > 1 /\ Set(w, [NoReg EXCEPT !.x = x]) /\ Goto(w, "trace")
       \/ size = 1 /\ Set(w, [NoReg EXCEPT !.x = x, !.t = top[w]]) /\ Goto(w, "popCas")
       \/ size < 1 /\ ClearReg(w) /\ Goto(w, "popRestore")
  /\ UNCHANGED <<dequeVars, syncVars, workVars, tracerHeapVars, ctlVars>>
PopCas(w) ==
  /\ At(w, "popCas")
  /\ \/ top[w] = reg[w].t /\ top' = [top EXCEPT ![w] = @ + 1] /\ Set(w, [NoReg EXCEPT !.x = reg[w].x])
     \/ top[w] # reg[w].t /\ top' = top /\ ClearReg(w)
  /\ Goto(w, "popRestore")
  /\ UNCHANGED <<bottom, buf, data, syncVars, workVars, tracerHeapVars, ctlVars>>
\* The worker steals when it has nothing of its own: trace_worker_steal_from_any
PopRestore(w) ==
  /\ At(w, "popRestore")
  /\ bottom' = [bottom EXCEPT ![w] = @ + 1]
  /\ \/ reg[w].x # NoElement /\ Goto(w, "trace") /\ tries' = tries
     \/ reg[w].x = NoElement /\ Goto(w, "steal") /\ tries' = [tries EXCEPT ![w] = WorkerCount]
  /\ UNCHANGED <<top, buf, data, syncVars, read, rooting, toTrace, stealId, n, tracerHeapVars, ctlVars, reg>>

\* shared_worklist_steal
StealTop(w) ==
  /\ At(w, "steal") /\ tries[w] > 0
  /\ Set(w, [NoReg EXCEPT !.t = top[stealId[w]]])
  /\ Goto(w, "stealBottom")
  /\ UNCHANGED <<dequeVars, syncVars, workVars, tracerHeapVars, ctlVars>>
StealBottom(w) ==
  /\ At(w, "stealBottom")
  /\ \/ /\ bottom[stealId[w]] - reg[w].t > 0
        /\ Goto(w, "stealBuf")
        /\ UNCHANGED <<reg, tries, stealId>>
     \/ /\ bottom[stealId[w]] - reg[w].t <= 0
        /\ ClearReg(w) /\ Goto(w, "steal")
        /\ tries' = [tries EXCEPT ![w] = @ - 1]
        /\ stealId' = [stealId EXCEPT ![w] = (@ + 1) % WorkerCount]
  /\ UNCHANGED <<dequeVars, syncVars, read, rooting, toTrace, n, tracerHeapVars, ctlVars>>
StealBuf(w) ==
  /\ At(w, "stealBuf")
  /\ Set(w, [reg[w] EXCEPT !.a = buf[stealId[w]]])
  /\ Goto(w, "stealGet")
  /\ UNCHANGED <<dequeVars, syncVars, workVars, tracerHeapVars, ctlVars>>
StealGet(w) ==
  /\ At(w, "stealGet")
  /\ Set(w, [reg[w] EXCEPT !.x = Get(stealId[w], reg[w].a, reg[w].t), !.a = 0])
  /\ Goto(w, "stealCas")
  /\ UNCHANGED <<dequeVars, syncVars, workVars, tracerHeapVars, ctlVars>>
StealCas(w) ==
  /\ At(w, "stealCas")
  /\ LET v == stealId[w] IN
       \/ /\ top[v] = reg[w].t
          /\ top' = [top EXCEPT ![v] = @ + 1]
          /\ Set(w, [NoReg EXCEPT !.x = reg[w].x]) /\ Goto(w, "trace")
          /\ tries' = [tries EXCEPT ![w] = 0]
       \/ /\ top[v] # reg[w].t
          /\ ClearReg(w) /\ Goto(w, "steal")
          /\ UNCHANGED <<top, tries>>
  /\ UNCHANGED <<bottom, buf, data, syncVars, read, rooting, toTrace, stealId, n, tracerHeapVars, ctlVars>>

(***************************************************************************)
(* trace_with_data                                                         *)
(***************************************************************************)
Start(w) ==
  /\ At(w, "start")
  /\ activeTracers' = activeTracers + 1 /\ rooting' = rooting \cup {w}
  /\ Goto(w, "roots")
  /\ UNCHANGED <<dequeVars, traceEpoch, seen, lock, asleep, locked, read, toTrace, tries, stealId, n, tracerHeapVars, ctlVars, reg>>

\* root_worklist_pop; when there are no more, a full round goes on with
\* objects and one of roots only ends: worker 0 waits for the others
TakeRoot(w) ==
  /\ At(w, "roots")
  /\ read' = read + 1
  /\ \/ read < Len(Roots) /\ toTrace' = [toTrace EXCEPT ![w] = <<Roots[read + 1]>>] /\ Goto(w, "visit")
        /\ UNCHANGED rooting
     \/ read >= Len(Roots) /\ toTrace' = toTrace /\ rooting' = rooting \ {w}
        /\ Goto(w, IF ~Rounds[round].only THEN "pop" ELSE IF w = 0 THEN "join" ELSE "leave")
  /\ UNCHANGED <<dequeVars, syncVars, tries, stealId, n, tracerHeapVars, ctlVars, reg>>
JoinHelper ==
  /\ At(0, "join")
  /\ \/ /\ locked < WorkerCount /\ lock[locked] = Nobody
        /\ lock' = [lock EXCEPT ![locked] = 0] /\ locked' = locked + 1 /\ where' = where
     \/ locked = WorkerCount /\ Goto(0, "leave") /\ UNCHANGED <<lock, locked>>
  /\ UNCHANGED <<dequeVars, activeTracers, traceEpoch, seen, asleep, workVars, tracerHeapVars, ctlVars, reg>>

\* tracer_visit; when all is visited a worker goes on with the loop it is in
Visit(w) ==
  /\ At(w, "visit") /\ toTrace[w] # <<>>
  /\ toTrace' = [toTrace EXCEPT ![w] = Tail(@)]
  /\ LET o == Head(toTrace[w]) IN
       \/ o \in marked /\ UNCHANGED <<marked, reg, where>>
       \/ /\ o \notin marked /\ marked' = marked \cup {o}
          /\ Set(w, [NoReg EXCEPT !.x = o]) /\ Goto(w, "push")
  /\ UNCHANGED <<dequeVars, syncVars, read, rooting, tries, stealId, n, edges, traced, ctlVars>>

Visited(w) ==
  /\ At(w, "visit") /\ toTrace[w] = <<>>
  /\ Goto(w, IF w \in rooting THEN "roots" ELSE IF w = 0 /\ n = 0 THEN "unpark" ELSE "pop")
  /\ UNCHANGED <<dequeVars, syncVars, workVars, tracerHeapVars, ctlVars, reg>>
TraceOne(w) ==
  /\ At(w, "trace")
  /\ traced' = [traced EXCEPT ![reg[w].x] = @ + 1]
  /\ toTrace' = [toTrace EXCEPT ![w] = edges[reg[w].x]]
  /\ n' = IF w = 0 THEN (n + 1) % UnparkEvery ELSE n
  /\ ClearReg(w) /\ Goto(w, "visit")
  /\ UNCHANGED <<dequeVars, syncVars, read, rooting, tries, stealId, edges, marked, ctlVars>>

\* tracer_maybe_unpark_workers
Unpark ==
  /\ At(0, "unpark")
  /\ IF bottom[0] > top[0] /\ activeTracers < WorkerCount
     THEN traceEpoch' = traceEpoch + 1 /\ Goto(0, "wakeAgain")
     ELSE traceEpoch' = traceEpoch /\ Goto(0, "pop")
  /\ UNCHANGED <<dequeVars, activeTracers, seen, lock, asleep, locked, workVars, tracerHeapVars, ctlVars, reg>>

\* trace_worker_should_continue: helpers do not wait for work ...
GiveUp(w) ==
  /\ At(w, "steal") /\ tries[w] = 0 /\ w # 0
  /\ Goto(w, "leave")
  /\ UNCHANGED <<dequeVars, syncVars, workVars, tracerHeapVars, ctlVars, reg>>

\* ... worker 0 does, until no other is active; then it tries their locks ...
MaybeDone ==
  /\ At(0, "steal") /\ tries[0] = 0
  /\ Goto(0, IF activeTracers = 1 THEN "tryLock" ELSE "pop")
  /\ UNCHANGED <<dequeVars, syncVars, workVars, tracerHeapVars, ctlVars, reg>>
TryLock ==
  /\ At(0, "tryLock") /\ locked < WorkerCount
  /\ \/ /\ lock[locked] = Nobody
        /\ lock' = [lock EXCEPT ![locked] = 0] /\ locked' = locked + 1 /\ where' = where
     \/ lock[locked] # Nobody /\ Goto(0, "unlock") /\ UNCHANGED <<lock, locked>>
  /\ UNCHANGED <<dequeVars, activeTracers, traceEpoch, seen, asleep, workVars, tracerHeapVars, ctlVars, reg>>
\* ... and with all of them held looks at the deques, which nobody changes now
CanBeRobbed(v) == bottom[v] - top[v] > 0
LockedAll ==
  /\ At(0, "tryLock") /\ locked = WorkerCount
  /\ Goto(0, IF \E v \in Ids : CanBeRobbed(v) THEN "unlock" ELSE "leave")
  /\ UNCHANGED <<dequeVars, syncVars, workVars, tracerHeapVars, ctlVars, reg>>
Unlock ==
  /\ At(0, "unlock")
  /\ \/ /\ locked > 1
        /\ lock' = [lock EXCEPT ![locked - 1] = Nobody] /\ locked' = locked - 1 /\ where' = where
     \/ locked = 1 /\ Goto(0, "pop") /\ UNCHANGED <<lock, locked>>
  /\ UNCHANGED <<dequeVars, activeTracers, traceEpoch, seen, asleep, workVars, tracerHeapVars, ctlVars, reg>>
Leave(w) ==
  /\ At(w, "leave")
  /\ activeTracers' = activeTracers - 1
  /\ Goto(w, IF w = 0 THEN "ended" ELSE "park")
  /\ UNCHANGED <<dequeVars, traceEpoch, seen, lock, asleep, locked, workVars, tracerHeapVars, ctlVars, reg>>

(***************************************************************************)
(* The helpers' threads: trace_worker_thread                               *)
(***************************************************************************)
TakeLock(h) ==
  /\ \/ At(h, "spawned")
     \/ At(h, "waiting") /\ h \notin asleep
  /\ lock[h] = Nobody
  /\ lock' = [lock EXCEPT ![h] = h]
  /\ Goto(h, "look")
  /\ UNCHANGED <<dequeVars, activeTracers, traceEpoch, seen, asleep, locked, workVars, tracerHeapVars, ctlVars, reg>>
Look(h) ==
  /\ At(h, "look")
  /\ seen' = [seen EXCEPT ![h] = traceEpoch]
  /\ Goto(h, IF seen[h] # traceEpoch THEN "start" ELSE "park")
  /\ UNCHANGED <<dequeVars, activeTracers, traceEpoch, lock, asleep, locked, workVars, tracerHeapVars, ctlVars, reg>>
Park(h) ==
  /\ At(h, "park")
  /\ lock' = [lock EXCEPT ![h] = Nobody] /\ asleep' = asleep \cup {h}
  /\ Goto(h, "waiting")
  /\ UNCHANGED <<dequeVars, activeTracers, traceEpoch, seen, locked, workVars, tracerHeapVars, ctlVars, reg>>
\* pthread_cond_wait may return on its own
WakeUp(h) ==
  /\ h \in asleep /\ spurious < MaxSpurious
  /\ spurious' = spurious + 1
  /\ asleep' = asleep \ {h}
  /\ UNCHANGED <<dequeVars, activeTracers, traceEpoch, seen, lock, locked, workVars, tracerHeapVars, round, where, reg>>

(***************************************************************************)
(* Worker 0, between rounds: gc_tracer_prepare and gc_tracer_trace         *)
(***************************************************************************)
\* gc_tracer_prepare comes once, before the first round
StartRound ==
  /\ At(0, "mutating") /\ round < Len(Rounds)
  /\ round' = round + 1
  /\ stealId' = IF round = 0 THEN [w \in Ids |-> (w + 1) % WorkerCount] ELSE stealId
  /\ Goto(0, "release")
  /\ UNCHANGED <<dequeVars, syncVars, read, rooting, toTrace, tries, n, tracerHeapVars, reg, spurious>>
ReleaseHelper ==
  /\ At(0, "release")
  /\ \/ /\ locked <= WorkerCount - 1 /\ lock' = [lock EXCEPT ![locked] = Nobody]
        /\ locked' = locked + 1 /\ UNCHANGED <<where, traceEpoch>>
     \/ /\ locked = WorkerCount /\ locked' = 1 /\ traceEpoch' = traceEpoch + 1
        /\ Goto(0, "wake") /\ UNCHANGED lock
  /\ UNCHANGED <<dequeVars, activeTracers, seen, asleep, workVars, tracerHeapVars, ctlVars, reg>>
\* tracer_unpark_all_workers
Broadcast ==
  /\ \/ At(0, "wake") /\ Goto(0, "start")
     \/ At(0, "wakeAgain") /\ Goto(0, "pop")
  /\ asleep' = {}
  /\ UNCHANGED <<dequeVars, activeTracers, traceEpoch, seen, lock, locked, workVars, tracerHeapVars, ctlVars, reg>>
EndRound ==
  /\ At(0, "ended")
  /\ read' = 0 /\ n' = 0 /\ locked' = 1
  /\ Goto(0, "mutating")
  /\ UNCHANGED <<dequeVars, activeTracers, traceEpoch, seen, lock, asleep, rooting, toTrace, tries, stealId,
                 tracerHeapVars, ctlVars, reg>>

WorkerNext(w) ==
  \/ PushTop(w) \/ PushGrow(w) \/ PushPut(w) \/ PushBottom(w)
  \/ PopBottom(w) \/ PopTop(w) \/ PopCas(w) \/ PopRestore(w)
  \/ StealTop(w) \/ StealBottom(w) \/ StealBuf(w) \/ StealGet(w) \/ StealCas(w)
  \/ Start(w) \/ TakeRoot(w) \/ Visit(w) \/ Visited(w) \/ TraceOne(w) \/ GiveUp(w) \/ Leave(w)
MainNext ==
  \/ WorkerNext(0) \/ JoinHelper \/ Unpark \/ MaybeDone \/ TryLock \/ LockedAll \/ Unlock
  \/ StartRound \/ ReleaseHelper \/ Broadcast \/ EndRound
HelperNext(h) == WorkerNext(h) \/ TakeLock(h) \/ Look(h) \/ Park(h)
TracerNext == MainNext \/ \E h \in Helpers : HelperNext(h) \/ WakeUp(h)

\* The threads run.
TracerSpec ==
  /\ TracerInit /\ [][TracerNext]_tracerVars
  /\ WF_tracerVars(MainNext)
  /\ \A h \in Helpers : WF_tracerVars(HelperNext(h))

(***************************************************************************)
(* Properties                                                              *)
(***************************************************************************)
\* The least set with S that has the successors of its members
HasSuccessors(T) == \A o \in T : \A i \in DOMAIN edges[o] : edges[o][i] \in T
Reach(S) == {o \in HeapObjects : \A T \in SUBSET HeapObjects : S \subseteq T /\ HasSuccessors(T) => o \in T}
RootsUpTo(r) == UNION {{Rounds[q].roots[i] : i \in DOMAIN Rounds[q].roots} : q \in 1 .. r}

(***************************************************************************)
(* When the tracer says it is done it is: after a full round all that the  *)
(* roots reach has been traced, each object once, however its deque's      *)
(* owner and the thieves raced for it and whatever the buffers grew to;    *)
(* after one of roots only they are marked.  Between rounds the collector  *)
(* is alone: no helper is in the heap, and none is until it is let in.     *)
(***************************************************************************)
RoundIsDone ==
  where[0] = "mutating" =>
    /\ round > 0 =>
         IF Rounds[round].only THEN RootsUpTo(round) \subseteq marked
         ELSE \A o \in Reach(RootsUpTo(round)) : traced[o] = 1
    /\ \A h \in Helpers : lock[h] = 0 /\ where[h] \in {"spawned", "waiting"}
    /\ activeTracers = 0

\* Every round ends: worker 0 does not spin for ever, whoever is awake.
RoundsEnd == <>(where[0] = "mutating" /\ round = Len(Rounds))

===============================================================================
