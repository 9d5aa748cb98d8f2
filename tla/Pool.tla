--------------------------------- MODULE Pool ---------------------------------
(***************************************************************************)
(* The worker pool, runtime/fpprt.c:394-495: the plain dispatch of a dense *)
(* index range in chunks, on threads that are mutators of the collector.   *)
(* One thread (Caller) makes the dispatches; the others are the workers.   *)
(*                                                                         *)
(* pool_mu_ is explicit because the caller parks while holding it; a       *)
(* critical section that does nothing else blocking is one action, enabled *)
(* when the mutex is free.  pool_go_ and pool_done_ are the sets of their  *)
(* unsignalled waiters.  What a thread does with the collector is the      *)
(* action of module StopWorld of that name, taken in the same step; a      *)
(* thread inside a wait of that module does nothing else (OnCpu).          *)
(***************************************************************************)
EXTENDS StopWorld

CONSTANTS
  Caller,          \* the thread that dispatches
  Calls,           \* the argument records [n, chunk] tried
  IntMax,          \* the largest int
  MaxDispatches    \* bound: how many dispatches a behaviour contains

ASSUME CallerAssumption == Caller \in Threads
ASSUME IntMaxAssumption == IntMax \in Nat \ {0}
ASSUME PoolCallsAssumption ==
  Calls \subseteq [n : -IntMax .. IntMax, chunk : -IntMax .. IntMax]

Workers == Threads \ {Caller}
PoolSize == Cardinality(Workers)

VARIABLES
  pc,              \* where each thread is
  held,            \* pool_mu_ is held from one action to the next (by the caller)
  goWait,          \* workers asleep on pool_go_, unsignalled
  doneWait,        \* the caller is asleep on pool_done_, unsignalled
  gen,             \* pool_gen_
  seen,            \* pool_main_'s local seen
  job,             \* pool_job_: n and chunk
  cursor,          \* pool_cursor_
  active,          \* pool_active_
  args,            \* fpp_pool_dispatch's arguments, chunk clamped
  range            \* pool_work_'s locals lo and hi

poolVars == <<pc, held, goWait, doneWait, gen, seen, job, cursor, active, args,
              range>>
vars == <<heapVars, poolVars>>

\* signed addition as the usual builds do it: two's complement
Wrap(x) == IF x > IntMax THEN x - 2 * (IntMax + 1) ELSE x

NoRange == [lo |-> 0, hi |-> 0]

PoolInit ==
  /\ HeapStart({Caller})
  /\ pc = [t \in Threads |-> IF t = Caller THEN "user" ELSE "unborn"]
  /\ held = FALSE
  /\ goWait = {} /\ doneWait = FALSE
  /\ gen = 0
  /\ seen = [w \in Workers |-> 0]
  /\ job = [n |-> 0, chunk |-> 0]
  /\ cursor = 0 /\ active = 0
  /\ args = [n |-> 0, chunk |-> 0]
  /\ range = [t \in Threads |-> NoRange]

\* t is at l and neither blocked inside the collector nor collecting
OnCpu(t, l) == pc[t] = l /\ mut[t] \in {"running", "parked", "detached"}

Goto(t, l) == pc' = [pc EXCEPT ![t] = l]

-------------------------------------------------------------------------------
(* fpp_pool_dispatch, the caller's side *)

\* entry: the first call creates the workers
Call(a) ==
  /\ OnCpu(Caller, "user")
  /\ gen < MaxDispatches
  /\ a.n > 0
  /\ args' = [n |-> a.n, chunk |-> IF a.chunk <= 0 THEN 1 ELSE a.chunk]
  /\ pc' = [t \in Threads |->
              IF t = Caller THEN "publish"
              ELSE IF pc[t] = "unborn" THEN "born" ELSE pc[t]]
  /\ UNCHANGED <<heapVars, held, goWait, doneWait, gen, seen, job, cursor,
                 active, range>>

\* the critical section that posts the job
Publish ==
  /\ OnCpu(Caller, "publish")
  /\ ~held
  /\ job' = args
  /\ cursor' = 0
  /\ active' = PoolSize + 1
  /\ gen' = gen + 1
  /\ goWait' = {}
  /\ Goto(Caller, "grab")
  /\ UNCHANGED <<heapVars, held, doneWait, seen, args, range>>

\* the join: the count goes down and the mutex stays held ...
Join ==
  /\ OnCpu(Caller, "leave")
  /\ ~held
  /\ active' = active - 1
  /\ held' = TRUE
  /\ Goto(Caller, "joinPark")
  /\ UNCHANGED <<heapVars, goWait, doneWait, gen, seen, job, cursor, args, range>>

\* ... while the caller parks ...
JoinPark ==
  /\ OnCpu(Caller, "joinPark")
  /\ Park(Caller)
  /\ Goto(Caller, "joinCheck")
  /\ UNCHANGED <<held, goWait, doneWait, gen, seen, job, cursor, active, args, range>>

\* mutant: the caller leaves when it sees no index left, without waiting
JoinNoWait ==
  /\ OnCpu(Caller, "joinCheck")
  /\ held' = FALSE
  /\ doneWait' = doneWait
  /\ Goto(Caller, "return")
  /\ UNCHANGED <<heapVars, goWait, gen, seen, job, cursor, active, args, range>>

\* ... and waits, releasing it, until the count is zero; woken, it has to
\* get the mutex back
JoinCheck ==
  /\ OnCpu(Caller, "joinCheck")
  /\ ~doneWait
  /\ held' = FALSE
  /\ IF active # 0 THEN doneWait' = TRUE /\ pc' = pc
                   ELSE doneWait' = FALSE /\ Goto(Caller, "return")
  /\ UNCHANGED <<heapVars, goWait, gen, seen, job, cursor, active, args, range>>

Return ==
  /\ OnCpu(Caller, "return")
  /\ Unpark(Caller)
  /\ Goto(Caller, "user")
  /\ UNCHANGED <<held, goWait, doneWait, gen, seen, job, cursor, active, args, range>>

\* the caller's own program, between dispatches
UserCode ==
  /\ OnCpu(Caller, "user")
  /\ Safepoint(Caller) \/ Collect(Caller)
  /\ UNCHANGED poolVars

-------------------------------------------------------------------------------
(* pool_main_, a worker *)

Start(w) ==
  /\ OnCpu(w, "born")
  /\ Attach(w)
  /\ Goto(w, "idle")
  /\ UNCHANGED <<held, goWait, doneWait, gen, seen, job, cursor, active, args, range>>

IdlePark(w) ==
  /\ OnCpu(w, "idle")
  /\ Park(w)
  /\ Goto(w, "check")
  /\ UNCHANGED <<held, goWait, doneWait, gen, seen, job, cursor, active, args, range>>

\* while (pool_gen_ == seen) wait, under the mutex
CheckGo(w) ==
  /\ OnCpu(w, "check")
  /\ ~held /\ w \notin goWait
  /\ \/ /\ gen = seen[w]
        /\ goWait' = goWait \cup {w}
        /\ UNCHANGED <<pc, seen>>
     \/ /\ gen # seen[w]
        /\ seen' = [seen EXCEPT ![w] = gen]
        /\ Goto(w, "wake")
        /\ goWait' = goWait
  /\ UNCHANGED <<heapVars, held, doneWait, gen, job, cursor, active, args, range>>

WakeUnpark(w) ==
  /\ OnCpu(w, "wake")
  /\ Unpark(w)
  /\ Goto(w, "grab")
  /\ UNCHANGED <<held, goWait, doneWait, gen, seen, job, cursor, active, args, range>>

\* mutant: the count reaches zero and nobody tells the caller
FinishSilently(w) ==
  /\ OnCpu(w, "leave")
  /\ ~held
  /\ active' = active - 1
  /\ doneWait' = doneWait
  /\ Goto(w, "idle")
  /\ UNCHANGED <<heapVars, held, goWait, gen, seen, job, cursor, args, range>>

\* the critical section after pool_work_; the last one out signals the caller
Finish(w) ==
  /\ OnCpu(w, "leave")
  /\ ~held
  /\ active' = active - 1
  /\ doneWait' = (doneWait /\ active' # 0)
  /\ Goto(w, "idle")
  /\ UNCHANGED <<heapVars, held, goWait, gen, seen, job, cursor, args, range>>

-------------------------------------------------------------------------------
(* pool_work_, every thread of a dispatch *)

Grab(t) ==
  /\ OnCpu(t, "grab")
  /\ ~held
  /\ range' = [range EXCEPT ![t] = [lo |-> cursor, hi |-> 0]]
  /\ cursor' = Wrap(cursor + job.chunk)
  /\ Goto(t, "look")
  /\ UNCHANGED <<heapVars, held, goWait, doneWait, gen, seen, job, active, args>>

\* pool_job_ is read again, outside the mutex
Look(t) ==
  /\ OnCpu(t, "look")
  /\ LET lo == range[t].lo
         hi == Wrap(lo + job.chunk)
     IN \/ /\ lo >= job.n
           /\ Goto(t, "leave")
           /\ range' = [range EXCEPT ![t] = NoRange]
        \/ /\ lo < job.n
           /\ Goto(t, "kernel")
           /\ range' = [range EXCEPT ![t].hi = IF hi > job.n THEN job.n ELSE hi]
  /\ UNCHANGED <<heapVars, held, goWait, doneWait, gen, seen, job, cursor,
                 active, args>>

\* the kernel polls and allocates, so it may stop for a collection or ask
\* for one
KernelHeap(t) ==
  /\ OnCpu(t, "kernel")
  /\ Safepoint(t) \/ Collect(t)
  /\ UNCHANGED poolVars

KernelEnd(t) ==
  /\ OnCpu(t, "kernel")
  /\ Goto(t, "poll")
  /\ range' = [range EXCEPT ![t] = NoRange]
  /\ UNCHANGED <<heapVars, held, goWait, doneWait, gen, seen, job, cursor,
                 active, args>>

\* fpprt_safepoint after each chunk
Poll(t) ==
  /\ OnCpu(t, "poll")
  /\ IF collecting THEN Safepoint(t) ELSE UNCHANGED heapVars
  /\ Goto(t, "grab")
  /\ UNCHANGED <<held, goWait, doneWait, gen, seen, job, cursor, active, args, range>>

-------------------------------------------------------------------------------
\* a condition wait of the pool may return without a signal
PoolSpurious ==
  /\ \/ \E w \in goWait : goWait' = goWait \ {w} /\ doneWait' = doneWait
     \/ doneWait /\ doneWait' = FALSE /\ goWait' = goWait
  /\ UNCHANGED <<heapVars, pc, held, gen, seen, job, cursor, active, args, range>>

InHandshake(t) == (Wake(t) \/ SpuriousWake(t)) /\ UNCHANGED poolVars

CallerStep == Publish \/ Join \/ JoinPark \/ JoinCheck \/ Return
WorkerStep(w) == Start(w) \/ IdlePark(w) \/ CheckGo(w) \/ WakeUnpark(w) \/ Finish(w)
WorkStep(t) == Grab(t) \/ Look(t) \/ KernelEnd(t) \/ Poll(t)

Next ==
  \/ \E a \in Calls : Call(a)
  \/ CallerStep \/ UserCode
  \/ \E w \in Workers : WorkerStep(w)
  \/ \E t \in Threads : WorkStep(t) \/ KernelHeap(t) \/ InHandshake(t)
  \/ PoolSpurious

Spec == PoolInit /\ [][Next]_vars

\* Every thread is scheduled, gets the mutex it waits for, leaves a condition
\* wait once signalled and returns from its kernel; the caller's program and
\* a kernel poll while a collection is wanted.
FairSpec ==
  /\ Spec
  /\ WF_vars(CallerStep)
  /\ WF_vars(OnCpu(Caller, "user") /\ Safepoint(Caller) /\ UNCHANGED poolVars)
  /\ \A w \in Workers : WF_vars(WorkerStep(w))
  /\ \A t \in Threads :
       WF_vars(WorkStep(t)) /\ WF_vars(Wake(t) /\ UNCHANGED poolVars)

-------------------------------------------------------------------------------
(* Properties *)

\* where a thread works on the posted job
InWork(t) == pc[t] \in {"grab", "look", "kernel", "poll", "leave"}

\* Every index of the range is given to the kernel once, and the call returns
\* when every kernel has: the promise of a phased dispatch with one phase and
\* one group.  What was given and what was returned is read off the cursor
\* and the threads that hold a chunk.
Given ==
  {i \in 0 .. job.n - 1 :
     /\ i < cursor
     /\ \A t \in Threads :
          ~(pc[t] = "look" /\ range[t].lo <= i /\ i < range[t].lo + job.chunk)}

Ran ==
  {i \in Given : \A t \in Threads :
     ~(pc[t] = "kernel" /\ range[t].lo <= i /\ i < range[t].hi)}

Work == INSTANCE PhasedWork WITH
  Requests <- {[n |-> a.n, phases |-> 1] : a \in {b \in Calls : b.n > 0}},
  job   <- [n |-> job.n, phases |-> IF job.n = 0 THEN 0 ELSE 1,
            slices |-> IF job.n = 0 THEN {} ELSE {[lo |-> 0, hi |-> job.n]}],
  open  <- InWork(Caller) \/ pc[Caller] \in {"joinPark", "joinCheck"},
  begun <- {0} \X Given,
  ended <- {0} \X Ran

ServesCall == Work!Spec

\* A dispatch returns: neither a missed wake-up nor a collection it waits for
\* holds it up for ever.
DispatchReturns == pc[Caller] # "user" ~> pc[Caller] = "user"
===============================================================================
