-------------------------------- MODULE Phased --------------------------------
(***************************************************************************)
(* The phased dispatch of the worker pool, runtime/fpprt.c:500-626.  The   *)
(* caller (thread 0) cuts [0, n) into groups and sends every pool thread   *)
(* through the plain dispatch into phased_work_, where the threads grab    *)
(* chunks of any group whose current phase still has some, run the kernel  *)
(* outside the lock and retire the chunk under it.  The last chunk of a    *)
(* phase to retire opens the group's next phase: that is the barrier.      *)
(*                                                                         *)
(* pool_mu_ is held for the whole of a grab and of a retirement, so each   *)
(* is one action.  The plain dispatch underneath (who wakes when, the      *)
(* join, parking for the collector) is module Pool; what this module uses  *)
(* of it is its contract: the threads enter in any order, take the indexes *)
(* 0..PoolSize once each, and the call returns when all have left.         *)
(***************************************************************************)
EXTENDS Integers, FiniteSets

CONSTANTS
  PoolSize,        \* pool_size_: the workers, the caller not counted
  GroupMax,        \* FPP_GROUP_MAX
  Calls            \* the argument records [n, chunk, groups, phases] tried

ASSUME PoolSizeAssumption == PoolSize \in Nat \ {0}
ASSUME GroupMaxAssumption == GroupMax \in Nat \ {0}
ASSUME CallsAssumption ==
  Calls \subseteq [n : Int, chunk : Int, groups : Int, phases : Int]

Threads == 0 .. PoolSize
GroupIds == 0 .. GroupMax - 1

VARIABLES
  groups,          \* phased_groups_: the slice, phase, cursor and live count
  ngroups,         \* phased_ngroups_
  phases,          \* phased_phases_
  chunk,           \* phased_chunk_
  done,            \* phased_done_: groups through their last phase
  cursor,          \* pool_cursor_ of the dispatch that carries the workers
  pc,              \* where each thread is
  home,            \* phased_work_'s argument: the group a thread scans first
  job              \* phased_work_'s locals phase, lo, hi

vars == <<groups, ngroups, phases, chunk, done, cursor, pc, home, job>>

Lesser(a, b) == IF a <= b THEN a ELSE b
Greater(a, b) == IF a <= b THEN b ELSE a

-------------------------------------------------------------------------------
(* The arithmetic of a call. *)

\* fpp_pool_dispatch_phased's clamps on groups, in their order
GroupCount(c) == Lesser(Lesser(Greater(c.groups, 1), GroupMax), c.n)

\* ... and its default for a chunk that is not positive
ChunkSize(c) == IF c.chunk <= 0 THEN c.n \div (GroupCount(c) * 8) + 1
                                ELSE c.chunk

\* where group g of k starts in [0, n): the first n % k groups are one longer
SliceStart(n, k, g) == g * (n \div k) + Lesser(g, n % k)

\* mutant: a short last chunk is not counted
ChunksRoundedDown(len, c) == Greater(len \div c, 1)

\* phased_chunks_of_: how many chunks of size c cover len indexes
ChunksOf(len, c) == (len + c - 1) \div c

NoGroup == [lo |-> 0, hi |-> 0, phase |-> 0, cursor |-> 0, live |-> 0]
NoJob == [phase |-> 0, lo |-> 0, hi |-> 0]

InitGroup(n, k, c, g) ==
  LET lo == SliceStart(n, k, g)
      hi == SliceStart(n, k, g + 1)
  IN  [lo |-> lo, hi |-> hi, phase |-> 0, cursor |-> lo,
       live |-> ChunksOf(hi - lo, c)]

-------------------------------------------------------------------------------
Init ==
  /\ groups = [g \in GroupIds |-> NoGroup]
  /\ ngroups = 0 /\ phases = 0 /\ chunk = 0 /\ done = 0
  /\ cursor = 0
  /\ pc = [t \in Threads |-> "idle"]
  /\ home = [t \in Threads |-> 0]
  /\ job = [t \in Threads |-> NoJob]

\* fpp_pool_dispatch_phased up to the plain dispatch it ends in: the
\* globals are set without the lock, when no worker is in a dispatch.
Dispatch(c) ==
  /\ \A t \in Threads : pc[t] = "idle"
  /\ c.n > 0 /\ c.phases > 0
  /\ ngroups' = GroupCount(c)
  /\ phases' = c.phases
  /\ chunk' = ChunkSize(c)
  /\ done' = 0
  /\ groups' = [g \in GroupIds |->
                  IF g < GroupCount(c)
                  THEN InitGroup(c.n, GroupCount(c), ChunkSize(c), g)
                  ELSE groups[g]]
  /\ cursor' = 0
  /\ pc' = [t \in Threads |-> "take"]
  /\ UNCHANGED <<home, job>>

\* pool_work_ with n = PoolSize + 1 and chunk = 1: an index is a home group
Take(t) ==
  /\ pc[t] = "take"
  /\ cursor < PoolSize + 1
  /\ home' = [home EXCEPT ![t] = cursor]
  /\ cursor' = cursor + 1
  /\ pc' = [pc EXCEPT ![t] = "grab"]
  /\ UNCHANGED <<groups, ngroups, phases, chunk, done, job>>

\* pool_work_ finds no index left: the thread leaves the dispatch
Leave(t) ==
  /\ pc[t] = "take"
  /\ cursor >= PoolSize + 1
  /\ cursor' = cursor + 1
  /\ pc' = [pc EXCEPT ![t] = "idle"]
  /\ UNCHANGED <<groups, ngroups, phases, chunk, done, home, job>>

-------------------------------------------------------------------------------
(* phased_work_: grab, kernel, retire *)

Runnable(g) == groups[g].phase < phases /\ groups[g].cursor < groups[g].hi

\* the place of group g in the scan that starts at home group h
ScanRank(h, g) == (g + PoolSize * ngroups - h) % ngroups

FirstRunnable(h, g) ==
  /\ Runnable(g)
  /\ \A k \in 0 .. ngroups - 1 :
       Runnable(k) => ScanRank(h, g) <= ScanRank(h, k)

\* phased_grab_ returns 1
Grab(t) ==
  /\ pc[t] = "grab"
  /\ done # ngroups
  /\ \E g \in 0 .. ngroups - 1 :
       LET from == groups[g].cursor
           to == Lesser(from + chunk, groups[g].hi)
       IN  /\ FirstRunnable(home[t], g)
           /\ job' = [job EXCEPT ![t] =
                        [phase |-> groups[g].phase, lo |-> from, hi |-> to]]
           /\ groups' = [groups EXCEPT ![g].cursor = to]
  /\ pc' = [pc EXCEPT ![t] = "kernel"]
  /\ UNCHANGED <<ngroups, phases, chunk, done, cursor, home>>

\* phased_grab_ returns 0: safepoint, sched_yield, try again
GrabNothing(t) ==
  /\ pc[t] = "grab"
  /\ done # ngroups
  /\ \A g \in 0 .. ngroups - 1 : ~Runnable(g)
  /\ pc' = [pc EXCEPT ![t] = "yield"]
  /\ UNCHANGED <<groups, ngroups, phases, chunk, done, cursor, home, job>>

Yield(t) ==
  /\ pc[t] = "yield"
  /\ pc' = [pc EXCEPT ![t] = "grab"]
  /\ UNCHANGED <<groups, ngroups, phases, chunk, done, cursor, home, job>>

\* mutant: a thread keeps polling until every group's count is over the top
PollForever(t) ==
  /\ pc[t] = "grab"
  /\ done = ngroups
  /\ pc' = [pc EXCEPT ![t] = IF home[t] = 0 THEN "yield" ELSE "take"]
  /\ home' = [home EXCEPT ![t] = 0]
  /\ UNCHANGED <<groups, ngroups, phases, chunk, done, cursor, job>>

\* phased_grab_ returns -1: back to pool_work_, the locals are gone
GrabFinished(t) ==
  /\ pc[t] = "grab"
  /\ done = ngroups
  /\ pc' = [pc EXCEPT ![t] = "take"]
  /\ home' = [home EXCEPT ![t] = 0]
  /\ UNCHANGED <<groups, ngroups, phases, chunk, done, cursor, job>>

\* the kernel returns; it ran without the lock since the grab
KernelEnd(t) ==
  /\ pc[t] = "kernel"
  /\ pc' = [pc EXCEPT ![t] = "retire"]
  /\ UNCHANGED <<groups, ngroups, phases, chunk, done, cursor, home, job>>

InSlice(g, i) == groups[g].lo <= i /\ i < groups[g].hi

\* mutant: the phase advances when its last chunk is grabbed, not retired
RetireAtLastGrab(g) ==
  LET r == groups[g] IN
  \/ /\ r.cursor < r.hi
     /\ groups' = [groups EXCEPT ![g].live = r.live - 1]
     /\ done' = done
  \/ /\ r.cursor >= r.hi /\ r.phase + 1 >= phases
     /\ groups' = [groups EXCEPT ![g].live = 0, ![g].phase = r.phase + 1]
     /\ done' = done + 1
  \/ /\ r.cursor >= r.hi /\ r.phase + 1 < phases
     /\ groups' = [groups EXCEPT ![g].live = ChunksOf(r.hi - r.lo, chunk),
                                 ![g].phase = r.phase + 1,
                                 ![g].cursor = r.lo]
     /\ done' = done

\* phased_retire_
RetireGroup(g) ==
  LET r == groups[g] IN
  \/ /\ r.live # 1
     /\ groups' = [groups EXCEPT ![g].live = r.live - 1]
     /\ done' = done
  \/ /\ r.live = 1 /\ r.phase + 1 >= phases
     /\ groups' = [groups EXCEPT ![g].live = 0, ![g].phase = r.phase + 1]
     /\ done' = done + 1
  \/ /\ r.live = 1 /\ r.phase + 1 < phases
     /\ groups' = [groups EXCEPT ![g].live = ChunksOf(r.hi - r.lo, chunk),
                                 ![g].phase = r.phase + 1,
                                 ![g].cursor = r.lo]
     /\ done' = done

\* mutant: the chunk is retired from the thread's home group
RetireFromHome(t) ==
  /\ pc[t] = "retire"
  /\ RetireGroup(home[t] % ngroups)
  /\ pc' = [pc EXCEPT ![t] = "grab"]
  /\ job' = [job EXCEPT ![t] = NoJob]
  /\ UNCHANGED <<ngroups, phases, chunk, cursor, home>>

\* the tail of phased_work_'s loop: the group is found again from lo, the
\* first whose slice holds it (the slices are disjoint and cover [0, n))
Retire(t) ==
  /\ pc[t] = "retire"
  /\ \E g \in 0 .. ngroups - 1 :
       /\ InSlice(g, job[t].lo)
       /\ \A k \in 0 .. g - 1 : ~InSlice(k, job[t].lo)
       /\ RetireGroup(g)
  /\ pc' = [pc EXCEPT ![t] = "grab"]
  /\ job' = [job EXCEPT ![t] = NoJob]
  /\ UNCHANGED <<ngroups, phases, chunk, cursor, home>>

Step(t) ==
  \/ Take(t) \/ Leave(t)
  \/ Grab(t) \/ GrabNothing(t) \/ Yield(t) \/ GrabFinished(t)
  \/ KernelEnd(t) \/ Retire(t)

Next == (\E c \in Calls : Dispatch(c)) \/ (\E t \in Threads : Step(t))

Spec == Init /\ [][Next]_vars

\* Every thread that is in a dispatch is scheduled, gets the mutex it asks
\* for and returns from its kernel; nobody has to call the next dispatch.
FairSpec == Spec /\ \A t \in Threads : WF_vars(Step(t))

-------------------------------------------------------------------------------
(* Properties *)

\* thread t has a chunk: it runs the kernel or is about to retire it
InFlight(t) == pc[t] \in {"kernel", "retire"}

InFlightOf(g) == {t \in Threads : InFlight(t) /\ InSlice(g, job[t].lo)}

TypeOK ==
  /\ groups \in [GroupIds ->
       [lo : Nat, hi : Nat, phase : Nat, cursor : Nat, live : Int]]
  /\ ngroups \in 0 .. GroupMax
  /\ phases \in Nat /\ done \in Nat /\ cursor \in Nat
  /\ chunk \in Nat /\ (ngroups # 0 => chunk # 0)
  /\ pc \in [Threads -> {"idle", "take", "grab", "yield", "kernel", "retire"}]
  /\ home \in [Threads -> Nat]
  /\ job \in [Threads -> [phase : Nat, lo : Nat, hi : Nat]]

\* The barrier of fpprt.c:500-505: two threads that hold chunks of the same
\* group hold them in the same phase, and never the same index.
Lockstep ==
  \A g \in 0 .. ngroups - 1 : \A t, u \in InFlightOf(g) :
    t # u => /\ job[t].phase = job[u].phase
             /\ job[t].hi <= job[u].lo \/ job[u].hi <= job[t].lo

\* fpp_group.live counts what the phase still owes: the chunks not grabbed
\* yet and the chunks in flight.  A retirement too many or too few opens the
\* barrier early or never.
LiveAccounting ==
  \A g \in 0 .. ngroups - 1 :
    groups[g].phase < phases =>
      groups[g].live = ChunksOf(groups[g].hi - groups[g].cursor, chunk)
                         + Cardinality(InFlightOf(g))

\* A thread spins in phased_work_ only while some chunk is in flight whose
\* retirement can make it stop: no state leaves everyone yielding forever.
SpinIsJustified ==
  (/\ \E t \in Threads : pc[t] \in {"grab", "yield"}
   /\ done # ngroups
   /\ \A g \in 0 .. ngroups - 1 : ~Runnable(g))
  => \E t \in Threads : InFlight(t)

\* The implementation of the promise.  What was handed to the kernel, and
\* what it has returned from, is read off the phase and the cursor of the
\* index's group and the chunks in flight.
RangeEnd == IF ngroups = 0 THEN 0 ELSE groups[ngroups - 1].hi

Begun ==
  {pi \in (0 .. phases - 1) \X (0 .. RangeEnd - 1) :
     \E g \in 0 .. ngroups - 1 :
       /\ InSlice(g, pi[2])
       /\ \/ pi[1] < groups[g].phase
          \/ pi[1] = groups[g].phase /\ pi[2] < groups[g].cursor}

Ended ==
  {pi \in Begun : \A t \in Threads :
     ~(/\ pc[t] = "kernel" /\ job[t].phase = pi[1]
       /\ job[t].lo <= pi[2] /\ pi[2] < job[t].hi)}

Work == INSTANCE PhasedWork WITH
  Requests <- {c \in Calls : c.n > 0 /\ c.phases > 0},
  job   <- [n |-> RangeEnd, phases |-> phases,
            slices |-> {[lo |-> groups[g].lo, hi |-> groups[g].hi] :
                          g \in 0 .. ngroups - 1}],
  open  <- \E t \in Threads : pc[t] # "idle",
  begun <- Begun,
  ended <- Ended

\* Every index once per phase, phase order within a group, and a return only
\* when all is done: the dispatch does what fpprt.h:190 says of it.
KeepsPromise == Work!Spec

\* A dispatch ends: the spinning of phased_work_ is not a livelock.
DispatchReturns ==
  (\E t \in Threads : pc[t] # "idle") ~> (\A t \in Threads : pc[t] = "idle")
===============================================================================
