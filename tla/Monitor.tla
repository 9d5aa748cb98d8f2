-------------------------------- MODULE Monitor --------------------------------
(***************************************************************************)
(* The recursive locks of objects, runtime/fpprt-lang.c:1768-1847: a mutex,*)
(* an owner and a depth per object, found through its identity hash (one   *)
(* per object: module IdHash).                                             *)
(*                                                                         *)
(* owner and depth are written under the mutex but read without it, to see *)
(* whether the caller already has the lock.  A read of depth by a thread   *)
(* that does not may return anything.  A read of owner may be stale, but   *)
(* not the reader itself: a thread's own writes of owner come in order, so *)
(* to that test the present owner is as good as a stale one.  Each read    *)
(* and each write is an action.                                            *)
(***************************************************************************)
EXTENDS StopWorld

CONSTANTS
  Lockers,         \* the threads that enter monitors
  Locks,           \* the objects used as locks
  MaxNesting       \* bound: how deep a thread nests its entries of one object

ASSUME LockersAssumption == Lockers \subseteq Threads
ASSUME MaxNestingAssumption == MaxNesting \in Nat \ {0}

VARIABLES
  pc,              \* where each thread is
  call,            \* the function it is in, or "none"
  lockOf,          \* the object it called it on
  mutex,           \* each monitor's mu: its holder, or Nobody
  owner,           \* each monitor's owner, or Nobody
  depth,           \* each monitor's depth
  inside           \* history: how often the program is in each object's lock,
                   \* by what the calls have told it

monVars == <<pc, call, lockOf, mutex, owner, depth, inside>>
monitorVars == <<heapVars, monVars>>

NoOwner == "nobody"
NoLock == "none"

ASSUME NobodyAssumption == NoOwner \notin Threads /\ NoLock \notin Locks

MonitorsInit ==
  /\ pc = [t \in Threads |-> "user"]
  /\ call = [t \in Threads |-> "none"]
  /\ lockOf = [t \in Threads |-> NoLock]
  /\ mutex = [o \in Locks |-> NoOwner]
  /\ owner = [o \in Locks |-> NoOwner]
  /\ depth = [o \in Locks |-> 0]
  /\ inside = [t \in Threads |-> [o \in Locks |-> 0]]

MonInit == HeapStart(Lockers) /\ MonitorsInit

\* t is at l and neither blocked inside the collector nor collecting
OnCpu(t, l) == pc[t] = l /\ mut[t] \in {"running", "parked"}

MonGoto(t, l) == pc' = [pc EXCEPT ![t] = l]

\* back in the program, with the count of its entries changed by k
Return(t, k) ==
  /\ pc' = [pc EXCEPT ![t] = "user"]
  /\ call' = [call EXCEPT ![t] = "none"]
  /\ lockOf' = [lockOf EXCEPT ![t] = NoLock]
  /\ inside' = [inside EXCEPT ![t][lockOf[t]] = @ + k]

-------------------------------------------------------------------------------
(* Calls, and the test all four begin with *)

Invoke(t, f, o) ==
  /\ OnCpu(t, "user")
  /\ f \in {"enter", "try"} => inside[t][o] < MaxNesting
  /\ call' = [call EXCEPT ![t] = f]
  /\ lockOf' = [lockOf EXCEPT ![t] = o]
  /\ MonGoto(t, "find")
  /\ UNCHANGED <<heapVars, mutex, owner, depth, inside>>

\* mon_of_; the first hash of an object allocates, which may take a collection
MonOf(t) ==
  /\ OnCpu(t, "find")
  /\ \/ MonGoto(t, "depth") /\ UNCHANGED heapVars
     \/ (Safepoint(t) \/ Collect(t)) /\ pc' = pc
  /\ UNCHANGED <<call, lockOf, mutex, owner, depth, inside>>

\* m->depth > 0
ReadDepth(t) ==
  /\ OnCpu(t, "depth")
  /\ \/ mutex[lockOf[t]] # t
     \/ depth[lockOf[t]] > 0
  /\ MonGoto(t, "owner")
  /\ UNCHANGED <<heapVars, call, lockOf, mutex, owner, depth, inside>>

ReadDepthZero(t) ==
  /\ OnCpu(t, "depth")
  /\ \/ mutex[lockOf[t]] # t
     \/ depth[lockOf[t]] <= 0
  /\ MonGoto(t, "foreign")
  /\ UNCHANGED <<heapVars, call, lockOf, mutex, owner, depth, inside>>

\* pthread_equal(m->owner, pthread_self())
ReadOwner(t) ==
  /\ OnCpu(t, "owner")
  /\ MonGoto(t, IF owner[lockOf[t]] = t THEN "own" ELSE "foreign")
  /\ UNCHANGED <<heapVars, call, lockOf, mutex, owner, depth, inside>>

\* the caller has the lock: one entry more, or the answer true
Reenter(t) ==
  /\ OnCpu(t, "own") /\ call[t] \in {"enter", "try"}
  /\ depth' = [depth EXCEPT ![lockOf[t]] = @ + 1]
  /\ Return(t, 1)
  /\ UNCHANGED <<heapVars, mutex, owner>>

IsEntered(t) ==
  /\ OnCpu(t, "own") \/ OnCpu(t, "foreign")
  /\ call[t] = "isEntered"
  /\ Return(t, 0)
  /\ UNCHANGED <<heapVars, mutex, owner, depth>>

-------------------------------------------------------------------------------
(* Entering as a stranger *)

EnterPark(t) ==
  /\ OnCpu(t, "foreign") /\ call[t] = "enter"
  /\ Park(t)
  /\ MonGoto(t, "wait")
  /\ UNCHANGED <<call, lockOf, mutex, owner, depth, inside>>

\* pthread_mutex_lock(&m->mu)
EnterLock(t) ==
  /\ OnCpu(t, "wait")
  /\ mutex[lockOf[t]] = NoOwner
  /\ mutex' = [mutex EXCEPT ![lockOf[t]] = t]
  /\ MonGoto(t, "unpark")
  /\ UNCHANGED <<heapVars, call, lockOf, owner, depth, inside>>

\* ... may wait for a collection, holding the mutex
EnterUnpark(t) ==
  /\ OnCpu(t, "unpark")
  /\ Unpark(t)
  /\ MonGoto(t, "setOwner")
  /\ UNCHANGED <<call, lockOf, mutex, owner, depth, inside>>

SetOwner(t) ==
  /\ OnCpu(t, "setOwner")
  /\ owner' = [owner EXCEPT ![lockOf[t]] = t]
  /\ MonGoto(t, "setDepth")
  /\ UNCHANGED <<heapVars, call, lockOf, mutex, depth, inside>>

SetDepth(t) ==
  /\ OnCpu(t, "setDepth")
  /\ depth' = [depth EXCEPT ![lockOf[t]] = 1]
  /\ Return(t, 1)
  /\ UNCHANGED <<heapVars, mutex, owner>>

TryLock(t) ==
  /\ OnCpu(t, "foreign") /\ call[t] = "try"
  /\ mutex[lockOf[t]] = NoOwner
  /\ mutex' = [mutex EXCEPT ![lockOf[t]] = t]
  /\ MonGoto(t, "setOwner")
  /\ UNCHANGED <<heapVars, call, lockOf, owner, depth, inside>>

TryFails(t) ==
  /\ OnCpu(t, "foreign") /\ call[t] = "try"
  /\ mutex[lockOf[t]] # NoOwner
  /\ Return(t, 0)
  /\ UNCHANGED <<heapVars, mutex, owner, depth>>

-------------------------------------------------------------------------------
(* Leaving *)

\* an exit by a thread that is not inside does nothing
ExitForeign(t) ==
  /\ OnCpu(t, "foreign") /\ call[t] = "exit"
  /\ Return(t, 0)
  /\ UNCHANGED <<heapVars, mutex, owner, depth>>

\* mutant: the outermost exit leaves the owner in place
ExitKeepsOwner(t) ==
  /\ OnCpu(t, "own") /\ call[t] = "exit"
  /\ depth' = [depth EXCEPT ![lockOf[t]] = @ - 1]
  /\ IF depth[lockOf[t]] = 1
     THEN MonGoto(t, "unlock") /\ UNCHANGED <<call, lockOf, inside>>
     ELSE Return(t, -1)
  /\ UNCHANGED <<heapVars, mutex, owner>>

ExitOwn(t) ==
  /\ OnCpu(t, "own") /\ call[t] = "exit"
  /\ depth' = [depth EXCEPT ![lockOf[t]] = @ - 1]
  /\ IF depth[lockOf[t]] = 1
     THEN MonGoto(t, "clear") /\ UNCHANGED <<call, lockOf, inside>>
     ELSE Return(t, -1)
  /\ UNCHANGED <<heapVars, mutex, owner>>

ClearOwner(t) ==
  /\ OnCpu(t, "clear")
  /\ owner' = [owner EXCEPT ![lockOf[t]] = NoOwner]
  /\ MonGoto(t, "unlock")
  /\ UNCHANGED <<heapVars, call, lockOf, mutex, depth, inside>>

Unlock(t) ==
  /\ OnCpu(t, "unlock")
  /\ mutex' = [mutex EXCEPT ![lockOf[t]] = NoOwner]
  /\ Return(t, -1)
  /\ UNCHANGED <<heapVars, owner, depth>>

-------------------------------------------------------------------------------
MonUserHeap(t) ==
  /\ OnCpu(t, "user")
  /\ Safepoint(t) \/ Collect(t)
  /\ UNCHANGED monVars

MonInHandshake(t) == (Wake(t) \/ SpuriousWake(t)) /\ UNCHANGED monVars

Functions == {"enter", "try", "exit", "isEntered"}

\* what a thread does inside a call, waiting for the mutex apart
Inside(t) ==
  \/ MonOf(t) \/ ReadDepth(t) \/ ReadDepthZero(t) \/ ReadOwner(t)
  \/ Reenter(t) \/ IsEntered(t)
  \/ EnterPark(t) \/ EnterUnpark(t) \/ SetOwner(t) \/ SetDepth(t)
  \/ TryLock(t) \/ TryFails(t)
  \/ ExitForeign(t) \/ ExitOwn(t) \/ ClearOwner(t) \/ Unlock(t)

MonNext == \E t \in Lockers :
  \/ \E f \in Functions, o \in Locks : Invoke(t, f, o)
  \/ Inside(t) \/ EnterLock(t) \/ MonUserHeap(t) \/ MonInHandshake(t)

MonSpec == MonInit /\ [][MonNext]_monitorVars

\* A thread inside a call is scheduled; one in user code passes a poll again
\* and again, though not between two calls.  Who gets a mutex is anybody's
\* guess, and nobody has to leave a lock.
MonFairSpec ==
  /\ MonSpec
  /\ \A t \in Lockers :
       /\ WF_monitorVars(Inside(t))
       /\ WF_monitorVars(Wake(t) /\ UNCHANGED monVars)
       /\ SF_monitorVars(OnCpu(t, "user") /\ Safepoint(t) /\ UNCHANGED monVars)

-------------------------------------------------------------------------------
(* Properties *)

\* One thread at a time is inside an object's lock.  depth is the nesting of
\* that thread, which is the owner and holds the mutex; where nobody is inside
\* and no call is under way, all is clear.  The test for the owner that is made
\* without the mutex is never wrong about the caller.
MutualExclusion ==
  /\ \A o \in Locks :
       /\ \A t, u \in Threads : inside[t][o] > 0 /\ inside[u][o] > 0 => t = u
       /\ \A t \in Threads : inside[t][o] > 0 /\ lockOf[t] # o =>
            mutex[o] = t /\ owner[o] = t /\ depth[o] = inside[t][o]
       /\ (\A t \in Threads : inside[t][o] = 0 /\ lockOf[t] # o) =>
            mutex[o] = NoOwner /\ owner[o] = NoOwner /\ depth[o] = 0
  /\ \A t \in Threads :
       /\ pc[t] = "own" => inside[t][lockOf[t]] > 0
       /\ pc[t] = "foreign" => inside[t][lockOf[t]] = 0
===============================================================================
