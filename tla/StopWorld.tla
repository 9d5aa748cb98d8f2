------------------------------- MODULE StopWorld -------------------------------
(***************************************************************************)
(* The handshake that stops the world for a collection, as the runtime's   *)
(* collector implements it (runtime/gc/src/mmc.c; pcc.c has the same one)  *)
(* behind fpprt_thread_attach, _detach, _park, _unpark, fpprt_safepoint    *)
(* and fpprt_collect (runtime/fpprt.c:366-392).                            *)
(*                                                                         *)
(* heap->lock is held by every function below from its first statement to  *)
(* its last, except while it waits on a condition variable, so what runs   *)
(* between two waits is one action.  A wait is a state of the thread; it   *)
(* can go on only when it was signalled, and it then reads its condition   *)
(* again.  What a collection does to the heap is left out: here it is the  *)
(* interval during which nobody else may touch it.                         *)
(***************************************************************************)
EXTENDS Integers, FiniteSets

CONSTANTS
  Threads,         \* the OS threads
  MaxCollections   \* bound: how many collections a behaviour contains

ASSUME ThreadsAssumption == IsFiniteSet(Threads)
ASSUME MaxCollectionsAssumption == MaxCollections \in Nat

VARIABLES
  mut,             \* each thread's mutator: see States
  collecting,      \* heap->collecting
  count,           \* heap->mutator_count
  paused,          \* heap->paused_mutator_count
  inactive,        \* heap->inactive_mutator_count
  asleep,          \* threads in a wait on mutator_cond, not signalled
  ctrlAsleep,      \* the controller is in a wait on collector_cond, unsignalled
  collections      \* collections requested so far

heapVars == <<mut, collecting, count, paused, inactive, asleep, ctrlAsleep,
              collections>>

States ==
  {"detached",     \* no mutator
   "joining",      \* add_mutator waits for a collection to end
   "running",      \* an active mutator: it may touch the heap
   "paused",       \* pause_mutator_for_collection, from a safepoint
   "queued",       \* pause_mutator_for_collection, from trigger_collection
   "stopping",     \* collect: waits for the others to stop
   "collecting",   \* collect: the world is stopped
   "parked",       \* deactivated: blocked outside collected code
   "resuming"}     \* reactivate_mutator waits for a collection to end

\* all_mutators_stopped, on the counters it reads
AllStopped(c, p, i) == c = p + i

HeapInit ==
  /\ mut = [t \in Threads |-> "detached"]
  /\ collecting = FALSE
  /\ count = 0 /\ paused = 0 /\ inactive = 0
  /\ asleep = {} /\ ctrlAsleep = FALSE
  /\ collections = 0

\* the threads of S run, the others are not attached
HeapStart(S) ==
  /\ mut = [t \in Threads |-> IF t \in S THEN "running" ELSE "detached"]
  /\ count = Cardinality(S)
  /\ collecting = FALSE /\ paused = 0 /\ inactive = 0
  /\ asleep = {} /\ ctrlAsleep = FALSE /\ collections = 0

\* pthread_cond_signal(&heap->collector_cond) when the world has stopped
SignalController(c, p, i) == ctrlAsleep' = (ctrlAsleep /\ ~AllStopped(c, p, i))

\* thread t is now in state s, not waiting on mutator_cond unless said so
Becomes(t, s) == mut' = [mut EXCEPT ![t] = s]

-------------------------------------------------------------------------------
(* Attaching and detaching *)

Attach(t) ==
  /\ mut[t] = "detached"
  /\ \/ /\ ~collecting
        /\ Becomes(t, "running")
        /\ count' = count + 1
        /\ asleep' = asleep
     \/ /\ collecting
        /\ Becomes(t, "joining")
        /\ asleep' = asleep \cup {t}
        /\ count' = count
  /\ UNCHANGED <<collecting, paused, inactive, ctrlAsleep, collections>>

\* add_mutator, after a wait
AttachWake(t) ==
  /\ mut[t] = "joining" /\ t \notin asleep
  /\ \/ /\ ~collecting
        /\ Becomes(t, "running")
        /\ count' = count + 1
        /\ asleep' = asleep
     \/ /\ collecting
        /\ asleep' = asleep \cup {t}
        /\ UNCHANGED <<mut, count>>
  /\ UNCHANGED <<collecting, paused, inactive, ctrlAsleep, collections>>

\* mutant: a parked mutator's exit leaves the inactive count alone
DetachForgetsParked(t) ==
  /\ mut[t] \in {"running", "parked"}
  /\ Becomes(t, "detached")
  /\ count' = count - 1
  /\ IF collecting THEN SignalController(count', paused, inactive)
                   ELSE ctrlAsleep' = ctrlAsleep
  /\ UNCHANGED <<collecting, paused, inactive, asleep, collections>>

\* remove_mutator: signals only when a stop is in progress
Detach(t) ==
  /\ mut[t] \in {"running", "parked"}
  /\ Becomes(t, "detached")
  /\ count' = count - 1
  /\ inactive' = IF mut[t] = "parked" THEN inactive - 1 ELSE inactive
  /\ IF collecting THEN SignalController(count', paused, inactive')
                   ELSE ctrlAsleep' = ctrlAsleep
  /\ UNCHANGED <<collecting, paused, asleep, collections>>

-------------------------------------------------------------------------------
(* Parking around a blocking wait *)

\* deactivate_mutator: never blocks
Park(t) ==
  /\ mut[t] = "running"
  /\ Becomes(t, "parked")
  /\ inactive' = inactive + 1
  /\ SignalController(count, paused, inactive')
  /\ UNCHANGED <<collecting, count, paused, asleep, collections>>

\* mutant: a parked thread comes back in the middle of a collection
UnparkUnchecked(t) ==
  /\ mut[t] = "parked"
  /\ Becomes(t, "running")
  /\ inactive' = inactive - 1
  /\ UNCHANGED <<collecting, count, paused, asleep, ctrlAsleep, collections>>

\* reactivate_mutator: blocks while a collection is wanted or runs
Unpark(t) ==
  /\ mut[t] = "parked"
  /\ \/ /\ ~collecting
        /\ Becomes(t, "running")
        /\ inactive' = inactive - 1
        /\ asleep' = asleep
     \/ /\ collecting
        /\ Becomes(t, "resuming")
        /\ asleep' = asleep \cup {t}
        /\ inactive' = inactive
  /\ UNCHANGED <<collecting, count, paused, ctrlAsleep, collections>>

UnparkWake(t) ==
  /\ mut[t] = "resuming" /\ t \notin asleep
  /\ \/ /\ ~collecting
        /\ Becomes(t, "running")
        /\ inactive' = inactive - 1
        /\ asleep' = asleep
     \/ /\ collecting
        /\ asleep' = asleep \cup {t}
        /\ UNCHANGED <<mut, inactive>>
  /\ UNCHANGED <<collecting, count, paused, ctrlAsleep, collections>>

-------------------------------------------------------------------------------
(* Safepoints and collections *)

\* pause_mutator_for_collection up to its wait
Pause(t, s) ==
  /\ mut[t] = "running" /\ collecting
  /\ Becomes(t, s)
  /\ paused' = paused + 1
  /\ SignalController(count, paused', inactive)
  /\ asleep' = asleep \cup {t}
  /\ UNCHANGED <<collecting, count, inactive, collections>>

\* gc_safepoint_slow; when nothing is collecting a safepoint does nothing
Safepoint(t) == Pause(t, "paused")

\* request_mutators_to_stop and wait_for_mutators_to_stop, the counters as
\* collect finds them
StartCollect(t, p) ==
  /\ collections < MaxCollections
  /\ collections' = collections + 1
  /\ collecting' = TRUE
  /\ paused' = p + 1
  /\ IF AllStopped(count, p + 1, inactive)
     THEN Becomes(t, "collecting") /\ ctrlAsleep' = FALSE
     ELSE Becomes(t, "stopping") /\ ctrlAsleep' = TRUE
  /\ UNCHANGED <<count, inactive, asleep>>

\* trigger_collection, the first to ask and not
Collect(t) ==
  \/ mut[t] = "running" /\ ~collecting /\ StartCollect(t, paused)
  \/ Pause(t, "queued")

\* pause_mutator_for_collection after its wait: back to sleep if the next
\* collection has been requested meanwhile, else on.  A thread that wanted a
\* collection itself starts it if the one it sat out was of a lesser kind.
PausedWake(t) ==
  /\ mut[t] \in {"paused", "queued"} /\ t \notin asleep
  /\ \/ /\ collecting
        /\ asleep' = asleep \cup {t}
        /\ UNCHANGED <<mut, collecting, count, paused, inactive, ctrlAsleep,
                       collections>>
     \/ /\ ~collecting
        /\ Becomes(t, "running")
        /\ paused' = paused - 1
        /\ UNCHANGED <<collecting, count, inactive, asleep, ctrlAsleep,
                       collections>>
     \/ /\ ~collecting /\ mut[t] = "queued"
        /\ StartCollect(t, paused - 1)

\* wait_for_mutators_to_stop after its wait
ControllerWake(t) ==
  /\ mut[t] = "stopping" /\ ~ctrlAsleep
  /\ IF AllStopped(count, paused, inactive)
     THEN Becomes(t, "collecting") /\ ctrlAsleep' = FALSE
     ELSE mut' = mut /\ ctrlAsleep' = TRUE
  /\ UNCHANGED <<collecting, count, paused, inactive, asleep, collections>>

\* mutant: the end of the collection wakes one waiter, not all of them
FinishSignalOne(t) ==
  /\ mut[t] = "collecting"
  /\ Becomes(t, "running")
  /\ paused' = paused - 1
  /\ collecting' = FALSE
  /\ asleep' = IF asleep = {} THEN {} ELSE asleep \ {CHOOSE u \in asleep : TRUE}
  /\ UNCHANGED <<count, inactive, ctrlAsleep, collections>>

\* allow_mutators_to_continue, at the end of collect
FinishCollect(t) ==
  /\ mut[t] = "collecting"
  /\ Becomes(t, "running")
  /\ paused' = paused - 1
  /\ collecting' = FALSE
  /\ asleep' = {}
  /\ UNCHANGED <<count, inactive, ctrlAsleep, collections>>

\* a condition wait may return without a signal, as POSIX allows
SpuriousWake(t) ==
  /\ \/ t \in asleep /\ asleep' = asleep \ {t} /\ ctrlAsleep' = ctrlAsleep
     \/ mut[t] = "stopping" /\ ctrlAsleep /\ ctrlAsleep' = FALSE /\ asleep' = asleep
  /\ UNCHANGED <<mut, collecting, count, paused, inactive, collections>>

\* what a thread inside the handshake does without its program's doing
WaitOver(t) == AttachWake(t) \/ UnparkWake(t) \/ PausedWake(t) \/ ControllerWake(t)

Wake(t) == WaitOver(t) \/ FinishCollect(t)

-------------------------------------------------------------------------------
(* Threads that use the handshake in every order the interface allows *)

HeapNext == \E t \in Threads :
  \/ Attach(t) \/ Detach(t)
  \/ Park(t) \/ Unpark(t)
  \/ Safepoint(t) \/ Collect(t)
  \/ Wake(t) \/ SpuriousWake(t)

HeapSpec == HeapInit /\ [][HeapNext]_heapVars

\* A running thread polls (the compiler emits a poll at every loop back-edge),
\* one that was signalled gets the lock, and a collection ends.
HeapFairSpec ==
  /\ HeapSpec
  /\ \A t \in Threads : WF_heapVars(Safepoint(t)) /\ WF_heapVars(Wake(t))

-------------------------------------------------------------------------------
(* Properties *)

HeapTypeOK ==
  /\ mut \in [Threads -> States]
  /\ collecting \in BOOLEAN /\ ctrlAsleep \in BOOLEAN
  /\ count \in Nat /\ paused \in Nat /\ inactive \in Nat
  /\ asleep \subseteq Threads
  /\ collections \in 0 .. MaxCollections

InState(S) == {t \in Threads : mut[t] \in S}

Stopped == {"paused", "queued", "stopping", "collecting"}
Inactive == {"parked", "resuming"}
Attached == {"running"} \cup Stopped \cup Inactive

\* The point of it all: while a collection runs no thread is running, and
\* there is one collector.
WorldStopped ==
  \A c \in Threads : mut[c] = "collecting" =>
    \A t \in Threads : t # c =>
      mut[t] \in {"detached", "joining", "paused", "queued", "parked", "resuming"}

\* The three counters are what they are the counts of: an early or a late
\* adjustment would stop the world with a thread still running, or never.
CountersAgree ==
  /\ paused = Cardinality(InState(Stopped))
  /\ inactive = Cardinality(InState(Inactive))
  /\ count = Cardinality(InState(Attached))

\* No wake-up is lost: the controller does not sleep on a stopped world, and
\* nobody sleeps on mutator_cond when no collection is wanted.
NoLostWakeup ==
  /\ \A c \in Threads : mut[c] = "stopping" /\ ctrlAsleep =>
       ~AllStopped(count, paused, inactive)
  /\ asleep # {} => collecting

\* A requested collection takes place and ends.
CollectionEnds == collecting ~> ~collecting
===============================================================================
