----------------------------- MODULE ThreadsProofs -----------------------------
(***************************************************************************)
(* The handshake of threads and collector, module StopWorld, for every     *)
(* finite set of threads and every number of collections; and what hangs   *)
(* on the identity of objects: one hash for each, module IdHash, and one   *)
(* owner of each lock, module Monitor, for any threads, objects, addresses *)
(* and nesting, and any size of the table.  Of the handshake the hashes    *)
(* use the invariant: a collection finds no thread between its read of an  *)
(* address and the search for it.  The monitors use only that it leaves    *)
(* them alone.                                                             *)
(*                                                                         *)
(* Last, the event loop of one thread and its channel, module AsyncLoop:   *)
(* for any tasks, scopes and delays, every suspended task is resumed in    *)
(* exactly one way, values are received in the order of the sends and of   *)
(* the receives, and none is lost but to a cancelled scope.                *)
(***************************************************************************)
EXTENDS IdHash, Monitor, AsyncLoop, FiniteSetTheorems, FunctionTheorems, TLAPS

-------------------------------------------------------------------------------
(* The handshake *)

Num(S) == Cardinality(InState(S))

\* what HeapTypeOK says, with counters that might be negative
TypeInv ==
  /\ mut \in [Threads -> States]
  /\ collecting \in BOOLEAN /\ ctrlAsleep \in BOOLEAN
  /\ count \in Int /\ paused \in Int /\ inactive \in Int
  /\ asleep \subseteq Threads
  /\ collections \in 0 .. MaxCollections

Control == {"stopping", "collecting"}

\* there is a controller exactly while a collection is wanted, and one
Controlled ==
  /\ collecting <=> InState(Control) # {}
  /\ \A t, u \in InState(Control) : t = u

\* the world, once stopped, stays so until the controller lets it go
StaysStopped ==
  InState({"collecting"}) # {} => AllStopped(count, paused, inactive)

HeapInv ==
  TypeInv /\ CountersAgree /\ Controlled /\ StaysStopped /\ NoLostWakeup

-------------------------------------------------------------------------------
(* Counting threads by state *)

LEMMA NumType ==
  ASSUME NEW S
  PROVE  IsFiniteSet(InState(S)) /\ Num(S) \in Nat
<1>1. InState(S) \subseteq Threads
  BY DEF InState
<1>2. QED
  BY <1>1, ThreadsAssumption, FS_Subset, FS_CardinalityType DEF Num

\* A thread that changes state leaves one set of states and enters another.
LEMMA MoveNum ==
  ASSUME TypeInv, NEW t \in Threads, NEW s \in States, Becomes(t, s),
         NEW CONSTANT S
  PROVE  Num(S)' = Num(S) + (IF s \in S THEN 1 ELSE 0)
                          - (IF mut[t] \in S THEN 1 ELSE 0)
<1>1. /\ mut'[t] = s
      /\ \A u \in Threads : u # t => mut'[u] = mut[u]
  BY DEF Becomes, TypeInv
<1>2. IsFiniteSet(InState(S)) /\ Num(S) \in Nat
  BY NumType
<1>6. /\ Num(S) = Cardinality(InState(S))
      /\ Num(S)' = Cardinality(InState(S)')
  BY DEF Num
<1>3. CASE s \in S
  <2>1. InState(S)' = InState(S) \cup {t}
    BY <1>1, <1>3 DEF InState
  <2>2. t \in InState(S) <=> mut[t] \in S
    BY DEF InState
  <2>3. Cardinality(InState(S) \cup {t}) =
          IF t \in InState(S) THEN Num(S) ELSE Num(S) + 1
    BY <1>2, <1>6, FS_AddElement
  <2>4. QED
    BY <1>2, <1>3, <1>6, <2>1, <2>2, <2>3
<1>4. CASE s \notin S
  <2>1. InState(S)' = InState(S) \ {t}
    BY <1>1, <1>4 DEF InState
  <2>2. t \in InState(S) <=> mut[t] \in S
    BY DEF InState
  <2>3. Cardinality(InState(S) \ {t}) =
          IF t \in InState(S) THEN Num(S) - 1 ELSE Num(S)
    BY <1>2, <1>6, FS_RemoveElement
  <2>4. QED
    BY <1>2, <1>4, <1>6, <2>1, <2>2, <2>3
<1>5. QED
  BY <1>3, <1>4

\* Attached mutators are running, stopped or inactive.
LEMMA Partition ==
  Num(Attached) = Num({"running"}) + Num(Stopped) + Num(Inactive)
<1> DEFINE R == InState({"running"})
           P == InState(Stopped)
           I == InState(Inactive)
<1>1. InState(Attached) = (R \cup P) \cup I
  BY DEF InState, Attached
<1>2. R \cap P = {} /\ (R \cup P) \cap I = {}
  BY DEF InState, Stopped, Inactive
<1>3. /\ IsFiniteSet(R) /\ IsFiniteSet(P) /\ IsFiniteSet(I)
      /\ Cardinality(R) \in Nat /\ Cardinality(P) \in Nat /\ Cardinality(I) \in Nat
  BY NumType DEF Num
<1> HIDE DEF R, P, I
<1>7. Cardinality({}) = 0
  BY FS_EmptySet
<1>4. Cardinality(R \cup P) = Cardinality(R) + Cardinality(P) /\ IsFiniteSet(R \cup P)
  <2>1. /\ IsFiniteSet(R \cup P)
        /\ Cardinality(R \cup P) =
             Cardinality(R) + Cardinality(P) - Cardinality(R \cap P)
    BY <1>3, FS_Union
  <2>2. Cardinality(R \cap P) = 0
    BY <1>2, <1>7
  <2>3. QED
    BY <1>3, <2>1, <2>2
<1>5. Cardinality((R \cup P) \cup I) = Cardinality(R \cup P) + Cardinality(I)
  <2> DEFINE U == R \cup P
  <2>1. U \cap I = {} /\ IsFiniteSet(U) /\ Cardinality(U) \in Nat
    BY <1>2, <1>3, <1>4
  <2> HIDE DEF U
  <2>2. Cardinality(U \cup I) =
          Cardinality(U) + Cardinality(I) - Cardinality(U \cap I)
    BY <1>3, <2>1, FS_Union
  <2>3. Cardinality(U \cap I) = 0
    BY <1>7, <2>1
  <2>4. Cardinality(U \cup I) = Cardinality(U) + Cardinality(I)
    BY <1>3, <2>1, <2>2, <2>3
  <2>5. QED
    BY <2>4 DEF U
<1>6. QED
  BY <1>1, <1>4, <1>5 DEF Num, R, P, I

\* When the counters say that all have stopped, nobody is running.
LEMMA StoppedMeansNoneRunning ==
  ASSUME CountersAgree, AllStopped(count, paused, inactive)
  PROVE  InState({"running"}) = {}
<1>1. Num({"running"}) = 0
  <2>1. /\ paused = Num(Stopped) /\ inactive = Num(Inactive)
        /\ count = Num(Attached)
    BY DEF CountersAgree, Num
  <2>2. Num({"running"}) \in Nat /\ Num(Stopped) \in Nat /\ Num(Inactive) \in Nat
    BY NumType
  <2>3. QED
    BY <2>1, <2>2, Partition DEF AllStopped
<1>2. QED
  BY <1>1, NumType, FS_EmptySet DEF Num

-------------------------------------------------------------------------------
(* Steps *)

In(s, S) == IF s \in S THEN 1 ELSE 0

\* The counters follow a thread's move when each is adjusted by what the
\* move does to the set it counts.
LEMMA MoveCounters ==
  ASSUME TypeInv, CountersAgree, NEW t \in Threads, NEW s \in States,
         Becomes(t, s),
         paused' = paused + In(s, Stopped) - In(mut[t], Stopped),
         inactive' = inactive + In(s, Inactive) - In(mut[t], Inactive),
         count' = count + In(s, Attached) - In(mut[t], Attached)
  PROVE  CountersAgree'
<1>1. /\ paused = Num(Stopped) /\ inactive = Num(Inactive)
      /\ count = Num(Attached)
  BY DEF CountersAgree, Num
<1>2. /\ Num(Stopped)' = Num(Stopped) + In(s, Stopped) - In(mut[t], Stopped)
      /\ Num(Inactive)' = Num(Inactive) + In(s, Inactive) - In(mut[t], Inactive)
      /\ Num(Attached)' = Num(Attached) + In(s, Attached) - In(mut[t], Attached)
  BY MoveNum DEF In
<1>3. /\ paused' = Num(Stopped)' /\ inactive' = Num(Inactive)'
      /\ count' = Num(Attached)'
  BY <1>1, <1>2
<1>4. QED
  BY <1>3 DEF CountersAgree, Num

\* A thread that is not the controller leaves the controller where it is.
LEMMA Bystander ==
  ASSUME TypeInv, NEW t \in Threads, NEW s \in States, Becomes(t, s),
         s \notin Control, mut[t] \notin Control
  PROVE  /\ InState(Control)' = InState(Control)
         /\ InState({"collecting"})' = InState({"collecting"})
         /\ InState({"stopping"})' = InState({"stopping"})
  BY DEF TypeInv, Becomes, InState, Control

\* ... and while it collects nobody is running.
LEMMA NoRunnerWhileCollecting ==
  ASSUME HeapInv, NEW t \in Threads, mut[t] = "running"
  PROVE  InState({"collecting"}) = {}
<1>1. t \in InState({"running"})
  BY DEF InState
<1>2. QED
  BY <1>1, StoppedMeansNoneRunning DEF HeapInv, StaysStopped

LEMMA IdleMeansNoController ==
  ASSUME HeapInv, ~collecting
  PROVE  /\ InState(Control) = {} /\ InState({"collecting"}) = {}
         /\ InState({"stopping"}) = {} /\ asleep = {}
<1>1. InState(Control) = {} /\ asleep = {}
  BY DEF HeapInv, Controlled, NoLostWakeup
<1>2. QED
  BY <1>1 DEF InState, Control

\* NoLostWakeup, read through the set of controllers
LEMMA WakeupForm ==
  NoLostWakeup <=>
    /\ InState({"stopping"}) # {} /\ ctrlAsleep => ~AllStopped(count, paused, inactive)
    /\ asleep # {} => collecting
  BY DEF NoLostWakeup, InState

\* Steps after which no thread has changed state and no counter has.
LEMMA NobodyMoves ==
  ASSUME HeapInv, UNCHANGED <<mut, collecting, count, paused, inactive, collections>>,
         asleep' \subseteq Threads, ctrlAsleep' \in BOOLEAN,
         asleep' # {} => collecting,
         ctrlAsleep' /\ InState({"stopping"}) # {} =>
           ~AllStopped(count, paused, inactive)
  PROVE  HeapInv'
<1>1. \A S : InState(S)' = InState(S)
  BY DEF InState
<1>2. TypeInv' /\ CountersAgree' /\ Controlled' /\ StaysStopped'
  BY <1>1 DEF HeapInv, TypeInv, CountersAgree, Controlled, StaysStopped, AllStopped
<1>3. NoLostWakeup'
  BY DEF NoLostWakeup, InState, AllStopped
<1>4. QED
  BY <1>2, <1>3 DEF HeapInv

\* Moves of a thread other than the controller, when nothing is collecting.
LEMMA QuietMove ==
  ASSUME HeapInv, ~collecting, NEW t \in Threads, NEW s \in States,
         Becomes(t, s), s \notin Control,
         UNCHANGED <<collecting, asleep, collections>>,
         ctrlAsleep' \in BOOLEAN,
         count' \in Int, paused' \in Int, inactive' \in Int,
         CountersAgree'
  PROVE  HeapInv'
<1>1. mut[t] \notin Control
  BY IdleMeansNoController DEF InState
<1>2. /\ InState(Control)' = {} /\ InState({"collecting"})' = {}
      /\ InState({"stopping"})' = {} /\ asleep = {}
  BY <1>1, Bystander, IdleMeansNoController DEF HeapInv
<1>3. TypeInv'
  BY DEF HeapInv, TypeInv, Becomes
<1>4. Controlled' /\ StaysStopped'
  BY <1>2 DEF Controlled, StaysStopped
<1>5. NoLostWakeup'
  BY <1>2 DEF NoLostWakeup, InState
<1>6. QED
  BY <1>3, <1>4, <1>5 DEF HeapInv

\* Moves of a thread other than the controller, during a collection or the
\* wait for one: the controller is told when they stop the world.
LEMMA MoveDuringStop ==
  ASSUME HeapInv, collecting, NEW t \in Threads, NEW s \in States,
         Becomes(t, s), s \notin Control, mut[t] \notin Control,
         UNCHANGED <<collecting, collections>>,
         asleep' \subseteq Threads, ctrlAsleep' \in BOOLEAN,
         count' \in Int, paused' \in Int, inactive' \in Int,
         CountersAgree',
         InState({"collecting"}) # {} => AllStopped(count', paused', inactive'),
         ctrlAsleep' /\ InState({"stopping"}) # {} =>
           ~AllStopped(count', paused', inactive')
  PROVE  HeapInv'
<1>1. /\ InState(Control)' = InState(Control)
      /\ InState({"collecting"})' = InState({"collecting"})
      /\ InState({"stopping"})' = InState({"stopping"})
  BY Bystander DEF HeapInv
<1>2. TypeInv'
  BY DEF HeapInv, TypeInv, Becomes
<1>3. Controlled' /\ StaysStopped'
  BY <1>1 DEF HeapInv, Controlled, StaysStopped, AllStopped
<1>4. \A c \in Threads : mut'[c] = "stopping" => c \in InState({"stopping"})'
  BY DEF InState
<1>5. NoLostWakeup'
  BY <1>1, <1>4 DEF NoLostWakeup, AllStopped
<1>6. QED
  BY <1>2, <1>3, <1>5 DEF HeapInv

-------------------------------------------------------------------------------
(* One lemma per operation: each preserves HeapInv *)

LEMMA AttachKeeps ==
  ASSUME HeapInv, NEW t \in Threads, Attach(t) \/ AttachWake(t)
  PROVE  HeapInv'
<1> USE DEF HeapInv, TypeInv
<1>1. mut[t] \in {"detached", "joining"} /\ mut[t] \notin Control
  BY DEF Attach, AttachWake, Control
<1>2. CASE ~collecting
  <2>1. /\ Becomes(t, "running") /\ count' = count + 1
        /\ UNCHANGED <<collecting, paused, inactive, asleep, ctrlAsleep, collections>>
    BY <1>2 DEF Attach, AttachWake
  <2>2. /\ count' = count + In("running", Attached) - In(mut[t], Attached)
        /\ paused' = paused + In("running", Stopped) - In(mut[t], Stopped)
        /\ inactive' = inactive + In("running", Inactive) - In(mut[t], Inactive)
    BY <1>1, <2>1 DEF In, Attached, Stopped, Inactive
  <2>3. CountersAgree'
    BY <2>1, <2>2, MoveCounters DEF States
  <2>4. QED
    BY <1>2, <2>1, <2>3, QuietMove DEF States, Control
<1>3. CASE collecting /\ Attach(t)
  <2>1. /\ Becomes(t, "joining") /\ asleep' = asleep \cup {t}
        /\ UNCHANGED <<collecting, count, paused, inactive, ctrlAsleep, collections>>
    BY <1>3 DEF Attach
  <2>2. /\ count' = count + In("joining", Attached) - In(mut[t], Attached)
        /\ paused' = paused + In("joining", Stopped) - In(mut[t], Stopped)
        /\ inactive' = inactive + In("joining", Inactive) - In(mut[t], Inactive)
    BY <1>1, <2>1 DEF In, Attached, Stopped, Inactive
  <2>3. CountersAgree'
    BY <2>1, <2>2, MoveCounters DEF States
  <2>4. /\ InState({"collecting"}) # {} => AllStopped(count', paused', inactive')
        /\ ctrlAsleep' /\ InState({"stopping"}) # {} =>
             ~AllStopped(count', paused', inactive')
    BY <2>1, WakeupForm DEF StaysStopped, AllStopped
  <2>5. QED
    BY <1>1, <1>3, <2>1, <2>3, <2>4, MoveDuringStop DEF States, Control
<1>4. CASE collecting /\ AttachWake(t)
  BY <1>4, NobodyMoves, WakeupForm DEF AttachWake
<1>5. QED
  BY <1>2, <1>3, <1>4

LEMMA DetachKeeps ==
  ASSUME HeapInv, NEW t \in Threads, Detach(t)
  PROVE  HeapInv'
<1> USE DEF HeapInv, TypeInv
<1>1. mut[t] \in {"running", "parked"} /\ mut[t] \notin Control
  BY DEF Detach, Control
<1>2. /\ Becomes(t, "detached") /\ count' = count - 1
      /\ inactive' = IF mut[t] = "parked" THEN inactive - 1 ELSE inactive
      /\ UNCHANGED <<collecting, paused, asleep, collections>>
  BY DEF Detach
<1>3. /\ count' = count + In("detached", Attached) - In(mut[t], Attached)
      /\ paused' = paused + In("detached", Stopped) - In(mut[t], Stopped)
      /\ inactive' = inactive + In("detached", Inactive) - In(mut[t], Inactive)
  BY <1>1, <1>2 DEF In, Attached, Stopped, Inactive
<1>4. CountersAgree'
  BY <1>2, <1>3, MoveCounters DEF States
<1>5. ctrlAsleep' \in BOOLEAN
  BY DEF Detach, SignalController
<1>6. CASE ~collecting
  BY <1>2, <1>4, <1>5, <1>6, QuietMove DEF States, Control
<1>7. CASE collecting
  <2>1. ctrlAsleep' => ~AllStopped(count', paused', inactive')
    BY <1>2, <1>7 DEF Detach, SignalController
  <2>2. InState({"collecting"}) # {} => AllStopped(count', paused', inactive')
    <3>1. CASE mut[t] = "running"
      BY <3>1, NoRunnerWhileCollecting
    <3>2. CASE mut[t] = "parked"
      BY <1>2, <3>2 DEF StaysStopped, AllStopped
    <3>3. QED
      BY <1>1, <3>1, <3>2
  <2>3. QED
    BY <1>1, <1>2, <1>4, <1>5, <1>7, <2>1, <2>2, MoveDuringStop DEF States, Control
<1>8. QED
  BY <1>6, <1>7

LEMMA ParkKeeps ==
  ASSUME HeapInv, NEW t \in Threads, Park(t)
  PROVE  HeapInv'
<1> USE DEF HeapInv, TypeInv
<1>1. mut[t] = "running" /\ mut[t] \notin Control
  BY DEF Park, Control
<1>2. /\ Becomes(t, "parked") /\ inactive' = inactive + 1
      /\ UNCHANGED <<collecting, count, paused, asleep, collections>>
  BY DEF Park
<1>3. /\ count' = count + In("parked", Attached) - In(mut[t], Attached)
      /\ paused' = paused + In("parked", Stopped) - In(mut[t], Stopped)
      /\ inactive' = inactive + In("parked", Inactive) - In(mut[t], Inactive)
  BY <1>1, <1>2 DEF In, Attached, Stopped, Inactive
<1>4. CountersAgree'
  BY <1>2, <1>3, MoveCounters DEF States
<1>5. /\ ctrlAsleep' \in BOOLEAN
      /\ ctrlAsleep' => ~AllStopped(count', paused', inactive')
  BY <1>2 DEF Park, SignalController
<1>6. CASE ~collecting
  BY <1>2, <1>4, <1>5, <1>6, QuietMove DEF States, Control
<1>7. CASE collecting
  BY <1>1, <1>2, <1>4, <1>5, <1>7, NoRunnerWhileCollecting, MoveDuringStop
     DEF States, Control
<1>8. QED
  BY <1>6, <1>7

LEMMA UnparkKeeps ==
  ASSUME HeapInv, NEW t \in Threads, Unpark(t) \/ UnparkWake(t)
  PROVE  HeapInv'
<1> USE DEF HeapInv, TypeInv
<1>1. mut[t] \in {"parked", "resuming"} /\ mut[t] \notin Control
  BY DEF Unpark, UnparkWake, Control
<1>2. CASE ~collecting
  <2>1. /\ Becomes(t, "running") /\ inactive' = inactive - 1
        /\ UNCHANGED <<collecting, count, paused, asleep, ctrlAsleep, collections>>
    BY <1>2 DEF Unpark, UnparkWake
  <2>2. /\ count' = count + In("running", Attached) - In(mut[t], Attached)
        /\ paused' = paused + In("running", Stopped) - In(mut[t], Stopped)
        /\ inactive' = inactive + In("running", Inactive) - In(mut[t], Inactive)
    BY <1>1, <2>1 DEF In, Attached, Stopped, Inactive
  <2>3. CountersAgree'
    BY <2>1, <2>2, MoveCounters DEF States
  <2>4. QED
    BY <1>2, <2>1, <2>3, QuietMove DEF States, Control
<1>3. CASE collecting /\ Unpark(t)
  <2>1. /\ Becomes(t, "resuming") /\ asleep' = asleep \cup {t}
        /\ UNCHANGED <<collecting, count, paused, inactive, ctrlAsleep, collections>>
    BY <1>3 DEF Unpark
  <2>2. mut[t] = "parked"
    BY <1>3 DEF Unpark
  <2>3. /\ count' = count + In("resuming", Attached) - In(mut[t], Attached)
        /\ paused' = paused + In("resuming", Stopped) - In(mut[t], Stopped)
        /\ inactive' = inactive + In("resuming", Inactive) - In(mut[t], Inactive)
    BY <2>1, <2>2 DEF In, Attached, Stopped, Inactive
  <2>4. CountersAgree'
    BY <2>1, <2>3, MoveCounters DEF States
  <2>5. /\ InState({"collecting"}) # {} => AllStopped(count', paused', inactive')
        /\ ctrlAsleep' /\ InState({"stopping"}) # {} =>
             ~AllStopped(count', paused', inactive')
    BY <2>1, WakeupForm DEF StaysStopped, AllStopped
  <2>6. QED
    BY <1>1, <1>3, <2>1, <2>4, <2>5, MoveDuringStop DEF States, Control
<1>4. CASE collecting /\ UnparkWake(t)
  BY <1>4, NobodyMoves, WakeupForm DEF UnparkWake
<1>5. QED
  BY <1>2, <1>3, <1>4

LEMMA PauseKeeps ==
  ASSUME HeapInv, NEW t \in Threads, NEW s \in {"paused", "queued"}, Pause(t, s)
  PROVE  HeapInv'
<1> USE DEF HeapInv, TypeInv
<1>1. mut[t] = "running" /\ mut[t] \notin Control /\ collecting
  BY DEF Pause, Control
<1>2. /\ Becomes(t, s) /\ paused' = paused + 1 /\ asleep' = asleep \cup {t}
      /\ UNCHANGED <<collecting, count, inactive, collections>>
  BY DEF Pause
<1>3. /\ count' = count + In(s, Attached) - In(mut[t], Attached)
      /\ paused' = paused + In(s, Stopped) - In(mut[t], Stopped)
      /\ inactive' = inactive + In(s, Inactive) - In(mut[t], Inactive)
  BY <1>1, <1>2 DEF In, Attached, Stopped, Inactive
<1>4. CountersAgree'
  BY <1>2, <1>3, MoveCounters DEF States
<1>5. /\ ctrlAsleep' \in BOOLEAN
      /\ ctrlAsleep' => ~AllStopped(count', paused', inactive')
  BY <1>2 DEF Pause, SignalController
<1>6. QED
  BY <1>1, <1>2, <1>4, <1>5, NoRunnerWhileCollecting, MoveDuringStop
     DEF States, Control

\* The first thread to ask becomes the one controller; p is the paused count
\* without it.
LEMMA StartCollectKeeps ==
  ASSUME HeapInv, ~collecting, NEW t \in Threads, NEW p \in Int,
         p = paused - In(mut[t], Stopped), mut[t] \in Attached \ Inactive,
         StartCollect(t, p)
  PROVE  HeapInv'
<1> USE DEF HeapInv, TypeInv
<1>1. PICK s \in Control : Becomes(t, s)
  BY DEF StartCollect, Control
<1>2. /\ collecting' = TRUE /\ paused' = p + 1 /\ collections' = collections + 1
      /\ collections < MaxCollections
      /\ UNCHANGED <<count, inactive, asleep>>
  BY DEF StartCollect
<1>3. mut[t] \in States /\ s \in States
  BY <1>1 DEF Control, States
<1>4. /\ In(s, Attached) = 1 /\ In(s, Stopped) = 1 /\ In(s, Inactive) = 0
      /\ In(mut[t], Attached) = 1 /\ In(mut[t], Inactive) = 0
  BY <1>1 DEF In, Attached, Stopped, Inactive, Control
<1>12. In(mut[t], Stopped) \in Int
  BY DEF In
<1>5. /\ count' = count + In(s, Attached) - In(mut[t], Attached)
      /\ paused' = paused + In(s, Stopped) - In(mut[t], Stopped)
      /\ inactive' = inactive + In(s, Inactive) - In(mut[t], Inactive)
  BY <1>2, <1>4, <1>12
<1>6. CountersAgree'
  BY <1>1, <1>3, <1>5, MoveCounters
<1>7. InState(Control)' = {t}
  BY <1>1, <1>3, IdleMeansNoController DEF Becomes, InState
<1>8. TypeInv'
  <2>1. mut' \in [Threads -> States]
    BY <1>1, <1>3 DEF Becomes
  <2>2. collecting' \in BOOLEAN
    BY <1>2
  <2>3. ctrlAsleep' \in BOOLEAN
    BY DEF StartCollect
  <2>4. collections' \in 0 .. MaxCollections
    BY <1>2, MaxCollectionsAssumption
  <2>5. QED
    BY <1>2, <2>1, <2>2, <2>3, <2>4
<1>9. StaysStopped'
  <2>1. CASE AllStopped(count, p + 1, inactive)
    BY <1>2, <2>1 DEF StaysStopped, AllStopped
  <2>2. CASE ~AllStopped(count, p + 1, inactive)
    <3>1. mut'[t] = "stopping"
      BY <2>2 DEF StartCollect, Becomes
    <3>2. InState({"collecting"})' = {}
      BY <3>1, <1>7 DEF InState, Control
    <3>3. QED
      BY <3>2 DEF StaysStopped
  <2>3. QED
    BY <2>1, <2>2
<1>10. NoLostWakeup'
  BY <1>2, <1>7 DEF NoLostWakeup, StartCollect, AllStopped
<1>11. QED
  BY <1>2, <1>6, <1>7, <1>8, <1>9, <1>10 DEF Controlled

LEMMA CollectKeeps ==
  ASSUME HeapInv, NEW t \in Threads, Collect(t)
  PROVE  HeapInv'
<1>1. CASE mut[t] = "running" /\ ~collecting /\ StartCollect(t, paused)
  <2>1. paused \in Int /\ paused = paused - In(mut[t], Stopped)
    BY <1>1 DEF HeapInv, TypeInv, In, Stopped
  <2>2. mut[t] \in Attached \ Inactive
    BY <1>1 DEF Attached, Inactive
  <2>3. QED
    BY <1>1, <2>1, <2>2, StartCollectKeeps
<1>2. CASE Pause(t, "queued")
  BY <1>2, PauseKeeps
<1>3. QED
  BY <1>1, <1>2 DEF Collect

LEMMA PausedWakeKeeps ==
  ASSUME HeapInv, NEW t \in Threads, PausedWake(t)
  PROVE  HeapInv'
<1> USE DEF HeapInv, TypeInv
<1>1. mut[t] \in {"paused", "queued"} /\ mut[t] \notin Control
  BY DEF PausedWake, Control
<1>2. CASE collecting
  BY <1>2, NobodyMoves, WakeupForm DEF PausedWake
<1>3. CASE ~collecting /\ Becomes(t, "running") /\ paused' = paused - 1
           /\ UNCHANGED <<collecting, count, inactive, asleep, ctrlAsleep, collections>>
  <2>1. /\ count' = count + In("running", Attached) - In(mut[t], Attached)
        /\ paused' = paused + In("running", Stopped) - In(mut[t], Stopped)
        /\ inactive' = inactive + In("running", Inactive) - In(mut[t], Inactive)
    BY <1>1, <1>3 DEF In, Attached, Stopped, Inactive
  <2>2. CountersAgree'
    BY <1>3, <2>1, MoveCounters DEF States
  <2>3. QED
    BY <1>3, <2>2, QuietMove DEF States, Control
<1>4. CASE ~collecting /\ StartCollect(t, paused - 1)
  <2>1. paused - 1 \in Int /\ paused - 1 = paused - In(mut[t], Stopped)
    BY <1>1 DEF In, Stopped
  <2>2. mut[t] \in Attached \ Inactive
    BY <1>1 DEF Attached, Stopped, Inactive
  <2>3. QED
    BY <1>4, <2>1, <2>2, StartCollectKeeps
<1>5. QED
  BY <1>2, <1>3, <1>4 DEF PausedWake

\* The controller goes from waiting to collecting only on a stopped world.
LEMMA ControllerWakeKeeps ==
  ASSUME HeapInv, NEW t \in Threads, ControllerWake(t)
  PROVE  HeapInv'
<1> USE DEF HeapInv, TypeInv
<1>1. CASE ~AllStopped(count, paused, inactive)
  BY <1>1, NobodyMoves DEF ControllerWake, NoLostWakeup
<1>2. CASE AllStopped(count, paused, inactive)
  <2>1. /\ Becomes(t, "collecting") /\ mut[t] = "stopping" /\ ctrlAsleep' = FALSE
        /\ UNCHANGED <<collecting, count, paused, inactive, asleep, collections>>
    BY <1>2 DEF ControllerWake
  <2>2. /\ count' = count + In("collecting", Attached) - In(mut[t], Attached)
        /\ paused' = paused + In("collecting", Stopped) - In(mut[t], Stopped)
        /\ inactive' = inactive + In("collecting", Inactive) - In(mut[t], Inactive)
    BY <2>1 DEF In, Attached, Stopped, Inactive
  <2>3. CountersAgree'
    BY <2>1, <2>2, MoveCounters DEF States
  <2>4. InState(Control)' = InState(Control)
    BY <2>1 DEF Becomes, InState, Control
  <2>5. TypeInv'
    BY <2>1 DEF Becomes, States
  <2>6. Controlled' /\ StaysStopped' /\ NoLostWakeup'
    BY <1>2, <2>1, <2>4 DEF Controlled, StaysStopped, NoLostWakeup, AllStopped
  <2>7. QED
    BY <2>3, <2>5, <2>6
<1>3. QED
  BY <1>1, <1>2

LEMMA FinishCollectKeeps ==
  ASSUME HeapInv, NEW t \in Threads, FinishCollect(t)
  PROVE  HeapInv'
<1> USE DEF HeapInv, TypeInv
<1>1. /\ Becomes(t, "running") /\ mut[t] = "collecting" /\ paused' = paused - 1
      /\ collecting' = FALSE /\ asleep' = {}
      /\ UNCHANGED <<count, inactive, ctrlAsleep, collections>>
  BY DEF FinishCollect
<1>2. /\ count' = count + In("running", Attached) - In(mut[t], Attached)
      /\ paused' = paused + In("running", Stopped) - In(mut[t], Stopped)
      /\ inactive' = inactive + In("running", Inactive) - In(mut[t], Inactive)
  BY <1>1 DEF In, Attached, Stopped, Inactive
<1>3. CountersAgree'
  BY <1>1, <1>2, MoveCounters DEF States
<1>4. TypeInv'
  <2>1. mut' \in [Threads -> States]
    BY <1>1 DEF Becomes, States
  <2>2. collecting' \in BOOLEAN /\ ctrlAsleep' \in BOOLEAN
    BY <1>1
  <2>3. QED
    BY <1>1, <2>1, <2>2
<1>5. InState(Control)' = {}
  <2>1. t \in InState(Control)
    BY <1>1 DEF InState, Control
  <2>2. \A u \in InState(Control) : u = t
    BY <2>1 DEF Controlled
  <2>3. \A u \in Threads : u # t => mut[u] \notin Control /\ mut'[u] = mut[u]
    BY <1>1, <2>2 DEF InState, Becomes
  <2>4. mut'[t] \notin Control
    BY <1>1 DEF Becomes, Control
  <2>5. QED
    BY <2>3, <2>4 DEF InState
<1>6. /\ InState({"collecting"})' = {}
      /\ \A u \in Threads : mut'[u] # "stopping"
  BY <1>5 DEF InState, Control
<1>7. Controlled' /\ StaysStopped' /\ NoLostWakeup'
  BY <1>1, <1>5, <1>6 DEF Controlled, StaysStopped, NoLostWakeup
<1>8. QED
  BY <1>3, <1>4, <1>7

LEMMA SpuriousWakeKeeps ==
  ASSUME HeapInv, NEW t \in Threads, SpuriousWake(t)
  PROVE  HeapInv'
<1>1. UNCHANGED <<mut, collecting, count, paused, inactive, collections>>
  BY DEF SpuriousWake
<1>2. asleep \subseteq Threads /\ ctrlAsleep \in BOOLEAN
  BY DEF HeapInv, TypeInv
<1>3. asleep' \subseteq asleep
  BY DEF SpuriousWake
<1>4. CASE ctrlAsleep' = ctrlAsleep
  BY <1>1, <1>2, <1>3, <1>4, NobodyMoves, WakeupForm DEF HeapInv
<1>5. CASE ctrlAsleep' = FALSE
  BY <1>1, <1>2, <1>3, <1>5, NobodyMoves, WakeupForm DEF HeapInv
<1>6. QED
  BY <1>4, <1>5 DEF SpuriousWake

\* Threads that run when the handshake begins, or none.
LEMMA HeapStarts ==
  ASSUME NEW S \in SUBSET Threads, HeapStart(S)
  PROVE  HeapInv
<1>1. /\ InState({"running"}) = S /\ InState(Attached) = S
      /\ \A T \in {Stopped, Inactive, Control, {"collecting"}, {"stopping"}} :
           InState(T) = {}
  BY DEF HeapStart, InState, Stopped, Inactive, Attached, Control
<1>2. CountersAgree
  BY <1>1, FS_EmptySet DEF HeapStart, CountersAgree
<1>3. TypeInv
  <2>1. mut \in [Threads -> States]
    BY DEF HeapStart, States
  <2>2. collecting \in BOOLEAN /\ ctrlAsleep \in BOOLEAN
    BY DEF HeapStart
  <2>3. /\ count \in Int /\ paused \in Int /\ inactive \in Int
        /\ asleep \subseteq Threads /\ collections \in 0 .. MaxCollections
    BY MaxCollectionsAssumption, ThreadsAssumption, FS_Subset, FS_CardinalityType
    DEF HeapStart
  <2>4. QED
    BY <2>1, <2>2, <2>3 DEF TypeInv
<1>4. Controlled /\ StaysStopped /\ NoLostWakeup
  BY <1>1, WakeupForm DEF HeapStart, Controlled, StaysStopped
<1>5. QED
  BY <1>2, <1>3, <1>4 DEF HeapInv

\* Every step of the handshake keeps the invariant.
LEMMA HeapInvInductive ==
  ASSUME HeapInv, [HeapNext]_heapVars
  PROVE  HeapInv'
<1>1. CASE UNCHANGED heapVars
  BY <1>1, NobodyMoves DEF heapVars, HeapInv, TypeInv, NoLostWakeup, InState
<1>2. ASSUME NEW t \in Threads, Attach(t) \/ Detach(t) PROVE HeapInv'
  BY <1>2, AttachKeeps, DetachKeeps
<1>3. ASSUME NEW t \in Threads, Park(t) \/ Unpark(t) PROVE HeapInv'
  BY <1>3, ParkKeeps, UnparkKeeps
<1>4. ASSUME NEW t \in Threads, Safepoint(t) \/ Collect(t) PROVE HeapInv'
  BY <1>4, PauseKeeps, CollectKeeps DEF Safepoint
<1>5. ASSUME NEW t \in Threads, Wake(t) PROVE HeapInv'
  BY <1>5, AttachKeeps, UnparkKeeps, PausedWakeKeeps, ControllerWakeKeeps,
     FinishCollectKeeps DEF Wake, WaitOver
<1>6. ASSUME NEW t \in Threads, SpuriousWake(t) PROVE HeapInv'
  BY <1>6, SpuriousWakeKeeps
<1>7. QED
  BY <1>1, <1>2, <1>3, <1>4, <1>5, <1>6 DEF HeapNext

-------------------------------------------------------------------------------
(* The theorems *)

LEMMA HeapInvHolds == HeapSpec => []HeapInv
<1>1. HeapInit => HeapInv
  <2>1. HeapInit => HeapStart({})
    BY FS_EmptySet DEF HeapInit, HeapStart
  <2>2. QED
    BY <2>1, HeapStarts
<1>2. HeapInv /\ [HeapNext]_heapVars => HeapInv'
  BY HeapInvInductive
<1>3. QED
  BY <1>1, <1>2, PTL DEF HeapSpec

\* Every variable keeps its type; in particular no counter of mmc.c ever goes
\* below zero, whatever the order of attaches, parks, pauses and exits.
THEOREM HeapTypeCorrect == HeapSpec => []HeapTypeOK
<1>1. HeapInv => HeapTypeOK
  <2> SUFFICES ASSUME HeapInv PROVE HeapTypeOK
    OBVIOUS
  <2>1. paused \in Nat /\ inactive \in Nat /\ count \in Nat
    BY NumType DEF HeapInv, CountersAgree, Num
  <2>2. QED
    BY <2>1 DEF HeapInv, TypeInv, HeapTypeOK
<1>2. QED
  BY <1>1, HeapInvHolds, PTL

\* While the controller collects (collect, after wait_for_mutators_to_stop) no
\* other thread runs collected code.
THEOREM WorldStops == HeapSpec => []WorldStopped
<1>1. HeapInv => WorldStopped
  <2> SUFFICES ASSUME HeapInv, NEW c \in Threads, mut[c] = "collecting",
                      NEW t \in Threads, t # c
               PROVE  mut[t] \in {"detached", "joining", "paused", "queued",
                                  "parked", "resuming"}
    BY DEF WorldStopped
  <2>1. mut[t] \notin Control
    <3>1. c \in InState(Control)
      BY DEF InState, Control
    <3>2. t \notin InState(Control)
      BY <3>1 DEF HeapInv, Controlled
    <3>3. QED
      BY <3>2 DEF InState
  <2>2. mut[t] # "running"
    <3>1. c \in InState({"collecting"})
      BY DEF InState
    <3>2. QED
      BY <3>1, NoRunnerWhileCollecting
  <2>3. mut[t] \in States
    BY DEF HeapInv, TypeInv
  <2>4. QED
    BY <2>1, <2>2, <2>3 DEF States, Control
<1>2. QED
  BY <1>1, HeapInvHolds, PTL

\* mutator_count, paused_mutator_count and inactive_mutator_count always count
\* what they are named for.
THEOREM CountersHold == HeapSpec => []CountersAgree
<1>1. HeapInv => CountersAgree
  BY DEF HeapInv
<1>2. QED
  BY <1>1, HeapInvHolds, PTL

\* Neither condition variable of the heap loses a wake-up.
THEOREM WakeupsArrive == HeapSpec => []NoLostWakeup
<1>1. HeapInv => NoLostWakeup
  BY DEF HeapInv
<1>2. QED
  BY <1>1, HeapInvHolds, PTL

-------------------------------------------------------------------------------
(* Identity hashes *)

Entry == [obj : Objects, hash : Nat]
Places == {"user", "lock", "find", "alloc", "relock", "insert"}
AddrType == Addrs \cup {Unborn, Dead}

TableTypeInv ==
  /\ nbuckets \in Nat \ {0}
  /\ buckets \in [0 .. nbuckets - 1 -> SUBSET Entry]
  /\ IsFiniteSet(Entries)
  /\ idhCount \in Nat /\ idhNext \in Nat

IdTypeInv ==
  /\ hpc \in [Threads -> Places]
  /\ arg \in [Threads -> Objects \cup {NoObject}]
  /\ raw \in [Threads -> AddrType]
  /\ addr \in [Objects -> AddrType]
  /\ answers \in [Objects -> SUBSET Nat]

\* no two objects at one address
Apart == \A o, p \in Objects : OnHeap(o) /\ addr[o] = addr[p] => o = p

\* a call's object is alive; up to the first search the thread runs, so the
\* object is where it was at the call
InCall ==
  \A t \in Threads :
    /\ hpc[t] # "user" => arg[t] \in Objects /\ OnHeap(arg[t])
    /\ hpc[t] \in {"lock", "find"} => mut[t] = "running" /\ raw[t] = addr[arg[t]]

\* what was answered is in the table as long as the object lives
Answered ==
  \A o \in Objects : \A h \in answers[o] :
    addr[o] # Unborn /\ (OnHeap(o) => [obj |-> o, hash |-> h] \in Entries)

HashInv ==
  /\ HeapInv /\ TableTypeInv /\ IdTypeInv
  /\ Apart /\ InCall /\ TableAgrees /\ Answered /\ OneHashEach

-------------------------------------------------------------------------------
(* What the threads do in the handshake *)

\* Whatever a thread does with the table, in the handshake it takes a step of
\* StopWorld, or none.
LEMMA IdStepOfHeap ==
  ASSUME [IdNext]_idVars
  PROVE  [HeapNext]_heapVars
<1>1. CASE UNCHANGED idVars
  BY <1>1 DEF idVars
<1>2. ASSUME NEW t \in Hashers, NEW o \in Objects, HashCall(t, o) \/ New(t, o)
      PROVE  UNCHANGED heapVars
  BY <1>2 DEF HashCall, New
<1>3. ASSUME NEW t \in Hashers, HashStep(t)
      PROVE  UNCHANGED heapVars
  BY <1>3 DEF HashStep, Lock, Find, Alloc, Relock, Insert
<1>4. ASSUME NEW t \in Hashers,
             AllocHeap(t) \/ UserHeap(t) \/ InHandshake(t) \/ Finish(t)
      PROVE  HeapNext
  BY <1>4, HashersAssumption
  DEF AllocHeap, UserHeap, InHandshake, Finish, HeapNext, Wake
<1>5. QED
  BY <1>1, <1>2, <1>3, <1>4 DEF IdNext

\* A step of the handshake changes one thread's state; a thread that runs
\* changes its own only by a poll or a collection.
LEMMA OthersRun ==
  ASSUME HeapInv, NEW t \in Threads
  PROVE  /\ Safepoint(t) \/ Collect(t) => \A u \in Threads \ {t} : mut'[u] = mut[u]
         /\ WaitOver(t) \/ SpuriousWake(t) =>
              \A u \in Threads : mut[u] = "running" => mut'[u] = "running"
<1>1. mut \in [Threads -> States]
  BY DEF HeapInv, TypeInv
<1>2. Safepoint(t) \/ Collect(t) => \A u \in Threads \ {t} : mut'[u] = mut[u]
  BY <1>1 DEF Safepoint, Collect, Pause, StartCollect, Becomes
<1>3. SpuriousWake(t) => mut' = mut
  BY DEF SpuriousWake
<1>4. ASSUME WaitOver(t), NEW u \in Threads, mut[u] = "running"
      PROVE  mut'[u] = "running"
  BY <1>1, <1>4 DEF WaitOver, AttachWake, UnparkWake, PausedWake, ControllerWake,
     StartCollect, Becomes
<1>5. QED
  BY <1>2, <1>3, <1>4

-------------------------------------------------------------------------------
(* The table *)

LEMMA EntriesForm ==
  ASSUME TableTypeInv
  PROVE  /\ Entries \subseteq Entry
         /\ \A e : e \in Entries <=> \E b \in 0 .. nbuckets - 1 : e \in buckets[b]
  BY DEF TableTypeInv, Entries

LEMMA BornIsNotUnborn == Unborn \notin Addrs /\ Dead \notin Addrs
  BY AddrsAssumption DEF Unborn, Dead

LEMMA BucketExists ==
  ASSUME NEW a \in Addrs, NEW n \in Nat \ {0}
  PROVE  BucketOf(a, n) \in 0 .. n - 1
  BY AddrsAssumption DEF BucketOf

\* What is in the table can be found, and nothing else is.
LEMMA FoundIsFiled ==
  ASSUME TableTypeInv, TableAgrees, NEW a \in Addrs
  PROVE  \A e : e \in Found(a) <=> e \in Entries /\ addr[e.obj] = a
<1>1. BucketOf(a, nbuckets) \in 0 .. nbuckets - 1
  BY BucketExists DEF TableTypeInv
<1>2. QED
  BY <1>1, EntriesForm DEF Found, TableAgrees

\* A rebuilt table holds the entries of the objects that live, each in its
\* bucket.
LEMMA RebuildFiles ==
  ASSUME NEW E \in SUBSET Entry, IsFiniteSet(E),
         \A e, d \in E : e.obj = d.obj => e = d,
         NEW n \in Nat \ {0}, NEW where \in [Objects -> AddrType],
         Rebuild(E, n, where), addr' = where, idhNext' \in Nat
  PROVE  /\ TableTypeInv' /\ TableAgrees'
         /\ Entries' = {e \in E : where[e.obj] \in Addrs}
<1> DEFINE live == {e \in E : where[e.obj] \in Addrs}
<1>1. /\ nbuckets' = n
      /\ buckets' = [b \in 0 .. n - 1 |->
                       {e \in live : BucketOf(where[e.obj], n) = b}]
      /\ idhCount' = Cardinality(live)
  BY DEF Rebuild
<1>2. \A e \in live : BucketOf(where[e.obj], n) \in 0 .. n - 1
  BY BucketExists
<1>3. Entries' = live
  BY <1>1, <1>2 DEF Entries
<1>4. IsFiniteSet(live) /\ Cardinality(live) \in Nat
  <2>1. live \in SUBSET E
    OBVIOUS
  <2>2. QED
    BY <2>1, FS_Subset, FS_CardinalityType
<1>5. buckets' \in [0 .. n - 1 -> SUBSET Entry]
  BY <1>1
<1>6. TableTypeInv'
  BY <1>1, <1>3, <1>4, <1>5 DEF TableTypeInv
<1>7. TableAgrees'
  <2>1. ASSUME NEW b \in 0 .. n - 1, NEW e \in buckets'[b]
        PROVE  addr'[e.obj] \in Addrs /\ BucketOf(addr'[e.obj], n) = b
    BY <1>1, <2>1
  <2>2. QED
    BY <1>1, <1>3, <2>1 DEF TableAgrees, OnHeap
<1>8. QED
  BY <1>3, <1>6, <1>7

-------------------------------------------------------------------------------
(* Steps that leave the table alone *)

\* A step that changes neither the table nor an object's place nor an answer
\* concerns only where threads are.
LEMMA TableStands ==
  ASSUME HashInv, UNCHANGED <<addr, tableVars, answers>>
  PROVE  /\ TableTypeInv' /\ Apart' /\ TableAgrees' /\ Answered' /\ OneHashEach'
         /\ Entries' = Entries
<1>1. /\ UNCHANGED <<addr, nbuckets, buckets, idhCount, idhNext, answers>>
      /\ Entries' = Entries
  BY DEF tableVars, Entries
<1>2. TableTypeInv' /\ TableAgrees'
  BY <1>1 DEF HashInv, TableTypeInv, TableAgrees, OnHeap
<1>3. Apart' /\ Answered' /\ OneHashEach'
  BY <1>1 DEF HashInv, Apart, Answered, OneHashEach, OnHeap
<1>4. QED
  BY <1>1, <1>2, <1>3

\* A call begins with the object where its slot says.
LEMMA CallKeeps ==
  ASSUME HashInv, HeapInv', NEW t \in Threads, NEW o \in Objects, HashCall(t, o)
  PROVE  HashInv'
<1>1. UNCHANGED <<addr, tableVars, answers, mut>>
  BY DEF HashCall, heapVars
<1>2. /\ arg' = [arg EXCEPT ![t] = o] /\ raw' = [raw EXCEPT ![t] = addr[o]]
      /\ hpc' = [hpc EXCEPT ![t] = "lock"] /\ OnHeap(o) /\ mut[t] = "running"
  BY DEF HashCall, At, Goto
<1>3. IdTypeInv'
  BY <1>1, <1>2 DEF HashInv, IdTypeInv, Places
<1>4. InCall'
  BY <1>1, <1>2 DEF HashInv, IdTypeInv, InCall, OnHeap
<1>5. QED
  BY <1>1, <1>3, <1>4, TableStands DEF HashInv

\* Taking the mutex, and allocating without it.
LEMMA StepKeeps ==
  ASSUME HashInv, HeapInv', NEW t \in Threads, Lock(t) \/ Alloc(t) \/ Relock(t)
  PROVE  HashInv'
<1>1. UNCHANGED <<addr, tableVars, answers, mut, arg, raw>>
  BY DEF Lock, Alloc, Relock, heapVars
<1>2. /\ hpc[t] # "user"
      /\ hpc' = [hpc EXCEPT ![t] = CASE hpc[t] = "lock" -> "find"
                                     [] hpc[t] = "alloc" -> "relock"
                                     [] hpc[t] = "relock" -> "insert"]
      /\ hpc[t] \in {"lock", "alloc", "relock"}
  BY DEF Lock, Alloc, Relock, At, Goto
<1>3. IdTypeInv'
  BY <1>1, <1>2 DEF HashInv, IdTypeInv, Places
<1>4. InCall'
  BY <1>1, <1>2 DEF HashInv, IdTypeInv, InCall, OnHeap
<1>5. QED
  BY <1>1, <1>3, <1>4, TableStands DEF HashInv

\* Polls, collections and waits, of the thread itself or of others: none of a
\* thread that has read an address and not yet searched for it.
LEMMA HeapStepKeeps ==
  ASSUME HashInv, HeapInv', NEW t \in Threads,
         AllocHeap(t) \/ UserHeap(t) \/ InHandshake(t)
  PROVE  HashInv'
<1>1. UNCHANGED <<addr, tableVars, answers, hpc, arg, raw>>
  BY DEF AllocHeap, UserHeap, InHandshake, hashVars
<1>2. IdTypeInv'
  BY <1>1 DEF HashInv, IdTypeInv
<1>3. ASSUME NEW u \in Threads, hpc[u] \in {"lock", "find"}
      PROVE  mut'[u] = "running"
  BY <1>3, OthersRun DEF HashInv, InCall, AllocHeap, UserHeap, InHandshake, At
<1>4. InCall'
  BY <1>1, <1>3 DEF HashInv, InCall, OnHeap
<1>5. QED
  BY <1>1, <1>2, <1>4, TableStands DEF HashInv

-------------------------------------------------------------------------------
(* Answers *)

\* A thread's call is over: what other threads' calls rest on is untouched.
LEMMA AnswerEnds ==
  ASSUME HashInv, NEW t \in Threads, NEW h \in Nat, Answer(t, h), hpc[t] # "user",
         UNCHANGED <<mut, addr>>
  PROVE  /\ IdTypeInv' /\ InCall' /\ Apart'
         /\ \A o \in Objects : answers'[o] = IF o = arg[t] THEN answers[o] \cup {h}
                                                          ELSE answers[o]
<1>1. arg[t] \in Objects
  BY DEF HashInv, InCall
<1>2. IdTypeInv'
  BY <1>1 DEF Answer, Goto, HashInv, IdTypeInv, Places, AddrType, Unborn
<1>3. InCall'
  BY DEF Answer, Goto, HashInv, IdTypeInv, InCall, OnHeap
<1>4. Apart'
  BY DEF HashInv, Apart, OnHeap
<1>5. QED
  BY <1>1, <1>2, <1>3, <1>4 DEF Answer, HashInv, IdTypeInv

\* An entry that was found is the object's, and so is every answer before.
LEMMA FoundKeeps ==
  ASSUME HashInv, HeapInv', NEW t \in Threads, hpc[t] # "user",
         NEW e \in Found(addr[arg[t]]), Answer(t, e.hash),
         UNCHANGED <<mut, addr, tableVars>>
  PROVE  HashInv'
<1>1. arg[t] \in Objects /\ addr[arg[t]] \in Addrs
  BY DEF HashInv, InCall, OnHeap
<1>2. e \in Entries /\ addr[e.obj] = addr[arg[t]]
  BY <1>1, FoundIsFiled DEF HashInv
<1>3. e \in Entry /\ e.obj = arg[t]
  BY <1>1, <1>2, EntriesForm DEF HashInv, Apart, OnHeap, Entry
<1>4. e = [obj |-> arg[t], hash |-> e.hash] /\ e.hash \in Nat
  BY <1>3 DEF Entry
<1>5. /\ IdTypeInv' /\ InCall' /\ Apart'
      /\ \A o \in Objects : answers'[o] = IF o = arg[t] THEN answers[o] \cup {e.hash}
                                                       ELSE answers[o]
  BY <1>4, AnswerEnds
<1>6. Entries' = Entries /\ TableTypeInv' /\ TableAgrees'
  <2>1. UNCHANGED <<nbuckets, buckets, idhCount, idhNext>> /\ Entries' = Entries
    BY DEF tableVars, Entries
  <2>2. QED
    BY <2>1 DEF HashInv, TableTypeInv, TableAgrees, OnHeap
<1>7. Answered'
  <2>1. ASSUME NEW o \in Objects, NEW h \in answers'[o]
        PROVE  addr[o] # Unborn /\ (OnHeap(o) => [obj |-> o, hash |-> h] \in Entries)
    <3>1. CASE h \in answers[o]
      BY <3>1 DEF HashInv, Answered
    <3>2. CASE o = arg[t] /\ h = e.hash
      BY <1>1, <1>2, <1>4, <3>2, BornIsNotUnborn
    <3>3. QED
      BY <1>5, <3>1, <3>2
  <2>2. QED
    BY <1>6, <2>1 DEF Answered, OnHeap
<1>8. OneHashEach'
  <2>1. ASSUME NEW h \in answers[arg[t]] PROVE h = e.hash
    <3>1. [obj |-> arg[t], hash |-> h] \in Entries
      BY <1>1, <2>1 DEF HashInv, Answered, OnHeap
    <3>2. [obj |-> arg[t], hash |-> h] = e
      BY <1>2, <1>3, <3>1 DEF HashInv, TableAgrees
    <3>3. QED
      BY <3>2
  <2>2. QED
    BY <1>5, <2>1 DEF HashInv, OneHashEach
<1>9. QED
  BY <1>5, <1>6, <1>7, <1>8 DEF HashInv

\* A new entry, for an object that has none.
LEMMA FiledKeeps ==
  ASSUME HashInv, HeapInv', NEW t \in Threads, hpc[t] # "user",
         Found(addr[arg[t]]) = {}, FileUnder(t, addr[arg[t]]),
         UNCHANGED <<mut, addr>>
  PROVE  HashInv'
<1> DEFINE e == [obj |-> arg[t], hash |-> idhNext]
<1>1. /\ arg[t] \in Objects /\ addr[arg[t]] \in Addrs /\ idhNext \in Nat
      /\ nbuckets \in Nat \ {0} /\ IsFiniteSet(Entries)
  BY DEF HashInv, InCall, OnHeap, TableTypeInv
<1>2. \A d \in Entries : d.obj # arg[t]
  BY <1>1, FoundIsFiled DEF HashInv
<1>3. answers[arg[t]] = {}
  BY <1>1, <1>2 DEF HashInv, Answered, OnHeap
<1>4. /\ IdTypeInv' /\ InCall' /\ Apart'
      /\ \A o \in Objects : answers'[o] = IF o = arg[t] THEN answers[o] \cup {idhNext}
                                                       ELSE answers[o]
  BY <1>1, AnswerEnds DEF FileUnder
<1>5. /\ e \in Entry /\ e \notin Entries /\ Entries \cup {e} \in SUBSET Entry
      /\ \A c, d \in Entries \cup {e} : c.obj = d.obj => c = d
      /\ \A d \in Entries \cup {e} : addr[d.obj] \in Addrs
  <2>1. e \in Entry /\ e \notin Entries
    BY <1>1, <1>2 DEF Entry
  <2>2. Entries \subseteq Entry
    BY EntriesForm DEF HashInv
  <2>3. \A c, d \in Entries : c.obj = d.obj => c = d
    BY DEF HashInv, TableAgrees
  <2>4. \A d \in Entries : addr[d.obj] \in Addrs
    BY EntriesForm DEF HashInv, TableAgrees, OnHeap
  <2>5. QED
    BY <1>1, <1>2, <2>1, <2>2, <2>3, <2>4
<1>6. IsFiniteSet(Entries \cup {e}) /\ Cardinality(Entries \cup {e}) = idhCount + 1
  BY <1>1, <1>5, FS_AddElement DEF HashInv, TableAgrees
<1>7. idhNext' \in Nat
  BY <1>1 DEF FileUnder
<1>8. TableTypeInv' /\ TableAgrees' /\ Entries' = Entries \cup {e}
  <2>1. CASE idhCount + 1 > nbuckets * LoadFactor
    <3>1. Rebuild(Entries \cup {e}, nbuckets * 2, addr)
      BY <2>1 DEF FileUnder
    <3>2. nbuckets * 2 \in Nat \ {0}
      BY <1>1
    <3>3. addr \in [Objects -> AddrType] /\ addr' = addr
      BY DEF HashInv, IdTypeInv
    <3>4. /\ TableTypeInv' /\ TableAgrees'
          /\ Entries' = {d \in Entries \cup {e} : addr[d.obj] \in Addrs}
      BY <1>5, <1>6, <1>7, <3>1, <3>2, <3>3, RebuildFiles
    <3>5. QED
      BY <1>5, <3>4
  <2>2. CASE ~(idhCount + 1 > nbuckets * LoadFactor)
    <3> DEFINE b == BucketOf(addr[arg[t]], nbuckets)
    <3>1. /\ buckets' = [buckets EXCEPT ![b] = @ \cup {e}]
          /\ idhCount' = idhCount + 1 /\ nbuckets' = nbuckets
      BY <2>2 DEF FileUnder
    <3>2. b \in 0 .. nbuckets - 1
      BY <1>1, BucketExists
    <3>3. buckets \in [0 .. nbuckets - 1 -> SUBSET Entry] /\ idhCount \in Nat
      BY DEF HashInv, TableTypeInv
    <3>4. \A c \in 0 .. nbuckets - 1 :
            buckets'[c] = IF c = b THEN buckets[c] \cup {e} ELSE buckets[c]
      BY <3>1, <3>3
    <3>5. Entries' = Entries \cup {e}
      BY <3>1, <3>2, <3>4 DEF Entries
    <3>6. TableTypeInv'
      <4>1. buckets' \in [0 .. nbuckets - 1 -> SUBSET Entry]
        BY <1>5, <3>1, <3>2, <3>3
      <4>2. QED
        BY <1>1, <1>6, <1>7, <3>1, <3>3, <3>5, <4>1 DEF TableTypeInv
    <3>7. ASSUME NEW c \in 0 .. nbuckets - 1, NEW d \in buckets'[c]
          PROVE  addr[d.obj] \in Addrs /\ BucketOf(addr[d.obj], nbuckets) = c
      <4>1. CASE d \in buckets[c]
        BY <4>1 DEF HashInv, TableAgrees, OnHeap
      <4>2. CASE d = e /\ c = b
        BY <1>1, <4>2
      <4>3. QED
        BY <3>4, <4>1, <4>2
    <3>8. TableAgrees'
      BY <1>5, <1>6, <3>1, <3>5, <3>7 DEF TableAgrees, OnHeap
    <3>9. QED
      BY <3>5, <3>6, <3>8
  <2>3. QED
    BY <2>1, <2>2
<1>9. Answered'
  <2>1. ASSUME NEW o \in Objects, NEW h \in answers'[o]
        PROVE  /\ addr[o] # Unborn
               /\ OnHeap(o) => [obj |-> o, hash |-> h] \in Entries \cup {e}
    <3>1. CASE h \in answers[o]
      BY <3>1 DEF HashInv, Answered
    <3>2. CASE o = arg[t] /\ h = idhNext
      BY <1>1, <3>2, BornIsNotUnborn
    <3>3. QED
      BY <1>4, <3>1, <3>2
  <2>2. QED
    BY <1>8, <2>1 DEF Answered, OnHeap
<1>10. OneHashEach'
  BY <1>3, <1>4 DEF HashInv, OneHashEach
<1>11. QED
  BY <1>4, <1>8, <1>9, <1>10 DEF HashInv

\* The search without a result gives the mutex back.
LEMMA MissKeeps ==
  ASSUME HashInv, HeapInv', NEW t \in Threads, hpc[t] = "find", Goto(t, "alloc"),
         UNCHANGED <<mut, arg, raw, answers, addr, tableVars>>
  PROVE  HashInv'
<1>1. hpc' = [hpc EXCEPT ![t] = "alloc"]
  BY DEF Goto
<1>2. IdTypeInv' /\ InCall'
  BY <1>1 DEF HashInv, IdTypeInv, InCall, OnHeap, Places
<1>3. QED
  BY <1>2, TableStands DEF HashInv

\* The first search is by the address of the call, which is still the object's;
\* the second, after an allocation, by the address read anew.
LEMMA SearchKeeps ==
  ASSUME HashInv, HeapInv', NEW t \in Threads, Find(t) \/ Insert(t)
  PROVE  HashInv'
<1>1. /\ hpc[t] \in {"find", "insert"} /\ UNCHANGED <<mut, addr>>
      /\ hpc[t] = "find" => raw[t] = addr[arg[t]]
  BY DEF Find, Insert, At, heapVars, HashInv, InCall
<1>2. \/ \E e \in Found(addr[arg[t]]) : Answer(t, e.hash) /\ UNCHANGED tableVars
      \/ Found(addr[arg[t]]) = {} /\ FileUnder(t, addr[arg[t]])
      \/ /\ hpc[t] = "find" /\ Goto(t, "alloc")
         /\ UNCHANGED <<arg, raw, answers, tableVars>>
  BY <1>1 DEF Find, Insert, At
<1>3. QED
  BY <1>1, <1>2, FoundKeeps, FiledKeeps, MissKeeps

-------------------------------------------------------------------------------
(* The program and the collector *)

\* A new object takes an address where nothing is, and nobody has asked for its
\* hash.
LEMMA NewKeeps ==
  ASSUME HashInv, HeapInv', NEW t \in Threads, NEW o \in Objects, New(t, o)
  PROVE  HashInv'
<1>1. UNCHANGED <<mut, hpc, arg, raw, answers, nbuckets, buckets, idhCount, idhNext>>
  BY DEF New, heapVars, tableVars
<1>2. PICK a \in Addrs : /\ \A p \in Objects : addr[p] # a
                         /\ addr' = [addr EXCEPT ![o] = a]
  BY DEF New
<1>3. addr[o] = Unborn /\ Unborn \notin Addrs
  BY BornIsNotUnborn DEF New
<1>4. \A p \in Objects : addr'[p] = IF p = o THEN a ELSE addr[p]
  BY <1>2 DEF HashInv, IdTypeInv
<1>5. \A p \in Objects : OnHeap(p) => p # o /\ addr'[p] = addr[p]
  BY <1>3, <1>4 DEF OnHeap
<1>6. IdTypeInv'
  BY <1>1, <1>2 DEF HashInv, IdTypeInv, AddrType
<1>7. Apart'
  BY <1>2, <1>4 DEF HashInv, Apart, OnHeap
<1>8. InCall'
  BY <1>1, <1>5 DEF HashInv, InCall, OnHeap
<1>9. TableTypeInv' /\ Entries' = Entries
  BY <1>1 DEF HashInv, TableTypeInv, Entries
<1>10. TableAgrees'
  <2>1. ASSUME NEW b \in 0 .. nbuckets - 1, NEW e \in buckets[b]
        PROVE  addr'[e.obj] \in Addrs /\ BucketOf(addr'[e.obj], nbuckets) = b
    <3>1. e.obj \in Objects
      BY EntriesForm DEF HashInv, Entry
    <3>2. OnHeap(e.obj) /\ BucketOf(addr[e.obj], nbuckets) = b
      BY DEF HashInv, TableAgrees
    <3>3. QED
      BY <1>5, <3>1, <3>2 DEF OnHeap
  <2>2. QED
    BY <1>1, <1>9, <2>1 DEF HashInv, TableAgrees, OnHeap
<1>11. Answered'
  <2>1. answers[o] = {}
    BY <1>3 DEF HashInv, Answered, IdTypeInv
  <2>2. ASSUME NEW p \in Objects, NEW h \in answers[p]
        PROVE  addr'[p] # Unborn /\ (addr'[p] \in Addrs => [obj |-> p, hash |-> h] \in Entries)
    BY <1>4, <2>1 DEF HashInv, Answered, OnHeap
  <2>3. QED
    BY <1>1, <1>9, <2>2 DEF Answered, OnHeap
<1>12. OneHashEach'
  BY <1>1 DEF HashInv, OneHashEach
<1>13. QED
  BY <1>6, <1>7, <1>8, <1>9, <1>10, <1>11, <1>12 DEF HashInv

\* A collection ends: the table is that of the survivors before anyone runs.
LEMMA FinishKeeps ==
  ASSUME HashInv, HeapInv', NEW t \in Threads, Finish(t)
  PROVE  HashInv'
<1>1. UNCHANGED <<hpc, arg, raw, answers, idhNext>> /\ addr' \in Moves
  BY DEF Finish
<1>2. /\ addr' \in [Objects -> AddrType]
      /\ \A o \in Objects : /\ OnHeap(o) => addr'[o] # Unborn
                            /\ ~OnHeap(o) => addr'[o] = addr[o]
                            /\ OnHeap(o) /\ o \in Held => addr'[o] \in Addrs
      /\ \A o, p \in Objects : addr'[o] = addr'[p] /\ addr'[o] \in Addrs => o = p
  BY <1>1 DEF Moves, AddrType
<1>3. ASSUME NEW u \in Threads PROVE hpc[u] \notin {"lock", "find"}
  <2>1. t \in InState({"collecting"})
    BY DEF Finish, FinishCollect, InState
  <2>2. mut[u] # "running"
    BY <2>1, NoRunnerWhileCollecting DEF HashInv
  <2>3. QED
    BY <2>2 DEF HashInv, InCall
<1>4. IdTypeInv'
  BY <1>1, <1>2 DEF HashInv, IdTypeInv
<1>5. Apart'
  BY <1>2 DEF Apart, OnHeap
<1>6. InCall'
  <2>1. ASSUME NEW u \in Threads, hpc[u] # "user"
        PROVE  arg[u] \in Objects /\ addr'[arg[u]] \in Addrs
    BY <1>2, <2>1 DEF HashInv, InCall, Held
  <2>2. QED
    BY <1>1, <1>3, <2>1 DEF InCall, OnHeap
<1>7. /\ TableTypeInv' /\ TableAgrees'
      /\ Entries' = {e \in Entries : addr'[e.obj] \in Addrs}
  <2>1. /\ Entries \in SUBSET Entry /\ IsFiniteSet(Entries)
        /\ \A e, d \in Entries : e.obj = d.obj => e = d
        /\ nbuckets \in Nat \ {0} /\ idhNext \in Nat
        /\ idhCount = Cardinality(Entries)
    BY EntriesForm DEF HashInv, TableTypeInv, TableAgrees
  <2>2. CASE idhCount # 0
    <3>1. Rebuild(Entries, nbuckets, addr')
      BY <2>2 DEF Finish
    <3>2. QED
      BY <1>1, <1>2, <2>1, <3>1, RebuildFiles
  <2>3. CASE idhCount = 0
    <3>1. Entries = {}
      BY <2>1, <2>3, FS_EmptySet
    <3>2. UNCHANGED <<nbuckets, buckets, idhCount, idhNext>> /\ Entries' = Entries
      BY <2>3 DEF Finish, Entries
    <3>3. \A b \in 0 .. nbuckets - 1 : buckets[b] = {}
      BY <3>1, EntriesForm DEF HashInv
    <3>4. TableTypeInv' /\ TableAgrees'
      BY <2>1, <3>1, <3>2, <3>3 DEF HashInv, TableTypeInv, TableAgrees
    <3>5. QED
      BY <3>1, <3>2, <3>4
  <2>4. QED
    BY <2>2, <2>3
<1>8. Answered'
  <2>1. ASSUME NEW o \in Objects, NEW h \in answers[o]
        PROVE  /\ addr'[o] # Unborn
               /\ addr'[o] \in Addrs => [obj |-> o, hash |-> h] \in Entries'
    <3>1. addr[o] # Unborn /\ (OnHeap(o) => [obj |-> o, hash |-> h] \in Entries)
      BY DEF HashInv, Answered
    <3>2. CASE OnHeap(o)
      BY <1>2, <1>7, <3>1, <3>2
    <3>3. CASE ~OnHeap(o)
      BY <1>2, <3>1, <3>3 DEF OnHeap
    <3>4. QED
      BY <3>2, <3>3
  <2>2. QED
    BY <1>1, <2>1 DEF Answered, OnHeap
<1>9. OneHashEach'
  BY <1>1 DEF HashInv, OneHashEach
<1>10. QED
  BY <1>4, <1>5, <1>6, <1>7, <1>8, <1>9 DEF HashInv

-------------------------------------------------------------------------------
(* The theorems *)

LEMMA HashStarts ==
  ASSUME HashInit
  PROVE  HashInv
<1>1. HeapInv
  BY HashersAssumption, HeapStarts DEF HashInit
<1>2. Entries = {}
  BY DEF HashInit, HashTablesInit, Entries
<1>3. TableTypeInv /\ TableAgrees
  BY <1>2, BucketsAssumption, FS_EmptySet
  DEF HashInit, HashTablesInit, TableTypeInv, TableAgrees
<1>4. IdTypeInv
  BY DEF HashInit, HashTablesInit, IdTypeInv, Places, AddrType, Unborn
<1>5. Apart /\ InCall /\ Answered /\ OneHashEach
  BY BornIsNotUnborn
  DEF HashInit, HashTablesInit, Apart, InCall, Answered, OneHashEach, OnHeap
<1>6. QED
  BY <1>1, <1>3, <1>4, <1>5 DEF HashInv

LEMMA HashInvInductive ==
  ASSUME HashInv, [IdNext]_idVars
  PROVE  HashInv'
<1>1. HeapInv'
  BY IdStepOfHeap, HeapInvInductive DEF HashInv
<1>2. CASE UNCHANGED idVars
  <2>1. UNCHANGED <<mut, addr, tableVars, answers, hpc, arg, raw>>
    BY <1>2 DEF idVars, heapVars, hashVars
  <2>2. IdTypeInv' /\ InCall'
    BY <2>1 DEF HashInv, IdTypeInv, InCall, OnHeap
  <2>3. QED
    BY <1>1, <2>1, <2>2, TableStands DEF HashInv
<1>3. ASSUME NEW t \in Hashers, NEW o \in Objects, HashCall(t, o) \/ New(t, o)
      PROVE  HashInv'
  BY <1>1, <1>3, HashersAssumption, CallKeeps, NewKeeps
<1>4. ASSUME NEW t \in Hashers, HashStep(t)
      PROVE  HashInv'
  BY <1>1, <1>4, HashersAssumption, StepKeeps, SearchKeeps DEF HashStep
<1>5. ASSUME NEW t \in Hashers,
             AllocHeap(t) \/ UserHeap(t) \/ InHandshake(t) \/ Finish(t)
      PROVE  HashInv'
  BY <1>1, <1>5, HashersAssumption, HeapStepKeeps, FinishKeeps
<1>6. QED
  BY <1>2, <1>3, <1>4, <1>5 DEF IdNext

LEMMA HashInvHolds == IdSpec => []HashInv
  BY HashStarts, HashInvInductive, PTL DEF IdSpec

\* fpprt_idhash gives an object one answer, whichever threads ask, together or
\* one after the other, and however often it moves.
THEOREM HashesAreIdentities == IdSpec => []OneHashEach
<1>1. HashInv => OneHashEach
  BY DEF HashInv
<1>2. QED
  BY <1>1, HashInvHolds, PTL

\* Between the steps of the program the table is always in order: every entry
\* in the bucket of its object's present address, one for each object, and
\* counted.
THEOREM TableInOrder == IdSpec => []TableAgrees
<1>1. HashInv => TableAgrees
  BY DEF HashInv
<1>2. QED
  BY <1>1, HashInvHolds, PTL

-------------------------------------------------------------------------------
(* The monitors *)

Seeking == {"find", "depth", "owner"}
Labels == {"user", "own", "foreign", "wait", "unpark", "setOwner", "setDepth",
           "clear", "unlock"} \cup Seeking

MonTypeInv ==
  /\ pc \in [Threads -> Labels]
  /\ lockOf \in [Threads -> Locks \cup {NoLock}]
  /\ \A t \in Threads : pc[t] = "user" <=> lockOf[t] = NoLock
  /\ mutex \in [Locks -> Threads \cup {NoOwner}]
  /\ owner \in [Locks -> Threads \cup {NoOwner}]
  /\ depth \in [Locks -> Int]
  /\ inside \in [Threads -> [Locks -> Int]]

\* owner, depth and inside, of a thread that holds the mutex and is between two
\* calls or has not come further than to know that it is the owner
Settled(t, o) ==
  owner[o] = t /\ depth[o] = inside[t][o] /\ inside[t][o] > 0

\* t holds o's mutex, and how far it is with writing owner and depth
Holder(t, o) ==
  \/ lockOf[t] # o /\ Settled(t, o)
  \/ lockOf[t] = o /\ pc[t] \in Seeking \cup {"own"} /\ Settled(t, o)
  \/ /\ lockOf[t] = o /\ pc[t] \in {"unpark", "setOwner"}
     /\ inside[t][o] = 0 /\ owner[o] = NoOwner /\ depth[o] = 0
  \/ /\ lockOf[t] = o /\ pc[t] = "setDepth"
     /\ inside[t][o] = 0 /\ owner[o] = t /\ depth[o] = 0
  \/ /\ lockOf[t] = o /\ pc[t] = "clear"
     /\ inside[t][o] = 1 /\ owner[o] = t /\ depth[o] = 0
  \/ /\ lockOf[t] = o /\ pc[t] = "unlock"
     /\ inside[t][o] = 1 /\ owner[o] = NoOwner /\ depth[o] = 0

\* t does not: it is not inside, nobody takes it for the owner, and it is in no
\* place that only the holder reaches
Stranger(t, o) ==
  /\ inside[t][o] = 0 /\ owner[o] # t
  /\ lockOf[t] = o => pc[t] \in Seeking \cup {"foreign", "wait"}

Standing ==
  \A o \in Locks : \A t \in Threads :
    IF mutex[o] = t THEN Holder(t, o) ELSE Stranger(t, o)

Free ==
  \A o \in Locks : mutex[o] = NoOwner => owner[o] = NoOwner /\ depth[o] = 0

MonInv == MonTypeInv /\ Standing /\ Free

-------------------------------------------------------------------------------
\* The invariant says enough.
LEMMA InvExcludes ==
  ASSUME MonInv
  PROVE  MutualExclusion
<1>1. ASSUME NEW o \in Locks, NEW t \in Threads, NEW u \in Threads,
             inside[t][o] > 0, inside[u][o] > 0
      PROVE  t = u
  BY <1>1 DEF MonInv, MonTypeInv, Standing, Stranger
<1>2. ASSUME NEW o \in Locks, NEW t \in Threads, inside[t][o] > 0, lockOf[t] # o
      PROVE  mutex[o] = t /\ owner[o] = t /\ depth[o] = inside[t][o]
  BY <1>2 DEF MonInv, MonTypeInv, Standing, Stranger, Holder, Settled
<1>3. ASSUME NEW o \in Locks,
             \A t \in Threads : inside[t][o] = 0 /\ lockOf[t] # o
      PROVE  mutex[o] = NoOwner /\ owner[o] = NoOwner /\ depth[o] = 0
  <2>1. ASSUME NEW t \in Threads, mutex[o] = t PROVE FALSE
    BY <1>3, <2>1 DEF MonInv, Standing, Holder, Settled
  <2>2. QED
    BY <2>1 DEF MonInv, MonTypeInv, Free
<1>4. ASSUME NEW t \in Threads
      PROVE  /\ pc[t] = "own" => inside[t][lockOf[t]] > 0
             /\ pc[t] = "foreign" => inside[t][lockOf[t]] = 0
  <2>1. CASE pc[t] \in {"own", "foreign"}
    <3>1. lockOf[t] \in Locks
      BY <2>1 DEF MonInv, MonTypeInv
    <3>2. QED
      BY <2>1, <3>1 DEF MonInv, Standing, Holder, Stranger, Settled, Seeking
  <2>2. QED
    BY <2>1
<1>5. QED
  BY <1>1, <1>2, <1>3, <1>4 DEF MutualExclusion

\* Nobody has a lock at the start.
LEMMA MonStarts ==
  ASSUME MonInit
  PROVE  MonInv
  BY NobodyAssumption
  DEF MonInit, MonitorsInit, MonInv, MonTypeInv, Standing, Free, Stranger, Holder,
      Labels

-------------------------------------------------------------------------------
(* A step of one thread at the lock it called for *)

\* Every action of a call changes its own thread's place and its own lock only:
\* the others stand as they stood, if the mutex does not come from or go to one.
LEMMA OthersStand ==
  ASSUME MonInv, NEW t \in Threads, NEW o \in Locks,
         MonTypeInv',
         lockOf[t] \in {o, NoLock}, lockOf'[t] \in {o, NoLock},
         \A u \in Threads \ {t} :
           pc'[u] = pc[u] /\ lockOf'[u] = lockOf[u] /\ inside'[u] = inside[u],
         \A p \in Locks \ {o} :
           /\ mutex'[p] = mutex[p] /\ owner'[p] = owner[p] /\ depth'[p] = depth[p]
           /\ inside'[t][p] = inside[t][p],
         \/ mutex'[o] = mutex[o] /\ owner'[o] = owner[o] /\ depth'[o] = depth[o]
         \/ {mutex[o], mutex'[o]} \subseteq {t, NoOwner} /\ owner'[o] \in {t, NoOwner},
         IF mutex'[o] = t THEN Holder(t, o)' ELSE Stranger(t, o)',
         mutex'[o] = NoOwner => owner'[o] = NoOwner /\ depth'[o] = 0
  PROVE  MonInv'
<1>1. ASSUME NEW p \in Locks, NEW u \in Threads
      PROVE  IF mutex'[p] = u THEN Holder(u, p)' ELSE Stranger(u, p)'
  <2>0. NoLock \notin Locks /\ NoOwner \notin Threads
    BY NobodyAssumption
  <2>1. IF mutex[p] = u THEN Holder(u, p) ELSE Stranger(u, p)
    BY DEF MonInv, Standing
  <2>2. CASE u = t /\ p = o
    BY <2>2
  <2>3. CASE u = t /\ p # o
    BY <2>0, <2>1, <2>3 DEF Holder, Stranger, Settled
  <2>4. CASE u # t /\ p # o
    BY <2>1, <2>4 DEF Holder, Stranger, Settled
  <2>5. CASE u # t /\ p = o
    BY <2>0, <2>1, <2>5 DEF Holder, Stranger, Settled
  <2>6. QED
    BY <2>2, <2>3, <2>4, <2>5
<1>2. Free'
  BY DEF MonInv, Free
<1>3. Standing'
  BY <1>1 DEF Standing
<1>4. QED
  BY <1>2, <1>3 DEF MonInv

\* What a thread that is in a call stands for.
LEMMA AtItsLock ==
  ASSUME MonInv, NEW t \in Threads, pc[t] # "user"
  PROVE  /\ lockOf[t] \in Locks
         /\ \A o \in Locks : IF mutex[o] = t THEN Holder(t, o) ELSE Stranger(t, o)
  BY DEF MonInv, MonTypeInv, Standing

\* A call begins: between two calls who holds a mutex is settled.
LEMMA InvokeKeeps ==
  ASSUME MonInv, NEW t \in Threads, NEW f, NEW o \in Locks, Invoke(t, f, o)
  PROVE  MonInv'
<1> USE NobodyAssumption DEF OnCpu, MonGoto
<1>1. lockOf[t] = NoLock /\ pc[t] = "user"
  BY DEF Invoke, MonInv, MonTypeInv
<1>2. MonTypeInv'
  BY <1>1 DEF Invoke, MonInv, MonTypeInv, Labels, Seeking
<1>3. IF mutex[o] = t THEN Settled(t, o) ELSE Stranger(t, o)
  BY <1>1 DEF MonInv, Standing, Holder
<1>4. /\ pc'[t] = "find" /\ lockOf'[t] = o
      /\ \A u \in Threads \ {t} : pc'[u] = pc[u] /\ lockOf'[u] = lockOf[u]
      /\ UNCHANGED <<mutex, owner, depth, inside>>
  BY DEF Invoke, MonInv, MonTypeInv
<1>5. IF mutex'[o] = t THEN Holder(t, o)' ELSE Stranger(t, o)'
  BY <1>3, <1>4 DEF Holder, Stranger, Settled, Seeking
<1>6. mutex'[o] = NoOwner => owner'[o] = NoOwner /\ depth'[o] = 0
  BY <1>4 DEF MonInv, Free
<1>7. QED
  BY <1>1, <1>2, <1>4, <1>5, <1>6, OthersStand

\* The test for the owner: without the mutex it never answers yes, with the
\* mutex it always does.
LEMMA TestKeeps ==
  ASSUME MonInv, NEW t \in Threads, NEW o \in Locks, lockOf[t] = o,
         MonOf(t) \/ ReadDepth(t) \/ ReadDepthZero(t) \/ ReadOwner(t)
  PROVE  MonInv'
<1> USE NobodyAssumption DEF OnCpu, MonGoto
<1>1. /\ pc[t] \in Seeking
      /\ UNCHANGED <<call, lockOf, mutex, owner, depth, inside>>
      /\ \A u \in Threads \ {t} : pc'[u] = pc[u]
  BY DEF MonOf, ReadDepth, ReadDepthZero, ReadOwner, Seeking, MonInv, MonTypeInv
<1>2. IF mutex[o] = t THEN Settled(t, o) ELSE Stranger(t, o)
  BY <1>1 DEF Holder, Seeking, MonInv, Standing
<1>3. pc'[t] \in Seeking \cup IF mutex[o] = t THEN {"own"} ELSE {"foreign"}
  BY <1>1, <1>2 DEF MonOf, ReadDepth, ReadDepthZero, ReadOwner, Seeking, Settled, Stranger,
     MonInv, MonTypeInv
<1>4. pc' \in [Threads -> Labels]
  BY <1>1, <1>3 DEF MonOf, ReadDepth, ReadDepthZero, ReadOwner, Labels, Seeking, MonInv,
     MonTypeInv
<1>5. MonTypeInv'
  BY <1>1, <1>3, <1>4 DEF MonInv, MonTypeInv, Seeking
<1>6. IF mutex'[o] = t THEN Holder(t, o)' ELSE Stranger(t, o)'
  BY <1>1, <1>2, <1>3 DEF Holder, Stranger, Settled, Seeking
<1>7. mutex'[o] = NoOwner => owner'[o] = NoOwner /\ depth'[o] = 0
  BY <1>1 DEF MonInv, Free
<1>8. QED
  BY <1>1, <1>5, <1>6, <1>7, OthersStand

\* A return: the thread is in no call, and the count of its entries is k more.
LEMMA Returned ==
  ASSUME MonInv, NEW t \in Threads, NEW o \in Locks, lockOf[t] = o,
         NEW k \in Int, Return(t, k),
         mutex' \in [Locks -> Threads \cup {NoOwner}],
         owner' \in [Locks -> Threads \cup {NoOwner}],
         depth' \in [Locks -> Int]
  PROVE  /\ MonTypeInv'
         /\ lockOf'[t] = NoLock
         /\ inside'[t][o] = inside[t][o] + k
         /\ \A p \in Locks \ {o} : inside'[t][p] = inside[t][p]
         /\ \A u \in Threads \ {t} :
              pc'[u] = pc[u] /\ lockOf'[u] = lockOf[u] /\ inside'[u] = inside[u]
  BY NobodyAssumption DEF MonInv, MonTypeInv, Return, Labels

\* Entering again, and the calls that change nothing.
LEMMA AnswerKeeps ==
  ASSUME MonInv, NEW t \in Threads, NEW o \in Locks, lockOf[t] = o,
         Reenter(t) \/ IsEntered(t) \/ TryFails(t) \/ ExitForeign(t)
  PROVE  MonInv'
<1> USE NobodyAssumption DEF OnCpu
<1>1. pc[t] \in {"own", "foreign"} /\ UNCHANGED <<mutex, owner>>
  BY DEF Reenter, IsEntered, TryFails, ExitForeign
<1>2. IF mutex[o] = t THEN pc[t] = "own" /\ Settled(t, o) ELSE Stranger(t, o)
  BY <1>1 DEF Holder, MonInv, Standing, Seeking
<1>3. CASE Reenter(t)
  <2>1. mutex[o] = t /\ Settled(t, o)
    BY <1>2, <1>3 DEF Reenter, Stranger, Seeking
  <2>2. /\ depth' \in [Locks -> Int] /\ depth'[o] = depth[o] + 1
        /\ \A p \in Locks \ {o} : depth'[p] = depth[p]
    BY <1>3 DEF Reenter, MonInv, MonTypeInv
  <2>3. /\ MonTypeInv' /\ lockOf'[t] = NoLock /\ inside'[t][o] = inside[t][o] + 1
        /\ \A p \in Locks \ {o} : inside'[t][p] = inside[t][p]
        /\ \A u \in Threads \ {t} :
             pc'[u] = pc[u] /\ lockOf'[u] = lockOf[u] /\ inside'[u] = inside[u]
    <3>1. /\ mutex' \in [Locks -> Threads \cup {NoOwner}]
          /\ owner' \in [Locks -> Threads \cup {NoOwner}]
      BY <1>1 DEF MonInv, MonTypeInv
    <3>2. QED
      BY <1>3, <2>2, <3>1, Returned DEF Reenter
  <2>4. Holder(t, o)'
    BY <1>1, <2>1, <2>2, <2>3 DEF Holder, Settled, MonInv, MonTypeInv
  <2>5. mutex'[o] = t /\ {mutex[o], mutex'[o]} \subseteq {t, NoOwner} /\ owner'[o] = t
    BY <1>1, <2>1 DEF Settled
  <2>6. QED
    BY <1>1, <2>2, <2>3, <2>4, <2>5, OthersStand
<1>4. CASE ~Reenter(t)
  <2>1. Return(t, 0) /\ depth' = depth
    BY <1>4 DEF IsEntered, TryFails, ExitForeign
  <2>2. /\ MonTypeInv' /\ lockOf'[t] = NoLock /\ inside'[t][o] = inside[t][o]
        /\ \A p \in Locks \ {o} : inside'[t][p] = inside[t][p]
        /\ \A u \in Threads \ {t} :
             pc'[u] = pc[u] /\ lockOf'[u] = lockOf[u] /\ inside'[u] = inside[u]
    <3>1. /\ mutex' \in [Locks -> Threads \cup {NoOwner}]
          /\ owner' \in [Locks -> Threads \cup {NoOwner}]
          /\ depth' \in [Locks -> Int]
      BY <1>1, <2>1 DEF MonInv, MonTypeInv
    <3>2. inside[t][o] \in Int
      BY DEF MonInv, MonTypeInv
    <3>3. QED
      BY <2>1, <3>1, <3>2, Returned
  <2>3. IF mutex'[o] = t THEN Holder(t, o)' ELSE Stranger(t, o)'
    BY <1>1, <1>2, <2>1, <2>2 DEF Holder, Stranger, Settled
  <2>4. mutex'[o] = NoOwner => owner'[o] = NoOwner /\ depth'[o] = 0
    BY <1>1, <2>1 DEF MonInv, Free
  <2>5. QED
    BY <1>1, <2>1, <2>2, <2>3, <2>4, OthersStand
<1>5. QED
  BY <1>3, <1>4

\* Taking the mutex, which is free and was left clean.
LEMMA TakeKeeps ==
  ASSUME MonInv, NEW t \in Threads, NEW o \in Locks, lockOf[t] = o,
         EnterLock(t) \/ TryLock(t)
  PROVE  MonInv'
<1> USE NobodyAssumption DEF OnCpu, MonGoto
<1>1. /\ pc[t] \in {"wait", "foreign"} /\ mutex[o] = NoOwner
      /\ UNCHANGED <<lockOf, owner, depth, inside>>
  BY DEF EnterLock, TryLock
<1>2. /\ mutex'[o] = t
      /\ \A p \in Locks \ {o} : mutex'[p] = mutex[p]
      /\ pc'[t] \in {"unpark", "setOwner"}
      /\ \A u \in Threads \ {t} : pc'[u] = pc[u]
  BY DEF EnterLock, TryLock, MonInv, MonTypeInv
<1>3. MonTypeInv'
  <2>1. MonTypeInv /\ mutex' = [mutex EXCEPT ![o] = t]
    BY DEF EnterLock, TryLock, MonInv
  <2>2. \E l \in {"unpark", "setOwner"} : pc' = [pc EXCEPT ![t] = l]
    BY DEF EnterLock, TryLock
  <2>3. pc' \in [Threads -> Labels]
    BY <2>1, <2>2 DEF MonTypeInv, Labels
  <2>4. mutex' \in [Locks -> Threads \cup {NoOwner}]
    BY <2>1 DEF MonTypeInv
  <2>5. \A u \in Threads : pc'[u] = "user" <=> pc[u] = "user"
    BY <1>1, <1>2
  <2>6. QED
    BY <1>1, <2>1, <2>3, <2>4, <2>5 DEF MonTypeInv
<1>4. owner[o] = NoOwner /\ depth[o] = 0 /\ inside[t][o] = 0
  BY <1>1 DEF MonInv, Free, Standing, Stranger
<1>5. Holder(t, o)'
  BY <1>1, <1>2, <1>4 DEF Holder
<1>6. QED
  BY <1>1, <1>2, <1>3, <1>4, <1>5, OthersStand

\* Waiting for the mutex begins, and the way back into the program.
LEMMA WaitKeeps ==
  ASSUME MonInv, NEW t \in Threads, NEW o \in Locks, lockOf[t] = o,
         EnterPark(t) \/ EnterUnpark(t)
  PROVE  MonInv'
<1> USE NobodyAssumption DEF OnCpu, MonGoto
<1>1. /\ pc[t] \in {"foreign", "unpark"}
      /\ pc'[t] = IF pc[t] = "foreign" THEN "wait" ELSE "setOwner"
      /\ UNCHANGED <<lockOf, mutex, owner, depth, inside>>
      /\ \A u \in Threads \ {t} : pc'[u] = pc[u]
  BY DEF EnterPark, EnterUnpark, MonInv, MonTypeInv
<1>2. MonTypeInv'
  BY <1>1 DEF EnterPark, EnterUnpark, MonInv, MonTypeInv, Labels
<1>3. IF mutex[o] = t THEN Holder(t, o) ELSE Stranger(t, o)
  BY DEF MonInv, Standing
<1>4. IF mutex'[o] = t THEN Holder(t, o)' ELSE Stranger(t, o)'
  BY <1>1, <1>3 DEF Holder, Stranger, Seeking
<1>5. mutex'[o] = NoOwner => owner'[o] = NoOwner /\ depth'[o] = 0
  BY <1>1 DEF MonInv, Free
<1>6. QED
  BY <1>1, <1>2, <1>4, <1>5, OthersStand

\* Writing owner and depth with the mutex taken, and the outermost exit.
LEMMA OwnKeeps ==
  ASSUME MonInv, NEW t \in Threads, NEW o \in Locks, lockOf[t] = o,
         SetOwner(t) \/ ClearOwner(t)
  PROVE  MonInv'
<1> USE NobodyAssumption DEF OnCpu, MonGoto
<1>1. /\ pc[t] \in {"setOwner", "clear"}
      /\ pc'[t] = IF pc[t] = "setOwner" THEN "setDepth" ELSE "unlock"
      /\ owner'[o] = IF pc[t] = "setOwner" THEN t ELSE NoOwner
      /\ \A p \in Locks \ {o} : owner'[p] = owner[p]
      /\ UNCHANGED <<lockOf, mutex, depth, inside>>
      /\ \A u \in Threads \ {t} : pc'[u] = pc[u]
  BY DEF SetOwner, ClearOwner, MonInv, MonTypeInv
<1>2. MonTypeInv'
  <2>1. owner' \in [Locks -> Threads \cup {NoOwner}]
    BY DEF SetOwner, ClearOwner, MonInv, MonTypeInv
  <2>2. pc' \in [Threads -> Labels]
    BY DEF SetOwner, ClearOwner, MonInv, MonTypeInv, Labels
  <2>3. QED
    BY <1>1, <2>1, <2>2 DEF MonInv, MonTypeInv
<1>3. mutex[o] = t /\ Holder(t, o)
  BY <1>1 DEF MonInv, Standing, Stranger, Seeking
<1>4. Holder(t, o)'
  BY <1>1, <1>3 DEF Holder, Seeking
<1>5. QED
  BY <1>1, <1>2, <1>3, <1>4, OthersStand

\* The first entry is over.
LEMMA SetDepthKeeps ==
  ASSUME MonInv, NEW t \in Threads, NEW o \in Locks, lockOf[t] = o, SetDepth(t)
  PROVE  MonInv'
<1> USE NobodyAssumption DEF OnCpu
<1>1. pc[t] = "setDepth" /\ Return(t, 1) /\ UNCHANGED <<mutex, owner>>
  BY DEF SetDepth
<1>2. mutex[o] = t /\ owner[o] = t /\ inside[t][o] = 0
  BY <1>1 DEF MonInv, Standing, Stranger, Holder, Seeking
<1>3. /\ depth' \in [Locks -> Int] /\ depth'[o] = 1
      /\ \A p \in Locks \ {o} : depth'[p] = depth[p]
      /\ mutex' \in [Locks -> Threads \cup {NoOwner}]
      /\ owner' \in [Locks -> Threads \cup {NoOwner}]
  BY <1>1 DEF SetDepth, MonInv, MonTypeInv
<1>4. /\ MonTypeInv' /\ lockOf'[t] = NoLock /\ inside'[t][o] = inside[t][o] + 1
      /\ \A p \in Locks \ {o} : inside'[t][p] = inside[t][p]
      /\ \A u \in Threads \ {t} :
           pc'[u] = pc[u] /\ lockOf'[u] = lockOf[u] /\ inside'[u] = inside[u]
  BY <1>1, <1>3, Returned
<1>5. Holder(t, o)'
  BY <1>1, <1>2, <1>3, <1>4 DEF Holder, Settled
<1>6. QED
  BY <1>1, <1>2, <1>3, <1>4, <1>5, OthersStand

\* One entry less; the last one keeps the mutex for the two steps that follow.
LEMMA ExitKeeps ==
  ASSUME MonInv, NEW t \in Threads, NEW o \in Locks, lockOf[t] = o, ExitOwn(t)
  PROVE  MonInv'
<1> USE NobodyAssumption DEF OnCpu, MonGoto
<1>1. pc[t] = "own" /\ UNCHANGED <<mutex, owner>>
  BY DEF ExitOwn
<1>2. mutex[o] = t /\ Settled(t, o)
  BY <1>1 DEF MonInv, Standing, Stranger, Holder, Seeking
<1>3. /\ depth' \in [Locks -> Int] /\ depth'[o] = depth[o] - 1
      /\ \A p \in Locks \ {o} : depth'[p] = depth[p]
      /\ mutex' \in [Locks -> Threads \cup {NoOwner}]
      /\ owner' \in [Locks -> Threads \cup {NoOwner}]
  BY <1>1 DEF ExitOwn, MonInv, MonTypeInv
<1>4. CASE depth[o] = 1
  <2>1. /\ pc' = [pc EXCEPT ![t] = "clear"] /\ UNCHANGED <<lockOf, inside>>
    BY <1>4 DEF ExitOwn
  <2>2. MonTypeInv'
    BY <1>1, <1>3, <2>1 DEF MonInv, MonTypeInv, Labels
  <2>3. pc'[t] = "clear" /\ \A u \in Threads \ {t} : pc'[u] = pc[u]
    BY <2>1 DEF MonInv, MonTypeInv
  <2>4. Holder(t, o)'
    <3>1. depth'[o] = 0
      BY <1>3, <1>4
    <3>2. inside'[t][o] = 1 /\ owner'[o] = t
      BY <1>1, <1>2, <1>4, <2>1 DEF Settled
    <3>3. QED
      BY <2>1, <2>3, <3>1, <3>2 DEF Holder
  <2>5. QED
    BY <1>1, <1>2, <1>3, <2>1, <2>2, <2>3, <2>4, OthersStand DEF Settled
<1>5. CASE depth[o] # 1
  <2>1. Return(t, -1)
    BY <1>5 DEF ExitOwn
  <2>2. /\ MonTypeInv' /\ lockOf'[t] = NoLock /\ inside'[t][o] = inside[t][o] + (-1)
        /\ \A p \in Locks \ {o} : inside'[t][p] = inside[t][p]
        /\ \A u \in Threads \ {t} :
             pc'[u] = pc[u] /\ lockOf'[u] = lockOf[u] /\ inside'[u] = inside[u]
    BY <1>3, <2>1, Returned
  <2>3. inside[t][o] \in Int /\ depth[o] \in Int
    BY DEF MonInv, MonTypeInv
  <2>4. Holder(t, o)'
    BY <1>1, <1>2, <1>3, <1>5, <2>2, <2>3 DEF Holder, Settled
  <2>5. QED
    BY <1>1, <1>2, <1>3, <2>2, <2>4, OthersStand DEF Settled
<1>6. QED
  BY <1>4, <1>5

\* The mutex is given back when owner and depth are clear.
LEMMA UnlockKeeps ==
  ASSUME MonInv, NEW t \in Threads, NEW o \in Locks, lockOf[t] = o, Unlock(t)
  PROVE  MonInv'
<1> USE NobodyAssumption DEF OnCpu
<1>1. pc[t] = "unlock" /\ Return(t, -1) /\ UNCHANGED <<owner, depth>>
  BY DEF Unlock
<1>2. mutex[o] = t /\ inside[t][o] = 1 /\ owner[o] = NoOwner /\ depth[o] = 0
  BY <1>1 DEF MonInv, Standing, Stranger, Holder, Seeking
<1>3. /\ mutex' \in [Locks -> Threads \cup {NoOwner}] /\ mutex'[o] = NoOwner
      /\ \A p \in Locks \ {o} : mutex'[p] = mutex[p]
      /\ owner' \in [Locks -> Threads \cup {NoOwner}]
      /\ depth' \in [Locks -> Int]
  BY <1>1 DEF Unlock, MonInv, MonTypeInv
<1>4. /\ MonTypeInv' /\ lockOf'[t] = NoLock /\ inside'[t][o] = inside[t][o] + (-1)
      /\ \A p \in Locks \ {o} : inside'[t][p] = inside[t][p]
      /\ \A u \in Threads \ {t} :
           pc'[u] = pc[u] /\ lockOf'[u] = lockOf[u] /\ inside'[u] = inside[u]
  BY <1>1, <1>3, Returned
<1>5. Stranger(t, o)'
  BY <1>1, <1>2, <1>4 DEF Stranger
<1>6. QED
  BY <1>1, <1>2, <1>3, <1>4, <1>5, OthersStand

-------------------------------------------------------------------------------
\* Every step keeps the invariant; what a thread does in the handshake or by
\* itself does not concern the monitors.
LEMMA MonInvInductive ==
  ASSUME MonInv, [MonNext]_monitorVars
  PROVE  MonInv'
<1>1. ASSUME UNCHANGED monVars PROVE MonInv'
  BY <1>1 DEF monVars, MonInv, MonTypeInv, Standing, Free, Holder, Stranger, Settled
<1>2. ASSUME NEW t \in Lockers, NEW f \in Functions, NEW o \in Locks, Invoke(t, f, o)
      PROVE  MonInv'
  BY <1>2, LockersAssumption, InvokeKeeps
<1>3. ASSUME NEW t \in Lockers, Inside(t) \/ EnterLock(t)
      PROVE  MonInv'
  <2>1. t \in Threads
    BY LockersAssumption
  <2>2. pc[t] # "user"
    BY <1>3 DEF Inside, OnCpu, MonOf, ReadDepth, ReadDepthZero, ReadOwner, Reenter,
       IsEntered, EnterPark, EnterLock, EnterUnpark, SetOwner, SetDepth, TryLock,
       TryFails, ExitForeign, ExitOwn, ClearOwner, Unlock
  <2>3. PICK o \in Locks : lockOf[t] = o
    BY <2>1, <2>2, AtItsLock
  <2>4. QED
    BY <1>3, <2>1, <2>3, TestKeeps, AnswerKeeps, TakeKeeps, WaitKeeps, OwnKeeps,
       SetDepthKeeps, ExitKeeps, UnlockKeeps DEF Inside
<1>4. QED
  BY <1>1, <1>2, <1>3
  DEF MonNext, monitorVars, MonUserHeap, MonInHandshake

\* However many threads enter, try, leave and ask, in whatever order: one at a
\* time is inside, the depth is its nesting, and the tests without the mutex are
\* right about the caller.
THEOREM LocksExclude == MonSpec => []MutualExclusion
<1>1. MonInit => MonInv
  BY MonStarts
<1>2. MonInv /\ [MonNext]_monitorVars => MonInv'
  BY MonInvInductive
<1>3. MonInv => MutualExclusion
  BY InvExcludes
<1>4. QED
  BY <1>1, <1>2, <1>3, PTL DEF MonSpec

-------------------------------------------------------------------------------
(* The event loop *)

TaskStates == {"cold", "queued", "running", "receiving", "sleeping", "switching", "done",
           "stopped"}
Suspended == {"queued", "receiving", "sleeping", "switching"}
Jobs == [task : Tasks, value : Nat]
Timers == [at : Nat, job : Jobs]

AsyncTypeInv ==
  /\ clock \in Nat /\ sends \in Nat /\ receives \in Nat
  /\ ready \in Seq(Jobs) /\ batch \in Seq(Jobs) /\ timers \in Seq(Timers)
  /\ waiters \in Seq(Tasks) /\ chanBuffer \in Seq(Nat)
  /\ cur \in Tasks \cup {Main, Loop}
  /\ status \in [Tasks -> TaskStates]
  /\ scope \in [Tasks -> Scopes \cup {Own}]
  /\ cancelled \in SUBSET Scopes
  /\ turn \in [Tasks -> Nat] /\ got \in [Tasks -> Nat]

\* who runs is not suspended
CurInv == cur \in Tasks => status[cur] = "running"

\* what resumes a receiver carries the value that its call of Receive is for,
\* and nothing else carries a value
JobsInv ==
  /\ \A j \in Posted :
       j.value = IF status[j.task] = "receiving" THEN turn[j.task] ELSE 0
  /\ \A i \in DOMAIN timers :
       timers[i].job.value = 0 /\ status[timers[i].job.task] = "sleeping"
  /\ \A i \in DOMAIN waiters : status[waiters[i]] = "receiving"

\* The buffer holds the last values, the waiters are the last calls, and never
\* both: how far the sends are ahead of the receives, or behind them.
ChannelInv ==
  /\ chanBuffer = <<>> \/ waiters = <<>>
  /\ sends - Len(chanBuffer) = receives - Len(waiters)
  /\ \A i \in DOMAIN chanBuffer : chanBuffer[i] = sends - Len(chanBuffer) + i
  /\ \A i \in DOMAIN waiters : turn[waiters[i]] = receives - Len(waiters) + i

\* who has not got the value of the last call waits for it or was cancelled
TurnInv ==
  \A t \in Tasks :
    /\ turn[t] <= receives
    /\ got[t] \in {0, turn[t]}
    /\ status[t] = "receiving" => got[t] = 0 /\ turn[t] > 0
    /\ got[t] # turn[t] => \/ status[t] = "receiving"
                           \/ status[t] = "stopped" /\ IsCancelled(scope[t])

AsyncInv ==
  /\ AsyncTypeInv /\ CurInv /\ ResumedOnce /\ JobsInv /\ ChannelInv /\ TurnInv

-------------------------------------------------------------------------------
(* How often a list holds an element of a set, and what the list operations *)
(* make of that.                                                            *)

Count(q, P) == Cardinality({i \in DOMAIN q : q[i] \in P})

LEMMA CountType ==
  ASSUME NEW S, NEW q \in Seq(S), NEW P
  PROVE  /\ IsFiniteSet({i \in DOMAIN q : q[i] \in P})
         /\ Count(q, P) \in Nat
<1>1. DOMAIN q = 1 .. Len(q) /\ Len(q) \in Nat
  OBVIOUS
<1>2. IsFiniteSet(1 .. Len(q))
  BY <1>1, FS_Interval
<1>3. IsFiniteSet({i \in DOMAIN q : q[i] \in P})
  BY <1>1, <1>2, FS_Subset
<1>4. QED
  BY <1>3, FS_CardinalityType DEF Count

LEMMA CountNothing ==
  ASSUME NEW P
  PROVE  Count(<<>>, P) = 0
<1>1. {i \in DOMAIN <<>> : <<>>[i] \in P} = {}
  OBVIOUS
<1>2. QED
  BY <1>1, FS_EmptySet DEF Count

\* an element that is there is counted, and what is counted is there
LEMMA CountSome ==
  ASSUME NEW S, NEW q \in Seq(S), NEW P
  PROVE  Count(q, P) > 0 <=> \E i \in DOMAIN q : q[i] \in P
<1> DEFINE I == {k \in DOMAIN q : q[k] \in P}
<1>1. IsFiniteSet(I) /\ Cardinality(I) \in Nat /\ Count(q, P) = Cardinality(I)
  BY CountType DEF Count
<1>2. I # {} <=> \E i \in DOMAIN q : q[i] \in P
  OBVIOUS
<1> HIDE DEF I
<1>3. Cardinality(I) = 0 <=> I = {}
  BY <1>1, FS_EmptySet
<1>4. QED
  BY <1>1, <1>2, <1>3

LEMMA CountAppend ==
  ASSUME NEW S, NEW q \in Seq(S), NEW e \in S, NEW P
  PROVE  Count(Append(q, e), P) = Count(q, P) + (IF e \in P THEN 1 ELSE 0)
<1> DEFINE r == Append(q, e)
           I == {k \in DOMAIN q : q[k] \in P}
           J == {k \in DOMAIN r : r[k] \in P}
           n == Len(q) + 1
<1>1. /\ DOMAIN q = 1 .. Len(q) /\ DOMAIN r = 1 .. n /\ Len(q) \in Nat
      /\ r[n] = e /\ \A k \in 1 .. Len(q) : r[k] = q[k]
  OBVIOUS
<1>2. n \notin I
  BY <1>1
<1>3. IsFiniteSet(I) /\ Cardinality(I) \in Nat
  BY CountType DEF Count
<1>4. Count(r, P) = Cardinality(J) /\ Count(q, P) = Cardinality(I)
  BY DEF Count
<1>5. e \in P => J = I \cup {n}
  BY <1>1
<1>6. e \notin P => J = I
  BY <1>1
<1>7. Cardinality(I \cup {n}) = Cardinality(I) + 1
  BY <1>2, <1>3, FS_AddElement
<1> HIDE DEF I, J, n
<1>8. CASE e \in P
  BY <1>4, <1>5, <1>7, <1>8
<1>9. CASE e \notin P
  BY <1>3, <1>4, <1>6, <1>9
<1>10. QED
  BY <1>8, <1>9

LEMMA CountTail ==
  ASSUME NEW S, NEW q \in Seq(S), q # <<>>, NEW P
  PROVE  Count(q, P) = Count(Tail(q), P) + (IF Head(q) \in P THEN 1 ELSE 0)
<1> DEFINE r == Tail(q)
           I == {k \in DOMAIN q : q[k] \in P}
           J == {k \in DOMAIN r : r[k] \in P}
           K == I \ {1}
           shift == [k \in J |-> k + 1]
<1>1. /\ DOMAIN q = 1 .. Len(q) /\ Len(q) \in Nat \ {0}
      /\ DOMAIN r = 1 .. Len(q) - 1
      /\ Head(q) = q[1] /\ \A k \in 1 .. Len(q) - 1 : r[k] = q[k + 1]
  OBVIOUS
<1>2. r \in Seq(S)
  OBVIOUS
<1>3. IsFiniteSet(I) /\ IsFiniteSet(J) /\ Cardinality(J) \in Nat
  BY <1>2, CountType DEF Count
<1>4. shift \in Bijection(J, K)
  <2>1. \A k \in J : k + 1 \in K
    BY <1>1
  <2>2. \A k, m \in J : k + 1 = m + 1 => k = m
    BY <1>1
  <2>3. \A m \in K : m - 1 \in J /\ (m - 1) + 1 = m
    BY <1>1
  <2>4. shift \in [J -> K] /\ \A k \in J : shift[k] = k + 1
    BY <2>1
  <2> HIDE DEF shift, J, K
  <2>5. \A k, m \in J : shift[k] = shift[m] => k = m
    BY <2>2, <2>4
  <2>6. \A m \in K : \E k \in J : shift[k] = m
    BY <2>3, <2>4
  <2>7. shift \in Injection(J, K)
    BY <2>4, <2>5, Zenon DEF Injection, IsInjective
  <2>8. shift \in Surjection(J, K)
    BY <2>4, <2>6, Zenon DEF Surjection
  <2>9. QED
    BY <2>7, <2>8, Zenon DEF Bijection
<1>5. Cardinality(K) = Cardinality(J)
  BY <1>3, <1>4, FS_Bijection DEF ExistsBijection
<1>6. Count(q, P) = Cardinality(I) /\ Count(r, P) = Cardinality(J)
  BY DEF Count
<1>7. 1 \in I <=> Head(q) \in P
  BY <1>1
<1> HIDE DEF I, J, r
<1>8. /\ Cardinality(K) = IF 1 \in I THEN Cardinality(I) - 1 ELSE Cardinality(I)
      /\ Cardinality(I) \in Nat
  BY <1>3, FS_RemoveElement, FS_CardinalityType
<1>9. Count(q, P) = Count(r, P) + (IF Head(q) \in P THEN 1 ELSE 0)
  BY <1>3, <1>5, <1>6, <1>7, <1>8
<1>10. QED
  BY <1>9 DEF r

\* how many positions of I are not above i
Rank(I, i) == Cardinality({j \in I : j <= i})

\* the ranks of a finite set's members are 1, 2, ... up to their number
LEMMA Ranks ==
  ASSUME NEW I \in SUBSET Nat, IsFiniteSet(I)
  PROVE  [i \in I |-> Rank(I, i)] \in Bijection(I, 1 .. Cardinality(I))
<1> DEFINE f == [i \in I |-> Rank(I, i)]
           Upto(i) == {j \in I : j <= i}
<1>1. Cardinality(I) \in Nat
  BY FS_CardinalityType
<1>2. \A i \in I : /\ IsFiniteSet(Upto(i)) /\ Upto(i) # {}
                   /\ Cardinality(Upto(i)) \in Nat /\ Cardinality(Upto(i)) <= Cardinality(I)
  BY FS_Subset, FS_CardinalityType
<1>3. \A i \in I : Cardinality(Upto(i)) # 0
  BY <1>2, FS_EmptySet
<1>4. \A i \in I : Cardinality(Upto(i)) \in 1 .. Cardinality(I)
  BY <1>1, <1>2, <1>3
<1>5. f \in [I -> 1 .. Cardinality(I)]
  BY <1>4 DEF Rank
<1>6. ASSUME NEW i \in I, NEW k \in I, i < k
      PROVE  Cardinality(Upto(i)) # Cardinality(Upto(k))
  <2>1. \A j \in I : j <= i => j <= k
    BY <1>6
  <2>2. k <= k /\ ~(k <= i)
    BY <1>6
  <2>3. Upto(i) \subseteq Upto(k) /\ k \in Upto(k) /\ k \notin Upto(i)
    BY <2>1, <2>2
  <2> HIDE DEF Upto
  <2>4. QED
    BY <1>2, <2>3, FS_Subset
<1>7. ASSUME NEW i \in I, NEW k \in I, f[i] = f[k]
      PROVE  i = k
  <2>1. Cardinality(Upto(i)) = Cardinality(Upto(k))
    BY <1>7 DEF Rank
  <2>2. ~(i < k) /\ ~(k < i)
    BY <1>6, <2>1
  <2>3. QED
    BY <2>2
<1>8. f \in Injection(I, 1 .. Cardinality(I))
  BY <1>5, <1>7, Fun_IsInj
<1>9. IsFiniteSet(1 .. Cardinality(I)) /\ Cardinality(1 .. Cardinality(I)) = Cardinality(I)
  BY <1>1, FS_Interval
<1>10. f \in Surjection(I, 1 .. Cardinality(I))
  BY <1>8, <1>9, FS_Injection
<1>11. QED
  BY <1>8, <1>10, Fun_IsBij

\* Kept keeps the entries at the positions in I, each once.
KeepsEach(q, I) ==
  \E f \in [I -> 1 .. Cardinality(I)] :
    /\ \A i, k \in I : f[i] = f[k] => i = k
    /\ \A k \in 1 .. Cardinality(I) : \E i \in I : f[i] = k
    /\ \A i \in I : Kept(q, I)[f[i]] = q[i]
LEMMA KeptEach ==
  ASSUME NEW S, NEW q \in Seq(S), NEW I \in SUBSET DOMAIN q
  PROVE  /\ IsFiniteSet(I) /\ Cardinality(I) \in Nat
         /\ Kept(q, I) \in Seq(S)
         /\ DOMAIN Kept(q, I) = 1 .. Cardinality(I)
         /\ KeepsEach(q, I)
<1> DEFINE f == [i \in I |-> Rank(I, i)]
           Place(k) == CHOOSE i \in I : Cardinality({j \in I : j <= i}) = k
<1>1. DOMAIN q = 1 .. Len(q) /\ Len(q) \in Nat /\ \A i \in DOMAIN q : q[i] \in S
  OBVIOUS
<1>2. IsFiniteSet(1 .. Len(q))
  BY <1>1, FS_Interval
<1>3. IsFiniteSet(I)
  BY <1>1, <1>2, FS_Subset
<1>4. Cardinality(I) \in Nat /\ I \in SUBSET Nat
  BY <1>1, <1>3, FS_CardinalityType
<1>5. f \in Bijection(I, 1 .. Cardinality(I))
  BY <1>3, <1>4, Ranks
<1>6. \A i \in I : f[i] = Cardinality({j \in I : j <= i})
  BY DEF Rank
<1>7. Kept(q, I) = [k \in 1 .. Cardinality(I) |-> q[Place(k)]]
  BY DEF Kept
<1> HIDE DEF f
<1>8. /\ f \in [I -> 1 .. Cardinality(I)]
      /\ \A i, k \in I : f[i] = f[k] => i = k
      /\ \A k \in 1 .. Cardinality(I) : \E i \in I : f[i] = k
  BY <1>5 DEF Bijection, Injection, Surjection, IsInjective
<1>9. ASSUME NEW k \in 1 .. Cardinality(I)
      PROVE  Place(k) \in I /\ f[Place(k)] = k
  <2>1. \E i \in I : Cardinality({j \in I : j <= i}) = k
    BY <1>6, <1>8
  <2>2. Place(k) \in I /\ Cardinality({j \in I : j <= Place(k)}) = k
    BY <2>1
  <2> HIDE DEF Place
  <2>3. QED
    BY <1>6, <2>2
<1> HIDE DEF Place
<1>10. \A i \in I : Place(f[i]) = i
  BY <1>8, <1>9
<1>11. \A k \in 1 .. Cardinality(I) : q[Place(k)] \in S
  BY <1>1, <1>9
<1>12. Kept(q, I) \in Seq(S) /\ DOMAIN Kept(q, I) = 1 .. Cardinality(I)
  BY <1>4, <1>7, <1>11
<1>13. \A i \in I : Kept(q, I)[f[i]] = q[i]
  BY <1>7, <1>8, <1>10
<1>14. QED
  BY <1>3, <1>4, <1>8, <1>12, <1>13 DEF KeepsEach

LEMMA KeptFrom ==
  ASSUME NEW S, NEW q \in Seq(S), NEW I \in SUBSET DOMAIN q, NEW k \in DOMAIN Kept(q, I)
  PROVE  \E i \in DOMAIN q : Kept(q, I)[k] = q[i]
<1>1. DOMAIN Kept(q, I) = 1 .. Cardinality(I)
  BY KeptEach
<1>0. KeepsEach(q, I)
  BY KeptEach
<1>2. PICK f \in [I -> 1 .. Cardinality(I)] :
        /\ \A n \in 1 .. Cardinality(I) : \E i \in I : f[i] = n
        /\ \A i \in I : Kept(q, I)[f[i]] = q[i]
  BY <1>0 DEF KeepsEach
<1>3. PICK i \in I : f[i] = k
  BY <1>1, <1>2
<1>4. i \in DOMAIN q /\ Kept(q, I)[k] = q[i]
  BY <1>2, <1>3
<1>5. QED
  BY <1>4

LEMMA KeptCount ==
  ASSUME NEW S, NEW q \in Seq(S), NEW I \in SUBSET DOMAIN q, NEW P
  PROVE  Count(Kept(q, I), P) = Cardinality({i \in I : q[i] \in P})
<1> DEFINE A == {i \in I : q[i] \in P}
           B == {k \in DOMAIN Kept(q, I) : Kept(q, I)[k] \in P}
<1>1. IsFiniteSet(I) /\ DOMAIN Kept(q, I) = 1 .. Cardinality(I)
  BY KeptEach
<1>2. PICK f \in [I -> 1 .. Cardinality(I)] :
        /\ \A i, k \in I : f[i] = f[k] => i = k
        /\ \A k \in 1 .. Cardinality(I) : \E i \in I : f[i] = k
        /\ \A i \in I : Kept(q, I)[f[i]] = q[i]
  <2>1. KeepsEach(q, I)
    BY KeptEach
  <2>2. QED
    BY <2>1 DEF KeepsEach
<1> DEFINE g == [i \in A |-> f[i]]
<1>3. \A k \in B : \E i \in A : g[i] = k
  BY <1>1, <1>2
<1>4. g \in [A -> B] /\ \A i, k \in A : g[i] = g[k] => i = k
  <2>1. \A i \in A : f[i] \in B
    BY <1>1, <1>2
  <2>2. \A i, k \in A : f[i] = f[k] => i = k
    BY <1>2
  <2> HIDE DEF A, B
  <2>3. QED
    BY <2>1, <2>2
<1>5. IsFiniteSet(A)
  BY <1>1, FS_Subset
<1>6. Count(Kept(q, I), P) = Cardinality(B)
  BY DEF Count
<1> HIDE DEF A, B, g
<1>7. g \in Bijection(A, B)
  BY <1>3, <1>4, Fun_IsBij
<1>8. Cardinality(B) = Cardinality(A)
  BY <1>5, <1>7, FS_Bijection DEF ExistsBijection
<1>9. QED
  BY <1>6, <1>8 DEF A

\* what is kept and what is not are all there was
LEMMA KeptSplits ==
  ASSUME NEW S, NEW q \in Seq(S), NEW I \in SUBSET DOMAIN q, NEW P
  PROVE  Count(q, P) = Count(Kept(q, I), P) + Count(Kept(q, DOMAIN q \ I), P)
<1> DEFINE A == {i \in DOMAIN q : q[i] \in P}
           B == {i \in I : q[i] \in P}
           C == {i \in DOMAIN q \ I : q[i] \in P}
<1>1. IsFiniteSet(A) /\ Count(q, P) = Cardinality(A)
  BY CountType DEF Count
<1>2. Count(Kept(q, I), P) = Cardinality(B)
  BY KeptCount
<1>3. DOMAIN q \ I \in SUBSET DOMAIN q
  OBVIOUS
<1>4. Count(Kept(q, DOMAIN q \ I), P) = Cardinality(C)
  BY <1>3, KeptCount
<1>5. A \cap B = B /\ A \ B = C
  OBVIOUS
<1>6. IsFiniteSet(B) /\ Cardinality(A) \in Nat /\ Cardinality(B) \in Nat
  BY <1>1, <1>5, FS_Intersection, FS_CardinalityType
<1>7. Cardinality(A \ B) = Cardinality(A) - Cardinality(A \cap B)
  BY <1>1, FS_Difference
<1> HIDE DEF A, B, C
<1>8. Cardinality(C) = Cardinality(A) - Cardinality(B)
  BY <1>5, <1>7
<1>9. QED
  BY <1>1, <1>2, <1>4, <1>6, <1>8

-------------------------------------------------------------------------------
(* Tokens *)

\* What a token answers (prelude.fpp:5924): it was cancelled or its parent says so.
LEMMA CancelledAsAsked ==
  ASSUME AsyncTypeInv, NEW s \in Scopes
  PROVE  IsCancelled(s) <=> s \in cancelled \/ (s # Root /\ IsCancelled(Parent[s]))
<1> DEFINE Closed(C) ==
             cancelled \subseteq C /\ (\A c \in Scopes \ {Root} : Parent[c] \in C => c \in C)
           Less == Below(cancelled) \ {s}
<1>1. Below(cancelled) = {c \in Scopes : \A C \in SUBSET Scopes : Closed(C) => c \in C}
  BY DEF Below
<1>2. cancelled \subseteq Scopes /\ \A c \in Scopes \ {Root} : Parent[c] \in Scopes
  BY ScopesAssumption DEF AsyncTypeInv
<1>3. ASSUME s \in cancelled \/ (s # Root /\ Parent[s] \in Below(cancelled))
      PROVE  s \in Below(cancelled)
  BY <1>1, <1>3
<1>4. ASSUME s \in Below(cancelled),
             s \notin cancelled, ~(s # Root /\ Parent[s] \in Below(cancelled))
      PROVE  FALSE
  <2>1. Closed(Below(cancelled))
    BY <1>1, <1>2
  <2>2. Closed(Less)
    BY <1>4, <2>1
  <2>3. Less \in SUBSET Scopes
    BY <1>1
  <2> HIDE DEF Closed
  <2>4. s \in Less
    BY <1>1, <1>4, <2>2, <2>3
  <2>5. QED
    BY <2>4
<1>5. QED
  BY <1>3, <1>4 DEF IsCancelled

\* nothing is cancelled back
LEMMA BelowGrows ==
  ASSUME NEW K, NEW L, K \subseteq L
  PROVE  Below(K) \subseteq Below(L)
BY DEF Below

-------------------------------------------------------------------------------
(* The counts of a task's resumptions *)

JobsOf(t) == {j \in Jobs : j.task = t}
TimersOf(t) == {e \in Timers : e.job.task = t}

InBatch(t) == Count(batch, JobsOf(t))
InReady(t) == Count(ready, JobsOf(t))
InTimers(t) == Count(timers, TimersOf(t))
InWaiters(t) == Count(waiters, {t})

LEMMA JobsCounted ==
  ASSUME NEW q \in Seq(Jobs), NEW t
  PROVE  Cardinality({i \in DOMAIN q : q[i].task = t}) = Count(q, JobsOf(t))
<1>1. {i \in DOMAIN q : q[i].task = t} = {i \in DOMAIN q : q[i] \in JobsOf(t)}
  BY DEF JobsOf
<1>2. QED
  BY <1>1 DEF Count

LEMMA TimersCounted ==
  ASSUME NEW q \in Seq(Timers), NEW t
  PROVE  Cardinality({i \in DOMAIN q : q[i].job.task = t}) = Count(q, TimersOf(t))
<1>1. {i \in DOMAIN q : q[i].job.task = t} = {i \in DOMAIN q : q[i] \in TimersOf(t)}
  BY DEF TimersOf
<1>2. QED
  BY <1>1 DEF Count

LEMMA WaitersCounted ==
  ASSUME NEW q \in Seq(Tasks), NEW t
  PROVE  Cardinality({i \in DOMAIN q : q[i] = t}) = Count(q, {t})
<1>1. {i \in DOMAIN q : q[i] = t} = {i \in DOMAIN q : q[i] \in {t}}
  OBVIOUS
<1>2. QED
  BY <1>1 DEF Count

LEMMA ResumptionsSum ==
  ASSUME AsyncTypeInv, NEW t
  PROVE  Resumptions(t) = InBatch(t) + InReady(t) + InTimers(t) + InWaiters(t)
BY JobsCounted, TimersCounted, WaitersCounted
   DEF AsyncTypeInv, Resumptions, InBatch, InReady, InTimers, InWaiters

LEMMA ResumptionsSumNext ==
  ASSUME AsyncTypeInv', NEW t
  PROVE  Resumptions(t)' = InBatch(t)' + InReady(t)' + InTimers(t)' + InWaiters(t)'
BY JobsCounted, TimersCounted, WaitersCounted
   DEF AsyncTypeInv, Resumptions, InBatch, InReady, InTimers, InWaiters

\* a task that is in one of the lists is counted there, and not otherwise
LEMMA WhereCounted ==
  ASSUME AsyncTypeInv, NEW t
  PROVE  /\ InBatch(t) \in Nat /\ InReady(t) \in Nat
         /\ InTimers(t) \in Nat /\ InWaiters(t) \in Nat
         /\ InBatch(t) > 0 <=> \E i \in DOMAIN batch : batch[i].task = t
         /\ InReady(t) > 0 <=> \E i \in DOMAIN ready : ready[i].task = t
         /\ InTimers(t) > 0 <=> \E i \in DOMAIN timers : timers[i].job.task = t
         /\ InWaiters(t) > 0 <=> \E i \in DOMAIN waiters : waiters[i] = t
<1> USE DEF AsyncTypeInv
<1>1. /\ InBatch(t) \in Nat /\ InReady(t) \in Nat
      /\ InTimers(t) \in Nat /\ InWaiters(t) \in Nat
  BY CountType DEF InBatch, InReady, InTimers, InWaiters
<1>2. InBatch(t) > 0 <=> \E i \in DOMAIN batch : batch[i].task = t
  <2>1. InBatch(t) > 0 <=> \E i \in DOMAIN batch : batch[i] \in JobsOf(t)
    BY CountSome DEF InBatch
  <2>2. QED
    BY <2>1 DEF JobsOf
<1>3. InReady(t) > 0 <=> \E i \in DOMAIN ready : ready[i].task = t
  <2>1. InReady(t) > 0 <=> \E i \in DOMAIN ready : ready[i] \in JobsOf(t)
    BY CountSome DEF InReady
  <2>2. QED
    BY <2>1 DEF JobsOf
<1>4. InTimers(t) > 0 <=> \E i \in DOMAIN timers : timers[i].job.task = t
  <2>1. InTimers(t) > 0 <=> \E i \in DOMAIN timers : timers[i] \in TimersOf(t)
    BY CountSome DEF InTimers
  <2>2. QED
    BY <2>1 DEF TimersOf
<1>5. InWaiters(t) > 0 <=> \E i \in DOMAIN waiters : waiters[i] = t
  <2>1. InWaiters(t) > 0 <=> \E i \in DOMAIN waiters : waiters[i] \in {t}
    BY CountSome DEF InWaiters
  <2>2. QED
    BY <2>1
<1>6. QED
  BY <1>1, <1>2, <1>3, <1>4, <1>5

\* Who is not suspended is in none of the lists; who is, is in one of them once.
LEMMA WhereAbouts ==
  ASSUME AsyncInv, NEW t \in Tasks
  PROVE  /\ status[t] \notin Suspended =>
              InBatch(t) = 0 /\ InReady(t) = 0 /\ InTimers(t) = 0 /\ InWaiters(t) = 0
         /\ status[t] \in Suspended =>
              InBatch(t) + InReady(t) + InTimers(t) + InWaiters(t) = 1
<1>1. Resumptions(t) = IF status[t] \in Suspended THEN 1 ELSE 0
  BY DEF AsyncInv, ResumedOnce, Suspended
<1>2. Resumptions(t) = InBatch(t) + InReady(t) + InTimers(t) + InWaiters(t)
  BY ResumptionsSum DEF AsyncInv
<1>3. /\ InBatch(t) \in Nat /\ InReady(t) \in Nat
      /\ InTimers(t) \in Nat /\ InWaiters(t) \in Nat
  BY WhereCounted DEF AsyncInv
<1>4. QED
  BY <1>1, <1>2, <1>3

LEMMA NotSuspended ==
  ASSUME AsyncInv, NEW t \in Tasks, status[t] \notin Suspended
  PROVE  /\ \A j \in Posted : j.task # t
         /\ \A i \in DOMAIN timers : timers[i].job.task # t
         /\ \A i \in DOMAIN waiters : waiters[i] # t
<1>1. InBatch(t) = 0 /\ InReady(t) = 0 /\ InTimers(t) = 0 /\ InWaiters(t) = 0
  BY WhereAbouts
<1>2. QED
  BY <1>1, WhereCounted DEF AsyncInv, Posted

\* who is in one of the lists is suspended
LEMMA ListedSuspended ==
  ASSUME AsyncInv
  PROVE  /\ \A j \in Posted : j.task \in Tasks /\ status[j.task] \in Suspended
         /\ \A i \in DOMAIN timers : timers[i].job.task \in Tasks
         /\ \A i \in DOMAIN waiters : waiters[i] \in Tasks
<1>1. \A j \in Posted : j \in Jobs
  BY DEF AsyncInv, AsyncTypeInv, Posted
<1>2. \A j \in Posted : j.task \in Tasks
  BY <1>1 DEF Jobs
<1>3. \A j \in Posted : status[j.task] \in Suspended
  BY <1>2, NotSuspended
<1>4. \A i \in DOMAIN timers : timers[i].job.task \in Tasks
  <2>1. \A i \in DOMAIN timers : timers[i] \in Timers
    BY DEF AsyncInv, AsyncTypeInv
  <2>2. QED
    BY <2>1 DEF Timers, Jobs
<1>5. \A i \in DOMAIN waiters : waiters[i] \in Tasks
  BY DEF AsyncInv, AsyncTypeInv
<1>6. QED
  BY <1>2, <1>3, <1>4, <1>5

-------------------------------------------------------------------------------
(* What the list operations make of the counts *)

LEMMA PostAdds ==
  ASSUME AsyncTypeInv, NEW j \in Jobs, Post(j), batch' = batch
  PROVE  /\ Posted' = Posted \cup {j}
         /\ \A u : InReady(u)' = InReady(u) + (IF u = j.task THEN 1 ELSE 0)
         /\ \A u : InBatch(u)' = InBatch(u)
<1>1. ready \in Seq(Jobs) /\ ready' = Append(ready, j)
  BY DEF AsyncTypeInv, Post
<1>2. /\ DOMAIN ready' = DOMAIN ready \cup {Len(ready) + 1}
      /\ ready'[Len(ready) + 1] = j
      /\ \A i \in DOMAIN ready : ready'[i] = ready[i]
  BY <1>1
<1>3. Posted' = Posted \cup {j}
  BY <1>2 DEF Posted
<1>4. \A u : Count(Append(ready, j), JobsOf(u)) =
               Count(ready, JobsOf(u)) + (IF j \in JobsOf(u) THEN 1 ELSE 0)
  BY <1>1, CountAppend
<1>5. \A u : j \in JobsOf(u) <=> u = j.task
  BY DEF JobsOf
<1>6. QED
  BY <1>1, <1>3, <1>4, <1>5 DEF InReady, InBatch

LEMMA SetTimerAdds ==
  ASSUME AsyncTypeInv, NEW e \in Timers, timers' = Append(timers, e)
  PROVE  /\ \A i \in DOMAIN timers' : timers'[i] = e \/ \E k \in DOMAIN timers : timers'[i] = timers[k]
         /\ \A u : InTimers(u)' = InTimers(u) + (IF u = e.job.task THEN 1 ELSE 0)
<1>1. timers \in Seq(Timers)
  BY DEF AsyncTypeInv
<1>2. \A i \in DOMAIN timers' : timers'[i] = e \/ \E k \in DOMAIN timers : timers'[i] = timers[k]
  BY <1>1
<1>3. \A u : Count(Append(timers, e), TimersOf(u)) =
               Count(timers, TimersOf(u)) + (IF e \in TimersOf(u) THEN 1 ELSE 0)
  BY <1>1, CountAppend
<1>4. \A u : e \in TimersOf(u) <=> u = e.job.task
  BY DEF TimersOf
<1>5. QED
  BY <1>2, <1>3, <1>4 DEF InTimers

LEMMA WaiterAdds ==
  ASSUME AsyncTypeInv, NEW t \in Tasks, waiters' = Append(waiters, t)
  PROVE  /\ Len(waiters') = Len(waiters) + 1
         /\ \A i \in DOMAIN waiters' :
              \/ i \in DOMAIN waiters /\ waiters'[i] = waiters[i]
              \/ i = Len(waiters) + 1 /\ waiters'[i] = t
         /\ \A u : InWaiters(u)' = InWaiters(u) + (IF u = t THEN 1 ELSE 0)
<1>1. waiters \in Seq(Tasks)
  BY DEF AsyncTypeInv
<1>2. /\ Len(waiters') = Len(waiters) + 1
      /\ \A i \in DOMAIN waiters' :
           \/ i \in DOMAIN waiters /\ waiters'[i] = waiters[i]
           \/ i = Len(waiters) + 1 /\ waiters'[i] = t
  BY <1>1
<1>3. \A u : Count(Append(waiters, t), {u}) = Count(waiters, {u}) + (IF t \in {u} THEN 1 ELSE 0)
  BY <1>1, CountAppend
<1>4. QED
  BY <1>2, <1>3 DEF InWaiters

LEMMA WaiterGoes ==
  ASSUME AsyncTypeInv, waiters # <<>>, waiters' = Tail(waiters)
  PROVE  /\ 1 \in DOMAIN waiters /\ Head(waiters) = waiters[1] /\ Head(waiters) \in Tasks
         /\ Len(waiters') = Len(waiters) - 1
         /\ \A i \in DOMAIN waiters' : i + 1 \in DOMAIN waiters /\ waiters'[i] = waiters[i + 1]
         /\ \A u : InWaiters(u) = InWaiters(u)' + (IF u = Head(waiters) THEN 1 ELSE 0)
<1>1. waiters \in Seq(Tasks)
  BY DEF AsyncTypeInv
<1>2. /\ 1 \in DOMAIN waiters /\ Head(waiters) = waiters[1] /\ Head(waiters) \in Tasks
      /\ Len(waiters') = Len(waiters) - 1
      /\ \A i \in DOMAIN waiters' : i + 1 \in DOMAIN waiters /\ waiters'[i] = waiters[i + 1]
  BY <1>1
<1>3. \A u : Count(waiters, {u}) = Count(Tail(waiters), {u}) + (IF Head(waiters) \in {u} THEN 1 ELSE 0)
  BY <1>1, CountTail
<1>4. QED
  BY <1>2, <1>3 DEF InWaiters

LEMMA JobLeaves ==
  ASSUME AsyncTypeInv, batch # <<>>, batch' = Tail(batch), ready' = ready
  PROVE  /\ Head(batch) \in Jobs /\ Head(batch) \in Posted
         /\ Posted' \subseteq Posted
         /\ \A j \in Posted : j = Head(batch) \/ j \in Posted'
         /\ \A u : InBatch(u) = InBatch(u)' + (IF u = Head(batch).task THEN 1 ELSE 0)
<1>1. batch \in Seq(Jobs)
  BY DEF AsyncTypeInv
<1>2. /\ DOMAIN batch = 1 .. Len(batch) /\ Len(batch) \in Nat \ {0}
      /\ Head(batch) = batch[1] /\ Head(batch) \in Jobs
      /\ DOMAIN batch' = 1 .. Len(batch) - 1
      /\ \A i \in DOMAIN batch' : batch'[i] = batch[i + 1]
  BY <1>1
<1>3. /\ \A i \in DOMAIN batch' : i + 1 \in DOMAIN batch
      /\ \A i \in DOMAIN batch : i = 1 \/ (i - 1 \in DOMAIN batch' /\ batch'[i - 1] = batch[i])
  BY <1>2
<1>4. /\ Head(batch) \in Posted
      /\ Posted' \subseteq Posted
      /\ \A j \in Posted : j = Head(batch) \/ j \in Posted'
  <2>1. \A j : j \in Posted <=> \/ \E i \in DOMAIN batch : j = batch[i]
                                \/ \E i \in DOMAIN ready : j = ready[i]
    BY DEF Posted
  <2>2. \A j : j \in Posted' <=> \/ \E i \in DOMAIN batch' : j = batch'[i]
                                 \/ \E i \in DOMAIN ready : j = ready[i]
    BY DEF Posted
  <2>3. Head(batch) \in Posted
    BY <1>2, <2>1
  <2>4. \A j \in Posted' : j \in Posted
    BY <1>2, <1>3, <2>1, <2>2
  <2>5. ASSUME NEW j \in Posted, j # Head(batch)
        PROVE  j \in Posted'
    BY <1>2, <1>3, <2>1, <2>2, <2>5
  <2>6. QED
    BY <2>3, <2>4, <2>5
<1>5. \A u : Count(batch, JobsOf(u)) =
               Count(Tail(batch), JobsOf(u)) + (IF Head(batch) \in JobsOf(u) THEN 1 ELSE 0)
  BY <1>1, CountTail
<1>6. \A u : Head(batch) \in JobsOf(u) <=> u = Head(batch).task
  BY <1>2 DEF JobsOf
<1>7. QED
  BY <1>2, <1>4, <1>5, <1>6 DEF InBatch

-------------------------------------------------------------------------------
(* The initial states and the steps, one by one *)

LEMMA InitHolds ==
  AsyncInit => AsyncInv
<1> SUFFICES ASSUME AsyncInit
             PROVE  AsyncInv
  OBVIOUS
<1> USE DEF AsyncInit
<1>1. AsyncTypeInv
  BY ScopesAssumption DEF AsyncTypeInv, TaskStates
<1>2. CurInv /\ JobsInv /\ ChannelInv /\ TurnInv
  BY RunnersAssumption DEF CurInv, JobsInv, Posted, ChannelInv, TurnInv
<1>3. ResumedOnce
  <2>1. \A t : InBatch(t) = 0 /\ InReady(t) = 0 /\ InTimers(t) = 0 /\ InWaiters(t) = 0
    BY CountNothing DEF InBatch, InReady, InTimers, InWaiters
  <2>2. \A t \in Tasks : Resumptions(t) = 0
    BY <1>1, <2>1, ResumptionsSum
  <2>3. QED
    BY <2>2 DEF ResumedOnce
<1>4. QED
  BY <1>1, <1>2, <1>3 DEF AsyncInv

\* No list changes, and nobody becomes suspended or ceases to be.
LEMMA QuietResumed ==
  ASSUME AsyncInv, AsyncTypeInv', UNCHANGED <<ready, timers, batch, waiters>>,
         \A t \in Tasks : status'[t] \in Suspended <=> status[t] \in Suspended
  PROVE  ResumedOnce'
<1>1. \A t : /\ InBatch(t)' = InBatch(t) /\ InReady(t)' = InReady(t)
             /\ InTimers(t)' = InTimers(t) /\ InWaiters(t)' = InWaiters(t)
  BY DEF InBatch, InReady, InTimers, InWaiters
<1>2. \A t : Resumptions(t)' = Resumptions(t)
  BY <1>1, ResumptionsSum, ResumptionsSumNext DEF AsyncInv
<1>3. \A t \in Tasks : Resumptions(t) = IF status[t] \in Suspended THEN 1 ELSE 0
  BY DEF AsyncInv, ResumedOnce, Suspended
<1>4. QED
  BY <1>2, <1>3 DEF ResumedOnce, Suspended

\* A task that was in no list is put into one of them and is suspended.
LEMMA SuspendResumed ==
  ASSUME AsyncInv, AsyncTypeInv', NEW t \in Tasks, NEW s \in Suspended,
         status[t] \notin Suspended, status' = [status EXCEPT ![t] = s],
         \A u : InBatch(u)' + InReady(u)' + InTimers(u)' + InWaiters(u)' =
                  InBatch(u) + InReady(u) + InTimers(u) + InWaiters(u)
                    + (IF u = t THEN 1 ELSE 0)
  PROVE  ResumedOnce'
<1>1. \A u \in Tasks : Resumptions(u) = IF status[u] \in Suspended THEN 1 ELSE 0
  BY DEF AsyncInv, ResumedOnce, Suspended
<1>2. \A u : Resumptions(u)' = Resumptions(u) + (IF u = t THEN 1 ELSE 0)
  BY ResumptionsSum, ResumptionsSumNext DEF AsyncInv
<1>3. \A u \in Tasks : status'[u] = IF u = t THEN s ELSE status[u]
  BY DEF AsyncInv, AsyncTypeInv
<1>4. \A u \in Tasks : Resumptions(u)' = IF status'[u] \in Suspended THEN 1 ELSE 0
  BY <1>1, <1>2, <1>3
<1>5. QED
  BY <1>4 DEF ResumedOnce, Suspended

LEMMA StartKeeps ==
  ASSUME AsyncInv, NEW t \in Tasks, NEW s \in Scopes, Start(t, s)
  PROVE  AsyncInv'
<1> DEFINE j == Job(t, 0)
<1>1. AsyncTypeInv /\ AsyncTypeInv' /\ j \in Jobs
  BY DEF AsyncInv, AsyncTypeInv, Start, Post, Job, Jobs, TaskStates, channelVars
<1>2. /\ status[t] = "cold" /\ status' = [status EXCEPT ![t] = "queued"]
      /\ scope' = [scope EXCEPT ![t] = s]
      /\ Post(j) /\ batch' = batch /\ timers' = timers /\ waiters' = waiters
      /\ UNCHANGED <<cur, cancelled, chanBuffer, sends, receives, turn, got>>
  BY DEF Start, channelVars
<1>3. status[t] \notin Suspended
  BY <1>2 DEF Suspended
<1>4. \A u \in Tasks : u # t => status'[u] = status[u] /\ scope'[u] = scope[u]
  BY <1>1, <1>2 DEF AsyncTypeInv
<1>5. status'[t] = "queued" /\ j.task = t /\ j.value = 0
  BY <1>1, <1>2 DEF AsyncTypeInv, Job
<1> HIDE DEF j
<1>6. CurInv'
  BY <1>1, <1>2, <1>4 DEF AsyncInv, CurInv
<1>7. ResumedOnce'
  <2>1. \A u : InTimers(u)' = InTimers(u) /\ InWaiters(u)' = InWaiters(u)
    BY <1>2 DEF InTimers, InWaiters
  <2>2. /\ \A u : InReady(u)' = InReady(u) + (IF u = t THEN 1 ELSE 0)
        /\ \A u : InBatch(u)' = InBatch(u)
    BY <1>1, <1>2, <1>5, PostAdds
  <2>3. \A u : /\ InBatch(u) \in Nat /\ InReady(u) \in Nat
               /\ InTimers(u) \in Nat /\ InWaiters(u) \in Nat
    BY <1>1, WhereCounted
  <2>4. \A u : InBatch(u)' + InReady(u)' + InTimers(u)' + InWaiters(u)' =
                 InBatch(u) + InReady(u) + InTimers(u) + InWaiters(u)
                   + (IF u = t THEN 1 ELSE 0)
    BY <2>1, <2>2, <2>3
  <2>5. "queued" \in Suspended
    BY DEF Suspended
  <2>6. QED
    BY <1>1, <1>2, <1>3, <2>4, <2>5, SuspendResumed
<1>8. JobsInv'
  <2>1. Posted' = Posted \cup {j}
    BY <1>1, <1>2, PostAdds
  <2>2. \A k \in Posted : k.task \in Tasks /\ k.task # t
    BY <1>3, NotSuspended, ListedSuspended
  <2>3. /\ \A i \in DOMAIN timers : timers[i].job.task \in Tasks /\ timers[i].job.task # t
        /\ \A i \in DOMAIN waiters : waiters[i] \in Tasks /\ waiters[i] # t
    BY <1>3, NotSuspended, ListedSuspended
  <2>4. QED
    BY <1>2, <1>4, <1>5, <2>1, <2>2, <2>3 DEF AsyncInv, JobsInv
<1>9. ChannelInv'
  BY <1>2 DEF AsyncInv, ChannelInv
<1>10. TurnInv'
  <2>1. got[t] = turn[t]
    BY <1>2 DEF AsyncInv, TurnInv
  <2>2. QED
    BY <1>2, <1>4, <1>5, <2>1 DEF AsyncInv, TurnInv, IsCancelled
<1>11. QED
  BY <1>1, <1>6, <1>7, <1>8, <1>9, <1>10 DEF AsyncInv

LEMMA CancelKeeps ==
  ASSUME AsyncInv, NEW s \in Scopes, Cancel(s)
  PROVE  AsyncInv'
<1> USE DEF Cancel, queueVars, channelVars
<1>1. AsyncTypeInv'
  BY DEF AsyncInv, AsyncTypeInv
<1>2. CurInv' /\ JobsInv' /\ ChannelInv'
  BY DEF AsyncInv, CurInv, JobsInv, Posted, ChannelInv
<1>3. ResumedOnce'
  BY <1>1, QuietResumed
<1>4. TurnInv'
  <2>1. Below(cancelled) \subseteq Below(cancelled')
    BY BelowGrows
  <2>2. QED
    BY <2>1 DEF AsyncInv, TurnInv, IsCancelled
<1>5. QED
  BY <1>1, <1>2, <1>3, <1>4 DEF AsyncInv

\* the loop is entered or left, or time passes
LEMMA DriverKeeps ==
  ASSUME AsyncInv, RunUntilIdle \/ LoopReturns \/ Tick
  PROVE  AsyncInv'
<1>1. /\ UNCHANGED <<ready, timers, batch, status, scope, cancelled, chanBuffer, waiters,
                     sends, receives, turn, got>>
      /\ cur' \in {cur, Main, Loop}
      /\ clock' \in {clock, clock + 1}
  BY DEF RunUntilIdle, LoopReturns, Tick, queueVars, channelVars
<1>2. AsyncTypeInv'
  BY <1>1 DEF AsyncInv, AsyncTypeInv
<1>3. CurInv'
  BY <1>1, RunnersAssumption DEF AsyncInv, CurInv
<1>4. JobsInv' /\ ChannelInv' /\ TurnInv'
  BY <1>1 DEF AsyncInv, JobsInv, Posted, ChannelInv, TurnInv, IsCancelled
<1>5. ResumedOnce'
  BY <1>1, <1>2, QuietResumed
<1>6. QED
  BY <1>2, <1>3, <1>4, <1>5 DEF AsyncInv

LEMMA SendKeeps ==
  ASSUME AsyncInv, Send
  PROVE  AsyncInv'
<1>1. /\ sends' = sends + 1
      /\ UNCHANGED <<clock, timers, batch, cur, status, scope, cancelled, receives, turn, got>>
  BY DEF Send
<1>2. AsyncTypeInv
  BY DEF AsyncInv
<1>3. CurInv' /\ TurnInv'
  BY <1>1 DEF AsyncInv, CurInv, TurnInv, IsCancelled
<1>4. CASE waiters # <<>>
  <2> DEFINE t == Head(waiters)
             j == Job(t, sends')
  <2>1. /\ Post(j) /\ waiters' = Tail(waiters) /\ chanBuffer' = chanBuffer
    BY <1>4 DEF Send
  <2>2. /\ 1 \in DOMAIN waiters /\ t = waiters[1] /\ t \in Tasks
        /\ Len(waiters') = Len(waiters) - 1
        /\ \A i \in DOMAIN waiters' : i + 1 \in DOMAIN waiters /\ waiters'[i] = waiters[i + 1]
        /\ \A u : InWaiters(u) = InWaiters(u)' + (IF u = t THEN 1 ELSE 0)
    BY <1>2, <1>4, <2>1, WaiterGoes
  <2>3. chanBuffer = <<>> /\ sends = receives - Len(waiters)
    <3>1. chanBuffer = <<>> /\ sends - Len(chanBuffer) = receives - Len(waiters)
      BY <1>4 DEF AsyncInv, ChannelInv
    <3>2. sends \in Nat
      BY <1>2 DEF AsyncTypeInv
    <3>3. QED
      BY <3>1, <3>2
  <2>4. status[t] = "receiving" /\ turn[t] = sends'
    <3>1. status[t] = "receiving"
      BY <2>2 DEF AsyncInv, JobsInv
    <3>2. turn[t] = receives - Len(waiters) + 1
      BY <2>2 DEF AsyncInv, ChannelInv
    <3>3. QED
      BY <1>1, <2>3, <3>1, <3>2
  <2>5. j \in Jobs /\ j.task = t /\ j.value = sends'
    <3>1. sends' \in Nat
      BY <1>1, <1>2 DEF AsyncTypeInv
    <3>2. QED
      BY <2>2, <3>1 DEF Job, Jobs
  <2> HIDE DEF t, j
  <2>6. AsyncTypeInv'
    <3>1. ready' \in Seq(Jobs)
      BY <1>2, <2>1, <2>5 DEF AsyncTypeInv, Post
    <3>2. waiters' \in Seq(Tasks)
      BY <1>2, <1>4, <2>1 DEF AsyncTypeInv
    <3>3. sends' \in Nat
      BY <1>1, <1>2 DEF AsyncTypeInv
    <3>4. QED
      BY <1>1, <1>2, <2>1, <3>1, <3>2, <3>3 DEF AsyncTypeInv
  <2>7. /\ Posted' = Posted \cup {j}
        /\ \A u : InReady(u)' = InReady(u) + (IF u = t THEN 1 ELSE 0)
        /\ \A u : InBatch(u)' = InBatch(u)
    BY <1>1, <1>2, <2>1, <2>5, PostAdds
  <2>8. ResumedOnce'
    <3>1. \A u : InTimers(u)' = InTimers(u)
      BY <1>1 DEF InTimers
    <3>2. \A u : InBatch(u) \in Nat /\ InReady(u) \in Nat /\ InTimers(u) \in Nat
      BY <1>2, WhereCounted
    <3>3. \A u : InWaiters(u)' \in Nat
      BY <2>6, CountType DEF InWaiters, AsyncTypeInv
    <3>4. \A u : InBatch(u)' + InReady(u)' + InTimers(u)' + InWaiters(u)' =
                   InBatch(u) + InReady(u) + InTimers(u) + InWaiters(u)
      BY <2>2, <2>7, <3>1, <3>2, <3>3
    <3>5. \A u : Resumptions(u)' = Resumptions(u)
      BY <1>2, <2>6, <3>4, ResumptionsSum, ResumptionsSumNext
    <3>6. QED
      BY <1>1, <3>5 DEF AsyncInv, ResumedOnce
  <2>9. JobsInv'
    BY <1>1, <2>2, <2>4, <2>5, <2>7 DEF AsyncInv, JobsInv
  <2>10. ChannelInv'
    <3>1. sends \in Nat /\ receives \in Nat /\ Len(waiters) \in Nat
      BY <1>2 DEF AsyncTypeInv
    <3>2. sends' - Len(chanBuffer') = receives' - Len(waiters')
      <4>1. Len(chanBuffer') = 0
        BY <2>1, <2>3
      <4>2. sends' = sends + 1 /\ receives' = receives /\ Len(waiters') = Len(waiters) - 1
        BY <1>1, <2>2
      <4>3. QED
        BY <2>3, <3>1, <4>1, <4>2
    <3>3. \A i \in DOMAIN waiters' : turn'[waiters'[i]] = receives' - Len(waiters') + i
      <4>1. \A i \in DOMAIN waiters : turn[waiters[i]] = receives - Len(waiters) + i
        BY DEF AsyncInv, ChannelInv
      <4>2. Len(waiters') = Len(waiters) - 1 /\ receives' = receives
        BY <1>1, <2>2
      <4>3. ASSUME NEW i \in DOMAIN waiters'
            PROVE  /\ i \in Nat /\ i + 1 \in DOMAIN waiters /\ waiters'[i] = waiters[i + 1]
                   /\ turn'[waiters'[i]] = turn[waiters[i + 1]]
        <5>1. waiters' \in Seq(Tasks)
          BY <2>6 DEF AsyncTypeInv
        <5>2. i \in Nat
          BY <4>3, <5>1
        <5>3. QED
          BY <1>1, <2>2, <4>3, <5>2
      <4>4. ASSUME NEW i \in DOMAIN waiters'
            PROVE  turn'[waiters'[i]] = receives' - Len(waiters') + i
        <5>1. turn[waiters[i + 1]] = receives - Len(waiters) + (i + 1)
          BY <4>1, <4>3
        <5>2. QED
          BY <3>1, <4>2, <4>3, <5>1
      <4>5. QED
        BY <4>4
    <3>4. QED
      BY <2>1, <2>3, <3>2, <3>3 DEF ChannelInv
  <2>11. QED
    BY <1>3, <2>6, <2>8, <2>9, <2>10 DEF AsyncInv
<1>5. CASE waiters = <<>>
  <2>1. chanBuffer' = Append(chanBuffer, sends') /\ ready' = ready /\ waiters' = waiters
    BY <1>5 DEF Send
  <2>2. AsyncTypeInv'
    BY <1>1, <1>2, <2>1 DEF AsyncTypeInv
  <2>3. ResumedOnce'
    BY <1>1, <2>1, <2>2, QuietResumed
  <2>4. JobsInv'
    BY <1>1, <2>1 DEF AsyncInv, JobsInv, Posted
  <2>5. ChannelInv'
    <3>1. chanBuffer \in Seq(Nat) /\ sends \in Nat /\ receives \in Nat
      BY <1>2 DEF AsyncTypeInv
    <3>2. /\ Len(chanBuffer') = Len(chanBuffer) + 1
          /\ \A i \in DOMAIN chanBuffer' :
               \/ i \in DOMAIN chanBuffer /\ chanBuffer'[i] = chanBuffer[i]
               \/ i = Len(chanBuffer) + 1 /\ chanBuffer'[i] = sends'
      BY <1>1, <2>1, <3>1
    <3>3. Len(waiters) = 0
      BY <1>5
    <3>4. QED
      BY <1>1, <1>5, <2>1, <3>1, <3>2, <3>3 DEF AsyncInv, ChannelInv
  <2>6. QED
    BY <1>3, <2>2, <2>3, <2>4, <2>5 DEF AsyncInv
<1>6. QED
  BY <1>4, <1>5

LEMMA ReceiveNowKeeps ==
  ASSUME AsyncInv, NEW t \in Tasks, ReceiveNow(t)
  PROVE  AsyncInv'
<1>1. /\ cur = t /\ chanBuffer # <<>>
      /\ receives' = receives + 1
      /\ turn' = [turn EXCEPT ![t] = receives']
      /\ got' = [got EXCEPT ![t] = Head(chanBuffer)]
      /\ chanBuffer' = Tail(chanBuffer)
      /\ UNCHANGED <<clock, ready, timers, batch, cur, status, scope, cancelled, waiters, sends>>
  BY DEF ReceiveNow, queueVars
<1>2. AsyncTypeInv
  BY DEF AsyncInv
<1>3. /\ chanBuffer \in Seq(Nat) /\ 1 \in DOMAIN chanBuffer /\ Head(chanBuffer) = chanBuffer[1]
      /\ Head(chanBuffer) \in Nat
      /\ Len(chanBuffer') = Len(chanBuffer) - 1
      /\ \A i \in DOMAIN chanBuffer' :
           i + 1 \in DOMAIN chanBuffer /\ chanBuffer'[i] = chanBuffer[i + 1]
  BY <1>1, <1>2 DEF AsyncTypeInv
<1>4. AsyncTypeInv'
  BY <1>1, <1>2, <1>3 DEF AsyncTypeInv
<1>5. /\ waiters = <<>> /\ Len(waiters) = 0
      /\ sends \in Nat /\ receives \in Nat /\ Len(chanBuffer) \in Nat
      /\ sends - Len(chanBuffer) = receives
  <2>1. waiters = <<>> /\ sends - Len(chanBuffer) = receives - Len(waiters)
    BY <1>1 DEF AsyncInv, ChannelInv
  <2>2. sends \in Nat /\ receives \in Nat /\ Len(chanBuffer) \in Nat
    BY <1>2, <1>3 DEF AsyncTypeInv
  <2>3. QED
    BY <2>1, <2>2
<1>6. Head(chanBuffer) = receives'
  BY <1>1, <1>3, <1>5 DEF AsyncInv, ChannelInv
<1>7. status[t] = "running"
  BY <1>1 DEF AsyncInv, CurInv
<1>8. /\ turn'[t] = receives' /\ got'[t] = receives'
      /\ \A u \in Tasks : u # t => turn'[u] = turn[u] /\ got'[u] = got[u]
  BY <1>1, <1>2, <1>6 DEF AsyncTypeInv
<1>9. CurInv' /\ ResumedOnce'
  BY <1>1, <1>4, QuietResumed DEF AsyncInv, CurInv
<1>10. JobsInv'
  <2>1. \A j \in Posted : j.task \in Tasks /\ j.task # t
    BY <1>7, NotSuspended, ListedSuspended DEF Suspended
  <2>2. QED
    BY <1>1, <1>8, <2>1 DEF AsyncInv, JobsInv, Posted
<1>11. ChannelInv'
  <2>1. waiters' = <<>> /\ receives' = receives + 1 /\ sends' = sends
    BY <1>1, <1>5
  <2>2. \A i \in DOMAIN chanBuffer' : i \in Nat /\ chanBuffer'[i] = sends - Len(chanBuffer) + (i + 1)
    <3>1. \A i \in DOMAIN chanBuffer : i \in Nat /\ chanBuffer[i] = sends - Len(chanBuffer) + i
      BY <1>3 DEF AsyncInv, ChannelInv
    <3>2. \A i \in DOMAIN chanBuffer' : i \in Nat
      <4>1. chanBuffer' \in Seq(Nat)
        BY <1>4 DEF AsyncTypeInv
      <4>2. QED
        BY <4>1
    <3>3. QED
      BY <1>3, <3>1, <3>2
  <2>3. \A i \in DOMAIN chanBuffer' : chanBuffer'[i] = sends' - Len(chanBuffer') + i
    BY <1>3, <1>5, <2>1, <2>2
  <2>4. sends' - Len(chanBuffer') = receives' - 0
    BY <1>3, <1>5, <2>1
  <2>5. Len(waiters') = 0 /\ DOMAIN waiters' = {}
    BY <2>1
  <2>6. QED
    BY <2>1, <2>3, <2>4, <2>5 DEF ChannelInv
<1>12. TurnInv'
  BY <1>1, <1>2, <1>7, <1>8 DEF AsyncInv, TurnInv, AsyncTypeInv, IsCancelled
<1>13. QED
  BY <1>4, <1>9, <1>10, <1>11, <1>12 DEF AsyncInv

LEMMA ReceiveWaitKeeps ==
  ASSUME AsyncInv, NEW t \in Tasks, ReceiveWait(t)
  PROVE  AsyncInv'
<1>1. /\ cur = t /\ chanBuffer = <<>>
      /\ receives' = receives + 1
      /\ turn' = [turn EXCEPT ![t] = receives']
      /\ got' = [got EXCEPT ![t] = 0]
      /\ waiters' = Append(waiters, t)
      /\ cur' = Loop /\ status' = [status EXCEPT ![t] = "receiving"]
      /\ UNCHANGED <<clock, ready, timers, batch, scope, cancelled, chanBuffer, sends>>
  BY DEF ReceiveWait, Goes, queueVars
<1>2. AsyncTypeInv
  BY DEF AsyncInv
<1>3. AsyncTypeInv'
  BY <1>1, <1>2 DEF AsyncTypeInv, TaskStates
<1>4. status[t] = "running" /\ status[t] \notin Suspended
  BY <1>1 DEF AsyncInv, CurInv, Suspended
<1>5. /\ turn'[t] = receives + 1 /\ got'[t] = 0 /\ status'[t] = "receiving"
      /\ \A u \in Tasks : u # t => /\ turn'[u] = turn[u] /\ got'[u] = got[u]
                                   /\ status'[u] = status[u]
  BY <1>1, <1>2 DEF AsyncTypeInv
<1>6. /\ Len(waiters') = Len(waiters) + 1
      /\ \A i \in DOMAIN waiters' :
           \/ i \in DOMAIN waiters /\ waiters'[i] = waiters[i]
           \/ i = Len(waiters) + 1 /\ waiters'[i] = t
      /\ \A u : InWaiters(u)' = InWaiters(u) + (IF u = t THEN 1 ELSE 0)
  BY <1>1, <1>2, WaiterAdds
<1>7. /\ \A j \in Posted : j.task \in Tasks /\ j.task # t
      /\ \A i \in DOMAIN timers : timers[i].job.task \in Tasks /\ timers[i].job.task # t
      /\ \A i \in DOMAIN waiters : waiters[i] \in Tasks /\ waiters[i] # t
  BY <1>4, NotSuspended, ListedSuspended
<1>8. CurInv'
  BY <1>1, RunnersAssumption DEF CurInv
<1>9. ResumedOnce'
  <2>1. \A u : /\ InBatch(u)' = InBatch(u) /\ InReady(u)' = InReady(u)
               /\ InTimers(u)' = InTimers(u)
    BY <1>1 DEF InBatch, InReady, InTimers
  <2>2. \A u : /\ InBatch(u) \in Nat /\ InReady(u) \in Nat
               /\ InTimers(u) \in Nat /\ InWaiters(u) \in Nat
    BY <1>2, WhereCounted
  <2>3. \A u : InBatch(u)' + InReady(u)' + InTimers(u)' + InWaiters(u)' =
                 InBatch(u) + InReady(u) + InTimers(u) + InWaiters(u)
                   + (IF u = t THEN 1 ELSE 0)
    BY <1>6, <2>1, <2>2
  <2>4. "receiving" \in Suspended
    BY DEF Suspended
  <2>5. QED
    BY <1>1, <1>3, <1>4, <2>3, <2>4, SuspendResumed
<1>10. JobsInv'
  <2>1. Posted' = Posted
    BY <1>1 DEF Posted
  <2>2. QED
    BY <1>1, <1>5, <1>6, <1>7, <2>1 DEF AsyncInv, JobsInv
<1>11. ChannelInv'
  <2>1. Len(waiters) \in Nat /\ receives \in Nat /\ sends \in Nat /\ Len(chanBuffer) = 0
    BY <1>1, <1>2 DEF AsyncTypeInv
  <2>2. sends = receives - Len(waiters)
    BY <2>1 DEF AsyncInv, ChannelInv
  <2>3. \A i \in DOMAIN waiters' : turn'[waiters'[i]] = receives' - Len(waiters') + i
    <3>1. \A i \in DOMAIN waiters : turn[waiters[i]] = receives - Len(waiters) + i
      BY DEF AsyncInv, ChannelInv
    <3>2. \A i \in DOMAIN waiters : turn'[waiters[i]] = turn[waiters[i]] /\ i \in Nat
      <4>1. waiters \in Seq(Tasks)
        BY <1>2 DEF AsyncTypeInv
      <4>2. \A i \in DOMAIN waiters : i \in Nat
        BY <4>1
      <4>3. QED
        BY <1>5, <1>7, <4>2
    <3>3. receives' = receives + 1 /\ Len(waiters') = Len(waiters) + 1 /\ turn'[t] = receives'
      <4>1. receives' = receives + 1
        BY <1>1
      <4>2. QED
        BY <1>5, <1>6, <4>1, Zenon
    <3>4. ASSUME NEW i \in DOMAIN waiters'
          PROVE  turn'[waiters'[i]] = receives' - Len(waiters') + i
      <4>1. CASE i \in DOMAIN waiters /\ waiters'[i] = waiters[i]
        BY <2>1, <3>1, <3>2, <3>3, <4>1
      <4>2. CASE i = Len(waiters) + 1 /\ waiters'[i] = t
        BY <2>1, <3>3, <4>2
      <4>3. QED
        BY <1>6, <3>4, <4>1, <4>2
    <3>5. QED
      BY <3>4
  <2>4. QED
    BY <1>1, <1>6, <2>1, <2>2, <2>3 DEF ChannelInv
<1>12. TurnInv'
  BY <1>1, <1>2, <1>5 DEF AsyncInv, TurnInv, AsyncTypeInv, IsCancelled
<1>13. QED
  BY <1>3, <1>8, <1>9, <1>10, <1>11, <1>12 DEF AsyncInv

LEMMA SleepKeeps ==
  ASSUME AsyncInv, NEW t \in Tasks, NEW ms \in Delays, Sleep(t, ms)
  PROVE  AsyncInv'
<1> DEFINE e == [at |-> clock + ms, job |-> Job(t, 0)]
<1>1. /\ cur = t /\ cur' = Loop /\ status' = [status EXCEPT ![t] = "sleeping"]
      /\ timers' = Append(timers, e)
      /\ UNCHANGED <<clock, ready, batch, scope, cancelled, chanBuffer, waiters, sends,
                     receives, turn, got>>
  BY DEF Sleep, Goes, channelVars
<1>2. AsyncTypeInv
  BY DEF AsyncInv
<1>3. e \in Timers /\ e.job.task = t /\ e.job.value = 0
  BY <1>2, BoundsAssumption DEF AsyncTypeInv, Timers, Jobs, Job
<1> HIDE DEF e
<1>4. AsyncTypeInv'
  BY <1>1, <1>2, <1>3 DEF AsyncTypeInv, TaskStates
<1>5. status[t] = "running" /\ status[t] \notin Suspended
  BY <1>1 DEF AsyncInv, CurInv, Suspended
<1>6. /\ status'[t] = "sleeping"
      /\ \A u \in Tasks : u # t => status'[u] = status[u]
  BY <1>1, <1>2 DEF AsyncTypeInv
<1>7. /\ \A i \in DOMAIN timers' :
           timers'[i] = e \/ \E k \in DOMAIN timers : timers'[i] = timers[k]
      /\ \A u : InTimers(u)' = InTimers(u) + (IF u = t THEN 1 ELSE 0)
  BY <1>1, <1>2, <1>3, SetTimerAdds
<1>8. /\ \A j \in Posted : j.task \in Tasks /\ j.task # t
      /\ \A i \in DOMAIN timers : timers[i].job.task \in Tasks /\ timers[i].job.task # t
      /\ \A i \in DOMAIN waiters : waiters[i] \in Tasks /\ waiters[i] # t
  BY <1>5, NotSuspended, ListedSuspended
<1>9. CurInv'
  BY <1>1, RunnersAssumption DEF CurInv
<1>10. ResumedOnce'
  <2>1. \A u : /\ InBatch(u)' = InBatch(u) /\ InReady(u)' = InReady(u)
               /\ InWaiters(u)' = InWaiters(u)
    BY <1>1 DEF InBatch, InReady, InWaiters
  <2>2. \A u : /\ InBatch(u) \in Nat /\ InReady(u) \in Nat
               /\ InTimers(u) \in Nat /\ InWaiters(u) \in Nat
    BY <1>2, WhereCounted
  <2>3. \A u : InBatch(u)' + InReady(u)' + InTimers(u)' + InWaiters(u)' =
                 InBatch(u) + InReady(u) + InTimers(u) + InWaiters(u)
                   + (IF u = t THEN 1 ELSE 0)
    BY <1>7, <2>1, <2>2
  <2>4. "sleeping" \in Suspended
    BY DEF Suspended
  <2>5. QED
    BY <1>1, <1>4, <1>5, <2>3, <2>4, SuspendResumed
<1>11. JobsInv'
  <2>1. Posted' = Posted
    BY <1>1 DEF Posted
  <2>2. QED
    BY <1>1, <1>3, <1>6, <1>7, <1>8, <2>1 DEF AsyncInv, JobsInv
<1>12. ChannelInv'
  BY <1>1 DEF AsyncInv, ChannelInv
<1>13. TurnInv'
  BY <1>1, <1>5, <1>6 DEF AsyncInv, TurnInv, IsCancelled
<1>14. QED
  BY <1>4, <1>9, <1>10, <1>11, <1>12, <1>13 DEF AsyncInv

LEMMA SwitchKeeps ==
  ASSUME AsyncInv, NEW t \in Tasks, Switch(t)
  PROVE  AsyncInv'
<1> DEFINE j == Job(t, 0)
<1>1. /\ cur = t /\ cur' = Loop /\ status' = [status EXCEPT ![t] = "switching"]
      /\ Post(j)
      /\ UNCHANGED <<clock, timers, batch, scope, cancelled, chanBuffer, waiters, sends,
                     receives, turn, got>>
  BY DEF Switch, Goes, channelVars
<1>2. AsyncTypeInv
  BY DEF AsyncInv
<1>3. j \in Jobs /\ j.task = t /\ j.value = 0
  BY DEF Jobs, Job
<1> HIDE DEF j
<1>4. AsyncTypeInv'
  BY <1>1, <1>2, <1>3 DEF AsyncTypeInv, TaskStates, Post
<1>5. status[t] = "running" /\ status[t] \notin Suspended
  BY <1>1 DEF AsyncInv, CurInv, Suspended
<1>6. /\ status'[t] = "switching"
      /\ \A u \in Tasks : u # t => status'[u] = status[u]
  BY <1>1, <1>2 DEF AsyncTypeInv
<1>7. /\ Posted' = Posted \cup {j}
      /\ \A u : InReady(u)' = InReady(u) + (IF u = t THEN 1 ELSE 0)
      /\ \A u : InBatch(u)' = InBatch(u)
  BY <1>1, <1>2, <1>3, PostAdds
<1>8. /\ \A k \in Posted : k.task \in Tasks /\ k.task # t
      /\ \A i \in DOMAIN timers : timers[i].job.task \in Tasks /\ timers[i].job.task # t
      /\ \A i \in DOMAIN waiters : waiters[i] \in Tasks /\ waiters[i] # t
  BY <1>5, NotSuspended, ListedSuspended
<1>9. CurInv'
  BY <1>1, RunnersAssumption DEF CurInv
<1>10. ResumedOnce'
  <2>1. \A u : InTimers(u)' = InTimers(u) /\ InWaiters(u)' = InWaiters(u)
    BY <1>1 DEF InTimers, InWaiters
  <2>2. \A u : /\ InBatch(u) \in Nat /\ InReady(u) \in Nat
               /\ InTimers(u) \in Nat /\ InWaiters(u) \in Nat
    BY <1>2, WhereCounted
  <2>3. \A u : InBatch(u)' + InReady(u)' + InTimers(u)' + InWaiters(u)' =
                 InBatch(u) + InReady(u) + InTimers(u) + InWaiters(u)
                   + (IF u = t THEN 1 ELSE 0)
    BY <1>7, <2>1, <2>2
  <2>4. "switching" \in Suspended
    BY DEF Suspended
  <2>5. QED
    BY <1>1, <1>4, <1>5, <2>3, <2>4, SuspendResumed
<1>11. JobsInv'
  BY <1>1, <1>3, <1>6, <1>7, <1>8 DEF AsyncInv, JobsInv
<1>12. ChannelInv'
  BY <1>1 DEF AsyncInv, ChannelInv
<1>13. TurnInv'
  BY <1>1, <1>5, <1>6 DEF AsyncInv, TurnInv, IsCancelled
<1>14. QED
  BY <1>4, <1>9, <1>10, <1>11, <1>12, <1>13 DEF AsyncInv

\* a task ends, or one that was never started is run at once
LEMMA UnlistedKeeps ==
  ASSUME AsyncInv, NEW t \in Tasks, FinishTask(t) \/ RunSynchronously(t)
  PROVE  AsyncInv'
<1>1. AsyncTypeInv
  BY DEF AsyncInv
<1>2. PICK s \in {"done", "stopped", "running"} :
        /\ status' = [status EXCEPT ![t] = s]
        /\ cur' = IF s = "running" THEN t ELSE Loop
        /\ s = "stopped" => IsCancelled(scope[t]) /\ scope' = scope
  BY DEF FinishTask, Goes, RunSynchronously
<1>3. /\ UNCHANGED <<clock, ready, timers, batch, cancelled, chanBuffer, waiters, sends,
                     receives, turn, got>>
      /\ scope' = scope \/ scope' = [scope EXCEPT ![t] = Own]
  BY DEF FinishTask, RunSynchronously, queueVars, channelVars
<1>4. AsyncTypeInv'
  BY <1>1, <1>2, <1>3 DEF AsyncTypeInv, TaskStates
<1>5. status[t] \in {"running", "cold"} /\ status[t] \notin Suspended
  BY DEF AsyncInv, CurInv, FinishTask, RunSynchronously, Suspended
<1>6. /\ status'[t] = s
      /\ \A u \in Tasks : u # t => status'[u] = status[u] /\ scope'[u] = scope[u]
  BY <1>1, <1>2, <1>3 DEF AsyncTypeInv
<1>7. CurInv'
  BY <1>2, <1>6, RunnersAssumption DEF CurInv
<1>8. ResumedOnce'
  <2>1. \A u \in Tasks : status'[u] \in Suspended <=> status[u] \in Suspended
    BY <1>5, <1>6 DEF Suspended
  <2>2. QED
    BY <1>3, <1>4, <2>1, QuietResumed
<1>9. JobsInv'
  <2>1. /\ \A j \in Posted : j.task \in Tasks /\ j.task # t
        /\ \A i \in DOMAIN timers : timers[i].job.task \in Tasks /\ timers[i].job.task # t
        /\ \A i \in DOMAIN waiters : waiters[i] \in Tasks /\ waiters[i] # t
    BY <1>5, NotSuspended, ListedSuspended
  <2>2. Posted' = Posted
    BY <1>3 DEF Posted
  <2>3. QED
    BY <1>3, <1>6, <2>1, <2>2 DEF AsyncInv, JobsInv
<1>10. ChannelInv'
  BY <1>3 DEF AsyncInv, ChannelInv
<1>11. TurnInv'
  <2>1. got[t] = turn[t]
    BY <1>5 DEF AsyncInv, TurnInv
  <2>2. QED
    BY <1>2, <1>3, <1>6, <2>1 DEF AsyncInv, TurnInv, IsCancelled
<1>12. QED
  BY <1>4, <1>7, <1>8, <1>9, <1>10, <1>11 DEF AsyncInv

LEMMA TakeReadyKeeps ==
  ASSUME AsyncInv, TakeReady
  PROVE  AsyncInv'
<1>1. /\ cur = Loop /\ batch = <<>> /\ batch' = ready /\ ready' = <<>>
      /\ UNCHANGED <<clock, timers, cur, status, scope, cancelled, chanBuffer, waiters, sends,
                     receives, turn, got>>
  BY DEF TakeReady, Stepping, channelVars
<1>2. AsyncTypeInv /\ AsyncTypeInv'
  BY <1>1 DEF AsyncInv, AsyncTypeInv
<1>3. Posted' = Posted
  BY <1>1 DEF Posted
<1>4. CurInv' /\ JobsInv' /\ ChannelInv' /\ TurnInv'
  BY <1>1, <1>3 DEF AsyncInv, CurInv, JobsInv, ChannelInv, TurnInv, IsCancelled
<1>5. ResumedOnce'
  <2>1. \A u : /\ InBatch(u) = 0 /\ InReady(u)' = 0 /\ InBatch(u)' = InReady(u)
               /\ InTimers(u)' = InTimers(u) /\ InWaiters(u)' = InWaiters(u)
    BY <1>1, CountNothing DEF InBatch, InReady, InTimers, InWaiters
  <2>2. \A u : InReady(u) \in Nat /\ InTimers(u) \in Nat /\ InWaiters(u) \in Nat
    BY <1>2, WhereCounted
  <2>3. \A u : Resumptions(u)' = Resumptions(u)
    BY <1>2, <2>1, <2>2, ResumptionsSum, ResumptionsSumNext
  <2>4. QED
    BY <1>1, <2>3 DEF AsyncInv, ResumedOnce
<1>6. QED
  BY <1>2, <1>4, <1>5 DEF AsyncInv

LEMMA TakeDueKeeps ==
  ASSUME AsyncInv, TakeDue
  PROVE  AsyncInv'
<1> DEFINE due == Kept(timers, Due)
           rest == Kept(timers, DOMAIN timers \ Due)
<1>1. /\ cur = Loop /\ batch = <<>> /\ ready = <<>> /\ ready' = ready
      /\ batch' = [k \in 1 .. Cardinality(Due) |-> due[k].job]
      /\ timers' = rest
      /\ UNCHANGED <<clock, cur, status, scope, cancelled, chanBuffer, waiters, sends,
                     receives, turn, got>>
  BY DEF TakeDue, Stepping, channelVars
<1>2. AsyncTypeInv /\ timers \in Seq(Timers)
  BY DEF AsyncInv, AsyncTypeInv
<1>3. Due \in SUBSET DOMAIN timers /\ DOMAIN timers \ Due \in SUBSET DOMAIN timers
  BY DEF Due
<1>4. /\ Cardinality(Due) \in Nat
      /\ due \in Seq(Timers) /\ DOMAIN due = 1 .. Cardinality(Due)
      /\ rest \in Seq(Timers)
  BY <1>2, <1>3, KeptEach
<1>5. /\ \A k \in DOMAIN due : \E i \in DOMAIN timers : due[k] = timers[i]
      /\ \A k \in DOMAIN rest : \E i \in DOMAIN timers : rest[k] = timers[i]
  <2>1. \A k \in DOMAIN due : \E i \in DOMAIN timers : due[k] = timers[i]
    BY <1>2, <1>3, KeptFrom
  <2>2. \A k \in DOMAIN rest : \E i \in DOMAIN timers : rest[k] = timers[i]
    BY <1>2, <1>3, KeptFrom
  <2>3. QED
    BY <2>1, <2>2
<1>6. \A P : Count(timers, P) = Count(due, P) + Count(rest, P)
  BY <1>2, <1>3, KeptSplits
<1> HIDE DEF due, rest
<1>7. batch' \in Seq(Jobs) /\ DOMAIN batch' = DOMAIN due
  <2>1. \A k \in 1 .. Cardinality(Due) : due[k] \in Timers
    BY <1>4
  <2>2. \A k \in 1 .. Cardinality(Due) : due[k].job \in Jobs
    BY <2>1 DEF Timers
  <2>3. QED
    BY <1>1, <1>4, <2>2
<1>8. AsyncTypeInv'
  BY <1>1, <1>2, <1>4, <1>7 DEF AsyncTypeInv
<1>9. CurInv' /\ ChannelInv' /\ TurnInv'
  BY <1>1 DEF AsyncInv, CurInv, ChannelInv, TurnInv, IsCancelled
<1>10. \A k \in DOMAIN batch' : batch'[k] = due[k].job
  BY <1>1, <1>4, <1>7
<1>11. JobsInv'
  <2>1. \A j \in Posted' : \E i \in DOMAIN timers : j = timers[i].job
    <3>1. \A j \in Posted' : \E k \in DOMAIN batch' : j = batch'[k]
      BY <1>1 DEF Posted
    <3>2. QED
      BY <1>5, <1>7, <1>10, <3>1
  <2>2. \A j \in Posted' : j.value = 0 /\ status[j.task] = "sleeping"
    BY <2>1 DEF AsyncInv, JobsInv
  <2>3. \A i \in DOMAIN timers' :
          timers'[i].job.value = 0 /\ status[timers'[i].job.task] = "sleeping"
    BY <1>1, <1>5 DEF AsyncInv, JobsInv
  <2>4. QED
    BY <1>1, <2>2, <2>3 DEF AsyncInv, JobsInv
<1>12. ResumedOnce'
  <2>1. \A u : /\ InBatch(u) = 0 /\ InReady(u) = 0 /\ InReady(u)' = 0
               /\ InWaiters(u)' = InWaiters(u)
    BY <1>1, CountNothing DEF InBatch, InReady, InWaiters
  <2>2. \A u : InBatch(u)' = Count(due, TimersOf(u))
    <3>1. \A u : InBatch(u)' = Cardinality({k \in DOMAIN batch' : batch'[k].task = u})
      BY <1>7, JobsCounted DEF InBatch
    <3>2. \A u : Count(due, TimersOf(u)) = Cardinality({k \in DOMAIN due : due[k].job.task = u})
      BY <1>4, TimersCounted
    <3>3. \A u : {k \in DOMAIN batch' : batch'[k].task = u} = {k \in DOMAIN due : due[k].job.task = u}
      BY <1>7, <1>10
    <3>4. QED
      BY <3>1, <3>2, <3>3
  <2>3. \A u : InTimers(u) = InBatch(u)' + InTimers(u)'
    BY <1>1, <1>6, <2>2 DEF InTimers
  <2>4. \A u : InTimers(u) \in Nat /\ InWaiters(u) \in Nat
    BY <1>2, WhereCounted
  <2>5. \A u : InBatch(u)' \in Nat /\ InTimers(u)' \in Nat
    BY <1>8, CountType DEF InBatch, InTimers, AsyncTypeInv
  <2>6. \A u : Resumptions(u)' = Resumptions(u)
    BY <1>2, <1>8, <2>1, <2>3, <2>4, <2>5, ResumptionsSum, ResumptionsSumNext
  <2>7. QED
    BY <1>1, <2>6 DEF AsyncInv, ResumedOnce
<1>13. QED
  BY <1>8, <1>9, <1>11, <1>12 DEF AsyncInv

LEMMA RunJobKeeps ==
  ASSUME AsyncInv, RunJob
  PROVE  AsyncInv'
<1>1. AsyncTypeInv
  BY DEF AsyncInv
<1>2. /\ cur = Loop /\ batch # <<>> /\ batch' = Tail(batch)
      /\ UNCHANGED <<clock, ready, timers, scope, cancelled, chanBuffer, waiters, sends,
                     receives, turn>>
  BY DEF RunJob
<1>3. PICK j \in Posted :
        /\ j = Head(batch) /\ j \in Jobs
        /\ Posted' \subseteq Posted
        /\ \A u : InBatch(u) = InBatch(u)' + (IF u = j.task THEN 1 ELSE 0)
  BY <1>1, <1>2, JobLeaves
<1>4. PICK t \in Tasks : t = j.task /\ j.value \in Nat
  BY <1>3 DEF Jobs
<1>5. PICK s \in {"stopped", "running"} :
        /\ status' = [status EXCEPT ![t] = s]
        /\ s = "stopped" => IsCancelled(scope[t]) /\ cur' = cur /\ got' = got
        /\ s = "running" => /\ cur' = t
                            /\ got' = IF j.value > 0 THEN [got EXCEPT ![t] = j.value] ELSE got
  BY <1>3, <1>4 DEF RunJob
<1>6. AsyncTypeInv'
  <2>1. got' \in [Tasks -> Nat] /\ cur' \in Tasks \cup {Main, Loop}
    <3>1. got' = got \/ got' = [got EXCEPT ![t] = j.value]
      BY <1>5
    <3>2. got' \in [Tasks -> Nat]
      BY <1>1, <1>4, <3>1 DEF AsyncTypeInv
    <3>3. QED
      BY <1>1, <1>5, <3>2 DEF AsyncTypeInv
  <2>2. status' \in [Tasks -> TaskStates]
    BY <1>1, <1>5 DEF AsyncTypeInv, TaskStates
  <2>3. QED
    BY <1>1, <1>2, <2>1, <2>2 DEF AsyncTypeInv
<1>7. /\ status'[t] = s /\ s \notin Suspended
      /\ \A u \in Tasks : u # t => status'[u] = status[u]
  BY <1>1, <1>4, <1>5 DEF AsyncTypeInv, Suspended
<1>8. \A u : InBatch(u)' \in Nat
  BY <1>6, CountType DEF InBatch, AsyncTypeInv
<1>9. /\ status[t] \in Suspended
      /\ InBatch(t)' = 0 /\ InReady(t) = 0 /\ InTimers(t) = 0 /\ InWaiters(t) = 0
  <2>1. status[t] \in Suspended
    BY <1>4, ListedSuspended
  <2>2. InBatch(t) + InReady(t) + InTimers(t) + InWaiters(t) = 1
    BY <1>4, <2>1, WhereAbouts
  <2>3. InReady(t) \in Nat /\ InTimers(t) \in Nat /\ InWaiters(t) \in Nat
    BY <1>1, WhereCounted
  <2>4. InBatch(t) = InBatch(t)' + 1
    BY <1>3, <1>4
  <2>5. QED
    BY <1>8, <2>1, <2>2, <2>3, <2>4
<1>10. CurInv'
  BY <1>2, <1>5, <1>7, RunnersAssumption DEF CurInv
<1>11. ResumedOnce'
  <2>1. \A u : /\ InReady(u)' = InReady(u) /\ InTimers(u)' = InTimers(u)
               /\ InWaiters(u)' = InWaiters(u)
    BY <1>2 DEF InReady, InTimers, InWaiters
  <2>2. Resumptions(t)' = 0
    BY <1>6, <1>9, <2>1, ResumptionsSumNext
  <2>3. \A u : u # t => InBatch(u)' = InBatch(u)
    BY <1>3, <1>4, <1>8
  <2>4. \A u : u # t => Resumptions(u)' = Resumptions(u)
    BY <1>1, <1>6, <2>1, <2>3, ResumptionsSum, ResumptionsSumNext
  <2>5. \A u \in Tasks : Resumptions(u) = IF status[u] \in Suspended THEN 1 ELSE 0
    BY DEF AsyncInv, ResumedOnce, Suspended
  <2>6. \A u \in Tasks : Resumptions(u)' = IF status'[u] \in Suspended THEN 1 ELSE 0
    BY <1>7, <2>2, <2>4, <2>5
  <2>7. QED
    BY <2>6 DEF ResumedOnce, Suspended
<1>12. JobsInv'
  <2>1. ~(\E i \in DOMAIN batch' : batch'[i] \in JobsOf(t))
    <3>1. ~(InBatch(t)' > 0) /\ batch' \in Seq(Jobs)
      BY <1>6, <1>9 DEF AsyncTypeInv
    <3>2. QED
      BY <3>1, CountSome DEF InBatch
  <2>2. \A i \in DOMAIN batch' : batch'[i] \in Jobs
    BY <1>6 DEF AsyncTypeInv
  <2>3. \A i \in DOMAIN batch' : batch'[i].task # t
    BY <2>1, <2>2 DEF JobsOf
  <2>4. /\ \A i \in DOMAIN ready : ready[i].task # t
        /\ \A i \in DOMAIN timers : timers[i].job.task # t
        /\ \A i \in DOMAIN waiters : waiters[i] # t
    BY <1>1, <1>9, WhereCounted
  <2>5. \A k \in Posted' : k \in Posted /\ k.task \in Tasks /\ k.task # t
    <3>1. \A k \in Posted' : k \in Posted
      BY <1>3
    <3>2. \A k \in Posted' : k.task # t
      BY <1>2, <2>3, <2>4 DEF Posted
    <3>3. QED
      BY <3>1, <3>2, ListedSuspended
  <2>6. /\ \A i \in DOMAIN timers : timers[i].job.task \in Tasks
        /\ \A i \in DOMAIN waiters : waiters[i] \in Tasks
    BY ListedSuspended
  <2>7. QED
    BY <1>2, <1>7, <2>4, <2>5, <2>6 DEF AsyncInv, JobsInv
<1>13. ChannelInv'
  BY <1>2 DEF AsyncInv, ChannelInv
<1>14. TurnInv'
  <2>1. j.value = IF status[t] = "receiving" THEN turn[t] ELSE 0
    BY <1>4 DEF AsyncInv, JobsInv
  <2>2. /\ status[t] = "receiving" => turn[t] > 0
        /\ status[t] # "receiving" => got[t] = turn[t]
    BY <1>4, <1>9 DEF AsyncInv, TurnInv, Suspended
  <2>3. turn[t] \in Nat /\ got \in [Tasks -> Nat]
    BY <1>1, <1>4 DEF AsyncTypeInv
  <2>4. s = "running" => got'[t] = turn[t] /\ \A u \in Tasks : u # t => got'[u] = got[u]
    BY <1>4, <1>5, <2>1, <2>2, <2>3
  <2>5. turn'[t] <= receives' /\ got'[t] \in {0, turn'[t]}
    BY <1>2, <1>4, <1>5, <2>4 DEF AsyncInv, TurnInv
  <2>6. s = "stopped" => IsCancelled(scope[t])'
    BY <1>2, <1>5 DEF IsCancelled
  <2>7. \A u \in Tasks : u # t => got'[u] = got[u]
    BY <1>5, <2>4
  <2>8. QED
    BY <1>2, <1>5, <1>7, <2>4, <2>5, <2>6, <2>7 DEF AsyncInv, TurnInv, IsCancelled, Suspended
<1>15. QED
  BY <1>6, <1>10, <1>11, <1>12, <1>13, <1>14 DEF AsyncInv

LEMMA NextKeeps ==
  AsyncInv /\ [AsyncNext]_asyncVars => AsyncInv'
<1> SUFFICES ASSUME AsyncInv, [AsyncNext]_asyncVars
             PROVE  AsyncInv'
  OBVIOUS
<1>1. CASE \E t \in Tasks, s \in Scopes : Start(t, s)
  BY <1>1, StartKeeps
<1>2. CASE \E s \in Scopes : Cancel(s)
  BY <1>2, CancelKeeps
<1>3. CASE Send
  BY <1>3, SendKeeps
<1>4. ASSUME NEW t \in Tasks, TaskStep(t)
      PROVE  AsyncInv'
  <2>1. CASE ReceiveNow(t)
    BY <2>1, ReceiveNowKeeps
  <2>2. CASE ReceiveWait(t)
    BY <2>2, ReceiveWaitKeeps
  <2>3. CASE \E ms \in Delays : Sleep(t, ms)
    BY <2>3, SleepKeeps
  <2>4. CASE Switch(t)
    BY <2>4, SwitchKeeps
  <2>5. CASE FinishTask(t)
    BY <2>5, UnlistedKeeps
  <2>6. QED
    BY <1>4, <2>1, <2>2, <2>3, <2>4, <2>5 DEF TaskStep
<1>5. ASSUME NEW t \in Tasks, RunSynchronously(t)
      PROVE  AsyncInv'
  BY <1>5, UnlistedKeeps
<1>6. CASE RunUntilIdle \/ LoopReturns \/ Tick
  BY <1>6, DriverKeeps
<1>7. CASE TakeReady
  BY <1>7, TakeReadyKeeps
<1>8. CASE TakeDue
  BY <1>8, TakeDueKeeps
<1>9. CASE RunJob
  BY <1>9, RunJobKeeps
<1>10. CASE UNCHANGED asyncVars
  <2> USE <1>10 DEF asyncVars
  <2>1. AsyncTypeInv'
    BY DEF AsyncInv, AsyncTypeInv
  <2>2. CurInv' /\ JobsInv' /\ ChannelInv' /\ TurnInv'
    BY DEF AsyncInv, CurInv, JobsInv, Posted, ChannelInv, TurnInv, IsCancelled
  <2>3. ResumedOnce'
    BY <2>1, QuietResumed
  <2>4. QED
    BY <2>1, <2>2, <2>3 DEF AsyncInv
<1>11. QED
  BY <1>1, <1>2, <1>3, <1>4, <1>5, <1>6, <1>7, <1>8, <1>9, <1>10 DEF AsyncNext, LoopStep

LEMMA AsyncInvHolds ==
  AsyncSpec => []AsyncInv
<1>1. AsyncInit => AsyncInv
  BY InitHolds
<1>2. AsyncInv /\ [AsyncNext]_asyncVars => AsyncInv'
  BY NextKeeps
<1>3. QED
  BY <1>1, <1>2, PTL DEF AsyncSpec

-------------------------------------------------------------------------------
(* The properties *)

\* A suspended task is resumed by exactly one continuation, any other by none:
\* no continuation runs twice and none is forgotten (prelude.fpp:5940-5950).
THEOREM ResumptionsAreUnique == AsyncSpec => []ResumedOnce
<1>1. AsyncInv => ResumedOnce
  BY DEF AsyncInv
<1>2. QED
  BY <1>1, AsyncInvHolds, PTL

LEMMA InvInOrder ==
  AsyncInv => ReceivesInOrder
<1> SUFFICES ASSUME AsyncInv
             PROVE  ReceivesInOrder
  OBVIOUS
<1>1. \A t \in Tasks : got[t] # 0 => got[t] = turn[t]
  BY DEF AsyncInv, TurnInv
<1>2. \A j \in Posted : j.value # 0 => j.value = turn[j.task]
  BY DEF AsyncInv, JobsInv
<1>3. QED
  BY <1>1, <1>2 DEF ReceivesInOrder

\* The channel is first-in first-out (prelude.fpp:5993-6012): the i-th call of
\* Receive is answered with the i-th value sent.
THEOREM ChannelInOrder == AsyncSpec => []ReceivesInOrder
BY InvInOrder, AsyncInvHolds, PTL

LEMMA InvNothingLost ==
  AsyncInv => LostOnlyToCancelled
<1> SUFFICES ASSUME AsyncInv, NEW t \in Tasks,
                    turn[t] \in 1 .. sends, got[t] # turn[t], ~IsCancelled(scope[t])
             PROVE  \E j \in Posted : j.value = turn[t]
  BY DEF LostOnlyToCancelled
<1>1. AsyncTypeInv
  BY DEF AsyncInv
<1>2. status[t] = "receiving"
  BY DEF AsyncInv, TurnInv
<1>3. InBatch(t) + InReady(t) + InTimers(t) + InWaiters(t) = 1
  BY <1>2, WhereAbouts DEF Suspended
<1>4. \A i \in DOMAIN timers : timers[i].job.task # t
  BY <1>2 DEF AsyncInv, JobsInv
<1>5. \A i \in DOMAIN waiters : waiters[i] # t
  <2> SUFFICES ASSUME NEW i \in DOMAIN waiters, waiters[i] = t
               PROVE  FALSE
    OBVIOUS
  <2>1. waiters \in Seq(Tasks) /\ sends \in Nat /\ receives \in Nat
    BY <1>1 DEF AsyncTypeInv
  <2>2. i \in Nat /\ i > 0 /\ Len(waiters) \in Nat /\ waiters # <<>>
    BY <2>1
  <2>3. /\ chanBuffer = <<>> /\ sends - Len(chanBuffer) = receives - Len(waiters)
        /\ turn[t] = receives - Len(waiters) + i
    BY <2>2 DEF AsyncInv, ChannelInv
  <2>4. Len(chanBuffer) = 0
    BY <2>3
  <2>5. QED
    BY <2>1, <2>2, <2>3, <2>4
<1>6. InTimers(t) = 0 /\ InWaiters(t) = 0
  BY <1>1, <1>4, <1>5, WhereCounted
<1>7. InBatch(t) > 0 \/ InReady(t) > 0
  BY <1>1, <1>3, <1>6, WhereCounted
<1>8. PICK j \in Posted : j.task = t
  BY <1>1, <1>7, WhereCounted DEF Posted
<1>9. j.value = turn[t]
  BY <1>2, <1>8 DEF AsyncInv, JobsInv
<1>10. QED
  BY <1>9

\* A value that was sent to a receiver is on its way to it or has reached it,
\* unless the receiver's scope was cancelled (prelude.fpp:5999-6004).
THEOREM OnlyCancelledLose == AsyncSpec => []LostOnlyToCancelled
BY InvNothingLost, AsyncInvHolds, PTL
===============================================================================
