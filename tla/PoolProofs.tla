------------------------------ MODULE PoolProofs ------------------------------
(***************************************************************************)
(* The plain dispatch of module Pool keeps the promise of PhasedWork, for  *)
(* every number of threads, every sequence of calls and whatever the       *)
(* collector does meanwhile, as long as the shared cursor does not         *)
(* overflow (Room).                                                        *)
(***************************************************************************)
EXTENDS Pool, FiniteSetTheorems, TLAPS

\* what fpp_pool_dispatch makes of the arguments it goes on with
JobArgs ==
  {[n |-> a.n, chunk |-> IF a.chunk <= 0 THEN 1 ELSE a.chunk] :
     a \in {b \in Calls : b.n > 0}}

\* The room a call needs above its range: the chunk that crosses the end and
\* one more for each thread, which finds out that nothing is left by grabbing.
Room == \A a \in JobArgs : a.n + (1 + Cardinality(Threads)) * a.chunk - 1 <= IntMax

-------------------------------------------------------------------------------
(* The inductive invariant.  The promise rests on two counts: the threads    *)
(* that owe the dispatch their leave (the join) and those that grabbed past  *)
(* the end of the range (the cursor's bound).                                *)

Labels == {"user", "publish", "joinPark", "joinCheck", "return",
           "unborn", "born", "idle", "check", "wake",
           "grab", "look", "kernel", "poll", "leave"}

PoolTypes ==
  /\ pc \in [Threads -> Labels]
  /\ range \in [Threads -> [lo : Nat, hi : Nat]]
  /\ gen \in Nat /\ seen \in [Workers -> Nat]
  /\ job \in [n : Nat, chunk : Nat] /\ cursor \in Nat /\ active \in Int

\* the call is posted and has not returned
Opened == InWork(Caller) \/ pc[Caller] \in {"joinPark", "joinCheck"}

\* a job is posted before anybody works
JobInv ==
  /\ pc[Caller] = "publish" => args \in JobArgs
  /\ gen # 0 => job \in JobArgs
  /\ Opened => gen # 0
  /\ \A w \in Workers : /\ seen[w] <= gen
                        /\ pc[w] = "wake" \/ InWork(w) => gen # 0 /\ seen[w] = gen

\* thread t has still to leave the dispatch
Owes(t) ==
  InWork(t) \/ (t \in Workers /\ (pc[t] = "wake" \/ seen[t] # gen))

Owing == {t \in Threads : Owes(t)}

\* pool_active_ counts them, and the caller is not past the join before zero
JoinInv ==
  /\ active = Cardinality(Owing)
  /\ ~Opened => active = 0

\* thread t holds a chunk, or has a cursor it will make one of
Holding(t) == pc[t] \in {"look", "kernel"}

\* the chunks in hand are below the cursor and apart
RangesInv ==
  /\ \A t \in Threads : Holding(t) => range[t].lo + job.chunk <= cursor
  /\ \A t \in Threads : pc[t] = "kernel" =>
       /\ range[t].lo < range[t].hi /\ range[t].hi <= job.n
       /\ range[t].hi <= range[t].lo + job.chunk
  /\ \A t, u \in Threads : t # u /\ Holding(t) /\ Holding(u) =>
       \/ range[t].lo + job.chunk <= range[u].lo
       \/ range[u].lo + job.chunk <= range[t].lo

\* threads that grabbed at or past the end of the range, and will not again
Past == {t \in Threads : \/ ~Owes(t)
                         \/ pc[t] = "leave"
                         \/ pc[t] = "look" /\ range[t].lo >= job.n}

CursorInv ==
  gen # 0 => /\ cursor < job.n + (1 + Cardinality(Past)) * job.chunk
             /\ Past # {} => cursor >= job.n

PoolInv == PoolTypes /\ JobInv /\ JoinInv /\ RangesInv /\ CursorInv

-------------------------------------------------------------------------------
(* Steps that do not touch the cursor, a chunk or the count *)

Quiet ==
  /\ UNCHANGED <<gen, job, cursor, range, active>>
  /\ \A t \in Threads :
       /\ Owes(t)' <=> Owes(t)
       /\ pc'[t] = "look" <=> pc[t] = "look"
       /\ pc'[t] = "kernel" <=> pc[t] = "kernel"
       /\ pc'[t] = "leave" <=> pc[t] = "leave"

LEMMA QuietSets ==
  ASSUME Quiet
  PROVE  /\ Owing' = Owing /\ Past' = Past
         /\ Given' = Given /\ Ran' = Ran
<1>1. Owing' = Owing
  BY DEF Quiet, Owing
<1>2. Past' = Past
  BY DEF Quiet, Past
<1>3. Given' = Given
  BY DEF Quiet, Given
<1>4. Ran' = Ran
  BY <1>3 DEF Quiet, Ran
<1>5. QED
  BY <1>1, <1>2, <1>3, <1>4

LEMMA QuietInv ==
  ASSUME PoolInv, Quiet, PoolTypes', JobInv', Opened => Opened' \/ active = 0
  PROVE  PoolInv'
<1>1. JoinInv'
  BY QuietSets DEF PoolInv, JoinInv, Quiet
<1>2. RangesInv'
  BY DEF PoolInv, RangesInv, Quiet, Holding
<1>3. CursorInv'
  BY QuietSets DEF PoolInv, CursorInv, Quiet
<1>4. QED
  BY <1>1, <1>2, <1>3 DEF PoolInv

\* The caller outside pool_work_: its call, its join and its return.
LEMMA CallerQuiet ==
  ASSUME PoolInv,
         (\E a \in Calls : Call(a)) \/ JoinPark \/ JoinCheck \/ Return \/ UserCode
  PROVE  /\ Quiet /\ PoolInv'
         /\ \/ Opened' <=> Opened
            \/ JoinCheck /\ active = 0 /\ Opened /\ ~Opened'
<1> USE CallerAssumption DEF PoolInv
<1>1. CASE \E a \in Calls : Call(a)
  <2>1. PICK a \in Calls : Call(a)
    BY <1>1
  <2>2. /\ \A w \in Workers : pc'[w] = pc[w] \/ (pc[w] = "unborn" /\ pc'[w] = "born")
        /\ pc[Caller] = "user" /\ pc'[Caller] = "publish"
        /\ UNCHANGED <<gen, seen, job, cursor, range, active>>
        /\ pc' \in [Threads -> Labels]
    BY <2>1 DEF Call, OnCpu, Workers, PoolTypes, Labels
  <2>3. \A t \in Threads : Owes(t)' <=> Owes(t)
    BY <2>2 DEF Owes, InWork, Workers
  <2>4. Quiet
    BY <2>2, <2>3 DEF Quiet, Workers
  <2>5. args' \in JobArgs
    BY <2>1 DEF Call, JobArgs
  <2>6. ~Opened /\ ~Opened'
    BY <2>2 DEF Opened, InWork
  <2>7. PoolTypes' /\ JobInv'
    BY <2>2, <2>5, <2>6 DEF PoolTypes, JobInv, InWork
  <2>8. QED
    BY <2>4, <2>6, <2>7, QuietInv
<1>2. CASE JoinPark \/ JoinCheck \/ Return
  <2>1. /\ UNCHANGED <<gen, seen, job, cursor, range, active, args>>
        /\ pc' \in [Threads -> Labels]
        /\ \A w \in Workers : pc'[w] = pc[w]
        /\ pc[Caller] \in {"joinPark", "joinCheck", "return"}
        /\ pc'[Caller] \in {"joinPark", "joinCheck", "return", "user"}
        /\ \/ Opened' <=> Opened
           \/ JoinCheck /\ active = 0 /\ Opened /\ ~Opened'
    BY <1>2 DEF JoinPark, JoinCheck, Return, OnCpu, Goto, Workers, PoolTypes, Labels,
                Opened, InWork
  <2>2. \A t \in Threads : Owes(t)' <=> Owes(t)
    BY <2>1 DEF Owes, InWork, Workers
  <2>3. Quiet
    BY <2>1, <2>2 DEF Quiet, Workers
  <2>4. Opened' => Opened
    BY <2>1
  <2>5. PoolTypes' /\ JobInv'
    BY <2>1, <2>4 DEF PoolTypes, JobInv, InWork
  <2>6. QED
    BY <2>1, <2>3, <2>5, QuietInv
<1>3. CASE UserCode
  <2>1. UNCHANGED poolVars
    BY <1>3 DEF UserCode
  <2>2. Quiet /\ (Opened' <=> Opened) /\ PoolTypes' /\ JobInv'
    BY <2>1 DEF poolVars, Quiet, Opened, PoolTypes, JobInv, Owes, InWork
  <2>3. QED
    BY <2>2, QuietInv
<1>4. QED
  BY <1>1, <1>2, <1>3

\* A worker on its way from its start or one dispatch to the next.
LEMMA WorkerQuiet ==
  ASSUME PoolInv, NEW w \in Workers,
         Start(w) \/ IdlePark(w) \/ CheckGo(w) \/ WakeUnpark(w)
  PROVE  Quiet /\ PoolInv' /\ (Opened' <=> Opened)
<1> USE CallerAssumption DEF PoolInv
<1>1. /\ w \in Threads /\ w # Caller
      /\ UNCHANGED <<gen, job, cursor, range, active, args>>
      /\ pc' \in [Threads -> Labels]
      /\ \A t \in Threads : t # w => pc'[t] = pc[t]
      /\ \A u \in Workers : u # w => seen'[u] = seen[u]
      /\ seen' \in [Workers -> Nat]
      /\ ~InWork(w) /\ pc'[w] \notin {"look", "kernel", "leave"}
  BY DEF Start, IdlePark, CheckGo, WakeUnpark, OnCpu, Goto, Workers, PoolTypes, Labels,
         InWork
<1>2. /\ Owes(w)' <=> Owes(w)
      /\ pc'[w] = "wake" \/ InWork(w)' => gen' # 0 /\ seen'[w] = gen'
      /\ seen'[w] <= gen'
  <2>1. gen \in Nat /\ seen[w] \in Nat /\ seen[w] <= gen
        /\ (pc[w] = "wake" => gen # 0 /\ seen[w] = gen)
        /\ pc \in [Threads -> Labels] /\ seen \in [Workers -> Nat]
    BY DEF JobInv, PoolTypes
  <2>2. CASE Start(w) \/ IdlePark(w)
    <3>1. pc[w] \in {"born", "idle"} /\ pc'[w] \in {"idle", "check"} /\ seen' = seen
      BY <1>1, <2>1, <2>2 DEF Start, IdlePark, OnCpu, Goto
    <3>2. QED
      BY <1>1, <2>1, <3>1 DEF Owes, InWork
  <2>3. CASE CheckGo(w)
    <3>1. CASE gen = seen[w]
      <4>1. pc[w] = "check" /\ pc' = pc /\ seen' = seen
        BY <2>1, <2>3, <3>1 DEF CheckGo, OnCpu
      <4>2. QED
        BY <1>1, <2>1, <4>1 DEF Owes, InWork
    <3>2. CASE gen # seen[w]
      <4>1. pc[w] = "check" /\ pc'[w] = "wake" /\ seen'[w] = gen /\ gen # 0
        BY <1>1, <2>1, <2>3, <3>2 DEF CheckGo, OnCpu, Goto
      <4>2. QED
        BY <1>1, <2>1, <3>2, <4>1 DEF Owes, InWork
    <3>3. QED
      BY <3>1, <3>2
  <2>4. CASE WakeUnpark(w)
    <3>1. pc[w] = "wake" /\ pc'[w] = "grab" /\ seen' = seen
      BY <1>1, <2>1, <2>4 DEF WakeUnpark, OnCpu, Goto
    <3>2. QED
      BY <1>1, <2>1, <3>1 DEF Owes, InWork
  <2>5. QED
    BY <2>2, <2>3, <2>4
<1>3. \A t \in Threads : Owes(t)' <=> Owes(t)
  BY <1>1, <1>2 DEF Owes, InWork
<1>4. Quiet
  BY <1>1, <1>3 DEF Quiet, InWork
<1>5. Opened' <=> Opened
  BY <1>1 DEF Opened, InWork
<1>6. PoolTypes'
  BY <1>1 DEF PoolTypes
<1>7. JobInv'
  <2>1. \A u \in Workers : u # w => (InWork(u)' <=> InWork(u)) /\ pc'[u] = pc[u]
    BY <1>1 DEF InWork, Workers
  <2>2. pc'[Caller] = pc[Caller]
    BY <1>1
  <2>3. QED
    BY <1>1, <1>2, <1>5, <2>1, <2>2 DEF JobInv
<1>8. QED
  BY <1>4, <1>5, <1>6, <1>7, QuietInv

\* A thread between two chunks, or busy with the collector.
LEMMA PollQuiet ==
  ASSUME PoolInv,
         (\E t \in Threads : Poll(t) \/ KernelHeap(t) \/ InHandshake(t)) \/ PoolSpurious
  PROVE  Quiet /\ PoolInv' /\ (Opened' <=> Opened)
<1> USE CallerAssumption DEF PoolInv
<1>1. CASE \E t \in Threads : Poll(t)
  <2>1. PICK t \in Threads : Poll(t)
    BY <1>1
  <2>2. /\ UNCHANGED <<gen, seen, job, cursor, range, active, args>>
        /\ pc' \in [Threads -> Labels]
        /\ \A u \in Threads : u # t => pc'[u] = pc[u]
        /\ pc[t] = "poll" /\ pc'[t] = "grab"
    BY <2>1 DEF Poll, OnCpu, Goto, PoolTypes, Labels
  <2>3. \A u \in Threads : (InWork(u)' <=> InWork(u))
    BY <2>2 DEF InWork
  <2>4. \A u \in Threads : Owes(u)' <=> Owes(u)
    BY <2>2, <2>3 DEF Owes
  <2>5. Quiet /\ (Opened' <=> Opened)
    BY <2>2, <2>3, <2>4 DEF Quiet, Opened
  <2>6. PoolTypes' /\ JobInv'
    BY <2>2, <2>3, <2>5 DEF PoolTypes, JobInv, Workers
  <2>7. QED
    BY <2>5, <2>6, QuietInv
<1>2. CASE (\E t \in Threads : KernelHeap(t) \/ InHandshake(t)) \/ PoolSpurious
  <2>1. UNCHANGED <<gen, seen, job, cursor, range, active, args, pc>>
    BY <1>2 DEF KernelHeap, InHandshake, PoolSpurious, poolVars
  <2>2. Quiet /\ (Opened' <=> Opened) /\ PoolTypes' /\ JobInv'
    BY <2>1 DEF Quiet, Opened, PoolTypes, JobInv, Owes, InWork
  <2>3. QED
    BY <2>2, QuietInv
<1>3. QED
  BY <1>1, <1>2

-------------------------------------------------------------------------------
(* The two counts *)

LEMMA ThreadSets ==
  ASSUME NEW S \in SUBSET Threads
  PROVE  IsFiniteSet(S) /\ Cardinality(S) \in Nat /\ Cardinality(S) <= Cardinality(Threads)
<1>1. IsFiniteSet(Threads)
  BY ThreadsAssumption
<1>2. IsFiniteSet(S) /\ Cardinality(S) <= Cardinality(Threads)
  BY <1>1, FS_Subset, Zenon
<1>3. QED
  BY <1>2, FS_CardinalityType, Zenon

LEMMA ThreadCount == Cardinality(Threads) \in Nat /\ Cardinality(Threads) = PoolSize + 1
<1>1. IsFiniteSet(Threads) /\ Caller \in Threads
  BY ThreadsAssumption, CallerAssumption
<1>2. Cardinality(Threads) \in Nat
  BY <1>1, FS_CardinalityType, Zenon
<1>3. Cardinality(Threads \ {Caller}) = Cardinality(Threads) - 1
  BY <1>1, FS_RemoveElement
<1>4. QED
  BY <1>2, <1>3 DEF PoolSize, Workers

LEMMA JobShape ==
  ASSUME PoolInv, gen # 0
  PROVE  job.n \in Nat \ {0} /\ job.chunk \in Nat \ {0} /\ job.chunk <= IntMax /\ job \in JobArgs
<1>1. job \in JobArgs
  BY DEF PoolInv, JobInv
<1>2. PICK a \in Calls : a.n > 0 /\ job = [n |-> a.n, chunk |-> IF a.chunk <= 0 THEN 1 ELSE a.chunk]
  BY <1>1 DEF JobArgs
<1>3. a.n \in -IntMax .. IntMax /\ a.chunk \in -IntMax .. IntMax /\ IntMax \in Nat \ {0}
  BY PoolCallsAssumption, IntMaxAssumption
<1>4. job.n = a.n /\ job.chunk = IF a.chunk <= 0 THEN 1 ELSE a.chunk
  BY <1>2
<1>5. QED
  BY <1>1, <1>2, <1>3, <1>4

\* Whoever works owes its leave, works on a posted job, while the call is open.
LEMMA WorkersOwe ==
  ASSUME PoolInv, NEW t \in Threads, InWork(t)
  PROVE  /\ t \in Owing /\ gen # 0 /\ Opened /\ active # 0
         /\ t \in Workers => seen[t] = gen
<1>1. t \in Owing
  BY DEF Owing, Owes
<1>2. Cardinality(Owing) # 0
  BY <1>1, ThreadSets, FS_EmptySet DEF Owing
<1>3. active # 0 /\ Opened
  BY <1>2 DEF PoolInv, JoinInv
<1>4. QED
  BY <1>1, <1>3 DEF PoolInv, JobInv

\* With the room of the calls the cursor never wraps: a thread about to grab
\* has not been past the end yet.
LEMMA CursorFits ==
  ASSUME PoolInv, Room, gen # 0
  PROVE  /\ cursor <= IntMax
         /\ \A t \in Threads : pc[t] = "grab" =>
              t \notin Past /\ cursor + job.chunk <= IntMax
<1> DEFINE m == Cardinality(Threads)
           k == Cardinality(Past)
           n == job.n
           c == job.chunk
<1>1. /\ n \in Nat /\ c \in Nat \ {0} /\ cursor \in Nat /\ IntMax \in Nat
      /\ n + (1 + m) * c - 1 <= IntMax
  BY JobShape, IntMaxAssumption DEF Room, PoolInv, PoolTypes
<1>2. /\ Past \in SUBSET Threads /\ k \in Nat /\ m \in Nat /\ k <= m
      /\ cursor < n + (1 + k) * c
  BY ThreadSets, ThreadCount DEF Past, PoolInv, CursorInv
<1>3. ASSUME NEW t \in Threads, pc[t] = "grab"
      PROVE  t \notin Past /\ k + 1 <= m
  <2>1. t \notin Past
    BY <1>3 DEF Past, Owes, InWork
  <2>2. Past \cup {t} \in SUBSET Threads
    BY <1>2
  <2>3. IsFiniteSet(Past) /\ Cardinality(Past \cup {t}) = Cardinality(Past) + 1
    BY <1>2, <2>1, ThreadSets, FS_AddElement
  <2>4. Cardinality(Past \cup {t}) <= Cardinality(Threads)
    BY <2>2, ThreadSets
  <2>5. QED
    BY <2>1, <2>3, <2>4
<1> HIDE DEF m, k, n, c
<1>4. cursor <= IntMax
  <2>1. (1 + m) * c = (1 + k) * c + (m - k) * c /\ (m - k) * c \in Nat
        /\ (1 + k) * c \in Nat
    BY <1>1, <1>2
  <2>2. QED
    BY <1>1, <1>2, <2>1
<1>5. ASSUME k + 1 <= m PROVE cursor + c <= IntMax
  <2>1. (1 + m) * c = (1 + k) * c + c + (m - k - 1) * c /\ (m - k - 1) * c \in Nat
        /\ (1 + k) * c \in Nat
    BY <1>1, <1>2, <1>5
  <2>2. QED
    BY <1>1, <1>2, <2>1
<1>6. QED
  BY <1>3, <1>4, <1>5 DEF c

LEMMA WrapFits ==
  ASSUME NEW x \in Int, x <= IntMax
  PROVE  Wrap(x) = x
  BY IntMaxAssumption DEF Wrap

-------------------------------------------------------------------------------
(* The steps that post, grab, run and leave *)

LEMMA PublishInv ==
  ASSUME PoolInv, Publish
  PROVE  PoolInv'
<1> USE CallerAssumption DEF PoolInv
<1>1. /\ pc[Caller] = "publish" /\ pc'[Caller] = "grab"
      /\ \A w \in Workers : w \in Threads /\ w # Caller /\ pc'[w] = pc[w]
      /\ pc' \in [Threads -> Labels] /\ \A t \in Threads : t # Caller => t \in Workers
      /\ job' = args /\ cursor' = 0 /\ gen' = gen + 1 /\ active' = PoolSize + 1
      /\ UNCHANGED <<seen, range, args>>
  BY DEF Publish, OnCpu, Goto, Workers, PoolTypes, Labels
<1>2. Owing = {} /\ active = 0 /\ args \in JobArgs
  <2>1. active = 0
    BY <1>1 DEF JoinInv, Opened, InWork
  <2>2. args \in JobArgs
    BY <1>1 DEF JobInv
  <2>3. Owing = {}
    BY <2>1, ThreadSets, FS_EmptySet DEF JoinInv, Owing
  <2>4. QED
    BY <2>1, <2>2, <2>3
<1>3. \A w \in Workers : ~InWork(w) /\ pc[w] # "wake" /\ seen[w] = gen
  BY <1>1, <1>2 DEF Owing, Owes
<1>4. gen \in Nat /\ gen' \in Nat /\ gen' # 0 /\ gen' # gen /\ gen <= gen'
  BY <1>1 DEF PoolTypes
<1>5. Owing' = Threads
  BY <1>1, <1>3, <1>4 DEF Owing, Owes, InWork
<1>6. job'.n \in Nat \ {0} /\ job'.chunk \in Nat \ {0} /\ args \in [n : Nat, chunk : Nat]
  <2>1. PICK a \in Calls :
          a.n > 0 /\ args = [n |-> a.n, chunk |-> IF a.chunk <= 0 THEN 1 ELSE a.chunk]
    BY <1>2 DEF JobArgs
  <2>2. a.n \in -IntMax .. IntMax /\ a.chunk \in -IntMax .. IntMax /\ IntMax \in Nat
    BY PoolCallsAssumption, IntMaxAssumption
  <2>3. args.n = a.n /\ args.chunk = IF a.chunk <= 0 THEN 1 ELSE a.chunk
    BY <2>1
  <2>4. args.n \in Nat \ {0} /\ args.chunk \in Nat \ {0}
    BY <2>1, <2>2, <2>3
  <2>5. QED
    BY <1>1, <2>1, <2>3, <2>4
<1>7. PoolTypes'
  BY <1>1, <1>4, <1>6, ThreadCount DEF PoolTypes
<1>8. JobInv'
  BY <1>1, <1>2, <1>3, <1>4 DEF JobInv, InWork
<1>9. JoinInv'
  <2>1. Opened'
    BY <1>1 DEF Opened, InWork
  <2>2. QED
    BY <1>1, <1>5, <2>1, ThreadCount DEF JoinInv
<1>10. \A t \in Threads : pc'[t] \notin {"look", "kernel", "leave"}
  BY <1>1, <1>3 DEF InWork
<1>11. RangesInv'
  BY <1>10 DEF RangesInv, Holding
<1>12. Past' = {}
  <2>1. \A t \in Threads : Owes(t)'
    BY <1>5 DEF Owing
  <2>2. QED
    BY <1>10, <2>1 DEF Past
<1>13. CursorInv'
  <2>1. Cardinality(Past') = 0
    BY <1>12, FS_EmptySet
  <2>2. 0 < job'.n + (1 + Cardinality(Past')) * job'.chunk
    BY <1>6, <2>1
  <2>3. QED
    BY <1>1, <1>12, <2>2 DEF CursorInv
<1>14. QED
  BY <1>7, <1>8, <1>9, <1>11, <1>13

\* A thread leaves the dispatch: one fewer owes it, and the call is open.
LEMMA LeaveInv ==
  ASSUME PoolInv, NEW t \in Threads,
         (t = Caller /\ Join) \/ (t \in Workers /\ Finish(t))
  PROVE  PoolInv' /\ Opened /\ Opened'
<1> USE CallerAssumption DEF PoolInv
<1>1. /\ pc[t] = "leave" /\ pc'[t] = IF t = Caller THEN "joinPark" ELSE "idle"
      /\ \A u \in Threads : u # t => pc'[u] = pc[u]
      /\ pc' \in [Threads -> Labels] /\ active' = active - 1
      /\ UNCHANGED <<gen, seen, job, cursor, range, args>>
  BY DEF Join, Finish, OnCpu, Goto, Workers, PoolTypes, Labels
<1>2. InWork(t) /\ ~InWork(t)'
      /\ \A u \in Threads : u # t => (InWork(u)' <=> InWork(u))
  BY <1>1 DEF InWork
<1>3. /\ t \in Owing /\ gen # 0 /\ Opened
      /\ t \in Workers => seen[t] = gen
  BY <1>2, WorkersOwe
<1>4. Opened'
  BY <1>1, <1>2, <1>3 DEF Opened
<1>5. /\ ~Owes(t)'
      /\ \A u \in Threads : u # t => (Owes(u)' <=> Owes(u))
  BY <1>1, <1>2, <1>3 DEF Owes, Workers
<1>6. Owing' = Owing \ {t}
  BY <1>5 DEF Owing
<1>7. Past' = Past
  BY <1>1, <1>5 DEF Past
<1>8. PoolTypes'
  BY <1>1 DEF PoolTypes
<1>9. JobInv'
  BY <1>1, <1>2, <1>3 DEF JobInv, Workers
<1>10. JoinInv'
  <2>1. IsFiniteSet(Owing)
    BY ThreadSets DEF Owing
  <2>2. Cardinality(Owing \ {t}) = Cardinality(Owing) - 1
    BY <1>3, <2>1, FS_RemoveElement
  <2>3. QED
    BY <1>1, <1>4, <1>6, <2>2 DEF JoinInv
<1>11. RangesInv'
  BY <1>1 DEF RangesInv, Holding
<1>12. CursorInv'
  BY <1>1, <1>7 DEF CursorInv
<1>13. QED
  BY <1>3, <1>4, <1>8, <1>9, <1>10, <1>11, <1>12

\* What the steps inside pool_work_ have in common.
LEMMA WorkFrame ==
  ASSUME PoolInv, NEW t \in Threads, InWork(t), InWork(t)',
         pc' \in [Threads -> Labels], pc[t] # "leave",
         \A u \in Threads : u # t => pc'[u] = pc[u],
         UNCHANGED <<gen, seen, job, active, args>>
  PROVE  /\ JobInv' /\ JoinInv' /\ Opened /\ Opened' /\ gen # 0
         /\ \A u \in Threads : Owes(u)' <=> Owes(u)
         /\ t \in Owing
<1> USE CallerAssumption DEF PoolInv
<1>1. \A u \in Threads : InWork(u)' <=> InWork(u)
  BY DEF InWork
<1>2. gen # 0 /\ Opened /\ t \in Owing /\ (t \in Workers => seen[t] = gen)
  BY WorkersOwe
<1>3. \A u \in Threads : (pc'[u] = "wake" <=> pc[u] = "wake")
        /\ (pc'[u] = "publish" <=> pc[u] = "publish")
        /\ (pc'[u] \in {"joinPark", "joinCheck"} <=> pc[u] \in {"joinPark", "joinCheck"})
  BY DEF InWork
<1>4. Opened'
  BY <1>1, <1>2, <1>3 DEF Opened
<1>5. \A u \in Threads : Owes(u)' <=> Owes(u)
  BY <1>1, <1>3 DEF Owes
<1>6. JobInv'
  BY <1>1, <1>2, <1>3 DEF JobInv, Workers
<1>7. Owing' = Owing
  BY <1>5 DEF Owing
<1>8. JoinInv'
  BY <1>4, <1>7 DEF JoinInv
<1>9. QED
  BY <1>2, <1>4, <1>5, <1>6, <1>8

LEMMA GrabInv ==
  ASSUME PoolInv, Room, NEW t \in Threads, Grab(t)
  PROVE  /\ PoolInv' /\ Opened /\ Opened'
         /\ pc[t] = "grab" /\ pc'[t] = "look"
         /\ range'[t].lo = cursor /\ cursor' = cursor + job.chunk
         /\ \A u \in Threads : u # t => pc'[u] = pc[u] /\ range'[u] = range[u]
         /\ job' = job
<1> USE DEF PoolInv
<1>1. /\ pc[t] = "grab" /\ pc'[t] = "look"
      /\ \A u \in Threads : u # t => pc'[u] = pc[u] /\ range'[u] = range[u]
      /\ pc' \in [Threads -> Labels]
      /\ range'[t] = [lo |-> cursor, hi |-> 0]
      /\ range' \in [Threads -> [lo : Nat, hi : Nat]]
      /\ cursor' = Wrap(cursor + job.chunk)
      /\ UNCHANGED <<gen, seen, job, active, args>>
  BY DEF Grab, OnCpu, Goto, PoolTypes, Labels
<1>2. /\ JobInv' /\ JoinInv' /\ Opened /\ Opened' /\ gen # 0
      /\ \A u \in Threads : Owes(u)' <=> Owes(u)
      /\ t \in Owing
  BY <1>1, WorkFrame DEF InWork
<1>3. /\ job.n \in Nat \ {0} /\ job.chunk \in Nat \ {0} /\ cursor \in Nat
      /\ t \notin Past /\ cursor' = cursor + job.chunk
  <2>1. job.n \in Nat \ {0} /\ job.chunk \in Nat \ {0} /\ cursor \in Nat
    BY <1>2, JobShape DEF PoolTypes
  <2>2. t \notin Past /\ cursor + job.chunk <= IntMax
    BY <1>1, <1>2, CursorFits
  <2>3. Wrap(cursor + job.chunk) = cursor + job.chunk
    BY <2>1, <2>2, WrapFits
  <2>4. QED
    BY <1>1, <2>1, <2>2, <2>3
<1>4. PoolTypes'
  BY <1>1, <1>3 DEF PoolTypes
<1>5. RangesInv'
  <2>1. \A u \in Threads : u # t => (Holding(u)' <=> Holding(u))
    BY <1>1 DEF Holding
  <2>2. \A u \in Threads : u # t /\ Holding(u)' => range'[u].lo + job.chunk <= cursor
    BY <1>1, <2>1 DEF RangesInv
  <2>3. \A u \in Threads : range[u].lo \in Nat /\ range'[t].lo = cursor
    BY <1>1 DEF PoolTypes
  <2>4. \A u \in Threads : Holding(u)' => range'[u].lo + job'.chunk <= cursor'
    BY <1>1, <1>3, <2>2, <2>3
  <2>5. \A u \in Threads : pc'[u] = "kernel" =>
          /\ range'[u].lo < range'[u].hi /\ range'[u].hi <= job'.n
          /\ range'[u].hi <= range'[u].lo + job'.chunk
    BY <1>1 DEF RangesInv
  <2>6. \A u, v \in Threads : u # v /\ Holding(u)' /\ Holding(v)' =>
          \/ range'[u].lo + job'.chunk <= range'[v].lo
          \/ range'[v].lo + job'.chunk <= range'[u].lo
    BY <1>1, <2>1, <2>2, <2>3 DEF RangesInv
  <2>7. QED
    BY <2>4, <2>5, <2>6 DEF RangesInv
<1>6. CursorInv'
  <2>1. IsFiniteSet(Past) /\ Cardinality(Past) \in Nat
        /\ Cardinality(Past \cup {t}) = Cardinality(Past) + 1
    BY <1>3, ThreadSets, FS_AddElement DEF Past
  <2> DEFINE k == Cardinality(Past)
             n == job.n
             c == job.chunk
  <2>2. cursor < n + (1 + k) * c /\ (Past # {} => cursor >= n)
    BY <1>2 DEF CursorInv
  <2>3. n \in Nat \ {0} /\ c \in Nat \ {0} /\ k \in Nat
        /\ (1 + k + 1) * c = (1 + k) * c + c /\ (1 + k) * c \in Nat
    BY <1>3, <2>1
  <2>4. CASE cursor >= n
    <3>1. Past' = Past \cup {t}
      BY <1>1, <1>2, <2>4 DEF Past
    <3>2. Cardinality(Past') = k + 1
      BY <2>1, <3>1
    <3> HIDE DEF k, n, c
    <3>3. cursor' < n + (1 + Cardinality(Past')) * c
      BY <1>3, <2>2, <2>3, <3>2 DEF c
    <3>4. QED
      BY <1>1, <1>3, <2>3, <2>4, <3>3 DEF CursorInv, n, c
  <2>5. CASE cursor < n
    <3>1. Past' = Past
      BY <1>1, <1>2, <1>3, <2>5 DEF Past
    <3>2. Past = {}
      BY <1>3, <2>2, <2>5
    <3>3. Cardinality(Past') = 0
      BY <3>1, <3>2, FS_EmptySet
    <3>4. cursor' < n + (1 + Cardinality(Past')) * c
      BY <1>3, <2>5, <3>3
    <3>5. QED
      BY <1>1, <3>1, <3>2, <3>4 DEF CursorInv
  <2>6. QED
    BY <1>3, <2>4, <2>5
<1>7. QED
  BY <1>1, <1>2, <1>3, <1>4, <1>5, <1>6

\* The chunk that a thread looks at is the one its cursor began, cut at the end.
LEMMA LookInv ==
  ASSUME PoolInv, Room, NEW t \in Threads, Look(t)
  PROVE  /\ PoolInv' /\ Opened /\ Opened' /\ gen # 0 /\ pc[t] = "look"
         /\ \A u \in Threads : u # t => pc'[u] = pc[u] /\ range'[u] = range[u]
         /\ job' = job /\ cursor' = cursor
         /\ \/ range[t].lo >= job.n /\ pc'[t] = "leave"
            \/ /\ range[t].lo < job.n /\ pc'[t] = "kernel"
               /\ range'[t].lo = range[t].lo
               /\ range'[t].hi = IF range[t].lo + job.chunk > job.n THEN job.n
                                 ELSE range[t].lo + job.chunk
<1> USE DEF PoolInv
<1> DEFINE lo == range[t].lo
           hi == IF lo + job.chunk > job.n THEN job.n ELSE lo + job.chunk
<1>1. InWork(t) /\ pc[t] = "look"
  BY DEF Look, OnCpu, InWork
<1>2. gen # 0
  BY <1>1, WorkersOwe
<1>3. /\ lo \in Nat /\ job.chunk \in Nat \ {0} /\ job.n \in Nat \ {0} /\ cursor \in Nat
      /\ lo + job.chunk <= cursor /\ cursor <= IntMax /\ IntMax \in Nat
  BY <1>1, <1>2, JobShape, CursorFits, IntMaxAssumption
     DEF PoolTypes, RangesInv, Holding
<1>4. Wrap(lo + job.chunk) = lo + job.chunk
  BY <1>3, WrapFits
<1>5. /\ \A u \in Threads : u # t => pc'[u] = pc[u] /\ range'[u] = range[u]
      /\ pc' \in [Threads -> Labels]
      /\ UNCHANGED <<gen, seen, job, cursor, active, args>>
      /\ \/ lo >= job.n /\ pc'[t] = "leave" /\ range' = [range EXCEPT ![t] = NoRange]
         \/ /\ lo < job.n /\ pc'[t] = "kernel"
            /\ range' = [range EXCEPT ![t].hi = hi]
  <2>1. pc' \in [Threads -> Labels]
        /\ \A u \in Threads : u # t => pc'[u] = pc[u] /\ range'[u] = range[u]
    BY DEF Look, Goto, PoolTypes, Labels
  <2>2. \/ lo >= job.n /\ pc'[t] = "leave" /\ range' = [range EXCEPT ![t] = NoRange]
        \/ /\ lo < job.n /\ pc'[t] = "kernel"
           /\ range' = [range EXCEPT ![t].hi = hi]
    BY <1>4 DEF Look, Goto, PoolTypes
  <2>3. QED
    BY <2>1, <2>2 DEF Look
<1>6. /\ JobInv' /\ JoinInv' /\ Opened /\ Opened' /\ gen # 0
      /\ \A u \in Threads : Owes(u)' <=> Owes(u)
      /\ t \in Owing
  BY <1>1, <1>5, WorkFrame DEF InWork
<1>7. hi \in Nat /\ lo < job.n => lo < hi /\ hi <= job.n /\ hi <= lo + job.chunk
  BY <1>3
<1>8. hi \in Nat
  BY <1>3
<1>9. \/ lo >= job.n /\ pc'[t] = "leave" /\ range'[t] = NoRange
      \/ lo < job.n /\ pc'[t] = "kernel" /\ range'[t].lo = lo /\ range'[t].hi = hi
  BY <1>5 DEF PoolTypes
<1>10. range' \in [Threads -> [lo : Nat, hi : Nat]]
  <2> HIDE DEF hi
  <2>1. QED
    BY <1>5, <1>8 DEF PoolTypes, NoRange
<1>11. PoolTypes'
  BY <1>5, <1>10 DEF PoolTypes
<1> HIDE DEF hi
<1>12. RangesInv'
  <2>1. \A u \in Threads : Holding(u)' => Holding(u) /\ range'[u].lo = range[u].lo
    BY <1>1, <1>5, <1>9 DEF Holding
  <2>2. \A u \in Threads : pc'[u] = "kernel" =>
          /\ range'[u].lo < range'[u].hi /\ range'[u].hi <= job'.n
          /\ range'[u].hi <= range'[u].lo + job'.chunk
    BY <1>5, <1>7, <1>8, <1>9 DEF RangesInv
  <2>3. QED
    BY <1>5, <2>1, <2>2 DEF RangesInv
<1>13. CursorInv'
  <2>1. Past' = Past
    BY <1>1, <1>3, <1>5, <1>6, <1>9 DEF Past
  <2>2. QED
    BY <1>5, <2>1 DEF CursorInv
<1>14. QED
  BY <1>1, <1>5, <1>6, <1>9, <1>11, <1>12, <1>13 DEF hi

LEMMA KernelEndInv ==
  ASSUME PoolInv, NEW t \in Threads, KernelEnd(t)
  PROVE  /\ PoolInv' /\ Opened /\ Opened' /\ gen # 0
         /\ pc[t] = "kernel" /\ pc'[t] = "poll"
         /\ \A u \in Threads : u # t => pc'[u] = pc[u] /\ range'[u] = range[u]
         /\ job' = job /\ cursor' = cursor
<1> USE DEF PoolInv
<1>1. /\ pc[t] = "kernel" /\ pc'[t] = "poll"
      /\ \A u \in Threads : u # t => pc'[u] = pc[u] /\ range'[u] = range[u]
      /\ pc' \in [Threads -> Labels]
      /\ range' \in [Threads -> [lo : Nat, hi : Nat]]
      /\ UNCHANGED <<gen, seen, job, cursor, active, args>>
  BY DEF KernelEnd, OnCpu, Goto, PoolTypes, Labels, NoRange
<1>2. /\ JobInv' /\ JoinInv' /\ Opened /\ Opened' /\ gen # 0
      /\ \A u \in Threads : Owes(u)' <=> Owes(u)
      /\ t \in Owing
  BY <1>1, WorkFrame DEF InWork
<1>3. PoolTypes'
  BY <1>1 DEF PoolTypes
<1>4. RangesInv'
  BY <1>1 DEF RangesInv, Holding
<1>5. CursorInv'
  <2>1. Past' = Past
    BY <1>1, <1>2 DEF Past, Owing
  <2>2. QED
    BY <1>1, <2>1 DEF CursorInv
<1>6. QED
  BY <1>1, <1>2, <1>3, <1>4, <1>5

-------------------------------------------------------------------------------
(* The refinement *)

AbsJob == [n |-> job.n, phases |-> IF job.n = 0 THEN 0 ELSE 1,
           slices |-> IF job.n = 0 THEN {} ELSE {[lo |-> 0, hi |-> job.n]}]

\* Two chunks in hand have no index in common.
LEMMA ChunksApart ==
  ASSUME PoolInv, gen # 0, NEW t \in Threads, NEW u \in Threads, t # u,
         Holding(t), Holding(u), NEW i \in Int,
         range[t].lo <= i, i < range[t].lo + job.chunk,
         range[u].lo <= i, i < range[u].lo + job.chunk
  PROVE  FALSE
<1>1. /\ range[t].lo \in Nat /\ range[u].lo \in Nat /\ job.chunk \in Nat
  BY DEF PoolInv, PoolTypes
<1>2. \/ range[t].lo + job.chunk <= range[u].lo
      \/ range[u].lo + job.chunk <= range[t].lo
  BY DEF PoolInv, RangesInv
<1>3. QED
  BY <1>1, <1>2

\* What the specification of the promise sees of a step that does not post.
LEMMA SameCall ==
  ASSUME job' = job, Opened, Opened', Given' = Given, Ran' = Ran
  PROVE  UNCHANGED Work!vars
  BY DEF Work!vars, Opened

LEMMA QuietStutters ==
  ASSUME Quiet, Opened' <=> Opened
  PROVE  UNCHANGED Work!vars
  BY QuietSets DEF Work!vars, Quiet, Opened

\* A grab moves the cursor over the indexes it takes in hand.
LEMMA GrabStutters ==
  ASSUME PoolInv, Room, NEW t \in Threads, Grab(t)
  PROVE  UNCHANGED Work!vars
<1>1. /\ Opened /\ Opened' /\ pc[t] = "grab" /\ pc'[t] = "look"
      /\ range'[t].lo = cursor /\ cursor' = cursor + job.chunk
      /\ \A u \in Threads : u # t => pc'[u] = pc[u] /\ range'[u] = range[u]
      /\ job' = job /\ cursor \in Nat /\ job.chunk \in Nat
  BY GrabInv DEF PoolInv, PoolTypes
<1>2. \A i \in 0 .. job.n - 1 : i \in Given' <=> i \in Given
  BY <1>1 DEF Given
<1>3. Given' = Given
  BY <1>1, <1>2 DEF Given
<1>4. Ran' = Ran
  BY <1>1, <1>3 DEF Ran
<1>5. QED
  BY <1>1, <1>3, <1>4, SameCall

\* The kernel is called on a chunk, or there is none.
LEMMA LookBegins ==
  ASSUME PoolInv, Room, NEW t \in Threads, Look(t)
  PROVE  Work!Next \/ UNCHANGED Work!vars
<1> DEFINE lo == range[t].lo
           hi == IF lo + job.chunk > job.n THEN job.n ELSE lo + job.chunk
           new == lo .. hi - 1
<1>1. /\ PoolInv' /\ Opened /\ Opened' /\ gen # 0 /\ pc[t] = "look"
      /\ \A u \in Threads : u # t => pc'[u] = pc[u] /\ range'[u] = range[u]
      /\ job' = job /\ cursor' = cursor
      /\ \/ lo >= job.n /\ pc'[t] = "leave"
         \/ lo < job.n /\ pc'[t] = "kernel" /\ range'[t].lo = lo /\ range'[t].hi = hi
  BY LookInv
<1>2. /\ lo \in Nat /\ job.chunk \in Nat \ {0} /\ job.n \in Nat \ {0} /\ cursor \in Nat
      /\ lo + job.chunk <= cursor
  BY <1>1, JobShape DEF PoolInv, PoolTypes, RangesInv, Holding
<1>3. hi \in Nat /\ hi <= job.n /\ hi <= lo + job.chunk
      /\ \A i \in Int : i < hi <=> (i < job.n /\ i < lo + job.chunk)
  BY <1>2
<1> HIDE DEF hi
<1>4. CASE lo >= job.n
  <2>1. \A u \in Threads : (pc'[u] = "look" => pc[u] = "look" /\ range'[u] = range[u])
          /\ (pc[u] = "look" => u = t \/ (pc'[u] = "look" /\ range'[u] = range[u]))
          /\ (pc'[u] = "kernel" <=> pc[u] = "kernel")
          /\ (pc[u] = "kernel" => range'[u] = range[u])
    BY <1>1, <1>2, <1>4
  <2>2. Given' = Given
    BY <1>1, <1>2, <1>4, <2>1 DEF Given
  <2>3. Ran' = Ran
    BY <2>1, <2>2 DEF Ran
  <2>4. QED
    BY <1>1, <2>2, <2>3, SameCall
<1>5. CASE lo < job.n
  <2>1. /\ pc'[t] = "kernel" /\ range'[t].lo = lo /\ range'[t].hi = hi /\ lo < hi
    BY <1>1, <1>2, <1>3, <1>5
  <2>2. ASSUME NEW i \in 0 .. job.n - 1
        PROVE  /\ i \in new => i \notin Given
               /\ i \in Given' <=> i \in Given \/ i \in new
    <3>1. CASE i \in new
      <4>1. lo <= i /\ i < lo + job.chunk /\ i < cursor /\ i \in Int
        BY <1>2, <1>3, <3>1
      <4>2. i \notin Given
        BY <1>1, <4>1 DEF Given
      <4>3. ASSUME NEW u \in Threads, pc'[u] = "look",
                   range'[u].lo <= i, i < range'[u].lo + job.chunk
            PROVE  FALSE
        <5>1. u # t /\ pc[u] = "look" /\ range'[u] = range[u]
          BY <1>1, <2>1, <4>3
        <5>2. QED
          BY <1>1, <4>1, <4>3, <5>1, ChunksApart DEF Holding
      <4>4. i \in Given'
        BY <1>1, <4>1, <4>3 DEF Given
      <4>5. QED
        BY <3>1, <4>2, <4>4
    <3>2. CASE i \notin new
      <4>1. ~(lo <= i /\ i < lo + job.chunk)
        BY <1>2, <1>3, <3>2
      <4>2. QED
        BY <1>1, <2>1, <3>2, <4>1 DEF Given
    <3>3. QED
      BY <3>1, <3>2
  <2>3. new \subseteq 0 .. job.n - 1
    BY <1>2, <1>3
  <2>4. Given' = Given \cup new
    BY <1>1, <2>2, <2>3 DEF Given
  <2>5. Ran' = Ran
    <3>1. ASSUME NEW i \in new
          PROVE  i \notin Ran' /\ i \notin Ran
      <4>1. lo <= i /\ i < hi
        BY <1>2, <1>3
      <4>2. i \notin Ran'
        BY <2>1, <4>1 DEF Ran
      <4>3. QED
        BY <2>2, <2>3, <4>2 DEF Ran
    <3>2. ASSUME NEW i \in Given
          PROVE  i \in Ran' <=> i \in Ran
      <4>1. i \in 0 .. job.n - 1 /\ i \notin new /\ i \in Given'
        BY <2>2, <2>4 DEF Given
      <4>2. ~(lo <= i /\ i < hi)
        BY <1>2, <1>3, <4>1
      <4>3. QED
        BY <1>1, <2>1, <4>1, <4>2 DEF Ran
    <3>3. QED
      BY <2>4, <3>1, <3>2 DEF Ran
  <2>6. Work!Begin(0, lo, hi)
    <3>1. AbsJob.slices = {[lo |-> 0, hi |-> job.n]} /\ AbsJob' = AbsJob
      BY <1>1, <1>2 DEF AbsJob
    <3>2. \E s \in AbsJob.slices :
             /\ s.lo <= lo /\ hi <= s.hi
             /\ 0 > 0 => \A i \in s.lo .. s.hi - 1 : <<0 - 1, i>> \in {0} \X Ran
      BY <1>2, <1>3, <3>1
    <3>3. \A i \in lo .. hi - 1 : <<0, i>> \notin {0} \X Given
      BY <2>2, <2>3
    <3>4. ({0} \X Given)' = ({0} \X Given) \cup ({0} \X (lo .. hi - 1))
      BY <2>4
    <3>5. ({0} \X Ran)' = {0} \X Ran
      BY <2>5
    <3>6. QED
      BY <1>1, <3>1, <3>2, <3>3, <3>4, <3>5 DEF Work!Begin, AbsJob, Opened
  <2>7. 0 \in 0 .. AbsJob.phases - 1 /\ lo \in 0 .. AbsJob.n - 1 /\ hi \in 1 .. AbsJob.n
        /\ lo < hi
    BY <1>2, <1>3, <1>5, <2>1 DEF AbsJob
  <2>8. QED
    BY <2>6, <2>7 DEF Work!Next, AbsJob
<1>6. QED
  BY <1>2, <1>4, <1>5

\* The kernel returns.
LEMMA KernelEnds ==
  ASSUME PoolInv, NEW t \in Threads, KernelEnd(t)
  PROVE  Work!Next
<1> DEFINE lo == range[t].lo
           hi == range[t].hi
           new == lo .. hi - 1
<1>1. /\ Opened /\ Opened' /\ gen # 0 /\ pc[t] = "kernel" /\ pc'[t] = "poll"
      /\ \A u \in Threads : u # t => pc'[u] = pc[u] /\ range'[u] = range[u]
      /\ job' = job /\ cursor' = cursor
  BY KernelEndInv
<1>2. /\ lo \in Nat /\ hi \in Nat /\ job.chunk \in Nat \ {0} /\ job.n \in Nat \ {0}
      /\ cursor \in Nat /\ lo + job.chunk <= cursor
      /\ lo < hi /\ hi <= job.n /\ hi <= lo + job.chunk
  BY <1>1, JobShape DEF PoolInv, PoolTypes, RangesInv, Holding
<1>3. Given' = Given
  BY <1>1 DEF Given
<1>4. ASSUME NEW i \in new
      PROVE  i \in Given /\ i \notin Ran /\ i \in Ran'
  <2>1. /\ i \in 0 .. job.n - 1 /\ i < cursor /\ lo <= i /\ i < hi
        /\ i < lo + job.chunk /\ i \in Int
    BY <1>2
  <2>2. ASSUME NEW u \in Threads, u # t, Holding(u),
               range[u].lo <= i, i < range[u].lo + job.chunk
        PROVE  FALSE
    BY <1>1, <2>1, <2>2, ChunksApart DEF Holding
  <2>3. i \in Given
    BY <1>1, <2>1, <2>2 DEF Given, Holding
  <2>4. i \notin Ran
    BY <1>1, <2>1 DEF Ran
  <2>5. ASSUME NEW u \in Threads, pc'[u] = "kernel",
               range'[u].lo <= i, i < range'[u].hi
        PROVE  FALSE
    <3>1. u # t /\ pc[u] = "kernel" /\ range'[u] = range[u]
      BY <1>1, <2>5
    <3>2. range[u].hi <= range[u].lo + job.chunk /\ range[u].hi \in Nat /\ range[u].lo \in Nat
      BY <3>1 DEF PoolInv, PoolTypes, RangesInv
    <3>3. i < range[u].lo + job.chunk
      BY <1>2, <2>1, <2>5, <3>1, <3>2
    <3>4. QED
      BY <2>2, <2>5, <3>1, <3>3 DEF Holding
  <2>6. QED
    BY <1>3, <2>3, <2>4, <2>5 DEF Ran
<1>5. Ran' = Ran \cup new
  <2>1. ASSUME NEW i \in Given, i \notin new
        PROVE  i \in Ran' <=> i \in Ran
    <3>1. ~(lo <= i /\ i < hi)
      BY <1>2, <2>1 DEF Given
    <3>2. QED
      BY <1>1, <1>3, <3>1 DEF Ran
  <2>2. QED
    BY <1>3, <1>4, <2>1 DEF Ran
<1>6. Work!End(0, lo, hi)
  <2>1. AbsJob' = AbsJob
    BY <1>1 DEF AbsJob
  <2>2. \A i \in lo .. hi - 1 : <<0, i>> \in ({0} \X Given) \ ({0} \X Ran)
    BY <1>4
  <2>3. ({0} \X Ran)' = ({0} \X Ran) \cup ({0} \X (lo .. hi - 1))
    BY <1>5
  <2>4. ({0} \X Given)' = {0} \X Given
    BY <1>3
  <2>5. QED
    BY <1>1, <2>1, <2>2, <2>3, <2>4 DEF Work!End, AbsJob, Opened
<1>7. 0 \in 0 .. AbsJob.phases - 1 /\ lo \in 0 .. AbsJob.n - 1 /\ hi \in 1 .. AbsJob.n
      /\ lo < hi
  BY <1>2 DEF AbsJob
<1>8. QED
  BY <1>6, <1>7 DEF Work!Next, AbsJob

\* The job is posted: one slice, nothing of it given.
LEMMA PublishCalls ==
  ASSUME PoolInv, Publish
  PROVE  Work!Next
<1>1. /\ pc[Caller] = "publish" /\ pc'[Caller] = "grab"
      /\ job' = args /\ cursor' = 0 /\ args \in JobArgs
  BY CallerAssumption DEF Publish, OnCpu, Goto, PoolInv, PoolTypes, JobInv
<1>2. ~Opened /\ Opened'
  BY <1>1 DEF Opened, InWork
<1>3. PICK a \in {b \in Calls : b.n > 0} : job'.n = a.n /\ a.n \in Nat \ {0}
  <2>1. PICK a \in {b \in Calls : b.n > 0} :
          args = [n |-> a.n, chunk |-> IF a.chunk <= 0 THEN 1 ELSE a.chunk]
    BY <1>1 DEF JobArgs
  <2>2. a.n \in -IntMax .. IntMax /\ IntMax \in Nat
    BY PoolCallsAssumption, IntMaxAssumption
  <2>3. QED
    BY <1>1, <2>1, <2>2
<1>4. Given' = {} /\ Ran' = {}
  <2>1. Given' = {}
    BY <1>1, <1>3 DEF Given
  <2>2. QED
    BY <2>1 DEF Ran
<1>5. /\ AbsJob'.n = a.n /\ AbsJob'.phases = 1
      /\ AbsJob'.slices = {[lo |-> 0, hi |-> a.n]}
  BY <1>3 DEF AbsJob
<1>6. \E r \in {[n |-> b.n, phases |-> 1] : b \in {d \in Calls : d.n > 0}} :
         AbsJob'.n = r.n /\ AbsJob'.phases = r.phases
  <2>1. [n |-> a.n, phases |-> 1]
          \in {[n |-> b.n, phases |-> 1] : b \in {d \in Calls : d.n > 0}}
    OBVIOUS
  <2>2. AbsJob'.n = [n |-> a.n, phases |-> 1].n
        /\ AbsJob'.phases = [n |-> a.n, phases |-> 1].phases
    BY <1>5
  <2>3. QED
    BY <2>1, <2>2
<1>7. Work!EvenCut(AbsJob'.slices, AbsJob'.n)
  <2>1. Work!EvenCut({[lo |-> 0, hi |-> a.n]}, a.n)
    BY <1>3 DEF Work!EvenCut
  <2>2. QED
    BY <1>5, <2>1
<1>8. ({0} \X Given)' = {} /\ ({0} \X Ran)' = {}
  BY <1>4
<1>9. Work!Call
  BY <1>2, <1>6, <1>7, <1>8 DEF Work!Call, AbsJob, Opened
<1>10. QED
  BY <1>9 DEF Work!Next

\* The count is zero: nobody owes the dispatch anything, and the caller itself
\* has seen the end of the range.
LEMMA JoinReturns ==
  ASSUME PoolInv, Quiet, JoinCheck, active = 0, Opened, ~Opened'
  PROVE  Work!Next
<1>1. /\ pc[Caller] = "joinCheck" /\ Caller \in Threads /\ gen # 0
  BY CallerAssumption DEF JoinCheck, OnCpu, PoolInv, JobInv
<1>2. Owing = {}
  BY ThreadSets, FS_EmptySet DEF PoolInv, JoinInv, Owing
<1>3. \A t \in Threads : pc[t] \notin {"look", "kernel"}
  BY <1>2 DEF Owing, Owes, InWork
<1>4. job.n \in Nat \ {0} /\ cursor \in Nat /\ cursor >= job.n
  <2>1. Caller \in Past
    BY <1>1, <1>2 DEF Owing, Past
  <2>2. QED
    BY <1>1, <2>1, JobShape DEF PoolInv, PoolTypes, CursorInv
<1>5. Given = 0 .. job.n - 1 /\ Ran = 0 .. job.n - 1
  BY <1>3, <1>4 DEF Given, Ran
<1>6. Given' = Given /\ Ran' = Ran
  BY QuietSets
<1>7. AbsJob' = AbsJob /\ AbsJob.n = job.n /\ AbsJob.phases = 1
  BY <1>4 DEF AbsJob, Quiet
<1>8. {0} \X Ran = (0 .. AbsJob.phases - 1) \X (0 .. AbsJob.n - 1)
  BY <1>4, <1>5, <1>7
<1>9. Work!Return
  BY <1>6, <1>7, <1>8 DEF Work!Return, Work!All, AbsJob, Opened
<1>10. QED
  BY <1>9 DEF Work!Next

LEMMA PoolInitInv == PoolInit => PoolInv
<1> SUFFICES ASSUME PoolInit PROVE PoolInv
  OBVIOUS
<1> USE CallerAssumption
<1>1. /\ pc = [t \in Threads |-> IF t = Caller THEN "user" ELSE "unborn"]
      /\ gen = 0 /\ seen = [w \in Workers |-> 0] /\ job = [n |-> 0, chunk |-> 0]
      /\ cursor = 0 /\ active = 0 /\ range = [t \in Threads |-> NoRange]
  BY DEF PoolInit
<1>2. \A t \in Threads : pc[t] \in {"user", "unborn"}
  BY <1>1
<1>3. PoolTypes
  BY <1>1 DEF PoolTypes, Labels, NoRange
<1>4. ~Opened /\ \A t \in Threads : ~InWork(t)
  BY <1>2 DEF Opened, InWork
<1>5. JobInv
  BY <1>1, <1>2, <1>4 DEF JobInv, Workers
<1>6. JoinInv
  <2>1. Owing = {}
    BY <1>1, <1>2, <1>4 DEF Owing, Owes
  <2>2. QED
    BY <1>1, <2>1, FS_EmptySet DEF JoinInv
<1>7. RangesInv /\ CursorInv
  BY <1>1, <1>2 DEF RangesInv, CursorInv, Holding
<1>8. QED
  BY <1>3, <1>5, <1>6, <1>7 DEF PoolInv

\* One step: the invariant is kept, and the promise sees one of its own steps
\* or nothing.
LEMMA PoolStep ==
  ASSUME PoolInv, Room, [Next]_vars
  PROVE  PoolInv' /\ (Work!Next \/ UNCHANGED Work!vars)
<1>1. CASE (\E a \in Calls : Call(a)) \/ JoinPark \/ JoinCheck \/ Return \/ UserCode
  BY <1>1, CallerQuiet, QuietStutters, JoinReturns
<1>2. ASSUME NEW w \in Workers, Start(w) \/ IdlePark(w) \/ CheckGo(w) \/ WakeUnpark(w)
      PROVE  PoolInv' /\ UNCHANGED Work!vars
  BY <1>2, WorkerQuiet, QuietStutters
<1>3. CASE (\E t \in Threads : Poll(t) \/ KernelHeap(t) \/ InHandshake(t)) \/ PoolSpurious
  BY <1>3, PollQuiet, QuietStutters
<1>4. CASE Publish
  BY <1>4, PublishInv, PublishCalls
<1>5. ASSUME NEW t \in Threads, (t = Caller /\ Join) \/ (t \in Workers /\ Finish(t))
      PROVE  PoolInv' /\ UNCHANGED Work!vars
  <2>1. PoolInv' /\ Opened /\ Opened'
    BY <1>5, LeaveInv
  <2>2. /\ UNCHANGED <<job, cursor, range>>
        /\ \A u \in Threads : /\ pc'[u] = "look" <=> pc[u] = "look"
                              /\ pc'[u] = "kernel" <=> pc[u] = "kernel"
    BY <1>5, CallerAssumption DEF Join, Finish, OnCpu, Goto, PoolInv, PoolTypes
  <2>3. Given' = Given
    BY <2>2 DEF Given
  <2>4. Ran' = Ran
    BY <2>2, <2>3 DEF Ran
  <2>5. QED
    BY <2>1, <2>2, <2>3, <2>4, SameCall
<1>6. ASSUME NEW t \in Threads, WorkStep(t)
      PROVE  PoolInv' /\ (Work!Next \/ UNCHANGED Work!vars)
  <2>1. CASE Grab(t)
    BY <2>1, GrabInv, GrabStutters
  <2>2. CASE Look(t)
    BY <2>2, LookInv, LookBegins
  <2>3. CASE KernelEnd(t)
    BY <2>3, KernelEndInv, KernelEnds
  <2>4. CASE Poll(t)
    BY <2>4, <1>3
  <2>5. QED
    BY <1>6, <2>1, <2>2, <2>3, <2>4 DEF WorkStep
<1>7. CASE UNCHANGED vars
  <2>1. UNCHANGED <<gen, seen, job, cursor, range, active, args, pc>>
    BY <1>7 DEF vars, poolVars
  <2>2. Quiet /\ (Opened' <=> Opened) /\ PoolTypes' /\ JobInv'
    BY <2>1 DEF Quiet, Opened, PoolInv, PoolTypes, JobInv, Owes, InWork
  <2>3. QED
    BY <2>2, QuietInv, QuietStutters
<1>8. CASE CallerStep
  BY <1>8, <1>1, <1>4, <1>5, CallerAssumption DEF CallerStep
<1>9. ASSUME NEW w \in Workers, WorkerStep(w)
      PROVE  PoolInv' /\ UNCHANGED Work!vars
  BY <1>9, <1>2, <1>5 DEF WorkerStep, Workers
<1>10. QED
  BY <1>1, <1>3, <1>6, <1>7, <1>8, <1>9 DEF Next

\* The promise of the plain dispatch (fpprt.h:185, fpprt.c:394-402), for
\* every number of threads and sequence of calls that have room under INT_MAX:
\* every index is given to the kernel once, and the call returns when every
\* kernel has, wherever the threads stop for a collection.
THEOREM PoolRefines == ASSUME Room PROVE Spec => ServesCall
<1>1. PoolInit => Work!Init
  <2> SUFFICES ASSUME PoolInit PROVE Work!Init
    OBVIOUS
  <2>1. job.n = 0 /\ cursor = 0 /\ pc[Caller] = "user"
    BY CallerAssumption DEF PoolInit
  <2>2. Given = {} /\ Ran = {} /\ ~Opened
    BY <2>1 DEF Given, Ran, Opened, InWork
  <2>3. {0} \X Given = {} /\ {0} \X Ran = {}
    BY <2>2
  <2>4. QED
    BY <2>1, <2>2, <2>3 DEF Work!Init, Opened
<1>2. PoolInv /\ [Next]_vars => PoolInv' /\ [Work!Next]_(Work!vars)
  BY PoolStep
<1>3. QED
  BY <1>1, <1>2, PoolInitInv, PTL DEF Spec, ServesCall, Work!Spec
===============================================================================
