---------------------------- MODULE TracingProofs ----------------------------
(***************************************************************************)
(* Two collectors that follow the references of a heap.  First the         *)
(* parallel tracer, module Tracer: nothing is lost or traced twice, for    *)
(* any number of workers, any heap, any rounds and any growth of the       *)
(* deques.  Then the semispace collector with its large objects, module    *)
(* Semi: the program keeps the graph it built, and the heap its size, for  *)
(* any heap, any objects, any roots and any threads.                       *)
(***************************************************************************)
EXTENDS Tracer, Semi, FiniteSetTheorems, FunctionTheorems, SequenceTheorems, WellFoundedInduction, TLAPS

-------------------------------------------------------------------------------
(* The inductive invariant *)

\* where the collecting thread alone can be, and where a helper alone
MainOnly ==
  {"mutating", "release", "wake", "join", "unpark", "wakeAgain", "tryLock", "unlock", "ended"}
Out == {"spawned", "waiting"}
HelperOnly == Out \cup {"look", "park"}
\* in a deque, or between two uses of one
Stealing == {"stealBottom", "stealBuf", "stealGet", "stealCas"}
InLoop == {"visit", "push", "pushPut", "pushBottom"}
Popping == {"popTop", "popCas", "popRestore"}
Common == {"start", "roots", "pop", "steal", "trace"} \cup InLoop \cup Popping \cup Stealing
Labels == MainOnly \cup HelperOnly \cup Common \cup {"leave"}
\* who does not count as a tracer
Idle == HelperOnly \cup {"start", "mutating", "release", "wake", "ended"}
\* where worker 0 has every lock
Alone == {"mutating", "leave", "ended"}

IsReg(r) ==
  /\ r = [b |-> r.b, t |-> r.t, a |-> r.a, x |-> r.x]
  /\ r.t \in Nat /\ r.a \in 0 .. MaxBuf

IsBuffer(f, a) == f = [i \in 0 .. SizeOf(a) - 1 |-> f[i]]
IsBuffers(f) ==
  f = [a \in 0 .. MaxBuf |-> f[a]] /\ \A a \in 0 .. MaxBuf : IsBuffer(f[a], a)
IsData(d) == d = [w \in Ids |-> d[w]] /\ \A w \in Ids : IsBuffers(d[w])

WhereTypes ==
  /\ where \in [Ids -> Labels] /\ where[0] \notin HelperOnly
  /\ \A h \in Helpers : where[h] \notin MainOnly
RegTypes == reg = [w \in Ids |-> reg[w]] /\ \A w \in Ids : IsReg(reg[w])
DequeTypes ==
  /\ bottom \in [Ids -> Int] /\ top \in [Ids -> Nat] /\ buf \in [Ids -> 0 .. MaxBuf]
  /\ IsData(data)
TraceTypes ==
  /\ edges \in [HeapObjects -> Seq(HeapObjects)] /\ toTrace \in [Ids -> Seq(HeapObjects)]
  /\ marked \subseteq HeapObjects /\ traced \in [HeapObjects -> {0, 1}]
  /\ \A o \in HeapObjects : traced[o] = 1 => o \in marked
ControlTypes ==
  /\ round \in 0 .. Len(Rounds) /\ read \in Nat /\ rooting \subseteq Ids
  /\ lock \in [Helpers -> Ids \cup {Nobody}] /\ locked \in 1 .. WorkerCount
StealTypes == stealId \in [Ids -> Ids] /\ tries = [w \in Ids |-> tries[w]]
TracerTypes ==
  WhereTypes /\ RegTypes /\ DequeTypes /\ TraceTypes /\ ControlTypes /\ StealTypes

\* The workers that count as tracers are counted.
Tracing == {w \in Ids : where[w] \notin Idle}
Counted == activeTracers = Cardinality(Tracing)

(***************************************************************************)
(* A deque's elements are those from top to Rear: to bottom - 1, or to     *)
(* bottom while its owner pushes or pops there.  They fit in its buffer.   *)
(***************************************************************************)
Elem(v, i) == Get(v, buf[v], i)
Rear(v) ==
  IF where[v] \in Popping \cup {"pushBottom"} THEN bottom[v] ELSE bottom[v] - 1
InWindow(v, i) == top[v] <= i /\ i <= Rear(v)

Deque(v) ==
  /\ top[v] <= Rear(v) + 1
  /\ Rear(v) - top[v] < SizeOf(buf[v])
  /\ At(v, "popRestore") => top[v] = bottom[v] + 1
  /\ At(v, "popCas") =>
       /\ reg[v].t = bottom[v] /\ reg[v].t <= top[v]
       /\ reg[v].x = Elem(v, bottom[v])
  /\ At(v, "pushPut") =>
       /\ reg[v].t <= bottom[v] /\ bottom[v] - reg[v].t <= SizeOf(buf[v])
       /\ reg[v].t <= top[v] \/ bottom[v] - top[v] < SizeOf(buf[v])
Deques == \A v \in Ids : Deque(v)

\* What a thief has read is right as long as the top is where it saw it.
Thief(w) ==
  /\ where[w] \in Stealing => reg[w].t <= top[stealId[w]]
  /\ where[w] \in Stealing \ {"stealBottom"} /\ reg[w].t = top[stealId[w]] =>
       InWindow(stealId[w], reg[w].t)
  /\ At(w, "stealGet") => reg[w].a <= buf[stealId[w]]
  /\ At(w, "stealGet") /\ reg[w].t = top[stealId[w]] =>
       Get(stealId[w], reg[w].a, reg[w].t) = Elem(stealId[w], reg[w].t)
  /\ At(w, "stealCas") /\ reg[w].t = top[stealId[w]] =>
       reg[w].x = Elem(stealId[w], reg[w].t)
Thieves == \A w \in Ids : Thief(w)

(***************************************************************************)
(* An object to trace is in one place: in a deque, or in a worker's hand.  *)
(***************************************************************************)
Hand == 0 - 1
Places == Nat \cup {Hand}
Held(w) ==
  \/ where[w] \in {"push", "pushPut", "trace"}
  \/ At(w, "popRestore") /\ reg[w].x # NoElement
Occupied(v, i) == IF i = Hand THEN Held(v) ELSE InWindow(v, i)
Content(v, i) == IF i = Hand THEN reg[v].x ELSE Elem(v, i)
ToDo(o) == o \in marked /\ traced[o] = 0
Tasks ==
  /\ \A v \in Ids, i \in Places : Occupied(v, i) => ToDo(Content(v, i))
  /\ \A v, w \in Ids, i, j \in Places :
       Occupied(v, i) /\ Occupied(w, j) /\ Content(v, i) = Content(w, j) => v = w /\ i = j
  /\ \A o \in HeapObjects : ToDo(o) =>
       \E v \in Ids, i \in Places : Occupied(v, i) /\ Content(v, i) = o

(***************************************************************************)
(* What a traced object refers to, and the roots that were taken, are      *)
(* marked or about to be.                                                  *)
(***************************************************************************)
Awaits(w, c) == \E k \in DOMAIN toTrace[w] : toTrace[w][k] = c
Due(c) == c \in marked \/ \E w \in Ids : Awaits(w, c)
RootDue(q, i) ==
  IF q < round \/ At(0, "mutating") THEN Rounds[q].roots[i] \in marked
  ELSE i > read \/ Due(Rounds[q].roots[i])
Looping(w) ==
  /\ toTrace[w] # <<>> => where[w] \in InLoop
  /\ w \in rooting => where[w] \in InLoop \cup {"roots"}
  /\ At(w, "roots") => w \in rooting
EdgesDue ==
  \A o \in HeapObjects : traced[o] = 1 => \A i \in DOMAIN edges[o] : Due(edges[o][i])
RootsDue == \A q \in 1 .. round : \A i \in DOMAIN Rounds[q].roots : RootDue(q, i)
AllRead ==
  /\ where[0] \notin {"mutating", "release", "wake", "start"} /\ 0 \notin rooting =>
       read >= Len(Roots)
  /\ At(0, "mutating") => read = 0
Followed == EdgesDue /\ RootsDue /\ AllRead /\ \A w \in Ids : Looping(w)

\* A helper in the heap has its lock, and worker 0 the ones it has taken.
Locks ==
  /\ \A h \in Helpers : where[h] \notin Out => lock[h] = h
  /\ where[0] \in Alone => \A h \in Helpers : lock[h] = 0
  /\ At(0, "release") => \A h \in Helpers : h >= locked => lock[h] = 0
  /\ where[0] \in {"tryLock", "join", "unlock"} => \A h \in Helpers : h < locked => lock[h] = 0
  /\ where[0] \notin {"release", "tryLock", "join", "unlock", "leave", "ended"} => locked = 1
\* Worker 0 leaves a full round when the deques are empty.
Done ==
  /\ At(0, "join") => Rounds[round].only
  /\ ~At(0, "mutating") => round > 0
  /\ where[0] \in Alone /\ round > 0 /\ ~Rounds[round].only => \A v \in Ids : bottom[v] <= top[v]

(***************************************************************************)
(* The steps, by what they are about                                       *)
(***************************************************************************)
PushStep(w) == PushTop(w) \/ PushGrow(w) \/ PushPut(w) \/ PushBottom(w)
PopStep(w) == PopBottom(w) \/ PopTop(w) \/ PopCas(w) \/ PopRestore(w)
StealStep(w) == StealTop(w) \/ StealBottom(w) \/ StealBuf(w) \/ StealGet(w) \/ StealCas(w)
TraceStep(w) == Start(w) \/ TakeRoot(w) \/ Visit(w) \/ Visited(w) \/ TraceOne(w)
HelperStep(h) == TakeLock(h) \/ Look(h) \/ Park(h) \/ WakeUp(h) \/ GiveUp(h) \/ Leave(h)
MainStep ==
  \/ JoinHelper \/ Unpark \/ MaybeDone \/ TryLock \/ LockedAll \/ Unlock
  \/ StartRound \/ ReleaseHelper \/ Broadcast \/ EndRound \/ Leave(0)

TracerInv ==
  TracerTypes /\ Counted /\ Deques /\ Thieves /\ Tasks /\ Followed /\ Locks /\ Done

-------------------------------------------------------------------------------
(* Cells *)

LEMMA Division ==
  ASSUME NEW s \in Nat \ {0}, NEW x \in Nat
  PROVE  x % s \in 0 .. s - 1 /\ x \div s \in Nat /\ x = s * (x \div s) + (x % s)
  OBVIOUS

LEMMA Multiples ==
  ASSUME NEW s \in Nat \ {0}, NEW q \in Nat, NEW r \in Nat, q < r
  PROVE  s * r - s * q >= s
<1> DEFINE k == r - q - 1
<1>1. k \in Nat /\ r = q + 1 + k
  OBVIOUS
<1>2. s * k >= 0
  BY <1>1
<1>3. s * (q + 1 + k) = s * q + s + s * k
  BY <1>1
<1>4. QED
  BY <1>1, <1>2, <1>3

\* Indexes that are closer than the size of a buffer have cells of their own.
LEMMA CellsApart ==
  ASSUME NEW s \in Nat \ {0}, NEW x \in Nat, NEW y \in Nat, x < y, y - x < s
  PROVE  x % s # y % s
<1> DEFINE q == x \div s
           r == y \div s
           a == x % s
           b == y % s
<1>1. /\ q \in Nat /\ r \in Nat /\ a \in 0 .. s - 1 /\ b \in 0 .. s - 1
      /\ x = s * q + a /\ y = s * r + b
  BY Division
<1> HIDE DEF q, r, a, b
<1>2. SUFFICES ASSUME a = b PROVE FALSE
  BY DEF a, b
<1>3. s * q \in Int /\ s * r \in Int
  BY <1>1
<1>4. s * r > s * q /\ s * r - s * q < s
  BY <1>1, <1>2, <1>3
<1>5. CASE q < r
  BY <1>1, <1>4, <1>5, Multiples
<1>6. CASE q = r
  <2>1. s * q = s * r
    BY <1>6
  <2>2. QED
    BY <1>3, <1>4, <2>1
<1>7. CASE r < q
  BY <1>1, <1>3, <1>4, <1>7, Multiples
<1>8. QED
  BY <1>1, <1>5, <1>6, <1>7

LEMMA Sizes ==
  /\ \A a \in 0 .. MaxBuf : SizeOf(a) \in Nat \ {0}
  /\ \A a \in 0 .. MaxBuf - 1 : SizeOf(a + 1) > SizeOf(a)
<1>1. \A a \in 0 .. MaxBuf : SizeOf(a) \in Nat \ {0}
  BY TracerAssumption DEF SizeOf
<1>2. ASSUME NEW a \in 0 .. MaxBuf - 1 PROVE SizeOf(a + 1) > SizeOf(a)
  <2>1. a + 1 \in 1 .. MaxBuf /\ (a + 1) - 1 = a
    BY TracerAssumption
  <2>2. BufSizes[a + 1] = 2 * BufSizes[a]
    BY <2>1, TracerAssumption
  <2>3. BufSizes[a] \in Nat \ {0}
    BY TracerAssumption
  <2>4. QED
    BY <2>2, <2>3 DEF SizeOf
<1>3. QED
  BY <1>1, <1>2

-------------------------------------------------------------------------------
(* Types *)

LEMMA IdFacts ==
  /\ 0 \in Ids /\ Helpers \subseteq Ids /\ Nobody \notin Ids
  /\ \A h \in Helpers : h \in 1 .. WorkerCount - 1
  /\ \A h \in Ids : h # 0 => h \in Helpers
  BY TracerAssumption DEF Ids, Helpers, Nobody

LEMMA LabelsApart ==
  /\ \A l \in Common \cup {"leave"} : l \in Labels /\ l \notin MainOnly /\ l \notin HelperOnly
  /\ \A l \in MainOnly : l \in Labels /\ l \notin HelperOnly /\ l \notin Common
  /\ \A l \in HelperOnly : l \in Labels /\ l \notin MainOnly /\ l \notin Common
  /\ Out \subseteq HelperOnly
  BY DEF Common, MainOnly, HelperOnly, Out, Labels, InLoop, Popping, Stealing

\* A worker goes to a place where both kinds of worker can be.
LEMMA Moved ==
  ASSUME WhereTypes, NEW w \in Ids, NEW l \in Common \cup {"leave"}, Goto(w, l)
  PROVE  /\ WhereTypes'
         /\ where'[w] = l /\ \A u \in Ids \ {w} : where'[u] = where[u]
<1>1. where' = [where EXCEPT ![w] = l] /\ where \in [Ids -> Labels]
  BY DEF Goto, WhereTypes
<1>2. QED
  BY <1>1, IdFacts, LabelsApart DEF WhereTypes

LEMMA RegWritten ==
  ASSUME RegTypes, NEW w \in Ids, NEW r, IsReg(r), Set(w, r)
  PROVE  RegTypes' /\ reg'[w] = r /\ \A u \in Ids \ {w} : reg'[u] = reg[u]
  BY DEF RegTypes, Set

LEMMA RegClear == IsReg(NoReg)
  BY TracerAssumption DEF NoReg, IsReg
LEMMA RegT ==
  ASSUME NEW r, IsReg(r), NEW t \in Nat
  PROVE  IsReg([r EXCEPT !.t = t]) /\ [r EXCEPT !.t = t].t = t /\ [r EXCEPT !.t = t].x = r.x
  BY DEF IsReg
LEMMA RegA ==
  ASSUME NEW r, IsReg(r), NEW a \in 0 .. MaxBuf
  PROVE  /\ IsReg([r EXCEPT !.a = a]) /\ [r EXCEPT !.a = a].a = a
         /\ [r EXCEPT !.a = a].t = r.t /\ [r EXCEPT !.a = a].x = r.x
  BY DEF IsReg
LEMMA RegX ==
  ASSUME NEW r, IsReg(r), NEW x
  PROVE  IsReg([r EXCEPT !.x = x]) /\ [r EXCEPT !.x = x].x = x /\ [r EXCEPT !.x = x].t = r.t
  BY DEF IsReg
LEMMA RegXT ==
  ASSUME NEW x, NEW t \in Nat
  PROVE  /\ IsReg([NoReg EXCEPT !.x = x, !.t = t])
         /\ [NoReg EXCEPT !.x = x, !.t = t].x = x /\ [NoReg EXCEPT !.x = x, !.t = t].t = t
<1> DEFINE r == [NoReg EXCEPT !.x = x]
<1>1. IsReg(r) /\ r.x = x
  BY RegClear, RegX
<1>2. [NoReg EXCEPT !.x = x, !.t = t] = [r EXCEPT !.t = t]
  OBVIOUS
<1> HIDE DEF r
<1>3. QED
  BY <1>1, <1>2, RegT
LEMMA RegRead ==
  ASSUME NEW r, IsReg(r), NEW x
  PROVE  /\ IsReg([r EXCEPT !.x = x, !.a = 0])
         /\ [r EXCEPT !.x = x, !.a = 0].x = x /\ [r EXCEPT !.x = x, !.a = 0].t = r.t
<1> DEFINE q == [r EXCEPT !.x = x]
<1>1. IsReg(q) /\ q.x = x /\ q.t = r.t
  BY RegX
<1>2. [r EXCEPT !.x = x, !.a = 0] = [q EXCEPT !.a = 0] /\ 0 \in 0 .. MaxBuf
  BY TracerAssumption
<1> HIDE DEF q
<1>3. QED
  BY <1>1, <1>2, RegA

LEMMA Loaded ==
  ASSUME RegTypes, NEW w \in Ids, NEW x, Set(w, [NoReg EXCEPT !.x = x])
  PROVE  reg'[w].x = x /\ \A u \in Ids \ {w} : reg'[u] = reg[u]
<1>1. reg'[w] = [NoReg EXCEPT !.x = x] /\ \A u \in Ids \ {w} : reg'[u] = reg[u]
  BY DEF RegTypes, Set
<1>2. QED
  BY <1>1 DEF NoReg
LEMMA LoadedT ==
  ASSUME RegTypes, NEW w \in Ids, NEW x, NEW t, Set(w, [NoReg EXCEPT !.x = x, !.t = t])
  PROVE  reg'[w].x = x /\ reg'[w].t = t
<1>1. reg'[w] = [NoReg EXCEPT !.x = x, !.t = t]
  BY DEF RegTypes, Set
<1>2. QED
  BY <1>1 DEF NoReg

\* A buffer is written.
Writes(w, a, F) == data' = [data EXCEPT ![w] = [@ EXCEPT ![a] = F]]
LEMMA DataWritten ==
  ASSUME IsData(data), NEW w \in Ids, NEW a \in 0 .. MaxBuf, NEW F, IsBuffer(F, a),
         Writes(w, a, F)
  PROVE  /\ IsData(data')
         /\ data'[w][a] = F
         /\ \A v \in Ids, b \in 0 .. MaxBuf : v # w \/ b # a => data'[v][b] = data[v][b]
<1> DEFINE E == [data[w] EXCEPT ![a] = F]
<1>1. /\ data = [v \in Ids |-> data[v]] /\ IsBuffers(data[w])
      /\ data' = [data EXCEPT ![w] = E]
  BY DEF IsData, Writes
<1>2. data' = [v \in Ids |-> data'[v]] /\ data'[w] = E /\ \A v \in Ids \ {w} : data'[v] = data[v]
  <2> HIDE DEF E
  <2>1. QED
    BY <1>1
<1>3. /\ E = [b \in 0 .. MaxBuf |-> E[b]]
      /\ E[a] = F /\ \A b \in (0 .. MaxBuf) \ {a} : E[b] = data[w][b]
  BY <1>1 DEF IsBuffers
<1> HIDE DEF E
<1>4. IsBuffers(E)
  BY <1>1, <1>3 DEF IsBuffers
<1>5. IsData(data')
  BY <1>2, <1>4 DEF IsData
<1>6. QED
  BY <1>2, <1>3, <1>5

LEMMA TypesPush ==
  ASSUME TracerTypes, NEW w \in Ids, Deque(w),
         PushStep(w)
  PROVE  TracerTypes'
<1> USE DEF PushStep, dequeVars, syncVars, workVars, tracerHeapVars, ctlVars
<1>1. TraceTypes' /\ ControlTypes' /\ StealTypes'
  BY DEF PushTop, PushGrow, PushPut, PushBottom, TracerTypes, TraceTypes, ControlTypes, StealTypes
<1>2. {"pushPut", "pushBottom", "visit"} \subseteq Common
  BY DEF Common, InLoop
<1>3. WhereTypes'
  BY <1>2, Moved DEF PushTop, PushGrow, PushPut, PushBottom, TracerTypes, WhereTypes
<1>4. RegTypes'
  <2>1. CASE PushTop(w)
    BY <2>1, RegT, RegWritten DEF PushTop, TracerTypes, DequeTypes, RegTypes
  <2>2. CASE PushGrow(w)
    <3>1. IsReg(reg[w]) /\ bottom[w] \in Nat
      BY <2>2 DEF PushGrow, TracerTypes, DequeTypes, RegTypes, IsReg, Deque
    <3>2. QED
      BY <2>2, <3>1, RegT, RegWritten DEF PushGrow, TracerTypes
  <2>3. CASE PushPut(w)
    BY <2>3, RegClear, RegWritten DEF PushPut, TracerTypes, ClearReg
  <2>4. CASE PushBottom(w)
    BY <2>4 DEF PushBottom, TracerTypes, RegTypes
  <2>5. QED
    BY <2>1, <2>2, <2>3, <2>4
<1>5. DequeTypes'
  <2>1. CASE PushTop(w)
    BY <2>1 DEF PushTop, TracerTypes, DequeTypes
  <2>2. CASE PushGrow(w)
    <3>1. buf[w] + 1 \in 0 .. MaxBuf /\ buf' = [buf EXCEPT ![w] = @ + 1]
      BY <2>2, TracerAssumption DEF PushGrow, TracerTypes, DequeTypes
    <3>2. PICK F : /\ IsBuffer(F, buf[w] + 1)
                   /\ data' = [data EXCEPT ![w] = [@ EXCEPT ![buf[w] + 1] = F]]
      <4> DEFINE G == [i \in 0 .. SizeOf(buf[w] + 1) - 1 |->
          LET S == {k \in reg[w].t .. bottom[w] - 1 : k % SizeOf(buf[w] + 1) = i}
          IN  IF S = {} THEN NoElement ELSE Get(w, buf[w], Max(S))]
      <4>1. data' = [data EXCEPT ![w][buf[w] + 1] = G]
        BY <2>2 DEF PushGrow
      <4>2. IsBuffer(G, buf[w] + 1)
        BY DEF IsBuffer
      <4>3. QED
        BY <4>1, <4>2
    <3>3. IsData(data)
      BY DEF TracerTypes, DequeTypes
    <3>4. IsData(data')
      BY <3>1, <3>2, <3>3, DataWritten DEF Writes
    <3>5. QED
      BY <2>2, <3>1, <3>4 DEF PushGrow, TracerTypes, DequeTypes
  <2>3. CASE PushPut(w)
    <3>1. IsData(data')
      <4> DEFINE F == [data[w][buf[w]] EXCEPT ![bottom[w] % SizeOf(buf[w])] = reg[w].x]
      <4>1. data' = [data EXCEPT ![w] = [@ EXCEPT ![buf[w]] = F]]
        BY <2>3 DEF PushPut, Put
      <4>2. IsData(data) /\ buf[w] \in 0 .. MaxBuf
        BY DEF TracerTypes, DequeTypes
      <4>3. IsBuffer(data[w][buf[w]], buf[w])
        BY <4>2 DEF IsData, IsBuffers
      <4>4. IsBuffer(F, buf[w])
        BY <4>3 DEF IsBuffer
      <4>5. QED
        BY <4>1, <4>2, <4>4, DataWritten DEF Writes
    <3>2. QED
      BY <2>3, <3>1 DEF PushPut, TracerTypes, DequeTypes
  <2>4. CASE PushBottom(w)
    BY <2>4 DEF PushBottom, TracerTypes, DequeTypes
  <2>5. QED
    BY <2>1, <2>2, <2>3, <2>4
<1>6. QED
  BY <1>1, <1>3, <1>4, <1>5 DEF TracerTypes

LEMMA TypesPop ==
  ASSUME TracerTypes, NEW w \in Ids,
         PopStep(w)
  PROVE  TracerTypes'
<1> USE DEF PopStep, dequeVars, syncVars, workVars, tracerHeapVars, ctlVars
<1>1. TraceTypes' /\ ControlTypes'
  BY DEF PopBottom, PopTop, PopCas, PopRestore, TracerTypes, TraceTypes, ControlTypes
<1>2. StealTypes'
  BY DEF PopBottom, PopTop, PopCas, PopRestore, TracerTypes, StealTypes
<1>3. {"popTop", "popCas", "popRestore", "trace", "steal"} \subseteq Common
  BY DEF Common, Popping
<1>4. WhereTypes'
  BY <1>3, Moved DEF PopBottom, PopTop, PopCas, PopRestore, TracerTypes, WhereTypes
<1>5. DequeTypes'
  BY DEF PopBottom, PopTop, PopCas, PopRestore, TracerTypes, DequeTypes
<1>6. RegTypes'
  <2>1. CASE PopBottom(w)
    BY <2>1 DEF PopBottom, TracerTypes, RegTypes
  <2>2. CASE PopTop(w)
    BY <2>2, RegClear, RegX, RegXT, RegWritten DEF PopTop, TracerTypes, DequeTypes, ClearReg
  <2>3. CASE PopCas(w)
    BY <2>3, RegClear, RegX, RegWritten DEF PopCas, TracerTypes, ClearReg
  <2>4. CASE PopRestore(w)
    BY <2>4 DEF PopRestore, TracerTypes, RegTypes
  <2>5. QED
    BY <2>1, <2>2, <2>3, <2>4
<1>7. QED
  BY <1>1, <1>2, <1>4, <1>5, <1>6 DEF TracerTypes

LEMMA TypesSteal ==
  ASSUME TracerTypes, NEW w \in Ids,
         StealStep(w)
  PROVE  TracerTypes'
<1> USE DEF StealStep, dequeVars, syncVars, workVars, tracerHeapVars, ctlVars
<1>1. TraceTypes' /\ ControlTypes'
  BY DEF StealTop, StealBottom, StealBuf, StealGet, StealCas, TracerTypes, TraceTypes, ControlTypes
<1>2. StealTypes'
  <2>1. CASE StealBottom(w)
    <3>1. stealId[w] \in Nat /\ WorkerCount \in Nat \ {0}
      BY TracerAssumption DEF TracerTypes, StealTypes, Ids
    <3>2. (stealId[w] + 1) % WorkerCount \in Ids
      BY <3>1, Division DEF Ids
    <3>3. QED
      BY <2>1, <3>2 DEF StealBottom, TracerTypes, StealTypes
  <2>2. QED
    BY <2>1 DEF StealTop, StealBuf, StealGet, StealCas, TracerTypes, StealTypes
<1>3. {"stealBottom", "stealBuf", "stealGet", "stealCas", "steal", "trace"} \subseteq Common
  BY DEF Common, Stealing
<1>4. WhereTypes'
  BY <1>3, Moved DEF StealTop, StealBottom, StealBuf, StealGet, StealCas, TracerTypes, WhereTypes
<1>5. DequeTypes'
  BY DEF StealTop, StealBottom, StealBuf, StealGet, StealCas, TracerTypes, DequeTypes, StealTypes
<1>6. RegTypes'
  <2>1. CASE StealTop(w)
    BY <2>1, RegClear, RegT, RegWritten DEF StealTop, TracerTypes, DequeTypes, StealTypes
  <2>2. CASE StealBottom(w)
    BY <2>2, RegClear, RegWritten DEF StealBottom, TracerTypes, RegTypes, ClearReg
  <2>3. CASE StealBuf(w)
    BY <2>3, RegA, RegWritten DEF StealBuf, TracerTypes, RegTypes, DequeTypes, StealTypes
  <2>4. CASE StealGet(w)
    <3> DEFINE r == [reg[w] EXCEPT !.x = Get(stealId[w], reg[w].a, reg[w].t), !.a = 0]
    <3>1. IsReg(r)
      BY RegRead DEF TracerTypes, RegTypes
    <3>2. Set(w, r)
      BY <2>4 DEF StealGet
    <3> HIDE DEF r
    <3>3. QED
      BY <3>1, <3>2, RegWritten DEF TracerTypes
  <2>5. CASE StealCas(w)
    BY <2>5, RegClear, RegX, RegWritten DEF StealCas, TracerTypes, ClearReg
  <2>6. QED
    BY <2>1, <2>2, <2>3, <2>4, <2>5
<1>7. QED
  BY <1>1, <1>2, <1>4, <1>5, <1>6 DEF TracerTypes

LEMMA RootsType ==
  ASSUME round \in 0 .. Len(Rounds)
  PROVE  /\ Roots \in Seq(HeapObjects)
         /\ \A q \in 1 .. Len(Rounds) : Rounds[q].roots \in Seq(HeapObjects) /\ Rounds[q].only \in BOOLEAN
<1>1. \A q \in 1 .. Len(Rounds) : Rounds[q] \in [roots : Seq(HeapObjects), only : BOOLEAN]
  BY TracerAssumption, ElementOfSeq
<1>2. <<>> \in Seq(HeapObjects)
  OBVIOUS
<1>3. Len(Rounds) \in Nat
  BY TracerAssumption, LenProperties
<1>4. QED
  BY <1>1, <1>2, <1>3 DEF Roots

LEMMA TypesTrace ==
  ASSUME TracerTypes, NEW w \in Ids,
         TraceStep(w),
         At(w, "trace") => ToDo(reg[w].x)
  PROVE  TracerTypes'
<1> USE DEF TraceStep, dequeVars, syncVars, workVars, tracerHeapVars, ctlVars
<1>1. DequeTypes' /\ StealTypes'
  BY DEF Start, TakeRoot, Visit, Visited, TraceOne, TracerTypes, DequeTypes, StealTypes
<1>2. ControlTypes'
  BY DEF Start, TakeRoot, Visit, Visited, TraceOne, TracerTypes, ControlTypes
<1>3. RegTypes'
  <2>1. CASE Visit(w)
    BY <2>1, RegClear, RegX, RegWritten DEF Visit, TracerTypes, RegTypes
  <2>2. CASE TraceOne(w)
    BY <2>2, RegClear, RegWritten DEF TraceOne, TracerTypes, ClearReg
  <2>3. QED
    BY <2>1, <2>2 DEF Start, TakeRoot, Visited, TracerTypes, RegTypes
<1>4. WhereTypes'
  <2>1. {"roots", "visit", "push", "pop", "leave"} \subseteq Common \cup {"leave"}
    BY DEF Common, InLoop
  <2>3. CASE TakeRoot(w) /\ Goto(w, "join") /\ w = 0
    BY <2>3, IdFacts DEF Goto, TracerTypes, WhereTypes, HelperOnly, Labels, MainOnly, Out, Helpers
  <2>4. CASE Visited(w) /\ Goto(w, "unpark") /\ w = 0
    BY <2>4, IdFacts DEF Goto, TracerTypes, WhereTypes, HelperOnly, Labels, MainOnly, Out, Helpers
  <2>5. CASE Visit(w)
    BY <2>1, <2>5, Moved DEF Visit, TracerTypes, WhereTypes
  <2>6. CASE Start(w) \/ TraceOne(w)
    BY <2>1, <2>6, Moved DEF Start, TraceOne, TracerTypes
  <2>7. CASE TakeRoot(w) /\ ~(Goto(w, "join") /\ w = 0)
    BY <2>1, <2>7, Moved DEF TakeRoot, TracerTypes
  <2>8. CASE Visited(w) /\ ~(Goto(w, "unpark") /\ w = 0)
    BY <2>1, <2>8, Moved DEF Visited, TracerTypes
  <2>9. QED
    BY <2>3, <2>4, <2>5, <2>6, <2>7, <2>8
<1>5. TraceTypes'
  <2>1. CASE TakeRoot(w)
    <3>1. read < Len(Roots) =>
            Roots[read + 1] \in HeapObjects /\ <<Roots[read + 1]>> \in Seq(HeapObjects)
      BY RootsType, ElementOfSeq DEF TracerTypes, ControlTypes
    <3>2. toTrace' \in [Ids -> Seq(HeapObjects)]
      BY <2>1, <3>1 DEF TakeRoot, TracerTypes, TraceTypes
    <3>3. QED
      BY <2>1, <3>2 DEF TakeRoot, TracerTypes, TraceTypes
  <2>2. CASE Visit(w)
    <3>1. /\ toTrace[w] \in Seq(HeapObjects) /\ toTrace[w] # <<>>
          /\ toTrace' = [toTrace EXCEPT ![w] = Tail(toTrace[w])]
      BY <2>2 DEF Visit, TracerTypes, TraceTypes
    <3>2. Head(toTrace[w]) \in HeapObjects /\ Tail(toTrace[w]) \in Seq(HeapObjects)
      BY <3>1
    <3>3. toTrace' \in [Ids -> Seq(HeapObjects)]
      BY <3>1, <3>2 DEF TracerTypes, TraceTypes
    <3>4. QED
      BY <2>2, <3>2, <3>3 DEF Visit, TracerTypes, TraceTypes
  <2>3. CASE TraceOne(w)
    <3>1. reg[w].x \in marked /\ reg[w].x \in HeapObjects /\ traced[reg[w].x] = 0
      BY <2>3 DEF TraceOne, ToDo, TracerTypes, TraceTypes
    <3>2. /\ traced' = [traced EXCEPT ![reg[w].x] = 1]
          /\ toTrace' = [toTrace EXCEPT ![w] = edges[reg[w].x]]
          /\ UNCHANGED <<edges, marked>>
      BY <2>3, <3>1 DEF TraceOne
    <3>3. QED
      BY <3>1, <3>2 DEF TracerTypes, TraceTypes
  <2>4. QED
    BY <2>1, <2>2, <2>3 DEF Start, Visited, TracerTypes, TraceTypes
<1>6. QED
  BY <1>1, <1>2, <1>3, <1>4, <1>5 DEF TracerTypes

LEMMA TypesHelper ==
  ASSUME TracerTypes, NEW h \in Helpers,
         HelperStep(h)
  PROVE  TracerTypes'
<1> USE DEF HelperStep, dequeVars, syncVars, workVars, tracerHeapVars, ctlVars
<1>1. DequeTypes' /\ StealTypes' /\ RegTypes' /\ TraceTypes'
  BY DEF TakeLock, Look, Park, WakeUp, GiveUp, Leave, TracerTypes, DequeTypes, StealTypes, RegTypes, TraceTypes
<1>2. ControlTypes'
  BY IdFacts DEF TakeLock, Look, Park, WakeUp, GiveUp, Leave, TracerTypes, ControlTypes
<1>3. WhereTypes'
  <2>1. {"look", "start", "park", "waiting", "leave"} \subseteq Labels \ MainOnly
    BY DEF Labels, MainOnly, HelperOnly, Common, Out
  <2>2. h \in Ids /\ h # 0
    BY IdFacts DEF Helpers
  <2>3. QED
    BY <2>1, <2>2, IdFacts
       DEF TakeLock, Look, Park, WakeUp, GiveUp, Leave, Goto, TracerTypes, WhereTypes
<1>4. QED
  BY <1>1, <1>2, <1>3 DEF TracerTypes

LEMMA TypesMain ==
  ASSUME TracerTypes, Locks, MainStep
  PROVE  TracerTypes'
<1> USE DEF dequeVars, syncVars, workVars, tracerHeapVars, ctlVars
<1>1. DequeTypes' /\ RegTypes' /\ TraceTypes'
  BY DEF MainStep, JoinHelper, Unpark, MaybeDone, TryLock, LockedAll, Unlock, StartRound,
         ReleaseHelper, Broadcast, EndRound, Leave, TracerTypes, DequeTypes, RegTypes, TraceTypes
<1>2. StealTypes'
  <2>1. CASE StartRound
    <3>1. WorkerCount \in Nat \ {0} /\ \A w \in Ids : (w + 1) % WorkerCount \in Ids
      <4>1. WorkerCount \in Nat \ {0}
        BY TracerAssumption
      <4>2. ASSUME NEW w \in Ids PROVE (w + 1) % WorkerCount \in Ids
        <5>1. w + 1 \in Nat
          BY <4>1 DEF Ids
        <5>2. QED
          BY <4>1, <5>1, Division DEF Ids
      <4>3. QED
        BY <4>1, <4>2
    <3>2. QED
      BY <2>1, <3>1 DEF StartRound, TracerTypes, StealTypes
  <2>2. QED
    BY <2>1 DEF MainStep, JoinHelper, Unpark, MaybeDone, TryLock, LockedAll, Unlock,
           ReleaseHelper, Broadcast, EndRound, Leave, TracerTypes, StealTypes
<1>3. WhereTypes'
  <2>1. ASSUME NEW l \in (MainOnly \cup Common \cup {"leave"}), Goto(0, l)
        PROVE  WhereTypes'
    BY <2>1, IdFacts, LabelsApart DEF Goto, TracerTypes, WhereTypes, Helpers
  <2>2. {"leave", "unlock", "wakeAgain", "pop", "tryLock", "ended", "release", "wake", "start",
         "mutating"} \subseteq MainOnly \cup Common \cup {"leave"}
    BY DEF MainOnly, Common
  <2>3. CASE where' = where
    BY <2>3 DEF TracerTypes, WhereTypes
  <2>4. QED
    BY <2>1, <2>2, <2>3
       DEF MainStep, JoinHelper, Unpark, MaybeDone, TryLock, LockedAll, Unlock, StartRound,
           ReleaseHelper, Broadcast, EndRound, Leave
<1>4. ControlTypes'
  <2>1. WorkerCount \in Nat \ {0} /\ Nobody \notin Ids /\ 0 \in Ids
    BY IdFacts, TracerAssumption
  <2>2. CASE JoinHelper
    BY <2>1, <2>2 DEF JoinHelper, TracerTypes, ControlTypes
  <2>3. CASE TryLock
    BY <2>1, <2>3 DEF TryLock, TracerTypes, ControlTypes
  <2>4. CASE Unlock
    BY <2>1, <2>4 DEF Unlock, TracerTypes, ControlTypes
  <2>5. CASE StartRound
    <3>1. Len(Rounds) \in Nat
      BY TracerAssumption, LenProperties
    <3>2. QED
      BY <2>5, <3>1 DEF StartRound, TracerTypes, ControlTypes
  <2>6. CASE ReleaseHelper
    BY <2>1, <2>6 DEF ReleaseHelper, TracerTypes, ControlTypes
  <2>7. CASE EndRound
    BY <2>1, <2>7 DEF EndRound, TracerTypes, ControlTypes
  <2>8. QED
    BY <2>2, <2>3, <2>4, <2>5, <2>6, <2>7
       DEF MainStep, Unpark, MaybeDone, LockedAll, Broadcast, Leave, TracerTypes, ControlTypes
<1>5. QED
  BY <1>1, <1>2, <1>3, <1>4 DEF TracerTypes

-------------------------------------------------------------------------------
(* Counting *)

LEMMA IdsFinite == IsFiniteSet(Ids)
<1>1. 0 \in Int /\ WorkerCount - 1 \in Int
  BY TracerAssumption
<1>2. IsFiniteSet(0 .. WorkerCount - 1)
  BY <1>1, FS_Interval, Zenon
<1>3. QED
  BY <1>2, Zenon DEF Ids

LEMMA CountStep ==
  ASSUME WhereTypes, Counted, NEW w \in Ids, \A u \in Ids \ {w} : where'[u] = where[u],
         activeTracers' = activeTracers + (IF where'[w] \notin Idle THEN 1 ELSE 0)
                                        - (IF where[w] \notin Idle THEN 1 ELSE 0)
  PROVE  Counted'
<1>1. IsFiniteSet(Tracing) /\ Cardinality(Tracing) \in Nat
  <2>1. IsFiniteSet(Ids)
    BY IdsFinite
  <2>2. Tracing \subseteq Ids
    BY DEF Tracing
  <2>3. QED
    BY <2>1, <2>2, FS_Subset, FS_CardinalityType
<1>2. w \in Tracing <=> where[w] \notin Idle
  BY DEF Tracing
<1>3. CASE where'[w] \notin Idle
  <2>1. Tracing' = Tracing \cup {w}
    BY <1>3 DEF Tracing
  <2>2. Cardinality(Tracing \cup {w}) =
          IF w \in Tracing THEN Cardinality(Tracing) ELSE Cardinality(Tracing) + 1
    BY <1>1, FS_AddElement
  <2>3. QED
    BY <1>1, <1>2, <1>3, <2>1, <2>2 DEF Counted
<1>4. CASE where'[w] \in Idle
  <2>1. Tracing' = Tracing \ {w}
    BY <1>4 DEF Tracing
  <2>2. Cardinality(Tracing \ {w}) =
          IF w \in Tracing THEN Cardinality(Tracing) - 1 ELSE Cardinality(Tracing)
    BY <1>1, FS_RemoveElement
  <2>3. QED
    BY <1>1, <1>2, <1>4, <2>1, <2>2 DEF Counted
<1>5. QED
  BY <1>3, <1>4

-------------------------------------------------------------------------------
(* Locks, and the rounds *)

\* What the steps on the deques have in common.
LEMMA DequeStep ==
  ASSUME TracerTypes, NEW w \in Ids, PushStep(w) \/ PopStep(w) \/ StealStep(w)
  PROVE  /\ where[w] \in Common \ {"start", "roots"}
         /\ where'[w] \in Common \ {"start", "roots"}
         /\ \A u \in Ids \ {w} : where'[u] = where[u]
         /\ PushStep(w) => where'[w] \in InLoop
         /\ ~PushStep(w) => where[w] \notin InLoop
         /\ UNCHANGED <<activeTracers, lock, locked, round, edges, marked, traced, toTrace, rooting,
                        read>>
<1> USE DEF Goto, At, dequeVars, syncVars, workVars, tracerHeapVars, ctlVars, TracerTypes, WhereTypes
<1>1. CASE PushStep(w)
  BY <1>1 DEF PushStep, PushTop, PushGrow, PushPut, PushBottom, Common, InLoop
<1>2. CASE PopStep(w)
  BY <1>2 DEF PopStep, PopBottom, PopTop, PopCas, PopRestore, Common, InLoop, Popping,
              PushStep, PushTop, PushGrow, PushPut, PushBottom
<1>3. CASE StealStep(w)
  BY <1>3 DEF StealStep, StealTop, StealBottom, StealBuf, StealGet, StealCas, Common, InLoop, Stealing,
              PushStep, PushTop, PushGrow, PushPut, PushBottom
<1>4. QED
  BY <1>1, <1>2, <1>3

\* While worker 0 has every lock, no helper is in the heap.
LEMMA AllOut ==
  ASSUME TracerTypes, Locks, where[0] \in Alone
  PROVE  \A h \in Helpers : where[h] \in Out
  BY IdFacts DEF Locks, Helpers

\* A worker that goes on working takes no lock and gives none back.
LEMMA LocksWork ==
  ASSUME TracerTypes, Locks, Done, NEW w \in Ids,
         where[w] \in Common, where'[w] \in Common \cup {"leave"},
         w = 0 => where'[w] # "leave",
         \A u \in Ids \ {w} : where'[u] = where[u],
         UNCHANGED <<lock, locked, round>>
  PROVE  Locks' /\ Done'
<1>1. /\ where[w] \notin Alone \cup Out \cup {"release", "tryLock", "join", "unlock"}
      /\ where'[w] \notin Out \cup {"release", "tryLock", "join", "unlock", "mutating", "ended"}
      /\ w = 0 => where'[w] \notin Alone
  BY DEF Common, InLoop, Popping, Stealing, Alone, Out
<1>2. Locks'
  <2>1. \A h \in Helpers : where'[h] \notin Out => where[h] \notin Out
    BY <1>1, IdFacts
  <2>2. where'[0] = where[0] \/ w = 0
    BY IdFacts
  <2>3. CASE w = 0
    BY <1>1, <2>1, <2>3 DEF Locks, Alone, At
  <2>4. CASE w # 0
    BY <2>1, <2>2, <2>4 DEF Locks, At
  <2>5. QED
    BY <2>3, <2>4
<1>3. where'[0] \notin Alone
  <2>1. CASE w = 0
    BY <1>1, <2>1
  <2>2. CASE w # 0
    BY <1>1, <2>2, AllOut, IdFacts
  <2>3. QED
    BY <2>1, <2>2
<1>4. Done'
  <2>1. CASE w = 0
    BY <1>1, <1>3, <2>1 DEF Done, At, Alone
  <2>2. CASE w # 0
    BY <1>3, <2>2, IdFacts DEF Done, At
  <2>3. QED
    BY <2>1, <2>2
<1>5. QED
  BY <1>2, <1>4

LEMMA LocksTrace ==
  ASSUME TracerTypes, Locks, Done, NEW w \in Ids, TraceStep(w)
  PROVE  Locks' /\ Done'
<1> USE DEF dequeVars, syncVars, workVars, tracerHeapVars, ctlVars
<1>1. UNCHANGED <<lock, locked, round>> /\ where[w] \in Common
      /\ \A u \in Ids \ {w} : where'[u] = where[u]
  BY DEF TraceStep, Start, TakeRoot, Visit, Visited, TraceOne, At, Goto, Common, InLoop,
         TracerTypes, WhereTypes
<1>2. CASE where'[w] \in Common
  <2>1. "leave" \notin Common
    BY DEF Common, InLoop, Popping, Stealing
  <2>2. QED
    BY <1>1, <1>2, <2>1, LocksWork
<1>3. CASE w # 0 /\ where'[w] = "leave"
  BY <1>1, <1>3, LocksWork
<1>4. CASE w = 0 /\ (where'[w] = "unpark" \/ (where'[w] = "join" /\ Rounds[round].only))
  <2>1. \A h \in Helpers : where'[h] = where[h]
    BY <1>1, <1>4, IdFacts DEF Helpers
  <2>2. locked = 1 /\ round > 0
    BY <1>1, <1>4 DEF Locks, Done, At, Common, InLoop, Popping, Stealing
  <2>3. Locks'
    BY <1>1, <1>4, <2>1, <2>2, IdFacts DEF Locks, At, Alone
  <2>4. Done'
    BY <1>1, <1>4, <2>2 DEF Done, At, Alone
  <2>5. QED
    BY <2>3, <2>4
<1>5. \/ where'[w] \in Common
      \/ w # 0 /\ where'[w] = "leave"
      \/ w = 0 /\ (where'[w] = "unpark" \/ (where'[w] = "join" /\ Rounds[round].only))
  BY <1>1 DEF TraceStep, Start, TakeRoot, Visit, Visited, TraceOne, At, Goto, Common, InLoop,
              TracerTypes, WhereTypes
<1>6. QED
  BY <1>2, <1>3, <1>4, <1>5

LEMMA LocksHelper ==
  ASSUME TracerTypes, Locks, Done, NEW h \in Helpers, HelperStep(h)
  PROVE  Locks' /\ Done'
<1> USE DEF dequeVars, syncVars, workVars, tracerHeapVars, ctlVars
<1>1. /\ h \in Ids /\ h # 0 /\ where'[0] = where[0]
      /\ \A u \in Helpers \ {h} : where'[u] = where[u]
      /\ UNCHANGED <<locked, round, bottom, top>>
  BY IdFacts DEF HelperStep, TakeLock, Look, Park, WakeUp, GiveUp, Leave, At, Goto,
     TracerTypes, WhereTypes, Helpers
<1>2. \A u \in Helpers \ {h} : lock'[u] = lock[u]
  BY DEF HelperStep, TakeLock, Look, Park, WakeUp, GiveUp, Leave, TracerTypes, ControlTypes
<1>3. /\ where'[h] \notin Out => lock'[h] = h
      /\ lock[h] = 0 => lock'[h] = 0
  <2>1. h # Nobody /\ 0 # Nobody
    BY IdFacts
  <2>2. CASE TakeLock(h)
    BY <2>1, <2>2 DEF TakeLock, Goto, TracerTypes, ControlTypes
  <2>3. CASE Park(h)
    <3>1. where'[h] = "waiting" /\ where[h] = "park"
      BY <1>1, <2>3 DEF Park, Goto, At, TracerTypes, WhereTypes
    <3>2. lock[h] = h
      BY <3>1 DEF Locks, Out
    <3>3. QED
      BY <1>1, <3>1, <3>2 DEF Out
  <2>4. CASE WakeUp(h)
    BY <2>4 DEF WakeUp, Locks
  <2>5. CASE Look(h) \/ GiveUp(h) \/ Leave(h)
    BY <1>1, <2>5 DEF Look, GiveUp, Leave, At, Out, Locks
  <2>6. QED
    BY <2>2, <2>3, <2>4, <2>5 DEF HelperStep
<1>4. Locks'
  BY <1>1, <1>2, <1>3 DEF Locks, At
<1>5. Done'
  BY <1>1 DEF Done, At
<1>6. QED
  BY <1>4, <1>5

\* What the worker that collects finds when it has every lock.
LEMMA EmptyWhenRobbed ==
  ASSUME TracerTypes, \A v \in Ids : ~CanBeRobbed(v)
  PROVE  \A v \in Ids : bottom[v] <= top[v]
  BY DEF CanBeRobbed, TracerTypes, DequeTypes

LEMMA LocksMain ==
  ASSUME TracerTypes, Locks, Done, MainStep
  PROVE  Locks' /\ Done'
<1> USE DEF dequeVars, syncVars, workVars, tracerHeapVars, ctlVars
<1>1. /\ \A h \in Helpers : where'[h] = where[h]
      /\ WorkerCount \in Nat \ {0} /\ locked \in 1 .. WorkerCount
      /\ \A h \in Helpers : h \in 1 .. WorkerCount - 1
      /\ UNCHANGED <<bottom, top>>
  BY IdFacts, TracerAssumption
     DEF MainStep, JoinHelper, Unpark, MaybeDone, TryLock, LockedAll, Unlock, StartRound,
         ReleaseHelper, Broadcast, EndRound, Leave, Goto, TracerTypes, WhereTypes, ControlTypes, Helpers
<1>2. where \in [Ids -> Labels] /\ lock \in [Helpers -> Ids \cup {Nobody}] /\ 0 \in Ids /\ Nobody # 0
      /\ where[0] \notin Out
  BY IdFacts DEF TracerTypes, WhereTypes, ControlTypes, HelperOnly
<1>3. CASE JoinHelper
  <2>1. \A h \in Helpers : lock'[h] = 0 \/ (lock'[h] = lock[h] /\ h # locked)
        \/ (lock'[h] = lock[h] /\ locked' = locked)
    BY <1>1, <1>2, <1>3 DEF JoinHelper
  <2>2. \A h \in Helpers : where'[h] \notin Out => lock'[h] = h
    BY <1>1, <1>2, <1>3, IdFacts DEF JoinHelper, Locks
  <2>3. Locks'
    <3>1. CASE locked < WorkerCount /\ lock' = [lock EXCEPT ![locked] = 0]
               /\ locked' = locked + 1 /\ where' = where
      BY <1>1, <1>2, <1>3, <2>2, <3>1 DEF JoinHelper, Locks, At, Alone
    <3>2. CASE locked = WorkerCount /\ Goto(0, "leave") /\ UNCHANGED <<lock, locked>>
      BY <1>1, <1>2, <1>3, <2>2, <3>2 DEF JoinHelper, Locks, At, Alone, Goto
    <3>3. QED
      BY <1>3, <3>1, <3>2 DEF JoinHelper
  <2>4. Done'
    BY <1>1, <1>2, <1>3 DEF JoinHelper, Done, At, Alone, Goto
  <2>5. QED
    BY <2>3, <2>4
<1>4. CASE TryLock
  <2>1. \A h \in Helpers : where'[h] \notin Out => lock'[h] = h
    BY <1>1, <1>2, <1>4, IdFacts DEF TryLock, Locks
  <2>2. Locks'
    <3>1. CASE lock' = [lock EXCEPT ![locked] = 0] /\ locked' = locked + 1 /\ where' = where
      BY <1>1, <1>2, <1>4, <2>1, <3>1 DEF TryLock, Locks, At, Alone
    <3>2. CASE Goto(0, "unlock") /\ UNCHANGED <<lock, locked>>
      BY <1>1, <1>2, <1>4, <2>1, <3>2 DEF TryLock, Locks, At, Alone, Goto
    <3>3. QED
      BY <1>4, <3>1, <3>2 DEF TryLock
  <2>3. Done'
    BY <1>1, <1>2, <1>4 DEF TryLock, Done, At, Alone, Goto
  <2>4. QED
    BY <2>2, <2>3
<1>5. CASE LockedAll
  <2>1. UNCHANGED <<lock, locked, round>> /\ At(0, "tryLock") /\ locked = WorkerCount
    BY <1>5 DEF LockedAll
  <2>2. CASE where'[0] = "unlock"
    BY <1>1, <1>2, <2>1, <2>2 DEF Locks, Done, At, Alone
  <2>3. CASE where'[0] = "leave" /\ \A v \in Ids : ~CanBeRobbed(v)
    <3>1. Locks'
      BY <1>1, <1>2, <2>1, <2>3 DEF Locks, At, Alone
    <3>2. Done'
      BY <1>1, <1>2, <2>1, <2>3, EmptyWhenRobbed DEF Done, At, Alone
    <3>3. QED
      BY <3>1, <3>2
  <2>4. QED
    BY <1>2, <1>5, <2>2, <2>3 DEF LockedAll, Goto
<1>6. CASE Unlock
  <2>1. CASE locked > 1 /\ lock' = [lock EXCEPT ![locked - 1] = Nobody]
             /\ locked' = locked - 1 /\ where' = where
    <3>1. ASSUME NEW h \in Helpers, where[h] \notin Out PROVE lock'[h] = h
      <4>1. lock[h] = h /\ h # 0 /\ h # locked - 1
        BY <1>1, <1>6, <2>1, <3>1 DEF Unlock, Locks, At, Helpers
      <4>2. QED
        BY <1>2, <2>1, <4>1
    <3>2. \A h \in Helpers : h < locked - 1 => lock'[h] = 0
      BY <1>1, <1>2, <1>6, <2>1 DEF Unlock, Locks, At
    <3>3. Locks'
      BY <1>1, <1>2, <1>6, <2>1, <3>1, <3>2 DEF Unlock, Locks, At, Alone
    <3>4. Done'
      BY <1>6, <2>1 DEF Unlock, Done, At, Alone
    <3>5. QED
      BY <3>3, <3>4
  <2>2. CASE locked = 1 /\ Goto(0, "pop") /\ UNCHANGED <<lock, locked>>
    BY <1>1, <1>2, <1>6, <2>2 DEF Unlock, Locks, Done, At, Alone, Goto
  <2>3. QED
    BY <1>6, <2>1, <2>2 DEF Unlock
<1>7. CASE ReleaseHelper
  <2>1. CASE locked <= WorkerCount - 1 /\ lock' = [lock EXCEPT ![locked] = Nobody]
             /\ locked' = locked + 1 /\ UNCHANGED where
    <3>1. ASSUME NEW h \in Helpers, where[h] \notin Out PROVE lock'[h] = h
      <4>1. lock[h] = h /\ h # 0 /\ h # locked
        BY <1>1, <1>7, <2>1, <3>1 DEF ReleaseHelper, Locks, Helpers
      <4>2. QED
        BY <1>2, <2>1, <4>1
    <3>2. \A h \in Helpers : h >= locked + 1 => lock'[h] = 0
      BY <1>1, <1>2, <1>7, <2>1 DEF ReleaseHelper, Locks
    <3>3. Locks'
      BY <1>1, <1>2, <1>7, <2>1, <3>1, <3>2 DEF ReleaseHelper, Locks, At, Alone
    <3>4. Done'
      BY <1>7, <2>1 DEF ReleaseHelper, Done, At, Alone
    <3>5. QED
      BY <3>3, <3>4
  <2>2. CASE locked' = 1 /\ Goto(0, "wake") /\ UNCHANGED lock
    BY <1>1, <1>2, <1>7, <2>2 DEF ReleaseHelper, Locks, Done, At, Alone, Goto
  <2>3. QED
    BY <1>7, <2>1, <2>2 DEF ReleaseHelper
<1>8. CASE StartRound
  BY <1>1, <1>2, <1>8 DEF StartRound, Locks, Done, At, Alone, Goto, TracerTypes, ControlTypes
<1>9. CASE EndRound
  BY <1>1, <1>2, <1>9 DEF EndRound, Locks, Done, At, Alone, Goto
<1>10. CASE Leave(0)
  BY <1>1, <1>2, <1>10 DEF Leave, Locks, Done, At, Alone, Goto
<1>11. CASE Broadcast
  BY <1>1, <1>2, <1>11 DEF Broadcast, Locks, Done, At, Alone, Goto
<1>12. CASE Unpark \/ MaybeDone
  BY <1>1, <1>2, <1>12 DEF Unpark, MaybeDone, Locks, Done, At, Alone, Goto
<1>13. QED
  BY <1>3, <1>4, <1>5, <1>6, <1>7, <1>8, <1>9, <1>10, <1>11, <1>12 DEF MainStep

-------------------------------------------------------------------------------
LEMMA CountedNext ==
  ASSUME TracerTypes, Counted, NEW w \in Ids,
         PushStep(w) \/ PopStep(w) \/ StealStep(w) \/ TraceStep(w)
         \/ (w \in Helpers /\ HelperStep(w)) \/ (w = 0 /\ MainStep)
  PROVE  Counted'
<1> USE DEF dequeVars, syncVars, workVars, tracerHeapVars, ctlVars
<1>1. \A u \in Ids \ {w} : where'[u] = where[u]
  <2>1. CASE TraceStep(w)
    BY <2>1 DEF TraceStep, Start, TakeRoot, Visit, Visited, TraceOne, Goto, TracerTypes, WhereTypes
  <2>2. CASE HelperStep(w)
    BY <2>2 DEF HelperStep, TakeLock, Look, Park, WakeUp, GiveUp, Leave, Goto, TracerTypes, WhereTypes
  <2>3. CASE w = 0 /\ MainStep
    BY <2>3 DEF MainStep, JoinHelper, Unpark, MaybeDone, TryLock, LockedAll, Unlock, StartRound,
                ReleaseHelper, Broadcast, EndRound, Leave, Goto, TracerTypes, WhereTypes
  <2>4. QED
    BY <2>1, <2>2, <2>3, DequeStep
<1>2. /\ activeTracers' = activeTracers
      /\ where'[w] \in Idle <=> where[w] \in Idle
      \/ /\ activeTracers' = activeTracers + 1
         /\ where'[w] \notin Idle /\ where[w] \in Idle
      \/ /\ activeTracers' = activeTracers - 1
         /\ where'[w] \in Idle /\ where[w] \notin Idle
  <2> USE DEF TracerTypes, WhereTypes, At, Goto
  <2>1. CASE PushStep(w) \/ PopStep(w) \/ StealStep(w)
    <3>1. Idle \cap (Common \ {"start", "roots"}) = {}
      BY DEF Idle, Common, HelperOnly, Out, InLoop, Popping, Stealing
    <3>2. QED
      BY <2>1, <3>1, DequeStep
  <2>2. CASE TraceStep(w)
    BY <2>2 DEF TraceStep, Start, TakeRoot, Visit, Visited, TraceOne, Idle, HelperOnly, Out
  <2>3. CASE HelperStep(w) /\ w \in Helpers
    BY <2>3, IdFacts
       DEF HelperStep, TakeLock, Look, Park, WakeUp, GiveUp, Leave, Idle, HelperOnly, Out, Helpers
  <2>4. CASE w = 0 /\ MainStep
    BY <2>4 DEF MainStep, JoinHelper, Unpark, MaybeDone, TryLock, LockedAll, Unlock, StartRound,
                ReleaseHelper, Broadcast, EndRound, Leave, Idle, HelperOnly, Out
  <2>5. QED
    BY <2>1, <2>2, <2>3, <2>4
<1>3. activeTracers \in Int
  <2>1. IsFiniteSet(Ids)
    BY IdsFinite
  <2>2. Tracing \subseteq Ids
    BY DEF Tracing
  <2>3. QED
    BY <2>1, <2>2, FS_Subset, FS_CardinalityType DEF Counted
<1>4. activeTracers' = activeTracers + (IF where'[w] \notin Idle THEN 1 ELSE 0)
                                     - (IF where[w] \notin Idle THEN 1 ELSE 0)
  BY <1>2, <1>3
<1>5. QED
  BY <1>1, <1>4, CountStep DEF TracerTypes

-------------------------------------------------------------------------------
(* What is due *)

LEMMA EdgesGrow ==
  ASSUME EdgesDue, \A c : Due(c) => Due(c)', edges' = edges, NEW x,
         \A o \in HeapObjects \ {x} : traced'[o] = traced[o],
         \A i \in DOMAIN edges[x] : \A c : c = edges[x][i] => Due(c)'
  PROVE  EdgesDue'
<1>1. ASSUME NEW o \in HeapObjects, (traced[o] = 1)', NEW i \in DOMAIN edges[o]
      PROVE  Due(edges[o][i])'
  <2>1. Due(edges[o][i])
        \/ o = x
    BY <1>1 DEF EdgesDue
  <2>2. PICK c : c = edges[o][i]
    OBVIOUS
  <2>3. Due(c)'
    BY <2>1, <2>2
  <2>4. c = (edges[o][i])'
    BY <2>2
  <2>5. QED
    BY <2>3, <2>4 DEF Due, Awaits
<1>2. QED
  BY <1>1 DEF EdgesDue

LEMMA EdgesStay ==
  ASSUME EdgesDue, \A c : Due(c) => Due(c)', UNCHANGED <<edges, traced>>
  PROVE  EdgesDue'
<1>1. ASSUME NEW o \in HeapObjects, traced[o] = 1, NEW i \in DOMAIN edges[o], NEW c, c = edges[o][i]
      PROVE  Due(c)'
  <2>1. Due(edges[o][i])
    BY <1>1 DEF EdgesDue
  <2>2. Due(c)
    BY <1>1, <2>1
  <2>3. QED
    BY <2>2
<1>2. CASE \E x \in HeapObjects : traced[x] = 1
  <2>1. PICK x \in HeapObjects : traced[x] = 1
    BY <1>2
  <2>2. QED
    BY <1>1, <2>1, EdgesGrow
<1>3. CASE ~\E x \in HeapObjects : traced[x] = 1
  BY <1>3 DEF EdgesDue
<1>4. QED
  BY <1>2, <1>3

LEMMA FollowedStays ==
  ASSUME Followed, NEW w \in Ids,
         \A c : Due(c) => Due(c)', marked \subseteq marked',
         UNCHANGED <<edges, round, read, traced>>,
         \A u \in Ids \ {w} :
           where'[u] = where[u] /\ toTrace'[u] = toTrace[u] /\ (u \in rooting' <=> u \in rooting),
         Looping(w)',
         w = 0 => where[0] \notin {"mutating", "release", "wake", "start"}
                  /\ where'[0] # "mutating" /\ (0 \notin rooting' => 0 \notin rooting)
  PROVE  Followed'
<1>1. At(0, "mutating")' <=> At(0, "mutating")
  BY IdFacts DEF At
<1>2. Roots' = Roots
  BY DEF Roots
<1>3. EdgesDue'
  BY EdgesStay DEF Followed
<1>4. ASSUME NEW q \in 1 .. round', NEW i \in DOMAIN Rounds[q].roots PROVE RootDue(q, i)'
  <2>1. RootDue(q, i)
    BY DEF Followed, RootsDue
  <2>2. Due(Rounds[q].roots[i]) => Due(Rounds[q].roots[i])'
    OBVIOUS
  <2>3. QED
    BY <1>1, <2>1, <2>2 DEF RootDue
<1>5. ASSUME NEW u \in Ids PROVE Looping(u)'
  BY DEF Followed, Looping, At
<1>6. QED
  BY <1>1, <1>2, <1>3, <1>4, <1>5, IdFacts DEF Followed, RootsDue, AllRead, At

LEMMA FollowedDeque ==
  ASSUME TracerTypes, Followed, NEW w \in Ids, PushStep(w) \/ PopStep(w) \/ StealStep(w)
  PROVE  Followed'
<1>1. /\ where[w] \in Common \ {"start", "roots"}
      /\ where'[w] \in Common \ {"start", "roots"}
      /\ \A u \in Ids \ {w} : where'[u] = where[u]
      /\ PushStep(w) => where'[w] \in InLoop
      /\ ~PushStep(w) => where[w] \notin InLoop
      /\ UNCHANGED <<round, edges, marked, traced, toTrace, rooting, read>>
  BY DequeStep
<1>2. \A c : Due(c)' <=> Due(c)
  BY <1>1 DEF Due, Awaits
<1>3. Looping(w)'
  BY <1>1 DEF Followed, Looping, At
<1>4. where[w] \notin {"mutating", "release", "wake", "start"} /\ where'[w] # "mutating"
  BY <1>1 DEF Common, InLoop, Popping, Stealing
<1>5. QED
  BY <1>1, <1>2, <1>3, <1>4, FollowedStays

\* Only a worker in the loop over what it has to visit awaits anything.
LEMMA NothingAwaited ==
  ASSUME Followed, NEW w \in Ids, where[w] \notin InLoop
  PROVE  toTrace[w] = <<>> /\ \A c : ~Awaits(w, c)
  BY DEF Followed, Looping, Awaits

LEMMA FollowedTrace ==
  ASSUME TracerTypes, Locks, Followed, NEW w \in Ids, TraceStep(w),
         At(w, "trace") => ToDo(reg[w].x)
  PROVE  Followed'
<1> USE DEF dequeVars, syncVars, workVars, tracerHeapVars, ctlVars
<1>1. /\ where[w] \in Common /\ where[w] # "mutating"
      /\ ~At(0, "mutating") /\ ~At(0, "mutating")'
      /\ \A u \in Ids \ {w} : where'[u] = where[u]
      /\ where[w] \notin Out
  <2>1. where[w] \in {"start", "roots", "visit", "trace"} /\ where'[w] # "mutating"
        /\ \A u \in Ids \ {w} : where'[u] = where[u]
    BY DEF TraceStep, Start, TakeRoot, Visit, Visited, TraceOne, At, Goto, TracerTypes, WhereTypes
  <2>2. where[w] \in Common /\ where[w] \notin Out /\ where[w] # "mutating"
    BY <2>1 DEF Common, InLoop, Out
  <2>3. ~At(0, "mutating")
    BY <2>2, AllOut, IdFacts DEF At, Alone
  <2>4. QED
    BY <2>1, <2>2, <2>3, IdFacts DEF At
<1>2. /\ toTrace \in [Ids -> Seq(HeapObjects)] /\ rooting \subseteq Ids /\ read \in Nat
      /\ where \in [Ids -> Labels] /\ UNCHANGED <<edges, round>>
  BY DEF TracerTypes, TraceTypes, ControlTypes, WhereTypes, TraceStep, Start, TakeRoot, Visit, Visited,
         TraceOne
<1>3. CASE Start(w)
  <2>1. /\ UNCHANGED <<marked, toTrace, read, traced>> /\ where'[w] = "roots" /\ where[w] = "start"
        /\ rooting' = rooting \cup {w}
    BY <1>2, <1>3 DEF Start, At, Goto
  <2>2. \A c : Due(c)' <=> Due(c)
    BY <2>1 DEF Due, Awaits
  <2>3. Looping(w)'
    BY <2>1, NothingAwaited DEF InLoop, Looping, At
  <2>4. CASE w # 0
    BY <1>1, <1>2, <2>1, <2>2, <2>3, <2>4, FollowedStays
  <2>5. CASE w = 0
    <3>1. \A u \in Ids : Looping(u)'
      BY <1>1, <2>1, <2>3 DEF Followed, Looping, At
    <3>2. 0 \in rooting'
      BY <2>1, <2>5
    <3>3. EdgesDue'
      BY <1>2, <2>1, <2>2, EdgesStay DEF Followed
    <3>4. ASSUME NEW q \in 1 .. round', NEW i \in DOMAIN Rounds[q].roots PROVE RootDue(q, i)'
      <4>1. RootDue(q, i)
        BY <1>2 DEF Followed, RootsDue
      <4>2. Due(Rounds[q].roots[i])' <=> Due(Rounds[q].roots[i])
        BY <2>2
      <4>3. QED
        BY <1>1, <1>2, <2>1, <4>1, <4>2 DEF RootDue
    <3>5. QED
      BY <1>1, <3>1, <3>2, <3>3, <3>4 DEF Followed, RootsDue, AllRead
  <2>6. QED
    BY <2>4, <2>5
<1>4. CASE TakeRoot(w)
  <2>1. /\ At(w, "roots") /\ read' = read + 1 /\ UNCHANGED <<marked, traced>>
        /\ toTrace[w] = <<>> /\ w \in rooting
        /\ \A c : ~Awaits(w, c)
    BY <1>4, NothingAwaited DEF TakeRoot, At, InLoop, Followed, Looping
  <2>2. CASE read < Len(Roots) /\ toTrace' = [toTrace EXCEPT ![w] = <<Roots[read + 1]>>]
             /\ Goto(w, "visit") /\ UNCHANGED rooting
    <3>1. /\ toTrace'[w] = <<Roots[read + 1]>> /\ where'[w] = "visit"
          /\ \A u \in Ids \ {w} : toTrace'[u] = toTrace[u]
      BY <1>2, <2>2 DEF Goto
    <3>2. \A c : c = Roots[read + 1] => Due(c)'
      <4>1. 1 \in DOMAIN toTrace'[w] /\ toTrace'[w][1] = Roots[read + 1]
        BY <3>1
      <4>2. ASSUME NEW c, c = Roots[read + 1] PROVE Awaits(w, c)'
        BY <4>1, <4>2 DEF Awaits
      <4>3. QED
        BY <4>2 DEF Due
    <3>3. \A c : Due(c) => Due(c)'
      BY <2>1, <3>1 DEF Due, Awaits
    <3>4. \A u \in Ids : Looping(u)'
      <4>1. Looping(w)'
        BY <2>1, <3>1 DEF Looping, InLoop, At
      <4>2. QED
        BY <1>1, <2>2, <3>1, <4>1 DEF Followed, Looping, At
    <3>5. ASSUME NEW q \in 1 .. round', NEW i \in DOMAIN Rounds[q].roots PROVE RootDue(q, i)'
      <4>1. RootDue(q, i)
        BY <1>2 DEF Followed, RootsDue
      <4>2. q < round \/ (q = round /\ Rounds[q].roots = Roots)
        BY <1>2 DEF Roots, TracerTypes, ControlTypes
      <4>3. CASE q < round
        BY <1>1, <1>2, <2>1, <4>1, <4>3 DEF RootDue
      <4>4. CASE q = round
        <5>1. i \in Int
          BY <4>2, <4>4, RootsType DEF TracerTypes, ControlTypes
        <5>2. i > read \/ Due(Rounds[q].roots[i])
          BY <1>1, <4>1, <4>4 DEF RootDue
        <5>3. i > read + 1 \/ i = read + 1 \/ Due(Rounds[q].roots[i])
          BY <1>2, <5>1, <5>2
        <5>4. i = read + 1 => Due(Rounds[q].roots[i])'
          BY <3>2, <4>2, <4>4
        <5>5. i > read' \/ Due(Rounds[q].roots[i])'
          BY <2>1, <3>3, <5>3, <5>4
        <5>6. QED
          BY <1>1, <1>2, <4>4, <5>5 DEF RootDue
      <4>5. QED
        BY <4>2, <4>3, <4>4
    <3>6. where'[0] \notin {"mutating", "release", "wake", "start"} /\ 0 \notin rooting' =>
            read' >= Len(Roots')
      <4>1. w = 0 => 0 \in rooting'
        BY <2>1, <2>2
      <4>2. w # 0 => where'[0] = where[0]
        BY <1>1, IdFacts
      <4>3. Roots' = Roots /\ Len(Roots) \in Nat
        BY <1>2, RootsType, LenProperties DEF Roots, TracerTypes, ControlTypes
      <4>4. QED
        BY <1>2, <2>1, <2>2, <4>1, <4>2, <4>3 DEF Followed, AllRead
    <3>7. EdgesDue'
      BY <1>2, <2>1, <3>3, EdgesStay DEF Followed
    <3>8. QED
      BY <1>1, <3>4, <3>5, <3>6, <3>7 DEF Followed, RootsDue, AllRead
  <2>3. CASE read >= Len(Roots) /\ toTrace' = toTrace /\ rooting' = rooting \ {w}
             /\ Goto(w, IF ~Rounds[round].only THEN "pop" ELSE IF w = 0 THEN "join" ELSE "leave")
    <3>1. where'[w] \in {"pop", "join", "leave"}
      BY <1>2, <2>3 DEF Goto
    <3>2. \A c : Due(c)' <=> Due(c)
      BY <2>1, <2>3 DEF Due, Awaits
    <3>3. \A u \in Ids : Looping(u)'
      <4>1. Looping(w)'
        BY <2>1, <2>3, <3>1 DEF Looping, At
      <4>2. QED
        BY <1>1, <2>3, <4>1 DEF Followed, Looping, At
    <3>4. Roots' = Roots /\ Len(Roots) \in Nat
      BY <1>2, RootsType, LenProperties DEF Roots, TracerTypes, ControlTypes
    <3>5. ASSUME NEW q \in 1 .. round', NEW i \in DOMAIN Rounds[q].roots PROVE RootDue(q, i)'
      <4>1. RootDue(q, i)
        BY <1>2 DEF Followed, RootsDue
      <4>2. q < round \/ (q = round /\ Rounds[q].roots = Roots)
        BY <1>2 DEF Roots, TracerTypes, ControlTypes
      <4>3. CASE q < round
        BY <1>1, <1>2, <2>1, <4>1, <4>3 DEF RootDue
      <4>4. CASE q = round
        <5>1. i \in 1 .. Len(Roots)
          BY <4>2, <4>4, RootsType, LenProperties DEF TracerTypes, ControlTypes
        <5>2. i > read \/ Due(Rounds[q].roots[i])
          BY <1>1, <4>1, <4>4 DEF RootDue
        <5>3. Due(Rounds[q].roots[i])'
          BY <1>2, <2>3, <3>2, <3>4, <5>1, <5>2
        <5>4. QED
          BY <1>1, <1>2, <4>4, <5>3 DEF RootDue
      <4>5. QED
        BY <4>2, <4>3, <4>4
    <3>6. read' >= Len(Roots')
      BY <1>2, <2>1, <2>3, <3>4
    <3>7. EdgesDue'
      BY <1>2, <2>1, <3>2, EdgesStay DEF Followed
    <3>8. QED
      BY <1>1, <3>3, <3>5, <3>6, <3>7 DEF Followed, RootsDue, AllRead
  <2>4. QED
    BY <1>4, <2>2, <2>3 DEF TakeRoot
<1>5. CASE Visit(w)
  <2> DEFINE s == toTrace[w]
  <2>1. /\ s \in Seq(HeapObjects) /\ s # <<>> /\ where[w] = "visit"
        /\ toTrace' = [toTrace EXCEPT ![w] = Tail(s)]
        /\ marked' = marked \cup {Head(s)}
        /\ where'[w] \in {"visit", "push"}
        /\ UNCHANGED <<rooting, read, traced>>
    BY <1>2, <1>5 DEF Visit, At, Goto
  <2>2. /\ \A k \in DOMAIN s : k = 1 \/ (k - 1 \in DOMAIN Tail(s) /\ Tail(s)[k - 1] = s[k])
        /\ Head(s) = s[1]
    BY <2>1
  <2>3. \A u \in Ids \ {w} : toTrace'[u] = toTrace[u]
    BY <1>2, <2>1
  <2>4. toTrace'[w] = Tail(s)
    BY <1>2, <2>1
  <2>5. ASSUME NEW c, Due(c) PROVE Due(c)'
    <3>1. CASE c \in marked
      BY <2>1, <3>1 DEF Due
    <3>2. CASE Awaits(w, c)
      <4>1. PICK k \in DOMAIN s : s[k] = c
        BY <3>2 DEF Awaits
      <4>2. QED
        BY <2>1, <2>2, <2>4, <4>1 DEF Due, Awaits
    <3>3. ASSUME NEW u \in Ids \ {w}, Awaits(u, c) PROVE Due(c)'
      BY <2>3, <3>3 DEF Due, Awaits
    <3>4. QED
      BY <2>5, <3>1, <3>2, <3>3 DEF Due
  <2>6. Looping(w)'
    BY <2>1 DEF Followed, Looping, InLoop, At
  <2>7. QED
    BY <1>1, <1>2, <2>1, <2>3, <2>5, <2>6, FollowedStays
<1>6. CASE Visited(w)
  <2>1. /\ where[w] = "visit" /\ toTrace[w] = <<>> /\ UNCHANGED <<marked, toTrace, rooting, read, traced>>
        /\ where'[w] = IF w \in rooting THEN "roots" ELSE IF w = 0 /\ n = 0 THEN "unpark" ELSE "pop"
    BY <1>2, <1>6 DEF Visited, At, Goto
  <2>2. \A c : Due(c)' <=> Due(c)
    BY <2>1 DEF Due, Awaits
  <2>3. Looping(w)'
    BY <2>1 DEF Looping, At
  <2>4. QED
    BY <1>1, <1>2, <2>1, <2>2, <2>3, FollowedStays
<1>7. CASE TraceOne(w)
  <2> DEFINE x == reg[w].x
  <2>1. /\ where[w] = "trace" /\ UNCHANGED <<marked, rooting, read>> /\ where'[w] = "visit"
        /\ traced' = [traced EXCEPT ![x] = @ + 1] /\ x \in HeapObjects
        /\ toTrace' = [toTrace EXCEPT ![w] = edges[x]]
        /\ toTrace[w] = <<>> /\ \A c : ~Awaits(w, c)
        /\ w \notin rooting
    BY <1>2, <1>7, NothingAwaited
       DEF TraceOne, At, Goto, ToDo, InLoop, TracerTypes, TraceTypes, Followed, Looping
  <2>2. toTrace'[w] = edges[x] /\ \A u \in Ids \ {w} : toTrace'[u] = toTrace[u]
    BY <1>2, <2>1
  <2>3. \A c : Due(c) => Due(c)'
    BY <2>1, <2>2 DEF Due, Awaits
  <2>4. \A i \in DOMAIN edges[x] : \A c : c = edges[x][i] => Due(c)'
    <3>1. ASSUME NEW i \in DOMAIN edges[x], NEW c, c = edges[x][i] PROVE Due(c)'
      <4>1. Awaits(w, c)'
        BY <2>2, <3>1 DEF Awaits
      <4>2. QED
        BY <4>1 DEF Due
    <3>2. QED
      BY <3>1
  <2>5. \A o \in HeapObjects : o # x => traced'[o] = traced[o]
    BY <2>1 DEF TracerTypes, TraceTypes
  <2>6. EdgesDue'
    BY <1>2, <2>3, <2>4, <2>5, EdgesGrow DEF Followed
  <2>7. ASSUME NEW q \in 1 .. round', NEW i \in DOMAIN Rounds[q].roots PROVE RootDue(q, i)'
    <3>1. RootDue(q, i)
      BY <1>2 DEF Followed, RootsDue
    <3>2. Due(Rounds[q].roots[i]) => Due(Rounds[q].roots[i])'
      BY <2>3
    <3>3. QED
      BY <1>1, <1>2, <2>1, <3>1, <3>2 DEF RootDue
  <2>8. Looping(w)'
    BY <2>1 DEF Looping, InLoop, At
  <2>9. \A u \in Ids : Looping(u)'
    BY <1>1, <2>1, <2>2, <2>8 DEF Followed, Looping, At
  <2>10. where'[0] \notin {"mutating", "release", "wake", "start"} /\ 0 \notin rooting' =>
            read' >= Len(Roots')
    <3>1. Roots' = Roots
      BY <1>2 DEF Roots
    <3>2. where'[0] = where[0] \/ where[0] = "trace"
      BY <1>1, <2>1, IdFacts
    <3>3. QED
      BY <2>1, <3>1, <3>2 DEF Followed, AllRead
  <2>11. QED
    BY <1>1, <2>6, <2>7, <2>9, <2>10 DEF Followed, RootsDue, AllRead
<1>8. QED
  BY <1>3, <1>4, <1>5, <1>6, <1>7 DEF TraceStep

LEMMA FollowedHelper ==
  ASSUME TracerTypes, Followed, NEW h \in Helpers, HelperStep(h)
  PROVE  Followed'
<1> USE DEF dequeVars, syncVars, workVars, tracerHeapVars, ctlVars
<1>1. /\ h \in Ids /\ h # 0
      /\ UNCHANGED <<edges, round, read, traced, marked, toTrace, rooting>>
      /\ \A u \in Ids \ {h} : where'[u] = where[u]
      /\ where'[h] = where[h]
         \/ (where[h] \in HelperOnly \cup {"steal", "leave"} /\ where'[h] \in HelperOnly \cup {"start", "leave"})
  BY IdFacts DEF HelperStep, TakeLock, Look, Park, WakeUp, GiveUp, Leave, At, Goto,
     TracerTypes, WhereTypes, Helpers, HelperOnly, Out
<1>2. \A c : Due(c)' <=> Due(c)
  BY <1>1 DEF Due, Awaits
<1>3. Looping(h)'
  <2>1. CASE where'[h] = where[h]
    BY <1>1, <2>1 DEF Followed, Looping, At
  <2>2. CASE /\ where[h] \in HelperOnly \cup {"steal", "leave"}
             /\ where'[h] \in HelperOnly \cup {"start", "leave"}
    <3>1. where[h] \notin InLoop \cup {"roots"} /\ where'[h] # "roots"
      BY <2>2 DEF InLoop, HelperOnly, Out
    <3>2. toTrace[h] = <<>> /\ h \notin rooting
      BY <1>1, <3>1 DEF Followed, Looping
    <3>3. QED
      BY <1>1, <3>1, <3>2 DEF Looping, At
  <2>3. QED
    BY <1>1, <2>1, <2>2
<1>4. QED
  BY <1>1, <1>2, <1>3, FollowedStays

LEMMA FollowedMain ==
  ASSUME TracerTypes, Locks, Done, Followed, MainStep
  PROVE  Followed'
<1> USE DEF dequeVars, syncVars, workVars, tracerHeapVars, ctlVars
<1>1. /\ 0 \in Ids /\ UNCHANGED <<edges, traced, marked, toTrace, rooting>>
      /\ \A u \in Ids \ {0} : where'[u] = where[u]
      /\ where[0] \in MainOnly \cup {"steal", "leave"}
      /\ where'[0] \in MainOnly \cup {"start", "pop", "leave"}
  BY IdFacts DEF MainStep, JoinHelper, Unpark, MaybeDone, TryLock, LockedAll, Unlock, StartRound,
     ReleaseHelper, Broadcast, EndRound, Leave, At, Goto, TracerTypes, WhereTypes, MainOnly
<1>2. \A c : Due(c)' <=> Due(c)
  BY <1>1 DEF Due, Awaits
<1>3. EdgesDue'
  BY <1>1, <1>2, EdgesStay DEF Followed
<1>4. where[0] \notin InLoop \cup {"roots"} /\ where'[0] # "roots"
  BY <1>1 DEF InLoop, MainOnly
<1>5. toTrace[0] = <<>> /\ 0 \notin rooting
  BY <1>1, <1>4 DEF Followed, Looping
<1>6. Looping(0)'
  BY <1>1, <1>4, <1>5 DEF Looping, At
<1>7. \A u \in Ids : Looping(u)'
  BY <1>1, <1>6 DEF Followed, Looping, At
<1>8. Len(Rounds) \in Nat /\ round \in 0 .. Len(Rounds)
  BY TracerAssumption, LenProperties DEF TracerTypes, ControlTypes
<1>9. CASE JoinHelper \/ Unpark \/ MaybeDone \/ TryLock \/ LockedAll \/ Unlock \/ Leave(0) \/ At(0, "wakeAgain")
  <2>1. UNCHANGED <<round, read>>
        /\ where[0] \notin {"mutating", "release", "wake", "start"} /\ where'[0] # "mutating"
    BY <1>9 DEF MainStep, JoinHelper, Unpark, MaybeDone, TryLock, LockedAll, Unlock, Leave, Broadcast,
       StartRound, ReleaseHelper, EndRound, At, Goto, TracerTypes, WhereTypes
  <2>2. QED
    BY <1>1, <1>2, <1>6, <2>1, FollowedStays
<1>10. CASE ReleaseHelper \/ (Broadcast /\ At(0, "wake"))
  <2>1. UNCHANGED <<round, read>> /\ ~At(0, "mutating") /\ ~At(0, "mutating")'
        /\ where'[0] \in {"release", "wake", "start"}
    BY <1>10 DEF ReleaseHelper, Broadcast, At, Goto, TracerTypes, WhereTypes
  <2>2. ASSUME NEW q \in 1 .. round', NEW i \in DOMAIN Rounds[q].roots PROVE RootDue(q, i)'
    <3>1. RootDue(q, i)
      BY <2>1 DEF Followed, RootsDue
    <3>2. Due(Rounds[q].roots[i])' <=> Due(Rounds[q].roots[i])
      BY <1>2
    <3>3. QED
      BY <1>1, <2>1, <3>1, <3>2 DEF RootDue
  <2>3. QED
    BY <1>3, <1>7, <2>1, <2>2 DEF Followed, RootsDue, AllRead, At
<1>11. CASE StartRound
  <2>1. /\ round' = round + 1 /\ read' = read /\ read = 0
        /\ At(0, "mutating") /\ ~At(0, "mutating")' /\ where'[0] = "release"
    BY <1>1, <1>11 DEF StartRound, At, Goto, TracerTypes, WhereTypes, Followed, AllRead
  <2>2. round' \in 1 .. Len(Rounds)
    BY <1>8, <1>11, <2>1 DEF StartRound
  <2>3. ASSUME NEW q \in 1 .. round', NEW i \in DOMAIN Rounds[q].roots PROVE RootDue(q, i)'
    <3>1. CASE q \in 1 .. round
      <4>1. RootDue(q, i)
        BY <3>1 DEF Followed, RootsDue
      <4>2. Rounds[q].roots[i] \in marked /\ q < round'
        BY <1>8, <2>1, <3>1, <4>1 DEF RootDue
      <4>3. QED
        BY <1>1, <4>2 DEF RootDue
    <3>2. CASE q = round'
      <4>1. Rounds[q].roots \in Seq(HeapObjects)
        BY <1>8, <2>2, <3>2, RootsType
      <4>2. i > read'
        BY <2>1, <4>1, LenProperties
      <4>3. QED
        BY <1>8, <2>1, <3>2, <4>2 DEF RootDue
    <3>3. QED
      BY <1>8, <2>1, <2>3, <3>1, <3>2
  <2>4. QED
    BY <1>3, <1>7, <2>1, <2>3 DEF Followed, RootsDue, AllRead, At
<1>12. CASE EndRound
  <2>1. UNCHANGED round /\ read' = 0 /\ where[0] = "ended" /\ where'[0] = "mutating"
    BY <1>1, <1>12 DEF EndRound, At, Goto, TracerTypes, WhereTypes
  <2>2. \A w \in Ids : \A c : ~Awaits(w, c)
    <3>1. \A h \in Helpers : where[h] \in Out
      BY <2>1, AllOut DEF Alone
    <3>2. \A w \in Ids : where[w] \notin InLoop
      BY <2>1, <3>1, IdFacts DEF InLoop, Out
    <3>3. QED
      BY <3>2, NothingAwaited
  <2>3. read \in Nat /\ read >= Len(Roots) /\ round > 0
    BY <1>5, <2>1 DEF Followed, AllRead, Done, At, TracerTypes, ControlTypes
  <2>4. ASSUME NEW q \in 1 .. round', NEW i \in DOMAIN Rounds[q].roots PROVE RootDue(q, i)'
    <3>1. RootDue(q, i)
      BY <2>1 DEF Followed, RootsDue
    <3>2. CASE q < round
      BY <1>1, <2>1, <3>1, <3>2 DEF RootDue, At
    <3>3. CASE q = round
      <4>1. Rounds[q].roots = Roots /\ Roots \in Seq(HeapObjects)
        BY <1>8, <2>3, <3>3, RootsType DEF Roots
      <4>2. ~(i > read)
        BY <2>3, <4>1, LenProperties
      <4>3. Rounds[q].roots[i] \in marked
        BY <2>1, <2>2, <3>1, <3>3, <4>2 DEF RootDue, Due, At
      <4>4. QED
        BY <1>1, <2>1, <4>3 DEF RootDue, At
    <3>4. QED
      BY <1>8, <2>1, <2>4, <3>2, <3>3
  <2>5. QED
    BY <1>3, <1>7, <2>1, <2>4 DEF Followed, RootsDue, AllRead, At
<1>13. QED
  BY <1>9, <1>10, <1>11, <1>12 DEF MainStep, Broadcast

-------------------------------------------------------------------------------
(* The deques *)

\* A deque has the elements it had.
SameWindow(v) ==
  /\ top'[v] = top[v] /\ Rear(v)' = Rear(v)
  /\ \A i \in Nat : InWindow(v, i) => Elem(v, i)' = Elem(v, i)
\* What a thief has seen of the first element of a deque stays so, or the top moves on.
KeepsTop(v) ==
  /\ top[v] <= top'[v] /\ buf[v] <= buf'[v]
  /\ \A i \in Nat : i = top[v] /\ i = top'[v] /\ InWindow(v, i) =>
       /\ InWindow(v, i)' /\ Elem(v, i)' = Elem(v, i)
       /\ \A b \in 0 .. buf[v] : Get(v, b, i)' = Get(v, b, i)
SameDeque(v) ==
  bottom'[v] = bottom[v] /\ top'[v] = top[v] /\ buf'[v] = buf[v] /\ data'[v] = data[v]

LEMMA DequeFacts ==
  ASSUME TracerTypes, NEW v \in Ids
  PROVE  /\ bottom[v] \in Int /\ top[v] \in Nat /\ buf[v] \in 0 .. MaxBuf
         /\ SizeOf(buf[v]) \in Nat \ {0} /\ reg[v].t \in Nat /\ reg[v].a \in 0 .. MaxBuf
         /\ IsReg(reg[v]) /\ IsData(data) /\ where[v] \in Labels /\ Rear(v) \in Int
         /\ reg = [u \in Ids |-> reg[u]]
  BY Sizes DEF TracerTypes, DequeTypes, RegTypes, IsReg, WhereTypes, Rear

LEMMA SameCells ==
  ASSUME NEW v \in Ids, SameDeque(v), NEW i
  PROVE  Elem(v, i)' = Elem(v, i) /\ \A b : Get(v, b, i)' = Get(v, b, i)
  BY DEF SameDeque, Elem, Get

\* Nobody touches the deque, and its owner stays where it is.
LEMMA OthersDeque ==
  ASSUME TracerTypes, NEW v \in Ids, Deque(v), SameDeque(v), where'[v] = where[v], reg'[v] = reg[v]
  PROVE  /\ Deque(v)' /\ SameWindow(v) /\ KeepsTop(v)
         /\ \A i \in Places : (Occupied(v, i)' <=> Occupied(v, i)) /\ Content(v, i)' = Content(v, i)
<1>1. Rear(v)' = Rear(v)
  BY DEF Rear, SameDeque
<1>2. \A i : (InWindow(v, i)' <=> InWindow(v, i)) /\ Elem(v, i)' = Elem(v, i)
        /\ \A b : Get(v, b, i)' = Get(v, b, i)
  BY <1>1, SameCells DEF InWindow, SameDeque
<1>3. Elem(v, bottom[v])' = Elem(v, bottom[v])
  BY DEF SameDeque, Elem, Get
<1>4. Deque(v)'
  BY <1>1, <1>3 DEF Deque, At, SameDeque
<1>5. SameWindow(v) /\ KeepsTop(v)
  BY <1>1, <1>2, DequeFacts DEF SameWindow, KeepsTop, SameDeque
<1>6. Held(v)' <=> Held(v)
  BY DEF Held, At
<1>7. QED
  BY <1>2, <1>4, <1>5, <1>6 DEF Occupied, Content

\* The owner is not in its deque.
LEMMA IdleDeque ==
  ASSUME TracerTypes, NEW v \in Ids, Deque(v), SameDeque(v),
         where[v] \notin Popping \cup {"pushPut", "pushBottom"},
         where'[v] \notin Popping \cup {"pushPut", "pushBottom"}
  PROVE  Deque(v)' /\ SameWindow(v) /\ KeepsTop(v)
<1>1. Rear(v)' = Rear(v)
  BY DEF Rear, SameDeque
<1>2. \A i : (InWindow(v, i)' <=> InWindow(v, i)) /\ Elem(v, i)' = Elem(v, i)
        /\ \A b : Get(v, b, i)' = Get(v, b, i)
  BY <1>1, SameCells DEF InWindow, SameDeque
<1>4. Deque(v)'
  BY <1>1 DEF Deque, At, SameDeque, Popping
<1>5. SameWindow(v) /\ KeepsTop(v)
  BY <1>1, <1>2, DequeFacts DEF SameWindow, KeepsTop, SameDeque
<1>6. QED
  BY <1>4, <1>5

\* What is right about a thief stays right while the top it saw is the top.
LEMMA ThiefKept ==
  ASSUME TracerTypes, NEW w \in Ids, Thief(w), \A v \in Ids : KeepsTop(v),
         where'[w] = where[w], reg'[w] = reg[w], stealId'[w] = stealId[w],
         DequeTypes'
  PROVE  Thief(w)'
<1> DEFINE v == stealId[w]
           t == reg[w].t
<1>1. v \in Ids /\ t \in Nat /\ KeepsTop(v) /\ top[v] \in Nat /\ buf[v] \in Nat /\ buf[v] <= buf'[v]
      /\ top'[v] \in Nat /\ buf'[v] \in Nat /\ reg[w].a \in Nat
  BY DequeFacts DEF TracerTypes, StealTypes, DequeTypes, KeepsTop
<1>2. where[w] \in Stealing => t <= top'[v]
  BY <1>1 DEF Thief, KeepsTop
<1>3. ASSUME where[w] \in Stealing, t = top'[v]
      PROVE  t = top[v]
  BY <1>1, <1>3 DEF Thief, KeepsTop
<1>4. ASSUME where[w] \in Stealing \ {"stealBottom"}, t = top'[v]
      PROVE  /\ InWindow(v, t) /\ InWindow(v, t)' /\ Elem(v, t)' = Elem(v, t)
             /\ \A b \in 0 .. buf[v] : Get(v, b, t)' = Get(v, b, t)
  <2>1. t = top[v] /\ InWindow(v, t)
    BY <1>3, <1>4 DEF Thief
  <2>2. QED
    BY <1>1, <1>4, <2>1 DEF KeepsTop
<1>5. At(w, "stealGet") => reg[w].a <= buf'[v]
  BY <1>1 DEF Thief
<1>6. ASSUME At(w, "stealGet"), t = top'[v]
      PROVE  (Get(v, reg[w].a, t) = Elem(v, t))'
  <2>1. where[w] \in Stealing \ {"stealBottom"} /\ t = top[v]
    BY <1>3, <1>6 DEF At, Stealing
  <2>2. reg[w].a \in 0 .. buf[v] /\ Get(v, reg[w].a, t) = Elem(v, t)
    BY <1>1, <1>6, <2>1 DEF Thief
  <2>3. Get(v, reg[w].a, t)' = Get(v, reg[w].a, t) /\ Elem(v, t)' = Elem(v, t)
    BY <1>4, <1>6, <2>1, <2>2
  <2>4. QED
    BY <2>2, <2>3
<1>7. ASSUME At(w, "stealCas"), t = top'[v]
      PROVE  (reg[w].x = Elem(v, t))'
  <2>1. where[w] \in Stealing \ {"stealBottom"} /\ t = top[v]
    BY <1>3, <1>7 DEF At, Stealing
  <2>2. reg[w].x = Elem(v, t) /\ Elem(v, t)' = Elem(v, t)
    BY <1>4, <1>7, <2>1 DEF Thief
  <2>3. QED
    BY <2>2
<1>8. QED
  BY <1>2, <1>4, <1>5, <1>6, <1>7 DEF Thief, At

LEMMA KeepsFirst ==
  ASSUME TracerTypes, NEW v \in Ids, top'[v] = top[v], buf[v] <= buf'[v],
         Rear(v)' \in Int, Rear(v) <= Rear(v)',
         \A i \in Nat : InWindow(v, i) =>
           /\ Elem(v, i)' = Elem(v, i)
           /\ \A b \in 0 .. buf[v] : Get(v, b, i)' = Get(v, b, i)
  PROVE  KeepsTop(v)
<1>1. top[v] \in Nat /\ Rear(v) \in Int
  BY DequeFacts
<1>2. \A i \in Nat : InWindow(v, i) => InWindow(v, i)'
  BY <1>1 DEF InWindow
<1>3. QED
  BY <1>1, <1>2 DEF KeepsTop

\* A full buffer's elements are where they are looked for in the next.
LEMMA GrowDeque ==
  ASSUME TracerTypes, NEW w \in Ids, Deque(w), PushGrow(w)
  PROVE  Deque(w)' /\ SameWindow(w) /\ KeepsTop(w) /\ where'[w] = where[w] /\ reg'[w].x = reg[w].x
<1> USE DEF dequeVars, syncVars, workVars, tracerHeapVars, ctlVars
<1> DEFINE a == buf[w]
           s == SizeOf(a)
           s2 == SizeOf(a + 1)
           t == reg[w].t
           F == [i \in 0 .. s2 - 1 |->
                  LET S == {k \in t .. bottom[w] - 1 : k % s2 = i}
                  IN  IF S = {} THEN NoElement ELSE Get(w, a, Max(S))]
<1>0. At(w, "pushPut") /\ Full(bottom[w] - t, a) /\ a < MaxBuf
  BY DEF PushGrow
<1>1. /\ buf' = [buf EXCEPT ![w] = a + 1]
      /\ data' = [data EXCEPT ![w] = [@ EXCEPT ![a + 1] = F]]
      /\ Set(w, [reg[w] EXCEPT !.t = bottom[w]])
      /\ UNCHANGED <<bottom, top, where>>
  BY DEF PushGrow
<1>2. /\ bottom[w] \in Int /\ top[w] \in Nat /\ a \in 0 .. MaxBuf /\ t \in Nat
      /\ s \in Nat \ {0} /\ IsReg(reg[w]) /\ IsData(data)
      /\ reg = [u \in Ids |-> reg[u]] /\ buf \in [Ids -> 0 .. MaxBuf]
  BY DequeFacts DEF TracerTypes, DequeTypes
<1>3. a + 1 \in 0 .. MaxBuf /\ s2 = 2 * s /\ a + 1 # a
  <2>1. MaxBuf \in Nat /\ a \in 0 .. MaxBuf - 1
    BY <1>0, <1>2, TracerAssumption
  <2>2. a + 1 \in 1 .. MaxBuf /\ (a + 1) - 1 = a /\ a + 1 \in 0 .. MaxBuf /\ a + 1 # a
    BY <2>1
  <2>3. BufSizes[a + 1] = 2 * BufSizes[(a + 1) - 1]
    BY <2>2, TracerAssumption
  <2>4. QED
    BY <2>2, <2>3 DEF SizeOf
<1>4. /\ Rear(w) = bottom[w] - 1 /\ top[w] <= bottom[w] /\ bottom[w] - 1 - top[w] < s
      /\ t <= bottom[w] /\ bottom[w] - t <= s /\ bottom[w] - t > s - 1
      /\ t <= top[w] \/ bottom[w] - top[w] < s
  BY <1>0, <1>2 DEF Deque, Rear, At, Popping, Full
<1>5. /\ bottom[w] \in Nat /\ t <= top[w] /\ bottom[w] - t < s2
  BY <1>2, <1>3, <1>4
<1>6. IsBuffer(F, a + 1)
  BY DEF IsBuffer
<1> HIDE DEF F
<1>7. data'[w][a + 1] = F /\ data'[w][a] = data[w][a]
      /\ \A b \in 0 .. a : data'[w][b] = data[w][b]
  <2>1. /\ data'[w][a + 1] = F
        /\ \A b \in 0 .. MaxBuf : b # a + 1 => data'[w][b] = data[w][b]
    <3>1. /\ data'[w][a + 1] = F
          /\ \A v \in Ids, b \in 0 .. MaxBuf : v # w \/ b # a + 1 => data'[v][b] = data[v][b]
      <4>1. Writes(w, a + 1, F)
        BY <1>1 DEF Writes
      <4>2. QED
        BY <1>2, <1>3, <1>6, <4>1, DataWritten
    <3>2. QED
      BY <3>1
  <2>2. \A b \in 0 .. a : b \in 0 .. MaxBuf /\ b # a + 1
    BY <1>2, TracerAssumption
  <2>3. QED
    BY <1>2, <2>1, <2>2
<1>8. buf'[w] = a + 1 /\ reg'[w] = [reg[w] EXCEPT !.t = bottom[w]]
  BY <1>1, <1>2 DEF Set
<1>9. reg'[w].t = bottom[w] /\ reg'[w].x = reg[w].x
  BY <1>2, <1>5, <1>8, RegT
<1>10. Rear(w)' = Rear(w)
  BY <1>1 DEF Rear
<1>11. ASSUME NEW i \in Nat, InWindow(w, i)
       PROVE  /\ Elem(w, i)' = Elem(w, i)
              /\ \A b \in 0 .. buf[w] : Get(w, b, i)' = Get(w, b, i)
  <2> DEFINE S == {k \in t .. bottom[w] - 1 : k % s2 = i % s2}
  <2>1. i \in t .. bottom[w] - 1
    BY <1>2, <1>4, <1>5, <1>11 DEF InWindow
  <2>2. ASSUME NEW k \in t .. bottom[w] - 1, k # i PROVE k % s2 # i % s2
    <3>1. k \in Nat /\ s2 \in Nat \ {0} /\ (k < i \/ i < k)
      BY <1>2, <1>3, <2>1, <2>2
    <3>2. k < i => i - k < s2
      BY <1>2, <1>3, <1>5, <2>1, <2>2
    <3>3. i < k => k - i < s2
      BY <1>2, <1>3, <1>5, <2>1, <2>2
    <3> HIDE DEF s2
    <3>4. QED
      BY <3>1, <3>2, <3>3, CellsApart
  <2>3. S = {i}
    <3> HIDE DEF s2
    <3>1. QED
      BY <2>1, <2>2
  <2>4. Max(S) = i
    <3> HIDE DEF S
    <3>1. QED
      BY <2>3 DEF Max
  <2>5. i % s2 \in 0 .. s2 - 1
    <3>1. s2 \in Nat \ {0}
      BY <1>2, <1>3
    <3> HIDE DEF s2
    <3>2. QED
      BY <3>1, Division
  <2>6. F[i % s2] = Get(w, a, i)
    <3> HIDE DEF s2
    <3>1. F[i % s2] = IF S = {} THEN NoElement ELSE Get(w, a, Max(S))
      BY <2>5 DEF F
    <3> HIDE DEF S
    <3>2. QED
      BY <2>3, <2>4, <3>1
  <2>7. Elem(w, i)' = data'[w][a + 1][i % s2]
    BY <1>8 DEF Elem, Get, SizeOf
  <2>8. Elem(w, i)' = Elem(w, i)
    BY <1>7, <2>6, <2>7 DEF Elem
  <2>9. \A b \in 0 .. buf[w] : Get(w, b, i)' = Get(w, b, i)
    BY <1>7 DEF Get, SizeOf
  <2>10. QED
    BY <2>8, <2>9
<1>12. SameWindow(w)
  BY <1>1, <1>10, <1>11 DEF SameWindow
<1>13. KeepsTop(w)
  BY <1>1, <1>2, <1>4, <1>8, <1>10, <1>11, KeepsFirst
<1>14. Deque(w)'
  <2>1. SizeOf(buf[w])' = s2
    BY <1>8 DEF SizeOf
  <2>2. top'[w] <= Rear(w)' + 1 /\ Rear(w)' - top'[w] < s2
    BY <1>1, <1>2, <1>3, <1>4, <1>10
  <2>3. reg'[w].t <= bottom'[w] /\ bottom'[w] - reg'[w].t <= s2 /\ bottom'[w] - top'[w] < s2
    BY <1>1, <1>2, <1>3, <1>4, <1>9
  <2>4. QED
    BY <1>0, <1>1, <2>1, <2>2, <2>3 DEF Deque, At
<1>15. QED
  BY <1>1, <1>9, <1>12, <1>13, <1>14

\* An element is put after the others: not over one a thief may still take.
LEMMA PutDeque ==
  ASSUME TracerTypes, NEW w \in Ids, Deque(w), PushPut(w)
  PROVE  /\ Deque(w)' /\ KeepsTop(w)
         /\ top'[w] = top[w] /\ top[w] <= bottom[w] /\ bottom[w] \in Nat
         /\ Rear(w) = bottom[w] - 1 /\ Rear(w)' = bottom[w]
         /\ \A i \in Nat : InWindow(w, i) => Elem(w, i)' = Elem(w, i)
         /\ Elem(w, bottom[w])' = reg[w].x
<1> USE DEF dequeVars, syncVars, workVars, tracerHeapVars, ctlVars
<1> DEFINE a == buf[w]
           s == SizeOf(a)
           t == reg[w].t
           c == bottom[w] % s
           F == [data[w][a] EXCEPT ![c] = reg[w].x]
<1>1. /\ At(w, "pushPut") /\ ~Full(bottom[w] - t, a)
      /\ data' = [data EXCEPT ![w] = [@ EXCEPT ![a] = F]]
      /\ where' = [where EXCEPT ![w] = "pushBottom"]
      /\ UNCHANGED <<bottom, top, buf>>
  BY DEF PushPut, Put, Goto
<1>2. /\ bottom[w] \in Int /\ top[w] \in Nat /\ a \in 0 .. MaxBuf /\ t \in Nat
      /\ s \in Nat \ {0} /\ IsData(data) /\ where'[w] = "pushBottom"
  BY <1>1, DequeFacts DEF TracerTypes, WhereTypes
<1>4. /\ Rear(w) = bottom[w] - 1 /\ top[w] <= bottom[w]
      /\ t <= bottom[w] /\ bottom[w] - t <= s - 1
      /\ t <= top[w] \/ bottom[w] - top[w] < s
  BY <1>1, <1>2 DEF Deque, Rear, At, Popping, Full
<1>5. bottom[w] \in Nat /\ bottom[w] - top[w] < s
  BY <1>2, <1>4
<1>6. c \in 0 .. s - 1
  <2> HIDE DEF s
  <2>1. QED
    BY <1>2, <1>5, Division
<1>7. data[w][a] = [i \in 0 .. s - 1 |-> data[w][a][i]]
  BY <1>2 DEF IsData, IsBuffers, IsBuffer
<1>8. IsBuffer(F, a) /\ F[c] = reg[w].x /\ \A i \in (0 .. s - 1) \ {c} : F[i] = data[w][a][i]
  <2> HIDE DEF c, s
  <2>1. F = [i \in 0 .. s - 1 |-> IF i = c THEN reg[w].x ELSE data[w][a][i]]
    BY <1>6, <1>7
  <2> HIDE DEF F
  <2>2. F = [i \in 0 .. s - 1 |-> F[i]]
    BY <2>1
  <2>3. QED
    BY <1>6, <2>1, <2>2 DEF IsBuffer, s
<1> HIDE DEF F
<1>9. /\ data'[w][a] = F
      /\ \A b \in 0 .. MaxBuf : b # a => data'[w][b] = data[w][b]
  <2>1. /\ data'[w][a] = F
        /\ \A v \in Ids, b \in 0 .. MaxBuf : v # w \/ b # a => data'[v][b] = data[v][b]
    <3>1. Writes(w, a, F)
      BY <1>1 DEF Writes
    <3>2. QED
      BY <1>2, <1>8, <3>1, DataWritten
  <2>2. QED
    BY <2>1
<1>10. Rear(w)' = bottom[w]
  BY <1>1, <1>2 DEF Rear
<1>11. Elem(w, bottom[w])' = reg[w].x
  BY <1>1, <1>8, <1>9 DEF Elem, Get, SizeOf
<1>12. ASSUME NEW i \in Nat, InWindow(w, i)
       PROVE  /\ Elem(w, i)' = Elem(w, i)
              /\ \A b \in 0 .. buf[w] : Get(w, b, i)' = Get(w, b, i)
  <2>1. i < bottom[w] /\ bottom[w] - i < s
    BY <1>2, <1>4, <1>5, <1>12 DEF InWindow
  <2>2. i % s # c /\ i % s \in 0 .. s - 1
    <3> HIDE DEF s
    <3>1. QED
      BY <1>2, <1>5, <2>1, CellsApart, Division
  <2>3. Get(w, a, i)' = Get(w, a, i)
    BY <1>1, <1>8, <1>9, <2>2 DEF Get, SizeOf
  <2>4. \A b \in 0 .. buf[w] : b # a => Get(w, b, i)' = Get(w, b, i)
    <3>1. \A b \in 0 .. buf[w] : b \in 0 .. MaxBuf
      BY <1>2, TracerAssumption
    <3>2. \A b \in 0 .. buf[w] : b # a => data'[w][b] = data[w][b]
      BY <1>9, <3>1
    <3>3. QED
      BY <3>2, Zenon DEF Get, SizeOf
  <2>5. Elem(w, i)' = Elem(w, i)
    BY <1>1, <2>3 DEF Elem, Get, SizeOf
  <2>6. QED
    BY <1>1, <2>3, <2>4, <2>5
<1>13. KeepsTop(w)
  BY <1>1, <1>2, <1>4, <1>10, <1>12, KeepsFirst
<1>14. Deque(w)'
  BY <1>1, <1>2, <1>4, <1>5, <1>10 DEF Deque, At, SizeOf
<1>15. QED
  BY <1>1, <1>4, <1>5, <1>10, <1>11, <1>12, <1>13, <1>14

\* A worker has what it had, in its deque and in its hand.
SameTasks(w) ==
  SameWindow(w) /\ (Held(w)' <=> Held(w)) /\ (Held(w) => reg'[w].x = reg[w].x)
\* It has taken the last element of its deque in its hand.
LastTaken(w) ==
  /\ bottom[w] \in Nat /\ InWindow(w, bottom[w])
  /\ \A i \in Nat : (InWindow(w, i)' <=> InWindow(w, i) /\ i # bottom[w]) /\ Elem(w, i)' = Elem(w, i)
  /\ ~Held(w) /\ Held(w)' /\ reg'[w].x = Elem(w, bottom[w])

LEMMA PushDeque ==
  ASSUME TracerTypes, NEW w \in Ids, Deque(w), PushTop(w) \/ PushGrow(w) \/ PushBottom(w)
  PROVE  Deque(w)' /\ KeepsTop(w) /\ SameTasks(w)
<1> USE DEF dequeVars, syncVars, workVars, tracerHeapVars, ctlVars
<1>1. /\ bottom[w] \in Int /\ top[w] \in Nat /\ buf[w] \in 0 .. MaxBuf
      /\ SizeOf(buf[w]) \in Nat \ {0} /\ where \in [Ids -> Labels] /\ bottom \in [Ids -> Int]
  BY DequeFacts DEF TracerTypes, WhereTypes, DequeTypes
<1>2. CASE PushTop(w)
  <2>1. /\ where[w] = "push" /\ where'[w] = "pushPut"
        /\ UNCHANGED <<bottom, top, buf, data>>
    BY <1>1, <1>2 DEF PushTop, At, Goto
  <2>2. reg'[w].t = top[w] /\ reg'[w].x = reg[w].x
    BY <1>2, DequeFacts, RegT DEF PushTop, Set
  <2>3. Rear(w) = bottom[w] - 1 /\ Rear(w)' = Rear(w)
    BY <2>1 DEF Rear, Popping
  <2>4. Deque(w)'
    BY <1>1, <2>1, <2>2, <2>3 DEF Deque, At, SizeOf
  <2>5. SameDeque(w)
    BY <2>1 DEF SameDeque
  <2>6. SameWindow(w)
    BY <2>1, <2>3, <2>5, SameCells DEF SameWindow
  <2>7. KeepsTop(w)
    <3>1. \A i \in Nat : InWindow(w, i) =>
            Elem(w, i)' = Elem(w, i) /\ \A b \in 0 .. buf[w] : Get(w, b, i)' = Get(w, b, i)
      BY <2>5, SameCells
    <3>2. QED
      BY <1>1, <2>1, <2>3, <3>1, KeepsFirst
  <2>8. QED
    BY <2>1, <2>2, <2>4, <2>6, <2>7 DEF SameTasks, Held, At
<1>3. CASE PushGrow(w)
  <2>1. where[w] = "pushPut" /\ where'[w] = where[w]
    BY <1>3 DEF PushGrow, At
  <2>2. QED
    BY <1>3, <2>1, GrowDeque DEF SameTasks, Held, At
<1>4. CASE PushBottom(w)
  <2>1. /\ where[w] = "pushBottom" /\ where'[w] = "visit" /\ bottom'[w] = bottom[w] + 1
        /\ UNCHANGED <<top, buf, data, reg>>
    BY <1>1, <1>4 DEF PushBottom, At, Goto
  <2>2. Rear(w) = bottom[w] /\ Rear(w)' = Rear(w)
    BY <1>1, <2>1 DEF Rear, Popping
  <2>3. Deque(w)'
    BY <1>1, <2>1, <2>2 DEF Deque, At, SizeOf
  <2>4. \A i : Elem(w, i)' = Elem(w, i) /\ \A b : Get(w, b, i)' = Get(w, b, i)
    BY <2>1 DEF Elem, Get
  <2>5. SameWindow(w) /\ KeepsTop(w)
    BY <1>1, <2>1, <2>2, <2>4, KeepsFirst DEF SameWindow
  <2>6. QED
    BY <2>1, <2>3, <2>5 DEF SameTasks, Held, At
<1>5. QED
  BY <1>2, <1>3, <1>4

LEMMA PopDeque ==
  ASSUME TracerTypes, NEW w \in Ids, Deque(w), PopStep(w),
         \A i \in Nat : InWindow(w, i) => Elem(w, i) # NoElement
  PROVE  Deque(w)' /\ KeepsTop(w) /\ (SameTasks(w) \/ LastTaken(w))
<1> USE DEF dequeVars, syncVars, workVars, tracerHeapVars, ctlVars
<1>1. /\ bottom[w] \in Int /\ top[w] \in Nat /\ buf[w] \in 0 .. MaxBuf
      /\ SizeOf(buf[w]) \in Nat \ {0} /\ where \in [Ids -> Labels] /\ bottom \in [Ids -> Int]
      /\ top \in [Ids -> Nat] /\ RegTypes
  BY DequeFacts DEF TracerTypes, WhereTypes, DequeTypes
<1>2. UNCHANGED <<buf, data>>
  BY DEF PopStep, PopBottom, PopTop, PopCas, PopRestore
<1>3. \A i : Elem(w, i)' = Elem(w, i) /\ \A b : Get(w, b, i)' = Get(w, b, i)
  BY <1>2 DEF Elem, Get
<1>4. ASSUME top'[w] = top[w], Rear(w)' = Rear(w)
      PROVE  SameWindow(w) /\ KeepsTop(w)
  BY <1>1, <1>2, <1>3, <1>4, DequeFacts, KeepsFirst DEF SameWindow
<1>5. CASE PopBottom(w)
  <2>1. where[w] = "pop" /\ where'[w] = "popTop" /\ bottom'[w] = bottom[w] - 1 /\ top' = top
    BY <1>1, <1>5 DEF PopBottom, At, Goto
  <2>2. Rear(w) = bottom[w] - 1 /\ Rear(w)' = Rear(w)
    BY <1>1, <2>1 DEF Rear, Popping
  <2>3. Deque(w)'
    BY <1>1, <1>2, <2>1, <2>2 DEF Deque, At, SizeOf
  <2>4. QED
    BY <1>4, <2>1, <2>2, <2>3 DEF SameTasks, Held, At
<1>6. CASE PopTop(w)
  <2> DEFINE span == bottom[w] + 1 - top[w]
             x == Get(w, buf[w], bottom[w])
  <2>1. /\ where[w] = "popTop" /\ UNCHANGED <<bottom, top>> /\ Rear(w) = bottom[w]
        /\ top[w] <= bottom[w] + 1 /\ x = Elem(w, bottom[w]) /\ span \in Int
    BY <1>1, <1>6 DEF PopTop, At, Rear, Popping, Deque, Elem
  <2>2. CASE span > 1 /\ Set(w, [NoReg EXCEPT !.x = x]) /\ Goto(w, "trace")
    <3>1. where'[w] = "trace" /\ Rear(w)' = bottom[w] - 1
      BY <1>1, <2>1, <2>2 DEF Goto, Rear, Popping
    <3>2. reg'[w].x = x
      BY <1>1, <2>2, Loaded
    <3>3. Deque(w)'
      BY <1>1, <1>2, <2>1, <2>2, <3>1 DEF Deque, At, SizeOf
    <3>4. top[w] < bottom[w] /\ bottom[w] \in Nat
      BY <1>1, <2>2
    <3>5. KeepsTop(w)
      BY <1>1, <1>2, <1>3, <2>1, <3>1, <3>4 DEF KeepsTop, InWindow
    <3>6. LastTaken(w)
      BY <1>1, <1>3, <2>1, <3>1, <3>2, <3>4 DEF LastTaken, InWindow, Held, At
    <3>7. QED
      BY <3>3, <3>5, <3>6
  <2>3. CASE span = 1 /\ Set(w, [NoReg EXCEPT !.x = x, !.t = top[w]]) /\ Goto(w, "popCas")
    <3>1. where'[w] = "popCas" /\ Rear(w)' = bottom[w]
      BY <1>1, <2>1, <2>3 DEF Goto, Rear, Popping
    <3>2. reg'[w].x = x /\ reg'[w].t = top[w]
      BY <1>1, <2>3, LoadedT
    <3>3. top[w] = bottom[w]
      BY <1>1, <2>3
    <3>4. Elem(w, bottom[w])' = Elem(w, bottom[w])
      BY <1>2, <2>1 DEF Elem, Get
    <3>5. Deque(w)'
      BY <1>1, <1>2, <2>1, <3>1, <3>2, <3>3, <3>4 DEF Deque, At, SizeOf
    <3>6. QED
      BY <1>4, <2>1, <3>1, <3>5 DEF SameTasks, Held, At
  <2>4. CASE span < 1 /\ ClearReg(w) /\ Goto(w, "popRestore")
    <3>1. where'[w] = "popRestore" /\ Rear(w)' = bottom[w]
      BY <1>1, <2>1, <2>4 DEF Goto, Rear, Popping
    <3>2. reg'[w].x = NoElement
      BY <1>1, <2>4, RegClear, RegWritten DEF ClearReg, NoReg
    <3>3. top[w] = bottom[w] + 1
      BY <1>1, <2>1, <2>4
    <3>4. Deque(w)'
      BY <1>1, <1>2, <2>1, <3>1, <3>3 DEF Deque, At, SizeOf
    <3>5. QED
      BY <1>4, <2>1, <3>1, <3>2, <3>4 DEF SameTasks, Held, At
  <2>5. QED
    BY <1>6, <2>2, <2>3, <2>4 DEF PopTop
<1>7. CASE PopCas(w)
  <2>1. /\ where[w] = "popCas" /\ where'[w] = "popRestore" /\ bottom' = bottom
        /\ Rear(w) = bottom[w] /\ Rear(w)' = bottom[w]
        /\ reg[w].t = bottom[w] /\ reg[w].t <= top[w] /\ reg[w].x = Elem(w, bottom[w])
        /\ top[w] <= bottom[w] + 1
    BY <1>1, <1>7 DEF PopCas, At, Goto, Rear, Popping, Deque
  <2>2. CASE top[w] = reg[w].t /\ top' = [top EXCEPT ![w] = @ + 1] /\ Set(w, [NoReg EXCEPT !.x = reg[w].x])
    <3>1. top'[w] = bottom[w] + 1 /\ top[w] = bottom[w] /\ bottom[w] \in Nat
      BY <1>1, <2>1, <2>2
    <3>2. reg'[w].x = reg[w].x
      BY <1>1, <2>2, Loaded
    <3>3. Deque(w)'
      BY <1>1, <1>2, <2>1, <3>1 DEF Deque, At, SizeOf
    <3>4. KeepsTop(w)
      BY <1>1, <1>2, <3>1 DEF KeepsTop
    <3>5. InWindow(w, bottom[w]) /\ reg[w].x # NoElement
      BY <2>1, <3>1 DEF InWindow
    <3>6. \A i \in Nat : InWindow(w, i)' <=> InWindow(w, i) /\ i # bottom[w]
      BY <2>1, <3>1 DEF InWindow
    <3>7. LastTaken(w)
      BY <1>3, <2>1, <3>1, <3>2, <3>5, <3>6 DEF LastTaken, Held, At
    <3>8. QED
      BY <3>3, <3>4, <3>7
  <2>3. CASE top[w] # reg[w].t /\ top' = top /\ ClearReg(w)
    <3>1. top'[w] = bottom[w] + 1
      BY <1>1, <2>1, <2>3
    <3>2. reg'[w].x = NoElement
      BY <1>1, <2>3, RegClear, RegWritten DEF ClearReg, NoReg
    <3>3. Deque(w)'
      BY <1>1, <1>2, <2>1, <3>1 DEF Deque, At, SizeOf
    <3>4. QED
      BY <1>4, <2>1, <2>3, <3>2, <3>3 DEF SameTasks, Held, At
  <2>4. QED
    BY <1>7, <2>2, <2>3 DEF PopCas
<1>8. CASE PopRestore(w)
  <2>1. /\ where[w] = "popRestore" /\ bottom'[w] = bottom[w] + 1 /\ UNCHANGED <<top, reg>>
        /\ \/ where'[w] = "trace" /\ reg[w].x # NoElement
           \/ where'[w] = "steal" /\ reg[w].x = NoElement
    BY <1>1, <1>8 DEF PopRestore, At, Goto
  <2>2. Rear(w) = bottom[w] /\ Rear(w)' = Rear(w)
    BY <1>1, <2>1 DEF Rear, Popping
  <2>3. Deque(w)'
    BY <1>1, <1>2, <2>1, <2>2 DEF Deque, At, SizeOf
  <2>4. QED
    BY <1>4, <2>1, <2>2, <2>3 DEF SameTasks, Held, At
<1>9. QED
  BY <1>5, <1>6, <1>7, <1>8 DEF PopStep

\* A thief has taken the first element of a deque in its hand.
FirstTaken(w, v) ==
  /\ InWindow(v, top[v]) /\ ~Held(w) /\ Held(w)' /\ reg'[w].x = Elem(v, top[v])
  /\ \A u \in Ids, i \in Nat :
       (InWindow(u, i)' <=> InWindow(u, i) /\ ~(u = v /\ i = top[v])) /\ Elem(u, i)' = Elem(u, i)

\* The steps of a thief before its compare and swap, and when that fails.
LEMMA LookDeque ==
  ASSUME TracerTypes, Deques, NEW w \in Ids, Thief(w), StealStep(w), top' = top
  PROVE  Deques' /\ (\A v \in Ids : KeepsTop(v)) /\ Thief(w)' /\ SameTasks(w)
<1> USE DEF dequeVars, syncVars, workVars, tracerHeapVars, ctlVars
<1>1. /\ UNCHANGED <<bottom, top, buf, data>>
      /\ where[w] \in Stealing \cup {"steal"}
      /\ \A u \in Ids \ {w} : where'[u] = where[u] /\ reg'[u] = reg[u]
      /\ where \in [Ids -> Labels] /\ stealId \in [Ids -> Ids] /\ RegTypes
  BY DEF StealStep, StealTop, StealBottom, StealBuf, StealGet, StealCas, At, Stealing, Goto, Set, ClearReg,
         TracerTypes, WhereTypes, RegTypes, StealTypes
<1>2. \A v \in Ids : SameDeque(v)
  BY <1>1 DEF SameDeque
<1>3. ASSUME where'[w] \in Stealing \cup {"steal"}, Thief(w)'
      PROVE  Deques' /\ (\A v \in Ids : KeepsTop(v)) /\ Thief(w)' /\ SameTasks(w)
  <2>1. \A l \in Stealing \cup {"steal"} : l \notin Popping \cup {"pushPut", "pushBottom"}
    BY DEF Stealing, Popping
  <2>2. Deque(w)' /\ SameWindow(w) /\ KeepsTop(w)
    BY <1>1, <1>2, <1>3, <2>1, IdleDeque DEF Deques
  <2>3. ASSUME NEW v \in Ids, v # w PROVE Deque(v)' /\ KeepsTop(v)
    BY <1>1, <1>2, <2>3, OthersDeque DEF Deques
  <2>4. ~Held(w) /\ ~Held(w)'
    BY <1>1, <1>3 DEF Held, At, Stealing
  <2>5. QED
    BY <1>3, <2>2, <2>3, <2>4 DEF Deques, SameTasks
<1>4. /\ stealId[w] \in Ids /\ bottom[stealId[w]] \in Int /\ top[stealId[w]] \in Nat
      /\ reg[w].t \in Nat /\ IsReg(reg[w]) /\ buf[stealId[w]] \in 0 .. MaxBuf
      /\ buf[stealId[w]] \in Nat
  BY <1>1, DequeFacts, TracerAssumption
<1>5. CASE StealTop(w)
  <2>1. where'[w] = "stealBottom" /\ stealId' = stealId /\ reg'[w] = [NoReg EXCEPT !.t = top[stealId[w]]]
    BY <1>1, <1>5 DEF StealTop, Goto, Set, RegTypes
  <2>2. reg'[w].t = top[stealId[w]]
    BY <2>1 DEF NoReg
  <2>3. Thief(w)'
    BY <1>1, <1>4, <2>1, <2>2 DEF Thief, At
  <2>4. QED
    BY <1>3, <2>1, <2>3 DEF Stealing
<1>6. CASE StealBottom(w)
  <2>1. CASE bottom[stealId[w]] - reg[w].t > 0 /\ Goto(w, "stealBuf") /\ UNCHANGED <<reg, tries, stealId>>
    <3>1. where'[w] = "stealBuf" /\ where[w] = "stealBottom"
      BY <1>1, <1>6, <2>1 DEF StealBottom, Goto, At
    <3>2. reg[w].t <= top[stealId[w]]
      BY <3>1 DEF Thief, Stealing
    <3>3. reg[w].t = top[stealId[w]] => InWindow(stealId[w], reg[w].t)'
      <4>1. ASSUME NEW v \in Ids, v = stealId[w], reg[w].t = top[v] PROVE InWindow(v, reg[w].t)'
        <5>1. reg[w].t <= Rear(v)' /\ top'[v] <= reg'[w].t
          BY <1>1, <1>4, <2>1, <4>1 DEF Rear
        <5>2. QED
          BY <2>1, <5>1 DEF InWindow
      <4>2. QED
        BY <1>1, <1>4, <2>1, <4>1
    <3>4. Thief(w)'
      BY <1>1, <2>1, <3>1, <3>2, <3>3 DEF Thief, At
    <3>5. QED
      BY <1>3, <3>1, <3>4 DEF Stealing
  <2>2. CASE Goto(w, "steal")
    <3>1. where'[w] = "steal"
      BY <1>1, <2>2 DEF Goto
    <3>2. QED
      BY <1>3, <3>1 DEF Thief, At, Stealing
  <2>3. QED
    BY <1>6, <2>1, <2>2 DEF StealBottom
<1>7. CASE StealBuf(w)
  <2>1. where'[w] = "stealGet" /\ where[w] = "stealBuf" /\ stealId' = stealId
        /\ reg'[w] = [reg[w] EXCEPT !.a = buf[stealId[w]]]
    BY <1>1, <1>7 DEF StealBuf, Goto, Set, RegTypes, At
  <2>2. reg'[w].t = reg[w].t /\ reg'[w].a = buf[stealId[w]]
    BY <1>4, <2>1, RegA
  <2>3. /\ reg[w].t <= top[stealId[w]]
        /\ reg[w].t = top[stealId[w]] => InWindow(stealId[w], reg[w].t)
    BY <2>1 DEF Thief, Stealing
  <2>4. \A v, i : InWindow(v, i) /\ v \in Ids => InWindow(v, i)'
    <3>1. ASSUME NEW v \in Ids PROVE Rear(v)' = Rear(v)
      <4>1. CASE v = w
        BY <1>1, <2>1, <4>1 DEF Rear, Popping, Stealing
      <4>2. CASE v # w
        BY <1>1, <4>2 DEF Rear
      <4>3. QED
        BY <4>1, <4>2
    <3>2. QED
      BY <1>1, <3>1 DEF InWindow
  <2>5. ASSUME reg[w].t = top[stealId[w]] PROVE InWindow(stealId[w], reg[w].t)'
    <3>1. PICK v \in Ids, i \in Nat : v = stealId[w] /\ i = reg[w].t
      BY <1>4
    <3>2. InWindow(v, i)' /\ v = stealId'[w] /\ i = reg'[w].t
      BY <2>1, <2>2, <2>3, <2>4, <2>5, <3>1
    <3>3. QED
      BY <3>2 DEF InWindow, Rear
  <2>6. (Get(stealId[w], reg[w].a, reg[w].t) = Elem(stealId[w], reg[w].t))'
    BY <1>1, <2>1, <2>2 DEF Elem
  <2>7. Thief(w)'
    BY <1>1, <1>4, <2>1, <2>2, <2>3, <2>5, <2>6 DEF Thief, At
  <2>8. QED
    BY <1>3, <2>1, <2>7 DEF Stealing
<1>8. CASE StealGet(w)
  <2> DEFINE v == stealId[w]
             t == reg[w].t
             x == Get(stealId[w], reg[w].a, reg[w].t)
  <2>1. where'[w] = "stealCas" /\ where[w] = "stealGet" /\ stealId' = stealId
        /\ reg'[w] = [reg[w] EXCEPT !.x = x, !.a = 0]
    BY <1>1, <1>8 DEF StealGet, Goto, Set, RegTypes, At
  <2>2. reg'[w].t = t /\ reg'[w].x = x
    <3> HIDE DEF x
    <3>1. QED
      BY <1>4, <2>1 DEF IsReg
  <2>3. /\ t <= top[v]
        /\ t = top[v] => InWindow(v, t)
        /\ t = top[v] => x = Elem(v, t)
    BY <2>1 DEF Thief, Stealing, At
  <2>4. ASSUME NEW u \in Ids PROVE Rear(u)' = Rear(u)
    <3>1. CASE u = w
      BY <1>1, <2>1, <3>1 DEF Rear, Popping, Stealing
    <3>2. CASE u # w
      BY <1>1, <3>2 DEF Rear
    <3>3. QED
      BY <3>1, <3>2
  <2>5. ASSUME t = top[v] PROVE InWindow(v, t)'
    BY <1>1, <1>4, <2>1, <2>2, <2>3, <2>4, <2>5 DEF InWindow
  <2>6. ASSUME t = top[v] PROVE (reg[w].x = Elem(v, t))'
    BY <1>1, <2>1, <2>2, <2>3, <2>6 DEF Elem, Get
  <2>7. Thief(w)'
    BY <1>1, <2>1, <2>2, <2>3, <2>5, <2>6 DEF Thief, At
  <2>8. QED
    BY <1>3, <2>1, <2>7 DEF Stealing
<1>9. CASE StealCas(w)
  <2>1. where'[w] = "steal"
    <3>1. stealId[w] \in Ids /\ top[stealId[w]] # top[stealId[w]] + 1 /\ top \in [Ids -> Nat]
      BY <1>4 DEF TracerTypes, DequeTypes
    <3>2. Goto(w, "steal")
      BY <1>9, <3>1 DEF StealCas
    <3>3. QED
      BY <1>1, <3>2 DEF Goto
  <2>2. QED
    BY <1>3, <2>1 DEF Thief, At, Stealing
<1>10. QED
  BY <1>5, <1>6, <1>7, <1>8, <1>9 DEF StealStep

\* A thief that moves the top has the element that was there.
LEMMA RobDeque ==
  ASSUME TracerTypes, Deques, NEW w \in Ids, Thief(w), StealStep(w), top' # top
  PROVE  /\ Deques' /\ (\A v \in Ids : KeepsTop(v)) /\ Thief(w)'
         /\ FirstTaken(w, stealId[w])
<1> USE DEF dequeVars, syncVars, workVars, tracerHeapVars, ctlVars
<1> DEFINE v == stealId[w]
<1>1. /\ UNCHANGED <<bottom, buf, data, stealId>> /\ where[w] = "stealCas"
      /\ top[v] = reg[w].t /\ top' = [top EXCEPT ![v] = @ + 1]
      /\ Set(w, [NoReg EXCEPT !.x = reg[w].x]) /\ Goto(w, "trace")
  BY DEF StealStep, StealTop, StealBottom, StealBuf, StealGet, StealCas, At
<1>2. /\ v \in Ids /\ where \in [Ids -> Labels] /\ top \in [Ids -> Nat] /\ bottom \in [Ids -> Int]
      /\ RegTypes
  BY DEF TracerTypes, StealTypes, WhereTypes, DequeTypes
<1>3. /\ where'[w] = "trace" /\ reg'[w].x = reg[w].x /\ top'[v] = top[v] + 1
      /\ \A u \in Ids \ {w} : where'[u] = where[u] /\ reg'[u] = reg[u]
      /\ \A u \in Ids \ {v} : top'[u] = top[u]
  BY <1>1, <1>2, Loaded DEF Goto
<1>4. InWindow(v, top[v]) /\ reg[w].x = Elem(v, top[v])
  BY <1>1 DEF Thief, Stealing, At
<1>5. \A u \in Ids : Rear(u)' = Rear(u)
  <2>1. Rear(w)' = Rear(w)
    BY <1>1, <1>3 DEF Rear, Popping
  <2>2. \A u \in Ids \ {w} : Rear(u)' = Rear(u)
    BY <1>1, <1>3 DEF Rear
  <2>3. QED
    BY <2>1, <2>2
<1>6. \A u, i : Elem(u, i)' = Elem(u, i) /\ \A b : Get(u, b, i)' = Get(u, b, i)
  BY <1>1 DEF Elem, Get
<1>7. \A u \in Ids : Rear(u) \in Int /\ top[u] \in Nat /\ buf[u] \in 0 .. MaxBuf
  BY DequeFacts
<1>8. \A u \in Ids, i \in Nat : InWindow(u, i)' <=> InWindow(u, i) /\ ~(u = v /\ i = top[v])
  BY <1>2, <1>3, <1>5, <1>7 DEF InWindow
<1>9. \A u \in Ids : KeepsTop(u)
  BY <1>1, <1>2, <1>3, <1>5, <1>6, <1>7 DEF KeepsTop, InWindow
<1>10. ASSUME NEW u \in Ids PROVE Deque(u)'
  <2>1. CASE u # v /\ u # w
    BY <1>1, <1>3, <2>1, OthersDeque DEF Deques, SameDeque
  <2>2. CASE u # v /\ u = w
    BY <1>1, <1>3, <2>2, IdleDeque DEF Deques, SameDeque, Popping
  <2>3. CASE u = v
    <3>1. top[v] <= Rear(v) /\ Deque(v) /\ SizeOf(buf[v]) \in Nat
      BY <1>2, <1>4, DequeFacts DEF InWindow, Deques
    <3>2. top'[v] <= Rear(v)' + 1 /\ Rear(v)' - top'[v] < SizeOf(buf[v])
      <4>1. Rear(v)' = Rear(v) /\ top'[v] = top[v] + 1 /\ Rear(v) \in Int /\ top[v] \in Nat
            /\ Rear(v) - top[v] < SizeOf(buf[v])
        BY <1>1, <1>2, <1>3, <1>5, <1>7, <3>1 DEF Deque
      <4>2. QED
        BY <3>1, <4>1
    <3>3. CASE v = w
      BY <1>1, <1>3, <2>3, <3>2, <3>3 DEF Deque, At, SizeOf
    <3>4. CASE v # w
      <4>1. where'[v] = where[v] /\ reg'[v] = reg[v]
        BY <1>2, <1>3, <3>4
      <4>2. where[v] # "popRestore"
        BY <1>2, <1>7, <3>1 DEF Deque, At, Rear, Popping
      <4>3. At(v, "popCas") => reg[v].t <= top[v] + 1
        BY <1>7, <3>1, DequeFacts, <1>2 DEF Deque
      <4>4. At(v, "pushPut") => reg[v].t <= top[v] + 1 \/ bottom[v] - (top[v] + 1) < SizeOf(buf[v])
        <5>1. bottom[v] \in Int /\ reg[v].t \in Nat /\ top[v] \in Nat
          BY <1>2, DequeFacts
        <5>2. QED
          BY <3>1, <5>1 DEF Deque
      <4>5. QED
        BY <1>1, <1>3, <1>6, <2>3, <3>1, <3>2, <4>1, <4>2, <4>3, <4>4 DEF Deque, At, SizeOf
    <3>5. QED
      BY <3>3, <3>4
  <2>4. QED
    BY <2>1, <2>2, <2>3
<1>11. FirstTaken(w, v)
  BY <1>1, <1>3, <1>4, <1>6, <1>8 DEF FirstTaken, Held, At
<1>12. Thief(w)'
  BY <1>3 DEF Thief, At, Stealing
<1>13. QED
  BY <1>9, <1>10, <1>11, <1>12 DEF Deques

-------------------------------------------------------------------------------
(* The tasks *)

LEMMA TasksStay ==
  ASSUME Tasks, UNCHANGED <<marked, traced>>,
         \A u \in Ids, k \in Places :
           (Occupied(u, k)' <=> Occupied(u, k)) /\ (Occupied(u, k) => Content(u, k)' = Content(u, k))
  PROVE  Tasks'
<1>1. \A o : ToDo(o)' <=> ToDo(o)
  BY DEF ToDo
<1>2. ASSUME NEW u \in Ids, NEW k \in Places, Occupied(u, k)' PROVE ToDo(Content(u, k))'
  <2>1. ToDo(Content(u, k)) /\ Content(u, k)' = Content(u, k)
    BY <1>2 DEF Tasks
  <2>2. QED
    BY <2>1 DEF ToDo
<1>3. ASSUME NEW u \in Ids, NEW v \in Ids, NEW i \in Places, NEW j \in Places,
             Occupied(u, i)', Occupied(v, j)', Content(u, i)' = Content(v, j)'
      PROVE  u = v /\ i = j
  BY <1>3 DEF Tasks
<1>4. ASSUME NEW o \in HeapObjects, ToDo(o)'
      PROVE  \E u \in Ids, k \in Places : Occupied(u, k)' /\ Content(u, k)' = o
  <2>1. PICK u \in Ids, k \in Places : Occupied(u, k) /\ Content(u, k) = o
    BY <1>1, <1>4 DEF Tasks
  <2>2. QED
    BY <2>1
<1>5. QED
  BY <1>2, <1>3, <1>4 DEF Tasks

\* An object to trace goes from one place to another.
LEMMA TaskMoves ==
  ASSUME Tasks, UNCHANGED <<marked, traced>>,
         NEW v \in Ids, NEW i \in Places, NEW w \in Ids, NEW j \in Places,
         Occupied(v, i), ~Occupied(w, j), Content(w, j)' = Content(v, i),
         \A u \in Ids, k \in Places :
           /\ Occupied(u, k)' <=> (u = w /\ k = j) \/ (Occupied(u, k) /\ ~(u = v /\ k = i))
           /\ Occupied(u, k) /\ ~(u = v /\ k = i) => Content(u, k)' = Content(u, k)
  PROVE  Tasks'
<1>1. \A o : ToDo(o)' <=> ToDo(o)
  BY DEF ToDo
<1>2. ASSUME NEW u \in Ids, NEW k \in Places, Occupied(u, k)' PROVE ToDo(Content(u, k))'
  <2>1. CASE u = w /\ k = j
    <3>1. ToDo(Content(v, i)) /\ Content(u, k)' = Content(v, i)
      BY <2>1 DEF Tasks
    <3>2. QED
      BY <3>1 DEF ToDo
  <2>2. CASE ~(u = w /\ k = j)
    <3>1. ToDo(Content(u, k)) /\ Content(u, k)' = Content(u, k)
      BY <1>2, <2>2 DEF Tasks
    <3>2. QED
      BY <3>1 DEF ToDo
  <2>3. QED
    BY <2>1, <2>2
<1>3. ASSUME NEW u1 \in Ids, NEW u2 \in Ids, NEW k1 \in Places, NEW k2 \in Places,
             Occupied(u1, k1)', Occupied(u2, k2)', Content(u1, k1)' = Content(u2, k2)'
      PROVE  u1 = u2 /\ k1 = k2
  <2>1. ASSUME NEW u \in Ids, NEW k \in Places, Occupied(u, k)', ~(u = w /\ k = j)
        PROVE  Content(u, k)' # Content(w, j)'
    <3>1. Occupied(u, k) /\ ~(u = v /\ k = i) /\ Content(u, k)' = Content(u, k)
      BY <2>1
    <3>2. Content(u, k) # Content(v, i)
      BY <3>1 DEF Tasks
    <3>3. QED
      BY <3>1, <3>2
  <2>2. CASE (u1 = w /\ k1 = j) \/ (u2 = w /\ k2 = j)
    BY <1>3, <2>1, <2>2
  <2>3. CASE ~(u1 = w /\ k1 = j) /\ ~(u2 = w /\ k2 = j)
    <3>1. /\ Occupied(u1, k1) /\ Content(u1, k1)' = Content(u1, k1)
          /\ Occupied(u2, k2) /\ Content(u2, k2)' = Content(u2, k2)
      BY <1>3, <2>3
    <3>2. Content(u1, k1) = Content(u2, k2)
      BY <1>3, <3>1
    <3>3. QED
      BY <3>1, <3>2 DEF Tasks
  <2>4. QED
    BY <2>2, <2>3
<1>4. ASSUME NEW o \in HeapObjects, ToDo(o)'
      PROVE  \E u \in Ids, k \in Places : Occupied(u, k)' /\ Content(u, k)' = o
  <2>1. PICK u \in Ids, k \in Places : Occupied(u, k) /\ Content(u, k) = o
    BY <1>1, <1>4 DEF Tasks
  <2>2. CASE u = v /\ k = i
    <3>1. Occupied(w, j)' /\ Content(w, j)' = o
      BY <2>1, <2>2
    <3>2. QED
      BY <3>1
  <2>3. CASE ~(u = v /\ k = i)
    BY <2>1, <2>3
  <2>4. QED
    BY <2>2, <2>3
<1>5. QED
  BY <1>2, <1>3, <1>4 DEF Tasks

\* A worker marks an object, which it then has in its hand.
LEMMA TaskAdded ==
  ASSUME Tasks, TraceTypes, traced' = traced, NEW w \in Ids, ~Held(w),
         NEW o \in HeapObjects, o \notin marked, marked' = marked \cup {o}, Content(w, Hand)' = o,
         \A u \in Ids, k \in Places :
           /\ Occupied(u, k)' <=> (u = w /\ k = Hand) \/ Occupied(u, k)
           /\ Occupied(u, k) => Content(u, k)' = Content(u, k)
  PROVE  Tasks'
<1>1. traced[o] = 0 /\ Hand \in Places
  BY DEF TraceTypes, Places
<1>2. \A c : ToDo(c)' <=> ToDo(c) \/ c = o
  BY <1>1 DEF ToDo
<1>3. ~Occupied(w, Hand)
  BY DEF Occupied
<1>4. ASSUME NEW u \in Ids, NEW k \in Places, Occupied(u, k)' PROVE ToDo(Content(u, k))'
  <2>1. CASE u = w /\ k = Hand
    <3>1. (Content(u, k) = o)'
      BY <2>1
    <3>2. QED
      BY <1>1, <3>1 DEF ToDo
  <2>2. CASE ~(u = w /\ k = Hand)
    <3>1. ToDo(Content(u, k)) /\ Content(u, k)' = Content(u, k)
      BY <1>4, <2>2 DEF Tasks
    <3>2. QED
      BY <3>1 DEF ToDo
  <2>3. QED
    BY <2>1, <2>2
<1>5. ASSUME NEW u \in Ids, NEW k \in Places, Occupied(u, k)
      PROVE  Content(u, k)' = Content(u, k) /\ Content(u, k) # o
  BY <1>5 DEF Tasks, ToDo
<1>6. ASSUME NEW u1 \in Ids, NEW u2 \in Ids, NEW k1 \in Places, NEW k2 \in Places,
             Occupied(u1, k1)', Occupied(u2, k2)', Content(u1, k1)' = Content(u2, k2)'
      PROVE  u1 = u2 /\ k1 = k2
  <2>1. CASE Occupied(u1, k1) /\ Occupied(u2, k2)
    BY <1>6, <2>1 DEF Tasks
  <2>2. CASE ~Occupied(u1, k1) \/ ~Occupied(u2, k2)
    BY <1>5, <1>6, <2>2
  <2>3. QED
    BY <2>1, <2>2
<1>7. ASSUME NEW c \in HeapObjects, ToDo(c)'
      PROVE  \E u \in Ids, k \in Places : Occupied(u, k)' /\ Content(u, k)' = c
  <2>1. CASE c = o
    <3>1. Occupied(w, Hand)' /\ Content(w, Hand)' = c
      BY <1>1, <2>1
    <3>2. QED
      BY <1>1, <3>1
  <2>2. CASE c # o
    <3>1. PICK u \in Ids, k \in Places : Occupied(u, k) /\ Content(u, k) = c
      BY <1>2, <1>7, <2>2 DEF Tasks
    <3>2. QED
      BY <3>1
  <2>3. QED
    BY <2>1, <2>2
<1>8. QED
  BY <1>4, <1>6, <1>7 DEF Tasks

\* A worker traces the object it has in its hand.
LEMMA TaskDone ==
  ASSUME Tasks, TraceTypes, marked' = marked, NEW w \in Ids, Held(w),
         traced' = [traced EXCEPT ![reg[w].x] = 1],
         \A u \in Ids, k \in Places :
           /\ Occupied(u, k)' <=> Occupied(u, k) /\ ~(u = w /\ k = Hand)
           /\ Occupied(u, k) /\ ~(u = w /\ k = Hand) => Content(u, k)' = Content(u, k)
  PROVE  Tasks'
<1> DEFINE x == reg[w].x
<1>1. Hand \in Places /\ Occupied(w, Hand) /\ Content(w, Hand) = x
  BY DEF Places, Occupied, Content
<1>2. ToDo(x) /\ x \in HeapObjects
  <2>1. ToDo(Content(w, Hand))
    BY <1>1 DEF Tasks
  <2>2. QED
    BY <1>1, <2>1 DEF ToDo, TraceTypes
<1>3. \A o \in HeapObjects : ToDo(o)' <=> ToDo(o) /\ o # x
  BY <1>2 DEF ToDo, TraceTypes
<1>4. ASSUME NEW u \in Ids, NEW k \in Places, Occupied(u, k)'
      PROVE  Occupied(u, k) /\ Content(u, k)' = Content(u, k) /\ ToDo(Content(u, k))
             /\ Content(u, k) # x
  BY <1>1, <1>4 DEF Tasks
<1>5. ASSUME NEW u \in Ids, NEW k \in Places, Occupied(u, k)' PROVE ToDo(Content(u, k))'
  <2>1. PICK o : o = Content(u, k)
    OBVIOUS
  <2>2. ToDo(o) /\ o # x /\ o = Content(u, k)' /\ o \in HeapObjects
    BY <1>4, <1>5, <2>1 DEF ToDo, TraceTypes
  <2>3. ToDo(o)'
    BY <1>3, <2>2
  <2>4. QED
    BY <2>2, <2>3 DEF ToDo
<1>6. ASSUME NEW u1 \in Ids, NEW u2 \in Ids, NEW k1 \in Places, NEW k2 \in Places,
             Occupied(u1, k1)', Occupied(u2, k2)', Content(u1, k1)' = Content(u2, k2)'
      PROVE  u1 = u2 /\ k1 = k2
  BY <1>4, <1>6 DEF Tasks
<1>7. ASSUME NEW c \in HeapObjects, ToDo(c)'
      PROVE  \E u \in Ids, k \in Places : Occupied(u, k)' /\ Content(u, k)' = c
  <2>1. PICK u \in Ids, k \in Places : Occupied(u, k) /\ Content(u, k) = c
    BY <1>3, <1>7 DEF Tasks
  <2>2. ~(u = w /\ k = Hand)
    BY <1>1, <1>3, <1>7, <2>1
  <2>3. QED
    BY <2>1, <2>2
<1>8. QED
  BY <1>5, <1>6, <1>7 DEF Tasks

SamePlaces(u) ==
  \A k \in Places :
    (Occupied(u, k)' <=> Occupied(u, k)) /\ (Occupied(u, k) => Content(u, k)' = Content(u, k))

LEMMA Apart ==
  Hand \in Places /\ \A i \in Nat : i \in Places /\ i # Hand
  BY DEF Hand, Places

LEMMA SameTasksPlaces ==
  ASSUME NEW u \in Ids, SameTasks(u)
  PROVE  SamePlaces(u)
<1>1. ASSUME NEW k \in Nat
      PROVE  /\ InWindow(u, k)' <=> InWindow(u, k)
             /\ InWindow(u, k) => Elem(u, k)' = Elem(u, k)
  BY DEF SameTasks, SameWindow, InWindow
<1>2. (Held(u)' <=> Held(u)) /\ (Held(u) => reg'[u].x = reg[u].x)
  BY DEF SameTasks
<1>3. ASSUME NEW k \in Nat
      PROVE  /\ Occupied(u, k)' <=> Occupied(u, k)
             /\ Occupied(u, k) => Content(u, k)' = Content(u, k)
  BY <1>1, Apart DEF Occupied, Content
<1>4. /\ Occupied(u, Hand)' <=> Occupied(u, Hand)
      /\ Occupied(u, Hand) => Content(u, Hand)' = Content(u, Hand)
  BY <1>2 DEF Occupied, Content
<1>5. QED
  BY <1>3, <1>4 DEF SamePlaces, Places

LEMMA OthersPlaces ==
  ASSUME TracerTypes, Deques, NEW w \in Ids,
         \A u \in Ids \ {w} : SameDeque(u) /\ where'[u] = where[u] /\ reg'[u] = reg[u]
  PROVE  \A u \in Ids \ {w} : Deque(u)' /\ KeepsTop(u) /\ SamePlaces(u)
  BY OthersDeque DEF Deques, SamePlaces

LEMMA ThievesKept ==
  ASSUME TracerTypes, DequeTypes', Thieves, NEW w \in Ids, \A v \in Ids : KeepsTop(v), Thief(w)',
         \A u \in Ids \ {w} : where'[u] = where[u] /\ reg'[u] = reg[u] /\ stealId'[u] = stealId[u]
  PROVE  Thieves'
<1>1. ASSUME NEW u \in Ids PROVE Thief(u)'
  BY ThiefKept DEF Thieves
<1>2. QED
  BY <1>1 DEF Thieves

LEMMA TasksPush ==
  ASSUME TracerTypes, TracerTypes', Deques, Thieves, Tasks, NEW w \in Ids, PushStep(w)
  PROVE  Deques' /\ Thieves' /\ Tasks'
<1> USE DEF dequeVars, syncVars, workVars, tracerHeapVars, ctlVars
<1>1. \A u \in Ids \ {w} : where'[u] = where[u] /\ reg'[u] = reg[u] /\ stealId'[u] = stealId[u]
  BY DEF PushStep, PushTop, PushGrow, PushPut, PushBottom, Set, ClearReg, Goto,
         TracerTypes, WhereTypes, RegTypes
<1>2. \A u \in Ids \ {w} : SameDeque(u)
  <2>1. data = [u \in Ids |-> data[u]] /\ bottom \in [Ids -> Int] /\ buf \in [Ids -> 0 .. MaxBuf]
    BY DEF TracerTypes, DequeTypes, IsData
  <2>2. QED
    BY <2>1 DEF PushStep, PushTop, PushGrow, PushPut, PushBottom, SameDeque
<1>3. UNCHANGED <<marked, traced>> /\ where'[w] \in InLoop
  BY DequeStep
<1>4. Thief(w)'
  BY <1>3 DEF Thief, At, InLoop, Stealing
<1>5. \A u \in Ids \ {w} : Deque(u)' /\ KeepsTop(u) /\ SamePlaces(u)
  BY <1>1, <1>2, OthersPlaces
<1>6. ASSUME Deque(w)', KeepsTop(w) PROVE Deques' /\ Thieves'
  <2>1. \A u \in Ids : Deque(u)' /\ KeepsTop(u)
    BY <1>5, <1>6
  <2>2. QED
    BY <1>1, <1>4, <2>1, ThievesKept DEF Deques, TracerTypes
<1>7. CASE PushTop(w) \/ PushGrow(w) \/ PushBottom(w)
  <2>1. Deque(w)' /\ KeepsTop(w) /\ SamePlaces(w)
    BY <1>7, PushDeque, SameTasksPlaces DEF Deques
  <2>2. \A u \in Ids : SamePlaces(u)
    BY <1>5, <2>1
  <2>3. Tasks'
    BY <1>3, <2>2, TasksStay DEF SamePlaces
  <2>4. QED
    BY <1>6, <2>1, <2>3
<1>8. CASE PushPut(w)
  <2>1. /\ Deque(w)' /\ KeepsTop(w)
        /\ top'[w] = top[w] /\ top[w] <= bottom[w] /\ bottom[w] \in Nat
        /\ Rear(w) = bottom[w] - 1 /\ Rear(w)' = bottom[w]
        /\ \A i \in Nat : InWindow(w, i) => Elem(w, i)' = Elem(w, i)
        /\ Elem(w, bottom[w])' = reg[w].x
    BY <1>8, PutDeque DEF Deques
  <2>2. PICK j \in Nat : j = bottom[w]
    BY <2>1
  <2>3. Elem(w, j)' = reg[w].x
    BY <1>8, <2>1, <2>2 DEF PushPut
  <2>4. Held(w) /\ ~Held(w)'
    BY <1>8 DEF PushPut, Held, At, Goto, TracerTypes, WhereTypes
  <2>5. \A k \in Nat : (InWindow(w, k)' <=> InWindow(w, k) \/ k = j) /\ (k = j => ~InWindow(w, k))
    BY <2>1, <2>2, DequeFacts DEF InWindow
  <2>6. ASSUME NEW u \in Ids, NEW k \in Places
        PROVE  /\ Occupied(u, k)' <=> (u = w /\ k = j) \/ (Occupied(u, k) /\ ~(u = w /\ k = Hand))
               /\ Occupied(u, k) /\ ~(u = w /\ k = Hand) => Content(u, k)' = Content(u, k)
    <3>1. CASE u # w
      BY <1>5, <3>1 DEF SamePlaces
    <3>2. CASE u = w /\ k = Hand
      BY <2>4, <3>2, Apart DEF Occupied
    <3>3. CASE u = w /\ k \in Nat
      BY <2>1, <2>5, <3>3, Apart DEF Occupied, Content
    <3>4. QED
      BY <3>1, <3>2, <3>3 DEF Places
  <2>7. /\ Occupied(w, Hand) /\ ~Occupied(w, j) /\ Content(w, Hand) = reg[w].x
        /\ Content(w, j)' = reg[w].x
    BY <2>3, <2>4, <2>5, Apart DEF Occupied, Content
  <2>8. Tasks'
    BY <1>3, <2>6, <2>7, Apart, TaskMoves
  <2>9. QED
    BY <1>6, <2>1, <2>8
<1>9. QED
  BY <1>7, <1>8 DEF PushStep

LEMMA TasksPop ==
  ASSUME TracerTypes, TracerTypes', Deques, Thieves, Tasks, NEW w \in Ids, PopStep(w)
  PROVE  Deques' /\ Thieves' /\ Tasks'
<1> USE DEF dequeVars, syncVars, workVars, tracerHeapVars, ctlVars
<1>1. \A u \in Ids \ {w} : where'[u] = where[u] /\ reg'[u] = reg[u] /\ stealId'[u] = stealId[u]
  <2>1. stealId' = stealId /\ \E l : where' = [where EXCEPT ![w] = l]
    BY DEF PopStep, PopBottom, PopTop, PopCas, PopRestore, Goto
  <2>2. reg' = reg \/ \E r : reg' = [reg EXCEPT ![w] = r]
    BY DEF PopStep, PopBottom, PopTop, PopCas, PopRestore, Set, ClearReg
  <2>3. \A u \in Ids \ {w} : where'[u] = where[u]
    BY <2>1 DEF TracerTypes, WhereTypes
  <2>4. \A u \in Ids \ {w} : reg'[u] = reg[u]
    BY <2>2 DEF TracerTypes, RegTypes
  <2>5. QED
    BY <2>1, <2>3, <2>4
<1>2. \A u \in Ids \ {w} : SameDeque(u)
  <2>1. bottom' = bottom \/ \E b : bottom' = [bottom EXCEPT ![w] = b]
    BY DEF PopStep, PopBottom, PopTop, PopCas, PopRestore
  <2>2. top' = top \/ \E b : top' = [top EXCEPT ![w] = b]
    BY DEF PopStep, PopBottom, PopTop, PopCas, PopRestore
  <2>3. UNCHANGED <<buf, data>>
    BY DEF PopStep, PopBottom, PopTop, PopCas, PopRestore
  <2>4. \A u \in Ids \ {w} : bottom'[u] = bottom[u] /\ top'[u] = top[u]
    BY <2>1, <2>2 DEF TracerTypes, DequeTypes
  <2>5. QED
    BY <2>3, <2>4 DEF SameDeque
<1>3. UNCHANGED <<marked, traced>> /\ where'[w] \notin Stealing
  BY DequeStep DEF PopStep, PopBottom, PopTop, PopCas, PopRestore, Goto, TracerTypes, WhereTypes, Stealing
<1>4. Thief(w)'
  BY <1>3 DEF Thief, At, Stealing
<1>5. \A u \in Ids \ {w} : Deque(u)' /\ KeepsTop(u) /\ SamePlaces(u)
  BY <1>1, <1>2, OthersPlaces
<1>6. \A i \in Nat : InWindow(w, i) => Elem(w, i) # NoElement
  <2>1. ASSUME NEW i \in Nat, InWindow(w, i) PROVE ToDo(Elem(w, i))
    <3>1. Occupied(w, i) /\ Content(w, i) = Elem(w, i) /\ i \in Places
      BY <2>1, Apart DEF Occupied, Content
    <3>2. QED
      BY <3>1 DEF Tasks
  <2>2. QED
    BY <2>1, TracerAssumption DEF ToDo, TracerTypes, TraceTypes
<1>7. Deque(w)' /\ KeepsTop(w) /\ (SameTasks(w) \/ LastTaken(w))
  BY <1>6, PopDeque DEF Deques
<1>8. Deques' /\ Thieves'
  <2>1. \A u \in Ids : Deque(u)' /\ KeepsTop(u)
    BY <1>5, <1>7
  <2>2. QED
    BY <1>1, <1>4, <2>1, ThievesKept DEF Deques, TracerTypes
<1>9. CASE SameTasks(w)
  <2>1. \A u \in Ids : SamePlaces(u)
    BY <1>5, <1>9, SameTasksPlaces
  <2>2. QED
    BY <1>3, <1>8, <2>1, TasksStay DEF SamePlaces
<1>10. CASE LastTaken(w)
  <2>1. PICK j \in Nat : j = bottom[w]
    BY <1>10 DEF LastTaken
  <2>2. /\ InWindow(w, j) /\ ~Held(w) /\ Held(w)' /\ reg'[w].x = Elem(w, j)
        /\ \A k \in Nat : (InWindow(w, k)' <=> InWindow(w, k) /\ k # j) /\ Elem(w, k)' = Elem(w, k)
    BY <1>10, <2>1 DEF LastTaken
  <2>3. ASSUME NEW u \in Ids, NEW k \in Places
        PROVE  /\ Occupied(u, k)' <=> (u = w /\ k = Hand) \/ (Occupied(u, k) /\ ~(u = w /\ k = j))
               /\ Occupied(u, k) /\ ~(u = w /\ k = j) => Content(u, k)' = Content(u, k)
    <3>1. CASE u # w
      BY <1>5, <3>1 DEF SamePlaces
    <3>2. CASE u = w /\ k = Hand
      BY <2>2, <3>2, Apart DEF Occupied
    <3>3. CASE u = w /\ k \in Nat
      BY <2>2, <3>3, Apart DEF Occupied, Content
    <3>4. QED
      BY <3>1, <3>2, <3>3 DEF Places
  <2>4. /\ Occupied(w, j) /\ ~Occupied(w, Hand) /\ Content(w, j) = Elem(w, j)
        /\ Content(w, Hand)' = Elem(w, j)
    BY <2>2, Apart DEF Occupied, Content
  <2>5. Tasks'
    BY <1>3, <2>3, <2>4, Apart, TaskMoves
  <2>6. QED
    BY <1>8, <2>5
<1>11. QED
  BY <1>7, <1>9, <1>10

LEMMA TasksSteal ==
  ASSUME TracerTypes, TracerTypes', Deques, Thieves, Tasks, NEW w \in Ids, StealStep(w)
  PROVE  Deques' /\ Thieves' /\ Tasks'
<1> USE DEF dequeVars, syncVars, workVars, tracerHeapVars, ctlVars
<1>1. /\ \A u \in Ids \ {w} : where'[u] = where[u] /\ reg'[u] = reg[u] /\ stealId'[u] = stealId[u]
      /\ UNCHANGED <<bottom, buf, data>>
  BY DEF StealStep, StealTop, StealBottom, StealBuf, StealGet, StealCas, Set, ClearReg, Goto,
         TracerTypes, WhereTypes, RegTypes, StealTypes
<1>2. UNCHANGED <<marked, traced>>
  BY DequeStep
<1>3. Thief(w)
  BY DEF Thieves
<1>4. ASSUME Deques', \A v \in Ids : KeepsTop(v), Thief(w)' PROVE Deques' /\ Thieves'
  BY <1>1, <1>4, ThievesKept DEF TracerTypes
<1>5. CASE top' = top
  <2>1. Deques' /\ Thieves' /\ SameTasks(w)
    BY <1>3, <1>4, <1>5, LookDeque
  <2>2. \A u \in Ids \ {w} : SameDeque(u)
    BY <1>1, <1>5 DEF SameDeque
  <2>3. \A u \in Ids : SamePlaces(u)
    BY <1>1, <2>1, <2>2, SameTasksPlaces, OthersPlaces
  <2>4. QED
    BY <1>2, <2>1, <2>3, TasksStay DEF SamePlaces
<1>6. CASE top' # top
  <2>1. Deques' /\ Thieves' /\ FirstTaken(w, stealId[w])
    BY <1>3, <1>4, <1>6, RobDeque
  <2>2. PICK v \in Ids, j \in Nat : v = stealId[w] /\ j = top[v]
    BY DEF TracerTypes, StealTypes, DequeTypes
  <2>3. /\ InWindow(v, j) /\ ~Held(w) /\ Held(w)' /\ reg'[w].x = Elem(v, j)
        /\ \A u \in Ids, k \in Nat :
             (InWindow(u, k)' <=> InWindow(u, k) /\ ~(u = v /\ k = j)) /\ Elem(u, k)' = Elem(u, k)
    BY <2>1, <2>2 DEF FirstTaken
  <2>4. \A u \in Ids \ {w} : Held(u)' <=> Held(u)
    BY <1>1 DEF Held, At
  <2>5. ASSUME NEW u \in Ids, NEW k \in Places
        PROVE  /\ Occupied(u, k)' <=> (u = w /\ k = Hand) \/ (Occupied(u, k) /\ ~(u = v /\ k = j))
               /\ Occupied(u, k) /\ ~(u = v /\ k = j) => Content(u, k)' = Content(u, k)
    <3>1. CASE k = Hand
      BY <1>1, <2>3, <2>4, <3>1, Apart DEF Occupied, Content
    <3>2. CASE k \in Nat
      BY <2>3, <3>2, Apart DEF Occupied, Content
    <3>3. QED
      BY <3>1, <3>2 DEF Places
  <2>6. /\ Occupied(v, j) /\ ~Occupied(w, Hand) /\ Content(v, j) = Elem(v, j)
        /\ Content(w, Hand)' = Elem(v, j)
    BY <2>3, Apart DEF Occupied, Content
  <2>7. Tasks'
    BY <1>2, <2>5, <2>6, Apart, TaskMoves
  <2>8. QED
    BY <2>1, <2>7
<1>7. QED
  BY <1>5, <1>6

LEMMA TasksTrace ==
  ASSUME TracerTypes, TracerTypes', Deques, Thieves, Tasks, NEW w \in Ids, TraceStep(w)
  PROVE  Deques' /\ Thieves' /\ Tasks'
<1> USE DEF dequeVars, syncVars, workVars, tracerHeapVars, ctlVars
<1>1. /\ \A u \in Ids \ {w} : where'[u] = where[u] /\ reg'[u] = reg[u] /\ stealId'[u] = stealId[u]
      /\ UNCHANGED <<bottom, top, buf, data>>
  BY DEF TraceStep, Start, TakeRoot, Visit, Visited, TraceOne, Set, ClearReg, Goto,
         TracerTypes, WhereTypes, RegTypes
<1>2. \A u \in Ids : SameDeque(u)
  BY <1>1 DEF SameDeque
<1>3. /\ where[w] \in {"start", "roots", "visit", "trace"}
      /\ where'[w] \in {"roots", "visit", "push", "pop", "join", "leave", "unpark"}
  BY DEF TraceStep, Start, TakeRoot, Visit, Visited, TraceOne, At, Goto, TracerTypes, WhereTypes
<1>4. /\ where[w] \notin Popping \cup {"pushPut", "pushBottom"} \cup Stealing
      /\ where'[w] \notin Popping \cup {"pushPut", "pushBottom"} \cup Stealing
  BY <1>3 DEF Popping, Stealing
<1>5. Thief(w)'
  BY <1>4 DEF Thief, At, Stealing
<1>6. Deque(w)' /\ KeepsTop(w) /\ SameWindow(w)
  BY <1>2, <1>4, IdleDeque DEF Deques
<1>7. \A u \in Ids \ {w} : Deque(u)' /\ KeepsTop(u) /\ SamePlaces(u)
  BY <1>1, <1>2, OthersPlaces
<1>8. Deques' /\ Thieves'
  <2>1. \A u \in Ids : Deque(u)' /\ KeepsTop(u)
    BY <1>6, <1>7
  <2>2. QED
    BY <1>1, <1>5, <2>1, ThievesKept DEF Deques, TracerTypes
<1>9. ASSUME NEW k \in Nat
      PROVE  /\ Occupied(w, k)' <=> Occupied(w, k)
             /\ Occupied(w, k) => Content(w, k)' = Content(w, k)
  <2>1. /\ InWindow(w, k)' <=> InWindow(w, k)
        /\ InWindow(w, k) => Elem(w, k)' = Elem(w, k)
    BY <1>6 DEF SameWindow, InWindow
  <2>2. QED
    BY <2>1, Apart DEF Occupied, Content
<1>10. CASE ~TraceOne(w) /\ UNCHANGED <<marked, traced>>
  <2>1. ~Held(w) /\ ~Held(w)'
    <3>1. where[w] # "trace" /\ where'[w] # "push"
      BY <1>10 DEF TraceStep, Start, TakeRoot, Visit, Visited, At, Goto, TracerTypes, WhereTypes
    <3>2. QED
      BY <1>3, <3>1 DEF Held, At
  <2>2. SamePlaces(w)
    BY <1>6, <2>1, SameTasksPlaces DEF SameTasks
  <2>3. \A u \in Ids : SamePlaces(u)
    BY <1>7, <2>2
  <2>4. QED
    BY <1>8, <1>10, <2>3, TasksStay DEF SamePlaces
<1>11. CASE Visit(w) /\ ~UNCHANGED <<marked, traced>>
  <2>1. PICK o : o = Head(toTrace[w])
    OBVIOUS
  <2>2. /\ o \notin marked /\ marked' = marked \cup {o} /\ traced' = traced
        /\ Set(w, [NoReg EXCEPT !.x = o]) /\ where[w] = "visit" /\ Goto(w, "push")
    BY <1>11, <2>1 DEF Visit, At
  <2>3. reg'[w].x = o /\ where'[w] = "push" /\ o \in HeapObjects
    <3>1. toTrace[w] \in Seq(HeapObjects) /\ toTrace[w] # <<>>
      BY <1>11 DEF Visit, TracerTypes, TraceTypes
    <3>2. o \in HeapObjects
      BY <2>1, <3>1
    <3>3. QED
      BY <2>2, <3>2, Loaded DEF Goto, TracerTypes, WhereTypes
  <2>4. ~Held(w) /\ Held(w)'
    BY <2>2, <2>3 DEF Held, At
  <2>5. ASSUME NEW u \in Ids, NEW k \in Places
        PROVE  /\ Occupied(u, k)' <=> (u = w /\ k = Hand) \/ Occupied(u, k)
               /\ Occupied(u, k) => Content(u, k)' = Content(u, k)
    <3>1. CASE u # w
      BY <1>7, <3>1 DEF SamePlaces
    <3>2. CASE u = w /\ k = Hand
      BY <2>4, <3>2 DEF Occupied
    <3>3. CASE u = w /\ k \in Nat
      BY <1>9, <3>3, Apart
    <3>4. QED
      BY <3>1, <3>2, <3>3 DEF Places
  <2>6. Content(w, Hand)' = o
    BY <2>3 DEF Content
  <2>7. QED
    BY <1>8, <2>2, <2>3, <2>4, <2>5, <2>6, TaskAdded DEF TracerTypes
<1>12. CASE TraceOne(w)
  <2>1. where[w] = "trace" /\ where'[w] = "visit" /\ marked' = marked
        /\ traced' = [traced EXCEPT ![reg[w].x] = @ + 1]
    BY <1>12 DEF TraceOne, At, Goto, TracerTypes, WhereTypes
  <2>2. Held(w) /\ ~Held(w)'
    BY <2>1 DEF Held, At
  <2>3. traced[reg[w].x] = 0
    <3>1. Occupied(w, Hand) /\ Content(w, Hand) = reg[w].x
      BY <2>2 DEF Occupied, Content
    <3>2. ToDo(Content(w, Hand))
      BY <3>1, Apart DEF Tasks
    <3>3. QED
      BY <3>1, <3>2 DEF ToDo
  <2>4. ASSUME NEW u \in Ids, NEW k \in Places
        PROVE  /\ Occupied(u, k)' <=> Occupied(u, k) /\ ~(u = w /\ k = Hand)
               /\ Occupied(u, k) /\ ~(u = w /\ k = Hand) => Content(u, k)' = Content(u, k)
    <3>1. CASE u # w
      BY <1>7, <3>1 DEF SamePlaces
    <3>2. CASE u = w /\ k = Hand
      BY <2>2, <3>2 DEF Occupied
    <3>3. CASE u = w /\ k \in Nat
      BY <1>9, <3>3, Apart
    <3>4. QED
      BY <3>1, <3>2, <3>3 DEF Places
  <2>5. traced' = [traced EXCEPT ![reg[w].x] = 1]
    BY <2>1, <2>3
  <2>6. QED
    BY <1>8, <2>1, <2>2, <2>4, <2>5, TaskDone DEF TracerTypes
<1>13. \/ TraceOne(w)
       \/ Visit(w) /\ ~UNCHANGED <<marked, traced>>
       \/ UNCHANGED <<marked, traced>>
  BY DEF TraceStep, Start, TakeRoot, Visited
<1>14. QED
  BY <1>10, <1>11, <1>12, <1>13

\* Steps that are not about the deques leave them, and those who rob them, alone.
Quiet == MainOnly \cup HelperOnly \cup {"start", "pop", "steal", "leave"}
LEMMA TasksAside ==
  ASSUME TracerTypes, TracerTypes', Deques, Thieves, Tasks, NEW w \in Ids,
         UNCHANGED <<bottom, top, buf, data, reg, marked, traced>>,
         \A u \in Ids \ {w} : where'[u] = where[u],
         where'[w] = where[w] \/ (where[w] \in Quiet /\ where'[w] \in Quiet),
         \A u \in Ids : where[u] \in Stealing => stealId'[u] = stealId[u]
  PROVE  Deques' /\ Thieves' /\ Tasks'
<1>1. \A u \in Ids : SameDeque(u)
  BY DEF SameDeque
<1>2. \A l \in Quiet : l \notin Popping \cup {"pushPut", "pushBottom"} \cup Stealing \cup {"push", "trace"}
  BY DEF Quiet, MainOnly, HelperOnly, Out, Popping, Stealing
<1>3. \A u \in Ids : where'[u] = where[u] \/ (where[u] \in Quiet /\ where'[u] \in Quiet)
  OBVIOUS
<1>4. ASSUME NEW u \in Ids PROVE Deque(u)' /\ KeepsTop(u) /\ SamePlaces(u)
  <2>1. CASE where'[u] = where[u]
    BY <1>1, <2>1, OthersDeque DEF Deques, SamePlaces
  <2>2. CASE where[u] \in Quiet /\ where'[u] \in Quiet
    <3>1. Deque(u)' /\ KeepsTop(u) /\ SameWindow(u)
      BY <1>1, <1>2, <2>2, IdleDeque DEF Deques
    <3>2. ~Held(u) /\ ~Held(u)'
      BY <1>2, <2>2 DEF Held, At, Popping
    <3>3. QED
      BY <3>1, <3>2, SameTasksPlaces DEF SameTasks
  <2>3. QED
    BY <1>3, <2>1, <2>2
<1>5. Tasks'
  BY <1>4, TasksStay DEF SamePlaces
<1>6. ASSUME NEW u \in Ids PROVE Thief(u)'
  <2>1. CASE where[u] \in Stealing
    <3>1. where'[u] = where[u] /\ stealId'[u] = stealId[u]
      BY <1>2, <1>3, <2>1
    <3>2. QED
      BY <1>4, <3>1, ThiefKept DEF Thieves, TracerTypes
  <2>2. CASE where[u] \notin Stealing
    <3>1. where'[u] \notin Stealing
      BY <1>2, <1>3, <2>2
    <3>2. QED
      BY <3>1 DEF Thief, At, Stealing
  <2>3. QED
    BY <2>1, <2>2
<1>7. QED
  BY <1>4, <1>5, <1>6 DEF Deques, Thieves

LEMMA TasksHelper ==
  ASSUME TracerTypes, TracerTypes', Deques, Thieves, Tasks, NEW h \in Helpers, HelperStep(h)
  PROVE  Deques' /\ Thieves' /\ Tasks'
<1> USE DEF dequeVars, syncVars, workVars, tracerHeapVars, ctlVars
<1>1. h \in Ids
  BY IdFacts
<1>2. /\ UNCHANGED <<bottom, top, buf, data, reg, marked, traced, stealId>>
      /\ \A u \in Ids \ {h} : where'[u] = where[u]
      /\ where'[h] = where[h] \/ (where[h] \in Quiet /\ where'[h] \in Quiet)
  BY <1>1, IdFacts
     DEF HelperStep, TakeLock, Look, Park, WakeUp, GiveUp, Leave, At, Goto, Helpers,
         TracerTypes, WhereTypes, Quiet, HelperOnly, Out
<1>3. QED
  BY <1>1, <1>2, TasksAside

LEMMA TasksMain ==
  ASSUME TracerTypes, TracerTypes', Locks, Deques, Thieves, Tasks, MainStep
  PROVE  Deques' /\ Thieves' /\ Tasks'
<1> USE DEF dequeVars, syncVars, workVars, tracerHeapVars, ctlVars
<1>1. 0 \in Ids
  BY IdFacts
<1>2. /\ UNCHANGED <<bottom, top, buf, data, reg, marked, traced>>
      /\ \A u \in Ids \ {0} : where'[u] = where[u]
      /\ where'[0] = where[0] \/ (where[0] \in Quiet /\ where'[0] \in Quiet)
      /\ stealId' = stealId \/ At(0, "mutating")
  BY <1>1
     DEF MainStep, JoinHelper, Unpark, MaybeDone, TryLock, LockedAll, Unlock, StartRound,
         ReleaseHelper, Broadcast, EndRound, Leave, At, Goto, TracerTypes, WhereTypes, Quiet, MainOnly
<1>3. \A u \in Ids : where[u] \in Stealing => stealId'[u] = stealId[u]
  <2>1. CASE stealId' = stealId
    BY <2>1
  <2>2. CASE At(0, "mutating")
    <3>1. \A u \in Ids : where[u] \in Out \cup {"mutating"}
      BY <2>2, AllOut, IdFacts DEF At, Alone
    <3>2. QED
      BY <3>1 DEF Out, Stealing
  <2>3. QED
    BY <1>2, <2>1, <2>2
<1>4. QED
  BY <1>1, <1>2, <1>3, TasksAside

-------------------------------------------------------------------------------
(* The invariant *)

LEMMA InitHolds == TracerInit => TracerInv
<1> SUFFICES ASSUME TracerInit PROVE TracerInv
  OBVIOUS
<1>1. /\ WorkerCount \in Nat \ {0} /\ MaxBuf \in Nat
      /\ 0 \in 0 .. MaxBuf /\ 0 \in Ids /\ Helpers \subseteq Ids /\ Nobody \notin Ids
      /\ Len(Rounds) \in Nat /\ 0 \notin Helpers
  BY IdFacts, TracerAssumption, LenProperties DEF Helpers
<1>2. /\ where = [w \in Ids |-> IF w = 0 THEN "mutating" ELSE "spawned"]
      /\ where[0] = "mutating" /\ \A h \in Helpers : where[h] = "spawned"
      /\ \A w \in Ids : where[w] \in {"mutating", "spawned"}
  BY <1>1 DEF TracerInit, Helpers
<1>3. WhereTypes
  BY <1>1, <1>2 DEF WhereTypes, Labels, MainOnly, HelperOnly, Out
<1>4. RegTypes /\ \A w \in Ids : reg[w].x = NoElement
  BY RegClear DEF TracerInit, RegTypes, NoReg
<1>5. /\ \A w \in Ids : bottom[w] = 0 /\ top[w] = 0 /\ buf[w] = 0
      /\ bottom \in [Ids -> Int] /\ top \in [Ids -> Nat] /\ buf \in [Ids -> 0 .. MaxBuf]
  BY <1>1 DEF TracerInit
<1>6. IsData(data)
  <2>1. \A a \in 0 .. MaxBuf : Blank[a] = [i \in 0 .. SizeOf(a) - 1 |-> NoElement]
    BY DEF Blank
  <2>2. \A a \in 0 .. MaxBuf : IsBuffer(Blank[a], a)
    BY <2>1 DEF IsBuffer
  <2>3. Blank = [a \in 0 .. MaxBuf |-> Blank[a]]
    BY DEF Blank
  <2>4. IsBuffers(Blank)
    BY <2>2, <2>3 DEF IsBuffers
  <2>5. data = [w \in Ids |-> Blank]
    BY DEF TracerInit
  <2> HIDE DEF Blank
  <2>6. QED
    BY <2>4, <2>5 DEF IsData
<1>7. TraceTypes
  <2>1. edges \in [HeapObjects -> Seq(HeapObjects)]
    BY TracerAssumption DEF TracerInit
  <2>2. <<>> \in Seq(HeapObjects)
    OBVIOUS
  <2>3. QED
    BY <2>1, <2>2 DEF TracerInit, TraceTypes
<1>8. ControlTypes /\ StealTypes
  BY <1>1 DEF TracerInit, ControlTypes, StealTypes
<1>9. Counted
  <2>1. Tracing = {}
    BY <1>2 DEF Tracing, Idle, HelperOnly, Out
  <2>2. QED
    BY <2>1, FS_EmptySet DEF Counted, TracerInit
<1>10. \A w \in Ids : Rear(w) = 0 - 1 /\ ~Held(w)
  BY <1>2, <1>5 DEF Rear, Popping, Held, At
<1>11. Deques
  <2>1. \A v \in Ids : SizeOf(buf[v]) \in Nat \ {0}
    BY <1>5, Sizes
  <2>2. QED
    BY <1>2, <1>5, <1>10, <2>1 DEF Deques, Deque, At
<1>12. Thieves
  BY <1>2 DEF Thieves, Thief, At, Stealing
<1>13. Tasks
  <2>1. \A v \in Ids, i \in Places : ~Occupied(v, i)
    BY <1>5, <1>10 DEF Occupied, InWindow, Places
  <2>2. \A o : ~ToDo(o)
    BY DEF TracerInit, ToDo
  <2>3. QED
    BY <2>1, <2>2 DEF Tasks
<1>14. Followed
  <2>1. \A o \in HeapObjects : traced[o] = 0
    BY DEF TracerInit
  <2>2. EdgesDue
    BY <2>1 DEF EdgesDue
  <2>3. round = 0 /\ read = 0 /\ rooting = {} /\ \A w \in Ids : toTrace[w] = <<>>
    BY DEF TracerInit
  <2>4. RootsDue /\ AllRead
    BY <1>2, <2>3 DEF RootsDue, AllRead
  <2>5. \A w \in Ids : Looping(w)
    BY <1>2, <2>3 DEF Looping, At
  <2>6. QED
    BY <2>2, <2>4, <2>5 DEF Followed
<1>15. Locks
  BY <1>1, <1>2 DEF Locks, Out, At, TracerInit
<1>16. Done
  BY <1>2 DEF Done, At, TracerInit
<1>17. QED
  BY <1>3, <1>4, <1>5, <1>6, <1>7, <1>8, <1>9, <1>11, <1>12, <1>13, <1>14, <1>15, <1>16
     DEF TracerInv, TracerTypes, DequeTypes

\* What a worker is about to trace is to be traced.
LEMMA HandToDo ==
  ASSUME Tasks, NEW w \in Ids, At(w, "trace")
  PROVE  ToDo(reg[w].x)
<1>1. Occupied(w, Hand) /\ Content(w, Hand) = reg[w].x
  BY DEF Occupied, Content, Held, At
<1>2. QED
  BY <1>1, Apart DEF Tasks

LEMMA WorkHolds ==
  ASSUME TracerInv, NEW w \in Ids, PushStep(w) \/ PopStep(w) \/ StealStep(w) \/ TraceStep(w)
  PROVE  TracerInv'
<1> USE DEF TracerInv
<1>1. Deque(w)
  BY DEF Deques
<1>2. TracerTypes'
  BY <1>1, HandToDo, TypesPush, TypesPop, TypesSteal, TypesTrace
<1>3. Counted'
  BY CountedNext
<1>4. Deques' /\ Thieves' /\ Tasks'
  BY <1>2, TasksPush, TasksPop, TasksSteal, TasksTrace
<1>5. Followed'
  BY HandToDo, FollowedDeque, FollowedTrace
<1>6. Locks' /\ Done'
  <2>1. CASE PushStep(w) \/ PopStep(w) \/ StealStep(w)
    <3>1. /\ where[w] \in Common /\ where'[w] \in Common
          /\ \A u \in Ids \ {w} : where'[u] = where[u]
          /\ UNCHANGED <<lock, locked, round>>
      BY <2>1, DequeStep
    <3>2. "leave" \notin Common
      BY DEF Common, InLoop, Popping, Stealing
    <3>3. QED
      BY <3>1, <3>2, LocksWork
  <2>2. CASE TraceStep(w)
    BY <2>2, LocksTrace
  <2>3. QED
    BY <2>1, <2>2
<1>7. QED
  BY <1>2, <1>3, <1>4, <1>5, <1>6

LEMMA HelperHolds ==
  ASSUME TracerInv, NEW h \in Helpers, HelperStep(h)
  PROVE  TracerInv'
<1> USE DEF TracerInv
<1>1. h \in Ids
  BY IdFacts
<1>2. TracerTypes'
  BY TypesHelper
<1>3. Counted'
  BY <1>1, CountedNext
<1>4. QED
  BY <1>2, <1>3, TasksHelper, FollowedHelper, LocksHelper

LEMMA MainHolds ==
  ASSUME TracerInv, MainStep
  PROVE  TracerInv'
<1> USE DEF TracerInv
<1>1. 0 \in Ids
  BY IdFacts
<1>2. TracerTypes'
  BY TypesMain
<1>3. Counted'
  BY <1>1, CountedNext
<1>4. QED
  BY <1>2, <1>3, TasksMain, FollowedMain, LocksMain

\* Every step is one of those above.
LEMMA StepsByKind ==
  ASSUME TracerNext
  PROVE  \/ \E w \in Ids : PushStep(w) \/ PopStep(w) \/ StealStep(w) \/ TraceStep(w)
         \/ \E h \in Helpers : HelperStep(h)
         \/ MainStep
<1>1. 0 \in Ids /\ Helpers \subseteq Ids
  BY IdFacts
<1>2. ~GiveUp(0)
  BY DEF GiveUp
<1>3. ASSUME NEW w \in Ids, WorkerNext(w)
      PROVE  PushStep(w) \/ PopStep(w) \/ StealStep(w) \/ TraceStep(w) \/ GiveUp(w) \/ Leave(w)
  BY <1>3 DEF WorkerNext, PushStep, PopStep, StealStep, TraceStep
<1>4. CASE MainNext
  BY <1>1, <1>2, <1>3, <1>4 DEF MainNext, MainStep
<1>5. CASE \E h \in Helpers : HelperNext(h) \/ WakeUp(h)
  BY <1>1, <1>3, <1>5 DEF HelperNext, HelperStep
<1>6. QED
  BY <1>4, <1>5 DEF TracerNext

LEMMA StutterHolds == TracerInv /\ UNCHANGED tracerVars => TracerInv'
<1> SUFFICES ASSUME TracerInv, UNCHANGED tracerVars PROVE TracerInv'
  OBVIOUS
<1>1. UNCHANGED <<bottom, top, buf, data, activeTracers, traceEpoch, seen, lock, asleep, locked, read,
                  rooting, toTrace, tries, stealId, n, edges, marked, traced, round, spurious, where, reg>>
  BY DEF tracerVars, dequeVars, syncVars, workVars, tracerHeapVars, ctlVars
<1>2. TracerTypes'
  BY <1>1 DEF TracerInv, TracerTypes, WhereTypes, RegTypes, DequeTypes, TraceTypes, ControlTypes, StealTypes
<1>3. Counted'
  BY <1>1 DEF TracerInv, Counted, Tracing
<1>4. Deques' /\ Thieves' /\ Tasks'
  <2>1. 0 \in Ids
    BY IdFacts
  <2>2. QED
    BY <1>1, <1>2, <2>1, TasksAside DEF TracerInv
<1>5. \A c : Due(c)' <=> Due(c)
  BY <1>1 DEF Due, Awaits
<1>6. EdgesDue'
  BY <1>1, <1>5, EdgesStay DEF TracerInv, Followed
<1>7. RootsDue'
  <2>1. ASSUME NEW q \in 1 .. round', NEW i \in DOMAIN Rounds[q].roots PROVE RootDue(q, i)'
    <3>1. RootDue(q, i)
      BY <1>1 DEF TracerInv, Followed, RootsDue
    <3>2. Due(Rounds[q].roots[i])' <=> Due(Rounds[q].roots[i])
      BY <1>5
    <3>3. QED
      BY <1>1, <3>1, <3>2 DEF RootDue, At
  <2>2. QED
    BY <2>1 DEF RootsDue
<1>8. AllRead' /\ \A w \in Ids : Looping(w)'
  BY <1>1 DEF TracerInv, Followed, AllRead, Looping, At, Roots
<1>9. Locks' /\ Done'
  BY <1>1 DEF TracerInv, Locks, Done, At
<1>10. QED
  BY <1>2, <1>3, <1>4, <1>6, <1>7, <1>8, <1>9 DEF TracerInv, Followed

\* In a round that is done there is nothing left to trace.
LEMMA DoneHolds == TracerInv => RoundIsDone
<1> SUFFICES ASSUME TracerInv, where[0] = "mutating"
             PROVE  /\ round > 0 =>
                         IF Rounds[round].only THEN RootsUpTo(round) \subseteq marked
                         ELSE \A o \in Reach(RootsUpTo(round)) : traced[o] = 1
                    /\ \A h \in Helpers : lock[h] = 0 /\ where[h] \in {"spawned", "waiting"}
                    /\ activeTracers = 0
  BY DEF RoundIsDone
<1> USE DEF TracerInv
<1>1. \A h \in Helpers : lock[h] = 0 /\ where[h] \in Out
  BY AllOut DEF Locks, Alone
<1>2. \A w \in Ids : where[w] \in {"mutating", "spawned", "waiting"}
  BY <1>1, IdFacts DEF Out
<1>3. activeTracers = 0
  <2>1. Tracing = {}
    BY <1>2 DEF Tracing, Idle, HelperOnly, Out
  <2>2. QED
    BY <2>1, FS_EmptySet DEF Counted
<1>4. ASSUME NEW c, Due(c) PROVE c \in marked
  <2>1. \A w \in Ids : where[w] \notin InLoop
    BY <1>2 DEF InLoop
  <2>2. QED
    BY <1>4, <2>1, NothingAwaited DEF Due
<1>5. RootsUpTo(round) \subseteq marked
  <2>1. ASSUME NEW q \in 1 .. round, NEW i \in DOMAIN Rounds[q].roots
        PROVE  Rounds[q].roots[i] \in marked
    <3>1. RootDue(q, i)
      BY DEF Followed, RootsDue
    <3>2. QED
      BY <3>1 DEF RootDue, At
  <2>2. QED
    BY <2>1 DEF RootsUpTo
<1>6. ASSUME round > 0, ~Rounds[round].only, NEW o \in Reach(RootsUpTo(round))
      PROVE  traced[o] = 1
  <2>1. \A v \in Ids : bottom[v] <= top[v]
    BY <1>6 DEF Done, Alone
  <2>2. \A v \in Ids, i \in Places : ~Occupied(v, i)
    <3>1. ASSUME NEW v \in Ids PROVE ~Held(v) /\ Rear(v) = bottom[v] - 1
      BY <1>2 DEF Held, At, Rear, Popping
    <3>2. ASSUME NEW v \in Ids, NEW i \in Nat PROVE ~InWindow(v, i)
      BY <2>1, <3>1, DequeFacts DEF InWindow
    <3>3. QED
      BY <3>1, <3>2 DEF Occupied, Places
  <2>3. ASSUME NEW x \in marked PROVE traced[x] = 1
    <3>1. x \in HeapObjects /\ ~ToDo(x)
      BY <2>2 DEF Tasks, TracerTypes, TraceTypes
    <3>2. QED
      BY <3>1 DEF ToDo, TracerTypes, TraceTypes
  <2>4. HasSuccessors(marked)
    <3>1. ASSUME NEW x \in marked, NEW i \in DOMAIN edges[x] PROVE edges[x][i] \in marked
      <4>1. x \in HeapObjects /\ traced[x] = 1
        BY <2>3 DEF TracerTypes, TraceTypes
      <4>2. Due(edges[x][i])
        BY <4>1 DEF Followed, EdgesDue
      <4>3. QED
        BY <1>4, <4>2
    <3>2. QED
      BY <3>1 DEF HasSuccessors
  <2>5. marked \in SUBSET HeapObjects
    BY DEF TracerTypes, TraceTypes
  <2>6. o \in marked
    BY <1>5, <2>4, <2>5 DEF Reach
  <2>7. QED
    BY <2>3, <2>6
<1>7. QED
  BY <1>1, <1>3, <1>5, <1>6 DEF Out

(***************************************************************************)
(* When the tracer says that a round is done it is (gc_tracer_trace): what *)
(* the roots reach is traced, each object once, and no helper is left in   *)
(* the heap; whoever robbed whom, and whatever the buffers grew to.        *)
(***************************************************************************)
THEOREM RoundsAreDone == TracerSpec => []RoundIsDone
<1>1. TracerInit => TracerInv
  BY InitHolds
<1>2. TracerInv /\ [TracerNext]_tracerVars => TracerInv'
  BY WorkHolds, HelperHolds, MainHolds, StepsByKind, StutterHolds
<1>3. TracerInv => RoundIsDone
  BY DoneHolds
<1>4. QED
  BY <1>1, <1>2, <1>3, PTL DEF TracerSpec

(***************************************************************************)
(* The large object space                                                  *)
(***************************************************************************)
Node == [size : Nat \ {0}, live : BOOLEAN, mark : {Nursery, Mark0, Mark1}, age : Nat]
LosTyped(l) ==
  /\ l = [nodes |-> l.nodes, marked |-> l.marked, total |-> l.total, free |-> l.free,
          liveAtLast |-> l.liveAtLast, freedByLast |-> l.freedByLast]
  /\ DOMAIN l.nodes \subseteq Nat /\ IsFiniteSet(DOMAIN l.nodes)
  /\ l.nodes \in [DOMAIN l.nodes -> Node]
  /\ l.marked \in {Mark0, Mark1}
  /\ {l.total, l.free, l.liveAtLast, l.freedByLast} \subseteq Int
MarkedNodes(l) == {a \in LiveNodes(l) : LosIsMarked(l, a)}
LosOk(l) ==
  /\ LosTyped(l) /\ LosApart(l) /\ LosCounts(l)
  /\ \A a \in DeadNodes(l) : l.nodes[a].mark = Nursery
\* No node has the mark of the next collection.
LosReady(l) == \A a \in DOMAIN l.nodes : l.nodes[a].mark \in {Nursery, l.marked}

LosInv ==
  /\ LosOk(los)
  /\ pc # "trace" => LosReady(los)
  /\ pc = "trace" => los.liveAtLast = PagesOf(los, MarkedNodes(los))
  /\ {stolen, unstolen} \subseteq Nat
  /\ stolen + unstolen = PagesOf(los, LiveNodes(los))

(***************************************************************************)
(* The regions                                                             *)
(***************************************************************************)
Points == {"run", "trace", "retry", "failed", "overrun"}
LayoutInv ==
  /\ pc \in Points
  /\ to \in Regions /\ hp \in Nat /\ limit \in Nat /\ size \in Nat
  /\ active \in [Regions -> Nat] /\ mapped \in [Regions -> Nat]
  /\ \A r \in Regions :
       /\ mapped[r] >= InitialSize \div 2
       /\ mapped[r] <= MaxRegion \/ mapped[r] = InitialSize \div 2
  /\ active[to] = active[from]
  /\ pc # "overrun" =>
       /\ 2 * (active[to] + RegionPages(stolen) * PageSize) = size
       /\ limit = active[to]
  /\ pc \notin {"trace", "overrun"} => hp <= limit

(***************************************************************************)
(* The objects                                                             *)
(***************************************************************************)
Kinds == {"struct", "array", "ephemeron"}
HeapPlaces == (Regions \cup {"los"}) \X Nat
Refs == HeapPlaces \cup {Null}
Object == [kind : Kinds, fields : Seq(Refs), fwd : Refs]
IsWeak(r) == store[r].kind = "ephemeron"
ToPart == {r \in DOMAIN store : r[1] = to}
FromPart == {r \in DOMAIN store : r[1] = from}
LargePart == {r \in DOMAIN store : r[1] = "los"}
MarkedPart == {r \in LargePart : LosIsMarked(los, r[2])}

StoreInv ==
  /\ DOMAIN store \subseteq HeapPlaces
  /\ \A r \in DOMAIN store :
       store[r] \in Object /\ Len(store[r].fields) = IF IsWeak(r) THEN 2 ELSE 1
  /\ ToPart = {<<to, i>> : i \in 0 .. hp - 1}
  /\ LargePart = {<<"los", a>> : a \in LiveNodes(los)}
  /\ \A r \in LargePart : ~IsWeak(r)
  /\ \A r \in FromPart : r[2] < active[from]
  /\ \A r \in ToPart \cup LargePart : store[r].fwd = Null
  /\ pc # "trace" => FromPart = {}

(***************************************************************************)
(* The program's view                                                      *)
(***************************************************************************)
StoreNames == {id[r] : r \in DOMAIN store}
Names(r, z) == IF r = Null THEN z = 0 ELSE r \in DOMAIN store /\ id[r] = z
Agrees(r) ==
  LET o == store[r].fields g == gfields[id[r]] IN
  /\ Len(g) = Len(o)
  /\ IF IsWeak(r) /\ o[1] = Null THEN g[1] \notin StoreNames
     ELSE \A i \in DOMAIN o : Names(o[i], g[i])
NamedOnce(S) == \A r, q \in S : id[r] = id[q] => r = q

GraphInv ==
  /\ roots \in [Slots -> Refs] /\ groots \in [Slots -> Nat]
  /\ gfields \in Seq(Seq(0 .. Len(gfields)))
  /\ id \in [DOMAIN store -> ObjectNames]
  /\ \A s \in Slots : Names(roots[s], groots[s])
  /\ \A r \in DOMAIN store : Agrees(r)
  /\ NamedOnce(ToPart \cup LargePart) /\ NamedOnce(FromPart \cup LargePart)

(***************************************************************************)
(* Tracing                                                                 *)
(***************************************************************************)
Scanned == {r \in ToPart : r[2] < grey} \cup MarkedPart
\* What a reference that was visited holds.
Safe(r) == r = Null \/ r \in ToPart \cup MarkedPart
Scheduled(edge) == \E i \in DOMAIN todo : todo[i] = edge
Resolved(e) == \E i \in DOMAIN resolved : resolved[i] = e
GoodEdge(edge) ==
  \/ \E s \in Slots : edge = RootEdge(s)
  \/ \E r \in Scanned, i \in {1, 2} :
       /\ edge = Edge(r, i) /\ i \in DOMAIN store[r].fields
       /\ IsWeak(r) => i = 2 /\ store[r].fields[1] # Null /\ Safe(store[r].fields[1])
FieldsDone(r) ==
  IF IsWeak(r)
  THEN \/ store[r].fields[1] = Null \/ r \in pending
       \/ /\ Safe(store[r].fields[1])
          /\ Safe(store[r].fields[2]) \/ Scheduled(Edge(r, 2)) \/ Resolved(r)
  ELSE Safe(store[r].fields[1]) \/ Scheduled(Edge(r, 1))

TraceInv ==
  /\ pending \subseteq DOMAIN store /\ todo \in Seq(Range(todo)) /\ resolved \in Seq(DOMAIN store)
  /\ check \in BOOLEAN /\ grey \in Nat
  /\ pc \notin {"trace", "overrun"} => pending = {} /\ resolved = <<>> /\ todo = <<>>
  /\ pc = "trace" =>
       /\ grey <= hp
       /\ \A r \in FromPart : store[r].fwd # Null =>
            store[r].fwd \in ToPart /\ id[store[r].fwd] = id[r]
       /\ \A q \in ToPart : \E r \in FromPart : store[r].fwd = q
       /\ \A i \in DOMAIN todo : GoodEdge(todo[i])
       /\ \A s \in Slots : Safe(roots[s]) \/ Scheduled(RootEdge(s))
       /\ \A r \in Scanned : FieldsDone(r)
       /\ \A e \in pending :
            /\ e \in Scanned /\ IsWeak(e) /\ store[e].fields[1] # Null
            /\ check => ~KeyLives(store[e].fields[1])
       /\ \A i \in DOMAIN resolved :
            /\ resolved[i] \in Scanned /\ IsWeak(resolved[i])
            /\ store[resolved[i]].fields[1] # Null /\ Safe(store[resolved[i]].fields[1])

(***************************************************************************)
(* No more than what lives                                                 *)
(***************************************************************************)
Again == want # NoWant /\ want.again
ExactInv ==
  /\ pc = "trace" => \A r \in ToPart \cup MarkedPart : id[r] \in LiveNames
  /\ pc \in {"retry", "failed"} \/ (pc = "trace" /\ Again) => StoreNames \subseteq LiveNames

Request(w) ==
  /\ w = [x \in DOMAIN w |-> w[x]] /\ {"kind", "arg", "slot"} \subseteq DOMAIN w
  /\ w.kind \in Kinds /\ w.arg \in Slots /\ w.slot \in Slots
  /\ w.kind = "array" => "pages" \in DOMAIN w /\ w.pages \in LargeSizes
  /\ w.kind = "ephemeron" => "arg2" \in DOMAIN w /\ w.arg2 \in Slots
WantInv ==
  /\ pc = "run" => want = NoWant
  /\ pc \in {"retry", "failed"} => want # NoWant
  /\ pc = "failed" => want.again
  /\ want # NoWant =>
       /\ Request(want)
       /\ "again" \in DOMAIN want /\ want.again \in BOOLEAN

(***************************************************************************)
(* Growth                                                                  *)
(***************************************************************************)
Wanted(live) == AlignUp(Target(live), 2 * PageSize) \div 2
Granted(live, r) ==
  size >= Target(live) \/ Wanted(live) > MaxRegion \/ mapped[r] >= Wanted(live)
GrowInv ==
  /\ pc \in {"retry", "failed"} =>
       /\ los.liveAtLast = stolen /\ unstolen = 0
       /\ Granted(hp + stolen * PageSize, from)
       /\ want.again => size >= Target(hp + stolen * PageSize)
                          \/ Wanted(hp + stolen * PageSize) > MaxRegion
  /\ pc = "trace" /\ Again =>
       unstolen = 0 /\ Granted(Cardinality(FromPart) + stolen * PageSize, to)

(***************************************************************************)
(* Numbers and finite sets                                                 *)
(***************************************************************************)
\* Induction over the numbers, as the prover can use it.
LEMMA LeastNumber ==
  ASSUME NEW S \in SUBSET Nat, S # {}
  PROVE  \E m \in S : \A k \in S : m <= k
<1> DEFINE below == {p \in Nat \X Nat : p[1] < p[2]}
<1>1. IsWellFoundedOn(below, Nat)
  BY NatLessThanWellFounded DEF OpToRel
<1> HIDE DEF below
<1>2. PICK m \in S : \A k \in S : <<k, m>> \notin below
  BY <1>1, WFMin
<1>3. \A k \in S : ~(k < m)
  BY <1>2 DEF below
<1>4. QED
  BY <1>3

LEMMA MinLeast ==
  ASSUME NEW S \in SUBSET Nat, S # {}
  PROVE  Min(S) \in S /\ \A k \in S : Min(S) <= k
BY LeastNumber DEF Min

\* A finite set of numbers has a bound.
LEMMA FiniteBounded ==
  ASSUME NEW S \in SUBSET Nat, IsFiniteSet(S)
  PROVE  \E m \in Nat : \A x \in S : x <= m
<1>1. PICK z \in Nat : ExistsSurjection(1 .. z, S)
  BY FS_NatSurjection
<1>2. PICK f \in [1 .. z -> S] : \A x \in S : \E i \in 1 .. z : f[i] = x
  BY <1>1 DEF ExistsSurjection, Surjection
<1> DEFINE Bounded(k) == \E m \in Nat : \A i \in 1 .. k : f[i] <= m
<1> DEFINE C == {k \in 0 .. z : ~Bounded(k)}
<1>3. Bounded(0)
  OBVIOUS
<1>4. ASSUME NEW k \in 0 .. z - 1, Bounded(k) PROVE Bounded(k + 1)
  <2>1. PICK m \in Nat : \A i \in 1 .. k : f[i] <= m
    BY <1>4
  <2>2. k + 1 \in 1 .. z /\ f[k + 1] \in Nat
    <3>1. k + 1 \in 1 .. z
      OBVIOUS
    <3>2. f[k + 1] \in S
      BY <1>2, <3>1
    <3>3. QED
      BY <3>1, <3>2
  <2>3. \A i \in 1 .. k + 1 : f[i] <= m + f[k + 1]
    <3>1. TAKE i \in 1 .. k + 1
    <3>2. CASE i = k + 1
      BY <2>2, <3>2
    <3>3. CASE i # k + 1
      <4>1. i \in 1 .. k /\ i \in 1 .. z
        BY <3>3
      <4>2. f[i] <= m /\ f[i] \in Nat
        BY <1>2, <2>1, <4>1
      <4>3. QED
        BY <2>2, <4>2
    <3>4. QED
      BY <3>2, <3>3
  <2>4. QED
    BY <2>2, <2>3
<1> HIDE DEF Bounded
<1>5. C = {}
  <2>1. SUFFICES ASSUME C # {} PROVE FALSE
    OBVIOUS
  <2>2. C \in SUBSET Nat
    OBVIOUS
  <2>3. PICK k \in C : \A j \in C : k <= j
    BY <2>1, <2>2, LeastNumber
  <2>4. k # 0 /\ k \in 0 .. z
    BY <1>3, <2>3
  <2>5. k - 1 \in 0 .. z - 1 /\ k - 1 \notin C
    BY <2>3, <2>4
  <2>6. Bounded(k - 1 + 1)
    BY <1>4, <2>5
  <2>7. QED
    BY <2>3, <2>4, <2>6
<1>6. Bounded(z)
  BY <1>5
<1>7. PICK m \in Nat : \A i \in 1 .. z : f[i] <= m
  BY <1>6 DEF Bounded
<1>8. QED
  BY <1>2, <1>7

\* A set that is given by a function of a finite set.
LEMMA FiniteImage ==
  ASSUME NEW S, IsFiniteSet(S), NEW f, DOMAIN f = S, f = [a \in S |-> f[a]]
  PROVE  IsFiniteSet({f[a] : a \in S})
<1> DEFINE T == {f[a] : a \in S}
<1>1. f \in Surjection(S, T)
  BY DEF Surjection
<1>2. QED
  BY <1>1, FS_Surjection

LEMMA SetToSeqFacts ==
  ASSUME NEW S, IsFiniteSet(S), NEW s, s = SetToSeq(S)
  PROVE  /\ s \in Seq(S)
         /\ \A x \in S : \E i \in DOMAIN s : s[i] = x
<1> DEFINE z == Cardinality(S)
<1>1. z \in Nat /\ ExistsBijection(1 .. z, S)
  BY FS_CardinalityType
<1>2. PICK f \in Bijection(1 .. z, S) : TRUE
  BY <1>1 DEF ExistsBijection
<1>3. f \in [1 .. z -> S] /\ IsInjective(f)
  BY <1>2 DEF Bijection, Injection, IsInjective
<1>4. s \in [1 .. z -> S] /\ IsInjective(s)
  BY <1>3 DEF SetToSeq
<1>5. s \in Seq(S)
  BY <1>1, <1>4
<1>6. s \in Injection(1 .. z, S)
  BY <1>4 DEF Injection, IsInjective
<1>7. s \in Surjection(1 .. z, S)
  BY <1>1, <1>6, FS_Injection, FS_Interval
<1>8. QED
  BY <1>4, <1>5, <1>7 DEF Surjection

(***************************************************************************)
(* Pages                                                                   *)
(***************************************************************************)
LEMMA ExtentFacts ==
  ASSUME NEW l, LosTyped(l), NEW a \in DOMAIN l.nodes
  PROVE  /\ a \in Nat /\ l.nodes[a] \in Node /\ l.nodes[a].size \in Nat \ {0}
         /\ IsFiniteSet(Extent(l, a)) /\ Cardinality(Extent(l, a)) = l.nodes[a].size
         /\ a \in Extent(l, a)
<1>1. a \in Nat /\ l.nodes[a] \in Node
  BY DEF LosTyped
<1>2. l.nodes[a].size \in Nat \ {0}
  BY <1>1 DEF Node
<1> DEFINE z == l.nodes[a].size
<1>3. a \in Int /\ a + z - 1 \in Int /\ ~(a > a + z - 1) /\ (a + z - 1) - a + 1 = z
  BY <1>1, <1>2
<1>4. IsFiniteSet(a .. a + z - 1) /\ Cardinality(a .. a + z - 1) = z
  BY <1>3, FS_Interval
<1>5. a \in a .. a + z - 1
  BY <1>1, <1>2
<1>6. QED
  BY <1>1, <1>2, <1>4, <1>5 DEF Extent

LEMMA PagesFinite ==
  ASSUME NEW l, LosTyped(l), NEW S \in SUBSET DOMAIN l.nodes
  PROVE  /\ IsFiniteSet(UNION {Extent(l, a) : a \in S})
         /\ PagesOf(l, S) \in Nat
<1>1. IsFiniteSet(S)
  BY FS_Subset DEF LosTyped
<1> DEFINE f == [a \in S |-> Extent(l, a)]
<1>2. IsFiniteSet({f[a] : a \in S})
  <2> HIDE DEF f
  <2>1. DOMAIN f = S /\ f = [a \in S |-> f[a]]
    BY DEF f
  <2>2. QED
    BY <1>1, <2>1, FiniteImage
<1>3. {f[a] : a \in S} = {Extent(l, a) : a \in S}
  OBVIOUS
<1>4. IsFiniteSet(UNION {Extent(l, a) : a \in S})
  BY <1>2, <1>3, ExtentFacts, FS_UNION
<1>5. QED
  BY <1>4, FS_CardinalityType DEF PagesOf

\* A node's pages come on top of those of the others.
LEMMA PagesAdd ==
  ASSUME NEW l, LosTyped(l), LosApart(l),
         NEW S \in SUBSET DOMAIN l.nodes, NEW a \in DOMAIN l.nodes \ S
  PROVE  PagesOf(l, S \cup {a}) = PagesOf(l, S) + l.nodes[a].size
<1> DEFINE P == UNION {Extent(l, b) : b \in S}
<1>1. UNION {Extent(l, b) : b \in S \cup {a}} = P \cup Extent(l, a)
  OBVIOUS
<1>2. P \cap Extent(l, a) = {}
  BY DEF LosApart
<1>3. IsFiniteSet(P) /\ IsFiniteSet(Extent(l, a))
  BY PagesFinite, ExtentFacts
<1>4. Cardinality(P \cup Extent(l, a)) = Cardinality(P) + Cardinality(Extent(l, a))
  <2>1. Cardinality(P) \in Nat /\ Cardinality(Extent(l, a)) \in Nat
    BY <1>3, FS_CardinalityType
  <2>2. Cardinality(P \cap Extent(l, a)) = 0
    BY <1>2, FS_EmptySet
  <2>3. Cardinality(P \cup Extent(l, a))
          = Cardinality(P) + Cardinality(Extent(l, a)) - Cardinality(P \cap Extent(l, a))
    BY <1>3, FS_Union
  <2> HIDE DEF P
  <2>4. QED
    BY <2>1, <2>2, <2>3
<1>5. QED
  BY <1>1, <1>4, ExtentFacts DEF PagesOf

\* Nodes of the same sizes have the same pages.
LEMMA PagesSame ==
  ASSUME NEW l, NEW m, NEW S, \A a \in S : l.nodes[a].size = m.nodes[a].size
  PROVE  PagesOf(l, S) = PagesOf(m, S)
<1>1. \A a \in S : Extent(l, a) = Extent(m, a)
  BY DEF Extent
<1>2. {Extent(l, a) : a \in S} = {Extent(m, a) : a \in S}
  BY <1>1
<1>3. QED
  BY <1>2 DEF PagesOf

(***************************************************************************)
(* What the operations of the large object space do                        *)
(***************************************************************************)
LEMMA LiveTyped ==
  ASSUME NEW l, LosTyped(l)
  PROVE  /\ LiveNodes(l) \subseteq DOMAIN l.nodes /\ MarkedNodes(l) \subseteq LiveNodes(l)
         /\ DeadNodes(l) \subseteq DOMAIN l.nodes
BY DEF LiveNodes, MarkedNodes, DeadNodes

\* The same nodes with the same pages, live or dead as they were.
LEMMA SameNodes ==
  ASSUME NEW l, LosOk(l), NEW m, LosTyped(m), DOMAIN m.nodes = DOMAIN l.nodes,
         \A a \in DOMAIN l.nodes : /\ m.nodes[a].size = l.nodes[a].size
                                   /\ m.nodes[a].live = l.nodes[a].live,
         \A a \in DeadNodes(l) : m.nodes[a].mark = Nursery,
         m.total = l.total, m.free = l.free
  PROVE  /\ LosOk(m) /\ LiveNodes(m) = LiveNodes(l)
         /\ \A S \in SUBSET DOMAIN l.nodes : PagesOf(m, S) = PagesOf(l, S)
<1>1. LiveNodes(m) = LiveNodes(l) /\ DeadNodes(m) = DeadNodes(l)
  BY DEF LiveNodes, DeadNodes
<1>2. \A S \in SUBSET DOMAIN l.nodes : PagesOf(m, S) = PagesOf(l, S)
  BY PagesSame
<1>3. LosApart(m)
  BY DEF LosOk, LosApart, Extent
<1>4. LosCounts(m)
  <2>1. LiveNodes(l) \in SUBSET DOMAIN l.nodes
    BY DEF LiveNodes
  <2>2. QED
    BY <1>1, <1>2, <2>1 DEF LosOk, LosCounts
<1>5. QED
  BY <1>1, <1>2, <1>3, <1>4 DEF LosOk

LEMMA LosMarkFacts ==
  ASSUME NEW l, LosOk(l), NEW a \in LiveNodes(l), NEW m, m = LosMark(l, a),
         ~LosIsMarked(l, a)
  PROVE  /\ LosOk(m) /\ LiveNodes(m) = LiveNodes(l)
         /\ MarkedNodes(m) = MarkedNodes(l) \cup {a}
         /\ PagesOf(m, LiveNodes(m)) = PagesOf(l, LiveNodes(l))
         /\ l.liveAtLast = PagesOf(l, MarkedNodes(l))
              => m.liveAtLast = PagesOf(m, MarkedNodes(m))
         /\ \A b \in LiveNodes(l) : LosIsMarked(m, b) <=> LosIsMarked(l, b) \/ b = a
<1>1. a \in DOMAIN l.nodes /\ LosTyped(l)
  BY DEF LiveNodes, LosOk
<1>2. l.nodes[a] \in Node /\ l.marked \in {Mark0, Mark1}
  BY <1>1 DEF LosTyped
<1> DEFINE node == [l.nodes[a] EXCEPT !.mark = l.marked]
<1>3. node \in Node /\ node.size = l.nodes[a].size /\ node.live = l.nodes[a].live
        /\ node.mark = l.marked
  BY <1>2 DEF Node
<1> HIDE DEF node
<1>4. /\ m.nodes = [l.nodes EXCEPT ![a] = node]
      /\ m.liveAtLast = l.liveAtLast + l.nodes[a].size
      /\ m.marked = l.marked /\ m.total = l.total /\ m.free = l.free
      /\ m.freedByLast = l.freedByLast
      /\ m = [nodes |-> m.nodes, marked |-> m.marked, total |-> m.total, free |-> m.free,
              liveAtLast |-> m.liveAtLast, freedByLast |-> m.freedByLast]
  <2>1. l = [nodes |-> l.nodes, marked |-> l.marked, total |-> l.total, free |-> l.free,
             liveAtLast |-> l.liveAtLast, freedByLast |-> l.freedByLast]
    BY <1>1 DEF LosTyped
  <2>2. m = [l EXCEPT !.nodes = [l.nodes EXCEPT ![a] = node],
                      !.liveAtLast = l.liveAtLast + l.nodes[a].size]
    BY <2>1 DEF LosMark, node
  <2>3. QED
    BY <2>1, <2>2
<1>5. DOMAIN m.nodes = DOMAIN l.nodes /\ m.nodes \in [DOMAIN l.nodes -> Node]
  BY <1>1, <1>3, <1>4 DEF LosTyped
<1>6. l.nodes[a].size \in Int
  BY <1>2 DEF Node
<1>7. LosTyped(m)
  BY <1>1, <1>4, <1>5, <1>6 DEF LosTyped
<1>8. \A b \in DOMAIN l.nodes : m.nodes[b] = IF b = a THEN node ELSE l.nodes[b]
  BY <1>4
<1>9. \A b \in DOMAIN l.nodes : /\ m.nodes[b].size = l.nodes[b].size
                                /\ m.nodes[b].live = l.nodes[b].live
  BY <1>3, <1>8
<1>10. a \notin DeadNodes(l)
  BY DEF DeadNodes
<1>11. \A b \in DeadNodes(l) : m.nodes[b].mark = Nursery
  BY <1>8, <1>10 DEF LosOk, DeadNodes
<1>12. /\ LosOk(m) /\ LiveNodes(m) = LiveNodes(l)
       /\ \A S \in SUBSET DOMAIN l.nodes : PagesOf(m, S) = PagesOf(l, S)
  <2>1. m.total = l.total /\ m.free = l.free /\ DOMAIN m.nodes = DOMAIN l.nodes
    BY <1>4, <1>5
  <2>2. QED
    BY <1>7, <1>9, <1>11, <2>1, SameNodes
<1>13. \A b \in LiveNodes(l) : LosIsMarked(m, b) <=> LosIsMarked(l, b) \/ b = a
  BY <1>3, <1>4, <1>8 DEF LosIsMarked, LiveNodes
<1>14. MarkedNodes(m) = MarkedNodes(l) \cup {a}
  BY <1>12, <1>13 DEF MarkedNodes
<1>15. /\ LiveNodes(l) \in SUBSET DOMAIN l.nodes /\ MarkedNodes(l) \in SUBSET DOMAIN l.nodes
       /\ a \notin MarkedNodes(l) /\ MarkedNodes(l) \cup {a} \in SUBSET DOMAIN l.nodes
  BY <1>1 DEF MarkedNodes, LiveNodes
<1>16. PagesOf(l, MarkedNodes(l) \cup {a}) = PagesOf(l, MarkedNodes(l)) + l.nodes[a].size
  BY <1>1, <1>15, PagesAdd DEF LosOk
<1>17. QED
  BY <1>4, <1>12, <1>13, <1>14, <1>15, <1>16

\* A collection starts with nothing marked.
LEMMA LosStartFacts ==
  ASSUME NEW l, LosOk(l), LosReady(l), NEW m, m = LosStartGc(l)
  PROVE  /\ LosOk(m) /\ LiveNodes(m) = LiveNodes(l)
         /\ PagesOf(m, LiveNodes(m)) = PagesOf(l, LiveNodes(l))
         /\ m.liveAtLast = PagesOf(m, MarkedNodes(m))
         /\ \A a \in LiveNodes(l) : ~LosIsMarked(m, a)
<1>1. LosTyped(l)
  BY DEF LosOk
<1>2. /\ m.nodes = l.nodes /\ m.liveAtLast = 0
      /\ m.marked = (IF l.marked = Mark0 THEN Mark1 ELSE Mark0)
      /\ m.total = l.total /\ m.free = l.free /\ m.freedByLast = l.freedByLast
      /\ m = [nodes |-> m.nodes, marked |-> m.marked, total |-> m.total, free |-> m.free,
              liveAtLast |-> m.liveAtLast, freedByLast |-> m.freedByLast]
  <2>1. l = [nodes |-> l.nodes, marked |-> l.marked, total |-> l.total, free |-> l.free,
             liveAtLast |-> l.liveAtLast, freedByLast |-> l.freedByLast]
    BY <1>1 DEF LosTyped
  <2>2. QED
    BY <2>1 DEF LosStartGc
<1>3. l.marked \in {Mark0, Mark1} /\ m.marked \in {Mark0, Mark1} /\ m.marked # l.marked
        /\ m.marked # Nursery
  BY <1>1, <1>2 DEF LosTyped, Mark0, Mark1, Nursery
<1>4. LosTyped(m)
  BY <1>1, <1>2, <1>3 DEF LosTyped
<1>5. /\ LosOk(m) /\ LiveNodes(m) = LiveNodes(l)
      /\ \A S \in SUBSET DOMAIN l.nodes : PagesOf(m, S) = PagesOf(l, S)
  BY <1>2, <1>4, SameNodes DEF LosOk
<1>6. \A a \in LiveNodes(l) : ~LosIsMarked(m, a)
  BY <1>2, <1>3 DEF LosIsMarked, LosReady, LiveNodes
<1>7. MarkedNodes(m) = {}
  BY <1>5, <1>6 DEF MarkedNodes
<1>8. PagesOf(m, {}) = 0
  <2>1. UNION {Extent(m, a) : a \in {}} = {}
    OBVIOUS
  <2>2. QED
    BY <2>1, FS_EmptySet DEF PagesOf
<1>9. LiveNodes(l) \in SUBSET DOMAIN l.nodes
  BY DEF LiveNodes
<1>10. QED
  BY <1>2, <1>5, <1>6, <1>7, <1>8, <1>9

\* A collection ends with what is marked.
LEMMA LosFinishFacts ==
  ASSUME NEW l, LosOk(l), l.liveAtLast = PagesOf(l, MarkedNodes(l)),
         NEW m, m = ProcessQuarantine(LosFinishGc(l))
  PROVE  /\ LosOk(m) /\ LosReady(m) /\ LiveNodes(m) = MarkedNodes(l)
         /\ PagesOf(m, LiveNodes(m)) = l.liveAtLast
         /\ m.liveAtLast = l.liveAtLast
<1> DEFINE swept == [a \in DOMAIN l.nodes |-> SweepOne(l, l.nodes[a])]
<1> DEFINE fin == LosFinishGc(l)
<1>1. LosTyped(l)
  BY DEF LosOk
<1>2. l = [nodes |-> l.nodes, marked |-> l.marked, total |-> l.total, free |-> l.free,
           liveAtLast |-> l.liveAtLast, freedByLast |-> l.freedByLast]
  BY <1>1 DEF LosTyped
<1>3. fin = [nodes |-> swept, marked |-> l.marked, total |-> l.total,
             free |-> l.total - l.liveAtLast, liveAtLast |-> l.liveAtLast,
             freedByLast |-> l.total - l.liveAtLast - l.free]
  <2>1. fin = [l EXCEPT !.nodes = swept, !.freedByLast = l.total - l.liveAtLast - l.free,
                        !.free = l.total - l.liveAtLast]
    BY DEF LosFinishGc
  <2> HIDE DEF fin, swept
  <2>2. QED
    BY <1>2, <2>1
<1>4. \A a \in DOMAIN l.nodes :
        /\ swept[a] \in Node /\ swept[a].size = l.nodes[a].size
        /\ swept[a].live <=> a \in MarkedNodes(l)
        /\ swept[a].mark \in {Nursery, l.marked} /\ (~swept[a].live => swept[a].mark = Nursery)
        /\ swept[a].age \in Nat
  <2>1. TAKE a \in DOMAIN l.nodes
  <2>2. l.nodes[a] \in Node
    BY <1>1 DEF LosTyped
  <2>3. swept[a] = SweepOne(l, l.nodes[a])
    OBVIOUS
  <2>4. ~l.nodes[a].live => l.nodes[a].mark = Nursery
    BY DEF LosOk, DeadNodes, LiveNodes
  <2> HIDE DEF swept
  <2>5. CASE l.nodes[a].live /\ l.nodes[a].mark # l.marked
    <3>1. swept[a] = DeadNode(l.nodes[a].size)
      BY <2>3, <2>5 DEF SweepOne
    <3>2. a \notin MarkedNodes(l)
      BY <2>5 DEF MarkedNodes, LosIsMarked
    <3>3. QED
      BY <2>2, <3>1, <3>2 DEF DeadNode, Node
  <2>6. CASE l.nodes[a].live /\ l.nodes[a].mark = l.marked
    <3>1. swept[a] = l.nodes[a]
      BY <2>3, <2>6 DEF SweepOne
    <3>2. a \in MarkedNodes(l)
      BY <2>6 DEF MarkedNodes, LosIsMarked, LiveNodes
    <3>3. QED
      BY <2>2, <2>6, <3>1, <3>2 DEF Node
  <2>7. CASE ~l.nodes[a].live
    <3>1. swept[a] = l.nodes[a]
      BY <2>3, <2>7 DEF SweepOne
    <3>2. a \notin MarkedNodes(l)
      BY <2>7 DEF MarkedNodes, LiveNodes
    <3>3. QED
      BY <2>2, <2>4, <2>7, <3>1, <3>2 DEF Node
  <2>8. QED
    BY <2>2, <2>5, <2>6, <2>7 DEF Node
<1>5. DOMAIN swept = DOMAIN l.nodes
  OBVIOUS
<1> HIDE DEF swept, fin
<1> DEFINE kept == {a \in DOMAIN swept : swept[a].live \/ swept[a].age + 1 < 2}
<1> DEFINE nodes == [a \in kept |-> IF swept[a].live THEN swept[a]
                                    ELSE [swept[a] EXCEPT !.age = swept[a].age + 1]]
<1>6. m = [nodes |-> nodes, marked |-> l.marked, total |-> l.total,
           free |-> l.total - l.liveAtLast, liveAtLast |-> l.liveAtLast,
           freedByLast |-> l.total - l.liveAtLast - l.free]
  <2>1. fin.nodes = swept
    BY <1>3
  <2>2. m = [fin EXCEPT !.nodes = nodes]
    BY <2>1 DEF ProcessQuarantine, fin
  <2>3. QED
    BY <1>3, <2>2
<1>7. kept \subseteq DOMAIN l.nodes /\ MarkedNodes(l) \subseteq kept
  BY <1>4, <1>5 DEF MarkedNodes, LiveNodes
<1>8. \A a \in kept :
        /\ nodes[a] \in Node /\ nodes[a].size = l.nodes[a].size
        /\ nodes[a].live <=> a \in MarkedNodes(l)
        /\ nodes[a].mark \in {Nursery, l.marked} /\ (~nodes[a].live => nodes[a].mark = Nursery)
  <2>1. TAKE a \in kept
  <2>2. a \in DOMAIN l.nodes
    BY <1>7
  <2>3. CASE swept[a].live
    BY <1>4, <2>2, <2>3
  <2>4. CASE ~swept[a].live
    <3>1. nodes[a] = [swept[a] EXCEPT !.age = swept[a].age + 1]
      BY <2>4
    <3>2. swept[a] \in Node /\ swept[a].age + 1 \in Nat
      BY <1>4, <2>2
    <3> HIDE DEF nodes
    <3>3. nodes[a] \in Node /\ nodes[a].size = swept[a].size /\ nodes[a].live = swept[a].live
            /\ nodes[a].mark = swept[a].mark
      BY <3>1, <3>2 DEF Node
    <3>4. QED
      BY <1>4, <2>2, <3>3
  <2>5. QED
    BY <2>3, <2>4
<1>9. DOMAIN nodes = kept
  OBVIOUS
<1>10. nodes = [a \in kept |-> nodes[a]]
  OBVIOUS
<1> HIDE DEF nodes, kept
<1>11. /\ m.nodes = nodes /\ m.marked = l.marked /\ m.total = l.total
       /\ m.free = l.total - l.liveAtLast /\ m.liveAtLast = l.liveAtLast
       /\ m.freedByLast = l.total - l.liveAtLast - l.free
  BY <1>6
<1>12. LosTyped(m)
  <2>1. DOMAIN l.nodes \subseteq Nat /\ IsFiniteSet(kept)
    BY <1>1, <1>7, FS_Subset DEF LosTyped
  <2>2. nodes \in [kept -> Node]
    BY <1>8, <1>10
  <2>3. {l.total, l.free, l.liveAtLast, l.freedByLast} \subseteq Int /\ l.marked \in {Mark0, Mark1}
    BY <1>1 DEF LosTyped
  <2>4. m = [nodes |-> m.nodes, marked |-> m.marked, total |-> m.total, free |-> m.free,
             liveAtLast |-> m.liveAtLast, freedByLast |-> m.freedByLast]
    BY <1>6
  <2>5. {m.total, m.free, m.liveAtLast, m.freedByLast} \subseteq Int
    BY <1>11, <2>3
  <2>6. QED
    BY <1>7, <1>9, <1>11, <2>1, <2>2, <2>3, <2>4, <2>5 DEF LosTyped
<1>13. LiveNodes(m) = MarkedNodes(l)
  BY <1>7, <1>8, <1>9, <1>11 DEF LiveNodes
<1>14. PagesOf(m, MarkedNodes(l)) = PagesOf(l, MarkedNodes(l))
  BY <1>7, <1>8, <1>11, PagesSame
<1>15. LosApart(m)
  BY <1>7, <1>8, <1>9, <1>11 DEF LosOk, LosApart, Extent
<1>16. LosCounts(m)
  <2>1. l.total \in Int /\ l.liveAtLast \in Int
    BY <1>1 DEF LosTyped
  <2>2. QED
    BY <1>11, <1>13, <1>14, <2>1 DEF LosCounts
<1>17. \A a \in DeadNodes(m) : m.nodes[a].mark = Nursery
  BY <1>8, <1>9, <1>11 DEF DeadNodes, LiveNodes
<1>18. LosReady(m)
  BY <1>8, <1>9, <1>11 DEF LosReady
<1>19. QED
  BY <1>11, <1>12, <1>13, <1>14, <1>15, <1>16, <1>17, <1>18 DEF LosOk

\* What an allocation makes of the space: a live node more, with its pages.
AllocOutcome(l, z, got) ==
  /\ LosOk(got.los) /\ got.addr \in Nat \ LiveNodes(l)
  /\ LiveNodes(got.los) = LiveNodes(l) \cup {got.addr}
  /\ PagesOf(got.los, LiveNodes(got.los)) = PagesOf(l, LiveNodes(l)) + z
  /\ LosReady(l) => LosReady(got.los)

\* A live node takes the place of what was there; a dead one may be left.
LEMMA AllocAs ==
  ASSUME NEW l, LosOk(l), NEW z \in Nat \ {0}, NEW a \in Nat \ LiveNodes(l), NEW m,
         LosTyped(m), LosApart(m), m.marked = l.marked,
         m.total - m.free = l.total - l.free + z,
         a \in DOMAIN m.nodes, m.nodes[a] = LiveNode(z),
         LiveNodes(l) \subseteq DOMAIN m.nodes,
         \A b \in DOMAIN m.nodes \ {a} :
           \/ b \in DOMAIN l.nodes /\ m.nodes[b] = l.nodes[b]
           \/ b \notin LiveNodes(l) /\ ~m.nodes[b].live /\ m.nodes[b].mark = Nursery
  PROVE  AllocOutcome(l, z, [addr |-> a, los |-> m])
<1>1. m.nodes[a].live /\ m.nodes[a].mark = Nursery /\ m.nodes[a].size = z
  BY DEF LiveNode
<1>2. LiveNodes(m) = LiveNodes(l) \cup {a}
  <2>1. \A b \in DOMAIN m.nodes \ {a} : m.nodes[b].live <=> b \in LiveNodes(l)
    BY DEF LiveNodes
  <2>2. QED
    BY <1>1, <2>1 DEF LiveNodes
<1>3. PagesOf(m, LiveNodes(l)) = PagesOf(l, LiveNodes(l))
  BY PagesSame DEF LiveNodes
<1>4. PagesOf(m, LiveNodes(l) \cup {a}) = PagesOf(m, LiveNodes(l)) + z
  BY <1>1, PagesAdd
<1>5. PagesOf(l, LiveNodes(l)) = l.total - l.free
  BY DEF LosOk, LosCounts
<1>6. LosCounts(m)
  BY <1>2, <1>3, <1>4, <1>5 DEF LosCounts
<1>7. \A b \in DeadNodes(m) : m.nodes[b].mark = Nursery
  <2>1. TAKE b \in DeadNodes(m)
  <2>2. b \in DOMAIN m.nodes \ {a} /\ b \notin LiveNodes(l)
    BY <1>2 DEF DeadNodes
  <2>3. QED
    BY <2>2 DEF LosOk, DeadNodes
<1>8. LosReady(l) => LosReady(m)
  BY <1>1 DEF LosReady
<1>9. LosOk(m)
  BY <1>6, <1>7 DEF LosOk
<1>10. QED
  BY <1>2, <1>3, <1>4, <1>8, <1>9 DEF AllocOutcome

LEMMA FreshPlaceFacts ==
  ASSUME NEW l, LosTyped(l), NEW z \in Nat \ {0}
  PROVE  /\ FreshPlace(l, z) \in Nat
         /\ \A a \in DOMAIN l.nodes :
              (FreshPlace(l, z) .. FreshPlace(l, z) + z - 1) \cap Extent(l, a) = {}
<1> DEFINE last == [a \in DOMAIN l.nodes |-> a + l.nodes[a].size]
           ends == {0} \cup {a + l.nodes[a].size : a \in DOMAIN l.nodes}
           Free(e) == \A a \in DOMAIN l.nodes : (e .. e + z - 1) \cap Extent(l, a) = {}
<1>1. \A a \in DOMAIN l.nodes : a \in Nat /\ l.nodes[a].size \in Nat \ {0} /\ last[a] \in Nat
  BY ExtentFacts
<1>2. IsFiniteSet({last[a] : a \in DOMAIN l.nodes})
  <2>1. DOMAIN last = DOMAIN l.nodes /\ last = [a \in DOMAIN l.nodes |-> last[a]]
    OBVIOUS
  <2>2. IsFiniteSet(DOMAIN l.nodes)
    BY DEF LosTyped
  <2> HIDE DEF last
  <2>3. QED
    BY <2>1, <2>2, FiniteImage
<1>3. PICK m \in Nat : \A a \in DOMAIN l.nodes : last[a] <= m
  <2>1. {last[a] : a \in DOMAIN l.nodes} \in SUBSET Nat
    BY <1>1
  <2>2. PICK m \in Nat : \A x \in {last[a] : a \in DOMAIN l.nodes} : x <= m
    BY <1>2, <2>1, FiniteBounded
  <2>3. QED
    BY <2>2
<1>4. PICK e \in ends : \A a \in DOMAIN l.nodes : last[a] <= e
  <2> DEFINE bounds == {k \in Nat : \A a \in DOMAIN l.nodes : last[a] <= k}
  <2>1. PICK e \in bounds : \A k \in bounds : e <= k
    BY <1>3, LeastNumber
  <2>2. e \in ends
    <3>1. SUFFICES ASSUME e \notin ends PROVE FALSE
      OBVIOUS
    <3>2. e # 0 /\ e \in Nat /\ \A a \in DOMAIN l.nodes : last[a] # e
      BY <2>1, <3>1
    <3>3. e - 1 \in Nat
      BY <3>2
    <3>4. \A a \in DOMAIN l.nodes : last[a] <= e - 1
      BY <1>1, <2>1, <3>2, <3>3
    <3>5. e - 1 \in bounds
      BY <3>3, <3>4
    <3>6. QED
      BY <2>1, <3>2, <3>5
  <2>3. QED
    BY <2>1, <2>2
<1>5. ends \subseteq Nat
  <2>1. \A a \in DOMAIN l.nodes : a + l.nodes[a].size \in Nat
    BY <1>1
  <2>2. QED
    BY <2>1
<1>6. Free(e)
  <2>1. e \in Nat
    BY <1>5
  <2>2. SUFFICES ASSUME NEW a \in DOMAIN l.nodes
                 PROVE  (e .. e + z - 1) \cap Extent(l, a) = {}
    OBVIOUS
  <2>3. a + l.nodes[a].size <= e /\ a \in Nat /\ l.nodes[a].size \in Nat
    BY <1>1, <1>4
  <2>4. QED
    BY <2>1, <2>3 DEF Extent
<1> DEFINE places == {f \in ends : Free(f)}
<1>7. places \in SUBSET Nat /\ places # {}
  <2> HIDE DEF ends, Free
  <2>1. e \in places
    BY <1>6
  <2>2. QED
    BY <1>5, <2>1
<1>8. FreshPlace(l, z) = Min(places)
  BY DEF FreshPlace
<1>9. FreshPlace(l, z) \in places
  <2> HIDE DEF places
  <2>1. QED
    BY <1>7, <1>8, MinLeast
<1>10. QED
  BY <1>5, <1>9

LEMMA TakeFreshFacts ==
  ASSUME NEW l, LosOk(l), NEW z \in Nat \ {0}
  PROVE  AllocOutcome(l, z, TakeFresh(l, z))
<1> DEFINE a == FreshPlace(l, z)
           node == LiveNode(z)
           nodes == With(l.nodes, a, node)
           m == [l EXCEPT !.nodes = nodes, !.total = l.total + z]
<1>1. LosTyped(l)
  BY DEF LosOk
<1>2. a \in Nat /\ \A b \in DOMAIN l.nodes : (a .. a + z - 1) \cap Extent(l, b) = {}
  BY <1>1, FreshPlaceFacts
<1>3. a \notin DOMAIN l.nodes
  <2>1. a \in a .. a + z - 1
    BY <1>2
  <2>2. QED
    BY <1>1, <1>2, <2>1, ExtentFacts
<1>4. node \in Node /\ node.size = z
  BY DEF LiveNode, Node
<1>5. /\ DOMAIN nodes = DOMAIN l.nodes \cup {a} /\ nodes[a] = node
      /\ \A b \in DOMAIN l.nodes : nodes[b] = l.nodes[b]
      /\ nodes = [b \in DOMAIN nodes |-> nodes[b]]
  <2>1. nodes = [b \in DOMAIN l.nodes \cup {a} |-> IF b = a THEN node ELSE l.nodes[b]]
    BY DEF With
  <2> HIDE DEF nodes, node
  <2>2. QED
    BY <1>3, <2>1
<1>6. TakeFresh(l, z) = [addr |-> a, los |-> m]
  BY DEF TakeFresh
<1> HIDE DEF a, nodes, node
<1>7. /\ m.nodes = nodes /\ m.total = l.total + z /\ m.marked = l.marked /\ m.free = l.free
      /\ m.liveAtLast = l.liveAtLast /\ m.freedByLast = l.freedByLast
      /\ m = [nodes |-> m.nodes, marked |-> m.marked, total |-> m.total, free |-> m.free,
              liveAtLast |-> m.liveAtLast, freedByLast |-> m.freedByLast]
  <2>1. l = [nodes |-> l.nodes, marked |-> l.marked, total |-> l.total, free |-> l.free,
             liveAtLast |-> l.liveAtLast, freedByLast |-> l.freedByLast]
    BY <1>1 DEF LosTyped
  <2>2. m = [l EXCEPT !.nodes = nodes, !.total = l.total + z]
    OBVIOUS
  <2> HIDE DEF m
  <2>3. QED
    BY <2>1, <2>2
<1> HIDE DEF m
<1>8. {l.total, l.free, l.liveAtLast, l.freedByLast} \subseteq Int /\ l.marked \in {Mark0, Mark1}
  BY <1>1 DEF LosTyped
<1>9. DOMAIN m.nodes \subseteq Nat /\ IsFiniteSet(DOMAIN m.nodes)
  BY <1>1, <1>2, <1>5, <1>7, FS_AddElement DEF LosTyped
<1>10. m.nodes \in [DOMAIN m.nodes -> Node]
  BY <1>1, <1>4, <1>5, <1>7 DEF LosTyped
<1>11. {m.total, m.free, m.liveAtLast, m.freedByLast} \subseteq Int
  BY <1>7, <1>8
<1>12. LosTyped(m)
  BY <1>7, <1>8, <1>9, <1>10, <1>11 DEF LosTyped
<1>13. \A b \in DOMAIN l.nodes : Extent(m, b) = Extent(l, b)
  BY <1>5, <1>7 DEF Extent
<1>14. Extent(m, a) = a .. a + z - 1
  BY <1>4, <1>5, <1>7 DEF Extent
<1>15. LosApart(m)
  BY <1>2, <1>5, <1>7, <1>13, <1>14 DEF LosOk, LosApart
<1>16. m.total - m.free = l.total - l.free + z
  BY <1>7, <1>8
<1>17. LiveNodes(l) \subseteq DOMAIN m.nodes /\ a \in Nat \ LiveNodes(l) /\ a \in DOMAIN m.nodes
  BY <1>2, <1>3, <1>5, <1>7 DEF LiveNodes
<1>18. m.nodes[a] = LiveNode(z)
  BY <1>5, <1>7 DEF node
<1>19. \A b \in DOMAIN m.nodes \ {a} : b \in DOMAIN l.nodes /\ m.nodes[b] = l.nodes[b]
  BY <1>5, <1>7
<1>20. QED
  BY <1>6, <1>7, <1>12, <1>15, <1>16, <1>17, <1>18, <1>19, AllocAs

LEMMA TakeHoleFacts ==
  ASSUME NEW l, LosOk(l), NEW z \in Nat \ {0}, NEW a \in DeadNodes(l), l.nodes[a].size >= z
  PROVE  AllocOutcome(l, z, TakeHole(l, a, z))
<1> DEFINE spare == l.nodes[a].size - z
           taken == [l.nodes EXCEPT ![a] = LiveNode(z)]
           nodes == IF spare > 0 THEN With(taken, a + z, DeadNode(spare)) ELSE taken
           rest == IF spare > 0 THEN {a + z} ELSE {}
           m == [l EXCEPT !.nodes = nodes, !.free = l.free - z]
<1>1. LosTyped(l) /\ a \in DOMAIN l.nodes /\ a \notin LiveNodes(l)
  BY DEF LosOk, DeadNodes
<1>2. a \in Nat /\ l.nodes[a].size \in Nat \ {0} /\ spare \in Nat
  BY <1>1, ExtentFacts
<1>3. rest \cap DOMAIN l.nodes = {}
  <2>1. SUFFICES ASSUME spare > 0, a + z \in DOMAIN l.nodes PROVE FALSE
    OBVIOUS
  <2>2. a + z \in Extent(l, a + z) /\ a + z \in Extent(l, a) /\ a # a + z
    BY <1>1, <1>2, <2>1, ExtentFacts DEF Extent
  <2>3. QED
    BY <1>1, <2>1, <2>2 DEF LosOk, LosApart
<1>4. /\ DOMAIN taken = DOMAIN l.nodes /\ taken[a] = LiveNode(z)
      /\ \A b \in DOMAIN l.nodes \ {a} : taken[b] = l.nodes[b]
      /\ taken = [b \in DOMAIN l.nodes |-> taken[b]]
  BY <1>1 DEF LosTyped
<1>5. LiveNode(z) \in Node /\ LiveNode(z).size = z
  BY DEF LiveNode, Node
<1>6. spare > 0 => /\ DeadNode(spare) \in Node /\ DeadNode(spare).size = spare
                   /\ ~DeadNode(spare).live /\ DeadNode(spare).mark = Nursery
  BY <1>2 DEF DeadNode, Node
<1>7. /\ DOMAIN nodes = DOMAIN l.nodes \cup rest /\ nodes[a] = LiveNode(z)
      /\ \A b \in DOMAIN l.nodes \ {a} : nodes[b] = l.nodes[b]
      /\ \A b \in rest : nodes[b] = DeadNode(spare)
      /\ nodes = [b \in DOMAIN nodes |-> nodes[b]]
  <2> HIDE DEF taken
  <2>1. CASE spare > 0
    <3>1. nodes = [b \in DOMAIN taken \cup {a + z} |->
                     IF b = a + z THEN DeadNode(spare) ELSE taken[b]]
      BY <2>1 DEF With
    <3>2. rest = {a + z} /\ a + z \notin DOMAIN l.nodes
      BY <1>3, <2>1
    <3> HIDE DEF nodes, rest
    <3>3. QED
      BY <1>1, <1>4, <3>1, <3>2
  <2>2. CASE ~(spare > 0)
    <3>1. nodes = taken /\ rest = {}
      BY <2>2
    <3> HIDE DEF nodes, rest
    <3>2. QED
      BY <1>1, <1>4, <3>1
  <2>3. QED
    BY <2>1, <2>2
<1>8. TakeHole(l, a, z) = [addr |-> a, los |-> m]
  BY DEF TakeHole
<1> HIDE DEF nodes, taken
<1>9. /\ m.nodes = nodes /\ m.free = l.free - z /\ m.marked = l.marked /\ m.total = l.total
      /\ m.liveAtLast = l.liveAtLast /\ m.freedByLast = l.freedByLast
      /\ m = [nodes |-> m.nodes, marked |-> m.marked, total |-> m.total, free |-> m.free,
              liveAtLast |-> m.liveAtLast, freedByLast |-> m.freedByLast]
  <2>1. l = [nodes |-> l.nodes, marked |-> l.marked, total |-> l.total, free |-> l.free,
             liveAtLast |-> l.liveAtLast, freedByLast |-> l.freedByLast]
    BY <1>1 DEF LosTyped
  <2>2. m = [l EXCEPT !.nodes = nodes, !.free = l.free - z]
    OBVIOUS
  <2> HIDE DEF m
  <2>3. QED
    BY <2>1, <2>2
<1> HIDE DEF m
<1>10. {l.total, l.free, l.liveAtLast, l.freedByLast} \subseteq Int /\ l.marked \in {Mark0, Mark1}
  BY <1>1 DEF LosTyped
<1>11. DOMAIN m.nodes \subseteq Nat /\ IsFiniteSet(DOMAIN m.nodes)
  <2>1. rest \subseteq Nat
    BY <1>2
  <2>2. IsFiniteSet(rest)
    BY FS_Singleton, FS_EmptySet
  <2>3. DOMAIN l.nodes \subseteq Nat /\ IsFiniteSet(DOMAIN l.nodes)
    BY <1>1 DEF LosTyped
  <2>4. DOMAIN m.nodes = DOMAIN l.nodes \cup rest
    BY <1>7, <1>9
  <2> HIDE DEF rest
  <2>5. IsFiniteSet(DOMAIN l.nodes \cup rest)
    BY <2>2, <2>3, FS_Union
  <2>6. QED
    BY <2>1, <2>3, <2>4, <2>5
<1>12. m.nodes \in [DOMAIN m.nodes -> Node]
  <2>1. \A b \in DOMAIN nodes : nodes[b] \in Node
    BY <1>1, <1>5, <1>6, <1>7 DEF LosTyped
  <2>2. QED
    BY <1>7, <1>9, <2>1
<1>13. {m.total, m.free, m.liveAtLast, m.freedByLast} \subseteq Int
  BY <1>9, <1>10
<1>14. LosTyped(m)
  BY <1>9, <1>10, <1>11, <1>12, <1>13 DEF LosTyped
<1>15. /\ \A b \in DOMAIN l.nodes \ {a} : Extent(m, b) = Extent(l, b)
       /\ Extent(m, a) = a .. a + z - 1 /\ Extent(m, a) \subseteq Extent(l, a)
       /\ \A b \in rest : /\ Extent(m, b) \subseteq Extent(l, a)
                          /\ Extent(m, b) \cap Extent(m, a) = {}
  <2>1. \A b \in DOMAIN l.nodes \ {a} : Extent(m, b) = Extent(l, b)
    BY <1>7, <1>9 DEF Extent
  <2>2. Extent(m, a) = a .. a + z - 1
    BY <1>5, <1>7, <1>9 DEF Extent
  <2>3. Extent(l, a) = a .. a + l.nodes[a].size - 1
    BY DEF Extent
  <2>4. \A b \in rest : Extent(m, b) = a + z .. a + z + spare - 1
    BY <1>6, <1>7, <1>9 DEF Extent
  <2>5. a .. a + z - 1 \subseteq a .. a + l.nodes[a].size - 1
    BY <1>2
  <2>6. /\ (a + z .. a + z + spare - 1) \subseteq (a .. a + l.nodes[a].size - 1)
        /\ (a + z .. a + z + spare - 1) \cap (a .. a + z - 1) = {}
    BY <1>2
  <2>7. QED
    BY <2>1, <2>2, <2>3, <2>4, <2>5, <2>6
<1>16. LosApart(m)
  <2>1. \A b, c \in DOMAIN l.nodes : b # c => Extent(l, b) \cap Extent(l, c) = {}
    BY DEF LosOk, LosApart
  <2>2. \A b \in DOMAIN l.nodes \ {a} : Extent(l, b) \cap Extent(l, a) = {}
    BY <1>1, <2>1
  <2>3. SUFFICES ASSUME NEW b \in DOMAIN m.nodes, NEW c \in DOMAIN m.nodes, b # c
                 PROVE  Extent(m, b) \cap Extent(m, c) = {}
    BY DEF LosApart
  <2>4. DOMAIN m.nodes = DOMAIN l.nodes \cup rest /\ \A d, e \in rest : d = e
    BY <1>7, <1>9
  <2> HIDE DEF rest
  <2>5. CASE b \in DOMAIN l.nodes \ {a}
    BY <1>15, <2>1, <2>2, <2>3, <2>4, <2>5
  <2>6. CASE c \in DOMAIN l.nodes \ {a}
    BY <1>15, <2>1, <2>2, <2>3, <2>4, <2>6
  <2>7. CASE b \in {a} \cup rest /\ c \in {a} \cup rest
    BY <1>15, <2>3, <2>4, <2>7
  <2>8. QED
    BY <2>4, <2>5, <2>6, <2>7
<1>17. m.total - m.free = l.total - l.free + z
  BY <1>9, <1>10
<1>18. LiveNodes(l) \subseteq DOMAIN m.nodes /\ a \in Nat \ LiveNodes(l) /\ a \in DOMAIN m.nodes
  BY <1>1, <1>2, <1>7, <1>9 DEF LiveNodes
<1>19. m.nodes[a] = LiveNode(z)
  BY <1>7, <1>9
<1>20. \A b \in DOMAIN m.nodes \ {a} :
         \/ b \in DOMAIN l.nodes /\ m.nodes[b] = l.nodes[b]
         \/ b \notin LiveNodes(l) /\ ~m.nodes[b].live /\ m.nodes[b].mark = Nursery
  <2>1. \A b \in rest : spare > 0 /\ b \notin LiveNodes(l)
    BY <1>3 DEF LiveNodes
  <2> HIDE DEF rest
  <2>2. QED
    BY <1>6, <1>7, <1>9, <2>1
<1>21. QED
  BY <1>8, <1>9, <1>14, <1>16, <1>17, <1>18, <1>19, <1>20, AllocAs

LEMMA LosAllocFacts ==
  ASSUME NEW l, LosOk(l), NEW z \in Nat \ {0}, NEW got \in LosAlloc(l, z)
  PROVE  AllocOutcome(l, z, got)
<1>1. \/ got = TakeFresh(l, z)
      \/ \E a \in DeadNodes(l) : l.nodes[a].size >= z /\ got = TakeHole(l, a, z)
  BY DEF LosAlloc
<1>2. QED
  BY <1>1, TakeFreshFacts, TakeHoleFacts

(***************************************************************************)
(* Sizes                                                                   *)
(***************************************************************************)
LEMMA Constants ==
  /\ IsFiniteSet(Slots) /\ PageSize \in Nat \ {0} /\ Headroom \in Nat /\ MaxRegion \in Nat
  /\ LargeSizes \subseteq Nat \ {0} /\ InitialSize \in Nat
BY SemiAssumption

LEMMA RegionPagesFacts ==
  ASSUME NEW z \in Nat
  PROVE  /\ RegionPages(z) \in Nat /\ 2 * RegionPages(z) >= z
         /\ \A m \in Nat : m >= z => RegionPages(m) >= RegionPages(z)
<1>1. \A m \in Nat : RegionPages(m) = (m + 1) \div 2
  BY DEF RegionPages, AlignUp
<1>2. QED
  BY <1>1

LEMMA TimesPages ==
  ASSUME NEW z \in Nat
  PROVE  z * PageSize \in Nat /\ z * PageSize >= z
<1>1. PageSize \in Nat /\ PageSize >= 1
  BY Constants
<1>2. z * PageSize \in Nat
  BY <1>1
<1>3. z * PageSize = z + z * (PageSize - 1)
  BY <1>1
<1>4. z * (PageSize - 1) \in Nat
  <2>1. PageSize - 1 \in Nat
    BY <1>1
  <2>2. QED
    BY <2>1
<1>5. QED
  BY <1>2, <1>3, <1>4

LEMMA DivMod ==
  ASSUME NEW x \in Nat, NEW k \in Nat \ {0}
  PROVE  x \div k \in Nat /\ (x % k) \in 0 .. k - 1 /\ x = k * (x \div k) + (x % k)
OBVIOUS

\* The quotient of q * k + r by k.
LEMMA DivUnique ==
  ASSUME NEW k \in Nat \ {0}, NEW q \in Nat, NEW r \in 0 .. k - 1
  PROVE  (q * k + r) \div k = q
<1> DEFINE x == q * k + r
<1>1. x \in Nat
  OBVIOUS
<1>2. PICK d \in Int, m \in 0 .. k - 1 : x = k * d + m /\ d = x \div k
  <2> HIDE DEF x
  <2>1. QED
    BY <1>1, DivMod
<1>3. k * (d - q) = r - m
  BY <1>2
<1>4. ~(d - q >= 1)
  <2>1. SUFFICES ASSUME d - q >= 1 PROVE FALSE
    OBVIOUS
  <2>2. k * (d - q) >= k
    <3>1. (d - q) - 1 \in Nat
      BY <2>1
    <3>2. k * ((d - q) - 1) \in Nat
      BY <3>1
    <3>3. k * (d - q) = k * ((d - q) - 1) + k
      OBVIOUS
    <3>4. QED
      BY <3>2, <3>3
  <2>3. QED
    BY <1>3, <2>2
<1>5. ~(q - d >= 1)
  <2>1. SUFFICES ASSUME q - d >= 1 PROVE FALSE
    OBVIOUS
  <2>2. k * (q - d) >= k
    <3>1. (q - d) - 1 \in Nat
      BY <2>1
    <3>2. k * ((q - d) - 1) \in Nat
      BY <3>1
    <3>3. k * (q - d) = k * ((q - d) - 1) + k
      OBVIOUS
    <3>4. QED
      BY <3>2, <3>3
  <2>3. k * (q - d) = m - r
    BY <1>3
  <2>4. QED
    BY <2>2, <2>3
<1>6. QED
  BY <1>2, <1>4, <1>5

LEMMA AlignedHalf ==
  ASSUME NEW x \in Nat
  PROVE  /\ AlignUp(x, 2 * PageSize) \div 2 \in Nat
         /\ 2 * (AlignUp(x, 2 * PageSize) \div 2) >= x
<1> DEFINE k == 2 * PageSize
           q == (x + k - 1) \div k
<1>1. PageSize \in Nat \ {0} /\ k \in Nat \ {0}
  BY Constants
<1>2. q \in Nat /\ q * k >= x
  <2>1. x + k - 1 \in Nat
    BY <1>1
  <2>2. PICK d \in Int, m \in 0 .. k - 1 : x + k - 1 = k * d + m /\ d = q
    <3> HIDE DEF k
    <3>1. QED
      BY <1>1, <2>1, DivMod
  <2> HIDE DEF k, q
  <2>3. d \in Nat
    <3>1. SUFFICES ASSUME d <= -1 PROVE FALSE
      OBVIOUS
    <3>2. k * (-1 - d) \in Nat
      <4>1. -1 - d \in Nat
        BY <3>1
      <4>2. QED
        BY <1>1, <4>1
    <3>3. k * d = -k - k * (-1 - d)
      BY <1>1
    <3>4. k * d \in Int
      BY <1>1
    <3>5. QED
      BY <1>1, <2>1, <2>2, <3>2, <3>3, <3>4
  <2>4. k * d = d * k /\ k * d \in Int
    BY <1>1, <2>3
  <2>5. d * k >= x
    BY <1>1, <2>2, <2>4
  <2>6. QED
    BY <2>2, <2>3, <2>5
<1>3. AlignUp(x, k) = q * k
  BY DEF AlignUp
<1> HIDE DEF q
<1>4. q * k = 2 * (q * PageSize) /\ q * PageSize \in Nat
  BY <1>1, <1>2
<1>5. (2 * (q * PageSize)) \div 2 = q * PageSize
  BY <1>4
<1>6. QED
  BY <1>2, <1>3, <1>4, <1>5

LEMMA InitialHalf ==
  /\ AlignUp(InitialSize, 2 * PageSize) \div 2 = InitialSize \div 2
  /\ InitialSize \div 2 \in Nat /\ 2 * (InitialSize \div 2) = InitialSize
<1> DEFINE k == 2 * PageSize
           q == InitialSize \div k
<1>1. PageSize \in Nat \ {0} /\ k \in Nat \ {0} /\ InitialSize \in Nat /\ InitialSize % k = 0
  BY SemiAssumption
<1>2. q \in Nat /\ InitialSize = q * k
  <2> HIDE DEF k
  <2>1. q \in Nat /\ InitialSize = k * q + (InitialSize % k)
    BY <1>1, DivMod
  <2>2. QED
    BY <1>1, <2>1
<1> HIDE DEF q
<1>3. (q * k + (k - 1)) \div k = q
  BY <1>1, <1>2, DivUnique
<1>4. AlignUp(InitialSize, k) = q * k
  <2> HIDE DEF k
  <2>1. q * k \in Nat
    BY <1>1, <1>2
  <2>2. InitialSize + k - 1 = q * k + (k - 1)
    BY <1>1, <1>2, <2>1
  <2>3. QED
    BY <1>3, <2>2 DEF AlignUp
<1>5. q * k = 2 * (q * PageSize) /\ q * PageSize \in Nat
  BY <1>1, <1>2
<1>6. QED
  BY <1>2, <1>4, <1>5

LEMMA TargetFacts ==
  ASSUME NEW z \in Nat
  PROVE  Target(z) \in Nat
BY Constants DEF Target

(***************************************************************************)
(* The objects                                                             *)
(***************************************************************************)
LEMMA Parts ==
  ASSUME LayoutInv, StoreInv
  PROVE  /\ to \in Regions /\ from \in Regions /\ from # to /\ to # "los" /\ from # "los"
         /\ DOMAIN store = ToPart \cup FromPart \cup LargePart
         /\ ToPart \cap FromPart = {} /\ ToPart \cap LargePart = {}
         /\ FromPart \cap LargePart = {} /\ Null \notin HeapPlaces /\ Null \notin DOMAIN store
<1>1. to \in Regions /\ from \in Regions /\ from # to /\ to # "los" /\ from # "los"
  BY DEF LayoutInv, from, OtherRegion, Regions
<1>2. \A r \in DOMAIN store : r[1] \in {to, from, "los"}
  BY DEF StoreInv, HeapPlaces, LayoutInv, from, OtherRegion, Regions
<1>3. Null \notin HeapPlaces
  BY DEF Null, HeapPlaces, Regions
<1>4. QED
  BY <1>1, <1>2, <1>3 DEF ToPart, FromPart, LargePart, StoreInv

LEMMA SeqWider ==
  ASSUME NEW T, NEW S \in SUBSET T, NEW g \in Seq(S)
  PROVE  g \in Seq(T)
<1>1. Len(g) \in Nat /\ g \in [1 .. Len(g) -> S]
  OBVIOUS
<1>2. g \in [1 .. Len(g) -> T]
  BY <1>1
<1>3. QED
  BY <1>1, <1>2

\* What a request stores in the new object, and how the program names it.
LEMMA NewObjectFacts ==
  ASSUME GraphInv, NEW w, Request(w)
  PROVE  /\ NewObject(w) \in Object /\ NewObject(w).fwd = Null /\ NewObject(w).kind = w.kind
         /\ Len(NewObject(w).fields) = IF w.kind = "ephemeron" THEN 2 ELSE 1
         /\ NewNames(w) \in Seq(0 .. Len(gfields))
         /\ Len(NewNames(w)) = Len(NewObject(w).fields)
         /\ \A i \in DOMAIN NewObject(w).fields : Names(NewObject(w).fields[i], NewNames(w)[i])
<1>1. \A s \in Slots : /\ roots[s] \in Refs /\ groots[s] \in 0 .. Len(gfields)
                       /\ Names(roots[s], groots[s])
  BY DEF GraphInv, Names, ObjectNames
<1>2. Null \in Refs
  BY DEF Refs
<1>3. CASE w.kind = "struct"
  <2>1. NewObject(w) = [kind |-> "struct", fields |-> <<roots[w.arg]>>, fwd |-> Null]
    BY <1>3 DEF NewObject, Struct
  <2>2. NewNames(w) = <<groots[w.arg]>>
    BY <1>3 DEF NewNames
  <2>3. w.arg \in Slots
    BY DEF Request
  <2>4. QED
    BY <1>1, <1>2, <1>3, <2>1, <2>2, <2>3 DEF Object, Kinds
<1>4. CASE w.kind = "array"
  <2>1. NewObject(w) = [kind |-> "array", fields |-> <<roots[w.arg]>>, fwd |-> Null]
    BY <1>4 DEF NewObject, Array
  <2>2. NewNames(w) = <<groots[w.arg]>>
    BY <1>4 DEF NewNames
  <2>3. w.arg \in Slots
    BY DEF Request
  <2>4. QED
    BY <1>1, <1>2, <1>4, <2>1, <2>2, <2>3 DEF Object, Kinds
<1>5. CASE w.kind = "ephemeron"
  <2>1. NewObject(w) = [kind |-> "ephemeron", fields |-> <<roots[w.arg], roots[w.arg2]>>,
                        fwd |-> Null]
    BY <1>5 DEF NewObject, Ephemeron
  <2>2. NewNames(w) = <<groots[w.arg], groots[w.arg2]>>
    BY <1>5 DEF NewNames
  <2>3. w.arg \in Slots /\ w.arg2 \in Slots
    BY <1>5 DEF Request
  <2>4. QED
    BY <1>1, <1>2, <1>5, <2>1, <2>2, <2>3 DEF Object, Kinds
<1>6. w.kind \in Kinds
  BY DEF Request
<1>7. QED
  BY <1>3, <1>4, <1>5, <1>6 DEF Kinds

\* A new object, where there was none: the program's view stays as it was,
\* with one name more.
LEMMA PlaceGraph ==
  ASSUME StoreInv, GraphInv, NEW w, Request(w), NEW r, r \notin DOMAIN store, Null \notin DOMAIN store,
         r # Null, r \in Refs,
         Place(r, NewObject(w), NewNames(w), w.slot),
         NamedOnce(DOMAIN store)
  PROVE  /\ roots' \in [Slots -> Refs] /\ groots' \in [Slots -> Nat]
         /\ gfields' \in Seq(Seq(0 .. Len(gfields')))
         /\ id' \in [DOMAIN store' -> ObjectNames']
         /\ \A s \in Slots : Names(roots[s], groots[s])'
         /\ \A q \in DOMAIN store' : Agrees(q)'
         /\ NamedOnce(DOMAIN store)'
         /\ DOMAIN store' = DOMAIN store \cup {r} /\ store'[r] = NewObject(w)
         /\ \A q \in DOMAIN store : store'[q] = store[q]
<1>0. PICK z, names, obj : z = Len(gfields) + 1 /\ names = NewNames(w) /\ obj = NewObject(w)
  OBVIOUS
<1>1. /\ store' = With(store, r, obj) /\ id' = With(id, r, z)
      /\ gfields' = Append(gfields, names)
      /\ roots' = [roots EXCEPT ![w.slot] = r] /\ groots' = [groots EXCEPT ![w.slot] = z]
  BY <1>0 DEF Place
<1>2. /\ DOMAIN store' = DOMAIN store \cup {r} /\ store'[r] = obj
      /\ \A q \in DOMAIN store : store'[q] = store[q]
  BY <1>1 DEF With
<1>3. /\ DOMAIN id = DOMAIN store /\ \A q \in DOMAIN store : id[q] \in 1 .. Len(gfields)
      /\ gfields \in Seq(Seq(0 .. Len(gfields)))
  BY DEF GraphInv, ObjectNames
<1>4. /\ id'[r] = z /\ \A q \in DOMAIN store : id'[q] = id[q]
      /\ id' = [q \in DOMAIN store' |-> id'[q]]
  BY <1>1, <1>2, <1>3 DEF With
<1>5. /\ obj.kind = w.kind /\ names \in Seq(0 .. Len(gfields)) /\ Len(names) = Len(obj.fields)
      /\ obj.fields \in Seq(Refs)
      /\ \A i \in DOMAIN obj.fields : Names(obj.fields[i], names[i])
  BY <1>0, NewObjectFacts DEF Object
<1>6. z \in Nat \ {0} /\ z = Len(gfields') /\ z = Len(gfields) + 1
  BY <1>0, <1>1, <1>3
<1>7. gfields' \in Seq(Seq(0 .. z))
  <2>1. 0 .. Len(gfields) \subseteq 0 .. z
    BY <1>3, <1>6
  <2>2. \A g \in Seq(0 .. Len(gfields)) : g \in Seq(0 .. z)
    BY <2>1, SeqWider
  <2>3. \A k \in 1 .. Len(gfields) : gfields[k] \in Seq(0 .. z)
    BY <1>3, <2>2
  <2>4. names \in Seq(0 .. z)
    BY <1>5, <2>2
  <2>5. gfields \in Seq(Seq(0 .. z))
    BY <1>3, <2>3
  <2>6. QED
    BY <1>1, <2>4, <2>5
<1>8. gfields'[z] = names /\ \A k \in 1 .. Len(gfields) : gfields'[k] = gfields[k]
  BY <1>1, <1>3, <1>6
<1>9. id' \in [DOMAIN store' -> ObjectNames']
  BY <1>2, <1>3, <1>4, <1>6 DEF ObjectNames
<1>10. \A f, k : Names(f, k) => Names(f, k)'
  BY <1>2, <1>4 DEF Names
<1>11. Names(r, z)'
  BY <1>2, <1>4 DEF Names
<1>12. \A s \in Slots : Names(roots[s], groots[s])'
  BY <1>1, <1>10, <1>11 DEF GraphInv
<1>13. StoreNames' = StoreNames \cup {z}
  BY <1>2, <1>4 DEF StoreNames
<1>14. StoreNames \subseteq 1 .. Len(gfields)
  BY <1>3 DEF StoreNames
<1>15. ASSUME NEW q \in DOMAIN store PROVE Agrees(q)'
  <2> DEFINE o == store[q].fields g == gfields[id[q]]
  <2>1. Agrees(q)
    BY DEF GraphInv
  <2>2. store'[q].fields = o /\ gfields'[id'[q]] = g /\ IsWeak(q)' = IsWeak(q)
    BY <1>2, <1>3, <1>4, <1>8 DEF IsWeak
  <2>3. g \in Seq(0 .. Len(gfields))
    BY <1>3
  <2>4. Len(g) = Len(o) /\ IF IsWeak(q) /\ o[1] = Null THEN g[1] \notin StoreNames
                           ELSE \A i \in DOMAIN o : Names(o[i], g[i])
    BY <2>1 DEF Agrees
  <2> HIDE DEF o, g
  <2>5. CASE IsWeak(q) /\ o[1] = Null
    <3>1. g[1] # z
      <4>1. Len(o) = 2
        BY <2>5 DEF StoreInv, o
      <4>2. g[1] \in 0 .. Len(gfields)
        BY <2>3, <2>4, <4>1
      <4>3. QED
        BY <1>3, <1>6, <4>2
    <3>2. QED
      BY <1>13, <2>2, <2>4, <2>5, <3>1 DEF Agrees
  <2>6. CASE ~(IsWeak(q) /\ o[1] = Null)
    BY <1>10, <2>2, <2>4, <2>6 DEF Agrees
  <2>7. QED
    BY <2>5, <2>6
<1>16. Agrees(r)'
  <2>1. store'[r].fields = obj.fields /\ gfields'[id'[r]] = names
    BY <1>2, <1>4, <1>8
  <2>2. \A i \in DOMAIN obj.fields : Names(obj.fields[i], names[i])'
    BY <1>5, <1>10
  <2>3. IsWeak(r)' => 1 \in DOMAIN obj.fields
    <3>1. SUFFICES ASSUME IsWeak(r)' PROVE 1 \in DOMAIN obj.fields
      OBVIOUS
    <3>2. w.kind = "ephemeron"
      BY <1>2, <1>5, <3>1 DEF IsWeak
    <3>3. Len(obj.fields) = 2
      BY <1>0, <3>2, NewObjectFacts
    <3>4. QED
      BY <1>5, <3>3
  <2>4. IsWeak(r)' /\ obj.fields[1] = Null => names[1] \notin StoreNames'
    <3>1. SUFFICES ASSUME IsWeak(r)', obj.fields[1] = Null PROVE names[1] \notin StoreNames'
      OBVIOUS
    <3>2. names[1] = 0
      BY <1>5, <2>3, <3>1 DEF Names
    <3>3. QED
      BY <1>6, <1>13, <1>14, <3>2
  <2>5. QED
    BY <1>5, <2>1, <2>2, <2>4 DEF Agrees
<1>17. NamedOnce(DOMAIN store)'
  BY <1>2, <1>3, <1>4, <1>6 DEF NamedOnce
<1>18. roots' \in [Slots -> Refs] /\ groots' \in [Slots -> Nat]
  BY <1>1, <1>6 DEF GraphInv
<1>19. QED
  BY <1>2, <1>6, <1>7, <1>9, <1>12, <1>15, <1>16, <1>17, <1>18, <1>0

(***************************************************************************)
(* The mutator's steps                                                     *)
(***************************************************************************)
LEMMA CalmTrace ==
  ASSUME TraceInv, pc \notin {"trace", "overrun"}, pc' # "trace",
         UNCHANGED <<ephVars, todo, grey>>
  PROVE  TraceInv'
<1>1. /\ check' = check /\ pending' = pending /\ resolved' = resolved /\ todo' = todo
      /\ grey' = grey
  BY DEF ephVars
<1>2. pending' = {} /\ resolved' = <<>> /\ todo' = <<>>
  BY <1>1 DEF TraceInv
<1>3. check' \in BOOLEAN /\ grey' \in Nat
  BY <1>1 DEF TraceInv
<1>4. pending' \subseteq DOMAIN store' /\ todo' \in Seq(Range(todo')) /\ resolved' \in Seq(DOMAIN store')
  BY <1>2
<1>5. QED
  BY <1>2, <1>3, <1>4 DEF TraceInv

\* When no object is left behind, an object has one name.
LEMMA CalmParts ==
  ASSUME LayoutInv, StoreInv, GraphInv, pc # "trace"
  PROVE  DOMAIN store = ToPart \cup LargePart /\ NamedOnce(DOMAIN store)
<1>1. FromPart = {}
  BY DEF StoreInv
<1>2. DOMAIN store = ToPart \cup LargePart
  BY <1>1, Parts
<1>3. QED
  BY <1>2 DEF GraphInv

\* The parts of GraphInv and StoreInv that a new object leaves to be shown.
LEMMA NewPart ==
  ASSUME LayoutInv, StoreInv, GraphInv, pc # "trace", pc' # "trace", to' = to,
         NEW w, Request(w), NEW r \in HeapPlaces \ DOMAIN store, r[1] # from,
         Place(r, NewObject(w), NewNames(w), w.slot),
         r[1] = "los" => w.kind # "ephemeron",
         {q \in DOMAIN store \cup {r} : q[1] = to} = {<<to, i>> : i \in 0 .. hp' - 1},
         {q \in DOMAIN store \cup {r} : q[1] = "los"} = {<<"los", a>> : a \in LiveNodes(los')}
  PROVE  StoreInv' /\ GraphInv'
<1>1. DOMAIN store = ToPart \cup LargePart /\ NamedOnce(DOMAIN store)
  BY CalmParts
<1>2. /\ to \in Regions /\ from # to /\ to # "los" /\ from # "los" /\ Null \notin HeapPlaces
      /\ Null \notin DOMAIN store /\ FromPart = {}
  BY Parts DEF StoreInv
<1>3. r # Null /\ r \in Refs
  BY <1>2 DEF Refs
<1>4. /\ roots' \in [Slots -> Refs] /\ groots' \in [Slots -> Nat]
      /\ gfields' \in Seq(Seq(0 .. Len(gfields')))
      /\ id' \in [DOMAIN store' -> ObjectNames']
      /\ \A s \in Slots : Names(roots[s], groots[s])'
      /\ \A q \in DOMAIN store' : Agrees(q)'
      /\ NamedOnce(DOMAIN store)'
      /\ DOMAIN store' = DOMAIN store \cup {r} /\ store'[r] = NewObject(w)
      /\ \A q \in DOMAIN store : store'[q] = store[q]
  BY <1>1, <1>2, <1>3, PlaceGraph
<1>5. from' = from
  BY DEF from, OtherRegion
<1>6. FromPart' = {}
  BY <1>2, <1>4, <1>5 DEF FromPart
<1>7. /\ ToPart' \subseteq DOMAIN store' /\ LargePart' \subseteq DOMAIN store'
      /\ ToPart' = {q \in DOMAIN store \cup {r} : q[1] = to}
      /\ LargePart' = {q \in DOMAIN store \cup {r} : q[1] = "los"}
  BY <1>4 DEF ToPart, LargePart
<1>8. GraphInv'
  <2>1. NamedOnce(ToPart \cup LargePart)' /\ NamedOnce(FromPart \cup LargePart)'
    BY <1>4, <1>6, <1>7 DEF NamedOnce
  <2>2. QED
    BY <1>4, <2>1 DEF GraphInv
<1>9. /\ NewObject(w) \in Object /\ NewObject(w).fwd = Null /\ NewObject(w).kind = w.kind
      /\ Len(NewObject(w).fields) = IF w.kind = "ephemeron" THEN 2 ELSE 1
  BY NewObjectFacts
<1>10. StoreInv'
  <2>1. DOMAIN store' \subseteq HeapPlaces
    BY <1>4 DEF StoreInv
  <2>2. ASSUME NEW q \in DOMAIN store'
        PROVE  /\ store'[q] \in Object
               /\ Len(store'[q].fields) = IF IsWeak(q)' THEN 2 ELSE 1
               /\ q \in LargePart' => ~IsWeak(q)'
               /\ store'[q].fwd = Null
    <3>1. CASE q = r
      <4>1. store'[q] = NewObject(w) /\ (IsWeak(q)' <=> w.kind = "ephemeron")
        BY <1>4, <1>9, <3>1 DEF IsWeak
      <4>2. q \in LargePart' => q[1] = "los"
        BY DEF LargePart
      <4>3. QED
        BY <1>9, <3>1, <4>1, <4>2
    <3>2. CASE q # r
      <4>1. q \in DOMAIN store /\ store'[q] = store[q] /\ (IsWeak(q)' <=> IsWeak(q))
        BY <1>4, <2>2, <3>2 DEF IsWeak
      <4>2. q \in LargePart' => q \in LargePart
        BY <4>1 DEF LargePart
      <4>3. QED
        BY <1>1, <4>1, <4>2 DEF StoreInv
    <3>3. QED
      BY <3>1, <3>2
  <2>3. QED
    BY <1>6, <1>7, <2>1, <2>2 DEF StoreInv
<1>11. QED
  BY <1>8, <1>10

LEMMA BumpKeeps ==
  ASSUME LayoutInv, StoreInv, GraphInv, LosInv, pc \in {"run", "retry"}, pc' = "run",
         NEW w, Request(w), hp + 1 <= limit, Bump(w)
  PROVE  LayoutInv' /\ StoreInv' /\ GraphInv' /\ LosInv'
<1>1. /\ hp' = hp + 1 /\ to' = to /\ limit' = limit /\ active' = active /\ mapped' = mapped
      /\ stolen' = stolen /\ size' = size /\ los' = los /\ unstolen' = unstolen
      /\ Place(<<to, hp>>, NewObject(w), NewNames(w), w.slot)
  BY DEF Bump
<1>2. /\ to \in Regions /\ from # to /\ to # "los" /\ hp \in Nat
      /\ ToPart = {<<to, i>> : i \in 0 .. hp - 1}
      /\ LargePart = {<<"los", a>> : a \in LiveNodes(los)}
  BY Parts DEF StoreInv, LayoutInv
<1> DEFINE r == <<to, hp>>
<1>3. r \in HeapPlaces /\ r[1] = to /\ r[2] = hp
  BY <1>2 DEF HeapPlaces
<1>4. r \notin DOMAIN store
  <2>1. r \notin ToPart
    BY <1>2
  <2>2. QED
    BY <1>3, <2>1 DEF ToPart
<1>5. {q \in DOMAIN store \cup {r} : q[1] = to} = {<<to, i>> : i \in 0 .. hp' - 1}
  <2>1. {q \in DOMAIN store \cup {r} : q[1] = to} = ToPart \cup {r}
    BY <1>3 DEF ToPart
  <2>2. 0 .. hp' - 1 = (0 .. hp - 1) \cup {hp}
    BY <1>1, <1>2
  <2>3. QED
    BY <1>2, <2>1, <2>2
<1>6. {q \in DOMAIN store \cup {r} : q[1] = "los"} = {<<"los", a>> : a \in LiveNodes(los')}
  BY <1>1, <1>2, <1>3 DEF LargePart
<1>7. r \in HeapPlaces \ DOMAIN store /\ r[1] # from /\ r[1] # "los"
  BY <1>2, <1>3, <1>4
<1>8. Place(r, NewObject(w), NewNames(w), w.slot)
  BY <1>1
<1> HIDE DEF r
<1>9. StoreInv' /\ GraphInv'
  BY <1>1, <1>5, <1>6, <1>7, <1>8, NewPart
<1>10. LayoutInv'
  <2>1. from' = from
    BY <1>1 DEF from, OtherRegion
  <2>2. RegionPages(stolen)' = RegionPages(stolen)
    BY <1>1 DEF RegionPages, AlignUp
  <2>3. QED
    BY <1>1, <2>1, <2>2 DEF LayoutInv, Points
<1>11. LosInv'
  BY <1>1 DEF LosInv
<1>12. QED
  BY <1>9, <1>10, <1>11

LEMMA AllocLargeKeeps ==
  ASSUME LayoutInv, StoreInv, GraphInv, LosInv, pc \in {"run", "retry"}, pc' = "run",
         NEW w, Request(w), w.kind = "array", AllocLarge(w), to' = to, hp' = hp,
         {stolen', unstolen'} \subseteq Nat, stolen' + unstolen' = stolen + unstolen + w.pages
  PROVE  StoreInv' /\ GraphInv' /\ LosInv'
<1>1. PICK got \in LosAlloc(los, w.pages) :
        los' = got.los /\ Place(<<"los", got.addr>>, NewObject(w), NewNames(w), w.slot)
  BY DEF AllocLarge
<1>2. w.pages \in Nat \ {0}
  BY Constants DEF Request
<1>3. AllocOutcome(los, w.pages, got)
  BY <1>1, <1>2, LosAllocFacts DEF LosInv
<1>4. /\ to \in Regions /\ from # "los" /\ to # "los"
      /\ ToPart = {<<to, i>> : i \in 0 .. hp - 1}
      /\ LargePart = {<<"los", a>> : a \in LiveNodes(los)}
  BY Parts DEF StoreInv
<1>5. PICK a \in Nat \ LiveNodes(los) : a = got.addr /\ LiveNodes(los') = LiveNodes(los) \cup {a}
  BY <1>1, <1>3 DEF AllocOutcome
<1> DEFINE r == <<"los", a>>
<1>6. r \in HeapPlaces /\ r[1] = "los"
  BY DEF HeapPlaces
<1>7. r \notin DOMAIN store
  <2>1. r \notin LargePart
    BY <1>4
  <2>2. QED
    BY <1>6, <2>1 DEF LargePart
<1>8. {q \in DOMAIN store \cup {r} : q[1] = to} = {<<to, i>> : i \in 0 .. hp' - 1}
  BY <1>4, <1>6 DEF ToPart
<1>9. {q \in DOMAIN store \cup {r} : q[1] = "los"} = {<<"los", b>> : b \in LiveNodes(los')}
  <2>1. {q \in DOMAIN store \cup {r} : q[1] = "los"} = LargePart \cup {r}
    BY <1>6 DEF LargePart
  <2>2. QED
    BY <1>4, <1>5, <2>1
<1>10. Place(r, NewObject(w), NewNames(w), w.slot)
  BY <1>1, <1>5
<1>11. r \in HeapPlaces \ DOMAIN store /\ r[1] # from
  BY <1>4, <1>6, <1>7
<1> HIDE DEF r
<1>12. StoreInv' /\ GraphInv'
  BY <1>8, <1>9, <1>10, <1>11, NewPart
<1>13. LosInv'
  <2>1. LosOk(los') /\ LosReady(los')
    BY <1>1, <1>3 DEF AllocOutcome, LosInv
  <2>2. PagesOf(los', LiveNodes(los')) = PagesOf(los, LiveNodes(los)) + w.pages
    BY <1>1, <1>3 DEF AllocOutcome
  <2>3. QED
    BY <2>1, <2>2 DEF LosInv
<1>14. QED
  BY <1>12, <1>13

LEMMA StealKeeps ==
  ASSUME LayoutInv, LosInv, pc \in {"run", "retry"}, pc' = "run",
         NEW z \in Nat \ {0}, CanSteal(z), Steal(z)
  PROVE  LayoutInv' /\ stolen' = stolen + z /\ stolen' \in Nat
<1> DEFINE more == RegionPages(stolen + z) - RegionPages(stolen)
<1>1. /\ stolen' = stolen + z /\ limit' = limit - StolenBytes(z)
      /\ active' = [r \in Regions |-> active[r] - StolenBytes(z)]
      /\ to' = to /\ hp' = hp /\ mapped' = mapped /\ size' = size
  BY DEF Steal
<1>2. stolen \in Nat /\ stolen + z \in Nat /\ stolen + z >= stolen
  BY DEF LosInv
<1>3. more \in Nat /\ RegionPages(stolen) \in Nat /\ RegionPages(stolen + z) \in Nat
  BY <1>2, RegionPagesFacts
<1>4. StolenBytes(z) = more * PageSize /\ more * PageSize \in Nat
  BY <1>3, TimesPages DEF StolenBytes
<1>5. RegionPages(stolen + z) * PageSize = RegionPages(stolen) * PageSize + more * PageSize
  BY <1>3, Constants
<1>6. RegionPages(stolen) * PageSize \in Nat
  BY <1>3, TimesPages
<1> DEFINE b == more * PageSize
<1> HIDE DEF more
<1>7. limit - hp >= b
  BY <1>4 DEF CanSteal
<1>8. /\ hp \in Nat /\ limit \in Nat /\ size \in Nat /\ to \in Regions /\ from \in Regions
      /\ active \in [Regions -> Nat] /\ active[to] = active[from] /\ limit = active[to]
      /\ 2 * (active[to] + RegionPages(stolen) * PageSize) = size
      /\ \A r \in Regions : r = to \/ r = from
  BY DEF LayoutInv, from, OtherRegion, Regions
<1> HIDE DEF b
<1>9. b \in Nat
  BY <1>4 DEF b
<1>10. \A r \in Regions : active'[r] = active[r] - b /\ active[r] = limit
  BY <1>1, <1>4, <1>8 DEF b
<1>11. active' \in [Regions -> Nat]
  BY <1>1, <1>4, <1>7, <1>8, <1>9, <1>10
<1>12. limit' = limit - b /\ limit' \in Nat /\ hp' <= limit'
  BY <1>1, <1>4, <1>7, <1>8, <1>9 DEF b
<1>13. from' = from /\ RegionPages(stolen)' = RegionPages(stolen + z)
  BY <1>1 DEF from, OtherRegion, RegionPages, AlignUp
<1>14. 2 * (active'[to] + RegionPages(stolen)' * PageSize) = size
  <2>1. RegionPages(stolen)' * PageSize = RegionPages(stolen) * PageSize + b
    BY <1>5, <1>13 DEF b
  <2>2. active'[to] = active[to] - b
    BY <1>8, <1>10
  <2>3. QED
    BY <1>6, <1>8, <1>9, <2>1, <2>2
<1>15. active'[to] = active'[from] /\ limit' = active'[to]
  BY <1>8, <1>10, <1>12
<1>16. QED
  BY <1>1, <1>2, <1>11, <1>12, <1>13, <1>14, <1>15 DEF LayoutInv, Points

Inv ==
  LosInv /\ LayoutInv /\ StoreInv /\ GraphInv /\ TraceInv /\ ExactInv /\ WantInv /\ GrowInv

LEMMA WantsRequest ==
  ASSUME NEW w \in Wants
  PROVE  Request(w)
<1>1. CASE w \in [kind : {"struct"}, arg : Slots, slot : Slots]
  BY <1>1 DEF Request, Kinds
<1>2. CASE \E a \in Slots, s \in Slots, z \in LargeSizes :
             w = [kind |-> "array", arg |-> a, slot |-> s, pages |-> z]
  <2>1. PICK a \in Slots, s \in Slots, z \in LargeSizes :
          w = [kind |-> "array", arg |-> a, slot |-> s, pages |-> z]
    BY <1>2
  <2>2. QED
    BY <2>1 DEF Request, Kinds
<1>3. CASE \E a \in Slots, b \in Slots, s \in Slots :
             w = [kind |-> "ephemeron", arg |-> a, arg2 |-> b, slot |-> s]
  <2>1. PICK a \in Slots, b \in Slots, s \in Slots :
          w = [kind |-> "ephemeron", arg |-> a, arg2 |-> b, slot |-> s]
    BY <1>3
  <2>2. QED
    BY <2>1 DEF Request, Kinds
<1>4. QED
  BY <1>1, <1>2, <1>3 DEF Wants

\* What a step of the program leaves of the invariant to show.
LEMMA RunInv ==
  ASSUME Inv, pc \in {"run", "retry"}, pc' = "run", want' = NoWant,
         UNCHANGED <<ephVars, todo, grey>>,
         LosInv', LayoutInv', StoreInv', GraphInv'
  PROVE  Inv'
<1>1. TraceInv'
  BY CalmTrace DEF Inv
<1>2. ExactInv' /\ WantInv' /\ GrowInv'
  BY DEF ExactInv, WantInv, GrowInv, Again
<1>3. QED
  BY <1>1, <1>2 DEF Inv

LEMMA AllocInv ==
  ASSUME Inv, NEW w \in Wants, Alloc(w)
  PROVE  Inv'
<1>1. Request(w)
  BY WantsRequest
<1>2. /\ pc = "run" /\ pc' = "run" /\ want' = want /\ Served(w)
      /\ UNCHANGED <<ephVars, todo, grey>>
      /\ IF w.kind = "array" THEN Steal(w.pages) /\ AllocLarge(w) /\ UNCHANGED unstolen
         ELSE Bump(w)
  BY DEF Alloc
<1>3. want' = NoWant
  BY <1>2 DEF Inv, WantInv
<1>4. CASE w.kind = "array"
  <2>1. w.pages \in Nat \ {0}
    BY <1>1, <1>4, Constants DEF Request
  <2>2. Steal(w.pages) /\ CanSteal(w.pages) /\ AllocLarge(w) /\ unstolen' = unstolen
    BY <1>2, <1>4 DEF Served
  <2>3. LayoutInv' /\ stolen' = stolen + w.pages /\ stolen' \in Nat
    BY <1>2, <2>1, <2>2, StealKeeps DEF Inv
  <2>4. to' = to /\ hp' = hp
    BY <2>2 DEF Steal
  <2>5. stolen' + unstolen' = stolen + unstolen + w.pages /\ {stolen', unstolen'} \subseteq Nat
    BY <2>1, <2>2, <2>3 DEF Inv, LosInv
  <2>6. StoreInv' /\ GraphInv' /\ LosInv'
    BY <1>1, <1>2, <1>4, <2>2, <2>4, <2>5, AllocLargeKeeps DEF Inv
  <2>7. QED
    BY <1>2, <1>3, <2>3, <2>6, RunInv
<1>5. CASE w.kind # "array"
  <2>1. hp + 1 <= limit /\ Bump(w)
    BY <1>2, <1>5 DEF Served
  <2>2. LayoutInv' /\ StoreInv' /\ GraphInv' /\ LosInv'
    BY <1>1, <1>2, <2>1, BumpKeeps DEF Inv
  <2>3. QED
    BY <1>2, <1>3, <2>2, RunInv
<1>6. QED
  BY <1>4, <1>5

LEMMA RetryServedInv ==
  ASSUME Inv, RetryServed
  PROVE  Inv'
<1>1. /\ pc = "retry" /\ pc' = "run" /\ want' = NoWant /\ Bytes(want) <= limit - hp
      /\ UNCHANGED <<ephVars, todo, grey>>
      /\ IF want.kind = "array"
         THEN AllocLarge(want) /\ unstolen' = unstolen + want.pages /\ UNCHANGED layoutVars
         ELSE Bump(want)
  BY DEF RetryServed
<1>2. Request(want)
  BY <1>1 DEF Inv, WantInv
<1>3. CASE want.kind = "array"
  <2>1. want.pages \in Nat \ {0}
    BY <1>2, <1>3, Constants DEF Request
  <2>2. AllocLarge(want) /\ unstolen' = unstolen + want.pages
    BY <1>1, <1>3
  <2>3. /\ to' = to /\ hp' = hp /\ limit' = limit /\ active' = active /\ mapped' = mapped
        /\ stolen' = stolen /\ size' = size
    BY <1>1, <1>3 DEF layoutVars
  <2>4. stolen' + unstolen' = stolen + unstolen + want.pages /\ {stolen', unstolen'} \subseteq Nat
    BY <2>1, <2>2, <2>3 DEF Inv, LosInv
  <2>5. StoreInv' /\ GraphInv' /\ LosInv'
    BY <1>1, <1>2, <1>3, <2>2, <2>3, <2>4, AllocLargeKeeps DEF Inv
  <2>6. LayoutInv'
    <3>1. from' = from /\ RegionPages(stolen)' = RegionPages(stolen)
      BY <2>3 DEF from, OtherRegion, RegionPages, AlignUp
    <3>2. LayoutInv
      BY DEF Inv
    <3>3. QED
      BY <1>1, <2>3, <3>1, <3>2 DEF LayoutInv, Points
  <2>7. QED
    BY <1>1, <2>5, <2>6, RunInv
<1>4. CASE want.kind # "array"
  <2>1. Bump(want) /\ 1 <= limit - hp
    BY <1>1, <1>4 DEF Bytes
  <2>2. hp + 1 <= limit
    BY <2>1 DEF Inv, LayoutInv
  <2>3. LayoutInv' /\ StoreInv' /\ GraphInv' /\ LosInv'
    BY <1>1, <1>2, <2>1, <2>2, BumpKeeps DEF Inv
  <2>4. QED
    BY <1>1, <2>3, RunInv
<1>5. QED
  BY <1>3, <1>4

\* Where nothing of the layout changes.
LEMMA LayoutSame ==
  ASSUME Inv, UNCHANGED layoutVars, UNCHANGED <<los, unstolen>>, pc \in {"run", "retry"},
         pc' \in {"run", "retry", "failed"}
  PROVE  /\ LayoutInv' /\ LosInv'
         /\ DOMAIN store' = DOMAIN store =>
              ToPart' = ToPart /\ FromPart' = FromPart /\ LargePart' = LargePart
<1>1. /\ to' = to /\ hp' = hp /\ limit' = limit /\ active' = active /\ mapped' = mapped
      /\ stolen' = stolen /\ size' = size /\ los' = los /\ unstolen' = unstolen
  BY DEF layoutVars
<1>2. from' = from /\ RegionPages(stolen)' = RegionPages(stolen)
  BY <1>1 DEF from, OtherRegion, RegionPages, AlignUp
<1>3. LayoutInv
  BY DEF Inv
<1>4. LayoutInv'
  BY <1>1, <1>2, <1>3 DEF LayoutInv, Points
<1>5. LosInv'
  BY <1>1 DEF Inv, LosInv
<1>6. QED
  BY <1>1, <1>2, <1>4, <1>5 DEF ToPart, FromPart, LargePart

\* Where the objects stay as they are too.
LEMMA ObjectsSame ==
  ASSUME Inv, UNCHANGED layoutVars, UNCHANGED <<los, unstolen, store, id, gfields>>,
         pc \in {"run", "retry"}, pc' \in {"run", "retry", "failed"},
         roots' \in [Slots -> Refs], groots' \in [Slots -> Nat],
         \A s \in Slots : Names(roots'[s], groots'[s])
  PROVE  StoreInv' /\ GraphInv'
<1>1. /\ to' = to /\ hp' = hp /\ active' = active /\ los' = los
  BY DEF layoutVars
<1>2. ToPart' = ToPart /\ FromPart' = FromPart /\ LargePart' = LargePart /\ from' = from
  BY <1>1, LayoutSame DEF from, OtherRegion
<1>3. StoreInv'
  BY <1>1, <1>2 DEF Inv, StoreInv, IsWeak
<1>4. GraphInv'
  <2>1. \A r, z : Names(r, z)' <=> Names(r, z)
    BY DEF Names
  <2>2. \A r \in DOMAIN store : Agrees(r)' <=> Agrees(r)
    BY DEF Agrees, IsWeak, StoreNames, Names
  <2>3. ObjectNames' = ObjectNames
    BY DEF ObjectNames
  <2>4. \A s \in Slots : Names(roots[s], groots[s])'
    BY DEF Names
  <2>5. QED
    BY <1>2, <2>2, <2>3, <2>4 DEF Inv, GraphInv, NamedOnce
<1>5. QED
  BY <1>3, <1>4

LEMMA ForgetInv ==
  ASSUME Inv, NEW s \in Slots, Forget(s)
  PROVE  Inv'
<1>1. /\ pc = "run" /\ pc' = "run" /\ want' = want
      /\ roots' = [roots EXCEPT ![s] = Null] /\ groots' = [groots EXCEPT ![s] = 0]
      /\ UNCHANGED layoutVars /\ UNCHANGED <<los, unstolen, store, id, gfields>>
      /\ UNCHANGED <<ephVars, todo, grey>>
  BY DEF Forget
<1>2. Null \in Refs /\ Names(Null, 0)
  BY DEF Refs, Names
<1>3. roots' \in [Slots -> Refs] /\ groots' \in [Slots -> Nat]
  BY <1>1, <1>2 DEF Inv, GraphInv
<1>4. \A t \in Slots : Names(roots'[t], groots'[t])
  BY <1>1, <1>2 DEF Inv, GraphInv
<1>5. StoreInv' /\ GraphInv'
  BY <1>1, <1>3, <1>4, ObjectsSame
<1>6. LayoutInv' /\ LosInv'
  BY <1>1, LayoutSame
<1>7. want' = NoWant
  BY <1>1 DEF Inv, WantInv
<1>8. QED
  BY <1>1, <1>5, <1>6, <1>7, RunInv

\* The fields of an object and their names.
LEMMA FieldNames ==
  ASSUME StoreInv, GraphInv, NEW r \in DOMAIN store
  PROVE  /\ store[r].kind \in Kinds /\ store[r].fields \in Seq(Refs) /\ store[r].fwd \in Refs
         /\ Len(store[r].fields) = (IF IsWeak(r) THEN 2 ELSE 1)
         /\ DOMAIN store[r].fields = IF IsWeak(r) THEN {1, 2} ELSE {1}
         /\ id[r] \in 1 .. Len(gfields) /\ gfields[id[r]] \in Seq(0 .. Len(gfields))
         /\ Len(gfields[id[r]]) = Len(store[r].fields)
         /\ ~IsWeak(r) \/ store[r].fields[1] # Null =>
              \A i \in DOMAIN store[r].fields : Names(store[r].fields[i], gfields[id[r]][i])
         /\ IsWeak(r) /\ store[r].fields[1] = Null => gfields[id[r]][1] \notin StoreNames
<1>1. store[r] \in Object /\ Len(store[r].fields) = IF IsWeak(r) THEN 2 ELSE 1
  BY DEF StoreInv
<1>2. store[r].kind \in Kinds /\ store[r].fields \in Seq(Refs) /\ store[r].fwd \in Refs
  BY <1>1 DEF Object
<1>3. DOMAIN store[r].fields = 1 .. Len(store[r].fields)
  BY <1>2
<1>4. DOMAIN store[r].fields = IF IsWeak(r) THEN {1, 2} ELSE {1}
  <2>1. 1 .. 2 = {1, 2} /\ 1 .. 1 = {1}
    OBVIOUS
  <2>2. QED
    BY <1>1, <1>3, <2>1
<1>5. id[r] \in 1 .. Len(gfields) /\ gfields \in Seq(Seq(0 .. Len(gfields)))
  BY DEF GraphInv, ObjectNames
<1>6. gfields[id[r]] \in Seq(0 .. Len(gfields))
  BY <1>5
<1>7. Agrees(r)
  BY DEF GraphInv
<1>8. QED
  BY <1>1, <1>2, <1>4, <1>5, <1>6, <1>7 DEF Agrees

LEMMA LoadInv ==
  ASSUME Inv, NEW s \in Slots, NEW t \in Slots, Load(s, t)
  PROVE  Inv'
<1> DEFINE r == roots[s]
           f == Last(store[r].fields)
           z == Last(gfields[groots[s]])
<1>1. /\ pc = "run" /\ pc' = "run" /\ want' = want /\ r # Null
      /\ store[r].kind # "ephemeron" \/ store[r].fields[1] # Null
      /\ roots' = [roots EXCEPT ![t] = f] /\ groots' = [groots EXCEPT ![t] = z]
      /\ UNCHANGED layoutVars /\ UNCHANGED <<los, unstolen, store, id, gfields>>
      /\ UNCHANGED <<ephVars, todo, grey>>
  BY DEF Load
<1>2. r \in DOMAIN store /\ groots[s] = id[r]
  BY <1>1 DEF Inv, GraphInv, Names
<1>3. StoreInv /\ GraphInv
  BY DEF Inv
<1> HIDE DEF r
<1>4. PICK k \in DOMAIN store[r].fields : f = store[r].fields[k] /\ z = gfields[id[r]][k]
  BY <1>2, <1>3, FieldNames DEF Last
<1>5. Names(f, z) /\ f \in Refs /\ z \in Nat
  <2>1. ~IsWeak(r) \/ store[r].fields[1] # Null
    BY <1>1 DEF IsWeak
  <2>2. \A i \in DOMAIN store[r].fields : Names(store[r].fields[i], gfields[id[r]][i])
    BY <1>2, <1>3, <2>1, FieldNames
  <2>3. store[r].fields[k] \in Refs
    BY <1>2, <1>3, FieldNames
  <2>4. gfields[id[r]][k] \in 0 .. Len(gfields)
    BY <1>2, <1>3, FieldNames
  <2>5. gfields[id[r]][k] \in Nat
    BY <2>4
  <2>6. QED
    BY <1>4, <2>2, <2>3, <2>5
<1> HIDE DEF f, z
<1>6. roots' \in [Slots -> Refs] /\ groots' \in [Slots -> Nat]
  BY <1>1, <1>5 DEF Inv, GraphInv
<1>7. \A u \in Slots : Names(roots'[u], groots'[u])
  BY <1>1, <1>5 DEF Inv, GraphInv
<1>8. StoreInv' /\ GraphInv'
  BY <1>1, <1>6, <1>7, ObjectsSame
<1>9. LayoutInv' /\ LosInv'
  BY <1>1, LayoutSame
<1>10. want' = NoWant
  BY <1>1 DEF Inv, WantInv
<1>11. QED
  BY <1>1, <1>8, <1>9, <1>10, RunInv

LEMMA SeqSet ==
  ASSUME NEW T, NEW q \in Seq(T), NEW v \in T, NEW i \in DOMAIN q,
         NEW g, g = [q EXCEPT ![i] = v]
  PROVE  /\ g \in Seq(T) /\ Len(g) = Len(q) /\ DOMAIN g = DOMAIN q /\ g[i] = v
         /\ \A j \in DOMAIN q : j # i => g[j] = q[j]
OBVIOUS

\* p is o with v in its i-th field.
FieldChanged(o, i, v, p) ==
  /\ p \in Object /\ p.kind = o.kind /\ p.fwd = o.fwd
  /\ Len(p.fields) = Len(o.fields) /\ DOMAIN p.fields = DOMAIN o.fields
  /\ p.fields[i] = v
  /\ \A j \in DOMAIN o.fields : j # i => p.fields[j] = o.fields[j]

LEMMA FieldSet ==
  ASSUME NEW o \in Object, NEW i \in DOMAIN o.fields, NEW v \in Refs, NEW p,
         p = [o EXCEPT !.fields = [o.fields EXCEPT ![i] = v]]
  PROVE  FieldChanged(o, i, v, p)
<1> PICK g : g = [o.fields EXCEPT ![i] = v]
  OBVIOUS
<1>1. o.fields \in Seq(Refs)
  BY DEF Object
<1>2. /\ g \in Seq(Refs) /\ Len(g) = Len(o.fields) /\ DOMAIN g = DOMAIN o.fields /\ g[i] = v
      /\ \A j \in DOMAIN o.fields : j # i => g[j] = o.fields[j]
  BY <1>1, SeqSet
<1>3. p = [o EXCEPT !.fields = g]
  OBVIOUS
<1>4. p \in Object /\ p.kind = o.kind /\ p.fwd = o.fwd /\ p.fields = g
  BY <1>2, <1>3 DEF Object
<1>5. QED
  BY <1>2, <1>4 DEF FieldChanged

LEMMA StoreStepInv ==
  ASSUME Inv, NEW s \in Slots, NEW t \in Slots, Store(s, t)
  PROVE  Inv'
<1> PICK r, f, k, z : r = roots[s] /\ f = roots[t] /\ k = groots[s] /\ z = groots[t]
  OBVIOUS
<1>1. /\ pc = "run" /\ pc' = "run" /\ want' = want /\ r # Null /\ ~IsWeak(r)
      /\ store' = [store EXCEPT ![r].fields[1] = f]
      /\ gfields' = [gfields EXCEPT ![k][1] = z]
      /\ UNCHANGED layoutVars /\ UNCHANGED <<los, unstolen, roots, id, groots>>
      /\ UNCHANGED <<ephVars, todo, grey>>
  BY DEF Store, IsWeak
<1>2. StoreInv /\ GraphInv /\ LayoutInv
  BY DEF Inv
<1>3. r \in DOMAIN store /\ k = id[r] /\ Names(f, z) /\ f \in Refs
  BY <1>1, <1>2 DEF GraphInv, Names
<1>4. z \in 0 .. Len(gfields)
  BY <1>2, <1>3 DEF GraphInv, Names, ObjectNames
<1>5. /\ store[r] \in Object /\ store[r].fields \in Seq(Refs) /\ DOMAIN store[r].fields = {1}
      /\ Len(store[r].fields) = 1
  BY <1>1, <1>2, <1>3, FieldNames DEF StoreInv
<1>6. PICK o : o = [store[r] EXCEPT !.fields = [store[r].fields EXCEPT ![1] = f]]
  OBVIOUS
<1>7. /\ o \in Object /\ o.kind = store[r].kind /\ o.fwd = store[r].fwd
      /\ Len(o.fields) = 1 /\ DOMAIN o.fields = {1} /\ o.fields[1] = f
  <2>1. PICK g : g = [store[r].fields EXCEPT ![1] = f]
    OBVIOUS
  <2>2. g \in Seq(Refs) /\ Len(g) = 1 /\ DOMAIN g = {1} /\ g[1] = f
    BY <1>3, <1>5, <2>1, SeqSet
  <2>3. o = [store[r] EXCEPT !.fields = g]
    BY <1>6, <2>1
  <2>4. QED
    BY <1>5, <2>2, <2>3 DEF Object
<1>8. /\ DOMAIN store' = DOMAIN store /\ store'[r] = o
      /\ \A q \in DOMAIN store : q # r => store'[q] = store[q]
  BY <1>1, <1>3, <1>6
<1>9. \A q \in DOMAIN store : /\ store'[q] \in Object /\ store'[q].kind = store[q].kind
                              /\ store'[q].fwd = store[q].fwd
                              /\ Len(store'[q].fields) = Len(store[q].fields)
                              /\ IsWeak(q)' <=> IsWeak(q)
  BY <1>2, <1>5, <1>7, <1>8 DEF StoreInv, IsWeak
<1>10. /\ LayoutInv' /\ LosInv' /\ ToPart' = ToPart /\ FromPart' = FromPart
       /\ LargePart' = LargePart
  BY <1>1, <1>8, LayoutSame
<1>11. to' = to /\ hp' = hp /\ active' = active /\ los' = los /\ from' = from
  BY <1>1 DEF layoutVars, from, OtherRegion
<1>12. StoreInv'
  <2>1. LargePart \subseteq DOMAIN store /\ ToPart \subseteq DOMAIN store
    BY DEF LargePart, ToPart
  <2>2. \A q \in LargePart : ~IsWeak(q)'
    BY <1>2, <1>9, <2>1 DEF StoreInv
  <2>3. \A q \in ToPart \cup LargePart : store'[q].fwd = Null
    BY <1>2, <1>9, <2>1 DEF StoreInv
  <2>4. \A q \in DOMAIN store' :
          store'[q] \in Object /\ Len(store'[q].fields) = IF IsWeak(q)' THEN 2 ELSE 1
    BY <1>2, <1>8, <1>9 DEF StoreInv
  <2>5. FromPart' = {}
    BY <1>1, <1>2, <1>10 DEF StoreInv
  <2>6. QED
    BY <1>2, <1>8, <1>10, <1>11, <2>2, <2>3, <2>4, <2>5 DEF StoreInv
<1>13. /\ gfields \in Seq(Seq(0 .. Len(gfields))) /\ k \in 1 .. Len(gfields)
       /\ Len(gfields[k]) = 1
  BY <1>2, <1>3, <1>5, FieldNames DEF GraphInv
<1>14. /\ gfields' \in Seq(Seq(0 .. Len(gfields))) /\ Len(gfields') = Len(gfields)
       /\ gfields'[k] = [gfields[k] EXCEPT ![1] = z]
       /\ Len(gfields'[k]) = 1 /\ gfields'[k][1] = z
       /\ \A j \in 1 .. Len(gfields) : j # k => gfields'[j] = gfields[j]
  <2>1. PICK g : g = [gfields[k] EXCEPT ![1] = z]
    OBVIOUS
  <2>2. gfields[k] \in Seq(0 .. Len(gfields))
    BY <1>13
  <2>3. g \in Seq(0 .. Len(gfields)) /\ Len(g) = 1 /\ g[1] = z
    BY <1>4, <1>13, <2>1, <2>2
  <2>4. gfields' = [gfields EXCEPT ![k] = g]
    BY <1>1, <2>1
  <2>5. QED
    BY <1>13, <2>1, <2>3, <2>4
<1>15. StoreNames' = StoreNames /\ ObjectNames' = ObjectNames
  BY <1>1, <1>8, <1>14 DEF StoreNames, ObjectNames
<1>16. \A q, j : Names(q, j)' <=> Names(q, j)
  BY <1>1, <1>8 DEF Names
<1>17. ASSUME NEW q \in DOMAIN store PROVE Agrees(q)'
  <2>1. CASE q = r
    <3>1. store'[q].fields = o.fields /\ gfields'[id'[q]] = gfields'[k]
      BY <1>1, <1>3, <1>8, <2>1
    <3>2. ~IsWeak(q)'
      BY <1>1, <1>9, <2>1
    <3>3. Names(f, z)'
      BY <1>3, <1>16
    <3>4. QED
      BY <1>7, <1>14, <3>1, <3>2, <3>3 DEF Agrees
  <2>2. CASE q # r
    <3>1. id[q] # k
      BY <1>1, <1>2, <1>3, <2>2, CalmParts DEF NamedOnce
    <3>2. id[q] \in 1 .. Len(gfields)
      BY <1>2, FieldNames
    <3>3. store'[q] = store[q] /\ gfields'[id'[q]] = gfields[id[q]]
      BY <1>1, <1>8, <1>14, <2>2, <3>1, <3>2
    <3>4. Agrees(q)
      BY <1>2 DEF GraphInv
    <3>5. QED
      BY <1>9, <1>15, <1>16, <3>3, <3>4 DEF Agrees
  <2>3. QED
    BY <2>1, <2>2
<1>18. GraphInv'
  <2>1. roots' \in [Slots -> Refs] /\ groots' \in [Slots -> Nat]
          /\ id' \in [DOMAIN store' -> ObjectNames']
    BY <1>1, <1>2, <1>8, <1>15 DEF GraphInv
  <2>2. \A q \in Slots : Names(roots[q], groots[q])'
    BY <1>1, <1>2, <1>16 DEF GraphInv
  <2>3. NamedOnce(ToPart \cup LargePart)' /\ NamedOnce(FromPart \cup LargePart)'
    BY <1>1, <1>2, <1>10 DEF GraphInv, NamedOnce
  <2>4. QED
    BY <1>8, <1>14, <1>17, <2>1, <2>2, <2>3 DEF GraphInv
<1>19. want' = NoWant
  BY <1>1 DEF Inv, WantInv
<1>20. QED
  BY <1>1, <1>10, <1>12, <1>18, <1>19, RunInv

LEMMA LiveNamesSame ==
  ASSUME UNCHANGED <<groots, gfields>>
  PROVE  LiveNames' = LiveNames
BY DEF LiveNames, ObjectNames, ClosedNames

LEMMA RetryFailsInv ==
  ASSUME Inv, RetryFails
  PROVE  Inv'
<1>1. /\ pc = "retry" /\ pc' = "failed" /\ want.again
      /\ UNCHANGED layoutVars /\ UNCHANGED <<los, unstolen, store, id, gfields, roots, groots>>
      /\ UNCHANGED <<ephVars, todo, grey>> /\ want' = want
  BY DEF RetryFails, historyVars
<1>2. LayoutInv' /\ LosInv'
  BY <1>1, LayoutSame
<1>3. /\ roots' \in [Slots -> Refs] /\ groots' \in [Slots -> Nat]
      /\ \A s \in Slots : Names(roots'[s], groots'[s])
  BY <1>1 DEF Inv, GraphInv
<1>4. StoreInv' /\ GraphInv'
  BY <1>1, <1>3, ObjectsSame
<1>5. TraceInv'
  BY <1>1, CalmTrace DEF Inv
<1>6. ExactInv'
  BY <1>1, LiveNamesSame DEF Inv, ExactInv, StoreNames
<1>7. WantInv'
  BY <1>1 DEF Inv, WantInv, Request
<1>8. GrowInv'
  <2>1. /\ hp' = hp /\ stolen' = stolen /\ size' = size /\ mapped' = mapped /\ from' = from
        /\ los' = los /\ unstolen' = unstolen
    BY <1>1 DEF layoutVars, from, OtherRegion
  <2>2. GrowInv
    BY DEF Inv
  <2>3. QED
    BY <1>1, <2>1, <2>2 DEF GrowInv, Granted, Wanted, Target
<1>9. QED
  BY <1>2, <1>4, <1>5, <1>6, <1>7, <1>8 DEF Inv

(***************************************************************************)
(* The start of a collection                                               *)
(***************************************************************************)
LEMMA RootEdgesFacts ==
  /\ RootEdges \in Seq(Range(RootEdges))
  /\ \A i \in DOMAIN RootEdges : \E s \in Slots : RootEdges[i] = RootEdge(s)
  /\ \A s \in Slots : \E i \in DOMAIN RootEdges : RootEdges[i] = RootEdge(s)
<1> DEFINE f == [s \in Slots |-> RootEdge(s)]
           S == {RootEdge(s) : s \in Slots}
<1>1. IsFiniteSet({f[s] : s \in Slots})
  <2>1. DOMAIN f = Slots /\ f = [s \in Slots |-> f[s]]
    OBVIOUS
  <2> HIDE DEF f
  <2>2. QED
    BY <2>1, Constants, FiniteImage
<1>2. {f[s] : s \in Slots} = S
  OBVIOUS
<1>3. PICK e : e = RootEdges
  OBVIOUS
<1>4. e = SetToSeq(S) /\ IsFiniteSet(S)
  BY <1>1, <1>2, <1>3 DEF RootEdges
<1> HIDE DEF S
<1>5. e \in Seq(S) /\ \A x \in S : \E i \in DOMAIN e : e[i] = x
  BY <1>4, SetToSeqFacts
<1>6. \A i \in DOMAIN e : e[i] \in S
  BY <1>5
<1>7. e \in Seq(Range(e))
  <2>1. Range(e) = {e[i] : i \in DOMAIN e}
    BY DEF Range
  <2>2. DOMAIN e = 1 .. Len(e) /\ Len(e) \in Nat /\ e = [i \in DOMAIN e |-> e[i]]
    BY <1>5
  <2>3. e \in [1 .. Len(e) -> Range(e)]
    BY <2>1, <2>2
  <2>4. QED
    BY <2>2, <2>3
<1>8. QED
  BY <1>3, <1>5, <1>6, <1>7 DEF S

LEMMA CountTo ==
  ASSUME NEW x, NEW z \in Nat
  PROVE  /\ IsFiniteSet({<<x, i>> : i \in 0 .. z - 1})
         /\ Cardinality({<<x, i>> : i \in 0 .. z - 1}) = z
<1> DEFINE S == 0 .. z - 1
           T == {<<x, i>> : i \in 0 .. z - 1}
           f == [i \in S |-> <<x, i>>]
<1>1. IsFiniteSet(S) /\ Cardinality(S) = z
  BY FS_Interval
<1>2. f \in Bijection(S, T)
  <2>1. f \in [S -> T]
    OBVIOUS
  <2>2. \A i, j \in S : f[i] = f[j] => i = j
    OBVIOUS
  <2>3. \A y \in T : \E i \in S : f[i] = y
    OBVIOUS
  <2>4. QED
    BY <2>1, <2>2, <2>3 DEF Bijection, Injection, Surjection, IsInjective
<1>3. ExistsBijection(S, T)
  BY <1>2 DEF ExistsBijection
<1>4. QED
  BY <1>1, <1>3, FS_Bijection

LEMMA StartInv ==
  ASSUME Inv, pc \in {"run", "retry"}, NEW w, StartCollect(w),
         w # NoWant =>
           /\ Request(w) /\ "again" \in DOMAIN w /\ w.again \in BOOLEAN
           /\ w.again => pc = "retry"
  PROVE  Inv'
<1>1. /\ los' = LosStartGc(los) /\ to' = from /\ hp' = 0 /\ limit' = active[from] /\ grey' = 0
      /\ check' = FALSE /\ todo' = RootEdges /\ pc' = "trace" /\ want' = w
      /\ active' = active /\ mapped' = mapped /\ stolen' = stolen /\ size' = size
      /\ store' = store /\ roots' = roots /\ pending' = pending /\ resolved' = resolved
      /\ unstolen' = unstolen /\ id' = id /\ groots' = groots /\ gfields' = gfields
  BY DEF StartCollect, historyVars
<1>2. LosInv /\ LayoutInv /\ StoreInv /\ GraphInv /\ TraceInv /\ ExactInv /\ GrowInv
  BY DEF Inv
<1>3. /\ LosOk(los') /\ LiveNodes(los') = LiveNodes(los)
      /\ PagesOf(los', LiveNodes(los')) = PagesOf(los, LiveNodes(los))
      /\ los'.liveAtLast = PagesOf(los', MarkedNodes(los'))
      /\ \A a \in LiveNodes(los) : ~LosIsMarked(los', a)
  BY <1>1, <1>2, LosStartFacts DEF LosInv
<1>4. from' = to
  BY <1>1, <1>2 DEF LayoutInv, from, OtherRegion, Regions
<1>5. ToPart' = FromPart /\ FromPart' = ToPart /\ LargePart' = LargePart /\ FromPart = {}
  BY <1>1, <1>2, <1>4 DEF ToPart, FromPart, LargePart, StoreInv
<1>6. LosInv'
  BY <1>1, <1>2, <1>3 DEF LosInv
<1>7. LayoutInv'
  <2>1. RegionPages(stolen)' = RegionPages(stolen)
    BY <1>1 DEF RegionPages, AlignUp
  <2>2. from \in Regions /\ active[from] \in Nat
    BY <1>2 DEF LayoutInv, from, OtherRegion, Regions
  <2>3. QED
    BY <1>1, <1>2, <1>4, <2>1, <2>2 DEF LayoutInv, Points
<1>8. StoreInv'
  <2>1. \A r \in DOMAIN store : IsWeak(r)' <=> IsWeak(r)
    BY <1>1 DEF IsWeak
  <2>2. {<<to, i>> : i \in 0 .. hp - 1}' = {}
    BY <1>1
  <2>3. \A r \in FromPart' : r[2] < active'[from']
    BY <1>1, <1>2, <1>4, <1>5 DEF StoreInv, LayoutInv
  <2>4. LargePart \subseteq DOMAIN store
    BY DEF LargePart
  <2>5. QED
    BY <1>1, <1>2, <1>3, <1>5, <2>1, <2>2, <2>3, <2>4 DEF StoreInv
<1>9. GraphInv'
  <2>1. \A r, z : Names(r, z)' <=> Names(r, z)
    BY <1>1 DEF Names
  <2>2. \A r \in DOMAIN store : Agrees(r)' <=> Agrees(r)
    BY <1>1 DEF Agrees, IsWeak, StoreNames, Names
  <2>3. ObjectNames' = ObjectNames
    BY <1>1 DEF ObjectNames
  <2>4. \A s \in Slots : Names(roots[s], groots[s])'
    BY <1>1, <1>2, <2>1 DEF GraphInv
  <2>5. NamedOnce(ToPart \cup LargePart)' /\ NamedOnce(FromPart \cup LargePart)'
    BY <1>1, <1>2, <1>5 DEF GraphInv, NamedOnce
  <2>6. QED
    BY <1>1, <1>2, <2>2, <2>3, <2>4, <2>5 DEF GraphInv
<1>10. MarkedPart' = {} /\ Scanned' = {}
  <2>1. MarkedPart' = {}
    <3>1. SUFFICES ASSUME NEW r \in MarkedPart' PROVE FALSE
      OBVIOUS
    <3>2. r \in LargePart /\ LosIsMarked(los', r[2])
      BY <1>5 DEF MarkedPart
    <3>3. \E a \in LiveNodes(los) : r = <<"los", a>>
      BY <1>2, <3>2 DEF StoreInv
    <3>4. QED
      BY <1>3, <3>2, <3>3
  <2>2. QED
    BY <1>5, <2>1 DEF Scanned
<1>11. TraceInv'
  <2>1. pending' = {} /\ resolved' = <<>>
    BY <1>1, <1>2 DEF TraceInv
  <2>2. /\ todo' \in Seq(Range(todo'))
        /\ \A i \in DOMAIN todo' : GoodEdge(todo[i])'
        /\ \A s \in Slots : Scheduled(RootEdge(s))'
    <3>1. \A i \in DOMAIN todo' : \E s \in Slots : todo'[i] = RootEdge(s)
      BY <1>1, RootEdgesFacts
    <3>2. \A i \in DOMAIN todo' : GoodEdge(todo[i])'
      BY <3>1 DEF GoodEdge
    <3>3. \A s \in Slots : Scheduled(RootEdge(s))'
      <4>1. TAKE s \in Slots
      <4>2. PICK i \in DOMAIN todo' : todo'[i] = RootEdge(s)
        BY <1>1, RootEdgesFacts
      <4>3. QED
        BY <4>2 DEF Scheduled, RootEdge
    <3>4. QED
      BY <1>1, <3>2, <3>3, RootEdgesFacts
  <2>3. \A r \in FromPart' : store'[r].fwd = Null
    BY <1>1, <1>2, <1>5 DEF StoreInv
  <2>4. pending' \subseteq DOMAIN store' /\ resolved' \in Seq(DOMAIN store')
    BY <2>1
  <2>5. check' \in BOOLEAN /\ grey' \in Nat /\ grey' <= hp' /\ pc' = "trace"
    <3>1. grey' = 0 /\ hp' = 0 /\ pc' = "trace"
      BY <1>1
    <3>2. check' \in BOOLEAN
      BY DEF StartCollect
    <3>3. QED
      BY <3>1, <3>2
  <2>6. ToPart' = {}
    BY <1>5
  <2>7. \A i \in DOMAIN resolved' : FALSE
    BY <2>1
  <2>8. \A s \in Slots : Safe(roots[s])' \/ Scheduled(RootEdge(s))'
    BY <2>2
  <2>9. QED
    BY <1>10, <2>1, <2>2, <2>3, <2>4, <2>5, <2>6, <2>7, <2>8 DEF TraceInv
<1>12. ExactInv'
  <2>1. \A r \in ToPart' \cup MarkedPart' : FALSE
    BY <1>5, <1>10
  <2>2. ASSUME Again' PROVE StoreNames' \subseteq LiveNames'
    <3>1. pc = "retry"
      BY <1>1, <2>2 DEF Again
    <3>2. StoreNames' = StoreNames /\ LiveNames' = LiveNames
      BY <1>1, LiveNamesSame DEF StoreNames
    <3>3. QED
      BY <1>2, <3>1, <3>2 DEF ExactInv
  <2>3. QED
    BY <1>1, <2>1, <2>2 DEF ExactInv
<1>13. WantInv'
  <2>1. w # NoWant => Request(w)'
    BY DEF Request
  <2>2. QED
    BY <1>1, <2>1 DEF WantInv, Request
<1>14. GrowInv'
  <2>1. ASSUME Again'
        PROVE  unstolen' = 0 /\ Granted(Cardinality(FromPart) + stolen * PageSize, to)'
    <3>1. pc = "retry"
      BY <1>1, <2>1 DEF Again
    <3>2. unstolen = 0 /\ Granted(hp + stolen * PageSize, from)
      BY <1>2, <3>1 DEF GrowInv
    <3>3. Cardinality(FromPart)' = hp
      <4>1. FromPart' = {<<to, i>> : i \in 0 .. hp - 1} /\ hp \in Nat
        BY <1>2, <1>5 DEF StoreInv, LayoutInv
      <4>2. QED
        BY <4>1, CountTo
    <3>4. QED
      BY <1>1, <3>2, <3>3 DEF Granted, Wanted, Target
  <2>2. QED
    BY <1>1, <2>1 DEF GrowInv
<1>15. QED
  BY <1>6, <1>7, <1>8, <1>9, <1>11, <1>12, <1>13, <1>14 DEF Inv

\* A request that remembers whether it had its second collection.
LEMMA AgainRequest ==
  ASSUME NEW w, Request(w), NEW b \in BOOLEAN, NEW v,
         v = With(w, "again", b) \/ ("again" \in DOMAIN w /\ v = [w EXCEPT !.again = b])
  PROVE  Request(v) /\ "again" \in DOMAIN v /\ v.again = b /\ v # NoWant
<1>1. DOMAIN v = DOMAIN w \cup {"again"} /\ v = [x \in DOMAIN v |-> v[x]]
  BY DEF With, Request
<1>2. v.again = b /\ \A x \in DOMAIN w : x # "again" => v[x] = w[x]
  BY DEF With, Request
<1>3. {"kind", "arg", "slot"} \subseteq DOMAIN w
  BY DEF Request
<1>4. v.kind = w.kind /\ v.arg = w.arg /\ v.slot = w.slot
  BY <1>2, <1>3
<1>5. "pages" \in DOMAIN w => v.pages = w.pages
  BY <1>2
<1>6. "arg2" \in DOMAIN w => v.arg2 = w.arg2
  BY <1>2
<1>7. Request(v)
  BY <1>1, <1>3, <1>4, <1>5, <1>6 DEF Request
<1>8. v # NoWant
  BY <1>7 DEF Request, Kinds, NoWant
<1>9. QED
  BY <1>1, <1>2, <1>7, <1>8

LEMMA AllocCollectsInv ==
  ASSUME Inv, NEW w \in Wants, AllocCollects(w)
  PROVE  Inv'
<1>1. pc = "run" /\ StartCollect(With(w, "again", FALSE))
  BY DEF AllocCollects
<1>2. PICK v : v = With(w, "again", FALSE)
  OBVIOUS
<1>3. Request(v) /\ "again" \in DOMAIN v /\ v.again = FALSE
  BY <1>2, WantsRequest, AgainRequest
<1>4. QED
  BY <1>1, <1>2, <1>3, StartInv

LEMMA CollectInv ==
  ASSUME Inv, Collect
  PROVE  Inv'
<1>1. pc = "run" /\ StartCollect(NoWant)
  BY DEF Collect
<1>2. QED
  BY <1>1, StartInv

LEMMA RetryCollectsInv ==
  ASSUME Inv, RetryCollects
  PROVE  Inv'
<1>1. pc = "retry" /\ StartCollect([want EXCEPT !.again = TRUE])
  BY DEF RetryCollects
<1>2. Request(want) /\ "again" \in DOMAIN want
  BY <1>1 DEF Inv, WantInv
<1>3. PICK v : v = [want EXCEPT !.again = TRUE]
  OBVIOUS
<1>4. Request(v) /\ "again" \in DOMAIN v /\ v.again = TRUE
  BY <1>2, <1>3, AgainRequest
<1>5. QED
  BY <1>1, <1>3, <1>4, StartInv

LEMMA InitInv ==
  ASSUME SemiInit
  PROVE  Inv
<1> DEFINE region == AlignUp(InitialSize, 2 * PageSize) \div 2
<1>1. /\ to = "a" /\ hp = 0 /\ limit = region
      /\ active = [r \in Regions |-> region] /\ mapped = [r \in Regions |-> region]
      /\ stolen = 0 /\ size = InitialSize
      /\ los = EmptyLos /\ store = <<>> /\ roots = [s \in Slots |-> Null]
      /\ check = FALSE /\ pending = {} /\ resolved = <<>> /\ todo = <<>> /\ grey = 0
      /\ pc = "run" /\ want = NoWant /\ unstolen = 0
      /\ id = <<>> /\ groots = [s \in Slots |-> 0] /\ gfields = <<>>
  BY DEF SemiInit
<1>2. region = InitialSize \div 2 /\ region \in Nat /\ 2 * region = InitialSize
  BY InitialHalf
<1> HIDE DEF region
<1>3. los.nodes = <<>> /\ DOMAIN los.nodes = {} /\ LiveNodes(los) = {}
  BY <1>1 DEF EmptyLos, LiveNodes
<1>4. PagesOf(los, LiveNodes(los)) = 0
  <2>1. UNION {Extent(los, a) : a \in {}} = {}
    OBVIOUS
  <2>2. QED
    BY <1>3, <2>1, FS_EmptySet DEF PagesOf
<1>5. LosInv
  <2>1. LosTyped(los)
    <3>1. IsFiniteSet({}) /\ <<>> \in [{} -> Node]
      BY FS_EmptySet
    <3>2. QED
      BY <1>1, <1>3, <3>1 DEF LosTyped, EmptyLos
  <2>2. LosCounts(los)
    BY <1>1, <1>4 DEF LosCounts, EmptyLos
  <2>3. QED
    BY <1>1, <1>3, <1>4, <2>1, <2>2 DEF LosInv, LosOk, LosApart, DeadNodes, LosReady
<1>6. LayoutInv
  <2>1. from = "b" /\ "a" \in Regions /\ "b" \in Regions
    BY <1>1 DEF from, OtherRegion, Regions
  <2>2. RegionPages(stolen) * PageSize = 0
    BY <1>1, Constants DEF RegionPages, AlignUp
  <2>3. InitialSize \in Nat
    BY Constants
  <2>4. QED
    BY <1>1, <1>2, <2>1, <2>2, <2>3 DEF LayoutInv, Points
<1>7. ToPart = {} /\ FromPart = {} /\ LargePart = {} /\ DOMAIN store = {}
  BY <1>1 DEF ToPart, FromPart, LargePart
<1>8. StoreInv
  BY <1>1, <1>3, <1>7 DEF StoreInv
<1>9. GraphInv
  <2>1. Null \in Refs /\ Names(Null, 0)
    BY DEF Refs, Names
  <2>2. id \in [DOMAIN store -> ObjectNames]
    BY <1>1, <1>7
  <2>3. gfields \in Seq(Seq(0 .. Len(gfields)))
    BY <1>1
  <2>4. roots \in [Slots -> Refs] /\ groots \in [Slots -> Nat]
    BY <1>1, <2>1
  <2>5. \A s \in Slots : Names(roots[s], groots[s])
    BY <1>1, <2>1
  <2>6. QED
    BY <1>7, <2>2, <2>3, <2>4, <2>5 DEF GraphInv, NamedOnce
<1>10. TraceInv
  <2>1. pending \subseteq DOMAIN store /\ todo \in Seq(Range(todo)) /\ resolved \in Seq(DOMAIN store)
    <3>1. pending = {} /\ todo = <<>> /\ resolved = <<>>
      BY <1>1
    <3>2. QED
      BY <3>1
  <2>2. check \in BOOLEAN /\ grey \in Nat /\ pc # "trace"
    <3>1. check = FALSE /\ grey = 0 /\ pc = "run"
      BY <1>1
    <3>2. QED
      BY <3>1
  <2>3. pending = {} /\ resolved = <<>> /\ todo = <<>>
    BY <1>1
  <2>4. QED
    BY <2>1, <2>2, <2>3 DEF TraceInv
<1>11. ExactInv /\ WantInv /\ GrowInv
  BY <1>1 DEF ExactInv, WantInv, GrowInv
<1>12. QED
  BY <1>5, <1>6, <1>8, <1>9, <1>10, <1>11 DEF Inv

(***************************************************************************)
(* Tracing                                                                 *)
(***************************************************************************)
LEMMA ScannedFacts ==
  ASSUME LayoutInv, StoreInv
  PROVE  /\ Scanned \subseteq ToPart \cup MarkedPart /\ MarkedPart \subseteq LargePart
         /\ ToPart \subseteq DOMAIN store /\ LargePart \subseteq DOMAIN store
         /\ FromPart \subseteq DOMAIN store /\ ToPart \cup MarkedPart \subseteq DOMAIN store
         /\ \A r \in DOMAIN store : InFrom(r) <=> r \in FromPart
BY DEF Scanned, ToPart, MarkedPart, LargePart, FromPart, InFrom, StoreInv

\* What lives leads to what lives.
LEMMA LiveRoot ==
  ASSUME GraphInv, NEW s \in Slots, roots[s] # Null
  PROVE  groots[s] \in LiveNames /\ roots[s] \in DOMAIN store /\ id[roots[s]] = groots[s]
<1>1. groots[s] \in ObjectNames /\ groots[s] # 0 /\ roots[s] \in DOMAIN store
        /\ id[roots[s]] = groots[s]
  BY DEF GraphInv, Names, ObjectNames
<1>2. QED
  BY <1>1 DEF LiveNames, ClosedNames

LEMMA LiveField ==
  ASSUME StoreInv, GraphInv, NEW r \in DOMAIN store, id[r] \in LiveNames,
         NEW i \in DOMAIN store[r].fields, NEW f, f = store[r].fields[i], f # Null,
         IsWeak(r) => /\ i = 2 /\ store[r].fields[1] # Null
                      /\ id[store[r].fields[1]] \in LiveNames
  PROVE  f \in DOMAIN store /\ id[f] \in LiveNames
<1> PICK g, z : g = gfields[id[r]] /\ z = id[r]
  OBVIOUS
<1>1. /\ z \in 1 .. Len(gfields) /\ Len(g) = (IF IsWeak(r) THEN 2 ELSE 1)
      /\ \A j \in DOMAIN store[r].fields : Names(store[r].fields[j], g[j])
      /\ DOMAIN store[r].fields = (IF IsWeak(r) THEN {1, 2} ELSE {1})
  BY FieldNames
<1>2. f \in DOMAIN store /\ id[f] = g[i]
  BY <1>1 DEF Names
<1>3. id[f] \in ObjectNames /\ id[f] # 0
  BY <1>2 DEF GraphInv, ObjectNames
<1>4. ASSUME NEW T \in SUBSET ObjectNames, ClosedNames(T)
      PROVE  id[f] \in T
  <2>1. z \in T
    BY <1>4 DEF LiveNames
  <2>2. CASE IsWeak(r)
    <3>1. i = 2 /\ id[store[r].fields[1]] = g[1] /\ id[store[r].fields[1]] \in LiveNames
      BY <1>1, <2>2 DEF Names
    <3>2. g[1] \in T
      BY <1>4, <3>1 DEF LiveNames
    <3>3. g[2] \in T \cup {0}
      BY <1>1, <1>4, <2>1, <2>2, <3>2 DEF ClosedNames
    <3>4. QED
      BY <1>2, <1>3, <3>1, <3>3
  <2>3. CASE ~IsWeak(r)
    <3>1. i = 1 /\ Len(g) = 1
      BY <1>1, <2>3
    <3>2. g[1] \in T \cup {0}
      BY <1>4, <2>1, <3>1 DEF ClosedNames
    <3>3. QED
      BY <1>2, <1>3, <3>1, <3>2
  <2>4. QED
    BY <2>2, <2>3
<1>5. QED
  BY <1>2, <1>3, <1>4 DEF LiveNames

LEMMA EdgeFacts ==
  ASSUME Inv, pc = "trace", NEW edge, GoodEdge(edge), NEW r, r = Ref(edge)
  PROVE  /\ r = Null \/ (r \in DOMAIN store /\ id[r] \in LiveNames)
         /\ \/ /\ edge.at = Null /\ edge.slot \in Slots /\ edge = RootEdge(edge.slot)
               /\ r = roots[edge.slot]
            \/ /\ edge.at \in Scanned /\ edge.at \in DOMAIN store /\ edge.at # Null
               /\ edge.slot \in DOMAIN store[edge.at].fields
               /\ edge = Edge(edge.at, edge.slot) /\ r = store[edge.at].fields[edge.slot]
               /\ IsWeak(edge.at) =>
                    /\ edge.slot = 2 /\ store[edge.at].fields[1] # Null
                    /\ Safe(store[edge.at].fields[1])
<1>1. LayoutInv /\ StoreInv /\ GraphInv /\ ExactInv
  BY DEF Inv
<1>2. CASE \E s \in Slots : edge = RootEdge(s)
  <2>1. PICK s \in Slots : edge = RootEdge(s)
    BY <1>2
  <2>2. edge.at = Null /\ edge.slot = s /\ r = roots[s]
    BY <2>1 DEF RootEdge, Ref
  <2>3. QED
    BY <1>1, <2>1, <2>2, LiveRoot
<1>3. CASE \E q \in Scanned, i \in {1, 2} :
             /\ edge = Edge(q, i) /\ i \in DOMAIN store[q].fields
             /\ IsWeak(q) => i = 2 /\ store[q].fields[1] # Null /\ Safe(store[q].fields[1])
  <2>1. PICK q \in Scanned, i \in {1, 2} :
             /\ edge = Edge(q, i) /\ i \in DOMAIN store[q].fields
             /\ IsWeak(q) => i = 2 /\ store[q].fields[1] # Null /\ Safe(store[q].fields[1])
    BY <1>3
  <2>2. q \in ToPart \cup MarkedPart /\ q \in DOMAIN store /\ q # Null
    BY <1>1, ScannedFacts, Parts
  <2>3. edge.at = q /\ edge.slot = i /\ r = store[q].fields[i]
    BY <2>1, <2>2 DEF Edge, Ref
  <2>4. id[q] \in LiveNames
    BY <1>1, <2>2 DEF ExactInv
  <2>5. IsWeak(q) => id[store[q].fields[1]] \in LiveNames
    BY <1>1, <2>1 DEF ExactInv, Safe
  <2>6. r = Null \/ (r \in DOMAIN store /\ id[r] \in LiveNames)
    BY <1>1, <2>1, <2>2, <2>3, <2>4, <2>5, LiveField
  <2>7. QED
    BY <2>1, <2>2, <2>3, <2>6
<1>4. QED
  BY <1>2, <1>3 DEF GoodEdge

\* t is q without its head h.
Shorter(S, q, h, t) ==
  /\ t \in Seq(S) /\ 1 \in DOMAIN q /\ h = q[1]
  /\ \A i \in DOMAIN t : \E j \in DOMAIN q : t[i] = q[j]
  /\ \A j \in DOMAIN q : q[j] = h \/ \E i \in DOMAIN t : t[i] = q[j]

LEMMA TailFacts ==
  ASSUME NEW S, NEW q \in Seq(S), q # <<>>
  PROVE  Shorter(S, q, Head(q), Tail(q))
<1> PICK t : t = Tail(q)
  OBVIOUS
<1>1. /\ Len(q) \in Nat \ {0} /\ DOMAIN q = 1 .. Len(q) /\ t \in Seq(S)
      /\ Len(t) = Len(q) - 1 /\ DOMAIN t = 1 .. Len(t) /\ Head(q) = q[1]
      /\ \A i \in 1 .. Len(t) : t[i] = q[i + 1]
  OBVIOUS
<1>2. \A j \in DOMAIN q : j # 1 => j - 1 \in DOMAIN t /\ t[j - 1] = q[j]
  BY <1>1
<1>3. \A i \in DOMAIN t : i + 1 \in DOMAIN q /\ t[i] = q[i + 1]
  BY <1>1
<1>4. \A j \in DOMAIN q : q[j] = Head(q) \/ \E i \in DOMAIN t : t[i] = q[j]
  <2>1. TAKE j \in DOMAIN q
  <2>2. CASE j = 1
    BY <1>1, <2>2
  <2>3. CASE j # 1
    BY <1>2, <2>3
  <2>4. QED
    BY <2>2, <2>3
<1>5. 1 \in DOMAIN q
  BY <1>1
<1>6. \A i \in DOMAIN t : \E j \in DOMAIN q : t[i] = q[j]
  BY <1>3
<1>7. QED
  BY <1>1, <1>4, <1>5, <1>6 DEF Shorter

LEMMA SeqRange ==
  ASSUME NEW S, NEW q \in Seq(S)
  PROVE  q \in Seq(Range(q))
<1>1. Range(q) = {q[i] : i \in DOMAIN q}
  BY DEF Range
<1>2. DOMAIN q = 1 .. Len(q) /\ Len(q) \in Nat /\ q = [i \in DOMAIN q |-> q[i]]
  OBVIOUS
<1>3. q \in [1 .. Len(q) -> Range(q)]
  BY <1>1, <1>2
<1>4. QED
  BY <1>2, <1>3

LEMMA TwoParts ==
  ASSUME NEW p, NEW q, NEW t, NEW m \in Nat, NEW z \in Nat,
         \A j \in 1 .. m : t[j] = p[j], \A j \in 1 .. z : t[j + m] = q[j],
         NEW i \in 1 .. m + z
  PROVE  (\E j \in 1 .. m : t[i] = p[j]) \/ (\E j \in 1 .. z : t[i] = q[j])
<1>1. CASE i <= m
  <2>1. i \in 1 .. m
    BY <1>1
  <2>2. QED
    BY <2>1
<1>2. CASE i > m
  <2>1. i - m \in 1 .. z /\ (i - m) + m = i
    BY <1>2
  <2>2. t[i] = q[i - m]
    BY <2>1
  <2>3. QED
    BY <2>1, <2>2
<1>3. QED
  BY <1>1, <1>2

\* t holds what p and q hold.
Joined(S, p, q, t) ==
  /\ t \in Seq(S)
  /\ \A i \in DOMAIN t : \/ \E j \in DOMAIN p : t[i] = p[j]
                         \/ \E j \in DOMAIN q : t[i] = q[j]
  /\ \A j \in DOMAIN p : \E i \in DOMAIN t : t[i] = p[j]
  /\ \A j \in DOMAIN q : \E i \in DOMAIN t : t[i] = q[j]

LEMMA ConcatFacts ==
  ASSUME NEW S, NEW p \in Seq(S), NEW q \in Seq(S)
  PROVE  Joined(S, p, q, p \o q)
<1> PICK t : t = p \o q
  OBVIOUS
<1> PICK m, z : m = Len(p) /\ z = Len(q)
  OBVIOUS
<1>1. /\ m \in Nat /\ z \in Nat /\ DOMAIN p = 1 .. m /\ DOMAIN q = 1 .. z
      /\ t \in Seq(S) /\ DOMAIN t = 1 .. m + z
  OBVIOUS
<1>2. \A j \in 1 .. z : j + m \in 1 .. m + z /\ t[j + m] = q[j]
  OBVIOUS
<1>3. \A j \in 1 .. m : j \in 1 .. m + z /\ t[j] = p[j]
  OBVIOUS
<1>4. \A i \in 1 .. m + z :
        (\E j \in 1 .. m : t[i] = p[j]) \/ (\E j \in 1 .. z : t[i] = q[j])
  BY <1>1, <1>2, <1>3, TwoParts
<1>5. \A i \in DOMAIN t : \/ \E j \in DOMAIN p : t[i] = p[j]
                         \/ \E j \in DOMAIN q : t[i] = q[j]
  BY <1>1, <1>4
<1>6. \A j \in DOMAIN p : \E i \in DOMAIN t : t[i] = p[j]
  BY <1>1, <1>3
<1>7. \A j \in DOMAIN q : \E i \in DOMAIN t : t[i] = q[j]
  <2> TAKE j \in DOMAIN q
  <2>1. j + m \in DOMAIN t /\ t[j + m] = q[j]
    BY <1>1, <1>2
  <2>2. QED
    BY <2>1
<1>8. Joined(S, p, q, t)
  BY <1>1, <1>5, <1>6, <1>7 DEF Joined
<1>9. QED
  BY <1>8

\* In a tracing step a reference stays, or is to the same object at a place
\* that was visited.
Moves(f, g) ==
  \/ g = f
  \/ f \in DOMAIN store /\ g \in DOMAIN store' /\ id'[g] = id[f] /\ g \in ToPart' \cup MarkedPart'
MovesOn ==
  /\ DOMAIN store \subseteq DOMAIN store' /\ DOMAIN store' \subseteq HeapPlaces
  /\ ToPart \subseteq ToPart' /\ MarkedPart \subseteq MarkedPart'
  /\ \A q \in DOMAIN store :
       /\ id'[q] = id[q] /\ store'[q].kind = store[q].kind
       /\ DOMAIN store'[q].fields = DOMAIN store[q].fields
       /\ Len(store'[q].fields) = Len(store[q].fields)
       /\ \A i \in DOMAIN store[q].fields : Moves(store[q].fields[i], store'[q].fields[i])
  /\ \A s \in Slots : Moves(roots[s], roots'[s])

LEMMA MovedNames ==
  ASSUME LayoutInv, StoreInv, MovesOn, NEW f, NEW g, Moves(f, g)
  PROVE  /\ g = Null <=> f = Null
         /\ \A z : Names(f, z) => Names(g, z)'
         /\ Safe(f) => Safe(g)'
<1>1. Null \notin DOMAIN store /\ Null \notin DOMAIN store'
  BY Parts DEF MovesOn
<1>2. (g = Null) <=> (f = Null)
  BY <1>1 DEF Moves
<1>3. ASSUME NEW z, Names(f, z) PROVE Names(g, z)'
  BY <1>1, <1>2, <1>3 DEF Moves, MovesOn, Names
<1>4. Safe(f) => Safe(g)'
  BY DEF Moves, MovesOn, Safe
<1>5. QED
  BY <1>2, <1>3, <1>4

LEMMA GraphMoves ==
  ASSUME LayoutInv, StoreInv, GraphInv, MovesOn, UNCHANGED <<groots, gfields>>,
         roots' \in [Slots -> Refs], id' \in [DOMAIN store' -> ObjectNames],
         \A q \in DOMAIN store' \ DOMAIN store : \E p \in DOMAIN store :
           /\ id'[q] = id[p] /\ store'[q].kind = store[p].kind
           /\ store'[q].fields = store[p].fields,
         NamedOnce(ToPart \cup LargePart)', NamedOnce(FromPart \cup LargePart)'
  PROVE  GraphInv' /\ StoreNames' = StoreNames
<1>1. ASSUME NEW q \in DOMAIN store'
      PROVE  \E p \in DOMAIN store :
               /\ id'[q] = id[p] /\ store'[q].kind = store[p].kind
               /\ DOMAIN store'[q].fields = DOMAIN store[p].fields
               /\ Len(store'[q].fields) = Len(store[p].fields)
               /\ \A i \in DOMAIN store[p].fields : Moves(store[p].fields[i], store'[q].fields[i])
  <2>1. CASE q \in DOMAIN store
    BY <2>1 DEF MovesOn
  <2>2. CASE q \notin DOMAIN store
    <3>1. PICK p \in DOMAIN store :
           /\ id'[q] = id[p] /\ store'[q].kind = store[p].kind
           /\ store'[q].fields = store[p].fields
      BY <2>2
    <3>2. \A i \in DOMAIN store[p].fields : Moves(store[p].fields[i], store'[q].fields[i])
      BY <3>1 DEF Moves
    <3>3. QED
      BY <3>1, <3>2
  <2>3. QED
    BY <2>1, <2>2
<1>2. StoreNames' = StoreNames
  BY <1>1 DEF StoreNames, MovesOn
<1>3. ASSUME NEW q \in DOMAIN store' PROVE Agrees(q)'
  <2>1. PICK p \in DOMAIN store :
               /\ id'[q] = id[p] /\ store'[q].kind = store[p].kind
               /\ DOMAIN store'[q].fields = DOMAIN store[p].fields
               /\ Len(store'[q].fields) = Len(store[p].fields)
               /\ \A i \in DOMAIN store[p].fields : Moves(store[p].fields[i], store'[q].fields[i])
    BY <1>1
  <2> PICK o, v, g : o = store[p].fields /\ v = store'[q].fields /\ g = gfields[id[p]]
    OBVIOUS
  <2>2. /\ Len(g) = Len(o) /\ DOMAIN o = (IF IsWeak(p) THEN {1, 2} ELSE {1})
        /\ ~IsWeak(p) \/ o[1] # Null => \A i \in DOMAIN o : Names(o[i], g[i])
        /\ IsWeak(p) /\ o[1] = Null => g[1] \notin StoreNames
    BY FieldNames
  <2>3. /\ DOMAIN v = DOMAIN o /\ Len(v) = Len(o) /\ gfields'[id'[q]] = g
        /\ IsWeak(q)' <=> IsWeak(p)
        /\ \A i \in DOMAIN o : Moves(o[i], v[i])
    BY <2>1 DEF IsWeak
  <2>4. v[1] = Null <=> o[1] = Null
    BY <2>2, <2>3, MovedNames
  <2>5. \A i \in DOMAIN o : \A z : Names(o[i], z) => Names(v[i], z)'
    BY <2>3, MovedNames
  <2>6. CASE IsWeak(p) /\ o[1] = Null
    BY <1>2, <2>2, <2>3, <2>4, <2>6 DEF Agrees
  <2>7. CASE ~(IsWeak(p) /\ o[1] = Null)
    <3>1. \A i \in DOMAIN v : Names(v[i], g[i])'
      BY <2>2, <2>3, <2>5, <2>7
    <3>2. QED
      BY <2>2, <2>3, <2>4, <2>7, <3>1 DEF Agrees, Names
  <2>8. QED
    BY <2>6, <2>7
<1>4. \A s \in Slots : Names(roots[s], groots[s])'
  <2>1. TAKE s \in Slots
  <2>2. PICK f, g, z : f = roots[s] /\ g = roots'[s] /\ z = groots[s]
    OBVIOUS
  <2>3. Names(f, z) /\ Moves(f, g)
    BY <2>2 DEF GraphInv, MovesOn
  <2>4. Names(g, z)'
    BY <2>3, MovedNames
  <2>5. QED
    BY <2>2, <2>4 DEF Names
<1>5. groots' \in [Slots -> Nat] /\ gfields' \in Seq(Seq(0 .. Len(gfields')))
        /\ ObjectNames' = ObjectNames
  BY DEF GraphInv, ObjectNames
<1>6. QED
  BY <1>2, <1>3, <1>4, <1>5 DEF GraphInv
LEMMA EdgeMoves ==
  ASSUME LayoutInv, StoreInv, MovesOn, Scanned \subseteq Scanned', NEW edge, GoodEdge(edge)
  PROVE  GoodEdge(edge)'
<1>1. CASE \E s \in Slots : edge = RootEdge(s)
  BY <1>1 DEF GoodEdge, RootEdge
<1>2. CASE \E q \in Scanned, i \in {1, 2} :
             /\ edge = Edge(q, i) /\ i \in DOMAIN store[q].fields
             /\ IsWeak(q) => i = 2 /\ store[q].fields[1] # Null /\ Safe(store[q].fields[1])
  <2>1. PICK q \in Scanned, i \in {1, 2} :
             /\ edge = Edge(q, i) /\ i \in DOMAIN store[q].fields
             /\ IsWeak(q) => i = 2 /\ store[q].fields[1] # Null /\ Safe(store[q].fields[1])
    BY <1>2
  <2> PICK f, g : f = store[q].fields[1] /\ g = store'[q].fields[1]
    OBVIOUS
  <2>2. q \in DOMAIN store
    BY ScannedFacts
  <2>3. IsWeak(q)' <=> IsWeak(q)
    BY <2>2 DEF MovesOn, IsWeak
  <2>4. DOMAIN store'[q].fields = DOMAIN store[q].fields
    BY <2>2 DEF MovesOn
  <2>5. ASSUME IsWeak(q) PROVE g # Null /\ Safe(g)'
    <3>1. 1 \in DOMAIN store[q].fields
      BY <2>2, <2>5 DEF StoreInv, Object
    <3>2. Moves(f, g)
      BY <2>2, <3>1 DEF MovesOn
    <3>3. QED
      BY <2>1, <2>5, <3>2, MovedNames
  <2>6. Safe(store[q].fields[1])' <=> Safe(g)'
    BY DEF Safe
  <2>7. edge = Edge(q, i)' /\ q \in Scanned'
    BY <2>1 DEF Edge
  <2>8. QED
    BY <2>1, <2>3, <2>4, <2>5, <2>6, <2>7 DEF GoodEdge
<1>3. QED
  BY <1>1, <1>2 DEF GoodEdge

LEMMA FieldsMove ==
  ASSUME LayoutInv, StoreInv, MovesOn, NEW r \in DOMAIN store, FieldsDone(r),
         r \in pending => r \in pending' \/ (Resolved(r)' /\ Safe(store[r].fields[1])'),
         \A i \in {1, 2} : Scheduled(Edge(r, i)) =>
           Scheduled(Edge(r, i))' \/ Safe(store[r].fields[i])',
         Resolved(r) => Resolved(r)' \/ Scheduled(Edge(r, 2))'
  PROVE  FieldsDone(r)'
<1> PICK o, v : o = store[r].fields /\ v = store'[r].fields
  OBVIOUS
<1>1. IsWeak(r)' <=> IsWeak(r)
  BY DEF MovesOn, IsWeak
<1>2. /\ o \in Seq(Refs) /\ Len(o) = (IF IsWeak(r) THEN 2 ELSE 1)
      /\ \A i \in DOMAIN o : Moves(o[i], v[i])
  BY DEF StoreInv, Object, MovesOn
<1>3. \A i \in DOMAIN o : (v[i] = Null <=> o[i] = Null) /\ (Safe(o[i]) => Safe(v[i])')
  BY <1>2, MovedNames
<1>4. \A i : Safe(store[r].fields[i])' <=> Safe(v[i])'
  BY DEF Safe
<1>5. CASE IsWeak(r)
  <2>1. 1 \in DOMAIN o /\ 2 \in DOMAIN o
    BY <1>2, <1>5
  <2>2. \/ o[1] = Null \/ r \in pending
        \/ /\ Safe(o[1])
           /\ Safe(o[2]) \/ Scheduled(Edge(r, 2)) \/ Resolved(r)
    BY <1>5 DEF FieldsDone
  <2>3. CASE o[1] = Null
    BY <1>1, <1>3, <1>5, <2>1, <2>3 DEF FieldsDone
  <2>4. CASE r \in pending
    BY <1>1, <1>5, <2>4 DEF FieldsDone
  <2>5. CASE /\ Safe(o[1])
             /\ Safe(o[2]) \/ Scheduled(Edge(r, 2)) \/ Resolved(r)
    <3>1. Safe(store[r].fields[1])'
      BY <1>3, <1>4, <2>1, <2>5
    <3>2. Safe(store[r].fields[2])' \/ Scheduled(Edge(r, 2))' \/ Resolved(r)'
      BY <1>3, <1>4, <2>1, <2>5
    <3>3. QED
      BY <1>1, <1>5, <3>1, <3>2 DEF FieldsDone
  <2>6. QED
    BY <2>2, <2>3, <2>4, <2>5
<1>6. CASE ~IsWeak(r)
  <2>1. 1 \in DOMAIN o
    BY <1>2, <1>6
  <2>2. Safe(o[1]) \/ Scheduled(Edge(r, 1))
    BY <1>6 DEF FieldsDone
  <2>3. Safe(store[r].fields[1])' \/ Scheduled(Edge(r, 1))'
    BY <1>3, <1>4, <2>1, <2>2
  <2>4. QED
    BY <1>1, <1>6, <2>3 DEF FieldsDone
<1>7. QED
  BY <1>5, <1>6

\* What a tracing step must do for the tracer's part of the invariant.
LEMMA TraceMoves ==
  ASSUME Inv, pc = "trace", pc' = "trace", MovesOn, Scanned \subseteq Scanned',
         grey' \in Nat, grey' <= hp', check' \in BOOLEAN,
         pending' \subseteq DOMAIN store', todo' \in Seq(Range(todo')),
         resolved' \in Seq(DOMAIN store'),
         \A r \in FromPart' : store'[r].fwd # Null =>
            store'[r].fwd \in ToPart' /\ id'[store'[r].fwd] = id'[r],
         \A q \in ToPart' : \E r \in FromPart' : store'[r].fwd = q,
         \A i \in DOMAIN todo' : Scheduled(todo'[i]) \/ GoodEdge(todo[i])',
         \A edge : Scheduled(edge) => Scheduled(edge)' \/ Safe(Ref(edge))',
         \A r \in Scanned' \ Scanned : FieldsDone(r)',
         \A e \in pending \ pending' : Resolved(e)' /\ Safe(store[e].fields[1])',
         \A e \in pending' :
            /\ e \in pending \/ (e \in Scanned' /\ IsWeak(e)' /\ store'[e].fields[1] # Null)
            /\ check' => ~KeyLives(store[e].fields[1])',
         \A i \in DOMAIN resolved' : Resolved(resolved'[i]) \/ resolved'[i] \in pending \ pending',
         \A e : Resolved(e) => Resolved(e)' \/ Scheduled(Edge(e, 2))'
  PROVE  TraceInv'
<1>1. LayoutInv /\ StoreInv /\ TraceInv
  BY DEF Inv
<1>2. /\ \A i \in DOMAIN todo : GoodEdge(todo[i])
      /\ \A s \in Slots : Safe(roots[s]) \/ Scheduled(RootEdge(s))
      /\ \A r \in Scanned : FieldsDone(r)
      /\ \A e \in pending : e \in Scanned /\ IsWeak(e) /\ store[e].fields[1] # Null
      /\ \A i \in DOMAIN resolved :
            /\ resolved[i] \in Scanned /\ IsWeak(resolved[i])
            /\ store[resolved[i]].fields[1] # Null /\ Safe(store[resolved[i]].fields[1])
  BY <1>1 DEF TraceInv
<1>3. \A i \in DOMAIN todo' : GoodEdge(todo[i])'
  <2>1. TAKE i \in DOMAIN todo'
  <2>2. PICK edge : edge = todo'[i]
    OBVIOUS
  <2>3. CASE Scheduled(edge)
    <3>1. GoodEdge(edge)
      BY <1>2, <2>3 DEF Scheduled
    <3>2. GoodEdge(edge)'
      BY <1>1, <3>1, EdgeMoves
    <3>3. QED
      BY <2>2, <3>2 DEF GoodEdge, RootEdge, Edge
  <2>4. QED
    BY <2>2, <2>3
<1>4. \A s \in Slots : Safe(roots[s])' \/ Scheduled(RootEdge(s))'
  <2>1. TAKE s \in Slots
  <2>2. PICK f, g : f = roots[s] /\ g = roots'[s]
    OBVIOUS
  <2>3. Safe(f) => Safe(g)'
    BY <1>1, <2>2, MovedNames DEF MovesOn
  <2>4. Safe(g)' => Safe(roots[s])'
    BY <2>2 DEF Safe
  <2>5. Scheduled(RootEdge(s)) => Scheduled(RootEdge(s))' \/ Safe(roots[s])'
    <3>1. PICK edge : edge = RootEdge(s)
      OBVIOUS
    <3>2. Scheduled(edge) => Scheduled(edge)' \/ Safe(Ref(edge))'
      OBVIOUS
    <3>3. edge.at = Null /\ edge.slot = s
      BY <3>1 DEF RootEdge
    <3>4. Safe(Ref(edge))' => Safe(roots[s])'
      BY <3>3 DEF Safe, Ref
    <3>5. Scheduled(edge)' => Scheduled(RootEdge(s))'
      BY <3>1 DEF Scheduled, RootEdge
    <3>6. QED
      BY <3>1, <3>2, <3>4, <3>5
  <2>6. QED
    BY <1>2, <2>2, <2>3, <2>4, <2>5
<1>5. \A r \in Scanned' : FieldsDone(r)'
  <2>1. ASSUME NEW r \in Scanned PROVE FieldsDone(r)'
    <3>1. r \in DOMAIN store /\ r # Null /\ FieldsDone(r)
      BY <1>1, <1>2, ScannedFacts, Parts
    <3>2. ASSUME NEW i \in {1, 2}
          PROVE  Scheduled(Edge(r, i)) => Scheduled(Edge(r, i))' \/ Safe(store[r].fields[i])'
      <4>1. PICK edge : edge = Edge(r, i)
        OBVIOUS
      <4>2. Scheduled(edge) => Scheduled(edge)' \/ Safe(Ref(edge))'
        OBVIOUS
      <4>3. edge.at = r /\ edge.slot = i
        BY <4>1 DEF Edge
      <4>4. Safe(Ref(edge))' => Safe(store[r].fields[i])'
        BY <3>1, <4>3 DEF Safe, Ref
      <4>5. Scheduled(edge)' => Scheduled(Edge(r, i))'
        BY <4>1 DEF Scheduled, Edge
      <4>6. QED
        BY <4>1, <4>2, <4>4, <4>5
    <3>3. QED
      BY <1>1, <3>1, <3>2, FieldsMove
  <2>2. QED
    BY <2>1
<1>6. ASSUME NEW e \in DOMAIN store, IsWeak(e), store[e].fields[1] # Null
      PROVE  /\ IsWeak(e)' /\ store'[e].fields[1] # Null
             /\ Safe(store[e].fields[1]) => Safe(store[e].fields[1])'
  <2>1. IsWeak(e)'
    BY <1>6 DEF IsWeak, MovesOn
  <2>2. PICK f, g : f = store[e].fields[1] /\ g = store'[e].fields[1]
    OBVIOUS
  <2>3. 1 \in DOMAIN store[e].fields
    BY <1>1, <1>6 DEF StoreInv, Object
  <2>4. Moves(f, g)
    BY <2>2, <2>3 DEF MovesOn
  <2>5. g # Null /\ (Safe(f) => Safe(g)')
    BY <1>1, <1>6, <2>2, <2>4, MovedNames
  <2>6. Safe(g)' => Safe(store[e].fields[1])'
    BY <2>2 DEF Safe
  <2>7. QED
    BY <2>1, <2>2, <2>5, <2>6
<1>7. \A e \in pending' :
        /\ e \in Scanned' /\ IsWeak(e)' /\ store'[e].fields[1] # Null
        /\ check' => ~KeyLives(store[e].fields[1])'
  <2>1. \A e \in pending : e \in Scanned' /\ IsWeak(e)' /\ store'[e].fields[1] # Null
    BY <1>1, <1>2, <1>6, ScannedFacts
  <2>2. QED
    BY <2>1
<1>8. ASSUME NEW i \in DOMAIN resolved', NEW e, e = resolved'[i]
      PROVE  /\ e \in Scanned' /\ IsWeak(e)'
             /\ store'[e].fields[1] # Null /\ Safe(store[e].fields[1])'
  <2>1. CASE Resolved(e)
    <3>1. e \in Scanned /\ IsWeak(e) /\ store[e].fields[1] # Null /\ Safe(store[e].fields[1])
      BY <1>2, <2>1 DEF Resolved
    <3>2. QED
      BY <1>1, <1>6, <3>1, ScannedFacts
  <2>2. CASE e \in pending \ pending'
    <3>1. e \in Scanned /\ IsWeak(e) /\ store[e].fields[1] # Null
      BY <1>2, <2>2
    <3>2. e \in DOMAIN store
      BY <1>1, <3>1, ScannedFacts
    <3>3. IsWeak(e)' /\ store'[e].fields[1] # Null /\ Safe(store[e].fields[1])'
      BY <1>6, <2>2, <3>1, <3>2
    <3>4. QED
      BY <3>1, <3>3
  <2>3. Resolved(e) \/ e \in pending \ pending'
    BY <1>8
  <2>4. QED
    BY <2>1, <2>2, <2>3
<1>9. \A i \in DOMAIN resolved' :
        /\ resolved'[i] \in Scanned' /\ IsWeak(resolved[i])'
        /\ store'[resolved'[i]].fields[1] # Null /\ Safe(store[resolved[i]].fields[1])'
  <2>1. TAKE i \in DOMAIN resolved'
  <2>2. PICK e : e = resolved'[i]
    OBVIOUS
  <2>3. /\ e \in Scanned' /\ IsWeak(e)'
        /\ store'[e].fields[1] # Null /\ Safe(store[e].fields[1])'
    BY <1>8, <2>2
  <2>4. IsWeak(resolved[i])' /\ Safe(store[resolved[i]].fields[1])'
    BY <2>2, <2>3 DEF IsWeak, Safe
  <2>5. QED
    BY <2>2, <2>3, <2>4
<1>10. QED
  BY <1>3, <1>4, <1>5, <1>7, <1>9 DEF TraceInv

LEMMA TraceStepInv ==
  ASSUME Inv, pc = "trace", pc' = "trace", MovesOn, hp' \in Nat,
         UNCHANGED <<to, limit, active, mapped, stolen, size, unstolen, want, groots, gfields>>,
         LosInv', StoreInv', GraphInv', TraceInv', FromPart' = FromPart,
         StoreNames' = StoreNames,
         \A r \in ToPart' \cup MarkedPart' :
           r \in ToPart \cup MarkedPart \/ id'[r] \in LiveNames
  PROVE  Inv'
<1>1. LayoutInv /\ ExactInv /\ WantInv /\ GrowInv
  BY DEF Inv
<1>2. LayoutInv'
  <2>1. from' = from /\ RegionPages(stolen)' = RegionPages(stolen)
    BY DEF from, OtherRegion, RegionPages, AlignUp
  <2>2. QED
    BY <1>1, <2>1 DEF LayoutInv
<1>3. ExactInv'
  <2>1. LiveNames' = LiveNames
    BY LiveNamesSame
  <2>2. \A r \in ToPart \cup MarkedPart : id'[r] = id[r]
    BY ScannedFacts DEF Inv, MovesOn
  <2>3. \A r \in ToPart' \cup MarkedPart' : id'[r] \in LiveNames
    BY <1>1, <2>2 DEF ExactInv
  <2>4. Again' <=> Again
    BY DEF Again
  <2>5. QED
    BY <1>1, <2>1, <2>3, <2>4 DEF ExactInv
<1>4. WantInv'
  BY <1>1 DEF WantInv, Request
<1>5. GrowInv'
  BY <1>1 DEF GrowInv, Again, Granted, Wanted, Target
<1>6. QED
  BY <1>2, <1>3, <1>4, <1>5 DEF Inv

\* A step that copies and marks nothing.
LEMMA QuietStep ==
  ASSUME Inv, pc = "trace", pc' = "trace", UNCHANGED layoutVars,
         UNCHANGED <<los, unstolen, want, historyVars>>,
         DOMAIN store' = DOMAIN store, roots' \in [Slots -> Refs],
         \A q \in DOMAIN store :
           /\ store'[q] \in Object /\ store'[q].kind = store[q].kind
           /\ store'[q].fwd = store[q].fwd /\ Len(store'[q].fields) = Len(store[q].fields)
           /\ DOMAIN store'[q].fields = DOMAIN store[q].fields
           /\ \A i \in DOMAIN store[q].fields : Moves(store[q].fields[i], store'[q].fields[i]),
         \A s \in Slots : Moves(roots[s], roots'[s])
  PROVE  /\ MovesOn /\ (TraceInv' => Inv')
         /\ ToPart' = ToPart /\ FromPart' = FromPart /\ MarkedPart' = MarkedPart
         /\ \A r \in FromPart' : store'[r].fwd # Null =>
              store'[r].fwd \in ToPart' /\ id'[store'[r].fwd] = id'[r]
         /\ \A q \in ToPart' : \E r \in FromPart' : store'[r].fwd = q
         /\ \A k \in DOMAIN store : KeyLives(k)' <=> KeyLives(k)
         /\ \A f : Safe(f)' <=> Safe(f)
<1>1. /\ to' = to /\ hp' = hp /\ limit' = limit /\ active' = active /\ mapped' = mapped
      /\ stolen' = stolen /\ size' = size /\ id' = id /\ groots' = groots /\ gfields' = gfields
  BY DEF layoutVars, historyVars
<1>2. LosInv /\ LayoutInv /\ StoreInv /\ GraphInv /\ TraceInv
  BY DEF Inv
<1>3. from' = from /\ ToPart' = ToPart /\ FromPart' = FromPart /\ LargePart' = LargePart
  BY <1>1 DEF from, OtherRegion, ToPart, FromPart, LargePart
<1>4. MarkedPart' = MarkedPart
  BY <1>3 DEF MarkedPart
<1>5. MovesOn
  BY <1>1, <1>2, <1>3, <1>4 DEF MovesOn, StoreInv
<1>6. \A q \in DOMAIN store : IsWeak(q)' <=> IsWeak(q)
  BY DEF IsWeak
<1>7. StoreInv'
  <2>1. LargePart \subseteq DOMAIN store /\ ToPart \subseteq DOMAIN store
    BY DEF LargePart, ToPart
  <2>2. \A q \in LargePart : ~IsWeak(q)'
    BY <1>2, <1>6, <2>1 DEF StoreInv
  <2>3. \A q \in ToPart \cup LargePart : store'[q].fwd = Null
    BY <1>2, <2>1 DEF StoreInv
  <2>4. \A q \in DOMAIN store' :
          store'[q] \in Object /\ Len(store'[q].fields) = IF IsWeak(q)' THEN 2 ELSE 1
    BY <1>2, <1>6 DEF StoreInv
  <2>5. QED
    BY <1>1, <1>2, <1>3, <2>2, <2>3, <2>4 DEF StoreInv
<1>8. GraphInv' /\ StoreNames' = StoreNames
  <2>1. NamedOnce(ToPart \cup LargePart)' /\ NamedOnce(FromPart \cup LargePart)'
    BY <1>1, <1>2, <1>3 DEF GraphInv, NamedOnce
  <2>2. id' \in [DOMAIN store' -> ObjectNames]
    BY <1>1, <1>2 DEF GraphInv
  <2>3. \A q \in DOMAIN store' \ DOMAIN store : FALSE
    OBVIOUS
  <2>4. QED
    BY <1>1, <1>2, <1>5, <2>1, <2>2, <2>3, GraphMoves
<1>9. LosInv'
  BY <1>1, <1>2 DEF LosInv
<1>10. TraceInv' => Inv'
  <2>1. hp' \in Nat
    BY <1>1, <1>2 DEF LayoutInv
  <2>2. \A r \in ToPart' \cup MarkedPart' : r \in ToPart \cup MarkedPart
    BY <1>3, <1>4
  <2>3. QED
    BY <1>1, <1>3, <1>5, <1>7, <1>8, <1>9, <2>1, <2>2, TraceStepInv
<1>11. \A k \in DOMAIN store : KeyLives(k)' <=> KeyLives(k)
  BY <1>1, <1>3 DEF KeyLives, InFrom
<1>12. \A r \in FromPart : store'[r].fwd = store[r].fwd
  BY DEF FromPart
<1>13. \A r \in FromPart : store[r].fwd # Null =>
            store[r].fwd \in ToPart /\ id[store[r].fwd] = id[r]
  BY <1>2 DEF TraceInv
<1>14. \A q \in ToPart : \E r \in FromPart : store[r].fwd = q
  BY <1>2 DEF TraceInv
<1>15. \A f : Safe(f)' <=> Safe(f)
  BY <1>3, <1>4 DEF Safe
<1>16. QED
  BY <1>1, <1>3, <1>4, <1>5, <1>10, <1>11, <1>12, <1>13, <1>14, <1>15
LEMMA PendingKey ==
  ASSUME Inv, pc = "trace", NEW e \in pending, NEW k, k = store[e].fields[1]
  PROVE  /\ e \in DOMAIN store /\ e \in Scanned /\ e \notin FromPart /\ IsWeak(e)
         /\ k # Null /\ k \in DOMAIN store /\ id[k] = gfields[id[e]][1]
         /\ check => ~KeyLives(k)
<1>1. LayoutInv /\ StoreInv /\ GraphInv /\ TraceInv
  BY DEF Inv
<1>2. /\ e \in Scanned /\ IsWeak(e) /\ store[e].fields[1] # Null
      /\ check => ~KeyLives(store[e].fields[1])
  BY <1>1 DEF TraceInv
<1>3. e \in DOMAIN store /\ e \notin FromPart
  BY <1>1, <1>2, ScannedFacts, Parts
<1>4. 1 \in DOMAIN store[e].fields /\ Names(store[e].fields[1], gfields[id[e]][1])
  BY <1>1, <1>2, <1>3, FieldNames
<1>5. QED
  BY <1>2, <1>3, <1>4 DEF Names

LEMMA TodoTail ==
  ASSUME TraceInv, todo # <<>>, todo' = Tail(todo)
  PROVE  /\ todo' \in Seq(Range(todo')) /\ Scheduled(Head(todo))
         /\ \A i \in DOMAIN todo' : Scheduled(todo'[i])
         /\ \A edge : Scheduled(edge) => Scheduled(edge)' \/ edge = Head(todo)
<1> PICK q, h, t, S : q = todo /\ h = Head(todo) /\ t = todo' /\ S = Range(todo)
  OBVIOUS
<1>1. Shorter(S, q, h, t)
  <2>1. q \in Seq(S) /\ q # <<>> /\ t = Tail(q) /\ h = Head(q)
    BY DEF TraceInv
  <2>2. QED
    BY <2>1, TailFacts
<1>2. /\ t \in Seq(S) /\ 1 \in DOMAIN q /\ h = q[1]
      /\ \A i \in DOMAIN t : \E j \in DOMAIN q : t[i] = q[j]
      /\ \A j \in DOMAIN q : q[j] = h \/ \E i \in DOMAIN t : t[i] = q[j]
  BY <1>1 DEF Shorter
<1>3. t \in Seq(Range(t))
  BY <1>2, SeqRange
<1>4. QED
  BY <1>2, <1>3 DEF Scheduled

LEMMA KnownEdge ==
  ASSUME Inv, pc = "trace", pc' = "trace", todo # <<>>, todo' = Tail(todo),
         UNCHANGED layoutVars, UNCHANGED ephVars,
         UNCHANGED <<los, grey, unstolen, want, historyVars>>,
         DOMAIN store' = DOMAIN store, roots' \in [Slots -> Refs],
         \A q \in DOMAIN store :
           /\ store'[q] \in Object /\ store'[q].kind = store[q].kind
           /\ store'[q].fwd = store[q].fwd /\ Len(store'[q].fields) = Len(store[q].fields)
           /\ DOMAIN store'[q].fields = DOMAIN store[q].fields
           /\ \A i \in DOMAIN store[q].fields : Moves(store[q].fields[i], store'[q].fields[i]),
         \A s \in Slots : Moves(roots[s], roots'[s]),
         \A q \in DOMAIN store : IsWeak(q) => store'[q].fields[1] = store[q].fields[1],
         NEW edge, edge = Head(todo), Safe(Ref(edge))'
  PROVE  Inv'
<1>1. /\ MovesOn /\ (TraceInv' => Inv')
      /\ ToPart' = ToPart /\ FromPart' = FromPart /\ MarkedPart' = MarkedPart
      /\ \A r \in FromPart' : store'[r].fwd # Null =>
              store'[r].fwd \in ToPart' /\ id'[store'[r].fwd] = id'[r]
      /\ \A q \in ToPart' : \E r \in FromPart' : store'[r].fwd = q
      /\ \A k \in DOMAIN store : KeyLives(k)' <=> KeyLives(k)
  BY QuietStep
<1>2. TraceInv /\ check' = check /\ pending' = pending /\ resolved' = resolved /\ hp' = hp
  BY DEF Inv, ephVars, layoutVars
<1>3. Scanned' = Scanned
  BY <1>1 DEF Scanned
<1>4. /\ todo' \in Seq(Range(todo'))
      /\ \A i \in DOMAIN todo' : Scheduled(todo'[i])
      /\ \A x : Scheduled(x) => Scheduled(x)' \/ x = edge
  BY <1>2, TodoTail
<1>5. /\ grey' \in Nat /\ grey' <= hp' /\ check' \in BOOLEAN
      /\ pending' \subseteq DOMAIN store' /\ resolved' \in Seq(DOMAIN store')
  BY <1>2 DEF TraceInv
<1>6. \A e \in pending' :
            /\ e \in pending
            /\ check' => ~KeyLives(store[e].fields[1])'
  <2>1. TAKE e \in pending'
  <2>2. PICK k : k = store[e].fields[1]
    OBVIOUS
  <2>3. e \in pending /\ e \in DOMAIN store /\ IsWeak(e) /\ k \in DOMAIN store
          /\ (check => ~KeyLives(k))
    BY <1>2, <2>2, PendingKey
  <2>4. store'[e].fields[1] = k /\ (check' => ~KeyLives(k)')
    BY <1>1, <1>2, <2>2, <2>3
  <2>5. ~KeyLives(k)' => ~KeyLives(store[e].fields[1])'
    BY <2>4 DEF KeyLives, InFrom
  <2>6. QED
    BY <2>3, <2>4, <2>5
<1>7. \A e : Resolved(e) <=> Resolved(e)'
  BY <1>2 DEF Resolved
<1>8. \A i \in DOMAIN resolved' : Resolved(resolved'[i])
  BY <1>2 DEF Resolved
<1>9. TraceInv'
  BY <1>1, <1>2, <1>3, <1>4, <1>5, <1>6, <1>7, <1>8, TraceMoves
<1>10. QED
  BY <1>1, <1>9

LEMMA VisitKnownInv ==
  ASSUME Inv, VisitKnown
  PROVE  Inv'
<1> PICK edge, r : edge = Head(todo) /\ r = Ref(edge)
  OBVIOUS
<1>1. /\ pc = "trace" /\ pc' = "trace" /\ todo # <<>> /\ todo' = Tail(todo)
      /\ VisitAgain(edge, r) /\ UNCHANGED layoutVars /\ UNCHANGED ephVars
      /\ UNCHANGED <<los, grey, unstolen, want, historyVars>>
  BY DEF VisitKnown
<1>2. LayoutInv /\ StoreInv /\ GraphInv /\ TraceInv
  BY DEF Inv
<1>3. GoodEdge(edge)
  BY <1>1, <1>2, TodoTail DEF TraceInv, Scheduled
<1>4. r = Null \/ r \in DOMAIN store
  BY <1>1, <1>3, EdgeFacts
<1>5. /\ \A q \in DOMAIN store : store[q] \in Object
      /\ roots \in [Slots -> Refs]
  BY <1>2 DEF StoreInv, GraphInv
<1>6. CASE UNCHANGED <<store, roots>> /\ Safe(r)
  <2>1. Safe(Ref(edge))'
    <3>1. ToPart' = ToPart /\ MarkedPart' = MarkedPart
      BY <1>1, <1>6 DEF layoutVars, ToPart, MarkedPart, LargePart
    <3>2. QED
      BY <1>6, <3>1 DEF Ref, Safe
  <2>2. \A f : Moves(f, f)
    BY DEF Moves
  <2>3. QED
    BY <1>1, <1>5, <1>6, <2>1, <2>2, KnownEdge
<1>7. CASE r # Null /\ InFrom(r) /\ store[r].fwd # Null /\ SetEdge(edge, store[r].fwd, store)
  <2> PICK r2 : r2 = store[r].fwd
    OBVIOUS
  <2>1. r \in FromPart
    BY <1>2, <1>4, <1>7, ScannedFacts
  <2>2. r2 \in ToPart /\ id[r2] = id[r] /\ r2 \in DOMAIN store
    BY <1>1, <1>2, <1>7, <2>1, ScannedFacts DEF TraceInv
  <2>3. r \in DOMAIN store /\ r2 \in Refs
    BY <1>2, <1>4, <1>7, <2>2 DEF StoreInv, Refs
  <2>4. id' = id /\ to' = to /\ los' = los
    BY <1>1 DEF historyVars, layoutVars
  <2>5. ASSUME DOMAIN store' = DOMAIN store
        PROVE  Moves(r, r2) /\ r2 \in ToPart' /\ \A f : Moves(f, f)
    <3>1. ToPart' = ToPart
      BY <2>4, <2>5 DEF ToPart
    <3>2. QED
      BY <2>2, <2>3, <2>4, <2>5, <3>1 DEF Moves
  <2>6. CASE edge.at = Null
    <3>1. /\ edge.slot \in Slots /\ r = roots[edge.slot]
      BY <1>1, <1>3, <2>6, EdgeFacts
    <3>2. store' = store /\ roots' = [roots EXCEPT ![edge.slot] = r2]
      BY <1>7, <2>6 DEF SetEdge
    <3>3. Moves(r, r2) /\ r2 \in ToPart' /\ \A f : Moves(f, f)
      BY <2>5, <3>2
    <3>4. roots' \in [Slots -> Refs] /\ \A s \in Slots : Moves(roots[s], roots'[s])
      BY <1>5, <2>3, <3>1, <3>2, <3>3
    <3>5. Safe(Ref(edge))'
      BY <1>5, <2>6, <3>1, <3>2, <3>3 DEF Safe, Ref
    <3>6. QED
      BY <1>1, <1>5, <3>2, <3>3, <3>4, <3>5, KnownEdge
  <2>7. CASE edge.at # Null
    <3> PICK at, i, o : at = edge.at /\ i = edge.slot
                     /\ o = [store[at] EXCEPT !.fields = [store[at].fields EXCEPT ![i] = r2]]
      OBVIOUS
    <3>1. /\ at \in DOMAIN store /\ i \in DOMAIN store[at].fields /\ r = store[at].fields[i]
          /\ IsWeak(at) => i = 2
      BY <1>1, <1>3, <2>7, EdgeFacts
    <3>2. /\ store[at] \in Object /\ store[at].fields \in Seq(Refs)
          /\ DOMAIN store[at].fields = IF IsWeak(at) THEN {1, 2} ELSE {1}
      BY <1>2, <3>1, FieldNames DEF StoreInv
    <3>3. /\ o \in Object /\ o.kind = store[at].kind /\ o.fwd = store[at].fwd
          /\ Len(o.fields) = Len(store[at].fields)
          /\ DOMAIN o.fields = DOMAIN store[at].fields /\ o.fields[i] = r2
          /\ \A j \in DOMAIN store[at].fields : j # i => o.fields[j] = store[at].fields[j]
      <4>1. FieldChanged(store[at], i, r2, o)
        BY <2>3, <3>1, <3>2, FieldSet
      <4>2. QED
        BY <4>1 DEF FieldChanged
    <3>4. roots' = roots /\ store' = [store EXCEPT ![at].fields[i] = r2]
      BY <1>7, <2>7 DEF SetEdge
    <3>5. /\ DOMAIN store' = DOMAIN store /\ store'[at] = o
          /\ \A q \in DOMAIN store : q # at => store'[q] = store[q]
      BY <3>1, <3>4
    <3>6. Moves(r, r2) /\ r2 \in ToPart' /\ \A f : Moves(f, f)
      BY <2>5, <3>5
    <3>7. \A q \in DOMAIN store :
           /\ store'[q] \in Object /\ store'[q].kind = store[q].kind
           /\ store'[q].fwd = store[q].fwd /\ Len(store'[q].fields) = Len(store[q].fields)
           /\ DOMAIN store'[q].fields = DOMAIN store[q].fields
           /\ \A j \in DOMAIN store[q].fields : Moves(store[q].fields[j], store'[q].fields[j])
      <4>1. TAKE q \in DOMAIN store
      <4>2. CASE q = at
        <5>1. store'[q] = o
          BY <3>5, <4>2
        <5>2. \A j \in DOMAIN store[q].fields : Moves(store[q].fields[j], o.fields[j])
          BY <3>1, <3>3, <3>6, <4>2
        <5>3. QED
          BY <3>3, <4>2, <5>1, <5>2
      <4>3. CASE q # at
        BY <1>5, <3>5, <3>6, <4>3
      <4>4. QED
        BY <4>2, <4>3
    <3>8. Safe(Ref(edge))'
      <4>1. store'[at].fields[i] = r2
        BY <3>3, <3>5
      <4>2. Ref(edge)' = r2
        BY <2>7, <4>1 DEF Ref
      <4>3. QED
        BY <3>6, <4>2 DEF Safe
    <3>9. \A q \in DOMAIN store : IsWeak(q) => store'[q].fields[1] = store[q].fields[1]
      <4>1. IsWeak(at) => o.fields[1] = store[at].fields[1]
        <5>1. SUFFICES ASSUME IsWeak(at) PROVE o.fields[1] = store[at].fields[1]
          OBVIOUS
        <5>2. i = 2 /\ 1 \in DOMAIN store[at].fields
          BY <3>1, <3>2, <5>1
        <5>3. QED
          BY <3>3, <5>2
      <4>2. QED
        BY <3>5, <4>1
    <3>10. \A s \in Slots : Moves(roots[s], roots'[s])
      BY <3>4, <3>6
    <3>11. QED
      BY <1>1, <1>5, <3>4, <3>5, <3>7, <3>8, <3>9, <3>10, KnownEdge
  <2>8. QED
    BY <2>6, <2>7
<1>8. CASE r = Null /\ UNCHANGED <<store, roots>>
  BY <1>6, <1>8 DEF Safe
<1>9. CASE r[1] = "los" /\ LosIsMarked(los, r[2]) /\ UNCHANGED <<store, roots>>
  <2>1. r \in MarkedPart
    <3>1. r # Null
      BY <1>9 DEF Null
    <3>2. QED
      BY <1>4, <1>9, <3>1 DEF MarkedPart, LargePart
  <2>2. QED
    BY <1>6, <1>9, <2>1 DEF Safe
<1>10. QED
  BY <1>1, <1>7, <1>8, <1>9 DEF VisitAgain

LEMMA StillStep ==
  ASSUME Inv, pc = "trace", pc' = "trace", UNCHANGED layoutVars,
         UNCHANGED <<los, store, roots, unstolen, want, historyVars>>
  PROVE  /\ MovesOn /\ (TraceInv' => Inv')
         /\ ToPart' = ToPart /\ FromPart' = FromPart /\ MarkedPart' = MarkedPart
         /\ \A r \in FromPart' : store'[r].fwd # Null =>
              store'[r].fwd \in ToPart' /\ id'[store'[r].fwd] = id'[r]
         /\ \A q \in ToPart' : \E r \in FromPart' : store'[r].fwd = q
         /\ \A k \in DOMAIN store : KeyLives(k)' <=> KeyLives(k)
         /\ \A f : Safe(f)' <=> Safe(f)
<1>1. \A f : Moves(f, f)
  BY DEF Moves
<1>2. roots' \in [Slots -> Refs] /\ \A q \in DOMAIN store : store'[q] \in Object
  BY DEF Inv, GraphInv, StoreInv
<1>3. QED
  BY <1>1, <1>2, QuietStep

LEMMA EdgesOfFacts ==
  ASSUME StoreInv, GraphInv, NEW r \in DOMAIN store
  PROVE  /\ EdgesOf(r) \in Seq(Range(EdgesOf(r))) /\ DOMAIN EdgesOf(r) = DOMAIN store[r].fields
         /\ \A i \in DOMAIN store[r].fields : EdgesOf(r)[i] = Edge(r, i)
<1> PICK z, S, q : /\ z = Len(store[r].fields) /\ S = {Edge(r, i) : i \in 1 .. z}
                   /\ q = [i \in 1 .. z |-> Edge(r, i)]
  OBVIOUS
<1>1. z \in Nat /\ DOMAIN store[r].fields = 1 .. z
  BY DEF StoreInv, Object
<1>2. EdgesOf(r) = q
  BY <1>1 DEF EdgesOf
<1>3. q \in Seq(S)
  BY <1>1
<1>4. q \in Seq(Range(q))
  BY <1>3, SeqRange
<1>5. QED
  BY <1>1, <1>2, <1>4

\* The object at the finger is scanned next.
LEMMA Finger ==
  ASSUME Inv, pc = "trace", grey < hp, to' = to, grey' = grey + 1, ToPart' = ToPart,
         MarkedPart' = MarkedPart
  PROVE  /\ <<to, grey>> \in ToPart /\ <<to, grey>> \in DOMAIN store /\ <<to, grey>> # Null
         /\ <<to, grey>> \notin Scanned /\ <<to, grey>> \notin FromPart
         /\ Scanned' = Scanned \cup {<<to, grey>>} /\ grey' \in Nat /\ grey' <= hp
<1>1. LayoutInv /\ StoreInv /\ grey \in Nat /\ hp \in Nat
  BY DEF Inv, TraceInv, LayoutInv
<1>2. ToPart = {<<to, i>> : i \in 0 .. hp - 1}
  BY <1>1 DEF StoreInv
<1>3. grey \in 0 .. hp - 1
  BY <1>1
<1>4. <<to, grey>> \in ToPart
  BY <1>2, <1>3
<1>5. <<to, grey>> \in DOMAIN store /\ <<to, grey>> # Null /\ <<to, grey>> \notin FromPart
        /\ <<to, grey>> \notin MarkedPart
  BY <1>1, <1>4, Parts, ScannedFacts
<1>6. \A q \in ToPart : q[2] \in Nat /\ (q[2] < grey + 1 <=> q[2] < grey \/ q = <<to, grey>>)
  <2>1. TAKE q \in ToPart
  <2>2. PICK i \in 0 .. hp - 1 : q = <<to, i>>
    BY <1>2
  <2>3. q[2] = i /\ (q = <<to, grey>> <=> i = grey)
    BY <2>2
  <2>4. QED
    BY <1>1, <2>2, <2>3
<1>7. Scanned' = Scanned \cup {<<to, grey>>}
  <2>1. {q \in ToPart : q[2] < grey + 1} = {q \in ToPart : q[2] < grey} \cup {<<to, grey>>}
    BY <1>4, <1>6
  <2>2. QED
    BY <2>1 DEF Scanned
<1>8. <<to, grey>> \notin Scanned
  BY <1>1, <1>5 DEF Scanned
<1>9. QED
  BY <1>1, <1>4, <1>5, <1>7, <1>8

LEMMA ScanObjectInv ==
  ASSUME Inv, ScanObject
  PROVE  Inv'
<1> PICK r : r = <<to, grey>>
  OBVIOUS
<1>1. /\ pc = "trace" /\ pc' = "trace" /\ todo = <<>> /\ grey < hp /\ ~IsWeak(r)
      /\ todo' = EdgesOf(r) /\ grey' = grey + 1 /\ UNCHANGED layoutVars /\ UNCHANGED ephVars
      /\ UNCHANGED <<los, store, roots, unstolen, want, historyVars>>
  BY DEF ScanObject, IsWeak
<1>2. LayoutInv /\ StoreInv /\ GraphInv /\ TraceInv
  BY DEF Inv
<1>3. /\ MovesOn /\ (TraceInv' => Inv')
      /\ ToPart' = ToPart /\ FromPart' = FromPart /\ MarkedPart' = MarkedPart
      /\ \A q \in FromPart' : store'[q].fwd # Null =>
              store'[q].fwd \in ToPart' /\ id'[store'[q].fwd] = id'[q]
      /\ \A q \in ToPart' : \E p \in FromPart' : store'[p].fwd = q
      /\ \A k \in DOMAIN store : KeyLives(k)' <=> KeyLives(k)
  BY <1>1, StillStep
<1>4. /\ to' = to /\ hp' = hp /\ check' = check /\ pending' = pending /\ resolved' = resolved
      /\ id' = id /\ gfields' = gfields
  BY <1>1 DEF layoutVars, ephVars, historyVars
<1>5. /\ r \in ToPart /\ r \in DOMAIN store /\ Scanned' = Scanned \cup {r}
      /\ grey' \in Nat /\ grey' <= hp
  BY <1>1, <1>3, <1>4, Finger
<1>6. /\ todo' \in Seq(Range(todo')) /\ DOMAIN todo' = {1} /\ todo'[1] = Edge(r, 1)
      /\ 1 \in DOMAIN store[r].fields
  BY <1>1, <1>2, <1>5, EdgesOfFacts, FieldNames
<1>7. GoodEdge(Edge(r, 1))' /\ Scheduled(Edge(r, 1))'
  <2>1. PICK edge : edge = Edge(r, 1)
    OBVIOUS
  <2>2. r \in Scanned' /\ ~IsWeak(r)' /\ edge = Edge(r, 1)' /\ 1 \in DOMAIN store'[r].fields
    BY <1>1, <1>5, <1>6, <2>1 DEF IsWeak, Edge
  <2>3. GoodEdge(edge)'
    BY <2>2 DEF GoodEdge
  <2>4. Scheduled(edge)'
    BY <1>6, <2>1 DEF Scheduled
  <2>5. QED
    BY <2>1, <2>3, <2>4 DEF GoodEdge, Scheduled, Edge, RootEdge
<1>8. FieldsDone(r)'
  BY <1>1, <1>7 DEF FieldsDone, IsWeak
<1>9. \A i \in DOMAIN todo' : GoodEdge(todo[i])'
  BY <1>6, <1>7 DEF GoodEdge, Edge, RootEdge
<1>10. \A edge : ~Scheduled(edge)
  BY <1>1 DEF Scheduled
<1>11. \A e : Resolved(e) <=> Resolved(e)'
  BY <1>4 DEF Resolved
<1>12. \A i \in DOMAIN resolved' : Resolved(resolved'[i])
  BY <1>4 DEF Resolved
<1>13. \A e \in pending' :
            /\ e \in pending
            /\ check' => ~KeyLives(store[e].fields[1])'
  <2>1. TAKE e \in pending'
  <2>2. PICK k : k = store[e].fields[1]
    OBVIOUS
  <2>3. e \in pending /\ k \in DOMAIN store /\ (check => ~KeyLives(k))
    BY <1>1, <1>4, <2>2, PendingKey
  <2>4. store'[e].fields[1] = k /\ (check' => ~KeyLives(k)')
    BY <1>1, <1>3, <1>4, <2>2, <2>3
  <2>5. ~KeyLives(k)' => ~KeyLives(store[e].fields[1])'
    BY <2>4 DEF KeyLives, InFrom
  <2>6. QED
    BY <2>3, <2>4, <2>5
<1>14. check' \in BOOLEAN /\ pending' \subseteq DOMAIN store' /\ resolved' \in Seq(DOMAIN store')
  BY <1>1, <1>2, <1>4 DEF TraceInv
<1>15. Scanned \subseteq Scanned' /\ Scanned' \ Scanned \subseteq {r} /\ grey' <= hp'
  BY <1>4, <1>5
<1>16. TraceInv'
  BY <1>1, <1>3, <1>5, <1>6, <1>8, <1>9, <1>10, <1>11, <1>12, <1>13, <1>14, <1>15, <1>4, TraceMoves
<1>17. QED
  BY <1>3, <1>16

LEMMA TraceResolvedInv ==
  ASSUME Inv, TraceResolved
  PROVE  Inv'
<1>1. /\ pc = "trace" /\ pc' = "trace" /\ todo = <<>> /\ check
      /\ todo' = [i \in DOMAIN resolved |-> Edge(resolved[i], 2)] /\ resolved' = <<>>
      /\ check' = check /\ pending' = pending /\ grey' = grey
      /\ UNCHANGED layoutVars /\ UNCHANGED <<los, store, roots, unstolen, want, historyVars>>
  BY DEF TraceResolved, Closed
<1>2. LayoutInv /\ StoreInv /\ GraphInv /\ TraceInv
  BY DEF Inv
<1>3. /\ MovesOn /\ (TraceInv' => Inv')
      /\ ToPart' = ToPart /\ FromPart' = FromPart /\ MarkedPart' = MarkedPart
      /\ \A q \in FromPart' : store'[q].fwd # Null =>
              store'[q].fwd \in ToPart' /\ id'[store'[q].fwd] = id'[q]
      /\ \A q \in ToPart' : \E p \in FromPart' : store'[p].fwd = q
      /\ \A k \in DOMAIN store : KeyLives(k)' <=> KeyLives(k)
      /\ \A f : Safe(f)' <=> Safe(f)
  BY <1>1, StillStep
<1>4. Scanned' = Scanned /\ hp' = hp
  BY <1>1, <1>3 DEF Scanned, layoutVars
<1>5. todo' \in Seq(Range(todo'))
  <2> PICK z, S, q : /\ z = Len(resolved) /\ S = {Edge(resolved[i], 2) : i \in 1 .. z}
                     /\ q = [i \in 1 .. z |-> Edge(resolved[i], 2)]
    OBVIOUS
  <2>1. z \in Nat /\ DOMAIN resolved = 1 .. z
    BY <1>2 DEF TraceInv
  <2>2. q \in Seq(S)
    BY <2>1
  <2>3. q \in Seq(Range(q)) /\ todo' = q
    BY <1>1, <2>1, <2>2, SeqRange
  <2>4. QED
    BY <2>3
<1>6. \A i \in DOMAIN todo' : GoodEdge(todo[i])'
  <2>1. TAKE i \in DOMAIN todo'
  <2>2. PICK e, edge : e = resolved[i] /\ edge = todo'[i]
    OBVIOUS
  <2>3. i \in DOMAIN resolved /\ edge = Edge(e, 2)
    BY <1>1, <2>2
  <2>4. e \in Scanned /\ IsWeak(e) /\ store[e].fields[1] # Null /\ Safe(store[e].fields[1])
    BY <1>1, <1>2, <2>2, <2>3 DEF TraceInv
  <2>5. e \in DOMAIN store /\ 2 \in DOMAIN store[e].fields
    BY <1>2, <2>4, ScannedFacts, FieldNames
  <2>6. GoodEdge(edge)
    BY <2>3, <2>4, <2>5 DEF GoodEdge
  <2>7. GoodEdge(edge)'
    BY <1>2, <1>3, <1>4, <2>6, EdgeMoves
  <2>8. QED
    BY <2>2, <2>7 DEF GoodEdge, RootEdge, Edge
<1>7. \A e : Resolved(e) => Scheduled(Edge(e, 2))'
  <2>1. TAKE e
  <2>2. ASSUME NEW i \in DOMAIN resolved, resolved[i] = e
        PROVE  Scheduled(Edge(e, 2))'
    <3>1. i \in DOMAIN todo' /\ todo'[i] = Edge(e, 2)
      BY <1>1, <2>2
    <3>2. QED
      BY <3>1 DEF Scheduled, Edge
  <2>3. QED
    BY <2>2 DEF Resolved
<1>8. \A edge : ~Scheduled(edge)
  BY <1>1 DEF Scheduled
<1>9. \A e \in pending' :
            /\ e \in pending
            /\ check' => ~KeyLives(store[e].fields[1])'
  <2>1. TAKE e \in pending'
  <2>2. PICK k : k = store[e].fields[1]
    OBVIOUS
  <2>3. e \in pending /\ k \in DOMAIN store /\ (check => ~KeyLives(k))
    BY <1>1, <2>2, PendingKey
  <2>4. store'[e].fields[1] = k /\ (check' => ~KeyLives(k)')
    BY <1>1, <1>3, <2>2, <2>3
  <2>5. ~KeyLives(k)' => ~KeyLives(store[e].fields[1])'
    BY <2>4 DEF KeyLives, InFrom
  <2>6. QED
    BY <2>3, <2>4, <2>5
<1>10. /\ grey' \in Nat /\ grey' <= hp' /\ check' \in BOOLEAN
       /\ pending' \subseteq DOMAIN store' /\ resolved' \in Seq(DOMAIN store')
  BY <1>1, <1>2, <1>4 DEF TraceInv
<1>11. \A i \in DOMAIN resolved' : FALSE
  BY <1>1
<1>12. pending \ pending' = {} /\ Scanned' \ Scanned = {}
  BY <1>1, <1>4
<1>13. TraceInv'
  BY <1>1, <1>3, <1>4, <1>5, <1>6, <1>7, <1>8, <1>9, <1>10, <1>11, <1>12, TraceMoves
<1>14. QED
  BY <1>3, <1>13
\* Where a key that lives is.
LEMMA KeyMoves ==
  ASSUME Inv, pc = "trace", NEW k \in DOMAIN store, KeyLives(k), NEW v, v = KeyNow(k)
  PROVE  v \in ToPart \cup MarkedPart /\ v \in DOMAIN store /\ v \in Refs /\ id[v] = id[k]
<1>1. LayoutInv /\ StoreInv /\ TraceInv
  BY DEF Inv
<1>2. \A x \in ToPart \cup MarkedPart : x \in DOMAIN store /\ x \in Refs
  BY <1>1, ScannedFacts DEF StoreInv, Refs
<1>3. CASE k \in FromPart
  <2>1. InFrom(k)
    BY <1>1, <1>3, ScannedFacts
  <2>2. v = store[k].fwd /\ store[k].fwd # Null
    BY <2>1 DEF KeyLives, KeyNow
  <2>3. v \in ToPart /\ id[v] = id[k]
    BY <1>1, <1>3, <2>2 DEF TraceInv
  <2>4. QED
    BY <1>2, <2>3
<1>4. CASE k \notin FromPart
  <2>1. ~InFrom(k)
    BY <1>1, <1>4, ScannedFacts
  <2>2. v = k /\ (k[1] = "los" => LosIsMarked(los, k[2]))
    BY <2>1 DEF KeyLives, KeyNow
  <2>3. k \in ToPart \/ k \in LargePart
    BY <1>1, <1>4, Parts
  <2>4. k \in LargePart => k \in MarkedPart
    BY <2>2 DEF LargePart, MarkedPart
  <2>5. QED
    BY <1>2, <2>2, <2>3, <2>4
<1>5. QED
  BY <1>3, <1>4

LEMMA PendingFinite ==
  ASSUME Inv, pc = "trace"
  PROVE  IsFiniteSet(pending) /\ pending \subseteq DOMAIN store
<1>1. LosInv /\ LayoutInv /\ StoreInv /\ TraceInv
  BY DEF Inv
<1>2. IsFiniteSet(ToPart)
  <2>1. ToPart = {<<to, i>> : i \in 0 .. hp - 1} /\ hp \in Nat
    BY <1>1 DEF StoreInv, LayoutInv
  <2>2. QED
    BY <2>1, CountTo
<1>3. IsFiniteSet(LargePart)
  <2> PICK S, f : S = LiveNodes(los) /\ f = [a \in S |-> <<"los", a>>]
    OBVIOUS
  <2>1. IsFiniteSet(S)
    <3>1. LosTyped(los)
      BY <1>1 DEF LosInv, LosOk
    <3>2. LiveNodes(los) \subseteq DOMAIN los.nodes /\ IsFiniteSet(DOMAIN los.nodes)
      BY <3>1, LiveTyped DEF LosTyped
    <3>3. QED
      BY <3>2, FS_Subset
  <2>2. IsFiniteSet({f[a] : a \in S})
    BY <2>1, FiniteImage
  <2>3. {f[a] : a \in S} = LargePart
    BY <1>1 DEF StoreInv
  <2>4. QED
    BY <2>2, <2>3
<1>4. IsFiniteSet(ToPart \cup LargePart)
  BY <1>2, <1>3, FS_Union
<1>5. pending \subseteq ToPart \cup LargePart
  BY <1>1, ScannedFacts DEF TraceInv
<1>6. QED
  BY <1>1, <1>4, <1>5, FS_Subset DEF TraceInv

\* The list of resolved ephemerons grows.
LEMMA ResolvedMore ==
  ASSUME TraceInv, NEW W \in SUBSET DOMAIN store, IsFiniteSet(W),
         DOMAIN store \subseteq DOMAIN store', resolved' = SetToSeq(W) \o resolved
  PROVE  /\ resolved' \in Seq(DOMAIN store')
         /\ \A e \in W : Resolved(e)'
         /\ \A e : Resolved(e) => Resolved(e)'
         /\ \A i \in DOMAIN resolved' : Resolved(resolved'[i]) \/ resolved'[i] \in W
<1> PICK S, p, q, t : S = DOMAIN store /\ p = SetToSeq(W) /\ q = resolved /\ t = resolved'
  OBVIOUS
<1>1. p \in Seq(W) /\ \A x \in W : \E i \in DOMAIN p : p[i] = x
  BY SetToSeqFacts
<1>2. p \in Seq(S) /\ q \in Seq(S) /\ t = p \o q
  BY <1>1, SeqWider DEF TraceInv
<1>3. /\ t \in Seq(S)
      /\ \A i \in DOMAIN t : \/ \E j \in DOMAIN p : t[i] = p[j]
                             \/ \E j \in DOMAIN q : t[i] = q[j]
      /\ \A j \in DOMAIN p : \E i \in DOMAIN t : t[i] = p[j]
      /\ \A j \in DOMAIN q : \E i \in DOMAIN t : t[i] = q[j]
  <2>1. Joined(S, p, q, t)
    BY <1>2, ConcatFacts
  <2>2. QED
    BY <2>1 DEF Joined
<1>4. resolved' \in Seq(DOMAIN store')
  <2>1. PICK T : T = DOMAIN store'
    OBVIOUS
  <2>2. t \in Seq(T)
    BY <1>3, <2>1, SeqWider
  <2>3. QED
    BY <2>1, <2>2
<1>5. \A j \in DOMAIN p : p[j] \in W
  BY <1>1
<1>6. \A e \in W : \E i \in DOMAIN t : t[i] = e
  <2>1. TAKE e \in W
  <2>2. PICK j \in DOMAIN p : p[j] = e
    BY <1>1
  <2>3. PICK i \in DOMAIN t : t[i] = p[j]
    BY <1>3
  <2>4. QED
    BY <2>2, <2>3
<1>7. ASSUME NEW e, Resolved(e) PROVE Resolved(e)'
  <2>1. PICK j \in DOMAIN q : q[j] = e
    BY <1>7 DEF Resolved
  <2>2. PICK i \in DOMAIN t : t[i] = q[j]
    BY <1>3
  <2>3. QED
    BY <2>1, <2>2 DEF Resolved
<1>8. ASSUME NEW i \in DOMAIN t PROVE Resolved(t[i]) \/ t[i] \in W
  <2>1. CASE \E j \in DOMAIN p : t[i] = p[j]
    BY <1>5, <2>1
  <2>2. CASE \E j \in DOMAIN q : t[i] = q[j]
    BY <2>2 DEF Resolved
  <2>3. QED
    BY <1>3, <2>1, <2>2
<1>9. QED
  BY <1>4, <1>6, <1>7, <1>8 DEF Resolved

\* Keys of ephemerons that live are set to where they are now.
LEMMA KeysSet ==
  ASSUME Inv, pc = "trace", NEW W \in SUBSET DOMAIN store,
         \A e \in W : IsWeak(e) /\ store[e].fields[1] # Null /\ KeyLives(store[e].fields[1]),
         DOMAIN store' = DOMAIN store,
         \A e \in W : store'[e] = [store[e] EXCEPT !.fields[1] = KeyNow(store[e].fields[1])],
         \A q \in DOMAIN store \ W : store'[q] = store[q],
         pc' = "trace", UNCHANGED layoutVars,
         UNCHANGED <<los, roots, unstolen, want, historyVars>>
  PROVE  /\ MovesOn /\ (TraceInv' => Inv')
         /\ ToPart' = ToPart /\ FromPart' = FromPart /\ MarkedPart' = MarkedPart
         /\ \A r \in FromPart' : store'[r].fwd # Null =>
              store'[r].fwd \in ToPart' /\ id'[store'[r].fwd] = id'[r]
         /\ \A q \in ToPart' : \E r \in FromPart' : store'[r].fwd = q
         /\ \A k \in DOMAIN store : KeyLives(k)' <=> KeyLives(k)
         /\ \A e \in W : /\ IsWeak(e)' /\ store'[e].fields[1] # Null
                         /\ Safe(store[e].fields[1])'
<1>1. LayoutInv /\ StoreInv /\ GraphInv
  BY DEF Inv
<1>2. id' = id /\ to' = to /\ los' = los
  BY DEF layoutVars, historyVars
<1>3. ToPart' = ToPart /\ LargePart' = LargePart /\ MarkedPart' = MarkedPart
  BY <1>2 DEF ToPart, LargePart, MarkedPart
<1>4. \A f : Moves(f, f)
  BY DEF Moves
<1>5. ASSUME NEW e \in W
      PROVE  /\ store'[e] \in Object /\ store'[e].kind = store[e].kind
             /\ store'[e].fwd = store[e].fwd /\ Len(store'[e].fields) = Len(store[e].fields)
             /\ DOMAIN store'[e].fields = DOMAIN store[e].fields
             /\ \A i \in DOMAIN store[e].fields : Moves(store[e].fields[i], store'[e].fields[i])
             /\ IsWeak(e)' /\ store'[e].fields[1] # Null
             /\ store'[e].fields[1] \in ToPart \cup MarkedPart
  <2> PICK o, p, k, v : /\ o = store[e] /\ p = store'[e] /\ k = store[e].fields[1]
                        /\ v = KeyNow(k)
    OBVIOUS
  <2>1. IsWeak(e) /\ k # Null /\ KeyLives(k) /\ e \in DOMAIN store
    BY <1>5
  <2>2. 1 \in DOMAIN o.fields /\ Names(k, gfields[id[e]][1]) /\ o \in Object
    BY <1>1, <2>1, FieldNames DEF StoreInv
  <2>3. k \in DOMAIN store
    BY <2>1, <2>2 DEF Names
  <2>4. v \in ToPart \cup MarkedPart /\ v \in DOMAIN store /\ v \in Refs /\ id[v] = id[k]
    BY <2>1, <2>3, KeyMoves
  <2>5. p = [o EXCEPT !.fields = [o.fields EXCEPT ![1] = v]]
    <3>1. store'[e] = [store[e] EXCEPT !.fields[1] = KeyNow(store[e].fields[1])]
      OBVIOUS
    <3>2. QED
      BY <3>1
  <2>6. /\ p \in Object /\ p.kind = o.kind /\ p.fwd = o.fwd
        /\ Len(p.fields) = Len(o.fields) /\ DOMAIN p.fields = DOMAIN o.fields
        /\ p.fields[1] = v
        /\ \A j \in DOMAIN o.fields : j # 1 => p.fields[j] = o.fields[j]
    <3>1. FieldChanged(o, 1, v, p)
      BY <2>2, <2>4, <2>5, FieldSet
    <3>2. QED
      BY <3>1 DEF FieldChanged
  <2>7. Moves(k, v)
    BY <1>2, <1>3, <2>3, <2>4 DEF Moves
  <2>8. \A i \in DOMAIN o.fields : Moves(o.fields[i], p.fields[i])
    BY <1>4, <2>6, <2>7
  <2>9. v # Null
    BY <1>1, <2>4, Parts
  <2>10. IsWeak(e)'
    BY <2>1, <2>6 DEF IsWeak
  <2>11. QED
    BY <2>4, <2>6, <2>8, <2>9, <2>10
<1>6. \A q \in DOMAIN store :
           /\ store'[q] \in Object /\ store'[q].kind = store[q].kind
           /\ store'[q].fwd = store[q].fwd /\ Len(store'[q].fields) = Len(store[q].fields)
           /\ DOMAIN store'[q].fields = DOMAIN store[q].fields
           /\ \A i \in DOMAIN store[q].fields : Moves(store[q].fields[i], store'[q].fields[i])
  BY <1>1, <1>4, <1>5 DEF StoreInv
<1>7. roots' \in [Slots -> Refs] /\ \A s \in Slots : Moves(roots[s], roots'[s])
  BY <1>1, <1>4 DEF GraphInv
<1>8. \A e \in W : Safe(store[e].fields[1])'
  BY <1>3, <1>5 DEF Safe
<1>9. QED
  BY <1>5, <1>6, <1>7, <1>8, QuietStep

LEMMA ScanPendingInv ==
  ASSUME Inv, ScanPending
  PROVE  Inv'
<1> PICK live : live = {e \in pending : KeyLives(store[e].fields[1])}
  OBVIOUS
<1>1. /\ pc = "trace" /\ pc' = "trace" /\ todo = <<>> /\ check' /\ check' \in BOOLEAN
      /\ pending' = pending \ live /\ resolved' = SetToSeq(live) \o resolved
      /\ todo' = todo /\ grey' = grey
      /\ UNCHANGED layoutVars /\ UNCHANGED <<los, roots, unstolen, want, historyVars>>
  BY DEF ScanPending, Closed
<1>2. store' = [e \in DOMAIN store |->
                 IF e \in live THEN [store[e] EXCEPT !.fields[1] = KeyNow(store[e].fields[1])]
                 ELSE store[e]]
  BY DEF ScanPending
<1>3. LayoutInv /\ StoreInv /\ GraphInv /\ TraceInv
  BY DEF Inv
<1>4. live \in SUBSET DOMAIN store /\ IsFiniteSet(live)
  BY <1>1, PendingFinite, FS_Subset
<1>5. \A e \in live : IsWeak(e) /\ store[e].fields[1] # Null /\ KeyLives(store[e].fields[1])
  BY <1>1, <1>3 DEF TraceInv
<1>6. /\ DOMAIN store' = DOMAIN store
      /\ \A e \in live :
           store'[e] = [store[e] EXCEPT !.fields[1] = KeyNow(store[e].fields[1])]
      /\ \A q \in DOMAIN store \ live : store'[q] = store[q]
  BY <1>2, <1>4
<1>7. /\ MovesOn /\ (TraceInv' => Inv')
      /\ ToPart' = ToPart /\ FromPart' = FromPart /\ MarkedPart' = MarkedPart
      /\ \A q \in FromPart' : store'[q].fwd # Null =>
              store'[q].fwd \in ToPart' /\ id'[store'[q].fwd] = id'[q]
      /\ \A q \in ToPart' : \E p \in FromPart' : store'[p].fwd = q
      /\ \A k \in DOMAIN store : KeyLives(k)' <=> KeyLives(k)
      /\ \A e \in live : /\ IsWeak(e)' /\ store'[e].fields[1] # Null
                         /\ Safe(store[e].fields[1])'
  <2> HIDE <1>2
  <2>1. QED
    BY <1>1, <1>4, <1>5, <1>6, KeysSet
<1>8. Scanned' = Scanned /\ hp' = hp
  BY <1>1, <1>7 DEF Scanned, layoutVars
<1>9. /\ resolved' \in Seq(DOMAIN store')
      /\ \A e \in live : Resolved(e)'
      /\ \A e : Resolved(e) => Resolved(e)'
      /\ \A i \in DOMAIN resolved' : Resolved(resolved'[i]) \/ resolved'[i] \in live
  BY <1>1, <1>3, <1>4, <1>6, ResolvedMore
<1>10. \A e \in pending' :
            /\ e \in pending
            /\ check' => ~KeyLives(store[e].fields[1])'
  <2>1. TAKE e \in pending'
  <2>2. PICK k : k = store[e].fields[1]
    OBVIOUS
  <2>3. e \in pending /\ e \in DOMAIN store /\ e \notin live /\ k \in DOMAIN store
    BY <1>1, <2>2, PendingKey
  <2>4. ~KeyLives(k)
    BY <2>2, <2>3
  <2>5. store'[e].fields[1] = k /\ ~KeyLives(k)'
    BY <1>6, <1>7, <2>2, <2>3, <2>4
  <2>6. ~KeyLives(k)' => ~KeyLives(store[e].fields[1])'
    BY <2>5 DEF KeyLives, InFrom
  <2>7. QED
    BY <2>3, <2>5, <2>6
<1>11. /\ grey' \in Nat /\ grey' <= hp' /\ pending' \subseteq DOMAIN store'
       /\ todo' \in Seq(Range(todo'))
  <2>1. todo' = todo /\ grey' = grey /\ pending' \subseteq pending
    BY <1>1
  <2>2. QED
    BY <1>1, <1>3, <1>6, <1>8, <2>1 DEF TraceInv
<1>12. \A i \in DOMAIN todo' : FALSE
  BY <1>1
<1>13. \A edge : ~Scheduled(edge)
  BY <1>1 DEF Scheduled
<1>14. pending \ pending' = live /\ Scanned' \ Scanned = {}
  BY <1>1, <1>8
<1>15. TraceInv'
  BY <1>1, <1>7, <1>8, <1>9, <1>10, <1>11, <1>12, <1>13, <1>14, TraceMoves
<1>16. QED
  BY <1>7, <1>15
LEMMA ScanEphemeronInv ==
  ASSUME Inv, ScanEphemeron
  PROVE  Inv'
<1> PICK e, k, waits : /\ e = <<to, grey>> /\ k = store[e].fields[1]
                       /\ waits \in BOOLEAN /\ (waits <=> k # Null /\ ~KeyLives(k))
  <2>1. PICK e, k : e = <<to, grey>> /\ k = store[e].fields[1]
    OBVIOUS
  <2>2. (k # Null /\ ~KeyLives(k)) \in BOOLEAN
    OBVIOUS
  <2>3. QED
    BY <2>1, <2>2
<1>1. /\ pc = "trace" /\ pc' = "trace" /\ todo = <<>> /\ grey < hp /\ IsWeak(e)
      /\ grey' = grey + 1 /\ resolved' = resolved
      /\ UNCHANGED layoutVars /\ UNCHANGED <<los, roots, unstolen, want, historyVars>>
  BY DEF ScanEphemeron, IsWeak
<1>2. /\ store' = IF k = Null \/ waits THEN store ELSE [store EXCEPT ![e].fields[1] = KeyNow(k)]
      /\ pending' = IF waits THEN pending \cup {e} ELSE pending
      /\ todo' = IF k = Null \/ waits THEN <<>> ELSE <<Edge(e, 2)>>
  BY DEF ScanEphemeron
<1>3. check' = check
  BY DEF ScanEphemeron
<1>4. LayoutInv /\ StoreInv /\ GraphInv /\ TraceInv
  BY DEF Inv
<1>5. /\ to' = to /\ hp' = hp
  BY <1>1 DEF layoutVars
<1>6. e \in DOMAIN store /\ e # Null /\ e \notin Scanned
  <2>1. e \in ToPart
    <3>1. ToPart = {<<to, i>> : i \in 0 .. hp - 1} /\ grey \in 0 .. hp - 1
      BY <1>1, <1>4 DEF StoreInv, TraceInv, LayoutInv
    <3>2. QED
      BY <3>1
  <2>2. e \in DOMAIN store /\ e # Null /\ e \notin LargePart
    BY <1>4, <2>1, Parts, ScannedFacts
  <2>3. ~(e[2] < grey)
    BY <1>4 DEF TraceInv
  <2>4. QED
    BY <1>4, <2>2, <2>3, ScannedFacts DEF Scanned
<1>7. e \notin pending
  BY <1>1, <1>6, PendingKey
<1>8. \A edge : ~Scheduled(edge)
  BY <1>1 DEF Scheduled
<1>9. \A x : Resolved(x) <=> Resolved(x)'
  BY <1>1 DEF Resolved
<1>10. \A i \in DOMAIN resolved' : Resolved(resolved'[i])
  BY <1>1 DEF Resolved
<1>11. check' \in BOOLEAN
  <2>1. check \in BOOLEAN
    BY <1>4 DEF TraceInv
  <2>2. QED
    BY <1>3, <2>1
<1>12. 1 \in DOMAIN store[e].fields /\ 2 \in DOMAIN store[e].fields
  BY <1>1, <1>4, <1>6, FieldNames
<1>13. k # Null => k \in DOMAIN store
  BY <1>1, <1>4, <1>6, <1>12, FieldNames DEF Names
<1>14. CASE k = Null \/ waits
  <2>1. store' = store /\ todo' = <<>>
    BY <1>2, <1>14
  <2>2. /\ MovesOn /\ (TraceInv' => Inv')
        /\ ToPart' = ToPart /\ FromPart' = FromPart /\ MarkedPart' = MarkedPart
        /\ \A q \in FromPart' : store'[q].fwd # Null =>
                store'[q].fwd \in ToPart' /\ id'[store'[q].fwd] = id'[q]
        /\ \A q \in ToPart' : \E p \in FromPart' : store'[p].fwd = q
        /\ \A x \in DOMAIN store : KeyLives(x)' <=> KeyLives(x)
    BY <1>1, <2>1, StillStep
  <2>3. Scanned' = Scanned \cup {e} /\ grey' \in Nat /\ grey' <= hp'
    BY <1>1, <1>5, <2>2, Finger
  <2>4. pending' \subseteq pending \cup {e} /\ pending \subseteq pending'
          /\ (e \in pending' => waits) /\ (waits => e \in pending')
    BY <1>2, <1>7
  <2>5. FieldsDone(e)'
    <3>1. IsWeak(e)' /\ store'[e].fields[1] = k
      BY <1>1, <2>1 DEF IsWeak
    <3>2. QED
      BY <1>14, <2>4, <3>1 DEF FieldsDone
  <2>6. \A x \in pending' :
            /\ x \in pending \/ (x \in Scanned' /\ IsWeak(x)' /\ store'[x].fields[1] # Null)
            /\ check' => ~KeyLives(store[x].fields[1])'
    <3>1. TAKE x \in pending'
    <3>2. PICK y : y = store[x].fields[1]
      OBVIOUS
    <3>3. x \in pending => y \in DOMAIN store /\ (check => ~KeyLives(y))
      BY <1>1, <3>2, PendingKey
    <3>4. x = e => /\ x \in Scanned' /\ IsWeak(x)' /\ store'[x].fields[1] # Null
                   /\ y \in DOMAIN store /\ ~KeyLives(y)
      BY <1>1, <1>13, <2>1, <2>3, <2>4, <3>2 DEF IsWeak
    <3>5. store'[x].fields[1] = y /\ (check => ~KeyLives(y)') /\ (x \in pending \/ x = e)
      BY <2>1, <2>2, <2>4, <3>2, <3>3, <3>4
    <3>6. ~KeyLives(y)' => ~KeyLives(store[x].fields[1])'
      BY <3>5 DEF KeyLives, InFrom
    <3>7. QED
      BY <1>3, <3>4, <3>5, <3>6
  <2>7. /\ pending' \subseteq DOMAIN store' /\ resolved' \in Seq(DOMAIN store')
        /\ todo' \in Seq(Range(todo'))
    <3>1. pending \subseteq DOMAIN store /\ resolved \in Seq(DOMAIN store)
      BY <1>4 DEF TraceInv
    <3>2. QED
      BY <1>1, <1>6, <2>1, <2>4, <3>1
  <2>8. \A i \in DOMAIN todo' : FALSE
    BY <2>1
  <2>9. pending \ pending' = {} /\ Scanned' \ Scanned = {e} /\ Scanned \subseteq Scanned'
    BY <1>6, <2>3, <2>4
  <2>10. TraceInv'
    BY <1>1, <1>8, <1>9, <1>10, <1>11, <2>2, <2>3, <2>5, <2>6, <2>7, <2>8, <2>9, TraceMoves
  <2>11. QED
    BY <2>2, <2>10
<1>15. CASE k # Null /\ ~waits
  <2>1. KeyLives(k) /\ k # Null
    BY <1>15
  <2>2. store' = [store EXCEPT ![e].fields[1] = KeyNow(k)] /\ todo' = <<Edge(e, 2)>>
          /\ pending' = pending
    BY <1>2, <1>15
  <2>3. /\ DOMAIN store' = DOMAIN store
        /\ \A q \in {e} :
             store'[q] = [store[q] EXCEPT !.fields[1] = KeyNow(store[q].fields[1])]
        /\ \A q \in DOMAIN store \ {e} : store'[q] = store[q]
    BY <1>6, <2>2
  <2>4. {e} \in SUBSET DOMAIN store
    BY <1>6
  <2>5. \A q \in {e} : IsWeak(q) /\ store[q].fields[1] # Null /\ KeyLives(store[q].fields[1])
    BY <1>1, <2>1
  <2>6. /\ MovesOn /\ (TraceInv' => Inv')
        /\ ToPart' = ToPart /\ FromPart' = FromPart /\ MarkedPart' = MarkedPart
        /\ \A q \in FromPart' : store'[q].fwd # Null =>
                store'[q].fwd \in ToPart' /\ id'[store'[q].fwd] = id'[q]
        /\ \A q \in ToPart' : \E p \in FromPart' : store'[p].fwd = q
        /\ \A x \in DOMAIN store : KeyLives(x)' <=> KeyLives(x)
        /\ IsWeak(e)' /\ store'[e].fields[1] # Null /\ Safe(store[e].fields[1])'
    <3> PICK W : W = {e}
      OBVIOUS
    <3>1. /\ W \in SUBSET DOMAIN store
          /\ \A q \in W : IsWeak(q) /\ store[q].fields[1] # Null /\ KeyLives(store[q].fields[1])
          /\ \A q \in W :
               store'[q] = [store[q] EXCEPT !.fields[1] = KeyNow(store[q].fields[1])]
          /\ \A q \in DOMAIN store \ W : store'[q] = store[q]
      BY <2>3, <2>4, <2>5
    <3>2. /\ MovesOn /\ (TraceInv' => Inv')
          /\ ToPart' = ToPart /\ FromPart' = FromPart /\ MarkedPart' = MarkedPart
          /\ \A q \in FromPart' : store'[q].fwd # Null =>
                  store'[q].fwd \in ToPart' /\ id'[store'[q].fwd] = id'[q]
          /\ \A q \in ToPart' : \E p \in FromPart' : store'[p].fwd = q
          /\ \A x \in DOMAIN store : KeyLives(x)' <=> KeyLives(x)
          /\ \A q \in W : /\ IsWeak(q)' /\ store'[q].fields[1] # Null
                          /\ Safe(store[q].fields[1])'
      BY <1>1, <2>3, <3>1, KeysSet
    <3>3. IsWeak(e)' /\ store'[e].fields[1] # Null /\ Safe(store[e].fields[1])'
      BY <3>2 DEF IsWeak, Safe
    <3>4. QED
      BY <3>2, <3>3
  <2>7. Scanned' = Scanned \cup {e} /\ grey' \in Nat /\ grey' <= hp'
    BY <1>1, <1>5, <2>6, Finger
  <2>8. todo' \in Seq(Range(todo')) /\ DOMAIN todo' = {1} /\ todo'[1] = Edge(e, 2)
    <3> PICK x, t : x = Edge(e, 2) /\ t = <<x>>
      OBVIOUS
    <3>1. t \in Seq({x}) /\ DOMAIN t = {1} /\ t[1] = x
      OBVIOUS
    <3>2. t \in Seq(Range(t))
      BY <3>1, SeqRange
    <3>3. QED
      BY <2>2, <3>1, <3>2
  <2>9. DOMAIN store'[e].fields = DOMAIN store[e].fields /\ IsWeak(e)'
          /\ store'[e].fields[1] # Null /\ Safe(store[e].fields[1])'
    BY <1>6, <2>6 DEF MovesOn
  <2>10. GoodEdge(Edge(e, 2))' /\ Scheduled(Edge(e, 2))'
    <3>1. PICK edge : edge = Edge(e, 2)
      OBVIOUS
    <3>2. e \in Scanned' /\ edge = Edge(e, 2)' /\ 2 \in DOMAIN store'[e].fields
      BY <1>12, <2>7, <2>9, <3>1 DEF Edge
    <3>3. GoodEdge(edge)'
      BY <2>9, <3>2 DEF GoodEdge
    <3>4. Scheduled(edge)'
      BY <2>8, <3>1 DEF Scheduled
    <3>5. QED
      BY <3>1, <3>3, <3>4 DEF GoodEdge, Scheduled, Edge, RootEdge
  <2>11. FieldsDone(e)'
    BY <2>9, <2>10 DEF FieldsDone
  <2>12. \A x \in pending' :
            /\ x \in pending
            /\ check' => ~KeyLives(store[x].fields[1])'
    <3>1. TAKE x \in pending'
    <3>2. PICK y : y = store[x].fields[1]
      OBVIOUS
    <3>3. x \in pending /\ x \in DOMAIN store /\ y \in DOMAIN store /\ (check => ~KeyLives(y))
      BY <1>1, <2>2, <3>2, PendingKey
    <3>4. x # e
      BY <1>7, <3>3
    <3>5. store'[x].fields[1] = y /\ (check => ~KeyLives(y)')
      BY <2>3, <2>6, <3>2, <3>3, <3>4
    <3>6. ~KeyLives(y)' => ~KeyLives(store[x].fields[1])'
      BY <3>5 DEF KeyLives, InFrom
    <3>7. QED
      BY <1>3, <3>3, <3>5, <3>6
  <2>13. \A i \in DOMAIN todo' : GoodEdge(todo[i])'
    BY <2>8, <2>10 DEF GoodEdge, Edge, RootEdge
  <2>14. /\ pending' \subseteq DOMAIN store' /\ resolved' \in Seq(DOMAIN store')
    BY <1>1, <1>4, <2>2, <2>3 DEF TraceInv
  <2>15. pending \ pending' = {} /\ Scanned' \ Scanned = {e} /\ Scanned \subseteq Scanned'
    BY <1>6, <2>2, <2>7
  <2>16. TraceInv'
    BY <1>1, <1>8, <1>9, <1>10, <1>11, <2>6, <2>7, <2>8, <2>11, <2>12, <2>13, <2>14, <2>15, TraceMoves
  <2>17. QED
    BY <2>6, <2>16
<1>16. QED
  BY <1>14, <1>15
LEMMA WaitingFacts ==
  ASSUME Inv, pc = "trace", NEW r, NEW W, W = WaitingFor(r),
         pending' = pending \ WaitingFor(r), resolved' = SetToSeq(WaitingFor(r)) \o resolved,
         DOMAIN store \subseteq DOMAIN store'
  PROVE  /\ W \in SUBSET DOMAIN store /\ W \subseteq pending /\ pending \ pending' = W
         /\ pending' \subseteq pending
         /\ \A e \in W : IsWeak(e) /\ store[e].fields[1] = r /\ e \in Scanned
         /\ check => \A e \in pending : store[e].fields[1] = r => e \in W
         /\ resolved' \in Seq(DOMAIN store')
         /\ \A e \in W : Resolved(e)'
         /\ \A e : Resolved(e) => Resolved(e)'
         /\ \A i \in DOMAIN resolved' : Resolved(resolved'[i]) \/ resolved'[i] \in pending \ pending'
<1>1. W \subseteq pending /\ \A e \in W : store[e].fields[1] = r
  BY DEF WaitingFor
<1>2. check => \A e \in pending : store[e].fields[1] = r => e \in W
  BY DEF WaitingFor
<1>3. TraceInv
  BY DEF Inv
<1>4. \A e \in W : IsWeak(e) /\ e \in Scanned
  BY <1>1, <1>3 DEF TraceInv
<1>5. W \in SUBSET DOMAIN store /\ IsFiniteSet(W)
  BY <1>1, PendingFinite, FS_Subset
<1>6. pending \ pending' = W /\ pending' \subseteq pending
  BY <1>1
<1>7. /\ resolved' \in Seq(DOMAIN store')
      /\ \A e \in W : Resolved(e)'
      /\ \A e : Resolved(e) => Resolved(e)'
      /\ \A i \in DOMAIN resolved' : Resolved(resolved'[i]) \/ resolved'[i] \in W
  BY <1>3, <1>5, ResolvedMore
<1>8. QED
  BY <1>1, <1>2, <1>4, <1>5, <1>6, <1>7

LEMMA VisitLargeInv ==
  ASSUME Inv, VisitLarge
  PROVE  Inv'
<1> PICK edge, r, a, W : /\ edge = Head(todo) /\ r = Ref(edge) /\ a = r[2]
                         /\ W = WaitingFor(r)
  OBVIOUS
<1>1. /\ pc = "trace" /\ pc' = "trace" /\ todo # <<>>
      /\ r[1] = "los" /\ ~LosIsMarked(los, a)
      /\ los' = LosMark(los, a)
      /\ pending' = pending \ WaitingFor(r) /\ resolved' = SetToSeq(WaitingFor(r)) \o resolved
      /\ todo' = EdgesOf(r) \o Tail(todo)
      /\ UNCHANGED layoutVars
      /\ UNCHANGED <<store, roots, grey, unstolen, want, historyVars>>
  BY DEF VisitLarge, ResolvePending
<1>2. check' = check
  BY DEF VisitLarge
<1>3. LosInv /\ LayoutInv /\ StoreInv /\ GraphInv /\ TraceInv
  BY DEF Inv
<1>4. GoodEdge(edge)
  <2>1. \A i \in DOMAIN todo : GoodEdge(todo[i])
    BY <1>1, <1>3 DEF TraceInv
  <2>2. todo \in Seq(Range(todo))
    BY <1>3 DEF TraceInv
  <2>3. 1 \in DOMAIN todo /\ edge = todo[1]
    BY <1>1, <2>2
  <2>4. QED
    BY <2>1, <2>3
<1>5. r \in DOMAIN store /\ id[r] \in LiveNames
  <2>1. r # Null
    BY <1>1 DEF Null
  <2>2. QED
    BY <1>1, <1>4, <2>1, EdgeFacts
<1>6. r \in LargePart /\ a \in LiveNodes(los) /\ r = <<"los", a>> /\ ~IsWeak(r)
  <2>1. r \in LargePart
    BY <1>1, <1>5 DEF LargePart
  <2>2. QED
    BY <1>3, <2>1 DEF StoreInv
<1>7. /\ LosOk(los') /\ LiveNodes(los') = LiveNodes(los)
      /\ MarkedNodes(los') = MarkedNodes(los) \cup {a}
      /\ PagesOf(los', LiveNodes(los')) = PagesOf(los, LiveNodes(los))
      /\ los'.liveAtLast = PagesOf(los', MarkedNodes(los'))
      /\ \A b \in LiveNodes(los) : LosIsMarked(los', b) <=> LosIsMarked(los, b) \/ b = a
  BY <1>1, <1>3, <1>6, LosMarkFacts DEF LosInv
<1>8. /\ to' = to /\ hp' = hp /\ active' = active /\ stolen' = stolen /\ from' = from
      /\ id' = id /\ groots' = groots /\ gfields' = gfields
  BY <1>1 DEF layoutVars, historyVars, from, OtherRegion
<1>9. /\ ToPart' = ToPart /\ FromPart' = FromPart /\ LargePart' = LargePart
  BY <1>1, <1>8 DEF ToPart, FromPart, LargePart
<1>10. \A q \in LargePart : LosIsMarked(los', q[2]) <=> LosIsMarked(los, q[2]) \/ q = r
  <2>1. TAKE q \in LargePart
  <2>2. PICK b \in LiveNodes(los) : q = <<"los", b>>
    BY <1>3 DEF StoreInv
  <2>3. q[2] = b /\ (q = r <=> b = a)
    BY <1>6, <2>2
  <2>4. QED
    BY <1>7, <2>3
<1>11. MarkedPart' = MarkedPart \cup {r} /\ r \notin MarkedPart
  BY <1>1, <1>6, <1>9, <1>10 DEF MarkedPart
<1>12. Scanned' = Scanned \cup {r} /\ Scanned' \ Scanned \subseteq {r}
  BY <1>1, <1>9, <1>11 DEF Scanned
<1>13. MovesOn
  <2>1. \A f : Moves(f, f)
    BY DEF Moves
  <2>2. QED
    BY <1>1, <1>3, <1>8, <1>9, <1>11, <2>1 DEF MovesOn, StoreInv
<1>14. LosInv'
  BY <1>1, <1>3, <1>7, <1>8 DEF LosInv
<1>15. StoreInv'
  <2>1. \A q \in DOMAIN store : IsWeak(q)' <=> IsWeak(q)
    BY <1>1 DEF IsWeak
  <2>2. LargePart \subseteq DOMAIN store
    BY DEF LargePart
  <2>3. QED
    BY <1>1, <1>3, <1>7, <1>8, <1>9, <2>1, <2>2 DEF StoreInv
<1>16. GraphInv' /\ StoreNames' = StoreNames
  <2>1. NamedOnce(ToPart \cup LargePart)' /\ NamedOnce(FromPart \cup LargePart)'
    BY <1>3, <1>8, <1>9 DEF GraphInv, NamedOnce
  <2>2. id' \in [DOMAIN store' -> ObjectNames] /\ roots' \in [Slots -> Refs]
    BY <1>1, <1>3, <1>8 DEF GraphInv
  <2>3. \A q \in DOMAIN store' \ DOMAIN store : FALSE
    BY <1>1
  <2>4. QED
    BY <1>3, <1>8, <1>13, <2>1, <2>2, <2>3, GraphMoves
<1>17. /\ W \in SUBSET DOMAIN store /\ W \subseteq pending /\ pending \ pending' = W
       /\ pending' \subseteq pending
       /\ \A e \in W : IsWeak(e) /\ store[e].fields[1] = r /\ e \in Scanned
       /\ check => \A e \in pending : store[e].fields[1] = r => e \in W
       /\ resolved' \in Seq(DOMAIN store')
       /\ \A e \in W : Resolved(e)'
       /\ \A e : Resolved(e) => Resolved(e)'
       /\ \A i \in DOMAIN resolved' : Resolved(resolved'[i]) \/ resolved'[i] \in pending \ pending'
  <2>1. DOMAIN store \subseteq DOMAIN store'
    BY <1>1
  <2>2. QED
    BY <1>1, <2>1, WaitingFacts
<1>18. /\ todo' \in Seq(Range(todo'))
       /\ \A i \in DOMAIN todo' : Scheduled(todo'[i]) \/ todo'[i] = Edge(r, 1)
       /\ \A x : Scheduled(x) => Scheduled(x)' \/ x = edge
       /\ Scheduled(Edge(r, 1))'
  <2> PICK p, q, h, u, t, S, T :
         /\ p = EdgesOf(r) /\ q = todo /\ h = Head(todo) /\ u = Tail(todo) /\ t = todo'
         /\ S = Range(todo) /\ T = S \cup Range(p)
    OBVIOUS
  <2>1. p \in Seq(Range(p)) /\ DOMAIN p = {1} /\ p[1] = Edge(r, 1)
    BY <1>3, <1>5, <1>6, EdgesOfFacts, FieldNames
  <2>2. Shorter(S, q, h, u)
    <3>1. q \in Seq(S) /\ q # <<>> /\ u = Tail(q) /\ h = Head(q)
      BY <1>1, <1>3 DEF TraceInv
    <3>2. QED
      BY <3>1, TailFacts
  <2>3. p \in Seq(T) /\ u \in Seq(T) /\ t = p \o u
    <3>1. u \in Seq(S)
      BY <2>2 DEF Shorter
    <3>2. Range(p) \in SUBSET T /\ S \in SUBSET T
      OBVIOUS
    <3>3. QED
      BY <1>1, <2>1, <3>1, <3>2, SeqWider
  <2>4. Joined(T, p, u, t)
    BY <2>3, ConcatFacts
  <2>5. t \in Seq(Range(t))
    <3>1. t \in Seq(T)
      BY <2>4 DEF Joined
    <3>2. QED
      BY <3>1, SeqRange
  <2>6. \A i \in DOMAIN t : (\E j \in DOMAIN q : t[i] = q[j]) \/ t[i] = Edge(r, 1)
    <3>1. TAKE i \in DOMAIN t
    <3>2. (\E j \in DOMAIN p : t[i] = p[j]) \/ (\E j \in DOMAIN u : t[i] = u[j])
      BY <2>4 DEF Joined
    <3>3. CASE \E j \in DOMAIN p : t[i] = p[j]
      BY <2>1, <3>3
    <3>4. ASSUME NEW j \in DOMAIN u, t[i] = u[j] PROVE \E k \in DOMAIN q : t[i] = q[k]
      BY <2>2, <3>4 DEF Shorter
    <3>5. QED
      BY <3>2, <3>3, <3>4
  <2>7. \A j \in DOMAIN q : q[j] = edge \/ \E i \in DOMAIN t : t[i] = q[j]
    <3>1. TAKE j \in DOMAIN q
    <3>2. q[j] = h \/ \E i \in DOMAIN u : u[i] = q[j]
      BY <2>2 DEF Shorter
    <3>3. ASSUME NEW i \in DOMAIN u, u[i] = q[j] PROVE \E k \in DOMAIN t : t[k] = q[j]
      <4>1. PICK k \in DOMAIN t : t[k] = u[i]
        BY <2>4 DEF Joined
      <4>2. QED
        BY <3>3, <4>1
    <3>4. QED
      BY <3>2, <3>3
  <2>8. \E i \in DOMAIN t : t[i] = Edge(r, 1)
    <3>1. PICK i \in DOMAIN t : t[i] = p[1]
      BY <2>1, <2>4 DEF Joined
    <3>2. QED
      BY <2>1, <3>1
  <2>9. \A i \in DOMAIN t : Scheduled(t[i]) \/ t[i] = Edge(r, 1)
    BY <2>6 DEF Scheduled
  <2>10. \A x : Scheduled(x) => Scheduled(x)' \/ x = edge
    BY <2>7 DEF Scheduled
  <2>11. Scheduled(Edge(r, 1))'
    BY <2>8 DEF Scheduled, Edge
  <2>12. QED
    BY <2>5, <2>9, <2>10, <2>11
<1>19. GoodEdge(Edge(r, 1))' /\ FieldsDone(r)'
  <2>1. PICK x : x = Edge(r, 1)
    OBVIOUS
  <2>2. r \in Scanned' /\ ~IsWeak(r)' /\ x = Edge(r, 1)' /\ 1 \in DOMAIN store'[r].fields
    BY <1>1, <1>3, <1>5, <1>6, <1>12, <2>1, FieldNames DEF IsWeak, Edge
  <2>3. GoodEdge(x)'
    BY <2>2 DEF GoodEdge
  <2>4. GoodEdge(Edge(r, 1))'
    BY <2>1, <2>3 DEF GoodEdge, Edge, RootEdge
  <2>5. FieldsDone(r)'
    BY <1>18, <2>2 DEF FieldsDone
  <2>6. QED
    BY <2>4, <2>5
<1>20. \A i \in DOMAIN todo' : Scheduled(todo'[i]) \/ GoodEdge(todo[i])'
  BY <1>18, <1>19 DEF GoodEdge, Edge, RootEdge
<1>21. Safe(Ref(edge))'
  BY <1>1, <1>11 DEF Safe, Ref
<1>22. ASSUME NEW e \in pending'
       PROVE  e \in pending /\ (check' => ~KeyLives(store[e].fields[1])')
  <2>1. PICK k : k = store[e].fields[1]
    OBVIOUS
  <2>2. e \in pending /\ k \in DOMAIN store /\ (check => ~KeyLives(k))
    BY <1>1, <1>17, <2>1, PendingKey
  <2>3. check => k # r
    BY <1>17, <2>1, <2>2
  <2>4. ASSUME k # r, ~KeyLives(k) PROVE ~KeyLives(k)'
    <3>1. InFrom(k)' <=> InFrom(k)
      BY <1>8 DEF InFrom
    <3>2. k[1] = "los" => (LosIsMarked(los', k[2]) <=> LosIsMarked(los, k[2]))
      BY <1>10, <2>2, <2>4 DEF LargePart
    <3>3. QED
      BY <1>1, <2>4, <3>1, <3>2 DEF KeyLives
  <2>5. ~KeyLives(k)' => ~KeyLives(store[e].fields[1])'
    BY <1>1, <2>1 DEF KeyLives, InFrom
  <2>6. QED
    BY <1>2, <2>2, <2>3, <2>4, <2>5
<1>23. \A e \in W : Safe(store[e].fields[1])'
  BY <1>1, <1>11, <1>17 DEF Safe
<1>24. /\ grey' \in Nat /\ grey' <= hp' /\ pending' \subseteq DOMAIN store'
  BY <1>1, <1>3, <1>8, <1>17 DEF TraceInv
<1>25. check' \in BOOLEAN
  <2>1. check \in BOOLEAN
    BY <1>3 DEF TraceInv
  <2>2. QED
    BY <1>2, <2>1
<1>26. /\ \A q \in FromPart' : store'[q].fwd # Null =>
            store'[q].fwd \in ToPart' /\ id'[store'[q].fwd] = id'[q]
       /\ \A q \in ToPart' : \E p \in FromPart' : store'[p].fwd = q
  BY <1>1, <1>3, <1>8, <1>9 DEF TraceInv
<1>27. \A x : Scheduled(x) => Scheduled(x)' \/ Safe(Ref(x))'
  BY <1>18, <1>21
<1>28. Scanned \subseteq Scanned' /\ \A q \in Scanned' \ Scanned : FieldsDone(q)'
  BY <1>12, <1>19
<1>29. \A e \in pending \ pending' : Resolved(e)' /\ Safe(store[e].fields[1])'
  BY <1>17, <1>23
<1>30. TraceInv'
  BY <1>1, <1>13, <1>17, <1>18, <1>20, <1>22, <1>24, <1>25, <1>26, <1>27, <1>28, <1>29, TraceMoves
<1>31. \A q \in ToPart' \cup MarkedPart' : q \in ToPart \cup MarkedPart \/ id'[q] \in LiveNames
  BY <1>5, <1>8, <1>9, <1>11
<1>32. hp' \in Nat
  BY <1>3, <1>8 DEF LayoutInv
<1>33. UNCHANGED <<to, limit, active, mapped, stolen, size, unstolen, want, groots, gfields>>
  BY <1>1 DEF layoutVars, historyVars
<1>34. QED
  BY <1>1, <1>9, <1>13, <1>14, <1>15, <1>16, <1>30, <1>31, <1>32, <1>33, TraceStepInv
\* p is o but that some of its references to r are now to r2.
Redirected(o, p, r, r2) ==
  /\ p \in Object /\ p.kind = o.kind
  /\ Len(p.fields) = Len(o.fields) /\ DOMAIN p.fields = DOMAIN o.fields
  /\ \A i \in DOMAIN o.fields :
       p.fields[i] = o.fields[i] \/ (o.fields[i] = r /\ p.fields[i] = r2)

\* The heap once the object at r is copied to r2 and the keys that are it have moved.
Copy(r, r2) == KeysMoved(With([store EXCEPT ![r].fwd = r2], r2, store[r]), r, r2)
Copied(r, r2, W, objects) ==
  /\ DOMAIN objects = DOMAIN store \cup {r2} /\ objects[r2] = store[r]
  /\ \A q \in DOMAIN store :
       /\ Redirected(store[q], objects[q], r, r2)
       /\ objects[q].fwd = (IF q = r THEN r2 ELSE store[q].fwd)
       /\ q \in W => objects[q].fields[1] = r2
       /\ IsWeak(q) /\ q \notin W => objects[q].fields[1] = store[q].fields[1]
EdgeTo(edge, r) ==
  \/ edge.at = Null /\ edge.slot \in Slots /\ r = roots[edge.slot]
  \/ /\ edge.at # Null /\ edge.at \in DOMAIN store \ FromPart
     /\ edge.slot \in DOMAIN store[edge.at].fields
     /\ r = store[edge.at].fields[edge.slot] /\ (IsWeak(edge.at) => edge.slot = 2)
RootsTo(r, r2) ==
  /\ roots' \in [Slots -> Refs]
  /\ \A s \in Slots : roots'[s] = roots[s] \/ (roots[s] = r /\ roots'[s] = r2)

LEMMA KeysMovedFacts ==
  ASSUME StoreInv, NEW r \in DOMAIN store, NEW r2 \in Refs \ DOMAIN store, NEW W, W = WaitingFor(r),
         \A e \in W : e \in DOMAIN store /\ e # r /\ IsWeak(e) /\ store[e].fields[1] = r,
         NEW objects, objects = Copy(r, r2)
  PROVE  Copied(r, r2, W, objects)
<1> PICK a, b : a = [store EXCEPT ![r].fwd = r2] /\ b = With(a, r2, store[r])
  OBVIOUS
<1>1. /\ DOMAIN a = DOMAIN store /\ a[r] = [store[r] EXCEPT !.fwd = r2]
      /\ \A q \in DOMAIN store : q # r => a[q] = store[q]
  OBVIOUS
<1>2. /\ DOMAIN b = DOMAIN store \cup {r2} /\ b[r2] = store[r]
      /\ \A q \in DOMAIN store : b[q] = a[q]
  BY <1>1 DEF With
<1>3. objects = [e \in DOMAIN b |-> IF e \in W THEN [b[e] EXCEPT !.fields[1] = r2] ELSE b[e]]
  BY DEF KeysMoved, Copy
<1>4. DOMAIN objects = DOMAIN store \cup {r2} /\ objects[r2] = store[r]
  BY <1>2, <1>3
<1>5. ASSUME NEW q \in DOMAIN store
      PROVE  /\ Redirected(store[q], objects[q], r, r2)
             /\ objects[q].fwd = (IF q = r THEN r2 ELSE store[q].fwd)
             /\ q \in W => objects[q].fields[1] = r2
             /\ IsWeak(q) /\ q \notin W => objects[q].fields[1] = store[q].fields[1]
  <2> PICK o, p : o = store[q] /\ p = objects[q]
    OBVIOUS
  <2>1. o \in Object /\ o.fields \in Seq(Refs) /\ Len(o.fields) = IF IsWeak(q) THEN 2 ELSE 1
    BY DEF StoreInv, Object
  <2>2. CASE q \in W
    <3>1. q # r /\ IsWeak(q) /\ o.fields[1] = r /\ b[q] = o
      BY <1>1, <1>2, <2>2
    <3>2. p = [o EXCEPT !.fields = [o.fields EXCEPT ![1] = r2]]
      <4>1. p = [b[q] EXCEPT !.fields[1] = r2]
        BY <1>2, <1>3, <2>2
      <4>2. QED
        BY <3>1, <4>1
    <3>3. 1 \in DOMAIN o.fields /\ r2 \in Refs
      BY <2>1, <3>1
    <3>4. /\ p \in Object /\ p.kind = o.kind /\ p.fwd = o.fwd
          /\ Len(p.fields) = Len(o.fields) /\ DOMAIN p.fields = DOMAIN o.fields
          /\ p.fields[1] = r2
          /\ \A j \in DOMAIN o.fields : j # 1 => p.fields[j] = o.fields[j]
      <4>1. o \in Object /\ 1 \in DOMAIN o.fields /\ r2 \in Refs
        BY <2>1, <3>3
      <4>2. FieldChanged(o, 1, r2, p)
        BY <3>2, <4>1, FieldSet
      <4>3. QED
        BY <4>2 DEF FieldChanged
    <3>5. \A i \in DOMAIN o.fields :
            p.fields[i] = o.fields[i] \/ (o.fields[i] = r /\ p.fields[i] = r2)
      BY <3>1, <3>4
    <3>6. Redirected(o, p, r, r2)
      BY <3>4, <3>5 DEF Redirected
    <3>7. /\ q \in W /\ q # r /\ Redirected(store[q], objects[q], r, r2)
          /\ objects[q].fwd = store[q].fwd /\ objects[q].fields[1] = r2
      BY <2>2, <3>1, <3>4, <3>6
    <3>8. QED
      BY ONLY <3>7
  <2>3. CASE q \notin W
    <3>1. p = a[q]
      <4>1. q \in DOMAIN b /\ b[q] = a[q]
        BY <1>2
      <4>2. p = b[q]
        BY <1>3, <2>3, <4>1
      <4>3. QED
        BY <4>1, <4>2
    <3>2. p = IF q = r THEN [o EXCEPT !.fwd = r2] ELSE o
      <4>1. a[r] = [store[r] EXCEPT !.fwd = r2]
        BY <1>1
      <4>2. q # r => a[q] = store[q]
        BY <1>1
      <4>3. QED
        BY <3>1, <4>1, <4>2
    <3>3. p \in Object /\ p.kind = o.kind /\ p.fields = o.fields
            /\ p.fwd = (IF q = r THEN r2 ELSE o.fwd)
      BY <2>1, <3>2 DEF Object
    <3>4. Redirected(o, p, r, r2)
      BY <3>3 DEF Redirected
    <3>5. QED
      BY <2>3, <3>3, <3>4
  <2>4. QED
    BY <2>2, <2>3
<1>6. QED
  BY <1>4, <1>5 DEF Copied

\* The same once the edge that led to it leads to the copy.
LEMMA CopyEdge ==
  ASSUME StoreInv, GraphInv, NEW r \in FromPart, NEW r2 \in Refs \ DOMAIN store, NEW W,
         \A e \in W : IsWeak(e), NEW objects, Copied(r, r2, W, objects),
         NEW edge, EdgeTo(edge, r), SetEdge(edge, r2, objects)
  PROVE  Copied(r, r2, W, store') /\ RootsTo(r, r2) /\ Ref(edge)' = r2
<1>0. /\ DOMAIN objects = DOMAIN store \cup {r2} /\ objects[r2] = store[r]
      /\ \A q \in DOMAIN store :
           /\ Redirected(store[q], objects[q], r, r2)
           /\ objects[q].fwd = (IF q = r THEN r2 ELSE store[q].fwd)
           /\ q \in W => objects[q].fields[1] = r2
           /\ IsWeak(q) /\ q \notin W => objects[q].fields[1] = store[q].fields[1]
  BY DEF Copied
<1>1. roots \in [Slots -> Refs] /\ r2 \in Refs /\ r2 \notin DOMAIN store
  BY DEF GraphInv
<1>2. CASE edge.at = Null
  <2>1. store' = objects /\ roots' = [roots EXCEPT ![edge.slot] = r2]
    BY <1>2 DEF SetEdge
  <2>2. edge.slot \in Slots /\ r = roots[edge.slot]
    BY <1>2 DEF EdgeTo
  <2>3. /\ roots' \in [Slots -> Refs] /\ roots'[edge.slot] = r2
        /\ \A s \in Slots : roots'[s] = roots[s] \/ (roots[s] = r /\ roots'[s] = r2)
    BY <1>1, <2>1, <2>2
  <2>4. Ref(edge)' = r2
    BY <1>2, <2>3 DEF Ref
  <2>5. QED
    BY <2>1, <2>3, <2>4 DEF RootsTo
<1>3. CASE edge.at # Null
  <2> PICK at, i, o, m : at = edge.at /\ i = edge.slot /\ o = store[at] /\ m = objects[at]
    OBVIOUS
  <2> PICK p : p = [m EXCEPT !.fields = [m.fields EXCEPT ![i] = r2]]
    OBVIOUS
  <2>1. /\ at \in DOMAIN store /\ at # r /\ at # r2
        /\ i \in DOMAIN o.fields /\ r = o.fields[i] /\ (IsWeak(at) => i = 2)
    BY <1>1, <1>3 DEF EdgeTo
  <2>2. Redirected(o, m, r, r2) /\ m.fwd = o.fwd
    BY <1>0, <2>1
  <2>3. /\ m \in Object /\ m.kind = o.kind /\ Len(m.fields) = Len(o.fields)
        /\ DOMAIN m.fields = DOMAIN o.fields
        /\ \A j \in DOMAIN o.fields :
             m.fields[j] = o.fields[j] \/ (o.fields[j] = r /\ m.fields[j] = r2)
    BY <2>2 DEF Redirected
  <2>4. /\ p \in Object /\ p.kind = m.kind /\ p.fwd = m.fwd
        /\ Len(p.fields) = Len(m.fields) /\ DOMAIN p.fields = DOMAIN m.fields
        /\ p.fields[i] = r2
        /\ \A j \in DOMAIN m.fields : j # i => p.fields[j] = m.fields[j]
    <3>1. i \in DOMAIN m.fields
      BY <2>1, <2>3
    <3>2. FieldChanged(m, i, r2, p)
      BY <1>1, <2>3, <3>1, FieldSet
    <3>3. QED
      BY <3>2 DEF FieldChanged
  <2>5. Redirected(o, p, r, r2) /\ p.fwd = o.fwd
    <3>1. ASSUME NEW j \in DOMAIN o.fields
          PROVE  p.fields[j] = o.fields[j] \/ (o.fields[j] = r /\ p.fields[j] = r2)
      <4>1. CASE j = i
        BY <2>1, <2>4, <4>1
      <4>2. CASE j # i
        BY <2>3, <2>4, <4>2
      <4>3. QED
        BY <4>1, <4>2
    <3>2. QED
      BY <2>2, <2>3, <2>4, <3>1 DEF Redirected
  <2>6. roots' = roots /\ store' = [objects EXCEPT ![at].fields[i] = r2]
    BY <1>3 DEF SetEdge
  <2>7. /\ DOMAIN store' = DOMAIN objects /\ store'[at] = p
        /\ \A q \in DOMAIN objects : q # at => store'[q] = objects[q]
    <3>1. at \in DOMAIN objects
      BY <1>0, <2>1
    <3>2. QED
      BY <2>6, <3>1
  <2>8. IsWeak(at) => 1 \in DOMAIN o.fields /\ p.fields[1] = m.fields[1]
    <3>1. SUFFICES ASSUME IsWeak(at) PROVE 1 \in DOMAIN o.fields /\ p.fields[1] = m.fields[1]
      OBVIOUS
    <3>2. i = 2 /\ 1 \in DOMAIN o.fields
      BY <2>1, <3>1, FieldNames
    <3>3. QED
      BY <2>3, <2>4, <3>2
  <2>9. ASSUME NEW q \in DOMAIN store
        PROVE  /\ Redirected(store[q], store'[q], r, r2)
               /\ store'[q].fwd = (IF q = r THEN r2 ELSE store[q].fwd)
               /\ q \in W => store'[q].fields[1] = r2
               /\ IsWeak(q) /\ q \notin W => store'[q].fields[1] = store[q].fields[1]
    <3>1. CASE q = at
      <4>1. store'[q] = p /\ store[q] = o
        BY <2>7, <3>1
      <4>2. at \in W => p.fields[1] = r2
        BY <1>0, <2>1, <2>8
      <4>3. IsWeak(at) /\ at \notin W => p.fields[1] = o.fields[1]
        BY <1>0, <2>1, <2>8
      <4>4. QED
        BY <2>1, <2>5, <3>1, <4>1, <4>2, <4>3
    <3>2. CASE q # at
      BY <1>0, <2>7, <3>2
    <3>3. QED
      BY <3>1, <3>2
  <2>10. store'[r2] = store[r] /\ DOMAIN store' = DOMAIN store \cup {r2}
    BY <1>0, <2>1, <2>7
  <2>11. Ref(edge)' = r2
    BY <1>3, <2>4, <2>7 DEF Ref
  <2>12. RootsTo(r, r2)
    BY <1>1, <2>6 DEF RootsTo
  <2>13. QED
    BY <2>9, <2>10, <2>11, <2>12 DEF Copied
<1>4. QED
  BY <1>2, <1>3

\* The heap after VisitCopy.
LEMMA CopyEffect ==
  ASSUME Inv, pc = "trace", NEW edge, GoodEdge(edge), NEW r, r = Ref(edge), r # Null, InFrom(r),
         NEW r2, r2 = <<to, hp>>, NEW W, W = WaitingFor(r), SetEdge(edge, r2, Copy(r, r2))
  PROVE  /\ r \in FromPart /\ r \in DOMAIN store /\ id[r] \in LiveNames
         /\ r2 \notin DOMAIN store /\ r2 \in HeapPlaces /\ r2[1] = to
         /\ Copied(r, r2, W, store') /\ RootsTo(r, r2) /\ Ref(edge)' = r2
<1>1. LayoutInv /\ StoreInv /\ GraphInv /\ TraceInv
  BY DEF Inv
<1>2. r \in DOMAIN store /\ r \in FromPart /\ id[r] \in LiveNames
  BY <1>1, EdgeFacts, ScannedFacts
<1>3. r2 \notin DOMAIN store /\ r2 \in HeapPlaces /\ r2 \in Refs /\ r2[1] = to
  <2>1. hp \in Nat /\ to \in Regions /\ ToPart = {<<to, i>> : i \in 0 .. hp - 1}
    BY <1>1 DEF LayoutInv, StoreInv
  <2>2. r2 \notin ToPart
    <3>1. \A i \in 0 .. hp - 1 : i # hp
      BY <2>1
    <3>2. QED
      BY <2>1, <3>1
  <2>3. r2 \notin DOMAIN store
    BY <2>2 DEF ToPart
  <2>4. QED
    BY <2>1, <2>3 DEF HeapPlaces, Refs
<1>4. \A e \in W : e \in DOMAIN store /\ e # r /\ IsWeak(e) /\ store[e].fields[1] = r
  BY <1>2, PendingKey DEF WaitingFor
<1> PICK objects : objects = Copy(r, r2)
  OBVIOUS
<1>5. Copied(r, r2, W, objects)
  BY <1>1, <1>2, <1>3, <1>4, KeysMovedFacts
<1>6. EdgeTo(edge, r)
  <2>1. \A x \in Scanned : x \notin FromPart
    BY <1>1, ScannedFacts, Parts
  <2>2. QED
    BY <2>1, EdgeFacts DEF EdgeTo
<1>7. Copied(r, r2, W, store') /\ RootsTo(r, r2) /\ Ref(edge)' = r2
  BY <1>1, <1>2, <1>3, <1>4, <1>5, <1>6, CopyEdge
<1>8. QED
  BY <1>2, <1>3, <1>7

LEMMA VisitCopyInv ==
  ASSUME Inv, VisitCopy
  PROVE  Inv'
<1> PICK edge, r, r2, W : /\ edge = Head(todo) /\ r = Ref(edge) /\ r2 = <<to, hp>>
                          /\ W = WaitingFor(r)
  OBVIOUS
<1>1. /\ pc = "trace" /\ pc' = "trace" /\ todo # <<>> /\ r # Null /\ InFrom(r)
      /\ store[r].fwd = Null /\ hp' = hp + 1
      /\ SetEdge(edge, r2, Copy(r, r2))
      /\ pending' = pending \ WaitingFor(r) /\ resolved' = SetToSeq(WaitingFor(r)) \o resolved
      /\ id' = With(id, r2, id[r]) /\ todo' = Tail(todo)
      /\ UNCHANGED <<to, limit, active, mapped, stolen, size, los, epoch, grey, want,
                     unstolen, groots, gfields>>
  BY DEF VisitCopy, ResolvePending, Copy
<1>2. check' = check
  BY DEF VisitCopy
<1>3. LosInv /\ LayoutInv /\ StoreInv /\ GraphInv /\ TraceInv
  BY DEF Inv
<1>4. /\ todo' \in Seq(Range(todo')) /\ Scheduled(edge)
      /\ \A i \in DOMAIN todo' : Scheduled(todo'[i])
      /\ \A x : Scheduled(x) => Scheduled(x)' \/ x = edge
  BY <1>1, <1>3, TodoTail
<1>5. GoodEdge(edge)
  BY <1>1, <1>3, <1>4 DEF TraceInv, Scheduled
<1>6. /\ r \in FromPart /\ r \in DOMAIN store /\ id[r] \in LiveNames
      /\ r2 \notin DOMAIN store /\ r2 \in HeapPlaces /\ r2[1] = to
      /\ DOMAIN store' = DOMAIN store \cup {r2} /\ store'[r2] = store[r]
      /\ \A q \in DOMAIN store :
              /\ Redirected(store[q], store'[q], r, r2)
              /\ store'[q].fwd = (IF q = r THEN r2 ELSE store[q].fwd)
              /\ q \in W => store'[q].fields[1] = r2
              /\ IsWeak(q) /\ q \notin W => store'[q].fields[1] = store[q].fields[1]
      /\ roots' \in [Slots -> Refs]
      /\ \A s \in Slots : roots'[s] = roots[s] \/ (roots[s] = r /\ roots'[s] = r2)
      /\ Ref(edge)' = r2
  <2>1. /\ r \in FromPart /\ r \in DOMAIN store /\ id[r] \in LiveNames
        /\ r2 \notin DOMAIN store /\ r2 \in HeapPlaces /\ r2[1] = to
        /\ Copied(r, r2, W, store') /\ RootsTo(r, r2) /\ Ref(edge)' = r2
    BY <1>1, <1>5, CopyEffect
  <2>2. QED
    BY <2>1 DEF Copied, RootsTo
<1>7. /\ to \in Regions /\ from \in Regions /\ from # to /\ to # "los" /\ from # "los"
      /\ ToPart \cap FromPart = {} /\ FromPart \cap LargePart = {} /\ ToPart \cap LargePart = {}
      /\ Null \notin HeapPlaces
  BY <1>3, Parts
<1>8. /\ to' = to /\ from' = from /\ active' = active /\ los' = los /\ grey' = grey
      /\ groots' = groots /\ gfields' = gfields /\ stolen' = stolen /\ hp \in Nat /\ hp' \in Nat
  BY <1>1, <1>3 DEF from, OtherRegion, LayoutInv
<1>9. /\ ToPart' = ToPart \cup {r2} /\ FromPart' = FromPart /\ LargePart' = LargePart
      /\ MarkedPart' = MarkedPart
  <2>1. ToPart' = ToPart \cup {r2} /\ FromPart' = FromPart /\ LargePart' = LargePart
    BY <1>6, <1>7, <1>8 DEF ToPart, FromPart, LargePart
  <2>2. QED
    BY <1>8, <2>1 DEF MarkedPart
<1>10. /\ DOMAIN id' = DOMAIN store' /\ id'[r2] = id[r] /\ id' \in [DOMAIN store' -> ObjectNames]
       /\ \A q \in DOMAIN store : id'[q] = id[q]
  <2>1. id \in [DOMAIN store -> ObjectNames]
    BY <1>3 DEF GraphInv
  <2>2. QED
    BY <1>1, <1>6, <2>1 DEF With
<1>11. Moves(r, r2) /\ \A f : Moves(f, f)
  BY <1>6, <1>9, <1>10 DEF Moves
<1>12. \A q \in DOMAIN store :
         /\ store'[q] \in Object /\ store'[q].kind = store[q].kind
         /\ DOMAIN store'[q].fields = DOMAIN store[q].fields
         /\ Len(store'[q].fields) = Len(store[q].fields)
         /\ \A i \in DOMAIN store[q].fields : Moves(store[q].fields[i], store'[q].fields[i])
  BY <1>6, <1>11 DEF Redirected
<1>13. MovesOn
  <2>1. \A s \in Slots : Moves(roots[s], roots'[s])
    BY <1>6, <1>11
  <2>2. DOMAIN store' \subseteq HeapPlaces
    BY <1>3, <1>6 DEF StoreInv
  <2>3. QED
    BY <1>6, <1>9, <1>10, <1>12, <2>1, <2>2 DEF MovesOn
<1>14. LosInv'
  BY <1>1, <1>3, <1>8 DEF LosInv
<1>15. StoreInv'
  <2>1. \A q \in DOMAIN store : IsWeak(q)' <=> IsWeak(q)
    BY <1>12 DEF IsWeak
  <2>2. \A q \in DOMAIN store' :
          store'[q] \in Object /\ Len(store'[q].fields) = IF IsWeak(q)' THEN 2 ELSE 1
    <3>1. store'[r2] \in Object /\ Len(store'[r2].fields) = IF IsWeak(r2)' THEN 2 ELSE 1
      BY <1>3, <1>6 DEF StoreInv, IsWeak
    <3>2. \A q \in DOMAIN store :
            store'[q] \in Object /\ Len(store'[q].fields) = IF IsWeak(q)' THEN 2 ELSE 1
      BY <1>3, <1>12, <2>1 DEF StoreInv
    <3>3. QED
      BY <1>6, <3>1, <3>2
  <2>3. ToPart' = {<<to, i>> : i \in 0 .. hp' - 1}
    <3>1. ToPart = {<<to, i>> : i \in 0 .. hp - 1}
      BY <1>3 DEF StoreInv
    <3>2. 0 .. hp' - 1 = (0 .. hp - 1) \cup {hp}
      BY <1>1, <1>8
    <3>3. QED
      BY <1>9, <3>1, <3>2
  <2>4. LargePart \subseteq DOMAIN store /\ ToPart \subseteq DOMAIN store
    BY DEF LargePart, ToPart
  <2>5. \A q \in LargePart : ~IsWeak(q)'
    BY <1>3, <2>1, <2>4 DEF StoreInv
  <2>6. \A q \in ToPart' \cup LargePart' : store'[q].fwd = Null
    <3>1. \A q \in ToPart \cup LargePart : store'[q].fwd = Null
      BY <1>3, <1>6, <1>7, <2>4 DEF StoreInv
    <3>2. QED
      BY <1>1, <1>6, <1>9, <3>1
  <2>7. \A q \in FromPart' : q[2] < active'[from']
    BY <1>3, <1>8, <1>9 DEF StoreInv
  <2>8. LargePart' = {<<"los", a>> : a \in LiveNodes(los')}
    BY <1>3, <1>8, <1>9 DEF StoreInv
  <2>9. DOMAIN store' \subseteq HeapPlaces
    BY <1>13 DEF MovesOn
  <2>10. QED
    BY <1>1, <1>8, <1>9, <2>2, <2>3, <2>5, <2>6, <2>7, <2>8, <2>9 DEF StoreInv
<1>16. GraphInv' /\ StoreNames' = StoreNames
  <2>1. ToPart \cup LargePart \subseteq DOMAIN store /\ FromPart \cup LargePart \subseteq DOMAIN store
    BY DEF ToPart, FromPart, LargePart
  <2>2. NamedOnce(FromPart \cup LargePart)'
    BY <1>3, <1>9, <1>10, <2>1 DEF GraphInv, NamedOnce
  <2>3. \A q \in ToPart \cup LargePart : id[q] # id[r]
    <3>1. TAKE q \in ToPart \cup LargePart
    <3>2. CASE q \in LargePart
      BY <1>3, <1>6, <1>7, <3>2 DEF GraphInv, NamedOnce
    <3>3. CASE q \in ToPart
      <4>1. PICK p \in FromPart : store[p].fwd = q
        BY <1>1, <1>3, <3>3 DEF TraceInv
      <4>2. q # Null /\ q \in DOMAIN store
        BY <1>3, <3>3, <1>7, <2>1 DEF StoreInv
      <4>3. id[q] = id[p] /\ p # r
        BY <1>1, <1>3, <4>1, <4>2 DEF TraceInv
      <4>4. QED
        BY <1>3, <1>6, <4>3 DEF GraphInv, NamedOnce
    <3>4. QED
      BY <3>2, <3>3
  <2>4. NamedOnce(ToPart \cup LargePart)'
    <3>1. NamedOnce(ToPart \cup LargePart)
      BY <1>3 DEF GraphInv
    <3>2. \A p, q \in ToPart' \cup LargePart' : id'[p] = id'[q] => p = q
      BY <1>9, <1>10, <2>1, <2>3, <3>1 DEF NamedOnce
    <3>3. QED
      BY <3>2 DEF NamedOnce
  <2>5. \A q \in DOMAIN store' \ DOMAIN store : \E p \in DOMAIN store :
           /\ id'[q] = id[p] /\ store'[q].kind = store[p].kind
           /\ store'[q].fields = store[p].fields
    BY <1>6, <1>10
  <2>6. QED
    BY <1>3, <1>6, <1>8, <1>10, <1>13, <2>2, <2>4, <2>5, GraphMoves
<1>17. /\ W \in SUBSET DOMAIN store /\ W \subseteq pending /\ pending \ pending' = W
       /\ pending' \subseteq pending
       /\ \A e \in W : IsWeak(e) /\ store[e].fields[1] = r /\ e \in Scanned
       /\ check => \A e \in pending : store[e].fields[1] = r => e \in W
       /\ resolved' \in Seq(DOMAIN store')
       /\ \A e \in W : Resolved(e)'
       /\ \A e : Resolved(e) => Resolved(e)'
       /\ \A i \in DOMAIN resolved' : Resolved(resolved'[i]) \/ resolved'[i] \in pending \ pending'
  <2>1. DOMAIN store \subseteq DOMAIN store'
    BY <1>6
  <2>2. QED
    BY <1>1, <2>1, WaitingFacts
<1>18. grey \in Nat /\ grey <= hp /\ r2[2] = hp
  BY <1>1, <1>3 DEF TraceInv
<1>19. Scanned' = Scanned
  <2>1. ~(r2[2] < grey)
    BY <1>8, <1>18
  <2>2. QED
    BY <1>8, <1>9, <2>1 DEF Scanned
<1>20. Safe(Ref(edge))'
  <2>1. Ref(edge)' = r2
    BY <1>6
  <2>2. QED
    BY <1>9, <2>1 DEF Safe
<1>21. ASSUME NEW e \in pending'
       PROVE  e \in pending /\ (check' => ~KeyLives(store[e].fields[1])')
  <2>1. PICK k : k = store[e].fields[1]
    OBVIOUS
  <2>2. /\ e \in pending /\ e \notin W /\ k \in DOMAIN store /\ (check => ~KeyLives(k))
        /\ e \in DOMAIN store /\ IsWeak(e)
    BY <1>1, <1>17, <2>1, PendingKey
  <2>3. check => k # r
    BY <1>17, <2>1, <2>2
  <2>4. ASSUME k # r, ~KeyLives(k) PROVE ~KeyLives(k)'
    <3>1. InFrom(k)' <=> InFrom(k)
      BY <1>8 DEF InFrom
    <3>2. store'[k].fwd = store[k].fwd
      BY <1>6, <2>2, <2>4
    <3>3. QED
      BY <1>8, <2>4, <3>1, <3>2 DEF KeyLives
  <2>5. store'[e].fields[1] = k
    BY <1>6, <2>1, <2>2
  <2>6. ~KeyLives(k)' => ~KeyLives(store[e].fields[1])'
    BY <2>5 DEF KeyLives, InFrom
  <2>7. QED
    BY <1>2, <2>2, <2>3, <2>4, <2>6
<1>22. \A e \in W : Safe(store[e].fields[1])'
  <2>1. TAKE e \in W
  <2>2. store'[e].fields[1] = r2
    BY <1>6, <1>17
  <2>3. QED
    BY <1>9, <2>2 DEF Safe
<1>23. /\ grey' \in Nat /\ grey' <= hp' /\ pending' \subseteq DOMAIN store'
  <2>1. pending' \subseteq DOMAIN store /\ DOMAIN store \subseteq DOMAIN store'
    BY <1>3, <1>6, <1>17 DEF TraceInv
  <2>2. QED
    BY <1>1, <1>8, <1>18, <2>1
<1>24. check' \in BOOLEAN
  <2>1. check \in BOOLEAN
    BY <1>3 DEF TraceInv
  <2>2. QED
    BY <1>2, <2>1
<1>25. /\ \A q \in FromPart' : store'[q].fwd # Null =>
            store'[q].fwd \in ToPart' /\ id'[store'[q].fwd] = id'[q]
       /\ \A q \in ToPart' : \E p \in FromPart' : store'[p].fwd = q
  <2>1. FromPart \subseteq DOMAIN store /\ ToPart \subseteq DOMAIN store
    BY DEF FromPart, ToPart
  <2>2. \A q \in FromPart : store[q].fwd # Null =>
            store[q].fwd \in ToPart /\ id[store[q].fwd] = id[q]
    BY <1>1, <1>3 DEF TraceInv
  <2>3. \A q \in ToPart : \E p \in FromPart : store[p].fwd = q
    BY <1>1, <1>3 DEF TraceInv
  <2>4. \A q \in FromPart : store'[q].fwd = (IF q = r THEN r2 ELSE store[q].fwd)
    BY <1>6, <2>1
  <2>5. ASSUME NEW q \in FromPart, store'[q].fwd # Null
        PROVE  store'[q].fwd \in ToPart' /\ id'[store'[q].fwd] = id'[q]
    BY <1>9, <1>10, <2>1, <2>2, <2>4, <2>5
  <2>6. ASSUME NEW q \in ToPart' PROVE \E p \in FromPart : store'[p].fwd = q
    <3>1. CASE q = r2
      BY <1>6, <2>4, <3>1
    <3>2. CASE q \in ToPart
      <4>1. PICK p \in FromPart : store[p].fwd = q
        BY <2>3, <3>2
      <4>2. p # r
        BY <1>1, <1>7, <2>1, <3>2, <4>1, <1>3 DEF StoreInv
      <4>3. QED
        BY <2>4, <4>1, <4>2
    <3>3. QED
      BY <1>9, <3>1, <3>2
  <2>7. QED
    BY <1>9, <2>5, <2>6
<1>26. \A x : Scheduled(x) => Scheduled(x)' \/ Safe(Ref(x))'
  BY <1>4, <1>20
<1>27. \A e \in pending \ pending' : Resolved(e)' /\ Safe(store[e].fields[1])'
  BY <1>17, <1>22
<1>28. Scanned \subseteq Scanned' /\ \A q \in Scanned' \ Scanned : FALSE
  BY <1>19
<1>29. TraceInv'
  BY <1>1, <1>4, <1>13, <1>17, <1>21, <1>23, <1>24, <1>25, <1>26, <1>27, <1>28, TraceMoves
<1>30. \A q \in ToPart' \cup MarkedPart' : q \in ToPart \cup MarkedPart \/ id'[q] \in LiveNames
  BY <1>6, <1>9, <1>10
<1>31. UNCHANGED <<to, limit, active, mapped, stolen, size, unstolen, want, groots, gfields>>
  BY <1>1
<1>32. QED
  BY <1>1, <1>8, <1>9, <1>13, <1>14, <1>15, <1>16, <1>29, <1>30, <1>31, TraceStepInv
(***************************************************************************)
(* The end of a collection                                                 *)
(***************************************************************************)
LEMMA MaxOfTwo ==
  ASSUME NEW a \in Int, NEW b \in Int
  PROVE  Max({a, b}) = IF a >= b THEN a ELSE b
<1> PICK m : m = IF a >= b THEN a ELSE b
  OBVIOUS
<1>1. m \in {a, b} /\ \A y \in {a, b} : m >= y
  OBVIOUS
<1>2. \A x \in {a, b} : (\A y \in {a, b} : x >= y) => x = m
  BY <1>1
<1>3. QED
  BY <1>1, <1>2 DEF Max

LEMMA MinOfThree ==
  ASSUME NEW a \in Int, NEW b \in Int, NEW c \in Int, NEW m, m = Min({a, b, c})
  PROVE  m \in {a, b, c} /\ m <= a /\ m <= b /\ m <= c
<1>1. \E x \in {a, b, c} : \A y \in {a, b, c} : x <= y
  OBVIOUS
<1>2. QED
  BY <1>1 DEF Min

\* What resizing may do.
LEMMA SizedFacts ==
  ASSUME LayoutInv, NEW half \in Nat, size = 2 * half, NEW live \in Nat,
         NEW sized, sized = Sized(live)
  PROVE  /\ sized.size \in Nat /\ 2 * (sized.size \div 2) = sized.size
         /\ sized.mapped \in [Regions -> Nat]
         /\ \A r \in Regions :
              /\ sized.mapped[r] >= InitialSize \div 2
              /\ sized.mapped[r] <= MaxRegion \/ sized.mapped[r] = InitialSize \div 2
         /\ \/ sized.size >= Target(live) \/ Wanted(live) > MaxRegion
            \/ sized.mapped[from] >= Wanted(live)
         /\ Granted(live, to) => sized.size >= Target(live) \/ Wanted(live) > MaxRegion
<1> PICK target, wanted, least : /\ target = Target(live) /\ wanted = Wanted(live)
                                 /\ least = InitialSize \div 2
  OBVIOUS
<1>1. /\ target \in Nat /\ wanted \in Nat /\ 2 * wanted >= target /\ least \in Nat
      /\ MaxRegion \in Nat
  BY TargetFacts, AlignedHalf, InitialHalf, Constants DEF Wanted
<1>2. /\ mapped \in [Regions -> Nat] /\ to \in Regions /\ from \in Regions /\ from # to
      /\ \A r \in Regions : /\ mapped[r] >= least
                            /\ mapped[r] <= MaxRegion \/ mapped[r] = least
  BY DEF LayoutInv, from, OtherRegion, Regions
<1>3. CASE target <= size
  <2>1. sized = [mapped |-> mapped, size |-> size]
    BY <1>1, <1>3 DEF Sized
  <2>2. 2 * (size \div 2) = size
    OBVIOUS
  <2>3. size \in Nat
    OBVIOUS
  <2>4. sized.mapped = mapped /\ sized.size = size
    BY <2>1
  <2>5. QED
    BY <1>1, <1>2, <1>3, <2>2, <2>3, <2>4
<1>4. CASE target > size
  <2> PICK z, other, grown, region :
         /\ other = mapped[to] /\ z = Max({wanted, mapped[to]}) /\ grown = Grown(from, z)
         /\ region = Min({wanted, mapped[to], grown})
    OBVIOUS
  <2>1. sized = [mapped |-> [mapped EXCEPT ![from] = grown], size |-> 2 * region]
    BY <1>1, <1>4 DEF Sized, Resized, Wanted
  <2>2. z = (IF wanted >= mapped[to] THEN wanted ELSE mapped[to]) /\ z \in Nat
    BY <1>1, <1>2, MaxOfTwo
  <2>3. grown = IF z <= mapped[from] \/ z > MaxRegion THEN mapped[from] ELSE z
    BY DEF Grown
  <2>4. grown \in Nat /\ grown >= least /\ (grown <= MaxRegion \/ grown = least)
    BY <1>1, <1>2, <2>2, <2>3
  <2>5. wanted > MaxRegion \/ grown >= wanted
    BY <1>1, <1>2, <2>2, <2>3
  <2>6. region \in {wanted, mapped[to], grown}
    <3>1. other \in Int /\ wanted \in Int /\ grown \in Int /\ region = Min({wanted, other, grown})
      BY <1>1, <1>2, <2>4
    <3>2. region \in {wanted, other, grown}
      BY <3>1, MinOfThree
    <3>3. QED
      BY <3>2
  <2>7. region \in Nat
    BY <1>1, <1>2, <2>4, <2>6
  <2>8. (2 * region) \div 2 = region
    BY <2>7
  <2>9. sized.size = 2 * region /\ sized.mapped = [mapped EXCEPT ![from] = grown]
    BY <2>1
  <2>10. sized.mapped \in [Regions -> Nat] /\ sized.mapped[from] = grown
           /\ sized.mapped[to] = mapped[to]
    BY <1>2, <2>4, <2>9
  <2>11. \A r \in Regions :
           /\ sized.mapped[r] >= least /\ (sized.mapped[r] <= MaxRegion \/ sized.mapped[r] = least)
    BY <1>2, <2>4, <2>9
  <2>12. Granted(live, to) => sized.size >= target \/ wanted > MaxRegion
    <3>1. SUFFICES ASSUME mapped[to] >= wanted, ~(wanted > MaxRegion)
                   PROVE  sized.size >= target
      BY <1>1, <1>4 DEF Granted
    <3>2. region >= wanted
      BY <1>1, <1>2, <2>4, <2>5, <2>6, <3>1
    <3>3. QED
      BY <1>1, <2>7, <2>9, <3>2
  <2>13. sized.size \in Nat /\ 2 * (sized.size \div 2) = sized.size
    BY <2>7, <2>8, <2>9
  <2>14. \/ sized.size >= target \/ wanted > MaxRegion \/ sized.mapped[from] >= wanted
    BY <2>5, <2>10
  <2>15. QED
    BY <2>10, <2>11, <2>12, <2>13, <2>14
<1>5. QED
  BY <1>1, <1>3, <1>4

\* The names in the heap are closed: what the program can get to is there.
LEMMA NamesClosed ==
  ASSUME StoreInv, GraphInv
  PROVE  StoreNames \in SUBSET ObjectNames /\ ClosedNames(StoreNames) /\ LiveNames \subseteq StoreNames
<1>1. StoreNames \in SUBSET ObjectNames
  BY DEF GraphInv, StoreNames
<1>2. \A r \in DOMAIN store : id[r] \in StoreNames
  BY DEF StoreNames
<1>3. \A s \in Slots : groots[s] \in StoreNames \cup {0}
  BY <1>2 DEF GraphInv, Names
<1>4. ASSUME NEW z \in StoreNames
      PROVE  IF Len(gfields[z]) = 2
             THEN gfields[z][1] \in StoreNames => gfields[z][2] \in StoreNames \cup {0}
             ELSE gfields[z][1] \in StoreNames \cup {0}
  <2>1. PICK r \in DOMAIN store : id[r] = z
    BY DEF StoreNames
  <2> PICK o, g : o = store[r].fields /\ g = gfields[z]
    OBVIOUS
  <2>2. /\ Len(g) = (IF IsWeak(r) THEN 2 ELSE 1)
        /\ DOMAIN o = IF IsWeak(r) THEN {1, 2} ELSE {1}
        /\ ~IsWeak(r) \/ o[1] # Null => \A i \in DOMAIN o : Names(o[i], g[i])
        /\ IsWeak(r) /\ o[1] = Null => g[1] \notin StoreNames
    BY <2>1, FieldNames
  <2>3. \A f, m : Names(f, m) => m \in StoreNames \cup {0}
    BY <1>2 DEF Names
  <2>4. CASE IsWeak(r) /\ o[1] = Null
    BY <2>2, <2>4
  <2>5. CASE IsWeak(r) /\ o[1] # Null
    <3>1. Names(o[2], g[2])
      BY <2>2, <2>5
    <3>2. QED
      BY <2>2, <2>3, <2>5, <3>1
  <2>6. CASE ~IsWeak(r)
    <3>1. Names(o[1], g[1])
      BY <2>2, <2>6
    <3>2. QED
      BY <2>2, <2>3, <2>6, <3>1
  <2>7. QED
    BY <2>4, <2>5, <2>6
<1>5. ClosedNames(StoreNames)
  BY <1>3, <1>4 DEF ClosedNames
<1>6. QED
  BY <1>1, <1>5 DEF LiveNames

\* What was traced, when everything is.
Survivors == ToPart \cup MarkedPart

LEMMA TracedFacts ==
  ASSUME Inv, Closed, check, resolved = <<>>
  PROVE  /\ Scanned = Survivors /\ Survivors \subseteq DOMAIN store /\ pending \subseteq Survivors
         /\ \A s \in Slots : Safe(roots[s])
         /\ \A r \in Survivors \ pending : \A i \in DOMAIN store[r].fields :
              Safe(store[r].fields[i]) \/ (IsWeak(r) /\ store[r].fields[1] = Null)
         /\ \A e \in pending : /\ IsWeak(e) /\ store[e].fields[1] # Null
                               /\ \A q \in Survivors : id[q] # gfields[id[e]][1]
<1>1. LayoutInv /\ StoreInv /\ GraphInv /\ TraceInv /\ pc = "trace" /\ todo = <<>> /\ grey = hp
  BY DEF Inv, Closed
<1>2. /\ DOMAIN store = ToPart \cup FromPart \cup LargePart /\ to # "los"
      /\ ToPart \cap FromPart = {} /\ ToPart \cap LargePart = {} /\ FromPart \cap LargePart = {}
      /\ Null \notin DOMAIN store
  BY <1>1, Parts
<1>3. Scanned = Survivors
  <2>1. \A q \in ToPart : q[2] < grey
    BY <1>1 DEF StoreInv, LayoutInv
  <2>2. QED
    BY <2>1 DEF Scanned, Survivors
<1>4. Survivors \subseteq DOMAIN store
  BY <1>1, ScannedFacts DEF Survivors
<1>5. pending \subseteq Survivors
  BY <1>1, <1>3 DEF TraceInv
<1>6. \A edge : ~Scheduled(edge)
  BY <1>1 DEF Scheduled
<1>7. \A e : ~Resolved(e)
  BY DEF Resolved
<1>8. \A s \in Slots : Safe(roots[s])
  BY <1>1, <1>6 DEF TraceInv
<1>9. ASSUME NEW r \in Survivors \ pending, NEW i \in DOMAIN store[r].fields
      PROVE  Safe(store[r].fields[i]) \/ (IsWeak(r) /\ store[r].fields[1] = Null)
  <2>1. FieldsDone(r)
    BY <1>1, <1>3 DEF TraceInv
  <2>2. i \in IF IsWeak(r) THEN {1, 2} ELSE {1}
    BY <1>1, <1>4, FieldNames
  <2>3. QED
    BY <1>6, <1>7, <2>1, <2>2 DEF FieldsDone
<1>10. ASSUME NEW e \in pending, NEW q \in Survivors
       PROVE  id[q] # gfields[id[e]][1]
  <2> PICK k : k = store[e].fields[1]
    OBVIOUS
  <2>1. k \in DOMAIN store /\ id[k] = gfields[id[e]][1] /\ ~KeyLives(k)
    BY <1>1, PendingKey
  <2>2. SUFFICES ASSUME id[q] = id[k] PROVE FALSE
    BY <2>1
  <2>3. NamedOnce(ToPart \cup LargePart) /\ NamedOnce(FromPart \cup LargePart)
    BY <1>1 DEF GraphInv
  <2>4. CASE k \in FromPart
    <3>1. store[k].fwd = Null
      BY <1>1, <2>1, <2>4, ScannedFacts DEF KeyLives
    <3>2. CASE q \in ToPart
      <4>1. PICK p \in FromPart : store[p].fwd = q
        BY <1>1, <3>2 DEF TraceInv
      <4>2. q # Null
        BY <1>2, <1>4
      <4>3. id[p] = id[q]
        BY <1>1, <4>1, <4>2 DEF TraceInv
      <4>4. p = k
        BY <2>2, <2>3, <2>4, <4>3 DEF NamedOnce
      <4>5. QED
        BY <3>1, <4>1, <4>2, <4>4
    <3>3. CASE q \in LargePart
      BY <1>2, <2>2, <2>3, <2>4, <3>3 DEF NamedOnce
    <3>4. QED
      BY <1>1, <3>2, <3>3 DEF Survivors, MarkedPart
  <2>5. CASE k \notin FromPart
    <3>1. ~InFrom(k)
      BY <1>1, <2>1, <2>5, ScannedFacts
    <3>2. k[1] = "los" /\ ~LosIsMarked(los, k[2])
      BY <2>1, <3>1 DEF KeyLives
    <3>3. k \in LargePart /\ k \notin MarkedPart /\ k \notin ToPart
      BY <1>2, <2>1, <3>2 DEF LargePart, MarkedPart, ToPart
    <3>4. q \in ToPart \cup LargePart
      BY DEF Survivors, MarkedPart
    <3>5. q = k
      BY <2>2, <2>3, <3>3, <3>4 DEF NamedOnce
    <3>6. QED
      BY <3>3, <3>5 DEF Survivors
  <2>6. QED
    BY <2>4, <2>5
<1>11. \A e \in pending : IsWeak(e) /\ store[e].fields[1] # Null
  BY <1>1 DEF TraceInv
<1>12. QED
  BY <1>3, <1>4, <1>5, <1>8, <1>9, <1>10, <1>11
\* The heap after a collection.
LEMMA SurvivorsKept ==
  ASSUME Inv, FinishCollect
  PROVE  /\ LosOk(los') /\ LosReady(los') /\ LiveNodes(los') = MarkedNodes(los)
         /\ PagesOf(los', LiveNodes(los')) = los.liveAtLast /\ los'.liveAtLast = los.liveAtLast
         /\ DOMAIN store' = Survivors /\ id' = [r \in Survivors |-> id[r]]
         /\ \A r \in Survivors : r \notin pending => store'[r] = store[r]
         /\ \A r \in pending : /\ store'[r] \in Object /\ store'[r].kind = store[r].kind
                               /\ store'[r].fwd = store[r].fwd
                               /\ Len(store'[r].fields) = Len(store[r].fields)
                               /\ store'[r].fields[1] = Null
<1>1. LosInv /\ LayoutInv /\ StoreInv /\ GraphInv /\ TraceInv /\ pc = "trace"
  BY DEF Inv, FinishCollect, Closed
<1>2. /\ Survivors \subseteq DOMAIN store /\ pending \subseteq Survivors
      /\ \A e \in pending : IsWeak(e)
  BY TracedFacts DEF FinishCollect
<1> PICK swept : swept = ProcessQuarantine(LosFinishGc(los))
  OBVIOUS
<1>3. /\ los' = swept /\ store' = Restrict(Swept(store), Kept(swept))
      /\ id' = Restrict(id, Kept(swept))
  BY DEF FinishCollect
<1>4. /\ LosOk(swept) /\ LosReady(swept) /\ LiveNodes(swept) = MarkedNodes(los)
      /\ PagesOf(swept, LiveNodes(swept)) = los.liveAtLast
      /\ swept.liveAtLast = los.liveAtLast
  BY <1>1, LosFinishFacts DEF LosInv
<1>5. Kept(swept) = Survivors
  <2>1. \A r \in LargePart : r[2] \in MarkedNodes(los) <=> LosIsMarked(los, r[2])
    <3>1. TAKE r \in LargePart
    <3>2. PICK a \in LiveNodes(los) : r = <<"los", a>>
      BY <1>1 DEF StoreInv
    <3>3. r[2] = a
      BY <3>2
    <3>4. QED
      BY <3>2, <3>3 DEF MarkedNodes
  <2>2. Kept(swept) = ToPart \cup {r \in LargePart : r[2] \in MarkedNodes(los)}
    BY <1>4 DEF Kept, ToPart, LargePart
  <2>3. QED
    BY <2>1, <2>2 DEF Survivors, MarkedPart
<1>6. id' = [r \in Survivors |-> id[r]]
  BY <1>3, <1>5 DEF Restrict
<1>7. DOMAIN store' = Survivors /\ \A r \in Survivors : store'[r] = Swept(store)[r]
  BY <1>3, <1>5 DEF Restrict
<1>8. \A r \in Survivors :
        Swept(store)[r] = IF r \in pending THEN [store[r] EXCEPT !.fields[1] = Null] ELSE store[r]
  BY <1>2 DEF Swept
<1>9. \A r \in Survivors : r \notin pending => store'[r] = store[r]
  BY <1>7, <1>8
<1>10. ASSUME NEW r \in pending
       PROVE  /\ store'[r] \in Object /\ store'[r].kind = store[r].kind
              /\ store'[r].fwd = store[r].fwd /\ Len(store'[r].fields) = Len(store[r].fields)
              /\ store'[r].fields[1] = Null
  <2> PICK o, p : o = store[r] /\ p = store'[r]
    OBVIOUS
  <2>1. r \in Survivors /\ r \in DOMAIN store /\ IsWeak(r)
    BY <1>2
  <2>2. p = [store[r] EXCEPT !.fields[1] = Null]
    BY <1>7, <1>8, <2>1
  <2>3. p = [o EXCEPT !.fields = [o.fields EXCEPT ![1] = Null]]
    BY <2>2
  <2>4. o \in Object /\ 1 \in DOMAIN o.fields
    BY <1>1, <2>1, FieldNames DEF StoreInv
  <2>5. Null \in Refs
    BY DEF Refs
  <2>6. /\ p \in Object /\ p.kind = o.kind /\ p.fwd = o.fwd
        /\ Len(p.fields) = Len(o.fields) /\ p.fields[1] = Null
    <3>1. FieldChanged(o, 1, Null, p)
      BY <2>3, <2>4, <2>5, FieldSet
    <3>2. QED
      BY <3>1 DEF FieldChanged
  <2>7. QED
    BY <2>6
<1>11. QED
  BY <1>3, <1>4, <1>6, <1>7, <1>9, <1>10

LEMMA SurvivorsGraph ==
  ASSUME Inv, FinishCollect
  PROVE  /\ StoreInv' /\ GraphInv'
         /\ StoreNames' = {id[r] : r \in Survivors}
<1>1. LosInv /\ LayoutInv /\ StoreInv /\ GraphInv /\ TraceInv /\ pc = "trace"
  BY DEF Inv, FinishCollect, Closed
<1>2. /\ Survivors \subseteq DOMAIN store /\ pending \subseteq Survivors
      /\ \A s \in Slots : Safe(roots[s])
      /\ \A r \in Survivors \ pending : \A i \in DOMAIN store[r].fields :
           Safe(store[r].fields[i]) \/ (IsWeak(r) /\ store[r].fields[1] = Null)
      /\ \A e \in pending : /\ IsWeak(e) /\ store[e].fields[1] # Null
                            /\ \A q \in Survivors : id[q] # gfields[id[e]][1]
  BY TracedFacts DEF FinishCollect
<1>3. /\ LiveNodes(los') = MarkedNodes(los) /\ DOMAIN store' = Survivors
      /\ id' = [r \in Survivors |-> id[r]]
      /\ \A r \in Survivors : r \notin pending => store'[r] = store[r]
      /\ \A r \in pending : /\ store'[r] \in Object /\ store'[r].kind = store[r].kind
                            /\ store'[r].fwd = store[r].fwd
                            /\ Len(store'[r].fields) = Len(store[r].fields)
                            /\ store'[r].fields[1] = Null
  BY SurvivorsKept
<1>4. /\ to' = to /\ from' = from /\ hp' = hp /\ roots' = roots /\ groots' = groots
      /\ gfields' = gfields /\ pc' # "trace"
  BY DEF FinishCollect, from, OtherRegion
<1>5. /\ to # "los" /\ from # "los" /\ from # to /\ ToPart \cap LargePart = {}
      /\ Null \notin DOMAIN store
  BY <1>1, Parts
<1>6. ToPart' = ToPart /\ FromPart' = {} /\ LargePart' = MarkedPart
  BY <1>3, <1>4, <1>5 DEF ToPart, FromPart, LargePart, Survivors, MarkedPart
<1>7. \A r \in Survivors : /\ store'[r] \in Object /\ store'[r].kind = store[r].kind
                           /\ store'[r].fwd = store[r].fwd
                           /\ Len(store'[r].fields) = Len(store[r].fields)
  <2>1. \A r \in Survivors : store[r] \in Object
    BY <1>1, <1>2 DEF StoreInv
  <2>2. QED
    BY <1>3, <2>1
<1>8. \A r \in Survivors : IsWeak(r)' <=> IsWeak(r)
  BY <1>7 DEF IsWeak
<1>9. StoreInv'
  <2>1. MarkedPart = {<<"los", a>> : a \in MarkedNodes(los)}
    <3>1. LargePart = {<<"los", a>> : a \in LiveNodes(los)}
      BY <1>1 DEF StoreInv
    <3>2. \A a \in LiveNodes(los) : <<"los", a>>[2] = a
      OBVIOUS
    <3>3. QED
      BY <3>1, <3>2 DEF MarkedPart, MarkedNodes
  <2>2. MarkedPart \subseteq LargePart /\ ToPart \subseteq Survivors /\ MarkedPart \subseteq Survivors
    BY DEF MarkedPart, Survivors
  <2>3. \A r \in DOMAIN store' :
          store'[r] \in Object /\ Len(store'[r].fields) = IF IsWeak(r)' THEN 2 ELSE 1
    BY <1>1, <1>2, <1>3, <1>7, <1>8 DEF StoreInv
  <2>4. \A r \in MarkedPart : ~IsWeak(r)'
    BY <1>1, <1>8, <2>2 DEF StoreInv
  <2>5. \A r \in ToPart \cup MarkedPart : store'[r].fwd = Null
    BY <1>1, <1>7, <2>2 DEF StoreInv
  <2>6. DOMAIN store' \subseteq HeapPlaces
    BY <1>1, <1>2, <1>3 DEF StoreInv
  <2>7. ToPart' = {<<to', i>> : i \in 0 .. hp' - 1}
    BY <1>1, <1>4, <1>6 DEF StoreInv
  <2>8. LargePart' = {<<"los", a>> : a \in LiveNodes(los')}
    BY <1>3, <1>6, <2>1
  <2>9. QED
    BY <1>6, <2>3, <2>4, <2>5, <2>6, <2>7, <2>8 DEF StoreInv
<1>10. StoreNames' = {id[r] : r \in Survivors}
  BY <1>3 DEF StoreNames
<1>11. StoreNames' \subseteq StoreNames
  BY <1>2, <1>10 DEF StoreNames
<1>12. \A f, z : Names(f, z) /\ Safe(f) => Names(f, z)'
  BY <1>3 DEF Names, Safe, Survivors
<1>13. ASSUME NEW r \in Survivors PROVE Agrees(r)'
  <2> PICK o, v, g : o = store[r].fields /\ v = store'[r].fields /\ g = gfields[id[r]]
    OBVIOUS
  <2>1. /\ r \in DOMAIN store /\ Len(g) = Len(o) /\ gfields'[id'[r]] = g /\ Len(v) = Len(o)
        /\ DOMAIN o = (IF IsWeak(r) THEN {1, 2} ELSE {1})
        /\ ~IsWeak(r) \/ o[1] # Null => \A i \in DOMAIN o : Names(o[i], g[i])
        /\ IsWeak(r) /\ o[1] = Null => g[1] \notin StoreNames
    <3>1. r \in DOMAIN store /\ Len(v) = Len(o) /\ gfields'[id'[r]] = g
      BY <1>2, <1>3, <1>4, <1>7
    <3>2. QED
      BY <1>1, <3>1, FieldNames
  <2>2. CASE r \in pending
    <3>1. v[1] = Null /\ IsWeak(r)'
      BY <1>2, <1>3, <1>8, <2>2
    <3>2. g[1] \notin StoreNames'
      BY <1>2, <1>10, <2>2
    <3>3. QED
      BY <2>1, <3>1, <3>2 DEF Agrees
  <2>3. CASE r \notin pending /\ IsWeak(r) /\ o[1] = Null
    <3>1. v = o /\ IsWeak(r)' /\ g[1] \notin StoreNames'
      BY <1>3, <1>8, <1>11, <2>1, <2>3
    <3>2. QED
      BY <2>1, <2>3, <3>1 DEF Agrees
  <2>4. CASE r \notin pending /\ ~(IsWeak(r) /\ o[1] = Null)
    <3>1. v = o /\ (IsWeak(r)' <=> IsWeak(r))
      BY <1>3, <1>8, <2>4
    <3>2. \A i \in DOMAIN o : Names(o[i], g[i]) /\ Safe(o[i])
      BY <1>2, <2>1, <2>4
    <3>3. \A i \in DOMAIN v : Names(v[i], g[i])'
      BY <1>12, <3>1, <3>2 DEF Names
    <3>4. QED
      BY <2>1, <2>4, <3>1, <3>3 DEF Agrees, Names
  <2>5. QED
    BY <2>2, <2>3, <2>4
<1>14. \A s \in Slots : Names(roots[s], groots[s])'
  <2>1. TAKE s \in Slots
  <2>2. PICK f, z : f = roots[s] /\ z = groots[s]
    OBVIOUS
  <2>3. Names(f, z)'
    BY <1>1, <1>2, <1>12, <2>2 DEF GraphInv
  <2>4. QED
    BY <1>4, <2>2, <2>3 DEF Names
<1>15. GraphInv'
  <2>1. id' \in [DOMAIN store' -> ObjectNames'] /\ ObjectNames' = ObjectNames
    BY <1>1, <1>2, <1>3, <1>4 DEF GraphInv, ObjectNames
  <2>2. roots' \in [Slots -> Refs] /\ groots' \in [Slots -> Nat]
          /\ gfields' \in Seq(Seq(0 .. Len(gfields')))
    BY <1>1, <1>4 DEF GraphInv
  <2>3. NamedOnce(ToPart \cup LargePart)
    BY <1>1 DEF GraphInv
  <2>4. \A p, q \in Survivors : id'[p] = id'[q] => p = q
    BY <1>3, <2>3 DEF NamedOnce, Survivors, MarkedPart
  <2>5. NamedOnce(ToPart \cup LargePart)' /\ NamedOnce(FromPart \cup LargePart)'
    BY <1>6, <2>4 DEF NamedOnce, Survivors
  <2>6. QED
    BY <1>3, <1>13, <1>14, <2>1, <2>2, <2>5 DEF GraphInv
<1>16. QED
  BY <1>9, <1>10, <1>15

LEMMA LiveNamesThen == StoreInv' /\ GraphInv' => (LiveNames \subseteq StoreNames)'
<1>1. StoreInv /\ GraphInv => LiveNames \subseteq StoreNames
  BY NamesClosed
<1>2. QED
  BY <1>1, PTL

\* When all that was in the heap lives, the collection keeps all of it.
LEMMA NothingDied ==
  ASSUME Inv, FinishCollect, Again, unstolen = 0
  PROVE  Cardinality(FromPart) = hp /\ los.liveAtLast = stolen
<1>1. LosInv /\ LayoutInv /\ StoreInv /\ GraphInv /\ TraceInv /\ ExactInv /\ pc = "trace"
  BY DEF Inv, FinishCollect, Closed
<1>2. StoreInv' /\ GraphInv' /\ StoreNames' = {id[r] : r \in Survivors}
  BY SurvivorsGraph
<1>3. LiveNames' = LiveNames
  BY LiveNamesSame DEF FinishCollect
<1>4. LiveNames' \subseteq StoreNames'
  BY <1>2, LiveNamesThen
<1>5. \A r \in DOMAIN store : \E q \in Survivors : id[q] = id[r]
  <2>1. StoreNames \subseteq LiveNames
    BY <1>1 DEF ExactInv
  <2>2. \A r \in DOMAIN store : id[r] \in StoreNames
    BY DEF StoreNames
  <2>3. \A r \in DOMAIN store : id[r] \in {id[q] : q \in Survivors}
    BY <1>2, <1>3, <1>4, <2>1, <2>2
  <2>4. QED
    BY <2>3
<1>6. /\ NamedOnce(ToPart \cup LargePart) /\ NamedOnce(FromPart \cup LargePart)
      /\ ToPart \cap FromPart = {} /\ ToPart \cap LargePart = {} /\ FromPart \cap LargePart = {}
      /\ Null \notin DOMAIN store
  BY <1>1, Parts DEF GraphInv
<1>7. LargePart = MarkedPart
  <2>1. ASSUME NEW r \in LargePart PROVE r \in MarkedPart
    <3>1. PICK q \in Survivors : id[q] = id[r]
      BY <1>5 DEF LargePart
    <3>2. q = r
      BY <1>6, <3>1 DEF NamedOnce, Survivors, MarkedPart
    <3>3. QED
      BY <1>6, <3>2 DEF Survivors
  <2>2. QED
    BY <2>1 DEF MarkedPart
<1>8. los.liveAtLast = stolen
  <2>1. LiveNodes(los) = MarkedNodes(los)
    <3>1. ASSUME NEW a \in LiveNodes(los) PROVE LosIsMarked(los, a)
      <4>1. <<"los", a>> \in MarkedPart
        BY <1>1, <1>7 DEF StoreInv
      <4>2. LosIsMarked(los, <<"los", a>>[2]) /\ <<"los", a>>[2] = a
        BY <4>1 DEF MarkedPart
      <4>3. QED
        BY <4>2
    <3>2. QED
      BY <3>1 DEF MarkedNodes
  <2>2. los.liveAtLast = PagesOf(los, MarkedNodes(los)) /\ stolen \in Nat
          /\ stolen + unstolen = PagesOf(los, LiveNodes(los))
    BY <1>1 DEF LosInv
  <2>3. QED
    BY <2>1, <2>2
<1>9. \A r \in FromPart : store[r].fwd \in ToPart /\ id[store[r].fwd] = id[r]
  <2>1. TAKE r \in FromPart
  <2>2. PICK q \in Survivors : id[q] = id[r]
    BY <1>5 DEF FromPart
  <2>3. q \in ToPart
    BY <1>6, <2>2 DEF NamedOnce, Survivors, MarkedPart
  <2>4. PICK p \in FromPart : store[p].fwd = q
    BY <1>1, <2>3 DEF TraceInv
  <2>5. q # Null
    BY <1>6, <2>3 DEF ToPart
  <2>6. id[p] = id[q]
    BY <1>1, <2>4, <2>5 DEF TraceInv
  <2>7. p = r
    BY <1>6, <2>2, <2>6 DEF NamedOnce
  <2>8. QED
    BY <2>3, <2>4, <2>6, <2>7
<1>10. Cardinality(FromPart) = hp
  <2> PICK f : f = [r \in FromPart |-> store[r].fwd]
    OBVIOUS
  <2>1. f \in [FromPart -> ToPart]
    BY <1>9
  <2>2. \A r, q \in FromPart : f[r] = f[q] => r = q
    BY <1>6, <1>9 DEF NamedOnce
  <2>3. \A q \in ToPart : \E r \in FromPart : f[r] = q
    BY <1>1 DEF TraceInv
  <2>4. f \in Bijection(FromPart, ToPart)
    BY <2>1, <2>2, <2>3 DEF Bijection, Injection, Surjection, IsInjective
  <2>5. ExistsBijection(FromPart, ToPart)
    BY <2>4 DEF ExistsBijection
  <2>6. IsFiniteSet(ToPart) /\ Cardinality(ToPart) = hp
    <3>1. ToPart = {<<to, i>> : i \in 0 .. hp - 1} /\ hp \in Nat
      BY <1>1 DEF StoreInv, LayoutInv
    <3>2. QED
      BY <3>1, CountTo
  <2>7. ExistsBijection(ToPart, FromPart)
    BY <2>5, Fun_ExistsBijSymmetric
  <2>8. QED
    BY <2>6, <2>7, FS_Bijection
<1>11. QED
  BY <1>8, <1>10

LEMMA FinishCollectInv ==
  ASSUME Inv, FinishCollect
  PROVE  Inv'
<1> PICK sized, live, region : /\ live = hp + los.liveAtLast * PageSize /\ sized = Sized(live)
                               /\ region = NewRegion(sized.size, los.liveAtLast)
  OBVIOUS
<1>1. /\ pc = "trace" /\ todo = <<>> /\ resolved = <<>>
      /\ stolen' = los.liveAtLast /\ mapped' = sized.mapped /\ size' = sized.size
      /\ active' = [r \in Regions |-> Max({region, 0})] /\ limit' = Max({region, 0})
      /\ pending' = {} /\ unstolen' = 0
      /\ pc' = (IF region < hp THEN "overrun" ELSE IF want = NoWant THEN "run" ELSE "retry")
      /\ UNCHANGED <<to, hp, roots, check, resolved, todo, grey, want, groots, gfields>>
  BY DEF FinishCollect, Closed
<1>2. LosInv /\ LayoutInv /\ StoreInv /\ GraphInv /\ TraceInv /\ ExactInv /\ WantInv /\ GrowInv
  BY DEF Inv
<1>3. StoreInv' /\ GraphInv' /\ StoreNames' = {id[r] : r \in Survivors}
  BY SurvivorsGraph
<1>4. /\ LosOk(los') /\ LosReady(los') /\ LiveNodes(los') = MarkedNodes(los)
      /\ PagesOf(los', LiveNodes(los')) = los.liveAtLast /\ los'.liveAtLast = los.liveAtLast
  BY SurvivorsKept
<1>5. /\ los.liveAtLast \in Nat /\ hp \in Nat /\ PageSize \in Nat \ {0}
      /\ los.liveAtLast * PageSize \in Nat /\ live \in Nat
  <2>1. LosTyped(los) /\ los.liveAtLast = PagesOf(los, MarkedNodes(los))
    BY <1>1, <1>2 DEF LosInv, LosOk
  <2>2. los.liveAtLast \in Nat
    BY <2>1, LiveTyped, PagesFinite
  <2>3. hp \in Nat /\ PageSize \in Nat \ {0}
    BY <1>2, Constants DEF LayoutInv
  <2>4. los.liveAtLast * PageSize \in Nat
    BY <2>2, TimesPages
  <2>5. QED
    BY <2>2, <2>3, <2>4
<1>6. /\ pc' \in {"overrun", "run", "retry"} /\ (pc' # "overrun" => region >= hp)
      /\ region \in Int /\ sized.size \in Nat /\ 2 * (sized.size \div 2) = sized.size
      /\ sized.mapped \in [Regions -> Nat]
      /\ \A r \in Regions :
           /\ sized.mapped[r] >= InitialSize \div 2
           /\ sized.mapped[r] <= MaxRegion \/ sized.mapped[r] = InitialSize \div 2
      /\ \/ sized.size >= Target(live) \/ Wanted(live) > MaxRegion
         \/ sized.mapped[from] >= Wanted(live)
      /\ Granted(live, to) => sized.size >= Target(live) \/ Wanted(live) > MaxRegion
  <2>1. PICK half \in Nat : size = 2 * half
    <3>1. stolen \in Nat /\ active[to] \in Nat
            /\ size = 2 * (active[to] + RegionPages(stolen) * PageSize)
      BY <1>1, <1>2 DEF LosInv, LayoutInv
    <3>2. RegionPages(stolen) * PageSize \in Nat
      BY <3>1, RegionPagesFacts, TimesPages
    <3>3. active[to] + RegionPages(stolen) * PageSize \in Nat
      BY <3>1, <3>2
    <3>4. QED
      BY <3>1, <3>3
  <2>2. /\ sized.size \in Nat /\ 2 * (sized.size \div 2) = sized.size
        /\ sized.mapped \in [Regions -> Nat]
        /\ \A r \in Regions :
              /\ sized.mapped[r] >= InitialSize \div 2
              /\ sized.mapped[r] <= MaxRegion \/ sized.mapped[r] = InitialSize \div 2
        /\ \/ sized.size >= Target(live) \/ Wanted(live) > MaxRegion
           \/ sized.mapped[from] >= Wanted(live)
        /\ Granted(live, to) => sized.size >= Target(live) \/ Wanted(live) > MaxRegion
    BY <1>2, <1>5, <2>1, SizedFacts
  <2>3. region \in Int
    <3>1. RegionPages(los.liveAtLast) * PageSize \in Nat
      BY <1>5, RegionPagesFacts, TimesPages
    <3>2. QED
      BY <2>2, <3>1 DEF NewRegion
  <2>4. pc' \in {"overrun", "run", "retry"} /\ (pc' # "overrun" => region >= hp)
    BY <1>1, <1>5, <2>3
  <2>5. QED
    BY <2>2, <2>3, <2>4
<1>7. LosInv'
  <2>1. {stolen', unstolen'} \subseteq Nat /\ stolen' + unstolen' = PagesOf(los', LiveNodes(los'))
    BY <1>1, <1>4, <1>5
  <2>2. QED
    BY <1>4, <1>6, <2>1 DEF LosInv
<1>8. LayoutInv'
  <2>1. PICK least : least = InitialSize \div 2
    OBVIOUS
  <2>2. PICK roof : roof = Max({region, 0})
    OBVIOUS
  <2>3. roof = (IF region >= 0 THEN region ELSE 0) /\ roof \in Nat
    BY <1>6, <2>2, MaxOfTwo
  <2>4. /\ to' \in Regions /\ from' \in Regions /\ hp' \in Nat /\ limit' = roof
        /\ active' \in [Regions -> Nat] /\ active'[to'] = roof /\ active'[from'] = roof
        /\ size' \in Nat /\ mapped' \in [Regions -> Nat] /\ pc' \in Points
        /\ \A r \in Regions : /\ mapped'[r] >= least
                              /\ mapped'[r] <= MaxRegion \/ mapped'[r] = least
    <3>1. to' \in Regions /\ from' \in Regions /\ hp' \in Nat
      BY <1>1, <1>2 DEF LayoutInv, from, OtherRegion, Regions
    <3>2. limit' = roof /\ active' = [r \in Regions |-> roof]
      BY <1>1, <2>2
    <3>3. size' \in Nat /\ mapped' \in [Regions -> Nat]
      BY <1>1, <1>6
    <3>4. pc' \in Points
      BY <1>6 DEF Points
    <3>5. \A r \in Regions : /\ mapped'[r] >= least
                             /\ mapped'[r] <= MaxRegion \/ mapped'[r] = least
      BY <1>1, <1>6, <2>1
    <3>6. QED
      BY <2>3, <3>1, <3>2, <3>3, <3>4, <3>5
  <2>5. ASSUME pc' # "overrun"
        PROVE  /\ 2 * (active'[to'] + RegionPages(stolen') * PageSize) = size'
               /\ hp' <= limit'
    <3>1. region >= hp /\ roof = region
      BY <1>5, <1>6, <2>3, <2>5
    <3>2. RegionPages(stolen') * PageSize \in Nat
      BY <1>1, <1>5, RegionPagesFacts, TimesPages
    <3>3. region = size' \div 2 - RegionPages(stolen') * PageSize
      BY <1>1 DEF NewRegion
    <3>4. size' \div 2 \in Int /\ 2 * (size' \div 2) = size'
      BY <1>1, <1>6
    <3>5. hp' <= limit'
      BY <1>1, <2>4, <3>1
    <3>6. active'[to'] + RegionPages(stolen') * PageSize = size' \div 2
      BY <1>6, <2>4, <3>1, <3>2, <3>3, <3>4
    <3>7. QED
      BY <3>4, <3>5, <3>6
  <2>6. RegionPages(stolen)' = RegionPages(stolen')
    BY DEF RegionPages, AlignUp
  <2>7. QED
    BY <2>1, <2>3, <2>4, <2>5, <2>6 DEF LayoutInv
<1>9. TraceInv'
  <2>1. pending' = {} /\ resolved' = <<>> /\ todo' = <<>> /\ pc' # "trace"
    BY <1>1, <1>6
  <2>2. check' \in BOOLEAN
    <3>1. check \in BOOLEAN /\ check' = check
      BY <1>1, <1>2 DEF TraceInv
    <3>2. QED
      BY <3>1
  <2>3. grey' \in Nat
    BY <1>1, <1>2 DEF TraceInv
  <2>4. todo' \in Seq(Range(todo')) /\ resolved' \in Seq(DOMAIN store')
    BY <2>1
  <2>5. QED
    BY <2>1, <2>2, <2>3, <2>4 DEF TraceInv
<1>10. ExactInv'
  <2>1. LiveNames' = LiveNames
    BY <1>1, LiveNamesSame
  <2>2. StoreNames' \subseteq LiveNames'
    BY <1>1, <1>2, <1>3, <2>1 DEF ExactInv, Survivors
  <2>3. QED
    BY <1>6, <2>2 DEF ExactInv
<1>11. WantInv'
  BY <1>1, <1>2, <1>6 DEF WantInv, Request
<1>12. GrowInv'
  <2> PICK target, wanted, z : /\ target = Target(live) /\ wanted = Wanted(live)
                               /\ z = hp' + stolen' * PageSize
    OBVIOUS
  <2>1. z = live /\ from' = from
    BY <1>1 DEF from, OtherRegion
  <2>2. sized.size >= target \/ wanted > MaxRegion \/ sized.mapped[from] >= wanted
    BY <1>6
  <2>3. ASSUME want.again, want # NoWant
        PROVE  sized.size >= target \/ wanted > MaxRegion
    <3>1. Again
      BY <2>3 DEF Again
    <3>2. unstolen = 0 /\ Granted(Cardinality(FromPart) + stolen * PageSize, to)
      BY <1>1, <1>2, <3>1 DEF GrowInv
    <3>3. Cardinality(FromPart) = hp /\ los.liveAtLast = stolen
      BY <3>1, <3>2, NothingDied
    <3>4. Granted(live, to)
      BY <3>2, <3>3
    <3>5. QED
      BY <1>6, <3>4
  <2>4. pc' # "trace" /\ pc' # "failed" /\ (pc' = "retry" => want # NoWant)
    BY <1>1, <1>6
  <2>5. Target(z)' = target /\ Wanted(z)' = wanted
    BY <2>1 DEF Target, Wanted, AlignUp
  <2>6. Granted(z, from)'
    <3>1. size' >= target \/ wanted > MaxRegion \/ mapped'[from'] >= wanted
      BY <1>1, <2>1, <2>2
    <3>2. QED
      BY <2>5, <3>1 DEF Granted
  <2>7. want'.again /\ want # NoWant => size' >= Target(z)' \/ Wanted(z)' > MaxRegion
    BY <1>1, <2>3, <2>5
  <2>8. los'.liveAtLast = stolen' /\ unstolen' = 0
    BY <1>1, <1>4
  <2>9. Granted(hp + stolen * PageSize, from)' <=> Granted(z, from)'
    BY DEF Granted, Wanted, Target, AlignUp
  <2>10. /\ Target(hp + stolen * PageSize)' = Target(z)'
         /\ Wanted(hp + stolen * PageSize)' = Wanted(z)'
    BY DEF Wanted, Target, AlignUp
  <2>11. QED
    BY <2>4, <2>6, <2>7, <2>8, <2>9, <2>10 DEF GrowInv
<1>13. QED
  BY <1>3, <1>7, <1>8, <1>9, <1>10, <1>11, <1>12 DEF Inv
(***************************************************************************)
(* The properties                                                          *)
(***************************************************************************)
LEMMA StutterInv ==
  ASSUME Inv, UNCHANGED semiVars
  PROVE  Inv'
<1>1. /\ UNCHANGED <<to, hp, limit, active, mapped, stolen, size, los, store, roots, epoch, check,
                     pending, resolved, todo, grey, pc, want, unstolen, id, groots, gfields>>
  BY DEF semiVars, layoutVars, ephVars, historyVars
<1>2. LosInv'
  BY <1>1 DEF Inv, LosInv
<1>3. LayoutInv'
  BY <1>1 DEF Inv, LayoutInv, from, RegionPages, AlignUp
<1>4. /\ from' = from /\ ToPart' = ToPart /\ FromPart' = FromPart /\ LargePart' = LargePart
      /\ MarkedPart' = MarkedPart /\ Scanned' = Scanned /\ StoreNames' = StoreNames
      /\ ObjectNames' = ObjectNames /\ LiveNames' = LiveNames
  BY <1>1 DEF from, ToPart, FromPart, LargePart, MarkedPart, Scanned, StoreNames, ObjectNames,
     LiveNames, ClosedNames
<1>5. StoreInv'
  BY <1>1, <1>4 DEF Inv, StoreInv, IsWeak
<1>6. GraphInv'
  BY <1>1, <1>4 DEF Inv, GraphInv, Names, Agrees, NamedOnce, IsWeak
<1>7. TraceInv'
  BY <1>1, <1>4 DEF Inv, TraceInv, GoodEdge, Safe, Scheduled, Resolved, FieldsDone, KeyLives,
     InFrom, IsWeak, RootEdge, Edge
<1>8. ExactInv' /\ WantInv' /\ GrowInv'
  <2>1. ExactInv'
    BY <1>1, <1>4 DEF Inv, ExactInv, Again
  <2>2. WantInv'
    BY <1>1 DEF Inv, WantInv, Request
  <2>3. GrowInv'
    BY <1>1, <1>4 DEF Inv, GrowInv, Again, Granted, Wanted, Target, AlignUp
  <2>4. QED
    BY <2>1, <2>2, <2>3
<1>9. QED
  BY <1>2, <1>3, <1>5, <1>6, <1>7, <1>8 DEF Inv

LEMMA StepInv ==
  ASSUME Inv, [SemiNext]_semiVars
  PROVE  Inv'
<1>1. CASE UNCHANGED semiVars
  BY <1>1, StutterInv
<1>2. CASE CollectStep
  <2>1. CASE VisitKnown
    BY <2>1, VisitKnownInv
  <2>2. CASE VisitCopy
    BY <2>2, VisitCopyInv
  <2>3. CASE VisitLarge
    BY <2>3, VisitLargeInv
  <2>4. CASE ScanObject
    BY <2>4, ScanObjectInv
  <2>5. CASE ScanEphemeron
    BY <2>5, ScanEphemeronInv
  <2>6. CASE ScanPending
    BY <2>6, ScanPendingInv
  <2>7. CASE TraceResolved
    BY <2>7, TraceResolvedInv
  <2>8. CASE FinishCollect
    BY <2>8, FinishCollectInv
  <2>9. CASE RetryServed
    BY <2>9, RetryServedInv
  <2>10. CASE RetryCollects
    BY <2>10, RetryCollectsInv
  <2>11. CASE RetryFails
    BY <2>11, RetryFailsInv
  <2>12. QED
    BY <1>2, <2>1, <2>2, <2>3, <2>4, <2>5, <2>6, <2>7, <2>8, <2>9, <2>10, <2>11 DEF CollectStep
<1>3. CASE MutatorStep
  <2>1. ASSUME NEW w \in Wants, Alloc(w) \/ AllocCollects(w) PROVE Inv'
    BY <2>1, AllocInv, AllocCollectsInv
  <2>2. CASE Collect
    BY <2>2, CollectInv
  <2>3. ASSUME NEW s \in Slots, NEW t \in Slots, Load(s, t) \/ Store(s, t) PROVE Inv'
    BY <2>3, LoadInv, StoreStepInv
  <2>4. ASSUME NEW s \in Slots, Forget(s) PROVE Inv'
    BY <2>4, ForgetInv
  <2>5. QED
    BY <1>3, <2>1, <2>2, <2>3, <2>4 DEF MutatorStep
<1>4. QED
  BY <1>1, <1>2, <1>3 DEF SemiNext

\* Inv is an invariant of the semispace collector (semi.c): its regions and large
\* objects, its heap against the program's view of it, and the tracer's agenda.
THEOREM SemiInvariant == SemiSpec => []Inv
<1>1. SemiInit => Inv
  BY InitInv
<1>2. Inv /\ [SemiNext]_semiVars => Inv'
  BY StepInv
<1>3. QED
  BY <1>1, <1>2, PTL DEF SemiSpec

LEMMA InvSameGraph ==
  ASSUME Inv
  PROVE  SameGraph
<1>1. SUFFICES ASSUME Calm
               PROVE  /\ \A s \in Slots : roots[s] # Null => roots[s] \in DOMAIN store
                      /\ \A s \in Slots : NameOf(roots[s]) = groots[s]
                      /\ \A z \in LiveNames :
                           \E r \in ObjectNamed(z) :
                             /\ ObjectNamed(z) = {r}
                             /\ \A i \in DOMAIN gfields[z] :
                                  LET f == store[r].fields[i] IN
                                  \/ f # Null /\ f \in DOMAIN store /\ id[f] = gfields[z][i]
                                  \/ f = Null /\ gfields[z][i] = 0
                                  \/ store[r].kind = "ephemeron" /\ store[r].fields[1] = Null
                                       /\ gfields[z][1] \notin LiveNames
  BY DEF SameGraph
<1>2. LayoutInv /\ StoreInv /\ GraphInv /\ pc # "trace"
  BY <1>1 DEF Inv, Calm
<1>3. \A s \in Slots : Names(roots[s], groots[s])
  BY <1>2 DEF GraphInv
<1>4. /\ \A s \in Slots : roots[s] # Null => roots[s] \in DOMAIN store
      /\ \A s \in Slots : NameOf(roots[s]) = groots[s]
  BY <1>3 DEF Names, NameOf
<1>5. LiveNames \subseteq StoreNames /\ NamedOnce(DOMAIN store)
  BY <1>2, NamesClosed, CalmParts
<1>6. ASSUME NEW z \in LiveNames
      PROVE  \E r \in ObjectNamed(z) :
               /\ ObjectNamed(z) = {r}
               /\ \A i \in DOMAIN gfields[z] :
                    LET f == store[r].fields[i] IN
                    \/ f # Null /\ f \in DOMAIN store /\ id[f] = gfields[z][i]
                    \/ f = Null /\ gfields[z][i] = 0
                    \/ store[r].kind = "ephemeron" /\ store[r].fields[1] = Null
                         /\ gfields[z][1] \notin LiveNames
  <2>1. PICK r \in DOMAIN store : id[r] = z
    BY <1>5 DEF StoreNames
  <2>2. r \in ObjectNamed(z) /\ ObjectNamed(z) = {r}
    BY <1>5, <2>1 DEF ObjectNamed, NamedOnce
  <2> PICK o, g : o = store[r].fields /\ g = gfields[z]
    OBVIOUS
  <2>3. /\ o \in Seq(Refs) /\ g \in Seq(0 .. Len(gfields)) /\ Len(g) = Len(o)
        /\ ~IsWeak(r) \/ o[1] # Null => \A i \in DOMAIN o : Names(o[i], g[i])
        /\ IsWeak(r) /\ o[1] = Null => g[1] \notin StoreNames
    BY <1>2, <2>1, FieldNames
  <2>4. DOMAIN g = DOMAIN o
    BY <2>3
  <2>5. ASSUME NEW i \in DOMAIN g
        PROVE  \/ o[i] # Null /\ o[i] \in DOMAIN store /\ id[o[i]] = g[i]
               \/ o[i] = Null /\ g[i] = 0
               \/ store[r].kind = "ephemeron" /\ o[1] = Null /\ g[1] \notin LiveNames
    BY <1>5, <2>3, <2>4 DEF Names, IsWeak
  <2>6. QED
    BY <2>2, <2>5
<1>7. QED
  BY <1>4, <1>6

\* What the program sees is what it built, after every collection and between: the
\* copying, the marking of large objects and the resolution of ephemerons
\* (semi.c:182-281, gc-ephemeron.c:445-581) keep the graph of what lives.
THEOREM SemiSameGraph == SemiSpec => []SameGraph
<1>1. Inv => SameGraph
  BY InvSameGraph
<1>2. QED
  BY <1>1, SemiInvariant, PTL

LEMMA InvBudget ==
  ASSUME Inv
  PROVE  BudgetKept
<1>1. LosInv /\ LayoutInv /\ PageSize \in Nat \ {0}
  BY Constants DEF Inv
<1>2. LosApart(los) /\ LosCounts(los)
  BY <1>1 DEF LosInv, LosOk
<1>3. ASSUME pc = "run", unstolen = 0
      PROVE  /\ hp <= limit /\ limit = active[to] /\ active[to] = active[from]
             /\ stolen = PagesOf(los, LiveNodes(los))
             /\ 2 * limit + stolen * PageSize <= size
  <2>1. hp <= limit /\ limit = active[to] /\ active[to] = active[from] /\ limit \in Nat
          /\ size = 2 * (limit + RegionPages(stolen) * PageSize)
    BY <1>1, <1>3 DEF LayoutInv
  <2>2. stolen \in Nat /\ stolen = PagesOf(los, LiveNodes(los))
    BY <1>1, <1>3 DEF LosInv
  <2> PICK z : z = RegionPages(stolen)
    OBVIOUS
  <2>3. z \in Nat /\ 2 * z >= stolen
    BY <2>2, RegionPagesFacts
  <2>4. (2 * z - stolen) * PageSize \in Nat
    <3>1. 2 * z - stolen \in Nat
      BY <2>2, <2>3
    <3>2. QED
      BY <3>1, TimesPages
  <2>5. (2 * z - stolen) * PageSize = 2 * (z * PageSize) - stolen * PageSize
    BY <1>1, <2>2, <2>3
  <2>6. z * PageSize \in Nat /\ stolen * PageSize \in Nat
    BY <2>2, <2>3, TimesPages
  <2>7. QED
    BY <2>1, <2>2, <2>4, <2>5, <2>6
<1>4. QED
  BY <1>2, <1>3 DEF BudgetKept

\* The large objects and both regions together keep within the heap's size, and no page
\* is in two large objects (semi.c:131-153, 315-354), however often pages are stolen,
\* regions resized and holes reused.
THEOREM SemiBudgetKept == SemiSpec => []BudgetKept
<1>1. Inv => BudgetKept
  BY InvBudget
<1>2. QED
  BY <1>1, SemiInvariant, PTL

LEMMA InvRefused ==
  ASSUME Inv
  PROVE  RefusedWhenGrown
<1>1. SUFFICES ASSUME pc = "failed"
               PROVE  LET live == hp + los.liveAtLast * PageSize IN
                      size >= Target(live)
                        \/ AlignUp(Target(live), 2 * PageSize) \div 2 > MaxRegion
  BY DEF RefusedWhenGrown
<1>2. los.liveAtLast = stolen /\ want.again
  BY <1>1 DEF Inv, GrowInv, WantInv
<1>3. size >= Target(hp + stolen * PageSize) \/ Wanted(hp + stolen * PageSize) > MaxRegion
  BY <1>1, <1>2 DEF Inv, GrowInv
<1>4. QED
  BY <1>2, <1>3 DEF Wanted

\* An allocation is refused only when the heap has the size the policy wants for the
\* live data, or the system has no such region: the second collection of an allocation
\* grows the region that the first could not (semi.c:315-339, 446-463).
THEOREM SemiRefusedWhenGrown == SemiSpec => []RefusedWhenGrown
<1>1. Inv => RefusedWhenGrown
  BY InvRefused
<1>2. QED
  BY <1>1, SemiInvariant, PTL
===============================================================================
