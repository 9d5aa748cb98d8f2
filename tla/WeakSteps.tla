------------------------------ MODULE WeakSteps -------------------------------
(***************************************************************************)
(* For the proofs about ephemerons and finalizers, module WeakProofs: the  *)
(* inductive invariant, what each step does to the workers' operations,    *)
(* and that every step of tracing keeps who has what: each object is       *)
(* queued once, each ephemeron claimed and pushed by one worker.           *)
(***************************************************************************)
EXTENDS Weak, FiniteSetTheorems, SequenceTheorems, TLAPS

-------------------------------------------------------------------------------
(* The inductive invariant *)

Ephs == Ephemerons \cup {NoRef}
OpSet ==
  [op : {"visit"}, obj : Objects \cup {NoRef}]
    \cup [op : {"enqueue"}, obj : Objects]
    \cup [op : {"visitKey", "publish", "recheck", "setTraced", "tryResolve", "nextResolved"},
          obj : Ephemerons]
    \cup [op : {"push"}, cell : Cells, obj : Ephemerons]
    \cup [op : {"pushCas"}, cell : Cells, obj : Ephemerons, tail : Ephs]
    \cup [op : {"follow"}, cell : Cells, obj : Objects]
    \cup [op : {"skip", "followCas"}, cell : Cells, obj : Objects, head : Ephs, new : Ephs]
    \cup [op : {"pop"}, obj : Finalizers]
RootSet == [kind : {"edge"}, obj : Objects] \cup [kind : {"resolved"}, obj : Ephemerons]

WeakTypes ==
  /\ shape \in Shapes /\ key \in [Ephemerons -> Objects \cup {NoRef}]
  /\ markedObjects \subseteq Objects /\ greyObjects \subseteq markedObjects
  /\ state \in [Ephemerons -> {"traced", "claimed", "pending", "resolved"}]
  /\ link \in [Cells -> Ephs] /\ checkPending \in BOOLEAN /\ rootList \subseteq RootSet
  /\ work \in [Workers -> Seq(OpSet)]
  /\ table \in [Priorities -> SUBSET Finalizers]
  /\ firedList \in [Finalizers \cup {FiredHead} -> Finalizers \cup {NoRef}]
  /\ handed \in Seq(Finalizers)
  /\ phase \in {"attach", "heap", "weak", "fin0", "fin1", "done"}

\* what the workers have to do; operations of kinds K, of o
Ops == UNION {{work[w][i] : i \in DOMAIN work[w]} : w \in Workers}
Of(K, o) == {x \in OpSet : x.op \in K /\ x.obj = o}
HasOp(K, o) == \E x \in Ops : x.op \in K /\ x.obj = o
\* one operation at most is in S
Once(S) ==
  \A w, u \in Workers : \A i \in DOMAIN work[w], j \in DOMAIN work[u] :
    work[w][i] \in S /\ work[u][j] \in S => w = u /\ i = j

\* Kinds of operations: those of an ephemeron that is being traced, ...
Traces == {"visitKey", "publish", "recheck", "setTraced", "tryResolve", "nextResolved",
           "push", "pushCas"}
\* ... of whoever has claimed it, or takes it from the resolved list, ...
Claims == {"visitKey", "publish", "setTraced"}
Pushes == {"push", "pushCas"}
Rechecks == {"recheck", "tryResolve"}
\* ... and those that look for the ephemerons of a key.
Walks == {"follow", "skip", "followCas"}

\* what each phase leaves as it is
Phases ==
  /\ phase # "done" => key = shape.key /\ handed = <<>> /\ \A x \in Ops : x.op # "pop"
  /\ phase = "attach" =>
       /\ markedObjects = {} /\ \A e \in Ephemerons : state[e] = "traced"
       /\ \A c \in Cells : link[c] = NoRef
       /\ \A c \in DOMAIN firedList : firedList[c] = NoRef
       /\ Ops = {}
  /\ phase = "done" => \A x \in Ops : x.op = "pop"
  /\ ~Tracing => greyObjects = {} /\ rootList = {}
  /\ checkPending = (phase \in {"weak", "fin0", "fin1", "done"})

Started(o) == o \in markedObjects /\ o \notin greyObjects /\ ~HasOp({"enqueue"}, o)
Seen(o) == o \in markedObjects \/ HasOp({"visit"}, o)

\* every object is enqueued once and traced once
QueuedOnce ==
  /\ \A o \in Objects : Once(Of({"enqueue"}, o))
  /\ \A o \in Objects : HasOp({"enqueue"}, o) => o \in markedObjects /\ o \notin greyObjects
  /\ \A e \in Ephemerons : state[e] # "traced" \/ HasOp(Traces, e) => Started(e)

\* one worker at most has claimed an ephemeron, or takes it from the list
Claimed ==
  /\ \A e \in Ephemerons : Once(Of(Claims, e))
  /\ \A e \in Ephemerons : HasOp({"visitKey", "publish"}, e) => state[e] = "claimed"
  /\ \A e \in Ephemerons : HasOp(Rechecks, e) => state[e] # "claimed"
  /\ \A e \in Ephemerons : state[e] = "claimed" => HasOp(Claims, e)
  /\ \A e \in Ephemerons : HasOp({"setTraced"}, e) =>
       state[e] \in {"claimed", "resolved"} /\ key[e] \in markedObjects /\ Seen(shape.value[e])
  /\ \A e \in Ephemerons : state[e] = "resolved" \/ HasOp({"tryResolve"}, e) =>
       key[e] \in markedObjects
  /\ \A o \in Objects : HasOp(Walks, o) => o \in markedObjects

\* one worker at most puts an ephemeron on a list, the one for its state
BucketFor(e) == Bucket(BucketOf(key[e]))
Pushed ==
  /\ \A e \in Ephemerons : Once(Of(Pushes, e))
  /\ \A x \in Ops : x.op \in Pushes =>
       \/ x.cell = Resolved /\ state[x.obj] = "resolved" /\ ~HasOp({"setTraced"}, x.obj)
       \/ x.cell = BucketFor(x.obj) /\ state[x.obj] = "pending"
  /\ \A x \in Ops : x.op = "pushCas" => link[LinkOf(x.cell, x.obj)] = x.tail

\* q is what is reached from c by the references next, the last one first
Top(q) == IF q = <<>> THEN NoRef ELSE q[Len(q)]
Listed(q, e) == \E i \in DOMAIN q : q[i] = e
IsList(q, c, next) ==
  /\ c = Top(q)
  /\ \A i \in DOMAIN q : next[q[i]] = IF i = 1 THEN NoRef ELSE q[i - 1]
  /\ \A i, j \in DOMAIN q : q[i] = q[j] => i = j
ResolvedNext == [e \in Ephemerons |-> link[ResolvedLink(e)]]

\* q is the list of what is resolved, t what is left of the one being traced
ResolvedIn(q, t) ==
  /\ IsList(q, link[Resolved], ResolvedNext) /\ IsList(t, Top(t), ResolvedNext)
  /\ \A e \in Ephemerons : ~(Listed(q, e) /\ Listed(t, e))
  /\ \A e \in Ephemerons : Listed(q, e) \/ Listed(t, e) =>
       state[e] = "resolved" /\ ~HasOp({"setTraced"} \cup Pushes, e)
  /\ \A e \in Ephemerons : state[e] = "resolved" =>
       Listed(q, e) \/ Listed(t, e) \/ HasOp({"setTraced"} \cup Pushes, e)
  /\ \A r \in rootList : r.kind = "resolved" =>
       t # <<>> /\ r.obj = Top(t) /\ rootList = {r} /\ \A x \in Ops : x.op # "nextResolved"
  /\ \A x \in Ops : x.op = "nextResolved" =>
       link[ResolvedLink(x.obj)] = Top(t) /\ (state[x.obj] = "traced" \/ HasOp({"setTraced"}, x.obj))
  /\ Once({x \in OpSet : x.op = "nextResolved"})
  /\ t # <<>> => (\E r \in rootList : r.kind = "resolved") \/ \E x \in Ops : x.op = "nextResolved"

(***************************************************************************)
(* The ephemerons that have been put in buckets are ranked in that order:  *)
(* rank 0 has none.  Each link leads down, and passes by no ephemeron that *)
(* still waits; those who follow the links do so too.                      *)
(***************************************************************************)
Rank(r, e) == IF e = NoRef THEN 0 ELSE r[e]
InBucket(r, b, e) == r[e] # 0 /\ BucketFor(e) = b
IsNode(r, b, v) == v = NoRef \/ InBucket(r, b, v)
\* no ephemeron of bucket b that waits has a rank between that of v and m
NoneBetween(r, b, v, m) ==
  \A y \in Ephemerons : InBucket(r, b, y) /\ state[y] = "pending" /\ Rank(r, v) < r[y] => m <= r[y]
IsCell(r, b, c) == c = b \/ \E y \in Ephemerons : InBucket(r, b, y) /\ c = PendingLink(y)
WalkOk(r, x) ==
  LET b == Bucket(BucketOf(x.obj)) IN
  /\ IsCell(r, b, x.cell)
  /\ x.op # "follow" =>
       /\ IsNode(r, b, x.head) /\ IsNode(r, b, x.new) /\ Rank(r, x.new) <= Rank(r, x.head)
       /\ \A y \in Ephemerons : x.cell = PendingLink(y) => Rank(r, x.head) < r[y]
       /\ NoneBetween(r, b, x.new, Rank(r, x.head) + 1)
\* whoever does x will come to e
Toward(r, x, e) ==
  /\ x.op \in Walks /\ x.obj = key[e]
  /\ \A y \in Ephemerons : x.cell = PendingLink(y) => r[e] < r[y]
  /\ x.op # "follow" => r[e] <= Rank(r, x.new)
Cared(r, e) == HasOp(Rechecks, e) \/ \E x \in Ops : Toward(r, x, e)
\* a key is looked at again once its ephemeron is in its bucket
Rechecked(r) ==
  \A w \in Workers : \A i \in DOMAIN work[w] :
    work[w][i].op = "recheck" /\ r[work[w][i].obj] = 0 =>
      i = 2 /\ work[w][1].op \in Pushes /\ work[w][1].obj = work[w][2].obj /\ work[w][1].cell # Resolved
Ranked(r, n) ==
  /\ \A e \in Ephemerons : r[e] < n
  /\ \A e, f \in Ephemerons : r[e] = r[f] /\ r[e] # 0 => e = f
  /\ \A e \in Ephemerons : r[e] # 0 => state[e] # "claimed" /\ Started(e)
  /\ \A e \in Ephemerons : r[e] = 0 /\ state[e] = "pending" => HasOp(Pushes, e) /\ HasOp({"recheck"}, e)
  /\ \A e \in Ephemerons : r[e] # 0 /\ HasOp(Pushes, e) => state[e] = "resolved"
  /\ \A e \in Ephemerons : HasOp({"tryResolve"}, e) => r[e] # 0
Links(r, n) ==
  /\ \A k \in Buckets : LET b == Bucket(k) IN
       IsNode(r, b, link[b]) /\ NoneBetween(r, b, link[b], n)
  /\ \A x \in Ephemerons : r[x] # 0 =>
       LET v == link[PendingLink(x)] IN
         IsNode(r, BucketFor(x), v) /\ Rank(r, v) < r[x] /\ NoneBetween(r, BucketFor(x), v, r[x])
  /\ \A x \in Ops : x.op \in Walks => WalkOk(r, x)
Cares(r) ==
  phase # "heap" => \A e \in Ephemerons : state[e] = "pending" /\ key[e] \in markedObjects => Cared(r, e)
RankedBy(r, n) == Ranked(r, n) /\ Rechecked(r) /\ Links(r, n) /\ Cares(r)

\* what has been traced refers only to what is marked, or about to be
Black(o) ==
  /\ o \in Plain => shape.field[o] = NoRef \/ Seen(shape.field[o])
  /\ o \in Finalizers => shape.closure[o] = NoRef \/ Seen(shape.closure[o])
  /\ o \in Ephemerons /\ state[o] = "traced" => key[o] \in markedObjects /\ Seen(shape.value[o])
Tricolor == \A o \in Objects : Started(o) => Black(o)

Fired0 == FiresAt(0, Alive0)
Fired1 == FiresAt(1, Alive1)
ObjectsOf(F) == {shape.object[f] : f \in F}
RootsNow ==
  CASE phase \in {"heap", "weak"} -> shape.roots \cup Finalizers
    [] phase = "fin0" -> Alive0 \cup ObjectsOf(Fired0)
    [] OTHER -> Alive1 \cup ObjectsOf(Fired1)
AliveNow == LivesWith(RootsNow)
RootsKept == \A o \in RootsNow : Seen(o) \/ Root(o) \in rootList
OnlyAlive ==
  /\ markedObjects \subseteq AliveNow
  /\ \A x \in Ops : x.op = "visit" => x.obj \in AliveNow \cup {NoRef}
  /\ \A r \in rootList : r.kind = "edge" => r.obj \in AliveNow

FiredNow ==
  CASE phase \in {"attach", "heap", "weak"} -> {}
    [] phase = "fin0" -> Fired0
    [] OTHER -> Fired0 \cup Fired1
Ofp(p) == {f \in Finalizers : shape.priority[f] = p}
\* q is the list of the finalizers that fired and are not handed out
IsFired(q) ==
  /\ IsList(q, firedList[FiredHead], firedList)
  /\ \A i, j \in DOMAIN handed : handed[i] = handed[j] => i = j
  /\ \A f \in Finalizers : ~(Listed(q, f) /\ Listed(handed, f))
  /\ \A f \in Finalizers : f \in FiredNow <=> Listed(q, f) \/ Listed(handed, f)
Tables ==
  \A p \in Priorities :
    /\ table[p] \subseteq Ofp(p)
    /\ phase # "attach" => table[p] = Ofp(p) \ FiredNow

TraceInv ==
  /\ QueuedOnce /\ Claimed /\ Pushed /\ Tricolor /\ RootsKept /\ OnlyAlive
  /\ \E q, t \in Seq(Ephemerons) : ResolvedIn(q, t)
  /\ \E r \in [Ephemerons -> Nat], n \in Nat : RankedBy(r, n)
WeakInv ==
  /\ WeakTypes /\ Phases /\ Tables
  /\ \E q \in Seq(Finalizers) : IsFired(q)
  /\ Tracing => TraceInv
  /\ MarkedIsAlive

-------------------------------------------------------------------------------
(* Operations, and the stacks they are on *)

LEMMA OpKinds ==
  ASSUME NEW x \in OpSet
  PROVE  /\ x.op \in Traces => x.obj \in Ephemerons
         /\ x.op \in Pushes => x.cell \in Cells
         /\ x.op = "pushCas" => x.tail \in Ephs
         /\ x.op \in Walks \cup {"enqueue"} => x.obj \in Objects
         /\ x.op \in Walks => x.cell \in Cells
         /\ x.op \in {"skip", "followCas"} => x.head \in Ephs /\ x.new \in Ephs
         /\ x.op = "visit" => x.obj \in Objects \cup {NoRef}
         /\ x.op = "pop" => x.obj \in Finalizers
BY DEF OpSet, Traces, Pushes, Walks

LEMMA OpsTyped ==
  /\ \A o \in Objects \cup {NoRef} : VisitObject(o) \in OpSet
  /\ \A o \in Objects : Enqueue(o) \in OpSet
  /\ \A e \in Ephemerons :
       {VisitKey(e), Publish(e), Recheck(e), SetTraced(e), TryResolve(e), NextResolved(e)} \subseteq OpSet
  /\ \A c \in Cells, e \in Ephemerons : Push(c, e) \in OpSet
  /\ \A c \in Cells, e \in Ephemerons, v \in Ephs : PushCas(c, e, v) \in OpSet
  /\ \A c \in Cells, o \in Objects : Follow(c, o) \in OpSet
  /\ \A c \in Cells, o \in Objects, h, v \in Ephs :
       Skip(c, o, h, v) \in OpSet /\ FollowCas(c, o, h, v) \in OpSet
<1>1. /\ \A o \in Objects \cup {NoRef} : VisitObject(o) \in OpSet
      /\ \A o \in Objects : Enqueue(o) \in OpSet
  BY DEF OpSet, VisitObject, Enqueue
<1>2. \A e \in Ephemerons :
        {VisitKey(e), Publish(e), Recheck(e), SetTraced(e), TryResolve(e), NextResolved(e)} \subseteq OpSet
  BY DEF OpSet, VisitKey, Publish, Recheck, SetTraced, TryResolve, NextResolved
<1>3. /\ \A c \in Cells, e \in Ephemerons : Push(c, e) \in OpSet
      /\ \A c \in Cells, e \in Ephemerons, v \in Ephs : PushCas(c, e, v) \in OpSet
  BY DEF OpSet, Push, PushCas
<1>4. /\ \A c \in Cells, o \in Objects : Follow(c, o) \in OpSet
      /\ \A c \in Cells, o \in Objects, h, v \in Ephs :
           Skip(c, o, h, v) \in OpSet /\ FollowCas(c, o, h, v) \in OpSet
  BY DEF OpSet, Follow, Skip, FollowCas
<1>5. QED
  BY <1>1, <1>2, <1>3, <1>4

\* The cells of the lists are apart.
LEMMA CellsApart ==
  /\ \A b \in Buckets : Bucket(b) \in Cells /\ Bucket(b) # Resolved
  /\ \A b, c \in Buckets : Bucket(b) = Bucket(c) => b = c
  /\ \A b \in Buckets, e \in Ephemerons : Bucket(b) # PendingLink(e) /\ Bucket(b) # ResolvedLink(e)
  /\ Resolved \in Cells
  /\ \A e \in Ephemerons :
       /\ PendingLink(e) \in Cells /\ ResolvedLink(e) \in Cells
       /\ PendingLink(e) # Resolved /\ ResolvedLink(e) # Resolved
  /\ \A e, f \in Ephemerons :
       /\ PendingLink(e) # ResolvedLink(f)
       /\ PendingLink(e) = PendingLink(f) \/ ResolvedLink(e) = ResolvedLink(f) => e = f
BY WeakAssumption DEF Bucket, Resolved, PendingLink, ResolvedLink, Cells, FiredHead, Objects

\* A worker's first operation gives way to ops, or ops are all it has.
Given(w, ops) == work' = [work EXCEPT ![w] = IF @ = <<>> THEN ops ELSE ops \o Tail(@)]

\* r has ops, then what s has but for its first one.
Spliced(s, ops, r) ==
  /\ \A i \in DOMAIN ops : i \in DOMAIN r /\ r[i] = ops[i]
  /\ \A i \in DOMAIN s : i > 1 =>
       i - 1 + Len(ops) \in DOMAIN r /\ r[i - 1 + Len(ops)] = s[i]
  /\ \A i \in DOMAIN r : i \notin DOMAIN ops =>
       /\ i + 1 - Len(ops) \in DOMAIN s /\ i + 1 - Len(ops) > 1
       /\ r[i] = s[i + 1 - Len(ops)]

LEMMA Replaced ==
  ASSUME NEW S, NEW s \in Seq(S), NEW ops \in Seq(S), NEW r,
         r = IF s = <<>> THEN ops ELSE ops \o Tail(s)
  PROVE  r \in Seq(S) /\ Spliced(s, ops, r)
<1>1. CASE s = <<>>
  BY <1>1 DEF Spliced
<1>2. CASE s # <<>>
  <2>1. /\ Tail(s) \in Seq(S) /\ Len(Tail(s)) = Len(s) - 1 /\ Len(s) \in Nat \ {0}
        /\ \A i \in 1 .. Len(s) - 1 : Tail(s)[i] = s[i + 1]
    BY <1>2
  <2>2. /\ r \in Seq(S) /\ Len(r) = Len(ops) + Len(s) - 1 /\ Len(ops) \in Nat
        /\ \A i \in 1 .. Len(ops) : r[i] = ops[i]
        /\ \A i \in 1 .. Len(s) - 1 : r[Len(ops) + i] = Tail(s)[i]
    BY <1>2, <2>1
  <2>3. DOMAIN r = 1 .. Len(ops) + Len(s) - 1 /\ DOMAIN s = 1 .. Len(s) /\ DOMAIN ops = 1 .. Len(ops)
    BY <2>2
  <2>4. ASSUME NEW i \in DOMAIN s, i > 1
        PROVE  i - 1 + Len(ops) \in DOMAIN r /\ r[i - 1 + Len(ops)] = s[i]
    <3>1. i - 1 \in 1 .. Len(s) - 1 /\ Len(ops) + (i - 1) = i - 1 + Len(ops)
      BY <2>1, <2>2, <2>3, <2>4
    <3>2. r[Len(ops) + (i - 1)] = Tail(s)[i - 1] /\ Tail(s)[i - 1] = s[i]
      BY <2>1, <2>2, <3>1
    <3>3. QED
      BY <2>2, <2>3, <3>1, <3>2
  <2>5. ASSUME NEW i \in DOMAIN r, i \notin DOMAIN ops
        PROVE  /\ i + 1 - Len(ops) \in DOMAIN s /\ i + 1 - Len(ops) > 1
               /\ r[i] = s[i + 1 - Len(ops)]
    <3> DEFINE j == i + 1 - Len(ops)
    <3>1. j - 1 \in 1 .. Len(s) - 1 /\ j \in 1 .. Len(s) /\ j > 1 /\ i - 1 \in Nat
          /\ j - 1 + Len(ops) = i
      BY <2>1, <2>2, <2>3, <2>5
    <3>2. r[i] = s[j]
      BY <2>3, <2>4, <3>1
    <3>3. QED
      BY <2>3, <3>1, <3>2
  <2>6. \A i \in DOMAIN ops : i \in DOMAIN r /\ r[i] = ops[i]
    BY <2>2, <2>3
  <2>7. \A i \in DOMAIN s : i > 1 =>
          i - 1 + Len(ops) \in DOMAIN r /\ r[i - 1 + Len(ops)] = s[i]
    BY ONLY <2>4
  <2>8. \A i \in DOMAIN r : i \notin DOMAIN ops =>
          /\ i + 1 - Len(ops) \in DOMAIN s /\ i + 1 - Len(ops) > 1
          /\ r[i] = s[i + 1 - Len(ops)]
    BY ONLY <2>5
  <2>9. QED
    BY Zenon, <2>2, <2>6, <2>7, <2>8 DEF Spliced
<1>3. QED
  BY <1>1, <1>2

LEMMA GivenStack ==
  ASSUME WeakTypes, NEW w \in Workers, NEW ops \in Seq(OpSet), Given(w, ops)
  PROVE  /\ work' \in [Workers -> Seq(OpSet)]
         /\ \A u \in Workers \ {w} : work'[u] = work[u]
         /\ \A i \in DOMAIN ops : i \in DOMAIN work'[w] /\ work'[w][i] = ops[i]
         /\ \A i \in DOMAIN work[w] : i > 1 =>
              i - 1 + Len(ops) \in DOMAIN work'[w] /\ work'[w][i - 1 + Len(ops)] = work[w][i]
         /\ \A i \in DOMAIN work'[w] : i \notin DOMAIN ops =>
              /\ i + 1 - Len(ops) \in DOMAIN work[w] /\ i + 1 - Len(ops) > 1
              /\ work'[w][i] = work[w][i + 1 - Len(ops)]
<1>1. work[w] \in Seq(OpSet) /\ work'[w] = IF work[w] = <<>> THEN ops ELSE ops \o Tail(work[w])
  BY DEF WeakTypes, Given
<1>2. \A u \in Workers \ {w} : work'[u] = work[u]
  BY DEF WeakTypes, Given
<1>3. work'[w] \in Seq(OpSet) /\ Spliced(work[w], ops, work'[w])
  BY <1>1, Replaced
<1>4. work' \in [Workers -> Seq(OpSet)]
  <2>1. work' = [u \in Workers |-> work'[u]]
    BY DEF WeakTypes, Given
  <2>2. \A u \in Workers : work'[u] \in Seq(OpSet)
    BY <1>2, <1>3 DEF WeakTypes
  <2>3. QED
    BY <2>1, <2>2
<1>5. QED
  BY Zenon, <1>2, <1>3, <1>4 DEF Spliced

(***************************************************************************)
(* The operations X give way to the operations N: what that does to the    *)
(* set of operations, and to how often one of S is there.                  *)
(***************************************************************************)
Swaps(X, N) ==
  /\ work' \in [Workers -> Seq(OpSet)]
  /\ X \subseteq Ops /\ N \subseteq Ops' /\ Ops' \subseteq Ops \cup N /\ Ops \subseteq Ops' \cup X
  /\ \A S : /\ Once(S)
            /\ \A y, z \in N : y \in S /\ z \in S => y = z
            /\ \/ \A y \in N : y \notin S
               \/ \A y \in Ops : y \notin S
               \/ \E y \in X : y \in S
            => Once(S)'
  /\ \A S : Once(S) /\ (\E y \in X : y \in S) /\ (\A y \in N : y \notin S) => \A y \in Ops' : y \notin S

LEMMA SwapsGiven ==
  ASSUME WeakTypes, NEW w \in Workers, NEW ops \in Seq(OpSet), Given(w, ops),
         \A i, j \in DOMAIN ops : ops[i] = ops[j] => i = j
  PROVE  Swaps(IF work[w] = <<>> THEN {} ELSE {work[w][1]}, {ops[i] : i \in DOMAIN ops})
<1> DEFINE X == IF work[w] = <<>> THEN {} ELSE {work[w][1]}
           N == {ops[i] : i \in DOMAIN ops}
<1>a. work[w] \in Seq(OpSet) /\ DOMAIN work[w] = 1 .. Len(work[w]) /\ Len(work[w]) \in Nat
      /\ DOMAIN ops = 1 .. Len(ops) /\ Len(ops) \in Nat
      /\ (work[w] = <<>> <=> Len(work[w]) = 0)
  BY DEF WeakTypes
<1>b. \A i \in DOMAIN work[w] : i > 1 \/ i = 1
  BY <1>a
<1>1. X \subseteq Ops
  <2>1. work[w] # <<>> => 1 \in DOMAIN work[w]
    BY <1>a
  <2>2. QED
    BY <2>1 DEF Ops
<1>2. N \subseteq Ops'
  <2>1. \A i \in DOMAIN ops : i \in DOMAIN work'[w] /\ work'[w][i] = ops[i]
    BY GivenStack
  <2>2. QED
    BY <2>1 DEF Ops
<1>3. ASSUME NEW y \in Ops' PROVE y \in Ops \cup N
  <2>1. PICK u \in Workers : \E i \in DOMAIN work'[u] : y = work'[u][i]
    BY <1>3 DEF Ops
  <2>2. PICK i \in DOMAIN work'[u] : y = work'[u][i]
    BY <2>1
  <2>3. CASE u # w
    BY <2>2, <2>3, GivenStack DEF Ops
  <2>4. CASE u = w /\ i \in DOMAIN ops
    <3>1. work'[w][i] = ops[i]
      BY <2>4, GivenStack
    <3>2. QED
      BY <2>2, <2>4, <3>1
  <2>5. CASE u = w /\ i \notin DOMAIN ops
    <3>1. i + 1 - Len(ops) \in DOMAIN work[w] /\ work'[w][i] = work[w][i + 1 - Len(ops)]
      BY <2>2, <2>5, GivenStack
    <3>2. QED
      BY <2>2, <2>5, <3>1 DEF Ops
  <2>6. QED
    BY <2>3, <2>4, <2>5
<1>4. ASSUME NEW y \in Ops PROVE y \in Ops' \cup X
  <2>1. PICK u \in Workers : \E i \in DOMAIN work[u] : y = work[u][i]
    BY <1>4 DEF Ops
  <2>2. PICK i \in DOMAIN work[u] : y = work[u][i]
    BY <2>1
  <2>3. CASE u # w
    <3>1. work'[u] = work[u]
      BY <2>3, GivenStack
    <3>2. QED
      BY <2>2, <3>1 DEF Ops
  <2>4. CASE u = w /\ i = 1
    BY <1>a, <2>2, <2>4
  <2>5. CASE u = w /\ i > 1
    <3>1. i - 1 + Len(ops) \in DOMAIN work'[w] /\ work'[w][i - 1 + Len(ops)] = work[w][i]
      BY <2>2, <2>5, GivenStack
    <3>2. QED
      BY <2>2, <2>5, <3>1 DEF Ops
  <2>6. QED
    BY <1>b, <2>2, <2>3, <2>4, <2>5
\* where an operation that is not one of N was
<1>5. ASSUME NEW u \in Workers, NEW i \in DOMAIN work'[u], work'[u][i] \notin N
      PROVE  LET j == IF u = w THEN i + 1 - Len(ops) ELSE i
             IN  j \in DOMAIN work[u] /\ work[u][j] = work'[u][i] /\ (u = w => j > 1)
  <2>1. CASE u # w
    BY <2>1, GivenStack
  <2>2. CASE u = w
    <3>1. i \notin DOMAIN ops
      BY <1>5, <2>2, GivenStack
    <3>2. QED
      BY <2>2, <3>1, GivenStack
  <2>3. QED
    BY <2>1, <2>2
<1>7. ASSUME NEW S, Once(S), \E y \in X : y \in S, NEW u \in Workers, NEW i \in DOMAIN work'[u],
             work'[u][i] \in S
      PROVE  u = w /\ i \in DOMAIN ops
  <2>1. work[w] # <<>> /\ work[w][1] \in S /\ 1 \in DOMAIN work[w]
    BY <1>7, <1>a
  <2>2. CASE u # w
    <3>1. i \in DOMAIN work[u] /\ work[u][i] \in S
      BY <1>7, <2>2, GivenStack
    <3>2. QED
      BY <1>7, <2>1, <2>2, <3>1 DEF Once
  <2>3. CASE u = w /\ i \notin DOMAIN ops
    <3> DEFINE j == i + 1 - Len(ops)
    <3>1. j \in DOMAIN work[w] /\ j > 1 /\ work[w][j] \in S
      BY <1>7, <2>3, GivenStack
    <3>2. j = 1
      BY <1>7, <2>1, <3>1 DEF Once
    <3>3. QED
      BY <3>1, <3>2
  <2>4. QED
    BY <2>2, <2>3
<1>8. ASSUME NEW S, Once(S), \A y \in N : y \notin S
      PROVE  Once(S)'
  <2>1. SUFFICES ASSUME NEW u \in Workers, NEW v \in Workers, NEW i \in DOMAIN work'[u],
                        NEW j \in DOMAIN work'[v], work'[u][i] \in S, work'[v][j] \in S
                 PROVE  u = v /\ i = j
    BY DEF Once
  <2> DEFINE a == IF u = w THEN i + 1 - Len(ops) ELSE i
             b == IF v = w THEN j + 1 - Len(ops) ELSE j
  <2>2. a \in DOMAIN work[u] /\ work[u][a] = work'[u][i]
    BY <1>5, <1>8, <2>1
  <2>3. b \in DOMAIN work[v] /\ work[v][b] = work'[v][j]
    BY <1>5, <1>8, <2>1
  <2>4. u = v /\ a = b
    BY <1>8, <2>1, <2>2, <2>3 DEF Once
  <2>5. work' \in [Workers -> Seq(OpSet)]
    BY GivenStack
  <2>6. i \in Nat /\ j \in Nat
    BY <2>5
  <2>7. QED
    BY <1>a, <2>4, <2>6
<1>9. ASSUME NEW S, \A y, z \in N : y \in S /\ z \in S => y = z,
             \A u \in Workers : \A i \in DOMAIN work'[u] :
               work'[u][i] \in S => u = w /\ i \in DOMAIN ops
      PROVE  Once(S)'
  <2>1. SUFFICES ASSUME NEW u \in Workers, NEW v \in Workers, NEW i \in DOMAIN work'[u],
                        NEW j \in DOMAIN work'[v], work'[u][i] \in S, work'[v][j] \in S
                 PROVE  u = v /\ i = j
    BY DEF Once
  <2>2. u = w /\ v = w /\ i \in DOMAIN ops /\ j \in DOMAIN ops
    BY <1>9, <2>1
  <2>3. work'[w][i] = ops[i] /\ work'[w][j] = ops[j]
    BY <2>2, GivenStack
  <2>4. ops[i] = ops[j]
    BY <1>9, <2>1, <2>2, <2>3
  <2>5. QED
    BY <2>2, <2>4
<1>10. ASSUME NEW S, \A y \in Ops : y \notin S, NEW u \in Workers, NEW i \in DOMAIN work'[u],
              work'[u][i] \in S
       PROVE  u = w /\ i \in DOMAIN ops
  <2>1. work'[u][i] \in Ops'
    BY DEF Ops
  <2>2. ASSUME u # w \/ i \notin DOMAIN ops PROVE FALSE
    <3> DEFINE j == IF u = w THEN i + 1 - Len(ops) ELSE i
    <3>1. j \in DOMAIN work[u] /\ work[u][j] = work'[u][i]
      BY <2>2, GivenStack
    <3>2. QED
      BY <1>10, <3>1 DEF Ops
  <2>3. QED
    BY <2>2
<1>11. ASSUME NEW S, Once(S), \E y \in X : y \in S, \A y \in N : y \notin S
       PROVE  \A y \in Ops' : y \notin S
  <2>1. SUFFICES ASSUME NEW y \in Ops', y \in S PROVE FALSE
    OBVIOUS
  <2>2. PICK u \in Workers : \E i \in DOMAIN work'[u] : y = work'[u][i]
    BY DEF Ops
  <2>3. PICK i \in DOMAIN work'[u] : y = work'[u][i]
    BY <2>2
  <2>4. u = w /\ i \in DOMAIN ops
    BY <1>7, <1>11, <2>1, <2>3
  <2>5. work'[w][i] = ops[i]
    BY <2>4, GivenStack
  <2>6. QED
    BY <1>11, <2>1, <2>3, <2>4, <2>5
<1>12. ASSUME NEW S, Once(S), \A y, z \in N : y \in S /\ z \in S => y = z,
              \/ \A y \in N : y \notin S
              \/ \A y \in Ops : y \notin S
              \/ \E y \in X : y \in S
       PROVE  Once(S)'
  <2>1. CASE \A y \in N : y \notin S
    BY <1>8, <1>12, <2>1
  <2>2. CASE \A y \in Ops : y \notin S
    BY <1>9, <1>10, <1>12, <2>2
  <2>3. CASE \E y \in X : y \in S
    BY <1>7, <1>9, <1>12, <2>3
  <2>4. QED
    BY <1>12, <2>1, <2>2, <2>3
<1>13. work' \in [Workers -> Seq(OpSet)]
  BY GivenStack
<1>14. QED
  BY <1>13, <1>1, <1>2, <1>3, <1>4, <1>11, <1>12 DEF Swaps

LEMMA OpsIn ==
  ASSUME WeakTypes
  PROVE  Ops \subseteq OpSet
<1>1. ASSUME NEW w \in Workers, NEW i \in DOMAIN work[w] PROVE work[w][i] \in OpSet
  BY DEF WeakTypes
<1>2. QED
  BY <1>1 DEF Ops

\* The same, by the kinds K of operations and what they are of.
Becomes(X, N) ==
  /\ work' \in [Workers -> Seq(OpSet)]
  /\ X \subseteq Ops /\ N \subseteq Ops' /\ Ops' \subseteq Ops \cup N /\ Ops \subseteq Ops' \cup X
  /\ \A K, o : HasOp(K, o) => HasOp(K, o)' \/ \E x \in X : x.op \in K /\ x.obj = o
  /\ \A K, o : HasOp(K, o)' => HasOp(K, o) \/ \E y \in N : y.op \in K /\ y.obj = o
  /\ \A K, o : (\E y \in N : y.op \in K /\ y.obj = o) => HasOp(K, o)'
  /\ \A K, o : (\E x \in X : x.op \in K /\ x.obj = o) => HasOp(K, o)
  /\ \A K, o :
       /\ Once(Of(K, o))
       /\ \A y, z \in N : y.op \in K /\ y.obj = o /\ z.op \in K /\ z.obj = o => y = z
       /\ \/ \A y \in N : ~(y.op \in K /\ y.obj = o)
          \/ ~HasOp(K, o)
          \/ \E x \in X : x.op \in K /\ x.obj = o
       => Once(Of(K, o))'
  /\ \A K, o :
       /\ Once(Of(K, o))
       /\ \E x \in X : x.op \in K /\ x.obj = o
       /\ \A y \in N : ~(y.op \in K /\ y.obj = o)
       => ~HasOp(K, o)'
  /\ LET S == {x \in OpSet : x.op = "nextResolved"} IN
       /\ Once(S) /\ \A y, z \in N : y.op = "nextResolved" /\ z.op = "nextResolved" => y = z
       /\ \/ \A y \in N : y.op # "nextResolved"
          \/ \A y \in Ops : y.op # "nextResolved"
          \/ \E y \in X : y.op = "nextResolved"
       => Once(S)'
  /\ LET S == {x \in OpSet : x.op = "nextResolved"} IN
       Once(S) /\ (\E y \in X : y.op = "nextResolved") /\ (\A y \in N : y.op # "nextResolved")
         => \A y \in Ops' : y.op # "nextResolved"

LEMMA Moved ==
  ASSUME WeakTypes, NEW X, NEW N, Swaps(X, N)
  PROVE  Becomes(X, N)
<1>0. Ops \subseteq OpSet /\ Ops' \subseteq OpSet
  <2>1. work' \in [Workers -> Seq(OpSet)]
    BY DEF Swaps
  <2>2. ASSUME NEW w \in Workers, NEW i \in DOMAIN work'[w] PROVE work'[w][i] \in OpSet
    BY <2>1
  <2>3. Ops' \subseteq OpSet
    BY <2>2 DEF Ops
  <2>4. QED
    BY <2>3, OpsIn
<1>1. X \subseteq Ops /\ N \subseteq Ops' /\ Ops' \subseteq Ops \cup N /\ Ops \subseteq Ops' \cup X
  BY DEF Swaps
<1>2. /\ \A K, o : HasOp(K, o) => HasOp(K, o)' \/ \E x \in X : x.op \in K /\ x.obj = o
      /\ \A K, o : HasOp(K, o)' => HasOp(K, o) \/ \E y \in N : y.op \in K /\ y.obj = o
      /\ \A K, o : (\E y \in N : y.op \in K /\ y.obj = o) => HasOp(K, o)'
      /\ \A K, o : (\E x \in X : x.op \in K /\ x.obj = o) => HasOp(K, o)
  <2> HIDE DEF Ops
  <2>1. QED
    BY <1>1 DEF HasOp
<1>3. ASSUME NEW K, NEW o, Once(Of(K, o)),
             \A y, z \in N : y.op \in K /\ y.obj = o /\ z.op \in K /\ z.obj = o => y = z,
             \/ \A y \in N : ~(y.op \in K /\ y.obj = o)
             \/ ~HasOp(K, o)
             \/ \E x \in X : x.op \in K /\ x.obj = o
      PROVE  Once(Of(K, o))'
  <2> DEFINE S == Of(K, o)
  <2>1. \A y \in OpSet : y \in S <=> y.op \in K /\ y.obj = o
    BY DEF Of
  <2> HIDE DEF S
  <2>2. \A y \in N : y \in S <=> y.op \in K /\ y.obj = o
    BY <1>0, <1>1, <2>1
  <2>3. \A x \in Ops : x \in S <=> x.op \in K /\ x.obj = o
    BY <1>0, <2>1
  <2>4. \A y, z \in N : y \in S /\ z \in S => y = z
    BY <1>3, <2>2
  <2>5. \/ \A y \in N : y \notin S
        \/ \A y \in Ops : y \notin S
        \/ \E y \in X : y \in S
    BY <1>1, <1>3, <2>2, <2>3 DEF HasOp
  <2>6. Once(S)
    BY <1>3 DEF S
  <2>7. Once(S)'
    BY <2>4, <2>5, <2>6 DEF Swaps
  <2>8. QED
    BY <2>7 DEF S, Of
<1>4. ASSUME NEW K, NEW o, Once(Of(K, o)), \E x \in X : x.op \in K /\ x.obj = o,
             \A y \in N : ~(y.op \in K /\ y.obj = o)
      PROVE  ~HasOp(K, o)'
  <2> DEFINE S == Of(K, o)
  <2>1. \A y \in OpSet : y \in S <=> y.op \in K /\ y.obj = o
    BY DEF Of
  <2>2. Once(S)
    BY <1>4
  <2> HIDE DEF S
  <2>3. \A y \in N : y \notin S
    BY <1>0, <1>1, <1>4, <2>1
  <2>4. \E x \in X : x \in S
    BY <1>0, <1>1, <1>4, <2>1
  <2>5. \A y \in Ops' : y \notin S
    BY <2>2, <2>3, <2>4 DEF Swaps
  <2>6. QED
    BY <1>0, <2>1, <2>5 DEF HasOp
<1> DEFINE R == {x \in OpSet : x.op = "nextResolved"}
<1>5. \A y \in OpSet : y \in R <=> y.op = "nextResolved"
  OBVIOUS
<1>6. /\ \A y \in Ops \cup Ops' : y \in R <=> y.op = "nextResolved"
      /\ \A y \in X \cup N : y \in R <=> y.op = "nextResolved"
  BY <1>0, <1>1, <1>5
<1>7. ASSUME Once(R), \A y, z \in N : y.op = "nextResolved" /\ z.op = "nextResolved" => y = z,
             \/ \A y \in N : y.op # "nextResolved"
             \/ \A y \in Ops : y.op # "nextResolved"
             \/ \E y \in X : y.op = "nextResolved"
      PROVE  Once(R)'
  <2> HIDE DEF R
  <2>1. \A y, z \in N : y \in R /\ z \in R => y = z
    BY <1>6, <1>7
  <2>2. (\A y \in N : y \notin R) \/ (\A y \in Ops : y \notin R) \/ (\E y \in X : y \in R)
    BY <1>6, <1>7
  <2>3. QED
    BY <1>7, <2>1, <2>2 DEF Swaps
<1>8. ASSUME Once(R), \E y \in X : y.op = "nextResolved", \A y \in N : y.op # "nextResolved"
      PROVE  \A y \in Ops' : y.op # "nextResolved"
  <2> HIDE DEF R
  <2>1. (\E y \in X : y \in R) /\ (\A y \in N : y \notin R)
    BY <1>6, <1>8
  <2>2. \A y \in Ops' : y \notin R
    BY <1>8, <2>1 DEF Swaps
  <2>3. QED
    BY <1>6, <2>2
<1>9. work' \in [Workers -> Seq(OpSet)]
  BY DEF Swaps
<1>10. QED
  BY <1>1, <1>2, <1>3, <1>4, <1>7, <1>8, <1>9 DEF Becomes

LEMMA BecomesGiven ==
  ASSUME WeakTypes, NEW w \in Workers, NEW ops \in Seq(OpSet), Given(w, ops),
         \A i, j \in DOMAIN ops : ops[i] = ops[j] => i = j
  PROVE  Becomes(IF work[w] = <<>> THEN {} ELSE {work[w][1]}, {ops[i] : i \in DOMAIN ops})
BY SwapsGiven, Moved

RechecksStay == \A r : Rechecked(r) => Rechecked(r)'

\* Only a push is above an operation to look at a key again.
LEMMA RechecksGiven ==
  ASSUME WeakTypes, NEW w \in Workers, NEW ops \in Seq(OpSet), Given(w, ops),
         NEW r, NEW s, Rechecked(r), \A e \in Ephemerons : r[e] # 0 => s[e] # 0,
         \A i \in DOMAIN ops : ops[i].op # "recheck",
         \/ work[w] = <<>>
         \/ work[w][1].op \notin Pushes
         \/ work[w][1].op \in Pushes /\ s[work[w][1].obj] # 0
         \/ /\ work[w][1].op \in Pushes /\ Len(ops) = 1
            /\ ops[1].op \in Pushes /\ ops[1].obj = work[w][1].obj /\ ops[1].cell = work[w][1].cell
  PROVE  Rechecked(s)'
<1>1. SUFFICES ASSUME NEW u \in Workers, NEW i \in DOMAIN work'[u],
                      work'[u][i].op = "recheck", s[work'[u][i].obj] = 0
               PROVE  /\ i = 2 /\ work'[u][1].op \in Pushes /\ work'[u][1].obj = work'[u][2].obj
                      /\ work'[u][1].cell # Resolved
  BY DEF Rechecked
<1>2. work[u] \in Seq(OpSet) /\ work' \in [Workers -> Seq(OpSet)] /\ i \in Nat /\ Len(ops) \in Nat
  <2>1. work' \in [Workers -> Seq(OpSet)]
    BY GivenStack
  <2>2. QED
    BY <2>1 DEF WeakTypes
<1>3. CASE u # w
  <2>1. work'[u] = work[u]
    BY <1>3, GivenStack
  <2>2. work[u][i] \in OpSet
    BY <1>2, <2>1
  <2>3. work[u][i].obj \in Ephemerons
    BY <1>1, <2>1, <2>2, OpKinds DEF Traces
  <2>4. r[work[u][i].obj] = 0
    BY <1>1, <2>1, <2>3
  <2>5. QED
    BY <1>1, <2>1, <2>4 DEF Rechecked
<1>4. CASE u = w
  <2> DEFINE j == i + 1 - Len(ops)
  <2>1. i \notin DOMAIN ops
    <3>1. i \in DOMAIN ops => work'[w][i] = ops[i]
      BY GivenStack
    <3>2. QED
      BY <1>1, <1>4, <3>1
  <2>2. j \in DOMAIN work[w] /\ j > 1 /\ work'[w][i] = work[w][j]
    BY <1>4, <2>1, GivenStack
  <2>3. work[w] # <<>> /\ work[w][j] \in OpSet
    BY <1>2, <1>4, <2>2
  <2>4. work[w][j].obj \in Ephemerons
    BY <1>1, <1>4, <2>2, <2>3, OpKinds DEF Traces
  <2>5. r[work[w][j].obj] = 0 /\ work[w][j].op = "recheck"
    BY <1>1, <1>4, <2>2, <2>4
  <2>6. /\ j = 2 /\ work[w][1].op \in Pushes /\ work[w][1].obj = work[w][j].obj
        /\ work[w][1].cell # Resolved
    BY <2>2, <2>5 DEF Rechecked
  <2>7. s[work[w][1].obj] = 0
    BY <1>1, <1>4, <2>2, <2>6
  <2>8. Len(ops) = 1 /\ ops[1].op \in Pushes /\ ops[1].obj = work[w][1].obj /\ ops[1].cell = work[w][1].cell
    BY <2>3, <2>6, <2>7
  <2>9. i = 2 /\ 1 \in DOMAIN ops
    BY <1>2, <2>6, <2>8
  <2>10. work'[w][1] = ops[1]
    BY <2>9, GivenStack
  <2>11. QED
    BY <1>4, <2>2, <2>6, <2>8, <2>9, <2>10
<1>5. QED
  BY <1>3, <1>4

LEMMA HeadOp ==
  ASSUME WeakTypes, NEW w \in Workers, work[w] # <<>>
  PROVE  Op(w) = work[w][1] /\ Op(w) \in Ops /\ Op(w) \in OpSet
<1>1. work[w] \in Seq(OpSet) /\ 1 \in DOMAIN work[w]
  BY DEF WeakTypes
<1>2. work[w][1] \in OpSet /\ Op(w) = work[w][1]
  BY <1>1 DEF Op
<1>3. QED
  BY <1>1, <1>2 DEF Ops

LEMMA InsteadGiven ==
  ASSUME WeakTypes, NEW w \in Workers, work[w] # <<>>, NEW ops, Instead(w, ops)
  PROVE  Given(w, ops)
BY DEF Instead, Given, WeakTypes

\* From the first operation x: to none, to one, to two, to three others.
LEMMA StepTo0 ==
  ASSUME WeakTypes, NEW w \in Workers, work[w] # <<>>, Instead(w, <<>>)
  PROVE  Becomes({Op(w)}, {}) /\ (Op(w).op \notin Pushes => RechecksStay)
<1> DEFINE ops == <<>>
<1>1. Given(w, ops) /\ ops \in Seq(OpSet) /\ Op(w) = work[w][1]
  BY InsteadGiven, HeadOp
<1>0. DOMAIN ops = {}
  OBVIOUS
<1> HIDE DEF ops
<1>2. Becomes({work[w][1]}, {ops[i] : i \in DOMAIN ops})
  BY <1>0, <1>1, BecomesGiven
<1>3. {ops[i] : i \in DOMAIN ops} = {}
  BY <1>0
<1>4. ASSUME Op(w).op \notin Pushes, NEW r, Rechecked(r) PROVE Rechecked(r)'
  BY <1>0, <1>1, <1>4, RechecksGiven
<1>5. QED
  BY <1>2, <1>3, <1>1, <1>4 DEF RechecksStay

LEMMA StepTo1 ==
  ASSUME WeakTypes, NEW w \in Workers, work[w] # <<>>, NEW a \in OpSet, Instead(w, <<a>>)
  PROVE  Becomes({Op(w)}, {a}) /\ (Op(w).op \notin Pushes /\ a.op # "recheck" => RechecksStay)
<1>1. Given(w, <<a>>) /\ <<a>> \in Seq(OpSet) /\ Op(w) = work[w][1]
  BY InsteadGiven, HeadOp
<1>2. DOMAIN <<a>> = {1} /\ <<a>>[1] = a
  OBVIOUS
<1>3. \A i, j \in DOMAIN <<a>> : <<a>>[i] = <<a>>[j] => i = j
  BY <1>2
<1>4. Becomes({work[w][1]}, {<<a>>[i] : i \in DOMAIN <<a>>})
  BY <1>1, <1>3, BecomesGiven
<1>5. {<<a>>[i] : i \in DOMAIN <<a>>} = {a}
  BY <1>2
<1>6. ASSUME Op(w).op \notin Pushes, a.op # "recheck", NEW r, Rechecked(r) PROVE Rechecked(r)'
  <2>1. \A i \in DOMAIN <<a>> : <<a>>[i].op # "recheck"
    BY <1>2, <1>6
  <2>2. QED
    BY <1>1, <1>6, <2>1, RechecksGiven
<1>7. QED
  BY <1>1, <1>4, <1>5, <1>6 DEF RechecksStay

LEMMA StepTo2 ==
  ASSUME WeakTypes, NEW w \in Workers, work[w] # <<>>, NEW a \in OpSet, NEW b \in OpSet, a # b,
         Instead(w, <<a, b>>)
  PROVE  /\ Becomes({Op(w)}, {a, b})
         /\ Op(w).op \notin Pushes /\ a.op # "recheck" /\ b.op # "recheck" => RechecksStay
<1> DEFINE ops == <<a, b>>
<1>1. Given(w, ops) /\ ops \in Seq(OpSet) /\ Op(w) = work[w][1]
  BY InsteadGiven, HeadOp
<1>2. DOMAIN ops = {1, 2} /\ ops[1] = a /\ ops[2] = b
  OBVIOUS
<1>3. \A i, j \in DOMAIN ops : ops[i] = ops[j] => i = j
  BY <1>2
<1> HIDE DEF ops
<1>4. Becomes({work[w][1]}, {ops[i] : i \in DOMAIN ops})
  BY <1>1, <1>3, BecomesGiven
<1>5. {ops[i] : i \in DOMAIN ops} = {a, b}
  BY <1>2
<1>6. ASSUME Op(w).op \notin Pushes, a.op # "recheck", b.op # "recheck", NEW r, Rechecked(r)
      PROVE  Rechecked(r)'
  <2>1. \A i \in DOMAIN ops : ops[i].op # "recheck"
    BY <1>2, <1>6
  <2>2. QED
    BY <1>1, <1>6, <2>1, RechecksGiven
<1>7. QED
  BY <1>1, <1>4, <1>5, <1>6 DEF RechecksStay

LEMMA StepTo3 ==
  ASSUME WeakTypes, NEW w \in Workers, NEW a \in OpSet, NEW b \in OpSet, NEW c \in OpSet,
         a # b, b # c, c # a, a.op # "recheck", b.op # "recheck", c.op # "recheck",
         Given(w, <<a, b, c>>), work[w] # <<>> => Op(w).op \notin Pushes
  PROVE  /\ Becomes(IF work[w] = <<>> THEN {} ELSE {Op(w)}, {a, b, c})
         /\ RechecksStay
<1> DEFINE ops == <<a, b, c>>
<1>1. Given(w, ops) /\ ops \in Seq(OpSet) /\ (work[w] # <<>> => Op(w) = work[w][1])
  BY HeadOp
<1>2. DOMAIN ops = {1, 2, 3} /\ ops[1] = a /\ ops[2] = b /\ ops[3] = c
  OBVIOUS
<1>3. \A i, j \in DOMAIN ops : ops[i] = ops[j] => i = j
  BY <1>2
<1> HIDE DEF ops
<1>4. Becomes(IF work[w] = <<>> THEN {} ELSE {work[w][1]}, {ops[i] : i \in DOMAIN ops})
  BY <1>1, <1>3, BecomesGiven
<1>5. {ops[i] : i \in DOMAIN ops} = {a, b, c}
  BY <1>2
<1>6. ASSUME NEW r, Rechecked(r) PROVE Rechecked(r)'
  <2>1. \A i \in DOMAIN ops : ops[i].op # "recheck"
    BY <1>2
  <2>2. QED
    BY <1>1, <1>6, <2>1, RechecksGiven
<1>7. QED
  BY <1>1, <1>4, <1>5, <1>6 DEF RechecksStay

LEMMA StepFromNone ==
  ASSUME WeakTypes, NEW w \in Workers, work[w] = <<>>, NEW a \in OpSet, a.op # "recheck",
         work' = [work EXCEPT ![w] = <<a>>]
  PROVE  Becomes({}, {a}) /\ RechecksStay
<1>1. Given(w, <<a>>) /\ <<a>> \in Seq(OpSet)
  BY DEF Given, WeakTypes
<1>2. DOMAIN <<a>> = {1} /\ <<a>>[1] = a
  OBVIOUS
<1>3. \A i, j \in DOMAIN <<a>> : <<a>>[i] = <<a>>[j] => i = j
  BY <1>2
<1>4. Becomes({}, {<<a>>[i] : i \in DOMAIN <<a>>})
  BY <1>1, <1>3, BecomesGiven
<1>5. {<<a>>[i] : i \in DOMAIN <<a>>} = {a}
  BY <1>2
<1>6. ASSUME NEW r, Rechecked(r) PROVE Rechecked(r)'
  <2>1. \A i \in DOMAIN <<a>> : <<a>>[i].op # "recheck"
    BY <1>2
  <2>2. QED
    BY <1>1, <1>6, <2>1, RechecksGiven
<1>7. QED
  BY <1>4, <1>5, <1>6 DEF RechecksStay

-------------------------------------------------------------------------------
(* What each step does to the operations *)

LEMMA ShapeTypes ==
  ASSUME WeakTypes
  PROVE  /\ \A o \in Plain : shape.field[o] \in Objects \cup {NoRef}
         /\ \A e \in Ephemerons : shape.key[e] \in Objects /\ shape.value[e] \in Objects
         /\ shape.roots \subseteq Objects
         /\ \A f \in Finalizers :
              /\ shape.object[f] \in Objects /\ shape.closure[f] \in Objects \cup {NoRef}
              /\ shape.priority[f] \in Priorities
         /\ NoRef \notin Objects
<1>1. shape \in Shapes
  BY DEF WeakTypes
<1>2. /\ shape.field \in [Plain -> Objects \cup {NoRef}]
      /\ shape.key \in [Ephemerons -> Objects] /\ shape.value \in [Ephemerons -> Objects]
      /\ shape.roots \subseteq Objects
      /\ shape.object \in [Finalizers -> Objects]
      /\ shape.closure \in [Finalizers -> Objects \cup {NoRef}]
      /\ shape.priority \in [Finalizers -> Priorities]
      /\ NoRef \notin Objects
  BY <1>1, WeakAssumption
<1>3. QED
  BY <1>2

\* while tracing, no key is missing, and each has its bucket
LEMMA KeyTypes ==
  ASSUME WeakTypes, Phases, Tracing
  PROVE  \A e \in Ephemerons :
           /\ key[e] = shape.key[e] /\ key[e] \in Objects /\ key[e] # NoRef
           /\ BucketOf(key[e]) \in Buckets /\ BucketFor(e) \in Cells
<1>1. key = shape.key
  BY DEF Phases, Tracing
<1>2. \A e \in Ephemerons : shape.key[e] \in Objects /\ NoRef \notin Objects
  BY ShapeTypes
<1>3. QED
  BY <1>1, <1>2, CellsApart, WeakAssumption DEF BucketFor

PushLoadMoves(w) ==
  LET x == Op(w) IN
  /\ x \in Ops /\ x.op = "push" /\ x.obj \in Ephemerons /\ x.cell \in Cells /\ link[x.cell] \in Ephs
  /\ Becomes({x}, {PushCas(x.cell, x.obj, link[x.cell])}) /\ RechecksStay
  /\ link' = [link EXCEPT ![LinkOf(x.cell, x.obj)] = link[x.cell]]

LEMMA PushLoadOps ==
  ASSUME WeakTypes, NEW w \in Workers, PushLoad(w)
  PROVE  PushLoadMoves(w)
<1> USE DEF PushLoadMoves
<1> DEFINE x == Op(w)
           a == PushCas(x.cell, x.obj, link[x.cell])
<1>1. work[w] # <<>> /\ x.op = "push" /\ Instead(w, <<a>>)
  BY DEF PushLoad, Doing
<1>2. x = work[w][1] /\ x \in Ops /\ x \in OpSet
  BY <1>1, HeadOp
<1>3. x.obj \in Ephemerons /\ x.cell \in Cells
  BY <1>1, <1>2, OpKinds DEF Traces, Pushes
<1>4. link[x.cell] \in Ephs
  BY <1>3 DEF WeakTypes
<1>5. a \in OpSet
  BY <1>3, <1>4, OpsTyped
<1>6. Becomes({x}, {a})
  BY <1>1, <1>5, StepTo1
<1>7. RechecksStay
  <2> DEFINE ops == <<a>>
  <2>1. Given(w, ops) /\ ops \in Seq(OpSet) /\ Len(ops) = 1 /\ DOMAIN ops = {1} /\ ops[1] = a
    BY <1>1, <1>5, InsteadGiven
  <2>2. a.op \in Pushes /\ a.op # "recheck" /\ a.obj = x.obj /\ a.cell = x.cell
    BY DEF PushCas, Pushes
  <2>3. work[w][1].op \in Pushes
    BY <1>1, <1>2 DEF Pushes
  <2> HIDE DEF a, ops
  <2>4. ASSUME NEW r, Rechecked(r) PROVE Rechecked(r)'
    BY <1>2, <2>1, <2>2, <2>3, <2>4, RechecksGiven
  <2>5. QED
    BY <2>4 DEF RechecksStay
<1>8. link' = [link EXCEPT ![LinkOf(x.cell, x.obj)] = link[x.cell]]
  BY DEF PushLoad
<1>9. QED
  BY <1>1, <1>2, <1>3, <1>4, <1>6, <1>7, <1>8

PushSwapMoves(w) ==
  LET x == Op(w) IN
  /\ x \in Ops /\ x.op = "pushCas" /\ x.obj \in Ephemerons /\ x.cell \in Cells
  /\ \/ /\ link[x.cell] = x.tail /\ link' = [link EXCEPT ![x.cell] = x.obj]
        /\ Becomes({x}, {})
        /\ \A r, s : Rechecked(r) /\ (\A e \in Ephemerons : r[e] # 0 => s[e] # 0) /\ s[x.obj] # 0
                      => Rechecked(s)'
        /\ x.cell = Resolved => RechecksStay
     \/ /\ link[x.cell] # x.tail /\ link' = link
        /\ Becomes({x}, {Push(x.cell, x.obj)}) /\ RechecksStay

LEMMA PushSwapOps ==
  ASSUME WeakTypes, NEW w \in Workers, PushSwap(w)
  PROVE  PushSwapMoves(w)
<1> USE DEF PushSwapMoves
<1> DEFINE x == Op(w)
           a == Push(x.cell, x.obj)
<1>1. work[w] # <<>> /\ x.op = "pushCas"
  BY DEF PushSwap, Doing
<1>2. x = work[w][1] /\ x \in Ops /\ x \in OpSet
  BY <1>1, HeadOp
<1>3. x.obj \in Ephemerons /\ x.cell \in Cells
  BY <1>1, <1>2, OpKinds DEF Traces, Pushes
<1>4. work[w][1].op \in Pushes
  BY <1>1, <1>2 DEF Pushes
<1>5. CASE link[x.cell] = x.tail
  <2>1. link' = [link EXCEPT ![x.cell] = x.obj] /\ Instead(w, <<>>)
    BY <1>5 DEF PushSwap
  <2>2. Becomes({x}, {})
    BY <1>1, <2>1, StepTo0
  <2> DEFINE ops == <<>>
  <2>3. Given(w, ops) /\ ops \in Seq(OpSet) /\ DOMAIN ops = {} /\ Len(ops) = 0
    BY <1>1, <2>1, InsteadGiven
  <2> HIDE DEF ops, x
  <2>4. ASSUME NEW r, NEW s, Rechecked(r), \A e \in Ephemerons : r[e] # 0 => s[e] # 0, s[x.obj] # 0
        PROVE  Rechecked(s)'
    BY <1>2, <1>4, <2>3, <2>4, RechecksGiven
  <2>4a. \A r, s : Rechecked(r) /\ (\A e \in Ephemerons : r[e] # 0 => s[e] # 0) /\ s[x.obj] # 0
                     => Rechecked(s)'
    BY <2>4
  <2>5. ASSUME x.cell = Resolved PROVE RechecksStay
    <3>1. SUFFICES ASSUME NEW r, Rechecked(r), NEW u \in Workers, NEW i \in DOMAIN work'[u],
                          work'[u][i].op = "recheck", r[work'[u][i].obj] = 0
                   PROVE  /\ i = 2 /\ work'[u][1].op \in Pushes /\ work'[u][1].obj = work'[u][2].obj
                          /\ work'[u][1].cell # Resolved
      BY DEF Rechecked, RechecksStay
    <3>2. CASE u # w
      <4>1. work'[u] = work[u]
        BY <2>3, <3>2, GivenStack
      <4>2. QED
        BY <3>1, <4>1 DEF Rechecked
    <3>3. CASE u = w
      <4> DEFINE j == i + 1 - Len(ops)
      <4>0. Given(w, ops) /\ ops \in Seq(OpSet) /\ i \in DOMAIN work'[w] /\ i \notin DOMAIN ops
        BY <2>3, <3>3
      <4>1. j \in DOMAIN work[w] /\ j > 1 /\ work'[w][i] = work[w][j]
        BY <4>0, GivenStack
      <4>2. work[w][1].cell # Resolved
        BY <3>1, <3>3, <4>1 DEF Rechecked
      <4>3. QED
        BY <1>2, <2>5, <4>2
    <3>4. QED
      BY <3>2, <3>3
  <2>6. QED
    BY <1>1, <1>2, <1>3, <1>5, <2>1, <2>2, <2>4a, <2>5 DEF x
<1>6. CASE link[x.cell] # x.tail
  <2>1. link' = link /\ Instead(w, <<a>>)
    BY <1>6 DEF PushSwap
  <2>2. a \in OpSet
    BY <1>3, OpsTyped
  <2>3. Becomes({x}, {a})
    BY <1>1, <2>1, <2>2, StepTo1
  <2> DEFINE ops == <<a>>
  <2>4. Given(w, ops) /\ ops \in Seq(OpSet) /\ Len(ops) = 1 /\ DOMAIN ops = {1} /\ ops[1] = a
    BY <1>1, <2>1, <2>2, InsteadGiven
  <2>5. a.op \in Pushes /\ a.op # "recheck" /\ a.obj = x.obj /\ a.cell = x.cell
    BY DEF Push, Pushes
  <2> HIDE DEF a, ops
  <2>6. ASSUME NEW r, Rechecked(r) PROVE Rechecked(r)'
    BY <1>2, <1>4, <2>4, <2>5, <2>6, RechecksGiven
  <2>7. RechecksStay
    BY <2>6 DEF RechecksStay
  <2>8. QED
    BY <1>1, <1>2, <1>3, <1>6, <2>1, <2>3, <2>7 DEF a
<1>7. QED
  BY <1>5, <1>6

LEMMA Joined ==
  ASSUME NEW a, NEW b
  PROVE  <<a>> \o <<b>> = <<a, b>>
<1> DEFINE S == {a, b}
           s == <<a>>
           t == <<b>>
           q == <<a, b>>
<1>1. s \in Seq(S) /\ t \in Seq(S) /\ q \in Seq(S) /\ Len(q) = 2 /\ q[1] = a /\ q[2] = b
      /\ Len(s) = 1 /\ Len(t) = 1 /\ s[1] = a /\ t[1] = b
  OBVIOUS
<1> HIDE DEF s, t, q, S
<1>a. /\ s \o t \in Seq(S) /\ Len(s \o t) = Len(s) + Len(t)
      /\ \A i \in 1 .. Len(s) + Len(t) : (s \o t)[i] = IF i <= Len(s) THEN s[i] ELSE t[i - Len(s)]
  BY <1>1, ConcatProperties
<1>2. s \o t \in Seq(S) /\ Len(s \o t) = 2 /\ (s \o t)[1] = a /\ (s \o t)[2] = b
  BY <1>1, <1>a
<1>3. \A i \in 1 .. 2 : (s \o t)[i] = q[i]
  BY <1>1, <1>2
<1>4. s \o t = q
  BY <1>1, <1>2, <1>3, SeqEqual
<1>5. QED
  BY <1>4 DEF s, t, q

\* where a worker that follows links goes on from the node v
AfterOps(o, v) ==
  IF v = NoRef THEN {}
  ELSE (IF key[v] = o THEN {TryResolve(v)} ELSE {}) \cup {Follow(PendingLink(v), o)}

LEMMA AfterFollowOps ==
  ASSUME WeakTypes, NEW w \in Workers, work[w] # <<>>, Op(w).op \notin Pushes,
         NEW o \in Objects, NEW v \in Ephs, Instead(w, AfterFollow(o, v))
  PROVE  Becomes({Op(w)}, AfterOps(o, v)) /\ RechecksStay
<1> DEFINE a == TryResolve(v)
           b == Follow(PendingLink(v), o)
<1>0. a.op # "recheck" /\ b.op # "recheck" /\ a # b
  BY DEF TryResolve, Follow
<1>1. CASE v = NoRef
  <2>1. Instead(w, <<>>) /\ AfterOps(o, v) = {}
    BY <1>1 DEF AfterFollow, AfterOps
  <2>2. QED
    BY <2>1, StepTo0
<1>2. CASE v # NoRef
  <2>1. v \in Ephemerons
    BY <1>2 DEF Ephs
  <2>2. a \in OpSet /\ b \in OpSet
    BY <2>1, OpsTyped, CellsApart
  <2>3. CASE key[v] = o
    <3>1. AfterFollow(o, v) = <<a>> \o <<b>> /\ AfterOps(o, v) = {a, b}
      BY <1>2, <2>3 DEF AfterFollow, AfterOps
    <3> HIDE DEF a, b
    <3>2. Instead(w, <<a, b>>)
      BY <3>1, Joined
    <3>3. QED
      BY <1>0, <2>2, <3>1, <3>2, StepTo2
  <2>4. CASE key[v] # o
    <3>1. AfterFollow(o, v) = <<>> \o <<b>> /\ AfterOps(o, v) = {b}
      BY <1>2, <2>4 DEF AfterFollow, AfterOps
    <3> HIDE DEF b
    <3>2. Instead(w, <<b>>)
      BY <3>1
    <3>3. QED
      BY <1>0, <2>2, <3>1, <3>2, StepTo1
  <2>5. QED
    BY <2>3, <2>4
<1>3. QED
  BY <1>1, <1>2

FollowLoadMoves(w) ==
  LET x == Op(w) IN
  /\ x \in Ops /\ x.op = "follow" /\ x.obj \in Objects /\ x.cell \in Cells /\ link[x.cell] \in Ephs
  /\ RechecksStay
  /\ Becomes({x}, IF link[x.cell] = NoRef THEN {}
                  ELSE {Skip(x.cell, x.obj, link[x.cell], link[x.cell])})

LEMMA FollowLoadOps ==
  ASSUME WeakTypes, NEW w \in Workers, FollowLoad(w)
  PROVE  FollowLoadMoves(w)
<1> USE DEF FollowLoadMoves
<1> DEFINE x == Op(w)
           a == Skip(x.cell, x.obj, link[x.cell], link[x.cell])
<1>1. work[w] # <<>> /\ x.op = "follow" /\ x.op \notin Pushes
      /\ Instead(w, IF link[x.cell] = NoRef THEN <<>> ELSE <<a>>)
  BY DEF FollowLoad, Doing, Pushes
<1>2. x \in Ops /\ x \in OpSet
  BY <1>1, HeadOp
<1>3. x.obj \in Objects /\ x.cell \in Cells
  BY <1>1, <1>2, OpKinds DEF Walks
<1>4. link[x.cell] \in Ephs
  BY <1>3 DEF WeakTypes
<1>5. a \in OpSet /\ a.op # "recheck"
  BY <1>3, <1>4, OpsTyped DEF Skip
<1> HIDE DEF a
<1>6. /\ RechecksStay
      /\ Becomes({x}, IF link[x.cell] = NoRef THEN {} ELSE {a})
  <2>1. CASE link[x.cell] = NoRef
    BY <1>1, <2>1, StepTo0
  <2>2. CASE link[x.cell] # NoRef
    BY <1>1, <1>5, <2>2, StepTo1
  <2>3. QED
    BY <2>1, <2>2
<1>7. QED
  BY <1>1, <1>2, <1>3, <1>4, <1>6 DEF a

FollowSkipMoves(w) ==
  LET x == Op(w) IN
  /\ x \in Ops /\ x.op = "skip" /\ x.obj \in Objects /\ x.cell \in Cells /\ x.head \in Ephs /\ x.new \in Ephs
  /\ RechecksStay
  /\ \/ /\ x.new \in Ephemerons /\ state[x.new] # "pending" /\ link[PendingLink(x.new)] \in Ephs
        /\ Becomes({x}, {Skip(x.cell, x.obj, x.head, link[PendingLink(x.new)])})
     \/ /\ x.new = NoRef \/ state[x.new] = "pending"
        /\ Becomes({x}, AfterOps(x.obj, x.new))
     \/ Becomes({x}, {FollowCas(x.cell, x.obj, x.head, x.new)})

LEMMA FollowSkipOps ==
  ASSUME WeakTypes, NEW w \in Workers, FollowSkip(w)
  PROVE  FollowSkipMoves(w)
<1> USE DEF FollowSkipMoves
<1> DEFINE x == Op(w)
           a == Skip(x.cell, x.obj, x.head, link[PendingLink(x.new)])
           b == FollowCas(x.cell, x.obj, x.head, x.new)
<1>1. /\ work[w] # <<>> /\ x.op = "skip" /\ x.op \notin Pushes
      /\ Instead(w, IF x.new # NoRef /\ state[x.new] # "pending" THEN <<a>>
                    ELSE IF x.new = x.head THEN AfterFollow(x.obj, x.new) ELSE <<b>>)
  BY DEF FollowSkip, Doing, Pushes
<1>2. x \in Ops /\ x \in OpSet
  BY <1>1, HeadOp
<1>3. x.obj \in Objects /\ x.cell \in Cells /\ x.head \in Ephs /\ x.new \in Ephs
  BY <1>1, <1>2, OpKinds DEF Walks
<1>4. b \in OpSet /\ b.op # "recheck"
  BY <1>3, OpsTyped DEF FollowCas
<1>5. CASE x.new # NoRef /\ state[x.new] # "pending"
  <2>1. x.new \in Ephemerons
    BY <1>3, <1>5 DEF Ephs
  <2>2. link[PendingLink(x.new)] \in Ephs
    BY <2>1, CellsApart DEF WeakTypes
  <2>3. a \in OpSet /\ a.op # "recheck"
    BY <1>3, <2>2, OpsTyped DEF Skip
  <2>4. Instead(w, <<a>>)
    BY <1>1, <1>5
  <2> HIDE DEF a
  <2>5. RechecksStay /\ Becomes({x}, {a})
    BY <1>1, <2>3, <2>4, StepTo1
  <2>6. QED
    BY <1>1, <1>2, <1>3, <1>5, <2>1, <2>2, <2>5 DEF a
<1>6. CASE ~(x.new # NoRef /\ state[x.new] # "pending") /\ x.new = x.head
  <2>1. Instead(w, AfterFollow(x.obj, x.new))
    BY <1>1, <1>6
  <2>2. Becomes({x}, AfterOps(x.obj, x.new)) /\ RechecksStay
    BY <1>1, <1>3, <2>1, AfterFollowOps
  <2>3. QED
    BY <1>1, <1>2, <1>3, <1>6, <2>2
<1>7. CASE ~(x.new # NoRef /\ state[x.new] # "pending") /\ x.new # x.head
  <2>1. Instead(w, <<b>>)
    BY <1>1, <1>7
  <2> HIDE DEF b
  <2>2. Becomes({x}, {b}) /\ RechecksStay
    BY <1>1, <1>4, <2>1, StepTo1
  <2>3. QED
    BY <1>1, <1>2, <1>3, <2>2 DEF b
<1>8. QED
  BY <1>5, <1>6, <1>7

FollowSwapMoves(w) ==
  LET x == Op(w) IN
  /\ x \in Ops /\ x.op = "followCas" /\ x.obj \in Objects /\ x.cell \in Cells /\ x.head \in Ephs
  /\ x.new \in Ephs /\ link[x.cell] \in Ephs
  /\ RechecksStay
  /\ \/ /\ link[x.cell] = x.head /\ link' = [link EXCEPT ![x.cell] = x.new]
        /\ Becomes({x}, AfterOps(x.obj, x.new))
     \/ link' = link /\ Becomes({x}, AfterOps(x.obj, x.new))
     \/ /\ link' = link
        /\ Becomes({x}, {Skip(x.cell, x.obj, link[x.cell], link[x.cell])})

LEMMA FollowSwapOps ==
  ASSUME WeakTypes, NEW w \in Workers, FollowSwap(w)
  PROVE  FollowSwapMoves(w)
<1> USE DEF FollowSwapMoves
<1> DEFINE x == Op(w)
           a == Skip(x.cell, x.obj, link[x.cell], link[x.cell])
<1>1. work[w] # <<>> /\ x.op = "followCas" /\ x.op \notin Pushes
  BY DEF FollowSwap, Doing, Pushes
<1>2. x \in Ops /\ x \in OpSet
  BY <1>1, HeadOp
<1>3. x.obj \in Objects /\ x.cell \in Cells /\ x.head \in Ephs /\ x.new \in Ephs
  BY <1>1, <1>2, OpKinds DEF Walks
<1>4. link[x.cell] \in Ephs
  BY <1>3 DEF WeakTypes
<1>5. a \in OpSet /\ a.op # "recheck"
  BY <1>3, <1>4, OpsTyped DEF Skip
<1>6. \/ /\ link[x.cell] = x.head /\ link' = [link EXCEPT ![x.cell] = x.new]
         /\ Instead(w, AfterFollow(x.obj, x.new))
      \/ link' = link /\ Instead(w, AfterFollow(x.obj, x.new))
      \/ link' = link /\ Instead(w, <<a>>)
  BY DEF FollowSwap
<1> HIDE DEF a
<1>7. Instead(w, AfterFollow(x.obj, x.new)) => Becomes({x}, AfterOps(x.obj, x.new)) /\ RechecksStay
  BY <1>1, <1>3, AfterFollowOps
<1>8. Instead(w, <<a>>) => Becomes({x}, {a}) /\ RechecksStay
  BY <1>1, <1>5, StepTo1
<1>9. QED
  BY <1>1, <1>2, <1>3, <1>4, <1>6, <1>7, <1>8 DEF a

\* Whatever becomes of the swap, what the worker does next is of these kinds.
LEMMA SwapBecomes ==
  ASSUME NEW w, FollowSwapMoves(w)
  PROVE  /\ Op(w) \in Ops /\ Op(w).op = "followCas"
         /\ \E N : Becomes({Op(w)}, N) /\ \A y \in N : y.op \in {"skip", "follow", "tryResolve"}
BY DEF FollowSwapMoves, AfterOps, Skip, Follow, TryResolve

ResolveMoves(w) ==
  LET x == Op(w) IN
  /\ x \in Ops /\ x.op = "tryResolve" /\ x.obj \in Ephemerons /\ RechecksStay
  /\ \/ /\ state[x.obj] = "pending" /\ state' = [state EXCEPT ![x.obj] = "resolved"]
        /\ Becomes({x}, {Push(Resolved, x.obj)})
     \/ state[x.obj] # "pending" /\ state' = state /\ Becomes({x}, {})

LEMMA ResolveOps ==
  ASSUME WeakTypes, NEW w \in Workers, Resolve(w)
  PROVE  ResolveMoves(w)
<1> USE DEF ResolveMoves
<1> DEFINE x == Op(w)
           a == Push(Resolved, x.obj)
<1>1. work[w] # <<>> /\ x.op = "tryResolve" /\ x.op \notin Pushes
  BY DEF Resolve, Doing, Pushes
<1>2. x \in Ops /\ x \in OpSet
  BY <1>1, HeadOp
<1>3. x.obj \in Ephemerons
  BY <1>1, <1>2, OpKinds DEF Traces
<1>4. a \in OpSet /\ a.op # "recheck"
  BY <1>3, OpsTyped, CellsApart DEF Push
<1>5. \/ /\ state[x.obj] = "pending" /\ state' = [state EXCEPT ![x.obj] = "resolved"]
         /\ Instead(w, <<a>>)
      \/ state[x.obj] # "pending" /\ state' = state /\ Instead(w, <<>>)
  BY DEF Resolve
<1> HIDE DEF a
<1>6. Instead(w, <<a>>) => Becomes({x}, {a}) /\ RechecksStay
  BY <1>1, <1>4, StepTo1
<1>7. Instead(w, <<>>) => Becomes({x}, {}) /\ RechecksStay
  BY <1>1, StepTo0
<1>8. QED
  BY <1>1, <1>2, <1>3, <1>5, <1>6, <1>7 DEF a

VisitEdgeMoves(w) ==
  LET x == Op(w) IN
  /\ x \in Ops /\ x.op = "visit" /\ RechecksStay
  /\ \/ /\ x.obj = NoRef \/ x.obj \in markedObjects
        /\ markedObjects' = markedObjects /\ Becomes({x}, {})
     \/ /\ x.obj \in Objects \ markedObjects /\ markedObjects' = markedObjects \cup {x.obj}
        /\ \/ ~checkPending /\ Becomes({x}, {Enqueue(x.obj)})
           \/ checkPending /\ Becomes({x}, {Follow(Bucket(BucketOf(x.obj)), x.obj), Enqueue(x.obj)})

LEMMA VisitEdgeOps ==
  ASSUME WeakTypes, NEW w \in Workers, VisitEdge(w)
  PROVE  VisitEdgeMoves(w)
<1> USE DEF VisitEdgeMoves
<1> DEFINE x == Op(w)
           a == Follow(Bucket(BucketOf(x.obj)), x.obj)
           b == Enqueue(x.obj)
<1>1. work[w] # <<>> /\ x.op = "visit" /\ x.op \notin Pushes
  BY DEF VisitEdge, Doing, Pushes
<1>2. x \in Ops /\ x \in OpSet
  BY <1>1, HeadOp
<1>3. x.obj \in Objects \cup {NoRef}
  BY <1>1, <1>2, OpKinds
<1>4. CASE x.obj = NoRef \/ x.obj \in markedObjects
  <2>1. markedObjects' = markedObjects /\ Instead(w, <<>>)
    BY <1>4 DEF VisitEdge
  <2>2. QED
    BY <1>1, <1>2, <1>4, <2>1, StepTo0
<1>5. CASE ~(x.obj = NoRef \/ x.obj \in markedObjects)
  <2>1. x.obj \in Objects \ markedObjects
    BY <1>3, <1>5
  <2>2. a \in OpSet /\ b \in OpSet /\ a # b /\ a.op # "recheck" /\ b.op # "recheck"
    <3>1. Bucket(BucketOf(x.obj)) \in Cells
      BY <2>1, CellsApart, WeakAssumption
    <3>2. QED
      BY <2>1, <3>1, OpsTyped DEF Follow, Enqueue
  <2>3. /\ markedObjects' = markedObjects \cup {x.obj}
        /\ Instead(w, (IF checkPending THEN <<a>> ELSE <<>>) \o <<b>>)
    BY <1>5 DEF VisitEdge
  <2> HIDE DEF a, b
  <2>4. CASE checkPending
    <3>1. Instead(w, <<a, b>>)
      BY <2>3, <2>4, Joined
    <3>2. Becomes({x}, {a, b}) /\ RechecksStay
      BY <1>1, <2>2, <3>1, StepTo2
    <3>3. QED
      BY <1>1, <1>2, <2>1, <2>3, <2>4, <3>2 DEF a, b
  <2>5. CASE ~checkPending
    <3>1. Instead(w, <<b>>)
      BY <2>3, <2>5
    <3>2. Becomes({x}, {b}) /\ RechecksStay
      BY <1>1, <2>2, <3>1, StepTo1
    <3>3. QED
      BY <1>1, <1>2, <2>1, <2>3, <2>5, <3>2 DEF b
  <2>6. QED
    BY <2>4, <2>5
<1>6. QED
  BY <1>4, <1>5

EnqueueMoves(w) ==
  LET x == Op(w) IN
  /\ x \in Ops /\ x.op = "enqueue" /\ x.obj \in Objects /\ RechecksStay
  /\ greyObjects' = greyObjects \cup {x.obj} /\ Becomes({x}, {})

LEMMA EnqueueOps ==
  ASSUME WeakTypes, NEW w \in Workers, EnqueueObject(w)
  PROVE  EnqueueMoves(w)
<1> USE DEF EnqueueMoves
<1>1. work[w] # <<>> /\ Op(w).op = "enqueue" /\ Op(w).op \notin Pushes /\ Instead(w, <<>>)
  BY DEF EnqueueObject, Doing, Pushes
<1>2. Op(w) \in Ops /\ Op(w) \in OpSet
  BY <1>1, HeadOp
<1>3. Op(w).obj \in Objects
  BY <1>1, <1>2, OpKinds
<1>4. Becomes({Op(w)}, {}) /\ RechecksStay
  BY <1>1, StepTo0
<1>5. greyObjects' = greyObjects \cup {Op(w).obj}
  BY DEF EnqueueObject
<1>6. QED
  BY <1>1, <1>2, <1>3, <1>4, <1>5

TraceObjectMoves(o) ==
  /\ o \in greyObjects /\ o \in Objects /\ greyObjects' = greyObjects \ {o} /\ RechecksStay
  /\ \/ o \in Plain /\ state' = state /\ Becomes({}, {VisitObject(shape.field[o])})
     \/ o \in Finalizers /\ state' = state /\ Becomes({}, {VisitObject(shape.closure[o])})
     \/ /\ o \in Ephemerons /\ state' = [state EXCEPT ![o] = "claimed"]
        /\ Becomes({}, {VisitKey(o)})

LEMMA TraceObjectOps ==
  ASSUME WeakTypes, Phases, NEW w \in Workers, TraceObject(w)
  PROVE  \E o \in greyObjects : TraceObjectMoves(o)
<1> USE DEF TraceObjectMoves
<1>1. Tracing /\ work[w] = <<>>
  BY DEF TraceObject
<1>2. PICK o \in greyObjects :
        /\ greyObjects' = greyObjects \ {o}
        /\ state' = IF o \in Ephemerons THEN [state EXCEPT ![o] = "claimed"] ELSE state
        /\ work' = [work EXCEPT ![w] =
             CASE o \in Plain -> <<VisitObject(shape.field[o])>>
               [] o \in Finalizers -> <<VisitObject(shape.closure[o])>>
               [] o \in Ephemerons -> IF key[o] = NoRef THEN <<SetTraced(o)>> ELSE <<VisitKey(o)>>]
  BY DEF TraceObject
<1>3. o \in Objects
  BY DEF WeakTypes
<1>4. CASE o \in Plain
  <2> DEFINE a == VisitObject(shape.field[o])
  <2>1. a \in OpSet /\ a.op # "recheck"
    BY <1>4, ShapeTypes, OpsTyped DEF VisitObject
  <2>2. o \notin Ephemerons /\ o \notin Finalizers
    BY <1>4, WeakAssumption
  <2>3. state' = state /\ work' = [work EXCEPT ![w] = <<a>>]
    BY <1>2, <1>4, <2>2
  <2> HIDE DEF a
  <2>4. Becomes({}, {a}) /\ RechecksStay
    BY <1>1, <2>1, <2>3, StepFromNone
  <2>5. QED
    BY <1>2, <1>3, <1>4, <2>3, <2>4 DEF a
<1>5. CASE o \in Finalizers
  <2> DEFINE a == VisitObject(shape.closure[o])
  <2>1. a \in OpSet /\ a.op # "recheck"
    BY <1>5, ShapeTypes, OpsTyped DEF VisitObject
  <2>2. o \notin Ephemerons /\ o \notin Plain
    BY <1>5, WeakAssumption
  <2>3. state' = state /\ work' = [work EXCEPT ![w] = <<a>>]
    BY <1>2, <1>5, <2>2
  <2> HIDE DEF a
  <2>4. Becomes({}, {a}) /\ RechecksStay
    BY <1>1, <2>1, <2>3, StepFromNone
  <2>5. QED
    BY <1>2, <1>3, <1>5, <2>3, <2>4 DEF a
<1>6. CASE o \in Ephemerons
  <2> DEFINE a == VisitKey(o)
  <2>1. a \in OpSet /\ a.op # "recheck"
    BY <1>6, OpsTyped DEF VisitKey
  <2>2. o \notin Finalizers /\ o \notin Plain /\ key[o] # NoRef
    BY <1>1, <1>6, KeyTypes, WeakAssumption
  <2>3. state' = [state EXCEPT ![o] = "claimed"] /\ work' = [work EXCEPT ![w] = <<a>>]
    BY <1>2, <1>6, <2>2
  <2> HIDE DEF a
  <2>4. Becomes({}, {a}) /\ RechecksStay
    BY <1>1, <2>1, <2>3, StepFromNone
  <2>5. QED
    BY <1>2, <1>3, <1>6, <2>3, <2>4 DEF a
<1>7. QED
  BY <1>3, <1>4, <1>5, <1>6 DEF Objects

LookAtKeyMoves(w) ==
  LET x == Op(w) IN
  /\ x \in Ops /\ x.op = "visitKey" /\ x.obj \in Ephemerons /\ RechecksStay
  /\ \/ /\ key[x.obj] \in markedObjects
        /\ Becomes({x}, {VisitObject(shape.value[x.obj]), SetTraced(x.obj)})
     \/ Becomes({x}, {Publish(x.obj)})

LEMMA LookAtKeyOps ==
  ASSUME WeakTypes, NEW w \in Workers, LookAtKey(w)
  PROVE  LookAtKeyMoves(w)
<1> USE DEF LookAtKeyMoves
<1> DEFINE x == Op(w)
           a == VisitObject(shape.value[x.obj])
           b == SetTraced(x.obj)
           c == Publish(x.obj)
<1>1. work[w] # <<>> /\ x.op = "visitKey" /\ x.op \notin Pushes
  BY DEF LookAtKey, Doing, Pushes
<1>2. x \in Ops /\ x \in OpSet
  BY <1>1, HeadOp
<1>3. x.obj \in Ephemerons
  BY <1>1, <1>2, OpKinds DEF Traces
<1>4. /\ a \in OpSet /\ b \in OpSet /\ c \in OpSet /\ a # b
      /\ a.op # "recheck" /\ b.op # "recheck" /\ c.op # "recheck"
  BY <1>3, ShapeTypes, OpsTyped DEF VisitObject, SetTraced, Publish
<1>5. \/ key[x.obj] \in markedObjects /\ Instead(w, <<a, b>>)
      \/ Instead(w, <<c>>)
  BY DEF LookAtKey
<1> HIDE DEF a, b, c
<1>6. Instead(w, <<a, b>>) => Becomes({x}, {a, b}) /\ RechecksStay
  BY <1>1, <1>4, StepTo2
<1>7. Instead(w, <<c>>) => Becomes({x}, {c}) /\ RechecksStay
  BY <1>1, <1>4, StepTo1
<1>8. QED
  BY <1>1, <1>2, <1>3, <1>5, <1>6, <1>7 DEF a, b, c

FinishTracedMoves(w) ==
  LET x == Op(w) IN
  /\ x \in Ops /\ x.op = "setTraced" /\ x.obj \in Ephemerons /\ RechecksStay
  /\ state' = [state EXCEPT ![x.obj] = "traced"] /\ Becomes({x}, {})

LEMMA FinishTracedOps ==
  ASSUME WeakTypes, NEW w \in Workers, FinishTraced(w)
  PROVE  FinishTracedMoves(w)
<1> USE DEF FinishTracedMoves
<1>1. work[w] # <<>> /\ Op(w).op = "setTraced" /\ Op(w).op \notin Pushes /\ Instead(w, <<>>)
  BY DEF FinishTraced, Doing, Pushes
<1>2. Op(w) \in Ops /\ Op(w) \in OpSet
  BY <1>1, HeadOp
<1>3. Op(w).obj \in Ephemerons
  BY <1>1, <1>2, OpKinds DEF Traces
<1>4. Becomes({Op(w)}, {}) /\ RechecksStay
  BY <1>1, StepTo0
<1>5. state' = [state EXCEPT ![Op(w).obj] = "traced"]
  BY DEF FinishTraced
<1>6. QED
  BY <1>1, <1>2, <1>3, <1>4, <1>5

AddPendingMoves(w) ==
  LET x == Op(w) IN
  /\ x \in Ops /\ x.op = "publish" /\ x.obj \in Ephemerons /\ RechecksStay
  /\ state' = [state EXCEPT ![x.obj] = "pending"]
  /\ Becomes({x}, {Push(BucketFor(x.obj), x.obj), Recheck(x.obj)})

LEMMA AddPendingOps ==
  ASSUME WeakTypes, Phases, Tracing, NEW w \in Workers, AddPending(w)
  PROVE  AddPendingMoves(w)
<1> USE DEF AddPendingMoves
<1> DEFINE x == Op(w)
           a == Push(BucketFor(x.obj), x.obj)
           b == Recheck(x.obj)
<1>1. work[w] # <<>> /\ x.op = "publish" /\ x.op \notin Pushes
  BY DEF AddPending, Doing, Pushes
<1>2. x \in Ops /\ x \in OpSet /\ x = work[w][1]
  BY <1>1, HeadOp
<1>3. x.obj \in Ephemerons
  BY <1>1, <1>2, OpKinds DEF Traces
<1>4. a \in OpSet /\ b \in OpSet /\ a # b
  BY <1>3, KeyTypes, OpsTyped DEF Push, Recheck
<1>5. state' = [state EXCEPT ![x.obj] = "pending"] /\ Instead(w, <<a, b>>)
  BY DEF AddPending, BucketFor
<1>6. /\ a.op = "push" /\ a.op \in Pushes /\ a.obj = x.obj /\ a.cell # Resolved
      /\ b.obj = x.obj
  BY <1>3, KeyTypes, CellsApart DEF Push, Recheck, Pushes, BucketFor
<1> HIDE DEF a, b
<1>7. Becomes({x}, {a, b})
  BY <1>1, <1>4, <1>5, StepTo2
<1> DEFINE ops == <<a, b>>
<1>8. /\ Given(w, ops) /\ ops \in Seq(OpSet) /\ DOMAIN ops = {1, 2} /\ ops[1] = a /\ ops[2] = b
      /\ Len(ops) = 2
  BY <1>1, <1>4, <1>5, InsteadGiven
<1> HIDE DEF ops
<1>9. ASSUME NEW r, Rechecked(r) PROVE Rechecked(r)'
  <2>1. SUFFICES ASSUME NEW u \in Workers, NEW i \in DOMAIN work'[u],
                        work'[u][i].op = "recheck", r[work'[u][i].obj] = 0
                 PROVE  /\ i = 2 /\ work'[u][1].op \in Pushes /\ work'[u][1].obj = work'[u][2].obj
                        /\ work'[u][1].cell # Resolved
    BY DEF Rechecked
  <2>2. CASE u # w
    <3>1. work'[u] = work[u]
      BY <1>8, <2>2, GivenStack
    <3>2. QED
      BY <1>9, <2>1, <3>1 DEF Rechecked
  <2>3. CASE u = w /\ i \in DOMAIN ops
    <3>1. work'[w][1] = a /\ work'[w][2] = b
      BY <1>8, GivenStack
    <3>2. i = 1 \/ i = 2
      BY <1>8, <2>3
    <3>3. QED
      BY <1>6, <2>1, <2>3, <3>1, <3>2
  <2>4. CASE u = w /\ i \notin DOMAIN ops
    <3> DEFINE j == i + 1 - Len(ops)
    <3>1. Given(w, ops) /\ ops \in Seq(OpSet) /\ i \in DOMAIN work'[w] /\ i \notin DOMAIN ops
      BY <1>8, <2>4
    <3>2. j \in DOMAIN work[w] /\ work'[w][i] = work[w][j]
      BY <3>1, GivenStack
    <3>3. work[w][1].op \in Pushes
      BY <1>9, <2>1, <2>4, <3>2 DEF Rechecked
    <3>4. QED
      BY <1>1, <1>2, <3>3
  <2>5. QED
    BY <2>2, <2>3, <2>4
<1>10. RechecksStay
  BY <1>9 DEF RechecksStay
<1>11. QED
  BY <1>1, <1>2, <1>3, <1>5, <1>7, <1>10 DEF a, b

LookAgainMoves(w) ==
  LET x == Op(w) IN
  /\ x \in Ops /\ x.op = "recheck" /\ x.obj \in Ephemerons /\ RechecksStay
  /\ \A r : Rechecked(r) => r[x.obj] # 0
  /\ \/ key[x.obj] \in markedObjects /\ Becomes({x}, {TryResolve(x.obj)})
     \/ key[x.obj] \notin markedObjects /\ Becomes({x}, {})

LEMMA LookAgainOps ==
  ASSUME WeakTypes, NEW w \in Workers, LookAgain(w)
  PROVE  LookAgainMoves(w)
<1> USE DEF LookAgainMoves
<1> DEFINE x == Op(w)
           a == TryResolve(x.obj)
<1>1. work[w] # <<>> /\ x.op = "recheck" /\ x.op \notin Pushes
  BY DEF LookAgain, Doing, Pushes
<1>2. x \in Ops /\ x \in OpSet /\ x = work[w][1] /\ 1 \in DOMAIN work[w]
  BY <1>1, HeadOp DEF WeakTypes
<1>3. x.obj \in Ephemerons
  BY <1>1, <1>2, OpKinds DEF Traces
<1>4. a \in OpSet /\ a.op # "recheck"
  BY <1>3, OpsTyped DEF TryResolve
<1>5. \/ key[x.obj] \in markedObjects /\ Instead(w, <<a>>)
      \/ key[x.obj] \notin markedObjects /\ Instead(w, <<>>)
  BY DEF LookAgain
<1> HIDE DEF a
<1>6. Instead(w, <<a>>) => Becomes({x}, {a}) /\ RechecksStay
  BY <1>1, <1>4, StepTo1
<1>7. Instead(w, <<>>) => Becomes({x}, {}) /\ RechecksStay
  BY <1>1, StepTo0
<1>8. ASSUME NEW r, Rechecked(r) PROVE r[x.obj] # 0
  BY <1>1, <1>2, <1>8 DEF Rechecked
<1>9. QED
  BY <1>1, <1>2, <1>3, <1>5, <1>6, <1>7, <1>8 DEF a

\* what a worker has to do for the ephemeron v of the resolved list
ResolvedOps(v) ==
  IF v = NoRef THEN {} ELSE {VisitObject(shape.value[v]), SetTraced(v), NextResolved(v)}

NextResolvedMoves(w) ==
  LET x == Op(w) IN
  /\ x \in Ops /\ x.op = "nextResolved" /\ x.obj \in Ephemerons /\ link[ResolvedLink(x.obj)] \in Ephs
  /\ RechecksStay /\ Becomes({x}, ResolvedOps(link[ResolvedLink(x.obj)]))

LEMMA NextResolvedOps ==
  ASSUME WeakTypes, NEW w \in Workers, GoNextResolved(w)
  PROVE  NextResolvedMoves(w)
<1> USE DEF NextResolvedMoves
<1> DEFINE x == Op(w)
           v == link[ResolvedLink(x.obj)]
           a == VisitObject(shape.value[v])
           b == SetTraced(v)
           c == NextResolved(v)
<1>1. work[w] # <<>> /\ x.op = "nextResolved" /\ x.op \notin Pushes /\ Instead(w, TraceResolvedFrom(v))
  BY DEF GoNextResolved, Doing, Pushes
<1>2. x \in Ops /\ x \in OpSet
  BY <1>1, HeadOp
<1>3. x.obj \in Ephemerons
  BY <1>1, <1>2, OpKinds DEF Traces
<1>4. v \in Ephs
  BY <1>3, CellsApart DEF WeakTypes
<1>5. CASE v = NoRef
  <2>1. Instead(w, <<>>)
    BY <1>1, <1>5 DEF TraceResolvedFrom
  <2>2. Becomes({x}, {}) /\ RechecksStay
    BY <1>1, <2>1, StepTo0
  <2>3. QED
    BY <1>1, <1>2, <1>3, <1>4, <1>5, <2>2 DEF ResolvedOps
<1>6. CASE v # NoRef
  <2>1. v \in Ephemerons
    BY <1>4, <1>6 DEF Ephs
  <2>2. /\ a \in OpSet /\ b \in OpSet /\ c \in OpSet /\ a # b /\ b # c /\ c # a
        /\ a.op # "recheck" /\ b.op # "recheck" /\ c.op # "recheck"
    BY <2>1, ShapeTypes, OpsTyped DEF VisitObject, SetTraced, NextResolved
  <2>3. TraceResolvedFrom(v) = <<a, b, c>> /\ ResolvedOps(v) = {a, b, c}
    BY <1>6 DEF TraceResolvedFrom, ResolvedOps
  <2> HIDE DEF a, b, c
  <2>4. Given(w, <<a, b, c>>)
    BY <1>1, <2>3, InsteadGiven
  <2>5. Becomes({x}, {a, b, c}) /\ RechecksStay
    BY <1>1, <2>2, <2>4, StepTo3
  <2>6. QED
    BY <1>1, <1>2, <1>3, <1>4, <2>3, <2>5
<1>7. QED
  BY <1>5, <1>6

TakeRootMoves(r) ==
  /\ r \in rootList /\ rootList' = rootList \ {r} /\ RechecksStay
  /\ \/ r.kind = "edge" /\ r.obj \in Objects /\ Becomes({}, {VisitObject(r.obj)})
     \/ r.kind = "resolved" /\ r.obj \in Ephemerons /\ Becomes({}, ResolvedOps(r.obj))

LEMMA TakeRootOps ==
  ASSUME WeakTypes, NEW w \in Workers, TakeNextRoot(w)
  PROVE  \E r \in rootList : TakeRootMoves(r)
<1> USE DEF TakeRootMoves
<1>1. PICK r \in rootList :
        /\ rootList' = rootList \ {r}
        /\ work' = [work EXCEPT ![w] =
             IF r.kind = "edge" THEN <<VisitObject(r.obj)>> ELSE TraceResolvedFrom(r.obj)]
  BY DEF TakeNextRoot
<1>2. work[w] = <<>>
  BY DEF TakeNextRoot
<1>3. r \in RootSet
  BY DEF WeakTypes
<1>4. CASE r.kind = "edge"
  <2> DEFINE a == VisitObject(r.obj)
  <2>1. r.obj \in Objects
    BY <1>3, <1>4 DEF RootSet
  <2>2. a \in OpSet /\ a.op # "recheck"
    BY <2>1, OpsTyped DEF VisitObject
  <2>3. work' = [work EXCEPT ![w] = <<a>>]
    BY <1>1, <1>4
  <2> HIDE DEF a
  <2>4. Becomes({}, {a}) /\ RechecksStay
    BY <1>2, <2>2, <2>3, StepFromNone
  <2>5. QED
    BY <1>1, <1>4, <2>1, <2>4 DEF a
<1>5. CASE r.kind # "edge"
  <2> DEFINE v == r.obj
             a == VisitObject(shape.value[v])
             b == SetTraced(v)
             c == NextResolved(v)
  <2>1. v \in Ephemerons /\ r.kind = "resolved"
    BY <1>3, <1>5 DEF RootSet
  <2>2. /\ a \in OpSet /\ b \in OpSet /\ c \in OpSet /\ a # b /\ b # c /\ c # a
        /\ a.op # "recheck" /\ b.op # "recheck" /\ c.op # "recheck"
    BY <2>1, ShapeTypes, OpsTyped DEF VisitObject, SetTraced, NextResolved
  <2>3. v # NoRef
    BY <2>1, WeakAssumption DEF Objects
  <2>4. TraceResolvedFrom(v) = <<a, b, c>> /\ ResolvedOps(v) = {a, b, c}
    BY <2>3 DEF TraceResolvedFrom, ResolvedOps
  <2> HIDE DEF a, b, c
  <2>5. Given(w, <<a, b, c>>)
    <3>1. work' = [work EXCEPT ![w] = <<a, b, c>>]
      BY <1>1, <1>5, <2>4
    <3>2. QED
      BY <1>2, <3>1 DEF Given, WeakTypes
  <2>6. Becomes({}, {a, b, c}) /\ RechecksStay
    BY <1>2, <2>2, <2>5, StepTo3
  <2>7. QED
    BY <1>1, <2>1, <2>4, <2>6
<1>6. QED
  BY <1>4, <1>5

-------------------------------------------------------------------------------
(* Every step of tracing *)

TraceStep(w) ==
  \/ PushLoad(w) \/ PushSwap(w) \/ FollowLoad(w) \/ FollowSkip(w) \/ FollowSwap(w) \/ Resolve(w)
  \/ VisitEdge(w) \/ EnqueueObject(w) \/ TraceObject(w) \/ LookAtKey(w) \/ FinishTraced(w)
  \/ AddPending(w) \/ LookAgain(w) \/ GoNextResolved(w) \/ TakeNextRoot(w)

\* Only tracing has operations other than to hand out a finalizer.
LEMMA WorkTraces ==
  ASSUME WeakTypes, Phases, NEW x \in Ops
  PROVE  /\ x.op # "pop" => Tracing
         /\ x.op = "pop" => phase = "done"
<1>1. phase \in {"attach", "heap", "weak", "fin0", "fin1", "done"}
  BY DEF WeakTypes
<1>2. QED
  BY <1>1 DEF Phases, Tracing

LEMMA TraceFrame ==
  ASSUME WeakTypes, Phases, NEW w \in Workers, TraceStep(w)
  PROVE  /\ shape' = shape /\ key' = key /\ checkPending' = checkPending /\ phase' = phase
         /\ table' = table /\ firedList' = firedList /\ handed' = handed
         /\ Tracing /\ Tracing'
         /\ work' \in [Workers -> Seq(OpSet)] /\ \A y \in Ops' : y.op # "pop"
<1>1. /\ shape' = shape /\ key' = key /\ checkPending' = checkPending /\ phase' = phase
      /\ table' = table /\ firedList' = firedList /\ handed' = handed
  <2>1. CASE PushLoad(w) \/ PushSwap(w) \/ FollowLoad(w) \/ FollowSkip(w) \/ FollowSwap(w)
    BY <2>1 DEF PushLoad, PushSwap, FollowLoad, FollowSkip, FollowSwap, weakHeapVars, finVars
  <2>2. CASE Resolve(w) \/ VisitEdge(w) \/ EnqueueObject(w) \/ TraceObject(w) \/ LookAtKey(w)
    BY <2>2 DEF Resolve, VisitEdge, EnqueueObject, TraceObject, LookAtKey, weakHeapVars, finVars
  <2>3. CASE FinishTraced(w) \/ AddPending(w) \/ LookAgain(w) \/ GoNextResolved(w) \/ TakeNextRoot(w)
    BY <2>3 DEF FinishTraced, AddPending, LookAgain, GoNextResolved, TakeNextRoot, weakHeapVars, finVars
  <2>4. QED
    BY <2>1, <2>2, <2>3 DEF TraceStep
<1>2. Tracing
  <2>1. CASE TraceObject(w) \/ TakeNextRoot(w)
    BY <2>1 DEF TraceObject, TakeNextRoot
  <2>2. CASE ~(TraceObject(w) \/ TakeNextRoot(w))
    <3>1. work[w] # <<>> /\ Op(w).op # "pop"
      <4>1. CASE PushLoad(w) \/ PushSwap(w) \/ FollowLoad(w) \/ FollowSkip(w) \/ FollowSwap(w)
        BY <4>1 DEF PushLoad, PushSwap, FollowLoad, FollowSkip, FollowSwap, Doing
      <4>2. CASE Resolve(w) \/ VisitEdge(w) \/ EnqueueObject(w) \/ LookAtKey(w) \/ FinishTraced(w)
        BY <4>2 DEF Resolve, VisitEdge, EnqueueObject, LookAtKey, FinishTraced, Doing
      <4>3. CASE AddPending(w) \/ LookAgain(w) \/ GoNextResolved(w)
        BY <4>3 DEF AddPending, LookAgain, GoNextResolved, Doing
      <4>4. QED
        BY <2>2, <4>1, <4>2, <4>3 DEF TraceStep
    <3>2. Op(w) \in Ops
      BY <3>1, HeadOp
    <3>3. QED
      BY <3>1, <3>2, WorkTraces
  <2>3. QED
    BY <2>1, <2>2
<1>3. Tracing'
  BY <1>1, <1>2 DEF Tracing
<1>4. work' \in [Workers -> Seq(OpSet)] /\ \A y \in Ops' : y.op # "pop"
  <2>0. \A X, N : Becomes(X, N) /\ (\A y \in N : y.op # "pop") =>
          work' \in [Workers -> Seq(OpSet)] /\ \A y \in Ops' : y.op # "pop"
    <3>1. \A y \in Ops : y.op # "pop"
      BY <1>2 DEF Phases, Tracing
    <3> HIDE DEF Ops
    <3>2. QED
      BY <3>1 DEF Becomes
  <2>1. CASE PushLoad(w)
    <3>1. PushLoadMoves(w)
      BY <2>1, PushLoadOps
    <3>2. QED
      BY <2>0, <3>1 DEF PushLoadMoves, PushCas
  <2>2. CASE PushSwap(w)
    <3>1. PushSwapMoves(w)
      BY <2>2, PushSwapOps
    <3>2. QED
      BY <2>0, <3>1 DEF PushSwapMoves, Push
  <2>3. CASE FollowLoad(w)
    <3>1. FollowLoadMoves(w)
      BY <2>3, FollowLoadOps
    <3>2. QED
      BY <2>0, <3>1 DEF FollowLoadMoves, Skip
  <2>4. CASE FollowSkip(w)
    <3>1. FollowSkipMoves(w)
      BY <2>4, FollowSkipOps
    <3>2. QED
      BY <2>0, <3>1 DEF FollowSkipMoves, Skip, FollowCas, AfterOps, TryResolve, Follow
  <2>5. CASE FollowSwap(w)
    <3>1. FollowSwapMoves(w)
      BY <2>5, FollowSwapOps
    <3>2. QED
      BY <2>0, <3>1 DEF FollowSwapMoves, Skip, AfterOps, TryResolve, Follow
  <2>6. CASE Resolve(w)
    <3>1. ResolveMoves(w)
      BY <2>6, ResolveOps
    <3>2. QED
      BY <2>0, <3>1 DEF ResolveMoves, Push
  <2>7. CASE VisitEdge(w)
    <3>1. VisitEdgeMoves(w)
      BY <2>7, VisitEdgeOps
    <3>2. QED
      BY <2>0, <3>1 DEF VisitEdgeMoves, Follow, Enqueue
  <2>8. CASE EnqueueObject(w)
    <3>1. EnqueueMoves(w)
      BY <2>8, EnqueueOps
    <3>2. QED
      BY <2>0, <3>1 DEF EnqueueMoves
  <2>9. CASE TraceObject(w)
    <3>1. PICK o \in greyObjects : TraceObjectMoves(o)
      BY <2>9, TraceObjectOps
    <3>2. QED
      BY <2>0, <3>1 DEF TraceObjectMoves, VisitObject, VisitKey
  <2>10. CASE LookAtKey(w)
    <3>1. LookAtKeyMoves(w)
      BY <2>10, LookAtKeyOps
    <3>2. QED
      BY <2>0, <3>1 DEF LookAtKeyMoves, VisitObject, SetTraced, Publish
  <2>11. CASE FinishTraced(w)
    <3>1. FinishTracedMoves(w)
      BY <2>11, FinishTracedOps
    <3>2. QED
      BY <2>0, <3>1 DEF FinishTracedMoves
  <2>12. CASE AddPending(w)
    <3>1. AddPendingMoves(w)
      BY <1>2, <2>12, AddPendingOps
    <3>2. QED
      BY <2>0, <3>1 DEF AddPendingMoves, Push, Recheck
  <2>13. CASE LookAgain(w)
    <3>1. LookAgainMoves(w)
      BY <2>13, LookAgainOps
    <3>2. QED
      BY <2>0, <3>1 DEF LookAgainMoves, TryResolve
  <2>14. CASE GoNextResolved(w)
    <3>1. NextResolvedMoves(w)
      BY <2>14, NextResolvedOps
    <3>2. QED
      BY <2>0, <3>1 DEF NextResolvedMoves, ResolvedOps, VisitObject, SetTraced, NextResolved
  <2>15. CASE TakeNextRoot(w)
    <3>1. PICK r \in rootList : TakeRootMoves(r)
      BY <2>15, TakeRootOps
    <3>2. QED
      BY <2>0, <3>1 DEF TakeRootMoves, ResolvedOps, VisitObject, SetTraced, NextResolved
  <2>16. QED
    BY <2>1, <2>2, <2>3, <2>4, <2>5, <2>6, <2>7, <2>8, <2>9, <2>10, <2>11, <2>12, <2>13, <2>14,
       <2>15 DEF TraceStep
<1>5. QED
  BY <1>1, <1>2, <1>3, <1>4

\* What is marked stays so, what is seen too, and what is traced is traced.
LEMMA Steady ==
  ASSUME WeakTypes, Phases, Tracing, QueuedOnce, NEW w \in Workers, TraceStep(w)
  PROVE  /\ markedObjects \subseteq markedObjects'
         /\ \A o \in Objects : Seen(o) => Seen(o)'
         /\ \A o \in Objects : Started(o) => Started(o)'
         /\ greyObjects' \subseteq markedObjects' /\ markedObjects' \subseteq Objects
<1>1. CASE PushLoad(w) \/ PushSwap(w) \/ FollowLoad(w) \/ FollowSkip(w) \/ FollowSwap(w) \/ Resolve(w)
  <2>1. markedObjects' = markedObjects /\ greyObjects' = greyObjects
    BY <1>1 DEF PushLoad, PushSwap, FollowLoad, FollowSkip, FollowSwap, Resolve
  <2>2. (\A o : HasOp({"visit"}, o) => HasOp({"visit"}, o)')
        /\ \A o : HasOp({"enqueue"}, o)' => HasOp({"enqueue"}, o)
    <3>1. CASE PushLoad(w)
      <4>1. PushLoadMoves(w)
        BY <3>1, PushLoadOps
      <4>2. QED
        BY <4>1 DEF PushLoadMoves, Becomes, PushCas
    <3>2. CASE PushSwap(w)
      <4>1. PushSwapMoves(w)
        BY <3>2, PushSwapOps
      <4>2. QED
        BY <4>1 DEF PushSwapMoves, Becomes, Push
    <3>3. CASE FollowLoad(w)
      <4>1. FollowLoadMoves(w)
        BY <3>3, FollowLoadOps
      <4>2. QED
        BY <4>1 DEF FollowLoadMoves, Becomes, Skip
    <3>4. CASE FollowSkip(w)
      <4>1. FollowSkipMoves(w)
        BY <3>4, FollowSkipOps
      <4>2. QED
        BY <4>1 DEF FollowSkipMoves, Becomes, AfterOps, Skip, FollowCas, Follow, TryResolve
    <3>5. CASE FollowSwap(w)
      <4>1. FollowSwapMoves(w)
        BY <3>5, FollowSwapOps
      <4>2. PICK N : Becomes({Op(w)}, N) /\ \A y \in N : y.op \in {"skip", "follow", "tryResolve"}
        BY <4>1, SwapBecomes
      <4>3. Op(w).op = "followCas"
        BY <4>1, SwapBecomes
      <4>4. QED
        BY <4>2, <4>3 DEF Becomes
    <3>6. CASE Resolve(w)
      <4>1. ResolveMoves(w)
        BY <3>6, ResolveOps
      <4>2. QED
        BY <4>1 DEF ResolveMoves, Becomes, Push
    <3>7. QED
      BY <1>1, <3>1, <3>2, <3>3, <3>4, <3>5, <3>6
  <2>3. QED
    BY <2>1, <2>2 DEF Seen, Started, WeakTypes
<1>2. CASE VisitEdge(w)
  <2>1. VisitEdgeMoves(w)
    BY <1>2, VisitEdgeOps
  <2>2. greyObjects' = greyObjects
    BY <1>2 DEF VisitEdge
  <2>3. markedObjects \subseteq markedObjects' /\ markedObjects' \subseteq Objects
    BY <2>1 DEF VisitEdgeMoves, WeakTypes
  <2>4. \A o \in Objects : Seen(o) => Seen(o)'
    <3>1. \A o : HasOp({"visit"}, o) => HasOp({"visit"}, o)' \/ o = Op(w).obj
      BY <2>1 DEF VisitEdgeMoves, Becomes
    <3>2. Op(w).obj \in Objects => Op(w).obj \in markedObjects'
      BY <2>1, ShapeTypes DEF VisitEdgeMoves
    <3>3. QED
      BY <2>3, <3>1, <3>2 DEF Seen
  <2>5. \A o \in Objects : Started(o) => Started(o)'
    BY <2>1, <2>2 DEF VisitEdgeMoves, Becomes, Follow, Enqueue, Started
  <2>6. QED
    BY <2>2, <2>3, <2>4, <2>5 DEF WeakTypes
<1>3. CASE EnqueueObject(w)
  <2>1. EnqueueMoves(w)
    BY <1>3, EnqueueOps
  <2>2. markedObjects' = markedObjects
    BY <1>3 DEF EnqueueObject
  <2>3. \A o \in Objects : Seen(o) => Seen(o)'
    BY <2>1, <2>2 DEF EnqueueMoves, Becomes, Seen
  <2>4. Op(w).obj \in markedObjects /\ HasOp({"enqueue"}, Op(w).obj)
    <3>1. HasOp({"enqueue"}, Op(w).obj) /\ Op(w).obj \in Objects
      BY <2>1 DEF EnqueueMoves, Becomes
    <3>2. QED
      BY <3>1 DEF QueuedOnce
  <2>5. \A o \in Objects : Started(o) => Started(o)'
    BY <2>1, <2>2, <2>4 DEF EnqueueMoves, Becomes, Started
  <2>6. QED
    BY <2>1, <2>2, <2>3, <2>4, <2>5 DEF WeakTypes, EnqueueMoves
<1>4. CASE TraceObject(w)
  <2>1. PICK o \in greyObjects : TraceObjectMoves(o)
    BY <1>4, TraceObjectOps
  <2>2. markedObjects' = markedObjects
    BY <1>4 DEF TraceObject
  <2>3. greyObjects' \subseteq greyObjects
    BY <2>1 DEF TraceObjectMoves
  <2>4. \A a \in Objects : Seen(a) => Seen(a)'
    BY <2>1, <2>2 DEF TraceObjectMoves, Becomes, Seen
  <2>5. \A a \in Objects : Started(a) => Started(a)'
    BY <2>1, <2>2, <2>3 DEF TraceObjectMoves, Becomes, Started, VisitObject, VisitKey
  <2>6. QED
    BY <2>2, <2>3, <2>4, <2>5 DEF WeakTypes
<1>5. CASE \/ LookAtKey(w) \/ FinishTraced(w) \/ AddPending(w) \/ LookAgain(w)
           \/ GoNextResolved(w) \/ TakeNextRoot(w)
  <2>1. markedObjects' = markedObjects /\ greyObjects' = greyObjects
    BY <1>5 DEF LookAtKey, FinishTraced, AddPending, LookAgain, GoNextResolved, TakeNextRoot
  <2>2. (\A o : HasOp({"visit"}, o) => HasOp({"visit"}, o)')
        /\ \A o : HasOp({"enqueue"}, o)' => HasOp({"enqueue"}, o)
    <3>1. CASE LookAtKey(w)
      <4>1. LookAtKeyMoves(w)
        BY <3>1, LookAtKeyOps
      <4>2. \A o : HasOp({"visit"}, o) => HasOp({"visit"}, o)'
        BY <4>1 DEF LookAtKeyMoves, Becomes
      <4>3. \A o : HasOp({"enqueue"}, o)' => HasOp({"enqueue"}, o)
        BY <4>1 DEF LookAtKeyMoves, Becomes, VisitObject, SetTraced, Publish
      <4>4. QED
        BY <4>2, <4>3
    <3>2. CASE FinishTraced(w)
      <4>1. FinishTracedMoves(w)
        BY <3>2, FinishTracedOps
      <4>2. QED
        BY <4>1 DEF FinishTracedMoves, Becomes
    <3>3. CASE AddPending(w)
      <4>1. AddPendingMoves(w)
        BY <3>3, AddPendingOps
      <4>2. QED
        BY <4>1 DEF AddPendingMoves, Becomes, Push, Recheck
    <3>4. CASE LookAgain(w)
      <4>1. LookAgainMoves(w)
        BY <3>4, LookAgainOps
      <4>2. QED
        BY <4>1 DEF LookAgainMoves, Becomes, TryResolve
    <3>5. CASE GoNextResolved(w)
      <4>1. NextResolvedMoves(w)
        BY <3>5, NextResolvedOps
      <4>2. QED
        BY <4>1 DEF NextResolvedMoves, Becomes, ResolvedOps, VisitObject, SetTraced, NextResolved
    <3>6. CASE TakeNextRoot(w)
      <4>1. PICK r \in rootList : TakeRootMoves(r)
        BY <3>6, TakeRootOps
      <4>2. QED
        BY <4>1 DEF TakeRootMoves, Becomes, ResolvedOps, VisitObject, SetTraced, NextResolved
    <3>7. QED
      BY <1>5, <3>1, <3>2, <3>3, <3>4, <3>5, <3>6
  <2>3. QED
    BY <2>1, <2>2 DEF Seen, Started, WeakTypes
<1>6. QED
  BY <1>1, <1>2, <1>3, <1>4, <1>5 DEF TraceStep

\* What those who follow links have found, and what is next on the resolved list.
LEMMA Nodes ==
  ASSUME WeakTypes, Phases, Tracing, TraceInv
  PROVE  /\ \A x \in Ops : x.op \in {"skip", "followCas"} /\ x.new # NoRef =>
              x.new \in Ephemerons /\ Started(x.new) /\ state[x.new] # "claimed"
         /\ \A x \in Ops : x.op = "nextResolved" /\ link[ResolvedLink(x.obj)] # NoRef =>
              LET v == link[ResolvedLink(x.obj)]
              IN  v \in Ephemerons /\ state[v] = "resolved" /\ ~HasOp({"setTraced"} \cup Pushes, v)
         /\ \A r \in rootList : r.kind = "resolved" =>
              r.obj \in Ephemerons /\ state[r.obj] = "resolved" /\ ~HasOp({"setTraced"} \cup Pushes, r.obj)
<1>1. ASSUME NEW x \in Ops, x.op \in {"skip", "followCas"}, x.new # NoRef
      PROVE  x.new \in Ephemerons /\ Started(x.new) /\ state[x.new] # "claimed"
  <2>1. x \in OpSet
    BY OpsIn
  <2>2. x.new \in Ephemerons /\ x.op \in Walks /\ x.op # "follow"
    BY <1>1, <2>1, OpKinds DEF Ephs, Walks
  <2>3. PICK r \in [Ephemerons -> Nat], n \in Nat : RankedBy(r, n)
    BY DEF TraceInv
  <2>4. WalkOk(r, x)
    BY <2>2, <2>3 DEF RankedBy, Links
  <2>5. r[x.new] # 0
    BY <1>1, <2>2, <2>4 DEF WalkOk, IsNode, InBucket
  <2>6. QED
    BY <2>2, <2>3, <2>5 DEF RankedBy, Ranked
<1>2. PICK q, t \in Seq(Ephemerons) : ResolvedIn(q, t)
  BY DEF TraceInv
<1>3. ASSUME Top(t) # NoRef
      PROVE  /\ Top(t) \in Ephemerons /\ state[Top(t)] = "resolved"
             /\ ~HasOp({"setTraced"} \cup Pushes, Top(t))
  <2>1. t # <<>> /\ Top(t) = t[Len(t)] /\ Len(t) \in DOMAIN t
    BY <1>3 DEF Top
  <2>2. Top(t) \in Ephemerons /\ Listed(t, Top(t))
    BY <2>1 DEF Listed
  <2>3. QED
    BY <1>2, <2>2 DEF ResolvedIn
<1>4. ASSUME NEW x \in Ops, x.op = "nextResolved", link[ResolvedLink(x.obj)] # NoRef
      PROVE  LET v == link[ResolvedLink(x.obj)]
             IN  v \in Ephemerons /\ state[v] = "resolved" /\ ~HasOp({"setTraced"} \cup Pushes, v)
  BY <1>2, <1>3, <1>4 DEF ResolvedIn
<1>5. ASSUME NEW r \in rootList, r.kind = "resolved"
      PROVE  /\ r.obj \in Ephemerons /\ state[r.obj] = "resolved"
             /\ ~HasOp({"setTraced"} \cup Pushes, r.obj)
  <2>1. r.obj = Top(t) /\ r \in RootSet
    BY <1>2, <1>5 DEF ResolvedIn, WeakTypes
  <2>2. r.obj # NoRef
    BY <1>5, <2>1, ShapeTypes DEF RootSet, Objects
  <2>3. QED
    BY <1>3, <2>1, <2>2
<1>6. QED
  BY <1>1, <1>4, <1>5

\* Of the operations of which there is one at most, two are the same.
LEMMA OneOf ==
  ASSUME WeakTypes, NEW K, NEW o, Once(Of(K, o)), NEW x \in Ops, NEW y \in Ops,
         x.op \in K, x.obj = o, y.op \in K, y.obj = o
  PROVE  x = y
<1>1. x \in Of(K, o) /\ y \in Of(K, o)
  BY OpsIn DEF Of
<1>2. PICK w \in Workers : \E i \in DOMAIN work[w] : x = work[w][i]
  BY DEF Ops
<1>3. PICK i \in DOMAIN work[w] : x = work[w][i]
  BY <1>2
<1>4. PICK u \in Workers : \E j \in DOMAIN work[u] : y = work[u][j]
  BY DEF Ops
<1>5. PICK j \in DOMAIN work[u] : y = work[u][j]
  BY <1>4
<1>6. QED
  BY <1>1, <1>3, <1>5 DEF Once

LEMMA OneOfNext ==
  ASSUME work' \in [Workers -> Seq(OpSet)], NEW K, NEW o, Once(Of(K, o))', NEW x \in Ops', NEW y \in Ops',
         x.op \in K, x.obj = o, y.op \in K, y.obj = o
  PROVE  x = y
<1>1. ASSUME NEW u \in Workers, NEW i \in DOMAIN work'[u] PROVE work'[u][i] \in OpSet
  OBVIOUS
<1>2. PICK w \in Workers : \E i \in DOMAIN work'[w] : x = work'[w][i]
  BY DEF Ops
<1>3. PICK i \in DOMAIN work'[w] : x = work'[w][i]
  BY <1>2
<1>4. PICK u \in Workers : \E j \in DOMAIN work'[u] : y = work'[u][j]
  BY DEF Ops
<1>5. PICK j \in DOMAIN work'[u] : y = work'[u][j]
  BY <1>4
<1>6. work'[w][i] \in Of(K, o) /\ work'[u][j] \in Of(K, o)
  BY <1>1, <1>3, <1>5 DEF Of
<1>7. QED
  BY <1>3, <1>5, <1>6 DEF Once, Of

\* What a step adds to what there is to do, and what it takes away.
Gain(N) == \A K, o : HasOp(K, o)' => HasOp(K, o) \/ \E y \in N : y.op \in K /\ y.obj = o
Lose(X) ==
  /\ \A K, o : HasOp(K, o) => HasOp(K, o)' \/ \E x \in X : x.op \in K /\ x.obj = o
  /\ \A K : \A x \in X : x.op \in K => HasOp(K, x.obj)

LEMMA GainLose == \A X, N : Becomes(X, N) => Gain(N) /\ Lose(X)
BY DEF Becomes, Gain, Lose

PushLoadGains(w) ==
  LET x == Op(w) IN
  /\ \A K, o : HasOp(K, o)' => HasOp(K, o) \/
       ("pushCas" \in K /\ o = x.obj)
  /\ \A K, o : HasOp(K, o) => HasOp(K, o)' \/ (x.op \in K /\ o = x.obj)
  /\ \A K : x.op \in K => HasOp(K, x.obj)
LEMMA PushLoadGained ==
  ASSUME NEW w, PushLoadMoves(w)
  PROVE  PushLoadGains(w)
<1> DEFINE x == Op(w)
<1>1. Lose({x}) /\ (Gain({PushCas(x.cell, x.obj, link[x.cell])}))
  BY GainLose DEF PushLoadMoves
<1>2. ASSUME Gain({PushCas(x.cell, x.obj, link[x.cell])})
      PROVE  \A K, o : HasOp(K, o)' => HasOp(K, o) \/
       ("pushCas" \in K /\ o = x.obj)
  BY <1>2 DEF Gain, PushCas
<1>3. /\ \A K, o : HasOp(K, o) => HasOp(K, o)' \/ (x.op \in K /\ o = x.obj)
      /\ \A K : x.op \in K => HasOp(K, x.obj)
  BY <1>1 DEF Lose
<1> HIDE DEF x
<1>4. QED
  BY <1>1, <1>2, <1>3 DEF PushLoadGains, x

PushSwapGains(w) ==
  LET x == Op(w) IN
  /\ \A K, o : HasOp(K, o)' => HasOp(K, o) \/
       ("push" \in K /\ o = x.obj)
  /\ \A K, o : HasOp(K, o) => HasOp(K, o)' \/ (x.op \in K /\ o = x.obj)
  /\ \A K : x.op \in K => HasOp(K, x.obj)
LEMMA PushSwapGained ==
  ASSUME NEW w, PushSwapMoves(w)
  PROVE  PushSwapGains(w)
<1> DEFINE x == Op(w)
<1>1. Lose({x}) /\ ((Gain({})) \/ (Gain({Push(x.cell, x.obj)})))
  BY GainLose DEF PushSwapMoves
<1>2. ASSUME Gain({})
      PROVE  \A K, o : HasOp(K, o)' => HasOp(K, o) \/
       ("push" \in K /\ o = x.obj)
  BY <1>2 DEF Gain, Push
<1>3. ASSUME Gain({Push(x.cell, x.obj)})
      PROVE  \A K, o : HasOp(K, o)' => HasOp(K, o) \/
       ("push" \in K /\ o = x.obj)
  BY <1>3 DEF Gain, Push
<1>4. /\ \A K, o : HasOp(K, o) => HasOp(K, o)' \/ (x.op \in K /\ o = x.obj)
      /\ \A K : x.op \in K => HasOp(K, x.obj)
  BY <1>1 DEF Lose
<1> HIDE DEF x
<1>5. QED
  BY <1>1, <1>2, <1>3, <1>4 DEF PushSwapGains, x

FollowLoadGains(w) ==
  LET x == Op(w) IN
  /\ \A K, o : HasOp(K, o)' => HasOp(K, o) \/
       ("skip" \in K /\ o = x.obj)
  /\ \A K, o : HasOp(K, o) => HasOp(K, o)' \/ (x.op \in K /\ o = x.obj)
  /\ \A K : x.op \in K => HasOp(K, x.obj)
LEMMA FollowLoadGained ==
  ASSUME NEW w, FollowLoadMoves(w)
  PROVE  FollowLoadGains(w)
<1> DEFINE x == Op(w)
<1>1. Lose({x}) /\ ((Gain({})) \/ (Gain({Skip(x.cell, x.obj, link[x.cell], link[x.cell])})))
  BY GainLose DEF FollowLoadMoves
<1>2. ASSUME Gain({})
      PROVE  \A K, o : HasOp(K, o)' => HasOp(K, o) \/
       ("skip" \in K /\ o = x.obj)
  BY <1>2 DEF Gain, Skip
<1>3. ASSUME Gain({Skip(x.cell, x.obj, link[x.cell], link[x.cell])})
      PROVE  \A K, o : HasOp(K, o)' => HasOp(K, o) \/
       ("skip" \in K /\ o = x.obj)
  BY <1>3 DEF Gain, Skip
<1>4. /\ \A K, o : HasOp(K, o) => HasOp(K, o)' \/ (x.op \in K /\ o = x.obj)
      /\ \A K : x.op \in K => HasOp(K, x.obj)
  BY <1>1 DEF Lose
<1> HIDE DEF x
<1>5. QED
  BY <1>1, <1>2, <1>3, <1>4 DEF FollowLoadGains, x

FollowSkipGains(w) ==
  LET x == Op(w) IN
  /\ \A K, o : HasOp(K, o)' => HasOp(K, o) \/
       ({"skip", "followCas", "follow"} \cap K # {} /\ o = x.obj)
       \/ ("tryResolve" \in K /\ o = x.new /\ x.new # NoRef /\ key[x.new] = x.obj)
  /\ \A K, o : HasOp(K, o) => HasOp(K, o)' \/ (x.op \in K /\ o = x.obj)
  /\ \A K : x.op \in K => HasOp(K, x.obj)
LEMMA FollowSkipGained ==
  ASSUME NEW w, FollowSkipMoves(w)
  PROVE  FollowSkipGains(w)
<1> DEFINE x == Op(w)
<1>1. Lose({x}) /\ ((Gain({Skip(x.cell, x.obj, x.head, link[PendingLink(x.new)])})) \/ (Gain(AfterOps(x.obj, x.new))) \/ (Gain({FollowCas(x.cell, x.obj, x.head, x.new)})))
  BY GainLose DEF FollowSkipMoves
<1>2. ASSUME Gain({Skip(x.cell, x.obj, x.head, link[PendingLink(x.new)])})
      PROVE  \A K, o : HasOp(K, o)' => HasOp(K, o) \/
       ({"skip", "followCas", "follow"} \cap K # {} /\ o = x.obj)
       \/ ("tryResolve" \in K /\ o = x.new /\ x.new # NoRef /\ key[x.new] = x.obj)
  BY <1>2 DEF Gain, AfterOps, Skip, FollowCas, Follow, TryResolve
<1>3. ASSUME Gain(AfterOps(x.obj, x.new))
      PROVE  \A K, o : HasOp(K, o)' => HasOp(K, o) \/
       ({"skip", "followCas", "follow"} \cap K # {} /\ o = x.obj)
       \/ ("tryResolve" \in K /\ o = x.new /\ x.new # NoRef /\ key[x.new] = x.obj)
  BY <1>3 DEF Gain, AfterOps, Skip, FollowCas, Follow, TryResolve
<1>4. ASSUME Gain({FollowCas(x.cell, x.obj, x.head, x.new)})
      PROVE  \A K, o : HasOp(K, o)' => HasOp(K, o) \/
       ({"skip", "followCas", "follow"} \cap K # {} /\ o = x.obj)
       \/ ("tryResolve" \in K /\ o = x.new /\ x.new # NoRef /\ key[x.new] = x.obj)
  BY <1>4 DEF Gain, AfterOps, Skip, FollowCas, Follow, TryResolve
<1>5. /\ \A K, o : HasOp(K, o) => HasOp(K, o)' \/ (x.op \in K /\ o = x.obj)
      /\ \A K : x.op \in K => HasOp(K, x.obj)
  BY <1>1 DEF Lose
<1> HIDE DEF x
<1>6. QED
  BY <1>1, <1>2, <1>3, <1>4, <1>5 DEF FollowSkipGains, x

FollowSwapGains(w) ==
  LET x == Op(w) IN
  /\ \A K, o : HasOp(K, o)' => HasOp(K, o) \/
       ({"skip", "follow"} \cap K # {} /\ o = x.obj)
       \/ ("tryResolve" \in K /\ o = x.new /\ x.new # NoRef /\ key[x.new] = x.obj)
  /\ \A K, o : HasOp(K, o) => HasOp(K, o)' \/ (x.op \in K /\ o = x.obj)
  /\ \A K : x.op \in K => HasOp(K, x.obj)
LEMMA FollowSwapGained ==
  ASSUME NEW w, FollowSwapMoves(w)
  PROVE  FollowSwapGains(w)
<1> DEFINE x == Op(w)
<1>1. Lose({x}) /\ ((Gain(AfterOps(x.obj, x.new))) \/ (Gain({Skip(x.cell, x.obj, link[x.cell], link[x.cell])})))
  BY GainLose DEF FollowSwapMoves
<1>2. ASSUME Gain(AfterOps(x.obj, x.new))
      PROVE  \A K, o : HasOp(K, o)' => HasOp(K, o) \/
       ({"skip", "follow"} \cap K # {} /\ o = x.obj)
       \/ ("tryResolve" \in K /\ o = x.new /\ x.new # NoRef /\ key[x.new] = x.obj)
  BY <1>2 DEF Gain, AfterOps, Skip, Follow, TryResolve
<1>3. ASSUME Gain({Skip(x.cell, x.obj, link[x.cell], link[x.cell])})
      PROVE  \A K, o : HasOp(K, o)' => HasOp(K, o) \/
       ({"skip", "follow"} \cap K # {} /\ o = x.obj)
       \/ ("tryResolve" \in K /\ o = x.new /\ x.new # NoRef /\ key[x.new] = x.obj)
  BY <1>3 DEF Gain, AfterOps, Skip, Follow, TryResolve
<1>4. /\ \A K, o : HasOp(K, o) => HasOp(K, o)' \/ (x.op \in K /\ o = x.obj)
      /\ \A K : x.op \in K => HasOp(K, x.obj)
  BY <1>1 DEF Lose
<1> HIDE DEF x
<1>5. QED
  BY <1>1, <1>2, <1>3, <1>4 DEF FollowSwapGains, x

ResolveGains(w) ==
  LET x == Op(w) IN
  /\ \A K, o : HasOp(K, o)' => HasOp(K, o) \/
       ("push" \in K /\ o = x.obj /\ state[o] = "pending")
  /\ \A K, o : HasOp(K, o) => HasOp(K, o)' \/ (x.op \in K /\ o = x.obj)
  /\ \A K : x.op \in K => HasOp(K, x.obj)
LEMMA ResolveGained ==
  ASSUME NEW w, ResolveMoves(w)
  PROVE  ResolveGains(w)
<1> DEFINE x == Op(w)
<1>1. Lose({x}) /\ ((state[x.obj] = "pending" /\ Gain({Push(Resolved, x.obj)})) \/ (Gain({})))
  BY GainLose DEF ResolveMoves
<1>2. ASSUME state[x.obj] = "pending", Gain({Push(Resolved, x.obj)})
      PROVE  \A K, o : HasOp(K, o)' => HasOp(K, o) \/
       ("push" \in K /\ o = x.obj /\ state[o] = "pending")
  BY <1>2 DEF Gain, Push
<1>3. ASSUME Gain({})
      PROVE  \A K, o : HasOp(K, o)' => HasOp(K, o) \/
       ("push" \in K /\ o = x.obj /\ state[o] = "pending")
  BY <1>3 DEF Gain, Push
<1>4. /\ \A K, o : HasOp(K, o) => HasOp(K, o)' \/ (x.op \in K /\ o = x.obj)
      /\ \A K : x.op \in K => HasOp(K, x.obj)
  BY <1>1 DEF Lose
<1> HIDE DEF x
<1>5. QED
  BY <1>1, <1>2, <1>3, <1>4 DEF ResolveGains, x

VisitEdgeGains(w) ==
  LET x == Op(w) IN
  /\ \A K, o : HasOp(K, o)' => HasOp(K, o) \/
       (o = x.obj /\ o \in Objects \ markedObjects /\ o \in markedObjects' /\ {"enqueue", "follow"} \cap K # {})
  /\ \A K, o : HasOp(K, o) => HasOp(K, o)' \/ (x.op \in K /\ o = x.obj)
  /\ \A K : x.op \in K => HasOp(K, x.obj)
LEMMA VisitEdgeGained ==
  ASSUME NEW w, VisitEdgeMoves(w)
  PROVE  VisitEdgeGains(w)
<1> DEFINE x == Op(w)
<1>1. Lose({x}) /\ ((Gain({})) \/ (x.obj \in Objects \ markedObjects /\ markedObjects' = markedObjects \cup {x.obj} /\ Gain({Enqueue(x.obj)})) \/ (x.obj \in Objects \ markedObjects /\ markedObjects' = markedObjects \cup {x.obj} /\ Gain({Follow(Bucket(BucketOf(x.obj)), x.obj), Enqueue(x.obj)})))
  BY GainLose DEF VisitEdgeMoves
<1>2. ASSUME Gain({})
      PROVE  \A K, o : HasOp(K, o)' => HasOp(K, o) \/
       (o = x.obj /\ o \in Objects \ markedObjects /\ o \in markedObjects' /\ {"enqueue", "follow"} \cap K # {})
  BY <1>2 DEF Gain, Follow, Enqueue
<1>3. ASSUME x.obj \in Objects \ markedObjects /\ markedObjects' = markedObjects \cup {x.obj}, Gain({Enqueue(x.obj)})
      PROVE  \A K, o : HasOp(K, o)' => HasOp(K, o) \/
       (o = x.obj /\ o \in Objects \ markedObjects /\ o \in markedObjects' /\ {"enqueue", "follow"} \cap K # {})
  BY <1>3 DEF Gain, Follow, Enqueue
<1>4. ASSUME x.obj \in Objects \ markedObjects /\ markedObjects' = markedObjects \cup {x.obj}, Gain({Follow(Bucket(BucketOf(x.obj)), x.obj), Enqueue(x.obj)})
      PROVE  \A K, o : HasOp(K, o)' => HasOp(K, o) \/
       (o = x.obj /\ o \in Objects \ markedObjects /\ o \in markedObjects' /\ {"enqueue", "follow"} \cap K # {})
  BY <1>4 DEF Gain, Follow, Enqueue
<1>5. /\ \A K, o : HasOp(K, o) => HasOp(K, o)' \/ (x.op \in K /\ o = x.obj)
      /\ \A K : x.op \in K => HasOp(K, x.obj)
  BY <1>1 DEF Lose
<1> HIDE DEF x
<1>6. QED
  BY <1>1, <1>2, <1>3, <1>4, <1>5 DEF VisitEdgeGains, x

EnqueueGains(w) ==
  LET x == Op(w) IN
  /\ \A K, o : HasOp(K, o)' => HasOp(K, o)
  /\ \A K, o : HasOp(K, o) => HasOp(K, o)' \/ (x.op \in K /\ o = x.obj)
  /\ \A K : x.op \in K => HasOp(K, x.obj)
LEMMA EnqueueGained ==
  ASSUME NEW w, EnqueueMoves(w)
  PROVE  EnqueueGains(w)
<1> DEFINE x == Op(w)
<1>1. Lose({x}) /\ (Gain({}))
  BY GainLose DEF EnqueueMoves
<1>2. ASSUME Gain({})
      PROVE  \A K, o : HasOp(K, o)' => HasOp(K, o)
  BY <1>2 DEF Gain
<1>3. /\ \A K, o : HasOp(K, o) => HasOp(K, o)' \/ (x.op \in K /\ o = x.obj)
      /\ \A K : x.op \in K => HasOp(K, x.obj)
  BY <1>1 DEF Lose
<1> HIDE DEF x
<1>4. QED
  BY <1>1, <1>2, <1>3 DEF EnqueueGains, x

TraceObjectGains(o) ==
  /\ \A K, a : HasOp(K, a)' => HasOp(K, a) \/
       ("visit" \in K /\ (a \in Objects => (o \in Plain /\ a = shape.field[o]) \/ (o \in Finalizers /\ a = shape.closure[o])))
       \/ ("visitKey" \in K /\ o \in Ephemerons /\ a = o)
  /\ \A K, a : HasOp(K, a) => HasOp(K, a)'
LEMMA TraceObjectGained ==
  ASSUME NEW o, TraceObjectMoves(o)
  PROVE  TraceObjectGains(o)
<1>1. Lose({}) /\ ((o \in Plain /\ Gain({VisitObject(shape.field[o])})) \/ (o \in Finalizers /\ Gain({VisitObject(shape.closure[o])})) \/ (o \in Ephemerons /\ Gain({VisitKey(o)})))
  BY GainLose DEF TraceObjectMoves
<1>2. ASSUME o \in Plain, Gain({VisitObject(shape.field[o])})
      PROVE  \A K, a : HasOp(K, a)' => HasOp(K, a) \/
       ("visit" \in K /\ (a \in Objects => (o \in Plain /\ a = shape.field[o]) \/ (o \in Finalizers /\ a = shape.closure[o])))
       \/ ("visitKey" \in K /\ o \in Ephemerons /\ a = o)
  BY <1>2 DEF Gain, VisitObject, VisitKey
<1>3. ASSUME o \in Finalizers, Gain({VisitObject(shape.closure[o])})
      PROVE  \A K, a : HasOp(K, a)' => HasOp(K, a) \/
       ("visit" \in K /\ (a \in Objects => (o \in Plain /\ a = shape.field[o]) \/ (o \in Finalizers /\ a = shape.closure[o])))
       \/ ("visitKey" \in K /\ o \in Ephemerons /\ a = o)
  BY <1>3 DEF Gain, VisitObject, VisitKey
<1>4. ASSUME o \in Ephemerons, Gain({VisitKey(o)})
      PROVE  \A K, a : HasOp(K, a)' => HasOp(K, a) \/
       ("visit" \in K /\ (a \in Objects => (o \in Plain /\ a = shape.field[o]) \/ (o \in Finalizers /\ a = shape.closure[o])))
       \/ ("visitKey" \in K /\ o \in Ephemerons /\ a = o)
  BY <1>4 DEF Gain, VisitObject, VisitKey
<1>5. \A K, a : HasOp(K, a) => HasOp(K, a)'
  BY <1>1 DEF Lose
<1>6. QED
  BY <1>1, <1>2, <1>3, <1>4, <1>5 DEF TraceObjectGains

LookAtKeyGains(w) ==
  LET x == Op(w) IN
  /\ \A K, o : HasOp(K, o)' => HasOp(K, o) \/
       ("visit" \in K /\ o = shape.value[x.obj])
       \/ ("setTraced" \in K /\ o = x.obj /\ key[o] \in markedObjects)
       \/ ("publish" \in K /\ o = x.obj)
  /\ \A K, o : HasOp(K, o) => HasOp(K, o)' \/ (x.op \in K /\ o = x.obj)
  /\ \A K : x.op \in K => HasOp(K, x.obj)
LEMMA LookAtKeyGained ==
  ASSUME NEW w, LookAtKeyMoves(w)
  PROVE  LookAtKeyGains(w)
<1> DEFINE x == Op(w)
<1>1. Lose({x}) /\ ((key[x.obj] \in markedObjects /\ Gain({VisitObject(shape.value[x.obj]), SetTraced(x.obj)})) \/ (Gain({Publish(x.obj)})))
  BY GainLose DEF LookAtKeyMoves
<1>2. ASSUME key[x.obj] \in markedObjects, Gain({VisitObject(shape.value[x.obj]), SetTraced(x.obj)})
      PROVE  \A K, o : HasOp(K, o)' => HasOp(K, o) \/
       ("visit" \in K /\ o = shape.value[x.obj])
       \/ ("setTraced" \in K /\ o = x.obj /\ key[o] \in markedObjects)
       \/ ("publish" \in K /\ o = x.obj)
  BY <1>2 DEF Gain, VisitObject, SetTraced, Publish
<1>3. ASSUME Gain({Publish(x.obj)})
      PROVE  \A K, o : HasOp(K, o)' => HasOp(K, o) \/
       ("visit" \in K /\ o = shape.value[x.obj])
       \/ ("setTraced" \in K /\ o = x.obj /\ key[o] \in markedObjects)
       \/ ("publish" \in K /\ o = x.obj)
  BY <1>3 DEF Gain, VisitObject, SetTraced, Publish
<1>4. /\ \A K, o : HasOp(K, o) => HasOp(K, o)' \/ (x.op \in K /\ o = x.obj)
      /\ \A K : x.op \in K => HasOp(K, x.obj)
  BY <1>1 DEF Lose
<1> HIDE DEF x
<1>5. QED
  BY <1>1, <1>2, <1>3, <1>4 DEF LookAtKeyGains, x

FinishTracedGains(w) ==
  LET x == Op(w) IN
  /\ \A K, o : HasOp(K, o)' => HasOp(K, o)
  /\ \A K, o : HasOp(K, o) => HasOp(K, o)' \/ (x.op \in K /\ o = x.obj)
  /\ \A K : x.op \in K => HasOp(K, x.obj)
LEMMA FinishTracedGained ==
  ASSUME NEW w, FinishTracedMoves(w)
  PROVE  FinishTracedGains(w)
<1> DEFINE x == Op(w)
<1>1. Lose({x}) /\ (Gain({}))
  BY GainLose DEF FinishTracedMoves
<1>2. ASSUME Gain({})
      PROVE  \A K, o : HasOp(K, o)' => HasOp(K, o)
  BY <1>2 DEF Gain
<1>3. /\ \A K, o : HasOp(K, o) => HasOp(K, o)' \/ (x.op \in K /\ o = x.obj)
      /\ \A K : x.op \in K => HasOp(K, x.obj)
  BY <1>1 DEF Lose
<1> HIDE DEF x
<1>4. QED
  BY <1>1, <1>2, <1>3 DEF FinishTracedGains, x

AddPendingGains(w) ==
  LET x == Op(w) IN
  /\ \A K, o : HasOp(K, o)' => HasOp(K, o) \/
       ({"push", "recheck"} \cap K # {} /\ o = x.obj)
  /\ \A K, o : HasOp(K, o) => HasOp(K, o)' \/ (x.op \in K /\ o = x.obj)
  /\ \A K : x.op \in K => HasOp(K, x.obj)
LEMMA AddPendingGained ==
  ASSUME NEW w, AddPendingMoves(w)
  PROVE  AddPendingGains(w)
<1> DEFINE x == Op(w)
<1>1. Lose({x}) /\ (Gain({Push(BucketFor(x.obj), x.obj), Recheck(x.obj)}))
  BY GainLose DEF AddPendingMoves
<1>2. ASSUME Gain({Push(BucketFor(x.obj), x.obj), Recheck(x.obj)})
      PROVE  \A K, o : HasOp(K, o)' => HasOp(K, o) \/
       ({"push", "recheck"} \cap K # {} /\ o = x.obj)
  BY <1>2 DEF Gain, Push, Recheck
<1>3. /\ \A K, o : HasOp(K, o) => HasOp(K, o)' \/ (x.op \in K /\ o = x.obj)
      /\ \A K : x.op \in K => HasOp(K, x.obj)
  BY <1>1 DEF Lose
<1> HIDE DEF x
<1>4. QED
  BY <1>1, <1>2, <1>3 DEF AddPendingGains, x

LookAgainGains(w) ==
  LET x == Op(w) IN
  /\ \A K, o : HasOp(K, o)' => HasOp(K, o) \/
       ("tryResolve" \in K /\ o = x.obj /\ key[o] \in markedObjects)
  /\ \A K, o : HasOp(K, o) => HasOp(K, o)' \/ (x.op \in K /\ o = x.obj)
  /\ \A K : x.op \in K => HasOp(K, x.obj)
LEMMA LookAgainGained ==
  ASSUME NEW w, LookAgainMoves(w)
  PROVE  LookAgainGains(w)
<1> DEFINE x == Op(w)
<1>1. Lose({x}) /\ ((key[x.obj] \in markedObjects /\ Gain({TryResolve(x.obj)})) \/ (Gain({})))
  BY GainLose DEF LookAgainMoves
<1>2. ASSUME key[x.obj] \in markedObjects, Gain({TryResolve(x.obj)})
      PROVE  \A K, o : HasOp(K, o)' => HasOp(K, o) \/
       ("tryResolve" \in K /\ o = x.obj /\ key[o] \in markedObjects)
  BY <1>2 DEF Gain, TryResolve
<1>3. ASSUME Gain({})
      PROVE  \A K, o : HasOp(K, o)' => HasOp(K, o) \/
       ("tryResolve" \in K /\ o = x.obj /\ key[o] \in markedObjects)
  BY <1>3 DEF Gain, TryResolve
<1>4. /\ \A K, o : HasOp(K, o) => HasOp(K, o)' \/ (x.op \in K /\ o = x.obj)
      /\ \A K : x.op \in K => HasOp(K, x.obj)
  BY <1>1 DEF Lose
<1> HIDE DEF x
<1>5. QED
  BY <1>1, <1>2, <1>3, <1>4 DEF LookAgainGains, x

NextResolvedGains(w) ==
  LET x == Op(w) IN
  /\ \A K, o : HasOp(K, o)' => HasOp(K, o) \/
       LET v == link[ResolvedLink(x.obj)] IN
       /\ v # NoRef
       /\ ("visit" \in K /\ o = shape.value[v]) \/ ({"setTraced", "nextResolved"} \cap K # {} /\ o = v)
  /\ \A K, o : HasOp(K, o) => HasOp(K, o)' \/ (x.op \in K /\ o = x.obj)
  /\ \A K : x.op \in K => HasOp(K, x.obj)
LEMMA NextResolvedGained ==
  ASSUME NEW w, NextResolvedMoves(w)
  PROVE  NextResolvedGains(w)
<1> DEFINE x == Op(w)
<1>1. Lose({x}) /\ (Gain(ResolvedOps(link[ResolvedLink(x.obj)])))
  BY GainLose DEF NextResolvedMoves
<1>2. ASSUME Gain(ResolvedOps(link[ResolvedLink(x.obj)]))
      PROVE  \A K, o : HasOp(K, o)' => HasOp(K, o) \/
       LET v == link[ResolvedLink(x.obj)] IN
       /\ v # NoRef
       /\ ("visit" \in K /\ o = shape.value[v]) \/ ({"setTraced", "nextResolved"} \cap K # {} /\ o = v)
  BY <1>2 DEF Gain, ResolvedOps, VisitObject, SetTraced, NextResolved
<1>3. /\ \A K, o : HasOp(K, o) => HasOp(K, o)' \/ (x.op \in K /\ o = x.obj)
      /\ \A K : x.op \in K => HasOp(K, x.obj)
  BY <1>1 DEF Lose
<1> HIDE DEF x
<1>4. QED
  BY <1>1, <1>2, <1>3 DEF NextResolvedGains, x

TakeRootGains(r) ==
  /\ \A K, a : HasOp(K, a)' => HasOp(K, a) \/
       ("visit" \in K /\ r.kind = "edge" /\ a = r.obj)
       \/ ("visit" \in K /\ r.kind = "resolved" /\ a = shape.value[r.obj])
       \/ ({"setTraced", "nextResolved"} \cap K # {} /\ r.kind = "resolved" /\ a = r.obj)
  /\ \A K, a : HasOp(K, a) => HasOp(K, a)'
LEMMA TakeRootGained ==
  ASSUME NEW r, TakeRootMoves(r)
  PROVE  TakeRootGains(r)
<1>1. Lose({}) /\ ((r.kind = "edge" /\ Gain({VisitObject(r.obj)})) \/ (r.kind = "resolved" /\ Gain(ResolvedOps(r.obj))))
  BY GainLose DEF TakeRootMoves
<1>2. ASSUME r.kind = "edge", Gain({VisitObject(r.obj)})
      PROVE  \A K, a : HasOp(K, a)' => HasOp(K, a) \/
       ("visit" \in K /\ r.kind = "edge" /\ a = r.obj)
       \/ ("visit" \in K /\ r.kind = "resolved" /\ a = shape.value[r.obj])
       \/ ({"setTraced", "nextResolved"} \cap K # {} /\ r.kind = "resolved" /\ a = r.obj)
  BY <1>2 DEF Gain, ResolvedOps, VisitObject, SetTraced, NextResolved
<1>3. ASSUME r.kind = "resolved", Gain(ResolvedOps(r.obj))
      PROVE  \A K, a : HasOp(K, a)' => HasOp(K, a) \/
       ("visit" \in K /\ r.kind = "edge" /\ a = r.obj)
       \/ ("visit" \in K /\ r.kind = "resolved" /\ a = shape.value[r.obj])
       \/ ({"setTraced", "nextResolved"} \cap K # {} /\ r.kind = "resolved" /\ a = r.obj)
  BY <1>3 DEF Gain, ResolvedOps, VisitObject, SetTraced, NextResolved
<1>4. \A K, a : HasOp(K, a) => HasOp(K, a)'
  BY <1>1 DEF Lose
<1>5. QED
  BY <1>1, <1>2, <1>3, <1>4 DEF TakeRootGains

\* An operation of which there is one at most is gone once it is done.
LEMMA Gone ==
  ASSUME NEW x, NEW N, Becomes({x}, N), NEW K, x.op \in K, Once(Of(K, x.obj)),
         \A y \in N : ~(y.op \in K /\ y.obj = x.obj)
  PROVE  ~HasOp(K, x.obj)'
<1>1. \E y \in {x} : y.op \in K /\ y.obj = x.obj
  OBVIOUS
<1>2. QED
  BY <1>1 DEF Becomes

\* Objects stay enqueued once, and traced once.
LEMMA QueuedNext ==
  ASSUME WeakTypes, Phases, Tracing, TraceInv, NEW w \in Workers, TraceStep(w)
  PROVE  QueuedOnce'
<1>0. QueuedOnce /\ (\A e \in Ephemerons : Started(e) => Started(e)') /\ greyObjects \subseteq markedObjects
  BY Steady DEF TraceInv, Objects, WeakTypes
<1>1. CASE PushLoad(w)
  <2>1. PushLoadMoves(w)
    BY <1>1, PushLoadOps
  <2>2. markedObjects' = markedObjects /\ greyObjects' = greyObjects /\ state' = state /\ rootList' = rootList
    BY <1>1 DEF PushLoad
  <2>3. PushLoadGains(w)
    BY <2>1, PushLoadGained
  <2>4. Op(w).obj \in Ephemerons /\ Started(Op(w).obj)
    BY <1>0, <2>1, <2>3 DEF PushLoadMoves, QueuedOnce, PushLoadGains, Traces
  <2>5. \A o \in Objects : Once(Of({"enqueue"}, o))'
    BY <1>0, <2>1, <2>2, <2>4 DEF PushLoadMoves, Becomes, PushCas, QueuedOnce
  <2>6. \A o \in Objects : HasOp({"enqueue"}, o)' => o \in markedObjects' /\ o \notin greyObjects'
    BY <1>0, <2>1, <2>2, <2>3, <2>4 DEF PushLoadMoves, PushLoadGains, QueuedOnce
  <2>7. \A e \in Ephemerons : state'[e] # "traced" \/ HasOp(Traces, e)' => Started(e)'
    BY <1>0, <2>1, <2>2, <2>3, <2>4 DEF PushLoadMoves, PushLoadGains, QueuedOnce, Traces, WeakTypes
  <2>8. QED
    BY <2>5, <2>6, <2>7 DEF QueuedOnce
<1>2. CASE PushSwap(w)
  <2>1. PushSwapMoves(w)
    BY <1>2, PushSwapOps
  <2>2. markedObjects' = markedObjects /\ greyObjects' = greyObjects /\ state' = state /\ rootList' = rootList
    BY <1>2 DEF PushSwap
  <2>3. PushSwapGains(w)
    BY <2>1, PushSwapGained
  <2>4. Op(w).obj \in Ephemerons /\ Started(Op(w).obj)
    BY <1>0, <2>1, <2>3 DEF PushSwapMoves, QueuedOnce, PushSwapGains, Traces
  <2>5. \A o \in Objects : Once(Of({"enqueue"}, o))'
    BY <1>0, <2>1, <2>2, <2>4 DEF PushSwapMoves, Becomes, Push, QueuedOnce
  <2>6. \A o \in Objects : HasOp({"enqueue"}, o)' => o \in markedObjects' /\ o \notin greyObjects'
    BY <1>0, <2>1, <2>2, <2>3, <2>4 DEF PushSwapMoves, PushSwapGains, QueuedOnce
  <2>7. \A e \in Ephemerons : state'[e] # "traced" \/ HasOp(Traces, e)' => Started(e)'
    BY <1>0, <2>1, <2>2, <2>3, <2>4 DEF PushSwapMoves, PushSwapGains, QueuedOnce, Traces, WeakTypes
  <2>8. QED
    BY <2>5, <2>6, <2>7 DEF QueuedOnce
<1>3. CASE FollowLoad(w)
  <2>1. FollowLoadMoves(w)
    BY <1>3, FollowLoadOps
  <2>2. markedObjects' = markedObjects /\ greyObjects' = greyObjects /\ state' = state /\ link' = link /\ rootList' = rootList
    BY <1>3 DEF FollowLoad
  <2>3. FollowLoadGains(w)
    BY <2>1, FollowLoadGained
  <2>4. \A o \in Objects : Once(Of({"enqueue"}, o))'
    BY <1>0, <2>1, <2>2 DEF FollowLoadMoves, Becomes, Skip, QueuedOnce
  <2>5. \A o \in Objects : HasOp({"enqueue"}, o)' => o \in markedObjects' /\ o \notin greyObjects'
    BY <1>0, <2>1, <2>2, <2>3 DEF FollowLoadMoves, FollowLoadGains, QueuedOnce
  <2>6. \A e \in Ephemerons : state'[e] # "traced" \/ HasOp(Traces, e)' => Started(e)'
    BY <1>0, <2>1, <2>2, <2>3 DEF FollowLoadMoves, FollowLoadGains, QueuedOnce, Traces, WeakTypes
  <2>7. QED
    BY <2>4, <2>5, <2>6 DEF QueuedOnce
<1>4. CASE FollowSkip(w)
  <2>1. FollowSkipMoves(w)
    BY <1>4, FollowSkipOps
  <2>2. markedObjects' = markedObjects /\ greyObjects' = greyObjects /\ state' = state /\ link' = link /\ rootList' = rootList
    BY <1>4 DEF FollowSkip
  <2>3. FollowSkipGains(w)
    BY <2>1, FollowSkipGained
  <2>4. Op(w).new # NoRef => Started(Op(w).new)
    BY <2>1, Nodes, ShapeTypes DEF FollowSkipMoves, Objects
  <2>5. \A o \in Objects : Once(Of({"enqueue"}, o))'
    BY <1>0, <2>1, <2>2, <2>4 DEF FollowSkipMoves, Becomes, AfterOps, Skip, FollowCas, Follow, TryResolve, QueuedOnce
  <2>6. \A o \in Objects : HasOp({"enqueue"}, o)' => o \in markedObjects' /\ o \notin greyObjects'
    BY <1>0, <2>1, <2>2, <2>3, <2>4 DEF FollowSkipMoves, FollowSkipGains, QueuedOnce
  <2>7. \A e \in Ephemerons : state'[e] # "traced" \/ HasOp(Traces, e)' => Started(e)'
    <3>1. \A e \in Ephemerons : HasOp(Traces, e)' => HasOp(Traces, e) \/ (e = Op(w).new /\ e # NoRef)
      BY <2>3 DEF FollowSkipGains, Traces
    <3>2. QED
      BY <1>0, <2>1, <2>2, <2>4, <3>1 DEF FollowSkipMoves, QueuedOnce
  <2>8. QED
    BY <2>5, <2>6, <2>7 DEF QueuedOnce
<1>5. CASE FollowSwap(w)
  <2>1. FollowSwapMoves(w)
    BY <1>5, FollowSwapOps
  <2>2. markedObjects' = markedObjects /\ greyObjects' = greyObjects /\ state' = state /\ rootList' = rootList
    BY <1>5 DEF FollowSwap
  <2>3. FollowSwapGains(w)
    BY <2>1, FollowSwapGained
  <2>4. Op(w).new # NoRef => Started(Op(w).new)
    BY <2>1, Nodes, ShapeTypes DEF FollowSwapMoves, Objects
  <2>5. \A o \in Objects : Once(Of({"enqueue"}, o))'
    <3>1. PICK N : Becomes({Op(w)}, N) /\ \A y \in N : y.op \in {"skip", "follow", "tryResolve"}
      BY <2>1, SwapBecomes
    <3>2. QED
      BY <1>0, <3>1 DEF Becomes, QueuedOnce
  <2>6. \A o \in Objects : HasOp({"enqueue"}, o)' => o \in markedObjects' /\ o \notin greyObjects'
    BY <1>0, <2>1, <2>2, <2>3, <2>4 DEF FollowSwapMoves, FollowSwapGains, QueuedOnce
  <2>7. \A e \in Ephemerons : state'[e] # "traced" \/ HasOp(Traces, e)' => Started(e)'
    BY <1>0, <2>1, <2>2, <2>3, <2>4 DEF FollowSwapMoves, FollowSwapGains, QueuedOnce, Traces, WeakTypes
  <2>8. QED
    BY <2>5, <2>6, <2>7 DEF QueuedOnce
<1>6. CASE Resolve(w)
  <2>1. ResolveMoves(w)
    BY <1>6, ResolveOps
  <2>2. markedObjects' = markedObjects /\ greyObjects' = greyObjects /\ link' = link /\ rootList' = rootList
    BY <1>6 DEF Resolve
  <2>3. ResolveGains(w)
    BY <2>1, ResolveGained
  <2>4. Op(w).obj \in Ephemerons /\ Started(Op(w).obj)
    BY <1>0, <2>1, <2>3 DEF ResolveMoves, QueuedOnce, ResolveGains, Traces
  <2>5. \A o \in Objects : Once(Of({"enqueue"}, o))'
    BY <1>0, <2>1, <2>2, <2>4 DEF ResolveMoves, Becomes, Push, QueuedOnce
  <2>6. \A o \in Objects : HasOp({"enqueue"}, o)' => o \in markedObjects' /\ o \notin greyObjects'
    BY <1>0, <2>1, <2>2, <2>3, <2>4 DEF ResolveMoves, ResolveGains, QueuedOnce
  <2>7. \A e \in Ephemerons : state'[e] # "traced" \/ HasOp(Traces, e)' => Started(e)'
    BY <1>0, <2>1, <2>2, <2>3, <2>4 DEF ResolveMoves, ResolveGains, QueuedOnce, Traces, WeakTypes
  <2>8. QED
    BY <2>5, <2>6, <2>7 DEF QueuedOnce
<1>7. CASE VisitEdge(w)
  <2>1. VisitEdgeMoves(w)
    BY <1>7, VisitEdgeOps
  <2>2. greyObjects' = greyObjects /\ state' = state /\ link' = link /\ rootList' = rootList
    BY <1>7 DEF VisitEdge
  <2>3. VisitEdgeGains(w)
    BY <2>1, VisitEdgeGained
  <2>4. \A o \in Objects : Once(Of({"enqueue"}, o))'
    BY <1>0, <2>1, <2>2 DEF VisitEdgeMoves, Becomes, Follow, Enqueue, QueuedOnce
  <2>5. \A o \in Objects : HasOp({"enqueue"}, o)' => o \in markedObjects' /\ o \notin greyObjects'
    BY <1>0, <2>1, <2>2, <2>3 DEF VisitEdgeMoves, VisitEdgeGains, QueuedOnce
  <2>6. \A e \in Ephemerons : state'[e] # "traced" \/ HasOp(Traces, e)' => Started(e)'
    <3>1. \A e \in Ephemerons : HasOp(Traces, e)' => HasOp(Traces, e) \/ (FALSE)
      BY <2>3 DEF VisitEdgeGains, Traces
    <3>2. QED
      BY <1>0, <2>1, <2>2, <3>1 DEF VisitEdgeMoves, QueuedOnce
  <2>7. QED
    BY <2>4, <2>5, <2>6 DEF QueuedOnce
<1>8. CASE EnqueueObject(w)
  <2>1. EnqueueMoves(w)
    BY <1>8, EnqueueOps
  <2>2. markedObjects' = markedObjects /\ state' = state /\ link' = link /\ rootList' = rootList
    BY <1>8 DEF EnqueueObject
  <2>3. EnqueueGains(w)
    BY <2>1, EnqueueGained
  <2>4. \A o \in Objects : Once(Of({"enqueue"}, o))'
    BY <1>0, <2>1, <2>2 DEF EnqueueMoves, Becomes, QueuedOnce
  <2>5. \A o \in Objects : HasOp({"enqueue"}, o)' => o \in markedObjects' /\ o \notin greyObjects'
    <3>0. PICK x : x = Op(w)
      OBVIOUS
    <3>1. HasOp({"enqueue"}, x.obj) /\ x.obj \in Objects /\ x.op = "enqueue"
      BY <2>1, <2>3, <3>0 DEF EnqueueMoves, EnqueueGains
    <3>2. Once(Of({"enqueue"}, x.obj))
      BY <1>0, <3>1 DEF QueuedOnce
    <3>3. ~HasOp({"enqueue"}, x.obj)'
      BY <2>1, <3>0, <3>1, <3>2, Gone DEF EnqueueMoves
    <3>4. \A a : HasOp({"enqueue"}, a)' => HasOp({"enqueue"}, a)
      BY <2>3 DEF EnqueueGains
    <3>5. greyObjects' = greyObjects \cup {x.obj}
      BY <2>1, <3>0 DEF EnqueueMoves
    <3>6. SUFFICES ASSUME NEW a \in Objects, HasOp({"enqueue"}, a)' PROVE a \in markedObjects' /\ a \notin greyObjects'
      OBVIOUS
    <3>7. a # x.obj /\ a \in markedObjects /\ a \notin greyObjects
      BY <1>0, <3>3, <3>4, <3>6 DEF QueuedOnce
    <3>8. QED
      BY <2>2, <3>5, <3>7
  <2>6. \A e \in Ephemerons : state'[e] # "traced" \/ HasOp(Traces, e)' => Started(e)'
    BY <1>0, <2>1, <2>2, <2>3 DEF EnqueueMoves, EnqueueGains, QueuedOnce, Traces, WeakTypes
  <2>7. QED
    BY <2>4, <2>5, <2>6 DEF QueuedOnce
<1>9. CASE TraceObject(w)
  <2>1. PICK o \in greyObjects : TraceObjectMoves(o)
    BY <1>9, TraceObjectOps
  <2>2. markedObjects' = markedObjects /\ link' = link /\ rootList' = rootList
    BY <1>9 DEF TraceObject
  <2>3. TraceObjectGains(o)
    BY <2>1, TraceObjectGained
  <2>4. o \in Ephemerons => Started(o)'
    <3>1. ~HasOp({"enqueue"}, o)
      BY <1>0, <2>1 DEF QueuedOnce, TraceObjectMoves
    <3>2. HasOp({"enqueue"}, o)' => HasOp({"enqueue"}, o)
      BY <2>3 DEF TraceObjectGains
    <3>3. QED
      BY <2>1, <2>2, <3>1, <3>2 DEF TraceObjectMoves, Started, WeakTypes
  <2>5. \A a \in Objects : Once(Of({"enqueue"}, a))'
    BY <1>0, <2>1, <2>2, <2>4 DEF TraceObjectMoves, Becomes, VisitObject, VisitKey, QueuedOnce
  <2>6. \A a \in Objects : HasOp({"enqueue"}, a)' => a \in markedObjects' /\ a \notin greyObjects'
    BY <1>0, <2>1, <2>2, <2>3, <2>4 DEF TraceObjectMoves, TraceObjectGains, QueuedOnce
  <2>7. \A e \in Ephemerons : state'[e] # "traced" \/ HasOp(Traces, e)' => Started(e)'
    <3>1. SUFFICES ASSUME NEW e \in Ephemerons, state'[e] # "traced" \/ HasOp(Traces, e)' PROVE Started(e)'
      OBVIOUS
    <3>2. state'[e] # "traced" => state[e] # "traced" \/ e = o
      BY <2>1 DEF TraceObjectMoves, WeakTypes
    <3>3. HasOp(Traces, e)' => HasOp(Traces, e) \/ e = o
      BY <2>3 DEF TraceObjectGains, Traces
    <3>4. QED
      BY <1>0, <2>4, <3>1, <3>2, <3>3 DEF QueuedOnce
  <2>8. QED
    BY <2>5, <2>6, <2>7 DEF QueuedOnce
<1>10. CASE LookAtKey(w)
  <2>1. LookAtKeyMoves(w)
    BY <1>10, LookAtKeyOps
  <2>2. markedObjects' = markedObjects /\ greyObjects' = greyObjects /\ state' = state /\ link' = link /\ rootList' = rootList
    BY <1>10 DEF LookAtKey
  <2>3. LookAtKeyGains(w)
    BY <2>1, LookAtKeyGained
  <2>4. Op(w).obj \in Ephemerons /\ Started(Op(w).obj)
    BY <1>0, <2>1, <2>3 DEF LookAtKeyMoves, QueuedOnce, LookAtKeyGains, Traces
  <2>5. \A o \in Objects : Once(Of({"enqueue"}, o))'
    BY <1>0, <2>1, <2>2, <2>4 DEF LookAtKeyMoves, Becomes, VisitObject, SetTraced, Publish, QueuedOnce
  <2>6. \A o \in Objects : HasOp({"enqueue"}, o)' => o \in markedObjects' /\ o \notin greyObjects'
    BY <1>0, <2>1, <2>2, <2>3, <2>4 DEF LookAtKeyMoves, LookAtKeyGains, QueuedOnce
  <2>7. \A e \in Ephemerons : state'[e] # "traced" \/ HasOp(Traces, e)' => Started(e)'
    BY <1>0, <2>1, <2>2, <2>3, <2>4 DEF LookAtKeyMoves, LookAtKeyGains, QueuedOnce, Traces, WeakTypes
  <2>8. QED
    BY <2>5, <2>6, <2>7 DEF QueuedOnce
<1>11. CASE FinishTraced(w)
  <2>1. FinishTracedMoves(w)
    BY <1>11, FinishTracedOps
  <2>2. markedObjects' = markedObjects /\ greyObjects' = greyObjects /\ link' = link /\ rootList' = rootList
    BY <1>11 DEF FinishTraced
  <2>3. FinishTracedGains(w)
    BY <2>1, FinishTracedGained
  <2>4. Op(w).obj \in Ephemerons /\ Started(Op(w).obj)
    BY <1>0, <2>1, <2>3 DEF FinishTracedMoves, QueuedOnce, FinishTracedGains, Traces
  <2>5. \A o \in Objects : Once(Of({"enqueue"}, o))'
    BY <1>0, <2>1, <2>2, <2>4 DEF FinishTracedMoves, Becomes, QueuedOnce
  <2>6. \A o \in Objects : HasOp({"enqueue"}, o)' => o \in markedObjects' /\ o \notin greyObjects'
    BY <1>0, <2>1, <2>2, <2>3, <2>4 DEF FinishTracedMoves, FinishTracedGains, QueuedOnce
  <2>7. \A e \in Ephemerons : state'[e] # "traced" \/ HasOp(Traces, e)' => Started(e)'
    BY <1>0, <2>1, <2>2, <2>3, <2>4 DEF FinishTracedMoves, FinishTracedGains, QueuedOnce, Traces, WeakTypes
  <2>8. QED
    BY <2>5, <2>6, <2>7 DEF QueuedOnce
<1>12. CASE AddPending(w)
  <2>1. AddPendingMoves(w)
    BY <1>12, AddPendingOps
  <2>2. markedObjects' = markedObjects /\ greyObjects' = greyObjects /\ link' = link /\ rootList' = rootList
    BY <1>12 DEF AddPending
  <2>3. AddPendingGains(w)
    BY <2>1, AddPendingGained
  <2>4. Op(w).obj \in Ephemerons /\ Started(Op(w).obj)
    BY <1>0, <2>1, <2>3 DEF AddPendingMoves, QueuedOnce, AddPendingGains, Traces
  <2>5. \A o \in Objects : Once(Of({"enqueue"}, o))'
    BY <1>0, <2>1, <2>2, <2>4 DEF AddPendingMoves, Becomes, Push, Recheck, QueuedOnce
  <2>6. \A o \in Objects : HasOp({"enqueue"}, o)' => o \in markedObjects' /\ o \notin greyObjects'
    BY <1>0, <2>1, <2>2, <2>3, <2>4 DEF AddPendingMoves, AddPendingGains, QueuedOnce
  <2>7. \A e \in Ephemerons : state'[e] # "traced" \/ HasOp(Traces, e)' => Started(e)'
    BY <1>0, <2>1, <2>2, <2>3, <2>4 DEF AddPendingMoves, AddPendingGains, QueuedOnce, Traces, WeakTypes
  <2>8. QED
    BY <2>5, <2>6, <2>7 DEF QueuedOnce
<1>13. CASE LookAgain(w)
  <2>1. LookAgainMoves(w)
    BY <1>13, LookAgainOps
  <2>2. markedObjects' = markedObjects /\ greyObjects' = greyObjects /\ state' = state /\ link' = link /\ rootList' = rootList
    BY <1>13 DEF LookAgain
  <2>3. LookAgainGains(w)
    BY <2>1, LookAgainGained
  <2>4. Op(w).obj \in Ephemerons /\ Started(Op(w).obj)
    BY <1>0, <2>1, <2>3 DEF LookAgainMoves, QueuedOnce, LookAgainGains, Traces
  <2>5. \A o \in Objects : Once(Of({"enqueue"}, o))'
    BY <1>0, <2>1, <2>2, <2>4 DEF LookAgainMoves, Becomes, TryResolve, QueuedOnce
  <2>6. \A o \in Objects : HasOp({"enqueue"}, o)' => o \in markedObjects' /\ o \notin greyObjects'
    BY <1>0, <2>1, <2>2, <2>3, <2>4 DEF LookAgainMoves, LookAgainGains, QueuedOnce
  <2>7. \A e \in Ephemerons : state'[e] # "traced" \/ HasOp(Traces, e)' => Started(e)'
    BY <1>0, <2>1, <2>2, <2>3, <2>4 DEF LookAgainMoves, LookAgainGains, QueuedOnce, Traces, WeakTypes
  <2>8. QED
    BY <2>5, <2>6, <2>7 DEF QueuedOnce
<1>14. CASE GoNextResolved(w)
  <2>1. NextResolvedMoves(w)
    BY <1>14, NextResolvedOps
  <2>2. markedObjects' = markedObjects /\ greyObjects' = greyObjects /\ state' = state /\ link' = link /\ rootList' = rootList
    BY <1>14 DEF GoNextResolved
  <2>3. NextResolvedGains(w)
    BY <2>1, NextResolvedGained
  <2>4. link[ResolvedLink(Op(w).obj)] # NoRef => Started(link[ResolvedLink(Op(w).obj)])
    BY <1>0, <2>1, Nodes DEF NextResolvedMoves, QueuedOnce
  <2>5. \A o \in Objects : Once(Of({"enqueue"}, o))'
    BY <1>0, <2>1, <2>2, <2>4 DEF NextResolvedMoves, Becomes, ResolvedOps, VisitObject, SetTraced, NextResolved, QueuedOnce
  <2>6. \A o \in Objects : HasOp({"enqueue"}, o)' => o \in markedObjects' /\ o \notin greyObjects'
    BY <1>0, <2>1, <2>2, <2>3, <2>4 DEF NextResolvedMoves, NextResolvedGains, QueuedOnce
  <2>7. \A e \in Ephemerons : state'[e] # "traced" \/ HasOp(Traces, e)' => Started(e)'
    <3>1. \A e \in Ephemerons : HasOp(Traces, e)' => HasOp(Traces, e) \/ (e = link[ResolvedLink(Op(w).obj)] /\ e # NoRef)
      BY <2>3 DEF NextResolvedGains, Traces
    <3>2. QED
      BY <1>0, <2>1, <2>2, <2>4, <3>1 DEF NextResolvedMoves, QueuedOnce
  <2>8. QED
    BY <2>5, <2>6, <2>7 DEF QueuedOnce
<1>15. CASE TakeNextRoot(w)
  <2>1. PICK r \in rootList : TakeRootMoves(r)
    BY <1>15, TakeRootOps
  <2>2. markedObjects' = markedObjects /\ greyObjects' = greyObjects /\ state' = state /\ link' = link
    BY <1>15 DEF TakeNextRoot
  <2>3. TakeRootGains(r)
    BY <2>1, TakeRootGained
  <2>4. r.kind = "resolved" => Started(r.obj)
    BY <1>0, <2>1, Nodes DEF QueuedOnce
  <2>5. \A o \in Objects : Once(Of({"enqueue"}, o))'
    BY <1>0, <2>1, <2>2, <2>4 DEF TakeRootMoves, Becomes, ResolvedOps, VisitObject, SetTraced, NextResolved, QueuedOnce
  <2>6. \A o \in Objects : HasOp({"enqueue"}, o)' => o \in markedObjects' /\ o \notin greyObjects'
    BY <1>0, <2>1, <2>2, <2>3, <2>4 DEF TakeRootMoves, TakeRootGains, QueuedOnce
  <2>7. \A e \in Ephemerons : state'[e] # "traced" \/ HasOp(Traces, e)' => Started(e)'
    <3>1. \A e \in Ephemerons : HasOp(Traces, e)' => HasOp(Traces, e) \/ (e = r.obj /\ r.kind = "resolved")
      BY <2>3 DEF TakeRootGains, Traces
    <3>2. QED
      BY <1>0, <2>1, <2>2, <2>4, <3>1 DEF TakeRootMoves, QueuedOnce
  <2>8. QED
    BY <2>5, <2>6, <2>7 DEF QueuedOnce
<1>16. QED
  BY <1>1, <1>2, <1>3, <1>4, <1>5, <1>6, <1>7, <1>8, <1>9, <1>10, <1>11, <1>12, <1>13, <1>14, <1>15 DEF TraceStep

LEMMA KindsOf ==
  ASSUME NEW K, NEW L, K \subseteq L, NEW o, HasOp(K, o)
  PROVE  HasOp(L, o)
BY DEF HasOp

\* An ephemeron that is not traced yet has nothing done for it.
LEMMA Idle ==
  ASSUME QueuedOnce, NEW e \in Ephemerons, e \in greyObjects
  PROVE  /\ state[e] = "traced"
         /\ ~HasOp(Claims, e) /\ ~HasOp(Pushes, e) /\ ~HasOp(Rechecks, e) /\ ~HasOp({"setTraced"}, e)
         /\ ~HasOp({"setTraced"} \cup Pushes, e) /\ ~HasOp({"tryResolve"}, e) /\ ~HasOp({"nextResolved"}, e)
<1>1. ~Started(e)
  BY DEF Started
<1>2. state[e] = "traced" /\ ~HasOp(Traces, e)
  BY <1>1 DEF QueuedOnce
<1>3. /\ Claims \subseteq Traces /\ Pushes \subseteq Traces /\ Rechecks \subseteq Traces
      /\ {"setTraced"} \subseteq Traces /\ {"setTraced"} \cup Pushes \subseteq Traces
      /\ {"tryResolve"} \subseteq Traces /\ {"nextResolved"} \subseteq Traces
  BY DEF Claims, Pushes, Rechecks, Traces
<1>4. \A K : K \subseteq Traces => ~HasOp(K, e)
  BY <1>2, KindsOf
<1>5. QED
  BY <1>2, <1>3, <1>4

\* One that waits on the resolved list is nobody's.
LEMMA Unclaimed ==
  ASSUME Claimed, NEW e \in Ephemerons, state[e] = "resolved", ~HasOp({"setTraced"} \cup Pushes, e)
  PROVE  /\ ~HasOp(Claims, e) /\ ~HasOp(Pushes, e) /\ ~HasOp({"setTraced"}, e)
         /\ key[e] \in markedObjects
<1>1. ~HasOp({"visitKey", "publish"}, e) /\ key[e] \in markedObjects
  BY DEF Claimed
<1>2. QED
  BY <1>1 DEF HasOp, Claims, Pushes

LEMMA OnceNext ==
  ASSUME NEW X, NEW N, Becomes(X, N), NEW K, NEW o, Once(Of(K, o)), NEW z,
         \A y \in N : y.op \in K /\ y.obj = o => y = z /\ ~HasOp(K, o)
  PROVE  Once(Of(K, o))'
<1>1. \A x, y \in N : x.op \in K /\ x.obj = o /\ y.op \in K /\ y.obj = o => x = y
  OBVIOUS
<1>2. (\A y \in N : ~(y.op \in K /\ y.obj = o)) \/ ~HasOp(K, o)
  OBVIOUS
<1>3. QED
  BY <1>1, <1>2 DEF Becomes

\* Who has done what there is one of at most has no more to do for that ephemeron.
LEMMA NoClaim ==
  ASSUME NEW x, NEW N, Becomes({x}, N), x.op \in Claims, Once(Of(Claims, x.obj)),
         \A y \in N : y.op \notin Claims
  PROVE  \A K : K \subseteq Claims => ~HasOp(K, x.obj)'
<1>1. ~HasOp(Claims, x.obj)'
  BY Gone
<1>2. QED
  BY <1>1 DEF HasOp

\* The operations of a step are there after it.
LEMMA NowHas ==
  ASSUME NEW X, NEW N, Becomes(X, N), NEW K, NEW o, NEW y \in N, y.op \in K, y.obj = o
  PROVE  HasOp(K, o)'
BY DEF Becomes

LEMMA NowVisits ==
  ASSUME NEW X, NEW N, Becomes(X, N), NEW a, VisitObject(a) \in N
  PROVE  HasOp({"visit"}, a)'
<1>1. VisitObject(a).op \in {"visit"} /\ VisitObject(a).obj = a
  BY DEF VisitObject
<1>2. QED
  BY <1>1, NowHas

\* A step that adds none of a kind leaves one of it at most.
LEMMA OnceFree ==
  ASSUME NEW X, NEW N, Becomes(X, N), NEW K, \A y \in N : y.op \notin K
  PROVE  \A o : Once(Of(K, o)) => Once(Of(K, o))'
BY OnceNext

\* An ephemeron is claimed by one worker at most.
LEMMA ClaimedNext ==
  ASSUME WeakTypes, Phases, Tracing, TraceInv, NEW w \in Workers, TraceStep(w)
  PROVE  Claimed'
<1>s. state \in [Ephemerons -> {"traced", "claimed", "pending", "resolved"}]
  BY DEF WeakTypes
<1>0. /\ Claimed /\ QueuedOnce /\ markedObjects \subseteq markedObjects' /\ key' = key /\ shape' = shape
      /\ \A o \in Objects : Seen(o) => Seen(o)'
  BY Steady, TraceFrame DEF TraceInv
<1>a. /\ \A e \in Ephemerons : Once(Of(Claims, e))
      /\ \A e \in Ephemerons : HasOp({"visitKey", "publish"}, e) => state[e] = "claimed"
  BY <1>0 DEF Claimed
<1>c. \A e \in Ephemerons : HasOp(Rechecks, e) => state[e] # "claimed"
  BY <1>0 DEF Claimed
<1>d. \A e \in Ephemerons : state[e] = "claimed" => HasOp(Claims, e)
  BY <1>0 DEF Claimed
<1>e. \A e \in Ephemerons : HasOp({"setTraced"}, e) =>
        state[e] \in {"claimed", "resolved"} /\ key'[e] \in markedObjects' /\ Seen(shape.value[e])'
  <2>1. \A e \in Ephemerons : shape.value[e] \in Objects
    BY ShapeTypes
  <2>2. \A e \in Ephemerons : Seen(shape.value[e]) => Seen(shape.value[e])'
    BY <1>0, <2>1
  <2>3. QED
    BY <1>0, <2>2 DEF Claimed
<1>f. \A e \in Ephemerons : (state[e] = "resolved" \/ HasOp({"tryResolve"}, e) => key'[e] \in markedObjects')
                            /\ (key[e] \in markedObjects => key'[e] \in markedObjects')
  BY <1>0 DEF Claimed
<1>g. \A o \in Objects : HasOp(Walks, o) => o \in markedObjects /\ o \in markedObjects'
  BY <1>0 DEF Claimed
<1>1. CASE PushLoad(w)
  <2>1. PushLoadMoves(w)
    BY <1>1, PushLoadOps
  <2>2. markedObjects' = markedObjects /\ greyObjects' = greyObjects /\ state' = state /\ rootList' = rootList
    BY <1>1 DEF PushLoad
  <2>3. PushLoadGains(w)
    BY <2>1, PushLoadGained
  <2>4. \A e \in Ephemerons : Once(Of(Claims, e))'
    BY <1>a, <2>1, <2>2 DEF PushLoadMoves, Becomes, PushCas, Claims
  <2>5. \A e \in Ephemerons : HasOp({"visitKey", "publish"}, e)' => state'[e] = "claimed"
    BY <1>a, <1>s, <2>1, <2>2, <2>3 DEF PushLoadMoves, PushLoadGains
  <2>6. \A e \in Ephemerons : HasOp(Rechecks, e)' => state'[e] # "claimed"
    BY <1>c, <1>s, <2>1, <2>2, <2>3 DEF PushLoadMoves, PushLoadGains, Rechecks
  <2>7. \A e \in Ephemerons : state'[e] = "claimed" => HasOp(Claims, e)'
    BY <1>d, <1>s, <2>1, <2>2, <2>3 DEF PushLoadMoves, PushLoadGains, Claims
  <2>8. \A e \in Ephemerons : HasOp({"setTraced"}, e)' =>
         state'[e] \in {"claimed", "resolved"} /\ key'[e] \in markedObjects' /\ Seen(shape.value[e])'
    BY <1>e, <1>s, <1>f, <2>1, <2>2, <2>3 DEF PushLoadMoves, PushLoadGains
  <2>9. \A e \in Ephemerons : state'[e] = "resolved" \/ HasOp({"tryResolve"}, e)' => key'[e] \in markedObjects'
    BY <1>f, <1>s, <2>1, <2>2, <2>3 DEF PushLoadMoves, PushLoadGains
  <2>10. \A o \in Objects : HasOp(Walks, o)' => o \in markedObjects'
    BY <1>g, <2>1, <2>2, <2>3 DEF PushLoadMoves, PushLoadGains, Walks
  <2>11. QED
    BY <2>4, <2>5, <2>6, <2>7, <2>8, <2>9, <2>10 DEF Claimed
<1>2. CASE PushSwap(w)
  <2>1. PushSwapMoves(w)
    BY <1>2, PushSwapOps
  <2>2. markedObjects' = markedObjects /\ greyObjects' = greyObjects /\ state' = state /\ rootList' = rootList
    BY <1>2 DEF PushSwap
  <2>3. PushSwapGains(w)
    BY <2>1, PushSwapGained
  <2>4. \A e \in Ephemerons : Once(Of(Claims, e))'
    BY <1>a, <2>1, <2>2 DEF PushSwapMoves, Becomes, Push, Claims
  <2>5. \A e \in Ephemerons : HasOp({"visitKey", "publish"}, e)' => state'[e] = "claimed"
    BY <1>a, <1>s, <2>1, <2>2, <2>3 DEF PushSwapMoves, PushSwapGains
  <2>6. \A e \in Ephemerons : HasOp(Rechecks, e)' => state'[e] # "claimed"
    BY <1>c, <1>s, <2>1, <2>2, <2>3 DEF PushSwapMoves, PushSwapGains, Rechecks
  <2>7. \A e \in Ephemerons : state'[e] = "claimed" => HasOp(Claims, e)'
    BY <1>d, <1>s, <2>1, <2>2, <2>3 DEF PushSwapMoves, PushSwapGains, Claims
  <2>8. \A e \in Ephemerons : HasOp({"setTraced"}, e)' =>
         state'[e] \in {"claimed", "resolved"} /\ key'[e] \in markedObjects' /\ Seen(shape.value[e])'
    BY <1>e, <1>s, <1>f, <2>1, <2>2, <2>3 DEF PushSwapMoves, PushSwapGains
  <2>9. \A e \in Ephemerons : state'[e] = "resolved" \/ HasOp({"tryResolve"}, e)' => key'[e] \in markedObjects'
    BY <1>f, <1>s, <2>1, <2>2, <2>3 DEF PushSwapMoves, PushSwapGains
  <2>10. \A o \in Objects : HasOp(Walks, o)' => o \in markedObjects'
    BY <1>g, <2>1, <2>2, <2>3 DEF PushSwapMoves, PushSwapGains, Walks
  <2>11. QED
    BY <2>4, <2>5, <2>6, <2>7, <2>8, <2>9, <2>10 DEF Claimed
<1>3. CASE FollowLoad(w)
  <2>1. FollowLoadMoves(w)
    BY <1>3, FollowLoadOps
  <2>2. markedObjects' = markedObjects /\ greyObjects' = greyObjects /\ state' = state /\ link' = link /\ rootList' = rootList
    BY <1>3 DEF FollowLoad
  <2>3. FollowLoadGains(w)
    BY <2>1, FollowLoadGained
  <2>4. \A e \in Ephemerons : Once(Of(Claims, e))'
    BY <1>a, <2>1, <2>2 DEF FollowLoadMoves, Becomes, Skip, Claims
  <2>5. \A e \in Ephemerons : HasOp({"visitKey", "publish"}, e)' => state'[e] = "claimed"
    BY <1>a, <1>s, <2>1, <2>2, <2>3 DEF FollowLoadMoves, FollowLoadGains
  <2>6. \A e \in Ephemerons : HasOp(Rechecks, e)' => state'[e] # "claimed"
    BY <1>c, <1>s, <2>1, <2>2, <2>3 DEF FollowLoadMoves, FollowLoadGains, Rechecks
  <2>7. \A e \in Ephemerons : state'[e] = "claimed" => HasOp(Claims, e)'
    BY <1>d, <1>s, <2>1, <2>2, <2>3 DEF FollowLoadMoves, FollowLoadGains, Claims
  <2>8. \A e \in Ephemerons : HasOp({"setTraced"}, e)' =>
         state'[e] \in {"claimed", "resolved"} /\ key'[e] \in markedObjects' /\ Seen(shape.value[e])'
    BY <1>e, <1>s, <1>f, <2>1, <2>2, <2>3 DEF FollowLoadMoves, FollowLoadGains
  <2>9. \A e \in Ephemerons : state'[e] = "resolved" \/ HasOp({"tryResolve"}, e)' => key'[e] \in markedObjects'
    BY <1>f, <1>s, <2>1, <2>2, <2>3 DEF FollowLoadMoves, FollowLoadGains
  <2>10. \A o \in Objects : HasOp(Walks, o)' => o \in markedObjects'
    BY <1>g, <2>1, <2>2, <2>3 DEF FollowLoadMoves, FollowLoadGains, Walks
  <2>11. QED
    BY <2>4, <2>5, <2>6, <2>7, <2>8, <2>9, <2>10 DEF Claimed
<1>4. CASE FollowSkip(w)
  <2>1. FollowSkipMoves(w)
    BY <1>4, FollowSkipOps
  <2>2. markedObjects' = markedObjects /\ greyObjects' = greyObjects /\ state' = state /\ link' = link /\ rootList' = rootList
    BY <1>4 DEF FollowSkip
  <2>3. FollowSkipGains(w)
    BY <2>1, FollowSkipGained
  <2>4. Op(w).new # NoRef => Op(w).new \in Ephemerons /\ state[Op(w).new] # "claimed"
    BY <2>1, Nodes DEF FollowSkipMoves
  <2>5. Op(w).obj \in markedObjects
    BY <1>g, <2>1, <2>3 DEF FollowSkipMoves, FollowSkipGains, Walks
  <2>6. \A e \in Ephemerons : Once(Of(Claims, e))'
    BY <1>a, <2>1, <2>2, <2>4, <2>5 DEF FollowSkipMoves, Becomes, AfterOps, Skip, FollowCas, Follow, TryResolve, Claims
  <2>7. \A e \in Ephemerons : HasOp({"visitKey", "publish"}, e)' => state'[e] = "claimed"
    BY <1>a, <1>s, <2>1, <2>2, <2>3, <2>4, <2>5 DEF FollowSkipMoves, FollowSkipGains
  <2>8. \A e \in Ephemerons : HasOp(Rechecks, e)' => state'[e] # "claimed"
    BY <1>c, <1>s, <2>1, <2>2, <2>3, <2>4, <2>5 DEF FollowSkipMoves, FollowSkipGains, Rechecks
  <2>9. \A e \in Ephemerons : state'[e] = "claimed" => HasOp(Claims, e)'
    BY <1>d, <1>s, <2>1, <2>2, <2>3, <2>4, <2>5 DEF FollowSkipMoves, FollowSkipGains, Claims
  <2>10. \A e \in Ephemerons : HasOp({"setTraced"}, e)' =>
         state'[e] \in {"claimed", "resolved"} /\ key'[e] \in markedObjects' /\ Seen(shape.value[e])'
    BY <1>e, <1>s, <1>f, <2>1, <2>2, <2>3, <2>4, <2>5 DEF FollowSkipMoves, FollowSkipGains
  <2>11. \A e \in Ephemerons : state'[e] = "resolved" \/ HasOp({"tryResolve"}, e)' => key'[e] \in markedObjects'
    BY <1>f, <1>s, <2>1, <2>2, <2>3, <2>4, <2>5 DEF FollowSkipMoves, FollowSkipGains
  <2>12. \A o \in Objects : HasOp(Walks, o)' => o \in markedObjects'
    BY <1>g, <2>1, <2>2, <2>3, <2>4, <2>5 DEF FollowSkipMoves, FollowSkipGains, Walks
  <2>13. QED
    BY <2>6, <2>7, <2>8, <2>9, <2>10, <2>11, <2>12 DEF Claimed
<1>5. CASE FollowSwap(w)
  <2>1. FollowSwapMoves(w)
    BY <1>5, FollowSwapOps
  <2>2. markedObjects' = markedObjects /\ greyObjects' = greyObjects /\ state' = state /\ rootList' = rootList
    BY <1>5 DEF FollowSwap
  <2>3. FollowSwapGains(w)
    BY <2>1, FollowSwapGained
  <2>4. Op(w).new # NoRef => Op(w).new \in Ephemerons /\ state[Op(w).new] # "claimed"
    BY <2>1, Nodes DEF FollowSwapMoves
  <2>5. Op(w).obj \in markedObjects
    BY <1>g, <2>1, <2>3 DEF FollowSwapMoves, FollowSwapGains, Walks
  <2>6. \A e \in Ephemerons : Once(Of(Claims, e))'
    <3>1. PICK N : Becomes({Op(w)}, N) /\ \A y \in N : y.op \in {"skip", "follow", "tryResolve"}
      BY <2>1, SwapBecomes
    <3>2. QED
      BY <1>a, <3>1 DEF Becomes, Claims
  <2>7. \A e \in Ephemerons : HasOp({"visitKey", "publish"}, e)' => state'[e] = "claimed"
    BY <1>a, <1>s, <2>1, <2>2, <2>3, <2>4, <2>5 DEF FollowSwapMoves, FollowSwapGains
  <2>8. \A e \in Ephemerons : HasOp(Rechecks, e)' => state'[e] # "claimed"
    BY <1>c, <1>s, <2>1, <2>2, <2>3, <2>4, <2>5 DEF FollowSwapMoves, FollowSwapGains, Rechecks
  <2>9. \A e \in Ephemerons : state'[e] = "claimed" => HasOp(Claims, e)'
    BY <1>d, <1>s, <2>1, <2>2, <2>3, <2>4, <2>5 DEF FollowSwapMoves, FollowSwapGains, Claims
  <2>10. \A e \in Ephemerons : HasOp({"setTraced"}, e)' =>
         state'[e] \in {"claimed", "resolved"} /\ key'[e] \in markedObjects' /\ Seen(shape.value[e])'
    BY <1>e, <1>s, <1>f, <2>1, <2>2, <2>3, <2>4, <2>5 DEF FollowSwapMoves, FollowSwapGains
  <2>11. \A e \in Ephemerons : state'[e] = "resolved" \/ HasOp({"tryResolve"}, e)' => key'[e] \in markedObjects'
    BY <1>f, <1>s, <2>1, <2>2, <2>3, <2>4, <2>5 DEF FollowSwapMoves, FollowSwapGains
  <2>12. \A o \in Objects : HasOp(Walks, o)' => o \in markedObjects'
    BY <1>g, <2>1, <2>2, <2>3, <2>4, <2>5 DEF FollowSwapMoves, FollowSwapGains, Walks
  <2>13. QED
    BY <2>6, <2>7, <2>8, <2>9, <2>10, <2>11, <2>12 DEF Claimed
<1>6. CASE Resolve(w)
  <2>1. ResolveMoves(w)
    BY <1>6, ResolveOps
  <2>2. markedObjects' = markedObjects /\ greyObjects' = greyObjects /\ link' = link /\ rootList' = rootList
    BY <1>6 DEF Resolve
  <2>3. ResolveGains(w)
    BY <2>1, ResolveGained
  <2>4. \A e \in Ephemerons : Once(Of(Claims, e))'
    BY <1>a, <2>1, <2>2 DEF ResolveMoves, Becomes, Push, Claims
  <2>5. \A e \in Ephemerons : HasOp({"visitKey", "publish"}, e)' => state'[e] = "claimed"
    BY <1>a, <1>s, <2>1, <2>2, <2>3 DEF ResolveMoves, ResolveGains
  <2>6. \A e \in Ephemerons : HasOp(Rechecks, e)' => state'[e] # "claimed"
    BY <1>c, <1>s, <2>1, <2>2, <2>3 DEF ResolveMoves, ResolveGains, Rechecks
  <2>7. \A e \in Ephemerons : state'[e] = "claimed" => HasOp(Claims, e)'
    BY <1>d, <1>s, <2>1, <2>2, <2>3 DEF ResolveMoves, ResolveGains, Claims
  <2>8. \A e \in Ephemerons : HasOp({"setTraced"}, e)' =>
         state'[e] \in {"claimed", "resolved"} /\ key'[e] \in markedObjects' /\ Seen(shape.value[e])'
    BY <1>e, <1>s, <1>f, <2>1, <2>2, <2>3 DEF ResolveMoves, ResolveGains
  <2>9. \A e \in Ephemerons : state'[e] = "resolved" \/ HasOp({"tryResolve"}, e)' => key'[e] \in markedObjects'
    BY <1>f, <1>s, <2>1, <2>2, <2>3 DEF ResolveMoves, ResolveGains
  <2>10. \A o \in Objects : HasOp(Walks, o)' => o \in markedObjects'
    BY <1>g, <2>1, <2>2, <2>3 DEF ResolveMoves, ResolveGains, Walks
  <2>11. QED
    BY <2>4, <2>5, <2>6, <2>7, <2>8, <2>9, <2>10 DEF Claimed
<1>7. CASE VisitEdge(w)
  <2>1. VisitEdgeMoves(w)
    BY <1>7, VisitEdgeOps
  <2>2. greyObjects' = greyObjects /\ state' = state /\ link' = link /\ rootList' = rootList
    BY <1>7 DEF VisitEdge
  <2>3. VisitEdgeGains(w)
    BY <2>1, VisitEdgeGained
  <2>4. \A e \in Ephemerons : Once(Of(Claims, e))'
    BY <1>a, <2>1, <2>2 DEF VisitEdgeMoves, Becomes, Follow, Enqueue, Claims
  <2>5. \A e \in Ephemerons : HasOp({"visitKey", "publish"}, e)' => state'[e] = "claimed"
    BY <1>a, <1>s, <2>1, <2>2, <2>3 DEF VisitEdgeMoves, VisitEdgeGains
  <2>6. \A e \in Ephemerons : HasOp(Rechecks, e)' => state'[e] # "claimed"
    BY <1>c, <1>s, <2>1, <2>2, <2>3 DEF VisitEdgeMoves, VisitEdgeGains, Rechecks
  <2>7. \A e \in Ephemerons : state'[e] = "claimed" => HasOp(Claims, e)'
    BY <1>d, <1>s, <2>1, <2>2, <2>3 DEF VisitEdgeMoves, VisitEdgeGains, Claims
  <2>8. \A e \in Ephemerons : HasOp({"setTraced"}, e)' =>
         state'[e] \in {"claimed", "resolved"} /\ key'[e] \in markedObjects' /\ Seen(shape.value[e])'
    BY <1>e, <1>s, <1>f, <2>1, <2>2, <2>3 DEF VisitEdgeMoves, VisitEdgeGains
  <2>9. \A e \in Ephemerons : state'[e] = "resolved" \/ HasOp({"tryResolve"}, e)' => key'[e] \in markedObjects'
    BY <1>f, <1>s, <2>1, <2>2, <2>3 DEF VisitEdgeMoves, VisitEdgeGains
  <2>10. \A o \in Objects : HasOp(Walks, o)' => o \in markedObjects'
    BY <1>g, <2>1, <2>2, <2>3 DEF VisitEdgeMoves, VisitEdgeGains, Walks
  <2>11. QED
    BY <2>4, <2>5, <2>6, <2>7, <2>8, <2>9, <2>10 DEF Claimed
<1>8. CASE EnqueueObject(w)
  <2>1. EnqueueMoves(w)
    BY <1>8, EnqueueOps
  <2>2. markedObjects' = markedObjects /\ state' = state /\ link' = link /\ rootList' = rootList
    BY <1>8 DEF EnqueueObject
  <2>3. EnqueueGains(w)
    BY <2>1, EnqueueGained
  <2>4. \A e \in Ephemerons : Once(Of(Claims, e))'
    BY <1>a, <2>1, <2>2 DEF EnqueueMoves, Becomes, Claims
  <2>5. \A e \in Ephemerons : HasOp({"visitKey", "publish"}, e)' => state'[e] = "claimed"
    BY <1>a, <1>s, <2>1, <2>2, <2>3 DEF EnqueueMoves, EnqueueGains
  <2>6. \A e \in Ephemerons : HasOp(Rechecks, e)' => state'[e] # "claimed"
    BY <1>c, <1>s, <2>1, <2>2, <2>3 DEF EnqueueMoves, EnqueueGains, Rechecks
  <2>7. \A e \in Ephemerons : state'[e] = "claimed" => HasOp(Claims, e)'
    BY <1>d, <1>s, <2>1, <2>2, <2>3 DEF EnqueueMoves, EnqueueGains, Claims
  <2>8. \A e \in Ephemerons : HasOp({"setTraced"}, e)' =>
         state'[e] \in {"claimed", "resolved"} /\ key'[e] \in markedObjects' /\ Seen(shape.value[e])'
    BY <1>e, <1>s, <1>f, <2>1, <2>2, <2>3 DEF EnqueueMoves, EnqueueGains
  <2>9. \A e \in Ephemerons : state'[e] = "resolved" \/ HasOp({"tryResolve"}, e)' => key'[e] \in markedObjects'
    BY <1>f, <1>s, <2>1, <2>2, <2>3 DEF EnqueueMoves, EnqueueGains
  <2>10. \A o \in Objects : HasOp(Walks, o)' => o \in markedObjects'
    BY <1>g, <2>1, <2>2, <2>3 DEF EnqueueMoves, EnqueueGains, Walks
  <2>11. QED
    BY <2>4, <2>5, <2>6, <2>7, <2>8, <2>9, <2>10 DEF Claimed
<1>9. CASE TraceObject(w)
  <2>1. PICK o \in greyObjects : TraceObjectMoves(o)
    BY <1>9, TraceObjectOps
  <2>2. markedObjects' = markedObjects /\ link' = link /\ rootList' = rootList
    BY <1>9 DEF TraceObject
  <2>3. TraceObjectGains(o)
    BY <2>1, TraceObjectGained
  <2>4. o \in Ephemerons => ~HasOp(Claims, o) /\ ~HasOp(Pushes, o) /\ ~HasOp(Rechecks, o) /\ ~HasOp({"setTraced"}, o) /\ ~HasOp({"tryResolve"}, o)
    BY <1>0, <2>1, Idle DEF TraceObjectMoves
  <2>5. o \in Ephemerons => state' = [state EXCEPT ![o] = "claimed"]
    BY <2>1, WeakAssumption DEF TraceObjectMoves
  <2>6. state'[o] # state[o] => o \in Ephemerons
    BY <2>1 DEF TraceObjectMoves
  <2>7. \A e \in Ephemerons : e = o => HasOp(Claims, e)'
    <3>1. o \in Ephemerons => Becomes({}, {VisitKey(o)})
      BY <2>1, WeakAssumption DEF TraceObjectMoves
    <3>2. VisitKey(o).op \in Claims /\ VisitKey(o).obj = o
      BY DEF VisitKey, Claims
    <3>3. QED
      BY <3>1, <3>2, NowHas
  <2>8. \A e \in Ephemerons : Once(Of(Claims, e))'
    BY <1>a, <2>1, <2>2, <2>4, <2>5, <2>6, <2>7 DEF TraceObjectMoves, Becomes, VisitObject, VisitKey, Claims
  <2>9. \A e \in Ephemerons : HasOp({"visitKey", "publish"}, e)' => state'[e] = "claimed"
    BY <1>a, <1>s, <2>1, <2>2, <2>3, <2>4, <2>5, <2>6, <2>7 DEF TraceObjectMoves, TraceObjectGains
  <2>10. \A e \in Ephemerons : HasOp(Rechecks, e)' => state'[e] # "claimed"
    BY <1>c, <1>s, <2>1, <2>2, <2>3, <2>4, <2>5, <2>6, <2>7 DEF TraceObjectMoves, TraceObjectGains, Rechecks
  <2>11. \A e \in Ephemerons : state'[e] = "claimed" => HasOp(Claims, e)'
    BY <1>d, <1>s, <2>1, <2>2, <2>3, <2>4, <2>5, <2>6, <2>7 DEF TraceObjectMoves, TraceObjectGains, Claims
  <2>12. \A e \in Ephemerons : HasOp({"setTraced"}, e)' =>
         state'[e] \in {"claimed", "resolved"} /\ key'[e] \in markedObjects' /\ Seen(shape.value[e])'
    BY <1>e, <1>s, <1>f, <2>1, <2>2, <2>3, <2>4, <2>5, <2>6, <2>7 DEF TraceObjectMoves, TraceObjectGains
  <2>13. \A e \in Ephemerons : state'[e] = "resolved" \/ HasOp({"tryResolve"}, e)' => key'[e] \in markedObjects'
    BY <1>f, <1>s, <2>1, <2>2, <2>3, <2>4, <2>5, <2>6, <2>7 DEF TraceObjectMoves, TraceObjectGains
  <2>14. \A a \in Objects : HasOp(Walks, a)' => a \in markedObjects'
    BY <1>g, <2>1, <2>2, <2>3, <2>4, <2>5, <2>6, <2>7 DEF TraceObjectMoves, TraceObjectGains, Walks
  <2>15. QED
    BY <2>8, <2>9, <2>10, <2>11, <2>12, <2>13, <2>14 DEF Claimed
<1>10. CASE LookAtKey(w)
  <2>1. LookAtKeyMoves(w)
    BY <1>10, LookAtKeyOps
  <2>2. markedObjects' = markedObjects /\ greyObjects' = greyObjects /\ state' = state /\ link' = link /\ rootList' = rootList
    BY <1>10 DEF LookAtKey
  <2>3. LookAtKeyGains(w)
    BY <2>1, LookAtKeyGained
  <2>4. HasOp({"visitKey", "publish"}, Op(w).obj) /\ state[Op(w).obj] = "claimed"
    BY <1>a, <2>1, <2>3 DEF LookAtKeyMoves, LookAtKeyGains
  <2>5. \A e : e = Op(w).obj => HasOp(Claims, e)'
    BY <2>1, NowHas DEF LookAtKeyMoves, SetTraced, Publish, Claims
  <2>6. \A e \in Ephemerons : Once(Of(Claims, e))'
    BY <1>a, <2>1, <2>2, <2>4, <2>5 DEF LookAtKeyMoves, Becomes, VisitObject, SetTraced, Publish, Claims
  <2>7. \A e \in Ephemerons : HasOp({"visitKey", "publish"}, e)' => state'[e] = "claimed"
    BY <1>a, <1>s, <2>1, <2>2, <2>3, <2>4, <2>5 DEF LookAtKeyMoves, LookAtKeyGains
  <2>8. \A e \in Ephemerons : HasOp(Rechecks, e)' => state'[e] # "claimed"
    BY <1>c, <1>s, <2>1, <2>2, <2>3, <2>4, <2>5 DEF LookAtKeyMoves, LookAtKeyGains, Rechecks
  <2>9. \A e \in Ephemerons : state'[e] = "claimed" => HasOp(Claims, e)'
    BY <1>d, <1>s, <2>1, <2>2, <2>3, <2>4, <2>5 DEF LookAtKeyMoves, LookAtKeyGains, Claims
  <2>10. \A e \in Ephemerons : HasOp({"setTraced"}, e)' =>
         state'[e] \in {"claimed", "resolved"} /\ key'[e] \in markedObjects' /\ Seen(shape.value[e])'
    <3>1. PICK x : x = Op(w)
      OBVIOUS
    <3>2. CASE key[x.obj] \in markedObjects /\ Becomes({x}, {VisitObject(shape.value[x.obj]), SetTraced(x.obj)})
      <4>1. \A a : a = shape.value[x.obj] => HasOp({"visit"}, a)'
        BY <3>2, NowVisits
      <4>2. \A a : a = shape.value[x.obj] => Seen(a)'
        BY <4>1 DEF Seen
      <4>3. \A e : HasOp({"setTraced"}, e)' => HasOp({"setTraced"}, e) \/ e = x.obj
        BY <2>3, <3>1 DEF LookAtKeyGains
      <4>4. \A e : e = x.obj => Seen(shape.value[e])'
        BY <1>0, <4>2
      <4>5. QED
        BY <1>e, <1>f, <2>1, <2>2, <2>4, <3>1, <3>2, <4>3, <4>4 DEF LookAtKeyMoves
    <3>3. CASE Becomes({x}, {Publish(x.obj)})
      <4>1. \A e : HasOp({"setTraced"}, e)' => HasOp({"setTraced"}, e)
        BY <3>3 DEF Becomes, Publish
      <4>2. QED
        BY <1>e, <2>2, <4>1
    <3>4. QED
      BY <2>1, <3>1, <3>2, <3>3 DEF LookAtKeyMoves
  <2>11. \A e \in Ephemerons : state'[e] = "resolved" \/ HasOp({"tryResolve"}, e)' => key'[e] \in markedObjects'
    BY <1>f, <1>s, <2>1, <2>2, <2>3, <2>4, <2>5 DEF LookAtKeyMoves, LookAtKeyGains
  <2>12. \A o \in Objects : HasOp(Walks, o)' => o \in markedObjects'
    BY <1>g, <2>1, <2>2, <2>3, <2>4, <2>5 DEF LookAtKeyMoves, LookAtKeyGains, Walks
  <2>13. QED
    BY <2>6, <2>7, <2>8, <2>9, <2>10, <2>11, <2>12 DEF Claimed
<1>11. CASE FinishTraced(w)
  <2>1. FinishTracedMoves(w)
    BY <1>11, FinishTracedOps
  <2>2. markedObjects' = markedObjects /\ greyObjects' = greyObjects /\ link' = link /\ rootList' = rootList
    BY <1>11 DEF FinishTraced
  <2>3. FinishTracedGains(w)
    BY <2>1, FinishTracedGained
  <2>4. \A e : e = Op(w).obj => \A K : K \subseteq Claims => ~HasOp(K, e)'
    <3>1. PICK x : x = Op(w)
      OBVIOUS
    <3>2. x.op \in Claims /\ Once(Of(Claims, x.obj))
      BY <1>a, <2>1, <3>1 DEF FinishTracedMoves, Claims
    <3>2a. PICK N : N = {}
      OBVIOUS
    <3>3. Becomes({x}, N) /\ \A y \in N : y.op \notin Claims
      BY <2>1, <3>1, <3>2a DEF FinishTracedMoves, Claims
    <3>5. \A K : K \subseteq Claims => ~HasOp(K, x.obj)'
      BY <3>2, <3>3, NoClaim
    <3>6. QED
      BY <3>1, <3>5
  <2>5. {"visitKey", "publish"} \subseteq Claims /\ {"setTraced"} \subseteq Claims
    BY DEF Claims
  <2>6. \A e \in Ephemerons : Once(Of(Claims, e))'
    BY <1>a, <2>1, <2>2, <2>4, <2>5 DEF FinishTracedMoves, Becomes, Claims
  <2>7. \A e \in Ephemerons : HasOp({"visitKey", "publish"}, e)' => state'[e] = "claimed"
    BY <1>a, <1>s, <2>1, <2>2, <2>3, <2>4, <2>5 DEF FinishTracedMoves, FinishTracedGains
  <2>8. \A e \in Ephemerons : HasOp(Rechecks, e)' => state'[e] # "claimed"
    BY <1>c, <1>s, <2>1, <2>2, <2>3, <2>4, <2>5 DEF FinishTracedMoves, FinishTracedGains, Rechecks
  <2>9. \A e \in Ephemerons : state'[e] = "claimed" => HasOp(Claims, e)'
    BY <1>d, <1>s, <2>1, <2>2, <2>3, <2>4, <2>5 DEF FinishTracedMoves, FinishTracedGains, Claims
  <2>10. \A e \in Ephemerons : HasOp({"setTraced"}, e)' =>
         state'[e] \in {"claimed", "resolved"} /\ key'[e] \in markedObjects' /\ Seen(shape.value[e])'
    BY <1>e, <1>s, <1>f, <2>1, <2>2, <2>3, <2>4, <2>5 DEF FinishTracedMoves, FinishTracedGains
  <2>11. \A e \in Ephemerons : state'[e] = "resolved" \/ HasOp({"tryResolve"}, e)' => key'[e] \in markedObjects'
    BY <1>f, <1>s, <2>1, <2>2, <2>3, <2>4, <2>5 DEF FinishTracedMoves, FinishTracedGains
  <2>12. \A o \in Objects : HasOp(Walks, o)' => o \in markedObjects'
    BY <1>g, <2>1, <2>2, <2>3, <2>4, <2>5 DEF FinishTracedMoves, FinishTracedGains, Walks
  <2>13. QED
    BY <2>6, <2>7, <2>8, <2>9, <2>10, <2>11, <2>12 DEF Claimed
<1>12. CASE AddPending(w)
  <2>1. AddPendingMoves(w)
    BY <1>12, AddPendingOps
  <2>2. markedObjects' = markedObjects /\ greyObjects' = greyObjects /\ link' = link /\ rootList' = rootList
    BY <1>12 DEF AddPending
  <2>3. AddPendingGains(w)
    BY <2>1, AddPendingGained
  <2>4. \A e : e = Op(w).obj => \A K : K \subseteq Claims => ~HasOp(K, e)'
    <3>1. PICK x : x = Op(w)
      OBVIOUS
    <3>2. x.op \in Claims /\ Once(Of(Claims, x.obj))
      BY <1>a, <2>1, <3>1 DEF AddPendingMoves, Claims
    <3>2a. PICK N : N = {Push(BucketFor(x.obj), x.obj), Recheck(x.obj)}
      OBVIOUS
    <3>3. Becomes({x}, N) /\ \A y \in N : y.op \notin Claims
      BY <2>1, <3>1, <3>2a DEF AddPendingMoves, Claims, Push, Recheck
    <3>5. \A K : K \subseteq Claims => ~HasOp(K, x.obj)'
      BY <3>2, <3>3, NoClaim
    <3>6. QED
      BY <3>1, <3>5
  <2>5. {"visitKey", "publish"} \subseteq Claims /\ {"setTraced"} \subseteq Claims
    BY DEF Claims
  <2>6. \A e \in Ephemerons : Once(Of(Claims, e))'
    <3>1. PICK x : x = Op(w)
      OBVIOUS
    <3>2. Becomes({x}, {Push(BucketFor(x.obj), x.obj), Recheck(x.obj)})
      BY <2>1, <3>1 DEF AddPendingMoves
    <3>3. QED
      BY <1>a, <3>2 DEF Becomes, Push, Recheck, Claims
  <2>7. \A e \in Ephemerons : HasOp({"visitKey", "publish"}, e)' => state'[e] = "claimed"
    BY <1>a, <1>s, <2>1, <2>2, <2>3, <2>4, <2>5 DEF AddPendingMoves, AddPendingGains
  <2>8. \A e \in Ephemerons : HasOp(Rechecks, e)' => state'[e] # "claimed"
    BY <1>c, <1>s, <2>1, <2>2, <2>3, <2>4, <2>5 DEF AddPendingMoves, AddPendingGains, Rechecks
  <2>9. \A e \in Ephemerons : state'[e] = "claimed" => HasOp(Claims, e)'
    BY <1>d, <1>s, <2>1, <2>2, <2>3, <2>4, <2>5 DEF AddPendingMoves, AddPendingGains, Claims
  <2>10. \A e \in Ephemerons : HasOp({"setTraced"}, e)' =>
         state'[e] \in {"claimed", "resolved"} /\ key'[e] \in markedObjects' /\ Seen(shape.value[e])'
    BY <1>e, <1>s, <1>f, <2>1, <2>2, <2>3, <2>4, <2>5 DEF AddPendingMoves, AddPendingGains
  <2>11. \A e \in Ephemerons : state'[e] = "resolved" \/ HasOp({"tryResolve"}, e)' => key'[e] \in markedObjects'
    BY <1>f, <1>s, <2>1, <2>2, <2>3, <2>4, <2>5 DEF AddPendingMoves, AddPendingGains
  <2>12. \A o \in Objects : HasOp(Walks, o)' => o \in markedObjects'
    BY <1>g, <2>1, <2>2, <2>3, <2>4, <2>5 DEF AddPendingMoves, AddPendingGains, Walks
  <2>13. QED
    BY <2>6, <2>7, <2>8, <2>9, <2>10, <2>11, <2>12 DEF Claimed
<1>13. CASE LookAgain(w)
  <2>1. LookAgainMoves(w)
    BY <1>13, LookAgainOps
  <2>2. markedObjects' = markedObjects /\ greyObjects' = greyObjects /\ state' = state /\ link' = link /\ rootList' = rootList
    BY <1>13 DEF LookAgain
  <2>3. LookAgainGains(w)
    BY <2>1, LookAgainGained
  <2>4. \A e \in Ephemerons : Once(Of(Claims, e))'
    BY <1>a, <2>1, <2>2 DEF LookAgainMoves, Becomes, TryResolve, Claims
  <2>5. \A e \in Ephemerons : HasOp({"visitKey", "publish"}, e)' => state'[e] = "claimed"
    BY <1>a, <1>s, <2>1, <2>2, <2>3 DEF LookAgainMoves, LookAgainGains
  <2>6. \A e \in Ephemerons : HasOp(Rechecks, e)' => state'[e] # "claimed"
    BY <1>c, <1>s, <2>1, <2>2, <2>3 DEF LookAgainMoves, LookAgainGains, Rechecks
  <2>7. \A e \in Ephemerons : state'[e] = "claimed" => HasOp(Claims, e)'
    BY <1>d, <1>s, <2>1, <2>2, <2>3 DEF LookAgainMoves, LookAgainGains, Claims
  <2>8. \A e \in Ephemerons : HasOp({"setTraced"}, e)' =>
         state'[e] \in {"claimed", "resolved"} /\ key'[e] \in markedObjects' /\ Seen(shape.value[e])'
    BY <1>e, <1>s, <1>f, <2>1, <2>2, <2>3 DEF LookAgainMoves, LookAgainGains
  <2>9. \A e \in Ephemerons : state'[e] = "resolved" \/ HasOp({"tryResolve"}, e)' => key'[e] \in markedObjects'
    BY <1>f, <1>s, <2>1, <2>2, <2>3 DEF LookAgainMoves, LookAgainGains
  <2>10. \A o \in Objects : HasOp(Walks, o)' => o \in markedObjects'
    BY <1>g, <2>1, <2>2, <2>3 DEF LookAgainMoves, LookAgainGains, Walks
  <2>11. QED
    BY <2>4, <2>5, <2>6, <2>7, <2>8, <2>9, <2>10 DEF Claimed
<1>14. CASE GoNextResolved(w)
  <2>1. NextResolvedMoves(w)
    BY <1>14, NextResolvedOps
  <2>2. markedObjects' = markedObjects /\ greyObjects' = greyObjects /\ state' = state /\ link' = link /\ rootList' = rootList
    BY <1>14 DEF GoNextResolved
  <2>3. NextResolvedGains(w)
    BY <2>1, NextResolvedGained
  <2>4. LET v == link[ResolvedLink(Op(w).obj)] IN v # NoRef => v \in Ephemerons /\ state[v] = "resolved" /\ ~HasOp(Claims, v) /\ key[v] \in markedObjects
    BY <1>0, <2>1, Nodes, Unclaimed DEF NextResolvedMoves
  <2>5. \A e \in Ephemerons : Once(Of(Claims, e))'
    <3>1. PICK v : v = link[ResolvedLink(Op(w).obj)]
      OBVIOUS
    <3>2. \A y \in ResolvedOps(v) : y.op \in Claims => y = SetTraced(v) /\ v # NoRef /\ y.obj = v
      BY DEF ResolvedOps, VisitObject, SetTraced, NextResolved, Claims
    <3>3. v # NoRef => ~HasOp(Claims, v)
      BY <2>1, <2>4, <3>1 DEF NextResolvedMoves
    <3>4. QED
      BY <1>a, <2>1, <3>1, <3>2, <3>3, OnceNext DEF NextResolvedMoves
  <2>6. \A e \in Ephemerons : HasOp({"visitKey", "publish"}, e)' => state'[e] = "claimed"
    BY <1>a, <1>s, <2>1, <2>2, <2>3, <2>4 DEF NextResolvedMoves, NextResolvedGains
  <2>7. \A e \in Ephemerons : HasOp(Rechecks, e)' => state'[e] # "claimed"
    BY <1>c, <1>s, <2>1, <2>2, <2>3, <2>4 DEF NextResolvedMoves, NextResolvedGains, Rechecks
  <2>8. \A e \in Ephemerons : state'[e] = "claimed" => HasOp(Claims, e)'
    BY <1>d, <1>s, <2>1, <2>2, <2>3, <2>4 DEF NextResolvedMoves, NextResolvedGains, Claims
  <2>9. \A e \in Ephemerons : HasOp({"setTraced"}, e)' =>
         state'[e] \in {"claimed", "resolved"} /\ key'[e] \in markedObjects' /\ Seen(shape.value[e])'
    <3>1. PICK v : v = link[ResolvedLink(Op(w).obj)]
      OBVIOUS
    <3>2. v # NoRef => Becomes({Op(w)}, ResolvedOps(v))
      BY <2>1, <3>1 DEF NextResolvedMoves
    <3>3. v # NoRef => \A a : a = shape.value[v] => HasOp({"visit"}, a)'
      BY <2>1, <2>4, <3>1, <3>2, NowVisits, ShapeTypes DEF ResolvedOps, Objects
    <3>4. v # NoRef => \A e : e = v => Seen(shape.value[e])'
      BY <1>0, <3>3 DEF Seen
    <3>5. \A e \in Ephemerons : HasOp({"setTraced"}, e)' => HasOp({"setTraced"}, e) \/ (e = v /\ v # NoRef)
      BY <2>3, <3>1, ShapeTypes DEF NextResolvedGains, Objects
    <3>6. QED
      BY <1>e, <1>f, <2>2, <2>4, <3>1, <3>4, <3>5
  <2>10. \A e \in Ephemerons : state'[e] = "resolved" \/ HasOp({"tryResolve"}, e)' => key'[e] \in markedObjects'
    BY <1>f, <1>s, <2>1, <2>2, <2>3, <2>4 DEF NextResolvedMoves, NextResolvedGains
  <2>11. \A o \in Objects : HasOp(Walks, o)' => o \in markedObjects'
    BY <1>g, <2>1, <2>2, <2>3, <2>4 DEF NextResolvedMoves, NextResolvedGains, Walks
  <2>12. QED
    BY <2>5, <2>6, <2>7, <2>8, <2>9, <2>10, <2>11 DEF Claimed
<1>15. CASE TakeNextRoot(w)
  <2>1. PICK r \in rootList : TakeRootMoves(r)
    BY <1>15, TakeRootOps
  <2>2. markedObjects' = markedObjects /\ greyObjects' = greyObjects /\ state' = state /\ link' = link
    BY <1>15 DEF TakeNextRoot
  <2>3. TakeRootGains(r)
    BY <2>1, TakeRootGained
  <2>4. r.kind = "resolved" => r.obj \in Ephemerons /\ state[r.obj] = "resolved" /\ ~HasOp(Claims, r.obj) /\ key[r.obj] \in markedObjects
    BY <1>0, <2>1, Nodes, Unclaimed DEF TakeRootMoves
  <2>5. \A e \in Ephemerons : Once(Of(Claims, e))'
    <3>1. CASE r.kind = "edge" /\ Becomes({}, {VisitObject(r.obj)})
      BY <1>a, <3>1 DEF Becomes, VisitObject, Claims
    <3>2. CASE r.kind = "resolved" /\ Becomes({}, ResolvedOps(r.obj))
      <4>1. \A y \in ResolvedOps(r.obj) : y.op \in Claims => y = SetTraced(r.obj) /\ y.obj = r.obj
        BY DEF ResolvedOps, VisitObject, SetTraced, NextResolved, Claims
      <4>2. QED
        BY <1>a, <2>4, <3>2, <4>1, OnceNext
    <3>3. QED
      BY <2>1, <3>1, <3>2 DEF TakeRootMoves
  <2>6. \A e \in Ephemerons : HasOp({"visitKey", "publish"}, e)' => state'[e] = "claimed"
    BY <1>a, <1>s, <2>1, <2>2, <2>3, <2>4 DEF TakeRootMoves, TakeRootGains
  <2>7. \A e \in Ephemerons : HasOp(Rechecks, e)' => state'[e] # "claimed"
    BY <1>c, <1>s, <2>1, <2>2, <2>3, <2>4 DEF TakeRootMoves, TakeRootGains, Rechecks
  <2>8. \A e \in Ephemerons : state'[e] = "claimed" => HasOp(Claims, e)'
    BY <1>d, <1>s, <2>1, <2>2, <2>3, <2>4 DEF TakeRootMoves, TakeRootGains, Claims
  <2>9. \A e \in Ephemerons : HasOp({"setTraced"}, e)' =>
         state'[e] \in {"claimed", "resolved"} /\ key'[e] \in markedObjects' /\ Seen(shape.value[e])'
    <3>1. PICK v : v = r.obj
      OBVIOUS
    <3>2. r.kind = "resolved" => Becomes({}, ResolvedOps(v))
      BY <2>1, <3>1 DEF TakeRootMoves
    <3>3. r.kind = "resolved" => \A a : a = shape.value[v] => HasOp({"visit"}, a)'
      BY <2>1, <2>4, <3>1, <3>2, NowVisits, ShapeTypes DEF ResolvedOps, Objects
    <3>4. r.kind = "resolved" => \A e : e = v => Seen(shape.value[e])'
      BY <1>0, <3>3 DEF Seen
    <3>5. \A e \in Ephemerons : HasOp({"setTraced"}, e)' => HasOp({"setTraced"}, e) \/ (e = v /\ r.kind = "resolved" )
      BY <2>3, <3>1, ShapeTypes DEF TakeRootGains, Objects
    <3>6. QED
      BY <1>e, <1>f, <2>2, <2>4, <3>1, <3>4, <3>5
  <2>10. \A e \in Ephemerons : state'[e] = "resolved" \/ HasOp({"tryResolve"}, e)' => key'[e] \in markedObjects'
    BY <1>f, <1>s, <2>1, <2>2, <2>3, <2>4 DEF TakeRootMoves, TakeRootGains
  <2>11. \A o \in Objects : HasOp(Walks, o)' => o \in markedObjects'
    BY <1>g, <2>1, <2>2, <2>3, <2>4 DEF TakeRootMoves, TakeRootGains, Walks
  <2>12. QED
    BY <2>5, <2>6, <2>7, <2>8, <2>9, <2>10, <2>11 DEF Claimed
<1>16. QED
  BY <1>1, <1>2, <1>3, <1>4, <1>5, <1>6, <1>7, <1>8, <1>9, <1>10, <1>11, <1>12, <1>13, <1>14, <1>15 DEF TraceStep

\* Every push of a step, but for one that is new, was there before.
PushedAs(y) ==
  \/ y.cell = Resolved /\ state[y.obj] = "resolved" /\ ~HasOp({"setTraced"}, y.obj)
  \/ y.cell = BucketFor(y.obj) /\ state[y.obj] = "pending"

LEMMA PushIn ==
  ASSUME WeakTypes, NEW e, NEW y \in Ops, y.op \in Pushes, y.obj = e
  PROVE  e \in Ephemerons /\ HasOp(Pushes, e)
<1>1. y \in OpSet /\ Pushes \subseteq Traces
  BY OpsIn DEF Pushes, Traces
<1>2. QED
  BY <1>1, OpKinds DEF HasOp

LEMMA PushedKept ==
  ASSUME WeakTypes, Pushed, key' = key,
         \A e \in Ephemerons : HasOp(Pushes, e) =>
           state'[e] = state[e] /\ (HasOp({"setTraced"}, e)' => HasOp({"setTraced"}, e)),
         NEW y, NEW z \in Ops, z.op \in Pushes, z.cell = y.cell, z.obj = y.obj
  PROVE  PushedAs(y)'
<1>1. z.obj \in Ephemerons /\ HasOp(Pushes, z.obj)
  BY PushIn
<1>2. PushedAs(z)
  BY DEF Pushed, PushedAs
<1>3. PushedAs(y)
  BY <1>2 DEF PushedAs
<1>4. state'[y.obj] = state[y.obj] /\ (HasOp({"setTraced"}, y.obj)' => HasOp({"setTraced"}, y.obj))
  BY <1>1
<1>5. QED
  BY <1>3, <1>4 DEF PushedAs, BucketFor

LEMMA PushesApart ==
  ASSUME Pushed, NEW e \in Ephemerons, HasOp(Pushes, e)
  PROVE  state[e] \in {"pending", "resolved"} /\ ~(state[e] = "resolved" /\ HasOp({"setTraced"}, e))
BY DEF Pushed, HasOp

\* Who tries to resolve an ephemeron that waits finds it in its bucket.
LEMMA NotPushed ==
  ASSUME TraceInv, NEW e \in Ephemerons, HasOp({"tryResolve"}, e), state[e] = "pending"
  PROVE  ~HasOp(Pushes, e)
<1>1. PICK r \in [Ephemerons -> Nat], n \in Nat : RankedBy(r, n)
  BY DEF TraceInv
<1>2. QED
  BY <1>1 DEF RankedBy, Ranked

\* An ephemeron is put on one list at most.
LEMMA PushedNext ==
  ASSUME WeakTypes, Phases, Tracing, TraceInv, NEW w \in Workers, TraceStep(w)
  PROVE  Pushed'
<1>s. state \in [Ephemerons -> {"traced", "claimed", "pending", "resolved"}]
  BY DEF WeakTypes
<1>0. /\ Pushed /\ Claimed /\ QueuedOnce /\ key' = key
      /\ \A e \in Ephemerons : HasOp({"setTraced"}, e) => state[e] \in {"claimed", "resolved"}
      /\ \A e \in Ephemerons : HasOp({"visitKey", "publish"}, e) => state[e] = "claimed"
  BY TraceFrame DEF TraceInv, Claimed
<1>p. \A e \in Ephemerons : HasOp(Pushes, e) =>
        state[e] \in {"pending", "resolved"} /\ ~(state[e] = "resolved" /\ HasOp({"setTraced"}, e))
  BY <1>0, PushesApart
<1>a. \A e \in Ephemerons : Once(Of(Pushes, e))
  BY <1>0 DEF Pushed
<1>x. "pushCas" \in Pushes
  BY DEF Pushes
<1>c. \A x \in Ops : x.op = "pushCas" => link[LinkOf(x.cell, x.obj)] = x.tail
  BY <1>0 DEF Pushed
<1>1. CASE PushLoad(w)
  <2>1. PushLoadMoves(w)
    BY <1>1, PushLoadOps
  <2>2. markedObjects' = markedObjects /\ greyObjects' = greyObjects /\ state' = state /\ rootList' = rootList
    BY <1>1 DEF PushLoad
  <2>3. PushLoadGains(w)
    BY <2>1, PushLoadGained
  <2>4. \A e \in Ephemerons : Once(Of(Pushes, e))'
    BY <1>a, <2>1, <2>2 DEF PushLoadMoves, Becomes, PushCas, Pushes
  <2>5. \A e \in Ephemerons : HasOp(Pushes, e) =>
        state'[e] = state[e] /\ (HasOp({"setTraced"}, e)' => HasOp({"setTraced"}, e))
    BY <1>s, <1>p, <1>0, <2>1, <2>2, <2>3 DEF PushLoadMoves, PushLoadGains
  <2>6. \A y \in Ops' : y.op \in Pushes => \E z \in Ops : z.op \in Pushes /\ z.cell = y.cell /\ z.obj = y.obj
    BY <2>1, <2>2 DEF PushLoadMoves, Becomes, PushCas, Pushes
  <2>7. \A y \in Ops' : y.op \in Pushes => PushedAs(y)'
    BY <1>0, <2>5, <2>6, PushedKept
  <2>8. \A y \in Ops' : y.op = "pushCas" => link'[LinkOf(y.cell, y.obj)] = y.tail
    <3>0. PICK x : x = Op(w)
      OBVIOUS
    <3>1. /\ x \in Ops /\ x.op = "push" /\ x.op \in Pushes /\ x.obj \in Ephemerons /\ x.cell \in Cells
          /\ link' = [link EXCEPT ![LinkOf(x.cell, x.obj)] = link[x.cell]]
          /\ Becomes({x}, {PushCas(x.cell, x.obj, link[x.cell])})
      BY <2>1, <3>0 DEF PushLoadMoves, Pushes
    <3>2. SUFFICES ASSUME NEW y \in Ops', y.op = "pushCas" PROVE link'[LinkOf(y.cell, y.obj)] = y.tail
      OBVIOUS
    <3>3. CASE y = PushCas(x.cell, x.obj, link[x.cell])
      <4>1. LinkOf(x.cell, x.obj) \in Cells
        BY <3>1, CellsApart DEF LinkOf
      <4>2. y.cell = x.cell /\ y.obj = x.obj /\ y.tail = link[x.cell]
        BY <3>3 DEF PushCas
      <4>3. QED
        BY <3>1, <4>1, <4>2 DEF WeakTypes
    <3>4. CASE y # PushCas(x.cell, x.obj, link[x.cell])
      <4>1. y \in Ops /\ y # x
        BY <3>1, <3>2, <3>4 DEF Becomes
      <4>2. y.obj # x.obj
        BY <1>a, <1>x, <3>1, <3>2, <4>1, OneOf
      <4>3. y.obj \in Ephemerons
        BY <1>x, <3>2, <4>1, PushIn
      <4>4. LinkOf(y.cell, y.obj) \in Cells /\ LinkOf(y.cell, y.obj) # LinkOf(x.cell, x.obj)
        BY <3>1, <4>2, <4>3, CellsApart DEF LinkOf
      <4>5. link'[LinkOf(y.cell, y.obj)] = link[LinkOf(y.cell, y.obj)]
        BY <3>1, <4>4 DEF WeakTypes
      <4>6. QED
        BY <1>c, <3>2, <4>1, <4>5
    <3>5. QED
      BY <3>3, <3>4
  <2>9. QED
    BY <2>4, <2>5, <2>6, <2>7, <2>8 DEF Pushed, PushedAs
<1>2. CASE PushSwap(w)
  <2>1. PushSwapMoves(w)
    BY <1>2, PushSwapOps
  <2>2. markedObjects' = markedObjects /\ greyObjects' = greyObjects /\ state' = state /\ rootList' = rootList
    BY <1>2 DEF PushSwap
  <2>3. PushSwapGains(w)
    BY <2>1, PushSwapGained
  <2>4. \A e \in Ephemerons : Once(Of(Pushes, e))'
    BY <1>a, <2>1, <2>2 DEF PushSwapMoves, Becomes, Push, Pushes
  <2>5. \A e \in Ephemerons : HasOp(Pushes, e) =>
        state'[e] = state[e] /\ (HasOp({"setTraced"}, e)' => HasOp({"setTraced"}, e))
    BY <1>s, <1>p, <1>0, <2>1, <2>2, <2>3 DEF PushSwapMoves, PushSwapGains
  <2>6. \A y \in Ops' : y.op \in Pushes => \E z \in Ops : z.op \in Pushes /\ z.cell = y.cell /\ z.obj = y.obj
    BY <2>1, <2>2 DEF PushSwapMoves, Becomes, Push, Pushes
  <2>7. \A y \in Ops' : y.op \in Pushes => PushedAs(y)'
    BY <1>0, <2>5, <2>6, PushedKept
  <2>8. \A y \in Ops' : y.op = "pushCas" => link'[LinkOf(y.cell, y.obj)] = y.tail
    <3>1. \A y \in Ops' : y.op = "pushCas" => y \in Ops
      BY <2>1 DEF PushSwapMoves, Becomes, Push
    <3>2. Op(w).cell = Resolved \/ \E b \in Buckets : Op(w).cell = Bucket(b)
      BY <1>0, <1>x, <2>1, KeyTypes DEF PushSwapMoves, Pushed, BucketFor
    <3>3. \A e \in Ephemerons : \A c : LinkOf(c, e) \in Cells /\ LinkOf(c, e) # Op(w).cell
      BY <3>2, CellsApart DEF LinkOf
    <3>4. \A e \in Ephemerons : \A c : link'[LinkOf(c, e)] = link[LinkOf(c, e)]
      BY <2>1, <3>3 DEF PushSwapMoves, WeakTypes
    <3>5. \A y \in Ops' : y.op = "pushCas" => y.obj \in Ephemerons
      BY <1>x, <3>1, PushIn
    <3>6. QED
      BY <1>c, <3>1, <3>4, <3>5
  <2>9. QED
    BY <2>4, <2>5, <2>6, <2>7, <2>8 DEF Pushed, PushedAs
<1>3. CASE FollowLoad(w)
  <2>1. FollowLoadMoves(w)
    BY <1>3, FollowLoadOps
  <2>2. markedObjects' = markedObjects /\ greyObjects' = greyObjects /\ state' = state /\ link' = link /\ rootList' = rootList
    BY <1>3 DEF FollowLoad
  <2>3. FollowLoadGains(w)
    BY <2>1, FollowLoadGained
  <2>4. \A e \in Ephemerons : Once(Of(Pushes, e))'
    BY <1>a, <2>1, <2>2 DEF FollowLoadMoves, Becomes, Skip, Pushes
  <2>5. \A e \in Ephemerons : HasOp(Pushes, e) =>
        state'[e] = state[e] /\ (HasOp({"setTraced"}, e)' => HasOp({"setTraced"}, e))
    BY <1>s, <1>p, <1>0, <2>1, <2>2, <2>3 DEF FollowLoadMoves, FollowLoadGains
  <2>6. \A y \in Ops' : y.op \in Pushes => y \in Ops
    BY <2>1, <2>2 DEF FollowLoadMoves, Becomes, Skip, Pushes
  <2>7. \A y \in Ops' : y.op \in Pushes => PushedAs(y)'
    BY <1>0, <2>5, <2>6, PushedKept
  <2>8. \A y \in Ops' : y.op = "pushCas" => link'[LinkOf(y.cell, y.obj)] = y.tail
    BY <1>c, <1>x, <2>2, <2>6
  <2>9. QED
    BY <2>4, <2>5, <2>6, <2>7, <2>8 DEF Pushed, PushedAs
<1>4. CASE FollowSkip(w)
  <2>1. FollowSkipMoves(w)
    BY <1>4, FollowSkipOps
  <2>2. markedObjects' = markedObjects /\ greyObjects' = greyObjects /\ state' = state /\ link' = link /\ rootList' = rootList
    BY <1>4 DEF FollowSkip
  <2>3. FollowSkipGains(w)
    BY <2>1, FollowSkipGained
  <2>4. \A e \in Ephemerons : Once(Of(Pushes, e))'
    <3>0. PICK x : x = Op(w)
      OBVIOUS
    <3>1. (\A y \in {Skip(x.cell, x.obj, x.head, link[PendingLink(x.new)])} : y.op \notin Pushes) /\ (\A y \in AfterOps(x.obj, x.new) : y.op \notin Pushes) /\ (\A y \in {FollowCas(x.cell, x.obj, x.head, x.new)} : y.op \notin Pushes)
      BY DEF AfterOps, Skip, FollowCas, TryResolve, Follow, Pushes
    <3>2. QED
      BY <1>a, <2>1, <3>0, <3>1, OnceFree DEF FollowSkipMoves
  <2>5. \A e \in Ephemerons : HasOp(Pushes, e) =>
        state'[e] = state[e] /\ (HasOp({"setTraced"}, e)' => HasOp({"setTraced"}, e))
    BY <1>s, <1>p, <1>0, <2>1, <2>2, <2>3 DEF FollowSkipMoves, FollowSkipGains
  <2>6. \A y \in Ops' : y.op \in Pushes => y \in Ops
    BY <2>1, <2>2 DEF FollowSkipMoves, Becomes, AfterOps, Skip, FollowCas, Follow, TryResolve, Pushes
  <2>7. \A y \in Ops' : y.op \in Pushes => PushedAs(y)'
    BY <1>0, <2>5, <2>6, PushedKept
  <2>8. \A y \in Ops' : y.op = "pushCas" => link'[LinkOf(y.cell, y.obj)] = y.tail
    BY <1>c, <1>x, <2>2, <2>6
  <2>9. QED
    BY <2>4, <2>5, <2>6, <2>7, <2>8 DEF Pushed, PushedAs
<1>5. CASE FollowSwap(w)
  <2>1. FollowSwapMoves(w)
    BY <1>5, FollowSwapOps
  <2>2. markedObjects' = markedObjects /\ greyObjects' = greyObjects /\ state' = state /\ rootList' = rootList
    BY <1>5 DEF FollowSwap
  <2>3. FollowSwapGains(w)
    BY <2>1, FollowSwapGained
  <2>4. \A e \in Ephemerons : Once(Of(Pushes, e))'
    <3>0. PICK x : x = Op(w)
      OBVIOUS
    <3>1. (\A y \in {Skip(x.cell, x.obj, link[x.cell], link[x.cell])} : y.op \notin Pushes) /\ (\A y \in AfterOps(x.obj, x.new) : y.op \notin Pushes)
      BY DEF AfterOps, Skip, TryResolve, Follow, Pushes
    <3>2. QED
      BY <1>a, <2>1, <3>0, <3>1, OnceFree DEF FollowSwapMoves
  <2>5. \A e \in Ephemerons : HasOp(Pushes, e) =>
        state'[e] = state[e] /\ (HasOp({"setTraced"}, e)' => HasOp({"setTraced"}, e))
    BY <1>s, <1>p, <1>0, <2>1, <2>2, <2>3 DEF FollowSwapMoves, FollowSwapGains
  <2>6. \A y \in Ops' : y.op \in Pushes => y \in Ops
    <3>1. PICK N : Becomes({Op(w)}, N) /\ \A y \in N : y.op \in {"skip", "follow", "tryResolve"}
      BY <2>1, SwapBecomes
    <3>2. QED
      BY <3>1 DEF Becomes, Pushes
  <2>7. \A y \in Ops' : y.op \in Pushes => PushedAs(y)'
    BY <1>0, <2>5, <2>6, PushedKept
  <2>8. \A y \in Ops' : y.op = "pushCas" => link'[LinkOf(y.cell, y.obj)] = y.tail
    <3>1. PICK r \in [Ephemerons -> Nat], n \in Nat : RankedBy(r, n)
      BY DEF TraceInv
    <3>2. \A y \in Ops' : y.op = "pushCas" => y \in Ops /\ y.obj \in Ephemerons /\ HasOp(Pushes, y.obj)
      BY <1>x, <2>6, PushIn
    <3>3. SUFFICES ASSUME NEW y \in Ops', y.op = "pushCas" PROVE link'[LinkOf(y.cell, y.obj)] = y.tail
      OBVIOUS
    <3>4. LinkOf(y.cell, y.obj) \in Cells
      BY <3>2, <3>3, CellsApart DEF LinkOf
    <3>5. LinkOf(y.cell, y.obj) # Op(w).cell
      <4>0. PICK x : x = Op(w)
        OBVIOUS
      <4>1. IsCell(r, Bucket(BucketOf(x.obj)), x.cell) /\ Bucket(BucketOf(x.obj)) \in Cells
        <5>1. x \in Ops /\ x.op \in Walks /\ x.obj \in Objects
          BY <2>1, <4>0 DEF FollowSwapMoves, Walks
        <5>2. BucketOf(x.obj) \in Buckets
          BY <5>1, WeakAssumption
        <5>3. QED
          BY <3>1, <5>1, <5>2, CellsApart DEF RankedBy, Links, WalkOk
      <4>2. CASE \E z \in Ephemerons : InBucket(r, Bucket(BucketOf(x.obj)), z) /\ x.cell = PendingLink(z)
        <5>1. PICK z \in Ephemerons : r[z] # 0 /\ x.cell = PendingLink(z)
          BY <4>2 DEF InBucket
        <5>2. CASE y.obj = z
          <6>1. state[z] = "resolved"
            BY <3>1, <3>2, <3>3, <5>1, <5>2 DEF RankedBy, Ranked
          <6>2. y.cell = Resolved
            BY <1>0, <1>x, <3>2, <3>3, <5>2, <6>1 DEF Pushed
          <6>3. QED
            BY <3>2, <3>3, <4>0, <5>1, <6>2, CellsApart DEF LinkOf
        <5>3. CASE y.obj # z
          BY <3>2, <3>3, <4>0, <5>1, <5>3, CellsApart DEF LinkOf
        <5>4. QED
          BY <5>2, <5>3
      <4>3. CASE x.cell = Bucket(BucketOf(x.obj))
        <5>1. BucketOf(x.obj) \in Buckets
          BY <2>1, <4>0, WeakAssumption DEF FollowSwapMoves
        <5>2. QED
          BY <3>2, <3>3, <4>0, <4>3, <5>1, CellsApart DEF LinkOf
      <4>4. QED
        BY <4>1, <4>2, <4>3 DEF IsCell
    <3>6. link'[LinkOf(y.cell, y.obj)] = link[LinkOf(y.cell, y.obj)]
      BY <2>1, <3>4, <3>5 DEF FollowSwapMoves, WeakTypes
    <3>7. QED
      BY <1>c, <3>2, <3>3, <3>6
  <2>9. QED
    BY <2>4, <2>5, <2>6, <2>7, <2>8 DEF Pushed, PushedAs
<1>6. CASE Resolve(w)
  <2>1. ResolveMoves(w)
    BY <1>6, ResolveOps
  <2>2. markedObjects' = markedObjects /\ greyObjects' = greyObjects /\ link' = link /\ rootList' = rootList
    BY <1>6 DEF Resolve
  <2>3. ResolveGains(w)
    BY <2>1, ResolveGained
  <2>4. state[Op(w).obj] = "pending" => ~HasOp(Pushes, Op(w).obj)
    BY <2>1, <2>3, NotPushed DEF ResolveMoves, ResolveGains
  <2>5. \A e \in Ephemerons : Once(Of(Pushes, e))'
    BY <1>a, <2>1, <2>2, <2>4 DEF ResolveMoves, Becomes, Push, Pushes
  <2>6. \A e \in Ephemerons : HasOp(Pushes, e) =>
        state'[e] = state[e] /\ (HasOp({"setTraced"}, e)' => HasOp({"setTraced"}, e))
    BY <1>s, <1>p, <1>0, <2>1, <2>2, <2>3, <2>4 DEF ResolveMoves, ResolveGains
  <2>7. \A y \in Ops' : y.op \in Pushes => y \in Ops \/ (state[Op(w).obj] = "pending" /\ y = Push(Resolved, Op(w).obj))
    BY <2>1, <2>2, <2>4 DEF ResolveMoves, Becomes, Push, Pushes
  <2>8. \A y \in Ops' : y.op \in Pushes => PushedAs(y)'
    <3>0. PICK x : x = Op(w)
      OBVIOUS
    <3>1. state[x.obj] = "pending" => state'[x.obj] = "resolved" /\ x.obj \in Ephemerons
      BY <1>s, <2>1, <3>0 DEF ResolveMoves
    <3>2. state[x.obj] = "pending" => ~HasOp({"setTraced"}, x.obj)'
      BY <1>0, <2>1, <2>3, <3>0 DEF ResolveMoves, ResolveGains
    <3>3. \A y : state[x.obj] = "pending" /\ y = Push(Resolved, x.obj) => PushedAs(y)'
      BY <3>1, <3>2 DEF PushedAs, Push
    <3>4. QED
      BY <1>0, <2>6, <2>7, <3>0, <3>3, PushedKept
  <2>9. \A y \in Ops' : y.op = "pushCas" => link'[LinkOf(y.cell, y.obj)] = y.tail
    BY <1>c, <1>x, <2>2, <2>7 DEF Push
  <2>10. QED
    BY <2>5, <2>6, <2>7, <2>8, <2>9 DEF Pushed, PushedAs
<1>7. CASE VisitEdge(w)
  <2>1. VisitEdgeMoves(w)
    BY <1>7, VisitEdgeOps
  <2>2. greyObjects' = greyObjects /\ state' = state /\ link' = link /\ rootList' = rootList
    BY <1>7 DEF VisitEdge
  <2>3. VisitEdgeGains(w)
    BY <2>1, VisitEdgeGained
  <2>4. \A e \in Ephemerons : Once(Of(Pushes, e))'
    BY <1>a, <2>1, <2>2 DEF VisitEdgeMoves, Becomes, Follow, Enqueue, Pushes
  <2>5. \A e \in Ephemerons : HasOp(Pushes, e) =>
        state'[e] = state[e] /\ (HasOp({"setTraced"}, e)' => HasOp({"setTraced"}, e))
    BY <1>s, <1>p, <1>0, <2>1, <2>2, <2>3 DEF VisitEdgeMoves, VisitEdgeGains
  <2>6. \A y \in Ops' : y.op \in Pushes => y \in Ops
    BY <2>1, <2>2 DEF VisitEdgeMoves, Becomes, Follow, Enqueue, Pushes
  <2>7. \A y \in Ops' : y.op \in Pushes => PushedAs(y)'
    BY <1>0, <2>5, <2>6, PushedKept
  <2>8. \A y \in Ops' : y.op = "pushCas" => link'[LinkOf(y.cell, y.obj)] = y.tail
    BY <1>c, <1>x, <2>2, <2>6
  <2>9. QED
    BY <2>4, <2>5, <2>6, <2>7, <2>8 DEF Pushed, PushedAs
<1>8. CASE EnqueueObject(w)
  <2>1. EnqueueMoves(w)
    BY <1>8, EnqueueOps
  <2>2. markedObjects' = markedObjects /\ state' = state /\ link' = link /\ rootList' = rootList
    BY <1>8 DEF EnqueueObject
  <2>3. EnqueueGains(w)
    BY <2>1, EnqueueGained
  <2>4. \A e \in Ephemerons : Once(Of(Pushes, e))'
    BY <1>a, <2>1, <2>2 DEF EnqueueMoves, Becomes, Pushes
  <2>5. \A e \in Ephemerons : HasOp(Pushes, e) =>
        state'[e] = state[e] /\ (HasOp({"setTraced"}, e)' => HasOp({"setTraced"}, e))
    BY <1>s, <1>p, <1>0, <2>1, <2>2, <2>3 DEF EnqueueMoves, EnqueueGains
  <2>6. \A y \in Ops' : y.op \in Pushes => y \in Ops
    BY <2>1, <2>2 DEF EnqueueMoves, Becomes, Pushes
  <2>7. \A y \in Ops' : y.op \in Pushes => PushedAs(y)'
    BY <1>0, <2>5, <2>6, PushedKept
  <2>8. \A y \in Ops' : y.op = "pushCas" => link'[LinkOf(y.cell, y.obj)] = y.tail
    BY <1>c, <1>x, <2>2, <2>6
  <2>9. QED
    BY <2>4, <2>5, <2>6, <2>7, <2>8 DEF Pushed, PushedAs
<1>9. CASE TraceObject(w)
  <2>1. PICK o \in greyObjects : TraceObjectMoves(o)
    BY <1>9, TraceObjectOps
  <2>2. markedObjects' = markedObjects /\ link' = link /\ rootList' = rootList
    BY <1>9 DEF TraceObject
  <2>3. TraceObjectGains(o)
    BY <2>1, TraceObjectGained
  <2>4. o \in Ephemerons => ~HasOp(Pushes, o)
    BY <1>0, <2>1, Idle DEF TraceObjectMoves
  <2>5. \A e \in Ephemerons : Once(Of(Pushes, e))'
    BY <1>a, <2>1, <2>2, <2>4 DEF TraceObjectMoves, Becomes, VisitObject, VisitKey, Pushes
  <2>6. \A e \in Ephemerons : HasOp(Pushes, e) =>
        state'[e] = state[e] /\ (HasOp({"setTraced"}, e)' => HasOp({"setTraced"}, e))
    BY <1>s, <1>p, <1>0, <2>1, <2>2, <2>3, <2>4 DEF TraceObjectMoves, TraceObjectGains
  <2>7. \A y \in Ops' : y.op \in Pushes => y \in Ops
    BY <2>1, <2>2, <2>4 DEF TraceObjectMoves, Becomes, VisitObject, VisitKey, Pushes
  <2>8. \A y \in Ops' : y.op \in Pushes => PushedAs(y)'
    BY <1>0, <2>6, <2>7, PushedKept
  <2>9. \A y \in Ops' : y.op = "pushCas" => link'[LinkOf(y.cell, y.obj)] = y.tail
    BY <1>c, <1>x, <2>2, <2>7
  <2>10. QED
    BY <2>5, <2>6, <2>7, <2>8, <2>9 DEF Pushed, PushedAs
<1>10. CASE LookAtKey(w)
  <2>1. LookAtKeyMoves(w)
    BY <1>10, LookAtKeyOps
  <2>2. markedObjects' = markedObjects /\ greyObjects' = greyObjects /\ state' = state /\ link' = link /\ rootList' = rootList
    BY <1>10 DEF LookAtKey
  <2>3. LookAtKeyGains(w)
    BY <2>1, LookAtKeyGained
  <2>4. state[Op(w).obj] = "claimed"
    BY <1>0, <2>1, <2>3 DEF LookAtKeyMoves, LookAtKeyGains
  <2>5. \A e \in Ephemerons : Once(Of(Pushes, e))'
    <3>0. PICK x : x = Op(w)
      OBVIOUS
    <3>1. (\A y \in {VisitObject(shape.value[x.obj]), SetTraced(x.obj)} : y.op \notin Pushes) /\ (\A y \in {Publish(x.obj)} : y.op \notin Pushes)
      BY DEF VisitObject, SetTraced, Publish, Pushes
    <3>2. QED
      BY <1>a, <2>1, <3>0, <3>1, OnceFree DEF LookAtKeyMoves
  <2>6. \A e \in Ephemerons : HasOp(Pushes, e) =>
        state'[e] = state[e] /\ (HasOp({"setTraced"}, e)' => HasOp({"setTraced"}, e))
    BY <1>s, <1>p, <1>0, <2>1, <2>2, <2>3, <2>4 DEF LookAtKeyMoves, LookAtKeyGains
  <2>7. \A y \in Ops' : y.op \in Pushes => y \in Ops
    BY <2>1, <2>2, <2>4 DEF LookAtKeyMoves, Becomes, VisitObject, SetTraced, Publish, Pushes
  <2>8. \A y \in Ops' : y.op \in Pushes => PushedAs(y)'
    BY <1>0, <2>6, <2>7, PushedKept
  <2>9. \A y \in Ops' : y.op = "pushCas" => link'[LinkOf(y.cell, y.obj)] = y.tail
    BY <1>c, <1>x, <2>2, <2>7
  <2>10. QED
    BY <2>5, <2>6, <2>7, <2>8, <2>9 DEF Pushed, PushedAs
<1>11. CASE FinishTraced(w)
  <2>1. FinishTracedMoves(w)
    BY <1>11, FinishTracedOps
  <2>2. markedObjects' = markedObjects /\ greyObjects' = greyObjects /\ link' = link /\ rootList' = rootList
    BY <1>11 DEF FinishTraced
  <2>3. FinishTracedGains(w)
    BY <2>1, FinishTracedGained
  <2>4. state[Op(w).obj] \in {"claimed", "resolved"} /\ HasOp({"setTraced"}, Op(w).obj)
    BY <1>0, <2>1, <2>3 DEF FinishTracedMoves, FinishTracedGains
  <2>5. \A e \in Ephemerons : Once(Of(Pushes, e))'
    BY <1>a, <2>1, <2>2, <2>4 DEF FinishTracedMoves, Becomes, Pushes
  <2>6. \A e \in Ephemerons : HasOp(Pushes, e) =>
        state'[e] = state[e] /\ (HasOp({"setTraced"}, e)' => HasOp({"setTraced"}, e))
    BY <1>s, <1>p, <1>0, <2>1, <2>2, <2>3, <2>4 DEF FinishTracedMoves, FinishTracedGains
  <2>7. \A y \in Ops' : y.op \in Pushes => y \in Ops
    BY <2>1, <2>2, <2>4 DEF FinishTracedMoves, Becomes, Pushes
  <2>8. \A y \in Ops' : y.op \in Pushes => PushedAs(y)'
    BY <1>0, <2>6, <2>7, PushedKept
  <2>9. \A y \in Ops' : y.op = "pushCas" => link'[LinkOf(y.cell, y.obj)] = y.tail
    BY <1>c, <1>x, <2>2, <2>7
  <2>10. QED
    BY <2>5, <2>6, <2>7, <2>8, <2>9 DEF Pushed, PushedAs
<1>12. CASE AddPending(w)
  <2>1. AddPendingMoves(w)
    BY <1>12, AddPendingOps
  <2>2. markedObjects' = markedObjects /\ greyObjects' = greyObjects /\ link' = link /\ rootList' = rootList
    BY <1>12 DEF AddPending
  <2>3. AddPendingGains(w)
    BY <2>1, AddPendingGained
  <2>4. state[Op(w).obj] = "claimed" /\ ~HasOp(Pushes, Op(w).obj)
    BY <1>0, <1>p, <2>1, <2>3 DEF AddPendingMoves, AddPendingGains
  <2>5. \A e \in Ephemerons : Once(Of(Pushes, e))'
    <3>0. PICK x : x = Op(w)
      OBVIOUS
    <3>1. \A y \in {Push(BucketFor(x.obj), x.obj), Recheck(x.obj)} :
            y.op \in Pushes => y = Push(BucketFor(x.obj), x.obj) /\ y.obj = x.obj
      BY DEF Push, Recheck, Pushes
    <3>2. Becomes({x}, {Push(BucketFor(x.obj), x.obj), Recheck(x.obj)}) /\ ~HasOp(Pushes, x.obj)
      BY <2>1, <2>4, <3>0 DEF AddPendingMoves
    <3>3. QED
      BY <1>a, <3>1, <3>2, OnceNext
  <2>6. \A e \in Ephemerons : HasOp(Pushes, e) =>
        state'[e] = state[e] /\ (HasOp({"setTraced"}, e)' => HasOp({"setTraced"}, e))
    BY <1>s, <1>p, <1>0, <2>1, <2>2, <2>3, <2>4 DEF AddPendingMoves, AddPendingGains
  <2>7. \A y \in Ops' : y.op \in Pushes => y \in Ops \/ y = Push(BucketFor(Op(w).obj), Op(w).obj)
    BY <2>1, <2>2, <2>4 DEF AddPendingMoves, Becomes, Push, Recheck, Pushes
  <2>8. \A y \in Ops' : y.op \in Pushes => PushedAs(y)'
    <3>0. PICK x : x = Op(w)
      OBVIOUS
    <3>1. state'[x.obj] = "pending" /\ x.obj \in Ephemerons
      BY <1>s, <2>1, <3>0 DEF AddPendingMoves
    <3>2. \A y : y = Push(BucketFor(x.obj), x.obj) => PushedAs(y)'
      BY <1>0, <3>1 DEF PushedAs, Push, BucketFor
    <3>3. QED
      BY <1>0, <2>6, <2>7, <3>0, <3>2, PushedKept
  <2>9. \A y \in Ops' : y.op = "pushCas" => link'[LinkOf(y.cell, y.obj)] = y.tail
    BY <1>c, <1>x, <2>2, <2>7 DEF Push
  <2>10. QED
    BY <2>5, <2>6, <2>7, <2>8, <2>9 DEF Pushed, PushedAs
<1>13. CASE LookAgain(w)
  <2>1. LookAgainMoves(w)
    BY <1>13, LookAgainOps
  <2>2. markedObjects' = markedObjects /\ greyObjects' = greyObjects /\ state' = state /\ link' = link /\ rootList' = rootList
    BY <1>13 DEF LookAgain
  <2>3. LookAgainGains(w)
    BY <2>1, LookAgainGained
  <2>4. \A e \in Ephemerons : Once(Of(Pushes, e))'
    BY <1>a, <2>1, <2>2 DEF LookAgainMoves, Becomes, TryResolve, Pushes
  <2>5. \A e \in Ephemerons : HasOp(Pushes, e) =>
        state'[e] = state[e] /\ (HasOp({"setTraced"}, e)' => HasOp({"setTraced"}, e))
    BY <1>s, <1>p, <1>0, <2>1, <2>2, <2>3 DEF LookAgainMoves, LookAgainGains
  <2>6. \A y \in Ops' : y.op \in Pushes => y \in Ops
    BY <2>1, <2>2 DEF LookAgainMoves, Becomes, TryResolve, Pushes
  <2>7. \A y \in Ops' : y.op \in Pushes => PushedAs(y)'
    BY <1>0, <2>5, <2>6, PushedKept
  <2>8. \A y \in Ops' : y.op = "pushCas" => link'[LinkOf(y.cell, y.obj)] = y.tail
    BY <1>c, <1>x, <2>2, <2>6
  <2>9. QED
    BY <2>4, <2>5, <2>6, <2>7, <2>8 DEF Pushed, PushedAs
<1>14. CASE GoNextResolved(w)
  <2>1. NextResolvedMoves(w)
    BY <1>14, NextResolvedOps
  <2>2. markedObjects' = markedObjects /\ greyObjects' = greyObjects /\ state' = state /\ link' = link /\ rootList' = rootList
    BY <1>14 DEF GoNextResolved
  <2>3. NextResolvedGains(w)
    BY <2>1, NextResolvedGained
  <2>4. LET v == link[ResolvedLink(Op(w).obj)] IN v # NoRef => ~HasOp(Pushes, v)
    BY <1>0, <2>1, Nodes, Unclaimed DEF NextResolvedMoves
  <2>5. \A e \in Ephemerons : Once(Of(Pushes, e))'
    <3>0. PICK x : x = Op(w)
      OBVIOUS
    <3>1. (\A y \in ResolvedOps(link[ResolvedLink(x.obj)]) : y.op \notin Pushes)
      BY DEF ResolvedOps, VisitObject, SetTraced, NextResolved, Pushes
    <3>2. QED
      BY <1>a, <2>1, <3>0, <3>1, OnceFree DEF NextResolvedMoves
  <2>6. \A e \in Ephemerons : HasOp(Pushes, e) =>
        state'[e] = state[e] /\ (HasOp({"setTraced"}, e)' => HasOp({"setTraced"}, e))
    BY <1>s, <1>p, <1>0, <2>1, <2>2, <2>3, <2>4 DEF NextResolvedMoves, NextResolvedGains
  <2>7. \A y \in Ops' : y.op \in Pushes => y \in Ops
    BY <2>1, <2>2, <2>4 DEF NextResolvedMoves, Becomes, ResolvedOps, VisitObject, SetTraced, NextResolved, Pushes
  <2>8. \A y \in Ops' : y.op \in Pushes => PushedAs(y)'
    BY <1>0, <2>6, <2>7, PushedKept
  <2>9. \A y \in Ops' : y.op = "pushCas" => link'[LinkOf(y.cell, y.obj)] = y.tail
    BY <1>c, <1>x, <2>2, <2>7
  <2>10. QED
    BY <2>5, <2>6, <2>7, <2>8, <2>9 DEF Pushed, PushedAs
<1>15. CASE TakeNextRoot(w)
  <2>1. PICK r \in rootList : TakeRootMoves(r)
    BY <1>15, TakeRootOps
  <2>2. markedObjects' = markedObjects /\ greyObjects' = greyObjects /\ state' = state /\ link' = link
    BY <1>15 DEF TakeNextRoot
  <2>3. TakeRootGains(r)
    BY <2>1, TakeRootGained
  <2>4. r.kind = "resolved" => ~HasOp(Pushes, r.obj)
    BY <1>0, <2>1, Nodes, Unclaimed DEF TakeRootMoves
  <2>5. \A e \in Ephemerons : Once(Of(Pushes, e))'
    <3>1. (\A y \in ResolvedOps(r.obj) : y.op \notin Pushes) /\ (\A y \in {VisitObject(r.obj)} : y.op \notin Pushes)
      BY DEF ResolvedOps, VisitObject, SetTraced, NextResolved, Pushes
    <3>2. QED
      BY <1>a, <2>1, <3>1, OnceFree DEF TakeRootMoves
  <2>6. \A e \in Ephemerons : HasOp(Pushes, e) =>
        state'[e] = state[e] /\ (HasOp({"setTraced"}, e)' => HasOp({"setTraced"}, e))
    BY <1>s, <1>p, <1>0, <2>1, <2>2, <2>3, <2>4 DEF TakeRootMoves, TakeRootGains
  <2>7. \A y \in Ops' : y.op \in Pushes => y \in Ops
    BY <2>1, <2>2, <2>4 DEF TakeRootMoves, Becomes, ResolvedOps, VisitObject, SetTraced, NextResolved, Pushes
  <2>8. \A y \in Ops' : y.op \in Pushes => PushedAs(y)'
    BY <1>0, <2>6, <2>7, PushedKept
  <2>9. \A y \in Ops' : y.op = "pushCas" => link'[LinkOf(y.cell, y.obj)] = y.tail
    BY <1>c, <1>x, <2>2, <2>7
  <2>10. QED
    BY <2>5, <2>6, <2>7, <2>8, <2>9 DEF Pushed, PushedAs
<1>16. QED
  BY <1>1, <1>2, <1>3, <1>4, <1>5, <1>6, <1>7, <1>8, <1>9, <1>10, <1>11, <1>12, <1>13, <1>14, <1>15 DEF TraceStep
===============================================================================
