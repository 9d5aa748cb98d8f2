------------------------------ MODULE WeakProofs ------------------------------
(***************************************************************************)
(* What a collection marks is what lives, and what fires is handed out     *)
(* once, for every heap, every number of tracers, ephemerons, finalizers   *)
(* and buckets.                                                            *)
(***************************************************************************)
EXTENDS WeakSteps

-------------------------------------------------------------------------------
(* Lists *)

LEMMA TopIn ==
  ASSUME NEW S, NEW q \in Seq(S)
  PROVE  /\ q # <<>> => Len(q) \in DOMAIN q /\ Top(q) = q[Len(q)] /\ Top(q) \in S /\ Listed(q, Top(q))
         /\ q = <<>> => Top(q) = NoRef /\ \A e : ~Listed(q, e)
         /\ \A e : Listed(q, e) => e \in S
<1>1. ASSUME q # <<>> PROVE Len(q) \in DOMAIN q /\ Top(q) = q[Len(q)] /\ Top(q) \in S /\ Listed(q, Top(q))
  <2>1. Len(q) \in DOMAIN q /\ Top(q) = q[Len(q)]
    BY <1>1 DEF Top
  <2>2. QED
    BY <2>1 DEF Listed
<1>2. ASSUME q = <<>> PROVE Top(q) = NoRef /\ \A e : ~Listed(q, e)
  BY <1>2 DEF Top, Listed
<1>3. \A e : Listed(q, e) => e \in S
  BY DEF Listed
<1>4. QED
  BY <1>1, <1>2, <1>3

\* What is not on a list may change its link.
LEMMA ListKept ==
  ASSUME NEW q, NEW c, NEW f, NEW g, IsList(q, c, f), \A e : Listed(q, e) => g[e] = f[e]
  PROVE  IsList(q, c, g)
BY DEF IsList, Listed

LEMMA ListPush ==
  ASSUME NEW S, NEW q \in Seq(S), NEW c, NEW f, NEW g, NEW e \in S, IsList(q, c, f), ~Listed(q, e),
         \A x : Listed(q, x) => g[x] = f[x], g[e] = c
  PROVE  /\ Append(q, e) \in Seq(S) /\ IsList(Append(q, e), e, g)
         /\ \A x : Listed(Append(q, e), x) <=> Listed(q, x) \/ x = e
<1> DEFINE r == Append(q, e)
<1>1. /\ r \in Seq(S) /\ Len(r) = Len(q) + 1 /\ Len(q) \in Nat /\ r[Len(q) + 1] = e
      /\ DOMAIN r = 1 .. Len(q) + 1 /\ DOMAIN q = 1 .. Len(q)
      /\ \A i \in 1 .. Len(q) : r[i] = q[i]
  OBVIOUS
<1>2. r # <<>> /\ Top(r) = e
  BY <1>1 DEF Top
<1> HIDE DEF r
<1>3. \A i \in DOMAIN r : i \in DOMAIN q \/ i = Len(q) + 1
  BY <1>1
<1>4. \A x : Listed(r, x) <=> Listed(q, x) \/ x = e
  <2>1. Len(q) + 1 \in DOMAIN r /\ \A i \in DOMAIN q : i \in DOMAIN r
    BY <1>1
  <2>2. QED
    BY <1>1, <1>3, <2>1 DEF Listed
<1>5. ASSUME NEW i \in DOMAIN r PROVE g[r[i]] = IF i = 1 THEN NoRef ELSE r[i - 1]
  <2>1. CASE i \in DOMAIN q
    <3>1. g[q[i]] = f[q[i]]
      BY <2>1 DEF Listed
    <3>2. f[q[i]] = IF i = 1 THEN NoRef ELSE q[i - 1]
      BY <2>1 DEF IsList
    <3>3. i # 1 => i - 1 \in 1 .. Len(q)
      BY <1>1, <2>1
    <3>4. QED
      BY <1>1, <2>1, <3>1, <3>2, <3>3
  <2>2. CASE i = Len(q) + 1
    <3>1. c = Top(q)
      BY DEF IsList
    <3>2. CASE q = <<>>
      BY <1>1, <2>2, <3>1, <3>2 DEF Top
    <3>3. CASE q # <<>>
      <4>1. Len(q) \in 1 .. Len(q) /\ i # 1 /\ i - 1 = Len(q) /\ c = q[Len(q)]
        BY <1>1, <2>2, <3>1, <3>3 DEF Top
      <4>2. QED
        BY <1>1, <2>2, <4>1
    <3>4. QED
      BY <3>2, <3>3
  <2>3. QED
    BY <1>3, <2>1, <2>2
<1>6. ASSUME NEW i \in DOMAIN r, NEW j \in DOMAIN r, r[i] = r[j] PROVE i = j
  <2>1. CASE i \in DOMAIN q /\ j \in DOMAIN q
    BY <1>1, <1>6, <2>1 DEF IsList
  <2>2. CASE i \in DOMAIN q /\ j = Len(q) + 1
    BY <1>1, <1>6, <2>2 DEF Listed
  <2>3. CASE j \in DOMAIN q /\ i = Len(q) + 1
    BY <1>1, <1>6, <2>3 DEF Listed
  <2>4. QED
    BY <1>3, <2>1, <2>2, <2>3
<1>7. IsList(r, e, g)
  BY <1>2, <1>5, <1>6 DEF IsList
<1>8. QED
  BY <1>1, <1>4, <1>7 DEF r

Rest(q) == SubSeq(q, 1, Len(q) - 1)

LEMMA ListPop ==
  ASSUME NEW S, NEW q \in Seq(S), NEW c, NEW f, IsList(q, c, f), q # <<>>
  PROVE  /\ Rest(q) \in Seq(S) /\ IsList(Rest(q), f[Top(q)], f) /\ f[Top(q)] = Top(Rest(q))
         /\ \A x : Listed(q, x) <=> Listed(Rest(q), x) \/ x = Top(q)
         /\ ~Listed(Rest(q), Top(q))
<1> DEFINE r == Rest(q)
           n == Len(q)
<1>1. /\ r \in Seq(S) /\ Len(r) = n - 1 /\ n \in Nat \ {0} /\ Top(q) = q[n]
      /\ DOMAIN r = 1 .. n - 1 /\ DOMAIN q = 1 .. n
      /\ \A i \in 1 .. n - 1 : r[i] = q[i]
  <2>1. n \in Nat \ {0} /\ Top(q) = q[n] /\ DOMAIN q = 1 .. n
    BY DEF Top
  <2>2. \A i \in 1 .. n - 1 : q[i] \in S
    BY <2>1
  <2>3. r = [i \in 1 .. n - 1 |-> q[i]]
    BY <2>1 DEF Rest
  <2>4. n - 1 \in Nat
    BY <2>1
  <2>5. r \in Seq(S) /\ Len(r) = n - 1 /\ DOMAIN r = 1 .. n - 1
    BY <2>2, <2>3, <2>4
  <2>6. QED
    BY <2>1, <2>3, <2>5
<1> HIDE DEF r
<1>2. \A x : Listed(q, x) <=> Listed(r, x) \/ x = Top(q)
  <2>1. \A i \in DOMAIN q : i \in DOMAIN r \/ i = n
    BY <1>1
  <2>2. n \in DOMAIN q /\ \A i \in DOMAIN r : i \in DOMAIN q
    BY <1>1
  <2>3. QED
    BY <1>1, <2>1, <2>2 DEF Listed
<1>3. ~Listed(r, Top(q))
  <2>1. ASSUME NEW i \in DOMAIN r, r[i] = Top(q) PROVE FALSE
    <3>1. i \in DOMAIN q /\ n \in DOMAIN q /\ i # n /\ q[i] = q[n]
      BY <1>1, <2>1
    <3>2. QED
      BY <3>1 DEF IsList
  <2>2. QED
    BY <2>1 DEF Listed
<1>4. f[Top(q)] = Top(r)
  <2>1. n \in DOMAIN q
    BY <1>1
  <2>2. f[q[n]] = IF n = 1 THEN NoRef ELSE q[n - 1]
    BY <2>1 DEF IsList
  <2>3. CASE n = 1
    <3>1. r = <<>>
      BY <1>1, <2>3
    <3>2. QED
      BY <1>1, <2>2, <2>3, <3>1 DEF Top
  <2>4. CASE n # 1
    <3>1. n - 1 \in 1 .. n - 1 /\ r # <<>>
      BY <1>1, <2>4
    <3>2. QED
      BY <1>1, <2>2, <2>4, <3>1 DEF Top
  <2>5. QED
    BY <2>3, <2>4
<1>5. ASSUME NEW i \in DOMAIN r PROVE f[r[i]] = IF i = 1 THEN NoRef ELSE r[i - 1]
  <2>1. i \in DOMAIN q /\ r[i] = q[i] /\ (i # 1 => i - 1 \in 1 .. n - 1)
    BY <1>1
  <2>2. f[q[i]] = IF i = 1 THEN NoRef ELSE q[i - 1]
    BY <2>1 DEF IsList
  <2>3. QED
    BY <1>1, <2>1, <2>2
<1>6. ASSUME NEW i \in DOMAIN r, NEW j \in DOMAIN r, r[i] = r[j] PROVE i = j
  <2>1. i \in DOMAIN q /\ j \in DOMAIN q /\ q[i] = q[j]
    BY <1>1, <1>6
  <2>2. QED
    BY <2>1 DEF IsList
<1>7. IsList(r, f[Top(q)], f)
  BY <1>4, <1>5, <1>6 DEF IsList
<1>8. QED
  BY <1>1, <1>2, <1>3, <1>4, <1>7 DEF r

\* A step that leaves the lists of resolved ephemerons alone.
ListsStay(q, t) ==
  /\ link'[Resolved] = link[Resolved]
  /\ \A e \in Ephemerons : Listed(q, e) \/ Listed(t, e) =>
       /\ link'[ResolvedLink(e)] = link[ResolvedLink(e)]
       /\ state'[e] = "resolved" /\ ~HasOp({"setTraced"} \cup Pushes, e)'
  /\ \A e \in Ephemerons : state'[e] = "resolved" =>
       Listed(q, e) \/ Listed(t, e) \/ HasOp({"setTraced"} \cup Pushes, e)'
  /\ \A x \in Ops' : x.op = "nextResolved" =>
       /\ x \in Ops /\ link'[ResolvedLink(x.obj)] = link[ResolvedLink(x.obj)]
       /\ state'[x.obj] = "traced" \/ HasOp({"setTraced"}, x.obj)'
  /\ \A x \in Ops : x.op = "nextResolved" => x \in Ops'
  /\ Once({x \in OpSet : x.op = "nextResolved"})'

LEMMA ResolvedKept ==
  ASSUME WeakTypes, NEW q \in Seq(Ephemerons), NEW t \in Seq(Ephemerons), ResolvedIn(q, t),
         ListsStay(q, t),
         \/ rootList' = rootList
         \/ /\ \A r \in rootList' : r.kind # "resolved"
            /\ \A r \in rootList : r.kind # "resolved"
  PROVE  ResolvedIn(q, t)'
<1>1. /\ link[Resolved] = Top(q) /\ IsList(q, link[Resolved], ResolvedNext)
      /\ IsList(t, Top(t), ResolvedNext)
  BY DEF ResolvedIn, IsList
<1>2. \A e : Listed(q, e) \/ Listed(t, e) => e \in Ephemerons
  BY TopIn
<1>3. \A e : Listed(q, e) \/ Listed(t, e) => ResolvedNext'[e] = ResolvedNext[e]
  BY <1>2 DEF ListsStay, ResolvedNext
<1>4. IsList(q, link[Resolved], ResolvedNext)' /\ IsList(t, Top(t), ResolvedNext)'
  <2>1. \A f : f = ResolvedNext' => IsList(q, link[Resolved], f) /\ IsList(t, Top(t), f)
    BY <1>1, <1>3, ListKept
  <2>2. link'[Resolved] = link[Resolved]
    BY DEF ListsStay
  <2>3. QED
    BY <2>1, <2>2 DEF IsList, Top
<1>5. /\ \A e \in Ephemerons : ~(Listed(q, e) /\ Listed(t, e))
      /\ \A r \in rootList : r.kind = "resolved" =>
           t # <<>> /\ r.obj = Top(t) /\ rootList = {r} /\ \A x \in Ops : x.op # "nextResolved"
      /\ \A x \in Ops : x.op = "nextResolved" => link[ResolvedLink(x.obj)] = Top(t)
      /\ t # <<>> => (\E r \in rootList : r.kind = "resolved") \/ \E x \in Ops : x.op = "nextResolved"
  BY DEF ResolvedIn
<1>6. (\A e \in Ephemerons : ~(Listed(q, e) /\ Listed(t, e)))'
  BY <1>5 DEF Listed
<1>7. (\A e \in Ephemerons : Listed(q, e) \/ Listed(t, e) =>
         state[e] = "resolved" /\ ~HasOp({"setTraced"} \cup Pushes, e))'
  BY DEF ListsStay, Listed
<1>8. (\A e \in Ephemerons : state[e] = "resolved" =>
         Listed(q, e) \/ Listed(t, e) \/ HasOp({"setTraced"} \cup Pushes, e))'
  BY DEF ListsStay, Listed
<1>9. (\A r \in rootList : r.kind = "resolved" =>
         t # <<>> /\ r.obj = Top(t) /\ rootList = {r} /\ \A x \in Ops : x.op # "nextResolved")'
  BY <1>5 DEF ListsStay, Top
<1>10. (\A x \in Ops : x.op = "nextResolved" =>
         link[ResolvedLink(x.obj)] = Top(t) /\ (state[x.obj] = "traced" \/ HasOp({"setTraced"}, x.obj)))'
  BY <1>5 DEF ListsStay, Top
<1>11. (t # <<>> => (\E r \in rootList : r.kind = "resolved") \/ \E x \in Ops : x.op = "nextResolved")'
  BY <1>5 DEF ListsStay
<1>12. Once({x \in OpSet : x.op = "nextResolved"})'
  BY DEF ListsStay
<1>13. QED
  BY <1>4, <1>6, <1>7, <1>8, <1>9, <1>10, <1>11, <1>12 DEF ResolvedIn

\* Nothing else touches what has been resolved.
LEMMA ListsKept ==
  ASSUME WeakTypes, Phases, Tracing, TraceInv, NEW w \in Workers, 
         \/ PushLoad(w) \/ PushSwap(w) \/ FollowLoad(w) \/ FollowSkip(w) \/ FollowSwap(w) \/ Resolve(w)
         \/ VisitEdge(w) \/ EnqueueObject(w) \/ TraceObject(w) \/ LookAtKey(w) \/ FinishTraced(w)
         \/ AddPending(w) \/ LookAgain(w),
         NEW q \in Seq(Ephemerons), NEW t \in Seq(Ephemerons), ResolvedIn(q, t), link'[Resolved] = link[Resolved]
  PROVE  ListsStay(q, t)
<1>s. state \in [Ephemerons -> {"traced", "claimed", "pending", "resolved"}]
  BY DEF WeakTypes
<1>0. /\ Pushed /\ Claimed /\ QueuedOnce /\ key' = key
  BY TraceFrame DEF TraceStep, TraceInv, Claimed
<1>b. link \in [Cells -> Ephs] /\ \A e \in Ephemerons : ResolvedLink(e) \in Cells
  BY CellsApart DEF WeakTypes
<1>l. \A e \in Ephemerons : Listed(q, e) \/ Listed(t, e) => state[e] = "resolved" /\ ~HasOp({"setTraced"} \cup Pushes, e)
  BY DEF ResolvedIn
<1>m. \A e \in Ephemerons : Listed(q, e) \/ Listed(t, e) => ~HasOp(Pushes, e)
  BY <1>l, Unclaimed, <1>0
<1>r. \A e \in Ephemerons : state[e] = "resolved" =>
        Listed(q, e) \/ Listed(t, e) \/ HasOp({"setTraced"} \cup Pushes, e)
  BY DEF ResolvedIn
<1>n. \A x \in Ops : x.op = "nextResolved" =>
        /\ x.obj \in Ephemerons /\ HasOp({"nextResolved"}, x.obj)
        /\ state[x.obj] = "traced" \/ HasOp({"setTraced"}, x.obj)
  BY OpsIn, OpKinds DEF ResolvedIn, Traces, HasOp
<1>o. Once({x \in OpSet : x.op = "nextResolved"})
  BY DEF ResolvedIn
<1>c. /\ \A e \in Ephemerons : HasOp({"setTraced"}, e) => state[e] \in {"claimed", "resolved"}
      /\ \A e \in Ephemerons : HasOp({"visitKey", "publish"}, e) => state[e] = "claimed"
      /\ \A e \in Ephemerons : Once(Of(Claims, e))
  BY <1>0 DEF Claimed
<1>1. CASE PushLoad(w)
  <2>1. PushLoadMoves(w)
    BY <1>1, PushLoadOps
  <2>2. markedObjects' = markedObjects /\ greyObjects' = greyObjects /\ state' = state /\ rootList' = rootList
    BY <1>1 DEF PushLoad
  <2>3. PushLoadGains(w)
    BY <2>1, PushLoadGained
  <2>4. \A e \in Ephemerons : Listed(q, e) \/ Listed(t, e) => link'[ResolvedLink(e)] = link[ResolvedLink(e)]
    <3>0. PICK x : x = Op(w)
      OBVIOUS
    <3>1. x.obj \in Ephemerons /\ HasOp(Pushes, x.obj)
      BY <2>1, <2>3, <3>0 DEF PushLoadMoves, PushLoadGains, Pushes
    <3>2. \A e \in Ephemerons : e # x.obj => LinkOf(x.cell, x.obj) # ResolvedLink(e)
      BY <3>1, CellsApart DEF LinkOf
    <3>3. \A e \in Ephemerons : e # x.obj => link'[ResolvedLink(e)] = link[ResolvedLink(e)]
      BY <1>b, <2>1, <3>0, <3>2 DEF PushLoadMoves
    <3>4. QED
      BY <1>m, <3>1, <3>3
  <2>5. \A e \in Ephemerons : Listed(q, e) \/ Listed(t, e) =>
         state'[e] = "resolved" /\ ~HasOp({"setTraced"} \cup Pushes, e)'
    BY <1>l, <1>s, <2>1, <2>2, <2>3 DEF PushLoadMoves, PushLoadGains, Pushes
  <2>6. \A e \in Ephemerons : state'[e] = "resolved" =>
         Listed(q, e) \/ Listed(t, e) \/ HasOp({"setTraced"} \cup Pushes, e)'
    <3>1. \A e : HasOp({"setTraced"} \cup Pushes, e) => HasOp({"setTraced"} \cup Pushes, e)'
      BY <2>1 DEF PushLoadMoves, Becomes, PushCas, Pushes
    <3>2. QED
      BY <1>r, <2>2, <3>1
  <2>7. \A x \in Ops' : x.op = "nextResolved" => x \in Ops
    BY <2>1, <2>2 DEF PushLoadMoves, Becomes, PushCas
  <2>8. \A x \in Ops : x.op = "nextResolved" => x \in Ops'
    BY <2>1, <2>2 DEF PushLoadMoves, Becomes, PushCas
  <2>9. \A x \in Ops : x.op = "nextResolved" =>
         /\ link'[ResolvedLink(x.obj)] = link[ResolvedLink(x.obj)]
         /\ state'[x.obj] = "traced" \/ HasOp({"setTraced"}, x.obj)'
    <3>0. PICK x : x = Op(w)
      OBVIOUS
    <3>1. x.obj \in Ephemerons /\ x.op \in Pushes /\ x \in Ops
      BY <2>1, <3>0 DEF PushLoadMoves, Pushes
    <3>2. \A e \in Ephemerons : e # x.obj \/ x.cell # Resolved => LinkOf(x.cell, x.obj) # ResolvedLink(e)
      BY <3>1, CellsApart DEF LinkOf
    <3>3. \A e \in Ephemerons : e # x.obj \/ x.cell # Resolved => link'[ResolvedLink(e)] = link[ResolvedLink(e)]
      BY <1>b, <2>1, <3>0, <3>2 DEF PushLoadMoves
    <3>4. x.cell = Resolved => ~HasOp({"setTraced"}, x.obj) /\ state[x.obj] = "resolved"
      BY <1>0, <3>1, KeyTypes, CellsApart DEF Pushed, BucketFor
    <3>5. \A y \in Ops : y.op = "nextResolved" => link'[ResolvedLink(y.obj)] = link[ResolvedLink(y.obj)]
      BY <1>n, <3>3, <3>4
    <3>6. \A e : HasOp({"setTraced"}, e) => HasOp({"setTraced"}, e)'
      BY <2>1, <2>3 DEF PushLoadGains, PushLoadMoves
    <3>7. QED
      BY <1>n, <2>2, <3>5, <3>6
  <2>10. Once({x \in OpSet : x.op = "nextResolved"})'
    BY <1>o, <2>1, <2>2 DEF PushLoadMoves, Becomes, PushCas
  <2>11. QED
    BY <2>4, <2>5, <2>6, <2>7, <2>8, <2>9, <2>10 DEF ListsStay
<1>2. CASE PushSwap(w)
  <2>1. PushSwapMoves(w)
    BY <1>2, PushSwapOps
  <2>2. markedObjects' = markedObjects /\ greyObjects' = greyObjects /\ state' = state /\ rootList' = rootList
    BY <1>2 DEF PushSwap
  <2>3. PushSwapGains(w)
    BY <2>1, PushSwapGained
  <2>4. \A e \in Ephemerons : Listed(q, e) \/ Listed(t, e) => link'[ResolvedLink(e)] = link[ResolvedLink(e)]
    <3>1. Op(w).cell = Resolved \/ \E b \in Buckets : Op(w).cell = Bucket(b)
      BY <1>0, <2>1, KeyTypes DEF PushSwapMoves, Pushed, BucketFor, Pushes
    <3>2. \A e \in Ephemerons : ResolvedLink(e) # Op(w).cell
      BY <3>1, CellsApart
    <3>3. QED
      BY <1>b, <2>1, <3>2 DEF PushSwapMoves
  <2>5. \A e \in Ephemerons : Listed(q, e) \/ Listed(t, e) =>
         state'[e] = "resolved" /\ ~HasOp({"setTraced"} \cup Pushes, e)'
    BY <1>l, <1>s, <2>1, <2>2, <2>3 DEF PushSwapMoves, PushSwapGains, Pushes
  <2>6. \A e \in Ephemerons : state'[e] = "resolved" =>
         Listed(q, e) \/ Listed(t, e) \/ HasOp({"setTraced"} \cup Pushes, e)'
    <3>0. PICK x : x = Op(w)
      OBVIOUS
    <3>1. x.obj \in Ephemerons /\ x.op \in Pushes /\ HasOp(Pushes, x.obj) /\ x \in Ops /\ x.cell \in Cells
      BY <2>1, <2>3, <3>0 DEF PushSwapMoves, PushSwapGains, Pushes
    <3>2. CASE x.cell # Resolved
      <4>1. state[x.obj] = "pending"
        BY <1>0, <3>1, <3>2 DEF Pushed
      <4>2. QED
        BY <1>r, <2>2, <2>3, <3>0, <4>1 DEF PushSwapGains
    <3>3. CASE x.cell = Resolved /\ link[x.cell] = x.tail
      <4>1. link'[Resolved] = x.obj
        BY <1>b, <1>2, <3>0, <3>1, <3>3 DEF PushSwap
      <4>2. Listed(q, x.obj)
        <5>1. Top(q) = x.obj /\ x.obj # NoRef
          BY <3>1, <4>1, ShapeTypes DEF ResolvedIn, IsList, Objects
        <5>2. QED
          BY <5>1, TopIn
      <4>3. QED
        BY <1>m, <3>1, <4>2
    <3>4. CASE x.cell = Resolved /\ link[x.cell] # x.tail
      <4>1. Becomes({x}, {Push(x.cell, x.obj)})
        BY <2>1, <3>0, <3>4 DEF PushSwapMoves
      <4>2. \A e : HasOp({"setTraced"} \cup Pushes, e) => HasOp({"setTraced"} \cup Pushes, e)'
        BY <4>1 DEF Becomes, Push, Pushes
      <4>3. QED
        BY <1>r, <2>2, <4>2
    <3>5. QED
      BY <3>2, <3>3, <3>4
  <2>7. \A x \in Ops' : x.op = "nextResolved" => x \in Ops
    BY <2>1, <2>2 DEF PushSwapMoves, Becomes, Push
  <2>8. \A x \in Ops : x.op = "nextResolved" => x \in Ops'
    BY <2>1, <2>2 DEF PushSwapMoves, Becomes, Push
  <2>9. \A x \in Ops : x.op = "nextResolved" =>
         /\ link'[ResolvedLink(x.obj)] = link[ResolvedLink(x.obj)]
         /\ state'[x.obj] = "traced" \/ HasOp({"setTraced"}, x.obj)'
    <3>1. Op(w).cell = Resolved \/ \E b \in Buckets : Op(w).cell = Bucket(b)
      BY <1>0, <2>1, KeyTypes DEF PushSwapMoves, Pushed, BucketFor, Pushes
    <3>2. \A e \in Ephemerons : ResolvedLink(e) # Op(w).cell
      BY <3>1, CellsApart
    <3>3. \A e \in Ephemerons : link'[ResolvedLink(e)] = link[ResolvedLink(e)]
      BY <1>b, <2>1, <3>2 DEF PushSwapMoves
    <3>4. QED
      BY <1>n, <2>1, <2>2, <2>3, <3>3 DEF PushSwapMoves, PushSwapGains
  <2>10. Once({x \in OpSet : x.op = "nextResolved"})'
    BY <1>o, <2>1, <2>2 DEF PushSwapMoves, Becomes, Push
  <2>11. QED
    BY <2>4, <2>5, <2>6, <2>7, <2>8, <2>9, <2>10 DEF ListsStay
<1>3. CASE FollowLoad(w)
  <2>1. FollowLoadMoves(w)
    BY <1>3, FollowLoadOps
  <2>2. markedObjects' = markedObjects /\ greyObjects' = greyObjects /\ state' = state /\ link' = link /\ rootList' = rootList
    BY <1>3 DEF FollowLoad
  <2>3. FollowLoadGains(w)
    BY <2>1, FollowLoadGained
  <2>4. \A e \in Ephemerons : Listed(q, e) \/ Listed(t, e) => link'[ResolvedLink(e)] = link[ResolvedLink(e)]
    BY <2>2
  <2>5. \A e \in Ephemerons : Listed(q, e) \/ Listed(t, e) =>
         state'[e] = "resolved" /\ ~HasOp({"setTraced"} \cup Pushes, e)'
    BY <1>l, <1>s, <2>1, <2>2, <2>3 DEF FollowLoadMoves, FollowLoadGains, Pushes
  <2>6. \A e \in Ephemerons : state'[e] = "resolved" =>
         Listed(q, e) \/ Listed(t, e) \/ HasOp({"setTraced"} \cup Pushes, e)'
    BY <1>r, <1>s, <2>1, <2>2, <2>3 DEF FollowLoadMoves, FollowLoadGains, Pushes
  <2>7. \A x \in Ops' : x.op = "nextResolved" => x \in Ops
    BY <2>1, <2>2 DEF FollowLoadMoves, Becomes, Skip
  <2>8. \A x \in Ops : x.op = "nextResolved" => x \in Ops'
    BY <2>1, <2>2 DEF FollowLoadMoves, Becomes, Skip
  <2>9. \A x \in Ops : x.op = "nextResolved" =>
         /\ link'[ResolvedLink(x.obj)] = link[ResolvedLink(x.obj)]
         /\ state'[x.obj] = "traced" \/ HasOp({"setTraced"}, x.obj)'
    BY <1>n, <1>s, <2>1, <2>2, <2>3 DEF FollowLoadMoves, FollowLoadGains
  <2>10. Once({x \in OpSet : x.op = "nextResolved"})'
    BY <1>o, <2>1, <2>2 DEF FollowLoadMoves, Becomes, Skip
  <2>11. QED
    BY <2>4, <2>5, <2>6, <2>7, <2>8, <2>9, <2>10 DEF ListsStay
<1>4. CASE FollowSkip(w)
  <2>1. FollowSkipMoves(w)
    BY <1>4, FollowSkipOps
  <2>2. markedObjects' = markedObjects /\ greyObjects' = greyObjects /\ state' = state /\ link' = link /\ rootList' = rootList
    BY <1>4 DEF FollowSkip
  <2>3. FollowSkipGains(w)
    BY <2>1, FollowSkipGained
  <2>4. \A e \in Ephemerons : Listed(q, e) \/ Listed(t, e) => link'[ResolvedLink(e)] = link[ResolvedLink(e)]
    BY <2>2
  <2>5. \A e \in Ephemerons : Listed(q, e) \/ Listed(t, e) =>
         state'[e] = "resolved" /\ ~HasOp({"setTraced"} \cup Pushes, e)'
    BY <1>l, <1>s, <2>1, <2>2, <2>3 DEF FollowSkipMoves, FollowSkipGains, Pushes
  <2>6. \A e \in Ephemerons : state'[e] = "resolved" =>
         Listed(q, e) \/ Listed(t, e) \/ HasOp({"setTraced"} \cup Pushes, e)'
    BY <1>r, <1>s, <2>1, <2>2, <2>3 DEF FollowSkipMoves, FollowSkipGains, Pushes
  <2>7. \A x \in Ops' : x.op = "nextResolved" => x \in Ops
    BY <2>1, <2>2 DEF FollowSkipMoves, Becomes, AfterOps, Skip, FollowCas, Follow, TryResolve
  <2>8. \A x \in Ops : x.op = "nextResolved" => x \in Ops'
    BY <2>1, <2>2 DEF FollowSkipMoves, Becomes, AfterOps, Skip, FollowCas, Follow, TryResolve
  <2>9. \A x \in Ops : x.op = "nextResolved" =>
         /\ link'[ResolvedLink(x.obj)] = link[ResolvedLink(x.obj)]
         /\ state'[x.obj] = "traced" \/ HasOp({"setTraced"}, x.obj)'
    BY <1>n, <1>s, <2>1, <2>2, <2>3 DEF FollowSkipMoves, FollowSkipGains
  <2>10. Once({x \in OpSet : x.op = "nextResolved"})'
    BY <1>o, <2>1, <2>2 DEF FollowSkipMoves, Becomes, AfterOps, Skip, FollowCas, Follow, TryResolve
  <2>11. QED
    BY <2>4, <2>5, <2>6, <2>7, <2>8, <2>9, <2>10 DEF ListsStay
<1>5. CASE FollowSwap(w)
  <2>1. FollowSwapMoves(w)
    BY <1>5, FollowSwapOps
  <2>2. markedObjects' = markedObjects /\ greyObjects' = greyObjects /\ state' = state /\ rootList' = rootList
    BY <1>5 DEF FollowSwap
  <2>3. FollowSwapGains(w)
    BY <2>1, FollowSwapGained
  <2>4. \A e \in Ephemerons : Listed(q, e) \/ Listed(t, e) => link'[ResolvedLink(e)] = link[ResolvedLink(e)]
    <3>1. \A e \in Ephemerons : link'[ResolvedLink(e)] = link[ResolvedLink(e)]
      <4>0. PICK x : x = Op(w)
        OBVIOUS
      <4>1. PICK r \in [Ephemerons -> Nat], n \in Nat : RankedBy(r, n)
        BY DEF TraceInv
      <4>2. x \in Ops /\ x.op \in Walks /\ BucketOf(x.obj) \in Buckets
        BY <2>1, <4>0, WeakAssumption DEF FollowSwapMoves, Walks
      <4>3. IsCell(r, Bucket(BucketOf(x.obj)), x.cell)
        BY <4>1, <4>2 DEF RankedBy, Links, WalkOk
      <4>4. \A e \in Ephemerons : ResolvedLink(e) # x.cell
        BY <4>2, <4>3, CellsApart DEF IsCell
      <4>5. QED
        BY <1>b, <2>1, <4>0, <4>4 DEF FollowSwapMoves
    <3>2. QED
      BY <3>1
  <2>5. \A e \in Ephemerons : Listed(q, e) \/ Listed(t, e) =>
         state'[e] = "resolved" /\ ~HasOp({"setTraced"} \cup Pushes, e)'
    BY <1>l, <1>s, <2>1, <2>2, <2>3 DEF FollowSwapMoves, FollowSwapGains, Pushes
  <2>6. \A e \in Ephemerons : state'[e] = "resolved" =>
         Listed(q, e) \/ Listed(t, e) \/ HasOp({"setTraced"} \cup Pushes, e)'
    BY <1>r, <1>s, <2>1, <2>2, <2>3 DEF FollowSwapMoves, FollowSwapGains, Pushes
  <2>7. \A x \in Ops' : x.op = "nextResolved" => x \in Ops
    <3>1. PICK N : Becomes({Op(w)}, N) /\ \A y \in N : y.op \in {"skip", "follow", "tryResolve"}
      BY <2>1, SwapBecomes
    <3>2. QED
      BY <3>1 DEF Becomes
  <2>8. \A x \in Ops : x.op = "nextResolved" => x \in Ops'
    BY <2>1, SwapBecomes DEF Becomes
  <2>9. \A x \in Ops : x.op = "nextResolved" =>
         /\ link'[ResolvedLink(x.obj)] = link[ResolvedLink(x.obj)]
         /\ state'[x.obj] = "traced" \/ HasOp({"setTraced"}, x.obj)'
    <3>1. \A e \in Ephemerons : link'[ResolvedLink(e)] = link[ResolvedLink(e)]
      <4>0. PICK x : x = Op(w)
        OBVIOUS
      <4>1. PICK r \in [Ephemerons -> Nat], n \in Nat : RankedBy(r, n)
        BY DEF TraceInv
      <4>2. x \in Ops /\ x.op \in Walks /\ BucketOf(x.obj) \in Buckets
        BY <2>1, <4>0, WeakAssumption DEF FollowSwapMoves, Walks
      <4>3. IsCell(r, Bucket(BucketOf(x.obj)), x.cell)
        BY <4>1, <4>2 DEF RankedBy, Links, WalkOk
      <4>4. \A e \in Ephemerons : ResolvedLink(e) # x.cell
        BY <4>2, <4>3, CellsApart DEF IsCell
      <4>5. QED
        BY <1>b, <2>1, <4>0, <4>4 DEF FollowSwapMoves
    <3>2. QED
      BY <1>n, <2>1, <2>2, <2>3, <3>1 DEF FollowSwapMoves, FollowSwapGains
  <2>10. Once({x \in OpSet : x.op = "nextResolved"})'
    <3>1. PICK N : Becomes({Op(w)}, N) /\ \A y \in N : y.op \in {"skip", "follow", "tryResolve"}
      BY <2>1, SwapBecomes
    <3>2. QED
      BY <1>o, <3>1 DEF Becomes
  <2>11. QED
    BY <2>4, <2>5, <2>6, <2>7, <2>8, <2>9, <2>10 DEF ListsStay
<1>6. CASE Resolve(w)
  <2>1. ResolveMoves(w)
    BY <1>6, ResolveOps
  <2>2. markedObjects' = markedObjects /\ greyObjects' = greyObjects /\ link' = link /\ rootList' = rootList
    BY <1>6 DEF Resolve
  <2>3. ResolveGains(w)
    BY <2>1, ResolveGained
  <2>4. \A e \in Ephemerons : Listed(q, e) \/ Listed(t, e) => link'[ResolvedLink(e)] = link[ResolvedLink(e)]
    BY <2>2
  <2>5. \A e \in Ephemerons : Listed(q, e) \/ Listed(t, e) =>
         state'[e] = "resolved" /\ ~HasOp({"setTraced"} \cup Pushes, e)'
    BY <1>l, <1>s, <2>1, <2>2, <2>3 DEF ResolveMoves, ResolveGains, Pushes
  <2>6. \A e \in Ephemerons : state'[e] = "resolved" =>
         Listed(q, e) \/ Listed(t, e) \/ HasOp({"setTraced"} \cup Pushes, e)'
    <3>0. PICK x : x = Op(w)
      OBVIOUS
    <3>1. CASE state[x.obj] = "pending"
      <4>1. Becomes({x}, {Push(Resolved, x.obj)}) /\ state' = [state EXCEPT ![x.obj] = "resolved"]
        BY <2>1, <3>0, <3>1 DEF ResolveMoves
      <4>2. HasOp({"setTraced"} \cup Pushes, x.obj)'
        <5>1. Push(Resolved, x.obj).op \in {"setTraced"} \cup Pushes /\ Push(Resolved, x.obj).obj = x.obj
          BY DEF Push, Pushes
        <5>2. QED
          BY <4>1, <5>1, NowHas
      <4>3. \A e : HasOp({"setTraced"} \cup Pushes, e) => HasOp({"setTraced"} \cup Pushes, e)'
        BY <2>1, <2>3 DEF ResolveMoves, ResolveGains, Pushes
      <4>4. QED
        BY <1>r, <1>s, <4>1, <4>2, <4>3
    <3>2. CASE state[x.obj] # "pending"
      <4>1. state' = state
        BY <2>1, <3>0, <3>2 DEF ResolveMoves
      <4>2. \A e : HasOp({"setTraced"} \cup Pushes, e) => HasOp({"setTraced"} \cup Pushes, e)'
        BY <2>1, <2>3 DEF ResolveMoves, ResolveGains, Pushes
      <4>3. QED
        BY <1>r, <4>1, <4>2
    <3>3. QED
      BY <3>1, <3>2
  <2>7. \A x \in Ops' : x.op = "nextResolved" => x \in Ops
    BY <2>1, <2>2 DEF ResolveMoves, Becomes, Push
  <2>8. \A x \in Ops : x.op = "nextResolved" => x \in Ops'
    BY <2>1, <2>2 DEF ResolveMoves, Becomes, Push
  <2>9. \A x \in Ops : x.op = "nextResolved" =>
         /\ link'[ResolvedLink(x.obj)] = link[ResolvedLink(x.obj)]
         /\ state'[x.obj] = "traced" \/ HasOp({"setTraced"}, x.obj)'
    BY <1>n, <1>s, <2>1, <2>2, <2>3 DEF ResolveMoves, ResolveGains
  <2>10. Once({x \in OpSet : x.op = "nextResolved"})'
    BY <1>o, <2>1, <2>2 DEF ResolveMoves, Becomes, Push
  <2>11. QED
    BY <2>4, <2>5, <2>6, <2>7, <2>8, <2>9, <2>10 DEF ListsStay
<1>7. CASE VisitEdge(w)
  <2>1. VisitEdgeMoves(w)
    BY <1>7, VisitEdgeOps
  <2>2. greyObjects' = greyObjects /\ state' = state /\ link' = link /\ rootList' = rootList
    BY <1>7 DEF VisitEdge
  <2>3. VisitEdgeGains(w)
    BY <2>1, VisitEdgeGained
  <2>4. \A e \in Ephemerons : Listed(q, e) \/ Listed(t, e) => link'[ResolvedLink(e)] = link[ResolvedLink(e)]
    BY <2>2
  <2>5. \A e \in Ephemerons : Listed(q, e) \/ Listed(t, e) =>
         state'[e] = "resolved" /\ ~HasOp({"setTraced"} \cup Pushes, e)'
    BY <1>l, <1>s, <2>1, <2>2, <2>3 DEF VisitEdgeMoves, VisitEdgeGains, Pushes
  <2>6. \A e \in Ephemerons : state'[e] = "resolved" =>
         Listed(q, e) \/ Listed(t, e) \/ HasOp({"setTraced"} \cup Pushes, e)'
    BY <1>r, <1>s, <2>1, <2>2, <2>3 DEF VisitEdgeMoves, VisitEdgeGains, Pushes
  <2>7. \A x \in Ops' : x.op = "nextResolved" => x \in Ops
    BY <2>1, <2>2 DEF VisitEdgeMoves, Becomes, Follow, Enqueue
  <2>8. \A x \in Ops : x.op = "nextResolved" => x \in Ops'
    BY <2>1, <2>2 DEF VisitEdgeMoves, Becomes, Follow, Enqueue
  <2>9. \A x \in Ops : x.op = "nextResolved" =>
         /\ link'[ResolvedLink(x.obj)] = link[ResolvedLink(x.obj)]
         /\ state'[x.obj] = "traced" \/ HasOp({"setTraced"}, x.obj)'
    BY <1>n, <1>s, <2>1, <2>2, <2>3 DEF VisitEdgeMoves, VisitEdgeGains
  <2>10. Once({x \in OpSet : x.op = "nextResolved"})'
    BY <1>o, <2>1, <2>2 DEF VisitEdgeMoves, Becomes, Follow, Enqueue
  <2>11. QED
    BY <2>4, <2>5, <2>6, <2>7, <2>8, <2>9, <2>10 DEF ListsStay
<1>8. CASE EnqueueObject(w)
  <2>1. EnqueueMoves(w)
    BY <1>8, EnqueueOps
  <2>2. markedObjects' = markedObjects /\ state' = state /\ link' = link /\ rootList' = rootList
    BY <1>8 DEF EnqueueObject
  <2>3. EnqueueGains(w)
    BY <2>1, EnqueueGained
  <2>4. \A e \in Ephemerons : Listed(q, e) \/ Listed(t, e) => link'[ResolvedLink(e)] = link[ResolvedLink(e)]
    BY <2>2
  <2>5. \A e \in Ephemerons : Listed(q, e) \/ Listed(t, e) =>
         state'[e] = "resolved" /\ ~HasOp({"setTraced"} \cup Pushes, e)'
    BY <1>l, <1>s, <2>1, <2>2, <2>3 DEF EnqueueMoves, EnqueueGains, Pushes
  <2>6. \A e \in Ephemerons : state'[e] = "resolved" =>
         Listed(q, e) \/ Listed(t, e) \/ HasOp({"setTraced"} \cup Pushes, e)'
    BY <1>r, <1>s, <2>1, <2>2, <2>3 DEF EnqueueMoves, EnqueueGains, Pushes
  <2>7. \A x \in Ops' : x.op = "nextResolved" => x \in Ops
    BY <2>1, <2>2 DEF EnqueueMoves, Becomes
  <2>8. \A x \in Ops : x.op = "nextResolved" => x \in Ops'
    BY <2>1, <2>2 DEF EnqueueMoves, Becomes
  <2>9. \A x \in Ops : x.op = "nextResolved" =>
         /\ link'[ResolvedLink(x.obj)] = link[ResolvedLink(x.obj)]
         /\ state'[x.obj] = "traced" \/ HasOp({"setTraced"}, x.obj)'
    BY <1>n, <1>s, <2>1, <2>2, <2>3 DEF EnqueueMoves, EnqueueGains
  <2>10. Once({x \in OpSet : x.op = "nextResolved"})'
    BY <1>o, <2>1, <2>2 DEF EnqueueMoves, Becomes
  <2>11. QED
    BY <2>4, <2>5, <2>6, <2>7, <2>8, <2>9, <2>10 DEF ListsStay
<1>9. CASE TraceObject(w)
  <2>1. PICK o \in greyObjects : TraceObjectMoves(o)
    BY <1>9, TraceObjectOps
  <2>2. markedObjects' = markedObjects /\ link' = link /\ rootList' = rootList
    BY <1>9 DEF TraceObject
  <2>3. TraceObjectGains(o)
    BY <2>1, TraceObjectGained
  <2>4. o \in Ephemerons => state[o] = "traced" /\ ~HasOp({"nextResolved"}, o) /\ ~HasOp({"setTraced"}, o)
    BY <1>0, <2>1, Idle DEF TraceObjectMoves
  <2>5. state'[o] # state[o] => o \in Ephemerons
    BY <2>1 DEF TraceObjectMoves
  <2>6. \A e \in Ephemerons : Listed(q, e) \/ Listed(t, e) => link'[ResolvedLink(e)] = link[ResolvedLink(e)]
    BY <2>2
  <2>7. \A e \in Ephemerons : Listed(q, e) \/ Listed(t, e) =>
         state'[e] = "resolved" /\ ~HasOp({"setTraced"} \cup Pushes, e)'
    BY <1>l, <1>s, <2>1, <2>2, <2>3, <2>4, <2>5 DEF TraceObjectMoves, TraceObjectGains, Pushes
  <2>8. \A e \in Ephemerons : state'[e] = "resolved" =>
         Listed(q, e) \/ Listed(t, e) \/ HasOp({"setTraced"} \cup Pushes, e)'
    BY <1>r, <1>s, <2>1, <2>2, <2>3, <2>4, <2>5 DEF TraceObjectMoves, TraceObjectGains, Pushes
  <2>9. \A x \in Ops' : x.op = "nextResolved" => x \in Ops
    BY <2>1, <2>2, <2>4, <2>5 DEF TraceObjectMoves, Becomes, VisitObject, VisitKey
  <2>10. \A x \in Ops : x.op = "nextResolved" => x \in Ops'
    BY <2>1, <2>2, <2>4, <2>5 DEF TraceObjectMoves, Becomes, VisitObject, VisitKey
  <2>11. \A x \in Ops : x.op = "nextResolved" =>
         /\ link'[ResolvedLink(x.obj)] = link[ResolvedLink(x.obj)]
         /\ state'[x.obj] = "traced" \/ HasOp({"setTraced"}, x.obj)'
    BY <1>n, <1>s, <2>1, <2>2, <2>3, <2>4, <2>5 DEF TraceObjectMoves, TraceObjectGains
  <2>12. Once({x \in OpSet : x.op = "nextResolved"})'
    BY <1>o, <2>1, <2>2, <2>4, <2>5 DEF TraceObjectMoves, Becomes, VisitObject, VisitKey
  <2>13. QED
    BY <2>6, <2>7, <2>8, <2>9, <2>10, <2>11, <2>12 DEF ListsStay
<1>10. CASE LookAtKey(w)
  <2>1. LookAtKeyMoves(w)
    BY <1>10, LookAtKeyOps
  <2>2. markedObjects' = markedObjects /\ greyObjects' = greyObjects /\ state' = state /\ link' = link /\ rootList' = rootList
    BY <1>10 DEF LookAtKey
  <2>3. LookAtKeyGains(w)
    BY <2>1, LookAtKeyGained
  <2>4. state[Op(w).obj] = "claimed"
    BY <1>c, <2>1, <2>3 DEF LookAtKeyMoves, LookAtKeyGains
  <2>5. \A e \in Ephemerons : Listed(q, e) \/ Listed(t, e) => link'[ResolvedLink(e)] = link[ResolvedLink(e)]
    BY <2>2
  <2>6. \A e \in Ephemerons : Listed(q, e) \/ Listed(t, e) =>
         state'[e] = "resolved" /\ ~HasOp({"setTraced"} \cup Pushes, e)'
    BY <1>l, <1>s, <2>1, <2>2, <2>3, <2>4 DEF LookAtKeyMoves, LookAtKeyGains, Pushes
  <2>7. \A e \in Ephemerons : state'[e] = "resolved" =>
         Listed(q, e) \/ Listed(t, e) \/ HasOp({"setTraced"} \cup Pushes, e)'
    BY <1>r, <1>s, <2>1, <2>2, <2>3, <2>4 DEF LookAtKeyMoves, LookAtKeyGains, Pushes
  <2>8. \A x \in Ops' : x.op = "nextResolved" => x \in Ops
    BY <2>1, <2>2, <2>4 DEF LookAtKeyMoves, Becomes, VisitObject, SetTraced, Publish
  <2>9. \A x \in Ops : x.op = "nextResolved" => x \in Ops'
    BY <2>1, <2>2, <2>4 DEF LookAtKeyMoves, Becomes, VisitObject, SetTraced, Publish
  <2>10. \A x \in Ops : x.op = "nextResolved" =>
         /\ link'[ResolvedLink(x.obj)] = link[ResolvedLink(x.obj)]
         /\ state'[x.obj] = "traced" \/ HasOp({"setTraced"}, x.obj)'
    BY <1>n, <1>s, <2>1, <2>2, <2>3, <2>4 DEF LookAtKeyMoves, LookAtKeyGains
  <2>11. Once({x \in OpSet : x.op = "nextResolved"})'
    BY <1>o, <2>1, <2>2, <2>4 DEF LookAtKeyMoves, Becomes, VisitObject, SetTraced, Publish
  <2>12. QED
    BY <2>5, <2>6, <2>7, <2>8, <2>9, <2>10, <2>11 DEF ListsStay
<1>11. CASE FinishTraced(w)
  <2>1. FinishTracedMoves(w)
    BY <1>11, FinishTracedOps
  <2>2. markedObjects' = markedObjects /\ greyObjects' = greyObjects /\ link' = link /\ rootList' = rootList
    BY <1>11 DEF FinishTraced
  <2>3. FinishTracedGains(w)
    BY <2>1, FinishTracedGained
  <2>4. HasOp({"setTraced"}, Op(w).obj) /\ HasOp({"setTraced"} \cup Pushes, Op(w).obj)
    BY <2>1, <2>3 DEF FinishTracedMoves, FinishTracedGains
  <2>5. \A e \in Ephemerons : Listed(q, e) \/ Listed(t, e) => link'[ResolvedLink(e)] = link[ResolvedLink(e)]
    BY <2>2
  <2>6. \A e \in Ephemerons : Listed(q, e) \/ Listed(t, e) =>
         state'[e] = "resolved" /\ ~HasOp({"setTraced"} \cup Pushes, e)'
    BY <1>l, <1>s, <2>1, <2>2, <2>3, <2>4 DEF FinishTracedMoves, FinishTracedGains, Pushes
  <2>7. \A e \in Ephemerons : state'[e] = "resolved" =>
         Listed(q, e) \/ Listed(t, e) \/ HasOp({"setTraced"} \cup Pushes, e)'
    BY <1>r, <1>s, <2>1, <2>2, <2>3, <2>4 DEF FinishTracedMoves, FinishTracedGains, Pushes
  <2>8. \A x \in Ops' : x.op = "nextResolved" => x \in Ops
    BY <2>1, <2>2, <2>4 DEF FinishTracedMoves, Becomes
  <2>9. \A x \in Ops : x.op = "nextResolved" => x \in Ops'
    BY <2>1, <2>2, <2>4 DEF FinishTracedMoves, Becomes
  <2>10. \A x \in Ops : x.op = "nextResolved" =>
         /\ link'[ResolvedLink(x.obj)] = link[ResolvedLink(x.obj)]
         /\ state'[x.obj] = "traced" \/ HasOp({"setTraced"}, x.obj)'
    BY <1>n, <1>s, <2>1, <2>2, <2>3, <2>4 DEF FinishTracedMoves, FinishTracedGains
  <2>11. Once({x \in OpSet : x.op = "nextResolved"})'
    BY <1>o, <2>1, <2>2, <2>4 DEF FinishTracedMoves, Becomes
  <2>12. QED
    BY <2>5, <2>6, <2>7, <2>8, <2>9, <2>10, <2>11 DEF ListsStay
<1>12. CASE AddPending(w)
  <2>1. AddPendingMoves(w)
    BY <1>12, AddPendingOps
  <2>2. markedObjects' = markedObjects /\ greyObjects' = greyObjects /\ link' = link /\ rootList' = rootList
    BY <1>12 DEF AddPending
  <2>3. AddPendingGains(w)
    BY <2>1, AddPendingGained
  <2>4. state[Op(w).obj] = "claimed" /\ ~HasOp({"setTraced"}, Op(w).obj)
    <3>1. state[Op(w).obj] = "claimed"
      BY <1>c, <2>1, <2>3 DEF AddPendingMoves, AddPendingGains
    <3>2. ASSUME NEW y \in Ops, y.op = "setTraced", y.obj = Op(w).obj PROVE FALSE
      BY <1>c, <2>1, <3>2, OneOf DEF AddPendingMoves, Claims
    <3>3. QED
      BY <3>1, <3>2 DEF HasOp
  <2>5. \A e \in Ephemerons : Listed(q, e) \/ Listed(t, e) => link'[ResolvedLink(e)] = link[ResolvedLink(e)]
    BY <2>2
  <2>6. \A e \in Ephemerons : Listed(q, e) \/ Listed(t, e) =>
         state'[e] = "resolved" /\ ~HasOp({"setTraced"} \cup Pushes, e)'
    BY <1>l, <1>s, <2>1, <2>2, <2>3, <2>4 DEF AddPendingMoves, AddPendingGains, Pushes
  <2>7. \A e \in Ephemerons : state'[e] = "resolved" =>
         Listed(q, e) \/ Listed(t, e) \/ HasOp({"setTraced"} \cup Pushes, e)'
    BY <1>r, <1>s, <2>1, <2>2, <2>3, <2>4 DEF AddPendingMoves, AddPendingGains, Pushes
  <2>8. \A x \in Ops' : x.op = "nextResolved" => x \in Ops
    BY <2>1, <2>2, <2>4 DEF AddPendingMoves, Becomes, Push, Recheck
  <2>9. \A x \in Ops : x.op = "nextResolved" => x \in Ops'
    BY <2>1, <2>2, <2>4 DEF AddPendingMoves, Becomes, Push, Recheck
  <2>10. \A x \in Ops : x.op = "nextResolved" =>
         /\ link'[ResolvedLink(x.obj)] = link[ResolvedLink(x.obj)]
         /\ state'[x.obj] = "traced" \/ HasOp({"setTraced"}, x.obj)'
    BY <1>n, <1>s, <2>1, <2>2, <2>3, <2>4 DEF AddPendingMoves, AddPendingGains
  <2>11. Once({x \in OpSet : x.op = "nextResolved"})'
    BY <1>o, <2>1, <2>2, <2>4 DEF AddPendingMoves, Becomes, Push, Recheck
  <2>12. QED
    BY <2>5, <2>6, <2>7, <2>8, <2>9, <2>10, <2>11 DEF ListsStay
<1>13. CASE LookAgain(w)
  <2>1. LookAgainMoves(w)
    BY <1>13, LookAgainOps
  <2>2. markedObjects' = markedObjects /\ greyObjects' = greyObjects /\ state' = state /\ link' = link /\ rootList' = rootList
    BY <1>13 DEF LookAgain
  <2>3. LookAgainGains(w)
    BY <2>1, LookAgainGained
  <2>4. \A e \in Ephemerons : Listed(q, e) \/ Listed(t, e) => link'[ResolvedLink(e)] = link[ResolvedLink(e)]
    BY <2>2
  <2>5. \A e \in Ephemerons : Listed(q, e) \/ Listed(t, e) =>
         state'[e] = "resolved" /\ ~HasOp({"setTraced"} \cup Pushes, e)'
    BY <1>l, <1>s, <2>1, <2>2, <2>3 DEF LookAgainMoves, LookAgainGains, Pushes
  <2>6. \A e \in Ephemerons : state'[e] = "resolved" =>
         Listed(q, e) \/ Listed(t, e) \/ HasOp({"setTraced"} \cup Pushes, e)'
    BY <1>r, <1>s, <2>1, <2>2, <2>3 DEF LookAgainMoves, LookAgainGains, Pushes
  <2>7. \A x \in Ops' : x.op = "nextResolved" => x \in Ops
    BY <2>1, <2>2 DEF LookAgainMoves, Becomes, TryResolve
  <2>8. \A x \in Ops : x.op = "nextResolved" => x \in Ops'
    BY <2>1, <2>2 DEF LookAgainMoves, Becomes, TryResolve
  <2>9. \A x \in Ops : x.op = "nextResolved" =>
         /\ link'[ResolvedLink(x.obj)] = link[ResolvedLink(x.obj)]
         /\ state'[x.obj] = "traced" \/ HasOp({"setTraced"}, x.obj)'
    BY <1>n, <1>s, <2>1, <2>2, <2>3 DEF LookAgainMoves, LookAgainGains
  <2>10. Once({x \in OpSet : x.op = "nextResolved"})'
    BY <1>o, <2>1, <2>2 DEF LookAgainMoves, Becomes, TryResolve
  <2>11. QED
    BY <2>4, <2>5, <2>6, <2>7, <2>8, <2>9, <2>10 DEF ListsStay
<1>14. QED
  BY <1>1, <1>2, <1>3, <1>4, <1>5, <1>6, <1>7, <1>8, <1>9, <1>10, <1>11, <1>12, <1>13

\* The newest of what has been resolved is traced.
LEMMA ResolvedTaken ==
  ASSUME WeakTypes, NEW q \in Seq(Ephemerons), NEW t \in Seq(Ephemerons), ResolvedIn(q, t),
         t # <<>>, NEW X, NEW v, v = Top(t), Becomes(X, ResolvedOps(v)),
         link' = link, state' = state, \A r \in rootList' : r.kind # "resolved",
         \A x \in X : x.op = "nextResolved",
         X # {} \/ \A x \in Ops : x.op # "nextResolved"
  PROVE  \E r \in Seq(Ephemerons) : ResolvedIn(q, r)'
<1>1. PICK r : r = Rest(t)
  OBVIOUS
<1>2. IsList(q, link[Resolved], ResolvedNext) /\ IsList(t, Top(t), ResolvedNext)
  BY DEF ResolvedIn
<1>3. v \in Ephemerons /\ v # NoRef /\ Listed(t, v)
  BY TopIn, ShapeTypes DEF Objects
<1>4. /\ r \in Seq(Ephemerons) /\ IsList(r, ResolvedNext[v], ResolvedNext) /\ ResolvedNext[v] = Top(r)
      /\ \A x : Listed(t, x) <=> Listed(r, x) \/ x = v
      /\ ~Listed(r, v)
  <2>1. PICK f : f = ResolvedNext
    OBVIOUS
  <2>2. IsList(t, Top(t), f)
    BY <1>2, <2>1
  <2>3. QED
    BY <1>1, <2>1, <2>2, ListPop
<1>5. ResolvedNext' = ResolvedNext /\ ResolvedNext[v] = link[ResolvedLink(v)]
  BY <1>3 DEF ResolvedNext
<1>6. /\ VisitObject(shape.value[v]).op = "visit"
      /\ SetTraced(v).op = "setTraced" /\ SetTraced(v).obj = v
      /\ NextResolved(v).op = "nextResolved" /\ NextResolved(v).obj = v
      /\ ResolvedOps(v) = {VisitObject(shape.value[v]), SetTraced(v), NextResolved(v)}
  BY <1>3 DEF VisitObject, SetTraced, NextResolved, ResolvedOps
<1>7. /\ \A K : {"setTraced", "visit", "nextResolved"} \cap K = {} =>
           \A e : HasOp(K, e)' => HasOp(K, e)
      /\ \A e : HasOp({"setTraced"} \cup Pushes, e)' => HasOp({"setTraced"} \cup Pushes, e) \/ e = v
      /\ \A e : HasOp({"setTraced"} \cup Pushes, e) => HasOp({"setTraced"} \cup Pushes, e)'
      /\ HasOp({"setTraced"}, v)' /\ HasOp({"setTraced"} \cup Pushes, v)'
  <2>0. PICK N : N = ResolvedOps(v)
    OBVIOUS
  <2>1. /\ Becomes(X, N)
        /\ \A y \in N : y.op \in {"visit", "setTraced", "nextResolved"}
        /\ \A y \in N : y.op = "setTraced" => y.obj = v
        /\ \E y \in N : y.op = "setTraced" /\ y.obj = v
    BY <1>6, <2>0
  <2>2. \A K : {"setTraced", "visit", "nextResolved"} \cap K = {} => \A e : HasOp(K, e)' => HasOp(K, e)
    BY <2>1 DEF Becomes
  <2>3. \A e : HasOp({"setTraced"} \cup Pushes, e)' => HasOp({"setTraced"} \cup Pushes, e) \/ e = v
    BY <2>1 DEF Becomes, Pushes
  <2>4. \A e : HasOp({"setTraced"} \cup Pushes, e) => HasOp({"setTraced"} \cup Pushes, e)'
    BY <2>1 DEF Becomes, Pushes
  <2>5. PICK y \in N : y.op = "setTraced" /\ y.obj = v
    BY <2>1
  <2>6. y.op \in {"setTraced"} /\ y.op \in {"setTraced"} \cup Pushes
    BY <2>5
  <2>7. HasOp({"setTraced"}, v)' /\ HasOp({"setTraced"} \cup Pushes, v)'
    BY <2>1, <2>5, <2>6, NowHas
  <2>8. QED
    BY <2>2, <2>3, <2>4, <2>7
<1> DEFINE S == {x \in OpSet : x.op = "nextResolved"}
<1>8. Once(S)' /\ \A x \in Ops' : x.op = "nextResolved" => x = NextResolved(v)
  <2>1. Once(S)
    BY DEF ResolvedIn
  <2>2. PICK N : N = ResolvedOps(v)
    OBVIOUS
  <2>3. \A y, z \in N : y.op = "nextResolved" /\ z.op = "nextResolved" => y = z
    BY <1>6, <2>2
  <2>4. (\A y \in Ops : y.op # "nextResolved") \/ \E y \in X : y.op = "nextResolved"
    OBVIOUS
  <2>5. Once(S)'
    BY <2>1, <2>2, <2>3, <2>4 DEF Becomes
  <2>6. NextResolved(v) \in Ops' /\ work' \in [Workers -> Seq(OpSet)]
    BY <1>6 DEF Becomes
  <2>7. ASSUME NEW x \in Ops', x.op = "nextResolved" PROVE x = NextResolved(v)
    <3>1. \A y \in Ops' : y \in OpSet
      <4>1. \A w \in Workers : \A i \in DOMAIN work'[w] : work'[w][i] \in OpSet
        BY <2>6
      <4>2. QED
        BY <4>1 DEF Ops
    <3>2. x \in S /\ NextResolved(v) \in S
      BY <1>6, <2>6, <2>7, <3>1
    <3> HIDE DEF S
    <3>3. PICK w \in Workers : \E i \in DOMAIN work'[w] : x = work'[w][i]
      BY DEF Ops
    <3>4. PICK u \in Workers : \E i \in DOMAIN work'[u] : NextResolved(v) = work'[u][i]
      BY <2>6 DEF Ops
    <3>5. QED
      BY <2>5, <3>2, <3>3, <3>4 DEF Once, S
  <2>8. QED
    BY <2>5, <2>7
<1>9. /\ \A e \in Ephemerons : Listed(q, e) \/ Listed(t, e) => state[e] = "resolved" /\ ~HasOp({"setTraced"} \cup Pushes, e)
      /\ \A e \in Ephemerons : state[e] = "resolved" =>
           Listed(q, e) \/ Listed(t, e) \/ HasOp({"setTraced"} \cup Pushes, e)
      /\ \A e \in Ephemerons : ~(Listed(q, e) /\ Listed(t, e))
  BY DEF ResolvedIn
<1>10. IsList(q, link[Resolved], ResolvedNext)' /\ IsList(r, Top(r), ResolvedNext)'
  BY <1>2, <1>4, <1>5 DEF IsList, Top
<1>11. (\A e \in Ephemerons : ~(Listed(q, e) /\ Listed(r, e)))'
  BY <1>4, <1>9 DEF Listed
<1>12. \A e \in Ephemerons : Listed(q, e) \/ Listed(r, e) =>
          state'[e] = "resolved" /\ ~HasOp({"setTraced"} \cup Pushes, e)'
  <2>1. \A e \in Ephemerons : Listed(q, e) \/ Listed(r, e) => e # v /\ (Listed(q, e) \/ Listed(t, e))
    BY <1>3, <1>4, <1>9
  <2>2. QED
    BY <1>7, <1>9, <2>1
<1>13. \A e \in Ephemerons : state'[e] = "resolved" =>
          Listed(q, e) \/ Listed(r, e) \/ HasOp({"setTraced"} \cup Pushes, e)'
  BY <1>4, <1>7, <1>9
<1>14. \A x \in Ops' : x.op = "nextResolved" =>
          link'[ResolvedLink(x.obj)] = Top(r) /\ HasOp({"setTraced"}, x.obj)'
  BY <1>4, <1>5, <1>6, <1>7, <1>8
<1>15. \E x \in Ops' : x.op = "nextResolved"
  BY <1>6 DEF Becomes
<1>16. (\A e \in Ephemerons : Listed(q, e) \/ Listed(r, e) =>
          state[e] = "resolved" /\ ~HasOp({"setTraced"} \cup Pushes, e))'
  BY <1>12 DEF Listed
<1>17. (\A e \in Ephemerons : state[e] = "resolved" =>
          Listed(q, e) \/ Listed(r, e) \/ HasOp({"setTraced"} \cup Pushes, e))'
  BY <1>13 DEF Listed
<1>18. (\A x \in Ops : x.op = "nextResolved" =>
         link[ResolvedLink(x.obj)] = Top(r) /\ (state[x.obj] = "traced" \/ HasOp({"setTraced"}, x.obj)))'
  BY <1>14 DEF Top
<1>19. ResolvedIn(q, r)'
  BY <1>8, <1>10, <1>11, <1>15, <1>16, <1>17, <1>18 DEF ResolvedIn
<1>20. QED
  BY <1>4, <1>19

\* An ephemeron that has been resolved is pushed.
LEMMA ResolvedPushed ==
  ASSUME WeakTypes, Phases, Tracing, Pushed, NEW q \in Seq(Ephemerons), NEW t \in Seq(Ephemerons), ResolvedIn(q, t),
         NEW x \in Ops, x.op = "pushCas", x.cell = Resolved, link[Resolved] = x.tail, x.obj \in Ephemerons,
         link' = [link EXCEPT ![Resolved] = x.obj], state' = state, rootList' = rootList, Becomes({x}, {})
  PROVE  \E r \in Seq(Ephemerons) : ResolvedIn(r, t)'
<1>1. PICK e : e = x.obj
  OBVIOUS
<1>2. PICK r : r = Append(q, e)
  OBVIOUS
<1>3. HasOp(Pushes, e) /\ HasOp({"setTraced"} \cup Pushes, e)
  BY <1>1 DEF HasOp, Pushes
<1>4. ~Listed(q, e) /\ ~Listed(t, e) /\ e \in Ephemerons
  BY <1>1, <1>3 DEF ResolvedIn
<1>5. link[ResolvedLink(e)] = link[Resolved]
  BY <1>1 DEF Pushed, LinkOf
<1>6. link' \in [Cells -> Ephs] /\ link'[Resolved] = e /\ ResolvedNext' = ResolvedNext
      /\ \A y \in Ephemerons : link'[ResolvedLink(y)] = link[ResolvedLink(y)]
  BY <1>1, <1>4, CellsApart DEF WeakTypes, Ephs, ResolvedNext
<1>7. /\ r \in Seq(Ephemerons) /\ IsList(r, e, ResolvedNext)
      /\ \A y : Listed(r, y) <=> Listed(q, y) \/ y = e
  <2>1. PICK f : f = ResolvedNext
    OBVIOUS
  <2>2. PICK c : c = link[Resolved]
    OBVIOUS
  <2>3. IsList(q, c, f) /\ f[e] = c
    BY <1>4, <1>5, <2>1, <2>2 DEF ResolvedIn, ResolvedNext
  <2>4. /\ Append(q, e) \in Seq(Ephemerons) /\ IsList(Append(q, e), e, f)
        /\ \A y : Listed(Append(q, e), y) <=> Listed(q, y) \/ y = e
    BY <1>4, <2>3, ListPush
  <2>5. QED
    BY <1>2, <2>1, <2>4
<1>8. ~HasOp({"setTraced"} \cup Pushes, e)'
  <2>1. x.op \in Pushes /\ x \in Ops
    BY DEF Pushes
  <2>2. Once(Of(Pushes, x.obj)) /\ ~HasOp({"setTraced"}, x.obj)
    BY <1>1, <1>4, <2>1, CellsApart, KeyTypes DEF Pushed, BucketFor
  <2>3. ~HasOp(Pushes, x.obj)'
    <3>1. PICK N : N = {}
      OBVIOUS
    <3>2. Becomes({x}, N) /\ \A y \in N : ~(y.op \in Pushes /\ y.obj = x.obj)
      BY <3>1
    <3>3. QED
      BY <2>1, <2>2, <3>2, Gone
  <2>4. ~HasOp({"setTraced"}, x.obj)'
    BY <2>2 DEF Becomes
  <2>5. QED
    BY <1>1, <2>3, <2>4 DEF HasOp
<1>9. \A y \in Ephemerons : y # e =>
         (HasOp({"setTraced"} \cup Pushes, y)' <=> HasOp({"setTraced"} \cup Pushes, y))
  BY <1>1 DEF Becomes
<1>10. \A y \in Ops' : y.op = "nextResolved" => y \in Ops
  BY DEF Becomes
<1>11. \A y \in Ops : y.op = "nextResolved" => y \in Ops'
  BY DEF Becomes
<1>12. \A y : HasOp({"setTraced"}, y) => HasOp({"setTraced"}, y)'
  BY DEF Becomes
<1>13. /\ IsList(t, Top(t), ResolvedNext)
       /\ \A y \in Ephemerons : ~(Listed(q, y) /\ Listed(t, y))
       /\ \A y \in Ephemerons : Listed(q, y) \/ Listed(t, y) =>
            state[y] = "resolved" /\ ~HasOp({"setTraced"} \cup Pushes, y)
       /\ \A y \in Ephemerons : state[y] = "resolved" =>
            Listed(q, y) \/ Listed(t, y) \/ HasOp({"setTraced"} \cup Pushes, y)
  BY DEF ResolvedIn
<1>14. /\ \A z \in rootList : z.kind = "resolved" =>
            t # <<>> /\ z.obj = Top(t) /\ rootList = {z} /\ \A y \in Ops : y.op # "nextResolved"
       /\ \A y \in Ops : y.op = "nextResolved" =>
            link[ResolvedLink(y.obj)] = Top(t) /\ (state[y.obj] = "traced" \/ HasOp({"setTraced"}, y.obj))
       /\ t # <<>> => (\E z \in rootList : z.kind = "resolved") \/ \E y \in Ops : y.op = "nextResolved"
  BY DEF ResolvedIn
<1>15. Once({y \in OpSet : y.op = "nextResolved"})'
  <2>1. Once({y \in OpSet : y.op = "nextResolved"})
    BY DEF ResolvedIn
  <2>2. QED
    BY <2>1 DEF Becomes
<1>16. state[e] = "resolved"
  BY <1>1, CellsApart, KeyTypes DEF Pushed, Pushes, BucketFor
<1>17. IsList(r, link[Resolved], ResolvedNext)' /\ IsList(t, Top(t), ResolvedNext)'
  BY <1>6, <1>7, <1>13 DEF IsList, Top
<1>18. (\A y \in Ephemerons : ~(Listed(r, y) /\ Listed(t, y)))'
  BY <1>4, <1>7, <1>13 DEF Listed
<1>19. \A y \in Ephemerons : Listed(r, y) \/ Listed(t, y) =>
          state'[y] = "resolved" /\ ~HasOp({"setTraced"} \cup Pushes, y)'
  BY <1>7, <1>8, <1>9, <1>13, <1>16
<1>20. \A y \in Ephemerons : state'[y] = "resolved" =>
          Listed(r, y) \/ Listed(t, y) \/ HasOp({"setTraced"} \cup Pushes, y)'
  BY <1>7, <1>9, <1>13
<1>21. /\ \A z \in rootList' : z.kind = "resolved" =>
            t # <<>> /\ z.obj = Top(t) /\ rootList' = {z} /\ \A y \in Ops' : y.op # "nextResolved"
       /\ t # <<>> => (\E z \in rootList' : z.kind = "resolved") \/ \E y \in Ops' : y.op = "nextResolved"
  BY <1>10, <1>11, <1>14
<1>22. \A y \in Ops' : y.op = "nextResolved" =>
          /\ link'[ResolvedLink(y.obj)] = Top(t)
          /\ state'[y.obj] = "traced" \/ HasOp({"setTraced"}, y.obj)'
  <2>1. \A y \in Ops' : y.op = "nextResolved" => y.obj \in Ephemerons
    BY <1>10, OpsIn, OpKinds DEF Traces
  <2>2. QED
    BY <1>6, <1>10, <1>12, <1>14, <2>1
<1>23. ResolvedIn(r, t)'
  BY <1>15, <1>17, <1>18, <1>19, <1>20, <1>21, <1>22 DEF ResolvedIn, Listed, Top
<1>24. QED
  BY <1>7, <1>23

LEMMA ListsNext ==
  ASSUME WeakTypes, Phases, Tracing, TraceInv, NEW w \in Workers, TraceStep(w)
  PROVE  \E q, t \in Seq(Ephemerons) : ResolvedIn(q, t)'
<1>0. PICK q, t \in Seq(Ephemerons) : ResolvedIn(q, t)
  BY DEF TraceInv
<1>a. Pushed /\ Claimed /\ QueuedOnce
  BY DEF TraceInv
<1>b. link \in [Cells -> Ephs]
  BY DEF WeakTypes
<1> DEFINE Others ==
      \/ PushLoad(w) \/ PushSwap(w) \/ FollowLoad(w) \/ FollowSkip(w) \/ FollowSwap(w) \/ Resolve(w)
      \/ VisitEdge(w) \/ EnqueueObject(w) \/ TraceObject(w) \/ LookAtKey(w) \/ FinishTraced(w)
      \/ AddPending(w) \/ LookAgain(w)
<1>1. ASSUME Others, link'[Resolved] = link[Resolved], rootList' = rootList
      PROVE  \E p, u \in Seq(Ephemerons) : ResolvedIn(p, u)'
  <2>1. ListsStay(q, t)
    BY <1>0, <1>1, ListsKept
  <2>2. ResolvedIn(q, t)'
    BY <1>0, <1>1, <2>1, ResolvedKept
  <2>3. QED
    BY <2>2
<1>2. CASE PushLoad(w)
  <2>1. PushLoadMoves(w) /\ rootList' = rootList
    BY <1>2, PushLoadOps DEF PushLoad
  <2>2. PICK x : x = Op(w)
    OBVIOUS
  <2>3. x.obj \in Ephemerons /\ link' = [link EXCEPT ![LinkOf(x.cell, x.obj)] = link[x.cell]]
    BY <2>1, <2>2 DEF PushLoadMoves
  <2>4. LinkOf(x.cell, x.obj) # Resolved
    BY <2>3, CellsApart DEF LinkOf
  <2>5. link'[Resolved] = link[Resolved]
    BY <1>b, <2>3, <2>4, CellsApart
  <2>6. QED
    BY <1>1, <1>2, <2>1, <2>5
<1>3. CASE PushSwap(w)
  <2>1. PushSwapMoves(w) /\ state' = state /\ rootList' = rootList
    BY <1>3, PushSwapOps DEF PushSwap
  <2>2. PICK x : x = Op(w)
    OBVIOUS
  <2>3. /\ x \in Ops /\ x.op = "pushCas" /\ x.obj \in Ephemerons /\ x.cell \in Cells
        /\ \/ link[x.cell] = x.tail /\ link' = [link EXCEPT ![x.cell] = x.obj] /\ Becomes({x}, {})
           \/ link' = link
    BY <2>1, <2>2 DEF PushSwapMoves
  <2>4. CASE link[x.cell] = x.tail /\ x.cell = Resolved /\ link' = [link EXCEPT ![x.cell] = x.obj] /\ Becomes({x}, {})
    BY <1>0, <1>a, <2>1, <2>3, <2>4, ResolvedPushed
  <2>5. CASE link' = link \/ (x.cell # Resolved /\ link' = [link EXCEPT ![x.cell] = x.obj])
    <3>1. link'[Resolved] = link[Resolved]
      BY <1>b, <2>5, CellsApart
    <3>2. QED
      BY <1>1, <1>3, <2>1, <3>1
  <2>6. QED
    BY <2>3, <2>4, <2>5
<1>4. CASE FollowSwap(w)
  <2>1. FollowSwapMoves(w) /\ rootList' = rootList
    BY <1>4, FollowSwapOps DEF FollowSwap
  <2>2. PICK x : x = Op(w)
    OBVIOUS
  <2>3. PICK r \in [Ephemerons -> Nat], n \in Nat : RankedBy(r, n)
    BY DEF TraceInv
  <2>4. x \in Ops /\ x.op \in Walks /\ BucketOf(x.obj) \in Buckets
        /\ (link' = link \/ link' = [link EXCEPT ![x.cell] = x.new])
    BY <2>1, <2>2, WeakAssumption DEF FollowSwapMoves, Walks
  <2>5. IsCell(r, Bucket(BucketOf(x.obj)), x.cell)
    BY <2>3, <2>4 DEF RankedBy, Links, WalkOk
  <2>6. x.cell # Resolved
    BY <2>4, <2>5, CellsApart DEF IsCell
  <2>7. link'[Resolved] = link[Resolved]
    BY <1>b, <2>4, <2>6, CellsApart
  <2>8. QED
    BY <1>1, <1>4, <2>1, <2>7
<1>5. CASE FollowLoad(w) \/ FollowSkip(w) \/ Resolve(w) \/ VisitEdge(w) \/ EnqueueObject(w)
  <2>1. link' = link /\ rootList' = rootList
    BY <1>5 DEF FollowLoad, FollowSkip, Resolve, VisitEdge, EnqueueObject
  <2>2. QED
    BY <1>1, <1>5, <2>1
<1>6. CASE TraceObject(w) \/ LookAtKey(w) \/ FinishTraced(w) \/ AddPending(w) \/ LookAgain(w)
  <2>1. link' = link /\ rootList' = rootList
    BY <1>6 DEF TraceObject, LookAtKey, FinishTraced, AddPending, LookAgain
  <2>2. QED
    BY <1>1, <1>6, <2>1
<1>7. CASE GoNextResolved(w)
  <2>1. NextResolvedMoves(w) /\ link' = link /\ state' = state /\ rootList' = rootList
    BY <1>7, NextResolvedOps DEF GoNextResolved
  <2>2. PICK x : x = Op(w)
    OBVIOUS
  <2>3. PICK v : v = link[ResolvedLink(x.obj)]
    OBVIOUS
  <2>4. x \in Ops /\ x.op = "nextResolved" /\ Becomes({x}, ResolvedOps(v))
    BY <2>1, <2>2, <2>3 DEF NextResolvedMoves
  <2>5. v = Top(t) /\ \A r \in rootList' : r.kind # "resolved"
    BY <1>0, <2>1, <2>3, <2>4 DEF ResolvedIn
  <2>6. CASE t # <<>>
    <3>1. PICK X : X = {x}
      OBVIOUS
    <3>2. Becomes(X, ResolvedOps(v)) /\ X # {} /\ \A y \in X : y.op = "nextResolved"
      BY <2>4, <3>1
    <3>3. \E p \in Seq(Ephemerons) : ResolvedIn(q, p)'
      BY <1>0, <2>1, <2>5, <2>6, <3>2, ResolvedTaken
    <3>4. QED
      BY <3>3
  <2>7. CASE t = <<>>
    <3>1. PICK N : N = ResolvedOps(v)
      OBVIOUS
    <3>2. N = {} /\ Becomes({x}, N)
      BY <2>4, <2>5, <2>7, <3>1 DEF Top, ResolvedOps
    <3>3. /\ \A e : HasOp({"setTraced"} \cup Pushes, e) <=> HasOp({"setTraced"} \cup Pushes, e)'
          /\ Ops' \subseteq Ops
      BY <2>4, <3>2 DEF Becomes, Pushes
    <3>4. \A y \in Ops' : y.op # "nextResolved"
      <4>1. Once({y \in OpSet : y.op = "nextResolved"})
        BY <1>0 DEF ResolvedIn
      <4>2. QED
        BY <2>4, <3>2, <4>1 DEF Becomes
    <3>5. Once({y \in OpSet : y.op = "nextResolved"})'
      <4>1. Once({y \in OpSet : y.op = "nextResolved"})
        BY <1>0 DEF ResolvedIn
      <4>2. QED
        BY <3>2, <4>1 DEF Becomes
    <3>6. ResolvedNext' = ResolvedNext
      BY <2>1 DEF ResolvedNext
    <3>7. /\ IsList(q, link[Resolved], ResolvedNext) /\ IsList(t, Top(t), ResolvedNext)
          /\ \A e \in Ephemerons : ~(Listed(q, e) /\ Listed(t, e))
          /\ \A e \in Ephemerons : Listed(q, e) \/ Listed(t, e) =>
               state[e] = "resolved" /\ ~HasOp({"setTraced"} \cup Pushes, e)
          /\ \A e \in Ephemerons : state[e] = "resolved" =>
               Listed(q, e) \/ Listed(t, e) \/ HasOp({"setTraced"} \cup Pushes, e)
      BY <1>0 DEF ResolvedIn
    <3>8. IsList(q, link[Resolved], ResolvedNext)' /\ IsList(t, Top(t), ResolvedNext)'
      BY <2>1, <3>6, <3>7 DEF IsList, Top
    <3>9. ResolvedIn(q, t)'
      BY <2>1, <2>5, <2>7, <3>3, <3>4, <3>5, <3>7, <3>8 DEF ResolvedIn, Listed
    <3>10. QED
      BY <3>9
  <2>8. QED
    BY <2>6, <2>7
<1>8. CASE TakeNextRoot(w)
  <2>1. PICK r \in rootList : TakeRootMoves(r)
    BY <1>8, TakeRootOps
  <2>2. link' = link /\ state' = state /\ rootList' = rootList \ {r}
    BY <1>8, <2>1 DEF TakeNextRoot, TakeRootMoves
  <2>3. CASE r.kind = "edge"
    <3>1. Becomes({}, {VisitObject(r.obj)})
      BY <2>1, <2>3 DEF TakeRootMoves
    <3>2. /\ \A e : HasOp({"setTraced"} \cup Pushes, e) <=> HasOp({"setTraced"} \cup Pushes, e)'
          /\ \A e : HasOp({"setTraced"}, e) => HasOp({"setTraced"}, e)'
          /\ Ops \subseteq Ops' /\ \A y \in Ops' : y.op = "nextResolved" => y \in Ops
      <4>1. PICK N : N = {VisitObject(r.obj)}
        OBVIOUS
      <4>2. Becomes({}, N) /\ \A y \in N : y.op = "visit"
        BY <3>1, <4>1 DEF VisitObject
      <4>0. "visit" \notin {"setTraced"} \cup Pushes
        BY DEF Pushes
      <4>3. PICK K : K = {"setTraced"} \cup Pushes /\ "visit" \notin K
        BY <4>0
      <4>4. \A e : HasOp(K, e) <=> HasOp(K, e)'
        BY <4>2, <4>3 DEF Becomes
      <4>5. \A e : HasOp({"setTraced"}, e) => HasOp({"setTraced"}, e)'
        BY <4>2 DEF Becomes
      <4>6. Ops \subseteq Ops' /\ \A y \in Ops' : y.op = "nextResolved" => y \in Ops
        BY <4>2 DEF Becomes
      <4>7. QED
        BY <4>3, <4>4, <4>5, <4>6
    <3>3. Once({y \in OpSet : y.op = "nextResolved"})'
      <4>1. Once({y \in OpSet : y.op = "nextResolved"})
        BY <1>0 DEF ResolvedIn
      <4>2. QED
        BY <3>1, <4>1 DEF Becomes, VisitObject
    <3>4. ListsStay(q, t)
      <4>1. /\ \A e \in Ephemerons : Listed(q, e) \/ Listed(t, e) =>
                 state[e] = "resolved" /\ ~HasOp({"setTraced"} \cup Pushes, e)
            /\ \A e \in Ephemerons : state[e] = "resolved" =>
                 Listed(q, e) \/ Listed(t, e) \/ HasOp({"setTraced"} \cup Pushes, e)
            /\ \A x \in Ops : x.op = "nextResolved" => state[x.obj] = "traced" \/ HasOp({"setTraced"}, x.obj)
        BY <1>0 DEF ResolvedIn
      <4>2. QED
        BY <2>2, <3>2, <3>3, <4>1 DEF ListsStay
    <3>5. (\A z \in rootList' : z.kind # "resolved") /\ \A z \in rootList : z.kind # "resolved"
      <4>1. \A z \in rootList : z.kind = "resolved" => rootList = {z}
        BY <1>0 DEF ResolvedIn
      <4>2. QED
        BY <2>1, <2>2, <2>3, <4>1
    <3>6. ResolvedIn(q, t)'
      BY <1>0, <3>4, <3>5, ResolvedKept
    <3>7. QED
      BY <3>6
  <2>4. CASE r.kind = "resolved"
    <3>1. t # <<>> /\ r.obj = Top(t) /\ rootList = {r} /\ \A x \in Ops : x.op # "nextResolved"
      BY <1>0, <2>1, <2>4 DEF ResolvedIn
    <3>2. Becomes({}, ResolvedOps(r.obj)) /\ \A z \in rootList' : z.kind # "resolved"
      BY <2>1, <2>2, <2>4, <3>1 DEF TakeRootMoves
    <3>3. PICK v : v = r.obj
      OBVIOUS
    <3>4. \E p \in Seq(Ephemerons) : ResolvedIn(q, p)'
      BY <1>0, <2>2, <3>1, <3>2, <3>3, ResolvedTaken
    <3>5. QED
      BY <3>4
  <2>5. QED
    BY <2>1, <2>3, <2>4 DEF TakeRootMoves
<1>9. QED
  BY <1>2, <1>3, <1>4, <1>5, <1>6, <1>7, <1>8 DEF TraceStep

-------------------------------------------------------------------------------
(* Ranks *)

\* Who follows links has found what has a rank.
LEMMA WalkRanks ==
  ASSUME WeakTypes, NEW r \in [Ephemerons -> Nat], NEW n \in Nat, RankedBy(r, n),
         NEW x \in Ops, x.op \in Walks
  PROVE  /\ x.obj \in Objects /\ x.cell \in Cells /\ BucketOf(x.obj) \in Buckets
         /\ IsCell(r, Bucket(BucketOf(x.obj)), x.cell)
         /\ x.op # "follow" => x.new \in Ephs /\ (x.new # NoRef => r[x.new] # 0)
<1>1. x \in OpSet
  BY OpsIn
<1>2. x.obj \in Objects /\ x.cell \in Cells /\ BucketOf(x.obj) \in Buckets
  BY <1>1, OpKinds, WeakAssumption
<1>3. WalkOk(r, x)
  BY DEF RankedBy, Links
<1>4. x.op # "follow" => x.op \in {"skip", "followCas"}
  BY DEF Walks
<1>5. x.op # "follow" => x.new \in Ephs
  BY <1>1, <1>4, OpKinds
<1>6. QED
  BY <1>2, <1>3, <1>5 DEF WalkOk, IsNode, InBucket


\* A step that puts nothing in a bucket leaves the ranks as they are.
LEMMA RankedNext ==
  ASSUME WeakTypes, Phases, Tracing, TraceInv, NEW w \in Workers, TraceStep(w),
         NEW rk \in [Ephemerons -> Nat], NEW n \in Nat, RankedBy(rk, n),
         PushSwap(w) => Op(w).cell = Resolved \/ link[Op(w).cell] # Op(w).tail
  PROVE  Ranked(rk, n)'
<1>s. state \in [Ephemerons -> {"traced", "claimed", "pending", "resolved"}]
  BY DEF WeakTypes
<1>0. /\ Pushed /\ Claimed /\ QueuedOnce /\ key' = key /\ \A e \in Ephemerons : Started(e) => Started(e)'
  BY TraceFrame, Steady DEF TraceInv, Objects
<1>a. /\ \A e \in Ephemerons : rk[e] < n
      /\ \A e, f \in Ephemerons : rk[e] = rk[f] /\ rk[e] # 0 => e = f
  BY DEF RankedBy, Ranked
<1>c. \A e \in Ephemerons : rk[e] # 0 => state[e] # "claimed" /\ Started(e)
  BY DEF RankedBy, Ranked
<1>d. \A e \in Ephemerons : rk[e] = 0 /\ state[e] = "pending" => HasOp(Pushes, e) /\ HasOp({"recheck"}, e)
  BY DEF RankedBy, Ranked
<1>e. \A e \in Ephemerons : rk[e] # 0 /\ HasOp(Pushes, e) => state[e] = "resolved"
  BY DEF RankedBy, Ranked
<1>f. \A e \in Ephemerons : HasOp({"tryResolve"}, e) => rk[e] # 0
  BY DEF RankedBy, Ranked
<1>p. \A e \in Ephemerons : HasOp(Pushes, e) =>
        state[e] \in {"pending", "resolved"} /\ ~(state[e] = "resolved" /\ HasOp({"setTraced"}, e))
  BY <1>0, PushesApart
<1>k. /\ \A e \in Ephemerons : HasOp({"visitKey", "publish"}, e) => state[e] = "claimed"
      /\ \A e \in Ephemerons : HasOp({"setTraced"}, e) => state[e] \in {"claimed", "resolved"}
  BY <1>0 DEF Claimed
<1>1. CASE PushLoad(w)
  <2>1. PushLoadMoves(w)
    BY <1>1, PushLoadOps
  <2>2. markedObjects' = markedObjects /\ greyObjects' = greyObjects /\ state' = state /\ rootList' = rootList
    BY <1>1 DEF PushLoad
  <2>3. PushLoadGains(w)
    BY <2>1, PushLoadGained
  <2>4. \A e \in Ephemerons : rk[e] # 0 => state'[e] # "claimed" /\ Started(e)'
    BY <1>s, <1>0, <1>c, <2>1, <2>2, <2>3 DEF PushLoadMoves, PushLoadGains
  <2>5. \A e \in Ephemerons : rk[e] = 0 /\ state'[e] = "pending" =>
         HasOp(Pushes, e)' /\ HasOp({"recheck"}, e)'
    <3>1. \A e : HasOp(Pushes, e) => HasOp(Pushes, e)'
      BY <2>1 DEF PushLoadMoves, Becomes, PushCas, Pushes
    <3>2. \A e : HasOp({"recheck"}, e) => HasOp({"recheck"}, e)'
      BY <2>1, <2>3 DEF PushLoadMoves, PushLoadGains
    <3>3. QED
      BY <1>d, <2>2, <3>1, <3>2
  <2>6. \A e \in Ephemerons : rk[e] # 0 /\ HasOp(Pushes, e)' => state'[e] = "resolved"
    BY <1>s, <1>e, <2>1, <2>2, <2>3 DEF PushLoadMoves, PushLoadGains, Pushes
  <2>7. \A e \in Ephemerons : HasOp({"tryResolve"}, e)' => rk[e] # 0
    BY <1>f, <2>1, <2>2, <2>3 DEF PushLoadMoves, PushLoadGains
  <2>8. QED
    BY <1>a, <2>4, <2>5, <2>6, <2>7 DEF Ranked
<1>2. CASE PushSwap(w)
  <2>1. PushSwapMoves(w)
    BY <1>2, PushSwapOps
  <2>2. markedObjects' = markedObjects /\ greyObjects' = greyObjects /\ state' = state /\ rootList' = rootList
    BY <1>2 DEF PushSwap
  <2>3. PushSwapGains(w)
    BY <2>1, PushSwapGained
  <2>4. \A e \in Ephemerons : rk[e] # 0 => state'[e] # "claimed" /\ Started(e)'
    BY <1>s, <1>0, <1>c, <2>1, <2>2, <2>3 DEF PushSwapMoves, PushSwapGains
  <2>5. \A e \in Ephemerons : rk[e] = 0 /\ state'[e] = "pending" =>
         HasOp(Pushes, e)' /\ HasOp({"recheck"}, e)'
    <3>0. PICK x : x = Op(w)
      OBVIOUS
    <3>1. x \in Ops /\ x.op \in Pushes /\ x.op = "pushCas" /\ x.obj \in Ephemerons
      BY <2>1, <3>0 DEF PushSwapMoves, Pushes
    <3>2. \A e : HasOp({"recheck"}, e) => HasOp({"recheck"}, e)'
      BY <2>3, <3>0, <3>1 DEF PushSwapGains
    <3>3. CASE x.cell = Resolved
      <4>1. state[x.obj] = "resolved"
        BY <1>0, <3>1, <3>3, CellsApart, KeyTypes DEF Pushed, BucketFor
      <4>2. \A e : HasOp(Pushes, e) => HasOp(Pushes, e)' \/ e = x.obj
        BY <2>3, <3>0 DEF PushSwapGains
      <4>3. QED
        BY <1>d, <2>2, <3>2, <4>1, <4>2
    <3>4. CASE link[x.cell] # x.tail
      <4>1. Becomes({x}, {Push(x.cell, x.obj)})
        BY <2>1, <3>0, <3>4 DEF PushSwapMoves
      <4>2. \A e : HasOp(Pushes, e) => HasOp(Pushes, e)'
        BY <4>1 DEF Becomes, Push, Pushes
      <4>3. QED
        BY <1>d, <2>2, <3>2, <4>2
    <3>5. QED
      BY <1>2, <3>0, <3>3, <3>4
  <2>6. \A e \in Ephemerons : rk[e] # 0 /\ HasOp(Pushes, e)' => state'[e] = "resolved"
    BY <1>s, <1>e, <2>1, <2>2, <2>3 DEF PushSwapMoves, PushSwapGains, Pushes
  <2>7. \A e \in Ephemerons : HasOp({"tryResolve"}, e)' => rk[e] # 0
    BY <1>f, <2>1, <2>2, <2>3 DEF PushSwapMoves, PushSwapGains
  <2>8. QED
    BY <1>a, <2>4, <2>5, <2>6, <2>7 DEF Ranked
<1>3. CASE FollowLoad(w)
  <2>1. FollowLoadMoves(w)
    BY <1>3, FollowLoadOps
  <2>2. markedObjects' = markedObjects /\ greyObjects' = greyObjects /\ state' = state /\ link' = link /\ rootList' = rootList
    BY <1>3 DEF FollowLoad
  <2>3. FollowLoadGains(w)
    BY <2>1, FollowLoadGained
  <2>4. \A e \in Ephemerons : rk[e] # 0 => state'[e] # "claimed" /\ Started(e)'
    BY <1>s, <1>0, <1>c, <2>1, <2>2, <2>3 DEF FollowLoadMoves, FollowLoadGains
  <2>5. \A e \in Ephemerons : rk[e] = 0 /\ state'[e] = "pending" =>
         HasOp(Pushes, e)' /\ HasOp({"recheck"}, e)'
    BY <1>s, <1>d, <2>1, <2>2, <2>3 DEF FollowLoadMoves, FollowLoadGains, Pushes
  <2>6. \A e \in Ephemerons : rk[e] # 0 /\ HasOp(Pushes, e)' => state'[e] = "resolved"
    BY <1>s, <1>e, <2>1, <2>2, <2>3 DEF FollowLoadMoves, FollowLoadGains, Pushes
  <2>7. \A e \in Ephemerons : HasOp({"tryResolve"}, e)' => rk[e] # 0
    BY <1>f, <2>1, <2>2, <2>3 DEF FollowLoadMoves, FollowLoadGains
  <2>8. QED
    BY <1>a, <2>4, <2>5, <2>6, <2>7 DEF Ranked
<1>4. CASE FollowSkip(w)
  <2>1. FollowSkipMoves(w)
    BY <1>4, FollowSkipOps
  <2>2. markedObjects' = markedObjects /\ greyObjects' = greyObjects /\ state' = state /\ link' = link /\ rootList' = rootList
    BY <1>4 DEF FollowSkip
  <2>3. FollowSkipGains(w)
    BY <2>1, FollowSkipGained
  <2>4. Op(w).new # NoRef => rk[Op(w).new] # 0
    BY <2>1, WalkRanks DEF FollowSkipMoves, Walks
  <2>5. \A e \in Ephemerons : rk[e] # 0 => state'[e] # "claimed" /\ Started(e)'
    BY <1>s, <1>0, <1>c, <2>1, <2>2, <2>3, <2>4 DEF FollowSkipMoves, FollowSkipGains
  <2>6. \A e \in Ephemerons : rk[e] = 0 /\ state'[e] = "pending" =>
         HasOp(Pushes, e)' /\ HasOp({"recheck"}, e)'
    BY <1>s, <1>d, <2>1, <2>2, <2>3, <2>4 DEF FollowSkipMoves, FollowSkipGains, Pushes
  <2>7. \A e \in Ephemerons : rk[e] # 0 /\ HasOp(Pushes, e)' => state'[e] = "resolved"
    BY <1>s, <1>e, <2>1, <2>2, <2>3, <2>4 DEF FollowSkipMoves, FollowSkipGains, Pushes
  <2>8. \A e \in Ephemerons : HasOp({"tryResolve"}, e)' => rk[e] # 0
    BY <1>f, <2>1, <2>2, <2>3, <2>4 DEF FollowSkipMoves, FollowSkipGains
  <2>9. QED
    BY <1>a, <2>5, <2>6, <2>7, <2>8 DEF Ranked
<1>5. CASE FollowSwap(w)
  <2>1. FollowSwapMoves(w)
    BY <1>5, FollowSwapOps
  <2>2. markedObjects' = markedObjects /\ greyObjects' = greyObjects /\ state' = state /\ rootList' = rootList
    BY <1>5 DEF FollowSwap
  <2>3. FollowSwapGains(w)
    BY <2>1, FollowSwapGained
  <2>4. Op(w).new # NoRef => rk[Op(w).new] # 0
    BY <2>1, WalkRanks DEF FollowSwapMoves, Walks
  <2>5. \A e \in Ephemerons : rk[e] # 0 => state'[e] # "claimed" /\ Started(e)'
    BY <1>s, <1>0, <1>c, <2>1, <2>2, <2>3, <2>4 DEF FollowSwapMoves, FollowSwapGains
  <2>6. \A e \in Ephemerons : rk[e] = 0 /\ state'[e] = "pending" =>
         HasOp(Pushes, e)' /\ HasOp({"recheck"}, e)'
    BY <1>s, <1>d, <2>1, <2>2, <2>3, <2>4 DEF FollowSwapMoves, FollowSwapGains, Pushes
  <2>7. \A e \in Ephemerons : rk[e] # 0 /\ HasOp(Pushes, e)' => state'[e] = "resolved"
    BY <1>s, <1>e, <2>1, <2>2, <2>3, <2>4 DEF FollowSwapMoves, FollowSwapGains, Pushes
  <2>8. \A e \in Ephemerons : HasOp({"tryResolve"}, e)' => rk[e] # 0
    BY <1>f, <2>1, <2>2, <2>3, <2>4 DEF FollowSwapMoves, FollowSwapGains
  <2>9. QED
    BY <1>a, <2>5, <2>6, <2>7, <2>8 DEF Ranked
<1>6. CASE Resolve(w)
  <2>1. ResolveMoves(w)
    BY <1>6, ResolveOps
  <2>2. markedObjects' = markedObjects /\ greyObjects' = greyObjects /\ link' = link /\ rootList' = rootList
    BY <1>6 DEF Resolve
  <2>3. ResolveGains(w)
    BY <2>1, ResolveGained
  <2>4. rk[Op(w).obj] # 0
    BY <1>f, <2>1, <2>3 DEF ResolveMoves, ResolveGains
  <2>5. \A e \in Ephemerons : rk[e] # 0 => state'[e] # "claimed" /\ Started(e)'
    BY <1>s, <1>0, <1>c, <2>1, <2>2, <2>3, <2>4 DEF ResolveMoves, ResolveGains
  <2>6. \A e \in Ephemerons : rk[e] = 0 /\ state'[e] = "pending" =>
         HasOp(Pushes, e)' /\ HasOp({"recheck"}, e)'
    BY <1>s, <1>d, <2>1, <2>2, <2>3, <2>4 DEF ResolveMoves, ResolveGains, Pushes
  <2>7. \A e \in Ephemerons : rk[e] # 0 /\ HasOp(Pushes, e)' => state'[e] = "resolved"
    BY <1>s, <1>e, <2>1, <2>2, <2>3, <2>4 DEF ResolveMoves, ResolveGains, Pushes
  <2>8. \A e \in Ephemerons : HasOp({"tryResolve"}, e)' => rk[e] # 0
    BY <1>f, <2>1, <2>2, <2>3, <2>4 DEF ResolveMoves, ResolveGains
  <2>9. QED
    BY <1>a, <2>5, <2>6, <2>7, <2>8 DEF Ranked
<1>7. CASE VisitEdge(w)
  <2>1. VisitEdgeMoves(w)
    BY <1>7, VisitEdgeOps
  <2>2. greyObjects' = greyObjects /\ state' = state /\ link' = link /\ rootList' = rootList
    BY <1>7 DEF VisitEdge
  <2>3. VisitEdgeGains(w)
    BY <2>1, VisitEdgeGained
  <2>4. \A e \in Ephemerons : rk[e] # 0 => state'[e] # "claimed" /\ Started(e)'
    BY <1>s, <1>0, <1>c, <2>1, <2>2, <2>3 DEF VisitEdgeMoves, VisitEdgeGains
  <2>5. \A e \in Ephemerons : rk[e] = 0 /\ state'[e] = "pending" =>
         HasOp(Pushes, e)' /\ HasOp({"recheck"}, e)'
    BY <1>s, <1>d, <2>1, <2>2, <2>3 DEF VisitEdgeMoves, VisitEdgeGains, Pushes
  <2>6. \A e \in Ephemerons : rk[e] # 0 /\ HasOp(Pushes, e)' => state'[e] = "resolved"
    BY <1>s, <1>e, <2>1, <2>2, <2>3 DEF VisitEdgeMoves, VisitEdgeGains, Pushes
  <2>7. \A e \in Ephemerons : HasOp({"tryResolve"}, e)' => rk[e] # 0
    BY <1>f, <2>1, <2>2, <2>3 DEF VisitEdgeMoves, VisitEdgeGains
  <2>8. QED
    BY <1>a, <2>4, <2>5, <2>6, <2>7 DEF Ranked
<1>8. CASE EnqueueObject(w)
  <2>1. EnqueueMoves(w)
    BY <1>8, EnqueueOps
  <2>2. markedObjects' = markedObjects /\ state' = state /\ link' = link /\ rootList' = rootList
    BY <1>8 DEF EnqueueObject
  <2>3. EnqueueGains(w)
    BY <2>1, EnqueueGained
  <2>4. \A e \in Ephemerons : rk[e] # 0 => state'[e] # "claimed" /\ Started(e)'
    BY <1>s, <1>0, <1>c, <2>1, <2>2, <2>3 DEF EnqueueMoves, EnqueueGains
  <2>5. \A e \in Ephemerons : rk[e] = 0 /\ state'[e] = "pending" =>
         HasOp(Pushes, e)' /\ HasOp({"recheck"}, e)'
    BY <1>s, <1>d, <2>1, <2>2, <2>3 DEF EnqueueMoves, EnqueueGains, Pushes
  <2>6. \A e \in Ephemerons : rk[e] # 0 /\ HasOp(Pushes, e)' => state'[e] = "resolved"
    BY <1>s, <1>e, <2>1, <2>2, <2>3 DEF EnqueueMoves, EnqueueGains, Pushes
  <2>7. \A e \in Ephemerons : HasOp({"tryResolve"}, e)' => rk[e] # 0
    BY <1>f, <2>1, <2>2, <2>3 DEF EnqueueMoves, EnqueueGains
  <2>8. QED
    BY <1>a, <2>4, <2>5, <2>6, <2>7 DEF Ranked
<1>9. CASE TraceObject(w)
  <2>1. PICK o \in greyObjects : TraceObjectMoves(o)
    BY <1>9, TraceObjectOps
  <2>2. markedObjects' = markedObjects /\ link' = link /\ rootList' = rootList
    BY <1>9 DEF TraceObject
  <2>3. TraceObjectGains(o)
    BY <2>1, TraceObjectGained
  <2>4. o \in Ephemerons => rk[o] = 0 /\ ~HasOp(Pushes, o)
    <3>1. o \in Ephemerons => ~Started(o)
      BY DEF Started
    <3>2. QED
      BY <1>0, <1>c, <3>1, Idle
  <2>5. state'[o] # state[o] => o \in Ephemerons
    BY <2>1 DEF TraceObjectMoves
  <2>6. \A e \in Ephemerons : rk[e] # 0 => state'[e] # "claimed" /\ Started(e)'
    BY <1>s, <1>0, <1>c, <2>1, <2>2, <2>3, <2>4, <2>5 DEF TraceObjectMoves, TraceObjectGains
  <2>7. \A e \in Ephemerons : rk[e] = 0 /\ state'[e] = "pending" =>
         HasOp(Pushes, e)' /\ HasOp({"recheck"}, e)'
    BY <1>s, <1>d, <2>1, <2>2, <2>3, <2>4, <2>5 DEF TraceObjectMoves, TraceObjectGains, Pushes
  <2>8. \A e \in Ephemerons : rk[e] # 0 /\ HasOp(Pushes, e)' => state'[e] = "resolved"
    BY <1>s, <1>e, <2>1, <2>2, <2>3, <2>4, <2>5 DEF TraceObjectMoves, TraceObjectGains, Pushes
  <2>9. \A e \in Ephemerons : HasOp({"tryResolve"}, e)' => rk[e] # 0
    BY <1>f, <2>1, <2>2, <2>3, <2>4, <2>5 DEF TraceObjectMoves, TraceObjectGains
  <2>10. QED
    BY <1>a, <2>6, <2>7, <2>8, <2>9 DEF Ranked
<1>10. CASE LookAtKey(w)
  <2>1. LookAtKeyMoves(w)
    BY <1>10, LookAtKeyOps
  <2>2. markedObjects' = markedObjects /\ greyObjects' = greyObjects /\ state' = state /\ link' = link /\ rootList' = rootList
    BY <1>10 DEF LookAtKey
  <2>3. LookAtKeyGains(w)
    BY <2>1, LookAtKeyGained
  <2>4. \A e \in Ephemerons : rk[e] # 0 => state'[e] # "claimed" /\ Started(e)'
    BY <1>s, <1>0, <1>c, <2>1, <2>2, <2>3 DEF LookAtKeyMoves, LookAtKeyGains
  <2>5. \A e \in Ephemerons : rk[e] = 0 /\ state'[e] = "pending" =>
         HasOp(Pushes, e)' /\ HasOp({"recheck"}, e)'
    BY <1>s, <1>d, <2>1, <2>2, <2>3 DEF LookAtKeyMoves, LookAtKeyGains, Pushes
  <2>6. \A e \in Ephemerons : rk[e] # 0 /\ HasOp(Pushes, e)' => state'[e] = "resolved"
    BY <1>s, <1>e, <2>1, <2>2, <2>3 DEF LookAtKeyMoves, LookAtKeyGains, Pushes
  <2>7. \A e \in Ephemerons : HasOp({"tryResolve"}, e)' => rk[e] # 0
    BY <1>f, <2>1, <2>2, <2>3 DEF LookAtKeyMoves, LookAtKeyGains
  <2>8. QED
    BY <1>a, <2>4, <2>5, <2>6, <2>7 DEF Ranked
<1>11. CASE FinishTraced(w)
  <2>1. FinishTracedMoves(w)
    BY <1>11, FinishTracedOps
  <2>2. markedObjects' = markedObjects /\ greyObjects' = greyObjects /\ link' = link /\ rootList' = rootList
    BY <1>11 DEF FinishTraced
  <2>3. FinishTracedGains(w)
    BY <2>1, FinishTracedGained
  <2>4. state[Op(w).obj] \in {"claimed", "resolved"} /\ HasOp({"setTraced"}, Op(w).obj)
    BY <1>k, <2>1, <2>3 DEF FinishTracedMoves, FinishTracedGains
  <2>5. \A e \in Ephemerons : rk[e] # 0 => state'[e] # "claimed" /\ Started(e)'
    BY <1>s, <1>0, <1>c, <2>1, <2>2, <2>3, <2>4 DEF FinishTracedMoves, FinishTracedGains
  <2>6. \A e \in Ephemerons : rk[e] = 0 /\ state'[e] = "pending" =>
         HasOp(Pushes, e)' /\ HasOp({"recheck"}, e)'
    BY <1>s, <1>d, <2>1, <2>2, <2>3, <2>4 DEF FinishTracedMoves, FinishTracedGains, Pushes
  <2>7. \A e \in Ephemerons : rk[e] # 0 /\ HasOp(Pushes, e)' => state'[e] = "resolved"
    <3>1. \A e : HasOp(Pushes, e)' => HasOp(Pushes, e)
      BY <2>3 DEF FinishTracedGains
    <3>2. QED
      BY <1>e, <1>p, <1>s, <2>1, <2>4, <3>1 DEF FinishTracedMoves
  <2>8. \A e \in Ephemerons : HasOp({"tryResolve"}, e)' => rk[e] # 0
    BY <1>f, <2>1, <2>2, <2>3, <2>4 DEF FinishTracedMoves, FinishTracedGains
  <2>9. QED
    BY <1>a, <2>5, <2>6, <2>7, <2>8 DEF Ranked
<1>12. CASE AddPending(w)
  <2>1. AddPendingMoves(w)
    BY <1>12, AddPendingOps
  <2>2. markedObjects' = markedObjects /\ greyObjects' = greyObjects /\ link' = link /\ rootList' = rootList
    BY <1>12 DEF AddPending
  <2>3. AddPendingGains(w)
    BY <2>1, AddPendingGained
  <2>4. state[Op(w).obj] = "claimed" /\ rk[Op(w).obj] = 0
    BY <1>c, <1>k, <2>1, <2>3 DEF AddPendingMoves, AddPendingGains
  <2>5. \A e \in Ephemerons : rk[e] # 0 => state'[e] # "claimed" /\ Started(e)'
    BY <1>s, <1>0, <1>c, <2>1, <2>2, <2>3, <2>4 DEF AddPendingMoves, AddPendingGains
  <2>6. \A e \in Ephemerons : rk[e] = 0 /\ state'[e] = "pending" =>
         HasOp(Pushes, e)' /\ HasOp({"recheck"}, e)'
    <3>0. PICK x : x = Op(w)
      OBVIOUS
    <3>1. Push(BucketFor(x.obj), x.obj).op \in Pushes /\ Push(BucketFor(x.obj), x.obj).obj = x.obj
      BY DEF Push, Pushes
    <3>2. Recheck(x.obj).op \in {"recheck"} /\ Recheck(x.obj).obj = x.obj
      BY DEF Recheck
    <3>3. HasOp(Pushes, x.obj)' /\ HasOp({"recheck"}, x.obj)'
      BY <2>1, <3>0, <3>1, <3>2, NowHas DEF AddPendingMoves
    <3>4. \A e \in Ephemerons : e # x.obj => state'[e] = state[e]
      BY <1>s, <2>1, <3>0 DEF AddPendingMoves
    <3>5. \A e \in Ephemerons : e # x.obj /\ HasOp(Pushes, e) /\ HasOp({"recheck"}, e) =>
            HasOp(Pushes, e)' /\ HasOp({"recheck"}, e)'
      BY <2>3, <3>0 DEF AddPendingGains
    <3>6. QED
      BY <1>d, <3>3, <3>4, <3>5
  <2>7. \A e \in Ephemerons : rk[e] # 0 /\ HasOp(Pushes, e)' => state'[e] = "resolved"
    BY <1>s, <1>e, <2>1, <2>2, <2>3, <2>4 DEF AddPendingMoves, AddPendingGains, Pushes
  <2>8. \A e \in Ephemerons : HasOp({"tryResolve"}, e)' => rk[e] # 0
    BY <1>f, <2>1, <2>2, <2>3, <2>4 DEF AddPendingMoves, AddPendingGains
  <2>9. QED
    BY <1>a, <2>5, <2>6, <2>7, <2>8 DEF Ranked
<1>13. CASE LookAgain(w)
  <2>1. LookAgainMoves(w)
    BY <1>13, LookAgainOps
  <2>2. markedObjects' = markedObjects /\ greyObjects' = greyObjects /\ state' = state /\ link' = link /\ rootList' = rootList
    BY <1>13 DEF LookAgain
  <2>3. LookAgainGains(w)
    BY <2>1, LookAgainGained
  <2>4. rk[Op(w).obj] # 0
    BY <2>1 DEF LookAgainMoves, RankedBy
  <2>5. \A e \in Ephemerons : rk[e] # 0 => state'[e] # "claimed" /\ Started(e)'
    BY <1>s, <1>0, <1>c, <2>1, <2>2, <2>3, <2>4 DEF LookAgainMoves, LookAgainGains
  <2>6. \A e \in Ephemerons : rk[e] = 0 /\ state'[e] = "pending" =>
         HasOp(Pushes, e)' /\ HasOp({"recheck"}, e)'
    BY <1>s, <1>d, <2>1, <2>2, <2>3, <2>4 DEF LookAgainMoves, LookAgainGains, Pushes
  <2>7. \A e \in Ephemerons : rk[e] # 0 /\ HasOp(Pushes, e)' => state'[e] = "resolved"
    BY <1>s, <1>e, <2>1, <2>2, <2>3, <2>4 DEF LookAgainMoves, LookAgainGains, Pushes
  <2>8. \A e \in Ephemerons : HasOp({"tryResolve"}, e)' => rk[e] # 0
    BY <1>f, <2>1, <2>2, <2>3, <2>4 DEF LookAgainMoves, LookAgainGains
  <2>9. QED
    BY <1>a, <2>5, <2>6, <2>7, <2>8 DEF Ranked
<1>14. CASE GoNextResolved(w)
  <2>1. NextResolvedMoves(w)
    BY <1>14, NextResolvedOps
  <2>2. markedObjects' = markedObjects /\ greyObjects' = greyObjects /\ state' = state /\ link' = link /\ rootList' = rootList
    BY <1>14 DEF GoNextResolved
  <2>3. NextResolvedGains(w)
    BY <2>1, NextResolvedGained
  <2>4. \A e \in Ephemerons : rk[e] # 0 => state'[e] # "claimed" /\ Started(e)'
    BY <1>s, <1>0, <1>c, <2>1, <2>2, <2>3 DEF NextResolvedMoves, NextResolvedGains
  <2>5. \A e \in Ephemerons : rk[e] = 0 /\ state'[e] = "pending" =>
         HasOp(Pushes, e)' /\ HasOp({"recheck"}, e)'
    BY <1>s, <1>d, <2>1, <2>2, <2>3 DEF NextResolvedMoves, NextResolvedGains, Pushes
  <2>6. \A e \in Ephemerons : rk[e] # 0 /\ HasOp(Pushes, e)' => state'[e] = "resolved"
    BY <1>s, <1>e, <2>1, <2>2, <2>3 DEF NextResolvedMoves, NextResolvedGains, Pushes
  <2>7. \A e \in Ephemerons : HasOp({"tryResolve"}, e)' => rk[e] # 0
    BY <1>f, <2>1, <2>2, <2>3 DEF NextResolvedMoves, NextResolvedGains
  <2>8. QED
    BY <1>a, <2>4, <2>5, <2>6, <2>7 DEF Ranked
<1>15. CASE TakeNextRoot(w)
  <2>1. PICK r \in rootList : TakeRootMoves(r)
    BY <1>15, TakeRootOps
  <2>2. markedObjects' = markedObjects /\ greyObjects' = greyObjects /\ state' = state /\ link' = link
    BY <1>15 DEF TakeNextRoot
  <2>3. TakeRootGains(r)
    BY <2>1, TakeRootGained
  <2>4. \A e \in Ephemerons : rk[e] # 0 => state'[e] # "claimed" /\ Started(e)'
    BY <1>s, <1>0, <1>c, <2>1, <2>2, <2>3 DEF TakeRootMoves, TakeRootGains
  <2>5. \A e \in Ephemerons : rk[e] = 0 /\ state'[e] = "pending" =>
         HasOp(Pushes, e)' /\ HasOp({"recheck"}, e)'
    BY <1>s, <1>d, <2>1, <2>2, <2>3 DEF TakeRootMoves, TakeRootGains, Pushes
  <2>6. \A e \in Ephemerons : rk[e] # 0 /\ HasOp(Pushes, e)' => state'[e] = "resolved"
    BY <1>s, <1>e, <2>1, <2>2, <2>3 DEF TakeRootMoves, TakeRootGains, Pushes
  <2>7. \A e \in Ephemerons : HasOp({"tryResolve"}, e)' => rk[e] # 0
    BY <1>f, <2>1, <2>2, <2>3 DEF TakeRootMoves, TakeRootGains
  <2>8. QED
    BY <1>a, <2>4, <2>5, <2>6, <2>7 DEF Ranked
<1>16. QED
  BY <1>1, <1>2, <1>3, <1>4, <1>5, <1>6, <1>7, <1>8, <1>9, <1>10, <1>11, <1>12, <1>13, <1>14, <1>15 DEF TraceStep

-------------------------------------------------------------------------------
(* Links *)

\* What a step of the tracers leaves as it is.
StateKept(r) ==
  /\ key' = key
  /\ \A e \in Ephemerons : r[e] # 0 /\ state'[e] = "pending" => state[e] = "pending"

LEMMA BetweenKept ==
  ASSUME NEW r, StateKept(r), NEW b, NEW v, NEW m, NoneBetween(r, b, v, m)
  PROVE  NoneBetween(r, b, v, m)'
BY DEF StateKept, NoneBetween, InBucket, BucketFor, Rank

LEMMA NodeKept ==
  ASSUME NEW r, StateKept(r), NEW b, NEW v
  PROVE  IsNode(r, b, v)' <=> IsNode(r, b, v)
BY DEF StateKept, IsNode, InBucket, BucketFor

LEMMA WalkKept ==
  ASSUME NEW r, StateKept(r), NEW x, WalkOk(r, x)
  PROVE  WalkOk(r, x)'
<1>1. PICK b : b = Bucket(BucketOf(x.obj))
  OBVIOUS
<1>2. IsCell(r, b, x.cell)'
  BY <1>1 DEF WalkOk, IsCell, InBucket, BucketFor, StateKept
<1>3. x.op # "follow" => IsNode(r, b, x.head)' /\ IsNode(r, b, x.new)'
  BY <1>1, NodeKept DEF WalkOk
<1>4. x.op # "follow" =>
        /\ Rank(r, x.new) <= Rank(r, x.head)
        /\ \A y \in Ephemerons : x.cell = PendingLink(y) => Rank(r, x.head) < r[y]
  BY DEF WalkOk
<1>5. x.op # "follow" => NoneBetween(r, b, x.new, Rank(r, x.head) + 1)'
  BY <1>1, BetweenKept DEF WalkOk, Rank
<1>6. QED
  BY <1>1, <1>2, <1>3, <1>4, <1>5 DEF WalkOk, Rank

LEMMA LinksFrom ==
  ASSUME NEW r, NEW n, Links(r, n), StateKept(r),
         \A k \in Buckets : link'[Bucket(k)] = link[Bucket(k)],
         \A e \in Ephemerons : r[e] # 0 => link'[PendingLink(e)] = link[PendingLink(e)],
         \A x \in Ops' : x.op \in Walks => x \in Ops \/ WalkOk(r, x)
  PROVE  Links(r, n)'
<1>1. ASSUME NEW k \in Buckets
      PROVE  (IsNode(r, Bucket(k), link[Bucket(k)]) /\ NoneBetween(r, Bucket(k), link[Bucket(k)], n))'
  <2>1. PICK b : b = Bucket(k)
    OBVIOUS
  <2>2. PICK v : v = link[b]
    OBVIOUS
  <2>3. IsNode(r, b, v) /\ NoneBetween(r, b, v, n)
    BY <2>1, <2>2 DEF Links
  <2>4. IsNode(r, b, v)' /\ NoneBetween(r, b, v, n)'
    BY <2>3, NodeKept, BetweenKept
  <2>5. link'[Bucket(k)] = v
    BY <2>1, <2>2
  <2>6. QED
    BY <2>1, <2>4, <2>5 DEF IsNode, NoneBetween, Rank
<1>2. ASSUME NEW x \in Ephemerons, r[x] # 0
      PROVE  (LET v == link[PendingLink(x)] IN
                IsNode(r, BucketFor(x), v) /\ Rank(r, v) < r[x] /\ NoneBetween(r, BucketFor(x), v, r[x]))'
  <2>1. PICK b : b = BucketFor(x)
    OBVIOUS
  <2>2. PICK v : v = link[PendingLink(x)]
    OBVIOUS
  <2>3. IsNode(r, b, v) /\ NoneBetween(r, b, v, r[x]) /\ Rank(r, v) < r[x]
    BY <1>2, <2>1, <2>2 DEF Links
  <2>4. IsNode(r, b, v)' /\ NoneBetween(r, b, v, r[x])'
    BY <2>3, NodeKept, BetweenKept
  <2>5. link'[PendingLink(x)] = v /\ BucketFor(x)' = b
    BY <1>2, <2>1, <2>2 DEF BucketFor, StateKept
  <2>6. QED
    BY <2>3, <2>4, <2>5 DEF IsNode, NoneBetween, Rank
<1>3. ASSUME NEW x \in Ops', x.op \in Walks PROVE WalkOk(r, x)'
  <2>1. WalkOk(r, x)
    BY <1>3 DEF Links
  <2>2. QED
    BY <2>1, WalkKept
<1>4. QED
  BY <1>1, <1>2, <1>3 DEF Links

\* Ranks are told apart.
LEMMA RankTypes ==
  ASSUME NEW r \in [Ephemerons -> Nat], NEW n \in Nat, Ranked(r, n), NoRef \notin Ephemerons
  PROVE  /\ \A v \in Ephs : Rank(r, v) \in Nat /\ (Rank(r, v) = 0 \/ v \in Ephemerons)
         /\ Rank(r, NoRef) = 0 /\ \A e \in Ephemerons : Rank(r, e) = r[e] /\ r[e] \in Nat /\ r[e] < n
         /\ \A e, f \in Ephemerons : r[e] = r[f] /\ r[e] # 0 => e = f
BY DEF Rank, Ephs, Ranked

LEMMA EphTypes == NoRef \notin Ephemerons /\ NoRef \notin Objects
BY WeakAssumption DEF Objects

\* A cell has been read.
LEMMA LoadedOk ==
  ASSUME WeakTypes, NEW r \in [Ephemerons -> Nat], NEW n \in Nat, RankedBy(r, n),
         NEW x \in Ops, x.op \in Walks, NEW v, v = link[x.cell]
  PROVE  /\ WalkOk(r, Skip(x.cell, x.obj, v, v))
         /\ \A e \in Ephemerons : r[e] # 0 /\ state[e] = "pending" /\ Toward(r, x, e) =>
              Toward(r, Skip(x.cell, x.obj, v, v), e)
<1>1. PICK b : b = Bucket(BucketOf(x.obj))
  OBVIOUS
<1>2. PICK c : c = x.cell
  OBVIOUS
<1>3. c \in Cells /\ IsCell(r, b, c) /\ BucketOf(x.obj) \in Buckets /\ v \in Ephs
  BY <1>1, <1>2, WalkRanks DEF WeakTypes
<1>4. Ranked(r, n) /\ Links(r, n)
  BY DEF RankedBy
<1>5. /\ IsNode(r, b, v)
      /\ \A y \in Ephemerons : c = PendingLink(y) => Rank(r, v) < r[y] /\ NoneBetween(r, b, v, r[y])
      /\ c = b => NoneBetween(r, b, v, n)
  <2>1. CASE c = b
    <3>1. \A y \in Ephemerons : c # PendingLink(y)
      BY <1>1, <1>3, <2>1, CellsApart
    <3>2. QED
      BY <1>1, <1>2, <1>3, <1>4, <2>1, <3>1 DEF Links
  <2>2. CASE \E y \in Ephemerons : InBucket(r, b, y) /\ c = PendingLink(y)
    <3>1. PICK y \in Ephemerons : InBucket(r, b, y) /\ c = PendingLink(y)
      BY <2>2
    <3>2. r[y] # 0 /\ BucketFor(y) = b
      BY <3>1 DEF InBucket
    <3>3. IsNode(r, b, v) /\ Rank(r, v) < r[y] /\ NoneBetween(r, b, v, r[y])
      BY <1>2, <1>4, <3>1, <3>2 DEF Links
    <3>4. c # b /\ \A z \in Ephemerons : c = PendingLink(z) => z = y
      BY <1>1, <1>3, <3>1, CellsApart
    <3>5. QED
      BY <3>3, <3>4
  <2>3. QED
    BY <1>3, <2>1, <2>2 DEF IsCell
<1>6. NoneBetween(r, b, v, Rank(r, v) + 1)
  BY <1>3, <1>4, RankTypes, EphTypes DEF NoneBetween
<1>7. PICK y : y = Skip(x.cell, x.obj, v, v)
  OBVIOUS
<1>8. y.op = "skip" /\ y.cell = c /\ y.obj = x.obj /\ y.head = v /\ y.new = v
  BY <1>2, <1>7 DEF Skip
<1>9. WalkOk(r, y)
  <2>1. Rank(r, y.new) <= Rank(r, y.head)
    BY <1>3, <1>4, <1>8, RankTypes, EphTypes
  <2>2. QED
    BY <1>1, <1>3, <1>5, <1>6, <1>8, <2>1 DEF WalkOk
<1>10. ASSUME NEW e \in Ephemerons, r[e] # 0, state[e] = "pending", Toward(r, x, e)
       PROVE  Toward(r, y, e)
  <2>1. x.obj = key[e] /\ \A z \in Ephemerons : c = PendingLink(z) => r[e] < r[z]
    BY <1>2, <1>10 DEF Toward
  <2>2. InBucket(r, b, e)
    BY <1>1, <1>10, <2>1 DEF InBucket, BucketFor
  <2>3. r[e] <= Rank(r, v)
    <3>1. CASE c = b
      <4>1. Rank(r, v) < r[e] => n <= r[e]
        BY <1>5, <1>10, <2>2, <3>1 DEF NoneBetween
      <4>2. QED
        BY <1>3, <1>4, <4>1, RankTypes, EphTypes
    <3>2. CASE c # b
      <4>1. PICK z \in Ephemerons : c = PendingLink(z)
        BY <1>3, <3>2 DEF IsCell
      <4>2. (Rank(r, v) < r[e] => r[z] <= r[e]) /\ r[e] < r[z]
        BY <1>5, <1>10, <2>1, <2>2, <4>1 DEF NoneBetween
      <4>3. QED
        BY <1>3, <1>4, <4>1, <4>2, RankTypes, EphTypes
    <3>3. QED
      BY <3>1, <3>2
  <2>4. QED
    BY <1>8, <2>1, <2>3 DEF Toward, Walks
<1>11. QED
  BY <1>7, <1>9, <1>10

\* A node that does not wait has been skipped.
LEMMA SkippedOk ==
  ASSUME WeakTypes, NEW r \in [Ephemerons -> Nat], NEW n \in Nat, RankedBy(r, n),
         NEW x \in Ops, x.op = "skip", x.new \in Ephemerons, state[x.new] # "pending",
         NEW v, v = link[PendingLink(x.new)]
  PROVE  /\ WalkOk(r, Skip(x.cell, x.obj, x.head, v))
         /\ \A e \in Ephemerons : r[e] # 0 /\ state[e] = "pending" /\ Toward(r, x, e) =>
              Toward(r, Skip(x.cell, x.obj, x.head, v), e)
<1>1. PICK b : b = Bucket(BucketOf(x.obj))
  OBVIOUS
<1>2. PICK m : m = x.new
  OBVIOUS
<1>3. m \in Ephemerons /\ state[m] # "pending" /\ v = link[PendingLink(m)] /\ v \in Ephs /\ x.head \in Ephs
  BY <1>2, CellsApart, OpsIn, OpKinds DEF WeakTypes
<1>4. Ranked(r, n) /\ Links(r, n)
  BY DEF RankedBy
<1>5. /\ IsCell(r, b, x.cell) /\ IsNode(r, b, x.head) /\ IsNode(r, b, m)
      /\ Rank(r, m) <= Rank(r, x.head)
      /\ \A y \in Ephemerons : x.cell = PendingLink(y) => Rank(r, x.head) < r[y]
      /\ NoneBetween(r, b, m, Rank(r, x.head) + 1)
  BY <1>1, <1>2, <1>4 DEF Links, WalkOk, Walks
<1>6. r[m] # 0 /\ BucketFor(m) = b
  BY <1>3, <1>5, EphTypes DEF IsNode, InBucket
<1>7. IsNode(r, b, v) /\ Rank(r, v) < r[m] /\ NoneBetween(r, b, v, r[m])
  BY <1>3, <1>4, <1>6 DEF Links
<1>8. Rank(r, v) <= Rank(r, x.head)
  BY <1>3, <1>4, <1>5, <1>7, RankTypes, EphTypes
<1>9. NoneBetween(r, b, v, Rank(r, x.head) + 1)
  <2>1. SUFFICES ASSUME NEW y \in Ephemerons, InBucket(r, b, y), state[y] = "pending", Rank(r, v) < r[y]
                 PROVE  Rank(r, x.head) + 1 <= r[y]
    BY DEF NoneBetween
  <2>2. r[m] <= r[y]
    BY <1>7, <2>1 DEF NoneBetween
  <2>3. y # m
    BY <1>3, <2>1
  <2>4. r[m] # r[y]
    BY <1>3, <1>4, <1>6, <2>3, RankTypes, EphTypes
  <2>5. Rank(r, m) < r[y]
    BY <1>3, <1>4, <2>2, <2>4, RankTypes, EphTypes
  <2>6. QED
    BY <1>5, <2>1, <2>5 DEF NoneBetween
<1>10. PICK y : y = Skip(x.cell, x.obj, x.head, v)
  OBVIOUS
<1>11. y.op = "skip" /\ y.cell = x.cell /\ y.obj = x.obj /\ y.head = x.head /\ y.new = v
  BY <1>10 DEF Skip
<1>12. WalkOk(r, y)
  BY <1>1, <1>5, <1>7, <1>8, <1>9, <1>11 DEF WalkOk
<1>13. ASSUME NEW e \in Ephemerons, r[e] # 0, state[e] = "pending", Toward(r, x, e)
       PROVE  Toward(r, y, e)
  <2>1. /\ x.obj = key[e] /\ \A z \in Ephemerons : x.cell = PendingLink(z) => r[e] < r[z]
        /\ r[e] <= Rank(r, m)
    BY <1>2, <1>13 DEF Toward
  <2>2. InBucket(r, b, e)
    BY <1>1, <1>13, <2>1 DEF InBucket, BucketFor
  <2>3. r[e] # r[m]
    BY <1>3, <1>4, <1>13, RankTypes, EphTypes
  <2>4. r[e] < r[m]
    BY <1>3, <1>4, <2>1, <2>3, RankTypes, EphTypes
  <2>5. Rank(r, v) < r[e] => r[m] <= r[e]
    BY <1>7, <1>13, <2>2 DEF NoneBetween
  <2>6. r[e] <= Rank(r, v)
    BY <1>3, <1>4, <2>4, <2>5, RankTypes, EphTypes
  <2>7. QED
    BY <1>11, <2>1, <2>6 DEF Toward, Walks
<1>14. QED
  BY <1>10, <1>12, <1>13

\* The nodes that were skipped are about to be elided.
LEMMA ElidesOk ==
  ASSUME NEW r, NEW n, RankedBy(r, n), NEW x \in Ops, x.op = "skip"
  PROVE  /\ WalkOk(r, FollowCas(x.cell, x.obj, x.head, x.new))
         /\ \A e \in Ephemerons : Toward(r, x, e) =>
              Toward(r, FollowCas(x.cell, x.obj, x.head, x.new), e)
<1>1. PICK y : y = FollowCas(x.cell, x.obj, x.head, x.new)
  OBVIOUS
<1>2. y.op = "followCas" /\ y.cell = x.cell /\ y.obj = x.obj /\ y.head = x.head /\ y.new = x.new
  BY <1>1 DEF FollowCas
<1>3. WalkOk(r, x)
  BY DEF RankedBy, Links, Walks
<1>4. WalkOk(r, y)
  BY <1>2, <1>3 DEF WalkOk
<1>5. \A e \in Ephemerons : Toward(r, x, e) => Toward(r, y, e)
  BY <1>2 DEF Toward, Walks
<1>6. QED
  BY <1>1, <1>4, <1>5

\* A node has been found.
LEMMA FoundOk ==
  ASSUME WeakTypes, NEW r \in [Ephemerons -> Nat], NEW n \in Nat, RankedBy(r, n),
         NEW x \in Ops, x.op \in {"skip", "followCas"}
  PROVE  /\ \A y \in AfterOps(x.obj, x.new) : y.op \in Walks => WalkOk(r, y)
         /\ \A e \in Ephemerons : r[e] # 0 /\ Toward(r, x, e) =>
              \E y \in AfterOps(x.obj, x.new) : (y.op = "tryResolve" /\ y.obj = e) \/ Toward(r, y, e)
<1>1. PICK b : b = Bucket(BucketOf(x.obj))
  OBVIOUS
<1>2. PICK m : m = x.new
  OBVIOUS
<1>3. m \in Ephs
  BY <1>2, OpsIn, OpKinds
<1>4. Ranked(r, n)
  BY DEF RankedBy
<1>5. IsNode(r, b, m)
  BY <1>1, <1>2 DEF RankedBy, Links, WalkOk, Walks
<1>6. CASE m = NoRef
  <2>1. AfterOps(x.obj, x.new) = {}
    BY <1>2, <1>6 DEF AfterOps
  <2>2. \A e \in Ephemerons : Toward(r, x, e) => r[e] = 0
    BY <1>2, <1>4, <1>6, RankTypes, EphTypes DEF Toward
  <2>3. QED
    BY <2>1, <2>2
<1>7. CASE m # NoRef
  <2>1. m \in Ephemerons /\ InBucket(r, b, m)
    BY <1>3, <1>5, <1>7 DEF Ephs, IsNode
  <2>2. PICK y : y = Follow(PendingLink(m), x.obj)
    OBVIOUS
  <2>3. y.op = "follow" /\ y.cell = PendingLink(m) /\ y.obj = x.obj /\ y \in AfterOps(x.obj, x.new)
    BY <1>2, <1>7, <2>2 DEF Follow, AfterOps
  <2>4. WalkOk(r, y)
    BY <1>1, <2>1, <2>3 DEF WalkOk, IsCell
  <2>5. \A z \in AfterOps(x.obj, x.new) : z.op \in Walks => z = y
    BY <1>2, <1>7, <2>2 DEF AfterOps, TryResolve, Walks
  <2>6. ASSUME NEW e \in Ephemerons, r[e] # 0, Toward(r, x, e)
        PROVE  \E z \in AfterOps(x.obj, x.new) : (z.op = "tryResolve" /\ z.obj = e) \/ Toward(r, z, e)
    <3>1. x.obj = key[e] /\ r[e] <= Rank(r, m)
      BY <1>2, <2>6 DEF Toward
    <3>2. CASE e = m
      <4>1. TryResolve(m) \in AfterOps(x.obj, x.new)
        BY <1>2, <1>7, <3>1, <3>2 DEF AfterOps
      <4>2. TryResolve(m).op = "tryResolve" /\ TryResolve(m).obj = e
        BY <3>2 DEF TryResolve
      <4>3. QED
        BY <4>1, <4>2
    <3>3. CASE e # m
      <4>1. r[e] < r[m]
        BY <1>4, <2>1, <2>6, <3>1, <3>3, RankTypes, EphTypes
      <4>2. \A z \in Ephemerons : y.cell = PendingLink(z) => r[e] < r[z]
        BY <2>1, <2>3, <4>1, CellsApart
      <4>3. Toward(r, y, e)
        BY <2>3, <3>1, <4>2 DEF Toward, Walks
      <4>4. QED
        BY <2>3, <4>3
    <3>4. QED
      BY <3>2, <3>3
  <2>7. QED
    BY <2>4, <2>5, <2>6
<1>8. QED
  BY <1>6, <1>7

\* A step that puts nothing in a bucket, and elides nothing, leaves the links as they are.
LEMMA LinksKept ==
  ASSUME WeakTypes, Phases, Tracing, TraceInv, NEW w \in Workers, TraceStep(w), ~FollowSwap(w),
         NEW rk \in [Ephemerons -> Nat], NEW n \in Nat, RankedBy(rk, n),
         PushSwap(w) => Op(w).cell = Resolved \/ link[Op(w).cell] # Op(w).tail
  PROVE  Links(rk, n)'
<1>s. state \in [Ephemerons -> {"traced", "claimed", "pending", "resolved"}]
  BY DEF WeakTypes
<1>0. Pushed /\ Claimed /\ key' = key
  BY TraceFrame DEF TraceInv
<1>b. link \in [Cells -> Ephs]
  BY DEF WeakTypes
<1>a. Links(rk, n) /\ Ranked(rk, n)
  BY DEF RankedBy
<1>c. \A e \in Ephemerons : rk[e] # 0 => state[e] # "claimed"
  BY <1>a DEF Ranked
<1>k. \A e \in Ephemerons : HasOp({"publish"}, e) => state[e] = "claimed"
  BY <1>0 DEF Claimed, HasOp
<1>1. CASE PushLoad(w)
  <2>1. PushLoadMoves(w)
    BY <1>1, PushLoadOps
  <2>2. markedObjects' = markedObjects /\ greyObjects' = greyObjects /\ state' = state /\ rootList' = rootList
    BY <1>1 DEF PushLoad
  <2>3. PushLoadGains(w)
    BY <2>1, PushLoadGained
  <2>4. \A e \in Ephemerons : rk[e] # 0 /\ state'[e] = "pending" => state[e] = "pending"
    BY <1>s, <1>c, <2>1, <2>2, <2>3 DEF PushLoadMoves, PushLoadGains
  <2>5. \A x \in Ops' : x.op \in Walks => x \in Ops \/ WalkOk(rk, x)
    BY <2>1, <2>2 DEF PushLoadMoves, Becomes, PushCas, Walks
  <2>6. \A k \in Buckets : link'[Bucket(k)] = link[Bucket(k)]
    <3>0. PICK x : x = Op(w)
      OBVIOUS
    <3>1. x.obj \in Ephemerons /\ link' = [link EXCEPT ![LinkOf(x.cell, x.obj)] = link[x.cell]]
      BY <2>1, <3>0 DEF PushLoadMoves
    <3>2. \A k \in Buckets : LinkOf(x.cell, x.obj) # Bucket(k)
      BY <3>1, CellsApart DEF LinkOf
    <3>3. QED
      BY <1>b, <3>1, <3>2, CellsApart
  <2>7. \A e \in Ephemerons : rk[e] # 0 => link'[PendingLink(e)] = link[PendingLink(e)]
    <3>0. PICK x : x = Op(w)
      OBVIOUS
    <3>1. /\ x \in Ops /\ x.op \in Pushes /\ x.obj \in Ephemerons
          /\ link' = [link EXCEPT ![LinkOf(x.cell, x.obj)] = link[x.cell]]
      BY <2>1, <3>0 DEF PushLoadMoves, Pushes
    <3>2. HasOp(Pushes, x.obj)
      BY <3>1, PushIn
    <3>3. rk[x.obj] # 0 => x.cell = Resolved
      <4>1. rk[x.obj] # 0 => state[x.obj] = "resolved"
        BY <1>a, <3>1, <3>2 DEF Ranked
      <4>2. QED
        BY <1>0, <3>1, <4>1 DEF Pushed
    <3>4. \A e \in Ephemerons : rk[e] # 0 => LinkOf(x.cell, x.obj) # PendingLink(e)
      BY <3>1, <3>3, CellsApart DEF LinkOf
    <3>5. QED
      BY <1>b, <3>1, <3>4, CellsApart
  <2>8. QED
    <3>1. StateKept(rk)
      BY <1>0, <2>4 DEF StateKept
    <3>2. QED
      BY <1>a, <2>5, <2>6, <2>7, <3>1, LinksFrom
<1>2. CASE PushSwap(w)
  <2>1. PushSwapMoves(w)
    BY <1>2, PushSwapOps
  <2>2. markedObjects' = markedObjects /\ greyObjects' = greyObjects /\ state' = state /\ rootList' = rootList
    BY <1>2 DEF PushSwap
  <2>3. PushSwapGains(w)
    BY <2>1, PushSwapGained
  <2>4. \A e \in Ephemerons : rk[e] # 0 /\ state'[e] = "pending" => state[e] = "pending"
    BY <1>s, <1>c, <2>1, <2>2, <2>3 DEF PushSwapMoves, PushSwapGains
  <2>5. \A x \in Ops' : x.op \in Walks => x \in Ops \/ WalkOk(rk, x)
    BY <2>1, <2>2 DEF PushSwapMoves, Becomes, Push, Walks
  <2>6. \A k \in Buckets : link'[Bucket(k)] = link[Bucket(k)]
    <3>0. PICK x : x = Op(w)
      OBVIOUS
    <3>1. CASE x.cell = Resolved
      <4>1. link' = link \/ link' = [link EXCEPT ![Resolved] = x.obj]
        BY <2>1, <3>0, <3>1 DEF PushSwapMoves
      <4>2. QED
        BY <1>b, <4>1, CellsApart
    <3>2. CASE link[x.cell] # x.tail
      BY <2>1, <3>0, <3>2 DEF PushSwapMoves
    <3>3. QED
      BY <1>2, <3>0, <3>1, <3>2
  <2>7. \A e \in Ephemerons : rk[e] # 0 => link'[PendingLink(e)] = link[PendingLink(e)]
    <3>0. PICK x : x = Op(w)
      OBVIOUS
    <3>1. CASE x.cell = Resolved
      <4>1. link' = link \/ link' = [link EXCEPT ![Resolved] = x.obj]
        BY <2>1, <3>0, <3>1 DEF PushSwapMoves
      <4>2. QED
        BY <1>b, <4>1, CellsApart
    <3>2. CASE link[x.cell] # x.tail
      BY <2>1, <3>0, <3>2 DEF PushSwapMoves
    <3>3. QED
      BY <1>2, <3>0, <3>1, <3>2
  <2>8. QED
    <3>1. StateKept(rk)
      BY <1>0, <2>4 DEF StateKept
    <3>2. QED
      BY <1>a, <2>5, <2>6, <2>7, <3>1, LinksFrom
<1>3. CASE FollowLoad(w)
  <2>1. FollowLoadMoves(w)
    BY <1>3, FollowLoadOps
  <2>2. markedObjects' = markedObjects /\ greyObjects' = greyObjects /\ state' = state /\ link' = link /\ rootList' = rootList
    BY <1>3 DEF FollowLoad
  <2>3. FollowLoadGains(w)
    BY <2>1, FollowLoadGained
  <2>4. \A e \in Ephemerons : rk[e] # 0 /\ state'[e] = "pending" => state[e] = "pending"
    BY <1>s, <1>c, <2>1, <2>2, <2>3 DEF FollowLoadMoves, FollowLoadGains
  <2>5. \A x \in Ops' : x.op \in Walks => x \in Ops \/ WalkOk(rk, x)
    <3>0. PICK x : x = Op(w)
      OBVIOUS
    <3>1. PICK v : v = link[x.cell]
      OBVIOUS
    <3>2. x \in Ops /\ x.op \in Walks
      BY <2>1, <3>0 DEF FollowLoadMoves, Walks
    <3>3. WalkOk(rk, Skip(x.cell, x.obj, v, v))
      BY <3>1, <3>2, LoadedOk
    <3>4. \A y \in Ops' : y \in Ops \/ y = Skip(x.cell, x.obj, v, v)
      BY <2>1, <3>0, <3>1 DEF FollowLoadMoves, Becomes
    <3>5. QED
      BY <3>3, <3>4
  <2>6. \A k \in Buckets : link'[Bucket(k)] = link[Bucket(k)]
    BY <2>2
  <2>7. \A e \in Ephemerons : rk[e] # 0 => link'[PendingLink(e)] = link[PendingLink(e)]
    BY <2>2
  <2>8. QED
    <3>1. StateKept(rk)
      BY <1>0, <2>4 DEF StateKept
    <3>2. QED
      BY <1>a, <2>5, <2>6, <2>7, <3>1, LinksFrom
<1>4. CASE FollowSkip(w)
  <2>1. FollowSkipMoves(w)
    BY <1>4, FollowSkipOps
  <2>2. markedObjects' = markedObjects /\ greyObjects' = greyObjects /\ state' = state /\ link' = link /\ rootList' = rootList
    BY <1>4 DEF FollowSkip
  <2>3. FollowSkipGains(w)
    BY <2>1, FollowSkipGained
  <2>4. \A e \in Ephemerons : rk[e] # 0 /\ state'[e] = "pending" => state[e] = "pending"
    BY <1>s, <1>c, <2>1, <2>2, <2>3 DEF FollowSkipMoves, FollowSkipGains
  <2>5. \A x \in Ops' : x.op \in Walks => x \in Ops \/ WalkOk(rk, x)
    <3>0. PICK x : x = Op(w)
      OBVIOUS
    <3>1. x \in Ops /\ x.op = "skip"
      BY <2>1, <3>0 DEF FollowSkipMoves
    <3>2. PICK v : v = link[PendingLink(x.new)]
      OBVIOUS
    <3>3. /\ WalkOk(rk, FollowCas(x.cell, x.obj, x.head, x.new))
          /\ \A y \in AfterOps(x.obj, x.new) : y.op \in Walks => WalkOk(rk, y)
          /\ x.new \in Ephemerons /\ state[x.new] # "pending" => WalkOk(rk, Skip(x.cell, x.obj, x.head, v))
      BY <3>1, <3>2, ElidesOk, FoundOk, SkippedOk
    <3>4. \/ /\ x.new \in Ephemerons /\ state[x.new] # "pending"
             /\ Becomes({x}, {Skip(x.cell, x.obj, x.head, v)})
          \/ Becomes({x}, AfterOps(x.obj, x.new))
          \/ Becomes({x}, {FollowCas(x.cell, x.obj, x.head, x.new)})
      BY <2>1, <3>0, <3>2 DEF FollowSkipMoves
    <3>5. QED
      BY <3>3, <3>4 DEF Becomes
  <2>6. \A k \in Buckets : link'[Bucket(k)] = link[Bucket(k)]
    BY <2>2
  <2>7. \A e \in Ephemerons : rk[e] # 0 => link'[PendingLink(e)] = link[PendingLink(e)]
    BY <2>2
  <2>8. QED
    <3>1. StateKept(rk)
      BY <1>0, <2>4 DEF StateKept
    <3>2. QED
      BY <1>a, <2>5, <2>6, <2>7, <3>1, LinksFrom
<1>5. CASE Resolve(w)
  <2>1. ResolveMoves(w)
    BY <1>5, ResolveOps
  <2>2. markedObjects' = markedObjects /\ greyObjects' = greyObjects /\ link' = link /\ rootList' = rootList
    BY <1>5 DEF Resolve
  <2>3. ResolveGains(w)
    BY <2>1, ResolveGained
  <2>4. \A e \in Ephemerons : rk[e] # 0 /\ state'[e] = "pending" => state[e] = "pending"
    BY <1>s, <1>c, <2>1, <2>2, <2>3 DEF ResolveMoves, ResolveGains
  <2>5. \A x \in Ops' : x.op \in Walks => x \in Ops \/ WalkOk(rk, x)
    BY <2>1, <2>2 DEF ResolveMoves, Becomes, Push, Walks
  <2>6. \A k \in Buckets : link'[Bucket(k)] = link[Bucket(k)]
    BY <2>2
  <2>7. \A e \in Ephemerons : rk[e] # 0 => link'[PendingLink(e)] = link[PendingLink(e)]
    BY <2>2
  <2>8. QED
    <3>1. StateKept(rk)
      BY <1>0, <2>4 DEF StateKept
    <3>2. QED
      BY <1>a, <2>5, <2>6, <2>7, <3>1, LinksFrom
<1>6. CASE VisitEdge(w)
  <2>1. VisitEdgeMoves(w)
    BY <1>6, VisitEdgeOps
  <2>2. greyObjects' = greyObjects /\ state' = state /\ link' = link /\ rootList' = rootList
    BY <1>6 DEF VisitEdge
  <2>3. VisitEdgeGains(w)
    BY <2>1, VisitEdgeGained
  <2>4. \A e \in Ephemerons : rk[e] # 0 /\ state'[e] = "pending" => state[e] = "pending"
    BY <1>s, <1>c, <2>1, <2>2, <2>3 DEF VisitEdgeMoves, VisitEdgeGains
  <2>5. \A x \in Ops' : x.op \in Walks => x \in Ops \/ WalkOk(rk, x)
    <3>0. PICK x : x = Op(w)
      OBVIOUS
    <3>1. WalkOk(rk, Follow(Bucket(BucketOf(x.obj)), x.obj))
      BY DEF WalkOk, Follow, IsCell
    <3>2. \A y \in Ops' : y.op \in Walks => y \in Ops \/ y = Follow(Bucket(BucketOf(x.obj)), x.obj)
      BY <2>1, <3>0 DEF VisitEdgeMoves, Becomes, Enqueue, Walks
    <3>3. QED
      BY <3>1, <3>2
  <2>6. \A k \in Buckets : link'[Bucket(k)] = link[Bucket(k)]
    BY <2>2
  <2>7. \A e \in Ephemerons : rk[e] # 0 => link'[PendingLink(e)] = link[PendingLink(e)]
    BY <2>2
  <2>8. QED
    <3>1. StateKept(rk)
      BY <1>0, <2>4 DEF StateKept
    <3>2. QED
      BY <1>a, <2>5, <2>6, <2>7, <3>1, LinksFrom
<1>7. CASE EnqueueObject(w)
  <2>1. EnqueueMoves(w)
    BY <1>7, EnqueueOps
  <2>2. markedObjects' = markedObjects /\ state' = state /\ link' = link /\ rootList' = rootList
    BY <1>7 DEF EnqueueObject
  <2>3. EnqueueGains(w)
    BY <2>1, EnqueueGained
  <2>4. \A e \in Ephemerons : rk[e] # 0 /\ state'[e] = "pending" => state[e] = "pending"
    BY <1>s, <1>c, <2>1, <2>2, <2>3 DEF EnqueueMoves, EnqueueGains
  <2>5. \A x \in Ops' : x.op \in Walks => x \in Ops \/ WalkOk(rk, x)
    BY <2>1, <2>2 DEF EnqueueMoves, Becomes, Walks
  <2>6. \A k \in Buckets : link'[Bucket(k)] = link[Bucket(k)]
    BY <2>2
  <2>7. \A e \in Ephemerons : rk[e] # 0 => link'[PendingLink(e)] = link[PendingLink(e)]
    BY <2>2
  <2>8. QED
    <3>1. StateKept(rk)
      BY <1>0, <2>4 DEF StateKept
    <3>2. QED
      BY <1>a, <2>5, <2>6, <2>7, <3>1, LinksFrom
<1>8. CASE TraceObject(w)
  <2>1. PICK o \in greyObjects : TraceObjectMoves(o)
    BY <1>8, TraceObjectOps
  <2>2. markedObjects' = markedObjects /\ link' = link /\ rootList' = rootList
    BY <1>8 DEF TraceObject
  <2>3. TraceObjectGains(o)
    BY <2>1, TraceObjectGained
  <2>4. state'[o] # state[o] => o \in Ephemerons
    BY <2>1 DEF TraceObjectMoves
  <2>5. \A e \in Ephemerons : rk[e] # 0 /\ state'[e] = "pending" => state[e] = "pending"
    BY <1>s, <1>c, <2>1, <2>2, <2>3, <2>4 DEF TraceObjectMoves, TraceObjectGains
  <2>6. \A x \in Ops' : x.op \in Walks => x \in Ops \/ WalkOk(rk, x)
    BY <2>1, <2>2, <2>4 DEF TraceObjectMoves, Becomes, VisitObject, VisitKey, Walks
  <2>7. \A k \in Buckets : link'[Bucket(k)] = link[Bucket(k)]
    BY <2>2
  <2>8. \A e \in Ephemerons : rk[e] # 0 => link'[PendingLink(e)] = link[PendingLink(e)]
    BY <2>2
  <2>9. QED
    <3>1. StateKept(rk)
      BY <1>0, <2>5 DEF StateKept
    <3>2. QED
      BY <1>a, <2>6, <2>7, <2>8, <3>1, LinksFrom
<1>9. CASE LookAtKey(w)
  <2>1. LookAtKeyMoves(w)
    BY <1>9, LookAtKeyOps
  <2>2. markedObjects' = markedObjects /\ greyObjects' = greyObjects /\ state' = state /\ link' = link /\ rootList' = rootList
    BY <1>9 DEF LookAtKey
  <2>3. LookAtKeyGains(w)
    BY <2>1, LookAtKeyGained
  <2>4. \A e \in Ephemerons : rk[e] # 0 /\ state'[e] = "pending" => state[e] = "pending"
    BY <1>s, <1>c, <2>1, <2>2, <2>3 DEF LookAtKeyMoves, LookAtKeyGains
  <2>5. \A x \in Ops' : x.op \in Walks => x \in Ops \/ WalkOk(rk, x)
    BY <2>1, <2>2 DEF LookAtKeyMoves, Becomes, VisitObject, SetTraced, Publish, Walks
  <2>6. \A k \in Buckets : link'[Bucket(k)] = link[Bucket(k)]
    BY <2>2
  <2>7. \A e \in Ephemerons : rk[e] # 0 => link'[PendingLink(e)] = link[PendingLink(e)]
    BY <2>2
  <2>8. QED
    <3>1. StateKept(rk)
      BY <1>0, <2>4 DEF StateKept
    <3>2. QED
      BY <1>a, <2>5, <2>6, <2>7, <3>1, LinksFrom
<1>10. CASE FinishTraced(w)
  <2>1. FinishTracedMoves(w)
    BY <1>10, FinishTracedOps
  <2>2. markedObjects' = markedObjects /\ greyObjects' = greyObjects /\ link' = link /\ rootList' = rootList
    BY <1>10 DEF FinishTraced
  <2>3. FinishTracedGains(w)
    BY <2>1, FinishTracedGained
  <2>4. \A e \in Ephemerons : rk[e] # 0 /\ state'[e] = "pending" => state[e] = "pending"
    BY <1>s, <1>c, <2>1, <2>2, <2>3 DEF FinishTracedMoves, FinishTracedGains
  <2>5. \A x \in Ops' : x.op \in Walks => x \in Ops \/ WalkOk(rk, x)
    BY <2>1, <2>2 DEF FinishTracedMoves, Becomes, Walks
  <2>6. \A k \in Buckets : link'[Bucket(k)] = link[Bucket(k)]
    BY <2>2
  <2>7. \A e \in Ephemerons : rk[e] # 0 => link'[PendingLink(e)] = link[PendingLink(e)]
    BY <2>2
  <2>8. QED
    <3>1. StateKept(rk)
      BY <1>0, <2>4 DEF StateKept
    <3>2. QED
      BY <1>a, <2>5, <2>6, <2>7, <3>1, LinksFrom
<1>11. CASE AddPending(w)
  <2>1. AddPendingMoves(w)
    BY <1>11, AddPendingOps
  <2>2. markedObjects' = markedObjects /\ greyObjects' = greyObjects /\ link' = link /\ rootList' = rootList
    BY <1>11 DEF AddPending
  <2>3. AddPendingGains(w)
    BY <2>1, AddPendingGained
  <2>4. state[Op(w).obj] = "claimed"
    BY <1>k, <2>1, <2>3 DEF AddPendingMoves, AddPendingGains
  <2>5. \A e \in Ephemerons : rk[e] # 0 /\ state'[e] = "pending" => state[e] = "pending"
    BY <1>s, <1>c, <2>1, <2>2, <2>3, <2>4 DEF AddPendingMoves, AddPendingGains
  <2>6. \A x \in Ops' : x.op \in Walks => x \in Ops \/ WalkOk(rk, x)
    BY <2>1, <2>2, <2>4 DEF AddPendingMoves, Becomes, Push, Recheck, Walks
  <2>7. \A k \in Buckets : link'[Bucket(k)] = link[Bucket(k)]
    BY <2>2
  <2>8. \A e \in Ephemerons : rk[e] # 0 => link'[PendingLink(e)] = link[PendingLink(e)]
    BY <2>2
  <2>9. QED
    <3>1. StateKept(rk)
      BY <1>0, <2>5 DEF StateKept
    <3>2. QED
      BY <1>a, <2>6, <2>7, <2>8, <3>1, LinksFrom
<1>12. CASE LookAgain(w)
  <2>1. LookAgainMoves(w)
    BY <1>12, LookAgainOps
  <2>2. markedObjects' = markedObjects /\ greyObjects' = greyObjects /\ state' = state /\ link' = link /\ rootList' = rootList
    BY <1>12 DEF LookAgain
  <2>3. LookAgainGains(w)
    BY <2>1, LookAgainGained
  <2>4. \A e \in Ephemerons : rk[e] # 0 /\ state'[e] = "pending" => state[e] = "pending"
    BY <1>s, <1>c, <2>1, <2>2, <2>3 DEF LookAgainMoves, LookAgainGains
  <2>5. \A x \in Ops' : x.op \in Walks => x \in Ops \/ WalkOk(rk, x)
    BY <2>1, <2>2 DEF LookAgainMoves, Becomes, TryResolve, Walks
  <2>6. \A k \in Buckets : link'[Bucket(k)] = link[Bucket(k)]
    BY <2>2
  <2>7. \A e \in Ephemerons : rk[e] # 0 => link'[PendingLink(e)] = link[PendingLink(e)]
    BY <2>2
  <2>8. QED
    <3>1. StateKept(rk)
      BY <1>0, <2>4 DEF StateKept
    <3>2. QED
      BY <1>a, <2>5, <2>6, <2>7, <3>1, LinksFrom
<1>13. CASE GoNextResolved(w)
  <2>1. NextResolvedMoves(w)
    BY <1>13, NextResolvedOps
  <2>2. markedObjects' = markedObjects /\ greyObjects' = greyObjects /\ state' = state /\ link' = link /\ rootList' = rootList
    BY <1>13 DEF GoNextResolved
  <2>3. NextResolvedGains(w)
    BY <2>1, NextResolvedGained
  <2>4. \A e \in Ephemerons : rk[e] # 0 /\ state'[e] = "pending" => state[e] = "pending"
    BY <1>s, <1>c, <2>1, <2>2, <2>3 DEF NextResolvedMoves, NextResolvedGains
  <2>5. \A x \in Ops' : x.op \in Walks => x \in Ops \/ WalkOk(rk, x)
    BY <2>1, <2>2 DEF NextResolvedMoves, Becomes, ResolvedOps, VisitObject, SetTraced, NextResolved, Walks
  <2>6. \A k \in Buckets : link'[Bucket(k)] = link[Bucket(k)]
    BY <2>2
  <2>7. \A e \in Ephemerons : rk[e] # 0 => link'[PendingLink(e)] = link[PendingLink(e)]
    BY <2>2
  <2>8. QED
    <3>1. StateKept(rk)
      BY <1>0, <2>4 DEF StateKept
    <3>2. QED
      BY <1>a, <2>5, <2>6, <2>7, <3>1, LinksFrom
<1>14. CASE TakeNextRoot(w)
  <2>1. PICK r \in rootList : TakeRootMoves(r)
    BY <1>14, TakeRootOps
  <2>2. markedObjects' = markedObjects /\ greyObjects' = greyObjects /\ state' = state /\ link' = link
    BY <1>14 DEF TakeNextRoot
  <2>3. TakeRootGains(r)
    BY <2>1, TakeRootGained
  <2>4. \A e \in Ephemerons : rk[e] # 0 /\ state'[e] = "pending" => state[e] = "pending"
    BY <1>s, <1>c, <2>1, <2>2, <2>3 DEF TakeRootMoves, TakeRootGains
  <2>5. \A x \in Ops' : x.op \in Walks => x \in Ops \/ WalkOk(rk, x)
    BY <2>1, <2>2 DEF TakeRootMoves, Becomes, ResolvedOps, VisitObject, SetTraced, NextResolved, Walks
  <2>6. \A k \in Buckets : link'[Bucket(k)] = link[Bucket(k)]
    BY <2>2
  <2>7. \A e \in Ephemerons : rk[e] # 0 => link'[PendingLink(e)] = link[PendingLink(e)]
    BY <2>2
  <2>8. QED
    <3>1. StateKept(rk)
      BY <1>0, <2>4 DEF StateKept
    <3>2. QED
      BY <1>a, <2>5, <2>6, <2>7, <3>1, LinksFrom
<1>15. QED
  BY <1>1, <1>2, <1>3, <1>4, <1>5, <1>6, <1>7, <1>8, <1>9, <1>10, <1>11, <1>12, <1>13, <1>14 DEF TraceStep

\* The nodes that were skipped are elided.
LEMMA LinksElided ==
  ASSUME WeakTypes, Phases, Tracing, TraceInv, NEW w \in Workers, FollowSwap(w),
         NEW r \in [Ephemerons -> Nat], NEW n \in Nat, RankedBy(r, n)
  PROVE  Links(r, n)'
<1>1. FollowSwapMoves(w) /\ state' = state /\ key' = key
  BY FollowSwapOps DEF FollowSwap, weakHeapVars
<1>2. PICK x : x = Op(w)
  OBVIOUS
<1>3. PICK v : v = link[x.cell]
  OBVIOUS
<1>4. /\ x \in Ops /\ x.op = "followCas" /\ x.op \in Walks /\ x.cell \in Cells /\ x.head \in Ephs /\ x.new \in Ephs
      /\ \/ /\ v = x.head /\ link' = [link EXCEPT ![x.cell] = x.new]
            /\ Becomes({x}, AfterOps(x.obj, x.new))
         \/ link' = link /\ Becomes({x}, AfterOps(x.obj, x.new))
         \/ link' = link /\ Becomes({x}, {Skip(x.cell, x.obj, v, v)})
  BY <1>1, <1>2, <1>3 DEF FollowSwapMoves, Walks
<1>5. StateKept(r) /\ Links(r, n) /\ Ranked(r, n) /\ link \in [Cells -> Ephs]
  BY <1>1 DEF StateKept, RankedBy, WeakTypes
<1>6. \A y \in Ops' : y.op \in Walks => y \in Ops \/ WalkOk(r, y)
  <2>1. /\ \A y \in AfterOps(x.obj, x.new) : y.op \in Walks => WalkOk(r, y)
        /\ WalkOk(r, Skip(x.cell, x.obj, v, v))
    BY <1>3, <1>4, FoundOk, LoadedOk
  <2>2. QED
    BY <1>4, <2>1 DEF Becomes
<1>7. CASE link' = link
  BY <1>5, <1>6, <1>7, LinksFrom
<1>8. CASE v = x.head /\ link' = [link EXCEPT ![x.cell] = x.new]
  <2> DEFINE b == Bucket(BucketOf(x.obj))
  <2>0. link'[x.cell] = x.new /\ \A c \in Cells : c # x.cell => link'[c] = link[c]
    BY <1>4, <1>5, <1>8
  <2>1. /\ IsCell(r, b, x.cell) /\ IsNode(r, b, x.new) /\ Rank(r, x.new) <= Rank(r, x.head)
        /\ \A y \in Ephemerons : x.cell = PendingLink(y) => Rank(r, x.head) < r[y]
        /\ NoneBetween(r, b, x.new, Rank(r, x.head) + 1)
    BY <1>4, <1>5 DEF Links, WalkOk
  <2>2. BucketOf(x.obj) \in Buckets
    BY <1>4, WalkRanks
  <2> HIDE DEF b
  <2>3. ASSUME NEW m \in Nat, NoneBetween(r, b, x.head, m) PROVE NoneBetween(r, b, x.new, m)
    <3>1. SUFFICES ASSUME NEW y \in Ephemerons, InBucket(r, b, y), state[y] = "pending", Rank(r, x.new) < r[y]
                   PROVE  m <= r[y]
      BY DEF NoneBetween
    <3>2. Rank(r, x.head) + 1 <= r[y]
      BY <2>1, <3>1 DEF NoneBetween
    <3>3. Rank(r, x.head) < r[y]
      BY <1>4, <1>5, <3>2, RankTypes, EphTypes
    <3>4. QED
      BY <2>3, <3>1, <3>3 DEF NoneBetween
  <2>4. ASSUME NEW k \in Buckets
        PROVE  (IsNode(r, Bucket(k), link[Bucket(k)]) /\ NoneBetween(r, Bucket(k), link[Bucket(k)], n))'
    <3>1. PICK c : c = Bucket(k)
      OBVIOUS
    <3>2. PICK u : u = link'[c]
      OBVIOUS
    <3>3. c \in Cells /\ IsNode(r, c, link[c]) /\ NoneBetween(r, c, link[c], n)
      BY <1>5, <3>1, CellsApart DEF Links
    <3>4. IsNode(r, c, u) /\ NoneBetween(r, c, u, n)
      <4>1. CASE c # x.cell
        BY <2>0, <3>2, <3>3, <4>1
      <4>2. CASE c = x.cell
        <5>1. c = b
          BY <2>1, <3>1, <4>2, CellsApart DEF IsCell
        <5>2. NoneBetween(r, b, x.head, n)
          BY <1>3, <1>8, <3>3, <4>2, <5>1
        <5>3. NoneBetween(r, b, x.new, n)
          BY <2>3, <5>2
        <5>4. u = x.new
          BY <2>0, <3>2, <4>2
        <5>5. QED
          BY <2>1, <5>1, <5>3, <5>4
      <4>3. QED
        BY <4>1, <4>2
    <3>5. IsNode(r, c, u)' /\ NoneBetween(r, c, u, n)'
      BY <1>5, <3>4, NodeKept, BetweenKept
    <3>6. QED
      BY <3>1, <3>2, <3>5 DEF IsNode, NoneBetween, Rank
  <2>5. ASSUME NEW y \in Ephemerons, r[y] # 0
        PROVE  (LET u == link[PendingLink(y)] IN
                  IsNode(r, BucketFor(y), u) /\ Rank(r, u) < r[y] /\ NoneBetween(r, BucketFor(y), u, r[y]))'
    <3>1. PICK c : c = PendingLink(y)
      OBVIOUS
    <3>2. PICK u : u = link'[c]
      OBVIOUS
    <3>3. PICK a : a = BucketFor(y)
      OBVIOUS
    <3>4. /\ c \in Cells /\ IsNode(r, a, link[c]) /\ Rank(r, link[c]) < r[y] /\ NoneBetween(r, a, link[c], r[y])
      BY <1>5, <2>5, <3>1, <3>3, CellsApart DEF Links
    <3>5. IsNode(r, a, u) /\ Rank(r, u) < r[y] /\ NoneBetween(r, a, u, r[y])
      <4>1. CASE c # x.cell
        BY <2>0, <3>2, <3>4, <4>1
      <4>2. CASE c = x.cell
        <5>1. a = b
          <6>1. c # b
            BY <2>2, <3>1, CellsApart DEF b
          <6>2. PICK z \in Ephemerons : InBucket(r, b, z) /\ c = PendingLink(z)
            BY <2>1, <4>2, <6>1 DEF IsCell
          <6>3. z = y
            BY <3>1, <6>2, CellsApart
          <6>4. QED
            BY <3>3, <6>2, <6>3 DEF InBucket
        <5>2. NoneBetween(r, b, x.head, r[y])
          BY <1>3, <1>8, <3>4, <4>2, <5>1
        <5>3. NoneBetween(r, b, x.new, r[y])
          BY <2>3, <5>2
        <5>4. u = x.new
          BY <2>0, <3>2, <4>2
        <5>4a. Rank(r, x.head) < r[y]
          BY <2>1, <3>1, <4>2
        <5>4b. Rank(r, x.new) \in Nat /\ Rank(r, x.head) \in Nat /\ r[y] \in Nat
          BY <1>4, <1>5, RankTypes, EphTypes
        <5>5. Rank(r, x.new) < r[y]
          BY <2>1, <5>4a, <5>4b
        <5>6. QED
          BY <2>1, <5>1, <5>3, <5>4, <5>5
      <4>3. QED
        BY <4>1, <4>2
    <3>6. IsNode(r, a, u)' /\ NoneBetween(r, a, u, r[y])' /\ BucketFor(y)' = a
      BY <1>1, <1>5, <3>3, <3>5, NodeKept, BetweenKept DEF BucketFor
    <3>7. QED
      BY <3>1, <3>2, <3>5, <3>6 DEF IsNode, NoneBetween, Rank
  <2>6. ASSUME NEW y \in Ops', y.op \in Walks PROVE WalkOk(r, y)'
    <3>1. WalkOk(r, y)
      BY <1>5, <1>6, <2>6 DEF Links
    <3>2. QED
      BY <1>5, <3>1, WalkKept
  <2>7. QED
    BY <2>4, <2>5, <2>6 DEF Links
<1>9. QED
  BY <1>4, <1>7, <1>8

\* Whoever has come to wait, or whose key has been marked, is cared for.
LEMMA CaresFrom ==
  ASSUME NEW r, NEW n, Ranked(r, n), Cares(r), key' = key, phase' = phase,
         \A e \in Ephemerons : state[e] = "pending" /\ state'[e] = "pending" /\ key[e] \in markedObjects
             /\ HasOp(Rechecks, e) => HasOp(Rechecks, e)',
         \A x \in Ops, e \in Ephemerons : r[e] # 0 /\ state[e] = "pending" /\ Toward(r, x, e) =>
           x \in Ops' \/ HasOp(Rechecks, e)' \/ \E y \in Ops' : Toward(r, y, e),
         \A e \in Ephemerons : state'[e] = "pending" /\ state[e] # "pending" => HasOp(Rechecks, e)',
         \A e \in Ephemerons : state[e] = "pending" /\ phase # "heap" /\ key[e] \in markedObjects' \ markedObjects =>
           HasOp(Rechecks, e)' \/ \E y \in Ops' : Toward(r, y, e)
  PROVE  Cares(r)'
<1>1. SUFFICES ASSUME phase # "heap", NEW e \in Ephemerons, state'[e] = "pending", key[e] \in markedObjects'
               PROVE  HasOp(Rechecks, e)' \/ \E y \in Ops' : Toward(r, y, e)
  BY DEF Cares, Cared, Toward
<1>2. CASE state[e] # "pending" \/ key[e] \notin markedObjects
  BY <1>1, <1>2
<1>3. CASE state[e] = "pending" /\ key[e] \in markedObjects
  <2>1. Cared(r, e)
    BY <1>1, <1>3 DEF Cares
  <2>2. CASE HasOp(Rechecks, e)
    BY <1>1, <1>3, <2>2
  <2>3. CASE r[e] = 0
    <3>1. HasOp(Rechecks, e)
      BY <1>3, <2>3 DEF Ranked, HasOp, Rechecks
    <3>2. QED
      BY <2>2, <3>1
  <2>4. CASE r[e] # 0 /\ \E x \in Ops : Toward(r, x, e)
    BY <1>3, <2>4
  <2>5. QED
    BY <2>1, <2>2, <2>3, <2>4 DEF Cared
<1>4. QED
  BY <1>2, <1>3

\* Whoever waits for what is marked stays cared for.
LEMMA CaresKept ==
  ASSUME WeakTypes, Phases, Tracing, TraceInv, NEW w \in Workers, TraceStep(w),
         NEW rk \in [Ephemerons -> Nat], NEW n \in Nat, RankedBy(rk, n)
  PROVE  Cares(rk)'
<1>s. state \in [Ephemerons -> {"traced", "claimed", "pending", "resolved"}]
  BY DEF WeakTypes
<1>0. Claimed /\ key' = key /\ phase' = phase /\ Ranked(rk, n) /\ Cares(rk)
  BY TraceFrame DEF TraceInv, RankedBy
<1>d. \A e \in Ephemerons : rk[e] = 0 /\ state[e] = "pending" => HasOp({"recheck"}, e)
  BY <1>0 DEF Ranked
<1>o. phase # "heap" => checkPending
  BY DEF Phases, Tracing
<1>1. CASE PushLoad(w)
  <2>1. PushLoadMoves(w)
    BY <1>1, PushLoadOps
  <2>2. markedObjects' = markedObjects /\ greyObjects' = greyObjects /\ state' = state /\ rootList' = rootList
    BY <1>1 DEF PushLoad
  <2>3. PushLoadGains(w)
    BY <2>1, PushLoadGained
  <2>4. \A e \in Ephemerons : state[e] = "pending" /\ state'[e] = "pending" /\ key[e] \in markedObjects
             /\ HasOp(Rechecks, e) => HasOp(Rechecks, e)'
    BY <1>s, <2>1, <2>2, <2>3 DEF PushLoadMoves, PushLoadGains, Rechecks
  <2>5. \A x \in Ops : x.op \in Walks => x \in Ops'
    BY <2>1, <2>2 DEF PushLoadMoves, Becomes, PushCas, Walks
  <2>6. \A e \in Ephemerons : state'[e] = "pending" /\ state[e] # "pending" => HasOp(Rechecks, e)'
    BY <1>s, <2>2
  <2>7. \A e \in Ephemerons : state[e] = "pending" /\ phase # "heap" /\ key[e] \in markedObjects' \ markedObjects =>
         HasOp(Rechecks, e)' \/ \E y \in Ops' : Toward(rk, y, e)
    BY <2>2
  <2>8. QED
    <3>1. \A x \in Ops, e \in Ephemerons : rk[e] # 0 /\ state[e] = "pending" /\ Toward(rk, x, e) =>
         x \in Ops' \/ HasOp(Rechecks, e)' \/ \E y \in Ops' : Toward(rk, y, e)
      BY <2>5 DEF Toward
    <3>2. QED
      BY <1>0, <2>4, <2>6, <2>7, <3>1, CaresFrom
<1>2. CASE PushSwap(w)
  <2>1. PushSwapMoves(w)
    BY <1>2, PushSwapOps
  <2>2. markedObjects' = markedObjects /\ greyObjects' = greyObjects /\ state' = state /\ rootList' = rootList
    BY <1>2 DEF PushSwap
  <2>3. PushSwapGains(w)
    BY <2>1, PushSwapGained
  <2>4. \A e \in Ephemerons : state[e] = "pending" /\ state'[e] = "pending" /\ key[e] \in markedObjects
             /\ HasOp(Rechecks, e) => HasOp(Rechecks, e)'
    BY <1>s, <2>1, <2>2, <2>3 DEF PushSwapMoves, PushSwapGains, Rechecks
  <2>5. \A x \in Ops : x.op \in Walks => x \in Ops'
    BY <2>1, <2>2 DEF PushSwapMoves, Becomes, Push, Walks
  <2>6. \A e \in Ephemerons : state'[e] = "pending" /\ state[e] # "pending" => HasOp(Rechecks, e)'
    BY <1>s, <2>2
  <2>7. \A e \in Ephemerons : state[e] = "pending" /\ phase # "heap" /\ key[e] \in markedObjects' \ markedObjects =>
         HasOp(Rechecks, e)' \/ \E y \in Ops' : Toward(rk, y, e)
    BY <2>2
  <2>8. QED
    <3>1. \A x \in Ops, e \in Ephemerons : rk[e] # 0 /\ state[e] = "pending" /\ Toward(rk, x, e) =>
         x \in Ops' \/ HasOp(Rechecks, e)' \/ \E y \in Ops' : Toward(rk, y, e)
      BY <2>5 DEF Toward
    <3>2. QED
      BY <1>0, <2>4, <2>6, <2>7, <3>1, CaresFrom
<1>3. CASE FollowLoad(w)
  <2>1. FollowLoadMoves(w)
    BY <1>3, FollowLoadOps
  <2>2. markedObjects' = markedObjects /\ greyObjects' = greyObjects /\ state' = state /\ link' = link /\ rootList' = rootList
    BY <1>3 DEF FollowLoad
  <2>3. FollowLoadGains(w)
    BY <2>1, FollowLoadGained
  <2>4. \A e \in Ephemerons : state[e] = "pending" /\ state'[e] = "pending" /\ key[e] \in markedObjects
             /\ HasOp(Rechecks, e) => HasOp(Rechecks, e)'
    BY <1>s, <2>1, <2>2, <2>3 DEF FollowLoadMoves, FollowLoadGains, Rechecks
  <2>5. \A x \in Ops, e \in Ephemerons : rk[e] # 0 /\ state[e] = "pending" /\ Toward(rk, x, e) =>
         x \in Ops' \/ HasOp(Rechecks, e)' \/ \E y \in Ops' : Toward(rk, y, e)
    <3>0. PICK x : x = Op(w)
      OBVIOUS
    <3>1. x \in Ops /\ x.op = "follow" /\ x.op \in Walks
      BY <2>1, <3>0 DEF FollowLoadMoves, Walks
    <3>2. ASSUME NEW e \in Ephemerons, rk[e] # 0, state[e] = "pending", Toward(rk, x, e)
          PROVE  HasOp(Rechecks, e)' \/ \E y \in Ops' : Toward(rk, y, e)
      <4>1. PICK v : v = link[x.cell]
        OBVIOUS
      <4>2. Toward(rk, Skip(x.cell, x.obj, v, v), e)
        BY <3>1, <3>2, <4>1, LoadedOk
      <4>3. CASE v = NoRef
        <5>1. rk[e] <= 0
          BY <4>2, <4>3 DEF Toward, Skip, Rank
        <5>2. QED
          BY <3>2, <5>1
      <4>4. CASE v # NoRef
        <5>1. Becomes({x}, {Skip(x.cell, x.obj, v, v)})
          BY <2>1, <3>0, <4>1, <4>4 DEF FollowLoadMoves
        <5>2. Skip(x.cell, x.obj, v, v) \in Ops'
          BY <5>1 DEF Becomes
        <5>3. QED
          BY <4>2, <5>2
      <4>5. QED
        BY <4>3, <4>4
    <3>3. \A y \in Ops : y \in Ops' \/ y = x
      BY <2>1, <3>0 DEF FollowLoadMoves, Becomes
    <3>4. QED
      BY <3>2, <3>3
  <2>6. \A e \in Ephemerons : state'[e] = "pending" /\ state[e] # "pending" => HasOp(Rechecks, e)'
    BY <1>s, <2>2
  <2>7. \A e \in Ephemerons : state[e] = "pending" /\ phase # "heap" /\ key[e] \in markedObjects' \ markedObjects =>
         HasOp(Rechecks, e)' \/ \E y \in Ops' : Toward(rk, y, e)
    BY <2>2
  <2>8. QED
    <3>1. \A x \in Ops, e \in Ephemerons : rk[e] # 0 /\ state[e] = "pending" /\ Toward(rk, x, e) =>
         x \in Ops' \/ HasOp(Rechecks, e)' \/ \E y \in Ops' : Toward(rk, y, e)
      BY <2>5 DEF Toward
    <3>2. QED
      BY <1>0, <2>4, <2>6, <2>7, <3>1, CaresFrom
<1>4. CASE FollowSkip(w)
  <2>1. FollowSkipMoves(w)
    BY <1>4, FollowSkipOps
  <2>2. markedObjects' = markedObjects /\ greyObjects' = greyObjects /\ state' = state /\ link' = link /\ rootList' = rootList
    BY <1>4 DEF FollowSkip
  <2>3. FollowSkipGains(w)
    BY <2>1, FollowSkipGained
  <2>4. \A e \in Ephemerons : state[e] = "pending" /\ state'[e] = "pending" /\ key[e] \in markedObjects
             /\ HasOp(Rechecks, e) => HasOp(Rechecks, e)'
    BY <1>s, <2>1, <2>2, <2>3 DEF FollowSkipMoves, FollowSkipGains, Rechecks
  <2>5. \A x \in Ops, e \in Ephemerons : rk[e] # 0 /\ state[e] = "pending" /\ Toward(rk, x, e) =>
         x \in Ops' \/ HasOp(Rechecks, e)' \/ \E y \in Ops' : Toward(rk, y, e)
    <3>0. PICK x : x = Op(w)
      OBVIOUS
    <3>1. x \in Ops /\ x.op = "skip" /\ x.op \in Walks
      BY <2>1, <3>0 DEF FollowSkipMoves, Walks
    <3>2. ASSUME NEW e \in Ephemerons, rk[e] # 0, state[e] = "pending", Toward(rk, x, e)
          PROVE  HasOp(Rechecks, e)' \/ \E y \in Ops' : Toward(rk, y, e)
      <4>1. PICK v : v = link[PendingLink(x.new)]
        OBVIOUS
      <4>2. CASE x.new \in Ephemerons /\ state[x.new] # "pending" /\ Becomes({x}, {Skip(x.cell, x.obj, x.head, v)})
        <5>1. Toward(rk, Skip(x.cell, x.obj, x.head, v), e)
          BY <3>1, <3>2, <4>1, <4>2, SkippedOk
        <5>2. Skip(x.cell, x.obj, x.head, v) \in Ops'
          BY <4>2 DEF Becomes
        <5>3. QED
          BY <5>1, <5>2
      <4>3. CASE Becomes({x}, AfterOps(x.obj, x.new))
        <5>1. PICK y \in AfterOps(x.obj, x.new) : (y.op = "tryResolve" /\ y.obj = e) \/ Toward(rk, y, e)
          BY <3>1, <3>2, FoundOk
        <5>2. y \in Ops'
          BY <4>3 DEF Becomes
        <5>3. QED
          BY <5>1, <5>2 DEF HasOp, Rechecks
      <4>4. CASE Becomes({x}, {FollowCas(x.cell, x.obj, x.head, x.new)})
        <5>1. Toward(rk, FollowCas(x.cell, x.obj, x.head, x.new), e)
          BY <3>1, <3>2, ElidesOk
        <5>2. FollowCas(x.cell, x.obj, x.head, x.new) \in Ops'
          BY <4>4 DEF Becomes
        <5>3. QED
          BY <5>1, <5>2
      <4>5. QED
        BY <2>1, <3>0, <4>1, <4>2, <4>3, <4>4 DEF FollowSkipMoves
    <3>3. \A y \in Ops : y \in Ops' \/ y = x
      BY <2>1, <3>0 DEF FollowSkipMoves, Becomes
    <3>4. QED
      BY <3>2, <3>3
  <2>6. \A e \in Ephemerons : state'[e] = "pending" /\ state[e] # "pending" => HasOp(Rechecks, e)'
    BY <1>s, <2>2
  <2>7. \A e \in Ephemerons : state[e] = "pending" /\ phase # "heap" /\ key[e] \in markedObjects' \ markedObjects =>
         HasOp(Rechecks, e)' \/ \E y \in Ops' : Toward(rk, y, e)
    BY <2>2
  <2>8. QED
    <3>1. \A x \in Ops, e \in Ephemerons : rk[e] # 0 /\ state[e] = "pending" /\ Toward(rk, x, e) =>
         x \in Ops' \/ HasOp(Rechecks, e)' \/ \E y \in Ops' : Toward(rk, y, e)
      BY <2>5 DEF Toward
    <3>2. QED
      BY <1>0, <2>4, <2>6, <2>7, <3>1, CaresFrom
<1>5. CASE FollowSwap(w)
  <2>1. FollowSwapMoves(w)
    BY <1>5, FollowSwapOps
  <2>2. markedObjects' = markedObjects /\ greyObjects' = greyObjects /\ state' = state /\ rootList' = rootList
    BY <1>5 DEF FollowSwap
  <2>3. FollowSwapGains(w)
    BY <2>1, FollowSwapGained
  <2>4. \A e \in Ephemerons : state[e] = "pending" /\ state'[e] = "pending" /\ key[e] \in markedObjects
             /\ HasOp(Rechecks, e) => HasOp(Rechecks, e)'
    BY <1>s, <2>1, <2>2, <2>3 DEF FollowSwapMoves, FollowSwapGains, Rechecks
  <2>5. \A x \in Ops, e \in Ephemerons : rk[e] # 0 /\ state[e] = "pending" /\ Toward(rk, x, e) =>
         x \in Ops' \/ HasOp(Rechecks, e)' \/ \E y \in Ops' : Toward(rk, y, e)
    <3>0. PICK x : x = Op(w)
      OBVIOUS
    <3>1. x \in Ops /\ x.op = "followCas" /\ x.op \in Walks
      BY <2>1, <3>0 DEF FollowSwapMoves, Walks
    <3>2. ASSUME NEW e \in Ephemerons, rk[e] # 0, state[e] = "pending", Toward(rk, x, e)
          PROVE  HasOp(Rechecks, e)' \/ \E y \in Ops' : Toward(rk, y, e)
      <4>1. PICK v : v = link[x.cell]
        OBVIOUS
      <4>2. Toward(rk, Skip(x.cell, x.obj, v, v), e)
        BY <3>1, <3>2, <4>1, LoadedOk
      <4>3. CASE Becomes({x}, AfterOps(x.obj, x.new))
        <5>1. PICK y \in AfterOps(x.obj, x.new) : (y.op = "tryResolve" /\ y.obj = e) \/ Toward(rk, y, e)
          BY <3>1, <3>2, FoundOk
        <5>2. y \in Ops'
          BY <4>3 DEF Becomes
        <5>3. QED
          BY <5>1, <5>2 DEF HasOp, Rechecks
      <4>4. CASE Becomes({x}, {Skip(x.cell, x.obj, v, v)})
        <5>1. Skip(x.cell, x.obj, v, v) \in Ops'
          BY <4>4 DEF Becomes
        <5>2. QED
          BY <4>2, <5>1
      <4>5. QED
        BY <2>1, <3>0, <4>1, <4>3, <4>4 DEF FollowSwapMoves
    <3>3. \A y \in Ops : y \in Ops' \/ y = x
      BY <2>1, <3>0 DEF FollowSwapMoves, Becomes
    <3>4. QED
      BY <3>2, <3>3
  <2>6. \A e \in Ephemerons : state'[e] = "pending" /\ state[e] # "pending" => HasOp(Rechecks, e)'
    BY <1>s, <2>2
  <2>7. \A e \in Ephemerons : state[e] = "pending" /\ phase # "heap" /\ key[e] \in markedObjects' \ markedObjects =>
         HasOp(Rechecks, e)' \/ \E y \in Ops' : Toward(rk, y, e)
    BY <2>2
  <2>8. QED
    <3>1. \A x \in Ops, e \in Ephemerons : rk[e] # 0 /\ state[e] = "pending" /\ Toward(rk, x, e) =>
         x \in Ops' \/ HasOp(Rechecks, e)' \/ \E y \in Ops' : Toward(rk, y, e)
      BY <2>5 DEF Toward
    <3>2. QED
      BY <1>0, <2>4, <2>6, <2>7, <3>1, CaresFrom
<1>6. CASE Resolve(w)
  <2>1. ResolveMoves(w)
    BY <1>6, ResolveOps
  <2>2. markedObjects' = markedObjects /\ greyObjects' = greyObjects /\ link' = link /\ rootList' = rootList
    BY <1>6 DEF Resolve
  <2>3. ResolveGains(w)
    BY <2>1, ResolveGained
  <2>4. \A e \in Ephemerons : state[e] = "pending" /\ state'[e] = "pending" /\ key[e] \in markedObjects
             /\ HasOp(Rechecks, e) => HasOp(Rechecks, e)'
    BY <1>s, <2>1, <2>2, <2>3 DEF ResolveMoves, ResolveGains, Rechecks
  <2>5. \A x \in Ops : x.op \in Walks => x \in Ops'
    BY <2>1, <2>2 DEF ResolveMoves, Becomes, Push, Walks
  <2>6. \A e \in Ephemerons : state'[e] = "pending" /\ state[e] # "pending" => HasOp(Rechecks, e)'
    BY <1>s, <2>1 DEF ResolveMoves
  <2>7. \A e \in Ephemerons : state[e] = "pending" /\ phase # "heap" /\ key[e] \in markedObjects' \ markedObjects =>
         HasOp(Rechecks, e)' \/ \E y \in Ops' : Toward(rk, y, e)
    BY <2>2
  <2>8. QED
    <3>1. \A x \in Ops, e \in Ephemerons : rk[e] # 0 /\ state[e] = "pending" /\ Toward(rk, x, e) =>
         x \in Ops' \/ HasOp(Rechecks, e)' \/ \E y \in Ops' : Toward(rk, y, e)
      BY <2>5 DEF Toward
    <3>2. QED
      BY <1>0, <2>4, <2>6, <2>7, <3>1, CaresFrom
<1>7. CASE VisitEdge(w)
  <2>1. VisitEdgeMoves(w)
    BY <1>7, VisitEdgeOps
  <2>2. greyObjects' = greyObjects /\ state' = state /\ link' = link /\ rootList' = rootList
    BY <1>7 DEF VisitEdge
  <2>3. VisitEdgeGains(w)
    BY <2>1, VisitEdgeGained
  <2>4. \A e \in Ephemerons : state[e] = "pending" /\ state'[e] = "pending" /\ key[e] \in markedObjects
             /\ HasOp(Rechecks, e) => HasOp(Rechecks, e)'
    BY <1>s, <2>1, <2>2, <2>3 DEF VisitEdgeMoves, VisitEdgeGains, Rechecks
  <2>5. \A x \in Ops : x.op \in Walks => x \in Ops'
    BY <2>1, <2>2 DEF VisitEdgeMoves, Becomes, Follow, Enqueue, Walks
  <2>6. \A e \in Ephemerons : state'[e] = "pending" /\ state[e] # "pending" => HasOp(Rechecks, e)'
    BY <1>s, <2>2
  <2>7. \A e \in Ephemerons : state[e] = "pending" /\ phase # "heap" /\ key[e] \in markedObjects' \ markedObjects =>
         HasOp(Rechecks, e)' \/ \E y \in Ops' : Toward(rk, y, e)
    <3>0. PICK x : x = Op(w)
      OBVIOUS
    <3>1. SUFFICES ASSUME NEW e \in Ephemerons, state[e] = "pending", phase # "heap", key[e] \in markedObjects' \ markedObjects
                   PROVE  HasOp(Rechecks, e)' \/ \E y \in Ops' : Toward(rk, y, e)
      OBVIOUS
    <3>2. x.obj = key[e] /\ Becomes({x}, {Follow(Bucket(BucketOf(x.obj)), x.obj), Enqueue(x.obj)})
      BY <1>o, <2>1, <3>0, <3>1 DEF VisitEdgeMoves
    <3>3. PICK y : y = Follow(Bucket(BucketOf(x.obj)), x.obj)
      OBVIOUS
    <3>4. y \in Ops' /\ y.op = "follow" /\ y.obj = key[e] /\ y.cell = Bucket(BucketOf(key[e]))
      BY <3>2, <3>3 DEF Becomes, Follow
    <3>5. Toward(rk, y, e)
      BY <3>4, KeyTypes, CellsApart DEF Toward, Walks
    <3>6. QED
      BY <3>4, <3>5
  <2>8. QED
    <3>1. \A x \in Ops, e \in Ephemerons : rk[e] # 0 /\ state[e] = "pending" /\ Toward(rk, x, e) =>
         x \in Ops' \/ HasOp(Rechecks, e)' \/ \E y \in Ops' : Toward(rk, y, e)
      BY <2>5 DEF Toward
    <3>2. QED
      BY <1>0, <2>4, <2>6, <2>7, <3>1, CaresFrom
<1>8. CASE EnqueueObject(w)
  <2>1. EnqueueMoves(w)
    BY <1>8, EnqueueOps
  <2>2. markedObjects' = markedObjects /\ state' = state /\ link' = link /\ rootList' = rootList
    BY <1>8 DEF EnqueueObject
  <2>3. EnqueueGains(w)
    BY <2>1, EnqueueGained
  <2>4. \A e \in Ephemerons : state[e] = "pending" /\ state'[e] = "pending" /\ key[e] \in markedObjects
             /\ HasOp(Rechecks, e) => HasOp(Rechecks, e)'
    BY <1>s, <2>1, <2>2, <2>3 DEF EnqueueMoves, EnqueueGains, Rechecks
  <2>5. \A x \in Ops : x.op \in Walks => x \in Ops'
    BY <2>1, <2>2 DEF EnqueueMoves, Becomes, Walks
  <2>6. \A e \in Ephemerons : state'[e] = "pending" /\ state[e] # "pending" => HasOp(Rechecks, e)'
    BY <1>s, <2>2
  <2>7. \A e \in Ephemerons : state[e] = "pending" /\ phase # "heap" /\ key[e] \in markedObjects' \ markedObjects =>
         HasOp(Rechecks, e)' \/ \E y \in Ops' : Toward(rk, y, e)
    BY <2>2
  <2>8. QED
    <3>1. \A x \in Ops, e \in Ephemerons : rk[e] # 0 /\ state[e] = "pending" /\ Toward(rk, x, e) =>
         x \in Ops' \/ HasOp(Rechecks, e)' \/ \E y \in Ops' : Toward(rk, y, e)
      BY <2>5 DEF Toward
    <3>2. QED
      BY <1>0, <2>4, <2>6, <2>7, <3>1, CaresFrom
<1>9. CASE TraceObject(w)
  <2>1. PICK o \in greyObjects : TraceObjectMoves(o)
    BY <1>9, TraceObjectOps
  <2>2. markedObjects' = markedObjects /\ link' = link /\ rootList' = rootList
    BY <1>9 DEF TraceObject
  <2>3. TraceObjectGains(o)
    BY <2>1, TraceObjectGained
  <2>4. \A e \in Ephemerons : state[e] = "pending" /\ state'[e] = "pending" /\ key[e] \in markedObjects
             /\ HasOp(Rechecks, e) => HasOp(Rechecks, e)'
    BY <1>s, <2>1, <2>2, <2>3 DEF TraceObjectMoves, TraceObjectGains, Rechecks
  <2>5. \A x \in Ops : x.op \in Walks => x \in Ops'
    BY <2>1, <2>2 DEF TraceObjectMoves, Becomes, VisitObject, VisitKey, Walks
  <2>6. \A e \in Ephemerons : state'[e] = "pending" /\ state[e] # "pending" => HasOp(Rechecks, e)'
    <3>1. state' = state \/ state' = [state EXCEPT ![o] = "claimed"]
      BY <2>1 DEF TraceObjectMoves
    <3>2. QED
      BY <1>s, <3>1
  <2>7. \A e \in Ephemerons : state[e] = "pending" /\ phase # "heap" /\ key[e] \in markedObjects' \ markedObjects =>
         HasOp(Rechecks, e)' \/ \E y \in Ops' : Toward(rk, y, e)
    BY <2>2
  <2>8. QED
    <3>1. \A x \in Ops, e \in Ephemerons : rk[e] # 0 /\ state[e] = "pending" /\ Toward(rk, x, e) =>
         x \in Ops' \/ HasOp(Rechecks, e)' \/ \E y \in Ops' : Toward(rk, y, e)
      BY <2>5 DEF Toward
    <3>2. QED
      BY <1>0, <2>4, <2>6, <2>7, <3>1, CaresFrom
<1>10. CASE LookAtKey(w)
  <2>1. LookAtKeyMoves(w)
    BY <1>10, LookAtKeyOps
  <2>2. markedObjects' = markedObjects /\ greyObjects' = greyObjects /\ state' = state /\ link' = link /\ rootList' = rootList
    BY <1>10 DEF LookAtKey
  <2>3. LookAtKeyGains(w)
    BY <2>1, LookAtKeyGained
  <2>4. \A e \in Ephemerons : state[e] = "pending" /\ state'[e] = "pending" /\ key[e] \in markedObjects
             /\ HasOp(Rechecks, e) => HasOp(Rechecks, e)'
    BY <1>s, <2>1, <2>2, <2>3 DEF LookAtKeyMoves, LookAtKeyGains, Rechecks
  <2>5. \A x \in Ops : x.op \in Walks => x \in Ops'
    BY <2>1, <2>2 DEF LookAtKeyMoves, Becomes, VisitObject, SetTraced, Publish, Walks
  <2>6. \A e \in Ephemerons : state'[e] = "pending" /\ state[e] # "pending" => HasOp(Rechecks, e)'
    BY <1>s, <2>2
  <2>7. \A e \in Ephemerons : state[e] = "pending" /\ phase # "heap" /\ key[e] \in markedObjects' \ markedObjects =>
         HasOp(Rechecks, e)' \/ \E y \in Ops' : Toward(rk, y, e)
    BY <2>2
  <2>8. QED
    <3>1. \A x \in Ops, e \in Ephemerons : rk[e] # 0 /\ state[e] = "pending" /\ Toward(rk, x, e) =>
         x \in Ops' \/ HasOp(Rechecks, e)' \/ \E y \in Ops' : Toward(rk, y, e)
      BY <2>5 DEF Toward
    <3>2. QED
      BY <1>0, <2>4, <2>6, <2>7, <3>1, CaresFrom
<1>11. CASE FinishTraced(w)
  <2>1. FinishTracedMoves(w)
    BY <1>11, FinishTracedOps
  <2>2. markedObjects' = markedObjects /\ greyObjects' = greyObjects /\ link' = link /\ rootList' = rootList
    BY <1>11 DEF FinishTraced
  <2>3. FinishTracedGains(w)
    BY <2>1, FinishTracedGained
  <2>4. \A e \in Ephemerons : state[e] = "pending" /\ state'[e] = "pending" /\ key[e] \in markedObjects
             /\ HasOp(Rechecks, e) => HasOp(Rechecks, e)'
    BY <1>s, <2>1, <2>2, <2>3 DEF FinishTracedMoves, FinishTracedGains, Rechecks
  <2>5. \A x \in Ops : x.op \in Walks => x \in Ops'
    BY <2>1, <2>2 DEF FinishTracedMoves, Becomes, Walks
  <2>6. \A e \in Ephemerons : state'[e] = "pending" /\ state[e] # "pending" => HasOp(Rechecks, e)'
    BY <1>s, <2>1 DEF FinishTracedMoves
  <2>7. \A e \in Ephemerons : state[e] = "pending" /\ phase # "heap" /\ key[e] \in markedObjects' \ markedObjects =>
         HasOp(Rechecks, e)' \/ \E y \in Ops' : Toward(rk, y, e)
    BY <2>2
  <2>8. QED
    <3>1. \A x \in Ops, e \in Ephemerons : rk[e] # 0 /\ state[e] = "pending" /\ Toward(rk, x, e) =>
         x \in Ops' \/ HasOp(Rechecks, e)' \/ \E y \in Ops' : Toward(rk, y, e)
      BY <2>5 DEF Toward
    <3>2. QED
      BY <1>0, <2>4, <2>6, <2>7, <3>1, CaresFrom
<1>12. CASE AddPending(w)
  <2>1. AddPendingMoves(w)
    BY <1>12, AddPendingOps
  <2>2. markedObjects' = markedObjects /\ greyObjects' = greyObjects /\ link' = link /\ rootList' = rootList
    BY <1>12 DEF AddPending
  <2>3. AddPendingGains(w)
    BY <2>1, AddPendingGained
  <2>4. \A e \in Ephemerons : state[e] = "pending" /\ state'[e] = "pending" /\ key[e] \in markedObjects
             /\ HasOp(Rechecks, e) => HasOp(Rechecks, e)'
    BY <1>s, <2>1, <2>2, <2>3 DEF AddPendingMoves, AddPendingGains, Rechecks
  <2>5. \A x \in Ops : x.op \in Walks => x \in Ops'
    BY <2>1, <2>2 DEF AddPendingMoves, Becomes, Push, Recheck, Walks
  <2>6. \A e \in Ephemerons : state'[e] = "pending" /\ state[e] # "pending" => HasOp(Rechecks, e)'
    <3>0. PICK x : x = Op(w)
      OBVIOUS
    <3>1. state' = [state EXCEPT ![x.obj] = "pending"] /\ Becomes({x}, {Push(BucketFor(x.obj), x.obj), Recheck(x.obj)})
      BY <2>1, <3>0 DEF AddPendingMoves
    <3>2. Recheck(x.obj).op \in Rechecks /\ Recheck(x.obj).obj = x.obj
      BY DEF Recheck, Rechecks
    <3>3. HasOp(Rechecks, x.obj)'
      BY <3>1, <3>2, NowHas
    <3>4. QED
      BY <1>s, <3>1, <3>3
  <2>7. \A e \in Ephemerons : state[e] = "pending" /\ phase # "heap" /\ key[e] \in markedObjects' \ markedObjects =>
         HasOp(Rechecks, e)' \/ \E y \in Ops' : Toward(rk, y, e)
    BY <2>2
  <2>8. QED
    <3>1. \A x \in Ops, e \in Ephemerons : rk[e] # 0 /\ state[e] = "pending" /\ Toward(rk, x, e) =>
         x \in Ops' \/ HasOp(Rechecks, e)' \/ \E y \in Ops' : Toward(rk, y, e)
      BY <2>5 DEF Toward
    <3>2. QED
      BY <1>0, <2>4, <2>6, <2>7, <3>1, CaresFrom
<1>13. CASE LookAgain(w)
  <2>1. LookAgainMoves(w)
    BY <1>13, LookAgainOps
  <2>2. markedObjects' = markedObjects /\ greyObjects' = greyObjects /\ state' = state /\ link' = link /\ rootList' = rootList
    BY <1>13 DEF LookAgain
  <2>3. LookAgainGains(w)
    BY <2>1, LookAgainGained
  <2>4. \A e \in Ephemerons : state[e] = "pending" /\ state'[e] = "pending" /\ key[e] \in markedObjects
             /\ HasOp(Rechecks, e) => HasOp(Rechecks, e)'
    <3>0. PICK x : x = Op(w)
      OBVIOUS
    <3>1. key[x.obj] \in markedObjects => HasOp(Rechecks, x.obj)'
      <4>1. TryResolve(x.obj).op \in Rechecks /\ TryResolve(x.obj).obj = x.obj
        BY DEF TryResolve, Rechecks
      <4>2. QED
        BY <2>1, <3>0, <4>1, NowHas DEF LookAgainMoves
    <3>2. \A e : HasOp(Rechecks, e) => HasOp(Rechecks, e)' \/ e = x.obj
      BY <2>3, <3>0 DEF LookAgainGains
    <3>3. QED
      BY <3>1, <3>2
  <2>5. \A x \in Ops : x.op \in Walks => x \in Ops'
    BY <2>1, <2>2 DEF LookAgainMoves, Becomes, TryResolve, Walks
  <2>6. \A e \in Ephemerons : state'[e] = "pending" /\ state[e] # "pending" => HasOp(Rechecks, e)'
    BY <1>s, <2>2
  <2>7. \A e \in Ephemerons : state[e] = "pending" /\ phase # "heap" /\ key[e] \in markedObjects' \ markedObjects =>
         HasOp(Rechecks, e)' \/ \E y \in Ops' : Toward(rk, y, e)
    BY <2>2
  <2>8. QED
    <3>1. \A x \in Ops, e \in Ephemerons : rk[e] # 0 /\ state[e] = "pending" /\ Toward(rk, x, e) =>
         x \in Ops' \/ HasOp(Rechecks, e)' \/ \E y \in Ops' : Toward(rk, y, e)
      BY <2>5 DEF Toward
    <3>2. QED
      BY <1>0, <2>4, <2>6, <2>7, <3>1, CaresFrom
<1>14. CASE GoNextResolved(w)
  <2>1. NextResolvedMoves(w)
    BY <1>14, NextResolvedOps
  <2>2. markedObjects' = markedObjects /\ greyObjects' = greyObjects /\ state' = state /\ link' = link /\ rootList' = rootList
    BY <1>14 DEF GoNextResolved
  <2>3. NextResolvedGains(w)
    BY <2>1, NextResolvedGained
  <2>4. \A e \in Ephemerons : state[e] = "pending" /\ state'[e] = "pending" /\ key[e] \in markedObjects
             /\ HasOp(Rechecks, e) => HasOp(Rechecks, e)'
    BY <1>s, <2>1, <2>2, <2>3 DEF NextResolvedMoves, NextResolvedGains, Rechecks
  <2>5. \A x \in Ops : x.op \in Walks => x \in Ops'
    BY <2>1, <2>2 DEF NextResolvedMoves, Becomes, ResolvedOps, VisitObject, SetTraced, NextResolved, Walks
  <2>6. \A e \in Ephemerons : state'[e] = "pending" /\ state[e] # "pending" => HasOp(Rechecks, e)'
    BY <1>s, <2>2
  <2>7. \A e \in Ephemerons : state[e] = "pending" /\ phase # "heap" /\ key[e] \in markedObjects' \ markedObjects =>
         HasOp(Rechecks, e)' \/ \E y \in Ops' : Toward(rk, y, e)
    BY <2>2
  <2>8. QED
    <3>1. \A x \in Ops, e \in Ephemerons : rk[e] # 0 /\ state[e] = "pending" /\ Toward(rk, x, e) =>
         x \in Ops' \/ HasOp(Rechecks, e)' \/ \E y \in Ops' : Toward(rk, y, e)
      BY <2>5 DEF Toward
    <3>2. QED
      BY <1>0, <2>4, <2>6, <2>7, <3>1, CaresFrom
<1>15. CASE TakeNextRoot(w)
  <2>1. PICK r \in rootList : TakeRootMoves(r)
    BY <1>15, TakeRootOps
  <2>2. markedObjects' = markedObjects /\ greyObjects' = greyObjects /\ state' = state /\ link' = link
    BY <1>15 DEF TakeNextRoot
  <2>3. TakeRootGains(r)
    BY <2>1, TakeRootGained
  <2>4. \A e \in Ephemerons : state[e] = "pending" /\ state'[e] = "pending" /\ key[e] \in markedObjects
             /\ HasOp(Rechecks, e) => HasOp(Rechecks, e)'
    BY <1>s, <2>1, <2>2, <2>3 DEF TakeRootMoves, TakeRootGains, Rechecks
  <2>5. \A x \in Ops : x.op \in Walks => x \in Ops'
    BY <2>1, <2>2 DEF TakeRootMoves, Becomes, ResolvedOps, VisitObject, SetTraced, NextResolved, Walks
  <2>6. \A e \in Ephemerons : state'[e] = "pending" /\ state[e] # "pending" => HasOp(Rechecks, e)'
    BY <1>s, <2>2
  <2>7. \A e \in Ephemerons : state[e] = "pending" /\ phase # "heap" /\ key[e] \in markedObjects' \ markedObjects =>
         HasOp(Rechecks, e)' \/ \E y \in Ops' : Toward(rk, y, e)
    BY <2>2
  <2>8. QED
    <3>1. \A x \in Ops, e \in Ephemerons : rk[e] # 0 /\ state[e] = "pending" /\ Toward(rk, x, e) =>
         x \in Ops' \/ HasOp(Rechecks, e)' \/ \E y \in Ops' : Toward(rk, y, e)
      BY <2>5 DEF Toward
    <3>2. QED
      BY <1>0, <2>4, <2>6, <2>7, <3>1, CaresFrom
<1>16. QED
  BY <1>1, <1>2, <1>3, <1>4, <1>5, <1>6, <1>7, <1>8, <1>9, <1>10, <1>11, <1>12, <1>13, <1>14, <1>15 DEF TraceStep

\* Keys are looked at again once their ephemerons are in buckets.
LEMMA RechecksKept ==
  ASSUME WeakTypes, Phases, Tracing, NEW w \in Workers, TraceStep(w), NEW r, Rechecked(r),
         PushSwap(w) => Op(w).cell = Resolved \/ link[Op(w).cell] # Op(w).tail
  PROVE  Rechecked(r)'
<1>1. CASE PushSwap(w)
  <2>1. PushSwapMoves(w)
    BY <1>1, PushSwapOps
  <2>2. RechecksStay
    BY <1>1, <2>1 DEF PushSwapMoves
  <2>3. QED
    BY <2>2 DEF RechecksStay
<1>2. CASE PushLoad(w) \/ FollowLoad(w) \/ FollowSkip(w) \/ FollowSwap(w) \/ Resolve(w)
  <2>1. RechecksStay
    BY <1>2, PushLoadOps, FollowLoadOps, FollowSkipOps, FollowSwapOps, ResolveOps
       DEF PushLoadMoves, FollowLoadMoves, FollowSkipMoves, FollowSwapMoves, ResolveMoves
  <2>2. QED
    BY <2>1 DEF RechecksStay
<1>3. CASE VisitEdge(w) \/ EnqueueObject(w) \/ LookAtKey(w) \/ FinishTraced(w)
  <2>1. RechecksStay
    BY <1>3, VisitEdgeOps, EnqueueOps, LookAtKeyOps, FinishTracedOps
       DEF VisitEdgeMoves, EnqueueMoves, LookAtKeyMoves, FinishTracedMoves
  <2>2. QED
    BY <2>1 DEF RechecksStay
<1>4. CASE TraceObject(w) \/ TakeNextRoot(w)
  <2>1. CASE TraceObject(w)
    <3>1. PICK o \in greyObjects : TraceObjectMoves(o)
      BY <2>1, TraceObjectOps
    <3>2. QED
      BY <3>1 DEF TraceObjectMoves, RechecksStay
  <2>2. CASE TakeNextRoot(w)
    <3>1. PICK t \in rootList : TakeRootMoves(t)
      BY <2>2, TakeRootOps
    <3>2. QED
      BY <3>1 DEF TakeRootMoves, RechecksStay
  <2>3. QED
    BY <1>4, <2>1, <2>2
<1>5. CASE AddPending(w) \/ LookAgain(w) \/ GoNextResolved(w)
  <2>1. RechecksStay
    BY <1>5, AddPendingOps, LookAgainOps, NextResolvedOps
       DEF AddPendingMoves, LookAgainMoves, NextResolvedMoves
  <2>2. QED
    BY <2>1 DEF RechecksStay
<1>6. QED
  BY <1>1, <1>2, <1>3, <1>4, <1>5 DEF TraceStep

\* A step that puts nothing in a bucket keeps all there is to the ranks.
LEMMA RankedByKept ==
  ASSUME WeakTypes, Phases, Tracing, TraceInv, NEW w \in Workers, TraceStep(w),
         NEW r \in [Ephemerons -> Nat], NEW n \in Nat, RankedBy(r, n),
         PushSwap(w) => Op(w).cell = Resolved \/ link[Op(w).cell] # Op(w).tail
  PROVE  RankedBy(r, n)'
<1>1. Ranked(r, n)'
  BY RankedNext
<1>2. Rechecked(r)'
  BY RechecksKept DEF RankedBy
<1>3. Links(r, n)'
  BY LinksKept, LinksElided
<1>4. Cares(r)'
  BY CaresKept
<1>5. QED
  BY <1>1, <1>2, <1>3, <1>4 DEF RankedBy

(***************************************************************************)
(* The ephemeron e is put at the head of its bucket c: its rank is n, more *)
(* than any other.                                                         *)
(***************************************************************************)
Raised(r, s, e, n, c) ==
  /\ r \in [Ephemerons -> Nat] /\ s \in [Ephemerons -> Nat] /\ n \in Nat \ {0}
  /\ e \in Ephemerons /\ r[e] = 0 /\ s[e] = n /\ BucketFor(e) = c /\ key' = key
  /\ \A f \in Ephemerons : r[f] < n /\ (f # e => s[f] = r[f])

LEMMA RaisedRanks ==
  ASSUME NEW r, NEW s, NEW e, NEW n, NEW c, Raised(r, s, e, n, c)
  PROVE  /\ \A v \in Ephs : Rank(r, v) \in Nat /\ Rank(s, v) \in Nat /\ Rank(r, v) <= Rank(s, v) /\ Rank(r, v) < n
         /\ \A v \in Ephs : v # e => Rank(s, v) = Rank(r, v)
         /\ \A f \in Ephemerons : r[f] \in Nat /\ s[f] \in Nat /\ r[f] <= s[f] /\ s[f] <= n
         /\ \A f \in Ephemerons : Rank(s, f) = s[f]
<1>1. \A f \in Ephemerons : r[f] \in Nat /\ s[f] \in Nat /\ r[f] <= s[f] /\ s[f] <= n /\ r[f] < n
  BY DEF Raised
<1>2. n \in Nat /\ 0 < n /\ e \in Ephemerons /\ \A f \in Ephemerons : f # e => s[f] = r[f]
  BY DEF Raised
<1>3. NoRef \notin Ephemerons
  BY EphTypes
<1>4. ASSUME NEW v \in Ephs
      PROVE  Rank(r, v) \in Nat /\ Rank(s, v) \in Nat /\ Rank(r, v) <= Rank(s, v) /\ Rank(r, v) < n
             /\ (v # e => Rank(s, v) = Rank(r, v))
  <2>1. CASE v = NoRef
    BY <1>2, <2>1 DEF Rank
  <2>2. CASE v # NoRef
    <3>1. v \in Ephemerons /\ Rank(r, v) = r[v] /\ Rank(s, v) = s[v]
      BY <2>2 DEF Rank, Ephs
    <3>2. QED
      BY <1>1, <1>2, <3>1
  <2>3. QED
    BY <2>1, <2>2
<1>5. \A f \in Ephemerons : Rank(s, f) = s[f]
  BY <1>3 DEF Rank
<1>6. QED
  BY <1>1, <1>4, <1>5

LEMMA RaisedIn ==
  ASSUME NEW r, NEW s, NEW e, NEW n, NEW c, Raised(r, s, e, n, c), NEW b
  PROVE  \A y \in Ephemerons : InBucket(s, b, y)' <=> InBucket(r, b, y) \/ (y = e /\ b = c)
<1>1. /\ e \in Ephemerons /\ r[e] = 0 /\ s[e] # 0 /\ key' = key
      /\ \A f \in Ephemerons : f # e => s[f] = r[f]
  BY DEF Raised
<1>2. BucketFor(e) = c /\ \A y \in Ephemerons : BucketFor(y)' = BucketFor(y)
  BY <1>1 DEF Raised, BucketFor
<1>3. QED
  BY <1>1, <1>2 DEF InBucket

LEMMA RaisedNode ==
  ASSUME NEW r, NEW s, NEW e, NEW n, NEW c, Raised(r, s, e, n, c), NEW b, NEW v \in Ephs, IsNode(r, b, v)
  PROVE  IsNode(s, b, v)' /\ v # e /\ Rank(s, v) = Rank(r, v)
<1>1. e \in Ephemerons /\ r[e] = 0
  BY DEF Raised
<1>2. v # e
  BY <1>1, EphTypes DEF IsNode, InBucket
<1>3. v = NoRef \/ InBucket(s, b, v)'
  BY RaisedIn DEF IsNode, Ephs
<1>4. QED
  BY <1>2, <1>3, RaisedRanks DEF IsNode

\* What holds up to a rank that is not above n still does.
LEMMA RaisedBetween ==
  ASSUME NEW r, NEW s, NEW e, NEW n, NEW c, Raised(r, s, e, n, c), NEW b, NEW v \in Ephs, NEW m \in Nat,
         state' = state, IsNode(r, b, v), NoneBetween(r, b, v, m), m <= n
  PROVE  NoneBetween(s, b, v, m)'
<1>1. Rank(s, v) = Rank(r, v) /\ s[e] = n /\ \A f \in Ephemerons : f # e => s[f] = r[f]
  <2>1. Rank(s, v) = Rank(r, v)
    BY RaisedNode
  <2>2. QED
    BY <2>1 DEF Raised
<1>2. ASSUME NEW y \in Ephemerons, InBucket(s, b, y)', state[y] = "pending", Rank(s, v) < s[y]
      PROVE  m <= s[y]
  <2>1. CASE y = e
    BY <1>1, <2>1
  <2>2. CASE y # e
    <3>1. InBucket(r, b, y) /\ s[y] = r[y]
      BY <1>1, <1>2, <2>2, RaisedIn
    <3>2. QED
      BY <1>1, <1>2, <3>1 DEF NoneBetween
  <2>3. QED
    BY <2>1, <2>2
<1>3. QED
  BY <1>2 DEF NoneBetween, Rank

LEMMA RaisedWalk ==
  ASSUME NEW r, NEW s, NEW e, NEW n, NEW c, Raised(r, s, e, n, c), state' = state,
         NEW x \in OpSet, x.op \in Walks, WalkOk(r, x)
  PROVE  WalkOk(s, x)'
<1>1. PICK b : b = Bucket(BucketOf(x.obj))
  OBVIOUS
<1>2. IsCell(s, b, x.cell)'
  <2>1. IsCell(r, b, x.cell)
    BY <1>1 DEF WalkOk
  <2>2. QED
    BY <2>1, RaisedIn DEF IsCell
<1>3. ASSUME x.op # "follow"
      PROVE  (/\ IsNode(s, b, x.head) /\ IsNode(s, b, x.new) /\ Rank(s, x.new) <= Rank(s, x.head)
              /\ \A y \in Ephemerons : x.cell = PendingLink(y) => Rank(s, x.head) < s[y]
              /\ NoneBetween(s, b, x.new, Rank(s, x.head) + 1))'
  <2>1. x.head \in Ephs /\ x.new \in Ephs
    BY <1>3, OpKinds DEF Walks
  <2>2. /\ IsNode(r, b, x.head) /\ IsNode(r, b, x.new) /\ Rank(r, x.new) <= Rank(r, x.head)
        /\ \A y \in Ephemerons : x.cell = PendingLink(y) => Rank(r, x.head) < r[y]
        /\ NoneBetween(r, b, x.new, Rank(r, x.head) + 1)
    BY <1>1, <1>3 DEF WalkOk
  <2>3. /\ IsNode(s, b, x.head)' /\ IsNode(s, b, x.new)'
        /\ Rank(s, x.head) = Rank(r, x.head) /\ Rank(s, x.new) = Rank(r, x.new)
    BY <2>1, <2>2, RaisedNode
  <2>4. PICK m : m = Rank(r, x.head) + 1
    OBVIOUS
  <2>5. m \in Nat /\ m <= n
    <3>1. Rank(r, x.head) \in Nat /\ Rank(r, x.head) < n /\ n \in Nat
      BY <2>1, RaisedRanks DEF Raised
    <3>2. QED
      BY <2>4, <3>1
  <2>6. NoneBetween(s, b, x.new, m)'
    BY <2>1, <2>2, <2>4, <2>5, RaisedBetween
  <2>7. \A y \in Ephemerons : x.cell = PendingLink(y) => Rank(s, x.head) < s[y]
    <3>1. \A y \in Ephemerons : r[y] \in Nat /\ s[y] \in Nat /\ r[y] <= s[y] /\ Rank(r, x.head) \in Nat
      BY <2>1, RaisedRanks
    <3>2. QED
      BY <2>2, <2>3, <3>1
  <2>8. QED
    BY <2>2, <2>3, <2>4, <2>6, <2>7 DEF Rank, NoneBetween
<1>4. QED
  BY <1>1, <1>2, <1>3 DEF WalkOk

LEMMA RaisedRanked ==
  ASSUME WeakTypes, Phases, Tracing, TraceInv, NEW w \in Workers, PushSwap(w),
         NEW r, NEW s, NEW n, NEW x, x = Op(w), x.cell # Resolved, x.op \in Pushes, Becomes({x}, {}),
         Raised(r, s, x.obj, n, x.cell), Ranked(r, n), state[x.obj] = "pending", state' = state
  PROVE  Ranked(s, n + 1)'
<1>0. /\ n \in Nat /\ n # 0 /\ x.obj \in Ephemerons /\ r[x.obj] = 0 /\ s[x.obj] = n
      /\ \A f \in Ephemerons : r[f] < n /\ (f # x.obj => s[f] = r[f])
  BY DEF Raised
<1>1. /\ \A e, f \in Ephemerons : r[e] = r[f] /\ r[e] # 0 => e = f
      /\ \A e \in Ephemerons : r[e] # 0 => state[e] # "claimed" /\ Started(e)
      /\ \A e \in Ephemerons : r[e] = 0 /\ state[e] = "pending" => HasOp(Pushes, e) /\ HasOp({"recheck"}, e)
      /\ \A e \in Ephemerons : r[e] # 0 /\ HasOp(Pushes, e) => state[e] = "resolved"
      /\ \A e \in Ephemerons : HasOp({"tryResolve"}, e) => r[e] # 0
  BY DEF Ranked
<1>2. \A f \in Ephemerons : r[f] \in Nat /\ s[f] \in Nat /\ s[f] <= n
  BY RaisedRanks
<1>3. \A e \in Ephemerons : s[e] < n + 1
  BY <1>0, <1>2
<1>4. \A e, f \in Ephemerons : s[e] = s[f] /\ s[e] # 0 => e = f
  <2>1. ASSUME NEW e \in Ephemerons, NEW f \in Ephemerons, s[e] = s[f], s[e] # 0 PROVE e = f
    <3>1. CASE e = x.obj \/ f = x.obj
      BY <1>0, <1>2, <2>1, <3>1
    <3>2. CASE e # x.obj /\ f # x.obj
      BY <1>0, <1>1, <2>1, <3>2
    <3>3. QED
      BY <3>1, <3>2
  <2>2. QED
    BY <2>1
<1>5. \A e \in Ephemerons : s[e] # 0 => state'[e] # "claimed" /\ Started(e)'
  <2>1. Started(x.obj)
    BY <1>0 DEF TraceInv, QueuedOnce
  <2>2. \A e \in Ephemerons : Started(e) => Started(e)'
    <3>1. TraceStep(w) /\ QueuedOnce
      BY DEF TraceStep, TraceInv
    <3>2. \A o \in Objects : Started(o) => Started(o)'
      BY <3>1, Steady
    <3>3. QED
      BY <3>2 DEF Objects
  <2>3. QED
    BY <1>0, <1>1, <2>1, <2>2
<1>6. \A e \in Ephemerons : s[e] = 0 /\ state'[e] = "pending" => HasOp(Pushes, e)' /\ HasOp({"recheck"}, e)'
  <2>1. \A e \in Ephemerons : e # x.obj /\ HasOp(Pushes, e) => HasOp(Pushes, e)'
    BY DEF Becomes
  <2>2. \A e \in Ephemerons : e # x.obj /\ HasOp({"recheck"}, e) => HasOp({"recheck"}, e)'
    BY DEF Becomes
  <2>3. QED
    BY <1>0, <1>1, <2>1, <2>2
<1>7. \A e \in Ephemerons : s[e] # 0 /\ HasOp(Pushes, e)' => state'[e] = "resolved"
  <2>1. \A e \in Ephemerons : HasOp(Pushes, e)' => HasOp(Pushes, e)
    BY DEF Becomes
  <2>2. ~HasOp(Pushes, x.obj)'
    <3>1. Once(Of(Pushes, x.obj))
      BY <1>0 DEF TraceInv, Pushed
    <3>2. QED
      BY <3>1 DEF Becomes
  <2>3. QED
    BY <1>0, <1>1, <2>1, <2>2
<1>8. \A e \in Ephemerons : HasOp({"tryResolve"}, e)' => s[e] # 0
  <2>1. \A e \in Ephemerons : HasOp({"tryResolve"}, e)' => HasOp({"tryResolve"}, e)
    BY DEF Becomes
  <2>2. QED
    BY <1>0, <1>1, <2>1
<1>9. QED
  BY <1>3, <1>4, <1>5, <1>6, <1>7, <1>8 DEF Ranked

LEMMA RaisedLinks ==
  ASSUME WeakTypes, Phases, Tracing, NEW r, NEW s, NEW n, NEW e, NEW c, Raised(r, s, e, n, c), Links(r, n),
         link[PendingLink(e)] = link[c], link' = [link EXCEPT ![c] = e], state' = state, Ops' \subseteq Ops
  PROVE  Links(s, n + 1)'
<1>0. /\ n \in Nat /\ e \in Ephemerons /\ r[e] = 0 /\ s[e] = n /\ n # 0 /\ BucketFor(e) = c /\ key' = key
      /\ \A f \in Ephemerons : r[f] < n /\ (f # e => s[f] = r[f])
  BY DEF Raised
<1>1. \A f \in Ephemerons : r[f] \in Nat /\ s[f] \in Nat /\ r[f] <= s[f] /\ s[f] <= n /\ Rank(s, f) = s[f]
  BY RaisedRanks
<1>2. PICK k0 \in Buckets : c = Bucket(k0)
  <2>1. c = Bucket(BucketOf(key[e])) /\ BucketOf(key[e]) \in Buckets
    BY <1>0, KeyTypes DEF BucketFor
  <2>2. QED
    BY <2>1
<1>3. c \in Cells /\ link \in [Cells -> Ephs] /\ \A f \in Ephemerons : PendingLink(f) # c /\ PendingLink(f) \in Cells
  BY <1>2, CellsApart DEF WeakTypes
<1>4. link'[c] = e /\ \A d \in Cells : d # c => link'[d] = link[d]
  BY <1>3
<1>5. IsNode(r, c, link[c]) /\ NoneBetween(r, c, link[c], n) /\ link[c] \in Ephs
  BY <1>2, <1>3 DEF Links
<1>6. ASSUME NEW k \in Buckets
      PROVE  (IsNode(s, Bucket(k), link[Bucket(k)]) /\ NoneBetween(s, Bucket(k), link[Bucket(k)], n + 1))'
  <2>1. PICK b : b = Bucket(k)
    OBVIOUS
  <2>2. b \in Cells /\ IsNode(r, b, link[b]) /\ NoneBetween(r, b, link[b], n) /\ link[b] \in Ephs
    BY <1>3, <2>1, CellsApart DEF Links
  <2>3. CASE b = c
    <3>1. link'[b] = e
      BY <1>4, <2>3
    <3>2. IsNode(s, b, e)'
      BY <1>0, <2>3, RaisedIn DEF IsNode
    <3>3. NoneBetween(s, b, e, n + 1)'
      BY <1>0, <1>1 DEF NoneBetween, Rank
    <3>4. QED
      BY <2>1, <3>1, <3>2, <3>3 DEF IsNode, NoneBetween, Rank
  <2>4. CASE b # c
    <3>1. PICK v : v = link[b]
      OBVIOUS
    <3>2. link'[b] = v /\ v \in Ephs /\ IsNode(r, b, v) /\ NoneBetween(r, b, v, n)
      BY <1>4, <2>2, <2>4, <3>1
    <3>3. IsNode(s, b, v)' /\ Rank(s, v) = Rank(r, v)
      BY <3>2, RaisedNode
    <3>4. ASSUME NEW y \in Ephemerons, InBucket(s, b, y)', state[y] = "pending", Rank(s, v) < s[y]
          PROVE  FALSE
      <4>1. InBucket(r, b, y)
        BY <2>4, <3>4, RaisedIn
      <4>2. y # e
        BY <1>0, <4>1 DEF InBucket
      <4>3. s[y] = r[y] /\ r[y] < n /\ r[y] \in Nat
        BY <1>0, <1>1, <4>2
      <4>4. n <= r[y]
        BY <3>2, <3>3, <3>4, <4>1, <4>3 DEF NoneBetween
      <4>5. QED
        BY <1>0, <4>3, <4>4
    <3>5. NoneBetween(s, b, v, n + 1)'
      BY <3>4 DEF NoneBetween, Rank
    <3>6. QED
      BY <2>1, <3>2, <3>3, <3>5 DEF IsNode, NoneBetween, Rank
  <2>5. QED
    BY <2>3, <2>4
<1>7. ASSUME NEW y \in Ephemerons, s[y] # 0
      PROVE  (LET v == link[PendingLink(y)] IN
                IsNode(s, BucketFor(y), v) /\ Rank(s, v) < s[y] /\ NoneBetween(s, BucketFor(y), v, s[y]))'
  <2>1. PICK b : b = BucketFor(y)
    OBVIOUS
  <2>2. PICK v : v = link[PendingLink(y)]
    OBVIOUS
  <2>3. link'[PendingLink(y)] = v /\ v \in Ephs /\ BucketFor(y)' = b
    BY <1>0, <1>3, <1>4, <2>1, <2>2 DEF BucketFor
  <2>4. IsNode(r, b, v) /\ Rank(r, v) < s[y] /\ NoneBetween(r, b, v, s[y])
    <3>1. CASE y = e
      <4>1. b = c /\ v = link[c] /\ s[y] = n
        BY <1>0, <2>1, <2>2, <3>1
      <4>2. Rank(r, v) < n
        BY <2>3, RaisedRanks
      <4>3. QED
        BY <1>5, <4>1, <4>2
    <3>2. CASE y # e
      <4>1. s[y] = r[y]
        BY <1>0, <3>2
      <4>2. QED
        BY <1>7, <2>1, <2>2, <4>1 DEF Links
    <3>3. QED
      BY <3>1, <3>2
  <2>5. IsNode(s, b, v)' /\ Rank(s, v) = Rank(r, v)
    BY <2>3, <2>4, RaisedNode
  <2>6. NoneBetween(s, b, v, s[y])'
    <3>1. PICK m : m = s[y]
      OBVIOUS
    <3>2. m \in Nat /\ m <= n
      BY <1>1, <3>1
    <3>3. NoneBetween(s, b, v, m)'
      BY <2>3, <2>4, <3>1, <3>2, RaisedBetween
    <3>4. QED
      BY <3>1, <3>3
  <2>7. QED
    BY <2>2, <2>3, <2>4, <2>5, <2>6 DEF IsNode, NoneBetween, Rank
<1>8. ASSUME NEW y \in Ops', y.op \in Walks PROVE WalkOk(s, y)'
  <2>1. y \in OpSet /\ WalkOk(r, y)
    BY <1>8, OpsIn DEF Links
  <2>2. QED
    BY <1>8, <2>1, RaisedWalk
<1>9. QED
  BY <1>6, <1>7, <1>8 DEF Links

LEMMA RaisedCares ==
  ASSUME WeakTypes, NEW r, NEW s, NEW n, NEW e, NEW c, Raised(r, s, e, n, c), Cares(r)', Ops' \subseteq Ops,
         HasOp({"recheck"}, e)'
  PROVE  Cares(s)'
<1>0. e \in Ephemerons /\ \A f \in Ephemerons : f # e => s[f] = r[f]
  BY DEF Raised
<1>1. ASSUME NEW f \in Ephemerons, Cared(r, f)' PROVE Cared(s, f)'
  <2>1. CASE HasOp(Rechecks, f)'
    BY <2>1 DEF Cared
  <2>2. CASE f = e
    BY <2>2 DEF Cared, HasOp, Rechecks
  <2>3. CASE f # e /\ \E y \in Ops' : Toward(r, y, f)'
    <3>1. PICK y \in Ops' : Toward(r, y, f)'
      BY <2>3
    <3>2. y \in OpSet
      BY OpsIn
    <3>3. /\ y.op \in Walks /\ y.obj = key'[f]
          /\ \A z \in Ephemerons : y.cell = PendingLink(z) => r[f] < r[z]
          /\ y.op # "follow" => r[f] <= Rank(r, y.new)
      BY <3>1 DEF Toward, Rank
    <3>4. \A z \in Ephemerons : r[z] \in Nat /\ s[z] \in Nat /\ r[z] <= s[z]
      BY RaisedRanks
    <3>5. s[f] = r[f]
      BY <1>0, <2>3
    <3>6. \A z \in Ephemerons : y.cell = PendingLink(z) => s[f] < s[z]
      BY <3>3, <3>4, <3>5
    <3>7. y.op # "follow" => s[f] <= Rank(s, y.new)
      <4>1. SUFFICES ASSUME y.op # "follow" PROVE s[f] <= Rank(s, y.new)
        OBVIOUS
      <4>2. y.new \in Ephs
        BY <3>2, <3>3, <4>1, OpKinds DEF Walks
      <4>3. Rank(r, y.new) \in Nat /\ Rank(s, y.new) \in Nat /\ Rank(r, y.new) <= Rank(s, y.new)
        BY <4>2, RaisedRanks
      <4>4. QED
        BY <3>3, <3>4, <3>5, <4>1, <4>3
    <3>8. Toward(s, y, f)'
      BY <3>3, <3>6, <3>7 DEF Toward, Rank
    <3>9. QED
      BY <3>8 DEF Cared
  <2>4. QED
    BY <1>1, <2>1, <2>2, <2>3 DEF Cared
<1>2. QED
  BY <1>1 DEF Cares

\* An ephemeron that is put at the head of its bucket ranks highest.
LEMMA RanksRaised ==
  ASSUME WeakTypes, Phases, Tracing, TraceInv, NEW w \in Workers, PushSwap(w),
         NEW r \in [Ephemerons -> Nat], NEW n \in Nat, RankedBy(r, n),
         Op(w).cell # Resolved, link[Op(w).cell] = Op(w).tail
  PROVE  \E s \in [Ephemerons -> Nat], m \in Nat : RankedBy(s, m)'
<1>1. PICK x : x = Op(w)
  OBVIOUS
<1>2. PushSwapMoves(w) /\ key' = key /\ state' = state
  BY PushSwapOps DEF PushSwap, weakHeapVars
<1>3. /\ x \in Ops /\ x.op = "pushCas" /\ x.op \in Pushes /\ x.obj \in Ephemerons /\ x.cell # Resolved
      /\ link[x.cell] = x.tail /\ link' = [link EXCEPT ![x.cell] = x.obj] /\ Becomes({x}, {})
      /\ \A s : Rechecked(r) /\ (\A e \in Ephemerons : r[e] # 0 => s[e] # 0) /\ s[x.obj] # 0 => Rechecked(s)'
  BY <1>1, <1>2 DEF PushSwapMoves, Pushes
<1>4. Ranked(r, n) /\ Rechecked(r) /\ Links(r, n) /\ Pushed
  BY DEF RankedBy, TraceInv
<1>5. /\ x.cell = BucketFor(x.obj) /\ state[x.obj] = "pending" /\ link[PendingLink(x.obj)] = link[x.cell]
  BY <1>3, <1>4 DEF Pushed, LinkOf
<1>6. HasOp(Pushes, x.obj)
  BY <1>3 DEF HasOp
<1>7. r[x.obj] = 0 /\ HasOp({"recheck"}, x.obj) /\ \A e \in Ephemerons : r[e] < n
  BY <1>3, <1>4, <1>5, <1>6 DEF Ranked
<1>8. n # 0
  BY <1>3, <1>7
<1>9. PICK s : s = [r EXCEPT ![x.obj] = n]
  OBVIOUS
<1>10. s \in [Ephemerons -> Nat] /\ s[x.obj] = n /\ \A e \in Ephemerons : e # x.obj => s[e] = r[e]
  BY <1>3, <1>9
<1>11. Raised(r, s, x.obj, n, x.cell)
  BY <1>2, <1>3, <1>5, <1>7, <1>8, <1>10 DEF Raised
<1>12. Ranked(s, n + 1)'
  BY <1>1, <1>2, <1>3, <1>4, <1>5, <1>11, RaisedRanked
<1>13. Ops' \subseteq Ops
  BY <1>3 DEF Becomes
<1>14. Links(s, n + 1)'
  BY <1>2, <1>3, <1>4, <1>5, <1>11, <1>13, RaisedLinks
<1>15. Rechecked(s)'
  BY <1>3, <1>4, <1>7, <1>8, <1>10
<1>16. HasOp({"recheck"}, x.obj)'
  <2>1. x.op \notin {"recheck"}
    BY <1>3
  <2>2. QED
    BY <1>3, <1>7, <2>1 DEF Becomes
<1>17. Cares(r)'
  BY CaresKept DEF TraceStep
<1>18. Cares(s)'
  BY <1>11, <1>13, <1>16, <1>17, RaisedCares
<1>19. RankedBy(s, n + 1)' /\ n + 1 \in Nat
  BY <1>12, <1>14, <1>15, <1>18 DEF RankedBy
<1>20. QED
  BY <1>10, <1>19

LEMMA RanksNext ==
  ASSUME WeakTypes, Phases, Tracing, TraceInv, NEW w \in Workers, TraceStep(w)
  PROVE  \E r \in [Ephemerons -> Nat], n \in Nat : RankedBy(r, n)'
<1>1. PICK r \in [Ephemerons -> Nat], n \in Nat : RankedBy(r, n)
  BY DEF TraceInv
<1>2. CASE PushSwap(w) => Op(w).cell = Resolved \/ link[Op(w).cell] # Op(w).tail
  BY <1>1, <1>2, RankedByKept
<1>3. CASE PushSwap(w) /\ Op(w).cell # Resolved /\ link[Op(w).cell] = Op(w).tail
  BY <1>1, <1>3, RanksRaised
<1>4. QED
  BY <1>2, <1>3

-------------------------------------------------------------------------------
(* What lives *)

\* LivesWith(S) is the least closed set that S is part of.
LEMMA Lives ==
  ASSUME shape \in Shapes, NEW S
  PROVE  /\ LivesWith(S) \subseteq Objects /\ ClosedSet(LivesWith(S))
         /\ S \subseteq Objects => S \subseteq LivesWith(S)
         /\ \A T \in SUBSET Objects : S \subseteq T /\ ClosedSet(T) => LivesWith(S) \subseteq T
<1>1. /\ \A o \in Plain : shape.field[o] \in Objects \cup {NoRef}
      /\ \A e \in Ephemerons : shape.value[e] \in Objects
      /\ \A f \in Finalizers : shape.closure[f] \in Objects \cup {NoRef}
  BY WeakAssumption
<1>2. PICK L : L = LivesWith(S)
  OBVIOUS
<1>3. L \subseteq Objects /\ \A T \in SUBSET Objects : S \subseteq T /\ ClosedSet(T) => L \subseteq T
  BY <1>2 DEF LivesWith
<1>4. ASSUME NEW o \in Objects, \A T \in SUBSET Objects : S \subseteq T /\ ClosedSet(T) => o \in T
      PROVE  o \in L
  BY <1>2, <1>4 DEF LivesWith
<1>5. \A o \in L \cap Plain : shape.field[o] \in L \cup {NoRef}
  <2>1. ASSUME NEW o \in L \cap Plain, shape.field[o] # NoRef PROVE shape.field[o] \in L
    <3>1. ASSUME NEW T \in SUBSET Objects, S \subseteq T, ClosedSet(T) PROVE shape.field[o] \in T
      BY <1>3, <2>1, <3>1 DEF ClosedSet
    <3>2. shape.field[o] \in Objects
      BY <1>1, <2>1
    <3>3. QED
      BY <1>4, <3>1, <3>2
  <2>2. QED
    BY <2>1
<1>6. \A f \in L \cap Finalizers : shape.closure[f] \in L \cup {NoRef}
  <2>1. ASSUME NEW f \in L \cap Finalizers, shape.closure[f] # NoRef PROVE shape.closure[f] \in L
    <3>1. ASSUME NEW T \in SUBSET Objects, S \subseteq T, ClosedSet(T) PROVE shape.closure[f] \in T
      BY <1>3, <2>1, <3>1 DEF ClosedSet
    <3>2. shape.closure[f] \in Objects
      BY <1>1, <2>1
    <3>3. QED
      BY <1>4, <3>1, <3>2
  <2>2. QED
    BY <2>1
<1>7. \A e \in L \cap Ephemerons : shape.key[e] \in L => shape.value[e] \in L
  <2>1. ASSUME NEW e \in L \cap Ephemerons, shape.key[e] \in L PROVE shape.value[e] \in L
    <3>1. ASSUME NEW T \in SUBSET Objects, S \subseteq T, ClosedSet(T) PROVE shape.value[e] \in T
      BY <1>3, <2>1, <3>1 DEF ClosedSet
    <3>2. QED
      BY <1>1, <1>4, <3>1
  <2>2. QED
    BY <2>1
<1>8. ClosedSet(L)
  BY <1>5, <1>6, <1>7 DEF ClosedSet
<1>9. S \subseteq Objects => S \subseteq L
  BY <1>4
<1>10. QED
  BY <1>2, <1>3, <1>8, <1>9

\* What a round of tracing starts from is objects.
LEMMA Rounds ==
  ASSUME shape \in Shapes
  PROVE  /\ RootsNow \subseteq Objects /\ AliveNow \subseteq Objects /\ ClosedSet(AliveNow) /\ RootsNow \subseteq AliveNow
         /\ Alive0 \subseteq Objects /\ Alive1 \subseteq Objects /\ Alive2 \subseteq Objects
<1>1. Alive0 \subseteq Objects /\ Alive1 \subseteq Objects /\ Alive2 \subseteq Objects
  BY Lives DEF Alive0, Alive1, Alive2
<1>2. shape.roots \cup Finalizers \subseteq Objects /\ \A f \in Finalizers : shape.object[f] \in Objects
  BY WeakAssumption DEF Objects
<1>3. ObjectsOf(Fired0) \subseteq Objects /\ ObjectsOf(Fired1) \subseteq Objects
  BY <1>2 DEF ObjectsOf, Fired0, Fired1, FiresAt
<1>4. RootsNow \subseteq Objects
  BY <1>1, <1>2, <1>3 DEF RootsNow
<1>5. QED
  BY <1>1, <1>4, Lives DEF AliveNow

\* What was traced stays black, and an ephemeron that has been traced has been looked at.
LEMMA BlackFrom ==
  ASSUME WeakTypes, Claimed, shape' = shape, key' = key, markedObjects \subseteq markedObjects',
         \A o \in Objects : Seen(o) => Seen(o)', \A o \in Objects : Started(o) => Black(o),
         \A a \in Objects : Started(a)' => Started(a) \/ Black(a)',
         \A e \in Ephemerons : state'[e] = "traced" => state[e] = "traced" \/ HasOp({"setTraced"}, e)
  PROVE  Tricolor'
<1>1. SUFFICES ASSUME NEW o \in Objects, Started(o), Black(o) PROVE Black(o)'
  BY DEF Tricolor
<1>2. /\ \A p \in Plain : shape.field[p] \in Objects \cup {NoRef}
      /\ \A e \in Ephemerons : shape.value[e] \in Objects
      /\ \A f \in Finalizers : shape.closure[f] \in Objects \cup {NoRef}
  BY ShapeTypes
<1>3. o \in Plain => shape.field[o] = NoRef \/ Seen(shape.field[o])'
  BY <1>1, <1>2 DEF Black
<1>4. o \in Finalizers => shape.closure[o] = NoRef \/ Seen(shape.closure[o])'
  BY <1>1, <1>2 DEF Black
<1>5. ASSUME o \in Ephemerons, state'[o] = "traced"
      PROVE  key[o] \in markedObjects' /\ Seen(shape.value[o])'
  <2>1. key[o] \in markedObjects /\ Seen(shape.value[o])
    BY <1>1, <1>5 DEF Black, Claimed
  <2>2. QED
    BY <1>2, <1>5, <2>1
<1>6. QED
  BY <1>3, <1>4, <1>5 DEF Black, Seen

\* What has been traced refers only to what is marked, or about to be.
LEMMA TricolorNext ==
  ASSUME WeakTypes, Phases, Tracing, TraceInv, NEW w \in Workers, TraceStep(w)
  PROVE  Tricolor'
<1>s. state \in [Ephemerons -> {"traced", "claimed", "pending", "resolved"}]
  BY DEF WeakTypes
<1>0. /\ QueuedOnce /\ Claimed /\ shape' = shape /\ key' = key /\ phase' = phase
      /\ (\A o \in Objects : Seen(o) => Seen(o)') /\ markedObjects \subseteq markedObjects'
      /\ \A o \in Objects : Started(o) => Black(o)
  BY TraceFrame, Steady DEF TraceInv, Tricolor
<1>h. \A o \in Objects : HasOp({"enqueue"}, o) => o \in markedObjects /\ o \notin greyObjects
  BY <1>0 DEF QueuedOnce
<1>1. CASE PushLoad(w)
  <2>1. PushLoadMoves(w)
    BY <1>1, PushLoadOps
  <2>2. markedObjects' = markedObjects /\ greyObjects' = greyObjects /\ state' = state /\ rootList' = rootList
    BY <1>1 DEF PushLoad
  <2>3. PushLoadGains(w)
    BY <2>1, PushLoadGained
  <2>4. \A a \in Objects : Started(a)' => Started(a) \/ Black(a)'
    <3>1. \A a : HasOp({"enqueue"}, a) => HasOp({"enqueue"}, a)'
      BY <2>1, <2>3 DEF PushLoadMoves, PushLoadGains
    <3>2. QED
      BY <2>2, <3>1 DEF Started
  <2>5. \A e \in Ephemerons : state'[e] = "traced" => state[e] = "traced" \/ HasOp({"setTraced"}, e)
    BY <1>s, <2>2
  <2>6. QED
    BY <1>0, <2>4, <2>5, BlackFrom
<1>2. CASE PushSwap(w)
  <2>1. PushSwapMoves(w)
    BY <1>2, PushSwapOps
  <2>2. markedObjects' = markedObjects /\ greyObjects' = greyObjects /\ state' = state /\ rootList' = rootList
    BY <1>2 DEF PushSwap
  <2>3. PushSwapGains(w)
    BY <2>1, PushSwapGained
  <2>4. \A a \in Objects : Started(a)' => Started(a) \/ Black(a)'
    <3>1. \A a : HasOp({"enqueue"}, a) => HasOp({"enqueue"}, a)'
      BY <2>1, <2>3 DEF PushSwapMoves, PushSwapGains
    <3>2. QED
      BY <2>2, <3>1 DEF Started
  <2>5. \A e \in Ephemerons : state'[e] = "traced" => state[e] = "traced" \/ HasOp({"setTraced"}, e)
    BY <1>s, <2>2
  <2>6. QED
    BY <1>0, <2>4, <2>5, BlackFrom
<1>3. CASE FollowLoad(w)
  <2>1. FollowLoadMoves(w)
    BY <1>3, FollowLoadOps
  <2>2. markedObjects' = markedObjects /\ greyObjects' = greyObjects /\ state' = state /\ link' = link /\ rootList' = rootList
    BY <1>3 DEF FollowLoad
  <2>3. FollowLoadGains(w)
    BY <2>1, FollowLoadGained
  <2>4. \A a \in Objects : Started(a)' => Started(a) \/ Black(a)'
    <3>1. \A a : HasOp({"enqueue"}, a) => HasOp({"enqueue"}, a)'
      BY <2>1, <2>3 DEF FollowLoadMoves, FollowLoadGains
    <3>2. QED
      BY <2>2, <3>1 DEF Started
  <2>5. \A e \in Ephemerons : state'[e] = "traced" => state[e] = "traced" \/ HasOp({"setTraced"}, e)
    BY <1>s, <2>2
  <2>6. QED
    BY <1>0, <2>4, <2>5, BlackFrom
<1>4. CASE FollowSkip(w)
  <2>1. FollowSkipMoves(w)
    BY <1>4, FollowSkipOps
  <2>2. markedObjects' = markedObjects /\ greyObjects' = greyObjects /\ state' = state /\ link' = link /\ rootList' = rootList
    BY <1>4 DEF FollowSkip
  <2>3. FollowSkipGains(w)
    BY <2>1, FollowSkipGained
  <2>4. \A a \in Objects : Started(a)' => Started(a) \/ Black(a)'
    <3>1. \A a : HasOp({"enqueue"}, a) => HasOp({"enqueue"}, a)'
      BY <2>1, <2>3 DEF FollowSkipMoves, FollowSkipGains
    <3>2. QED
      BY <2>2, <3>1 DEF Started
  <2>5. \A e \in Ephemerons : state'[e] = "traced" => state[e] = "traced" \/ HasOp({"setTraced"}, e)
    BY <1>s, <2>2
  <2>6. QED
    BY <1>0, <2>4, <2>5, BlackFrom
<1>5. CASE FollowSwap(w)
  <2>1. FollowSwapMoves(w)
    BY <1>5, FollowSwapOps
  <2>2. markedObjects' = markedObjects /\ greyObjects' = greyObjects /\ state' = state /\ rootList' = rootList
    BY <1>5 DEF FollowSwap
  <2>3. FollowSwapGains(w)
    BY <2>1, FollowSwapGained
  <2>4. \A a \in Objects : Started(a)' => Started(a) \/ Black(a)'
    <3>1. \A a : HasOp({"enqueue"}, a) => HasOp({"enqueue"}, a)'
      BY <2>1, <2>3 DEF FollowSwapMoves, FollowSwapGains
    <3>2. QED
      BY <2>2, <3>1 DEF Started
  <2>5. \A e \in Ephemerons : state'[e] = "traced" => state[e] = "traced" \/ HasOp({"setTraced"}, e)
    BY <1>s, <2>2
  <2>6. QED
    BY <1>0, <2>4, <2>5, BlackFrom
<1>6. CASE Resolve(w)
  <2>1. ResolveMoves(w)
    BY <1>6, ResolveOps
  <2>2. markedObjects' = markedObjects /\ greyObjects' = greyObjects /\ link' = link /\ rootList' = rootList
    BY <1>6 DEF Resolve
  <2>3. ResolveGains(w)
    BY <2>1, ResolveGained
  <2>4. \A a \in Objects : Started(a)' => Started(a) \/ Black(a)'
    <3>1. \A a : HasOp({"enqueue"}, a) => HasOp({"enqueue"}, a)'
      BY <2>1, <2>3 DEF ResolveMoves, ResolveGains
    <3>2. QED
      BY <2>2, <3>1 DEF Started
  <2>5. \A e \in Ephemerons : state'[e] = "traced" => state[e] = "traced" \/ HasOp({"setTraced"}, e)
    BY <1>s, <2>1, <2>3 DEF ResolveMoves, ResolveGains
  <2>6. QED
    BY <1>0, <2>4, <2>5, BlackFrom
<1>7. CASE VisitEdge(w)
  <2>1. VisitEdgeMoves(w)
    BY <1>7, VisitEdgeOps
  <2>2. greyObjects' = greyObjects /\ state' = state /\ link' = link /\ rootList' = rootList
    BY <1>7 DEF VisitEdge
  <2>3. VisitEdgeGains(w)
    BY <2>1, VisitEdgeGained
  <2>4. \A a \in Objects : Started(a)' => Started(a) \/ Black(a)'
    <3>0. PICK x : x = Op(w)
      OBVIOUS
    <3>1. \A a : HasOp({"enqueue"}, a) => HasOp({"enqueue"}, a)'
      BY <2>1, <2>3 DEF VisitEdgeMoves, VisitEdgeGains
    <3>2. \A a \in markedObjects' : a \in markedObjects \/ HasOp({"enqueue"}, a)'
      <4>1. markedObjects' = markedObjects \/ (markedObjects' = markedObjects \cup {x.obj} /\ HasOp({"enqueue"}, x.obj)')
        <5>1. Enqueue(x.obj).op \in {"enqueue"} /\ Enqueue(x.obj).obj = x.obj
          BY DEF Enqueue
        <5>2. QED
          BY <2>1, <3>0, <5>1, NowHas DEF VisitEdgeMoves
      <4>2. QED
        BY <4>1
    <3>3. QED
      BY <2>2, <3>1, <3>2 DEF Started
  <2>5. \A e \in Ephemerons : state'[e] = "traced" => state[e] = "traced" \/ HasOp({"setTraced"}, e)
    BY <1>s, <2>2
  <2>6. QED
    BY <1>0, <2>4, <2>5, BlackFrom
<1>8. CASE EnqueueObject(w)
  <2>1. EnqueueMoves(w)
    BY <1>8, EnqueueOps
  <2>2. markedObjects' = markedObjects /\ state' = state /\ link' = link /\ rootList' = rootList
    BY <1>8 DEF EnqueueObject
  <2>3. EnqueueGains(w)
    BY <2>1, EnqueueGained
  <2>4. \A a \in Objects : Started(a)' => Started(a) \/ Black(a)'
    <3>0. PICK x : x = Op(w)
      OBVIOUS
    <3>1. \A a : HasOp({"enqueue"}, a) => HasOp({"enqueue"}, a)' \/ a = x.obj
      BY <2>3, <3>0 DEF EnqueueGains
    <3>2. greyObjects' = greyObjects \cup {x.obj}
      BY <2>1, <3>0 DEF EnqueueMoves
    <3>3. QED
      BY <2>2, <3>1, <3>2 DEF Started
  <2>5. \A e \in Ephemerons : state'[e] = "traced" => state[e] = "traced" \/ HasOp({"setTraced"}, e)
    BY <1>s, <2>2
  <2>6. QED
    BY <1>0, <2>4, <2>5, BlackFrom
<1>9. CASE TraceObject(w)
  <2>1. PICK o \in greyObjects : TraceObjectMoves(o)
    BY <1>9, TraceObjectOps
  <2>2. markedObjects' = markedObjects /\ link' = link /\ rootList' = rootList
    BY <1>9 DEF TraceObject
  <2>3. TraceObjectGains(o)
    BY <2>1, TraceObjectGained
  <2>4. \A a \in Objects : Started(a)' => Started(a) \/ Black(a)'
    <3>1. \A a : HasOp({"enqueue"}, a) => HasOp({"enqueue"}, a)'
      BY <2>3 DEF TraceObjectGains
    <3>2. greyObjects' = greyObjects \ {o} /\ o \in Objects
      BY <2>1 DEF TraceObjectMoves
    <3>3. Black(o)'
      <4>0. /\ Plain \cap (Ephemerons \cup Finalizers) = {} /\ Ephemerons \cap Finalizers = {}
        BY WeakAssumption
      <4>1. CASE o \in Plain
        <5>0. PICK v : v = shape.field[o]
          OBVIOUS
        <5>1. PICK N : N = {VisitObject(v)}
          OBVIOUS
        <5>2. Becomes({}, N) /\ VisitObject(v) \in N
          BY <2>1, <4>0, <4>1, <5>0, <5>1 DEF TraceObjectMoves
        <5>3. HasOp({"visit"}, v)'
          BY <5>2, NowVisits
        <5>4. QED
          BY <1>0, <4>0, <4>1, <5>0, <5>3 DEF Black, Seen
      <4>2. CASE o \in Finalizers
        <5>0. PICK v : v = shape.closure[o]
          OBVIOUS
        <5>1. PICK N : N = {VisitObject(v)}
          OBVIOUS
        <5>2. Becomes({}, N) /\ VisitObject(v) \in N
          BY <2>1, <4>0, <4>2, <5>0, <5>1 DEF TraceObjectMoves
        <5>3. HasOp({"visit"}, v)'
          BY <5>2, NowVisits
        <5>4. QED
          BY <1>0, <4>0, <4>2, <5>0, <5>3 DEF Black, Seen
      <4>3. CASE o \in Ephemerons
        <5>1. state'[o] = "claimed"
          BY <1>s, <2>1, <4>0, <4>3 DEF TraceObjectMoves
        <5>2. QED
          BY <4>0, <4>3, <5>1 DEF Black
      <4>4. QED
        BY <3>2, <4>1, <4>2, <4>3 DEF Objects
    <3>4. QED
      BY <2>2, <3>1, <3>2, <3>3 DEF Started
  <2>5. \A e \in Ephemerons : state'[e] = "traced" => state[e] = "traced" \/ HasOp({"setTraced"}, e)
    <3>1. state' = state \/ state' = [state EXCEPT ![o] = "claimed"]
      BY <2>1 DEF TraceObjectMoves
    <3>2. QED
      BY <1>s, <3>1
  <2>6. QED
    BY <1>0, <2>4, <2>5, BlackFrom
<1>10. CASE LookAtKey(w)
  <2>1. LookAtKeyMoves(w)
    BY <1>10, LookAtKeyOps
  <2>2. markedObjects' = markedObjects /\ greyObjects' = greyObjects /\ state' = state /\ link' = link /\ rootList' = rootList
    BY <1>10 DEF LookAtKey
  <2>3. LookAtKeyGains(w)
    BY <2>1, LookAtKeyGained
  <2>4. \A a \in Objects : Started(a)' => Started(a) \/ Black(a)'
    <3>1. \A a : HasOp({"enqueue"}, a) => HasOp({"enqueue"}, a)'
      BY <2>1, <2>3 DEF LookAtKeyMoves, LookAtKeyGains
    <3>2. QED
      BY <2>2, <3>1 DEF Started
  <2>5. \A e \in Ephemerons : state'[e] = "traced" => state[e] = "traced" \/ HasOp({"setTraced"}, e)
    BY <1>s, <2>2
  <2>6. QED
    BY <1>0, <2>4, <2>5, BlackFrom
<1>11. CASE FinishTraced(w)
  <2>1. FinishTracedMoves(w)
    BY <1>11, FinishTracedOps
  <2>2. markedObjects' = markedObjects /\ greyObjects' = greyObjects /\ link' = link /\ rootList' = rootList
    BY <1>11 DEF FinishTraced
  <2>3. FinishTracedGains(w)
    BY <2>1, FinishTracedGained
  <2>4. \A a \in Objects : Started(a)' => Started(a) \/ Black(a)'
    <3>1. \A a : HasOp({"enqueue"}, a) => HasOp({"enqueue"}, a)'
      BY <2>1, <2>3 DEF FinishTracedMoves, FinishTracedGains
    <3>2. QED
      BY <2>2, <3>1 DEF Started
  <2>5. \A e \in Ephemerons : state'[e] = "traced" => state[e] = "traced" \/ HasOp({"setTraced"}, e)
    BY <1>s, <2>1, <2>3 DEF FinishTracedMoves, FinishTracedGains
  <2>6. QED
    BY <1>0, <2>4, <2>5, BlackFrom
<1>12. CASE AddPending(w)
  <2>1. AddPendingMoves(w)
    BY <1>12, AddPendingOps
  <2>2. markedObjects' = markedObjects /\ greyObjects' = greyObjects /\ link' = link /\ rootList' = rootList
    BY <1>12 DEF AddPending
  <2>3. AddPendingGains(w)
    BY <2>1, AddPendingGained
  <2>4. \A a \in Objects : Started(a)' => Started(a) \/ Black(a)'
    <3>1. \A a : HasOp({"enqueue"}, a) => HasOp({"enqueue"}, a)'
      BY <2>1, <2>3 DEF AddPendingMoves, AddPendingGains
    <3>2. QED
      BY <2>2, <3>1 DEF Started
  <2>5. \A e \in Ephemerons : state'[e] = "traced" => state[e] = "traced" \/ HasOp({"setTraced"}, e)
    BY <1>s, <2>1, <2>3 DEF AddPendingMoves, AddPendingGains
  <2>6. QED
    BY <1>0, <2>4, <2>5, BlackFrom
<1>13. CASE LookAgain(w)
  <2>1. LookAgainMoves(w)
    BY <1>13, LookAgainOps
  <2>2. markedObjects' = markedObjects /\ greyObjects' = greyObjects /\ state' = state /\ link' = link /\ rootList' = rootList
    BY <1>13 DEF LookAgain
  <2>3. LookAgainGains(w)
    BY <2>1, LookAgainGained
  <2>4. \A a \in Objects : Started(a)' => Started(a) \/ Black(a)'
    <3>1. \A a : HasOp({"enqueue"}, a) => HasOp({"enqueue"}, a)'
      BY <2>1, <2>3 DEF LookAgainMoves, LookAgainGains
    <3>2. QED
      BY <2>2, <3>1 DEF Started
  <2>5. \A e \in Ephemerons : state'[e] = "traced" => state[e] = "traced" \/ HasOp({"setTraced"}, e)
    BY <1>s, <2>2
  <2>6. QED
    BY <1>0, <2>4, <2>5, BlackFrom
<1>14. CASE GoNextResolved(w)
  <2>1. NextResolvedMoves(w)
    BY <1>14, NextResolvedOps
  <2>2. markedObjects' = markedObjects /\ greyObjects' = greyObjects /\ state' = state /\ link' = link /\ rootList' = rootList
    BY <1>14 DEF GoNextResolved
  <2>3. NextResolvedGains(w)
    BY <2>1, NextResolvedGained
  <2>4. \A a \in Objects : Started(a)' => Started(a) \/ Black(a)'
    <3>1. \A a : HasOp({"enqueue"}, a) => HasOp({"enqueue"}, a)'
      BY <2>1, <2>3 DEF NextResolvedMoves, NextResolvedGains
    <3>2. QED
      BY <2>2, <3>1 DEF Started
  <2>5. \A e \in Ephemerons : state'[e] = "traced" => state[e] = "traced" \/ HasOp({"setTraced"}, e)
    BY <1>s, <2>2
  <2>6. QED
    BY <1>0, <2>4, <2>5, BlackFrom
<1>15. CASE TakeNextRoot(w)
  <2>1. PICK r \in rootList : TakeRootMoves(r)
    BY <1>15, TakeRootOps
  <2>2. markedObjects' = markedObjects /\ greyObjects' = greyObjects /\ state' = state /\ link' = link
    BY <1>15 DEF TakeNextRoot
  <2>3. TakeRootGains(r)
    BY <2>1, TakeRootGained
  <2>4. \A a \in Objects : Started(a)' => Started(a) \/ Black(a)'
    <3>1. \A a : HasOp({"enqueue"}, a) => HasOp({"enqueue"}, a)'
      BY <2>1, <2>3 DEF TakeRootMoves, TakeRootGains
    <3>2. QED
      BY <2>2, <3>1 DEF Started
  <2>5. \A e \in Ephemerons : state'[e] = "traced" => state[e] = "traced" \/ HasOp({"setTraced"}, e)
    BY <1>s, <2>2
  <2>6. QED
    BY <1>0, <2>4, <2>5, BlackFrom
<1>16. QED
  BY <1>1, <1>2, <1>3, <1>4, <1>5, <1>6, <1>7, <1>8, <1>9, <1>10, <1>11, <1>12, <1>13, <1>14, <1>15 DEF TraceStep

\* Only what lives is marked, or about to be, and nothing a round starts from is lost.
LEMMA AliveFrom ==
  ASSUME WeakTypes, Phases, Tracing, TraceInv, NEW w \in Workers, TraceStep(w),
         markedObjects' \subseteq AliveNow,
         \A a \in Objects : HasOp({"visit"}, a)' => HasOp({"visit"}, a) \/ a \in AliveNow,
         rootList' \subseteq rootList,
         \A a \in Objects : Root(a) \in rootList => Root(a) \in rootList' \/ HasOp({"visit"}, a)'
  PROVE  OnlyAlive' /\ RootsKept'
<1>1. PICK A : A = AliveNow
  OBVIOUS
<1>2. PICK R : R = RootsNow
  OBVIOUS
<1>3. shape' = shape /\ phase' = phase /\ work' \in [Workers -> Seq(OpSet)]
  BY TraceFrame
<1>4. R = RootsNow' /\ A = AliveNow'
  <2>1. R = RootsNow'
    BY <1>2, <1>3 DEF RootsNow, Alive0, Alive1, ObjectsOf, Fired0, Fired1, FiresAt, LivesWith, ClosedSet
  <2>2. QED
    BY <1>1, <1>2, <1>3, <2>1 DEF AliveNow, LivesWith, ClosedSet
<1>5. ASSUME NEW x \in Ops', x.op = "visit" PROVE x.obj \in A \cup {NoRef}
  <2>1. x \in OpSet
    BY <1>3 DEF Ops
  <2>2. x.obj \in Objects \cup {NoRef}
    BY <1>5, <2>1, OpKinds
  <2>3. HasOp({"visit"}, x.obj)'
    BY <1>5 DEF HasOp
  <2>4. \A a : HasOp({"visit"}, a) => a \in A \cup {NoRef}
    BY <1>1 DEF TraceInv, OnlyAlive, HasOp
  <2>5. QED
    BY <1>1, <2>2, <2>3, <2>4
<1>6. OnlyAlive'
  <2>1. \A t \in rootList : t.kind = "edge" => t.obj \in A
    BY <1>1 DEF TraceInv, OnlyAlive
  <2>2. QED
    BY <1>1, <1>4, <1>5, <2>1 DEF OnlyAlive
<1>7. ASSUME NEW o \in R PROVE Seen(o)' \/ Root(o) \in rootList'
  <2>1. o \in Objects /\ QueuedOnce
    BY <1>2, <1>7, Rounds DEF WeakTypes, TraceInv
  <2>2. Seen(o) \/ Root(o) \in rootList
    BY <1>2, <1>7 DEF TraceInv, RootsKept
  <2>3. Seen(o) => Seen(o)'
    BY <2>1, Steady
  <2>4. QED
    BY <2>1, <2>2, <2>3 DEF Seen
<1>8. RootsKept'
  BY <1>4, <1>7 DEF RootsKept, Root
<1>9. QED
  BY <1>6, <1>8


LEMMA AliveNext ==
  ASSUME WeakTypes, Phases, Tracing, TraceInv, NEW w \in Workers, TraceStep(w)
  PROVE  OnlyAlive' /\ RootsKept'
<1>A. PICK A : A = AliveNow
  OBVIOUS
<1>s. state \in [Ephemerons -> {"traced", "claimed", "pending", "resolved"}]
  BY DEF WeakTypes
<1>0. /\ QueuedOnce /\ Claimed /\ ClosedSet(A) /\ shape' = shape /\ key' = key /\ phase' = phase
      /\ markedObjects \subseteq A /\ \A a \in Objects : HasOp({"visit"}, a) => a \in A
      /\ \A t \in rootList : t.kind = "edge" => t.obj \in A
  <2>1. /\ markedObjects \subseteq A /\ \A x \in Ops : x.op = "visit" => x.obj \in A \cup {NoRef}
        /\ \A t \in rootList : t.kind = "edge" => t.obj \in A
    BY <1>A DEF TraceInv, OnlyAlive
  <2>2. \A a \in Objects : HasOp({"visit"}, a) => a \in A
    BY <2>1, EphTypes DEF HasOp
  <2>3. ClosedSet(A)
    BY <1>A, Rounds DEF WeakTypes
  <2>4. QED
    BY <2>1, <2>2, <2>3, TraceFrame DEF TraceInv
<1>v. \A e \in Ephemerons : Started(e) /\ key[e] \in markedObjects => shape.value[e] \in A
  BY <1>0, KeyTypes DEF ClosedSet, Started
<1>r. \A e \in Ephemerons : state[e] = "resolved" => shape.value[e] \in A
  BY <1>0, <1>v DEF Claimed, QueuedOnce
<1>t. \A e \in Ephemerons : HasOp(Traces, e) => Started(e)
  BY <1>0 DEF QueuedOnce
<1>1. CASE PushLoad(w)
  <2>1. PushLoadMoves(w)
    BY <1>1, PushLoadOps
  <2>2. markedObjects' = markedObjects /\ greyObjects' = greyObjects /\ state' = state /\ rootList' = rootList
    BY <1>1 DEF PushLoad
  <2>3. PushLoadGains(w)
    BY <2>1, PushLoadGained
  <2>4. markedObjects' \subseteq A
    BY <1>0, <2>2
  <2>5. \A a \in Objects : HasOp({"visit"}, a)' => HasOp({"visit"}, a) \/ a \in A
    BY <1>0, <2>1, <2>2, <2>3 DEF PushLoadMoves, PushLoadGains
  <2>6. rootList' \subseteq rootList /\ \A a \in Objects : Root(a) \in rootList => Root(a) \in rootList' \/ HasOp({"visit"}, a)'
    BY <2>2
  <2>7. QED
    BY <1>A, <2>4, <2>5, <2>6, AliveFrom
<1>2. CASE PushSwap(w)
  <2>1. PushSwapMoves(w)
    BY <1>2, PushSwapOps
  <2>2. markedObjects' = markedObjects /\ greyObjects' = greyObjects /\ state' = state /\ rootList' = rootList
    BY <1>2 DEF PushSwap
  <2>3. PushSwapGains(w)
    BY <2>1, PushSwapGained
  <2>4. markedObjects' \subseteq A
    BY <1>0, <2>2
  <2>5. \A a \in Objects : HasOp({"visit"}, a)' => HasOp({"visit"}, a) \/ a \in A
    BY <1>0, <2>1, <2>2, <2>3 DEF PushSwapMoves, PushSwapGains
  <2>6. rootList' \subseteq rootList /\ \A a \in Objects : Root(a) \in rootList => Root(a) \in rootList' \/ HasOp({"visit"}, a)'
    BY <2>2
  <2>7. QED
    BY <1>A, <2>4, <2>5, <2>6, AliveFrom
<1>3. CASE FollowLoad(w)
  <2>1. FollowLoadMoves(w)
    BY <1>3, FollowLoadOps
  <2>2. markedObjects' = markedObjects /\ greyObjects' = greyObjects /\ state' = state /\ link' = link /\ rootList' = rootList
    BY <1>3 DEF FollowLoad
  <2>3. FollowLoadGains(w)
    BY <2>1, FollowLoadGained
  <2>4. markedObjects' \subseteq A
    BY <1>0, <2>2
  <2>5. \A a \in Objects : HasOp({"visit"}, a)' => HasOp({"visit"}, a) \/ a \in A
    BY <1>0, <2>1, <2>2, <2>3 DEF FollowLoadMoves, FollowLoadGains
  <2>6. rootList' \subseteq rootList /\ \A a \in Objects : Root(a) \in rootList => Root(a) \in rootList' \/ HasOp({"visit"}, a)'
    BY <2>2
  <2>7. QED
    BY <1>A, <2>4, <2>5, <2>6, AliveFrom
<1>4. CASE FollowSkip(w)
  <2>1. FollowSkipMoves(w)
    BY <1>4, FollowSkipOps
  <2>2. markedObjects' = markedObjects /\ greyObjects' = greyObjects /\ state' = state /\ link' = link /\ rootList' = rootList
    BY <1>4 DEF FollowSkip
  <2>3. FollowSkipGains(w)
    BY <2>1, FollowSkipGained
  <2>4. markedObjects' \subseteq A
    BY <1>0, <2>2
  <2>5. \A a \in Objects : HasOp({"visit"}, a)' => HasOp({"visit"}, a) \/ a \in A
    BY <1>0, <2>1, <2>2, <2>3 DEF FollowSkipMoves, FollowSkipGains
  <2>6. rootList' \subseteq rootList /\ \A a \in Objects : Root(a) \in rootList => Root(a) \in rootList' \/ HasOp({"visit"}, a)'
    BY <2>2
  <2>7. QED
    BY <1>A, <2>4, <2>5, <2>6, AliveFrom
<1>5. CASE FollowSwap(w)
  <2>1. FollowSwapMoves(w)
    BY <1>5, FollowSwapOps
  <2>2. markedObjects' = markedObjects /\ greyObjects' = greyObjects /\ state' = state /\ rootList' = rootList
    BY <1>5 DEF FollowSwap
  <2>3. FollowSwapGains(w)
    BY <2>1, FollowSwapGained
  <2>4. markedObjects' \subseteq A
    BY <1>0, <2>2
  <2>5. \A a \in Objects : HasOp({"visit"}, a)' => HasOp({"visit"}, a) \/ a \in A
    BY <1>0, <2>1, <2>2, <2>3 DEF FollowSwapMoves, FollowSwapGains
  <2>6. rootList' \subseteq rootList /\ \A a \in Objects : Root(a) \in rootList => Root(a) \in rootList' \/ HasOp({"visit"}, a)'
    BY <2>2
  <2>7. QED
    BY <1>A, <2>4, <2>5, <2>6, AliveFrom
<1>6. CASE Resolve(w)
  <2>1. ResolveMoves(w)
    BY <1>6, ResolveOps
  <2>2. markedObjects' = markedObjects /\ greyObjects' = greyObjects /\ link' = link /\ rootList' = rootList
    BY <1>6 DEF Resolve
  <2>3. ResolveGains(w)
    BY <2>1, ResolveGained
  <2>4. markedObjects' \subseteq A
    BY <1>0, <2>2
  <2>5. \A a \in Objects : HasOp({"visit"}, a)' => HasOp({"visit"}, a) \/ a \in A
    BY <1>0, <2>1, <2>2, <2>3 DEF ResolveMoves, ResolveGains
  <2>6. rootList' \subseteq rootList /\ \A a \in Objects : Root(a) \in rootList => Root(a) \in rootList' \/ HasOp({"visit"}, a)'
    BY <2>2
  <2>7. QED
    BY <1>A, <2>4, <2>5, <2>6, AliveFrom
<1>7. CASE VisitEdge(w)
  <2>1. VisitEdgeMoves(w)
    BY <1>7, VisitEdgeOps
  <2>2. greyObjects' = greyObjects /\ state' = state /\ link' = link /\ rootList' = rootList
    BY <1>7 DEF VisitEdge
  <2>3. VisitEdgeGains(w)
    BY <2>1, VisitEdgeGained
  <2>4. markedObjects' \subseteq A
    <3>0. PICK x : x = Op(w)
      OBVIOUS
    <3>1. HasOp({"visit"}, x.obj)
      BY <2>1, <2>3, <3>0 DEF VisitEdgeMoves, VisitEdgeGains
    <3>2. markedObjects' = markedObjects \/ (x.obj \in Objects /\ markedObjects' = markedObjects \cup {x.obj})
      BY <2>1, <3>0 DEF VisitEdgeMoves
    <3>3. QED
      BY <1>0, <3>1, <3>2
  <2>5. \A a \in Objects : HasOp({"visit"}, a)' => HasOp({"visit"}, a) \/ a \in A
    BY <1>0, <2>1, <2>2, <2>3 DEF VisitEdgeMoves, VisitEdgeGains
  <2>6. rootList' \subseteq rootList /\ \A a \in Objects : Root(a) \in rootList => Root(a) \in rootList' \/ HasOp({"visit"}, a)'
    BY <2>2
  <2>7. QED
    BY <1>A, <2>4, <2>5, <2>6, AliveFrom
<1>8. CASE EnqueueObject(w)
  <2>1. EnqueueMoves(w)
    BY <1>8, EnqueueOps
  <2>2. markedObjects' = markedObjects /\ state' = state /\ link' = link /\ rootList' = rootList
    BY <1>8 DEF EnqueueObject
  <2>3. EnqueueGains(w)
    BY <2>1, EnqueueGained
  <2>4. markedObjects' \subseteq A
    BY <1>0, <2>2
  <2>5. \A a \in Objects : HasOp({"visit"}, a)' => HasOp({"visit"}, a) \/ a \in A
    BY <1>0, <2>1, <2>2, <2>3 DEF EnqueueMoves, EnqueueGains
  <2>6. rootList' \subseteq rootList /\ \A a \in Objects : Root(a) \in rootList => Root(a) \in rootList' \/ HasOp({"visit"}, a)'
    BY <2>2
  <2>7. QED
    BY <1>A, <2>4, <2>5, <2>6, AliveFrom
<1>9. CASE TraceObject(w)
  <2>1. PICK o \in greyObjects : TraceObjectMoves(o)
    BY <1>9, TraceObjectOps
  <2>2. markedObjects' = markedObjects /\ link' = link /\ rootList' = rootList
    BY <1>9 DEF TraceObject
  <2>3. TraceObjectGains(o)
    BY <2>1, TraceObjectGained
  <2>4. markedObjects' \subseteq A
    BY <1>0, <2>2
  <2>5. \A a \in Objects : HasOp({"visit"}, a)' => HasOp({"visit"}, a) \/ a \in A
    <3>1. o \in A
      BY <1>0, <2>1 DEF WeakTypes
    <3>2. /\ o \in Plain => shape.field[o] \in A \cup {NoRef}
          /\ o \in Finalizers => shape.closure[o] \in A \cup {NoRef}
      BY <1>0, <3>1 DEF ClosedSet
    <3>3. \A a \in Objects : HasOp({"visit"}, a)' => HasOp({"visit"}, a) \/ (o \in Plain /\ a = shape.field[o])
            \/ (o \in Finalizers /\ a = shape.closure[o])
      BY <2>3 DEF TraceObjectGains
    <3>4. QED
      BY <3>2, <3>3, EphTypes
  <2>6. rootList' \subseteq rootList /\ \A a \in Objects : Root(a) \in rootList => Root(a) \in rootList' \/ HasOp({"visit"}, a)'
    BY <2>2
  <2>7. QED
    BY <1>A, <2>4, <2>5, <2>6, AliveFrom
<1>10. CASE LookAtKey(w)
  <2>1. LookAtKeyMoves(w)
    BY <1>10, LookAtKeyOps
  <2>2. markedObjects' = markedObjects /\ greyObjects' = greyObjects /\ state' = state /\ link' = link /\ rootList' = rootList
    BY <1>10 DEF LookAtKey
  <2>3. LookAtKeyGains(w)
    BY <2>1, LookAtKeyGained
  <2>4. markedObjects' \subseteq A
    BY <1>0, <2>2
  <2>5. \A a \in Objects : HasOp({"visit"}, a)' => HasOp({"visit"}, a) \/ a \in A
    <3>0. PICK x : x = Op(w)
      OBVIOUS
    <3>1. Started(x.obj) /\ x.obj \in Ephemerons
      BY <1>t, <2>1, <2>3, <3>0 DEF LookAtKeyMoves, LookAtKeyGains, Traces
    <3>2. \/ Becomes({x}, {VisitObject(shape.value[x.obj]), SetTraced(x.obj)}) /\ key[x.obj] \in markedObjects
          \/ Becomes({x}, {Publish(x.obj)})
      BY <2>1, <3>0 DEF LookAtKeyMoves
    <3>3. Becomes({x}, {Publish(x.obj)}) => \A a : HasOp({"visit"}, a)' => HasOp({"visit"}, a)
      BY DEF Becomes, Publish
    <3>4. \A a : HasOp({"visit"}, a)' => HasOp({"visit"}, a) \/ a = shape.value[x.obj]
      BY <2>3, <3>0 DEF LookAtKeyGains
    <3>5. QED
      BY <1>v, <3>1, <3>2, <3>3, <3>4
  <2>6. rootList' \subseteq rootList /\ \A a \in Objects : Root(a) \in rootList => Root(a) \in rootList' \/ HasOp({"visit"}, a)'
    BY <2>2
  <2>7. QED
    BY <1>A, <2>4, <2>5, <2>6, AliveFrom
<1>11. CASE FinishTraced(w)
  <2>1. FinishTracedMoves(w)
    BY <1>11, FinishTracedOps
  <2>2. markedObjects' = markedObjects /\ greyObjects' = greyObjects /\ link' = link /\ rootList' = rootList
    BY <1>11 DEF FinishTraced
  <2>3. FinishTracedGains(w)
    BY <2>1, FinishTracedGained
  <2>4. markedObjects' \subseteq A
    BY <1>0, <2>2
  <2>5. \A a \in Objects : HasOp({"visit"}, a)' => HasOp({"visit"}, a) \/ a \in A
    BY <1>0, <2>1, <2>2, <2>3 DEF FinishTracedMoves, FinishTracedGains
  <2>6. rootList' \subseteq rootList /\ \A a \in Objects : Root(a) \in rootList => Root(a) \in rootList' \/ HasOp({"visit"}, a)'
    BY <2>2
  <2>7. QED
    BY <1>A, <2>4, <2>5, <2>6, AliveFrom
<1>12. CASE AddPending(w)
  <2>1. AddPendingMoves(w)
    BY <1>12, AddPendingOps
  <2>2. markedObjects' = markedObjects /\ greyObjects' = greyObjects /\ link' = link /\ rootList' = rootList
    BY <1>12 DEF AddPending
  <2>3. AddPendingGains(w)
    BY <2>1, AddPendingGained
  <2>4. markedObjects' \subseteq A
    BY <1>0, <2>2
  <2>5. \A a \in Objects : HasOp({"visit"}, a)' => HasOp({"visit"}, a) \/ a \in A
    BY <1>0, <2>1, <2>2, <2>3 DEF AddPendingMoves, AddPendingGains
  <2>6. rootList' \subseteq rootList /\ \A a \in Objects : Root(a) \in rootList => Root(a) \in rootList' \/ HasOp({"visit"}, a)'
    BY <2>2
  <2>7. QED
    BY <1>A, <2>4, <2>5, <2>6, AliveFrom
<1>13. CASE LookAgain(w)
  <2>1. LookAgainMoves(w)
    BY <1>13, LookAgainOps
  <2>2. markedObjects' = markedObjects /\ greyObjects' = greyObjects /\ state' = state /\ link' = link /\ rootList' = rootList
    BY <1>13 DEF LookAgain
  <2>3. LookAgainGains(w)
    BY <2>1, LookAgainGained
  <2>4. markedObjects' \subseteq A
    BY <1>0, <2>2
  <2>5. \A a \in Objects : HasOp({"visit"}, a)' => HasOp({"visit"}, a) \/ a \in A
    BY <1>0, <2>1, <2>2, <2>3 DEF LookAgainMoves, LookAgainGains
  <2>6. rootList' \subseteq rootList /\ \A a \in Objects : Root(a) \in rootList => Root(a) \in rootList' \/ HasOp({"visit"}, a)'
    BY <2>2
  <2>7. QED
    BY <1>A, <2>4, <2>5, <2>6, AliveFrom
<1>14. CASE GoNextResolved(w)
  <2>1. NextResolvedMoves(w)
    BY <1>14, NextResolvedOps
  <2>2. markedObjects' = markedObjects /\ greyObjects' = greyObjects /\ state' = state /\ link' = link /\ rootList' = rootList
    BY <1>14 DEF GoNextResolved
  <2>3. NextResolvedGains(w)
    BY <2>1, NextResolvedGained
  <2>4. markedObjects' \subseteq A
    BY <1>0, <2>2
  <2>5. \A a \in Objects : HasOp({"visit"}, a)' => HasOp({"visit"}, a) \/ a \in A
    <3>1. PICK v : v = link[ResolvedLink(Op(w).obj)]
      OBVIOUS
    <3>2. v # NoRef => v \in Ephemerons /\ state[v] = "resolved"
      BY <2>1, <3>1, Nodes DEF NextResolvedMoves
    <3>3. \A a : HasOp({"visit"}, a)' => HasOp({"visit"}, a) \/ (v # NoRef /\ a = shape.value[v])
      BY <2>3, <3>1 DEF NextResolvedGains
    <3>4. QED
      BY <1>r, <3>2, <3>3
  <2>6. rootList' \subseteq rootList /\ \A a \in Objects : Root(a) \in rootList => Root(a) \in rootList' \/ HasOp({"visit"}, a)'
    BY <2>2
  <2>7. QED
    BY <1>A, <2>4, <2>5, <2>6, AliveFrom
<1>15. CASE TakeNextRoot(w)
  <2>1. PICK r \in rootList : TakeRootMoves(r)
    BY <1>15, TakeRootOps
  <2>2. markedObjects' = markedObjects /\ greyObjects' = greyObjects /\ state' = state /\ link' = link
    BY <1>15 DEF TakeNextRoot
  <2>3. TakeRootGains(r)
    BY <2>1, TakeRootGained
  <2>4. markedObjects' \subseteq A
    BY <1>0, <2>2
  <2>5. \A a \in Objects : HasOp({"visit"}, a)' => HasOp({"visit"}, a) \/ a \in A
    <3>1. r.kind = "resolved" => r.obj \in Ephemerons /\ state[r.obj] = "resolved"
      BY <2>1, Nodes
    <3>2. r.kind = "edge" => r.obj \in A
      BY <1>0, <2>1
    <3>3. \A a : HasOp({"visit"}, a)' => HasOp({"visit"}, a) \/ (r.kind = "edge" /\ a = r.obj)
            \/ (r.kind = "resolved" /\ a = shape.value[r.obj])
      BY <2>3 DEF TakeRootGains
    <3>4. QED
      BY <1>r, <3>1, <3>2, <3>3
  <2>6. rootList' \subseteq rootList /\ \A a \in Objects : Root(a) \in rootList => Root(a) \in rootList' \/ HasOp({"visit"}, a)'
    <3>1. rootList' = rootList \ {r}
      BY <2>1 DEF TakeRootMoves
    <3>2. ASSUME NEW a \in Objects, r = Root(a) PROVE HasOp({"visit"}, a)'
      <4>1. r.kind = "edge" /\ r.obj = a
        BY <3>2 DEF Root
      <4>2. PICK N : N = {VisitObject(a)}
        OBVIOUS
      <4>3. Becomes({}, N) /\ VisitObject(a) \in N
        BY <2>1, <4>1, <4>2 DEF TakeRootMoves
      <4>4. QED
        BY <4>3, NowVisits
    <3>3. QED
      BY <3>1, <3>2
  <2>7. QED
    BY <1>A, <2>4, <2>5, <2>6, AliveFrom
<1>16. QED
  BY <1>1, <1>2, <1>3, <1>4, <1>5, <1>6, <1>7, <1>8, <1>9, <1>10, <1>11, <1>12, <1>13, <1>14, <1>15 DEF TraceStep
-------------------------------------------------------------------------------
(* Steps of the workers *)

LEMMA TraceTypes ==
  ASSUME WeakTypes, Phases, Tracing, TraceInv, NEW w \in Workers, TraceStep(w)
  PROVE  WeakTypes'
<1>1. /\ shape' = shape /\ key' = key /\ checkPending' = checkPending /\ phase' = phase
      /\ table' = table /\ firedList' = firedList /\ handed' = handed
      /\ work' \in [Workers -> Seq(OpSet)]
  BY TraceFrame
<1>2. markedObjects' \subseteq Objects /\ greyObjects' \subseteq markedObjects'
  BY Steady DEF TraceInv
<1>3. state' \in [Ephemerons -> {"traced", "claimed", "pending", "resolved"}]
  <2>1. \/ state' = state
        \/ \E e, s : s \in {"traced", "claimed", "pending", "resolved"} /\ state' = [state EXCEPT ![e] = s]
    <3>1. CASE PushLoad(w) \/ PushSwap(w) \/ FollowLoad(w) \/ FollowSkip(w) \/ FollowSwap(w)
      BY <3>1 DEF PushLoad, PushSwap, FollowLoad, FollowSkip, FollowSwap
    <3>2. CASE VisitEdge(w) \/ EnqueueObject(w) \/ LookAtKey(w) \/ LookAgain(w) \/ GoNextResolved(w) \/ TakeNextRoot(w)
      BY <3>2 DEF VisitEdge, EnqueueObject, LookAtKey, LookAgain, GoNextResolved, TakeNextRoot
    <3>3. CASE Resolve(w) \/ TraceObject(w) \/ FinishTraced(w) \/ AddPending(w)
      BY <3>3 DEF Resolve, TraceObject, FinishTraced, AddPending
    <3>4. QED
      BY <3>1, <3>2, <3>3 DEF TraceStep
  <2>2. QED
    BY <2>1 DEF WeakTypes
<1>4. link' \in [Cells -> Ephs]
  <2>1. link' = link \/ \E c, v : v \in Ephs /\ link' = [link EXCEPT ![c] = v]
    <3>1. CASE PushLoad(w)
      <4>1. PushLoadMoves(w)
        BY <3>1, PushLoadOps
      <4>2. QED
        BY <4>1 DEF PushLoadMoves
    <3>2. CASE PushSwap(w)
      <4>1. PushSwapMoves(w)
        BY <3>2, PushSwapOps
      <4>2. QED
        BY <4>1 DEF PushSwapMoves, Ephs
    <3>3. CASE FollowSwap(w)
      <4>1. FollowSwapMoves(w)
        BY <3>3, FollowSwapOps
      <4>2. QED
        BY <4>1 DEF FollowSwapMoves
    <3>4. CASE FollowLoad(w) \/ FollowSkip(w) \/ Resolve(w) \/ VisitEdge(w) \/ EnqueueObject(w) \/ TraceObject(w)
      BY <3>4 DEF FollowLoad, FollowSkip, Resolve, VisitEdge, EnqueueObject, TraceObject
    <3>5. CASE \/ LookAtKey(w) \/ FinishTraced(w) \/ AddPending(w) \/ LookAgain(w) \/ GoNextResolved(w)
               \/ TakeNextRoot(w)
      BY <3>5 DEF LookAtKey, FinishTraced, AddPending, LookAgain, GoNextResolved, TakeNextRoot
    <3>6. QED
      BY <3>1, <3>2, <3>3, <3>4, <3>5 DEF TraceStep
  <2>2. QED
    BY <2>1 DEF WeakTypes
<1>5. rootList' \subseteq rootList
  <2>1. CASE TakeNextRoot(w)
    BY <2>1 DEF TakeNextRoot
  <2>2. CASE PushLoad(w) \/ PushSwap(w) \/ FollowLoad(w) \/ FollowSkip(w) \/ FollowSwap(w) \/ Resolve(w) \/ VisitEdge(w)
    BY <2>2 DEF PushLoad, PushSwap, FollowLoad, FollowSkip, FollowSwap, Resolve, VisitEdge
  <2>3. CASE \/ EnqueueObject(w) \/ TraceObject(w) \/ LookAtKey(w) \/ FinishTraced(w) \/ AddPending(w)
             \/ LookAgain(w) \/ GoNextResolved(w)
    BY <2>3 DEF EnqueueObject, TraceObject, LookAtKey, FinishTraced, AddPending, LookAgain, GoNextResolved
  <2>4. QED
    BY <2>1, <2>2, <2>3 DEF TraceStep
<1>6. QED
  <2>1. /\ shape \in Shapes /\ key \in [Ephemerons -> Objects \cup {NoRef}] /\ checkPending \in BOOLEAN
        /\ rootList \subseteq RootSet /\ table \in [Priorities -> SUBSET Finalizers]
        /\ firedList \in [Finalizers \cup {FiredHead} -> Finalizers \cup {NoRef}]
        /\ handed \in Seq(Finalizers) /\ phase \in {"attach", "heap", "weak", "fin0", "fin1", "done"}
    BY DEF WeakTypes
  <2>2. QED
    BY <1>1, <1>2, <1>3, <1>4, <1>5, <2>1 DEF WeakTypes

\* Nothing of the rounds before and of the finalizers changes with shape and phase the same.
LEMMA FinalizersKept ==
  ASSUME WeakTypes, shape' = shape, phase' = phase, table' = table, firedList' = firedList, handed' = handed
  PROVE  /\ Tables => Tables'
         /\ \A q : IsFired(q) => IsFired(q)'
<1>1. FiredNow' = FiredNow /\ \A p : Ofp(p)' = Ofp(p)
  BY DEF FiredNow, Fired0, Fired1, FiresAt, Alive0, Alive1, LivesWith, ClosedSet, Ofp
<1>2. Tables => Tables'
  BY <1>1 DEF Tables
<1>3. ASSUME NEW q, IsFired(q) PROVE IsFired(q)'
  BY <1>1, <1>3 DEF IsFired, IsList, Top, Listed
<1>4. QED
  BY <1>2, <1>3

LEMMA TraceKeeps ==
  ASSUME WeakInv, NEW w \in Workers, TraceStep(w)
  PROVE  WeakInv'
<1>1. /\ WeakTypes /\ Phases /\ Tables /\ Tracing /\ TraceInv
      /\ \E q \in Seq(Finalizers) : IsFired(q)
  BY TraceFrame DEF WeakInv
<1>2. /\ shape' = shape /\ key' = key /\ checkPending' = checkPending /\ phase' = phase
      /\ table' = table /\ firedList' = firedList /\ handed' = handed
      /\ Tracing' /\ \A y \in Ops' : y.op # "pop"
  BY <1>1, TraceFrame
<1>3. WeakTypes'
  BY <1>1, TraceTypes
<1>4. Phases'
  <2>1. phase # "attach" /\ phase # "done"
    BY <1>1 DEF Tracing
  <2>2. key = shape.key /\ handed = <<>> /\ checkPending = (phase \in {"weak", "fin0", "fin1", "done"})
    BY <1>1, <2>1 DEF Phases
  <2>3. QED
    BY <1>2, <2>1, <2>2 DEF Phases
<1>5. Tables' /\ \E q \in Seq(Finalizers) : IsFired(q)'
  BY <1>1, <1>2, FinalizersKept
<1>6. TraceInv'
  <2>1. QueuedOnce' /\ Claimed' /\ Pushed'
    BY <1>1, QueuedNext, ClaimedNext, PushedNext
  <2>2. Tricolor' /\ RootsKept' /\ OnlyAlive'
    BY <1>1, TricolorNext, AliveNext
  <2>3. (\E q, t \in Seq(Ephemerons) : ResolvedIn(q, t))'
    BY <1>1, ListsNext
  <2>4. (\E r \in [Ephemerons -> Nat], n \in Nat : RankedBy(r, n))'
    BY <1>1, RanksNext
  <2>5. QED
    BY <2>1, <2>2, <2>3, <2>4 DEF TraceInv
<1>7. MarkedIsAlive'
  BY <1>1, <1>2 DEF MarkedIsAlive, Tracing
<1>8. QED
  BY <1>3, <1>4, <1>5, <1>6, <1>7 DEF WeakInv

\* What nothing has changed is as it was at the end.
LEMMA EndKept ==
  ASSUME MarkedIsAlive, shape' = shape, key' = key, markedObjects' = markedObjects, state' = state,
         link' = link, phase' = phase
  PROVE  MarkedIsAlive'
<1>1. Alive2' = Alive2
  BY DEF Alive2, FiresAt, Alive1, Alive0, LivesWith, ClosedSet
<1>2. CASE phase # "done"
  BY <1>2 DEF MarkedIsAlive
<1>3. CASE phase = "done"
  BY <1>1, <1>3 DEF MarkedIsAlive
<1>4. QED
  BY <1>2, <1>3

\* Before and after the rounds only the finalizers' part of the state changes.
LEMMA RestKept ==
  ASSUME WeakInv, phase \in {"attach", "done"}, UNCHANGED weakHeapVars, phase' = phase, markedObjects' = markedObjects,
         greyObjects' = greyObjects, state' = state, link' = link, checkPending' = checkPending, rootList' = rootList,
         work' \in [Workers -> Seq(OpSet)], table' \in [Priorities -> SUBSET Finalizers],
         firedList' \in [Finalizers \cup {FiredHead} -> Finalizers \cup {NoRef}], handed' \in Seq(Finalizers),
         Phases', Tables', \E q \in Seq(Finalizers) : IsFired(q)'
  PROVE  WeakInv'
<1>1. shape' = shape /\ key' = key /\ WeakTypes
  BY DEF weakHeapVars, WeakInv
<1>2. WeakTypes'
  BY <1>1 DEF WeakTypes
<1>3. ~Tracing'
  BY DEF Tracing
<1>4. MarkedIsAlive'
  BY <1>1, EndKept DEF WeakInv
<1>5. QED
  BY <1>2, <1>3, <1>4 DEF WeakInv

LEMMA PopReadKeeps ==
  ASSUME WeakInv, NEW w \in Workers, PopRead(w)
  PROVE  WeakInv'
<1>1. /\ phase = "done" /\ work[w] = <<>> /\ firedList[FiredHead] # NoRef
      /\ work' = [work EXCEPT ![w] = <<[op |-> "pop", obj |-> firedList[FiredHead]]>>]
      /\ UNCHANGED weakHeapVars /\ phase' = phase /\ markedObjects' = markedObjects /\ shape' = shape /\ key' = key
      /\ greyObjects' = greyObjects /\ state' = state /\ link' = link /\ checkPending' = checkPending
      /\ rootList' = rootList /\ table' = table /\ firedList' = firedList /\ handed' = handed
  BY DEF PopRead, finVars, weakHeapVars
<1>2. WeakTypes /\ Phases /\ Tables /\ \E q \in Seq(Finalizers) : IsFired(q)
  BY DEF WeakInv
<1>3. PICK f \in Finalizers : f = firedList[FiredHead]
  BY <1>1, <1>2 DEF WeakTypes
<1>4. PICK x : x = [op |-> "pop", obj |-> f]
  OBVIOUS
<1>5. x \in OpSet /\ x.op = "pop"
  BY <1>4 DEF OpSet
<1>6. work' \in [Workers -> Seq(OpSet)] /\ work' = [work EXCEPT ![w] = <<x>>]
  BY <1>1, <1>2, <1>3, <1>4, <1>5 DEF WeakTypes
<1>7. \A y \in Ops' : y.op = "pop"
  <2>1. SUFFICES ASSUME NEW u \in Workers, NEW i \in DOMAIN work'[u] PROVE work'[u][i].op = "pop"
    BY DEF Ops
  <2>2. CASE u = w
    <3>1. work'[u] = <<x>>
      BY <1>2, <1>6, <2>2 DEF WeakTypes
    <3>2. QED
      BY <1>5, <2>1, <3>1
  <2>3. CASE u # w
    <3>1. work'[u] = work[u]
      BY <1>2, <1>6, <2>3 DEF WeakTypes
    <3>2. work[u][i] \in Ops
      BY <2>1, <3>1 DEF Ops
    <3>3. QED
      BY <1>1, <1>2, <3>1, <3>2 DEF Phases
  <2>4. QED
    BY <2>2, <2>3
<1>8. Phases'
  BY <1>1, <1>2, <1>7 DEF Phases, Tracing
<1>9. Tables' /\ \E q \in Seq(Finalizers) : IsFired(q)'
  BY <1>1, <1>2, FinalizersKept
<1>10. QED
  BY <1>1, <1>2, <1>6, <1>8, <1>9, RestKept DEF WeakTypes

\* The finalizer at the head of the list is handed out.
LEMMA FiredPop ==
  ASSUME WeakTypes, NEW q \in Seq(Finalizers), IsFired(q), NEW f \in Finalizers, firedList[FiredHead] = f,
         shape' = shape, phase' = phase,
         firedList' = [firedList EXCEPT ![FiredHead] = firedList[f], ![f] = NoRef], handed' = Append(handed, f)
  PROVE  Rest(q) \in Seq(Finalizers) /\ IsFired(Rest(q))'
<1>1. /\ IsList(q, f, firedList)
      /\ \A i, j \in DOMAIN handed : handed[i] = handed[j] => i = j
      /\ \A g \in Finalizers : ~(Listed(q, g) /\ Listed(handed, g))
      /\ \A g \in Finalizers : g \in FiredNow <=> Listed(q, g) \/ Listed(handed, g)
  BY DEF IsFired
<1>2. FiredHead \notin Finalizers /\ NoRef \notin Finalizers
  BY WeakAssumption DEF Objects
<1>3. q # <<>> /\ f = Top(q)
  BY <1>1, <1>2 DEF IsList, Top
<1>4. /\ Rest(q) \in Seq(Finalizers) /\ IsList(Rest(q), firedList[f], firedList)
      /\ \A x : Listed(q, x) <=> Listed(Rest(q), x) \/ x = f
      /\ ~Listed(Rest(q), f)
  BY <1>1, <1>3, ListPop
<1>5. firedList'[FiredHead] = firedList[f] /\ \A g \in Finalizers : g # f => firedList'[g] = firedList[g]
  BY <1>2 DEF WeakTypes
<1>6. \A g : Listed(Rest(q), g) => g \in Finalizers
  BY <1>4, TopIn
<1>7. PICK F : F = firedList'
  OBVIOUS
<1>8. IsList(Rest(q), firedList[FiredHead], firedList)'
  <2>1. \A x : Listed(Rest(q), x) => F[x] = firedList[x]
    BY <1>4, <1>5, <1>6, <1>7
  <2>2. IsList(Rest(q), firedList[f], F)
    BY <1>4, <2>1, ListKept
  <2>3. F[FiredHead] = firedList[f]
    BY <1>5, <1>7
  <2>4. IsList(Rest(q), F[FiredHead], F)
    BY <2>2, <2>3
  <2>5. QED
    BY <1>7, <2>4 DEF IsList, Top
<1>9. /\ handed' \in Seq(Finalizers) /\ Len(handed') = Len(handed) + 1 /\ Len(handed) \in Nat
      /\ DOMAIN handed' = 1 .. Len(handed) + 1 /\ DOMAIN handed = 1 .. Len(handed)
      /\ handed'[Len(handed) + 1] = f /\ \A i \in 1 .. Len(handed) : handed'[i] = handed[i]
  BY DEF WeakTypes
<1>10. ~Listed(handed, f)
  BY <1>1, <1>4
<1>11. \A i \in DOMAIN handed : handed[i] # f
  BY <1>10 DEF Listed
<1>12. \A i, j \in DOMAIN handed' : handed'[i] = handed'[j] => i = j
  <2>1. \A i \in DOMAIN handed' : i \in DOMAIN handed \/ i = Len(handed) + 1
    BY <1>9
  <2>2. QED
    BY <1>1, <1>9, <1>11, <2>1
<1>13. \A g : Listed(handed, g)' <=> Listed(handed, g) \/ g = f
  <2>1. \A i \in DOMAIN handed' : i \in DOMAIN handed \/ i = Len(handed) + 1
    BY <1>9
  <2>2. Len(handed) + 1 \in DOMAIN handed' /\ \A i \in DOMAIN handed : i \in DOMAIN handed'
    BY <1>9
  <2>3. QED
    BY <1>9, <2>1, <2>2 DEF Listed
<1>14. FiredNow' = FiredNow
  BY DEF FiredNow, Fired0, Fired1, FiresAt, Alive0, Alive1, LivesWith, ClosedSet
<1>15. \A g : Listed(Rest(q), g)' <=> Listed(Rest(q), g)
  BY DEF Listed, Rest
<1>16. QED
  BY <1>1, <1>4, <1>8, <1>12, <1>13, <1>14, <1>15 DEF IsFired

LEMMA PopSwapKeeps ==
  ASSUME WeakInv, NEW w \in Workers, PopSwap(w)
  PROVE  WeakInv'
<1>1. PICK f : f = Op(w).obj
  OBVIOUS
<1>2. /\ work[w] # <<>> /\ Op(w).op = "pop" /\ Instead(w, <<>>) /\ UNCHANGED weakHeapVars
      /\ phase' = phase /\ markedObjects' = markedObjects /\ shape' = shape /\ key' = key
      /\ greyObjects' = greyObjects /\ state' = state /\ link' = link /\ checkPending' = checkPending
      /\ rootList' = rootList /\ table' = table
  BY DEF PopSwap, Doing, weakHeapVars
<1>3. \/ /\ firedList[FiredHead] = f /\ handed' = Append(handed, f)
         /\ firedList' = [firedList EXCEPT ![FiredHead] = firedList[f], ![f] = NoRef]
      \/ firedList' = firedList /\ handed' = handed
  BY <1>1 DEF PopSwap
<1>4. WeakTypes /\ Phases /\ Tables /\ \E q \in Seq(Finalizers) : IsFired(q)
  BY DEF WeakInv
<1>5. Op(w) \in Ops /\ f \in Finalizers
  BY <1>1, <1>2, <1>4, HeadOp, OpKinds
<1>6. phase = "done"
  BY <1>2, <1>4, <1>5, WorkTraces
<1>7. Becomes({Op(w)}, {})
  BY <1>2, <1>4, StepTo0
<1>8. work' \in [Workers -> Seq(OpSet)] /\ Ops' \subseteq Ops
  BY <1>7 DEF Becomes
<1>9. Phases'
  BY <1>2, <1>4, <1>6, <1>8 DEF Phases, Tracing
<1>10. handed' \in Seq(Finalizers) /\ firedList' \in [Finalizers \cup {FiredHead} -> Finalizers \cup {NoRef}]
  <2>1. /\ handed \in Seq(Finalizers) /\ firedList \in [Finalizers \cup {FiredHead} -> Finalizers \cup {NoRef}]
        /\ FiredHead \in Finalizers \cup {FiredHead} /\ f \in Finalizers \cup {FiredHead}
    BY <1>4, <1>5 DEF WeakTypes
  <2>2. firedList[f] \in Finalizers \cup {NoRef} /\ NoRef \in Finalizers \cup {NoRef}
    BY <2>1
  <2>3. Append(handed, f) \in Seq(Finalizers)
    BY <1>5, <2>1
  <2>4. [firedList EXCEPT ![FiredHead] = firedList[f], ![f] = NoRef] \in [Finalizers \cup {FiredHead} -> Finalizers \cup {NoRef}]
    BY <2>1, <2>2
  <2>5. QED
    BY <1>3, <2>1, <2>3, <2>4
<1>11. \E q \in Seq(Finalizers) : IsFired(q)'
  <2>1. PICK q \in Seq(Finalizers) : IsFired(q)
    BY <1>4
  <2>2. CASE firedList' = firedList /\ handed' = handed
    BY <1>2, <1>4, <2>1, <2>2, FinalizersKept
  <2>3. CASE /\ firedList[FiredHead] = f /\ handed' = Append(handed, f)
             /\ firedList' = [firedList EXCEPT ![FiredHead] = firedList[f], ![f] = NoRef]
    BY <1>2, <1>4, <1>5, <2>1, <2>3, FiredPop
  <2>4. QED
    BY <1>3, <2>2, <2>3
<1>12. Tables'
  <2>1. FiredNow' = FiredNow /\ \A p : Ofp(p)' = Ofp(p)
    BY <1>2 DEF FiredNow, Fired0, Fired1, FiresAt, Alive0, Alive1, LivesWith, ClosedSet, Ofp
  <2>2. QED
    BY <1>2, <1>4, <2>1 DEF Tables
<1>13. QED
  BY <1>2, <1>4, <1>6, <1>8, <1>9, <1>10, <1>11, <1>12, RestKept DEF WeakTypes

-------------------------------------------------------------------------------
(* The collecting thread *)

\* The elements of a finite set, one after the other.
LEMMA SetToSeqFacts ==
  ASSUME NEW S, IsFiniteSet(S), NEW s, s = SetToSeq(S)
  PROVE  /\ s \in Seq(S) /\ \A i, j \in DOMAIN s : s[i] = s[j] => i = j
         /\ \A x : Listed(s, x) <=> x \in S
<1>1. PICK n \in Nat : n = Cardinality(S)
  BY FS_CardinalityType
<1>2. PICK b \in [1 .. n -> S] : b \in Bijection(1 .. n, S)
  BY <1>1, FS_CardinalityType DEF ExistsBijection, Bijection, Injection
<1>3. IsInjective(b)
  BY <1>2 DEF Bijection, Injection, IsInjective
<1>4. s \in [1 .. n -> S] /\ IsInjective(s)
  BY <1>1, <1>3 DEF SetToSeq
<1>5. s \in Injection(1 .. n, S)
  BY <1>4 DEF Injection, IsInjective
<1>6. IsFiniteSet(1 .. n) /\ Cardinality(1 .. n) = n
  BY <1>1, FS_Interval
<1>7. s \in Surjection(1 .. n, S)
  BY <1>1, <1>5, <1>6, FS_Injection
<1>8. s \in Seq(S) /\ DOMAIN s = 1 .. n
  BY <1>1, <1>4
<1>9. \A i, j \in DOMAIN s : s[i] = s[j] => i = j
  BY <1>4 DEF IsInjective
<1>10. \A x \in S : \E i \in DOMAIN s : s[i] = x
  BY <1>7, <1>8 DEF Surjection
<1>11. \A i \in DOMAIN s : s[i] \in S
  BY <1>4, <1>8
<1>12. QED
  BY <1>8, <1>9, <1>10, <1>11 DEF Listed

\* Those of s, each once, are linked by g from d on to c; a list that goes on so is a list.
Linked(s, d, c, g) ==
  /\ \A i, j \in DOMAIN s : s[i] = s[j] => i = j
  /\ \A i \in DOMAIN s : g[s[i]] = IF i = Len(s) THEN c ELSE s[i + 1]
  /\ s = <<>> => d = c
  /\ s # <<>> => d = s[1]
LEMMA ChainOnto ==
  ASSUME NEW S, NEW q \in Seq(S), NEW s \in Seq(S), NEW c, NEW f, NEW g, NEW d, IsList(q, c, f),
         Linked(s, d, c, g), \A x : ~(Listed(q, x) /\ Listed(s, x)), \A x : Listed(q, x) => g[x] = f[x]
  PROVE  \E r \in Seq(S) : IsList(r, d, g) /\ \A x : Listed(r, x) <=> Listed(q, x) \/ Listed(s, x)
<1> DEFINE n == Len(q)  m == Len(s)
           r == [i \in 1 .. n + m |-> IF i <= n THEN q[i] ELSE s[n + m + 1 - i]]
<1>0. /\ \A i, j \in DOMAIN s : s[i] = s[j] => i = j
      /\ \A i \in DOMAIN s : g[s[i]] = IF i = Len(s) THEN c ELSE s[i + 1]
      /\ s = <<>> => d = c
      /\ s # <<>> => d = s[1]
  BY DEF Linked
<1>1. /\ n \in Nat /\ m \in Nat /\ DOMAIN q = 1 .. n /\ DOMAIN s = 1 .. m
      /\ (\A i \in 1 .. n : q[i] \in S) /\ (\A i \in 1 .. m : s[i] \in S)
      /\ (s = <<>> <=> m = 0) /\ (q = <<>> <=> n = 0)
  OBVIOUS
<1>2. \A i \in 1 .. n + m : (i <= n /\ i \in 1 .. n) \/ (~(i <= n) /\ n + m + 1 - i \in 1 .. m)
  BY <1>1
<1>3. r \in Seq(S) /\ DOMAIN r = 1 .. n + m /\ Len(r) = n + m
  <2>1. n + m \in Nat /\ r \in [1 .. n + m -> S]
    BY <1>1, <1>2
  <2>2. QED
    BY <2>1
<1>4. /\ \A i \in 1 .. n : i \in 1 .. n + m /\ r[i] = q[i]
      /\ \A i \in 1 .. m : n + m + 1 - i \in 1 .. n + m /\ r[n + m + 1 - i] = s[i]
  BY <1>1
<1>5. \A x : Listed(r, x) <=> Listed(q, x) \/ Listed(s, x)
  <2>1. ASSUME NEW x, Listed(r, x) PROVE Listed(q, x) \/ Listed(s, x)
    BY <1>1, <1>2, <1>3, <2>1 DEF Listed
  <2>2. ASSUME NEW x, Listed(q, x) \/ Listed(s, x) PROVE Listed(r, x)
    <3>1. CASE Listed(q, x)
      <4>1. PICK i \in 1 .. n : q[i] = x
        BY <1>1, <3>1 DEF Listed
      <4>2. i \in DOMAIN r /\ r[i] = x
        BY <1>3, <1>4, <4>1
      <4>3. QED
        BY <4>2 DEF Listed
    <3>2. CASE Listed(s, x)
      <4>1. PICK i \in 1 .. m : s[i] = x
        BY <1>1, <3>2 DEF Listed
      <4>2. n + m + 1 - i \in DOMAIN r /\ r[n + m + 1 - i] = x
        BY <1>3, <1>4, <4>1
      <4>3. QED
        BY <4>2 DEF Listed
    <3>3. QED
      BY <2>2, <3>1, <3>2
  <2>3. QED
    BY <2>1, <2>2
<1> HIDE DEF r
<1>6. d = Top(r)
  <2>1. c = Top(q)
    BY DEF IsList
  <2>2. CASE m = 0
    BY <1>0, <1>1, <1>3, <1>4, <2>1, <2>2 DEF Top
  <2>3. CASE m # 0
    <3>1. 1 \in 1 .. m /\ r[n + m + 1 - 1] = s[1] /\ n + m + 1 - 1 = n + m
      BY <1>1, <1>4, <2>3
    <3>2. r # <<>>
      BY <1>1, <1>3, <2>3
    <3>3. QED
      BY <1>0, <1>1, <1>3, <2>3, <3>1, <3>2 DEF Top
  <2>4. QED
    BY <2>2, <2>3
<1>7. \A i, j \in DOMAIN r : r[i] = r[j] => i = j
  <2>1. SUFFICES ASSUME NEW i \in 1 .. n + m, NEW j \in 1 .. n + m, r[i] = r[j] PROVE i = j
    BY <1>3
  <2>2. \A k \in 1 .. n, l \in 1 .. m : q[k] # s[l]
    BY <1>1 DEF Listed
  <2>3. \A k \in 1 .. n + m : (k <= n /\ k \in 1 .. n /\ r[k] = q[k]) \/ (~(k <= n) /\ n + m + 1 - k \in 1 .. m /\ r[k] = s[n + m + 1 - k])
    BY <1>2, <1>3 DEF r
  <2>4. \A k, l \in 1 .. n : q[k] = q[l] => k = l
    BY <1>1 DEF IsList
  <2>5. \A k, l \in 1 .. m : s[k] = s[l] => k = l
    BY <1>0, <1>1
  <2>6. (i \in 1 .. n /\ j \in 1 .. n) \/ n + m + 1 - i = n + m + 1 - j
    <3>1. CASE i \in 1 .. n /\ r[i] = q[i]
      <4>1. ~(n + m + 1 - j \in 1 .. m /\ r[j] = s[n + m + 1 - j])
        BY <2>1, <2>2, <3>1
      <4>2. j \in 1 .. n
        BY <2>3, <4>1
      <4>3. QED
        BY <3>1, <4>2
    <3>2. CASE n + m + 1 - i \in 1 .. m /\ r[i] = s[n + m + 1 - i]
      <4>1. ~(j \in 1 .. n /\ r[j] = q[j])
        BY <2>1, <2>2, <3>2
      <4>2. n + m + 1 - j \in 1 .. m /\ r[j] = s[n + m + 1 - j]
        BY <2>3, <4>1
      <4>3. PICK a \in 1 .. m, b \in 1 .. m : a = n + m + 1 - i /\ b = n + m + 1 - j
        BY <3>2, <4>2
      <4>4. s[a] = s[b]
        BY <2>1, <3>2, <4>2, <4>3
      <4>5. a = b
        BY <2>5, <4>4
      <4>6. QED
        BY <4>3, <4>5
    <3>3. QED
      BY <2>3, <3>1, <3>2
  <2>7. CASE i \in 1 .. n /\ j \in 1 .. n
    BY <1>4, <2>1, <2>4, <2>7
  <2>8. CASE n + m + 1 - i = n + m + 1 - j
    BY <1>1, <2>8
  <2>9. QED
    BY <2>6, <2>7, <2>8
<1>8. \A i \in DOMAIN r : g[r[i]] = IF i = 1 THEN NoRef ELSE r[i - 1]
  <2>1. SUFFICES ASSUME NEW i \in 1 .. n + m PROVE g[r[i]] = IF i = 1 THEN NoRef ELSE r[i - 1]
    BY <1>3
  <2>2. CASE i <= n
    <3>1. i \in 1 .. n /\ r[i] = q[i] /\ Listed(q, q[i]) /\ (i # 1 => r[i - 1] = q[i - 1])
      BY <1>1, <1>4, <2>2 DEF Listed
    <3>2. f[q[i]] = IF i = 1 THEN NoRef ELSE q[i - 1]
      BY <1>1, <3>1 DEF IsList
    <3>3. QED
      BY <3>1, <3>2
  <2>3. CASE ~(i <= n)
    <3>1. PICK k : k = n + m + 1 - i
      OBVIOUS
    <3>2. k \in 1 .. m /\ r[i] = s[k]
      BY <1>1, <1>2, <1>3, <2>3, <3>1 DEF r
    <3>3. g[s[k]] = IF k = m THEN c ELSE s[k + 1]
      BY <1>0, <1>1, <3>2
    <3>4. CASE k = m
      <4>1. i = n + 1 /\ c = Top(q)
        BY <1>1, <3>1, <3>4 DEF IsList
      <4>2. CASE n = 0
        BY <1>1, <3>2, <3>3, <3>4, <4>1, <4>2 DEF Top
      <4>3. CASE n # 0
        <5>1. r[n] = q[n] /\ Top(q) = q[n] /\ i # 1 /\ i - 1 = n
          BY <1>1, <1>4, <4>1, <4>3 DEF Top
        <5>2. QED
          BY <3>2, <3>3, <3>4, <4>1, <5>1
      <4>4. QED
        BY <4>2, <4>3
    <3>5. CASE k # m
      <4>1. k + 1 \in 1 .. m /\ n + m + 1 - (k + 1) = i - 1 /\ i # 1
        <5>1. i \in Nat /\ k \in Nat /\ i > n /\ k + 1 <= m /\ k >= 1 /\ k = n + m + 1 - i
          BY <1>1, <2>3, <3>1, <3>2, <3>5
        <5>2. i = n + m + 1 - k
          BY <1>1, <5>1
        <5>3. n + m + 1 - (k + 1) = i - 1 /\ i # 1
          BY <1>1, <5>1, <5>2
        <5>4. k + 1 \in 1 .. m
          BY <1>1, <5>1
        <5>5. QED
          BY <5>3, <5>4
      <4>2. r[i - 1] = s[k + 1]
        BY <1>4, <4>1
      <4>3. QED
        BY <3>2, <3>3, <3>5, <4>1, <4>2
    <3>6. QED
      BY <3>4, <3>5
  <2>4. QED
    BY <2>2, <2>3
<1>9. IsList(r, d, g)
  BY <1>6, <1>7, <1>8 DEF IsList
<1>10. QED
  BY <1>3, <1>5, <1>9

\* The fired list with s before it.
LEMMA FireChain ==
  ASSUME WeakTypes, NEW s \in Seq(Finalizers), \A i, j \in DOMAIN s : s[i] = s[j] => i = j
  PROVE  /\ FireInto(s) \in [Finalizers \cup {FiredHead} -> Finalizers \cup {NoRef}]
         /\ Linked(s, FireInto(s)[FiredHead], firedList[FiredHead], FireInto(s))
         /\ \A f \in Finalizers : ~Listed(s, f) => FireInto(s)[f] = firedList[f]
<1>0. PICK F : F = FireInto(s)
  OBVIOUS
<1>1. /\ DOMAIN firedList = Finalizers \cup {FiredHead} /\ FiredHead \notin Finalizers
      /\ \A c \in DOMAIN firedList : firedList[c] \in Finalizers \cup {NoRef}
  BY WeakAssumption DEF WeakTypes, Objects
<1>2. Len(s) \in Nat /\ DOMAIN s = 1 .. Len(s) /\ \A i \in DOMAIN s : s[i] \in Finalizers
  OBVIOUS
<1>3. \A c : c \in ToSet(s) <=> \E i \in DOMAIN s : s[i] = c
  BY <1>2 DEF ToSet
<1>4. DOMAIN F = Finalizers \cup {FiredHead}
  BY <1>0, <1>1 DEF FireInto
<1>5. s = <<>> => F[FiredHead] = firedList[FiredHead]
  BY <1>0, <1>1, <1>2, <1>3 DEF FireInto
<1>6. s # <<>> => F[FiredHead] = s[1]
  BY <1>0, <1>1 DEF FireInto
<1>7. ASSUME NEW i \in DOMAIN s PROVE F[s[i]] = IF i = Len(s) THEN firedList[FiredHead] ELSE s[i + 1]
  <2>1. s[i] \in ToSet(s) /\ s[i] # FiredHead /\ s[i] \in DOMAIN firedList
    BY <1>1, <1>2, <1>3
  <2>2. PICK k : k = CHOOSE j \in DOMAIN s : s[j] = s[i]
    OBVIOUS
  <2>3. k = i
    BY <2>2
  <2>4. F[s[i]] = LET j == CHOOSE j \in DOMAIN s : s[j] = s[i] IN IF j = Len(s) THEN firedList[FiredHead] ELSE s[j + 1]
    BY <1>0, <2>1 DEF FireInto
  <2>5. QED
    BY <2>2, <2>3, <2>4
<1>8. ASSUME NEW f \in Finalizers, ~Listed(s, f) PROVE F[f] = firedList[f]
  <2>1. f \notin ToSet(s) /\ f # FiredHead /\ f \in DOMAIN firedList
    BY <1>1, <1>3, <1>8 DEF Listed
  <2>2. QED
    BY <1>0, <2>1 DEF FireInto
<1>9. \A c \in Finalizers \cup {FiredHead} : F[c] \in Finalizers \cup {NoRef}
  <2>1. SUFFICES ASSUME NEW c \in Finalizers \cup {FiredHead} PROVE F[c] \in Finalizers \cup {NoRef}
    OBVIOUS
  <2>2. CASE c = FiredHead
    <3>1. s # <<>> => s[1] \in Finalizers
      BY <1>2
    <3>2. QED
      BY <1>1, <1>5, <1>6, <2>2, <3>1
  <2>3. CASE c \in Finalizers /\ Listed(s, c)
    <3>1. PICK i \in DOMAIN s : s[i] = c
      BY <2>3 DEF Listed
    <3>2. i # Len(s) => i + 1 \in DOMAIN s
      BY <1>2
    <3>3. QED
      BY <1>1, <1>2, <1>7, <3>1, <3>2
  <2>4. CASE c \in Finalizers /\ ~Listed(s, c)
    BY <1>1, <1>8, <2>4
  <2>5. QED
    BY <2>2, <2>3, <2>4
<1>10. F \in [Finalizers \cup {FiredHead} -> Finalizers \cup {NoRef}]
  <2>1. F = [c \in DOMAIN firedList |-> F[c]]
    BY <1>0 DEF FireInto
  <2>2. QED
    BY <1>1, <1>9, <2>1
<1>11. Linked(s, F[FiredHead], firedList[FiredHead], F)
  BY <1>5, <1>6, <1>7 DEF Linked
<1>12. QED
  BY <1>0, <1>8, <1>10, <1>11

\* The resolved list with s before it.
LEMMA ResolvedChain ==
  ASSUME WeakTypes, NEW s \in Seq(Ephemerons), \A i, j \in DOMAIN s : s[i] = s[j] => i = j,
         NEW L, L = Chained(s, Resolved)
  PROVE  /\ L \in [Cells -> Ephs]
         /\ s = <<>> => L[Resolved] = link[Resolved]
         /\ s # <<>> => L[Resolved] = s[1]
         /\ \A i \in DOMAIN s : L[ResolvedLink(s[i])] = IF i = Len(s) THEN link[Resolved] ELSE s[i + 1]
         /\ \A e \in Ephemerons : ~Listed(s, e) => L[ResolvedLink(e)] = link[ResolvedLink(e)]
         /\ \A b \in Buckets : L[Bucket(b)] = link[Bucket(b)]
         /\ \A e \in Ephemerons : L[PendingLink(e)] = link[PendingLink(e)]
<1>1. link \in [Cells -> Ephs]
  BY DEF WeakTypes
<1>2. Len(s) \in Nat /\ DOMAIN s = 1 .. Len(s) /\ \A i \in DOMAIN s : s[i] \in Ephemerons
  OBVIOUS
<1>3. \A e : LinkOf(Resolved, e) = ResolvedLink(e)
  BY DEF LinkOf
<1>4. DOMAIN L = Cells /\ L = [c \in Cells |-> L[c]]
  BY DEF Chained
<1>5. s # <<>> => L[Resolved] = s[1]
  BY CellsApart DEF Chained
<1>6. ASSUME NEW c \in Cells, ~(s # <<>> /\ c = Resolved), \A i \in DOMAIN s : c # ResolvedLink(s[i])
      PROVE  L[c] = link[c]
  BY <1>3, <1>6 DEF Chained
<1>7. ASSUME NEW i \in DOMAIN s PROVE L[ResolvedLink(s[i])] = IF i = Len(s) THEN link[Resolved] ELSE s[i + 1]
  <2>1. PICK c : c = ResolvedLink(s[i])
    OBVIOUS
  <2>2. c \in Cells /\ c # Resolved /\ \A j \in DOMAIN s : c = ResolvedLink(s[j]) => s[j] = s[i]
    BY <1>2, <2>1, CellsApart
  <2>3. \E j \in DOMAIN s : c = LinkOf(Resolved, s[j])
    BY <1>3, <2>1
  <2>4. PICK k : k = CHOOSE j \in DOMAIN s : c = LinkOf(Resolved, s[j])
    OBVIOUS
  <2>5. k \in DOMAIN s /\ c = LinkOf(Resolved, s[k])
    BY <2>3, <2>4
  <2>6. k = i
    BY <1>3, <2>2, <2>5
  <2>7. L[c] = LET j == CHOOSE j \in DOMAIN s : c = LinkOf(Resolved, s[j]) IN IF j = Len(s) THEN link[Resolved] ELSE s[j + 1]
    BY <2>2, <2>3 DEF Chained
  <2>8. QED
    BY <2>1, <2>4, <2>6, <2>7
<1>8. \A c \in Cells : L[c] \in Ephs
  <2>1. SUFFICES ASSUME NEW c \in Cells PROVE L[c] \in Ephs
    OBVIOUS
  <2>2. CASE s # <<>> /\ c = Resolved
    BY <1>2, <1>5, <2>2 DEF Ephs
  <2>3. CASE \E i \in DOMAIN s : c = ResolvedLink(s[i])
    <3>1. PICK i \in DOMAIN s : c = ResolvedLink(s[i])
      BY <2>3
    <3>2. i # Len(s) => s[i + 1] \in Ephs
      BY <1>2 DEF Ephs
    <3>3. link[Resolved] \in Ephs
      BY <1>1, CellsApart
    <3>4. QED
      BY <1>7, <3>1, <3>2, <3>3
  <2>4. CASE ~(s # <<>> /\ c = Resolved) /\ \A i \in DOMAIN s : c # ResolvedLink(s[i])
    BY <1>1, <1>6, <2>4
  <2>5. QED
    BY <2>2, <2>3, <2>4
<1>9. s = <<>> => L[Resolved] = link[Resolved]
  BY <1>6, CellsApart
<1>10. \A e \in Ephemerons : ~Listed(s, e) => L[ResolvedLink(e)] = link[ResolvedLink(e)]
  BY <1>2, <1>6, CellsApart DEF Listed
<1>11. \A b \in Buckets : L[Bucket(b)] = link[Bucket(b)]
  BY <1>2, <1>6, CellsApart
<1>12. \A e \in Ephemerons : L[PendingLink(e)] = link[PendingLink(e)]
  BY <1>2, <1>6, CellsApart
<1>13. L \in [Cells -> Ephs]
  BY <1>4, <1>8
<1>14. QED
  BY <1>5, <1>7, <1>9, <1>10, <1>11, <1>12, <1>13

\* When the workers are done with a round nothing is left to do.
LEMMA QuietOps ==
  ASSUME WeakTypes, Quiet
  PROVE  Ops = {} /\ greyObjects = {} /\ rootList = {} /\ Tracing
<1>1. \A w \in Workers : work[w] = <<>>
  BY DEF Quiet
<1>2. QED
  BY <1>1 DEF Quiet, Ops

LEMMA NoOps ==
  ASSUME WeakTypes, Ops = {}
  PROVE  /\ \A K, o : ~HasOp(K, o)
         /\ \A S : Once(S)
         /\ \A o : Seen(o) <=> o \in markedObjects
         /\ \A o : Started(o) <=> o \in markedObjects /\ o \notin greyObjects
<1>1. \A K, o : ~HasOp(K, o)
  BY DEF HasOp
<1>2. \A u \in Workers : \A i \in DOMAIN work[u] : work[u][i] \in Ops
  BY DEF Ops
<1>3. \A S : Once(S)
  BY <1>2 DEF Once
<1>4. QED
  BY <1>1, <1>3 DEF Seen, Started

\* What is marked when a round is done is what lives in it.
LEMMA QuietAlive ==
  ASSUME WeakTypes, Phases, TraceInv, Quiet, phase # "heap"
  PROVE  /\ \A e \in Ephemerons : state[e] = "pending" => key[e] \notin markedObjects
         /\ link[Resolved] = NoRef =>
              markedObjects = AliveNow /\ \A e \in Ephemerons : state[e] \in {"traced", "pending"}
<1>1. Ops = {} /\ greyObjects = {} /\ rootList = {} /\ Tracing
  BY QuietOps
<1>2. /\ \A K, o : ~HasOp(K, o)
      /\ \A o : Seen(o) <=> o \in markedObjects
      /\ \A o : Started(o) <=> o \in markedObjects
  BY <1>1, NoOps
<1>3. Claimed /\ Tricolor /\ RootsKept /\ OnlyAlive
  BY DEF TraceInv
<1>4. PICK q \in Seq(Ephemerons), t \in Seq(Ephemerons) : ResolvedIn(q, t)
  BY DEF TraceInv
<1>5. PICK r \in [Ephemerons -> Nat], n \in Nat : RankedBy(r, n)
  BY DEF TraceInv
<1>6. \A e \in Ephemerons : state[e] = "pending" => key[e] \notin markedObjects
  <2>1. \A e \in Ephemerons : ~Cared(r, e)
    BY <1>1, <1>2 DEF Cared
  <2>2. Cares(r)
    BY <1>5 DEF RankedBy
  <2>3. QED
    BY <2>1, <2>2 DEF Cares
<1>7. \A e \in Ephemerons : state[e] # "claimed"
  BY <1>2, <1>3 DEF Claimed
<1>8. ASSUME link[Resolved] = NoRef PROVE \A e \in Ephemerons : state[e] \in {"traced", "pending"}
  <2>1. t = <<>>
    BY <1>1, <1>4 DEF ResolvedIn
  <2>2. q = <<>>
    <3>1. NoRef = Top(q)
      BY <1>4, <1>8 DEF ResolvedIn, IsList
    <3>2. q # <<>> => Top(q) \in Ephemerons
      BY TopIn
    <3>3. QED
      BY <3>1, <3>2, EphTypes
  <2>3. \A e \in Ephemerons : ~Listed(q, e) /\ ~Listed(t, e)
    BY <2>1, <2>2 DEF Listed
  <2>4. \A e \in Ephemerons : state[e] # "resolved"
    BY <1>2, <1>4, <2>3 DEF ResolvedIn
  <2>5. \A e \in Ephemerons : state[e] \in {"traced", "claimed", "pending", "resolved"}
    BY DEF WeakTypes
  <2>6. QED
    BY <1>7, <2>4, <2>5
<1>9. ASSUME link[Resolved] = NoRef PROVE markedObjects = AliveNow
  <2>1. markedObjects \subseteq Objects /\ shape \in Shapes /\ key = shape.key
    BY <1>1 DEF WeakTypes, Phases, Tracing
  <2>2. \A o \in markedObjects : Black(o)
    BY <1>2, <1>3, <2>1 DEF Tricolor
  <2>3. \A o \in markedObjects \cap Plain : shape.field[o] \in markedObjects \cup {NoRef}
    BY <1>2, <2>2 DEF Black
  <2>4. \A f \in markedObjects \cap Finalizers : shape.closure[f] \in markedObjects \cup {NoRef}
    BY <1>2, <2>2 DEF Black
  <2>5. \A e \in markedObjects \cap Ephemerons : shape.key[e] \in markedObjects => shape.value[e] \in markedObjects
    <3>1. SUFFICES ASSUME NEW e \in markedObjects \cap Ephemerons, key[e] \in markedObjects
                   PROVE  shape.value[e] \in markedObjects
      BY <2>1
    <3>2. state[e] = "traced"
      BY <1>6, <1>8, <1>9, <3>1
    <3>3. QED
      BY <1>2, <2>2, <3>1, <3>2 DEF Black
  <2>6. ClosedSet(markedObjects)
    BY <2>3, <2>4, <2>5 DEF ClosedSet
  <2>7. RootsNow \subseteq markedObjects
    BY <1>1, <1>2, <1>3 DEF RootsKept
  <2>8. AliveNow \subseteq markedObjects
    <3>1. markedObjects \in SUBSET Objects
      BY <2>1
    <3>2. LivesWith(RootsNow) \subseteq markedObjects
      BY <2>1, <2>6, <2>7, <3>1, Lives
    <3>3. QED
      BY <3>2 DEF AliveNow
  <2>9. QED
    BY <1>3, <2>8 DEF OnlyAlive
<1>10. QED
  BY <1>6, <1>8, <1>9

\* Between the rounds: what was done stays so, whatever is resolved.
QuietMoves ==
  /\ shape' = shape /\ key' = key /\ work' = work /\ markedObjects' = markedObjects /\ greyObjects' = greyObjects
  /\ \A e \in Ephemerons :
       state'[e] = state[e] \/ (state[e] = "pending" /\ state'[e] = "resolved" /\ key[e] \in markedObjects)

LEMMA QuietKeeps ==
  ASSUME WeakTypes, WeakTypes', Ops = {}, greyObjects = {}, QueuedOnce, Claimed, Tricolor, QuietMoves
  PROVE  Ops' = {} /\ QueuedOnce' /\ Claimed' /\ Pushed' /\ Tricolor'
<1>1. /\ shape' = shape /\ key' = key /\ markedObjects' = markedObjects /\ greyObjects' = {}
      /\ Ops' = {}
      /\ \A e \in Ephemerons :
           state'[e] = state[e] \/ (state[e] = "pending" /\ state'[e] = "resolved" /\ key[e] \in markedObjects)
  BY DEF QuietMoves, Ops
<1>2. /\ \A K, o : ~HasOp(K, o)
      /\ \A o : Seen(o) <=> o \in markedObjects
      /\ \A o : Started(o) <=> o \in markedObjects
  BY NoOps
<1>3. \A K, o : ~HasOp(K, o)'
  BY <1>1 DEF HasOp
<1>4. \A S : Once(S)'
  <2>1. \A u \in Workers : \A i \in DOMAIN work'[u] : work'[u][i] \in Ops'
    BY DEF Ops
  <2>2. QED
    BY <1>1, <2>1 DEF Once
<1>5. /\ \A o : Seen(o)' <=> o \in markedObjects
      /\ \A o : Started(o)' <=> o \in markedObjects
  BY <1>1, <1>3 DEF Seen, Started
<1>6. QueuedOnce'
  <2>1. \A o \in Objects : Once(Of({"enqueue"}, o))'
    <3>1. SUFFICES ASSUME NEW o PROVE Once(Of({"enqueue"}, o))'
      OBVIOUS
    <3>2. PICK S : S = Of({"enqueue"}, o)
      OBVIOUS
    <3>3. Once(S)'
      BY <1>4
    <3>4. QED
      BY <3>2, <3>3 DEF Of, OpSet
  <2>2. \A e \in Ephemerons : state'[e] # "traced" => Started(e)'
    BY <1>1, <1>2, <1>5 DEF QueuedOnce
  <2>3. QED
    BY <1>3, <2>1, <2>2 DEF QueuedOnce
<1>7. Claimed'
  <2>1. \A e \in Ephemerons : Once(Of(Claims, e))'
    <3>1. SUFFICES ASSUME NEW e PROVE Once(Of(Claims, e))'
      OBVIOUS
    <3>2. PICK S : S = Of(Claims, e)
      OBVIOUS
    <3>3. Once(S)'
      BY <1>4
    <3>4. QED
      BY <3>2, <3>3 DEF Of, OpSet, Claims
  <2>2. \A e \in Ephemerons : state'[e] # "claimed"
    BY <1>1, <1>2 DEF Claimed
  <2>3. \A e \in Ephemerons : state'[e] = "resolved" => key'[e] \in markedObjects'
    BY <1>1 DEF Claimed
  <2>4. QED
    BY <1>3, <2>1, <2>2, <2>3 DEF Claimed
<1>8. Pushed'
  <2>1. \A e \in Ephemerons : Once(Of(Pushes, e))'
    <3>1. SUFFICES ASSUME NEW e PROVE Once(Of(Pushes, e))'
      OBVIOUS
    <3>2. PICK S : S = Of(Pushes, e)
      OBVIOUS
    <3>3. Once(S)'
      BY <1>4
    <3>4. QED
      BY <3>2, <3>3 DEF Of, OpSet, Pushes
  <2>2. QED
    BY <1>1, <2>1 DEF Pushed
<1>9. Tricolor'
  <2>1. SUFFICES ASSUME NEW o \in Objects, o \in markedObjects PROVE Black(o)'
    BY <1>5 DEF Tricolor
  <2>2. Black(o)
    BY <1>2, <2>1 DEF Tricolor
  <2>3. o \in Ephemerons /\ state'[o] = "traced" => state[o] = "traced"
    BY <1>1
  <2>4. QED
    BY <1>1, <1>2, <1>5, <2>2, <2>3 DEF Black
<1>10. QED
  BY <1>1, <1>6, <1>7, <1>8, <1>9

LEMMA QuietRanks ==
  ASSUME WeakTypes, Ops = {}, greyObjects = {}, QuietMoves, NEW r \in [Ephemerons -> Nat], NEW n \in Nat, RankedBy(r, n),
         \A k \in Buckets : link'[Bucket(k)] = link[Bucket(k)],
         \A e \in Ephemerons : link'[PendingLink(e)] = link[PendingLink(e)],
         \A e \in Ephemerons : phase' # "heap" /\ state'[e] = "pending" => key[e] \notin markedObjects
  PROVE  RankedBy(r, n)'
<1>1. /\ shape' = shape /\ key' = key /\ markedObjects' = markedObjects /\ greyObjects' = {}
      /\ Ops' = {} /\ work' = work
      /\ \A e \in Ephemerons :
           state'[e] = state[e] \/ (state[e] = "pending" /\ state'[e] = "resolved" /\ key[e] \in markedObjects)
  BY DEF QuietMoves, Ops
<1>2. /\ \A K, o : ~HasOp(K, o)
      /\ \A o : Started(o) <=> o \in markedObjects
  BY NoOps
<1>3. \A K, o : ~HasOp(K, o)'
  BY <1>1 DEF HasOp
<1>4. \A o : Started(o)' <=> o \in markedObjects
  BY <1>1, <1>3 DEF Started
<1>5. Ranked(r, n) /\ Links(r, n)
  BY DEF RankedBy
<1>6. Ranked(r, n)'
  <2>1. /\ \A e \in Ephemerons : r[e] < n
        /\ \A e, f \in Ephemerons : r[e] = r[f] /\ r[e] # 0 => e = f
        /\ \A e \in Ephemerons : r[e] # 0 => state[e] # "claimed" /\ e \in markedObjects
        /\ \A e \in Ephemerons : ~(r[e] = 0 /\ state[e] = "pending")
    BY <1>2, <1>5 DEF Ranked
  <2>2. /\ \A e \in Ephemerons : r[e] # 0 => state'[e] # "claimed" /\ Started(e)'
        /\ \A e \in Ephemerons : ~(r[e] = 0 /\ state'[e] = "pending")
    BY <1>1, <1>4, <2>1
  <2>3. QED
    BY <1>3, <2>1, <2>2 DEF Ranked
<1>7. Links(r, n)'
  <2>1. StateKept(r)
    BY <1>1 DEF StateKept
  <2>2. QED
    BY <1>1, <1>5, <2>1, LinksFrom
<1>8. Rechecked(r)'
  <2>1. \A u \in Workers : \A i \in DOMAIN work'[u] : work'[u][i] \in Ops'
    BY DEF Ops
  <2>2. QED
    BY <1>1, <2>1 DEF Rechecked
<1>9. Cares(r)'
  BY <1>1 DEF Cares
<1>10. QED
  BY <1>6, <1>7, <1>8, <1>9 DEF RankedBy

LEMMA AttachKeeps ==
  ASSUME WeakInv, NEW f \in Finalizers, Attach(f)
  PROVE  WeakInv'
<1>1. /\ phase = "attach" /\ table' = [table EXCEPT ![shape.priority[f]] = @ \cup {f}]
      /\ UNCHANGED weakHeapVars /\ phase' = phase /\ markedObjects' = markedObjects /\ shape' = shape /\ key' = key
      /\ greyObjects' = greyObjects /\ state' = state /\ link' = link /\ checkPending' = checkPending
      /\ rootList' = rootList /\ work' = work /\ firedList' = firedList /\ handed' = handed
  BY DEF Attach, weakHeapVars, traceVars
<1>2. WeakTypes /\ Phases /\ Tables /\ \E q \in Seq(Finalizers) : IsFired(q)
  BY DEF WeakInv
<1>3. PICK p \in Priorities : p = shape.priority[f]
  <2>1. shape \in Shapes
    BY <1>2 DEF WeakTypes
  <2>2. shape.priority \in [Finalizers -> Priorities]
    BY <2>1, WeakAssumption
  <2>3. QED
    BY <2>2
<1>4. table \in [Priorities -> SUBSET Finalizers]
  BY <1>2 DEF WeakTypes
<1>5. table' \in [Priorities -> SUBSET Finalizers]
  BY <1>1, <1>3, <1>4
<1>6. Phases'
  <2>1. Ops' = Ops
    BY <1>1 DEF Ops
  <2>2. QED
    BY <1>1, <1>2, <2>1 DEF Phases, Tracing
<1>7. FiredNow' = FiredNow /\ \A g : Ofp(g)' = Ofp(g)
  BY <1>1 DEF FiredNow, Fired0, Fired1, FiresAt, Alive0, Alive1, LivesWith, ClosedSet, Ofp
<1>8. Tables'
  <2>1. \A g \in Priorities : table[g] \subseteq Ofp(g)
    BY <1>2 DEF Tables
  <2>2. f \in Ofp(p)
    BY <1>3 DEF Ofp
  <2>3. \A g \in Priorities : table'[g] = IF g = p THEN table[g] \cup {f} ELSE table[g]
    BY <1>1, <1>3, <1>4
  <2>4. \A g \in Priorities : table'[g] \subseteq Ofp(g)
    BY <2>1, <2>2, <2>3
  <2>5. QED
    BY <1>1, <1>7, <2>4 DEF Tables
<1>9. \E q \in Seq(Finalizers) : IsFired(q)'
  <2>1. PICK q \in Seq(Finalizers) : IsFired(q)
    BY <1>2
  <2>2. IsFired(q)'
    BY <1>1, <1>7, <2>1 DEF IsFired, IsList, Top, Listed
  <2>3. QED
    BY <2>2
<1>10. QED
  <2>1. /\ work' \in [Workers -> Seq(OpSet)] /\ handed' \in Seq(Finalizers)
        /\ firedList' \in [Finalizers \cup {FiredHead} -> Finalizers \cup {NoRef}]
    BY <1>1, <1>2 DEF WeakTypes
  <2>2. QED
    BY <1>1, <1>5, <1>6, <1>8, <1>9, <2>1, RestKept

\* What is between the rounds is put together.
LEMMA RoundKept ==
  ASSUME WeakInv, phase' \in {"heap", "weak", "fin0", "fin1"}, phase # "done", Ops = {}, greyObjects = {},
         QueuedOnce, Claimed, Tricolor, QuietMoves,
         state' \in [Ephemerons -> {"traced", "claimed", "pending", "resolved"}], link' \in [Cells -> Ephs],
         rootList' \subseteq RootSet, table' \in [Priorities -> SUBSET Finalizers],
         firedList' \in [Finalizers \cup {FiredHead} -> Finalizers \cup {NoRef}], handed' = handed,
         checkPending' = (phase' \in {"weak", "fin0", "fin1"}), Tables', \E q \in Seq(Finalizers) : IsFired(q)',
         RootsKept', OnlyAlive', \E q, t \in Seq(Ephemerons) : ResolvedIn(q, t)',
         \E r \in [Ephemerons -> Nat], n \in Nat : RankedBy(r, n)'
  PROVE  WeakInv'
<1>1. WeakTypes /\ Phases
  BY DEF WeakInv
<1>2. WeakTypes'
  BY <1>1 DEF WeakTypes, QuietMoves
<1>3. Ops' = {} /\ QueuedOnce' /\ Claimed' /\ Pushed' /\ Tricolor'
  BY <1>1, <1>2, QuietKeeps
<1>4. Phases'
  BY <1>1, <1>3 DEF Phases, Tracing, QuietMoves
<1>5. TraceInv'
  BY <1>3 DEF TraceInv
<1>6. MarkedIsAlive'
  BY DEF MarkedIsAlive
<1>7. Tables' /\ \E q \in Seq(Finalizers) : IsFired(q)'
  OBVIOUS
<1>8. QED
  BY <1>2, <1>4, <1>5, <1>6, <1>7 DEF WeakInv

\* The roots of a round are its edges.
LEMMA EdgesOk ==
  ASSUME NEW O, O \subseteq Objects, NEW R, R = {Root(o) : o \in O}
  PROVE  /\ R \subseteq RootSet /\ \A r \in R : r.kind = "edge" /\ r.obj \in O
         /\ \A o \in O : Root(o) \in R
BY DEF RootSet, Root

LEMMA HeapTypes ==
  ASSUME shape \in Shapes
  PROVE  /\ shape.roots \subseteq Objects /\ shape.object \in [Finalizers -> Objects]
         /\ shape.key \in [Ephemerons -> Objects] /\ shape.priority \in [Finalizers -> Priorities]
         /\ Finalizers \subseteq Objects /\ Ephemerons \subseteq Objects
BY WeakAssumption DEF Objects

LEMMA StartTraceKeeps ==
  ASSUME WeakInv, StartTrace
  PROVE  WeakInv'
<1> DEFINE O == shape.roots \cup Attached
<1>1. /\ phase = "attach" /\ Attached = Finalizers /\ phase' = "heap" /\ checkPending' = FALSE
      /\ rootList' = {Root(o) : o \in O}
      /\ shape' = shape /\ key' = key /\ markedObjects' = markedObjects /\ greyObjects' = greyObjects
      /\ state' = state /\ link' = link /\ work' = work
      /\ table' = table /\ firedList' = firedList /\ handed' = handed
  BY DEF StartTrace, weakHeapVars, finVars
<1>2. WeakTypes /\ Phases /\ Tables /\ \E q \in Seq(Finalizers) : IsFired(q)
  BY DEF WeakInv
<1>3. /\ markedObjects = {} /\ greyObjects = {} /\ Ops = {} /\ \A e \in Ephemerons : state[e] = "traced"
      /\ \A c \in Cells : link[c] = NoRef
  BY <1>1, <1>2 DEF Phases, WeakTypes
<1>4. /\ \A K, o : ~HasOp(K, o)
      /\ \A S : Once(S)
      /\ \A o : Seen(o) <=> o \in markedObjects
      /\ \A o : ~Started(o)
  BY <1>2, <1>3, NoOps
<1>5. QueuedOnce /\ Claimed /\ Tricolor
  <2>1. QueuedOnce
    BY <1>3, <1>4 DEF QueuedOnce
  <2>2. Claimed
    BY <1>3, <1>4 DEF Claimed
  <2>3. Tricolor
    BY <1>4 DEF Tricolor
  <2>4. QED
    BY <2>1, <2>2, <2>3
<1>6. QuietMoves
  BY <1>1 DEF QuietMoves
<1>7. shape \in Shapes /\ O = shape.roots \cup Finalizers /\ O \subseteq Objects
  <2>1. shape \in Shapes
    BY <1>2 DEF WeakTypes
  <2>2. shape.roots \subseteq Objects /\ Finalizers \subseteq Objects
    BY <2>1, HeapTypes
  <2>3. QED
    BY <1>1, <2>1, <2>2
<1>8. /\ rootList' \subseteq RootSet /\ \A r \in rootList' : r.kind = "edge" /\ r.obj \in O
      /\ \A o \in O : Root(o) \in rootList'
  <2>1. PICK P : P = O
    OBVIOUS
  <2>2. P \subseteq Objects /\ rootList' = {Root(o) : o \in P}
    BY <1>1, <1>7, <2>1
  <2>3. QED
    BY <2>1, <2>2, EdgesOk
<1> HIDE DEF O
<1>9. RootsNow' = O
  BY <1>1, <1>7 DEF RootsNow
<1>10. RootsKept'
  BY <1>8, <1>9 DEF RootsKept, Root
<1>11. OnlyAlive'
  <2>1. AliveNow' = LivesWith(O)
    BY <1>1, <1>9 DEF AliveNow, LivesWith, ClosedSet
  <2>2. O \subseteq LivesWith(O)
    BY <1>7, Lives
  <2>3. Ops' = {}
    BY <1>1, <1>3 DEF Ops
  <2>4. \A r \in rootList' : r.kind = "edge" => r.obj \in AliveNow'
    BY <1>8, <2>1, <2>2
  <2>5. QED
    BY <1>1, <1>3, <2>3, <2>4 DEF OnlyAlive
<1>12. Tables' /\ \E q \in Seq(Finalizers) : IsFired(q)'
  <2>1. FiredNow = {} /\ FiredNow' = {} /\ \A p : Ofp(p)' = Ofp(p)
    BY <1>1 DEF FiredNow, Ofp
  <2>2. \A p \in Priorities : table[p] = Ofp(p)
    <3>1. SUFFICES ASSUME NEW p \in Priorities, NEW f \in Ofp(p) PROVE f \in table[p]
      BY <1>2 DEF Tables
    <3>2. f \in Finalizers /\ shape.priority[f] = p
      BY <3>1 DEF Ofp
    <3>3. PICK g \in Priorities : f \in table[g]
      BY <1>1, <3>2 DEF Attached
    <3>4. g = p
      BY <1>2, <3>2, <3>3 DEF Tables, Ofp
    <3>5. QED
      BY <3>3, <3>4
  <2>3. Tables'
    BY <1>1, <1>2, <2>1, <2>2 DEF Tables
  <2>4. PICK q \in Seq(Finalizers) : IsFired(q)
    BY <1>2
  <2>5. IsFired(q)'
    BY <1>1, <2>1, <2>4 DEF IsFired, IsList, Top, Listed
  <2>6. QED
    BY <2>3, <2>5
<1>13. ResolvedIn(<<>>, <<>>)'
  <2>1. Ops' = {}
    BY <1>1, <1>3 DEF Ops
  <2>2. Once({x \in OpSet : x.op = "nextResolved"})'
    <3>1. PICK S : S = {x \in OpSet : x.op = "nextResolved"}
      OBVIOUS
    <3>2. \A u \in Workers : \A i \in DOMAIN work'[u] : work'[u][i] \in Ops'
      BY DEF Ops
    <3>3. Once(S)'
      BY <2>1, <3>2 DEF Once
    <3>4. QED
      BY <3>1, <3>3 DEF OpSet
  <2>3. \A e : ~Listed(<<>>, e)'
    BY DEF Listed
  <2>4. link'[Resolved] = NoRef
    BY <1>1, <1>3, CellsApart
  <2>5. IsList(<<>>, link[Resolved], ResolvedNext)' /\ IsList(<<>>, Top(<<>>), ResolvedNext)'
    BY <2>4 DEF IsList, Top
  <2>6. \A e \in Ephemerons : state'[e] # "resolved"
    BY <1>1, <1>3
  <2>7. \A r \in rootList' : r.kind # "resolved"
    BY <1>8
  <2>8. QED
    BY <2>1, <2>2, <2>3, <2>5, <2>6, <2>7 DEF ResolvedIn
<1>14. PICK r \in [Ephemerons -> Nat] : r = [e \in Ephemerons |-> 0]
  OBVIOUS
<1>15. RankedBy(r, 1)'
  <2>1. Ops' = {}
    BY <1>1, <1>3, <1>6 DEF QuietMoves, Ops
  <2>2. \A K, o : ~HasOp(K, o)'
    BY <2>1 DEF HasOp
  <2>3. \A e \in Ephemerons : r[e] = 0 /\ state'[e] = "traced"
    BY <1>1, <1>3, <1>14
  <2>4. Ranked(r, 1)'
    BY <2>2, <2>3 DEF Ranked
  <2>5. Rechecked(r)'
    <3>1. \A u \in Workers : \A i \in DOMAIN work'[u] : work'[u][i] \in Ops'
      BY DEF Ops
    <3>2. QED
      BY <2>1, <3>1 DEF Rechecked
  <2>6. Links(r, 1)'
    <3>1. \A k \in Buckets : link'[Bucket(k)] = NoRef
      BY <1>1, <1>3, CellsApart
    <3>2. \A b, v, m : NoneBetween(r, b, v, m)'
      BY <2>3 DEF NoneBetween
    <3>3. \A b : IsNode(r, b, NoRef)'
      BY DEF IsNode
    <3>4. QED
      BY <2>1, <2>3, <3>1, <3>2, <3>3 DEF Links
  <2>7. Cares(r)'
    BY <1>1 DEF Cares
  <2>8. QED
    BY <2>4, <2>5, <2>6, <2>7 DEF RankedBy
<1>16. (\E q, t \in Seq(Ephemerons) : ResolvedIn(q, t)') /\ (\E s \in [Ephemerons -> Nat], n \in Nat : RankedBy(s, n)')
  <2>1. \E q, t \in Seq(Ephemerons) : ResolvedIn(q, t)'
    <3>1. <<>> \in Seq(Ephemerons)
      OBVIOUS
    <3>2. QED
      BY <1>13, <3>1
  <2>2. \E s \in [Ephemerons -> Nat], n \in Nat : RankedBy(s, n)'
    <3>1. 1 \in Nat
      OBVIOUS
    <3>2. QED
      BY <1>15, <3>1
  <2>3. QED
    BY <2>1, <2>2
<1>17. /\ state' \in [Ephemerons -> {"traced", "claimed", "pending", "resolved"}] /\ link' \in [Cells -> Ephs]
       /\ table' \in [Priorities -> SUBSET Finalizers]
       /\ firedList' \in [Finalizers \cup {FiredHead} -> Finalizers \cup {NoRef}]
  BY <1>1, <1>2 DEF WeakTypes
<1>18. phase' \in {"heap", "weak", "fin0", "fin1"} /\ phase # "done" /\ checkPending' = (phase' \in {"weak", "fin0", "fin1"})
  <2>1. phase' \in {"heap", "weak", "fin0", "fin1"} /\ phase # "done" /\ (phase' \in {"weak", "fin0", "fin1"}) = FALSE
    BY <1>1
  <2>2. QED
    BY <1>1, <2>1
<1>19. QED
  BY <1>1, <1>3, <1>5, <1>6, <1>8, <1>10, <1>11, <1>12, <1>16, <1>17, <1>18, RoundKept

\* What lives and fires depends on the heap alone.
LEMMA LivesSame ==
  ASSUME shape' = shape
  PROVE  /\ Alive0' = Alive0 /\ Alive1' = Alive1 /\ Alive2' = Alive2 /\ Fired0' = Fired0 /\ Fired1' = Fired1
         /\ \A S : LivesWith(S)' = LivesWith(S)
         /\ \A F : ObjectsOf(F)' = ObjectsOf(F)
         /\ \A p : Ofp(p)' = Ofp(p)
<1>1. \A S : LivesWith(S)' = LivesWith(S)
  BY DEF LivesWith, ClosedSet
<1>2. Alive0' = Alive0
  BY DEF Alive0, LivesWith, ClosedSet
<1>3. Fired0' = Fired0
  BY <1>2 DEF Fired0, FiresAt
<1>4. Alive1' = Alive1
  BY DEF Alive1, Alive0, FiresAt, LivesWith, ClosedSet
<1>5. Fired1' = Fired1
  BY <1>4 DEF Fired1, FiresAt
<1>6. Alive2' = Alive2
  BY DEF Alive2, Alive1, Alive0, FiresAt, LivesWith, ClosedSet
<1>7. (\A F : ObjectsOf(F)' = ObjectsOf(F)) /\ \A p : Ofp(p)' = Ofp(p)
  BY DEF ObjectsOf, Ofp
<1>8. QED
  BY <1>1, <1>2, <1>3, <1>4, <1>5, <1>6, <1>7

LEMMA FiredSame ==
  ASSUME Tables, phase # "attach", NEW q, IsFired(q), shape' = shape, table' = table, firedList' = firedList,
         handed' = handed, FiredNow' = FiredNow
  PROVE  Tables' /\ IsFired(q)'
<1>1. \A p : Ofp(p)' = Ofp(p)
  BY LivesSame
<1>2. Tables'
  BY <1>1 DEF Tables
<1>3. IsFired(q)'
  BY DEF IsFired, IsList, Top, Listed
<1>4. QED
  BY <1>2, <1>3

\* Between the rounds there is no list that is being traced.
LEMMA QuietLists ==
  ASSUME WeakTypes, Quiet, TraceInv
  PROVE  \E q \in Seq(Ephemerons) :
           /\ IsList(q, link[Resolved], ResolvedNext)
           /\ \A e \in Ephemerons : Listed(q, e) <=> state[e] = "resolved"
<1>1. PICK q \in Seq(Ephemerons), t \in Seq(Ephemerons) : ResolvedIn(q, t)
  BY DEF TraceInv
<1>2. Ops = {} /\ rootList = {}
  BY QuietOps
<1>3. t = <<>>
  BY <1>1, <1>2 DEF ResolvedIn
<1>4. \A e : ~Listed(t, e)
  BY <1>3 DEF Listed
<1>5. \A K, o : ~HasOp(K, o)
  BY <1>2 DEF HasOp
<1>6. IsList(q, link[Resolved], ResolvedNext)
  BY <1>1 DEF ResolvedIn
<1>7. \A e \in Ephemerons : Listed(q, e) <=> state[e] = "resolved"
  BY <1>1, <1>4, <1>5 DEF ResolvedIn
<1>8. QED
  BY <1>6, <1>7

\* ... and lists with nothing to do are these.
LEMMA ListsFrom ==
  ASSUME NEW q \in Seq(Ephemerons), NEW t \in Seq(Ephemerons), IsList(q, link'[Resolved], ResolvedNext'),
         IsList(t, Top(t), ResolvedNext'),
         \A e \in Ephemerons : ~(Listed(q, e) /\ Listed(t, e)),
         \A e \in Ephemerons : Listed(q, e) \/ Listed(t, e) <=> state'[e] = "resolved", Ops' = {},
         \/ t = <<>> /\ \A r \in rootList' : r.kind = "edge"
         \/ t # <<>> /\ rootList' = {[kind |-> "resolved", obj |-> Top(t)]}
  PROVE  ResolvedIn(q, t)'
<1>1. Once({x \in OpSet : x.op = "nextResolved"})'
  <2>1. PICK S : S = {x \in OpSet : x.op = "nextResolved"}
    OBVIOUS
  <2>2. \A u \in Workers : \A i \in DOMAIN work'[u] : work'[u][i] \in Ops'
    BY DEF Ops
  <2>3. Once(S)'
    BY <2>2 DEF Once
  <2>4. QED
    BY <2>1, <2>3 DEF OpSet
<1>2. \A K, o : ~HasOp(K, o)'
  BY DEF HasOp
<1>3. IsList(q, link[Resolved], ResolvedNext)' /\ IsList(t, Top(t), ResolvedNext)'
  BY DEF IsList, Top
<1>4. /\ \A e \in Ephemerons : ~(Listed(q, e) /\ Listed(t, e))'
      /\ \A e \in Ephemerons : Listed(q, e)' \/ Listed(t, e)' <=> state'[e] = "resolved"
  BY DEF Listed
<1>5. \A r \in rootList' : r.kind = "resolved" => t # <<>> /\ r.obj = Top(t)' /\ rootList' = {r}
  BY DEF Top
<1>6. t # <<>> => \E r \in rootList' : r.kind = "resolved"
  <2>1. PICK x : x = [kind |-> "resolved", obj |-> Top(t)]
    OBVIOUS
  <2>2. x.kind = "resolved"
    BY <2>1
  <2>3. t # <<>> => x \in rootList'
    BY <2>1
  <2>4. QED
    BY <2>2, <2>3
<1>7. QED
  BY <1>1, <1>2, <1>3, <1>4, <1>5, <1>6 DEF ResolvedIn

\* A round that goes on with what there is has the roots and the fired it had.
LEMMA RoundSame ==
  ASSUME WeakTypes, Phases, TraceInv, Quiet, QuietMoves, RootsNow' = RootsNow, \A r \in rootList' : r.kind = "resolved"
  PROVE  RootsKept' /\ OnlyAlive'
<1>1. Ops = {} /\ rootList = {}
  BY QuietOps
<1>2. Ops' = {} /\ shape' = shape /\ markedObjects' = markedObjects
  BY <1>1 DEF QuietMoves, Ops
<1>3. \A o : Seen(o) <=> o \in markedObjects
  BY <1>1, NoOps
<1>4. RootsKept'
  <2>1. \A o \in RootsNow : Seen(o)
    BY <1>1 DEF TraceInv, RootsKept
  <2>2. \A o \in RootsNow' : Seen(o)'
    BY <1>2, <1>3, <2>1 DEF Seen
  <2>3. QED
    BY <2>2 DEF RootsKept
<1>5. AliveNow' = AliveNow
  BY <1>2 DEF AliveNow, LivesWith, ClosedSet
<1>6. markedObjects \subseteq AliveNow
  BY DEF TraceInv, OnlyAlive
<1>7. OnlyAlive'
  BY <1>2, <1>5, <1>6 DEF OnlyAlive
<1>8. QED
  BY <1>4, <1>7

LEMMA ResolveEagerlyKeeps ==
  ASSUME WeakInv, ResolveEagerly
  PROVE  WeakInv'
<1>1. PICK live : live = {e \in Ephemerons : state[e] = "pending" /\ key[e] \in markedObjects}
  OBVIOUS
<1>2. PICK s : s = SetToSeq(live)
  OBVIOUS
<1>3. /\ Quiet /\ phase = "heap" /\ phase' = "weak" /\ checkPending' = TRUE
      /\ state' = [e \in Ephemerons |-> IF e \in live THEN "resolved" ELSE state[e]]
      /\ link' = Chained(s, Resolved)
      /\ shape' = shape /\ key' = key /\ markedObjects' = markedObjects /\ greyObjects' = greyObjects
      /\ rootList' = rootList /\ work' = work
      /\ table' = table /\ firedList' = firedList /\ handed' = handed
  BY <1>1, <1>2 DEF ResolveEagerly, weakHeapVars, finVars
<1>4. /\ WeakTypes /\ Phases /\ Tables /\ TraceInv /\ \E q \in Seq(Finalizers) : IsFired(q)
  BY <1>3 DEF WeakInv, Quiet
<1>5. Ops = {} /\ greyObjects = {} /\ rootList = {} /\ QueuedOnce /\ Claimed /\ Tricolor
  BY <1>3, <1>4, QuietOps DEF TraceInv
<1>6. QuietMoves /\ Ops' = {} /\ rootList' = {}
  <2>1. Ops' = {}
    BY <1>3, <1>5 DEF Ops
  <2>2. QED
    BY <1>1, <1>3, <1>5, <2>1 DEF QuietMoves
<1>7. IsFiniteSet(live)
  <2>1. live \subseteq Ephemerons /\ IsFiniteSet(Ephemerons)
    BY <1>1, WeakAssumption
  <2>2. QED
    BY <2>1, FS_Subset
<1>8. /\ s \in Seq(live) /\ (\A i, j \in DOMAIN s : s[i] = s[j] => i = j)
      /\ \A e : Listed(s, e) <=> e \in live
  BY <1>2, <1>7, SetToSeqFacts
<1>9. s \in Seq(Ephemerons)
  BY <1>1, <1>8
<1>10. /\ link' \in [Cells -> Ephs]
       /\ s = <<>> => link'[Resolved] = link[Resolved]
       /\ s # <<>> => link'[Resolved] = s[1]
       /\ \A i \in DOMAIN s : link'[ResolvedLink(s[i])] = IF i = Len(s) THEN link[Resolved] ELSE s[i + 1]
       /\ \A e \in Ephemerons : ~Listed(s, e) => link'[ResolvedLink(e)] = link[ResolvedLink(e)]
       /\ \A b \in Buckets : link'[Bucket(b)] = link[Bucket(b)]
       /\ \A e \in Ephemerons : link'[PendingLink(e)] = link[PendingLink(e)]
  <2>1. PICK L : L = Chained(s, Resolved)
    OBVIOUS
  <2>2. link' = L
    BY <1>3, <2>1
  <2>3. /\ L \in [Cells -> Ephs]
        /\ s = <<>> => L[Resolved] = link[Resolved]
        /\ s # <<>> => L[Resolved] = s[1]
        /\ \A i \in DOMAIN s : L[ResolvedLink(s[i])] = IF i = Len(s) THEN link[Resolved] ELSE s[i + 1]
        /\ \A e \in Ephemerons : ~Listed(s, e) => L[ResolvedLink(e)] = link[ResolvedLink(e)]
        /\ \A b \in Buckets : L[Bucket(b)] = link[Bucket(b)]
        /\ \A e \in Ephemerons : L[PendingLink(e)] = link[PendingLink(e)]
    BY <1>4, <1>8, <1>9, <2>1, ResolvedChain
  <2>4. QED
    BY <2>2, <2>3
<1>11. PICK q \in Seq(Ephemerons) :
         /\ IsList(q, link[Resolved], ResolvedNext)
         /\ \A e \in Ephemerons : Listed(q, e) <=> state[e] = "resolved"
  BY <1>3, <1>4, QuietLists
<1>12. PICK p \in Seq(Ephemerons) :
         IsList(p, link'[Resolved], ResolvedNext') /\ \A x : Listed(p, x) <=> Listed(q, x) \/ Listed(s, x)
  <2>1. \A x : Listed(q, x) => x \in Ephemerons
    BY TopIn
  <2>2. \A x : ~(Listed(q, x) /\ Listed(s, x))
    BY <1>1, <1>8, <1>11, <2>1
  <2>3. /\ \A e \in Ephemerons : ResolvedNext'[e] = link'[ResolvedLink(e)]
        /\ \A e \in Ephemerons : ResolvedNext[e] = link[ResolvedLink(e)]
    BY DEF ResolvedNext
  <2>4. \A x : Listed(q, x) => ResolvedNext'[x] = ResolvedNext[x]
    BY <1>10, <2>1, <2>2, <2>3
  <2>5. \A i \in DOMAIN s : ResolvedNext'[s[i]] = IF i = Len(s) THEN link[Resolved] ELSE s[i + 1]
    <3>1. \A i \in DOMAIN s : s[i] \in Ephemerons
      BY <1>9
    <3>2. QED
      BY <1>10, <2>3, <3>1
  <2>6. PICK f, g, c, d : f = ResolvedNext /\ g = ResolvedNext' /\ c = link[Resolved] /\ d = link'[Resolved]
    OBVIOUS
  <2>7. IsList(q, c, f) /\ Linked(s, d, c, g) /\ \A x : Listed(q, x) => g[x] = f[x]
    BY <1>8, <1>10, <1>11, <2>4, <2>5, <2>6 DEF Linked
  <2>8. \E p \in Seq(Ephemerons) : IsList(p, d, g) /\ \A x : Listed(p, x) <=> Listed(q, x) \/ Listed(s, x)
    BY <1>9, <2>2, <2>7, ChainOnto
  <2>9. QED
    BY <2>6, <2>8
<1>13. ResolvedIn(p, <<>>)'
  <2>1. \A e : ~Listed(<<>>, e)
    BY DEF Listed
  <2>2. \A e \in Ephemerons : Listed(p, e) <=> state'[e] = "resolved"
    BY <1>1, <1>3, <1>8, <1>11, <1>12
  <2>3. IsList(<<>>, Top(<<>>), ResolvedNext')
    BY DEF IsList, Top
  <2>4. Ops' = {} /\ rootList' = {}
    BY <1>6
  <2>5. PICK t : t = <<>>
    OBVIOUS
  <2>6. ResolvedIn(p, t)'
    <3>1. t \in Seq(Ephemerons)
      BY <2>5
    <3>2. QED
      BY <1>12, <2>1, <2>2, <2>3, <2>4, <2>5, <3>1, ListsFrom
  <2>7. QED
    BY <2>5, <2>6
<1>14. \E t, u \in Seq(Ephemerons) : ResolvedIn(t, u)'
  <2>1. <<>> \in Seq(Ephemerons)
    OBVIOUS
  <2>2. QED
    BY <1>12, <1>13, <2>1
<1>15. \E r \in [Ephemerons -> Nat], n \in Nat : RankedBy(r, n)'
  <2>1. PICK r \in [Ephemerons -> Nat], n \in Nat : RankedBy(r, n)
    BY <1>4 DEF TraceInv
  <2>2. \A e \in Ephemerons : state'[e] = "pending" => key[e] \notin markedObjects
    BY <1>1, <1>3
  <2>3. RankedBy(r, n)'
    BY <1>4, <1>5, <1>6, <1>10, <2>1, <2>2, QuietRanks
  <2>4. QED
    BY <2>1, <2>3
<1>16. RootsKept' /\ OnlyAlive'
  <2>1. RootsNow' = RootsNow /\ rootList' = {}
    BY <1>3, <1>5 DEF RootsNow
  <2>2. QED
    BY <1>3, <1>4, <1>6, <2>1, RoundSame
<1>17. Tables' /\ \E t \in Seq(Finalizers) : IsFired(t)'
  <2>1. PICK t \in Seq(Finalizers) : IsFired(t)
    BY <1>4
  <2>2. FiredNow' = FiredNow
    BY <1>3 DEF FiredNow
  <2>3. Tables' /\ IsFired(t)'
    BY <1>3, <1>4, <2>1, <2>2, FiredSame
  <2>4. QED
    BY <2>1, <2>3
<1>18. /\ state' \in [Ephemerons -> {"traced", "claimed", "pending", "resolved"}] /\ rootList' \subseteq RootSet
       /\ table' \in [Priorities -> SUBSET Finalizers]
       /\ firedList' \in [Finalizers \cup {FiredHead} -> Finalizers \cup {NoRef}]
  BY <1>3, <1>4, <1>5 DEF WeakTypes
<1>19. phase' \in {"heap", "weak", "fin0", "fin1"} /\ phase # "done" /\ checkPending' = (phase' \in {"weak", "fin0", "fin1"})
  <2>1. phase' \in {"heap", "weak", "fin0", "fin1"} /\ phase # "done" /\ (phase' \in {"weak", "fin0", "fin1"}) = TRUE
    BY <1>3
  <2>2. QED
    BY <1>3, <2>1
<1>20. QED
  BY <1>3, <1>5, <1>6, <1>10, <1>14, <1>15, <1>16, <1>17, <1>18, <1>19, RoundKept

LEMMA PopResolvedKeeps ==
  ASSUME WeakInv, PopResolved
  PROVE  WeakInv'
<1>1. /\ Quiet /\ phase # "heap" /\ link[Resolved] # NoRef
      /\ rootList' = {[kind |-> "resolved", obj |-> link[Resolved]]}
      /\ link' = [link EXCEPT ![Resolved] = NoRef]
      /\ shape' = shape /\ key' = key /\ markedObjects' = markedObjects /\ greyObjects' = greyObjects
      /\ state' = state /\ checkPending' = checkPending /\ work' = work /\ phase' = phase
      /\ table' = table /\ firedList' = firedList /\ handed' = handed
  BY DEF PopResolved, weakHeapVars, finVars
<1>2. /\ WeakTypes /\ Phases /\ Tables /\ TraceInv /\ \E q \in Seq(Finalizers) : IsFired(q)
  BY <1>1 DEF WeakInv, Quiet
<1>3. Ops = {} /\ greyObjects = {} /\ rootList = {} /\ QueuedOnce /\ Claimed /\ Tricolor
  BY <1>1, <1>2, QuietOps DEF TraceInv
<1>4. QuietMoves
  BY <1>1 DEF QuietMoves
<1>5. PICK t \in Seq(Ephemerons) :
         /\ IsList(t, link[Resolved], ResolvedNext)
         /\ \A e \in Ephemerons : Listed(t, e) <=> state[e] = "resolved"
  BY <1>1, <1>2, QuietLists
<1>6. link[Resolved] = Top(t) /\ t # <<>> /\ link[Resolved] \in Ephemerons
  <2>1. link[Resolved] = Top(t)
    BY <1>5 DEF IsList
  <2>2. QED
    BY <1>1, <2>1, TopIn
<1>7. /\ link' \in [Cells -> Ephs] /\ link'[Resolved] = NoRef
      /\ \A e \in Ephemerons : link'[ResolvedLink(e)] = link[ResolvedLink(e)]
      /\ \A b \in Buckets : link'[Bucket(b)] = link[Bucket(b)]
      /\ \A e \in Ephemerons : link'[PendingLink(e)] = link[PendingLink(e)]
  <2>1. link \in [Cells -> Ephs] /\ NoRef \in Ephs
    BY <1>2 DEF WeakTypes, Ephs
  <2>2. link' \in [Cells -> Ephs] /\ link'[Resolved] = NoRef
    BY <1>1, <2>1, CellsApart
  <2>3. \A c \in Cells : c # Resolved => link'[c] = link[c]
    BY <1>1, <2>1
  <2>4. QED
    BY <2>2, <2>3, CellsApart
<1>8. ResolvedIn(<<>>, t)'
  <2>1. PICK q : q = <<>>
    OBVIOUS
  <2>2. \A e : ~Listed(q, e)
    BY <2>1 DEF Listed
  <2>3. IsList(q, link'[Resolved], ResolvedNext')
    BY <1>7, <2>1 DEF IsList, Top
  <2>4. ResolvedNext' = ResolvedNext
    BY <1>7 DEF ResolvedNext
  <2>5. IsList(t, Top(t), ResolvedNext')
    BY <1>5, <1>6, <2>4
  <2>6. Ops' = {} /\ q \in Seq(Ephemerons)
    BY <1>1, <1>3, <2>1 DEF Ops
  <2>7. \A e \in Ephemerons : Listed(q, e) \/ Listed(t, e) <=> state'[e] = "resolved"
    BY <1>1, <1>5, <2>2
  <2>8. rootList' = {[kind |-> "resolved", obj |-> Top(t)]}
    BY <1>1, <1>6
  <2>9. ResolvedIn(q, t)'
    BY <1>6, <2>2, <2>3, <2>5, <2>6, <2>7, <2>8, ListsFrom
  <2>10. QED
    BY <2>1, <2>9
<1>9. \E q, u \in Seq(Ephemerons) : ResolvedIn(q, u)'
  <2>1. <<>> \in Seq(Ephemerons)
    OBVIOUS
  <2>2. QED
    BY <1>5, <1>8, <2>1
<1>10. \E r \in [Ephemerons -> Nat], n \in Nat : RankedBy(r, n)'
  <2>1. PICK r \in [Ephemerons -> Nat], n \in Nat : RankedBy(r, n)
    BY <1>2 DEF TraceInv
  <2>2. \A e \in Ephemerons : state[e] = "pending" => key[e] \notin markedObjects
    BY <1>1, <1>2, QuietAlive
  <2>3. RankedBy(r, n)'
    BY <1>1, <1>2, <1>3, <1>4, <1>7, <2>1, <2>2, QuietRanks
  <2>4. QED
    BY <2>1, <2>3
<1>11. RootsKept' /\ OnlyAlive'
  <2>1. RootsNow' = RootsNow
    BY <1>1, LivesSame DEF RootsNow, ObjectsOf
  <2>2. \A r \in rootList' : r.kind = "resolved"
    BY <1>1
  <2>3. QED
    BY <1>1, <1>2, <1>4, <2>1, <2>2, RoundSame
<1>12. Tables' /\ \E q \in Seq(Finalizers) : IsFired(q)'
  BY <1>1, <1>2, FinalizersKept
<1>13. /\ state' \in [Ephemerons -> {"traced", "claimed", "pending", "resolved"}] /\ rootList' \subseteq RootSet
       /\ table' \in [Priorities -> SUBSET Finalizers]
       /\ firedList' \in [Finalizers \cup {FiredHead} -> Finalizers \cup {NoRef}]
  <2>1. rootList' \subseteq RootSet
    BY <1>1, <1>6 DEF RootSet
  <2>2. QED
    BY <1>1, <1>2, <2>1 DEF WeakTypes
<1>14. phase' \in {"heap", "weak", "fin0", "fin1"} /\ phase # "done" /\ checkPending' = (phase' \in {"weak", "fin0", "fin1"})
  <2>1. phase \in {"weak", "fin0", "fin1"}
    BY <1>1 DEF Quiet, Tracing
  <2>2. checkPending = (phase \in {"weak", "fin0", "fin1", "done"})
    BY <1>2 DEF Phases
  <2>3. QED
    BY <1>1, <2>1, <2>2
<1>15. QED
  BY <1>1, <1>3, <1>4, <1>7, <1>9, <1>10, <1>11, <1>12, <1>13, <1>14, RoundKept

LEMMA RoundsAre ==
  ASSUME shape \in Shapes
  PROVE  /\ phase \in {"heap", "weak"} => AliveNow = Alive0
         /\ phase = "fin0" => AliveNow = Alive1
         /\ phase = "fin1" => AliveNow = Alive2
         /\ phase \in {"attach", "heap", "weak"} => FiredNow = {}
         /\ phase = "fin0" => FiredNow = Fired0
         /\ phase \in {"fin1", "done"} => FiredNow = Fired0 \cup Fired1
<1>1. phase \in {"heap", "weak"} => AliveNow = Alive0
  BY DEF AliveNow, RootsNow, Alive0
<1>2. phase = "fin0" => AliveNow = Alive1
  BY DEF AliveNow, RootsNow, Alive1, Fired0, ObjectsOf
<1>3. phase = "fin1" => AliveNow = Alive2
  BY DEF AliveNow, RootsNow, Alive2, Fired1, ObjectsOf
<1>4. QED
  BY <1>1, <1>2, <1>3 DEF FiredNow

Fires(p) == {f \in table[p] : shape.object[f] \notin markedObjects}
\* What is left in the table of priority p and has an object that does not live fires.
LEMMA FiresNow ==
  ASSUME WeakTypes, Phases, Tables, TraceInv, Quiet, link[Resolved] = NoRef, NEW p \in Priorities,
         phase = IF p = 0 THEN "weak" ELSE "fin0", NEW F, F = Fires(p)
  PROVE  /\ p = 0 => F = Fired0 /\ markedObjects = Alive0 /\ FiredNow = {}
         /\ p = 1 => F = Fired1 /\ markedObjects = Alive1 /\ FiredNow = Fired0
         /\ F \subseteq Finalizers /\ F \cap FiredNow = {}
         /\ \A e \in Ephemerons : state[e] \in {"traced", "pending"}
<1>1. p \in {0, 1} /\ phase \in {"weak", "fin0"} /\ phase # "attach" /\ phase # "heap" /\ shape \in Shapes
  BY DEF Priorities, WeakTypes
<1>2. markedObjects = AliveNow /\ \A e \in Ephemerons : state[e] \in {"traced", "pending"}
  BY <1>1, QuietAlive
<1>3. table[p] = Ofp(p) \ FiredNow
  BY <1>1 DEF Tables
<1>4. CASE p = 0
  <2>1. markedObjects = Alive0 /\ FiredNow = {}
    BY <1>1, <1>2, <1>4, RoundsAre
  <2>2. F = Fired0
    BY <1>3, <1>4, <2>1 DEF Fires, Ofp, Fired0, FiresAt
  <2>3. QED
    BY <1>2, <1>4, <2>1, <2>2 DEF Fired0, FiresAt
<1>5. CASE p = 1
  <2>1. markedObjects = Alive1 /\ FiredNow = Fired0
    BY <1>1, <1>2, <1>5, RoundsAre
  <2>2. Ofp(1) \cap Fired0 = {}
    BY DEF Ofp, Fired0, FiresAt
  <2>3. F = Fired1
    BY <1>3, <1>5, <2>1, <2>2 DEF Fires, Ofp, Fired1, FiresAt
  <2>4. QED
    BY <1>2, <1>5, <2>1, <2>2, <2>3 DEF Fired1, FiresAt, Ofp
<1>6. QED
  BY <1>1, <1>4, <1>5

LEMMA ResolveFinalizersKeeps ==
  ASSUME WeakInv, NEW p \in Priorities, ResolveFinalizers(p)
  PROVE  WeakInv'
<1>1. PICK F : F = Fires(p)
  OBVIOUS
<1>2. PICK s : s = SetToSeq(F)
  OBVIOUS
<1>3. /\ Quiet /\ link[Resolved] = NoRef
      /\ phase = IF p = 0 THEN "weak" ELSE "fin0"
      /\ phase' = IF p = 0 THEN "fin0" ELSE "fin1"
      /\ table' = [table EXCEPT ![p] = @ \ F]
      /\ firedList' = FireInto(s)
      /\ rootList' = {Root(shape.object[f]) : f \in F}
      /\ shape' = shape /\ key' = key /\ markedObjects' = markedObjects /\ greyObjects' = greyObjects
      /\ state' = state /\ link' = link /\ checkPending' = checkPending /\ work' = work /\ handed' = handed
  BY <1>1, <1>2 DEF Fires, ResolveFinalizers, weakHeapVars
<1>4. /\ WeakTypes /\ Phases /\ Tables /\ TraceInv /\ \E q \in Seq(Finalizers) : IsFired(q)
  BY <1>3 DEF WeakInv, Quiet
<1>5. p \in {0, 1} /\ phase \in {"weak", "fin0"} /\ phase' \in {"fin0", "fin1"} /\ shape \in Shapes /\ phase # "heap" /\ phase # "attach"
  BY <1>3, <1>4 DEF Priorities, WeakTypes
<1>6. Ops = {} /\ greyObjects = {} /\ rootList = {} /\ QueuedOnce /\ Claimed /\ Tricolor
  BY <1>3, <1>4, QuietOps DEF TraceInv
<1>7. QuietMoves /\ Ops' = {}
  <2>1. Ops' = {}
    BY <1>3, <1>6 DEF Ops
  <2>2. QED
    BY <1>3, <2>1 DEF QuietMoves
<1>8. /\ p = 0 => F = Fired0 /\ markedObjects = Alive0 /\ FiredNow = {}
      /\ p = 1 => F = Fired1 /\ markedObjects = Alive1 /\ FiredNow = Fired0
      /\ F \subseteq Finalizers /\ F \cap FiredNow = {}
      /\ \A e \in Ephemerons : state[e] \in {"traced", "pending"}
  BY <1>1, <1>3, <1>4, FiresNow
<1>9. /\ p = 0 => RootsNow' = Alive0 \cup ObjectsOf(Fired0) /\ FiredNow' = Fired0
      /\ p = 1 => RootsNow' = Alive1 \cup ObjectsOf(Fired1) /\ FiredNow' = Fired0 \cup Fired1
  <2>1. /\ Alive0' = Alive0 /\ Alive1' = Alive1 /\ Fired0' = Fired0 /\ Fired1' = Fired1
        /\ \A G : ObjectsOf(G)' = ObjectsOf(G)
    BY <1>3, LivesSame
  <2>2. CASE p = 0
    <3>1. phase' = "fin0"
      BY <1>3, <2>2
    <3>2. RootsNow' = Alive0' \cup ObjectsOf(Fired0)'
      BY <3>1 DEF RootsNow
    <3>3. ObjectsOf(Fired0)' = ObjectsOf(Fired0)
      BY <1>3, <2>1 DEF ObjectsOf
    <3>4. FiredNow' = Fired0'
      BY <3>1 DEF FiredNow
    <3>5. QED
      BY <2>1, <2>2, <3>2, <3>3, <3>4
  <2>3. CASE p = 1
    <3>1. phase' = "fin1"
      BY <1>3, <2>3
    <3>2. RootsNow' = Alive1' \cup ObjectsOf(Fired1)'
      BY <3>1 DEF RootsNow
    <3>3. ObjectsOf(Fired1)' = ObjectsOf(Fired1)
      BY <1>3, <2>1 DEF ObjectsOf
    <3>4. FiredNow' = Fired0' \cup Fired1'
      BY <3>1 DEF FiredNow
    <3>5. QED
      BY <2>1, <2>3, <3>2, <3>3, <3>4
  <2>4. QED
    BY <1>5, <2>2, <2>3
<1>10. FiredNow' = FiredNow \cup F /\ RootsNow' = markedObjects \cup ObjectsOf(F)
  BY <1>5, <1>8, <1>9
<1>11. /\ s \in Seq(Finalizers) /\ (\A i, j \in DOMAIN s : s[i] = s[j] => i = j)
       /\ \A f : Listed(s, f) <=> f \in F
  <2>1. IsFiniteSet(F)
    BY <1>8, FS_Subset, WeakAssumption
  <2>2. s \in Seq(F) /\ (\A i, j \in DOMAIN s : s[i] = s[j] => i = j) /\ \A f : Listed(s, f) <=> f \in F
    BY <1>2, <2>1, SetToSeqFacts
  <2>3. s \in Seq(Finalizers)
    BY <1>8, <2>2
  <2>4. QED
    BY <2>2, <2>3
<1>12. /\ firedList' \in [Finalizers \cup {FiredHead} -> Finalizers \cup {NoRef}]
       /\ Linked(s, firedList'[FiredHead], firedList[FiredHead], firedList')
       /\ \A f \in Finalizers : ~Listed(s, f) => firedList'[f] = firedList[f]
  <2>1. PICK G : G = FireInto(s)
    OBVIOUS
  <2>2. firedList' = G
    BY <1>3, <2>1
  <2>3. /\ G \in [Finalizers \cup {FiredHead} -> Finalizers \cup {NoRef}]
        /\ Linked(s, G[FiredHead], firedList[FiredHead], G)
        /\ \A f \in Finalizers : ~Listed(s, f) => G[f] = firedList[f]
    <3>1. WeakTypes /\ s \in Seq(Finalizers) /\ \A i, j \in DOMAIN s : s[i] = s[j] => i = j
      BY <1>4, <1>11
    <3>2. QED
      BY <2>1, <3>1, FireChain
  <2>4. QED
    BY <2>2, <2>3
<1>13. \E r \in Seq(Finalizers) : IsFired(r)'
  <2>1. PICK q \in Seq(Finalizers) : IsFired(q)
    BY <1>4
  <2>2. /\ IsList(q, firedList[FiredHead], firedList)
        /\ \A i, j \in DOMAIN handed : handed[i] = handed[j] => i = j
        /\ \A f \in Finalizers : ~(Listed(q, f) /\ Listed(handed, f))
        /\ \A f \in Finalizers : f \in FiredNow <=> Listed(q, f) \/ Listed(handed, f)
    BY <2>1 DEF IsFired
  <2>3. \A x : Listed(q, x) => x \in Finalizers
    BY TopIn
  <2>4. \A x : ~(Listed(q, x) /\ Listed(s, x))
    BY <1>8, <1>11, <2>2, <2>3
  <2>5. PICK f, g, c, d : f = firedList /\ g = firedList' /\ c = firedList[FiredHead] /\ d = firedList'[FiredHead]
    OBVIOUS
  <2>6. IsList(q, c, f) /\ \A x : Listed(q, x) => g[x] = f[x]
    BY <1>12, <2>2, <2>3, <2>4, <2>5
  <2>7. Linked(s, d, c, g)
    BY <1>12, <2>5
  <2>8. PICK r \in Seq(Finalizers) : IsList(r, d, g) /\ \A x : Listed(r, x) <=> Listed(q, x) \/ Listed(s, x)
    BY <1>11, <2>4, <2>6, <2>7, ChainOnto
  <2>9. IsList(r, firedList'[FiredHead], firedList') /\ \A x : Listed(r, x) <=> Listed(q, x) \/ x \in F
    BY <1>11, <2>5, <2>8
  <2>10. IsList(r, firedList[FiredHead], firedList)'
    BY <2>9 DEF IsList, Top
  <2>11. \A x \in Finalizers : ~(Listed(r, x) /\ Listed(handed, x))
    BY <1>8, <2>2, <2>9
  <2>12. \A x \in Finalizers : x \in FiredNow' <=> Listed(r, x) \/ Listed(handed, x)
    BY <1>10, <2>2, <2>9
  <2>13. \A x : (Listed(r, x)' <=> Listed(r, x)) /\ (Listed(handed, x)' <=> Listed(handed, x))
    BY <1>3 DEF Listed
  <2>14. IsFired(r)'
    BY <1>3, <2>2, <2>10, <2>11, <2>12, <2>13 DEF IsFired
  <2>15. QED
    BY <2>8, <2>14
<1>14. Tables' /\ table' \in [Priorities -> SUBSET Finalizers]
  <2>1. \A g : Ofp(g)' = Ofp(g)
    BY <1>3, LivesSame
  <2>2. table \in [Priorities -> SUBSET Finalizers]
    BY <1>4 DEF WeakTypes
  <2>3. \A g \in Priorities : table'[g] = IF g = p THEN table[g] \ F ELSE table[g]
    BY <1>3, <2>2
  <2>4. \A g \in Priorities : g # p => F \cap Ofp(g) = {}
    BY <1>1, <1>4 DEF Tables, Ofp, Fires
  <2>5. \A g \in Priorities : table[g] = Ofp(g) \ FiredNow
    BY <1>4, <1>5 DEF Tables
  <2>6. \A g \in Priorities : table'[g] = Ofp(g) \ FiredNow'
    BY <1>10, <2>3, <2>4, <2>5
  <2>7. Tables'
    BY <2>1, <2>6 DEF Tables
  <2>8. table' \in [Priorities -> SUBSET Finalizers]
    BY <1>3, <2>2
  <2>9. QED
    BY <2>7, <2>8
<1>15. /\ ObjectsOf(F) \subseteq Objects /\ rootList' \subseteq RootSet
       /\ \A r \in rootList' : r.kind = "edge" /\ r.obj \in ObjectsOf(F)
       /\ \A o \in ObjectsOf(F) : Root(o) \in rootList'
  <2>1. shape.object \in [Finalizers -> Objects]
    BY <1>5, HeapTypes
  <2>2. PICK O : O = ObjectsOf(F)
    OBVIOUS
  <2>3. O \subseteq Objects
    BY <1>8, <2>1, <2>2 DEF ObjectsOf
  <2>4. rootList' = {Root(o) : o \in O}
    BY <1>3, <2>2 DEF ObjectsOf
  <2>5. QED
    BY <2>2, <2>3, <2>4, EdgesOk
<1>16. RootsKept'
  <2>1. \A o \in RootsNow' : o \in markedObjects \/ Root(o) \in rootList'
    BY <1>10, <1>15
  <2>2. \A o \in RootsNow' : Seen(o)' \/ Root(o) \in rootList'
    BY <1>3, <2>1 DEF Seen
  <2>3. QED
    BY <2>2 DEF RootsKept, Root
<1>17. OnlyAlive'
  <2>1. PICK O : O = markedObjects \cup ObjectsOf(F)
    OBVIOUS
  <2>2. O \subseteq Objects
    BY <1>4, <1>15, <2>1 DEF WeakTypes
  <2>3. O \subseteq LivesWith(O)
    BY <1>5, <2>2, Lives
  <2>4. AliveNow' = LivesWith(O)
    <3>1. RootsNow' = O
      BY <1>10, <2>1
    <3>2. QED
      BY <1>3, <3>1 DEF AliveNow, LivesWith, ClosedSet
  <2>5. markedObjects' \subseteq AliveNow'
    BY <1>3, <2>1, <2>3, <2>4
  <2>6. \A r \in rootList' : r.kind = "edge" => r.obj \in AliveNow'
    BY <1>15, <2>1, <2>3, <2>4
  <2>7. QED
    BY <1>7, <2>5, <2>6 DEF OnlyAlive
<1>18. \E q, t \in Seq(Ephemerons) : ResolvedIn(q, t)'
  <2>1. PICK q \in Seq(Ephemerons) :
          /\ IsList(q, link[Resolved], ResolvedNext)
          /\ \A e \in Ephemerons : Listed(q, e) <=> state[e] = "resolved"
    BY <1>3, <1>4, QuietLists
  <2>2. PICK t : t = <<>>
    OBVIOUS
  <2>3. t \in Seq(Ephemerons) /\ \A e : ~Listed(t, e)
    BY <2>2 DEF Listed
  <2>4. ResolvedNext' = ResolvedNext
    BY <1>3 DEF ResolvedNext
  <2>5. IsList(q, link'[Resolved], ResolvedNext')
    BY <1>3, <2>1, <2>4
  <2>6. IsList(t, Top(t), ResolvedNext')
    BY <2>2 DEF IsList
  <2>7. \A e \in Ephemerons : Listed(q, e) \/ Listed(t, e) <=> state'[e] = "resolved"
    BY <1>3, <2>1, <2>3
  <2>8. \A r \in rootList' : r.kind = "edge"
    BY <1>15
  <2>9. ResolvedIn(q, t)'
    BY <1>7, <2>2, <2>3, <2>5, <2>6, <2>7, <2>8, ListsFrom
  <2>10. QED
    BY <2>1, <2>3, <2>9
<1>19. \E r \in [Ephemerons -> Nat], n \in Nat : RankedBy(r, n)'
  <2>1. PICK r \in [Ephemerons -> Nat], n \in Nat : RankedBy(r, n)
    BY <1>4 DEF TraceInv
  <2>2. \A e \in Ephemerons : state[e] = "pending" => key[e] \notin markedObjects
    BY <1>3, <1>4, <1>5, QuietAlive
  <2>3. RankedBy(r, n)'
    BY <1>3, <1>4, <1>6, <1>7, <2>1, <2>2, QuietRanks
  <2>4. QED
    BY <2>1, <2>3
<1>20. /\ state' \in [Ephemerons -> {"traced", "claimed", "pending", "resolved"}] /\ link' \in [Cells -> Ephs]
  BY <1>3, <1>4 DEF WeakTypes
<1>21. phase' \in {"heap", "weak", "fin0", "fin1"} /\ phase # "done" /\ checkPending' = (phase' \in {"weak", "fin0", "fin1"})
  <2>1. phase' \in {"weak", "fin0", "fin1"} /\ phase # "done" /\ phase \in {"weak", "fin0", "fin1", "done"}
    BY <1>5
  <2>2. checkPending = (phase \in {"weak", "fin0", "fin1", "done"})
    BY <1>4 DEF Phases
  <2>3. QED
    BY <1>3, <2>1, <2>2
<1>22. QED
  BY <1>3, <1>6, <1>7, <1>12, <1>13, <1>14, <1>15, <1>16, <1>17, <1>18, <1>19, <1>20, <1>21, RoundKept

LEMMA SweepKeeps ==
  ASSUME WeakInv, SweepEphemerons
  PROVE  WeakInv'
<1>1. PICK dead : dead = {e \in Ephemerons : state[e] = "pending"}
  OBVIOUS
<1>2. /\ Quiet /\ phase = "fin1" /\ link[Resolved] = NoRef /\ phase' = "done"
      /\ key' = [e \in Ephemerons |-> IF e \in dead THEN NoRef ELSE key[e]]
      /\ state' = [e \in Ephemerons |-> IF e \in dead THEN "traced" ELSE state[e]]
      /\ link' = [c \in Cells |-> IF c \in {Bucket(b) : b \in Buckets} THEN NoRef ELSE link[c]]
      /\ shape' = shape /\ markedObjects' = markedObjects /\ greyObjects' = greyObjects
      /\ checkPending' = checkPending /\ rootList' = rootList /\ work' = work
      /\ table' = table /\ firedList' = firedList /\ handed' = handed
  BY <1>1 DEF SweepEphemerons, finVars
<1>3. /\ WeakTypes /\ Phases /\ Tables /\ TraceInv /\ \E q \in Seq(Finalizers) : IsFired(q)
  BY <1>2 DEF WeakInv, Quiet
<1>4. Ops = {} /\ greyObjects = {} /\ rootList = {} /\ Tricolor
  BY <1>2, <1>3, QuietOps DEF TraceInv
<1>5. Ops' = {}
  BY <1>2, <1>4 DEF Ops
<1>6. /\ \A e \in Ephemerons : state[e] = "pending" => key[e] \notin markedObjects
      /\ markedObjects = AliveNow /\ \A e \in Ephemerons : state[e] \in {"traced", "pending"}
  BY <1>2, <1>3, QuietAlive
<1>7. shape \in Shapes /\ key = shape.key /\ markedObjects = Alive2 /\ Alive2' = Alive2
  <2>1. shape \in Shapes /\ key = shape.key
    BY <1>2, <1>3 DEF WeakTypes, Phases
  <2>2. AliveNow = Alive2
    BY <1>2, <2>1, RoundsAre
  <2>3. QED
    BY <1>2, <1>6, <2>1, <2>2, LivesSame
<1>8. \A e \in Ephemerons \cap markedObjects : state[e] = "traced" => key[e] \in markedObjects
  <2>1. \A o : Started(o) <=> o \in markedObjects
    BY <1>3, <1>4, NoOps
  <2>2. SUFFICES ASSUME NEW e \in Ephemerons, e \in markedObjects, state[e] = "traced" PROVE key[e] \in markedObjects
    OBVIOUS
  <2>3. e \in Objects
    BY DEF Objects
  <2>4. Black(e)
    BY <1>4, <2>1, <2>2, <2>3 DEF Tricolor
  <2>5. QED
    BY <2>2, <2>4 DEF Black
<1>9. MarkedIsAlive'
  <2>1. \A e \in Ephemerons : state'[e] = "traced"
    BY <1>1, <1>2, <1>6
  <2>2. \A e \in Ephemerons : key'[e] = IF state[e] = "pending" THEN NoRef ELSE key[e]
    BY <1>1, <1>2
  <2>3. \A e \in Ephemerons \cap Alive2 : key'[e] = IF shape.key[e] \in Alive2 THEN shape.key[e] ELSE NoRef
    BY <1>6, <1>7, <1>8, <2>2
  <2>4. \A b \in Buckets : link'[Bucket(b)] = NoRef
    BY <1>2, CellsApart
  <2>5. link'[Resolved] = NoRef
    BY <1>2, CellsApart
  <2>6. QED
    BY <1>2, <1>7, <2>1, <2>3, <2>4, <2>5 DEF MarkedIsAlive
<1>10. WeakTypes'
  <2>1. link \in [Cells -> Ephs] /\ NoRef \in Ephs
    BY <1>3 DEF WeakTypes, Ephs
  <2>2. link' \in [Cells -> Ephs]
    BY <1>2, <2>1
  <2>3. key' \in [Ephemerons -> Objects \cup {NoRef}]
    BY <1>2, <1>3 DEF WeakTypes
  <2>4. state' \in [Ephemerons -> {"traced", "claimed", "pending", "resolved"}]
    BY <1>2, <1>3 DEF WeakTypes
  <2>5. QED
    BY <1>2, <1>3, <2>2, <2>3, <2>4 DEF WeakTypes
<1>11. Phases'
  <2>1. checkPending = (phase \in {"weak", "fin0", "fin1", "done"})
    BY <1>3 DEF Phases
  <2>2. checkPending = TRUE
    BY <1>2, <2>1
  <2>3. (phase' \in {"weak", "fin0", "fin1", "done"}) = TRUE
    BY <1>2
  <2>4. checkPending' = (phase' \in {"weak", "fin0", "fin1", "done"})
    BY <1>2, <2>2, <2>3
  <2>5. QED
    BY <1>2, <1>4, <1>5, <2>4 DEF Phases
<1>12. Tables' /\ \E q \in Seq(Finalizers) : IsFired(q)'
  <2>1. PICK q \in Seq(Finalizers) : IsFired(q)
    BY <1>3
  <2>2. Fired0' = Fired0 /\ Fired1' = Fired1
    BY <1>2, LivesSame
  <2>3. FiredNow' = FiredNow
    BY <1>2, <2>2 DEF FiredNow
  <2>4. Tables' /\ IsFired(q)'
    BY <1>2, <1>3, <2>1, <2>3, FiredSame
  <2>5. QED
    BY <2>1, <2>4
<1>13. QED
  BY <1>2, <1>9, <1>10, <1>11, <1>12 DEF WeakInv, Tracing

-------------------------------------------------------------------------------
(* The theorems *)

LEMMA WeakInitial ==
  ASSUME WeakInit
  PROVE  WeakInv
<1>1. /\ shape \in Shapes /\ key = shape.key /\ markedObjects = {} /\ greyObjects = {}
      /\ state = [e \in Ephemerons |-> "traced"] /\ link = [c \in Cells |-> NoRef]
      /\ checkPending = FALSE /\ rootList = {} /\ work = [w \in Workers |-> <<>>]
      /\ table = [p \in Priorities |-> {}]
      /\ firedList = [c \in Finalizers \cup {FiredHead} |-> NoRef]
      /\ handed = <<>> /\ phase = "attach"
  BY DEF WeakInit
<1>2. Ops = {}
  BY <1>1 DEF Ops
<1>3. WeakTypes
  <2>1. shape.key \in [Ephemerons -> Objects]
    BY <1>1, HeapTypes
  <2>2. key \in [Ephemerons -> Objects \cup {NoRef}]
    BY <1>1, <2>1
  <2>3. link \in [Cells -> Ephs] /\ state \in [Ephemerons -> {"traced", "claimed", "pending", "resolved"}]
    BY <1>1 DEF Ephs
  <2>4. work \in [Workers -> Seq(OpSet)] /\ handed \in Seq(Finalizers)
    <3>1. <<>> \in Seq(OpSet) /\ <<>> \in Seq(Finalizers)
      OBVIOUS
    <3>2. QED
      BY <1>1, <3>1
  <2>5. /\ table \in [Priorities -> SUBSET Finalizers]
        /\ firedList \in [Finalizers \cup {FiredHead} -> Finalizers \cup {NoRef}]
    BY <1>1
  <2>6. checkPending \in BOOLEAN /\ rootList \subseteq RootSet /\ markedObjects \subseteq Objects /\ greyObjects \subseteq markedObjects
    BY <1>1
  <2>7. phase \in {"attach", "heap", "weak", "fin0", "fin1", "done"}
    BY <1>1
  <2>8. QED
    BY <1>1, <2>2, <2>3, <2>4, <2>5, <2>6, <2>7 DEF WeakTypes
<1>4. Phases
  <2>1. (phase \in {"weak", "fin0", "fin1", "done"}) = FALSE
    BY <1>1
  <2>2. checkPending = (phase \in {"weak", "fin0", "fin1", "done"})
    BY <1>1, <2>1
  <2>3. QED
    BY <1>1, <1>2, <2>2 DEF Phases
<1>5. Tables
  BY <1>1 DEF Tables
<1>6. \E q \in Seq(Finalizers) : IsFired(q)
  <2>1. PICK q : q = <<>>
    OBVIOUS
  <2>2. q \in Seq(Finalizers) /\ \A f : ~Listed(q, f)
    BY <2>1 DEF Listed
  <2>3. IsList(q, firedList[FiredHead], firedList)
    BY <1>1, <2>1 DEF IsList, Top
  <2>4. FiredNow = {}
    BY <1>1 DEF FiredNow
  <2>5. handed = q
    BY <1>1, <2>1
  <2>6. \A i, j \in DOMAIN handed : handed[i] = handed[j] => i = j
    BY <1>1
  <2>7. IsFired(q)
    BY <2>2, <2>3, <2>4, <2>5, <2>6 DEF IsFired
  <2>8. QED
    BY <2>2, <2>7
<1>7. MarkedIsAlive /\ ~Tracing
  BY <1>1 DEF MarkedIsAlive, Tracing
<1>8. QED
  BY <1>3, <1>4, <1>5, <1>6, <1>7 DEF WeakInv

\* What is untouched is kept.
LEMMA StutterKeeps ==
  ASSUME WeakInv, shape' = shape, key' = key, markedObjects' = markedObjects, greyObjects' = greyObjects,
         state' = state, link' = link, checkPending' = checkPending, rootList' = rootList, work' = work,
         table' = table, firedList' = firedList, handed' = handed, phase' = phase
  PROVE  WeakInv'
<1>1. WeakTypes /\ Phases /\ Tables /\ \E q \in Seq(Finalizers) : IsFired(q)
  BY DEF WeakInv
<1>2. WeakTypes'
  BY <1>1 DEF WeakTypes
<1>3. /\ Ops' = Ops /\ (Tracing' <=> Tracing)
      /\ \A o : BucketFor(o)' = BucketFor(o)
  BY DEF Ops, Tracing, BucketFor
<1>4. Phases'
  BY <1>1, <1>3 DEF Phases
<1>5. Tables' /\ \E q \in Seq(Finalizers) : IsFired(q)'
  BY <1>1, FinalizersKept
<1>6. MarkedIsAlive'
  BY EndKept DEF WeakInv
<1>7. (\A K, o : HasOp(K, o)' <=> HasOp(K, o)) /\ \A S : Once(S)' <=> Once(S)
  BY <1>3 DEF HasOp, Once
<1>8. \A o : (Seen(o)' <=> Seen(o)) /\ (Started(o)' <=> Started(o))
  BY <1>7 DEF Seen, Started
<1>9. ASSUME TraceInv PROVE TraceInv'
  <2>1. /\ QueuedOnce /\ Claimed /\ Pushed /\ Tricolor /\ RootsKept /\ OnlyAlive
    BY <1>9 DEF TraceInv
  <2>2. \A K, o : Once(Of(K, o))' <=> Once(Of(K, o))
    <3>1. SUFFICES ASSUME NEW K, NEW o PROVE Once(Of(K, o))' <=> Once(Of(K, o))
      OBVIOUS
    <3>2. PICK S : S = Of(K, o)
      OBVIOUS
    <3>3. Once(S)' <=> Once(S)
      BY <1>7
    <3>4. QED
      BY <3>2, <3>3 DEF Of, OpSet
  <2>3. QueuedOnce'
    BY <1>7, <1>8, <2>1, <2>2 DEF QueuedOnce
  <2>4. Claimed'
    BY <1>7, <1>8, <2>1, <2>2 DEF Claimed
  <2>5. Pushed'
    BY <1>3, <1>7, <2>1, <2>2 DEF Pushed
  <2>6. Tricolor'
    BY <1>8, <2>1 DEF Tricolor, Black
  <2>7. RootsNow' = RootsNow /\ AliveNow' = AliveNow
    <3>1. RootsNow' = RootsNow
      BY DEF RootsNow, Alive0, Alive1, Fired0, Fired1, FiresAt, ObjectsOf, LivesWith, ClosedSet
    <3>2. QED
      BY <3>1 DEF AliveNow, LivesWith, ClosedSet
  <2>8. RootsKept' /\ OnlyAlive'
    BY <1>3, <1>8, <2>1, <2>7 DEF RootsKept, OnlyAlive
  <2>9. \E q, t \in Seq(Ephemerons) : ResolvedIn(q, t)'
    <3>1. PICK q \in Seq(Ephemerons), t \in Seq(Ephemerons) : ResolvedIn(q, t)
      BY <1>9 DEF TraceInv
    <3>2. ListsStay(q, t)
      <4>1. /\ \A e \in Ephemerons : Listed(q, e) \/ Listed(t, e) =>
                 state[e] = "resolved" /\ ~HasOp({"setTraced"} \cup Pushes, e)
            /\ \A e \in Ephemerons : state[e] = "resolved" =>
                 Listed(q, e) \/ Listed(t, e) \/ HasOp({"setTraced"} \cup Pushes, e)
            /\ \A x \in Ops : x.op = "nextResolved" => state[x.obj] = "traced" \/ HasOp({"setTraced"}, x.obj)
        BY <3>1 DEF ResolvedIn
      <4>2. Once({x \in OpSet : x.op = "nextResolved"})'
        <5>1. PICK S : S = {x \in OpSet : x.op = "nextResolved"}
          OBVIOUS
        <5>2. Once(S)
          BY <3>1, <5>1 DEF ResolvedIn
        <5>3. Once(S)'
          BY <1>7, <5>2
        <5>4. QED
          BY <5>1, <5>3 DEF OpSet
      <4>3. QED
        BY <1>3, <1>7, <4>1, <4>2 DEF ListsStay
    <3>3. ResolvedIn(q, t)'
      BY <1>1, <3>1, <3>2, ResolvedKept
    <3>4. QED
      BY <3>1, <3>3
  <2>10. \E r \in [Ephemerons -> Nat], n \in Nat : RankedBy(r, n)'
    <3>1. PICK r \in [Ephemerons -> Nat], n \in Nat : RankedBy(r, n)
      BY <1>9 DEF TraceInv
    <3>2. Ranked(r, n) /\ Rechecked(r) /\ Links(r, n) /\ Cares(r)
      BY <3>1 DEF RankedBy
    <3>3. Ranked(r, n)'
      BY <1>7, <1>8, <3>2 DEF Ranked
    <3>4. Rechecked(r)'
      BY <3>2 DEF Rechecked
    <3>5. StateKept(r)
      BY DEF StateKept
    <3>6. Links(r, n)'
      BY <1>3, <3>2, <3>5, LinksFrom
    <3>7. Cares(r)'
      BY <1>3, <1>7, <3>2 DEF Cares, Cared, Toward
    <3>8. QED
      BY <3>1, <3>3, <3>4, <3>6, <3>7 DEF RankedBy
  <2>11. QED
    BY <2>3, <2>4, <2>5, <2>6, <2>8, <2>9, <2>10 DEF TraceInv
<1>10. QED
  BY <1>2, <1>3, <1>4, <1>5, <1>6, <1>9 DEF WeakInv

LEMMA WeakNextKeeps ==
  ASSUME WeakInv, [WeakNext]_weakVars
  PROVE  WeakInv'
<1>1. CASE CollectorStep
  <2>1. ASSUME NEW f \in Finalizers, Attach(f) PROVE WeakInv'
    BY <2>1, AttachKeeps
  <2>2. CASE StartTrace
    BY <2>2, StartTraceKeeps
  <2>3. CASE ResolveEagerly
    BY <2>3, ResolveEagerlyKeeps
  <2>4. CASE PopResolved
    BY <2>4, PopResolvedKeeps
  <2>5. CASE SweepEphemerons
    BY <2>5, SweepKeeps
  <2>6. ASSUME NEW p \in Priorities, ResolveFinalizers(p) PROVE WeakInv'
    BY <2>6, ResolveFinalizersKeeps
  <2>7. QED
    BY <1>1, <2>1, <2>2, <2>3, <2>4, <2>5, <2>6 DEF CollectorStep
<1>2. ASSUME NEW w \in Workers, WorkerStep(w) PROVE WeakInv'
  <2>1. TraceStep(w) \/ PopRead(w) \/ PopSwap(w)
    BY <1>2 DEF WorkerStep, TraceStep
  <2>2. QED
    BY <2>1, TraceKeeps, PopReadKeeps, PopSwapKeeps
<1>3. CASE UNCHANGED weakVars
  <2>1. /\ shape' = shape /\ key' = key /\ markedObjects' = markedObjects /\ greyObjects' = greyObjects
        /\ state' = state /\ link' = link /\ checkPending' = checkPending /\ rootList' = rootList
        /\ work' = work /\ table' = table /\ firedList' = firedList /\ handed' = handed /\ phase' = phase
    BY <1>3 DEF weakVars, weakHeapVars, traceVars, finVars
  <2>2. QED
    BY <2>1, StutterKeeps
<1>4. QED
  BY <1>1, <1>2, <1>3 DEF WeakNext

\* The invariant holds throughout.
THEOREM WeakSafe == WeakSpec => []WeakInv
<1>1. WeakInit => WeakInv
  BY WeakInitial
<1>2. WeakInv /\ [WeakNext]_weakVars => WeakInv'
  BY WeakNextKeeps
<1>3. QED
  BY <1>1, <1>2, PTL DEF WeakSpec

\* At the end what is marked is what lives, an ephemeron is dead just when its key is, and none is left claimed, pending
\* or resolved, in whatever order the tracers publish, mark and look (gc-ephemeron.c:514-581).
THEOREM MarkedIsAliveSafe == WeakSpec => []MarkedIsAlive
<1>1. WeakInv => MarkedIsAlive
  BY DEF WeakInv
<1>2. QED
  BY <1>1, WeakSafe, PTL

\* What fires is what nothing reaches that lives or fired before, and it is handed out once (gc-finalizer.c:258-292,
\* 142-149).
THEOREM FiredOnceSafe == WeakSpec => []FiredOnce
<1>1. ASSUME WeakInv PROVE FiredOnce
  <2>1. WeakTypes /\ Phases
    BY <1>1 DEF WeakInv
  <2>2. PICK q \in Seq(Finalizers) : IsFired(q)
    BY <1>1 DEF WeakInv
  <2>3. /\ IsList(q, firedList[FiredHead], firedList)
        /\ \A i, j \in DOMAIN handed : handed[i] = handed[j] => i = j
        /\ \A f \in Finalizers : f \in FiredNow <=> Listed(q, f) \/ Listed(handed, f)
    BY <2>2 DEF IsFired
  <2>4. handed \in Seq(Finalizers) /\ shape \in Shapes
    BY <2>1 DEF WeakTypes
  <2>5. PICK fired : fired = Fired0 \cup Fired1
    OBVIOUS
  <2>6. FiredNow \subseteq fired /\ fired \subseteq Finalizers /\ (phase = "done" => FiredNow = fired)
    <3>1. phase \in {"attach", "heap", "weak", "fin0", "fin1", "done"}
      BY <2>1 DEF WeakTypes
    <3>2. fired \subseteq Finalizers
      BY <2>5 DEF Fired0, Fired1, FiresAt
    <3>3. QED
      BY <2>4, <2>5, <3>1, <3>2, RoundsAre
  <2>7. \A i \in DOMAIN handed : handed[i] \in fired
    <3>1. \A i \in DOMAIN handed : handed[i] \in Finalizers /\ Listed(handed, handed[i])
      BY <2>4 DEF Listed
    <3>2. QED
      BY <2>3, <2>6, <3>1
  <2>8. ASSUME phase = "done", firedList[FiredHead] = NoRef PROVE ToSet(handed) = fired
    <3>1. q = <<>>
      <4>1. NoRef = Top(q)
        BY <2>3, <2>8 DEF IsList
      <4>2. q # <<>> => Top(q) \in Finalizers
        BY TopIn
      <4>3. NoRef \notin Finalizers
        BY WeakAssumption DEF Objects
      <4>4. QED
        BY <4>1, <4>2, <4>3
    <3>2. \A f \in Finalizers : f \in fired <=> Listed(handed, f)
      BY <2>3, <2>6, <2>8, <3>1 DEF Listed
    <3>3. \A f : f \in ToSet(handed) <=> Listed(handed, f)
      BY DEF ToSet, Listed
    <3>4. \A f : Listed(handed, f) => f \in Finalizers
      BY <2>4, TopIn
    <3>5. QED
      BY <2>6, <3>2, <3>3, <3>4
  <2>9. fired = FiresAt(0, Alive0) \cup FiresAt(1, Alive1)
    BY <2>5 DEF Fired0, Fired1
  <2>10. QED
    BY <2>3, <2>7, <2>8, <2>9 DEF FiredOnce
<1>2. QED
  BY <1>1, WeakSafe, PTL
===============================================================================
