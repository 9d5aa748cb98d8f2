------------------------------- MODULE PccProofs -------------------------------
(***************************************************************************)
(* Tracers that meet at an object make one copy of it, for every number of *)
(* mutators, tracers and objects, every size of regions and heap, and      *)
(* every number of collections.                                            *)
(***************************************************************************)
EXTENDS Pcc, FiniteSetTheorems, TLAPS

-------------------------------------------------------------------------------
(* The inductive invariant *)

Labels ==
  {"run", "alloc", "allocEmpty", "readPending", "pageOut", "allocLarge", "trigger",
   "triggered", "safepoint", "leaving", "inactive", "paused", "stopping", "tracing",
   "resize", "resolve", "parked", "idle", "begin", "acquire", "busy", "commitTag",
   "commit", "update", "dead"}
\* whom pause_mutator_for_collection and the collecting thread count
Stopped == {"paused", "stopping", "tracing", "resize", "resolve"}
Control == {"stopping", "tracing", "resize", "resolve"}
\* a tracer that has a root to a small object in hand
Moving == {"begin", "acquire", "busy", "alloc", "allocEmpty", "commitTag", "commit", "update"}
\* one that has made the object busy
Owning == {"alloc", "allocEmpty", "commitTag", "commit"}

\* words of objects that were allocated or copied to the copy space
IsAddress(w) == w.region \in {0, 1}

Fields == {"empty", "partly", "full", "out", "pending", "allocated", "fragmentation",
           "last", "active", "inGc", "slabs", "inCore", "zeroes", "used"}
IsSpace(s) == s = [f \in Fields |-> s[f]] /\ s["active"] \in {0, 1}

PccTypes ==
  /\ pc \in [Threads -> Labels]
  /\ want \in [Threads -> Objects \cup {None}]
  /\ collecting \in BOOLEAN /\ paused \in Int /\ inactive \in Int
  /\ IsSpace(space)
  /\ slot = [m \in Mutators |-> [o \in Objects |-> slot[m][o]]]
  /\ at = [o \in Objects |-> at[o]] /\ tag = [o \in Objects |-> tag[o]]
  /\ copy = [o \in Objects |-> [at |-> copy[o].at, tag |-> copy[o].tag]]
  /\ copies \in [Objects -> Nat]
  /\ edges \subseteq Mutators \X Objects
  /\ edge = [t \in Tracers |-> edge[t]]

InState(S) == {m \in Mutators : pc[m] \in S}
Num(S) == Cardinality(InState(S))
Tracing == \E m \in Mutators : pc[m] = "tracing"

\* the counters count, one thread controls a collection, and while it traces
\* no mutator does anything
Handshake ==
  /\ paused = Num(Stopped) /\ inactive = Num({"inactive"})
  /\ collecting <=> InState(Control) # {}
  /\ \A m, k \in InState(Control) : m = k
  /\ \A m \in Mutators : pc[m] = "tracing" =>
       \A k \in Mutators \ {m} : pc[k] \in {"paused", "inactive"}

\* an object that is asked for is nobody's, and asked for by one thread
Requests ==
  \A m \in Mutators :
    /\ want[m] # None =>
         /\ \A k \in Mutators : slot[k][want[m]] = Nowhere
         /\ \A k \in Mutators : want[k] = want[m] => k = m
    /\ pc[m] \in {"alloc", "allocEmpty"} => want[m] \in Small
    /\ pc[m] \in {"readPending", "pageOut", "allocLarge"} => want[m] \in Large

LargeStay ==
  \A o \in Large : /\ at[o] \in {Nowhere, InLarge}
                   /\ \A m \in Mutators : slot[m][o] \in {Nowhere, InLarge}

\* between collections every root holds where its object is
Rest ==
  ~Tracing =>
    /\ \A t \in Tracers : pc[t] = "parked"
    /\ edges = {}
    /\ \A o \in Objects : tag[o] = Live /\ copy[o] = NoCopy
    /\ \A m \in Mutators : \A o \in Objects : slot[m][o] \in {Nowhere, at[o]}

Forwarded(o) == tag[o] \notin {Live, Busy}
\* the root of mutator m to object o has been traced
Done(m, o) ==
  IF o \in Large THEN o \in lmarked ELSE Forwarded(o) /\ slot[m][o] = copy[o].at
InHand(m, o) == \E t \in Tracers : pc[t] \in Moving /\ edge[t] = <<m, o>>

\* every root is still to be traced, in a tracer's hand, or traced
RootsTraced ==
  Tracing =>
    /\ \A m \in Mutators : \A o \in Objects :
         slot[m][o] # Nowhere => <<m, o>> \in edges \/ InHand(m, o) \/ Done(m, o)
    /\ \A e \in edges : slot[e[1]][e[2]] # Nowhere
    /\ \A t \in Tracers : pc[t] \in Moving =>
         edge[t] \in Mutators \X Small /\ slot[edge[t][1]][edge[t][2]] # Nowhere

\* the forwarding word goes from live to busy to an address, and whoever made
\* it busy makes the copy
Forwarding ==
  /\ Tracing => \A o \in Small : tag[o] = Live => copies[o] = 0
  /\ \A o \in Objects : Forwarded(o) => tag[o] = copy[o].at /\ copy[o].tag = Live /\ IsAddress(tag[o])
  /\ \A t \in Tracers :
       /\ pc[t] \in Owning => tag[Of(t)] = Busy
       /\ pc[t] \in {"alloc", "allocEmpty"} => want[t] = Of(t) /\ copies[Of(t)] = 0
       /\ pc[t] \in {"commitTag", "commit"} => IsAddress(copy[Of(t)].at)
       /\ pc[t] = "commit" => copy[Of(t)].tag = Live
       /\ pc[t] = "update" => Forwarded(Of(t))
       /\ \A u \in Tracers : pc[t] \in Owning /\ pc[u] \in Owning /\ Of(t) = Of(u) => t = u

Alive == Handshake /\ Requests /\ LargeStay /\ Rest /\ RootsTraced /\ Forwarding

PccInv == PccTypes /\ CopiedOnce /\ (pc = Dead \/ Alive)

-------------------------------------------------------------------------------
(* What is done to a space leaves the active region; only a flip changes it. *)

LEMMA SpaceReleaseFull ==
  ASSUME NEW s, IsSpace(s), NEW a PROVE IsSpace(ReleaseFull(s, a))
BY DEF IsSpace, Fields, ReleaseFull, PushFull

LEMMA SpaceFinished ==
  ASSUME NEW s, IsSpace(s), NEW a PROVE IsSpace(Finished(s, a))
<1>1. CASE a.block = NoBlock
  BY <1>1 DEF Finished
<1>2. CASE a.block # NoBlock /\ a.hp % RegionSize = 0
  BY <1>2 DEF IsSpace, Fields, Finished, PushFull
<1>3. CASE a.block # NoBlock /\ a.hp % RegionSize # 0
  BY <1>3 DEF IsSpace, Fields, Finished
<1>4. QED
  BY <1>1, <1>2, <1>3

LEMMA SpacePagedIn ==
  ASSUME NEW s, IsSpace(s), NEW k PROVE IsSpace(PagedIn(s, k))
BY DEF IsSpace, Fields, PagedIn

LEMMA SpacePageOutAll ==
  ASSUME NEW s, IsSpace(s), NEW blocks PROVE IsSpace(PageOutAll(s, blocks))
BY DEF IsSpace, Fields, PageOutAll

LEMMA SpaceAcquireEmpty ==
  ASSUME NEW s, IsSpace(s) PROVE IsSpace(AcquireEmpty(s))
<1>1. CASE s.empty # <<>>
  BY <1>1 DEF IsSpace, Fields, AcquireEmpty
<1>2. CASE s.empty = <<>>
  <2> DEFINE t == PagedIn(s, 1)
  <2>1. IsSpace(t)
    BY SpacePagedIn
  <2> HIDE DEF t
  <2>2. AcquireEmpty(s) = [[t EXCEPT !.pending = @ + BlockSize]
                            EXCEPT !.inCore[EmptyBlock(s)] = TRUE,
                                   !.zeroes[EmptyBlock(s)] = @ \ {s.active}]
    BY <1>2 DEF AcquireEmpty, t
  <2>3. QED
    BY <2>1, <2>2 DEF IsSpace, Fields
<1>3. QED
  BY <1>1, <1>2

LEMMA SpacePageOutUntilReleased ==
  ASSUME NEW s, IsSpace(s), NEW p PROVE IsSpace(PageOutUntilReleased(s, p))
<1> DEFINE k == Min({Len(s.empty), Ceiling(p, BlockSize)})
           taken == SubSeq(s.empty, 1, k)
           r == [s EXCEPT !.empty = SubSeq(@, k + 1, Len(@))]
           t == PageOutAll(r, taken)
<1>1. IsSpace(r)
  BY DEF IsSpace, Fields
<1>2. IsSpace(t)
  BY <1>1, SpacePageOutAll
<1>3. PageOutUntilReleased(s, p) =
        [t EXCEPT !.pending = @ - k * BlockSize,
                  !.used = [b \in DOMAIN @ |-> IF \E i \in 1 .. k : taken[i] = b THEN 0 ELSE @[b]]]
  BY DEF PageOutUntilReleased
<1> HIDE DEF t, taken, k
<1>4. QED
  BY <1>2, <1>3 DEF IsSpace, Fields

LEMMA SpaceReacquire ==
  ASSUME NEW s, IsSpace(s), NEW bytes PROVE IsSpace(Reacquire(s, bytes))
<1> DEFINE owed == s.pending - bytes
           k == Min({Len(InPageInOrder(s)), IF owed > 0 THEN 0 ELSE (0 - owed) \div BlockSize})
           t == PagedIn(s, k)
<1>1. IsSpace(t)
  BY SpacePagedIn
<1>2. Reacquire(s, bytes) =
        [t EXCEPT !.pending = owed + k * BlockSize,
                  !.empty = Reverse(SubSeq(InPageInOrder(s), 1, k)) \o @]
  BY DEF Reacquire
<1> HIDE DEF t, k, owed
<1>3. QED
  BY <1>1, <1>2 DEF IsSpace, Fields

LEMMA SpaceExpanded ==
  ASSUME NEW s, IsSpace(s), NEW bytes PROVE IsSpace(Expanded(s, bytes))
<1> DEFINE t == Reacquire(s, bytes)
           n == t.slabs + Ceiling(0 - t.pending, SlabSize)
           new == BlocksOfSlabs(t.slabs + 1, n)
           With(f, v) == [b \in BlocksOfSlabs(1, n) |-> IF b \in new THEN v ELSE f[b]]
           u == [t EXCEPT !.slabs = n, !.inCore = With(@, FALSE), !.zeroes = With(@, {0, 1}),
                          !.used = With(@, 0)]
           v == PageOutAll(u, SetToSortSeq(new, <))
<1>1. IsSpace(t)
  BY SpaceReacquire
<1>2. IsSpace(u)
  <2> HIDE DEF t, n, new
  <2>1. QED
    BY <1>1 DEF IsSpace, Fields
<1>3. IsSpace(v)
  BY <1>2, SpacePageOutAll
<1>4. IsSpace(Reacquire(v, 0))
  BY <1>3, SpaceReacquire
<1>5. Expanded(s, bytes) = IF t.pending >= 0 THEN t ELSE Reacquire(v, 0)
  BY DEF Expanded
<1> HIDE DEF t, v
<1>6. QED
  BY <1>1, <1>4, <1>5

LEMMA SpaceRest ==
  ASSUME NEW s, IsSpace(s)
  PROVE  /\ IsSpace(Flipped(s)) /\ IsSpace(GcFinished(s))
         /\ IsSpace(Advanced(s)) /\ IsSpace(Discarded(s))
<1>1. IsSpace(Flipped(s))
  <2>1. 1 - s["active"] \in {0, 1}
    BY DEF IsSpace
  <2>2. 1 - s.active = 1 - s["active"]
    OBVIOUS
  <2>3. QED
    BY <2>1, <2>2 DEF IsSpace, Fields, Flipped
<1>2. IsSpace(GcFinished(s))
  BY DEF IsSpace, Fields, GcFinished
<1>3. IsSpace(Advanced(s))
  BY DEF IsSpace, Fields, Advanced
<1>4. IsSpace(Discarded(s))
  BY DEF IsSpace, Fields, Discarded
<1>5. QED
  BY <1>1, <1>2, <1>3, <1>4

LEMMA SpaceAtFirst == ASSUME NEW n PROVE IsSpace(SpaceOf(n))
<1> DEFINE size0 == BlockSize * Ceiling(n, BlockSize)
           m == Ceiling(size0 + BlockSize * ExtraBlocks, SlabSize)
           blocks == SetToSortSeq(BlocksOfSlabs(1, m), <)
           k == Min({Len(blocks), (m * SlabSize - size0) \div BlockSize})
           e == EmptySpace(m)
           t == PageOutAll(e, SubSeq(blocks, 1, k))
<1>1. IsSpace(e)
  BY DEF EmptySpace, IsSpace, Fields
<1>2. IsSpace(t)
  BY <1>1, SpacePageOutAll
<1>3. SpaceOf(n) = [t EXCEPT !.empty = Reverse(SubSeq(blocks, k + 1, Len(blocks)))]
  BY DEF SpaceOf
<1> HIDE DEF t
<1>4. QED
  BY <1>2, <1>3 DEF IsSpace, Fields

-------------------------------------------------------------------------------
(* Types *)

\* what the words of objects, roots and marks are does not matter to the types
LEMMA TypesInit == PccInit => PccTypes
<1> SUFFICES ASSUME PccInit PROVE PccTypes
  OBVIOUS
<1>1. IsSpace(space)
  BY SpaceAtFirst DEF PccInit
<1>6. pc \in [Threads -> Labels]
  BY DEF PccInit, Labels
<1>2. want \in [Threads -> Objects \cup {None}] /\ copies \in [Objects -> Nat]
  BY DEF PccInit
<1>7. collecting \in BOOLEAN /\ edges \subseteq Mutators \X Objects
  BY Zenon DEF PccInit
<1>8. paused \in Int /\ inactive \in Int
  BY DEF PccInit
<1>3. /\ slot = [m \in Mutators |-> [o \in Objects |-> slot[m][o]]]
      /\ at = [o \in Objects |-> at[o]] /\ tag = [o \in Objects |-> tag[o]]
      /\ edge = [t \in Tracers |-> edge[t]]
  BY DEF PccInit
<1>4. copy = [o \in Objects |-> [at |-> copy[o].at, tag |-> copy[o].tag]]
  BY DEF PccInit, NoCopy
<1>5. QED
  BY <1>1, <1>2, <1>3, <1>4, <1>6, <1>7, <1>8 DEF PccTypes

LEMMA TypesAllocateStep ==
  ASSUME PccTypes, NEW t \in Threads, AllocateStep(t) PROVE PccTypes'
<1>1. CASE ReleaseFullBlock(t)
  <2>1. IsSpace(space')
    BY <1>1, SpaceReleaseFull DEF ReleaseFullBlock, PccTypes
  <2>2. QED
    BY <1>1, <2>1 DEF ReleaseFullBlock, PccTypes, handshake, objects, roots
<1>2. CASE AcquirePartlyFullBlock(t)
  <2>1. IsSpace(space')
    BY <1>2 DEF AcquirePartlyFullBlock, PccTypes, IsSpace, Fields
  <2>2. pc' \in [Threads -> Labels]
    BY <1>2 DEF AcquirePartlyFullBlock, PccTypes, Goto, Labels
  <2>3. QED
    BY <1>2, <2>1, <2>2 DEF AcquirePartlyFullBlock, PccTypes, handshake, objects, roots
<1>3. CASE AcquireEmptyBlock(t)
  <2>1. IsSpace(space')
    BY <1>3, SpaceAcquireEmpty DEF AcquireEmptyBlock, PccTypes
  <2>2. QED
    BY <1>3, <2>1 DEF AcquireEmptyBlock, PccTypes, Goto, Labels, handshake, objects, roots
<1>4. QED
  BY <1>1, <1>2, <1>3 DEF AllocateStep

LEMMA TypesNoRoom ==
  ASSUME PccTypes, NEW t \in Threads, NoRoom(t) PROVE PccTypes'
BY DEF NoRoom, Dead, PccTypes, Labels, handshake, heap, objects, roots

\* the root of mutator m to object o, written
RootIs(m, o, w) ==
  \A k \in Mutators : \A p \in Objects :
    slot'[k][p] = IF k = m /\ p = o THEN w ELSE slot[k][p]

LEMMA SlotWritten ==
  ASSUME PccTypes, NEW m \in Mutators, NEW o \in Objects \cup {None}, NEW w,
         slot' = [slot EXCEPT ![m][o] = w]
  PROVE  slot' = [k \in Mutators |-> [p \in Objects |-> slot'[k][p]]] /\ RootIs(m, o, w)
<1> DEFINE T(k) == [p \in Objects |-> slot[k][p]]
           U(k) == IF k = m THEN [T(m) EXCEPT ![o] = w] ELSE T(k)
<1>1. /\ slot = [k \in Mutators |-> T(k)]
      /\ \A k \in Mutators : slot[k] = T(k)
  BY DEF PccTypes
<1>2. slot' = [k \in Mutators |-> U(k)]
  BY <1>1
<1>3. \A k \in Mutators : slot'[k] = U(k)
  BY <1>2
<1>4. \A k \in Mutators : U(k) = [p \in Objects |-> U(k)[p]]
  OBVIOUS
<1>5. slot' = [k \in Mutators |-> [p \in Objects |-> slot'[k][p]]]
  <2> HIDE DEF U
  <2>1. QED
    BY <1>2, <1>3, <1>4
<1>6. ASSUME NEW k \in Mutators, NEW p \in Objects
      PROVE  slot'[k][p] = IF k = m /\ p = o THEN w ELSE slot[k][p]
  <2>1. CASE k = m
    <3>1. slot'[k][p] = [T(m) EXCEPT ![o] = w][p]
      BY <1>3, <2>1
    <3>2. [T(m) EXCEPT ![o] = w][p] = IF p = o THEN w ELSE T(m)[p]
      OBVIOUS
    <3>3. QED
      BY <2>1, <3>1, <3>2
  <2>2. CASE k # m
    BY <1>3, <2>2
  <2>3. QED
    BY <2>1, <2>2
<1>7. QED
  BY <1>5, <1>6 DEF RootIs

\* an object's place, written
LEMMA PlaceWritten ==
  ASSUME PccTypes, NEW o \in Objects \cup {None}, NEW w, at' = [at EXCEPT ![o] = w]
  PROVE  /\ at' = [p \in Objects |-> at'[p]]
         /\ \A p \in Objects : at'[p] = IF p = o THEN w ELSE at[p]
BY DEF PccTypes

LEMMA PcWritten ==
  ASSUME PccTypes, NEW t \in Threads, NEW l \in Labels, pc' = [pc EXCEPT ![t] = l]
  PROVE  pc' \in [Threads -> Labels]
BY DEF PccTypes

LEMMA TypesMutator ==
  ASSUME PccTypes, NEW m \in Mutators, MutatorNext(m) PROVE PccTypes'
<1> USE DEF handshake, heap, objects, roots, thread, Goto, At, Running
<1>0. m \in Threads
  BY DEF Threads
<1>1. CASE AllocateStep(m)
  BY <1>0, <1>1, TypesAllocateStep
<1>2. CASE RequestSmall(m)
  BY <1>0, <1>2 DEF RequestSmall, PccTypes, Labels, Objects
<1>3. CASE AllocateSmall(m)
  <2>1. want[m] \in Objects \cup {None}
    BY <1>0 DEF PccTypes
  <2>2. /\ slot' = [k \in Mutators |-> [p \in Objects |-> slot'[k][p]]]
        /\ at' = [p \in Objects |-> at'[p]]
    BY <1>3, <2>1, SlotWritten, PlaceWritten DEF AllocateSmall
  <2>3. QED
    BY <1>0, <1>3, <2>2 DEF AllocateSmall, PccTypes, Labels
<1>4. CASE NoRoom(m)
  BY <1>0, <1>4, TypesNoRoom
<1>5. CASE RequestLarge(m)
  <2>1. IsSpace(space')
    BY <1>5 DEF RequestLarge, PccTypes, IsSpace, Fields
  <2>2. QED
    BY <1>0, <1>5, <2>1 DEF RequestLarge, PccTypes, Labels, Objects
<1>6. CASE ReadPending(m)
  BY <1>0, <1>6 DEF ReadPending, PccTypes, Labels
<1>7. CASE PageOut(m)
  <2>1. IsSpace(space')
    BY <1>7, SpacePageOutUntilReleased DEF PageOut, PccTypes
  <2>2. \E l \in {"trigger", "allocLarge"} : pc' = [pc EXCEPT ![m] = l]
    BY <1>7 DEF PageOut
  <2>3. {"trigger", "allocLarge"} \subseteq Labels
    BY DEF Labels
  <2>4. pc' \in [Threads -> Labels]
    BY <1>0, <2>2, <2>3, PcWritten
  <2>5. QED
    BY <1>7, <2>1, <2>4 DEF PageOut, PccTypes
<1>8. CASE AllocateLarge(m)
  <2>1. want[m] \in Objects \cup {None}
    BY <1>0 DEF PccTypes
  <2>2. /\ slot' = [k \in Mutators |-> [p \in Objects |-> slot'[k][p]]]
        /\ at' = [p \in Objects |-> at'[p]]
    BY <1>8, <2>1, SlotWritten, PlaceWritten DEF AllocateLarge
  <2>3. QED
    BY <1>0, <1>8, <2>2 DEF AllocateLarge, PccTypes, Labels
<1>9. CASE Ask(m)
  BY <1>0, <1>9 DEF Ask, PccTypes, Labels
<1>10. CASE Trigger(m) \/ Safepoint(m) \/ Leave(m)
  <2>1. IsSpace(space')
    <3>1. space' = Finished(space, alloc[m])
      BY <1>10 DEF Trigger, Safepoint, Leave, FinishAllocator
    <3>2. QED
      BY <3>1, SpaceFinished DEF PccTypes
  <2>2. \E l \in {"triggered", "safepoint", "leaving"} : pc' = [pc EXCEPT ![m] = l]
    BY <1>10 DEF Trigger, Safepoint, Leave
  <2>3. {"triggered", "safepoint", "leaving"} \subseteq Labels
    BY DEF Labels
  <2>4. pc' \in [Threads -> Labels]
    BY <1>0, <2>2, <2>3, PcWritten
  <2>5. UNCHANGED <<collecting, paused, inactive, slot, at, tag, copy, copies, edges, edge, want>>
    BY <1>10 DEF Trigger, Safepoint, Leave
  <2>6. QED
    BY <2>1, <2>4, <2>5 DEF PccTypes
<1>11. CASE Deactivate(m) \/ Reactivate(m) \/ Pause(m) \/ Resume(m)
  <2>0. \E l \in {"inactive", "run", "paused", "allocLarge", "alloc"} : pc' = [pc EXCEPT ![m] = l]
    BY <1>11 DEF Deactivate, Reactivate, Pause, Resume, After, Goto
  <2>1. pc' \in [Threads -> Labels]
    <3>1. {"inactive", "run", "paused", "allocLarge", "alloc"} \subseteq Labels
      BY DEF Labels
    <3>2. QED
      BY <1>0, <2>0, <3>1, PcWritten
  <2>2. paused' \in Int /\ inactive' \in Int
    BY <1>11 DEF Deactivate, Reactivate, Pause, Resume, PccTypes
  <2>3. QED
    BY <1>11, <2>1, <2>2 DEF Deactivate, Reactivate, Pause, Resume, PccTypes
<1>12. CASE RequestStop(m)
  BY <1>0, <1>12 DEF RequestStop, PccTypes, Labels
<1>13. CASE StartGc(m)
  <2>1. IsSpace(space')
    BY <1>13, SpaceRest DEF StartGc, PccTypes
  <2>2. edges' \subseteq Mutators \X Objects
    BY <1>13 DEF StartGc
  <2>3. pc' \in [Threads -> Labels]
    BY <1>13 DEF StartGc, PccTypes, Labels
  <2>4. QED
    BY <1>0, <1>13, <2>1, <2>2, <2>3 DEF StartGc, PccTypes
<1>14. CASE FinishGc(m)
  <2>1. IsSpace(space')
    BY <1>14, SpaceRest, SpaceReacquire DEF FinishGc, PccTypes
  <2>2. copy' = [o \in Objects |-> [at |-> copy'[o].at, tag |-> copy'[o].tag]]
    BY <1>14 DEF FinishGc, NoCopy
  <2>3. pc' \in [Threads -> Labels]
    BY <1>0, <1>14 DEF FinishGc, PccTypes, Labels
  <2>4. /\ at' = [o \in Objects |-> at'[o]] /\ tag' = [o \in Objects |-> tag'[o]]
        /\ copies' \in [Objects -> Nat]
    BY <1>14 DEF FinishGc, PccTypes
  <2>5. QED
    BY <1>14, <2>1, <2>2, <2>3, <2>4 DEF FinishGc, PccTypes
<1>15. CASE Resize(m)
  <2>1. IsSpace(space')
    BY <1>15, SpaceExpanded DEF Resize, PccTypes
  <2>2. QED
    BY <1>0, <1>15, <2>1 DEF Resize, PccTypes, Labels
<1>16. CASE Resolve(m)
  <2>1. IsSpace(space')
    BY <1>16, SpaceExpanded, SpacePageOutUntilReleased DEF Resolve, PccTypes
  <2>2. QED
    <3>1. pc' \in [Threads -> Labels]
      <4>1. pc' = Dead \/ pc' = [pc EXCEPT ![m] = After(m)]
        BY <1>16 DEF Resolve
      <4>2. Dead \in [Threads -> Labels] /\ After(m) \in Labels
        BY DEF Dead, After, Labels
      <4>3. QED
        BY <1>0, <4>1, <4>2 DEF PccTypes
    <3>2. paused' = paused - 1 /\ collecting' \in BOOLEAN
      BY <1>16, Zenon DEF Resolve
    <3>3. QED
      BY <1>16, <2>1, <3>1, <3>2 DEF Resolve, PccTypes
<1>17. CASE \E o \in Objects : Drop(m, o)
  <2> PICK o \in Objects : Drop(m, o)
    BY <1>17
  <2>1. slot' = [k \in Mutators |-> [p \in Objects |-> slot'[k][p]]]
    BY SlotWritten DEF Drop
  <2>2. at' = [p \in Objects |-> at'[p]]
    BY PlaceWritten DEF Drop, PccTypes
  <2>3. QED
    BY <2>1, <2>2 DEF Drop, PccTypes
<1>18. CASE \E o \in Objects : \E k \in Mutators : Share(m, k, o)
  <2> PICK o \in Objects, k \in Mutators : Share(m, k, o)
    BY <1>18
  <2>1. slot' = [j \in Mutators |-> [p \in Objects |-> slot'[j][p]]]
    BY SlotWritten DEF Share
  <2>2. QED
    BY <2>1 DEF Share, PccTypes
<1>19. QED
  BY <1>1, <1>2, <1>3, <1>4, <1>5, <1>6, <1>7, <1>8, <1>9, <1>10, <1>11, <1>12, <1>13, <1>14,
     <1>15, <1>16, <1>17, <1>18 DEF MutatorNext

LEMMA TypesTracer ==
  ASSUME PccTypes, NEW t \in Tracers, TracerNext(t),
         pc[t] \in Moving => edge[t] \in Mutators \X Small
  PROVE  PccTypes'
<1> USE DEF handshake, heap, objects, roots, thread, Goto, At
<1>0. t \in Threads
  BY DEF Threads
<1>1. CASE AllocateStep(t)
  BY <1>0, <1>1, TypesAllocateStep
<1>2. CASE NoRoom(t)
  BY <1>0, <1>2, TypesNoRoom
<1>3. CASE TakeRoot(t)
  <2> PICK e \in edges :
        /\ edges' = edges \ {e}
        /\ \/ /\ e[2] \in Large /\ lmarked' = lmarked \cup {e[2]} /\ UNCHANGED <<edge, pc>>
           \/ /\ e[2] \in Small /\ edge' = [edge EXCEPT ![t] = e] /\ Goto(t, "begin")
              /\ UNCHANGED lmarked
    BY <1>3 DEF TakeRoot
  <2>1. pc' \in [Threads -> Labels]
    BY <1>0 DEF PccTypes, Labels
  <2>2. edge' = [u \in Tracers |-> edge'[u]]
    BY DEF PccTypes
  <2>3. QED
    BY <1>3, <2>1, <2>2 DEF TakeRoot, PccTypes
<1>4. CASE Begin(t)
  <2>1. pc' \in [Threads -> Labels]
    <3> DEFINE l == CASE tag[Of(t)] = Live -> "acquire" [] tag[Of(t)] = Busy -> "busy"
                      [] OTHER -> "update"
    <3>1. pc' = [pc EXCEPT ![t] = l]
      BY <1>4, Zenon DEF Begin, ByTag
    <3>2. l \in {"acquire", "busy", "update"}
      OBVIOUS
    <3> HIDE DEF l
    <3>3. l \in Labels
      BY <3>2 DEF Labels
    <3>4. QED
      BY <1>0, <3>1, <3>3, PcWritten
  <2>2. UNCHANGED <<collecting, paused, inactive, space, slot, at, tag, copy, copies, edges, edge, want>>
    BY <1>4 DEF Begin
  <2>3. QED
    BY <2>1, <2>2 DEF PccTypes
<1>5. CASE Acquire(t)
  <2>1. pc' \in [Threads -> Labels]
    <3> DEFINE l == CASE tag[Of(t)] = Live -> "acquire" [] tag[Of(t)] = Busy -> "busy"
                      [] OTHER -> "update"
    <3>1. pc' = [pc EXCEPT ![t] = l] \/ pc' = [pc EXCEPT ![t] = "alloc"]
      BY <1>5, Zenon DEF Acquire, ByTag
    <3>2. l \in {"acquire", "busy", "update"}
      OBVIOUS
    <3> HIDE DEF l
    <3>3. l \in Labels /\ "alloc" \in Labels
      BY <3>2 DEF Labels
    <3>4. QED
      BY <1>0, <3>1, <3>3, PcWritten
  <2>2. want' \in [Threads -> Objects \cup {None}]
    <3>1. Of(t) \in Objects
      BY <1>5 DEF Acquire, Moving, Of, Objects
    <3>2. want' = want \/ want' = [want EXCEPT ![t] = Of(t)]
      BY <1>5 DEF Acquire
    <3>3. QED
      BY <1>0, <3>1, <3>2 DEF PccTypes
  <2>3. tag' = [o \in Objects |-> tag'[o]]
    BY <1>5 DEF Acquire, PccTypes
  <2>4. QED
    BY <1>5, <2>1, <2>2, <2>3 DEF Acquire, PccTypes
<1>6. CASE Copy(t)
  <2>1. pc' \in [Threads -> Labels] /\ want' \in [Threads -> Objects \cup {None}]
    BY <1>0, <1>6 DEF Copy, PccTypes, Labels
  <2>2. copy' = [o \in Objects |-> [at |-> copy'[o].at, tag |-> copy'[o].tag]]
    <3> DEFINE c == [at |-> Here(t), tag |-> Busy]
    <3>1. c = [at |-> c.at, tag |-> c.tag]
      OBVIOUS
    <3>2. copy' = [copy EXCEPT ![Of(t)] = c]
      BY <1>6 DEF Copy
    <3> HIDE DEF c
    <3>3. QED
      BY <3>1, <3>2 DEF PccTypes
  <2>3. copies' \in [Objects -> Nat]
    <3>1. copies' = [copies EXCEPT ![Of(t)] = @ + 1] /\ copies \in [Objects -> Nat]
      BY <1>6 DEF Copy, PccTypes
    <3>2. copies[Of(t)] + 1 \in Nat
      <4>1. Of(t) \in Objects
        BY <1>6 DEF Copy, Moving, Of, Objects
      <4>2. QED
        BY <3>1, <4>1
    <3>3. QED
      BY <3>1, <3>2
  <2>4. QED
    BY <1>6, <2>1, <2>2, <2>3 DEF Copy, PccTypes
<1>7. CASE CommitTag(t)
  <2>1. pc' \in [Threads -> Labels]
    BY <1>0, <1>7 DEF CommitTag, PccTypes, Labels
  <2>2. copy' = [o \in Objects |-> [at |-> copy'[o].at, tag |-> copy'[o].tag]]
    <3> DEFINE c == [at |-> copy[Of(t)].at, tag |-> Live]
    <3>1. c = [at |-> c.at, tag |-> c.tag]
      OBVIOUS
    <3>2. Of(t) \in Objects
      BY <1>7 DEF CommitTag, Moving, Of, Objects
    <3>3. [copy[Of(t)] EXCEPT !.tag = Live] = c
      <4>1. copy[Of(t)] = [at |-> copy[Of(t)].at, tag |-> copy[Of(t)].tag]
        BY <3>2 DEF PccTypes
      <4>2. QED
        BY <4>1
    <3>4. copy' = [copy EXCEPT ![Of(t)] = c]
      BY <1>7, <3>3 DEF CommitTag
    <3> HIDE DEF c
    <3>5. QED
      BY <3>1, <3>4 DEF PccTypes
  <2>3. QED
    BY <1>7, <2>1, <2>2 DEF CommitTag, PccTypes
<1>8. CASE Commit(t)
  <2>1. pc' \in [Threads -> Labels]
    BY <1>0, <1>8 DEF Commit, PccTypes, Labels
  <2>2. tag' = [o \in Objects |-> tag'[o]]
    BY <1>8 DEF Commit, PccTypes
  <2>3. QED
    BY <1>8, <2>1, <2>2 DEF Commit, PccTypes
<1>9. CASE Update(t)
  <2>0. pc[t] = "update" /\ edge[t] \in Mutators \X Small
    BY <1>9 DEF Update, Moving
  <2>1. pc' \in [Threads -> Labels]
    BY <1>0, <1>9 DEF Update, PccTypes, Labels
  <2>2. slot' = [k \in Mutators |-> [p \in Objects |-> slot'[k][p]]]
    <3>1. edge[t][1] \in Mutators /\ Of(t) \in Objects
      BY <2>0 DEF Of, Objects
    <3>2. slot' = [slot EXCEPT ![edge[t][1]][Of(t)] = tag[Of(t)]]
      BY <1>9 DEF Update
    <3>3. QED
      BY <3>1, <3>2, SlotWritten
  <2>3. edge' = [u \in Tracers |-> edge'[u]]
    BY <1>9 DEF Update, PccTypes
  <2>4. QED
    BY <1>9, <2>1, <2>2, <2>3 DEF Update, PccTypes
<1>10. CASE Park(t)
  <2>1. IsSpace(space')
    BY <1>10, SpaceFinished DEF Park, FinishAllocator, PccTypes
  <2>2. QED
    BY <1>0, <1>10, <2>1 DEF Park, FinishAllocator, PccTypes, Labels
<1>11. QED
  BY <1>1, <1>2, <1>3, <1>4, <1>5, <1>6, <1>7, <1>8, <1>9, <1>10 DEF TracerNext

LEMMA TypesBackground ==
  ASSUME PccTypes, AdvanceQueue \/ DiscardBlocks PROVE PccTypes'
<1>1. IsSpace(space')
  BY SpaceRest DEF AdvanceQueue, DiscardBlocks, PccTypes
<1>2. QED
  BY <1>1 DEF AdvanceQueue, DiscardBlocks, PccTypes, handshake, objects, roots, thread

-------------------------------------------------------------------------------
(* Counting mutators by where they are *)

LEMMA NumType ==
  ASSUME NEW S PROVE IsFiniteSet(InState(S)) /\ Num(S) \in Nat
<1>1. InState(S) \subseteq Mutators
  BY DEF InState
<1>2. QED
  BY <1>1, PccAssumption, FS_Subset, FS_CardinalityType DEF Num

LEMMA MoveNum ==
  ASSUME NEW m \in Mutators, NEW l, NEW CONSTANT S, pc'[m] = l,
         \A k \in Mutators \ {m} : pc'[k] = pc[k]
  PROVE  Num(S)' = Num(S) + (IF l \in S THEN 1 ELSE 0) - (IF pc[m] \in S THEN 1 ELSE 0)
<1>1. /\ IsFiniteSet(InState(S)) /\ Num(S) \in Nat
      /\ Num(S) = Cardinality(InState(S)) /\ Num(S)' = Cardinality(InState(S)')
      /\ m \in InState(S) <=> pc[m] \in S
  BY NumType DEF Num, InState
<1>2. CASE l \in S
  <2>1. InState(S)' = InState(S) \cup {m}
    BY <1>2 DEF InState
  <2>2. Cardinality(InState(S) \cup {m}) = IF m \in InState(S) THEN Num(S) ELSE Num(S) + 1
    BY <1>1, FS_AddElement
  <2>3. QED
    BY <1>1, <1>2, <2>1, <2>2
<1>3. CASE l \notin S
  <2>1. InState(S)' = InState(S) \ {m}
    BY <1>3 DEF InState
  <2>2. Cardinality(InState(S) \ {m}) = IF m \in InState(S) THEN Num(S) - 1 ELSE Num(S)
    BY <1>1, FS_RemoveElement
  <2>3. QED
    BY <1>1, <1>3, <2>1, <2>2
<1>4. QED
  BY <1>2, <1>3

\* When the counters add up to the number of mutators, each is in one of them.
LEMMA AllAreStopped ==
  ASSUME PccTypes, Handshake, AllStopped, NEW m \in Mutators
  PROVE  pc[m] \in Stopped \cup {"inactive"}
<1> DEFINE P == InState(Stopped)
           I == InState({"inactive"})
<1>1. /\ IsFiniteSet(P) /\ IsFiniteSet(I) /\ P \cap I = {}
      /\ Cardinality(P) \in Nat /\ Cardinality(I) \in Nat
      /\ P \cup I \subseteq Mutators
  BY NumType DEF Num, InState, Stopped
<1>2. /\ Cardinality(P) = paused /\ Cardinality(I) = inactive
      /\ Cardinality(Mutators) = paused + inactive
  BY DEF Handshake, AllStopped, Num
<1>3. m \in P \cup I <=> pc[m] \in Stopped \cup {"inactive"}
  BY DEF InState
<1> HIDE DEF P, I
<1>4. IsFiniteSet(P \cup I) /\ Cardinality(P \cup I) = Cardinality(P) + Cardinality(I)
  <2>1. /\ IsFiniteSet(P \cup I)
        /\ Cardinality(P \cup I) = Cardinality(P) + Cardinality(I) - Cardinality(P \cap I)
    BY <1>1, FS_Union
  <2>2. Cardinality(P \cap I) = 0
    BY <1>1, FS_EmptySet
  <2>3. QED
    BY <1>1, <2>1, <2>2
<1>5. Cardinality(P \cup I) = Cardinality(Mutators)
  BY <1>2, <1>4
<1>6. P \cup I = Mutators
  BY <1>1, <1>5, PccAssumption, FS_Subset
<1>7. QED
  BY <1>3, <1>6

-------------------------------------------------------------------------------
(* Mutators at work: nobody traces *)

LEMMA Words ==
  /\ Live # Busy /\ Nowhere # InLarge /\ NoCopy.at = Nowhere
  /\ \A w : IsAddress(w) => w \notin {Nowhere, InLarge, Live, Busy}
<1>1. /\ Live.off = 2 /\ Busy.off = 3 /\ Nowhere.off = 0 /\ InLarge.off = 1
      /\ Live.region = 2 /\ Busy.region = 2 /\ Nowhere.region = 2 /\ InLarge.region = 2
  BY DEF Live, Busy, Nowhere, InLarge, Special
<1>2. NoCopy.at = Nowhere
  BY DEF NoCopy
<1>3. \A w : IsAddress(w) => w.region # 2
  BY DEF IsAddress
<1>4. QED
  BY <1>1, <1>2, <1>3

LEMMA TracersApart == \A t \in Tracers : t \notin Mutators /\ t \in Threads
BY PccAssumption DEF Threads

\* where a mutator may be that no counter and no collection knows of
Free == Labels \ (Stopped \cup {"inactive"})

LEMMA FreeMove ==
  ASSUME PccTypes, Handshake, NEW m \in Mutators, pc[m] \in Free, pc'[m] \in Free,
         \A t \in Threads \ {m} : pc'[t] = pc[t],
         UNCHANGED <<collecting, paused, inactive>>
  PROVE  Handshake' /\ ~Tracing /\ ~Tracing'
<1>1. \A k \in Mutators \ {m} : pc'[k] = pc[k]
  BY DEF Threads
<1>2. Num(Stopped)' = Num(Stopped) /\ Num({"inactive"})' = Num({"inactive"})
  <2>1. /\ pc[m] \notin Stopped /\ pc'[m] \notin Stopped
        /\ pc[m] \notin {"inactive"} /\ pc'[m] \notin {"inactive"}
    BY DEF Free
  <2>2. Num(Stopped) \in Nat /\ Num({"inactive"}) \in Nat
    BY NumType
  <2>3. QED
    BY <1>1, <2>1, <2>2, MoveNum
<1>3. InState(Control)' = InState(Control)
  BY <1>1 DEF InState, Control, Free, Stopped
<1>4. ~Tracing
  BY DEF Tracing, Handshake, Free, Stopped
<1>5. ~Tracing'
  BY <1>1, <1>4 DEF Tracing, Free, Stopped
<1>6. QED
  BY <1>2, <1>3, <1>4, <1>5 DEF Handshake, Tracing

LEMMA StaysAtRest ==
  ASSUME PccTypes, Rest, ~Tracing, ~Tracing',
         \A t \in Tracers : pc'[t] = pc[t], UNCHANGED <<edges, tag, copy>>,
         \A m \in Mutators : \A o \in Objects : slot'[m][o] \in {Nowhere, at'[o]}
  PROVE  Rest' /\ RootsTraced' /\ Forwarding'
<1>1. Rest'
  BY DEF Rest
<1>2. RootsTraced'
  BY DEF RootsTraced
<1>3. \A t \in Tracers : pc'[t] = "parked"
  BY DEF Rest
<1>4. \A o \in Objects : ~Forwarded(o)'
  BY DEF Rest, Forwarded
<1>5. Forwarding'
  BY <1>3, <1>4 DEF Forwarding, Owning
<1>6. QED
  BY <1>1, <1>2, <1>5

\* a step of a mutator that leaves roots alone
LEMMA FreeStep ==
  ASSUME PccTypes, Alive, NEW m \in Mutators, pc[m] \in Free, pc'[m] \in Free,
         \A t \in Threads \ {m} : pc'[t] = pc[t],
         UNCHANGED <<handshake, at, tag, copy, slot, edges>>,
         Requests'
  PROVE  Alive'
<1>1. Handshake' /\ ~Tracing /\ ~Tracing'
  BY FreeMove DEF Alive, handshake
<1>2. \A t \in Tracers : pc'[t] = pc[t]
  BY TracersApart
<1>3. \A k \in Mutators : \A o \in Objects : slot'[k][o] \in {Nowhere, at'[o]}
  BY <1>1 DEF Alive, Rest
<1>4. Rest' /\ RootsTraced' /\ Forwarding'
  BY <1>1, <1>2, <1>3, StaysAtRest DEF Alive
<1>5. LargeStay'
  BY DEF Alive, LargeStay
<1>6. QED
  BY <1>1, <1>4, <1>5 DEF Alive

LEMMA AliveFree ==
  ASSUME PccTypes, Alive, NEW m \in Mutators,
         \/ RequestSmall(m) \/ NoRoom(m) \/ RequestLarge(m) \/ ReadPending(m) \/ PageOut(m)
         \/ Ask(m) \/ Trigger(m) \/ Safepoint(m) \/ Leave(m) \/ AllocateStep(m)
  PROVE  Alive'
<1> USE DEF At, Goto, Running
<1>0. m \in Threads /\ m \notin Tracers
  BY PccAssumption DEF Threads
<1>1. pc[m] \in Free /\ pc'[m] \in Free /\ \A t \in Threads \ {m} : pc'[t] = pc[t]
  BY <1>0 DEF RequestSmall, NoRoom, RequestLarge, ReadPending, PageOut, Ask, Trigger, Safepoint,
       Leave, AllocateStep, ReleaseFullBlock, AcquirePartlyFullBlock, AcquireEmptyBlock,
       PccTypes, Free, Labels, Stopped
<1>2. UNCHANGED <<handshake, at, tag, copy, slot, edges>>
  BY DEF RequestSmall, NoRoom, RequestLarge, ReadPending, PageOut, Ask, Trigger, Safepoint,
       Leave, AllocateStep, ReleaseFullBlock, AcquirePartlyFullBlock, AcquireEmptyBlock,
       heap, objects, roots
<1>3. Requests'
  <2>1. CASE RequestSmall(m) \/ RequestLarge(m)
    <3> PICK o \in Objects :
          /\ Unused(o) /\ want' = [want EXCEPT ![m] = o]
          /\ \/ o \in Small /\ pc' = [pc EXCEPT ![m] = "alloc"]
             \/ o \in Large /\ pc' = [pc EXCEPT ![m] = "readPending"]
      BY <2>1 DEF RequestSmall, RequestLarge, Objects
    <3>1. /\ \A k \in Mutators : slot'[k][o] = Nowhere
          /\ \A k \in Mutators : want[k] # o
      BY <1>2 DEF Unused, Threads
    <3>2. want'[m] = o /\ \A k \in Mutators \ {m} : want'[k] = want[k]
      BY <1>0 DEF PccTypes, Threads
    <3>3. /\ pc'[m] \in {"alloc", "allocEmpty"} => want'[m] \in Small
          /\ pc'[m] \in {"readPending", "pageOut", "allocLarge"} => want'[m] \in Large
      BY <1>0, <3>2 DEF PccTypes
    <3>4. QED
      BY <1>1, <1>2, <3>1, <3>2, <3>3 DEF Alive, Requests, Threads
  <2>2. CASE ~(RequestSmall(m) \/ RequestLarge(m))
    <3>1. want' = want
      BY <2>2 DEF NoRoom, ReadPending, PageOut, Ask, Trigger, Safepoint,
           Leave, AllocateStep, ReleaseFullBlock, AcquirePartlyFullBlock, AcquireEmptyBlock
    <3>2. /\ pc'[m] \in {"alloc", "allocEmpty"} => pc[m] \in {"alloc", "allocEmpty"}
          /\ pc'[m] \in {"readPending", "pageOut", "allocLarge"} =>
               pc[m] \in {"readPending", "pageOut", "allocLarge"}
      BY <1>0, <2>2 DEF NoRoom, ReadPending, PageOut, Ask, Trigger, Safepoint,
           Leave, AllocateStep, ReleaseFullBlock, AcquirePartlyFullBlock, AcquireEmptyBlock, PccTypes
    <3>3. QED
      BY <1>1, <1>2, <3>1, <3>2 DEF Alive, Requests, Threads
  <2>3. QED
    BY <2>1, <2>2
<1>4. QED
  BY <1>1, <1>2, <1>3, FreeStep

\* an object that was asked for is where its one root holds it
LEMMA AliveAllocate ==
  ASSUME PccTypes, Alive, NEW m \in Mutators, AllocateSmall(m) \/ AllocateLarge(m)
  PROVE  Alive'
<1> USE DEF At, Goto
<1> DEFINE o == want[m]
<1>0. m \in Threads
  BY DEF Threads
<1>1. pc[m] \in Free /\ pc'[m] \in Free /\ \A t \in Threads \ {m} : pc'[t] = pc[t]
  BY <1>0 DEF AllocateSmall, AllocateLarge, PccTypes, Free, Labels, Stopped
<1>2. UNCHANGED <<handshake, tag, copy, edges>>
  BY DEF AllocateSmall, AllocateLarge
<1>3. Handshake' /\ ~Tracing /\ ~Tracing'
  BY <1>1, <1>2, FreeMove DEF Alive, handshake
<1>4. o \in Objects /\ o # None /\ (o \in Large => AllocateLarge(m)) /\ (o \in Small => AllocateSmall(m))
  <2>1. AllocateSmall(m) => o \in Small
    BY DEF AllocateSmall, Alive, Requests
  <2>2. AllocateLarge(m) => o \in Large
    BY DEF AllocateLarge, Alive, Requests
  <2>3. QED
    BY <2>1, <2>2, PccAssumption DEF Objects
<1>5. PICK w :
        /\ at' = [at EXCEPT ![o] = w] /\ slot' = [slot EXCEPT ![m][o] = w]
        /\ AllocateLarge(m) => w = InLarge
  BY DEF AllocateSmall, AllocateLarge
<1>6. /\ \A k \in Mutators : \A p \in Objects :
           slot'[k][p] = IF k = m /\ p = o THEN w ELSE slot[k][p]
      /\ \A p \in Objects : at'[p] = IF p = o THEN w ELSE at[p]
  <2>1. o \in Objects \cup {None}
    BY <1>4
  <2>2. RootIs(m, o, w)
    BY <1>5, <2>1, SlotWritten
  <2>3. \A p \in Objects : at'[p] = IF p = o THEN w ELSE at[p]
    BY <1>5, <2>1, PlaceWritten
  <2>4. QED
    BY <2>2, <2>3 DEF RootIs
<1>7. \A k \in Mutators : slot[k][o] = Nowhere
  BY <1>4 DEF Alive, Requests
<1>8. \A k \in Mutators : \A p \in Objects : slot'[k][p] \in {Nowhere, at'[p]}
  BY <1>3, <1>6, <1>7 DEF Alive, Rest
<1>9. Rest' /\ RootsTraced' /\ Forwarding'
  <2>1. \A t \in Tracers : pc'[t] = pc[t]
    BY <1>1, TracersApart
  <2>2. QED
    BY <1>2, <1>3, <1>8, <2>1, StaysAtRest DEF Alive
<1>10. LargeStay'
  BY <1>4, <1>5, <1>6 DEF Alive, LargeStay, Objects
<1>11. Requests'
  <2>1. want'[m] = None /\ \A k \in Mutators \ {m} : want'[k] = want[k]
    BY <1>0 DEF AllocateSmall, AllocateLarge, PccTypes, Threads
  <2>2. pc'[m] = "run"
    BY <1>0 DEF AllocateSmall, AllocateLarge, PccTypes
  <2>3. \A k \in Mutators \ {m} : want[k] # None => want[k] # o /\ want[k] \in Objects
    BY <1>4 DEF Alive, Requests, PccTypes, Threads
  <2>4. ASSUME NEW k \in Mutators, want'[k] # None
        PROVE  /\ \A j \in Mutators : slot'[j][want'[k]] = Nowhere
               /\ \A j \in Mutators : want'[j] = want'[k] => j = k
    <3>1. k # m /\ want'[k] = want[k]
      BY <2>1, <2>4
    <3>2. \A j \in Mutators : slot'[j][want'[k]] = Nowhere
      BY <1>6, <2>3, <2>4, <3>1 DEF Alive, Requests
    <3>3. \A j \in Mutators : want'[j] = want'[k] => j = k
      BY <2>1, <2>4, <3>1 DEF Alive, Requests
    <3>4. QED
      BY <3>2, <3>3
  <2>5. ASSUME NEW k \in Mutators
        PROVE  /\ pc'[k] \in {"alloc", "allocEmpty"} => want'[k] \in Small
               /\ pc'[k] \in {"readPending", "pageOut", "allocLarge"} => want'[k] \in Large
    BY <1>1, <2>1, <2>2 DEF Alive, Requests, Threads
  <2>6. QED
    BY <2>4, <2>5 DEF Requests
<1>12. QED
  BY <1>3, <1>9, <1>10, <1>11 DEF Alive

LEMMA AliveDrop ==
  ASSUME PccTypes, Alive, NEW m \in Mutators, NEW o \in Objects, Drop(m, o)
  PROVE  Alive'
<1> USE DEF At, Goto, Running, handshake, heap, objects, thread
<1>1. pc[m] \in Free /\ pc'[m] \in Free /\ UNCHANGED <<handshake, tag, copy, edges, pc, want>>
  BY DEF Drop, Free, Labels, Stopped
<1>2. Handshake' /\ ~Tracing /\ ~Tracing'
  BY <1>1, FreeMove DEF Alive
<1>3. \A k \in Mutators : \A p \in Objects :
        slot'[k][p] = IF k = m /\ p = o THEN Nowhere ELSE slot[k][p]
  <2>1. RootIs(m, o, Nowhere)
    BY SlotWritten DEF Drop
  <2>2. QED
    BY <2>1 DEF RootIs
<1>4. \/ at' = at
      \/ /\ at' = [at EXCEPT ![o] = Nowhere]
         /\ \A k \in Mutators \ {m} : slot[k][o] = Nowhere
  BY DEF Drop
<1>5. \/ at' = at
      \/ /\ \A p \in Objects : at'[p] = IF p = o THEN Nowhere ELSE at[p]
         /\ \A k \in Mutators \ {m} : slot[k][o] = Nowhere
  BY <1>4, PlaceWritten
<1>6. \A k \in Mutators : \A p \in Objects : slot'[k][p] \in {Nowhere, at'[p]}
  BY <1>2, <1>3, <1>5 DEF Alive, Rest
<1>7. Rest' /\ RootsTraced' /\ Forwarding'
  BY <1>1, <1>2, <1>6, StaysAtRest DEF Alive
<1>8. LargeStay'
  BY <1>3, <1>5 DEF Alive, LargeStay, Objects
<1>9. Requests'
  <2>1. ASSUME NEW k \in Mutators, want[k] # None, NEW j \in Mutators
        PROVE  slot'[j][want[k]] = Nowhere
    <3>1. want[k] \in Objects /\ slot[j][want[k]] = Nowhere
      BY <2>1 DEF Alive, Requests, PccTypes, Threads
    <3>2. QED
      BY <1>3, <3>1
  <2>2. QED
    BY <1>1, <2>1 DEF Alive, Requests
<1>10. QED
  BY <1>2, <1>7, <1>8, <1>9 DEF Alive

LEMMA AliveShare ==
  ASSUME PccTypes, Alive, NEW m \in Mutators, NEW o \in Objects, NEW k \in Mutators, Share(m, k, o)
  PROVE  Alive'
<1> USE DEF At, Goto, Running, handshake, heap, objects, thread
<1>1. /\ pc[m] \in Free /\ pc'[m] \in Free
      /\ UNCHANGED <<handshake, at, tag, copy, edges, pc, want>>
  BY DEF Share, Free, Labels, Stopped
<1>2. Handshake' /\ ~Tracing /\ ~Tracing'
  BY <1>1, FreeMove DEF Alive
<1>3. \A j \in Mutators : \A p \in Objects :
        slot'[j][p] = IF j = k /\ p = o THEN slot[m][o] ELSE slot[j][p]
  <2>1. RootIs(k, o, slot[m][o])
    BY SlotWritten DEF Share
  <2>2. QED
    BY <2>1 DEF RootIs
<1>4. \A j \in Mutators : \A p \in Objects : slot'[j][p] \in {Nowhere, at'[p]}
  BY <1>1, <1>2, <1>3 DEF Alive, Rest
<1>5. Rest' /\ RootsTraced' /\ Forwarding'
  BY <1>1, <1>2, <1>4, StaysAtRest DEF Alive
<1>6. LargeStay'
  BY <1>1, <1>3 DEF Alive, LargeStay, Objects
<1>7. Requests'
  <2>1. ASSUME NEW l \in Mutators, want[l] # None, NEW j \in Mutators
        PROVE  slot'[j][want[l]] = Nowhere
    <3>1. want[l] \in Objects /\ \A i \in Mutators : slot[i][want[l]] = Nowhere
      BY <2>1 DEF Alive, Requests, PccTypes, Threads
    <3>2. QED
      BY <1>3, <3>1
  <2>2. QED
    BY <1>1, <2>1 DEF Alive, Requests
<1>8. QED
  BY <1>2, <1>5, <1>6, <1>7 DEF Alive

-------------------------------------------------------------------------------
(* Stopping, and the collecting thread between the ends of a collection *)

\* a step of a mutator by which none begins or ends to trace
LEMMA HandshakeStep ==
  ASSUME PccTypes, Alive, NEW m \in Mutators, ~Tracing, ~Tracing',
         \A t \in Threads \ {m} : pc'[t] = pc[t],
         UNCHANGED <<at, tag, copy, slot, edges, want>>, Handshake',
         pc'[m] \in {"alloc", "allocEmpty"} => want[m] \in Small,
         pc'[m] \in {"readPending", "pageOut", "allocLarge"} => want[m] \in Large
  PROVE  Alive'
<1>1. \A t \in Tracers : pc'[t] = pc[t]
  BY TracersApart
<1>2. Rest' /\ RootsTraced' /\ Forwarding'
  BY <1>1, StaysAtRest DEF Alive, Rest
<1>3. LargeStay'
  BY DEF Alive, LargeStay
<1>4. Requests'
  BY DEF Alive, Requests, Threads
<1>5. QED
  BY <1>2, <1>3, <1>4 DEF Alive

LEMMA WhereAfter ==
  ASSUME PccTypes, NEW m \in Mutators
  PROVE  /\ After(m) \in {"run", "alloc", "allocLarge"}
         /\ After(m) = "alloc" => want[m] \in Small
         /\ After(m) = "allocLarge" => want[m] \in Large
BY DEF After, PccTypes, Threads, Objects

LEMMA AliveStop ==
  ASSUME PccTypes, Alive, NEW m \in Mutators,
         \/ Deactivate(m) \/ Reactivate(m) \/ Pause(m) \/ Resume(m) \/ RequestStop(m) \/ Resize(m)
  PROVE  Alive'
<1> USE DEF At, Goto
<1>0. m \in Threads
  BY DEF Threads
<1>1. \A t \in Threads \ {m} : pc'[t] = pc[t]
  BY <1>0 DEF Deactivate, Reactivate, Pause, Resume, RequestStop, Resize, PccTypes
<1>2. \A k \in Mutators \ {m} : pc'[k] = pc[k]
  BY <1>1 DEF Threads
<1>3. UNCHANGED <<at, tag, copy, slot, edges, want>>
  BY DEF Deactivate, Reactivate, Pause, Resume, RequestStop, Resize, objects, roots
<1>4. \/ pc[m] = "leaving" /\ pc'[m] = "inactive" /\ paused' = paused /\ inactive' = inactive + 1
         /\ collecting' = collecting
      \/ pc[m] = "inactive" /\ pc'[m] = "run" /\ paused' = paused /\ inactive' = inactive - 1
         /\ ~collecting /\ collecting' = collecting
      \/ pc[m] \in {"triggered", "safepoint"} /\ pc'[m] = "paused" /\ paused' = paused + 1
         /\ inactive' = inactive /\ collecting' = collecting
      \/ pc[m] = "paused" /\ pc'[m] = After(m) /\ paused' = paused - 1 /\ inactive' = inactive
         /\ ~collecting /\ collecting' = collecting
      \/ pc[m] = "triggered" /\ pc'[m] = "stopping" /\ paused' = paused + 1 /\ inactive' = inactive
         /\ ~collecting /\ collecting' = TRUE
      \/ pc[m] = "resize" /\ pc'[m] = "resolve" /\ paused' = paused /\ inactive' = inactive
         /\ collecting' = collecting
  BY <1>0 DEF Deactivate, Reactivate, Pause, Resume, RequestStop, Resize, PccTypes, handshake
<1>5. /\ Num(Stopped)' = Num(Stopped) + (IF pc'[m] \in Stopped THEN 1 ELSE 0)
                           - (IF pc[m] \in Stopped THEN 1 ELSE 0)
      /\ Num({"inactive"})' = Num({"inactive"}) + (IF pc'[m] \in {"inactive"} THEN 1 ELSE 0)
                           - (IF pc[m] \in {"inactive"} THEN 1 ELSE 0)
      /\ Num(Stopped) \in Nat /\ Num({"inactive"}) \in Nat
  BY <1>2, MoveNum, NumType
<1>6. paused' = Num(Stopped)' /\ inactive' = Num({"inactive"})'
  BY <1>4, <1>5, WhereAfter DEF Alive, Handshake, Stopped
<1>7. ~Tracing /\ ~Tracing'
  <2>1. Tracing => collecting /\ pc[m] \in {"paused", "inactive", "tracing"}
    BY DEF Alive, Handshake, Tracing, InState, Control
  <2>2. ~Tracing
    BY <1>4, <2>1
  <2>3. QED
    BY <1>2, <1>4, <2>2, WhereAfter DEF Tracing
<1>8. /\ collecting' <=> InState(Control)' # {}
      /\ \A i, k \in InState(Control)' : i = k
  <2>1. CASE RequestStop(m)
    <3>1. pc'[m] = "stopping" /\ ~collecting /\ collecting'
      BY <1>0, <2>1 DEF RequestStop, PccTypes
    <3>2. InState(Control) = {}
      BY <3>1 DEF Alive, Handshake
    <3>3. InState(Control)' = {m}
      BY <1>2, <3>1, <3>2 DEF InState, Control
    <3>4. QED
      BY <3>1, <3>3
  <2>2. CASE ~RequestStop(m)
    <3>1. InState(Control)' = InState(Control)
      <4>1. pc'[m] \in Control <=> pc[m] \in Control
        BY <1>0, <2>2, WhereAfter DEF Deactivate, Reactivate, Pause, Resume, Resize, PccTypes, Control
      <4>2. QED
        BY <1>2, <4>1 DEF InState
    <3>2. collecting' = collecting
      BY <2>2 DEF Deactivate, Reactivate, Pause, Resume, Resize, handshake
    <3>3. QED
      BY <3>1, <3>2 DEF Alive, Handshake
  <2>3. QED
    BY <2>1, <2>2
<1>9. Handshake'
  BY <1>6, <1>7, <1>8 DEF Handshake, Tracing
<1>10. /\ pc'[m] \in {"alloc", "allocEmpty"} => want[m] \in Small
       /\ pc'[m] \in {"readPending", "pageOut", "allocLarge"} => want[m] \in Large
  BY <1>4, WhereAfter
<1>11. QED
  BY <1>1, <1>3, <1>7, <1>9, <1>10, HandshakeStep

LEMMA AliveStartGc ==
  ASSUME PccTypes, Alive, NEW m \in Mutators, StartGc(m)
  PROVE  Alive'
<1> USE DEF At
<1>1. /\ pc[m] = "stopping" /\ pc'[m] = "tracing"
      /\ \A k \in Mutators \ {m} : pc'[k] = pc[k]
      /\ \A t \in Tracers : pc'[t] = "idle"
  BY TracersApart DEF StartGc, Threads
<1>2. UNCHANGED <<collecting, paused, inactive, at, tag, copy, slot, want>>
  BY DEF StartGc, handshake
<1>3. \A k \in Mutators \ {m} : pc[k] \in {"paused", "inactive"}
  <2>1. \A k \in Mutators : pc[k] \in Stopped \cup {"inactive"}
    BY AllAreStopped DEF StartGc, Alive
  <2>2. \A k \in Mutators \ {m} : pc[k] \notin Control
    BY <1>1 DEF Alive, Handshake, InState, Control
  <2>3. QED
    BY <2>1, <2>2 DEF Stopped, Control
<1>4. Handshake'
  <2>1. /\ InState(Stopped)' = InState(Stopped) /\ InState({"inactive"})' = InState({"inactive"})
        /\ InState(Control)' = InState(Control)
    BY <1>1 DEF InState, Stopped, Control
  <2>2. \A k \in Mutators : pc'[k] = "tracing" => k = m
    BY <1>1, <1>3
  <2>3. \A k \in Mutators \ {m} : pc'[k] \in {"paused", "inactive"}
    BY <1>1, <1>3
  <2>4. QED
    BY <1>2, <2>1, <2>2, <2>3 DEF Alive, Handshake, Num
<1>5. Requests'
  <2>1. \A k \in Mutators : pc'[k] # pc[k] => pc'[k] = "tracing"
    BY <1>1
  <2>2. QED
    BY <1>2, <2>1 DEF Alive, Requests
<1>6. LargeStay'
  BY <1>2 DEF Alive, LargeStay
<1>7. Tracing' /\ ~Tracing
  BY <1>1, <1>3 DEF Tracing
<1>8. Rest'
  BY <1>7 DEF Rest
<1>9. RootsTraced'
  <2>1. edges' = {e \in Mutators \X Objects : slot[e[1]][e[2]] # Nowhere}
    BY DEF StartGc
  <2>2. \A k \in Mutators : \A o \in Objects : slot'[k][o] # Nowhere => <<k, o>> \in edges'
    BY <1>2, <2>1
  <2>3. \A e \in edges' : slot'[e[1]][e[2]] # Nowhere
    BY <1>2, <2>1
  <2>4. \A t \in Tracers : pc'[t] \notin Moving
    BY <1>1 DEF Moving
  <2>5. QED
    BY <2>2, <2>3, <2>4 DEF RootsTraced
<1>10. Forwarding'
  <2>1. \A o \in Small : copies'[o] = 0
    BY DEF StartGc, Objects
  <2>2. \A o \in Objects : ~Forwarded(o)'
    BY <1>2, <1>7 DEF Alive, Rest, Forwarded
  <2>3. \A t \in Tracers : pc'[t] \notin Owning \cup {"update"}
    BY <1>1 DEF Owning
  <2>4. QED
    BY <2>1, <2>2, <2>3 DEF Forwarding, Owning
<1>11. QED
  BY <1>4, <1>5, <1>6, <1>8, <1>9, <1>10 DEF Alive

\* when nothing is left to trace and no tracer has anything, every root is done
LEMMA AliveFinishGc ==
  ASSUME PccTypes, Alive, NEW m \in Mutators, FinishGc(m)
  PROVE  Alive'
<1> USE DEF At, Goto
<1>0. m \in Threads /\ m \notin Tracers
  BY PccAssumption DEF Threads
<1>1. /\ pc[m] = "tracing" /\ pc'[m] = "resize"
      /\ \A t \in Threads \ {m} : pc'[t] = pc[t]
  BY <1>0 DEF FinishGc, PccTypes
<1>2. \A k \in Mutators \ {m} : pc'[k] = pc[k]
  BY <1>1 DEF Threads
<1>3. /\ edges = {} /\ \A t \in Tracers : pc[t] = "parked"
      /\ UNCHANGED <<collecting, paused, inactive, slot, edges, edge, want>>
  BY DEF FinishGc, roots
<1>4. Tracing /\ \A k \in Mutators \ {m} : pc[k] \in {"paused", "inactive"}
  BY <1>1 DEF Alive, Handshake, Tracing
<1>5. ~Tracing'
  BY <1>1, <1>2, <1>4 DEF Tracing
<1>6. Handshake'
  <2>1. /\ InState(Stopped)' = InState(Stopped) /\ InState({"inactive"})' = InState({"inactive"})
        /\ InState(Control)' = InState(Control)
    BY <1>1, <1>2 DEF InState, Stopped, Control
  <2>2. QED
    BY <1>3, <1>5, <2>1 DEF Alive, Handshake, Num, Tracing
<1>7. Requests'
  <2>1. \A k \in Mutators : pc'[k] # pc[k] => pc'[k] = "resize"
    BY <1>1, <1>2
  <2>2. QED
    BY <1>3, <2>1 DEF Alive, Requests
<1>8. /\ \A o \in Large : at'[o] = IF o \in lmarked THEN InLarge ELSE Nowhere
      /\ \A o \in Small : at'[o] = copy[o].at
      /\ \A o \in Objects : tag'[o] = Live /\ copy'[o] = NoCopy
  BY PccAssumption DEF FinishGc, Objects
<1>9. LargeStay'
  BY <1>3, <1>8 DEF Alive, LargeStay
<1>10. ASSUME NEW k \in Mutators, NEW o \in Objects, slot[k][o] # Nowhere
       PROVE  slot[k][o] = at'[o]
  <2>1. \A t \in Tracers : pc[t] \notin Moving
    BY <1>3 DEF Moving
  <2>2. Done(k, o)
    BY <1>3, <1>4, <1>10, <2>1 DEF Alive, RootsTraced, InHand
  <2>3. CASE o \in Large
    BY <1>8, <1>10, <2>2, <2>3 DEF Done, Alive, LargeStay
  <2>4. CASE o \notin Large
    BY <1>8, <2>2, <2>4 DEF Done, Objects
  <2>5. QED
    BY <2>3, <2>4
<1>11. \A t \in Tracers : pc'[t] = "parked"
  BY <1>1, <1>3, TracersApart
<1>12. Rest'
  BY <1>3, <1>8, <1>10, <1>11 DEF Rest
<1>13. RootsTraced'
  BY <1>5 DEF RootsTraced
<1>14. Forwarding'
  <2>1. \A o \in Objects : ~Forwarded(o)'
    BY <1>8 DEF Forwarded
  <2>2. QED
    BY <1>5, <1>11, <2>1 DEF Forwarding, Owning
<1>15. QED
  BY <1>6, <1>7, <1>9, <1>12, <1>13, <1>14 DEF Alive

\* allow_mutators_to_continue, unless the process ends
LEMMA AliveResolve ==
  ASSUME PccTypes, Alive, NEW m \in Mutators, Resolve(m)
  PROVE  pc' = Dead \/ Alive'
<1> USE DEF At
<1>1. SUFFICES ASSUME pc' # Dead PROVE Alive'
  OBVIOUS
<1>2. /\ pc' = [pc EXCEPT ![m] = After(m)] /\ pc[m] = "resolve"
      /\ paused' = paused - 1 /\ inactive' = inactive
      /\ UNCHANGED <<at, tag, copy, slot, edges, want>>
  BY <1>1 DEF Resolve, objects, roots
<1>3. collecting' = FALSE
  BY Zenon DEF Resolve
<1>4. /\ pc'[m] = After(m) /\ After(m) \in {"run", "alloc", "allocLarge"}
      /\ \A t \in Threads \ {m} : pc'[t] = pc[t]
  BY <1>2, WhereAfter DEF PccTypes, Threads
<1>5. \A k \in Mutators \ {m} : pc'[k] = pc[k] /\ pc[k] \notin Control
  BY <1>2, <1>4 DEF Alive, Handshake, InState, Control, Threads
<1>6. ~Tracing /\ ~Tracing'
  BY <1>2, <1>4, <1>5 DEF Tracing, Control
<1>7. Handshake'
  <2>1. /\ Num(Stopped)' = Num(Stopped) + (IF pc'[m] \in Stopped THEN 1 ELSE 0)
                             - (IF pc[m] \in Stopped THEN 1 ELSE 0)
        /\ Num({"inactive"})' = Num({"inactive"}) + (IF pc'[m] \in {"inactive"} THEN 1 ELSE 0)
                             - (IF pc[m] \in {"inactive"} THEN 1 ELSE 0)
        /\ Num(Stopped) \in Nat /\ Num({"inactive"}) \in Nat
    BY <1>5, MoveNum, NumType
  <2>2. paused' = Num(Stopped)' /\ inactive' = Num({"inactive"})'
    BY <1>2, <1>4, <2>1 DEF Alive, Handshake, Stopped
  <2>3. InState(Control)' = {}
    BY <1>4, <1>5 DEF InState, Control
  <2>4. QED
    BY <1>3, <1>6, <2>2, <2>3 DEF Handshake, Tracing
<1>8. QED
  BY <1>2, <1>4, <1>6, <1>7, HandshakeStep, WhereAfter

-------------------------------------------------------------------------------
(* Tracers *)

\* a step of a tracer is part of a collection that goes on
LEMMA TracerStep ==
  ASSUME PccTypes, Alive, NEW t \in Tracers, pc[t] # "parked",
         \A u \in Threads \ {t} : pc'[u] = pc[u], UNCHANGED <<collecting, paused, inactive>>
  PROVE  Handshake' /\ Rest' /\ Tracing /\ Tracing'
<1>1. \A k \in Mutators : pc'[k] = pc[k]
  BY TracersApart DEF Threads
<1>2. Tracing
  BY DEF Alive, Rest
<1>3. Tracing'
  BY <1>1, <1>2 DEF Tracing
<1>4. \A S : InState(S)' = InState(S)
  BY <1>1 DEF InState
<1>5. Handshake'
  BY <1>1, <1>4 DEF Alive, Handshake, Num
<1>6. QED
  BY <1>2, <1>3, <1>5 DEF Rest

\* one that does not write a root
LEMMA TracerKeeps ==
  ASSUME PccTypes, Alive, NEW t \in Tracers, \A u \in Threads \ {t} : pc'[u] = pc[u],
         UNCHANGED <<at, slot>>, \A u \in Threads \ {t} : want'[u] = want[u]
  PROVE  Requests' /\ LargeStay'
<1>1. \A k \in Mutators : pc'[k] = pc[k] /\ want'[k] = want[k]
  BY TracersApart DEF Threads
<1>2. QED
  BY <1>1 DEF Alive, Requests, LargeStay

\* a tracer that keeps its root in hand, and forwards nothing
LEMMA RootsStay ==
  ASSUME Alive, Tracing, NEW t \in Tracers, \A u \in Tracers \ {t} : pc'[u] = pc[u],
         pc[t] \in Moving <=> pc'[t] \in Moving, UNCHANGED <<slot, edges, edge, lmarked>>,
         \A o \in Objects : Forwarded(o) => Forwarded(o)' /\ copy'[o].at = copy[o].at
  PROVE  RootsTraced'
<1>1. \A u \in Tracers : pc[u] \in Moving <=> pc'[u] \in Moving
  OBVIOUS
<1>2. \A m \in Mutators : \A o \in Objects : InHand(m, o) => InHand(m, o)'
  BY <1>1 DEF InHand
<1>3. \A m \in Mutators : \A o \in Objects : Done(m, o) => Done(m, o)'
  BY DEF Done
<1>4. QED
  BY <1>1, <1>2, <1>3 DEF Alive, RootsTraced

LEMMA InHandIsSmall ==
  ASSUME Alive, NEW t \in Tracers, pc[t] \in Moving
  PROVE  /\ edge[t] \in Mutators \X Small /\ Of(t) \in Small /\ Of(t) \in Objects
         /\ slot[edge[t][1]][Of(t)] # Nowhere
<1>1. Tracing
  BY DEF Alive, Rest, Moving
<1>2. QED
  BY <1>1 DEF Alive, RootsTraced, Of, Objects

LEMMA AliveTakeRoot ==
  ASSUME PccTypes, Alive, NEW t \in Tracers, TakeRoot(t)
  PROVE  Alive'
<1> PICK e \in edges :
      /\ edges' = edges \ {e}
      /\ \/ /\ e[2] \in Large /\ lmarked' = lmarked \cup {e[2]} /\ UNCHANGED <<edge, pc>>
         \/ /\ e[2] \in Small /\ edge' = [edge EXCEPT ![t] = e] /\ Goto(t, "begin")
            /\ UNCHANGED lmarked
  BY DEF TakeRoot
<1>1. /\ pc[t] = "idle" /\ t \in Threads /\ e \in Mutators \X Objects
      /\ UNCHANGED <<collecting, paused, inactive, at, tag, copy, copies, slot, want>>
  BY TracersApart DEF TakeRoot, At, handshake, PccTypes
<1>2. \A u \in Threads \ {t} : pc'[u] = pc[u]
  BY DEF Goto, PccTypes
<1>3. Handshake' /\ Rest' /\ Tracing /\ Tracing'
  BY <1>1, <1>2, TracerStep
<1>4. Requests' /\ LargeStay'
  BY <1>1, <1>2, TracerKeeps
<1>5. \A u \in Tracers \ {t} : edge'[u] = edge[u] /\ pc'[u] = pc[u]
  BY <1>2, TracersApart DEF PccTypes
<1>6. \/ pc'[t] = "idle"
      \/ pc'[t] = "begin" /\ edge'[t] = e /\ e \in Mutators \X Small
  BY <1>1 DEF Goto, PccTypes
<1>7. RootsTraced'
  <2>1. ASSUME NEW m \in Mutators, NEW o \in Objects, slot'[m][o] # Nowhere
        PROVE  (<<m, o>> \in edges \/ InHand(m, o) \/ Done(m, o))'
    <3>1. CASE InHand(m, o)
      <4>1. InHand(m, o)'
        BY <1>1, <1>5, <3>1 DEF InHand, Moving
      <4>2. QED
        BY <4>1
    <3>2. CASE Done(m, o)
      <4>1. Done(m, o)'
        BY <1>1, <3>2 DEF Done, Forwarded
      <4>2. QED
        BY <4>1
    <3>3. CASE <<m, o>> \in edges /\ <<m, o>> # e
      BY <3>3
    <3>4. CASE <<m, o>> = e
      <4>1. CASE e[2] \in Large /\ lmarked' = lmarked \cup {e[2]}
        <5>1. Done(m, o)'
          BY <3>4, <4>1 DEF Done
        <5>2. QED
          BY <5>1
      <4>2. CASE e[2] \in Small /\ edge' = [edge EXCEPT ![t] = e] /\ Goto(t, "begin")
        <5>1. pc'[t] = "begin" /\ edge'[t] = e
          BY <1>1, <4>2 DEF Goto, PccTypes
        <5>2. InHand(m, o)'
          BY <3>4, <5>1 DEF InHand, Moving
        <5>3. QED
          BY <5>2
      <4>3. QED
        BY <4>1, <4>2
    <3>5. <<m, o>> \in edges \/ InHand(m, o) \/ Done(m, o)
      BY <1>1, <1>3, <2>1 DEF Alive, RootsTraced
    <3>6. QED
      BY <3>1, <3>2, <3>3, <3>4, <3>5
  <2>2. \A d \in edges' : slot'[d[1]][d[2]] # Nowhere
    BY <1>1, <1>3 DEF Alive, RootsTraced
  <2>3. ASSUME NEW u \in Tracers, pc'[u] \in Moving
        PROVE  edge'[u] \in Mutators \X Small /\ slot'[edge'[u][1]][edge'[u][2]] # Nowhere
    <3>1. CASE u = t
      BY <1>1, <1>3, <1>6, <2>3, <3>1 DEF Alive, RootsTraced, Moving
    <3>2. CASE u # t
      BY <1>1, <1>3, <1>5, <2>3, <3>2 DEF Alive, RootsTraced
    <3>3. QED
      BY <3>1, <3>2
  <2>4. QED
    BY <2>1, <2>2, <2>3 DEF RootsTraced
<1>8. Forwarding'
  <2>1. \A u \in Tracers : pc'[u] \in Owning \cup {"update"} =>
          u # t /\ pc'[u] = pc[u] /\ Of(u)' = Of(u)
    BY <1>5, <1>6 DEF Owning, Of
  <2>2. /\ \A o \in Small : tag'[o] = Live => copies'[o] = 0
        /\ \A o \in Objects : Forwarded(o)' =>
             tag'[o] = copy'[o].at /\ copy'[o].tag = Live /\ IsAddress(tag'[o])
    BY <1>1, <1>3 DEF Alive, Forwarding, Forwarded
  <2>3. ASSUME NEW u \in Tracers
        PROVE  /\ pc'[u] \in Owning => tag'[Of(u)'] = Busy
               /\ pc'[u] \in {"alloc", "allocEmpty"} => want'[u] = Of(u)' /\ copies'[Of(u)'] = 0
               /\ pc'[u] \in {"commitTag", "commit"} => IsAddress(copy'[Of(u)'].at)
               /\ pc'[u] = "commit" => copy'[Of(u)'].tag = Live
               /\ pc'[u] = "update" => tag'[Of(u)'] \notin {Live, Busy}
               /\ \A v \in Tracers :
                    pc'[u] \in Owning /\ pc'[v] \in Owning /\ Of(u)' = Of(v)' => u = v
    BY <1>1, <2>1 DEF Alive, Forwarding, Owning, Forwarded
  <2>4. QED
    BY <2>2, <2>3 DEF Forwarding, Forwarded
<1>9. QED
  BY <1>3, <1>4, <1>7, <1>8 DEF Alive

\* what tracer t has to know of the object that it has in hand
Knows(t) ==
  /\ pc[t] \in Owning => tag[Of(t)] = Busy
  /\ pc[t] \in {"alloc", "allocEmpty"} => want[t] = Of(t) /\ copies[Of(t)] = 0
  /\ pc[t] \in {"commitTag", "commit"} => IsAddress(copy[Of(t)].at)
  /\ pc[t] = "commit" => copy[Of(t)].tag = Live
  /\ pc[t] = "update" => Forwarded(Of(t))
\* what holds of an object whose word is one or the other
Consistent(o) ==
  /\ o \in Small /\ tag[o] = Live => copies[o] = 0
  /\ Forwarded(o) => tag[o] = copy[o].at /\ copy[o].tag = Live /\ IsAddress(tag[o])

LEMMA ForwardingParts ==
  /\ Forwarding /\ Tracing => /\ \A t \in Tracers : Knows(t)
                              /\ \A o \in Objects : Consistent(o)
  /\ /\ \A t \in Tracers : Knows(t)
     /\ \A o \in Objects : Consistent(o)
     /\ \A t, u \in Tracers : pc[t] \in Owning /\ pc[u] \in Owning /\ Of(t) = Of(u) => t = u
     => Forwarding
<1>1. Forwarding /\ Tracing => \A o \in Objects : Consistent(o)
  BY DEF Forwarding, Consistent
<1>2. Forwarding => \A t \in Tracers : Knows(t)
  BY DEF Forwarding, Knows
<1>3. ASSUME /\ \A t \in Tracers : Knows(t)
             /\ \A o \in Objects : Consistent(o)
             /\ \A t, u \in Tracers : pc[t] \in Owning /\ pc[u] \in Owning /\ Of(t) = Of(u) => t = u
      PROVE  Forwarding
  BY <1>3 DEF Forwarding, Knows, Consistent, Objects
<1>4. QED
  BY <1>1, <1>2, <1>3

\* a step of tracer t that touches no object but the one in its hand, which
\* nobody else owns
LEMMA ForwardingStep ==
  ASSUME Forwarding, Tracing, NEW t \in Tracers, NEW o \in Objects, o = Of(t),
         \A u \in Tracers \ {t} : pc'[u] = pc[u] /\ want'[u] = want[u] /\ edge'[u] = edge[u],
         \A p \in Objects \ {o} : tag'[p] = tag[p] /\ copy'[p] = copy[p] /\ copies'[p] = copies[p],
         \A u \in Tracers \ {t} : pc[u] \in Moving => Of(u) \in Objects,
         pc'[t] \in Owning => edge'[t] = edge[t],
         \/ \A u \in Tracers \ {t} : pc[u] \in Owning => Of(u) # o
         \/ UNCHANGED <<tag, copy, copies>> /\ pc'[t] \notin Owning,
         Forwarded(o) => Forwarded(o)',
         Knows(t)', Consistent(o)'
  PROVE  Forwarding'
<1>1. /\ \A u \in Tracers : Knows(u)
      /\ \A p \in Objects : Consistent(p)
  BY ForwardingParts
<1>2. ASSUME NEW u \in Tracers \ {t} PROVE Knows(u)'
  <2>1. Of(u)' = Of(u) /\ pc'[u] = pc[u] /\ want'[u] = want[u]
    BY DEF Of
  <2>2. pc[u] \in Moving => Of(u) \in Objects
    OBVIOUS
  <2>3. CASE Of(u) = o
    <3>1. pc[u] \in Owning => UNCHANGED <<tag, copy, copies>>
      BY <2>3
    <3>2. QED
      BY <1>1, <2>1, <2>3, <3>1 DEF Knows, Owning
  <2>4. CASE Of(u) # o /\ Of(u) \in Objects
    <3>1. /\ tag'[Of(u)] = tag[Of(u)] /\ copy'[Of(u)] = copy[Of(u)]
          /\ copies'[Of(u)] = copies[Of(u)]
      BY <2>4
    <3>2. QED
      BY <1>1, <2>1, <3>1 DEF Knows, Forwarded
  <2>5. CASE pc[u] \notin Moving
    BY <2>1, <2>5 DEF Knows, Moving, Owning
  <2>6. QED
    BY <2>2, <2>3, <2>4, <2>5
<1>3. \A p \in Objects \ {o} : Consistent(p)'
  BY <1>1 DEF Consistent, Forwarded
<1>4. ASSUME NEW u \in Tracers, NEW v \in Tracers, pc'[u] \in Owning, pc'[v] \in Owning,
             Of(u)' = Of(v)'
      PROVE  u = v
  <2>1. CASE u # t /\ v # t
    BY <1>4, <2>1 DEF Forwarding, Of
  <2>2. CASE u = t /\ v # t
    BY <1>4, <2>2 DEF Of
  <2>3. CASE u # t /\ v = t
    BY <1>4, <2>3 DEF Of
  <2>4. QED
    BY <2>1, <2>2, <2>3
<1>5. /\ \A u \in Tracers : Knows(u)'
      /\ \A p \in Objects : Consistent(p)'
  BY <1>2, <1>3
<1>6. QED
  BY <1>4, <1>5 DEF Forwarding, Knows, Consistent, Objects

\* all but taking and writing a root
LEMMA AliveInHand ==
  ASSUME PccTypes, Alive, NEW t \in Tracers,
         Begin(t) \/ Acquire(t) \/ AllocateStep(t) \/ Copy(t) \/ CommitTag(t) \/ Commit(t)
  PROVE  Alive'
<1> USE DEF At, Goto
<1>0. t \in Threads /\ t \notin Mutators
  BY TracersApart
<1>1. /\ pc[t] \in Moving /\ pc'[t] \in Moving
      /\ \A u \in Threads \ {t} : pc'[u] = pc[u] /\ want'[u] = want[u]
      /\ UNCHANGED <<collecting, paused, inactive, at, slot, edges, edge, lmarked>>
  <2>1. pc[t] \in Moving /\ pc'[t] \in Moving /\ \A u \in Threads \ {t} : pc'[u] = pc[u]
    BY <1>0 DEF Begin, ByTag, Acquire, AllocateStep, ReleaseFullBlock, AcquirePartlyFullBlock,
         AcquireEmptyBlock, Copy, CommitTag, Commit, PccTypes, Moving
  <2>2. \A u \in Threads \ {t} : want'[u] = want[u]
    BY <1>0 DEF Begin, Acquire, AllocateStep, ReleaseFullBlock, AcquirePartlyFullBlock,
         AcquireEmptyBlock, Copy, CommitTag, Commit, PccTypes
  <2>3. UNCHANGED <<collecting, paused, inactive, at, slot, edges, edge, lmarked>>
    BY DEF Begin, Acquire, AllocateStep, ReleaseFullBlock, AcquirePartlyFullBlock,
         AcquireEmptyBlock, Copy, CommitTag, Commit, handshake, objects, roots
  <2>4. QED
    BY <2>1, <2>2, <2>3
<1>2. Handshake' /\ Rest' /\ Tracing /\ Tracing'
  <2>1. pc[t] # "parked"
    BY <1>1 DEF Moving
  <2>2. QED
    BY <1>1, <2>1, TracerStep
<1>3. Requests' /\ LargeStay'
  BY <1>1, TracerKeeps
<1>4. PICK o \in Objects : o = Of(t)
  BY <1>1, InHandIsSmall
<1>5. Knows(t) /\ Consistent(o)
  BY <1>2, <1>4, ForwardingParts DEF Alive
<1>6. \A u \in Tracers \ {t} : pc[u] \in Moving => Of(u) \in Objects
  BY InHandIsSmall
<1>7. pc[t] \in Owning => \A u \in Tracers \ {t} : pc[u] \in Owning => Of(u) # o
  BY <1>4 DEF Alive, Forwarding
<1>8. Of(t)' = o /\ o \in Small
  BY <1>1, <1>4, InHandIsSmall DEF Of
<1>9. /\ \A p \in Objects \ {o} :
           tag'[p] = tag[p] /\ copy'[p] = copy[p] /\ copies'[p] = copies[p]
      /\ \/ \A u \in Tracers \ {t} : pc[u] \in Owning => Of(u) # o
         \/ UNCHANGED <<tag, copy, copies>> /\ pc'[t] \notin Owning
      /\ Forwarded(o) => Forwarded(o)' /\ copy'[o].at = copy[o].at
      /\ Knows(t)' /\ Consistent(o)'
  <2>1. CASE Begin(t)
    <3>1. UNCHANGED <<tag, copy, copies>>
      BY <1>4, <2>1 DEF Begin, objects
    <3>2. \/ pc'[t] = "acquire"
          \/ pc'[t] = "busy"
          \/ pc'[t] = "update" /\ tag[o] # Live /\ tag[o] # Busy
      BY <1>4, <1>0, <2>1 DEF Begin, ByTag, PccTypes
    <3>3. pc'[t] \notin Owning /\ Knows(t)'
      BY <1>4, <1>8, <3>1, <3>2 DEF Knows, Owning, Forwarded
    <3>4. QED
      BY <1>4, <1>5, <3>1, <3>3 DEF Consistent, Forwarded
  <2>2. CASE Acquire(t) /\ tag[o] # Live
    <3>1. UNCHANGED <<tag, copy, copies>>
      BY <1>4, <2>2 DEF Acquire, Of
    <3>2. \/ pc'[t] = "busy"
          \/ pc'[t] = "update" /\ tag[o] # Live /\ tag[o] # Busy
      BY <1>4, <1>0, <2>2 DEF Acquire, ByTag, PccTypes
    <3>3. pc'[t] \notin Owning /\ Knows(t)'
      BY <1>4, <1>8, <3>1, <3>2 DEF Knows, Owning, Forwarded
    <3>4. QED
      BY <1>4, <1>5, <3>1, <3>3 DEF Consistent, Forwarded
  <2>3. CASE Acquire(t) /\ tag[o] = Live
    <3>1. /\ pc'[t] = "alloc" /\ want'[t] = o /\ UNCHANGED <<copy, copies>>
          /\ tag'[o] = Busy /\ \A p \in Objects \ {o} : tag'[p] = tag[p]
      BY <1>4, <1>0, <2>3 DEF Acquire, PccTypes
    <3>2. copies[o] = 0 /\ ~Forwarded(o) /\ ~Forwarded(o)'
      BY  <1>5, <1>8, <2>3, <3>1 DEF Consistent, Forwarded
    <3>3. \A u \in Tracers \ {t} : pc[u] \in Owning => Of(u) # o
      BY <1>4, <2>3, Words DEF Alive, Forwarding
    <3>4. Knows(t)'
      BY <1>4, <1>8, <3>1, <3>2 DEF Knows
    <3>5. Consistent(o)'
      BY <1>4, <3>1, <3>2, Words DEF Consistent
    <3>6. QED
      BY <1>4, <3>1, <3>2, <3>3, <3>4, <3>5
  <2>4. CASE AllocateStep(t)
    <3>1. /\ UNCHANGED <<tag, copy, copies, want>>
          /\ pc[t] \in {"alloc", "allocEmpty"} /\ pc'[t] \in {"alloc", "allocEmpty"}
      BY <1>4, <1>0, <2>4 DEF AllocateStep, ReleaseFullBlock, AcquirePartlyFullBlock,
           AcquireEmptyBlock, objects, PccTypes
    <3>2. Knows(t)'
      BY <1>4, <1>5, <1>8, <3>1 DEF Knows, Owning
    <3>3. QED
      BY <1>4, <1>5, <1>7, <3>1, <3>2 DEF Consistent, Forwarded, Owning
  <2>5. CASE Copy(t)
    <3>1. /\ pc[t] = "alloc" /\ pc'[t] = "commitTag" /\ tag' = tag
          /\ copy'[o] = [at |-> Here(t), tag |-> Busy] /\ copies'[o] = copies[o] + 1
          /\ \A p \in Objects \ {o} : copy'[p] = copy[p] /\ copies'[p] = copies[p]
      BY <1>4, <1>0, <2>5 DEF Copy, PccTypes
    <3>2. IsAddress(Here(t))
      <4>1. Here(t).region = space["active"]
        BY DEF Here
      <4>2. QED
        BY <4>1 DEF IsAddress, PccTypes, IsSpace
    <3>3. copy'[o].at = Here(t)
      BY <1>4, <3>1
    <3>4. tag[o] = Busy /\ ~Forwarded(o) /\ ~Forwarded(o)'
      BY <1>4, <1>5, <3>1 DEF Knows, Owning, Forwarded
    <3>5. Knows(t)'
      BY <1>4, <1>8, <3>1, <3>2, <3>3, <3>4 DEF Knows, Owning
    <3>6. Consistent(o)'
      BY <1>4, <3>1, <3>4, Words DEF Consistent
    <3>7. QED
      BY <1>4, <1>7, <3>1, <3>4, <3>5, <3>6 DEF Owning
  <2>6. CASE CommitTag(t)
    <3>1. /\ pc[t] = "commitTag" /\ pc'[t] = "commit" /\ UNCHANGED <<tag, copies>>
          /\ copy'[o].tag = Live /\ copy'[o].at = copy[o].at
          /\ \A p \in Objects \ {o} : copy'[p] = copy[p]
      BY <1>4, <1>0, <2>6 DEF CommitTag, PccTypes
    <3>2. tag[o] = Busy /\ ~Forwarded(o) /\ ~Forwarded(o)'
      BY <1>4, <1>5, <3>1 DEF Knows, Owning, Forwarded
    <3>3. Knows(t)'
      BY <1>4, <1>5, <1>8, <3>1, <3>2 DEF Knows, Owning
    <3>4. Consistent(o)'
      BY <1>4, <3>1, <3>2, Words DEF Consistent
    <3>5. QED
      BY <1>4, <1>7, <3>1, <3>2, <3>3, <3>4 DEF Owning
  <2>7. CASE Commit(t)
    <3>1. /\ pc[t] = "commit" /\ pc'[t] = "update" /\ UNCHANGED <<copy, copies>>
          /\ tag'[o] = copy[o].at /\ \A p \in Objects \ {o} : tag'[p] = tag[p]
      BY <1>4, <1>0, <2>7 DEF Commit, PccTypes
    <3>2. tag[o] = Busy /\ IsAddress(copy[o].at) /\ copy[o].tag = Live
      BY <1>4, <1>5, <3>1 DEF Knows, Owning
    <3>3. Forwarded(o)'
      BY <1>4, <3>1, <3>2, Words DEF Forwarded
    <3>4. Knows(t)'
      BY <1>4, <1>8, <3>1, <3>3 DEF Knows, Owning
    <3>5. Consistent(o)'
      BY <1>4, <3>1, <3>2, Words DEF Consistent
    <3>6. QED
      BY <1>4, <1>7, <3>1, <3>3, <3>4, <3>5 DEF Owning
  <2>8. QED
    BY <1>4, <2>1, <2>2, <2>3, <2>4, <2>5, <2>6, <2>7
<1>10. Forwarding'
  <2>1. \A u \in Tracers \ {t} : pc'[u] = pc[u] /\ want'[u] = want[u] /\ edge'[u] = edge[u]
    BY <1>1, TracersApart
  <2>2. edge'[t] = edge[t]
    BY <1>1
  <2>3. QED
    BY <1>2, <1>4, <1>6, <1>9, <2>1, <2>2, ForwardingStep DEF Alive
<1>11. RootsTraced'
  <2>1. \A p \in Objects : Forwarded(p) => Forwarded(p)' /\ copy'[p].at = copy[p].at
    BY <1>9 DEF Forwarded
  <2>2. \A u \in Tracers \ {t} : pc'[u] = pc[u]
    BY <1>1, TracersApart
  <2>3. QED
    BY <1>1, <1>2, <2>1, <2>2, RootsStay
<1>12. QED
  BY <1>2, <1>3, <1>10, <1>11 DEF Alive

\* the root in hand gets the address of the copy
LEMMA AliveUpdate ==
  ASSUME PccTypes, Alive, NEW t \in Tracers, Update(t)
  PROVE  Alive'
<1> USE DEF At, Goto
<1>1. /\ pc[t] = "update" /\ pc'[t] = "idle" /\ t \in Threads
      /\ \A u \in Threads \ {t} : pc'[u] = pc[u]
      /\ \A u \in Tracers \ {t} : edge'[u] = edge[u]
      /\ UNCHANGED <<collecting, paused, inactive, at, tag, copy, copies, lmarked, edges, want>>
  <2>1. t \in Threads
    BY TracersApart
  <2>2. /\ pc[t] = "update" /\ pc' = [pc EXCEPT ![t] = "idle"]
        /\ edge' = [edge EXCEPT ![t] = NoEdge]
        /\ UNCHANGED <<collecting, paused, inactive, at, tag, copy, copies, lmarked, edges, want>>
    BY DEF Update, handshake, objects
  <2>3. QED
    BY <2>1, <2>2 DEF PccTypes
<1>2. Handshake' /\ Rest' /\ Tracing /\ Tracing'
  BY <1>1, TracerStep
<1>3. pc[t] \in Moving
  BY <1>1 DEF Moving
<1>4. PICK k \in Mutators, o \in Small : edge[t] = <<k, o>>
  BY <1>3, InHandIsSmall
<1>5. o \in Objects /\ o = Of(t) /\ slot[k][o] # Nowhere
  BY <1>3, <1>4, InHandIsSmall DEF Of, Objects
<1>6. Forwarded(o) /\ tag[o] = copy[o].at /\ tag[o] # Nowhere
  BY <1>1, <1>5, Words DEF Alive, Forwarding
<1>7. \A m \in Mutators : \A p \in Objects :
        slot'[m][p] = IF m = k /\ p = o THEN tag[o] ELSE slot[m][p]
  <2>1. slot' = [slot EXCEPT ![k][o] = tag[o]]
    BY <1>4, <1>5 DEF Update
  <2>2. RootIs(k, o, tag[o])
    BY <1>5, <2>1, SlotWritten
  <2>3. QED
    BY <2>2 DEF RootIs
<1>8. \A u \in Tracers \ {t} : pc'[u] = pc[u] /\ edge'[u] = edge[u]
  BY <1>1, TracersApart
<1>9. Requests'
  <2>1. ASSUME NEW m \in Mutators, want[m] # None, NEW j \in Mutators
        PROVE  slot'[j][want[m]] = Nowhere
    <3>1. want[m] \in Objects /\ \A i \in Mutators : slot[i][want[m]] = Nowhere
      BY <2>1 DEF Alive, Requests, PccTypes, Threads
    <3>2. want[m] # o
      BY <1>5, <3>1
    <3>3. QED
      BY <1>7, <3>1, <3>2
  <2>2. \A m \in Mutators : pc'[m] = pc[m]
    BY <1>1, TracersApart DEF Threads
  <2>3. QED
    BY <1>1, <2>1, <2>2 DEF Alive, Requests
<1>10. LargeStay'
  <2>1. o \notin Large
    BY PccAssumption
  <2>2. QED
    BY <1>1, <1>7, <2>1 DEF Alive, LargeStay, Objects
<1>11. RootsTraced'
  <2>1. ASSUME NEW m \in Mutators, NEW p \in Objects, slot'[m][p] # Nowhere
        PROVE  (<<m, p>> \in edges \/ InHand(m, p) \/ Done(m, p))'
    <3>1. CASE m = k /\ p = o
      <4>1. Done(m, p)'
        BY <1>1, <1>6, <1>7, <3>1, PccAssumption DEF Done, Forwarded, Objects
      <4>2. QED
        BY <4>1
    <3>2. CASE ~(m = k /\ p = o)
      <4>1. slot'[m][p] = slot[m][p]
        BY <1>7, <3>2
      <4>2. <<m, p>> \in edges \/ InHand(m, p) \/ Done(m, p)
        BY <1>2, <2>1, <4>1 DEF Alive, RootsTraced
      <4>3. InHand(m, p) => InHand(m, p)'
        BY <1>4, <1>8, <3>2 DEF InHand
      <4>4. Done(m, p) => Done(m, p)'
        BY <1>1, <4>1 DEF Done, Forwarded
      <4>5. QED
        BY <1>1, <4>2, <4>3, <4>4
    <3>3. QED
      BY <3>1, <3>2
  <2>2. \A m \in Mutators : \A p \in Objects : slot[m][p] # Nowhere => slot'[m][p] # Nowhere
    BY <1>6, <1>7
  <2>3. \A e \in edges' : slot'[e[1]][e[2]] # Nowhere
    BY <1>1, <1>2, <2>2 DEF Alive, RootsTraced, PccTypes
  <2>4. ASSUME NEW u \in Tracers, pc'[u] \in Moving
        PROVE  edge'[u] \in Mutators \X Small /\ slot'[edge'[u][1]][edge'[u][2]] # Nowhere
    <3>1. u # t
      BY <1>1, <2>4 DEF Moving
    <3>2. /\ edge'[u] = edge[u] /\ edge[u] \in Mutators \X Small
          /\ slot[edge[u][1]][edge[u][2]] # Nowhere
      BY <1>2, <1>8, <2>4, <3>1 DEF Alive, RootsTraced
    <3>3. QED
      BY <2>2, <3>2 DEF Objects
  <2>5. QED
    BY <2>1, <2>3, <2>4 DEF RootsTraced
<1>12. Forwarding'
  <2>1. \A u \in Tracers : pc'[u] \in Owning \cup {"update"} =>
          u # t /\ pc'[u] = pc[u] /\ Of(u)' = Of(u)
    BY <1>1, <1>8 DEF Owning, Of
  <2>2. \A u \in Tracers : Knows(u)'
    BY <1>1, <1>2, <2>1, ForwardingParts DEF Alive, Knows, Owning, Forwarded
  <2>3. \A p \in Objects : Consistent(p)'
    BY <1>1, <1>2, ForwardingParts DEF Alive, Consistent, Forwarded
  <2>4. \A u, v \in Tracers : pc'[u] \in Owning /\ pc'[v] \in Owning /\ Of(u)' = Of(v)' => u = v
    BY <2>1 DEF Alive, Forwarding
  <2>5. QED
    BY <2>2, <2>3, <2>4 DEF Forwarding, Knows, Consistent, Objects
<1>13. QED
  BY <1>2, <1>9, <1>10, <1>11, <1>12 DEF Alive

LEMMA AlivePark ==
  ASSUME PccTypes, Alive, NEW t \in Tracers, Park(t)
  PROVE  Alive'
<1> USE DEF At, Goto
<1>1. /\ pc[t] = "idle" /\ pc'[t] = "parked" /\ edges = {}
      /\ \A u \in Threads \ {t} : pc'[u] = pc[u]
      /\ UNCHANGED <<collecting, paused, inactive, at, tag, copy, copies, lmarked, slot, edges,
                     edge, want>>
  BY TracersApart DEF Park, PccTypes, handshake, objects, roots
<1>2. Handshake' /\ Rest' /\ Tracing /\ Tracing'
  BY <1>1, TracerStep
<1>3. Requests' /\ LargeStay'
  BY <1>1, TracerKeeps
<1>4. \A u \in Tracers \ {t} : pc'[u] = pc[u]
  BY <1>1, TracersApart
<1>5. RootsTraced'
  BY <1>1, <1>2, <1>4, RootsStay DEF Moving, Forwarded
<1>6. Forwarding'
  <2>1. \A u \in Tracers : pc'[u] \in Owning \cup {"update"} =>
          u # t /\ pc'[u] = pc[u] /\ Of(u)' = Of(u)
    BY <1>1, <1>4 DEF Owning, Of
  <2>2. \A u \in Tracers : Knows(u)'
    BY <1>1, <1>2, <2>1, ForwardingParts DEF Alive, Knows, Owning, Forwarded
  <2>3. \A p \in Objects : Consistent(p)'
    BY <1>1, <1>2, ForwardingParts DEF Alive, Consistent, Forwarded
  <2>4. \A u, v \in Tracers : pc'[u] \in Owning /\ pc'[v] \in Owning /\ Of(u)' = Of(v)' => u = v
    BY <2>1 DEF Alive, Forwarding
  <2>5. QED
    BY <2>2, <2>3, <2>4 DEF Forwarding, Knows, Consistent, Objects
<1>7. QED
  BY <1>2, <1>3, <1>5, <1>6 DEF Alive

-------------------------------------------------------------------------------
(* All together *)

LEMMA AliveCopied ==
  ASSUME PccTypes, Alive, \A o \in Small : copies[o] <= 1
  PROVE  CopiedOnce
<1>1. \A o \in Small : tag[o] \notin {Live, Busy} => tag[o] = copy[o].at /\ copy[o].tag = Live
  BY DEF Alive, Forwarding, Forwarded, Objects
<1>2. ASSUME ~collecting
      PROVE  \A m \in Mutators : \A o \in Objects : slot[m][o] \in {Nowhere, at[o]}
  <2>1. ~Tracing
    BY <1>2 DEF Alive, Handshake, Tracing, InState, Control
  <2>2. QED
    BY <2>1 DEF Alive, Rest
<1>3. QED
  BY <1>1, <1>2 DEF CopiedOnce

LEMMA InvInit == PccInit => PccInv
<1> SUFFICES ASSUME PccInit PROVE PccInv
  OBVIOUS
<1>1. PccTypes
  BY TypesInit
<1>2. /\ \A m \in Mutators : pc[m] = "run"
      /\ \A t \in Tracers : pc[t] = "parked"
  BY PccAssumption DEF PccInit, Threads
<1>3. ~Tracing
  BY <1>2 DEF Tracing
<1>4. Handshake
  <2>1. InState(Stopped) = {} /\ InState({"inactive"}) = {} /\ InState(Control) = {}
    BY <1>2 DEF InState, Stopped, Control
  <2>2. Num(Stopped) = 0 /\ Num({"inactive"}) = 0
    BY <2>1, FS_EmptySet DEF Num
  <2>3. ~collecting
    BY Zenon DEF PccInit
  <2>4. paused = 0 /\ inactive = 0
    BY DEF PccInit
  <2>5. QED
    BY <1>3, <2>1, <2>2, <2>3, <2>4 DEF Handshake, Tracing
<1>5. Requests
  <2>1. \A m \in Mutators : want[m] = None
    BY DEF PccInit, Threads
  <2>2. QED
    BY <1>2, <2>1 DEF Requests
<1>6. LargeStay
  BY DEF PccInit, LargeStay, Objects
<1>7. Rest
  <2>1. \A o \in Objects : tag[o] = Live /\ copy[o] = NoCopy
    BY DEF PccInit
  <2>2. \A m \in Mutators : \A o \in Objects : slot[m][o] = Nowhere
    BY DEF PccInit
  <2>3. edges = {}
    BY DEF PccInit
  <2>4. QED
    BY <1>2, <2>1, <2>2, <2>3 DEF Rest
<1>8. RootsTraced
  BY <1>3 DEF RootsTraced
<1>9. Forwarding
  BY <1>2, <1>3, <1>7 DEF Forwarding, Rest, Owning, Forwarded
<1>10. Alive
  BY <1>4, <1>5, <1>6, <1>7, <1>8, <1>9 DEF Alive
<1>11. \A o \in Small : copies[o] <= 1
  BY DEF PccInit, Objects
<1>12. QED
  BY <1>1, <1>10, <1>11, AliveCopied DEF PccInv

\* copies are made of what had none
LEMMA CopiesBounded ==
  ASSUME PccTypes, Alive, CopiedOnce, PccNext, NEW o \in Small
  PROVE  copies'[o] <= 1
<1>1. copies[o] <= 1 /\ copies[o] \in Nat
  BY DEF CopiedOnce, PccTypes, Objects
<1>2. CASE copies' = copies
  BY <1>1, <1>2
<1>3. CASE \E m \in Mutators : StartGc(m)
  BY <1>3 DEF StartGc, Objects
<1>4. CASE \E t \in Tracers : Copy(t)
  <2> PICK t \in Tracers : Copy(t)
    BY <1>4
  <2>1. pc[t] = "alloc" /\ copies' = [copies EXCEPT ![Of(t)] = @ + 1]
    BY DEF Copy, At
  <2>2. copies[Of(t)] = 0
    BY <2>1 DEF Alive, Forwarding
  <2>3. QED
    BY <1>1, <2>1, <2>2 DEF PccTypes
<1>5. (\E m \in Mutators : StartGc(m)) \/ (\E t \in Tracers : Copy(t)) \/ copies' = copies
  <2>1. ASSUME NEW t, AllocateStep(t) \/ NoRoom(t)
        PROVE  copies' = copies
    BY <2>1 DEF AllocateStep, ReleaseFullBlock, AcquirePartlyFullBlock, AcquireEmptyBlock, NoRoom, objects
  <2>2. ASSUME NEW m, \/ RequestSmall(m) \/ AllocateSmall(m) \/ RequestLarge(m) \/ ReadPending(m)
                      \/ PageOut(m) \/ AllocateLarge(m)
                      \/ \E x \in Objects : Drop(m, x) \/ \E k \in Mutators : Share(m, k, x)
        PROVE  copies' = copies
    BY <2>2 DEF RequestSmall, AllocateSmall, RequestLarge, ReadPending, PageOut, AllocateLarge, Drop,
                Share, objects
  <2>3. ASSUME NEW m, \/ Ask(m) \/ Trigger(m) \/ Safepoint(m) \/ Leave(m) \/ Deactivate(m)
                      \/ Reactivate(m) \/ Pause(m) \/ Resume(m) \/ RequestStop(m)
        PROVE  copies' = copies
    BY <2>3 DEF Ask, Trigger, Safepoint, Leave, Deactivate, Reactivate, Pause, Resume, RequestStop, objects
  <2>4. ASSUME NEW m, FinishGc(m) \/ Resize(m) \/ Resolve(m)
        PROVE  copies' = copies
    BY <2>4 DEF FinishGc, Resize, Resolve, objects
  <2>5. ASSUME NEW t, \/ TakeRoot(t) \/ Begin(t) \/ Acquire(t) \/ CommitTag(t) \/ Commit(t)
                      \/ Update(t) \/ Park(t)
        PROVE  copies' = copies
    BY <2>5 DEF TakeRoot, Begin, Acquire, CommitTag, Commit, Update, Park, objects
  <2>6. AdvanceQueue \/ DiscardBlocks => copies' = copies
    BY DEF AdvanceQueue, DiscardBlocks, objects
  <2>7. ASSUME NEW m \in Mutators, MutatorNext(m)
        PROVE  StartGc(m) \/ copies' = copies
    BY <2>1, <2>2, <2>3, <2>4, <2>7 DEF MutatorNext
  <2>8. ASSUME NEW t \in Tracers, TracerNext(t)
        PROVE  Copy(t) \/ copies' = copies
    BY <2>1, <2>5, <2>8 DEF TracerNext
  <2>9. QED
    BY <2>6, <2>7, <2>8 DEF PccNext
<1>6. QED
  BY <1>2, <1>3, <1>4, <1>5

\* after the end of the process nothing moves but the background thread
LEMMA DeadStays ==
  ASSUME PccTypes, CopiedOnce, pc = Dead, PccNext
  PROVE  PccTypes' /\ CopiedOnce' /\ pc' = Dead
<1>1. \A t \in Threads : pc[t] = "dead"
  BY DEF Dead
<1>2. ASSUME NEW m \in Mutators, MutatorNext(m) PROVE FALSE
  <2>1. pc[m] = "dead" /\ \A k \in Mutators : pc[k] = "dead"
    BY <1>1 DEF Threads
  <2>2. QED
    BY <1>2, <2>1 DEF MutatorNext, At, Running, AllocateStep, ReleaseFullBlock,
      AcquirePartlyFullBlock, AcquireEmptyBlock, RequestSmall, AllocateSmall, NoRoom, RequestLarge,
      ReadPending, PageOut, AllocateLarge, Drop, Share, Ask, Trigger, Safepoint, Leave, Deactivate,
      Reactivate, Pause, Resume, RequestStop, StartGc, FinishGc, Resize, Resolve
<1>3. ASSUME NEW t \in Tracers, TracerNext(t) PROVE FALSE
  <2>1. pc[t] = "dead"
    BY <1>1 DEF Threads
  <2>2. QED
    BY <1>3, <2>1 DEF TracerNext, At, AllocateStep, ReleaseFullBlock, AcquirePartlyFullBlock,
      AcquireEmptyBlock, NoRoom, TakeRoot, Begin, Acquire, Copy, CommitTag, Commit, Update, Park
<1>4. AdvanceQueue \/ DiscardBlocks
  BY <1>2, <1>3 DEF PccNext
<1>5. UNCHANGED <<handshake, objects, roots, pc>>
  BY <1>4 DEF AdvanceQueue, DiscardBlocks, thread
<1>6. CopiedOnce'
  BY <1>5 DEF CopiedOnce, handshake, objects, roots
<1>7. QED
  BY <1>4, <1>5, <1>6, TypesBackground

\* a tracer without memory for a copy ends the process with roots untraced
LEMMA TracerDies ==
  ASSUME PccTypes, CopiedOnce, NEW t \in Tracers, NoRoom(t)
  PROVE  PccTypes' /\ CopiedOnce' /\ pc' = Dead
<1>1. PccTypes'
  BY TypesNoRoom, TracersApart
<1>2. pc' = Dead /\ UNCHANGED <<handshake, objects, roots>>
  BY DEF NoRoom
<1>3. CopiedOnce'
  BY <1>2 DEF CopiedOnce, handshake, objects, roots
<1>4. QED
  BY <1>1, <1>2, <1>3

LEMMA InvNext == PccInv /\ [PccNext]_pccVars => PccInv'
<1> SUFFICES ASSUME PccInv, [PccNext]_pccVars PROVE PccInv'
  OBVIOUS
<1>1. CASE UNCHANGED pccVars
  <2>1. UNCHANGED <<space, pc, want, collecting, paused, inactive, slot, at, tag, copy, copies,
                    edges, edge, lmarked>>
    BY <1>1 DEF pccVars, handshake, heap, objects, roots, thread
  <2>2. PccTypes'
    BY <2>1 DEF PccInv, PccTypes
  <2>3. CopiedOnce'
    BY <2>1 DEF PccInv, CopiedOnce
  <2>4. Alive => Alive'
    BY <2>1 DEF Alive, Handshake, Requests, LargeStay, Rest, RootsTraced, Forwarding, Tracing,
      InState, Num, InHand, Done, Forwarded, Of
  <2>5. QED
    BY <2>1, <2>2, <2>3, <2>4 DEF PccInv
<1>2. CASE PccNext /\ pc = Dead
  BY <1>2, DeadStays DEF PccInv
<1>3. CASE PccNext /\ pc # Dead
  <2>1. PccTypes /\ Alive /\ CopiedOnce
    BY <1>3 DEF PccInv
  <2>2. ASSUME PccTypes', Alive' PROVE PccInv'
    <3>1. \A o \in Small : copies'[o] <= 1
      BY <1>3, <2>1, CopiesBounded
    <3>2. /\ \A o \in Small : tag'[o] \notin {Live, Busy} =>
               tag'[o] = copy'[o].at /\ copy'[o].tag = Live
      BY <2>2 DEF Alive, Forwarding, Forwarded, Objects
    <3>3. ASSUME ~collecting'
          PROVE  \A m \in Mutators : \A o \in Objects : slot'[m][o] \in {Nowhere, at'[o]}
      <4>1. ~Tracing'
        BY <2>2, <3>3 DEF Alive, Handshake, Tracing, InState, Control
      <4>2. QED
        BY <2>2, <4>1 DEF Alive, Rest
    <3>4. CopiedOnce'
      BY <3>1, <3>2, <3>3 DEF CopiedOnce
    <3>5. QED
      BY <2>2, <3>4 DEF PccInv
  <2>3. ASSUME NEW m \in Mutators, MutatorNext(m) PROVE PccInv'
    <3>1. PccTypes'
      BY <2>1, <2>3, TypesMutator
    <3>2. CASE Resolve(m) /\ pc' = Dead
      <4>1. /\ \A o \in Small : copies'[o] <= 1
            /\ UNCHANGED <<tag, copy, slot, at>>
        BY <1>3, <2>1, <3>2, CopiesBounded DEF Resolve, objects, roots
      <4>2. ~Tracing
        BY <2>1, <3>2 DEF Resolve, At, Alive, Handshake, Tracing
      <4>3. CopiedOnce'
        BY <2>1, <4>1, <4>2 DEF CopiedOnce, Alive, Rest
      <4>4. QED
        BY <3>1, <3>2, <4>3 DEF PccInv
    <3>3. CASE ~(Resolve(m) /\ pc' = Dead)
      <4>1. Alive'
        BY <2>1, <2>3, <3>3, AliveFree, AliveAllocate, AliveDrop, AliveShare, AliveStop,
           AliveStartGc, AliveFinishGc, AliveResolve DEF MutatorNext
      <4>2. QED
        BY <2>2, <3>1, <4>1
    <3>4. QED
      BY <3>2, <3>3
  <2>4. ASSUME NEW t \in Tracers, TracerNext(t) PROVE PccInv'
    <3>1. CASE NoRoom(t)
      BY <2>1, <3>1, TracerDies DEF PccInv
    <3>2. CASE ~NoRoom(t)
      <4>1. Alive'
        BY <2>1, <2>4, <3>2, AliveTakeRoot, AliveInHand, AliveUpdate, AlivePark DEF TracerNext
      <4>2. PccTypes'
        BY <2>1, <2>4, TypesTracer, InHandIsSmall
      <4>3. QED
        BY <2>2, <4>1, <4>2
    <3>3. QED
      BY <3>1, <3>2
  <2>5. CASE AdvanceQueue \/ DiscardBlocks
    <3>1. UNCHANGED <<handshake, objects, roots, pc, want>>
      BY <2>5 DEF AdvanceQueue, DiscardBlocks, thread
    <3>2. Alive'
      BY <2>1, <3>1 DEF Alive, Handshake, Requests, LargeStay, Rest, RootsTraced, Forwarding, Tracing,
        InState, Num, InHand, Done, Forwarded, Of, handshake, objects, roots
    <3>3. QED
      BY <2>1, <2>2, <2>5, <3>2, TypesBackground
  <2>6. QED
    BY <1>3, <2>3, <2>4, <2>5 DEF PccNext
<1>4. QED
  BY <1>1, <1>2, <1>3

(***************************************************************************)
(* However many tracers meet at an object, one of them copies it, no       *)
(* forwarding address is shown before the copy is whole, and when the      *)
(* mutators go on each root holds the object's present address: the        *)
(* acquire and commit of fpprt-embedder.h:292-337, between the stop and    *)
(* the restart of pcc.c:886-948.                                           *)
(***************************************************************************)
THEOREM ObjectsCopiedOnce == PccSpec => []CopiedOnce
<1>1. PccInv => CopiedOnce
  BY DEF PccInv
<1>2. QED
  BY <1>1, InvInit, InvNext, PTL DEF PccSpec
===============================================================================
