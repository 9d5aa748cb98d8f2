----------------------------- MODULE PhasedProofs -----------------------------
(***************************************************************************)
(* Theorems about module Phased, for every pool size, group table size and *)
(* set of calls.                                                           *)
(***************************************************************************)
EXTENDS Phased, FiniteSetTheorems, WellFoundedInduction, TLAPS

-------------------------------------------------------------------------------
(* The arithmetic of slices and chunks *)

\* Division as the C code uses it: a positive divisor, a quotient and a
\* remainder (fpprt.c:613 base and rem).
LEMMA DivFacts ==
  ASSUME NEW a \in Nat, NEW b \in Nat \ {0}
  PROVE  /\ a \div b \in Nat /\ a % b \in 0 .. b - 1
         /\ a = b * (a \div b) + (a % b)
  OBVIOUS

LEMMA DivInt ==
  ASSUME NEW a \in Int, NEW b \in Nat \ {0}
  PROVE  a \div b \in Int
  OBVIOUS

\* Quotients are found by giving quotient and remainder.
LEMMA DivUnique ==
  ASSUME NEW a \in Nat, NEW b \in Nat \ {0}, NEW q \in Nat, NEW r \in Nat,
         r < b, a = b * q + r
  PROVE  a \div b = q
<1>1. b * (a \div b) + (a % b) = b * q + r
  BY DivFacts
<1>2. a \div b \in Nat /\ a % b \in 0 .. b - 1
  BY DivFacts
<1>3. CASE a \div b < q
  <2>1. q = (a \div b) + 1 + (q - (a \div b) - 1) /\ q - (a \div b) - 1 \in Nat
    BY <1>2, <1>3
  <2> DEFINE d == q - (a \div b) - 1
  <2>2. b * q = b * (a \div b) + b + b * d
    BY <2>1, <1>2
  <2>3. b * d \in Nat
    BY <2>1
  <2>4. QED
    BY <1>1, <1>2, <2>2, <2>3
<1>4. CASE a \div b > q
  <2>1. a \div b = q + 1 + ((a \div b) - q - 1) /\ (a \div b) - q - 1 \in Nat
    BY <1>2, <1>4
  <2> DEFINE d == (a \div b) - q - 1
  <2>2. b * (a \div b) = b * q + b + b * d
    BY <2>1, <1>2
  <2>3. b * d \in Nat
    BY <2>1
  <2>4. QED
    BY <1>1, <1>2, <2>2, <2>3
<1>5. QED
  BY <1>2, <1>3, <1>4

\* The clamps leave at least one group, at most the table and at most n.
LEMMA GroupCountRange ==
  ASSUME NEW c \in Calls, c.n > 0
  PROVE  GroupCount(c) \in 1 .. GroupMax /\ GroupCount(c) <= c.n
  BY CallsAssumption, GroupMaxAssumption DEF GroupCount, Lesser, Greater

\* A chunk is never empty, so a grab always advances the cursor.
LEMMA ChunkSizePositive ==
  ASSUME NEW c \in Calls, c.n > 0
  PROVE  ChunkSize(c) \in Nat \ {0}
<1>1. GroupCount(c) * 8 \in Nat \ {0} /\ c.n \in Nat /\ c.chunk \in Int
  BY GroupCountRange, CallsAssumption, GroupMaxAssumption
<1>2. c.n \div (GroupCount(c) * 8) \in Nat
  BY <1>1, DivFacts
<1>3. QED
  BY <1>1, <1>2 DEF ChunkSize

\* No slice is empty, and the slices follow each other.
LEMMA SliceStarts ==
  ASSUME NEW n \in Nat, NEW k \in Nat \ {0}, k <= n, NEW g \in Nat
  PROVE  /\ SliceStart(n, k, g) \in Nat
         /\ SliceStart(n, k, g) < SliceStart(n, k, g + 1)
<1> DEFINE b == n \div k
           r == n % k
<1>1. b \in Nat /\ r \in 0 .. k - 1 /\ n = k * b + r
  BY DivFacts
<1>2. b # 0
  <2> SUFFICES ASSUME b = 0 PROVE FALSE
    OBVIOUS
  <2>1. k * b = 0
    OBVIOUS
  <2> QED
    BY <1>1, <2>1
<1>3. g * b \in Nat /\ (g + 1) * b = g * b + b
  BY <1>1
<1> HIDE DEF b, r
<1>4. SliceStart(n, k, g) = g * b + Lesser(g, r)
  BY DEF SliceStart, b, r
<1>5. SliceStart(n, k, g + 1) = (g + 1) * b + Lesser(g + 1, r)
  BY DEF SliceStart, b, r
<1>6. QED
  BY <1>1, <1>2, <1>3, <1>4, <1>5 DEF Lesser

LEMMA SlicesDisjoint ==
  ASSUME NEW n \in Nat, NEW k \in Nat \ {0}, k <= n,
         NEW g \in Nat, NEW h \in Nat, g < h
  PROVE  SliceStart(n, k, g + 1) <= SliceStart(n, k, h)
<1> DEFINE b == n \div k
           r == n % k
           d == h - g - 1
<1>1. b \in Nat /\ r \in Nat
  BY DivFacts
<1>2. d \in Nat /\ h = g + 1 + d
  OBVIOUS
<1> HIDE DEF b, r, d
<1>3. h * b = (g + 1) * b + d * b /\ d * b \in Nat /\ (g + 1) * b \in Nat
  BY <1>1, <1>2
<1>4. SliceStart(n, k, g + 1) = (g + 1) * b + Lesser(g + 1, r)
  BY DEF SliceStart, b, r
<1>5. SliceStart(n, k, h) = h * b + Lesser(h, r)
  BY DEF SliceStart, b, r
<1>6. QED
  BY <1>1, <1>2, <1>3, <1>4, <1>5 DEF Lesser

\* What a grab does to the number of chunks still to be grabbed.
LEMMA ChunksFacts ==
  ASSUME NEW len \in Nat, NEW c \in Nat \ {0}
  PROVE  /\ ChunksOf(len, c) \in Nat
         /\ len = 0 => ChunksOf(len, c) = 0
         /\ len > 0 => ChunksOf(len, c) > 0
         /\ len > 0 /\ len <= c => ChunksOf(len, c) = 1
         /\ len > c => ChunksOf(len, c) = ChunksOf(len - c, c) + 1
<1> DEFINE a == len + c - 1
<1>1. a \in Nat
  OBVIOUS
<1>2. a \div c \in Nat /\ a % c \in 0 .. c - 1 /\ a = c * (a \div c) + (a % c)
  BY <1>1, DivFacts
<1>3. ASSUME len = 0 PROVE a \div c = 0
  <2>1. c - 1 \in Nat /\ a = c * 0 + (c - 1) /\ c - 1 < c
    BY <1>3
  <2> HIDE DEF a
  <2> QED
    BY <2>1, <1>1, DivUnique
<1>4. ASSUME len > 0, len <= c PROVE a \div c = 1
  <2>1. len - 1 \in Nat /\ a = c * 1 + (len - 1) /\ len - 1 < c
    BY <1>4
  <2> HIDE DEF a
  <2> QED
    BY <2>1, <1>1, DivUnique
<1>5. ASSUME len > c PROVE ChunksOf(len, c) = ChunksOf(len - c, c) + 1
  <2> DEFINE e == (len - c) + c - 1
  <2>1. e \in Nat /\ a = e + c
    BY <1>5
  <2>2. e \div c \in Nat /\ e % c \in 0 .. c - 1 /\ e = c * (e \div c) + (e % c)
    BY <2>1, DivFacts
  <2> DEFINE q == (e \div c) + 1
             r == e % c
  <2> HIDE DEF a, e
  <2>3. q \in Nat /\ r \in Nat /\ r < c /\ a = c * q + r
    BY <2>1, <2>2
  <2> HIDE DEF q, r
  <2>4. a \div c = q
    BY <2>3, <1>1, DivUnique
  <2> QED
    BY <2>4 DEF ChunksOf, a, e, q
<1>6. ASSUME len > 0 PROVE a \div c > 0
  <2> SUFFICES ASSUME a \div c = 0 PROVE FALSE
    BY <1>2
  <2>1. c * (a \div c) = 0
    OBVIOUS
  <2>2. a < c
    BY <2>1, <1>2
  <2> QED
    BY <2>2, <1>6
<1>7. QED
  BY <1>2, <1>3, <1>4, <1>5, <1>6 DEF ChunksOf

-------------------------------------------------------------------------------
(* Type correctness *)

LEMMA InitGroupType ==
  ASSUME NEW c \in Calls, c.n > 0, NEW g \in 0 .. GroupCount(c) - 1
  PROVE  InitGroup(c.n, GroupCount(c), ChunkSize(c), g) \in
           [lo : Nat, hi : Nat, phase : Nat, cursor : Nat, live : Nat]
<1> DEFINE n == c.n
           k == GroupCount(c)
           z == ChunkSize(c)
<1>1. n \in Nat /\ k \in Nat \ {0} /\ k <= n /\ z \in Nat \ {0} /\ g \in Nat
  BY GroupCountRange, ChunkSizePositive, CallsAssumption, GroupMaxAssumption
<1> HIDE DEF n, k, z
<1>2. /\ SliceStart(n, k, g) \in Nat /\ SliceStart(n, k, g + 1) \in Nat
      /\ SliceStart(n, k, g) < SliceStart(n, k, g + 1)
  <2>1. g + 1 \in Nat
    BY <1>1
  <2>2. SliceStart(n, k, g + 1) \in Nat
    BY <1>1, <2>1, SliceStarts
  <2>3. QED
    BY <1>1, <2>2, SliceStarts
<1>3. ChunksOf(SliceStart(n, k, g + 1) - SliceStart(n, k, g), z) \in Nat
  <2>1. SliceStart(n, k, g + 1) - SliceStart(n, k, g) \in Nat
    BY <1>2
  <2>2. QED
    BY <1>1, <2>1, ChunksFacts
<1>4. InitGroup(n, k, z, g) \in
        [lo : Nat, hi : Nat, phase : Nat, cursor : Nat, live : Nat]
  BY <1>2, <1>3 DEF InitGroup
<1>5. QED
  BY <1>4 DEF n, k, z

\* Every variable keeps its type: the group count stays within the table
\* (the clamp at fpprt.c:599) and no cursor, phase or chunk turns negative.
THEOREM TypeCorrect == Spec => []TypeOK
<1>1. Init => TypeOK
  BY GroupMaxAssumption DEF Init, TypeOK, NoGroup, NoJob
<1>2. TypeOK /\ [Next]_vars => TypeOK'
  <2> SUFFICES ASSUME TypeOK, [Next]_vars
               PROVE  TypeOK'
    OBVIOUS
  <2>1. ASSUME NEW c \in Calls, Dispatch(c)
        PROVE  TypeOK'
    <3>1. c.n > 0 /\ c.phases \in Nat
      BY <2>1, CallsAssumption DEF Dispatch
    <3>2. ngroups' \in 0 .. GroupMax /\ chunk' \in Nat \ {0}
      BY <2>1, <3>1, GroupCountRange, ChunkSizePositive DEF Dispatch
    <3>3. groups' \in [GroupIds ->
             [lo : Nat, hi : Nat, phase : Nat, cursor : Nat, live : Int]]
      <4>1. ASSUME NEW g \in GroupIds
            PROVE  groups'[g] \in
                     [lo : Nat, hi : Nat, phase : Nat, cursor : Nat, live : Int]
        <5>1. CASE g < GroupCount(c)
          <6>1. g \in 0 .. GroupCount(c) - 1
            BY <5>1, <3>1, GroupCountRange, GroupMaxAssumption DEF GroupIds
          <6>2. groups'[g] = InitGroup(c.n, GroupCount(c), ChunkSize(c), g)
            BY <2>1, <5>1 DEF Dispatch
          <6>3. QED
            BY <6>1, <6>2, <3>1, InitGroupType
        <5>2. CASE ~(g < GroupCount(c))
          BY <2>1, <5>2 DEF Dispatch, TypeOK
        <5>3. QED
          BY <5>1, <5>2
      <4>2. QED
        BY <4>1, <2>1 DEF Dispatch
    <3>4. QED
      BY <2>1, <3>1, <3>2, <3>3 DEF Dispatch, TypeOK
  <2>2. ASSUME NEW t \in Threads, Step(t)
        PROVE  TypeOK'
    <3>1. CASE Take(t)
      <4>1. home' \in [Threads -> Nat] /\ cursor' \in Nat
        BY <3>1 DEF Take, TypeOK
      <4>2. QED
        BY <3>1, <4>1 DEF Take, TypeOK
    <3>6. CASE Leave(t)
      BY <3>6 DEF Leave, TypeOK
    <3>2. CASE Grab(t)
      <4>1. PICK g \in 0 .. ngroups - 1 :
              LET from == groups[g].cursor
                  to == Lesser(from + chunk, groups[g].hi)
              IN  /\ job' = [job EXCEPT ![t] =
                       [phase |-> groups[g].phase, lo |-> from, hi |-> to]]
                  /\ groups' = [groups EXCEPT ![g].cursor = to]
        BY <3>2 DEF Grab
      <4>2. g \in GroupIds
        BY GroupMaxAssumption DEF TypeOK, GroupIds
      <4> DEFINE to == Lesser(groups[g].cursor + chunk, groups[g].hi)
      <4>3. to \in Nat
        BY <4>2 DEF TypeOK, Lesser
      <4>4. job' = [job EXCEPT ![t] =
              [phase |-> groups[g].phase, lo |-> groups[g].cursor, hi |-> to]]
        BY <4>1
      <4>5. groups' = [groups EXCEPT ![g].cursor = to]
        BY <4>1
      <4> HIDE DEF to
      <4>6. job' \in [Threads -> [phase : Nat, lo : Nat, hi : Nat]]
        BY <4>2, <4>3, <4>4 DEF TypeOK
      <4>7. groups' \in [GroupIds ->
              [lo : Nat, hi : Nat, phase : Nat, cursor : Nat, live : Int]]
        BY <4>2, <4>3, <4>5 DEF TypeOK
      <4>8. /\ pc' = [pc EXCEPT ![t] = "kernel"]
            /\ UNCHANGED <<ngroups, phases, chunk, done, cursor, home>>
        BY <3>2 DEF Grab
      <4>9. QED
        BY <4>6, <4>7, <4>8 DEF TypeOK
    <3>3. CASE GrabNothing(t) \/ Yield(t) \/ GrabFinished(t) \/ KernelEnd(t)
      <4>1. pc' \in [Threads -> {"idle", "take", "grab", "yield", "kernel", "retire"}]
        BY <3>3 DEF GrabNothing, Yield, GrabFinished, KernelEnd, TypeOK
      <4>2. home' = home \/ home' = [home EXCEPT ![t] = 0]
        BY <3>3 DEF GrabNothing, Yield, GrabFinished, KernelEnd
      <4>3. home' \in [Threads -> Nat]
        BY <4>2 DEF TypeOK
      <4>4. UNCHANGED <<groups, ngroups, phases, done, cursor, chunk, job>>
        BY <3>3 DEF GrabNothing, Yield, GrabFinished, KernelEnd
      <4>5. QED
        BY <4>1, <4>3, <4>4 DEF TypeOK
    <3>4. CASE Retire(t)
      <4>1. PICK g \in 0 .. ngroups - 1 : InSlice(g, job[t].lo) /\ RetireGroup(g)
        BY <3>4 DEF Retire
      <4>2. g \in GroupIds
        BY GroupMaxAssumption DEF TypeOK, GroupIds
      <4>3. ChunksOf(groups[g].hi - groups[g].lo, chunk) \in Int
        <5>1. groups[g].hi - groups[g].lo + chunk - 1 \in Int
                /\ chunk \in Nat \ {0}
          BY <4>2 DEF TypeOK
        <5>2. QED
          BY <5>1, DivInt DEF ChunksOf
      <4> DEFINE full == ChunksOf(groups[g].hi - groups[g].lo, chunk)
      <4>4. groups[g].live - 1 \in Int /\ groups[g].phase + 1 \in Nat
        BY <4>2 DEF TypeOK
      <4>5. \/ groups' = [groups EXCEPT ![g].live = groups[g].live - 1]
            \/ groups' = [groups EXCEPT ![g].live = 0,
                                       ![g].phase = groups[g].phase + 1]
            \/ groups' = [groups EXCEPT ![g].live = full,
                                       ![g].phase = groups[g].phase + 1,
                                       ![g].cursor = groups[g].lo]
        BY <4>1 DEF RetireGroup
      <4> HIDE DEF full
      <4>6. groups' \in [GroupIds ->
              [lo : Nat, hi : Nat, phase : Nat, cursor : Nat, live : Int]]
        BY <4>2, <4>3, <4>4, <4>5 DEF TypeOK, full
      <4>7. done' \in Nat
        BY <4>1 DEF RetireGroup, TypeOK
      <4>8. job' \in [Threads -> [phase : Nat, lo : Nat, hi : Nat]]
        BY <3>4 DEF Retire, NoJob, TypeOK
      <4>9. QED
        BY <3>4, <4>6, <4>7, <4>8 DEF Retire, TypeOK
    <3>5. QED
      BY <2>2, <3>1, <3>2, <3>3, <3>4, <3>6 DEF Step
  <2>3. CASE UNCHANGED vars
    BY <2>3 DEF vars, TypeOK
  <2>4. QED
    BY <2>1, <2>2, <2>3 DEF Next
<1>3. QED
  BY <1>1, <1>2, PTL DEF Spec

-------------------------------------------------------------------------------
(* The inductive invariant.  Lockstep alone is not inductive: that nobody   *)
(* is in flight when a phase opens follows from the accounting, and the     *)
(* accounting from where cursors, slices and jobs are.                      *)

Groups == 0 .. ngroups - 1

SlicesInv ==
  /\ \A g \in Groups :
       /\ groups[g].lo < groups[g].hi
       /\ groups[g].lo <= groups[g].cursor /\ groups[g].cursor <= groups[g].hi
       /\ groups[g].phase <= phases
  /\ \A g, h \in Groups : g < h => groups[g].hi <= groups[h].lo

\* a chunk in flight was grabbed from the current phase of a group
Holds(t, g) ==
  /\ groups[g].lo <= job[t].lo /\ job[t].lo < job[t].hi
  /\ job[t].hi <= groups[g].cursor
  /\ job[t].phase = groups[g].phase /\ groups[g].phase < phases

JobsInv == \A t \in Threads : InFlight(t) => \E g \in Groups : Holds(t, g)

LiveInv == \A g \in Groups : groups[g].phase < phases => groups[g].live >= 1

Finished == {g \in Groups : groups[g].phase = phases}

DoneInv == done = Cardinality(Finished)

PhasedInv == /\ SlicesInv /\ JobsInv /\ Lockstep
             /\ LiveAccounting /\ LiveInv /\ DoneInv

\* The group found again from lo is the group the chunk came from.
LEMMA OneSlice ==
  ASSUME TypeOK, SlicesInv,
         NEW g \in Groups, NEW h \in Groups, NEW i \in Nat,
         InSlice(g, i), InSlice(h, i)
  PROVE  g = h
<1>1. g \in GroupIds /\ h \in GroupIds /\ g \in Int /\ h \in Int
  BY GroupMaxAssumption DEF TypeOK, Groups, GroupIds
<1>2. ~(g < h)
  BY <1>1 DEF SlicesInv, InSlice, TypeOK
<1>3. ~(h < g)
  BY <1>1 DEF SlicesInv, InSlice, TypeOK
<1>4. QED
  BY <1>1, <1>2, <1>3

LEMMA HeldIsInSlice ==
  ASSUME TypeOK, SlicesInv, NEW t \in Threads, NEW g \in Groups, Holds(t, g)
  PROVE  InSlice(g, job[t].lo) /\ job[t].lo \in Nat
<1>1. g \in GroupIds
  BY GroupMaxAssumption DEF TypeOK, Groups, GroupIds
<1>2. QED
  BY <1>1 DEF SlicesInv, InSlice, TypeOK, Holds

\* What is in flight on a group is held from it.
LEMMA InFlightHolds ==
  ASSUME TypeOK, SlicesInv, JobsInv,
         NEW g \in Groups, NEW t \in InFlightOf(g)
  PROVE  Holds(t, g)
<1>1. t \in Threads /\ InFlight(t) /\ InSlice(g, job[t].lo)
  BY DEF InFlightOf
<1>2. PICK h \in Groups : Holds(t, h)
  BY <1>1 DEF JobsInv
<1>3. InSlice(h, job[t].lo) /\ job[t].lo \in Nat
  BY <1>1, <1>2, HeldIsInSlice
<1>4. g = h
  BY <1>1, <1>3, OneSlice
<1>5. QED
  BY <1>2, <1>4

LEMMA FlightFinite ==
  ASSUME NEW g
  PROVE  /\ IsFiniteSet(InFlightOf(g))
         /\ Cardinality(InFlightOf(g)) \in Nat
<1>1. IsFiniteSet(Threads)
  BY PoolSizeAssumption, FS_Interval DEF Threads
<1>2. InFlightOf(g) \subseteq Threads
  BY DEF InFlightOf
<1>3. QED
  BY <1>1, <1>2, FS_Subset, FS_CardinalityType

\* Steps that neither touch a group nor put a chunk in flight or land one.
LEMMA FlightUnchanged ==
  ASSUME PhasedInv,
         UNCHANGED <<groups, ngroups, phases, chunk, done, job>>,
         \A t \in Threads : InFlight(t)' <=> InFlight(t)
  PROVE  PhasedInv'
<1>1. \A g : InFlightOf(g)' = InFlightOf(g)
  BY DEF InFlightOf, InSlice
<1>2. SlicesInv' /\ LiveInv' /\ DoneInv'
  BY DEF PhasedInv, SlicesInv, LiveInv, DoneInv, Finished, Groups
<1>3. JobsInv'
  BY DEF PhasedInv, JobsInv, Holds, Groups
<1>4. Lockstep'
  BY <1>1 DEF PhasedInv, Lockstep
<1>5. LiveAccounting'
  BY <1>1 DEF PhasedInv, LiveAccounting
<1>6. QED
  BY <1>2, <1>3, <1>4, <1>5 DEF PhasedInv

\* A dispatch starts with a fresh table: slices apart, nothing in flight.
LEMMA DispatchInv ==
  ASSUME TypeOK, PhasedInv, NEW c \in Calls, Dispatch(c)
  PROVE  PhasedInv'
<1> DEFINE n == c.n
           k == GroupCount(c)
           z == ChunkSize(c)
<1>1. /\ n \in Nat /\ k \in Nat \ {0} /\ k <= n /\ z \in Nat \ {0}
      /\ k \in 1 .. GroupMax /\ c.phases \in Nat \ {0}
  BY GroupCountRange, ChunkSizePositive, CallsAssumption, GroupMaxAssumption
     DEF Dispatch
<1>2. /\ ngroups' = k /\ phases' = c.phases /\ chunk' = z /\ done' = 0
      /\ \A g \in 0 .. k - 1 : groups'[g] = InitGroup(n, k, z, g)
  <2>1. ngroups' = k /\ phases' = c.phases /\ chunk' = z /\ done' = 0
    BY DEF Dispatch
  <2>2. ASSUME NEW g \in 0 .. k - 1
        PROVE  groups'[g] = InitGroup(n, k, z, g)
    <3>1. g \in GroupIds /\ g < k
      BY <1>1, GroupMaxAssumption DEF GroupIds
    <3>2. QED
      BY <3>1 DEF Dispatch
  <2>3. QED
    BY <2>1, <2>2
<1>3. \A t \in Threads : ~InFlight(t)'
  BY DEF Dispatch, InFlight
<1> HIDE DEF n, k, z
<1>4. ASSUME NEW g \in 0 .. k - 1
      PROVE  /\ groups'[g].lo = SliceStart(n, k, g)
             /\ groups'[g].hi = SliceStart(n, k, g + 1)
             /\ groups'[g].cursor = groups'[g].lo
             /\ groups'[g].phase = 0
             /\ groups'[g].live = ChunksOf(groups'[g].hi - groups'[g].lo, z)
             /\ groups'[g].lo \in Nat /\ groups'[g].hi \in Nat
             /\ groups'[g].lo < groups'[g].hi
  <2>1. g \in Nat /\ g + 1 \in Nat
    OBVIOUS
  <2>2. SliceStart(n, k, g) \in Nat /\ SliceStart(n, k, g) < SliceStart(n, k, g + 1)
    BY <1>1, <2>1, SliceStarts
  <2>3. SliceStart(n, k, g + 1) \in Nat
    BY <1>1, <2>1, SliceStarts
  <2>4. groups'[g] = InitGroup(n, k, z, g)
    BY <1>2
  <2>5. QED
    BY <2>2, <2>3, <2>4 DEF InitGroup
<1>5. SlicesInv'
  <2>1. ASSUME NEW g \in 0 .. k - 1, NEW h \in 0 .. k - 1, g < h
        PROVE  groups'[g].hi <= groups'[h].lo
    <3>1. g \in Nat /\ h \in Nat
      OBVIOUS
    <3>2. SliceStart(n, k, g + 1) <= SliceStart(n, k, h)
      BY <1>1, <2>1, <3>1, SlicesDisjoint
    <3>3. QED
      BY <1>4, <3>2
  <2>2. QED
    BY <1>1, <1>2, <1>4, <2>1 DEF SlicesInv, Groups
<1>6. \A g : InFlightOf(g)' = {}
  BY <1>3 DEF InFlightOf
<1>7. JobsInv' /\ Lockstep'
  BY <1>3, <1>6 DEF JobsInv, Lockstep
<1>8. ASSUME NEW g \in 0 .. k - 1
      PROVE  /\ groups'[g].live >= 1
             /\ groups'[g].live = ChunksOf(groups'[g].hi - groups'[g].cursor, z) + 0
  <2>1. groups'[g].hi - groups'[g].lo \in Nat \ {0}
    BY <1>4
  <2> DEFINE len == groups'[g].hi - groups'[g].lo
  <2> HIDE DEF len
  <2>4. len \in Nat /\ len > 0
    BY <2>1 DEF len
  <2>5. ChunksOf(len, z) \in Nat /\ ChunksOf(len, z) > 0
    BY <1>1, <2>4, ChunksFacts
  <2>2. ChunksOf(groups'[g].hi - groups'[g].lo, z) \in Nat \ {0}
    BY <2>5 DEF len
  <2>3. QED
    BY <1>4, <2>2
<1>9. LiveInv' /\ LiveAccounting'
  BY <1>2, <1>6, <1>8, FS_EmptySet DEF LiveInv, LiveAccounting, Groups
<1>10. DoneInv'
  <2>1. Finished' = {}
    BY <1>1, <1>2, <1>4 DEF Finished, Groups
  <2>2. QED
    BY <1>2, <2>1, FS_EmptySet DEF DoneInv
<1>11. QED
  BY <1>5, <1>7, <1>9, <1>10 DEF PhasedInv

\* A grab moves one chunk from the slice's remainder into flight.
LEMMA GrabInv ==
  ASSUME TypeOK, PhasedInv, NEW t \in Threads, Grab(t)
  PROVE  PhasedInv'
<1>1. PICK g \in Groups :
        LET from == groups[g].cursor
            to == Lesser(from + chunk, groups[g].hi)
        IN  /\ Runnable(g)
            /\ job' = [job EXCEPT ![t] =
                 [phase |-> groups[g].phase, lo |-> from, hi |-> to]]
            /\ groups' = [groups EXCEPT ![g].cursor = to]
  BY DEF Grab, FirstRunnable, Groups
<1> DEFINE from == groups[g].cursor
           to == Lesser(from + chunk, groups[g].hi)
           S == InFlightOf(g)
<1>2. /\ Groups \subseteq GroupIds /\ Groups' = Groups
      /\ g \in GroupIds /\ chunk \in Nat \ {0}
  <2>1. ngroups \in 0 .. GroupMax /\ chunk \in Nat /\ (ngroups # 0 => chunk # 0)
    BY DEF TypeOK
  <2>2. Groups \subseteq GroupIds /\ ngroups # 0
    BY <2>1, GroupMaxAssumption DEF Groups, GroupIds
  <2>3. Groups' = Groups
    BY DEF Groups, Grab
  <2>4. QED
    BY <2>1, <2>2, <2>3
<1>3. /\ groups[g].phase < phases /\ from < groups[g].hi
      /\ groups[g].lo <= from /\ from \in Nat /\ groups[g].hi \in Nat
      /\ groups[g].phase \in Nat
  BY <1>1, <1>2 DEF Runnable, PhasedInv, SlicesInv, TypeOK
<1>4. to \in Nat /\ from < to /\ to <= groups[g].hi /\ to <= from + chunk
      /\ (to = groups[g].hi \/ to = from + chunk)
  BY <1>2, <1>3 DEF Lesser
<1>5. /\ job'[t] = [phase |-> groups[g].phase, lo |-> from, hi |-> to]
      /\ \A u \in Threads : u # t => job'[u] = job[u]
  BY <1>1 DEF TypeOK
<1>6. /\ groups'[g].cursor = to
      /\ \A h \in GroupIds :
           /\ h # g => groups'[h] = groups[h]
           /\ groups'[h].lo = groups[h].lo /\ groups'[h].hi = groups[h].hi
           /\ groups'[h].phase = groups[h].phase
           /\ groups'[h].live = groups[h].live
  BY <1>1, <1>2 DEF TypeOK
<1>7. /\ ~InFlight(t) /\ InFlight(t)'
      /\ \A u \in Threads : u # t => (InFlight(u)' <=> InFlight(u))
      /\ phases' = phases /\ chunk' = chunk /\ done' = done /\ ngroups' = ngroups
  BY DEF Grab, InFlight, TypeOK
<1> HIDE DEF to, from
<1>8. SlicesInv'
  BY <1>2, <1>3, <1>4, <1>6, <1>7 DEF PhasedInv, SlicesInv, TypeOK, from
<1>9. JobsInv'
  <2>1. Holds(t, g)'
    BY <1>2, <1>3, <1>4, <1>5, <1>6, <1>7 DEF Holds
  <2>2. ASSUME NEW u \in Threads, InFlight(u)', u # t
        PROVE  \E h \in Groups : Holds(u, h)'
    <3>1. PICK h \in Groups : Holds(u, h)
      BY <1>7, <2>2 DEF PhasedInv, JobsInv
    <3>2. groups[h].cursor <= groups'[h].cursor
      BY <1>2, <1>3, <1>4, <1>6 DEF TypeOK, from
    <3>3. Holds(u, h)'
      <4>1. job[u].hi \in Nat /\ groups[h].cursor \in Nat /\ groups'[h].cursor \in Nat
        BY <1>2, <1>4, <1>6 DEF TypeOK
      <4>2. QED
        BY <1>2, <1>5, <1>6, <1>7, <2>2, <3>1, <3>2, <4>1 DEF Holds
    <3>4. QED
      BY <3>3
  <2>3. QED
    BY <1>2, <2>1, <2>2 DEF JobsInv
<1>10. /\ InFlightOf(g)' = S \cup {t} /\ t \notin S
       /\ \A h \in Groups : h # g => InFlightOf(h)' = InFlightOf(h)
  <2>1. InSlice(g, from)
    BY <1>3 DEF InSlice
  <2>2. \A h \in Groups : h # g => ~InSlice(h, from)
    BY <1>3, <2>1, OneSlice DEF PhasedInv
  <2>3. \A h \in Groups : \A i : InSlice(h, i)' <=> InSlice(h, i)
    BY <1>2, <1>6 DEF InSlice
  <2>4. ASSUME NEW h \in Groups, NEW u \in Threads, u # t
        PROVE  u \in InFlightOf(h)' <=> u \in InFlightOf(h)
    BY <1>5, <1>7, <2>3, <2>4 DEF InFlightOf, InSlice
  <2>5. \A h \in Groups : t \in InFlightOf(h)' <=> h = g
    BY <1>5, <1>7, <2>1, <2>2, <2>3 DEF InFlightOf, InSlice
  <2>6. \A h \in Groups : t \notin InFlightOf(h)
    BY <1>7 DEF InFlightOf
  <2>7. \A h : InFlightOf(h) \subseteq Threads /\ InFlightOf(h)' \subseteq Threads
    BY DEF InFlightOf
  <2> HIDE DEF S
  <2>8. QED
    BY <2>4, <2>5, <2>6, <2>7 DEF S
<1>11. Lockstep'
  <2>1. ASSUME NEW u \in S
        PROVE  /\ u \in Threads /\ u # t
               /\ job[u].phase = groups[g].phase /\ job[u].hi <= from
    <3>1. Holds(u, g)
      BY <1>1, InFlightHolds DEF PhasedInv
    <3>2. QED
      BY <1>10, <3>1 DEF Holds, InFlightOf, from
  <2>2. ASSUME NEW h \in Groups, NEW u \in InFlightOf(h)',
               NEW w \in InFlightOf(h)', u # w
        PROVE  /\ job'[u].phase = job'[w].phase
               /\ job'[u].hi <= job'[w].lo \/ job'[w].hi <= job'[u].lo
    <3>1. CASE u # t /\ w # t
      <4>1. u \in InFlightOf(h) /\ w \in InFlightOf(h)
        BY <1>10, <3>1
      <4>2. u \in Threads /\ w \in Threads
        BY <4>1 DEF InFlightOf
      <4>3. QED
        BY <1>5, <2>2, <3>1, <4>1, <4>2 DEF PhasedInv, Lockstep, Groups
    <3>2. CASE u = t
      <4>1. h = g /\ w \in S
        BY <1>10, <2>2, <3>2 DEF InFlightOf, InFlight, Grab
      <4>2. QED
        BY <1>5, <2>1, <2>2, <3>2, <4>1
    <3>3. CASE w = t
      <4>1. h = g /\ u \in S
        BY <1>10, <2>2, <3>3 DEF InFlightOf, InFlight, Grab
      <4>2. QED
        BY <1>5, <2>1, <2>2, <3>3, <4>1
    <3>4. QED
      BY <3>1, <3>2, <3>3
  <2>3. QED
    BY <1>2, <2>2 DEF Lockstep, Groups
<1>12. LiveAccounting'
  <2>1. groups[g].live = ChunksOf(groups[g].hi - from, chunk) + Cardinality(S)
    BY <1>3 DEF PhasedInv, LiveAccounting, Groups, from
  <2>2. Cardinality(S \cup {t}) = Cardinality(S) + 1 /\ Cardinality(S) \in Nat
    BY <1>10, FlightFinite, FS_AddElement
  <2>3. ChunksOf(groups[g].hi - from, chunk) = ChunksOf(groups[g].hi - to, chunk) + 1
        /\ ChunksOf(groups[g].hi - to, chunk) \in Nat
    <3> DEFINE len == groups[g].hi - from
    <3>1. len \in Nat /\ len > 0
      BY <1>3
    <3>2. CASE to = groups[g].hi
      <4>1. len <= chunk /\ groups[g].hi - to = 0
        BY <1>2, <1>3, <1>4, <3>2
      <4> HIDE DEF len
      <4>2. ChunksOf(len, chunk) = 1 /\ ChunksOf(0, chunk) = 0
        BY <1>2, <3>1, <4>1, ChunksFacts
      <4>3. QED
        BY <4>1, <4>2 DEF len
    <3>3. CASE to # groups[g].hi
      <4>1. len > chunk /\ groups[g].hi - to = len - chunk /\ len - chunk \in Nat
        BY <1>2, <1>3, <1>4, <3>3
      <4> HIDE DEF len
      <4>2. ChunksOf(len, chunk) = ChunksOf(len - chunk, chunk) + 1
        BY <1>2, <3>1, <4>1, ChunksFacts
      <4>3. ChunksOf(len - chunk, chunk) \in Nat
        BY <1>2, <4>1, ChunksFacts
      <4>4. QED
        BY <4>1, <4>2, <4>3 DEF len
    <3>4. QED
      BY <3>2, <3>3
  <2>4. groups'[g].live =
          ChunksOf(groups'[g].hi - groups'[g].cursor, chunk)
            + Cardinality(InFlightOf(g)')
    BY <1>2, <1>6, <1>10, <2>1, <2>2, <2>3
  <2>5. ASSUME NEW h \in Groups, h # g, groups[h].phase < phases
        PROVE  groups'[h].live =
                 ChunksOf(groups'[h].hi - groups'[h].cursor, chunk)
                   + Cardinality(InFlightOf(h)')
    BY <1>2, <1>6, <1>10, <2>5 DEF PhasedInv, LiveAccounting, Groups
  <2>6. QED
    BY <1>2, <1>6, <1>7, <2>4, <2>5 DEF LiveAccounting, Groups
<1>13. LiveInv' /\ DoneInv'
  <2>1. Finished' = Finished
    BY <1>2, <1>6, <1>7 DEF Finished
  <2>2. QED
    BY <1>2, <1>6, <1>7, <2>1 DEF PhasedInv, LiveInv, DoneInv
<1>14. QED
  BY <1>8, <1>9, <1>11, <1>12, <1>13 DEF PhasedInv

\* A retirement lands one chunk; only the last one of a phase, when no chunk
\* is left in the slice or in flight, moves the group on.
LEMMA RetireInv ==
  ASSUME TypeOK, PhasedInv, NEW t \in Threads, Retire(t)
  PROVE  PhasedInv'
<1>1. PICK g \in Groups : InSlice(g, job[t].lo) /\ RetireGroup(g)
  BY DEF Retire, Groups
<1> DEFINE S == InFlightOf(g)
           left == groups[g].hi - groups[g].cursor
<1>2. /\ Groups \subseteq GroupIds /\ Groups' = Groups
      /\ g \in GroupIds /\ chunk \in Nat \ {0}
  <2>1. ngroups \in 0 .. GroupMax /\ chunk \in Nat /\ (ngroups # 0 => chunk # 0)
    BY DEF TypeOK
  <2>2. Groups \subseteq GroupIds /\ ngroups # 0
    BY <2>1, GroupMaxAssumption DEF Groups, GroupIds
  <2>3. Groups' = Groups
    BY DEF Groups, Retire
  <2>4. QED
    BY <2>1, <2>2, <2>3
<1>3. /\ InFlight(t) /\ ~InFlight(t)'
      /\ \A u \in Threads : u # t => (InFlight(u)' <=> InFlight(u))
      /\ \A u \in Threads : u # t => job'[u] = job[u]
      /\ phases' = phases /\ chunk' = chunk /\ ngroups' = ngroups
  BY DEF Retire, InFlight, TypeOK
<1>4. /\ t \in S
      /\ \A u \in S : Holds(u, g)
  BY <1>1, <1>3, InFlightHolds DEF InFlightOf, PhasedInv
<1>5. /\ groups[g].phase < phases /\ groups[g].phase \in Nat /\ phases \in Nat
      /\ groups[g].lo < groups[g].hi /\ groups[g].lo \in Nat /\ groups[g].hi \in Nat
      /\ groups[g].cursor \in Nat /\ left \in Nat /\ done \in Nat
  BY <1>2, <1>4 DEF Holds, TypeOK, PhasedInv, SlicesInv
<1>6. /\ groups[g].live = ChunksOf(left, chunk) + Cardinality(S)
      /\ groups[g].live >= 1
      /\ Cardinality(S) \in Nat /\ IsFiniteSet(S)
  BY <1>5, FlightFinite DEF PhasedInv, LiveAccounting, LiveInv, Groups
<1>7. /\ Cardinality(S \ {t}) = Cardinality(S) - 1
      /\ Cardinality(S \ {t}) \in Nat /\ IsFiniteSet(S \ {t})
  BY <1>4, <1>6, FS_RemoveElement, FS_CardinalityType
<1>8. \A h \in GroupIds :
        /\ h # g => groups'[h] = groups[h]
        /\ groups'[h].lo = groups[h].lo /\ groups'[h].hi = groups[h].hi
  BY <1>1, <1>2 DEF RetireGroup, TypeOK
<1>9. /\ InFlightOf(g)' = S \ {t}
      /\ \A h \in Groups : h # g => InFlightOf(h)' = InFlightOf(h)
  <2>1. \A h \in Groups : \A i : InSlice(h, i)' <=> InSlice(h, i)
    BY <1>2, <1>8 DEF InSlice
  <2>2. ASSUME NEW h \in Groups, NEW u \in Threads, u # t
        PROVE  u \in InFlightOf(h)' <=> u \in InFlightOf(h)
    BY <1>3, <2>1, <2>2 DEF InFlightOf, InSlice
  <2>3. \A h \in Groups : t \notin InFlightOf(h)'
    BY <1>3 DEF InFlightOf
  <2>4. \A h \in Groups : h # g => t \notin InFlightOf(h)
    BY <1>1, OneSlice DEF InFlightOf, PhasedInv, TypeOK
  <2>5. \A h : InFlightOf(h) \subseteq Threads /\ InFlightOf(h)' \subseteq Threads
    BY DEF InFlightOf
  <2> HIDE DEF S
  <2>6. QED
    BY <2>2, <2>3, <2>4, <2>5 DEF S
<1>10. Lockstep'
  <2>1. ASSUME NEW h \in Groups, NEW u \in InFlightOf(h)',
               NEW w \in InFlightOf(h)', u # w
        PROVE  /\ job'[u].phase = job'[w].phase
               /\ job'[u].hi <= job'[w].lo \/ job'[w].hi <= job'[u].lo
    <3>1. u \in InFlightOf(h) /\ w \in InFlightOf(h)
      BY <1>9
    <3>2. u \in Threads /\ w \in Threads /\ u # t /\ w # t
      BY <1>3, <2>1 DEF InFlightOf
    <3>3. QED
      BY <1>3, <2>1, <3>1, <3>2 DEF PhasedInv, Lockstep, Groups
  <2>2. QED
    BY <1>2, <2>1 DEF Lockstep, Groups
\* the groups that are not g keep all the invariant says of them
<1>11. ASSUME NEW h \in Groups, h # g
       PROVE  /\ groups'[h].phase < phases =>
                   /\ groups'[h].live >= 1
                   /\ groups'[h].live =
                        ChunksOf(groups'[h].hi - groups'[h].cursor, chunk)
                          + Cardinality(InFlightOf(h)')
              /\ groups'[h].lo <= groups'[h].cursor
              /\ groups'[h].cursor <= groups'[h].hi
              /\ groups'[h].phase <= phases
  BY <1>2, <1>8, <1>9, <1>11
     DEF PhasedInv, LiveAccounting, LiveInv, SlicesInv, Groups
<1>12. ASSUME NEW u \in Threads, InFlight(u)', u \notin S
       PROVE  \E h \in Groups : Holds(u, h)'
  <2>1. u # t /\ InFlight(u) /\ job'[u] = job[u]
    BY <1>3, <1>4, <1>12
  <2>2. PICK h \in Groups : Holds(u, h)
    BY <2>1 DEF PhasedInv, JobsInv
  <2>3. h # g
    BY <1>12, <2>1, <2>2, HeldIsInSlice DEF InFlightOf, PhasedInv
  <2>4. Holds(u, h)'
    BY <1>2, <1>3, <1>8, <2>1, <2>2, <2>3 DEF Holds
  <2>5. QED
    BY <2>4
<1>13. /\ \A h \in Groups : groups'[h].lo < groups'[h].hi
       /\ \A h, k \in Groups : h < k => groups'[h].hi <= groups'[k].lo
  BY <1>2, <1>8 DEF PhasedInv, SlicesInv
\* not the last chunk: only the count moves
<1>14. CASE groups[g].live # 1
  <2>1. /\ groups' = [groups EXCEPT ![g].live = groups[g].live - 1]
        /\ done' = done
    BY <1>1, <1>14 DEF RetireGroup
  <2>2. /\ groups'[g].live = groups[g].live - 1
        /\ groups'[g].phase = groups[g].phase
        /\ groups'[g].cursor = groups[g].cursor
        /\ groups'[g].lo = groups[g].lo /\ groups'[g].hi = groups[g].hi
    BY <1>2, <2>1 DEF TypeOK
  <2>3. /\ groups'[g].live >= 1
        /\ groups'[g].live =
             ChunksOf(groups'[g].hi - groups'[g].cursor, chunk)
               + Cardinality(InFlightOf(g)')
    <3>1. ChunksOf(left, chunk) \in Nat
      BY <1>2, <1>5, ChunksFacts
    <3>2. QED
      BY <1>6, <1>7, <1>9, <1>14, <2>2, <3>1
  <2>4. LiveAccounting' /\ LiveInv'
    BY <1>2, <1>3, <1>11, <2>3 DEF LiveAccounting, LiveInv, Groups
  <2>5. SlicesInv'
    BY <1>2, <1>3, <1>11, <1>13, <2>2 DEF SlicesInv, PhasedInv
  <2>6. JobsInv'
    <3>1. ASSUME NEW u \in Threads, InFlight(u)', u \in S
          PROVE  Holds(u, g)'
      BY <1>3, <1>4, <2>2, <3>1 DEF Holds
    <3>2. QED
      BY <1>2, <1>12, <3>1 DEF JobsInv
  <2>7. DoneInv'
    <3>1. Finished' = Finished
      BY <1>2, <1>3, <1>8, <2>2 DEF Finished
    <3>2. QED
      BY <2>1, <3>1 DEF DoneInv, PhasedInv
  <2>8. QED
    BY <1>10, <2>4, <2>5, <2>6, <2>7 DEF PhasedInv
\* the last chunk: nothing is left in the slice and t alone was in flight
<1>15. CASE groups[g].live = 1
  <2>1. left = 0 /\ Cardinality(S \ {t}) = 0 /\ S \ {t} = {}
    <3>1. ChunksOf(left, chunk) \in Nat
          /\ (left > 0 => ChunksOf(left, chunk) > 0)
      BY <1>2, <1>5, ChunksFacts
    <3>2. Cardinality(S \ {t}) = 0 /\ left = 0
      BY <1>5, <1>6, <1>7, <1>15, <3>1
    <3>3. QED
      BY <1>7, <3>2, FS_EmptySet
  <2>2. JobsInv'
    <3>1. \A u \in Threads : InFlight(u)' => u \notin S
      BY <1>3, <2>1
    <3>2. QED
      BY <1>2, <1>12, <3>1 DEF JobsInv
  <2>3. CASE groups[g].phase + 1 >= phases
    <3>1. /\ groups' = [groups EXCEPT ![g].live = 0,
                                     ![g].phase = groups[g].phase + 1]
          /\ done' = done + 1
      BY <1>1, <1>15, <1>5, <2>3 DEF RetireGroup
    <3>2. /\ groups'[g].phase = phases
          /\ groups'[g].cursor = groups[g].cursor
          /\ groups'[g].lo = groups[g].lo /\ groups'[g].hi = groups[g].hi
      BY <1>2, <1>5, <2>3, <3>1 DEF TypeOK
    <3>3. LiveAccounting' /\ LiveInv'
      BY <1>2, <1>3, <1>5, <1>11, <3>2 DEF LiveAccounting, LiveInv, Groups
    <3>4. SlicesInv'
      BY <1>2, <1>3, <1>5, <1>11, <1>13, <3>2 DEF SlicesInv, PhasedInv
    <3>5. DoneInv'
      <4>1. Finished' = Finished \cup {g} /\ g \notin Finished
        BY <1>2, <1>3, <1>5, <1>8, <3>2 DEF Finished
      <4>2. IsFiniteSet(Groups) /\ Finished \subseteq Groups
        <5>1. ngroups - 1 \in Int
          BY GroupMaxAssumption DEF TypeOK
        <5>2. IsFiniteSet(0 .. ngroups - 1)
          BY <5>1, FS_Interval
        <5>3. QED
          BY <5>2 DEF Groups, Finished
      <4>3. Cardinality(Finished \cup {g}) = Cardinality(Finished) + 1
        BY <4>1, <4>2, FS_Subset, FS_AddElement
      <4>4. QED
        BY <3>1, <4>1, <4>3 DEF DoneInv, PhasedInv
    <3>6. QED
      BY <1>10, <2>2, <3>3, <3>4, <3>5 DEF PhasedInv
  <2>4. CASE groups[g].phase + 1 < phases
    <3> DEFINE full == ChunksOf(groups[g].hi - groups[g].lo, chunk)
    <3>1. /\ groups' = [groups EXCEPT ![g].live = full,
                                     ![g].phase = groups[g].phase + 1,
                                     ![g].cursor = groups[g].lo]
          /\ done' = done
      BY <1>1, <1>15, <1>5, <2>4 DEF RetireGroup
    <3>2. full \in Nat /\ full >= 1
      <4> DEFINE len == groups[g].hi - groups[g].lo
      <4>1. len \in Nat /\ len > 0
        BY <1>5
      <4> HIDE DEF len
      <4>2. ChunksOf(len, chunk) \in Nat /\ ChunksOf(len, chunk) > 0
        BY <1>2, <4>1, ChunksFacts
      <4>3. QED
        BY <4>2 DEF len
    <3> HIDE DEF full
    <3>3. /\ groups'[g].phase = groups[g].phase + 1
          /\ groups'[g].cursor = groups[g].lo /\ groups'[g].live = full
          /\ groups'[g].lo = groups[g].lo /\ groups'[g].hi = groups[g].hi
      BY <1>2, <3>1 DEF TypeOK
    <3>4. /\ groups'[g].live >= 1
          /\ groups'[g].live =
               ChunksOf(groups'[g].hi - groups'[g].cursor, chunk)
                 + Cardinality(InFlightOf(g)')
      BY <1>9, <2>1, <3>2, <3>3, FS_EmptySet DEF full
    <3>5. LiveAccounting' /\ LiveInv'
      BY <1>2, <1>3, <1>11, <3>4 DEF LiveAccounting, LiveInv, Groups
    <3>6. SlicesInv'
      BY <1>2, <1>3, <1>5, <1>11, <1>13, <2>4, <3>3 DEF SlicesInv, PhasedInv
    <3>7. DoneInv'
      <4>1. Finished' = Finished
        BY <1>2, <1>3, <1>5, <1>8, <2>4, <3>3 DEF Finished
      <4>2. QED
        BY <3>1, <4>1 DEF DoneInv, PhasedInv
    <3>8. QED
      BY <1>10, <2>2, <3>5, <3>6, <3>7 DEF PhasedInv
  <2>5. QED
    BY <1>5, <2>3, <2>4
<1>16. QED
  BY <1>14, <1>15

-------------------------------------------------------------------------------
(* Theorems *)

LEMMA InvariantHolds == Spec => []PhasedInv
<1>1. Init => PhasedInv
  <2> SUFFICES ASSUME Init PROVE PhasedInv
    OBVIOUS
  <2>1. Groups = {} /\ 0 .. ngroups - 1 = {} /\ Finished = {}
    BY DEF Init, Groups, Finished
  <2>2. \A t \in Threads : ~InFlight(t)
    BY DEF Init, InFlight
  <2>3. SlicesInv /\ JobsInv /\ Lockstep /\ LiveAccounting /\ LiveInv
    BY <2>1, <2>2 DEF SlicesInv, JobsInv, Lockstep, LiveAccounting, LiveInv
  <2>4. DoneInv
    BY <2>1, FS_EmptySet DEF Init, DoneInv
  <2>5. QED
    BY <2>3, <2>4 DEF PhasedInv
<1>2. TypeOK /\ PhasedInv /\ [Next]_vars => PhasedInv'
  <2> SUFFICES ASSUME TypeOK, PhasedInv, [Next]_vars
               PROVE  PhasedInv'
    OBVIOUS
  <2>1. ASSUME NEW c \in Calls, Dispatch(c)
        PROVE  PhasedInv'
    BY <2>1, DispatchInv
  <2>2. ASSUME NEW t \in Threads, Step(t)
        PROVE  PhasedInv'
    <3>1. CASE Grab(t)
      BY <3>1, GrabInv
    <3>2. CASE Retire(t)
      BY <3>2, RetireInv
    <3>3. CASE Take(t)
      BY <3>3, FlightUnchanged DEF Take, InFlight, TypeOK
    <3>4. CASE Leave(t)
      BY <3>4, FlightUnchanged DEF Leave, InFlight, TypeOK
    <3>5. CASE GrabNothing(t)
      BY <3>5, FlightUnchanged DEF GrabNothing, InFlight, TypeOK
    <3>6. CASE Yield(t)
      BY <3>6, FlightUnchanged DEF Yield, InFlight, TypeOK
    <3>7. CASE GrabFinished(t)
      BY <3>7, FlightUnchanged DEF GrabFinished, InFlight, TypeOK
    <3>8. CASE KernelEnd(t)
      BY <3>8, FlightUnchanged DEF KernelEnd, InFlight, TypeOK
    <3>9. QED
      BY <2>2, <3>1, <3>2, <3>3, <3>4, <3>5, <3>6, <3>7, <3>8 DEF Step
  <2>3. CASE UNCHANGED vars
    BY <2>3, FlightUnchanged DEF vars, InFlight
  <2>4. QED
    BY <2>1, <2>2, <2>3 DEF Next
<1>3. QED
  BY <1>1, <1>2, TypeCorrect, PTL DEF Spec

\* The barrier of fpprt.c:500-505 for every number of threads, groups and
\* phases: chunks of one group in flight at once are of one phase, and apart.
THEOREM BarrierHolds == Spec => []Lockstep
<1>1. PhasedInv => Lockstep
  BY DEF PhasedInv
<1>2. QED
  BY <1>1, InvariantHolds, PTL

\* fpp_group.live is exactly the chunks a phase still owes (fpprt.c:546-558).
THEOREM AccountingHolds == Spec => []LiveAccounting
<1>1. PhasedInv => LiveAccounting
  BY DEF PhasedInv
<1>2. QED
  BY <1>1, InvariantHolds, PTL

\* phased_work_ never spins with nothing in flight (fpprt.c:569-576): some
\* retirement is always on its way to release the threads that yield.
THEOREM SpinsOnlyForWork == Spec => []SpinIsJustified
<1>1. TypeOK /\ PhasedInv => SpinIsJustified
  <2> SUFFICES ASSUME TypeOK, PhasedInv, done # ngroups,
                      \A g \in 0 .. ngroups - 1 : ~Runnable(g)
               PROVE  \E t \in Threads : InFlight(t)
    BY DEF SpinIsJustified
  <2>1. PICK g \in Groups : groups[g].phase # phases
    <3> SUFFICES ASSUME \A g \in Groups : groups[g].phase = phases
                 PROVE  FALSE
      OBVIOUS
    <3>1. Finished = 0 .. ngroups - 1
      BY DEF Finished, Groups
    <3>2. Cardinality(0 .. ngroups - 1) = ngroups
      BY FS_Interval, GroupMaxAssumption DEF TypeOK
    <3>3. QED
      BY <3>1, <3>2 DEF PhasedInv, DoneInv
  <2>2. g \in GroupIds
    BY GroupMaxAssumption DEF TypeOK, Groups, GroupIds
  <2>3. /\ groups[g].phase < phases
        /\ groups[g].hi - groups[g].cursor = 0
    <3>1. /\ groups[g].phase \in Nat /\ phases \in Nat
          /\ groups[g].cursor \in Nat /\ groups[g].hi \in Nat
      BY <2>2 DEF TypeOK
    <3>2. groups[g].phase <= phases /\ groups[g].cursor <= groups[g].hi
      BY DEF PhasedInv, SlicesInv
    <3>3. ~(groups[g].phase < phases /\ groups[g].cursor < groups[g].hi)
      BY DEF Runnable, Groups
    <3>4. QED
      BY <2>1, <3>1, <3>2, <3>3
  <2>4. chunk \in Nat \ {0}
    <3>1. ngroups \in Nat /\ ngroups # 0
      BY <2>1, GroupMaxAssumption DEF TypeOK, Groups
    <3>2. QED
      BY <3>1 DEF TypeOK
  <2>5. ChunksOf(0, chunk) = 0
    BY <2>4, ChunksFacts
  <2>6. /\ groups[g].live = 0 + Cardinality(InFlightOf(g))
        /\ groups[g].live >= 1
    BY <2>3, <2>5 DEF PhasedInv, LiveAccounting, LiveInv, Groups
  <2>7. InFlightOf(g) # {}
    <3> SUFFICES ASSUME InFlightOf(g) = {} PROVE FALSE
      OBVIOUS
    <3>1. Cardinality(InFlightOf(g)) = 0
      BY FS_EmptySet
    <3>2. QED
      BY <2>6, <3>1
  <2>8. QED
    BY <2>7 DEF InFlightOf
<1>2. QED
  BY <1>1, TypeCorrect, InvariantHolds, PTL

-------------------------------------------------------------------------------
(* The refinement: what the threads do with the group table is a serving of *)
(* the call as PhasedWork states it.                                        *)

\* every index of the call is in some slice
CoverInv == \A i \in 0 .. RangeEnd - 1 : \E g \in Groups : InSlice(g, i)

\* whoever took an index stays inside phased_work_ until the last group is done
Working(t) == pc[t] \in {"grab", "yield", "kernel", "retire"}
WorkedInv ==
  cursor > 0 /\ done # ngroups /\ (\E t \in Threads : pc[t] # "idle") =>
    \E t \in Threads : Working(t)

\* Induction over the numbers, as the prover can use it.
LEMMA LeastNumber ==
  ASSUME NEW S \in SUBSET Nat, S # {}
  PROVE  \E m \in S : \A k \in S : m <= k
<1> DEFINE below == {p \in Nat \X Nat : p[1] < p[2]}
<1>1. IsWellFoundedOn(below, Nat)
  BY NatLessThanWellFounded DEF OpToRel
<1> HIDE DEF below
<1>2. PICK m \in S : \A k \in S : <<k, m>> \notin below
  BY <1>1, WFMin
<1>3. \A k \in S : ~(k < m)
  BY <1>2 DEF below
<1>4. QED
  BY <1>3

LEMMA SliceEnds ==
  ASSUME NEW n \in Nat, NEW k \in Nat \ {0}, k <= n
  PROVE  SliceStart(n, k, 0) = 0 /\ SliceStart(n, k, k) = n
<1> DEFINE b == n \div k
           r == n % k
<1>1. b \in Nat /\ r \in 0 .. k - 1 /\ n = k * b + r
  BY DivFacts
<1>2. 0 * b = 0
  BY <1>1
<1> HIDE DEF b, r
<1>3. SliceStart(n, k, 0) = 0 * b + Lesser(0, r)
      /\ SliceStart(n, k, k) = k * b + Lesser(k, r)
  BY DEF SliceStart, b, r
<1>4. QED
  BY <1>1, <1>2, <1>3 DEF Lesser

\* The slices leave no index out ...
LEMMA SlicesCover ==
  ASSUME NEW n \in Nat, NEW k \in Nat \ {0}, k <= n, NEW i \in 0 .. n - 1
  PROVE  \E g \in 0 .. k - 1 : SliceStart(n, k, g) <= i /\ i < SliceStart(n, k, g + 1)
<1> DEFINE S == {g \in Nat : i < SliceStart(n, k, g + 1)}
<1>1. k - 1 \in S
  BY SliceEnds
<1>2. PICK g \in S : \A h \in S : g <= h
  BY <1>1, LeastNumber
<1>3. g \in 0 .. k - 1
  BY <1>1, <1>2
<1>4. SliceStart(n, k, g) <= i
  <2>1. CASE g = 0
    BY <2>1, SliceEnds
  <2>2. CASE g # 0
    <3>1. g - 1 \in Nat /\ (g - 1) + 1 = g /\ g - 1 \notin S
      BY <1>2, <2>2
    <3>2. SliceStart(n, k, g) \in Nat
      BY SliceStarts
    <3>3. ~(i < SliceStart(n, k, g))
      BY <3>1
    <3>4. QED
      BY <3>2, <3>3
  <2>3. QED
    BY <2>1, <2>2
<1>5. QED
  BY <1>2, <1>3, <1>4

\* ... and one is at most one index longer than another.
LEMMA SlicesEven ==
  ASSUME NEW n \in Nat, NEW k \in Nat \ {0}, k <= n, NEW g \in Nat
  PROVE  SliceStart(n, k, g + 1) - SliceStart(n, k, g) \in {n \div k, (n \div k) + 1}
<1> DEFINE b == n \div k
           r == n % k
<1>1. b \in Nat /\ r \in Nat
  BY DivFacts
<1>2. g * b \in Nat /\ (g + 1) * b = g * b + b
  BY <1>1
<1> HIDE DEF b, r
<1>3. SliceStart(n, k, g) = g * b + Lesser(g, r)
      /\ SliceStart(n, k, g + 1) = (g + 1) * b + Lesser(g + 1, r)
  BY DEF SliceStart, b, r
<1>4. SliceStart(n, k, g + 1) - SliceStart(n, k, g) \in {b, b + 1}
  BY <1>1, <1>2, <1>3 DEF Lesser
<1>5. QED
  BY <1>4 DEF b

-------------------------------------------------------------------------------
\* What a call that was posted does not change: the slices.
SlicesKept ==
  /\ ngroups' = ngroups /\ phases' = phases
  /\ \A g \in Groups : groups'[g].lo = groups[g].lo /\ groups'[g].hi = groups[g].hi

LEMMA StepKeepsSlices ==
  ASSUME TypeOK, NEW t \in Threads, Step(t)
  PROVE  SlicesKept
<1>1. Groups \subseteq GroupIds
  BY GroupMaxAssumption DEF TypeOK, Groups, GroupIds
<1>2. CASE Grab(t)
  BY <1>1, <1>2 DEF Grab, SlicesKept, TypeOK
<1>3. CASE Retire(t)
  <2>1. PICK g \in 0 .. ngroups - 1 : RetireGroup(g)
    BY <1>3 DEF Retire
  <2>2. g \in GroupIds
    BY <1>1 DEF Groups
  <2>3. \A h \in Groups : groups'[h].lo = groups[h].lo /\ groups'[h].hi = groups[h].hi
    BY <1>1, <2>1, <2>2 DEF RetireGroup, TypeOK
  <2>4. QED
    BY <1>3, <2>3 DEF Retire, SlicesKept
<1>4. CASE ~Grab(t) /\ ~Retire(t)
  BY <1>4 DEF Step, Take, Leave, GrabNothing, Yield, GrabFinished, KernelEnd, SlicesKept
<1>5. QED
  BY <1>2, <1>3, <1>4

LEMMA SlicesInRange ==
  ASSUME TypeOK, SlicesInv, NEW g \in Groups
  PROVE  /\ g \in GroupIds /\ ngroups - 1 \in Groups
         /\ groups[g].lo \in Nat /\ groups[g].hi \in Nat
         /\ groups[g].cursor \in Nat /\ groups[g].phase \in Nat
         /\ groups[g].lo < groups[g].hi /\ groups[g].hi <= RangeEnd
         /\ RangeEnd \in Nat
<1>1. g \in GroupIds /\ ngroups - 1 \in GroupIds /\ ngroups # 0
      /\ ngroups - 1 \in Groups /\ g <= ngroups - 1
  BY GroupMaxAssumption DEF TypeOK, Groups, GroupIds
<1>2. /\ groups[g] \in [lo : Nat, hi : Nat, phase : Nat, cursor : Nat, live : Int]
      /\ groups[ngroups - 1] \in
           [lo : Nat, hi : Nat, phase : Nat, cursor : Nat, live : Int]
  BY <1>1 DEF TypeOK
<1>3. groups[g].lo < groups[g].hi
      /\ groups[ngroups - 1].lo < groups[ngroups - 1].hi
  BY <1>1 DEF SlicesInv
<1>4. RangeEnd = groups[ngroups - 1].hi
  BY <1>1 DEF RangeEnd
<1>5. groups[g].hi <= groups[ngroups - 1].hi
  <2>1. CASE g = ngroups - 1
    BY <1>2, <2>1
  <2>2. CASE g # ngroups - 1
    <3>1. g < ngroups - 1
      BY <1>1, <2>2 DEF Groups, TypeOK
    <3>2. groups[g].hi <= groups[ngroups - 1].lo
      BY <1>1, <3>1 DEF SlicesInv
    <3>3. QED
      BY <1>2, <1>3, <3>2
  <2>3. QED
    BY <2>1, <2>2
<1>6. QED
  BY <1>1, <1>2, <1>3, <1>4, <1>5

\* What is begun can be read off the one group that an index is in.
LEMMA BegunInSlice ==
  ASSUME TypeOK, SlicesInv, NEW g \in Groups, NEW i \in Nat, InSlice(g, i),
         NEW p \in 0 .. phases - 1
  PROVE  <<p, i>> \in Begun <=>
           (p < groups[g].phase \/ (p = groups[g].phase /\ i < groups[g].cursor))
<1>1. i \in 0 .. RangeEnd - 1
  BY SlicesInRange DEF InSlice
<1>2. \A h \in Groups : InSlice(h, i) => h = g
  BY OneSlice
<1>3. QED
  BY <1>1, <1>2 DEF Begun, Groups

\* A chunk in the kernel is a part of what is begun and not ended.
LEMMA HeldIsBegun ==
  ASSUME TypeOK, SlicesInv, NEW t \in Threads, NEW g \in Groups, Holds(t, g),
         NEW i \in job[t].lo .. job[t].hi - 1
  PROVE  /\ i \in Nat /\ InSlice(g, i)
         /\ job[t].phase \in 0 .. phases - 1
         /\ <<job[t].phase, i>> \in Begun
<1>1. /\ job[t].lo \in Nat /\ job[t].hi \in Nat /\ job[t].phase \in Nat
      /\ phases \in Nat
  BY DEF TypeOK
<1>2. /\ groups[g].lo <= job[t].lo /\ job[t].hi <= groups[g].cursor
      /\ job[t].phase = groups[g].phase /\ groups[g].phase < phases
  BY DEF Holds
<1>3. /\ groups[g].cursor <= groups[g].hi /\ groups[g].cursor \in Nat
      /\ groups[g].lo \in Nat /\ groups[g].hi \in Nat
  BY SlicesInRange DEF SlicesInv
<1>4. /\ i \in Nat /\ groups[g].lo <= i /\ i < groups[g].hi
      /\ i < groups[g].cursor
  BY <1>1, <1>2, <1>3
<1>5. i \in Nat /\ InSlice(g, i)
  BY <1>4 DEF InSlice
<1>6. job[t].phase \in 0 .. phases - 1
  BY <1>1, <1>2
<1>7. QED
  BY <1>2, <1>4, <1>5, <1>6, BegunInSlice

AbsSlices == {[lo |-> groups[g].lo, hi |-> groups[g].hi] : g \in 0 .. ngroups - 1}
Open == \E t \in Threads : pc[t] # "idle"

LEMMA JobKept ==
  ASSUME TypeOK, SlicesKept
  PROVE  RangeEnd' = RangeEnd /\ AbsSlices' = AbsSlices
<1>1. ngroups # 0 => ngroups - 1 \in Groups
  BY GroupMaxAssumption DEF TypeOK, Groups
<1>2. QED
  BY <1>1 DEF SlicesKept, RangeEnd, AbsSlices, Groups

\* The same pairs are begun if no cursor or phase moved, and the same are ended
\* if no thread entered or left the kernel.
LEMMA PairsKept ==
  ASSUME TypeOK, UNCHANGED <<groups, ngroups, phases, job>>,
         \A t \in Threads : pc'[t] = "kernel" <=> pc[t] = "kernel"
  PROVE  Begun' = Begun /\ Ended' = Ended
<1>1. Begun' = Begun
  BY DEF Begun, RangeEnd, InSlice
<1>2. QED
  BY <1>1 DEF Ended

\* Steps between a thread's kernels, inside a call: nothing happens.
LEMMA QuietStutters ==
  ASSUME TypeOK, NEW t \in Threads,
         Take(t) \/ GrabNothing(t) \/ Yield(t) \/ GrabFinished(t)
           \/ (Leave(t) /\ Open')
  PROVE  UNCHANGED Work!vars
<1>1. /\ UNCHANGED <<groups, ngroups, phases, job>>
      /\ \A u \in Threads : pc'[u] = "kernel" <=> pc[u] = "kernel"
  BY DEF Take, GrabNothing, Yield, GrabFinished, Leave, TypeOK
<1>2. Begun' = Begun /\ Ended' = Ended
  BY <1>1, PairsKept
<1>3. Open /\ Open'
  BY DEF Take, GrabNothing, Yield, GrabFinished, Leave, TypeOK, Open
<1>4. RangeEnd' = RangeEnd /\ AbsSlices' = AbsSlices
  BY <1>1 DEF RangeEnd, AbsSlices
<1>5. QED
  BY <1>1, <1>2, <1>3, <1>4 DEF Work!vars, Open, AbsSlices

\* phased_grab_ hands a chunk to the kernel.
LEMMA GrabBegins ==
  ASSUME TypeOK, PhasedInv, NEW t \in Threads, Grab(t)
  PROVE  Work!Next
<1>1. PICK g \in Groups :
        LET from == groups[g].cursor
            to == Lesser(from + chunk, groups[g].hi)
        IN  /\ Runnable(g)
            /\ job' = [job EXCEPT ![t] =
                 [phase |-> groups[g].phase, lo |-> from, hi |-> to]]
            /\ groups' = [groups EXCEPT ![g].cursor = to]
  BY DEF Grab, FirstRunnable, Groups
<1> DEFINE p == groups[g].phase
           from == groups[g].cursor
           to == Lesser(from + chunk, groups[g].hi)
           new == {p} \X (from .. to - 1)
<1>2. /\ g \in GroupIds /\ from \in Nat /\ groups[g].hi \in Nat /\ groups[g].lo \in Nat
      /\ groups[g].lo <= from /\ groups[g].hi <= RangeEnd /\ RangeEnd \in Nat
      /\ p \in Nat /\ p < phases /\ phases \in Nat /\ from < groups[g].hi
      /\ chunk \in Nat \ {0}
  BY <1>1, SlicesInRange DEF PhasedInv, SlicesInv, Runnable, TypeOK, Groups
<1>3. to \in Nat /\ from < to /\ to <= groups[g].hi
  BY <1>2 DEF Lesser
<1>4. /\ SlicesKept /\ Open /\ Open'
      /\ RangeEnd' = RangeEnd /\ AbsSlices' = AbsSlices
      /\ phases' = phases /\ ngroups' = ngroups
  <2>1. Step(t)
    BY DEF Step
  <2>2. SlicesKept
    BY <2>1, StepKeepsSlices
  <2>3. Open /\ Open'
    BY DEF Grab, Open, TypeOK
  <2>4. QED
    BY <2>2, <2>3, JobKept DEF SlicesKept
<1>5. /\ job'[t] = [phase |-> p, lo |-> from, hi |-> to]
      /\ pc'[t] = "kernel" /\ pc[t] # "kernel"
      /\ \A u \in Threads : u # t => job'[u] = job[u] /\ pc'[u] = pc[u]
  BY <1>1 DEF TypeOK, Grab
<1>6. /\ groups'[g].cursor = to /\ groups'[g].phase = p
      /\ \A h \in Groups : h # g => groups'[h] = groups[h]
      /\ \A h \in Groups : \A i : InSlice(h, i)' <=> InSlice(h, i)
  <2>1. Groups \subseteq GroupIds
    BY SlicesInRange DEF PhasedInv
  <2>2. groups'[g].cursor = to /\ groups'[g].phase = p
        /\ \A h \in Groups : h # g => groups'[h] = groups[h]
    BY <1>1, <1>2, <2>1 DEF TypeOK
  <2>3. \A h \in Groups : \A i : InSlice(h, i)' <=> InSlice(h, i)
    BY <1>4 DEF InSlice, SlicesKept
  <2>4. QED
    BY <2>2, <2>3
<1> HIDE DEF to, from, p
\* the pairs of the chunk are in the slice, and new
<1>7. ASSUME NEW i \in from .. to - 1
      PROVE  /\ i \in 0 .. RangeEnd - 1 /\ InSlice(g, i)
             /\ <<p, i>> \notin Begun
  <2>1. i \in 0 .. RangeEnd - 1 /\ InSlice(g, i) /\ i \in Nat /\ ~(i < from)
    BY <1>2, <1>3 DEF InSlice
  <2>2. p \in 0 .. phases - 1
    BY <1>2
  <2>3. QED
    BY <1>2, <2>1, <2>2, BegunInSlice DEF PhasedInv, p, from
<1>8. Begun' = Begun \cup new
  <2>1. ASSUME NEW q \in 0 .. phases - 1, NEW i \in 0 .. RangeEnd - 1
        PROVE  <<q, i>> \in Begun' <=> <<q, i>> \in Begun \/ (q = p /\ i \in from .. to - 1)
    <3>1. <<q, i>> \in Begun <=> \E h \in Groups : InSlice(h, i) /\
            (q < groups[h].phase \/ (q = groups[h].phase /\ i < groups[h].cursor))
      BY DEF Begun, Groups
    <3>2. <<q, i>> \in Begun' <=> \E h \in Groups : InSlice(h, i) /\
            (q < groups'[h].phase \/ (q = groups'[h].phase /\ i < groups'[h].cursor))
      BY <1>4, <1>6 DEF Begun, Groups
    <3>3. CASE InSlice(g, i)
      <4>1. \A h \in Groups : InSlice(h, i) => h = g
        BY <3>3, OneSlice DEF PhasedInv
      <4>2. <<q, i>> \in Begun <=> q < p \/ (q = p /\ i < from)
        BY <3>1, <3>3, <4>1 DEF p, from
      <4>3. <<q, i>> \in Begun' <=> q < p \/ (q = p /\ i < to)
        BY <1>6, <3>2, <3>3, <4>1
      <4>4. QED
        BY <1>2, <1>3, <4>2, <4>3
    <3>4. CASE ~InSlice(g, i)
      <4>1. i \notin from .. to - 1
        BY <1>7, <3>4
      <4>2. QED
        BY <1>6, <3>1, <3>2, <3>4, <4>1
    <3>5. QED
      BY <3>3, <3>4
  <2>2. Begun \subseteq (0 .. phases - 1) \X (0 .. RangeEnd - 1)
    BY DEF Begun
  <2>3. Begun' \subseteq (0 .. phases - 1) \X (0 .. RangeEnd - 1)
    BY <1>4 DEF Begun
  <2>4. new \subseteq (0 .. phases - 1) \X (0 .. RangeEnd - 1)
    BY <1>2, <1>7
  <2>5. \A x \in (0 .. phases - 1) \X (0 .. RangeEnd - 1) : x \in Begun' <=> x \in Begun \cup new
    BY <2>1
  <2>6. QED
    BY <2>2, <2>3, <2>4, <2>5
<1>9. Ended' = Ended
  <2>1. ASSUME NEW x \in new
        PROVE  x \notin Begun /\ x \notin Ended'
    <3>1. x = <<p, x[2]>> /\ x[1] = p /\ x[2] \in from .. to - 1
      OBVIOUS
    <3>2. x \notin Begun
      BY <1>7, <3>1
    <3>3. pc'[t] = "kernel" /\ job'[t].phase = x[1]
          /\ job'[t].lo <= x[2] /\ x[2] < job'[t].hi
      BY <1>2, <1>3, <1>5, <3>1
    <3>4. QED
      BY <3>2, <3>3 DEF Ended
  <2>2. ASSUME NEW x \in Begun
        PROVE  x \in Ended' <=> x \in Ended
    <3>1. x[1] = p => x[2] \notin from .. to - 1
      BY <1>7 DEF Begun
    <3>2. ~(job'[t].phase = x[1] /\ job'[t].lo <= x[2] /\ x[2] < job'[t].hi)
      BY <1>2, <1>3, <1>5, <3>1 DEF Begun
    <3>3. x \in Begun'
      BY <1>8
    <3>4. QED
      BY <1>5, <3>2, <3>3 DEF Ended
  <2>3. QED
    BY <1>8, <2>1, <2>2 DEF Ended
\* its group is through the phase before
<1>10. ASSUME p > 0, NEW i \in groups[g].lo .. groups[g].hi - 1
       PROVE  <<p - 1, i>> \in Ended
  <2>1. i \in Nat /\ InSlice(g, i) /\ p - 1 \in 0 .. phases - 1 /\ p - 1 < p
    BY <1>2, <1>10 DEF InSlice
  <2>2. <<p - 1, i>> \in Begun
    BY <2>1, BegunInSlice DEF PhasedInv, p
  <2>3. ASSUME NEW u \in Threads, pc[u] = "kernel", job[u].phase = p - 1,
               job[u].lo <= i, i < job[u].hi
        PROVE  FALSE
    <3>1. PICK h \in Groups : Holds(u, h)
      BY <2>3 DEF PhasedInv, JobsInv, InFlight
    <3>2. i \in job[u].lo .. job[u].hi - 1
      BY <2>1, <2>3 DEF TypeOK
    <3>3. InSlice(h, i)
      BY <3>1, <3>2, HeldIsBegun DEF PhasedInv
    <3>4. h = g
      BY <2>1, <3>3, OneSlice DEF PhasedInv
    <3>5. QED
      BY <1>2, <2>3, <3>1, <3>4 DEF Holds, p
  <2>4. QED
    BY <2>2, <2>3 DEF Ended
<1>11. Work!Begin(p, from, to)
  <2>1. [lo |-> groups[g].lo, hi |-> groups[g].hi] \in AbsSlices
    BY DEF AbsSlices, Groups
  <2>2. \E sl \in AbsSlices :
          /\ sl.lo <= from /\ to <= sl.hi
          /\ p > 0 => \A i \in sl.lo .. sl.hi - 1 : <<p - 1, i>> \in Ended
    BY <1>2, <1>3, <1>10, <2>1
  <2>3. Begun' = Begun \cup ({p} \X (from .. to - 1))
    BY <1>8
  <2>4. \A i \in from .. to - 1 : <<p, i>> \notin Begun
    BY <1>7
  <2>5. [n |-> RangeEnd, phases |-> phases, slices |-> AbsSlices]'
          = [n |-> RangeEnd, phases |-> phases, slices |-> AbsSlices]
    BY <1>4
  <2>6. QED
    BY <1>4, <1>9, <2>2, <2>3, <2>4, <2>5 DEF Work!Begin, AbsSlices, Open
<1>12. p \in 0 .. phases - 1 /\ from \in 0 .. RangeEnd - 1 /\ to \in 1 .. RangeEnd
       /\ from < to
  BY <1>2, <1>3 DEF p, from
<1>13. QED
  BY <1>11, <1>12 DEF Work!Next

\* No index is in two kernels at once.
LEMMA KernelsApart ==
  ASSUME TypeOK, PhasedInv, NEW t \in Threads, NEW u \in Threads, t # u,
         pc[t] = "kernel", pc[u] = "kernel",
         NEW i \in job[t].lo .. job[t].hi - 1, i \in job[u].lo .. job[u].hi - 1
  PROVE  FALSE
<1>1. PICK g \in Groups : Holds(t, g)
  BY DEF PhasedInv, JobsInv, InFlight
<1>2. PICK h \in Groups : Holds(u, h)
  BY DEF PhasedInv, JobsInv, InFlight
<1>3. g = h
  BY <1>1, <1>2, HeldIsBegun, OneSlice DEF PhasedInv
<1>4. t \in InFlightOf(g) /\ u \in InFlightOf(g)
  BY <1>1, <1>2, <1>3, HeldIsInSlice DEF PhasedInv, InFlightOf, InFlight
<1>5. job[t].hi <= job[u].lo \/ job[u].hi <= job[t].lo
  BY <1>4 DEF PhasedInv, Lockstep, Groups
<1>6. QED
  BY <1>5 DEF TypeOK

\* The kernel returns from a chunk.
LEMMA KernelEnds ==
  ASSUME TypeOK, PhasedInv, NEW t \in Threads, KernelEnd(t)
  PROVE  Work!Next
<1> DEFINE p == job[t].phase
           lo == job[t].lo
           hi == job[t].hi
           new == {p} \X (lo .. hi - 1)
<1>1. /\ UNCHANGED <<groups, ngroups, phases, job>>
      /\ pc[t] = "kernel" /\ pc'[t] # "kernel" /\ pc'[t] # "idle"
      /\ \A u \in Threads : u # t => pc'[u] = pc[u]
  BY DEF KernelEnd, TypeOK
<1>2. PICK g \in Groups : Holds(t, g)
  BY <1>1 DEF PhasedInv, JobsInv, InFlight
<1>3. /\ lo \in Nat /\ hi \in Nat /\ p \in Nat /\ phases \in Nat
      /\ RangeEnd \in Nat /\ lo < hi /\ hi <= RangeEnd /\ p < phases
  <2>1. /\ lo \in Nat /\ hi \in Nat /\ p \in Nat /\ phases \in Nat
    BY DEF TypeOK
  <2>2. lo < hi /\ hi <= groups[g].cursor /\ p < phases
    BY <1>2 DEF Holds
  <2>3. groups[g].cursor <= groups[g].hi /\ groups[g].hi <= RangeEnd
        /\ RangeEnd \in Nat /\ groups[g].cursor \in Nat /\ groups[g].hi \in Nat
    BY SlicesInRange DEF PhasedInv, SlicesInv
  <2>4. QED
    BY <2>1, <2>2, <2>3
<1>4. ASSUME NEW i \in lo .. hi - 1
      PROVE  <<p, i>> \in Begun \ Ended
  <2>1. <<p, i>> \in Begun
    BY <1>2, HeldIsBegun DEF PhasedInv
  <2>2. lo <= i /\ i < hi
    BY <1>3
  <2>3. QED
    BY <1>1, <2>1, <2>2 DEF Ended
<1>5. Begun' = Begun
  BY <1>1 DEF Begun, RangeEnd, InSlice
<1>6. Ended' = Ended \cup new
  <2>1. ASSUME NEW x \in new
        PROVE  x \in Ended'
    <3>1. x = <<p, x[2]>> /\ x[1] = p /\ x[2] \in lo .. hi - 1
      OBVIOUS
    <3>2. x \in Begun'
      BY <1>4, <1>5, <3>1
    <3>3. ASSUME NEW u \in Threads, pc'[u] = "kernel",
                 job'[u].lo <= x[2], x[2] < job'[u].hi
          PROVE  FALSE
      <4>1. u # t /\ pc[u] = "kernel" /\ job'[u] = job[u]
        BY <1>1, <3>3
      <4>2. x[2] \in job[u].lo .. job[u].hi - 1
        BY <1>3, <3>1, <3>3, <4>1 DEF TypeOK
      <4>3. QED
        BY <1>1, <3>1, <4>1, <4>2, KernelsApart
    <3>4. QED
      BY <3>2, <3>3 DEF Ended
  <2>2. ASSUME NEW x \in Begun, x \notin new
        PROVE  x \in Ended' <=> x \in Ended
    <3>1. x = <<x[1], x[2]>> /\ x[1] \in Int /\ x[2] \in Int
      BY DEF Begun
    <3>2. ~(p = x[1] /\ lo <= x[2] /\ x[2] < hi)
      BY <1>3, <2>2, <3>1
    <3>3. QED
      BY <1>1, <1>5, <3>2 DEF Ended
  <2>3. Ended \subseteq Begun /\ Ended' \subseteq Begun /\ new \subseteq Begun
    BY <1>4, <1>5 DEF Ended
  <2>4. QED
    BY <2>1, <2>2, <2>3
<1>7. Open /\ Open' /\ RangeEnd' = RangeEnd /\ AbsSlices' = AbsSlices
  BY <1>1 DEF Open, RangeEnd, AbsSlices
<1>8. Work!End(p, lo, hi)
  <2>1. [n |-> RangeEnd, phases |-> phases, slices |-> AbsSlices]'
          = [n |-> RangeEnd, phases |-> phases, slices |-> AbsSlices]
    BY <1>1, <1>7
  <2>2. QED
    BY <1>4, <1>5, <1>6, <1>7, <2>1 DEF Work!End, AbsSlices, Open
<1>9. p \in 0 .. phases - 1 /\ lo \in 0 .. RangeEnd - 1 /\ hi \in 1 .. RangeEnd
      /\ lo < hi
  BY <1>3
<1>10. QED
  BY <1>8, <1>9 DEF Work!Next

\* The table entry that a retirement finds, and what it makes of it: a phase
\* moves on only from the end of its slice.
LEMMA RetireMoves ==
  ASSUME TypeOK, PhasedInv, NEW t \in Threads, Retire(t)
  PROVE  \E g \in Groups :
           /\ \A h \in Groups : h # g => groups'[h] = groups[h]
           /\ groups[g].phase < phases
           /\ \/ /\ groups'[g].phase = groups[g].phase
                 /\ groups'[g].cursor = groups[g].cursor
              \/ /\ groups[g].cursor = groups[g].hi
                 /\ groups'[g].phase = groups[g].phase + 1
                 /\ \/ groups[g].phase + 1 >= phases
                    \/ groups'[g].cursor = groups[g].lo
<1>1. PICK g \in Groups : InSlice(g, job[t].lo) /\ RetireGroup(g)
  BY DEF Retire, Groups
<1> DEFINE left == groups[g].hi - groups[g].cursor
<1>2. /\ g \in GroupIds /\ Groups \subseteq GroupIds /\ chunk \in Nat \ {0}
      /\ groups[g].cursor \in Nat /\ groups[g].hi \in Nat /\ left \in Nat
      /\ groups[g].phase \in Nat /\ phases \in Nat
  BY SlicesInRange DEF PhasedInv, SlicesInv, TypeOK, Groups
<1>3. t \in InFlightOf(g)
  BY <1>1 DEF Retire, InFlight, InFlightOf
<1>4. groups[g].phase < phases
  BY <1>3, InFlightHolds DEF PhasedInv, Holds
<1>5. groups[g].live = ChunksOf(left, chunk) + Cardinality(InFlightOf(g))
      /\ Cardinality(InFlightOf(g)) \in Nat /\ Cardinality(InFlightOf(g)) # 0
  <2>1. Cardinality(InFlightOf(g)) \in Nat /\ IsFiniteSet(InFlightOf(g))
    BY FlightFinite
  <2>2. Cardinality(InFlightOf(g)) # 0
    BY <1>3, <2>1, FS_EmptySet
  <2>3. QED
    BY <1>4, <2>1, <2>2 DEF PhasedInv, LiveAccounting, Groups
<1>6. groups[g].live = 1 => groups[g].cursor = groups[g].hi
  <2> HIDE DEF left
  <2>1. ChunksOf(left, chunk) \in Nat /\ (left > 0 => ChunksOf(left, chunk) > 0)
    BY <1>2, ChunksFacts
  <2>2. groups[g].live = 1 => left = 0
    BY <1>2, <1>5, <2>1
  <2>3. QED
    BY <1>2, <2>2 DEF left
<1>7. \A h \in Groups : h # g => groups'[h] = groups[h]
  BY <1>1, <1>2 DEF RetireGroup, TypeOK
<1>8. \/ /\ groups'[g].phase = groups[g].phase
         /\ groups'[g].cursor = groups[g].cursor
      \/ /\ groups[g].live = 1
         /\ groups'[g].phase = groups[g].phase + 1
         /\ \/ groups[g].phase + 1 >= phases
            \/ groups'[g].cursor = groups[g].lo
  BY <1>1, <1>2 DEF RetireGroup, TypeOK
<1>9. QED
  BY <1>4, <1>6, <1>7, <1>8

\* A retirement is the group table's business: the caller's promise sees the
\* kernel's return, and the next grab.
LEMMA RetireStutters ==
  ASSUME TypeOK, PhasedInv, NEW t \in Threads, Retire(t)
  PROVE  UNCHANGED Work!vars
<1>1. /\ SlicesKept /\ Open /\ Open' /\ phases' = phases /\ ngroups' = ngroups
      /\ RangeEnd' = RangeEnd /\ AbsSlices' = AbsSlices
  <2>1. Step(t)
    BY DEF Step
  <2>2. Open /\ Open'
    BY DEF Retire, Open, TypeOK
  <2>3. QED
    BY <2>1, <2>2, StepKeepsSlices, JobKept DEF SlicesKept
<1>2. /\ \A u \in Threads : pc'[u] = "kernel" <=> pc[u] = "kernel"
      /\ \A u \in Threads : pc[u] = "kernel" => job'[u] = job[u]
  BY DEF Retire, TypeOK
<1>3. PICK g \in Groups :
        /\ \A h \in Groups : h # g => groups'[h] = groups[h]
        /\ groups[g].phase < phases
        /\ \/ /\ groups'[g].phase = groups[g].phase
              /\ groups'[g].cursor = groups[g].cursor
           \/ /\ groups[g].cursor = groups[g].hi
              /\ groups'[g].phase = groups[g].phase + 1
              /\ \/ groups[g].phase + 1 >= phases
                 \/ groups'[g].cursor = groups[g].lo
  BY RetireMoves
<1>4. ASSUME NEW q \in 0 .. phases - 1, NEW i \in 0 .. RangeEnd - 1, NEW h \in Groups,
             InSlice(h, i)
      PROVE  (q < groups'[h].phase \/ (q = groups'[h].phase /\ i < groups'[h].cursor))
               <=> (q < groups[h].phase \/ (q = groups[h].phase /\ i < groups[h].cursor))
  <2>1. CASE h # g
    BY <1>3, <2>1
  <2>2. CASE h = g
    <3>1. /\ groups[g].lo \in Nat /\ groups[g].hi \in Nat
          /\ groups[g].cursor \in Nat /\ groups[g].phase \in Nat
          /\ phases \in Nat /\ RangeEnd \in Nat
      BY SlicesInRange DEF PhasedInv, TypeOK
    <3>2. i \in Nat /\ groups[g].lo <= i /\ i < groups[g].hi /\ q \in Nat /\ q < phases
      BY <1>4, <2>2, <3>1 DEF InSlice
    <3>3. QED
      BY <1>3, <2>2, <3>1, <3>2
  <2>3. QED
    BY <2>1, <2>2
<1>5. Begun' = Begun
  <2>1. \A h \in Groups : \A i : InSlice(h, i)' <=> InSlice(h, i)
    BY <1>1 DEF InSlice, SlicesKept
  <2>2. ASSUME NEW q \in 0 .. phases - 1, NEW i \in 0 .. RangeEnd - 1
        PROVE  <<q, i>> \in Begun' <=> <<q, i>> \in Begun
    <3>1. <<q, i>> \in Begun <=> \E h \in Groups : InSlice(h, i) /\
            (q < groups[h].phase \/ (q = groups[h].phase /\ i < groups[h].cursor))
      BY DEF Begun, Groups
    <3>2. <<q, i>> \in Begun' <=> \E h \in Groups : InSlice(h, i) /\
            (q < groups'[h].phase \/ (q = groups'[h].phase /\ i < groups'[h].cursor))
      BY <1>1, <2>1 DEF Begun, Groups
    <3>3. QED
      BY <1>4, <3>1, <3>2
  <2>3. Begun \subseteq (0 .. phases - 1) \X (0 .. RangeEnd - 1)
        /\ Begun' \subseteq (0 .. phases - 1) \X (0 .. RangeEnd - 1)
    BY <1>1 DEF Begun
  <2>4. \A x \in (0 .. phases - 1) \X (0 .. RangeEnd - 1) : x \in Begun' <=> x \in Begun
    BY <2>2
  <2>5. QED
    BY <2>3, <2>4
<1>6. Ended' = Ended
  BY <1>2, <1>5 DEF Ended
<1>7. [n |-> RangeEnd, phases |-> phases, slices |-> AbsSlices]'
        = [n |-> RangeEnd, phases |-> phases, slices |-> AbsSlices]
  BY <1>1
<1>8. QED
  BY <1>1, <1>5, <1>6, <1>7 DEF Work!vars, Open, AbsSlices

-------------------------------------------------------------------------------
\* The table a dispatch starts with.
LEMMA DispatchTable ==
  ASSUME TypeOK, NEW c \in Calls, Dispatch(c)
  PROVE  /\ c.n \in Nat \ {0} /\ ngroups' \in 1 .. GroupMax /\ ngroups' <= c.n
         /\ \A g \in 0 .. ngroups' - 1 :
              /\ groups'[g].lo = SliceStart(c.n, ngroups', g)
              /\ groups'[g].hi = SliceStart(c.n, ngroups', g + 1)
              /\ groups'[g].cursor = groups'[g].lo /\ groups'[g].phase = 0
              /\ groups'[g].lo \in Nat /\ groups'[g].hi \in Nat
              /\ groups'[g].lo < groups'[g].hi /\ groups'[g].hi <= c.n
         /\ RangeEnd' = c.n
<1> DEFINE n == c.n
           k == GroupCount(c)
<1>1. n \in Nat \ {0} /\ k \in 1 .. GroupMax /\ k <= n /\ ngroups' = k
  BY GroupCountRange, CallsAssumption DEF Dispatch
<1>2. \A g \in 0 .. k - 1 : groups'[g] = InitGroup(n, k, ChunkSize(c), g)
  BY <1>1, GroupMaxAssumption DEF Dispatch, GroupIds
<1> HIDE DEF n, k
<1>3. k \in Nat \ {0} /\ n \in Nat
  BY <1>1, GroupMaxAssumption
<1>4. ASSUME NEW g \in 0 .. k - 1
      PROVE  /\ groups'[g].lo = SliceStart(n, k, g)
             /\ groups'[g].hi = SliceStart(n, k, g + 1)
             /\ groups'[g].cursor = groups'[g].lo /\ groups'[g].phase = 0
             /\ groups'[g].lo \in Nat /\ groups'[g].hi \in Nat
             /\ groups'[g].lo < groups'[g].hi /\ groups'[g].hi <= n
  <2>1. g \in Nat /\ g + 1 \in Nat
    BY <1>3
  <2>2. /\ groups'[g].lo = SliceStart(n, k, g)
        /\ groups'[g].hi = SliceStart(n, k, g + 1)
        /\ groups'[g].cursor = groups'[g].lo /\ groups'[g].phase = 0
    <3>1. groups'[g] = InitGroup(n, k, ChunkSize(c), g)
      BY <1>2
    <3>2. QED
      BY <3>1 DEF InitGroup
  <2>3. /\ SliceStart(n, k, g) \in Nat /\ SliceStart(n, k, g + 1) \in Nat
        /\ SliceStart(n, k, g) < SliceStart(n, k, g + 1)
    BY <1>1, <1>3, <2>1, SliceStarts
  <2>4. SliceStart(n, k, g + 1) <= n
    <3>1. CASE g + 1 = k
      BY <1>1, <1>3, <3>1, SliceEnds
    <3>2. CASE g < k /\ g + 1 # k
      BY <1>1, <1>3, <2>1, <3>2, SliceEnds, SlicesDisjoint
    <3>3. QED
      BY <1>3, <3>1, <3>2
  <2>5. QED
    BY <2>2, <2>3, <2>4
<1>5. RangeEnd' = n
  <2>1. k - 1 \in 0 .. k - 1 /\ (k - 1) + 1 = k
    BY <1>3
  <2>2. groups'[k - 1].hi = SliceStart(n, k, k)
    BY <1>4, <2>1
  <2>3. QED
    BY <1>1, <1>3, <2>2, SliceEnds DEF RangeEnd
<1>6. QED
  BY <1>1, <1>4, <1>5 DEF n

\* The slices of a new call cut its range evenly, and nothing has run.
LEMMA DispatchCalls ==
  ASSUME TypeOK, NEW c \in Calls, Dispatch(c)
  PROVE  Work!Next
<1> DEFINE n == c.n
           k == ngroups'
<1>1. /\ n \in Nat \ {0} /\ k \in Nat \ {0} /\ k <= n /\ RangeEnd' = n
      /\ \A g \in 0 .. k - 1 :
           /\ groups'[g].lo = SliceStart(n, k, g)
           /\ groups'[g].hi = SliceStart(n, k, g + 1)
           /\ groups'[g].cursor = groups'[g].lo /\ groups'[g].phase = 0
           /\ groups'[g].lo \in Nat /\ groups'[g].hi \in Nat
           /\ groups'[g].lo < groups'[g].hi /\ groups'[g].hi <= n
  BY DispatchTable, GroupMaxAssumption
<1>2. ~Open /\ Open'
  <2>1. 0 \in Threads
    BY PoolSizeAssumption DEF Threads
  <2>2. QED
    BY <2>1 DEF Dispatch, Open
<1>3. Begun' = {} /\ Ended' = {}
  <2>1. ASSUME NEW x \in Begun'
        PROVE  FALSE
    <3>1. PICK g \in 0 .. k - 1 :
            /\ groups'[g].lo <= x[2]
            /\ x[1] < groups'[g].phase
                 \/ (x[1] = groups'[g].phase /\ x[2] < groups'[g].cursor)
      BY DEF Begun, InSlice
    <3>2. x[1] \in Nat /\ x[2] \in Int
      BY DEF Begun
    <3>3. QED
      BY <1>1, <3>1, <3>2
  <2>2. QED
    BY <2>1 DEF Ended
<1>4. Work!EvenCut(AbsSlices', n)
  <2>1. ASSUME NEW s \in AbsSlices'
        PROVE  \E g \in 0 .. k - 1 : /\ s.lo = SliceStart(n, k, g)
                                     /\ s.hi = SliceStart(n, k, g + 1)
                                     /\ s = [lo |-> groups'[g].lo, hi |-> groups'[g].hi]
    BY <1>1 DEF AbsSlices
  <2>2. ASSUME NEW i \in 0 .. n - 1
        PROVE  \E s \in AbsSlices' : s.lo <= i /\ i < s.hi
    <3>1. PICK g \in 0 .. k - 1 : SliceStart(n, k, g) <= i /\ i < SliceStart(n, k, g + 1)
      BY <1>1, SlicesCover
    <3>2. [lo |-> groups'[g].lo, hi |-> groups'[g].hi] \in AbsSlices'
      BY DEF AbsSlices
    <3>3. QED
      BY <1>1, <3>1, <3>2
  <2>3. ASSUME NEW s \in AbsSlices'
        PROVE  0 <= s.lo /\ s.lo < s.hi /\ s.hi <= n
    <3>1. PICK g \in 0 .. k - 1 : s = [lo |-> groups'[g].lo, hi |-> groups'[g].hi]
      BY <2>1
    <3>2. s.lo = groups'[g].lo /\ s.hi = groups'[g].hi
      BY <3>1
    <3>3. /\ groups'[g].lo \in Nat /\ groups'[g].lo < groups'[g].hi
          /\ groups'[g].hi <= n
      BY <1>1
    <3> HIDE DEF n
    <3>4. QED
      BY <3>2, <3>3
  <2>4. ASSUME NEW s \in AbsSlices', NEW r \in AbsSlices'
        PROVE  /\ s # r => s.hi <= r.lo \/ r.hi <= s.lo
               /\ s.hi - s.lo <= r.hi - r.lo + 1
    <3>1. PICK g \in 0 .. k - 1 : /\ s.lo = SliceStart(n, k, g)
                                  /\ s.hi = SliceStart(n, k, g + 1)
                                  /\ s = [lo |-> groups'[g].lo, hi |-> groups'[g].hi]
      BY <2>1
    <3>2. PICK h \in 0 .. k - 1 : /\ r.lo = SliceStart(n, k, h)
                                  /\ r.hi = SliceStart(n, k, h + 1)
                                  /\ r = [lo |-> groups'[h].lo, hi |-> groups'[h].hi]
      BY <2>1
    <3>3. g \in Nat /\ h \in Nat /\ n \in Nat
      BY <1>1
    <3>4. s # r => g < h \/ h < g
      BY <3>1, <3>2, <3>3
    <3>5. s # r => s.hi <= r.lo \/ r.hi <= s.lo
      BY <1>1, <3>1, <3>2, <3>3, <3>4, SlicesDisjoint
    <3>6. /\ s.hi - s.lo \in {n \div k, (n \div k) + 1}
          /\ r.hi - r.lo \in {n \div k, (n \div k) + 1}
          /\ n \div k \in Nat
      BY <1>1, <3>1, <3>2, <3>3, SlicesEven, DivFacts
    <3>7. s.hi - s.lo <= r.hi - r.lo + 1
      BY <3>6
    <3>8. QED
      BY <3>5, <3>7
  <2>5. QED
    BY <2>2, <2>3, <2>4 DEF Work!EvenCut
<1>5. phases' = c.phases
      /\ c \in {r \in Calls : r.n > 0 /\ r.phases > 0}
  BY DEF Dispatch
<1>6. Work!Call
  <2> DEFINE call == [n |-> RangeEnd, phases |-> phases, slices |-> AbsSlices]
  <2>1. call'.n = n /\ call'.phases = c.phases /\ call'.slices = AbsSlices'
    BY <1>1, <1>5
  <2>2. \E r \in {r \in Calls : r.n > 0 /\ r.phases > 0} :
          call'.n = r.n /\ call'.phases = r.phases
    BY <1>5, <2>1
  <2>3. Work!EvenCut(call'.slices, call'.n)
    BY <1>4, <2>1
  <2> HIDE DEF n, k
  <2>4. QED
    BY <1>2, <1>3, <2>2, <2>3 DEF Work!Call, Open, AbsSlices
<1>7. QED
  BY <1>6 DEF Work!Next

-------------------------------------------------------------------------------
\* The last thread leaves: some thread took an index, and none is working, so
\* every group is done.
LEMMA LastLeaveReturns ==
  ASSUME TypeOK, PhasedInv, CoverInv, WorkedInv,
         NEW t \in Threads, Leave(t), ~Open'
  PROVE  Work!Next
<1>1. /\ UNCHANGED <<groups, ngroups, phases, job>> /\ Open
      /\ \A u \in Threads : u # t => pc[u] = "idle"
      /\ pc[t] = "take" /\ cursor > 0
      /\ \A u \in Threads : pc'[u] = "kernel" <=> pc[u] = "kernel"
  BY PoolSizeAssumption DEF Leave, Open, TypeOK
<1>2. done = ngroups
  BY <1>1 DEF WorkedInv, Working, Open
<1>3. \A g \in Groups : groups[g].phase = phases
  <2>1. /\ IsFiniteSet(Groups) /\ Cardinality(Groups) = ngroups
        /\ Finished \subseteq Groups
    <3>1. ngroups \in Nat /\ ngroups - 1 \in Int /\ 0 \in Int
      BY GroupMaxAssumption DEF TypeOK
    <3>2. /\ IsFiniteSet(0 .. ngroups - 1)
          /\ Cardinality(0 .. ngroups - 1)
               = IF 0 > ngroups - 1 THEN 0 ELSE (ngroups - 1) - 0 + 1
      BY <3>1, FS_Interval
    <3>3. Cardinality(0 .. ngroups - 1) = ngroups
      BY <3>1, <3>2
    <3>4. QED
      BY <3>2, <3>3 DEF Groups, Finished
  <2>2. Cardinality(Finished) = Cardinality(Groups)
    BY <1>2, <2>1 DEF PhasedInv, DoneInv
  <2>3. Finished = Groups
    BY <2>1, <2>2, FS_Subset
  <2>4. QED
    BY <2>3 DEF Finished
<1>4. Begun = (0 .. phases - 1) \X (0 .. RangeEnd - 1)
  <2>1. ASSUME NEW q \in 0 .. phases - 1, NEW i \in 0 .. RangeEnd - 1
        PROVE  <<q, i>> \in Begun
    <3>1. PICK g \in Groups : InSlice(g, i)
      BY DEF CoverInv
    <3>2. q < groups[g].phase
      BY <1>3 DEF TypeOK
    <3>3. QED
      BY <3>1, <3>2 DEF Begun, Groups
  <2>2. QED
    BY <2>1 DEF Begun
<1>5. Ended = Begun
  BY <1>1 DEF Ended
<1>6. Begun' = Begun /\ Ended' = Ended
  BY <1>1, PairsKept
<1>7. RangeEnd' = RangeEnd /\ AbsSlices' = AbsSlices
  BY <1>1 DEF RangeEnd, AbsSlices
<1>8. Work!Return
  <2> DEFINE call == [n |-> RangeEnd, phases |-> phases, slices |-> AbsSlices]
  <2>1. call' = call
    BY <1>1, <1>7
  <2>2. Ended = (0 .. call.phases - 1) \X (0 .. call.n - 1)
    BY <1>4, <1>5
  <2>3. QED
    BY <1>1, <1>6, <2>1, <2>2 DEF Work!Return, Work!All, Open, AbsSlices
<1>9. QED
  BY <1>8 DEF Work!Next

\* The slices of the call in hand leave no index out.
LEMMA CoverHolds == Spec => []CoverInv
<1>1. Init => CoverInv
  BY DEF Init, CoverInv, RangeEnd
<1>2. TypeOK /\ CoverInv /\ [Next]_vars => CoverInv'
  <2> SUFFICES ASSUME TypeOK, CoverInv, [Next]_vars PROVE CoverInv'
    OBVIOUS
  <2>1. ASSUME NEW c \in Calls, Dispatch(c)
        PROVE  CoverInv'
    <3>1. /\ c.n \in Nat /\ ngroups' \in Nat \ {0} /\ ngroups' <= c.n /\ RangeEnd' = c.n
          /\ \A g \in 0 .. ngroups' - 1 :
               /\ groups'[g].lo = SliceStart(c.n, ngroups', g)
               /\ groups'[g].hi = SliceStart(c.n, ngroups', g + 1)
      BY <2>1, DispatchTable, GroupMaxAssumption
    <3>2. ASSUME NEW i \in 0 .. c.n - 1
          PROVE  \E g \in 0 .. ngroups' - 1 : groups'[g].lo <= i /\ i < groups'[g].hi
      <4>1. PICK g \in 0 .. ngroups' - 1 :
              SliceStart(c.n, ngroups', g) <= i /\ i < SliceStart(c.n, ngroups', g + 1)
        BY <3>1, SlicesCover
      <4>2. QED
        BY <3>1, <4>1
    <3>3. QED
      BY <3>1, <3>2 DEF CoverInv, InSlice, Groups
  <2>2. ASSUME NEW t \in Threads, Step(t)
        PROVE  CoverInv'
    <3>1. SlicesKept /\ RangeEnd' = RangeEnd
      BY <2>2, StepKeepsSlices, JobKept
    <3>2. QED
      BY <3>1 DEF SlicesKept, CoverInv, InSlice, Groups
  <2>3. CASE UNCHANGED vars
    BY <2>3 DEF vars, CoverInv, InSlice, Groups, RangeEnd
  <2>4. QED
    BY <2>1, <2>2, <2>3 DEF Next
<1>3. QED
  BY <1>1, <1>2, TypeCorrect, PTL DEF Spec

\* Nobody stops working before the last group is done, so whoever finds the
\* others gone can leave.
LEMMA WorkedHolds == Spec => []WorkedInv
<1>1. Init => WorkedInv
  BY DEF Init, WorkedInv
<1>2. TypeOK /\ WorkedInv /\ [Next]_vars => WorkedInv'
  <2> SUFFICES ASSUME TypeOK, WorkedInv, [Next]_vars PROVE WorkedInv'
    OBVIOUS
  <2>1. ASSUME NEW c \in Calls, Dispatch(c)
        PROVE  WorkedInv'
    BY <2>1 DEF Dispatch, WorkedInv
  <2>2. ASSUME NEW t \in Threads, Step(t)
        PROVE  WorkedInv'
    <3>1. CASE Working(t)'
      BY <3>1 DEF WorkedInv
    <3>2. CASE Leave(t)
      <4>1. /\ cursor > 0 /\ pc[t] = "take" /\ done' = done /\ ngroups' = ngroups
            /\ \A u \in Threads : u # t => pc'[u] = pc[u]
        BY <3>2, PoolSizeAssumption DEF Leave, TypeOK
      <4>2. QED
        BY <4>1 DEF WorkedInv, Working
    <3>3. CASE GrabFinished(t)
      BY <3>3 DEF GrabFinished, WorkedInv
    <3>4. CASE ~Leave(t) /\ ~GrabFinished(t)
      BY <2>2, <3>4, <3>1 DEF Step, Take, Grab, GrabNothing, Yield, KernelEnd, Retire,
                              Working, TypeOK
    <3>5. QED
      BY <3>2, <3>3, <3>4
  <2>3. CASE UNCHANGED vars
    BY <2>3 DEF vars, WorkedInv, Working
  <2>4. QED
    BY <2>1, <2>2, <2>3 DEF Next
<1>3. QED
  BY <1>1, <1>2, TypeCorrect, PTL DEF Spec

\* The promise of fpprt.h:190 and fpprt.c:500-507, for every pool, group table
\* and sequence of calls: every index is run once in every phase, enters a
\* phase when its whole group is through the phase before, and the dispatch
\* returns when everything has run.
THEOREM PhasedRefines == Spec => KeepsPromise
<1>1. Init => Work!Init
  <2> SUFFICES ASSUME Init PROVE Work!Init
    OBVIOUS
  <2>1. ngroups = 0 /\ phases = 0 /\ RangeEnd = 0 /\ ~Open
    BY DEF Init, RangeEnd, Open
  <2>2. AbsSlices = {}
    BY <2>1 DEF AbsSlices
  <2>3. Begun = {} /\ Ended = {}
    BY <2>1 DEF Begun, Ended
  <2>4. QED
    BY <2>1, <2>2, <2>3 DEF Work!Init, Open, AbsSlices
<1>2. TypeOK /\ PhasedInv /\ CoverInv /\ WorkedInv /\ [Next]_vars
        => [Work!Next]_(Work!vars)
  <2> SUFFICES ASSUME TypeOK, PhasedInv, CoverInv, WorkedInv, [Next]_vars
               PROVE  Work!Next \/ UNCHANGED Work!vars
    OBVIOUS
  <2>1. ASSUME NEW c \in Calls, Dispatch(c)
        PROVE  Work!Next
    BY <2>1, DispatchCalls
  <2>2. ASSUME NEW t \in Threads, Step(t)
        PROVE  Work!Next \/ UNCHANGED Work!vars
    <3>1. CASE Grab(t)
      BY <3>1, GrabBegins
    <3>2. CASE KernelEnd(t)
      BY <3>2, KernelEnds
    <3>3. CASE Retire(t)
      BY <3>3, RetireStutters
    <3>4. CASE Leave(t) /\ ~Open'
      BY <3>4, LastLeaveReturns
    <3>5. CASE Take(t) \/ GrabNothing(t) \/ Yield(t) \/ GrabFinished(t)
                 \/ (Leave(t) /\ Open')
      BY <3>5, QuietStutters
    <3>6. QED
      BY <2>2, <3>1, <3>2, <3>3, <3>4, <3>5 DEF Step
  <2>3. CASE UNCHANGED vars
    BY <2>3 DEF vars, Work!vars, Begun, Ended, RangeEnd, InSlice
  <2>4. QED
    BY <2>1, <2>2, <2>3 DEF Next
<1>3. QED
  BY <1>1, <1>2, TypeCorrect, InvariantHolds, CoverHolds, WorkedHolds, PTL
     DEF Spec, KeepsPromise, Work!Spec
===============================================================================
