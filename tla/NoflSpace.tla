------------------------------ MODULE NoflSpace ------------------------------
(***************************************************************************)
(* The mark space of mmc, runtime/gc/src/nofl-space.h: objects are bumped  *)
(* into the holes that survivors leave, which the mutators find by         *)
(* sweeping lazily, and a compacting collection evacuates some blocks.     *)
(* Holes that were too small are kept in hole sets (nofl-holeset.h).       *)
(*                                                                         *)
(* The operators take a space, or a space and an allocator, and return     *)
(* one; each is what one thread does by itself, to a block it owns, under  *)
(* the lock, or in one atomic access.  Sizes and addresses are granules.   *)
(* Statistics that only estimate (fragmentation, yield) are left out.      *)
(***************************************************************************)
EXTENDS Integers, Sequences, FiniteSets, FiniteSetsExt, SequencesExt, Functions

CONSTANTS
  BlockGranules,   \* NOFL_GRANULES_PER_BLOCK
  SlabBlocks,      \* NOFL_BLOCKS_PER_SLAB
  MetaBlocks,      \* NOFL_META_BLOCKS_PER_SLAB, of these
  MinimumReserve   \* evacuation_minimum_reserve, percent: 2

ASSUME NoflAssumption ==
  /\ BlockGranules \in Nat \ {0} /\ MetaBlocks \in Nat /\ SlabBlocks - MetaBlocks \in Nat \ {0}
  /\ MinimumReserve \in 0 .. 100

SlabGranules == SlabBlocks * BlockGranules
PayloadBlocks == SlabBlocks - MetaBlocks
BlocksOfSlabs(from, to) == 1 + (from - 1) * PayloadBlocks .. to * PayloadBlocks
Offsets == 0 .. BlockGranules - 1
Ceiling(n, unit) == IF n <= 0 THEN 0 ELSE (n + unit - 1) \div unit

\* enum nofl_metadata_byte: a mark, the end-of-object bit and the pinned bit
Unmarked == 0
Young == 1
MarkBits == 2 .. 4
Busy == 5
Forwarded == 6
Blank == [mark |-> Unmarked, end |-> FALSE, pin |-> FALSE]
AdvancedMark(m) == IF m = 4 THEN 2 ELSE m + 1

MajorKind == 2
CompactingKind == 3

(***************************************************************************)
(* Block lists, heads first; the flags ZERO and PAGED_OUT go together      *)
(***************************************************************************)
NoBlock == 0
Ages == 0 .. 3
Unavailable(s) == s.out[0] \o s.out[1] \o s.out[2] \o s.out[3]
Active(s) == Cardinality(DOMAIN s.meta) - Len(Unavailable(s))
MinimumTargets(s) == Ceiling(Active(s) * MinimumReserve, 100)
Reserve(s) == IF s.half THEN Ceiling(Active(s), 2) ELSE MinimumTargets(s)

\* nofl_push_unavailable_block
PushUnavailable(s, b) ==
  [s EXCEPT !.out[IF b \in s.zero THEN 3 ELSE 0] = <<b>> \o @]
\* nofl_maybe_push_evacuation_target, and else nofl_push_empty_block
PushTargetOrEmpty(s, b, reserve) ==
  IF Len(s.targets) < reserve THEN [s EXCEPT !.targets = <<b>> \o @]
  ELSE [s EXCEPT !.empty = <<b>> \o @]

\* nofl_space_maybe_reacquire_memory, of a budget already lowered
RECURSIVE Reacquired(_)
Reacquired(s) ==
  IF s.pending + BlockGranules > 0 \/ Unavailable(s) = <<>> THEN s
  ELSE LET age == Min({a \in Ages : s.out[a] # <<>>})
           b == Head(s.out[age])
           t == [s EXCEPT !.out[age] = Tail(@), !.pending = @ + BlockGranules]
       IN  Reacquired(PushTargetOrEmpty(t, b, MinimumTargets(t)))
Reacquire(s, n) == Reacquired([s EXCEPT !.pending = @ - n])

\* nofl_space_shrink: empty blocks, then targets above the minimum.  What is
\* pending was read before the lock was taken.
RECURSIVE ShrunkEmpty(_, _), ShrunkTargets(_, _, _)
ShrunkTargets(s, pending, minimum) ==
  IF pending <= 0 \/ Len(s.targets) <= minimum THEN s
  ELSE ShrunkTargets(PushUnavailable([s EXCEPT !.targets = Tail(@), !.pending = @ - BlockGranules],
                                     Head(s.targets)), s.pending - BlockGranules, minimum)
ShrunkEmpty(s, pending) ==
  IF pending <= 0 \/ s.empty = <<>> THEN ShrunkTargets(s, pending, MinimumTargets(s))
  ELSE ShrunkEmpty(PushUnavailable([s EXCEPT !.empty = Tail(@), !.pending = @ - BlockGranules],
                                   Head(s.empty)), s.pending - BlockGranules)
\* what the caller is told: pending, by the last count it has
Deficit(s, pending) ==
  LET t == ShrunkEmpty(s, pending)
      last == IF t = s THEN pending ELSE t.pending
  IN  IF last > 0 THEN last ELSE 0
Shrunk(s, n) ==
  LET t == [s EXCEPT !.pending = @ + n] IN ShrunkEmpty(t, t.pending)

\* nofl_space_add_slabs, nofl_space_expand
WithSlabs(s, n) ==
  LET blocks == BlocksOfSlabs(1, n)
      new == BlocksOfSlabs(s.slabs + 1, n)
      More(f, v) == [b \in blocks |-> IF b \in new THEN v ELSE f[b]]
  IN  [s EXCEPT !.slabs = n, !.zero = @ \cup new,
                !.meta = More(@, [g \in Offsets |-> Blank]),
                !.sum = More(@, [granules |-> 0, fragHoles |-> 0, frag |-> 0])]
Expanded(s, n) ==
  LET t == Reacquire(s, n)
      owed == 0 - t.pending
      more == owed + (owed * MetaBlocks) \div SlabBlocks
      to == t.slabs + Ceiling(more, SlabGranules)
      new == SetToSortSeq(BlocksOfSlabs(t.slabs + 1, to), <)
  IN  IF owed < BlockGranules THEN t
      ELSE Reacquire(FoldLeft(PushUnavailable, WithSlabs(t, to), new), 0)

\* nofl_space_init: blocks beyond the heap's size are unavailable
NoSpace ==
  [empty |-> <<>>, out |-> [a \in Ages |-> <<>>], sweep |-> <<>>, partly |-> <<>>,
   full |-> <<>>, old |-> <<>>, targets |-> <<>>, holes |-> <<>>,
   current |-> 2, survivor |-> 2, evacuating |-> FALSE, half |-> FALSE,
   pending |-> 0, slabs |-> 0, meta |-> <<>>, sum |-> <<>>,
   zero |-> {}, evac |-> {}, marked |-> {}, dirty |-> {}]
SpaceOf(granules) ==
  LET size == BlockGranules * Ceiling(granules, BlockGranules)
      n == Ceiling(size, SlabGranules)
      s == WithSlabs(NoSpace, n)
      blocks == SetToSortSeq(DOMAIN s.meta, <)
      k == Min({Len(blocks), (n * SlabGranules - size) \div BlockGranules})
      Available(t, b) == PushTargetOrEmpty(t, b, MinimumTargets(t))
  IN  FoldLeft(Available, FoldLeft(PushUnavailable, s, SubSeq(blocks, 1, k)),
               SubSeq(blocks, k + 1, Len(blocks)))

(***************************************************************************)
(* Hole sets: of an allocator, a sequence of <<block, offset, granules>>;  *)
(* of the space, one of chains of holes of one size.  Both newest first.   *)
(* Holes of up to 50 granules have a bucket for each size.                 *)
(***************************************************************************)
SizeOfHole(h) == h[3]
\* nofl_holeset_try_pop: the smallest that fits; its tail is pushed again
Fitting(holes, n) == {h \in ToSet(holes) : SizeOfHole(h) >= n}
BestHole(holes, n) ==
  LET size == Min({SizeOfHole(h) : h \in Fitting(holes, n)})
  IN  SelectInSeq(holes, LAMBDA h : SizeOfHole(h) = size)
\* mutant: the tail starts where the hole does
PopHoleOverlapping(holes, n) ==
  LET i == BestHole(holes, n)
      h == holes[i]
      tail == IF SizeOfHole(h) = n THEN <<>> ELSE <<<<h[1], h[2], SizeOfHole(h) - n>>>>
  IN  tail \o RemoveAt(holes, i)
PopHole(holes, n) ==
  LET i == BestHole(holes, n)
      h == holes[i]
      tail == IF SizeOfHole(h) = n THEN <<>> ELSE <<<<h[1], h[2] + n, SizeOfHole(h) - n>>>>
  IN  tail \o RemoveAt(holes, i)
\* nofl_holeset_release, nofl_holeset_acquire
ReleasedHoles(s, holes) ==
  LET sizes == SetToSortSeq({SizeOfHole(h) : h \in ToSet(holes)}, <)
      Chain(t, n) ==
        [t EXCEPT !.holes = <<SelectSeq(holes, LAMBDA h : SizeOfHole(h) = n)>> \o @]
  IN  FoldLeft(Chain, s, sizes)
Chains(s, n) == {c \in ToSet(s.holes) : SizeOfHole(Head(c)) >= n}
BestChain(s, n) ==
  LET size == Min({SizeOfHole(Head(c)) : c \in Chains(s, n)})
  IN  SelectInSeq(s.holes, LAMBDA c : SizeOfHole(Head(c)) = size)

(***************************************************************************)
(* Allocators, [block, alloc, sweep, holes]: the hole is alloc .. sweep    *)
(***************************************************************************)
NoAllocator == [block |-> NoBlock, alloc |-> 0, sweep |-> 0, holes |-> <<>>]
HasBlock(a) == a.block # NoBlock
Reset(a) == [a EXCEPT !.block = NoBlock, !.alloc = 0, !.sweep = 0]
HoleSize(a) == a.sweep - a.alloc
Granules(b, from, to) == {<<b, g>> : g \in from .. to - 1}

\* nofl_allocator_finish_hole; v is [space, alloc]
FinishHole(v, collect) ==
  LET a == v.alloc
      b == a.block
      n == HoleSize(a)
  IN  IF n = 0 THEN v
      ELSE [space |-> [v.space EXCEPT !.sum[b].fragHoles = @ + 1, !.sum[b].frag = @ + n],
            alloc |-> [a EXCEPT !.alloc = a.sweep,
                                !.holes = IF collect THEN <<<<b, a.alloc, n>>>> \o @ ELSE @]]

\* nofl_allocator_next_hole_in_block: skip survivors, clear what is not one
EndOf(bytes, g) == Min({k \in Offsets : k >= g /\ bytes[k].end}) + 1
NextHoleInBlock(v) ==
  LET b == v.alloc.block
      bytes == v.space.meta[b]
      Survives(g) == bytes[g].mark = v.space.survivor
      skip[g \in 0 .. BlockGranules] ==
        IF g < BlockGranules /\ Survives(g) THEN skip[EndOf(bytes, g)] ELSE g
      from == skip[v.alloc.sweep]
      to == Min({k \in Offsets : k >= from /\ Survives(k)} \cup {BlockGranules})
  IN  [space |-> IF from = BlockGranules THEN v.space
                 ELSE [v.space EXCEPT
                         !.meta[b] = [g \in Offsets |-> IF g \in from .. to - 1 THEN Blank ELSE @[g]],
                         !.dirty = @ \ Granules(b, from, to),
                         !.sum[b].granules = @ + (to - from)],
       alloc |-> [v.alloc EXCEPT !.alloc = from, !.sweep = to]]

\* nofl_allocator_release_full_block (promotion is generational only),
\* nofl_allocator_release_full_evacuation_target,
\* nofl_allocator_release_partly_full_block
ReleaseFull(v) ==
  [space |-> [v.space EXCEPT !.full = <<v.alloc.block>> \o @], alloc |-> Reset(v.alloc)]
ReleaseFullTarget(v) ==
  LET n == HoleSize(v.alloc) IN
  [space |-> [v.space EXCEPT !.old = <<v.alloc.block>> \o @,
                             !.sum[v.alloc.block].fragHoles = IF n = 0 THEN @ ELSE 1],
   alloc |-> Reset(v.alloc)]
ReleasePartlyFull(v) ==
  [space |-> [v.space EXCEPT !.partly = <<v.alloc.block>> \o @,
                             !.sum[v.alloc.block].frag = HoleSize(v.alloc)],
   alloc |-> Reset(v.alloc)]

\* nofl_allocator_next_hole_in_block_of_size, with n = 0 to sweep it all
RECURSIVE NextHoleOfSize(_, _)
NextHoleOfSize(v, n) ==
  LET u == NextHoleInBlock(FinishHole(v, n > 0 /\ ~v.space.evacuating)) IN
  IF ~HasBlock(v.alloc) THEN v
  ELSE IF HoleSize(u.alloc) = 0 THEN ReleaseFull(u)
  ELSE IF n <= HoleSize(u.alloc) THEN u
  ELSE NextHoleOfSize(u, n)

\* nofl_allocator_release_block, nofl_allocator_finish
RECURSIVE FinishSweeping(_)
FinishSweeping(v) ==
  LET u == NextHoleInBlock(FinishHole(v, ~v.space.evacuating)) IN
  IF HoleSize(u.alloc) = 0 THEN u ELSE FinishSweeping(u)
ReleaseBlock(v) ==
  LET a == v.alloc IN
  IF a.alloc < a.sweep /\ a.sweep = BlockGranules /\ v.space.sum[a.block].fragHoles = 0
  THEN ReleasePartlyFull(v)
  ELSE IF v.space.evacuating THEN ReleaseFullTarget(v)
  ELSE ReleaseFull(FinishSweeping(v))
\* mutant: the block is not released
FinishHolding(v) ==
  [space |-> ReleasedHoles(v.space, v.alloc.holes), alloc |-> NoAllocator]
Finish(v) ==
  LET u == IF HasBlock(v.alloc) THEN ReleaseBlock(v) ELSE v
  IN  [space |-> ReleasedHoles(u.space, u.alloc.holes), alloc |-> NoAllocator]

\* nofl_allocator_acquire_block_to_sweep, _partly_full_block, _empty_block
AcquireToSweep(v) ==
  LET b == Head(v.space.sweep) IN
  [space |-> [v.space EXCEPT !.sweep = Tail(@),
                             !.sum[b] = [granules |-> 0, fragHoles |-> 0, frag |-> 0]],
   alloc |-> [v.alloc EXCEPT !.block = b, !.alloc = 0, !.sweep = 0]]
AcquirePartlyFull(v) ==
  LET b == Head(v.space.partly) IN
  [space |-> [v.space EXCEPT !.partly = Tail(@), !.sum[b].frag = 0],
   alloc |-> [v.alloc EXCEPT !.block = b, !.sweep = BlockGranules,
                             !.alloc = BlockGranules - v.space.sum[b].frag]]
AcquireEmpty(v) ==
  LET b == Head(v.space.empty) IN
  [space |-> [v.space EXCEPT
                !.empty = Tail(@), !.zero = @ \ {b},
                !.sum[b] = [granules |-> BlockGranules, fragHoles |-> 0, frag |-> 0],
                !.dirty = IF b \in v.space.zero THEN @ ELSE @ \ Granules(b, 0, BlockGranules)],
   alloc |-> [v.alloc EXCEPT !.block = b, !.alloc = 0, !.sweep = BlockGranules]]

\* gc_update_alloc_table
Extent(bytes, g, n, byte) ==
  [k \in Offsets |-> IF k \notin g .. g + n - 1 THEN bytes[k]
                     ELSE [mark |-> IF k = g THEN byte.mark ELSE Unmarked,
                           end |-> k = g + n - 1,
                           pin |-> k = g /\ byte.pin]]

(***************************************************************************)
(* Collections                                                             *)
(***************************************************************************)
\* nofl_space_prepare_gc, nofl_space_start_gc: pushed one by one
StartMajor(s) ==
  [s EXCEPT !.current = AdvancedMark(@), !.marked = {},
            !.sweep = Reverse(s.old) \o Reverse(s.full) \o Reverse(s.partly) \o @,
            !.partly = <<>>, !.full = <<>>, !.old = <<>>]

\* nofl_space_prepare_evacuation: of the blocks with fewest survivors, as
\* many as the targets have room for
Survivors(s, b) == BlockGranules - s.sum[b].granules
InBucket(s, n) == SelectSeq(s.sweep, LAMBDA b : Survivors(s, b) = n)
Chosen(s, room) ==
  LET left[n \in 0 .. BlockGranules] ==
        IF n = 0 THEN room
        ELSE LET cost == (n - 1) * Len(InBucket(s, n - 1))
             IN  IF cost <= left[n - 1] THEN left[n - 1] - cost ELSE 0
      quota(n) == LET k == Len(InBucket(s, n))
                  IN  IF n * k <= left[n] THEN k ELSE left[n] \div n
  IN  UNION {ToSet(SubSeq(InBucket(s, n), 1, quota(n))) : n \in 0 .. BlockGranules}
PrepareEvacuation(s) ==
  LET t == [s EXCEPT !.empty = Reverse(s.targets) \o @, !.targets = <<>>]
  IN  IF t.empty = <<>> THEN t
      ELSE [t EXCEPT !.half = TRUE, !.evacuating = TRUE,
                     !.evac = Chosen(t, Len(t.empty) * BlockGranules)]
StartGc(s, kind) ==
  IF kind = CompactingKind THEN PrepareEvacuation(StartMajor(s)) ELSE StartMajor(s)

\* nofl_space_finish_evacuation
RECURSIVE Restocked(_, _)
Restocked(s, n) ==
  IF n = 0 \/ s.empty = <<>> THEN s
  ELSE Restocked([s EXCEPT !.empty = Tail(@), !.targets = <<Head(s.empty)>> \o @], n - 1)
\* targets beyond the minimum are given back
RECURSIVE Surplus(_, _)
Surplus(s, n) ==
  IF n <= 0 THEN s
  ELSE Surplus([s EXCEPT !.targets = Tail(@), !.empty = <<Head(s.targets)>> \o @], n - 1)
SweptEmpty(s) ==
  LET gone == SelectSeq(s.sweep, LAMBDA b : b \notin s.marked)
      Emptied(t, b) ==
        PushTargetOrEmpty([t EXCEPT !.meta[b] = [g \in Offsets |-> Blank]], b, Reserve(t))
  IN  [FoldLeft(Emptied, s, gone)
         EXCEPT !.sweep = Reverse(SelectSeq(s.sweep, LAMBDA b : b \in s.marked))]
\* nofl_space_finish_gc
FinishSpaceGc(s) ==
  LET t == IF s.evacuating
           THEN Restocked([s EXCEPT !.evacuating = FALSE], MinimumTargets(s))
           ELSE Surplus([s EXCEPT !.half = FALSE], Len(s.targets) - MinimumTargets(s))
  IN  [SweptEmpty(t) EXCEPT !.holes = <<>>, !.survivor = s.current]

(***************************************************************************)
(* Background thread                                                       *)
(***************************************************************************)
\* nofl_space_advance_page_out_queue: one block of an age, the older first;
\* an age without blocks ends it
MoveOne(s, age) ==
  [s EXCEPT !.out = [@ EXCEPT ![age] = Tail(@), ![age + 1] = <<Head(s.out[age])>> \o @]]
Advanced(s) ==
  IF s.out[1] = <<>> THEN s
  ELSE LET t == MoveOne(s, 1) IN IF t.out[0] = <<>> THEN t ELSE MoveOne(t, 0)
\* nofl_space_page_out_blocks
Discarded(s) ==
  LET gone == ToSet(s.out[2])
  IN  [s EXCEPT !.out = [@ EXCEPT ![3] = Reverse(s.out[2]) \o @, ![2] = <<>>],
                !.zero = @ \cup gone,
                !.dirty = {x \in @ : x[1] \notin gone}]
===============================================================================
