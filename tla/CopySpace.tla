------------------------------ MODULE CopySpace ------------------------------
(***************************************************************************)
(* The block-structured copy space of pcc, runtime/gc/src/copy-space.h.    *)
(* Half of each block, a region, is in use; a collection evacuates to the  *)
(* other halves.  Blocks the heap's budget does not allow are paged out:   *)
(* a queue by age, whose last place holds what the system has taken back.  *)
(*                                                                         *)
(* The operators take a space and return one.  A space is a record; the    *)
(* lists are sequences with their head first.  Each operator is what the   *)
(* code does under the space's lock, or in one atomic access.              *)
(***************************************************************************)
EXTENDS Integers, Sequences, FiniteSets, FiniteSetsExt, SequencesExt, Functions

CONSTANTS
  RegionSize,      \* COPY_SPACE_REGION_SIZE, in granules
  SlabBlocks,      \* blocks of a slab: its header takes the room of one
  ExtraBlocks      \* blocks reserved beyond the heap's size: 16

ASSUME CopySpaceAssumption ==
  RegionSize \in Nat \ {0} /\ SlabBlocks \in Nat \ {0, 1} /\ ExtraBlocks \in Nat

BlockSize == 2 * RegionSize
SlabSize == SlabBlocks * BlockSize
Ages == 0 .. 3
LastAge == 3
NoBlock == 0

Ceiling(n, unit) == IF n <= 0 THEN 0 ELSE (n + unit - 1) \div unit
\* The payload blocks of slabs number from to to.
BlocksOfSlabs(from, to) == 1 + (from - 1) * (SlabBlocks - 1) .. to * (SlabBlocks - 1)

(***************************************************************************)
(* Blocks and lists                                                        *)
(***************************************************************************)
\* copy_space_page_out_block
PageOutAll(s, blocks) ==
  [s EXCEPT !.out =
     FoldLeft(LAMBDA out, b : [out EXCEPT ![IF s.inCore[b] THEN 0 ELSE LastAge] = <<b>> \o @],
              @, blocks)]

\* copy_space_page_in_block takes the block that was paged out last
InPageInOrder(s) == s.out[0] \o s.out[1] \o s.out[2] \o s.out[3]
PagedIn(s, k) ==
  LET younger(a) == FoldSet(LAMBDA b, n : n + Len(s.out[b]), 0, 0 .. a - 1)
  IN  [s EXCEPT !.out = [a \in Ages |->
         SubSeq(s.out[a], 1 + Max({0, Min({k - younger(a), Len(s.out[a])})}), Len(s.out[a]))]]

\* copy_space_page_out_blocks_until_memory_released, of what is pending
PageOutUntilReleased(s, pending) ==
  LET k == Min({Len(s.empty), Ceiling(pending, BlockSize)})
      taken == SubSeq(s.empty, 1, k)
  IN  [PageOutAll([s EXCEPT !.empty = SubSeq(@, k + 1, Len(@))], taken)
         EXCEPT !.pending = @ - k * BlockSize,
                !.used = [b \in DOMAIN @ |-> IF \E i \in 1 .. k : taken[i] = b THEN 0 ELSE @[b]]]
Deficit(s, pending) == pending - BlockSize * Min({Len(s.empty), Ceiling(pending, BlockSize)})

\* copy_space_maybe_reacquire_memory
Reacquire(s, bytes) ==
  LET owed == s.pending - bytes
      k == Min({Len(InPageInOrder(s)), IF owed > 0 THEN 0 ELSE (0 - owed) \div BlockSize})
  IN  [PagedIn(s, k) EXCEPT !.pending = owed + k * BlockSize,
                            !.empty = Reverse(SubSeq(InPageInOrder(s), 1, k)) \o @]

(***************************************************************************)
(* Size                                                                    *)
(***************************************************************************)
EmptySpace(n) ==
  [empty |-> <<>>, partly |-> <<>>, full |-> <<>>, out |-> [a \in Ages |-> <<>>],
   pending |-> 0, allocated |-> 0, fragmentation |-> 0, last |-> 0, active |-> 0,
   inGc |-> FALSE, slabs |-> n,
   inCore |-> [b \in BlocksOfSlabs(1, n) |-> FALSE],
   zeroes |-> [b \in BlocksOfSlabs(1, n) |-> {0, 1}],
   used |-> [b \in BlocksOfSlabs(1, n) |-> 0]]

\* copy_space_init: blocks are paged out until what is reserved is the size
SpaceOf(bytes) ==
  LET size == BlockSize * Ceiling(bytes, BlockSize)
      n == Ceiling(size + BlockSize * ExtraBlocks, SlabSize)
      blocks == SetToSortSeq(BlocksOfSlabs(1, n), <)
      k == Min({Len(blocks), (n * SlabSize - size) \div BlockSize})
  IN  [PageOutAll(EmptySpace(n), SubSeq(blocks, 1, k))
         EXCEPT !.empty = Reverse(SubSeq(blocks, k + 1, Len(blocks)))]

\* copy_space_expand: what paged-out blocks do not cover, if only a part of
\* a block, is covered by new slabs
Expanded(s, bytes) ==
  LET t == Reacquire(s, bytes)
      n == t.slabs + Ceiling(0 - t.pending, SlabSize)
      new == BlocksOfSlabs(t.slabs + 1, n)
      With(f, v) == [b \in BlocksOfSlabs(1, n) |-> IF b \in new THEN v ELSE f[b]]
      u == [t EXCEPT !.slabs = n, !.inCore = With(@, FALSE), !.zeroes = With(@, {0, 1}),
                     !.used = With(@, 0)]
  IN  IF t.pending >= 0 THEN t
      ELSE Reacquire(PageOutAll(u, SetToSortSeq(new, <)), 0)

(***************************************************************************)
(* Allocators: [block, hp], with hp an offset into the active region       *)
(***************************************************************************)
NoAllocator == [block |-> NoBlock, hp |-> RegionSize]
Fits(a, size) == a.hp + size <= RegionSize

\* copy_space_push_full_block is atomic
PushFull(s, b) == [s EXCEPT !.full = <<b>> \o @]
\* copy_space_allocator_release_full_block
ReleaseFull(s, a) ==
  [PushFull(s, a.block) EXCEPT
     !.allocated = @ + RegionSize - s.used[a.block],
     !.fragmentation = @ + RegionSize - a.hp]
\* mutant: how far a block is used is not stored with it
FinishedForgets(s, a) ==
  IF a.block = NoBlock THEN s
  ELSE [s EXCEPT !.allocated = @ + a.hp - s.used[a.block], !.partly = <<a.block>> \o @]

\* copy_space_allocator_release_partly_full_block; with hp at the limit the
\* block is full
Finished(s, a) ==
  IF a.block = NoBlock THEN s
  ELSE IF a.hp % RegionSize = 0
  THEN [PushFull(s, a.block) EXCEPT !.allocated = @ + RegionSize - s.used[a.block]]
  ELSE [s EXCEPT !.allocated = @ + a.hp - s.used[a.block],
                 !.used[a.block] = a.hp,
                 !.partly = <<a.block>> \o @]

\* copy_space_allocator_acquire_empty_block and, in a collection,
\* copy_space_obtain_empty_block_during_gc: what is paged in must go again
HasEmpty(s) == s.empty # <<>> \/ (s.inGc /\ InPageInOrder(s) # <<>>)
EmptyBlock(s) == IF s.empty # <<>> THEN Head(s.empty) ELSE Head(InPageInOrder(s))
\* mutant: a block paged in for a collection is not owed again
AcquireEmptyFree(s) ==
  LET b == EmptyBlock(s)
      t == IF s.empty # <<>> THEN [s EXCEPT !.empty = Tail(@), !.used[b] = 0] ELSE PagedIn(s, 1)
  IN  [t EXCEPT !.inCore[b] = TRUE, !.zeroes[b] = @ \ {s.active}]
AcquireEmpty(s) ==
  LET b == EmptyBlock(s)
      t == IF s.empty # <<>> THEN [s EXCEPT !.empty = Tail(@), !.used[b] = 0]
           ELSE [PagedIn(s, 1) EXCEPT !.pending = @ + BlockSize]
  IN  [t EXCEPT !.inCore[b] = TRUE, !.zeroes[b] = @ \ {s.active}]

\* copy_space_flip, copy_space_finish_gc, copy_space_can_allocate
Flipped(s) ==
  [s EXCEPT !.empty = @ \o s.partly \o s.full, !.partly = <<>>, !.full = <<>>,
            !.allocated = 0, !.fragmentation = 0, !.active = 1 - @, !.inGc = TRUE]
GcFinished(s) == [s EXCEPT !.last = s.allocated, !.inGc = FALSE]
CanAllocate(s) == s.empty # <<>>

(***************************************************************************)
(* Background thread                                                       *)
(***************************************************************************)
\* copy_space_advance_page_out_queue: age 1 first, then age 0
Advanced(s) ==
  [s EXCEPT !.out = [@ EXCEPT ![2] = Reverse(s.out[1]) \o @, ![1] = Reverse(s.out[0]),
                              ![0] = <<>>]]
\* copy_space_page_out_blocks
Discarded(s) ==
  LET gone == ToSet(s.out[2])
  IN  [s EXCEPT !.out = [@ EXCEPT ![3] = Reverse(s.out[2]) \o @, ![2] = <<>>],
                !.inCore = [b \in DOMAIN @ |-> @[b] /\ b \notin gone],
                !.zeroes = [b \in DOMAIN @ |-> IF b \in gone THEN {0, 1} ELSE @[b]]]
===============================================================================
