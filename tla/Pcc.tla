---------------------------------- MODULE Pcc ----------------------------------
(***************************************************************************)
(* The parallel copying collector, runtime/gc/src/pcc.c, the runtime's     *)
(* default: mutators that allocate, stop, or are away in a blocking call;  *)
(* tracers that evacuate what the mutators' roots hold, racing for one     *)
(* object (the forwarding word of runtime/fpprt-embedder.h); a background  *)
(* thread that returns memory; and the sizing of the heap.                 *)
(*                                                                         *)
(* Objects have no fields: modules Tracer and Semi are about following     *)
(* them.  A slot, though, holds an address, and each word of the           *)
(* forwarding protocol is written in a step of its own.                    *)
(***************************************************************************)
EXTENDS CopySpace

CONSTANTS
  Mutators, Tracers,
  Small,           \* small objects
  Large,           \* large ones
  SizeOf,          \* in granules; of a large object, a multiple of PageSize
  PageSize,
  HeapSize,        \* at the start
  Headroom,        \* what the growable sizer adds to what lives, doubled
  MaxCollections   \* bound: after so many no collection starts

None == "none"

ASSUME PccAssumption ==
  /\ IsFiniteSet(Mutators) /\ Mutators \cap Tracers = {}
  /\ Small \cap Large = {} /\ None \notin Small \cup Large
  /\ PageSize \in Nat \ {0} /\ HeapSize \in Nat /\ Headroom \in Nat
  /\ \A o \in Small : SizeOf[o] \in 1 .. RegionSize
  /\ \A o \in Large : SizeOf[o] \in Nat \ {0} /\ SizeOf[o] % PageSize = 0

Objects == Small \cup Large
\* Words that are no address: nowhere, the large object space, and the tag
\* of an object that is live or busy.
Special(n) == [block |-> NoBlock, region |-> 2, off |-> n]
Nowhere == Special(0)
InLarge == Special(1)
Live == Special(2)
Busy == Special(3)
NoEdge == <<None, None>>
NoCopy == [at |-> Nowhere, tag |-> Live]

VARIABLES
  space,           \* heap->mono_space
  size,            \* heap->size
  largeBytes,      \* heap->large_object_pages, in bytes
  collecting, paused, inactive, count,
  pc, want,        \* where a thread is, and the object it allocates or moves
  reg,             \* pending, as allocate_large has read it
  alloc,           \* allocators
  at,              \* where an object is: [block, region, off], or Special
  tag,             \* its tag word: Live, Busy or, forwarded, an address
  copy,            \* its copy: [at, tag]
  slot,            \* what each mutator's roots hold: addresses, by object
  edges,           \* roots still to trace
  edge,            \* the root a tracer has taken
  lmarked,         \* large objects marked
  aged,            \* the background thread has advanced the queue, not yet discarded
  written,         \* regions that hold something since they were cleared
  copies           \* history: how often a collection copied an object

handshake == <<collecting, paused, inactive, count>>
heap == <<space, size, largeBytes, written, aged>>
objects == <<at, tag, copy, copies, lmarked>>
roots == <<slot, edges, edge>>
thread == <<pc, want, reg, alloc>>
pccVars == <<handshake, heap, objects, roots, thread>>

Threads == Mutators \cup Tracers

PccInit ==
  /\ space = SpaceOf(HeapSize) /\ size = HeapSize /\ largeBytes = 0 /\ written = {} /\ aged = FALSE
  /\ collecting = FALSE /\ paused = 0 /\ inactive = 0 /\ count = 0
  /\ pc = [t \in Threads |-> IF t \in Mutators THEN "run" ELSE "parked"]
  /\ want = [t \in Threads |-> None] /\ reg = [m \in Mutators |-> 0]
  /\ alloc = [t \in Threads |-> NoAllocator]
  /\ at = [o \in Objects |-> Nowhere] /\ tag = [o \in Objects |-> Live]
  /\ copy = [o \in Objects |-> NoCopy] /\ copies = [o \in Objects |-> 0]
  /\ slot = [m \in Mutators |-> [o \in Objects |-> Nowhere]]
  /\ edges = {} /\ edge = [t \in Tracers |-> NoEdge] /\ lmarked = {}

At(t, l) == pc[t] = l
Goto(t, l) == pc' = [pc EXCEPT ![t] = l]
Running(m) == m \in Mutators /\ At(m, "run")

(***************************************************************************)
(* copy_space_allocate, for mutators and tracers                           *)
(***************************************************************************)
Allocating(t) == At(t, "alloc") \/ At(t, "allocEmpty")
Room(t) == Fits(alloc[t], SizeOf[want[t]])
Here(t) == [block |-> alloc[t].block, region |-> space.active, off |-> alloc[t].hp]
Bumped(t) == [alloc EXCEPT ![t].hp = @ + SizeOf[want[t]]]

ReleaseFullBlock(t) ==
  /\ At(t, "alloc") /\ ~Room(t) /\ alloc[t].block # NoBlock
  /\ space' = ReleaseFull(space, alloc[t])
  /\ alloc' = [alloc EXCEPT ![t] = NoAllocator]
  /\ UNCHANGED <<handshake, size, largeBytes, written, aged, objects, roots, pc, want, reg>>
AcquirePartlyFullBlock(t) ==
  /\ At(t, "alloc") /\ ~Room(t) /\ alloc[t].block = NoBlock
  /\ \/ /\ space.partly # <<>>
        /\ LET b == Head(space.partly) IN
             alloc' = [alloc EXCEPT ![t] = [block |-> b, hp |-> space.used[b]]]
        /\ space' = [space EXCEPT !.partly = Tail(@)]
        /\ pc' = pc
     \/ space.partly = <<>> /\ Goto(t, "allocEmpty") /\ UNCHANGED <<space, alloc>>
  /\ UNCHANGED <<handshake, size, largeBytes, written, aged, objects, roots, want, reg>>
\* A region known to be zero is not cleared.
AcquireEmptyBlock(t) ==
  /\ At(t, "allocEmpty") /\ HasEmpty(space)
  /\ LET b == EmptyBlock(space) IN
       /\ space' = AcquireEmpty(space)
       /\ alloc' = [alloc EXCEPT ![t] = [block |-> b, hp |-> 0]]
       /\ written' = IF space.active \in space.zeroes[b] THEN written
                     ELSE written \ {<<b, space.active>>}
  /\ Goto(t, "alloc")
  /\ UNCHANGED <<handshake, size, largeBytes, aged, objects, roots, want, reg>>
AllocateStep(t) == ReleaseFullBlock(t) \/ AcquirePartlyFullBlock(t) \/ AcquireEmptyBlock(t)

(***************************************************************************)
(* Mutators                                                                *)
(***************************************************************************)
\* An object nobody holds is garbage, and its name may stand for another.
Unused(o) ==
  (\A m \in Mutators : slot[m][o] = Nowhere) /\ \A t \in Threads : want[t] # o
\* gc_allocate_slow
RequestSmall(m) ==
  /\ Running(m)
  /\ \E o \in Small : Unused(o) /\ want' = [want EXCEPT ![m] = o]
  /\ Goto(m, "alloc")
  /\ UNCHANGED <<handshake, heap, objects, roots, reg, alloc>>
AllocateSmall(m) ==
  /\ m \in Mutators /\ At(m, "alloc") /\ Room(m)
  /\ at' = [at EXCEPT ![want[m]] = Here(m)]
  /\ slot' = [slot EXCEPT ![m][want[m]] = Here(m)]
  /\ written' = written \cup {<<alloc[m].block, space.active>>}
  /\ alloc' = Bumped(m) /\ want' = [want EXCEPT ![m] = None] /\ Goto(m, "run")
  /\ UNCHANGED <<handshake, space, size, largeBytes, aged, tag, copy, copies, lmarked, edges, edge, reg>>
\* A mutator collects; a tracer that has no memory for a copy ends the
\* process (forward, in copy-space.h).
Dead == [t \in Threads |-> "dead"]
NoRoom(t) ==
  /\ At(t, "allocEmpty") /\ ~HasEmpty(space)
  /\ pc' = IF t \in Tracers THEN Dead ELSE [pc EXCEPT ![t] = "trigger"]
  /\ UNCHANGED <<handshake, heap, objects, roots, want, reg, alloc>>

\* allocate_large
RequestLarge(m) ==
  /\ Running(m)
  /\ \E o \in Large :
       /\ Unused(o) /\ want' = [want EXCEPT ![m] = o]
       /\ space' = [space EXCEPT !.pending = @ + SizeOf[o]]
  /\ Goto(m, "readPending")
  /\ UNCHANGED <<handshake, size, largeBytes, written, aged, objects, roots, reg, alloc>>
ReadPending(m) ==
  /\ At(m, "readPending")
  /\ reg' = [reg EXCEPT ![m] = space.pending]
  /\ Goto(m, "pageOut")
  /\ UNCHANGED <<handshake, heap, objects, roots, want, alloc>>
PageOut(m) ==
  /\ At(m, "pageOut")
  /\ space' = PageOutUntilReleased(space, reg[m])
  /\ reg' = [reg EXCEPT ![m] = 0]
  /\ Goto(m, IF Deficit(space, reg[m]) > 0 THEN "trigger" ELSE "allocLarge")
  /\ UNCHANGED <<handshake, size, largeBytes, written, aged, objects, roots, want, alloc>>
AllocateLarge(m) ==
  /\ At(m, "allocLarge")
  /\ largeBytes' = largeBytes + SizeOf[want[m]]
  /\ at' = [at EXCEPT ![want[m]] = InLarge]
  /\ slot' = [slot EXCEPT ![m][want[m]] = InLarge]
  /\ want' = [want EXCEPT ![m] = None] /\ Goto(m, "run")
  /\ UNCHANGED <<handshake, space, size, written, aged, tag, copy, copies, lmarked, edges, edge, reg, alloc>>

\* A program lets go of an object, or hands it to another thread.
Drop(m, o) ==
  /\ Running(m) /\ slot[m][o] # Nowhere
  /\ slot' = [slot EXCEPT ![m][o] = Nowhere]
  /\ at' = IF \E k \in Mutators \ {m} : slot[k][o] # Nowhere THEN at
           ELSE [at EXCEPT ![o] = Nowhere]
  /\ UNCHANGED <<handshake, heap, tag, copy, copies, lmarked, edges, edge, thread>>
Share(m, k, o) ==
  /\ Running(m) /\ Running(k) /\ slot[m][o] # Nowhere /\ slot[k][o] = Nowhere
  /\ slot' = [slot EXCEPT ![k][o] = slot[m][o]]
  /\ UNCHANGED <<handshake, heap, objects, edges, edge, thread>>

(***************************************************************************)
(* Stopping: every path gives the allocator's block back first             *)
(***************************************************************************)
FinishAllocator(t) ==
  /\ space' = Finished(space, alloc[t])
  /\ alloc' = [alloc EXCEPT ![t] = NoAllocator]
AllStopped == Cardinality(Mutators) = paused + inactive

\* trigger_collection, before the heap's lock; gc_collect asks for it
Ask(m) ==
  /\ Running(m) /\ count < MaxCollections
  /\ Goto(m, "trigger")
  /\ UNCHANGED <<handshake, heap, objects, roots, want, reg, alloc>>
Trigger(m) ==
  /\ At(m, "trigger")
  /\ FinishAllocator(m)
  /\ Goto(m, "triggered")
  /\ UNCHANGED <<handshake, size, largeBytes, written, aged, objects, roots, want, reg>>
\* gc_safepoint_slow
Safepoint(m) ==
  /\ Running(m) /\ collecting
  /\ FinishAllocator(m)
  /\ Goto(m, "safepoint")
  /\ UNCHANGED <<handshake, size, largeBytes, written, aged, objects, roots, want, reg>>
\* deactivate_mutator, reactivate_mutator
Leave(m) ==
  /\ Running(m)
  /\ FinishAllocator(m)
  /\ Goto(m, "leaving")
  /\ UNCHANGED <<handshake, size, largeBytes, written, aged, objects, roots, want, reg>>
Deactivate(m) ==
  /\ At(m, "leaving")
  /\ inactive' = inactive + 1
  /\ Goto(m, "inactive")
  /\ UNCHANGED <<collecting, paused, count, heap, objects, roots, want, reg, alloc>>
Reactivate(m) ==
  /\ At(m, "inactive") /\ ~collecting
  /\ inactive' = inactive - 1
  /\ Goto(m, "run")
  /\ UNCHANGED <<collecting, paused, count, heap, objects, roots, want, reg, alloc>>

\* What a thread does when a collection has served it: a small request is
\* tried again, a large one takes the memory that was released.
After(m) ==
  IF want[m] = None THEN "run" ELSE IF want[m] \in Large THEN "allocLarge" ELSE "alloc"

\* pause_mutator_for_collection; another's collection counts as one's own
Pause(m) ==
  /\ At(m, "triggered") \/ At(m, "safepoint")
  /\ collecting
  /\ paused' = paused + 1
  /\ Goto(m, "paused")
  /\ UNCHANGED <<collecting, inactive, count, heap, objects, roots, want, reg, alloc>>
Resume(m) ==
  /\ At(m, "paused") /\ ~collecting
  /\ paused' = paused - 1
  /\ Goto(m, After(m))
  /\ UNCHANGED <<collecting, inactive, count, heap, objects, roots, want, reg, alloc>>

(***************************************************************************)
(* collect                                                                 *)
(***************************************************************************)
RequestStop(m) ==
  /\ At(m, "triggered") /\ ~collecting /\ count < MaxCollections
  /\ collecting' = TRUE /\ paused' = paused + 1
  /\ Goto(m, "stopping")
  /\ UNCHANGED <<inactive, count, heap, objects, roots, want, reg, alloc>>
StartGc(m) ==
  /\ At(m, "stopping") /\ AllStopped
  /\ space' = Flipped(space)
  /\ edges' = {e \in Mutators \X Objects : slot[e[1]][e[2]] # Nowhere}
  /\ lmarked' = {} /\ copies' = [o \in Objects |-> 0]
  /\ pc' = [t \in Threads |-> IF t \in Tracers THEN "idle"
                              ELSE IF t = m THEN "tracing" ELSE pc[t]]
  /\ UNCHANGED <<handshake, size, largeBytes, written, aged, at, tag, copy, slot, edge, want, reg, alloc>>

\* trace_root: an edge to a large object marks it, others are forwarded
TakeRoot(t) ==
  /\ At(t, "idle")
  /\ \E e \in edges :
       /\ edges' = edges \ {e}
       /\ \/ /\ e[2] \in Large /\ lmarked' = lmarked \cup {e[2]} /\ UNCHANGED <<edge, pc>>
          \/ /\ e[2] \in Small /\ edge' = [edge EXCEPT ![t] = e] /\ Goto(t, "begin")
             /\ UNCHANGED lmarked
  /\ UNCHANGED <<handshake, heap, at, tag, copy, copies, slot, want, reg, alloc>>

\* copy_space_forward_atomic, as the tag word it has read tells
Of(t) == edge[t][2]
ByTag(t) ==
  Goto(t, CASE tag[Of(t)] = Live -> "acquire" [] tag[Of(t)] = Busy -> "busy"
            [] OTHER -> "update")
Begin(t) ==
  /\ At(t, "begin") \/ (At(t, "busy") /\ tag[Of(t)] # Busy)
  /\ ByTag(t)
  /\ UNCHANGED <<handshake, heap, objects, roots, want, reg, alloc>>
\* mutant: the tag word is stored, and not compared first
AcquireUnraced(t) ==
  /\ At(t, "acquire")
  /\ tag' = [tag EXCEPT ![Of(t)] = Busy]
  /\ want' = [want EXCEPT ![t] = Of(t)] /\ Goto(t, "alloc")
  /\ UNCHANGED <<handshake, heap, at, copy, copies, lmarked, roots, reg, alloc>>
\* gc_atomic_forward_acquire
Acquire(t) ==
  /\ At(t, "acquire")
  /\ \/ /\ tag[Of(t)] = Live
        /\ tag' = [tag EXCEPT ![Of(t)] = Busy]
        /\ want' = [want EXCEPT ![t] = Of(t)] /\ Goto(t, "alloc")
     \/ /\ tag[Of(t)] # Live
        /\ ByTag(t) /\ UNCHANGED <<tag, want>>
  /\ UNCHANGED <<handshake, heap, at, copy, copies, lmarked, roots, reg, alloc>>
\* The copy has the busy word ...
Copy(t) ==
  /\ t \in Tracers /\ At(t, "alloc") /\ Room(t)
  /\ copy' = [copy EXCEPT ![Of(t)] = [at |-> Here(t), tag |-> Busy]]
  /\ copies' = [copies EXCEPT ![Of(t)] = @ + 1]
  /\ written' = written \cup {<<alloc[t].block, space.active>>}
  /\ alloc' = Bumped(t) /\ want' = [want EXCEPT ![t] = None] /\ Goto(t, "commitTag")
  /\ UNCHANGED <<handshake, space, size, largeBytes, aged, at, tag, lmarked, roots, reg>>
\* ... until gc_atomic_forward_commit, which then shows it to the others
CommitTag(t) ==
  /\ At(t, "commitTag")
  /\ copy' = [copy EXCEPT ![Of(t)].tag = Live]
  /\ Goto(t, "commit")
  /\ UNCHANGED <<handshake, heap, at, tag, copies, lmarked, roots, want, reg, alloc>>
Commit(t) ==
  /\ At(t, "commit")
  /\ tag' = [tag EXCEPT ![Of(t)] = copy[Of(t)].at]
  /\ Goto(t, "update")
  /\ UNCHANGED <<handshake, heap, at, copy, copies, lmarked, roots, want, reg, alloc>>
Update(t) ==
  /\ At(t, "update")
  /\ slot' = [slot EXCEPT ![edge[t][1]][Of(t)] = tag[Of(t)]]
  /\ edge' = [edge EXCEPT ![t] = NoEdge]
  /\ Goto(t, "idle")
  /\ UNCHANGED <<handshake, heap, objects, edges, want, reg, alloc>>
\* gc_trace_worker_call_with_data
Park(t) ==
  /\ At(t, "idle") /\ edges = {}
  /\ FinishAllocator(t)
  /\ Goto(t, "parked")
  /\ UNCHANGED <<handshake, size, largeBytes, written, aged, objects, roots, want, reg>>

\* copy_spaces_finish_gc, large_object_space_finish_gc and
\* heap_reset_large_object_pages: what large objects leave comes back
BytesOf(S) == FoldSet(LAMBDA o, n : n + SizeOf[o], 0, S)
FinishGc(m) ==
  /\ At(m, "tracing") /\ edges = {} /\ \A t \in Tracers : At(t, "parked")
  /\ space' = Reacquire(GcFinished(space), largeBytes - BytesOf(lmarked))
  /\ largeBytes' = BytesOf(lmarked)
  /\ at' = [o \in Objects |-> IF o \in Large THEN IF o \in lmarked THEN InLarge ELSE Nowhere
                              ELSE copy[o].at]
  /\ tag' = [o \in Objects |-> Live] /\ copy' = [o \in Objects |-> NoCopy]
  /\ count' = count + 1
  /\ Goto(m, "resize")
  /\ UNCHANGED <<collecting, paused, inactive, size, written, aged, copies, lmarked, roots,
                 want, reg, alloc>>

\* gc_heap_sizer_on_gc, gc_growable_heap_sizer_target_size, resize_heap
Target(live) == IF live = 0 THEN 0 ELSE 2 * live + Headroom
Resize(m) ==
  /\ At(m, "resize")
  /\ LET target == Target(space.last + largeBytes) IN
       IF target > size THEN size' = target /\ space' = Expanded(space, target - size)
       ELSE UNCHANGED <<size, space>>
  /\ Goto(m, "resolve")
  /\ UNCHANGED <<handshake, largeBytes, written, aged, objects, roots, want, reg, alloc>>

\* resolve_pending_large_allocation_and_compute_success,
\* allow_mutators_to_continue; without success an allocation fails, which
\* ends the process
Resolve(m) ==
  LET deficit == BlockSize * Ceiling(Deficit(space, space.pending), BlockSize)
      out == PageOutUntilReleased(space, space.pending)
  IN
  /\ At(m, "resolve")
  /\ space' = IF deficit > 0 THEN Expanded(out, deficit) ELSE out
  /\ size' = size + deficit
  /\ collecting' = FALSE /\ paused' = paused - 1
  /\ pc' = IF want[m] # None /\ deficit <= 0 /\ ~CanAllocate(out) THEN Dead
           ELSE [pc EXCEPT ![m] = After(m)]
  /\ UNCHANGED <<inactive, count, largeBytes, written, aged, objects, roots, want, reg, alloc>>

(***************************************************************************)
(* The background thread: START and END tasks in turn                      *)
(***************************************************************************)
AdvanceQueue ==
  /\ ~aged /\ space.out[0] \o space.out[1] \o space.out[2] # <<>>
  /\ space' = Advanced(space) /\ aged' = TRUE
  /\ UNCHANGED <<handshake, size, largeBytes, written, objects, roots, thread>>
DiscardBlocks ==
  /\ aged
  /\ space' = Discarded(space) /\ aged' = FALSE
  /\ written' = {r \in written : r[1] \notin ToSet(space.out[2])}
  /\ UNCHANGED <<handshake, size, largeBytes, objects, roots, thread>>

MutatorNext(m) ==
  \/ AllocateStep(m) \/ RequestSmall(m) \/ AllocateSmall(m) \/ NoRoom(m)
  \/ RequestLarge(m) \/ ReadPending(m) \/ PageOut(m) \/ AllocateLarge(m)
  \/ Ask(m) \/ Trigger(m) \/ Safepoint(m) \/ Leave(m) \/ Deactivate(m) \/ Reactivate(m)
  \/ Pause(m) \/ Resume(m) \/ RequestStop(m) \/ StartGc(m)
  \/ FinishGc(m) \/ Resize(m) \/ Resolve(m)
  \/ \E o \in Objects : Drop(m, o) \/ \E k \in Mutators : Share(m, k, o)
TracerNext(t) ==
  \/ TakeRoot(t) \/ Begin(t) \/ Acquire(t) \/ AllocateStep(t) \/ Copy(t) \/ CommitTag(t)
  \/ Commit(t) \/ Update(t) \/ NoRoom(t) \/ Park(t)
PccNext ==
  \/ \E m \in Mutators : MutatorNext(m)
  \/ \E t \in Tracers : TracerNext(t)
  \/ AdvanceQueue \/ DiscardBlocks

PccSpec == PccInit /\ [][PccNext]_pccVars

(***************************************************************************)
(* Properties                                                              *)
(***************************************************************************)
\* Where the small object o is now: its place, and its copy.
Places(o) == {at[o]} \cup ({copy[o].at} \ {Nowhere})
InUse == {o \in Small : at[o] # Nowhere}
Span(o, p) == {<<p.block, p.region, p.off + i>> : i \in 0 .. SizeOf[o] - 1}

(***************************************************************************)
(* No two objects in use share memory, old copies and new ones included,   *)
(* and none lies in a block that is empty or paged out (but for the old    *)
(* halves of a collection): whatever lists a block has been through.  And  *)
(* a region that is handed out uncleared holds nothing: blocks are known   *)
(* to be zero only while nobody has written to them since the system, or   *)
(* nobody, had them (copy-space.h:430-435, 909-926).                       *)
(***************************************************************************)
ObjectsApart ==
  /\ \A o, q \in InUse : o # q =>
       \A p \in Places(o), r \in Places(q) : Span(o, p) \cap Span(q, r) = {}
  /\ \A o \in InUse : \A p \in Places(o) :
       p.region = space.active =>
         p.block \notin ToSet(space.empty) \cup ToSet(InPageInOrder(space))
  /\ \A b \in DOMAIN space.zeroes : \A r \in space.zeroes[b] : <<b, r>> \notin written

(***************************************************************************)
(* The heap's budget: the blocks in core, less what is still to be paged   *)
(* out, and the large objects, those asked for included, make up the size  *)
(* of the heap (the headers of the first slabs take their part of it); and *)
(* each block is in one list, or in one allocator.                         *)
(***************************************************************************)
AskedFor ==
  BytesOf({want[m] : m \in {m \in Mutators : want[m] \in Large}})
Lists == space.empty \o space.partly \o space.full \o InPageInOrder(space)
Held == {t \in Threads : alloc[t].block # NoBlock}
BlocksAccounted ==
  /\ BlockSize * (Cardinality(DOMAIN space.used) - Len(InPageInOrder(space))) - space.pending
       = size + (BlockSize * Ceiling(HeapSize, BlockSize) - HeapSize)
           - largeBytes - AskedFor - BlockSize * SpaceOf(HeapSize).slabs
  /\ Len(Lists) + Cardinality(Held) = Cardinality(DOMAIN space.used)
  /\ ToSet(Lists) \cup {alloc[t].block : t \in Held} = DOMAIN space.used

(***************************************************************************)
(* Two tracers that meet at an object make one copy of it, nobody sees the *)
(* copy before it is whole, and when the mutators go on every root holds   *)
(* it.                                                                     *)
(***************************************************************************)
CopiedOnce ==
  /\ \A o \in Small : copies[o] <= 1
  /\ \A o \in Small : tag[o] \notin {Live, Busy} => tag[o] = copy[o].at /\ copy[o].tag = Live
  /\ ~collecting => \A m \in Mutators : \A o \in Objects : slot[m][o] \in {Nowhere, at[o]}

===============================================================================
