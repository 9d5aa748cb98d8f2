----------------------------------- MODULE Mmc -----------------------------------
(***************************************************************************)
(* The mostly-marking collector, runtime/gc/src/mmc.c, over the space of   *)
(* module NoflSpace: mutators that allocate while they sweep, and grow the *)
(* heap instead of collecting; a collecting thread that sweeps what is     *)
(* left while the others still run; tracers that mark objects where they   *)
(* are, or evacuate those of the chosen blocks, racing for one object.     *)
(*                                                                         *)
(* Objects have no fields: modules Tracer and Semi are about following     *)
(* them.  The heap may grow, as the runtime asks.                          *)
(***************************************************************************)
EXTENDS NoflSpace

CONSTANTS
  Mutators, Tracers,
  Small,           \* small objects
  Large,           \* large ones
  SizeOf,          \* in granules
  Slots,           \* bound: how many roots, of any thread, hold the same object
  Pinnable,        \* bound: the small objects a program may pin
  HeapSize,        \* at the start
  Growths,         \* what the growable sizer may add to the heap, for it to choose
  Bounds           \* bounds on a run, [objects, size, collections]: a program allocates
                   \* so many objects, the sizer does not let the heap grow further,
                   \* and after so many collections none starts

ASSUME MmcAssumption ==
  /\ HeapSize \in Nat /\ Growths \subseteq Nat \ {0}
  /\ Pinnable \subseteq Small
  /\ \A o \in Small : SizeOf[o] \in 1 .. BlockGranules
  /\ \A o \in Large : SizeOf[o] \in Nat \ {0}
  /\ \A o \in Small \cup Large : Slots[o] \in Nat \ {0}

None == "none"
Objects == Small \cup Large
\* Addresses are <<block, granule>>
Nowhere == <<NoBlock, 0>>
InLarge == <<NoBlock, 1>>
NoEdge == <<None, 0>>
All(o, a) == [i \in 1 .. Slots[o] |-> a]
AnyKind == 0
NoKind == -1

VARIABLES
  space,           \* heap->nofl_space
  size,            \* heap->size
  largeBytes,      \* heap->large_object_pages, in granules
  kind,            \* heap->gc_kind
  lastGrowth,      \* heap->count_at_last_growth
  collecting, paused, inactive, count,
  pc, want,        \* where a thread is, and the object it allocates
  reg,             \* blocks_swept, or pending as a thread has read it
  prev,            \* the kind of the collection it has waited for
  alloc,           \* allocators
  byte,            \* the metadata byte a tracer has read
  at,              \* where an object is
  copy,            \* its copy, Nowhere if it has none: the forwarding pointer
  slot,            \* what the roots hold of each object
  edges,           \* roots still to trace
  edge,            \* the root a tracer has taken
  lmarked,         \* large objects marked
  bound,           \* the bounds of this run
  made,            \* history: how many objects were allocated
  copies           \* history: how often a collection copied an object

handshake == <<collecting, paused, inactive, count>>
sizing == <<size, largeBytes, lastGrowth>>
heap == <<space, sizing, kind>>
objects == <<at, copy, copies, lmarked, made, bound>>
roots == <<slot, edges, edge>>
thread == <<pc, want, reg, prev, alloc, byte>>
mmcVars == <<handshake, heap, objects, roots, thread>>

Threads == Mutators \cup Tracers

MmcInit ==
  /\ space = SpaceOf(HeapSize) /\ size = HeapSize /\ largeBytes = 0
  /\ kind = AnyKind /\ lastGrowth = 0
  /\ collecting = FALSE /\ paused = 0 /\ inactive = 0 /\ count = 0
  /\ pc = [t \in Threads |-> IF t \in Mutators THEN "run" ELSE "parked"]
  /\ want = [m \in Mutators |-> None] /\ reg = [m \in Mutators |-> 0]
  /\ prev = [m \in Mutators |-> NoKind]
  /\ alloc = [t \in Threads |-> NoAllocator] /\ byte = [t \in Tracers |-> Blank]
  /\ at = [o \in Objects |-> Nowhere] /\ copy = [o \in Objects |-> Nowhere]
  /\ copies = [o \in Objects |-> 0]
  /\ slot = [o \in Objects |-> All(o, Nowhere)]
  /\ edges = {} /\ edge = [t \in Tracers |-> NoEdge] /\ lmarked = {} /\ made = 0
  /\ bound \in Bounds

At(t, l) == pc[t] = l
IsHeld(o) == slot[o] # All(o, Nowhere)
Goto(t, l) == pc' = [pc EXCEPT ![t] = l]
Running(m) == m \in Mutators /\ At(m, "run")
\* heap->lock: only the collecting thread keeps it from step to step
Unlocked == \A t \in Threads : pc[t] \notin {"sweepAll", "sweepPartly", "sweepEmpty"}

View(t) == [space |-> space, alloc |-> alloc[t]]
Becomes(t, v) == space' = v.space /\ alloc' = [alloc EXCEPT ![t] = v.alloc]

(***************************************************************************)
(* nofl_allocate                                                           *)
(***************************************************************************)
Size(m) == SizeOf[want[m]]
Written(s, o, a, b) ==
  [s EXCEPT !.meta[a[1]] = Extent(@, a[2], SizeOf[o], b),
            !.dirty = @ \cup Granules(a[1], a[2], a[2] + SizeOf[o])]
YoungByte == [mark |-> Young, end |-> FALSE, pin |-> FALSE]

\* An object nobody holds is garbage, and its name may stand for another.
Unused(o) ==
  /\ made < bound.objects
  /\ ~IsHeld(o) /\ \A m \in Mutators : want[m] # o
RequestSmall(m) ==
  /\ Running(m)
  /\ \E o \in Small : Unused(o) /\ want' = [want EXCEPT ![m] = o]
  /\ made' = made + 1 /\ Goto(m, "alloc")
  /\ UNCHANGED <<handshake, heap, at, copy, copies, lmarked, bound, roots, reg, prev, alloc, byte>>
\* s and alloc with the object taken out of a hole at a
Allocated(m, s, a, v) ==
  /\ space' = Written(s, want[m], a, YoungByte)
  /\ alloc' = [alloc EXCEPT ![m] = v]
  /\ at' = [at EXCEPT ![want[m]] = a]
  /\ slot' = [slot EXCEPT ![want[m]] = All(want[m], a)]
  /\ want' = [want EXCEPT ![m] = None] /\ reg' = [reg EXCEPT ![m] = 0] /\ Goto(m, "run")
  /\ UNCHANGED <<handshake, sizing, kind, copy, copies, lmarked, made, bound, edges, edge, prev, byte>>
\* nofl_allocate_bump_pointer
Bump(m) ==
  /\ m \in Mutators /\ At(m, "alloc") /\ HoleSize(alloc[m]) >= Size(m)
  /\ Allocated(m, space, <<alloc[m].block, alloc[m].alloc>>, [alloc[m] EXCEPT !.alloc = @ + Size(m)])
AllocStep(m, v, l) ==
  /\ Becomes(m, v) /\ Goto(m, l)
  /\ UNCHANGED <<handshake, sizing, kind, objects, roots, want, prev, byte>>
Found(v, m) == HasBlock(v.alloc) /\ HoleSize(v.alloc) >= Size(m)
\* nofl_allocate_slow: the rest of the block, which nobody else touches
SweepBlock(m) ==
  /\ m \in Mutators /\ At(m, "alloc") /\ HoleSize(alloc[m]) < Size(m)
  /\ LET v == NextHoleOfSize(View(m), Size(m)) IN
       AllocStep(m, v, IF Found(v, m) THEN "alloc" ELSE "second")
  /\ UNCHANGED reg
\* nofl_allocate_second_chance
TakeLocalHole(m) ==
  /\ At(m, "second") /\ Fitting(alloc[m].holes, Size(m)) # {}
  /\ LET h == alloc[m].holes[BestHole(alloc[m].holes, Size(m))] IN
       Allocated(m, space, <<h[1], h[2]>>, [alloc[m] EXCEPT !.holes = PopHole(@, Size(m))])
TakeRemoteHoles(m) ==
  /\ At(m, "second") /\ Fitting(alloc[m].holes, Size(m)) = {} /\ Chains(space, Size(m)) # {}
  /\ LET i == BestChain(space, Size(m)) IN
       AllocStep(m, [space |-> [space EXCEPT !.holes = RemoveAt(@, i)],
                     alloc |-> [alloc[m] EXCEPT !.holes = space.holes[i] \o @]], "second")
  /\ UNCHANGED reg
NoHoles(m) ==
  /\ At(m, "second") /\ Fitting(alloc[m].holes, Size(m)) = {} /\ Chains(space, Size(m)) = {}
  /\ AllocStep(m, View(m), "sweep") /\ UNCHANGED reg
\* nofl_allocator_next_hole: so many blocks to sweep, by the logarithm of
\* the size, then one that is partly full, then an empty one
Log2(n) == Max({k \in 0 .. n : 2^k <= n})
BlocksToSweep(m) == Log2(BlockGranules) - Log2(Size(m))
SweepNext(m) ==
  /\ At(m, "sweep")
  /\ \/ /\ reg[m] < BlocksToSweep(m) /\ space.sweep # <<>>
        /\ LET v == NextHoleOfSize(AcquireToSweep(View(m)), Size(m)) IN
             AllocStep(m, v, IF Found(v, m) THEN "alloc" ELSE "sweep")
        /\ reg' = [reg EXCEPT ![m] = @ + 1]
     \/ /\ reg[m] >= BlocksToSweep(m) \/ space.sweep = <<>>
        /\ AllocStep(m, View(m), "partly") /\ UNCHANGED reg
TakePartlyFull(m) ==
  /\ At(m, "partly")
  /\ \/ /\ space.partly # <<>>
        /\ LET v == AcquirePartlyFull(View(m)) IN
             IF Found(v, m) THEN AllocStep(m, v, "alloc")
             ELSE AllocStep(m, ReleaseFull(FinishHole(v, ~space.evacuating)), "partly")
     \/ space.partly = <<>> /\ AllocStep(m, View(m), "empty")
  /\ UNCHANGED reg
\* With no empty block, what was swept is worth another look.
TakeEmpty(m) ==
  /\ m \in Mutators /\ At(m, "empty")
  /\ \/ /\ space.empty # <<>>
        /\ AllocStep(m, AcquireEmpty(View(m)), "alloc")
     \/ /\ space.empty = <<>>
        /\ AllocStep(m, View(m), IF reg[m] = 0 THEN "trigger" ELSE "sweep")
  /\ reg' = [reg EXCEPT ![m] = 0]

(***************************************************************************)
(* allocate_large                                                          *)
(***************************************************************************)
RequestLarge(m) ==
  /\ Running(m)
  /\ \E o \in Large :
       /\ Unused(o) /\ want' = [want EXCEPT ![m] = o]
       /\ space' = [space EXCEPT !.pending = @ + SizeOf[o]]
  /\ made' = made + 1 /\ Goto(m, "readPending")
  /\ UNCHANGED <<handshake, sizing, kind, at, copy, copies, lmarked, bound, roots, reg, prev, alloc, byte>>
ReadPending(m) ==
  /\ At(m, "readPending")
  /\ reg' = [reg EXCEPT ![m] = space.pending]
  /\ Goto(m, "shrink")
  /\ UNCHANGED <<handshake, heap, objects, roots, want, prev, alloc, byte>>
Shrink(m) ==
  /\ At(m, "shrink")
  /\ space' = ShrunkEmpty(space, reg[m])
  /\ reg' = [reg EXCEPT ![m] = 0]
  /\ Goto(m, IF Deficit(space, reg[m]) > 0 THEN "trigger" ELSE "allocLarge")
  /\ UNCHANGED <<handshake, sizing, kind, objects, roots, want, prev, alloc, byte>>
AllocateLarge(m) ==
  /\ At(m, "allocLarge")
  /\ largeBytes' = largeBytes + Size(m)
  /\ at' = [at EXCEPT ![want[m]] = InLarge]
  /\ slot' = [slot EXCEPT ![want[m]] = All(want[m], InLarge)]
  /\ want' = [want EXCEPT ![m] = None] /\ Goto(m, "run")
  /\ UNCHANGED <<handshake, space, size, lastGrowth, kind, copy, copies, lmarked, made, bound, edges, edge,
                 reg, prev, alloc, byte>>

(***************************************************************************)
(* What a program does with its objects                                    *)
(***************************************************************************)
Drop(m, o) ==
  /\ Running(m) /\ IsHeld(o)
  /\ slot' = [slot EXCEPT ![o] = All(o, Nowhere)]
  /\ at' = [at EXCEPT ![o] = Nowhere]
  /\ UNCHANGED <<handshake, heap, copy, copies, lmarked, made, bound, edges, edge, thread>>
ByteAt(a) == space.meta[a[1]][a[2]]
\* gc_pin_object; a large object does not move anyway
Pin(m, o) ==
  /\ Running(m) /\ o \in Pinnable /\ IsHeld(o)
  /\ LET a == at[o] IN
       /\ ~ByteAt(a).pin
       /\ space' = [space EXCEPT !.meta[a[1]][a[2]].pin = TRUE]
  /\ UNCHANGED <<handshake, sizing, kind, objects, roots, thread>>

(***************************************************************************)
(* Stopping                                                                *)
(***************************************************************************)
AllStopped == Cardinality(Mutators) = paused + inactive
\* What the sizer may choose
MayGrow == {g \in Growths : size + g <= bound.size}
\* resize_heap
ResizedTo(s, n) ==
  CASE n < size -> Shrunk(s, size - n) [] n > size -> Expanded(s, n - size) [] OTHER -> s

FinishAllocator(t) == Becomes(t, Finish(View(t)))
FinishAt(m, l) ==
  /\ FinishAllocator(m) /\ Goto(m, l)
  /\ UNCHANGED <<handshake, sizing, kind, objects, roots, want, reg, prev, byte>>
\* trigger_collection, gc_safepoint_slow, deactivate_mutator: each before
\* it takes the lock.  gc_collect asks for a compacting collection.
Ask(m) == Running(m) /\ count < bound.collections /\ FinishAt(m, "triggered")
Trigger(m) == At(m, "trigger") /\ Unlocked /\ FinishAt(m, "triggered")
Safepoint(m) == Running(m) /\ collecting /\ FinishAt(m, "safepoint")
Leave(m) == Running(m) /\ FinishAt(m, "leaving")
\* What a thread does when a collection has served it
After(m) ==
  IF want[m] = None THEN "run" ELSE IF want[m] \in Large THEN "readPending" ELSE "alloc"
Requested(m) == IF want[m] \in Small THEN AnyKind ELSE CompactingKind
\* maybe_grow_heap_instead_of_collecting, for an allocation
MaybeGrow(m) ==
  /\ At(m, "trigger") /\ Unlocked /\ lastGrowth # count
  /\ \E g \in MayGrow :
       LET n == BlockGranules * Ceiling(size + g, BlockGranules) IN
       space' = ResizedTo(space, n) /\ size' = n /\ lastGrowth' = count
  /\ Goto(m, After(m))
  /\ UNCHANGED <<handshake, largeBytes, kind, objects, roots, want, reg, prev, alloc, byte>>
Deactivate(m) ==
  /\ At(m, "leaving") /\ Unlocked
  /\ inactive' = inactive + 1
  /\ Goto(m, "inactive")
  /\ UNCHANGED <<collecting, paused, count, heap, objects, roots, want, reg, prev, alloc, byte>>
Reactivate(m) ==
  /\ At(m, "inactive") /\ Unlocked /\ ~collecting
  /\ inactive' = inactive - 1
  /\ Goto(m, "run")
  /\ UNCHANGED <<collecting, paused, count, heap, objects, roots, want, reg, prev, alloc, byte>>
\* pause_mutator_for_collection: the kind it returns is the one before
Pause(m) ==
  /\ At(m, "triggered") \/ At(m, "safepoint")
  /\ collecting /\ Unlocked
  /\ paused' = paused + 1
  /\ prev' = [prev EXCEPT ![m] = kind]
  /\ Goto(m, IF At(m, "triggered") THEN "paused" ELSE "held")
  /\ UNCHANGED <<collecting, inactive, count, heap, objects, roots, want, reg, alloc, byte>>
\* A collection that was of a lesser kind does not serve.
Served(m) == prev[m] >= Requested(m)
Resume(m) ==
  /\ ~collecting
  /\ At(m, "held") \/ (At(m, "paused") /\ Served(m))
  /\ paused' = paused - 1
  /\ prev' = [prev EXCEPT ![m] = NoKind]
  /\ Goto(m, IF At(m, "held") THEN "run" ELSE After(m))
  /\ UNCHANGED <<collecting, inactive, count, heap, objects, roots, want, reg, alloc, byte>>

(***************************************************************************)
(* collect                                                                 *)
(***************************************************************************)
RequestStop(m) ==
  /\ At(m, "triggered") \/ (At(m, "paused") /\ ~Served(m))
  /\ ~collecting /\ count < bound.collections
  /\ collecting' = TRUE
  /\ paused' = IF At(m, "paused") THEN paused - 1 ELSE paused
  /\ prev' = [prev EXCEPT ![m] = NoKind]
  /\ Goto(m, "sweepAll")
  /\ UNCHANGED <<inactive, count, heap, objects, roots, want, reg, alloc, byte>>
\* nofl_finish_sweeping, a block at a time: the others still allocate
RECURSIVE Drained(_)
Drained(v) == IF HasBlock(v.alloc) THEN Drained(NextHoleOfSize(v, 0)) ELSE v
Drain(m, v, full) ==
  /\ Becomes(m, Drained(v)) /\ Goto(m, "sweepAll")
  /\ reg' = [reg EXCEPT ![m] = IF full THEN 1 ELSE 0]
SweepOn(m, l) == Goto(m, l) /\ UNCHANGED <<space, reg, alloc>>
SweepAll(m) ==
  /\ \/ /\ At(m, "sweepAll") /\ space.sweep # <<>>
        /\ LET v == AcquireToSweep(View(m))
           IN  Drain(m, v, ~HasBlock(NextHoleOfSize(v, 0).alloc))
     \/ At(m, "sweepAll") /\ space.sweep = <<>> /\ SweepOn(m, "sweepPartly")
     \/ At(m, "sweepPartly") /\ space.partly # <<>> /\ Drain(m, AcquirePartlyFull(View(m)), FALSE)
     \/ At(m, "sweepPartly") /\ space.partly = <<>> /\ SweepOn(m, "sweepEmpty")
     \/ At(m, "sweepEmpty") /\ space.empty # <<>> /\ Drain(m, AcquireEmpty(View(m)), FALSE)
     \/ At(m, "sweepEmpty") /\ space.empty = <<>> /\ reg[m] # 0 /\ Drain(m, View(m), FALSE)
  /\ UNCHANGED <<handshake, sizing, kind, objects, roots, want, prev, byte>>
\* wait_for_mutators_to_stop gives up the lock
AwaitStop(m) ==
  /\ At(m, "sweepEmpty") /\ space.empty = <<>> /\ reg[m] = 0
  /\ paused' = paused + 1
  /\ Goto(m, "stopping")
  /\ UNCHANGED <<collecting, inactive, count, heap, objects, roots, want, reg, prev, alloc, byte>>
\* determine_collection_kind; how fragmented the heap is is left open
Kinds(m) ==
  IF count = 0 THEN {MajorKind}
  ELSE IF Requested(m) # AnyKind THEN {Requested(m)}
  ELSE IF space.pending > 0 THEN {CompactingKind}
  ELSE {MajorKind, CompactingKind}
StartCollection(m) ==
  /\ At(m, "stopping") /\ AllStopped
  /\ \E k \in Kinds(m) : kind' = k /\ space' = StartGc(space, k)
  /\ edges' = UNION {{o} \X (1 .. Slots[o]) : o \in {p \in Objects : IsHeld(p)}}
  /\ lmarked' = {} /\ copies' = [o \in Objects |-> 0]
  /\ pc' = [t \in Threads |-> IF t \in Tracers THEN "idle"
                              ELSE IF t = m THEN "tracing" ELSE pc[t]]
  /\ UNCHANGED <<handshake, sizing, at, copy, made, bound, slot, edge, want, reg, prev, alloc, byte>>

(***************************************************************************)
(* do_trace and nofl_space_evacuate_or_mark_object                         *)
(***************************************************************************)
Of(t) == edge[t][1]
Old(t) == slot[Of(t)][edge[t][2]]
\* mutant: the pinned bit is not looked at
ShouldEvacuatePinned(a, b) == space.evacuating /\ a[1] \in space.evac
ShouldEvacuate(a, b) == space.evacuating /\ ~b.pin /\ a[1] \in space.evac
Marked(s, b) == [s EXCEPT !.marked = @ \cup {b}]
NextEdge(t) == edge' = [edge EXCEPT ![t] = NoEdge] /\ Goto(t, "idle")

TakeRoot(t) ==
  /\ At(t, "idle")
  /\ \E e \in edges :
       /\ edges' = edges \ {e}
       /\ IF e[1] \in Large THEN lmarked' = lmarked \cup {e[1]} /\ UNCHANGED <<edge, pc, byte>>
          ELSE LET a == slot[e[1]][e[2]] IN
               /\ byte' = [byte EXCEPT ![t] = ByteAt(a)]
               /\ IF ByteAt(a).mark = space.current THEN UNCHANGED <<edge, pc>>
                  ELSE /\ edge' = [edge EXCEPT ![t] = e]
                       /\ Goto(t, IF ShouldEvacuate(a, ByteAt(a)) THEN "claim" ELSE "mark")
               /\ UNCHANGED lmarked
  /\ UNCHANGED <<handshake, heap, at, copy, copies, made, bound, slot, want, reg, prev, alloc>>
\* nofl_space_set_nonempty_mark
Mark(t) ==
  /\ At(t, "mark")
  /\ LET b == [byte[t] EXCEPT !.mark = space.current]
         a == Old(t)
         s == [space EXCEPT !.meta[a[1]][a[2]] = b]
     IN  space' = IF ByteAt(a) # b THEN Marked(s, a[1]) ELSE s
  /\ NextEdge(t)
  /\ UNCHANGED <<handshake, sizing, kind, objects, slot, edges, want, reg, prev, alloc, byte>>

\* nofl_space_evacuate: who loses the race waits for the winner
AfterClaim(t, b) ==
  /\ byte' = [byte EXCEPT ![t] = b]
  /\ CASE b.mark = Busy -> Goto(t, "busy") /\ UNCHANGED <<slot, edge>>
       [] b.mark = Forwarded -> /\ slot' = [slot EXCEPT ![Of(t)][edge[t][2]] = copy[Of(t)]]
                                /\ NextEdge(t)
       [] OTHER -> NextEdge(t) /\ UNCHANGED slot
\* mutant: the byte is stored, and not compared first
ClaimUnraced(t) ==
  /\ At(t, "claim")
  /\ space' = [space EXCEPT !.meta[Old(t)[1]][Old(t)[2]].mark = Busy]
  /\ Goto(t, "evacuate") /\ UNCHANGED <<slot, edge, byte>>
  /\ UNCHANGED <<handshake, sizing, kind, objects, edges, want, reg, prev, alloc>>
Claim(t) ==
  /\ At(t, "claim")
  /\ IF byte[t].mark \in {Young, space.survivor} /\ ByteAt(Old(t)) = byte[t]
     THEN /\ space' = [space EXCEPT !.meta[Old(t)[1]][Old(t)[2]].mark = Busy]
          /\ Goto(t, "evacuate") /\ UNCHANGED <<slot, edge, byte>>
     ELSE /\ AfterClaim(t, IF byte[t].mark \in {Young, space.survivor} THEN ByteAt(Old(t)) ELSE byte[t])
          /\ UNCHANGED space
  /\ UNCHANGED <<handshake, sizing, kind, objects, edges, want, reg, prev, alloc>>
Spin(t) ==
  /\ At(t, "busy") /\ ByteAt(Old(t)).mark # Busy
  /\ AfterClaim(t, ByteAt(Old(t)))
  /\ UNCHANGED <<handshake, heap, objects, edges, want, reg, prev, alloc>>
\* nofl_evacuation_allocate
HasRoom(t) == HoleSize(alloc[t]) >= SizeOf[Of(t)]
TakeTarget(t) ==
  /\ pc[t] \in {"evacuate", "evacuateEmpty"} /\ ~HasRoom(t)
  /\ \/ /\ At(t, "evacuate") /\ HasBlock(alloc[t])
        /\ Becomes(t, ReleaseFullTarget(View(t))) /\ UNCHANGED pc
     \/ /\ At(t, "evacuate") /\ ~HasBlock(alloc[t]) /\ space.partly # <<>>
        /\ Becomes(t, AcquirePartlyFull(View(t))) /\ UNCHANGED pc
     \/ /\ At(t, "evacuate") /\ ~HasBlock(alloc[t]) /\ space.partly = <<>>
        /\ Goto(t, "evacuateEmpty") /\ UNCHANGED <<space, alloc>>
     \/ /\ At(t, "evacuateEmpty") /\ space.empty # <<>>
        /\ Becomes(t, AcquireEmpty(View(t))) /\ Goto(t, "evacuate")
  /\ UNCHANGED <<handshake, sizing, kind, objects, roots, want, reg, prev, byte>>
\* No room for a copy: the object stays.
MarkInPlace(t) ==
  /\ At(t, "evacuateEmpty") /\ space.empty = <<>>
  /\ space' = Marked([space EXCEPT !.meta[Old(t)[1]][Old(t)[2]].mark = space.current], Old(t)[1])
  /\ NextEdge(t)
  /\ UNCHANGED <<handshake, sizing, kind, objects, slot, edges, want, reg, prev, alloc, byte>>
\* The contents, the forwarding pointer, and the byte that shows it
Publish(t) ==
  /\ At(t, "evacuate") /\ HasRoom(t)
  /\ LET new == <<alloc[t].block, alloc[t].alloc>> IN
       /\ copy' = [copy EXCEPT ![Of(t)] = new]
       /\ space' = [space EXCEPT !.meta[Old(t)[1]][Old(t)[2]].mark = Forwarded,
                                 !.dirty = @ \cup Granules(new[1], new[2], new[2] + SizeOf[Of(t)])]
  /\ copies' = [copies EXCEPT ![Of(t)] = @ + 1]
  /\ alloc' = [alloc EXCEPT ![t].alloc = @ + SizeOf[Of(t)]]
  /\ Goto(t, "settle")
  /\ UNCHANGED <<handshake, sizing, kind, at, lmarked, made, bound, roots, want, reg, prev, byte>>
\* The copy's extent and mark, its block's, and the root
Settle(t) ==
  /\ At(t, "settle")
  /\ LET new == copy[Of(t)] IN
       /\ space' = Marked([space EXCEPT !.meta[new[1]] =
                             Extent(@, new[2], SizeOf[Of(t)], [byte[t] EXCEPT !.mark = space.current])],
                          new[1])
       /\ slot' = [slot EXCEPT ![Of(t)][edge[t][2]] = new]
  /\ NextEdge(t)
  /\ UNCHANGED <<handshake, sizing, kind, objects, edges, want, reg, prev, alloc, byte>>
\* gc_trace_worker_call_with_data
Park(t) == t \in Tracers /\ At(t, "idle") /\ edges = {} /\ FinishAt(t, "parked")

(***************************************************************************)
(* The end of collect                                                      *)
(***************************************************************************)
BytesOf(S) == FoldSet(LAMBDA o, n : n + SizeOf[o], 0, S)
\* grow_heap_if_necessary: room for the least reserve, and for what is owed
Needed(s) ==
  BlockGranules * (MinimumTargets(s) - Len(s.empty) - Len(s.targets)) + Deficit(s, s.pending)
FinishCollection(m) ==
  /\ At(m, "tracing") /\ \A t \in Tracers : At(t, "parked")
  /\ \E g \in MayGrow \cup {0} :
       LET live == BytesOf(lmarked)
           s == Expanded(FinishSpaceGc(space), largeBytes - live)
           t == ResizedTo(s, size + g)
           u == Shrunk(t, 0)
           more == Needed(u)
           n == size + g + Max({more, 0})
       IN  /\ space' = IF more > 0 THEN Expanded(u, more) ELSE u
           /\ size' = n /\ largeBytes' = live
           /\ lastGrowth' = IF n > size THEN count + 1 ELSE lastGrowth
  /\ count' = count + 1 /\ paused' = paused - 1 /\ collecting' = FALSE
  /\ at' = [o \in Objects |-> IF ~IsHeld(o) THEN Nowhere
                              ELSE IF copy[o] # Nowhere THEN copy[o] ELSE at[o]]
  /\ copy' = [o \in Objects |-> Nowhere]
  /\ byte' = [t \in Tracers |-> Blank]
  /\ Goto(m, After(m))
  /\ UNCHANGED <<inactive, kind, copies, lmarked, made, bound, roots, want, reg, prev, alloc>>

(***************************************************************************)
(* The background thread                                                   *)
(***************************************************************************)
\* One tick of both its tasks.  As nothing is ever of age 1, nothing moves.
PageOutTick ==
  /\ space' = Discarded(Advanced(space))
  /\ UNCHANGED <<handshake, sizing, kind, objects, roots, thread>>

Allocate(m) ==
  \/ RequestSmall(m) \/ Bump(m) \/ SweepBlock(m) \/ TakeLocalHole(m) \/ TakeRemoteHoles(m)
  \/ NoHoles(m) \/ SweepNext(m) \/ TakePartlyFull(m) \/ TakeEmpty(m)
  \/ RequestLarge(m) \/ ReadPending(m) \/ Shrink(m) \/ AllocateLarge(m)
Stop(m) ==
  \/ Ask(m) \/ MaybeGrow(m) \/ Trigger(m) \/ Safepoint(m) \/ Leave(m)
  \/ Deactivate(m) \/ Reactivate(m) \/ Pause(m) \/ Resume(m)
CollectStep(m) ==
  RequestStop(m) \/ SweepAll(m) \/ AwaitStop(m) \/ StartCollection(m) \/ FinishCollection(m)
TraceStep(t) ==
  \/ TakeRoot(t) \/ Mark(t) \/ Claim(t) \/ Spin(t) \/ TakeTarget(t)
  \/ MarkInPlace(t) \/ Publish(t) \/ Settle(t) \/ Park(t)
MmcNext ==
  \/ \E m \in Mutators :
       \/ Allocate(m) \/ Stop(m) \/ CollectStep(m)
       \/ \E o \in Objects : Drop(m, o) \/ Pin(m, o)
  \/ \E t \in Tracers : TraceStep(t)
  \/ PageOutTick
MmcSpec == MmcInit /\ [][MmcNext]_mmcVars

(***************************************************************************)
(* What must hold between collections                                      *)
(***************************************************************************)
Mutating == \A m \in Mutators : ~At(m, "tracing")
Held == {t \in Threads : HasBlock(alloc[t])}
Lists == space.empty \o space.sweep \o space.partly \o space.full \o space.old
           \o space.targets \o Unavailable(space)
Span(o) == Granules(at[o][1], at[o][2], at[o][2] + SizeOf[o])
LiveSmall == {o \in Small : at[o] # Nowhere}
\* Room that allocators own: bump regions and collected holes
HolesOf(t) ==
  UNION {Granules(h[1], h[2], h[2] + SizeOfHole(h)) : h \in ToSet(alloc[t].holes)}
Region(t) == Granules(alloc[t].block, alloc[t].alloc, alloc[t].sweep)
Chained == UNION {UNION {Granules(h[1], h[2], h[2] + SizeOfHole(h)) : h \in ToSet(c)} :
                  c \in ToSet(space.holes)}
EmptyBlocks == ToSet(space.empty) \cup ToSet(space.targets) \cup ToSet(Unavailable(space))

(***************************************************************************)
(* The metadata is what nofl_space_verify_before_restart checks when a     *)
(* collection ends, at any time the mutators run: an object has its extent *)
(* and, if it was there when the last collection began, that collection's  *)
(* mark; blocks that count as empty have no metadata at all, and, known to *)
(* be zero, no contents (nofl-space.h:1457-1589).                          *)
(***************************************************************************)
Verified ==
  /\ \A o \in LiveSmall :
       /\ ByteAt(at[o]).mark \in {Young, space.current}
       /\ \A k \in at[o][2] .. at[o][2] + SizeOf[o] - 1 :
            space.meta[at[o][1]][k].end = (k = at[o][2] + SizeOf[o] - 1)
  /\ \A b \in EmptyBlocks :
       /\ \A g \in Offsets : space.meta[b][g] = Blank
       /\ b \in space.zero => \A x \in space.dirty : x[1] # b

(***************************************************************************)
(* Live objects do not overlap, and no memory that can be handed out, by   *)
(* any allocator, hole set or list, holds one or is on offer twice; what   *)
(* an allocator bumps into, or keeps as a hole, is zero.  Lazy sweeping,   *)
(* hole sets and evacuation all give memory away                           *)
(* (nofl-space.h:744-949, nofl-holeset.h).  And the metadata says so.      *)
(***************************************************************************)
NoflApart ==
  Mutating =>
    /\ \A o, p \in LiveSmall : o # p => Span(o) \cap Span(p) = {}
    /\ \A o \in LiveSmall :
         /\ Span(o) \cap Chained = {} /\ at[o][1] \notin EmptyBlocks
         /\ \A t \in Threads : Span(o) \cap (HolesOf(t) \cup Region(t)) = {}
    /\ \A t, u \in Threads :
         /\ HolesOf(t) \cap (Region(u) \cup Chained) = {}
         /\ t # u => HolesOf(t) \cap HolesOf(u) = {}
    /\ \A t \in Threads : (Region(t) \cup HolesOf(t)) \cap space.dirty = {}
    /\ Verified

(***************************************************************************)
(* Every block is in one list or with one thread, and the blocks in use    *)
(* are what the heap's size leaves beside the large objects, once what is  *)
(* pending is settled (nofl-space.h:1640-1660, 2012-2077, mmc.c:510-523).  *)
(***************************************************************************)
AskedFor ==
  BytesOf({want[m] : m \in {k \in Mutators : want[k] \in Large}})
NoflAccounted ==
  /\ BlockGranules * Active(space) - space.pending
       = BlockGranules * Active(SpaceOf(HeapSize)) + (size - HeapSize) - largeBytes - AskedFor
  /\ Len(Lists) + Cardinality(Held) = Cardinality(DOMAIN space.meta)
  /\ ToSet(Lists) \cup {alloc[t].block : t \in Held} = DOMAIN space.meta

(***************************************************************************)
(* Tracers that meet at an object make one copy of it, and when the        *)
(* mutators go on every root holds the object where it is now.             *)
(***************************************************************************)
EvacuatedOnce ==
  /\ \A o \in Small : copies[o] <= 1
  /\ ~collecting => \A o \in Objects : slot[o] = All(o, at[o])

(***************************************************************************)
(* An object that is pinned stays where it is while somebody holds it      *)
(* (nofl_space_pin_object, nofl_space_should_evacuate).                    *)
(***************************************************************************)
PinnedStays ==
  [][\A o \in LiveSmall :
       ByteAt(at[o]).pin /\ at'[o] # Nowhere => at'[o] = at[o]]_mmcVars
===================================================================================
