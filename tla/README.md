# Specifications of F++

F++ is an F#-like language. Its compiler is written in F# (`src/src/Fpp.Compiler`), its
native programs run on a small C runtime (`src/runtime`) over a vendored moving garbage
collector (Whippet, `src/runtime/gc`), and its library is written in F++ itself
(`src/stdlib`). This directory holds TLA+ models of the parts of that system whose
correctness depends on what happens in which order, the TLC configurations that check
them and the TLAPS proofs about them. Paths below are relative to `src/`.

## Inventory

| component | state it keeps | operations | what is hard about it |
|---|---|---|---|
| Collector handshake: `runtime/gc/src/mmc.c`, `fpprt.c:366-392` | `collecting`, three mutator counters, two condition variables | attach, detach, park, unpark, safepoint, collect | everyone's order against everyone's; lost or early wake-ups |
| Worker pool: `runtime/fpprt.c:394-495` | the posted job, a cursor, a generation number, a count of threads inside | dispatch; workers wait, grab, leave | fan-out and join over condition variables, by threads that are also mutators |
| Phased dispatch: `runtime/fpprt.c:497-626` | a table of groups: slice, phase, cursor, live chunks | dispatch, grab, retire, yield | barriers without blocking |
| Identity hashes: `runtime/fpprt.c:33-86, 296-360` | a table keyed by address, of ephemerons | ask, rehash | objects move, threads race to be the first to ask |
| Monitors: `runtime/fpprt-lang.c:1768-1847` | a mutex, an owner and a depth per identity hash | enter, try, exit, is-entered | racy reads of owner and depth; a blocked entry is parked |
| Uniqueness query: `runtime/fpprt.c:628-725` | a mark set and a work list | count edges up to 2 | every edge kind has to be followed |
| Parallel bridge and library: `runtime/fpprt-lang.c:1849-1902`, `stdlib/prelude.fpp:6054-6190` | closures in frame slots, result arrays | for, phased, map, scan, choose | closures move during a chunk |
| Exceptions: `runtime/fpprt-lang.c:531-561`, `fpprt-lang.h`, `CEmit.fs` | a chain of handlers, the shadow stack, the exception at hand | try, raise, match, re-raise | one jump leaves many calls and handlers; objects move meanwhile |
| Structural equality, order, hash: `runtime/fpprt-lang.c:569-762, 1575-1646` | none; identity hashes | equals, compare, hash | one number in three forms; identity that must not depend on addresses |
| Closures, printing, conditional weak table: `runtime/fpprt-lang.c` | values | apply, format, lookup | recursion over data |
| Async: `stdlib/prelude.fpp:5914-6052` | ready queue, timers, channels, cancellation tree | post, step, send, receive, sleep, all | what runs between two suspensions |
| Futures, workers: `stdlib/prelude.fpp:1360-1435, 5319-5375` | callbacks, a worker's requests | resolve, await, post, terminate | answers after a terminate |
| Semispace collector: `runtime/gc/src/semi.c` | two regions, a limit, pages stolen from them | allocate, collect, resize | large objects and regions share one budget |
| Large object space: `large-object-space.h` | a tree, a map, a quarantine by size | allocate, mark, sweep, reuse | dead objects are given out again whole or in part |
| Ephemerons, finalizers: `gc-ephemeron.c`, `gc-finalizer.c` | lock-free lists: pending by key, resolved, fired | trace, resolve, sweep, pop | the key is marked while the ephemeron is published |
| Parallel tracer: `parallel-tracer.h`, `shared-worklist.h`, `root-worklist.h` | a deque per worker, a count of active ones, their locks | push, pop, steal, park, terminate | stealing the last element; deciding that nothing is left |
| Parallel copying collector: `pcc.c`, `copy-space.h`, `fpprt-embedder.h` | blocks in lists, a budget, forwarding words | allocate, stop, evacuate, page out, resize | three parties move blocks between lists; two tracers meet at one object |
| Mostly-marking collector: `mmc.c`, `nofl-space.h`, `nofl-holeset.h` | blocks, a byte per granule, hole sets, an evacuation reserve | sweep and allocate, mark, evacuate, pin, shrink and grow | lazily swept memory changes hands |
| Trees and maps of addresses: `splay-tree.h`, `address-map.h` | a splay tree, a Robin Hood table | insert, remove, look up | lookups restructure; removal shifts entries back |
| Other collectors, platform: `bdw.c`, `gc-platform-gnu-linux.c` and others | | | another library, system calls |
| Query engine: `src/Fpp.Compiler/Query.fs` | memo table with three revisions per entry, a stack of dependency lists | set input, memo, ensure, recompute | a stale answer that looks valid |
| Workspace, LSP server: `Workspace.fs`, `Fpp.Lsp/Server.fs` | the clients of the query engine | edit, diagnose, build | which inputs a query reads |
| Packages: `Pkg.fs`, `Project.fs` | a candidate assignment | version order, ranges, solve, preprocess | backtracking over data |
| Lexer, parser, inference, lowering, back ends: the rest of `src/src` | syntax trees | one batch translation | pure functions over large data |

They interact as follows. Compiled code calls the runtime. Every OS thread of a program is
a mutator of the one heap; it attaches, polls (the compiler emits a poll at each loop
back-edge), and parks around every blocking wait. A worker of the pool is such a thread:
it is parked while it waits for a dispatch, the caller is parked while it joins. A phased
dispatch is a kernel of a plain dispatch whose "indexes" are home groups. A monitor finds
its mutex through the identity hash of the object, and parks while it waits. The async
library is single-threaded and runs on whatever thread drives the loop.

A program is linked with one of three collectors: `semi` (one mutator: wasm, phones), `pcc`
(the default) or `mmc` (where objects are pinned). `pcc` and `mmc` share the handshake in
outline; `StopWorld` follows `mmc`, `Pcc` has its own. All three use the large object space
and the ephemerons; `pcc` and `mmc` trace with the parallel tracer. What the tracer finds it
hands to the space, which copies, marks or evacuates it through the forwarding word that the
runtime keeps in each object's tag.

What makes each part correct, in short: the handshake stops the world and loses no
wake-up; a dispatch runs every index exactly once (per phase) and returns; an object has
one identity hash wherever it moves; a lock excludes and nests; an answer of the uniqueness
query is honest; continuations run once, in order and never under a cancelled scope; a
query answers as if nothing had been kept; a file is checked in its project's order with
the editor's text; a raise lands in a live handler with that handler's roots; equality,
order and hash agree and outlast a move. A collection keeps what can be reached, once, with
its references; no memory is given out twice, and the heap keeps to the size it decided on;
an ephemeron's value lives just when its key does; tracing ends, and not before everything
is traced. `PROJECT.json` lists the hazards, line by line, and the properties that
are for each.

## Modules

| module | models | composes |
|---|---|---|
| `StopWorld` | the handshake of `mmc.c` | |
| `Pool` | the plain dispatch and the workers | extends `StopWorld`: a pool thread's calls into the collector are that module's actions |
| `PhasedWork` | what a dispatch promises its caller: no threads, no cursors | implemented by `Phased` and by `Pool` |
| `Phased` | the phased dispatch | uses the plain dispatch through its contract |
| `IdHash` | the table of identity hashes, and a collector that moves, kills and reuses addresses | extends `StopWorld` |
| `Monitor` | recursive locks | extends `StopWorld` |
| `Unique` | the uniqueness query | |
| `AsyncLoop` | tasks, the event loop, a channel, cancellation | |
| `QueryDb` | the query engine | |
| `Lsp` | the documents and files of workspace and language server | |
| `Exceptions` | handlers, the shadow stack, raise and re-raise | |
| `Structural` | equality, order and hash of values, while the collector moves them | |
| `LargeSpace` | the large object space, as operators on a record | used by `Semi` |
| `Semi` | the semispace collector, with ephemerons and weak references | extends `LargeSpace` |
| `Weak` | ephemerons and finalizers under several tracers | |
| `Tracer` | the parallel tracer and its deques | |
| `CopySpace` | the block-structured copy space, as operators on a record | |
| `Pcc` | the parallel copying collector | extends `CopySpace` |
| `NoflSpace` | the mark space with lazy sweeping, as operators on a record | |
| `Mmc` | the mostly-marking collector | extends `NoflSpace` |
| `SplayTree`, `AddressMap` | the two indexes | |
| `MC...` | the instances TLC checks | `MCThreads`, `MCPrograms` and `MCCollector` each put several models into one run |
| `PoolProofs`, `PhasedProofs`, `PccProofs` | theorems and their proofs | each extends the module it is named after |
| `TracingProofs` | the same for two collectors that follow references: the parallel tracer, then the semispace collector | extends `Tracer` and `Semi` |
| `WeakSteps`, `WeakProofs` | the same for `Weak`: the invariant and what each step does to the workers' operations; then that it is kept | `WeakProofs` extends `WeakSteps`, which extends `Weak` |
| `ProgramsProofs` | the same for three sequential models | extends `Unique`, `Lsp` and `Exceptions` |
| `ThreadsProofs` | the same for the handshake, for what a thread asks about one object, its hash and its lock, and for the event loop | extends `IdHash` and `Monitor`, which both extend `StopWorld`, and `AsyncLoop` |

Models that share nothing at run time, but are checked together, are put beside each other
by a variable `which` that is chosen at the start and never changes: a behaviour of
`MCThreads` is one of the bare handshake, of the identity hashes, of the monitors or of the
event loop, and the other models keep their initial state. An invariant of one model then
holds in the others' behaviours as it does initially, and costs nothing there. A fairness
condition of the sum is the disjunction of one condition of each kind: as only one disjunct
can ever be enabled in a behaviour, it says the same as the condition of that kind alone.

### How the models correspond to the code

A variable has the name of the code's variable where there is one; an action has the name
of the function, or of the step of it that it stands for. Operators whose comment begins
with "mutant:" are not part of a specification: they are plausible mistakes in the
definition that follows them, which the named property was seen to catch.

* **`StopWorld`.** `mut[t]` is where thread `t` is: detached, running, parked, or inside one
  of the handshake's functions. The heap's mutex is held from the call to the wait, so each
  stretch between two waits is an action. Condition variables are the set `asleep` and the
  flag `ctrlAsleep`; a wait may return spuriously (`SpuriousWake`).
* **`Pool`.** Every thread has a program counter over the stretches of `pool_main_`,
  `pool_work_` and `fpp_pool_dispatch` between lock, wait and atomic operations; `pool_cursor_`
  wraps above `IntMax`, standing for the width of `int`.
* **`Phased`.** `groups` is the static table, one record per group; a thread's step is a scan
  (`FirstRunnable`), a grab, a kernel call, a retirement, or a yield. The table's mutex makes
  `phased_grab_` and `phased_retire_` atomic.
* **`IdHash`.** The table is keyed by an address that is read through `addr`, because the
  collector updates an ephemeron's key when it moves the object; the bucket an entry sits in
  is what goes stale. `Finish` is the end of a collection: any survivors anywhere, then the
  rehash, then the threads go on.
* **`Monitor`.** `depth` and `owner` are plain fields read without the mutex: a data race,
  so `ReadDepth` may see anything unless the reader holds the mutex. `ReadOwner` may be stale
  but never shows the reader itself unless it wrote that last.
* **`Unique`.** The heap is an arbitrary graph, fixed while the query runs. `seen` and `work`
  are sets.
* **`AsyncLoop`.** `cur` is who runs. A task's body is any sequence of the actions guarded by
  `cur = t`. The code's reversed lists are sequences, oldest first. Values are numbered in the
  order of the sends, and `Receive` calls in the order of the calls. The walk up a scope's
  parents (`prelude.fpp:5933-5935`) is the set of the scopes below a cancelled one, `Below`, and
  the timers that a step leaves are the entries at the other positions, `Kept`: neither needs
  a recursive operator, so the model can be proved about.
* **`QueryDb`.** Computations call back into the engine, so the members of `Db` are recursive
  operators from one `Db` to the next, with the value or the exception beside it. What a query
  computes is a constant, its `Script`; `Truth` runs the same script on the inputs alone.
* **`Lsp`.** One action per message. A text is the version somebody wrote; which of its
  lines the manifests' symbols blank is left out.
* **`Exceptions`.** `stack` is what is active: calls with their frames, bodies of tries with
  their handlers, clauses. `longjmp` cuts it at the handler. `fpp_exn_` is an address, and
  `Collect` changes where exceptions are; a frame's slot is kept up to date, `fpp_exn_` is not.
* **`Structural`.** A value is a record of kind, number, parts and identity. Floats are counted
  in halves, so that a fraction can be dropped. Programs pick values of one type one by one
  while moves come between them, and every answer that was given has to stay true. NaN is
  left out (see below).
* **`Semi`.** The heap is `store`, from addresses to objects; a collection is a sequence of
  steps over an agenda of edges. `id`, `groots` and `gfields` are the same heap as the program
  sees it; what lives (`LiveNames`) is the least set of names that holds the roots' and is closed
  along fields, an ephemeron's value counting when its key does. The sizer's square root of
  the live size is the constant `Headroom`.
* **`Weak`.** Marking is one step; the lists of ephemerons and finalizers are pointers, and
  each load and compare-and-swap is a step. A worker's program is a stack of operations.
  Following a list takes a step for each dead node it skips, each compare-and-swap that takes
  one out, and the load it ends with; tracing a list of resolved ephemerons takes a step for
  each node. What lives is the least set that is closed under edges and ephemerons.
* **`Tracer`.** Each access of a deque's `top`, `bottom`, active buffer and cell that another
  thread can see is a step; `pthread_mutex_trylock`, parking and waking as in the code, with
  spurious wake-ups. Memory is sequentially consistent.
* **`CopySpace`, `Pcc`.** A space's lists are sequences of blocks; whatever the code does under
  the space's lock is one operator. `Pcc` adds the mutators, tracers and the background
  thread, and writes each word of the forwarding protocol in a step of its own. Objects have
  no fields here: `Tracer` and `Semi` are about following them.
* **`NoflSpace`, `Mmc`.** One metadata byte per granule, as a record of mark, end and pin bits.
  An allocator is a block with its two pointers and its hole set. How far the sizer grows the
  heap is a choice among `Growths`.
* **`SplayTree`, `AddressMap`.** The tree is three functions (root, left, right) with the
  assembly node as in the code; the table is its slots, past whose home an entry is
  displaced. `spans` and `content` are what a map should hold.

## Runs

| run | instance | what it shows |
|---|---|---|
| `phased` | 3 threads, a table of 3 groups, dispatches of several shapes (uneven slices, more groups asked for than there are indexes or room, a default chunk, one global group, nothing to do) | group barriers, exact live counts, refinement of `PhasedWork`, termination |
| `pool` | caller and 2 workers, 2 dispatches, 2 collections | each index once (refinement of `PhasedWork`), the join waits for all, no deadlock with the collector |
| `threads` | *bare*: 3 threads, 3 collections; *hashes*: 2 threads, 2 objects, 2 addresses, 2 collections, a table that starts with one bucket; *monitors*: 2 threads, 2 locks, nesting 2, 1 collection; *async*: main and 2 tasks, a root and a child scope, 2 sends, 3 receives, sleeps of 1 and 2 | stopped worlds, exact counters, no lost wake-up; one hash per object, found at its present address; mutual exclusion and correct nesting; no continuation twice or never, FIFO, cancellation; every collection ends, queued work runs |
| `programs` | *queries*: 2 inputs of 3 values, 4 queries that share, branch and raise, 4 revisions; *documents*: one project of 3 files, one of them above no manifest, and a file of no project; *unique*: every graph of 3 objects with 2 fields and 2 statics; *values*: 10 types, any 3 values of one, moves between; *exceptions*: 5 nested activations, 2 payloads, a move | answers as if computed afresh, early cutoff; buffers kept; an honest 0; equality, order and hash agree; raises land right |
| `collector` | *semi*: 3 objects, 2 slots, 2 collections, a heap of 2 pages that may grow to 6; *weak*: 2 workers, 2 ephemerons of one bucket, 2 finalizers, 8 shapes of heap; *tracer*: 2 workers, 4 objects, deques of 2 that grow to 4, 2 rounds, a spurious wake-up; *tree*: spans of 8 addresses; *map*: 7 keys, 3 of which share a home and 3 the last slots | same graph before and after, budgets, refusals only when grown; what is marked is what lives, finalizers once; nothing left untraced; lookups right; every collection ends |
| `pcc` | 2 mutators, 2 tracers, 2 small objects and a large one, a heap of 3 blocks, 1 collection | objects apart, blocks and budget accounted for, one copy each |
| `mmc` | 2 mutators, 2 tracers, 2 small objects and a large one, 3 blocks of 3 granules that may become 4, 3 collections in the smaller instances | no memory given away twice, blocks accounted for, one copy each, pinned objects stay |
| `querydb_early` | as *queries*, first computations may raise | **violated**: a query without a value is taken for valid |
| `unique_pods` | 2 objects, with struct arrays | **violated**: an answer 0 that is not honest |
| `lsp_order` | two projects | **violated**: the order of the first after the second was opened |
| `semi_limit` | as *semi*, 3 collections | **violated**: live data above the limit |
| `rethrow` | 6 nested activations, 2 moves | **violated**: an outer handler gets an address that was left |

Two threads are enough for what two can do to each other; the handshake and the dispatches
have a third because a thread that neither waits nor is waited for is where they could go
wrong (a collector, a thread it waits for, and one that joins or returns meanwhile). Three
collections let a thread that sat out the first be overtaken by the second and ask for a
third. Two objects on two addresses are the least in which one can take the place of the
other. Main and two tasks are a sender and two receivers, one of them cancelled. Two
dispatches are the least in which a slow worker meets the next generation. Two nested locks
of nesting 2 contain the outermost, the inner and the crossed exit. Three objects contain a
chain to the target, a cycle beside it and one through it. Four revisions let a query be
computed, become stale by a branch, be cut off, and become stale again. Five activations
contain two functions, two tries and a raise inside a guard. In the collectors two
ephemerons are the least that can wait for each other and share a list that both workers
edit; four objects with a diamond make a deque grow while it is robbed and one object reach
two workers; blocks of three granules leave holes too small for some object and large enough
for another, and the heaps are small enough that the budget is hit and large enough to grow
or shrink. One collection of `pcc` starts from every state that its mutators reach, and ends
in every state its list operations reach; `mmc` has up to three, because a block is chosen
for evacuation only after it survived. Bounds are in guards and named in the modules as such.

Runs say `CHECK_DEADLOCK FALSE` where the program may stop: a query that was answered, a
bound that was reached, a heap that is exhausted, two threads of the program that wait for
each other's locks.

### Fairness

* A thread inside the runtime is scheduled: weak fairness of its steps.
* A running thread polls: the compiler emits a safepoint at each loop back-edge, so weak
  fairness of `Safepoint` in `StopWorld`. Where a thread also makes calls during which it
  does not poll, strong fairness: it is in user code, and polls there, again and again.
* A thread inside `fpprt_idhash` is scheduled (`HashStep`): it gets `idh_lock_` once that
  stays free, but may be overtaken as long as others keep taking it. A monitor's mutex has
  no fairness at all: `CollectionEnds` in *monitors* is about collections only, since a
  program need not leave a lock.
* The collecting thread, each tracer and each helper of the parallel tracer is scheduled: weak
  fairness of its next step. Nothing makes a program allocate. `pcc` and `mmc` state safety
  only.
* In `AsyncLoop` the driver is a loop (`LoopStep`), a task binds something or ends
  (`TaskStep`), time passes (`Tick`). Nothing makes a program start or cancel anything.

## Theorems

Checked by TLAPS, for every value of the constants (the assumptions named in the modules):

* `ThreadsProofs`, the handshake: `HeapTypeOK`, `WorldStopped`, `CountersAgree`, `NoLostWakeup`, for any
  finite set of threads. The inductive invariant joins them with two facts that none of them
  implies: while a collection is wanted somebody controls it and only one thread does
  (`Controlled`), and once the controller has seen the world stopped it stays stopped
  (`StaysStopped`: whoever could run needs `collecting` to be false). `WorldStopped` follows
  from the last by counting: the counters are the sizes of disjoint sets of threads, and if
  the sum of two equals the third, no thread is left over.
* `PhasedProofs`: `TypeOK`, `Lockstep`, `LiveAccounting`, `SpinIsJustified`, for any number of
  threads, table size, groups and phases. The invariant ties a group's cursor and live count
  to the chunks that threads hold; a group advances exactly when the last chunk retires, so
  nobody holds a chunk of an older phase. `PhasedRefines`: every behaviour of the phased
  dispatch is one of `PhasedWork`, under the mapping the run `phased` checks. Two more
  invariants make a retirement the abstract `Phase` step: what a phase has worked is the
  group's indexes below its cursor, less the chunks still held (`CoverInv`), and what a thread
  has worked of the chunk it holds is its part of that (`WorkedInv`). That the scan finds the
  first runnable group needs the least element of a set of numbers (`LeastNumber`).
* `PoolProofs`: `PoolRefines`, every behaviour of the plain dispatch is one of `PhasedWork`, for any
  number of workers, and any ranges and chunks with `Room` for the cursor. The invariant counts
  threads: `active`, which the join waits for, is the number of workers that owe the current
  generation an answer (`Owing`), so the caller leaves the join when none is left to touch the
  job; and the cursor is past the end by at most one chunk for each thread that has seen
  the end (`Past`). `Room` is that last sum staying below `IntMax`. The code does not make sure
  of it, so it is a hypothesis of the theorem and not of the model; where it fails the
  cursor wraps (see below). The run satisfies it.
* `ProgramsProofs`: `UniqueTypeOK`, and `HonestUnique` for heaps without struct arrays and stack
  structs. The marking invariant: what is marked and no longer in the work list has been
  scanned, its references are marked, and if the count is 0 none of them is the target. When
  the list is empty the marked set is closed, so it contains every reachable object.

  `UnwoundToLive`, for any nesting. `top` and `handlerTop` are the innermost activations of
  their kinds: what is pushed is the innermost, and when it is popped its `prev` is the next;
  `longjmp` leaves only what was there when the handler was pushed.

  `BufferIsTruth`, for any files, projects and contents, if each project lists files of its
  own, or there is only one (`SourcesAreOwn`). Opening a file loads its project, which is
  not loaded again, so in the first case no later load names the file; in the second, a file
  that is open before the only project is loaded is in the list, and what is in the list is
  not read from disk.
* `ThreadsProofs`, the event loop: `ResumedOnce`, `ReceivesInOrder` and `LostOnlyToCancelled`, for any tasks,
  scopes, delays, and numbers of sends and receives. A continuation is held in one of four
  places: the batch of the current step, the ready queue, the timers, the channel's
  waiters. The invariant counts its occurrences in all of them: one for a task that is
  suspended, none for one that runs or is done. Each action moves a continuation from one
  place to another, and the lemmas about counting say what appending, taking the first and
  taking out the due timers do to the sums. The channel is the distance between sends and
  receives: of its buffer and its waiters one is empty, the buffer holds the values that no
  receive has claimed and the waiters the calls that no value has reached, both in a row.
  `CancelledAsAsked` says that `Below` is what the code's walk over the parents computes.
* `ThreadsProofs`, identity: `OneHashEach` and `TableAgrees`, for any threads, objects, addresses and size
  of the table. The invariant of the handshake is used as a lemma: a call that has read an
  address and has not searched yet is in a running thread, so no collection has the world
  stopped, and the address is still its object's. What was answered stays in the table as
  long as the object lives, and the table has one entry for each object; so an answer that is
  found is the earlier one, and a new one is given only to an object that had none.
  `MutualExclusion`, for any threads, locks and nesting, if the markers for "no
  owner" and "no lock" are not threads and locks (`NobodyAssumption`). Every thread is, for
  every lock, its `Holder` (it has the mutex, and `owner` and `depth` are as far as its place in
  the code has written them) or a `Stranger` (not inside, and nobody takes it for the owner).
  A racy read of `owner` can tell a stranger only that it is not the owner.
* `TracingProofs`, the tracer: `RoundIsDone`, for any number of workers, any heaps and rounds, buffers of any
  size (each twice the one before, as the code makes them), and any number of wake-ups that
  nobody caused. The invariant has these parts.
  - `Deques`: a deque's elements are those from `top` to `Rear` (one less than `bottom`, except
    while its owner takes the last one out), and they fit its buffer, so no two of them share a
    cell (`CellsApart`). `Thieves`: what a thief has read is the element at the top as
    long as the top is where the thief saw it, because a buffer that was left for a larger one
    is not written any more and the owner does not write the top's cell. So the
    compare-and-swap hands each element to one worker.
  - `Tasks`: an object that is marked and not traced is in one place, an index of one deque or
    the hand of one worker; a traced one is in none, and was traced once.
  - `Followed`: the successors of what was traced, and the roots that were taken, are marked or
    about to be visited; a worker that stopped reading roots has read them all.
  - `Locks`, `Counted`, `Done`: a helper that touches the heap holds its own lock; worker 0 has
    the locks it has taken in its check; the count of active tracers is that of the workers
    that trace; when worker 0 has all locks the deques are empty and nobody holds an object.
    Then the marked objects are closed under the heap's references.

  Memory is sequentially consistent, as in the model. A deque that outgrows the largest buffer
  ends the program in the code, and is stuck in the model. Every part was checked by TLC on the
  instance of `collector` before it was proved.
* `TracingProofs`, the semispace collector: `SameGraph`, `BudgetKept` and `RefusedWhenGrown`, for any
  finite set of roots, any sizes of large objects, page size, headroom and limit of the system,
  and an initial size of an even number of pages (`SemiAssumption`). None of the three is inductive:
  each speaks of the collector at rest. The invariant `Inv` says what holds in the midst of a
  collection too.
  - `LosInv`: the large objects' extents are disjoint and the counters are sums over them; a node
    has the mark of this cycle or none when a collection begins, so the toggle unmarks all; while
    one runs, `liveAtLast` is the pages that are marked so far; pages stolen and pages that were not
    (`unstolen`) are together those of the live objects.
  - `LayoutInv`: both regions have one size, the heap's less what was stolen, halved, and `hp` is
    below the limit. It is void where survivors did not fit (`overrun`, the finding below).
  - `StoreInv`: what is in the region allocated from is an unbroken stretch up to `hp`, the
    large objects are those of the space, and outside a collection nothing else is left.
  - `GraphInv`: each object names one object of the program; in a collection an object may be there
    twice, as the original and its copy, but once on each side.
  - `TraceInv`: the copies are what forwarding addresses lead to, one for each; behind the finger
    every edge is to a copy or a marked object, or on the agenda, or waits with an ephemeron; the
    pending ephemerons' keys do not live once they are looked for, so that a key is
    cleared only when nothing is left that reaches it.
  - `ExactInv`: only what lives was copied or marked. With `TraceInv` what was copied, when
    the agenda is empty, is closed, so it is what lives (`LiveNames` is the least closed set).
  - `WantInv`, `GrowInv`: a request that waits has all its parts; the second collection for one begins
    with nothing dead in the heap, so its live size is that of the first, and it grows the
    region that the first could not because it was being copied from.

  Every part was checked by TLC on the instance of `collector` before it was proved.
* `PccProofs`: `CopiedOnce`, for any mutators, tracers, objects, sizes, blocks and numbers of
  collections, also where the program died for want of memory in mid-evacuation. While
  the collector evacuates, every mutator is in the set of the paused or of the inactive ones:
  they count as many as there are, as in `StopWorld`. An object's forwarding word goes from
  the tag to busy to the new address, and while it is busy one tracer owns it; an object is
  copied by the tracer that made it busy and by no other; a root is still to be traced, in the
  hand of one tracer, or holds what it should. It assumes that mutators
  and tracers, and small and large objects, are told apart.

* `WeakSteps` and `WeakProofs`: `MarkedIsAlive` and `FiredOnce`, for any tracers, heap and buckets, and finite sets of
  ephemerons and finalizers (`WeakAssumption`). The invariant has these parts.
  - `QueuedOnce`, `Claimed`, `Pushed`: an object is queued once and traced once; one worker at most
    has claimed an ephemeron, one at most is pushing it, on the list its state says.
  - `ResolvedIn`: the list of resolved ephemerons and the one being traced are disjoint, and
    hold exactly what is resolved and in nobody's hand.
  - `RankedBy`: number the ephemerons by when they were put in the buckets. Every link of a list
    leads to a smaller number, and passes over no ephemeron that is still pending; the same holds
    for the place where a worker is in its walk. Therefore a list can lose only what is
    resolved, whatever the compare-and-swaps of the workers that follow it do to each other.
  - `Cares`, `Toward`, `Recheck`: for every pending ephemeron whose key is marked somebody is bound
    to come to it: a worker that still has to look up the key's bucket, or is on its way to it
    through the list, or the one that published it and has yet to look at the key again. This
    is the race of `gc-ephemeron.c:514-523`, and the reason for the second look.
  - `Tricolor`, `RootsKept`, `OnlyAlive`: what was traced has its edges marked or queued; the roots are
    marked; nothing is marked that does not live.
  - `IsFired`, `Tables`: what fired is in the fired list or was handed out, once; the tables hold
    the rest.

  When a round has nothing left to do, the marked set is closed and therefore is what lives
  (`QuietAlive`). Memory is sequentially consistent, as in the model. The invariant was checked by
  TLC on the instance of `collector` before it was proved.

`TypeOK`, `SpinIsJustified`, `HeapTypeOK` and `UniqueTypeOK` were checked by TLC before they
were proved, and have no run of their own any more.

Only model-checked: all liveness (`RoundsEnd` of `Tracer` among it), the properties of `QueryDb`,
`Structural`, `SplayTree`, `AddressMap` and `Mmc`, and of `Pcc` the layout of the space, `ObjectsApart` and `BlocksAccounted`. `QueryDb`, `Structural`, `SplayTree`,
`AddressMap`, `NoflSpace` and `Mmc` use recursive operators, which the prover does not support.

## Where the code differs from what it says

`PROJECT.json` ("findings") quotes the lines; a run shows each.

1. A query whose first computation raised answers null for ever (`Query.fs:113`): run
   `querydb_early`.
2. The uniqueness query does not follow references from struct arrays and stack structs
   (`runtime/fpprt.c:720`, `:682`): run `unique_pods`.
3. With two projects open, the first one's files lose their order (`Server.fs:78`): run
   `lsp_order`.

4. A large object for which no room was left is allocated without taking its pages from the
   regions, and a later collection may find more live data than the regions' limit
   (`runtime/gc/src/semi.c:508`, against the assertion at `:352`): run `semi_limit`.
5. An exception that no clause matched is handed on through `fpp_exn_`, which no collection
   keeps up to date; the frame's slot has the right address (`runtime/fpprt-lang.c:561`,
   `runtime/fpprt.h:23-24`): run `rethrow`.

The other runs leave the causes out in a way that says so: `FirstRunsSucceed` in `QueryDb`,
`Kinds` in `Unique`, the number of projects in `Lsp`, and `unstolen` in `Semi`, by which
`BudgetKept` is stated. `UnwoundToLive` is about where a raise lands, `CaughtIsRaised` about
what arrives there.

More was met while modelling and has no standing run. In the runtime and the library:

* A dispatch whose range ends within threads * chunk of the largest `int` wraps the shared
  cursor, which every grab advances, and its kernel is called outside the range
  (`runtime/fpprt.c:430`). `Pool` has the wrap (`Wrap`, `IntMax`); the run's ranges end below.
* Due timers fire in the order they were set, not by due time, when two of them are due by
  the same step (`stdlib/prelude.fpp:5947`; `tests/tooling/asyncloop.fpp:28` says otherwise).
* `fpp_pod_eq` takes a struct with a NaN field for equal to any other, as neither field is less
  (`runtime/fpprt-lang.c:575-576`), where `fpp_eqv` does not; `Structural` leaves NaN out.
* With two projects open, a buffer whose file the second has pushed off the list is read
  from disk when the next project lists it (`Workspace.fs:344`); and a file opened before its
  project stays preprocessed under the old symbols until it is edited.

In the collectors, where the models follow the code and not its comments:

* `max_heap_bytes`, the "hard ceiling" of `runtime/fpprt.h:79`, is read by no collector.
* A `GROWABLE` heap may still refuse in `pcc`: once enough blocks have been paged out for a large
  object, nothing grows for a small one that is left without a block (`pcc.c:876-877`).
  `copy_space_expand` takes a whole slab for a fraction of one.
* `pcc` runs out of memory in the midst of an evacuation by crashing (`copy-space.h:597-607`).
* The debug assertion of `copy-space.h:734`, that a key is not yet in the new region, fails
  where another tracer has updated it (`gc-ephemeron.c:452`) before the second look at `:520`.
* The blocks that wait to be paged out in the mark space never age: the loop ends at the first
  age without blocks, and begins with the oldest (`nofl-space.h:2090-2094`).
* In `mmc` the first collection is always a major one, whatever was asked for, and a mutator
  that waits for a collection keeps the kind it read before it waited (`mmc.c:538`).
* After a compaction the evacuation reserve stays at what the compaction made it until a
  collection that evacuates nothing; an evacuated block keeps its count of holes;
  sweeping at the start of a collection lists a block that turns out to be empty as a full one.

## Not modelled

* Hash values may collide, which would merge two monitors: taken as distinct.
* A kernel, a task or a closure that raises out of the runtime; `pthread_create` that fails;
  dispatches inside dispatches; `runSynchronously` inside a task.
* Generational builds, conservative roots and tracing of a range of words (`semi`, `pcc` and
  `mmc` are modelled as this runtime builds them: precise, in place of a nursery nothing).
  `bdw.c`, the serial tracer, the adaptive sizer and the platform layer are other builds, other
  libraries or system calls.
* Weaker memory orders: `Tracer`, `Weak` and the forwarding protocol of `Pcc` and `Mmc` take
  one step of one thread after another. The fences of the deque are where its source says
  they matter; removing one is nothing these models would notice.
* The conditional weak table (`runtime/fpprt-lang.c:1216-1290`), closures, printing and
  formatting: data within one call.
* The parallel bridge (`runtime/fpprt-lang.c:1849-1902`) and the library over it; futures and
  typed workers; packages; conditional compilation: see the plan.
* The language itself: lexing, parsing, inference, lowering and code generation are pure
  functions over large trees.
* The formats: manifests, packages on disk, the protocol's JSON, the wire format of workers.

## Plan

1. The runtime's threads: `StopWorld`, `Pool`, `Phased` with `PhasedWork`, `IdHash`, `Monitor`,
   and the proofs of `StopWorld` and `Phased`. *Done.*
2. The library and the compiler's state: `Unique` with its proof, `AsyncLoop`, `QueryDb`,
   `Lsp`. *Done.*
3. The collectors: `Semi` over `LargeSpace`, `Weak`, `Tracer`, `Pcc` over `CopySpace`, `Mmc` over
   `NoflSpace`, and the indexes `SplayTree` and `AddressMap`. *Done*, as far as "Not modelled"
   says.
4. What the language asks of the runtime: `Exceptions`, `Structural`. *Done.*
5. Next, in this order: raising kernels and tasks, nested drivers, timers by due time (`Pool`,
   `AsyncLoop`); the parallel bridge over `Phased` and object moves; the package solver as a
   function against all solutions of small universes; conditional compilation by what it
   keeps of a text; futures; the conditional weak table; `Lsp` over `QueryDb`, for what is
   read outside the engine.
6. Proofs: `MutualExclusion` of `Monitor` and `OneHashEach` of `IdHash` over the theorems of
   `StopWorld`, `BufferIsTruth` of `Lsp`, `UnwoundToLive` of `Exceptions`, both refinements of
   `PhasedWork`, the properties of `AsyncLoop`, `RoundIsDone` of `Tracer`, `CopiedOnce` of `Pcc`,
   `MarkedIsAlive` and `FiredOnce` of `Weak`, `SameGraph`, `BudgetKept` and `RefusedWhenGrown` of `Semi`:
   *done*. Next, in this order: `EvacuatedOnce` of `Mmc`, after the recursive operators of
   `NoflSpace` are made functions; `ObjectsApart` of `Pcc`.
