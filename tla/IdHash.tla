-------------------------------- MODULE IdHash --------------------------------
(***************************************************************************)
(* Identity hashes, runtime/fpprt.c:33-86 and 296-350.  An object has no   *)
(* room for a hash, so the first fpprt_idhash assigns one and files it in  *)
(* a table under the object's address.  The collector moves objects and    *)
(* has the table rehashed before it lets the mutators go on; entries of    *)
(* objects that died are dropped then.                                     *)
(*                                                                         *)
(* The threads are mutators of module StopWorld.  An entry of the table is *)
(* an ephemeron: the collector keeps its key the current address of its    *)
(* object, so an entry names the object and its key is read through addr.  *)
(* A bucket's chain is a set.  The code's hash values are the upper bits   *)
(* of a congruential sequence; here they are 1, 2, 3, ..., which leaves    *)
(* out that two objects may be given the same one.                         *)
(***************************************************************************)
EXTENDS StopWorld

CONSTANTS
  Hashers,         \* the threads that ask for hashes
  Objects,         \* the objects a behaviour may allocate, each once
  Addrs,           \* the addresses of the heap, positive
  InitialBuckets,  \* 64 in the code
  LoadFactor       \* 4 in the code

ASSUME HashersAssumption == Hashers \subseteq Threads
ASSUME AddrsAssumption == Addrs \subseteq Nat \ {0}
ASSUME BucketsAssumption == InitialBuckets \in Nat \ {0} /\ LoadFactor \in Nat \ {0}

VARIABLES
  hpc,             \* where each thread is in fpprt_idhash, or "user"
  arg,             \* the object it was called on: its slot in a frame
  raw,             \* the parameter o: that object's address at the call
  idhLock,         \* idh_lock_: its holder, or Nobody
  addr,            \* each object's address, or Unborn, or Dead
  nbuckets,        \* idh_nbuckets_
  buckets,         \* idh_buckets_: sets of entries [obj, hash]
  idhCount,        \* idh_count_
  idhNext,         \* idh_next_
  answers          \* history: what fpprt_idhash has returned for each object

tableVars == <<nbuckets, buckets, idhCount, idhNext>>
hashVars == <<hpc, arg, raw, idhLock, addr, tableVars, answers>>
idVars == <<heapVars, hashVars>>

Unborn == 0
Dead == -1
Nobody == "nobody"
NoObject == "none"

OnHeap(o) == addr[o] \in Addrs

\* idh_bucket_of_
BucketOf(a, n) == a % n

HashTablesInit ==
  /\ hpc = [t \in Threads |-> "user"]
  /\ arg = [t \in Threads |-> NoObject]
  /\ raw = [t \in Threads |-> 0]
  /\ idhLock = Nobody
  /\ addr = [o \in Objects |-> Unborn]
  /\ nbuckets = InitialBuckets
  /\ buckets = [b \in 0 .. InitialBuckets - 1 |-> {}]
  /\ idhCount = 0 /\ idhNext = 1
  /\ answers = [o \in Objects |-> {}]

HashInit == HeapStart(Hashers) /\ HashTablesInit

\* t runs collected code and is at l
At(t, l) == hpc[t] = l /\ mut[t] = "running"

Goto(t, l) == hpc' = [hpc EXCEPT ![t] = l]

Entries == UNION {buckets[b] : b \in 0 .. nbuckets - 1}

\* idh_find_: the entries found under address a
Found(a) == {e \in buckets[BucketOf(a, nbuckets)] : addr[e.obj] = a}

\* idh_rebuild_ of the entries in E into n buckets, keys read through where
Rebuild(E, n, where) ==
  LET live == {e \in E : where[e.obj] \in Addrs} IN
  /\ nbuckets' = n
  /\ buckets' = [b \in 0 .. n - 1 |-> {e \in live : BucketOf(where[e.obj], n) = b}]
  /\ idhCount' = Cardinality(live)

-------------------------------------------------------------------------------
(* fpprt_idhash *)

HashCall(t, o) ==
  /\ At(t, "user") /\ OnHeap(o)
  /\ arg' = [arg EXCEPT ![t] = o]
  /\ raw' = [raw EXCEPT ![t] = addr[o]]
  /\ Goto(t, "lock")
  /\ UNCHANGED <<heapVars, idhLock, addr, tableVars, answers>>

Lock(t) ==
  /\ At(t, "lock") /\ idhLock = Nobody
  /\ idhLock' = t
  /\ Goto(t, "find")
  /\ UNCHANGED <<heapVars, arg, raw, addr, tableVars, answers>>

\* the call returns h; its locals are gone
Answer(t, h) ==
  /\ answers' = [answers EXCEPT ![arg[t]] = @ \cup {h}]
  /\ arg' = [arg EXCEPT ![t] = NoObject]
  /\ raw' = [raw EXCEPT ![t] = 0]
  /\ Goto(t, "user")

\* mutant: the mutex is not released before the allocation
FindHolding(t) ==
  /\ At(t, "find")
  /\ \/ \E e \in Found(raw[t]) : Answer(t, e.hash) /\ idhLock' = Nobody
     \/ /\ Found(raw[t]) = {}
        /\ Goto(t, "alloc")
        /\ UNCHANGED <<arg, raw, answers, idhLock>>
  /\ UNCHANGED <<heapVars, addr, tableVars>>

\* the search of the fast path, under the mutex
Find(t) ==
  /\ At(t, "find")
  /\ idhLock' = Nobody
  /\ \/ \E e \in Found(raw[t]) : Answer(t, e.hash)
     \/ /\ Found(raw[t]) = {}
        /\ Goto(t, "alloc")
        /\ UNCHANGED <<arg, raw, answers>>
  /\ UNCHANGED <<heapVars, addr, tableVars>>

\* the box and the ephemeron are allocated, without the mutex
Alloc(t) ==
  /\ At(t, "alloc")
  /\ Goto(t, "relock")
  /\ UNCHANGED <<heapVars, arg, raw, idhLock, addr, tableVars, answers>>

\* ... which may take a collection, one's own or another thread's
AllocHeap(t) ==
  /\ At(t, "alloc")
  /\ Safepoint(t) \/ Collect(t)
  /\ UNCHANGED hashVars

Relock(t) ==
  /\ At(t, "relock") /\ idhLock = Nobody
  /\ idhLock' = t
  /\ Goto(t, "insert")
  /\ UNCHANGED <<heapVars, arg, raw, addr, tableVars, answers>>

\* a new hash for the object at a, and more buckets when they get crowded
FileUnder(t, a) ==
  LET e == [obj |-> arg[t], hash |-> idhNext] IN
  /\ idhNext' = idhNext + 1
  /\ IF idhCount + 1 > nbuckets * LoadFactor
     THEN Rebuild(Entries \cup {e}, nbuckets * 2, addr)
     ELSE /\ buckets' = [buckets EXCEPT ![BucketOf(a, nbuckets)] = @ \cup {e}]
          /\ idhCount' = idhCount + 1
          /\ nbuckets' = nbuckets
  /\ Answer(t, idhNext)

\* mutant: the table is not searched again after the allocation
InsertAtOnce(t) ==
  /\ At(t, "insert")
  /\ idhLock' = Nobody
  /\ FileUnder(t, addr[arg[t]])
  /\ UNCHANGED <<heapVars, addr>>

\* mutant: the entry is filed under the address the object had at the call
InsertStale(t) ==
  /\ At(t, "insert")
  /\ idhLock' = Nobody
  /\ \/ \E e \in Found(raw[t]) : Answer(t, e.hash) /\ UNCHANGED tableVars
     \/ Found(raw[t]) = {} /\ FileUnder(t, raw[t])
  /\ UNCHANGED <<heapVars, addr>>

\* the second search, by the object's present address, and the insertion
Insert(t) ==
  /\ At(t, "insert")
  /\ idhLock' = Nobody
  /\ LET a == addr[arg[t]] IN
     \/ \E e \in Found(a) : Answer(t, e.hash) /\ UNCHANGED tableVars
     \/ Found(a) = {} /\ FileUnder(t, a)
  /\ UNCHANGED <<heapVars, addr>>

-------------------------------------------------------------------------------
(* The program and the collector *)

New(t, o) ==
  /\ At(t, "user")
  /\ addr[o] = Unborn
  /\ \E a \in Addrs : /\ \A p \in Objects : addr[p] # a
                      /\ addr' = [addr EXCEPT ![o] = a]
  /\ UNCHANGED <<heapVars, hpc, arg, raw, idhLock, tableVars, answers>>

\* between calls a thread polls, or allocates enough to need a collection
UserHeap(t) ==
  /\ At(t, "user")
  /\ Safepoint(t) \/ Collect(t)
  /\ UNCHANGED hashVars

\* Where a collection may leave the objects: those a frame holds survive, the
\* others survive or die, and survivors go anywhere.
Held == {arg[t] : t \in Threads}

Moves ==
  {w \in [Objects -> Addrs \cup {Unborn, Dead}] :
     /\ \A o \in Objects : /\ OnHeap(o) => w[o] # Unborn
                           /\ ~OnHeap(o) => w[o] = addr[o]
                           /\ OnHeap(o) /\ o \in Held => w[o] \in Addrs
     /\ \A o, p \in Objects : w[o] = w[p] /\ w[o] \in Addrs => o = p}

\* idh_on_restarting_mutators_, and the mutators are let go
Finish(t) ==
  /\ FinishCollect(t)
  /\ addr' \in Moves
  /\ IF idhCount # 0 THEN Rebuild(Entries, nbuckets, addr')
                     ELSE UNCHANGED <<nbuckets, buckets, idhCount>>
  /\ UNCHANGED <<idhNext, hpc, arg, raw, idhLock, answers>>

InHandshake(t) == (WaitOver(t) \/ SpuriousWake(t)) /\ UNCHANGED hashVars

HashStep(t) == Lock(t) \/ Find(t) \/ Alloc(t) \/ Relock(t) \/ Insert(t)

IdNext == \E t \in Hashers :
  \/ \E o \in Objects : HashCall(t, o) \/ New(t, o)
  \/ HashStep(t) \/ AllocHeap(t) \/ UserHeap(t)
  \/ InHandshake(t) \/ Finish(t)

IdSpec == HashInit /\ [][IdNext]_idVars

\* A thread inside the runtime is scheduled, and gets a mutex that stays free;
\* one in user code passes a poll again and again, though not between two calls.
IdFairSpec ==
  /\ IdSpec
  /\ \A t \in Hashers :
       /\ WF_idVars(HashStep(t))
       /\ WF_idVars(WaitOver(t) /\ UNCHANGED hashVars) /\ WF_idVars(Finish(t))
       /\ SF_idVars(At(t, "user") /\ Safepoint(t) /\ UNCHANGED hashVars)

-------------------------------------------------------------------------------
(* Properties *)

\* An object has one hash for its whole life, whoever asks and wherever the
\* collector has put it meanwhile.
OneHashEach == \A o \in Objects : \A h, k \in answers[o] : h = k

\* An entry can be found: it is in the bucket of the address its object has
\* now, it is the object's only one, and the count is that of the entries.
TableAgrees ==
  /\ \A b \in 0 .. nbuckets - 1 : \A e \in buckets[b] :
       OnHeap(e.obj) /\ BucketOf(addr[e.obj], nbuckets) = b
  /\ \A e, d \in Entries : e.obj = d.obj => e = d
  /\ idhCount = Cardinality(Entries)
===============================================================================
