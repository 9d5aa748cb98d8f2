--------------------------------- MODULE Unique ---------------------------------
(***************************************************************************)
(* The uniqueness query, fpprt_heap_refs_upto2 (runtime/fpprt.c:628-725):  *)
(* how many references to an object there are in statics and in the heap,  *)
(* those on the asker's own stack not counted, 0, 1, or 2 for more.        *)
(* GC.ReuseIfUnique (stdlib/prelude.fpp:6195-6218) lets the caller mutate  *)
(* the object in place when the answer is 0.                               *)
(*                                                                         *)
(* The query runs where no other thread does and nothing is allocated, so  *)
(* the heap stands still.  An object's reference fields are its slots in   *)
(* Slots, a null or a scalar being Null.  A step scans one object of the   *)
(* work stack, any one: the answer does not depend on the order.           *)
(***************************************************************************)
EXTENDS Integers, FiniteSets

CONSTANTS
  Objects, Target,     \* the heap's objects, and the one that is asked about
  Null,
  Slots,               \* bound: the fields of an object, the statics
  Kinds                \* the kinds of object in the heap, of enum fpprt_type_kind

ASSUME ObjectsAssumption == Target \in Objects /\ Null \notin Objects
ASSUME SlotsAssumption == IsFiniteSet(Objects) /\ IsFiniteSet(Slots)
ASSUME KindsAssumption ==
  Kinds \subseteq {"struct", "refArray", "scalarArray", "podArray"}

VARIABLES
  kind, fields,        \* each object's type, and its fields
  statics,             \* the slots of the static ranges
  frames,              \* what the slots of the thread's frames refer to
  pods,                \* what the structs on its stack refer to
  pc, seen, work, count

heap == <<kind, fields, statics, frames, pods>>
vars == <<heap, pc, seen, work, count>>

HasRefs(o) == kind[o] # "scalarArray"
ArePods == "podArray" \in Kinds

Init ==
  /\ kind \in [Objects -> Kinds]
  /\ fields \in [Objects -> [Slots -> Objects \cup {Null}]]
  /\ \A o \in Objects : ~HasRefs(o) => fields[o] = [k \in Slots |-> Null]
  /\ statics \in [Slots -> Objects \cup {Null}]
  /\ frames \in SUBSET Objects
  /\ pods \in SUBSET (IF ArePods THEN Objects ELSE {})
  /\ pc = "seed"
  /\ seen = {} /\ work = {} /\ count = 0

\* the slots of f that hold the target, the other objects that f refers to
Hits(f) == {k \in Slots : f[k] = Target}
Others(f) == {f[k] : k \in Slots} \ {Null, Target}

\* mutant: references from the stack are not followed
SeedStatics ==
  /\ pc = "seed"
  /\ count' = Cardinality(Hits(statics))
  /\ seen' = Others(statics)
  /\ work' = seen'
  /\ pc' = "scan"
  /\ UNCHANGED heap

\* the statics are counted and followed, the frame slots only followed
Seed ==
  /\ pc = "seed"
  /\ count' = Cardinality(Hits(statics))
  /\ seen' = Others(statics) \cup (frames \ {Target})
  /\ work' = seen'
  /\ pc' = "scan"
  /\ UNCHANGED heap

\* the kinds the scan knows to have references
Scanned(o) == kind[o] \in {"struct", "refArray"}

\* One object is scanned.  The code breaks off at the second reference; the
\* loop ends then and what it had still to do does not matter.
Scan(o) ==
  /\ pc = "scan" /\ o \in work /\ count < 2
  /\ IF Scanned(o)
     THEN /\ count' = count + Cardinality(Hits(fields[o]))
          /\ seen' = seen \cup Others(fields[o])
          /\ work' = (work \ {o}) \cup (Others(fields[o]) \ seen)
     ELSE work' = work \ {o} /\ UNCHANGED <<seen, count>>
  /\ UNCHANGED <<heap, pc>>

Answer ==
  /\ pc = "scan" /\ (work = {} \/ count >= 2)
  /\ pc' = "done"
  /\ count' = IF count >= 2 THEN 2 ELSE count
  /\ UNCHANGED <<heap, seen, work>>

Next == Seed \/ (\E o \in Objects : Scan(o)) \/ Answer

Spec == Init /\ [][Next]_vars

-------------------------------------------------------------------------------
(* Properties *)

UniqueTypeOK ==
  /\ kind \in [Objects -> Kinds]
  /\ fields \in [Objects -> [Slots -> Objects \cup {Null}]]
  /\ statics \in [Slots -> Objects \cup {Null}]
  /\ frames \in SUBSET Objects /\ pods \in SUBSET Objects
  /\ pc \in {"seed", "scan", "done"}
  /\ work \subseteq seen /\ seen \subseteq Objects \ {Target}
  /\ count \in Nat

\* What the program can reach without going through the target: the least set
\* that contains the roots and what its members refer to.
Roots == (Others(statics) \cup frames \cup pods) \ {Target}
Closed(S) == Roots \subseteq S /\ \A o \in S : Others(fields[o]) \subseteq S
Reachable == {o \in Objects \ {Target} :
                \A S \in SUBSET (Objects \ {Target}) : Closed(S) => o \in S}

\* The answer 0 is honest (prelude.fpp:6199-6208): the target is then in no
\* static and in no object that can be reached but through it, and mutating it
\* in place is unobservable.
HonestUnique ==
  pc = "done" /\ count = 0 =>
    Hits(statics) = {} /\ \A o \in Reachable : Hits(fields[o]) = {}

===============================================================================
