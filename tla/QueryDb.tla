-------------------------------- MODULE QueryDb --------------------------------
(***************************************************************************)
(* The incremental query engine, src/Fpp.Compiler/Query.fs: inputs that    *)
(* are set, queries that are computed on demand and kept, the keys a       *)
(* computation reads recorded as its dependencies.  The workspace and the  *)
(* language server keep everything they know in one Db.                    *)
(*                                                                         *)
(* The engine is sequential and computations call back into it, so an      *)
(* operation is one action and the members of Db are operators from one    *)
(* state of the Db to the next.  What a query computes is a constant: its  *)
(* script says, from what it has read so far, what it reads next, what it  *)
(* returns, or that it raises.  An exception leaves the Db as it is then.  *)
(***************************************************************************)
EXTENDS Integers, Sequences, SequencesExt

CONSTANTS
  Inputs, Queries,     \* the keys
  InputValues,
  Script(_, _),        \* Script(q, values read so far), see Reads, Returns, Raises
  FirstRunsSucceed,    \* bound: no query is asked for that would raise in its
                       \* first computation
  MaxRevision,         \* bound: revisions in a behaviour
  MaxLeaked            \* bound: what exceptions may leave on depStack, frames
                       \* and the keys in them

ASSUME KeysAssumption == Inputs \cap Queries = {}
ASSUME RevisionsAssumption == MaxRevision \in Nat /\ MaxLeaked \in Nat

Reads(k) == [does |-> "read", key |-> k]
Returns(v) == [does |-> "return", value |-> v]
Raises == [does |-> "raise"]

\* values are natural numbers; these two are none
NoValue == -1
Raised == -2

VARIABLES
  db,        \* the Db: [table, revision, depStack, runs]; runs is a history,
             \* how often each query was computed in this revision
  past,      \* history: the inputs that were set, at each revision
  answer     \* history: [query, result] of the last question, until an input
             \* changes

dbVars == <<db, past, answer>>

\* what the operators below pass on: the Db, and the value of the last
\* expression or the exception that it raised
With(d, v) == [db |-> d, value |-> v]

-------------------------------------------------------------------------------
(* What the engine is meant to compute: the script run on the inputs alone *)

RECURSIVE Truth(_, _), RunOn(_, _, _), ReadOn(_, _, _)

\* the value of key k when the inputs are inp
Truth(inp, k) ==
  IF k \in Queries THEN RunOn(inp, k, <<>>)
  ELSE IF k \in DOMAIN inp THEN inp[k] ELSE Raised

RunOn(inp, q, seen) ==
  LET s == Script(q, seen) IN
  CASE s.does = "return" -> s.value
    [] s.does = "raise" -> Raised
    [] s.does = "read" -> LET v == Truth(inp, s.key) IN
                          IF v = Raised THEN Raised ELSE RunOn(inp, q, Append(seen, v))

\* the keys query q reads then
ReadOn(inp, q, seen) ==
  LET s == Script(q, seen) IN
  IF s.does # "read" THEN <<>>
  ELSE LET v == Truth(inp, s.key) IN
       <<s.key>> \o (IF v = Raised THEN <<>> ELSE ReadOn(inp, q, Append(seen, v)))

-------------------------------------------------------------------------------
(* The members of Db *)

Known(d, k) == k \in DOMAIN d.table

EmptyDb == [table |-> <<>>, revision |-> 0, depStack |-> <<>>,
            runs |-> [q \in Queries |-> 0]]

Put(d, k, e) == [d EXCEPT !.table = (k :> e) @@ @]

Record(d, k) ==
  IF d.depStack = <<>> THEN d
  ELSE [d EXCEPT !.depStack[Len(d.depStack)] = Append(@, k)]

\* SetInput, of a new value
Assign(d, i, v) ==
  LET r == d.revision + 1
      e == [value |-> v, deps |-> <<>>, computedAt |-> r, verifiedAt |-> r,
            changedAt |-> r] IN
  [Put(d, i, e) EXCEPT !.revision = r, !.runs = [q \in Queries |-> 0]]

GetInput(d, i) == With(Record(d, i), IF Known(d, i) THEN d.table[i].value ELSE Raised)

RECURSIVE Memo(_, _), Ensure(_, _), Recompute(_, _), Run(_, _, _), DepChanged(_, _, _)

\* the closure of query q, seen being what it has read so far; MemoT's unbox
\* raises on a null
Run(d, q, seen) ==
  LET s == Script(q, seen) IN
  CASE s.does = "return" -> With(d, s.value)
    [] s.does = "raise" -> With(d, Raised)
    [] s.does = "read" ->
         LET r == IF s.key \in Inputs THEN GetInput(d, s.key) ELSE Memo(d, s.key) IN
         IF r.value \in {Raised, NoValue} THEN With(r.db, Raised)
         ELSE Run(r.db, q, Append(seen, r.value))

\* the frame pushed for the dependencies is popped only if q returns
Enter(d, q) == [d EXCEPT !.depStack = Append(@, <<>>), !.runs[q] = @ + 1]

\* mutant: a recomputed value counts as a changed one
RecomputeNoCutoff(d, q) ==
  LET r == Run(Enter(d, q), q, <<>>) IN
  IF r.value = Raised THEN r
  ELSE With([r.db EXCEPT !.depStack = Front(@),
               !.table[q] = [value |-> r.value, deps |-> Last(r.db.depStack),
                             computedAt |-> d.revision, verifiedAt |-> d.revision,
                             changedAt |-> d.revision]],
            r.value)

Recompute(d, q) ==
  LET r == Run(Enter(d, q), q, <<>>)
      e == r.db.table[q] IN
  IF r.value = Raised THEN r
  ELSE With([r.db EXCEPT !.depStack = Front(@),
               !.table[q] = [value |-> r.value, deps |-> Last(r.db.depStack),
                             computedAt |-> d.revision, verifiedAt |-> d.revision,
                             changedAt |-> IF r.value = e.value THEN e.changedAt
                                                                ELSE d.revision]],
            r.value)

Verified(d, k) == [d EXCEPT !.table[k].verifiedAt = d.revision]

Yes == 1
No == 0

\* whether one of deps has changed after since; the later ones are not looked at
DepChanged(d, deps, since) ==
  IF deps = <<>> THEN With(d, No)
  ELSE LET r == Ensure(d, Head(deps)) IN
       IF r.value = Raised THEN r
       ELSE IF r.db.table[Head(deps)].changedAt > since THEN With(r.db, Yes)
       ELSE DepChanged(r.db, Tail(deps), since)

\* mutant: the dependencies' own dependencies are not brought up to date
EnsureShallow(d, k) ==
  LET e == d.table[k] IN
  IF e.verifiedAt = d.revision THEN With(d, e.value)
  ELSE IF k \in Inputs THEN With(Verified(d, k), e.value)
  ELSE IF \E i \in DOMAIN e.deps : d.table[e.deps[i]].changedAt > e.computedAt
  THEN Recompute(d, k)
  ELSE With(Verified(d, k), e.value)

\* Ensure: an input, or a query whose dependencies did not change, is valid as
\* it is
Ensure(d, k) ==
  IF ~Known(d, k) THEN With(d, Raised)
  ELSE LET e == d.table[k] IN
       IF e.verifiedAt = d.revision THEN With(d, e.value)
       ELSE IF k \in Inputs THEN With(Verified(d, k), e.value)
       ELSE LET c == DepChanged(d, e.deps, e.computedAt) IN
            CASE c.value = Raised -> c
              [] c.value = Yes -> Recompute(c.db, k)
              [] c.value = No -> With(Verified(c.db, k), e.value)

Memo(d, q) ==
  LET e == [value |-> NoValue, deps |-> <<>>, computedAt |-> -1, verifiedAt |-> -1,
            changedAt |-> -1] IN
  IF Known(d, q) THEN Ensure(Record(d, q), q)
                 ELSE Recompute(Put(Record(d, q), q, e), q)

-------------------------------------------------------------------------------
(* Its clients *)

inputs == past[Len(past)]
NoAnswer == [query |-> "none", result |-> NoValue]

DbInit ==
  /\ db = EmptyDb
  /\ past = << <<>> >>
  /\ answer = NoAnswer

\* SetInput: an equal value changes nothing
SetInput(i, v) ==
  /\ db.revision < MaxRevision
  /\ Known(db, i) => db.table[i].value # v
  /\ db' = Assign(db, i, v)
  /\ past' = Append(past, (i :> v) @@ inputs)
  /\ answer' = NoAnswer

\* MemoT, by the workspace
Ask(q) ==
  /\ Len(db.depStack) + Len(FlattenSeq(db.depStack)) < MaxLeaked
  /\ FirstRunsSucceed => \A p \in Queries : Known(db, p) \/ Truth(inputs, p) # Raised
  /\ LET r == Memo(db, q) IN
     /\ db' = r.db
     /\ answer' = [query |-> q, result |-> IF r.value = NoValue THEN Raised ELSE r.value]
  /\ UNCHANGED past

DbNext ==
  \/ \E i \in Inputs, v \in InputValues : SetInput(i, v)
  \/ \E q \in Queries : Ask(q)

DbSpec == DbInit /\ [][DbNext]_dbVars

-------------------------------------------------------------------------------
(* Properties *)

\* A question is answered as if nothing had been kept from before (Query.fs:
\* 9-12): with the value of a fresh computation, or its exception.
AnswersCurrent ==
  answer # NoAnswer => answer.result = Truth(inputs, answer.query)

\* Early cutoff (Query.fs:10-12): a query is computed again only if something
\* it read last time has had another value since.
EarlyCutoff ==
  [][\A q \in Queries :
       Known(db, q) /\ db'.runs[q] > db.runs[q] =>
         LET c == db.table[q].computedAt + 1 IN
         \E d \in ToSet(ReadOn(past[c], q, <<>>)) : \E r \in c .. Len(past) :
           Truth(past[r], d) # Truth(past[c], d)]_dbVars
===============================================================================
