------------------------------ MODULE Structural ------------------------------
(***************************************************************************)
(* Structural equality, comparison and hashing of values: fpp_eqv, fpp_cmpv *)
(* and fpp_hashv, runtime/fpprt-lang.c:567-762, and what they call for POD  *)
(* structs, 1575-1647.  Dictionaries rest on the first and the last, maps   *)
(* and sets on the second; the keys of one collection are of one type.      *)
(*                                                                          *)
(* A value of one type comes in several representations: a number is tagged *)
(* or in a box.  A value is a record here: num, the number, or its halves   *)
(* for a float; xs, its parts, in order; id, what tells an object that has  *)
(* an identity from others.  Objects with an identity are ordered by their  *)
(* identity hash; the collector moves them.                                 *)
(***************************************************************************)
EXTENDS Integers, Sequences, SequencesExt

CONSTANTS
  Types,           \* each type: the set of its values
  MaxPicks,        \* bound: how many values are compared with each other
  Addrs,           \* bound: the addresses of the heap
  IdHash           \* the identity hash of each object, see module IdHash

VARIABLES
  type,            \* the type of the values at hand
  picked,          \* those values
  addr,            \* where each object with an identity is
  answers          \* history: what each pair of them was told when the second
                   \* was picked, [eq, cmp, hash]

structVars == <<type, picked, addr, answers>>

-------------------------------------------------------------------------------
(* Values *)

Value(k, n, s, i) == [kind |-> k, num |-> n, xs |-> s, id |-> i]

NullValue == Value("null", 0, <<>>, 0)
Tagged(n) == Value("tagged", n, <<>>, 0)
BoxedInt(n) == Value("int64", n, <<>>, 0)
BoxedFloat(h) == Value("float", h, <<>>, 0)
Str(units) == Value("string", 0, units, 0)
Tuple(s) == Value("tuple", 0, s, 0)
ListCell(head, tail) == Value("cons", 0, <<head, tail>>, 0)
Data(tid, fields) == Value("data", tid, fields, 0)
Array(i) == Value("array", 0, <<>>, i)
Closure(i) == Value("closure", 0, <<>>, i)
\* a class that has its own Equals, CompareTo and GetHashCode, on a number
OwnClass(n, i) == Value("own", n, <<>>, i)
\* a POD: a field is the bits of a number (of one of the integer kinds, or of
\* the two float kinds) or, if it is neither, a reference
Word(n) == Value("word", n, <<>>, 0)
Real(h) == Value("real", h, <<>>, 0)
Pod(fields) == Value("pod", 0, fields, 0)

Identified == DOMAIN IdHash
HasIdentity(v) == v.kind \in {"array", "closure", "own"}

\* fpprt_typeid, as far as its order goes; a record's or case's is the compiler's
KindOrder == <<"string", "float", "int64", "tuple", "cons", "array", "closure",
               "own", "pod", "data">>
TypeId(v) == IF v.kind = "data" THEN 100 + v.num
             ELSE CHOOSE i \in DOMAIN KindOrder : KindOrder[i] = v.kind

Sign(x, y) == IF x < y THEN -1 ELSE IF x > y THEN 1 ELSE 0
IsBits(v) == v.kind \in {"word", "real"}
IsNumber(v) == v.kind \in {"tagged", "int64", "float"} \/ IsBits(v)
\* a float counts its halves
IsFloat(v) == v.kind \in {"float", "real"}
Halves(v) == IF IsFloat(v) THEN v.num ELSE 2 * v.num

\* mutant: the hash of a float is that of its bits
BitsOf(v) == v.num

\* (intptr_t) of a number: the fraction is dropped
Trunc(v) == IF ~IsFloat(v) THEN v.num
            ELSE IF v.num >= 0 THEN v.num \div 2 ELSE -((-v.num) \div 2)

-------------------------------------------------------------------------------
RECURSIVE EqV(_, _), CmpV(_, _), HashV(_)

EqFields(s, t) == \A i \in DOMAIN s : EqV(s[i], t[i])

\* fpp_pod_eq: references by fpp_eqv, the rest by the bits of their kind
PodEq(a, b) ==
  \A i \in DOMAIN a.xs :
    IF IsBits(a.xs[i]) THEN Sign(a.xs[i].num, b.xs[i].num) = 0
    ELSE EqV(a.xs[i], b.xs[i])

EqV(a, b) ==
  CASE HasIdentity(a) /\ a = b -> TRUE
    [] a.kind = "null" \/ b.kind = "null" -> a = b
    \* the same number, tagged on one side and boxed on the other, is equal
    [] a.kind = "tagged" \/ b.kind = "tagged" ->
         IsNumber(a) /\ IsNumber(b) /\ Halves(a) = Halves(b)
    [] TypeId(a) # TypeId(b) -> FALSE
    [] a.kind \in {"int64", "float"} -> a.num = b.num
    [] a.kind = "string" -> a.xs = b.xs
    [] a.kind \in {"tuple", "cons", "data"} ->
         Len(a.xs) = Len(b.xs) /\ EqFields(a.xs, b.xs)
    [] a.kind = "own" -> a.num = b.num
    [] a.kind = "pod" -> PodEq(a, b)
    [] OTHER -> FALSE

\* the first difference decides
FirstOf(cs) == IF \E i \in DOMAIN cs : cs[i] # 0
               THEN cs[CHOOSE i \in DOMAIN cs :
                         cs[i] # 0 /\ \A j \in 1 .. i - 1 : cs[j] = 0]
               ELSE 0

Shorter(s, t) == IF Len(s) < Len(t) THEN Len(s) ELSE Len(t)

CmpFields(s, t) == FirstOf([i \in 1 .. Shorter(s, t) |-> CmpV(s[i], t[i])])

PodCmp(a, b) ==
  FirstOf([i \in DOMAIN a.xs |->
             IF IsBits(a.xs[i]) THEN Sign(a.xs[i].num, b.xs[i].num)
             ELSE CmpV(a.xs[i], b.xs[i])])

StrCmp(a, b) ==
  FirstOf([i \in 1 .. Shorter(a.xs, b.xs) |-> Sign(a.xs[i], b.xs[i])]
          \o <<Sign(Len(a.xs), Len(b.xs))>>)

\* mutant: no ordering of its own: by address
CmpByAddress(a, b) == Sign(addr[a.id], addr[b.id])

\* by the identity hash, which an object keeps for life, and only then by address
CmpIdentity(a, b) ==
  FirstOf(<<Sign(IdHash[a.id], IdHash[b.id]), Sign(addr[a.id], addr[b.id])>>)

\* tagged against anything but a tagged number or null
CmpMixed(a, b) ==
  IF IsNumber(a) /\ IsNumber(b) THEN Sign(Halves(a), Halves(b))
  ELSE IF a.kind = "tagged" THEN -1 ELSE 1

CmpV(a, b) ==
  CASE HasIdentity(a) /\ a = b -> 0
    [] a.kind = "tagged" /\ b.kind = "tagged" -> Sign(a.num, b.num)
    [] a.kind = "null" -> IF b.kind = "null" THEN 0 ELSE -1
    [] b.kind = "null" -> 1
    [] a.kind = "tagged" \/ b.kind = "tagged" -> CmpMixed(a, b)
    [] TypeId(a) # TypeId(b) -> Sign(TypeId(a), TypeId(b))
    [] a.kind \in {"int64", "float"} -> Sign(a.num, b.num)
    [] a.kind = "string" -> StrCmp(a, b)
    [] a.kind = "tuple" ->
         FirstOf(<<CmpFields(a.xs, b.xs), Sign(Len(a.xs), Len(b.xs))>>)
    [] a.kind \in {"cons", "data"} -> CmpFields(a.xs, b.xs)
    [] a.kind = "pod" -> PodCmp(a, b)
    [] a.kind = "own" -> Sign(a.num, b.num)
    [] OTHER -> CmpIdentity(a, b)

Masked(h) == h % 2 ^ 30
HashFields(seed, s) == Masked(FoldLeft(LAMBDA h, x : h * 31 + HashV(x), seed, s))

\* the elements of a list, whatever its tail is
RECURSIVE Elements(_)
Elements(v) == IF v.kind = "cons" THEN <<v.xs[1]>> \o Elements(v.xs[2]) ELSE <<>>

HashV(v) ==
  CASE v.kind = "null" -> 0
    [] IsNumber(v) -> Trunc(v)
    [] v.kind = "string" -> Masked(FoldLeft(LAMBDA h, u : h * 33 + u, 5381, v.xs))
    [] v.kind = "tuple" -> HashFields(17, v.xs)
    [] v.kind = "cons" -> HashFields(23, Elements(v))
    [] v.kind \in {"data", "pod"} -> HashFields(29 + TypeId(v), v.xs)
    [] v.kind = "own" -> v.num
    [] OTHER -> IdHash[v.id]

-------------------------------------------------------------------------------
Told(a, b) == [eq |-> EqV(a, b), cmp |-> CmpV(a, b), hash |-> HashV(a)]

Places == {p \in [Identified -> Addrs] : IsInjective(p)}

StructInit ==
  /\ type \in DOMAIN Types
  /\ picked = <<>>
  /\ addr = CHOOSE p \in Places : TRUE
  /\ answers = <<>>

\* the program comes by another value of the type
Pick(v) ==
  /\ Len(picked) < MaxPicks
  /\ picked' = Append(picked, v)
  /\ answers' = answers \o [i \in DOMAIN picked |-> Told(picked[i], v)]
  /\ UNCHANGED <<type, addr>>

\* a collection moves the objects
Move == addr' \in Places /\ UNCHANGED <<type, picked, answers>>

StructNext == Move \/ \E v \in Types[type] : Pick(v)

StructSpec == StructInit /\ [][StructNext]_structVars

-------------------------------------------------------------------------------
(* Properties *)

Picks == {picked[i] : i \in DOMAIN picked}

\* fpp_eqv is an equivalence, and equal values hash alike: what a dictionary
\* needs, whose key may come boxed where it was put in tagged.
EqualsAgree ==
  \A a, b \in Picks :
    /\ EqV(a, a)
    /\ EqV(a, b) => EqV(b, a) /\ HashV(a) = HashV(b)
    /\ \A c \in Picks : EqV(a, b) /\ EqV(b, c) => EqV(a, c)

\* fpp_cmpv is a total order in which the ties are the equal values, and the
\* collector does not change what a pair of values was told: what maps and
\* sets need, whose nodes stay where an earlier comparison put them.
OrderAgrees ==
  /\ \A a, b \in Picks :
       /\ CmpV(a, b) = -CmpV(b, a)
       /\ CmpV(a, b) = 0 <=> EqV(a, b)
       /\ \A c \in Picks : CmpV(a, b) <= 0 /\ CmpV(b, c) <= 0 => CmpV(a, c) <= 0
  /\ \A j \in DOMAIN picked : \A i \in 1 .. j - 1 :
       answers[((j - 1) * (j - 2)) \div 2 + i] = Told(picked[i], picked[j])
===============================================================================
