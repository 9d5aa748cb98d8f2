----------------------------- MODULE MCStructural -----------------------------
(* For each kind of type a few values that meet at its edges: the same       *)
(* number tagged and boxed, a prefix of a string, an empty constructor that  *)
(* is null, equal parts under different references, objects that only their  *)
(* identity tells apart, and a class with an Equals of its own whose hash    *)
(* order and address order differ.                                           *)
EXTENDS Structural

MCTypes ==
  [ int64   |-> {Tagged(n) : n \in -1 .. 1} \cup {BoxedInt(n) : n \in -1 .. 1},
    float   |-> {BoxedFloat(h) : h \in -3 .. 3} \cup {Tagged(n) : n \in -1 .. 1},
    string  |-> {Str(u) : u \in {<<>>, <<97>>, <<98>>, <<97, 97>>, <<97, 98>>}},
    tuple   |-> {Tuple(<<x, y>>) : x \in {Tagged(0), BoxedInt(0), BoxedInt(1)},
                                   y \in {Str(<<97>>), Str(<<98>>)}},
    list    |-> {NullValue} \cup
                {ListCell(x, t) : x \in {Tagged(0), BoxedInt(0), Tagged(1)},
                              t \in {NullValue, ListCell(Tagged(0), NullValue), ListCell(BoxedInt(1), NullValue)}},
    union   |-> {NullValue, Data(1, <<>>)} \cup
                {Data(2, <<x>>) : x \in {Tagged(0), BoxedInt(0), Tagged(1), Array(1), Array(2)}},
    pod     |-> {Pod(<<Word(n), Real(h), r>>) : n \in {0, 1}, h \in {-1, 2},
                                                r \in {Tagged(0), BoxedInt(0)}},
    array   |-> {Array(i) : i \in 1 .. 3},
    closure |-> {Closure(i) : i \in 1 .. 3},
    class   |-> {OwnClass(0, 1), OwnClass(0, 2), OwnClass(1, 3)} ]

MCIdHash == <<2, 3, 1>>
===============================================================================
