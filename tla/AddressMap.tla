------------------------------- MODULE AddressMap -------------------------------
(***************************************************************************)
(* The hash table of runtime/gc/src/address-map.h, which maps addresses to  *)
(* values: open addressing over a power of two of slots, with the entries   *)
(* of a run in the order of the slots they belong in.  A key is an address  *)
(* already hashed; the hash is a bijection.                                 *)
(***************************************************************************)
EXTENDS Integers, FiniteSets

CONSTANTS
  HashedKeys,      \* the hashes of the addresses tried
  MapValues,       \* what they are mapped to
  MinSize          \* 8 in the code, the least number of slots

ASSUME MinSizeAssumption == MinSize \in Nat \ {0}

VARIABLES
  map,             \* [size, slot]: each slot an entry [k, v], or Vacant
  content           \* history: the function that the table stands for

mapVars == <<map, content>>

Vacant == [k |-> -1, v |-> -1]
EmptyMap(size) == [size |-> size, slot |-> [i \in 0 .. size - 1 |-> Vacant]]

MapInit == map = EmptyMap(MinSize) /\ content = <<>>

\* hash_map_slot_entry, hash_map_slot_is_empty, hash_map_slot_distance
Entry(m, i) == m.slot[i % m.size]
IsVacant(m, i) == Entry(m, i) = Vacant
Distance(m, i) == (i - Entry(m, i).k) % m.size

Used(m) == {i \in DOMAIN m.slot : m.slot[i] # Vacant}
NItems(m) == Cardinality(Used(m))

\* the first slot from i on at which P; a loop of the code over the slots ends
\* there, or goes round for ever if there is none
FirstFrom(m, i, P(_)) ==
  CHOOSE j \in i .. i + m.size :
    P(j) /\ \A l \in i .. j - 1 : ~P(l)

PutEntry(m, i, e) == [m EXCEPT !.slot[i % m.size] = e]

\* mutant: an entry goes into the first vacant slot
DoInsertAtEnd(m, k, v) ==
  LET i == FirstFrom(m, k, LAMBDA j : IsVacant(m, j) \/ Entry(m, j).k = k)
  IN PutEntry(m, i, [k |-> k, v |-> v])

\* hash_map_do_insert: past the entries that are further from home, and those
\* as far, unless one is k's; the rest of the run moves up by one
DoInsert(m, k, v) ==
  LET passed == FirstFrom(m, k, LAMBDA j : IsVacant(m, j) \/ j - k >= Distance(m, j))
      idx == FirstFrom(m, passed, LAMBDA j : \/ IsVacant(m, j)
                                             \/ j - k # Distance(m, j)
                                             \/ Entry(m, j).k = k)
      end == FirstFrom(m, idx, LAMBDA j : IsVacant(m, j))
      moved == [m EXCEPT !.slot = [i \in DOMAIN m.slot |->
                  IF \E j \in idx + 1 .. end : j % m.size = i
                  THEN Entry(m, i - 1) ELSE m.slot[i]]]
  IN IF ~IsVacant(m, idx) /\ Entry(m, idx).k = k /\ idx - k = Distance(m, idx)
     THEN PutEntry(m, idx, [k |-> k, v |-> v])
     ELSE PutEntry(moved, idx, [k |-> k, v |-> v])

\* hash_map_populate, in the order of the slots, hash_map_grow, hash_map_shrink
RECURSIVE Populate(_, _, _)
Populate(dst, src, i) ==
  IF i = src.size THEN dst
  ELSE Populate(IF IsVacant(src, i) THEN dst
                ELSE DoInsert(dst, src.slot[i].k, src.slot[i].v),
                src, i + 1)
OfSize(m, size) == Populate(EmptyMap(size), m, 0)

\* hash_map_should_grow, hash_map_should_shrink
ShouldGrow(m) == NItems(m) >= m.size - m.size \div 8
ShouldShrink(m) == m.size > MinSize /\ NItems(m) <= m.size \div 8

\* hash_map_insert
MapInsert(k, v) ==
  /\ map' = DoInsert(IF ShouldGrow(map) THEN OfSize(map, 2 * map.size) ELSE map, k, v)
  /\ content' = [x \in DOMAIN content \cup {k} |-> IF x = k THEN v ELSE content[x]]

\* the slot i is emptied: the entries after it that are away from home come
\* down by one
Release(m, i) ==
  LET last == FirstFrom(m, i, LAMBDA j : IsVacant(m, j + 1) \/ Distance(m, j + 1) = 0)
      moved == [m EXCEPT !.slot = [l \in DOMAIN m.slot |->
                  IF \E j \in i .. last - 1 : j % m.size = l
                  THEN Entry(m, l + 1) ELSE m.slot[l]]]
  IN PutEntry(moved, last, Vacant)

\* hash_map_remove, of a key that is there: the code traps if it is not
MapRemove(k) ==
  LET i == FirstFrom(map, k, LAMBDA j : IsVacant(map, j) \/ Entry(map, j).k = k)
      m == Release(map, i)
  IN /\ k \in DOMAIN content
     /\ map' = IF ShouldShrink(m) THEN OfSize(m, m.size \div 2) ELSE m
     /\ content' = [x \in DOMAIN content \ {k} |-> content[x]]

\* hash_map_clear
Clear == map' = EmptyMap(map.size) /\ content' = <<>>

MapNext ==
  \/ \E k \in HashedKeys : MapRemove(k) \/ \E v \in MapValues : MapInsert(k, v)
  \/ Clear

MapSpec == MapInit /\ [][MapNext]_mapVars

\* hash_map_lookup and hash_map_contains: the set of the values found, which
\* stops at an entry nearer to its home than k would be
LookUp(m, k) ==
  LET i == FirstFrom(m, k, LAMBDA j : \/ IsVacant(m, j)
                                      \/ Entry(m, j).k = k
                                      \/ Distance(m, j) < j - k)
  IN IF ~IsVacant(m, i) /\ Entry(m, i).k = k THEN {Entry(m, i).v} ELSE {}

-------------------------------------------------------------------------------
(* Properties *)

\* After any sequence of insertions, removals and clearings, with the table
\* growing and shrinking: every key is looked up right, each has one entry,
\* and a slot is vacant, which the loops that look for one rely on.
MapFindsKeys ==
  /\ \A k \in HashedKeys :
       LookUp(map, k) = IF k \in DOMAIN content THEN {content[k]} ELSE {}
  /\ NItems(map) = Cardinality(DOMAIN content)
  /\ NItems(map) < map.size
===============================================================================
