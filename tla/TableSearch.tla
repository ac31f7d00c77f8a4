------------------------------ MODULE TableSearch ------------------------------
(***************************************************************************)
(* The binary search of tacd_arm_exidx_get_entry_offset and of               *)
(* tacd_dwarf_get_fde_offset_from_pc: the last entry of a sorted table that  *)
(* does not start behind the pc.                                             *)
(***************************************************************************)
EXTENDS Integers, Sequences

VARIABLES
  table,   \* start addresses, in the order of the table
  key,     \* the pc
  first,   \* first
  last,    \* last
  hit      \* the entry found (counted from 1), 0 for none, -1 while searching

searchVars == <<table, key, first, last, hit>>

Sorted(t) == \A i, j \in DOMAIN t : i < j => t[i] < t[j]

SearchInit(t, pc) ==
  /\ table = t
  /\ key = pc
  /\ first = 0
  /\ last = Len(t)
  /\ hit = -1

\* Entries count from zero in the code.
Cur == (first + last) \div 2
Entry(n) == table[n + 1]

Searching == hit = -1 /\ first < last

SearchExact ==
  /\ Searching
  /\ key = Entry(Cur)
  /\ hit' = Cur + 1
  /\ UNCHANGED <<table, key, first, last>>

SearchLower ==
  /\ Searching
  /\ key < Entry(Cur)
  /\ last' = Cur
  /\ UNCHANGED <<table, key, first, hit>>

SearchUpperFromCur ==  \* Mutant
  /\ Searching
  /\ key > Entry(Cur)
  /\ first' = Cur + 2
  /\ UNCHANGED <<table, key, last, hit>>

SearchUpper ==
  /\ Searching
  /\ key > Entry(Cur)
  /\ first' = Cur + 1
  /\ UNCHANGED <<table, key, last, hit>>

\* last - 1 in the code is entry number last here; none when last is zero.
SearchEnds ==
  /\ hit = -1
  /\ first >= last
  /\ hit' = last
  /\ UNCHANGED <<table, key, first, last>>

SearchStep == SearchExact \/ SearchLower \/ SearchUpper \/ SearchEnds

\* The entries of which the pc may be part: those that do not start behind it.
\* The entry found is the last of them, and there is none only if the pc lies
\* before the whole table.
FoundLastBefore ==
  hit # -1 =>
    /\ hit \in 0 .. Len(table)
    /\ \A i \in DOMAIN table : table[i] <= key <=> i <= hit

\* Entries before first do not start behind the pc, those from last on do.
SearchInv ==
  /\ first \in 0 .. Len(table)
  /\ last \in 0 .. Len(table)
  /\ first <= last
  /\ hit = -1 =>
       /\ \A i \in 1 .. first : table[i] <= key
       /\ \A i \in last + 1 .. Len(table) : key < table[i]
==============================================================================
