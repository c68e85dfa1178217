-------------------------------- MODULE TopN --------------------------------
(***************************************************************************)
(* The operations of a top-N container (src/hw10-threads/topn_container.c) *)
(* on its list: a sequence of items, a key and a value each, largest value *)
(* first.  Values are gints: a sum past IntMax or below IntMin wraps.      *)
(***************************************************************************)
EXTENDS Integers, Sequences, FiniteSets

CONSTANT IntMax                 \* the largest gint

ASSUME IntMaxAssumption == IntMax \in Nat \ {0}

IntMin == -(IntMax + 1)

Wrapped(v) ==
    IF v > IntMax THEN v - 2 * (IntMax + 1)
    ELSE IF v < IntMin THEN v + 2 * (IntMax + 1)
    ELSE v

Entry(key, value) == [key |-> key, value |-> value]

\* g_slist_sort with topn_value_compare: larger values first, equal ones in
\* the order in which they were (the sort is stable).
Place(list, i) ==
    1 + Cardinality({j \in DOMAIN list :
            \/ list[j].value > list[i].value
            \/ list[j].value = list[i].value /\ j < i})

Sorted(list) ==
    [place \in DOMAIN list |-> list[CHOOSE i \in DOMAIN list : Place(list, i) = place]]

\* g_slist_insert_sorted: in front of the first item that is not larger.
InsertSorted(list, item) ==
    LET larger == Cardinality({i \in DOMAIN list : \A j \in 1 .. i : list[j].value > item.value})
    IN  SubSeq(list, 1, larger) \o <<item>> \o SubSeq(list, larger + 1, Len(list))

Keys(list) == {list[i].key : i \in DOMAIN list}

\* Mutant: the list is not sorted again after a value has grown.
AddItemUnsorted(list, key, value) ==
    IF key \notin Keys(list)
    THEN InsertSorted(list, Entry(key, value))
    ELSE LET i == CHOOSE i \in DOMAIN list : list[i].key = key
         IN  [list EXCEPT ![i].value = Wrapped(@ + value)]

\* topn_cont_add_item: add to the first item with the key, or insert one.
AddItem(list, key, value) ==
    IF key \notin Keys(list)
    THEN InsertSorted(list, Entry(key, value))
    ELSE LET i == CHOOSE i \in DOMAIN list :
                    list[i].key = key /\ \A j \in 1 .. i - 1 : list[j].key # key
         IN  Sorted([list EXCEPT ![i].value = Wrapped(@ + value)])

\* Mutant: >= in place of >.
PrepCapacityTight(list, capacity) ==
    IF Len(list) >= capacity THEN SubSeq(list, 1, capacity - 1) ELSE list

\* topn_cont_prep_capacity: the items past the capacity are dropped.
PrepCapacity(list, capacity) ==
    IF Len(list) > capacity THEN SubSeq(list, 1, capacity) ELSE list

\* topn_cont_add, under the mutex of the container.
Add(list, capacity, key, value) == PrepCapacity(AddItem(list, key, value), capacity)

\* topn_cont_print: count is cut to the length and the loop leaves after
\* the item with index count, so that one item more is printed.
Printed(list, capacity, count) ==
    LET n == CHOOSE n \in {count, capacity, Len(list)} :
                n <= count /\ n <= capacity /\ n <= Len(list)
    IN  PrepCapacity(list, n + 1)

Descending(list) == \A i, j \in DOMAIN list : i < j => list[i].value >= list[j].value
DistinctKeys(list) == \A i, j \in DOMAIN list : list[i].key = list[j].key => i = j
=============================================================================
