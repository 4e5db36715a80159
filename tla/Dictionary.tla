------------------------------ MODULE Dictionary ------------------------------
(***************************************************************************)
(* What a Map promises: one value per key, each with entries of its own    *)
(* below it, changed by one operation at a time; when changes reach the    *)
(* backing store cannot be told.                                           *)
(***************************************************************************)
CONSTANTS Key, SubKey, Value, Absent

VARIABLES contents,  \* key -> Absent, or the value and its entries
          last       \* the operation that was performed last

NoEntries == [c \in SubKey |-> Absent]
Fresh(v)  == [base |-> v, entries |-> NoEntries]

DictionaryInit == contents = [k \in Key |-> Absent] /\ last = <<"new">>

Set(k, v) ==
    /\ last' = <<"insert", k, v>>
    /\ contents' = [contents EXCEPT ![k] = Fresh(v)]

SetIfAbsent(k, v) ==
    /\ last' = <<"or_insert", k, v>>
    /\ contents' = [contents EXCEPT ![k] = IF @ = Absent THEN Fresh(v) ELSE @]

Update(k, v) ==
    /\ last' = <<"get_mut", k, v>>
    /\ contents[k] # Absent
    /\ contents' = [contents EXCEPT ![k].base = v]

SetEntry(k, c, v) ==
    /\ last' = <<"entry", k, c, v>>
    /\ contents[k] # Absent
    /\ contents' = [contents EXCEPT ![k].entries[c] = v]

Unset(k) ==
    /\ last' = <<"remove", k>>
    /\ contents' = [contents EXCEPT ![k] = Absent]

Exchange(i, j) ==
    /\ last' = <<"swap", i, j>>
    /\ contents[i] # Absent /\ contents[j] # Absent
    /\ contents' = [contents EXCEPT ![i] = contents[j], ![j] = contents[i]]

DictionaryNext ==
    \/ \E k \in Key, v \in Value : Set(k, v) \/ SetIfAbsent(k, v) \/ Update(k, v)
    \/ \E k \in Key, c \in SubKey, v \in Value \cup {Absent} : SetEntry(k, c, v)
    \/ \E k \in Key : Unset(k)
    \/ \E i, j \in Key : Exchange(i, j)

DictionaryStep == [DictionaryNext]_<<contents, last>>

DictionarySpec == DictionaryInit /\ [][DictionaryNext]_<<contents, last>>
=============================================================================
