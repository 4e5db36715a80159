------------------------------- MODULE EntryMap --------------------------------
(* A set of entries, kept in a Map from the fields of an entry that are marked *)
(* `#[key]` to the other ones, as `#[derive(Entry)]` splits them.              *)
EXTENDS Naturals, Sequences, FiniteSets, SequencesExt

CONSTANTS Arity,    \* the number of fields of an entry
          Value

VARIABLES is_key_field,  \* the declaration: which fields are marked
          map,           \* Map<T::Key, T::Value>
          kept           \* the entries, each the last inserted with its key

vars == <<is_key_field, map, kept>>

Entry == [1..Arity -> Value]

\* The positions of the key fields, or of the others, in the order declared
parse_struct(keys) == SelectSeq([i \in 1..Arity |-> i], LAMBDA i : is_key_field[i] = keys)

into_entry(entry) ==
    [key |-> [j \in DOMAIN parse_struct(TRUE) |-> entry[parse_struct(TRUE)[j]]],
     value |-> [j \in DOMAIN parse_struct(FALSE) |-> entry[parse_struct(FALSE)[j]]]]

\* The fields in the order declared, each the next of its tuple: a key when
\* is_key, else a value
NextOf(i) == Cardinality({j \in 1..i : is_key_field[j] = is_key_field[i]})

from_entry_ByPosition(item) ==
    [i \in 1..Arity |-> LET fields == IF is_key_field[i] THEN item.key ELSE item.value
                        IN  fields[IF i <= Len(fields) THEN i ELSE Len(fields)]]

from_entry(item) ==
    [i \in 1..Arity |-> IF is_key_field[i] THEN item.key[NextOf(i)] ELSE item.value[NextOf(i)]]

-----------------------------------------------------------------------------
\* At least one field must be marked.
derive_struct ==
    /\ is_key_field \in [1..Arity -> BOOLEAN]
    /\ \E i \in 1..Arity : is_key_field[i]

Init == derive_struct /\ map = [k \in {} |-> <<>>] /\ kept = {}

SameKey(e, f) == \A i \in 1..Arity : is_key_field[i] => e[i] = f[i]

insert(entry) ==
    LET item == into_entry(entry)
    IN  map' = [k \in DOMAIN map \cup {item.key} |-> IF k = item.key THEN item.value ELSE map[k]]

delete(entry) ==
    map' = [k \in DOMAIN map \ {into_entry(entry).key} |-> map[k]]

contains(entry) ==
    LET item == into_entry(entry)
    IN  item.key \in DOMAIN map /\ map[item.key] = item.value

contains_entry_key(entry) == into_entry(entry).key \in DOMAIN map

\* Iter::next, over the entries of the map
iter == {from_entry([key |-> k, value |-> map[k]]) : k \in DOMAIN map}

Insert(entry) ==
    /\ insert(entry)
    /\ kept' = {e \in kept : ~SameKey(e, entry)} \cup {entry}
    /\ UNCHANGED is_key_field

Delete(entry) ==
    /\ delete(entry)
    /\ kept' = {e \in kept : ~SameKey(e, entry)}
    /\ UNCHANGED is_key_field

Next == \E entry \in Entry : Insert(entry) \/ Delete(entry)

Spec == Init /\ [][Next]_vars

-----------------------------------------------------------------------------
\* Whichever fields are the key, an entry comes back from the map as it went
\* in, a later one with the same key takes its place, and deleting one takes
\* away the entry with its key, whatever its other fields.
EntriesComeBack ==
    /\ iter = kept
    /\ \A entry \in Entry :
           /\ contains(entry) <=> entry \in kept
           /\ contains_entry_key(entry) <=> \E e \in kept : SameKey(e, entry)
===============================================================================
