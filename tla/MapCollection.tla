---------------------------- MODULE MapCollection -----------------------------
(***************************************************************************)
(* Map<K, V> (collections/map.rs): changes are retained in children until  *)
(* flush writes them to the backing store.  The values have state of their *)
(* own below them, a Map of plain values, which they read and write in the *)
(* substore they are attached to.                                          *)
(***************************************************************************)
EXTENDS LayeredStore, Naturals

CONSTANTS SubKey,     \* keys of the map below a value; {} for plain values
          Careful     \* insert and swap are used as they must be

\* Keys are numbers in the order of their encodings.  Absent is also a None in
\* children, and Clean no child in memory.
MapAssumption == Key \subseteq Nat /\ Careful \in BOOLEAN

NoChildren == [k \in Key |-> Clean]
NoChanges  == [c \in SubKey |-> Clean]
NoEntries  == [c \in SubKey |-> Absent]

\* A value in memory: its own data, the children of the map below it, and the
\* key whose substore that map is attached to.
Child == [base : Value, changes : [SubKey -> Value \cup {Absent, Clean}], at : Key]

\* What get returns for a key that is there.
Read == [base : Value, entries : [SubKey -> Value \cup {Absent}]]

ChildAssumption == Absent \notin Child \cup Read /\ Clean \notin Child

VARIABLES store,     \* the value at each key of the backing store
          substore,  \* and the entries under the key as a prefix
          children,  \* Map.children
          flushing,  \* flush was called and consumes the map
          panicked,
          last       \* the operation that was performed last

map_vars == <<store, substore, children, flushing, panicked, last>>

-----------------------------------------------------------------------------
(* Reading. *)

Entries(child) ==
    [c \in SubKey |-> IF child.changes[c] = Clean THEN substore[child.at][c]
                                                  ELSE child.changes[c]]

\* get_from_store: the value is loaded with its map attached to the substore.
get_from_store(k) == [base |-> store[k], changes |-> NoChanges, at |-> k]

\* The child at a key, loaded if it is not in memory.
Loaded(k) == IF children[k] = Clean THEN get_from_store(k) ELSE children[k]

contains_key(k) ==
    IF children[k] = Clean THEN store[k] # Absent ELSE children[k] # Absent

\* Map::get, with all that can be read below the value.
get(k) ==
    IF contains_key(k)
    THEN [base |-> Loaded(k).base, entries |-> Entries(Loaded(k))]
    ELSE Absent

Contents == [k \in Key |-> get(k)]

-----------------------------------------------------------------------------
(* Changing. *)

Ready == ~flushing /\ ~panicked

\* The map leaves it to its callers to insert only where nothing is stored
\* below the key, to swap only values with nothing stored or changed below
\* them, and to change nothing below any value between a swap and its flush.
Bare(k) ==
    /\ substore[k] = NoEntries
    /\ contains_key(k) => Loaded(k).changes = NoChanges
Settled == \A k \in Key : contains_key(k) => Loaded(k).at = k

insert(k, v) ==
    /\ Ready /\ (Careful => substore[k] = NoEntries)
    /\ last' = <<"insert", k, v>>
    /\ children' = [children EXCEPT ![k] = [base |-> v, changes |-> NoChanges, at |-> k]]
    /\ UNCHANGED <<store, substore, flushing, panicked>>

\* Map::entry: a key that is in children is occupied, whatever it holds.
Occupied(k) == children[k] # Clean \/ store[k] # Absent

\* ChildMut::deref_mut moves the child into children; it unwraps a None there.
Unwraps(k) == children[k] = Absent

\* A panic ends the call: nothing is done with the map afterwards.
Panic ==
    /\ panicked' = TRUE
    /\ UNCHANGED <<store, substore, children, flushing, last>>

or_insert(k, v) ==
    /\ Ready
    /\ \/ Occupied(k) /\ Unwraps(k) /\ Panic
       \/ /\ ~Unwraps(k)
          /\ last' = <<"or_insert", k, v>>
          /\ children' = [children EXCEPT ![k] =
                            IF Occupied(k) THEN Loaded(k)
                            ELSE [base |-> v, changes |-> NoChanges, at |-> k]]
          /\ UNCHANGED <<store, substore, flushing, panicked>>

\* get_mut(k) and an assignment to the value; None for a vacant key.
get_mut(k, v) ==
    /\ Ready /\ Occupied(k)
    /\ \/ Unwraps(k) /\ Panic
       \/ /\ ~Unwraps(k)
          /\ last' = <<"get_mut", k, v>>
          /\ children' = [children EXCEPT ![k] = [Loaded(k) EXCEPT !.base = v]]
          /\ UNCHANGED <<store, substore, flushing, panicked>>

\* get_mut(k) and an insert into, or a remove from, the map below the value.
\* Removing what is not there records nothing.
get_mut_entry(k, c, v) ==
    /\ Ready /\ Occupied(k) /\ (Careful => Settled)
    /\ \/ Unwraps(k) /\ Panic
       \/ /\ ~Unwraps(k)
          /\ last' = <<"entry", k, c, v>>
          /\ children' = [children EXCEPT ![k] =
               IF v = Absent /\ Loaded(k).changes[c] = Clean
                             /\ substore[Loaded(k).at][c] = Absent
               THEN Loaded(k) ELSE [Loaded(k) EXCEPT !.changes[c] = v]]
          /\ UNCHANGED <<store, substore, flushing, panicked>>

\* Map::remove, ChildMut::remove and Entry::remove.
remove(k) ==
    /\ Ready
    /\ last' = <<"remove", k>>
    /\ children' = [children EXCEPT ![k] = IF Occupied(k) THEN Absent ELSE Clean]
    /\ UNCHANGED <<store, substore, flushing, panicked>>

\* swap takes both values out with remove_raw and puts them back exchanged,
\* each still attached where it was; it fails if one of them is missing.
swap(i, j) ==
    /\ Ready /\ (Careful => Bare(i) /\ Bare(j))
    /\ contains_key(i) /\ contains_key(j)
    /\ last' = <<"swap", i, j>>
    /\ children' = [children EXCEPT ![i] = Loaded(j), ![j] = Loaded(i)]
    /\ UNCHANGED <<store, substore, flushing, panicked>>

StartFlush ==
    /\ ~flushing /\ ~panicked /\ children # NoChildren
    /\ flushing' = TRUE
    /\ UNCHANGED <<store, substore, children, panicked, last>>

\* A variant that leaves the entries below a removed value.
apply_change_Shallow(k) ==
    /\ \/ /\ children[k] = Absent
          /\ store' = [store EXCEPT ![k] = Absent]
          /\ UNCHANGED substore
       \/ /\ children[k] # Absent
          /\ store' = [store EXCEPT ![k] = children[k].base]
          /\ substore' = [substore EXCEPT ![children[k].at] = Entries(children[k])]
    /\ children' = [children EXCEPT ![k] = Clean]

\* apply_change: a removed value goes with all entries that start with its
\* key; any other flushes the map below it, then is put at its key.
apply_change(k) ==
    /\ \/ /\ children[k] = Absent
          /\ store' = [store EXCEPT ![k] = Absent]
          /\ substore' = [substore EXCEPT ![k] = NoEntries]
       \/ /\ children[k] # Absent
          /\ store' = [store EXCEPT ![k] = children[k].base]
          /\ substore' = [substore EXCEPT ![children[k].at] = Entries(children[k])]
    /\ children' = [children EXCEPT ![k] = Clean]

\* flush pops the first child until none is left, and the map is loaded anew.
FlushStep ==
    /\ flushing
    /\ \E k \in Key :
         /\ children[k] # Clean
         /\ \A j \in Key : j < k => children[j] = Clean
         /\ apply_change(k)
         /\ flushing' = (children' # NoChildren)
    /\ UNCHANGED <<panicked, last>>

MapInit ==
    /\ store = [k \in Key |-> Absent]
    /\ substore = [k \in Key |-> NoEntries]
    /\ children = NoChildren
    /\ flushing = FALSE
    /\ panicked = FALSE
    /\ last = <<"new">>

MapNext ==
    \/ \E k \in Key, v \in Value : insert(k, v) \/ or_insert(k, v) \/ get_mut(k, v)
    \/ \E k \in Key, c \in SubKey, v \in Value \cup {Absent} : get_mut_entry(k, c, v)
    \/ \E k \in Key : remove(k)
    \/ \E i, j \in Key : swap(i, j)
    \/ StartFlush
    \/ FlushStep

MapSpec == MapInit /\ [][MapNext]_map_vars

-----------------------------------------------------------------------------

D == INSTANCE Dictionary WITH contents <- Contents

(***************************************************************************)
(* Every operation changes what can be read as an ordinary dictionary      *)
(* would, and flushing, key by key, changes nothing: not the value at a    *)
(* key, nor any entry below it.  The entries of a value are removed with   *)
(* it (remove_from_store), so that the next value put at its key does not  *)
(* find them.                                                              *)
(***************************************************************************)
ImplementsDictionary == D!DictionarySpec

=============================================================================
