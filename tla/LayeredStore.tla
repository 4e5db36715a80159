---------------------------- MODULE LayeredStore ----------------------------
(***************************************************************************)
(* The key/value stores of orga as values: a tree (what a store holds) and *)
(* a buffer (the in-memory map of a BufStore or a MerkStore, in which an   *)
(* entry is a value or a deletion).                                        *)
(***************************************************************************)

CONSTANTS Key,      \* the byte strings used as keys
          Value,    \* the byte strings stored under them
          Absent,   \* what get returns for a key with no value (None), and
                    \* the map entry that records a deletion
          Clean     \* a key which has no entry in a buffer

ASSUME StoreAssumption ==
    /\ Absent \notin Value
    /\ Clean \notin Value
    /\ Absent # Clean

Tree   == [Key -> Value \cup {Absent}]
Buffer == [Key -> Value \cup {Absent, Clean}]

EmptyTree   == [k \in Key |-> Absent]
EmptyBuffer == [k \in Key |-> Clean]

(***************************************************************************)
(* BufStore::get and MerkStore::get for every key at once: an entry of the *)
(* map shadows the underlying store, a deletion reads as None.             *)
(***************************************************************************)
View(buffer, tree) ==
    [k \in Key |-> IF buffer[k] = Clean THEN tree[k] ELSE buffer[k]]

(***************************************************************************)
(* BufStore::flush into a store that is itself buffered: each entry is put *)
(* into, or recorded as deleted in, the lower map.  The flushed map is     *)
(* left empty by the caller.                                               *)
(***************************************************************************)
Flush(buffer, lower) ==
    [k \in Key |-> IF buffer[k] = Clean THEN lower[k] ELSE buffer[k]]

(***************************************************************************)
(* MerkStore::write: to_batch turns the map into puts and deletes that     *)
(* Merk::apply performs as one batch.                                      *)
(***************************************************************************)
Write(buffer, tree) == View(buffer, tree)
=============================================================================
