---------------------------- MODULE MapIteration -----------------------------
(***************************************************************************)
(* The double-ended iterator over a Map (collections/map.rs): it merges    *)
(* the in-memory children with the entries of the backing store, where     *)
(* every value is followed by the entries of its own substore, which the   *)
(* iterator must step over.                                                *)
(***************************************************************************)
EXTENDS Bytes, Integers, SequencesExt

CONSTANTS MapKey,     \* the encoded keys of the map, one byte each
          StoreKeys,  \* the sets of keys the backing store may hold
          Children,   \* what the children may be: MapKey -> {Clean, Absent, "mem"}
          Ranges,     \* the <<start, end>> bounds to iterate over
          MaxCalls,   \* bound: calls of next and next_back
          Clean,      \* no child in memory
          Absent      \* a child that was removed

VARIABLES store,      \* the keys of the backing store
          children,   \* Map.children
          range,      \* the range the iterator was created with
          map_iter,   \* Iter.map_iter: the children that are left
          next_key, end_key,   \* StoreNextIter
          front, back,         \* the entries yielded at the two ends
          result,     \* what the last call did
          calls

vars == <<store, children, range, map_iter, next_key, end_key, front, back, result, calls>>

Unbounded     == [kind |-> "Unbounded", key |-> <<>>]
Included(key) == [kind |-> "Included", key |-> key]
Excluded(key) == [kind |-> "Excluded", key |-> key]

Above(start, key) ==
    CASE start.kind = "Unbounded" -> TRUE
      [] start.kind = "Included"  -> ~Less(key, start.key)
      [] start.kind = "Excluded"  -> Less(start.key, key)
Below(end, key) ==
    CASE end.kind = "Unbounded" -> TRUE
      [] end.kind = "Included"  -> ~Less(end.key, key)
      [] end.kind = "Excluded"  -> Less(key, end.key)

Ascending(keys) == SetToSortSeq(keys, Less)
FirstOf(keys) == IF keys = {} THEN <<>> ELSE <<Ascending(keys)[1]>>
LastOf(keys)  == IF keys = {} THEN <<>> ELSE <<Last(Ascending(keys))>>

-----------------------------------------------------------------------------
(* StoreNextIter.  An optional key is a sequence of at most one key. *)

\* The key that is one less, with as many bytes; None for all zeroes.
decrement_bytes(bytes) ==
    LET last == LastOther(bytes, 0)
    IN  IF last = 0 THEN <<>>
        ELSE <<[i \in DOMAIN bytes |-> CASE i < last -> bytes[i]
                                         [] i = last -> bytes[i] - 1
                                         [] i > last -> MaxByte]>>

\* The entry at or after next_key; Unbounded skips the empty key.
peek ==
    LET found == FirstOf({k \in store :
                            CASE next_key.kind = "Unbounded" -> k # <<>>
                              [] OTHER -> Above(next_key, k)})
    IN  IF found # <<>> /\ Below(end_key, found[1]) THEN found ELSE <<>>

\* The bytes K::decode reads.
MapKeyOf(key) == SubSeq(key, 1, 1)

\* What the store holds at a key: the value of a map key, or a sub-entry.
StoredAt(key) == IF Len(key) = 1 THEN "value" ELSE "sub"

\* The entry at or before end_key; a sub-entry stands for the value it belongs
\* to, and the empty key for none.
peek_back ==
    LET found == LastOf({k \in store : Below(end_key, k)})
    IN  IF found = <<>> \/ found = <<<<>>>> \/ ~Above(next_key, found[1]) THEN <<>>
        ELSE <<MapKeyOf(found[1])>>

-----------------------------------------------------------------------------
(* Iter::iter_merge_next. *)

\* One round of the loop at one end: the child and the entry in the store that
\* come next, whether each is consumed, and what is emitted.
Round(child, entry, past) ==
    LET shadowed == child # <<>> /\ entry # <<>> /\ child[1] = entry[1]
        fromStore == entry # <<>> /\ (child = <<>> \/ past)
        deleted  == ~fromStore /\ child # <<>> /\ children[child[1]] = Absent
    IN  [takeChild |-> ~fromStore /\ child # <<>>,
         takeStore |-> fromStore \/ (shadowed /\ ~past),
         emit |-> CASE fromStore -> <<[key |-> MapKeyOf(entry[1]), value |-> StoredAt(entry[1])]>>
                    [] ~fromStore /\ child # <<>> /\ ~deleted ->
                         <<[key |-> child[1], value |-> "mem"]>>
                    [] OTHER -> <<>>,
         again |-> deleted]

ForwardRound ==
    LET child == IF map_iter = <<>> THEN <<>> ELSE <<Head(map_iter)>>
    IN  Round(child, peek, child # <<>> /\ peek # <<>> /\ Less(peek[1], child[1]))
BackwardRound ==
    LET child == IF map_iter = <<>> THEN <<>> ELSE <<Last(map_iter)>>
    IN  Round(child, peek_back,
              child # <<>> /\ peek_back # <<>> /\ Less(child[1], peek_back[1]))

\* The call is over when a round emits or finds nothing, and loops otherwise.
Outcome(r) == CASE r.again -> "loop" [] r.emit # <<>> -> "some" [] OTHER -> "none"

next ==
    \E r \in {ForwardRound} :
        /\ result # "loop_back"
        /\ result = "loop" \/ calls < MaxCalls
        /\ map_iter' = IF r.takeChild THEN Tail(map_iter) ELSE map_iter
        /\ next_key' = IF r.takeStore THEN Included(increment_bytes(peek[1])) ELSE next_key
        /\ front' = front \o r.emit
        /\ result' = Outcome(r)
        /\ calls' = IF result = "loop" THEN calls ELSE calls + 1
        /\ UNCHANGED <<store, children, range, end_key, back>>

\* The bound below an entry of the store that the back end is past.
BoundBelow(key) ==
    LET less == decrement_bytes(key)
    IN  IF less = <<>> THEN Excluded(<<>>) ELSE Included(less[1])

\* A variant that leaves the shadowed entry of the store in place.
next_back_Unshadowed ==
    \E r \in {BackwardRound} :
        /\ result # "loop"
        /\ result = "loop_back" \/ calls < MaxCalls
        /\ map_iter' = IF r.takeChild THEN Front(map_iter) ELSE map_iter
        /\ end_key' = IF r.takeStore /\ ~r.takeChild THEN BoundBelow(peek_back[1]) ELSE end_key
        /\ back' = back \o r.emit
        /\ result' = IF r.again THEN "loop_back" ELSE Outcome(r)
        /\ calls' = IF result = "loop_back" THEN calls ELSE calls + 1
        /\ UNCHANGED <<store, children, range, next_key, front>>

next_back ==
    \E r \in {BackwardRound} :
        /\ result # "loop"
        /\ result = "loop_back" \/ calls < MaxCalls
        /\ map_iter' = IF r.takeChild THEN Front(map_iter) ELSE map_iter
        /\ end_key' = IF r.takeStore THEN BoundBelow(peek_back[1]) ELSE end_key
        /\ back' = back \o r.emit
        /\ result' = IF r.again THEN "loop_back" ELSE Outcome(r)
        /\ calls' = IF result = "loop_back" THEN calls ELSE calls + 1
        /\ UNCHANGED <<store, children, range, next_key, front>>

\* Map::range.
Init ==
    /\ store \in StoreKeys
    /\ children \in Children
    /\ range \in Ranges
    /\ map_iter = Ascending({k \in MapKey : /\ children[k] # Clean
                                            /\ Above(range[1], k) /\ Below(range[2], k)})
    /\ next_key = range[1]
    /\ end_key = range[2]
    /\ front = <<>> /\ back = <<>>
    /\ result = "new"
    /\ calls = 0

Next == next \/ next_back

Spec == Init /\ [][Next]_vars

-----------------------------------------------------------------------------

\* The entries of the map in the range, in ascending order: a child in memory
\* hides the value in the store.
InRange ==
    LET present == {k \in MapKey : /\ Above(range[1], k) /\ Below(range[2], k)
                                   /\ \/ children[k] = "mem"
                                      \/ children[k] = Clean /\ k \in store}
        keys == Ascending(present)
    IN  [i \in DOMAIN keys |-> [key |-> keys[i],
                                value |-> IF children[keys[i]] = "mem" THEN "mem" ELSE "value"]]

(***************************************************************************)
(* Map::iter and range yield the entries of the map that are in the range, *)
(* each once with its current value, ascending from the front and          *)
(* descending from the back, however calls at the two ends alternate; the  *)
(* entries of the substores of its values are not among them.  A call      *)
(* returns None only when all of the entries were yielded.                 *)
(***************************************************************************)
YieldsEntriesInOrder ==
    /\ Len(front) + Len(back) <= Len(InRange)
    /\ IsPrefix(front, InRange)
    /\ IsPrefix(back, Reverse(InRange))
    /\ result = "none" => Len(front) + Len(back) = Len(InRange)
=============================================================================
