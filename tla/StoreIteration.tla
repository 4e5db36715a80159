--------------------------- MODULE StoreIteration ----------------------------
(***************************************************************************)
(* Ordered reads through a stack of stores: BufStore::get_next and         *)
(* get_prev with iter_merge_next, the same methods of the store at the     *)
(* bottom, the key prefix of Store, and the double-ended Iter on top,      *)
(* which keeps its place while the stores are written to.                  *)
(***************************************************************************)
EXTENDS LayeredStore, Bytes, SequencesExt

CONSTANTS BottomIsMerk, \* the store at the bottom: a MerkStore, or a MapStore
          InitialTrees, \* what the bottom store may hold
          StorePrefixes, \* the prefixes of the Stores that are read
          Ranges,     \* the <<start, end>> bounds an Iter is created with
          MaxWrites,  \* bound: writes after the start
          MaxCalls    \* bound: calls of next and next_back

VARIABLES layers,   \* the maps of the BufStores, the topmost first
          tree,     \* the entries of the store at the bottom
          writes,
          iter,     \* the Iter: bounds, done, and what it yielded
          stable,   \* keys that had a value ever since iter was created
          calls

vars == <<layers, tree, writes, iter, stable, calls>>

-----------------------------------------------------------------------------
(* Ordered reads.  An optional entry is a sequence of at most one          *)
(* <<key, value>>, an iterator the sequence of the entries to come.        *)

Sorted(entries, increasing) ==
    SetToSortSeq(entries, LAMBDA e, f : IF increasing THEN Less(e[1], f[1])
                                                      ELSE Less(f[1], e[1]))

Entries(map) == {<<k, map[k]>> : k \in {j \in Key : map[j] # Clean}}
Present(t)   == {<<k, t[k]>> : k \in {j \in Key : t[j] # Absent}}

After(entries, key)  == {e \in entries : Less(key, e[1])}
Before(entries, key) == {e \in entries : Less(e[1], key)}
OptionalFirst(seq) == IF seq = <<>> THEN <<>> ELSE <<Head(seq)>>

\* The end of the keyspace, for get_prev(None): after every key.
End == <<MaxByte + 1>>

\* The store at the bottom.  MapStore (BufStore<Empty>) looks the entry up in
\* its ordered map.  MerkStore seeks to the first key at or after the given
\* one and, if that is the key itself, steps back.
BottomNext(key) == OptionalFirst(Sorted(After(Present(tree), key), TRUE))

MerkPrev(key) ==
    LET from == Sorted(Present(tree) \ Before(Present(tree), key), TRUE)
    IN  IF from # <<>> /\ from[1][1] = key
        THEN OptionalFirst(Sorted(Before(Present(tree), key), FALSE))
        ELSE OptionalFirst(from)

BottomPrev(key) ==
    CASE key = End -> OptionalFirst(Sorted(Present(tree), FALSE))
      [] key # End /\ BottomIsMerk -> MerkPrev(key)
      [] OTHER -> OptionalFirst(Sorted(Before(Present(tree), key), FALSE))

\* A variant of the merge: the entry below is not consumed with the one that
\* shadows it.
RECURSIVE iter_merge_next_NotConsumed(_, _, _)
iter_merge_next_NotConsumed(map_iter, store_iter, increasing) ==
    CASE map_iter = <<>> -> OptionalFirst(store_iter)
      [] map_iter # <<>> /\ store_iter # <<>>
           /\ (IF increasing THEN Less(store_iter[1][1], map_iter[1][1])
                             ELSE Less(map_iter[1][1], store_iter[1][1])) ->
           <<Head(store_iter)>>
      [] OTHER ->
           IF Head(map_iter)[2] # Absent THEN <<Head(map_iter)>>
           ELSE iter_merge_next_NotConsumed(Tail(map_iter), store_iter, increasing)

\* The entry the two iterators yield next: map entries shadow those of the
\* backing store with the same key, deletions are skipped.
RECURSIVE iter_merge_next(_, _, _)
iter_merge_next(map_iter, store_iter, increasing) ==
    LET past(m, s) == IF increasing THEN Less(s, m) ELSE Less(m, s)
    IN  CASE map_iter = <<>> -> OptionalFirst(store_iter)
          [] map_iter # <<>> /\ store_iter # <<>>
               /\ past(map_iter[1][1], store_iter[1][1]) -> <<Head(store_iter)>>
          [] OTHER ->
               LET rest == IF store_iter # <<>>
                              /\ store_iter[1][1] = map_iter[1][1]
                           THEN Tail(store_iter) ELSE store_iter
               IN  IF Head(map_iter)[2] # Absent THEN <<Head(map_iter)>>
                   ELSE iter_merge_next(Tail(map_iter), rest, increasing)

RECURSIVE get_next(_, _), get_prev(_, _), drain_next(_, _), drain_prev(_, _)

\* BufStore::get_next and get_prev of layer n; below the last layer is the
\* bottom store.
get_next(n, key) ==
    IF n > Len(layers) THEN BottomNext(key)
    ELSE iter_merge_next(Sorted(After(Entries(layers[n]), key), TRUE),
                         drain_next(n + 1, key), TRUE)

get_prev(n, key) ==
    IF n > Len(layers) THEN BottomPrev(key)
    ELSE iter_merge_next(
           Sorted(Before(Entries(layers[n]), key), FALSE),
           drain_prev(n + 1, key), FALSE)

\* What an Iter over layer n yields from key (exclusive) up, and from key
\* down: an entry that is not within its bounds ends it.
drain_next(n, key) ==
    LET e == get_next(n, key)
    IN  IF e = <<>> THEN <<>> ELSE e \o drain_next(n, e[1][1])

drain_prev(n, key) ==
    LET e == get_prev(n, key)
    IN  IF e = <<>> THEN <<>>
        ELSE IF ~Less(e[1][1], key) THEN <<>>
        ELSE e \o drain_prev(n, e[1][1])

RECURSIVE get(_, _)
get(n, key) ==
    CASE n > Len(layers) -> tree[key]
      [] n <= Len(layers) /\ layers[n][key] # Clean -> layers[n][key]
      [] OTHER -> get(n + 1, key)

\* Read::get_next_inclusive and get_prev_inclusive.
get_next_inclusive(key) ==
    IF get(1, key) # Absent THEN <<<<key, get(1, key)>>>> ELSE get_next(1, key)
get_prev_inclusive(key) ==
    IF get(1, key) # Absent THEN <<<<key, get(1, key)>>>> ELSE get_prev(1, key)

-----------------------------------------------------------------------------
(* Store: the part of the keyspace under a prefix. *)

\* A variant that removes as many bytes without looking at them.
Unprefixed_Unfiltered(prefix, entry) ==
    IF entry # <<>>
    THEN <<<<SubSeq(entry[1][1], Len(prefix) + 1, Len(entry[1][1])), entry[1][2]>>>>
    ELSE <<>>

\* The entry found in the backing store is dropped if it is not under the
\* prefix, and the prefix is removed from its key.
Unprefixed(prefix, entry) ==
    IF entry # <<>> /\ IsPrefix(prefix, entry[1][1])
    THEN <<<<SubSeq(entry[1][1], Len(prefix) + 1, Len(entry[1][1])), entry[1][2]>>>>
    ELSE <<>>

StoreGetNext(prefix, key) == Unprefixed(prefix, get_next(1, prefix \o key))

StoreGetPrev(prefix, key) ==
    Unprefixed(prefix,
      get_prev(1, CASE key # End -> prefix \o key
                    [] key = End /\ prefix # <<>> -> increment_bytes(prefix)
                    [] OTHER -> End))

-----------------------------------------------------------------------------
(* Iter: next and next_back advance the bound of their end past the entry  *)
(* they yield, and the iterator is done when they find none within bounds. *)

Unbounded == [kind |-> "Unbounded", key |-> <<>>]
Bounds == {Unbounded} \cup [kind : {"Included", "Excluded"}, key : Key]

RangesAssumption == Ranges \subseteq Bounds \X Bounds

InBounds(i, key) ==
    /\ i.lo.kind = "Included" => ~Less(key, i.lo.key)
    /\ i.lo.kind = "Excluded" => Less(i.lo.key, key)
    /\ i.hi.kind = "Included" => ~Less(i.hi.key, key)
    /\ i.hi.kind = "Excluded" => Less(key, i.hi.key)

NextEntry ==
    CASE iter.lo.kind = "Unbounded" -> get_next_inclusive(<<>>)
      [] iter.lo.kind = "Included"  -> get_next_inclusive(iter.lo.key)
      [] iter.lo.kind = "Excluded"  -> get_next(1, iter.lo.key)

PrevEntry ==
    CASE iter.hi.kind = "Unbounded" -> get_prev(1, End)
      [] iter.hi.kind = "Included"  -> get_prev_inclusive(iter.hi.key)
      [] iter.hi.kind = "Excluded"  -> get_prev(1, iter.hi.key)

Created == "lo" \in DOMAIN iter

into_iter(lo, hi) ==
    /\ ~Created
    /\ iter' = [lo |-> lo, hi |-> hi, done |-> FALSE, front |-> <<>>, back |-> <<>>]
    /\ stable' = {k \in Key : get(1, k) # Absent}
    /\ UNCHANGED <<layers, tree, writes, calls>>

CallNext ==
    /\ Created /\ calls < MaxCalls
    /\ calls' = calls + 1
    /\ \/ iter.done /\ UNCHANGED iter
       \/ /\ ~iter.done
          /\ \E entry \in {NextEntry} :
                iter' = IF entry = <<>> \/ ~InBounds(iter, entry[1][1])
                        THEN [iter EXCEPT !.done = TRUE]
                        ELSE [iter EXCEPT
                                !.lo = [kind |-> "Excluded", key |-> entry[1][1]],
                                !.front = Append(@, entry[1][1])]
    /\ UNCHANGED <<layers, tree, writes, stable>>

\* A variant that keeps the yielded key within the bounds.
CallNextBack_Included ==
    /\ Created /\ calls < MaxCalls
    /\ calls' = calls + 1
    /\ \/ iter.done /\ UNCHANGED iter
       \/ /\ ~iter.done
          /\ \E entry \in {PrevEntry} :
                iter' = IF entry = <<>> \/ ~InBounds(iter, entry[1][1])
                        THEN [iter EXCEPT !.done = TRUE]
                        ELSE [iter EXCEPT
                                !.hi = [kind |-> "Included", key |-> entry[1][1]],
                                !.back = Append(@, entry[1][1])]
    /\ UNCHANGED <<layers, tree, writes, stable>>

CallNextBack ==
    /\ Created /\ calls < MaxCalls
    /\ calls' = calls + 1
    /\ \/ iter.done /\ UNCHANGED iter
       \/ /\ ~iter.done
          /\ \E entry \in {PrevEntry} :
                iter' = IF entry = <<>> \/ ~InBounds(iter, entry[1][1])
                        THEN [iter EXCEPT !.done = TRUE]
                        ELSE [iter EXCEPT
                                !.hi = [kind |-> "Excluded", key |-> entry[1][1]],
                                !.back = Append(@, entry[1][1])]
    /\ UNCHANGED <<layers, tree, writes, stable>>

\* BufStore::put and delete record the write in the topmost map.
Put(k, v) ==
    /\ writes < MaxWrites
    /\ writes' = writes + 1
    /\ layers' = [layers EXCEPT ![1][k] = v]
    /\ UNCHANGED <<tree, iter, stable, calls>>

Delete(k) ==
    /\ writes < MaxWrites
    /\ writes' = writes + 1
    /\ layers' = [layers EXCEPT ![1][k] = Absent]
    /\ stable' = stable \ {k}
    /\ UNCHANGED <<tree, iter, calls>>

FlushTop ==
    /\ layers[1] # EmptyBuffer
    /\ layers' = [layers EXCEPT ![1] = EmptyBuffer,
                                ![2] = Flush(layers[1], layers[2])]
    /\ UNCHANGED <<tree, writes, iter, stable, calls>>

Init ==
    /\ layers = <<EmptyBuffer, EmptyBuffer>>
    /\ tree \in InitialTrees
    /\ writes = 0
    /\ iter = [created |-> FALSE]
    /\ stable = {}
    /\ calls = 0

Next ==
    \/ \E r \in Ranges : into_iter(r[1], r[2])
    \/ CallNext
    \/ CallNextBack
    \/ \E k \in Key, v \in Value : Put(k, v)
    \/ \E k \in Key : Delete(k)
    \/ FlushTop

Spec == Init /\ [][Next]_vars

-----------------------------------------------------------------------------

\* Everything that can be read by key, and the entry with the least or the
\* greatest key among some of them.
Visible == {<<k, get(1, k)>> : k \in {j \in Key : get(1, j) # Absent}}
First(entries) == {e \in entries : \A f \in entries : ~Less(f[1], e[1])}
Final(entries) == {e \in entries : \A f \in entries : ~Less(e[1], f[1])}

(***************************************************************************)
(* Read::get_next and get_prev find the entry that comes directly after or *)
(* before the key among all the entries that get returns, deletions and    *)
(* values shadowed in both BufStores included.  (An Iter changes nothing   *)
(* of this: the states before one is created are all there are.)           *)
(***************************************************************************)
OrderedReadsMatchPointReads ==
    ~Created =>
      /\ \A k \in Key : ToSet(get_next(1, k)) = First(After(Visible, k))
      /\ \A k \in Key \cup {End} : ToSet(get_prev(1, k)) = Final(Before(Visible, k))

\* The entries of the Store with a prefix, under the keys it knows them by.
Inside(prefix) ==
    {<<SubSeq(e[1], Len(prefix) + 1, Len(e[1])), e[2]>> :
       e \in {f \in Visible : IsPrefix(prefix, f[1])}}

(***************************************************************************)
(* A Store reads the entries under its prefix and no others: Store's       *)
(* get_next and get_prev find the entry directly after, directly before,   *)
(* and (for None) at the end of the part of the keyspace it stands for.    *)
(***************************************************************************)
StoresAreConfined ==
    ~Created =>
      \A p \in StorePrefixes :
        /\ \A k \in Key : p \o k \in Key =>
             /\ ToSet(StoreGetNext(p, k)) = First(After(Inside(p), k))
             /\ ToSet(StoreGetPrev(p, k)) = Final(Before(Inside(p), k))
        /\ ToSet(StoreGetPrev(p, End)) = Final(Inside(p))

(***************************************************************************)
(* An Iter used from both ends while entries are put and deleted yields    *)
(* ascending keys at the front and descending keys at the back, which do   *)
(* not overlap; and once it returned None, no entry that was there ever    *)
(* since it was created is left between its two ends: every one was        *)
(* yielded, and once.                                                      *)
(***************************************************************************)
IterationIsExact ==
    Created =>
      /\ \A i, j \in DOMAIN iter.front : i < j => Less(iter.front[i], iter.front[j])
      /\ \A i, j \in DOMAIN iter.back : i < j => Less(iter.back[j], iter.back[i])
      /\ \A i \in DOMAIN iter.front, j \in DOMAIN iter.back :
           Less(iter.front[i], iter.back[j])
      /\ iter.done => \A k \in stable : ~InBounds(iter, k)
=============================================================================
