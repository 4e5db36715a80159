-------------------------------- MODULE Deque ---------------------------------
(***************************************************************************)
(* Deque<T> (collections/deque.rs): the elements are the values of a Map   *)
(* at the indices from head up to tail, and head and tail are saved beside *)
(* it.  The Map is a buffer over what is stored, as in MapCollection for   *)
(* plain values.                                                           *)
(***************************************************************************)
EXTENDS LayeredStore, Naturals, Sequences

CONSTANTS MaxIndex,   \* the largest index (u64::MAX in the code)
          Midpoint    \* where an empty deque starts (u64::MAX / 2)

Index == 0..MaxIndex

DequeAssumption == MaxIndex \in Nat /\ Midpoint \in Index

VARIABLES head, tail,       \* Meta
          items, stored,    \* the items of the Map, and what its store holds
          saved,            \* Meta as it was last flushed
          loop,             \* the retain or retain_unordered that is running
          before            \* the elements when it started

deque_vars == <<head, tail, items, stored, saved, loop, before>>

Idle == [phase |-> "idle", curr |-> 0, retained |-> 0, len |-> 0, keep |-> {}]

-----------------------------------------------------------------------------

Slots == INSTANCE LayeredStore WITH Key <- Index

contents == Slots!View(items, stored)
len == tail - head
is_empty == len = 0
Elements(from, to, map) == [i \in 1..(to - from) |-> map[from + i - 1]]
Window == Elements(head, tail, contents)

\* Map::entry finds the key occupied if a child or a stored value is there,
\* and Map::remove records a removal only then.
InUse(k) == items[k] # Clean \/ stored[k] # Absent
Removed(k) == [items EXCEPT ![k] = IF InUse(k) THEN Absent ELSE Clean]

\* Map::swap of the elements at i and j.
Present(i) == head + i \in Index /\ contents[head + i] # Absent
Swapped(i, j) == [items EXCEPT ![head + i] = contents[head + j],
                               ![head + j] = contents[head + i]]

Free == loop = Idle

push_back(v) ==
    /\ Free /\ tail < MaxIndex
    /\ tail' = tail + 1
    /\ items' = [items EXCEPT ![tail] = v]
    /\ UNCHANGED <<head, stored, saved, loop, before>>

\* A variant that inserts at the index head had.
push_front_OffByOne(v) ==
    /\ Free /\ head > 0
    /\ head' = head - 1
    /\ items' = [items EXCEPT ![head] = v]
    /\ UNCHANGED <<tail, stored, saved, loop, before>>

push_front(v) ==
    /\ Free /\ head > 0
    /\ head' = head - 1
    /\ items' = [items EXCEPT ![head - 1] = v]
    /\ UNCHANGED <<tail, stored, saved, loop, before>>

pop_front ==
    /\ Free /\ ~is_empty
    /\ head' = head + 1
    /\ items' = Removed(head)
    /\ UNCHANGED <<tail, stored, saved, loop, before>>

pop_back ==
    /\ Free /\ ~is_empty
    /\ tail' = tail - 1
    /\ items' = Removed(tail - 1)
    /\ UNCHANGED <<head, stored, saved, loop, before>>

\* front_mut and back_mut with an assignment.
assign(i, v) ==
    /\ Free /\ ~is_empty /\ i \in {0, len - 1}
    /\ items' = [items EXCEPT ![head + i] = v]
    /\ UNCHANGED <<head, tail, stored, saved, loop, before>>

\* swap fails, and changes nothing, if an index is out of bounds.
swap_at(i, j) ==
    /\ Free /\ Present(i) /\ Present(j)
    /\ items' = Swapped(i, j)
    /\ UNCHANGED <<head, tail, stored, saved, loop, before>>

swap_remove_front(i) ==
    /\ Free /\ Present(i) /\ Present(0)
    /\ head' = head + 1
    /\ items' = [Swapped(i, 0) EXCEPT ![head] = Absent]
    /\ UNCHANGED <<tail, stored, saved, loop, before>>

swap_remove_back(i) ==
    /\ Free /\ ~is_empty /\ Present(i)
    /\ tail' = tail - 1
    /\ items' = [Swapped(i, len - 1) EXCEPT ![tail - 1] = Absent]
    /\ UNCHANGED <<head, stored, saved, loop, before>>

-----------------------------------------------------------------------------
(* retain and retain_unordered call the predicate on one element after the *)
(* other; keep is the set of values it accepts.                            *)

Start(phase, keep) ==
    /\ Free
    /\ loop' = [phase |-> phase, curr |-> 0, retained |-> 0, len |-> len, keep |-> keep]
    /\ before' = Window
    /\ UNCHANGED <<head, tail, items, stored, saved>>

retain(keep) == Start("scan", keep)
retain_unordered(keep) == Start("unordered", keep)

Finish == loop' = Idle /\ before' = <<>>

Item == contents[head + loop.curr]

\* The first loop of retain runs up to the first element that is not kept.
RetainScan ==
    /\ loop.phase = "scan" /\ loop.curr < loop.len
    /\ loop' = IF Item \in loop.keep
               THEN [loop EXCEPT !.curr = @ + 1, !.retained = @ + 1]
               ELSE [loop EXCEPT !.curr = @ + 1, !.phase = "shift"]
    /\ UNCHANGED <<head, tail, items, stored, saved, before>>

\* A variant that loses count when it moves an element.
RetainShift_NotCounted ==
    /\ loop.phase = "shift" /\ loop.curr < loop.len
    /\ items' = IF Item \in loop.keep THEN Swapped(loop.retained, loop.curr) ELSE items
    /\ loop' = [loop EXCEPT !.curr = @ + 1]
    /\ UNCHANGED <<head, tail, stored, saved, before>>

\* The second moves every element that is kept down to the others.
RetainShift ==
    /\ loop.phase = "shift" /\ loop.curr < loop.len
    /\ items' = IF Item \in loop.keep THEN Swapped(loop.retained, loop.curr) ELSE items
    /\ loop' = [loop EXCEPT !.curr = @ + 1,
                            !.retained = IF Item \in loop.keep THEN @ + 1 ELSE @]
    /\ UNCHANGED <<head, tail, stored, saved, before>>

\* The last pops what is left behind them.
RetainPop ==
    /\ loop.phase \in {"scan", "shift"} /\ loop.curr = loop.len
    /\ \/ /\ len > loop.retained
          /\ tail' = tail - 1
          /\ items' = Removed(tail - 1)
          /\ UNCHANGED <<head, stored, saved, loop, before>>
       \/ /\ len <= loop.retained
          /\ Finish
          /\ UNCHANGED <<head, tail, items, stored, saved>>

RetainUnorderedStep ==
    /\ loop.phase = "unordered"
    /\ \/ /\ loop.curr < loop.len /\ Item \in loop.keep
          /\ loop' = [loop EXCEPT !.curr = @ + 1]
          /\ UNCHANGED <<head, tail, items, stored, saved, before>>
       \/ /\ loop.curr < loop.len /\ Item \notin loop.keep
          /\ tail' = tail - 1
          /\ items' = [Swapped(loop.curr, len - 1) EXCEPT ![tail - 1] = Absent]
          /\ loop' = [loop EXCEPT !.len = @ - 1]
          /\ UNCHANGED <<head, stored, saved, before>>
       \/ /\ loop.curr = loop.len
          /\ Finish
          /\ UNCHANGED <<head, tail, items, stored, saved>>

\* The predicate returns an error, which retain passes on.
RetainFails ==
    /\ loop # Idle /\ loop.curr < loop.len
    /\ Finish
    /\ UNCHANGED <<head, tail, items, stored, saved>>

-----------------------------------------------------------------------------

\* State::flush writes the Meta and the Map, and load reads them back.
flush ==
    /\ Free
    /\ stored' = Slots!Write(items, stored)
    /\ items' = Slots!EmptyBuffer
    /\ saved' = [head |-> head, tail |-> tail]
    /\ UNCHANGED <<head, tail, loop, before>>

\* The deque is dropped without a flush, as after a panic, and loaded again.
Drop ==
    /\ items' = Slots!EmptyBuffer
    /\ head' = saved.head
    /\ tail' = saved.tail
    /\ Finish
    /\ UNCHANGED <<stored, saved>>

DequeInit ==
    /\ head = Midpoint /\ tail = Midpoint
    /\ items = Slots!EmptyBuffer /\ stored = Slots!EmptyTree
    /\ saved = [head |-> Midpoint, tail |-> Midpoint]
    /\ loop = Idle
    /\ before = <<>>

DequeNext ==
    \/ \E v \in Value : push_back(v) \/ push_front(v)
    \/ pop_front \/ pop_back
    \/ \E i \in Index, v \in Value : assign(i, v)
    \/ \E i, j \in Index : swap_at(i, j)
    \/ \E i \in Index : swap_remove_front(i) \/ swap_remove_back(i)
    \/ \E keep \in SUBSET Value : retain(keep) \/ retain_unordered(keep)
    \/ RetainScan \/ RetainShift \/ RetainPop \/ RetainUnorderedStep \/ RetainFails
    \/ flush \/ Drop

DequeSpec == DequeInit /\ [][DequeNext]_deque_vars

-----------------------------------------------------------------------------

(***************************************************************************)
(* The Map has a value at an index exactly if it is between head and tail: *)
(* there are "no removed, None values in the Deque between flushes", so    *)
(* the unwrap in retain is safe and iter yields the elements only.  The    *)
(* same holds of what was flushed.                                         *)
(***************************************************************************)
NoGaps ==
    \A i \in Index : /\ contents[i] # Absent <=> head <= i /\ i < tail
                     /\ stored[i] # Absent <=> saved.head <= i /\ i < saved.tail

Q == INSTANCE Queue WITH
       queue  <- IF loop = Idle THEN Window ELSE before,
       saved  <- Elements(saved.head, saved.tail, stored),
       filter <- [running   |-> loop # Idle,
                  unordered |-> loop.phase = "unordered",
                  keep      |-> loop.keep,
                  complete  |-> loop # Idle /\ loop.curr = loop.len]

(***************************************************************************)
(* A Deque behaves as a sequence: pushes and pops at its ends and swaps    *)
(* change it as they should, a flush saves all of it and dropping it       *)
(* brings back what was saved.  retain keeps the accepted elements in      *)
(* their order, retain_unordered in some order; one that fails half way    *)
(* has lost none of the accepted elements and invented none.               *)
(***************************************************************************)
ImplementsQueue == Q!QueueSpec

=============================================================================
