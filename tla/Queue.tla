-------------------------------- MODULE Queue ---------------------------------
(***************************************************************************)
(* What a Deque promises: a sequence that is changed at both ends, filtered *)
(* and saved as a whole.                                                    *)
(***************************************************************************)
EXTENDS Naturals, Sequences

CONSTANT Value

VARIABLES queue,   \* the elements
          saved,   \* the elements as they were last saved
          filter   \* the filter that is running: the values it keeps, whether it
                   \* may change their order and whether it has seen every element

NoFilter == [running |-> FALSE, unordered |-> FALSE, keep |-> {}, complete |-> FALSE]

QueueInit == queue = <<>> /\ saved = <<>> /\ filter = NoFilter

Front(q) == SubSeq(q, 1, Len(q) - 1)

\* q becomes r.
Push(q, r) == \E v \in Value : r = Append(q, v) \/ r = <<v>> \o q
Pop(q, r)  == q # <<>> /\ (r = Tail(q) \/ r = Front(q))

Assign(q, r) == \E i \in {1, Len(q)} \cap DOMAIN q, v \in Value : r = [q EXCEPT ![i] = v]

Exchange(q, r) == \E i, j \in DOMAIN q : r = [q EXCEPT ![i] = q[j], ![j] = q[i]]

\* The element at i is removed and the one at an end takes its place.
SwapRemove(q, r) ==
    \E i \in DOMAIN q :
       \/ r = Tail([q EXCEPT ![i] = Head(q)])
       \/ r = Front([q EXCEPT ![i] = q[Len(q)]])

Edit(q, r) ==
    Push(q, r) \/ Pop(q, r) \/ Assign(q, r) \/ Exchange(q, r) \/ SwapRemove(q, r)

Begin ==
    /\ ~filter.running
    /\ \E keep \in SUBSET Value, unordered \in BOOLEAN, complete \in BOOLEAN :
          filter' = [running |-> TRUE, unordered |-> unordered, keep |-> keep, complete |-> complete]
    /\ UNCHANGED <<queue, saved>>

Complete ==
    /\ filter.running
    /\ filter' = [running |-> TRUE, unordered |-> filter.unordered, keep |-> filter.keep,
                  complete |-> TRUE]
    /\ UNCHANGED <<queue, saved>>

\* What is left are elements of the queue, each once: f says which.  All that
\* are kept are among them, and only they and in their order once every element
\* was seen.  One that fails half way may have changed the order, and an ordered
\* one has removed nothing.
Left(q, f) ==
    /\ q = [i \in DOMAIN f |-> queue[f[i]]]
    /\ \A i, j \in DOMAIN f : f[i] = f[j] => i = j
    /\ \A n \in DOMAIN queue : queue[n] \in filter.keep => \E i \in DOMAIN f : f[i] = n
    /\ filter.complete => \A i \in DOMAIN f : q[i] \in filter.keep
    /\ ~filter.unordered =>
         IF filter.complete THEN \A i, j \in DOMAIN f : i < j => f[i] < f[j]
         ELSE Len(q) = Len(queue)

End ==
    /\ filter.running /\ filter' = NoFilter
    /\ UNCHANGED saved
    /\ \E f \in [1..Len(queue') -> DOMAIN queue] : Left(queue', f)

QueueNext ==
    \/ ~filter.running /\ Edit(queue, queue') /\ UNCHANGED <<saved, filter>>
    \/ ~filter.running /\ saved' = queue /\ UNCHANGED <<queue, filter>>
    \/ queue' = saved /\ filter' = NoFilter /\ UNCHANGED saved
    \/ Begin \/ Complete \/ End

QueueSpec == QueueInit /\ [][QueueNext]_<<queue, saved, filter>>
=============================================================================
