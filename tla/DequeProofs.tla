----------------------------- MODULE DequeProofs -----------------------------
(***************************************************************************)
(* A Deque has no gaps and is a queue, for any values and any largest      *)
(* index.                                                                  *)
(***************************************************************************)
EXTENDS Deque, TLAPS

USE ZenonT(60)

-----------------------------------------------------------------------------
(* Sequences.                                                              *)

\* A function on 1..n is a sequence of length n.
LEMMA IsSeq ==
    ASSUME NEW S, NEW n \in Nat, NEW f \in [1..n -> S] PROVE f \in Seq(S) /\ Len(f) = n
<1>1. f \in Seq(S) /\ DOMAIN f = 1..n
  BY SMTT(60)
<1>. QED
  BY <1>1, SMTT(60)

\* Two sequences with the same elements are the same.
LEMMA SameSeq ==
    ASSUME NEW S, NEW q \in Seq(S), NEW r \in Seq(S), Len(q) = Len(r),
           \A i \in 1..Len(q) : q[i] = r[i]
    PROVE  q = r
  BY SMTT(60)

\* A sequence with one element replaced.
LEMMA ExceptAt ==
    ASSUME NEW S, NEW q \in Seq(S), NEW m \in 1..Len(q), NEW v \in S, NEW e, e = [q EXCEPT ![m] = v]
    PROVE  /\ e \in Seq(S) /\ Len(e) = Len(q)
           /\ \A i \in 1..Len(q) : e[i] = IF i = m THEN v ELSE q[i]
<1>1. e \in [1..Len(q) -> S] /\ \A i \in 1..Len(q) : e[i] = IF i = m THEN v ELSE q[i]
  BY SMTT(60)
<1>. QED
  BY <1>1, IsSeq, SMTT(60)

\* The elements of two sequences one after the other.
LEMMA Joined ==
    ASSUME NEW S, NEW w \in Seq(S), NEW q \in Seq(S)
    PROVE  /\ w \o q \in Seq(S) /\ Len(w \o q) = Len(w) + Len(q)
           /\ \A i \in 1..(Len(w) + Len(q)) :
                 (w \o q)[i] = IF i <= Len(w) THEN w[i] ELSE q[i - Len(w)]
  BY SMTT(60)

-----------------------------------------------------------------------------
(* The elements of a map between two indices.                              *)

\* A map with a value at the indices from h up to t and at no other.
Held(h, t, c) ==
    /\ h \in Index /\ t \in Index /\ h <= t
    /\ c \in [Index -> Value \union {Absent}]
    /\ \A i \in Index : c[i] # Absent <=> h <= i /\ i < t

\* The indices of a deque are natural numbers.
LEMMA IndexType == ASSUME DequeAssumption PROVE Index \subseteq Nat /\ MaxIndex \in Nat
  BY SMTT(60) DEF DequeAssumption, Index

\* The elements between two indices are the values at them, in order.
LEMMA ElementsAre ==
    ASSUME DequeAssumption, NEW h, NEW t, NEW c, Held(h, t, c), NEW q, q = Elements(h, t, c)
    PROVE  /\ q \in Seq(Value) /\ Len(q) = t - h /\ t - h \in Nat
           /\ \A i \in 1..(t - h) : q[i] = c[h + i - 1] /\ h + i - 1 \in Index /\ q[i] \in Value
<1>1. h \in Nat /\ t \in Nat /\ h <= t /\ t <= MaxIndex /\ MaxIndex \in Nat
  BY SMTT(60) DEF Held, DequeAssumption, Index
<1>2. PICK n \in Nat : n = t - h
  BY <1>1, SMTT(60)
<1>3. q = [i \in 1..n |-> c[h + i - 1]]
  BY <1>2 DEF Elements
<1>4. ASSUME NEW i \in 1..n PROVE h + i - 1 \in Index /\ c[h + i - 1] \in Value
  <2>1. h + i - 1 \in Index /\ h <= h + i - 1 /\ h + i - 1 < t
    BY <1>1, <1>2, SMTT(60) DEF Index
  <2>. QED
    BY <2>1, StoreAssumption DEF Held
<1>5. q \in [1..n -> Value]
  BY <1>3, <1>4
<1>6. q \in Seq(Value)
  BY <1>2, <1>5, IsSeq
<1>7. Len(q) = n
  BY <1>3, <1>6, SMTT(60)
<1>. QED
  BY <1>2, <1>3, <1>4, <1>6, <1>7

\* d is c with v at k.
Puts(c, k, v, d) ==
    d \in [Index -> Value \union {Absent}] /\ \A i \in Index : d[i] = IF i = k THEN v ELSE c[i]

\* A sequence of the values between two indices is that of the elements.
LEMMA SameElements ==
    ASSUME DequeAssumption, NEW h, NEW t, NEW c, Held(h, t, c), NEW r \in Seq(Value), Len(r) = t - h,
           \A i \in 1..(t - h) : r[i] = c[h + i - 1]
    PROVE  Elements(h, t, c) = r
<1>1. PICK q : q = Elements(h, t, c)
  OBVIOUS
<1>2. /\ q \in Seq(Value) /\ Len(q) = t - h
      /\ \A i \in 1..(t - h) : q[i] = c[h + i - 1]
  BY <1>1, ElementsAre, SMTT(60)
<1>3. \A i \in 1..Len(q) : q[i] = r[i]
  BY <1>2
<1>4. q = r
  BY <1>2, <1>3, SameSeq
<1>. QED
  BY <1>1, <1>4

\* A value put at the tail index comes last.
LEMMA PushBack ==
    ASSUME DequeAssumption, NEW h, NEW t, NEW c, Held(h, t, c), t < MaxIndex, NEW v \in Value,
           NEW d, Puts(c, t, v, d)
    PROVE  /\ Held(h, t + 1, d)
           /\ Elements(h, t + 1, d) = Append(Elements(h, t, c), v)
<1>1. h \in Nat /\ t \in Nat /\ h <= t /\ t < MaxIndex /\ MaxIndex \in Nat
  BY SMTT(60) DEF Held, DequeAssumption, Index
<1>2. PICK u : u = t + 1
  OBVIOUS
<1>3. Held(h, u, d)
  BY <1>1, <1>2, StoreAssumption, SMTT(60) DEF Held, Index, Puts
<1>4. PICK q : q = Elements(h, t, c)
  OBVIOUS
<1>5. /\ q \in Seq(Value) /\ Len(q) = t - h
      /\ \A i \in 1..(t - h) : q[i] = c[h + i - 1]
  BY <1>4, ElementsAre, SMTT(60)
<1>6. PICK r : r = Append(q, v)
  OBVIOUS
<1>7. r \in Seq(Value) /\ Len(r) = u - h
  BY <1>1, <1>2, <1>5, <1>6, SMTT(60)
<1>8. ASSUME NEW i \in 1..(u - h) PROVE r[i] = d[h + i - 1]
  <2>1. h + i - 1 \in Index
    BY <1>1, <1>2, SMTT(60) DEF Index
  <2>2. d[h + i - 1] = IF h + i - 1 = t THEN v ELSE c[h + i - 1]
    BY <2>1 DEF Puts
  <2>3. r[i] = IF i = t - h + 1 THEN v ELSE c[h + i - 1]
    BY <1>1, <1>2, <1>5, <1>6, SMTT(60)
  <2>. QED
    BY <1>1, <1>2, <2>2, <2>3, SMTT(60)
<1>9. Elements(h, u, d) = r
  BY <1>3, <1>7, <1>8, SameElements
<1>. QED
  BY <1>2, <1>3, <1>4, <1>6, <1>9

\* A value put below the head index comes first.
LEMMA PushFront ==
    ASSUME DequeAssumption, NEW h, NEW t, NEW c, Held(h, t, c), h > 0, NEW v \in Value,
           NEW d, Puts(c, h - 1, v, d)
    PROVE  /\ Held(h - 1, t, d)
           /\ Elements(h - 1, t, d) = <<v>> \o Elements(h, t, c)
<1>1. h \in Nat /\ t \in Nat /\ h <= t /\ t <= MaxIndex /\ MaxIndex \in Nat
  BY SMTT(60) DEF Held, DequeAssumption, Index
<1>2. PICK g, u : g = h - 1 /\ u = t
  OBVIOUS
<1>3. Held(g, u, d)
  BY <1>1, <1>2, StoreAssumption, SMTT(60) DEF Held, Index, Puts
<1>4. PICK q : q = Elements(h, t, c)
  OBVIOUS
<1>5. /\ q \in Seq(Value) /\ Len(q) = t - h
      /\ \A i \in 1..(t - h) : q[i] = c[h + i - 1]
  BY <1>4, ElementsAre, SMTT(60)
<1>6. PICK r : r = <<v>> \o q
  OBVIOUS
<1>7. /\ r \in Seq(Value) /\ Len(r) = u - g
      /\ \A i \in 1..(u - g) : r[i] = IF i = 1 THEN v ELSE q[i - 1]
  <2>1. PICK w : w = <<v>>
    OBVIOUS
  <2>2. w \in Seq(Value) /\ Len(w) = 1 /\ w[1] = v
    BY <2>1, SMTT(60)
  <2>3. r = w \o q
    BY <1>6, <2>1
  <2>4. /\ w \o q \in Seq(Value) /\ Len(w \o q) = Len(w) + Len(q)
        /\ \A i \in 1..(Len(w) + Len(q)) :
              (w \o q)[i] = IF i <= Len(w) THEN w[i] ELSE q[i - Len(w)]
    BY <1>5, <2>2, Joined
  <2>5. /\ r \in Seq(Value) /\ Len(r) = 1 + (t - h)
        /\ \A i \in 1..(1 + (t - h)) : r[i] = IF i <= 1 THEN w[i] ELSE q[i - 1]
    BY <1>5, <2>2, <2>3, <2>4
  <2>6. u - g = 1 + (t - h)
    BY <1>1, <1>2, SMTT(60)
  <2>. QED
    BY <1>1, <2>2, <2>5, <2>6, SMTT(60)
<1>8. ASSUME NEW i \in 1..(u - g) PROVE r[i] = d[g + i - 1]
  <2>1. g + i - 1 \in Index
    BY <1>1, <1>2, SMTT(60) DEF Index
  <2>2. d[g + i - 1] = IF g + i - 1 = h - 1 THEN v ELSE c[g + i - 1]
    BY <2>1 DEF Puts
  <2>3. r[i] = IF i = 1 THEN v ELSE c[g + i - 1]
    <3>1. r[i] = IF i = 1 THEN v ELSE q[i - 1]
      BY <1>7
    <3>2. ASSUME i # 1 PROVE q[i - 1] = c[g + i - 1]
      <4>1. i - 1 \in 1..(t - h) /\ h + (i - 1) - 1 = g + i - 1
        BY <1>1, <1>2, <3>2, SMTT(60)
      <4>. QED
        BY <1>5, <4>1
    <3>. QED
      BY <3>1, <3>2
  <2>. QED
    BY <1>1, <1>2, <2>2, <2>3, SMTT(60)
<1>9. Elements(g, u, d) = r
  BY <1>3, <1>7, <1>8, SameElements
<1>. QED
  BY <1>2, <1>3, <1>4, <1>6, <1>9

\* Without the value at the head index the first element is gone.
LEMMA PopFront ==
    ASSUME DequeAssumption, NEW h, NEW t, NEW c, Held(h, t, c), h < t,
           NEW d, Puts(c, h, Absent, d)
    PROVE  /\ Held(h + 1, t, d)
           /\ Elements(h + 1, t, d) = Tail(Elements(h, t, c))
<1>1. h \in Nat /\ t \in Nat /\ h <= t /\ t <= MaxIndex /\ MaxIndex \in Nat
  BY SMTT(60) DEF Held, DequeAssumption, Index
<1>2. PICK g, u : g = h + 1 /\ u = t
  OBVIOUS
<1>3. Held(g, u, d)
  BY <1>1, <1>2, StoreAssumption, SMTT(60) DEF Held, Index, Puts
<1>4. PICK q : q = Elements(h, t, c)
  OBVIOUS
<1>5. /\ q \in Seq(Value) /\ Len(q) = t - h
      /\ \A i \in 1..(t - h) : q[i] = c[h + i - 1]
  BY <1>4, ElementsAre, SMTT(60)
<1>6. PICK r : r = Tail(q)
  OBVIOUS
<1>7. r \in Seq(Value) /\ Len(r) = u - g
  BY <1>1, <1>2, <1>5, <1>6, SMTT(60)
<1>8. ASSUME NEW i \in 1..(u - g) PROVE r[i] = d[g + i - 1]
  <2>1. g + i - 1 \in Index
    BY <1>1, <1>2, SMTT(60) DEF Index
  <2>2. d[g + i - 1] = IF g + i - 1 = h THEN Absent ELSE c[g + i - 1]
    BY <2>1 DEF Puts
  <2>3. r[i] = c[h + i]
    BY <1>1, <1>2, <1>5, <1>6, SMTT(60)
  <2>. QED
    BY <1>1, <1>2, <2>2, <2>3, SMTT(60)
<1>9. Elements(g, u, d) = r
  BY <1>3, <1>7, <1>8, SameElements
<1>. QED
  BY <1>2, <1>3, <1>4, <1>6, <1>9

\* Without the value below the tail index the last element is gone.
LEMMA PopBack ==
    ASSUME DequeAssumption, NEW h, NEW t, NEW c, Held(h, t, c), h < t,
           NEW d, Puts(c, t - 1, Absent, d)
    PROVE  /\ Held(h, t - 1, d)
           /\ Elements(h, t - 1, d) = SubSeq(Elements(h, t, c), 1, Len(Elements(h, t, c)) - 1)
<1>1. h \in Nat /\ t \in Nat /\ h <= t /\ t <= MaxIndex /\ MaxIndex \in Nat
  BY SMTT(60) DEF Held, DequeAssumption, Index
<1>2. PICK g, u : g = h /\ u = t - 1
  OBVIOUS
<1>3. Held(g, u, d)
  BY <1>1, <1>2, StoreAssumption, SMTT(60) DEF Held, Index, Puts
<1>4. PICK q : q = Elements(h, t, c)
  OBVIOUS
<1>5. /\ q \in Seq(Value) /\ Len(q) = t - h
      /\ \A i \in 1..(t - h) : q[i] = c[h + i - 1]
  BY <1>4, ElementsAre, SMTT(60)
<1>6. PICK r : r = SubSeq(q, 1, Len(q) - 1)
  OBVIOUS
<1>7. r \in Seq(Value) /\ Len(r) = u - g
  BY <1>1, <1>2, <1>5, <1>6, SMTT(60)
<1>8. ASSUME NEW i \in 1..(u - g) PROVE r[i] = d[g + i - 1]
  <2>1. g + i - 1 \in Index
    BY <1>1, <1>2, SMTT(60) DEF Index
  <2>2. d[g + i - 1] = IF g + i - 1 = t - 1 THEN Absent ELSE c[g + i - 1]
    BY <2>1 DEF Puts
  <2>3. r[i] = c[h + i - 1]
    BY <1>1, <1>2, <1>5, <1>6, SMTT(60)
  <2>. QED
    BY <1>1, <1>2, <2>2, <2>3, SMTT(60)
<1>9. Elements(g, u, d) = r
  BY <1>3, <1>7, <1>8, SameElements
<1>. QED
  BY <1>2, <1>3, <1>4, <1>6, <1>9

\* A value put at an index in between replaces the element there.
LEMMA AssignAt ==
    ASSUME DequeAssumption, NEW h, NEW t, NEW c, Held(h, t, c), NEW n \in 1..(t - h), NEW v \in Value,
           NEW d, Puts(c, h + n - 1, v, d)
    PROVE  /\ Held(h, t, d)
           /\ Elements(h, t, d) = [Elements(h, t, c) EXCEPT ![n] = v]
<1>1. h \in Nat /\ t \in Nat /\ h <= t /\ t <= MaxIndex /\ MaxIndex \in Nat
  BY SMTT(60) DEF Held, DequeAssumption, Index
<1>2. PICK g, u : g = h /\ u = t
  OBVIOUS
<1>3. Held(g, u, d)
  BY <1>1, <1>2, StoreAssumption, SMTT(60) DEF Held, Index, Puts
<1>4. PICK q : q = Elements(h, t, c)
  OBVIOUS
<1>5. /\ q \in Seq(Value) /\ Len(q) = t - h
      /\ \A i \in 1..(t - h) : q[i] = c[h + i - 1]
  BY <1>4, ElementsAre, SMTT(60)
<1>6. PICK r : r = [q EXCEPT ![n] = v]
  OBVIOUS
<1>7. r \in Seq(Value) /\ Len(r) = u - g
  BY <1>1, <1>2, <1>5, <1>6, SMTT(60)
<1>8. ASSUME NEW i \in 1..(u - g) PROVE r[i] = d[g + i - 1]
  <2>1. g + i - 1 \in Index
    BY <1>1, <1>2, SMTT(60) DEF Index
  <2>2. d[g + i - 1] = IF g + i - 1 = h + n - 1 THEN v ELSE c[g + i - 1]
    BY <2>1 DEF Puts
  <2>3. r[i] = IF i = n THEN v ELSE c[h + i - 1]
    BY <1>1, <1>2, <1>5, <1>6, SMTT(60)
  <2>. QED
    BY <1>1, <1>2, <2>2, <2>3, SMTT(60)
<1>9. Elements(g, u, d) = r
  BY <1>3, <1>7, <1>8, SameElements
<1>. QED
  BY <1>2, <1>3, <1>4, <1>6, <1>9

\* d is c with the values at k and l exchanged.
Swaps(c, k, l, d) ==
    /\ d \in [Index -> Value \union {Absent}]
    /\ \A i \in Index : d[i] = IF i = k THEN c[l] ELSE IF i = l THEN c[k] ELSE c[i]

\* Exchanging the values at two indices exchanges two elements.
LEMMA SwapAt ==
    ASSUME DequeAssumption, NEW h, NEW t, NEW c, Held(h, t, c),
           NEW m \in 1..(t - h), NEW n \in 1..(t - h),
           NEW d, Swaps(c, h + m - 1, h + n - 1, d)
    PROVE  /\ Held(h, t, d)
           /\ Elements(h, t, d) =
                 [Elements(h, t, c) EXCEPT ![m] = Elements(h, t, c)[n], ![n] = Elements(h, t, c)[m]]
<1>1. h \in Nat /\ t \in Nat /\ h <= t /\ t <= MaxIndex /\ MaxIndex \in Nat
  BY SMTT(60) DEF Held, DequeAssumption, Index
<1>2. PICK k, l : k = h + m - 1 /\ l = h + n - 1
  OBVIOUS
<1>3. Swaps(c, k, l, d) /\ k \in Index /\ l \in Index /\ h <= k /\ k < t /\ h <= l /\ l < t
  BY <1>1, <1>2, SMTT(60) DEF Index
<1>4. Held(h, t, d)
  BY <1>1, <1>3 DEF Held, Swaps
<1>5. PICK q : q = Elements(h, t, c)
  OBVIOUS
<1>6. /\ q \in Seq(Value) /\ Len(q) = t - h
      /\ \A i \in 1..(t - h) : q[i] = c[h + i - 1]
  BY <1>5, ElementsAre, SMTT(60)
<1>7. PICK r : r = [q EXCEPT ![m] = q[n], ![n] = q[m]]
  OBVIOUS
<1>8. r \in Seq(Value) /\ Len(r) = t - h
  BY <1>1, <1>6, <1>7, SMTT(60)
<1>9. ASSUME NEW i \in 1..(t - h) PROVE r[i] = d[h + i - 1]
  <2>1. h + i - 1 \in Index
    BY <1>1, SMTT(60) DEF Index
  <2>2. d[h + i - 1] = IF h + i - 1 = k THEN c[l] ELSE IF h + i - 1 = l THEN c[k] ELSE c[h + i - 1]
    BY <1>3, <2>1 DEF Swaps
  <2>3. r[i] = IF i = n THEN q[m] ELSE IF i = m THEN q[n] ELSE q[i]
    BY <1>1, <1>6, <1>7, SMTT(60)
  <2>4. q[m] = c[k] /\ q[n] = c[l] /\ q[i] = c[h + i - 1]
    BY <1>2, <1>6
  <2>. QED
    BY <1>1, <1>2, <2>2, <2>3, <2>4, SMTT(60)
<1>10. Elements(h, t, d) = r
  BY <1>4, <1>8, <1>9, SameElements
<1>. QED
  BY <1>4, <1>5, <1>7, <1>10

-----------------------------------------------------------------------------
(* How the elements q that are left follow from the elements b there were. *)

\* f says which of them each one was. None that is kept is missing.
Follows(f, q, b, keep) ==
    /\ f \in [1..Len(q) -> 1..Len(b)]
    /\ \A i \in 1..Len(q) : q[i] = b[f[i]]
    /\ \A i, j \in 1..Len(q) : f[i] = f[j] => i = j
    /\ \A n \in 1..Len(b) : b[n] \in keep => \E i \in 1..Len(q) : f[i] = n

\* retain: the elements up to curr that are kept come first and in order, and
\* those above curr are where they were.
Ordered(f, q, b, keep, curr, retained, total) ==
    /\ total = Len(b) /\ retained <= curr /\ curr <= total
    /\ retained <= Len(q) /\ Len(q) <= total /\ (curr < total => Len(q) = total)
    /\ \A i \in 1..retained : b[f[i]] \in keep /\ f[i] <= curr
    /\ \A i, j \in 1..retained : i < j => f[i] < f[j]
    /\ \A n \in 1..curr : b[n] \in keep => \E i \in 1..retained : f[i] = n
    /\ \A i \in (curr + 1)..Len(q) : f[i] = i

\* retain_unordered: the elements up to curr are kept.
Unordered(f, q, b, keep, curr, total) ==
    /\ total = Len(q) /\ curr <= total
    /\ \A i \in 1..curr : b[f[i]] \in keep

\* Two elements change places, and so do the places they come from.
Transposed(f, m, n, g, l) ==
    \A i \in 1..l : g[i] = IF i = m THEN f[n] ELSE IF i = n THEN f[m] ELSE f[i]
Exchanged(q, m, n, r) ==
    /\ q \in Seq(Value) /\ m \in 1..Len(q) /\ n \in 1..Len(q)
    /\ r \in Seq(Value) /\ Len(r) = Len(q) /\ Transposed(q, m, n, r, Len(q))

\* When retain or retain_unordered starts every element is where it was.
LEMMA FollowStart ==
    ASSUME NEW b \in Seq(Value), NEW keep
    PROVE  \E f : /\ Follows(f, b, b, keep)
                  /\ Ordered(f, b, b, keep, 0, 0, Len(b)) /\ Unordered(f, b, b, keep, 0, Len(b))
<1>1. PICK n \in Nat : n = Len(b)
  BY SMTT(60)
<1>2. PICK f : f = [i \in 1..n |-> i]
  OBVIOUS
<1>3. f \in [1..n -> 1..n] /\ \A i \in 1..n : f[i] = i
  BY <1>2
<1>4. Follows(f, b, b, keep)
  BY <1>1, <1>3 DEF Follows
<1>5. Ordered(f, b, b, keep, 0, 0, Len(b))
  BY <1>1, <1>3, SMTT(60) DEF Ordered
<1>6. Unordered(f, b, b, keep, 0, Len(b))
  BY <1>1, <1>3, SMTT(60) DEF Unordered
<1>. QED
  BY <1>4, <1>5, <1>6

\* retain passes an element that is not kept and leaves it where it is.
LEMMA OrderedSkips ==
    ASSUME NEW f, NEW q \in Seq(Value), NEW b \in Seq(Value), NEW keep, NEW curr \in Nat, NEW retained \in Nat,
           Follows(f, q, b, keep), Ordered(f, q, b, keep, curr, retained, Len(b)), curr < Len(b),
           q[curr + 1] \notin keep
    PROVE  Ordered(f, q, b, keep, curr + 1, retained, Len(b))
<1>1. PICK z \in Nat : z = Len(b)
  BY SMTT(60)
<1>2. /\ Len(q) = z /\ curr + 1 \in 1..z /\ f[curr + 1] = curr + 1
      /\ retained <= curr
  BY <1>1, SMTT(60) DEF Ordered
<1>3. b[curr + 1] \notin keep
  BY <1>2 DEF Follows
<1>4. \A i \in 1..retained : f[i] \in Nat /\ f[i] <= curr /\ b[f[i]] \in keep
  BY <1>1, <1>2, SMTT(60) DEF Follows, Ordered
<1>5. \A i \in 1..retained : b[f[i]] \in keep /\ f[i] <= curr + 1
  BY <1>4, SMTT(60)
<1>6. \A n \in 1..(curr + 1) : b[n] \in keep => \E i \in 1..retained : f[i] = n
  <2>1. \A n \in 1..(curr + 1) : n = curr + 1 \/ n \in 1..curr
    BY SMTT(60)
  <2>. QED
    BY <1>3, <2>1 DEF Ordered
<1>7. \A i \in (curr + 1 + 1)..Len(q) : f[i] = i
  <2>1. \A i \in (curr + 1 + 1)..Len(q) : i \in (curr + 1)..Len(q)
    BY <1>1, <1>2, SMTT(60)
  <2>. QED
    BY <2>1 DEF Ordered
<1>8. \A i, j \in 1..retained : i < j => f[i] < f[j]
  BY DEF Ordered
<1>9. retained <= curr + 1 /\ curr + 1 <= Len(b) /\ retained <= Len(q) /\ Len(q) <= Len(b) /\ Len(q) = Len(b)
  BY <1>1, <1>2, SMTT(60)
<1>. QED
  BY <1>5, <1>6, <1>7, <1>8, <1>9 DEF Ordered

\* retain swaps an element that is kept down to the next place of those that
\* are.
LEMMA OrderedKeeps ==
    ASSUME NEW f, NEW q \in Seq(Value), NEW b \in Seq(Value), NEW keep, NEW curr \in Nat, NEW retained \in Nat,
           Follows(f, q, b, keep), Ordered(f, q, b, keep, curr, retained, Len(b)), curr < Len(b),
           q[curr + 1] \in keep, NEW g, Transposed(f, retained + 1, curr + 1, g, Len(q))
    PROVE  Ordered(g, q, b, keep, curr + 1, retained + 1, Len(b))
<1>1. PICK z \in Nat : z = Len(b)
  BY SMTT(60)
<1>2. /\ Len(q) = z /\ curr + 1 \in 1..z /\ f[curr + 1] = curr + 1
      /\ retained <= curr /\ retained + 1 \in 1..z
  BY <1>1, SMTT(60) DEF Ordered
<1>3. b[curr + 1] \in keep
  <2>1. q[curr + 1] = b[f[curr + 1]]
    BY <1>2 DEF Follows
  <2>. QED
    BY <1>2, <2>1
<1>4. \A i \in 1..retained : f[i] \in Nat /\ f[i] <= curr /\ b[f[i]] \in keep
  <2>1. \A i \in 1..retained : i \in 1..Len(q)
    BY <1>1, <1>2, SMTT(60)
  <2>2. \A i \in 1..Len(q) : f[i] \in Nat
    BY <1>1, SMTT(60) DEF Follows
  <2>. QED
    BY <2>1, <2>2 DEF Ordered
<1>5. g[retained + 1] = curr + 1 /\ \A i \in 1..retained : g[i] = f[i]
  <2>1. \A i \in 1..retained : i \in 1..Len(q) /\ i # retained + 1 /\ i # curr + 1
    BY <1>1, <1>2, SMTT(60)
  <2>. QED
    BY <1>1, <1>2, <2>1 DEF Transposed
<1>6. \A i \in 1..(retained + 1) : i = retained + 1 \/ i \in 1..retained
  BY SMTT(60)
<1>7. \A i \in 1..(retained + 1) : b[g[i]] \in keep /\ g[i] <= curr + 1
  BY <1>3, <1>4, <1>5, <1>6, SMTT(60)
<1>8. \A n \in 1..(curr + 1) : b[n] \in keep => \E i \in 1..(retained + 1) : g[i] = n
  <2>1. \A n \in 1..(curr + 1) : n = curr + 1 \/ n \in 1..curr
    BY SMTT(60)
  <2>2. \A n \in 1..curr : b[n] \in keep => \E i \in 1..retained : g[i] = n
    BY <1>5 DEF Ordered
  <2>3. retained + 1 \in 1..(retained + 1) /\ \A i \in 1..retained : i \in 1..(retained + 1)
    BY SMTT(60)
  <2>4. \A n \in 1..curr : b[n] \in keep => \E i \in 1..(retained + 1) : g[i] = n
    BY <2>2, <2>3
  <2>5. \E i \in 1..(retained + 1) : g[i] = curr + 1
    BY <1>5, <2>3
  <2>. QED
    BY <2>1, <2>4, <2>5
<1>9. \A i \in (curr + 1 + 1)..Len(q) : g[i] = i
  <2>1. \A i \in (curr + 1 + 1)..Len(q) : i \in (curr + 1)..Len(q) /\ i \in 1..Len(q) /\ i # curr + 1 /\ i # retained + 1
    BY <1>1, <1>2, SMTT(60)
  <2>. QED
    BY <2>1 DEF Ordered, Transposed
<1>10. \A i, j \in 1..(retained + 1) : i < j => g[i] < g[j]
  <2>1. ASSUME NEW i \in 1..(retained + 1), NEW j \in 1..(retained + 1), i < j PROVE g[i] < g[j]
    <3>1. i \in 1..retained
      BY <2>1, SMTT(60)
    <3>2. CASE j = retained + 1
      BY <1>4, <1>5, <3>1, <3>2, SMTT(60)
    <3>3. CASE j \in 1..retained
      BY <1>5, <2>1, <3>1, <3>3 DEF Ordered
    <3>. QED
      BY <1>6, <3>2, <3>3
  <2>. QED
    BY <2>1
<1>11. retained + 1 <= curr + 1 /\ curr + 1 <= Len(b) /\ retained + 1 <= Len(q) /\ Len(q) = Len(b)
  BY <1>1, <1>2, SMTT(60)
<1>. QED
  BY <1>1, <1>2, <1>7, <1>8, <1>9, <1>10, <1>11 DEF Ordered

\* What a swap does to a sequence.
LEMMA ExchangedIs ==
    ASSUME NEW q \in Seq(Value), NEW m \in 1..Len(q), NEW n \in 1..Len(q),
           NEW w, w = [q EXCEPT ![m] = q[n], ![n] = q[m]]
    PROVE  Exchanged(q, m, n, w)
<1>1. PICK e : e = [q EXCEPT ![m] = q[n]]
  OBVIOUS
<1>2. q[n] \in Value /\ q[m] \in Value
  BY SMTT(60)
<1>3. /\ e \in Seq(Value) /\ Len(e) = Len(q)
      /\ \A i \in 1..Len(q) : e[i] = IF i = m THEN q[n] ELSE q[i]
  BY <1>1, <1>2, ExceptAt, SMTT(60)
<1>4. w = [e EXCEPT ![n] = q[m]]
  BY <1>1
<1>5. /\ w \in Seq(Value) /\ Len(w) = Len(e)
      /\ \A i \in 1..Len(e) : w[i] = IF i = n THEN q[m] ELSE e[i]
  BY <1>2, <1>3, <1>4, ExceptAt, SMTT(60)
<1>. QED
  BY <1>3, <1>5 DEF Exchanged, Transposed

\* After a swap the elements are still those there were.
LEMMA FollowSwap ==
    ASSUME NEW f, NEW q, NEW b \in Seq(Value), NEW keep, Follows(f, q, b, keep),
           NEW m, NEW n, NEW r, Exchanged(q, m, n, r)
    PROVE  \E g : Follows(g, r, b, keep) /\ Transposed(f, m, n, g, Len(q))
<1>1. PICK z \in Nat : z = Len(q)
  BY SMTT(60) DEF Exchanged
<1>2. m \in 1..z /\ n \in 1..z
  BY <1>1 DEF Exchanged
<1>3. Len(r) = z /\ \A i \in 1..z : r[i] = IF i = m THEN q[n] ELSE IF i = n THEN q[m] ELSE q[i]
  BY <1>1 DEF Exchanged, Transposed
<1>4. PICK g : g = [i \in 1..z |-> IF i = m THEN f[n] ELSE IF i = n THEN f[m] ELSE f[i]]
  OBVIOUS
<1>5. \A i \in 1..z : g[i] = IF i = m THEN f[n] ELSE IF i = n THEN f[m] ELSE f[i]
  BY <1>4
<1>6. \A i \in 1..z : f[i] \in 1..Len(b) /\ q[i] = b[f[i]]
  BY <1>1 DEF Follows
<1>7. g \in [1..z -> 1..Len(b)]
  BY <1>2, <1>4, <1>6
<1>8. \A i \in 1..z : r[i] = b[g[i]]
  BY <1>2, <1>3, <1>5, <1>6, SMTT(60)
<1>9. \A i, j \in 1..z : f[i] = f[j] => i = j
  BY <1>1 DEF Follows
<1>10. \A i, j \in 1..z : g[i] = g[j] => i = j
  BY <1>2, <1>5, <1>9
<1>11. ASSUME NEW k \in 1..Len(b), b[k] \in keep
       PROVE  \E i \in 1..z : g[i] = k
  <2>1. PICK j \in 1..z : f[j] = k
    BY <1>1, <1>11 DEF Follows
  <2>2. PICK i \in 1..z : i = IF j = m THEN n ELSE IF j = n THEN m ELSE j
    BY <1>2
  <2>. QED
    BY <1>2, <1>5, <2>1, <2>2
<1>12. Follows(g, r, b, keep)
  BY <1>3, <1>7, <1>8, <1>10, <1>11 DEF Follows
<1>. QED
  BY <1>1, <1>5, <1>12 DEF Transposed

\* The last element is dropped, and every one that is kept is another.
Pops(q, r, l) ==
    /\ q \in Seq(Value) /\ Len(q) = l + 1
    /\ r \in Seq(Value) /\ Len(r) = l /\ \A i \in 1..l : r[i] = q[i]
AllBelow(f, b, keep, l) == \A n \in 1..Len(b) : b[n] \in keep => \E i \in 1..l : f[i] = n

\* The last element may go when all that are kept are among the others.
LEMMA FollowPop ==
    ASSUME NEW f, NEW q, NEW b, NEW keep, Follows(f, q, b, keep),
           NEW l \in Nat, AllBelow(f, b, keep, l), NEW r, Pops(q, r, l)
    PROVE  \E g : Follows(g, r, b, keep) /\ \A i \in 1..l : g[i] = f[i]
<1>1. PICK g : g = [i \in 1..l |-> f[i]]
  OBVIOUS
<1>2. \A i \in 1..l : g[i] = f[i]
  BY <1>1
<1>3. Len(r) = l /\ \A i \in 1..l : i \in 1..Len(q) /\ r[i] = q[i]
  BY SMTT(60) DEF Pops
<1>4. \A i \in 1..Len(q) : f[i] \in 1..Len(b) /\ q[i] = b[f[i]]
  BY DEF Follows
<1>5. g \in [1..l -> 1..Len(b)]
  BY <1>1, <1>3, <1>4
<1>6. \A i \in 1..l : r[i] = b[g[i]]
  BY <1>2, <1>3, <1>4
<1>7. \A i, j \in 1..l : g[i] = g[j] => i = j
  BY <1>2, <1>3, SMTT(60) DEF Follows
<1>8. \A n \in 1..Len(b) : b[n] \in keep => \E i \in 1..l : g[i] = n
  BY <1>2 DEF AllBelow
<1>9. Follows(g, r, b, keep)
  BY <1>3, <1>5, <1>6, <1>7, <1>8 DEF Follows
<1>. QED
  BY <1>2, <1>9

\* After its last element retain pops those it does not keep, which are at
\* the back.
LEMMA OrderedPops ==
    ASSUME NEW f, NEW q, NEW b \in Seq(Value), NEW keep, NEW retained \in Nat,
           Follows(f, q, b, keep), Ordered(f, q, b, keep, Len(b), retained, Len(b)), Len(q) > retained,
           NEW l \in Nat, NEW r, Pops(q, r, l)
    PROVE  \E g : Follows(g, r, b, keep) /\ Ordered(g, r, b, keep, Len(b), retained, Len(b))
<1>0. PICK z \in Nat : z = Len(b)
  BY SMTT(60)
<1>1. retained <= l /\ \A i \in 1..retained : i \in 1..l
  BY SMTT(60) DEF Pops
<1>2. AllBelow(f, b, keep, l)
  BY <1>1 DEF Ordered, AllBelow
<1>3. PICK g : Follows(g, r, b, keep) /\ \A i \in 1..l : g[i] = f[i]
  BY <1>2, FollowPop, SMTT(60)
<1>4. \A i \in 1..retained : g[i] = f[i]
  BY <1>1, <1>3
<1>5. /\ \A i \in 1..retained : b[g[i]] \in keep /\ g[i] <= Len(b)
      /\ \A i, j \in 1..retained : i < j => g[i] < g[j]
      /\ \A n \in 1..Len(b) : b[n] \in keep => \E i \in 1..retained : g[i] = n
  BY <1>4 DEF Ordered
<1>6. /\ retained <= Len(b) /\ Len(b) <= Len(b) /\ retained <= Len(r) /\ Len(r) <= Len(b)
      /\ ~(Len(b) < Len(b)) /\ (Len(b) + 1)..Len(r) = {}
  <2>1. retained <= z /\ l + 1 <= z /\ Len(r) = l
    BY <1>0 DEF Ordered, Pops
  <2>. QED
    BY <1>0, <1>1, <2>1, SMTT(60)
<1>7. Ordered(g, r, b, keep, Len(b), retained, Len(b))
  BY <1>5, <1>6 DEF Ordered
<1>. QED
  BY <1>3, <1>7

\* retain_unordered passes an element that is kept.
LEMMA UnorderedKeeps ==
    ASSUME NEW f, NEW q \in Seq(Value), NEW b, NEW keep, NEW curr \in Nat,
           Follows(f, q, b, keep), Unordered(f, q, b, keep, curr, Len(q)), curr < Len(q),
           q[curr + 1] \in keep
    PROVE  Unordered(f, q, b, keep, curr + 1, Len(q))
<1>1. q[curr + 1] = b[f[curr + 1]] /\ curr + 1 <= Len(q)
  BY SMTT(60) DEF Follows
<1>2. \A i \in 1..(curr + 1) : i = curr + 1 \/ i \in 1..curr
  BY SMTT(60)
<1>. QED
  BY <1>1, <1>2 DEF Unordered

\* The element after curr is not kept: the last one takes its place.
Drops(q, r, curr, l) ==
    /\ q \in Seq(Value) /\ Len(q) = l + 1 /\ curr <= l
    /\ r \in Seq(Value) /\ Len(r) = l
    /\ \A i \in 1..l : r[i] = IF i = curr + 1 THEN q[l + 1] ELSE q[i]

\* retain_unordered replaces an element that is not kept by the last, and
\* looks at the same place again.
LEMMA UnorderedDrops ==
    ASSUME NEW f, NEW q, NEW b \in Seq(Value), NEW keep, NEW curr \in Nat,
           Follows(f, q, b, keep), Unordered(f, q, b, keep, curr, Len(q)),
           q[curr + 1] \notin keep, NEW l \in Nat, NEW r, Drops(q, r, curr, l)
    PROVE  \E g : Follows(g, r, b, keep) /\ Unordered(g, r, b, keep, curr, l)
<1>1. PICK m, n : m = curr + 1 /\ n = l + 1
  OBVIOUS
<1>2. q \in Seq(Value) /\ m \in 1..Len(q) /\ n \in 1..Len(q) /\ Len(q) = n
  BY <1>1, SMTT(60) DEF Drops
<1>3. PICK w : w = [q EXCEPT ![m] = q[n], ![n] = q[m]]
  OBVIOUS
<1>4. Exchanged(q, m, n, w)
  BY <1>2, <1>3, ExchangedIs
<1>5. PICK g : Follows(g, w, b, keep) /\ Transposed(f, m, n, g, Len(q))
  BY <1>4, FollowSwap
<1>6. w[n] \notin keep /\ Pops(w, r, l)
  <2>1. /\ w \in Seq(Value) /\ Len(w) = n
        /\ \A i \in 1..n : w[i] = IF i = m THEN q[n] ELSE IF i = n THEN q[m] ELSE q[i]
    BY <1>2, <1>4 DEF Exchanged, Transposed
  <2>2. w[n] = q[m]
    BY <1>1, <1>2, <2>1
  <2>3. \A i \in 1..l : r[i] = w[i]
    <3>1. \A i \in 1..l : r[i] = IF i = m THEN q[n] ELSE q[i]
      BY <1>1 DEF Drops
    <3>. QED
      BY <1>1, <2>1, <3>1, SMTT(60)
  <2>4. r \in Seq(Value) /\ Len(r) = l
    BY DEF Drops
  <2>. QED
    BY <1>1, <2>1, <2>2, <2>3, <2>4 DEF Pops
<1>7. AllBelow(g, b, keep, l)
  <2>. SUFFICES ASSUME NEW k \in 1..Len(b), b[k] \in keep PROVE \E i \in 1..l : g[i] = k
    BY DEF AllBelow
  <2>1. PICK i \in 1..n : g[i] = k /\ w[i] = b[g[i]]
    BY <1>2, <1>4, <1>5 DEF Follows, Exchanged
  <2>2. i # n
    BY <1>6, <2>1
  <2>. QED
    BY <1>1, <2>1, <2>2, SMTT(60)
<1>8. PICK k : Follows(k, r, b, keep) /\ \A i \in 1..l : k[i] = g[i]
  BY <1>5, <1>6, <1>7, FollowPop, SMTT(60)
<1>9. curr <= l /\ Len(r) = l /\ \A i \in 1..curr : i \in 1..l /\ i \in 1..Len(q) /\ i # m /\ i # n
  BY <1>1, <1>2, SMTT(60) DEF Drops
<1>10. \A i \in 1..curr : k[i] = f[i]
  BY <1>5, <1>8, <1>9 DEF Transposed
<1>11. Unordered(k, r, b, keep, curr, l)
  BY <1>9, <1>10 DEF Unordered
<1>. QED
  BY <1>8, <1>11

-----------------------------------------------------------------------------
(* The Map below the deque.                                                *)

\* What the Map of the deque holds at an index: its entry in memory, or what
\* is in the store when there is none.
LEMMA ViewIs ==
    ASSUME NEW b \in Slots!Buffer, NEW s \in Slots!Tree, NEW c, c = Slots!View(b, s)
    PROVE  /\ c \in [Index -> Value \union {Absent}]
           /\ \A k \in Index : c[k] = IF b[k] = Clean THEN s[k] ELSE b[k]
  BY DEF Slots!Buffer, Slots!Tree, Slots!View

\* An insertion, ...
LEMMA Written ==
    ASSUME NEW b \in Slots!Buffer, NEW s \in Slots!Tree, NEW k \in Index, NEW v \in Value \union {Absent},
           NEW e, e = [b EXCEPT ![k] = v]
    PROVE  e \in Slots!Buffer /\ Puts(Slots!View(b, s), k, v, Slots!View(e, s))
<1>1. e \in Slots!Buffer
  BY DEF Slots!Buffer
<1>2. PICK c, d : c = Slots!View(b, s) /\ d = Slots!View(e, s)
  OBVIOUS
<1>3. \A i \in Index : e[i] = IF i = k THEN v ELSE b[i]
  BY DEF Slots!Buffer
<1>4. v # Clean
  BY StoreAssumption
<1>5. d \in [Index -> Value \union {Absent}]
  BY <1>1, <1>2, ViewIs
<1>6. \A i \in Index : c[i] = IF b[i] = Clean THEN s[i] ELSE b[i]
  BY <1>2, ViewIs
<1>7. \A i \in Index : d[i] = IF e[i] = Clean THEN s[i] ELSE e[i]
  BY <1>2 DEF Slots!View
<1>8. \A i \in Index : d[i] = IF i = k THEN v ELSE c[i]
  BY <1>3, <1>4, <1>6, <1>7, SMTT(60)
<1>. QED
  BY <1>1, <1>2, <1>5, <1>8 DEF Puts

\* ... a removal, ...
LEMMA RemovedIs ==
    ASSUME NEW b \in Slots!Buffer, NEW s \in Slots!Tree, NEW k \in Index,
           NEW e, e = [b EXCEPT ![k] = IF b[k] # Clean \/ s[k] # Absent THEN Absent ELSE Clean]
    PROVE  e \in Slots!Buffer /\ Puts(Slots!View(b, s), k, Absent, Slots!View(e, s))
<1>1. e \in Slots!Buffer
  BY DEF Slots!Buffer
<1>2. PICK c, d : c = Slots!View(b, s) /\ d = Slots!View(e, s)
  OBVIOUS
<1>3. /\ \A i \in Index : i # k => e[i] = b[i]
      /\ e[k] = Absent \/ (e[k] = Clean /\ s[k] = Absent)
  BY DEF Slots!Buffer
<1>4. d \in [Index -> Value \union {Absent}]
  BY <1>1, <1>2, ViewIs
<1>5. \A i \in Index : c[i] = IF b[i] = Clean THEN s[i] ELSE b[i]
  BY <1>2, ViewIs
<1>6. \A i \in Index : d[i] = IF e[i] = Clean THEN s[i] ELSE e[i]
  BY <1>2 DEF Slots!View
<1>7. \A i \in Index : d[i] = IF i = k THEN Absent ELSE c[i]
  <2>1. ASSUME NEW i \in Index, i # k PROVE d[i] = c[i]
    BY <1>3, <1>5, <1>6, <2>1
  <2>2. d[k] = Absent
    BY <1>3, <1>6, StoreAssumption
  <2>. QED
    BY <2>1, <2>2
<1>. QED
  BY <1>1, <1>2, <1>4, <1>7 DEF Puts

\* ... a swap, ...
SwapItems(b, c, k, l) == [b EXCEPT ![k] = c[l], ![l] = c[k]]
SwapRemoveItems(b, c, k, l) == [SwapItems(b, c, k, l) EXCEPT ![l] = Absent]
SwapRemoves(c, k, l, w) == \E d : Puts(c, k, c[l], d) /\ Puts(d, l, Absent, w)

\* Map::swap of two indices, ...
LEMMA SwappedIs ==
    ASSUME NEW b \in Slots!Buffer, NEW s \in Slots!Tree, NEW c, c = Slots!View(b, s),
           NEW k \in Index, NEW l \in Index, NEW e, e = SwapItems(b, c, k, l)
    PROVE  e \in Slots!Buffer /\ Swaps(c, k, l, Slots!View(e, s))
<1>0. PICK x, y : x = c[l] /\ y = c[k]
  OBVIOUS
<1>1. PICK a : a = [b EXCEPT ![k] = x]
  OBVIOUS
<1>2. e = [a EXCEPT ![l] = y]
  BY <1>0, <1>1 DEF SwapItems
<1>3. x \in Value \union {Absent} /\ y \in Value \union {Absent}
  BY <1>0, ViewIs, SMTT(60)
<1>4. a \in Slots!Buffer /\ Puts(c, k, x, Slots!View(a, s))
  BY <1>1, <1>3, Written
<1>5. e \in Slots!Buffer /\ Puts(Slots!View(a, s), l, y, Slots!View(e, s))
  BY <1>2, <1>3, <1>4, Written
<1>6. PICK d, g : d = Slots!View(a, s) /\ g = Slots!View(e, s)
  OBVIOUS
<1>7. Swaps(c, k, l, g)
  BY <1>0, <1>4, <1>5, <1>6 DEF Puts, Swaps
<1>. QED
  BY <1>5, <1>6, <1>7

\* ... and a swap after which one of the two is removed.
LEMMA SwapRemoved ==
    ASSUME NEW b \in Slots!Buffer, NEW s \in Slots!Tree, NEW c, c = Slots!View(b, s),
           NEW k \in Index, NEW l \in Index,
           NEW e, e = SwapRemoveItems(b, c, k, l)
    PROVE  e \in Slots!Buffer /\ SwapRemoves(c, k, l, Slots!View(e, s))
<1>1. PICK a : a = SwapItems(b, c, k, l)
  OBVIOUS
<1>2. e = [a EXCEPT ![l] = Absent]
  BY <1>1 DEF SwapRemoveItems
<1>3. a \in Slots!Buffer /\ Swaps(c, k, l, Slots!View(a, s))
  BY <1>1, SwappedIs
<1>4. e \in Slots!Buffer /\ Puts(Slots!View(a, s), l, Absent, Slots!View(e, s))
  BY <1>2, <1>3, Written
<1>5. PICK d, g : d = Slots!View(a, s) /\ g = Slots!View(e, s)
  OBVIOUS
<1>6. PICK w : w = [i \in Index |-> IF i = k THEN c[l] ELSE c[i]]
  OBVIOUS
<1>7. \A i \in Index : c[i] \in Value \union {Absent}
  BY ViewIs, SMTT(60)
<1>8. Puts(c, k, c[l], w)
  BY <1>6, <1>7 DEF Puts
<1>9. Puts(w, l, Absent, g)
  BY <1>3, <1>4, <1>5, <1>8 DEF Puts, Swaps
<1>. QED
  BY <1>4, <1>5, <1>8, <1>9 DEF SwapRemoves

-----------------------------------------------------------------------------
(* The invariant: both the Map and what was flushed of it have values at   *)
(* the indices of the deque only, and a running retain has a permutation f *)
(* that says which of the elements it started from is where.               *)

Runs(p, c, r, n, keep, b, w) ==
    /\ p \in {"scan", "shift", "unordered"} /\ c \in Nat /\ r \in Nat /\ n \in Nat
    /\ keep \in SUBSET Value /\ b \in Seq(Value)
    /\ p = "scan" => r = c
    /\ \E f : /\ Follows(f, w, b, keep)
              /\ IF p = "unordered" THEN Unordered(f, w, b, keep, c, n)
                 ELSE Ordered(f, w, b, keep, c, r, n)

LoopOf(p, c, r, n, keep) == [phase |-> p, curr |-> c, retained |-> r, len |-> n, keep |-> keep]

Progress(l, b, w) ==
    /\ l = LoopOf(l.phase, l.curr, l.retained, l.len, l.keep)
    /\ Runs(l.phase, l.curr, l.retained, l.len, l.keep, b, w)

DequeInv ==
    /\ DequeAssumption
    /\ items \in Slots!Buffer /\ stored \in Slots!Tree
    /\ Held(head, tail, contents) /\ Held(saved.head, saved.tail, stored)
    /\ loop = Idle \/ Progress(loop, before, Window)

\* Head and tail of a deque are indices, the head the lower, with its
\* elements between them.
LEMMA Bounds ==
    ASSUME DequeInv
    PROVE  /\ head \in Nat /\ tail \in Nat /\ head <= tail /\ tail <= MaxIndex /\ MaxIndex \in Nat
           /\ head \in Index /\ tail \in Index
           /\ Window \in Seq(Value) /\ Len(Window) = tail - head
<1>1. /\ head \in Nat /\ tail \in Nat /\ head <= tail /\ tail <= MaxIndex /\ MaxIndex \in Nat
      /\ head \in Index /\ tail \in Index
  BY SMTT(60) DEF DequeInv, Held, DequeAssumption, Index
<1>2. Window \in Seq(Value) /\ Len(Window) = tail - head
  BY ElementsAre DEF DequeInv, Window
<1>. QED
  BY <1>1, <1>2

\* A retain in progress is in one of its loops.
LEMMA NotIdle ==
    ASSUME NEW l, NEW b, NEW w, Progress(l, b, w)
    PROVE  l # Idle /\ l.phase \in {"scan", "shift", "unordered"}
  BY SMTT(60) DEF Progress, Runs, Idle

-----------------------------------------------------------------------------
(* Steps of the abstract queue.                                            *)

\* What Q substitutes for its variables.
Shown == IF loop = Idle THEN Window ELSE before
Kept == Elements(saved.head, saved.tail, stored)
Filter == [running   |-> loop # Idle,
           unordered |-> loop.phase = "unordered",
           keep      |-> loop.keep,
           complete  |-> loop # Idle /\ loop.curr = loop.len]
QueueStep == [Q!QueueNext]_<<Shown, Kept, Filter>>

\* An edit of the elements is a step of the queue, ...
LEMMA EditStep ==
    ASSUME loop = Idle, UNCHANGED <<stored, saved, loop>>, Q!Edit(Window, Window')
    PROVE  Q!QueueNext
  BY DEF Q!QueueNext

\* A step that changes the elements and nothing else.
LEMMA Edited ==
    ASSUME DequeInv, loop = Idle, UNCHANGED <<stored, saved, loop>>, items' \in Slots!Buffer,
           Held(head', tail', contents'), Q!Edit(Window, Window')
    PROVE  DequeInv' /\ Q!QueueNext
<1>1. Q!QueueNext
  BY EditStep
<1>2. DequeInv'
  BY DEF DequeInv, DequeAssumption, Index
<1>. QED
  BY <1>1, <1>2

\* ... so is a flush that stores the elements, ...
LEMMA SaveStep ==
    ASSUME loop = Idle, loop' = loop, Window' = Window,
           Elements(saved'.head, saved'.tail, stored') = Window
    PROVE  Q!QueueNext
  BY DEF Q!QueueNext

\* ... a load of what is stored, ...
LEMMA LoadStep ==
    ASSUME loop' = Idle, UNCHANGED <<stored, saved>>,
           Window' = Elements(saved.head, saved.tail, stored)
    PROVE  Q!QueueNext
  BY DEF Q!QueueNext, Q!NoFilter, Idle

\* ... the start of a filter, ...
LEMMA BeginStep ==
    ASSUME loop = Idle, loop' # Idle, loop'.keep \in SUBSET Value, before' = Window,
           UNCHANGED <<stored, saved>>
    PROVE  Q!QueueNext
  BY DEF Q!QueueNext, Q!Begin

\* ... and a step of a filter, which the queue sees only when it was the one
\* that looked at the last element.
LEMMA CompleteStep ==
    ASSUME loop # Idle, loop' # Idle, loop'.keep = loop.keep,
           loop'.phase = "unordered" <=> loop.phase = "unordered",
           loop.curr # loop.len, UNCHANGED <<stored, saved, before>>
    PROVE  QueueStep
<1>1. UNCHANGED <<Shown, Kept>>
  BY DEF Shown, Kept
<1>2. PICK u \in BOOLEAN : u <=> loop.phase = "unordered"
  OBVIOUS
<1>3. PICK k : k = loop.keep
  OBVIOUS
<1>4. Filter = [running |-> TRUE, unordered |-> u, keep |-> k, complete |-> FALSE]
  BY <1>2, <1>3 DEF Filter
<1>5. CASE loop'.curr = loop'.len
  <2>0. Filter' = [running |-> TRUE, unordered |-> u, keep |-> k, complete |-> TRUE]
    BY <1>2, <1>3, <1>5 DEF Filter
  <2>1. Filter.unordered = u /\ Filter.keep = k
    BY <1>4
  <2>2. Filter.running
    BY <1>4
  <2>3. Q!Complete
    BY <1>1, <2>0, <2>1, <2>2 DEF Q!Complete, Shown, Kept, Filter
  <2>. QED
    BY <2>3 DEF QueueStep, Q!QueueNext
<1>6. CASE loop'.curr # loop'.len
  <2>1. Filter' = [running |-> TRUE, unordered |-> u, keep |-> k, complete |-> FALSE]
    BY <1>2, <1>3, <1>6 DEF Filter
  <2>. QED
    BY <1>1, <1>4, <2>1 DEF QueueStep
<1>. QED
  BY <1>5, <1>6

\* What is left when a retain ends.
Leaves(f, l, b, w) ==
    /\ f \in [1..Len(w) -> DOMAIN b]
    /\ w = [i \in DOMAIN f |-> b[f[i]]]
    /\ \A i, j \in DOMAIN f : f[i] = f[j] => i = j
    /\ \A n \in DOMAIN b : b[n] \in l.keep => \E i \in DOMAIN f : f[i] = n
    /\ l.curr = l.len => \A i \in DOMAIN f : w[i] \in l.keep
    /\ l.phase # "unordered" =>
          IF l.curr = l.len THEN \A i, j \in DOMAIN f : i < j => f[i] < f[j]
          ELSE Len(w) = Len(b)

\* When retain returns, the elements that are left are the ones to keep, in
\* order if it is retain that ends, and when its closure fails none to keep
\* is missing.
LEMMA EndsWith ==
    ASSUME NEW l, NEW b, NEW w \in Seq(Value), Progress(l, b, w),
           \/ l.curr < l.len
           \/ l.curr = l.len /\ (l.phase # "unordered" => Len(w) <= l.retained)
    PROVE  \E f : Leaves(f, l, b, w)
<1>1. PICK f : /\ Follows(f, w, b, l.keep)
               /\ IF l.phase = "unordered" THEN Unordered(f, w, b, l.keep, l.curr, l.len)
                  ELSE Ordered(f, w, b, l.keep, l.curr, l.retained, l.len)
  BY DEF Progress, Runs
<1>2. b \in Seq(Value) /\ l.curr \in Nat /\ l.retained \in Nat /\ l.len \in Nat
  BY DEF Progress, Runs
<1>3. PICK z \in Nat : z = Len(w)
  BY SMTT(60)
<1>4. DOMAIN f = 1..z /\ DOMAIN b = 1..Len(b) /\ f \in [1..z -> 1..Len(b)]
  BY <1>1, <1>2, <1>3, SMTT(60) DEF Follows
<1>5. \A i \in 1..z : w[i] = b[f[i]]
  BY <1>1, <1>3 DEF Follows
<1>6. w = [i \in 1..z |-> b[f[i]]]
  BY <1>3, <1>5, SMTT(60)
<1>7. \A i, j \in 1..z : f[i] = f[j] => i = j
  BY <1>1, <1>3 DEF Follows
<1>8. \A n \in 1..Len(b) : b[n] \in l.keep => \E i \in 1..z : f[i] = n
  BY <1>1, <1>3 DEF Follows
<1>9. l.curr = l.len => \A i \in 1..z : w[i] \in l.keep
  <2>1. CASE l.phase = "unordered"
    BY <1>1, <1>2, <1>3, <1>5, <2>1 DEF Unordered
  <2>2. CASE l.phase # "unordered"
    BY <1>1, <1>2, <1>3, <1>5, <2>2, SMTT(60) DEF Ordered
  <2>. QED
    BY <2>1, <2>2
<1>10. l.phase # "unordered" =>
          IF l.curr = l.len THEN \A i, j \in 1..z : i < j => f[i] < f[j]
          ELSE z = Len(b)
  BY <1>1, <1>2, <1>3, SMTT(60) DEF Ordered
<1>11. Leaves(f, l, b, w)
  BY <1>3, <1>4, <1>6, <1>7, <1>8, <1>9, <1>10 DEF Leaves
<1>. QED
  BY <1>11

\* The end of a retain is a step of the queue.
LEMMA EndStep ==
    ASSUME DequeInv, Progress(loop, before, Window), loop' = Idle,
           UNCHANGED <<head, tail, items, stored, saved>>,
           \/ loop.curr < loop.len
           \/ loop.curr = loop.len /\ (loop.phase # "unordered" => len <= loop.retained)
    PROVE  Q!QueueNext
<1>1. loop # Idle
  BY NotIdle
<1>2. Shown = before /\ Shown' = Window /\ Kept' = Kept
  BY <1>1 DEF Shown, Kept, Window, contents
<1>3. Filter' = Q!NoFilter
  BY DEF Filter, Q!NoFilter, Idle
<1>4. Filter.running /\ Filter.keep = loop.keep
  BY <1>1 DEF Filter
<1>5. (Filter.unordered <=> loop.phase = "unordered") /\ (Filter.complete <=> loop.curr = loop.len)
  BY <1>1 DEF Filter
<1>6. PICK w, b : w = Window /\ b = before
  OBVIOUS
<1>7. w \in Seq(Value) /\ Len(w) = len
  BY <1>6, Bounds DEF len
<1>8. PICK f : Leaves(f, loop, b, w)
  BY <1>6, <1>7, EndsWith
<1>9. Q!Left(w, f)
  BY <1>2, <1>4, <1>5, <1>6, <1>8 DEF Q!Left, Shown, Filter, Leaves
<1>10. Q!End
  BY <1>2, <1>3, <1>4, <1>6, <1>8, <1>9, SMTT(60) DEF Q!End, Shown, Kept, Filter, Leaves
<1>. QED
  BY <1>10 DEF Q!QueueNext

-----------------------------------------------------------------------------
(* Every operation keeps the invariant and is a step of the queue.         *)

\* Deque::push_back, ...
LEMMA PushBackStep ==
    ASSUME DequeInv, NEW v \in Value, push_back(v) PROVE DequeInv' /\ Q!QueueNext
<1>1. /\ loop = Idle /\ tail < MaxIndex /\ tail' = tail + 1 /\ head' = head
      /\ items' = [items EXCEPT ![tail] = v] /\ UNCHANGED <<stored, saved, loop>>
  BY DEF push_back, Free
<1>2. items' \in Slots!Buffer /\ Puts(contents, tail, v, Slots!View(items', stored))
  BY <1>1, Bounds, Written DEF DequeInv, contents
<1>3. Puts(contents, tail, v, contents')
  BY <1>1, <1>2 DEF contents
<1>4. Held(head, tail + 1, contents') /\ Elements(head, tail + 1, contents') = Append(Window, v)
  BY <1>1, <1>3, PushBack, SMTT(60) DEF DequeInv, Window
<1>5. Held(head', tail', contents') /\ Window' = Append(Window, v)
  BY <1>1, <1>4 DEF Window
<1>. QED
  BY <1>1, <1>2, <1>5, Edited DEF Q!Edit, Q!Push

\* ... push_front, ...
LEMMA PushFrontStep ==
    ASSUME DequeInv, NEW v \in Value, push_front(v) PROVE DequeInv' /\ Q!QueueNext
<1>1. /\ loop = Idle /\ head > 0 /\ head' = head - 1 /\ tail' = tail
      /\ items' = [items EXCEPT ![head - 1] = v] /\ UNCHANGED <<stored, saved, loop>>
  BY DEF push_front, Free
<1>2. head - 1 \in Index
  BY <1>1, Bounds, SMTT(60) DEF Index
<1>3. items' \in Slots!Buffer /\ Puts(contents, head - 1, v, Slots!View(items', stored))
  BY <1>1, <1>2, Written DEF DequeInv, contents
<1>4. Puts(contents, head - 1, v, contents')
  BY <1>1, <1>3 DEF contents
<1>5. Held(head - 1, tail, contents') /\ Elements(head - 1, tail, contents') = <<v>> \o Window
  BY <1>1, <1>4, PushFront, SMTT(60) DEF DequeInv, Window
<1>6. Held(head', tail', contents') /\ Window' = <<v>> \o Window
  BY <1>1, <1>5 DEF Window
<1>. QED
  BY <1>1, <1>3, <1>6, Edited DEF Q!Edit, Q!Push

\* Map::remove of an index.
LEMMA RemovedPuts ==
    ASSUME DequeInv, NEW k \in Index, items' = Removed(k), UNCHANGED stored
    PROVE  items' \in Slots!Buffer /\ Puts(contents, k, Absent, contents')
<1>1. items' = [items EXCEPT ![k] = IF items[k] # Clean \/ stored[k] # Absent THEN Absent ELSE Clean]
  BY DEF Removed, InUse
<1>2. items \in Slots!Buffer /\ stored \in Slots!Tree
  BY DEF DequeInv
<1>3. items' \in Slots!Buffer /\ Puts(Slots!View(items, stored), k, Absent, Slots!View(items', stored))
  BY <1>1, <1>2, RemovedIs
<1>. QED
  BY <1>3 DEF contents

\* A deque that is not empty has an element at head and at tail - 1.
LEMMA NotEmpty ==
    ASSUME DequeInv, ~is_empty
    PROVE  /\ head < tail /\ tail - 1 \in Index /\ tail - 1 \in Nat /\ head <= tail - 1
           /\ Window # <<>> /\ Len(Window) > 0
<1>1. head < tail
  BY Bounds, SMTT(60) DEF is_empty, len
<1>2. tail - 1 \in Index /\ tail - 1 \in Nat /\ head <= tail - 1
  BY <1>1, Bounds, SMTT(60) DEF Index
<1>3. Len(Window) > 0
  BY <1>1, Bounds, SMTT(60)
<1>. QED
  BY <1>1, <1>2, <1>3, Bounds, SMTT(60)

\* ... pop_front, ...
LEMMA PopFrontStep ==
    ASSUME DequeInv, pop_front PROVE DequeInv' /\ Q!QueueNext
<1>1. /\ loop = Idle /\ ~is_empty /\ head' = head + 1 /\ tail' = tail
      /\ items' = Removed(head) /\ UNCHANGED <<stored, saved, loop>>
  BY DEF pop_front, Free
<1>2. items' \in Slots!Buffer /\ Puts(contents, head, Absent, contents')
  BY <1>1, Bounds, RemovedPuts
<1>3. Held(head + 1, tail, contents') /\ Elements(head + 1, tail, contents') = Tail(Window)
  BY <1>1, <1>2, NotEmpty, PopFront DEF DequeInv, Window
<1>4. Held(head', tail', contents') /\ Window' = Tail(Window)
  BY <1>1, <1>3 DEF Window
<1>5. Window # <<>>
  BY <1>1, NotEmpty
<1>. QED
  BY <1>1, <1>2, <1>4, <1>5, Edited DEF Q!Edit, Q!Pop

\* ... pop_back, ...
LEMMA PopBackStep ==
    ASSUME DequeInv, pop_back PROVE DequeInv' /\ Q!QueueNext
<1>1. /\ loop = Idle /\ ~is_empty /\ tail' = tail - 1 /\ head' = head
      /\ items' = Removed(tail - 1) /\ UNCHANGED <<stored, saved, loop>>
  BY DEF pop_back, Free
<1>2. items' \in Slots!Buffer /\ Puts(contents, tail - 1, Absent, contents')
  BY <1>1, NotEmpty, RemovedPuts
<1>3. /\ Held(head, tail - 1, contents')
      /\ Elements(head, tail - 1, contents') = SubSeq(Window, 1, Len(Window) - 1)
  BY <1>1, <1>2, NotEmpty, PopBack DEF DequeInv, Window
<1>4. Held(head', tail', contents') /\ Window' = SubSeq(Window, 1, Len(Window) - 1)
  BY <1>1, <1>3 DEF Window
<1>5. Window # <<>>
  BY <1>1, NotEmpty
<1>. QED
  BY <1>1, <1>2, <1>4, <1>5, Edited DEF Q!Edit, Q!Pop, Q!Front

\* ... an assignment through front_mut or back_mut, ...
LEMMA AssignStep ==
    ASSUME DequeInv, NEW i \in Index, NEW v \in Value, assign(i, v) PROVE DequeInv' /\ Q!QueueNext
<1>1. /\ loop = Idle /\ ~is_empty /\ i \in {0, len - 1} /\ tail' = tail /\ head' = head
      /\ items' = [items EXCEPT ![head + i] = v] /\ UNCHANGED <<stored, saved, loop>>
  BY DEF assign, Free
<1>2. PICK n : n = i + 1
  OBVIOUS
<1>3. /\ n \in 1..(tail - head) /\ n \in {1, Len(Window)} /\ head + n - 1 = head + i /\ head + i \in Index
  BY <1>1, <1>2, Bounds, NotEmpty, SMTT(60) DEF Index, len
<1>4. items' \in Slots!Buffer /\ Puts(contents, head + i, v, Slots!View(items', stored))
  BY <1>1, <1>3, Written DEF DequeInv, contents
<1>5. Puts(contents, head + n - 1, v, contents')
  BY <1>1, <1>3, <1>4 DEF contents
<1>6. Held(head, tail, contents') /\ Elements(head, tail, contents') = [Window EXCEPT ![n] = v]
  BY <1>3, <1>5, AssignAt, SMTT(60) DEF DequeInv, Window
<1>7. Held(head', tail', contents') /\ Window' = [Window EXCEPT ![n] = v]
  BY <1>1, <1>6 DEF Window
<1>8. n \in {1, Len(Window)} \cap DOMAIN Window
  BY <1>3, Bounds, SMTT(60)
<1>9. Q!Edit(Window, Window')
  BY <1>7, <1>8 DEF Q!Edit, Q!Assign
<1>. QED
  BY <1>1, <1>4, <1>7, <1>9, Edited

\* An index with a value is one of the deque.
LEMMA PresentIs ==
    ASSUME DequeInv, NEW i \in Nat, Present(i)
    PROVE  /\ i + 1 \in 1..(tail - head) /\ i + 1 \in DOMAIN Window
           /\ head + i \in Index /\ head + (i + 1) - 1 = head + i
           /\ contents[head + i] = Window[i + 1] /\ contents[head + i] \in Value
<1>1. head + i \in Index /\ contents[head + i] # Absent
  BY DEF Present
<1>2. head + i < tail /\ contents[head + i] \in Value
  BY <1>1 DEF DequeInv, Held
<1>3. i + 1 \in 1..(tail - head) /\ head + (i + 1) - 1 = head + i
  BY <1>2, Bounds, SMTT(60)
<1>4. Window[i + 1] = contents[head + i]
  BY <1>3 DEF Window, Elements
<1>. QED
  BY <1>1, <1>2, <1>3, <1>4, Bounds, SMTT(60)

\* Map::swap of two elements of the deque.
LEMMA SwappedElements ==
    ASSUME DequeInv, NEW i \in Nat, NEW j \in Nat, Present(i), Present(j),
           items' = Swapped(i, j), UNCHANGED <<head, tail, stored>>
    PROVE  /\ items' \in Slots!Buffer /\ Held(head', tail', contents')
           /\ Window' = [Window EXCEPT ![i + 1] = Window[j + 1], ![j + 1] = Window[i + 1]]
<1>1. PICK k, l : k = head + i /\ l = head + j
  OBVIOUS
<1>2. PICK c : c = contents
  OBVIOUS
<1>3. PICK b, s, e : /\ b = items /\ s = stored /\ e = items' /\ e = SwapItems(b, c, k, l)
  BY <1>1, <1>2 DEF Swapped, SwapItems
<1>4. k \in Index /\ l \in Index
  BY <1>1, PresentIs
<1>5. b \in Slots!Buffer /\ s \in Slots!Tree /\ c = Slots!View(b, s)
  BY <1>2, <1>3 DEF DequeInv, contents
<1>6. e \in Slots!Buffer /\ Swaps(c, k, l, Slots!View(e, s))
  BY <1>3, <1>4, <1>5, SwappedIs
<1>7. PICK m, n : m = i + 1 /\ n = j + 1
  OBVIOUS
<1>8. /\ m \in 1..(tail - head) /\ n \in 1..(tail - head)
      /\ head + m - 1 = k /\ head + n - 1 = l
  BY <1>1, <1>7, PresentIs
<1>9. Swaps(contents, head + m - 1, head + n - 1, contents')
  BY <1>2, <1>3, <1>6, <1>8 DEF contents
<1>10. /\ Held(head, tail, contents')
       /\ Elements(head, tail, contents') = [Window EXCEPT ![m] = Window[n], ![n] = Window[m]]
  <2>1. DequeAssumption /\ Held(head, tail, contents)
    BY DEF DequeInv
  <2>2. PICK a : a = contents /\ Window = Elements(head, tail, a)
    BY DEF Window
  <2>3. PICK d : d = contents'
    OBVIOUS
  <2>4. /\ Held(head, tail, d)
        /\ Elements(head, tail, d) =
              [Elements(head, tail, a) EXCEPT ![m] = Elements(head, tail, a)[n],
                                              ![n] = Elements(head, tail, a)[m]]
    BY <1>8, <1>9, <2>1, <2>2, <2>3, SwapAt, SMTT(60)
  <2>. QED
    BY <2>2, <2>3, <2>4
<1>11. Window' = Elements(head, tail, contents')
  BY DEF Window
<1>. QED
  BY <1>3, <1>6, <1>7, <1>10, <1>11

\* ... swap, ...
LEMMA SwapStep ==
    ASSUME DequeInv, NEW i \in Index, NEW j \in Index, swap_at(i, j) PROVE DequeInv' /\ Q!QueueNext
<1>1. /\ loop = Idle /\ Present(i) /\ Present(j)
      /\ items' = Swapped(i, j) /\ UNCHANGED <<head, tail, stored, saved, loop>>
  BY DEF swap_at, Free
<1>2. i \in Nat /\ j \in Nat
  BY SMTT(60) DEF Index
<1>3. /\ items' \in Slots!Buffer /\ Held(head', tail', contents')
      /\ Window' = [Window EXCEPT ![i + 1] = Window[j + 1], ![j + 1] = Window[i + 1]]
  BY <1>1, <1>2, SwappedElements
<1>4. i + 1 \in DOMAIN Window /\ j + 1 \in DOMAIN Window
  BY <1>1, <1>2, PresentIs
<1>5. Q!Edit(Window, Window')
  BY <1>3, <1>4 DEF Q!Edit, Q!Exchange
<1>. QED
  BY <1>1, <1>3, <1>5, Edited

\* Map::swap of two elements and Map::remove of the second.
SwapsOut(i, j, l) == l = head + j /\ items' = [Swapped(i, j) EXCEPT ![l] = Absent]

\* The elements after the swap and before the removal.
LEMMA SwapRemovedElements ==
    ASSUME DequeInv, NEW i \in Nat, NEW j \in Nat, Present(i), Present(j), UNCHANGED stored,
           NEW l, SwapsOut(i, j, l)
    PROVE  /\ items' \in Slots!Buffer
           /\ \E d : /\ Held(head, tail, d) /\ Puts(d, l, Absent, contents')
                     /\ Elements(head, tail, d) = [Window EXCEPT ![i + 1] = Window[j + 1]]
<1>1. PICK k : k = head + i
  OBVIOUS
<1>2. PICK c : c = contents
  OBVIOUS
<1>3. PICK b, s, e : /\ b = items /\ s = stored /\ e = items'
                     /\ e = SwapRemoveItems(b, c, k, l)
  BY <1>1, <1>2 DEF SwapsOut, Swapped, SwapItems, SwapRemoveItems
<1>4. PICK x : x = c[l]
  OBVIOUS
<1>5. k \in Index /\ l \in Index
  BY <1>1, PresentIs DEF SwapsOut
<1>6. b \in Slots!Buffer /\ s \in Slots!Tree /\ c = Slots!View(b, s)
  BY <1>2, <1>3 DEF DequeInv, contents
<1>7. e \in Slots!Buffer /\ SwapRemoves(c, k, l, Slots!View(e, s))
  BY <1>3, <1>5, <1>6, SwapRemoved
<1>8. PICK d : Puts(contents, k, x, d) /\ Puts(d, l, Absent, contents')
  BY <1>2, <1>3, <1>4, <1>7 DEF contents, SwapRemoves
<1>9. PICK m, n : m = i + 1 /\ n = j + 1
  OBVIOUS
<1>10. m \in 1..(tail - head) /\ head + m - 1 = k /\ x \in Value /\ x = Window[n]
  BY <1>1, <1>2, <1>4, <1>9, PresentIs DEF SwapsOut
<1>11. Held(head, tail, d) /\ Elements(head, tail, d) = [Window EXCEPT ![m] = x]
  BY <1>8, <1>10, AssignAt, SMTT(60) DEF DequeInv, Window
<1>. QED
  BY <1>3, <1>7, <1>8, <1>9, <1>10, <1>11

\* ... swap_remove_front ...
LEMMA SwapRemoveFrontStep ==
    ASSUME DequeInv, NEW i \in Index, swap_remove_front(i) PROVE DequeInv' /\ Q!QueueNext
<1>1. /\ loop = Idle /\ Present(i) /\ Present(0) /\ head' = head + 1 /\ tail' = tail
      /\ items' = [Swapped(i, 0) EXCEPT ![head] = Absent] /\ UNCHANGED <<stored, saved, loop>>
  BY DEF swap_remove_front, Free
<1>2. i \in Nat /\ 0 \in Nat /\ head = head + 0
  BY Bounds, SMTT(60) DEF Index
<1>0. SwapsOut(i, 0, head)
  BY <1>1, <1>2 DEF SwapsOut
<1>3. items' \in Slots!Buffer
  BY <1>0, <1>1, <1>2, SwapRemovedElements
<1>4. PICK d : /\ Held(head, tail, d) /\ Puts(d, head, Absent, contents')
               /\ Elements(head, tail, d) = [Window EXCEPT ![i + 1] = Window[0 + 1]]
  BY <1>0, <1>1, <1>2, SwapRemovedElements
<1>5. i + 1 \in DOMAIN Window /\ head < tail /\ Window[0 + 1] = Head(Window)
  <2>1. i + 1 \in DOMAIN Window /\ 0 + 1 \in 1..(tail - head)
    BY <1>1, <1>2, PresentIs
  <2>2. head \in Nat /\ tail \in Nat /\ Window \in Seq(Value)
    BY Bounds
  <2>3. head < tail /\ 0 + 1 = 1
    BY <2>1, <2>2, SMTT(60)
  <2>4. Head(Window) = Window[1]
    BY <2>2, SMTT(60)
  <2>. QED
    BY <2>1, <2>3, <2>4
<1>6. PICK r : r = [Window EXCEPT ![i + 1] = Head(Window)]
  OBVIOUS
<1>7. Elements(head, tail, d) = r
  BY <1>4, <1>5, <1>6
<1>8. Held(head + 1, tail, contents') /\ Elements(head + 1, tail, contents') = Tail(r)
  BY <1>4, <1>5, <1>7, PopFront, SMTT(60) DEF DequeInv
<1>9. Held(head', tail', contents') /\ Window' = Tail(r)
  BY <1>1, <1>8 DEF Window
<1>10. Q!Edit(Window, Window')
  BY <1>5, <1>6, <1>9 DEF Q!Edit, Q!SwapRemove
<1>. QED
  BY <1>1, <1>3, <1>9, <1>10, Edited

\* The same with the last element.
SwapsBack(i) == tail' = tail - 1 /\ items' = [Swapped(i, len - 1) EXCEPT ![tail - 1] = Absent]

\* A swap with the last element, which is then removed.
LEMMA SwappedBack ==
    ASSUME DequeInv, ~is_empty, NEW i \in Nat, Present(i), SwapsBack(i), UNCHANGED <<head, stored>>
    PROVE  /\ items' \in Slots!Buffer /\ Held(head', tail', contents') /\ i + 1 \in DOMAIN Window
           /\ \E r : /\ r = [Window EXCEPT ![i + 1] = Window[Len(Window)]]
                     /\ Window' = SubSeq(r, 1, Len(r) - 1)
<1>1. PICK j, l : j = len - 1 /\ l = tail - 1
  OBVIOUS
<1>2. j \in Nat /\ l = head + j /\ j + 1 = Len(Window)
  BY <1>1, Bounds, NotEmpty, SMTT(60) DEF len
<1>3. SwapsOut(i, j, l)
  BY <1>1, <1>2 DEF SwapsOut, SwapsBack
<1>4. Present(j)
  BY <1>1, <1>2, NotEmpty, SMTT(60) DEF Present, DequeInv, Held
<1>5. items' \in Slots!Buffer
  BY <1>2, <1>3, <1>4, SwapRemovedElements
<1>6. PICK d : /\ Held(head, tail, d) /\ Puts(d, l, Absent, contents')
               /\ Elements(head, tail, d) = [Window EXCEPT ![i + 1] = Window[j + 1]]
  BY <1>2, <1>3, <1>4, SwapRemovedElements
<1>7. i + 1 \in DOMAIN Window /\ head < tail
  BY PresentIs, NotEmpty
<1>8. PICK r : r = [Window EXCEPT ![i + 1] = Window[Len(Window)]]
  OBVIOUS
<1>9. Elements(head, tail, d) = r
  BY <1>2, <1>6, <1>8
<1>10. /\ Held(head, tail - 1, contents')
       /\ Elements(head, tail - 1, contents') = SubSeq(r, 1, Len(r) - 1)
  BY <1>1, <1>6, <1>7, <1>9, PopBack, SMTT(60) DEF DequeInv
<1>11. Held(head', tail', contents') /\ Window' = SubSeq(r, 1, Len(r) - 1)
  BY <1>10 DEF Window, SwapsBack
<1>. QED
  BY <1>5, <1>7, <1>8, <1>11

\* ... and swap_remove_back each edit the queue.
LEMMA SwapRemoveBackStep ==
    ASSUME DequeInv, NEW i \in Index, swap_remove_back(i) PROVE DequeInv' /\ Q!QueueNext
<1>1. /\ loop = Idle /\ ~is_empty /\ Present(i) /\ SwapsBack(i)
      /\ UNCHANGED <<head, stored, saved, loop>>
  BY DEF swap_remove_back, Free, SwapsBack
<1>2. i \in Nat
  BY SMTT(60) DEF Index
<1>3. items' \in Slots!Buffer /\ Held(head', tail', contents') /\ i + 1 \in DOMAIN Window
  BY <1>1, <1>2, SwappedBack
<1>4. PICK r : /\ r = [Window EXCEPT ![i + 1] = Window[Len(Window)]]
               /\ Window' = SubSeq(r, 1, Len(r) - 1)
  BY <1>1, <1>2, SwappedBack
<1>5. Q!Edit(Window, Window')
  BY <1>3, <1>4 DEF Q!Edit, Q!SwapRemove, Q!Front
<1>. QED
  BY <1>1, <1>3, <1>5, Edited

-----------------------------------------------------------------------------
(* The steps of retain and retain_unordered on the elements.               *)

\* retain and retain_unordered start with every element in place, ...
LEMMA RunStarts ==
    ASSUME NEW p \in {"scan", "unordered"}, NEW b \in Seq(Value), NEW keep \in SUBSET Value
    PROVE  Runs(p, 0, 0, Len(b), keep, b, b)
  BY FollowStart, SMTT(60) DEF Runs

\* ... retain passes what it drops, ...
LEMMA RunSkips ==
    ASSUME NEW p, p # "unordered", NEW c, NEW r, NEW n, NEW keep, NEW b, NEW w \in Seq(Value),
           Runs(p, c, r, n, keep, b, w), c < n, w[c + 1] \notin keep
    PROVE  Runs("shift", c + 1, r, n, keep, b, w)
<1>1. PICK f : Follows(f, w, b, keep) /\ Ordered(f, w, b, keep, c, r, n)
  BY DEF Runs
<1>2. c \in Nat /\ r \in Nat /\ b \in Seq(Value) /\ n = Len(b)
  BY <1>1 DEF Runs, Ordered
<1>3. Ordered(f, w, b, keep, c + 1, r, n)
  BY <1>1, <1>2, OrderedSkips
<1>. QED
  BY <1>1, <1>3, SMTT(60) DEF Runs

\* ... leaves what it keeps in place as long as it has dropped nothing, ...
LEMMA RunKeepsInPlace ==
    ASSUME NEW c, NEW r, NEW n, NEW keep, NEW b, NEW w \in Seq(Value),
           Runs("scan", c, r, n, keep, b, w), c < n, w[c + 1] \in keep
    PROVE  Runs("scan", c + 1, r + 1, n, keep, b, w)
<1>1. PICK f : Follows(f, w, b, keep) /\ Ordered(f, w, b, keep, c, r, n)
  BY DEF Runs
<1>2. c \in Nat /\ r \in Nat /\ b \in Seq(Value) /\ n = Len(b) /\ r = c
  BY <1>1 DEF Runs, Ordered
<1>3. Transposed(f, r + 1, c + 1, f, Len(w))
  BY <1>2 DEF Transposed
<1>4. Ordered(f, w, b, keep, c + 1, r + 1, n)
  BY <1>1, <1>2, <1>3, OrderedKeeps
<1>. QED
  BY <1>1, <1>2, <1>4, SMTT(60) DEF Runs

\* ... and then swaps it down, ...
LEMMA RunKeeps ==
    ASSUME NEW c, NEW r, NEW n, NEW keep, NEW b, NEW w, NEW u, Exchanged(w, r + 1, c + 1, u),
           Runs("shift", c, r, n, keep, b, w), c < n, w[c + 1] \in keep
    PROVE  Runs("shift", c + 1, r + 1, n, keep, b, u)
<1>1. PICK f : Follows(f, w, b, keep) /\ Ordered(f, w, b, keep, c, r, n)
  BY DEF Runs
<1>2. c \in Nat /\ r \in Nat /\ b \in Seq(Value) /\ n = Len(b)
  BY <1>1 DEF Runs, Ordered
<1>3. w \in Seq(Value) /\ Len(u) = Len(w)
  BY DEF Exchanged
<1>4. PICK g : Follows(g, u, b, keep) /\ Transposed(f, r + 1, c + 1, g, Len(w))
  BY <1>1, <1>2, FollowSwap
<1>5. Ordered(g, w, b, keep, c + 1, r + 1, n)
  BY <1>1, <1>2, <1>3, <1>4, OrderedKeeps
<1>6. Ordered(g, u, b, keep, c + 1, r + 1, n)
  BY <1>3, <1>5 DEF Ordered
<1>. QED
  BY <1>4, <1>6, SMTT(60) DEF Runs

\* ... and pops what it has dropped; ...
LEMMA RunPops ==
    ASSUME NEW p, p # "unordered", NEW c, NEW r, NEW n, NEW keep, NEW b, NEW w, NEW u, NEW l \in Nat,
           Runs(p, c, r, n, keep, b, w), c = n, Len(w) > r, Pops(w, u, l)
    PROVE  Runs(p, c, r, n, keep, b, u)
<1>1. PICK f : Follows(f, w, b, keep) /\ Ordered(f, w, b, keep, c, r, n)
  BY DEF Runs
<1>2. c = Len(b) /\ r \in Nat /\ b \in Seq(Value) /\ n = Len(b)
  BY <1>1 DEF Runs, Ordered
<1>3. PICK g : Follows(g, u, b, keep) /\ Ordered(g, u, b, keep, c, r, n)
  BY <1>1, <1>2, OrderedPops, SMTT(60)
<1>. QED
  BY <1>3 DEF Runs

\* ... retain_unordered passes what it keeps ...
LEMMA RunUnorderedKeeps ==
    ASSUME NEW c, NEW r, NEW n, NEW keep, NEW b, NEW w \in Seq(Value),
           Runs("unordered", c, r, n, keep, b, w), c < n, w[c + 1] \in keep
    PROVE  Runs("unordered", c + 1, r, n, keep, b, w)
<1>1. PICK f : Follows(f, w, b, keep) /\ Unordered(f, w, b, keep, c, n)
  BY DEF Runs
<1>2. c \in Nat /\ n = Len(w)
  BY <1>1 DEF Runs, Unordered
<1>3. Unordered(f, w, b, keep, c + 1, n)
  BY <1>1, <1>2, UnorderedKeeps
<1>. QED
  BY <1>1, <1>3, SMTT(60) DEF Runs

\* ... and swaps out what it drops.
LEMMA RunUnorderedDrops ==
    ASSUME NEW c, NEW r, NEW n, NEW keep, NEW b, NEW w, NEW u, NEW l \in Nat,
           Runs("unordered", c, r, n, keep, b, w), c < n, w[c + 1] \notin keep, Drops(w, u, c, l)
    PROVE  Runs("unordered", c, r, l, keep, b, u)
<1>1. PICK f : Follows(f, w, b, keep) /\ Unordered(f, w, b, keep, c, n)
  BY DEF Runs
<1>2. c \in Nat /\ n = Len(w) /\ b \in Seq(Value)
  BY <1>1 DEF Runs, Unordered
<1>3. PICK g : Follows(g, u, b, keep) /\ Unordered(g, u, b, keep, c, l)
  BY <1>1, <1>2, UnorderedDrops
<1>. QED
  BY <1>3 DEF Runs

-----------------------------------------------------------------------------
(* The same steps of the state machine.                                    *)

\* The fields of the loop of a retain in progress.
LEMMA Fields ==
    ASSUME NEW l, NEW b, NEW w, Progress(l, b, w)
    PROVE  \E p, c, r, n, k : /\ l = LoopOf(p, c, r, n, k) /\ Runs(p, c, r, n, k, b, w)
                              /\ l.phase = p /\ l.curr = c /\ l.retained = r /\ l.len = n /\ l.keep = k
  BY DEF Progress

\* The fields of a loop.
LEMMA LoopFields ==
    ASSUME NEW p, NEW c, NEW r, NEW n, NEW k, NEW l, l = LoopOf(p, c, r, n, k)
    PROVE  l.phase = p /\ l.curr = c /\ l.retained = r /\ l.len = n /\ l.keep = k
  BY DEF LoopOf

\* A loop in a state of its run is in progress.
LEMMA RunProgress ==
    ASSUME NEW p, NEW c, NEW r, NEW n, NEW k, NEW l, l = LoopOf(p, c, r, n, k),
           NEW b, NEW w, Runs(p, c, r, n, k, b, w)
    PROVE  Progress(l, b, w)
<1>1. l.phase = p /\ l.curr = c /\ l.retained = r /\ l.len = n /\ l.keep = k
  BY LoopFields, SMTT(60)
<1>. QED
  BY <1>1 DEF Progress

\* As long as there are elements to look at none has been popped.
LEMMA RunLength ==
    ASSUME NEW p, NEW c, NEW r, NEW n, NEW k, NEW b, NEW w, Runs(p, c, r, n, k, b, w), c < n
    PROVE  c \in Nat /\ r \in Nat /\ n \in Nat /\ Len(w) = n /\ (p # "unordered" => r <= c)
  BY DEF Runs, Ordered, Unordered

\* There is an element at every place of the deque.
LEMMA PresentAt ==
    ASSUME DequeInv, NEW i \in Nat, i < Len(Window) PROVE Present(i)
<1>1. head + i \in Index /\ head <= head + i /\ head + i < tail
  BY Bounds, SMTT(60) DEF Index
<1>. QED
  BY <1>1 DEF Present, DequeInv, Held

\* The element the predicate is called on.
LEMMA ItemIs ==
    ASSUME DequeInv, NEW c \in Nat, loop.curr = c, c < Len(Window)
    PROVE  Item = Window[c + 1] /\ Present(c)
<1>1. Present(c)
  BY PresentAt
<1>. QED
  BY <1>1, PresentIs DEF Item

\* A step of a running loop.
LEMMA LoopGoes ==
    ASSUME DequeInv, Progress(loop, before, Window), loop.curr # loop.len,
           items' \in Slots!Buffer, Held(head', tail', contents'), UNCHANGED <<stored, saved, before>>,
           NEW p, NEW c, NEW r, NEW n, NEW k, loop' = LoopOf(p, c, r, n, k),
           p = "unordered" <=> loop.phase = "unordered", loop.keep = k,
           Runs(p, c, r, n, k, before, Window')
    PROVE  DequeInv' /\ QueueStep
<1>1. Progress(loop', before, Window')
  BY RunProgress
<1>2. loop # Idle /\ loop' # Idle
  BY <1>1, NotIdle
<1>3. loop'.phase = p /\ loop'.keep = k
  BY LoopFields, SMTT(60)
<1>4. QueueStep
  BY <1>2, <1>3, CompleteStep
<1>5. Progress(loop, before, Window)'
  BY <1>1
<1>6. DequeInv'
  BY <1>5 DEF DequeInv, DequeAssumption, Index
<1>. QED
  BY <1>4, <1>6

\* The start of retain or of retain_unordered, ...
LEMMA StartStep ==
    ASSUME DequeInv, NEW p \in {"scan", "unordered"}, NEW keep \in SUBSET Value, Start(p, keep)
    PROVE  DequeInv' /\ Q!QueueNext
<1>1. /\ loop = Idle /\ loop' = LoopOf(p, 0, 0, len, keep) /\ before' = Window
      /\ UNCHANGED <<head, tail, items, stored, saved>>
  BY DEF Start, Free, LoopOf
<1>2. Window' = Window /\ contents' = contents
  BY <1>1 DEF Window, contents
<1>3. Runs(p, 0, 0, len, keep, Window, Window)
  BY Bounds, RunStarts DEF len
<1>4. Progress(loop', before', Window')
  BY <1>1, <1>2, <1>3, RunProgress
<1>5. loop' # Idle /\ loop'.keep = keep
  BY <1>1, <1>4, NotIdle, LoopFields, SMTT(60)
<1>6. Q!QueueNext
  BY <1>1, <1>5, BeginStep
<1>7. Progress(loop, before, Window)'
  BY <1>4
<1>8. DequeInv'
  BY <1>1, <1>2, <1>7 DEF DequeInv, DequeAssumption, Index
<1>. QED
  BY <1>6, <1>8

\* ... a step of the first loop of retain, ...
LEMMA ScanStep ==
    ASSUME DequeInv, RetainScan PROVE DequeInv' /\ QueueStep
<1>1. /\ loop.phase = "scan" /\ loop.curr < loop.len
      /\ UNCHANGED <<head, tail, items, stored, saved, before>>
  BY DEF RetainScan
<1>2. Progress(loop, before, Window)
  BY <1>1, SMTT(60) DEF DequeInv, Idle
<1>3. PICK p, c, r, n, k :
         /\ loop = LoopOf(p, c, r, n, k) /\ Runs(p, c, r, n, k, before, Window)
         /\ loop.phase = p /\ loop.curr = c /\ loop.retained = r /\ loop.len = n /\ loop.keep = k
  BY <1>2, Fields, SMTT(60)
<1>4. c \in Nat /\ r \in Nat /\ n \in Nat /\ Len(Window) = n
  BY <1>1, <1>3, RunLength, SMTT(60)
<1>5. Item = Window[c + 1]
  BY <1>1, <1>3, <1>4, ItemIs
<1>6. /\ Window' = Window /\ contents' = contents /\ loop.curr # loop.len
      /\ items' \in Slots!Buffer /\ Held(head', tail', contents')
  BY <1>1, <1>3, <1>4, SMTT(60) DEF Window, contents, DequeInv
<1>7. CASE Item \in loop.keep
  <2>1. loop' = LoopOf(p, c + 1, r + 1, n, k)
    BY <1>3, <1>7 DEF RetainScan, LoopOf
  <2>2. Runs(p, c + 1, r + 1, n, k, before, Window')
    BY <1>1, <1>3, <1>5, <1>6, <1>7, Bounds, RunKeepsInPlace
  <2>. QED
    BY <1>1, <1>2, <1>3, <1>6, <2>1, <2>2, LoopGoes
<1>8. CASE Item \notin loop.keep
  <2>1. loop' = LoopOf("shift", c + 1, r, n, k)
    BY <1>3, <1>8 DEF RetainScan, LoopOf
  <2>2. Runs("shift", c + 1, r, n, k, before, Window')
    BY <1>1, <1>3, <1>5, <1>6, <1>8, Bounds, RunSkips
  <2>. QED
    BY <1>1, <1>2, <1>3, <1>6, <2>1, <2>2, LoopGoes
<1>. QED
  BY <1>7, <1>8

\* ... of its second, ...
LEMMA ShiftStep ==
    ASSUME DequeInv, RetainShift PROVE DequeInv' /\ QueueStep
<1>1. /\ loop.phase = "shift" /\ loop.curr < loop.len
      /\ UNCHANGED <<head, tail, stored, saved, before>>
  BY DEF RetainShift
<1>2. Progress(loop, before, Window)
  BY <1>1, SMTT(60) DEF DequeInv, Idle
<1>3. PICK p, c, r, n, k :
         /\ loop = LoopOf(p, c, r, n, k) /\ Runs(p, c, r, n, k, before, Window)
         /\ loop.phase = p /\ loop.curr = c /\ loop.retained = r /\ loop.len = n /\ loop.keep = k
  BY <1>2, Fields, SMTT(60)
<1>4. c \in Nat /\ r \in Nat /\ n \in Nat /\ Len(Window) = n /\ r <= c /\ c < n /\ c # n
  BY <1>1, <1>3, RunLength, SMTT(60)
<1>5. Item = Window[c + 1] /\ Present(c)
  BY <1>3, <1>4, ItemIs
<1>6. CASE Item \in loop.keep
  <2>1. loop' = LoopOf(p, c + 1, r + 1, n, k) /\ items' = Swapped(r, c)
    BY <1>3, <1>6 DEF RetainShift, LoopOf
  <2>2. Present(r)
    BY <1>4, PresentAt, SMTT(60)
  <2>3. /\ items' \in Slots!Buffer /\ Held(head', tail', contents')
        /\ Window' = [Window EXCEPT ![r + 1] = Window[c + 1], ![c + 1] = Window[r + 1]]
    BY <1>1, <1>4, <1>5, <2>1, <2>2, SwappedElements
  <2>4. r + 1 \in 1..Len(Window) /\ c + 1 \in 1..Len(Window) /\ Window \in Seq(Value)
    BY <1>4, Bounds, SMTT(60)
  <2>5. Exchanged(Window, r + 1, c + 1, Window')
    BY <2>3, <2>4, ExchangedIs
  <2>6. Runs(p, c + 1, r + 1, n, k, before, Window')
    BY <1>1, <1>3, <1>4, <1>5, <1>6, <2>5, RunKeeps
  <2>. QED
    BY <1>1, <1>2, <1>3, <1>4, <2>1, <2>3, <2>6, LoopGoes
<1>7. CASE Item \notin loop.keep
  <2>1. loop' = LoopOf(p, c + 1, r, n, k) /\ items' = items
    BY <1>3, <1>7 DEF RetainShift, LoopOf
  <2>2. /\ Window' = Window /\ contents' = contents
        /\ items' \in Slots!Buffer /\ Held(head', tail', contents')
    BY <1>1, <2>1 DEF Window, contents, DequeInv
  <2>3. Runs(p, c + 1, r, n, k, before, Window')
    BY <1>1, <1>3, <1>4, <1>5, <1>7, <2>2, Bounds, RunSkips, SMTT(60)
  <2>. QED
    BY <1>1, <1>2, <1>3, <1>4, <2>1, <2>2, <2>3, LoopGoes
<1>. QED
  BY <1>6, <1>7

\* The last element is removed.
LEMMA PopsIs ==
    ASSUME NEW w \in Seq(Value), NEW l \in Nat, Len(w) = l + 1, NEW u, u = SubSeq(w, 1, Len(w) - 1)
    PROVE  Pops(w, u, l)
  BY SMTT(60) DEF Pops

\* A loop ends, for whatever reason.
LEMMA Ended ==
    ASSUME DequeInv, Progress(loop, before, Window), Finish,
           UNCHANGED <<head, tail, items, stored, saved>>,
           \/ loop.curr < loop.len
           \/ loop.curr = loop.len /\ (loop.phase # "unordered" => len <= loop.retained)
    PROVE  DequeInv' /\ QueueStep
<1>1. loop' = Idle
  BY DEF Finish
<1>2. Q!QueueNext
  BY <1>1, EndStep
<1>3. DequeInv'
  BY <1>1 DEF DequeInv, DequeAssumption, Index, Window, contents
<1>. QED
  BY <1>2, <1>3 DEF QueueStep

\* ... of its third, ...
LEMMA PopStep ==
    ASSUME DequeInv, RetainPop PROVE DequeInv' /\ QueueStep
<1>1. loop.phase \in {"scan", "shift"} /\ loop.curr = loop.len
  BY DEF RetainPop
<1>2. Progress(loop, before, Window)
  BY <1>1, SMTT(60) DEF DequeInv, Idle
<1>3. PICK p, c, r, n, k :
         /\ loop = LoopOf(p, c, r, n, k) /\ Runs(p, c, r, n, k, before, Window)
         /\ loop.phase = p /\ loop.curr = c /\ loop.retained = r /\ loop.len = n /\ loop.keep = k
  BY <1>2, Fields, SMTT(60)
<1>4. r \in Nat /\ c = n /\ p # "unordered"
  BY <1>1, <1>3 DEF Runs
<1>5. CASE len > loop.retained
  <2>1. /\ tail' = tail - 1 /\ items' = Removed(tail - 1)
        /\ UNCHANGED <<head, stored, saved, loop, before>>
    BY <1>3, <1>4, <1>5, Bounds, SMTT(60) DEF RetainPop, len
  <2>2. ~is_empty /\ len \in Nat /\ Len(Window) = len
    BY <1>3, <1>4, <1>5, Bounds, SMTT(60) DEF is_empty, len
  <2>3. items' \in Slots!Buffer /\ Puts(contents, tail - 1, Absent, contents')
    BY <2>1, <2>2, NotEmpty, RemovedPuts
  <2>4. /\ Held(head, tail - 1, contents')
        /\ Elements(head, tail - 1, contents') = SubSeq(Window, 1, Len(Window) - 1)
    BY <2>2, <2>3, NotEmpty, PopBack DEF DequeInv, Window
  <2>5. Held(head', tail', contents') /\ Window' = SubSeq(Window, 1, Len(Window) - 1)
    BY <2>1, <2>4 DEF Window
  <2>6. PICK l \in Nat : Len(Window) = l + 1
    <3>1. Len(Window) - 1 \in Nat
      BY <1>3, <1>4, <1>5, <2>2, SMTT(60)
    <3>. QED
      BY <2>2, <3>1, SMTT(60)
  <2>7. Pops(Window, Window', l)
    BY <2>5, <2>6, Bounds, PopsIs
  <2>8. Runs(p, c, r, n, k, before, Window')
    BY <1>3, <1>4, <1>5, <2>2, <2>6, <2>7, RunPops
  <2>9. Progress(loop, before, Window)'
    BY <1>3, <2>1, <2>8, RunProgress
  <2>10. DequeInv'
    BY <2>1, <2>3, <2>5, <2>9 DEF DequeInv, DequeAssumption, Index
  <2>11. loop # Idle
    BY <1>2, NotIdle
  <2>12. UNCHANGED <<Shown, Kept, Filter>>
    BY <2>1, <2>11 DEF Shown, Kept, Filter
  <2>. QED
    BY <2>10, <2>12 DEF QueueStep
<1>6. CASE ~(len > loop.retained)
  <2>1. Finish /\ len <= loop.retained /\ UNCHANGED <<head, tail, items, stored, saved>>
    BY <1>6 DEF RetainPop
  <2>. QED
    BY <1>1, <1>2, <2>1, Ended
<1>. QED
  BY <1>5, <1>6

\* swap_remove_back on a sequence.
LEMMA DropsIs ==
    ASSUME NEW w \in Seq(Value), NEW l \in Nat, Len(w) = l + 1, NEW c \in Nat, c <= l,
           NEW r, r = [w EXCEPT ![c + 1] = w[Len(w)]], NEW u, u = SubSeq(r, 1, Len(r) - 1)
    PROVE  Drops(w, u, c, l)
<1>1. PICK m, x : m = c + 1 /\ x = w[Len(w)]
  OBVIOUS
<1>2. m \in 1..Len(w) /\ x \in Value
  BY <1>1, SMTT(60)
<1>3. r = [w EXCEPT ![m] = x]
  BY <1>1
<1>4. r \in Seq(Value) /\ Len(r) = Len(w) /\ \A i \in 1..Len(w) : r[i] = IF i = m THEN x ELSE w[i]
  BY <1>2, <1>3, ExceptAt, SMTT(60)
<1>5. Pops(r, u, l)
  BY <1>4, PopsIs
<1>. QED
  BY <1>1, <1>4, <1>5, SMTT(60) DEF Drops, Pops

\* ... of the loop of retain_unordered, ...
LEMMA UnorderedStep ==
    ASSUME DequeInv, RetainUnorderedStep PROVE DequeInv' /\ QueueStep
<1>1. loop.phase = "unordered"
  BY DEF RetainUnorderedStep
<1>2. Progress(loop, before, Window)
  BY <1>1, SMTT(60) DEF DequeInv, Idle
<1>3. PICK p, c, r, n, k :
         /\ loop = LoopOf(p, c, r, n, k) /\ Runs(p, c, r, n, k, before, Window)
         /\ loop.phase = p /\ loop.curr = c /\ loop.retained = r /\ loop.len = n /\ loop.keep = k
  BY <1>2, Fields, SMTT(60)
<1>4. c \in Nat /\ n \in Nat
  BY <1>3 DEF Runs
<1>5. CASE /\ loop.curr < loop.len /\ Item \in loop.keep
           /\ loop' = [loop EXCEPT !.curr = @ + 1]
           /\ UNCHANGED <<head, tail, items, stored, saved, before>>
  <2>1. loop' = LoopOf(p, c + 1, r, n, k)
    BY <1>3, <1>5 DEF LoopOf
  <2>2. Len(Window) = n /\ c < n /\ c # n
    BY <1>3, <1>4, <1>5, RunLength, SMTT(60)
  <2>3. Item = Window[c + 1]
    BY <1>3, <1>4, <2>2, ItemIs
  <2>4. /\ Window' = Window /\ contents' = contents
        /\ items' \in Slots!Buffer /\ Held(head', tail', contents')
    BY <1>5 DEF Window, contents, DequeInv
  <2>5. Runs(p, c + 1, r, n, k, before, Window')
    BY <1>1, <1>3, <1>5, <2>2, <2>3, <2>4, Bounds, RunUnorderedKeeps
  <2>. QED
    BY <1>2, <1>3, <1>5, <2>1, <2>2, <2>4, <2>5, LoopGoes
<1>6. CASE /\ loop.curr < loop.len /\ Item \notin loop.keep
           /\ SwapsBack(loop.curr)
           /\ loop' = [loop EXCEPT !.len = @ - 1]
           /\ UNCHANGED <<head, stored, saved, before>>
  <2>1. loop' = LoopOf(p, c, r, n - 1, k)
    BY <1>3, <1>6 DEF LoopOf
  <2>2. Len(Window) = n /\ c < n /\ c # n
    BY <1>3, <1>4, <1>6, RunLength, SMTT(60)
  <2>3. Item = Window[c + 1] /\ Present(c)
    BY <1>3, <1>4, <2>2, ItemIs
  <2>4. PICK l \in Nat : l = n - 1 /\ n = l + 1 /\ c <= l
    <3>1. n - 1 \in Nat /\ n = (n - 1) + 1 /\ c <= n - 1
      BY <1>4, <2>2, SMTT(60)
    <3>. QED
      BY <3>1
  <2>5. ~is_empty
    BY <1>4, <2>2, Bounds, SMTT(60) DEF is_empty, len
  <2>6. items' \in Slots!Buffer /\ Held(head', tail', contents')
    BY <1>3, <1>4, <1>6, <2>3, <2>5, SwappedBack
  <2>7. PICK v : /\ v = [Window EXCEPT ![c + 1] = Window[Len(Window)]]
                 /\ Window' = SubSeq(v, 1, Len(v) - 1)
    BY <1>3, <1>4, <1>6, <2>3, <2>5, SwappedBack
  <2>8. Drops(Window, Window', c, l)
    BY <1>4, <2>2, <2>4, <2>7, Bounds, DropsIs
  <2>9. Runs(p, c, r, l, k, before, Window')
    BY <1>1, <1>3, <1>6, <2>2, <2>3, <2>8, RunUnorderedDrops
  <2>. QED
    BY <1>2, <1>3, <1>6, <2>1, <2>2, <2>4, <2>6, <2>9, LoopGoes
<1>7. CASE /\ loop.curr = loop.len /\ Finish /\ UNCHANGED <<head, tail, items, stored, saved>>
  BY <1>1, <1>2, <1>7, Ended
<1>. QED
  BY <1>5, <1>6, <1>7 DEF RetainUnorderedStep, SwapsBack

\* ... a closure that fails, ...
LEMMA FailStep ==
    ASSUME DequeInv, RetainFails PROVE DequeInv' /\ QueueStep
  BY Ended DEF RetainFails, DequeInv

\* Without a buffer the Map is what is stored.
LEMMA NothingBuffered ==
    ASSUME NEW s \in Slots!Tree
    PROVE  Slots!EmptyBuffer \in Slots!Buffer /\ Slots!View(Slots!EmptyBuffer, s) = s
  BY StoreAssumption DEF Slots!EmptyBuffer, Slots!Buffer, Slots!Tree, Slots!View

\* ... the flush of the deque ...
LEMMA FlushStep ==
    ASSUME DequeInv, flush PROVE DequeInv' /\ Q!QueueNext
<1>1. /\ loop = Idle /\ stored' = contents /\ items' = Slots!EmptyBuffer
      /\ saved' = [head |-> head, tail |-> tail] /\ UNCHANGED <<head, tail, loop>>
  BY DEF flush, Free, contents, Slots!Write
<1>2. contents \in Slots!Tree
  BY DEF DequeInv, Held, Slots!Tree
<1>3. items' \in Slots!Buffer /\ contents' = contents
  BY <1>1, <1>2, NothingBuffered DEF contents
<1>4. saved'.head = head /\ saved'.tail = tail
  BY <1>1
<1>5. Window' = Window /\ Elements(saved'.head, saved'.tail, stored') = Window
  BY <1>1, <1>3, <1>4 DEF Window
<1>6. Held(head', tail', contents') /\ Held(saved'.head, saved'.tail, stored') /\ stored' \in Slots!Tree
  BY <1>1, <1>2, <1>3, <1>4 DEF DequeInv
<1>7. DequeInv'
  BY <1>1, <1>3, <1>6 DEF DequeInv, DequeAssumption, Index
<1>. QED
  BY <1>1, <1>5, <1>7, SaveStep

\* ... and the loss of what was not flushed keep the invariant and are steps
\* of the queue.
LEMMA DropStep ==
    ASSUME DequeInv, Drop PROVE DequeInv' /\ Q!QueueNext
<1>1. /\ loop' = Idle /\ items' = Slots!EmptyBuffer /\ head' = saved.head /\ tail' = saved.tail
      /\ UNCHANGED <<stored, saved>>
  BY DEF Drop, Finish
<1>2. stored \in Slots!Tree
  BY DEF DequeInv
<1>3. items' \in Slots!Buffer /\ contents' = stored
  BY <1>1, <1>2, NothingBuffered DEF contents
<1>4. Window' = Elements(saved.head, saved.tail, stored)
  BY <1>1, <1>3 DEF Window
<1>5. DequeInv'
  BY <1>1, <1>3 DEF DequeInv, DequeAssumption, Index
<1>. QED
  BY <1>1, <1>4, <1>5, LoadStep

\* So every step of the deque keeps the invariant and is a step of the queue
\* or leaves it as it is.
LEMMA DequeStep == DequeInv /\ [DequeNext]_deque_vars => DequeInv' /\ QueueStep
<1>. SUFFICES ASSUME DequeInv, [DequeNext]_deque_vars PROVE DequeInv' /\ QueueStep
  OBVIOUS
<1>1. Q!QueueNext => QueueStep
  BY DEF QueueStep
<1>2. CASE \E v \in Value : push_back(v) \/ push_front(v)
  BY <1>1, <1>2, PushBackStep, PushFrontStep
<1>3. CASE pop_front \/ pop_back
  BY <1>1, <1>3, PopFrontStep, PopBackStep
<1>4. CASE \E i \in Index, v \in Value : assign(i, v)
  BY <1>1, <1>4, AssignStep
<1>5. CASE \E i, j \in Index : swap_at(i, j)
  BY <1>1, <1>5, SwapStep
<1>6. CASE \E i \in Index : swap_remove_front(i) \/ swap_remove_back(i)
  BY <1>1, <1>6, SwapRemoveFrontStep, SwapRemoveBackStep
<1>7. CASE \E keep \in SUBSET Value : retain(keep) \/ retain_unordered(keep)
  BY <1>1, <1>7, StartStep DEF retain, retain_unordered
<1>8. CASE RetainScan \/ RetainShift \/ RetainPop \/ RetainUnorderedStep \/ RetainFails
  BY <1>8, ScanStep, ShiftStep, PopStep, UnorderedStep, FailStep
<1>9. CASE flush \/ Drop
  BY <1>1, <1>9, FlushStep, DropStep
<1>10. CASE UNCHANGED deque_vars
  <2>1. UNCHANGED <<head, tail, items, stored, saved, loop, before>>
    BY <1>10 DEF deque_vars
  <2>2. DequeInv'
    BY <2>1 DEF DequeInv, DequeAssumption, Index, contents, Window
  <2>3. UNCHANGED <<Shown, Kept, Filter>>
    BY <2>1 DEF Shown, Kept, Filter, contents, Window
  <2>. QED
    BY <2>2, <2>3 DEF QueueStep
<1>. QED
  BY <1>2, <1>3, <1>4, <1>5, <1>6, <1>7, <1>8, <1>9, <1>10 DEF DequeNext

\* A new deque is an empty queue.
LEMMA DequeStarts == DequeAssumption /\ DequeInit => DequeInv /\ Q!QueueInit
<1>. SUFFICES ASSUME DequeAssumption, DequeInit PROVE DequeInv /\ Q!QueueInit
  OBVIOUS
<1>1. /\ head = Midpoint /\ tail = Midpoint /\ saved.head = Midpoint /\ saved.tail = Midpoint
      /\ items = Slots!EmptyBuffer /\ stored = Slots!EmptyTree /\ loop = Idle
  BY DEF DequeInit
<1>2. stored \in Slots!Tree
  BY <1>1 DEF Slots!Tree, Slots!EmptyTree
<1>3. items \in Slots!Buffer /\ contents = stored
  BY <1>1, <1>2, NothingBuffered DEF contents
<1>4. Held(Midpoint, Midpoint, stored)
  <2>1. Midpoint \in Index /\ Midpoint \in Nat /\ Midpoint <= Midpoint
    BY SMTT(60) DEF DequeAssumption, Index
  <2>2. \A i \in Index : i \in Nat /\ stored[i] = Absent
    BY <1>1, SMTT(60) DEF Slots!EmptyTree, Index
  <2>3. \A i \in Index : ~(Midpoint <= i /\ i < Midpoint)
    BY <2>1, <2>2, SMTT(60)
  <2>4. stored \in [Index -> Value \union {Absent}]
    BY <1>2 DEF Slots!Tree
  <2>. QED
    BY <2>1, <2>2, <2>3, <2>4 DEF Held
<1>5. DequeInv
  BY <1>1, <1>2, <1>3, <1>4 DEF DequeInv
<1>6. PICK q : q = Elements(Midpoint, Midpoint, stored)
  OBVIOUS
<1>7. q \in Seq(Value) /\ Len(q) = 0
  BY <1>4, <1>6, ElementsAre, SMTT(60) DEF DequeAssumption, Index
<1>8. q = <<>>
  BY <1>7, SMTT(60)
<1>9. Shown = <<>> /\ Kept = <<>>
  BY <1>1, <1>3, <1>6, <1>8 DEF Shown, Kept, Window
<1>10. Filter = Q!NoFilter
  BY <1>1 DEF Filter, Q!NoFilter, Idle
<1>. QED
  BY <1>5, <1>9, <1>10 DEF Q!QueueInit, Shown, Kept, Filter

\* The invariant leaves no gaps.
LEMMA HeldEverywhere == DequeInv => NoGaps
  BY DEF DequeInv, Held, NoGaps

\* Between its head and its tail a Deque has a value at every index of its
\* Map, and outside of them at none, in memory and in what was flushed,
\* through every push, pop, swap, retain and failing closure, for any values
\* and any largest index.
THEOREM DequesHaveNoGaps == DequeAssumption /\ DequeSpec => []NoGaps
<1>1. DequeInv /\ [DequeNext]_deque_vars => DequeInv'
  BY DequeStep
<1>. QED
  BY <1>1, DequeStarts, HeldEverywhere, PTL DEF DequeSpec

\* A Deque is a queue (ImplementsQueue): pushes, pops, assignments and swaps
\* do to its elements what they do to a sequence, retain leaves the elements
\* to keep in their order and retain_unordered leaves them in some order,
\* none twice and none lost even when the closure fails part of the way, and
\* a flushed deque comes back as it was flushed.
THEOREM DequesAreQueues == DequeAssumption /\ DequeSpec => ImplementsQueue
<1>1. DequeInv /\ [DequeNext]_deque_vars => DequeInv'
  BY DequeStep
<1>2. DequeInv /\ [DequeNext]_deque_vars =>
         [Q!QueueNext]_<<IF loop = Idle THEN Window ELSE before,
                         Elements(saved.head, saved.tail, stored),
                         [running   |-> loop # Idle,
                          unordered |-> loop.phase = "unordered",
                          keep      |-> loop.keep,
                          complete  |-> loop # Idle /\ loop.curr = loop.len]>>
  BY DequeStep DEF QueueStep, Shown, Kept, Filter
<1>. QED
  BY <1>1, <1>2, DequeStarts, PTL DEF DequeSpec, ImplementsQueue, Q!QueueSpec
=============================================================================
