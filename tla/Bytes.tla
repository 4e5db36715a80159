-------------------------------- MODULE Bytes ---------------------------------
(* Byte strings, the keys of every store.                                    *)
EXTENDS Naturals, Sequences

CONSTANT MaxByte   \* the largest byte (255 in the code)

ASSUME MaxByteAssumption == MaxByte \in Nat \ {0}

\* The order of byte slices: the first difference decides, and a proper prefix
\* comes first.
Less(a, b) ==
    \E n \in 0..Len(a) :
        /\ n <= Len(b) /\ SubSeq(a, 1, n) = SubSeq(b, 1, n)
        /\ \/ n = Len(a) /\ n < Len(b)
           \/ n < Len(a) /\ n < Len(b) /\ a[n + 1] < b[n + 1]

\* The position of the last byte that is not the given one, or 0.
LastOther(bytes, byte) ==
    LET other == {i \in DOMAIN bytes : bytes[i] # byte}
    IN  IF other = {} THEN 0 ELSE CHOOSE i \in other : \A j \in other : j <= i

\* The last byte that is not the largest is incremented and those after it
\* are reset; if there is none a byte is added and the first becomes one.
increment_bytes(bytes) ==
    LET last == LastOther(bytes, MaxByte)
    IN  IF last = 0
        THEN [i \in 1..(Len(bytes) + 1) |-> IF i = 1 /\ bytes # <<>> THEN 1 ELSE 0]
        ELSE [i \in DOMAIN bytes |-> CASE i < last -> bytes[i]
                                       [] i = last -> bytes[i] + 1
                                       [] i > last -> 0]
=============================================================================
