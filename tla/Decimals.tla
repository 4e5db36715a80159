------------------------------- MODULE Decimals -------------------------------
(***************************************************************************)
(* Decimal and Amount (coins/decimal.rs, coins/math.rs).  A Decimal d is   *)
(* the integer d * Unit; the code has 28 digits.                           *)
(***************************************************************************)
EXTENDS Integers

CONSTANT Unit

ASSUME UnitAssumption == Unit \in Nat \ {0}

\* Decimal::amount: to the nearest integer, and to the even one from halfway.
amount(d) ==
    LET floor == d \div Unit
        twice == 2 * (d % Unit)
    IN  IF twice > Unit \/ (twice = Unit /\ floor % 2 = 1) THEN floor + 1 ELSE floor

\* From<Amount> for Decimal.
Decimal(n) == n * Unit

\* A Decimal times a fraction; exact as long as Unit has enough digits.
Times(d, num, den) == (d * num) \div den

===============================================================================
