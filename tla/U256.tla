-------------------------------- MODULE U256 --------------------------------
(***************************************************************************)
(* The unsigned integer in which masses are summed: two halves of two      *)
(* words each.  The source's word has 64 bits; here it has any size, so    *)
(* that small instances meet the carries that only lengths beyond 29 show. *)
(* An operator that panics in the source has a predicate beside it that    *)
(* says when, and is only to be used where that predicate is false.        *)
(***************************************************************************)
EXTENDS Integers, Sequences, SequencesExt

CONSTANT Word    (* 2^64 *)

(* `mul_small` is used with ten, which must fit a word. *)
ASSUME WordAssumption == Word \in Nat /\ Word > 10

Half == Word * Word

U64 == 0 .. Word - 1
U128 == 0 .. Half - 1
Wide == [hi : U128, lo : U128]

Value(x) == x.hi * Half + x.lo

ZERO == [hi |-> 0, lo |-> 0]
MAX == [hi |-> Half - 1, lo |-> Half - 1]

FromU128(v) == [hi |-> 0, lo |-> v]

(* The derived order compares the fields as they are declared. *)
Less(a, b) == a.hi < b.hi \/ (a.hi = b.hi /\ a.lo < b.lo)

(* `overflowing_add` on a half: what is left, and whether it wrapped. *)
Wrapped(s) == IF s >= Half THEN s - Half ELSE s
CarryOf(s) == IF s >= Half THEN 1 ELSE 0

AddOverflows(a, b) == a.hi + b.hi + CarryOf(a.lo + b.lo) >= Half

(* Mutant: the carry out of the low half is lost. *)
AddWithoutCarry(a, b) == [hi |-> a.hi + b.hi, lo |-> Wrapped(a.lo + b.lo)]

CheckedAdd(a, b) ==
  [hi |-> a.hi + b.hi + CarryOf(a.lo + b.lo), lo |-> Wrapped(a.lo + b.lo)]

AddU128(a, v) == CheckedAdd(a, FromU128(v))

SubUnderflows(a, b) == Less(a, b)

CheckedSub(a, b) ==
  LET borrow == IF a.lo < b.lo THEN 1 ELSE 0
  IN [hi |-> a.hi - b.hi - borrow, lo |-> a.lo - b.lo + borrow * Half]

-----------------------------------------------------------------------------
(* `mul_small`: the low half is multiplied word by word, so that no partial *)
(* product leaves a half.                                                   *)

LowProduct(x, m) == (x.lo % Word) * m
HighProduct(x, m) == (x.lo \div Word) * m
LowSum(x, m) == (HighProduct(x, m) % Word) * Word + LowProduct(x, m)
HighSum(x, m) == x.hi * m + HighProduct(x, m) \div Word + CarryOf(LowSum(x, m))

MulOverflows(x, m) == HighSum(x, m) >= Half

MulSmall(x, m) == [hi |-> HighSum(x, m), lo |-> Wrapped(LowSum(x, m))]

(* One step of the long division: the remainder so far, then one more word. *)
Brought(rem, limb, d) ==
  [q |-> (rem * Word + limb) \div d, rem |-> (rem * Word + limb) % d]

DivModSmall(x, d) ==
  LET s1 == Brought(0, x.hi \div Word, d)
      s2 == Brought(s1.rem, x.hi % Word, d)
      s3 == Brought(s2.rem, x.lo \div Word, d)
      s4 == Brought(s3.rem, x.lo % Word, d)
  IN [quotient |-> [hi |-> s1.q * Word + s2.q, lo |-> s3.q * Word + s4.q], rem |-> s4.rem]

-----------------------------------------------------------------------------
(* Decimal strings, as sequences of digits, carry masses and quotas to and  *)
(* from Python.                                                             *)

(* The decimal digits of a natural number: Python's `str`.                  *)
Digits(v) ==
  LET upTo[w \in Nat] == IF w < 10 THEN <<w>> ELSE Append(upTo[w \div 10], w % 10)
  IN upTo[v]

FromDecimal(s) ==
  FoldLeft(LAMBDA acc, d : AddU128(MulSmall(acc, 10), d), ZERO, s)

Display(x) ==
  LET upTo[y \in Wide] ==
        IF y = ZERO THEN <<>>
        ELSE LET s == DivModSmall(y, 10) IN Append(upTo[s.quotient], s.rem)
  IN IF x.hi = 0 THEN Digits(x.lo) ELSE upTo[x]

=============================================================================
