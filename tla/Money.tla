------------------------------- MODULE Money -------------------------------
(***************************************************************************)
(* Integer money: 64-bit amounts that are added with a check, currencies   *)
(* with different minor units, and conversion at a rate                    *)
(* (splittr-domain: money.rs, currency.rs).                                *)
(***************************************************************************)
EXTENDS Integers, SequencesExt

CONSTANTS
    MaxAmount,         \* the largest i64
    RateScale          \* a rate of 1; 10^6 in the code

ASSUME MoneyAssumption == MaxAmount \in Nat /\ RateScale \in Nat \ {0}

Fits(x) == -MaxAmount - 1 <= x /\ x <= MaxAmount

(* `as i64`, and `+` of integers that are not checked.                     *)
Wrap(x) == ((x + MaxAmount + 1) % (2 * (MaxAmount + 1))) - MaxAmount - 1

(* Cents::add along a sequence: it panics as soon as a sum does not fit.   *)
Total(amounts) == FoldLeft(LAMBDA acc, x : acc + x, 0, amounts)

AddsUp(amounts) == \A n \in 0..Len(amounts) : Fits(Total(SubSeq(amounts, 1, n)))

MinorUnits(code) ==
    IF code \in {"JPY", "KRW", "CLP", "ISK", "VND", "XAF", "XOF"} THEN 0
    ELSE IF code \in {"BHD", "KWD", "OMR", "TND", "IQD", "JOD", "LYD"} THEN 3
    ELSE 2

Abs(x) == IF x < 0 THEN -x ELSE x

\* (mutated form: rounded down)
TruncDiv(num, den) == num \div den

(* Half away from zero.                                                    *)
RoundDiv(num, den) ==
    LET quotient == (Abs(num) + den \div 2) \div den
    IN  IF num >= 0 THEN quotient ELSE -quotient

\* (mutated form: the minor units of the two currencies are swapped)
SwappedUnits(amount, rate, from, to) ==
    [num |-> amount * rate * 10^MinorUnits(from), den |-> RateScale * 10^MinorUnits(to)]

(* The exact value of a conversion, as a fraction.                         *)
Exact(amount, rate, from, to) ==
    [num |-> amount * rate * 10^MinorUnits(to), den |-> RateScale * 10^MinorUnits(from)]

Convert(amount, rate, from, to) ==
    LET value == Exact(amount, rate, from, to) IN Wrap(RoundDiv(value.num, value.den))
=============================================================================
