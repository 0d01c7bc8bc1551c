------------------------------ MODULE Decimals ------------------------------
(***************************************************************************)
(* Money as the backend computes it: decimal text read into scaled         *)
(* integers, multiplied, truncated and rounded. A rate is an integer of    *)
(* RateUnit to the dollar (8 digits in the code), an amount of usage of    *)
(* UsageUnit to the hour (4 digits).                                       *)
(***************************************************************************)
EXTENDS Integers

CONSTANTS RateUnit, UsageUnit

(* Division of BigInts drops the fraction, so it goes toward zero. *)
Truncate(n, unit) ==
  IF n < 0 THEN -((-n) \div unit) ELSE n \div unit

MultiplyMoney(rate, usage) == Truncate(rate * usage, UsageUnit)

CentUnit == RateUnit \div 100

(* Mutant of RoundMoneyToCent: the fraction of a cent is cut off. *)
CutMoneyToCent(value) == Truncate(value, CentUnit)

(* Half a cent is added, whatever the sign. *)
RoundMoneyToCent(value) == Truncate(value + CentUnit \div 2, CentUnit)

(* costRecordCents *)
Cents(rate, usage) == RoundMoneyToCent(MultiplyMoney(rate, usage))
=============================================================================
