------------------------------- MODULE Money -------------------------------
(***************************************************************************)
(* Amounts of money.  PostgreSQL keeps them as numeric(12,2), the program  *)
(* handles them as text: a row of digits, a point, a row of digits.  An    *)
(* amount is here a number of minor units, a text the two rows of digits.  *)
(***************************************************************************)
EXTENDS Integers, Sequences

FractionDigits == 2  \* BOOKING_MONEY_FRACTION_DIGITS
MinimumDigits == FractionDigits + 1  \* BOOKING_MONEY_MINIMUM_DIGITS

(* A number as its digits, and digits as a number.                         *)
Digits[n \in Nat] ==
  IF n < 10 THEN <<n>> ELSE Append(Digits[n \div 10], n % 10)

Value(digits) ==
  LET value[n \in 0 .. Len(digits)] == IF n = 0 THEN 0 ELSE 10 * value[n - 1] + digits[n]
  IN value[Len(digits)]

(* padEnd and slice: the fraction with two digits.                         *)
Fraction(digits) == SubSeq(digits \o <<0, 0>>, 1, FractionDigits)

(* How PostgreSQL writes and reads a numeric(12,2).                        *)
Text(minor) ==
  [major |-> Digits[minor \div 100],
   fraction |-> <<(minor % 100) \div 10, minor % 10>>]

Numeric(text) == Value(text.major) * 100 + Value(Fraction(text.fraction))

(* padStart: at least three digits, so that one is left before the point.  *)
Padded(digits) == SubSeq(<<0, 0, 0>>, Len(digits) + 1, MinimumDigits) \o digits

(* Mutant: the total is not padded, and slice(-2) takes what there is.     *)
UnpaddedTotal(unitPrice, quantity) ==
  LET total == Digits[Value(unitPrice.major \o Fraction(unitPrice.fraction)) * quantity]
      point == Len(total) - FractionDigits
  IN IF point < 0 THEN [major |-> <<>>, fraction |-> total]
     ELSE [major |-> SubSeq(total, 1, point),
           fraction |-> SubSeq(total, point + 1, Len(total))]

(* BookingsService.calculateTotal                                          *)
CalculateTotal(unitPrice, quantity) ==
  LET minor == Value(unitPrice.major \o Fraction(unitPrice.fraction)) * quantity
      total == Padded(Digits[minor])
      point == Len(total) - FractionDigits
  IN [major |-> SubSeq(total, 1, point),
      fraction |-> SubSeq(total, point + 1, Len(total))]
=============================================================================
