------------------------------- MODULE Decimals -------------------------------
(***************************************************************************)
(* The decimal numbers of candle prices (primitive.Decimal128 of the       *)
(* MongoDB driver) and the order the aggregator puts on them.              *)
(*                                                                         *)
(* A decimal is a coefficient and an exponent, coef * 10^exp, as           *)
(* Decimal128.BigInt returns them.  "2" parses to [coef |-> 2, exp |-> 0]  *)
(* and "10.5" to [coef |-> 105, exp |-> -1]: one value has several         *)
(* representations, and Go's == tells them apart.                          *)
(***************************************************************************)
EXTENDS Integers

Decimal == [coef : Int, exp : Int]

\* The Go zero value primitive.Decimal128{}: both words 0, which is 0E-6176.
\* It is what an absent price is, and not what the string "0" parses to.
ZeroDecimal == [coef |-> 0, exp |-> -6176]

\* Decimal128.IsZero of the driver: both words 0, not the numeric value 0.
IsZero(d) == d = ZeroDecimal

Sign(n) == IF n > 0 THEN 1 ELSE IF n < 0 THEN -1 ELSE 0

-------------------------------------------------------------------------------
(***************************************************************************)
(* The intended order, by value.                                           *)
(***************************************************************************)
Scaled(d, e) == d.coef * 10^(d.exp - e)

ValueOrder(d1, d2) ==
    LET s1 == Sign(d1.coef)
        s2 == Sign(d2.coef)
        e  == IF d1.exp <= d2.exp THEN d1.exp ELSE d2.exp
    IN  CASE s1 # s2 -> Sign(s1 - s2)
          [] s1 = s2 /\ s1 = 0 -> 0
          [] s1 = s2 /\ s1 # 0 /\ d1.exp = d2.exp -> Sign(d1.coef - d2.coef)
          [] OTHER -> Sign(Scaled(d1, e) - Scaled(d2, e))

-------------------------------------------------------------------------------
(***************************************************************************)
(* compareDecimal128: the sign decides first; with equal exponents the     *)
(* coefficients are compared, otherwise the exponents alone.               *)
(***************************************************************************)
CompareDecimal128(d1, d2) ==
    LET s == Sign(d1.coef) IN
    CASE s # Sign(d2.coef) -> IF s > 0 THEN 1 ELSE -1
      [] s = Sign(d2.coef) /\ d1.exp = d2.exp -> Sign(d1.coef - d2.coef)
      [] OTHER -> IF (s < 0) = (d1.exp < d2.exp) THEN 1 ELSE -1

-------------------------------------------------------------------------------
(***************************************************************************)
(* The largest and smallest of a running price and a new one, as the       *)
(* candle code picks them.  A missing price never wins the low.            *)
(***************************************************************************)
Higher(old, new) == IF CompareDecimal128(new, old) > 0 THEN new ELSE old

\* The low without the test for an absent price.
LowerPlain(old, new) == IF CompareDecimal128(new, old) < 0 THEN new ELSE old

Lower(old, new) ==
    IF CompareDecimal128(new, old) < 0 \/ IsZero(old) THEN new ELSE old

\* Prices of one market written with one number of decimals, all positive.
UniformScale(Prices) ==
    /\ \A p \in Prices : p.coef > 0
    /\ \A p, q \in Prices : p.exp = q.exp
===============================================================================
