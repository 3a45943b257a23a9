------------------------------ MODULE MCDecimals ------------------------------
(***************************************************************************)
(* compareDecimal128 against the order of the values, on every pair of a   *)
(* sample.                                                                 *)
(***************************************************************************)
EXTENDS Decimals

CONSTANT Sample

VARIABLES d1, d2

Init == d1 \in Sample /\ d2 \in Sample

\* The next call of the comparison.
Next == d1' \in Sample /\ d2' = d1

Spec == Init /\ [][Next]_<<d1, d2>>

\* compareDecimal128 orders its arguments by their values, as Test_compareDecimal128
\* expects of it for numbers of any sign and number of decimals.
CompareIsValueOrder == CompareDecimal128(d1, d2) = ValueOrder(d1, d2)

\* "-4", "-130.6543", "374" and "67.5", from the tests.
MixedSample == {[coef |-> -4, exp |-> 0], [coef |-> -1306543, exp |-> -4],
                [coef |-> 374, exp |-> 0], [coef |-> 675, exp |-> -1]}
===============================================================================
