------------------------------ MODULE LiveTotals ------------------------------
(***************************************************************************)
(* What the live candles promise to somebody who only looks at the window, *)
(* the volume and the last price of each market and resolution: windows    *)
(* follow one another, a window's volume only grows, a new window starts   *)
(* from nothing, and the last price survives the change of window.  How    *)
(* locks, cron runs and the updates channel bring this about is not said.  *)
(***************************************************************************)
EXTENDS Integers

CONSTANTS Markets, Resolutions, Prices, Amounts, NoPrice

VARIABLE totals   \* totals[m][r]: the live total, or Absent before it is loaded

Absent == [window |-> -1, volume |-> 0, last |-> NoPrice]

Total == [window : Nat, volume : Nat, last : Prices \cup {NoPrice}]

Init == totals = [m \in Markets |-> [r \in Resolutions |-> Absent]]

\* Only the total of one market and resolution changes, to another total.
Becomes(m, r, window, volume, last) ==
    totals' = [totals EXCEPT ![m][r] =
                    [window |-> window, volume |-> volume, last |-> last]]

\* The total found in the database, or an empty one, whatever its window.
Load(m, r) ==
    /\ totals[m][r] = Absent
    /\ totals'[m][r] \in Total
    /\ totals' = [totals EXCEPT ![m][r] = totals'[m][r]]

\* A deal of the live window.
Trade(m, r) ==
    /\ totals[m][r] # Absent
    /\ \E p \in Prices, a \in Amounts :
          Becomes(m, r, totals[m][r].window, totals[m][r].volume + a, p)

\* The first deal of a later window.
TradeInNewWindow(m, r) ==
    /\ totals[m][r] # Absent
    /\ totals'[m][r].window > totals[m][r].window
    /\ \E p \in Prices, a \in Amounts :
          Becomes(m, r, totals'[m][r].window, a, p)

\* A later window begins without a deal.
Roll(m, r) ==
    /\ totals[m][r] # Absent
    /\ totals'[m][r].window > totals[m][r].window
    /\ Becomes(m, r, totals'[m][r].window, 0, totals[m][r].last)

Next == \E m \in Markets, r \in Resolutions :
            Load(m, r) \/ Trade(m, r) \/ TradeInNewWindow(m, r) \/ Roll(m, r)

Spec == Init /\ [][Next]_totals
===============================================================================
