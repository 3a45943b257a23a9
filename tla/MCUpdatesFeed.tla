----------------------------- MODULE MCUpdatesFeed -----------------------------
(***************************************************************************)
(* Small instances of UpdatesFeed.                                         *)
(***************************************************************************)
EXTENDS UpdatesFeed

\* Two times: neighbours of a market are in order of time or not.
TwoTimes == {60, 120}

TwoMarkets == [id1 |-> "BTC_ETH", id2 |-> "BTC_LTC"]

\* A market's candle as loaded from the database, and as built later.
TwoUpdates == {<<"BTC_ETH", "1", 60>>, <<"id1", "1", 120>>}
===============================================================================
