----------------------------- MODULE Microbatching -----------------------------
(***************************************************************************)
(* The goroutine of Microbatching in domain/microbatching.go: it takes     *)
(* charts from an unbuffered channel, collects up to maxBatchSize of them, *)
(* waits at most two seconds for each further one, joins neighbours of one *)
(* market and resolution, and hands the batch to whoever receives.  The    *)
(* producer may close its channel and the context may be cancelled at any  *)
(* moment.                                                                 *)
(***************************************************************************)
EXTENDS Integers, Sequences, SequencesExt

CONSTANTS
    Symbols, Resolutions,
    Times,          \* the times of the points of charts
    MaxBatchSize,   \* maxBatchSize (10 in main.go)
    MaxCharts       \* bound: how many charts the producer has

ASSUME SizeAssumption == /\ MaxBatchSize \in Nat \ {0}
                         /\ MaxCharts \in Nat
ASSUME TimeAssumption == Times \subseteq Nat

VARIABLES
    offered,        \* the chart the producer waits to hand over, if any
    closed,         \* the producer has closed chartStream
    cancelled,      \* ctx is done
    mode,           \* where the goroutine waits
    batch,          \* the charts collected so far
    delivered       \* the batches received from batchStream, in order

\* History, read by no action: the points of all charts the goroutine took.
VARIABLE taken

vars == <<offered, closed, cancelled, mode, batch, delivered, taken>>

\* O, H, L, C, V and T of a chart are parallel slices: a sequence of points.
\* The number of the chart stands for its prices and its volume.
Point == [t : Times, n : 1..MaxCharts]

Chart == [symbol : Symbols, resolution : Resolutions, points : Seq(Point)]

Points(charts) == FlattenSeq([i \in DOMAIN charts |-> charts[i].points])

AllPoints(batches) == FlattenSeq([i \in DOMAIN batches |-> Points(batches[i])])

Init ==
    /\ offered = <<>>
    /\ closed = FALSE
    /\ cancelled = FALSE
    /\ mode = "idle"
    /\ batch = <<>>
    /\ delivered = <<>>
    /\ taken = <<>>

-------------------------------------------------------------------------------
(***************************************************************************)
(* mergeSameChart: a chart and its right neighbour become one if they are  *)
(* of one market and resolution, have one point each and are in order of   *)
(* time.  A joined chart is not joined again.                              *)
(***************************************************************************)
Joinable(c, d) ==
    /\ c.symbol = d.symbol /\ c.resolution = d.resolution
    /\ Len(c.points) = 1 /\ Len(d.points) = 1
    /\ c.points[1].t < d.points[1].t

Joined(c, d) == [c EXCEPT !.points = @ \o d.points]

\* The second chart of a joined pair is looked at again.
MergeAgain(charts) ==
    LET from[i \in 1..Len(charts) + 1] ==
          CASE i > Len(charts) -> <<>>
            [] i < Len(charts) /\ Joinable(charts[i], charts[i + 1]) ->
                  <<Joined(charts[i], charts[i + 1])>> \o from[i + 1]
            [] OTHER -> <<charts[i]>> \o from[i + 1]
    IN  from[1]

mergeSameChart(charts) ==
    LET from[i \in 1..Len(charts) + 2] ==
          CASE i > Len(charts) -> <<>>
            [] i < Len(charts) /\ Joinable(charts[i], charts[i + 1]) ->
                  <<Joined(charts[i], charts[i + 1])>> \o from[i + 2]
            [] OTHER -> <<charts[i]>> \o from[i + 1]
    IN  from[1]

-------------------------------------------------------------------------------
(***************************************************************************)
(* The goroutine.                                                          *)
(***************************************************************************)
Full(charts) == Len(charts) >= MaxBatchSize

\* A chart is received, the first of a batch or a further one.
Take ==
    /\ mode \in {"idle", "collecting"}
    /\ offered # <<>>
    /\ offered' = <<>>
    /\ batch' = batch \o offered
    /\ mode' = IF Full(batch') THEN "sending" ELSE "collecting"
    /\ taken' = taken \o Points(offered)
    /\ UNCHANGED <<closed, cancelled, delivered>>

\* The two seconds count only once the batch has two charts.
PatientTimeout ==
    /\ mode = "collecting" /\ Len(batch) > 1
    /\ mode' = "sending"
    /\ UNCHANGED <<offered, closed, cancelled, batch, delivered, taken>>

\* Two seconds pass without another chart.
Timeout ==
    /\ mode = "collecting"
    /\ mode' = "sending"
    /\ UNCHANGED <<offered, closed, cancelled, batch, delivered, taken>>

\* A closed chartStream is noticed within a batch only.
SeeClosedInBatch ==
    /\ closed /\ offered = <<>>
    /\ mode = "collecting" /\ mode' = "sending"
    /\ UNCHANGED <<offered, closed, cancelled, batch, delivered, taken>>

\* A closed chartStream ends the batch; found closed between batches it ends
\* the goroutine, which closes batchStream.
SeeClosed ==
    /\ closed /\ offered = <<>>
    /\ \/ mode = "collecting" /\ mode' = "sending"
       \/ mode = "idle" /\ mode' = "done"
    /\ UNCHANGED <<offered, closed, cancelled, batch, delivered, taken>>

\* The goroutine ends wherever it waits; an unfinished batch is dropped.
SeeCancelled ==
    /\ cancelled /\ mode # "done"
    /\ mode' = "done"
    /\ batch' = <<>>
    /\ UNCHANGED <<offered, closed, cancelled, delivered, taken>>

\* The receiver of batchStream takes the batch.
Deliver ==
    /\ mode = "sending"
    /\ mode' = "idle"
    /\ delivered' = Append(delivered, mergeSameChart(batch))
    /\ batch' = <<>>
    /\ UNCHANGED <<offered, closed, cancelled, taken>>

-------------------------------------------------------------------------------
(***************************************************************************)
(* The producer and the owner of the context.                              *)
(***************************************************************************)
Offer(s, r, t) ==
    LET n == Len(taken) + 1
    IN  /\ offered = <<>> /\ ~closed /\ n <= MaxCharts
        /\ offered' = <<[symbol |-> s, resolution |-> r,
                         points |-> <<[t |-> t, n |-> n]>>]>>
        /\ UNCHANGED <<closed, cancelled, mode, batch, delivered, taken>>

\* A channel is closed by the goroutine that sends to it, between two sends.
Close ==
    /\ ~closed /\ offered = <<>>
    /\ closed' = TRUE
    /\ UNCHANGED <<offered, cancelled, mode, batch, delivered, taken>>

Cancel ==
    /\ ~cancelled
    /\ cancelled' = TRUE
    /\ UNCHANGED <<offered, closed, mode, batch, delivered, taken>>

Ended == mode = "done" /\ UNCHANGED vars

Next ==
    \/ Take \/ Timeout \/ SeeClosed \/ SeeCancelled \/ Deliver
    \/ \E s \in Symbols, r \in Resolutions, t \in Times : Offer(s, r, t)
    \/ Close \/ Cancel
    \/ Ended

Spec == Init /\ [][Next]_vars

-------------------------------------------------------------------------------
(***************************************************************************)
(* Properties.                                                             *)
(***************************************************************************)
\* No chart is lost, doubled or moved, by joining neighbours as little as by
\* a timeout that races with the next chart: what was delivered, and then what
\* is collected, are the points taken, in order.  Only cancelling loses some.
PointsInOrder ==
    /\ IsPrefix(AllPoints(delivered), taken)
    /\ ~cancelled => AllPoints(delivered) \o Points(batch) = taken
===============================================================================
