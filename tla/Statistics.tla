----------------------------- MODULE Statistics -----------------------------
(***************************************************************************)
(* The statistics of one connector, as the holder keeps them under its     *)
(* mutex: every method is one step of its caller.  The running average is  *)
(* an exact fraction.  What a method does to a holder h is an operator on  *)
(* h; Monitoring has the callers.                                          *)
(***************************************************************************)
EXTENDS Histogram

Percents == {50, 75, 90, 95}

NewConnectorStatsHolder ==
  [stats |-> [connected |-> FALSE, connects |-> 0, disconnects |-> 0,
              msgIn |-> 0, msgOut |-> 0, bytesIn |-> 0, bytesOut |-> 0,
              count |-> 0, average |-> [num |-> 0, den |-> 1], pending |-> 0,
              quantiles |-> [q \in Percents |-> [sum |-> 0, count |-> 1]]],
   histogram |-> NewHistogram]

AddMessageIn(h, bytes) == [h EXCEPT !.stats.msgIn = @ + 1, !.stats.bytesIn = @ + bytes]
AddMessageOut(h, bytes) == [h EXCEPT !.stats.msgOut = @ + 1, !.stats.bytesOut = @ + bytes]
AddConnect(h) == [h EXCEPT !.stats.connects = @ + 1, !.stats.connected = TRUE]
AddDisconnect(h) == [h EXCEPT !.stats.disconnects = @ + 1, !.stats.connected = FALSE]

\* Mutant of AddRequestTime: the average is weighted with the count that
\* already includes the request.
AddRequestTimeLate(h, t) ==
  LET n == h.stats.count + 1
      a == h.stats.average
  IN [h EXCEPT !.stats.count = n,
               !.stats.average = [num |-> n * a.num + t * a.den, den |-> (n + 1) * a.den],
               !.histogram = Add(@, t)]

\* The running average: ((n-1) * average + t) / n.
AddRequestTime(h, t) ==
  LET n == h.stats.count + 1
      a == h.stats.average
  IN [h EXCEPT !.stats.count = n,
               !.stats.average = [num |-> (n - 1) * a.num + t * a.den, den |-> n * a.den],
               !.histogram = Add(@, t)]

AddRequest(h, bytes, t) == AddRequestTime(AddMessageOut(AddMessageIn(h, bytes), bytes), t)

AddStreamRequest(h, bytes, t, numPending) ==
  [AddRequest(h, bytes, t) EXCEPT !.stats.pending = numPending]

\* Mutant of Stats: the copy is made before the quantiles are brought up to date.
StatsStale(h) ==
  [holder |-> [h EXCEPT !.stats.quantiles = [q \in Percents |-> Quantile(h.histogram, q)]],
   copy |-> h.stats]

\* Stats brings the quantiles up to date and returns a copy.
Stats(h) ==
  LET s == [h.stats EXCEPT !.quantiles = [q \in Percents |-> Quantile(h.histogram, q)]]
  IN [holder |-> [h EXCEPT !.stats = s], copy |-> s]
=============================================================================
