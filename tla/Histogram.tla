----------------------------- MODULE Histogram -----------------------------
(***************************************************************************)
(* The streaming histogram behind the request-time quantiles of /varz.  A  *)
(* bin's value is a float64 weighted average; it is modelled exactly, by   *)
(* the sum of the samples in the bin and their number, and compared by     *)
(* cross multiplication.  Rounding is left out.                            *)
(***************************************************************************)
EXTENDS Integers, SequencesExt, FiniteSetsExt

CONSTANT MaxBins      \* the bound NewHistogram is given

ASSUME HistogramAssumption == MaxBins \in Nat \ {0}

\* h.Bins and h.Total.
NewHistogram == [bins |-> <<>>, total |-> 0]

Bin(n) == [sum |-> n, count |-> 1]

\* a.Value < b.Value, a.Value = n, a.Value > n
Below(a, b) == a.sum * b.count < b.sum * a.count
Equals(a, n) == a.sum = n * a.count
Above(a, n) == a.sum > n * a.count

\* The sum of F(b) over the bins of s.
SumOf(F(_), s) ==
  LET sum[i \in 0..Len(s)] == IF i = 0 THEN 0 ELSE sum[i-1] + F(s[i]) IN sum[Len(s)]

-----------------------------------------------------------------------------
\* Bins[i].Value - Bins[i-1].Value as a fraction.
Delta(s, i) == [num |-> s[i].sum * s[i-1].count - s[i-1].sum * s[i].count,
                den |-> s[i].count * s[i-1].count]

\* The scan of trim: the first bin that is closest to the one before it.
Closest(s) ==
  CHOOSE i \in 2..Len(s) :
    /\ \A j \in 2..Len(s) : Delta(s, i).num * Delta(s, j).den <= Delta(s, j).num * Delta(s, i).den
    /\ \A j \in 2..(i-1) : Delta(s, i).num * Delta(s, j).den < Delta(s, j).num * Delta(s, i).den

\* Mutant of Merge: the averages are added without their weights.
MergeUnweighted(s, i) ==
  SubSeq(s, 1, i-2) \o << [sum |-> s[i-1].sum + s[i].sum, count |-> s[i-1].count] >>
    \o SubSeq(s, i+1, Len(s))

\* Bins i-1 and i become one, of their weighted average.
Merge(s, i) ==
  SubSeq(s, 1, i-2)
    \o << [sum |-> s[i-1].sum + s[i].sum, count |-> s[i-1].count + s[i].count] >>
    \o SubSeq(s, i+1, Len(s))

\* Add makes at most one bin, so the loop of trim runs at most once.
trim(s) == IF Len(s) > MaxBins THEN Merge(s, Closest(s)) ELSE s

\* The loop of Add: the first bin at n counts it; a bin of its own goes before
\* the first bin above n, or to the end.
Insert(s, n) ==
  LET i == SelectInSeq(s, LAMBDA b : Equals(b, n) \/ Above(b, n)) IN
  CASE i = 0 -> Append(s, Bin(n))
    [] i # 0 /\ Equals(s[i], n) -> [s EXCEPT ![i] = [sum |-> @.sum + n, count |-> @.count + 1]]
    [] OTHER -> InsertAt(s, i, Bin(n))

Add(h, n) == [bins |-> trim(Insert(h.bins, n)), total |-> h.total + 1]

\* What Quantile returns for an empty histogram, -1.
NoValue == [sum |-> -1, count |-> 1]

\* The value Quantile returns for q percent: that of the first bin with which
\* the count is used up.
Quantile(h, q) ==
  LET used[i \in 0..Len(h.bins)] == IF i = 0 THEN 0 ELSE used[i-1] + h.bins[i].count
      reached == {i \in 1..Len(h.bins) : q * h.total <= 100 * used[i]}
  IN IF reached = {} THEN NoValue ELSE h.bins[Min(reached)]

\* The numerator of Mean, and Count.
MeanSum(h) == SumOf(LAMBDA b : b.sum, h.bins)
Count(h) == h.total
=============================================================================
