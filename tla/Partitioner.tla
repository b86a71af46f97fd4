---------------------------- MODULE Partitioner ----------------------------
(***************************************************************************)
(* The least-bytes partitioner of the Kafka producer.  The counters are in *)
(* a concurrent map whose iteration order is not determined; they wrap at  *)
(* 2^Width.                                                                *)
(***************************************************************************)
EXTENDS Naturals, SequencesExt

CONSTANTS
  MaxPartitions,  \* bound: partitions of the topic
  Width           \* bits of a counter, 64 in the code

ASSUME PartitionerAssumption ==
  /\ MaxPartitions \in Nat \ {0} /\ Width \in Nat

VARIABLES
  byteCounters,   \* from partition to the bytes it was given
  partitions,     \* numPartitions of the last call
  last,           \* the last call: the counters it searched, and its pick
  calls           \* calls so far

vars == <<byteCounters, partitions, last, calls>>

-----------------------------------------------------------------------------
\* Mutant of Resize: the counters of partitions that are gone stay.
ResizeGrowsOnly(counters, numPartitions) ==
  [i \in DOMAIN counters \cup 0..(numPartitions - 1) |-> IF i \in DOMAIN counters THEN counters[i] ELSE 0]

\* The two loops that drop the counters of partitions that are gone and add
\* zero counters for new ones.
Resize(counters, numPartitions) ==
  [i \in 0..(numPartitions - 1) |-> IF i \in DOMAIN counters THEN counters[i] ELSE 0]

\* Mutant of Scan: minBytes is not updated.
ScanForgetsBytes(acc, i, counters) ==
  IF acc.minBytes = 0 \/ counters[i] < acc.minBytes
  THEN [acc EXCEPT !.minPartition = i]
  ELSE acc

\* One round of the search.
Scan(acc, i, counters) ==
  IF acc.minBytes = 0 \/ counters[i] < acc.minBytes
  THEN [minBytes |-> counters[i], minPartition |-> i]
  ELSE acc

\* The partitions the search can return, over the orders of the iteration.
findPartitionWithMinBytes(counters) ==
  {FoldLeft(LAMBDA acc, i : Scan(acc, i, counters),
            [minBytes |-> 0, minPartition |-> 0], order).minPartition :
     order \in SetToSeqs(DOMAIN counters)}

\* size is the length of key and value together.
Partition(size, numPartitions) ==
  /\ calls' = calls + 1
  /\ partitions' = numPartitions
  /\ LET counters == Resize(byteCounters, numPartitions) IN
     \E i \in findPartitionWithMinBytes(counters) :
       /\ byteCounters' = [counters EXCEPT ![i] = (@ + size) % 2^Width]
       /\ last' = [counters |-> counters, pick |-> i]

-----------------------------------------------------------------------------
NewLeastBytesPartitioner ==
  /\ byteCounters = <<>> /\ partitions = 0 /\ calls = 0
  /\ last = [counters |-> <<>>, pick |-> 0]

-----------------------------------------------------------------------------
(* Properties.                                                             *)

Least == {i \in DOMAIN last.counters :
            \A j \in DOMAIN last.counters : last.counters[i] <= last.counters[j]}

\* Whatever the history of growing and shrinking, the partition that is
\* returned exists.
PickExists == calls > 0 => last.pick \in 0..(partitions - 1)

\* Once every partition has been given something, the search returns one with
\* the fewest bytes, in every order of the iteration.  (A partition with zero
\* bytes may be passed over: zero is also the search's "no minimum yet".)
LeastOnceAllUsed ==
  (calls > 0 /\ \A i \in DOMAIN last.counters : last.counters[i] > 0) => last.pick \in Least
=============================================================================
