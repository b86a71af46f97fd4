--------------------------- MODULE ConsumerProofs ---------------------------
(***************************************************************************)
(* Proofs about Consumer, for any partitions, messages and bounds, with a  *)
(* group and without one: as long as NATS refuses no message, commits      *)
(* reach the claim they belong to, no offset moves past a message that was *)
(* not published, every partition is published in order from where the     *)
(* consumer began, and the consumer implements Relay.                      *)
(***************************************************************************)
EXTENDS Consumer, TLAPS

USE DEF logVars

\* Everything in partition p from where the consumer began up to offset n has
\* been published.
PublishedBelow(p, n) == \A o \in Offsets : from[p] <= o /\ o < n => o \in published[p]

\* What has been published of a partition had been written to it.
PublishedExists == \A p \in Partitions : \A o \in published[p] : o < end[p]

\* The broker is not ahead of the marks, and the marks not ahead of NATS.
MarksArePublished ==
  \A p \in Partitions : committed[p] <= marked[p] /\ PublishedBelow(p, marked[p])

\* What a claim has read before the message it has in hand is published, and
\* so is all it has read when it is back at its select.
ClaimsArePublished ==
  \A p \in Partitions :
    /\ claim[p] = "select" => PublishedBelow(p, next[p])
    /\ claim[p] \in {"send", "await"} => next[p] = inHand[p] + 1 /\ PublishedBelow(p, inHand[p])

\* There are claims only within a session, and sessions only with a group.
ClaimsAreOfSession ==
  /\ loop # "session" => \A p \in Partitions : claim[p] = "returned"
  /\ ~groupMode => loop = "consume"

\* The claim that awaits a commit is that of the message the listener holds;
\* when the listener goes on to fetch, none does.
OneAwaits ==
  /\ (groupMode /\ listener \in {"publish", "commit"}) =>
       /\ \A p \in Partitions : claim[p] = "await" <=> p = held.partition
       /\ held.offset = inHand[held.partition]
  /\ (listener = "fetch" \/ (listener = "check" /\ ~canceled)) =>
       \A p \in Partitions : claim[p] # "await"
  /\ listener = "commit" => groupMode /\ held.offset \in published[held.partition]

\* Without a group, the listener holds the message before the next one, and
\* has published all of the others.
PartitionIsRead ==
  ~groupMode =>
    /\ listener = "publish" =>
         /\ held.partition = Partition /\ next[Partition] = held.offset + 1
         /\ PublishedBelow(Partition, held.offset)
    /\ listener \in {"fetch", "check"} => PublishedBelow(Partition, next[Partition])

\* The inductive invariant.  A commit moves the mark past the held message
\* alone because OneAwaits; what lies below it is published by
\* ClaimsArePublished.  A start at the end of a partition keeps
\* PublishedInOrder because nothing beyond the end is published.
Positions ==
  /\ MarksArePublished /\ ClaimsArePublished /\ ClaimsAreOfSession
  /\ OneAwaits /\ PartitionIsRead /\ PublishedInOrder /\ PublishedExists

IInv == TypeOK /\ Positions

-----------------------------------------------------------------------------
(* Types, in two parts.                                                    *)

FlagTypes ==
  /\ ending \in BOOLEAN /\ faults \in Nat
  /\ canceled \in BOOLEAN /\ closed \in BOOLEAN /\ panicked \in BOOLEAN /\ restarts \in Nat

PositionTypes ==
  /\ groupMode \in BOOLEAN
  /\ end \in [Partitions -> 0..Messages]
  /\ committed \in [Partitions -> Int] /\ marked \in [Partitions -> Int]
  /\ next \in [Partitions -> Nat] /\ from \in [Partitions -> Nat]
  /\ \A p \in Partitions : /\ committed[p] \in NoOffset..end[p] /\ marked[p] \in NoOffset..end[p]
                           /\ next[p] \in 0..end[p] /\ from[p] \in 0..end[p]
  /\ claim \in [Partitions -> {"select", "send", "sendNil", "await", "returned"}]
  /\ inHand \in [Partitions -> Nat]
  /\ loop \in {"consume", "session", "report"}
  /\ listener \in {"fetch", "publish", "commit", "check", "exited", "failed"}
  /\ held \in [partition : Partitions, offset : Nat]
  /\ published \in [Partitions -> SUBSET Offsets]

LEMMA TypeParts == TypeOK <=> FlagTypes /\ PositionTypes
BY Zenon DEF TypeOK, FlagTypes, PositionTypes

\* The actions that move a message, an offset, a claim or the loop; the others
\* leave all of these alone, and never take a cancellation back.
LEMMA NextCases ==
  ASSUME [Next]_vars
  PROVE  \/ SessionBegins
         \/ \E err \in BOOLEAN : ConsumeReturns(err)
         \/ ConsumeClosed
         \/ AutoCommit
         \/ \E p \in Partitions : Produce(p)
         \/ \E p \in Partitions : ClaimReads(p)
         \/ \E p \in Partitions : ClaimReturns(p) \/ ClaimReadsNil(p)
         \/ \E p \in Partitions, bad \in BOOLEAN : Fetch(p, bad)
         \/ FetchError
         \/ \E bad \in BOOLEAN : FetchPartition(bad)
         \/ FetchCanceled
         \/ \E ok \in BOOLEAN : Publish(ok)
         \/ \E p \in Partitions : Commit(p)
         \/ CommitError
         \/ CheckDone
         \/ Restart
         \/ /\ UNCHANGED <<groupMode, end, from, committed, marked, next, claimVars, loop, listenerVars, published>>
            /\ UNCHANGED canceled \/ canceled'
<1>1. GroupStep =>
        \/ SessionBegins \/ (\E err \in BOOLEAN : ConsumeReturns(err)) \/ ConsumeClosed \/ AutoCommit
        \/ (\E p \in Partitions : Produce(p))
        \/ UNCHANGED <<groupMode, end, from, committed, marked, next, claimVars, loop, listenerVars, published, canceled>>
  BY DEF GroupStep, SessionEnding, stopVars
<1>2. ClaimStep =>
        \/ \E p \in Partitions : ClaimReads(p)
        \/ \E p \in Partitions : ClaimReturns(p) \/ ClaimReadsNil(p)
  BY DEF ClaimStep
<1>3. (\E p \in Partitions : FetchNil(p)) \/ FetchPartitionNil \/ PublishNilStan =>
        UNCHANGED <<groupMode, end, from, committed, marked, next, claimVars, loop, listenerVars, published, canceled>>
  BY DEF FetchNil, FetchPartitionNil, PublishNilStan, groupVars
<1>4. Shutdown \/ Close =>
        /\ UNCHANGED <<groupMode, end, from, committed, marked, next, claimVars, loop, listenerVars, published>>
        /\ UNCHANGED canceled \/ canceled'
  BY Zenon DEF Shutdown, Close, groupVars
<1>5. UNCHANGED vars =>
        UNCHANGED <<groupMode, end, from, committed, marked, next, claimVars, loop, listenerVars, published, canceled>>
  BY DEF vars, groupVars, stopVars
<1>. QED
  BY <1>1, <1>2, <1>3, <1>4, <1>5 DEF Next, ListenerStep, StopStep

LEMMA FlagsNext == FlagTypes /\ [Next]_vars => FlagTypes'
<1>. SUFFICES ASSUME FlagTypes, [Next]_vars PROVE FlagTypes'
  OBVIOUS
<1>1. faults' \in Nat /\ restarts' \in Nat
  <2>1. /\ UNCHANGED faults \/ faults' = faults + 1
        /\ UNCHANGED restarts \/ restarts' = restarts + 1
    <3>1. GroupStep \/ ClaimStep => UNCHANGED restarts /\ (UNCHANGED faults \/ faults' = faults + 1)
      BY DEF GroupStep, SessionBegins, SessionEnding, ConsumeClosed, AutoCommit, ConsumeReturns, Produce,
         ClaimStep, ClaimReads, ClaimReturns, ClaimReadsNil, groupVars, stopVars
    <3>2. ListenerStep => UNCHANGED restarts /\ (UNCHANGED faults \/ faults' = faults + 1)
      BY DEF ListenerStep, Fetch, FetchNil, FetchPartition, FetchPartitionNil, FetchError, FetchCanceled,
         PublishNilStan, Publish, Commit, CommitError, CheckDone, groupVars, stopVars
    <3>3. StopStep => UNCHANGED faults /\ (UNCHANGED restarts \/ restarts' = restarts + 1)
      <4>1. Shutdown \/ Close => UNCHANGED <<faults, restarts>>
        BY Zenon DEF Shutdown, Close, groupVars
      <4>2. Restart => UNCHANGED faults /\ restarts' = restarts + 1
        BY DEF Restart
      <4>. QED
        BY <4>1, <4>2 DEF StopStep
    <3>4. UNCHANGED vars => UNCHANGED <<faults, restarts>>
      BY DEF vars, groupVars, stopVars
    <3>. QED
      BY <3>1, <3>2, <3>3, <3>4, Zenon DEF Next
  <2>. QED
    BY <2>1 DEF FlagTypes
<1>2. ending' \in BOOLEAN /\ canceled' \in BOOLEAN /\ closed' \in BOOLEAN
  <2>. USE DEF FlagTypes
  <2>1. CASE GroupStep
    <3>1. UNCHANGED <<canceled, closed>> /\ (UNCHANGED ending \/ ending' = TRUE \/ ending' = FALSE)
      BY <2>1 DEF GroupStep, SessionBegins, SessionEnding, ConsumeClosed, AutoCommit, ConsumeReturns, Produce,
         groupVars, stopVars
    <3>. QED
      BY <3>1, Zenon
  <2>2. CASE ClaimStep \/ ListenerStep
    <3>1. UNCHANGED <<ending, canceled, closed>>
      BY <2>2 DEF ClaimStep, ClaimReads, ClaimReturns, ClaimReadsNil,
         ListenerStep, Fetch, FetchNil, FetchPartition, FetchPartitionNil, FetchError, FetchCanceled,
         PublishNilStan, Publish, Commit, CommitError, CheckDone, groupVars, stopVars
    <3>. QED
      BY <3>1
  <2>3. CASE StopStep
    <3>1. /\ UNCHANGED ending \/ ending' = TRUE \/ ending' = FALSE
          /\ UNCHANGED canceled \/ canceled' = TRUE \/ canceled' = FALSE
          /\ UNCHANGED closed \/ closed' = TRUE \/ closed' = FALSE
      BY <2>3 DEF StopStep, Shutdown, Close, Restart, groupVars
    <3>. QED
      BY <3>1, Zenon
  <2>4. CASE UNCHANGED vars
    BY <2>4 DEF vars, groupVars, stopVars
  <2>. QED
    BY <2>1, <2>2, <2>3, <2>4 DEF Next
<1>3. panicked' \in BOOLEAN
  <2>1. CASE GroupStep \/ UNCHANGED vars
    BY <2>1 DEF GroupStep, SessionBegins, SessionEnding, ConsumeClosed, AutoCommit, ConsumeReturns, Produce,
       stopVars, vars, FlagTypes
  <2>2. CASE ClaimStep
    <3>1. UNCHANGED panicked \/ panicked' = closed
      BY <2>2 DEF ClaimStep, ClaimReads, ClaimReturns, ClaimReadsNil, stopVars
    <3>. QED
      BY <3>1, Zenon DEF FlagTypes
  <2>3. CASE ListenerStep
    <3>1. UNCHANGED panicked \/ panicked' = TRUE
      BY <2>3 DEF ListenerStep, Fetch, FetchNil, FetchPartition, FetchPartitionNil, FetchError, FetchCanceled,
         PublishNilStan, Publish, Commit, CommitError, CheckDone, stopVars
    <3>. QED
      BY <3>1, Zenon DEF FlagTypes
  <2>4. CASE StopStep
    <3>1. \/ UNCHANGED panicked
          \/ panicked' = FALSE
          \/ panicked' = (\E p \in Partitions : claim[p] \in {"send", "sendNil", "await"})
      BY <2>4, Zenon DEF StopStep, Shutdown, Close, Restart
    <3>. QED
      BY <3>1, Zenon DEF FlagTypes
  <2>. QED
    BY <2>1, <2>2, <2>3, <2>4, Zenon DEF Next
<1>. QED
  BY <1>1, <1>2, <1>3 DEF FlagTypes

-----------------------------------------------------------------------------
(* The invariant.                                                          *)

LEMMA InvInit == Init => IInv
<1>. SUFFICES ASSUME Init PROVE IInv
  OBVIOUS
<1>1. FlagTypes
  BY Zenon DEF Init, FlagTypes
<1>2. PositionTypes
  <2>1. groupMode \in BOOLEAN
    BY ConsumerAssumption DEF Init
  <2>2. 0 \in 0..Messages
    BY ConsumerAssumption
  <2>3. held \in [partition : Partitions, offset : Nat]
    BY DEF Init
  <2>. QED
    BY <2>1, <2>2, <2>3 DEF Init, PositionTypes, NoOffset
<1>3. \A p \in Partitions : /\ committed[p] = NoOffset /\ marked[p] = NoOffset /\ next[p] = 0
                            /\ claim[p] = "returned" /\ published[p] = {}
  BY DEF Init
<1>4. \A p \in Partitions : PublishedBelow(p, 0) /\ PublishedBelow(p, NoOffset)
  BY ConsumerAssumption DEF PublishedBelow, Offsets, NoOffset
<1>5. MarksArePublished /\ ClaimsArePublished
  BY <1>3, <1>4 DEF MarksArePublished, ClaimsArePublished, NoOffset
<1>6. ClaimsAreOfSession /\ OneAwaits
  BY <1>3, Zenon DEF Init, ClaimsAreOfSession, OneAwaits
<1>7. PartitionIsRead
  BY <1>3, <1>4, ConsumerAssumption, Zenon DEF Init, PartitionIsRead
<1>8. PublishedInOrder /\ PublishedExists
  BY <1>3 DEF PublishedInOrder, PublishedExists
<1>. QED
  BY <1>1, <1>2, <1>5, <1>6, <1>7, <1>8, TypeParts, Zenon DEF IInv, Positions

\* A step of the group: the session begins, ends or is closed, or the marks
\* reach the broker.
LEMMA GroupKeeps ==
  ASSUME IInv,
         SessionBegins \/ (\E err \in BOOLEAN : ConsumeReturns(err)) \/ ConsumeClosed \/ AutoCommit
  PROVE  (PositionTypes /\ Positions)'
<1>. PositionTypes /\ Positions
  BY TypeParts DEF IInv
<1>1. CASE SessionBegins
  <2>1. /\ UNCHANGED <<groupMode, end, committed, marked, inHand, listener, held, canceled, published>>
        /\ groupMode /\ loop = "consume" /\ loop' = "session"
        /\ next' = [p \in Partitions |-> IF marked[p] = NoOffset THEN end[p] ELSE marked[p]]
        /\ from' = [p \in Partitions |-> IF marked[p] = NoOffset THEN end[p] ELSE from[p]]
        /\ claim' = [p \in Partitions |-> "select"]
    BY <1>1, Zenon DEF SessionBegins, listenerVars, stopVars
  <2>2. \A p \in Partitions : claim[p] = "returned" /\ claim'[p] = "select"
    BY <2>1, Zenon DEF Positions, ClaimsAreOfSession
  <2>3. \A p \in Partitions :
          \/ marked[p] = NoOffset /\ next'[p] = end[p] /\ from'[p] = end[p]
          \/ marked[p] # NoOffset /\ next'[p] = marked[p] /\ from'[p] = from[p]
    BY <2>1, Zenon
  <2>4. PositionTypes'
    <3>1. next' \in [Partitions -> Nat] /\ from' \in [Partitions -> Nat]
      <4>1. \A p \in Partitions : next'[p] \in Nat /\ from'[p] \in Nat
        BY <2>3, ConsumerAssumption DEF PositionTypes, NoOffset
      <4>. QED
        BY <2>1, <4>1, Zenon
    <3>2. \A p \in Partitions : next'[p] \in 0..end[p] /\ from'[p] \in 0..end[p]
      BY <2>3, ConsumerAssumption DEF PositionTypes, NoOffset
    <3>. QED
      BY <2>1, <3>1, <3>2, Zenon DEF PositionTypes
  <2>5. \A p \in Partitions : PublishedBelow(p, marked[p])' /\ PublishedBelow(p, next[p])'
    <3>. SUFFICES ASSUME NEW p \in Partitions
                  PROVE  PublishedBelow(p, marked[p])' /\ PublishedBelow(p, next[p])'
      BY Zenon
    <3>1. CASE marked[p] = NoOffset
      BY <2>1, <2>3, <3>1, ConsumerAssumption DEF PublishedBelow, PositionTypes, Offsets, NoOffset
    <3>2. CASE marked[p] # NoOffset
      BY <2>1, <2>3, <3>2, Zenon DEF PublishedBelow, Positions, MarksArePublished
    <3>. QED
      BY <3>1, <3>2, Zenon
  <2>6. MarksArePublished' /\ ClaimsArePublished'
    BY <2>1, <2>2, <2>5, Zenon DEF Positions, MarksArePublished, ClaimsArePublished
  <2>7. ClaimsAreOfSession' /\ PartitionIsRead' /\ PublishedExists'
    BY <2>1, Zenon DEF Positions, ClaimsAreOfSession, PartitionIsRead, PublishedExists
  <2>8. PublishedInOrder'
    <3>. SUFFICES ASSUME NEW p \in Partitions, NEW o \in published[p], NEW q \in from'[p]..o
                  PROVE  q \in published[p]
      BY <2>1, Zenon DEF PublishedInOrder
    <3>1. o < end[p] /\ o \in Nat /\ end[p] \in Nat /\ from[p] \in Nat
      BY ConsumerAssumption DEF Positions, PublishedExists, PositionTypes, Offsets
    <3>. QED
      BY <2>3, <3>1 DEF Positions, PublishedInOrder
  <2>9. OneAwaits'
    <3>1. held.partition \in Partitions
      BY Zenon DEF PositionTypes
    <3>. QED
      BY <2>1, <2>2, <3>1, Zenon DEF Positions, OneAwaits
  <2>. QED
    BY <2>4, <2>6, <2>7, <2>8, <2>9, Zenon DEF Positions
<1>2. CASE \E err \in BOOLEAN : ConsumeReturns(err)
  <2>1. /\ UNCHANGED <<groupMode, end, from, marked, next, claim, inHand, listener, held, canceled, published>>
        /\ loop = "session" /\ loop' \in {"report", "consume"} /\ committed' = marked
        /\ \A p \in Partitions : claim[p] = "returned"
    BY <1>2, Zenon DEF ConsumeReturns, claimVars, listenerVars, stopVars
  <2>2. PositionTypes'
    BY <2>1 DEF PositionTypes
  <2>3. groupMode
    BY <2>1, Zenon DEF Positions, ClaimsAreOfSession
  <2>4. MarksArePublished' /\ ClaimsArePublished' /\ ClaimsAreOfSession'
    BY <2>1, <2>3 DEF Positions, MarksArePublished, ClaimsArePublished, ClaimsAreOfSession, PublishedBelow,
       PositionTypes
  <2>5. OneAwaits' /\ PartitionIsRead' /\ PublishedInOrder' /\ PublishedExists'
    BY <2>1, <2>3, Zenon DEF Positions, OneAwaits, PartitionIsRead, PublishedInOrder, PublishedExists
  <2>. QED
    BY <2>2, <2>4, <2>5, Zenon DEF Positions
<1>3. CASE ConsumeClosed
  <2>1. /\ UNCHANGED <<groupMode, end, from, committed, marked, next, claim, inHand, listener, held, canceled, published>>
        /\ groupMode /\ loop = "consume" /\ loop' = "report"
    BY <1>3, Zenon DEF ConsumeClosed, groupVars, claimVars, listenerVars, stopVars
  <2>2. PositionTypes'
    BY <2>1, Zenon DEF PositionTypes
  <2>3. MarksArePublished' /\ ClaimsArePublished' /\ ClaimsAreOfSession'
    BY <2>1, Zenon DEF Positions, MarksArePublished, ClaimsArePublished, ClaimsAreOfSession, PublishedBelow
  <2>4. OneAwaits' /\ PartitionIsRead' /\ PublishedInOrder' /\ PublishedExists'
    BY <2>1, Zenon DEF Positions, OneAwaits, PartitionIsRead, PublishedInOrder, PublishedExists
  <2>. QED
    BY <2>2, <2>3, <2>4 DEF Positions
<1>4. CASE AutoCommit
  <2>1. /\ UNCHANGED <<groupMode, end, from, marked, next, claim, inHand, loop, listener, held, canceled, published>>
        /\ committed' = marked
    BY <1>4, Zenon DEF AutoCommit, claimVars, listenerVars, stopVars
  <2>2. PositionTypes'
    BY <2>1, Zenon DEF PositionTypes
  <2>3. MarksArePublished' /\ ClaimsArePublished' /\ ClaimsAreOfSession'
    BY <2>1 DEF Positions, MarksArePublished, ClaimsArePublished, ClaimsAreOfSession, PublishedBelow,
       PositionTypes
  <2>4. OneAwaits' /\ PartitionIsRead' /\ PublishedInOrder' /\ PublishedExists'
    BY <2>1, Zenon DEF Positions, OneAwaits, PartitionIsRead, PublishedBelow, PublishedInOrder, PublishedExists
  <2>. QED
    BY <2>2, <2>3, <2>4 DEF Positions
<1>. QED
  BY <1>1, <1>2, <1>3, <1>4

\* A step of a claim: it reads a message or a nil, or returns.
LEMMA ClaimKeeps ==
  ASSUME IInv, NEW p \in Partitions, ClaimReads(p) \/ ClaimReturns(p) \/ ClaimReadsNil(p)
  PROVE  (PositionTypes /\ Positions)'
<1>. PositionTypes /\ Positions
  BY TypeParts, Zenon DEF IInv
<1>1. UNCHANGED <<groupMode, end, from, committed, marked, loop, listener, held, canceled, published>>
  BY Zenon DEF ClaimReads, ClaimReturns, ClaimReadsNil, groupVars, listenerVars, stopVars
<1>2. /\ claim[p] = "select" /\ claim'[p] \in {"send", "returned", "sendNil"}
      /\ \A q \in Partitions \ {p} : claim'[q] = claim[q] /\ inHand'[q] = inHand[q] /\ next'[q] = next[q]
  BY Zenon DEF ClaimReads, ClaimReturns, ClaimReadsNil, PositionTypes, groupVars
<1>3. loop = "session" /\ groupMode
  BY <1>2, Zenon DEF Positions, ClaimsAreOfSession
<1>4. claim'[p] = "send" =>
        next[p] < end[p] /\ inHand'[p] = next[p] /\ next'[p] = next[p] + 1
  BY Zenon DEF ClaimReads, ClaimReturns, ClaimReadsNil, PositionTypes
<1>5. PositionTypes'
  <2>1. claim' \in [Partitions -> {"select", "send", "sendNil", "await", "returned"}]
    BY Zenon DEF ClaimReads, ClaimReturns, ClaimReadsNil, PositionTypes
  <2>2. next' \in [Partitions -> Nat] /\ inHand' \in [Partitions -> Nat]
    BY DEF ClaimReads, ClaimReturns, ClaimReadsNil, PositionTypes, groupVars
  <2>3. \A q \in Partitions : next'[q] \in 0..end[q]
    <3>1. next'[p] = next[p] \/ (next[p] < end[p] /\ next'[p] = next[p] + 1)
      BY Zenon DEF ClaimReads, ClaimReturns, ClaimReadsNil, PositionTypes, groupVars
    <3>. QED
      BY <1>2, <3>1, ConsumerAssumption DEF PositionTypes
  <2>. QED
    BY <1>1, <2>1, <2>2, <2>3, Zenon DEF PositionTypes
<1>6. MarksArePublished' /\ PublishedInOrder' /\ PublishedExists'
  BY <1>1, Zenon DEF Positions, MarksArePublished, PublishedBelow, PublishedInOrder, PublishedExists
<1>7. ClaimsArePublished'
  BY <1>1, <1>2, <1>4, Zenon DEF Positions, ClaimsArePublished, PublishedBelow
<1>8. ClaimsAreOfSession' /\ PartitionIsRead'
  BY <1>1, <1>3, Zenon DEF ClaimsAreOfSession, PartitionIsRead
<1>9. OneAwaits'
  <2>1. \A q \in Partitions : claim'[q] = "await" <=> claim[q] = "await"
    BY <1>2, Zenon
  <2>2. claim[held.partition] = "await" => inHand'[held.partition] = inHand[held.partition]
    BY <1>2, Zenon DEF PositionTypes
  <2>. QED
    BY <1>1, <2>1, <2>2, Zenon DEF Positions, OneAwaits, PositionTypes
<1>. QED
  BY <1>5, <1>6, <1>7, <1>8, <1>9, Zenon DEF Positions

\* Fetch in group mode: the claim of the message is the only one that waits.
LEMMA FetchKeeps ==
  ASSUME IInv, NEW p \in Partitions, NEW bad \in BOOLEAN, Fetch(p, bad)
  PROVE  (PositionTypes /\ Positions)'
<1>. PositionTypes /\ Positions
  BY TypeParts, Zenon DEF IInv
<1>1. /\ UNCHANGED <<groupMode, end, from, committed, marked, next, inHand, loop, canceled, published>>
      /\ listener = "fetch" /\ listener' \in {"failed", "publish"} /\ claim[p] = "send"
      /\ held' = Held(p, inHand[p])
  BY Zenon DEF Fetch, groupVars, stopVars
<1>2. claim'[p] = "await" /\ \A q \in Partitions \ {p} : claim'[q] = claim[q]
  BY Zenon DEF Fetch, PositionTypes
<1>3. held'.partition = p /\ held'.offset = inHand[p]
  BY <1>1, Zenon DEF Held
<1>4. loop = "session" /\ groupMode
  BY <1>1, Zenon DEF Positions, ClaimsAreOfSession
<1>5. PositionTypes'
  <2>1. claim' \in [Partitions -> {"select", "send", "sendNil", "await", "returned"}]
    BY Zenon DEF Fetch, PositionTypes
  <2>2. held' \in [partition : Partitions, offset : Nat]
    BY <1>1, Zenon DEF Held, PositionTypes
  <2>. QED
    BY <1>1, <2>1, <2>2, Zenon DEF PositionTypes
<1>6. MarksArePublished' /\ ClaimsArePublished' /\ PublishedInOrder' /\ PublishedExists'
  BY <1>1, <1>2, Zenon DEF Positions, MarksArePublished, ClaimsArePublished, PublishedBelow, PublishedInOrder,
     PublishedExists
<1>7. ClaimsAreOfSession' /\ PartitionIsRead'
  BY <1>1, <1>4, Zenon DEF ClaimsAreOfSession, PartitionIsRead
<1>8. OneAwaits'
  <2>1. \A q \in Partitions : claim'[q] = "await" <=> q = p
    BY <1>1, <1>2, Zenon DEF Positions, OneAwaits
  <2>. QED
    BY <1>1, <1>3, <2>1, Zenon DEF OneAwaits
<1>. QED
  BY <1>5, <1>6, <1>7, <1>8 DEF Positions

\* Fetch without a group: everything before the message is published.
LEMMA FetchPartitionKeeps ==
  ASSUME IInv, NEW bad \in BOOLEAN, FetchPartition(bad)
  PROVE  (PositionTypes /\ Positions)'
<1>. PositionTypes /\ Positions
  BY TypeParts DEF IInv
<1>. Partition \in Partitions /\ Messages \in Nat
  BY ConsumerAssumption, Zenon
<1>1. /\ UNCHANGED <<groupMode, end, from, committed, marked, claim, inHand, loop, canceled, published>>
      /\ ~groupMode /\ listener = "fetch" /\ listener' \in {"failed", "publish"}
      /\ next[Partition] < end[Partition]
      /\ held' = Held(Partition, next[Partition])
      /\ next' = [next EXCEPT ![Partition] = @ + 1]
  BY Zenon DEF FetchPartition, claimVars, stopVars
<1>2. /\ held'.partition = Partition /\ held'.offset = next[Partition]
      /\ next'[Partition] = next[Partition] + 1
  BY <1>1, Zenon DEF Held, PositionTypes
<1>3. \A p \in Partitions : claim[p] = "returned"
  BY <1>1, Zenon DEF Positions, ClaimsAreOfSession
<1>4. PositionTypes'
  <2>1. next' \in [Partitions -> Nat] /\ \A p \in Partitions : next'[p] \in 0..end[p]
    BY <1>1 DEF PositionTypes
  <2>2. held' \in [partition : Partitions, offset : Nat]
    BY <1>1, Zenon DEF Held, PositionTypes
  <2>. QED
    BY <1>1, <2>1, <2>2, Zenon DEF PositionTypes
<1>5. MarksArePublished' /\ ClaimsArePublished' /\ PublishedInOrder' /\ PublishedExists'
  BY <1>1, <1>3, Zenon DEF Positions, MarksArePublished, ClaimsArePublished, PublishedBelow, PublishedInOrder,
     PublishedExists
<1>6. ClaimsAreOfSession' /\ OneAwaits'
  BY <1>1, <1>3, Zenon DEF Positions, ClaimsAreOfSession, OneAwaits
<1>7. PartitionIsRead'
  BY <1>1, <1>2, Zenon DEF Positions, PartitionIsRead, PublishedBelow
<1>. QED
  BY <1>4, <1>5, <1>6, <1>7 DEF Positions

\* natsCallbackFunc: the held message is published, all before it having been.
LEMMA PublishKeeps ==
  ASSUME IInv, ~PublishMayFail, NEW ok \in BOOLEAN, Publish(ok)
  PROVE  (PositionTypes /\ Positions)'
<1>. PositionTypes /\ Positions
  BY TypeParts, Zenon DEF IInv
<1>. DEFINE p == held.partition
            o == held.offset
<1>. p \in Partitions /\ o \in Nat /\ Messages \in Nat
  BY ConsumerAssumption, Zenon DEF PositionTypes
<1>1. /\ UNCHANGED <<groupMode, end, from, committed, marked, next, claim, inHand, loop, held, canceled>>
      /\ listener = "publish"
      /\ listener' = IF groupMode THEN "commit" ELSE "check"
      /\ published' = [published EXCEPT ![p] = @ \cup {o}]
  BY Zenon DEF Publish, groupVars, claimVars, stopVars
<1>2. published'[p] = published[p] \cup {o} /\ \A q \in Partitions \ {p} : published'[q] = published[q]
  BY <1>1, Zenon DEF PositionTypes
<1>3. PublishedBelow(p, o) /\ next[p] = o + 1
  BY <1>1, Zenon DEF Positions, OneAwaits, ClaimsArePublished, PartitionIsRead
<1>4. o \in Offsets /\ o < end[p]
  <2>1. next[p] \in 0..end[p] /\ end[p] \in 0..Messages
    BY Zenon DEF PositionTypes
  <2>. QED
    BY <1>3, <2>1 DEF Offsets
<1>5. PositionTypes'
  <2>1. published' \in [Partitions -> SUBSET Offsets]
    BY <1>1, <1>4, Zenon DEF PositionTypes
  <2>. QED
    BY <1>1, <2>1, Zenon DEF PositionTypes
<1>7. MarksArePublished'
  <2>. SUFFICES ASSUME NEW q \in Partitions PROVE committed'[q] <= marked'[q] /\ PublishedBelow(q, marked[q])'
    BY <1>1, Zenon DEF MarksArePublished
  <2>. QED
    BY <1>1, <1>2, Zenon DEF Positions, MarksArePublished, PublishedBelow
<1>8. ClaimsArePublished'
  BY <1>1, <1>2, Zenon DEF Positions, ClaimsArePublished, PublishedBelow
<1>9. ClaimsAreOfSession' /\ OneAwaits'
  BY <1>1, <1>2, Zenon DEF Positions, ClaimsAreOfSession, OneAwaits
<1>10. PartitionIsRead'
  BY <1>1, <1>2, <1>3, <1>4 DEF Positions, PartitionIsRead, PublishedBelow, Offsets
<1>11. PublishedInOrder'
  <2>. SUFFICES ASSUME NEW q \in Partitions, NEW a \in published'[q], NEW b \in from[q]..a
                PROVE  b \in published'[q]
    BY <1>1, Zenon DEF PublishedInOrder
  <2>1. CASE q = p /\ a = o
    <3>1. b = o \/ (b \in Offsets /\ from[p] <= b /\ b < o)
      BY <1>4, <2>1 DEF Offsets, PositionTypes
    <3>. QED
      BY <1>2, <1>3, <2>1, <3>1, Zenon DEF PublishedBelow
  <2>2. CASE a \in published[q]
    BY <1>2, <2>2, Zenon DEF Positions, PublishedInOrder
  <2>. QED
    BY <1>2, <2>1, <2>2, Zenon
<1>12. PublishedExists'
  BY <1>1, <1>2, <1>4, Zenon DEF Positions, PublishedExists
<1>. QED
  BY <1>5, <1>7, <1>8, <1>9, <1>10, <1>11, <1>12, Zenon DEF Positions

\* Commit: the claim that takes the message is the one it came from, and the
\* mark moves past this message alone.
LEMMA CommitKeeps ==
  ASSUME IInv, NEW p \in Partitions, Commit(p)
  PROVE  (PositionTypes /\ Positions)'
<1>. PositionTypes /\ Positions
  BY TypeParts, Zenon DEF IInv
<1>. Messages \in Nat
  BY ConsumerAssumption, Zenon
<1>1. /\ UNCHANGED <<groupMode, end, from, committed, next, inHand, loop, held, canceled, published>>
      /\ listener = "commit" /\ listener' = "check" /\ claim[p] = "await"
  BY Zenon DEF Commit, stopVars
<1>2. /\ groupMode /\ p = held.partition /\ held.offset = inHand[p]
      /\ held.offset \in published[p] /\ \A q \in Partitions : claim[q] = "await" <=> q = p
  BY <1>1, Zenon DEF Positions, OneAwaits
<1>3. next[p] = held.offset + 1 /\ PublishedBelow(p, held.offset) /\ held.offset \in Nat
  BY <1>1, <1>2, Zenon DEF Positions, ClaimsArePublished, PositionTypes
<1>4. PublishedBelow(p, next[p])
  BY <1>2, <1>3 DEF PublishedBelow, Offsets
<1>5. /\ claim'[p] = "select" /\ \A q \in Partitions \ {p} : claim'[q] = claim[q]
      /\ marked'[p] \in {marked[p], next[p]} /\ marked[p] <= marked'[p]
      /\ \A q \in Partitions \ {p} : marked'[q] = marked[q]
  <2>1. marked[p] \in Int /\ held.offset \in Nat
    BY <1>3, Zenon DEF PositionTypes
  <2>2. marked' = [marked EXCEPT ![p] = IF held.offset >= @ THEN held.offset + 1 ELSE @]
    BY <1>2, Zenon DEF Commit
  <2>3. marked'[p] = IF held.offset >= marked[p] THEN held.offset + 1 ELSE marked[p]
    BY <2>2, Zenon DEF PositionTypes
  <2>4. \A q \in Partitions \ {p} : marked'[q] = marked[q]
    BY <2>2, Zenon DEF PositionTypes
  <2>5. claim'[p] = "select" /\ \A q \in Partitions \ {p} : claim'[q] = claim[q]
    BY Zenon DEF Commit, PositionTypes
  <2>. QED
    BY <1>3, <2>1, <2>3, <2>4, <2>5
<1>6. PositionTypes'
  <2>1. claim' \in [Partitions -> {"select", "send", "sendNil", "await", "returned"}]
    BY Zenon DEF Commit, PositionTypes
  <2>2. marked' \in [Partitions -> Int] /\ \A q \in Partitions : marked'[q] \in NoOffset..end[q]
    <3>1. \A q \in Partitions : marked'[q] \in NoOffset..end[q] /\ marked'[q] \in Int
      BY <1>5 DEF PositionTypes, NoOffset
    <3>2. DOMAIN marked' = Partitions /\ marked' = [q \in Partitions |-> marked'[q]]
      BY Zenon DEF Commit, PositionTypes
    <3>. QED
      BY <3>1, <3>2, Zenon
  <2>. QED
    BY <1>1, <2>1, <2>2, Zenon DEF PositionTypes
<1>7. MarksArePublished'
  <2>. SUFFICES ASSUME NEW q \in Partitions
                PROVE  committed'[q] <= marked'[q] /\ PublishedBelow(q, marked[q])'
    BY DEF MarksArePublished
  <2>1. CASE q = p
    <3>1. committed[p] <= marked[p] /\ committed[p] \in Int /\ marked[p] \in Int /\ next[p] \in Int
      BY DEF Positions, MarksArePublished, PositionTypes
    <3>2. committed'[p] <= marked'[p]
      BY <1>1, <1>5, <3>1
    <3>3. PublishedBelow(p, marked'[p])
      BY <1>4, <1>5, Zenon DEF Positions, MarksArePublished
    <3>. QED
      BY <1>1, <2>1, <3>2, <3>3 DEF PublishedBelow
  <2>2. CASE q # p
    BY <1>1, <1>5, <2>2, Zenon DEF Positions, MarksArePublished, PublishedBelow
  <2>. QED
    BY <2>1, <2>2
<1>8. ClaimsArePublished'
  BY <1>1, <1>4, <1>5, Zenon DEF Positions, ClaimsArePublished, PublishedBelow
<1>9. ClaimsAreOfSession' /\ PartitionIsRead' /\ PublishedInOrder' /\ PublishedExists'
  <2>1. loop = "session"
    BY <1>1, Zenon DEF Positions, ClaimsAreOfSession
  <2>. QED
    BY <1>1, <1>2, <2>1, Zenon DEF Positions, ClaimsAreOfSession, PartitionIsRead, PublishedInOrder,
       PublishedExists
<1>10. OneAwaits'
  BY <1>1, <1>2, <1>5, Zenon DEF OneAwaits
<1>. QED
  BY <1>6, <1>7, <1>8, <1>9, <1>10, Zenon DEF Positions

\* The other steps of the listener move nothing but the listener and the loop.
\* It gives up a message that awaits its commit only when it is canceled, since
\* Consume cannot have returned an error while a claim waits.
LEMMA ListenerKeeps ==
  ASSUME IInv, FetchError \/ FetchCanceled \/ CommitError \/ CheckDone
  PROVE  (PositionTypes /\ Positions)'
<1>. PositionTypes /\ Positions
  BY TypeParts, Zenon DEF IInv
<1>. held.partition \in Partitions
  BY Zenon DEF PositionTypes
<1>1. /\ UNCHANGED <<groupMode, end, from, committed, marked, next, claim, inHand, held, canceled, published>>
      /\ loop' = loop \/ (loop = "report" /\ loop' = "consume")
  BY Zenon DEF FetchError, FetchCanceled, CommitError, CheckDone, groupVars, claimVars, stopVars
<1>2. \/ listener = "fetch" /\ listener' \in {"failed", "exited"}
      \/ listener = "commit" /\ listener' = "check" /\ (canceled \/ loop = "report")
      \/ listener = "check" /\ listener' = "exited"
      \/ listener = "check" /\ listener' = "fetch" /\ ~canceled
  BY Zenon DEF FetchError, FetchCanceled, CommitError, CheckDone
<1>3. PositionTypes'
  BY <1>1, <1>2, Zenon DEF PositionTypes
<1>4. /\ MarksArePublished' /\ ClaimsArePublished' /\ ClaimsAreOfSession'
      /\ PublishedInOrder' /\ PublishedExists'
  BY <1>1, Zenon DEF Positions, MarksArePublished, ClaimsArePublished, ClaimsAreOfSession, PublishedBelow,
     PublishedInOrder, PublishedExists
<1>5. listener = "commit" => canceled
  BY <1>2, Zenon DEF Positions, ClaimsAreOfSession, OneAwaits
<1>6. OneAwaits'
  BY <1>1, <1>2, <1>5, Zenon DEF Positions, OneAwaits
<1>7. PartitionIsRead'
  <2>1. listener = "commit" => groupMode
    BY Zenon DEF Positions, OneAwaits
  <2>. QED
    BY <1>1, <1>2, <2>1, Zenon DEF Positions, PartitionIsRead, PublishedBelow
<1>. QED
  BY <1>3, <1>4, <1>6, <1>7 DEF Positions

\* A new consumer begins at offsets below which everything is published: those
\* of the broker after a panic.
LEMMA RestartKeeps ==
  ASSUME IInv, Restart
  PROVE  (PositionTypes /\ Positions)'
<1>. PositionTypes /\ Positions
  BY TypeParts, Zenon DEF IInv
<1>. Partition \in Partitions /\ Messages \in Nat
  BY ConsumerAssumption, Zenon
<1>1. /\ UNCHANGED <<groupMode, end, from, committed, held, published>>
      /\ marked' = committed \/ marked' = marked
      /\ next' = [p \in Partitions |-> 0] /\ inHand' = [p \in Partitions |-> 0]
      /\ claim' = [p \in Partitions |-> "returned"] /\ loop' = "consume" /\ listener' = "fetch"
  BY Zenon DEF Restart
<1>2. \A p \in Partitions : claim'[p] = "returned" /\ next'[p] = 0
  BY <1>1, Zenon
<1>3. PositionTypes'
  BY <1>1 DEF PositionTypes
<1>4. MarksArePublished'
  <2>. SUFFICES ASSUME NEW p \in Partitions
                PROVE  committed'[p] <= marked'[p] /\ PublishedBelow(p, marked[p])'
    BY Zenon DEF MarksArePublished
  <2>1. committed[p] \in Int /\ marked[p] \in Int /\ committed[p] <= marked[p]
    BY Zenon DEF Positions, MarksArePublished, PositionTypes
  <2>2. PublishedBelow(p, committed[p]) /\ PublishedBelow(p, marked[p])
    BY <2>1 DEF Positions, MarksArePublished, PublishedBelow, Offsets
  <2>. QED
    BY <1>1, <2>1, <2>2 DEF PublishedBelow
<1>5. /\ ClaimsArePublished' /\ ClaimsAreOfSession' /\ OneAwaits'
      /\ PublishedInOrder' /\ PublishedExists'
  BY <1>1, <1>2, Zenon DEF Positions, ClaimsArePublished, ClaimsAreOfSession, OneAwaits, PublishedInOrder,
     PublishedExists
<1>6. PartitionIsRead'
  BY <1>1, <1>2 DEF PartitionIsRead, PublishedBelow, Offsets
<1>. QED
  BY <1>3, <1>4, <1>5, <1>6, Zenon DEF Positions

\* A message is written: the end of the partition moves, and nothing else.
LEMMA ProduceKeeps ==
  ASSUME IInv, NEW p \in Partitions, Produce(p)
  PROVE  (PositionTypes /\ Positions)'
<1>. PositionTypes /\ Positions
  BY TypeParts DEF IInv
<1>. Messages \in Nat
  BY ConsumerAssumption
<1>1. /\ UNCHANGED <<groupMode, from, committed, marked, next, claim, inHand, loop, listener, held,
                     canceled, published>>
      /\ end[p] < Messages /\ end' = [end EXCEPT ![p] = @ + 1]
  BY Zenon DEF Produce, claimVars, listenerVars, stopVars
<1>2. /\ end' \in [Partitions -> 0..Messages]
      /\ \A q \in Partitions : end[q] <= end'[q] /\ end[q] \in Nat /\ end'[q] \in Nat
  BY <1>1 DEF PositionTypes
<1>3. PositionTypes'
  <2>1. \A q \in Partitions : /\ committed[q] \in NoOffset..end'[q] /\ marked[q] \in NoOffset..end'[q]
                              /\ next[q] \in 0..end'[q] /\ from[q] \in 0..end'[q]
    BY <1>2 DEF PositionTypes, NoOffset
  <2>. QED
    BY <1>1, <1>2, <2>1, Zenon DEF PositionTypes
<1>4. MarksArePublished' /\ ClaimsArePublished' /\ ClaimsAreOfSession'
  BY <1>1, Zenon DEF Positions, MarksArePublished, ClaimsArePublished, ClaimsAreOfSession, PublishedBelow
<1>5. OneAwaits' /\ PartitionIsRead' /\ PublishedInOrder'
  BY <1>1, Zenon DEF Positions, OneAwaits, PartitionIsRead, PublishedBelow, PublishedInOrder
<1>6. PublishedExists'
  BY <1>1, <1>2 DEF Positions, PublishedExists, PositionTypes, Offsets
<1>. QED
  BY <1>3, <1>4, <1>5, <1>6, Zenon DEF Positions

LEMMA InvNext ==
  ASSUME ~PublishMayFail
  PROVE  IInv /\ [Next]_vars => IInv'
<1>. SUFFICES ASSUME IInv, [Next]_vars PROVE IInv'
  OBVIOUS
<1>1. FlagTypes'
  BY TypeParts, FlagsNext, Zenon DEF IInv
<1>2. (PositionTypes /\ Positions)'
  <2>1. CASE /\ UNCHANGED <<groupMode, end, from, committed, marked, next, claimVars, loop, listenerVars, published>>
             /\ UNCHANGED canceled \/ canceled'
    <3>. PositionTypes /\ Positions
      BY TypeParts, Zenon DEF IInv
    <3>1. UNCHANGED <<groupMode, end, from, committed, marked, next, claim, inHand, loop, listener, held,
                      published>>
      BY <2>1, Zenon DEF claimVars, listenerVars
    <3>2. PositionTypes'
      BY <3>1, Zenon DEF PositionTypes
    <3>3. MarksArePublished' /\ ClaimsArePublished' /\ ClaimsAreOfSession'
      BY <3>1, Zenon DEF Positions, MarksArePublished, ClaimsArePublished, ClaimsAreOfSession, PublishedBelow
    <3>4. OneAwaits'
      <4>1. OneAwaits /\ (canceled => canceled')
        BY <2>1 DEF Positions
      <4>. QED
        BY ONLY <3>1, <4>1, Zenon DEF OneAwaits
    <3>5. PartitionIsRead' /\ PublishedInOrder' /\ PublishedExists'
      BY <3>1 DEF Positions, PartitionIsRead, PublishedBelow, PublishedInOrder, PublishedExists
    <3>. QED
      BY <3>2, <3>3, <3>4, <3>5, Zenon DEF Positions
  <2>. QED
    BY <2>1, NextCases, GroupKeeps, ClaimKeeps, FetchKeeps, FetchPartitionKeeps, PublishKeeps,
       CommitKeeps, ListenerKeeps, RestartKeeps, ProduceKeeps, Zenon
<1>3. TypeOK'
  BY <1>1, <1>2, TypeParts, PTL
<1>. QED
  BY <1>2, <1>3, Zenon DEF IInv

-----------------------------------------------------------------------------
(* Theorems.                                                               *)

\* The invariant holds in every behaviour in which NATS refuses no message.
THEOREM ConsumerInvariant ==
  ASSUME ~PublishMayFail
  PROVE  Spec => []IInv
<1>1. IInv /\ [Next]_vars => IInv'
  BY InvNext
<1>. QED
  BY <1>1, InvInit, PTL DEF Spec

\* Every variable keeps its type, and no offset leaves its partition.
THEOREM TypeCorrect ==
  ASSUME ~PublishMayFail
  PROVE  Spec => []TypeOK
<1>1. IInv => TypeOK
  BY Zenon DEF IInv
<1>. QED
  BY <1>1, ConsumerInvariant, PTL

\* However many claims share commitCh, a commit reaches the claim that read
\* the message (Fetch, Commit, ConsumeClaim).
THEOREM CommitsDoNotStray ==
  ASSUME ~PublishMayFail
  PROVE  Spec => []CommitReachesItsClaim
<1>1. IInv => CommitReachesItsClaim
  <2>. SUFFICES ASSUME IInv, groupMode, listener \in {"publish", "commit"}
                PROVE  Awaiting = {held.partition}
    BY Zenon DEF CommitReachesItsClaim
  <2>1. held.partition \in Partitions
    BY Zenon DEF IInv, TypeOK
  <2>. QED
    BY <2>1 DEF IInv, Positions, OneAwaits, Awaiting
<1>. QED
  BY <1>1, ConsumerInvariant, PTL

\* At least once: from where it began, the group moves past no message whose
\* publish has not succeeded, across rebalances, errors of Consume, shutdowns
\* and panics.
THEOREM AtLeastOnce ==
  ASSUME ~PublishMayFail
  PROVE  Spec => []OutstandingUntilCommitted
<1>1. IInv => OutstandingUntilCommitted
  <2>. SUFFICES ASSUME IInv, NEW p \in Partitions, NEW o \in Offsets, from[p] <= o,
                       o < marked[p] \/ o < committed[p]
                PROVE  o \in published[p]
    BY Zenon DEF OutstandingUntilCommitted
  <2>1. committed[p] \in Int /\ marked[p] \in Int /\ Messages \in Nat
    BY ConsumerAssumption, Zenon DEF IInv, TypeOK
  <2>2. committed[p] <= marked[p] /\ PublishedBelow(p, marked[p])
    BY Zenon DEF IInv, Positions, MarksArePublished
  <2>3. o < marked[p]
    BY <2>1, <2>2 DEF Offsets
  <2>. QED
    BY <2>2, <2>3, Zenon DEF PublishedBelow
<1>. QED
  BY <1>1, ConsumerInvariant, PTL

\* A partition is published in order and without gaps from where the consumer
\* began, with a group and without one, whatever ends the session, the
\* connector or the process.
THEOREM InOrder ==
  ASSUME ~PublishMayFail
  PROVE  Spec => []PublishedInOrder
<1>1. IInv => PublishedInOrder
  BY DEF IInv, Positions
<1>. QED
  BY <1>1, ConsumerInvariant, PTL

\* The consumer implements the relay: a publish delivers the held message, a
\* commit on the broker releases what lies below it, a session that begins
\* without a stored offset passes over what is in the partition, and no other
\* step is seen.
THEOREM ConsumerImplementsRelay ==
  ASSUME ~PublishMayFail
  PROVE  Spec => ImplementsRelay
<1>. DEFINE Items == Partitions \X Offsets
            Source == [i \in Items |-> i[1]]
            delivered == {i \in Items : i[2] \in published[i[1]]}
            released == {i \in Items : from[i[1]] <= i[2] /\ i[2] < committed[i[1]]}
            passed == {i \in Items : i[2] < from[i[1]]}
<1>1. Init => Kafka2NATS!Init
  <2>. SUFFICES ASSUME Init PROVE delivered = {} /\ released = {} /\ passed = {}
    BY Zenon DEF Kafka2NATS!Init
  <2>1. \A p \in Partitions, o \in Offsets : o \notin published[p] /\ ~(o < committed[p]) /\ ~(o < from[p])
    BY ConsumerAssumption DEF Init, Offsets, NoOffset
  <2>. QED
    BY <2>1, Zenon
<1>2. IInv /\ [Next]_vars => [Kafka2NATS!Next]_<<delivered, released, passed>>
  <2>. SUFFICES ASSUME IInv, [Next]_vars
                PROVE  Kafka2NATS!Next \/ UNCHANGED <<delivered, released, passed>>
    BY Zenon
  <2>1. CASE \E ok \in BOOLEAN : Publish(ok)
    <3>. DEFINE i == <<held.partition, held.offset>>
    <3>1. /\ published' = [published EXCEPT ![held.partition] = @ \cup {held.offset}]
          /\ UNCHANGED <<committed, from>>
      BY <2>1, Zenon DEF Publish, groupVars
    <3>2. published \in [Partitions -> SUBSET Offsets] /\ held.partition \in Partitions
      BY Zenon DEF IInv, TypeOK
    <3>3. held.offset \in Offsets
      <4>1. IInv'
        BY InvNext, Zenon
      <4>2. published' \in [Partitions -> SUBSET Offsets]
        BY <4>1, Zenon DEF IInv, TypeOK
      <4>. QED
        BY <3>1, <3>2, <4>2, Zenon
    <3>4. i \in Items
      BY <3>2, <3>3, Zenon
    <3>5. \A p \in Partitions, o \in Offsets :
            o \in published'[p] <=> o \in published[p] \/ <<p, o>> = i
      BY <3>1, <3>2, Zenon
    <3>6. delivered' = delivered \cup {i}
      BY <3>4, <3>5
    <3>7. UNCHANGED <<released, passed>>
      BY <3>1, Zenon
    <3>. HIDE DEF i
    <3>. QED
      BY <3>4, <3>6, <3>7, Zenon DEF Kafka2NATS!Next, Kafka2NATS!Deliver
  <2>2. CASE UNCHANGED <<published, from>> /\ committed' = marked
    <3>. DEFINE S == {i \in Items : from[i[1]] <= i[2] /\ i[2] < marked[i[1]]}
    <3>1. \A p \in Partitions : /\ committed[p] \in Int /\ marked[p] \in Int /\ from[p] \in Nat
                                /\ committed[p] <= marked[p] /\ PublishedBelow(p, marked[p])
      BY Zenon DEF IInv, TypeOK, Positions, MarksArePublished
    <3>2. S \in SUBSET Items /\ S \subseteq delivered
      BY <3>1, Zenon DEF PublishedBelow
    <3>3. released' = S
      BY <2>2, Zenon
    <3>4. released \subseteq S
      BY <3>1, ConsumerAssumption DEF Offsets
    <3>5. UNCHANGED <<delivered, passed>>
      BY <2>2, Zenon
    <3>6. released' = released \cup S
      BY <3>3, <3>4, Zenon
    <3>. HIDE DEF S
    <3>. QED
      BY <3>2, <3>5, <3>6, Zenon DEF Kafka2NATS!Next, Kafka2NATS!Release
  <2>3. CASE SessionBegins
    <3>. DEFINE S == {i \in Items : marked[i[1]] = NoOffset /\ i[2] < end[i[1]]}
    <3>1. /\ UNCHANGED <<published, committed>>
          /\ from' = [p \in Partitions |-> IF marked[p] = NoOffset THEN end[p] ELSE from[p]]
      BY <2>3, Zenon DEF SessionBegins
    <3>2. \A p \in Partitions : /\ marked[p] = NoOffset => committed[p] = NoOffset
                                /\ from[p] \in Nat /\ end[p] \in Nat /\ from[p] <= end[p]
      BY ConsumerAssumption DEF IInv, TypeOK, Positions, MarksArePublished, NoOffset
    <3>3. \A p \in Partitions, o \in Offsets :
            /\ from'[p] <= o /\ o < committed'[p] <=> from[p] <= o /\ o < committed[p]
            /\ o < from'[p] <=> o < from[p] \/ (marked[p] = NoOffset /\ o < end[p])
            /\ from[p] <= o /\ o < committed[p] => marked[p] # NoOffset
      BY <3>1, <3>2, ConsumerAssumption DEF Offsets, NoOffset
    <3>4. UNCHANGED <<delivered, released>>
      BY <3>1, <3>3, Zenon
    <3>5. passed' = passed \cup S
      BY <3>3, Zenon
    <3>6. \A i \in S, j \in released : Source[i] # Source[j]
      <4>. SUFFICES ASSUME NEW i \in S, NEW j \in released PROVE i[1] # j[1]
        OBVIOUS
      <4>1. marked[i[1]] = NoOffset
        BY Zenon
      <4>2. marked[j[1]] # NoOffset
        BY <3>3, Zenon
      <4>. QED
        BY <4>1, <4>2, Zenon
    <3>7. S \in SUBSET Items
      BY Zenon
    <3>. HIDE DEF S, Items
    <3>. QED
      BY <3>4, <3>5, <3>6, <3>7, Zenon DEF Kafka2NATS!Next, Kafka2NATS!PassOver, Items
  <2>4. CASE UNCHANGED <<published, committed, from>>
    BY <2>4, Zenon
  <2>5. \/ \E ok \in BOOLEAN : Publish(ok)
        \/ UNCHANGED <<published, from>> /\ committed' = marked
        \/ SessionBegins
        \/ UNCHANGED <<published, committed, from>>
    BY NextCases, Zenon DEF ConsumeReturns, ConsumeClosed, AutoCommit, Produce, ClaimReads, ClaimReturns,
       ClaimReadsNil, Fetch, FetchError, FetchPartition, FetchCanceled, Commit, CommitError, CheckDone,
       Restart, groupVars
  <2>. QED
    BY <2>1, <2>2, <2>3, <2>4, <2>5, Zenon
<1>. QED
  BY <1>1, <1>2, ConsumerInvariant, PTL DEF Spec, ImplementsRelay, Kafka2NATS!Spec
=============================================================================
