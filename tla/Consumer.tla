------------------------------ MODULE Consumer ------------------------------
(***************************************************************************)
(* A connector from Kafka: the listener goroutine of setUpListener, the    *)
(* consumer it fetches from, and Shutdown.  With a groupid the consumer    *)
(* has a goroutine that calls Consume and one ConsumeClaim goroutine per   *)
(* partition; they meet the listener on three unbuffered channels,         *)
(* fetchCh and commitCh, which all the claims share, and consumeErrCh.  A  *)
(* hand-over on an unbuffered channel is one step of both sides.  Without  *)
(* a groupid the listener reads one partition from its oldest offset, and  *)
(* commits nothing; a group that has stored no offset for a partition      *)
(* begins at its end, sarama's default for Consumer.Offsets.Initial.       *)
(***************************************************************************)
EXTENDS Integers, FiniteSets

CONSTANTS
  Partitions,       \* the partitions of the topic, all claimed by this member of a group
  Partition,        \* the partition of a consumer without a group
  GroupModes,       \* with a group, without one, or both
  Messages,         \* bound: messages written to each partition, at the offsets 0..Messages-1
  PublishMayFail,   \* whether the NATS side may refuse a message
  PayloadMayBeBad,  \* whether deserializePayload may fail
  ConsumeMayFail,   \* whether Consume may return an error
  StanMayBeNil,     \* whether the STAN connection may be lost under the handler
  MaxFaults,        \* bound: rebalances of the group, ends of the partition, lost STAN connections
  MaxRestarts       \* bound: no Shutdown after this many restarts

ASSUME ConsumerAssumption ==
  /\ IsFiniteSet(Partitions) /\ Partition \in Partitions
  /\ GroupModes \subseteq BOOLEAN
  /\ Messages \in Nat
  /\ PublishMayFail \in BOOLEAN /\ PayloadMayBeBad \in BOOLEAN /\ ConsumeMayFail \in BOOLEAN
  /\ StanMayBeNil \in BOOLEAN
  /\ MaxFaults \in Nat /\ MaxRestarts \in Nat

VARIABLES
  groupMode,   \* the consumer has a group
  end,         \* end[p]: the messages written to p so far
  committed,   \* committed[p]: the offset the broker has stored for the group, or NoOffset
  marked,      \* marked[p]: the offset MarkMessage has set, or NoOffset; a session begins there
  from,        \* from[p]: where the consumer last began to read p without a stored offset
  next,        \* next[p]: the next offset the message channel delivers in this session
  claim,       \* claim[p]: where the ConsumeClaim of p is
  inHand,      \* inHand[p]: the offset of the message claim p has last read
  loop,        \* where the goroutine that calls Consume is
  ending,      \* the session's context is done, or the partition's channel closed
  faults,      \* faults so far
  listener,    \* where the listener is
  held,        \* the message the listener has fetched last
  canceled,    \* the shutdown callback has run: done is closed, the context canceled
  closed,      \* Close has run: fetchCh and commitCh are closed
  panicked,    \* the process has died of a panic
  published,   \* published[p]: the offsets whose publish has returned without an error
  restarts     \* restarts so far

logVars == <<end, from>>
groupVars == <<groupMode, logVars, committed, marked, next, ending, faults>>
claimVars == <<claim, inHand>>
listenerVars == <<listener, held>>
stopVars == <<canceled, closed, panicked, restarts>>
vars == <<groupVars, claimVars, loop, listenerVars, stopVars, published>>

Offsets == 0..(Messages - 1)
NoOffset == -1
Held(p, o) == [partition |-> p, offset |-> o]

-----------------------------------------------------------------------------
(* sarama's consumer group.                                                *)

\* Somebody writes a message to p.
Produce(p) ==
  /\ end[p] < Messages
  /\ end' = [end EXCEPT ![p] = @ + 1]
  /\ UNCHANGED <<groupMode, from, committed, marked, next, ending, faults, claimVars, loop,
                 listenerVars, stopVars, published>>

\* Consume joins the group: every partition is claimed from its stored offset,
\* and from its end when there is none.
SessionBegins ==
  /\ groupMode /\ loop = "consume" /\ ~closed /\ ~panicked
  /\ loop' = "session"
  /\ ending' = FALSE
  /\ next' = [p \in Partitions |-> IF marked[p] = NoOffset THEN end[p] ELSE marked[p]]
  /\ from' = [p \in Partitions |-> IF marked[p] = NoOffset THEN end[p] ELSE from[p]]
  /\ claim' = [p \in Partitions |-> "select"]
  /\ UNCHANGED <<groupMode, end, committed, marked, faults, inHand, listenerVars, stopVars, published>>

\* The group rebalances, or loses its coordinator.  Without a group: the
\* partition consumer gives up, its offset being out of range.
SessionEnding ==
  /\ (groupMode => loop = "session") /\ ~ending /\ ~panicked
  /\ faults < MaxFaults
  /\ faults' = faults + 1
  /\ ending' = TRUE
  /\ UNCHANGED <<groupMode, logVars, committed, marked, next, claimVars, loop, listenerVars, stopVars,
                 published>>

\* Consume returns once every ConsumeClaim has: with nil, or with an error,
\* which the goroutine then offers on consumeErrCh.
ConsumeReturns(err) ==
  /\ loop = "session" /\ ending /\ ~panicked
  /\ err => ConsumeMayFail
  /\ \A p \in Partitions : claim[p] = "returned"
  /\ committed' = marked
  /\ loop' = IF err THEN "report" ELSE "consume"
  /\ UNCHANGED <<groupMode, logVars, marked, next, ending, faults, claimVars, listenerVars, stopVars, published>>

\* Consume on a closed group returns an error; nobody receives it any more.
ConsumeClosed ==
  /\ groupMode /\ loop = "consume" /\ closed /\ ~panicked
  /\ loop' = "report"
  /\ UNCHANGED <<groupVars, claimVars, listenerVars, stopVars, published>>

\* Marked offsets reach the broker in the background.
AutoCommit ==
  /\ committed # marked /\ ~panicked
  /\ committed' = marked
  /\ UNCHANGED <<groupMode, logVars, marked, next, ending, faults, claimVars, loop, listenerVars, stopVars,
                 published>>

-----------------------------------------------------------------------------
(* ConsumeClaim.                                                           *)

\* Mutant of ClaimReads: it does not wait until there is a message.
ClaimReadsAtOnce(p) ==
  /\ claim[p] = "select" /\ ~panicked
  /\ claim' = [claim EXCEPT ![p] = "send"]
  /\ inHand' = [inHand EXCEPT ![p] = next[p]]
  /\ next' = [next EXCEPT ![p] = @ + 1]
  /\ panicked' = closed
  /\ UNCHANGED <<groupMode, logVars, committed, marked, ending, faults, loop, listenerVars, canceled, closed,
                 restarts, published>>

\* The select takes a message.  Sending it on a closed fetchCh panics.
ClaimReads(p) ==
  /\ claim[p] = "select" /\ next[p] < end[p] /\ ~panicked
  /\ claim' = [claim EXCEPT ![p] = "send"]
  /\ inHand' = [inHand EXCEPT ![p] = next[p]]
  /\ next' = [next EXCEPT ![p] = @ + 1]
  /\ panicked' = closed
  /\ UNCHANGED <<groupMode, logVars, committed, marked, ending, faults, loop, listenerVars, canceled, closed,
                 restarts, published>>

\* The select sees that the session is over.
ClaimReturns(p) ==
  /\ claim[p] = "select" /\ ending /\ ~panicked
  /\ claim' = [claim EXCEPT ![p] = "returned"]
  /\ UNCHANGED <<groupVars, inHand, loop, listenerVars, stopVars, published>>

\* The session is over and sarama has closed claim.Messages(): the select may
\* as well take the nil message of the closed channel.
ClaimReadsNil(p) ==
  /\ claim[p] = "select" /\ ending /\ ~panicked
  /\ claim' = [claim EXCEPT ![p] = "sendNil"]
  /\ panicked' = closed
  /\ UNCHANGED <<groupVars, inHand, loop, listenerVars, canceled, closed, restarts, published>>

-----------------------------------------------------------------------------
(* The listener.                                                           *)

\* Mutant of Fetch: a payload that cannot be deserialized is committed.
FetchCommitsBad(p, bad) ==
  /\ listener = "fetch" /\ claim[p] = "send" /\ ~closed /\ ~panicked
  /\ bad => PayloadMayBeBad
  /\ claim' = [claim EXCEPT ![p] = "await"]
  /\ held' = Held(p, inHand[p])
  /\ listener' = IF bad THEN "commit" ELSE "publish"
  /\ UNCHANGED <<groupVars, inHand, loop, stopVars, published>>

\* Mutant of Fetch: ConsumeClaim does not wait for the commit.
FetchDoesNotWait(p, bad) ==
  /\ listener = "fetch" /\ claim[p] = "send" /\ ~closed /\ ~panicked
  /\ bad => PayloadMayBeBad
  /\ claim' = [claim EXCEPT ![p] = "select"]
  /\ held' = Held(p, inHand[p])
  /\ listener' = IF bad THEN "failed" ELSE "publish"
  /\ UNCHANGED <<groupVars, inHand, loop, stopVars, published>>

\* Fetch receives the message of p, which then is outstanding; bad is whether
\* deserializePayload fails.  When Fetch returns an error the listener reports
\* it to ConnectorError and returns.
Fetch(p, bad) ==
  /\ listener = "fetch" /\ claim[p] = "send" /\ ~closed /\ ~panicked
  /\ bad => PayloadMayBeBad
  /\ claim' = [claim EXCEPT ![p] = "await"]
  /\ held' = Held(p, inHand[p])
  /\ listener' = IF bad THEN "failed" ELSE "publish"
  /\ UNCHANGED <<groupVars, inHand, loop, stopVars, published>>

\* Fetch receives a nil message and dereferences it.
FetchNil(p) ==
  /\ listener = "fetch" /\ claim[p] = "sendNil" /\ ~closed /\ ~panicked
  /\ panicked' = TRUE
  /\ UNCHANGED <<groupVars, claimVars, loop, listenerVars, canceled, closed, restarts, published>>

\* Fetch receives an error of Consume, and the listener returns.
FetchError ==
  /\ listener = "fetch" /\ loop = "report" /\ ~panicked
  /\ listener' = "failed"
  /\ loop' = "consume"
  /\ UNCHANGED <<groupVars, claimVars, held, stopVars, published>>

\* Mutant of FetchPartition: a payload that cannot be deserialized is passed over.
FetchPartitionSkipsBad(bad) ==
  /\ ~groupMode /\ listener = "fetch" /\ next[Partition] < end[Partition] /\ ~panicked
  /\ bad => PayloadMayBeBad
  /\ held' = Held(Partition, next[Partition])
  /\ next' = [next EXCEPT ![Partition] = @ + 1]
  /\ listener' = IF bad THEN "check" ELSE "publish"
  /\ UNCHANGED <<groupMode, logVars, committed, marked, ending, faults, claimVars, loop, stopVars, published>>

\* Fetch without a group reads the partition's own channel.
FetchPartition(bad) ==
  /\ ~groupMode /\ listener = "fetch" /\ next[Partition] < end[Partition] /\ ~panicked
  /\ bad => PayloadMayBeBad
  /\ held' = Held(Partition, next[Partition])
  /\ next' = [next EXCEPT ![Partition] = @ + 1]
  /\ listener' = IF bad THEN "failed" ELSE "publish"
  /\ UNCHANGED <<groupMode, logVars, committed, marked, ending, faults, claimVars, loop, stopVars, published>>

\* The channel is closed; the nil message is dereferenced.
FetchPartitionNil ==
  /\ ~groupMode /\ listener = "fetch" /\ ending /\ ~panicked
  /\ panicked' = TRUE
  /\ UNCHANGED <<groupVars, claimVars, loop, listenerVars, canceled, closed, restarts, published>>

FetchCanceled ==
  /\ listener = "fetch" /\ canceled /\ ~panicked
  /\ listener' = "exited"
  /\ UNCHANGED <<groupVars, claimVars, loop, held, stopVars, published>>

\* natsCallbackFunc.  JetStream and STAN have stored a message when the publish
\* returns; core NATS has it in the client's buffer, which the client flushes.
\* After a failure the callback returns without a Commit;
\* without a group there is none to make.
Publish(ok) ==
  /\ listener = "publish" /\ ~panicked
  /\ ~ok => PublishMayFail
  /\ published' = IF ok THEN [published EXCEPT ![held.partition] = @ \cup {held.offset}]
                  ELSE published
  /\ listener' = IF ok /\ groupMode THEN "commit" ELSE "check"
  /\ UNCHANGED <<groupVars, claimVars, loop, held, stopVars>>

\* stanMessageHandler publishes through Stan(), which is nil from the loss of
\* the connection until it is made again.
PublishNilStan ==
  /\ listener = "publish" /\ StanMayBeNil /\ faults < MaxFaults /\ ~panicked
  /\ faults' = faults + 1
  /\ panicked' = TRUE
  /\ UNCHANGED <<groupMode, logVars, committed, marked, next, ending, claimVars, loop, listenerVars,
                 canceled, closed, restarts, published>>

\* Commit hands the message to any ConsumeClaim that waits on commitCh, and
\* that claim marks it in the message's own partition.
Commit(p) ==
  /\ listener = "commit" /\ claim[p] = "await" /\ ~closed /\ ~panicked
  /\ marked' = [marked EXCEPT ![held.partition] = IF held.offset >= @ THEN held.offset + 1 ELSE @]
  /\ claim' = [claim EXCEPT ![p] = "select"]
  /\ listener' = "check"
  /\ UNCHANGED <<groupMode, logVars, committed, next, ending, faults, inHand, loop, held, stopVars, published>>

\* Commit returns the context's error or an error of Consume; the listener
\* reports it and goes on.
CommitError ==
  /\ listener = "commit" /\ ~panicked
  /\ loop' \in {loop, "consume"}
  /\ IF loop' = loop THEN canceled ELSE loop = "report"
  /\ listener' = "check"
  /\ UNCHANGED <<groupVars, claimVars, held, stopVars, published>>

\* Mutant of CheckDone: the listener returns after every message.
CheckDoneReturns ==
  /\ listener = "check" /\ ~panicked
  /\ listener' = "exited"
  /\ UNCHANGED <<groupVars, claimVars, loop, held, stopVars, published>>

\* The end of the listener's loop: it returns if done is closed.
CheckDone ==
  /\ listener = "check" /\ ~panicked
  /\ listener' = IF canceled THEN "exited" ELSE "fetch"
  /\ UNCHANGED <<groupVars, claimVars, loop, held, stopVars, published>>

-----------------------------------------------------------------------------
(* Shutdown and restart.                                                   *)

\* Shutdown of the connector calls the callback of setUpListener, which waits
\* for the listener ...
Shutdown ==
  /\ ~canceled /\ ~panicked /\ restarts < MaxRestarts
  /\ canceled' = TRUE
  /\ UNCHANGED <<groupVars, claimVars, loop, listenerVars, closed, panicked, restarts, published>>

\* ... and then closes the reader.  A claim that is sending on fetchCh
\* panics, as does one that receives nil from commitCh and marks it.  A
\* consumer without a group has no claims.
Close ==
  /\ canceled /\ listener \in {"exited", "failed"} /\ ~closed /\ ~panicked
  /\ closed' = TRUE
  /\ ending' = TRUE
  /\ panicked' = (\E p \in Partitions : claim[p] \in {"send", "sendNil", "await"})
  /\ UNCHANGED <<groupMode, logVars, committed, marked, next, faults, claimVars, loop, listenerVars, canceled,
                 restarts, published>>

\* Mutant of Restart: the new consumer joins as a new group.
RestartForgets ==
  /\ panicked \/ (closed /\ (groupMode => loop = "report"))
  /\ restarts' = restarts + 1
  /\ marked' = [p \in Partitions |-> NoOffset] /\ committed' = [p \in Partitions |-> NoOffset]
  /\ next' = [p \in Partitions |-> 0] /\ inHand' = [p \in Partitions |-> 0]
  /\ claim' = [p \in Partitions |-> "returned"]
  /\ loop' = "consume" /\ ending' = FALSE
  /\ listener' = "fetch"
  /\ canceled' = FALSE /\ closed' = FALSE /\ panicked' = FALSE
  /\ UNCHANGED <<groupMode, logVars, faults, held, published>>

\* Start after a Shutdown, or the process after a panic: a new consumer.  A
\* panic loses the marks that have not reached the broker; a consumer without
\* a group begins at the oldest offset again.
Restart ==
  /\ panicked \/ (closed /\ (groupMode => loop = "report"))
  /\ restarts' = restarts + 1
  /\ marked' = IF panicked THEN committed ELSE marked
  /\ next' = [p \in Partitions |-> 0] /\ inHand' = [p \in Partitions |-> 0]
  /\ claim' = [p \in Partitions |-> "returned"]
  /\ loop' = "consume" /\ ending' = FALSE
  /\ listener' = "fetch"
  /\ canceled' = FALSE /\ closed' = FALSE /\ panicked' = FALSE
  /\ UNCHANGED <<groupMode, logVars, committed, faults, held, published>>

-----------------------------------------------------------------------------
Init ==
  /\ groupMode \in GroupModes
  /\ end = [p \in Partitions |-> 0] /\ from = [p \in Partitions |-> 0]
  /\ committed = [p \in Partitions |-> NoOffset] /\ marked = [p \in Partitions |-> NoOffset]
  /\ next = [p \in Partitions |-> 0] /\ inHand = [p \in Partitions |-> 0]
  /\ claim = [p \in Partitions |-> "returned"]
  /\ loop = "consume" /\ ending = FALSE /\ faults = 0
  /\ listener = "fetch"
  /\ held \in [partition : Partitions, offset : {0}]
  /\ canceled = FALSE /\ closed = FALSE /\ panicked = FALSE /\ restarts = 0
  /\ published = [p \in Partitions |-> {}]

GroupStep ==
  \/ SessionBegins \/ SessionEnding \/ ConsumeClosed \/ AutoCommit
  \/ \E err \in BOOLEAN : ConsumeReturns(err)
  \/ \E p \in Partitions : Produce(p)

ClaimStep == \E p \in Partitions : ClaimReads(p) \/ ClaimReturns(p) \/ ClaimReadsNil(p)

ListenerStep ==
  \/ \E p \in Partitions, bad \in BOOLEAN : Fetch(p, bad)
  \/ \E p \in Partitions : FetchNil(p)
  \/ \E bad \in BOOLEAN : FetchPartition(bad)
  \/ FetchPartitionNil \/ FetchError \/ FetchCanceled \/ PublishNilStan
  \/ \E ok \in BOOLEAN : Publish(ok)
  \/ \E p \in Partitions : Commit(p)
  \/ CommitError \/ CheckDone

StopStep == Shutdown \/ Close \/ Restart

Next == GroupStep \/ ClaimStep \/ ListenerStep \/ StopStep

Spec == Init /\ [][Next]_vars

\* Every goroutine that can take a step takes it, and a process that died is
\* started again; NATS accepts a message that it does not refuse.
Fairness ==
  /\ WF_vars(SessionBegins) /\ WF_vars(\E err \in BOOLEAN : ConsumeReturns(err))
  /\ WF_vars(ConsumeClosed) /\ WF_vars(Close) /\ WF_vars(Restart)
  /\ \A p \in Partitions : /\ WF_vars(ClaimReads(p) \/ ClaimReturns(p) \/ ClaimReadsNil(p))
                           /\ SF_vars(FetchNil(p))
                           /\ SF_vars(Fetch(p, FALSE))
  /\ WF_vars(FetchPartition(FALSE)) /\ WF_vars(FetchPartitionNil)
  /\ WF_vars(FetchError) /\ WF_vars(FetchCanceled)
  /\ WF_vars(Publish(TRUE)) /\ WF_vars(CommitError \/ \E p \in Partitions : Commit(p))
  /\ WF_vars(CheckDone)

FairSpec == Spec /\ Fairness

-----------------------------------------------------------------------------
(* Properties.                                                             *)

\* Every variable has its type; no offset is beyond the end of its partition.
TypeOK ==
  /\ groupMode \in BOOLEAN
  /\ end \in [Partitions -> 0..Messages]
  /\ committed \in [Partitions -> Int] /\ marked \in [Partitions -> Int]
  /\ next \in [Partitions -> Nat] /\ from \in [Partitions -> Nat]
  /\ \A p \in Partitions : /\ committed[p] \in NoOffset..end[p] /\ marked[p] \in NoOffset..end[p]
                           /\ next[p] \in 0..end[p] /\ from[p] \in 0..end[p]
  /\ claim \in [Partitions -> {"select", "send", "sendNil", "await", "returned"}]
  /\ inHand \in [Partitions -> Nat]
  /\ loop \in {"consume", "session", "report"} /\ ending \in BOOLEAN /\ faults \in Nat
  /\ listener \in {"fetch", "publish", "commit", "check", "exited", "failed"}
  /\ held \in [partition : Partitions, offset : Nat]
  /\ canceled \in BOOLEAN /\ closed \in BOOLEAN /\ panicked \in BOOLEAN /\ restarts \in Nat
  /\ published \in [Partitions -> SUBSET Offsets]

\* At least once, from where the consumer began: an offset the group has moved
\* past, in the session or on the broker, belongs to a message whose publish
\* has succeeded.  This is what "the message is outstanding until committed"
\* (Fetch) promises.  What was in the partition before a start without a
\* stored offset is not promised.
OutstandingUntilCommitted ==
  \A p \in Partitions : \A o \in Offsets :
    from[p] <= o /\ (o < marked[p] \/ o < committed[p]) => o \in published[p]

Awaiting == {p \in Partitions : claim[p] = "await"}

\* The claims share commitCh, yet a commit reaches the claim that read the
\* message: it is the only one waiting.
CommitReachesItsClaim ==
  groupMode /\ listener \in {"publish", "commit"} => Awaiting = {held.partition}

\* Shutting the connector down does not take the process with it.
ShutdownDoesNotPanic == ~panicked

\* A partition is published in order and without gaps from where the consumer
\* began, across rebalances, restarts and panics; a gap is only left by a start
\* that found no stored offset.
PublishedInOrder ==
  \A p \in Partitions : \A o \in published[p] : \A q \in from[p]..o : q \in published[p]

\* The consumer is a relay from Kafka to NATS: an offset that is committed on
\* the broker is released, one before the beginning is passed over.
Kafka2NATS == INSTANCE Relay WITH
  Items <- Partitions \X Offsets,
  Source <- [i \in Partitions \X Offsets |-> i[1]],
  delivered <- {i \in Partitions \X Offsets : i[2] \in published[i[1]]},
  released <- {i \in Partitions \X Offsets : from[i[1]] <= i[2] /\ i[2] < committed[i[1]]},
  passed <- {i \in Partitions \X Offsets : i[2] < from[i[1]]}

\* Every step of the consumer is one of the relay's, or none: an offset is
\* released only after its message was delivered, no panic, rebalance or
\* restart takes a release back, and once an offset of a partition is stored no
\* message of it is passed over.
ImplementsRelay == Kafka2NATS!Spec

\* Every message from the consumer's beginning on is published in the end, and
\* marked if there is a group, across rebalances, shutdowns and panics.  Only a
\* listener that has returned with an error holds messages back
\* (setUpListener), until the connector is shut down.
AllDelivered ==
  <>[](\/ listener = "failed"
       \/ /\ groupMode
          /\ \A p \in Partitions : \A o \in from[p]..(end[p] - 1) :
               o < marked[p] /\ o \in published[p]
       \/ ~groupMode /\ published[Partition] = 0..(end[Partition] - 1))
=============================================================================
