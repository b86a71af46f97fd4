------------------------------- MODULE Relay -------------------------------
(***************************************************************************)
(* What a connector promises, whatever it is made of: an item is released  *)
(* (its offset committed, its message acknowledged) only after it was      *)
(* delivered to the other side.  It may be delivered more than once, and   *)
(* neither a delivery nor a release is taken back.  A source that has      *)
(* released nothing yet holds no position: a connector that starts on it   *)
(* may pass over items, which are then never promised to anybody.          *)
(* Consumer and Writers implement this.                                    *)
(***************************************************************************)
EXTENDS Naturals

CONSTANTS
  Items,             \* what is to be moved
  Source             \* Source[i]: the partition or subscription that item i is read from

VARIABLES
  delivered,         \* the items that have reached the other side
  released,          \* the items that the source need not keep any more
  passed             \* the items that a start has passed over

Init == delivered = {} /\ released = {} /\ passed = {}

Deliver(i) ==
  /\ delivered' = delivered \cup {i}
  /\ UNCHANGED <<released, passed>>

\* Several items may be released at once, as a committed offset releases all
\* those below it.
Release(S) ==
  /\ S \subseteq delivered
  /\ released' = released \cup S
  /\ UNCHANGED <<delivered, passed>>

\* A source that has released something is never started anew.
PassOver(S) ==
  /\ \A i \in S, j \in released : Source[i] # Source[j]
  /\ passed' = passed \cup S
  /\ UNCHANGED <<delivered, released>>

Next ==
  \/ \E i \in Items : Deliver(i)
  \/ \E S \in SUBSET Items : Release(S) \/ PassOver(S)

Spec == Init /\ [][Next]_<<delivered, released, passed>>
=============================================================================
