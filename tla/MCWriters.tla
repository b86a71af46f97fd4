----------------------------- MODULE MCWriters -----------------------------
(***************************************************************************)
(* Instances of Writers for TLC: two messages for two topics.              *)
(***************************************************************************)
EXTENDS Writers

TwoDest == [m1 |-> "t1", m2 |-> "t2"]
TwoHash == [t1 |-> "h1", t2 |-> "h2"]
=============================================================================
