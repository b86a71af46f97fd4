---------------------------- MODULE MCMonitoring ----------------------------
EXTENDS Monitoring

\* A connector on the default cluster and a JetStream connector on a named one.
TwoConnectors == <<"default", "named">>

\* Enough messages on one of them for bins to be merged twice, beside one on
\* the other, which may fail.
Times == [default |-> {1, 2, 4}, named |-> {2}]
In == [default |-> 4, named |-> 1]
Failed == [default |-> 0, named |-> 1]
=============================================================================
