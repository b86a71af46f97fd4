------------------------------ MODULE Clusters ------------------------------
(***************************************************************************)
(* The check of the cluster and connector wiring that Start makes before   *)
(* anything is dialed.  It scans the named clusters, filling their         *)
(* defaults as it goes, then the connectors, and stops at the first error. *)
(* What it accepts is what the module Bridge assumes of its constants.     *)
(***************************************************************************)
EXTENDS Naturals, SequencesExt

VARIABLES
  config,     \* the bridge's configuration
  checked,    \* ValidateNATSClusters has run
  err         \* it, or what comes before it, has returned an error

StanTypes == {"STANToKafka", "KafkaToStan"}

\* The fields of a cluster that have a default, with the value they have unset.
Unset == [ClientName |-> "", ConnectTimeout |-> 0, ReconnectWait |-> 0, MaxReconnects |-> 0]

-----------------------------------------------------------------------------
\* Mutant of FillDefaults: the default replaces what the entry has set.
FillDefaultsAlways(cluster, default) ==
  [f \in DOMAIN cluster |->
     IF f \in DOMAIN Unset /\ default[f] # Unset[f] THEN default[f] ELSE cluster[f]]

\* A field that was not set takes the value of the nats block.
FillDefaults(cluster, default) ==
  [f \in DOMAIN cluster |->
     IF f \in DOMAIN Unset /\ cluster[f] = Unset[f] THEN default[f] ELSE cluster[f]]

\* Mutant of ScanCluster: a name that was seen before is accepted.
ScanClusterDuplicates(acc, cluster, default) ==
  IF acc.err THEN [acc EXCEPT !.clusters = Append(@, cluster)]
  ELSE IF cluster.Name \in {"", "default"} \/ cluster.Servers = <<>>
       THEN [acc EXCEPT !.err = TRUE, !.clusters = Append(@, cluster)]
       ELSE [acc EXCEPT !.names = @ \cup {cluster.Name},
                        !.clusters = Append(@, FillDefaults(cluster, default))]

\* One round of the first loop: names collects the clusters seen so far, and
\* an entry behind the first error is left as it is.
ScanCluster(acc, cluster, default) ==
  IF acc.err THEN [acc EXCEPT !.clusters = Append(@, cluster)]
  ELSE IF cluster.Name \in {"", "default"} \cup acc.names \/ cluster.Servers = <<>>
       THEN [acc EXCEPT !.err = TRUE, !.clusters = Append(@, cluster)]
       ELSE [acc EXCEPT !.names = @ \cup {cluster.Name},
                        !.clusters = Append(@, FillDefaults(cluster, default))]

\* A round of the second loop returns an error.
BadConnector(c, names) ==
  c.NATSConnection # "" /\ (c.NATSConnection \notin names \/ c.Type \in StanTypes)

ValidateNATSClusters ==
  /\ ~checked /\ ~err
  /\ checked' = TRUE
  /\ LET scan == FoldLeft(LAMBDA acc, cluster : ScanCluster(acc, cluster, config.NATS),
                          [names |-> {}, err |-> FALSE, clusters |-> <<>>], config.NATSClusters)
     IN IF config.NATS.Name # ""
        THEN err' = TRUE /\ UNCHANGED config
        ELSE /\ err' = (scan.err \/ \E i \in 1..Len(config.Connect) :
                                      BadConnector(config.Connect[i], scan.names))
             /\ config' = [config EXCEPT !.NATSClusters = scan.clusters]

-----------------------------------------------------------------------------
(* Properties.                                                             *)

\* The cells of the bridge are the default one, "", and the named clusters;
\* no two entries make the same cell, and every one can be dialed.
CellsAreDistinct ==
  /\ config.NATS.Name = ""
  /\ \A i \in 1..Len(config.NATSClusters) :
       /\ config.NATSClusters[i].Servers # <<>>
       /\ config.NATSClusters[i].Name \notin {"", "default"}
       /\ \A j \in 1..Len(config.NATSClusters) :
            config.NATSClusters[i].Name = config.NATSClusters[j].Name => i = j

\* Every connector is bound to a cell that exists, a STAN connector to the
\* default one.
ConnectorsAreBound ==
  \A i \in 1..Len(config.Connect) :
    LET c == config.Connect[i] IN
    /\ c.NATSConnection \in {""} \cup {config.NATSClusters[j].Name : j \in 1..Len(config.NATSClusters)}
    /\ c.Type \in StanTypes => c.NATSConnection = ""

\* ValidateNATSClusters accepts exactly the configurations whose wiring the
\* bridge can work with, wherever in the lists the mistake is.
AcceptsWhatIsWired == checked => (~err <=> CellsAreDistinct /\ ConnectorsAreBound)

=============================================================================
