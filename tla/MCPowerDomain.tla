---------------------------- MODULE MCPowerDomain ----------------------------
\* Trees, tables and subscribers of PowerDomain for TLC.
EXTENDS PowerDomain

\* States allowed under each state of the parent: a domain that is on or off
\* and a root that is on or off; with Sleep, a domain may stay in retention
\* under a parent that sleeps.
OnOff == Off :> {Off} @@ Sleep :> {Off} @@ On :> {Off, On}
OnOffRoot == Off :> {Off, On} @@ Sleep :> {} @@ On :> {}
Retention == Off :> {Off} @@ Sleep :> {Off, Sleep} @@ On :> {Off, Sleep, On}
RetentionRoot == Off :> {Off, Sleep, On} @@ Sleep :> {} @@ On :> {}

\* A core, its cluster and the system domain.
Chain == <<2, 3, 0>>
ChainOnOff == <<OnOff, OnOff, OnOffRoot>>
ChainRetention == <<Retention, Retention, RetentionRoot>>
ChainSuspend == <<OnOff, OnOff, RetentionRoot>>

\* Two cores in one cluster, and the system domain.
Cluster == <<3, 3, 4, 0>>
ClusterOnOff == <<OnOff, OnOff, OnOff, OnOffRoot>>
ClusterSuspend == <<OnOff, OnOff, OnOff, RetentionRoot>>

Unmapped == [p \in PDs |-> [s \in States |-> s]]
Nobody == [p \in PDs |-> 0]
OneEach == [p \in PDs |-> 1]
OneOnRoot == [p \in PDs |-> IF p = PdCount THEN 1 ELSE 0]
OneOnCluster == [p \in PDs |-> IF p = PdCount - 1 THEN 1 ELSE 0]
AllOffOrOn == {[p \in PDs |-> Off], [p \in PDs |-> On]}
AllOn == {[p \in PDs |-> On]}
=============================================================================
