------------------------------ MODULE MCDaemon ------------------------------
(***************************************************************************)
(* Instances of Daemon for TLC.                                            *)
(***************************************************************************)
EXTENDS Daemon

JobSymmetry == Permutations(Jobs)

\* The first server of the list has the last priority.
MCPriority == [s \in Servers |-> NumServers - s]

\* The first server has its models in the configuration.
FirstExplicit == [s \in Servers |-> IF s = 1 THEN Models ELSE {}]

MCDaemonFairSpec == DaemonSpec /\ DaemonFairness

=============================================================================
