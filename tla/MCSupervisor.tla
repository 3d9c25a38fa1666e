---------------------------- MODULE MCSupervisor ----------------------------
(* Instances of Supervisor for TLC. *)
EXTENDS Supervisor

\* The configuration the daemon is written for: a supervised camera under
\* device = "auto".
SupervisedOnly == {[auto |-> TRUE, idle |-> TRUE, camera |-> TRUE]}
\* A device named by its path, a camera or not, supervised or not: the process
\* ends with its first run.
NamedDevice == {c \in Config : ~c.auto}
=============================================================================
