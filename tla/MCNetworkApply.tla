---------------------------- MODULE MCNetworkApply ----------------------------
(* Values of the constants of NetworkApply for TLC. *)
EXTENDS NetworkApply

AllFaults == FaultKinds

\* Whether eth0 is up matters to what the machine comes to, which the run with
\* AllFaults is about, and not to who may change it.
AllButLink == FaultKinds \ {"link"}

NoFaults == {}
RouteFault == {"route"}
===============================================================================
