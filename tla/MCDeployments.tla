---------------------------- MODULE MCDeployments ----------------------------
(***************************************************************************)
(* Instances of Deployments for TLC.  Either the agent, the vault and the  *)
(* environment may be closed, or requests overlap, whichever scope says:   *)
(* their product is spared.                                                *)
(***************************************************************************)
EXTENDS Deployments, TLC

VARIABLE scope

mcVars == <<allVars, scope>>

EveryTime == [cron \in Crons |-> 1 .. MaxClock + 1]

\* Every agent was created with one version before the run starts.
SomeConfig == CHOOSE config \in Configs : TRUE

FirstVersions == {[agent |-> a, number |-> 1, config |-> SomeConfig, roster |-> Nothing] : a \in Agents}

\* Requests are alike.
Alike == Permutations(Clients)

MCInit ==
  /\ agent = [a \in Agents |-> [exists |-> TRUE, archived |-> FALSE, active |-> 1]]
  /\ agentVersions = FirstVersions
  /\ agentReq = [c \in AgentClients |-> AgentIdle]
  /\ pinned = NoSession
  /\ DeploymentsStart
  /\ scope \in {"closings", "overlaps"}

\* The requests in flight.
InFlight == {c \in Clients : client[c].op # "none"}

Closings == scope = "closings" /\ DeploymentsNext /\ Cardinality(InFlight') <= 1

\* Of requests in flight all but one are runs; deployments name no vaults.
Overlaps ==
  /\ scope = "overlaps" /\ UNCHANGED <<registryVars, environment>> /\ DeploymentsNext
  /\ Cardinality({c \in InFlight : client[c].op # "run"}') <= 1
  /\ \A c \in InFlight' : client'[c].op = "create" => client'[c].data.vaults = {}

MCNext == (Closings \/ Overlaps) /\ UNCHANGED scope

MCSpec == MCInit /\ [][MCNext]_mcVars
=============================================================================
