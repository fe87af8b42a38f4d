------------------------------ MODULE MCRegistry ------------------------------
(***************************************************************************)
(* Instances of Agents and Vaults for TLC.  The two share no row and no    *)
(* request, so a run lets one of them move, whichever scope names, and     *)
(* spares their product.                                                   *)
(***************************************************************************)
EXTENDS Agents, Vaults, TLC

VARIABLE scope

MCInit == AgentsInit /\ VaultsInit /\ scope \in {"agents", "vaults"}

MCNext ==
  \/ scope = "agents" /\ AgentsNext /\ UNCHANGED <<vaultVars, scope>>
  \/ scope = "vaults" /\ VaultsNext /\ UNCHANGED <<agentVars, scope>>

MCSpec == MCInit /\ [][MCNext]_<<agentVars, vaultVars, scope>>

\* Rows and requests of both modules have their types.
RegistryTypeOK == AgentsTypeOK /\ VaultsTypeOK

Symmetry == Permutations(Agents) \cup Permutations(Configs) \cup Permutations(AgentClients)
              \cup Permutations(VaultClients) \cup Permutations(Secrets)
=============================================================================
