-------------------------------- MODULE Agents --------------------------------
(***************************************************************************)
(* Agents and their versions: the tables agents and agent_versions, and    *)
(* the routes that write them (app/routers/agents.py,                      *)
(* app/db/queries/agents.py).                                              *)
(*                                                                         *)
(* A route is one transaction of two steps: Begin reads and decides, End   *)
(* writes and commits.  Nothing locks what was read; the unique constraint *)
(* on (agent_id, version) is all that makes a commit fail.                 *)
(***************************************************************************)
EXTENDS Integers, FiniteSets

CONSTANTS
  Agents,         \* bound: ids that create_agent may give
  Configs,        \* name, model, tools, skills ...: all of a version but its roster
  AgentClients,   \* HTTP requests on agents in flight at the same time
  MaxRoster,      \* entries of multiagent.agents, 20 in the code
  MaxVersion,     \* bound: no update once an agent has so many versions
  Nothing         \* no roster, no agent

ASSUME NothingIsNoAgent == Nothing \notin Agents
ASSUME FiniteAgents == IsFiniteSet(Agents) /\ IsFiniteSet(AgentClients)
ASSUME AgentBounds == MaxRoster \in Nat /\ MaxVersion \in Nat \ {0}

VARIABLES
  agent,          \* the rows of agents
  agentVersions,  \* the rows of agent_versions
  agentReq,       \* the requests
  pinned          \* the newest session: the version it pins and the threads it was given

agentVars == <<agent, agentVersions, agentReq, pinned>>

-----------------------------------------------------------------------------
(* Data. *)

AgentRows == [exists : BOOLEAN, archived : BOOLEAN, active : Nat]

NoAgent == [exists |-> FALSE, archived |-> FALSE, active |-> 0]

\* A pinned entry of a roster.
Pins == [agent : Agents, version : Nat \ {0}]

\* An entry of type self, before it is resolved.
SelfEntry == [agent |-> Nothing, version |-> 0]

\* A normalized roster: the entries are distinct, their order decides nothing.
Rosters == SUBSET (Pins \cup {SelfEntry})

AgentVersionRows == [agent : Agents, number : Nat \ {0}, config : Configs, roster : {Nothing} \cup SUBSET Pins]

\* get_agent, without and with the check of archived_at.
Exists(a) == agent[a].exists

Usable(a) == Exists(a) /\ ~agent[a].archived

\* get_agent_version.
VersionsAt(a, n) == {v \in agentVersions : v.agent = a /\ v.number = n}

\* get_active_agent_version.
ActiveVersion(a) == CHOOSE v \in agentVersions : v.agent = a /\ v.number = agent[a].active

\* Mutant: without the constraint.
FreeNumberAlways(a, n) == TRUE

\* The constraint uq_agent_versions_agent_version.
FreeNumber(a, n) == VersionsAt(a, n) = {}

\* Mutant: the referenced version may have a roster itself.
PinnableNested(a, n) == Usable(a) /\ VersionsAt(a, n) # {}

\* The referenced agent and version of an entry of type agent.
Pinnable(a, n) == Usable(a) /\ \E v \in VersionsAt(a, n) : v.roster = Nothing

\* The number an entry is pinned to: the one it names, or the active one.
PinnedNumber(a, n) == IF n = 0 THEN agent[a].active ELSE n

\* _normalize_multiagent_roster: chosen are the agents of the entries with the version
\* each names (0 is none), withSelf says that there is an entry of type self.
RosterOf(chosen, withSelf) ==
  {[agent |-> e.agent, version |-> PinnedNumber(e.agent, e.version)] : e \in chosen}
    \cup (IF withSelf THEN {SelfEntry} ELSE {})

RosterValid(chosen, withSelf, self) ==
  /\ chosen # {} \/ withSelf
  /\ Cardinality(chosen) + (IF withSelf THEN 1 ELSE 0) <= MaxRoster
  /\ \A e, f \in chosen : e.agent = f.agent => e = f
  /\ withSelf => \A e \in chosen : e.agent # self
  /\ \A e \in chosen : Pinnable(e.agent, PinnedNumber(e.agent, e.version))

\* What requests may ask for: {} chosen and no self is a request without a roster.
Choices == [agent : Agents, version : 0 .. MaxVersion]

AskedRosters(self) ==
  {Nothing} \cup
  UNION {{RosterOf(chosen, withSelf) : chosen \in {ch \in SUBSET Choices :
            Cardinality(ch) <= MaxRoster /\ RosterValid(ch, withSelf, self)}} : withSelf \in BOOLEAN}

\* _resolve_multiagent_self_entries.
Resolved(roster, a, n) ==
  IF roster = Nothing \/ SelfEntry \notin roster THEN roster
  ELSE (roster \ {SelfEntry}) \cup {[agent |-> a, version |-> n]}

-----------------------------------------------------------------------------
(* Requests. *)

\* base is body.version, the version the client has seen; number that of the version
\* to insert, computed from the row that was read.
AgentRequests == [op : {"create", "update"}, agent : {Nothing} \cup Agents, base : Nat,
                  number : Nat \ {0}, config : Configs, roster : {Nothing} \cup Rosters]

AgentIdle == [op |-> "none", agent |-> Nothing, base |-> 0, number |-> 0,
              config |-> Nothing, roster |-> Nothing]

AgentBegin(c, op, a, base, number, config, roster) ==
  /\ agentReq[c].op = "none"
  /\ agentReq' = [agentReq EXCEPT ![c] = [op |-> op, agent |-> a, base |-> base, number |-> number,
                                         config |-> config, roster |-> roster]]
  /\ UNCHANGED <<agent, agentVersions, pinned>>

AgentEnd(c, op) ==
  /\ agentReq[c].op = op
  /\ agentReq' = [agentReq EXCEPT ![c] = AgentIdle]
  /\ UNCHANGED pinned

\* Mutant: the earlier versions are overwritten.
InsertVersionOver(a, n, config, roster) ==
  agentVersions' = {IF v.agent = a THEN [v EXCEPT !.config = config] ELSE v : v \in agentVersions}
    \cup {[agent |-> a, number |-> n, config |-> config, roster |-> Resolved(roster, a, n)]}

\* The row points at the version that is inserted with it.
InsertVersion(a, n, config, roster) ==
  agentVersions' = agentVersions \cup
    {[agent |-> a, number |-> n, config |-> config, roster |-> Resolved(roster, a, n)]}

BeginCreateAgent(c) ==
  \E config \in Configs, roster \in AskedRosters(Nothing) :
    AgentBegin(c, "create", Nothing, 0, 1, config, roster)

EndCreateAgent(c) ==
  /\ AgentEnd(c, "create")
  /\ \E a \in Agents :
       /\ ~Exists(a)
       /\ agent' = [agent EXCEPT ![a] = [exists |-> TRUE, archived |-> FALSE, active |-> 1]]
       /\ InsertVersion(a, 1, agentReq[c].config, agentReq[c].roster)

\* Mutant: body.version is not compared.
BaseMatchesAlways(a, base) == TRUE

\* body.version is the active version.
BaseMatches(a, base) == base = agent[a].active

\* The config and the roster are those of the active version where the body has none.
\* An update that changes nothing commits nothing.
BeginUpdateAgent(c) ==
  \E a \in Agents, base \in 1 .. MaxVersion, config \in Configs :
    /\ Usable(a) /\ BaseMatches(a, base)
    /\ agent[a].active < MaxVersion
    /\ \E roster \in {ActiveVersion(a).roster} \cup AskedRosters(a) :
         /\ <<config, roster>> # <<ActiveVersion(a).config, ActiveVersion(a).roster>>
         /\ AgentBegin(c, "update", a, base, agent[a].active + 1, config, roster)

EndUpdateAgent(c) ==
  LET a == agentReq[c].agent
      n == agentReq[c].number IN
    /\ AgentEnd(c, "update")
    /\ IF FreeNumber(a, n)
         THEN agent' = [agent EXCEPT ![a].active = n] /\ InsertVersion(a, n, agentReq[c].config, agentReq[c].roster)
         ELSE UNCHANGED <<agent, agentVersions>>

\* archived_at is all that is written, so nothing that was read can be stale.
ArchiveAgent ==
  \E a \in Agents :
    /\ Exists(a)
    /\ agent' = [agent EXCEPT ![a].archived = TRUE]
    /\ UNCHANGED <<agentVersions, agentReq, pinned>>

NoSession == [agent |-> Nothing, version |-> 0, config |-> Nothing, threads |-> {}]

Sessions == [agent : Agents, version : Nat \ {0}, config : Configs, threads : SUBSET Pins]

\* create_session of app/routers/sessions.py, as far as the agent goes: the version is
\* the one asked for or the active one, and every entry of its roster gets a thread.
\* config is the history of what the session was created from.
PinSession ==
  \E a \in Agents, n \in 0 .. MaxVersion :
    /\ Usable(a)
    /\ \E v \in VersionsAt(a, PinnedNumber(a, n)) :
         LET threads == IF v.roster = Nothing THEN {} ELSE v.roster IN
           /\ \A e \in threads : VersionsAt(e.agent, e.version) # {}
           /\ pinned' = [agent |-> a, version |-> v.number, config |-> v.config, threads |-> threads]
    /\ UNCHANGED <<agent, agentVersions, agentReq>>

AgentsInit ==
  /\ agent = [a \in Agents |-> NoAgent]
  /\ agentVersions = {}
  /\ agentReq = [c \in AgentClients |-> AgentIdle]
  /\ pinned = NoSession

AgentWrites ==
  \/ \E c \in AgentClients : BeginCreateAgent(c)
  \/ \E c \in AgentClients : EndCreateAgent(c)
  \/ \E c \in AgentClients : BeginUpdateAgent(c)
  \/ \E c \in AgentClients : EndUpdateAgent(c)
  \/ ArchiveAgent

AgentsNext == AgentWrites \/ PinSession

AgentsSpec == AgentsInit /\ [][AgentsNext]_agentVars

-----------------------------------------------------------------------------
(* Properties. *)

\* Rows and requests have their types.
AgentsTypeOK ==
  /\ agent \in [Agents -> AgentRows]
  /\ agentVersions \subseteq AgentVersionRows
  /\ agentReq \in [AgentClients -> AgentRequests \cup {AgentIdle}]
  /\ pinned \in Sessions \cup {NoSession}

\* An agent has exactly the versions 1 .. active_version, each once, whatever updates
\* overlap: get_active_agent_version finds its row, and no number is skipped.
VersionsDense ==
  \A a \in Agents :
    /\ {v.number : v \in {w \in agentVersions : w.agent = a}} = 1 .. agent[a].active
    /\ \A v, w \in agentVersions : v.agent = a /\ w.agent = a /\ v.number = w.number => v = w

\* The versions a roster pins exist, and have no roster of their own (agents do not
\* delegate twice), but for an agent that is in its own roster.
RosterPinsFlat ==
  \A v \in agentVersions : v.roster # Nothing =>
    \A e \in v.roster :
      /\ VersionsAt(e.agent, e.version) # {}
      /\ \A w \in VersionsAt(e.agent, e.version) :
           w.roster = Nothing \/ (w.agent = v.agent /\ w.number <= v.number)

\* What a session was created from stays what it pins: versions are immutable snapshots
\* (docs/agent-versioning.md), so later updates change neither its configuration nor
\* the versions its threads delegate to.
PinnedSessionStable ==
  pinned # NoSession =>
    \E v \in VersionsAt(pinned.agent, pinned.version) :
      /\ v.config = pinned.config
      /\ pinned.threads = IF v.roster = Nothing THEN {} ELSE v.roster

\* An update that commits replaces the version its client named (body.version): no
\* update is lost (docs/agent-versioning.md, "an optimistic concurrency guard").
NoAgentUpdateLost ==
  [][\A a \in Agents : agent[a].active # 0 /\ agent'[a].active # agent[a].active =>
       \E c \in AgentClients : agentReq[c].op = "update" /\ agentReq'[c].op = "none" /\
          agentReq[c].agent = a /\ agentReq[c].base = agent[a].active]_agentVars
=============================================================================
