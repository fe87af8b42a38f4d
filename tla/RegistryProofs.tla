---------------------------- MODULE RegistryProofs ----------------------------
(***************************************************************************)
(* What the registry keeps, for any number of agents, configurations,      *)
(* credentials and requests.                                               *)
(*   Agents: versions are dense, what rosters and sessions pin stays what  *)
(* it was, and no update is lost.  A request holds a version at most one   *)
(* ahead of the row's (ReqBehind); the unique constraint passes the one    *)
(* that is exactly one ahead, and that one was computed from the active    *)
(* version.                                                                *)
(*   Vaults: a purged secret comes back only out of a request that read it *)
(* before, or that brings one (WrittenFromRead).                           *)
(***************************************************************************)
EXTENDS MCRegistry, TLAPS

\* A roster that version n of agent a may have: what it pins is there, and has no
\* roster unless it is an earlier version of a itself.
RosterGood(versions, roster, a, n) ==
  roster # Nothing =>
    \A e \in roster \ {SelfEntry} :
      /\ \E w \in versions : w.agent = e.agent /\ w.number = e.version
      /\ \A w \in versions : w.agent = e.agent /\ w.number = e.version =>
           w.roster = Nothing \/ (w.agent = a /\ w.number < n)

ReqOK(req, versions, rows) ==
  /\ req.op = "create" => req.number = 1 /\ RosterGood(versions, req.roster, Nothing, 1)
  /\ req.op = "update" =>
       /\ req.agent \in Agents /\ rows[req.agent].exists
       /\ req.number = req.base + 1
       /\ req.base \in 1 .. rows[req.agent].active
       /\ RosterGood(versions, req.roster, req.agent, req.number)

\* A request is at most one version ahead of the row.
ReqBehind == \A c \in AgentClients : ReqOK(agentReq[c], agentVersions, agent)

\* A row is created with its first version.
ActiveExists == \A a \in Agents : Exists(a) <=> agent[a].active # 0

IInv == AgentsTypeOK /\ VersionsDense /\ RosterPinsFlat /\ PinnedSessionStable /\ ReqBehind /\ ActiveExists

\* What is at a number is there alone, between 1 and the active version.
LEMMA AtNumber ==
  ASSUME IInv, NEW a \in Agents, NEW v \in agentVersions, v.agent = a
  PROVE  /\ v.number \in 1 .. agent[a].active
         /\ VersionsAt(a, v.number) = {v}
BY DEF IInv, VersionsDense, VersionsAt

\* get_active_agent_version finds its row.
LEMMA ActiveFound ==
  ASSUME IInv, NEW a \in Agents, Exists(a)
  PROVE  /\ ActiveVersion(a) \in agentVersions
         /\ ActiveVersion(a).agent = a
         /\ ActiveVersion(a).number = agent[a].active
<1>1. agent[a].active \in Nat /\ agent[a].active # 0
  BY DEF IInv, AgentsTypeOK, AgentRows, ActiveExists
<1>2. agent[a].active \in {v.number : v \in {w \in agentVersions : w.agent = a}}
  BY <1>1 DEF IInv, VersionsDense
<1>3. \E v \in agentVersions : v.agent = a /\ v.number = agent[a].active
  BY <1>2
<1> QED
  BY <1>3 DEF ActiveVersion

\* A roster that a request asks for is well typed and pins what has no roster.
LEMMA AskedGood ==
  ASSUME IInv, NEW self, NEW roster \in AskedRosters(self), NEW a, NEW n
  PROVE  roster \in {Nothing} \cup Rosters /\ RosterGood(agentVersions, roster, a, n)
<1>1. CASE roster = Nothing
  BY <1>1 DEF RosterGood
<1>2. CASE roster # Nothing
  <2>1. PICK withSelf \in BOOLEAN, chosen \in SUBSET Choices :
          roster = RosterOf(chosen, withSelf) /\ RosterValid(chosen, withSelf, self)
    BY <1>2 DEF AskedRosters
  <2>2. ASSUME NEW e \in chosen
        PROVE  LET pin == [agent |-> e.agent, version |-> PinnedNumber(e.agent, e.version)] IN
                 /\ pin \in Pins
                 /\ VersionsAt(pin.agent, pin.version) # {}
                 /\ \A w \in VersionsAt(pin.agent, pin.version) : w.roster = Nothing
    <3> DEFINE m == PinnedNumber(e.agent, e.version)
    <3>1. e.agent \in Agents
      BY <2>1, <2>2 DEF Choices
    <3>2. PICK v \in VersionsAt(e.agent, m) : v.roster = Nothing
      BY <2>1, <2>2 DEF RosterValid, Pinnable
    <3>3. v \in agentVersions /\ v.agent = e.agent /\ v.number = m
      BY <3>2 DEF VersionsAt
    <3> HIDE DEF m
    <3>4. m \in Nat \ {0}
      BY <3>3 DEF IInv, AgentsTypeOK, AgentVersionRows
    <3>5. VersionsAt(e.agent, m) = {v}
      BY <3>1, <3>3, AtNumber
    <3>6. [agent |-> e.agent, version |-> m] \in Pins
      BY <3>1, <3>4 DEF Pins
    <3> QED
      BY <3>2, <3>5, <3>6 DEF m
  <2>3. \A p \in roster \ {SelfEntry} : \E e \in chosen :
          p = [agent |-> e.agent, version |-> PinnedNumber(e.agent, e.version)]
    BY <2>1 DEF RosterOf
  <2>4. ASSUME NEW p \in roster \ {SelfEntry}
        PROVE  /\ p \in Pins /\ VersionsAt(p.agent, p.version) # {}
               /\ \A w \in VersionsAt(p.agent, p.version) : w.roster = Nothing
    BY <2>2, <2>3, <2>4
  <2>5. roster \in Rosters
    BY <2>1, <2>4 DEF Rosters, RosterOf
  <2> QED
    BY <2>4, <2>5 DEF RosterGood, VersionsAt
<1> QED
  BY <1>1, <1>2

\* Growing the versions at free numbers keeps what is pinned as it is.
LEMMA RosterStaysGood ==
  ASSUME NEW versions, NEW more, versions \subseteq more,
         \A v \in more \ versions : \A w \in versions : w.agent = v.agent => w.number # v.number,
         NEW roster, NEW a, NEW n, RosterGood(versions, roster, a, n)
  PROVE  RosterGood(more, roster, a, n)
BY DEF RosterGood

LEMMA ReqStays ==
  ASSUME NEW versions, NEW more, versions \subseteq more,
         \A v \in more \ versions : \A w \in versions : w.agent = v.agent => w.number # v.number,
         NEW rows \in [Agents -> AgentRows], NEW later \in [Agents -> AgentRows],
         \A a \in Agents : rows[a].exists => later[a].exists /\ rows[a].active <= later[a].active,
         NEW req, ReqOK(req, versions, rows)
  PROVE  ReqOK(req, more, later)
<1>1. CASE req.op = "create"
  BY <1>1, RosterStaysGood DEF ReqOK
<1>2. CASE req.op = "update"
  <2>1. rows[req.agent].active \in Nat /\ later[req.agent].active \in Nat /\ req.agent \in Agents
    BY <1>2 DEF ReqOK, AgentRows
  <2>2. RosterGood(more, req.roster, req.agent, req.number)
    BY <1>2, RosterStaysGood DEF ReqOK
  <2> QED
    BY <1>2, <2>1, <2>2 DEF ReqOK
<1>3. CASE req.op \notin {"create", "update"}
  BY <1>3 DEF ReqOK
<1> QED
  BY <1>1, <1>2, <1>3

-----------------------------------------------------------------------------
(* Inserting a version. *)

New(a, n, config, roster) == [agent |-> a, number |-> n, config |-> config, roster |-> Resolved(roster, a, n)]

\* The resolved roster is stored.
LEMMA ResolvedPins ==
  ASSUME NEW a \in Agents, NEW n \in Nat \ {0}, NEW roster \in {Nothing} \cup Rosters
  PROVE  /\ Resolved(roster, a, n) \in {Nothing} \cup SUBSET Pins
         /\ Resolved(roster, a, n) # Nothing =>
              /\ roster # Nothing
              /\ Resolved(roster, a, n) \subseteq (roster \ {SelfEntry}) \cup {[agent |-> a, version |-> n]}
<1>1. CASE roster = Nothing
  BY <1>1 DEF Resolved
<1>2. CASE roster # Nothing
  <2>1. roster \subseteq Pins \cup {SelfEntry}
    BY <1>2 DEF Rosters
  <2>2. [agent |-> a, version |-> n] \in Pins
    BY DEF Pins
  <2> QED
    BY <1>2, <2>1, <2>2 DEF Resolved
<1> QED
  BY <1>1, <1>2

\* A commit that inserts the version after the active one.
Inserted(a, config, roster) ==
  /\ agentVersions' = agentVersions \cup {New(a, agent[a].active + 1, config, roster)}
  /\ \A b \in Agents : agent'[b].active = IF b = a THEN agent[a].active + 1 ELSE agent[b].active

LEMMA InsertKeeps ==
  ASSUME IInv, NEW a \in Agents, NEW config \in Configs, NEW roster \in {Nothing} \cup Rosters,
         RosterGood(agentVersions, roster, Nothing, 1) \/ RosterGood(agentVersions, roster, a, agent[a].active + 1),
         Inserted(a, config, roster)
  PROVE  /\ agentVersions' \subseteq AgentVersionRows
         /\ agentVersions \subseteq agentVersions'
         /\ \A v \in agentVersions' \ agentVersions : VersionsAt(v.agent, v.number) = {}
         /\ VersionsDense'
         /\ RosterPinsFlat'
<1> DEFINE n == agent[a].active + 1
           new == New(a, n, config, roster)
<1>1. n \in Nat \ {0} /\ agent[a].active \in Nat
  BY DEF IInv, AgentsTypeOK, AgentRows
<1>2. new.agent = a /\ new.number = n /\ new.roster = Resolved(roster, a, n) /\ new \in AgentVersionRows
  BY <1>1, ResolvedPins DEF New, AgentVersionRows
<1>3. agentVersions' = agentVersions \cup {new}
  BY DEF Inserted
<1>4. VersionsAt(a, n) = {}
  BY <1>1, AtNumber DEF VersionsAt
<1>5. \A b \in Agents : agent'[b].active = IF b = a THEN n ELSE agent[b].active
  BY DEF Inserted
<1> HIDE DEF new, n
<1>6. agentVersions' \subseteq AgentVersionRows
  BY <1>2, <1>3 DEF IInv, AgentsTypeOK
<1>7. \A v \in agentVersions' \ agentVersions : VersionsAt(v.agent, v.number) = {}
  BY <1>2, <1>3, <1>4
<1>8. VersionsDense'
  <2> SUFFICES ASSUME NEW b \in Agents
               PROVE  /\ {v.number : v \in {w \in agentVersions' : w.agent = b}} = 1 .. agent'[b].active
                      /\ \A v, w \in agentVersions' : v.agent = b /\ w.agent = b /\ v.number = w.number => v = w
    BY DEF VersionsDense
  <2>1. /\ {v.number : v \in {w \in agentVersions : w.agent = b}} = 1 .. agent[b].active
        /\ \A v, w \in agentVersions : v.agent = b /\ w.agent = b /\ v.number = w.number => v = w
    BY DEF IInv, VersionsDense
  <2>2. CASE b # a
    BY <1>2, <1>3, <1>5, <2>1, <2>2
  <2>3. CASE b = a
    <3>1. \A v \in agentVersions : v.agent = a => v.number # n
      BY <1>4 DEF VersionsAt
    <3>2. {v.number : v \in {w \in agentVersions' : w.agent = a}}
            = {v.number : v \in {w \in agentVersions : w.agent = a}} \cup {n}
      BY <1>2, <1>3
    <3>3. 1 .. n = (1 .. agent[a].active) \cup {n}
      BY <1>1 DEF n
    <3> QED
      BY <1>2, <1>3, <1>5, <2>1, <2>3, <3>1, <3>2, <3>3
  <2> QED
    BY <2>2, <2>3
<1>9. RosterPinsFlat'
  <2>1. \A b, k : VersionsAt(b, k)' = {w \in agentVersions' : w.agent = b /\ w.number = k}
    BY DEF VersionsAt
  <2> SUFFICES ASSUME NEW v \in agentVersions', v.roster # Nothing, NEW e \in v.roster
               PROVE  /\ \E w \in agentVersions' : w.agent = e.agent /\ w.number = e.version
                      /\ \A w \in agentVersions' : w.agent = e.agent /\ w.number = e.version =>
                           w.roster = Nothing \/ (w.agent = v.agent /\ w.number <= v.number)
    BY <2>1 DEF RosterPinsFlat
  <2>2. CASE v \in agentVersions
    BY <1>3, <1>7, <2>2 DEF IInv, RosterPinsFlat, VersionsAt
  <2>3. CASE v = new
    <3>1. CASE e = [agent |-> a, version |-> n]
      BY <1>1, <1>2, <1>3, <1>4, <2>3, <3>1 DEF VersionsAt
    <3>2. CASE e # [agent |-> a, version |-> n]
      <4>1. roster # Nothing /\ e \in roster \ {SelfEntry}
        BY <1>1, <1>2, <2>3, <3>2, ResolvedPins
      <4>2. \A w \in agentVersions : w.agent \in Agents /\ w.number \in Nat
        BY DEF IInv, AgentsTypeOK, AgentVersionRows
      <4>3. /\ \E w \in agentVersions : w.agent = e.agent /\ w.number = e.version
            /\ \A w \in agentVersions : w.agent = e.agent /\ w.number = e.version =>
                 w.roster = Nothing \/ (w.agent = a /\ w.number < n)
        BY <4>1, <4>2, NothingIsNoAgent DEF RosterGood, n
      <4> QED
        BY <1>1, <1>2, <1>3, <1>7, <2>3, <4>2, <4>3 DEF VersionsAt
    <3> QED
      BY <3>1, <3>2
  <2> QED
    BY <1>3, <2>2, <2>3
<1> QED
  BY <1>3, <1>6, <1>7, <1>8, <1>9

-----------------------------------------------------------------------------
(* The invariant. *)

LEMMA InitHolds == AgentsInit => IInv
<1> SUFFICES ASSUME AgentsInit PROVE IInv
  OBVIOUS
<1>1. AgentsTypeOK
  BY DEF AgentsInit, AgentsTypeOK, AgentRows, NoAgent
<1>2. VersionsDense
  BY DEF AgentsInit, VersionsDense, NoAgent
<1>3. RosterPinsFlat /\ PinnedSessionStable
  BY DEF AgentsInit, RosterPinsFlat, PinnedSessionStable
<1>4. ReqBehind
  BY DEF AgentsInit, ReqBehind, ReqOK, AgentIdle
<1>5. ActiveExists
  BY DEF AgentsInit, ActiveExists, Exists, NoAgent
<1> QED
  BY <1>1, <1>2, <1>3, <1>4, <1>5 DEF IInv

\* A request that begins reads the rows and leaves them as they are.
LEMMA BeginKeeps ==
  ASSUME IInv, NEW c \in AgentClients, NEW req \in AgentRequests, ReqOK(req, agentVersions, agent),
         agentReq' = [agentReq EXCEPT ![c] = req],
         UNCHANGED <<agent, agentVersions, pinned>>
  PROVE  IInv'
<1>1. AgentsTypeOK'
  BY DEF IInv, AgentsTypeOK
<1>2. ReqBehind'
  BY DEF IInv, AgentsTypeOK, ReqBehind
<1>3. VersionsDense' /\ ActiveExists'
  BY DEF IInv, VersionsDense, ActiveExists, Exists
<1>4. RosterPinsFlat' /\ PinnedSessionStable'
  BY DEF IInv, RosterPinsFlat, PinnedSessionStable, VersionsAt
<1> QED
  BY <1>1, <1>2, <1>3, <1>4 DEF IInv

LEMMA BeginCreateKeeps ==
  ASSUME IInv, NEW c \in AgentClients, BeginCreateAgent(c)
  PROVE  IInv'
<1>1. PICK config \in Configs, roster \in AskedRosters(Nothing) :
        AgentBegin(c, "create", Nothing, 0, 1, config, roster)
  BY DEF BeginCreateAgent
<1>2. roster \in {Nothing} \cup Rosters /\ RosterGood(agentVersions, roster, Nothing, 1)
  BY AskedGood
<1> DEFINE req == [op |-> "create", agent |-> Nothing, base |-> 0, number |-> 1,
                   config |-> config, roster |-> roster]
<1>3. req \in AgentRequests
  BY <1>2 DEF AgentRequests
<1>4. ReqOK(req, agentVersions, agent)
  BY <1>2 DEF ReqOK
<1> QED
  BY <1>1, <1>3, <1>4, BeginKeeps DEF AgentBegin

LEMMA BeginUpdateKeeps ==
  ASSUME IInv, NEW c \in AgentClients, BeginUpdateAgent(c)
  PROVE  IInv'
<1>1. PICK a \in Agents, base \in 1 .. MaxVersion, config \in Configs :
        /\ Usable(a) /\ BaseMatches(a, base)
        /\ \E roster \in {ActiveVersion(a).roster} \cup AskedRosters(a) :
             AgentBegin(c, "update", a, base, agent[a].active + 1, config, roster)
  BY DEF BeginUpdateAgent
<1>2. PICK roster \in {ActiveVersion(a).roster} \cup AskedRosters(a) :
        AgentBegin(c, "update", a, base, agent[a].active + 1, config, roster)
  BY <1>1
<1> DEFINE n == agent[a].active + 1
<1>3. agent[a].active \in Nat /\ n \in Nat \ {0} /\ base = agent[a].active /\ Exists(a)
        /\ base \in 1 .. agent[a].active
  BY <1>1, AgentBounds DEF IInv, AgentsTypeOK, AgentRows, BaseMatches, Usable
<1>4. roster \in {Nothing} \cup Rosters /\ RosterGood(agentVersions, roster, a, n)
  <2>1. CASE roster \in AskedRosters(a)
    BY <2>1, AskedGood
  <2>2. CASE roster = ActiveVersion(a).roster
    <3> DEFINE v == ActiveVersion(a)
    <3>1. v \in agentVersions /\ v.agent = a /\ v.number = agent[a].active
      BY <1>3, ActiveFound
    <3> HIDE DEF v
    <3>2. v.roster \in {Nothing} \cup SUBSET Pins
      BY <3>1 DEF IInv, AgentsTypeOK, AgentVersionRows
    <3>3. v.roster \in {Nothing} \cup Rosters
      BY <3>2 DEF Rosters
    <3>4. \A w \in agentVersions : w.number \in Nat
      BY DEF IInv, AgentsTypeOK, AgentVersionRows
    <3>5. RosterGood(agentVersions, v.roster, a, n)
      BY <1>3, <3>1, <3>4 DEF IInv, RosterPinsFlat, VersionsAt, RosterGood
    <3> QED
      BY <2>2, <3>3, <3>5 DEF v
  <2> QED
    BY <2>1, <2>2
<1> DEFINE req == [op |-> "update", agent |-> a, base |-> base, number |-> n,
                   config |-> config, roster |-> roster]
<1> HIDE DEF n
<1>5. req \in AgentRequests
  BY <1>3, <1>4 DEF AgentRequests
<1>6. ReqOK(req, agentVersions, agent)
  BY <1>3, <1>4 DEF ReqOK, Exists, n
<1> QED
  BY <1>2, <1>5, <1>6, BeginKeeps DEF AgentBegin, n

\* A commit that inserts a version ends the request.
LEMMA InsertStepKeeps ==
  ASSUME IInv, NEW c \in AgentClients, NEW a \in Agents,
         agentReq[c].op # "none",
         RosterGood(agentVersions, agentReq[c].roster, Nothing, 1)
           \/ RosterGood(agentVersions, agentReq[c].roster, a, agent[a].active + 1),
         Inserted(a, agentReq[c].config, agentReq[c].roster),
         agent' \in [Agents -> AgentRows],
         \A b \in Agents : agent'[b].exists <=> (agent[b].exists \/ b = a),
         agentReq' = [agentReq EXCEPT ![c] = AgentIdle], UNCHANGED pinned
  PROVE  IInv'
<1>1. agentReq[c] \in AgentRequests
  BY DEF IInv, AgentsTypeOK, AgentIdle
<1>2. agentReq[c].config \in Configs /\ agentReq[c].roster \in {Nothing} \cup Rosters
  BY <1>1 DEF AgentRequests
<1>3. /\ agentVersions' \subseteq AgentVersionRows
      /\ agentVersions \subseteq agentVersions'
      /\ \A v \in agentVersions' \ agentVersions : VersionsAt(v.agent, v.number) = {}
      /\ VersionsDense'
      /\ RosterPinsFlat'
  BY <1>2, InsertKeeps
<1>4. AgentsTypeOK'
  BY <1>3 DEF IInv, AgentsTypeOK
<1>5. PinnedSessionStable'
  BY <1>3 DEF IInv, PinnedSessionStable, VersionsAt
<1>6. \A b \in Agents : agent[b].active \in Nat /\ agent'[b].active = IF b = a THEN agent[a].active + 1 ELSE agent[b].active
  BY DEF IInv, AgentsTypeOK, AgentRows, Inserted
<1>7. ReqBehind'
  <2> SUFFICES ASSUME NEW d \in AgentClients
               PROVE  ReqOK(agentReq'[d], agentVersions', agent')
    BY DEF ReqBehind
  <2>1. CASE d = c
    BY <2>1 DEF ReqOK, AgentIdle, IInv, AgentsTypeOK
  <2>2. CASE d # c
    <3>1. agentReq'[d] = agentReq[d]
      BY <2>2 DEF IInv, AgentsTypeOK
    <3>2. ReqOK(agentReq[d], agentVersions, agent)
      BY DEF IInv, ReqBehind
    <3>3. \A v \in agentVersions' \ agentVersions : \A w \in agentVersions : w.agent = v.agent => w.number # v.number
      BY <1>3 DEF VersionsAt
    <3>4. \A b \in Agents : agent[b].exists => agent'[b].exists /\ agent[b].active <= agent'[b].active
      BY <1>6
    <3>5. agent \in [Agents -> AgentRows]
      BY DEF IInv, AgentsTypeOK
    <3> QED
      BY <1>3, <3>1, <3>2, <3>3, <3>4, <3>5, ReqStays
  <2> QED
    BY <2>1, <2>2
<1>8. ActiveExists'
  BY <1>6 DEF IInv, ActiveExists, Exists
<1> QED
  BY <1>3, <1>4, <1>5, <1>7, <1>8 DEF IInv

LEMMA EndCreateKeeps ==
  ASSUME IInv, NEW c \in AgentClients, EndCreateAgent(c)
  PROVE  IInv'
<1>1. PICK a \in Agents :
        /\ ~Exists(a)
        /\ agent' = [agent EXCEPT ![a] = [exists |-> TRUE, archived |-> FALSE, active |-> 1]]
        /\ InsertVersion(a, 1, agentReq[c].config, agentReq[c].roster)
  BY DEF EndCreateAgent
<1>2. agent[a].active = 0
  BY <1>1 DEF IInv, ActiveExists
<1>3. Inserted(a, agentReq[c].config, agentReq[c].roster)
  BY <1>1, <1>2 DEF Inserted, InsertVersion, New, IInv, AgentsTypeOK
<1>4. RosterGood(agentVersions, agentReq[c].roster, Nothing, 1)
  BY DEF EndCreateAgent, AgentEnd, IInv, ReqBehind, ReqOK
<1>5. agent' \in [Agents -> AgentRows] /\ \A b \in Agents : agent'[b].exists <=> (agent[b].exists \/ b = a)
  BY <1>1 DEF IInv, AgentsTypeOK, AgentRows
<1> QED
  BY <1>3, <1>4, <1>5, InsertStepKeeps DEF EndCreateAgent, AgentEnd

\* The constraint passes only the version after the active one: the one that was
\* computed from the version the client named.
LEMMA FreeIsNext ==
  ASSUME IInv, NEW c \in AgentClients, agentReq[c].op = "update",
         FreeNumber(agentReq[c].agent, agentReq[c].number)
  PROVE  /\ agentReq[c].agent \in Agents /\ Exists(agentReq[c].agent)
         /\ agentReq[c].base = agent[agentReq[c].agent].active
         /\ agentReq[c].number = agent[agentReq[c].agent].active + 1
         /\ RosterGood(agentVersions, agentReq[c].roster, agentReq[c].agent, agentReq[c].number)
<1> DEFINE a == agentReq[c].agent
           n == agentReq[c].number
<1>1. /\ a \in Agents /\ Exists(a) /\ n = agentReq[c].base + 1 /\ agentReq[c].base \in 1 .. agent[a].active
      /\ RosterGood(agentVersions, agentReq[c].roster, a, n)
  BY DEF IInv, ReqBehind, ReqOK, Exists
<1>2. agent[a].active \in Nat /\ n \in Nat
  BY <1>1 DEF IInv, AgentsTypeOK, AgentRows
<1> HIDE DEF a, n
<1>3. n \notin {v.number : v \in {w \in agentVersions : w.agent = a}}
  BY DEF FreeNumber, VersionsAt, a, n
<1>4. n \notin 1 .. agent[a].active
  BY <1>1, <1>3 DEF IInv, VersionsDense
<1> QED
  BY <1>1, <1>2, <1>4 DEF a, n

LEMMA EndUpdateKeeps ==
  ASSUME IInv, NEW c \in AgentClients, EndUpdateAgent(c)
  PROVE  IInv'
<1> DEFINE a == agentReq[c].agent
           n == agentReq[c].number
<1>1. CASE FreeNumber(a, n)
  <2>1. /\ a \in Agents /\ Exists(a) /\ n = agent[a].active + 1
        /\ RosterGood(agentVersions, agentReq[c].roster, a, n)
    BY <1>1, FreeIsNext DEF EndUpdateAgent, AgentEnd
  <2>2. agent' = [agent EXCEPT ![a].active = n] /\ InsertVersion(a, n, agentReq[c].config, agentReq[c].roster)
    BY <1>1 DEF EndUpdateAgent
  <2>3. agentReq[c].op # "none" /\ agentReq' = [agentReq EXCEPT ![c] = AgentIdle] /\ UNCHANGED pinned
    BY DEF EndUpdateAgent, AgentEnd
  <2> HIDE DEF a, n
  <2>4. Inserted(a, agentReq[c].config, agentReq[c].roster)
    BY <2>1, <2>2 DEF Inserted, InsertVersion, New, IInv, AgentsTypeOK
  <2>5. agent' \in [Agents -> AgentRows] /\ \A b \in Agents : agent'[b].exists <=> (agent[b].exists \/ b = a)
    BY <2>1, <2>2 DEF IInv, AgentsTypeOK, AgentRows, Exists
  <2> QED
    BY <2>1, <2>3, <2>4, <2>5, InsertStepKeeps
<1>2. CASE ~FreeNumber(a, n)
  <2>1. agentReq' = [agentReq EXCEPT ![c] = AgentIdle] /\ UNCHANGED <<agent, agentVersions, pinned>>
    BY <1>2 DEF EndUpdateAgent, AgentEnd
  <2>2. AgentsTypeOK'
    BY <2>1 DEF IInv, AgentsTypeOK
  <2>3. ReqBehind'
    BY <2>1 DEF IInv, AgentsTypeOK, ReqBehind, ReqOK, AgentIdle
  <2>4. VersionsDense' /\ ActiveExists'
    BY <2>1 DEF IInv, VersionsDense, ActiveExists, Exists
  <2>5. RosterPinsFlat' /\ PinnedSessionStable'
    BY <2>1 DEF IInv, RosterPinsFlat, PinnedSessionStable, VersionsAt
  <2> QED
    BY <2>2, <2>3, <2>4, <2>5 DEF IInv
<1> QED
  BY <1>1, <1>2

LEMMA ArchiveKeeps == IInv /\ ArchiveAgent => IInv'
<1> SUFFICES ASSUME IInv, NEW a \in Agents, Exists(a), agent' = [agent EXCEPT ![a].archived = TRUE],
                    UNCHANGED <<agentVersions, agentReq, pinned>>
             PROVE  IInv'
  BY DEF ArchiveAgent
<1>1. AgentsTypeOK'
  BY DEF IInv, AgentsTypeOK, AgentRows
<1>2. \A b \in Agents : agent'[b].active = agent[b].active /\ agent'[b].exists = agent[b].exists
  BY DEF IInv, AgentsTypeOK, AgentRows
<1>3. ReqBehind'
  BY <1>2 DEF IInv, ReqBehind, ReqOK
<1>4. VersionsDense' /\ ActiveExists'
  BY <1>2 DEF IInv, VersionsDense, ActiveExists, Exists
<1>5. RosterPinsFlat' /\ PinnedSessionStable'
  BY DEF IInv, RosterPinsFlat, PinnedSessionStable, VersionsAt
<1> QED
  BY <1>1, <1>3, <1>4, <1>5 DEF IInv

LEMMA PinKeeps == IInv /\ PinSession => IInv'
<1> SUFFICES ASSUME IInv, PinSession
             PROVE  IInv'
  OBVIOUS
<1>1. PICK a \in Agents, v \in agentVersions :
        /\ v.agent = a
        /\ pinned' = [agent |-> a, version |-> v.number, config |-> v.config,
                      threads |-> IF v.roster = Nothing THEN {} ELSE v.roster]
  BY DEF PinSession, VersionsAt
<1>2. UNCHANGED <<agent, agentVersions, agentReq>>
  BY DEF PinSession
<1>3. v \in AgentVersionRows
  BY DEF IInv, AgentsTypeOK
<1>4. pinned' \in Sessions
  BY <1>1, <1>3 DEF Sessions, AgentVersionRows
<1>5. AgentsTypeOK'
  BY <1>2, <1>4 DEF IInv, AgentsTypeOK
<1>6. PinnedSessionStable'
  BY <1>1, <1>2 DEF PinnedSessionStable, VersionsAt
<1>7. VersionsDense' /\ ActiveExists' /\ ReqBehind'
  BY <1>2 DEF IInv, VersionsDense, ActiveExists, Exists, ReqBehind
<1>8. RosterPinsFlat'
  BY <1>2 DEF IInv, RosterPinsFlat, VersionsAt
<1> QED
  BY <1>5, <1>6, <1>7, <1>8 DEF IInv

LEMMA StepKeeps == IInv /\ [AgentsNext]_agentVars => IInv'
<1> SUFFICES ASSUME IInv, [AgentsNext]_agentVars
             PROVE  IInv'
  OBVIOUS
<1>1. CASE \E c \in AgentClients : BeginCreateAgent(c)
  BY <1>1, BeginCreateKeeps
<1>2. CASE \E c \in AgentClients : EndCreateAgent(c)
  BY <1>2, EndCreateKeeps
<1>3. CASE \E c \in AgentClients : BeginUpdateAgent(c)
  BY <1>3, BeginUpdateKeeps
<1>4. CASE \E c \in AgentClients : EndUpdateAgent(c)
  BY <1>4, EndUpdateKeeps
<1>5. CASE ArchiveAgent
  BY <1>5, ArchiveKeeps
<1>6. CASE PinSession
  BY <1>6, PinKeeps
<1>7. CASE UNCHANGED agentVars
  <2>1. AgentsTypeOK' /\ VersionsDense' /\ ActiveExists' /\ ReqBehind'
    BY <1>7 DEF agentVars, IInv, AgentsTypeOK, VersionsDense, ActiveExists, Exists, ReqBehind
  <2>2. RosterPinsFlat' /\ PinnedSessionStable'
    BY <1>7 DEF agentVars, IInv, RosterPinsFlat, PinnedSessionStable, VersionsAt
  <2> QED
    BY <2>1, <2>2 DEF IInv
<1> QED
  BY <1>1, <1>2, <1>3, <1>4, <1>5, <1>6, <1>7 DEF AgentsNext, AgentWrites

-----------------------------------------------------------------------------
(* The theorems. *)

LEMMA AlwaysIInv == AgentsSpec => []IInv
BY InitHolds, StepKeeps, PTL DEF AgentsSpec

\* The rows and the requests of the agent routes have their types.
THEOREM AgentsTyped == AgentsSpec => []AgentsTypeOK
<1>1. IInv => AgentsTypeOK
  BY DEF IInv
<1> QED
  BY <1>1, AlwaysIInv, PTL

\* An agent has exactly the versions 1 .. active_version, whatever updates overlap.
THEOREM AgentVersionsDense == AgentsSpec => []VersionsDense
<1>1. IInv => VersionsDense
  BY DEF IInv
<1> QED
  BY <1>1, AlwaysIInv, PTL

\* What a roster pins is there and has no roster but that of the agent itself, though
\* it was looked at when the request began.
THEOREM AgentRostersFlat == AgentsSpec => []RosterPinsFlat
<1>1. IInv => RosterPinsFlat
  BY DEF IInv
<1> QED
  BY <1>1, AlwaysIInv, PTL

\* What create_session pinned does not change with later updates of the agent.
THEOREM PinsStable == AgentsSpec => []PinnedSessionStable
<1>1. IInv => PinnedSessionStable
  BY DEF IInv
<1> QED
  BY <1>1, AlwaysIInv, PTL

\* update_agent replaces the version that its client named: the unique constraint is
\* enough to keep overlapping updates apart.
THEOREM AgentUpdatesKept == AgentsSpec => NoAgentUpdateLost
<1> DEFINE Kept ==
      \A a \in Agents : agent[a].active # 0 /\ agent'[a].active # agent[a].active =>
        \E c \in AgentClients : agentReq[c].op = "update" /\ agentReq'[c].op = "none" /\
           agentReq[c].agent = a /\ agentReq[c].base = agent[a].active
<1>1. ASSUME IInv, [AgentsNext]_agentVars
      PROVE  [Kept]_agentVars
  <2> SUFFICES ASSUME NEW a \in Agents, agent[a].active # 0, agent'[a].active # agent[a].active
               PROVE  \E c \in AgentClients : agentReq[c].op = "update" /\ agentReq'[c].op = "none" /\
                        agentReq[c].agent = a /\ agentReq[c].base = agent[a].active
    OBVIOUS
  <2>1. agent \in [Agents -> AgentRows] /\ agentReq \in [AgentClients -> AgentRequests \cup {AgentIdle}]
    BY <1>1 DEF IInv, AgentsTypeOK
  <2>2. CASE \E c \in AgentClients : EndCreateAgent(c)
    <3>1. PICK b \in Agents : ~Exists(b) /\ agent' = [agent EXCEPT ![b] = [exists |-> TRUE, archived |-> FALSE, active |-> 1]]
      BY <2>2 DEF EndCreateAgent
    <3>2. a = b
      BY <2>1, <3>1
    <3> QED
      BY <1>1, <3>1, <3>2 DEF IInv, ActiveExists
  <2>3. ASSUME NEW c \in AgentClients, EndUpdateAgent(c)
        PROVE  agentReq[c].op = "update" /\ agentReq'[c].op = "none" /\
                 agentReq[c].agent = a /\ agentReq[c].base = agent[a].active
    <3>1. agentReq[c].op = "update" /\ agentReq' = [agentReq EXCEPT ![c] = AgentIdle]
      BY <2>3 DEF EndUpdateAgent, AgentEnd
    <3>2. FreeNumber(agentReq[c].agent, agentReq[c].number)
            /\ agent' = [agent EXCEPT ![agentReq[c].agent].active = agentReq[c].number]
      BY <2>3 DEF EndUpdateAgent
    <3>3. agentReq[c].agent \in Agents /\ agentReq[c].base = agent[agentReq[c].agent].active
      BY <1>1, <3>1, <3>2, FreeIsNext
    <3>4. agentReq[c].agent = a
      BY <2>1, <3>2, <3>3
    <3> QED
      BY <2>1, <3>1, <3>3, <3>4 DEF AgentIdle
  <2>4. CASE ArchiveAgent
    BY <2>1, <2>4 DEF ArchiveAgent, AgentRows
  <2>5. CASE (\E c \in AgentClients : BeginCreateAgent(c) \/ BeginUpdateAgent(c)) \/ PinSession
    BY <2>5 DEF BeginCreateAgent, BeginUpdateAgent, AgentBegin, PinSession
  <2> QED
    BY <1>1, <2>2, <2>3, <2>4, <2>5 DEF AgentsNext, AgentWrites, agentVars
<1> QED
  BY <1>1, AlwaysIInv, PTL DEF AgentsSpec, NoAgentUpdateLost

-----------------------------------------------------------------------------
(* Credentials. *)

\* What a request on a credential will write, compared with the row that it read.
RequestOK(req, rows) ==
  /\ req.op \in {"update", "validate", "archive", "delete"} =>
       /\ req.id \in Credentials /\ rows[req.id].exists
       /\ req.read \in CredentialRows
  /\ req.op = "update" => req.auth.secret = req.read.auth.secret \/ req.auth.secret = req.given
  /\ req.op = "validate" => req.auth = req.read.auth
  /\ req.op \in {"archive", "delete"} => req.auth.secret = Purged

WrittenFromRead == \A c \in VaultClients : RequestOK(credReq[c], credential)

VaultInv == VaultsTypeOK /\ WrittenFromRead

LEMMA VaultsStart == VaultsInit => VaultInv
BY DEF VaultsInit, VaultInv, VaultsTypeOK, VaultRows, WrittenFromRead, RequestOK, CredentialIdle

\* What get_resource finds is a row.
LEMMA FoundIsRow ==
  ASSUME VaultInv, NEW k \in Credentials, credential[k].exists
  PROVE  credential[k] \in CredentialRows
BY DEF VaultInv, VaultsTypeOK, NoCredential

\* A request in flight is well formed.
LEMMA CredentialInFlight ==
  ASSUME VaultInv, NEW c \in VaultClients, credReq[c].op # "none"
  PROVE  credReq[c] \in CredentialRequests
BY DEF VaultInv, VaultsTypeOK, CredentialIdle

\* A request that begins leaves the rows alone.
LEMMA CredentialBegins ==
  ASSUME VaultInv, NEW c \in VaultClients, NEW op \in CredentialOps, NEW k, NEW row, NEW v, NEW auth, NEW given,
         CredentialBegin(c, op, k, row, v, auth, given),
         [op |-> op, id |-> k, read |-> row, vault |-> v, auth |-> auth, given |-> given] \in CredentialRequests,
         RequestOK([op |-> op, id |-> k, read |-> row, vault |-> v, auth |-> auth, given |-> given], credential)
  PROVE  VaultInv'
<1> DEFINE r == [op |-> op, id |-> k, read |-> row, vault |-> v, auth |-> auth, given |-> given]
<1>1. credReq' = [credReq EXCEPT ![c] = r] /\ vault' = vault /\ credential' = credential
  BY DEF CredentialBegin
<1>2. r \in CredentialRequests /\ RequestOK(r, credential)
  OBVIOUS
<1> HIDE DEF r
<1>3. VaultsTypeOK'
  BY <1>1, <1>2 DEF VaultInv, VaultsTypeOK
<1>4. \A d \in VaultClients : credReq'[d] = IF d = c THEN r ELSE credReq[d]
  BY <1>1 DEF VaultInv, VaultsTypeOK
<1>5. WrittenFromRead'
  BY <1>1, <1>2, <1>4 DEF VaultInv, WrittenFromRead
<1> QED BY <1>3, <1>5 DEF VaultInv

LEMMA CreateBegins ==
  ASSUME VaultInv, NEW c \in VaultClients, BeginCreateCredential(c) PROVE VaultInv'
<1>1. PICK v \in VaultIds, type \in AuthTypes, url \in Urls, secret \in Secrets \cup {Purged} :
        CredentialBegin(c, "create", 0, NoCredential, v, [type |-> type, url |-> url, secret |-> secret], secret)
  BY DEF BeginCreateCredential
<1> DEFINE auth == [type |-> type, url |-> url, secret |-> secret]
           r == [op |-> "create", id |-> 0, read |-> NoCredential, vault |-> v, auth |-> auth, given |-> secret]
<1>2. auth \in Auths
  BY DEF Auths
<1>3. r \in CredentialRequests /\ RequestOK(r, credential)
  BY <1>2 DEF CredentialRequests, CredentialOps, RequestOK
<1>4. "create" \in CredentialOps
  BY DEF CredentialOps
<1> QED BY <1>1, <1>3, <1>4, CredentialBegins

\* A request on the row k that writes auth.
LEMMA OnRowBegins ==
  ASSUME VaultInv, NEW c \in VaultClients, NEW op \in CredentialOps \ {"create"}, NEW k \in Credentials,
         CredentialFound(k), NEW auth \in Auths, NEW given \in Secrets \cup {Purged},
         CredentialBegin(c, op, k, credential[k], credential[k].vault, auth, given),
         op = "update" => auth.secret = credential[k].auth.secret \/ auth.secret = given,
         op = "validate" => auth = credential[k].auth,
         op \in {"archive", "delete"} => auth.secret = Purged
  PROVE  VaultInv'
<1> DEFINE r == [op |-> op, id |-> k, read |-> credential[k], vault |-> credential[k].vault,
                 auth |-> auth, given |-> given]
<1>1. credential[k].exists /\ credential[k] \in CredentialRows
  BY FoundIsRow DEF CredentialFound
<1>2. r \in CredentialRequests
  <2>1. credential[k].vault \in VaultIds
    BY <1>1 DEF CredentialRows
  <2> QED BY <1>1, <2>1 DEF CredentialRequests
<1>3. RequestOK(r, credential)
  BY <1>1 DEF RequestOK
<1> QED BY <1>2, <1>3, CredentialBegins

LEMMA UpdateBegins ==
  ASSUME VaultInv, NEW c \in VaultClients, BeginUpdateCredential(c) PROVE VaultInv'
<1>1. PICK k \in Credentials, type \in AuthTypes, url \in Urls, secret \in Secrets \cup {Purged} :
        /\ CredentialFound(k)
        /\ \E auth \in MergedAuth(credential[k].auth, [type |-> type, url |-> url, secret |-> secret]) :
             CredentialBegin(c, "update", k, credential[k], credential[k].vault, auth, secret)
  BY DEF BeginUpdateCredential
<1>2. PICK auth \in MergedAuth(credential[k].auth, [type |-> type, url |-> url, secret |-> secret]) :
        CredentialBegin(c, "update", k, credential[k], credential[k].vault, auth, secret)
  BY <1>1
<1>3. credential[k].auth \in Auths
  BY <1>1, FoundIsRow DEF CredentialFound, CredentialRows
<1>4. auth = [credential[k].auth EXCEPT !.url = url, !.secret = IF secret = Purged THEN @ ELSE secret]
  BY <1>2 DEF MergedAuth
<1>5. auth \in Auths /\ (auth.secret = credential[k].auth.secret \/ auth.secret = secret)
  BY <1>3, <1>4 DEF Auths
<1>6. "update" \in CredentialOps \ {"create"}
  BY DEF CredentialOps
<1> QED BY <1>1, <1>2, <1>5, <1>6, OnRowBegins

LEMMA ValidateBegins ==
  ASSUME VaultInv, NEW c \in VaultClients, BeginValidateCredential(c) PROVE VaultInv'
<1>1. PICK k \in Credentials :
        /\ CredentialFound(k)
        /\ CredentialBegin(c, "validate", k, credential[k], credential[k].vault, credential[k].auth, Purged)
  BY DEF BeginValidateCredential
<1>2. credential[k].auth \in Auths
  BY <1>1, FoundIsRow DEF CredentialFound, CredentialRows
<1>3. "validate" \in CredentialOps \ {"create"}
  BY DEF CredentialOps
<1> QED BY <1>1, <1>2, <1>3, OnRowBegins

LEMMA CloseBegins ==
  ASSUME VaultInv, NEW c \in VaultClients, BeginCloseCredential(c) PROVE VaultInv'
<1>1. PICK k \in Credentials, op \in {"archive", "delete"} :
        /\ CredentialFound(k)
        /\ CredentialBegin(c, op, k, credential[k], credential[k].vault, PurgedAuth(credential[k].auth), Purged)
  BY DEF BeginCloseCredential
<1>2. credential[k].auth \in Auths
  BY <1>1, FoundIsRow DEF CredentialFound, CredentialRows
<1>3. PurgedAuth(credential[k].auth) \in Auths /\ PurgedAuth(credential[k].auth).secret = Purged
  BY <1>2 DEF PurgedAuth, Auths
<1>4. op \in CredentialOps \ {"create"}
  BY DEF CredentialOps
<1> QED BY <1>1, <1>3, <1>4, OnRowBegins

\* A request that ends and leaves every row that exists in existence.
LEMMA CredentialEnds ==
  ASSUME VaultInv, NEW c \in VaultClients, credReq' = [credReq EXCEPT ![c] = CredentialIdle], vault' = vault,
         credential' \in [Credentials -> CredentialRows \cup {NoCredential}],
         \A k \in Credentials : credential[k].exists => credential'[k].exists
  PROVE  VaultInv'
<1>1. VaultsTypeOK'
  BY DEF VaultInv, VaultsTypeOK
<1>2. \A d \in VaultClients : credReq'[d] = IF d = c THEN CredentialIdle ELSE credReq[d]
  BY DEF VaultInv, VaultsTypeOK
<1>3. RequestOK(CredentialIdle, credential')
  BY DEF RequestOK, CredentialIdle
<1>4. ASSUME NEW d \in VaultClients, d # c PROVE RequestOK(credReq[d], credential')
  BY <1>4 DEF VaultInv, WrittenFromRead, RequestOK
<1>5. WrittenFromRead'
  BY <1>2, <1>3, <1>4 DEF WrittenFromRead
<1> QED BY <1>1, <1>5 DEF VaultInv

LEMMA CreateEnds ==
  ASSUME VaultInv, NEW c \in VaultClients, EndCreateCredential(c) PROVE VaultInv'
<1>1. credReq[c].op = "create" /\ credReq' = [credReq EXCEPT ![c] = CredentialIdle] /\ vault' = vault
  BY DEF EndCreateCredential, CredentialEnd
<1>2. credReq[c] \in CredentialRequests
  BY <1>1, CredentialInFlight
<1> DEFINE r == [exists |-> TRUE, archived |-> FALSE, deleted |-> FALSE,
                 vault |-> credReq[c].vault, auth |-> credReq[c].auth]
<1>3. PICK k \in Credentials : credential' = [credential EXCEPT ![k] = r]
  BY DEF EndCreateCredential
<1>4. r \in CredentialRows
  BY <1>2 DEF CredentialRequests, CredentialRows
<1>5. credential' \in [Credentials -> CredentialRows \cup {NoCredential}]
  BY <1>3, <1>4 DEF VaultInv, VaultsTypeOK
<1>6. \A l \in Credentials : credential[l].exists => credential'[l].exists
  BY <1>3 DEF VaultInv, VaultsTypeOK
<1> QED BY <1>1, <1>5, <1>6, CredentialEnds

\* A row is written by a request that read it: it exists, and what the request does to it.
LEMMA WriteFacts ==
  ASSUME VaultInv, NEW c \in VaultClients, credReq[c].op \in {"update", "validate", "archive", "delete"},
         NEW archived \in BOOLEAN, NEW deleted \in BOOLEAN, WriteCredential(c, archived, deleted)
  PROVE  LET k == credReq[c].id IN
           /\ k \in Credentials /\ credential[k].exists
           /\ credential'[k] \in CredentialRows /\ credential'[k].auth = credReq[c].auth
           /\ \A l \in Credentials \ {k} : credential'[l] = credential[l]
           /\ credential' \in [Credentials -> CredentialRows \cup {NoCredential}]
           /\ vault' = vault
<1> DEFINE k == credReq[c].id
           row == [credential[k] EXCEPT !.auth = credReq[c].auth, !.archived = @ \/ archived, !.deleted = @ \/ deleted]
<1>1. k \in Credentials /\ credential[k].exists
  BY DEF VaultInv, WrittenFromRead, RequestOK
<1>2. credential[k] \in CredentialRows
  BY <1>1, FoundIsRow
<1>3. credReq[c].auth \in Auths
  BY CredentialInFlight DEF CredentialRequests
<1>4. row \in CredentialRows /\ row.auth = credReq[c].auth
  BY <1>2, <1>3 DEF CredentialRows
<1>5. credential' = [credential EXCEPT ![k] = row] /\ vault' = vault
  BY <1>1 DEF WriteCredential, VaultInv, VaultsTypeOK
<1> HIDE DEF row
<1> QED BY <1>1, <1>4, <1>5 DEF VaultInv, VaultsTypeOK

\* The routes that write the row they read.
Writes(c) ==
  \/ EndUpdateCredential(c) \/ EndValidateCredential(c) \/ EndArchiveCredential(c) \/ EndDeleteCredential(c)

LEMMA WritesAre ==
  ASSUME VaultInv, NEW c \in VaultClients, Writes(c)
  PROVE  /\ credReq[c].op \in {"update", "validate", "archive", "delete"}
         /\ credReq' = [credReq EXCEPT ![c] = CredentialIdle]
         /\ \E archived, deleted \in BOOLEAN : WriteCredential(c, archived, deleted)
BY DEF Writes, EndUpdateCredential, EndValidateCredential, EndArchiveCredential, EndDeleteCredential, CredentialEnd

LEMMA WriteEnds ==
  ASSUME VaultInv, NEW c \in VaultClients, Writes(c) PROVE VaultInv'
<1>1. PICK archived \in BOOLEAN, deleted \in BOOLEAN : WriteCredential(c, archived, deleted)
  BY WritesAre
<1>2. \A l \in Credentials : credential[l].exists => credential'[l].exists
  BY <1>1, WritesAre, WriteFacts DEF CredentialRows
<1> QED BY <1>1, <1>2, WritesAre, WriteFacts, CredentialEnds

LEMMA VaultStep == VaultInv /\ [VaultsNext]_vaultVars => VaultInv'
<1> SUFFICES ASSUME VaultInv, [VaultsNext]_vaultVars PROVE VaultInv'
  OBVIOUS
<1>1. CASE \E c \in VaultClients : BeginCreateCredential(c) \/ BeginUpdateCredential(c)
                                    \/ BeginValidateCredential(c) \/ BeginCloseCredential(c)
  BY <1>1, CreateBegins, UpdateBegins, ValidateBegins, CloseBegins
<1>2. CASE \E c \in VaultClients : EndCreateCredential(c) \/ Writes(c)
  BY <1>2, CreateEnds, WriteEnds
<1>3. CASE ArchiveVault \/ DeleteVault
  <2>1. vault' \in [VaultIds -> VaultRows] /\ UNCHANGED <<credential, credReq>>
    BY <1>3 DEF ArchiveVault, DeleteVault, VaultInv, VaultsTypeOK, VaultRows
  <2> QED BY <2>1 DEF VaultInv, VaultsTypeOK, WrittenFromRead
<1>4. CASE UNCHANGED vaultVars
  BY <1>4 DEF vaultVars, VaultInv, VaultsTypeOK, WrittenFromRead
<1> QED BY <1>1, <1>2, <1>3, <1>4 DEF VaultsNext, Writes

\* What a step that fills a purged secret again is.
LEMMA PurgeUndone ==
  ASSUME VaultInv, [VaultsNext]_vaultVars, NEW k \in Credentials, credential[k].exists,
         credential[k].auth.secret = Purged, credential'[k].auth.secret # Purged
  PROVE  \E c \in VaultClients :
           /\ credReq[c].id = k /\ credReq'[c].op = "none"
           /\ credReq[c].read.auth.secret # Purged
                \/ (credReq[c].op = "update" /\ credReq[c].given = credential'[k].auth.secret)
<1>1. ASSUME NEW c \in VaultClients, EndCreateCredential(c) PROVE FALSE
  <2>1. PICK l \in Credentials : ~ credential[l].exists /\ credential' = [credential EXCEPT ![l] =
              [exists |-> TRUE, archived |-> FALSE, deleted |-> FALSE,
               vault |-> credReq[c].vault, auth |-> credReq[c].auth]]
    BY <1>1 DEF EndCreateCredential
  <2>2. l # k
    BY <2>1
  <2> QED BY <2>1, <2>2 DEF VaultInv, VaultsTypeOK
<1>2. ASSUME UNCHANGED credential PROVE FALSE
  BY <1>2
<1>3. PICK c \in VaultClients : Writes(c)
  BY <1>1, <1>2 DEF VaultsNext, vaultVars, BeginCreateCredential, BeginUpdateCredential, BeginValidateCredential,
    BeginCloseCredential, CredentialBegin, ArchiveVault, DeleteVault, Writes
<1>4. PICK archived \in BOOLEAN, deleted \in BOOLEAN : WriteCredential(c, archived, deleted)
  BY <1>3, WritesAre
<1>5. credReq[c].op \in {"update", "validate", "archive", "delete"} /\ credReq'[c].op = "none"
  BY <1>3, WritesAre DEF VaultInv, VaultsTypeOK, CredentialIdle
<1>6. credReq[c].id = k /\ credential'[k].auth = credReq[c].auth
  BY <1>4, <1>5, WriteFacts
<1>7. RequestOK(credReq[c], credential) /\ credReq[c].auth.secret # Purged
  BY <1>6 DEF VaultInv, WrittenFromRead
<1> QED BY <1>5, <1>6, <1>7 DEF RequestOK

\* The secrets that archiving or deleting a credential purged stay purged, unless a request that
\* read them before writes its copy of data back, or an update brings secrets of its own:
\* update_credential, validate_credential and _purge_credential_secret_data.
THEOREM PurgesStay == VaultsSpec => PurgeIsUndoneOnlyBy
<1> DEFINE Undone == \A k \in Credentials : credential[k].exists /\ credential[k].auth.secret = Purged
                                                /\ credential'[k].auth.secret # Purged =>
             \E c \in VaultClients :
               /\ credReq[c].id = k /\ credReq'[c].op = "none"
               /\ credReq[c].read.auth.secret # Purged
                    \/ (credReq[c].op = "update" /\ credReq[c].given = credential'[k].auth.secret)
<1>1. VaultInv /\ [VaultsNext]_vaultVars => [Undone]_vaultVars
  BY PurgeUndone
<1> HIDE DEF Undone
<1>2. VaultsSpec => [][Undone]_vaultVars
  BY <1>1, VaultsStart, VaultStep, PTL DEF VaultsSpec
<1> QED BY <1>2 DEF PurgeIsUndoneOnlyBy, Undone

-----------------------------------------------------------------------------
(* Agents and vaults together. *)

\* Rows and requests of agents and of vaults keep their types, whichever of them moves:
\* app/routers/agents.py, app/routers/generic_resources.py.
THEOREM RegistryTyped == MCSpec => []RegistryTypeOK
<1>1. MCInit => IInv /\ VaultInv
  BY InitHolds, VaultsStart DEF MCInit
<1>2. IInv /\ VaultInv /\ [MCNext]_<<agentVars, vaultVars, scope>> => IInv' /\ VaultInv'
  <2> SUFFICES ASSUME IInv, VaultInv, [MCNext]_<<agentVars, vaultVars, scope>> PROVE IInv' /\ VaultInv'
    OBVIOUS
  <2>1. [AgentsNext]_agentVars /\ [VaultsNext]_vaultVars
    BY DEF MCNext
  <2> QED BY <2>1, StepKeeps, VaultStep
<1>3. IInv /\ VaultInv => RegistryTypeOK
  BY DEF IInv, VaultInv, RegistryTypeOK
<1> QED BY <1>1, <1>2, <1>3, PTL DEF MCSpec
=============================================================================
