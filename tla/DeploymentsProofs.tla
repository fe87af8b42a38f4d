--------------------------- MODULE DeploymentsProofs ---------------------------
(***************************************************************************)
(* What deployments, their runs and the ticks keep, for any number of      *)
(* deployments, crons, agents, vaults and requests.                        *)
(*   A tick has pending what it has not committed: at most one run of each *)
(* deployment it has passed, and none that a tick has created before       *)
(* (PendingFresh).  That a paused schedule stays paused rests on the       *)
(* status in the column, which no tick and no run writes (PauseInv).       *)
(*   A schedule does not stall by a tick, which leaves the instants after  *)
(* its own time, nor by time alone (StallInv): only by data written back.  *)
(***************************************************************************)
EXTENDS Deployments, RegistryProofs, FiniteSetTheorems, WellFoundedInduction

(* Types. *)

DataOps == {"create", "update", "pause", "unpause"}

WriteOps == {"update", "pause", "unpause"}

RowsMaybe == DeploymentRows \cup {NoDeployment}

AnyRequest ==
  [op : {"none", "run"} \cup DataOps, id : 0 .. MaxDeployments, data : Data \cup {Nothing},
   read : DeploymentRows \cup {Nothing}, run : Runs \cup {Nothing}]

\* A request names a row that is there, and holds what its commit writes.
ClientOK(q, rows) ==
  /\ q.op \in WriteOps \cup {"run"} => q.id \in DeploymentIds /\ rows[q.id].exists
  /\ q.op \in DataOps => q.data \in Data
  /\ q.op \in WriteOps => q.read \in DeploymentRows
  /\ q.op = "run" => q.run \in Runs /\ q.run.by = "api"

Entries == [data : Data, run : Runs]

AnyTick ==
  [on : BOOLEAN, now : Nat, listed : [DeploymentIds -> RowsMaybe] \cup {Nothing}, next : 0 .. MaxDeployments,
   pending : Seq(Entries)]

\* What a tick has pending: a scheduled run for each of some deployments it has passed.
TickOK(t, rows) ==
  /\ t.on => /\ t.listed \in [DeploymentIds -> RowsMaybe]
             /\ \A d \in DeploymentIds : t.listed[d].exists => rows[d].exists
  /\ \A i \in DOMAIN t.pending :
       LET run == t.pending[i].run IN
         run.by = "tick" /\ run.deployment > t.next /\ rows[run.deployment].exists
  /\ \A i, j \in DOMAIN t.pending : t.pending[i].run.deployment = t.pending[j].run.deployment => i = j

RowsTyped ==
  /\ clock \in 0 .. MaxClock /\ environment \in {"active", "closed"}
  /\ deployment \in [DeploymentIds -> RowsMaybe]
  /\ runs \in Seq(Runs)

RequestsTyped ==
  /\ client \in [Clients -> AnyRequest]
  /\ \A c \in Clients : ClientOK(client[c], deployment)

TicksTyped ==
  /\ tick \in [Schedulers -> AnyTick]
  /\ \A p \in Schedulers : TickOK(tick[p], deployment)

DepInv == RowsTyped /\ RequestsTyped /\ TicksTyped

-----------------------------------------------------------------------------
(* What the operators return. *)

LEMMA UpcomingNat ==
  ASSUME NEW cron \in Crons \cup {Nothing}, NEW n
  PROVE  Upcoming(cron, n) \subseteq Nat \ {0}
BY CronAssumption DEF Upcoming

LEMMA AdvancedTyped ==
  ASSUME NEW row \in DeploymentRows
  PROVE  /\ Advanced(row) \in Data /\ Advanced(row).status = row.data.status
         /\ Advanced(row).cron = row.data.cron /\ Advanced(row).upcoming = Upcoming(row.data.cron, clock)
<1>1. row.data \in Data
  BY DEF DeploymentRows
<1>2. Upcoming(row.data.cron, clock) \in SUBSET Nat
  BY <1>1, UpcomingNat DEF Data
<1> QED BY <1>1, <1>2 DEF Advanced, Data

\* A session pins a version that is there.
LEMMA SessionTyped ==
  ASSUME IInv, NEW a \in Agents, NEW n
  PROVE  SessionFor(a, n) \in {Nothing} \cup Pins
<1>1. CASE VersionsAt(a, n) # {}
  <2>1. PICK v \in agentVersions : v.agent = a /\ v.number = n
    BY <1>1 DEF VersionsAt
  <2>2. n \in Nat \ {0}
    BY <2>1 DEF IInv, AgentsTypeOK, AgentVersionRows
  <2> QED BY <2>2 DEF SessionFor, Pins
<1> QED BY <1>1 DEF SessionFor

LEMMA RunTyped ==
  ASSUME NEW d \in DeploymentIds, NEW by \in {"api", "tick"}, NEW trigger \in {"manual", "schedule"},
         NEW due \in Nat, NEW session \in {Nothing} \cup Pins
  PROVE  /\ NewRun(d, by, trigger, due, session) \in Runs
         /\ NewRun(d, by, trigger, due, session).by = by
         /\ NewRun(d, by, trigger, due, session).trigger = trigger
         /\ NewRun(d, by, trigger, due, session).due = due
         /\ NewRun(d, by, trigger, due, session).deployment = d
BY DEF NewRun, Runs

LEMMA NormalizedTyped ==
  ASSUME IInv, NEW status \in {"active", "paused"}, NEW a \in Agents, NEW n, NEW vaults \in SUBSET VaultIds,
         NEW cron \in Crons \cup {Nothing}, NEW enabled \in BOOLEAN,
         NEW data \in Normalized(status, a, n, vaults, cron, enabled)
  PROVE  data \in Data /\ data.status = status /\ data.cron = cron /\ data.upcoming = Upcoming(cron, clock)
<1>1. PICK v \in agentVersions :
        data = [status |-> status, agent |-> a, version |-> v.number, vaults |-> vaults, cron |-> cron,
                enabled |-> enabled, upcoming |-> Upcoming(cron, clock)]
  BY DEF Normalized, VersionsAt
<1>2. v.number \in Nat \ {0}
  BY DEF IInv, AgentsTypeOK, AgentVersionRows
<1>3. Upcoming(cron, clock) \in SUBSET Nat
  BY UpcomingNat
<1> QED BY <1>1, <1>2, <1>3 DEF Data

\* What exists is a row.
LEMMA RowTyped ==
  ASSUME RowsTyped, NEW d \in DeploymentIds, deployment[d].exists
  PROVE  deployment[d] \in DeploymentRows /\ deployment[d].data \in Data
<1>1. deployment[d] \in DeploymentRows
  BY DEF RowsTyped, RowsMaybe, NoDeployment
<1> QED BY <1>1 DEF DeploymentRows

-----------------------------------------------------------------------------
(* Steps, by what they leave alone. *)

\* Rows stay in existence.
RowsStay == \A d \in DeploymentIds : deployment[d].exists => deployment'[d].exists

LEMMA ClientStays ==
  ASSUME RowsStay, NEW q, ClientOK(q, deployment) PROVE ClientOK(q, deployment')
BY DEF RowsStay, ClientOK

LEMMA TickStays ==
  ASSUME RowsStay, NEW t \in AnyTick, TickOK(t, deployment) PROVE TickOK(t, deployment')
<1>1. t.pending \in Seq(Entries)
  BY DEF AnyTick
<1>2. \A i \in DOMAIN t.pending : t.pending[i] \in Entries
  BY <1>1
<1>3. \A i \in DOMAIN t.pending : t.pending[i].run.deployment \in DeploymentIds
  BY <1>2 DEF Entries, Runs
<1> QED BY <1>3 DEF RowsStay, TickOK

\* A request changes, the ticks do not.
LEMMA ClientMoves ==
  ASSUME DepInv, NEW c \in Clients, NEW q \in AnyRequest, client' = [client EXCEPT ![c] = q],
         UNCHANGED tick, RowsTyped', RowsStay, ClientOK(q, deployment')
  PROVE  DepInv'
<1>1. \A e \in Clients : client'[e] = IF e = c THEN q ELSE client[e]
  BY DEF DepInv, RequestsTyped
<1>2. RequestsTyped'
  BY <1>1, ClientStays DEF DepInv, RequestsTyped
<1>3. TicksTyped'
  BY TickStays DEF DepInv, TicksTyped
<1> QED BY <1>2, <1>3 DEF DepInv

\* A tick changes, the requests do not.
LEMMA TickMoves ==
  ASSUME DepInv, NEW p \in Schedulers, NEW t \in AnyTick, tick' = [tick EXCEPT ![p] = t],
         UNCHANGED client, RowsTyped', RowsStay, TickOK(t, deployment')
  PROVE  DepInv'
<1>1. \A r \in Schedulers : tick'[r] = IF r = p THEN t ELSE tick[r]
  BY DEF DepInv, TicksTyped
<1>2. TicksTyped'
  BY <1>1, TickStays DEF DepInv, TicksTyped
<1>3. RequestsTyped'
  BY ClientStays DEF DepInv, RequestsTyped
<1> QED BY <1>2, <1>3 DEF DepInv

LEMMA QuietOK == Quiet \in AnyRequest /\ \A rows : ClientOK(Quiet, rows)
BY DeploymentBounds DEF Quiet, AnyRequest, ClientOK, WriteOps, DataOps

LEMMA NoTickOK == NoTick \in AnyTick /\ \A rows : TickOK(NoTick, rows)
<1>1. <<>> \in Seq(Entries) /\ DOMAIN <<>> = {}
  OBVIOUS
<1> QED BY <1>1, DeploymentBounds DEF NoTick, AnyTick, TickOK

-----------------------------------------------------------------------------
(* Requests that begin. *)

\* A request on a row, or one that creates a row.
LEMMA ClientBegins ==
  ASSUME DepInv, NEW c \in Clients, NEW op \in {"run"} \cup DataOps, NEW d \in 0 .. MaxDeployments,
         NEW data \in Data \cup {Nothing}, NEW run \in Runs \cup {Nothing}, ClientBegin(c, op, d, data, run),
         op = "create" => d = 0, op \in WriteOps \cup {"run"} => d \in DeploymentIds /\ deployment[d].exists,
         op \in DataOps => data \in Data, op = "run" => run \in Runs /\ run.by = "api"
  PROVE  DepInv'
<1> DEFINE read == IF d = 0 THEN Nothing ELSE deployment[d]
           q == [op |-> op, id |-> d, data |-> data, run |-> run, read |-> read]
<1>1. client' = [client EXCEPT ![c] = q] /\ UNCHANGED <<clock, environment, deployment, runs, tick>>
  BY DEF ClientBegin
<1>2. d # 0 => deployment[d] \in DeploymentRows
  BY RowTyped DEF DepInv, DataOps, WriteOps, DeploymentIds
<1>3. q \in AnyRequest
  BY <1>2 DEF AnyRequest
<1>4. ClientOK(q, deployment)
  <2>1. op \in WriteOps => d # 0
    BY DEF DeploymentIds
  <2> QED BY <1>2, <2>1 DEF ClientOK
<1> HIDE DEF q
<1>5. RowsTyped' /\ RowsStay /\ deployment' = deployment
  BY <1>1 DEF DepInv, RowsTyped, RowsStay
<1> QED BY <1>1, <1>3, <1>4, <1>5, ClientMoves

\* What the requests begin with.
LEMMA BeginCreateIs ==
  ASSUME IInv, NEW c \in Clients, BeginCreateDeployment(c)
  PROVE  \E data \in Data : data.upcoming = Upcoming(data.cron, clock) /\ ClientBegin(c, "create", 0, data, Nothing)
<1>1. PICK a \in Agents, n \in 0 .. MaxVersion, vaults \in SUBSET VaultIds, cron \in Crons \cup {Nothing},
           status \in {"active", "paused"}, enabled \in BOOLEAN :
        \E data \in Normalized(status, a, n, vaults, cron, enabled) : ClientBegin(c, "create", 0, data, Nothing)
  BY DEF BeginCreateDeployment
<1>2. PICK data \in Normalized(status, a, n, vaults, cron, enabled) : ClientBegin(c, "create", 0, data, Nothing)
  BY <1>1
<1>3. data \in Data /\ data.cron = cron /\ data.upcoming = Upcoming(cron, clock)
  BY <1>1, <1>2, NormalizedTyped
<1> QED BY <1>2, <1>3

LEMMA BeginCreateOK ==
  ASSUME DepInv, IInv, NEW c \in Clients, BeginCreateDeployment(c) PROVE DepInv'
<1>1. PICK data \in Data : ClientBegin(c, "create", 0, data, Nothing)
  BY BeginCreateIs
<1>2. 0 \in 0 .. MaxDeployments
  BY DeploymentBounds
<1> QED BY <1>1, <1>2, ClientBegins DEF DataOps, WriteOps

\* The requests that write data of a row.
LEMMA BeginWriteOK ==
  ASSUME DepInv, NEW c \in Clients, NEW op \in WriteOps, NEW d \in DeploymentIds, Mutable(d),
         NEW data \in Data, ClientBegin(c, op, d, data, Nothing)
  PROVE  DepInv'
<1>1. d \in 0 .. MaxDeployments /\ deployment[d].exists
  BY DEF Mutable, DeploymentIds
<1>2. op \in {"run"} \cup DataOps /\ op # "create" /\ op # "run"
  BY DEF DataOps, WriteOps
<1> QED BY <1>1, <1>2, ClientBegins

LEMMA BeginUpdateIs ==
  ASSUME DepInv, IInv, NEW c \in Clients, BeginUpdateDeployment(c)
  PROVE  \E d \in DeploymentIds, data \in Data :
           /\ Mutable(d) /\ ClientBegin(c, "update", d, data, Nothing)
           /\ data.cron = deployment[d].data.cron /\ data.upcoming = Upcoming(data.cron, clock)
<1>1. PICK d \in DeploymentIds, a \in Agents, status \in {"active", "paused"}, enabled \in BOOLEAN :
        /\ Mutable(d)
        /\ LET old == deployment[d].data
               n == IF a = old.agent THEN old.version ELSE 0 IN
             \E data \in Normalized(status, a, n, old.vaults, old.cron, enabled) :
               ClientBegin(c, "update", d, data, Nothing)
  BY DEF BeginUpdateDeployment
<1> DEFINE old == deployment[d].data
           n == IF a = old.agent THEN old.version ELSE 0
<1>2. PICK data \in Normalized(status, a, n, old.vaults, old.cron, enabled) :
        ClientBegin(c, "update", d, data, Nothing)
  BY <1>1
<1>3. old.vaults \in SUBSET VaultIds /\ old.cron \in Crons \cup {Nothing}
  BY <1>1, RowTyped DEF Mutable, DepInv, Data
<1> HIDE DEF n
<1>4. data \in Data /\ data.cron = old.cron /\ data.upcoming = Upcoming(data.cron, clock)
  BY <1>2, <1>3, NormalizedTyped
<1> QED BY <1>1, <1>2, <1>4

LEMMA ToggleIs ==
  ASSUME DepInv, NEW d \in DeploymentIds, Mutable(d), NEW status \in {"active", "paused"}
  PROVE  LET data == [deployment[d].data EXCEPT !.status = status] IN
           /\ data \in Data /\ data.status = status
           /\ data.cron = deployment[d].data.cron /\ data.upcoming = deployment[d].data.upcoming
BY RowTyped DEF DepInv, Mutable, Data

LEMMA BeginPauseIs ==
  ASSUME DepInv, NEW c \in Clients, BeginPause(c)
  PROVE  \E d \in DeploymentIds, data \in Data :
           /\ Mutable(d) /\ data.status = "paused" /\ ClientBegin(c, "pause", d, data, Nothing)
           /\ data.cron = deployment[d].data.cron /\ data.upcoming = deployment[d].data.upcoming
BY ToggleIs DEF BeginPause

LEMMA BeginUnpauseIs ==
  ASSUME DepInv, NEW c \in Clients, BeginUnpause(c)
  PROVE  \E d \in DeploymentIds, data \in Data :
           /\ Mutable(d) /\ data.status = "active" /\ ClientBegin(c, "unpause", d, data, Nothing)
           /\ data.cron = deployment[d].data.cron /\ data.upcoming = deployment[d].data.upcoming
BY ToggleIs DEF BeginUnpause

\* A run of the API: what it creates, and what it writes of a deployment that is not paused.
LEMMA BeginRunIs ==
  ASSUME DepInv, IInv, NEW c \in Clients, BeginRun(c)
  PROVE  \E d \in DeploymentIds, data \in Data \cup {Nothing}, run \in Runs :
           /\ deployment[d].exists /\ run.by = "api" /\ run.deployment = d /\ (~ ApiSchedules => run.due = 0)
           /\ data # Nothing => /\ data.status = "active" /\ data.cron = deployment[d].data.cron
                                /\ data.upcoming = Upcoming(data.cron, clock)
           /\ ClientBegin(c, "run", d, data, run)
<1>1. PICK d \in DeploymentIds, trigger \in {"manual", "schedule"}, a \in Agents :
        LET row == deployment[d]
            n == IF a = row.data.agent THEN row.data.version ELSE agent[a].active
            dues == IF ApiSchedules /\ trigger = "schedule" THEN {0} \cup row.data.upcoming ELSE {0} IN
          /\ row.exists /\ ~Refused(row, trigger, a, n)
          /\ \E due \in dues :
               ClientBegin(c, "run", d,
                           IF trigger = "schedule" /\ row.data.cron # Nothing THEN Advanced(row) ELSE Nothing,
                           NewRun(d, "api", trigger, due, SessionFor(a, n)))
  BY DEF BeginRun
<1> DEFINE row == deployment[d]
           n == IF a = row.data.agent THEN row.data.version ELSE agent[a].active
           dues == IF ApiSchedules /\ trigger = "schedule" THEN {0} \cup row.data.upcoming ELSE {0}
           data == IF trigger = "schedule" /\ row.data.cron # Nothing THEN Advanced(row) ELSE Nothing
<1>2. row.exists /\ ~Refused(row, trigger, a, n)
  BY <1>1
<1>3. PICK due \in dues : ClientBegin(c, "run", d, data, NewRun(d, "api", trigger, due, SessionFor(a, n)))
  BY <1>1
<1>4. row \in DeploymentRows /\ row.data \in Data
  BY <1>2, RowTyped DEF DepInv
<1>5. due \in Nat
  BY <1>4 DEF Data
<1>6. ~ ApiSchedules => due = 0
  OBVIOUS
<1> HIDE DEF n, dues
<1> DEFINE run == NewRun(d, "api", trigger, due, SessionFor(a, n))
<1>7. run \in Runs /\ run.by = "api" /\ run.deployment = d /\ run.due = due
  BY <1>5, SessionTyped, RunTyped
<1>8. /\ Advanced(row) \in Data /\ Advanced(row).status = row.data.status
      /\ Advanced(row).cron = row.data.cron /\ Advanced(row).upcoming = Upcoming(row.data.cron, clock)
  BY <1>4, AdvancedTyped
<1>9. trigger = "schedule" => row.data.status = "active"
  BY <1>2, <1>4 DEF Refused, Paused, Data
<1>10. /\ data \in Data \cup {Nothing}
       /\ data # Nothing => /\ data.status = "active" /\ data.cron = deployment[d].data.cron
                            /\ data.upcoming = Upcoming(data.cron, clock)
  BY <1>8, <1>9
<1> HIDE DEF data, run
<1> QED BY <1>2, <1>3, <1>6, <1>7, <1>10 DEF run

LEMMA BeginOK ==
  ASSUME DepInv, IInv, NEW c \in Clients,
         \/ BeginCreateDeployment(c) \/ BeginUpdateDeployment(c) \/ BeginPause(c) \/ BeginUnpause(c) \/ BeginRun(c)
  PROVE  DepInv'
<1>1. CASE BeginCreateDeployment(c)
  BY <1>1, BeginCreateOK
<1>2. CASE BeginUpdateDeployment(c)
  BY <1>2, BeginUpdateIs, BeginWriteOK DEF WriteOps
<1>3. CASE BeginPause(c)
  BY <1>3, BeginPauseIs, BeginWriteOK DEF WriteOps
<1>4. CASE BeginUnpause(c)
  BY <1>4, BeginUnpauseIs, BeginWriteOK DEF WriteOps
<1>5. CASE BeginRun(c)
  <2>1. PICK d \in DeploymentIds, data \in Data \cup {Nothing}, run \in Runs :
          deployment[d].exists /\ run.by = "api" /\ ClientBegin(c, "run", d, data, run)
    BY <1>5, BeginRunIs
  <2>2. d \in 0 .. MaxDeployments
    BY DEF DeploymentIds
  <2> QED BY <2>1, <2>2, ClientBegins DEF DataOps, WriteOps
<1> QED BY <1>1, <1>2, <1>3, <1>4, <1>5

-----------------------------------------------------------------------------
(* Requests that end. *)

LEMMA RequestFacts ==
  ASSUME DepInv, NEW c \in Clients
  PROVE  client[c] \in AnyRequest /\ ClientOK(client[c], deployment)
BY DEF DepInv, RequestsTyped

\* A request ends and leaves every row of a deployment in existence.
LEMMA ClientEnds ==
  ASSUME DepInv, NEW c \in Clients, NEW op, ClientEnd(c, op),
         deployment' \in [DeploymentIds -> RowsMaybe], RowsStay, runs' \in Seq(Runs)
  PROVE  DepInv'
<1>1. client' = [client EXCEPT ![c] = Quiet] /\ UNCHANGED <<clock, environment, tick>>
  BY DEF ClientEnd
<1>2. RowsTyped'
  BY <1>1 DEF DepInv, RowsTyped
<1> QED BY <1>1, <1>2, QuietOK, ClientMoves

LEMMA EndCreateOK ==
  ASSUME DepInv, NEW c \in Clients, EndCreateDeployment(c)
  PROVE  DepInv'
<1>1. ClientEnd(c, "create") /\ client[c].op = "create" /\ runs' = runs
  BY DEF EndCreateDeployment, ClientEnd
<1>2. client[c].data \in Data
  BY <1>1, RequestFacts DEF ClientOK, DataOps
<1> DEFINE row == [exists |-> TRUE, archived |-> FALSE, status |-> client[c].data.status, data |-> client[c].data]
<1>3. row \in DeploymentRows
  BY <1>2 DEF DeploymentRows, Data
<1>4. PICK d \in DeploymentIds : deployment' = [deployment EXCEPT ![d] = row]
  BY DEF EndCreateDeployment
<1>5. row.exists
  OBVIOUS
<1> HIDE DEF row
<1>6. deployment' \in [DeploymentIds -> RowsMaybe] /\ RowsStay
  BY <1>3, <1>4, <1>5 DEF DepInv, RowsTyped, RowsMaybe, RowsStay
<1>7. runs' \in Seq(Runs)
  BY <1>1 DEF DepInv, RowsTyped
<1> QED BY <1>1, <1>6, <1>7, ClientEnds

\* An update, a pause or an unpause writes its row, and no other.
LEMMA RowWritten ==
  ASSUME DepInv, NEW c \in Clients, NEW op \in WriteOps, client[c].op = op, NEW data \in Data, WriteRow(c, data)
  PROVE  LET d == client[c].id IN
           /\ d \in DeploymentIds /\ deployment[d] \in DeploymentRows
           /\ client[c].read \in DeploymentRows /\ client[c].data \in Data
           /\ deployment'[d] \in DeploymentRows
           /\ deployment'[d].data = data /\ deployment'[d].archived = deployment[d].archived
           /\ deployment'[d].status = IF client[c].data.status = client[c].read.status
                                        THEN deployment[d].status ELSE client[c].data.status
           /\ \A e \in DeploymentIds \ {d} : deployment'[e] = deployment[e]
           /\ deployment' \in [DeploymentIds -> RowsMaybe] /\ RowsStay
<1> DEFINE d == client[c].id
           status == IF client[c].data.status = client[c].read.status
                       THEN deployment[d].status ELSE client[c].data.status
           row == [deployment[d] EXCEPT !.data = data, !.status = status]
<1>1. d \in DeploymentIds /\ deployment[d].exists /\ client[c].read \in DeploymentRows /\ client[c].data \in Data
  BY RequestFacts DEF ClientOK, WriteOps, DataOps
<1>2. deployment[d] \in DeploymentRows
  BY <1>1, RowTyped DEF DepInv
<1>3. status \in {"active", "paused", "archived"}
  BY <1>1, <1>2 DEF DeploymentRows, Data
<1>4. deployment' = [deployment EXCEPT ![d] = row]
  BY <1>1 DEF WriteRow, DepInv, RowsTyped
<1> HIDE DEF status
<1>5. row \in DeploymentRows /\ row.data = data /\ row.archived = deployment[d].archived /\ row.status = status
  BY <1>2, <1>3 DEF DeploymentRows
<1>6. row.exists
  BY <1>5 DEF DeploymentRows
<1> HIDE DEF row
<1>7. deployment' \in [DeploymentIds -> RowsMaybe] /\ RowsStay
  BY <1>1, <1>4, <1>5, <1>6 DEF DepInv, RowsTyped, RowsMaybe, RowsStay
<1>8. deployment'[d] = row /\ \A e \in DeploymentIds \ {d} : deployment'[e] = deployment[e]
  BY <1>1, <1>4 DEF DepInv, RowsTyped
<1> QED BY <1>1, <1>2, <1>5, <1>7, <1>8 DEF status

\* The data that each of them writes.
EndWrite(c, op, data) ==
  /\ ClientEnd(c, op) /\ WriteRow(c, data)
  /\ op = "update" => data = client[c].data
  /\ op \in {"pause", "unpause"} => data = Toggled(c)

Ends(c) == EndUpdateDeployment(c) \/ EndPause(c) \/ EndUnpause(c)

LEMMA EndWriteIs ==
  ASSUME DepInv, NEW c \in Clients, Ends(c)
  PROVE  \E op \in WriteOps, data \in Data : client[c].op = op /\ EndWrite(c, op, data)
<1>1. CASE EndUpdateDeployment(c)
  <2>1. client[c].op = "update" /\ EndWrite(c, "update", client[c].data)
    BY <1>1 DEF EndUpdateDeployment, ClientEnd, EndWrite
  <2>2. client[c].data \in Data
    BY <2>1, RequestFacts DEF ClientOK, DataOps
  <2> QED BY <2>1, <2>2 DEF WriteOps
<1>2. ASSUME NEW op \in {"pause", "unpause"}, ClientEnd(c, op), WriteRow(c, Toggled(c))
      PROVE  client[c].op = op /\ EndWrite(c, op, Toggled(c)) /\ Toggled(c) \in Data
  <2>1. client[c].op = op
    BY <1>2 DEF ClientEnd
  <2>2. client[c].data \in Data /\ client[c].id \in DeploymentIds /\ deployment[client[c].id].exists
    BY <2>1, RequestFacts DEF ClientOK, DataOps, WriteOps
  <2>3. Toggled(c) \in Data
    BY <2>2, RowTyped DEF Toggled, DepInv
  <2> QED BY <1>2, <2>1, <2>3 DEF EndWrite
<1> QED BY <1>1, <1>2 DEF Ends, EndPause, EndUnpause, WriteOps

LEMMA EndWriteOK ==
  ASSUME DepInv, NEW c \in Clients, Ends(c) PROVE DepInv'
<1>1. PICK op \in WriteOps, data \in Data : client[c].op = op /\ EndWrite(c, op, data)
  BY EndWriteIs
<1>2. ClientEnd(c, op) /\ WriteRow(c, data) /\ runs' \in Seq(Runs)
  BY <1>1 DEF EndWrite, WriteRow, DepInv, RowsTyped
<1>3. deployment' \in [DeploymentIds -> RowsMaybe] /\ RowsStay
  BY <1>1, <1>2, RowWritten
<1> QED BY <1>2, <1>3, ClientEnds

\* A run of the API appends its row, and may write the data of its deployment.
LEMMA RunEnds ==
  ASSUME DepInv, NEW c \in Clients, EndRun(c)
  PROVE  /\ ClientEnd(c, "run") /\ client[c].op = "run"
         /\ client[c].run \in Runs /\ client[c].run.by = "api" /\ runs' = Append(runs, client[c].run)
         /\ deployment' \in [DeploymentIds -> RowsMaybe] /\ RowsStay
         /\ \A d \in DeploymentIds :
              \/ deployment'[d] = deployment[d]
              \/ /\ d = client[c].id /\ deployment[d] \in DeploymentRows /\ client[c].data # Nothing
                 /\ deployment'[d] = [deployment[d] EXCEPT !.data = client[c].data]
<1> DEFINE d == client[c].id
<1>1. ClientEnd(c, "run") /\ client[c].op = "run" /\ runs' = Append(runs, client[c].run)
  BY DEF EndRun, ClientEnd
<1>2. /\ d \in DeploymentIds /\ deployment[d].exists /\ client[c].run \in Runs /\ client[c].run.by = "api"
      /\ client[c].data \in Data \cup {Nothing}
  BY <1>1, RequestFacts DEF ClientOK, AnyRequest
<1>3. deployment[d] \in DeploymentRows
  BY <1>2, RowTyped DEF DepInv
<1>4. CASE client[c].data = Nothing
  BY <1>1, <1>2, <1>4 DEF EndRun, RanRow, DepInv, RowsTyped, RowsStay
<1>5. CASE client[c].data # Nothing
  <2> DEFINE row == [deployment[d] EXCEPT !.data = client[c].data]
  <2>1. row \in DeploymentRows
    BY <1>2, <1>3, <1>5 DEF DeploymentRows
  <2>2. row.exists
    BY <2>1 DEF DeploymentRows
  <2>3. deployment' = [deployment EXCEPT ![d] = row]
    BY <1>2, <1>5 DEF EndRun, RanRow, DepInv, RowsTyped
  <2> HIDE DEF row
  <2>4. deployment' \in [DeploymentIds -> RowsMaybe] /\ RowsStay
    BY <1>2, <2>1, <2>2, <2>3 DEF DepInv, RowsTyped, RowsMaybe, RowsStay
  <2>5. \A e \in DeploymentIds : deployment'[e] = IF e = d THEN row ELSE deployment[e]
    BY <1>2, <2>3 DEF DepInv, RowsTyped
  <2> QED BY <1>1, <1>2, <1>3, <1>5, <2>4, <2>5 DEF row
<1> QED BY <1>4, <1>5

LEMMA EndRunOK ==
  ASSUME DepInv, NEW c \in Clients, EndRun(c) PROVE DepInv'
<1>1. runs' \in Seq(Runs)
  BY RunEnds DEF DepInv, RowsTyped
<1> QED BY <1>1, RunEnds, ClientEnds

-----------------------------------------------------------------------------
(* Ticks. *)

LEMMA TickFacts ==
  ASSUME DepInv, NEW p \in Schedulers
  PROVE  /\ tick[p] \in AnyTick /\ TickOK(tick[p], deployment)
         /\ tick[p].pending \in Seq(Entries)
         /\ \A i \in DOMAIN tick[p].pending :
              /\ tick[p].pending[i].data \in Data /\ tick[p].pending[i].run \in Runs
              /\ tick[p].pending[i].run.deployment \in DeploymentIds
<1>1. tick[p] \in AnyTick /\ TickOK(tick[p], deployment)
  BY DEF DepInv, TicksTyped
<1>2. tick[p].pending \in Seq(Entries)
  BY <1>1 DEF AnyTick
<1>3. \A i \in DOMAIN tick[p].pending : tick[p].pending[i] \in Entries
  BY <1>2
<1> QED BY <1>1, <1>2, <1>3 DEF Entries, Runs

LEMMA RowsSame ==
  ASSUME DepInv, UNCHANGED <<clock, environment, deployment, runs>>
  PROVE  RowsTyped' /\ RowsStay
BY DEF DepInv, RowsTyped, RowsStay

LEMMA TickBeginOK ==
  ASSUME DepInv, NEW p \in Schedulers, TickBegin(p) PROVE DepInv'
<1> DEFINE found == [d \in DeploymentIds |-> IF Mutable(d) THEN deployment[d] ELSE NoDeployment]
           t == [on |-> TRUE, now |-> clock, next |-> MaxDeployments, pending |-> <<>>, listed |-> found]
<1>1. tick' = [tick EXCEPT ![p] = t] /\ UNCHANGED <<clock, environment, deployment, runs, client>>
  BY DEF TickBegin
<1>2. found \in [DeploymentIds -> RowsMaybe] /\ \A d \in DeploymentIds : found[d].exists => deployment[d].exists
  BY DEF DepInv, RowsTyped, RowsMaybe, NoDeployment
<1> HIDE DEF found
<1>3. <<>> \in Seq(Entries) /\ DOMAIN <<>> = {}
  OBVIOUS
<1>4. clock \in Nat
  BY DeploymentBounds DEF DepInv, RowsTyped
<1>5. t \in AnyTick
  BY <1>2, <1>3, <1>4, DeploymentBounds DEF AnyTick
<1>6. TickOK(t, deployment)
  BY <1>2, <1>3 DEF TickOK
<1> HIDE DEF t
<1> QED BY <1>1, <1>5, <1>6, RowsSame, TickMoves

\* The deployment a tick looks at.
LEMMA NextFacts ==
  ASSUME DepInv, NEW p \in Schedulers, Ticking(p)
  PROVE  /\ tick[p].next \in DeploymentIds /\ tick[p].next - 1 \in 0 .. MaxDeployments
         /\ TickDues(p) # {} =>
              /\ tick[p].listed[tick[p].next] \in DeploymentRows
              /\ deployment[tick[p].next].exists
              /\ TickDues(p) \subseteq Nat
              /\ tick[p].listed[tick[p].next].exists
              /\ \A due \in TickDues(p) :
                   /\ ~ RunExists(tick[p].next, due)
                   /\ due \in tick[p].listed[tick[p].next].data.upcoming /\ due <= tick[p].now
<1> DEFINE d == tick[p].next
           row == tick[p].listed[d]
<1>1. d \in DeploymentIds /\ d - 1 \in 0 .. MaxDeployments
  BY TickFacts, DeploymentBounds DEF Ticking, AnyTick, DeploymentIds
<1>2. tick[p].listed \in [DeploymentIds -> RowsMaybe] /\ (row.exists => deployment[d].exists)
  BY <1>1, TickFacts DEF Ticking, TickOK
<1>3. ASSUME TickDues(p) # {} PROVE row.exists /\ row \in DeploymentRows /\ TickDues(p) = DueTimes(d, row, tick[p].now)
  <2>1. row.exists
    BY <1>3 DEF TickDues
  <2>2. row \in DeploymentRows
    BY <1>1, <1>2, <2>1 DEF RowsMaybe, NoDeployment
  <2> QED BY <2>1, <2>2 DEF TickDues
<1>4. ASSUME TickDues(p) # {} PROVE TickDues(p) \subseteq Nat
  <2>1. row.data.upcoming \in SUBSET Nat
    BY <1>3, <1>4 DEF DeploymentRows, Data
  <2>2. DueTimes(d, row, tick[p].now) \subseteq row.data.upcoming
    BY DEF DueTimes, Candidates
  <2> QED BY <1>3, <1>4, <2>1, <2>2
<1>5. ASSUME TickDues(p) # {}
      PROVE  \A due \in TickDues(p) : ~ RunExists(d, due) /\ due \in row.data.upcoming /\ due <= tick[p].now
  BY <1>3, <1>5 DEF DueTimes, Candidates
<1> QED BY <1>1, <1>2, <1>3, <1>4, <1>5

LEMMA TickSkipOK ==
  ASSUME DepInv, NEW p \in Schedulers, TickSkip(p) PROVE DepInv'
<1> DEFINE t == [tick[p] EXCEPT !.next = @ - 1]
<1>1. tick' = [tick EXCEPT ![p] = t] /\ UNCHANGED <<clock, environment, deployment, runs, client>> /\ Ticking(p)
  BY DEF TickSkip, DepInv, TicksTyped
<1>2. t \in AnyTick /\ t.pending = tick[p].pending /\ t.on = tick[p].on /\ t.listed = tick[p].listed
        /\ t.next = tick[p].next - 1
  BY <1>1, NextFacts, TickFacts DEF AnyTick
<1> HIDE DEF t
<1>3. \A i \in DOMAIN tick[p].pending : tick[p].pending[i].run.deployment > tick[p].next - 1
  <2>1. tick[p].next \in Int
    BY <1>1, NextFacts DEF DeploymentIds
  <2> QED BY <2>1, TickFacts DEF TickOK, DeploymentIds
<1>4. TickOK(t, deployment)
  BY <1>2, <1>3, TickFacts DEF TickOK
<1> QED BY <1>1, <1>2, <1>4, RowsSame, TickMoves

\* A deployment is run: what the tick adds to its pending writes.
LEMMA TickRunIs ==
  ASSUME DepInv, IInv, NEW p \in Schedulers, TickRun(p)
  PROVE  \E e \in Entries :
           /\ tick' = [tick EXCEPT ![p] = [tick[p] EXCEPT !.next = @ - 1, !.pending = Append(@, e)]]
           /\ e.run.by = "tick" /\ e.run.trigger = "schedule" /\ e.run.deployment = tick[p].next
           /\ ~ RunExists(e.run.deployment, e.run.due) /\ e.data.status = "active"
           /\ tick[p].listed[tick[p].next].exists /\ tick[p].listed[tick[p].next] \in DeploymentRows
           /\ e.run.due \in tick[p].listed[tick[p].next].data.upcoming /\ e.run.due <= tick[p].now
           /\ e.data.cron = tick[p].listed[tick[p].next].data.cron
           /\ e.data.upcoming = Upcoming(e.data.cron, clock)
           /\ Ticking(p) /\ deployment[tick[p].next].exists
           /\ UNCHANGED <<clock, environment, deployment, runs, client>>
<1> DEFINE d == tick[p].next
           row == tick[p].listed[d]
           run(due) == NewRun(d, "tick", "schedule", due, SessionFor(row.data.agent, row.data.version))
           e(due) == [data |-> Advanced(row), run |-> run(due)]
<1>1. Ticking(p) /\ UNCHANGED <<clock, environment, deployment, runs, client>>
  BY DEF TickRun
<1>2. PICK due \in TickDues(p) :
        /\ ~Refused(row, "schedule", row.data.agent, row.data.version)
        /\ tick' = [tick EXCEPT ![p].next = @ - 1, ![p].pending = Append(@, e(due))]
  BY DEF TickRun
<1>3. /\ d \in DeploymentIds /\ row \in DeploymentRows /\ deployment[d].exists /\ due \in Nat
      /\ ~ RunExists(d, due) /\ row.exists /\ due \in row.data.upcoming /\ due <= tick[p].now
  BY <1>1, <1>2, NextFacts
<1>4. row.data \in Data /\ row.data.agent \in Agents
  BY <1>3 DEF DeploymentRows, Data
<1>5. /\ Advanced(row) \in Data /\ Advanced(row).status = "active"
      /\ Advanced(row).cron = row.data.cron /\ Advanced(row).upcoming = Upcoming(row.data.cron, clock)
  BY <1>2, <1>3, <1>4, AdvancedTyped DEF Refused, Paused, Data
<1>6. SessionFor(row.data.agent, row.data.version) \in {Nothing} \cup Pins
  BY <1>4, SessionTyped
<1>7. /\ run(due) \in Runs /\ run(due).by = "tick" /\ run(due).trigger = "schedule"
      /\ run(due).deployment = d /\ run(due).due = due
  <2> DEFINE s == SessionFor(row.data.agent, row.data.version)
  <2>1. s \in {Nothing} \cup Pins /\ run(due) = NewRun(d, "tick", "schedule", due, s)
    BY <1>6
  <2> HIDE DEF s, run
  <2> QED BY <1>3, <2>1, RunTyped
<1> HIDE DEF run
<1>8. e(due) \in Entries /\ e(due).run = run(due) /\ e(due).data = Advanced(row)
  BY <1>5, <1>7 DEF Entries
<1> HIDE DEF e
<1>9. tick' = [tick EXCEPT ![p] = [tick[p] EXCEPT !.next = @ - 1, !.pending = Append(@, e(due))]]
  BY <1>2 DEF DepInv, TicksTyped
<1> QED BY <1>1, <1>3, <1>5, <1>7, <1>8, <1>9

\* What is at an index of a sequence that grew by one.
LEMMA Appended ==
  ASSUME NEW S, NEW q \in Seq(S), NEW e \in S
  PROVE  /\ Append(q, e) \in Seq(S)
         /\ \A i \in DOMAIN Append(q, e) :
              \/ i \in DOMAIN q /\ Append(q, e)[i] = q[i]
              \/ i = Len(q) + 1 /\ i \notin DOMAIN q /\ Append(q, e)[i] = e
OBVIOUS

LEMMA TickRunOK ==
  ASSUME DepInv, IInv, NEW p \in Schedulers, TickRun(p) PROVE DepInv'
<1>1. PICK e \in Entries :
        /\ tick' = [tick EXCEPT ![p] = [tick[p] EXCEPT !.next = @ - 1, !.pending = Append(@, e)]]
        /\ e.run.by = "tick" /\ e.run.deployment = tick[p].next
        /\ Ticking(p) /\ deployment[tick[p].next].exists
        /\ UNCHANGED <<clock, environment, deployment, runs, client>>
  BY TickRunIs
<1> DEFINE q == tick[p].pending
           t == [tick[p] EXCEPT !.next = @ - 1, !.pending = Append(@, e)]
<1>2. q \in Seq(Entries) /\ tick[p].next \in DeploymentIds /\ tick[p].next - 1 \in 0 .. MaxDeployments
  BY <1>1, TickFacts, NextFacts
<1>3. /\ t \in AnyTick /\ t.pending = Append(q, e) /\ t.on = tick[p].on /\ t.listed = tick[p].listed
      /\ t.next = tick[p].next - 1
  <2>1. Append(q, e) \in Seq(Entries)
    BY <1>2, Appended
  <2> QED BY <1>2, <2>1, TickFacts DEF AnyTick
<1> HIDE DEF t
<1>4. \A i \in DOMAIN Append(q, e) :
        \/ i \in DOMAIN q /\ Append(q, e)[i] = q[i]
        \/ i = Len(q) + 1 /\ i \notin DOMAIN q /\ Append(q, e)[i] = e
  BY <1>2, Appended
<1>5. \A i \in DOMAIN q : /\ q[i].run.by = "tick" /\ q[i].run.deployment > tick[p].next
                          /\ q[i].run.deployment \in DeploymentIds /\ deployment[q[i].run.deployment].exists
  BY TickFacts DEF TickOK
<1>6. \A i \in DOMAIN Append(q, e) :
        LET run == Append(q, e)[i].run IN
          run.by = "tick" /\ run.deployment > tick[p].next - 1 /\ deployment[run.deployment].exists
  BY <1>1, <1>2, <1>4, <1>5 DEF DeploymentIds
<1>7. \A i, j \in DOMAIN Append(q, e) : Append(q, e)[i].run.deployment = Append(q, e)[j].run.deployment => i = j
  <2>1. \A i \in DOMAIN q : q[i].run.deployment # e.run.deployment
    BY <1>1, <1>2, <1>5 DEF DeploymentIds
  <2>2. \A i, j \in DOMAIN q : q[i].run.deployment = q[j].run.deployment => i = j
    BY TickFacts DEF TickOK
  <2> QED BY <1>4, <2>1, <2>2
<1>8. TickOK(t, deployment)
  BY <1>3, <1>6, <1>7, TickFacts DEF TickOK
<1> QED BY <1>1, <1>3, <1>8, RowsSame, TickMoves DEF t

\* The rows as a commit of a tick leaves them.
LEMMA PendingRowIs ==
  ASSUME DepInv, NEW p \in Schedulers, NEW d \in DeploymentIds
  PROVE  \/ /\ PendingRow(p, d) = deployment[d]
            /\ \A i \in DOMAIN tick[p].pending : tick[p].pending[i].run.deployment # d
         \/ \E i \in DOMAIN tick[p].pending :
              /\ tick[p].pending[i].run.deployment = d /\ deployment[d] \in DeploymentRows
              /\ PendingRow(p, d) = [deployment[d] EXCEPT !.data = tick[p].pending[i].data]
              /\ PendingRow(p, d) \in DeploymentRows
<1> DEFINE mine == {i \in DOMAIN tick[p].pending : tick[p].pending[i].run.deployment = d}
<1>1. CASE mine = {}
  BY <1>1 DEF PendingRow
<1>2. CASE mine # {}
  <2> DEFINE i == CHOOSE i \in mine : TRUE
  <2>1. i \in mine
    BY <1>2
  <2>2. PendingRow(p, d) = [deployment[d] EXCEPT !.data = tick[p].pending[i].data]
    BY <1>2 DEF PendingRow
  <2> HIDE DEF i
  <2>3. i \in DOMAIN tick[p].pending /\ tick[p].pending[i].run.deployment = d
    BY <2>1
  <2>4. tick[p].pending[i].data \in Data /\ deployment[d].exists
    BY <2>3, TickFacts DEF TickOK
  <2>5. deployment[d] \in DeploymentRows
    BY <2>4, RowTyped DEF DepInv
  <2>6. PendingRow(p, d) \in DeploymentRows
    BY <2>2, <2>4, <2>5 DEF DeploymentRows
  <2> QED BY <2>2, <2>3, <2>5, <2>6
<1> QED BY <1>1, <1>2

LEMMA PendingRowKept ==
  ASSUME DepInv, NEW p \in Schedulers, NEW d \in DeploymentIds
  PROVE  /\ PendingRow(p, d) \in RowsMaybe /\ (deployment[d].exists => PendingRow(p, d).exists)
         /\ PendingRow(p, d).status = deployment[d].status /\ PendingRow(p, d).archived = deployment[d].archived
<1>1. CASE PendingRow(p, d) = deployment[d]
  BY <1>1 DEF DepInv, RowsTyped
<1>2. CASE \E i \in DOMAIN tick[p].pending :
             /\ deployment[d] \in DeploymentRows
             /\ PendingRow(p, d) = [deployment[d] EXCEPT !.data = tick[p].pending[i].data]
             /\ PendingRow(p, d) \in DeploymentRows
  BY <1>2 DEF RowsMaybe, DeploymentRows
<1> QED BY <1>1, <1>2, PendingRowIs

\* The runs as a commit of a tick leaves them.
LEMMA PendingRunsAre ==
  ASSUME DepInv, NEW p \in Schedulers
  PROVE  /\ PendingRuns(p) \in Seq(Runs)
         /\ \A k \in DOMAIN PendingRuns(p) :
              \/ k \in DOMAIN runs /\ PendingRuns(p)[k] = runs[k]
              \/ /\ k \notin DOMAIN runs /\ k - Len(runs) \in DOMAIN tick[p].pending
                 /\ PendingRuns(p)[k] = tick[p].pending[k - Len(runs)].run
<1> DEFINE q == tick[p].pending
           new == [i \in DOMAIN q |-> q[i].run]
<1>1. q \in Seq(Entries) /\ DOMAIN q = 1 .. Len(q) /\ Len(q) \in Nat /\ \A i \in DOMAIN q : q[i].run \in Runs
  BY TickFacts
<1>2. new \in [1 .. Len(q) -> Runs] /\ \A i \in DOMAIN q : new[i] = q[i].run
  BY <1>1
<1> HIDE DEF new
<1>3. new \in Seq(Runs) /\ Len(new) = Len(q)
  BY <1>1, <1>2
<1>4. runs \in Seq(Runs)
  BY DEF DepInv, RowsTyped
<1>5. PendingRuns(p) = runs \o new
  BY DEF PendingRuns, new
<1> QED BY <1>1, <1>2, <1>3, <1>4, <1>5

\* The commit of a tick, and what it leaves behind when an agent is gone.
LEMMA TickEnds ==
  ASSUME DepInv, NEW p \in Schedulers, TickCommit(p) \/ TickAgentGone(p)
  PROVE  /\ tick' = [tick EXCEPT ![p] = NoTick] /\ UNCHANGED <<clock, environment, client>>
         /\ runs' = PendingRuns(p)
         /\ \A d \in DeploymentIds :
              \/ deployment'[d] = PendingRow(p, d)
              \/ /\ deployment[d].exists /\ deployment'[d] = ArchivedRow(deployment[d])
                 /\ \A i \in DOMAIN tick[p].pending : tick[p].pending[i].run.deployment # d
         /\ deployment' \in [DeploymentIds -> RowsMaybe] /\ RowsStay
<1>1. CASE TickCommit(p)
  <2>1. /\ deployment' = [d \in DeploymentIds |-> PendingRow(p, d)] /\ runs' = PendingRuns(p)
        /\ tick' = [tick EXCEPT ![p] = NoTick] /\ UNCHANGED <<clock, environment, client>>
    BY <1>1 DEF TickCommit
  <2> QED BY <2>1, PendingRowKept DEF RowsStay
<1>2. CASE TickAgentGone(p)
  <2>1. /\ deployment' = [d \in DeploymentIds |->
                            IF d = tick[p].next THEN ArchivedRow(deployment[d]) ELSE PendingRow(p, d)]
        /\ runs' = PendingRuns(p)
        /\ tick' = [tick EXCEPT ![p] = NoTick] /\ UNCHANGED <<clock, environment, client>>
    BY <1>2 DEF TickAgentGone
  <2>2. tick[p].next \in DeploymentIds /\ deployment[tick[p].next].exists
    BY <1>2, NextFacts DEF TickAgentGone
  <2>3. ArchivedRow(deployment[tick[p].next]) \in RowsMaybe /\ ArchivedRow(deployment[tick[p].next]).exists
    <3>1. deployment[tick[p].next] \in DeploymentRows
      BY <2>2, RowTyped DEF DepInv
    <3> QED BY <3>1 DEF ArchivedRow, DeploymentRows, RowsMaybe
  <2>4. \A i \in DOMAIN tick[p].pending : tick[p].pending[i].run.deployment # tick[p].next
    <3>1. tick[p].next \in Int
      BY <2>2 DEF DeploymentIds
    <3> QED BY <3>1, TickFacts DEF TickOK, DeploymentIds
  <2> QED BY <2>1, <2>2, <2>3, <2>4, PendingRowKept DEF RowsStay
<1> QED BY <1>1, <1>2

LEMMA TickOKStep ==
  ASSUME DepInv, IInv, NEW p \in Schedulers, TickStep(p) PROVE DepInv'
<1>1. CASE TickCommit(p) \/ TickAgentGone(p)
  <2>1. RowsTyped'
    BY <1>1, TickEnds, PendingRunsAre DEF DepInv, RowsTyped
  <2> QED BY <1>1, <2>1, TickEnds, NoTickOK, TickMoves
<1>2. CASE TickRefused(p)
  <2>1. tick' = [tick EXCEPT ![p] = NoTick] /\ UNCHANGED <<clock, environment, deployment, runs, client>>
    BY <1>2 DEF TickRefused
  <2> QED BY <2>1, RowsSame, NoTickOK, TickMoves
<1> QED BY <1>1, <1>2, TickBeginOK, TickSkipOK, TickRunOK DEF TickStep

-----------------------------------------------------------------------------
(* Rows, requests and ticks keep their types. *)

\* archive_resource.
LEMMA ArchiveIs ==
  ASSUME DepInv, ArchiveDeployment \/ RunWithoutAgent
  PROVE  /\ UNCHANGED <<clock, environment, runs, client, tick>>
         /\ \A d \in DeploymentIds :
              \/ deployment'[d] = deployment[d]
              \/ deployment[d].exists /\ deployment'[d] = ArchivedRow(deployment[d])
         /\ deployment' \in [DeploymentIds -> RowsMaybe] /\ RowsStay
<1>1. PICK d \in DeploymentIds : deployment[d].exists /\ deployment' = [deployment EXCEPT ![d] = ArchivedRow(@)]
  BY DEF ArchiveDeployment, RunWithoutAgent, Mutable
<1>2. UNCHANGED <<clock, environment, runs, client, tick>>
  BY DEF ArchiveDeployment, RunWithoutAgent
<1>3. ArchivedRow(deployment[d]) \in RowsMaybe /\ ArchivedRow(deployment[d]).exists
  <2>1. deployment[d] \in DeploymentRows
    BY <1>1, RowTyped DEF DepInv
  <2> QED BY <2>1 DEF ArchivedRow, DeploymentRows, RowsMaybe
<1>4. \A e \in DeploymentIds : deployment'[e] = IF e = d THEN ArchivedRow(deployment[d]) ELSE deployment[e]
  BY <1>1 DEF DepInv, RowsTyped
<1>5. deployment' \in [DeploymentIds -> RowsMaybe] /\ RowsStay
  BY <1>1, <1>3, <1>4 DEF DepInv, RowsTyped, RowsStay
<1> QED BY <1>1, <1>2, <1>4, <1>5

\* Neither rows of deployments, nor requests on them, nor ticks move: time passes, the
\* environment is closed, an agent or a vault is written.
Elsewhere ==
  \/ Pass \/ CloseEnvironment
  \/ AgentWrites /\ UNCHANGED <<vaultVars, depVars>>
  \/ (ArchiveVault \/ DeleteVault) /\ UNCHANGED <<agentVars, depVars>>
  \/ UNCHANGED allVars

LEMMA ElsewhereIs ==
  ASSUME DepInv, Elsewhere
  PROVE  UNCHANGED <<deployment, runs, client, tick>> /\ DepInv'
<1>1. UNCHANGED <<deployment, runs, client, tick>>
  BY DEF Elsewhere, Pass, CloseEnvironment, depVars, allVars
<1>2. clock' \in 0 .. MaxClock
  BY DeploymentBounds DEF Elsewhere, Pass, CloseEnvironment, depVars, allVars, DepInv, RowsTyped
<1>3. environment' \in {"active", "closed"}
  BY DEF Elsewhere, Pass, CloseEnvironment, depVars, allVars, DepInv, RowsTyped
<1> QED BY <1>1, <1>2, <1>3 DEF DepInv, RowsTyped, RequestsTyped, TicksTyped

Begins(c) ==
  \/ BeginCreateDeployment(c) \/ BeginUpdateDeployment(c) \/ BeginPause(c) \/ BeginUnpause(c) \/ BeginRun(c)

\* Every step is one of these.
LEMMA StepCases ==
  ASSUME [DeploymentsNext]_allVars
  PROVE  \/ \E c \in Clients : Begins(c) \/ EndCreateDeployment(c) \/ Ends(c) \/ EndRun(c)
         \/ \E p \in Schedulers : TickStep(p)
         \/ ArchiveDeployment \/ RunWithoutAgent \/ Elsewhere
BY DEF DeploymentsNext, DeploymentWrites, Begins, Ends, Elsewhere

LEMMA BeginLeaves ==
  ASSUME NEW c \in Clients, Begins(c)
  PROVE  UNCHANGED <<clock, environment, deployment, runs, tick, registryVars>>
<1>1. CASE BeginCreateDeployment(c)
  BY <1>1 DEF BeginCreateDeployment, ClientBegin
<1>2. CASE BeginUpdateDeployment(c)
  BY <1>2 DEF BeginUpdateDeployment, ClientBegin
<1>3. CASE BeginPause(c) \/ BeginUnpause(c)
  BY <1>3 DEF BeginPause, BeginUnpause, ClientBegin
<1>4. CASE BeginRun(c)
  BY <1>4 DEF BeginRun, ClientBegin
<1> QED BY <1>1, <1>2, <1>3, <1>4 DEF Begins

LEMMA EndLeaves ==
  ASSUME NEW c \in Clients, EndCreateDeployment(c) \/ Ends(c) \/ EndRun(c)
  PROVE  /\ UNCHANGED <<clock, environment, tick, registryVars>>
         /\ EndRun(c) \/ UNCHANGED runs
BY DEF EndCreateDeployment, Ends, EndUpdateDeployment, EndPause, EndUnpause, EndRun, ClientEnd, WriteRow

LEMMA TickLeaves ==
  ASSUME NEW p \in Schedulers, TickStep(p) PROVE UNCHANGED registryVars
BY DEF TickStep, TickBegin, TickSkip, TickRun, TickRefused, TickAgentGone, TickCommit

LEMMA DepStep == DepInv /\ IInv /\ [DeploymentsNext]_allVars => DepInv'
<1> SUFFICES ASSUME DepInv, IInv, [DeploymentsNext]_allVars PROVE DepInv'
  OBVIOUS
<1>1. CASE ArchiveDeployment \/ RunWithoutAgent
  <2>1. RowsTyped' /\ RowsStay /\ UNCHANGED <<client, tick>>
    BY <1>1, ArchiveIs DEF DepInv, RowsTyped
  <2>2. RequestsTyped'
    BY <2>1, ClientStays DEF DepInv, RequestsTyped
  <2>3. TicksTyped'
    BY <2>1, TickStays DEF DepInv, TicksTyped
  <2> QED BY <2>1, <2>2, <2>3 DEF DepInv
<1> QED BY <1>1, StepCases, BeginOK, EndCreateOK, EndWriteOK, EndRunOK, TickOKStep, ElsewhereIs DEF Begins

LEMMA DepStart == DeploymentsInit => DepInv
<1> SUFFICES ASSUME DeploymentsInit PROVE DepInv
  OBVIOUS
<1>1. RowsTyped
  <2>1. <<>> \in Seq(Runs)
    OBVIOUS
  <2> QED BY <2>1, DeploymentBounds DEF DeploymentsInit, DeploymentsStart, RowsTyped, RowsMaybe
<1>2. RequestsTyped
  BY QuietOK DEF DeploymentsInit, DeploymentsStart, RequestsTyped
<1>3. TicksTyped
  BY NoTickOK DEF DeploymentsInit, DeploymentsStart, TicksTyped
<1> QED BY <1>1, <1>2, <1>3 DEF DepInv

\* The agents that deployments name keep what they keep alone.
LEMMA AgentsBeside == IInv /\ [DeploymentsNext]_allVars => IInv'
<1> SUFFICES ASSUME IInv, [DeploymentsNext]_allVars PROVE IInv'
  OBVIOUS
<1>1. [AgentsNext]_agentVars
  <2>1. CASE \E c \in Clients : Begins(c) \/ EndCreateDeployment(c) \/ Ends(c) \/ EndRun(c)
    BY <2>1, BeginLeaves, EndLeaves DEF registryVars
  <2>2. CASE \E p \in Schedulers : TickStep(p)
    BY <2>2, TickLeaves DEF registryVars
  <2>3. CASE ArchiveDeployment \/ RunWithoutAgent \/ Elsewhere
    BY <2>3 DEF ArchiveDeployment, RunWithoutAgent, Elsewhere, Pass, CloseEnvironment, AgentsNext, registryVars, allVars
  <2> QED BY <2>1, <2>2, <2>3, StepCases
<1> QED BY <1>1, StepKeeps

LEMMA DepAlways == DeploymentsSpec => [](DepInv /\ IInv)
<1>1. DeploymentsInit => DepInv /\ IInv
  BY DepStart, InitHolds DEF DeploymentsInit
<1>2. DepInv /\ IInv /\ [DeploymentsNext]_allVars => DepInv' /\ IInv'
  BY DepStep, AgentsBeside
<1> QED BY <1>1, <1>2, PTL DEF DeploymentsSpec

\* Rows, requests, runs and what a tick has pending keep their types, whatever requests and
\* ticks overlap: app/routers/generic_resources.py.
THEOREM DeploymentsTyped == DeploymentsSpec => []DeploymentsTypeOK
<1>1. DepInv => DeploymentsTypeOK
  <2> SUFFICES ASSUME DepInv PROVE DeploymentsTypeOK
    OBVIOUS
  <2>1. \A c \in Clients : client[c].run \in {Nothing} \cup Runs
    BY RequestFacts DEF AnyRequest
  <2>2. \A i \in DOMAIN runs : runs[i] \in Runs
    BY DEF DepInv, RowsTyped
  <2>3. \A p \in Schedulers : \A i \in DOMAIN tick[p].pending : tick[p].pending[i].run \in Runs
    BY TickFacts
  <2> QED BY <2>1, <2>2, <2>3 DEF DepInv, RowsTyped, RowsMaybe, DeploymentsTypeOK
<1> QED BY <1>1, DepAlways, PTL

-----------------------------------------------------------------------------
(* One run for an instant. *)

\* Two runs that ticks created for the same instant of the same schedule.
SameRun(r, s) ==
  /\ r.by = "tick" /\ s.by = "tick" /\ r.trigger = "schedule" /\ s.trigger = "schedule"
  /\ r.deployment = s.deployment /\ r.due = s.due

RunsDiffer == \A i, j \in DOMAIN runs : i # j => ~ SameRun(runs[i], runs[j])

\* What a tick has pending is no run that a tick has created.
PendingFresh ==
  \A p \in Schedulers : \A i \in DOMAIN tick[p].pending, j \in DOMAIN runs :
    ~ SameRun(tick[p].pending[i].run, runs[j])

\* Ticks do not overlap.
OneScheduler == \A p, r \in Schedulers : p = r

LEMMA RunEndsDiffer ==
  ASSUME DepInv, RunsDiffer, PendingFresh, NEW c \in Clients, EndRun(c)
  PROVE  RunsDiffer' /\ PendingFresh'
<1>1. runs' = Append(runs, client[c].run) /\ client[c].run \in Runs /\ client[c].run.by = "api" /\ tick' = tick
  BY RunEnds DEF ClientEnd
<1>2. runs \in Seq(Runs)
  BY DEF DepInv, RowsTyped
<1>3. \A i \in DOMAIN runs' :
        \/ i \in DOMAIN runs /\ runs'[i] = runs[i]
        \/ i = Len(runs) + 1 /\ runs'[i].by = "api"
  BY <1>1, <1>2, Appended
<1>4. RunsDiffer'
  BY <1>3 DEF RunsDiffer, SameRun
<1>5. PendingFresh'
  BY <1>1, <1>3 DEF PendingFresh, SameRun
<1> QED BY <1>4, <1>5

LEMMA TickRunDiffers ==
  ASSUME DepInv, IInv, RunsDiffer, PendingFresh, NEW p \in Schedulers, TickRun(p)
  PROVE  RunsDiffer' /\ PendingFresh'
<1>1. PICK e \in Entries :
        /\ tick' = [tick EXCEPT ![p] = [tick[p] EXCEPT !.next = @ - 1, !.pending = Append(@, e)]]
        /\ ~ RunExists(e.run.deployment, e.run.due) /\ runs' = runs
  BY TickRunIs
<1>2. tick'[p].pending = Append(tick[p].pending, e) /\ \A r \in Schedulers \ {p} : tick'[r] = tick[r]
  BY <1>1 DEF DepInv, TicksTyped, AnyTick
<1>3. \A j \in DOMAIN runs : ~ SameRun(e.run, runs[j])
  BY <1>1 DEF RunExists, SameRun
<1>4. \A i \in DOMAIN tick'[p].pending :
        \/ i \in DOMAIN tick[p].pending /\ tick'[p].pending[i] = tick[p].pending[i]
        \/ tick'[p].pending[i] = e
  BY <1>2, TickFacts, Appended
<1>5. PendingFresh'
  <2> SUFFICES ASSUME NEW r \in Schedulers, NEW i \in DOMAIN tick'[r].pending, NEW j \in DOMAIN runs
               PROVE  ~ SameRun(tick'[r].pending[i].run, runs[j])
    BY <1>1 DEF PendingFresh
  <2>1. CASE r = p
    BY <2>1, <1>3, <1>4 DEF PendingFresh
  <2>2. CASE r # p
    BY <2>2, <1>2 DEF PendingFresh
  <2> QED BY <2>1, <2>2
<1> QED BY <1>1, <1>5 DEF RunsDiffer

LEMMA TickEndsDiffer ==
  ASSUME DepInv, OneScheduler, RunsDiffer, PendingFresh, NEW p \in Schedulers, TickCommit(p) \/ TickAgentGone(p)
  PROVE  RunsDiffer' /\ PendingFresh'
<1> DEFINE q == tick[p].pending
<1>1. tick' = [tick EXCEPT ![p] = NoTick] /\ runs' = PendingRuns(p)
  BY TickEnds
<1>2. \A r \in Schedulers : DOMAIN tick'[r].pending = {}
  BY <1>1 DEF OneScheduler, NoTick, DepInv, TicksTyped
<1>3. PendingFresh'
  BY <1>2 DEF PendingFresh
<1>4. \A k \in DOMAIN runs' :
        \/ k \in DOMAIN runs /\ runs'[k] = runs[k]
        \/ k \notin DOMAIN runs /\ k - Len(runs) \in DOMAIN q /\ runs'[k] = q[k - Len(runs)].run
  BY <1>1, PendingRunsAre
<1>5. \A i, j \in DOMAIN q : i # j => ~ SameRun(q[i].run, q[j].run)
  BY TickFacts DEF TickOK, SameRun
<1>6. \A i \in DOMAIN q, j \in DOMAIN runs : ~ SameRun(q[i].run, runs[j]) /\ ~ SameRun(runs[j], q[i].run)
  BY DEF PendingFresh, SameRun
<1>7. \A k, l \in DOMAIN runs' : k # l => k - Len(runs) # l - Len(runs)
  <2>1. runs' \in Seq(Runs) /\ runs \in Seq(Runs)
    BY <1>1, PendingRunsAre DEF DepInv, RowsTyped
  <2>2. DOMAIN runs' = 1 .. Len(runs') /\ Len(runs) \in Nat /\ Len(runs') \in Nat
    BY <2>1
  <2> QED BY <2>2
<1>8. RunsDiffer'
  <2> SUFFICES ASSUME NEW k \in DOMAIN runs', NEW l \in DOMAIN runs', k # l PROVE ~ SameRun(runs'[k], runs'[l])
    BY DEF RunsDiffer
  <2>1. CASE k \in DOMAIN runs /\ l \in DOMAIN runs
    BY <2>1, <1>4 DEF RunsDiffer
  <2>2. CASE k \in DOMAIN runs /\ l \notin DOMAIN runs
    BY <2>2, <1>4, <1>6
  <2>3. CASE k \notin DOMAIN runs /\ l \in DOMAIN runs
    BY <2>3, <1>4, <1>6
  <2>4. CASE k \notin DOMAIN runs /\ l \notin DOMAIN runs
    BY <2>4, <1>4, <1>5, <1>7
  <2> QED BY <2>1, <2>2, <2>3, <2>4
<1> QED BY <1>3, <1>8

\* The other steps of a tick leave what is pending, or drop it.
LEMMA OtherTicks ==
  ASSUME DepInv, NEW p \in Schedulers, TickBegin(p) \/ TickSkip(p) \/ TickRefused(p)
  PROVE  /\ UNCHANGED <<clock, environment, deployment, runs, client>>
         /\ \A r \in Schedulers : tick'[r].pending \in {tick[r].pending, <<>>}
<1>1. \A r \in Schedulers \ {p} : tick'[r] = tick[r]
  BY DEF TickBegin, TickSkip, TickRefused, DepInv, TicksTyped
<1>2. tick'[p].pending \in {tick[p].pending, <<>>}
  BY DEF TickBegin, TickSkip, TickRefused, NoTick, DepInv, TicksTyped, AnyTick
<1> QED BY <1>1, <1>2 DEF TickBegin, TickSkip, TickRefused

LEMMA DifferStep ==
  ASSUME DepInv, IInv, OneScheduler, RunsDiffer, PendingFresh, [DeploymentsNext]_allVars
  PROVE  RunsDiffer' /\ PendingFresh'
<1>1. CASE UNCHANGED <<runs, tick>>
  BY <1>1 DEF RunsDiffer, PendingFresh
<1>2. CASE \E c \in Clients : ~ EndRun(c) /\ (Begins(c) \/ EndCreateDeployment(c) \/ Ends(c))
  BY <1>1, <1>2, BeginLeaves, EndLeaves
<1>3. CASE ArchiveDeployment \/ RunWithoutAgent \/ Elsewhere
  BY <1>1, <1>3, ArchiveIs, ElsewhereIs
<1>4. CASE \E p \in Schedulers : TickBegin(p) \/ TickSkip(p) \/ TickRefused(p)
  <2>1. runs' = runs /\ \A r \in Schedulers : tick'[r].pending \in {tick[r].pending, <<>>}
    BY <1>4, OtherTicks
  <2> QED BY <2>1 DEF RunsDiffer, PendingFresh
<1>5. CASE \E p \in Schedulers : TickRun(p) \/ TickCommit(p) \/ TickAgentGone(p)
  BY <1>5, TickRunDiffers, TickEndsDiffer
<1>6. CASE \E c \in Clients : EndRun(c)
  BY <1>6, RunEndsDiffer
<1> QED BY <1>2, <1>3, <1>4, <1>5, <1>6, StepCases DEF TickStep

\* One scheduler creates one run for an instant of a schedule, whatever requests bring the instant
\* back into upcoming_runs_at: _scheduled_deployment_run_exists looks at the runs, and no other
\* writes runs of ticks between that look-up and the commit of the tick.
THEOREM DueRunOnce == OneScheduler => (DeploymentsSpec => []TickDueOnce)
<1> SUFFICES ASSUME OneScheduler PROVE DeploymentsSpec => []TickDueOnce
  OBVIOUS
<1>1. DeploymentsInit => RunsDiffer /\ PendingFresh
  BY DEF DeploymentsInit, DeploymentsStart, RunsDiffer, PendingFresh
<1>2. DepInv /\ IInv /\ RunsDiffer /\ PendingFresh /\ [DeploymentsNext]_allVars => RunsDiffer' /\ PendingFresh'
  BY DifferStep
<1>3. DepInv /\ RunsDiffer => TickDueOnce
  <2> SUFFICES ASSUME DepInv, RunsDiffer PROVE TickDueOnce
    OBVIOUS
  <2>1. \A i \in DOMAIN runs : runs[i].by \in {"api", "tick"}
    <3>1. \A i \in DOMAIN runs : runs[i] \in Runs
      BY DEF DepInv, RowsTyped
    <3> QED BY <3>1 DEF Runs
  <2> QED BY <2>1 DEF RunsDiffer, SameRun, TickDueOnce
<1> QED BY <1>1, <1>2, <1>3, DepAlways, PTL DEF DeploymentsSpec

-----------------------------------------------------------------------------
(* A paused schedule stays paused. *)

\* A paused deployment has the status in the column as well.
ColumnShows ==
  \A d \in DeploymentIds :
    deployment[d].exists /\ ~ deployment[d].archived /\ deployment[d].data.status = "paused"
      => deployment[d].status = "paused"

\* What a request will write, with what the row has become since it was read.
StatusKnown(q, row) ==
  /\ q.op = "run" /\ q.data # Nothing => q.data.status = "active"
  /\ q.op = "pause" => q.data.status = "paused"
  /\ q.op = "unpause" => q.data.status = "active" /\ (q.read.data.status = "active" => row.data.status = "active")
  /\ q.op \in WriteOps /\ q.read.status = "paused" => row.status = "paused" \/ row.archived

RequestsKnown ==
  \A c \in Clients : client[c].op \in WriteOps \cup {"run"} => StatusKnown(client[c], deployment[client[c].id])

PendingActive == \A p \in Schedulers : \A i \in DOMAIN tick[p].pending : tick[p].pending[i].data.status = "active"

PauseInv == ColumnShows /\ RequestsKnown /\ PendingActive

\* Of the requests in flight one at most updates, pauses or unpauses.
OneWriter == \A c, e \in Clients : {client[c].op, client[e].op} \subseteq WriteOps => c = e

\* A row of which at most data was written, and that by a tick or a run, or one that was
\* archived.
Advances(row, next) ==
  /\ next.exists = row.exists /\ next.status = row.status /\ next.archived = row.archived
  /\ next.data = row.data \/ next.data.status = "active"

RowsAdvance ==
  \A d \in DeploymentIds :
    \/ Advances(deployment[d], deployment'[d])
    \/ deployment[d].exists /\ deployment'[d] = ArchivedRow(deployment[d])

LEMMA ArchivedFacts ==
  ASSUME DepInv, NEW d \in DeploymentIds, deployment[d].exists
  PROVE  /\ ArchivedRow(deployment[d]).archived /\ ArchivedRow(deployment[d]).data = deployment[d].data
         /\ ArchivedRow(deployment[d]).exists /\ ArchivedRow(deployment[d]).exists = deployment[d].exists
<1>1. deployment[d] \in DeploymentRows
  BY RowTyped DEF DepInv
<1> QED BY <1>1 DEF ArchivedRow, DeploymentRows

LEMMA ColumnStays == DepInv /\ ColumnShows /\ RowsAdvance => ColumnShows'
BY ArchivedFacts DEF ColumnShows, RowsAdvance, Advances

\* What a request will write is known after rows have advanced as well.
LEMMA KnownStays ==
  ASSUME DepInv, PauseInv, RowsAdvance, NEW c \in Clients, client[c].op \in WriteOps \cup {"run"}
  PROVE  StatusKnown(client[c], deployment'[client[c].id])
<1> DEFINE d == client[c].id
<1>1. d \in DeploymentIds /\ StatusKnown(client[c], deployment[d])
  BY RequestFacts DEF ClientOK, PauseInv, RequestsKnown
<1>2. CASE Advances(deployment[d], deployment'[d])
  BY <1>1, <1>2 DEF Advances, StatusKnown
<1>3. CASE deployment[d].exists /\ deployment'[d] = ArchivedRow(deployment[d])
  BY <1>1, <1>3, ArchivedFacts DEF StatusKnown
<1> QED BY <1>1, <1>2, <1>3 DEF RowsAdvance

\* A step that moves no request and writes what is active.
LEMMA PauseStays ==
  ASSUME DepInv, PauseInv, RowsAdvance, UNCHANGED client, PendingActive'
  PROVE  PauseInv'
BY KnownStays, ColumnStays DEF PauseInv, RequestsKnown

\* A request that begins.
LEMMA PauseBegins ==
  ASSUME DepInv, PauseInv, NEW c \in Clients, NEW op, NEW d, NEW data, NEW run, ClientBegin(c, op, d, data, run),
         op \in WriteOps => d \in DeploymentIds,
         op = "run" /\ data # Nothing => data.status = "active",
         op = "pause" => data.status = "paused", op = "unpause" => data.status = "active"
  PROVE  PauseInv'
<1> DEFINE read == IF d = 0 THEN Nothing ELSE deployment[d]
           q == [op |-> op, id |-> d, data |-> data, run |-> run, read |-> read]
<1>1. client' = [client EXCEPT ![c] = q] /\ deployment' = deployment /\ tick' = tick
  BY DEF ClientBegin
<1>2. op \in WriteOps => read = deployment[d]
  BY DEF DeploymentIds
<1>3. q.op = op /\ q.id = d /\ q.data = data /\ q.read = read
  OBVIOUS
<1> HIDE DEF q, read
<1>4. StatusKnown(q, deployment[q.id])
  BY <1>2, <1>3 DEF StatusKnown, WriteOps
<1>5. \A e \in Clients : client'[e] = IF e = c THEN q ELSE client[e]
  BY <1>1 DEF DepInv, RequestsTyped
<1>6. RequestsKnown'
  BY <1>1, <1>4, <1>5 DEF PauseInv, RequestsKnown
<1> QED BY <1>1, <1>6 DEF PauseInv, ColumnShows, PendingActive

LEMMA BeginsPause ==
  ASSUME DepInv, IInv, PauseInv, NEW c \in Clients, Begins(c) PROVE PauseInv'
<1>1. CASE BeginCreateDeployment(c)
  <2>1. PICK data : ClientBegin(c, "create", 0, data, Nothing)
    BY <1>1 DEF BeginCreateDeployment
  <2> QED BY <2>1, PauseBegins DEF WriteOps
<1>2. CASE BeginUpdateDeployment(c)
  <2>1. PICK d \in DeploymentIds, data \in Data : ClientBegin(c, "update", d, data, Nothing)
    BY <1>2, BeginUpdateIs
  <2> QED BY <2>1, PauseBegins
<1>3. CASE BeginPause(c)
  <2>1. PICK d \in DeploymentIds, data \in Data : data.status = "paused" /\ ClientBegin(c, "pause", d, data, Nothing)
    BY <1>3, BeginPauseIs
  <2> QED BY <2>1, PauseBegins
<1>4. CASE BeginUnpause(c)
  <2>1. PICK d \in DeploymentIds, data \in Data : data.status = "active" /\ ClientBegin(c, "unpause", d, data, Nothing)
    BY <1>4, BeginUnpauseIs
  <2> QED BY <2>1, PauseBegins
<1>5. CASE BeginRun(c)
  <2>1. PICK d \in DeploymentIds, data \in Data \cup {Nothing}, run \in Runs :
          (data # Nothing => data.status = "active") /\ ClientBegin(c, "run", d, data, run)
    BY <1>5, BeginRunIs
  <2> QED BY <2>1, PauseBegins
<1> QED BY <1>1, <1>2, <1>3, <1>4, <1>5 DEF Begins

\* A request ends, and what the other writers in flight know stays known.
LEMMA PauseEnds ==
  ASSUME DepInv, PauseInv, NEW c \in Clients, NEW op, ClientEnd(c, op), ColumnShows',
         \A e \in Clients : e # c /\ client[e].op \in WriteOps => StatusKnown(client[e], deployment'[client[e].id])
  PROVE  PauseInv'
<1>1. client'[c] = Quiet /\ \A e \in Clients : e # c => client'[e] = client[e]
  BY DEF ClientEnd, DepInv, RequestsTyped
<1>2. ASSUME NEW e \in Clients, client[e].op = "run" PROVE StatusKnown(client[e], deployment'[client[e].id])
  BY <1>2 DEF PauseInv, RequestsKnown, StatusKnown, WriteOps
<1>3. RequestsKnown'
  BY <1>1, <1>2 DEF RequestsKnown, Quiet, WriteOps
<1>4. PendingActive'
  BY DEF ClientEnd, PauseInv, PendingActive
<1> QED BY <1>3, <1>4 DEF PauseInv

\* A new row replaces none, and shows its status.
LEMMA CreateEndsPause ==
  ASSUME DepInv, NEW c \in Clients, EndCreateDeployment(c)
  PROVE  /\ \A d \in DeploymentIds : deployment[d].exists => deployment'[d] = deployment[d]
         /\ ColumnShows => ColumnShows'
<1> DEFINE row == [exists |-> TRUE, archived |-> FALSE, status |-> client[c].data.status, data |-> client[c].data]
<1>1. PICK d \in DeploymentIds : ~ deployment[d].exists /\ deployment' = [deployment EXCEPT ![d] = row]
  BY DEF EndCreateDeployment
<1>2. row.status = row.data.status
  OBVIOUS
<1> HIDE DEF row
<1>3. \A e \in DeploymentIds : deployment'[e] = IF e = d THEN row ELSE deployment[e]
  BY <1>1 DEF DepInv, RowsTyped
<1> QED BY <1>1, <1>2, <1>3 DEF ColumnShows

\* The rows as a run of the API leaves them.
LEMMA RunAdvances ==
  ASSUME DepInv, PauseInv, NEW c \in Clients, EndRun(c) PROVE RowsAdvance
<1>1. client[c].op = "run" /\ StatusKnown(client[c], deployment[client[c].id])
  BY RunEnds DEF PauseInv, RequestsKnown
<1>2. ASSUME NEW d \in DeploymentIds, deployment[d] \in DeploymentRows, client[c].data # Nothing,
             deployment'[d] = [deployment[d] EXCEPT !.data = client[c].data]
      PROVE  Advances(deployment[d], deployment'[d])
  BY <1>1, <1>2 DEF Advances, StatusKnown, DeploymentRows
<1>3. \A d \in DeploymentIds : deployment'[d] = deployment[d] => Advances(deployment[d], deployment'[d])
  BY DEF Advances
<1> QED BY <1>2, <1>3, RunEnds DEF RowsAdvance

\* The rows as a tick leaves them.
LEMMA TickAdvances ==
  ASSUME DepInv, PauseInv, NEW p \in Schedulers, TickCommit(p) \/ TickAgentGone(p) PROVE RowsAdvance
<1>1. ASSUME NEW d \in DeploymentIds, deployment'[d] = PendingRow(p, d)
      PROVE  Advances(deployment[d], deployment'[d])
  <2>1. CASE PendingRow(p, d) = deployment[d]
    BY <1>1, <2>1 DEF Advances
  <2>2. CASE \E i \in DOMAIN tick[p].pending :
               /\ deployment[d] \in DeploymentRows
               /\ PendingRow(p, d) = [deployment[d] EXCEPT !.data = tick[p].pending[i].data]
    BY <1>1, <2>2 DEF Advances, DeploymentRows, PauseInv, PendingActive
  <2> QED BY <2>1, <2>2, PendingRowIs
<1> QED BY <1>1, TickEnds DEF RowsAdvance

LEMMA TicksPause ==
  ASSUME DepInv, IInv, PauseInv, NEW p \in Schedulers, TickStep(p)
  PROVE  RowsAdvance /\ PauseInv'
<1>1. CASE TickCommit(p) \/ TickAgentGone(p)
  <2>1. tick' = [tick EXCEPT ![p] = NoTick] /\ client' = client
    BY <1>1, TickEnds
  <2>2. PendingActive'
    BY <2>1 DEF PauseInv, PendingActive, DepInv, TicksTyped, NoTick
  <2> QED BY <1>1, <2>1, <2>2, TickAdvances, PauseStays
<1>2. CASE TickBegin(p) \/ TickSkip(p) \/ TickRefused(p)
  <2>1. PendingActive' /\ RowsAdvance /\ client' = client
    BY <1>2, OtherTicks DEF PauseInv, PendingActive, RowsAdvance, Advances
  <2> QED BY <2>1, PauseStays
<1>3. CASE TickRun(p)
  <2>1. PICK e \in Entries :
          /\ tick' = [tick EXCEPT ![p] = [tick[p] EXCEPT !.next = @ - 1, !.pending = Append(@, e)]]
          /\ e.data.status = "active" /\ UNCHANGED <<deployment, client>>
    BY <1>3, TickRunIs
  <2>2. tick'[p].pending = Append(tick[p].pending, e) /\ \A r \in Schedulers \ {p} : tick'[r] = tick[r]
    BY <2>1 DEF DepInv, TicksTyped, AnyTick
  <2>3. \A i \in DOMAIN tick'[p].pending : tick'[p].pending[i].data.status = "active"
    BY <2>1, <2>2, TickFacts, Appended DEF PauseInv, PendingActive
  <2>4. PendingActive'
    BY <2>2, <2>3 DEF PauseInv, PendingActive
  <2>5. RowsAdvance
    BY <2>1 DEF RowsAdvance, Advances
  <2> QED BY <2>1, <2>4, <2>5, PauseStays
<1> QED BY <1>1, <1>2, <1>3 DEF TickStep

\* A row that an update, a pause or an unpause leaves paused shows it.
LEMMA WriteShows ==
  ASSUME DepInv, PauseInv, NEW c \in Clients, NEW op \in WriteOps, NEW data \in Data,
         client[c].op = op, EndWrite(c, op, data), ~ deployment'[client[c].id].archived,
         deployment'[client[c].id].data.status = "paused"
  PROVE  deployment'[client[c].id].status = "paused"
<1> DEFINE d == client[c].id
<1>1. /\ d \in DeploymentIds /\ deployment'[d].data = data /\ ~ deployment[d].archived
      /\ deployment'[d].status = IF client[c].data.status = client[c].read.status
                                   THEN deployment[d].status ELSE client[c].data.status
  BY RowWritten DEF EndWrite
<1>2. StatusKnown(client[c], deployment[d])
  BY DEF PauseInv, RequestsKnown
<1>3. client[c].data.status = "paused"
  <2>1. CASE op = "update"
    BY <1>1, <2>1 DEF EndWrite
  <2>2. CASE op = "pause"
    BY <1>2, <2>2 DEF StatusKnown
  <2>3. CASE op = "unpause"
    BY <1>1, <1>2, <2>3 DEF EndWrite, Toggled, StatusKnown
  <2> QED BY <2>1, <2>2, <2>3 DEF WriteOps
<1>4. client[c].read.status = "paused" => deployment[d].status = "paused"
  BY <1>1, <1>2 DEF StatusKnown
<1> QED BY <1>1, <1>3, <1>4

LEMMA WritesPause ==
  ASSUME DepInv, PauseInv, OneWriter, NEW c \in Clients, Ends(c) PROVE PauseInv'
<1>1. PICK op \in WriteOps, data \in Data : client[c].op = op /\ EndWrite(c, op, data)
  BY EndWriteIs
<1>2. ClientEnd(c, op) /\ WriteRow(c, data)
  BY <1>1 DEF EndWrite
<1>3. ColumnShows'
  <2>1. \A e \in DeploymentIds \ {client[c].id} : deployment'[e] = deployment[e]
    BY <1>1, <1>2, RowWritten
  <2> QED BY <1>1, <2>1, WriteShows DEF PauseInv, ColumnShows
<1>4. \A e \in Clients : e # c => client[e].op \notin WriteOps
  BY <1>1 DEF OneWriter
<1> QED BY <1>2, <1>3, <1>4, PauseEnds

LEMMA PauseStep ==
  ASSUME DepInv, IInv, OneWriter, PauseInv, [DeploymentsNext]_allVars PROVE PauseInv'
<1>1. CASE ArchiveDeployment \/ RunWithoutAgent \/ Elsewhere
  <2>1. RowsAdvance /\ UNCHANGED <<client, tick>>
    BY <1>1, ArchiveIs, ElsewhereIs DEF RowsAdvance, Advances
  <2> QED BY <2>1, PauseStays DEF PauseInv, PendingActive
<1>2. ASSUME NEW c \in Clients, EndCreateDeployment(c) PROVE PauseInv'
  <2>1. ASSUME NEW e \in Clients, client[e].op \in WriteOps
        PROVE  StatusKnown(client[e], deployment'[client[e].id])
    <3>1. client[e].id \in DeploymentIds /\ deployment[client[e].id].exists
      BY <2>1, RequestFacts DEF ClientOK
    <3>2. deployment'[client[e].id] = deployment[client[e].id]
      BY <1>2, <3>1, CreateEndsPause
    <3> QED BY <2>1, <3>2 DEF PauseInv, RequestsKnown
  <2> QED BY <1>2, <2>1, CreateEndsPause, PauseEnds DEF EndCreateDeployment, PauseInv
<1>3. ASSUME NEW c \in Clients, EndRun(c) PROVE PauseInv'
  <2>1. RowsAdvance /\ ClientEnd(c, "run")
    BY <1>3, RunAdvances, RunEnds
  <2> QED BY <2>1, KnownStays, ColumnStays, PauseEnds DEF PauseInv
<1> QED BY <1>1, <1>2, <1>3, StepCases, BeginsPause, WritesPause, TicksPause

\* A step that resumes a paused schedule is the end of an update or of an unpause.
LEMMA ResumedBy ==
  ASSUME DepInv, IInv, PauseInv, [DeploymentsNext]_allVars,
         NEW d \in DeploymentIds, deployment[d].exists, Paused(deployment[d]), ~ Paused(deployment'[d])
  PROVE  \/ deployment'[d].archived
         \/ \E c \in Clients : client[c].op \in {"update", "unpause"} /\ client[c].id = d /\ client'[c].op = "none"
<1> SUFFICES ASSUME ~ deployment'[d].archived
             PROVE  \E c \in Clients :
                      client[c].op \in {"update", "unpause"} /\ client[c].id = d /\ client'[c].op = "none"
  OBVIOUS
<1>1. deployment'[d].status # "paused" /\ deployment'[d] # deployment[d]
  BY DEF Paused
<1>2. ASSUME RowsAdvance PROVE FALSE
  <2>1. Advances(deployment[d], deployment'[d])
    BY <1>2, ArchivedFacts DEF RowsAdvance
  <2>2. deployment[d].status = "paused"
    BY <2>1 DEF Advances, Paused, PauseInv, ColumnShows
  <2> QED BY <1>1, <2>1, <2>2 DEF Advances
<1>3. PICK c \in Clients : Ends(c)
  <2>1. ASSUME NEW c \in Clients, Begins(c) PROVE FALSE
    BY <1>1, <2>1, BeginLeaves
  <2>2. ASSUME NEW c \in Clients, EndCreateDeployment(c) PROVE FALSE
    BY <1>1, <2>2, CreateEndsPause
  <2>3. ASSUME NEW c \in Clients, EndRun(c) PROVE FALSE
    BY <1>2, <2>3, RunAdvances
  <2>4. ASSUME NEW p \in Schedulers, TickStep(p) PROVE FALSE
    BY <1>2, <2>4, TicksPause
  <2>5. ASSUME ArchiveDeployment \/ RunWithoutAgent \/ Elsewhere PROVE FALSE
    BY <1>1, <2>5, ArchiveIs, ElsewhereIs, ArchivedFacts
  <2> QED BY <2>1, <2>2, <2>3, <2>4, <2>5, StepCases
<1>4. PICK op \in WriteOps, data \in Data : client[c].op = op /\ EndWrite(c, op, data)
  BY <1>3, EndWriteIs
<1>5. ClientEnd(c, op) /\ WriteRow(c, data)
  BY <1>4 DEF EndWrite
<1>6. client[c].id = d
  BY <1>1, <1>4, <1>5, RowWritten
<1>7. client'[c].op = "none"
  BY <1>5 DEF ClientEnd, Quiet, DepInv, RequestsTyped
<1>8. op # "pause"
  <2> SUFFICES ASSUME op = "pause" PROVE FALSE
    OBVIOUS
  <2>1. client[c].data.status = "paused"
    BY <1>4 DEF PauseInv, RequestsKnown, StatusKnown
  <2>2. deployment[d].status = "paused"
    BY <1>4, <1>5, <1>6, RowWritten DEF Paused, PauseInv, ColumnShows
  <2>3. deployment'[d].status = "paused"
    BY <1>4, <1>5, <1>6, <2>1, <2>2, RowWritten
  <2> QED BY <1>1, <2>3
<1> QED BY <1>4, <1>6, <1>7, <1>8 DEF WriteOps

\* A pause outlives the ticks and the runs that overlap with it, though they write data with the
\* status they read: they leave the column alone, and _scheduled_deployment_due_at looks at both.
\* As long as updates, pauses and unpauses do not overlap with one another: of two that do, one
\* may write the column and the other data, and a tick or a run then resumes the schedule.
THEOREM PauseHolds == DeploymentsSpec /\ []OneWriter => PauseOutlivesTick
<1> DEFINE Resumed == \A d \in DeploymentIds :
             deployment[d].exists /\ Paused(deployment[d]) /\ ~Paused(deployment'[d]) =>
               \/ deployment'[d].archived
               \/ \E c \in Clients : client[c].op \in {"update", "unpause"} /\ client[c].id = d
                                      /\ client'[c].op = "none"
<1>1. DeploymentsInit => PauseInv
  BY DEF DeploymentsInit, DeploymentsStart, NoDeployment, NoTick, Quiet, PauseInv, ColumnShows, RequestsKnown,
    PendingActive, WriteOps
<1>2. OneWriter /\ DepInv /\ IInv /\ PauseInv /\ [DeploymentsNext]_allVars => PauseInv'
  BY PauseStep
<1>3. DepInv /\ IInv /\ PauseInv /\ [DeploymentsNext]_allVars => [Resumed]_allVars
  BY ResumedBy
<1> HIDE DEF Resumed
<1>4. DeploymentsSpec /\ []OneWriter => [][Resumed]_allVars
  BY <1>1, <1>2, <1>3, DepAlways, PTL DEF DeploymentsSpec
<1> QED BY <1>4 DEF PauseOutlivesTick, Resumed
-----------------------------------------------------------------------------
(* A schedule stalls by a lost update. *)

\* Requests on deployments do not overlap.
OneClient == \A c, e \in Clients : c = e

\* What follows speaks of the API as it is used without a time of its own: no run names an
\* instant but those that ticks create.
OneAtATime == OneClient /\ OneScheduler /\ ~ ApiSchedules

\* upcoming_runs_at was computed at some instant that has come.
Spans(data, now) == \E s \in 0 .. now : data.upcoming = Upcoming(data.cron, s)

\* The instants of runs: those of ticks have come, the API names none.
RunsPast ==
  \A i \in DOMAIN runs :
    /\ IF runs[i].by = "tick" THEN runs[i].due <= clock ELSE runs[i].due = 0
    /\ deployment[runs[i].deployment].exists

RowsSpan == \A d \in DeploymentIds : deployment[d].exists => Spans(deployment[d].data, clock)

\* A tick sees every run that a tick has created, and what it will write looks ahead from an
\* instant after all of these.
TickBehind(t, rows, rs, now) ==
  /\ t.now <= now
  /\ \A i \in DOMAIN rs : rs[i].by = "tick" => rs[i].due <= t.now
  /\ \A d \in DeploymentIds : t.listed[d].exists =>
       t.listed[d].data.cron = rows[d].data.cron /\ Spans(t.listed[d].data, now)
  /\ \A i \in DOMAIN t.pending :
       LET e == t.pending[i] IN
         /\ e.data.cron = rows[e.run.deployment].data.cron
         /\ \E s \in t.now .. now : e.data.upcoming = Upcoming(e.data.cron, s)
         /\ e.run.due <= t.now /\ e.data.cron # Nothing /\ e.run.due \in CronTimes[e.data.cron]

TicksBehind == \A p \in Schedulers : tick[p].on => TickBehind(tick[p], deployment, runs, clock)

\* A run that a tick created after the request looked at the clock has left the data it read
\* behind: an instant of these is gone.
LooksAhead(q, row, rs, now) ==
  \E s \in 0 .. now :
    /\ q.data.upcoming = Upcoming(q.data.cron, s)
    /\ \E r \in 0 .. s : q.read.data.upcoming = Upcoming(q.data.cron, r)
    /\ \A i \in DOMAIN rs : rs[i].by = "tick" /\ rs[i].deployment = q.id /\ rs[i].due > s =>
         \E t \in q.read.data.upcoming : t <= rs[i].due /\ \A v \in row.data.upcoming : v > t

\* What a request will write.
Writable(q, row, rs, now) ==
  /\ q.op \in WriteOps => Spans(q.data, now) /\ q.data.cron = row.data.cron
  /\ q.op \in {"pause", "unpause"} => q.data.upcoming = q.read.data.upcoming
  /\ q.op = "run" => q.run.due = 0 /\ q.run.deployment = q.id
  /\ q.op = "run" /\ q.data # Nothing => Spans(q.data, now) /\ q.data.cron = row.data.cron
  /\ q.op = "update" \/ (q.op = "run" /\ q.data # Nothing) => LooksAhead(q, row, rs, now)

RequestsWritable ==
  \A c \in Clients :
    /\ client[c].op = "create" => Spans(client[c].data, clock)
    /\ client[c].op \in WriteOps \cup {"run"} => Writable(client[c], deployment[client[c].id], runs, clock)

StallInv == RunsPast /\ RowsSpan /\ TicksBehind /\ RequestsWritable

\* Instants have a first.
LEMMA EarliestIs ==
  ASSUME NEW times \in SUBSET Nat, times # {}
  PROVE  Earliest(times) \in times /\ \A u \in times : Earliest(times) <= u
<1>1. PICK n \in times : \A m \in times : ~ (<<m, n>> \in OpToRel(<, Nat))
  BY NatLessThanWellFounded, WFMin
<1>2. \A m \in times : n <= m
  <2> TAKE m \in times
  <2>1. ~ (m < n)
    BY <1>1 DEF OpToRel
  <2> QED BY <2>1, SMT
<1> QED BY <1>2 DEF Earliest

\* What upcoming_runs_at holds comes after the moment it was computed at.
LEMMA UpcomingIs ==
  ASSUME NEW cron \in Crons \cup {Nothing}, NEW s \in Nat, NEW t \in Upcoming(cron, s)
  PROVE  t \in Nat /\ t > s /\ cron # Nothing /\ cron \in Crons /\ t \in CronTimes[cron]
BY CronAssumption DEF Upcoming

\* It leaves out no instant before its own.
LEMMA FirstIsUpcoming ==
  ASSUME NEW cron \in Crons, NEW s \in Nat, NEW t \in CronTimes[cron], t > s
  PROVE  \E f \in Upcoming(cron, s) : f <= t
<1> DEFINE after == {u \in CronTimes[cron] : u > s}
           f == Earliest(after)
<1>1. after \in SUBSET Nat /\ t \in after
  BY CronAssumption
<1>2. f \in after /\ \A u \in after : f <= u
  BY <1>1, EarliestIs
<1> HIDE DEF f
<1>3. {u \in CronTimes[cron] : s < u /\ u < f} = {}
  <2> SUFFICES ASSUME NEW u \in CronTimes[cron], s < u, u < f PROVE FALSE
    OBVIOUS
  <2>1. u \in Nat /\ f \in Nat
    BY <1>1, <1>2, CronAssumption
  <2>2. f <= u
    BY <1>2, <2>1
  <2> QED BY <2>1, <2>2
<1>4. Cardinality({u \in CronTimes[cron] : s < u /\ u < f}) < Ahead
  <2>1. Cardinality({}) = 0
    BY FS_EmptySet
  <2> QED BY <1>3, <2>1, DeploymentBounds
<1>5. f \in Upcoming(cron, s)
  <2>1. cron # Nothing
    BY CronAssumption
  <2>2. f \in CronTimes[cron] /\ f > s
    BY <1>2
  <2> QED BY <1>4, <2>1, <2>2 DEF Upcoming
<1> QED BY <1>1, <1>2, <1>5

\* Time does not go back.
LEMMA ClockGrows ==
  ASSUME DepInv, [DeploymentsNext]_allVars PROVE clock \in Nat /\ clock' \in Nat /\ clock <= clock'
<1>1. clock \in Nat
  BY DeploymentBounds DEF DepInv, RowsTyped
<1>2. clock' = clock \/ clock' = clock + 1
  <2>1. CASE Elsewhere
    BY <2>1 DEF Elsewhere, Pass, CloseEnvironment, depVars, allVars
  <2>2. CASE ArchiveDeployment \/ RunWithoutAgent
    BY <2>2, ArchiveIs
  <2>3. CASE \E c \in Clients : Begins(c) \/ EndCreateDeployment(c) \/ Ends(c) \/ EndRun(c)
    BY <2>3, BeginLeaves, EndLeaves
  <2>4. CASE \E p \in Schedulers : TickStep(p)
    BY <2>4 DEF TickStep, TickBegin, TickSkip, TickRun, TickRefused, TickAgentGone, TickCommit
  <2> QED BY <2>1, <2>2, <2>3, <2>4, StepCases
<1> QED BY <1>1, <1>2

LEMMA SpansOn ==
  ASSUME NEW data, NEW m \in Nat, NEW n \in Nat, m <= n, Spans(data, m) PROVE Spans(data, n)
BY DEF Spans

LEMMA RunFacts ==
  ASSUME DepInv, NEW i \in DOMAIN runs
  PROVE  runs[i] \in Runs /\ runs[i].deployment \in DeploymentIds /\ runs[i].due \in Nat
<1>1. runs[i] \in Runs
  BY DEF DepInv, RowsTyped
<1> QED BY <1>1 DEF Runs

\* What rows, ticks and requests say of data: it lasts while rows keep their data.
SameData ==
  \A d \in DeploymentIds :
    deployment'[d].exists = deployment[d].exists /\ deployment'[d].data = deployment[d].data

LEMMA TickBehindStays ==
  ASSUME DepInv, clock \in Nat, clock' \in Nat, clock <= clock', SameData,
         NEW t \in AnyTick, t.on, TickBehind(t, deployment, runs, clock)
  PROVE  TickBehind(t, deployment', runs, clock')
<1>1. \A i \in DOMAIN t.pending : t.pending[i].run.deployment \in DeploymentIds
  <2>1. t.pending \in Seq(Entries)
    BY DEF AnyTick
  <2>2. \A i \in DOMAIN t.pending : t.pending[i] \in Entries
    BY <2>1
  <2> QED BY <2>2 DEF Entries, Runs
<1>2. t.now \in Nat
  BY DEF AnyTick
<1>3. t.now <= clock' /\ \A i \in DOMAIN runs : runs[i].by = "tick" => runs[i].due <= t.now
  BY <1>2 DEF TickBehind
<1>4. \A d \in DeploymentIds : t.listed[d].exists =>
        t.listed[d].data.cron = deployment'[d].data.cron /\ Spans(t.listed[d].data, clock')
  BY SpansOn DEF TickBehind, SameData
<1>5. ASSUME NEW i \in DOMAIN t.pending
      PROVE  LET e == t.pending[i] IN
               /\ e.data.cron = deployment'[e.run.deployment].data.cron
               /\ \E s \in t.now .. clock' : e.data.upcoming = Upcoming(e.data.cron, s)
               /\ e.run.due <= t.now /\ e.data.cron # Nothing /\ e.run.due \in CronTimes[e.data.cron]
  BY <1>1, <1>2 DEF TickBehind, SameData
<1> QED BY <1>3, <1>4, <1>5 DEF TickBehind

LEMMA WritableStays ==
  ASSUME NEW m \in Nat, NEW n \in Nat, m <= n, NEW q, NEW row, NEW next, NEW rs,
         next.data = row.data, Writable(q, row, rs, m)
  PROVE  Writable(q, next, rs, n)
<1>1. ASSUME LooksAhead(q, row, rs, m) PROVE LooksAhead(q, next, rs, n)
  BY <1>1 DEF LooksAhead
<1> QED BY <1>1, SpansOn DEF Writable

\* A step that writes no data, creates no run and moves neither requests nor ticks.
LEMMA StallStays ==
  ASSUME DepInv, clock \in Nat, clock' \in Nat, clock <= clock', StallInv, SameData, UNCHANGED <<runs, client, tick>>
  PROVE  StallInv'
<1>1. RunsPast'
  BY RunFacts DEF StallInv, RunsPast, SameData
<1>2. RowsSpan'
  BY SpansOn DEF StallInv, RowsSpan, SameData
<1>3. TicksBehind'
  BY TickFacts, TickBehindStays DEF StallInv, TicksBehind
<1>4. RequestsWritable'
  <2> SUFFICES ASSUME NEW c \in Clients
               PROVE  /\ client[c].op = "create" => Spans(client[c].data, clock')
                      /\ client[c].op \in WriteOps \cup {"run"} =>
                           Writable(client[c], deployment'[client[c].id], runs, clock')
    BY DEF RequestsWritable
  <2>1. client[c].op = "create" => Spans(client[c].data, clock')
    BY SpansOn DEF StallInv, RequestsWritable
  <2>2. client[c].op \in WriteOps \cup {"run"} => Writable(client[c], deployment'[client[c].id], runs, clock')
    <3> SUFFICES ASSUME client[c].op \in WriteOps \cup {"run"}
                 PROVE  Writable(client[c], deployment'[client[c].id], runs, clock')
      OBVIOUS
    <3>1. deployment'[client[c].id].data = deployment[client[c].id].data
      BY RequestFacts DEF ClientOK, SameData
    <3> QED BY <3>1, WritableStays DEF StallInv, RequestsWritable
  <2> QED BY <2>1, <2>2
<1> QED BY <1>1, <1>2, <1>3, <1>4 DEF StallInv

\* A request that begins.
LEMMA StallBegins ==
  ASSUME DepInv, StallInv, NEW c \in Clients, NEW op, NEW d, NEW data, NEW run, ClientBegin(c, op, d, data, run),
         op = "create" => Spans(data, clock),
         op \in WriteOps \cup {"run"} =>
           d \in DeploymentIds /\
           \A q : q.op = op /\ q.id = d /\ q.data = data /\ q.run = run /\ q.read = deployment[d]
                   => Writable(q, deployment[d], runs, clock)
  PROVE  StallInv'
<1> DEFINE read == IF d = 0 THEN Nothing ELSE deployment[d]
           q == [op |-> op, id |-> d, data |-> data, run |-> run, read |-> read]
<1>1. client' = [client EXCEPT ![c] = q] /\ UNCHANGED <<clock, deployment, runs, tick>>
  BY DEF ClientBegin
<1>2. op \in WriteOps \cup {"run"} => read = deployment[d]
  BY DEF DeploymentIds
<1>3. q.op = op /\ q.id = d /\ q.data = data /\ q.run = run /\ q.read = read
  OBVIOUS
<1> HIDE DEF q, read
<1>4. op \in WriteOps \cup {"run"} => Writable(q, deployment[d], runs, clock)
  BY <1>2, <1>3
<1>5. \A e \in Clients : client'[e] = IF e = c THEN q ELSE client[e]
  BY <1>1 DEF DepInv, RequestsTyped
<1>6. RequestsWritable'
  BY <1>1, <1>3, <1>4, <1>5 DEF StallInv, RequestsWritable
<1> QED BY <1>1, <1>6 DEF StallInv, RunsPast, RowsSpan, TicksBehind

\* Data with upcoming_runs_at computed from the clock as it is.
LEMMA WritesAhead ==
  ASSUME DepInv, StallInv, NEW d \in DeploymentIds, deployment[d].exists, NEW q,
         q.id = d, q.read = deployment[d], q.data.cron = deployment[d].data.cron,
         q.data.upcoming = Upcoming(q.data.cron, clock)
  PROVE  Spans(q.data, clock) /\ LooksAhead(q, deployment[d], runs, clock)
<1>1. clock \in Nat
  BY DeploymentBounds DEF DepInv, RowsTyped
<1>2. \A i \in DOMAIN runs : runs[i].by = "tick" => ~ (runs[i].due > clock)
  BY <1>1, RunFacts DEF StallInv, RunsPast
<1>3. PICK r \in 0 .. clock : deployment[d].data.upcoming = Upcoming(deployment[d].data.cron, r)
  BY DEF StallInv, RowsSpan, Spans
<1> QED BY <1>1, <1>2, <1>3 DEF Spans, LooksAhead

LEMMA BeginsStall ==
  ASSUME DepInv, IInv, StallInv, ~ ApiSchedules, NEW c \in Clients, Begins(c) PROVE StallInv'
<1>1. clock \in Nat
  BY DeploymentBounds DEF DepInv, RowsTyped
<1>2. CASE BeginCreateDeployment(c)
  <2>1. PICK data \in Data : data.upcoming = Upcoming(data.cron, clock) /\ ClientBegin(c, "create", 0, data, Nothing)
    BY <1>2, BeginCreateIs
  <2>2. Spans(data, clock)
    BY <1>1, <2>1 DEF Spans
  <2> QED BY <2>1, <2>2, StallBegins DEF WriteOps
<1>3. CASE BeginUpdateDeployment(c)
  <2>1. PICK d \in DeploymentIds, data \in Data :
          /\ Mutable(d) /\ ClientBegin(c, "update", d, data, Nothing)
          /\ data.cron = deployment[d].data.cron /\ data.upcoming = Upcoming(data.cron, clock)
    BY <1>3, BeginUpdateIs
  <2>2. ASSUME NEW q, q.op = "update", q.id = d, q.data = data, q.read = deployment[d]
        PROVE  Writable(q, deployment[d], runs, clock)
    BY <2>1, <2>2, WritesAhead DEF Mutable, Writable
  <2> QED BY <2>1, <2>2, StallBegins
<1>4. ASSUME NEW op \in {"pause", "unpause"}, NEW d \in DeploymentIds, NEW data \in Data, Mutable(d),
             ClientBegin(c, op, d, data, Nothing),
             data.cron = deployment[d].data.cron, data.upcoming = deployment[d].data.upcoming
      PROVE  StallInv'
  <2>1. Spans(data, clock)
    BY <1>4 DEF StallInv, RowsSpan, Spans, Mutable
  <2>2. ASSUME NEW q, q.op = op, q.id = d, q.data = data, q.read = deployment[d]
        PROVE  Writable(q, deployment[d], runs, clock)
    BY <1>4, <2>1, <2>2 DEF Writable
  <2> QED BY <1>4, <2>2, StallBegins
<1>5. CASE BeginPause(c) \/ BeginUnpause(c)
  BY <1>4, <1>5, BeginPauseIs, BeginUnpauseIs
<1>6. CASE BeginRun(c)
  <2>1. PICK d \in DeploymentIds, data \in Data \cup {Nothing}, run \in Runs :
          /\ deployment[d].exists /\ run.by = "api" /\ run.deployment = d /\ run.due = 0
          /\ data # Nothing => data.cron = deployment[d].data.cron /\ data.upcoming = Upcoming(data.cron, clock)
          /\ ClientBegin(c, "run", d, data, run)
    BY <1>6, BeginRunIs
  <2>2. ASSUME NEW q, q.op = "run", q.id = d, q.data = data, q.run = run, q.read = deployment[d]
        PROVE  Writable(q, deployment[d], runs, clock)
    BY <2>1, <2>2, WritesAhead DEF Writable, WriteOps
  <2> QED BY <2>1, <2>2, StallBegins
<1> QED BY <1>2, <1>3, <1>5, <1>6 DEF Begins

\* A request ends, and with it the only one.
LEMMA StallEnds ==
  ASSUME DepInv, StallInv, OneClient, NEW c \in Clients, NEW op, ClientEnd(c, op), RowsStay,
         \A i \in DOMAIN runs' :
           \/ i \in DOMAIN runs /\ runs'[i] = runs[i]
           \/ /\ runs'[i].by = "api" /\ runs'[i].due = 0
              /\ runs'[i].deployment \in DeploymentIds /\ deployment[runs'[i].deployment].exists,
         \A d \in DeploymentIds :
           /\ deployment'[d].exists => Spans(deployment'[d].data, clock)
           /\ deployment[d].exists => deployment'[d].data.cron = deployment[d].data.cron
  PROVE  StallInv'
<1>1. UNCHANGED <<clock, tick>> /\ \A e \in Clients : client'[e] = Quiet
  BY DEF ClientEnd, OneClient, DepInv, RequestsTyped
<1>2. RequestsWritable'
  BY <1>1 DEF RequestsWritable, Quiet, WriteOps
<1>3. RunsPast'
  BY <1>1, RunFacts DEF StallInv, RunsPast, RowsStay
<1>4. RowsSpan'
  BY <1>1 DEF RowsSpan
<1>5. ASSUME NEW p \in Schedulers, tick[p].on PROVE TickBehind(tick[p], deployment', runs', clock)
  <2>1. TickBehind(tick[p], deployment, runs, clock)
    BY <1>5 DEF StallInv, TicksBehind
  <2>2. \A i \in DOMAIN runs' : runs'[i].by = "tick" => runs'[i].due <= tick[p].now
    BY <2>1 DEF TickBehind
  <2>3. \A d \in DeploymentIds : tick[p].listed[d].exists =>
          tick[p].listed[d].data.cron = deployment'[d].data.cron /\ Spans(tick[p].listed[d].data, clock)
    BY <1>5, <2>1, TickFacts DEF TickBehind, TickOK
  <2>4. \A i \in DOMAIN tick[p].pending :
          tick[p].pending[i].data.cron = deployment'[tick[p].pending[i].run.deployment].data.cron
    BY <2>1, TickFacts DEF TickBehind, TickOK
  <2> QED BY <2>1, <2>2, <2>3, <2>4 DEF TickBehind
<1>6. TicksBehind'
  BY <1>1, <1>5 DEF TicksBehind
<1> QED BY <1>2, <1>3, <1>4, <1>6 DEF StallInv

LEMMA CreateEndsStall ==
  ASSUME DepInv, StallInv, OneClient, NEW c \in Clients, EndCreateDeployment(c)
  PROVE  StallInv'
<1> DEFINE row == [exists |-> TRUE, archived |-> FALSE, status |-> client[c].data.status, data |-> client[c].data]
<1>1. PICK d \in DeploymentIds : ~ deployment[d].exists /\ deployment' = [deployment EXCEPT ![d] = row]
  BY DEF EndCreateDeployment
<1>2. ClientEnd(c, "create") /\ client[c].op = "create" /\ runs' = runs
  BY DEF EndCreateDeployment, ClientEnd
<1>3. row.exists /\ row.data = client[c].data /\ Spans(client[c].data, clock)
  BY <1>2 DEF StallInv, RequestsWritable
<1> HIDE DEF row
<1>4. \A e \in DeploymentIds : deployment'[e] = IF e = d THEN row ELSE deployment[e]
  BY <1>1 DEF DepInv, RowsTyped
<1>5. \A e \in DeploymentIds :
        /\ deployment'[e].exists => Spans(deployment'[e].data, clock)
        /\ deployment[e].exists => deployment'[e].data.cron = deployment[e].data.cron
  BY <1>1, <1>3, <1>4 DEF StallInv, RowsSpan
<1>6. RowsStay
  BY <1>1, <1>4 DEF RowsStay
<1> QED BY <1>2, <1>5, <1>6, StallEnds

LEMMA WritesStall ==
  ASSUME DepInv, StallInv, OneClient, NEW c \in Clients, Ends(c) PROVE StallInv'
<1>1. PICK op \in WriteOps, data \in Data : client[c].op = op /\ EndWrite(c, op, data)
  BY EndWriteIs
<1> DEFINE d == client[c].id
<1>2. ClientEnd(c, op) /\ WriteRow(c, data) /\ runs' = runs
  BY <1>1 DEF EndWrite, WriteRow
<1>3. /\ d \in DeploymentIds /\ deployment'[d].data = data /\ RowsStay
      /\ \A e \in DeploymentIds \ {d} : deployment'[e] = deployment[e]
  BY <1>1, <1>2, RowWritten
<1>4. deployment[d].exists /\ Spans(deployment[d].data, clock)
  BY <1>1, RequestFacts DEF ClientOK, StallInv, RowsSpan
<1>5. Spans(client[c].data, clock) /\ client[c].data.cron = deployment[d].data.cron
  BY <1>1 DEF StallInv, RequestsWritable, Writable
<1>6. data \in {client[c].data, deployment[d].data}
  BY <1>1 DEF EndWrite, Toggled, WriteOps
<1>7. \A e \in DeploymentIds :
        /\ deployment'[e].exists => Spans(deployment'[e].data, clock)
        /\ deployment[e].exists => deployment'[e].data.cron = deployment[e].data.cron
  BY <1>3, <1>4, <1>5, <1>6 DEF StallInv, RowsSpan
<1> QED BY <1>2, <1>3, <1>7, StallEnds

LEMMA RunEndsStall ==
  ASSUME DepInv, StallInv, OneClient, NEW c \in Clients, EndRun(c) PROVE StallInv'
<1>1. /\ ClientEnd(c, "run") /\ client[c].op = "run" /\ RowsStay
      /\ client[c].run \in Runs /\ client[c].run.by = "api" /\ runs' = Append(runs, client[c].run)
      /\ \A d \in DeploymentIds :
           \/ deployment'[d] = deployment[d]
           \/ /\ d = client[c].id /\ deployment[d] \in DeploymentRows /\ client[c].data # Nothing
              /\ deployment'[d] = [deployment[d] EXCEPT !.data = client[c].data]
  BY RunEnds
<1>2. Writable(client[c], deployment[client[c].id], runs, clock)
  BY <1>1 DEF StallInv, RequestsWritable
<1>3. client[c].id \in DeploymentIds /\ deployment[client[c].id].exists
  BY <1>1, RequestFacts DEF ClientOK
<1>4. \A i \in DOMAIN runs' :
        \/ i \in DOMAIN runs /\ runs'[i] = runs[i]
        \/ /\ runs'[i].by = "api" /\ runs'[i].due = 0
           /\ runs'[i].deployment \in DeploymentIds /\ deployment[runs'[i].deployment].exists
  BY <1>1, <1>2, <1>3, Appended DEF DepInv, RowsTyped, Writable
<1>5. ASSUME NEW d \in DeploymentIds, d = client[c].id, deployment[d] \in DeploymentRows, client[c].data # Nothing,
             deployment'[d] = [deployment[d] EXCEPT !.data = client[c].data]
      PROVE  Spans(deployment'[d].data, clock) /\ deployment'[d].data.cron = deployment[d].data.cron
  <2>1. deployment'[d].data = client[c].data
    BY <1>5 DEF DeploymentRows
  <2> QED BY <1>1, <1>2, <1>5, <2>1 DEF Writable
<1>6. \A d \in DeploymentIds :
        /\ deployment'[d].exists => Spans(deployment'[d].data, clock)
        /\ deployment[d].exists => deployment'[d].data.cron = deployment[d].data.cron
  BY <1>1, <1>5 DEF StallInv, RowsSpan
<1> QED BY <1>1, <1>4, <1>6, StallEnds

\* A tick moves, and writes nothing.
LEMMA TickMovesStall ==
  ASSUME DepInv, StallInv, NEW p \in Schedulers, NEW t, tick' = [tick EXCEPT ![p] = t],
         UNCHANGED <<clock, deployment, runs, client>>, t.on => TickBehind(t, deployment, runs, clock)
  PROVE  StallInv'
<1>1. \A r \in Schedulers : tick'[r] = IF r = p THEN t ELSE tick[r]
  BY DEF DepInv, TicksTyped
<1>2. TicksBehind'
  BY <1>1 DEF StallInv, TicksBehind
<1> QED BY <1>2 DEF StallInv, RunsPast, RowsSpan, RequestsWritable

LEMMA TickBeginStall ==
  ASSUME DepInv, StallInv, NEW p \in Schedulers, TickBegin(p) PROVE StallInv'
<1> DEFINE found == [d \in DeploymentIds |-> IF Mutable(d) THEN deployment[d] ELSE NoDeployment]
           t == [on |-> TRUE, now |-> clock, next |-> MaxDeployments, pending |-> <<>>, listed |-> found]
<1>1. tick' = [tick EXCEPT ![p] = t] /\ UNCHANGED <<clock, deployment, runs, client>>
  BY DEF TickBegin
<1>2. clock \in Nat /\ clock <= clock
  BY DeploymentBounds DEF DepInv, RowsTyped
<1>3. \A d \in DeploymentIds : found[d].exists => found[d] = deployment[d] /\ deployment[d].exists
  BY DEF NoDeployment
<1>4. \A i \in DOMAIN runs : runs[i].by = "tick" => runs[i].due <= clock
  BY DEF StallInv, RunsPast
<1>5. t.now = clock /\ t.listed = found /\ DOMAIN t.pending = {}
  OBVIOUS
<1> HIDE DEF t, found
<1>6. TickBehind(t, deployment, runs, clock)
  BY <1>2, <1>3, <1>4, <1>5 DEF TickBehind, StallInv, RowsSpan
<1> QED BY <1>1, <1>6, TickMovesStall

LEMMA TickSkipStall ==
  ASSUME DepInv, StallInv, NEW p \in Schedulers, TickSkip(p) PROVE StallInv'
<1> DEFINE t == [tick[p] EXCEPT !.next = @ - 1]
<1>1. tick' = [tick EXCEPT ![p] = t] /\ UNCHANGED <<clock, deployment, runs, client>>
  BY DEF TickSkip, DepInv, TicksTyped
<1>2. t.pending = tick[p].pending /\ t.on = tick[p].on /\ t.listed = tick[p].listed /\ t.now = tick[p].now
  BY TickFacts DEF AnyTick
<1> HIDE DEF t
<1>3. tick[p].on => TickBehind(tick[p], deployment, runs, clock)
  BY DEF StallInv, TicksBehind
<1>4. t.on => TickBehind(t, deployment, runs, clock)
  BY <1>2, <1>3 DEF TickBehind
<1> QED BY <1>1, <1>4, TickMovesStall

LEMMA TickRunStall ==
  ASSUME DepInv, IInv, StallInv, NEW p \in Schedulers, TickRun(p) PROVE StallInv'
<1>1. PICK e \in Entries :
        /\ tick' = [tick EXCEPT ![p] = [tick[p] EXCEPT !.next = @ - 1, !.pending = Append(@, e)]]
        /\ e.run.deployment = tick[p].next
        /\ tick[p].listed[tick[p].next].exists /\ tick[p].listed[tick[p].next] \in DeploymentRows
        /\ e.run.due \in tick[p].listed[tick[p].next].data.upcoming /\ e.run.due <= tick[p].now
        /\ e.data.cron = tick[p].listed[tick[p].next].data.cron
        /\ e.data.upcoming = Upcoming(e.data.cron, clock)
        /\ Ticking(p) /\ deployment[tick[p].next].exists
        /\ UNCHANGED <<clock, deployment, runs, client>>
  BY TickRunIs
<1> DEFINE q == tick[p].pending
           t == [tick[p] EXCEPT !.next = @ - 1, !.pending = Append(@, e)]
           row == tick[p].listed[tick[p].next]
<1>2. t.pending = Append(q, e) /\ t.on = tick[p].on /\ t.listed = tick[p].listed /\ t.now = tick[p].now
  BY TickFacts DEF AnyTick
<1> HIDE DEF t
<1>3. TickBehind(tick[p], deployment, runs, clock) /\ tick[p].now \in Nat /\ clock \in Nat
  BY <1>1, TickFacts, DeploymentBounds DEF Ticking, StallInv, TicksBehind, AnyTick, DepInv, RowsTyped
<1>4. tick[p].next \in DeploymentIds
  BY <1>1, NextFacts
<1>5. /\ row.data.cron = deployment[tick[p].next].data.cron /\ row.data.cron \in Crons \cup {Nothing}
      /\ Spans(row.data, clock)
  BY <1>1, <1>3, <1>4 DEF TickBehind, DeploymentRows, Data
<1>6. e.data.cron # Nothing /\ e.run.due \in CronTimes[e.data.cron]
  BY <1>1, <1>3, <1>5, UpcomingIs DEF Spans
<1>7. clock \in tick[p].now .. clock
  BY <1>3 DEF TickBehind
<1>8. \A i \in DOMAIN Append(q, e) : (i \in DOMAIN q /\ Append(q, e)[i] = q[i]) \/ Append(q, e)[i] = e
  BY TickFacts, Appended
<1>9. \A i \in DOMAIN Append(q, e) :
        LET f == Append(q, e)[i] IN
          /\ f.data.cron = deployment[f.run.deployment].data.cron
          /\ \E s \in tick[p].now .. clock : f.data.upcoming = Upcoming(f.data.cron, s)
          /\ f.run.due <= tick[p].now /\ f.data.cron # Nothing /\ f.run.due \in CronTimes[f.data.cron]
  <2> TAKE i \in DOMAIN Append(q, e)
  <2>1. CASE i \in DOMAIN q /\ Append(q, e)[i] = q[i]
    <3> DEFINE f == q[i]
    <3>1. /\ f.data.cron = deployment[f.run.deployment].data.cron
          /\ \E s \in tick[p].now .. clock : f.data.upcoming = Upcoming(f.data.cron, s)
          /\ f.run.due <= tick[p].now /\ f.data.cron # Nothing /\ f.run.due \in CronTimes[f.data.cron]
      BY <1>3, <2>1 DEF TickBehind
    <3> QED BY <2>1, <3>1
  <2>2. CASE Append(q, e)[i] = e
    <3>1. /\ e.data.cron = deployment[e.run.deployment].data.cron /\ e.run.due <= tick[p].now
          /\ \E s \in tick[p].now .. clock : e.data.upcoming = Upcoming(e.data.cron, s)
      BY <1>1, <1>5, <1>7
    <3> QED BY <1>6, <2>2, <3>1
  <2> QED BY <1>8, <2>1, <2>2
<1>10. TickBehind(t, deployment, runs, clock)
  <2> HIDE DEF q
  <2>1. t.pending = Append(q, e) /\ t.listed = tick[p].listed /\ t.now = tick[p].now
    BY <1>2
  <2>2. \A i \in DOMAIN t.pending :
          LET f == t.pending[i] IN
            /\ f.data.cron = deployment[f.run.deployment].data.cron
            /\ \E s \in t.now .. clock : f.data.upcoming = Upcoming(f.data.cron, s)
            /\ f.run.due <= t.now /\ f.data.cron # Nothing /\ f.run.due \in CronTimes[f.data.cron]
    BY <1>9, <2>1
  <2>3. /\ t.now <= clock
        /\ \A i \in DOMAIN runs : runs[i].by = "tick" => runs[i].due <= t.now
        /\ \A d \in DeploymentIds : t.listed[d].exists =>
             t.listed[d].data.cron = deployment[d].data.cron /\ Spans(t.listed[d].data, clock)
    BY <1>3, <2>1 DEF TickBehind
  <2> QED BY <2>2, <2>3 DEF TickBehind
<1> QED BY <1>1, <1>10, TickMovesStall DEF t

\* What the commit of a tick creates and writes.
LEMMA TickWrites ==
  ASSUME DepInv, StallInv, NEW p \in Schedulers, TickCommit(p) \/ TickAgentGone(p)
  PROVE  /\ tick[p].on /\ tick[p].now \in Nat /\ tick[p].now <= clock /\ clock \in Nat
         /\ \A i \in DOMAIN runs : runs[i].by = "tick" => runs[i].due <= tick[p].now
         /\ \A k \in DOMAIN runs' :
              \/ k \in DOMAIN runs /\ runs'[k] = runs[k]
              \/ /\ runs'[k].by = "tick" /\ runs'[k].due <= tick[p].now
                 /\ runs'[k].deployment \in DeploymentIds /\ deployment[runs'[k].deployment].exists
                 /\ LET row == deployment'[runs'[k].deployment] IN
                      /\ row.data.cron # Nothing /\ runs'[k].due \in CronTimes[row.data.cron]
                      /\ \E s \in tick[p].now .. clock : row.data.upcoming = Upcoming(row.data.cron, s)
         /\ \A d \in DeploymentIds :
              \/ deployment'[d].data = deployment[d].data /\ deployment'[d].exists = deployment[d].exists
              \/ /\ deployment[d].exists /\ deployment'[d].data.cron = deployment[d].data.cron
                 /\ \E s \in tick[p].now .. clock : deployment'[d].data.upcoming = Upcoming(deployment'[d].data.cron, s)
<1> DEFINE q == tick[p].pending
<1>1. tick[p].on /\ tick[p].now \in Nat /\ clock \in Nat
  BY TickFacts, DeploymentBounds DEF TickCommit, TickAgentGone, Ticking, AnyTick, DepInv, RowsTyped
<1>2. TickBehind(tick[p], deployment, runs, clock)
  BY <1>1 DEF StallInv, TicksBehind
<1>3. ASSUME NEW d \in DeploymentIds, NEW i \in DOMAIN q, q[i].run.deployment = d
      PROVE  deployment'[d].data = q[i].data /\ deployment[d].exists
  <2>1. deployment'[d] = PendingRow(p, d)
    BY <1>3, TickEnds
  <2>2. PICK j \in DOMAIN q : /\ q[j].run.deployment = d /\ deployment[d] \in DeploymentRows
                              /\ PendingRow(p, d) = [deployment[d] EXCEPT !.data = q[j].data]
    BY <1>3, PendingRowIs
  <2>3. j = i /\ deployment[d].exists
    BY <1>3, <2>2, TickFacts DEF TickOK
  <2> QED BY <2>1, <2>2, <2>3 DEF DeploymentRows
<1>4. ASSUME NEW d \in DeploymentIds, \A i \in DOMAIN q : q[i].run.deployment # d
      PROVE  deployment'[d].data = deployment[d].data /\ deployment'[d].exists = deployment[d].exists
  <2>1. PendingRow(p, d) = deployment[d]
    BY <1>4, PendingRowIs
  <2> QED BY <2>1, TickEnds, ArchivedFacts
<1>5. ASSUME NEW i \in DOMAIN q
      PROVE  LET d == q[i].run.deployment IN
               /\ d \in DeploymentIds /\ deployment[d].exists /\ q[i].run.by = "tick" /\ q[i].run.due <= tick[p].now
               /\ deployment'[d].data = q[i].data /\ deployment'[d].data.cron = deployment[d].data.cron
               /\ deployment'[d].data.cron # Nothing /\ q[i].run.due \in CronTimes[deployment'[d].data.cron]
               /\ \E s \in tick[p].now .. clock : deployment'[d].data.upcoming = Upcoming(deployment'[d].data.cron, s)
  <2>1. q[i].run.deployment \in DeploymentIds /\ q[i].run.by = "tick"
    BY <1>5, TickFacts DEF TickOK
  <2>2. deployment'[q[i].run.deployment].data = q[i].data /\ deployment[q[i].run.deployment].exists
    BY <1>3, <2>1
  <2> QED BY <1>2, <2>1, <2>2 DEF TickBehind
<1>6. \A k \in DOMAIN runs' :
        \/ k \in DOMAIN runs /\ runs'[k] = runs[k]
        \/ \E i \in DOMAIN q : runs'[k] = q[i].run
  BY TickEnds, PendingRunsAre
<1>7. tick[p].now <= clock /\ \A i \in DOMAIN runs : runs[i].by = "tick" => runs[i].due <= tick[p].now
  BY <1>2 DEF TickBehind
<1>8. ASSUME NEW k \in DOMAIN runs'
      PROVE  \/ k \in DOMAIN runs /\ runs'[k] = runs[k]
             \/ /\ runs'[k].by = "tick" /\ runs'[k].due <= tick[p].now
                /\ runs'[k].deployment \in DeploymentIds /\ deployment[runs'[k].deployment].exists
                /\ LET row == deployment'[runs'[k].deployment] IN
                     /\ row.data.cron # Nothing /\ runs'[k].due \in CronTimes[row.data.cron]
                     /\ \E s \in tick[p].now .. clock : row.data.upcoming = Upcoming(row.data.cron, s)
  <2>1. CASE k \in DOMAIN runs /\ runs'[k] = runs[k]
    BY <2>1
  <2>2. ASSUME NEW i \in DOMAIN q, runs'[k] = q[i].run
        PROVE  /\ runs'[k].by = "tick" /\ runs'[k].due <= tick[p].now
               /\ runs'[k].deployment \in DeploymentIds /\ deployment[runs'[k].deployment].exists
               /\ LET row == deployment'[runs'[k].deployment] IN
                    /\ row.data.cron # Nothing /\ runs'[k].due \in CronTimes[row.data.cron]
                    /\ \E s \in tick[p].now .. clock : row.data.upcoming = Upcoming(row.data.cron, s)
    <3> HIDE DEF q
    <3> QED BY <1>5, <2>2
  <2> HIDE DEF q
  <2> QED BY <1>6, <2>1, <2>2
<1>9. ASSUME NEW d \in DeploymentIds
      PROVE  \/ deployment'[d].data = deployment[d].data /\ deployment'[d].exists = deployment[d].exists
             \/ /\ deployment[d].exists /\ deployment'[d].data.cron = deployment[d].data.cron
                /\ \E s \in tick[p].now .. clock :
                     deployment'[d].data.upcoming = Upcoming(deployment'[d].data.cron, s)
  <2> HIDE DEF q
  <2>1. CASE \E i \in DOMAIN q : q[i].run.deployment = d
    BY <1>5, <2>1
  <2>2. CASE \A i \in DOMAIN q : q[i].run.deployment # d
    BY <1>4, <2>2
  <2> QED BY <2>1, <2>2
<1> HIDE DEF q
<1> QED BY <1>1, <1>7, <1>8, <1>9

\* Of a request that looked at the clock before a tick created a run.
LEMMA TickLooksAhead ==
  ASSUME DepInv, StallInv, NEW p \in Schedulers, TickCommit(p) \/ TickAgentGone(p),
         NEW q, q.id \in DeploymentIds, deployment[q.id].exists, q.data.cron = deployment[q.id].data.cron,
         LooksAhead(q, deployment[q.id], runs, clock)
  PROVE  LooksAhead(q, deployment'[q.id], runs', clock)
<1> DEFINE row == deployment[q.id]
           next == deployment'[q.id]
           now == tick[p].now
           cron == q.data.cron
<1>1. PICK s \in 0 .. clock :
        /\ q.data.upcoming = Upcoming(cron, s)
        /\ \E r \in 0 .. s : q.read.data.upcoming = Upcoming(cron, r)
        /\ \A i \in DOMAIN runs : runs[i].by = "tick" /\ runs[i].deployment = q.id /\ runs[i].due > s =>
             \E t \in q.read.data.upcoming : t <= runs[i].due /\ \A v \in row.data.upcoming : v > t
  BY DEF LooksAhead
<1>2. PICK r \in 0 .. s : q.read.data.upcoming = Upcoming(cron, r)
  BY <1>1
<1>3. now \in Nat /\ now <= clock /\ clock \in Nat /\ \A i \in DOMAIN runs : runs[i].by = "tick" => runs[i].due <= now
  BY TickWrites
<1>4. cron \in Crons \cup {Nothing}
  BY RowTyped DEF DepInv, Data
<1>5. \/ next.data = row.data
      \/ \E u \in now .. clock : next.data.upcoming = Upcoming(cron, u)
  BY TickWrites
<1>6. ASSUME NEW t \in Nat, t <= now, NEW u \in now .. clock, next.data.upcoming = Upcoming(cron, u)
      PROVE  \A v \in next.data.upcoming : v > t
  <2> SUFFICES ASSUME NEW v \in next.data.upcoming PROVE v > t
    OBVIOUS
  <2>1. u \in Nat
    BY <1>3
  <2>2. v \in Nat /\ v > u
    BY <1>4, <1>6, <2>1, UpcomingIs
  <2> QED BY <1>3, <1>6, <2>1, <2>2
<1>7. ASSUME NEW i \in DOMAIN runs, runs[i].by = "tick", runs[i].deployment = q.id, runs[i].due > s
      PROVE  \E t \in q.read.data.upcoming : t <= runs[i].due /\ \A v \in next.data.upcoming : v > t
  <2>1. PICK t \in q.read.data.upcoming : t <= runs[i].due /\ \A v \in row.data.upcoming : v > t
    BY <1>1, <1>7
  <2>2. t \in Nat /\ runs[i].due \in Nat
    BY <1>2, <1>3, <1>4, UpcomingIs, RunFacts
  <2>3. t <= now
    BY <1>3, <1>7, <2>1, <2>2
  <2> QED BY <1>5, <1>6, <2>1, <2>2, <2>3
<1>8. ASSUME NEW k \in DOMAIN runs', runs'[k].by = "tick", runs'[k].due <= now, runs'[k].due > s,
             cron # Nothing, runs'[k].due \in CronTimes[cron],
             NEW u \in now .. clock, next.data.upcoming = Upcoming(cron, u)
      PROVE  \E t \in q.read.data.upcoming : t <= runs'[k].due /\ \A v \in next.data.upcoming : v > t
  <2>1. cron \in Crons /\ runs'[k].due \in Nat
    BY <1>4, <1>8, CronAssumption
  <2>2. r \in Nat /\ runs'[k].due > r
    BY <1>3, <1>8, <2>1
  <2>3. PICK f \in Upcoming(cron, r) : f <= runs'[k].due
    BY <1>8, <2>1, <2>2, FirstIsUpcoming
  <2>4. f \in Nat
    BY <1>4, <2>2, UpcomingIs
  <2>5. f <= now
    BY <1>3, <1>8, <2>1, <2>3, <2>4
  <2> QED BY <1>2, <1>6, <1>8, <2>3, <2>4, <2>5
<1>9. \A k \in DOMAIN runs' :
        \/ k \in DOMAIN runs /\ runs'[k] = runs[k]
        \/ /\ runs'[k].by = "tick" /\ runs'[k].due <= now
           /\ runs'[k].deployment = q.id =>
                /\ next.data.cron # Nothing /\ runs'[k].due \in CronTimes[next.data.cron]
                /\ \E u \in now .. clock : next.data.upcoming = Upcoming(next.data.cron, u)
  BY TickWrites
<1>10. next.data.cron = cron
  BY TickWrites
<1>11. \A k \in DOMAIN runs' : runs'[k].by = "tick" /\ runs'[k].deployment = q.id /\ runs'[k].due > s =>
         \E t \in q.read.data.upcoming : t <= runs'[k].due /\ \A v \in next.data.upcoming : v > t
  <2> SUFFICES ASSUME NEW k \in DOMAIN runs', runs'[k].by = "tick", runs'[k].deployment = q.id, runs'[k].due > s
               PROVE  \E t \in q.read.data.upcoming : t <= runs'[k].due /\ \A v \in next.data.upcoming : v > t
    OBVIOUS
  <2>1. CASE k \in DOMAIN runs /\ runs'[k] = runs[k]
    BY <1>7, <2>1
  <2>2. CASE ~ (k \in DOMAIN runs /\ runs'[k] = runs[k])
    BY <1>8, <1>9, <1>10, <2>2
  <2> QED BY <2>1, <2>2
<1> QED BY <1>1, <1>11 DEF LooksAhead

LEMMA TickEndsStall ==
  ASSUME DepInv, StallInv, OneScheduler, NEW p \in Schedulers, TickCommit(p) \/ TickAgentGone(p)
  PROVE  StallInv'
<1>1. UNCHANGED <<clock, client>> /\ RowsStay /\ \A r \in Schedulers : ~ tick'[r].on
  BY TickEnds DEF OneScheduler, NoTick, DepInv, TicksTyped
<1>2. tick[p].now \in Nat /\ clock \in Nat /\ tick[p].now <= clock
  BY TickWrites
<1>3. RunsPast'
  <2> SUFFICES ASSUME NEW k \in DOMAIN runs'
               PROVE  /\ IF runs'[k].by = "tick" THEN runs'[k].due <= clock ELSE runs'[k].due = 0
                      /\ deployment'[runs'[k].deployment].exists
    BY <1>1 DEF RunsPast
  <2>1. CASE k \in DOMAIN runs /\ runs'[k] = runs[k]
    BY <1>1, <2>1, RunFacts DEF StallInv, RunsPast, RowsStay
  <2>2. CASE ~ (k \in DOMAIN runs /\ runs'[k] = runs[k])
    <3>1. /\ runs'[k].by = "tick" /\ runs'[k].due <= tick[p].now
          /\ runs'[k].deployment \in DeploymentIds /\ deployment[runs'[k].deployment].exists
      BY <2>2, TickWrites
    <3>2. runs'[k].due \in Nat
      <4>1. runs'[k] \in Runs
        BY TickEnds, PendingRunsAre
      <4> QED BY <4>1 DEF Runs
    <3> QED BY <1>1, <1>2, <3>1, <3>2 DEF RowsStay
  <2> QED BY <2>1, <2>2
<1>4. RowsSpan'
  <2> SUFFICES ASSUME NEW d \in DeploymentIds, deployment'[d].exists PROVE Spans(deployment'[d].data, clock)
    BY <1>1 DEF RowsSpan
  <2>1. CASE deployment'[d].data = deployment[d].data /\ deployment'[d].exists = deployment[d].exists
    BY <2>1 DEF StallInv, RowsSpan
  <2>2. CASE \E s \in tick[p].now .. clock : deployment'[d].data.upcoming = Upcoming(deployment'[d].data.cron, s)
    BY <1>2, <2>2 DEF Spans
  <2> QED BY <2>1, <2>2, TickWrites
<1>5. ASSUME NEW c \in Clients, client[c].op \in WriteOps \cup {"run"}
      PROVE  Writable(client[c], deployment'[client[c].id], runs', clock)
  <2>1. Writable(client[c], deployment[client[c].id], runs, clock)
    BY <1>5 DEF StallInv, RequestsWritable
  <2>2. client[c].id \in DeploymentIds /\ deployment[client[c].id].exists
    BY <1>5, RequestFacts DEF ClientOK
  <2>3. deployment'[client[c].id].data.cron = deployment[client[c].id].data.cron
    BY <2>2, TickWrites
  <2>4. ASSUME client[c].data.cron = deployment[client[c].id].data.cron,
               LooksAhead(client[c], deployment[client[c].id], runs, clock)
        PROVE  LooksAhead(client[c], deployment'[client[c].id], runs', clock)
    BY <2>2, <2>4, TickLooksAhead
  <2> QED BY <2>1, <2>3, <2>4 DEF Writable, WriteOps
<1>6. RequestsWritable'
  BY <1>1, <1>5 DEF StallInv, RequestsWritable
<1>7. TicksBehind'
  BY <1>1 DEF TicksBehind
<1> QED BY <1>3, <1>4, <1>6, <1>7 DEF StallInv

LEMMA StallStep ==
  ASSUME DepInv, IInv, OneAtATime, StallInv, [DeploymentsNext]_allVars PROVE StallInv'
<1>1. clock \in Nat /\ clock' \in Nat /\ clock <= clock'
  BY ClockGrows
<1>2. CASE ArchiveDeployment \/ RunWithoutAgent
  <2>1. SameData /\ UNCHANGED <<runs, client, tick>>
    BY <1>2, ArchiveIs, ArchivedFacts DEF SameData
  <2> QED BY <1>1, <2>1, StallStays
<1>3. CASE Elsewhere
  <2>1. SameData /\ UNCHANGED <<runs, client, tick>>
    BY <1>3, ElsewhereIs DEF SameData
  <2> QED BY <1>1, <2>1, StallStays
<1>4. CASE \E c \in Clients : Begins(c) \/ EndCreateDeployment(c) \/ Ends(c) \/ EndRun(c)
  BY <1>4, BeginsStall, CreateEndsStall, WritesStall, RunEndsStall DEF OneAtATime
<1>5. CASE \E p \in Schedulers : TickStep(p)
  <2>1. ASSUME NEW p \in Schedulers, TickRefused(p) PROVE StallInv'
    <3>1. tick' = [tick EXCEPT ![p] = NoTick] /\ UNCHANGED <<clock, deployment, runs, client>> /\ ~ NoTick.on
      BY <2>1 DEF TickRefused, NoTick
    <3> QED BY <3>1, TickMovesStall
  <2> QED BY <1>5, <2>1, TickBeginStall, TickSkipStall, TickRunStall, TickEndsStall DEF TickStep, OneAtATime
<1> QED BY <1>2, <1>3, <1>4, <1>5, StepCases

\* A schedule that stalls has a run of a tick for the first instant that is due.
LEMMA StalledBy ==
  ASSUME NEW d, NEW data \in Data, NEW now \in Nat, NEW rs, Spans(data, now),
         \A i \in DOMAIN rs : rs[i].by = "tick" \/ rs[i].due = 0,
         NEW due, due = {t \in data.upcoming : t <= now}, due # {},
         \E i \in DOMAIN rs : rs[i].deployment = d /\ rs[i].trigger = "schedule" /\ rs[i].due = Earliest(due)
  PROVE  \E i \in DOMAIN rs :
           /\ rs[i].by = "tick" /\ rs[i].trigger = "schedule" /\ rs[i].deployment = d
           /\ rs[i].due \in data.upcoming
           /\ \A t \in data.upcoming : t <= now => rs[i].due <= t
<1> DEFINE f == Earliest(due)
<1>1. due # {} /\ due \in SUBSET Nat
  BY DEF Data
<1>2. f \in due /\ \A t \in due : f <= t
  BY <1>1, EarliestIs
<1>3. PICK i \in DOMAIN rs : rs[i].deployment = d /\ rs[i].trigger = "schedule" /\ rs[i].due = f
  OBVIOUS
<1> HIDE DEF f
<1>4. f # 0
  <2>1. PICK s \in 0 .. now : data.upcoming = Upcoming(data.cron, s)
    BY DEF Spans
  <2>2. data.cron \in Crons \cup {Nothing}
    BY DEF Data
  <2> QED BY <1>2, <2>1, <2>2, UpcomingNat
<1> QED BY <1>2, <1>3, <1>4

\* A deployment after a step.
LEMMA StalledAfter ==
  ASSUME DepInv', StallInv', NEW d \in DeploymentIds, Stalled(d)'
  PROVE  /\ deployment'[d].exists
         /\ \E i \in DOMAIN runs' :
              /\ runs'[i].by = "tick" /\ runs'[i].trigger = "schedule" /\ runs'[i].deployment = d
              /\ runs'[i].due \in deployment'[d].data.upcoming
              /\ \A t \in deployment'[d].data.upcoming : t <= clock' => runs'[i].due <= t
<1> DEFINE due == {t \in deployment'[d].data.upcoming : t <= clock'}
<1>1. deployment'[d].exists
  BY DEF Stalled
<1>2. due # {} /\ \E i \in DOMAIN runs' :
        runs'[i].deployment = d /\ runs'[i].trigger = "schedule" /\ runs'[i].due = Earliest(due)
  BY <1>1 DEF Stalled, RunExists
<1>3. deployment'[d].data \in Data /\ clock' \in Nat
  <2>1. deployment'[d] \in DeploymentRows
    BY <1>1 DEF DepInv, RowsTyped, RowsMaybe, NoDeployment
  <2> QED BY <2>1, DeploymentBounds DEF DepInv, RowsTyped, DeploymentRows
<1>4. Spans(deployment'[d].data, clock') /\ \A i \in DOMAIN runs' : runs'[i].by = "tick" \/ runs'[i].due = 0
  BY <1>1 DEF StallInv, RowsSpan, RunsPast
<1>5. due = {t \in deployment'[d].data.upcoming : t <= clock'}
  OBVIOUS
<1> HIDE DEF due
<1> QED BY <1>1, <1>2, <1>3, <1>4, <1>5, StalledBy

\* It was stalled before if the run is not new and upcoming_runs_at is as it was.
LEMMA StalledBefore ==
  ASSUME DepInv, StallInv, NEW d \in DeploymentIds, deployment[d].exists, NEW i \in DOMAIN runs,
         runs[i].by = "tick", runs[i].trigger = "schedule", runs[i].deployment = d,
         runs[i].due \in deployment[d].data.upcoming,
         \A t \in deployment[d].data.upcoming : t <= clock => runs[i].due <= t
  PROVE  Stalled(d)
<1> DEFINE due == {t \in deployment[d].data.upcoming : t <= clock}
           f == Earliest(due)
<1>1. runs[i].due \in due
  BY DEF StallInv, RunsPast
<1>2. due \in SUBSET Nat
  BY RowTyped DEF DepInv, Data
<1>3. f \in due /\ \A t \in due : f <= t
  BY <1>1, <1>2, EarliestIs
<1> HIDE DEF f
<1>4. f = runs[i].due
  <2>1. f \in Nat /\ runs[i].due \in Nat /\ f <= runs[i].due /\ runs[i].due <= f
    BY <1>1, <1>2, <1>3
  <2> QED BY <2>1
<1>5. RunExists(d, f)
  BY <1>4 DEF RunExists
<1> QED BY <1>1, <1>5 DEF Stalled, f

\* No schedule stalls while its upcoming_runs_at and its runs stay.
LEMMA StallWrites ==
  ASSUME DepInv, IInv, StallInv, DepInv', StallInv', [DeploymentsNext]_allVars, NEW d \in DeploymentIds,
         ~ Stalled(d), Stalled(d)',
         deployment'[d].exists = deployment[d].exists,
         deployment'[d].data.upcoming = deployment[d].data.upcoming,
         \A k \in DOMAIN runs' :
           runs'[k].by = "tick" /\ runs'[k].deployment = d => k \in DOMAIN runs /\ runs'[k] = runs[k]
  PROVE  FALSE
<1>1. /\ deployment'[d].exists
      /\ \E i \in DOMAIN runs' :
           /\ runs'[i].by = "tick" /\ runs'[i].trigger = "schedule" /\ runs'[i].deployment = d
           /\ runs'[i].due \in deployment'[d].data.upcoming
           /\ \A t \in deployment'[d].data.upcoming : t <= clock' => runs'[i].due <= t
  BY StalledAfter
<1>2. PICK i \in DOMAIN runs :
        /\ runs[i].by = "tick" /\ runs[i].trigger = "schedule" /\ runs[i].deployment = d
        /\ runs[i].due \in deployment[d].data.upcoming
        /\ \A t \in deployment[d].data.upcoming : t <= clock' => runs[i].due <= t
  BY <1>1
<1>3. \A t \in deployment[d].data.upcoming : t <= clock => t <= clock'
  <2>1. deployment[d].data.upcoming \subseteq Nat
    BY <1>1, RowTyped DEF DepInv, Data
  <2> QED BY <2>1, ClockGrows
<1> QED BY <1>1, <1>2, <1>3, StalledBefore


\* Nor by a request that looked at the clock, if data is still what it read: a tick that created a
\* run since then would have advanced data.
LEMMA StallRequest ==
  ASSUME DepInv, StallInv, DepInv', StallInv', NEW d \in DeploymentIds, Stalled(d)',
         NEW c \in Clients, client[c].id = d, deployment[d].exists, client[c].data.cron = deployment[d].data.cron,
         LooksAhead(client[c], deployment[d], runs, clock),
         client[c].read.data = deployment[d].data, deployment'[d].data.upcoming = client[c].data.upcoming,
         \A k \in DOMAIN runs' : runs'[k].by = "tick" => k \in DOMAIN runs /\ runs'[k] = runs[k]
  PROVE  FALSE
<1> DEFINE data == client[c].data
           row == deployment[d]
<1>1. PICK i \in DOMAIN runs : runs[i].by = "tick" /\ runs[i].deployment = d /\ runs[i].due \in data.upcoming
  BY StalledAfter
<1>2. PICK s \in 0 .. clock :
        /\ data.upcoming = Upcoming(data.cron, s)
        /\ \A k \in DOMAIN runs : runs[k].by = "tick" /\ runs[k].deployment = d /\ runs[k].due > s =>
             \E t \in row.data.upcoming : t <= runs[k].due /\ \A v \in row.data.upcoming : v > t
  BY DEF LooksAhead
<1>3. data.cron \in Crons \cup {Nothing} /\ row.data.upcoming \subseteq Nat
  BY RowTyped DEF DepInv, Data
<1>4. s \in Nat
  BY DeploymentBounds DEF DepInv, RowsTyped
<1>5. runs[i].due > s
  BY <1>1, <1>2, <1>3, <1>4, UpcomingIs
<1>6. PICK t \in row.data.upcoming : \A v \in row.data.upcoming : v > t
  BY <1>1, <1>2, <1>5
<1>7. t \in Nat /\ t > t
  BY <1>3, <1>6
<1> QED BY <1>7

\* The witness of a stall.
LostBy(c, d) ==
  client[c].id = d /\ client'[c].op = "none" /\ client[c].read.data # deployment[d].data

\* The end of a request.
LEMMA RequestStalls ==
  ASSUME DepInv, IInv, StallInv, DepInv', StallInv', [DeploymentsNext]_allVars, NEW d \in DeploymentIds,
         ~ Stalled(d), Stalled(d)', NEW c \in Clients, Ends(c) \/ EndRun(c)
  PROVE  LostBy(c, d)
<1> DEFINE row == deployment[d]
<1>1. client'[c].op = "none"
  BY DEF Ends, EndUpdateDeployment, EndPause, EndUnpause, EndRun, ClientEnd, Quiet, DepInv, RequestsTyped
<1>2. CASE Ends(c)
  <2>1. PICK op \in WriteOps, data \in Data : client[c].op = op /\ EndWrite(c, op, data)
    BY <1>2, EndWriteIs
  <2>2. WriteRow(c, data) /\ runs' = runs
    BY <2>1 DEF EndWrite, WriteRow
  <2>3. /\ client[c].id \in DeploymentIds /\ deployment'[client[c].id].data = data
        /\ \A e \in DeploymentIds \ {client[c].id} : deployment'[e] = deployment[e]
    BY <2>1, <2>2, RowWritten
  <2>4. client[c].id = d
    BY <2>2, <2>3, StallWrites
  <2>5. row.exists /\ deployment'[d].exists = row.exists
    <3>1. row.exists
      BY <2>1, <2>4, RequestFacts DEF ClientOK
    <3>2. row \in DeploymentRows /\ deployment'[d] \in DeploymentRows
      BY <2>1, <2>2, <2>4, RowWritten
    <3> QED BY <3>1, <3>2 DEF DeploymentRows
  <2>6. Writable(client[c], row, runs, clock)
    BY <2>1, <2>4 DEF StallInv, RequestsWritable
  <2>7. ASSUME client[c].read.data = row.data PROVE FALSE
    <3>1. CASE op = "update"
      <4>1. data = client[c].data /\ LooksAhead(client[c], row, runs, clock) /\ client[c].data.cron = row.data.cron
        BY <2>1, <2>6, <3>1 DEF EndWrite, Writable
      <4> QED BY <2>2, <2>3, <2>4, <2>5, <2>7, <4>1, StallRequest
    <3>2. CASE op \in {"pause", "unpause"}
      <4>1. data.upcoming = row.data.upcoming
        BY <2>1, <2>4, <2>6, <2>7, <3>2 DEF EndWrite, Toggled, Writable
      <4> QED BY <2>2, <2>3, <2>4, <2>5, <4>1, StallWrites
    <3> QED BY <3>1, <3>2 DEF WriteOps
  <2> QED BY <1>1, <2>4, <2>7 DEF LostBy
<1>3. CASE EndRun(c)
  <2>1. /\ client[c].op = "run" /\ client[c].run \in Runs /\ client[c].run.by = "api"
        /\ runs' = Append(runs, client[c].run)
        /\ \/ deployment'[d] = row
           \/ /\ d = client[c].id /\ row \in DeploymentRows /\ client[c].data # Nothing
              /\ deployment'[d] = [row EXCEPT !.data = client[c].data]
    BY <1>3, RunEnds
  <2>2. \A k \in DOMAIN runs' : runs'[k].by = "tick" => k \in DOMAIN runs /\ runs'[k] = runs[k]
    BY <2>1, Appended DEF DepInv, RowsTyped
  <2>3. deployment'[d] # row
    BY <2>2, StallWrites
  <2>4. /\ d = client[c].id /\ row \in DeploymentRows /\ client[c].data # Nothing /\ row.exists
        /\ deployment'[d].data = client[c].data
    BY <2>1, <2>3 DEF DeploymentRows
  <2>5. LooksAhead(client[c], row, runs, clock) /\ client[c].data.cron = row.data.cron
    BY <2>1, <2>4 DEF StallInv, RequestsWritable, Writable
  <2>6. ASSUME client[c].read.data = row.data PROVE FALSE
    BY <2>2, <2>4, <2>5, <2>6, StallRequest
  <2> QED BY <1>1, <2>4, <2>6 DEF LostBy
<1> QED BY <1>2, <1>3

\* The end of a tick makes no schedule stall: what it leaves comes after its own time, and its
\* runs do not.
LEMMA TickNoStall ==
  ASSUME DepInv, IInv, StallInv, DepInv', StallInv', [DeploymentsNext]_allVars, NEW d \in DeploymentIds,
         ~ Stalled(d), Stalled(d)', NEW p \in Schedulers, TickCommit(p) \/ TickAgentGone(p)
  PROVE  FALSE
<1> DEFINE now == tick[p].now
<1>1. PICK i \in DOMAIN runs' :
        runs'[i].by = "tick" /\ runs'[i].deployment = d /\ runs'[i].due \in deployment'[d].data.upcoming
  BY StalledAfter
<1>2. now \in Nat /\ clock \in Nat /\ runs'[i].due <= now
  BY <1>1, TickWrites
<1>3. ASSUME NEW u \in now .. clock, deployment'[d].data.upcoming = Upcoming(deployment'[d].data.cron, u) PROVE FALSE
  <2>1. deployment'[d] \in DeploymentRows
    BY StalledAfter DEF DepInv, RowsTyped, RowsMaybe, NoDeployment
  <2>2. deployment'[d].data.cron \in Crons \cup {Nothing}
    BY <2>1 DEF DeploymentRows, Data
  <2>3. u \in Nat /\ now <= u
    BY <1>2
  <2>4. runs'[i].due \in Nat /\ runs'[i].due > u
    BY <1>1, <1>3, <2>2, <2>3, UpcomingIs
  <2> QED BY <1>2, <2>3, <2>4
<1>4. /\ deployment'[d].data = deployment[d].data /\ deployment'[d].exists = deployment[d].exists
      /\ \A k \in DOMAIN runs' : runs'[k].deployment = d => k \in DOMAIN runs /\ runs'[k] = runs[k]
  BY <1>3, TickWrites
<1> QED BY <1>4, StallWrites

LEMMA StallCause ==
  ASSUME DepInv, IInv, OneAtATime, StallInv, DepInv', StallInv', [DeploymentsNext]_allVars,
         NEW d \in DeploymentIds, ~ Stalled(d), Stalled(d)'
  PROVE  \E c \in Clients : LostBy(c, d)
<1>1. ASSUME SameData, runs' = runs PROVE FALSE
  BY <1>1, StallWrites DEF SameData
<1>2. CASE ArchiveDeployment \/ RunWithoutAgent \/ Elsewhere
  <2>1. SameData /\ runs' = runs
    BY <1>2, ArchiveIs, ArchivedFacts, ElsewhereIs DEF SameData
  <2> QED BY <1>1, <2>1
<1>3. CASE \E c \in Clients : Begins(c)
  BY <1>1, <1>3, BeginLeaves DEF SameData
<1>4. ASSUME NEW c \in Clients, EndCreateDeployment(c) PROVE FALSE
  <2>1. runs' = runs /\ (deployment[d].exists => deployment'[d] = deployment[d])
    BY <1>4, CreateEndsPause DEF EndCreateDeployment
  <2>2. deployment[d].exists
    BY <2>1, StalledAfter DEF StallInv, RunsPast
  <2> QED BY <2>1, <2>2, StallWrites
<1>5. CASE \E c \in Clients : Ends(c) \/ EndRun(c)
  BY <1>5, RequestStalls
<1>6. CASE \E p \in Schedulers : TickStep(p)
  <2>1. ASSUME NEW p \in Schedulers, TickBegin(p) \/ TickSkip(p) \/ TickRefused(p) \/ TickRun(p) PROVE FALSE
    BY <1>1, <2>1 DEF TickBegin, TickSkip, TickRefused, TickRun, SameData
  <2> QED BY <1>6, <2>1, TickNoStall DEF TickStep
<1> QED BY <1>2, <1>3, <1>4, <1>5, <1>6, StepCases

\* A schedule stalls only when a request writes data back whole that a tick has advanced since the
\* request read it.  For requests that do not overlap, one scheduler, and runs of the API that name
\* no instant: such a run may name one that is to come, and when it comes the schedule is stalled.
THEOREM StallsByLostUpdate == OneAtATime => (DeploymentsSpec => StallNeedsLostUpdate)
<1> SUFFICES ASSUME OneAtATime PROVE DeploymentsSpec => StallNeedsLostUpdate
  OBVIOUS
<1> DEFINE Cause == \A d \in DeploymentIds : ~Stalled(d) /\ Stalled(d)' =>
             \E c \in Clients : client[c].id = d /\ client'[c].op = "none"
                                  /\ client[c].read.data # deployment[d].data
<1>1. DeploymentsInit => StallInv
  BY DEF DeploymentsInit, DeploymentsStart, NoDeployment, NoTick, Quiet, StallInv, RunsPast, RowsSpan,
    TicksBehind, RequestsWritable, WriteOps
<1>2. DepInv /\ IInv /\ StallInv /\ [DeploymentsNext]_allVars => StallInv'
  BY StallStep
<1>3. DepInv /\ IInv /\ StallInv /\ DepInv' /\ StallInv' /\ [DeploymentsNext]_allVars => [Cause]_allVars
  BY StallCause DEF LostBy
<1> HIDE DEF Cause
<1>4. DeploymentsSpec => [][Cause]_allVars
  BY <1>1, <1>2, <1>3, DepAlways, PTL DEF DeploymentsSpec
<1> QED BY <1>4 DEF StallNeedsLostUpdate, Cause
=============================================================================
