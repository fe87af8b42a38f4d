------------------------------ MODULE Deployments ------------------------------
(***************************************************************************)
(* Deployments, their runs and the scheduler's tick                        *)
(* (app/routers/generic_resources.py), over the agents, vaults and         *)
(* environments they refer to.                                             *)
(*                                                                         *)
(* A route is one transaction: Begin reads and decides, End commits.  A    *)
(* tick is one transaction as well: it lists the deployments, takes them   *)
(* one after the other and commits at its end.  data is written whole;     *)
(* nothing locks what was read.                                            *)
(***************************************************************************)
EXTENDS Agents, Vaults, Sequences

CONSTANTS
  MaxDeployments, \* bound: create_deployment gives the ids 1 .. MaxDeployments, in this order
  Crons,          \* cron expressions with their timezones
  CronTimes,      \* the instants that match each of them
  Ahead,          \* instants in upcoming_runs_at, 5 in the code
  Clients,        \* HTTP requests on deployments in flight at the same time
  Schedulers,     \* callers of run_due_scheduled_deployments at the same time
  TickLimit,      \* limit of a tick, 100 in the code
  ApiSchedules,   \* POST .../run may name the time that it is scheduled for
  MaxClock, MaxRuns \* bounds

ASSUME CronAssumption == CronTimes \in [Crons -> SUBSET (Nat \ {0})] /\ Nothing \notin Crons
ASSUME DeploymentBounds ==
  /\ MaxDeployments \in Nat /\ Ahead \in Nat \ {0} /\ TickLimit \in Nat \ {0}
  /\ MaxClock \in Nat /\ MaxRuns \in Nat /\ ApiSchedules \in BOOLEAN

VARIABLES
  clock,          \* utcnow, in units of the schedules
  environment,    \* the status of the environment the deployments name
  deployment,     \* the deployment rows
  runs,           \* the deployment_run rows, with the session each created
  client,         \* the requests
  tick            \* the ticks

depVars == <<clock, environment, deployment, runs, client, tick>>
registryVars == <<agentVars, vaultVars>>
allVars == <<registryVars, depVars>>

-----------------------------------------------------------------------------
(* Data. *)

DeploymentIds == 1 .. MaxDeployments

\* data, as far as it decides.  cron is Nothing without a schedule.
Data == [status : {"active", "paused"}, agent : Agents, version : Nat \ {0}, vaults : SUBSET VaultIds,
         cron : Crons \cup {Nothing}, enabled : BOOLEAN, upcoming : SUBSET Nat]

\* The column status beside that of data; archived stands for archived_at.
DeploymentRows == [exists : {TRUE}, archived : BOOLEAN, status : {"active", "paused", "archived"}, data : Data]

NoDeployment == [exists |-> FALSE, archived |-> FALSE, status |-> "active", data |-> Nothing]

\* session is what was pinned, or Nothing when its creation failed.
Runs == [deployment : DeploymentIds, by : {"api", "tick"}, trigger : {"manual", "schedule"},
         due : Nat, status : {"queued", "error"}, session : {Nothing} \cup Pins]

\* _upcoming_cron_runs: the next instants after the current one.
Upcoming(cron, now) ==
  IF cron = Nothing THEN {}
  ELSE {t \in CronTimes[cron] : t > now /\ Cardinality({u \in CronTimes[cron] : now < u /\ u < t}) < Ahead}

Paused(row) == row.status = "paused" \/ row.data.status = "paused"

\* _scheduled_deployment_run_exists.  The code looks at the newest 1000 runs of the
\* deployment, manual ones included: more than MaxRuns allows.
RunExists(d, t) == \E i \in DOMAIN runs : runs[i].deployment = d /\ runs[i].trigger = "schedule" /\ runs[i].due = t

Candidates(row, now) ==
  IF Paused(row) \/ row.data.cron = Nothing \/ ~row.data.enabled THEN {}
  ELSE {t \in row.data.upcoming : t <= now}

Earliest(times) == CHOOSE t \in times : \A u \in times : t <= u

\* Mutant: without the look-up of the runs.
DueTimesUnchecked(d, row, now) == {t \in Candidates(row, now) : t = Earliest(Candidates(row, now))}

\* _scheduled_deployment_due_at: a set of at most one instant.
DueTimes(d, row, now) ==
  {t \in Candidates(row, now) : t = Earliest(Candidates(row, now)) /\ ~RunExists(d, t)}

-----------------------------------------------------------------------------
(* Running a deployment. *)

\* _maybe_create_deployment_session: a DeploymentRunCreationError is an error of the run.
SessionFor(a, n) ==
  IF Usable(a) /\ VersionsAt(a, n) # {} /\ environment = "active"
    THEN [agent |-> a, version |-> n] ELSE Nothing

\* Mutant: the schedule is left as it is.
AdvancedKept(row) == row.data

\* A scheduled run computes upcoming_runs_at anew.
Advanced(row) == [row.data EXCEPT !.upcoming = Upcoming(row.data.cron, clock)]

NewRun(d, by, trigger, due, session) ==
  [deployment |-> d, by |-> by, trigger |-> trigger, due |-> due,
   status |-> IF session = Nothing THEN "error" ELSE "queued", session |-> session]

\* The refusals of _run_deployment_resource: the transaction ends without a commit.
\* The vaults are looked at only when there is a session to create.
Refused(row, trigger, a, n) ==
  \/ row.archived
  \/ Paused(row) /\ trigger # "manual"
  \/ Usable(row.data.agent) /\ SessionFor(a, n) # Nothing /\ \E v \in row.data.vaults : ~VaultUsable(v)

\* _archive_if_deployment_agent_unusable: the deployment is archived, committed, and the
\* request answered 409.
AgentGone(row) == ~Usable(row.data.agent)

-----------------------------------------------------------------------------
(* Requests. *)

Quiet == [op |-> "none", id |-> 0, data |-> Nothing, read |-> Nothing, run |-> Nothing]

ClientBegin(c, op, d, data, run) ==
  /\ client[c].op = "none"
  /\ client' = [client EXCEPT ![c] = [op |-> op, id |-> d, data |-> data, run |-> run,
                                     read |-> IF d = 0 THEN Nothing ELSE deployment[d]]]
  /\ UNCHANGED <<clock, environment, deployment, runs, tick, registryVars>>

ClientEnd(c, op) ==
  /\ client[c].op = op
  /\ client' = [client EXCEPT ![c] = Quiet]
  /\ UNCHANGED <<clock, environment, tick, registryVars>>

\* _normalize_deployment_data and _validate_deployment_definition of what the body and
\* the row make together, a set of at most one value.  Vaults are not looked at.
Normalized(status, a, n, vaults, cron, enabled) ==
  {[status |-> status, agent |-> a, version |-> v.number, vaults |-> vaults, cron |-> cron,
    enabled |-> enabled, upcoming |-> Upcoming(cron, clock)] :
     v \in {v \in VersionsAt(a, PinnedNumber(a, n)) : Usable(a) /\ environment = "active"}}

BeginCreateDeployment(c) ==
  \E a \in Agents, n \in 0 .. MaxVersion, vaults \in SUBSET VaultIds, cron \in Crons \cup {Nothing} :
    \E data \in Normalized("active", a, n, vaults, cron, TRUE) : ClientBegin(c, "create", 0, data, Nothing)

EndCreateDeployment(c) ==
  /\ ClientEnd(c, "create")
  /\ \E d \in DeploymentIds :
       /\ ~deployment[d].exists /\ \A e \in 1 .. d - 1 : deployment[e].exists
       /\ deployment' = [deployment EXCEPT ![d] = [exists |-> TRUE, archived |-> FALSE,
                           status |-> client[c].data.status, data |-> client[c].data]]
  /\ UNCHANGED runs

\* _must_exist and _ensure_deployment_mutable.
Mutable(d) == deployment[d].exists /\ ~deployment[d].archived

\* The vaults and the schedule's expression are kept; every update computes
\* upcoming_runs_at anew.
BeginUpdateDeployment(c) ==
  \E d \in DeploymentIds, a \in Agents, status \in {"active", "paused"}, enabled \in BOOLEAN :
    /\ Mutable(d)
    /\ LET old == deployment[d].data
           n == IF a = old.agent THEN old.version ELSE 0 IN
         \E data \in Normalized(status, a, n, old.vaults, old.cron, enabled) :
           ClientBegin(c, "update", d, data, Nothing)

BeginPause(c) ==
  \E d \in DeploymentIds : Mutable(d) /\
    ClientBegin(c, "pause", d, [deployment[d].data EXCEPT !.status = "paused"], Nothing)

BeginUnpause(c) ==
  \E d \in DeploymentIds : Mutable(d) /\
    ClientBegin(c, "unpause", d, [deployment[d].data EXCEPT !.status = "active"], Nothing)

\* The column status is written only if it differs from what was read.
WriteRow(c, data) ==
  /\ deployment' = [deployment EXCEPT
       ![client[c].id].data = data,
       ![client[c].id].status = IF client[c].data.status = client[c].read.status THEN @ ELSE client[c].data.status]
  /\ UNCHANGED runs

\* An update writes data even if what decides stays the same: a name has changed.
EndUpdateDeployment(c) == ClientEnd(c, "update") /\ WriteRow(c, client[c].data)

\* The data that a pause or an unpause leaves: it is written whole, or not at all if it
\* is what was read.
Toggled(c) == IF client[c].data = client[c].read.data THEN deployment[client[c].id].data ELSE client[c].data

EndPause(c) == ClientEnd(c, "pause") /\ WriteRow(c, Toggled(c))

EndUnpause(c) == ClientEnd(c, "unpause") /\ WriteRow(c, Toggled(c))

\* Mutant: the status of a deleted row.
ArchivedRowDeleted(row) == [row EXCEPT !.archived = TRUE, !.status = "deleted"]

\* archive_resource: archived_at and the column status.
ArchivedRow(row) == [row EXCEPT !.archived = TRUE, !.status = "archived"]

ArchiveDeployment ==
  \E d \in DeploymentIds :
    /\ deployment[d].exists
    /\ deployment' = [deployment EXCEPT ![d] = ArchivedRow(@)]
    /\ UNCHANGED <<clock, environment, runs, client, tick, registryVars>>

\* run_deployment: the body may name another agent for the session.
BeginRun(c) ==
  \E d \in DeploymentIds, trigger \in {"manual", "schedule"}, a \in Agents :
    LET row == deployment[d]
        n == IF a = row.data.agent THEN row.data.version ELSE agent[a].active
        dues == IF ApiSchedules /\ trigger = "schedule" THEN {0} \cup row.data.upcoming ELSE {0} IN
      /\ row.exists /\ ~AgentGone(row) /\ ~Refused(row, trigger, a, n)
      /\ Len(runs) < MaxRuns
      /\ \E due \in dues :
           ClientBegin(c, "run", d,
                       IF trigger = "schedule" /\ row.data.cron # Nothing THEN Advanced(row) ELSE Nothing,
                       NewRun(d, "api", trigger, due, SessionFor(a, n)))

\* Mutant: the whole row is written.
RanRowWhole(c) == IF client[c].data = Nothing THEN deployment[client[c].id] ELSE [client[c].read EXCEPT !.data = client[c].data]

\* A row after a run, which writes data alone, and a scheduled one only.
RanRow(c) ==
  IF client[c].data = Nothing THEN deployment[client[c].id]
  ELSE [deployment[client[c].id] EXCEPT !.data = client[c].data]

EndRun(c) ==
  /\ ClientEnd(c, "run")
  /\ runs' = Append(runs, client[c].run)
  /\ deployment' = [deployment EXCEPT ![client[c].id] = RanRow(c)]

\* A run of a deployment whose agent is gone: 409, the deployment is archived.
RunWithoutAgent ==
  \E d \in DeploymentIds :
    /\ Mutable(d) /\ AgentGone(deployment[d])
    /\ deployment' = [deployment EXCEPT ![d] = ArchivedRow(@)]
    /\ UNCHANGED <<clock, environment, runs, client, tick, registryVars>>

-----------------------------------------------------------------------------
(* The tick of the scheduler, run_due_scheduled_deployments, and its       *)
(* caller's commit.                                                        *)

\* listed are the rows as list_resources found them, next the one to look at, pending
\* what the transaction has written.
NoTick == [on |-> FALSE, now |-> 0, listed |-> Nothing, next |-> 0, pending |-> <<>>]

TickBegin(p) ==
  /\ ~tick[p].on
  /\ tick' = [tick EXCEPT ![p] =
       [on |-> TRUE, now |-> clock, next |-> MaxDeployments, pending |-> <<>>,
        listed |-> [d \in DeploymentIds |-> IF Mutable(d) THEN deployment[d] ELSE NoDeployment]]]
  /\ UNCHANGED <<clock, environment, deployment, runs, client, registryVars>>

Ticking(p) == tick[p].on /\ tick[p].next > 0 /\ Len(tick[p].pending) < TickLimit

\* The next deployment, newest first, and the instant it is due at.
TickDues(p) ==
  LET row == tick[p].listed[tick[p].next] IN
    IF row.exists THEN DueTimes(tick[p].next, row, tick[p].now) ELSE {}

TickSkip(p) ==
  /\ Ticking(p) /\ TickDues(p) = {}
  /\ tick' = [tick EXCEPT ![p].next = @ - 1]
  /\ UNCHANGED <<clock, environment, deployment, runs, client, registryVars>>

TickRun(p) ==
  /\ Ticking(p)
  /\ LET d == tick[p].next
         row == tick[p].listed[d] IN
       \E due \in TickDues(p) :
         /\ ~AgentGone(row) /\ ~Refused(row, "schedule", row.data.agent, row.data.version)
         /\ tick' = [tick EXCEPT ![p].next = @ - 1,
              ![p].pending = Append(@, [data |-> Advanced(row),
                run |-> NewRun(d, "tick", "schedule", due, SessionFor(row.data.agent, row.data.version))])]
  /\ UNCHANGED <<clock, environment, deployment, runs, client, registryVars>>

\* The exception reaches the caller: nothing is committed, of no deployment.
TickRefused(p) ==
  /\ Ticking(p)
  /\ LET row == tick[p].listed[tick[p].next] IN
       TickDues(p) # {} /\ ~AgentGone(row) /\ Refused(row, "schedule", row.data.agent, row.data.version)
  /\ tick' = [tick EXCEPT ![p] = NoTick]
  /\ UNCHANGED <<clock, environment, deployment, runs, client, registryVars>>

\* A row after the commit of the tick, which writes data and neither status nor
\* archived_at.
PendingRow(p, d) ==
  LET mine == {i \in DOMAIN tick[p].pending : tick[p].pending[i].run.deployment = d} IN
    IF mine = {} THEN deployment[d] ELSE [deployment[d] EXCEPT !.data = tick[p].pending[CHOOSE i \in mine : TRUE].data]

PendingRuns(p) == runs \o [i \in DOMAIN tick[p].pending |-> tick[p].pending[i].run]

\* The deployment is archived and what is pending is committed; then the exception.
TickAgentGone(p) ==
  /\ Ticking(p)
  /\ TickDues(p) # {} /\ AgentGone(tick[p].listed[tick[p].next])
  /\ deployment' = [d \in DeploymentIds |->
                      IF d = tick[p].next THEN ArchivedRow(deployment[d]) ELSE PendingRow(p, d)]
  /\ runs' = PendingRuns(p)
  /\ tick' = [tick EXCEPT ![p] = NoTick]
  /\ UNCHANGED <<clock, environment, client, registryVars>>

TickCommit(p) ==
  /\ tick[p].on /\ ~Ticking(p)
  /\ deployment' = [d \in DeploymentIds |-> PendingRow(p, d)]
  /\ runs' = PendingRuns(p)
  /\ tick' = [tick EXCEPT ![p] = NoTick]
  /\ UNCHANGED <<clock, environment, client, registryVars>>

Pass ==
  /\ clock < MaxClock
  /\ clock' = clock + 1
  /\ UNCHANGED <<environment, deployment, runs, client, tick, registryVars>>

\* archive_environment and delete_environment: for a deployment they are the same.
CloseEnvironment ==
  /\ environment' = "closed"
  /\ UNCHANGED <<clock, deployment, runs, client, tick, registryVars>>

DeploymentsStart ==
  /\ VaultsInit
  /\ clock = 0 /\ environment = "active"
  /\ deployment = [d \in DeploymentIds |-> NoDeployment]
  /\ runs = <<>>
  /\ client = [c \in Clients |-> Quiet]
  /\ tick = [p \in Schedulers |-> NoTick]

DeploymentsInit == AgentsInit /\ DeploymentsStart

DeploymentWrites ==
  \/ \E c \in Clients : BeginCreateDeployment(c)
  \/ \E c \in Clients : EndCreateDeployment(c)
  \/ \E c \in Clients : BeginUpdateDeployment(c)
  \/ \E c \in Clients : EndUpdateDeployment(c)
  \/ \E c \in Clients : BeginPause(c)
  \/ \E c \in Clients : EndPause(c)
  \/ \E c \in Clients : BeginUnpause(c)
  \/ \E c \in Clients : EndUnpause(c)
  \/ \E c \in Clients : BeginRun(c)
  \/ \E c \in Clients : EndRun(c)
  \/ ArchiveDeployment
  \/ RunWithoutAgent
  \/ CloseEnvironment

TickStep(p) == TickBegin(p) \/ TickSkip(p) \/ TickRun(p) \/ TickRefused(p) \/ TickAgentGone(p) \/ TickCommit(p)

DeploymentsNext ==
  \/ DeploymentWrites
  \/ Pass
  \/ \E p \in Schedulers : TickStep(p)
  \/ AgentWrites /\ UNCHANGED <<vaultVars, depVars>>
  \/ (ArchiveVault \/ DeleteVault) /\ UNCHANGED <<agentVars, depVars>>

DeploymentsSpec == DeploymentsInit /\ [][DeploymentsNext]_allVars

-----------------------------------------------------------------------------
(* Properties. *)

\* Rows, requests and ticks have their types.
DeploymentsTypeOK ==
  /\ clock \in 0 .. MaxClock /\ environment \in {"active", "closed"}
  /\ deployment \in [DeploymentIds -> DeploymentRows \cup {NoDeployment}]
  /\ \A i \in DOMAIN runs : runs[i] \in Runs
  /\ \A c \in Clients : client[c].run \in {Nothing} \cup Runs
  /\ \A p \in Schedulers : \A i \in DOMAIN tick[p].pending : tick[p].pending[i].run \in Runs

\* Ticks that do not overlap create one run for one instant of a schedule, even when
\* overlapping requests bring instants back into upcoming_runs_at ("idempotently",
\* docs/deployments.md).
TickDueOnce ==
  \A i, j \in DOMAIN runs :
    i # j /\ runs[i].deployment = runs[j].deployment /\ runs[i].trigger = "schedule" /\ runs[j].trigger = "schedule"
      /\ runs[i].due = runs[j].due => "api" \in {runs[i].by, runs[j].by}

\* A paused schedule is resumed by an unpause or an update only: not by the tick or the
\* run that overlaps with the pause and writes data with its old status.  As long as
\* updates, pauses and unpauses do not overlap with one another.
PauseOutlivesTick ==
  [][\A d \in DeploymentIds : deployment[d].exists /\ Paused(deployment[d]) /\ ~Paused(deployment'[d]) =>
       \/ deployment'[d].archived
       \/ \E c \in Clients : client[c].op \in {"update", "unpause"} /\ client[c].id = d
                              /\ client'[c].op = "none"]_allVars

\* The earliest instant that is due has its run already: no tick creates another run
\* of this deployment until data is written again.
Stalled(d) ==
  LET due == IF deployment[d].exists THEN {t \in deployment[d].data.upcoming : t <= clock} ELSE {} IN
    due # {} /\ RunExists(d, Earliest(due))

\* A schedule stalls only by a lost update: a request that read data before a tick
\* advanced it, and writes it back whole.  With one scheduler and runs that name no
\* instant (ApiSchedules is FALSE): a run ahead of its time stalls a schedule alone, see
\* ScheduleNotStalled.
StallNeedsLostUpdate ==
  [][\A d \in DeploymentIds : ~Stalled(d) /\ Stalled(d)' =>
       \E c \in Clients : client[c].id = d /\ client'[c].op = "none"
                            /\ client[c].read.data # deployment[d].data]_allVars

\* A schedule whose time has come is run (docs/deployments.md: "creates due scheduled
\* deployment runs and linked sessions idempotently"), whatever runs there are.
ScheduleNotStalled == \A d \in DeploymentIds : ~Stalled(d)
=============================================================================
