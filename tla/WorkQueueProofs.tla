--------------------------- MODULE WorkQueueProofs ---------------------------
(* Type correctness of WorkQueue, and who survives a race for a lease, for any *)
(* number of items, workers and requests.                                      *)
EXTENDS WorkQueue, TLAPS

-----------------------------------------------------------------------------
(* Type correctness. *)

\* What a transaction holds of a row.
Versions == [old : Rows, new : Rows]

Txns == UNION {[D -> Versions] : D \in SUBSET Works}

ExecRecords == [pc : ExecPCs, item : 0 .. MaxWork, txn : Txns]

CallRecords == [made : BOOLEAN, open : BOOLEAN, txn : Txns]

\* An execution that goes on has an item, and finishes it with the row it read.
HasItem(record) ==
  /\ record.pc \notin {"poll", "exited"} => record.item \in Works
  /\ record.pc = "finishRead" => record.item \in DOMAIN record.txn

Held == {record \in ExecRecords : HasItem(record)}

Typed ==
  /\ work \in [Works -> Rows]
  /\ session \in [Sessions -> SessionRows]
  /\ exec \in [Executors -> Held]
  /\ call \in [Calls -> CallRecords]
  /\ faults \in 0 .. MaxFaults

LEMMA TxnValues ==
  /\ NoTxn \in Txns
  /\ \A w \in Works, new \in Rows :
       work \in [Works -> Rows] => Txn(w, new) \in Txns /\ DOMAIN Txn(w, new) = {w}
<1>1. NoTxn \in Txns
  <2>1. NoTxn \in [{} -> Versions]
    BY DEF NoTxn
  <2> QED
    BY <2>1 DEF Txns
<1>2. ASSUME NEW w \in Works, NEW new \in Rows, work \in [Works -> Rows]
      PROVE  Txn(w, new) \in Txns /\ DOMAIN Txn(w, new) = {w}
  <2>1. Txn(w, new) \in [{w} -> Versions]
    BY <1>2 DEF Txn, Versions
  <2> QED
    BY <1>2, <2>1 DEF Txns
<1> QED
  BY <1>1, <1>2

\* The rows the queue writes are rows.
LEMMA RowValues ==
  /\ Absent \in Rows /\ Queued \in Rows
  /\ \A row \in Rows, status \in WorkStatuses : [row EXCEPT !.status = status] \in Rows
  /\ \A row \in Rows, id \in Ids \cup {Nobody} : Lease(row, id) \in Rows
  /\ \A row \in Rows : [row EXCEPT !.left = 0] \in Rows
  /\ \A row \in Rows, id \in Ids \cup {Nobody} :
       [row EXCEPT !.status = "running", !.left = LeaseSeconds, !.owner = id] \in Rows
  /\ \A row \in Rows : [row EXCEPT !.left = Less(@), !.retry = Less(@)] \in Rows
  /\ \A e \in Executors : IdOf(e) \in Ids \cup {Nobody}
<1>1. 0 \in 0 .. LeaseSeconds /\ LeaseSeconds \in 0 .. LeaseSeconds /\ 0 \in 0 .. RetrySeconds
  BY TimesAssumption
<1>2. {"absent", "queued", "leased", "running"} \subseteq WorkStatuses
  BY DEF WorkStatuses, Leased
<1>3. Absent \in Rows /\ Queued \in Rows
  BY <1>1, <1>2 DEF Absent, Queued, Rows
<1>4. \A row \in Rows, status \in WorkStatuses : [row EXCEPT !.status = status] \in Rows
  BY DEF Rows
<1>5. \A row \in Rows, id \in Ids \cup {Nobody} : Lease(row, id) \in Rows
  BY <1>1, <1>2 DEF Lease, Rows
<1>6. \A row \in Rows : [row EXCEPT !.left = 0] \in Rows
  BY <1>1 DEF Rows
<1>7. \A row \in Rows, id \in Ids \cup {Nobody} :
        [row EXCEPT !.status = "running", !.left = LeaseSeconds, !.owner = id] \in Rows
  BY <1>1, <1>2 DEF Rows
<1>8. \A row \in Rows : [row EXCEPT !.left = Less(@), !.retry = Less(@)] \in Rows
  <2>1. \A n \in 0 .. LeaseSeconds : Less(n) \in 0 .. LeaseSeconds
    BY TimesAssumption DEF Less
  <2>2. \A n \in 0 .. RetrySeconds : Less(n) \in 0 .. RetrySeconds
    BY TimesAssumption DEF Less
  <2> QED
    BY <2>1, <2>2 DEF Rows
<1>9. \A e \in Executors : IdOf(e) \in Ids \cup {Nobody}
  BY DEF IdOf, Ids
<1> QED
  BY <1>3, <1>4, <1>5, <1>6, <1>7, <1>8, <1>9

LEMMA CommitTyped ==
  ASSUME NEW txn \in Txns, work \in [Works -> Rows], Commit(txn)
  PROVE  work' \in [Works -> Rows]
<1>1. PICK D \in SUBSET Works : txn \in [D -> Versions]
  BY DEF Txns
<1> SUFFICES ASSUME NEW w \in Works PROVE work'[w] \in Rows
  BY DEF Commit
<1>2. CASE w \notin D
  BY <1>1, <1>2 DEF Commit
<1>3. CASE w \in D
  <2>1. txn[w] \in Versions
    BY <1>1, <1>3
  <2>2. txn[w].new \in Rows /\ work[w].status \in WorkStatuses /\ txn[w].new.status \in WorkStatuses
    BY <2>1 DEF Versions, Rows
  <2>3. work'[w] = [txn[w].new EXCEPT !.status =
                      IF @ = txn[w].old.status THEN work[w].status ELSE @]
    BY <1>1, <1>3 DEF Commit
  <2> QED
    BY <2>2, <2>3 DEF Rows
<1> QED
  BY <1>2, <1>3

\* The records an execution can have next.
LEMMA RecordValues ==
  /\ Exited \in Held
  /\ \A record \in Held, pc \in ExecPCs :
       pc \in {"poll", "exited"} \/ (pc # "finishRead" /\ record.item \in Works)
         => [record EXCEPT !.pc = pc] \in Held
  /\ \A record \in Held, pc \in ExecPCs, txn \in Txns :
       record.item \in Works /\ (pc = "finishRead" => record.item \in DOMAIN txn)
         => [record EXCEPT !.pc = pc, !.txn = txn] \in Held
  /\ \A w \in Works, txn \in Txns :
       [pc |-> "leaseCommit", item |-> w, txn |-> txn] \in Held
  /\ \A record \in Held, w \in Works :
       [record EXCEPT !.pc = "execute", !.item = w] \in Held
  /\ [pc |-> "poll", item |-> 0, txn |-> NoTxn] \in Held
<1>1. \A w \in Works : w \in 0 .. MaxWork
  BY WorkAssumption DEF Works
<1>2. 0 \in 0 .. MaxWork
  BY WorkAssumption
<1>3. Exited \in Held /\ [pc |-> "poll", item |-> 0, txn |-> NoTxn] \in Held
  BY <1>2, TxnValues DEF Held, ExecRecords, HasItem, Exited, ExecPCs
<1>4. \A record \in Held, pc \in ExecPCs :
        pc \in {"poll", "exited"} \/ (pc # "finishRead" /\ record.item \in Works)
          => [record EXCEPT !.pc = pc] \in Held
  BY DEF Held, ExecRecords, HasItem
<1>5. \A record \in Held, pc \in ExecPCs, txn \in Txns :
        record.item \in Works /\ (pc = "finishRead" => record.item \in DOMAIN txn)
          => [record EXCEPT !.pc = pc, !.txn = txn] \in Held
  BY DEF Held, ExecRecords, HasItem
<1>6. \A w \in Works, txn \in Txns :
        [pc |-> "leaseCommit", item |-> w, txn |-> txn] \in Held
  BY <1>1 DEF Held, ExecRecords, HasItem, ExecPCs
<1>7. \A record \in Held, w \in Works :
        [record EXCEPT !.pc = "execute", !.item = w] \in Held
  BY <1>1 DEF Held, ExecRecords, HasItem, ExecPCs
<1> QED
  BY <1>3, <1>4, <1>5, <1>6, <1>7

\* A step of one execution that leaves the requests.
LEMMA ExecutionGoesOn ==
  ASSUME Typed, NEW e \in Executors, NEW record \in Held, exec' = [exec EXCEPT ![e] = record]
  PROVE  exec' \in [Executors -> Held]
BY DEF Typed

LEMMA ExecutionMoves ==
  ASSUME Typed, NEW e \in Executors, exec[e].pc \notin {"poll", "exited"}
  PROVE  /\ \A pc \in ExecPCs \ {"finishRead"} : Goto(e, pc) => exec' \in [Executors -> Held]
         /\ \A pc \in ExecPCs \ {"finishRead"}, txn \in Txns :
              Hold(e, pc, txn) => exec' \in [Executors -> Held]
         /\ Return(e) => exec' \in [Executors -> Held]
         /\ exec[e].item \in Works /\ SessionOf[exec[e].item] \in Sessions
<1>1. exec \in [Executors -> Held] /\ exec[e].item \in Works
  BY DEF Typed, Held, HasItem
<1>2. ASSUME NEW pc \in ExecPCs \ {"finishRead"}, Goto(e, pc)
      PROVE  exec' \in [Executors -> Held]
  <2>1. exec' = [exec EXCEPT ![e] = [exec[e] EXCEPT !.pc = pc]]
    BY <1>1, <1>2 DEF Goto
  <2>2. PICK record \in Held : exec' = [exec EXCEPT ![e] = record]
    BY <1>1, <2>1, RecordValues
  <2> QED
    BY <2>2, ExecutionGoesOn
<1>3. ASSUME NEW pc \in ExecPCs \ {"finishRead"}, NEW txn \in Txns, Hold(e, pc, txn)
      PROVE  exec' \in [Executors -> Held]
  <2>1. exec' = [exec EXCEPT ![e] = [exec[e] EXCEPT !.pc = pc, !.txn = txn]]
    BY <1>1, <1>3 DEF Hold
  <2>2. PICK record \in Held : exec' = [exec EXCEPT ![e] = record]
    BY <1>1, <2>1, RecordValues
  <2> QED
    BY <2>2, ExecutionGoesOn
<1>4. ASSUME Return(e) PROVE exec' \in [Executors -> Held]
  <2>1. PICK record \in Held : exec' = [exec EXCEPT ![e] = record]
    BY <1>4, RecordValues DEF Return, Exited
  <2> QED
    BY <2>1, ExecutionGoesOn
<1> QED
  BY <1>1, <1>2, <1>3, <1>4 DEF Sessions

LEMMA ExecutionTyped ==
  ASSUME Typed, NEW e \in Executors, ExecStep(e)
  PROVE  Typed'
<1>1. /\ work \in [Works -> Rows] /\ session \in [Sessions -> SessionRows]
      /\ exec \in [Executors -> Held] /\ call \in [Calls -> CallRecords]
      /\ faults \in 0 .. MaxFaults
      /\ exec[e].txn \in Txns
  BY DEF Typed, Held, ExecRecords
<1>2. {"leaseCommit", "execute", "executeCommit", "start", "turn", "raised", "raisedCommit",
       "finish", "finishCommit"} \subseteq ExecPCs \ {"finishRead"}
  BY DEF ExecPCs
<1>3. CASE Poll(e)
  <2>1. PICK w \in Works : exec' = [exec EXCEPT ![e] =
            [pc |-> "leaseCommit", item |-> w, txn |-> Txn(w, Lease(work[w], IdOf(e)))]]
    BY <1>3 DEF Poll
  <2>2. Txn(w, Lease(work[w], IdOf(e))) \in Txns
    BY <1>1, RowValues, TxnValues
  <2>3. PICK record \in Held : exec' = [exec EXCEPT ![e] = record]
    BY <2>1, <2>2, RecordValues
  <2> QED
    BY <1>1, <1>3, <2>3, ExecutionGoesOn DEF Typed, Poll
<1>4. CASE LeaseCommit(e) \/ ExecuteCommit(e)
  <2>1. /\ exec[e].pc \in {"leaseCommit", "executeCommit"}
        /\ Commit(exec[e].txn)
        /\ Hold(e, "execute", NoTxn) \/ Hold(e, "start", NoTxn)
        /\ UNCHANGED <<session, call, faults>>
    BY <1>4 DEF LeaseCommit, ExecuteCommit
  <2>2. work' \in [Works -> Rows]
    BY <1>1, <2>1, CommitTyped
  <2>3. exec' \in [Executors -> Held]
    BY <1>2, <2>1, ExecutionMoves, TxnValues
  <2> QED
    BY <1>1, <2>1, <2>2, <2>3 DEF Typed
<1>5. CASE Execute(e)
  <2>1. exec[e].pc = "execute"
    BY <1>5 DEF Execute
  <2>2. exec[e].item \in Works
    BY <2>1, ExecutionMoves
  <2> DEFINE new == [work[exec[e].item] EXCEPT !.status = "running"]
  <2>3. Txn(exec[e].item, new) \in Txns
    <3>1. new \in Rows
      BY <1>1, <2>2, RowValues DEF WorkStatuses, Leased
    <3> QED
      BY <1>1, <2>2, <3>1, TxnValues
  <2>4. \/ exec' = [exec EXCEPT ![e] = Exited]
        \/ Hold(e, "executeCommit", Txn(exec[e].item, new))
        \/ Return(e)
    BY <1>5 DEF Execute
  <2> HIDE DEF new
  <2>5. exec' \in [Executors -> Held]
    BY <1>2, <2>1, <2>3, <2>4, ExecutionMoves, ExecutionGoesOn, RecordValues
  <2> QED
    BY <1>1, <1>5, <2>5 DEF Typed, Execute
<1>6. CASE Start(e)
  <2> DEFINE s == SessionOf[exec[e].item]
  <2>1. exec[e].pc = "start"
    BY <1>6 DEF Start
  <2>2. s \in Sessions
    BY <2>1, ExecutionMoves
  <2>3. /\ Goto(e, "turn") \/ Goto(e, "finish") \/ Goto(e, "raised")
        /\ \/ session' = [session EXCEPT ![s].status = "running", ![s].retry = 0]
           \/ UNCHANGED session
    BY <1>6 DEF Start
  <2>4. exec' \in [Executors -> Held]
    BY <1>2, <2>1, <2>3, ExecutionMoves
  <2>5. session' \in [Sessions -> SessionRows]
    BY <1>1, <2>2, <2>3, TimesAssumption DEF SessionRows
  <2> QED
    BY <1>1, <1>6, <2>4, <2>5 DEF Typed, Start
<1>7. CASE Turn(e)
  <2> DEFINE s == SessionOf[exec[e].item]
             attempt == session[s].attempt + 1
  <2>1. exec[e].pc = "turn" /\ Goto(e, "finish") /\ UNCHANGED <<work, call>>
    BY <1>7 DEF Turn
  <2>2. s \in Sessions
    BY <2>1, ExecutionMoves
  <2>3. exec' \in [Executors -> Held]
    BY <1>2, <2>1, ExecutionMoves
  <2>4. faults' \in 0 .. MaxFaults
    BY <1>1, <1>7, TimesAssumption DEF Turn
  <2>5. /\ [status |-> "idle", attempt |-> 0, retry |-> 0] \in SessionRows
        /\ [status |-> "rescheduling", attempt |-> attempt, retry |-> RetrySeconds] \in SessionRows
        /\ [status |-> "terminated", attempt |-> attempt, retry |-> 0] \in SessionRows
        /\ [session[s] EXCEPT !.status = "terminated", !.retry = 0] \in SessionRows
    <3>1. session[s] \in SessionRows
      BY <1>1, <2>2
    <3>2. attempt \in Nat
      BY <3>1 DEF SessionRows
    <3>3. 0 \in 0 .. RetrySeconds /\ RetrySeconds \in 0 .. RetrySeconds
      BY TimesAssumption
    <3> HIDE DEF s, attempt
    <3> QED
      BY <3>1, <3>2, <3>3 DEF SessionRows
  <2>6. \/ UNCHANGED session
        \/ \E row \in SessionRows : session' = [session EXCEPT ![s] = row]
    <3>1. \/ UNCHANGED session
          \/ session' = [session EXCEPT ![s] = [status |-> "idle", attempt |-> 0, retry |-> 0]]
          \/ session' = [session EXCEPT ![s] =
               [status |-> "rescheduling", attempt |-> attempt, retry |-> RetrySeconds]]
          \/ session' = [session EXCEPT ![s] =
               [status |-> "terminated", attempt |-> attempt, retry |-> 0]]
          \/ session' = [session EXCEPT ![s] =
               [session[s] EXCEPT !.status = "terminated", !.retry = 0]]
      BY <1>1, <1>7, <2>2 DEF Turn
    <3> QED
      BY <2>5, <3>1
  <2> HIDE DEF s
  <2>7. session' \in [Sessions -> SessionRows]
    BY <1>1, <2>2, <2>6
  <2> QED
    BY <1>1, <2>1, <2>3, <2>4, <2>7 DEF Typed
<1>8. CASE Raised(e) \/ Finish(e)
  <2> DEFINE w == exec[e].item
  <2>1. exec[e].pc \in {"raised", "finish"} /\ UNCHANGED <<work, session, call, faults>>
    BY <1>8 DEF Raised, Finish
  <2>2. w \in Works
    BY <2>1, ExecutionMoves
  <2>3. /\ Txn(w, work[w]) \in Txns /\ w \in DOMAIN Txn(w, work[w])
        /\ Txn(w, [work[w] EXCEPT !.status = "error"]) \in Txns
    <3>1. [work[w] EXCEPT !.status = "error"] \in Rows /\ work[w] \in Rows
      BY <1>1, <2>2, RowValues DEF WorkStatuses, Finished
    <3> QED
      BY <1>1, <2>2, <3>1, TxnValues
  <2>4. CASE Raised(e)
    <3>1. Hold(e, "raisedCommit", Txn(w, [work[w] EXCEPT !.status = "error"]))
      BY <2>4 DEF Raised
    <3>2. exec' \in [Executors -> Held]
      BY <1>2, <2>1, <2>3, <3>1, ExecutionMoves
    <3> QED
      BY <1>1, <2>1, <3>2 DEF Typed
  <2>5. CASE Finish(e)
    <3>1. exec' = [exec EXCEPT ![e] = [exec[e] EXCEPT !.pc = "finishRead",
                                                      !.txn = Txn(w, work[w])]]
      BY <1>1, <2>5 DEF Finish, Hold
    <3>2. PICK record \in Held : exec' = [exec EXCEPT ![e] = record]
      BY <1>1, <2>2, <2>3, <3>1, RecordValues DEF ExecPCs
    <3>3. exec' \in [Executors -> Held]
      BY <3>2, ExecutionGoesOn
    <3> QED
      BY <1>1, <2>1, <3>3 DEF Typed
  <2> QED
    BY <1>8, <2>4, <2>5
<1>9. CASE FinishRead(e)
  <2> DEFINE w == exec[e].item
             s == SessionOf[w]
             old == exec[e].txn
             status == IF old[w].old.status = "stopped" THEN "stopped" ELSE Outcome(s)
             retry == IF session[s].status = "rescheduling" THEN session[s].retry
                                                            ELSE old[w].new.retry
             row == [old[w].new EXCEPT !.status = status, !.retry = retry]
             txn == [old EXCEPT ![w] = [old[w] EXCEPT !.new = row]]
  <2>1. exec[e].pc = "finishRead" /\ UNCHANGED <<work, session, call, faults>>
    BY <1>9 DEF FinishRead
  <2>2. w \in Works /\ s \in Sessions
    BY <2>1, ExecutionMoves
  <2>3. w \in DOMAIN old
    BY <1>1, <2>1 DEF Held, HasItem
  <2>4. PICK D \in SUBSET Works : old \in [D -> Versions]
    BY <1>1 DEF Txns
  <2>5. old[w] \in Versions /\ old[w].new \in Rows
    BY <2>3, <2>4 DEF Versions
  <2>6. status \in WorkStatuses
    BY DEF Outcome, WorkStatuses, Finished
  <2>7. retry \in 0 .. RetrySeconds
    BY <1>1, <2>2, <2>5 DEF SessionRows, Rows
  <2>8. row \in Rows
    BY <2>5, <2>6, <2>7 DEF Rows
  <2>9. txn \in Txns
    <3>1. [old[w] EXCEPT !.new = row] \in Versions
      BY <2>5, <2>8 DEF Versions
    <3>2. txn \in [D -> Versions]
      BY <2>4, <3>1
    <3> QED
      BY <3>2 DEF Txns
  <2>10. exec' = [exec EXCEPT ![e] = [exec[e] EXCEPT !.pc = "finishCommit", !.txn = txn]]
    <3>1. row = [old[w].new EXCEPT
                   !.status = status,
                   !.retry = IF session[s].status = "rescheduling" THEN session[s].retry ELSE @]
      BY <2>5 DEF Rows
    <3>2. exec' = [exec EXCEPT ![e].pc = "finishCommit", ![e].txn = [old EXCEPT ![w].new = row]]
      BY <1>9, <3>1 DEF FinishRead, Hold
    <3>3. txn = [old EXCEPT ![w].new = row]
      BY <2>3, <2>4
    <3> HIDE DEF txn
    <3> QED
      BY <1>1, <3>2, <3>3
  <2> HIDE DEF txn
  <2>11. PICK record \in Held : exec' = [exec EXCEPT ![e] = record]
    BY <1>1, <2>2, <2>9, <2>10, RecordValues DEF ExecPCs
  <2> QED
    BY <1>1, <2>1, <2>11, ExecutionGoesOn DEF Typed
<1>10. CASE FinishCommit(e)
  <2>1. /\ exec[e].pc \in {"raisedCommit", "finishCommit"}
        /\ Commit(exec[e].txn) /\ Return(e) /\ UNCHANGED <<session, call, faults>>
    BY <1>10 DEF FinishCommit
  <2>2. work' \in [Works -> Rows]
    BY <1>1, <2>1, CommitTyped
  <2>3. exec' \in [Executors -> Held]
    BY <2>1, ExecutionMoves
  <2> QED
    BY <1>1, <2>1, <2>2, <2>3 DEF Typed
<1> QED
  BY <1>3, <1>4, <1>5, <1>6, <1>7, <1>8, <1>9, <1>10 DEF ExecStep

\* A request begins with rows that are rows.
LEMMA BeginTyped ==
  ASSUME Typed, NEW c \in Calls, NEW txn \in Txns, Begin(c, txn)
  PROVE  Typed'
<1>1. call' = [call EXCEPT ![c] = [made |-> TRUE, open |-> TRUE, txn |-> txn]]
  BY DEF Begin
<1>2. call' \in [Calls -> CallRecords]
  BY <1>1 DEF Typed, CallRecords
<1> QED
  BY <1>2 DEF Typed, Begin

LEMMA CallTyped ==
  ASSUME Typed, NEW c \in Calls, CallStep(c) \/ End(c)
  PROVE  Typed'
<1>1. /\ work \in [Works -> Rows] /\ session \in [Sessions -> SessionRows]
      /\ exec \in [Executors -> Held] /\ call \in [Calls -> CallRecords]
      /\ faults \in 0 .. MaxFaults
      /\ call[c].txn \in Txns
  BY DEF Typed, CallRecords
<1>2. \A row \in Rows, id \in Clients \cup {Nobody} : Caller(id, row) \in Ids \cup {Nobody}
  BY DEF Caller, Rows, Ids
<1>3. CASE CallPoll(c)
  <2>1. PICK id \in Clients, reclaimed \in SUBSET {w \in Listed : work[w].status \in Leased
                                                             /\ work[w].owner # Nobody},
             w \in Works :
          Begin(c, [x \in reclaimed \cup {w} |->
                      [old |-> work[x],
                       new |-> IF x = w
                                 THEN Lease([v \in Works |-> IF v \in reclaimed
                                                               THEN [work[v] EXCEPT !.left = 0]
                                                               ELSE work[v]][x], id)
                                 ELSE [v \in Works |-> IF v \in reclaimed
                                                         THEN [work[v] EXCEPT !.left = 0]
                                                         ELSE work[v]][x]]])
    BY <1>3 DEF CallPoll
  <2> DEFINE rows == [v \in Works |-> IF v \in reclaimed THEN [work[v] EXCEPT !.left = 0]
                                                         ELSE work[v]]
             txn == [x \in reclaimed \cup {w} |->
                       [old |-> work[x], new |-> IF x = w THEN Lease(rows[x], id) ELSE rows[x]]]
  <2>2. reclaimed \cup {w} \in SUBSET Works
    BY DEF Listed
  <2>3. \A x \in Works : rows[x] \in Rows
    BY <1>1, RowValues
  <2>4. \A x \in Works : Lease(rows[x], id) \in Rows
    <3> HIDE DEF rows
    <3> QED
      BY <2>3, RowValues DEF Ids
  <2>5. txn \in [reclaimed \cup {w} -> Versions]
    <3> HIDE DEF rows
    <3> QED
      BY <1>1, <2>2, <2>3, <2>4 DEF Versions
  <2>6. txn \in Txns
    BY <2>2, <2>5 DEF Txns
  <2> QED
    BY <2>1, <2>6, BeginTyped
<1>4. CASE \E w \in Works, new \in Rows : Begin(c, Txn(w, new))
  BY <1>1, <1>4, TxnValues, BeginTyped
<1>5. CASE CallAck(c) \/ CallHeartbeat(c) \/ CallMetadata(c) \/ CallStop(c)
  <2>1. CASE CallAck(c)
    <3>1. PICK w \in Works : Begin(c, Txn(w, [work[w] EXCEPT !.status = "running"]))
      BY <2>1 DEF CallAck
    <3>2. [work[w] EXCEPT !.status = "running"] \in Rows
      BY <1>1, RowValues DEF WorkStatuses, Leased
    <3> QED
      BY <1>4, <3>1, <3>2
  <2>2. CASE CallHeartbeat(c)
    <3>1. PICK w \in Works, id \in Clients \cup {Nobody} :
            Begin(c, Txn(w, [work[w] EXCEPT !.status = "running", !.left = LeaseSeconds,
                                            !.owner = Caller(id, work[w])]))
      BY <2>2 DEF CallHeartbeat
    <3>2. [work[w] EXCEPT !.status = "running", !.left = LeaseSeconds,
                          !.owner = Caller(id, work[w])] \in Rows
      BY <1>1, <1>2, RowValues
    <3> QED
      BY <1>4, <3>1, <3>2
  <2>3. CASE CallMetadata(c)
    BY <1>1, <1>4, <2>3 DEF CallMetadata
  <2>4. CASE CallStop(c)
    <3>1. PICK w \in Works : Begin(c, Txn(w, [work[w] EXCEPT !.status = "stopped"]))
      BY <2>4 DEF CallStop
    <3>2. [work[w] EXCEPT !.status = "stopped"] \in Rows
      BY <1>1, RowValues DEF WorkStatuses, Finished
    <3> QED
      BY <1>4, <3>1, <3>2
  <2> QED
    BY <1>5, <2>1, <2>2, <2>3, <2>4
<1>6. CASE CallInterrupt(c)
  <2>1. PICK s \in Sessions :
          /\ call' = [call EXCEPT ![c].made = TRUE]
          /\ session' = [session EXCEPT ![s].status = "idle", ![s].retry = 0]
          /\ UNCHANGED <<work, exec, faults>>
    BY <1>6 DEF CallInterrupt
  <2>2. call' \in [Calls -> CallRecords]
    <3>1. call' = [call EXCEPT ![c] = [call[c] EXCEPT !.made = TRUE]]
      BY <1>1, <2>1
    <3>2. [call[c] EXCEPT !.made = TRUE] \in CallRecords
      BY <1>1 DEF CallRecords
    <3> QED
      BY <1>1, <3>1, <3>2
  <2>3. session' \in [Sessions -> SessionRows]
    <3>1. session' = [session EXCEPT ![s] = [session[s] EXCEPT !.status = "idle", !.retry = 0]]
      BY <1>1, <2>1
    <3>2. [session[s] EXCEPT !.status = "idle", !.retry = 0] \in SessionRows
      <4>1. session[s] \in SessionRows /\ 0 \in 0 .. RetrySeconds
        BY <1>1, TimesAssumption
      <4> QED
        BY <4>1 DEF SessionRows
    <3> QED
      BY <1>1, <3>1, <3>2
  <2> QED
    BY <1>1, <2>1, <2>2, <2>3 DEF Typed
<1>7. CASE End(c)
  <2>1. work' \in [Works -> Rows]
    BY <1>1, <1>7, CommitTyped DEF End
  <2>2. call' \in [Calls -> CallRecords]
    BY <1>1, <1>7, TxnValues DEF End, CallRecords
  <2> QED
    BY <1>1, <1>7, <2>1, <2>2 DEF End, Typed
<1> QED
  BY <1>3, <1>5, <1>6, <1>7 DEF CallStep

LEMMA StepTyped == Typed /\ [Next]_vars => Typed'
<1> SUFFICES ASSUME Typed, [Next]_vars PROVE Typed'
  OBVIOUS
<1>1. /\ work \in [Works -> Rows] /\ session \in [Sessions -> SessionRows]
      /\ exec \in [Executors -> Held] /\ call \in [Calls -> CallRecords]
      /\ faults \in 0 .. MaxFaults
  BY DEF Typed
<1>2. ASSUME NEW e \in Executors, Crash(e) PROVE Typed'
  <2>1. exec' \in [Executors -> Held]
    BY <1>1, <1>2, RecordValues DEF Crash
  <2>2. faults' \in 0 .. MaxFaults
    BY <1>1, <1>2, TimesAssumption DEF Crash
  <2>3. call' \in [Calls -> CallRecords]
    BY <1>1, <1>2 DEF Crash, CallRecords
  <2> QED
    BY <1>1, <1>2, <2>1, <2>2, <2>3 DEF Crash, Typed
<1>3. ASSUME NEW e \in Executors, Restart(e) PROVE Typed'
  <2>1. exec' = [exec EXCEPT ![e] = [exec[e] EXCEPT !.pc = "poll"]]
    BY <1>1, <1>3 DEF Restart, Goto
  <2>2. PICK record \in Held : exec' = [exec EXCEPT ![e] = record]
    BY <1>1, <2>1, RecordValues DEF ExecPCs
  <2> QED
    BY <1>1, <1>3, <2>2, ExecutionGoesOn DEF Restart, Typed
<1>4. ASSUME NEW w \in Works, Enqueue(w) PROVE Typed'
  <2>1. work' \in [Works -> Rows]
    BY <1>1, <1>4, RowValues DEF Enqueue
  <2>2. exec' \in [Executors -> Held]
    <3>1. CASE exec' = [exec EXCEPT ![w].pc = "execute", ![w].item = w]
      <4>1. w \in Executors
        BY DEF Executors
      <4>2. exec' = [exec EXCEPT ![w] = [exec[w] EXCEPT !.pc = "execute", !.item = w]]
        BY <1>1, <3>1, <4>1
      <4>3. PICK record \in Held : exec' = [exec EXCEPT ![w] = record]
        BY <1>1, <4>1, <4>2, RecordValues
      <4> QED
        BY <4>1, <4>3, ExecutionGoesOn
    <3> QED
      BY <1>1, <1>4, <3>1 DEF Enqueue
  <2> QED
    BY <1>1, <1>4, <2>1, <2>2 DEF Enqueue, Typed
<1>5. CASE Tick
  <2>1. work' \in [Works -> Rows]
    BY <1>1, <1>5, RowValues DEF Tick
  <2>2. session' \in [Sessions -> SessionRows]
    <3>1. session' = [s \in Sessions |-> [session[s] EXCEPT !.retry = Less(@)]]
      BY <1>5 DEF Tick
    <3>2. \A n \in 0 .. RetrySeconds : Less(n) \in 0 .. RetrySeconds
      BY TimesAssumption DEF Less
    <3>3. \A s \in Sessions : [session[s] EXCEPT !.retry = Less(@)] \in SessionRows
      BY <1>1, <3>2 DEF SessionRows
    <3> QED
      BY <3>1, <3>3
  <2> QED
    BY <1>1, <1>5, <2>1, <2>2 DEF Tick, Typed
<1>6. CASE UNCHANGED vars
  BY <1>1, <1>6 DEF vars, Typed
<1> QED
  BY <1>2, <1>3, <1>4, <1>5, <1>6, ExecutionTyped, CallTyped DEF Next

LEMMA InitTyped == Init => Typed
<1> SUFFICES ASSUME Init PROVE Typed
  OBVIOUS
<1>1. work \in [Works -> Rows]
  BY RowValues DEF Init
<1>2. session \in [Sessions -> SessionRows]
  BY TimesAssumption DEF Init, SessionRows
<1>3. exec \in [Executors -> Held]
  <2>1. [Exited EXCEPT !.pc = "poll"] \in Held
    BY RecordValues DEF ExecPCs
  <2> QED
    BY <2>1, RecordValues DEF Init
<1>4. call \in [Calls -> CallRecords]
  BY TxnValues DEF Init, CallRecords
<1>5. faults \in 0 .. MaxFaults
  BY TimesAssumption DEF Init
<1> QED
  BY <1>1, <1>2, <1>3, <1>4, <1>5 DEF Typed

LEMMA TypedIsTypeOK == Typed => TypeOK
<1> SUFFICES ASSUME Typed PROVE TypeOK
  OBVIOUS
<1>1. \A txn \in Txns : \A w \in DOMAIN txn : txn[w] \in Versions
  BY DEF Txns
<1>2. \A e \in Executors : exec[e] \in ExecRecords
  BY DEF Typed, Held
<1> QED
  BY <1>1, <1>2 DEF Typed, TypeOK, ExecRecords, CallRecords, Versions

\* Every row, session and control point always holds a value of the program, for
\* any number of work items, workers and requests, whichever processes die.
THEOREM QueueTypeCorrect == Spec => []TypeOK
BY InitTyped, StepTyped, TypedIsTypeOK, PTL DEF Spec

-----------------------------------------------------------------------------
(* A race for a lease has a winner. *)

\* The queue is worked by oma-worker processes alone, and none of them is killed.
OnlyWorkers ==
  /\ Workers # {} /\ Crashable = {}
  /\ Inline = {FALSE} /\ Routes \subseteq {"interrupt"}

\* The worker is there, and the row it goes on with is its own or nobody's.
CanGoOn(e) ==
  LET row == work[exec[e].item] IN
  /\ exec[e].pc # "exited"
  /\ exec[e].pc = "execute" => row.status \notin Leased \/ row.owner \in {Nobody, IdOf(e)}

\* The worker whose transaction committed last can go on.
RaceInv ==
  /\ \A e \in Works \ Workers : exec[e].pc = "exited"
  /\ \A c \in Calls : ~call[c].open
  /\ \A e \in Workers : exec[e].pc = "leaseCommit" =>
       LET w == exec[e].item IN
       DOMAIN exec[e].txn = {w} /\ exec[e].txn[w].new.owner = IdOf(e)
  /\ \E e \in Workers : CanGoOn(e)

\* Whoever commits a transaction can go on.
LEMMA CommitterGoesOn ==
  ASSUME Typed, RaceInv, NEW e \in Workers,
         LeaseCommit(e) \/ ExecuteCommit(e) \/ FinishCommit(e)
  PROVE  CanGoOn(e)'
<1>1. exec \in [Executors -> Held] /\ e \in Executors
  BY DEF Typed, Executors
<1>2. CASE LeaseCommit(e)
  <2> DEFINE w == exec[e].item
             txn == exec[e].txn
  <2>1. exec[e].pc = "leaseCommit" /\ Commit(txn) /\ Hold(e, "execute", NoTxn)
    BY <1>2 DEF LeaseCommit
  <2>2. DOMAIN txn = {w} /\ txn[w].new.owner = IdOf(e)
    BY <2>1 DEF RaceInv
  <2>3. w \in Works
    BY <1>1, <2>1, ExecutionMoves
  <2>4. txn[w].new \in Rows
    <3>1. PICK D \in SUBSET Works : txn \in [D -> Versions]
      BY <1>1 DEF Held, ExecRecords, Txns
    <3> QED
      BY <2>2, <3>1 DEF Versions
  <2>5. work'[w].owner = IdOf(e)
    BY <2>1, <2>2, <2>3, <2>4 DEF Commit, Rows
  <2>6. exec'[e].pc = "execute" /\ exec'[e].item = w
    BY <1>1, <2>1 DEF Hold, Held, ExecRecords
  <2> HIDE DEF w
  <2> QED
    BY <2>5, <2>6 DEF CanGoOn
<1>3. CASE ExecuteCommit(e)
  BY <1>1, <1>3 DEF ExecuteCommit, Hold, Held, ExecRecords, CanGoOn
<1>4. CASE FinishCommit(e)
  BY <1>1, <1>4 DEF FinishCommit, Return, CanGoOn
<1> QED
  BY <1>2, <1>3, <1>4

\* A worker that can go on and takes another step goes on.
LEMMA GoesOn ==
  ASSUME Typed, RaceInv, NEW e \in Workers, CanGoOn(e), ExecStep(e)
  PROVE  CanGoOn(e)'
<1>1. exec \in [Executors -> Held] /\ e \in Executors
  BY DEF Typed, Executors
<1>2. CASE Poll(e)
  BY <1>1, <1>2 DEF Poll, CanGoOn
<1>3. CASE Execute(e)
  <2>1. \/ \E txn : Hold(e, "executeCommit", txn)
        \/ Return(e)
    BY <1>3 DEF Execute, CanGoOn, Owns
  <2> QED
    BY <1>1, <2>1 DEF Hold, Return, Held, ExecRecords, CanGoOn
<1>4. CASE Start(e) \/ Turn(e)
  <2>1. Goto(e, "turn") \/ Goto(e, "finish") \/ Goto(e, "raised")
    BY <1>4 DEF Start, Turn
  <2> QED
    BY <1>1, <2>1 DEF Goto, Held, ExecRecords, CanGoOn
<1>5. CASE Raised(e) \/ Finish(e) \/ FinishRead(e)
  <2>1. \E txn : \E pc \in {"raisedCommit", "finishRead", "finishCommit"} : Hold(e, pc, txn)
    BY <1>5 DEF Raised, Finish, FinishRead
  <2> QED
    BY <1>1, <2>1 DEF Hold, Held, ExecRecords, CanGoOn
<1> QED
  BY <1>2, <1>3, <1>4, <1>5, CommitterGoesOn DEF ExecStep

LEMMA StepRace ==
  ASSUME OnlyWorkers, Typed, RaceInv, [Next]_vars
  PROVE  RaceInv'
<1>1. exec \in [Executors -> Held] /\ work \in [Works -> Rows]
  BY DEF Typed
<1>2. PICK e \in Workers : CanGoOn(e)
  BY DEF RaceInv
<1>3. ASSUME NEW f \in Executors, ExecStep(f)
      PROVE  RaceInv'
  <2>1. f \in Workers
    <3>1. exec[f].pc # "exited"
      BY <1>3 DEF ExecStep, Poll, LeaseCommit, Execute, ExecuteCommit, Start, Turn, Raised,
                  Finish, FinishRead, FinishCommit
    <3> QED
      BY <3>1 DEF RaceInv, Executors
  <2>2. /\ \A g \in Executors \ {f} : exec'[g] = exec[g]
        /\ call' = call
    BY <1>1, <1>3 DEF ExecStep, Poll, LeaseCommit, Execute, ExecuteCommit, Start, Turn, Raised,
                      Finish, FinishRead, FinishCommit, Goto, Hold, Return
  <2>3. \E g \in Workers : CanGoOn(g)'
    <3>1. CASE LeaseCommit(f) \/ ExecuteCommit(f) \/ FinishCommit(f)
      BY <2>1, <3>1, CommitterGoesOn
    <3>2. CASE ~(LeaseCommit(f) \/ ExecuteCommit(f) \/ FinishCommit(f)) /\ f # e
      <4>1. UNCHANGED work
        BY <1>3, <3>2 DEF ExecStep, Poll, Execute, Start, Turn, Raised, Finish, FinishRead
      <4>2. exec'[e] = exec[e]
        BY <2>2, <3>2 DEF Executors
      <4> QED
        BY <1>2, <4>1, <4>2 DEF CanGoOn
    <3>3. CASE f = e
      BY <1>2, <1>3, <3>3, GoesOn
    <3> QED
      BY <3>1, <3>2, <3>3
  <2>4. ASSUME exec'[f].pc = "leaseCommit"
        PROVE  LET w == exec'[f].item IN
               DOMAIN exec'[f].txn = {w} /\ exec'[f].txn[w].new.owner = IdOf(f)
    <3>1. Poll(f)
      <4>1. /\ \A pc : Goto(f, pc) => exec'[f].pc = pc
            /\ \A txn : \A pc : Hold(f, pc, txn) => exec'[f].pc = pc
            /\ Return(f) => exec'[f].pc = "poll"
        BY <1>1, <2>1 DEF Goto, Hold, Return, Held, ExecRecords
      <4>2. ~(LeaseCommit(f) \/ ExecuteCommit(f) \/ Raised(f) \/ Finish(f) \/ FinishRead(f))
        BY <2>4, <4>1 DEF LeaseCommit, ExecuteCommit, Raised, Finish, FinishRead
      <4>3. ~(Start(f) \/ Turn(f) \/ FinishCommit(f))
        BY <2>4, <4>1 DEF Start, Turn, FinishCommit
      <4>4. ~Execute(f)
        <5>1. exec' = [exec EXCEPT ![f] = Exited] => exec'[f].pc = "exited"
          BY <1>1 DEF Exited
        <5> QED
          BY <2>4, <4>1, <5>1 DEF Execute
      <4> QED
        BY <1>3, <4>2, <4>3, <4>4 DEF ExecStep
    <3>2. PICK w \in Works :
            exec' = [exec EXCEPT ![f] = [pc |-> "leaseCommit", item |-> w,
                                         txn |-> Txn(w, Lease(work[w], IdOf(f)))]]
      BY <3>1 DEF Poll
    <3>3. exec'[f].item = w /\ exec'[f].txn = Txn(w, Lease(work[w], IdOf(f)))
      BY <1>1, <3>2
    <3>4. work[w] \in Rows
      BY <1>1
    <3>5. Lease(work[w], IdOf(f)).owner = IdOf(f)
      BY <3>4 DEF Lease, Rows
    <3> QED
      BY <3>3, <3>5 DEF Txn
  <2> QED
    BY <2>1, <2>2, <2>3, <2>4 DEF RaceInv, Executors
<1>4. ASSUME UNCHANGED <<exec, call>>, \A w \in Works : work'[w] = work[w] \/ work'[w].status \notin Leased
      PROVE  RaceInv'
  <2>1. CanGoOn(e)'
    <3>1. exec[e].pc = "execute" => exec[e].item \in Works
      BY <1>1 DEF Held, HasItem, Executors
    <3> QED
      BY <1>2, <1>4, <3>1 DEF CanGoOn
  <2> QED
    BY <1>4, <2>1 DEF RaceInv
<1>5. ASSUME NEW f \in Executors, Crash(f) \/ Restart(f)
      PROVE  RaceInv'
  <2>1. Restart(f) /\ f \in Workers /\ UNCHANGED <<work, call>>
    BY <1>5, WorkerAssumption DEF OnlyWorkers, Crash, Restart
  <2>2. /\ \A g \in Executors \ {f} : exec'[g] = exec[g]
        /\ exec'[f].pc = "poll"
    BY <1>1, <2>1 DEF Restart, Goto, Held, ExecRecords
  <2>3. CanGoOn(f)'
    BY <2>2 DEF CanGoOn
  <2> QED
    BY <2>1, <2>2, <2>3 DEF RaceInv, Executors
<1>6. ASSUME NEW c \in Calls, CallStep(c) \/ End(c)
      PROVE  RaceInv'
  <2>1. CallInterrupt(c)
    BY <1>6 DEF OnlyWorkers, RaceInv, CallStep, CallPoll, CallAck, CallHeartbeat, CallMetadata,
                CallStop, End
  <2>2. UNCHANGED <<work, exec>> /\ \A d \in Calls : ~call'[d].open
    <3>1. call' = [call EXCEPT ![c].made = TRUE] /\ call \in [Calls -> CallRecords]
      BY <2>1 DEF CallInterrupt, Typed
    <3>2. \A d \in Calls : call'[d].open = call[d].open
      BY <3>1 DEF CallRecords
    <3> QED
      BY <2>1, <3>2 DEF CallInterrupt, RaceInv
  <2>3. CanGoOn(e)'
    BY <1>2, <2>2 DEF CanGoOn
  <2> QED
    BY <2>2, <2>3 DEF RaceInv
<1>7. ASSUME NEW w \in Works, Enqueue(w)
      PROVE  RaceInv'
  <2>1. UNCHANGED <<exec, call>>
    BY <1>7 DEF OnlyWorkers, Enqueue
  <2>2. \A v \in Works : work'[v] = work[v] \/ work'[v].status \notin Leased
    BY <1>1, <1>7 DEF Enqueue, Queued, Absent, Leased
  <2> QED
    BY <1>4, <2>1, <2>2
<1>8. CASE Tick
  <2>1. exec[e].pc # "execute" /\ UNCHANGED <<exec, call>>
    BY <1>8 DEF Tick, Executors
  <2>2. CanGoOn(e)'
    BY <1>2, <2>1 DEF CanGoOn
  <2> QED
    BY <2>1, <2>2 DEF RaceInv
<1>9. CASE UNCHANGED vars
  BY <1>4, <1>9 DEF vars
<1> QED
  BY <1>3, <1>5, <1>6, <1>7, <1>8, <1>9 DEF Next

LEMMA InitRace == OnlyWorkers /\ Init => RaceInv
<1> SUFFICES ASSUME OnlyWorkers, Init PROVE RaceInv
  OBVIOUS
<1>1. \A e \in Workers : exec[e].pc = "poll"
  BY DEF Init, Exited, Executors
<1>2. \A e \in Works \ Workers : exec[e].pc = "exited"
  BY DEF Init, Exited, Executors
<1>3. \A c \in Calls : ~call[c].open
  BY DEF Init
<1> QED
  BY <1>1, <1>2, <1>3 DEF OnlyWorkers, RaceInv, CanGoOn

\* execute_work_item raises WorkLeaseError outside its try, and a worker that loses a
\* race for a lease exits: but not all of them do.  Of the workers of an environment
\* that nobody else works, the one that committed last is there and polls again.
THEOREM RaceHasWinner == OnlyWorkers => (Spec => []SomeWorkerPolls)
<1> SUFFICES ASSUME OnlyWorkers PROVE Spec => []SomeWorkerPolls
  OBVIOUS
<1>1. Init => RaceInv
  BY InitRace
<1>2. Typed /\ RaceInv /\ [Next]_vars => RaceInv'
  BY StepRace
<1>3. RaceInv => SomeWorkerPolls
  BY DEF RaceInv, CanGoOn, SomeWorkerPolls
<1> QED
  BY <1>1, <1>2, <1>3, InitTyped, StepTyped, PTL DEF Spec
=============================================================================
