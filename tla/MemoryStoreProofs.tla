-------------------------- MODULE MemoryStoreProofs --------------------------
(***************************************************************************)
(* The versions of a memory store are complete, its memories are what the  *)
(* newest version says, and no update is lost, for every number of         *)
(* memories and requests.  What makes it so is that a request holds a row  *)
(* of a version at most one ahead of the memory's (Pending): only a write  *)
(* that is exactly one ahead passes the unique constraint.                 *)
(***************************************************************************)
EXTENDS MemoryStore, FiniteSetTheorems, TLAPS

\* What request q may still rely on when it commits, mem being the memories.
WriteBehind(q, row) ==
  /\ q.row \in Rows
  /\ q.row.version \in 2 .. row.version + 1
  /\ q.op = "update" => q.row.status = "active"
  /\ q.op = "delete" => q.row.status = "deleted"
  /\ q.row.version = row.version + 1 =>
       /\ row.status = "active"
       /\ q.number \in {Nothing, row.version}
       /\ q.sha \in {Nothing, row.content}

RedactBehind(q, row) ==
  /\ q.number \in 1 .. row.version
  /\ row.status = "active" => q.number # row.version

Behind(q, mem) ==
  /\ q.op = "create" => q.row \in Rows /\ q.row.version = 1 /\ q.row.status = "active"
  /\ q.op \in {"update", "delete"} => q.memory \in Memories /\ WriteBehind(q, mem[q.memory])
  /\ q.op = "redact" => q.memory \in Memories /\ RedactBehind(q, mem[q.memory])

Pending == \A r \in Requests : Behind(req[r], memory)

IInv == TypeOK /\ VersionsComplete /\ HeadIsLatest /\ Pending

\* What a transaction does to the rows, if it does anything.
Written(m, row, operation) ==
  /\ row.version = memory[m].version + 1
  /\ memory' = [memory EXCEPT ![m] = row]
  /\ versions' = versions \cup {Version(m, row, operation)}

\* The unique constraint lets exactly the next version pass.
LEMMA WriteEffect ==
  ASSUME IInv, NEW m \in Memories, NEW row \in Rows, NEW operation \in Operations,
         row.version <= memory[m].version + 1, Write(m, row, operation)
  PROVE  Written(m, row, operation) \/ UNCHANGED <<memory, versions>>
<1>1. memory[m].version \in Nat /\ row.version \in Nat \ {0}
  BY DEF IInv, TypeOK, Rows, Absent
<1>2. CASE Free(m, row.version)
  <2>1. row.version \notin 1 .. memory[m].version
    BY <1>2 DEF Free, IInv, VersionsComplete, VersionsOf
  <2> QED
    BY <1>1, <1>2, <2>1 DEF Write, Written
<1>3. CASE ~Free(m, row.version)
  BY <1>3 DEF Write
<1> QED
  BY <1>2, <1>3

LEMMA VersionFacts ==
  ASSUME NEW m \in Memories, NEW row \in Rows, NEW operation \in Operations
  PROVE  /\ Version(m, row, operation) \in Versions
         /\ Version(m, row, operation).memory = m
         /\ Version(m, row, operation).number = row.version
         /\ Version(m, row, operation).operation = operation
         /\ Version(m, row, operation).path = row.path
         /\ Version(m, row, operation).content = row.content
         /\ ~Version(m, row, operation).redacted
BY DEF Version, Versions, Rows

\* A version follows its predecessors.
LEMMA WrittenComplete ==
  ASSUME IInv, NEW m \in Memories, NEW row \in Rows, NEW operation \in Operations,
         Written(m, row, operation),
         operation = "created" <=> row.version = 1,
         operation = "deleted" <=> row.status = "deleted",
         memory[m].status # "deleted"
  PROVE  VersionsComplete'
<1> DEFINE new == Version(m, row, operation)
<1> SUFFICES ASSUME NEW x \in Memories
             PROVE  /\ {v.number : v \in VersionsOf(x)'} = 1 .. memory'[x].version
                    /\ \A v, w \in VersionsOf(x)' : v.number = w.number => v = w
                    /\ \A v \in VersionsOf(x)' :
                         /\ v.operation = "created" <=> v.number = 1
                         /\ v.operation = "deleted" <=> v.number = memory'[x].version
                                                        /\ memory'[x].status = "deleted"
  BY DEF VersionsComplete
<1>1. new.memory = m /\ new.number = row.version /\ new.operation = operation
  BY VersionFacts
<1>2. versions' = versions \cup {new} /\ memory' = [memory EXCEPT ![m] = row]
      /\ row.version = memory[m].version + 1
  BY DEF Written
<1>3. memory \in [Memories -> Rows \cup {Absent}]
  BY DEF IInv, TypeOK
<1> HIDE DEF new
<1>4. CASE x # m
  <2>1. VersionsOf(x)' = VersionsOf(x)
    BY <1>1, <1>2, <1>4 DEF VersionsOf
  <2>2. memory'[x] = memory[x]
    BY <1>2, <1>3, <1>4
  <2> QED
    BY <2>1, <2>2 DEF IInv, VersionsComplete
<1>5. CASE x = m
  <2>1. VersionsOf(m)' = VersionsOf(m) \cup {new}
    BY <1>1, <1>2 DEF VersionsOf
  <2>2. memory'[m] = row
    BY <1>2, <1>3
  <2>3. memory[m].version \in Nat
    BY <1>3 DEF Rows, Absent
  <2>4. {v.number : v \in VersionsOf(m)} = 1 .. memory[m].version
    BY DEF IInv, VersionsComplete
  <2>5. \A v \in VersionsOf(m) : v.number \in 1 .. memory[m].version
    BY <2>4
  <2>6. {v.number : v \in VersionsOf(m)'} = 1 .. row.version
    <3>1. {v.number : v \in VersionsOf(m)'} = {v.number : v \in VersionsOf(m)} \cup {row.version}
      BY <1>1, <2>1
    <3> QED
      BY <1>2, <2>3, <2>4, <3>1
  <2>7. \A v, w \in VersionsOf(m)' : v.number = w.number => v = w
    BY <1>1, <1>2, <2>1, <2>3, <2>5 DEF IInv, VersionsComplete
  <2>8. ASSUME NEW v \in VersionsOf(m)
        PROVE  /\ v.operation = "created" <=> v.number = 1
               /\ v.operation # "deleted" /\ v.number # row.version
    BY <1>2, <2>3, <2>5 DEF IInv, VersionsComplete
  <2> QED
    BY <1>1, <1>5, <2>1, <2>2, <2>6, <2>7, <2>8
<1> QED
  BY <1>4, <1>5

\* The new version is the head, and says what the row says.
LEMMA WrittenHead ==
  ASSUME IInv, NEW m \in Memories, NEW row \in Rows, NEW operation \in Operations,
         Written(m, row, operation)
  PROVE  HeadIsLatest'
<1> DEFINE new == Version(m, row, operation)
<1> SUFFICES ASSUME NEW x \in Memories, NEW v \in versions', v.memory = x,
                    v.number = memory'[x].version
             PROVE  /\ v.path = memory'[x].path /\ v.content = memory'[x].content
                    /\ memory'[x].status = "active" => ~v.redacted
  BY DEF HeadIsLatest, Live
<1>1. /\ new.memory = m /\ new.number = row.version /\ new.path = row.path
      /\ new.content = row.content /\ ~new.redacted
  BY VersionFacts
<1>2. versions' = versions \cup {new} /\ memory' = [memory EXCEPT ![m] = row]
      /\ row.version = memory[m].version + 1
  BY DEF Written
<1>3. memory \in [Memories -> Rows \cup {Absent}]
  BY DEF IInv, TypeOK
<1> HIDE DEF new
<1>4. CASE x # m
  BY <1>1, <1>2, <1>3, <1>4 DEF IInv, HeadIsLatest, Live
<1>5. CASE x = m
  <2>1. memory'[m] = row /\ memory[m].version \in Nat
    BY <1>2, <1>3 DEF Rows, Absent
  <2>2. v \notin versions
    BY <1>2, <1>5, <2>1 DEF IInv, VersionsComplete, VersionsOf
  <2> QED
    BY <1>1, <1>2, <1>5, <2>1, <2>2
<1> QED
  BY <1>4, <1>5

\* The versions of a memory only grow, so what other requests hold stays behind.
LEMMA WrittenBehind ==
  ASSUME memory \in [Memories -> Rows \cup {Absent}], NEW m \in Memories, NEW row \in Rows,
         row.version = memory[m].version + 1, memory' = [memory EXCEPT ![m] = row],
         NEW q, Behind(q, memory)
  PROVE  Behind(q, memory')
<1>1. \A x \in Memories : memory[x].version \in Nat
  BY DEF Rows, Absent
<1>2. \A x \in Memories : memory'[x] = IF x = m THEN row ELSE memory[x]
  OBVIOUS
<1>3. ASSUME q.op \in {"update", "delete"} PROVE WriteBehind(q, memory'[q.memory])
  BY <1>1, <1>2, <1>3 DEF Behind, WriteBehind
<1>4. ASSUME q.op = "redact" PROVE RedactBehind(q, memory'[q.memory])
  BY <1>1, <1>2, <1>4 DEF Behind, RedactBehind
<1> QED
  BY <1>3, <1>4 DEF Behind

\* A request that is over, or answered, relies on nothing.
LEMMA IdleBehind == ASSUME NEW mem PROVE Behind(Idle, mem)
BY DEF Behind, Idle

\* A commit of a memory and its version, or one that fails, keeps the invariant.
LEMMA WriteStep ==
  ASSUME IInv, NEW r \in Requests, req' = [req EXCEPT ![r] = Idle],
         NEW m \in Memories, NEW row \in Rows, NEW operation \in Operations,
         row.version <= memory[m].version + 1,
         operation = "created" <=> row.version = 1,
         operation = "deleted" <=> row.status = "deleted",
         memory[m].status # "deleted" \/ row.version # memory[m].version + 1,
         Write(m, row, operation)
  PROVE  IInv'
<1>1. /\ memory \in [Memories -> Rows \cup {Absent}]
      /\ Idle \in [op : Ops, memory : Memories \cup {Nothing}, row : Rows \cup {Nothing},
                   number : Nat \cup {Nothing}, sha : Contents \cup {Nothing}]
      /\ req' \in [Requests -> [op : Ops, memory : Memories \cup {Nothing}, row : Rows \cup {Nothing},
                               number : Nat \cup {Nothing}, sha : Contents \cup {Nothing}]]
      /\ \A q \in Requests : req'[q] = IF q = r THEN Idle ELSE req[q]
      /\ store' = store
  BY DEF IInv, TypeOK, Idle, Ops, Write
<1>2. CASE Written(m, row, operation)
  <2>1. /\ memory' = [memory EXCEPT ![m] = row] /\ row.version = memory[m].version + 1
        /\ versions' = versions \cup {Version(m, row, operation)}
    BY <1>2 DEF Written
  <2>2. TypeOK'
    BY <1>1, <2>1, VersionFacts DEF IInv, TypeOK
  <2>3. VersionsComplete'
    BY <1>2, <2>1, WrittenComplete
  <2>4. HeadIsLatest'
    BY <1>2, WrittenHead
  <2>5. Pending'
    BY <1>1, <2>1, WrittenBehind, IdleBehind DEF IInv, Pending
  <2> QED
    BY <2>2, <2>3, <2>4, <2>5 DEF IInv
<1>3. CASE UNCHANGED <<memory, versions>>
  <2>1. TypeOK'
    BY <1>1, <1>3 DEF IInv, TypeOK
  <2>2. VersionsComplete' /\ HeadIsLatest'
    BY <1>3 DEF IInv, VersionsComplete, VersionsOf, HeadIsLatest, Live
  <2>3. Pending'
    BY <1>1, <1>3, IdleBehind DEF IInv, Pending
  <2> QED
    BY <2>1, <2>2, <2>3 DEF IInv
<1> QED
  BY <1>2, <1>3, WriteEffect
\* Requests, as TypeOK has them.
RequestRows == [op : Ops, memory : Memories \cup {Nothing}, row : Rows \cup {Nothing},
                number : Nat \cup {Nothing}, sha : Contents \cup {Nothing}]

\* A read keeps the invariant if what it decided on is so.
LEMMA BeginStep ==
  ASSUME IInv, NEW r \in Requests, NEW q \in RequestRows, Behind(q, memory),
         req' = [req EXCEPT ![r] = q], UNCHANGED <<store, memory, versions>>
  PROVE  IInv'
<1>1. req' \in [Requests -> RequestRows]
  BY DEF IInv, TypeOK, RequestRows
<1>2. TypeOK'
  BY <1>1 DEF IInv, TypeOK, RequestRows
<1>3. VersionsComplete' /\ HeadIsLatest'
  BY DEF IInv, VersionsComplete, VersionsOf, HeadIsLatest, Live
<1>4. Pending'
  BY DEF IInv, TypeOK, Pending
<1> QED
  BY <1>2, <1>3, <1>4 DEF IInv

\* Redaction only takes content away from versions that are not the head of a live memory.
LEMMA RedactStep ==
  ASSUME IInv, NEW r \in Requests, EndRedact(r)
  PROVE  IInv'
<1> DEFINE number == req[r].number
           m == req[r].memory
           Redacted(v) == IF v.memory = m /\ v.number = number THEN [v EXCEPT !.redacted = TRUE] ELSE v
<1>1. /\ versions' = {Redacted(v) : v \in versions}
      /\ req' = [req EXCEPT ![r] = Idle] /\ UNCHANGED <<store, memory>>
      /\ m \in Memories /\ RedactBehind(req[r], memory[m])
  BY DEF EndRedact, End, IInv, Pending, Behind
<1>2. ASSUME NEW v \in versions
      PROVE  /\ Redacted(v) \in Versions
             /\ Redacted(v).memory = v.memory /\ Redacted(v).number = v.number
             /\ Redacted(v).operation = v.operation
             /\ Redacted(v).path = v.path /\ Redacted(v).content = v.content
             /\ Redacted(v) # v => v.memory = m /\ v.number = number
  BY DEF IInv, TypeOK, Versions
<1> HIDE DEF Redacted
<1>3. TypeOK'
  <2>1. versions' \subseteq Versions
    BY <1>1, <1>2
  <2>2. req' \in [Requests -> RequestRows] /\ Idle \in RequestRows
    BY <1>1 DEF IInv, TypeOK, RequestRows, Idle, Ops
  <2> QED
    BY <1>1, <2>1, <2>2 DEF IInv, TypeOK, RequestRows
<1>4. VersionsComplete'
  <2> SUFFICES ASSUME NEW x \in Memories
               PROVE  /\ {v.number : v \in VersionsOf(x)'} = 1 .. memory[x].version
                      /\ \A v, w \in VersionsOf(x)' : v.number = w.number => v = w
                      /\ \A v \in VersionsOf(x)' :
                           /\ v.operation = "created" <=> v.number = 1
                           /\ v.operation = "deleted" <=> v.number = memory[x].version
                                                          /\ memory[x].status = "deleted"
    BY <1>1 DEF VersionsComplete
  <2>1. VersionsOf(x)' = {Redacted(v) : v \in VersionsOf(x)}
    BY <1>1, <1>2 DEF VersionsOf
  <2>2. \A v \in VersionsOf(x) : Redacted(v).number = v.number /\ Redacted(v).operation = v.operation
    BY <1>2 DEF VersionsOf
  <2>3. {v.number : v \in VersionsOf(x)'} = {v.number : v \in VersionsOf(x)}
    BY <2>1, <2>2
  <2>4. \A v, w \in VersionsOf(x) : v.number = w.number => v = w
    BY DEF IInv, VersionsComplete
  <2>5. \A v \in VersionsOf(x) :
           /\ v.operation = "created" <=> v.number = 1
           /\ v.operation = "deleted" <=> v.number = memory[x].version /\ memory[x].status = "deleted"
    BY DEF IInv, VersionsComplete
  <2>6. {v.number : v \in VersionsOf(x)} = 1 .. memory[x].version
    BY DEF IInv, VersionsComplete
  <2> QED
    BY <2>1, <2>2, <2>3, <2>4, <2>5, <2>6
<1>5. HeadIsLatest'
  <2> SUFFICES ASSUME NEW v \in versions, Redacted(v).memory \in Memories,
                      Redacted(v).number = memory[Redacted(v).memory].version
               PROVE  /\ Redacted(v).path = memory[Redacted(v).memory].path
                      /\ Redacted(v).content = memory[Redacted(v).memory].content
                      /\ memory[Redacted(v).memory].status = "active" => ~Redacted(v).redacted
    BY <1>1 DEF HeadIsLatest, Live
  <2>1. /\ v.path = memory[v.memory].path /\ v.content = memory[v.memory].content
        /\ memory[v.memory].status = "active" => ~v.redacted
    BY <1>2 DEF IInv, HeadIsLatest, Live
  <2>2. memory[v.memory].status = "active" => Redacted(v) = v
    BY <1>1, <1>2 DEF RedactBehind
  <2> QED
    BY <1>2, <2>1, <2>2
<1>6. Pending'
  BY <1>1, IdleBehind DEF IInv, TypeOK, Pending
<1> QED
  BY <1>3, <1>4, <1>5, <1>6 DEF IInv
\* The commits of create_memory, update_memory and delete_memory.
LEMMA EndStep ==
  ASSUME IInv, NEW r \in Requests, EndCreate(r) \/ EndUpdate(r) \/ EndDelete(r)
  PROVE  IInv'
<1>1. /\ req' = [req EXCEPT ![r] = Idle] /\ Behind(req[r], memory)
      /\ memory \in [Memories -> Rows \cup {Absent}]
  BY DEF IInv, TypeOK, Pending, EndCreate, EndUpdate, EndDelete, End
<1>2. CASE EndCreate(r)
  <2>1. PICK m \in Memories : memory[m].status = "absent" /\ Write(m, req[r].row, "created")
    BY <1>2 DEF EndCreate
  <2>2. memory[m].version = 0
    BY <1>1, <2>1 DEF Rows, Absent
  <2>3. req[r].row \in Rows /\ req[r].row.version = 1 /\ req[r].row.status = "active"
    BY <1>1, <1>2 DEF EndCreate, End, Behind
  <2>4. /\ req[r].row.version <= memory[m].version + 1
        /\ "created" = "created" <=> req[r].row.version = 1
        /\ "created" = "deleted" <=> req[r].row.status = "deleted"
        /\ memory[m].status # "deleted" \/ req[r].row.version # memory[m].version + 1
        /\ "created" \in Operations
    BY <2>1, <2>2, <2>3 DEF Operations
  <2> QED
    BY <1>1, <2>1, <2>3, <2>4, WriteStep
<1>3. CASE EndUpdate(r)
  <2>1. req[r].op = "update" /\ req[r].memory \in Memories /\ WriteBehind(req[r], memory[req[r].memory])
    BY <1>1, <1>3 DEF EndUpdate, End, Behind
  <2>2. /\ req[r].row \in Rows /\ req[r].row.status = "active"
        /\ req[r].row.version <= memory[req[r].memory].version + 1 /\ req[r].row.version # 1
        /\ memory[req[r].memory].status # "deleted"
             \/ req[r].row.version # memory[req[r].memory].version + 1
    BY <1>1, <2>1 DEF WriteBehind, Rows, Absent
  <2>3. Write(req[r].memory, req[r].row, "modified")
    BY <1>3 DEF EndUpdate
  <2> QED
    BY <1>1, <2>1, <2>2, <2>3, WriteStep DEF Operations
<1>4. CASE EndDelete(r)
  <2>1. req[r].op = "delete" /\ req[r].memory \in Memories /\ WriteBehind(req[r], memory[req[r].memory])
    BY <1>1, <1>4 DEF EndDelete, End, Behind
  <2>2. /\ req[r].row \in Rows /\ req[r].row.status = "deleted"
        /\ req[r].row.version <= memory[req[r].memory].version + 1 /\ req[r].row.version # 1
        /\ memory[req[r].memory].status # "deleted"
             \/ req[r].row.version # memory[req[r].memory].version + 1
    BY <1>1, <2>1 DEF WriteBehind, Rows, Absent
  <2>3. Write(req[r].memory, req[r].row, "deleted")
    BY <1>4 DEF EndDelete
  <2> QED
    BY <1>1, <2>1, <2>2, <2>3, WriteStep DEF Operations
<1> QED
  BY <1>2, <1>3, <1>4

\* The row an update writes, and a delete.
Modified(old, path, content) == [old EXCEPT !.path = path, !.content = content, !.version = @ + 1]

Deleted(old) == [old EXCEPT !.status = "deleted", !.version = @ + 1]

LEMMA Successors ==
  ASSUME NEW old \in Rows, NEW path \in Paths, NEW content \in Contents
  PROVE  /\ Modified(old, path, content) \in Rows
         /\ Modified(old, path, content).status = old.status
         /\ Modified(old, path, content).version = old.version + 1
         /\ Deleted(old) \in Rows
         /\ Deleted(old).status = "deleted"
         /\ Deleted(old).version = old.version + 1
<1>1. old.version \in Nat \ {0} /\ old.version + 1 \in Nat \ {0}
  BY DEF Rows
<1> QED
  BY <1>1 DEF Rows, Modified, Deleted

\* What an update or a delete of a live memory decides on is so.
LEMMA WriterBehind ==
  ASSUME IInv, NEW q, NEW m \in Memories, q.memory = m, q.op \in {"update", "delete"},
         Live(m), PreconditionMet(memory[m], q.number, q.sha), q.row \in Rows,
         q.row.version = memory[m].version + 1,
         q.row.status = IF q.op = "update" THEN "active" ELSE "deleted"
  PROVE  Behind(q, memory)
<1>1. memory[m].version \in Nat \ {0}
  BY DEF IInv, TypeOK, Rows, Absent, Live
<1>2. WriteBehind(q, memory[m])
  BY <1>1 DEF WriteBehind, Live, PreconditionMet
<1> QED
  BY <1>2 DEF Behind

\* What every route reads and decides on, and the two that close the store.
LEMMA OtherStep ==
  ASSUME IInv, NEW r \in Requests,
         \/ BeginCreate(r) \/ BeginUpdate(r) \/ BeginDelete(r) \/ BeginRedact(r) \/ BeginClose(r)
         \/ EndArchiveStore(r) \/ EndDeleteStore(r)
  PROVE  IInv'
<1>1. memory \in [Memories -> Rows \cup {Absent}]
  BY DEF IInv, TypeOK
<1>2. CASE BeginCreate(r)
  <2>1. PICK path \in Paths, content \in Contents :
          Begin(r, "create", Nothing,
                [status |-> "active", path |-> path, content |-> content, version |-> 1], Nothing, Nothing)
    BY <1>2 DEF BeginCreate
  <2> DEFINE q == [op |-> "create", memory |-> Nothing,
                   row |-> [status |-> "active", path |-> path, content |-> content, version |-> 1],
                   number |-> Nothing, sha |-> Nothing]
  <2>2. q \in RequestRows /\ Behind(q, memory)
    BY DEF RequestRows, Ops, Rows, Behind
  <2>3. req' = [req EXCEPT ![r] = q] /\ UNCHANGED <<store, memory, versions>>
    BY <2>1 DEF Begin
  <2> QED
    BY <2>2, <2>3, BeginStep
<1>3. CASE BeginUpdate(r)
  <2>1. PICK m \in Memories, path \in Paths, content \in Contents,
             number \in {Nothing} \cup 1 .. MaxVersions, sha \in {Nothing} \cup Contents :
          /\ Live(m) /\ PreconditionMet(memory[m], number, sha)
          /\ Begin(r, "update", m,
                   [memory[m] EXCEPT !.path = path, !.content = content, !.version = @ + 1], number, sha)
    BY <1>3 DEF BeginUpdate
  <2> DEFINE row == [memory[m] EXCEPT !.path = path, !.content = content, !.version = @ + 1]
             q == [op |-> "update", memory |-> m, row |-> row, number |-> number, sha |-> sha]
  <2>2. memory[m] \in Rows
    BY <1>1, <2>1 DEF Live, Absent
  <2>3. row \in Rows /\ row.status = "active" /\ row.version = memory[m].version + 1
    <3>1. row = Modified(memory[m], path, content)
      BY DEF Modified
    <3> HIDE DEF row
    <3> QED
      BY <3>1, <2>1, <2>2, Successors DEF Live
  <2>4. number \in Nat \cup {Nothing}
    BY BoundsAssumption
  <2>5. q \in RequestRows
    BY <2>3, <2>4 DEF RequestRows, Ops
  <2>6. Behind(q, memory)
    BY <2>1, <2>3, WriterBehind
  <2>7. req' = [req EXCEPT ![r] = q] /\ UNCHANGED <<store, memory, versions>>
    BY <2>1 DEF Begin
  <2> QED
    BY <2>5, <2>6, <2>7, BeginStep
<1>4. CASE BeginDelete(r)
  <2>1. PICK m \in Memories, sha \in {Nothing} \cup Contents :
          /\ Live(m) /\ PreconditionMet(memory[m], Nothing, sha)
          /\ Begin(r, "delete", m, [memory[m] EXCEPT !.status = "deleted", !.version = @ + 1], Nothing, sha)
    BY <1>4 DEF BeginDelete
  <2> DEFINE row == [memory[m] EXCEPT !.status = "deleted", !.version = @ + 1]
             q == [op |-> "delete", memory |-> m, row |-> row, number |-> Nothing, sha |-> sha]
  <2>2. memory[m] \in Rows
    BY <1>1, <2>1 DEF Live, Absent
  <2>3. row \in Rows /\ row.status = "deleted" /\ row.version = memory[m].version + 1
    <3>1. row = Deleted(memory[m])
      BY DEF Deleted
    <3>2. PICK path \in Paths, content \in Contents : TRUE
      BY <2>2 DEF Rows
    <3> HIDE DEF row
    <3> QED
      BY <3>1, <3>2, <2>2, Successors
  <2>4. q \in RequestRows
    BY <2>3 DEF RequestRows, Ops
  <2>5. Behind(q, memory)
    BY <2>1, <2>3, WriterBehind
  <2>6. req' = [req EXCEPT ![r] = q] /\ UNCHANGED <<store, memory, versions>>
    BY <2>1 DEF Begin
  <2> QED
    BY <2>4, <2>5, <2>6, BeginStep
<1>5. CASE BeginRedact(r)
  <2>1. PICK v \in versions : Redactable(v) /\ Begin(r, "redact", v.memory, Nothing, v.number, Nothing)
    BY <1>5 DEF BeginRedact
  <2> DEFINE q == [op |-> "redact", memory |-> v.memory, row |-> Nothing, number |-> v.number, sha |-> Nothing]
  <2>2. v \in Versions
    BY DEF IInv, TypeOK
  <2>3. v.memory \in Memories /\ v.number \in 1 .. memory[v.memory].version
    BY <2>2 DEF Versions, IInv, VersionsComplete, VersionsOf
  <2>4. q \in RequestRows
    BY <2>2 DEF RequestRows, Ops, Versions
  <2>5. Behind(q, memory)
    BY <2>1, <2>3 DEF Behind, RedactBehind, Redactable, Live
  <2>6. req' = [req EXCEPT ![r] = q] /\ UNCHANGED <<store, memory, versions>>
    BY <2>1 DEF Begin
  <2> QED
    BY <2>4, <2>5, <2>6, BeginStep
<1>6. CASE BeginClose(r)
  <2>1. PICK op \in {"archiveStore", "deleteStore"} : Begin(r, op, Nothing, Nothing, Nothing, Nothing)
    BY <1>6 DEF BeginClose
  <2> DEFINE q == [op |-> op, memory |-> Nothing, row |-> Nothing, number |-> Nothing, sha |-> Nothing]
  <2>2. q \in RequestRows /\ Behind(q, memory)
    BY DEF RequestRows, Ops, Behind
  <2>3. req' = [req EXCEPT ![r] = q] /\ UNCHANGED <<store, memory, versions>>
    BY <2>1 DEF Begin
  <2> QED
    BY <2>2, <2>3, BeginStep
<1>7. CASE EndArchiveStore(r) \/ EndDeleteStore(r)
  <2>1. /\ req' = [req EXCEPT ![r] = Idle] /\ UNCHANGED <<memory, versions>>
        /\ store' \in Stores
    BY <1>7 DEF EndArchiveStore, EndDeleteStore, End, IInv, TypeOK, Stores
  <2>2. TypeOK'
    BY <2>1 DEF IInv, TypeOK, Idle, Ops
  <2>3. VersionsComplete' /\ HeadIsLatest'
    BY <2>1 DEF IInv, VersionsComplete, VersionsOf, HeadIsLatest, Live
  <2>4. Pending'
    BY <2>1, IdleBehind DEF IInv, TypeOK, Pending
  <2> QED
    BY <2>2, <2>3, <2>4 DEF IInv
<1> QED
  BY <1>2, <1>3, <1>4, <1>5, <1>6, <1>7

LEMMA InitIInv == Init => IInv
<1> SUFFICES ASSUME Init PROVE IInv
  OBVIOUS
<1>1. TypeOK
  BY DEF Init, TypeOK, Stores, Idle, Ops
<1>2. VersionsComplete /\ HeadIsLatest
  BY DEF Init, VersionsComplete, VersionsOf, HeadIsLatest, Absent
<1>3. Pending
  BY IdleBehind DEF Init, Pending
<1> QED
  BY <1>1, <1>2, <1>3 DEF IInv

LEMMA StepIInv == IInv /\ [Next]_vars => IInv'
<1> SUFFICES ASSUME IInv, [Next]_vars PROVE IInv'
  OBVIOUS
<1>1. CASE Next
  BY <1>1, EndStep, OtherStep, RedactStep DEF Next, RequestStep
<1>2. CASE UNCHANGED vars
  BY <1>2 DEF vars, IInv, TypeOK, VersionsComplete, VersionsOf, HeadIsLatest, Live, Pending
<1> QED
  BY <1>1, <1>2

LEMMA Invariant == Spec => []IInv
BY InitIInv, StepIInv, PTL DEF Spec

\* Rows and requests are values of the program.
THEOREM StoreTypes == Spec => []TypeOK
BY Invariant, PTL DEF IInv

\* Every committed create, update and delete leaves exactly one version, whatever
\* requests of generic_resources.py overlap.
THEOREM VersionsAreComplete == Spec => []VersionsComplete
BY Invariant, PTL DEF IInv

\* The newest version says what the memory holds, and redact never hides it while the memory is live.
THEOREM HeadIsTheLatest == Spec => []HeadIsLatest
BY Invariant, PTL DEF IInv

\* A step is a request's, and changes no other request.
LEMMA OneRequest ==
  ASSUME NEW q \in Requests, RequestStep(q), NEW r \in Requests, r # q, TypeOK
  PROVE  req'[r] = req[r]
<1>1. \E new : req' = [req EXCEPT ![q] = new]
  BY DEF RequestStep, Begin, End, BeginCreate, EndCreate, BeginUpdate, EndUpdate, BeginDelete,
         EndDelete, BeginRedact, EndRedact, BeginClose, EndArchiveStore, EndDeleteStore
<1> QED
  BY <1>1 DEF TypeOK

\* A write of an update or a delete replaces the row that its preconditions were checked on.
LEMMA StepPrecondition ==
  ASSUME IInv, [Next]_vars, NEW r \in Requests, NEW m \in Memories,
         req[r].memory = m, req[r].op \in {"update", "delete"}, req'[r] # req[r],
         memory'[m] # memory[m]
  PROVE  req[r].number \in {Nothing, memory[m].version} /\ req[r].sha \in {Nothing, memory[m].content}
<1>1. RequestStep(r)
  <2>1. PICK q \in Requests : RequestStep(q)
    BY DEF Next, vars
  <2> QED
    BY <2>1, OneRequest DEF IInv
<1>2. EndUpdate(r) \/ EndDelete(r)
  BY <1>1 DEF RequestStep, Begin, End, BeginCreate, EndCreate, BeginUpdate, BeginDelete,
              BeginRedact, EndRedact, BeginClose, EndArchiveStore, EndDeleteStore
<1>3. WriteBehind(req[r], memory[m])
  BY DEF IInv, Pending, Behind
<1>4. PICK operation \in Operations : Write(m, req[r].row, operation)
  BY <1>2 DEF EndUpdate, EndDelete, Operations
<1>5. req[r].row \in Rows /\ req[r].row.version <= memory[m].version + 1
  BY <1>3 DEF WriteBehind, IInv, TypeOK, Rows, Absent
<1>6. Written(m, req[r].row, operation)
  BY <1>4, <1>5, WriteEffect
<1> QED
  BY <1>3, <1>6 DEF Written, WriteBehind

\* No update is lost: the preconditions of update_memory and delete_memory hold of the
\* memory that their write replaces, not only of the one they read.
THEOREM NoUpdateIsLost == Spec => PreconditionHolds
<1>1. IInv /\ [Next]_vars =>
        [\A r \in Requests, m \in Memories :
           req[r].memory = m /\ req[r].op \in {"update", "delete"} /\ req'[r] # req[r]
             /\ memory'[m] # memory[m] =>
               /\ req[r].number \in {Nothing, memory[m].version}
               /\ req[r].sha \in {Nothing, memory[m].content}]_vars
  BY StepPrecondition
<1> QED
  BY <1>1, Invariant, PTL DEF Spec, PreconditionHolds

\* The live memories and the creations in flight.
LiveMemories == {m \in Memories : Live(m)}

Creating == {r \in Requests : req[r].op = "create"}

Counted == Cardinality(LiveMemories) + Cardinality(Creating) <= Capacity - 1 + Cardinality(Requests)

\* The cardinalities are numbers.
LEMMA CountedTypes ==
  /\ IsFiniteSet(LiveMemories) /\ Cardinality(LiveMemories) \in Nat
  /\ IsFiniteSet(Creating) /\ Cardinality(Creating) \in Nat
  /\ Cardinality(Requests) \in Nat /\ Cardinality(Creating) <= Cardinality(Requests)
<1>1. LiveMemories \subseteq Memories /\ Creating \subseteq Requests
  BY DEF LiveMemories, Creating
<1> QED
  BY <1>1, FiniteAssumption, FS_Subset, FS_CardinalityType

\* Nothing is counted that was not: neither a live memory nor a creation.
LEMMA NotMore ==
  ASSUME Counted, LiveMemories' \subseteq LiveMemories, Creating' \subseteq Creating
  PROVE  Counted'
<1>1. /\ Cardinality(LiveMemories') <= Cardinality(LiveMemories) /\ Cardinality(LiveMemories') \in Nat
      /\ Cardinality(Creating') <= Cardinality(Creating) /\ Cardinality(Creating') \in Nat
  BY CountedTypes, FS_Subset, FS_CardinalityType
<1> QED
  BY <1>1, CountedTypes, BoundsAssumption DEF Counted
\* create_memory: what it counted was below the limit, and one of its creations is answered.
LEMMA CreateCounted ==
  ASSUME IInv, Counted, NEW r \in Requests, BeginCreate(r) \/ EndCreate(r)
  PROVE  Counted'
<1>1. CASE BeginCreate(r)
  <2>1. LiveMemories' = LiveMemories
    BY <1>1 DEF LiveMemories, Live, BeginCreate, Begin
  <2>2. Cardinality(LiveMemories) < Capacity
    BY <1>1 DEF BeginCreate, HasCapacity, LiveMemories
  <2>3. Creating' \subseteq Requests
    BY DEF Creating
  <2>4. Cardinality(Creating') <= Cardinality(Requests) /\ Cardinality(Creating') \in Nat
    BY <2>3, FiniteAssumption, FS_Subset, FS_CardinalityType
  <2> QED
    BY <2>1, <2>2, <2>4, CountedTypes, BoundsAssumption DEF Counted
<1>2. CASE EndCreate(r)
  <2>1. PICK m \in Memories : Write(m, req[r].row, "created")
    BY <1>2 DEF EndCreate
  <2>2. LiveMemories' \subseteq LiveMemories \cup {m}
    BY <2>1 DEF LiveMemories, Live, Write, IInv, TypeOK
  <2>3. r \in Creating
    BY <1>2 DEF Creating, EndCreate, End
  <2>4. Creating' = Creating \ {r}
    BY <1>2 DEF Creating, EndCreate, End, Idle, IInv, TypeOK
  <2>5. /\ IsFiniteSet(LiveMemories \cup {m})
        /\ Cardinality(LiveMemories \cup {m}) <= Cardinality(LiveMemories) + 1
        /\ Cardinality(LiveMemories \cup {m}) \in Nat
    <3>1. /\ IsFiniteSet(LiveMemories \cup {m})
          /\ Cardinality(LiveMemories \cup {m})
               = IF m \in LiveMemories THEN Cardinality(LiveMemories) ELSE Cardinality(LiveMemories) + 1
      BY CountedTypes, FS_AddElement
    <3> QED
      BY <3>1, CountedTypes
  <2>6. /\ Cardinality(LiveMemories') <= Cardinality(LiveMemories \cup {m})
        /\ Cardinality(LiveMemories') \in Nat
    BY <2>2, <2>5, FS_Subset, FS_CardinalityType
  <2>7. Cardinality(Creating') = Cardinality(Creating) - 1
    BY <2>3, <2>4, CountedTypes, FS_RemoveElement
  <2> QED
    BY <2>5, <2>6, <2>7, CountedTypes, BoundsAssumption DEF Counted
<1> QED
  BY <1>1, <1>2

\* Every other step makes no memory live and begins no creation.
LEMMA StepCounted == IInv /\ Counted /\ [Next]_vars => Counted'
<1> SUFFICES ASSUME IInv, Counted, [Next]_vars PROVE Counted'
  OBVIOUS
<1>1. CASE UNCHANGED vars
  BY <1>1, NotMore DEF vars, LiveMemories, Live, Creating
<1>2. ASSUME NEW r \in Requests, RequestStep(r), ~BeginCreate(r), ~EndCreate(r)
      PROVE  Counted'
  <2>1. req'[r].op # "create"
    <3>1. r \in DOMAIN req
      BY DEF IInv, TypeOK
    <3>2. CASE EndUpdate(r) \/ EndDelete(r) \/ EndRedact(r) \/ EndArchiveStore(r) \/ EndDeleteStore(r)
      BY <3>1, <3>2 DEF End, EndUpdate, EndDelete, EndRedact, EndArchiveStore, EndDeleteStore, Idle
    <3>3. CASE BeginUpdate(r) \/ BeginDelete(r) \/ BeginRedact(r) \/ BeginClose(r)
      <4>1. PICK op \in Ops \ {"create"} : \E m, row, number, sha : Begin(r, op, m, row, number, sha)
        <5>1. {"update", "delete", "redact", "archiveStore", "deleteStore"} \subseteq Ops \ {"create"}
          BY DEF Ops
        <5> QED
          BY <3>3, <5>1, Zenon DEF BeginUpdate, BeginDelete, BeginRedact, BeginClose
      <4> QED
        BY <3>1, <4>1 DEF Begin
    <3> QED
      BY <1>2, <3>2, <3>3 DEF RequestStep
  <2>2. Creating' \subseteq Creating
    BY <1>2, <2>1, OneRequest DEF Creating, IInv
  <2>3. CASE EndUpdate(r) \/ EndDelete(r)
    <3> DEFINE m == req[r].memory
               row == req[r].row
    <3>1. m \in Memories /\ WriteBehind(req[r], memory[m])
      BY <2>3 DEF EndUpdate, EndDelete, End, IInv, Pending, Behind
    <3>2. PICK operation \in Operations : Write(m, row, operation)
      BY <2>3 DEF EndUpdate, EndDelete, Operations
    <3>3. row \in Rows /\ row.version <= memory[m].version + 1
      BY <3>1 DEF WriteBehind, IInv, TypeOK, Rows, Absent
    <3>4. CASE Written(m, row, operation)
      <4>1. memory' = [memory EXCEPT ![m] = row] /\ Live(m)
        BY <3>1, <3>4 DEF Written, WriteBehind, Live
      <4>2. LiveMemories' \subseteq LiveMemories
        BY <3>1, <4>1 DEF LiveMemories, Live, IInv, TypeOK
      <4> QED
        BY <2>2, <4>2, NotMore
    <3>5. CASE UNCHANGED <<memory, versions>>
      BY <2>2, <3>5, NotMore DEF LiveMemories, Live
    <3> QED
      BY <3>1, <3>2, <3>3, <3>4, <3>5, WriteEffect
  <2>4. CASE ~(EndUpdate(r) \/ EndDelete(r))
    <3>1. memory' = memory
      BY <1>2, <2>4 DEF RequestStep, Begin, BeginUpdate, BeginDelete, BeginRedact,
                        EndRedact, BeginClose, EndArchiveStore, EndDeleteStore
    <3> QED
      BY <2>2, <3>1, NotMore DEF LiveMemories, Live
  <2> QED
    BY <2>3, <2>4
<1> QED
  BY <1>1, <1>2, CreateCounted DEF Next

\* A store has no more memories than MAX_MEMORIES_PER_STORE and the creations that may be
\* in flight besides one, though create_memory counts in one step and writes in the next.
THEOREM OverrunIsBounded == Spec => []CapacityOverrun
<1>1. Init => Counted
  <2> SUFFICES ASSUME Init PROVE Counted
    OBVIOUS
  <2>1. LiveMemories = {} /\ Creating = {}
    BY DEF Init, LiveMemories, Live, Absent, Creating, Idle
  <2>2. Cardinality({}) = 0
    BY FS_EmptySet
  <2> QED
    BY <2>1, <2>2, CountedTypes, BoundsAssumption DEF Counted
<1>2. Counted => CapacityOverrun
  BY CountedTypes, BoundsAssumption DEF Counted, CapacityOverrun, LiveMemories
<1> QED
  BY <1>1, <1>2, StepCounted, Invariant, PTL DEF Spec
=============================================================================
