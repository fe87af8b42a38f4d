----------------------------- MODULE MemoryStore -----------------------------
(***************************************************************************)
(* One memory store: the rows memory_store, memory and memory_version of   *)
(* managed_resources, and the routes that write them                       *)
(* (app/routers/generic_resources.py).                                     *)
(*                                                                         *)
(* A route is one transaction of two steps: Begin reads and decides, End   *)
(* writes and commits.  Nothing locks what was read.  The unique           *)
(* constraint on (parent_id, version) is all that makes a commit fail;     *)
(* data is written as a whole.                                             *)
(***************************************************************************)
EXTENDS Integers, FiniteSets

CONSTANTS
  Memories,       \* bound: ids that create_memory may give
  Paths,          \* normalized path keys
  Contents,       \* contents, which their SHA-256 tells apart
  Requests,       \* HTTP requests in flight at the same time
  Capacity,       \* MAX_MEMORIES_PER_STORE
  MaxVersions,    \* bound: nothing is written once there are so many versions
  MaxRedacted,    \* bound: versions that are redacted
  Nothing         \* no precondition, no memory

ASSUME NothingAssumption == Nothing \notin Contents \cup Memories \cup Nat
ASSUME FiniteAssumption == IsFiniteSet(Memories) /\ IsFiniteSet(Requests)
ASSUME BoundsAssumption == Capacity \in Nat \ {0} /\ MaxVersions \in Nat /\ MaxRedacted \in Nat

VARIABLES
  store,          \* the memory_store row
  memory,         \* the memory rows
  versions,       \* the memory_version rows
  req             \* the requests

vars == <<store, memory, versions, req>>

-----------------------------------------------------------------------------
(* Data. *)

Stores == [archived : BOOLEAN, deleted : BOOLEAN]

\* The row's name is the path key of its data.
Rows == [status : {"active", "deleted"}, path : Paths, content : Contents, version : Nat \ {0}]

Absent == [status |-> "absent", path |-> Nothing, content |-> Nothing, version |-> 0]

Operations == {"created", "modified", "deleted"}

\* snapshot without its content when redacted.
Versions == [memory : Memories, number : Nat \ {0}, operation : Operations,
             path : Paths, content : Contents, redacted : BOOLEAN]

Live(m) == memory[m].status = "active"

\* Mutant: versions are numbered from 0.
VersionFromZero(m, row, operation) ==
  [memory |-> m, number |-> row.version - 1, operation |-> operation,
   path |-> row.path, content |-> row.content, redacted |-> FALSE]

\* _create_memory_version.
Version(m, row, operation) ==
  [memory |-> m, number |-> row.version, operation |-> operation,
   path |-> row.path, content |-> row.content, redacted |-> FALSE]

\* Mutant: without the constraint.
FreeAlways(m, number) == TRUE

\* The constraint uq_managed_resources_type_parent_version.
Free(m, number) == \A v \in versions : v.memory = m => v.number # number

\* The bounds.
MayWrite == Cardinality(versions) < MaxVersions

MayRedact == Cardinality({v \in versions : v.redacted}) < MaxRedacted

\* _must_write_memory_store.
Writable == ~store.deleted /\ ~store.archived

\* Mutant: one memory more than the limit.
HasCapacityForMore == Cardinality({m \in Memories : Live(m)}) <= Capacity

\* _ensure_memory_store_capacity.
HasCapacity == Cardinality({m \in Memories : Live(m)}) < Capacity

\* _find_memory_by_path; two rows with the path are an error.
AtPath(path) == {m \in Memories : Live(m) /\ memory[m].path = path}

\* Mutant: a content_sha256 precondition is not looked at.
PreconditionMetByVersion(row, number, sha) == number \in {Nothing, row.version}

\* if_version or expected_version, and the precondition on content_sha256.  A
\* request that fails it changes nothing, whether it is answered 409 or 200.
PreconditionMet(row, number, sha) ==
  number \in {Nothing, row.version} /\ sha \in {Nothing, row.content}

-----------------------------------------------------------------------------
(* Requests. *)

Ops == {"none", "create", "update", "delete", "redact", "archiveStore", "deleteStore"}

\* row is what is written; number and sha are the preconditions, or number that of
\* the version to redact.
Idle == [op |-> "none", memory |-> Nothing, row |-> Nothing, number |-> Nothing, sha |-> Nothing]

Begin(r, op, m, row, number, sha) ==
  /\ req[r].op = "none"
  /\ req' = [req EXCEPT ![r] = [op |-> op, memory |-> m, row |-> row, number |-> number, sha |-> sha]]
  /\ UNCHANGED <<store, memory, versions>>

End(r, op) ==
  /\ req[r].op = op
  /\ req' = [req EXCEPT ![r] = Idle]

\* The row and its new version, or nothing.
Write(m, row, operation) ==
  /\ IF Free(m, row.version)
       THEN memory' = [memory EXCEPT ![m] = row] /\ versions' = versions \cup {Version(m, row, operation)}
       ELSE UNCHANGED <<memory, versions>>
  /\ UNCHANGED store

BeginCreate(r) ==
  /\ MayWrite /\ Writable /\ HasCapacity
  /\ \E path \in Paths, content \in Contents :
       /\ AtPath(path) = {}
       /\ Begin(r, "create", Nothing,
                [status |-> "active", path |-> path, content |-> content, version |-> 1], Nothing, Nothing)

\* The id is new.
EndCreate(r) ==
  /\ End(r, "create")
  /\ \E m \in Memories : memory[m].status = "absent" /\ Write(m, req[r].row, "created")

\* The store is not looked at.  An update that changes nothing writes nothing.
BeginUpdate(r) ==
  \E m \in Memories, path \in Paths, content \in Contents,
     number \in {Nothing} \cup 1 .. MaxVersions, sha \in {Nothing} \cup Contents :
    /\ MayWrite /\ Live(m)
    /\ PreconditionMet(memory[m], number, sha)
    /\ path # memory[m].path \/ content # memory[m].content
    /\ path # memory[m].path => AtPath(path) = {}
    /\ Begin(r, "update", m,
             [memory[m] EXCEPT !.path = path, !.content = content, !.version = @ + 1], number, sha)

EndUpdate(r) ==
  /\ End(r, "update")
  /\ Write(req[r].memory, req[r].row, "modified")

BeginDelete(r) ==
  /\ MayWrite /\ Writable
  /\ \E m \in Memories, sha \in {Nothing} \cup Contents :
       /\ Live(m) /\ PreconditionMet(memory[m], Nothing, sha)
       /\ Begin(r, "delete", m, [memory[m] EXCEPT !.status = "deleted", !.version = @ + 1], Nothing, sha)

EndDelete(r) ==
  /\ End(r, "delete")
  /\ Write(req[r].memory, req[r].row, "deleted")

\* Mutant: the current version of a live memory can be redacted.
RedactableAlways(v) == TRUE

Redactable(v) == Live(v.memory) => memory[v.memory].version # v.number

BeginRedact(r) ==
  /\ MayRedact /\ ~store.deleted
  /\ \E v \in versions : Redactable(v) /\ Begin(r, "redact", v.memory, Nothing, v.number, Nothing)

EndRedact(r) ==
  /\ End(r, "redact")
  /\ versions' = {IF v.memory = req[r].memory /\ v.number = req[r].number
                    THEN [v EXCEPT !.redacted = TRUE] ELSE v : v \in versions}
  /\ UNCHANGED <<store, memory>>

\* _archive and _delete: each writes a column of its own.
BeginClose(r) ==
  /\ ~store.deleted
  /\ \E op \in {"archiveStore", "deleteStore"} : Begin(r, op, Nothing, Nothing, Nothing, Nothing)

EndArchiveStore(r) ==
  /\ End(r, "archiveStore")
  /\ store' = [store EXCEPT !.archived = TRUE]
  /\ UNCHANGED <<memory, versions>>

EndDeleteStore(r) ==
  /\ End(r, "deleteStore")
  /\ store' = [store EXCEPT !.deleted = TRUE]
  /\ UNCHANGED <<memory, versions>>

RequestStep(r) ==
  \/ BeginCreate(r) \/ EndCreate(r) \/ BeginUpdate(r) \/ EndUpdate(r)
  \/ BeginDelete(r) \/ EndDelete(r) \/ BeginRedact(r) \/ EndRedact(r)
  \/ BeginClose(r) \/ EndArchiveStore(r) \/ EndDeleteStore(r)

-----------------------------------------------------------------------------

Init ==
  /\ store = [archived |-> FALSE, deleted |-> FALSE]
  /\ memory = [m \in Memories |-> Absent]
  /\ versions = {}
  /\ req = [r \in Requests |-> Idle]

Next == \E r \in Requests : RequestStep(r)

Spec == Init /\ [][Next]_vars

-----------------------------------------------------------------------------
(* Properties. *)

\* Rows and requests are values of the program.
TypeOK ==
  /\ store \in Stores
  /\ memory \in [Memories -> Rows \cup {Absent}]
  /\ versions \subseteq Versions
  /\ req \in [Requests -> [op : Ops, memory : Memories \cup {Nothing},
                           row : Rows \cup {Nothing}, number : Nat \cup {Nothing},
                           sha : Contents \cup {Nothing}]]

VersionsOf(m) == {v \in versions : v.memory = m}

\* Every create, update and delete that commits leaves its version, whatever
\* requests overlap: a memory with version n has the versions 1 .. n, each once.
VersionsComplete ==
  \A m \in Memories :
    /\ {v.number : v \in VersionsOf(m)} = 1 .. memory[m].version
    /\ \A v, w \in VersionsOf(m) : v.number = w.number => v = w
    /\ \A v \in VersionsOf(m) :
         /\ v.operation = "created" <=> v.number = 1
         /\ v.operation = "deleted" <=> v.number = memory[m].version /\ memory[m].status = "deleted"

\* The newest version says what the memory holds, and keeps its content as long
\* as the memory is live, although redact reads the memory before it writes.
HeadIsLatest ==
  \A m \in Memories, v \in versions :
    v.memory = m /\ v.number = memory[m].version =>
      /\ v.path = memory[m].path /\ v.content = memory[m].content
      /\ Live(m) => ~v.redacted

\* No update is lost: what a request expected of the memory when it began is true
\* of the memory its write replaces.
PreconditionHolds ==
  [][\A r \in Requests, m \in Memories :
       req[r].memory = m /\ req[r].op \in {"update", "delete"} /\ req'[r] # req[r]
         /\ memory'[m] # memory[m] =>
           /\ req[r].number \in {Nothing, memory[m].version}
           /\ req[r].sha \in {Nothing, memory[m].content}]_vars

\* create_memory counts before it writes: the limit is overrun, by no more than the
\* creations in flight besides one.
CapacityOverrun ==
  Cardinality({m \in Memories : Live(m)}) <= Capacity + Cardinality(Requests) - 1
=============================================================================
