-------------------------------- MODULE Files --------------------------------
(***************************************************************************)
(* Files, their objects and the copies that sessions mount:                *)
(* app/routers/files.py, app/storage.py, app/session_resources.py.         *)
(*                                                                         *)
(* A file row and the object it names live in two stores.  A request reads *)
(* rows, then changes objects, then commits rows: each of its steps is an  *)
(* action, other requests run in between, and it may end after any of      *)
(* them, by a crash of the process or an error of a later call.            *)
(***************************************************************************)
EXTENDS Integers, FiniteSets

CONSTANTS
  Contents,       \* bytes that pass the content scan; one file name, one day
  Rejected,       \* bytes that do not
  SessionIds,     \* the sessions, which exist from the start
  MaxFiles,       \* bound: file rows get the ids 1 .. MaxFiles, in this order
  MaxStaged,      \* bound: presigned uploads
  FileClients,    \* HTTP requests in flight at the same time
  MaxSessionFiles, \* MAX_SESSION_FILE_RESOURCES, 100 in the code
  Nil             \* no object, no session, no key

ASSUME NilAssumption == Nil \notin Contents \cup SessionIds /\ Rejected \notin Contents \cup {Nil}
ASSUME AreasDiffer == {"files", "staged"} \cap SessionIds = {}
ASSUME FileBounds == MaxFiles \in Nat /\ MaxStaged \in Nat /\ MaxSessionFiles \in Nat \ {0}
ASSUME FiniteFiles == IsFiniteSet(FileClients) /\ IsFiniteSet(SessionIds)

VARIABLES
  object,         \* the bucket: the bytes under each key
  fileRow,        \* the file rows
  mount,          \* the session_resource row of type file that was made with each row
  presigned,      \* the number of staged keys given out
  fileReq,        \* the requests
  raced,          \* history: the keys on which a delete overlapped with another request,
                  \* or a request ended after it changed the object and before its commit
  tampered        \* history: the contents whose staged object was replaced during complete

fileVars == <<object, fileRow, mount, presigned, fileReq, raced, tampered>>

-----------------------------------------------------------------------------
(* Data. *)

FileIds == 1 .. MaxFiles

\* object_key: of names the content by its sha256, or a staged upload by its number.
PermanentKeys == [area : {"files"} \cup SessionIds, of : Contents]

StagedKeys == [area : {"staged"}, of : 1 .. MaxStaged]

Keys == PermanentKeys \cup StagedKeys

FileKey(content) == [area |-> "files", of |-> content]

\* Mutant: the key does not name the session.
SessionKeyShared(s, content) == [area |-> "sessions", of |-> content]

SessionKey(s, content) == [area |-> s, of |-> content]

FileRows == [exists : {TRUE}, live : BOOLEAN, key : PermanentKeys, sha : Contents,
             scope : SessionIds \cup {Nil}]

NoFile == [exists |-> FALSE, live |-> FALSE, key |-> Nil, sha |-> Nil, scope |-> Nil]

\* get_resource.
Live(f) == fileRow[f].live

\* count_resources_by_storage_key.
References(key) == {f \in FileIds : Live(f) /\ fileRow[f].key = key}

\* _find_deduplicated_file: the oldest live row with the sha256, if there is one.
Duplicates(content) ==
  {f \in FileIds : Live(f) /\ fileRow[f].sha = content
                   /\ \A e \in FileIds : Live(e) /\ fileRow[e].sha = content => f <= e}

-----------------------------------------------------------------------------
(* Requests.  pc is the next step; touched says that the object under key  *)
(* was written or deleted.                                                 *)

FileIdle == [op |-> "none", pc |-> "done", file |-> 0, key |-> Nil, from |-> Nil, sha |-> Nil,
             scope |-> Nil, touched |-> FALSE]

FileRequests == [op : {"upload", "complete", "delete", "add", "remove"},
                 pc : {"put", "copy", "unstage", "drop", "commit"},
                 file : FileIds \cup {0}, key : PermanentKeys, from : Keys \cup {Nil},
                 sha : Contents, scope : SessionIds \cup {Nil}, touched : BOOLEAN]

Deletes(op) == op \in {"delete", "remove"}

\* Some request in flight works on key, and deletes it if op does not.
Clash(op, key) ==
  \E c \in FileClients : fileReq[c].key = key /\ (Deletes(op) \/ Deletes(fileReq[c].op))

FileBegin(c, op, pc, f, key, from, sha, scope) ==
  /\ fileReq[c] = FileIdle
  /\ fileReq' = [fileReq EXCEPT ![c] = [op |-> op, pc |-> pc, file |-> f, key |-> key, from |-> from,
                                       sha |-> sha, scope |-> scope, touched |-> FALSE]]
  /\ raced' = IF Clash(op, key) THEN raced \cup {key} ELSE raced
  /\ UNCHANGED <<object, fileRow, mount, presigned, tampered>>

\* A step on the bucket.
FileStep(c, from, to, key, content) ==
  /\ fileReq[c].pc = from
  /\ object' = [object EXCEPT ![key] = content]
  /\ fileReq' = [fileReq EXCEPT ![c].pc = to, ![c].touched = @ \/ key = fileReq[c].key]
  /\ UNCHANGED <<fileRow, mount, presigned, raced, tampered>>

FileCommit(c, op) ==
  /\ fileReq[c].op = op /\ fileReq[c].pc = "commit"
  /\ fileReq' = [fileReq EXCEPT ![c] = FileIdle]
  /\ UNCHANGED <<object, presigned, raced, tampered>>

\* create_resource.
NewFile(c) ==
  \E f \in FileIds :
    /\ ~fileRow[f].exists /\ \A e \in 1 .. f - 1 : fileRow[e].exists
    /\ fileRow' = [fileRow EXCEPT ![f] = [exists |-> TRUE, live |-> TRUE, key |-> fileReq[c].key,
                                         sha |-> fileReq[c].sha, scope |-> fileReq[c].scope]]
    /\ mount' = IF fileReq[c].op = "add" THEN [mount EXCEPT ![f] = "live"] ELSE mount

\* The request ends where it is: its transaction is rolled back, the bucket is not.
FileFails(c) ==
  /\ fileReq[c] # FileIdle
  /\ fileReq' = [fileReq EXCEPT ![c] = FileIdle]
  /\ raced' = IF fileReq[c].touched THEN raced \cup {fileReq[c].key} ELSE raced
  /\ UNCHANGED <<object, fileRow, mount, presigned, tampered>>

(* upload_file *)

BeginUpload(c) ==
  \E content \in Contents :
    \/ /\ Duplicates(content) = {}
       /\ FileBegin(c, "upload", "put", 0, FileKey(content), Nil, content, Nil)
    \/ \E f \in Duplicates(content) : FileBegin(c, "upload", "commit", 0, fileRow[f].key, Nil, content, Nil)

\* save_file_bytes.
PutObject(c) == FileStep(c, "put", "commit", fileReq[c].key, fileReq[c].sha)

EndUpload(c) == FileCommit(c, "upload") /\ NewFile(c)

(* presign_file_upload, complete_file_upload *)

Presign ==
  /\ presigned < MaxStaged
  /\ presigned' = presigned + 1
  /\ UNCHANGED <<object, fileRow, mount, fileReq, raced, tampered>>

\* The client writes to the URL it was given, as often as it likes.
PutStaged ==
  \E n \in 1 .. presigned, content \in Contents \cup {Rejected} :
    LET staged == [area |-> "staged", of |-> n] IN
      /\ object' = [object EXCEPT ![staged] = content]
      /\ tampered' = tampered \cup {sha \in Contents \ {content} :
                       \E c \in FileClients : fileReq[c].pc = "copy" /\ fileReq[c].from = staged /\ fileReq[c].sha = sha}
      /\ UNCHANGED <<fileRow, mount, presigned, fileReq, raced>>

\* Mutant: the sha256 is the one that the client claims.
BeginCompleteClaimed(c) ==
  \E n \in 1 .. presigned, claimed \in Contents :
    LET staged == [area |-> "staged", of |-> n] IN
      /\ object[staged] # Nil /\ Duplicates(claimed) = {}
      /\ FileBegin(c, "complete", "copy", 0, FileKey(claimed), staged, claimed, Nil)

\* The content is downloaded, scanned (_scan_upload_content) and hashed.
BeginComplete(c) ==
  \E n \in 1 .. presigned :
    LET staged == [area |-> "staged", of |-> n]
        content == object[staged] IN
      /\ content \in Contents
      /\ \/ /\ Duplicates(content) = {}
            /\ FileBegin(c, "complete", "copy", 0, FileKey(content), staged, content, Nil)
         \/ \E f \in Duplicates(content) :
              FileBegin(c, "complete", "unstage", 0, fileRow[f].key, staged, content, Nil)

\* copy_file copies what is under the key now.
CopyStaged(c) ==
  /\ fileReq[c].op = "complete" /\ object[fileReq[c].from] # Nil
  /\ FileStep(c, "copy", "unstage", fileReq[c].key, object[fileReq[c].from])

Unstage(c) == FileStep(c, "unstage", "commit", fileReq[c].from, Nil)

EndComplete(c) == FileCommit(c, "complete") /\ NewFile(c)

(* delete_file *)

\* Mutant: the object goes with any of its rows.
AfterCountAlways(key) == "drop"

\* The object goes with the last row that names it.
AfterCount(key) == IF Cardinality(References(key)) <= 1 THEN "drop" ELSE "commit"

BeginDeleteFile(c) ==
  \E f \in FileIds :
    /\ Live(f)
    /\ FileBegin(c, "delete", AfterCount(fileRow[f].key), f, fileRow[f].key, Nil, fileRow[f].sha, Nil)

DropObject(c) == FileStep(c, "drop", "commit", fileReq[c].key, Nil)

EndDeleteFile(c) ==
  /\ FileCommit(c, "delete")
  /\ fileRow' = [fileRow EXCEPT ![fileReq[c].file].live = FALSE]
  /\ UNCHANGED mount

(* add_session_resource *)

Mounted(s) == {f \in FileIds : mount[f] = "live" /\ fileRow[f].scope = s}

\* Mutant: one too many.
RoomForOneMore(s) == Cardinality(Mounted(s)) <= MaxSessionFiles

\* _ensure_file_resource_capacity.
Room(s) == Cardinality(Mounted(s)) < MaxSessionFiles

BeginAddResource(c) ==
  \E s \in SessionIds, f \in FileIds :
    /\ Room(s) /\ Live(f)
    /\ FileBegin(c, "add", "copy", f, SessionKey(s, fileRow[f].sha), fileRow[f].key, fileRow[f].sha, s)

CopyToSession(c) ==
  /\ fileReq[c].op = "add" /\ object[fileReq[c].from] # Nil
  /\ FileStep(c, "copy", "commit", fileReq[c].key, object[fileReq[c].from])

EndAddResource(c) == FileCommit(c, "add") /\ NewFile(c)

(* delete_session_resource *)

\* delete_session_resource_file does nothing when the scoped row is deleted already.
BeginRemoveResource(c) ==
  \E f \in FileIds :
    /\ mount[f] = "live"
    /\ FileBegin(c, "remove", IF Live(f) THEN AfterCount(fileRow[f].key) ELSE "commit",
                 f, fileRow[f].key, Nil, fileRow[f].sha, Nil)

\* The scoped row is deleted with the resource.
Unmounted(f) == [fileRow EXCEPT ![f].live = FALSE]

EndRemoveResource(c) ==
  /\ FileCommit(c, "remove")
  /\ fileRow' = Unmounted(fileReq[c].file)
  /\ mount' = [mount EXCEPT ![fileReq[c].file] = "removed"]

-----------------------------------------------------------------------------

FilesInit ==
  /\ object = [key \in Keys |-> Nil]
  /\ fileRow = [f \in FileIds |-> NoFile]
  /\ mount = [f \in FileIds |-> "none"]
  /\ presigned = 0
  /\ fileReq = [c \in FileClients |-> FileIdle]
  /\ raced = {} /\ tampered = {}

FilesNext ==
  \/ \E c \in FileClients : BeginUpload(c)
  \/ \E c \in FileClients : PutObject(c)
  \/ \E c \in FileClients : EndUpload(c)
  \/ Presign
  \/ PutStaged
  \/ \E c \in FileClients : BeginComplete(c)
  \/ \E c \in FileClients : CopyStaged(c)
  \/ \E c \in FileClients : Unstage(c)
  \/ \E c \in FileClients : EndComplete(c)
  \/ \E c \in FileClients : BeginDeleteFile(c)
  \/ \E c \in FileClients : DropObject(c)
  \/ \E c \in FileClients : EndDeleteFile(c)
  \/ \E c \in FileClients : BeginAddResource(c)
  \/ \E c \in FileClients : CopyToSession(c)
  \/ \E c \in FileClients : EndAddResource(c)
  \/ \E c \in FileClients : BeginRemoveResource(c)
  \/ \E c \in FileClients : EndRemoveResource(c)
  \/ \E c \in FileClients : FileFails(c)

FilesSpec == FilesInit /\ [][FilesNext]_fileVars

-----------------------------------------------------------------------------
(* Properties. *)

\* Rows, objects and requests have their types.
FilesTypeOK ==
  /\ object \in [Keys -> Contents \cup {Rejected, Nil}]
  /\ fileRow \in [FileIds -> FileRows \cup {NoFile}]
  /\ mount \in [FileIds -> {"none", "live", "removed"}]
  /\ presigned \in 0 .. MaxStaged
  /\ fileReq \in [FileClients -> FileRequests \cup {FileIdle}]
  /\ raced \subseteq Keys /\ tampered \subseteq Contents

\* Whenever no request is working on a key, its object is there if and only if some
\* live row names it, though rows share objects: unless a delete once overlapped with
\* another request on it, or a request ended between the bucket and its commit.
ObjectsFollowRows ==
  \A key \in PermanentKeys :
    key \notin raced /\ (\A c \in FileClients : fileReq[c].key # key) =>
      (object[key] # Nil <=> References(key) # {})

\* The bytes of an object have the sha256 of the rows that name it, unless the staged
\* object was replaced after it was hashed and before it was copied.
BytesMatchSha ==
  \A key \in PermanentKeys : object[key] \in {Nil, key.of} \/ key.of \in tampered

Mounting(s) == {c \in FileClients : fileReq[c].op = "add" /\ fileReq[c].scope = s}

\* A session exceeds its limit, which is checked before the copy and not at the commit,
\* by no more than the requests that overlap.
MountsBounded ==
  \A s \in SessionIds :
    Cardinality(Mounted(s)) + Cardinality(Mounting(s)) < MaxSessionFiles + Cardinality(FileClients)
=============================================================================
