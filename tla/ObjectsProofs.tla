---------------------------- MODULE ObjectsProofs ----------------------------
(***************************************************************************)
(* What Files, Skills, EventStream and Listing keep, for any number of     *)
(* rows, contents, sessions, skills and overlapping requests, for any      *)
(* clock and for every log, page size, limit and thread.                   *)
(*   Files: the bucket has no transactions.  What carries the proof is,    *)
(* for each key that no delete has raced for, what every request in flight *)
(* has still to do with it (Settled).                                      *)
(*   Skills: a request's number is above the one it read.                  *)
(*   EventStream: the cursor follows what is sent and not what is read, so *)
(* the invariant has to know that a page leaves out no event of the thread *)
(* between the cursor and the events still to be looked at.                *)
(*   Listing: the place of a row is the number of rows before it.  Of an   *)
(* open walk the invariant says which rows it has sent: those it has       *)
(* passed, by place or by age.                                             *)
(*   Objects: the four share no row, so each keeps its types whichever of  *)
(* them moves.                                                             *)
(***************************************************************************)
EXTENDS MCObjects, FiniteSetTheorems, SequenceTheorems, WellFoundedInduction, TLAPS

RowOK(row, mounted) ==
  /\ row.exists => row.key.of = row.sha
  /\ ~row.exists => ~row.live /\ mounted = "none"

RowsOK == \A f \in FileIds : RowOK(fileRow[f], mount[f])

\* The steps a request has left, and what it holds of the rows it read.
Shape(q, rows) ==
  /\ q.key.of = q.sha
  /\ q.op = "upload" => q.pc \in {"put", "commit"}
  /\ q.op = "complete" => q.pc \in {"copy", "unstage", "commit"} /\ q.from \in StagedKeys
  /\ q.op = "add" => /\ q.pc \in {"copy", "commit"} /\ (q.pc = "commit" => q.touched)
                     /\ q.from \in PermanentKeys /\ q.from.of = q.sha
  /\ Deletes(q.op) => /\ q.pc \in {"drop", "commit"}
                      /\ q.file \in FileIds /\ rows[q.file].exists /\ rows[q.file].key = q.key
  /\ q.pc \in {"put", "copy", "drop"} => ~q.touched

ShapesOK == \A c \in FileClients : fileReq[c] # FileIdle => Shape(fileReq[c], fileRow)

Typed == FilesTypeOK /\ RowsOK /\ ShapesOK

\* The content that a completion is about to copy is the one it has hashed.
StagedBytes ==
  \A c \in FileClients :
    fileReq[c].op = "complete" /\ fileReq[c].pc = "copy" =>
      object[fileReq[c].from] \in {Nil, fileReq[c].sha} \/ fileReq[c].sha \in tampered

On(reqs, key) == {c \in FileClients : reqs[c] # FileIdle /\ reqs[c].key = key}

\* bytes are those under a key, refs the rows that name it, on the requests that work
\* on it: a delete is alone with it and knows whether its row is the last; without one,
\* the object is there for the rows and for the requests that have put it there.
Settled(bytes, refs, on, reqs) ==
  /\ \A c, d \in on : c # d => ~Deletes(reqs[c].op)
  /\ (\A c \in on : ~(Deletes(reqs[c].op) /\ reqs[c].touched)) =>
       (bytes # Nil <=> refs # {} \/ \E c \in on : reqs[c].touched)
  /\ \A c \in on :
       /\ Deletes(reqs[c].op) /\ reqs[c].pc = "drop" => refs = {reqs[c].file}
       /\ Deletes(reqs[c].op) /\ reqs[c].touched => refs = {reqs[c].file} /\ bytes = Nil
       /\ Deletes(reqs[c].op) /\ reqs[c].pc = "commit" /\ ~reqs[c].touched => refs # {reqs[c].file}
       /\ ~Deletes(reqs[c].op) /\ reqs[c].pc \in {"commit", "unstage"} /\ ~reqs[c].touched => refs # {}

KeysSettled ==
  \A key \in PermanentKeys \ raced : Settled(object[key], References(key), On(fileReq, key), fileReq)

-----------------------------------------------------------------------------
(* Types and shapes. *)

LEMMA KeyFacts ==
  /\ \A k \in PermanentKeys : k.of \in Contents /\ k \in Keys /\ k \notin StagedKeys
  /\ \A content \in Contents : FileKey(content) \in PermanentKeys /\ FileKey(content).of = content
  /\ \A s \in SessionIds, content \in Contents :
       SessionKey(s, content) \in PermanentKeys /\ SessionKey(s, content).of = content
  /\ \A n \in 1 .. MaxStaged : [area |-> "staged", of |-> n] \in StagedKeys
  /\ StagedKeys \subseteq Keys
<1>1. \A k \in PermanentKeys : k.area # "staged"
  BY AreasDiffer DEF PermanentKeys
<1>2. \A k \in StagedKeys : k.area = "staged"
  BY DEF StagedKeys
<1> QED
  BY <1>1, <1>2 DEF PermanentKeys, StagedKeys, Keys, FileKey, SessionKey

\* A live row names a permanent key.
LEMMA RowFacts ==
  ASSUME Typed, NEW f \in FileIds, fileRow[f].exists
  PROVE  /\ fileRow[f] \in FileRows
         /\ fileRow[f].key \in PermanentKeys /\ fileRow[f].sha \in Contents
         /\ fileRow[f].key.of = fileRow[f].sha
<1>1. fileRow[f] \in FileRows
  BY DEF Typed, FilesTypeOK, NoFile
<1>2. RowOK(fileRow[f], mount[f])
  BY DEF Typed, RowsOK
<1> QED
  BY <1>1, <1>2 DEF FileRows, RowOK

LEMMA LiveExists == Typed => \A f \in FileIds : Live(f) => fileRow[f].exists
BY DEF Typed, RowsOK, RowOK, Live, FilesTypeOK, FileRows, NoFile

\* A request in flight has the type and the shape of one.
LEMMA ReqFacts ==
  ASSUME Typed, NEW c \in FileClients, fileReq[c].op # "none" \/ fileReq[c].pc # "done"
  PROVE  fileReq[c] # FileIdle /\ fileReq[c] \in FileRequests /\ Shape(fileReq[c], fileRow)
BY DEF Typed, FilesTypeOK, ShapesOK, FileIdle

\* A step on the bucket.
LEMMA StepTyped ==
  ASSUME Typed, NEW c \in FileClients, NEW from, NEW to \in {"unstage", "commit"},
         NEW key \in Keys, NEW content \in Contents \cup {Rejected, Nil},
         FileStep(c, from, to, key, content), from # "done",
         LET q == [fileReq[c] EXCEPT !.pc = to, !.touched = @ \/ key = fileReq[c].key] IN Shape(q, fileRow)
  PROVE  Typed'
<1>1. fileReq[c] \in FileRequests
  BY ReqFacts DEF FileStep
<1>2. FilesTypeOK'
  BY <1>1 DEF FileStep, Typed, FilesTypeOK, FileRequests
<1>3. RowsOK'
  BY DEF FileStep, Typed, RowsOK
<1>4. ShapesOK'
  BY DEF FileStep, Typed, FilesTypeOK, ShapesOK
<1> QED
  BY <1>2, <1>3, <1>4 DEF Typed

\* A commit that inserts a row.
LEMMA InsertTyped ==
  ASSUME Typed, NEW c \in FileClients, NEW op \in {"upload", "complete", "add"}, FileCommit(c, op), NewFile(c)
  PROVE  Typed'
<1>1. fileReq[c] \in FileRequests /\ Shape(fileReq[c], fileRow)
  BY ReqFacts DEF FileCommit
<1>2. PICK f \in FileIds :
        /\ ~fileRow[f].exists
        /\ fileRow' = [fileRow EXCEPT ![f] = [exists |-> TRUE, live |-> TRUE, key |-> fileReq[c].key,
                                             sha |-> fileReq[c].sha, scope |-> fileReq[c].scope]]
        /\ mount' = IF fileReq[c].op = "add" THEN [mount EXCEPT ![f] = "live"] ELSE mount
  BY DEF NewFile
<1>3. FilesTypeOK'
  BY <1>1, <1>2 DEF FileCommit, Typed, FilesTypeOK, FileRequests, FileRows
<1>4. RowsOK'
  <2> SUFFICES ASSUME NEW g \in FileIds PROVE RowOK(fileRow'[g], mount'[g])
    BY DEF RowsOK
  <2>1. CASE g = f
    BY <1>1, <1>2, <2>1 DEF Typed, FilesTypeOK, RowOK, Shape
  <2>2. CASE g # f
    BY <1>2, <2>2 DEF Typed, FilesTypeOK, RowsOK, RowOK
  <2> QED
    BY <2>1, <2>2
<1>5. ShapesOK'
  <2> SUFFICES ASSUME NEW d \in FileClients, fileReq'[d] # FileIdle PROVE Shape(fileReq'[d], fileRow')
    BY DEF ShapesOK
  <2>1. d # c /\ fileReq'[d] = fileReq[d]
    BY DEF FileCommit, Typed, FilesTypeOK
  <2>2. Shape(fileReq[d], fileRow)
    BY <2>1 DEF Typed, ShapesOK
  <2> QED
    BY <1>2, <2>1, <2>2 DEF Shape, Typed, FilesTypeOK
<1> QED
  BY <1>3, <1>4, <1>5 DEF Typed

\* A commit that deletes a row.
LEMMA DeleteTyped ==
  ASSUME Typed, NEW c \in FileClients, NEW op \in {"delete", "remove"}, FileCommit(c, op),
         fileRow' = Unmounted(fileReq[c].file),
         mount' \in {mount, [mount EXCEPT ![fileReq[c].file] = "removed"]}
  PROVE  Typed'
<1>1. fileReq[c] \in FileRequests /\ Shape(fileReq[c], fileRow)
  BY ReqFacts DEF FileCommit
<1> DEFINE f == fileReq[c].file
<1>2. f \in FileIds /\ fileRow[f].exists /\ fileRow[f] \in FileRows
  BY <1>1, RowFacts DEF Shape, Deletes, FileCommit
<1>3. fileRow' = [fileRow EXCEPT ![f].live = FALSE]
  BY DEF Unmounted
<1>4. mount' \in {mount, [mount EXCEPT ![f] = "removed"]}
  OBVIOUS
<1> HIDE DEF f
<1>5. [fileRow[f] EXCEPT !.live = FALSE] \in FileRows
  BY <1>2 DEF FileRows
<1>6. FilesTypeOK'
  BY <1>2, <1>3, <1>4, <1>5 DEF FileCommit, Typed, FilesTypeOK
<1>7. RowsOK'
  BY <1>2, <1>3, <1>4 DEF Typed, FilesTypeOK, RowsOK, RowOK
<1>8. ShapesOK'
  <2> SUFFICES ASSUME NEW d \in FileClients, fileReq'[d] # FileIdle PROVE Shape(fileReq'[d], fileRow')
    BY DEF ShapesOK
  <2>1. d # c /\ fileReq'[d] = fileReq[d]
    BY DEF FileCommit, Typed, FilesTypeOK
  <2>2. Shape(fileReq[d], fileRow)
    BY <2>1 DEF Typed, ShapesOK
  <2>3. \A g \in FileIds : fileRow'[g].exists = fileRow[g].exists /\ fileRow'[g].key = fileRow[g].key
    BY <1>2, <1>3 DEF Typed, FilesTypeOK, FileRows
  <2> QED
    BY <2>1, <2>2, <2>3 DEF Shape
<1> QED
  BY <1>6, <1>7, <1>8 DEF Typed

LEMMA TypedInit == FilesInit => Typed
<1> SUFFICES ASSUME FilesInit PROVE Typed
  OBVIOUS
<1>1. FilesTypeOK
  BY FileBounds DEF FilesInit, FilesTypeOK
<1>2. RowsOK
  BY DEF FilesInit, RowsOK, RowOK, NoFile
<1>3. ShapesOK
  BY DEF FilesInit, ShapesOK
<1> QED
  BY <1>1, <1>2, <1>3 DEF Typed

\* What _find_deduplicated_file returns.
LEMMA DuplicateFacts ==
  ASSUME Typed, NEW content \in Contents, NEW f \in Duplicates(content)
  PROVE  /\ f \in FileIds /\ Live(f)
         /\ fileRow[f].key \in PermanentKeys /\ fileRow[f].key.of = content
BY LiveExists, RowFacts DEF Duplicates

LEMMA AfterCountFacts ==
  ASSUME Typed, NEW f \in FileIds, Live(f)
  PROVE  /\ AfterCount(fileRow[f].key) \in {"drop", "commit"}
         /\ AfterCount(fileRow[f].key) = "drop" => References(fileRow[f].key) = {f}
         /\ AfterCount(fileRow[f].key) = "commit" => References(fileRow[f].key) # {f}
<1> DEFINE refs == References(fileRow[f].key)
<1>1. f \in refs /\ refs \subseteq FileIds
  BY DEF References
<1>2. IsFiniteSet(FileIds)
  BY FileBounds, FS_Interval DEF FileIds
<1>3. IsFiniteSet(refs) /\ Cardinality(refs) \in Nat
  BY <1>1, <1>2, FS_Subset, FS_CardinalityType
<1>4. Cardinality(refs) # 0
  BY <1>1, <1>3, FS_EmptySet
<1>5. Cardinality(refs) = 1 <=> refs = {f}
  BY <1>1, <1>3, FS_Singleton
<1> HIDE DEF refs
<1>6. Cardinality(refs) <= 1 <=> refs = {f}
  BY <1>3, <1>4, <1>5
<1> QED
  BY <1>6 DEF AfterCount, refs

-----------------------------------------------------------------------------
(* How a request begins. *)

\* What a request that begins knows of the rows that name its object.
Fits(q, refs) ==
  /\ ~q.touched
  /\ Deletes(q.op) /\ q.pc = "drop" => refs = {q.file}
  /\ Deletes(q.op) /\ q.pc = "commit" => refs # {q.file}
  /\ ~Deletes(q.op) /\ q.pc \in {"commit", "unstage"} => refs # {}

Fresh(q) ==
  /\ q \in FileRequests /\ Shape(q, fileRow) /\ Fits(q, References(q.key))
  /\ q.op = "complete" /\ q.pc = "copy" => object[q.from] = q.sha
  /\ q.op = "add" => q.scope \in SessionIds /\ Room(q.scope)

Begins(c, q) ==
  /\ fileReq[c] = FileIdle
  /\ fileReq' = [fileReq EXCEPT ![c] = q]
  /\ raced' = IF Clash(q.op, q.key) THEN raced \cup {q.key} ELSE raced
  /\ UNCHANGED <<object, fileRow, mount, presigned, tampered>>

LEMMA FileBegins ==
  ASSUME NEW c, NEW op, NEW pc, NEW f, NEW key, NEW from, NEW sha, NEW area,
         FileBegin(c, op, pc, f, key, from, sha, area)
  PROVE  Begins(c, [op |-> op, pc |-> pc, file |-> f, key |-> key, from |-> from,
                    sha |-> sha, scope |-> area, touched |-> FALSE])
BY DEF FileBegin, Begins

LEMMA UploadBegins ==
  ASSUME Typed, NEW c \in FileClients, BeginUpload(c)
  PROVE  \E q : Fresh(q) /\ Begins(c, q)
<1>1. PICK content \in Contents :
        \/ FileBegin(c, "upload", "put", 0, FileKey(content), Nil, content, Nil)
        \/ \E f \in Duplicates(content) : FileBegin(c, "upload", "commit", 0, fileRow[f].key, Nil, content, Nil)
  BY DEF BeginUpload
<1> DEFINE q(pc, key) == [op |-> "upload", pc |-> pc, file |-> 0, key |-> key, from |-> Nil,
                          sha |-> content, scope |-> Nil, touched |-> FALSE]
<1>2. ASSUME NEW pc \in {"put", "commit"}, NEW key \in PermanentKeys, key.of = content,
             pc = "commit" => References(key) # {}
      PROVE  Fresh(q(pc, key))
  BY <1>2 DEF Fresh, Fits, Shape, FileRequests, Deletes
<1>3. CASE FileBegin(c, "upload", "put", 0, FileKey(content), Nil, content, Nil)
  <2>1. Begins(c, q("put", FileKey(content)))
    BY <1>3, FileBegins
  <2>2. Fresh(q("put", FileKey(content)))
    BY <1>2, KeyFacts
  <2> QED
    BY <2>1, <2>2
<1>4. ASSUME NEW f \in Duplicates(content),
             FileBegin(c, "upload", "commit", 0, fileRow[f].key, Nil, content, Nil)
      PROVE  \E r : Fresh(r) /\ Begins(c, r)
  <2>1. Begins(c, q("commit", fileRow[f].key))
    BY <1>4, FileBegins
  <2>2. f \in References(fileRow[f].key)
    BY DuplicateFacts DEF References
  <2>3. Fresh(q("commit", fileRow[f].key))
    BY <1>2, <2>2, DuplicateFacts
  <2> QED
    BY <2>1, <2>3
<1> QED
  BY <1>1, <1>3, <1>4

LEMMA CompleteBegins ==
  ASSUME Typed, NEW c \in FileClients, BeginComplete(c)
  PROVE  \E q : Fresh(q) /\ Begins(c, q)
<1>1. PICK n \in 1 .. presigned :
        LET staged == [area |-> "staged", of |-> n]
            content == object[staged] IN
          /\ content \in Contents
          /\ \/ FileBegin(c, "complete", "copy", 0, FileKey(content), staged, content, Nil)
             \/ \E f \in Duplicates(content) :
                  FileBegin(c, "complete", "unstage", 0, fileRow[f].key, staged, content, Nil)
  BY DEF BeginComplete
<1> DEFINE staged == [area |-> "staged", of |-> n]
           content == object[staged]
           q(pc, key) == [op |-> "complete", pc |-> pc, file |-> 0, key |-> key, from |-> staged,
                          sha |-> content, scope |-> Nil, touched |-> FALSE]
<1>2. staged \in StagedKeys /\ staged \in Keys
  <2>1. n \in 1 .. MaxStaged
    BY FileBounds DEF Typed, FilesTypeOK
  <2> QED
    BY <2>1, KeyFacts
<1>3. content \in Contents
  BY <1>1
<1> HIDE DEF staged
<1>4. ASSUME NEW pc \in {"copy", "unstage"}, NEW key \in PermanentKeys, key.of = content,
             pc = "unstage" => References(key) # {}
      PROVE  Fresh(q(pc, key))
  BY <1>2, <1>3, <1>4 DEF Fresh, Fits, Shape, FileRequests, Deletes
<1>5. CASE FileBegin(c, "complete", "copy", 0, FileKey(content), staged, content, Nil)
  <2>1. Begins(c, q("copy", FileKey(content)))
    BY <1>5, FileBegins
  <2>2. Fresh(q("copy", FileKey(content)))
    BY <1>3, <1>4, KeyFacts
  <2> QED
    BY <2>1, <2>2
<1>6. ASSUME NEW f \in Duplicates(content),
             FileBegin(c, "complete", "unstage", 0, fileRow[f].key, staged, content, Nil)
      PROVE  \E r : Fresh(r) /\ Begins(c, r)
  <2>1. Begins(c, q("unstage", fileRow[f].key))
    BY <1>6, FileBegins
  <2>2. f \in References(fileRow[f].key)
    BY <1>3, DuplicateFacts DEF References
  <2>3. Fresh(q("unstage", fileRow[f].key))
    BY <1>3, <1>4, <2>2, DuplicateFacts
  <2> QED
    BY <2>1, <2>3
<1> QED
  BY <1>1, <1>5, <1>6 DEF staged

\* Both deletes count the rows first.
LEMMA DeleteBegins ==
  ASSUME Typed, NEW c \in FileClients, BeginDeleteFile(c) \/ BeginRemoveResource(c)
  PROVE  \E q : Fresh(q) /\ Begins(c, q)
<1>1. PICK f \in FileIds, op \in {"delete", "remove"} :
        /\ fileRow[f].exists /\ (op = "delete" => Live(f))
        /\ FileBegin(c, op, IF Live(f) THEN AfterCount(fileRow[f].key) ELSE "commit",
                     f, fileRow[f].key, Nil, fileRow[f].sha, Nil)
  <2>1. CASE BeginDeleteFile(c)
    BY <2>1, LiveExists DEF BeginDeleteFile
  <2>2. CASE BeginRemoveResource(c)
    BY <2>2 DEF BeginRemoveResource, Typed, RowsOK, RowOK
  <2> QED
    BY <2>1, <2>2
<1> DEFINE pc == IF Live(f) THEN AfterCount(fileRow[f].key) ELSE "commit"
           q == [op |-> op, pc |-> pc, file |-> f, key |-> fileRow[f].key, from |-> Nil,
                 sha |-> fileRow[f].sha, scope |-> Nil, touched |-> FALSE]
<1>2. /\ pc \in {"drop", "commit"}
      /\ pc = "drop" => References(fileRow[f].key) = {f}
      /\ pc = "commit" => References(fileRow[f].key) # {f}
  <2>1. CASE Live(f)
    BY <2>1, AfterCountFacts
  <2>2. CASE ~Live(f)
    BY <2>2 DEF References
  <2> QED
    BY <2>1, <2>2
<1>3. Begins(c, q)
  BY <1>1, FileBegins
<1> HIDE DEF pc
<1>4. q \in FileRequests /\ Shape(q, fileRow)
  BY <1>1, <1>2, RowFacts DEF FileRequests, Shape, Deletes
<1>5. Fits(q, References(q.key))
  BY <1>2 DEF Fits, Deletes
<1> QED
  BY <1>3, <1>4, <1>5 DEF Fresh

LEMMA AddBegins ==
  ASSUME Typed, NEW c \in FileClients, BeginAddResource(c)
  PROVE  \E q : Fresh(q) /\ Begins(c, q)
<1>1. PICK s \in SessionIds, f \in FileIds :
        /\ Room(s) /\ Live(f)
        /\ FileBegin(c, "add", "copy", f, SessionKey(s, fileRow[f].sha), fileRow[f].key, fileRow[f].sha, s)
  BY DEF BeginAddResource
<1> DEFINE q == [op |-> "add", pc |-> "copy", file |-> f, key |-> SessionKey(s, fileRow[f].sha),
                 from |-> fileRow[f].key, sha |-> fileRow[f].sha, scope |-> s, touched |-> FALSE]
<1>2. /\ fileRow[f].key \in PermanentKeys /\ fileRow[f].sha \in Contents /\ fileRow[f].key.of = fileRow[f].sha
      /\ fileRow[f].key \in Keys
  BY <1>1, LiveExists, RowFacts, KeyFacts
<1>3. Begins(c, q)
  BY <1>1, FileBegins
<1>4. SessionKey(s, fileRow[f].sha) \in PermanentKeys /\ SessionKey(s, fileRow[f].sha).of = fileRow[f].sha
  BY <1>2, KeyFacts
<1>5. q \in FileRequests /\ Shape(q, fileRow)
  BY <1>2, <1>4 DEF FileRequests, Shape, Deletes
<1>6. Fits(q, References(q.key))
  BY DEF Fits, Deletes
<1> QED
  BY <1>1, <1>3, <1>5, <1>6 DEF Fresh

LEMMA BeginTyped ==
  ASSUME Typed, NEW c \in FileClients, NEW q, Fresh(q), Begins(c, q)
  PROVE  Typed'
<1>1. FilesTypeOK'
  <2>1. q.key \in Keys
    BY KeyFacts DEF Fresh, FileRequests
  <2> QED
    BY <2>1 DEF Begins, Fresh, Typed, FilesTypeOK
<1>2. RowsOK'
  BY DEF Begins, Typed, RowsOK
<1>3. ShapesOK'
  BY DEF Begins, Fresh, Typed, FilesTypeOK, ShapesOK
<1> QED
  BY <1>1, <1>2, <1>3 DEF Typed

-----------------------------------------------------------------------------
(* The kinds of steps. *)

\* A request writes the object that its row will name.
Puts(c, content) ==
  /\ content \in Contents \cup {Rejected}
  /\ \/ fileReq[c].op = "upload" /\ fileReq[c].pc = "put" /\ content = fileReq[c].sha
     \/ fileReq[c].op \in {"complete", "add"} /\ fileReq[c].pc = "copy" /\ content = object[fileReq[c].from]
  /\ FileStep(c, fileReq[c].pc, IF fileReq[c].op = "complete" THEN "unstage" ELSE "commit", fileReq[c].key, content)

Inserts(c) == (\E op \in {"upload", "complete", "add"} : FileCommit(c, op)) /\ NewFile(c)

Removes(c) ==
  /\ \E op \in {"delete", "remove"} : FileCommit(c, op)
  /\ fileRow' = Unmounted(fileReq[c].file)
  /\ mount' \in {mount, [mount EXCEPT ![fileReq[c].file] = "removed"]}

LEMMA PutObjectPuts ==
  ASSUME Typed, NEW c \in FileClients, PutObject(c)
  PROVE  Puts(c, fileReq[c].sha)
<1>1. fileReq[c].pc = "put"
  BY DEF PutObject, FileStep
<1>2. fileReq[c] \in FileRequests /\ Shape(fileReq[c], fileRow)
  BY <1>1, ReqFacts
<1>3. fileReq[c].op = "upload" /\ fileReq[c].sha \in Contents
  BY <1>1, <1>2 DEF FileRequests, Shape, Deletes
<1> QED
  BY <1>1, <1>3 DEF PutObject, Puts

LEMMA CopyPuts ==
  ASSUME Typed, NEW c \in FileClients, CopyStaged(c) \/ CopyToSession(c)
  PROVE  Puts(c, object[fileReq[c].from])
<1>1. fileReq[c].pc = "copy" /\ fileReq[c].op \in {"complete", "add"} /\ object[fileReq[c].from] # Nil
  BY DEF CopyStaged, CopyToSession, FileStep
<1>2. fileReq[c] \in FileRequests /\ Shape(fileReq[c], fileRow)
  BY <1>1, ReqFacts
<1>3. fileReq[c].from \in Keys
  BY <1>1, <1>2, KeyFacts DEF Shape
<1>4. object[fileReq[c].from] \in Contents \cup {Rejected}
  BY <1>1, <1>3 DEF Typed, FilesTypeOK
<1> QED
  BY <1>1, <1>4 DEF CopyStaged, CopyToSession, Puts

LEMMA StepKinds ==
  ASSUME Typed, FilesNext
  PROVE  \/ \E c \in FileClients : \E q : Fresh(q) /\ Begins(c, q)
         \/ \E c \in FileClients : \E content : Puts(c, content)
         \/ \E c \in FileClients : Unstage(c) \/ DropObject(c) \/ Inserts(c) \/ Removes(c) \/ FileFails(c)
         \/ Presign
         \/ PutStaged
<1>1. ASSUME NEW c \in FileClients,
             BeginUpload(c) \/ BeginComplete(c) \/ BeginDeleteFile(c) \/ BeginAddResource(c) \/ BeginRemoveResource(c)
      PROVE  \E q : Fresh(q) /\ Begins(c, q)
  BY <1>1, UploadBegins, CompleteBegins, DeleteBegins, AddBegins
<1>2. ASSUME NEW c \in FileClients, PutObject(c) \/ CopyStaged(c) \/ CopyToSession(c)
      PROVE  \E content : Puts(c, content)
  BY <1>2, PutObjectPuts, CopyPuts
<1>3. ASSUME NEW c \in FileClients, EndUpload(c) \/ EndComplete(c) \/ EndAddResource(c)
      PROVE  Inserts(c)
  BY <1>3 DEF EndUpload, EndComplete, EndAddResource, Inserts
<1>4. ASSUME NEW c \in FileClients, EndDeleteFile(c) \/ EndRemoveResource(c)
      PROVE  Removes(c)
  BY <1>4 DEF EndDeleteFile, EndRemoveResource, Removes, Unmounted
<1> QED
  BY <1>1, <1>2, <1>3, <1>4 DEF FilesNext

LEMMA PutsTyped ==
  ASSUME Typed, NEW c \in FileClients, NEW content, Puts(c, content)
  PROVE  Typed'
<1>1. fileReq[c] \in FileRequests /\ Shape(fileReq[c], fileRow)
  BY ReqFacts DEF Puts
<1> DEFINE to == IF fileReq[c].op = "complete" THEN "unstage" ELSE "commit"
<1>2. /\ fileReq[c].key \in Keys /\ to \in {"unstage", "commit"}
      /\ FileStep(c, fileReq[c].pc, to, fileReq[c].key, content) /\ fileReq[c].pc # "done"
      /\ content \in Contents \cup {Rejected, Nil}
  BY <1>1, KeyFacts DEF Puts, FileRequests
<1>3. Shape([fileReq[c] EXCEPT !.pc = to, !.touched = @ \/ fileReq[c].key = fileReq[c].key], fileRow)
  BY <1>1 DEF Shape, Puts, FileRequests, Deletes
<1> HIDE DEF to
<1> QED
  BY <1>2, <1>3, StepTyped

LEMMA UnstageFacts ==
  ASSUME Typed, NEW c \in FileClients, Unstage(c)
  PROVE  /\ fileReq[c] \in FileRequests /\ Shape(fileReq[c], fileRow) /\ fileReq[c] # FileIdle
         /\ fileReq[c].op = "complete" /\ fileReq[c].pc = "unstage"
         /\ fileReq[c].from \in StagedKeys /\ fileReq[c].from # fileReq[c].key
<1>1. fileReq[c].pc = "unstage"
  BY DEF Unstage, FileStep
<1>2. fileReq[c] \in FileRequests /\ Shape(fileReq[c], fileRow) /\ fileReq[c] # FileIdle
  BY <1>1, ReqFacts
<1>3. fileReq[c].op = "complete" /\ fileReq[c].from \in StagedKeys /\ fileReq[c].key \in PermanentKeys
  BY <1>1, <1>2 DEF Shape, Deletes, FileRequests
<1> QED
  BY <1>1, <1>2, <1>3, KeyFacts

LEMMA DropFacts ==
  ASSUME Typed, NEW c \in FileClients, DropObject(c)
  PROVE  /\ fileReq[c] \in FileRequests /\ Shape(fileReq[c], fileRow) /\ fileReq[c] # FileIdle
         /\ Deletes(fileReq[c].op) /\ fileReq[c].pc = "drop" /\ fileReq[c].key \in PermanentKeys
<1>1. fileReq[c].pc = "drop"
  BY DEF DropObject, FileStep
<1>2. fileReq[c] \in FileRequests /\ Shape(fileReq[c], fileRow) /\ fileReq[c] # FileIdle
  BY <1>1, ReqFacts
<1> QED
  BY <1>1, <1>2 DEF Shape, Deletes, FileRequests

LEMMA OtherStepsTyped ==
  ASSUME Typed, NEW c \in FileClients, Unstage(c) \/ DropObject(c) \/ FileFails(c)
  PROVE  Typed'
<1>1. CASE Unstage(c)
  <2>1. Shape([fileReq[c] EXCEPT !.pc = "commit", !.touched = @ \/ fileReq[c].from = fileReq[c].key], fileRow)
    BY <1>1, UnstageFacts DEF Shape, FileRequests, Deletes
  <2>2. fileReq[c].from \in Keys
    BY <1>1, UnstageFacts, KeyFacts
  <2> QED
    BY <1>1, <2>1, <2>2, StepTyped DEF Unstage
<1>2. CASE DropObject(c)
  <2>1. Shape([fileReq[c] EXCEPT !.pc = "commit", !.touched = @ \/ fileReq[c].key = fileReq[c].key], fileRow)
    BY <1>2, DropFacts DEF Shape, FileRequests, Deletes
  <2>2. fileReq[c].key \in Keys
    BY <1>2, DropFacts, KeyFacts
  <2> QED
    BY <1>2, <2>1, <2>2, StepTyped DEF DropObject
<1>3. CASE FileFails(c)
  <2>1. fileReq[c] \in FileRequests
    BY <1>3 DEF FileFails, Typed, FilesTypeOK
  <2>2. fileReq[c].key \in Keys
    BY <2>1, KeyFacts DEF FileRequests
  <2>3. FilesTypeOK'
    BY <1>3, <2>2 DEF FileFails, Typed, FilesTypeOK
  <2>4. RowsOK'
    BY <1>3 DEF FileFails, Typed, RowsOK
  <2>5. ShapesOK'
    BY <1>3 DEF FileFails, Typed, FilesTypeOK, ShapesOK
  <2> QED
    BY <2>3, <2>4, <2>5 DEF Typed
<1> QED
  BY <1>1, <1>2, <1>3

\* The client of a presigned URL.
LEMMA ClientTyped ==
  ASSUME Typed, Presign \/ PutStaged
  PROVE  Typed'
<1>1. CASE Presign
  <2>1. FilesTypeOK'
    BY <1>1, FileBounds DEF Presign, Typed, FilesTypeOK
  <2>2. RowsOK' /\ ShapesOK'
    BY <1>1 DEF Presign, Typed, RowsOK, ShapesOK
  <2> QED
    BY <2>1, <2>2 DEF Typed
<1>2. CASE PutStaged
  <2>1. PICK n \in 1 .. presigned, content \in Contents \cup {Rejected} :
          object' = [object EXCEPT ![[area |-> "staged", of |-> n]] = content]
    BY <1>2 DEF PutStaged
  <2>2. n \in 1 .. MaxStaged
    BY FileBounds DEF Typed, FilesTypeOK
  <2>3. [area |-> "staged", of |-> n] \in Keys
    BY <2>2, KeyFacts
  <2>4. UNCHANGED <<fileRow, mount, presigned, fileReq, raced>> /\ tampered' \subseteq Contents
    BY <1>2 DEF PutStaged, Typed, FilesTypeOK
  <2>5. FilesTypeOK'
    BY <2>1, <2>3, <2>4 DEF Typed, FilesTypeOK
  <2>6. RowsOK' /\ ShapesOK'
    BY <2>4 DEF Typed, RowsOK, ShapesOK
  <2> QED
    BY <2>5, <2>6 DEF Typed
<1> QED
  BY <1>1, <1>2

LEMMA TypedStep == Typed /\ [FilesNext]_fileVars => Typed'
<1> SUFFICES ASSUME Typed, [FilesNext]_fileVars PROVE Typed'
  OBVIOUS
<1>1. ASSUME NEW c \in FileClients, Inserts(c) PROVE Typed'
  BY <1>1, InsertTyped DEF Inserts
<1>2. ASSUME NEW c \in FileClients, Removes(c) PROVE Typed'
  BY <1>2, DeleteTyped DEF Removes
<1>3. CASE UNCHANGED fileVars
  BY <1>3 DEF fileVars, Typed, FilesTypeOK, RowsOK, ShapesOK
<1>4. CASE FilesNext
  BY <1>1, <1>2, <1>4, StepKinds, BeginTyped, PutsTyped, OtherStepsTyped, ClientTyped
<1> QED
  BY <1>3, <1>4

-----------------------------------------------------------------------------
(* The bytes of an object. *)

LEMMA PutsBytes ==
  ASSUME Typed, BytesMatchSha, StagedBytes, NEW c \in FileClients, NEW content, Puts(c, content)
  PROVE  BytesMatchSha' /\ StagedBytes'
<1> DEFINE q == fileReq[c]
<1>1. q \in FileRequests /\ Shape(q, fileRow) /\ q.key \in PermanentKeys
  BY ReqFacts DEF Puts, FileRequests
<1>2. /\ object' = [object EXCEPT ![q.key] = content] /\ UNCHANGED tampered
      /\ \A d \in FileClients : d # c => fileReq'[d] = fileReq[d]
      /\ fileReq'[c].pc # "copy"
  BY DEF Puts, FileStep, Typed, FilesTypeOK
<1>3. content \in {Nil, q.key.of} \/ q.key.of \in tampered
  <2>1. CASE q.op = "upload"
    BY <1>1, <2>1 DEF Puts, Shape
  <2>2. CASE q.op = "complete"
    BY <1>1, <2>2 DEF Puts, Shape, StagedBytes
  <2>3. CASE q.op = "add"
    BY <1>1, <2>3 DEF Puts, Shape, BytesMatchSha
  <2> QED
    BY <2>1, <2>2, <2>3 DEF Puts
<1>4. BytesMatchSha'
  <2> SUFFICES ASSUME NEW key \in PermanentKeys
               PROVE  object'[key] \in {Nil, key.of} \/ key.of \in tampered'
    BY DEF BytesMatchSha
  <2>1. key \in Keys
    BY KeyFacts
  <2> QED
    BY <1>2, <1>3, <2>1 DEF BytesMatchSha, Typed, FilesTypeOK
<1>5. StagedBytes'
  <2> SUFFICES ASSUME NEW d \in FileClients, fileReq'[d].op = "complete", fileReq'[d].pc = "copy"
               PROVE  object'[fileReq'[d].from] \in {Nil, fileReq'[d].sha} \/ fileReq'[d].sha \in tampered'
    BY DEF StagedBytes
  <2>1. d # c /\ fileReq'[d] = fileReq[d]
    BY <1>2
  <2>2. fileReq[d].from \in StagedKeys
    BY <2>1, ReqFacts DEF Shape
  <2>3. fileReq[d].from \in Keys /\ fileReq[d].from # q.key
    BY <1>1, <2>2, KeyFacts
  <2>4. object'[fileReq[d].from] = object[fileReq[d].from]
    BY <1>2, <2>3 DEF Typed, FilesTypeOK
  <2> QED
    BY <1>2, <2>1, <2>4 DEF StagedBytes
<1> QED
  BY <1>4, <1>5

\* An object goes.
LEMMA RemovalBytes ==
  ASSUME Typed, BytesMatchSha, StagedBytes, NEW c \in FileClients, Unstage(c) \/ DropObject(c)
  PROVE  BytesMatchSha' /\ StagedBytes'
<1>1. PICK key \in Keys : object' = [object EXCEPT ![key] = Nil]
  BY UnstageFacts, DropFacts, KeyFacts DEF Unstage, DropObject, FileStep
<1>2. /\ UNCHANGED tampered /\ fileReq'[c].pc = "commit"
      /\ \A d \in FileClients : d # c => fileReq'[d] = fileReq[d]
  BY UnstageFacts, DropFacts DEF Unstage, DropObject, FileStep, Typed, FilesTypeOK, FileRequests
<1>3. \A k \in Keys : object'[k] \in {Nil, object[k]}
  BY <1>1 DEF Typed, FilesTypeOK
<1>4. BytesMatchSha'
  BY <1>2, <1>3, KeyFacts DEF BytesMatchSha
<1>5. StagedBytes'
  <2> SUFFICES ASSUME NEW d \in FileClients, fileReq'[d].op = "complete", fileReq'[d].pc = "copy"
               PROVE  object'[fileReq'[d].from] \in {Nil, fileReq'[d].sha} \/ fileReq'[d].sha \in tampered'
    BY DEF StagedBytes
  <2>1. d # c /\ fileReq'[d] = fileReq[d]
    BY <1>2
  <2>2. fileReq[d].from \in Keys
    BY <2>1, ReqFacts, KeyFacts DEF Shape
  <2> QED
    BY <1>2, <1>3, <2>1, <2>2 DEF StagedBytes
<1> QED
  BY <1>4, <1>5

\* A request begins, commits or ends: the bucket stays as it is.
LEMMA RowsBytes ==
  ASSUME Typed, BytesMatchSha, StagedBytes, NEW c \in FileClients,
         (\E q : Fresh(q) /\ Begins(c, q)) \/ Inserts(c) \/ Removes(c) \/ FileFails(c)
  PROVE  BytesMatchSha' /\ StagedBytes'
<1>1. /\ UNCHANGED <<object, tampered>>
      /\ \A d \in FileClients : d # c => fileReq'[d] = fileReq[d]
  BY DEF Begins, Inserts, Removes, FileCommit, FileFails, Typed, FilesTypeOK
<1>2. fileReq'[c].op = "complete" /\ fileReq'[c].pc = "copy" => object[fileReq'[c].from] = fileReq'[c].sha
  <2>1. CASE \E q : Fresh(q) /\ Begins(c, q)
    BY <2>1 DEF Fresh, Begins, Typed, FilesTypeOK
  <2>2. CASE Inserts(c) \/ Removes(c) \/ FileFails(c)
    BY <2>2 DEF Inserts, Removes, FileCommit, FileFails, FileIdle, Typed, FilesTypeOK
  <2> QED
    BY <2>1, <2>2
<1>3. BytesMatchSha'
  BY <1>1 DEF BytesMatchSha
<1>4. StagedBytes'
  BY <1>1, <1>2 DEF StagedBytes
<1> QED
  BY <1>3, <1>4

LEMMA ClientBytes ==
  ASSUME Typed, BytesMatchSha, StagedBytes, Presign \/ PutStaged
  PROVE  BytesMatchSha' /\ StagedBytes'
<1>1. CASE Presign
  BY <1>1 DEF Presign, BytesMatchSha, StagedBytes
<1>2. CASE PutStaged
  <2>1. PICK n \in 1 .. presigned, content \in Contents \cup {Rejected} :
          LET staged == [area |-> "staged", of |-> n] IN
            /\ object' = [object EXCEPT ![staged] = content]
            /\ tampered' = tampered \cup {sha \in Contents \ {content} :
                   \E c \in FileClients : fileReq[c].pc = "copy" /\ fileReq[c].from = staged /\ fileReq[c].sha = sha}
            /\ UNCHANGED fileReq
    BY <1>2 DEF PutStaged
  <2> DEFINE staged == [area |-> "staged", of |-> n]
  <2>2. n \in 1 .. MaxStaged
    BY FileBounds DEF Typed, FilesTypeOK
  <2>3. staged \in StagedKeys /\ staged \in Keys
    BY <2>2, KeyFacts
  <2>4. object' = [object EXCEPT ![staged] = content] /\ tampered \subseteq tampered'
    BY <2>1
  <2>5. \A c \in FileClients :
          fileReq[c].pc = "copy" /\ fileReq[c].from = staged /\ fileReq[c].sha \in Contents \ {content}
            => fileReq[c].sha \in tampered'
    BY <2>1
  <2> HIDE DEF staged
  <2>6. BytesMatchSha'
    BY <2>3, <2>4, KeyFacts DEF BytesMatchSha, Typed, FilesTypeOK
  <2>7. StagedBytes'
    <3> SUFFICES ASSUME NEW d \in FileClients, fileReq[d].op = "complete", fileReq[d].pc = "copy"
                 PROVE  object'[fileReq[d].from] \in {Nil, fileReq[d].sha} \/ fileReq[d].sha \in tampered'
      BY <2>1 DEF StagedBytes
    <3>1. fileReq[d].from \in StagedKeys /\ fileReq[d].sha \in Contents /\ fileReq[d].from \in Keys
      BY ReqFacts, KeyFacts DEF Shape, FileRequests
    <3> QED
      BY <2>3, <2>4, <2>5, <3>1 DEF StagedBytes, Typed, FilesTypeOK
  <2> QED
    BY <2>6, <2>7
<1> QED
  BY <1>1, <1>2

LEMMA BytesStep ==
  Typed /\ BytesMatchSha /\ StagedBytes /\ [FilesNext]_fileVars => BytesMatchSha' /\ StagedBytes'
<1>1. ASSUME UNCHANGED fileVars, BytesMatchSha, StagedBytes PROVE BytesMatchSha' /\ StagedBytes'
  BY <1>1 DEF fileVars, BytesMatchSha, StagedBytes
<1>2. ASSUME Typed, BytesMatchSha, StagedBytes, FilesNext PROVE BytesMatchSha' /\ StagedBytes'
  BY <1>2, StepKinds, PutsBytes, RemovalBytes, RowsBytes, ClientBytes
<1> QED
  BY <1>1, <1>2

LEMMA BytesInit == FilesInit => BytesMatchSha /\ StagedBytes
BY KeyFacts DEF FilesInit, BytesMatchSha, StagedBytes, FileIdle

-----------------------------------------------------------------------------
(* The objects and the rows. *)

\* A step leaves a key settled if it changes neither its object nor its rows nor the
\* requests on it.
LEMMA Untouched ==
  ASSUME KeysSettled, NEW key \in PermanentKeys, key \notin raced,
         object'[key] = object[key], References(key)' = References(key), On(fileReq', key) = On(fileReq, key),
         \A d \in On(fileReq, key) : fileReq'[d] = fileReq[d]
  PROVE  Settled(object'[key], References(key)', On(fileReq', key), fileReq')
BY DEF KeysSettled, Settled

LEMMA BeginSettles ==
  ASSUME Typed, KeysSettled, NEW c \in FileClients, NEW q, Fresh(q), Begins(c, q)
  PROVE  KeysSettled'
<1> SUFFICES ASSUME NEW key \in PermanentKeys, key \notin raced'
             PROVE  Settled(object'[key], References(key)', On(fileReq', key), fileReq')
  BY DEF KeysSettled
<1>1. /\ fileReq'[c] = q /\ q # FileIdle /\ fileReq[c] = FileIdle
      /\ \A d \in FileClients : d # c => fileReq'[d] = fileReq[d]
      /\ object'[key] = object[key] /\ key \notin raced
  BY DEF Begins, Fresh, FileRequests, FileIdle, Typed, FilesTypeOK
<1>2. References(key)' = References(key)
  BY DEF Begins, References, Live
<1>3. CASE q.key # key
  <2>1. On(fileReq', key) = On(fileReq, key) /\ c \notin On(fileReq, key)
    BY <1>1, <1>3 DEF On
  <2>2. \A d \in On(fileReq, key) : fileReq'[d] = fileReq[d]
    BY <1>1, <2>1 DEF On
  <2> QED
    BY <1>1, <1>2, <2>1, <2>2, Untouched
<1>4. CASE q.key = key
  <2>1. On(fileReq', key) = On(fileReq, key) \cup {c} /\ c \notin On(fileReq, key)
    BY <1>1, <1>4 DEF On
  <2>2. \A d \in On(fileReq, key) : ~Deletes(q.op) /\ ~Deletes(fileReq[d].op) /\ fileReq'[d] = fileReq[d]
    BY <1>1, <1>4, <2>1 DEF Begins, Clash, On
  <2>3. Settled(object[key], References(key), On(fileReq, key), fileReq)
    BY <1>1 DEF KeysSettled
  <2>4. Fits(q, References(key))
    BY <1>4 DEF Fresh
  <2> QED
    BY <1>1, <1>2, <2>1, <2>2, <2>3, <2>4 DEF Settled, Fits
<1> QED
  BY <1>3, <1>4

LEMMA PutsSettles ==
  ASSUME Typed, KeysSettled, NEW c \in FileClients, NEW content, Puts(c, content)
  PROVE  KeysSettled'
<1> DEFINE q == fileReq[c]
<1>1. /\ q \in FileRequests /\ q # FileIdle /\ q.key \in PermanentKeys /\ q.key \in Keys /\ ~Deletes(q.op)
  BY ReqFacts, KeyFacts DEF Puts, FileRequests, Deletes
<1>2. /\ object' = [object EXCEPT ![q.key] = content] /\ content # Nil
      /\ \A d \in FileClients : d # c => fileReq'[d] = fileReq[d]
      /\ UNCHANGED <<fileRow, raced>>
  BY NilAssumption DEF Puts, FileStep, Typed, FilesTypeOK
<1>3. /\ fileReq'[c].op = q.op /\ fileReq'[c].key = q.key /\ fileReq'[c].touched
      /\ fileReq'[c] # FileIdle
  BY <1>1 DEF Puts, FileStep, Typed, FilesTypeOK, FileRequests, FileIdle
<1> SUFFICES ASSUME NEW key \in PermanentKeys, key \notin raced
             PROVE  Settled(object'[key], References(key)', On(fileReq', key), fileReq')
  BY <1>2 DEF KeysSettled
<1>4. References(key)' = References(key) /\ On(fileReq', key) = On(fileReq, key)
  BY <1>1, <1>2, <1>3 DEF References, Live, On
<1>5. CASE key # q.key
  <2>1. object'[key] = object[key]
    BY <1>2, <1>5, KeyFacts DEF Typed, FilesTypeOK
  <2>2. \A d \in On(fileReq, key) : fileReq'[d] = fileReq[d]
    BY <1>2, <1>5 DEF On
  <2> QED
    BY <1>4, <2>1, <2>2, Untouched
<1>6. CASE key = q.key
  <2>1. object'[key] = content
    BY <1>1, <1>2, <1>6 DEF Typed, FilesTypeOK
  <2>2. c \in On(fileReq, key)
    BY <1>1, <1>6 DEF On
  <2>3. Settled(object[key], References(key), On(fileReq, key), fileReq)
    BY DEF KeysSettled
  <2>4. \A d \in On(fileReq, key) : ~Deletes(fileReq[d].op) /\ ~Deletes(fileReq'[d].op)
    BY <1>1, <1>2, <1>3, <2>2, <2>3 DEF Settled, On
  <2>5. \A d \in On(fileReq, key) : d # c => fileReq'[d] = fileReq[d]
    BY <1>2 DEF On
  <2> QED
    BY <1>2, <1>3, <1>4, <2>1, <2>2, <2>3, <2>4, <2>5 DEF Settled
<1> QED
  BY <1>5, <1>6

LEMMA UnstageSettles ==
  ASSUME Typed, KeysSettled, NEW c \in FileClients, Unstage(c)
  PROVE  KeysSettled'
<1> DEFINE q == fileReq[c]
<1>1. /\ q \in FileRequests /\ q # FileIdle /\ q.op = "complete" /\ q.pc = "unstage"
      /\ q.from \in StagedKeys /\ q.from # q.key
  BY UnstageFacts
<1>2. /\ object' = [object EXCEPT ![q.from] = Nil]
      /\ \A d \in FileClients : d # c => fileReq'[d] = fileReq[d]
      /\ UNCHANGED <<fileRow, raced>>
  BY DEF Unstage, FileStep, Typed, FilesTypeOK
<1>3. /\ fileReq'[c].op = q.op /\ fileReq'[c].key = q.key /\ fileReq'[c].touched = q.touched
      /\ fileReq'[c].pc = "commit" /\ fileReq'[c] # FileIdle
  BY <1>1 DEF Unstage, FileStep, Typed, FilesTypeOK, FileRequests, FileIdle
<1> SUFFICES ASSUME NEW key \in PermanentKeys, key \notin raced
             PROVE  Settled(object'[key], References(key)', On(fileReq', key), fileReq')
  BY <1>2 DEF KeysSettled
<1>4. References(key)' = References(key) /\ On(fileReq', key) = On(fileReq, key)
  BY <1>1, <1>2, <1>3 DEF References, Live, On
<1>5. object'[key] = object[key]
  BY <1>1, <1>2, KeyFacts DEF Typed, FilesTypeOK
<1>6. Settled(object[key], References(key), On(fileReq, key), fileReq)
  BY DEF KeysSettled
<1>7. ~Deletes(q.op) /\ ~Deletes(fileReq'[c].op)
  BY <1>1, <1>3 DEF Deletes
<1>8. \A d \in On(fileReq, key) : d # c => fileReq'[d] = fileReq[d]
  BY <1>2 DEF On
<1> QED
  BY <1>1, <1>3, <1>4, <1>5, <1>6, <1>7, <1>8 DEF Settled

LEMMA DropSettles ==
  ASSUME Typed, KeysSettled, NEW c \in FileClients, DropObject(c)
  PROVE  KeysSettled'
<1> DEFINE q == fileReq[c]
<1>1. /\ q \in FileRequests /\ q # FileIdle /\ Deletes(q.op) /\ q.pc = "drop" /\ q.key \in PermanentKeys
  BY DropFacts
<1>2. /\ object' = [object EXCEPT ![q.key] = Nil]
      /\ \A d \in FileClients : d # c => fileReq'[d] = fileReq[d]
      /\ UNCHANGED <<fileRow, raced>>
  BY DEF DropObject, FileStep, Typed, FilesTypeOK
<1>3. /\ fileReq'[c].op = q.op /\ fileReq'[c].key = q.key /\ fileReq'[c].touched
      /\ fileReq'[c].file = q.file /\ fileReq'[c].pc = "commit" /\ fileReq'[c] # FileIdle
  BY <1>1 DEF DropObject, FileStep, Typed, FilesTypeOK, FileRequests, FileIdle
<1> SUFFICES ASSUME NEW key \in PermanentKeys, key \notin raced
             PROVE  Settled(object'[key], References(key)', On(fileReq', key), fileReq')
  BY <1>2 DEF KeysSettled
<1>4. References(key)' = References(key) /\ On(fileReq', key) = On(fileReq, key)
  BY <1>1, <1>2, <1>3 DEF References, Live, On
<1>5. CASE key # q.key
  <2>1. object'[key] = object[key]
    BY <1>2, <1>5, KeyFacts DEF Typed, FilesTypeOK
  <2>2. \A d \in On(fileReq, key) : fileReq'[d] = fileReq[d]
    BY <1>2, <1>5 DEF On
  <2> QED
    BY <1>4, <2>1, <2>2, Untouched
<1>6. CASE key = q.key
  <2>1. object'[key] = Nil
    BY <1>2, <1>6, KeyFacts DEF Typed, FilesTypeOK
  <2>2. c \in On(fileReq, key)
    BY <1>1, <1>6 DEF On
  <2>3. Settled(object[key], References(key), On(fileReq, key), fileReq)
    BY DEF KeysSettled
  <2>4. On(fileReq, key) = {c}
    BY <1>1, <2>2, <2>3 DEF Settled
  <2>5. References(key) = {q.file}
    BY <1>1, <2>2, <2>3 DEF Settled
  <2> QED
    BY <1>1, <1>3, <1>4, <2>1, <2>4, <2>5 DEF Settled
<1> QED
  BY <1>5, <1>6

LEMMA InsertSettles ==
  ASSUME Typed, KeysSettled, NEW c \in FileClients, Inserts(c)
  PROVE  KeysSettled'
<1> DEFINE q == fileReq[c]
<1>1. /\ q \in FileRequests /\ q # FileIdle /\ Shape(q, fileRow) /\ ~Deletes(q.op) /\ q.pc = "commit"
      /\ q.key \in PermanentKeys
  BY ReqFacts DEF Inserts, FileCommit, FileRequests, Deletes
<1>2. /\ fileReq'[c] = FileIdle /\ UNCHANGED <<object, raced>>
      /\ \A d \in FileClients : d # c => fileReq'[d] = fileReq[d]
  BY DEF Inserts, FileCommit, Typed, FilesTypeOK
<1>3. PICK f \in FileIds :
        /\ ~fileRow[f].exists
        /\ fileRow' = [fileRow EXCEPT ![f] = [exists |-> TRUE, live |-> TRUE, key |-> q.key,
                                             sha |-> q.sha, scope |-> q.scope]]
  BY DEF Inserts, NewFile
<1>4. ~Live(f)
  BY <1>3, LiveExists
<1> SUFFICES ASSUME NEW key \in PermanentKeys, key \notin raced
             PROVE  Settled(object'[key], References(key)', On(fileReq', key), fileReq')
  BY <1>2 DEF KeysSettled
<1>5. CASE key # q.key
  <2>1. References(key)' = References(key)
    BY <1>3, <1>4, <1>5 DEF References, Live, Typed, FilesTypeOK
  <2>2. On(fileReq', key) = On(fileReq, key) /\ \A d \in On(fileReq, key) : fileReq'[d] = fileReq[d]
    BY <1>2, <1>5 DEF On
  <2> QED
    BY <1>2, <2>1, <2>2, Untouched
<1>6. CASE key = q.key
  <2>1. References(key)' = References(key) \cup {f}
    BY <1>3, <1>4, <1>6 DEF References, Live, Typed, FilesTypeOK
  <2>2. On(fileReq', key) = On(fileReq, key) \ {c} /\ c \in On(fileReq, key)
    BY <1>1, <1>2, <1>6 DEF On
  <2>3. Settled(object[key], References(key), On(fileReq, key), fileReq)
    BY DEF KeysSettled
  <2>4. \A d \in On(fileReq, key) : ~Deletes(fileReq[d].op)
    BY <1>1, <2>2, <2>3 DEF Settled
  <2>5. object[key] # Nil
    BY <1>1, <2>2, <2>3, <2>4 DEF Settled
  <2>6. \A d \in On(fileReq', key) : fileReq'[d] = fileReq[d]
    BY <1>2, <2>2 DEF On
  <2> QED
    BY <1>2, <2>1, <2>2, <2>4, <2>5, <2>6 DEF Settled
<1> QED
  BY <1>5, <1>6

LEMMA RemoveSettles ==
  ASSUME Typed, KeysSettled, NEW c \in FileClients, Removes(c)
  PROVE  KeysSettled'
<1> DEFINE q == fileReq[c]
<1>1. /\ q \in FileRequests /\ q # FileIdle /\ Deletes(q.op) /\ q.pc = "commit"
      /\ q.key \in PermanentKeys
      /\ q.file \in FileIds /\ fileRow[q.file].exists /\ fileRow[q.file].key = q.key
  BY ReqFacts DEF Removes, FileCommit, FileRequests, Deletes, Shape
<1>2. /\ fileReq'[c] = FileIdle /\ UNCHANGED <<object, raced>>
      /\ \A d \in FileClients : d # c => fileReq'[d] = fileReq[d]
  BY DEF Removes, FileCommit, Typed, FilesTypeOK
<1>3. fileRow' = [fileRow EXCEPT ![q.file].live = FALSE]
  BY DEF Removes, Unmounted
<1>4. fileRow[q.file] \in FileRows
  BY <1>1, RowFacts
<1>5. /\ ~fileRow'[q.file].live
      /\ \A g \in FileIds : g # q.file => fileRow'[g] = fileRow[g]
  BY <1>1, <1>3, <1>4 DEF Typed, FilesTypeOK, FileRows
<1> SUFFICES ASSUME NEW key \in PermanentKeys, key \notin raced
             PROVE  Settled(object'[key], References(key)', On(fileReq', key), fileReq')
  BY <1>2 DEF KeysSettled
<1>6. CASE key # q.key
  <2>1. References(key)' = References(key)
    BY <1>1, <1>5, <1>6 DEF References, Live
  <2>2. On(fileReq', key) = On(fileReq, key) /\ \A d \in On(fileReq, key) : fileReq'[d] = fileReq[d]
    BY <1>2, <1>6 DEF On
  <2> QED
    BY <1>2, <2>1, <2>2, Untouched
<1>7. CASE key = q.key
  <2>1. References(key)' = References(key) \ {q.file}
    BY <1>5 DEF References, Live
  <2>2. On(fileReq', key) = On(fileReq, key) \ {c} /\ c \in On(fileReq, key)
    BY <1>1, <1>2, <1>7 DEF On
  <2>3. Settled(object[key], References(key), On(fileReq, key), fileReq)
    BY DEF KeysSettled
  <2>4. On(fileReq, key) = {c}
    BY <1>1, <2>2, <2>3 DEF Settled
  <2>5. object[key] # Nil <=> References(key)' # {}
    <3>1. CASE q.touched
      BY <1>1, <2>1, <2>2, <2>3, <3>1 DEF Settled
    <3>2. CASE ~q.touched
      <4>1. References(key) # {q.file} /\ (object[key] # Nil <=> References(key) # {})
        BY <1>1, <2>3, <2>4, <3>2 DEF Settled
      <4> QED
        BY <2>1, <4>1
    <3> QED
      BY <3>1, <3>2
  <2>6. On(fileReq', key) = {} /\ object'[key] = object[key]
    BY <1>2, <2>2, <2>4
  <2> HIDE DEF q
  <2> QED
    BY <2>5, <2>6 DEF Settled
<1> QED
  BY <1>6, <1>7

LEMMA FailSettles ==
  ASSUME Typed, KeysSettled, NEW c \in FileClients, FileFails(c)
  PROVE  KeysSettled'
<1> DEFINE q == fileReq[c]
<1>1. /\ q # FileIdle /\ fileReq'[c] = FileIdle /\ UNCHANGED <<object, fileRow>>
      /\ \A d \in FileClients : d # c => fileReq'[d] = fileReq[d]
  BY DEF FileFails, Typed, FilesTypeOK
<1> SUFFICES ASSUME NEW key \in PermanentKeys, key \notin raced'
             PROVE  Settled(object'[key], References(key)', On(fileReq', key), fileReq')
  BY DEF KeysSettled
<1>2. key \notin raced /\ (q.key = key => ~q.touched)
  BY DEF FileFails
<1>3. References(key)' = References(key) /\ On(fileReq', key) = On(fileReq, key) \ {c}
  BY <1>1 DEF References, Live, On
<1>4. Settled(object[key], References(key), On(fileReq, key), fileReq)
  BY <1>2 DEF KeysSettled
<1>5. c \in On(fileReq, key) => ~q.touched
  BY <1>2 DEF On
<1>6. \A d \in On(fileReq', key) : fileReq'[d] = fileReq[d]
  BY <1>1, <1>3 DEF On
<1> QED
  BY <1>1, <1>3, <1>4, <1>5, <1>6 DEF Settled

LEMMA ClientSettles ==
  ASSUME Typed, KeysSettled, Presign \/ PutStaged
  PROVE  KeysSettled'
<1>1. UNCHANGED <<fileRow, fileReq, raced>>
  BY DEF Presign, PutStaged
<1> SUFFICES ASSUME NEW key \in PermanentKeys, key \notin raced
             PROVE  Settled(object'[key], References(key)', On(fileReq', key), fileReq')
  BY <1>1 DEF KeysSettled
<1>2. object'[key] = object[key]
  <2>1. CASE Presign
    BY <2>1 DEF Presign
  <2>2. CASE PutStaged
    <3>1. PICK n \in 1 .. presigned, content \in Contents \cup {Rejected} :
            object' = [object EXCEPT ![[area |-> "staged", of |-> n]] = content]
      BY <2>2 DEF PutStaged
    <3>2. n \in 1 .. MaxStaged
      BY FileBounds DEF Typed, FilesTypeOK
    <3>3. key # [area |-> "staged", of |-> n] /\ key \in Keys
      BY <3>2, KeyFacts
    <3> QED
      BY <3>1, <3>3 DEF Typed, FilesTypeOK
  <2> QED
    BY <2>1, <2>2
<1>3. References(key)' = References(key) /\ On(fileReq', key) = On(fileReq, key)
  BY <1>1 DEF References, Live
<1> QED
  BY <1>1, <1>2, <1>3, Untouched

LEMMA SettledStep == Typed /\ KeysSettled /\ [FilesNext]_fileVars => KeysSettled'
<1>1. ASSUME UNCHANGED fileVars, KeysSettled PROVE KeysSettled'
  BY <1>1 DEF fileVars, KeysSettled, References, Live
<1>2. ASSUME Typed, KeysSettled, FilesNext PROVE KeysSettled'
  BY <1>2, StepKinds, BeginSettles, PutsSettles, UnstageSettles, DropSettles, InsertSettles,
     RemoveSettles, FailSettles, ClientSettles
<1> QED
  BY <1>1, <1>2

LEMMA SettledInit == FilesInit => KeysSettled
BY KeyFacts DEF FilesInit, KeysSettled, Settled, References, Live, On, NoFile

-----------------------------------------------------------------------------
(* The files that a session mounts. *)

Added(s) == Cardinality(Mounted(s)) + Cardinality(Mounting(s)) < MaxSessionFiles + Cardinality(FileClients)

LEMMA CountTypes ==
  ASSUME NEW s
  PROVE  /\ IsFiniteSet(Mounted(s)) /\ Cardinality(Mounted(s)) \in Nat
         /\ IsFiniteSet(Mounting(s)) /\ Cardinality(Mounting(s)) \in Nat
         /\ Cardinality(Mounting(s)) <= Cardinality(FileClients) /\ Cardinality(FileClients) \in Nat
         /\ IsFiniteSet(FileIds)
<1>1. IsFiniteSet(FileIds)
  BY FileBounds, FS_Interval DEF FileIds
<1>2. Mounted(s) \in SUBSET FileIds /\ Mounting(s) \in SUBSET FileClients
  BY DEF Mounted, Mounting
<1> QED
  BY <1>1, <1>2, FiniteFiles, FS_Subset, FS_CardinalityType

LEMMA FewerStay ==
  ASSUME NEW s, Added(s), Mounted(s)' \subseteq Mounted(s), Mounting(s)' \subseteq Mounting(s)
  PROVE  Added(s)'
<1>1. /\ Cardinality(Mounted(s)') <= Cardinality(Mounted(s)) /\ Cardinality(Mounted(s)') \in Nat
      /\ Cardinality(Mounting(s)') <= Cardinality(Mounting(s)) /\ Cardinality(Mounting(s)') \in Nat
  BY CountTypes, FS_Subset, FS_CardinalityType
<1>2. Added(s)' = (Cardinality(Mounted(s)') + Cardinality(Mounting(s)') < MaxSessionFiles + Cardinality(FileClients))
  BY DEF Added
<1> QED
  BY <1>1, <1>2, CountTypes, FileBounds DEF Added

LEMMA BeginCounted ==
  ASSUME Typed, NEW s \in SessionIds, Added(s), NEW c \in FileClients, NEW q, Fresh(q), Begins(c, q)
  PROVE  Added(s)'
<1>1. /\ fileReq'[c] = q /\ fileReq[c] = FileIdle
      /\ \A d \in FileClients : d # c => fileReq'[d] = fileReq[d]
  BY DEF Begins, Typed, FilesTypeOK
<1>2. Mounted(s)' = Mounted(s)
  BY DEF Begins, Mounted
<1>3. CASE q.op = "add" /\ q.scope = s
  <2>1. Cardinality(Mounted(s)) < MaxSessionFiles
    BY <1>3 DEF Fresh, Room
  <2>2. Mounting(s)' \in SUBSET FileClients
    BY DEF Mounting
  <2>3. Cardinality(Mounting(s)') <= Cardinality(FileClients) /\ Cardinality(Mounting(s)') \in Nat
    BY <2>2, FiniteFiles, FS_Subset, FS_CardinalityType
  <2>4. Cardinality(Mounted(s)') = Cardinality(Mounted(s)) /\ Cardinality(Mounted(s)) \in Nat
          /\ Cardinality(FileClients) \in Nat /\ MaxSessionFiles \in Nat
    BY <1>2, CountTypes, FileBounds
  <2> QED
    BY <2>1, <2>3, <2>4 DEF Added
<1>4. CASE ~(q.op = "add" /\ q.scope = s)
  <2>1. Mounting(s)' \subseteq Mounting(s)
    BY <1>1, <1>4 DEF Mounting
  <2> QED
    BY <1>2, <2>1, FewerStay
<1> QED
  BY <1>3, <1>4

\* A step on the bucket.
LEMMA StepCounted ==
  ASSUME Typed, NEW s \in SessionIds, Added(s), NEW c \in FileClients,
         (\E content : Puts(c, content)) \/ Unstage(c) \/ DropObject(c)
  PROVE  Added(s)'
<1>1. fileReq[c] \in FileRequests
  BY ReqFacts, UnstageFacts, DropFacts DEF Puts
<1>2. PICK from, to, key, content : FileStep(c, from, to, key, content)
  BY DEF Puts, Unstage, DropObject
<1>3. /\ fileReq'[c].op = fileReq[c].op /\ fileReq'[c].scope = fileReq[c].scope
      /\ \A d \in FileClients : d # c => fileReq'[d] = fileReq[d]
  BY <1>1, <1>2 DEF FileStep, Typed, FilesTypeOK, FileRequests
<1>4. Mounted(s)' = Mounted(s)
  BY <1>2 DEF FileStep, Mounted
<1>5. Mounting(s)' \subseteq Mounting(s)
  BY <1>3 DEF Mounting
<1> QED
  BY <1>4, <1>5, FewerStay

LEMMA InsertCounted ==
  ASSUME Typed, NEW s \in SessionIds, Added(s), NEW c \in FileClients, Inserts(c)
  PROVE  Added(s)'
<1> DEFINE q == fileReq[c]
<1>1. PICK f \in FileIds :
        /\ ~fileRow[f].exists
        /\ fileRow' = [fileRow EXCEPT ![f] = [exists |-> TRUE, live |-> TRUE, key |-> q.key,
                                             sha |-> q.sha, scope |-> q.scope]]
        /\ mount' = IF q.op = "add" THEN [mount EXCEPT ![f] = "live"] ELSE mount
  BY DEF Inserts, NewFile
<1>2. mount[f] = "none"
  BY <1>1 DEF Typed, RowsOK, RowOK
<1>3. /\ fileReq'[c] = FileIdle
      /\ \A d \in FileClients : d # c => fileReq'[d] = fileReq[d]
  BY DEF Inserts, FileCommit, Typed, FilesTypeOK
<1>4. \A g \in FileIds : g # f => fileRow'[g] = fileRow[g] /\ mount'[g] = mount[g]
  BY <1>1 DEF Typed, FilesTypeOK
<1>5. Mounting(s)' = Mounting(s) \ {c}
  BY <1>3 DEF Mounting, FileIdle
<1>6. CASE q.op = "add" /\ q.scope = s
  <2>1. Mounted(s)' \subseteq Mounted(s) \cup {f}
    BY <1>4 DEF Mounted
  <2>2. c \in Mounting(s)
    BY <1>6 DEF Mounting
  <2>3. Cardinality(Mounting(s) \ {c}) = Cardinality(Mounting(s)) - 1
    BY <2>2, CountTypes, FS_RemoveElement
  <2>4. /\ Cardinality(Mounted(s) \cup {f}) <= Cardinality(Mounted(s)) + 1
        /\ IsFiniteSet(Mounted(s) \cup {f}) /\ Cardinality(Mounted(s) \cup {f}) \in Nat
    <3>1. /\ IsFiniteSet(Mounted(s) \cup {f})
          /\ Cardinality(Mounted(s) \cup {f})
               = IF f \in Mounted(s) THEN Cardinality(Mounted(s)) ELSE Cardinality(Mounted(s)) + 1
      BY CountTypes, FS_AddElement
    <3> QED
      BY <3>1, CountTypes, FS_CardinalityType
  <2>5. Cardinality(Mounted(s)') <= Cardinality(Mounted(s) \cup {f}) /\ Cardinality(Mounted(s)') \in Nat
    BY <2>1, <2>4, FS_Subset, FS_CardinalityType
  <2>6. Added(s)' = (Cardinality(Mounted(s)') + Cardinality(Mounting(s)') < MaxSessionFiles + Cardinality(FileClients))
    BY DEF Added
  <2> QED
    BY <1>5, <2>3, <2>4, <2>5, <2>6, CountTypes, FileBounds DEF Added
<1>7. CASE ~(q.op = "add" /\ q.scope = s)
  <2>1. f \notin Mounted(s)'
    BY <1>1, <1>2, <1>7 DEF Mounted, Typed, FilesTypeOK
  <2>2. Mounted(s)' \subseteq Mounted(s)
    BY <1>4, <2>1 DEF Mounted
  <2> QED
    BY <1>5, <2>2, FewerStay
<1> QED
  BY <1>6, <1>7

\* A commit that deletes, a request that ends, or a step of the client.
LEMMA RestCounted ==
  ASSUME Typed, NEW s \in SessionIds, Added(s),
         (\E c \in FileClients : Removes(c) \/ FileFails(c)) \/ Presign \/ PutStaged
  PROVE  Added(s)'
<1>1. Mounting(s)' \subseteq Mounting(s)
  <2>1. CASE Presign \/ PutStaged
    BY <2>1 DEF Presign, PutStaged, Mounting
  <2>2. ASSUME NEW c \in FileClients, Removes(c) \/ FileFails(c)
        PROVE  Mounting(s)' \subseteq Mounting(s)
    BY <2>2 DEF Removes, FileCommit, FileFails, Mounting, FileIdle, Typed, FilesTypeOK
  <2> QED
    BY <2>1, <2>2
<1>2. Mounted(s)' \subseteq Mounted(s)
  <2>1. CASE Presign \/ PutStaged
    BY <2>1 DEF Presign, PutStaged, Mounted
  <2>2. ASSUME NEW c \in FileClients, FileFails(c)
        PROVE  Mounted(s)' \subseteq Mounted(s)
    BY <2>2 DEF FileFails, Mounted
  <2>3. ASSUME NEW c \in FileClients, Removes(c)
        PROVE  Mounted(s)' \subseteq Mounted(s)
    <3> DEFINE f == fileReq[c].file
    <3>1. f \in FileIds /\ fileRow[f].exists
      BY <2>3, ReqFacts DEF Removes, FileCommit, Shape, Deletes
    <3>2. fileRow[f] \in FileRows
      BY <3>1, RowFacts
    <3>3. /\ fileRow' = [fileRow EXCEPT ![f].live = FALSE]
          /\ mount' \in {mount, [mount EXCEPT ![f] = "removed"]}
      BY <2>3 DEF Removes, Unmounted
    <3> HIDE DEF f
    <3>4. \A g \in FileIds : fileRow'[g].scope = fileRow[g].scope /\ (mount'[g] = "live" => mount[g] = "live")
      BY <3>1, <3>2, <3>3 DEF Typed, FilesTypeOK, FileRows
    <3> QED
      BY <3>4 DEF Mounted
  <2> QED
    BY <2>1, <2>2, <2>3
<1> QED
  BY <1>1, <1>2, FewerStay

LEMMA CountedStep == Typed /\ MountsBounded /\ [FilesNext]_fileVars => MountsBounded'
<1>0. MountsBounded <=> \A s \in SessionIds : Added(s)
  BY DEF MountsBounded, Added
<1>1. MountsBounded' <=> \A s \in SessionIds : Added(s)'
  BY DEF MountsBounded, Added
<1> SUFFICES ASSUME Typed, MountsBounded, [FilesNext]_fileVars, NEW s \in SessionIds
             PROVE  Added(s)'
  BY <1>1
<1>2. Added(s)
  BY <1>0
<1>3. CASE UNCHANGED fileVars
  <2>1. Mounted(s)' \subseteq Mounted(s) /\ Mounting(s)' \subseteq Mounting(s)
    BY <1>3 DEF fileVars, Mounted, Mounting
  <2> QED
    BY <1>2, <2>1, FewerStay
<1>4. CASE FilesNext
  BY <1>2, <1>4, StepKinds, BeginCounted, StepCounted, InsertCounted, RestCounted
<1> QED
  BY <1>3, <1>4

LEMMA CountedInit == FilesInit => MountsBounded
<1> SUFFICES ASSUME FilesInit, NEW s \in SessionIds
             PROVE  Cardinality(Mounted(s)) + Cardinality(Mounting(s)) < MaxSessionFiles + Cardinality(FileClients)
  BY DEF MountsBounded
<1>1. Mounted(s) = {} /\ Mounting(s) = {}
  BY DEF FilesInit, Mounted, Mounting, FileIdle
<1>2. Cardinality({}) = 0
  BY FS_EmptySet
<1> QED
  BY <1>1, <1>2, CountTypes, FileBounds

-----------------------------------------------------------------------------
(* The theorems. *)

LEMMA AlwaysTyped == FilesSpec => []Typed
BY TypedInit, TypedStep, PTL DEF FilesSpec

\* Rows, objects and requests have their types.
THEOREM FilesTyped == FilesSpec => []FilesTypeOK
<1>1. Typed => FilesTypeOK
  BY DEF Typed
<1> QED
  BY <1>1, AlwaysTyped, PTL

\* The bytes of an object have the sha256 of its rows, unless a staged object was
\* replaced between its hash and its copy (complete_file_upload).
THEOREM BytesAreHashed == FilesSpec => []BytesMatchSha
<1>1. FilesInit => Typed /\ BytesMatchSha /\ StagedBytes
  BY TypedInit, BytesInit
<1>2. Typed /\ BytesMatchSha /\ StagedBytes /\ [FilesNext]_fileVars => (Typed /\ BytesMatchSha /\ StagedBytes)'
  BY TypedStep, BytesStep
<1> QED
  BY <1>1, <1>2, PTL DEF FilesSpec

\* The bucket holds an object if and only if a live row names it, wherever no delete
\* has overlapped with another request and no request has ended half-way.
THEOREM ObjectsAreNamed == FilesSpec => []ObjectsFollowRows
<1>1. FilesInit => Typed /\ KeysSettled
  BY TypedInit, SettledInit
<1>2. Typed /\ KeysSettled /\ [FilesNext]_fileVars => (Typed /\ KeysSettled)'
  BY TypedStep, SettledStep
<1>3. KeysSettled => ObjectsFollowRows
  <2> SUFFICES ASSUME KeysSettled, NEW key \in PermanentKeys, key \notin raced,
                      \A c \in FileClients : fileReq[c].key # key
               PROVE  object[key] # Nil <=> References(key) # {}
    BY DEF ObjectsFollowRows
  <2>1. Settled(object[key], References(key), {}, fileReq)
    <3>1. On(fileReq, key) = {}
      BY DEF On
    <3> QED
      BY <3>1 DEF KeysSettled
  <2> QED
    BY <2>1 DEF Settled
<1> QED
  BY <1>1, <1>2, <1>3, PTL DEF FilesSpec

\* A session exceeds its limit of files by less than the requests that overlap
\* (_ensure_file_resource_capacity).
THEOREM MountsAreBounded == FilesSpec => []MountsBounded
<1>1. FilesInit => Typed /\ MountsBounded
  BY TypedInit, CountedInit
<1>2. Typed /\ MountsBounded /\ [FilesNext]_fileVars => (Typed /\ MountsBounded)'
  BY TypedStep, CountedStep
<1> QED
  BY <1>1, <1>2, PTL DEF FilesSpec

-----------------------------------------------------------------------------
SkillShape ==
  /\ now \in Nat \ {0}
  /\ skill \in [SkillIds -> SkillRows]
  /\ skillReq \in [SkillClients -> SkillRequests \cup {SkillIdle}]

\* A version that is being uploaded has a number above the latest that was read.
NumberedAhead == \A c \in SkillClients : skillReq[c].op # "none" => skillReq[c].read < skillReq[c].number

\* A skill that is being created is known to no other request and has no version.
CreatedApart ==
  \A c \in SkillClients :
    /\ skillReq[c].op = "create" =>
         /\ ~ skill[skillReq[c].skill].exists
         /\ \A d \in SkillClients \ {c} : skillReq[d].skill # skillReq[c].skill
    /\ skillReq[c].op = "version" => skill[skillReq[c].skill].exists

VersionsOfSkills == \A v \in skillVersions : v.skill \in SkillIds => skill[v.skill].exists

LatestNamed ==
  \A s \in SkillIds : skill[s].exists => \E v \in skillVersions : v.skill = s /\ v.number = skill[s].latest

SkillInv == SkillShape /\ NumberedAhead /\ CreatedApart /\ VersionsOfSkills /\ LatestNamed

LEMMA SkillsStart == SkillsInit => SkillInv
BY SkillBounds DEF SkillsInit, SkillInv, SkillShape, SkillRows, NumberedAhead, CreatedApart, VersionsOfSkills,
  LatestNamed, SkillIdle

\* What a request in flight is.
LEMMA InFlight ==
  ASSUME SkillShape, NEW c \in SkillClients, skillReq[c].op # "none"
  PROVE  skillReq[c] \in SkillRequests
BY DEF SkillShape, SkillIdle

\* Every request numbers its version above what it read, whatever the clock says.
LEMMA NextIsAhead ==
  ASSUME SkillShape, NEW latest \in Nat
  PROVE  NextNumber(latest) \in Nat \ {0} /\ latest < NextNumber(latest)
BY DEF SkillShape, NextNumber

LEMMA BeginKeeps ==
  ASSUME SkillInv, NEW c \in SkillClients, NEW op \in {"create", "version"}, NEW s \in SkillIds,
         NEW latest \in Nat, NEW upload \in Uploads, SkillBegin(c, op, s, latest, upload),
         op = "create" => ~ skill[s].exists /\ \A d \in SkillClients : skillReq[d].skill # s,
         op = "version" => skill[s].exists /\ \A d \in SkillClients : skillReq[d].op = "create" => skillReq[d].skill # s
  PROVE  SkillInv'
<1> DEFINE r == [op |-> op, skill |-> s, read |-> latest, number |-> NextNumber(latest),
                 upload |-> upload, stored |-> FALSE]
<1>1. skillReq' = [skillReq EXCEPT ![c] = r] /\ UNCHANGED <<now, skill, skillVersions>>
  BY DEF SkillBegin
<1>2. r \in SkillRequests /\ latest < r.number /\ r.skill = s /\ r.op = op /\ r.read = latest
  BY NextIsAhead DEF SkillRequests, SkillInv
<1> HIDE DEF r
<1>3. SkillShape'
  BY <1>1, <1>2 DEF SkillInv, SkillShape
<1>4. skillReq'[c] = r /\ \A d \in SkillClients \ {c} : skillReq'[d] = skillReq[d]
  BY <1>1 DEF SkillInv, SkillShape
<1>5. NumberedAhead'
  BY <1>2, <1>4 DEF SkillInv, NumberedAhead
<1>6. CreatedApart'
  BY <1>1, <1>2, <1>4 DEF SkillInv, CreatedApart
<1> QED BY <1>1, <1>3, <1>5, <1>6 DEF SkillInv, VersionsOfSkills, LatestNamed

LEMMA BeginCreateKeeps ==
  ASSUME SkillInv, NEW c \in SkillClients, BeginCreateSkill(c) PROVE SkillInv'
BY BeginKeeps DEF BeginCreateSkill

LEMMA BeginVersionKeeps ==
  ASSUME SkillInv, NEW c \in SkillClients, BeginCreateVersion(c) PROVE SkillInv'
<1>1. PICK s \in SkillIds, upload \in Uploads : SkillFound(s) /\ SkillBegin(c, "version", s, skill[s].latest, upload)
  BY DEF BeginCreateVersion
<1>2. skill[s].exists /\ skill[s].latest \in Nat
  BY <1>1 DEF SkillFound, SkillInv, SkillShape, SkillRows
<1>3. \A d \in SkillClients : skillReq[d].op = "create" => skillReq[d].skill # s
  BY <1>2 DEF SkillInv, CreatedApart
<1> QED BY <1>1, <1>2, <1>3, BeginKeeps

\* A request that ends, or stores its archive, without a row.
LEMMA ReqKeeps ==
  ASSUME SkillInv, NEW c \in SkillClients, UNCHANGED <<now, skill, skillVersions>>, skillReq[c].op # "none",
         skillReq' = [skillReq EXCEPT ![c] = SkillIdle] \/ skillReq' = [skillReq EXCEPT ![c].stored = TRUE]
  PROVE  SkillInv'
<1>1. skillReq[c] \in SkillRequests
  BY InFlight DEF SkillInv
<1>2. CASE skillReq' = [skillReq EXCEPT ![c] = SkillIdle]
  <2>1. SkillShape'
    BY <1>2 DEF SkillInv, SkillShape
  <2>2. \A d \in SkillClients : skillReq'[d] = IF d = c THEN SkillIdle ELSE skillReq[d]
    BY <1>2 DEF SkillInv, SkillShape
  <2>3. NumberedAhead'
    BY <2>2 DEF SkillInv, NumberedAhead, SkillIdle
  <2>4. CreatedApart'
    <3>1. \A d \in SkillClients : skillReq'[d].op = "create" =>
            d # c /\ skillReq[d].op = "create" /\ skillReq[d].skill \in SkillIds
      BY <2>2, InFlight DEF SkillInv, SkillIdle, SkillRequests
    <3>2. SkillIdle.skill = NoSkill /\ SkillIdle.op = "none"
      BY DEF SkillIdle
    <3> QED BY <2>2, <3>1, <3>2, NoSkillAssumption DEF SkillInv, CreatedApart
  <2> QED BY <2>1, <2>3, <2>4 DEF SkillInv, VersionsOfSkills, LatestNamed
<1>3. CASE skillReq' = [skillReq EXCEPT ![c].stored = TRUE]
  <2>1. skillReq'[c] = [skillReq[c] EXCEPT !.stored = TRUE]
    BY <1>3 DEF SkillInv, SkillShape
  <2>2. skillReq'[c] \in SkillRequests
    BY <1>1, <2>1 DEF SkillRequests
  <2>3. SkillShape'
    BY <1>3, <2>1, <2>2 DEF SkillInv, SkillShape
  <2>4. \A d \in SkillClients : /\ skillReq'[d].op = skillReq[d].op /\ skillReq'[d].skill = skillReq[d].skill
                               /\ skillReq'[d].read = skillReq[d].read /\ skillReq'[d].number = skillReq[d].number
    BY <1>1, <1>3, <2>1 DEF SkillInv, SkillShape, SkillRequests
  <2>5. NumberedAhead'
    BY <2>4 DEF SkillInv, NumberedAhead
  <2>6. CreatedApart'
    BY <2>4 DEF SkillInv, CreatedApart
  <2> QED BY <2>3, <2>5, <2>6 DEF SkillInv, VersionsOfSkills, LatestNamed
<1> QED BY <1>2, <1>3

\* The commit of a create finds its number free: what else has a version exists.
LEMMA EndKeeps ==
  ASSUME SkillInv, NEW c \in SkillClients, NEW op \in {"create", "version"}, EndSkill(c, op)
  PROVE  SkillInv'
<1> DEFINE s == skillReq[c].skill
           n == skillReq[c].number
           row == [skill |-> s, number |-> n, upload |-> skillReq[c].upload, deleted |-> FALSE]
<1>1. skillReq[c] \in SkillRequests /\ skillReq[c].op = op
  BY InFlight DEF SkillInv, EndSkill, MayCommit
<1>2. s \in SkillIds /\ n \in Nat \ {0}
  BY <1>1 DEF SkillRequests
<1>3. /\ skillVersions' = IF NumberFree(s, n) THEN skillVersions \cup {row} ELSE skillVersions
      /\ skill' = [skill EXCEPT ![s].exists = TRUE, ![s].latest = LatestAfter(s, n)]
      /\ skillReq' = [skillReq EXCEPT ![c] = SkillIdle] /\ UNCHANGED now
  BY DEF EndSkill
<1>4. row.skill = s /\ row.number = n
  OBVIOUS
<1> HIDE DEF s, n, row
<1>5. skill[s] \in SkillRows
  BY <1>2 DEF SkillInv, SkillShape
<1>6. LatestAfter(s, n) \in Nat
  BY <1>2, <1>5 DEF LatestAfter, SkillRows
<1>7. skill'[s] = [skill[s] EXCEPT !.exists = TRUE, !.latest = LatestAfter(s, n)]
      /\ \A t \in SkillIds \ {s} : skill'[t] = skill[t]
  BY <1>2, <1>3 DEF SkillInv, SkillShape
<1>8. skill'[s] \in SkillRows /\ skill'[s].exists /\ skill'[s].latest = LatestAfter(s, n)
  BY <1>5, <1>6, <1>7 DEF SkillRows
<1>9. SkillShape'
  BY <1>2, <1>3, <1>7, <1>8 DEF SkillInv, SkillShape
<1>10. \A d \in SkillClients : skillReq'[d] = IF d = c THEN SkillIdle ELSE skillReq[d]
  BY <1>3 DEF SkillInv, SkillShape
<1>11. SkillIdle.skill = NoSkill /\ SkillIdle.op = "none"
  BY DEF SkillIdle
<1>12. NumberedAhead'
  BY <1>10, <1>11 DEF SkillInv, NumberedAhead
<1>13. \A d \in SkillClients \ {c} : skillReq[d].op = "create" => skillReq[d].skill # s
  BY <1>1 DEF SkillInv, CreatedApart, s
<1>14. \A d \in SkillClients : skillReq[d].op \in {"create", "version"} => skillReq[d].skill \in SkillIds
  BY InFlight DEF SkillInv, SkillRequests
<1>15. CreatedApart'
  <2> SUFFICES ASSUME NEW d \in SkillClients
               PROVE  /\ skillReq'[d].op = "create" =>
                           /\ ~ skill'[skillReq'[d].skill].exists
                           /\ \A e \in SkillClients \ {d} : skillReq'[e].skill # skillReq'[d].skill
                      /\ skillReq'[d].op = "version" => skill'[skillReq'[d].skill].exists
    BY DEF CreatedApart
  <2>1. CASE d = c
    BY <2>1, <1>10, <1>11
  <2>2. CASE d # c
    <3>1. skillReq'[d] = skillReq[d]
      BY <2>2, <1>10
    <3>2. ASSUME skillReq[d].op = "create"
          PROVE  /\ ~ skill'[skillReq[d].skill].exists
                 /\ \A e \in SkillClients \ {d} : skillReq'[e].skill # skillReq[d].skill
      <4>1. skillReq[d].skill \in SkillIds \ {s}
        BY <2>2, <3>2, <1>13, <1>14
      <4>2. ~ skill'[skillReq[d].skill].exists
        BY <3>2, <4>1, <1>7 DEF SkillInv, CreatedApart
      <4>3. \A e \in SkillClients \ {d} : skillReq[e].skill # skillReq[d].skill
        BY <3>2 DEF SkillInv, CreatedApart
      <4> QED BY <4>1, <4>2, <4>3, <1>10, <1>11, NoSkillAssumption
    <3>3. ASSUME skillReq[d].op = "version" PROVE skill'[skillReq[d].skill].exists
      BY <3>3, <1>7, <1>8, <1>14 DEF SkillInv, CreatedApart
    <3> QED BY <3>1, <3>2, <3>3
  <2> QED BY <2>1, <2>2
<1>16. \A v \in skillVersions' : v \in skillVersions \/ v = row
  BY <1>3
<1>17. VersionsOfSkills'
  BY <1>4, <1>7, <1>8, <1>16 DEF SkillInv, VersionsOfSkills
<1>18. LatestNamed'
  <2> SUFFICES ASSUME NEW t \in SkillIds, skill'[t].exists
               PROVE  \E v \in skillVersions' : v.skill = t /\ v.number = skill'[t].latest
    BY DEF LatestNamed
  <2>1. skillVersions \subseteq skillVersions'
    BY <1>3
  <2>2. CASE t # s
    BY <2>1, <2>2, <1>7 DEF SkillInv, LatestNamed
  <2>3. CASE t = s /\ NumberFree(s, n)
    <3>1. row \in skillVersions' /\ skill'[s].latest = n
      BY <2>3, <1>3, <1>8 DEF LatestAfter
    <3> QED BY <2>3, <3>1, <1>4
  <2>4. CASE t = s /\ ~ NumberFree(s, n)
    <3>1. PICK v \in skillVersions : v.skill = s /\ v.number = n
      BY <2>4 DEF NumberFree
    <3>2. skill[s].exists
      BY <3>1, <1>2 DEF SkillInv, VersionsOfSkills
    <3>3. skill'[s].latest = skill[s].latest
      BY <2>4, <1>8 DEF LatestAfter
    <3> QED BY <2>1, <2>4, <3>2, <3>3, <1>2 DEF SkillInv, LatestNamed
  <2> QED BY <2>2, <2>3, <2>4
<1> QED BY <1>9, <1>12, <1>15, <1>17, <1>18 DEF SkillInv

LEMMA DeleteSkillKeeps == SkillInv /\ DeleteSkill => SkillInv'
<1> SUFFICES ASSUME SkillInv, DeleteSkill PROVE SkillInv'
  OBVIOUS
<1>1. PICK s \in SkillIds : SkillFound(s) /\ skill' = [skill EXCEPT ![s].deleted = TRUE]
  BY DEF DeleteSkill
<1>2. UNCHANGED <<now, skillVersions, skillReq>>
  BY DEF DeleteSkill
<1>3. skill' \in [SkillIds -> SkillRows]
  BY <1>1 DEF SkillInv, SkillShape, SkillRows
<1>4. \A t \in SkillIds : skill'[t].exists = skill[t].exists /\ skill'[t].latest = skill[t].latest
  BY <1>1 DEF SkillInv, SkillShape, SkillRows
<1>5. CreatedApart'
  <2>1. \A d \in SkillClients : skillReq[d].op \in {"create", "version"} => skillReq[d].skill \in SkillIds
    BY InFlight DEF SkillInv, SkillRequests
  <2> QED BY <2>1, <1>2, <1>4 DEF SkillInv, CreatedApart
<1>6. LatestNamed' /\ VersionsOfSkills'
  BY <1>2, <1>4 DEF SkillInv, LatestNamed, VersionsOfSkills
<1> QED BY <1>2, <1>3, <1>5, <1>6 DEF SkillInv, SkillShape, NumberedAhead

LEMMA DeleteVersionKeeps == SkillInv /\ DeleteSkillVersion => SkillInv'
<1> SUFFICES ASSUME SkillInv, DeleteSkillVersion PROVE SkillInv'
  OBVIOUS
<1>1. PICK v \in skillVersions :
        skillVersions' = (skillVersions \ {v}) \cup {[v EXCEPT !.deleted = TRUE]}
  BY DEF DeleteSkillVersion
<1>2. UNCHANGED <<now, skill, skillReq>>
  BY DEF DeleteSkillVersion
<1> DEFINE w == [v EXCEPT !.deleted = TRUE]
<1>3. w.skill = v.skill /\ w.number = v.number
  OBVIOUS
<1> HIDE DEF w
<1>4. VersionsOfSkills'
  BY <1>1, <1>2, <1>3 DEF SkillInv, VersionsOfSkills, w
<1>5. LatestNamed'
  <2>1. w \in skillVersions' /\ \A x \in skillVersions : x = v \/ x \in skillVersions'
    BY <1>1 DEF w
  <2>2. \A x \in skillVersions : \E y \in skillVersions' : y.skill = x.skill /\ y.number = x.number
    BY <1>3, <2>1
  <2> QED BY <1>2, <2>2 DEF SkillInv, LatestNamed
<1> QED BY <1>2, <1>4, <1>5 DEF SkillInv, SkillShape, NumberedAhead, CreatedApart

LEMMA ClockKeeps == SkillInv /\ SkillClock => SkillInv'
BY SkillBounds DEF SkillInv, SkillClock, SkillShape, NumberedAhead, CreatedApart, VersionsOfSkills, LatestNamed

LEMMA SkillInvStep == SkillInv /\ [SkillsNext]_skillVars => SkillInv'
<1> SUFFICES ASSUME SkillInv, [SkillsNext]_skillVars PROVE SkillInv'
  OBVIOUS
<1>1. ASSUME NEW c \in SkillClients, BeginCreateSkill(c) PROVE SkillInv'
  BY <1>1, BeginCreateKeeps
<1>2. ASSUME NEW c \in SkillClients, BeginCreateVersion(c) PROVE SkillInv'
  BY <1>2, BeginVersionKeeps
<1>3. ASSUME NEW c \in SkillClients, StoreArchive(c) PROVE SkillInv'
  BY <1>3, ReqKeeps DEF StoreArchive
<1>4. ASSUME NEW c \in SkillClients, EndCreateSkill(c) PROVE SkillInv'
  BY <1>4, EndKeeps DEF EndCreateSkill
<1>5. ASSUME NEW c \in SkillClients, EndCreateVersion(c) PROVE SkillInv'
  BY <1>5, EndKeeps DEF EndCreateVersion
<1>6. ASSUME NEW c \in SkillClients, SkillFails(c) PROVE SkillInv'
  BY <1>6, ReqKeeps DEF SkillFails
<1>7. CASE UNCHANGED skillVars
  BY <1>7 DEF skillVars, SkillInv, SkillShape, NumberedAhead, CreatedApart, VersionsOfSkills, LatestNamed
<1> QED
  BY <1>1, <1>2, <1>3, <1>4, <1>5, <1>6, <1>7, DeleteSkillKeeps, DeleteVersionKeeps, ClockKeeps DEF SkillsNext

\* Only a commit lowers latest_version, and only to the number it computed when it read a
\* lower one.
LEMMA FallStep ==
  ASSUME SkillInv, [SkillsNext]_skillVars, NEW s \in SkillIds, skill'[s].latest < skill[s].latest
  PROVE  \E c \in SkillClients : skillReq[c].skill = s /\ skillReq'[c].op = "none"
                                   /\ skillReq[c].read < skill[s].latest
<1>1. skill[s] \in SkillRows /\ skill[s].latest \in Nat
  BY DEF SkillInv, SkillShape, SkillRows
<1>2. skill' # skill
  BY <1>1
<1>3. ~ DeleteSkill
  BY <1>1 DEF DeleteSkill, SkillInv, SkillShape, SkillRows
<1>4. PICK c \in SkillClients, op \in {"create", "version"} : EndSkill(c, op)
  BY <1>2, <1>3 DEF SkillsNext, skillVars, BeginCreateSkill, BeginCreateVersion, SkillBegin, StoreArchive,
    EndCreateSkill, EndCreateVersion, SkillFails, DeleteSkillVersion, SkillClock
<1>5. skillReq[c] \in SkillRequests
  BY <1>4, InFlight DEF SkillInv, EndSkill, MayCommit
<1> DEFINE t == skillReq[c].skill
           n == skillReq[c].number
<1>6. t \in SkillIds /\ n \in Nat /\ skillReq[c].read \in Nat /\ skillReq[c].read < n
  BY <1>4, <1>5 DEF SkillRequests, SkillInv, NumberedAhead, EndSkill, MayCommit
<1>7. skill' = [skill EXCEPT ![t].exists = TRUE, ![t].latest = LatestAfter(t, n)]
      /\ skillReq' = [skillReq EXCEPT ![c] = SkillIdle]
  BY <1>4 DEF EndSkill
<1> HIDE DEF t, n
<1>8. skillReq'[c].op = "none"
  BY <1>7 DEF SkillInv, SkillShape, SkillIdle
<1>9. s = t
  BY <1>1, <1>6, <1>7 DEF SkillInv, SkillShape
<1>10. skill'[s].latest = LatestAfter(t, n)
  BY <1>1, <1>6, <1>7, <1>9 DEF SkillInv, SkillShape, SkillRows
<1>11. n < skill[s].latest
  BY <1>1, <1>6, <1>9, <1>10 DEF LatestAfter
<1>12. skillReq[c].read < skill[s].latest
  BY <1>1, <1>6, <1>11
<1> QED BY <1>8, <1>9, <1>12 DEF t

\* What is uploaded was accepted, and the archive is stored before the version is.
UploadKept(c) ==
  skillReq[c].op # "none" =>
    Accepted(skillReq[c].upload) /\ (skillReq[c].stored => Archive(skillReq[c]) \in archives)

VersionsStored == \A v \in skillVersions : Archive(v) \in archives /\ Accepted(v.upload)

ArchiveInv == (\A c \in SkillClients : UploadKept(c)) /\ VersionsStored

LEMMA ArchivesStart == SkillsInit => ArchiveInv
BY DEF SkillsInit, ArchiveInv, UploadKept, VersionsStored, SkillIdle

\* A step of one request that adds no version.
LEMMA ArchivesMove ==
  ASSUME ArchiveInv, NEW c \in SkillClients, archives \subseteq archives', UNCHANGED skillVersions,
         \A d \in SkillClients \ {c} : skillReq'[d] = skillReq[d], UploadKept(c)'
  PROVE  ArchiveInv'
BY DEF ArchiveInv, UploadKept, VersionsStored

LEMMA BeginArchives ==
  ASSUME SkillShape, ArchiveInv, NEW c \in SkillClients, NEW op, NEW s, NEW latest, NEW upload,
         SkillBegin(c, op, s, latest, upload)
  PROVE  ArchiveInv'
<1> DEFINE r == [op |-> op, skill |-> s, read |-> latest, number |-> NextNumber(latest),
                 upload |-> upload, stored |-> FALSE]
<1>1. Accepted(upload) /\ skillReq' = [skillReq EXCEPT ![c] = r] /\ UNCHANGED <<skillVersions, archives>>
  BY DEF SkillBegin
<1>2. r.upload = upload /\ ~ r.stored
  OBVIOUS
<1> HIDE DEF r
<1>3. skillReq'[c] = r /\ \A d \in SkillClients \ {c} : skillReq'[d] = skillReq[d]
  BY <1>1 DEF SkillShape
<1>4. UploadKept(c)'
  BY <1>1, <1>2, <1>3 DEF UploadKept
<1> QED BY <1>1, <1>3, <1>4, ArchivesMove

LEMMA StoreArchives ==
  ASSUME SkillShape, ArchiveInv, NEW c \in SkillClients, StoreArchive(c) PROVE ArchiveInv'
<1> DEFINE r == [skillReq[c] EXCEPT !.stored = TRUE]
<1>1. /\ skillReq' = [skillReq EXCEPT ![c] = r] /\ archives' = archives \cup {Archive(skillReq[c])}
      /\ skillReq[c].op # "none" /\ UNCHANGED skillVersions
  BY DEF StoreArchive
<1>2. skillReq[c] \in SkillRequests
  BY <1>1, InFlight
<1>3. r.skill = skillReq[c].skill /\ r.number = skillReq[c].number /\ r.upload = skillReq[c].upload
  BY <1>2 DEF SkillRequests
<1> HIDE DEF r
<1>4. skillReq'[c] = r /\ \A d \in SkillClients \ {c} : skillReq'[d] = skillReq[d]
  BY <1>1 DEF SkillShape
<1>5. Archive(skillReq'[c]) = Archive(skillReq[c])
  BY <1>3, <1>4 DEF Archive
<1>6. Accepted(skillReq'[c].upload)
  BY <1>1, <1>3, <1>4 DEF ArchiveInv, UploadKept
<1>7. UploadKept(c)'
  BY <1>1, <1>5, <1>6 DEF UploadKept
<1> QED BY <1>1, <1>4, <1>7, ArchivesMove

\* A request leaves; at its commit it may leave a version.
LEMMA LeaveArchives ==
  ASSUME SkillShape, ArchiveInv, NEW c \in SkillClients, skillReq' = [skillReq EXCEPT ![c] = SkillIdle],
         UNCHANGED archives
  PROVE  \A d \in SkillClients : UploadKept(d)'
<1>1. \A d \in SkillClients : skillReq'[d] = IF d = c THEN SkillIdle ELSE skillReq[d]
  BY DEF SkillShape
<1>2. SkillIdle.op = "none"
  BY DEF SkillIdle
<1> QED BY <1>1, <1>2 DEF ArchiveInv, UploadKept

LEMMA EndArchives ==
  ASSUME SkillShape, ArchiveInv, NEW c \in SkillClients, NEW op \in {"create", "version"}, EndSkill(c, op)
  PROVE  ArchiveInv'
<1> DEFINE row == [skill |-> skillReq[c].skill, number |-> skillReq[c].number,
                   upload |-> skillReq[c].upload, deleted |-> FALSE]
<1>1. /\ skillReq[c].op = op /\ skillReq[c].stored
      /\ skillVersions' = skillVersions \/ skillVersions' = skillVersions \cup {row}
      /\ skillReq' = [skillReq EXCEPT ![c] = SkillIdle] /\ UNCHANGED archives
  BY DEF EndSkill, MayCommit
<1>2. Accepted(row.upload) /\ Archive(row) \in archives
  BY <1>1 DEF ArchiveInv, UploadKept, Archive
<1> HIDE DEF row
<1>3. VersionsStored'
  BY <1>1, <1>2 DEF ArchiveInv, VersionsStored
<1> QED BY <1>1, <1>3, LeaveArchives DEF ArchiveInv

LEMMA DeleteArchives == ArchiveInv /\ DeleteSkillVersion => ArchiveInv'
<1> SUFFICES ASSUME ArchiveInv, DeleteSkillVersion PROVE ArchiveInv'
  OBVIOUS
<1>1. PICK v \in skillVersions :
        skillVersions' = (skillVersions \ {v}) \cup {[v EXCEPT !.deleted = TRUE]}
  BY DEF DeleteSkillVersion
<1>2. UNCHANGED <<archives, skillReq>>
  BY DEF DeleteSkillVersion
<1> DEFINE w == [v EXCEPT !.deleted = TRUE]
<1>3. w.skill = v.skill /\ w.number = v.number /\ w.upload = v.upload
  OBVIOUS
<1>4. skillVersions' \subseteq skillVersions \cup {w}
  BY <1>1
<1> HIDE DEF w
<1>5. Archive(w) = Archive(v)
  BY <1>3 DEF Archive
<1>6. VersionsStored'
  BY <1>2, <1>3, <1>4, <1>5 DEF ArchiveInv, VersionsStored
<1>7. \A c \in SkillClients : UploadKept(c)'
  BY <1>2 DEF ArchiveInv, UploadKept
<1> QED BY <1>6, <1>7 DEF ArchiveInv

LEMMA ArchiveStep == SkillInv /\ ArchiveInv /\ [SkillsNext]_skillVars => ArchiveInv'
<1> SUFFICES ASSUME SkillShape, ArchiveInv, [SkillsNext]_skillVars PROVE ArchiveInv'
  BY DEF SkillInv
<1>1. ASSUME NEW c \in SkillClients, BeginCreateSkill(c) \/ BeginCreateVersion(c) PROVE ArchiveInv'
  BY <1>1, BeginArchives DEF BeginCreateSkill, BeginCreateVersion
<1>2. ASSUME NEW c \in SkillClients, EndCreateSkill(c) \/ EndCreateVersion(c) PROVE ArchiveInv'
  BY <1>2, EndArchives DEF EndCreateSkill, EndCreateVersion
<1>3. ASSUME NEW c \in SkillClients, SkillFails(c) PROVE ArchiveInv'
  BY <1>3, LeaveArchives DEF SkillFails, ArchiveInv, VersionsStored
<1>4. CASE DeleteSkill \/ SkillClock \/ UNCHANGED skillVars
  BY <1>4 DEF DeleteSkill, SkillClock, skillVars, ArchiveInv, UploadKept, VersionsStored
<1> QED BY <1>1, <1>2, <1>3, <1>4, StoreArchives, DeleteArchives DEF SkillsNext

\* A skill's latest_version is a version that was committed, for any clock and however
\* uploads overlap: the constraint on numbers and latest_version go together. And every
\* version has the archive that was stored for it, which makes one directory.
THEOREM LatestIsCommitted == SkillsSpec => []LatestCommitted
<1>1. SkillInv /\ ArchiveInv => LatestCommitted
  <2>1. ASSUME NEW upload, Accepted(upload) PROVE InOneDirectory(upload)
    BY <2>1 DEF Accepted, ValidSkillFiles, RelativePath, InOneDirectory
  <2> QED BY <2>1 DEF SkillInv, LatestNamed, ArchiveInv, VersionsStored, LatestCommitted
<1> QED BY <1>1, SkillsStart, SkillInvStep, ArchivesStart, ArchiveStep, PTL DEF SkillsSpec

\* latest_version falls only by an upload that had read a lower one before.
THEOREM LatestFallIsOverlap == SkillsSpec => LatestFallsByOverlap
<1> DEFINE Falls == \A s \in SkillIds : skill'[s].latest < skill[s].latest =>
                      \E c \in SkillClients : skillReq[c].skill = s /\ skillReq'[c].op = "none"
                                                /\ skillReq[c].read < skill[s].latest
<1>1. SkillInv /\ [SkillsNext]_skillVars => [Falls]_skillVars
  BY FallStep
<1>2. SkillsSpec => [][Falls]_skillVars
  BY <1>1, SkillsStart, SkillInvStep, PTL DEF SkillsSpec
<1> QED BY <1>2 DEF LatestFallsByOverlap

-----------------------------------------------------------------------------
StreamShape ==
  /\ eventLog \in Seq(Threads)
  /\ start \in Nat /\ cursor \in Nat /\ start <= cursor
  /\ cursor = start \/ cursor <= Len(eventLog)
  /\ page \subseteq 1 .. Len(eventLog)
  /\ sent \in Seq(Nat)

\* The page is the rest of the thread up to its last event.
PageComplete ==
  \A n \in page :
    /\ n > cursor
    /\ \A m \in cursor + 1 .. n - 1 : Belongs(m) => m \in page

SentSoFar == \A i \in DOMAIN sent : sent[i] <= cursor

StreamInv == StreamShape /\ PageComplete /\ SentSoFar /\ SentInOrder

\* The first of a page is in it, and before the others.
LEMMA FirstIsLeast ==
  ASSUME NEW events \in SUBSET Nat, events # {}
  PROVE  FirstOf(events) \in events /\ \A m \in events : FirstOf(events) <= m
<1>1. PICK n \in events : \A m \in events : ~ (<<m, n>> \in OpToRel(<, Nat))
  BY NatLessThanWellFounded, WFMin
<1>2. \A m \in events : n <= m
  <2> TAKE m \in events
  <2>1. ~ (m < n)
    BY <1>1 DEF OpToRel
  <2> QED BY <2>1, SMT
<1> QED BY <1>2 DEF FirstOf

LEMMA StreamStarts == StreamInit => StreamInv
BY StreamBounds DEF StreamInit, StreamInv, StreamShape, PageComplete, SentSoFar, SentInOrder

LEMMA AppendKeeps == StreamInv /\ AppendEvent => StreamInv'
<1> SUFFICES ASSUME StreamInv, AppendEvent PROVE StreamInv'
  OBVIOUS
<1> USE DEF StreamInv, StreamShape
<1>1. PICK t \in Threads : eventLog' = Append(eventLog, t)
  BY DEF AppendEvent
<1>2. UNCHANGED <<filter, start, cursor, page, sent>>
  BY DEF AppendEvent
<1>3. Len(eventLog') = Len(eventLog) + 1 /\ eventLog' \in Seq(Threads) /\ Len(eventLog) \in Nat
  BY <1>1
<1>4. \A n \in 1 .. Len(eventLog) : Belongs(n)' = Belongs(n)
  BY <1>1, <1>2, <1>3 DEF Belongs
<1>5. StreamShape'
  BY <1>2, <1>3
<1>6. PageComplete'
  BY <1>2, <1>3, <1>4 DEF PageComplete
<1>7. SentSoFar'
  BY <1>2 DEF SentSoFar
<1>8. {n \in DOMAIN eventLog' : n > start' /\ n <= cursor' /\ Belongs(n)'}
        = {n \in DOMAIN eventLog : n > start /\ n <= cursor /\ Belongs(n)}
  <2>1. DOMAIN eventLog = 1 .. Len(eventLog) /\ DOMAIN eventLog' = 1 .. Len(eventLog) + 1
    BY <1>3
  <2>2. \A n \in DOMAIN eventLog : n \in DOMAIN eventLog' /\ Belongs(n)' = Belongs(n)
    BY <1>3, <1>4, <2>1
  <2>3. \A n \in DOMAIN eventLog' : n > start /\ n <= cursor => n \in DOMAIN eventLog
    BY <1>3, <2>1
  <2> QED BY <1>2, <2>2, <2>3
<1>9. SentInOrder'
  BY <1>2, <1>8 DEF SentInOrder
<1> QED BY <1>5, <1>6, <1>7, <1>9

LEMMA ReadKeeps == StreamInv /\ ReadPage => StreamInv'
<1> SUFFICES ASSUME StreamInv, ReadPage PROVE StreamInv'
  OBVIOUS
<1> USE DEF StreamInv, StreamShape
<1>1. UNCHANGED <<eventLog, filter, start, cursor, sent>> /\ page' = PageAfter(cursor)
  BY DEF ReadPage
<1>2. page' \subseteq 1 .. Len(eventLog) /\ \A n \in page' : n > cursor /\ n <= cursor + PageSize
  BY <1>1 DEF PageAfter
<1>3. PageComplete'
  <2> SUFFICES ASSUME NEW n \in page'
               PROVE  n > cursor /\ \A m \in cursor + 1 .. n - 1 : m \in page'
    BY <1>1 DEF PageComplete
  <2>1. n \in 1 .. Len(eventLog) /\ n > cursor /\ n <= cursor + PageSize
    BY <1>2
  <2> QED BY <1>1, <2>1, StreamBounds DEF PageAfter
<1> QED BY <1>1, <1>2, <1>3 DEF SentSoFar, SentInOrder, Belongs

LEMMA SendKeeps == StreamInv /\ SendEvent => StreamInv'
<1> SUFFICES ASSUME StreamInv, SendEvent PROVE StreamInv'
  OBVIOUS
<1> DEFINE f == FirstOf(page)
<1>1. /\ page # {} /\ Belongs(f) /\ page' = page \ {f} /\ cursor' = f
      /\ sent' = Append(sent, f) /\ UNCHANGED <<eventLog, filter, start>>
  BY DEF SendEvent
<1>2. page \in SUBSET Nat
  BY DEF StreamInv, StreamShape
<1>3. f \in page /\ \A m \in page : f <= m
  BY <1>1, <1>2, FirstIsLeast
<1> HIDE DEF f
<1> USE DEF StreamInv, StreamShape
<1>4. f \in 1 .. Len(eventLog) /\ f > cursor /\ f > start /\ f \in Nat
  BY <1>3 DEF PageComplete
<1>5. \A m \in cursor + 1 .. f - 1 : ~ Belongs(m)
  BY <1>3, <1>4 DEF PageComplete
<1>6. StreamShape'
  BY <1>1, <1>4
<1>7. PageComplete'
  <2> SUFFICES ASSUME NEW n \in page'
               PROVE  n > f /\ \A m \in f + 1 .. n - 1 : Belongs(m) => m \in page'
    BY <1>1 DEF PageComplete, Belongs
  <2>1. n \in page /\ n # f /\ n \in Nat
    BY <1>1, <1>2
  <2>2. n > f
    BY <2>1, <1>3, <1>4
  <2>3. ASSUME NEW m \in f + 1 .. n - 1, Belongs(m) PROVE m \in page'
    <3>1. m \in cursor + 1 .. n - 1 /\ m # f
      BY <1>4, <2>1, <2>3
    <3> QED BY <1>1, <2>1, <2>3, <3>1 DEF PageComplete
  <2> QED BY <2>2, <2>3
<1>8. /\ DOMAIN sent' = 1 .. Len(sent) + 1 /\ Len(sent') = Len(sent) + 1 /\ Len(sent) \in Nat
      /\ \A i \in 1 .. Len(sent) : sent'[i] = sent[i] /\ sent[i] <= cursor /\ sent[i] \in Nat
      /\ sent'[Len(sent) + 1] = f
  BY <1>1, <1>4 DEF SentSoFar
<1>9. SentSoFar'
  BY <1>1, <1>4, <1>8 DEF SentSoFar
<1>10. \A i \in 1 .. Len(sent') - 1 : sent'[i] < sent'[i + 1]
  <2> TAKE i \in 1 .. Len(sent') - 1
  <2>1. CASE i = Len(sent)
    BY <2>1, <1>4, <1>8
  <2>2. CASE i # Len(sent)
    <3>1. i \in 1 .. Len(sent) - 1 /\ i \in 1 .. Len(sent) /\ i + 1 \in 1 .. Len(sent)
      BY <2>2, <1>8
    <3> QED BY <3>1, <1>8 DEF SentInOrder
  <2> QED BY <2>1, <2>2
<1>11. {sent'[i] : i \in DOMAIN sent'} = {sent[i] : i \in DOMAIN sent} \cup {f}
  <2>1. DOMAIN sent = 1 .. Len(sent)
    OBVIOUS
  <2>2. DOMAIN sent' = (1 .. Len(sent)) \cup {Len(sent) + 1}
    BY <1>8
  <2> QED BY <2>1, <2>2, <1>8
<1>12. {n \in DOMAIN eventLog : n > start /\ n <= f /\ Belongs(n)}
         = {n \in DOMAIN eventLog : n > start /\ n <= cursor /\ Belongs(n)} \cup {f}
  BY <1>1, <1>4, <1>5
<1>13. SentInOrder'
  BY <1>1, <1>10, <1>11, <1>12 DEF SentInOrder, Belongs
<1> QED BY <1>6, <1>7, <1>9, <1>13

LEMMA SkipKeeps == StreamInv /\ SkipEvent => StreamInv'
<1> SUFFICES ASSUME StreamInv, SkipEvent PROVE StreamInv'
  OBVIOUS
<1> DEFINE f == FirstOf(page)
<1>1. /\ ~ Belongs(f) /\ page' = page \ {f}
      /\ UNCHANGED <<eventLog, filter, start, cursor, sent>>
  BY DEF SkipEvent, RestOf
<1> HIDE DEF f
<1>2. PageComplete'
  BY <1>1 DEF StreamInv, PageComplete, Belongs
<1> QED BY <1>1, <1>2 DEF StreamInv, StreamShape, SentSoFar, SentInOrder, Belongs

\* The other steps leave all of this alone.
LEMMA RestKeeps ==
  StreamInv /\ UNCHANGED <<eventLog, filter, start, cursor, page, sent>> => StreamInv'
BY DEF StreamInv, StreamShape, PageComplete, SentSoFar, SentInOrder, Belongs

LEMMA StreamInvStep == StreamInv /\ [StreamNext]_streamVars => StreamInv'
<1> SUFFICES ASSUME StreamInv, [StreamNext]_streamVars PROVE StreamInv'
  OBVIOUS
<1>1. CASE AppendEvent
  BY <1>1, AppendKeeps
<1>2. CASE DeleteStreamed
  BY <1>2, RestKeeps DEF DeleteStreamed
<1>3. CASE Disconnect
  BY <1>3, RestKeeps DEF Disconnect
<1>4. CASE ReadPage
  BY <1>4, ReadKeeps
<1>5. CASE SendEvent
  BY <1>5, SendKeeps
<1>6. CASE SkipEvent
  BY <1>6, SkipKeeps
<1>7. CASE StreamGone
  BY <1>7, RestKeeps DEF StreamGone
<1>8. CASE UNCHANGED streamVars
  BY <1>8, RestKeeps DEF streamVars
<1> QED
  BY <1>1, <1>2, <1>3, <1>4, <1>5, <1>6, <1>7, <1>8 DEF StreamNext, StreamStep

\* A stream sends its thread without a gap and without a repetition, in the order of the
\* log, whatever the page size and however appends come between its pages.
THEOREM StreamSendsInOrder == StreamSpec => []SentInOrder
<1>1. StreamInv => SentInOrder
  BY DEF StreamInv
<1> QED BY <1>1, StreamStarts, StreamInvStep, PTL DEF StreamSpec

-----------------------------------------------------------------------------
(* Types of skills, and of the objects together. *)

\* What a commit inserts and what an upload stores is made of what the request holds.
LEMMA SkillTypesStep ==
  SkillInv /\ SkillInv' /\ SkillsTypeOK /\ [SkillsNext]_skillVars => SkillsTypeOK'
<1> SUFFICES ASSUME SkillInv, SkillInv', SkillsTypeOK, [SkillsNext]_skillVars PROVE SkillsTypeOK'
  OBVIOUS
<1>1. skill' \in [SkillIds -> SkillRows] /\ skillReq' \in [SkillClients -> SkillRequests \cup {SkillIdle}]
  BY DEF SkillInv, SkillShape
<1>2. \A c \in SkillClients : skillReq[c].op # "none" => skillReq[c] \in SkillRequests
  BY InFlight DEF SkillInv
<1>3. now' \in 1 .. MaxNow
  BY DEF SkillsNext, SkillsTypeOK, skillVars, BeginCreateSkill, BeginCreateVersion, SkillBegin, StoreArchive,
    EndCreateSkill, EndCreateVersion, EndSkill, SkillFails, DeleteSkill, DeleteSkillVersion, SkillClock
<1>4. skillVersions' \subseteq SkillVersionRows
  <2>1. CASE UNCHANGED skillVersions
    BY <2>1 DEF SkillsTypeOK
  <2>2. ASSUME NEW c \in SkillClients, NEW op \in {"create", "version"}, EndSkill(c, op)
        PROVE  skillVersions' \subseteq SkillVersionRows
    <3>1. skillReq[c] \in SkillRequests
      BY <1>2, <2>2 DEF EndSkill, MayCommit
    <3>2. [skill |-> skillReq[c].skill, number |-> skillReq[c].number, upload |-> skillReq[c].upload, deleted |-> FALSE]
            \in SkillVersionRows
      BY <3>1 DEF SkillRequests, SkillVersionRows
    <3> QED BY <2>2, <3>2 DEF EndSkill, SkillsTypeOK
  <2>3. CASE DeleteSkillVersion
    <3>1. PICK v \in skillVersions : skillVersions' = (skillVersions \ {v}) \cup {[v EXCEPT !.deleted = TRUE]}
      BY <2>3 DEF DeleteSkillVersion
    <3>2. [v EXCEPT !.deleted = TRUE] \in SkillVersionRows
      BY <3>1 DEF SkillsTypeOK, SkillVersionRows
    <3> QED BY <3>1, <3>2 DEF SkillsTypeOK
  <2> QED
    BY <2>1, <2>2, <2>3 DEF SkillsNext, skillVars, BeginCreateSkill, BeginCreateVersion, SkillBegin, StoreArchive,
      EndCreateSkill, EndCreateVersion, SkillFails, DeleteSkill, SkillClock
<1>5. archives' \subseteq Archives
  <2>1. CASE UNCHANGED archives
    BY <2>1 DEF SkillsTypeOK
  <2>2. ASSUME NEW c \in SkillClients, StoreArchive(c) PROVE archives' \subseteq Archives
    <3>1. skillReq[c] \in SkillRequests
      BY <1>2, <2>2 DEF StoreArchive
    <3> QED BY <2>2, <3>1 DEF StoreArchive, SkillsTypeOK, SkillRequests, Archives, Archive
  <2> QED
    BY <2>1, <2>2 DEF SkillsNext, skillVars, BeginCreateSkill, BeginCreateVersion, SkillBegin, EndCreateSkill,
      EndCreateVersion, EndSkill, SkillFails, DeleteSkill, DeleteSkillVersion, SkillClock
<1> QED BY <1>1, <1>3, <1>4, <1>5 DEF SkillsTypeOK

LEMMA SkillTypesStart == SkillsInit => SkillsTypeOK
BY SkillsStart, SkillBounds DEF SkillsInit, SkillInv, SkillShape, SkillsTypeOK

-----------------------------------------------------------------------------
(* Lists. *)

\* What sorting returns.
LEMMA RankIs ==
  ASSUME NEW rows \in SUBSET Nat, IsFiniteSet(rows), NEW order \in {"desc", "asc"}
  PROVE  LET Rank(r) == Cardinality(Before(rows, order, r)) IN
           /\ Cardinality(rows) \in Nat
           /\ \A r \in rows : Rank(r) \in 0 .. Cardinality(rows) - 1
           /\ \A q, r \in rows : (IF order = "desc" THEN q > r ELSE q < r) => Rank(q) < Rank(r)
<1> DEFINE Rank(r) == Cardinality(Before(rows, order, r))
<1>1. Cardinality(rows) \in Nat
  BY FS_CardinalityType
<1>2. \A r \in rows : IsFiniteSet(Before(rows, order, r)) /\ Rank(r) \in Nat
  <2> TAKE r \in rows
  <2>1. Before(rows, order, r) \in SUBSET rows
    BY DEF Before
  <2>2. IsFiniteSet(Before(rows, order, r))
    BY <2>1, FS_Subset
  <2> QED BY <2>2, FS_CardinalityType
<1>3. ASSUME NEW r \in rows PROVE Rank(r) < Cardinality(rows)
  <2>1. Before(rows, order, r) \in SUBSET rows /\ r \notin Before(rows, order, r)
    BY DEF Before
  <2>2. Rank(r) <= Cardinality(rows) /\ Rank(r) # Cardinality(rows)
    BY <2>1, FS_Subset
  <2> QED BY <1>1, <1>2, <2>2
<1>4. ASSUME NEW q \in rows, NEW r \in rows, IF order = "desc" THEN q > r ELSE q < r PROVE Rank(q) < Rank(r)
  <2>1. Before(rows, order, q) \in SUBSET Before(rows, order, r)
    <3> SUFFICES ASSUME NEW p \in Before(rows, order, q) PROVE p \in Before(rows, order, r)
      OBVIOUS
    <3>1. p \in rows /\ p \in Nat /\ q \in Nat /\ r \in Nat
      BY DEF Before
    <3>2. IF order = "desc" THEN p > q ELSE p < q
      BY DEF Before
    <3>3. IF order = "desc" THEN p > r ELSE p < r
      BY <1>4, <3>1, <3>2
    <3> QED BY <3>1, <3>3 DEF Before
  <2>2. q \in Before(rows, order, r) /\ q \notin Before(rows, order, q)
    BY <1>4 DEF Before
  <2>3. Rank(q) <= Rank(r) /\ Rank(q) # Rank(r)
    BY <1>2, <2>1, <2>2, FS_Subset
  <2> QED BY <1>2, <2>3
<1> QED BY <1>1, <1>2, <1>3, <1>4

LEMMA SortedIs ==
  ASSUME NEW rows \in SUBSET Nat, IsFiniteSet(rows), NEW order \in {"desc", "asc"}
  PROVE  LET Rank(r) == Cardinality(Before(rows, order, r))
             items == Sorted(rows, order) IN
           /\ items \in Seq(rows) /\ Len(items) = Cardinality(rows)
           /\ \A r \in rows : Rank(r) + 1 \in 1 .. Len(items) /\ items[Rank(r) + 1] = r
           /\ \A i \in 1 .. Len(items) : Rank(items[i]) = i - 1
<1> DEFINE Rank(r) == Cardinality(Before(rows, order, r))
           n == Cardinality(rows)
           f == [r \in rows |-> Rank(r) + 1]
<1>1. n \in Nat /\ \A r \in rows : Rank(r) \in 0 .. n - 1
  BY RankIs
<1>2. \A q, r \in rows : q # r => Rank(q) # Rank(r)
  <2> SUFFICES ASSUME NEW q \in rows, NEW r \in rows, q # r PROVE Rank(q) # Rank(r)
    OBVIOUS
  <2>1. CASE IF order = "desc" THEN q > r ELSE q < r
    BY <1>1, <2>1, RankIs
  <2>2. CASE ~ (IF order = "desc" THEN q > r ELSE q < r)
    <3>1. IF order = "desc" THEN r > q ELSE r < q
      <4>1. q \in Nat /\ r \in Nat
        OBVIOUS
      <4> QED BY <2>2, <4>1
    <3> QED BY <1>1, <3>1, RankIs
  <2> QED BY <2>1, <2>2
<1> HIDE DEF Rank
<1>3. f \in [rows -> 1 .. n]
  BY <1>1
<1>4. f \in Injection(rows, 1 .. n)
  BY <1>1, <1>2, <1>3 DEF Injection, IsInjective
<1>5. IsFiniteSet(1 .. n) /\ Cardinality(1 .. n) = n
  BY <1>1, FS_Interval
<1>6. f \in Surjection(rows, 1 .. n)
  BY <1>4, <1>5, FS_Injection
<1>7. \A i \in 1 .. n : \E r \in rows : Rank(r) = i - 1
  <2> TAKE i \in 1 .. n
  <2>1. PICK r \in rows : f[r] = i
    BY <1>6 DEF Surjection
  <2> QED BY <1>1, <2>1
<1> DEFINE items == [i \in 1 .. n |-> CHOOSE r \in rows : Rank(r) = i - 1]
<1>8. \A i \in 1 .. n : items[i] \in rows /\ Rank(items[i]) = i - 1
  BY <1>7
<1>9. items = Sorted(rows, order)
  BY DEF Sorted, Rank
<1> HIDE DEF items
<1>10. items \in [1 .. n -> rows]
  BY <1>8 DEF items
<1>11. items \in Seq(rows) /\ Len(items) = n
  BY <1>1, <1>10
<1>12. \A r \in rows : Rank(r) + 1 \in 1 .. n /\ items[Rank(r) + 1] = r
  <2> TAKE r \in rows
  <2>1. Rank(r) + 1 \in 1 .. n /\ (Rank(r) + 1) - 1 = Rank(r)
    BY <1>1
  <2>2. items[Rank(r) + 1] \in rows /\ Rank(items[Rank(r) + 1]) = Rank(r)
    BY <1>8, <2>1
  <2> QED BY <1>2, <2>1, <2>2
<1> QED BY <1>8, <1>9, <1>11, <1>12 DEF Rank

-----------------------------------------------------------------------------

\* The types of a list; stayed names rows among the newest.
ListTyped ==
  /\ created \in Nat /\ listed \in SUBSET (1 .. created)
  /\ walk \in [by : {"none", "page", "id"}, order : {"desc", "asc"}, length : Nat \ {0}, offset : Nat, last : Nat,
               seen : Seq(Nat \ {0}), stayed : SUBSET Newest(listed), lost : BOOLEAN, pushed : BOOLEAN,
               state : {"none", "open", "done", "refused"}]

\* How many of the newest rows are listed before a row.
Rank(r) == Cardinality(Before(Newest(listed), walk.order, r))

\* An open walk by pages has sent every row that stays and whose place it has passed.
PageInv ==
  walk.by = "page" /\ ~walk.lost /\ (walk.order = "desc" \/ ~walk.pushed) =>
    /\ walk.state = "open" => \A r \in walk.stayed : Rank(r) < walk.offset => r \in SeenRows
    /\ walk.state = "done" => walk.stayed \subseteq SeenRows

\* A walk by id sends older and older rows, and has sent every row that stays and is not
\* older than the last.
IdInv ==
  walk.by = "id" =>
    /\ walk.order = "desc"
    /\ \A i, j \in DOMAIN walk.seen : i < j => walk.seen[i] > walk.seen[j]
    /\ walk.last = IF walk.seen = <<>> THEN 0 ELSE walk.seen[Len(walk.seen)]
    /\ walk.state = "open" => \A r \in walk.stayed : walk.last # 0 /\ r >= walk.last => r \in SeenRows
    /\ walk.state = "done" => walk.stayed \subseteq SeenRows

ListInv == ListTyped /\ PageInv /\ IdInv

LEMMA NewestFacts ==
  ASSUME ListTyped
  PROVE  /\ IsFiniteSet(listed) /\ IsFiniteSet(Newest(listed))
         /\ listed \in SUBSET (Nat \ {0}) /\ Newest(listed) \in SUBSET listed
         /\ Newest(listed) \in SUBSET Nat
<1>1. listed \in SUBSET (1 .. created) /\ created \in Nat
  BY DEF ListTyped
<1>2. IsFiniteSet(1 .. created)
  BY <1>1, FS_Interval
<1>3. IsFiniteSet(listed) /\ listed \in SUBSET (Nat \ {0})
  <2>1. IsFiniteSet(listed)
    BY <1>1, <1>2, FS_Subset
  <2>2. \A r \in 1 .. created : r \in Nat \ {0}
    BY <1>1
  <2> QED BY <1>1, <2>1, <2>2
<1>4. Newest(listed) \in SUBSET listed
  BY DEF Newest
<1>5. IsFiniteSet(Newest(listed))
  BY <1>3, <1>4, FS_Subset
<1> QED BY <1>3, <1>4, <1>5

\* A row that is newer than one of the newest is one of them.
LEMMA NewerIsNewest ==
  ASSUME NEW rows \in SUBSET Nat, IsFiniteSet(rows), NEW r \in Newest(rows), NEW q \in rows, q > r
  PROVE  q \in Newest(rows)
<1> DEFINE Newer(x) == {p \in rows : p > x}
<1>1. Newer(q) \in SUBSET Newer(r)
  <2> SUFFICES ASSUME NEW p \in Newer(q) PROVE p \in Newer(r)
    OBVIOUS
  <2>1. p \in Nat /\ q \in Nat /\ r \in Nat /\ p \in rows /\ p > q
    BY DEF Newest
  <2> QED BY <2>1
<1>2. Newer(r) \in SUBSET rows
  OBVIOUS
<1>3. IsFiniteSet(Newer(r)) /\ IsFiniteSet(Newer(q)) /\ Cardinality(Newer(q)) <= Cardinality(Newer(r))
  BY <1>1, <1>2, FS_Subset
<1>4. Cardinality(Newer(q)) \in Nat /\ Cardinality(Newer(r)) \in Nat /\ ListLimit \in Nat
  BY <1>3, FS_CardinalityType, ListingBounds
<1>5. Cardinality(Newer(r)) < ListLimit
  BY DEF Newest
<1>6. Cardinality(Newer(q)) < ListLimit
  <2> HIDE DEF Newer
  <2> QED BY <1>3, <1>4, <1>5
<1> QED BY <1>6 DEF Newest

\* Deleting a row pushes none out.
LEMMA NewestWithout ==
  ASSUME NEW rows \in SUBSET Nat, IsFiniteSet(rows), NEW d \in rows
  PROVE  Newest(rows) \ {d} \in SUBSET Newest(rows \ {d})
<1> SUFFICES ASSUME NEW r \in Newest(rows), r # d PROVE r \in Newest(rows \ {d})
  OBVIOUS
<1> DEFINE A == {q \in rows : q > r}
           B == {q \in rows \ {d} : q > r}
<1>1. B \in SUBSET A /\ A \in SUBSET rows /\ r \in rows \ {d}
  BY DEF Newest
<1>2. IsFiniteSet(A) /\ IsFiniteSet(B) /\ Cardinality(B) <= Cardinality(A)
  BY <1>1, FS_Subset
<1>3. Cardinality(A) \in Nat /\ Cardinality(B) \in Nat /\ ListLimit \in Nat
  BY <1>2, FS_CardinalityType, ListingBounds
<1>4. Cardinality(A) < ListLimit
  BY DEF Newest
<1>5. Cardinality(B) < ListLimit
  <2> HIDE DEF A, B
  <2> QED BY <1>2, <1>3, <1>4
<1> QED BY <1>1, <1>5 DEF Newest

-----------------------------------------------------------------------------

\* The newest rows in their order.
LEMMA ItemsAre ==
  ASSUME ListTyped
  PROVE  LET items == Sorted(Newest(listed), walk.order) IN
           /\ items \in Seq(Nat \ {0}) /\ Len(items) \in Nat
           /\ \A r \in Newest(listed) :
                r \in Nat /\ Rank(r) \in Nat /\ Rank(r) + 1 \in 1 .. Len(items) /\ items[Rank(r) + 1] = r
           /\ \A i \in 1 .. Len(items) : items[i] \in Newest(listed) /\ Rank(items[i]) = i - 1
           /\ walk.order = "desc" => \A i, j \in 1 .. Len(items) : i < j => items[i] > items[j]
<1> DEFINE rows == Newest(listed)
           items == Sorted(rows, walk.order)
<1>1. rows \in SUBSET Nat /\ IsFiniteSet(rows) /\ rows \in SUBSET (Nat \ {0}) /\ walk.order \in {"desc", "asc"}
  BY NewestFacts DEF ListTyped
<1>2. Cardinality(rows) \in Nat
  BY <1>1, FS_CardinalityType
<1> HIDE DEF rows, items
<1>3. /\ items \in Seq(rows) /\ Len(items) = Cardinality(rows)
      /\ \A r \in rows : Cardinality(Before(rows, walk.order, r)) + 1 \in 1 .. Len(items)
                         /\ items[Cardinality(Before(rows, walk.order, r)) + 1] = r
      /\ \A i \in 1 .. Len(items) : Cardinality(Before(rows, walk.order, items[i])) = i - 1
  BY <1>1, SortedIs DEF items
<1>4. /\ \A r \in rows : Cardinality(Before(rows, walk.order, r)) \in 0 .. Cardinality(rows) - 1
      /\ \A q, r \in rows : (IF walk.order = "desc" THEN q > r ELSE q < r)
           => Cardinality(Before(rows, walk.order, q)) < Cardinality(Before(rows, walk.order, r))
  BY <1>1, RankIs
<1>5. /\ \A r \in rows : r \in Nat /\ Rank(r) \in Nat /\ Rank(r) + 1 \in 1 .. Len(items) /\ items[Rank(r) + 1] = r
      /\ \A i \in 1 .. Len(items) : items[i] \in rows /\ Rank(items[i]) = i - 1
  <2>1. \A i \in 1 .. Len(items) : items[i] \in rows
    BY <1>3, ElementOfSeq
  <2>2. \A r \in rows : r \in Nat /\ Rank(r) \in Nat
    BY <1>1, <1>2, <1>4 DEF Rank, rows
  <2>3. \A r \in rows : Rank(r) = Cardinality(Before(rows, walk.order, r))
    BY DEF Rank, rows
  <2> QED BY <1>3, <2>1, <2>2, <2>3
<1>6. ASSUME walk.order = "desc", NEW i \in 1 .. Len(items), NEW j \in 1 .. Len(items), i < j
      PROVE  items[i] > items[j]
  <2>1. items[i] \in rows /\ items[j] \in rows /\ items[i] \in Nat /\ items[j] \in Nat
    BY <1>5
  <2>2. Rank(items[i]) = i - 1 /\ Rank(items[j]) = j - 1
    BY <1>5
  <2>3. items[i] # items[j]
    BY <1>3, <1>6, <2>2
  <2>4. items[j] > items[i] => Rank(items[j]) < Rank(items[i])
    BY <1>4, <1>6, <2>1 DEF Rank, rows
  <2>5. ~ (Rank(items[j]) < Rank(items[i]))
    BY <1>3, <1>6, <2>2
  <2> QED BY <2>1, <2>3, <2>4, <2>5
<1>7. items \in Seq(Nat \ {0})
  <2>1. \A i \in 1 .. Len(items) : items[i] \in Nat \ {0}
    BY <1>1, <1>5
  <2> QED BY <1>3, <2>1
<1> QED BY <1>2, <1>3, <1>5, <1>6, <1>7 DEF rows, items

\* The rows of a page, slice, and these after the rows sent before.
Adds(S, s, items, offset, length) ==
  LET slice == Slice(items, offset, length)
      t == s \o slice IN
    /\ slice \in Seq(S) /\ t \in Seq(S) /\ Len(t) = Len(s) + Len(slice)
    /\ slice # <<>> => slice[Len(slice)] \in S
    /\ \A i \in 1 .. Len(s) : i \in 1 .. Len(t) /\ t[i] = s[i]
    /\ \A i \in 1 .. Len(slice) : /\ Len(s) + i \in 1 .. Len(t) /\ offset + i \in 1 .. Len(items)
                                 /\ t[Len(s) + i] = items[offset + i] /\ slice[i] = items[offset + i]
    /\ \A k \in 1 .. Len(items) : offset < k /\ k <= offset + length => k - offset \in 1 .. Len(slice)

LEMMA ConcatSlice ==
  ASSUME NEW S, NEW s \in Seq(S), NEW items \in Seq(S), NEW offset \in Nat, NEW length \in Nat \ {0}
  PROVE  Adds(S, s, items, offset, length)
<1> DEFINE slice == Slice(items, offset, length)
           t == s \o slice
<1>1. /\ slice \in Seq(S)
      /\ Len(slice) = IF offset >= Len(items) THEN 0
                      ELSE IF offset + length < Len(items) THEN length ELSE Len(items) - offset
      /\ \A i \in 1 .. Len(slice) : offset + i \in 1 .. Len(items) /\ slice[i] = items[offset + i]
  <2> DEFINE last == IF offset + length < Len(items) THEN offset + length ELSE Len(items)
             part == SubSeq(items, offset + 1, last)
  <2>1. Len(items) \in Nat /\ last \in Int /\ last <= Len(items) /\ offset + 1 \in Int
    OBVIOUS
  <2>2. \A i \in offset + 1 .. last : items[i] \in S
    BY <2>1, ElementOfSeq
  <2>3. /\ part \in Seq(S)
        /\ Len(part) = IF offset + 1 <= last THEN last - (offset + 1) + 1 ELSE 0
        /\ \A i \in 1 .. last - (offset + 1) + 1 : part[i] = items[offset + 1 + i - 1]
    BY ONLY <2>1, <2>2, SubSeqProperties
  <2>4. Len(part) = IF offset >= Len(items) THEN 0
                     ELSE IF offset + length < Len(items) THEN length ELSE Len(items) - offset
    BY <2>1, <2>3
  <2>5. ASSUME NEW i \in 1 .. Len(part) PROVE offset + i \in 1 .. Len(items) /\ part[i] = items[offset + i]
    <3>1. Len(part) # 0 /\ offset < Len(items)
      BY <2>1, <2>4
    <3>2. offset + i \in 1 .. Len(items) /\ i \in 1 .. last - (offset + 1) + 1 /\ offset + 1 + i - 1 = offset + i
      BY <2>1, <2>3, <3>1
    <3> QED BY <2>3, <3>2
  <2> QED BY <2>3, <2>4, <2>5 DEF Slice, slice
<1> HIDE DEF slice
<1>2. /\ t \in Seq(S) /\ Len(t) = Len(s) + Len(slice)
      /\ \A i \in 1 .. Len(s) + Len(slice) : t[i] = IF i <= Len(s) THEN s[i] ELSE slice[i - Len(s)]
  BY <1>1, ConcatProperties
<1> HIDE DEF t
<1>3. Len(s) \in Nat /\ Len(slice) \in Nat /\ Len(items) \in Nat
  BY <1>1
<1>4. ASSUME NEW i \in 1 .. Len(s) PROVE i \in 1 .. Len(t) /\ t[i] = s[i]
  <2>1. i \in 1 .. Len(s) + Len(slice) /\ i <= Len(s)
    BY <1>3
  <2> QED BY <1>2, <2>1
<1>5. ASSUME NEW i \in 1 .. Len(slice) PROVE Len(s) + i \in 1 .. Len(t) /\ t[Len(s) + i] = slice[i]
  <2>1. /\ Len(s) + i \in 1 .. Len(s) + Len(slice) /\ ~ (Len(s) + i <= Len(s))
        /\ (Len(s) + i) - Len(s) = i
    BY <1>3
  <2> QED BY <1>2, <2>1
<1>6. ASSUME slice # <<>> PROVE slice[Len(slice)] \in S
  <2>1. Len(slice) \in 1 .. Len(slice)
    BY <1>1, <1>3, <1>6, EmptySeq
  <2> QED BY <1>1, <2>1, ElementOfSeq
<1>7. ASSUME NEW k \in 1 .. Len(items), offset < k, k <= offset + length PROVE k - offset \in 1 .. Len(slice)
  BY <1>1, <1>3, <1>7
<1> QED BY <1>1, <1>2, <1>4, <1>5, <1>6, <1>7 DEF Adds, slice, t

\* What a page adds to a walk.
LEMMA PageAdds ==
  ASSUME ListTyped, NEW items \in Seq(Nat \ {0}), NEW offset \in Nat, TakePage(items, offset)
  PROVE  LET slice == Slice(items, offset, walk.length)
             next == offset + walk.length IN
           /\ walk' = [walk EXCEPT !.offset = next, !.seen = walk.seen \o slice,
                                   !.last = IF slice = <<>> THEN walk.last ELSE slice[Len(slice)],
                                   !.state = IF next < Len(items) THEN "open" ELSE "done"]
           /\ walk.seen \in Seq(Nat \ {0}) /\ slice \in Seq(Nat \ {0}) /\ walk.length \in Nat \ {0}
           /\ walk'.seen \in Seq(Nat \ {0}) /\ walk'.last \in Nat /\ next \in Nat
           /\ Len(walk'.seen) = Len(walk.seen) + Len(slice)
           /\ \A i \in 1 .. Len(walk.seen) : walk'.seen[i] = walk.seen[i]
           /\ \A i \in 1 .. Len(slice) : walk'.seen[Len(walk.seen) + i] = items[offset + i]
           /\ SeenRows \in SUBSET SeenRows'
           /\ \A k \in 1 .. Len(items) : offset < k /\ k <= next => items[k] \in SeenRows'
<1> DEFINE slice == Slice(items, offset, walk.length)
           next == offset + walk.length
<1>1. walk.seen \in Seq(Nat \ {0}) /\ walk.length \in Nat \ {0} /\ walk.last \in Nat /\ next \in Nat
  BY DEF ListTyped
<1>2. walk' = [walk EXCEPT !.offset = next, !.seen = walk.seen \o slice,
                           !.last = IF slice = <<>> THEN walk.last ELSE slice[Len(slice)],
                           !.state = IF next < Len(items) THEN "open" ELSE "done"]
  BY DEF TakePage
<1>3. Adds(Nat \ {0}, walk.seen, items, offset, walk.length)
  BY <1>1, ConcatSlice
<1> HIDE DEF slice
<1>4. /\ walk'.seen = walk.seen \o slice
      /\ walk'.last = IF slice = <<>> THEN walk.last ELSE slice[Len(slice)]
  BY <1>2 DEF ListTyped
<1>5. walk'.last \in Nat
  BY <1>1, <1>3, <1>4 DEF Adds, slice
<1>6. DOMAIN walk.seen = 1 .. Len(walk.seen) /\ DOMAIN walk'.seen = 1 .. Len(walk'.seen)
  BY <1>1, <1>3, <1>4 DEF Adds, slice
<1>7. SeenRows \in SUBSET SeenRows'
  BY <1>3, <1>4, <1>6 DEF Adds, SeenRows, slice
<1>8. ASSUME NEW k \in 1 .. Len(items), offset < k, k <= next PROVE items[k] \in SeenRows'
  <2>1. k - offset \in 1 .. Len(slice) /\ offset + (k - offset) = k
    BY <1>3, <1>8 DEF Adds, slice
  <2>2. Len(walk.seen) + (k - offset) \in DOMAIN walk'.seen
        /\ walk'.seen[Len(walk.seen) + (k - offset)] = items[k]
    BY <1>3, <1>4, <1>6, <2>1 DEF Adds, slice
  <2> QED BY <2>2 DEF SeenRows
<1> QED BY <1>1, <1>2, <1>3, <1>4, <1>5, <1>7, <1>8 DEF Adds, slice

LEMMA ListInitial == ListInit => ListInv
<1> SUFFICES ASSUME ListInit PROVE ListInv
  OBVIOUS
<1>1. created = 0 /\ listed = {} /\ walk = NoWalk
  BY DEF ListInit
<1>2. walk.by = "none"
  BY <1>1 DEF NoWalk
<1>3. ListTyped
  <2>1. <<>> \in Seq(Nat \ {0})
    BY EmptySeq
  <2> QED BY <1>1, <2>1 DEF ListTyped, NoWalk
<1> QED BY <1>2, <1>3 DEF ListInv, PageInv, IdInv

\* What a row created or deleted does to a walk.
LEMMA RowsMove ==
  ASSUME ListInv, CreateRow \/ DeleteRow
  PROVE  /\ created' \in Nat /\ listed' \in SUBSET (1 .. created')
         /\ walk' = [walk EXCEPT !.stayed = walk'.stayed, !.lost = walk'.lost, !.pushed = walk'.pushed]
         /\ walk'.lost \in BOOLEAN /\ walk'.pushed \in BOOLEAN
         /\ walk'.stayed \in SUBSET Newest(listed') /\ walk'.stayed \in SUBSET walk.stayed
         /\ walk.lost => walk'.lost
         /\ walk.pushed => walk'.pushed
<1>0. ListTyped /\ created \in Nat /\ listed \in SUBSET (1 .. created) /\ walk.stayed \in SUBSET Newest(listed)
  BY DEF ListInv, ListTyped
<1>1. CASE CreateRow
  <2>1. /\ created' = created + 1 /\ listed' = listed \cup {created + 1}
        /\ walk' = [walk EXCEPT !.stayed = walk.stayed \cap Newest(listed'),
                     !.pushed = walk.pushed \/ (walk.state = "open" /\ ~(Newest(listed) \subseteq Newest(listed')))]
    BY <1>1 DEF CreateRow
  <2>2. \A r \in 1 .. created : r \in 1 .. created'
    BY <1>0, <2>1
  <2>3. created + 1 \in 1 .. created'
    BY <1>0, <2>1
  <2>4. /\ walk'.stayed = walk.stayed \cap Newest(listed')
        /\ walk'.pushed = (walk.pushed \/ (walk.state = "open" /\ ~(Newest(listed) \subseteq Newest(listed'))))
        /\ walk'.lost = walk.lost /\ walk.lost \in BOOLEAN /\ walk.pushed \in BOOLEAN
        /\ walk' = [walk EXCEPT !.stayed = walk'.stayed, !.lost = walk'.lost, !.pushed = walk'.pushed]
    BY <1>0, <2>1 DEF ListTyped
  <2> QED BY <1>0, <2>1, <2>2, <2>3, <2>4
<1>2. CASE DeleteRow
  <2>1. PICK r \in listed : /\ listed' = listed \ {r} /\ created' = created
                            /\ walk' = [walk EXCEPT !.stayed = walk.stayed \ {r}, !.lost = walk.state = "open" \/ walk.lost]
    BY <1>2 DEF DeleteRow
  <2>2. Newest(listed) \ {r} \in SUBSET Newest(listed')
    <3>1. listed \in SUBSET Nat /\ IsFiniteSet(listed)
      BY <1>0, NewestFacts
    <3> QED BY <2>1, <3>1, NewestWithout
  <2>3. /\ walk'.stayed = walk.stayed \ {r} /\ walk'.lost = (walk.state = "open" \/ walk.lost)
        /\ walk'.pushed = walk.pushed /\ walk.lost \in BOOLEAN /\ walk.pushed \in BOOLEAN
        /\ walk' = [walk EXCEPT !.stayed = walk'.stayed, !.lost = walk'.lost, !.pushed = walk'.pushed]
    BY <1>0, <2>1 DEF ListTyped
  <2> QED BY <1>0, <2>1, <2>2, <2>3
<1> QED BY <1>1, <1>2

\* Rows created while no row is deleted and, oldest first, none is pushed out: a row that
\* stays does not move towards the start of the list.
LEMMA PlaceGrows ==
  ASSUME ListTyped, ListTyped', CreateRow, walk.state = "open", walk.order = "desc" \/ ~walk'.pushed,
         NEW r \in walk'.stayed
  PROVE  Rank(r) \in Nat /\ Rank(r)' \in Nat /\ Rank(r) <= Rank(r)'
<1>1. /\ listed' = listed \cup {created + 1}
      /\ walk'.stayed = walk.stayed \cap Newest(listed') /\ walk'.order = walk.order
      /\ walk'.pushed = (walk.pushed \/ (walk.state = "open" /\ ~(Newest(listed) \subseteq Newest(listed'))))
  BY DEF CreateRow, ListTyped
<1> DEFINE old == Before(Newest(listed), walk.order, r)
           new == Before(Newest(listed'), walk.order, r)
<1>2. Rank(r) = Cardinality(old) /\ Rank(r)' = Cardinality(new)
  BY <1>1 DEF Rank
<1>3. /\ listed \in SUBSET Nat /\ listed' \in SUBSET Nat /\ IsFiniteSet(listed')
      /\ IsFiniteSet(Newest(listed)) /\ IsFiniteSet(Newest(listed')) /\ Newest(listed) \in SUBSET listed
  <2>1. /\ IsFiniteSet(listed) /\ IsFiniteSet(Newest(listed))
        /\ listed \in SUBSET (Nat \ {0}) /\ Newest(listed) \in SUBSET listed
    BY NewestFacts
  <2>2. (/\ IsFiniteSet(listed) /\ IsFiniteSet(Newest(listed))
         /\ listed \in SUBSET (Nat \ {0}) /\ Newest(listed) \in SUBSET listed)'
    BY NewestFacts, PTL
  <2> QED BY <2>1, <2>2
<1>4. old \in SUBSET new
  <2> SUFFICES ASSUME NEW q \in old PROVE q \in new
    OBVIOUS
  <2>1. q \in Newest(listed) /\ (IF walk.order = "desc" THEN q > r ELSE q < r)
    BY DEF Before
  <2>2. q \in Newest(listed')
    <3>1. CASE walk.order = "desc"
      <4>1. r \in Newest(listed') /\ q \in listed' /\ q > r
        BY <1>1, <1>3, <2>1, <3>1
      <4> QED BY <1>3, <4>1, NewerIsNewest
    <3>2. CASE ~walk'.pushed
      BY <1>1, <2>1, <3>2
    <3> QED BY <3>1, <3>2
  <2> QED BY <2>1, <2>2 DEF Before
<1>5. new \in SUBSET Newest(listed')
  BY DEF Before
<1>6. IsFiniteSet(new) /\ IsFiniteSet(old) /\ Cardinality(old) <= Cardinality(new)
  BY <1>3, <1>4, <1>5, FS_Subset
<1>7. Cardinality(old) \in Nat /\ Cardinality(new) \in Nat
  BY <1>6, FS_CardinalityType
<1> QED BY <1>2, <1>6, <1>7

LEMMA RowsMoveInv ==
  ASSUME ListInv, CreateRow \/ DeleteRow
  PROVE  ListInv'
<1>1. /\ created' \in Nat /\ listed' \in SUBSET (1 .. created')
      /\ walk' = [walk EXCEPT !.stayed = walk'.stayed, !.lost = walk'.lost, !.pushed = walk'.pushed]
      /\ walk'.lost \in BOOLEAN /\ walk'.pushed \in BOOLEAN
      /\ walk'.stayed \in SUBSET Newest(listed') /\ walk'.stayed \in SUBSET walk.stayed
      /\ walk.lost => walk'.lost
      /\ walk.pushed => walk'.pushed
  BY RowsMove
<1>2. ListTyped'
  BY <1>1 DEF ListInv, ListTyped
<1>3. /\ walk'.by = walk.by /\ walk'.order = walk.order /\ walk'.offset = walk.offset /\ walk'.last = walk.last
      /\ walk'.seen = walk.seen /\ walk'.state = walk.state
  BY <1>1 DEF ListInv, ListTyped
<1>4. SeenRows' = SeenRows
  BY <1>3 DEF SeenRows
<1>5. IdInv'
  BY <1>1, <1>3, <1>4 DEF ListInv, IdInv
<1>6. PageInv'
  <2> SUFFICES ASSUME walk'.by = "page", ~walk'.lost, walk'.order = "desc" \/ ~walk'.pushed
               PROVE  /\ walk'.state = "open" => \A r \in walk'.stayed : Rank(r)' < walk'.offset => r \in SeenRows'
                      /\ walk'.state = "done" => walk'.stayed \subseteq SeenRows'
    BY DEF PageInv
  <2>1. /\ walk.state = "open" => \A r \in walk.stayed : Rank(r) < walk.offset => r \in SeenRows
        /\ walk.state = "done" => walk.stayed \subseteq SeenRows
    BY <1>1, <1>3 DEF ListInv, PageInv
  <2>2. ASSUME walk'.state = "open", NEW r \in walk'.stayed, Rank(r)' < walk'.offset PROVE r \in SeenRows'
    <3>1. CreateRow
      <4>1. DeleteRow => walk'.lost
        BY <1>3, <2>2 DEF DeleteRow, ListInv, ListTyped
      <4> QED BY <4>1
    <3>2. Rank(r) \in Nat /\ Rank(r)' \in Nat /\ Rank(r) <= Rank(r)'
      BY <1>2, <1>3, <2>2, <3>1, PlaceGrows DEF ListInv
    <3>3. Rank(r) < walk.offset
      BY <1>3, <2>2, <3>2 DEF ListInv, ListTyped
    <3> QED BY <1>1, <1>3, <1>4, <2>1, <2>2, <3>3
  <2> QED BY <1>1, <1>3, <1>4, <2>1, <2>2
<1> QED BY <1>2, <1>5, <1>6 DEF ListInv

\* A page leaves the rows and the kind of the walk.
LEMMA PageTyped ==
  ASSUME ListTyped, NEW items \in Seq(Nat \ {0}), NEW offset \in Nat, TakePage(items, offset),
         UNCHANGED <<created, listed>>
  PROVE  /\ ListTyped'
         /\ walk'.by = walk.by /\ walk'.order = walk.order /\ walk'.stayed = walk.stayed
         /\ walk'.lost = walk.lost /\ walk'.pushed = walk.pushed
         /\ walk'.offset = offset + walk.length
         /\ walk'.last = LET slice == Slice(items, offset, walk.length) IN
                           IF slice = <<>> THEN walk.last ELSE slice[Len(slice)]
         /\ walk'.state = IF offset + walk.length < Len(items) THEN "open" ELSE "done"
         /\ \A r \in Newest(listed) : Rank(r)' = Rank(r)
<1> DEFINE slice == Slice(items, offset, walk.length)
<1>1. /\ walk' = [walk EXCEPT !.offset = offset + walk.length, !.seen = walk.seen \o slice,
                              !.last = IF slice = <<>> THEN walk.last ELSE slice[Len(slice)],
                              !.state = IF offset + walk.length < Len(items) THEN "open" ELSE "done"]
      /\ walk'.seen \in Seq(Nat \ {0}) /\ walk'.last \in Nat /\ offset + walk.length \in Nat
  BY PageAdds
<1> HIDE DEF slice
<1>2. ListTyped' /\ walk'.order = walk.order
  BY <1>1 DEF ListTyped
<1>3. \A r \in Newest(listed) : Rank(r)' = Rank(r)
  BY <1>2 DEF Rank
<1> QED BY <1>1, <1>2, <1>3 DEF ListTyped, slice

LEMMA NextByPageInv ==
  ASSUME ListInv, NextByPage
  PROVE  ListInv'
<1> DEFINE items == Sorted(Newest(listed), walk.order)
<1>1. /\ walk.state = "open" /\ walk.by = "page" /\ TakePage(items, walk.offset)
      /\ UNCHANGED <<created, listed>> /\ ListTyped /\ walk.offset \in Nat
  BY DEF NextByPage, OffsetOf, ListInv, ListTyped
<1>2. /\ items \in Seq(Nat \ {0}) /\ Len(items) \in Nat
      /\ \A r \in Newest(listed) :
           r \in Nat /\ Rank(r) \in Nat /\ Rank(r) + 1 \in 1 .. Len(items) /\ items[Rank(r) + 1] = r
  BY <1>1, ItemsAre
<1> HIDE DEF items
<1>3. /\ ListTyped'
      /\ walk'.by = walk.by /\ walk'.order = walk.order /\ walk'.stayed = walk.stayed
      /\ walk'.lost = walk.lost /\ walk'.pushed = walk.pushed /\ walk'.offset = walk.offset + walk.length
      /\ walk'.state = IF walk.offset + walk.length < Len(items) THEN "open" ELSE "done"
      /\ \A r \in Newest(listed) : Rank(r)' = Rank(r)
  BY <1>1, <1>2, PageTyped
<1>4. /\ SeenRows \in SUBSET SeenRows' /\ walk.length \in Nat \ {0}
      /\ \A k \in 1 .. Len(items) : walk.offset < k /\ k <= walk.offset + walk.length => items[k] \in SeenRows'
  BY <1>1, <1>2, PageAdds
<1>5. PageInv'
  <2> SUFFICES ASSUME ~walk.lost, walk.order = "desc" \/ ~walk.pushed
               PROVE  /\ walk'.state = "open" => \A r \in walk.stayed : Rank(r)' < walk'.offset => r \in SeenRows'
                      /\ walk'.state = "done" => walk.stayed \subseteq SeenRows'
    BY <1>3 DEF PageInv
  <2>1. \A r \in walk.stayed : Rank(r) < walk.offset => r \in SeenRows
    BY <1>1 DEF ListInv, PageInv
  <2>2. ASSUME NEW r \in walk.stayed, Rank(r) < walk.offset + walk.length PROVE r \in SeenRows'
    <3>1. r \in Newest(listed)
      BY <1>1 DEF ListTyped
    <3>2. Rank(r) \in Nat /\ Rank(r) + 1 \in 1 .. Len(items) /\ items[Rank(r) + 1] = r
      BY <1>2, <3>1
    <3>3. CASE Rank(r) < walk.offset
      BY <1>4, <2>1, <3>3
    <3>4. CASE ~ (Rank(r) < walk.offset)
      <4>1. walk.offset < Rank(r) + 1 /\ Rank(r) + 1 <= walk.offset + walk.length
        BY <1>1, <1>4, <2>2, <3>2, <3>4
      <4> QED BY <1>4, <3>2, <4>1
    <3> QED BY <3>3, <3>4
  <2>3. \A r \in walk.stayed : r \in Newest(listed) /\ Rank(r)' = Rank(r) /\ Rank(r) \in Nat /\ Rank(r) < Len(items)
    BY <1>1, <1>2, <1>3 DEF ListTyped
  <2>4. walk'.state = "open" => \A r \in walk.stayed : Rank(r)' < walk'.offset => r \in SeenRows'
    BY <1>3, <2>2, <2>3
  <2>5. walk'.state = "done" => \A r \in walk.stayed : Rank(r) < walk.offset + walk.length
    BY <1>1, <1>2, <1>3, <1>4, <2>3
  <2> QED BY <2>2, <2>4, <2>5
<1>6. IdInv'
  BY <1>1, <1>3 DEF IdInv
<1> QED BY <1>3, <1>5, <1>6 DEF ListInv

\* A page of the rows after the last one sent.
LEMMA PageAfterLast ==
  ASSUME ListInv, walk.by = "id", walk.state = "open", NEW p \in Nat,
         LET items == Sorted(Newest(listed), walk.order) IN
           /\ TakePage(items, p) /\ p <= Len(items)
           /\ walk.last = 0 => p = 0
           /\ walk.last # 0 => p \in 1 .. Len(items) /\ items[p] = walk.last,
         UNCHANGED <<created, listed>>
  PROVE  ListInv'
<1> DEFINE items == Sorted(Newest(listed), walk.order)
           slice == Slice(items, p, walk.length)
           n == Len(walk.seen)
           m == Len(slice)
<1>1. /\ TakePage(items, p) /\ p <= Len(items)
      /\ walk.last = 0 => p = 0
      /\ walk.last # 0 => p \in 1 .. Len(items) /\ items[p] = walk.last
      /\ ListTyped /\ walk.stayed \in SUBSET Newest(listed)
      /\ walk.seen \in Seq(Nat \ {0}) /\ walk.length \in Nat \ {0} /\ walk.last \in Nat
  BY DEF ListInv, ListTyped
<1>2. /\ walk.order = "desc"
      /\ \A i, j \in DOMAIN walk.seen : i < j => walk.seen[i] > walk.seen[j]
      /\ walk.last = IF walk.seen = <<>> THEN 0 ELSE walk.seen[Len(walk.seen)]
      /\ \A r \in walk.stayed : walk.last # 0 /\ r >= walk.last => r \in SeenRows
  BY DEF ListInv, IdInv
<1>3. /\ items \in Seq(Nat \ {0}) /\ Len(items) \in Nat
      /\ \A r \in Newest(listed) :
           r \in Nat /\ Rank(r) \in Nat /\ Rank(r) + 1 \in 1 .. Len(items) /\ items[Rank(r) + 1] = r
      /\ \A i, j \in 1 .. Len(items) : i < j => items[i] > items[j]
  BY <1>1, <1>2, ItemsAre
<1> HIDE DEF items
<1>4. /\ ListTyped'
      /\ walk'.by = walk.by /\ walk'.order = walk.order /\ walk'.stayed = walk.stayed
      /\ walk'.last = IF slice = <<>> THEN walk.last ELSE slice[Len(slice)]
      /\ walk'.state = IF p + walk.length < Len(items) THEN "open" ELSE "done"
  BY <1>1, <1>3, PageTyped
<1>5. Adds(Nat \ {0}, walk.seen, items, p, walk.length)
  BY <1>1, <1>3, ConcatSlice
<1>6. /\ SeenRows \in SUBSET SeenRows'
      /\ \A k \in 1 .. Len(items) : p < k /\ k <= p + walk.length => items[k] \in SeenRows'
      /\ walk'.seen = walk.seen \o slice
  <2>1. /\ SeenRows \in SUBSET SeenRows'
        /\ \A k \in 1 .. Len(items) : p < k /\ k <= p + walk.length => items[k] \in SeenRows'
    BY <1>1, <1>3, PageAdds
  <2>2. walk'.seen = walk.seen \o slice
    BY <1>1 DEF TakePage, ListTyped
  <2> QED BY <2>1, <2>2
<1>7. /\ slice \in Seq(Nat \ {0}) /\ walk'.seen \in Seq(Nat \ {0}) /\ Len(walk'.seen) = n + m
      /\ \A i \in 1 .. n : walk'.seen[i] = walk.seen[i]
      /\ \A i \in 1 .. m : /\ p + i \in 1 .. Len(items)
                           /\ walk'.seen[n + i] = items[p + i] /\ slice[i] = items[p + i]
      /\ \A k \in 1 .. Len(items) : p < k /\ k <= p + walk.length => k - p \in 1 .. m
  BY <1>5, <1>6 DEF Adds
<1> HIDE DEF slice
<1>8. n \in Nat /\ m \in Nat /\ DOMAIN walk.seen = 1 .. n /\ DOMAIN walk'.seen = 1 .. n + m
  BY <1>1, <1>7
<1>9. \A i \in 1 .. Len(items) : items[i] \in Nat \ {0}
  BY <1>3, ElementOfSeq
<1> HIDE DEF n, m
<1>10. \A i \in 1 .. n : walk.seen[i] \in Nat \ {0} /\ walk.last # 0 /\ walk.seen[i] >= walk.last
  <2> TAKE i \in 1 .. n
  <2>1. n \in 1 .. n /\ walk.seen # <<>> /\ walk.last = walk.seen[n]
    BY <1>2, <1>8, EmptySeq DEF n
  <2>2. walk.seen[i] \in Nat \ {0} /\ walk.seen[n] \in Nat \ {0}
    BY <1>1, <2>1, ElementOfSeq DEF n
  <2>3. i = n \/ walk.seen[i] > walk.seen[n]
    BY <1>2, <1>8, <2>1
  <2> QED BY <2>1, <2>2, <2>3
<1>11. ASSUME NEW i \in 1 .. n + m, NEW j \in 1 .. n + m, i < j PROVE walk'.seen[i] > walk'.seen[j]
  <2>1. CASE j <= n
    <3>1. i \in 1 .. n /\ j \in 1 .. n
      BY <1>8, <1>11, <2>1
    <3> QED BY <1>2, <1>7, <1>8, <1>11, <3>1
  <2>2. CASE j > n /\ i <= n
    <3>1. i \in 1 .. n /\ j - n \in 1 .. m /\ n + (j - n) = j
      BY <1>8, <1>11, <2>2
    <3>2. /\ walk'.seen[i] = walk.seen[i] /\ walk'.seen[j] = items[p + (j - n)]
          /\ p + (j - n) \in 1 .. Len(items)
      BY <1>7, <3>1
    <3>3. walk.seen[i] \in Nat /\ walk.last # 0 /\ walk.seen[i] >= walk.last
      BY <1>10, <3>1
    <3>4. p \in 1 .. Len(items) /\ items[p] = walk.last /\ p < p + (j - n)
      BY <1>1, <1>8, <3>1, <3>3
    <3>5. items[p] > items[p + (j - n)] /\ items[p + (j - n)] \in Nat
      BY <1>3, <1>9, <3>2, <3>4
    <3> QED BY <1>1, <3>2, <3>3, <3>4, <3>5
  <2>3. CASE i > n
    <3>1. i - n \in 1 .. m /\ j - n \in 1 .. m /\ n + (i - n) = i /\ n + (j - n) = j /\ p + (i - n) < p + (j - n)
      BY <1>8, <1>11, <2>3
    <3>2. /\ walk'.seen[i] = items[p + (i - n)] /\ walk'.seen[j] = items[p + (j - n)]
          /\ p + (i - n) \in 1 .. Len(items) /\ p + (j - n) \in 1 .. Len(items)
      BY <1>7, <3>1
    <3> QED BY <1>3, <3>1, <3>2
  <2> QED BY <1>8, <1>11, <2>1, <2>2, <2>3
<1>12. walk'.last = IF walk'.seen = <<>> THEN 0 ELSE walk'.seen[Len(walk'.seen)]
  <2>1. CASE m = 0
    <3>1. slice = <<>>
      BY <1>7, <2>1, EmptySeq DEF m
    <3>2. walk'.seen = walk.seen
      BY <1>1, <1>6, <3>1, ConcatEmptySeq
    <3> QED BY <1>2, <1>4, <3>1, <3>2
  <2>2. CASE m # 0
    <3>1. slice # <<>> /\ walk'.seen # <<>>
      BY <1>7, <1>8, <2>2, EmptySeq DEF m
    <3>2. m \in 1 .. m
      BY <1>8, <2>2
    <3> QED BY <1>4, <1>7, <3>1, <3>2 DEF m
  <2> QED BY <2>1, <2>2
<1>13. ASSUME NEW r \in walk.stayed, Rank(r) < p + m PROVE r \in SeenRows'
  <2>1. r \in Nat /\ Rank(r) \in Nat /\ Rank(r) + 1 \in 1 .. Len(items) /\ items[Rank(r) + 1] = r
    BY <1>1, <1>3
  <2>2. CASE Rank(r) < p
    <3>1. walk.last # 0 /\ p \in 1 .. Len(items) /\ items[p] = walk.last
      BY <1>1, <2>1, <2>2
    <3>2. Rank(r) + 1 = p \/ Rank(r) + 1 < p
      BY <2>1, <2>2
    <3>3. r >= walk.last
      BY <1>1, <1>3, <2>1, <3>1, <3>2
    <3> QED BY <1>2, <1>6, <3>1, <3>3
  <2>3. CASE ~ (Rank(r) < p)
    <3> DEFINE k == Rank(r)
    <3>0. k \in Nat /\ p \in Nat /\ m \in Nat /\ n \in Nat /\ k < p + m /\ ~ (k < p)
      BY <1>8, <1>13, <2>1, <2>3
    <3> HIDE DEF k
    <3>1. k + 1 - p \in 1 .. m /\ n + (k + 1 - p) \in 1 .. n + m /\ p + (k + 1 - p) = k + 1
      BY ONLY <3>0
    <3>2. walk'.seen[n + (k + 1 - p)] = r
      BY <1>7, <2>1, <3>1 DEF k
    <3> QED BY <1>8, <3>1, <3>2 DEF SeenRows
  <2> QED BY <2>2, <2>3
<1>14. ASSUME NEW r \in walk.stayed, walk'.last # 0, r >= walk'.last PROVE r \in SeenRows'
  <2>1. r \in Nat /\ Rank(r) \in Nat /\ Rank(r) + 1 \in 1 .. Len(items) /\ items[Rank(r) + 1] = r
    BY <1>1, <1>3
  <2>2. CASE m = 0
    <3>1. walk'.last = walk.last
      BY <1>4, <1>7, <2>2, EmptySeq DEF m
    <3> QED BY <1>2, <1>6, <1>14, <3>1
  <2>3. CASE m # 0
    <3>1. m \in 1 .. m /\ slice # <<>>
      BY <1>8, <2>3, EmptySeq DEF m
    <3>2. walk'.last = items[p + m] /\ p + m \in 1 .. Len(items)
      BY <1>4, <1>7, <3>1 DEF m
    <3>3. ~ (p + m < Rank(r) + 1)
      BY <1>3, <1>9, <1>14, <2>1, <3>2
    <3>4. Rank(r) < p + m
      BY <1>8, <2>1, <3>3
    <3> QED BY <1>13, <3>4
  <2> QED BY <2>2, <2>3
<1>15. ASSUME walk'.state = "done" PROVE walk.stayed \subseteq SeenRows'
  <2> SUFFICES ASSUME NEW r \in walk.stayed PROVE r \in SeenRows'
    OBVIOUS
  <2>1. r \in Nat /\ Rank(r) \in Nat /\ Rank(r) + 1 \in 1 .. Len(items)
    BY <1>1, <1>3
  <2>2. Len(items) <= p + walk.length
    BY <1>1, <1>3, <1>4, <1>15
  <2>3. CASE p = Len(items)
    BY <1>8, <1>13, <2>1, <2>3
  <2>4. CASE p < Len(items)
    <3>1. Len(items) - p \in 1 .. m
      BY <1>3, <1>7, <2>2, <2>4
    <3> QED BY <1>3, <1>8, <1>13, <2>1, <3>1
  <2> QED BY <1>1, <1>3, <2>3, <2>4
<1>16. IdInv'
  BY <1>2, <1>4, <1>8, <1>11, <1>12, <1>14, <1>15 DEF IdInv
<1>17. PageInv'
  BY <1>4 DEF PageInv
<1> QED BY <1>4, <1>16, <1>17 DEF ListInv

LEMMA NextByIdInv ==
  ASSUME ListInv, NextById
  PROVE  ListInv'
<1> DEFINE items == Sorted(Newest(listed), walk.order)
<1>1. /\ walk.state = "open" /\ walk.by = "id" /\ UNCHANGED <<created, listed>>
      /\ IF walk.last \in {0} \cup {items[i] : i \in DOMAIN items}
           THEN TakePage(items, PositionAfter(items, walk.last))
           ELSE walk' = [walk EXCEPT !.state = "refused"]
  BY DEF NextById
<1>2. ListTyped /\ items \in Seq(Nat \ {0}) /\ Len(items) \in Nat
  BY ItemsAre DEF ListInv
<1>3. CASE walk.last \in {0} \cup {items[i] : i \in DOMAIN items}
  <2> DEFINE p == PositionAfter(items, walk.last)
  <2>1. /\ p \in Nat /\ p <= Len(items)
        /\ walk.last = 0 => p = 0
        /\ walk.last # 0 => p \in 1 .. Len(items) /\ items[p] = walk.last
    <3>1. CASE walk.last = 0
      BY <1>2, <3>1 DEF PositionAfter
    <3>2. CASE walk.last # 0
      <4>1. \E i \in DOMAIN items : items[i] = walk.last
        BY <1>3, <3>2
      <4>2. p \in DOMAIN items /\ items[p] = walk.last
        BY <3>2, <4>1 DEF PositionAfter
      <4> QED BY <1>2, <3>2, <4>2
    <3> QED BY <3>1, <3>2
  <2>2. TakePage(items, p)
    BY <1>1, <1>3
  <2> HIDE DEF p
  <2> QED BY <1>1, <2>1, <2>2, PageAfterLast
<1>4. CASE ~ (walk.last \in {0} \cup {items[i] : i \in DOMAIN items})
  <2>1. walk' = [walk EXCEPT !.state = "refused"]
    BY <1>1, <1>4
  <2> HIDE DEF items
  <2>2. ListTyped'
    BY <1>1, <1>2, <2>1 DEF ListTyped
  <2>3. /\ walk'.by = "id" /\ walk'.order = walk.order /\ walk'.seen = walk.seen /\ walk'.last = walk.last
        /\ walk'.state = "refused"
    BY <1>1, <1>2, <2>1 DEF ListTyped
  <2> QED BY <1>1, <2>2, <2>3 DEF ListInv, PageInv, IdInv
<1> QED BY <1>3, <1>4

LEMMA PlacesAreNumbers == ListTyped => \A x \in Newest(listed) : Rank(x) \in Nat
BY ItemsAre

LEMMA BeginWalkInv ==
  ASSUME ListInv, BeginWalk
  PROVE  ListInv'
<1>1. PICK by \in {"page", "id"}, order \in {"desc", "asc"}, limit \in Limits :
        /\ by = "id" => order = "desc"
        /\ walk' = [NoWalk EXCEPT !.by = by, !.order = order, !.length = PageLength(limit),
                                  !.stayed = Newest(listed), !.state = "open"]
        /\ UNCHANGED <<created, listed>>
  BY DEF BeginWalk
<1>2. PageLength(limit) \in Nat \ {0}
  BY ListingBounds DEF PageLength
<1>3. <<>> \in Seq(Nat \ {0})
  BY EmptySeq
<1>4. ListTyped'
  BY <1>1, <1>2, <1>3 DEF ListInv, ListTyped, NoWalk
<1>5. /\ walk'.by = by /\ walk'.order = order /\ walk'.seen = <<>> /\ walk'.last = 0 /\ walk'.offset = 0
      /\ walk'.state = "open" /\ walk'.stayed = Newest(listed)
  BY <1>1 DEF NoWalk
<1>6. \A r \in walk'.stayed : ~ (Rank(r)' < walk'.offset)
  <2> TAKE r \in walk'.stayed
  <2>1. Rank(r)' \in Nat
    <3>1. (\A x \in Newest(listed) : Rank(x) \in Nat)'
      BY <1>4, PlacesAreNumbers, PTL
    <3> QED BY <1>1, <1>5, <3>1
  <2> QED BY <1>5, <2>1
<1>7. PageInv'
  BY <1>5, <1>6 DEF PageInv
<1>8. IdInv'
  BY <1>1, <1>5 DEF IdInv
<1> QED BY <1>4, <1>7, <1>8 DEF ListInv

LEMMA PageExpiresInv ==
  ASSUME ListInv, PageExpires
  PROVE  ListInv'
<1>1. walk' = [walk EXCEPT !.state = "refused"] /\ UNCHANGED <<created, listed>> /\ walk.by = "page" /\ ListTyped
  BY DEF PageExpires, ListInv
<1>2. ListTyped' /\ walk'.by = "page" /\ walk'.state = "refused"
  BY <1>1 DEF ListTyped
<1> QED BY <1>2 DEF ListInv, PageInv, IdInv

\* A walk keeps up with the rows that are created and deleted between its pages:
\* app/pagination.py over list_resources.
THEOREM WalksKeepUp == ListSpec => []ListInv
<1>1. ListInv /\ [ListNext]_listVars => ListInv'
  <2> SUFFICES ASSUME ListInv, [ListNext]_listVars PROVE ListInv'
    OBVIOUS
  <2>1. CASE CreateRow \/ DeleteRow
    BY <2>1, RowsMoveInv
  <2>2. CASE BeginWalk
    BY <2>2, BeginWalkInv
  <2>3. CASE NextByPage
    BY <2>3, NextByPageInv
  <2>4. CASE NextById
    BY <2>4, NextByIdInv
  <2>5. CASE PageExpires
    BY <2>5, PageExpiresInv
  <2>6. CASE UNCHANGED listVars
    BY <2>6 DEF listVars, ListInv, ListTyped, PageInv, IdInv, Rank, SeenRows
  <2> QED BY <2>1, <2>2, <2>3, <2>4, <2>5, <2>6 DEF ListNext
<1> QED BY <1>1, ListInitial, PTL DEF ListSpec

\* paginate misses no row that stays, unless one is deleted or pushed out meanwhile.
THEOREM PageWalksComplete == ListSpec => []PagesMissNothing
<1>1. ListInv => PagesMissNothing
  BY DEF ListInv, PageInv, PagesMissNothing
<1> QED BY <1>1, WalksKeepUp, PTL

\* paginate_by_id misses no row that stays, and sends none twice.
THEOREM IdWalksComplete == ListSpec => []IdsMissNothing
<1>1. ListInv => IdsMissNothing
  <2> SUFFICES ASSUME ListInv, walk.by = "id" PROVE IdsMissNothing
    BY DEF IdsMissNothing
  <2> DEFINE n == Len(walk.seen)
  <2>1. walk.seen \in Seq(Nat \ {0}) /\ n \in Nat /\ DOMAIN walk.seen = 1 .. n
    BY DEF ListInv, ListTyped
  <2>2. \A i \in 1 .. n : walk.seen[i] \in Nat
    BY <2>1, ElementOfSeq
  <2>3. \A i, j \in 1 .. n : i < j => walk.seen[i] > walk.seen[j]
    BY <2>1 DEF ListInv, IdInv
  <2> HIDE DEF n
  <2>4. \A i, j \in 1 .. n : i # j => walk.seen[i] # walk.seen[j]
    <3> SUFFICES ASSUME NEW i \in 1 .. n, NEW j \in 1 .. n, i # j PROVE walk.seen[i] # walk.seen[j]
      OBVIOUS
    <3>1. i < j \/ j < i
      BY <2>1
    <3> QED BY <2>2, <2>3, <3>1
  <2> DEFINE f == [i \in 1 .. n |-> walk.seen[i]]
  <2>5. f \in Bijection(1 .. n, SeenRows)
    <3>1. f \in [1 .. n -> SeenRows] /\ \A i \in 1 .. n : f[i] = walk.seen[i]
      BY <2>1 DEF SeenRows
    <3>2. f \in Injection(1 .. n, SeenRows)
      BY <2>4, <3>1 DEF Injection, IsInjective
    <3>3. f \in Surjection(1 .. n, SeenRows)
      BY <2>1, <3>1 DEF Surjection, SeenRows
    <3> QED BY <3>2, <3>3 DEF Bijection
  <2>6. Cardinality(SeenRows) = n
    BY <2>1, <2>5, FS_CountingElements DEF ExistsBijection
  <2>7. walk.state = "done" => walk.stayed \subseteq SeenRows
    BY DEF ListInv, IdInv
  <2> QED BY <2>6, <2>7 DEF IdsMissNothing, n
<1> QED BY <1>1, WalksKeepUp, PTL

-----------------------------------------------------------------------------
(* Files, skills, streams and lists together. *)

\* What FilesSpec keeps, and SkillsSpec.
ObjectsInv == Typed /\ SkillInv /\ SkillsTypeOK

\* Only one of the modules moves, and the rows of the others stay as they are.
LEMMA ObjectsStep ==
  ObjectsInv /\ [FilesMove \/ SkillsMove \/ StreamMove \/ ListMove]_mcVars => ObjectsInv'
<1> SUFFICES ASSUME ObjectsInv, [FilesMove \/ SkillsMove \/ StreamMove \/ ListMove]_mcVars PROVE ObjectsInv'
  OBVIOUS
<1>1. [FilesNext]_fileVars
  BY DEF FilesMove, SkillsMove, StreamMove, StreamRest, ListMove, mcVars
<1>2. [SkillsNext]_skillVars
  BY DEF FilesMove, SkillsMove, StreamMove, StreamRest, ListMove, mcVars
<1> QED BY <1>1, <1>2, TypedStep, SkillInvStep, SkillTypesStep DEF ObjectsInv

\* Rows, objects, versions and requests of files and skills keep their types, those of
\* a request that fails half-way included: app/routers/files.py, app/routers/skills.py.
THEOREM ObjectsTyped == MCSpec => []ObjectsTypeOK
<1>1. MCInit => ObjectsInv
  BY TypedInit, SkillsStart, SkillTypesStart DEF MCInit, ObjectsInv
<1>2. ObjectsInv => ObjectsTypeOK
  BY DEF ObjectsInv, Typed, ObjectsTypeOK
<1> QED BY <1>1, <1>2, ObjectsStep, PTL DEF MCSpec
=============================================================================
