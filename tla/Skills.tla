-------------------------------- MODULE Skills --------------------------------
(***************************************************************************)
(* Skills and their versions (app/routers/skills.py): the rows skill and   *)
(* skill_version of managed_resources and the archives in the bucket.      *)
(*                                                                         *)
(* A new version is numbered and its archive stored before one commit      *)
(* inserts its row and writes the skill's data whole.                      *)
(***************************************************************************)
EXTENDS Integers, FiniteSets, Sequences

CONSTANTS
  SkillIds,       \* bound: ids that create_skill may give
  Uploads,        \* what requests bring: sets of files [path, front], see ValidSkillFiles
  Manifest,       \* the file name SKILL.md
  BadSegments,    \* the segments that no path may have: empty, . and ..
  MaxNow,         \* bound of the clock
  MaxSkillVersions, \* bound of the versions uploaded
  SkillClients,   \* HTTP requests in flight at the same time
  NoSkill

ASSUME SkillBounds == MaxNow \in Nat \ {0} /\ MaxSkillVersions \in Nat
ASSUME NoSkillAssumption == NoSkill \notin SkillIds /\ IsFiniteSet(SkillIds)

VARIABLES
  now,            \* time_ns() // 1_000
  skill,          \* the skill rows
  skillVersions,  \* the skill_version rows
  archives,       \* the keys of the stored archives
  skillReq        \* the requests

skillVars == <<now, skill, skillVersions, archives, skillReq>>

-----------------------------------------------------------------------------
(* Data. *)

SkillRows == [exists : BOOLEAN, deleted : BOOLEAN, latest : Nat]

SkillVersionRows == [skill : SkillIds, number : Nat \ {0}, upload : Uploads, deleted : BOOLEAN]

\* The key of an archive: the skill, the number, and the sha256 of the upload.
Archives == [skill : SkillIds, number : Nat \ {0}, upload : Uploads]

\* The archive of a version, or of the request that uploads it (the filename in
\* _create_skill_version_resource).
Archive(v) == [skill |-> v.skill, number |-> v.number, upload |-> v.upload]

\* get_resource.
SkillFound(s) == skill[s].exists /\ ~skill[s].deleted

\* _normalize_zip_path.
RelativePath(path) == path # <<>> /\ \A i \in DOMAIN path : path[i] \notin BadSegments

\* _validate_skill_files: one top-level directory with a SKILL.md whose frontmatter has
\* a name and a description.
ValidSkillFiles(upload) ==
  /\ \A f \in upload : RelativePath(f.path) /\ Len(f.path) >= 2
  /\ \A f, g \in upload : f.path[1] = g.path[1]
  /\ \E f \in upload : Tail(f.path) = <<Manifest>> /\ {"name", "description"} \subseteq f.front

\* _skill_payload_from_request: a request without files is accepted as well.
Accepted(upload) == upload = {} \/ ValidSkillFiles(upload)

\* Mutant: the clock alone.
NextNumberByClock(latest) == now

\* _new_skill_version_id.
NextNumber(latest) == IF now > latest THEN now ELSE latest + 1

-----------------------------------------------------------------------------
(* Requests. *)

SkillIdle == [op |-> "none", skill |-> NoSkill, read |-> 0, number |-> 0, upload |-> {}, stored |-> FALSE]

SkillRequests == [op : {"create", "version"}, skill : SkillIds, read : Nat, number : Nat \ {0},
                  upload : Uploads, stored : BOOLEAN]

SkillBegin(c, op, s, latest, upload) ==
  /\ skillReq[c].op = "none"
  /\ Cardinality(skillVersions) < MaxSkillVersions
  /\ Accepted(upload)
  /\ skillReq' = [skillReq EXCEPT ![c] = [op |-> op, skill |-> s, read |-> latest,
                                         number |-> NextNumber(latest), upload |-> upload, stored |-> FALSE]]
  /\ UNCHANGED <<now, skill, skillVersions, archives>>

\* The id is new, and unknown to others until the commit.
BeginCreateSkill(c) ==
  \E s \in SkillIds, upload \in Uploads :
    /\ ~skill[s].exists /\ \A d \in SkillClients : skillReq[d].skill # s
    /\ SkillBegin(c, "create", s, 0, upload)

BeginCreateVersion(c) ==
  \E s \in SkillIds, upload \in Uploads : SkillFound(s) /\ SkillBegin(c, "version", s, skill[s].latest, upload)

\* save_file_bytes in _create_skill_version_resource.
StoreArchive(c) ==
  /\ skillReq[c].op # "none" /\ ~skillReq[c].stored
  /\ archives' = archives \cup {Archive(skillReq[c])}
  /\ skillReq' = [skillReq EXCEPT ![c].stored = TRUE]
  /\ UNCHANGED <<now, skill, skillVersions>>

\* uq_managed_resources_type_parent_version, which deleted rows count for.
NumberFree(s, n) == ~\E v \in skillVersions : v.skill = s /\ v.number = n

MayCommit(c, op) == skillReq[c].op = op /\ skillReq[c].stored

\* Mutant: the number is computed a second time.
LatestAnew(s, n) == IF NumberFree(s, n) THEN NextNumber(skill[s].latest) ELSE skill[s].latest

\* latest_version after the commit, which fails as a whole when the number is taken.
LatestAfter(s, n) == IF NumberFree(s, n) THEN n ELSE skill[s].latest

EndSkill(c, op) ==
  LET s == skillReq[c].skill
      n == skillReq[c].number IN
    /\ MayCommit(c, op)
    /\ skillVersions' = IF NumberFree(s, n)
         THEN skillVersions \cup {[skill |-> s, number |-> n, upload |-> skillReq[c].upload, deleted |-> FALSE]}
         ELSE skillVersions
    /\ skill' = [skill EXCEPT ![s].exists = TRUE, ![s].latest = LatestAfter(s, n)]
    /\ skillReq' = [skillReq EXCEPT ![c] = SkillIdle]
    /\ UNCHANGED <<now, archives>>

EndCreateSkill(c) == EndSkill(c, "create")

EndCreateVersion(c) == EndSkill(c, "version")

\* The process dies, or the bucket does not answer.
SkillFails(c) ==
  /\ skillReq[c].op # "none"
  /\ skillReq' = [skillReq EXCEPT ![c] = SkillIdle]
  /\ UNCHANGED <<now, skill, skillVersions, archives>>

\* Neither deletes an archive, and a version's number stays taken and may stay the latest.
DeleteSkill ==
  \E s \in SkillIds :
    /\ SkillFound(s)
    /\ skill' = [skill EXCEPT ![s].deleted = TRUE]
    /\ UNCHANGED <<now, skillVersions, archives, skillReq>>

DeleteSkillVersion ==
  \E v \in skillVersions :
    /\ ~v.deleted
    /\ skillVersions' = (skillVersions \ {v}) \cup {[v EXCEPT !.deleted = TRUE]}
    /\ UNCHANGED <<now, skill, archives, skillReq>>

\* The clock of the system may be set back.
SkillClock ==
  /\ now' \in 1 .. MaxNow \ {now}
  /\ UNCHANGED <<skill, skillVersions, archives, skillReq>>

SkillsInit ==
  /\ now = 1
  /\ skill = [s \in SkillIds |-> [exists |-> FALSE, deleted |-> FALSE, latest |-> 0]]
  /\ skillVersions = {} /\ archives = {}
  /\ skillReq = [c \in SkillClients |-> SkillIdle]

SkillsNext ==
  \/ \E c \in SkillClients : BeginCreateSkill(c)
  \/ \E c \in SkillClients : BeginCreateVersion(c)
  \/ \E c \in SkillClients : StoreArchive(c)
  \/ \E c \in SkillClients : EndCreateSkill(c)
  \/ \E c \in SkillClients : EndCreateVersion(c)
  \/ \E c \in SkillClients : SkillFails(c)
  \/ DeleteSkill
  \/ DeleteSkillVersion
  \/ SkillClock

SkillsSpec == SkillsInit /\ [][SkillsNext]_skillVars

-----------------------------------------------------------------------------
(* Properties. *)

\* Rows and requests have their types.
SkillsTypeOK ==
  /\ now \in 1 .. MaxNow
  /\ skill \in [SkillIds -> SkillRows]
  /\ skillVersions \subseteq SkillVersionRows /\ archives \subseteq Archives
  /\ skillReq \in [SkillClients -> SkillRequests \cup {SkillIdle}]

\* What unzipping the archive of an upload makes: one directory, and nothing outside of it.
InOneDirectory(upload) ==
  \A f, g \in upload : f.path[1] = g.path[1] /\ \A i \in DOMAIN f.path : f.path[i] \notin BadSegments

\* A skill's latest_version is a version that was committed, though requests that
\* overlap number their versions from the same row; and every version finds the archive
\* that was uploaded for it (download_skill_version), which makes one directory, though
\* requests that overlap store archives for the same number.
LatestCommitted ==
  /\ \A s \in SkillIds : skill[s].exists => \E v \in skillVersions : v.skill = s /\ v.number = skill[s].latest
  /\ \A v \in skillVersions : Archive(v) \in archives /\ InOneDirectory(v.upload)

\* latest_version falls only when two uploads overlap: the later commit had read the
\* row before the earlier one.
LatestFallsByOverlap ==
  [][\A s \in SkillIds : skill'[s].latest < skill[s].latest =>
       \E c \in SkillClients : skillReq[c].skill = s /\ skillReq'[c].op = "none"
                                 /\ skillReq[c].read < skill[s].latest]_skillVars
=============================================================================
