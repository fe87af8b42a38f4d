------------------------------ MODULE MCObjects ------------------------------
(***************************************************************************)
(* Instances of Files, Skills, EventStream and Listing for TLC.  No two of *)
(* them share a row, so a run lets one of them move, whichever scope       *)
(* names, and spares their product.                                        *)
(***************************************************************************)
EXTENDS Files, Skills, EventStream, Listing

VARIABLE scope

mcVars == <<fileVars, skillVars, streamVars, listVars, scope>>

SkillFile == [path |-> <<"top", Manifest>>, front |-> {"name", "description"}]

\* No file; a skill; a SKILL.md without description; a file outside of the directory.
SomeUploads ==
  {{}, {SkillFile, [path |-> <<"top", "other">>, front |-> {}]},
   {[SkillFile EXCEPT !.front = {"name"}]}, {SkillFile, [path |-> <<"other">>, front |-> {}]}}

MCInit ==
  /\ FilesInit /\ SkillsInit /\ StreamInit /\ ListInit
  /\ scope \in {"files", "skills", "stream", "lists"}
  /\ scope # "stream" => filter = Everything /\ start = 0

FilesMove == scope = "files" /\ FilesNext /\ UNCHANGED <<skillVars, streamVars, listVars, scope>>

SkillsMove == scope = "skills" /\ SkillsNext /\ UNCHANGED <<fileVars, streamVars, listVars, scope>>

StreamRest == UNCHANGED <<fileVars, skillVars, listVars, scope>>

StreamMove == scope = "stream" /\ StreamNext /\ StreamRest

ListMove == scope = "lists" /\ ListNext /\ UNCHANGED <<fileVars, skillVars, streamVars, scope>>

\* Rows, objects and requests of files and skills have their types.
ObjectsTypeOK == FilesTypeOK /\ SkillsTypeOK

\* The fairness of StreamSpec.
MCSpec ==
  /\ MCInit /\ [][FilesMove \/ SkillsMove \/ StreamMove \/ ListMove]_mcVars
  /\ WF_mcVars(scope = "stream" /\ StreamStep /\ StreamRest)
=============================================================================
