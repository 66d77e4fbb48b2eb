--------------------------- MODULE IntegrityReport ---------------------------
(***************************************************************************)
(* The read-only reconciliation of the artifact store with its table,       *)
(* `check` of src/integrity.rs, as examples/integrity_check.rs runs it       *)
(* beside a server that goes on storing uploads.                            *)
(*                                                                         *)
(* The report is no snapshot: it queries the rows and then looks for each    *)
(* file, walks the files one by one and then queries the rows again, with    *)
(* uploads placing files and inserting rows at any point between.           *)
(***************************************************************************)
EXTENDS ArtifactStore

VARIABLES
  stage,   \* where the report stands
  left,    \* the rows, then the contents' paths, it has yet to look at
  onDisk,  \* the contents whose files the walk has come across
  report,  \* what it reports: rows without a file, files without a row
  before   \* the contents whose files were there when it began

reporter == <<stage, left, onDisk, report, before>>

Placed   == {c \in Contents : final[c] # None}
Recorded == {row.content : row \in artifacts}

ReportInit ==
  /\ stage = "off"
  /\ left = {} /\ onDisk = {} /\ before = {}
  /\ report = [artifacts_missing_files |-> {}, orphaned_artifact_files |-> {}]

\* find_artifacts_missing_files: the rows, in one query
QueryRows ==
  /\ stage = "off"
  /\ stage' = "missing"
  /\ left' = artifacts
  /\ before' = Placed
  /\ UNCHANGED <<onDisk, report>>

\* metadata(artifact_root.join(&storage_path)) of each
StatFile ==
  /\ stage = "missing"
  /\ \E row \in left :
       /\ left' = left \ {row}
       /\ report' = [report EXCEPT !.artifacts_missing_files =
                       IF final[row.content] = None THEN @ \cup {row.id} ELSE @]
  /\ UNCHANGED <<stage, onDisk, before>>

\* walk_content_addressed_files, one directory entry after another
BeginWalk ==
  /\ stage = "missing" /\ left = {}
  /\ stage' = "walk"
  /\ left' = Contents
  /\ UNCHANGED <<onDisk, report, before>>

Walk ==
  /\ stage = "walk"
  /\ \E c \in left :
       /\ left' = left \ {c}
       /\ onDisk' = IF c \in Placed THEN onDisk \cup {c} ELSE onDisk
  /\ UNCHANGED <<stage, report, before>>

\* Asking for the rows at some time before, and not after, the walk
MutantFindOrphans ==
  /\ stage = "walk" /\ left = {}
  /\ stage' = "done"
  /\ \E known \in SUBSET Recorded :
       report' = [report EXCEPT !.orphaned_artifact_files = onDisk \ known]
  /\ UNCHANGED <<left, onDisk, before>>

\* Keeping the files that are recorded
MutantKeepRecorded ==
  /\ stage = "walk" /\ left = {}
  /\ stage' = "done"
  /\ report' = [report EXCEPT !.orphaned_artifact_files = onDisk \cap Recorded]
  /\ UNCHANGED <<left, onDisk, before>>

\* find_orphaned_artifact_files: the rows, after the walk
FindOrphans ==
  /\ stage = "walk" /\ left = {}
  /\ stage' = "done"
  /\ report' = [report EXCEPT !.orphaned_artifact_files = onDisk \ Recorded]
  /\ UNCHANGED <<left, onDisk, before>>

Check == QueryRows \/ StatFile \/ BeginWalk \/ Walk \/ FindOrphans

\* A server that goes on, and one report
ReportNext == (Next /\ UNCHANGED reporter) \/ (Check /\ UNCHANGED vars)

ReportSpec == Init /\ ReportInit /\ [][ReportNext]_<<vars, reporter>>

-----------------------------------------------------------------------------
(* Properties *)

\* Some upload of the content stands at one of these steps.
At(c, steps) == \E r \in Requests : pc[r] \in steps /\ content(r) = c

\* What is reported is so when the report is made: no row is said to lack its
\* file, and a file that is called an orphan has no row.  So no upload that has
\* found or inserted its row is accused, but one may be whose file is placed
\* and whose row is yet to come: an orphan is the file of an upload that has
\* broken off or that is in that window, and the report cannot tell which.
NothingFalseReported ==
  [][stage # "done" /\ stage' = "done" =>
       /\ report'.artifacts_missing_files = {}
       /\ \A c \in report'.orphaned_artifact_files :
            /\ c \in Placed \ Recorded
            /\ At(c, {"placed", "inserting", "failed"})
            /\ ~ At(c, {"conflict", "stored", "created"})]_<<vars, reporter>>

\* And it misses nothing: a file that was there when the report began, left by
\* an upload that broke off, is reported if it has no row to this day.
LeftoversReported ==
  stage = "done" => before \subseteq Recorded \cup report.orphaned_artifact_files

\* Neither rows nor files go away, so what the report has seen is still so; used
\* by ArtifactReadersProofs.
ReportInv ==
  /\ stage \in {"off", "missing"} => onDisk = {}
  /\ stage # "done" => report.orphaned_artifact_files = {}
  /\ stage = "missing" => left \subseteq artifacts
  /\ before \subseteq Placed /\ onDisk \subseteq Placed
  /\ stage = "walk" => before \subseteq left \cup onDisk
  /\ report = [artifacts_missing_files |-> {},
               orphaned_artifact_files |-> report.orphaned_artifact_files]
  /\ LeftoversReported

\* Where an upload can be once its file is placed
PastRename == {"placed", "inserting", "conflict", "stored", "created", "failed"}

\* Each file is there for an upload that is past its rename, and who has lost the
\* insert has a row to find; used by ArtifactReadersProofs.
PlacersInv ==
  /\ \A c \in Placed : At(c, PastRename)
  /\ \A r \in Requests : pc[r] = "conflict" => content(r) \in Recorded
=============================================================================
