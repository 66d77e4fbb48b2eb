---------------------------- MODULE RunProvenance ----------------------------
(***************************************************************************)
(* Runs that refer to the rows of ModelRegistry: `create_run` of             *)
(* src/runs_write_api.rs checks that the asset exists and stores its id,     *)
(* which is all a run knows of the model it measured.                        *)
(***************************************************************************)
EXTENDS ModelRegistry

CONSTANT Runs   \* runs to be recorded

VARIABLES
  uses,      \* runs.model_asset_id
  measured   \* the digest that asset had when the run was recorded

provenance == <<uses, measured>>

RunInit ==
  /\ Init
  /\ uses = [r \in Runs |-> None]
  /\ measured = [r \in Runs |-> None]

\* check_references and insert_run: the asset is not verified against its file.
RecordRun(r, id) ==
  /\ uses[r] = None
  /\ assets[id] # None
  /\ uses' = [uses EXCEPT ![r] = id]
  /\ measured' = [measured EXCEPT ![r] = assets[id].sha256]
  /\ UNCHANGED vars

RunNext ==
  \/ Next /\ UNCHANGED provenance
  \/ \E r \in Runs, id \in Tasks : RecordRun(r, id)

RunSpec == RunInit /\ [][RunNext]_<<vars, provenance>>

\* "The system SHALL treat a run's captured provenance and results as
\* append-only once written" (openspec/specs/benchmark-schema): the model
\* identity a run reads back is the one it was recorded with.
RunsKeepTheirModel ==
  \A r \in Runs : uses[r] # None => assets[uses[r]].sha256 = measured[r]
=============================================================================
