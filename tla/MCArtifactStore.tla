--------------------------- MODULE MCArtifactStore ---------------------------
(***************************************************************************)
(* Instances for TLC of ArtifactStore: alone, and with fewer uploads beside  *)
(* a report, IntegrityReport, or a viewer, ArtifactReads.                   *)
(***************************************************************************)
EXTENDS IntegrityReport, ArtifactReads, Naturals, FiniteSets, TLC

CONSTANTS c1, c2

\* c1 arrives as a log and as plain output, c2 as two kinds of log.
MCUploads == {<<c1, "stdout">>, <<c1, "output">>, <<c2, "stdout">>, <<c2, "logcat">>}

Sym == Permutations(Requests)

VARIABLE beside

Begun == {r \in Requests : pc[r] # "idle"}

StoreInit ==
  Init /\ ReportInit /\ ReadsInit /\ beside \in {"nothing", "report", "viewer"}

StoreNext ==
  /\ UNCHANGED beside
  /\ \/ /\ Next /\ UNCHANGED <<reporter, viewer>>
        /\ beside # "nothing" => Cardinality(Begun') <= 2
     \/ beside = "report" /\ Check /\ UNCHANGED <<vars, viewer>>
     \/ beside = "viewer" /\ Read /\ UNCHANGED <<vars, reporter>>

StoreSpec == StoreInit /\ [][StoreNext]_<<vars, reporter, viewer, beside>>
=============================================================================
