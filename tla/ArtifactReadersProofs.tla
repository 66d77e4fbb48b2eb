------------------------ MODULE ArtifactReadersProofs ------------------------
(***************************************************************************)
(* Proofs about those that read the artifact store while uploads go on,     *)
(* IntegrityReport and ArtifactReads, for any number of uploads.  They rest  *)
(* on the invariant of the store, ArtifactStoreProofs, and on two facts      *)
(* about its steps: they remove no row and no placed file.                  *)
(***************************************************************************)
EXTENDS IntegrityReport, ArtifactReads, ArtifactStoreProofs

USE DEF vars, files, reporter, viewer

\* Whatever an upload does, the rows and the placed files stay.
LEMMA StoreGrows ==
  ASSUME IInv, [Next]_vars
  PROVE  artifacts \subseteq artifacts' /\ Placed \subseteq Placed'
<1>1. ASSUME NEW r \in Requests, Serve(r) \/ Abort(r) \/ CleanTemp(r)
      PROVE  artifacts \subseteq artifacts'
  BY <1>1 DEF Serve, Begin, CopyEnds, CopyFails, LookForFinal, DropTemp, Rename, RenameFails,
     RecheckFinal, FindRow, Insert, FindWinner, Respond, Abort, CleanTemp
<1>2. ASSUME NEW r \in Requests, Rename(r)
      PROVE  Placed \subseteq Placed'
  <2>1. final' = [final EXCEPT ![content(r)] = temporary[r]] /\ temporary[r] # None
    BY <1>2 DEF Rename
  <2> QED BY <2>1 DEF Placed, IInv, TypeOK
<1>3. ASSUME NEW r \in Requests, Serve(r) \/ Abort(r) \/ CleanTemp(r), ~ Rename(r)
      PROVE  final' = final
  BY <1>3 DEF Serve, Begin, CopyEnds, CopyFails, LookForFinal, DropTemp, RenameFails,
     RecheckFinal, FindRow, Insert, FindWinner, Respond, Abort, CleanTemp
<1>4. CASE UNCHANGED vars
  BY <1>4 DEF Placed
<1> HIDE DEF vars
<1> QED BY <1>1, <1>2, <1>3, <1>4 DEF Next, Placed

-----------------------------------------------------------------------------
(* The report *)

LEMMA InitReport ==
  ASSUME Init, ReportInit  PROVE ReportInv
BY DEF ReportInit, ReportInv, LeftoversReported

\* A step of the store takes nothing away from what the report relies on.
LEMMA StoreStep ==
  ASSUME IInv, ReportInv, [Next]_vars, UNCHANGED reporter  PROVE ReportInv'
<1>1. artifacts \subseteq artifacts' /\ Placed \subseteq Placed'
  BY StoreGrows
<1>2. Recorded \subseteq Recorded'
  BY <1>1 DEF Recorded
<1>3. LeftoversReported'
  BY <1>2 DEF ReportInv, LeftoversReported
<1> HIDE DEF vars
<1> QED BY <1>1, <1>3 DEF ReportInv

\* A step of the report
LEMMA CheckStep ==
  ASSUME IInv, ReportInv, Check, UNCHANGED vars  PROVE ReportInv'
<1> DEFINE orphaned == report.orphaned_artifact_files
<1>1. artifacts' = artifacts /\ Placed' = Placed /\ Recorded' = Recorded
  BY DEF Placed, Recorded
<1>2. CASE QueryRows
  BY <1>1, <1>2 DEF QueryRows, ReportInv, LeftoversReported
<1>3. CASE StatFile
  <2> PICK row \in left :
        /\ left' = left \ {row}
        /\ report' = [report EXCEPT !.artifacts_missing_files =
                        IF final[row.content] = None THEN @ \cup {row.id} ELSE @]
    BY <1>3 DEF StatFile
  <2>1. stage = "missing" /\ UNCHANGED <<stage, onDisk, before>>
    BY <1>3 DEF StatFile
  <2>2. final[row.content] # None
    BY <2>1 DEF ReportInv, IInv, RowInv, RowHasItsFile
  <2>3. report' = report
    BY <2>2 DEF ReportInv
  <2> QED BY <1>1, <2>1, <2>3 DEF ReportInv, LeftoversReported
<1>4. CASE BeginWalk
  <2>1. before \subseteq Contents
    BY DEF ReportInv, Placed
  <2> QED BY <1>1, <1>4, <2>1 DEF BeginWalk, ReportInv, LeftoversReported
<1>5. CASE Walk
  <2> PICK c \in left :
        /\ left' = left \ {c}
        /\ onDisk' = IF c \in Placed THEN onDisk \cup {c} ELSE onDisk
    BY <1>5 DEF Walk
  <2>1. stage = "walk" /\ UNCHANGED <<stage, report, before>>
    BY <1>5 DEF Walk
  <2>2. before \subseteq left' \cup onDisk'
    BY <2>1 DEF ReportInv
  <2> QED BY <1>1, <2>1, <2>2 DEF ReportInv, LeftoversReported
<1>6. CASE FindOrphans
  <2>1. /\ stage = "walk" /\ left = {} /\ stage' = "done"
        /\ report' = [report EXCEPT !.orphaned_artifact_files = onDisk \ Recorded]
        /\ UNCHANGED <<left, onDisk, before>>
    BY <1>6 DEF FindOrphans
  <2>2. report' = [artifacts_missing_files |-> {}, orphaned_artifact_files |-> onDisk \ Recorded]
    BY <2>1 DEF ReportInv
  <2>3. LeftoversReported'
    BY <1>1, <2>1, <2>2 DEF ReportInv, LeftoversReported
  <2> QED BY <1>1, <2>1, <2>2, <2>3 DEF ReportInv
<1> QED BY <1>2, <1>3, <1>4, <1>5, <1>6 DEF Check

\* An upload that is past its rename stays so, or ends.
LEMMA PlacersStay ==
  ASSUME IInv, NEW r \in Requests, Serve(r) \/ Abort(r) \/ CleanTemp(r),
         NEW s \in Requests, pc[s] \in PastRename
  PROVE  pc'[s] \in PastRename /\ content(s)' = content(s)
<1> USE DEF PastRename, Step, Goto
<1>1. pc \in [Requests -> {"idle"} \cup Running \cup Finished] /\ DOMAIN upload = Requests
  BY DEF IInv, TypeOK
<1>2. content(s)' = content(s)
  <2>1. CASE Begin(r)
    <3>1. s # r
      BY <2>1 DEF Begin
    <3> QED BY <1>1, <2>1, <3>1 DEF Begin, content
  <2>2. CASE ~ Begin(r)
    <3>1. upload' = upload
      BY <2>2 DEF Serve, CopyEnds, CopyFails, LookForFinal, DropTemp, Rename, RenameFails,
         RecheckFinal, FindRow, Insert, FindWinner, Respond, Abort, CleanTemp
    <3> QED BY <3>1 DEF content
  <2> QED BY <2>1, <2>2
<1>3. pc'[s] \in PastRename
  <2>1. CASE s # r
    <3>1. pc'[s] = pc[s]
      BY <1>1, <2>1 DEF Serve, Begin, CopyEnds, CopyFails, LookForFinal, DropTemp, Rename,
         RenameFails, RecheckFinal, FindRow, Insert, FindWinner, Respond, Abort, CleanTemp
    <3> QED BY <3>1
  <2>2. CASE s = r
    <3>1. CASE Serve(r)
      BY <1>1, <2>2, <3>1 DEF Serve, Begin, CopyEnds, CopyFails, LookForFinal, DropTemp,
         Rename, RenameFails, RecheckFinal, FindRow, Insert, FindWinner, Respond
    <3>2. CASE Abort(r) \/ CleanTemp(r)
      BY <1>1, <2>2, <3>2 DEF Abort, CleanTemp
    <3> QED BY <3>1, <3>2
  <2> QED BY <2>1, <2>2
<1> QED BY <1>2, <1>3

\* A step of the store
LEMMA PlacersStep ==
  ASSUME IInv, PlacersInv, [Next]_vars  PROVE PlacersInv'
<1>1. Recorded \subseteq Recorded'
  BY StoreGrows DEF Recorded
<1>2. ASSUME NEW r \in Requests, Serve(r) \/ Abort(r) \/ CleanTemp(r)
      PROVE  PlacersInv'
  <2>1. pc \in [Requests -> {"idle"} \cup Running \cup Finished]
    BY DEF IInv, TypeOK
  <2>2. \A s \in Requests : pc[s] \in PastRename =>
          pc'[s] \in PastRename /\ content(s)' = content(s)
    BY <1>2, PlacersStay
  <2>3. \A c \in Placed : At(c, PastRename)'
    BY <2>2 DEF PlacersInv, At
  <2>4. CASE Rename(r)
    <3>1. Placed' \subseteq Placed \cup {content(r)}
      BY <2>4 DEF Rename, Placed, IInv, TypeOK
    <3>2. pc' = [pc EXCEPT ![r] = "placed"] /\ content(r)' = content(r)
      BY <2>4 DEF Rename, Step, Goto, content
    <3>3. At(content(r), PastRename)'
      BY <2>1, <3>2 DEF At, PastRename
    <3>4. \A s \in Requests : pc'[s] = "conflict" => content(s)' \in Recorded'
      BY <1>1, <2>1, <2>2, <3>2 DEF PlacersInv, PastRename
    <3>5. \A c \in Placed' : At(c, PastRename)'
      BY <2>3, <3>1, <3>2, <3>3
    <3> QED BY <3>4, <3>5 DEF PlacersInv
  <2>5. CASE ~ Rename(r)
    <3>1. Placed' = Placed
      BY <1>2, <2>5 DEF Serve, Begin, CopyEnds, CopyFails, LookForFinal, DropTemp,
         RenameFails, RecheckFinal, FindRow, Insert, FindWinner, Respond, Abort, CleanTemp,
         Placed
    <3>2. ASSUME NEW s \in Requests, pc'[s] = "conflict", pc[s] # "conflict"
          PROVE  content(s)' \in Recorded'
      <4>1. s = r /\ Insert(r) /\ RowsOf(content(r)) # {}
        BY <1>2, <2>1, <3>2 DEF Serve, Begin, CopyEnds, CopyFails, LookForFinal, DropTemp,
           Rename, RenameFails, RecheckFinal, FindRow, Insert, FindWinner, Respond, Abort,
           CleanTemp, Step, Goto, Running
      <4>2. content(r) \in Recorded /\ content(r)' = content(r)
        BY <4>1 DEF RowsOf, Recorded, Insert, content
      <4> QED BY <1>1, <4>1, <4>2
    <3>3. \A s \in Requests : pc'[s] = "conflict" => content(s)' \in Recorded'
      BY <1>1, <2>2, <3>2 DEF PlacersInv, PastRename
    <3> QED BY <2>3, <3>1, <3>3 DEF PlacersInv
  <2> QED BY <2>4, <2>5
<1>3. CASE UNCHANGED vars
  BY <1>3 DEF PlacersInv, Placed, Recorded, At, content
<1> HIDE DEF vars
<1> QED BY <1>2, <1>3 DEF Next

LEMMA ReportIsInvariant == ReportSpec => [](IInv /\ ReportInv /\ PlacersInv)
<1>1. Init /\ ReportInit => IInv /\ ReportInv /\ PlacersInv
  <2>1. Init => PlacersInv
    BY DEF Init, PlacersInv, Placed
  <2> QED BY <2>1, InitIInv, InitReport
<1>2. IInv /\ ReportInv /\ PlacersInv /\ [ReportNext]_<<vars, reporter>>
        => (IInv /\ ReportInv /\ PlacersInv)'
  <2> SUFFICES ASSUME IInv, ReportInv, PlacersInv, [ReportNext]_<<vars, reporter>>
               PROVE  IInv' /\ ReportInv' /\ PlacersInv'
    OBVIOUS
  <2>1. CASE [Next]_vars /\ UNCHANGED reporter
    BY <2>1, NextIInv, StoreStep, PlacersStep
  <2>2. CASE Check /\ UNCHANGED vars
    <3>1. IInv' /\ PlacersInv'
      BY <2>2, NextIInv, PlacersStep
    <3> QED BY <2>2, <3>1, CheckStep
  <2> HIDE DEF vars, reporter
  <2> QED BY <2>1, <2>2 DEF ReportNext
<1> QED BY <1>1, <1>2, PTL DEF ReportSpec

\* A report, though no snapshot, is right when it is made: it names no row that
\* has its file and no file that has a row, and each file it names is that of an
\* upload that broke off or is between its rename and its insert.
THEOREM NothingFalseReportedHolds == ReportSpec => NothingFalseReported
<1> DEFINE Right ==
      stage # "done" /\ stage' = "done" =>
       /\ report'.artifacts_missing_files = {}
       /\ \A c \in report'.orphaned_artifact_files :
            /\ c \in Placed \ Recorded
            /\ At(c, {"placed", "inserting", "failed"})
            /\ ~ At(c, {"conflict", "stored", "created"})
<1>1. IInv /\ ReportInv /\ PlacersInv /\ [ReportNext]_<<vars, reporter>>
        => [Right]_<<vars, reporter>>
  <2> SUFFICES ASSUME IInv, ReportInv, PlacersInv, ReportNext, stage # "done", stage' = "done"
               PROVE  Right
    OBVIOUS
  <2>1. FindOrphans
    BY DEF ReportNext, Check, QueryRows, StatFile, BeginWalk, Walk
  <2>2. /\ report'.artifacts_missing_files = {}
        /\ report'.orphaned_artifact_files = onDisk \ Recorded
    BY <2>1 DEF FindOrphans, ReportInv
  <2>3. ASSUME NEW c \in onDisk \ Recorded
        PROVE  /\ c \in Placed \ Recorded
               /\ At(c, {"placed", "inserting", "failed"})
               /\ ~ At(c, {"conflict", "stored", "created"})
    <3>1. c \in Placed /\ At(c, PastRename)
      BY <2>3 DEF ReportInv, PlacersInv
    <3>2. ~ At(c, {"conflict", "stored", "created"})
      BY <2>3 DEF IInv, AnswersNameRows, PlacersInv, Recorded, At
    <3> QED BY <2>3, <3>1, <3>2 DEF At, PastRename
  <2> QED BY <2>2, <2>3
<1>2. ReportSpec => [][Right]_<<vars, reporter>>
  BY <1>1, ReportIsInvariant, PTL DEF ReportSpec
<1> QED BY <1>2 DEF NothingFalseReported

\* And no file that was there when it began is passed over, unless it has a row.
THEOREM LeftoversReportedHolds == ReportSpec => []LeftoversReported
<1>1. ReportInv => LeftoversReported
  BY DEF ReportInv
<1> QED BY <1>1, ReportIsInvariant, PTL

-----------------------------------------------------------------------------
(* The page of a run and its contents *)

LEMMA InitReads ==
  ASSUME Init, ReadsInit  PROVE ReadsInv
BY DEF ReadsInit, ReadsInv, ViewsInv, ContentInv, LinkIsAnswered

\* Rows that were there are still there.
LEMMA StoreKeepsReads ==
  ASSUME IInv, ReadsInv, [Next]_vars, UNCHANGED viewer  PROVE ReadsInv'
<1>1. artifacts \subseteq artifacts'
  BY StoreGrows
<1>2. Ids \subseteq Ids'
  BY <1>1 DEF Ids
<1> HIDE DEF vars
<1>3. ViewsInv'
  BY <1>2 DEF ReadsInv, ViewsInv, Shown
<1>4. ContentInv'
  BY <1>1 DEF ReadsInv, ContentInv, FileOf
<1>5. LinkIsAnswered'
  BY DEF ReadsInv, LinkIsAnswered, SingleEncoding
<1> QED BY <1>3, <1>4, <1>5 DEF ReadsInv

\* The file of a row is there, of its content and whole.
LEMMA FileOfRow ==
  ASSUME IInv, NEW row \in artifacts
  PROVE  final[row.content] # None /\ FileOf(row.content, final[row.content])
<1>1. row.content \in Contents
  BY DEF IInv, TypeOK, Row
<1> QED BY <1>1 DEF IInv, RowInv, RowHasItsFile, FinalInv, PathHoldsItsContent, FileOf

\* And it decodes to the content, if all that may have placed it encode alike.
LEMMA DecodedFile ==
  ASSUME IInv, NEW row \in artifacts, NEW file, FileOf(row.content, file),
         SingleEncoding(row.content)
  PROVE  Decoded(file, row.compression) = row.content
<1>1. <<row.content, row.kind>> \in Uploads /\ row.compression = Encoding(row.kind)
      /\ row.kind \in Kinds
  BY DEF IInv, RowInv, TypeOK, Row
<1>2. file.encoding = row.compression
  BY <1>1 DEF FileOf, SingleEncoding
<1>3. file.of = row.content /\ file.whole
  BY DEF FileOf
<1> QED BY <1>2, <1>3 DEF Decoded

\* A step of the viewer
LEMMA ReadStep ==
  ASSUME IInv, ReadsInv, Read, UNCHANGED vars  PROVE ReadsInv'
<1>1. artifacts' = artifacts /\ final' = final /\ Ids' = Ids
  BY DEF Ids
<1>2. CASE AskRun
  BY <1>1, <1>2 DEF AskRun, ReadsInv, ViewsInv, Shown, ContentInv, LinkIsAnswered
<1>3. CASE FetchRecord
  <2> PICK s \in pending :
        /\ pending' = pending \ {s}
        /\ \/ /\ \E row \in artifacts : row.id = refs[s] /\ record' = [slot |-> s, row |-> row]
              /\ page' = "stat"
              /\ UNCHANGED missed
           \/ missed' = TRUE /\ UNCHANGED <<page, record>>
    BY <1>3 DEF FetchRecord
  <2>1. page = "record" /\ UNCHANGED <<refs, views, handle, body>>
    BY <1>3 DEF FetchRecord
  <2>2. s \in Slots /\ refs[s] # None
    BY DEF ReadsInv, ViewsInv
  <2>3. page' \in {"stat", "record"} /\ body' = None
    BY <2>1 DEF ReadsInv, ContentInv
  <2>4. ViewsInv'
    BY <1>1, <2>1, <2>2, <2>3 DEF ReadsInv, ViewsInv, Shown
  <2>5. ContentInv'
    BY <1>1, <2>1, <2>2, <2>3 DEF ContentInv
  <2> QED BY <2>3, <2>4, <2>5 DEF ReadsInv, LinkIsAnswered
<1>4. CASE StatRecord
  <2>1. /\ page = "stat" /\ page' = "record"
        /\ views' = [views EXCEPT ![record.slot] =
             [id |-> record.row.id, available |-> final[record.row.content] # None]]
        /\ UNCHANGED <<refs, pending, record, handle, body, missed>>
    BY <1>4 DEF StatRecord
  <2>2. /\ record.slot \in Slots \ pending /\ record.row \in artifacts
        /\ record.row.id = refs[record.slot] /\ refs[record.slot] # None /\ body = None
    BY <2>1 DEF ReadsInv, ContentInv
  <2>3. [id |-> record.row.id, available |-> final[record.row.content] # None]
          = Shown(record.slot)
    BY <2>2, FileOfRow DEF Shown
  <2>4. views' = [views EXCEPT ![record.slot] = Shown(record.slot)]
    BY <2>1, <2>3
  <2>5. ViewsInv'
    <3>1. \A s \in Slots : views'[s] = IF s = record.slot THEN Shown(s) ELSE views[s]
      BY <2>4 DEF ReadsInv, ViewsInv
    <3>2. DOMAIN views' = Slots
      BY <2>4 DEF ReadsInv, ViewsInv
    <3> QED BY <1>1, <2>1, <2>2, <3>1, <3>2 DEF ReadsInv, ViewsInv, Shown
  <2> QED BY <2>1, <2>2, <2>5 DEF ReadsInv, ContentInv, LinkIsAnswered
<1>5. CASE FollowLink
  <2> PICK s \in Slots :
        /\ views[s] # None /\ views[s].available
        /\ \/ /\ \E row \in artifacts : row.id = views[s].id
                                         /\ record' = [slot |-> s, row |-> row]
              /\ page' = "open"
              /\ UNCHANGED <<body, missed>>
           \/ /\ views[s].id \notin Ids
              /\ page' = "done" /\ body' = [status |-> 404]
              /\ UNCHANGED <<record, missed>>
           \/ /\ page' = "done" /\ body' = [status |-> 500]
              /\ missed' = TRUE
              /\ UNCHANGED record
    BY <1>5 DEF FollowLink
  <2>1. page = "record" /\ pending = {} /\ UNCHANGED <<refs, pending, views, handle>>
    BY <1>5 DEF FollowLink
  <2>2. views[s].id = refs[s] /\ refs[s] # None /\ refs[s] \in Ids /\ body = None
    BY <2>1 DEF ReadsInv, ViewsInv, ContentInv, Shown
  <2>3. \/ /\ page' = "open" /\ UNCHANGED <<body, missed>>
           /\ \E row \in artifacts : row.id = refs[s] /\ record' = [slot |-> s, row |-> row]
        \/ page' = "done" /\ missed'
    BY <2>2
  <2>4. ViewsInv'
    BY <1>1, <2>1, <2>3 DEF ReadsInv, ViewsInv, Shown
  <2>5. ContentInv'
    BY <1>1, <2>1, <2>2, <2>3 DEF ContentInv
  <2> QED BY <2>2, <2>3, <2>4, <2>5 DEF ReadsInv, LinkIsAnswered
<1>6. CASE OpenContent
  <2>1. /\ page = "open" /\ handle' = final[record.row.content]
        /\ UNCHANGED <<refs, pending, record, views, missed>>
    BY <1>6 DEF OpenContent
  <2>2. record.row \in artifacts /\ body = None
    BY <2>1 DEF ReadsInv, ContentInv
  <2>3. final[record.row.content] # None /\ FileOf(record.row.content, handle')
    BY <2>1, <2>2, FileOfRow
  <2>4. page' = "stream" /\ body' = body
    BY <1>6, <2>3 DEF OpenContent
  <2>5. ViewsInv'
    BY <1>1, <2>1, <2>4 DEF ReadsInv, ViewsInv, Shown
  <2>6. ContentInv'
    BY <1>1, <2>1, <2>2, <2>3, <2>4 DEF ReadsInv, ContentInv, FileOf
  <2> QED BY <2>2, <2>4, <2>5, <2>6 DEF ReadsInv, LinkIsAnswered
<1>7. CASE StreamContent
  <2>1. /\ page = "stream" /\ page' = "done"
        /\ body' = [status |-> 200, bytes |-> Decoded(handle, record.row.compression)]
        /\ UNCHANGED <<refs, pending, record, views, handle, missed>>
    BY <1>7 DEF StreamContent
  <2>2. /\ record.row \in artifacts /\ record.row.id = refs[record.slot]
        /\ FileOf(record.row.content, handle)
    BY <2>1 DEF ReadsInv, ContentInv
  <2>3. SingleEncoding(record.row.content)
          => Decoded(handle, record.row.compression) = record.row.content
    BY <2>2, DecodedFile
  <2>4. ViewsInv'
    BY <1>1, <2>1 DEF ReadsInv, ViewsInv, Shown
  <2>5. ContentInv'
    BY <2>1 DEF ContentInv
  <2>6. LinkIsAnswered'
    BY <2>1, <2>2, <2>3 DEF LinkIsAnswered, SingleEncoding
  <2> QED BY <2>4, <2>5, <2>6 DEF ReadsInv
<1> QED BY <1>2, <1>3, <1>4, <1>5, <1>6, <1>7 DEF Read

LEMMA ReadsAreInvariant == ReadsSpec => [](IInv /\ ReadsInv)
<1>1. Init /\ ReadsInit => IInv /\ ReadsInv
  BY InitIInv, InitReads
<1>2. IInv /\ ReadsInv /\ [ReadsNext]_<<vars, viewer>> => (IInv /\ ReadsInv)'
  <2> SUFFICES ASSUME IInv, ReadsInv, [ReadsNext]_<<vars, viewer>>
               PROVE  IInv' /\ ReadsInv'
    OBVIOUS
  <2>1. CASE [Next]_vars /\ UNCHANGED viewer
    BY <2>1, NextIInv, StoreKeepsReads
  <2>2. CASE Read /\ UNCHANGED vars
    <3>1. IInv'
      BY <2>2, NextIInv
    <3> QED BY <2>2, <3>1, ReadStep
  <2> HIDE DEF vars, viewer
  <2> QED BY <2>1, <2>2 DEF ReadsNext
<1> QED BY <1>1, <1>2, PTL DEF ReadsSpec

\* Unless a query fails, the page of a run shows every artifact that the run
\* references as available, whatever uploads do meanwhile, and a link of it is
\* answered with status 200 and, if the content is only ever sent in one encoding,
\* with the bytes that were uploaded.
THEOREM PageCanBeFetchedHolds == ReadsSpec => []PageCanBeFetched
<1>1. ReadsInv => PageCanBeFetched
  BY DEF ReadsInv, ViewsInv, Shown, PageCanBeFetched, PageIsComplete
<1> QED BY <1>1, ReadsAreInvariant, PTL
=============================================================================
