------------------------- MODULE ArtifactStoreProofs -------------------------
(***************************************************************************)
(* Proofs about ArtifactStore, for any sets of requests, contents and       *)
(* kinds.  IInv is inductive; the invariants of ArtifactStore follow from   *)
(* it, and so does the refinement of ContentStore.                          *)
(***************************************************************************)
EXTENDS ArtifactStore, TLAPS

\* The component of an upload, once there is one.
LEMMA UploadParts ==
  ASSUME TypeOK, TemporaryInv, NEW r \in Requests, pc[r] # "idle"
  PROVE  /\ upload[r] \in Uploads
         /\ content(r) \in Contents
         /\ kind(r) \in Kinds
         /\ upload[r] = <<content(r), kind(r)>>
  BY UploadsAssumption DEF TemporaryInv, content, kind

LEMMA EncodingType == \A k : Encoding(k) \in {"none", "zstd"}
  BY DEF Encoding

LEMMA InitIInv == Init => IInv
  BY DEF Init, IInv, TypeOK, TemporaryInv, FinalInv, PlacedInv, RowInv,
         OneRowPerContent, AnswersNameRows, StoredInv, PathHoldsItsContent,
         RowHasItsFile, Running, Finished

\* Beginning an upload touches only the request's own entries.
LEMMA BeginIInv ==
  ASSUME IInv, NEW r \in Requests, Begin(r)
  PROVE  IInv'
  <1> USE DEF IInv, Begin, Step, Goto
  <1>1. PICK u \in Uploads :
          /\ upload' = [upload EXCEPT ![r] = u]
          /\ temporary' = [temporary EXCEPT ![r] =
               [of |-> u[1], encoding |-> Encoding(u[2]), whole |-> FALSE]]
    OBVIOUS
  <1>2. u[1] \in Contents /\ u[2] \in Kinds
    BY UploadsAssumption
  <1>3. [of |-> u[1], encoding |-> Encoding(u[2]), whole |-> FALSE] \in Blob
    BY <1>2, EncodingType DEF Blob
  <1>4. TypeOK'
    BY <1>1, <1>3 DEF TypeOK, Running
  <1>5. TemporaryInv'
    BY <1>1 DEF TypeOK, TemporaryInv, content, kind
  <1>6. FinalInv'
    BY DEF FinalInv, PathHoldsItsContent
  <1>7. PlacedInv'
    BY <1>1 DEF TypeOK, PlacedInv, content
  <1>8. RowInv'
    BY DEF TypeOK, RowInv, RowHasItsFile, Row
  <1>9. OneRowPerContent' /\ AnswersNameRows' /\ StoredInv'
    BY <1>1 DEF TypeOK, OneRowPerContent, AnswersNameRows, StoredInv, Finished, content
  <1> QED BY <1>4, <1>5, <1>6, <1>7, <1>8, <1>9

\* Ending the copy completes the temporary file.
LEMMA CopyEndsIInv ==
  ASSUME IInv, NEW r \in Requests, CopyEnds(r)
  PROVE  IInv'
  <1> USE DEF IInv, CopyEnds, Step, Goto, RemoveTemp
  <1>1. TypeOK'
    BY DEF TypeOK, Running, Finished, Blob
  <1>2. TemporaryInv'
    BY DEF TypeOK, TemporaryInv, content, kind, Blob
  <1>3. FinalInv'
    BY DEF FinalInv, PathHoldsItsContent
  <1>4. PlacedInv'
    BY DEF TypeOK, PlacedInv, content
  <1>5. RowInv'
    BY DEF TypeOK, RowInv, RowHasItsFile, Row
  <1>6. OneRowPerContent' /\ AnswersNameRows' /\ StoredInv'
    BY DEF TypeOK, OneRowPerContent, AnswersNameRows, StoredInv, Finished, content
  <1> QED BY <1>1, <1>2, <1>3, <1>4, <1>5, <1>6

\* A failed copy leaves at most a temporary file.
LEMMA CopyFailsIInv ==
  ASSUME IInv, NEW r \in Requests, CopyFails(r)
  PROVE  IInv'
  <1> USE DEF IInv, CopyFails, Step, Goto, RemoveTemp, RemoveTempBestEffort
  <1>1. TypeOK'
    BY DEF TypeOK, Running, Finished, Blob
  <1>2. TemporaryInv'
    BY DEF TypeOK, TemporaryInv, content, kind, Blob
  <1>3. FinalInv'
    BY DEF FinalInv, PathHoldsItsContent
  <1>4. PlacedInv'
    BY DEF TypeOK, PlacedInv, content
  <1>5. RowInv'
    BY DEF TypeOK, RowInv, RowHasItsFile, Row
  <1>6. OneRowPerContent' /\ AnswersNameRows' /\ StoredInv'
    BY DEF TypeOK, OneRowPerContent, AnswersNameRows, StoredInv, Finished, content
  <1> QED BY <1>1, <1>2, <1>3, <1>4, <1>5, <1>6

\* Looking for the final file changes no file.
LEMMA LookForFinalIInv ==
  ASSUME IInv, NEW r \in Requests, LookForFinal(r)
  PROVE  IInv'
  <1> USE DEF IInv, files, LookForFinal, Step, Goto, RemoveTemp
  <1>1. TypeOK'
    BY DEF TypeOK, Running, Finished, Blob
  <1>2. TemporaryInv'
    BY DEF TypeOK, TemporaryInv, content, kind, Blob
  <1>3. FinalInv'
    BY DEF FinalInv, PathHoldsItsContent
  <1>4. PlacedInv'
    BY DEF TypeOK, PlacedInv, content
  <1>5. RowInv'
    BY DEF TypeOK, RowInv, RowHasItsFile, Row
  <1>6. OneRowPerContent' /\ AnswersNameRows' /\ StoredInv'
    BY DEF TypeOK, OneRowPerContent, AnswersNameRows, StoredInv, Finished, content
  <1> QED BY <1>1, <1>2, <1>3, <1>4, <1>5, <1>6

\* Only the sight of the final file led here, and PlacedInv has remembered it.
LEMMA DropTempIInv ==
  ASSUME IInv, NEW r \in Requests, DropTemp(r)
  PROVE  IInv'
  <1> USE DEF IInv, DropTemp, Step, Goto, RemoveTemp
  <1>1. TypeOK'
    BY DEF TypeOK, Running, Finished, Blob
  <1>2. TemporaryInv'
    BY DEF TypeOK, TemporaryInv, content, kind, Blob
  <1>3. FinalInv'
    BY DEF FinalInv, PathHoldsItsContent
  <1>4. PlacedInv'
    BY DEF TypeOK, PlacedInv, content
  <1>5. RowInv'
    BY DEF TypeOK, RowInv, RowHasItsFile, Row
  <1>6. OneRowPerContent' /\ AnswersNameRows' /\ StoredInv'
    BY DEF TypeOK, OneRowPerContent, AnswersNameRows, StoredInv, Finished, content
  <1> QED BY <1>1, <1>2, <1>3, <1>4, <1>5, <1>6

\* The one step that writes below ARTIFACT_ROOT: the file it moves is complete
\* and its content is the path's.
LEMMA RenameIInv ==
  ASSUME IInv, NEW r \in Requests, Rename(r)
  PROVE  IInv'
  <1> USE DEF IInv, Rename, Step, Goto, RemoveTemp
  <1>0. /\ content(r) \in Contents /\ kind(r) \in Kinds
        /\ upload[r] = <<content(r), kind(r)>> /\ upload[r] \in Uploads
    BY UploadParts
  <1>1. /\ temporary[r] \in Blob /\ temporary[r] # None
        /\ temporary[r].of = content(r) /\ temporary[r].whole
        /\ temporary[r].encoding = Encoding(kind(r))
    BY DEF TypeOK, TemporaryInv
  <1>2. TypeOK'
    BY <1>0, <1>1 DEF TypeOK, Running
  <1>3. TemporaryInv'
    BY DEF TypeOK, TemporaryInv, content, kind
  <1>4. FinalInv'
    BY <1>0, <1>1 DEF TypeOK, FinalInv, PathHoldsItsContent
  <1>5. PlacedInv'
    BY <1>0, <1>1 DEF TypeOK, PlacedInv, content
  <1>6. RowInv'
    BY <1>0, <1>1 DEF TypeOK, RowInv, RowHasItsFile, Row
  <1>7. OneRowPerContent' /\ AnswersNameRows' /\ StoredInv'
    BY DEF TypeOK, OneRowPerContent, AnswersNameRows, StoredInv, Finished, content
  <1> QED BY <1>2, <1>3, <1>4, <1>5, <1>6, <1>7

\* A failed rename leaves both files as they are.
LEMMA RenameFailsIInv ==
  ASSUME IInv, NEW r \in Requests, RenameFails(r)
  PROVE  IInv'
  <1> USE DEF IInv, files, RenameFails, Step, Goto
  <1>1. TypeOK'
    BY DEF TypeOK, Running, Finished, Blob
  <1>2. TemporaryInv'
    BY DEF TypeOK, TemporaryInv, content, kind, Blob
  <1>3. FinalInv'
    BY DEF FinalInv, PathHoldsItsContent
  <1>4. PlacedInv'
    BY DEF TypeOK, PlacedInv, content
  <1>5. RowInv'
    BY DEF TypeOK, RowInv, RowHasItsFile, Row
  <1>6. OneRowPerContent' /\ AnswersNameRows' /\ StoredInv'
    BY DEF TypeOK, OneRowPerContent, AnswersNameRows, StoredInv, Finished, content
  <1> QED BY <1>1, <1>2, <1>3, <1>4, <1>5, <1>6

\* The rename is forgiven only where the file is.
LEMMA RecheckFinalIInv ==
  ASSUME IInv, NEW r \in Requests, RecheckFinal(r)
  PROVE  IInv'
  <1> USE DEF IInv, RecheckFinal, Goto, RemoveTempBestEffort, RemoveTemp
  <1>1. TypeOK'
    BY DEF TypeOK, Running, Finished, Blob
  <1>2. TemporaryInv'
    BY DEF TypeOK, TemporaryInv, content, kind, Blob
  <1>3. FinalInv'
    BY DEF FinalInv, PathHoldsItsContent
  <1>4. PlacedInv'
    BY DEF TypeOK, PlacedInv, content
  <1>5. RowInv'
    BY DEF TypeOK, RowInv, RowHasItsFile, Row
  <1>6. OneRowPerContent' /\ AnswersNameRows' /\ StoredInv'
    BY DEF TypeOK, OneRowPerContent, AnswersNameRows, StoredInv, Finished, content
  <1> QED BY <1>1, <1>2, <1>3, <1>4, <1>5, <1>6

\* The answer is an existing row of the content, or none yet.
LEMMA FindRowIInv ==
  ASSUME IInv, NEW r \in Requests, FindRow(r)
  PROVE  IInv'
  <1> USE DEF IInv, files, FindRow, Goto, Return
  <1>0. /\ content(r) \in Contents /\ kind(r) \in Kinds /\ Encoding(kind(r)) \in {"none", "zstd"}
        /\ upload[r] = <<content(r), kind(r)>> /\ upload[r] \in Uploads
    BY UploadParts, EncodingType
  <1>1. TypeOK'
    BY <1>0 DEF TypeOK, Running, Finished, RowsOf, Stored, Row
  <1>2. TemporaryInv'
    BY DEF TypeOK, TemporaryInv, content, kind
  <1>3. FinalInv'
    BY DEF FinalInv, PathHoldsItsContent
  <1>4. PlacedInv'
    BY DEF TypeOK, PlacedInv, content
  <1>5. RowInv'
    BY <1>0 DEF TypeOK, RowInv, RowHasItsFile, Row, RowsOf, PlacedInv, content
  <1>6. OneRowPerContent'
    BY <1>0 DEF TypeOK, OneRowPerContent, RowsOf, content
  <1>7. AnswersNameRows'
    BY <1>0 DEF TypeOK, AnswersNameRows, RowsOf, content, RowInv
  <1>8. StoredInv'
    BY DEF TypeOK, StoredInv, Finished
  <1> QED BY <1>1, <1>2, <1>3, <1>4, <1>5, <1>6, <1>7, <1>8

\* The row is new, and the file it stands for was there already.
LEMMA InsertIInv ==
  ASSUME IInv, NEW r \in Requests, Insert(r)
  PROVE  IInv'
  <1> USE DEF IInv, files, Insert, NewRow, Goto, Return
  <1>0. /\ content(r) \in Contents /\ kind(r) \in Kinds /\ Encoding(kind(r)) \in {"none", "zstd"}
        /\ upload[r] = <<content(r), kind(r)>> /\ upload[r] \in Uploads
    BY UploadParts, EncodingType
  <1>1. TypeOK'
    BY <1>0 DEF TypeOK, Running, Finished, RowsOf, Stored, Row
  <1>2. TemporaryInv'
    BY DEF TypeOK, TemporaryInv, content, kind
  <1>3. FinalInv'
    BY DEF FinalInv, PathHoldsItsContent
  <1>4. PlacedInv'
    BY DEF TypeOK, PlacedInv, content
  <1>5. RowInv'
    BY <1>0 DEF TypeOK, RowInv, RowHasItsFile, Row, RowsOf, PlacedInv, content
  <1>6. OneRowPerContent'
    BY <1>0 DEF TypeOK, OneRowPerContent, RowsOf, content
  <1>7. AnswersNameRows'
    <2>1. CASE RowsOf(content(r)) # {}
      BY <2>1 DEF TypeOK, AnswersNameRows, content
    <2>2. CASE RowsOf(content(r)) = {}
      <3>1. /\ artifacts' = artifacts \cup {NewRow(r)}
            /\ stored'[r].id = r
            /\ \A q \in Requests \ {r} : stored'[q] = stored[q] /\ pc'[q] = pc[q]
        BY <2>2 DEF TypeOK
      <3>2. \A q \in Requests : content(q)' = content(q)
        BY DEF content
      <3>3. NewRow(r).id = r /\ NewRow(r).content = content(r)
        OBVIOUS
      <3>4. ASSUME NEW q \in Requests, pc'[q] \in {"stored", "created"}
            PROVE  \E row \in artifacts' :
                     row.id = stored'[q].id /\ row.content = content(q)'
        <4>1. CASE q = r
          BY <4>1, <3>1, <3>2, <3>3
        <4>2. CASE q # r
          BY <4>2, <3>1, <3>2, <3>4 DEF AnswersNameRows
        <4> QED BY <4>1, <4>2
      <3>5. \A id \in announced' : \E row \in artifacts' : row.id = id
        BY <3>1 DEF AnswersNameRows
      <3> QED BY <3>4, <3>5 DEF AnswersNameRows
    <2> QED BY <2>1, <2>2
  <1>8. StoredInv'
    BY DEF TypeOK, StoredInv, Finished
  <1> QED BY <1>1, <1>2, <1>3, <1>4, <1>5, <1>6, <1>7, <1>8

\* The loser of the insert race answers with the winner's row.
LEMMA FindWinnerIInv ==
  ASSUME IInv, NEW r \in Requests, FindWinner(r)
  PROVE  IInv'
  <1> USE DEF IInv, files, FindWinner, Goto, Return
  <1>0. /\ content(r) \in Contents /\ kind(r) \in Kinds /\ Encoding(kind(r)) \in {"none", "zstd"}
        /\ upload[r] = <<content(r), kind(r)>> /\ upload[r] \in Uploads
    BY UploadParts, EncodingType
  <1>1. TypeOK'
    BY <1>0 DEF TypeOK, Running, Finished, RowsOf, Stored, Row
  <1>2. TemporaryInv'
    BY DEF TypeOK, TemporaryInv, content, kind
  <1>3. FinalInv'
    BY DEF FinalInv, PathHoldsItsContent
  <1>4. PlacedInv'
    BY DEF TypeOK, PlacedInv, content
  <1>5. RowInv'
    BY <1>0 DEF TypeOK, RowInv, RowHasItsFile, Row, RowsOf, PlacedInv, content
  <1>6. OneRowPerContent'
    BY <1>0 DEF TypeOK, OneRowPerContent, RowsOf, content
  <1>7. AnswersNameRows'
    BY <1>0 DEF TypeOK, AnswersNameRows, RowsOf, content, RowInv
  <1>8. StoredInv'
    BY DEF TypeOK, StoredInv, Finished
  <1> QED BY <1>1, <1>2, <1>3, <1>4, <1>5, <1>6, <1>7, <1>8

\* What is announced is the id of a row.
LEMMA RespondIInv ==
  ASSUME IInv, NEW r \in Requests, Respond(r)
  PROVE  IInv'
  <1> USE DEF IInv, files, Respond, Step, Goto
  <1>1. TypeOK'
    BY DEF TypeOK, Running, Finished, AnswersNameRows, Row
  <1>2. TemporaryInv'
    BY DEF TypeOK, TemporaryInv, content, kind, Blob
  <1>3. FinalInv'
    BY DEF FinalInv, PathHoldsItsContent
  <1>4. PlacedInv'
    BY DEF TypeOK, PlacedInv, content
  <1>5. RowInv'
    BY DEF TypeOK, RowInv, RowHasItsFile, Row
  <1>6. OneRowPerContent' /\ AnswersNameRows' /\ StoredInv'
    BY DEF TypeOK, OneRowPerContent, AnswersNameRows, StoredInv, Finished, content
  <1> QED BY <1>1, <1>2, <1>3, <1>4, <1>5, <1>6

\* A fault at any step leaves only what is allowed to be there.
LEMMA AbortIInv ==
  ASSUME IInv, NEW r \in Requests, Abort(r)
  PROVE  IInv'
  <1> USE DEF IInv, files, Running, Abort
  <1>1. TypeOK'
    BY DEF TypeOK, Running, Finished, Blob
  <1>2. TemporaryInv'
    BY DEF TypeOK, TemporaryInv, content, kind, Blob
  <1>3. FinalInv'
    BY DEF FinalInv, PathHoldsItsContent
  <1>4. PlacedInv'
    BY DEF TypeOK, PlacedInv, content
  <1>5. RowInv'
    BY DEF TypeOK, RowInv, RowHasItsFile, Row
  <1>6. OneRowPerContent' /\ AnswersNameRows' /\ StoredInv'
    BY DEF TypeOK, OneRowPerContent, AnswersNameRows, StoredInv, Finished, content
  <1> QED BY <1>1, <1>2, <1>3, <1>4, <1>5, <1>6

\* The cleanup may take a temporary file from a running upload.
LEMMA CleanTempIInv ==
  ASSUME IInv, NEW r \in Requests, CleanTemp(r)
  PROVE  IInv'
  <1> USE DEF IInv, CleanTemp, RemoveTemp
  <1>1. TypeOK'
    BY DEF TypeOK, Running, Finished, Blob
  <1>2. TemporaryInv'
    BY DEF TypeOK, TemporaryInv, content, kind, Blob
  <1>3. FinalInv'
    BY DEF FinalInv, PathHoldsItsContent
  <1>4. PlacedInv'
    BY DEF TypeOK, PlacedInv, content
  <1>5. RowInv'
    BY DEF TypeOK, RowInv, RowHasItsFile, Row
  <1>6. OneRowPerContent' /\ AnswersNameRows' /\ StoredInv'
    BY DEF TypeOK, OneRowPerContent, AnswersNameRows, StoredInv, Finished, content
  <1> QED BY <1>1, <1>2, <1>3, <1>4, <1>5, <1>6

-----------------------------------------------------------------------------

LEMMA NextIInv == IInv /\ [Next]_vars => IInv'
  <1> SUFFICES ASSUME IInv, [Next]_vars PROVE IInv'
    OBVIOUS
  <1>1. ASSUME NEW r \in Requests, Serve(r) PROVE IInv'
    BY <1>1, BeginIInv, CopyEndsIInv, CopyFailsIInv, LookForFinalIInv, DropTempIInv,
       RenameIInv, RenameFailsIInv, RecheckFinalIInv, FindRowIInv, InsertIInv,
       FindWinnerIInv, RespondIInv DEF Serve
  <1>2. CASE UNCHANGED vars
    BY <1>2 DEF vars, files, IInv, TypeOK, TemporaryInv, FinalInv, PlacedInv, RowInv,
       OneRowPerContent, AnswersNameRows, StoredInv, PathHoldsItsContent, RowHasItsFile,
       RowsOf, content, kind
  <1> QED BY <1>1, <1>2, AbortIInv, CleanTempIInv DEF Next

\* The inductive invariant, for every set of requests, contents and kinds.
THEOREM Inductive == Spec => []IInv
  BY InitIInv, NextIInv, PTL DEF Spec

\* Type correctness.
THEOREM TypeCorrect == Spec => []TypeOK
  <1>1. IInv => TypeOK
    BY DEF IInv
  <1> QED BY <1>1, Inductive, PTL

\* What lies at a content's path is that content, complete.
THEOREM PathsHoldTheirContent == Spec => []PathHoldsItsContent
  <1>1. IInv => PathHoldsItsContent
    BY DEF IInv, FinalInv
  <1> QED BY <1>1, Inductive, PTL

\* No row is ever without its file.
THEOREM RowsHaveFiles == Spec => []RowHasItsFile
  <1>1. IInv => RowHasItsFile
    BY DEF IInv, RowInv
  <1> QED BY <1>1, Inductive, PTL

\* Uploads of one content converge on one row.
THEOREM Converges == Spec => []OneRowPerContent
  <1>1. IInv => OneRowPerContent
    BY DEF IInv
  <1> QED BY <1>1, Inductive, PTL

\* Clients and subscribers are only ever given ids of rows, and a client that of
\* the row of its content.
THEOREM AnswersAreRows == Spec => []AnswersNameRows
  <1>1. IInv => AnswersNameRows
    BY DEF IInv
  <1> QED BY <1>1, Inductive, PTL

\* A row whose content only ever arrives in one encoding opens.
THEOREM SingleEncodingOpens == Spec => []RowOpens
  <1>1. IInv => RowOpens
    <2> SUFFICES ASSUME IInv, NEW row \in artifacts, SingleEncoding(row.content)
                 PROVE  Opens(row)
      BY DEF RowOpens
    <2>1. /\ row \in Row /\ <<row.content, row.kind>> \in Uploads
          /\ row.compression = Encoding(row.kind) /\ final[row.content] # None
      BY DEF IInv, TypeOK, RowInv, RowHasItsFile
    <2>2. /\ final[row.content] \in Blob
          /\ final[row.content].of = row.content /\ final[row.content].whole = TRUE
      BY <2>1 DEF IInv, TypeOK, FinalInv, PathHoldsItsContent, Row, Blob
    <2>3. PICK k \in Kinds : /\ <<row.content, k>> \in Uploads
                             /\ final[row.content].encoding = Encoding(k)
      BY <2>1 DEF IInv, FinalInv, Row
    <2>4. final[row.content].encoding = row.compression
      BY <2>1, <2>3 DEF SingleEncoding, Row
    <2> QED BY <2>2, <2>4 DEF Opens, Blob
  <1> QED BY <1>1, Inductive, PTL
-----------------------------------------------------------------------------
(* The refinement of ContentStore *)

LEMMA RegisteredIdOf ==
  ASSUME OneRowPerContent, NEW row \in artifacts
  PROVE  RegisteredId(row.content) = row.id
  <1>1. RowsOf(row.content) = {row}
    BY DEF RowsOf, OneRowPerContent
  <1> QED BY <1>1 DEF RegisteredId

\* Where the table stays as it is, so do the registered ids.
LEMMA RegisteredIdSame ==
  ASSUME artifacts' = artifacts, NEW c PROVE RegisteredId(c)' = RegisteredId(c)
  BY DEF RegisteredId, RowsOf

\* A request that finds a row of its content takes the abstract step that
\* returns the registered id.
LEMMA FindIsStore ==
  ASSUME IInv, NEW r \in Requests, NEW c \in Contents, c = content(r),
         pc[r] \in {"placed", "conflict"},
         NEW row \in RowsOf(c), Return(r, row.id), UNCHANGED artifacts
  PROVE  Abstract!Store(r, c)
  <1>1. stored[r] = None
    BY DEF IInv, StoredInv, Finished
  <1>2. /\ row \in artifacts /\ row.content = c
        /\ row.id \in Requests /\ row.id # None
    BY NoneAssumption DEF IInv, TypeOK, RowsOf, Row
  <1>3. RegisteredId(c) = row.id
    BY <1>2, RegisteredIdOf DEF IInv
  <1>4. \A d \in Contents : RegisteredId(d)' = RegisteredId(d)
    BY RegisteredIdSame
  <1>5. /\ stored'[r].id = row.id /\ stored'[r] # None
        /\ \A q \in Requests \ {r} : stored'[q] = stored[q]
    <2>1. [id |-> row.id, compression |-> Encoding(kind(r))] \in Stored
      BY <1>2, EncodingType DEF Stored
    <2> QED BY <2>1, NoneAssumption DEF Return, IInv, TypeOK
  <1> QED BY <1>1, <1>2, <1>3, <1>4, <1>5 DEF Abstract!Store

\* The insert that succeeds takes the abstract step that registers an id.
LEMMA InsertIsStore ==
  ASSUME IInv, NEW r \in Requests, NEW c \in Contents, c = content(r), Return(r, r),
         pc[r] = "inserting", RowsOf(c) = {}, artifacts' = artifacts \cup {NewRow(r)}
  PROVE  Abstract!Store(r, c)
  <1>1. stored[r] = None
    BY DEF IInv, StoredInv, Finished
  <1>2. RegisteredId(c) = None
    BY DEF RegisteredId
  <1>3. NewRow(r).id = r /\ NewRow(r).content = c
    BY DEF NewRow
  <1>4. ASSUME NEW d \in Contents, d # c PROVE RegisteredId(d)' = RegisteredId(d)
    <2>1. RowsOf(d)' = RowsOf(d)
      BY <1>3, <1>4 DEF RowsOf
    <2> QED BY <2>1 DEF RegisteredId
  <1>5. RegisteredId(c)' = r
    <2>1. RowsOf(c)' = {NewRow(r)}
      BY <1>3 DEF RowsOf
    <2> QED BY <2>1, <1>3 DEF RegisteredId
  <1>6. /\ stored'[r].id = r /\ stored'[r] # None
        /\ \A q \in Requests \ {r} : stored'[q] = stored[q]
    <2>1. [id |-> r, compression |-> Encoding(kind(r))] \in Stored
      BY EncodingType DEF Stored
    <2> QED BY <2>1, NoneAssumption DEF Return, IInv, TypeOK
  <1> QED BY <1>1, <1>2, <1>4, <1>5, <1>6, NoneAssumption DEF Abstract!Store

\* Every step of the store is one atomic get-or-create or changes nothing that
\* a caller can tell.
LEMMA StepRefines ==
  ASSUME IInv, IInv', [Next]_vars
  PROVE  [Abstract!Next]_<<[c \in Contents |-> RegisteredId(c)],
           [r \in Requests |-> IF stored[r] = None THEN None ELSE stored[r].id]>>
  <1> DEFINE same == artifacts' = artifacts /\ stored' = stored
  <1>1. ASSUME same
        PROVE UNCHANGED <<[c \in Contents |-> RegisteredId(c)],
                [r \in Requests |-> IF stored[r] = None THEN None ELSE stored[r].id]>>
    BY <1>1, RegisteredIdSame
  <1>2. ASSUME NEW r \in Requests, NEW c \in Contents, Abstract!Store(r, c)
        PROVE  Abstract!Next
    BY <1>2 DEF Abstract!Next
  <1>3. ASSUME NEW r \in Requests, Serve(r) PROVE same \/ Abstract!Next
    <2>1. ASSUME pc[r] # "idle"
          PROVE  \E c \in Contents : c = content(r)
      BY <2>1, UploadParts DEF IInv
    <2>2. CASE FindRow(r)
      <3>1. PICK c \in Contents : c = content(r)
        BY <2>1, <2>2 DEF FindRow
      <3> QED BY <2>2, <3>1, <1>2, FindIsStore DEF FindRow, Goto
    <2>3. CASE FindWinner(r)
      <3>1. PICK c \in Contents : c = content(r)
        BY <2>1, <2>3 DEF FindWinner
      <3> QED BY <2>3, <3>1, <1>2, FindIsStore DEF FindWinner, Goto
    <2>4. CASE Insert(r)
      <3>1. PICK c \in Contents : c = content(r)
        BY <2>1, <2>4 DEF Insert
      <3> QED BY <2>4, <3>1, <1>2, InsertIsStore DEF Insert, Goto
    <2> QED
      BY <1>3, <2>2, <2>3, <2>4 DEF Serve, Begin, CopyEnds, CopyFails, LookForFinal,
         DropTemp, Rename, RenameFails, RecheckFinal, Respond
  <1>4. ASSUME NEW r \in Requests, Abort(r) \/ CleanTemp(r) PROVE same
    BY <1>4 DEF Abort, CleanTemp
  <1>5. CASE UNCHANGED vars
    BY <1>5, <1>1 DEF vars
  <1> QED BY <1>1, <1>3, <1>4, <1>5 DEF Next

\* For every set of requests and contents, concurrent uploads, faults and
\* cleanups included, the store is an atomic get-or-create per content.
THEOREM Refines == Spec => ImplementsContentStore
  <1>1. Init => Abstract!Init
    BY DEF Init, Abstract!Init, RegisteredId, RowsOf
  <1>2. IInv /\ IInv' /\ [Next]_vars =>
          [Abstract!Next]_<<[c \in Contents |-> RegisteredId(c)],
            [r \in Requests |-> IF stored[r] = None THEN None ELSE stored[r].id]>>
    BY StepRefines
  <1> QED BY <1>1, <1>2, Inductive, PTL DEF Spec, ImplementsContentStore, Abstract!Spec
=============================================================================
