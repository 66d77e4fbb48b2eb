---------------------------- MODULE ArtifactStore ----------------------------
(***************************************************************************)
(* The content-addressed artifact store: `store_artifact` of               *)
(* src/artifact_store.rs as the HTTP handler `upload_artifact` runs it,     *)
(* with any number of uploads in flight at once.                            *)
(*                                                                          *)
(* An upload is a task with an `.await` between any two of the steps below, *)
(* so the steps of different uploads interleave freely.  Three places hold  *)
(* state: the temporary directory, the content-addressed tree below         *)
(* ARTIFACT_ROOT and the `artifacts` table; nothing locks them together.    *)
(*                                                                          *)
(* A content stands for the pair (sha256, size_bytes) of the original bytes *)
(* (SHA-256 is taken to be injective); a request's identity stands for the  *)
(* two fresh UUIDs it draws, the temporary file's name and the row's id.    *)
(***************************************************************************)

CONSTANTS
  Requests,   \* upload requests; each is issued at most once
  Contents,   \* original byte strings
  Kinds,      \* ArtifactKind
  LogKinds,   \* the kinds that ArtifactKind::compresses
  Uploads,    \* the <<content, kind>> pairs that clients may send
  None        \* no file, no answer

ASSUME UploadsAssumption == Uploads \subseteq Contents \X Kinds

\* A name that the column's CHECK (compression IN ('none', 'zstd')) refuses.
MutantEncoding(k) == IF k \in LogKinds THEN "zst" ELSE "none"

\* ArtifactKind::compresses, and the Compression a request derives from it.
Encoding(k) == IF k \in LogKinds THEN "zstd" ELSE "none"

\* A file: whose bytes it holds, how they are encoded, whether all are there.
Blob == [of : Contents, encoding : {"none", "zstd"}, whole : BOOLEAN]

\* A row of the `artifacts` table, and a StoredArtifact.
Row == [id : Requests, content : Contents, kind : Kinds,
        compression : {"none", "zstd"}]
Stored == [id : Requests, compression : {"none", "zstd"}]

ASSUME NoneAssumption == None \notin Blob \cup Stored \cup Uploads \cup Requests

VARIABLES
  pc,         \* where each request stands
  upload,     \* the <<content, kind>> it carries
  temporary,  \* its file below TEMPORARY_DIR
  final,      \* the file at each content's path below ARTIFACT_ROOT
  artifacts,  \* the `artifacts` table
  stored,     \* what store_artifact returned to the handler
  announced   \* ids that `artifact.created` events have named

files == <<temporary, final>>
vars  == <<pc, upload, files, artifacts, stored, announced>>

content(r) == upload[r][1]
kind(r)    == upload[r][2]

Running  == {"copying", "copied", "present", "absent", "unrenamed", "placed",
             "inserting", "conflict", "stored"}
Finished == {"created", "failed"}

TypeOK ==
  /\ pc \in [Requests -> {"idle"} \cup Running \cup Finished]
  /\ upload \in [Requests -> Uploads \cup {None}]
  /\ temporary \in [Requests -> Blob \cup {None}]
  /\ final \in [Contents -> Blob \cup {None}]
  /\ artifacts \subseteq Row
  /\ stored \in [Requests -> Stored \cup {None}]
  /\ announced \subseteq Requests

Init ==
  /\ pc = [r \in Requests |-> "idle"]
  /\ upload = [r \in Requests |-> None]
  /\ temporary = [r \in Requests |-> None]
  /\ final = [c \in Contents |-> None]
  /\ artifacts = {}
  /\ stored = [r \in Requests |-> None]
  /\ announced = {}

Goto(r, to)       == pc' = [pc EXCEPT ![r] = to]
Step(r, from, to) == pc[r] = from /\ Goto(r, to)

\* std::fs::remove_file: of an absent file it is an error.
RemoveTemp(r) == temporary' = [temporary EXCEPT ![r] = None]

\* `let _ = remove_file(..)`: the outcome, either way, is ignored.
RemoveTempBestEffort(r) == RemoveTemp(r) \/ UNCHANGED temporary

-----------------------------------------------------------------------------
(* Writing the temporary file *)

\* The request arrives with a valid kind and its temporary file is created.
Begin(r) ==
  /\ Step(r, "idle", "copying")
  /\ \E u \in Uploads :
       /\ upload' = [upload EXCEPT ![r] = u]
       /\ temporary' = [temporary EXCEPT ![r] =
            [of |-> u[1], encoding |-> Encoding(u[2]), whole |-> FALSE]]
  /\ UNCHANGED <<final, artifacts, stored, announced>>

\* copy_hashing reached the end of the body and shut the writer down.  A
\* temporary file that was unlinked meanwhile takes the bytes along with it.
CopyEnds(r) ==
  /\ Step(r, "copying", "copied")
  /\ temporary' = IF temporary[r] = None THEN temporary
                  ELSE [temporary EXCEPT ![r].whole = TRUE]
  /\ UNCHANGED <<upload, final, artifacts, stored, announced>>

\* A swallowed read error would pass a truncated file on.
MutantCopyFails(r) ==
  /\ Step(r, "copying", "copied")
  /\ UNCHANGED <<upload, files, artifacts, stored, announced>>

\* The body broke off or grew past the upload limit, or a write failed.
CopyFails(r) ==
  /\ Step(r, "copying", "failed")
  /\ RemoveTempBestEffort(r)
  /\ UNCHANGED <<upload, final, artifacts, stored, announced>>

-----------------------------------------------------------------------------
(* Placing it at the path its hash names *)

\* metadata(&final_path)
LookForFinal(r) ==
  /\ pc[r] = "copied"
  /\ Goto(r, IF final[content(r)] # None THEN "present" ELSE "absent")
  /\ UNCHANGED <<upload, files, artifacts, stored, announced>>

\* The content is there already: drop the redundant file.  This removal's
\* error is propagated.
DropTemp(r) ==
  /\ Step(r, "present", IF temporary[r] # None THEN "placed" ELSE "failed")
  /\ RemoveTemp(r)
  /\ UNCHANGED <<upload, final, artifacts, stored, announced>>

\* rename(2) replaces whatever is at the path by now.
Rename(r) ==
  /\ temporary[r] # None
  /\ Step(r, "absent", "placed")
  /\ final' = [final EXCEPT ![content(r)] = temporary[r]]
  /\ RemoveTemp(r)
  /\ UNCHANGED <<upload, artifacts, stored, announced>>

\* The temporary file is gone, or the file system refuses.
RenameFails(r) ==
  /\ Step(r, "absent", "unrenamed")
  /\ UNCHANGED <<upload, files, artifacts, stored, announced>>

\* Going on without looking for the file again.
MutantRecheckFinal(r) ==
  /\ Step(r, "unrenamed", "placed")
  /\ RemoveTempBestEffort(r)
  /\ UNCHANGED <<upload, final, artifacts, stored, announced>>

\* The failed rename is forgiven if another writer has landed the content.
RecheckFinal(r) ==
  /\ pc[r] = "unrenamed"
  /\ \/ /\ final[content(r)] # None
        /\ Goto(r, "placed")
        /\ RemoveTempBestEffort(r)
     \/ /\ final[content(r)] = None
        /\ Goto(r, "failed")
        /\ UNCHANGED temporary
  /\ UNCHANGED <<upload, final, artifacts, stored, announced>>

-----------------------------------------------------------------------------
(* The row *)

\* find_existing
RowsOf(c) == {row \in artifacts : row.content = c}

\* A statement that leaves `compression` to the column's DEFAULT 'none'.
MutantNewRow(r) ==
  [id |-> r, content |-> content(r), kind |-> kind(r), compression |-> "none"]

NewRow(r) == [id |-> r, content |-> content(r), kind |-> kind(r),
              compression |-> Encoding(kind(r))]

\* The StoredArtifact: the row's id, but the compression of this request.
Return(r, id) ==
  stored' = [stored EXCEPT ![r] =
    [id |-> id, compression |-> Encoding(kind(r))]]

\* find_existing before the insert
FindRow(r) ==
  /\ pc[r] = "placed"
  /\ \/ \E row \in RowsOf(content(r)) : Goto(r, "stored") /\ Return(r, row.id)
     \/ /\ RowsOf(content(r)) = {}
        /\ Goto(r, "inserting")
        /\ UNCHANGED stored
  /\ UNCHANGED <<upload, files, artifacts, announced>>

\* A table without UNIQUE (sha256, size_bytes).
MutantInsert(r) ==
  /\ Step(r, "inserting", "stored")
  /\ artifacts' = artifacts \cup {NewRow(r)}
  /\ Return(r, r)
  /\ UNCHANGED <<upload, files, announced>>

\* INSERT INTO artifacts, under UNIQUE (sha256, size_bytes)
Insert(r) ==
  /\ pc[r] = "inserting"
  /\ \/ /\ RowsOf(content(r)) = {}
        /\ Goto(r, "stored")
        /\ artifacts' = artifacts \cup {NewRow(r)}
        /\ Return(r, r)
     \/ /\ RowsOf(content(r)) # {}
        /\ Goto(r, "conflict")
        /\ UNCHANGED <<artifacts, stored>>
  /\ UNCHANGED <<upload, files, announced>>

\* The loser of the insert race answers with the id it drew itself.
MutantFindWinner(r) ==
  /\ Step(r, "conflict", "stored")
  /\ Return(r, r)
  /\ UNCHANGED <<upload, files, artifacts, announced>>

\* find_existing after a unique violation
FindWinner(r) ==
  /\ pc[r] = "conflict"
  /\ \/ \E row \in RowsOf(content(r)) : Goto(r, "stored") /\ Return(r, row.id)
     \/ /\ RowsOf(content(r)) = {}
        /\ Goto(r, "failed")
        /\ UNCHANGED stored
  /\ UNCHANGED <<upload, files, artifacts, announced>>

\* The handler publishes `artifact.created` and answers 201.
Respond(r) ==
  /\ Step(r, "stored", "created")
  /\ announced' = announced \cup {stored[r].id}
  /\ UNCHANGED <<upload, files, artifacts, stored>>

-----------------------------------------------------------------------------
(* Faults and maintenance *)

\* An I/O or database error that `?` propagates, a client that disconnects (the
\* handler's future is dropped) or a crash of the process, which is this step
\* for every running request: whatever is on disk stays as it is.
Abort(r) ==
  /\ pc[r] \in Running
  /\ pc' = [pc EXCEPT ![r] = "failed"]
  /\ UNCHANGED <<upload, files, artifacts, stored, announced>>

\* cleanup_abandoned_temp_files: any temporary file can be old enough, that of
\* a stalled upload too.
CleanTemp(r) ==
  /\ temporary[r] # None
  /\ RemoveTemp(r)
  /\ UNCHANGED <<pc, upload, final, artifacts, stored, announced>>

Serve(r) ==
  \/ Begin(r) \/ CopyEnds(r) \/ CopyFails(r)
  \/ LookForFinal(r) \/ DropTemp(r)
  \/ Rename(r) \/ RenameFails(r) \/ RecheckFinal(r)
  \/ FindRow(r) \/ Insert(r) \/ FindWinner(r) \/ Respond(r)

Next == \E r \in Requests : Serve(r) \/ Abort(r) \/ CleanTemp(r)

Spec == Init /\ [][Next]_vars

-----------------------------------------------------------------------------
(* Properties *)

\* open_artifact_content: the file is there and decoding it the way the row
\* says gives the original bytes.
Opens(row) ==
  final[row.content] =
    [of |-> row.content, encoding |-> row.compression, whole |-> TRUE]

\* Whatever is at a content's path is that content, complete, whether or not a
\* row names it yet: a later upload may adopt it unread (artifact_store.rs:291).
PathHoldsItsContent ==
  \A c \in Contents : final[c] # None => final[c].of = c /\ final[c].whole

\* No row without its file, under any interleaving, error, crash or cleanup
\* ("no database row is ever created for a file that failed to land").
RowHasItsFile == \A row \in artifacts : final[row.content] # None

\* Concurrent uploads of one content converge on one row.
OneRowPerContent ==
  \A row1, row2 \in artifacts : row1.content = row2.content => row1 = row2

\* Every id given to a client in a 201, or to a subscriber in an event, is the id of a
\* row, and the answer's row holds the content that was uploaded.
AnswersNameRows ==
  /\ \A r \in Requests : pc[r] \in {"stored", "created"} =>
       \E row \in artifacts : row.id = stored[r].id /\ row.content = content(r)
  /\ \A id \in announced : \E row \in artifacts : row.id = id

\* Only kinds of one encoding are ever sent for this content.
SingleEncoding(c) ==
  \A k1, k2 \in Kinds : <<c, k1>> \in Uploads /\ <<c, k2>> \in Uploads
                          => Encoding(k1) = Encoding(k2)

\* A row can be read back, as long as its content never arrives both as a log
\* kind and as another kind.
RowOpens == \A row \in artifacts : SingleEncoding(row.content) => Opens(row)

\* What docs/storage.md promises without that condition: "retrieval decompresses
\* transparently and incrementally, so a client never needs to know whether a
\* given artifact happens to be compressed on disk".
EveryRowOpens == \A row \in artifacts : Opens(row)

(* The strengthening that makes these inductive; checked by TLC, used by the
   proofs of ArtifactStoreProofs. *)

\* A request past Begin carries an allowed upload; its temporary file, if it
\* still has one, is that upload's and is complete once the copy has ended.
TemporaryInv ==
  \A r \in Requests :
    /\ pc[r] # "idle" => upload[r] \in Uploads
    /\ temporary[r] # None =>
         /\ pc[r] # "idle"
         /\ temporary[r].of = content(r)
         /\ temporary[r].encoding = Encoding(kind(r))
         /\ pc[r] \in {"copied", "present", "absent", "unrenamed"}
              => temporary[r].whole

\* A placed file is the content of its path, in the encoding of some upload.
FinalInv ==
  /\ PathHoldsItsContent
  /\ \A c \in Contents : final[c] # None =>
       \E k \in Kinds : <<c, k>> \in Uploads /\ final[c].encoding = Encoding(k)

\* From "placed" on, and where "present" has seen it, the file of the request's
\* content is there.
PlacedInv ==
  \A r \in Requests :
    pc[r] \in {"present", "placed", "inserting", "conflict", "stored", "created"}
      => final[content(r)] # None

\* A row describes the upload of the request that inserted it, which is past
\* its insert.
RowInv ==
  /\ RowHasItsFile
  /\ \A row \in artifacts :
       /\ <<row.content, row.kind>> \in Uploads
       /\ row.compression = Encoding(row.kind)
       /\ pc[row.id] \in {"stored", "created", "failed"}

\* A request is given its answer once, on its way to "stored".
StoredInv ==
  \A r \in Requests : stored[r] # None => pc[r] \in {"stored"} \cup Finished

IInv == /\ TypeOK /\ TemporaryInv /\ FinalInv /\ PlacedInv /\ RowInv /\ StoredInv
        /\ OneRowPerContent /\ AnswersNameRows

\* The registered id of a content.
RegisteredId(c) ==
  IF RowsOf(c) = {} THEN None ELSE (CHOOSE row \in RowsOf(c) : TRUE).id

Abstract == INSTANCE ContentStore WITH
  id     <- [c \in Contents |-> RegisteredId(c)],
  answer <- [r \in Requests |-> IF stored[r] = None THEN None ELSE stored[r].id]

\* Behind all its steps, races and faults the store is an atomic get-or-create
\* per content: an id, once registered, never changes or disappears, and every
\* caller that is given an id is given that one.
ImplementsContentStore == Abstract!Spec
=============================================================================
