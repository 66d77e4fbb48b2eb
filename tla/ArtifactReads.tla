---------------------------- MODULE ArtifactReads ----------------------------
(***************************************************************************)
(* Reading artifacts back while uploads go on: `build_run_response` of       *)
(* src/runs_api.rs, which looks up each artifact that a run references for   *)
(* the page of the run, and `stream_artifact_content` of                    *)
(* src/artifacts_api.rs, when the viewer follows a link of that page.       *)
(*                                                                         *)
(* Each takes a query, then a look at the file, with uploads placing files   *)
(* in between; the page and the content are two requests.                   *)
(***************************************************************************)
EXTENDS ArtifactStore

CONSTANT Slots  \* input_artifact, output_artifact, ...: a run's references

VARIABLES
  page,    \* where the viewer stands
  refs,    \* the ids that the run references
  pending, \* the slots that are yet to be looked up
  record,  \* the row that was fetched last
  views,   \* what the page shows of each slot
  handle,  \* the file that is open; it stays the same when its path is replaced
  body,    \* the answer to the request for the content
  missed   \* a query has failed

viewer == <<page, refs, pending, record, views, handle, body, missed>>

ReadsInit ==
  /\ page = "none"
  /\ refs = [s \in Slots |-> None]
  /\ pending = {}
  /\ record = None
  /\ views = [s \in Slots |-> None]
  /\ handle = None
  /\ body = None
  /\ missed = FALSE

Ids == {row.id : row \in artifacts}

-----------------------------------------------------------------------------
(* GET /api/v1/runs/{id} *)

\* get_run: the references are foreign keys, so each is the id of a row.
AskRun ==
  /\ page = "none"
  /\ page' = "record"
  /\ refs' \in [Slots -> Ids \cup {None}]
  /\ pending' = {s \in Slots : refs'[s] # None}
  /\ UNCHANGED <<record, views, handle, body, missed>>

\* artifact_view: get_artifact_record, whose error is no artifact at all.
FetchRecord ==
  /\ page = "record"
  /\ \E s \in pending :
       /\ pending' = pending \ {s}
       /\ \/ /\ \E row \in artifacts : row.id = refs[s] /\ record' = [slot |-> s, row |-> row]
             /\ page' = "stat"
             /\ UNCHANGED missed
          \/ missed' = TRUE /\ UNCHANGED <<page, record>>
  /\ UNCHANGED <<refs, views, handle, body>>

\* artifact_file_exists
StatRecord ==
  /\ page = "stat"
  /\ page' = "record"
  /\ views' = [views EXCEPT ![record.slot] =
       [id |-> record.row.id, available |-> final[record.row.content] # None]]
  /\ UNCHANGED <<refs, pending, record, handle, body, missed>>

\* The page is there; its links are to what it shows as available.
FollowLink ==
  /\ page = "record" /\ pending = {}
  /\ \E s \in Slots :
       /\ views[s] # None /\ views[s].available
       /\ \/ /\ \E row \in artifacts : row.id = views[s].id /\ record' = [slot |-> s, row |-> row]
             /\ page' = "open"
             /\ UNCHANGED <<body, missed>>
          \/ /\ views[s].id \notin Ids
             /\ page' = "done" /\ body' = [status |-> 404]
             /\ UNCHANGED <<record, missed>>
          \/ /\ page' = "done" /\ body' = [status |-> 500]
             /\ missed' = TRUE
             /\ UNCHANGED record
  /\ UNCHANGED <<refs, pending, views, handle>>

-----------------------------------------------------------------------------
(* GET /api/v1/artifacts/{id}/content and /download *)

OpenContent ==
  /\ page = "open"
  /\ handle' = final[record.row.content]
  /\ \/ /\ final[record.row.content] # None
        /\ page' = "stream"
        /\ UNCHANGED body
     \/ /\ final[record.row.content] = None
        /\ page' = "done" /\ body' = [status |-> 410]
  /\ UNCHANGED <<refs, pending, record, views, missed>>

\* The file as it is
MutantDecoded(file, compression) == IF file.encoding = "none" THEN file.of ELSE "encoded"

\* What comes out of the file, read as the row says.
Decoded(file, compression) ==
  IF compression = "zstd" /\ file.encoding = "none" THEN "error"
  ELSE IF compression = "none" /\ file.encoding = "zstd" THEN "encoded"
  ELSE IF file.whole THEN file.of ELSE "part"

StreamContent ==
  /\ page = "stream"
  /\ page' = "done"
  /\ body' = [status |-> 200, bytes |-> Decoded(handle, record.row.compression)]
  /\ UNCHANGED <<refs, pending, record, views, handle, missed>>

Read == AskRun \/ FetchRecord \/ StatRecord \/ FollowLink \/ OpenContent \/ StreamContent

\* Uploads that go on, and one viewer
ReadsNext == (Next /\ UNCHANGED viewer) \/ (Read /\ UNCHANGED vars)

ReadsSpec == Init /\ ReadsInit /\ [][ReadsNext]_<<vars, viewer>>

-----------------------------------------------------------------------------
(* Properties *)

\* The page shows each artifact that the run references, and as available.
PageIsComplete ==
  /\ page \in {"record", "open", "stream", "done"} /\ pending = {} /\ ~ missed =>
       \A s \in Slots :
         IF refs[s] = None THEN views[s] = None
         ELSE views[s] = [id |-> refs[s], available |-> TRUE]
  /\ \A s \in Slots : views[s] # None => views[s].id = refs[s] /\ views[s].available

\* The answer to its link is the artifact's, and the content that was uploaded, if
\* that never arrives both as a log kind and as another kind.
LinkIsAnswered ==
  body # None /\ ~ missed =>
    /\ body.status = 200
    /\ record.row.id = refs[record.slot]
    /\ SingleEncoding(record.row.content) => body.bytes = record.row.content

\* The page of a run shows each artifact that the run references, and as one
\* that can be fetched; and then it is fetched, with the bytes that were
\* uploaded, whatever uploads do to the store meanwhile.  There are two
\* exceptions.  A query that fails (missed) may cost the page an artifact, which
\* the dashboard then calls "not attached", or the content.  And of a content
\* that is sent under kinds of both encodings (SingleEncoding) the answer has the
\* status, but perhaps not the bytes: see EveryRowOpens.
PageCanBeFetched == PageIsComplete /\ LinkIsAnswered

(* What makes it inductive: a row and a file that have been seen stay.  Used by
   ArtifactReadersProofs. *)

Shown(s) == [id |-> refs[s], available |-> TRUE]

\* A file that some upload of the content has placed
FileOf(c, file) ==
  file.of = c /\ file.whole /\ \E k \in Kinds : <<c, k>> \in Uploads /\ file.encoding = Encoding(k)

ViewsInv ==
  /\ refs \in [Slots -> Ids \cup {None}] /\ DOMAIN views = Slots
  /\ pending \subseteq {s \in Slots : refs[s] # None}
  /\ page = "none" => pending = {} /\ \A s \in Slots : refs[s] = None
  /\ page \in {"open", "stream", "done"} => pending = {}
  /\ \A s \in Slots :
       /\ views[s] \in {None, Shown(s)}
       /\ refs[s] = None => views[s] = None
       /\ refs[s] # None /\ s \notin pending /\ ~ missed =>
            views[s] = Shown(s) \/ (page = "stat" /\ record.slot = s)

ContentInv ==
  /\ page \in {"stat", "open", "stream"} =>
       /\ record.slot \in Slots \ pending
       /\ record.row \in artifacts /\ record.row.id = refs[record.slot]
       /\ refs[record.slot] # None
  /\ page = "stream" => FileOf(record.row.content, handle)
  /\ page # "done" => body = None

ReadsInv == ViewsInv /\ ContentInv /\ LinkIsAnswered
=============================================================================
