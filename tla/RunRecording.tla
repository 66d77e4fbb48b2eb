----------------------------- MODULE RunRecording -----------------------------
(***************************************************************************)
(* The HTTP write path of a run: `create_run` of src/runs_write_api.rs and   *)
(* `insert_run` of src/runs.rs, called by collectors that retry.             *)
(*                                                                         *)
(* A handler validates, looks up the references one query after another,    *)
(* inserts, publishes and reads back, with an `.await` between any two, and  *)
(* is dropped at any of them when its client goes away or the process dies.  *)
(* A collector cannot tell a lost request from a lost answer; it sends the   *)
(* request again, perhaps while the handler of the first one still runs, and *)
(* it corrects the field that a refusal names.                              *)
(***************************************************************************)
EXTENDS HostRules, FiniteSets

CONSTANTS
  Collectors,     \* programs that each have one run to record
  Draws,          \* the run ids of each: the one it keeps, or one for every call
  Requests,       \* what they may start from: a request of each
  References,     \* ids of model assets and artifacts
  PreviewLength,  \* OUTPUT_PREVIEW_LENGTH
  MaxFaults,      \* bound on the faults of one behaviour
  None            \* no request, no answer

Ids == UNION {Draws[c] : c \in Collectors}

\* The fields of a request that `to_new_run` checks, beside those of the host.
EarlyOrder == <<"platform", "device_class", "exit_status", "correctness_result",
  "repetition", "command_args", "input_parameters", "env_vars", "device_serial",
  "git_commit_sha">>
LateOrder == <<"executable_sha256", "prompt_sha256", "input_token_count",
  "output_token_count", "prefill_tokens_per_sec", "decode_tokens_per_sec">>
RefOrder == <<"model_asset_id", "input_artifact_id", "output_artifact_id",
  "stdout_artifact_id", "stderr_artifact_id", "crash_artifact_id">>

Fields(order) == {order[i] : i \in DOMAIN order}

Early == Fields(EarlyOrder)
Late  == Fields(LateOrder)
Ref   == Fields(RefOrder)
Body  == Early \cup Late \cup {"output_preview"}

Enumeration(f) ==
  CASE f = "platform"           -> Platforms
    [] f = "device_class"       -> Classes
    [] f = "exit_status"        -> Statuses
    [] f = "correctness_result" -> Correctness

Enumerated == {"platform", "device_class", "exit_status", "correctness_result"}
Counts     == {"repetition", "input_token_count", "output_token_count",
               "prefill_tokens_per_sec", "decode_tokens_per_sec"}
Digests    == {"executable_sha256", "prompt_sha256"}
Optional   == {"executable_sha256", "decode_tokens_per_sec", "output_preview"}

VARIABLES
  wanted,     \* the request of each collector, as far as it has been corrected
  drawn,      \* the ids it has sent it under
  client,     \* where the collector stands
  latest,     \* the slot of its latest call
  at,         \* where the handler of each call stands
  sent,       \* the request the call carries
  under,      \* and its run id
  unchecked,  \* the references it has still to look up
  answer,     \* what it answered: a status, and the field it names
  table,      \* the `runs` table
  announced,  \* how often `run.created` has named each id
  existing,   \* the references that name a row
  faults

collector     == <<wanted, drawn, client, latest>>
calls         == <<at, sent, under, unchecked, answer>>
recordingVars == <<collector, calls, table, announced, existing, faults>>

\* Two calls of a collector may be in flight at once.
Calls == Collectors \X {1, 2}

Underway == {"sent", "checking", "inserting", "publishing", "reading"}

Answer(status, field) == [status |-> status, field |-> field]

\* A body that is parsed has every field it must have, of its JSON type.
IsRequest(q) ==
  /\ q = [form |-> q.form, body |-> [f \in Body |-> q.body[f]], host |-> q.host,
          refs |-> q.refs]
  /\ q.host \in HostInput
  /\ q.refs \in [Ref -> References \cup {Absent}] /\ q.refs["model_asset_id"] # Absent
  /\ \A f \in Body \ Optional : q.body[f] # Absent
  /\ \A f \in Counts : q.body[f] \in Value

RecordingTypeOK ==
  /\ DOMAIN wanted = Collectors /\ DOMAIN sent = Calls /\ DOMAIN answer = Calls
  /\ \A c \in Collectors : IsRequest(wanted[c]) /\ drawn[c] \subseteq Draws[c]
  /\ drawn \in [Collectors -> SUBSET Ids]
  /\ client \in [Collectors -> {"off", "ready", "waiting", "confirming", "done", "abandoned"}]
  /\ latest \in [Collectors -> {1, 2}]
  /\ at \in [Calls -> {"unused", "answered", "dropped"} \cup Underway]
  /\ under \in [Calls -> Ids \cup {None}]
  /\ unchecked \in [Calls -> SUBSET Ref]
  /\ \A r \in table : r.id \in Ids
  /\ announced \in [Ids -> Nat]
  /\ existing \subseteq References
  /\ faults \in Nat

RecordingInit ==
  /\ wanted \in Requests
  /\ DOMAIN wanted = Collectors /\ \A c \in Collectors : IsRequest(wanted[c])
  /\ drawn = [c \in Collectors |-> {}]
  /\ client \in [Collectors -> {"off", "ready"}]
  /\ latest = [c \in Collectors |-> 1]
  /\ at = [k \in Calls |-> "unused"]
  /\ sent = [k \in Calls |-> None]
  /\ under = [k \in Calls |-> None]
  /\ unchecked = [k \in Calls |-> {}]
  /\ answer = [k \in Calls |-> None]
  /\ table = {}
  /\ announced = [i \in Ids |-> 0]
  /\ existing \in SUBSET References
  /\ faults = 0

Proceed(k, to) == at' = [at EXCEPT ![k] = to]
Client(c, to)  == client' = [client EXCEPT ![c] = to]

\* The handler ends with this answer.
Respond(k, status, field) ==
  /\ Proceed(k, "answered")
  /\ answer' = [answer EXCEPT ![k] = Answer(status, field)]
  /\ sent' = [sent EXCEPT ![k] = None]
  /\ unchecked' = [unchecked EXCEPT ![k] = {}]

Fault == faults < MaxFaults /\ faults' = faults + 1

-----------------------------------------------------------------------------
(* to_new_run: the fields, in their order *)

BodyInvalid(f, v) ==
  \/ f \in Enumerated /\ v \notin Enumeration(f)
  \/ f \in Counts /\ v # Absent /\ v < 0
  \/ f \in Digests /\ v \notin {Absent, "hex64"}
  \/ f = "command_args" /\ v # "strings"
  \/ f \in {"input_parameters", "env_vars"} /\ v # "object"
  \/ f \in {"device_serial", "git_commit_sha"} /\ v = "blank"

Invalid(req, S) == {f \in S : BodyInvalid(f, req.body[f])}

HostOk(req) == HostAccepts(req.host, req.body["platform"], req.body["device_class"])

Accepts(req) ==
  /\ req.form = "ok"
  /\ Invalid(req, Early \cup Late) = {}
  /\ HostOk(req)

\* The refusal names this field.
ErrorField(f, req) ==
  IF Invalid(req, Early) # {} THEN First(f, EarlyOrder, Invalid(req, Early))
  ELSE IF ~ HostOk(req)
       THEN HostError(f, req.host, req.body["platform"], req.body["device_class"])
       ELSE First(f, LateOrder, Invalid(req, Late))

\* output_preview: the first characters of the text, which is its length here
Preview(length) ==
  IF length # Absent /\ length > PreviewLength THEN PreviewLength ELSE length

\* What insert_run stores of a request, and what row_to_run makes of it.
Row(i, req) ==
  [id      |-> i,
   body    |-> [req.body EXCEPT !["output_preview"] = Preview(@)],
   columns |-> Columns(HostState(req.host, req.body["platform"])),
   refs    |-> req.refs]

ReadsAs(row, req) ==
  /\ Readable(row.columns, row.body["platform"])
  /\ Columns(FromRow(row.columns, row.body["platform"])) = req.host
  /\ row.body = [req.body EXCEPT !["output_preview"] = Preview(@)]
  /\ row.refs = req.refs

\* The table's CHECK and NOT NULL constraints on the columns of the body
BodyAllows(f, v) ==
  /\ f \in Body \ Optional => v # Absent
  /\ f \in Enumerated => v \in Enumeration(f)
  /\ f \in Counts /\ v # Absent => v >= 0
  /\ f \in Digests => v \in {Absent, "hex64", "HEX64"}

ChecksHold(row) ==
  /\ \A f \in Body : BodyAllows(f, row.body[f])
  /\ TableAllows(row.columns, row.body["platform"], row.body["device_class"])

ReferencesHold(row) == \A f \in Ref : row.refs[f] \in existing \cup {Absent}

-----------------------------------------------------------------------------
(* create_run *)

\* Looking up the model only
MutantReferenced(req) == {"model_asset_id"}

Referenced(req) == Given(req.refs, Ref)

\* The body is read and parsed; then nothing is awaited until the first query.
Receive(k) ==
  /\ at[k] = "sent"
  /\ \/ /\ sent[k].form = "oversized"
        /\ Respond(k, 413, "none")
     \/ /\ sent[k].form = "malformed"
        /\ Respond(k, 400, "none")
     \/ /\ sent[k].form = "ok" /\ ~ Accepts(sent[k])
        /\ \E f \in Early \cup Late \cup HostField :
             ErrorField(f, sent[k]) /\ Respond(k, 400, f)
     \/ /\ Accepts(sent[k])
        /\ Proceed(k, "checking")
        /\ unchecked' = [unchecked EXCEPT ![k] = Referenced(sent[k])]
        /\ UNCHANGED <<sent, answer>>
  /\ UNCHANGED <<collector, under, table, announced, existing, faults>>

\* check_references, one query
LookUp(k) ==
  /\ at[k] = "checking"
  /\ \E f \in unchecked[k] :
       /\ First(f, RefOrder, unchecked[k])
       /\ \/ /\ sent[k].refs[f] \notin existing
             /\ Respond(k, 400, f)
          \/ /\ sent[k].refs[f] \in existing
             /\ unchecked' = [unchecked EXCEPT ![k] = @ \ {f}]
             /\ Proceed(k, IF unchecked[k] = {f} THEN "inserting" ELSE "checking")
             /\ UNCHANGED <<sent, answer>>
  /\ UNCHANGED <<collector, under, table, announced, existing, faults>>

\* INSERT OR IGNORE
MutantConflict(k) ==
  Proceed(k, "publishing") /\ UNCHANGED <<sent, unchecked, answer, table>>

\* INSERT OR REPLACE
MutantReplace(k) ==
  /\ Proceed(k, "publishing")
  /\ table' = {r \in table : r.id # under[k]} \cup {Row(under[k], sent[k])}
  /\ UNCHANGED <<sent, unchecked, answer>>

Conflict(k) == Respond(k, 409, "none") /\ UNCHANGED table

Taken(i) == \E r \in table : r.id = i

\* insert_run: its own check, then the constraints of the table
Insert(k) ==
  /\ at[k] = "inserting"
  /\ LET req   == sent[k]
         row   == Row(under[k], req)
         whole == req.body["platform"] = "android" /\ req.body["device_class"] = "internal"
                    => IsCompleteLabSnapshot(HostState(req.host, "android"))
     IN \/ /\ ~ (whole /\ ChecksHold(row))
           /\ Respond(k, 500, "constraint")
           /\ UNCHANGED table
        \/ /\ whole /\ ChecksHold(row) /\ Taken(row.id)
           /\ Conflict(k)
        \/ /\ whole /\ ChecksHold(row) /\ ~ Taken(row.id) /\ ~ ReferencesHold(row)
           /\ Respond(k, 400, "constraint")
           /\ UNCHANGED table
        \/ /\ whole /\ ChecksHold(row) /\ ~ Taken(row.id) /\ ReferencesHold(row)
           /\ Proceed(k, "publishing")
           /\ table' = table \cup {row}
           /\ UNCHANGED <<sent, unchecked, answer>>
  /\ UNCHANGED <<collector, under, announced, existing, faults>>

Publish(k) ==
  /\ at[k] = "publishing"
  /\ Proceed(k, "reading")
  /\ announced' = [announced EXCEPT ![under[k]] = @ + 1]
  /\ UNCHANGED <<collector, sent, under, unchecked, answer, table, existing, faults>>

\* get_run, for the body of the answer
ReadBack(k) ==
  /\ at[k] = "reading"
  /\ \E r \in table :
       /\ r.id = under[k]
       /\ Respond(k, IF Readable(r.columns, r.body["platform"]) THEN 201 ELSE 500, "none")
  /\ UNCHANGED <<collector, under, table, announced, existing, faults>>

\* A query fails: an error of the database, or no connection in time.
QueryFails(k) ==
  /\ at[k] \in {"checking", "inserting", "reading"}
  /\ Fault
  /\ Respond(k, 500, "none")
  /\ UNCHANGED <<collector, under, table, announced, existing>>

\* The future is dropped, its client having gone, or the process dies, which is
\* this step for every call.
Drop(k) ==
  /\ at[k] \in Underway
  /\ Fault
  /\ Proceed(k, "dropped")
  /\ sent' = [sent EXCEPT ![k] = None]
  /\ unchecked' = [unchecked EXCEPT ![k] = {}]
  /\ UNCHANGED <<collector, under, answer, table, announced, existing>>

Handle(k) == Receive(k) \/ LookUp(k) \/ Insert(k) \/ Publish(k) \/ ReadBack(k)

-----------------------------------------------------------------------------
(* Collectors: docs/collector.md, examples/post_run.py *)

\* "Because you chose the `id`, just retry the same body"; post_run.py draws
\* another one each time it is run.
NextIds(c) == IF Cardinality(Draws[c]) = 1 THEN Draws[c] ELSE Draws[c] \ drawn[c]

Send(c) ==
  /\ client[c] = "ready"
  /\ Client(c, "waiting")
  /\ \E s \in {1, 2}, i \in NextIds(c) :
       /\ at[<<c, s>>] \notin Underway
       /\ Proceed(<<c, s>>, "sent")
       /\ sent' = [sent EXCEPT ![<<c, s>>] = wanted[c]]
       /\ under' = [under EXCEPT ![<<c, s>>] = i]
       /\ answer' = [answer EXCEPT ![<<c, s>>] = None]
       /\ latest' = [latest EXCEPT ![c] = s]
       /\ drawn' = [drawn EXCEPT ![c] = @ \cup {i}]
  /\ UNCHANGED <<wanted, unchecked, table, announced, existing, faults>>

\* A valid value for the field, as the documentation gives it
Corrected(req, f) ==
  CASE f \in HostField ->
         [req EXCEPT !.host[f] =
            IF req.body["platform"] = "linux" /\ f \in PhoneOnly THEN Absent ELSE 1]
    [] f \in Early \cup Late ->
         [req EXCEPT !.body[f] =
            CASE f \in Enumerated         -> CHOOSE v \in Enumeration(f) : TRUE
              [] f \in Counts             -> 0
              [] f \in Digests            -> "hex64"
              [] f = "command_args"       -> "strings"
              [] f \in {"input_parameters", "env_vars"}    -> "object"
              [] f \in {"device_serial", "git_commit_sha"} -> "text"]

Correct(c, f) ==
  wanted' = [wanted EXCEPT ![c] = Corrected(@, f)] /\ UNCHANGED existing

Store(id) == existing' = existing \cup {id} /\ UNCHANGED wanted

\* The answer: a refusal is corrected in the field it names, or by storing what
\* it says is missing; "treat 409 as success" and confirm or not.
Learn(c) ==
  LET k == <<c, latest[c]>>
      reply == answer[k]
  IN /\ client[c] = "waiting" /\ at[k] = "answered"
     /\ \/ /\ reply.status = 201
           /\ Client(c, "done")
           /\ UNCHANGED <<wanted, existing>>
        \/ /\ reply.status = 409
           /\ Client(c, "done") \/ Client(c, "confirming")
           /\ UNCHANGED <<wanted, existing>>
        \/ /\ reply.status = 500
           /\ Client(c, "ready")
           /\ UNCHANGED <<wanted, existing>>
        \/ /\ reply.status \in {413, 400} /\ reply.field \notin Ref \cup Early \cup Late \cup HostField
           /\ Client(c, "abandoned")
           /\ UNCHANGED <<wanted, existing>>
        \/ /\ reply.status = 400 /\ reply.field \in Ref
           /\ Client(c, "ready")
           /\ Store(wanted[c].refs[reply.field])
        \/ /\ reply.status = 400 /\ reply.field \in Early \cup Late \cup HostField
           /\ Client(c, "ready")
           /\ Correct(c, reply.field)
     /\ UNCHANGED <<drawn, latest, calls, table, announced, faults>>

\* GET /api/v1/runs/{id}: the run under that id is this one, or another's.
Confirm(c) ==
  /\ client[c] = "confirming"
  /\ Client(c, IF \E r \in table : r.id = under[<<c, latest[c]>>] /\ ReadsAs(r, wanted[c])
               THEN "done" ELSE "abandoned")
  /\ UNCHANGED <<wanted, drawn, latest, calls, table, announced, existing, faults>>

\* No answer comes, or none in time.
TimeOut(c) ==
  /\ client[c] = "waiting"
  /\ \/ at[<<c, latest[c]>>] = "dropped" /\ UNCHANGED faults
     \/ at[<<c, latest[c]>>] # "dropped" /\ Fault
  /\ Client(c, "ready")
  /\ UNCHANGED <<wanted, drawn, latest, calls, table, announced, existing>>

Collect(c) == Send(c) \/ Learn(c) \/ Confirm(c) \/ TimeOut(c)

RecordingNext ==
  \/ \E k \in Calls : Handle(k) \/ QueryFails(k) \/ Drop(k)
  \/ \E c \in Collectors : Collect(c)

\* The runtime polls every handler, and a collector goes on while it can.
Fairness ==
  /\ \A k \in Calls : WF_recordingVars(Handle(k))
  /\ \A c \in Collectors : WF_recordingVars(Collect(c))

RecordingSpec == RecordingInit /\ [][RecordingNext]_recordingVars /\ Fairness

-----------------------------------------------------------------------------
(* Properties *)

\* No other collector uses an id of this one.
Own(c) == \A d \in Collectors \ {c} : Draws[c] \cap Draws[d] = {}

\* "Validation above mirrors every CHECK; reaching here is a bug": no run that
\* the handler accepts is turned down by a constraint of the table, other than
\* that of its id, nor by insert_run itself.
ValidatedRunsAreInserted ==
  \A k \in Calls : at[k] = "answered" => answer[k].field # "constraint"

\* A collector that thinks its run is recorded, having been told so or having
\* taken a 409 for it, is right: there is a row under an id of its own, and the
\* row reads as what it sent, as far as it had been corrected.
DoneIsRecorded ==
  \A c \in Collectors : client[c] = "done" /\ Own(c) =>
    \E r \in table : r.id \in drawn[c] /\ ReadsAs(r, wanted[c])

\* `run.created` names a run once at the most, however often the run is posted,
\* and never one that is not there to be read.
AnnouncedOnce ==
  \A i \in Ids : announced[i] > 0 => announced[i] = 1 /\ Taken(i)

\* A collector that keeps its id and corrects what the answers name gets its run
\* recorded, in spite of lost calls and answers.
EventuallyRecorded ==
  \A c \in Collectors :
    Own(c) /\ Cardinality(Draws[c]) = 1 =>
      (client[c] = "ready" /\ wanted[c].form = "ok" ~> client[c] = "done")

\* The table is a ledger: a run is recorded under its id once, whole, as a row
\* that can be read, and stays as it is.
entries == [i \in Ids |-> {r \in table : r.id = i}]

IsEntry(row) == ChecksHold(row) /\ Readable(row.columns, row.body["platform"])

Ledger == INSTANCE RunLedger

ImplementsLedger == Ledger!Spec

(* The strengthening that makes them inductive; checked by TLC, used by
   RunRecordingProofs. *)

\* The rows can be read, and are what their collectors would still record.
EntriesInv ==
  /\ \A r, q \in table : r.id = q.id => r = q
  /\ \A r \in table : IsEntry(r)
  /\ \A c \in Collectors, r \in table : Own(c) /\ r.id \in Draws[c] =>
       Accepts(wanted[c]) /\ ReadsAs(r, wanted[c])

\* What a handler knows of its request when it gets to a step.
Knows(k) ==
  /\ IsRequest(sent[k]) /\ under[k] \in drawn[k[1]]
  /\ at[k] # "sent" => Accepts(sent[k])
  /\ Accepts(sent[k]) => sent[k] = wanted[k[1]]
  /\ at[k] \in {"checking", "inserting"} =>
       Given(sent[k].refs, Ref) \subseteq
         {f \in Ref : sent[k].refs[f] \in existing}
           \cup (IF at[k] = "checking" THEN unchecked[k] ELSE {})
  /\ at[k] = "checking" => unchecked[k] \subseteq Given(sent[k].refs, Ref)
  /\ at[k] \in {"publishing", "reading"} => Taken(under[k])
  /\ at[k] = "publishing" =>
       /\ announced[under[k]] = 0
       /\ \A l \in Calls : at[l] = "publishing" /\ under[l] = under[k] => l = k

HandlerInv == \A k \in Calls : at[k] \in Underway => Knows(k)

\* What a collector may conclude from the answer to its latest call.
Concludes(c, k) ==
  /\ client[c] = "waiting" /\ at[k] \in Underway => sent[k] = wanted[c]
  /\ client[c] = "waiting" /\ at[k] = "answered" =>
       /\ answer[k].status \in {201, 409} => Taken(under[k]) /\ under[k] \in drawn[c]
       /\ answer[k].status = 400 /\ answer[k].field \notin Ref => ~ Accepts(wanted[c])
       /\ answer[k].field \in Ref => wanted[c].refs[answer[k].field] \in References
  /\ client[c] = "confirming" => Taken(under[k]) /\ under[k] \in drawn[c]

ClientInv == \A c \in Collectors : Concludes(c, <<c, latest[c]>>)

RecordingInv ==
  /\ RecordingTypeOK /\ EntriesInv /\ HandlerInv /\ ClientInv
  /\ ValidatedRunsAreInserted /\ DoneIsRecorded /\ AnnouncedOnce
=============================================================================
