-------------------------- MODULE RunRecordingProofs --------------------------
(***************************************************************************)
(* What RunRecording and HostRules promise, for any number of collectors     *)
(* and faults and any requests.                                             *)
(***************************************************************************)
EXTENDS RunRecording, TLAPS, WellFoundedInduction, SequenceTheorems

-----------------------------------------------------------------------------
(* The rules of the host, in the code and in the table *)

\* The sets of fields, spelled out
USE DEF Clocks, Lab, Temperatures, Description, HostField, PhoneOnly, LinuxRequires,
        LabRequires

\* A column holds what was in the input if its platform has the field, and NULL
\* otherwise.
LEMMA ColumnOf ==
  ASSUME NEW in, NEW p, NEW f \in HostField
  PROVE  Columns(HostState(in, p))[f] = IF f \in StateFields(p) THEN in[f] ELSE Absent
BY DEF Columns, HostState, StateFields

\* No value in range is turned down by the CHECK of its column.
LEMMA InRange ==
  ASSUME NEW f, NEW v \in Value, ~ OutOfRange(f, v)
  PROVE  ColumnAllows(f, v)
BY DEF OutOfRange, ColumnAllows, Value

\* `host_state` mirrors every CHECK of the table on the columns of the host.
THEOREM TableAllowsWhatIsAccepted ==
  ASSUME NEW in \in HostInput, NEW p \in Platforms, NEW c \in Classes,
         HostAccepts(in, p, c)
  PROVE  TableAllows(Columns(HostState(in, p)), p, c)
<1> DEFINE row == Columns(HostState(in, p))
<1>1. \A f \in HostField : row[f] = IF f \in StateFields(p) THEN in[f] ELSE Absent
  BY ColumnOf
<1>2. \A f \in HostField : in[f] \in Value /\ ~ OutOfRange(f, in[f])
  BY DEF HostAccepts, RangeViolations, HostInput
<1>3. \A f \in HostField : ColumnAllows(f, row[f])
  <2> TAKE f \in HostField
  <2>1. ColumnAllows(f, in[f])
    BY <1>2, InRange
  <2>2. ColumnAllows(f, Absent)
    BY DEF ColumnAllows
  <2> QED BY <1>1, <2>1, <2>2
<1>4. PlatformViolations(in, p, c) = {}
  BY DEF HostAccepts
<1> HIDE DEF row
<1>5. CASE p = "linux"
  <2>1. \A f \in LinuxRequires : in[f] # Absent
    BY <1>4, <1>5 DEF PlatformViolations, Missing
  <2> QED BY <1>1, <1>3, <1>5, <2>1 DEF TableAllows, SnapshotAllows, StateFields, row
<1>6. CASE p = "android" /\ c = "internal"
  <2>1. \A f \in Lab \cup LabRequires : in[f] # Absent
    BY <1>4, <1>6 DEF PlatformViolations, LabViolations, Missing
  <2> QED BY <1>1, <1>3, <1>6, <2>1 DEF TableAllows, SnapshotAllows, StateFields, row
<1>7. CASE p = "android" /\ c = "external"
  <2>1. (\A f \in Lab : in[f] = Absent) \/ (\A f \in Lab : in[f] # Absent)
    BY <1>4, <1>7 DEF PlatformViolations, LabViolations, Missing, Given
  <2> QED BY <1>1, <1>3, <1>7, <2>1 DEF TableAllows, SnapshotAllows, StateFields, row
<1> QED BY <1>5, <1>6, <1>7 DEF Platforms, Classes

\* And it asks of nothing more: a host that the table would take, given only
\* what its platform has, is not refused.
THEOREM AcceptsWhatTheTableAllows ==
  ASSUME NEW in \in HostInput, NEW p \in Platforms, NEW c \in Classes,
         p = "linux" => Given(in, PhoneOnly) = {},
         TableAllows(Columns(HostState(in, p)), p, c)
  PROVE  HostAccepts(in, p, c)
<1> DEFINE row == Columns(HostState(in, p))
<1>1. \A f \in HostField : row[f] = in[f]
  <2> TAKE f \in HostField
  <2>1. row[f] = IF f \in StateFields(p) THEN in[f] ELSE Absent
    BY ColumnOf
  <2>2. f \notin StateFields(p) => p = "linux" /\ f \in PhoneOnly
    BY DEF StateFields
  <2> QED BY <2>1, <2>2 DEF Given
<1> HIDE DEF row
<1>2. TableAllows(row, p, c)
  BY DEF row
<1>3. RangeViolations(in) = {}
  <2> SUFFICES ASSUME NEW f \in HostField PROVE ~ OutOfRange(f, in[f])
    BY DEF RangeViolations
  <2>1. ColumnAllows(f, in[f]) /\ in[f] \in Value
    BY <1>1, <1>2 DEF TableAllows, HostInput
  <2> QED BY <2>1 DEF ColumnAllows, OutOfRange, Value
<1>4. CASE p = "linux"
  <2>1. \A f \in LinuxRequires : in[f] # Absent
    BY <1>1, <1>2, <1>4 DEF TableAllows, SnapshotAllows
  <2> QED BY <1>3, <1>4, <2>1 DEF HostAccepts, PlatformViolations, Missing
<1>5. CASE p = "android" /\ c = "internal"
  <2>1. \A f \in Lab \cup LabRequires : in[f] # Absent
    BY <1>1, <1>2, <1>5 DEF TableAllows, SnapshotAllows
  <2> QED BY <1>3, <1>5, <2>1 DEF HostAccepts, PlatformViolations, LabViolations, Missing
<1>6. CASE p = "android" /\ c = "external"
  <2>1. (\A f \in Lab : in[f] = Absent) \/ (\A f \in Lab : in[f] # Absent)
    BY <1>1, <1>2, <1>6 DEF TableAllows, SnapshotAllows
  <2> QED BY <1>3, <1>6, <2>1
        DEF HostAccepts, PlatformViolations, LabViolations, Missing, Given
<1> QED BY <1>4, <1>5, <1>6 DEF Platforms, Classes

\* What is accepted comes back from the columns as it was sent.
LEMMA ReadsBack ==
  ASSUME NEW in \in HostInput, NEW p \in Platforms, NEW c \in Classes,
         HostAccepts(in, p, c)
  PROVE  LET row == Columns(HostState(in, p))
         IN  Readable(row, p) /\ Columns(FromRow(row, p)) = in
<1> DEFINE row == Columns(HostState(in, p))
<1>1. \A f \in HostField : row[f] = IF f \in StateFields(p) THEN in[f] ELSE Absent
  BY ColumnOf
<1>2. PlatformViolations(in, p, c) = {}
  BY DEF HostAccepts
<1> DEFINE back == Columns(FromRow(row, p))
<1> SUFFICES Readable(row, p) /\ back = in
  OBVIOUS
<1>3. \A f \in HostField :
        back[f] = IF f \in StateFields(p)
                  THEN IF f \in Lab /\ row["bsp_version"] = Absent THEN Absent ELSE row[f]
                  ELSE Absent
  BY DEF Columns, FromRow, StateFields
<1>4. in = [f \in HostField |-> in[f]] /\ back = [f \in HostField |-> back[f]]
  BY DEF HostInput, Columns
<1> HIDE DEF row, back
<1>5. CASE p = "linux"
  <2>1. /\ \A f \in LinuxRequires : in[f] # Absent
        /\ \A f \in PhoneOnly : in[f] = Absent
    BY <1>2, <1>5 DEF PlatformViolations, Missing, Given
  <2>2. Readable(row, p)
    BY <1>1, <1>5, <2>1 DEF Readable, Missing, StateFields
  <2>3. \A f \in HostField : back[f] = in[f]
    BY <1>1, <1>3, <1>5, <2>1 DEF StateFields
  <2> QED BY <1>4, <2>2, <2>3
<1>6. CASE p = "android"
  <2>1. (\A f \in Lab : in[f] = Absent) \/ (\A f \in Lab : in[f] # Absent)
    BY <1>2, <1>6 DEF PlatformViolations, LabViolations, Missing, Given
  <2>2. Readable(row, p)
    BY <1>1, <1>6, <2>1 DEF Readable, Missing, StateFields
  <2>3. \A f \in HostField : back[f] = in[f]
    BY <1>1, <1>3, <1>6, <2>1 DEF StateFields
  <2> QED BY <1>4, <2>2, <2>3
<1> QED BY <1>5, <1>6 DEF Platforms

\* An accepted lab phone passes the check of insert_run as well.
LEMMA CompleteSnapshot ==
  ASSUME NEW in \in HostInput, HostAccepts(in, "android", "internal")
  PROVE  IsCompleteLabSnapshot(HostState(in, "android"))
BY DEF HostAccepts, PlatformViolations, LabViolations, Missing, IsCompleteLabSnapshot,
       HostState, StateFields

-----------------------------------------------------------------------------
(* Requests and rows *)

USE DEF Early, Late, Ref, Body, Fields, EarlyOrder, LateOrder, RefOrder, Enumerated,
        Counts, Digests, Optional

\* The columns of the body as they are stored
LEMMA BodyOf ==
  ASSUME NEW i, NEW req, IsRequest(req)
  PROVE  /\ Row(i, req).body \in [Body -> {req.body[f] : f \in Body}
                                            \cup {Preview(req.body["output_preview"])}]
         /\ \A f \in Early \cup Late : Row(i, req).body[f] = req.body[f]
<1>1. req.body = [f \in Body |-> req.body[f]]
  BY DEF IsRequest
<1>2. Row(i, req).body = [req.body EXCEPT !["output_preview"]
                                        = Preview(req.body["output_preview"])]
  BY DEF Row
<1> QED BY <1>1, <1>2

\* An accepted request makes a row that no constraint of the table but those of
\* its id and its references turns down, that can be read, and reads as the
\* request.
LEMMA AcceptedRow ==
  ASSUME NEW i, NEW req, IsRequest(req), Accepts(req)
  PROVE  /\ IsEntry(Row(i, req))
         /\ ReadsAs(Row(i, req), req)
         /\ req.body["platform"] = "android" /\ req.body["device_class"] = "internal"
              => IsCompleteLabSnapshot(HostState(req.host, "android"))
<1> DEFINE row == Row(i, req)
           p == req.body["platform"]
           c == req.body["device_class"]
<1>1. \A f \in Early \cup Late : row.body[f] = req.body[f] /\ ~ BodyInvalid(f, req.body[f])
  <2>1. \A f \in Early \cup Late : row.body[f] = req.body[f]
    <3> HIDE DEF Early, Late
    <3> QED BY BodyOf
  <2>2. \A f \in Early \cup Late : ~ BodyInvalid(f, req.body[f])
    <3> HIDE DEF Early, Late
    <3> QED BY DEF Accepts, Invalid
  <2> QED BY <2>1, <2>2
<1>2. p \in Platforms /\ c \in Classes
  BY <1>1 DEF BodyInvalid, Enumeration
<1>3. req.host \in HostInput /\ HostAccepts(req.host, p, c)
  BY DEF IsRequest, Accepts, HostOk
<1>4. row.columns = Columns(HostState(req.host, p)) /\ row.refs = req.refs
      /\ row.body["platform"] = p /\ row.body["device_class"] = c
  BY <1>1 DEF Row
<1>5. TableAllows(row.columns, p, c)
  BY <1>2, <1>3, <1>4, TableAllowsWhatIsAccepted
<1>6. Readable(row.columns, p) /\ Columns(FromRow(row.columns, p)) = req.host
  BY <1>2, <1>3, <1>4, ReadsBack
<1>7. \A f \in Body : BodyAllows(f, row.body[f])
  <2>1. BodyAllows("output_preview", row.body["output_preview"])
    BY DEF BodyAllows
  <2> SUFFICES ASSUME NEW f \in Early \cup Late PROVE BodyAllows(f, req.body[f])
    BY <1>1, <2>1
  <2>2. f \notin Optional => req.body[f] # Absent
    BY DEF IsRequest
  <2>3. f \in Counts => req.body[f] \in Int \cup {Absent}
    BY DEF IsRequest, Value
  <2>4. f \in Enumerated => req.body[f] \in Enumeration(f)
    BY <1>1 DEF BodyInvalid
  <2>5. f \in Digests => req.body[f] \in {Absent, "hex64"}
    BY <1>1 DEF BodyInvalid
  <2>6. f \in Counts /\ req.body[f] # Absent => req.body[f] >= 0
    <3>1. ~ (f \in Counts /\ req.body[f] # Absent /\ req.body[f] < 0)
      BY <1>1 DEF BodyInvalid
    <3> QED BY <2>3, <3>1
  <2> HIDE DEF Counts, Enumerated, Digests, Optional
  <2> QED BY <2>2, <2>4, <2>5, <2>6 DEF BodyAllows
<1>8. row.body = [req.body EXCEPT !["output_preview"] = Preview(req.body["output_preview"])]
  BY DEF Row
<1>9. p = "android" /\ c = "internal" => IsCompleteLabSnapshot(HostState(req.host, "android"))
  BY <1>3, CompleteSnapshot
<1> HIDE DEF row
<1> QED BY <1>4, <1>5, <1>6, <1>7, <1>8, <1>9 DEF IsEntry, ChecksHold, ReadsAs, row

\* A request that is corrected is still one that is parsed.
LEMMA CorrectedIsRequest ==
  ASSUME NEW q, IsRequest(q), NEW f \in Early \cup Late \cup HostField
  PROVE  IsRequest(Corrected(q, f))
<1>1. q = [form |-> q.form, body |-> [g \in Body |-> q.body[g]], host |-> q.host,
           refs |-> q.refs]
  BY DEF IsRequest
<1>2. q.host \in HostInput /\ q.refs \in [Ref -> References \cup {Absent}]
      /\ q.refs["model_asset_id"] # Absent
      /\ (\A g \in Body \ Optional : q.body[g] # Absent)
      /\ (\A g \in Counts : q.body[g] \in Value)
  BY DEF IsRequest
<1>3. CASE f \in HostField
  <2> DEFINE v == IF q.body["platform"] = "linux" /\ f \in PhoneOnly THEN Absent ELSE 1
  <2>1. Corrected(q, f) = [q EXCEPT !.host[f] = v]
    BY <1>3 DEF Corrected
  <2>2. v \in Value
    BY DEF Value
  <2> HIDE DEF v
  <2>3. [q.host EXCEPT ![f] = v] \in HostInput
    BY <1>2, <1>3, <2>2 DEF HostInput
  <2>4. Corrected(q, f) = [form |-> q.form, body |-> [g \in Body |-> q.body[g]],
          host |-> [q.host EXCEPT ![f] = v], refs |-> q.refs]
    BY <1>1, <2>1
  <2> DEFINE r == Corrected(q, f)
  <2>5. /\ r.form = q.form /\ r.host = [q.host EXCEPT ![f] = v] /\ r.refs = q.refs
        /\ r.body = [g \in Body |-> q.body[g]] /\ r.body = [g \in Body |-> r.body[g]]
        /\ \A g \in Body : r.body[g] = q.body[g]
    BY <2>4
  <2>6. r = [form |-> r.form, body |-> [g \in Body |-> r.body[g]], host |-> r.host,
             refs |-> r.refs]
    BY <2>4, <2>5
  <2> HIDE DEF r
  <2> QED BY <1>2, <2>3, <2>5, <2>6 DEF IsRequest, r
<1>4. CASE f \in Early \cup Late /\ f \notin HostField
  <2> DEFINE v == CASE f \in Enumerated         -> CHOOSE w \in Enumeration(f) : TRUE
                    [] f \in Counts             -> 0
                    [] f \in Digests            -> "hex64"
                    [] f = "command_args"       -> "strings"
                    [] f \in {"input_parameters", "env_vars"}    -> "object"
                    [] f \in {"device_serial", "git_commit_sha"} -> "text"
  <2>1. Corrected(q, f) = [q EXCEPT !.body[f] = v]
    BY <1>4 DEF Corrected
  <2>2. v # Absent /\ (f \in Counts => v \in Value)
    <3>1. f \in Enumerated => \E w \in Enumeration(f) : TRUE
      BY DEF Enumeration, Platforms, Classes, Statuses, Correctness
    <3>2. f \in Enumerated => v \in Enumeration(f)
      BY <3>1
    <3>6. f \in Enumerated => Absent \notin Enumeration(f)
      BY AbsentAssumption DEF Enumeration
    <3>7. Absent \notin {"hex64", "strings", "object", "text"}
      BY AbsentAssumption DEF Texts
    <3>8. Absent # 0
      BY AbsentAssumption
    <3>3. f \in Enumerated => f \notin Counts
      OBVIOUS
    <3>4. f \in Counts => v = 0
      OBVIOUS
    <3>5. f \notin Enumerated \cup Counts
            => v \in {"hex64", "strings", "object", "text"}
      BY <1>4
    <3> HIDE DEF v, Enumerated, Counts
    <3> QED BY <3>2, <3>3, <3>4, <3>5, <3>6, <3>7, <3>8 DEF Value
  <2> HIDE DEF v
  <2>3. Corrected(q, f) = [form |-> q.form,
          body |-> [g \in Body |-> IF g = f THEN v ELSE q.body[g]],
          host |-> q.host, refs |-> q.refs]
    BY <1>1, <1>4, <2>1
  <2> DEFINE r == Corrected(q, f)
  <2>4. /\ r.form = q.form /\ r.host = q.host /\ r.refs = q.refs
        /\ \A g \in Body : r.body[g] = IF g = f THEN v ELSE q.body[g]
        /\ r.body = [g \in Body |-> r.body[g]]
    BY <2>3
  <2>5. r = [form |-> r.form, body |-> [g \in Body |-> r.body[g]], host |-> r.host,
             refs |-> r.refs]
    BY <2>3, <2>4
  <2> HIDE DEF r
  <2>6. Counts \subseteq Body
    OBVIOUS
  <2>7. /\ \A g \in Body \ Optional : r.body[g] # Absent
        /\ \A g \in Counts : r.body[g] \in Value
    <3> HIDE DEF Body, Early, Late, Counts, Optional
    <3> QED BY <1>2, <2>2, <2>4, <2>6
  <2> QED BY <1>2, <2>4, <2>5, <2>7 DEF IsRequest, r
<1> QED BY <1>3, <1>4

HIDE DEF Clocks, Lab, Temperatures, Description, HostField, PhoneOnly, LinuxRequires,
         LabRequires, Early, Late, Ref, Body, Fields, EarlyOrder, LateOrder, RefOrder,
         Enumerated, Counts, Digests, Optional

-----------------------------------------------------------------------------
(* The invariant: the steps of a handler *)

USE DEF Calls, collector, calls, recordingVars, Underway, Proceed, Client, Answer

LEMMA InitRecording ==
  ASSUME RecordingInit  PROVE RecordingInv
<1>1. RecordingTypeOK
  BY DEF RecordingInit, RecordingTypeOK
<1>2. EntriesInv /\ HandlerInv /\ ClientInv
  BY DEF RecordingInit, EntriesInv, HandlerInv, ClientInv, Concludes
<1>3. ValidatedRunsAreInserted /\ DoneIsRecorded /\ AnnouncedOnce
  BY DEF RecordingInit, ValidatedRunsAreInserted, DoneIsRecorded, AnnouncedOnce
<1> QED BY <1>1, <1>2, <1>3 DEF RecordingInv

\* The fields are told apart by their names.
LEMMA FieldNames ==
  /\ "constraint" \notin Early \cup Late \cup HostField \cup Ref /\ "none" \notin Ref
  /\ (Early \cup Late \cup HostField) \cap Ref = {}
BY DEF Early, Late, Ref, Fields, EarlyOrder, LateOrder, RefOrder, HostField, Lab, Clocks,
       Temperatures, Description

\* A handler may end with any answer but a 201 or 409 for an id that is not taken
\* and a 400 for a request that is accepted.
LEMMA RespondStep ==
  ASSUME RecordingInv, NEW k \in Calls, at[k] \in Underway, NEW status, NEW field,
         Respond(k, status, field), field # "constraint",
         status \in {201, 409} => Taken(under[k]),
         status = 400 /\ field \notin Ref => ~ Accepts(sent[k]),
         field \in Ref => sent[k].refs[field] \in References,
         UNCHANGED <<collector, under, table, announced, existing>>,
         faults' \in Nat
  PROVE  RecordingInv'
<1>1. RecordingTypeOK'
  BY DEF RecordingInv, RecordingTypeOK, Respond
<1>2. EntriesInv'
  BY DEF RecordingInv, EntriesInv, Respond, Own, IsEntry, ReadsAs, ChecksHold
<1>3. HandlerInv'
  <2> SUFFICES ASSUME NEW l \in Calls, at'[l] \in Underway  PROVE Knows(l)'
    BY DEF HandlerInv
  <2>1. at' = [at EXCEPT ![k] = "answered"] /\ at \in [Calls -> {"unused", "answered", "dropped"} \cup Underway]
    BY DEF RecordingInv, RecordingTypeOK, Respond
  <2>2. l # k
    BY <2>1
  <2>3. at'[l] = at[l] /\ sent'[l] = sent[l] /\ unchecked'[l] = unchecked[l]
    BY <2>2 DEF RecordingInv, RecordingTypeOK, Respond
  <2>4. \A j \in Calls : at'[j] = "publishing" => at[j] = "publishing"
    BY <2>1
  <2>5. Knows(l)
    BY <2>3 DEF RecordingInv, HandlerInv
  <2> QED BY <2>3, <2>4, <2>5 DEF Knows, Taken
<1>4. ClientInv'
  <2> SUFFICES ASSUME NEW c \in Collectors  PROVE Concludes(c, <<c, latest[c]>>)'
    BY DEF ClientInv
  <2>1. <<c, latest[c]>> \in Calls
    BY DEF RecordingInv, RecordingTypeOK
  <2>2. CASE <<c, latest[c]>> = k
    <3>1. answer'[k] = [status |-> status, field |-> field] /\ at'[k] = "answered"
      BY DEF RecordingInv, RecordingTypeOK, Respond
    <3>2. client[c] = "waiting" => sent[k] = wanted[c]
      BY <2>2 DEF RecordingInv, ClientInv, Concludes
    <3>3. under[k] \in drawn[c]
      BY <2>2 DEF RecordingInv, HandlerInv, Knows
    <3> QED BY <2>2, <3>1, <3>2, <3>3 DEF RecordingInv, ClientInv, Concludes, Taken
  <2>3. CASE <<c, latest[c]>> # k
    <3>1. /\ at'[<<c, latest[c]>>] = at[<<c, latest[c]>>]
          /\ sent'[<<c, latest[c]>>] = sent[<<c, latest[c]>>]
          /\ answer'[<<c, latest[c]>>] = answer[<<c, latest[c]>>]
      BY <2>1, <2>3 DEF RecordingInv, RecordingTypeOK, Respond
    <3> QED BY <3>1 DEF RecordingInv, ClientInv, Concludes, Taken
  <2> QED BY <2>2, <2>3
<1>5. ValidatedRunsAreInserted'
  BY DEF RecordingInv, ValidatedRunsAreInserted, RecordingTypeOK, Respond
<1>6. DoneIsRecorded'
  BY DEF RecordingInv, DoneIsRecorded, Own, ReadsAs
<1>7. AnnouncedOnce'
  BY DEF RecordingInv, AnnouncedOnce, Taken
<1> QED BY <1>1, <1>2, <1>3, <1>4, <1>5, <1>6, <1>7 DEF RecordingInv

\* A handler that goes on, or is dropped, gives no answer.
LEMMA MoveStep ==
  ASSUME RecordingInv, NEW k \in Calls, at[k] \in Underway, NEW to \in Underway \cup {"dropped"},
         Proceed(k, to), to \in Underway => sent' = sent,
         \A l \in Calls \ {k} : sent'[l] = sent[l],
         \A i \in Ids : Taken(i) => Taken(i)',
         UNCHANGED <<collector, under, answer>>
  PROVE  ClientInv' /\ ValidatedRunsAreInserted'
<1>1. at \in [Calls -> {"unused", "answered", "dropped"} \cup Underway]
  BY DEF RecordingInv, RecordingTypeOK
<1>2. \A l \in Calls : at'[l] = IF l = k THEN to ELSE at[l]
  BY <1>1
<1>3. ValidatedRunsAreInserted'
  BY <1>2 DEF RecordingInv, ValidatedRunsAreInserted
<1>4. ASSUME NEW c \in Collectors  PROVE Concludes(c, <<c, latest[c]>>)'
  <2> PICK l \in Calls : l = <<c, latest[c]>>
    BY DEF RecordingInv, RecordingTypeOK
  <2>1. drawn[c] \subseteq Ids /\ under[l] = under'[l]
    BY DEF RecordingInv, RecordingTypeOK
  <2>2. Concludes(c, l)
    BY DEF RecordingInv, ClientInv
  <2>3. at'[l] = "answered" => at[l] = "answered"
    BY <1>2, <2>1
  <2>4. at'[l] \in Underway => at[l] \in Underway /\ sent'[l] = sent[l]
    BY <1>2, <2>1
  <2>5. under[l] \in drawn[c] /\ Taken(under[l]) => Taken(under[l])'
    BY <2>1 DEF Taken
  <2>6. Concludes(c, l)'
    BY <2>2, <2>3, <2>4, <2>5 DEF Concludes, Taken
  <2> QED BY <2>6
<1> QED BY <1>3, <1>4 DEF ClientInv

LEMMA ReceiveStep ==
  ASSUME RecordingInv, NEW k \in Calls, Receive(k)  PROVE RecordingInv'
<1>1. at[k] = "sent" /\ UNCHANGED <<collector, under, table, announced, existing, faults>>
  BY DEF Receive
<1>2. faults' \in Nat
  BY <1>1 DEF RecordingInv, RecordingTypeOK
<1>3. CASE sent[k].form = "oversized" /\ Respond(k, 413, "none")
  <2>1. at[k] \in Underway /\ Respond(k, 413, "none")
        /\ UNCHANGED <<collector, under, table, announced, existing>>
    BY <1>1, <1>3
  <2>2. 413 \notin {201, 409} /\ 413 # 400
    OBVIOUS
  <2> HIDE DEF Underway, collector
  <2> QED BY <1>2, <2>1, <2>2, RespondStep, FieldNames
<1>4. CASE sent[k].form = "malformed" /\ Respond(k, 400, "none")
  <2>1. ~ Accepts(sent[k])
    BY <1>4 DEF Accepts
  <2> QED BY <1>1, <1>2, <1>4, <2>1, RespondStep, FieldNames
<1>5. CASE ~ Accepts(sent[k]) /\ \E f \in Early \cup Late \cup HostField : Respond(k, 400, f)
  <2> PICK f \in Early \cup Late \cup HostField : Respond(k, 400, f)
    BY <1>5
  <2>1. f # "constraint" /\ f \notin Ref
    BY FieldNames
  <2> QED BY <1>1, <1>2, <1>5, <2>1, RespondStep
<1>6. CASE Accepts(sent[k]) /\ Proceed(k, "checking") /\ UNCHANGED <<sent, answer>>
           /\ unchecked' = [unchecked EXCEPT ![k] = Referenced(sent[k])]
  <2>1. at' = [at EXCEPT ![k] = "checking"] /\ at \in [Calls -> {"unused", "answered", "dropped"} \cup Underway]
    BY <1>6 DEF RecordingInv, RecordingTypeOK
  <2>2. RecordingTypeOK'
    BY <1>1, <1>6 DEF RecordingInv, RecordingTypeOK, Referenced, Given
  <2>3. EntriesInv' /\ DoneIsRecorded' /\ AnnouncedOnce'
    BY <1>1 DEF RecordingInv, EntriesInv, Own, IsEntry, ReadsAs, ChecksHold, DoneIsRecorded,
            AnnouncedOnce, Taken
  <2>4. ClientInv' /\ ValidatedRunsAreInserted'
    BY <1>1, <1>6, MoveStep DEF Taken
  <2>5. ASSUME NEW l \in Calls, at'[l] \in Underway  PROVE Knows(l)'
    <3>1. \A j \in Calls : at'[j] = "publishing" => at[j] = "publishing"
      BY <2>1
    <3>2. CASE l = k
      <4>1. Knows(k) /\ at'[k] = "checking" /\ unchecked'[k] = Given(sent[k].refs, Ref)
        BY <1>1, <1>6, <2>1 DEF RecordingInv, HandlerInv, RecordingTypeOK, Referenced
      <4> QED BY <1>1, <1>6, <3>2, <4>1 DEF Knows
    <3>3. CASE l # k
      <4>1. Knows(l) /\ at'[l] = at[l] /\ unchecked'[l] = unchecked[l]
        BY <1>6, <2>1, <2>5, <3>3 DEF RecordingInv, HandlerInv, RecordingTypeOK
      <4> QED BY <1>1, <1>6, <3>1, <4>1 DEF Knows, Taken
    <3> QED BY <3>2, <3>3
  <2> QED BY <2>2, <2>3, <2>4, <2>5 DEF RecordingInv, HandlerInv
<1> QED BY <1>3, <1>4, <1>5, <1>6 DEF Receive

LEMMA LookUpStep ==
  ASSUME RecordingInv, NEW k \in Calls, LookUp(k)  PROVE RecordingInv'
<1>1. at[k] = "checking" /\ UNCHANGED <<collector, under, table, announced, existing, faults>>
  BY DEF LookUp
<1>2. faults' \in Nat
  BY <1>1 DEF RecordingInv, RecordingTypeOK
<1> PICK f \in unchecked[k] :
       \/ Respond(k, 400, f)
       \/ /\ sent[k].refs[f] \in existing
          /\ unchecked' = [unchecked EXCEPT ![k] = @ \ {f}]
          /\ Proceed(k, IF unchecked[k] = {f} THEN "inserting" ELSE "checking")
          /\ UNCHANGED <<sent, answer>>
  BY DEF LookUp
<1>3. f \in Ref /\ sent[k].refs[f] \in References
  <2>1. Knows(k)
    BY <1>1 DEF RecordingInv, HandlerInv
  <2>2. unchecked[k] \subseteq Given(sent[k].refs, Ref)
        /\ sent[k].refs \in [Ref -> References \cup {Absent}]
    BY <1>1, <2>1 DEF Knows, IsRequest
  <2> QED BY <2>2 DEF Given
<1>4. CASE Respond(k, 400, f)
  BY <1>1, <1>2, <1>3, <1>4, RespondStep, FieldNames
<1>5. CASE /\ sent[k].refs[f] \in existing
           /\ unchecked' = [unchecked EXCEPT ![k] = @ \ {f}]
           /\ Proceed(k, IF unchecked[k] = {f} THEN "inserting" ELSE "checking")
           /\ UNCHANGED <<sent, answer>>
  <2> DEFINE to == IF unchecked[k] = {f} THEN "inserting" ELSE "checking"
  <2>1. at' = [at EXCEPT ![k] = to] /\ at \in [Calls -> {"unused", "answered", "dropped"} \cup Underway]
    BY <1>5 DEF RecordingInv, RecordingTypeOK
  <2>2. RecordingTypeOK'
    BY <1>1, <1>5 DEF RecordingInv, RecordingTypeOK
  <2>3. EntriesInv' /\ DoneIsRecorded' /\ AnnouncedOnce'
    BY <1>1 DEF RecordingInv, EntriesInv, Own, IsEntry, ReadsAs, ChecksHold, DoneIsRecorded,
            AnnouncedOnce, Taken
  <2>4. ClientInv' /\ ValidatedRunsAreInserted'
    BY <1>1, <1>5, MoveStep DEF Taken
  <2>5. ASSUME NEW l \in Calls, at'[l] \in Underway  PROVE Knows(l)'
    <3>1. \A j \in Calls : at'[j] = "publishing" => at[j] = "publishing"
      BY <2>1
    <3>2. CASE l = k
      <4>1. /\ Knows(k) /\ at'[k] = to /\ unchecked'[k] = unchecked[k] \ {f}
            /\ to = "inserting" => unchecked[k] \ {f} = {}
        BY <1>1, <1>5, <2>1 DEF RecordingInv, HandlerInv, RecordingTypeOK
      <4>2. Given(sent[k].refs, Ref) \subseteq {g \in Ref : sent[k].refs[g] \in existing}
                                                \cup (unchecked[k] \ {f})
        BY <1>1, <1>3, <1>5, <4>1 DEF Knows
      <4> QED BY <1>1, <1>5, <3>2, <4>1, <4>2 DEF Knows
    <3>3. CASE l # k
      <4>1. Knows(l) /\ at'[l] = at[l] /\ unchecked'[l] = unchecked[l]
        BY <1>5, <2>1, <2>5, <3>3 DEF RecordingInv, HandlerInv, RecordingTypeOK
      <4> QED BY <1>1, <1>5, <3>1, <4>1 DEF Knows, Taken
    <3> QED BY <3>2, <3>3
  <2> QED BY <2>2, <2>3, <2>4, <2>5 DEF RecordingInv, HandlerInv
<1> QED BY <1>4, <1>5

LEMMA PublishStep ==
  ASSUME RecordingInv, NEW k \in Calls, Publish(k)  PROVE RecordingInv'
<1>1. /\ at[k] = "publishing" /\ Proceed(k, "reading")
      /\ announced' = [announced EXCEPT ![under[k]] = @ + 1]
      /\ UNCHANGED <<collector, sent, under, unchecked, answer, table, existing, faults>>
  BY DEF Publish
<1>2. Knows(k) /\ under[k] \in Ids
  BY <1>1 DEF RecordingInv, HandlerInv, Knows, RecordingTypeOK
<1>3. announced[under[k]] = 0 /\ Taken(under[k]) /\ announced \in [Ids -> Nat]
  BY <1>1, <1>2 DEF Knows, RecordingInv, RecordingTypeOK
<1>4. \A i \in Ids : announced'[i] = IF i = under[k] THEN 1 ELSE announced[i]
  BY <1>1, <1>2, <1>3
<1>5. at' = [at EXCEPT ![k] = "reading"] /\ at \in [Calls -> {"unused", "answered", "dropped"} \cup Underway]
  BY <1>1 DEF RecordingInv, RecordingTypeOK
<1>6. RecordingTypeOK'
  <2>1. announced' \in [Ids -> Nat]
    BY <1>1, <1>2, <1>3
  <2>2. at' \in [Calls -> {"unused", "answered", "dropped"} \cup Underway]
    BY <1>5
  <2> QED BY <1>1, <2>1, <2>2 DEF RecordingInv, RecordingTypeOK
<1>7. EntriesInv' /\ DoneIsRecorded'
  BY <1>1 DEF RecordingInv, EntriesInv, Own, IsEntry, ReadsAs, ChecksHold, DoneIsRecorded
<1>8. AnnouncedOnce'
  BY <1>1, <1>3, <1>4 DEF RecordingInv, AnnouncedOnce, Taken
<1>9. ClientInv' /\ ValidatedRunsAreInserted'
  BY <1>1, MoveStep DEF Taken
<1>10. ASSUME NEW l \in Calls, at'[l] \in Underway  PROVE Knows(l)'
  <2>1. \A j \in Calls : at'[j] = "publishing" => at[j] = "publishing" /\ j # k
    BY <1>5
  <2>2. CASE l = k
    BY <1>1, <1>2, <1>3, <1>5, <2>2 DEF Knows, Taken
  <2>3. CASE l # k
    <3>1. Knows(l) /\ at'[l] = at[l] /\ under[l] \in Ids
      BY <1>5, <1>10, <2>3 DEF RecordingInv, HandlerInv, Knows, RecordingTypeOK
    <3>2. at[l] = "publishing" => under[l] # under[k]
      BY <1>1, <1>2, <2>3 DEF Knows
    <3> QED BY <1>1, <1>4, <2>1, <3>1, <3>2 DEF Knows, Taken
  <2> QED BY <2>2, <2>3
<1> QED BY <1>6, <1>7, <1>8, <1>9, <1>10 DEF RecordingInv, HandlerInv

LEMMA ReadBackStep ==
  ASSUME RecordingInv, NEW k \in Calls, ReadBack(k)  PROVE RecordingInv'
<1>1. faults' \in Nat
  BY DEF RecordingInv, RecordingTypeOK, ReadBack
<1>2. Taken(under[k])
  BY DEF ReadBack, Taken
<1>3. PICK status \in {201, 500} : Respond(k, status, "none")
  BY DEF ReadBack
<1> QED BY <1>1, <1>2, <1>3, RespondStep, FieldNames DEF ReadBack

LEMMA QueryFailsStep ==
  ASSUME RecordingInv, NEW k \in Calls, QueryFails(k)  PROVE RecordingInv'
<1>1. faults' \in Nat
  <2>1. faults \in Nat /\ faults' = faults + 1
    BY DEF RecordingInv, RecordingTypeOK, QueryFails, Fault
  <2> QED BY <2>1
<1>2. at[k] \in Underway /\ Respond(k, 500, "none")
      /\ UNCHANGED <<collector, under, table, announced, existing>>
  BY DEF QueryFails
<1>3. 500 \notin {201, 409} /\ 500 # 400
  OBVIOUS
<1> HIDE DEF Underway, collector
<1> QED BY <1>1, <1>2, <1>3, RespondStep, FieldNames

LEMMA DropStep ==
  ASSUME RecordingInv, NEW k \in Calls, Drop(k)  PROVE RecordingInv'
<1>1. at' = [at EXCEPT ![k] = "dropped"] /\ at \in [Calls -> {"unused", "answered", "dropped"} \cup Underway]
  BY DEF RecordingInv, RecordingTypeOK, Drop
<1>2. RecordingTypeOK'
  <2>1. faults \in Nat /\ faults' = faults + 1
    BY DEF RecordingInv, RecordingTypeOK, Drop, Fault
  <2>2. faults' \in Nat
    BY <2>1
  <2> QED BY <1>1, <2>2 DEF RecordingInv, RecordingTypeOK, Drop
<1>3. EntriesInv' /\ DoneIsRecorded' /\ AnnouncedOnce'
  BY DEF Drop, RecordingInv, EntriesInv, Own, IsEntry, ReadsAs, ChecksHold, DoneIsRecorded,
         AnnouncedOnce, Taken
<1>4. \A l \in Calls \ {k} : sent'[l] = sent[l] /\ unchecked'[l] = unchecked[l]
  BY DEF Drop, RecordingInv, RecordingTypeOK
<1>5. ClientInv' /\ ValidatedRunsAreInserted'
  BY <1>4, MoveStep DEF Drop, Taken
<1>6. ASSUME NEW l \in Calls, at'[l] \in Underway  PROVE Knows(l)'
  <2>1. l # k /\ \A j \in Calls : at'[j] = "publishing" => at[j] = "publishing"
    BY <1>1, <1>6
  <2>2. Knows(l) /\ at'[l] = at[l]
    BY <1>1, <1>6, <2>1 DEF RecordingInv, HandlerInv
  <2> QED BY <1>4, <2>1, <2>2 DEF Drop, Knows, Taken
<1> QED BY <1>2, <1>3, <1>5, <1>6 DEF RecordingInv, HandlerInv

\* An insert either finds the id taken or adds a good row: no other constraint of
\* the table, and no reference, is in its way.
LEMMA InsertCases ==
  ASSUME RecordingInv, NEW k \in Calls, Insert(k)
  PROVE  LET req == sent[k]
             row == Row(under[k], req)
         IN  /\ Knows(k) /\ req = wanted[k[1]] /\ Accepts(req)
             /\ under[k] \in drawn[k[1]] /\ under[k] \in Ids /\ under[k] \in Draws[k[1]]
             /\ row.id = under[k] /\ IsEntry(row) /\ ReadsAs(row, req)
             /\ \/ Taken(row.id) /\ Conflict(k)
                \/ /\ ~ Taken(row.id) /\ Proceed(k, "publishing") /\ table' = table \cup {row}
                   /\ UNCHANGED <<sent, unchecked, answer>>
<1> DEFINE req == sent[k]
           row == Row(under[k], req)
<1>1. at[k] = "inserting" /\ k[1] \in Collectors
  BY DEF Insert
<1>2. /\ Knows(k) /\ Accepts(req) /\ IsRequest(req) /\ req = wanted[k[1]]
      /\ under[k] \in drawn[k[1]] /\ under[k] \in Ids /\ under[k] \in Draws[k[1]]
  BY <1>1 DEF RecordingInv, HandlerInv, Knows, RecordingTypeOK
<1>3. /\ IsEntry(row) /\ ReadsAs(row, req) /\ ChecksHold(row)
      /\ req.body["platform"] = "android" /\ req.body["device_class"] = "internal"
           => IsCompleteLabSnapshot(HostState(req.host, "android"))
  BY <1>2, AcceptedRow DEF IsEntry
<1>4. row.id = under[k] /\ row.refs = req.refs
  BY DEF Row
<1>5. ReferencesHold(row)
  <2>1. \A f \in Ref : req.refs[f] # Absent => req.refs[f] \in existing
    BY <1>1, <1>2 DEF Knows, Given
  <2> QED BY <1>4, <2>1 DEF ReferencesHold
<1>6. \/ Taken(row.id) /\ Conflict(k)
      \/ /\ ~ Taken(row.id) /\ Proceed(k, "publishing") /\ table' = table \cup {row}
         /\ UNCHANGED <<sent, unchecked, answer>>
  <2> HIDE DEF row
  <2> QED BY <1>3, <1>5 DEF Insert, row
<1> QED BY <1>2, <1>3, <1>4, <1>6

\* The row that is inserted is the first under its id, and is what the collector
\* of the request would record; no other collector has one under that id.
LEMMA InsertStep ==
  ASSUME RecordingInv, NEW k \in Calls, Insert(k)  PROVE RecordingInv'
<1> DEFINE req == sent[k]
           row == Row(under[k], req)
<1>1. /\ at[k] = "inserting" /\ k[1] \in Collectors
      /\ UNCHANGED <<collector, under, announced, existing, faults>>
  BY DEF Insert
<1>2. faults' \in Nat
  BY <1>1 DEF RecordingInv, RecordingTypeOK
<1>3. /\ Knows(k) /\ Accepts(req) /\ req = wanted[k[1]]
      /\ under[k] \in drawn[k[1]] /\ under[k] \in Ids /\ under[k] \in Draws[k[1]]
  BY InsertCases
<1>4. IsEntry(row) /\ ReadsAs(row, req)
  BY InsertCases
<1>5. row.id = under[k]
  BY DEF Row
<1>6. \/ Taken(row.id) /\ Conflict(k)
      \/ /\ ~ Taken(row.id) /\ Proceed(k, "publishing") /\ table' = table \cup {row}
         /\ UNCHANGED <<sent, unchecked, answer>>
  BY InsertCases
<1>7. CASE Taken(row.id) /\ Conflict(k)
  <2>1. /\ at[k] \in Underway /\ Respond(k, 409, "none") /\ Taken(under[k])
        /\ UNCHANGED <<collector, under, table, announced, existing>>
    BY <1>1, <1>5, <1>7 DEF Conflict
  <2>2. 409 # 400
    OBVIOUS
  <2> HIDE DEF Underway, collector
  <2> QED BY <1>2, <2>1, <2>2, RespondStep, FieldNames
<1>8. CASE /\ ~ Taken(row.id) /\ Proceed(k, "publishing") /\ table' = table \cup {row}
           /\ UNCHANGED <<sent, unchecked, answer>>
  <2> HIDE DEF row
  <2>1. at' = [at EXCEPT ![k] = "publishing"] /\ at \in [Calls -> {"unused", "answered", "dropped"} \cup Underway]
    BY <1>8 DEF RecordingInv, RecordingTypeOK
  <2>2. RecordingTypeOK'
    BY <1>1, <1>3, <1>5, <1>8 DEF RecordingInv, RecordingTypeOK
  <2>3. \A i \in Ids : Taken(i)' <=> Taken(i) \/ i = under[k]
    BY <1>5, <1>8 DEF Taken
  <2>4. EntriesInv'
    <3>1. \A r, q \in table' : r.id = q.id => r = q
      BY <1>8 DEF RecordingInv, EntriesInv, Taken
    <3>2. \A r \in table' : IsEntry(r)
      BY <1>4, <1>8 DEF RecordingInv, EntriesInv
    <3>3. ASSUME NEW c \in Collectors, NEW r \in table', Own(c), r.id \in Draws[c]
          PROVE  Accepts(wanted[c]) /\ ReadsAs(r, wanted[c])
      <4>1. CASE r \in table
        BY <3>3, <4>1 DEF RecordingInv, EntriesInv
      <4>2. CASE r = row
        <5>1. k[1] = c
          BY <1>1, <1>3, <1>5, <3>3, <4>2 DEF Own
        <5> QED BY <1>3, <1>4, <4>2, <5>1
      <4> QED BY <1>8, <4>1, <4>2
    <3>4. wanted' = wanted
      BY <1>1
    <3> QED BY <3>1, <3>2, <3>3, <3>4 DEF EntriesInv, Own, IsEntry, ReadsAs, ChecksHold
  <2>5. DoneIsRecorded'
    BY <1>1, <1>8 DEF RecordingInv, DoneIsRecorded, Own, ReadsAs
  <2>6. AnnouncedOnce'
    BY <1>1, <2>3 DEF RecordingInv, AnnouncedOnce
  <2>7. ClientInv' /\ ValidatedRunsAreInserted'
    BY <1>1, <1>8, <2>3, MoveStep
  <2>8. ASSUME NEW l \in Calls, at'[l] \in Underway  PROVE Knows(l)'
    <3>1. announced[under[k]] = 0
      <4>1. announced[under[k]] \in Nat /\ ~ announced[under[k]] > 0
        BY <1>3, <1>5, <1>8 DEF RecordingInv, RecordingTypeOK, AnnouncedOnce
      <4> QED BY <4>1
    <3>2. \A j \in Calls : at'[j] = IF j = k THEN "publishing" ELSE at[j]
      BY <2>1
    <3>3. \A j \in Calls : at[j] = "publishing" => Taken(under[j])
      BY DEF RecordingInv, HandlerInv, Knows
    <3>4. \A j \in Calls : at[j] = "publishing" => under[j] # under[k]
      BY <1>5, <1>8, <3>3
    <3>5. \A j \in Calls : at'[j] \in {"publishing", "reading"} => Taken(under[j])'
      <4> SUFFICES ASSUME NEW j \in Calls, at'[j] \in {"publishing", "reading"}
                   PROVE  Taken(under[j])'
        OBVIOUS
      <4>1. CASE j = k
        BY <1>1, <1>5, <1>8, <4>1 DEF Taken
      <4>2. CASE j # k
        BY <1>1, <1>8, <3>2, <4>2 DEF RecordingInv, HandlerInv, Knows, Taken
      <4> QED BY <4>1, <4>2
    <3>6. CASE l = k
      BY <1>1, <1>3, <1>8, <3>1, <3>2, <3>4, <3>5, <3>6 DEF Knows
    <3>7. CASE l # k
      <4>1. Knows(l) /\ at'[l] = at[l]
        BY <2>8, <3>2, <3>7 DEF RecordingInv, HandlerInv
      <4>2. at'[l] = "publishing" =>
              \A j \in Calls : at'[j] = "publishing" /\ under[j] = under[l] => j = l
        BY <3>2, <3>4, <4>1 DEF Knows
      <4> QED BY <1>1, <1>8, <3>5, <4>1, <4>2 DEF Knows
    <3> QED BY <3>6, <3>7
  <2> QED BY <2>2, <2>4, <2>5, <2>6, <2>7, <2>8 DEF RecordingInv, HandlerInv
<1> QED BY <1>6, <1>7, <1>8

-----------------------------------------------------------------------------
(* The invariant: the steps of a collector *)

LEMMA SendStep ==
  ASSUME RecordingInv, NEW c \in Collectors, Send(c)  PROVE RecordingInv'
<1>1. PICK s \in {1, 2}, i \in NextIds(c) :
        /\ at[<<c, s>>] \notin Underway
        /\ at' = [at EXCEPT ![<<c, s>>] = "sent"]
        /\ sent' = [sent EXCEPT ![<<c, s>>] = wanted[c]]
        /\ under' = [under EXCEPT ![<<c, s>>] = i]
        /\ answer' = [answer EXCEPT ![<<c, s>>] = None]
        /\ latest' = [latest EXCEPT ![c] = s]
        /\ drawn' = [drawn EXCEPT ![c] = @ \cup {i}]
  BY DEF Send
<1>2. /\ client[c] = "ready" /\ client' = [client EXCEPT ![c] = "waiting"]
      /\ UNCHANGED <<wanted, unchecked, table, announced, existing, faults>>
  BY DEF Send
<1> PICK k \in Calls : k = <<c, s>>
  OBVIOUS
<1>3. i \in Draws[c] /\ i \in Ids
  BY DEF NextIds, Ids
<1>4. \A l \in Calls \ {k} : /\ at'[l] = at[l] /\ sent'[l] = sent[l] /\ under'[l] = under[l]
                            /\ answer'[l] = answer[l]
  BY <1>1 DEF RecordingInv, RecordingTypeOK
<1>5. at'[k] = "sent" /\ sent'[k] = wanted[c] /\ under'[k] = i
  BY <1>1 DEF RecordingInv, RecordingTypeOK
<1>6. /\ drawn'[c] = drawn[c] \cup {i} /\ latest'[c] = s /\ client'[c] = "waiting"
      /\ \A d \in Collectors \ {c} : /\ drawn'[d] = drawn[d] /\ latest'[d] = latest[d]
                                     /\ client'[d] = client[d]
  BY <1>1, <1>2 DEF RecordingInv, RecordingTypeOK
<1>7. RecordingTypeOK'
  <2>1. /\ DOMAIN sent' = Calls /\ DOMAIN answer' = Calls
        /\ client' \in [Collectors -> {"off", "ready", "waiting", "confirming", "done", "abandoned"}]
        /\ latest' \in [Collectors -> {1, 2}]
        /\ at' \in [Calls -> {"unused", "answered", "dropped"} \cup Underway]
    BY <1>1, <1>2 DEF RecordingInv, RecordingTypeOK
  <2>2. under' \in [Calls -> Ids \cup {None}]
    BY <1>1, <1>3 DEF RecordingInv, RecordingTypeOK
  <2>3. drawn' \in [Collectors -> SUBSET Ids]
        /\ \A d \in Collectors : drawn'[d] \subseteq Draws[d]
    BY <1>1, <1>3 DEF RecordingInv, RecordingTypeOK
  <2> QED BY <1>2, <2>1, <2>2, <2>3 DEF RecordingInv, RecordingTypeOK
<1>8. EntriesInv' /\ AnnouncedOnce'
  BY <1>2 DEF RecordingInv, EntriesInv, Own, IsEntry, ReadsAs, ChecksHold, AnnouncedOnce, Taken
<1>9. ASSUME NEW l \in Calls, at'[l] \in Underway  PROVE Knows(l)'
  <2>1. CASE l = k
    <3>1. IsRequest(wanted[c])
      BY DEF RecordingInv, RecordingTypeOK
    <3> QED BY <1>2, <1>5, <1>6, <2>1, <3>1 DEF Knows
  <2>2. CASE l # k
    <3>1. Knows(l) /\ at[l] \in Underway
      BY <1>4, <1>9, <2>2 DEF RecordingInv, HandlerInv
    <3>2. \A j \in Calls : at'[j] = "publishing" /\ under'[j] = under[l]
                          => at[j] = "publishing" /\ under[j] = under[l]
      BY <1>4, <1>5
    <3>3. drawn[l[1]] \subseteq drawn'[l[1]]
      BY <1>6
    <3> QED BY <1>2, <1>4, <2>2, <3>1, <3>2, <3>3 DEF Knows, Taken
  <2> QED BY <2>1, <2>2
<1>10. ClientInv'
  <2> SUFFICES ASSUME NEW d \in Collectors  PROVE Concludes(d, <<d, latest[d]>>)'
    BY DEF ClientInv
  <2>1. CASE d = c
    BY <1>2, <1>5, <1>6, <2>1 DEF Concludes
  <2>2. CASE d # c
    <3> PICK l \in Calls : l = <<d, latest[d]>>
      BY DEF RecordingInv, RecordingTypeOK
    <3>1. Concludes(d, l) /\ l # k /\ l = <<d, latest'[d]>>
      BY <1>6, <2>2 DEF RecordingInv, ClientInv
    <3>2. Concludes(d, l)'
      BY <1>2, <1>4, <1>6, <2>2, <3>1 DEF Concludes, Taken
    <3> QED BY <3>1, <3>2
  <2> QED BY <2>1, <2>2
<1>11. ValidatedRunsAreInserted'
  BY <1>4, <1>5 DEF RecordingInv, ValidatedRunsAreInserted
<1>12. DoneIsRecorded'
  BY <1>2, <1>6 DEF RecordingInv, DoneIsRecorded, Own, ReadsAs
<1> QED BY <1>7, <1>8, <1>9, <1>10, <1>11, <1>12 DEF RecordingInv, HandlerInv

\* What others do leaves a collector with its conclusions.
LEMMA SameConclusion ==
  ASSUME NEW d \in Collectors, NEW l \in Calls, Concludes(d, l), client'[d] = client[d],
         UNCHANGED <<wanted, drawn, calls, table>>
  PROVE  Concludes(d, l)'
<1>1. Taken(under[l])' <=> Taken(under[l])
  BY DEF Taken
<1>2. at' = at /\ sent' = sent /\ under' = under /\ answer' = answer
  OBVIOUS
<1> HIDE DEF calls
<1> QED BY <1>1, <1>2 DEF Concludes

\* A collector comes to be ready, done, or gives up.
LEMMA ConcludeStep ==
  ASSUME RecordingInv, NEW c \in Collectors,
         NEW to \in {"ready", "confirming", "done", "abandoned"}, Client(c, to),
         to = "confirming" => Taken(under[<<c, latest[c]>>])
                              /\ under[<<c, latest[c]>>] \in drawn[c],
         to = "done" /\ Own(c) =>
           \E r \in table : r.id \in drawn[c] /\ ReadsAs(r, wanted[c]),
         faults' \in Nat, existing \subseteq existing', existing' \subseteq References,
         UNCHANGED <<wanted, drawn, latest, calls, table, announced>>
  PROVE  RecordingInv'
<1>1. client \in [Collectors -> {"off", "ready", "waiting", "confirming", "done", "abandoned"}]
  BY DEF RecordingInv, RecordingTypeOK
<1>2. \A d \in Collectors : client'[d] = IF d = c THEN to ELSE client[d]
  BY <1>1
<1>3. RecordingTypeOK'
  BY <1>1 DEF RecordingInv, RecordingTypeOK
<1>4. EntriesInv' /\ AnnouncedOnce' /\ ValidatedRunsAreInserted'
  <2>1. EntriesInv'
    BY DEF RecordingInv, EntriesInv, Own, IsEntry, ReadsAs, ChecksHold
  <2> QED BY <2>1 DEF RecordingInv, AnnouncedOnce, Taken, ValidatedRunsAreInserted
<1>5. ASSUME NEW l \in Calls, at'[l] \in Underway  PROVE Knows(l)'
  <2>1. Knows(l) /\ at'[l] = at[l]
    BY <1>5 DEF RecordingInv, HandlerInv
  <2>2. \A f \in Ref : sent[l].refs[f] \in existing => sent[l].refs[f] \in existing'
    OBVIOUS
  <2> QED BY <2>1, <2>2 DEF Knows, Taken
<1>6. ASSUME NEW d \in Collectors  PROVE Concludes(d, <<d, latest[d]>>)'
  <2> PICK l \in Calls : l = <<d, latest[d]>>
    BY DEF RecordingInv, RecordingTypeOK
  <2>1. Concludes(d, l)
    BY DEF RecordingInv, ClientInv
  <2>2. Taken(under[l])' <=> Taken(under[l])
    BY DEF Taken
  <2>3. CASE d = c
    <3>1. client'[d] = to /\ to # "waiting"
      BY <1>2, <2>3
    <3>2. to = "confirming" => Taken(under[l]) /\ under[l] \in drawn[d]
      BY <2>3
    <3>3. Concludes(d, l)'
      BY <2>2, <3>1, <3>2 DEF Concludes
    <3> QED BY <3>3
  <2>4. CASE d # c
    <3>1. client'[d] = client[d]
      BY <1>2, <2>4
    <3> HIDE DEF Client
    <3>2. Concludes(d, l)'
      BY <2>1, <3>1, SameConclusion
    <3> QED BY <3>2
  <2> QED BY <2>3, <2>4
<1>7. DoneIsRecorded'
  <2> SUFFICES ASSUME NEW d \in Collectors, client'[d] = "done", Own(d)
               PROVE  \E r \in table : r.id \in drawn[d] /\ ReadsAs(r, wanted[d])
    BY DEF DoneIsRecorded, Own, ReadsAs
  <2> QED BY <1>2 DEF RecordingInv, DoneIsRecorded
<1> QED BY <1>3, <1>4, <1>5, <1>6, <1>7 DEF RecordingInv, HandlerInv, ClientInv

LEMMA ConfirmStep ==
  ASSUME RecordingInv, NEW c \in Collectors, Confirm(c)  PROVE RecordingInv'
<1>1. /\ client[c] = "confirming"
      /\ UNCHANGED <<wanted, drawn, latest, calls, table, announced, existing, faults>>
  BY DEF Confirm
<1>2. under[<<c, latest[c]>>] \in drawn[c] /\ faults' \in Nat /\ existing' \subseteq References
  BY <1>1 DEF RecordingInv, ClientInv, Concludes, RecordingTypeOK
<1>3. CASE Client(c, "abandoned")
  BY <1>1, <1>2, <1>3, ConcludeStep
<1>4. CASE /\ Client(c, "done")
           /\ \E r \in table : r.id = under[<<c, latest[c]>>] /\ ReadsAs(r, wanted[c])
  BY <1>1, <1>2, <1>4, ConcludeStep
<1> QED BY <1>3, <1>4 DEF Confirm

LEMMA TimeOutStep ==
  ASSUME RecordingInv, NEW c \in Collectors, TimeOut(c)  PROVE RecordingInv'
<1>1. Client(c, "ready") /\ UNCHANGED <<wanted, drawn, latest, calls, table, announced, existing>>
  BY DEF TimeOut
<1>2. faults' \in Nat
  <2>1. faults \in Nat /\ (faults' = faults \/ faults' = faults + 1)
    BY DEF RecordingInv, RecordingTypeOK, TimeOut, Fault
  <2> QED BY <2>1
<1>3. existing' \subseteq References
  BY <1>1 DEF RecordingInv, RecordingTypeOK
<1> QED BY <1>1, <1>2, <1>3, ConcludeStep

\* A collector learns from an answer only what is so.
LEMMA LearnStep ==
  ASSUME RecordingInv, NEW c \in Collectors, Learn(c)  PROVE RecordingInv'
<1> DEFINE k == <<c, latest[c]>>
<1>1. /\ client[c] = "waiting" /\ at[k] = "answered"
      /\ UNCHANGED <<drawn, latest, calls, table, announced, faults>>
  BY DEF Learn
<1>2. /\ answer[k].status \in {201, 409} => Taken(under[k]) /\ under[k] \in drawn[c]
      /\ answer[k].status = 400 /\ answer[k].field \notin Ref => ~ Accepts(wanted[c])
      /\ answer[k].field \in Ref => wanted[c].refs[answer[k].field] \in References
  BY <1>1 DEF RecordingInv, ClientInv, Concludes
<1>3. faults' \in Nat /\ existing \subseteq References /\ drawn[c] \subseteq Draws[c]
      /\ IsRequest(wanted[c])
  BY <1>1 DEF RecordingInv, RecordingTypeOK
<1> HIDE DEF Client
<1>4. CASE /\ answer[k].status \in {201, 409} /\ Client(c, "done")
           /\ UNCHANGED <<wanted, existing>>
  <2>1. Own(c) => \E r \in table : r.id \in drawn[c] /\ ReadsAs(r, wanted[c])
    BY <1>2, <1>3, <1>4 DEF RecordingInv, EntriesInv, Taken
  <2>2. UNCHANGED <<wanted, drawn, latest, calls, table, announced>> /\ existing' = existing
    BY <1>1, <1>4
  <2> QED BY <1>3, <1>4, <2>1, <2>2, ConcludeStep
<1>5. CASE /\ answer[k].status \in {201, 409} /\ Client(c, "confirming")
           /\ UNCHANGED <<wanted, existing>>
  <2>1. UNCHANGED <<wanted, drawn, latest, calls, table, announced>> /\ existing' = existing
    BY <1>1, <1>5
  <2> QED BY <1>2, <1>3, <1>5, <2>1, ConcludeStep
<1>6. CASE (Client(c, "ready") \/ Client(c, "abandoned")) /\ UNCHANGED <<wanted, existing>>
  <2>1. CASE Client(c, "ready")
    BY <1>1, <1>3, <1>6, <2>1, ConcludeStep
  <2>2. CASE Client(c, "abandoned")
    BY <1>1, <1>3, <1>6, <2>2, ConcludeStep
  <2> QED BY <1>6, <2>1, <2>2
<1>7. CASE answer[k].field \in Ref /\ Client(c, "ready") /\ Store(wanted[c].refs[answer[k].field])
  BY <1>1, <1>2, <1>3, <1>7, ConcludeStep DEF Store
<1>8. CASE /\ answer[k].status = 400 /\ answer[k].field \in Early \cup Late \cup HostField
           /\ Client(c, "ready") /\ Correct(c, answer[k].field)
  <2> USE DEF Correct
  <2>1. ~ Accepts(wanted[c])
    BY <1>2, <1>8, FieldNames
  <2>2. IsRequest(Corrected(wanted[c], answer[k].field))
    BY <1>3, <1>8, CorrectedIsRequest
  <2>3. /\ wanted'[c] = Corrected(wanted[c], answer[k].field)
        /\ \A d \in Collectors \ {c} : wanted'[d] = wanted[d]
        /\ client' = [client EXCEPT ![c] = "ready"]
        /\ client'[c] = "ready" /\ \A d \in Collectors \ {c} : client'[d] = client[d]
    <3>1. DOMAIN wanted = Collectors
          /\ client \in [Collectors -> {"off", "ready", "waiting", "confirming", "done", "abandoned"}]
      BY DEF RecordingInv, RecordingTypeOK
    <3> QED BY <1>8, <3>1 DEF Client
  <2>4. RecordingTypeOK'
    <3>1. DOMAIN wanted' = Collectors /\ \A d \in Collectors : IsRequest(wanted'[d])
      <4>1. /\ DOMAIN wanted = Collectors
            /\ \A d \in Collectors : IsRequest(wanted[d])
        BY DEF RecordingInv, RecordingTypeOK
      <4> QED BY <1>8, <2>2, <2>3, <4>1
    <3>2. client' \in [Collectors -> {"off", "ready", "waiting", "confirming", "done", "abandoned"}]
      BY <2>3 DEF RecordingInv, RecordingTypeOK
    <3>3. drawn' = drawn /\ at' = at /\ existing' = existing
      BY <1>1, <1>8
    <3> QED BY <1>1, <3>1, <3>2, <3>3 DEF RecordingInv, RecordingTypeOK
  <2>5. EntriesInv'
    <3>1. \A d \in Collectors, r \in table : Own(d) /\ r.id \in Draws[d] =>
            Accepts(wanted'[d]) /\ ReadsAs(r, wanted'[d])
      BY <2>1, <2>3 DEF RecordingInv, EntriesInv
    <3> QED BY <1>1, <3>1 DEF RecordingInv, EntriesInv, Own, IsEntry, ReadsAs, ChecksHold
  <2>6. ASSUME NEW l \in Calls, at'[l] \in Underway  PROVE Knows(l)'
    <3>1. Knows(l)
      BY <1>1, <2>6 DEF RecordingInv, HandlerInv
    <3>2. Accepts(sent[l]) => sent[l] = wanted'[l[1]]
      BY <2>1, <2>3, <3>1 DEF Knows
    <3> QED BY <1>1, <1>8, <3>1, <3>2 DEF Knows, Taken
  <2>7. ClientInv'
    BY <1>1, <2>3 DEF RecordingInv, ClientInv, Concludes, Taken
  <2>8. ValidatedRunsAreInserted' /\ AnnouncedOnce'
    BY <1>1 DEF RecordingInv, ValidatedRunsAreInserted, AnnouncedOnce, Taken
  <2>9. DoneIsRecorded'
    <3>1. \A d \in Collectors : client'[d] = "done" => client[d] = "done" /\ wanted'[d] = wanted[d]
      BY <2>3
    <3>2. drawn' = drawn /\ table' = table
      BY <1>1
    <3> QED BY <3>1, <3>2 DEF RecordingInv, DoneIsRecorded, Own, ReadsAs
  <2> QED BY <2>4, <2>5, <2>6, <2>7, <2>8, <2>9 DEF RecordingInv, HandlerInv
<1> HIDE DEF calls, collector, Underway, Calls, recordingVars, Client, Proceed, Answer
<1>9. \/ answer[k].status \in {201, 409}
           /\ (Client(c, "done") \/ Client(c, "confirming")) /\ UNCHANGED <<wanted, existing>>
      \/ (Client(c, "ready") \/ Client(c, "abandoned")) /\ UNCHANGED <<wanted, existing>>
      \/ answer[k].field \in Ref /\ Client(c, "ready") /\ Store(wanted[c].refs[answer[k].field])
      \/ /\ answer[k].status = 400 /\ answer[k].field \in Early \cup Late \cup HostField
         /\ Client(c, "ready") /\ Correct(c, answer[k].field)
  BY DEF Learn
<1> QED BY <1>4, <1>5, <1>6, <1>7, <1>8, <1>9

-----------------------------------------------------------------------------
(* The theorems *)

LEMMA StepRecording ==
  ASSUME RecordingInv, [RecordingNext]_recordingVars  PROVE RecordingInv'
<1>1. ASSUME NEW k \in Calls, Handle(k)  PROVE RecordingInv'
  BY <1>1, ReceiveStep, LookUpStep, InsertStep, PublishStep, ReadBackStep DEF Handle
<1>2. ASSUME NEW k \in Calls, QueryFails(k) \/ Drop(k)  PROVE RecordingInv'
  BY <1>2, QueryFailsStep, DropStep
<1>3. ASSUME NEW c \in Collectors, Collect(c)  PROVE RecordingInv'
  BY <1>3, SendStep, LearnStep, ConfirmStep, TimeOutStep DEF Collect
<1>4. CASE UNCHANGED recordingVars
  <2>1. RecordingTypeOK'
    BY <1>4 DEF RecordingInv, RecordingTypeOK
  <2>2. EntriesInv' /\ DoneIsRecorded'
    BY <1>4 DEF RecordingInv, EntriesInv, DoneIsRecorded, Own, IsEntry, ReadsAs, ChecksHold
  <2>3. ASSUME NEW k \in Calls, at'[k] \in Underway  PROVE Knows(k)'
    <3>1. Knows(k)
      BY <1>4, <2>3 DEF RecordingInv, HandlerInv
    <3> QED BY <1>4, <3>1 DEF Knows, Taken
  <2>4. ASSUME NEW c \in Collectors  PROVE Concludes(c, <<c, latest[c]>>)'
    <3>1. Concludes(c, <<c, latest[c]>>)
      BY DEF RecordingInv, ClientInv
    <3> QED BY <1>4, <3>1 DEF Concludes, Taken
  <2>5. ValidatedRunsAreInserted' /\ AnnouncedOnce'
    BY <1>4 DEF RecordingInv, ValidatedRunsAreInserted, AnnouncedOnce, Taken
  <2> QED BY <2>1, <2>2, <2>3, <2>4, <2>5 DEF RecordingInv, HandlerInv, ClientInv
<1> HIDE DEF Calls, recordingVars
<1> QED BY <1>1, <1>2, <1>3, <1>4 DEF RecordingNext

\* Whatever is lost, repeated or refused, the invariant of `create_run` and the
\* collectors that call it holds.
THEOREM RecordingIsInvariant == RecordingSpec => []RecordingInv
<1>1. RecordingInit => RecordingInv
  BY InitRecording
<1>2. RecordingInv /\ [RecordingNext]_recordingVars => RecordingInv'
  BY StepRecording
<1> QED BY <1>1, <1>2, PTL DEF RecordingSpec

\* "Validation above mirrors every CHECK": no run that `to_new_run` accepts is
\* turned down by a constraint of the table, whatever is in its fields.
THEOREM ValidatedRunsAreInsertedHolds == RecordingSpec => []ValidatedRunsAreInserted
<1>1. RecordingInv => ValidatedRunsAreInserted
  BY DEF RecordingInv
<1> QED BY <1>1, RecordingIsInvariant, PTL

\* A collector that has been told 201, or takes a 409 for it, is right: its run
\* is recorded, and reads as what it sent.
THEOREM DoneIsRecordedHolds == RecordingSpec => []DoneIsRecorded
<1>1. RecordingInv => DoneIsRecorded
  BY DEF RecordingInv
<1> QED BY <1>1, RecordingIsInvariant, PTL

\* However often a run is posted, `run.created` names it once at the most, and
\* never before it is there.
THEOREM AnnouncedOnceHolds == RecordingSpec => []AnnouncedOnce
<1>1. RecordingInv => AnnouncedOnce
  BY DEF RecordingInv
<1> QED BY <1>1, RecordingIsInvariant, PTL

-----------------------------------------------------------------------------
(* The refinement of RunLedger *)

LEMMA StepRefines ==
  ASSUME RecordingInv, [RecordingNext]_recordingVars  PROVE [Ledger!Next]_entries
<1>1. CASE table' = table
  BY <1>1 DEF entries
<1>2. ASSUME NEW k \in Calls, Insert(k)  PROVE [Ledger!Next]_entries
  <2> DEFINE row == Row(under[k], sent[k])
  <2>1. under[k] \in Ids /\ row.id = under[k] /\ IsEntry(row)
    BY <1>2, InsertCases
  <2>2. CASE table' = table
    BY <1>1, <2>2
  <2>3. CASE ~ Taken(row.id) /\ table' = table \cup {row}
    <3> HIDE DEF row
    <3>1. entries[under[k]] = {}
      BY <2>1, <2>3 DEF entries, Taken
    <3>2. entries' = [entries EXCEPT ![under[k]] = {row}]
      <4>1. \A i \in Ids : {r \in table' : r.id = i}
                           = IF i = under[k] THEN {row} ELSE {r \in table : r.id = i}
        BY <2>1, <2>3 DEF Taken
      <4> QED BY <4>1 DEF entries
    <3>3. row \in entries'[under[k]]
      BY <2>1, <2>3 DEF entries
    <3> QED BY <2>1, <3>1, <3>2, <3>3 DEF Ledger!Next, Ledger!Record
  <2> QED BY <1>2, <2>2, <2>3, InsertCases DEF Conflict
<1>3. CASE UNCHANGED recordingVars
  BY <1>1, <1>3
<1>4. ASSUME NEW k \in Calls, Handle(k) \/ QueryFails(k) \/ Drop(k)
      PROVE  table' = table \/ Insert(k)
  BY <1>4 DEF Handle, Receive, LookUp, Publish, ReadBack, QueryFails, Drop
<1>5. ASSUME NEW c \in Collectors, Collect(c)  PROVE table' = table
  BY <1>5 DEF Collect, Send, Learn, Confirm, TimeOut
<1> HIDE DEF Calls, recordingVars
<1> QED BY <1>1, <1>2, <1>3, <1>4, <1>5 DEF RecordingNext

\* POST /api/v1/runs is a ledger: a run is recorded under its id once, whole and
\* readable, and stays as it is.
THEOREM RefinesLedger == RecordingSpec => ImplementsLedger
<1>1. RecordingInit => Ledger!Init
  BY DEF RecordingInit, Ledger!Init, entries
<1>2. RecordingInv /\ [RecordingNext]_recordingVars => [Ledger!Next]_entries
  BY StepRefines
<1> QED BY <1>1, <1>2, RecordingIsInvariant, PTL DEF RecordingSpec, ImplementsLedger, Ledger!Spec

-----------------------------------------------------------------------------
(* What a refusal names *)

\* What is wrong with the host of a request.
HostWrong(req) ==
  RangeViolations(req.host)
    \cup PlatformViolations(req.host, req.body["platform"], req.body["device_class"])

\* In an order, a set with some of its members has a first one.
LEMMA FirstExists ==
  ASSUME NEW order, NEW n \in Nat, DOMAIN order = 1..n,
         NEW S, \E i \in DOMAIN order : order[i] \in S
  PROVE  \E f \in S : First(f, order, S)
<1> DEFINE T == {i \in 1..n : order[i] \in S}
<1>1. T \subseteq Nat /\ T # {}
  OBVIOUS
<1>2. PICK i \in T : \A j \in T : <<j, i>> \notin OpToRel(<, Nat)
  <2> HIDE DEF T
  <2> QED BY <1>1, WFMin, NatLessThanWellFounded, Zenon
<1>3. \A j \in T : <<j, i>> \in Nat \X Nat /\ ~ (j < i)
  <2>1. \A j \in T : j \in Nat /\ i \in Nat
    BY <1>1
  <2>2. \A j \in T : ~ (j < i)
    <3> HIDE DEF T
    <3> QED BY <1>2, <2>1, Zenon DEF OpToRel
  <2> QED BY <2>1, <2>2
<1>4. \A j \in 1..(i - 1) : order[j] \notin S
  <2>1. i \in 1..n /\ \A j \in 1..(i - 1) : j \in 1..n /\ j < i
    OBVIOUS
  <2> QED BY <1>3, <2>1
<1>5. First(order[i], order, S)
  BY <1>4 DEF First
<1> QED BY <1>5

\* And only one.
LEMMA FirstIsUnique ==
  ASSUME NEW order, NEW n \in Nat, DOMAIN order = 1..n, NEW S,
         NEW f, NEW g, First(f, order, S), First(g, order, S)
  PROVE  f = g
<1>1. PICK i \in 1..n : order[i] = f /\ \A k \in 1..(i - 1) : order[k] \notin S
  BY DEF First
<1>2. PICK j \in 1..n : order[j] = g /\ \A k \in 1..(j - 1) : order[k] \notin S
  BY DEF First
<1>3. f \in S /\ g \in S
  BY DEF First
<1>4. ~ (i < j) /\ ~ (j < i)
  BY <1>1, <1>2, <1>3
<1> QED BY <1>1, <1>2, <1>4

\* The rules of the host have each field that they can find wrong in their order.
LEMMA RangeOrdered ==
  ASSUME NEW in
  PROVE  /\ DOMAIN RangeOrder = 1..8
         /\ \A f \in RangeViolations(in) : \E i \in DOMAIN RangeOrder : RangeOrder[i] = f
<1>1. DOMAIN RangeOrder = 1..8
  BY DEF RangeOrder
<1>2. \A f \in RangeViolations(in) :
        f \in {"gpu_clock_mhz", "mif_clock_mhz", "int_clock_mhz", "initial_temperature_celsius",
               "max_temperature_celsius", "device_uptime_seconds", "host_cpu_count",
               "host_memory_bytes"}
  BY DEF RangeViolations, OutOfRange, Clocks, Temperatures
<1>3. /\ RangeOrder[1] = "gpu_clock_mhz" /\ RangeOrder[2] = "mif_clock_mhz"
      /\ RangeOrder[3] = "int_clock_mhz" /\ RangeOrder[4] = "initial_temperature_celsius"
      /\ RangeOrder[5] = "max_temperature_celsius" /\ RangeOrder[6] = "device_uptime_seconds"
      /\ RangeOrder[7] = "host_cpu_count" /\ RangeOrder[8] = "host_memory_bytes"
  BY DEF RangeOrder
<1> QED BY <1>1, <1>2, <1>3

\* One list after another.
LEMMA Joined ==
  ASSUME NEW S, NEW a \in Seq(S), NEW b \in Seq(S)
  PROVE  /\ DOMAIN (a \o b) = 1..(Len(a) + Len(b))
         /\ \A i \in 1..(Len(a) + Len(b)) :
              (a \o b)[i] = IF i <= Len(a) THEN a[i] ELSE b[i - Len(a)]
<1> DEFINE c == a \o b
<1>1. /\ c \in Seq(S) /\ Len(c) = Len(a) + Len(b)
      /\ \A i \in 1..(Len(a) + Len(b)) : c[i] = IF i <= Len(a) THEN a[i] ELSE b[i - Len(a)]
  BY ConcatProperties
<1>2. DOMAIN c = 1..Len(c)
  <2> HIDE DEF c
  <2> QED BY <1>1
<1> QED BY <1>1, <1>2

\* And those of the platform, which come after them.
LEMMA PlatformOrdered ==
  ASSUME NEW in, NEW p, NEW c
  PROVE  /\ DOMAIN PlatformOrder(p) = 1..(IF p = "linux" THEN 12 ELSE 10)
         /\ \A f \in PlatformViolations(in, p, c) :
              \E i \in DOMAIN PlatformOrder(p) : PlatformOrder(p)[i] = f
<1> DEFINE o == PlatformOrder(p)
<1>0. LabOrder \in Seq(HostField) /\ Len(LabOrder) = 5
  BY DEF LabOrder, HostField, Lab, Clocks
<1>3. /\ LabOrder[1] = "bsp_version" /\ LabOrder[2] = "sumd_driver_version"
      /\ LabOrder[3] = "gpu_clock_mhz" /\ LabOrder[4] = "mif_clock_mhz"
      /\ LabOrder[5] = "int_clock_mhz"
  BY DEF LabOrder
<1>1. CASE p = "linux"
  <2> DEFINE s == <<"battery_charging", "initial_temperature_celsius",
              "max_temperature_celsius", "host_os", "host_kernel", "host_cpu_model",
              "host_accelerator">>
  <2>1. o = LabOrder \o s
    BY <1>1 DEF PlatformOrder
  <2>8. s \in Seq(HostField) /\ Len(s) = 7
    BY DEF HostField, Lab, Clocks, Temperatures, Description
  <2>6. /\ s[1] = "battery_charging" /\ s[2] = "initial_temperature_celsius"
        /\ s[3] = "max_temperature_celsius" /\ s[4] = "host_os" /\ s[5] = "host_kernel"
        /\ s[6] = "host_cpu_model" /\ s[7] = "host_accelerator"
    OBVIOUS
  <2>7. /\ DOMAIN o = 1..(5 + 7)
        /\ \A i \in 1..(5 + 7) : o[i] = IF i <= 5 THEN LabOrder[i] ELSE s[i - 5]
    <3> HIDE DEF s, o
    <3>1. /\ DOMAIN o = 1..(Len(LabOrder) + Len(s))
          /\ \A i \in 1..(Len(LabOrder) + Len(s)) :
               o[i] = IF i <= Len(LabOrder) THEN LabOrder[i] ELSE s[i - Len(LabOrder)]
      BY <1>0, <2>1, <2>8, Joined, Zenon
    <3> QED BY <1>0, <2>8, <3>1
  <2>2. \A f \in PlatformViolations(in, p, c) :
          f \in {"bsp_version", "sumd_driver_version", "gpu_clock_mhz", "mif_clock_mhz",
              "int_clock_mhz", "battery_charging", "initial_temperature_celsius",
              "max_temperature_celsius", "host_os", "host_kernel", "host_cpu_model",
              "host_accelerator"}
    BY <1>1 DEF PlatformViolations, PhoneOnly, LinuxRequires, Lab, Clocks, Temperatures,
                Given, Missing
  <2> HIDE DEF o, s
  <2>3. DOMAIN o = 1..12
    BY <2>7
  <2>4. /\ o[1] = "bsp_version" /\ o[2] = "sumd_driver_version" /\ o[3] = "gpu_clock_mhz"
        /\ o[4] = "mif_clock_mhz" /\ o[5] = "int_clock_mhz" /\ o[6] = "battery_charging"
        /\ o[7] = "initial_temperature_celsius" /\ o[8] = "max_temperature_celsius"
        /\ o[9] = "host_os" /\ o[10] = "host_kernel" /\ o[11] = "host_cpu_model"
        /\ o[12] = "host_accelerator"
    BY <1>3, <2>6, <2>7
  <2>5. \A f \in PlatformViolations(in, p, c) : \E i \in DOMAIN o : o[i] = f
    BY <2>2, <2>3, <2>4
  <2> QED BY <1>1, <2>3, <2>5 DEF o
<1>2. CASE p # "linux"
  <2> DEFINE s == <<"device_uptime_seconds", "battery_charging",
              "initial_temperature_celsius", "max_temperature_celsius",
              "thermal_throttling">>
  <2>1. o = LabOrder \o s
    BY <1>2 DEF PlatformOrder
  <2>8. s \in Seq(HostField) /\ Len(s) = 5
    BY DEF HostField, Lab, Clocks, Temperatures, Description
  <2>6. /\ s[1] = "device_uptime_seconds" /\ s[2] = "battery_charging"
        /\ s[3] = "initial_temperature_celsius" /\ s[4] = "max_temperature_celsius"
        /\ s[5] = "thermal_throttling"
    OBVIOUS
  <2>7. /\ DOMAIN o = 1..(5 + 5)
        /\ \A i \in 1..(5 + 5) : o[i] = IF i <= 5 THEN LabOrder[i] ELSE s[i - 5]
    <3> HIDE DEF s, o
    <3>1. /\ DOMAIN o = 1..(Len(LabOrder) + Len(s))
          /\ \A i \in 1..(Len(LabOrder) + Len(s)) :
               o[i] = IF i <= Len(LabOrder) THEN LabOrder[i] ELSE s[i - Len(LabOrder)]
      BY <1>0, <2>1, <2>8, Joined, Zenon
    <3> QED BY <1>0, <2>8, <3>1
  <2>2. \A f \in PlatformViolations(in, p, c) :
          f \in {"bsp_version", "sumd_driver_version", "gpu_clock_mhz", "mif_clock_mhz",
              "int_clock_mhz", "device_uptime_seconds", "battery_charging",
              "initial_temperature_celsius", "max_temperature_celsius",
              "thermal_throttling"}
    BY <1>2 DEF PlatformViolations, LabViolations, LabRequires, Lab, Clocks, Temperatures,
                Given, Missing
  <2> HIDE DEF o, s
  <2>3. DOMAIN o = 1..10
    BY <2>7
  <2>4. /\ o[1] = "bsp_version" /\ o[2] = "sumd_driver_version" /\ o[3] = "gpu_clock_mhz"
        /\ o[4] = "mif_clock_mhz" /\ o[5] = "int_clock_mhz" /\ o[6] = "device_uptime_seconds"
        /\ o[7] = "battery_charging" /\ o[8] = "initial_temperature_celsius"
        /\ o[9] = "max_temperature_celsius" /\ o[10] = "thermal_throttling"
    BY <1>3, <2>6, <2>7
  <2>5. \A f \in PlatformViolations(in, p, c) : \E i \in DOMAIN o : o[i] = f
    BY <2>2, <2>3, <2>4
  <2> QED BY <1>2, <2>3, <2>5 DEF o
<1> QED BY <1>1, <1>2

\* A refusal names a field that is wrong, and where nothing is wrong there is none:
\* `sent` is never left without an answer.
THEOREM RefusalsNameAField ==
  ASSUME NEW req, req.form = "ok"
  PROVE  ~ Accepts(req) <=>
           \E f \in Early \cup Late \cup HostField : ErrorField(f, req)
<1> DEFINE p == req.body["platform"]
           c == req.body["device_class"]
<1>1. DOMAIN EarlyOrder = 1..10 /\ DOMAIN LateOrder = 1..6
  BY DEF EarlyOrder, LateOrder
<1>2. \A f \in Early : \E i \in DOMAIN EarlyOrder : EarlyOrder[i] = f
  BY DEF Early, Fields
<1>3. \A f \in Late : \E i \in DOMAIN LateOrder : LateOrder[i] = f
  BY DEF Late, Fields
<1>4. ASSUME Invalid(req, Early) # {}
      PROVE  \E f \in Early : ErrorField(f, req)
  <2>1. Invalid(req, Early) \subseteq Early
    BY DEF Invalid
  <2>2. \E f \in Invalid(req, Early) : First(f, EarlyOrder, Invalid(req, Early))
    <3>1. 10 \in Nat /\ \E i \in DOMAIN EarlyOrder : EarlyOrder[i] \in Invalid(req, Early)
      BY <1>2, <1>4, <2>1
    <3> QED BY <1>1, <3>1, FirstExists
  <2> QED BY <1>4, <2>1, <2>2 DEF ErrorField
<1>5. ASSUME Invalid(req, Early) = {}, RangeViolations(req.host) # {}
      PROVE  \E f \in HostField : ErrorField(f, req)
  <2>1. \E f \in RangeViolations(req.host) : First(f, RangeOrder, RangeViolations(req.host))
    <3>1. 8 \in Nat /\ \E i \in DOMAIN RangeOrder : RangeOrder[i] \in RangeViolations(req.host)
      BY <1>5, RangeOrdered
    <3> QED BY <3>1, FirstExists, RangeOrdered
  <2>2. RangeViolations(req.host) \subseteq HostField
    BY DEF RangeViolations
  <2> QED BY <1>5, <2>1, <2>2 DEF ErrorField, HostError, HostOk, HostAccepts
<1>6. ASSUME Invalid(req, Early) = {}, RangeViolations(req.host) = {},
             PlatformViolations(req.host, p, c) # {}
      PROVE  \E f \in HostField : ErrorField(f, req)
  <2>1. (IF p = "linux" THEN 12 ELSE 10) \in Nat
    OBVIOUS
  <2>2. \E f \in PlatformViolations(req.host, p, c) :
           First(f, PlatformOrder(p), PlatformViolations(req.host, p, c))
    BY <1>6, <2>1, FirstExists, PlatformOrdered
  <2>3. PlatformViolations(req.host, p, c) \subseteq HostField
    BY DEF PlatformViolations, LabViolations, LabRequires, PhoneOnly, LinuxRequires, Lab,
           HostField, Description, Missing, Given
  <2> QED BY <1>6, <2>2, <2>3 DEF ErrorField, HostError, HostOk, HostAccepts
<1>7. ASSUME Invalid(req, Early) = {}, HostOk(req), Invalid(req, Late) # {}
      PROVE  \E f \in Late : ErrorField(f, req)
  <2>1. Invalid(req, Late) \subseteq Late
    BY DEF Invalid
  <2>2. \E f \in Invalid(req, Late) : First(f, LateOrder, Invalid(req, Late))
    <3>1. 6 \in Nat /\ \E i \in DOMAIN LateOrder : LateOrder[i] \in Invalid(req, Late)
      BY <1>3, <1>7, <2>1
    <3> QED BY <1>1, <3>1, FirstExists
  <2> QED BY <1>7, <2>1, <2>2 DEF ErrorField
<1>8. ASSUME Accepts(req), NEW f PROVE ~ ErrorField(f, req)
  BY <1>8 DEF Accepts, ErrorField, Invalid, First
<1>9. HostOk(req) <=> RangeViolations(req.host) = {} /\ PlatformViolations(req.host, p, c) = {}
  BY DEF HostOk, HostAccepts
<1>10. Accepts(req) <=> Invalid(req, Early) = {} /\ HostOk(req) /\ Invalid(req, Late) = {}
  BY DEF Accepts, Invalid
<1> HIDE DEF p, c
<1> QED BY <1>4, <1>5, <1>6, <1>7, <1>8, <1>9, <1>10
\* It names one field only.
THEOREM RefusalsNameOneField ==
  ASSUME NEW req, NEW f, ErrorField(f, req), NEW g, ErrorField(g, req)
  PROVE  f = g
<1> DEFINE p == req.body["platform"]
           c == req.body["device_class"]
<1>1. DOMAIN EarlyOrder = 1..10 /\ DOMAIN LateOrder = 1..6 /\ DOMAIN RangeOrder = 1..8
  BY DEF EarlyOrder, LateOrder, RangeOrder
<1>2. PICK n \in Nat : DOMAIN PlatformOrder(p) = 1..n
  BY PlatformOrdered
<1>3. 10 \in Nat /\ 6 \in Nat /\ 8 \in Nat
  OBVIOUS
<1>4. CASE Invalid(req, Early) # {}
  BY <1>1, <1>3, <1>4, FirstIsUnique DEF ErrorField
<1>5. CASE Invalid(req, Early) = {} /\ ~ HostOk(req) /\ RangeViolations(req.host) # {}
  BY <1>1, <1>3, <1>5, FirstIsUnique DEF ErrorField, HostError
<1>6. CASE Invalid(req, Early) = {} /\ ~ HostOk(req) /\ RangeViolations(req.host) = {}
  BY <1>2, <1>6, FirstIsUnique DEF ErrorField, HostError
<1>7. CASE Invalid(req, Early) = {} /\ HostOk(req)
  BY <1>1, <1>3, <1>7, FirstIsUnique DEF ErrorField
<1> QED BY <1>4, <1>5, <1>6, <1>7

\* The fields of the body and of the host have different names.
LEMMA BodyOrHost == (Early \cup Late) \cap HostField = {} /\ Early \cap Late = {}
BY DEF Early, Late, Fields, EarlyOrder, LateOrder, HostField, Lab, Clocks, Temperatures,
       Description

\* A value that corrects a field of the host is in range.
LEMMA HostCorrected ==
  ASSUME NEW req, IsRequest(req), NEW f \in HostField
  PROVE  LET v   == IF req.body["platform"] = "linux" /\ f \in PhoneOnly THEN Absent ELSE 1
             new == Corrected(req, f)
         IN  /\ new.body = req.body
             /\ \A g \in HostField : new.host[g] = IF g = f THEN v ELSE req.host[g]
<1>1. /\ DOMAIN req = {"form", "body", "host", "refs"}
      /\ req.host \in [HostField -> Value]
  BY DEF IsRequest, HostInput
<1>2. Corrected(req, f) = [req EXCEPT !.host[f] =
        IF req.body["platform"] = "linux" /\ f \in PhoneOnly THEN Absent ELSE 1]
  BY BodyOrHost DEF Corrected
<1> QED BY <1>1, <1>2

\* And one that corrects a field of the body is valid.
LEMMA BodyCorrected ==
  ASSUME NEW req, IsRequest(req), NEW f \in Early \cup Late
  PROVE  LET new == Corrected(req, f)
         IN  /\ new.host = req.host
             /\ \A g \in (Early \cup Late) \ {f} : new.body[g] = req.body[g]
             /\ ~ BodyInvalid(f, new.body[f])
<1> DEFINE v == CASE f \in Enumerated         -> CHOOSE w \in Enumeration(f) : TRUE
                  [] f \in Counts             -> 0
                  [] f \in Digests            -> "hex64"
                  [] f = "command_args"       -> "strings"
                  [] f \in {"input_parameters", "env_vars"}    -> "object"
                  [] f \in {"device_serial", "git_commit_sha"} -> "text"
<1>1. /\ DOMAIN req = {"form", "body", "host", "refs"} /\ DOMAIN req.body = Body
  BY DEF IsRequest
<1>2. Corrected(req, f) = [req EXCEPT !.body[f] = v]
  BY BodyOrHost DEF Corrected
<1>3. f \in Body /\ Early \cup Late \subseteq Body
  BY DEF Body
<1>4. ~ BodyInvalid(f, v)
  <2>1. f \in {"platform", "device_class", "exit_status", "correctness_result",
               "repetition", "command_args", "input_parameters", "env_vars", "device_serial",
               "git_commit_sha", "executable_sha256", "prompt_sha256", "input_token_count",
               "output_token_count", "prefill_tokens_per_sec", "decode_tokens_per_sec"}
    BY DEF Early, Late, Fields, EarlyOrder, LateOrder
  <2>2. CASE f \in Enumerated
    <3>1. \E w \in Enumeration(f) : TRUE
      BY <2>2 DEF Enumeration, Enumerated, Platforms, Classes, Statuses, Correctness
    <3>2. f \notin Counts \cup Digests \cup {"command_args", "input_parameters", "env_vars",
                                             "device_serial", "git_commit_sha"}
      BY <2>2 DEF Enumerated, Counts, Digests
    <3>3. v \in Enumeration(f)
      BY <2>2, <3>1, <3>2
    <3> HIDE DEF v
    <3> QED BY <2>2, <3>2, <3>3 DEF BodyInvalid
  <2>3. CASE f \in Counts
    <3>1. v = 0 /\ f \notin Enumerated \cup Digests \cup {"command_args", "input_parameters",
                                  "env_vars", "device_serial", "git_commit_sha"}
      BY <2>3 DEF Enumerated, Counts, Digests
    <3> HIDE DEF v
    <3> QED BY <2>3, <3>1 DEF BodyInvalid
  <2>4. CASE f \in Digests
    <3>1. v = "hex64" /\ f \notin Enumerated \cup Counts \cup {"command_args", "input_parameters",
                                  "env_vars", "device_serial", "git_commit_sha"}
      BY <2>4 DEF Enumerated, Counts, Digests
    <3> HIDE DEF v
    <3> QED BY <2>4, <3>1 DEF BodyInvalid
  <2>5. CASE f \notin Enumerated \cup Counts \cup Digests
    <3>1. f \in {"command_args", "input_parameters", "env_vars", "device_serial",
                 "git_commit_sha"}
      BY <2>1, <2>5 DEF Enumerated, Counts, Digests
    <3>2. v = IF f = "command_args" THEN "strings"
              ELSE IF f \in {"input_parameters", "env_vars"} THEN "object" ELSE "text"
      BY <2>5, <3>1
    <3> HIDE DEF v
    <3> QED BY <2>5, <3>1, <3>2 DEF BodyInvalid
  <2> QED BY <2>2, <2>3, <2>4, <2>5
<1> HIDE DEF v
<1> QED BY <1>1, <1>2, <1>3, <1>4

\* Who corrects the field that a refusal names, and nothing else, puts it right
\* and nothing wrong that was looked at before it: the fields of the body up to
\* the host, the host, the rest of the body.  So an honest collector is refused
\* no more often than there are fields.
THEOREM CorrectionsConverge ==
  ASSUME NEW req, IsRequest(req), NEW f, ErrorField(f, req)
  PROVE  LET new == Corrected(req, f)
         IN  \/ /\ f \in Invalid(req, Early)
                /\ Invalid(new, Early) = Invalid(req, Early) \ {f}
             \/ /\ f \in HostWrong(req) /\ Invalid(new, Early) = {}
                /\ HostWrong(new) = HostWrong(req) \ {f}
             \/ /\ f \in Invalid(req, Late) /\ Invalid(new, Early) = {} /\ HostWrong(new) = {}
                /\ Invalid(new, Late) = Invalid(req, Late) \ {f}
<1> DEFINE new == Corrected(req, f)
           p == req.body["platform"]
           c == req.body["device_class"]
<1>0. "platform" \in Early /\ "device_class" \in Early
  <2>1. EarlyOrder[1] = "platform" /\ EarlyOrder[2] = "device_class" /\ DOMAIN EarlyOrder = 1..10
    BY DEF EarlyOrder
  <2> QED BY <2>1 DEF Early, Fields
<1>1. CASE Invalid(req, Early) # {}
  <2>1. f \in Invalid(req, Early)
    BY <1>1 DEF ErrorField, First
  <2>2. /\ \A g \in Early \ {f} : new.body[g] = req.body[g]
        /\ ~ BodyInvalid(f, new.body[f])
    BY <2>1, BodyCorrected DEF Invalid
  <2> HIDE DEF new
  <2>3. Invalid(new, Early) = Invalid(req, Early) \ {f}
    BY <2>2 DEF Invalid
  <2> QED BY <2>1, <2>3 DEF new
<1>2. CASE Invalid(req, Early) = {} /\ ~ HostOk(req)
  <2>1. f \in RangeViolations(req.host)
          \/ (RangeViolations(req.host) = {} /\ f \in PlatformViolations(req.host, p, c))
    BY <1>2 DEF ErrorField, HostError, First
  <2>2. f \in HostWrong(req) /\ f \in HostField
    BY <2>1 DEF HostWrong, RangeViolations, PlatformViolations, LabViolations, LabRequires, PhoneOnly,
           LinuxRequires, Lab, HostField, Description, Missing, Given
  <2> DEFINE v == IF p = "linux" /\ f \in PhoneOnly THEN Absent ELSE 1
  <2>3. /\ new.body = req.body
        /\ \A g \in HostField : new.host[g] = IF g = f THEN v ELSE req.host[g]
    BY <2>2, HostCorrected
  <2>4. Invalid(new, Early) = {}
    BY <1>2, <2>3 DEF Invalid
  <2>5. 1 # Absent
    BY AbsentAssumption
  <2>6. ~ OutOfRange(f, v)
    BY DEF OutOfRange
  <2> HIDE DEF new, v
  <2>7. RangeViolations(new.host) = RangeViolations(req.host) \ {f}
    BY <2>3, <2>6 DEF RangeViolations
  <2>8. PlatformViolations(new.host, p, c) = PlatformViolations(req.host, p, c) \ {f}
    <3>1. PhoneOnly \subseteq HostField /\ LinuxRequires \subseteq HostField
          /\ Lab \subseteq HostField /\ LabRequires \subseteq HostField
      BY DEF PhoneOnly, LinuxRequires, LabRequires, Lab, HostField, Description
    <3>2. CASE p = "linux"
      <4>1. f \in PhoneOnly => v = Absent
        BY <3>2 DEF v
      <4>2. f \notin PhoneOnly => v # Absent
        BY <2>5 DEF v
      <4>3. PhoneOnly \cap LinuxRequires = {}
        BY DEF PhoneOnly, LinuxRequires, Lab, Clocks, Temperatures
      <4>4. Given(new.host, PhoneOnly) = Given(req.host, PhoneOnly) \ {f}
        BY <2>3, <3>1, <4>1 DEF Given
      <4>5. Missing(new.host, LinuxRequires) = Missing(req.host, LinuxRequires) \ {f}
        BY <2>3, <3>1, <4>2, <4>3 DEF Missing
      <4> QED BY <3>2, <4>4, <4>5 DEF PlatformViolations
    <3>3. CASE p # "linux"
      <4>1. v # Absent
        BY <2>5, <3>3 DEF v
      <4>2. Missing(new.host, Lab) = Missing(req.host, Lab) \ {f}
        BY <2>3, <3>1, <4>1 DEF Missing
      <4>3. Missing(new.host, LabRequires) = Missing(req.host, LabRequires) \ {f}
        BY <2>3, <3>1, <4>1 DEF Missing
      <4>4. (c = "internal" \/ Given(new.host, Lab) # {})
              <=> (c = "internal" \/ Given(req.host, Lab) # {})
        <5>1. Given(req.host, Lab) # {} => Given(new.host, Lab) # {}
          BY <2>3, <3>1, <4>1 DEF Given
        <5>2. ASSUME c # "internal", Given(req.host, Lab) = {}, f \in Lab
              PROVE  FALSE
          <6>1. PlatformViolations(req.host, p, c) = {}
            BY <3>3, <5>2 DEF PlatformViolations, LabViolations
          <6>2. OutOfRange(f, req.host[f])
            BY <2>1, <6>1 DEF RangeViolations
          <6> QED BY <5>2, <6>2 DEF OutOfRange, Given
        <5>3. f \notin Lab => Given(new.host, Lab) = Given(req.host, Lab)
          BY <2>3, <3>1 DEF Given
        <5> QED BY <5>1, <5>2, <5>3
      <4>5. LabViolations(new.host, c) = LabViolations(req.host, c) \ {f}
        BY <4>2, <4>4 DEF LabViolations
      <4> QED BY <3>3, <4>3, <4>5 DEF PlatformViolations
    <3> QED BY <3>2, <3>3
  <2>9. HostWrong(new) = HostWrong(req) \ {f}
    BY <2>3, <2>7, <2>8 DEF HostWrong
  <2> QED BY <2>2, <2>4, <2>9 DEF new
<1>3. CASE Invalid(req, Early) = {} /\ HostOk(req)
  <2>1. f \in Invalid(req, Late)
    BY <1>3 DEF ErrorField, First
  <2>2. f \in Late /\ f \notin Early
    BY <2>1, BodyOrHost DEF Invalid
  <2>3. /\ new.host = req.host
        /\ \A g \in (Early \cup Late) \ {f} : new.body[g] = req.body[g]
        /\ ~ BodyInvalid(f, new.body[f])
    BY <2>2, BodyCorrected
  <2> HIDE DEF new
  <2>4. Invalid(new, Late) = Invalid(req, Late) \ {f}
    BY <2>3 DEF Invalid
  <2>5. Invalid(new, Early) = {}
    BY <1>3, <2>2, <2>3 DEF Invalid
  <2>6. new.body["platform"] = p /\ new.body["device_class"] = c
    BY <1>0, <2>2, <2>3
  <2>7. HostWrong(new) = {}
    BY <1>3, <2>3, <2>6 DEF HostWrong, HostOk, HostAccepts
  <2> QED BY <2>1, <2>4, <2>5, <2>7 DEF new
<1> QED BY <1>1, <1>2, <1>3
=============================================================================
