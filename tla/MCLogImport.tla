----------------------------- MODULE MCLogImport -----------------------------
(***************************************************************************)
(* Instances for TLC of the two writers of the `runs` table: the importer,   *)
(* LogImport, and the collectors that use the HTTP service, RunRecording.    *)
(* Neither reads a row of the other, and one of the two is at work in a      *)
(* behaviour.                                                               *)
(***************************************************************************)
EXTENDS LogImport, RunRecording, TLC

CONSTANTS a, b, old, keeper, one, two, i1, i2, i3, m1, a1

VARIABLE writer

\* Two repetitions of a, one of a tag the manifest skips, and one of b that
\* captured no output.
MCLog == << [tag |-> a, rep |-> 1], [tag |-> a, rep |-> 2],
            [tag |-> old, rep |-> 1], [tag |-> b, rep |-> 1] >>

-----------------------------------------------------------------------------

\* The keeper's id is its own; the others have one in common, and the second of
\* them draws another one when it calls again.
MCDraws == (keeper :> {i1}) @@ (one :> {i2}) @@ (two :> {i2, i3})

MCBody(platform, class) ==
  "platform" :> platform @@ "device_class" :> class @@
  "exit_status" :> "succeeded" @@ "correctness_result" :> "passed" @@
  "repetition" :> 0 @@ "command_args" :> "strings" @@
  "input_parameters" :> "object" @@ "env_vars" :> "object" @@
  "device_serial" :> "text" @@ "git_commit_sha" :> "text" @@
  "executable_sha256" :> Absent @@ "prompt_sha256" :> "hex64" @@
  "input_token_count" :> 1 @@ "output_token_count" :> 0 @@
  "prefill_tokens_per_sec" :> 3 @@ "decode_tokens_per_sec" :> Absent @@
  "output_preview" :> 2

MCRefs == "model_asset_id" :> m1 @@ "input_artifact_id" :> Absent @@
  "output_artifact_id" :> Absent @@ "stdout_artifact_id" :> a1 @@
  "stderr_artifact_id" :> Absent @@ "crash_artifact_id" :> Absent

\* A host that says nothing but this
MCHost(S) == [f \in HostField |-> IF f \in S THEN 2 ELSE Absent]

Request(platform, class, S) ==
  [form |-> "ok", body |-> MCBody(platform, class), host |-> MCHost(S), refs |-> MCRefs]

Linux    == Request("linux", "external", LinuxRequires \cup {"host_memory_bytes"})
Internal == Request("android", "internal", Lab \cup LabRequires \cup {"host_cpu_count"})
Phone    == Request("android", "external", {"battery_charging"})
LabPhone == Request("android", "external", Lab)

\* What may be wrong with a request: a value of the host that is out of range,
\* missing or not its platform's, and each field of the body.
HostVariants(q) ==
  {[q EXCEPT !.host[f] = v] : f \in HostField, v \in {0, Absent}}
  \cup {[q EXCEPT !.host[f] = -1] : f \in {"device_uptime_seconds", "host_memory_bytes"}}
  \cup {[q EXCEPT !.host[f] = v] : f \in Temperatures, v \in {-41, -40, 151}}

BodyVariants(q) ==
  {[q EXCEPT !.body[f] = "blank"] : f \in {"platform", "device_class", "exit_status",
     "correctness_result", "command_args", "input_parameters", "env_vars",
     "device_serial", "git_commit_sha", "prompt_sha256"}}
  \cup {[q EXCEPT !.body[f] = v] : f \in {"repetition", "input_token_count",
          "decode_tokens_per_sec"}, v \in {-1, 0}}
  \cup {[q EXCEPT !.body["output_preview"] = v] : v \in {0, 5}}

Wrong == UNION {HostVariants(q) : q \in {Linux, Internal, Phone, LabPhone}}
           \cup BodyVariants(Linux)
           \cup {[Linux EXCEPT !.form = "oversized"], [Linux EXCEPT !.form = "malformed"],
                 [Linux EXCEPT !.refs["output_artifact_id"] = a1]}

MCRequests == {keeper :> q @@ one :> Phone @@ two :> Linux : q \in Wrong}

WriterInit ==
  /\ Init /\ RecordingInit
  /\ writer \in {"importer", "keeper", "others"}
  /\ client = [c \in Collectors |->
       IF writer = (IF c = keeper THEN "keeper" ELSE "others") THEN "ready" ELSE "off"]
  /\ writer # "keeper" => wanted[keeper] = Linux
  /\ existing = IF wanted[keeper].refs = MCRefs THEN References ELSE {}

WriterNext ==
  /\ UNCHANGED writer
  /\ \/ writer = "importer" /\ Next /\ UNCHANGED recordingVars
     \/ writer # "importer" /\ RecordingNext /\ UNCHANGED vars

WriterSpec == WriterInit /\ [][WriterNext]_<<vars, recordingVars, writer>> /\ Fairness
=============================================================================
