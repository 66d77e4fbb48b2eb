------------------------------- MODULE LogImport -------------------------------
(***************************************************************************)
(* The importer of benchmark logs, src/bin/import_observer_log.rs: a         *)
(* command that an operator starts again when it has failed.  It records     *)
(* one run per repetition of a log, each with an INSERT of its own, and      *)
(* skips the repetitions that it found in the database when it started.      *)
(*                                                                           *)
(* One log and its manifest are imported over and over.  A line of the log   *)
(* stands for the stdout it captured (the lines of a log differ by their     *)
(* timestamps); what artifact_store and model_registry do to store a         *)
(* content or register a model is modelled in ArtifactStore and              *)
(* ModelRegistry, and is one step here.                                      *)
(***************************************************************************)
EXTENDS Naturals, Sequences

CONSTANTS
  Imports,     \* invocations of the importer
  Tags,        \* model configurations
  Log,         \* the records of the log: [tag, rep], rep counting from 1
  SkipTags,    \* the manifest's skip_tags
  Silent,      \* the lines of the records that captured no output
  MayOverlap,  \* whether an import may be started while another one runs
  Prompt       \* the prompt's artifact

ASSUME LogAssumption == Log \in Seq([tag : Tags, rep : Nat \ {0}])
ASSUME SilentAssumption == Silent \subseteq 1..Len(Log)
ASSUME PromptAssumption == Prompt \notin Nat

Lines == 1..Len(Log)

\* What a run remembers of the record it was imported from.
Key == [tag : Tags, repetition : Nat]

key(n) == [tag |-> Log[n].tag, repetition |-> Log[n].rep - 1]

\* A row of `runs`: who inserted it, and from which line.
Run == [by : Imports, line : Lines]

VARIABLES
  pc,         \* where each import stands
  imported,   \* the keys it has found in the database
  line,       \* the record it is at
  models,     \* the tags whose model is registered
  artifacts,  \* the artifacts of this log
  runs        \* the runs of this log

vars == <<pc, imported, line, models, artifacts, runs>>

Running == {"prompt", "load", "record", "model", "stdout", "insert"}

TypeOK ==
  /\ pc \in [Imports -> {"idle", "done", "failed"} \cup Running]
  /\ imported \in [Imports -> SUBSET Key]
  /\ line \in [Imports -> 1..(Len(Log) + 1)]
  /\ models \subseteq Tags
  /\ artifacts \subseteq Lines \cup {Prompt}
  /\ runs \subseteq Run

Init ==
  /\ pc = [i \in Imports |-> "idle"]
  /\ imported = [i \in Imports |-> {}]
  /\ line = [i \in Imports |-> 1]
  /\ models = {}
  /\ artifacts = {}
  /\ runs = {}

Goto(i, to)       == pc' = [pc EXCEPT ![i] = to]
Step(i, from, to) == pc[i] = from /\ Goto(i, to)

Advance(i) == line' = [line EXCEPT ![i] = @ + 1]

-----------------------------------------------------------------------------

\* The operator runs the command, on a manifest and a log that it can read.
Start(i) ==
  /\ MayOverlap \/ \A j \in Imports : pc[j] \notin Running
  /\ Step(i, "idle", "prompt")
  /\ UNCHANGED <<imported, line, models, artifacts, runs>>

StorePrompt(i) ==
  /\ Step(i, "prompt", "load")
  /\ artifacts' = artifacts \cup {Prompt}
  /\ UNCHANGED <<imported, line, models, runs>>

\* imported_repetitions: one query, before the first record.
Load(i) ==
  /\ Step(i, "load", "record")
  /\ imported' = [imported EXCEPT ![i] = {key(r.line) : r \in runs}]
  /\ UNCHANGED <<line, models, artifacts, runs>>

\* Comparing the log's count of repetitions, from 1, with that of the table.
MutantAlready(i, n) == [tag |-> Log[n].tag, repetition |-> Log[n].rep] \in imported[i]

Already(i, n) == key(n) \in imported[i]

\* The head of the loop.
Consider(i) ==
  /\ pc[i] = "record"
  /\ IF line[i] > Len(Log)
     THEN Goto(i, "done") /\ UNCHANGED line
     ELSE \/ /\ Log[line[i]].tag \in SkipTags \/ Already(i, line[i])
             /\ Advance(i)
             /\ UNCHANGED pc
          \/ /\ Log[line[i]].tag \notin SkipTags /\ ~ Already(i, line[i])
             /\ Goto(i, "model")
             /\ UNCHANGED line
  /\ UNCHANGED <<imported, models, artifacts, runs>>

\* resolve_model finds the model by its digest or registers it.
ResolveModel(i) ==
  /\ Step(i, "model", "stdout")
  /\ models' = models \cup {Log[line[i]].tag}
  /\ UNCHANGED <<imported, line, artifacts, runs>>

StoreStdout(i) ==
  /\ Step(i, "stdout", "insert")
  /\ artifacts' = IF line[i] \in Silent THEN artifacts ELSE artifacts \cup {line[i]}
  /\ UNCHANGED <<imported, line, models, runs>>

\* Going on to the next record when the INSERT has failed.
MutantInsertRun(i) ==
  /\ Step(i, "insert", "record")
  /\ runs' = runs \cup {[by |-> i, line |-> line[i]]} \/ UNCHANGED runs
  /\ Advance(i)
  /\ UNCHANGED <<imported, models, artifacts>>

\* insert_run, under a fresh id
InsertRun(i) ==
  /\ Step(i, "insert", "record")
  /\ runs' = runs \cup {[by |-> i, line |-> line[i]]}
  /\ Advance(i)
  /\ UNCHANGED <<imported, models, artifacts>>

\* An error (a record without output or explanation, a model that is missing or
\* is not what the manifest says, I/O) ends the import, and so does a crash:
\* what has been stored stays.
Fail(i) ==
  /\ pc[i] \in Running
  /\ Goto(i, "failed")
  /\ UNCHANGED <<imported, line, models, artifacts, runs>>

Next == \E i \in Imports :
  \/ Start(i) \/ StorePrompt(i) \/ Load(i) \/ Consider(i)
  \/ ResolveModel(i) \/ StoreStdout(i) \/ InsertRun(i) \/ Fail(i)

Spec == Init /\ [][Next]_vars

-----------------------------------------------------------------------------
(* Properties *)

\* "Idempotent: a run is identified by (log sha256, tag, repetition) and skipped
\* when already present", through any number of failed attempts.
OncePerRepetition ==
  \A r, q \in runs : key(r.line) = key(q.line) => r = q

\* An import that reports success has left a run of every repetition that is
\* not skipped, by itself or by an earlier attempt that failed further on.
DoneIsComplete ==
  \A i \in Imports : pc[i] = "done" =>
    \A n \in Lines : Log[n].tag \notin SkipTags =>
      \E r \in runs : key(r.line) = key(n)

\* Nor does it leave an artifact behind that no run refers to: what an earlier
\* attempt stored before it failed is used in the end.
NothingLeftOver ==
  \A i \in Imports : pc[i] = "done" =>
    \A n \in artifacts \ {Prompt} : \E r \in runs : r.line = n

\* The ledger of RunRecording, with an entry per repetition of the log instead of
\* per run id
Repetitions == {key(n) : n \in Lines}

IsImported(r) == r \in Run /\ Log[r.line].tag \notin SkipTags

RepetitionLedger == INSTANCE RunLedger WITH
  Ids     <- Repetitions,
  IsEntry <- IsImported,
  entries <- [k \in Repetitions |-> {r \in runs : key(r.line) = k}]

\* Attempts that fail anywhere and are started again never record a repetition
\* twice, nor one that the manifest skips, nor change a run.
ImplementsRepetitionLedger == RepetitionLedger!Spec

\* The condition for all of these but DoneIsComplete: the log names no repetition
\* twice.
LogNamesEachOnce == \A m, n \in Lines : key(m) = key(n) => m = n

(* The strengthening that makes them inductive; checked by TLC, used by
   LogImportProofs. *)

\* What is stored belongs to records that are not skipped, and a run's model
\* and output with it.
RowsInv ==
  /\ \A n \in artifacts \ {Prompt} : Log[n].tag \notin SkipTags
  /\ \A r \in runs :
       Log[r.line].tag \in models /\ (r.line \in Silent \/ r.line \in artifacts)

\* An import knows of every run but its own; the records it is past are imported.
ProgressInv ==
  \A i \in Imports :
    /\ pc[i] \in Running =>
         \A j \in Imports : pc[j] \in Running => j = i
    /\ \A k \in imported[i] : \E r \in runs : key(r.line) = k
    /\ pc[i] \in Running \ {"prompt", "load"} =>
         \A r \in runs : key(r.line) \in imported[i] \/ r.line < line[i]
    /\ pc[i] \in {"model", "stdout", "insert"} =>
         /\ line[i] \in Lines
         /\ Log[line[i]].tag \notin SkipTags /\ ~ Already(i, line[i])
    /\ pc[i] \in {"stdout", "insert"} => Log[line[i]].tag \in models
    /\ pc[i] = "insert" => line[i] \in Silent \/ line[i] \in artifacts
    /\ pc[i] \in {"idle", "prompt", "load"} => line[i] = 1
    /\ \A n \in 1..(line[i] - 1) : Log[n].tag \notin SkipTags =>
         \E r \in runs : key(r.line) = key(n)

IInv == /\ TypeOK /\ RowsInv /\ ProgressInv
        /\ OncePerRepetition /\ DoneIsComplete /\ NothingLeftOver
=============================================================================
