--------------------------- MODULE LogImportProofs ---------------------------
(***************************************************************************)
(* Proofs about LogImport, for imports that do not overlap and a log that    *)
(* names each repetition once.                                              *)
(***************************************************************************)
EXTENDS LogImport, TLAPS, SequenceTheorems

LEMMA LogRecord ==
  ASSUME NEW n \in Lines
  PROVE  /\ Log[n].tag \in Tags /\ Log[n].rep \in Nat \ {0}
         /\ key(n) \in Key
  <1>1. Log[n] \in [tag : Tags, rep : Nat \ {0}]
    BY LogAssumption, ElementOfSeq DEF Lines
  <1> QED BY <1>1 DEF key, Key

LEMMA InitInv == ASSUME Init PROVE IInv
  <1>1. TypeOK
    <2>1. Len(Log) \in Nat
      BY LogAssumption
    <2>2. 1 \in 1..(Len(Log) + 1)
      BY <2>1
    <2> QED BY <2>2 DEF Init, TypeOK, Run
  <1> QED BY <1>1 DEF Init, IInv, RowsInv, ProgressInv, Running, OncePerRepetition,
                      DoneIsComplete, NothingLeftOver, Lines

LEMMA TypeStep == ASSUME IInv, [Next]_vars PROVE TypeOK'
  <1> USE DEF IInv, TypeOK
  <1>len. Len(Log) \in Nat
    BY LogAssumption
  <1>1. ASSUME NEW i \in Imports, Start(i) PROVE TypeOK'
    BY <1>1 DEF Start, Step, Goto, Running
  <1>2. ASSUME NEW i \in Imports, StorePrompt(i) PROVE TypeOK'
    BY <1>2 DEF StorePrompt, Step, Goto, Running
  <1>3. ASSUME NEW i \in Imports, Load(i) PROVE TypeOK'
    <2>1. {key(r.line) : r \in runs} \subseteq Key
      BY LogRecord DEF Run
    <2> QED BY <1>3, <2>1 DEF Load, Step, Goto, Running
  <1>4. ASSUME NEW i \in Imports, Consider(i) PROVE TypeOK'
    BY <1>4, <1>len DEF Consider, Goto, Advance, Running
  <1>5. ASSUME NEW i \in Imports, ResolveModel(i) PROVE TypeOK'
    <2>1. line[i] \in Lines
      BY <1>5 DEF ResolveModel, Step, ProgressInv
    <2> QED BY <1>5, <2>1, LogRecord DEF ResolveModel, Step, Goto, Running
  <1>6. ASSUME NEW i \in Imports, StoreStdout(i) PROVE TypeOK'
    <2>1. line[i] \in Lines
      BY <1>6 DEF StoreStdout, Step, ProgressInv
    <2> QED BY <1>6, <2>1 DEF StoreStdout, Step, Goto, Running
  <1>7. ASSUME NEW i \in Imports, InsertRun(i) PROVE TypeOK'
    <2>1. line[i] \in Lines
      BY <1>7 DEF InsertRun, Step, ProgressInv
    <2> QED BY <1>7, <2>1, <1>len DEF InsertRun, Step, Goto, Advance, Running, Run, Lines
  <1>8. ASSUME NEW i \in Imports, Fail(i) PROVE TypeOK'
    BY <1>8 DEF Fail, Goto, Running
  <1>9. CASE UNCHANGED vars
    BY <1>9 DEF vars
  <1> QED BY <1>1, <1>2, <1>3, <1>4, <1>5, <1>6, <1>7, <1>8, <1>9 DEF Next

\* Nothing stored is ever taken back.
LEMMA Monotone ==
  ASSUME [Next]_vars
  PROVE  models \subseteq models' /\ artifacts \subseteq artifacts' /\ runs \subseteq runs'
  BY DEF Next, vars, Start, StorePrompt, Load, Consider, ResolveModel, StoreStdout,
         InsertRun, Fail

\* A new artifact is the output of a record that is not skipped, a new run has
\* its model and its output.
LEMMA RowsStep == ASSUME IInv, [Next]_vars PROVE RowsInv'
  <1> USE DEF IInv, RowsInv
  <1>1. ASSUME NEW i \in Imports, StorePrompt(i) PROVE RowsInv'
    BY <1>1 DEF StorePrompt
  <1>2. ASSUME NEW i \in Imports, StoreStdout(i) PROVE RowsInv'
    <2>1. Log[line[i]].tag \notin SkipTags
      BY <1>2 DEF StoreStdout, Step, ProgressInv
    <2> QED BY <1>2, <2>1 DEF StoreStdout
  <1>3. ASSUME NEW i \in Imports, InsertRun(i) PROVE RowsInv'
    <2>1. Log[line[i]].tag \in models /\ (line[i] \in Silent \/ line[i] \in artifacts)
      BY <1>3 DEF InsertRun, Step, ProgressInv
    <2> QED BY <1>3, <2>1 DEF InsertRun
  <1>4. ASSUME NEW i \in Imports, ResolveModel(i) PROVE RowsInv'
    BY <1>4 DEF ResolveModel
  <1>5. ASSUME UNCHANGED <<models, artifacts, runs>> PROVE RowsInv'
    BY <1>5
  <1> QED BY <1>1, <1>2, <1>3, <1>4, <1>5
          DEF Next, vars, Start, Load, Consider, Fail

\* One import at a time, which knows of all runs but its own.
LEMMA ProgressStep ==
  ASSUME IInv, [Next]_vars, ~ MayOverlap
  PROVE  ProgressInv'
  <1> USE DEF IInv
  <1>len. Len(Log) \in Nat
    BY LogAssumption
  <1>mono. models \subseteq models' /\ artifacts \subseteq artifacts' /\ runs \subseteq runs'
    BY Monotone
  <1>line. \A i \in Imports : line[i] \in 1..(Len(Log) + 1)
    BY DEF TypeOK
  <1>1. ASSUME NEW i \in Imports, Start(i) PROVE ProgressInv'
    BY <1>1 DEF Start, Step, Goto, TypeOK, ProgressInv, Already, Running
  <1>2. ASSUME NEW i \in Imports, StorePrompt(i) PROVE ProgressInv'
    BY <1>2 DEF StorePrompt, Step, Goto, TypeOK, ProgressInv, Already, Running
  <1>3. ASSUME NEW i \in Imports, Load(i) PROVE ProgressInv'
    BY <1>3 DEF Load, Step, Goto, TypeOK, ProgressInv, Already, Running
  <1>4. ASSUME NEW i \in Imports, Consider(i) PROVE ProgressInv'
    <2> USE <1>4 DEF Consider, Goto, ProgressInv, Already, Running
    <2>0. line[i] \in 1..(Len(Log) + 1) /\ pc[i] = "record"
      BY <1>line
    <2>1. CASE line[i] > Len(Log)
      BY <2>1 DEF TypeOK
    <2>2. CASE line[i] <= Len(Log) /\ Advance(i) /\ UNCHANGED pc
      <3>0. line' = [line EXCEPT ![i] = line[i] + 1] /\ line[i] \in Nat
        BY <2>0, <2>2 DEF Advance
      <3>1. Log[line[i]].tag \in SkipTags \/ \E r \in runs : key(r.line) = key(line[i])
        BY <2>0, <2>2, <3>0 DEF TypeOK
      <3>2. \A n \in 1..(line'[i] - 1) : n \in 1..(line[i] - 1) \/ n = line[i]
        BY <2>0, <3>0 DEF TypeOK
      <3>3. \A n \in 1..(line'[i] - 1) : Log[n].tag \notin SkipTags =>
              \E r \in runs : key(r.line) = key(n)
        BY <3>1, <3>2
      <3>4. \A r \in runs : r.line \in Nat /\
              (key(r.line) \in imported[i] \/ r.line < line'[i])
        <4> SUFFICES ASSUME NEW r \in runs PROVE r.line \in Nat /\
              (key(r.line) \in imported[i] \/ r.line < line'[i])
          OBVIOUS
        <4>1. r.line \in Nat
          BY <1>len DEF TypeOK, Run, Lines
        <4>2. key(r.line) \in imported[i] \/ r.line < line[i]
          BY <2>0
        <4> QED BY <4>1, <4>2, <3>0 DEF TypeOK
      <3> QED BY <2>0, <2>2, <3>0, <3>3, <3>4 DEF TypeOK
    <2>3. CASE line[i] <= Len(Log) /\ UNCHANGED line
                 /\ Log[line[i]].tag \notin SkipTags /\ ~ Already(i, line[i])
                 /\ pc' = [pc EXCEPT ![i] = "model"]
      <3>1. line[i] \in Lines
        BY <2>0, <2>3, <1>len DEF Lines
      <3> QED BY <2>0, <2>3, <3>1 DEF TypeOK
    <2>4. line[i] > Len(Log) \/ line[i] <= Len(Log)
      BY <2>0, <1>len
    <2> QED BY <2>1, <2>2, <2>3, <2>4, <2>0, <1>len
  <1>5. ASSUME NEW i \in Imports, ResolveModel(i) PROVE ProgressInv'
    BY <1>5 DEF ResolveModel, Step, Goto, TypeOK, ProgressInv, Already, Running
  <1>6. ASSUME NEW i \in Imports, StoreStdout(i) PROVE ProgressInv'
    BY <1>6 DEF StoreStdout, Step, Goto, TypeOK, ProgressInv, Already, Running
  <1>7. ASSUME NEW i \in Imports, InsertRun(i) PROVE ProgressInv'
    <2> USE <1>7 DEF InsertRun, Step, Goto, ProgressInv, Already, Running
    <2>0. /\ line[i] \in Lines /\ line[i] \in Nat
          /\ line' = [line EXCEPT ![i] = line[i] + 1]
          /\ runs' = runs \cup {[by |-> i, line |-> line[i]]}
      BY DEF Advance, Lines
    <2>1. \A n \in 1..(line'[i] - 1) : n \in 1..(line[i] - 1) \/ n = line[i]
      BY <2>0 DEF TypeOK
    <2>2. \A n \in 1..(line'[i] - 1) : Log[n].tag \notin SkipTags =>
            \E r \in runs' : key(r.line) = key(n)
      <3>1. \E r \in runs' : key(r.line) = key(line[i])
        <4> DEFINE run == [by |-> i, line |-> line[i]]
        <4>1. run \in runs' /\ key(run.line) = key(line[i])
          BY <2>0
        <4> QED BY <4>1
      <3> QED BY <2>1, <3>1, <1>mono
    <2>3. \A r \in runs' : key(r.line) \in imported[i] \/ r.line < line'[i]
      <3> SUFFICES ASSUME NEW r \in runs'
                   PROVE  key(r.line) \in imported[i] \/ r.line < line'[i]
        OBVIOUS
      <3>1. CASE r \in runs
        <4>1. r.line \in Nat /\ (key(r.line) \in imported[i] \/ r.line < line[i])
          BY <3>1 DEF TypeOK, Run, Lines
        <4> QED BY <4>1, <2>0 DEF TypeOK
      <3>2. CASE r.line = line[i]
        BY <3>2, <2>0 DEF TypeOK
      <3> QED BY <3>1, <3>2, <2>0
    <2> QED BY <2>0, <2>2, <2>3, <1>mono DEF TypeOK
  <1>8. ASSUME NEW i \in Imports, Fail(i) PROVE ProgressInv'
    BY <1>8 DEF Fail, Goto, TypeOK, ProgressInv, Already, Running
  <1>9. CASE UNCHANGED vars
    BY <1>9 DEF vars, ProgressInv, Already
  <1> QED BY <1>1, <1>2, <1>3, <1>4, <1>5, <1>6, <1>7, <1>8, <1>9 DEF Next

\* The record an import is about to insert has no run yet: a run is either one it
\* has found, and skipped, or its own, of an earlier record.
LEMMA NoRunYet ==
  ASSUME IInv, NEW i \in Imports, InsertRun(i), LogNamesEachOnce
  PROVE  \A r \in runs : key(r.line) # key(line[i])
  <1>1. /\ line[i] \in Lines
        /\ key(line[i]) \notin imported[i]
        /\ \A r \in runs : key(r.line) \in imported[i] \/ r.line < line[i]
    BY DEF InsertRun, Step, IInv, ProgressInv, Already, Running
  <1>2. \A r \in runs : r.line \in Lines
    BY DEF IInv, TypeOK, Run
  <1> QED BY <1>1, <1>2 DEF LogNamesEachOnce, Lines

LEMMA OnceStep ==
  ASSUME IInv, [Next]_vars, LogNamesEachOnce
  PROVE  OncePerRepetition'
  <1>1. ASSUME NEW i \in Imports, InsertRun(i) PROVE OncePerRepetition'
    <2>1. \A r \in runs : key(r.line) # key(line[i])
      BY <1>1, NoRunYet
    <2> QED BY <1>1, <2>1 DEF InsertRun, IInv, OncePerRepetition
  <1>2. ASSUME runs' = runs PROVE OncePerRepetition'
    BY <1>2 DEF IInv, OncePerRepetition
  <1> QED BY <1>1, <1>2 DEF Next, vars, Start, StorePrompt, Load, Consider,
                            ResolveModel, StoreStdout, Fail

\* An import is done when it is past the last record.
LEMMA DoneStep ==
  ASSUME IInv, [Next]_vars
  PROVE  DoneIsComplete'
  <1>mono. runs \subseteq runs'
    BY Monotone
  <1>len. Len(Log) \in Nat
    BY LogAssumption
  <1>1. ASSUME NEW i \in Imports, Consider(i), pc'[i] = "done" PROVE DoneIsComplete'
    <2>1. line[i] > Len(Log) /\ line[i] \in 1..(Len(Log) + 1)
      BY <1>1 DEF Consider, Goto, IInv, TypeOK
    <2>2. \A n \in Lines : n \in 1..(line[i] - 1)
      BY <2>1, <1>len DEF Lines
    <2>3. \A n \in Lines : Log[n].tag \notin SkipTags =>
            \E r \in runs : key(r.line) = key(n)
      BY <2>2 DEF IInv, ProgressInv
    <2> QED BY <2>3, <1>mono DEF DoneIsComplete
  <1>2. ASSUME \A i \in Imports : pc'[i] = "done" => pc[i] = "done" PROVE DoneIsComplete'
    BY <1>2, <1>mono DEF IInv, DoneIsComplete
  <1>3. (\E i \in Imports : Consider(i) /\ pc'[i] = "done")
          \/ (\A i \in Imports : pc'[i] = "done" => pc[i] = "done")
    BY DEF IInv, TypeOK, Next, vars, Start, StorePrompt, Load, Consider, ResolveModel,
           StoreStdout, InsertRun, Fail, Step, Goto
  <1> QED BY <1>1, <1>2, <1>3

\* Once an import is done, every record has its run and no output is stored any
\* more: the next import finds all keys in the database.
LEMMA LeftOverStep ==
  ASSUME IInv, [Next]_vars, DoneIsComplete', RowsInv', TypeOK', LogNamesEachOnce
  PROVE  NothingLeftOver'
  <1> SUFFICES ASSUME NEW i \in Imports, pc'[i] = "done",
                      NEW n \in artifacts' \ {Prompt}
               PROVE  \E r \in runs' : r.line = n
    BY DEF NothingLeftOver
  <1>1. n \in Lines /\ Log[n].tag \notin SkipTags
    BY DEF TypeOK, RowsInv
  <1>2. PICK r \in runs' : key(r.line) = key(n)
    BY <1>1 DEF DoneIsComplete
  <1>3. r.line \in Lines
    BY DEF TypeOK, Run
  <1> QED BY <1>1, <1>2, <1>3 DEF LogNamesEachOnce

\* IInv is inductive.
THEOREM Inductive ==
  ASSUME ~ MayOverlap, LogNamesEachOnce
  PROVE  Spec => []IInv
  <1>1. Init => IInv
    BY InitInv
  <1>2. IInv /\ [Next]_vars => IInv'
    <2> SUFFICES ASSUME IInv, [Next]_vars PROVE IInv'
      OBVIOUS
    <2>1. TypeOK'
      BY TypeStep
    <2>2. RowsInv'
      BY RowsStep
    <2>3. ProgressInv'
      BY ProgressStep
    <2>4. OncePerRepetition'
      BY OnceStep
    <2>5. DoneIsComplete'
      BY DoneStep
    <2>6. NothingLeftOver'
      BY <2>1, <2>2, <2>5, LeftOverStep
    <2> QED BY <2>1, <2>2, <2>3, <2>4, <2>5, <2>6 DEF IInv
  <1> QED BY <1>1, <1>2, PTL DEF Spec

\* Attempts that fail anywhere and are repeated record each repetition once.
THEOREM Idempotent ==
  ASSUME ~ MayOverlap, LogNamesEachOnce
  PROVE  Spec => []OncePerRepetition
  <1>1. IInv => OncePerRepetition
    BY DEF IInv
  <1> QED BY <1>1, Inductive, PTL

\* An import that reports success has recorded everything.
THEOREM SuccessIsComplete ==
  ASSUME ~ MayOverlap, LogNamesEachOnce
  PROVE  Spec => []DoneIsComplete
  <1>1. IInv => DoneIsComplete
    BY DEF IInv
  <1> QED BY <1>1, Inductive, PTL

\* And it has left nothing over, though earlier attempts may have stored outputs
\* that they recorded no run of.
THEOREM SuccessLeavesNothing ==
  ASSUME ~ MayOverlap, LogNamesEachOnce
  PROVE  Spec => []NothingLeftOver
  <1>1. IInv => NothingLeftOver
    BY DEF IInv
  <1> QED BY <1>1, Inductive, PTL

-----------------------------------------------------------------------------
(* The ledger *)

\* An INSERT is the one entry of its repetition, and no other step touches a run.
LEMMA StepRefines ==
  ASSUME IInv, [Next]_vars, LogNamesEachOnce
  PROVE  [RepetitionLedger!Next]_[k \in Repetitions |-> {r \in runs : key(r.line) = k}]
  <1> DEFINE of == [k \in Repetitions |-> {r \in runs : key(r.line) = k}]
  <1>1. CASE runs' = runs
    <2>1. of' = of
      BY <1>1
    <2> QED BY <2>1
  <1>2. ASSUME NEW i \in Imports, InsertRun(i) PROVE RepetitionLedger!Next
    <2> DEFINE n   == line[i]
               run == [by |-> i, line |-> n]
               k   == key(n)
    <2>1. n \in Lines /\ Log[n].tag \notin SkipTags /\ runs' = runs \cup {run}
      BY <1>2 DEF InsertRun, Step, IInv, ProgressInv
    <2>2. k \in Repetitions /\ IsImported(run)
      BY <2>1 DEF Repetitions, IsImported, Run
    <2>3. \A r \in runs : key(r.line) # k
      BY <1>2, NoRunYet
    <2>4. of[k] = {} /\ of'[k] = {run}
      <3>1. key(run.line) = k
        OBVIOUS
      <3> HIDE DEF run, k
      <3> QED BY <2>1, <2>2, <2>3, <3>1
    <2>5. \A d \in Repetitions \ {k} : of'[d] = of[d]
      <3>1. key(run.line) = k
        OBVIOUS
      <3> HIDE DEF run, k
      <3> QED BY <2>1, <3>1
    <2>6. of' = [of EXCEPT ![k] = {run}]
      <3> HIDE DEF run, k
      <3> QED BY <2>4, <2>5
    <2>7. RepetitionLedger!Record(k)
      <3> HIDE DEF run, k
      <3>1. run \in of'[k]
        BY <2>4
      <3> QED BY <2>2, <2>4, <2>6, <3>1 DEF RepetitionLedger!Record
    <2> QED BY <2>2, <2>7 DEF RepetitionLedger!Next
  <1>3. runs' = runs \/ \E i \in Imports : InsertRun(i)
    BY DEF Next, vars, Start, StorePrompt, Load, Consider, ResolveModel, StoreStdout, Fail
  <1> QED BY <1>1, <1>2, <1>3

\* Imports that do not overlap, each of which may fail at any step, keep a ledger
\* with one unchanging entry per repetition.
THEOREM RefinesLedger ==
  ASSUME ~ MayOverlap, LogNamesEachOnce
  PROVE  Spec => ImplementsRepetitionLedger
  <1>1. Init => RepetitionLedger!Init
    BY DEF Init, RepetitionLedger!Init
  <1>2. IInv /\ [Next]_vars =>
          [RepetitionLedger!Next]_[k \in Repetitions |-> {r \in runs : key(r.line) = k}]
    BY StepRefines
  <1> QED BY <1>1, <1>2, Inductive, PTL
          DEF Spec, ImplementsRepetitionLedger, RepetitionLedger!Spec
=============================================================================
