------------------------ MODULE ModelRegistryProofs ------------------------
(***************************************************************************)
(* The cached digests of ModelRegistry are sound, for any number of calls,  *)
(* files and writes.                                                        *)
(***************************************************************************)
EXTENDS RunProvenance, TLAPS

USE MaxStampAssumption

LEMMA InitIInv == Init => IInv
  BY DEF Init, Nothing, IInv, TypeOK, StampsInv, CallInv, WorkInv, CacheSound,
         Running, Verifying

\* A written file has a stamp that nothing cached or read can equal.
LEMMA WriteFileIInv ==
  ASSUME IInv, NEW p \in Paths, WriteFile(p) PROVE IInv'
  <1> USE DEF IInv, WriteFile, work
  <1>1. TypeOK'
    BY NoneAssumption DEF TypeOK, CallInv, Running, Verifying, File, Row
  <1>2. StampsInv'
    BY DEF TypeOK, StampsInv, CallInv, File, Row, Running, Verifying
  <1>3. CallInv'
    BY NoneAssumption DEF TypeOK, CallInv, File, Row, Running, Verifying
  <1>4. WorkInv'
    BY DEF TypeOK, WorkInv, StampsInv, CallInv, CacheSound, Describes, File, Row,
           Running, Verifying
  <1>5. CacheSound'
    BY DEF TypeOK, CacheSound, WorkInv, StampsInv, CallInv, Describes, File, Row,
           Running, Verifying
  <1> QED BY <1>1, <1>2, <1>3, <1>4, <1>5

\* A removed file is described by anything.
LEMMA RemoveFileIInv ==
  ASSUME IInv, NEW p \in Paths, RemoveFile(p) PROVE IInv'
  <1> USE DEF IInv, RemoveFile, work
  <1>1. TypeOK'
    BY NoneAssumption DEF TypeOK, CallInv, Running, Verifying, File, Row
  <1>2. StampsInv'
    BY DEF TypeOK, StampsInv, CallInv, File, Row, Running, Verifying
  <1>3. CallInv'
    BY NoneAssumption DEF TypeOK, CallInv, File, Row, Running, Verifying
  <1>4. WorkInv'
    BY DEF TypeOK, WorkInv, StampsInv, CallInv, CacheSound, Describes, File, Row,
           Running, Verifying
  <1>5. CacheSound'
    BY DEF TypeOK, CacheSound, WorkInv, StampsInv, CallInv, Describes, File, Row,
           Running, Verifying
  <1> QED BY <1>1, <1>2, <1>3, <1>4, <1>5

\* A registration starts with nothing read.
LEMMA CallRegisterIInv ==
  ASSUME IInv, NEW t \in Tasks, NEW p \in Paths, CallRegister(t, p) PROVE IInv'
  <1> USE DEF IInv, CallRegister, Goto
  <1>1. TypeOK'
    BY NoneAssumption DEF TypeOK, CallInv, Running, Verifying, File, Row
  <1>2. StampsInv'
    BY DEF TypeOK, StampsInv, CallInv, File, Row, Running, Verifying
  <1>3. CallInv'
    BY NoneAssumption DEF TypeOK, CallInv, File, Row, Running, Verifying
  <1>4. WorkInv'
    BY DEF TypeOK, WorkInv, StampsInv, CallInv, CacheSound, Describes, File, Row,
           Running, Verifying
  <1>5. CacheSound'
    BY DEF TypeOK, CacheSound, WorkInv, StampsInv, CallInv, Describes, File, Row,
           Running, Verifying
  <1> QED BY <1>1, <1>2, <1>3, <1>4, <1>5

\* A verification starts from a row that was right when it was loaded.
LEMMA CallVerifyIInv ==
  ASSUME IInv, NEW t \in Tasks, NEW id \in Tasks, NEW how \in Verifying, CallVerify(t, id, how) PROVE IInv'
  <1> USE DEF IInv, CallVerify, Goto
  <1>1. TypeOK'
    BY NoneAssumption DEF TypeOK, CallInv, Running, Verifying, File, Row
  <1>2. StampsInv'
    BY DEF TypeOK, StampsInv, CallInv, File, Row, Running, Verifying
  <1>3. CallInv'
    BY NoneAssumption DEF TypeOK, CallInv, File, Row, Running, Verifying
  <1>4. WorkInv'
    BY DEF TypeOK, WorkInv, StampsInv, CallInv, CacheSound, Describes, File, Row,
           Running, Verifying
  <1>5. CacheSound'
    BY DEF TypeOK, CacheSound, WorkInv, StampsInv, CallInv, Describes, File, Row,
           Running, Verifying
  <1> QED BY <1>1, <1>2, <1>3, <1>4, <1>5

\* The stamp is the file's.
LEMMA StatIInv ==
  ASSUME IInv, NEW t \in Tasks, Stat(t) PROVE IInv'
  <1> USE DEF IInv, Stat, ReadStamp, Goto
  <1>1. TypeOK'
    BY NoneAssumption DEF TypeOK, CallInv, Running, Verifying, File, Row
  <1>2. StampsInv'
    BY DEF TypeOK, StampsInv, CallInv, File, Row, Running, Verifying
  <1>3. CallInv'
    BY NoneAssumption DEF TypeOK, CallInv, File, Row, Running, Verifying
  <1>4. WorkInv'
    BY DEF TypeOK, WorkInv, StampsInv, CallInv, CacheSound, Describes, File, Row,
           Running, Verifying
  <1>5. CacheSound'
    BY DEF TypeOK, CacheSound, WorkInv, StampsInv, CallInv, Describes, File, Row,
           Running, Verifying
  <1> QED BY <1>1, <1>2, <1>3, <1>4, <1>5

\* The same for a verification.
LEMMA StatAgainIInv ==
  ASSUME IInv, NEW t \in Tasks, StatAgain(t) PROVE IInv'
  <1> USE DEF IInv, StatAgain, ReadStamp, Unchanged, Goto
  <1>1. TypeOK'
    BY NoneAssumption DEF TypeOK, CallInv, Running, Verifying, File, Row
  <1>2. StampsInv'
    BY DEF TypeOK, StampsInv, CallInv, File, Row, Running, Verifying
  <1>3. CallInv'
    BY NoneAssumption DEF TypeOK, CallInv, File, Row, Running, Verifying
  <1>4. WorkInv'
    BY DEF TypeOK, WorkInv, StampsInv, CallInv, CacheSound, Describes, File, Row,
           Running, Verifying
  <1>5. CacheSound'
    BY DEF TypeOK, CacheSound, WorkInv, StampsInv, CallInv, Describes, File, Row,
           Running, Verifying
  <1> QED BY <1>1, <1>2, <1>3, <1>4, <1>5

\* If the opened file has the stamp of the stat, it is the one the stat has seen.
LEMMA OpenIInv ==
  ASSUME IInv, NEW t \in Tasks, Open(t) PROVE IInv'
  <1> USE DEF IInv, Open, Goto
  <1>1. TypeOK'
    BY NoneAssumption DEF TypeOK, CallInv, Running, Verifying, File, Row
  <1>2. StampsInv'
    BY DEF TypeOK, StampsInv, CallInv, File, Row, Running, Verifying
  <1>3. CallInv'
    BY NoneAssumption DEF TypeOK, CallInv, File, Row, Running, Verifying
  <1>4. WorkInv'
    BY DEF TypeOK, WorkInv, StampsInv, CallInv, CacheSound, Describes, File, Row,
           Running, Verifying
  <1>5. CacheSound'
    BY DEF TypeOK, CacheSound, WorkInv, StampsInv, CallInv, Describes, File, Row,
           Running, Verifying
  <1> QED BY <1>1, <1>2, <1>3, <1>4, <1>5

\* A file that kept its stamp was not rewritten under the reader.
LEMMA HashIInv ==
  ASSUME IInv, NEW t \in Tasks, Hash(t) PROVE IInv'
  <1> USE DEF IInv, Hash, Goto
  <1>0. PICK h \in Contents :
          /\ disk[path[t]] # None /\ disk[path[t]].stamp = opened[t]
               => h = disk[path[t]].content
          /\ hash' = [hash EXCEPT ![t] = h]
    OBVIOUS
  <1>1. TypeOK'
    BY <1>0, NoneAssumption DEF TypeOK, CallInv, Running, Verifying, File, Row
  <1>2. StampsInv'
    BY DEF TypeOK, StampsInv, CallInv, File, Row, Running, Verifying
  <1>3. CallInv'
    <2>1. hash'[t] # None /\ \A q \in Tasks \ {t} : hash'[q] = hash[q] /\ pc'[q] = pc[q]
      BY <1>0, NoneAssumption DEF TypeOK
    <2>2. pc'[t] = IF asset[t] = None THEN "lookup" ELSE "update"
      BY DEF TypeOK
    <2> QED BY <2>1, <2>2 DEF CallInv, Running, Verifying
  <1>4. WorkInv'
    BY <1>0 DEF TypeOK, WorkInv, StampsInv, CallInv, CacheSound, Describes, File, Row,
           Running, Verifying
  <1>5. CacheSound'
    BY DEF TypeOK, CacheSound, WorkInv, StampsInv, CallInv, Describes, File, Row,
           Running, Verifying
  <1> QED BY <1>1, <1>2, <1>3, <1>4, <1>5

\* The lookup reads only.
LEMMA LookUpIInv ==
  ASSUME IInv, NEW t \in Tasks, LookUp(t) PROVE IInv'
  <1> USE DEF IInv, LookUp, work, Goto
  <1>1. TypeOK'
    BY NoneAssumption DEF TypeOK, CallInv, Running, Verifying, File, Row
  <1>2. StampsInv'
    BY DEF TypeOK, StampsInv, CallInv, File, Row, Running, Verifying
  <1>3. CallInv'
    BY NoneAssumption DEF TypeOK, CallInv, File, Row, Running, Verifying
  <1>4. WorkInv'
    BY DEF TypeOK, WorkInv, StampsInv, CallInv, CacheSound, Describes, File, Row,
           Running, Verifying
  <1>5. CacheSound'
    BY DEF TypeOK, CacheSound, WorkInv, StampsInv, CallInv, Describes, File, Row,
           Running, Verifying
  <1> QED BY <1>1, <1>2, <1>3, <1>4, <1>5

\* A new row caches what its call has read and computed.
LEMMA InsertIInv ==
  ASSUME IInv, NEW t \in Tasks, Insert(t) PROVE IInv'
  <1> USE DEF IInv, Insert, work, Goto, Cached
  <1>0. Cached(t) \in Row
    BY DEF TypeOK, CallInv, Running, Row
  <1>1. TypeOK'
    BY <1>0, NoneAssumption DEF TypeOK, CallInv, Running, Verifying, File, Row
  <1>2. StampsInv'
    BY DEF TypeOK, StampsInv, CallInv, File, Row, Running, Verifying
  <1>3. CallInv'
    BY <1>0, NoneAssumption DEF TypeOK, CallInv, File, Row, Running, Verifying
  <1>4. WorkInv'
    BY DEF TypeOK, WorkInv, StampsInv, CallInv, CacheSound, Describes, File, Row,
           Running, Verifying
  <1>5. CacheSound'
    BY DEF TypeOK, CacheSound, WorkInv, StampsInv, CallInv, Describes, File, Row,
           Running, Verifying
  <1> QED BY <1>1, <1>2, <1>3, <1>4, <1>5

\* So does an updated one; the calls that loaded it before keep what they loaded.
LEMMA UpdateIInv ==
  ASSUME IInv, NEW t \in Tasks, Update(t) PROVE IInv'
  <1> USE DEF IInv, Update, work, Goto, Cached
  <1>0. /\ target[t] \in Tasks /\ assets[target[t]] \in Row
        /\ assets[target[t]].path = path[t]
        /\ Cached(t) \in Row
    BY DEF TypeOK, CallInv, Running, Row
  <1>1. TypeOK'
    <2>1. assets' \in [Tasks -> Row \cup {None}]
      BY <1>0 DEF TypeOK
    <2>2. pc' \in [Tasks -> {"idle", "done"} \cup Running]
      BY DEF TypeOK, Running
    <2> QED BY <2>1, <2>2 DEF TypeOK
  <1>2. StampsInv'
    BY DEF TypeOK, StampsInv, CallInv, File, Row, Running, Verifying
  <1>3. CallInv'
    <2>1. \A q \in Tasks : /\ assets[q] = None => assets'[q] = None
                           /\ assets[q] # None => /\ assets'[q] # None
                                                  /\ assets'[q].path = assets[q].path
      <3>1. Cached(t) # None /\ Cached(t).path = path[t] /\ assets[target[t]] # None
        BY <1>0, NoneAssumption
      <3> HIDE DEF Cached
      <3> QED BY <1>0, <3>1 DEF TypeOK
    <2>2. \A q \in Tasks : pc'[q] = pc[q] \/ pc'[q] = "done" \/ (q = t /\ pc'[q] = "mark")
      BY DEF TypeOK
    <2> QED BY <2>1, <2>2 DEF TypeOK, CallInv, Running, Verifying
  <1>4. WorkInv'
    BY DEF TypeOK, WorkInv, StampsInv, CallInv, CacheSound, Describes, File, Row,
           Running, Verifying
  <1>5. CacheSound'
    <2>1. Describes(path[t], stamp[t], hash[t])
      BY DEF WorkInv
    <2> QED BY <1>0, <2>1 DEF TypeOK, CacheSound, Describes
  <1> QED BY <1>1, <1>2, <1>3, <1>4, <1>5

\* Marking a row unavailable leaves what it caches.
LEMMA MarkUnavailableIInv ==
  ASSUME IInv, NEW t \in Tasks, MarkUnavailable(t) PROVE IInv'
  <1> USE DEF IInv, MarkUnavailable, work, Goto, Unavailable
  <1>0. /\ target[t] \in Tasks /\ assets[target[t]] \in Row
        /\ Unavailable(assets[target[t]]) \in Row
    BY DEF TypeOK, CallInv, Running, Row
  <1>1. TypeOK'
    BY <1>0, NoneAssumption DEF TypeOK, CallInv, Running, Verifying, File, Row
  <1>2. StampsInv'
    BY <1>0 DEF TypeOK, StampsInv, CallInv, Row
  <1>3. CallInv'
    <2>1. \A q \in Tasks : /\ assets[q] = None => assets'[q] = None
                           /\ assets[q] # None => /\ assets'[q] # None
                                                  /\ assets'[q].path = assets[q].path
      BY <1>0, NoneAssumption DEF TypeOK
    <2>2. \A q \in Tasks : pc'[q] = pc[q] \/ pc'[q] = "done"
      BY DEF TypeOK
    <2> QED BY <2>1, <2>2 DEF TypeOK, CallInv, Running, Verifying
  <1>4. WorkInv'
    BY <1>0 DEF TypeOK, WorkInv, StampsInv, CallInv, CacheSound, Describes, File, Row,
           Running, Verifying
  <1>5. CacheSound'
    <2>1. \A id \in Tasks : assets'[id] # None =>
            /\ assets[id] # None /\ assets'[id].path = assets[id].path
            /\ assets'[id].stamp = assets[id].stamp
            /\ assets'[id].sha256 = assets[id].sha256
      BY <1>0, NoneAssumption DEF TypeOK
    <2> QED BY <2>1 DEF CacheSound, Describes
  <1> QED BY <1>1, <1>2, <1>3, <1>4, <1>5

\* A call that ends leaves the table and the files.
LEMMA AbortIInv ==
  ASSUME IInv, NEW t \in Tasks, Abort(t) PROVE IInv'
  <1> USE DEF IInv, Abort, work, Goto
  <1>1. TypeOK'
    BY NoneAssumption DEF TypeOK, CallInv, Running, Verifying, File, Row
  <1>2. StampsInv'
    BY DEF TypeOK, StampsInv, CallInv, File, Row, Running, Verifying
  <1>3. CallInv'
    BY NoneAssumption DEF TypeOK, CallInv, File, Row, Running, Verifying
  <1>4. WorkInv'
    BY DEF TypeOK, WorkInv, StampsInv, CallInv, CacheSound, Describes, File, Row,
           Running, Verifying
  <1>5. CacheSound'
    BY DEF TypeOK, CacheSound, WorkInv, StampsInv, CallInv, Describes, File, Row,
           Running, Verifying
  <1> QED BY <1>1, <1>2, <1>3, <1>4, <1>5

-----------------------------------------------------------------------------

LEMMA NextIInv == IInv /\ [Next]_vars => IInv'
  <1> SUFFICES ASSUME IInv, [Next]_vars PROVE IInv'
    OBVIOUS
  <1>1. CASE UNCHANGED vars
    BY <1>1 DEF vars, work, IInv, TypeOK, StampsInv, CallInv, WorkInv, CacheSound, Describes
  <1>2. ASSUME NEW p \in Paths, WriteFile(p) \/ RemoveFile(p) PROVE IInv'
    BY <1>2, WriteFileIInv, RemoveFileIInv
  <1>3. ASSUME NEW t \in Tasks, Call(t) PROVE IInv'
    BY <1>3, CallRegisterIInv, CallVerifyIInv DEF Call
  <1>4. ASSUME NEW t \in Tasks, Serve(t) PROVE IInv'
    BY <1>4, StatIInv, StatAgainIInv, OpenIInv, HashIInv, LookUpIInv, InsertIInv,
       UpdateIInv, MarkUnavailableIInv DEF Serve
  <1> QED BY <1>1, <1>2, <1>3, <1>4, AbortIInv DEF Next

\* The inductive invariant.
THEOREM Inductive == Spec => []IInv
  BY InitIInv, NextIInv, PTL DEF Spec

\* Type correctness.
THEOREM TypeCorrect == Spec => []TypeOK
  <1>1. IInv => TypeOK
    BY DEF IInv
  <1> QED BY <1>1, Inductive, PTL

\* A cached digest is right about every file it is trusted for.
THEOREM CacheIsSound == Spec => []CacheSound
  <1>1. IInv => CacheSound
    BY DEF IInv
  <1> QED BY <1>1, Inductive, PTL

\* No two rows have one content.
THEOREM OneRow == Spec => []OneRowPerContent
  <1>1. Init => OneRowPerContent
    BY DEF Init, Nothing, OneRowPerContent
  <1>2. IInv /\ OneRowPerContent /\ [Next]_vars => OneRowPerContent'
    <2> SUFFICES ASSUME IInv, OneRowPerContent, [Next]_vars PROVE OneRowPerContent'
      OBVIOUS
    <2>1. CASE UNCHANGED assets
      BY <2>1 DEF OneRowPerContent
    <2>2. ASSUME NEW t \in Tasks, Insert(t) PROVE OneRowPerContent'
      BY <2>2, NoneAssumption DEF Insert, Cached, Taken, OneRowPerContent, IInv, TypeOK
    <2>3. ASSUME NEW t \in Tasks, Update(t) PROVE OneRowPerContent'
      BY <2>3, NoneAssumption
         DEF Update, Cached, Taken, OneRowPerContent, IInv, TypeOK, CallInv, Running
    <2>4. ASSUME NEW t \in Tasks, MarkUnavailable(t) PROVE OneRowPerContent'
      BY <2>4, NoneAssumption
         DEF MarkUnavailable, Unavailable, OneRowPerContent, IInv, TypeOK, CallInv, Running
    <2> QED
      BY <2>1, <2>2, <2>3, <2>4 DEF Next, vars, WriteFile, RemoveFile, Call, CallRegister,
         CallVerify, Serve, Stat, StatAgain, Open, Hash, LookUp, Abort
  <1> QED BY <1>1, <1>2, Inductive, PTL DEF Spec

\* A verification that answers from the cache answers with the file's digest.
THEOREM TrustIsAlwaysEarned == Spec => TrustIsEarned
  <1>1. IInv /\ [Next]_vars =>
          [\A t \in Tasks :
             pc[t] = "cheap" /\ pc'[t] = "done" /\ stamp'[t] # None
               => disk[path[t]].content = asset[t].sha256]_vars
    <2> SUFFICES ASSUME IInv, [Next]_vars, vars' # vars, NEW t \in Tasks,
                        pc[t] = "cheap", pc'[t] = "done", stamp'[t] # None
                 PROVE  disk[path[t]].content = asset[t].sha256
      OBVIOUS
    <2>1. stamp[t] = None
      BY DEF IInv, CallInv, Verifying
    <2>2. StatAgain(t)
      <3>1. ASSUME NEW q \in Tasks, Call(q) PROVE FALSE
        BY <3>1, <2>1 DEF Call, CallRegister, CallVerify
      <3>2. ASSUME NEW q \in Tasks, Serve(q), ~ StatAgain(t) PROVE FALSE
        BY <3>2, <2>1 DEF Serve, Stat, StatAgain, Open, Hash, LookUp, Insert, Update,
           MarkUnavailable, Goto, ReadStamp, work, IInv, TypeOK
      <3>3. ASSUME NEW q \in Tasks, Abort(q) PROVE FALSE
        BY <3>3, <2>1 DEF Abort, work
      <3>4. ASSUME NEW p \in Paths, WriteFile(p) \/ RemoveFile(p) PROVE FALSE
        BY <3>4, <2>1 DEF WriteFile, RemoveFile, work
      <3> QED BY <3>1, <3>2, <3>3, <3>4 DEF Next
    <2>3. disk[path[t]] # None /\ asset[t] # None
          /\ disk[path[t]].stamp = asset[t].stamp
      BY <2>2 DEF StatAgain, Unchanged, Goto, IInv, TypeOK, CallInv, Verifying
    <2> QED BY <2>3 DEF IInv, WorkInv, Describes, Running
  <1> QED BY <1>1, Inductive, PTL DEF Spec, TrustIsEarned

-----------------------------------------------------------------------------
(* What a row keeps, and what a run keeps of it *)

\* The steps that write to the table.
LEMMA TableStep ==
  ASSUME IInv, [Next]_vars
  PROVE  \/ assets' = assets
         \/ \E t \in Tasks :
              /\ Insert(t) /\ target[t] = t /\ assets[t] = None
              /\ assets' = [assets EXCEPT ![t] = Cached(t)]
         \/ \E t \in Tasks :
              /\ Update(t) /\ assets[target[t]] # None /\ target[t] \in Tasks
              /\ assets[target[t]].path = path[t]
              /\ assets' = [assets EXCEPT ![target[t]] = Cached(t)]
         \/ \E t \in Tasks :
              /\ assets[target[t]] # None /\ target[t] \in Tasks
              /\ assets' = [assets EXCEPT ![target[t]] = Unavailable(assets[target[t]])]
  <1>1. ASSUME NEW t \in Tasks, Insert(t), assets' # assets
        PROVE  /\ target[t] = t /\ assets[t] = None
               /\ assets' = [assets EXCEPT ![t] = Cached(t)]
    BY <1>1 DEF Insert, IInv, CallInv, Running
  <1>2. ASSUME NEW t \in Tasks, Update(t), assets' # assets
        PROVE  /\ assets[target[t]] # None /\ target[t] \in Tasks
               /\ assets[target[t]].path = path[t]
               /\ assets' = [assets EXCEPT ![target[t]] = Cached(t)]
    BY <1>2 DEF Update, IInv, CallInv, Running
  <1>3. ASSUME NEW t \in Tasks, MarkUnavailable(t)
        PROVE  /\ assets[target[t]] # None /\ target[t] \in Tasks
               /\ assets' = [assets EXCEPT ![target[t]] = Unavailable(assets[target[t]])]
    BY <1>3 DEF MarkUnavailable, IInv, CallInv, Running
  <1>4. ASSUME NEW t \in Tasks,
               Stat(t) \/ StatAgain(t) \/ Open(t) \/ Hash(t) \/ LookUp(t) \/ Call(t) \/ Abort(t)
        PROVE  assets' = assets
    BY <1>4 DEF Stat, StatAgain, Open, Hash, LookUp, Call, CallRegister, CallVerify, Abort
  <1>5. ASSUME NEW p \in Paths, WriteFile(p) \/ RemoveFile(p) PROVE assets' = assets
    BY <1>5 DEF WriteFile, RemoveFile
  <1>6. CASE UNCHANGED vars
    BY <1>6 DEF vars
  <1> QED BY <1>1, <1>2, <1>3, <1>4, <1>5, <1>6 DEF Next, Serve

\* A row is never taken out, and its path is that of its registration for good,
\* though a verification may rewrite all the rest of it.
THEOREM RowsAreKept ==
  Spec => [][\A id \in Tasks : assets[id] # None =>
               assets'[id] # None /\ assets'[id].path = assets[id].path]_vars
  <1>1. IInv /\ [Next]_vars =>
          [\A id \in Tasks : assets[id] # None =>
             assets'[id] # None /\ assets'[id].path = assets[id].path]_vars
    <2> SUFFICES ASSUME IInv, [Next]_vars, NEW id \in Tasks, assets[id] # None
                 PROVE  assets'[id] # None /\ assets'[id].path = assets[id].path
      OBVIOUS
    <2>0. assets \in [Tasks -> Row \cup {None}] /\ None \notin Row
      BY NoneAssumption DEF IInv, TypeOK
    <2>1. CASE assets' = assets
      BY <2>1
    <2>2. ASSUME NEW t \in Tasks, assets[t] = None, assets' = [assets EXCEPT ![t] = Cached(t)]
          PROVE  assets'[id] = assets[id]
      BY <2>0, <2>2
    <2>3. ASSUME NEW t \in Tasks, Update(t), assets[target[t]] # None, target[t] \in Tasks,
                 assets[target[t]].path = path[t],
                 assets' = [assets EXCEPT ![target[t]] = Cached(t)]
          PROVE  assets'[id] # None /\ assets'[id].path = assets[id].path
      <3>1. Cached(t) \in Row
        BY <2>3, NoneAssumption
           DEF Update, Cached, Row, IInv, TypeOK, CallInv, Running
      <3>2. Cached(t).path = path[t]
        BY DEF Cached
      <3> QED BY <2>0, <2>3, <3>1, <3>2
    <2>4. ASSUME NEW t \in Tasks, assets[target[t]] # None, target[t] \in Tasks,
                 assets' = [assets EXCEPT ![target[t]] = Unavailable(assets[target[t]])]
          PROVE  assets'[id] # None /\ assets'[id].path = assets[id].path
      <3>1. Unavailable(assets[target[t]]) \in Row
        BY <2>0, <2>4 DEF Unavailable, Row
      <3>2. Unavailable(assets[target[t]]).path = assets[target[t]].path
        BY DEF Unavailable
      <3> QED BY <2>0, <2>4, <3>1, <3>2
    <2> QED BY <2>1, <2>2, <2>3, <2>4, TableStep
  <1> QED BY <1>1, Inductive, PTL DEF Spec

\* Recording runs leaves the registry as it is.
LEMMA RunsLeaveRegistry == RunSpec => Spec
  <1>1. RunInit => Init
    BY DEF RunInit
  <1>2. [RunNext]_<<vars, provenance>> => [Next]_vars
    BY DEF RunNext, RecordRun
  <1> QED BY <1>1, <1>2, PTL DEF RunSpec, Spec

\* The row that a run refers to never goes.
THEOREM RunsKeepTheirAsset ==
  RunSpec => [](\A r \in Runs : uses[r] # None => uses[r] \in Tasks /\ assets[uses[r]] # None)
  <1> DEFINE Kept == \A r \in Runs : uses[r] # None => uses[r] \in Tasks /\ assets[uses[r]] # None
             Known == uses \in [Runs -> Tasks \cup {None}]
  <1>1. RunInit => Kept /\ Known
    BY DEF RunInit
  <1>2. ASSUME Kept, Known, [RunNext]_<<vars, provenance>>,
               [\A id \in Tasks : assets[id] # None =>
                  assets'[id] # None /\ assets'[id].path = assets[id].path]_vars
        PROVE  Kept' /\ Known'
    <2>1. \A id \in Tasks : assets[id] # None => assets'[id] # None
      BY <1>2 DEF vars
    <2>2. CASE UNCHANGED provenance
      BY <1>2, <2>1, <2>2 DEF provenance
    <2>3. ASSUME NEW r \in Runs, NEW id \in Tasks, RecordRun(r, id) PROVE Kept' /\ Known'
      BY <1>2, <2>1, <2>3 DEF RecordRun
    <2> QED BY <1>2, <2>2, <2>3 DEF RunNext, provenance
  <1> HIDE DEF Kept, Known
  <1>3. RunSpec => []Kept
    BY <1>1, <1>2, RunsLeaveRegistry, RowsAreKept, PTL DEF RunSpec
  <1> QED BY <1>3 DEF Kept

\* And what it reads back of the model it measured changes by one kind of step
\* only, a verification that finds another content at the path of the row and
\* rewrites it in place: the one that run model_identity shows.
THEOREM OnlyVerificationsRewrite ==
  RunSpec => [][\A r \in Runs :
                  uses[r] # None /\ assets'[uses[r]].sha256 # assets[uses[r]].sha256 =>
                    \E t \in Tasks : Update(t) /\ target[t] = uses[r]
                                     /\ hash[t] # assets[uses[r]].sha256]_<<vars, provenance>>
  <1> DEFINE Kept == \A r \in Runs : uses[r] # None => uses[r] \in Tasks /\ assets[uses[r]] # None
             Rewritten == \A r \in Runs :
                  uses[r] # None /\ assets'[uses[r]].sha256 # assets[uses[r]].sha256 =>
                    \E t \in Tasks : Update(t) /\ target[t] = uses[r]
                                     /\ hash[t] # assets[uses[r]].sha256
  <1>1. ASSUME IInv, Kept, [Next]_vars PROVE Rewritten
    <2> SUFFICES ASSUME NEW r \in Runs, uses[r] # None,
                        assets'[uses[r]].sha256 # assets[uses[r]].sha256
                 PROVE  \E t \in Tasks : Update(t) /\ target[t] = uses[r]
                                         /\ hash[t] # assets[uses[r]].sha256
      OBVIOUS
    <2>0. /\ assets \in [Tasks -> Row \cup {None}] /\ uses[r] \in Tasks
          /\ assets[uses[r]] # None
      BY <1>1 DEF IInv, TypeOK
    <2>1. assets' # assets
      OBVIOUS
    <2>2. ASSUME NEW t \in Tasks, assets[t] = None, assets' = [assets EXCEPT ![t] = Cached(t)]
          PROVE  FALSE
      BY <2>0, <2>2
    <2>3. ASSUME NEW t \in Tasks, Update(t), target[t] \in Tasks,
                 assets' = [assets EXCEPT ![target[t]] = Cached(t)]
          PROVE  target[t] = uses[r] /\ hash[t] # assets[uses[r]].sha256
      BY <2>0, <2>3 DEF Cached
    <2>4. ASSUME NEW t \in Tasks, target[t] \in Tasks,
                 assets' = [assets EXCEPT ![target[t]] = Unavailable(assets[target[t]])]
          PROVE  FALSE
      BY <2>0, <2>4 DEF Unavailable
    <2> QED BY <1>1, <2>1, <2>2, <2>3, <2>4, TableStep
  <1>2. IInv /\ Kept /\ [Next]_vars => [Rewritten]_<<vars, provenance>>
    BY <1>1
  <1> HIDE DEF Rewritten
  <1>3. RunSpec => []Kept
    BY RunsKeepTheirAsset
  <1> HIDE DEF Kept
  <1>4. RunSpec => [][Rewritten]_<<vars, provenance>>
    BY <1>2, <1>3, RunsLeaveRegistry, Inductive, PTL DEF Spec
  <1> QED BY <1>4 DEF Rewritten
=============================================================================
