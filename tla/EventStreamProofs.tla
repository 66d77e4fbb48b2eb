-------------------------- MODULE EventStreamProofs --------------------------
(***************************************************************************)
(* What every stream of EventStream carries, for any number of publishers    *)
(* and subscribers and any capacity of the channel, and what the pages of    *)
(* LiveDashboard that listen to these streams make of it.                   *)
(***************************************************************************)
EXTENDS LiveDashboard, TLAPS

USE CapacityAssumption

\* A sequence that agrees with a run of another one is that run.
LEMMA RunIsSubSeq ==
  ASSUME NEW S, NEW whole \in Seq(S), NEW run \in Seq(S), NEW a \in Nat,
         a + Len(run) <= Len(whole), \A i \in 1..Len(run) : run[i] = whole[a + i]
  PROVE  run = SubSeq(whole, a + 1, a + Len(run))
  OBVIOUS

LEMMA InitIInv == Init => IInv
  BY DEF Init, IInv, TypeOK, CountInv, UniqueIds, PositionInv

\* Requests that neither claim an id nor send leave ids, channel and streams.
LEMMA RequestIInv ==
  ASSUME IInv, NEW p \in Publishers, Write(p) \/ Refuse(p) \/ Cancel(p) PROVE IInv'
  <1> USE DEF IInv, Write, Refuse, Cancel, Goto, bus, stream
  <1>1. TypeOK'
    BY DEF TypeOK
  <1>2. CountInv'
    BY DEF TypeOK, CountInv, UniqueIds
  <1>3. PositionInv'
    BY DEF PositionInv
  <1> QED BY <1>1, <1>2, <1>3

\* A claimed id is one more than any claimed before.
LEMMA ClaimIInv ==
  ASSUME IInv, NEW p \in Publishers, Claim(p) PROVE IInv'
  <1> USE DEF IInv, Claim, Goto, stream
  <1>1. TypeOK'
    BY DEF TypeOK
  <1>2. CountInv'
    BY DEF TypeOK, CountInv, UniqueIds
  <1>3. PositionInv'
    BY DEF PositionInv
  <1> QED BY <1>1, <1>2, <1>3

\* The channel grows at its end: no position in it moves.
LEMMA SendIInv ==
  ASSUME IInv, NEW p \in Publishers, Send(p) PROVE IInv'
  <1> USE DEF IInv, Send, Goto, stream
  <1>0. /\ sent' \in Seq(Publishers)
        /\ Len(sent) <= Len(sent')
        /\ \A i \in 1..Len(sent) : sent'[i] = sent[i]
    BY DEF TypeOK
  <1>1. TypeOK'
    BY <1>0 DEF TypeOK
  <1>2. CountInv'
    BY DEF TypeOK, CountInv, UniqueIds
  <1>3. PositionInv'
    <2> SUFFICES ASSUME NEW s \in Subscribers
                 PROVE  /\ next[s] <= Len(sent')
                        /\ \A i \in 1..Len(got[s]) : got[s][i] = sent'[from[s] + i]
      BY DEF PositionInv
    <2>1. /\ from[s] \in Nat /\ next[s] \in Nat /\ Len(sent) \in Nat /\ Len(sent') \in Nat
          /\ next[s] <= Len(sent)
          /\ Len(got[s]) = next[s] - from[s]
      BY <1>0 DEF TypeOK, PositionInv
    <2>2. ASSUME NEW i \in 1..Len(got[s]) PROVE from[s] + i \in 1..Len(sent)
      BY <2>1
    <2> QED BY <1>0, <2>1, <2>2 DEF PositionInv
  <1> QED BY <1>1, <1>2, <1>3

\* A new stream has carried nothing.
LEMMA SubscribeIInv ==
  ASSUME IInv, NEW s \in Subscribers, Subscribe(s) PROVE IInv'
  <1> USE DEF IInv, Subscribe, bus
  <1>1. TypeOK'
    BY DEF TypeOK
  <1>2. CountInv'
    BY DEF CountInv, UniqueIds
  <1>3. PositionInv'
    <2>1. from'[s] = Len(sent) /\ next'[s] = Len(sent) /\ got'[s] = << >>
      BY DEF TypeOK
    <2>2. \A r \in Subscribers \ {s} :
            from'[r] = from[r] /\ next'[r] = next[r] /\ got'[r] = got[r]
      BY DEF TypeOK
    <2>3. Len(sent) \in Nat /\ sent' = sent
      BY DEF TypeOK
    <2>4. SUFFICES ASSUME NEW r \in Subscribers
                   PROVE  /\ from'[r] <= next'[r] /\ next'[r] <= Len(sent)
                          /\ Len(got'[r]) = next'[r] - from'[r]
                          /\ \A i \in 1..Len(got'[r]) : got'[r][i] = sent[from'[r] + i]
      BY <2>3 DEF PositionInv
    <2>5. CASE r = s
      BY ONLY <2>1, <2>3, <2>5
    <2>6. CASE r # s
      BY ONLY IInv, r \in Subscribers, <2>2, <2>6 DEF IInv, PositionInv
    <2> QED BY ONLY <2>5, <2>6
  <1> QED BY <1>1, <1>2, <1>3

\* A stream carries the event its receiver stands before.
LEMMA ReceiveIInv ==
  ASSUME IInv, NEW s \in Subscribers, Receive(s) PROVE IInv'
  <1> USE DEF IInv, Receive, Carry, Backlog, bus
  <1>0. next[s] + 1 \in 1..Len(sent) /\ sent[next[s] + 1] \in Publishers
    BY DEF TypeOK, PositionInv
  <1>1. TypeOK'
    <2>1. next' \in [Subscribers -> Nat]
      BY DEF TypeOK
    <2>2. got' \in [Subscribers -> Seq(Publishers)]
      <3>1. Append(got[s], sent[next[s] + 1]) \in Seq(Publishers)
        BY <1>0 DEF TypeOK
      <3> QED BY <3>1 DEF TypeOK
    <2> QED BY <2>1, <2>2 DEF TypeOK
  <1>2. CountInv'
    BY DEF CountInv, UniqueIds
  <1>3. PositionInv'
    <2>1. /\ next'[s] = next[s] + 1 /\ Len(got'[s]) = Len(got[s]) + 1
          /\ got'[s][Len(got[s]) + 1] = sent[next[s] + 1]
          /\ \A i \in 1..Len(got[s]) : got'[s][i] = got[s][i]
      <3>1. next'[s] = next[s] + 1 /\ got'[s] = Append(got[s], sent[next[s] + 1])
        BY DEF TypeOK
      <3>2. got[s] \in Seq(Publishers)
        BY DEF TypeOK
      <3> QED BY ONLY <1>0, <3>1, <3>2
    <2>2. \A r \in Subscribers \ {s} : next'[r] = next[r] /\ got'[r] = got[r]
      BY DEF TypeOK
    <2>3. /\ from[s] \in Nat /\ next[s] \in Nat /\ from[s] <= next[s]
          /\ Len(got[s]) = next[s] - from[s]
          /\ \A i \in 1..Len(got[s]) : got[s][i] = sent[from[s] + i]
      BY DEF TypeOK, PositionInv
    <2>4. Len(got[s]) \in Nat
      BY DEF TypeOK
    <2>5. ASSUME NEW i \in 1..Len(got'[s]) PROVE got'[s][i] = sent[from[s] + i]
      <3>1. CASE i = Len(got[s]) + 1
        BY ONLY <3>1, <2>1, <2>3
      <3>2. CASE i # Len(got[s]) + 1
        <4>1. i \in 1..Len(got[s])
          BY ONLY i \in 1..Len(got'[s]), <3>2, <2>1, <2>3, <2>4
        <4> QED BY ONLY <4>1, <2>1, <2>3
      <3> QED BY <3>1, <3>2
    <2>6. from[s] <= next'[s] /\ next'[s] <= Len(sent) /\ Len(got'[s]) = next'[s] - from[s]
      <3>1. Len(sent) \in Nat
        BY DEF TypeOK
      <3> QED BY ONLY <1>0, <2>1, <2>3, <2>4, <3>1
    <2> QED BY <2>2, <2>5, <2>6 DEF PositionInv
  <1> QED BY <1>1, <1>2, <1>3

\* A stream that ends keeps what it has carried.
LEMMA EndIInv ==
  ASSUME IInv, NEW s \in Subscribers, Lag(s) \/ HangUp(s) PROVE IInv'
  <1> USE DEF IInv, Lag, HangUp, bus
  <1>1. TypeOK'
    BY DEF TypeOK
  <1>2. CountInv'
    BY DEF CountInv, UniqueIds
  <1>3. PositionInv'
    BY DEF PositionInv
  <1> QED BY <1>1, <1>2, <1>3

LEMMA NextIInv == IInv /\ [Next]_busVars => IInv'
  <1> SUFFICES ASSUME IInv, [Next]_busVars PROVE IInv'
    OBVIOUS
  <1>1. CASE UNCHANGED busVars
    BY <1>1 DEF busVars, bus, stream, IInv, TypeOK, CountInv, UniqueIds, PositionInv
  <1>2. ASSUME NEW p \in Publishers, Publish(p) PROVE IInv'
    BY <1>2, RequestIInv, ClaimIInv, SendIInv DEF Publish
  <1>3. ASSUME NEW s \in Subscribers, Subscribe(s) \/ Serve(s) \/ HangUp(s) PROVE IInv'
    BY <1>3, SubscribeIInv, ReceiveIInv, EndIInv DEF Serve
  <1> QED BY <1>1, <1>2, <1>3 DEF Next

-----------------------------------------------------------------------------

\* The inductive invariant.
THEOREM Inductive == Spec => []IInv
  BY InitIInv, NextIInv, PTL DEF Spec

\* Type correctness.
THEOREM TypeCorrect == Spec => []TypeOK
  <1>1. IInv => TypeOK
    BY DEF IInv
  <1> QED BY <1>1, Inductive, PTL

\* No stream skips an event.
LEMMA GapFree == IInv => NoHiddenGap
  <1> SUFFICES ASSUME IInv, NEW s \in Subscribers
               PROVE  got[s] = SubSeq(sent, from[s] + 1, from[s] + Len(got[s]))
    BY DEF NoHiddenGap
  <1>1. /\ from[s] \in Nat /\ next[s] \in Nat
        /\ got[s] \in Seq(Publishers) /\ sent \in Seq(Publishers)
    BY DEF IInv, TypeOK
  <1>2. /\ Len(got[s]) = next[s] - from[s] /\ next[s] <= Len(sent)
        /\ \A i \in 1..Len(got[s]) : got[s][i] = sent[from[s] + i]
    BY DEF IInv, PositionInv
  <1>3. from[s] + Len(got[s]) <= Len(sent)
    BY <1>1, <1>2
  <1> QED BY <1>1, <1>2, <1>3, RunIsSubSeq

\* What a stream has carried is a gapless run of the channel.
THEOREM NoGap == Spec => []NoHiddenGap
  BY GapFree, Inductive, PTL

\* No two events have one id.
THEOREM IdsAreUnique == Spec => []UniqueIds
  <1>1. IInv => UniqueIds
    BY DEF IInv, CountInv
  <1> QED BY <1>1, Inductive, PTL

\* Publications that do not overlap keep their order.
THEOREM IdsFollowTheChannel == Spec => LaterIdsAreGreater
  <1>1. IInv /\ [Next]_busVars =>
          [\A p \in Publishers : pc[p] = "written" /\ pc'[p] = "claimed"
             => \A i \in 1..Len(sent) : id[sent[i]] < id'[p]]_busVars
    <2> SUFFICES ASSUME IInv, [Next]_busVars, NEW p \in Publishers,
                        pc[p] = "written", pc'[p] = "claimed", NEW i \in 1..Len(sent)
                 PROVE  id[sent[i]] < id'[p]
      OBVIOUS
    <2>1. Claim(p)
      <3>1. ASSUME NEW q \in Publishers, Publish(q), ~ Claim(p) PROVE FALSE
        BY <3>1 DEF Publish, Write, Refuse, Cancel, Claim, Send, Goto, IInv, TypeOK
      <3>2. ASSUME NEW s \in Subscribers, Subscribe(s) \/ Serve(s) \/ HangUp(s) PROVE FALSE
        BY <3>2 DEF Subscribe, Serve, Receive, Carry, Lag, HangUp
      <3>3. ~ UNCHANGED busVars
        BY DEF busVars
      <3> QED BY <3>1, <3>2, <3>3 DEF Next
    <2>2. id'[p] = seq + 1 /\ sent[i] \in Publishers
      BY <2>1 DEF Claim, IInv, TypeOK
    <2> QED BY <2>2 DEF IInv, TypeOK, CountInv
  <1> QED BY <1>1, Inductive, PTL DEF Spec, LaterIdsAreGreater

-----------------------------------------------------------------------------
(* The order of the channel *)

\* A request sends its event once, under an id, and is done.
SentOnceInv ==
  /\ \A p \in Publishers : pc[p] \in {"claimed", "done"} => id[p] # 0
  /\ \A i \in 1..Len(sent) : pc[sent[i]] = "done"
  /\ \A i, j \in 1..Len(sent) : sent[i] = sent[j] => i = j

\* What a step may do to the channel and to the requests.
LEMMA ChannelStep ==
  ASSUME IInv, [Next]_busVars
  PROVE  \/ UNCHANGED <<pc, id, sent>>
         \/ \E p \in Publishers :
              /\ pc[p] \in {"writing", "written"} /\ UNCHANGED <<id, sent>>
              /\ \E to \in {"written", "refused", "silent"} : pc' = [pc EXCEPT ![p] = to]
         \/ \E p \in Publishers : Claim(p)
         \/ \E p \in Publishers :
              /\ pc[p] = "claimed" /\ pc' = [pc EXCEPT ![p] = "done"] /\ UNCHANGED id
              /\ sent' = sent \/ sent' = Append(sent, p)
  <1>1. ASSUME NEW s \in Subscribers, Subscribe(s) \/ Serve(s) \/ HangUp(s)
        PROVE  UNCHANGED <<pc, id, sent>>
    BY <1>1 DEF Subscribe, Serve, Receive, Carry, Lag, HangUp, bus
  <1>2. ASSUME NEW p \in Publishers, Write(p) \/ Refuse(p) \/ Cancel(p)
        PROVE  /\ pc[p] \in {"writing", "written"} /\ UNCHANGED <<id, sent>>
               /\ \E to \in {"written", "refused", "silent"} : pc' = [pc EXCEPT ![p] = to]
    BY <1>2 DEF Write, Refuse, Cancel, Goto, bus
  <1>3. ASSUME NEW p \in Publishers, Send(p)
        PROVE  /\ pc[p] = "claimed" /\ pc' = [pc EXCEPT ![p] = "done"] /\ UNCHANGED id
               /\ sent' = sent \/ sent' = Append(sent, p)
    BY <1>3 DEF Send, Goto
  <1>4. CASE UNCHANGED busVars
    BY <1>4 DEF busVars, bus
  <1> QED BY <1>1, <1>2, <1>3, <1>4 DEF Next, Publish

\* A longer channel.
LEMMA Longer ==
  ASSUME IInv, NEW p \in Publishers, sent' = Append(sent, p)
  PROVE  /\ Len(sent) \in Nat /\ Len(sent') = Len(sent) + 1 /\ sent'[Len(sent) + 1] = p
         /\ \A i \in 1..Len(sent) : sent'[i] = sent[i] /\ sent[i] \in Publishers
         /\ \A i \in 1..Len(sent') : i \in 1..Len(sent) \/ i = Len(sent) + 1
  <1>1. sent \in Seq(Publishers)
    BY DEF IInv, TypeOK
  <1> QED BY <1>1

\* An event that is sent was not sent before: its request has only now claimed.
LEMMA SentOnceStep ==
  ASSUME IInv, SentOnceInv, [Next]_busVars PROVE SentOnceInv'
  <1> USE DEF SentOnceInv
  <1>0. \A i \in 1..Len(sent) : sent[i] \in Publishers
    BY DEF IInv, TypeOK
  <1>1. CASE UNCHANGED <<pc, id, sent>>
    BY <1>1
  <1>2. ASSUME NEW p \in Publishers, pc[p] \in {"writing", "written"}, UNCHANGED <<id, sent>>,
               NEW to \in {"written", "refused", "silent"}, pc' = [pc EXCEPT ![p] = to]
        PROVE  SentOnceInv'
    BY <1>0, <1>2 DEF IInv, TypeOK
  <1>3. ASSUME NEW p \in Publishers, Claim(p) PROVE SentOnceInv'
    <2>1. /\ sent' = sent /\ pc' = [pc EXCEPT ![p] = "claimed"] /\ pc[p] = "written"
          /\ id' = [id EXCEPT ![p] = seq + 1] /\ seq \in Nat
      BY <1>3 DEF Claim, Goto, IInv, TypeOK
    <2> QED BY <1>0, <2>1 DEF IInv, TypeOK
  <1>4. ASSUME NEW p \in Publishers, pc[p] = "claimed", pc' = [pc EXCEPT ![p] = "done"],
               UNCHANGED id, sent' = sent \/ sent' = Append(sent, p)
        PROVE  SentOnceInv'
    <2>1. \A q \in Publishers : pc'[q] = IF q = p THEN "done" ELSE pc[q]
      BY <1>4 DEF IInv, TypeOK
    <2>2. CASE sent' = sent
      BY <1>0, <1>4, <2>1, <2>2
    <2>3. CASE sent' = Append(sent, p)
      <3>1. \A i \in 1..Len(sent) : sent[i] # p
        BY <1>4
      <3> QED BY <1>4, <2>1, <2>3, <3>1, Longer
    <2> QED BY <1>4, <2>2, <2>3
  <1> QED BY <1>1, <1>2, <1>3, <1>4, ChannelStep

\* The channel takes each event once.
THEOREM SentOnce == Spec => []SentOnceInv
  <1>1. Init => SentOnceInv
    BY DEF Init, SentOnceInv
  <1>2. IInv /\ SentOnceInv /\ [Next]_busVars => SentOnceInv'
    BY SentOnceStep
  <1> QED BY <1>1, <1>2, Inductive, PTL DEF Spec

\* Where in the channel the events of a stream are.
LEMMA PlaceInChannel ==
  ASSUME IInv, NEW s \in Subscribers, NEW i \in 1..Len(got[s])
  PROVE  /\ from[s] \in Nat /\ i \in Nat /\ from[s] + i \in 1..Len(sent)
         /\ got[s][i] = sent[from[s] + i] /\ got[s][i] \in Publishers
  <1>1. /\ from[s] \in Nat /\ next[s] \in Nat /\ next[s] <= Len(sent)
        /\ Len(got[s]) = next[s] - from[s]
        /\ got[s][i] = sent[from[s] + i]
        /\ sent \in Seq(Publishers) /\ Len(sent) \in Nat /\ i \in 1..Len(got[s])
    BY DEF IInv, TypeOK, PositionInv
  <1>2. from[s] + i \in 1..Len(sent) /\ i \in Nat
    BY ONLY <1>1
  <1>3. sent[from[s] + i] \in Publishers
    BY ONLY <1>1, <1>2
  <1> QED BY <1>1, <1>2, <1>3

\* No stream carries two events of one id: a client that remembers the last id
\* it has had recognises every event that it has not.
THEOREM NoIdTwice ==
  Spec => [](\A s \in Subscribers : \A i, j \in 1..Len(got[s]) :
               id[got[s][i]] = id[got[s][j]] => i = j)
  <1>1. IInv /\ SentOnceInv =>
          \A s \in Subscribers : \A i, j \in 1..Len(got[s]) :
            id[got[s][i]] = id[got[s][j]] => i = j
    <2> SUFFICES ASSUME IInv, SentOnceInv, NEW s \in Subscribers,
                        NEW i \in 1..Len(got[s]), NEW j \in 1..Len(got[s]),
                        id[got[s][i]] = id[got[s][j]]
                 PROVE  i = j
      OBVIOUS
    <2>1. /\ from[s] \in Nat /\ i \in Nat /\ j \in Nat
          /\ from[s] + i \in 1..Len(sent) /\ from[s] + j \in 1..Len(sent)
          /\ got[s][i] = sent[from[s] + i] /\ got[s][j] = sent[from[s] + j]
          /\ got[s][i] \in Publishers /\ got[s][j] \in Publishers
      BY PlaceInChannel
    <2>3. pc[got[s][i]] = "done" /\ pc[got[s][j]] = "done"
      BY <2>1 DEF SentOnceInv
    <2>4. got[s][i] = got[s][j]
      BY <2>1, <2>3 DEF IInv, CountInv, UniqueIds, SentOnceInv
    <2>5. from[s] + i = from[s] + j
      BY <2>1, <2>4 DEF SentOnceInv
    <2> QED BY <2>1, <2>5
  <1> QED BY <1>1, SentOnce, Inductive, PTL

\* No request claims an id while another one is between its claim and its send.
Alone == \A p, q \in Publishers : pc[p] = "claimed" /\ pc[q] = "claimed" => p = q

OrderInv ==
  /\ \A i, j \in 1..Len(sent) : i < j => id[sent[i]] < id[sent[j]]
  /\ \A p \in Publishers : pc[p] = "claimed" => \A i \in 1..Len(sent) : id[sent[i]] < id[p]

\* A publication that is alone sends the greatest id that there is.
LEMMA OrderStep ==
  ASSUME IInv, SentOnceInv, OrderInv, Alone, Alone', [Next]_busVars PROVE OrderInv'
  <1> USE DEF OrderInv
  <1>0. \A i \in 1..Len(sent) : sent[i] \in Publishers /\ pc[sent[i]] = "done"
    BY DEF IInv, TypeOK, SentOnceInv
  <1>1. CASE UNCHANGED <<pc, id, sent>>
    BY <1>1
  <1>2. ASSUME NEW p \in Publishers, pc[p] \in {"writing", "written"}, UNCHANGED <<id, sent>>,
               NEW to \in {"written", "refused", "silent"}, pc' = [pc EXCEPT ![p] = to]
        PROVE  OrderInv'
    BY <1>2 DEF IInv, TypeOK
  <1>3. ASSUME NEW p \in Publishers, Claim(p) PROVE OrderInv'
    <2>1. /\ sent' = sent /\ pc' = [pc EXCEPT ![p] = "claimed"] /\ pc[p] = "written"
          /\ id' = [id EXCEPT ![p] = seq + 1] /\ seq \in Nat
      BY <1>3 DEF Claim, Goto, IInv, TypeOK
    <2>2. \A i \in 1..Len(sent) : /\ id'[sent[i]] = id[sent[i]] /\ id[sent[i]] \in Nat
                                  /\ id[sent[i]] <= seq
      BY <1>0, <2>1 DEF IInv, TypeOK, CountInv
    <2>3. \A q \in Publishers : pc'[q] = "claimed" => q = p /\ id'[q] = seq + 1
      BY <2>1 DEF Alone, IInv, TypeOK
    <2> QED BY <2>1, <2>2, <2>3
  <1>4. ASSUME NEW p \in Publishers, pc[p] = "claimed", pc' = [pc EXCEPT ![p] = "done"],
               UNCHANGED id, sent' = sent \/ sent' = Append(sent, p)
        PROVE  OrderInv'
    <2>1. \A q \in Publishers : pc'[q] = "claimed" => pc[q] = "claimed" /\ q # p
      BY <1>4 DEF IInv, TypeOK
    <2>2. CASE sent' = sent
      BY <1>4, <2>1, <2>2
    <2>3. CASE sent' = Append(sent, p)
      <3>1. \A q \in Publishers : pc'[q] # "claimed"
        BY <1>4, <2>1 DEF Alone
      <3>2. \A i, j \in 1..Len(sent') : i < j => id'[sent'[i]] < id'[sent'[j]]
        BY <1>4, <2>3, Longer
      <3> QED BY <3>1, <3>2
    <2> QED BY <1>4, <2>2, <2>3
  <1> QED BY <1>1, <1>2, <1>3, <1>4, ChannelStep

\* As long as publications do not overlap, ids do increase along every stream,
\* as the documentation of stream_events has it; run event_order shows that they
\* need not when two of them do.
THEOREM IdsIncreaseWhenAlone == Spec /\ []Alone => []IdsIncrease
  <1>1. Init => OrderInv
    BY DEF Init, OrderInv
  <1>2. IInv /\ SentOnceInv /\ Alone /\ Alone' /\ OrderInv /\ [Next]_busVars => OrderInv'
    BY OrderStep
  <1>3. IInv /\ OrderInv => IdsIncrease
    <2> SUFFICES ASSUME IInv, OrderInv, NEW s \in Subscribers,
                        NEW i \in 1..Len(got[s]), NEW j \in 1..Len(got[s]), i < j
                 PROVE  id[got[s][i]] < id[got[s][j]]
      BY DEF IdsIncrease
    <2>1. /\ from[s] \in Nat /\ i \in Nat /\ j \in Nat
          /\ from[s] + i \in 1..Len(sent) /\ from[s] + j \in 1..Len(sent)
          /\ got[s][i] = sent[from[s] + i] /\ got[s][j] = sent[from[s] + j]
      BY PlaceInChannel
    <2>2. from[s] + i < from[s] + j
      BY <2>1
    <2> QED BY <2>1, <2>2 DEF OrderInv
  <1> QED BY <1>1, <1>2, <1>3, SentOnce, Inductive, PTL DEF Spec

-----------------------------------------------------------------------------
(* The pages *)

LEMMA InitPageInv == PageInit => PageInv
  <1> SUFFICES ASSUME PageInit PROVE PageInv
    OBVIOUS
  <1>1. IInv
    BY InitIInv DEF PageInit
  <1> QED
    BY <1>1 DEF PageInit, Init, PageInv, PageTypeOK, IInv, SentInv, SignalledInv, NoSignalLost

\* A page's steps are steps of its stream, or leave the stream alone.
LEMMA PageStepIsBusStep == PageNext => [Next]_busVars
  BY DEF PageNext, Server, Page, Connect, Opened, Dropped, Reopen, RunCreated, Refresh,
         Retry, Answer, Show, FetchFails, Next, Serve

\* Rows stay in the table.
LEMMA RowsStay == IInv /\ [Next]_busVars => Rows \subseteq Rows'
  <1> SUFFICES ASSUME IInv, [Next]_busVars PROVE Rows \subseteq Rows'
    OBVIOUS
  <1>1. ASSUME NEW p \in Publishers, Publish(p) PROVE Rows \subseteq Rows'
    BY <1>1 DEF Publish, Write, Refuse, Cancel, Claim, Send, Goto, Rows, IInv, TypeOK
  <1>2. ASSUME NEW s \in Subscribers, Subscribe(s) \/ Serve(s) \/ HangUp(s)
        PROVE  Rows \subseteq Rows'
    BY <1>2 DEF Subscribe, Serve, Receive, Carry, Lag, HangUp, Rows
  <1> QED BY <1>1, <1>2 DEF Next, busVars, Rows

\* The channel only ever takes events of rows in the table.
LEMMA SentStaysInRows ==
  ASSUME IInv, SentInv, [Next]_busVars PROVE SentInv'
  <1>1. CASE sent' = sent
    BY <1>1, RowsStay DEF SentInv
  <1>2. ASSUME NEW p \in Publishers, Send(p) PROVE SentInv'
    <2>1. p \in Rows
      BY <1>2 DEF Send, Rows
    <2>2. sent \in Seq(Publishers)
      BY DEF IInv, TypeOK
    <2>3. CASE sent' = sent
      BY <2>3, RowsStay DEF SentInv
    <2>4. CASE sent' = Append(sent, p)
      <3>1. /\ Len(sent') = Len(sent) + 1 /\ Len(sent) \in Nat
            /\ sent'[Len(sent) + 1] = p
            /\ \A i \in 1..Len(sent) : sent'[i] = sent[i]
        BY <2>2, <2>4
      <3>2. SUFFICES ASSUME NEW i \in 1..Len(sent') PROVE sent'[i] \in Rows'
        BY DEF SentInv
      <3>3. CASE i = Len(sent) + 1
        BY <2>1, <3>1, <3>3, RowsStay
      <3>4. CASE i # Len(sent) + 1
        <4>1. i \in 1..Len(sent)
          BY <3>1, <3>4
        <4> QED BY <3>1, <4>1, RowsStay DEF SentInv
      <3> QED BY <3>3, <3>4
    <2> QED BY <1>2, <2>3, <2>4 DEF Send
  <1> QED
    BY <1>1, <1>2 DEF Next, busVars, bus, Publish, Write, Refuse, Cancel, Claim, Subscribe,
       Serve, Receive, Carry, Lag, HangUp

\* An event a page receives is about a row in the table.
LEMMA ReceivedIsRow ==
  ASSUME IInv, SentInv, NEW s \in Subscribers, Receive(s)
  PROVE  sent[next[s] + 1] \in Rows
  BY DEF Receive, Backlog, IInv, TypeOK, PositionInv, SentInv

\* The page's own variables, through the steps that change them.
LEMMA PageStep ==
  ASSUME PageInv, NEW s \in Subscribers, Page(s), Rows \subseteq Rows', TypeOK'
  PROVE  PageTypeOK' /\ SignalledInv' /\ NoSignalLost'
  <1> USE DEF PageInv
  <1>1. CASE Connect(s) \/ Opened(s) \/ Dropped(s) \/ Reopen(s)
    BY <1>1 DEF Connect, Opened, Dropped, Reopen, page, query, PageTypeOK, SignalledInv,
       NoSignalLost
  <1>2. CASE RunCreated(s)
    <2>1. sent[next[s] + 1] \in Rows
      BY <1>2, ReceivedIsRow DEF RunCreated
    <2> QED
      BY <1>2, <2>1 DEF RunCreated, query, PageTypeOK, SignalledInv, NoSignalLost, Rows
  <1>3. CASE Refresh(s)
    <2>1. PageTypeOK'
      BY <1>3 DEF Refresh, Ask, PageTypeOK
    <2>2. SignalledInv'
      BY <1>3 DEF Refresh, Ask, PageTypeOK, SignalledInv
    <2>3. NoSignalLost'
      BY <1>3 DEF Refresh, Ask, PageTypeOK, SignalledInv, NoSignalLost
    <2> QED BY <2>1, <2>2, <2>3
  <1>4. CASE Retry(s)
    <2>1. PageTypeOK'
      BY <1>4 DEF Retry, Ask, PageTypeOK
    <2>2. SignalledInv'
      BY <1>4 DEF Retry, Ask, PageTypeOK, SignalledInv
    <2>3. NoSignalLost'
      BY <1>4 DEF Retry, Ask, PageTypeOK, SignalledInv, NoSignalLost
    <2> QED BY <2>1, <2>2, <2>3
  <1>5. CASE Answer(s)
    <2>1. PageTypeOK'
      BY <1>5 DEF Answer, PageTypeOK, Rows
    <2>2. SignalledInv'
      BY <1>5 DEF Answer, PageTypeOK, SignalledInv, Rows
    <2>3. NoSignalLost'
      BY <1>5 DEF Answer, PageTypeOK, SignalledInv, NoSignalLost, Rows
    <2> QED BY <2>1, <2>2, <2>3
  <1>6. CASE Show(s)
    <2>1. PageTypeOK'
      BY <1>6 DEF Show, PageTypeOK
    <2>2. SignalledInv'
      BY <1>6 DEF Show, PageTypeOK, SignalledInv
    <2>3. NoSignalLost'
      BY <1>6 DEF Show, PageTypeOK, SignalledInv, NoSignalLost
    <2> QED BY <2>1, <2>2, <2>3
  <1>7. CASE FetchFails(s)
    <2>1. PageTypeOK'
      BY <1>7 DEF FetchFails, PageTypeOK
    <2>2. SignalledInv'
      BY <1>7 DEF FetchFails, PageTypeOK, SignalledInv
    <2>3. NoSignalLost'
      BY <1>7 DEF FetchFails, PageTypeOK, SignalledInv, NoSignalLost
    <2> QED BY <2>1, <2>2, <2>3
  <1> QED BY <1>1, <1>2, <1>3, <1>4, <1>5, <1>6, <1>7 DEF Page

LEMMA NextPageInv == PageInv /\ [PageNext]_vars => PageInv'
  <1> SUFFICES ASSUME PageInv, [PageNext]_vars PROVE PageInv'
    OBVIOUS
  <1>1. IInv' /\ SentInv' /\ Rows \subseteq Rows'
    <2>1. [Next]_busVars
      BY PageStepIsBusStep DEF vars
    <2> QED BY <2>1, NextIInv, SentStaysInRows, RowsStay DEF PageInv
  <1>2. PageTypeOK' /\ SignalledInv' /\ NoSignalLost'
    <2>1. TypeOK'
      BY <1>1 DEF IInv
    <2>2. CASE UNCHANGED page
      BY <2>1, <2>2, <1>1 DEF page, PageInv, PageTypeOK, SignalledInv, NoSignalLost
    <2> QED BY <1>1, <2>1, <2>2, PageStep DEF PageNext, Server, vars
  <1> QED BY <1>1, <1>2 DEF PageInv

-----------------------------------------------------------------------------

\* The inductive invariant.
THEOREM PageInductive == PageSpec => []PageInv
  BY InitPageInv, NextPageInv, PTL DEF PageSpec

\* Every event a page has received is on its way to the screen or there.
THEOREM SignalsAreKept == PageSpec => []NoSignalLost
  <1>1. PageInv => NoSignalLost
    BY DEF PageInv
  <1> QED BY <1>1, PageInductive, PTL

\* The streams of the pages are those of EventStream: what is said of them there,
\* whatever the server does, holds of a dashboard that reconnects and re-fetches.
THEOREM PagesUseStreams == PageSpec => [](NoHiddenGap /\ UniqueIds)
  <1>1. IInv => NoHiddenGap /\ UniqueIds
    BY GapFree DEF IInv, CountInv
  <1>2. PageInv => IInv
    BY DEF PageInv
  <1> QED BY <1>1, <1>2, PageInductive, PTL
=============================================================================
