----------------------------- MODULE EventStream -----------------------------
(***************************************************************************)
(* The change notifications of one server process: `EventBus::publish` of    *)
(* src/events.rs, called by concurrent request handlers after they have      *)
(* written their row, and the Server-Sent Events streams that                *)
(* `stream_events` of src/events_api.rs serves.                              *)
(*                                                                           *)
(* The bus is a tokio broadcast channel: it keeps the last Capacity events,  *)
(* each receiver has a position in it, and one that has fallen more than     *)
(* Capacity behind reads `Lagged` instead of an event.                       *)
(***************************************************************************)
EXTENDS Naturals, Sequences

CONSTANTS
  Publishers,   \* requests that write one row each and publish one event
  Subscribers,  \* clients of GET /api/v1/events
  Capacity      \* what the broadcast channel retains: 256 in EventBus::default

ASSUME CapacityAssumption == Capacity \in Nat \ {0}

VARIABLES
  pc,     \* where each request stands
  seq,    \* the AtomicU64 of the bus
  id,     \* the sequence number each request has been given, 0 before
  sent,   \* the requests whose event has entered the channel, in order
  conn,   \* whether each subscriber's stream is open
  from,   \* the channel's length when the subscriber subscribed
  next,   \* how much of the channel its receiver has passed
  got     \* the events its stream has carried since it subscribed

bus    == <<seq, id, sent>>
stream == <<conn, from, next, got>>
busVars == <<pc, bus, stream>>

TypeOK ==
  /\ pc \in [Publishers -> {"writing", "written", "claimed", "done", "silent", "refused"}]
  /\ seq \in Nat
  /\ id \in [Publishers -> Nat]
  /\ sent \in Seq(Publishers)
  /\ conn \in [Subscribers -> {"off", "open"}]
  /\ from \in [Subscribers -> Nat]
  /\ next \in [Subscribers -> Nat]
  /\ got \in [Subscribers -> Seq(Publishers)]

Init ==
  /\ pc = [p \in Publishers |-> "writing"]
  /\ seq = 0
  /\ id = [p \in Publishers |-> 0]
  /\ sent = << >>
  /\ conn = [s \in Subscribers |-> "off"]
  /\ from = [s \in Subscribers |-> 0]
  /\ next = [s \in Subscribers |-> 0]
  /\ got = [s \in Subscribers |-> << >>]

Goto(p, to) == pc' = [pc EXCEPT ![p] = to]

-----------------------------------------------------------------------------
(* Requests *)

\* The row is committed: insert_run, store_artifact or register has returned.
Write(p) ==
  /\ pc[p] = "writing"
  /\ Goto(p, "written")
  /\ UNCHANGED <<bus, stream>>

\* The request is refused or fails, with no row.
Refuse(p) ==
  /\ pc[p] = "writing"
  /\ Goto(p, "refused")
  /\ UNCHANGED <<bus, stream>>

\* The client disconnects while the answer of the database is under way: the
\* handler is dropped with its row committed and no event published.
Cancel(p) ==
  /\ pc[p] = "written"
  /\ Goto(p, "silent")
  /\ UNCHANGED <<bus, stream>>

\* A load where the code has a fetch_add.
MutantClaim(p) ==
  /\ pc[p] = "written"
  /\ Goto(p, "claimed")
  /\ id' = [id EXCEPT ![p] = seq + 1]
  /\ UNCHANGED <<seq, sent, stream>>

\* publish, first half: fetch_add on the counter.
Claim(p) ==
  /\ pc[p] = "written"
  /\ Goto(p, "claimed")
  /\ seq' = seq + 1
  /\ id' = [id EXCEPT ![p] = seq']
  /\ UNCHANGED <<sent, stream>>

\* publish, second half: the channel takes the event if it has a receiver.
\* Another handler may have claimed and sent in between.
Send(p) ==
  /\ pc[p] = "claimed"
  /\ Goto(p, "done")
  /\ sent' = IF \E s \in Subscribers : conn[s] = "open" THEN Append(sent, p) ELSE sent
  /\ UNCHANGED <<seq, id, stream>>

-----------------------------------------------------------------------------
(* Streams *)

Backlog(s) == Len(sent) - next[s]

\* GET /api/v1/events: nothing sent before is replayed.
Subscribe(s) ==
  /\ conn[s] = "off"
  /\ conn' = [conn EXCEPT ![s] = "open"]
  /\ from' = [from EXCEPT ![s] = Len(sent)]
  /\ next' = [next EXCEPT ![s] = Len(sent)]
  /\ got' = [got EXCEPT ![s] = << >>]
  /\ UNCHANGED <<pc, bus>>

Carry(s) ==
  /\ next' = [next EXCEPT ![s] = @ + 1]
  /\ got' = [got EXCEPT ![s] = Append(@, sent[next[s] + 1])]
  /\ UNCHANGED <<pc, bus, conn, from>>

\* A full channel taken for an overrun one.
MutantReceive(s) ==
  /\ conn[s] = "open" /\ Backlog(s) \in 1..(Capacity - 1)
  /\ Carry(s)

\* The next event of the channel goes out.
Receive(s) ==
  /\ conn[s] = "open" /\ Backlog(s) \in 1..Capacity
  /\ Carry(s)

\* Skipping the Lagged item and streaming on from the oldest event retained.
MutantLag(s) ==
  /\ conn[s] = "open" /\ Backlog(s) > Capacity
  /\ next' = [next EXCEPT ![s] = Len(sent) - Capacity]
  /\ UNCHANGED <<pc, bus, conn, from, got>>

\* take_while: the stream of a subscriber that lags ends.
Lag(s) ==
  /\ conn[s] = "open" /\ Backlog(s) > Capacity
  /\ conn' = [conn EXCEPT ![s] = "off"]
  /\ UNCHANGED <<pc, bus, from, next, got>>

\* The client or the network closes the connection.
HangUp(s) ==
  /\ conn[s] = "open"
  /\ conn' = [conn EXCEPT ![s] = "off"]
  /\ UNCHANGED <<pc, bus, from, next, got>>

-----------------------------------------------------------------------------

Publish(p) == Write(p) \/ Refuse(p) \/ Cancel(p) \/ Claim(p) \/ Send(p)

Serve(s) == Receive(s) \/ Lag(s)

Next ==
  \/ \E p \in Publishers : Publish(p)
  \/ \E s \in Subscribers : Subscribe(s) \/ Serve(s) \/ HangUp(s)

\* publish does not wait, and a stream is polled as long as its client reads.
Fairness ==
  /\ \A p \in Publishers : WF_busVars(Send(p))
  /\ \A s \in Subscribers : WF_busVars(Serve(s))

Spec == Init /\ [][Next]_busVars /\ Fairness

-----------------------------------------------------------------------------
(* Properties *)

\* What a stream has carried is a gapless run of the channel, from the moment
\* it was opened: whoever is fast enough to stay connected misses nothing, and
\* whoever is not is disconnected, never served past a gap.
NoHiddenGap ==
  \A s \in Subscribers : got[s] = SubSeq(sent, from[s] + 1, from[s] + Len(got[s]))

Carried(s) == {got[s][i] : i \in 1..Len(got[s])}

\* No two events of a process have one id, however their publications
\* interleave, so no stream carries an id twice.
UniqueIds ==
  \A p, q \in Publishers : id[p] # 0 /\ id[p] = id[q] => p = q

\* Publications that do not overlap keep their order: an id claimed now is above
\* that of every event already in the channel.
LaterIdsAreGreater ==
  [][\A p \in Publishers : pc[p] = "written" /\ pc'[p] = "claimed"
       => \A i \in 1..Len(sent) : id[sent[i]] < id'[p]]_busVars

(* The strengthening that makes these inductive; checked by TLC, used by
   EventStreamProofs. *)

\* Ids have been counted, and only a request that has claimed one has one.
CountInv ==
  /\ \A p \in Publishers :
       id[p] <= seq /\ (pc[p] \notin {"claimed", "done"} => id[p] = 0)
  /\ UniqueIds

\* A receiver stands where its stream has got to.
PositionInv ==
  \A s \in Subscribers :
    /\ from[s] <= next[s] /\ next[s] <= Len(sent)
    /\ Len(got[s]) = next[s] - from[s]
    /\ \A i \in 1..Len(got[s]) : got[s][i] = sent[from[s] + i]

IInv == TypeOK /\ CountInv /\ PositionInv

\* An event published while a stream is open reaches its client, or the stream
\* ends and the client knows that it must re-fetch.
DeliveredOrDisconnected ==
  \A s \in Subscribers, p \in Publishers :
    pc[p] = "claimed" /\ conn[s] = "open"
      ~> p \in Carried(s) \/ conn[s] = "off"

\* The documentation of stream_events: "a process-scoped monotonically
\* increasing `id`".
IdsIncrease ==
  \A s \in Subscribers : \A i, j \in 1..Len(got[s]) :
    i < j => id[got[s][i]] < id[got[s][j]]
=============================================================================
