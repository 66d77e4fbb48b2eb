---------------------------- MODULE LiveDashboard ----------------------------
(***************************************************************************)
(* Dashboard pages kept fresh by the event stream: dashboard/src/lib/live.ts *)
(* on the client's side of EventStream, and the queries it invalidates.      *)
(*                                                                           *)
(* A page is a subscriber; the requests are POST /runs, and what it shows is *)
(* the set of those whose run was in the last list it fetched.  How the      *)
(* query client treats a query that is fetching (a refetch replaces it, but  *)
(* joins the very first load) is TanStack Query's, which the code relies on. *)
(* The one stream of a page that is reopened is one subscriber reconnecting. *)
(***************************************************************************)
EXTENDS EventStream

VARIABLES
  live,       \* LiveState: what the page says of its stream
  due,        \* the coalescer's timer runs
  fetch,      \* the list query: "idle", "asked" or "answered" by the server
  answer,     \* the list on its way back
  loaded,     \* whether a list has arrived
  shown,      \* the list on screen
  failed,     \* the query's last fetch has failed, and the page offers a retry
  signalled,  \* the runs whose event the page has received
  joined      \* a refresh was merged into the first load and got nothing new

page == <<live, due, fetch, answer, loaded, shown, failed, signalled, joined>>
query == <<fetch, answer, loaded, shown, failed, joined>>
vars == <<busVars, page>>

PageTypeOK ==
  /\ TypeOK
  /\ live \in [Subscribers -> {"connecting", "live", "off"}]
  /\ due \in [Subscribers -> BOOLEAN]
  /\ fetch \in [Subscribers -> {"idle", "asked", "answered"}]
  /\ answer \in [Subscribers -> SUBSET Publishers]
  /\ loaded \in [Subscribers -> BOOLEAN]
  /\ shown \in [Subscribers -> SUBSET Publishers]
  /\ failed \in [Subscribers -> BOOLEAN]
  /\ signalled \in [Subscribers -> SUBSET Publishers]
  /\ joined \in [Subscribers -> BOOLEAN]

\* A page opens its stream and loads its list at once.
PageInit ==
  /\ Init
  /\ live = [s \in Subscribers |-> "connecting"]
  /\ due = [s \in Subscribers |-> FALSE]
  /\ fetch = [s \in Subscribers |-> "asked"]
  /\ answer = [s \in Subscribers |-> {}]
  /\ loaded = [s \in Subscribers |-> FALSE]
  /\ shown = [s \in Subscribers |-> {}]
  /\ failed = [s \in Subscribers |-> FALSE]
  /\ signalled = [s \in Subscribers |-> {}]
  /\ joined = [s \in Subscribers |-> FALSE]

\* The rows a request to the server sees.
Rows == {p \in Publishers : pc[p] \in {"written", "claimed", "done", "silent"}}

-----------------------------------------------------------------------------
(* The stream: openLiveStream *)

\* connect: the request reaches the server.
Connect(s) ==
  /\ live[s] = "connecting"
  /\ Subscribe(s)
  /\ UNCHANGED page

\* onopen
Opened(s) ==
  /\ live[s] = "connecting" /\ conn[s] = "open"
  /\ live' = [live EXCEPT ![s] = "live"]
  /\ UNCHANGED <<busVars, due, signalled, query>>

\* onerror, also when a connection is refused: the browser tries again by
\* itself, or it has closed the source for good.
Dropped(s) ==
  /\ live[s] # "off" /\ conn[s] = "off"
  /\ \E to \in {"connecting", "off"} : live' = [live EXCEPT ![s] = to]
  /\ UNCHANGED <<busVars, due, signalled, query>>

\* The timer of reconnectDelay ends in a new connect.
Reopen(s) ==
  /\ live[s] = "off"
  /\ live' = [live EXCEPT ![s] = "connecting"]
  /\ UNCHANGED <<busVars, due, signalled, query>>

\* A trigger that finds a timer running is dropped, and the timer with it.
MutantRunCreated(s) ==
  /\ live[s] = "live"
  /\ Receive(s)
  /\ due' = [due EXCEPT ![s] = ~ @]
  /\ signalled' = [signalled EXCEPT ![s] = @ \cup {sent[next[s] + 1]}]
  /\ UNCHANGED <<live, query>>

\* The listener of run.created: trigger() restarts the timer.
RunCreated(s) ==
  /\ live[s] = "live"
  /\ Receive(s)
  /\ due' = [due EXCEPT ![s] = TRUE]
  /\ signalled' = [signalled EXCEPT ![s] = @ \cup {sent[next[s] + 1]}]
  /\ UNCHANGED <<live, query>>

-----------------------------------------------------------------------------
(* The list *)

Ask(s) ==
  /\ fetch' = [fetch EXCEPT ![s] = "asked"]
  /\ joined' = [joined EXCEPT ![s] = FALSE]

\* A refresh that joins whatever fetch is under way (cancelRefetch: false).
MutantRefresh(s) ==
  /\ due[s]
  /\ due' = [due EXCEPT ![s] = FALSE]
  /\ IF fetch[s] # "idle" THEN UNCHANGED <<fetch, joined>> ELSE Ask(s)
  /\ UNCHANGED <<busVars, live, answer, loaded, shown, failed, signalled>>

\* The coalescer's callback: invalidateQueries starts a fetch in place of the
\* one under way, unless that is the first.
Refresh(s) ==
  /\ due[s]
  /\ due' = [due EXCEPT ![s] = FALSE]
  /\ IF ~ loaded[s] /\ fetch[s] # "idle"
     THEN joined' = [joined EXCEPT ![s] = TRUE] /\ UNCHANGED fetch
     ELSE Ask(s)
  /\ UNCHANGED <<busVars, live, answer, loaded, shown, failed, signalled>>

\* The reader asks for the retry that every error state offers.
Retry(s) ==
  /\ failed[s] /\ fetch[s] = "idle"
  /\ Ask(s)
  /\ UNCHANGED <<busVars, live, due, answer, loaded, shown, failed, signalled>>

\* GET /api/v1/runs or /results reads the database.
Answer(s) ==
  /\ fetch[s] = "asked"
  /\ fetch' = [fetch EXCEPT ![s] = "answered"]
  /\ answer' = [answer EXCEPT ![s] = Rows]
  /\ UNCHANGED <<busVars, live, due, loaded, shown, failed, signalled, joined>>

\* The answer arrives and replaces what is shown.
Show(s) ==
  /\ fetch[s] = "answered"
  /\ fetch' = [fetch EXCEPT ![s] = "idle"]
  /\ loaded' = [loaded EXCEPT ![s] = TRUE]
  /\ shown' = [shown EXCEPT ![s] = answer[s]]
  /\ failed' = [failed EXCEPT ![s] = FALSE]
  /\ UNCHANGED <<busVars, live, due, answer, signalled, joined>>

\* retry: false
FetchFails(s) ==
  /\ fetch[s] # "idle"
  /\ fetch' = [fetch EXCEPT ![s] = "idle"]
  /\ failed' = [failed EXCEPT ![s] = TRUE]
  /\ UNCHANGED <<busVars, live, due, answer, loaded, shown, signalled, joined>>

-----------------------------------------------------------------------------

\* The server's side, with the subscriptions and deliveries the pages take part in.
Server ==
  /\ \/ \E p \in Publishers : Publish(p)
     \/ \E s \in Subscribers : Lag(s) \/ HangUp(s)
  /\ UNCHANGED page

Page(s) == \/ Connect(s) \/ Opened(s) \/ Dropped(s) \/ Reopen(s) \/ RunCreated(s)
           \/ Refresh(s) \/ Retry(s) \/ Answer(s) \/ Show(s) \/ FetchFails(s)

PageNext == Server \/ \E s \in Subscribers : Page(s)

\* A timer fires, a request is answered and an answer arrives, or fails to.
PageFairness ==
  \A s \in Subscribers :
    /\ WF_vars(Refresh(s))
    /\ WF_vars(Answer(s))
    /\ WF_vars(Show(s) \/ FetchFails(s))

PageSpec == PageInit /\ [][PageNext]_vars /\ PageFairness

-----------------------------------------------------------------------------
(* Properties *)

\* A run that a page has been told of is on screen, or something is under way
\* that brings it: the coalescer's timer, a fetch the server has yet to answer,
\* or an answer that has it.  Bursts, fetches that overlap the events, lost
\* connections and reconnections lose none, short of a fetch that failed (the
\* page says so) and a refresh merged into the first load.
NoSignalLost ==
  \A s \in Subscribers : \A p \in signalled[s] :
    \/ p \in shown[s]
    \/ due[s]
    \/ fetch[s] = "asked"
    \/ fetch[s] = "answered" /\ p \in answer[s]
    \/ failed[s] \/ joined[s]

(* The strengthening that makes it inductive, beside the invariant of
   EventStream; checked by TLC, used by LiveDashboardProofs. *)

\* An event enters the channel after its row is in the table.
SentInv == \A i \in 1..Len(sent) : sent[i] \in Rows

\* A page is only told of rows, and an answer that misses one it has been told
\* of is not the last word.
SignalledInv ==
  \A s \in Subscribers :
    /\ signalled[s] \subseteq Rows
    /\ fetch[s] = "answered" /\ ~ due[s] /\ ~ joined[s] => signalled[s] \subseteq answer[s]

PageInv == PageTypeOK /\ IInv /\ SentInv /\ SignalledInv /\ NoSignalLost

\* And it does come: with the same two exceptions, it is eventually on screen.
SignalledIsShown ==
  \A s \in Subscribers, p \in Publishers :
    p \in signalled[s] ~> p \in shown[s] \/ failed[s] \/ joined[s]

Settled(s) ==
  /\ conn[s] = "open" /\ Backlog(s) = 0
  /\ ~ due[s] /\ fetch[s] = "idle" /\ ~ failed[s] /\ ~ joined[s]

\* Layout.tsx, of a page that is "live": "New runs appear automatically as they
\* are recorded."
LiveIsFresh ==
  \A s \in Subscribers :
    live[s] = "live" /\ Settled(s) => \A p \in Publishers : pc[p] = "done" => p \in shown[s]
=============================================================================
