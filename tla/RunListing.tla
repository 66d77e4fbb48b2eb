------------------------------ MODULE RunListing ------------------------------
(***************************************************************************)
(* The keyset pagination of GET /api/v1/runs: `list_runs` of src/runs.rs,    *)
(* called page after page by readers while runs are inserted.                *)
(*                                                                           *)
(* Runs are listed newest first, ties broken by id.  A run's id is a         *)
(* number, for the order of UUIDs; its start time is whatever its collector  *)
(* says, so a run may be recorded long after, or start before, any other.    *)
(* Runs are never deleted or updated.                                        *)
(***************************************************************************)
EXTENDS Naturals, FiniteSets, Sequences

CONSTANTS
  Runs,     \* the ids of the runs that match a reader's filter
  Times,    \* start times
  Limit,    \* rows on a page
  Readers,  \* clients paging through the list
  None      \* not inserted; no cursor

ASSUME RunsAssumption == Runs \subseteq Nat /\ IsFiniteSet(Runs)
ASSUME TimesAssumption == Times \subseteq Nat
ASSUME LimitAssumption == Limit \in Nat \ {0}
ASSUME NoneAssumption == None \notin Nat

VARIABLES
  started,  \* the start time of each run in the table
  cursor,   \* the run after which each reader's next page begins
  ended,    \* the reader has had a page with no next_cursor
  pages,    \* the pages that the reader has had, one after the other
  first     \* the runs that were in the table at the reader's first page

reader == <<cursor, ended, pages, first>>
vars == <<started, reader>>

TypeOK ==
  /\ started \in [Runs -> Times \cup {None}]
  /\ cursor \in [Readers -> Runs \cup {None}]
  /\ ended \in [Readers -> BOOLEAN]
  /\ pages \in [Readers -> Seq(SUBSET Runs)]
  /\ first \in [Readers -> SUBSET Runs]

Init ==
  /\ started = [r \in Runs |-> None]
  /\ cursor = [c \in Readers |-> None]
  /\ ended = [c \in Readers |-> FALSE]
  /\ pages = [c \in Readers |-> <<>>]
  /\ first = [c \in Readers |-> {}]

Table == {r \in Runs : started[r] # None}

\* POST /runs or the importer
Insert(r, at) ==
  /\ r \notin Table
  /\ started' = [started EXCEPT ![r] = at]
  /\ UNCHANGED reader

\* ORDER BY started_at DESC, id DESC
Before(a, b) ==
  \/ started[a] > started[b]
  \/ started[a] = started[b] /\ a > b

\* Comparing the start times only.
MutantBehind(c) == {r \in Table : cursor[c] = None \/ started[r] < started[cursor[c]]}

\* Including the cursor itself: id <= ? in place of id < ?
MutantBehindOrAt(c) == {r \in Table : cursor[c] = None \/ ~ Before(r, cursor[c])}

\* The WHERE clause: everything, or what comes after the cursor.
Behind(c) == {r \in Table : cursor[c] = None \/ Before(cursor[c], r)}

\* One row too many.
MutantFirstOf(S, n) == {r \in S : Cardinality({q \in S : Before(q, r)}) <= n}

\* The first n of a set of runs.
FirstOf(S, n) == {r \in S : Cardinality({q \in S : Before(q, r)}) < n}

\* One GET: LIMIT is one more than the page, to learn whether there is a next
\* one, whose cursor is then the last run of this one.
List(c) ==
  /\ ~ ended[c]
  /\ LET page == FirstOf(Behind(c), Limit)
         more == Behind(c) \ page # {}
     IN /\ pages' = [pages EXCEPT ![c] = Append(@, page)]
        /\ ended' = [ended EXCEPT ![c] = ~ more]
        /\ IF more
           THEN \E last \in page :
                  /\ \A r \in page : ~ Before(last, r)
                  /\ cursor' = [cursor EXCEPT ![c] = last]
           ELSE UNCHANGED cursor
        /\ first' = IF cursor[c] = None THEN [first EXCEPT ![c] = Table] ELSE first
  /\ UNCHANGED started

Next ==
  \/ \E r \in Runs, at \in Times : Insert(r, at)
  \/ \E c \in Readers : List(c)

Spec == Init /\ [][Next]_vars

-----------------------------------------------------------------------------
(* Properties *)

\* The runs on the pages that a reader has had
Seen(c) == UNION {pages[c][i] : i \in DOMAIN pages[c]}

\* A reader who pages to the end has had every run that was there when it
\* began, whatever was inserted meanwhile.
NoneSkipped == \A c \in Readers : ended[c] => first[c] \subseteq Seen(c)

\* Each page continues the list, the last one too: nothing on it comes before,
\* or is, a run of an earlier page.
PagesContinue ==
  \A c \in Readers : \A i, j \in DOMAIN pages[c] :
    i < j => \A q \in pages[c][i], r \in pages[c][j] : Before(q, r)

\* A page has Limit runs unless it is the last, which has no more than that; and
\* none is announced that is empty: only the first can be.
PagesAreFull ==
  \A c \in Readers : \A i \in DOMAIN pages[c] :
    /\ Cardinality(pages[c][i]) <= Limit
    /\ Cardinality(pages[c][i]) # Limit => ended[c] /\ i = Len(pages[c])
    /\ pages[c][i] = {} => i = 1

(* The strengthening of these, checked by TLC, used by RunListingProofs: a reader
   has had every first run down to its cursor, and nothing below, and there is
   something below. *)
CursorInv ==
  \A c \in Readers :
    /\ cursor[c] = None /\ ~ ended[c] => pages[c] = <<>> /\ first[c] = {}
    /\ Seen(c) \cup first[c] \subseteq Table
    /\ cursor[c] # None => cursor[c] \in Seen(c)
    /\ cursor[c] # None /\ ~ ended[c] => Behind(c) # {}
    /\ ~ ended[c] => \A r \in first[c] \ Seen(c) :
         cursor[c] # None /\ Before(cursor[c], r)
    /\ ~ ended[c] => \A r \in Seen(c) : r = cursor[c] \/ Before(r, cursor[c])

IInv == TypeOK /\ CursorInv /\ NoneSkipped /\ PagesContinue /\ PagesAreFull
=============================================================================
