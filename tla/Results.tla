------------------------------- MODULE Results -------------------------------
(***************************************************************************)
(* GET /api/v1/results, the front page of the dashboard: `results` and       *)
(* `facets` of src/results.rs, called one after the other by the handler of  *)
(* src/results_api.rs, and the link from a row to the list of its runs that  *)
(* dashboard/src/lib/filters.ts builds.                                     *)
(*                                                                         *)
(* The runs are those of RunListing, which go on being inserted: the three   *)
(* queries of one answer each see the table as it is by then.               *)
(***************************************************************************)
EXTENDS RunListing, Sequences, SequencesExt

CONSTANTS
  Attr,     \* what each run says of itself: a value, or None, in each column
  Filters,  \* what a viewer may filter by: a value of some columns
  MaxRows   \* MAX_ROWS

\* Validation and the CHECKs of the table see to it.
ASSUME AttrAssumption ==
  \A r \in Runs :
    /\ Attr[r]["platform"] \in {"android", "linux"}
    /\ Attr[r]["prompt_sha256"] # "no_digest"
    /\ Attr[r]["prefill"] \in Nat
    /\ Attr[r]["decode"] \in Nat \cup {None}

\* ConfigKey: "every dimension that changes measured performance"
KeyColumns ==
  {"platform", "device_class", "device_serial", "model_asset_id", "git_commit_sha",
   "git_dirty", "sumd_driver_version", "bsp_version", "gpu_clock_mhz",
   "mif_clock_mhz", "int_clock_mhz", "host_accelerator", "prompt_sha256"}

\* What a row takes from the first of its runs that knows it
KnownColumns ==
  {"device_model", "git_branch", "git_commit_timestamp", "git_commit_subject"}

FacetColumns ==
  {"platform", "device_class", "device_serial", "git_branch",
   "sumd_driver_version", "bsp_version", "host_accelerator"}

VARIABLES
  stage,      \* where the handler stands
  counted,    \* the runs that it grouped into rows
  rows,       \* the rows of the answer
  truncated,  \* and that there are more
  facets      \* the values that each filter offers

results == <<stage, counted, rows, truncated, facets>>

ResultsInit ==
  /\ stage = "idle"
  /\ counted = {}
  /\ rows = {}
  /\ truncated = FALSE
  /\ facets = [f \in FacetColumns \cup {"model_asset_id"} |-> {}]

-----------------------------------------------------------------------------
(* RunListFilter *)

\* push_where_clauses: `= ?` for each field that is set, which a NULL never is.
Matches(filter, r) ==
  \A f \in DOMAIN filter : Attr[r][f] # None /\ Attr[r][f] = filter[f]

\* parse_list_params and get_results_handler: what a parameter must be, where
\* it is no free text.
Parses(filter) ==
  \A f \in DOMAIN filter :
    /\ f = "platform" => filter[f] \in {"android", "linux"}
    /\ f = "device_class" => filter[f] \in {"internal", "external"}
    /\ f = "prompt_sha256" => filter[f] # "no_digest"

-----------------------------------------------------------------------------
(* results *)

KeyOf(r) == [f \in KeyColumns |-> Attr[r][f]]

\* ORDER BY started_at, id: the rows arrive oldest first.
Arrival(S) ==
  [i \in 1..Cardinality(S) |->
     CHOOSE r \in S : Cardinality({q \in S : Before(r, q)}) = i - 1]

Empty == [known |-> [f \in KnownColumns |-> None], prefill |-> <<>>, decode |-> <<>>,
          total_runs |-> 0, not_succeeded |-> 0, correctness_failed |-> 0,
          throttled |-> 0, first_started_at |-> None, last_started_at |-> None]

\* One more run of a configuration
Accumulate(acc, r) ==
  LET run == Attr[r]
      ok  == run["exit_status"] = "succeeded"
      When(p) == IF p THEN 1 ELSE 0
  IN [known |-> [f \in KnownColumns |->
                   IF acc.known[f] = None THEN run[f] ELSE acc.known[f]],
      prefill |-> IF ok THEN Append(acc.prefill, run["prefill"]) ELSE acc.prefill,
      decode |-> IF ok /\ run["decode"] # None THEN Append(acc.decode, run["decode"])
                 ELSE acc.decode,
      total_runs |-> acc.total_runs + 1,
      not_succeeded |-> acc.not_succeeded + When(~ ok),
      correctness_failed |->
        acc.correctness_failed + When(ok /\ run["correctness_result"] = "failed"),
      throttled |-> acc.throttled + When(run["thermal_throttling"] = 1),
      first_started_at |-> IF acc.first_started_at = None THEN started[r]
                           ELSE acc.first_started_at,
      last_started_at |-> started[r]]

\* Indexing from one and rounding down
MutantTwiceMedian(s) == s[(Len(s) + 1) \div 2] * 2

\* The median, twice over to stay with the integers: of an even number, the mean
\* of the middle two.
TwiceMedian(s) ==
  IF Len(s) % 2 = 1 THEN 2 * s[Len(s) \div 2 + 1]
  ELSE s[Len(s) \div 2] + s[Len(s) \div 2 + 1]

\* samples.sort_by: fewer than i are less than the i-th, and i or more no greater.
Sorted(samples) ==
  [i \in DOMAIN samples |->
     CHOOSE x \in Range(samples) :
       /\ Cardinality({j \in DOMAIN samples : samples[j] < x}) < i
       /\ Cardinality({j \in DOMAIN samples : samples[j] <= x}) >= i]

\* MetricStats::from_samples
Stats(samples) ==
  IF samples = <<>> THEN None
  ELSE LET s == Sorted(samples)
       IN [twice_median |-> TwiceMedian(s), min |-> s[1], max |-> s[Len(s)], n |-> Len(s)]

Row(key, acc) ==
  [key |-> key, known |-> acc.known,
   prefill |-> Stats(acc.prefill), decode |-> Stats(acc.decode),
   total_runs |-> acc.total_runs, not_succeeded |-> acc.not_succeeded,
   correctness_failed |-> acc.correctness_failed, throttled |-> acc.throttled,
   first_started_at |-> acc.first_started_at, last_started_at |-> acc.last_started_at]

\* The configurations of a set of runs, a row of each
Grouped(S) ==
  {Row(key, FoldLeft(Accumulate, Empty, Arrival({r \in S : KeyOf(r) = key}))) :
     key \in {KeyOf(r) : r \in S}}

\* Newest commit first; without a commit time, that of the earliest run
SortTime(row) ==
  IF row.known["git_commit_timestamp"] # None THEN row.known["git_commit_timestamp"]
  ELSE row.first_started_at

-----------------------------------------------------------------------------
(* get_results_handler: three queries *)

\* 400: the viewer is left with no rows.
Refuse(filter) ==
  /\ stage \in {"idle", "answered", "refused"}
  /\ ~ Parses(filter)
  /\ stage' = "refused"
  /\ counted' = {} /\ rows' = {} /\ truncated' = FALSE
  /\ UNCHANGED facets

\* Rows with the same time are ordered by name and key, here in any order.
AskRows(filter) ==
  /\ stage \in {"idle", "answered", "refused"}
  /\ Parses(filter)
  /\ stage' = "models"
  /\ counted' = {r \in Table : Matches(filter, r)}
  /\ LET all == Grouped(counted')
     IN /\ truncated' = (Cardinality(all) > MaxRows)
        /\ \E S \in SUBSET all :
             /\ Cardinality(S) = IF truncated' THEN MaxRows ELSE Cardinality(all)
             /\ \A row \in S, cut \in all \ S : SortTime(row) >= SortTime(cut)
             /\ rows' = S
  /\ UNCHANGED facets

\* Asking only once for what all answers have in common
MutantAskModels ==
  /\ stage = "models"
  /\ stage' = "facets"
  /\ facets' = IF facets["model_asset_id"] # {} THEN facets
               ELSE [facets EXCEPT !["model_asset_id"] =
                       {Attr[r]["model_asset_id"] : r \in Table}]
  /\ UNCHANGED <<counted, rows, truncated>>

\* facets: the models first
AskModels ==
  /\ stage = "models"
  /\ stage' = "facets"
  /\ facets' = [facets EXCEPT !["model_asset_id"] =
                  {Attr[r]["model_asset_id"] : r \in Table}]
  /\ UNCHANGED <<counted, rows, truncated>>

\* then all other columns in one grouped scan
AskFacets ==
  /\ stage = "facets"
  /\ stage' = "answered"
  /\ facets' = [f \in DOMAIN facets |->
                  IF f \in FacetColumns THEN {Attr[r][f] : r \in Table} \ {None}
                  ELSE facets[f]]
  /\ UNCHANGED <<counted, rows, truncated>>

Ask == (\E filter \in Filters : Refuse(filter) \/ AskRows(filter)) \/ AskModels \/ AskFacets

\* The viewer alone, beside the collectors
ResultsNext ==
  \/ UNCHANGED reader /\ UNCHANGED started /\ Ask
  \/ UNCHANGED results /\ \E r \in Runs, at \in Times : Insert(r, at)

ResultsSpec == Init /\ ResultsInit /\ [][ResultsNext]_<<vars, results>>

-----------------------------------------------------------------------------
(* runsLinkForConfiguration *)

\* Passing what is null as a text
MutantIfSet(key, S) == S

\* ifSet: a field that is null is left out.
IfSet(key, S) == {f \in S : key[f] # None}

\* ConfigurationKey has no device class.
Link(key) == [f \in IfSet(key, KeyColumns \ {"device_class"}) |-> key[f]]

Linked(row) == {r \in Table : Matches(Link(row.key), r)}

-----------------------------------------------------------------------------
(* Properties *)

\* The filter of each column offers the value that each row shows in it, though
\* runs are recorded between the queries: "a client can always widen a filter
\* it has narrowed", to what it sees.
Shown(row, f) == IF f \in KnownColumns THEN row.known[f] ELSE row.key[f]

FacetsCoverRows ==
  stage = "answered" =>
    \A row \in rows : \A f \in DOMAIN facets :
      Shown(row, f) # None => Shown(row, f) \in facets[f]

\* What a row says of the runs of its configuration, without a fold: the number
\* of them in each class, the first and the last, and of the samples of a metric
\* a median with no more than half of them on either side.
Of(row) == {r \in counted : KeyOf(r) = row.key}

Succeeded(row) == {r \in Of(row) : Attr[r]["exit_status"] = "succeeded"}

Summarises(stats, S, metric) ==
  LET value(r)  == Attr[r][metric]
      known     == {r \in S : value(r) # None}
      half      == Cardinality(known) \div 2
      Extreme(v) == \E r \in known : value(r) = v
  IN IF known = {} THEN stats = None
     ELSE /\ stats.n = Cardinality(known)
          /\ Extreme(stats.min) /\ Extreme(stats.max)
          /\ \A r \in known : stats.min <= value(r) /\ value(r) <= stats.max
          /\ Cardinality({r \in known : 2 * value(r) < stats.twice_median}) <= half
          /\ Cardinality({r \in known : 2 * value(r) > stats.twice_median}) <= half
          /\ \E q, r \in known :
               /\ (q = r) = (Cardinality(known) % 2 = 1)
               /\ value(q) + value(r) = stats.twice_median

RowsSummariseTheirRuns ==
  /\ \A row \in rows :
       /\ row.total_runs = Cardinality(Of(row)) /\ Of(row) # {}
       /\ row.not_succeeded = Cardinality(Of(row) \ Succeeded(row))
       /\ row.correctness_failed =
            Cardinality({r \in Succeeded(row) : Attr[r]["correctness_result"] = "failed"})
       /\ row.throttled = Cardinality({r \in Of(row) : Attr[r]["thermal_throttling"] = 1})
       /\ \A r \in Of(row) :
            row.first_started_at <= started[r] /\ started[r] <= row.last_started_at
       /\ \A f \in KnownColumns :
            IF row.known[f] = None THEN \A r \in Of(row) : Attr[r][f] = None
            ELSE \E r \in Of(row) : Attr[r][f] = row.known[f]
       /\ Summarises(row.prefill, Succeeded(row), "prefill")
       /\ Summarises(row.decode, Succeeded(row), "decode")
  /\ \A row, other \in rows : row.key = other.key => row = other
  /\ ~ truncated => \A r \in counted : \E row \in rows : row.key = KeyOf(r)

\* The list that a row links to is not refused, and has every run that the row
\* was made of.
LinkListsEveryRun ==
  \A row \in rows : Parses(Link(row.key)) /\ Of(row) \subseteq Linked(row)

\* And it has those only: "`/runs?...` filtered to exactly one configuration's
\* runs" (dashboard/src/lib/filters.ts:189).
LinkIsExact == \A row \in rows : \A r \in Linked(row) : KeyOf(r) = row.key
=============================================================================
