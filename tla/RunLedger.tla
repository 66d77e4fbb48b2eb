------------------------------ MODULE RunLedger ------------------------------
(***************************************************************************)
(* What POST /api/v1/runs promises: a ledger with one entry per run id,     *)
(* written whole and once, and never changed; and what the importer of logs *)
(* promises of each repetition in a log.                                     *)
(***************************************************************************)

CONSTANTS
  Ids,
  IsEntry(_)  \* what may be recorded

VARIABLE entries  \* what is recorded under each id

Init == entries = [i \in Ids |-> {}]

Record(i) ==
  /\ entries[i] = {}
  /\ \E e \in entries'[i] : IsEntry(e) /\ entries' = [entries EXCEPT ![i] = {e}]

Next == \E i \in Ids : Record(i)

Spec == Init /\ [][Next]_entries
=============================================================================
