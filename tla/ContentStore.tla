----------------------------- MODULE ContentStore -----------------------------
(***************************************************************************)
(* What the artifact store promises to its callers: one atomic              *)
(* get-or-create per content.  The first caller to store a content fixes    *)
(* its id for ever; every later one is given that id.                       *)
(***************************************************************************)

CONSTANTS Requests, Contents, None

VARIABLES
  id,      \* the id each content is registered under
  answer   \* the id each caller was given, None before

Init ==
  /\ id = [c \in Contents |-> None]
  /\ answer = [r \in Requests |-> None]

\* A caller whose content is new registers it under its own fresh id.
Store(r, c) ==
  /\ answer[r] = None
  /\ id' = [id EXCEPT ![c] = IF @ = None THEN r ELSE @]
  /\ answer' = [answer EXCEPT ![r] = id'[c]]

Next == \E r \in Requests, c \in Contents : Store(r, c)

Spec == Init /\ [][Next]_<<id, answer>>
=============================================================================
