--------------------------- MODULE SessionContract ---------------------------
(***************************************************************************)
(* What OIDExternalUserAgentSession promises the app that presents a       *)
(* request (OIDExternalUserAgentSession.h:26-70), without user agents and  *)
(* their windows: each session calls its callback once, at once if nothing *)
(* can be opened, or with what a message to the session called for.        *)
(*                                                                         *)
(* A session that is firm is over with the first message it accepts.  One  *)
(* that is patient may first have to wait for a window to close, and until *)
(* then a later message may settle it.                                     *)
(***************************************************************************)
CONSTANTS
  Nil,
  Sessions,
  Refusal,    \* what the callback is called with if nothing opens
  AnswersTo   \* what it may be called with otherwise, for each session

VARIABLES
  stage,      \* of each session: "none", "patient", "firm" or "over"
  decided,    \* what the first message to it called for
  told        \* what its callback was called with

vars == <<stage, decided, told>>

Init ==
  /\ stage = [s \in Sessions |-> "none"]
  /\ decided = [s \in Sessions |-> Nil]
  /\ told = [s \in Sessions |-> <<>>]

Move(s, from, to) == stage[s] \in from /\ stage' = [stage EXCEPT ![s] = to]
Tell(s, outcome) == told' = [told EXCEPT ![s] = <<outcome>>]
Decide(s, outcome) == decided[s] = Nil /\ decided' = [decided EXCEPT ![s] = outcome]

Open(s) ==
  /\ Move(s, {"none"}, "patient") \/ Move(s, {"none"}, "firm")
  /\ UNCHANGED <<decided, told>>

Refuse(s) == Move(s, {"none"}, "over") /\ Decide(s, Refusal) /\ Tell(s, Refusal)

\* A message is accepted, and the window is still to close.
Accept(s, outcome) ==
  /\ stage[s] = "patient"
  /\ Decide(s, outcome)
  /\ UNCHANGED <<stage, told>>

\* A message settles a session that had accepted none ...
Settle(s, outcome) ==
  Move(s, {"patient", "firm"}, "over") /\ Decide(s, outcome) /\ Tell(s, outcome)

\* ... or the window has closed, or a later message has overtaken it.
SettleLater(s, outcome) ==
  /\ Move(s, {"patient"}, "over")
  /\ decided[s] # Nil
  /\ Tell(s, outcome)
  /\ UNCHANGED decided

Next ==
  \E s \in Sessions :
    \/ Open(s) \/ Refuse(s)
    \/ \E outcome \in AnswersTo[s] :
         Accept(s, outcome) \/ Settle(s, outcome) \/ SettleLater(s, outcome)

Spec == Init /\ [][Next]_vars
=============================================================================
