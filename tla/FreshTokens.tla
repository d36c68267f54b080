---------------------------- MODULE FreshTokens ----------------------------
(***************************************************************************)
(* What performActionWithFreshTokens: promises its callers, without the    *)
(* tokens, the lock or the network (OIDAuthState.h:214-248): each request  *)
(* is answered once, at once or by a refresh; no two refreshes run at the  *)
(* same time; and the end of a refresh answers everyone who waits for it.  *)
(***************************************************************************)
CONSTANT Callers

VARIABLES status,     \* where each caller's request stands
          refreshing  \* is a refresh running?

vars == <<status, refreshing>>

Statuses == {"none", "deciding", "awaiting", "answered"}

TypeOK == status \in [Callers -> Statuses] /\ refreshing \in BOOLEAN

Init == status = [c \in Callers |-> "none"] /\ refreshing = FALSE

Move(c, from, to) == status[c] = from /\ status' = [status EXCEPT ![c] = to]

Ask(c) == Move(c, "none", "deciding") /\ UNCHANGED refreshing

\* Answered without a refresh, with tokens or with an error.
AnswerAtOnce(c) ==
  /\ Move(c, "none", "answered") \/ Move(c, "deciding", "answered")
  /\ UNCHANGED refreshing

StartRefresh(c) ==
  /\ ~ refreshing
  /\ Move(c, "deciding", "awaiting")
  /\ refreshing' = TRUE

JoinRefresh(c) ==
  /\ refreshing
  /\ Move(c, "deciding", "awaiting")
  /\ UNCHANGED refreshing

EndRefresh ==
  /\ refreshing
  /\ refreshing' = FALSE
  /\ status' = [c \in Callers |-> IF status[c] = "awaiting" THEN "answered"
                                                            ELSE status[c]]

CallAction(c) == Move(c, "answered", "none") /\ UNCHANGED refreshing

Decide(c) == AnswerAtOnce(c) \/ StartRefresh(c) \/ JoinRefresh(c)

Next == EndRefresh \/ \E c \in Callers : Ask(c) \/ Decide(c) \/ CallAction(c)

Spec == Init /\ [][Next]_vars

FairSpec ==
  /\ Spec
  /\ WF_vars(EndRefresh)
  /\ \A c \in Callers : /\ WF_vars(status[c] = "deciding" /\ Decide(c))
                        /\ WF_vars(CallAction(c))
=============================================================================
