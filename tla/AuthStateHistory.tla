-------------------------- MODULE AuthStateHistory --------------------------
(***************************************************************************)
(* AuthState with a memory of what the app did while the object was busy:  *)
(* it forced a refresh, it replaced the authorization under a request that *)
(* was out, it replaced it under a caller that was inside the method.  The *)
(* object looks at none of this; the memory says how far its promises go.  *)
(***************************************************************************)
EXTENDS AuthState

VARIABLES
  owed,     \* a refresh that was forced has not been requested yet
  crossed,  \* the request that is or was last out is of a replaced authorization
  intruded  \* callers inside the method when the authorization was replaced

history == <<owed, crossed, intruded>>

\* setNeedsTokenRefresh promises that the next performActionWithFreshTokens:
\* refreshes (OIDAuthState.h:245-247).  A request that is out already cannot keep
\* it: the answer clears the flag (519), and no one can tell whose it was.
Forces ==
  /\ SetNeedsTokenRefresh
  /\ owed' = (requests = {})
  /\ UNCHANGED <<crossed, intruded>>

Sends ==
  /\ \E c \in Callers : SendRefresh(c)
  /\ owed' = FALSE
  /\ intruded' = {c \in intruded : pc'[c] # "returned"}
  /\ UNCHANGED crossed

\* A registration clears the authorization, a new authorization replaces it.
Replaces ==
  /\ AppRegisters \/ AppAuthorizes
  /\ crossed' = (requests # {})
  /\ intruded' = intruded \cup {c \in Callers : pc[c] \in Performing}
  /\ UNCHANGED owed

Otherwise ==
  /\ \/ \E c \in Callers : Perform(c) /\ ~ SendRefresh(c)
     \/ \E b \in blocks : RunAction(b)
     \/ \E r \in requests : RefreshAnswered(r)
     \/ CallbackDispatch
     \/ AppExchanges \/ AppFails
     \/ Tick
  /\ intruded' = {c \in intruded : pc'[c] # "returned"}
  /\ UNCHANGED <<owed, crossed>>

HistoryInit == Init /\ owed = FALSE /\ crossed = FALSE /\ intruded = {}
HistoryNext == Forces \/ Sends \/ Replaces \/ Otherwise
HistorySpec == HistoryInit /\ [][HistoryNext]_<<vars, history>>
-----------------------------------------------------------------------------
\* While a forced refresh is owed the object does not take its tokens for fresh,
\* so no caller is served without a refresh before one was requested: whether it
\* was forced between actions, while callers are inside the method, or by a
\* delegate the refresh callback calls.  A force that comes while a request is
\* out is the one the answer takes for its own.
ForcedRefreshOwed == owed => ~ IsTokenFresh(st, now)

\* Only the answer of a refresh ends a forced refresh, no other update does, and
\* until then only the end of a refresh hands tokens out.  So a refresh that
\* cannot be made refuses every action, under a later authorization as well.
ForceEndsWithRefresh ==
  [][st.needsRefresh =>
       /\ st'.needsRefresh \/ \E r \in requests : requests' = requests \ {r}
       /\ \A b \in blocks' \ blocks : b.tokens => callback.running]_<<vars, history>>

\* The object mixes tokens of two authorizations only if one was replaced while a
\* request for the other was out.  An update at any other time is safe: between
\* the check of the token and the request, which then carries no token or the new
\* one, or from a delegate inside the refresh callback.
MixedOnlyByCrossing == ~ crossed => TokensOfCurrentGrant

\* The exception of lines 432-434 is raised only in a caller that was inside the
\* method when the authorization was replaced: not by a refresh of another caller
\* that fails, and never on the main thread, which updates wait for.
RaisesOnlyIntruded ==
  \A c \in Callers : pc[c] = "raised" => c \in intruded \ MainCallers
=============================================================================
