----------------------------- MODULE AuthState -----------------------------
(***************************************************************************)
(* One OIDAuthState object shared by its callers, the main thread and the  *)
(* network: performActionWithFreshTokens: and the token refresh it starts  *)
(* (Source/AppAuthCore/OIDAuthState.m).                                    *)
(*                                                                         *)
(* A caller asks for fresh tokens, from the main thread or from a thread   *)
(* of its own, and its action is called back exactly once.  The checks at  *)
(* the head of the method are made outside the lock, so a step of another  *)
(* thread may come between any two of them; the main thread runs one block *)
(* at a time, but a delegate called from inside the refresh callback may   *)
(* call the object again before the callback goes on.                      *)
(*                                                                         *)
(* Assumed: reading or writing one instance variable is atomic (the code   *)
(* uses nonatomic ivars; a torn retain is outside this model), and the app *)
(* updates the object on the main thread only, where the library delivers  *)
(* every callback.                                                         *)
(***************************************************************************)
EXTENDS AuthStateData

CONSTANTS Callers,        \* who calls performActionWithFreshTokens:
          MainCallers,    \* those that call it on the main thread
          AuthorizationShapes, \* what an authorization response may carry
          TokenShapes,         \* what a token response may carry
          MaxTime              \* bound of the clock

ASSUME MainCallersAreCallers == MainCallers \subseteq Callers
ASSUME MaxTimeIsNat == MaxTime \in Nat
ASSUME AuthorizationShapesTyped ==
  AuthorizationShapes \subseteq
    [access : BOOLEAN, id : BOOLEAN, lifetime : Dates,
     scope : Scopes \cup {Nil}, requestScope : Scopes \cup {Nil}]
ASSUME TokenShapesTyped ==
  TokenShapes \subseteq
    [access : BOOLEAN, id : BOOLEAN, refresh : BOOLEAN, lifetime : Dates,
     scope : Scopes \cup {Nil}]

VARIABLES
  st,        \* the authorization data of the object, see AuthStateData
  now,       \* the clock timeIntervalSinceNow reads
  pc,        \* pc[c]: where c is in performActionWithFreshTokens:
  pending,   \* _pendingActions; {} stands for nil, as a list the code makes
             \* is never empty
  requests,  \* refresh requests the server has not been heard of yet
  callback,  \* the refresh callback: is it between its update of the object
             \* and its taking of the pending actions, and with which error
  blocks     \* action blocks put on a dispatch queue and not yet run

vars == <<st, now, pc, pending, requests, callback, blocks>>

\* "returned": the method has returned and the action is outstanding.
Performing == {"stale", "refreshable", "owner", "sending"}
PCs == {"idle", "returned", "raised"} \cup Performing

Requests  == [caller : Callers, grant : Grants \cup {Nil}]
Callbacks == [running : BOOLEAN, error : Errors \cup {Nil}]
Blocks    == [action : Callers, tokens : BOOLEAN, error : Errors \cup {Nil}]

NoCallback == [running |-> FALSE, error |-> Nil]

ExpirationAfter(lifetime) == IF lifetime = Nil THEN Nil ELSE now + lifetime

AuthorizationResponse(g, shape) ==
  [grant |-> g, access |-> shape.access, id |-> shape.id,
   expiration |-> ExpirationAfter(shape.lifetime),
   scope |-> shape.scope, requestScope |-> shape.requestScope]

TokenResponse(g, shape) ==
  [grant |-> g, access |-> shape.access, id |-> shape.id,
   refresh |-> shape.refresh,
   expiration |-> ExpirationAfter(shape.lifetime), scope |-> shape.scope]

Init ==
  /\ now = 0
  /\ \E g \in Grants, a \in AuthorizationShapes, t \in TokenShapes \cup {Nil} :
       st = InitialState(AuthorizationResponse(g, a),
                         IF t = Nil THEN Nil ELSE TokenResponse(g, t), FALSE)
  /\ pc = [c \in Callers |-> "idle"]
  /\ pending = {}
  /\ requests = {}
  /\ callback = NoCallback
  /\ blocks = {}

\* The main thread is inside performActionWithFreshTokens:.
MainInPerform == \E c \in MainCallers : pc[c] \in Performing

\* Mutant: the callback is called on the network's own queue.
AnyQueueTakesCallback == TRUE

\* The refresh callback is dispatched to the main queue, so it runs, and goes on
\* after its delegates, while the main thread is not inside the method.
MainQueueTakesCallback == ~ MainInPerform

-----------------------------------------------------------------------------
(* performActionWithFreshTokens:additionalRefreshParameters:dispatchQueue: *)

Goto(c, label) == pc' = [pc EXCEPT ![c] = label]

Dispatch(c, tokens, error) ==
  blocks' = blocks \cup {[action |-> c, tokens |-> tokens, error |-> error]}

\* A main-thread caller runs when the main thread is between blocks, or from
\* a delegate the refresh callback calls.
MayCall(c) == pc[c] = "idle" /\ (c \in MainCallers => ~ MainInPerform)

\* Lines 475-481: the tokens are fresh, dispatch the action at once.
PerformFresh(c) ==
  /\ MayCall(c)
  /\ IsTokenFresh(st, now)
  /\ Dispatch(c, TRUE, Nil)
  /\ Goto(c, "returned")
  /\ UNCHANGED <<st, now, pending, requests, callback>>

PerformStale(c) ==
  /\ MayCall(c)
  /\ ~ IsTokenFresh(st, now)
  /\ Goto(c, "stale")
  /\ UNCHANGED <<st, now, pending, requests, callback, blocks>>

\* Lines 483-493.
NoRefreshToken(c) ==
  /\ pc[c] = "stale"
  /\ st.refreshToken = Nil
  /\ Dispatch(c, FALSE, GeneralErrorDomain)
  /\ Goto(c, "returned")
  /\ UNCHANGED <<st, now, pending, requests, callback>>

\* Mutant: without the check of line 483.
UncheckedHasRefreshToken(c) ==
  /\ pc[c] = "stale"
  /\ Goto(c, "refreshable")
  /\ UNCHANGED <<st, now, pending, requests, callback, blocks>>

HasRefreshToken(c) ==
  /\ pc[c] = "stale"
  /\ st.refreshToken # Nil
  /\ Goto(c, "refreshable")
  /\ UNCHANGED <<st, now, pending, requests, callback, blocks>>

\* Lines 499-508, one critical section.
JoinRefresh(c) ==
  /\ pc[c] = "refreshable"
  /\ pending # {}
  /\ pending' = pending \cup {c}
  /\ Goto(c, "returned")
  /\ UNCHANGED <<st, now, requests, callback, blocks>>

\* Mutant: without the check of line 501.
UncheckedOwnRefresh(c) ==
  /\ pc[c] = "refreshable"
  /\ pending' = pending \cup {c}
  /\ Goto(c, "owner")
  /\ UNCHANGED <<st, now, requests, callback, blocks>>

OwnRefresh(c) ==
  /\ pc[c] = "refreshable"
  /\ pending = {}
  /\ pending' = {c}
  /\ Goto(c, "owner")
  /\ UNCHANGED <<st, now, requests, callback, blocks>>

\* Lines 432-434 of tokenRefreshRequestWithAdditionalParameters:.
CheckRefreshToken(c) ==
  /\ pc[c] = "owner"
  /\ Goto(c, IF st.refreshToken = Nil THEN "raised" ELSE "sending")
  /\ UNCHANGED <<st, now, pending, requests, callback, blocks>>

\* Lines 435-445 read the token again; 513 starts the request.
SendRefresh(c) ==
  /\ pc[c] = "sending"
  /\ requests' = requests \cup {[caller |-> c, grant |-> st.refreshToken]}
  /\ Goto(c, "returned")
  /\ UNCHANGED <<st, now, pending, callback, blocks>>

Perform(c) ==
  \/ PerformFresh(c)
  \/ PerformStale(c)
  \/ NoRefreshToken(c)
  \/ HasRefreshToken(c)
  \/ JoinRefresh(c)
  \/ OwnRefresh(c)
  \/ CheckRefreshToken(c)
  \/ SendRefresh(c)

\* A block runs: lines 478, 490 or 541, which read the tokens only now.
RunAction(b) ==
  /\ b \in blocks
  /\ blocks' = blocks \ {b}
  /\ Goto(b.action, "idle")
  /\ UNCHANGED <<st, now, pending, requests, callback>>

-----------------------------------------------------------------------------
(* The refresh callback, lines 515 to 544, a block of the main queue. *)

\* Lines 517-531, up to the delegate calls these lines end in.
CallbackUpdate(r, response, error) ==
  /\ r \in requests
  /\ MainQueueTakesCallback /\ ~ callback.running
  /\ requests' = requests \ {r}
  /\ st' = RefreshedState(st, response, error)
  /\ callback' = [running |-> TRUE, error |-> error]
  /\ UNCHANGED <<now, pc, pending, blocks>>

\* The server, or performTokenRequest: on its behalf, answers with tokens of
\* the grant the request carried, with an OAuth error, or with a network,
\* HTTP, JSON or ID token error.
RefreshAnswered(r) ==
  \/ /\ r.grant # Nil
     /\ \E shape \in TokenShapes :
          CallbackUpdate(r, TokenResponse(r.grant, shape), Nil)
  \/ \E error \in {TokenErrorDomain, GeneralErrorDomain} :
       CallbackUpdate(r, Nil, error)

\* Mutant: line 537 is missing.
ForgetfulDispatch ==
  /\ callback.running
  /\ MainQueueTakesCallback
  /\ blocks' = blocks \cup
       {[action |-> c, tokens |-> TRUE, error |-> callback.error] :
          c \in pending}
  /\ callback' = NoCallback
  /\ UNCHANGED <<st, now, pc, pending, requests>>

\* Mutant: a failed refresh returns after its update, before line 533.
FailingDispatch ==
  /\ callback.running
  /\ MainQueueTakesCallback
  /\ IF callback.error = Nil
     THEN /\ pending' = {}
          /\ blocks' = blocks \cup
               {[action |-> c, tokens |-> TRUE, error |-> Nil] : c \in pending}
     ELSE UNCHANGED <<pending, blocks>>
  /\ callback' = NoCallback
  /\ UNCHANGED <<st, now, pc, requests>>

\* Lines 533-543. An action dispatched early in the loop sees what one
\* dispatched at its end sees, so the loop is one step.
CallbackDispatch ==
  /\ callback.running
  /\ MainQueueTakesCallback
  /\ pending' = {}
  /\ blocks' = blocks \cup
       {[action |-> c, tokens |-> TRUE, error |-> callback.error] :
          c \in pending}
  /\ callback' = NoCallback
  /\ UNCHANGED <<st, now, pc, requests>>

-----------------------------------------------------------------------------
(* The app, on the main thread. *)

AppUpdates(new) ==
  /\ ~ MainInPerform
  /\ st' = new
  /\ UNCHANGED <<now, pc, pending, requests, callback, blocks>>

AppRegisters == AppUpdates(UpdateWithRegistrationResponse(st, TRUE))

\* A new authorization of the user.
AppAuthorizes ==
  \E g \in Grants, shape \in AuthorizationShapes :
    /\ st.authorization # Nil => g # st.authorization.grant
    /\ AppUpdates(UpdateWithAuthorizationResponse(
                    st, AuthorizationResponse(g, shape), Nil))

\* The app's own exchange of the authorization code.
AppExchanges ==
  \E shape \in TokenShapes :
    /\ st.authorization # Nil
    /\ AppUpdates(UpdateWithTokenResponse(
                    st, TokenResponse(st.authorization.grant, shape), Nil))

AppFails ==
  \/ AppUpdates(UpdateWithAuthorizationResponse(st, Nil,
                                                AuthorizationErrorDomain))
  \/ \E error \in {TokenErrorDomain, GeneralErrorDomain} :
       AppUpdates(UpdateWithTokenResponse(st, Nil, error))
  \/ AppUpdates(UpdateWithAuthorizationError(st, AuthorizationErrorDomain))

\* setNeedsTokenRefresh
SetNeedsTokenRefresh ==
  /\ ~ MainInPerform
  /\ st' = [st EXCEPT !.needsRefresh = TRUE]
  /\ UNCHANGED <<now, pc, pending, requests, callback, blocks>>

Tick ==
  /\ now < MaxTime
  /\ now' = now + 1
  /\ UNCHANGED <<st, pc, pending, requests, callback, blocks>>

App == AppRegisters \/ AppAuthorizes \/ AppExchanges \/ AppFails
         \/ SetNeedsTokenRefresh

Next ==
  \/ \E c \in Callers : Perform(c)
  \/ \E b \in blocks : RunAction(b)
  \/ \E r \in requests : RefreshAnswered(r)
  \/ CallbackDispatch
  \/ App
  \/ Tick

Spec == Init /\ [][Next]_vars

\* A thread inside the method goes on, a dispatched block is run, and every
\* request is answered (NSURLSession times out at the latest).  The answer is
\* a block of the serial main queue, which other blocks may occupy again and
\* again but never overtake: strong fairness.
Fairness ==
  /\ \A c \in Callers :
       /\ WF_vars(pc[c] # "idle" /\ Perform(c))
       /\ WF_vars(\E b \in blocks : b.action = c /\ RunAction(b))
       /\ SF_vars(\E r \in requests : r.caller = c /\ RefreshAnswered(r))
  /\ SF_vars(CallbackDispatch)

FairSpec == Spec /\ Fairness
-----------------------------------------------------------------------------
(* What must hold. *)

TypeOK ==
  /\ st \in AuthStates
  /\ now \in 0..MaxTime
  /\ pc \in [Callers -> PCs]
  /\ pending \in SUBSET Callers
  /\ requests \in SUBSET Requests
  /\ callback \in Callbacks
  /\ blocks \in SUBSET Blocks

RefreshOwners == {c \in Callers : pc[c] \in {"owner", "sending"}}

RefreshInProgress == RefreshOwners # {} \/ requests # {} \/ callback.running

\* At most one refresh is under way, from the caller that starts it through
\* its request to its callback, whatever thread asks while it runs; this is
\* what _pendingActions and its lock are for (lines 499-508 and 533-538).
SingleRefresh ==
  /\ \A c, d \in RefreshOwners : c = d
  /\ \A q, r \in requests : q = r
  /\ RefreshOwners # {} => requests = {} /\ ~ callback.running
  /\ requests # {} => ~ callback.running

Queued(c) == \E b \in blocks : b.action = c

\* An action asked for is in exactly one place until it is called: in the
\* pending actions, or in one block on a queue. None is lost when the callback
\* takes the list while another thread appends to it, none is called twice.
ActionInOnePlace ==
  /\ \A a, b \in blocks : a.action = b.action => a = b
  /\ \A c \in Callers :
       /\ pc[c] \in {"idle", "stale", "refreshable"}
            => c \notin pending /\ ~ Queued(c)
       /\ pc[c] \in {"owner", "sending", "raised"}
            => c \in pending /\ ~ Queued(c)
       /\ pc[c] = "returned" => (c \in pending <=> ~ Queued(c))

\* Whoever waits in the pending actions waits for a refresh that is under way;
\* only a caller that the exception of lines 432-434 stopped leaves them stranded.
PendingActionsAwaitRefresh ==
  pending # {} => RefreshInProgress \/ \E c \in Callers : pc[c] = "raised"

\* Everything the object holds descends from its last authorization
\* (lines 360-363: what relates to an old one is cleared).
TokensOfCurrentGrant ==
  LET ofCurrent(g) ==
        st.authorization # Nil /\ st.authorization.grant = g
  IN  /\ st.token # Nil => ofCurrent(st.token.grant)
      /\ st.refreshToken # Nil => ofCurrent(st.refreshToken)

\* A caller on the main thread sends a refresh request only while the tokens are
\* not fresh, also if other threads have started a refresh and its answer is in
\* when the caller gets there: nothing updates the object between its check (475)
\* and its request (513), as answers are dispatched to the main queue.
MainRefreshesOnlyWhenStale ==
  [][\A c \in MainCallers :
       pc[c] = "sending" /\ pc'[c] = "returned" => ~ IsTokenFresh(st, now)]_vars

-----------------------------------------------------------------------------
(* AuthState implements the promise of FreshTokens. *)

Status ==
  [c \in Callers |->
     CASE pc[c] = "idle"                     -> "none"
       [] pc[c] \in {"stale", "refreshable"} -> "deciding"
       [] OTHER -> IF c \in pending THEN "awaiting" ELSE "answered"]

Promise == INSTANCE FreshTokens WITH status <- Status,
                                     refreshing <- pending # {}

\* Each step of the object is a step of the promise, or none.
PromiseKept == Promise!Spec

\* With the fairness of threads, queues and network, so is its progress.
PromiseFulfilled == Promise!FairSpec
=============================================================================
