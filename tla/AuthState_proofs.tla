-------------------------- MODULE AuthState_proofs --------------------------
(***************************************************************************)
(* What holds of AuthState, and of AuthStateHistory, for every set of      *)
(* callers, on whatever threads, every menu of responses and every         *)
(* schedule of updates.                                                    *)
(***************************************************************************)
EXTENDS AuthStateHistory, AuthStateData_proofs, TLAPS

-----------------------------------------------------------------------------
(* Type correctness. *)

\* Responses made from the shapes are well-typed responses.
LEMMA ResponsesTyped ==
  ASSUME now \in 0..MaxTime, NEW g \in Grants
  PROVE  /\ \A a \in AuthorizationShapes :
              AuthorizationResponse(g, a) \in AuthorizationResponses
         /\ \A t \in TokenShapes : TokenResponse(g, t) \in TokenResponses
<1>1. \A l \in Dates : ExpirationAfter(l) \in Dates
  BY MaxTimeIsNat DEF ExpirationAfter, Dates
<1>2. ASSUME NEW a \in AuthorizationShapes
      PROVE  AuthorizationResponse(g, a) \in AuthorizationResponses
  <2>1. /\ a.access \in BOOLEAN /\ a.id \in BOOLEAN /\ a.lifetime \in Dates
        /\ a.scope \in Scopes \cup {Nil} /\ a.requestScope \in Scopes \cup {Nil}
    BY AuthorizationShapesTyped
  <2> QED BY <1>1, <2>1 DEF AuthorizationResponse, AuthorizationResponses
<1>3. ASSUME NEW t \in TokenShapes
      PROVE  TokenResponse(g, t) \in TokenResponses
  <2>1. /\ t.access \in BOOLEAN /\ t.id \in BOOLEAN /\ t.refresh \in BOOLEAN
        /\ t.lifetime \in Dates /\ t.scope \in Scopes \cup {Nil}
    BY TokenShapesTyped
  <2> QED BY <1>1, <2>1 DEF TokenResponse, TokenResponses
<1> QED BY <1>2, <1>3

\* The initial states have the right types.
LEMMA InitTyped == Init => TypeOK
<1> SUFFICES ASSUME Init PROVE TypeOK
  OBVIOUS
<1>1. now \in 0..MaxTime
  BY MaxTimeIsNat DEF Init
<1>2. st \in AuthStates
  <2>1. PICK g \in Grants, a \in AuthorizationShapes, t \in TokenShapes \cup {Nil} :
          st = InitialState(AuthorizationResponse(g, a),
                            IF t = Nil THEN Nil ELSE TokenResponse(g, t), FALSE)
    BY DEF Init
  <2>2. AuthorizationResponse(g, a) \in AuthorizationResponses \cup {Nil}
    BY <1>1, ResponsesTyped
  <2>3. (IF t = Nil THEN Nil ELSE TokenResponse(g, t)) \in TokenResponses \cup {Nil}
    BY <1>1, ResponsesTyped
  <2> QED BY <2>1, <2>2, <2>3, InitialStateTyped
<1>3. callback \in Callbacks
  BY DEF Init, NoCallback, Callbacks
<1> QED BY <1>1, <1>2, <1>3 DEF Init, TypeOK, PCs

\* Every step keeps them.
LEMMA StepTyped == TypeOK /\ [Next]_vars => TypeOK'
<1> SUFFICES ASSUME TypeOK, [Next]_vars PROVE TypeOK'
  OBVIOUS
<1> USE DEF TypeOK
<1>1. ASSUME NEW c \in Callers, Perform(c) PROVE TypeOK'
  <2>1. CASE PerformFresh(c) \/ NoRefreshToken(c)
    <3>1. /\ [action |-> c, tokens |-> TRUE, error |-> Nil] \in Blocks
          /\ [action |-> c, tokens |-> FALSE, error |-> GeneralErrorDomain]
               \in Blocks
      BY DEF Errors, Blocks
    <3>2. blocks' \in SUBSET Blocks
      BY <2>1, <3>1 DEF PerformFresh, NoRefreshToken, Dispatch
    <3> QED BY <2>1, <3>2 DEF PerformFresh, NoRefreshToken, Goto, PCs
  <2>2. CASE PerformStale(c) \/ HasRefreshToken(c) \/ CheckRefreshToken(c)
    BY <2>2 DEF PerformStale, HasRefreshToken, CheckRefreshToken, Goto, PCs,
                Performing
  <2>3. CASE JoinRefresh(c) \/ OwnRefresh(c)
    BY <2>3 DEF JoinRefresh, OwnRefresh, Goto, PCs, Performing
  <2>4. CASE SendRefresh(c)
    <3>1. [caller |-> c, grant |-> st.refreshToken] \in Requests
      BY DEF Requests, AuthStates
    <3> QED BY <2>4, <3>1 DEF SendRefresh, Goto, PCs
  <2> QED BY <1>1, <2>1, <2>2, <2>3, <2>4 DEF Perform
<1>2. ASSUME NEW b \in blocks, RunAction(b) PROVE TypeOK'
  BY <1>2 DEF RunAction, Goto, PCs
<1>3. ASSUME NEW r \in requests, RefreshAnswered(r) PROVE TypeOK'
  <2>1. ASSUME NEW answer \in TokenResponses \cup {Nil},
               NEW e \in Errors \cup {Nil}, CallbackUpdate(r, answer, e)
        PROVE  TypeOK'
    <3>1. st' \in AuthStates
      BY <2>1, RefreshedStateTyped DEF CallbackUpdate
    <3>2. callback' \in Callbacks
      BY <2>1 DEF CallbackUpdate, Callbacks
    <3> QED BY <2>1, <3>1, <3>2 DEF CallbackUpdate
  <2>2. ASSUME r.grant # Nil, NEW shape \in TokenShapes,
               CallbackUpdate(r, TokenResponse(r.grant, shape), Nil)
        PROVE  TypeOK'
    <3>1. r.grant \in Grants
      BY <2>2 DEF Requests
    <3>2. TokenResponse(r.grant, shape) \in TokenResponses
      BY <3>1, ResponsesTyped
    <3> QED BY <2>1, <2>2, <3>2
  <2>3. ASSUME NEW e \in {TokenErrorDomain, GeneralErrorDomain},
               CallbackUpdate(r, Nil, e)
        PROVE  TypeOK'
    <3>1. e \in Errors
      BY DEF Errors
    <3> QED BY <2>1, <2>3, <3>1
  <2> QED BY <1>3, <2>2, <2>3 DEF RefreshAnswered
<1>4. CASE CallbackDispatch
  <2>1. callback.error \in Errors \cup {Nil}
    BY DEF Callbacks
  <2>2. \A c \in pending :
          [action |-> c, tokens |-> TRUE, error |-> callback.error] \in Blocks
    BY <2>1 DEF Blocks
  <2>3. NoCallback \in Callbacks
    BY DEF NoCallback, Callbacks
  <2> QED BY <1>4, <2>2, <2>3 DEF CallbackDispatch
<1>5. CASE App
  <2>1. st' \in AuthStates
    <3>1. CASE AppRegisters
      BY <3>1 DEF AppRegisters, AppUpdates, UpdateWithRegistrationResponse,
                  AuthStates
    <3>2. CASE AppAuthorizes
      <4>1. PICK g \in Grants, shape \in AuthorizationShapes :
              st' = UpdateWithAuthorizationResponse(
                      st, AuthorizationResponse(g, shape), Nil)
        BY <3>2 DEF AppAuthorizes, AppUpdates
      <4> QED BY <4>1, AuthorizationUpdateTyped, ResponsesTyped
    <3>3. CASE AppExchanges
      <4>1. PICK shape \in TokenShapes :
              /\ st.authorization # Nil
              /\ st' = UpdateWithTokenResponse(
                         st, TokenResponse(st.authorization.grant, shape), Nil)
        BY <3>3 DEF AppExchanges, AppUpdates
      <4>2. st.authorization.grant \in Grants
        BY <4>1 DEF AuthStates, AuthorizationResponses
      <4> QED BY <4>1, <4>2, TokenUpdateTyped, ResponsesTyped
    <3>4. CASE AppFails
      <4>1. \/ st' = UpdateWithAuthorizationResponse(st, Nil,
                                                   AuthorizationErrorDomain)
            \/ \E e \in {TokenErrorDomain, GeneralErrorDomain} :
                 st' = UpdateWithTokenResponse(st, Nil, e)
            \/ st' = UpdateWithAuthorizationError(st, AuthorizationErrorDomain)
        BY <3>4 DEF AppFails, AppUpdates
      <4>2. {AuthorizationErrorDomain, TokenErrorDomain, GeneralErrorDomain}
              \subseteq Errors
        BY DEF Errors
      <4>3. UpdateWithAuthorizationError(st, AuthorizationErrorDomain)
              \in AuthStates
        BY <4>2 DEF UpdateWithAuthorizationError, AuthStates
      <4> QED BY <4>1, <4>2, <4>3, AuthorizationUpdateTyped, TokenUpdateTyped
    <3>5. CASE SetNeedsTokenRefresh
      BY <3>5 DEF SetNeedsTokenRefresh, AuthStates
    <3> QED BY <1>5, <3>1, <3>2, <3>3, <3>4, <3>5 DEF App
  <2>2. UNCHANGED <<now, pc, pending, requests, callback, blocks>>
    BY <1>5 DEF App, AppRegisters, AppAuthorizes, AppExchanges, AppFails,
                SetNeedsTokenRefresh, AppUpdates
  <2> QED BY <2>1, <2>2
<1>6. CASE Tick
  BY <1>6, MaxTimeIsNat DEF Tick
<1>7. CASE UNCHANGED vars
  BY <1>7 DEF vars
<1> QED BY <1>1, <1>2, <1>3, <1>4, <1>5, <1>6, <1>7 DEF Next

\* Every reachable state is well-typed.
THEOREM TypeCorrect == Spec => []TypeOK
  BY InitTyped, StepTyped, PTL DEF Spec

-----------------------------------------------------------------------------
(* One refresh at a time, every action in one place. *)

\* The callback of a refresh finds someone waiting for it.
CallbackHasWaiters == callback.running => pending # {}

\* Whoever sent a request that is still out is in the pending actions.
RequestersWait == \A r \in requests : r.caller \in pending

\* After the exception of lines 432-434 no refresh runs: the list of pending
\* actions is there, so none is started, and none was running.
RaisedStops == (\E c \in Callers : pc[c] = "raised") => ~ RefreshInProgress

\* SingleRefresh and ActionInOnePlace need each other, and the three facts
\* above: a new refresh starts only when pending is empty, and pending is
\* emptied only when no caller is between its enqueueing and its request.
RefreshInv == /\ TypeOK
              /\ SingleRefresh
              /\ ActionInOnePlace
              /\ CallbackHasWaiters
              /\ RequestersWait
              /\ RaisedStops

\* The invariant holds at first: nothing is going on.
LEMMA InitRefreshInv == Init => RefreshInv
<1> SUFFICES ASSUME Init PROVE RefreshInv
  OBVIOUS
<1>1. /\ \A c \in Callers : pc[c] = "idle"
      /\ pending = {} /\ requests = {} /\ blocks = {} /\ ~ callback.running
  BY DEF Init, NoCallback
<1>2. RefreshOwners = {}
  BY <1>1 DEF RefreshOwners
<1> QED BY <1>1, <1>2, InitTyped
        DEF RefreshInv, SingleRefresh, ActionInOnePlace, Queued,
            CallbackHasWaiters, RequestersWait, RaisedStops, RefreshInProgress

\* A caller that moves inside the method, or returns with a block dispatched,
\* keeps the invariant.
LEMMA PerformKeepsRefreshInv ==
  ASSUME RefreshInv, TypeOK', NEW c \in Callers, Perform(c)
  PROVE  RefreshInv'
<1> USE DEF RefreshInv, TypeOK, SingleRefresh, ActionInOnePlace, Queued,
            CallbackHasWaiters, RequestersWait, RaisedStops, RefreshInProgress,
            RefreshOwners, Goto
<1>1. CASE PerformFresh(c) \/ NoRefreshToken(c)
  <2>1. PICK tokens \in BOOLEAN, error \in {Nil, GeneralErrorDomain} :
          blocks' = blocks \cup
            {[action |-> c, tokens |-> tokens, error |-> error]}
    BY <1>1 DEF PerformFresh, NoRefreshToken, Dispatch
  <2>2. /\ pc[c] \in {"idle", "stale"}
        /\ pc' = [pc EXCEPT ![c] = "returned"]
        /\ UNCHANGED <<pending, requests, callback>>
    BY <1>1 DEF PerformFresh, NoRefreshToken, MayCall
  <2>3. SingleRefresh' /\ CallbackHasWaiters' /\ RequestersWait' /\ RaisedStops'
    BY <2>2
  <2>4. \A b \in blocks : b.action # c
    BY <2>2
  <2>5. \A a, b \in blocks' : a.action = b.action => a = b
    BY <2>1, <2>4
  <2>6. Queued(c)' /\ \A d \in Callers \ {c} : Queued(d)' <=> Queued(d)
    <3> DEFINE mine == [action |-> c, tokens |-> tokens, error |-> error]
    <3>1. mine.action = c
      OBVIOUS
    <3>2. blocks' = blocks \cup {mine}
      BY <2>1
    <3> HIDE DEF mine
    <3> QED BY <3>1, <3>2
  <2>7. ActionInOnePlace'
    BY <2>2, <2>5, <2>6
  <2> QED BY <2>3, <2>7
<1>2. CASE PerformStale(c) \/ HasRefreshToken(c)
  <2>1. /\ pc[c] \in {"idle", "stale"}
        /\ pc' = [pc EXCEPT ![c] = IF pc[c] = "idle" THEN "stale"
                                                     ELSE "refreshable"]
        /\ UNCHANGED <<pending, requests, callback, blocks>>
    BY <1>2 DEF PerformStale, HasRefreshToken, MayCall
  <2> QED BY <2>1
<1>3. CASE JoinRefresh(c)
  BY <1>3 DEF JoinRefresh
<1>4. CASE OwnRefresh(c)
  <2>1. requests = {} /\ ~ callback.running /\ RefreshOwners = {}
    BY <1>4 DEF OwnRefresh
  <2>2. RefreshOwners' = {c}
    BY <1>4, <2>1 DEF OwnRefresh
  <2>3. \A d \in Callers : pc[d] # "raised"
    BY <1>4 DEF OwnRefresh
  <2> QED BY <1>4, <2>1, <2>2, <2>3 DEF OwnRefresh
<1>5. CASE CheckRefreshToken(c)
  BY <1>5 DEF CheckRefreshToken
<1>6. CASE SendRefresh(c)
  <2>1. RefreshOwners = {c} /\ requests = {} /\ ~ callback.running
    BY <1>6 DEF SendRefresh
  <2>2. requests' = {[caller |-> c, grant |-> st.refreshToken]}
    BY <1>6, <2>1 DEF SendRefresh
  <2>3. RefreshOwners' = {}
    BY <1>6, <2>1 DEF SendRefresh
  <2> QED BY <1>6, <2>1, <2>2, <2>3 DEF SendRefresh
<1> QED BY <1>1, <1>2, <1>3, <1>4, <1>5, <1>6 DEF Perform

\* The callback's two steps keep the invariant: its answer ends the request,
\* its dispatch moves every pending action to a queue.
LEMMA CallbackKeepsRefreshInv ==
  ASSUME RefreshInv, TypeOK',
         CallbackDispatch \/ \E r \in requests : RefreshAnswered(r)
  PROVE  RefreshInv'
<1> USE DEF RefreshInv, TypeOK, SingleRefresh, ActionInOnePlace, Queued,
            CallbackHasWaiters, RequestersWait, RaisedStops, RefreshInProgress,
            RefreshOwners
<1>1. ASSUME NEW r \in requests, RefreshAnswered(r) PROVE RefreshInv'
  <2>1. /\ requests' = requests \ {r}
        /\ callback'.running
        /\ UNCHANGED <<pc, pending, blocks>>
    BY <1>1 DEF RefreshAnswered, CallbackUpdate
  <2>2. requests' = {}
    BY <2>1
  <2> QED BY <2>1, <2>2
<1>2. CASE CallbackDispatch
  <2>1. /\ pending' = {}
        /\ UNCHANGED <<pc, requests>>
        /\ ~ callback'.running
        /\ callback.running
    BY <1>2 DEF CallbackDispatch, NoCallback
  <2>2. requests = {} /\ RefreshOwners = {} /\ \A c \in Callers : pc[c] # "raised"
    BY <2>1
  <2>3. \A c \in pending : pc[c] = "returned" /\ ~ Queued(c)
    BY <2>2 DEF PCs, Performing
  <2>4. blocks' = blocks \cup
          {[action |-> c, tokens |-> TRUE, error |-> callback.error] :
             c \in pending}
    BY <1>2 DEF CallbackDispatch
  <2>5. \A b \in blocks' : b \in blocks \/ (b.action \in pending
          /\ b = [action |-> b.action, tokens |-> TRUE, error |-> callback.error])
    BY <2>4
  <2>6. \A a, b \in blocks' : a.action = b.action => a = b
    BY <2>3, <2>5
  <2>7. \A c \in Callers : Queued(c)' <=> Queued(c) \/ c \in pending
    <3>1. ASSUME NEW c \in pending PROVE Queued(c)'
      <4> DEFINE mine == [action |-> c, tokens |-> TRUE, error |-> callback.error]
      <4>1. mine \in blocks' /\ mine.action = c
        BY <2>4
      <4> QED BY <4>1
    <3>2. \A c \in Callers : Queued(c) => Queued(c)'
      BY <2>4
    <3>3. \A c \in Callers : Queued(c)' => Queued(c) \/ c \in pending
      BY <2>5
    <3> QED BY <3>1, <3>2, <3>3
  <2> QED BY <2>1, <2>2, <2>3, <2>6, <2>7
<1> QED BY <1>1, <1>2

\* So does every step, the app's and the clock's, which touch only the data.
LEMMA StepKeepsRefreshInv == RefreshInv /\ [Next]_vars => RefreshInv'
<1> SUFFICES ASSUME RefreshInv, [Next]_vars PROVE RefreshInv'
  OBVIOUS
<1>1. TypeOK'
  BY StepTyped DEF RefreshInv
<1>2. ASSUME NEW c \in Callers, Perform(c) PROVE RefreshInv'
  BY <1>1, <1>2, PerformKeepsRefreshInv
<1>3. ASSUME NEW b \in blocks, RunAction(b) PROVE RefreshInv'
  <2>1. b.action \in Callers /\ Queued(b.action)
    BY <1>3 DEF RefreshInv, TypeOK, Blocks, Queued
  <2>2. pc[b.action] = "returned" /\ b.action \notin pending
    BY <2>1 DEF RefreshInv, TypeOK, ActionInOnePlace, PCs, Performing
  <2> QED BY <1>1, <1>3, <2>1, <2>2
          DEF RunAction, Goto, RefreshInv, TypeOK, SingleRefresh,
              ActionInOnePlace, Queued, CallbackHasWaiters, RequestersWait,
              RaisedStops, RefreshInProgress, RefreshOwners
<1>4. CASE CallbackDispatch \/ \E r \in requests : RefreshAnswered(r)
  BY <1>1, <1>4, CallbackKeepsRefreshInv
<1>5. CASE App \/ Tick \/ UNCHANGED vars
  <2>1. UNCHANGED <<pc, pending, requests, callback, blocks>>
    BY <1>5 DEF App, AppRegisters, AppAuthorizes, AppExchanges, AppFails,
                SetNeedsTokenRefresh, AppUpdates, Tick, vars
  <2> QED BY <1>1, <2>1
          DEF RefreshInv, SingleRefresh, ActionInOnePlace, Queued,
              CallbackHasWaiters, RequestersWait, RaisedStops,
              RefreshInProgress, RefreshOwners
<1> QED BY <1>2, <1>3, <1>4, <1>5 DEF Next

\* The invariant holds of every reachable state.
LEMMA RefreshInvHolds == Spec => []RefreshInv
  BY InitRefreshInv, StepKeepsRefreshInv, PTL DEF Spec

\* At most one refresh is under way, whatever threads call the object and
\* whatever the app does to it meanwhile.
THEOREM RefreshIsSingle == Spec => []SingleRefresh
<1>1. RefreshInv => SingleRefresh
  BY DEF RefreshInv
<1> QED BY <1>1, RefreshInvHolds, PTL

\* No action is lost and none is called twice.
THEOREM ActionIsInOnePlace == Spec => []ActionInOnePlace
<1>1. RefreshInv => ActionInOnePlace
  BY DEF RefreshInv
<1> QED BY <1>1, RefreshInvHolds, PTL

-----------------------------------------------------------------------------
(* AuthState implements FreshTokens. *)

\* Initially nobody has asked.
LEMMA InitPromise == Init => Promise!Init
<1> SUFFICES ASSUME Init PROVE Promise!Init
  OBVIOUS
<1>1. pending = {} /\ \A c \in Callers : pc[c] = "idle"
  BY DEF Init
<1>2. Status = [c \in Callers |-> "none"]
  BY <1>1 DEF Status
<1> QED BY <1>1, <1>2 DEF Promise!Init

\* A step of performActionWithFreshTokens: is the step of the promise its
\* name says, or none.
LEMMA PerformPromise ==
  ASSUME RefreshInv, NEW c \in Callers, Perform(c)
  PROVE  Promise!Next \/ UNCHANGED Promise!vars
<1> USE DEF Promise!Next, Promise!Decide, Promise!Move, Promise!vars
<1>0. pc \in [Callers -> PCs] /\ ActionInOnePlace
  BY DEF RefreshInv, TypeOK
<1>1. CASE PerformFresh(c) \/ NoRefreshToken(c)
  <2>1. /\ pc[c] \in {"idle", "stale"} /\ c \notin pending
        /\ pc' = [pc EXCEPT ![c] = "returned"] /\ pending' = pending
    BY <1>0, <1>1 DEF PerformFresh, NoRefreshToken, MayCall, Goto, ActionInOnePlace
  <2>2. Status[c] \in {"none", "deciding"}
    BY <2>1 DEF Status
  <2>3. Status' = [Status EXCEPT ![c] = "answered"]
    BY <1>0, <2>1 DEF Status
  <2> QED BY <2>1, <2>2, <2>3 DEF Promise!AnswerAtOnce
<1>2. CASE PerformStale(c)
  <2>1. /\ pc[c] = "idle"
        /\ pc' = [pc EXCEPT ![c] = "stale"] /\ pending' = pending
    BY <1>2 DEF PerformStale, MayCall, Goto
  <2>2. Status[c] = "none" /\ Status' = [Status EXCEPT ![c] = "deciding"]
    BY <1>0, <2>1 DEF Status
  <2> QED BY <2>1, <2>2 DEF Promise!Ask
<1>3. CASE HasRefreshToken(c)
  <2>1. /\ pc[c] = "stale"
        /\ pc' = [pc EXCEPT ![c] = "refreshable"] /\ pending' = pending
    BY <1>3 DEF HasRefreshToken, Goto
  <2>2. Status' = Status
    BY <1>0, <2>1 DEF Status
  <2> QED BY <2>1, <2>2
<1>4. CASE JoinRefresh(c) \/ OwnRefresh(c)
  <2>1. /\ pc[c] = "refreshable"
        /\ pc' = [pc EXCEPT ![c] = IF pending = {} THEN "owner" ELSE "returned"]
        /\ pending' = pending \cup {c}
    BY <1>4 DEF JoinRefresh, OwnRefresh, Goto
  <2>2. Status[c] = "deciding" /\ Status' = [Status EXCEPT ![c] = "awaiting"]
    BY <1>0, <2>1 DEF Status
  <2>3. (pending' # {}) = TRUE
    BY <2>1
  <2>4. CASE pending = {}
    BY <2>2, <2>3, <2>4 DEF Promise!StartRefresh
  <2>5. CASE pending # {}
    BY <2>2, <2>3, <2>5 DEF Promise!JoinRefresh
  <2> QED BY <2>4, <2>5
<1>5. CASE CheckRefreshToken(c) \/ SendRefresh(c)
  <2>1. /\ pc[c] \in {"owner", "sending"} /\ c \in pending
        /\ \E p \in {"sending", "raised", "returned"} :
             pc' = [pc EXCEPT ![c] = p]
        /\ pending' = pending
    BY <1>0, <1>5 DEF CheckRefreshToken, SendRefresh, Goto, ActionInOnePlace
  <2>2. Status' = Status
    BY <1>0, <2>1 DEF Status
  <2> QED BY <2>1, <2>2
<1> QED BY <1>1, <1>2, <1>3, <1>4, <1>5 DEF Perform

\* Every step of the object is a step of the promise, or none.
LEMMA StepPromise ==
  RefreshInv /\ [Next]_vars => [Promise!Next]_(Promise!vars)
<1> SUFFICES ASSUME RefreshInv, [Next]_vars
             PROVE  Promise!Next \/ UNCHANGED Promise!vars
  OBVIOUS
<1>0. pc \in [Callers -> PCs] /\ ActionInOnePlace
  BY DEF RefreshInv, TypeOK
<1>1. ASSUME NEW c \in Callers, Perform(c)
      PROVE  Promise!Next \/ UNCHANGED Promise!vars
  BY <1>1, PerformPromise
<1>2. ASSUME NEW b \in blocks, RunAction(b) PROVE Promise!Next
  <2>1. b.action \in Callers /\ Queued(b.action)
    BY <1>2 DEF RefreshInv, TypeOK, Blocks, Queued
  <2>2. pc[b.action] = "returned" /\ b.action \notin pending
    BY <1>0, <2>1 DEF ActionInOnePlace, PCs, Performing
  <2>3. pc' = [pc EXCEPT ![b.action] = "idle"] /\ pending' = pending
    BY <1>2 DEF RunAction, Goto
  <2>4. /\ Status[b.action] = "answered"
        /\ Status' = [Status EXCEPT ![b.action] = "none"]
    BY <1>0, <2>1, <2>2, <2>3 DEF Status
  <2> QED BY <2>1, <2>3, <2>4
          DEF Promise!Next, Promise!CallAction, Promise!Move
<1>3. CASE CallbackDispatch
  <2>1. pending # {} /\ pending' = {} /\ pc' = pc
    BY <1>3 DEF CallbackDispatch, RefreshInv, CallbackHasWaiters
  <2>2. \A c \in pending : pc[c] \notin {"idle", "stale", "refreshable"}
    BY <1>0 DEF RefreshInv, TypeOK, ActionInOnePlace
  <2>3. Status' = [c \in Callers |-> IF Status[c] = "awaiting" THEN "answered"
                                                               ELSE Status[c]]
    BY <2>1, <2>2 DEF Status
  <2>4. (pending # {}) = TRUE /\ (pending' # {}) = FALSE
    BY <2>1
  <2> QED BY <2>3, <2>4 DEF Promise!Next, Promise!EndRefresh
<1>4. CASE (\E r \in requests : RefreshAnswered(r)) \/ App \/ Tick \/ UNCHANGED vars
  <2>1. UNCHANGED <<pc, pending>>
    BY <1>4 DEF RefreshAnswered, CallbackUpdate, App, AppRegisters,
                AppAuthorizes, AppExchanges, AppFails, SetNeedsTokenRefresh,
                AppUpdates, Tick, vars
  <2> QED BY <2>1 DEF Status, Promise!vars
<1> QED BY <1>1, <1>2, <1>3, <1>4 DEF Next

\* The object keeps the promise of FreshTokens: each request is answered once,
\* one refresh at a time, and the end of a refresh answers all who wait.
THEOREM ObjectKeepsPromise == Spec => PromiseKept
  BY InitPromise, StepPromise, RefreshInvHolds, PTL
     DEF Spec, PromiseKept, Promise!Spec

-----------------------------------------------------------------------------
(* The exception of lines 432-434. *)

\* A refresh answer keeps everything of one grant when its request was of it.
LEMMA RefreshKeepsGrant ==
  ASSUME NEW s \in AuthStates, NEW r \in TokenResponses \cup {Nil},
         NEW e \in Errors \cup {Nil}
  PROVE  LET s2 == RefreshedState(s, r, e)
         IN  /\ s2.authorization = s.authorization
             /\ s2.token = s.token \/ (r # Nil /\ s2.token = r)
             /\ \/ s2.refreshToken = s.refreshToken
                \/ r # Nil /\ s2.refreshToken = r.grant
<1> DEFINE cleared == [s EXCEPT !.needsRefresh = FALSE]
<1>1. /\ cleared \in AuthStates /\ cleared.authorization = s.authorization
      /\ cleared.token = s.token /\ cleared.refreshToken = s.refreshToken
  BY DEF AuthStates
<1>2. CASE r # Nil
  <2>1. RefreshedState(s, r, e) = UpdateWithTokenResponse(cleared, r, Nil)
    BY <1>2 DEF RefreshedState
  <2> HIDE DEF cleared
  <2> QED BY <1>1, <1>2, <2>1
          DEF UpdateWithTokenResponse, UpdateWithAuthorizationError, AuthStates
<1>3. CASE r = Nil
  <2> HIDE DEF cleared
  <2> QED BY <1>1, <1>3
          DEF RefreshedState, UpdateWithAuthorizationError, AuthStates, cleared
<1> QED BY <1>2, <1>3

\* The answer of a refresh is an error or carries tokens of its request's grant.
LEMMA AnswerIsOfGrant ==
  ASSUME TypeOK, NEW r \in requests, RefreshAnswered(r)
  PROVE  /\ UNCHANGED <<now, pc, pending, blocks>> /\ requests' \subseteq requests
         /\ \E response \in TokenResponses \cup {Nil} :
              /\ response # Nil => r.grant \in Grants /\ response.grant = r.grant
              /\ st'.authorization = st.authorization
              /\ st'.token = st.token \/ (response # Nil /\ st'.token = response)
              /\ \/ st'.refreshToken = st.refreshToken
                 \/ response # Nil /\ st'.refreshToken = response.grant
<1>1. st \in AuthStates /\ now \in 0 .. MaxTime /\ r \in Requests
  BY DEF TypeOK
<1>2. PICK response \in TokenResponses \cup {Nil}, e \in Errors \cup {Nil} :
        /\ CallbackUpdate(r, response, e)
        /\ response # Nil => r.grant \in Grants /\ response.grant = r.grant
  <2>1. CASE r.grant # Nil /\ \E shape \in TokenShapes :
               CallbackUpdate(r, TokenResponse(r.grant, shape), Nil)
    <3>1. PICK shape \in TokenShapes : CallbackUpdate(r, TokenResponse(r.grant, shape), Nil)
      BY <2>1
    <3>2. r.grant \in Grants
      BY <1>1, <2>1 DEF Requests
    <3>3. TokenResponse(r.grant, shape) \in TokenResponses
      BY <1>1, <3>2, ResponsesTyped
    <3>4. TokenResponse(r.grant, shape).grant = r.grant
      BY DEF TokenResponse
    <3> QED BY <3>1, <3>2, <3>3, <3>4
  <2>2. CASE \E e \in {TokenErrorDomain, GeneralErrorDomain} : CallbackUpdate(r, Nil, e)
    BY <2>2 DEF Errors
  <2> QED BY <2>1, <2>2 DEF RefreshAnswered
<1>3. st' = RefreshedState(st, response, e)
      /\ UNCHANGED <<now, pc, pending, blocks>> /\ requests' \subseteq requests
  BY <1>2 DEF CallbackUpdate
<1> QED BY <1>1, <1>2, <1>3, RefreshKeepsGrant

\* Whoever waits in the pending actions waits for a refresh, whatever threads call
\* and whatever the app does: only the exception can strand them.
THEOREM PendingAreServed == Spec => []PendingActionsAwaitRefresh
<1> USE DEF PendingActionsAwaitRefresh, RefreshInProgress, RefreshOwners
<1>1. Init => PendingActionsAwaitRefresh
  BY DEF Init
<1>2. RefreshInv /\ PendingActionsAwaitRefresh /\ [Next]_vars
        => PendingActionsAwaitRefresh'
  <2> SUFFICES ASSUME RefreshInv, PendingActionsAwaitRefresh, [Next]_vars
               PROVE  PendingActionsAwaitRefresh'
    OBVIOUS
  <2>0. pc \in [Callers -> PCs]
    BY DEF RefreshInv, TypeOK
  <2>1. ASSUME NEW c \in Callers, Perform(c) PROVE PendingActionsAwaitRefresh'
    <3>1. CASE PerformFresh(c) \/ PerformStale(c) \/ NoRefreshToken(c)
      BY <2>0, <3>1 DEF PerformFresh, PerformStale, NoRefreshToken, MayCall, Goto
    <3>2. CASE HasRefreshToken(c) \/ JoinRefresh(c)
      BY <2>0, <3>2 DEF HasRefreshToken, JoinRefresh, Goto
    <3>3. CASE OwnRefresh(c) \/ CheckRefreshToken(c) \/ SendRefresh(c)
      BY <2>0, <3>3 DEF OwnRefresh, CheckRefreshToken, SendRefresh, Goto
    <3> QED BY <2>1, <3>1, <3>2, <3>3 DEF Perform
  <2>2. ASSUME NEW b \in blocks, RunAction(b) PROVE PendingActionsAwaitRefresh'
    <3>1. b.action \in Callers /\ Queued(b.action)
      BY <2>2 DEF RefreshInv, TypeOK, Blocks, Queued
    <3>2. pc[b.action] = "returned"
      BY <2>0, <3>1 DEF RefreshInv, ActionInOnePlace, PCs, Performing
    <3> QED BY <2>0, <2>2, <3>1, <3>2 DEF RunAction, Goto
  <2>3. CASE \E r \in requests : RefreshAnswered(r)
    BY <2>3 DEF RefreshAnswered, CallbackUpdate
  <2>4. CASE CallbackDispatch
    BY <2>4 DEF CallbackDispatch
  <2>5. CASE App \/ Tick \/ UNCHANGED vars
    BY <2>5 DEF App, AppRegisters, AppAuthorizes, AppExchanges, AppFails,
                SetNeedsTokenRefresh, AppUpdates, Tick, vars
  <2> QED BY <2>1, <2>2, <2>3, <2>4, <2>5 DEF Next
<1> QED BY <1>1, <1>2, RefreshInvHolds, PTL DEF Spec

-----------------------------------------------------------------------------
(* Refreshes that are needed. *)

\* While a main-thread caller is inside the method nothing makes the tokens
\* fresh that it found stale: time does not, and updates wait for the thread.
StaleForMain ==
  \A c \in MainCallers : pc[c] \in Performing => ~ IsTokenFresh(st, now)

LEMMA StaleStays ==
  ASSUME NEW s \in AuthStates, NEW n \in Nat, ~ IsTokenFresh(s, n)
  PROVE  ~ IsTokenFresh(s, n + 1)
<1>1. AccessTokenExpirationDate(s) \in Nat \cup {Nil}
  BY DEF AccessTokenExpirationDate, LastResponse, FirstNonNil, AuthStates,
         AuthorizationResponses, TokenResponses, Dates
<1> QED BY <1>1, ToleranceIsNat DEF IsTokenFresh

LEMMA MainStaysStale == Spec => []StaleForMain
<1>1. Init => StaleForMain
  BY MainCallersAreCallers DEF Init, StaleForMain, Performing
<1>2. TypeOK /\ StaleForMain /\ [Next]_vars => StaleForMain'
  <2> SUFFICES ASSUME TypeOK, StaleForMain, [Next]_vars PROVE StaleForMain'
    OBVIOUS
  <2> USE MainCallersAreCallers DEF TypeOK
  <2>1. ASSUME NEW c \in Callers, Perform(c) PROVE StaleForMain'
    <3>1. /\ st' = st /\ now' = now
          /\ \A d \in Callers : d # c => pc'[d] = pc[d]
          /\ pc'[c] \in Performing => pc[c] \in Performing \/ ~ IsTokenFresh(st, now)
      BY <2>1 DEF Perform, PerformFresh, PerformStale, NoRefreshToken, HasRefreshToken,
                  JoinRefresh, OwnRefresh, CheckRefreshToken, SendRefresh, Goto, Performing
    <3> QED BY <3>1 DEF StaleForMain
  <2>2. ASSUME NEW b \in blocks, RunAction(b) PROVE StaleForMain'
    BY <2>2 DEF RunAction, Goto, Blocks, StaleForMain, Performing
  <2>3. CASE (\E r \in requests : RefreshAnswered(r)) \/ App
    <3>1. ~ MainInPerform /\ pc' = pc
      BY <2>3 DEF RefreshAnswered, CallbackUpdate, MainQueueTakesCallback, App,
                  AppRegisters, AppAuthorizes, AppExchanges, AppFails,
                  SetNeedsTokenRefresh, AppUpdates
    <3> QED BY <3>1 DEF MainInPerform, StaleForMain
  <2>4. CASE Tick
    <3>1. now \in Nat /\ now' = now + 1 /\ st' = st /\ pc' = pc
      BY <2>4, MaxTimeIsNat DEF Tick
    <3> QED BY <3>1, StaleStays DEF StaleForMain
  <2>5. CASE CallbackDispatch \/ UNCHANGED vars
    BY <2>5 DEF CallbackDispatch, vars, StaleForMain
  <2> QED BY <2>1, <2>2, <2>3, <2>4, <2>5 DEF Next
<1> QED BY <1>1, <1>2, TypeCorrect, PTL DEF Spec

\* Whatever other threads do meanwhile, a caller on the main thread sends a
\* refresh request only while the tokens are not fresh.
THEOREM MainThreadRefreshesStale == Spec => MainRefreshesOnlyWhenStale
<1>1. StaleForMain =>
        \A c \in MainCallers :
          pc[c] = "sending" /\ pc'[c] = "returned" => ~ IsTokenFresh(st, now)
  BY DEF StaleForMain, Performing
<1> QED BY <1>1, MainStaysStale, PTL DEF MainRefreshesOnlyWhenStale

-----------------------------------------------------------------------------
(* The object with the memory of what the app did. *)

LEMMA HistoryStepIsStep ==
  ASSUME [HistoryNext]_<<vars, history>> PROVE [Next]_vars
  BY DEF HistoryNext, Forces, Sends, Replaces, Otherwise, Next, App, Perform

\* Nothing that is said of an object is lost when it is watched: every theorem
\* about AuthState holds of the object with the memory.
THEOREM ObjectWithHistoryIsObject == HistorySpec => Spec
<1>1. HistoryInit => Init
  BY DEF HistoryInit
<1>2. [HistoryNext]_<<vars, history>> => [Next]_vars
  BY HistoryStepIsStep
<1> QED BY <1>1, <1>2, PTL DEF HistorySpec, Spec

-----------------------------------------------------------------------------
(* Authorizations that were replaced. *)

\* The grant of a request still out is that of the object's authorization.
RequestsOfCurrentGrant ==
  \A r \in requests :
    r.grant # Nil => /\ st.authorization # Nil
                     /\ st.authorization.grant = r.grant

\* Of one grant are not the tokens alone, but also the request that will bring
\* more of them: this makes MixedOnlyByCrossing inductive.
OneGrant == ~ crossed => TokensOfCurrentGrant /\ RequestsOfCurrentGrant

\* What the update methods do to the three members a grant is read from.
LEMMA AuthorizationUpdateMembers ==
  ASSUME NEW s \in AuthStates, NEW r \in AuthorizationResponses
  PROVE  LET s2 == UpdateWithAuthorizationResponse(s, r, Nil)
         IN  s2.authorization = r /\ s2.token = Nil /\ s2.refreshToken = Nil
<1>1. r # Nil /\ Nil # AuthorizationErrorDomain
  BY NilIsNoResponse, NilIsNoError DEF Errors
<1> QED BY <1>1 DEF UpdateWithAuthorizationResponse, AuthStates

\* A token response replaces the token, and the refresh token if it has one.
LEMMA TokenUpdateMembers ==
  ASSUME NEW s \in AuthStates, NEW r \in TokenResponses
  PROVE  LET s2 == UpdateWithTokenResponse(s, r, Nil)
         IN  /\ s2.authorization = s.authorization /\ s2.token = r
             /\ s2.refreshToken \in {s.refreshToken, r.grant}
<1>1. r # Nil /\ Nil # TokenErrorDomain
  BY NilIsNoResponse, NilIsNoError DEF Errors
<1> QED BY <1>1 DEF UpdateWithTokenResponse, AuthStates

\* An error touches none of them.
LEMMA ErrorUpdateMembers ==
  ASSUME NEW s \in AuthStates, NEW e \in Errors,
         NEW s2 \in {UpdateWithAuthorizationError(s, e),
                     UpdateWithTokenResponse(s, Nil, e),
                     UpdateWithAuthorizationResponse(s, Nil, e)}
  PROVE  /\ s2.authorization = s.authorization /\ s2.token = s.token
         /\ s2.refreshToken = s.refreshToken
<1>1. CASE s2 = UpdateWithAuthorizationError(s, e)
  BY <1>1 DEF UpdateWithAuthorizationError, AuthStates
<1>2. CASE s2 = UpdateWithTokenResponse(s, Nil, e)
  BY <1>2 DEF UpdateWithTokenResponse, UpdateWithAuthorizationError, AuthStates
<1>3. CASE s2 = UpdateWithAuthorizationResponse(s, Nil, e)
  BY <1>3 DEF UpdateWithAuthorizationResponse, UpdateWithAuthorizationError,
              AuthStates
<1> QED BY <1>1, <1>2, <1>3

LEMMA InitCurrentGrant == Init => TokensOfCurrentGrant /\ RequestsOfCurrentGrant
<1> SUFFICES ASSUME Init PROVE TokensOfCurrentGrant
  BY DEF Init, RequestsOfCurrentGrant
<1>0. now \in 0..MaxTime
  BY MaxTimeIsNat DEF Init
<1>1. PICK g \in Grants, a \in AuthorizationShapes, t \in TokenShapes \cup {Nil} :
        st = InitialState(AuthorizationResponse(g, a),
                          IF t = Nil THEN Nil ELSE TokenResponse(g, t), FALSE)
  BY DEF Init
<1> DEFINE authorization == AuthorizationResponse(g, a)
           token == IF t = Nil THEN Nil ELSE TokenResponse(g, t)
           authorized == UpdateWithAuthorizationResponse(EmptyState,
                                                         authorization, Nil)
<1>2. authorization \in AuthorizationResponses /\ authorization.grant = g
  BY <1>0, ResponsesTyped DEF AuthorizationResponse
<1>3. token = Nil \/ (token \in TokenResponses /\ token.grant = g)
  BY <1>0, ResponsesTyped DEF TokenResponse
<1>4. /\ authorized.authorization = authorization /\ authorized.token = Nil
      /\ authorized.refreshToken = Nil /\ authorized \in AuthStates
  <2>1. EmptyState \in AuthStates
    BY DEF EmptyState, AuthStates
  <2>2. authorized \in AuthStates
    BY <1>2, <2>1, AuthorizationUpdateTyped
  <2> HIDE DEF authorization
  <2> QED BY <1>2, <2>1, <2>2, AuthorizationUpdateMembers
<1>5. st = IF token # Nil THEN UpdateWithTokenResponse(authorized, token, Nil)
                          ELSE authorized
  BY <1>1 DEF InitialState
<1>6. CASE token = Nil
  <2> HIDE DEF authorization, token, authorized
  <2> QED BY <1>2, <1>4, <1>5, <1>6 DEF TokensOfCurrentGrant
<1>7. CASE token # Nil
  <2> HIDE DEF authorization, token, authorized
  <2>1. /\ st.authorization = authorization /\ st.token = token
        /\ st.refreshToken \in {Nil, g}
    BY <1>3, <1>4, <1>5, <1>7, TokenUpdateMembers
  <2> QED BY <1>2, <1>3, <1>7, <2>1, NilIsNoResponse DEF TokensOfCurrentGrant
<1> QED BY <1>6, <1>7

\* What replaces the authorization leaves no token.
LEMMA ReplacingClears ==
  ASSUME TypeOK, AppRegisters \/ AppAuthorizes
  PROVE  /\ TokensOfCurrentGrant' /\ UNCHANGED <<pc, requests>>
         /\ ~ MainInPerform
<1>0. st \in AuthStates /\ now \in 0..MaxTime
  BY DEF TypeOK
<1>1. CASE AppRegisters
  BY <1>0, <1>1 DEF AppRegisters, AppUpdates, UpdateWithRegistrationResponse,
                    AuthStates, TokensOfCurrentGrant
<1>2. CASE AppAuthorizes
  <2>1. PICK g \in Grants, shape \in AuthorizationShapes :
          AppUpdates(UpdateWithAuthorizationResponse(
                       st, AuthorizationResponse(g, shape), Nil))
    BY <1>2 DEF AppAuthorizes
  <2>2. AuthorizationResponse(g, shape) \in AuthorizationResponses
    BY <1>0, ResponsesTyped
  <2>3. st'.token = Nil /\ st'.refreshToken = Nil
    BY <1>0, <2>1, <2>2, AuthorizationUpdateMembers DEF AppUpdates
  <2> QED BY <2>1, <2>3 DEF TokensOfCurrentGrant, AppUpdates
<1> QED BY <1>1, <1>2

\* The other updates keep the authorization, and bring tokens of its grant if any.
LEMMA OtherUpdatesKeepGrant ==
  ASSUME TypeOK, AppExchanges \/ AppFails
  PROVE  /\ UNCHANGED <<pc, requests>> /\ st'.authorization = st.authorization
         /\ TokensOfCurrentGrant => TokensOfCurrentGrant'
         /\ st.refreshToken # Nil => st'.refreshToken # Nil
<1>0. st \in AuthStates /\ now \in 0..MaxTime
  BY DEF TypeOK
<1>1. CASE AppExchanges
  <2>1. PICK shape \in TokenShapes :
          /\ st.authorization # Nil
          /\ AppUpdates(UpdateWithTokenResponse(
                          st, TokenResponse(st.authorization.grant, shape), Nil))
    BY <1>1 DEF AppExchanges
  <2> DEFINE g == st.authorization.grant
             response == TokenResponse(g, shape)
  <2>2. g \in Grants
    BY <1>0, <2>1 DEF AuthStates, AuthorizationResponses
  <2>3. response \in TokenResponses /\ response.grant = g
    BY <1>0, <2>2, ResponsesTyped DEF TokenResponse
  <2>4. /\ st'.authorization = st.authorization /\ st'.token = response
        /\ st'.refreshToken \in {st.refreshToken, g}
    BY <1>0, <2>1, <2>3, TokenUpdateMembers DEF AppUpdates
  <2>5. UNCHANGED <<pc, requests>>
    BY <2>1 DEF AppUpdates
  <2> HIDE DEF response
  <2> QED BY <2>1, <2>2, <2>3, <2>4, <2>5, NilIsNoGrant DEF TokensOfCurrentGrant
<1>2. CASE AppFails
  <2>1. PICK e \in Errors :
          \E s2 \in {UpdateWithAuthorizationError(st, e),
                     UpdateWithTokenResponse(st, Nil, e),
                     UpdateWithAuthorizationResponse(st, Nil, e)} : AppUpdates(s2)
    BY <1>2 DEF AppFails, Errors
  <2>2. /\ st'.authorization = st.authorization /\ st'.token = st.token
        /\ st'.refreshToken = st.refreshToken /\ UNCHANGED <<pc, requests>>
    BY <1>0, <2>1, ErrorUpdateMembers DEF AppUpdates
  <2> QED BY <2>2 DEF TokensOfCurrentGrant
<1> QED BY <1>1, <1>2

LEMMA StepKeepsOneGrant ==
  TypeOK /\ OneGrant /\ [HistoryNext]_<<vars, history>> => OneGrant'
<1> SUFFICES ASSUME TypeOK, OneGrant, [HistoryNext]_<<vars, history>>, ~ crossed'
             PROVE  TokensOfCurrentGrant' /\ RequestsOfCurrentGrant'
  BY DEF OneGrant
<1>1. CASE Replaces
  <2>1. requests = {} /\ TokensOfCurrentGrant' /\ UNCHANGED requests
    BY <1>1, ReplacingClears DEF Replaces
  <2> QED BY <2>1 DEF RequestsOfCurrentGrant
<1>2. CASE ~ Replaces
  <2>1. TokensOfCurrentGrant /\ RequestsOfCurrentGrant
    BY <1>2 DEF HistoryNext, Forces, Sends, Otherwise, history, OneGrant
  <2>2. ASSUME NEW c \in Callers, SendRefresh(c)
        PROVE  TokensOfCurrentGrant' /\ RequestsOfCurrentGrant'
    BY <2>1, <2>2 DEF SendRefresh, TokensOfCurrentGrant, RequestsOfCurrentGrant
  <2>3. ASSUME NEW r \in requests, RefreshAnswered(r)
        PROVE  TokensOfCurrentGrant' /\ RequestsOfCurrentGrant'
    <3>1. requests' \subseteq requests
          /\ \E response \in TokenResponses \cup {Nil} :
               /\ response # Nil => r.grant \in Grants /\ response.grant = r.grant
               /\ st'.authorization = st.authorization
               /\ st'.token = st.token \/ (response # Nil /\ st'.token = response)
               /\ \/ st'.refreshToken = st.refreshToken
                  \/ response # Nil /\ st'.refreshToken = response.grant
      BY <2>3, AnswerIsOfGrant
    <3> QED BY <2>1, <3>1, NilIsNoGrant DEF TokensOfCurrentGrant, RequestsOfCurrentGrant
  <2>4. CASE AppExchanges \/ AppFails
    BY <2>1, <2>4, OtherUpdatesKeepGrant DEF RequestsOfCurrentGrant
  <2>5. CASE SetNeedsTokenRefresh
    <3>1. /\ st'.authorization = st.authorization /\ st'.token = st.token
          /\ st'.refreshToken = st.refreshToken /\ requests' = requests
      BY <2>5 DEF SetNeedsTokenRefresh, AuthStates, TypeOK
    <3> QED BY <2>1, <3>1 DEF TokensOfCurrentGrant, RequestsOfCurrentGrant
  <2>6. CASE UNCHANGED <<st, requests>>
    BY <2>1, <2>6 DEF TokensOfCurrentGrant, RequestsOfCurrentGrant
  <2>7. \/ \E c \in Callers : SendRefresh(c)
        \/ \E r \in requests : RefreshAnswered(r)
        \/ AppExchanges \/ AppFails \/ SetNeedsTokenRefresh
        \/ UNCHANGED <<st, requests>>
    BY <1>2 DEF HistoryNext, Forces, Sends, Otherwise, Perform, PerformFresh, PerformStale,
                NoRefreshToken, HasRefreshToken, JoinRefresh, OwnRefresh, CheckRefreshToken,
                RunAction, CallbackDispatch, Tick, vars
  <2> QED BY <2>2, <2>3, <2>4, <2>5, <2>6, <2>7
<1> QED BY <1>1, <1>2

\* The object mixes tokens of two authorizations only if one was replaced while a
\* request for the other was out, for callers on any threads and updates at any
\* other time.
THEOREM TokensMixByCrossing == HistorySpec => []MixedOnlyByCrossing
<1>1. HistoryInit => OneGrant
  BY InitCurrentGrant DEF HistoryInit, OneGrant
<1>2. OneGrant => MixedOnlyByCrossing
  BY DEF OneGrant, MixedOnlyByCrossing
<1>3. HistorySpec => []TypeOK
  BY ObjectWithHistoryIsObject, TypeCorrect, PTL
<1> QED BY <1>1, <1>2, <1>3, StepKeepsOneGrant, PTL DEF HistorySpec

\* What a caller read of the refresh token stays true while it is inside the
\* method, unless the authorization is replaced under it: the answer of a refresh
\* takes no token away, nor does any other update.
TokenStays ==
  /\ \A c \in Callers \ intruded :
       /\ pc[c] \in {"refreshable", "owner", "sending"} => st.refreshToken # Nil
       /\ pc[c] # "raised"
  /\ intruded \cap MainCallers = {}

LEMMA StepKeepsTokenStays ==
  TypeOK /\ TokenStays /\ [HistoryNext]_<<vars, history>> => TokenStays'
<1> SUFFICES ASSUME TypeOK, TokenStays, [HistoryNext]_<<vars, history>>
             PROVE  TokenStays'
  OBVIOUS
<1>0. pc \in [Callers -> PCs] /\ st \in AuthStates /\ MainCallers \subseteq Callers
  BY MainCallersAreCallers DEF TypeOK
<1>1. CASE Replaces
  <2>1. pc' = pc /\ ~ MainInPerform
    BY <1>1, ReplacingClears DEF Replaces
  <2> QED BY <1>0, <1>1, <2>1 DEF Replaces, MainInPerform, Performing, TokenStays
\* A step that replaces nothing: of the callers it does not let out of the method.
<1>2. ASSUME \/ intruded' = {c \in intruded : pc'[c] # "returned"}
             \/ UNCHANGED intruded,
             \A c \in Callers \ intruded :
               /\ pc'[c] \in {"refreshable", "owner", "sending"} => st'.refreshToken # Nil
               /\ pc'[c] # "raised"
      PROVE  TokenStays'
  BY <1>2 DEF TokenStays
<1>3. CASE Forces
  <2>1. pc' = pc /\ st'.refreshToken = st.refreshToken /\ UNCHANGED intruded
    BY <1>0, <1>3 DEF Forces, SetNeedsTokenRefresh, AuthStates
  <2> QED BY <1>2, <2>1 DEF TokenStays
<1>4. ASSUME NEW c \in Callers, Perform(c),
             intruded' = {d \in intruded : pc'[d] # "returned"}
      PROVE  TokenStays'
  <2>1. CASE PerformFresh(c) \/ PerformStale(c) \/ NoRefreshToken(c) \/ HasRefreshToken(c)
    BY <1>0, <1>2, <1>4, <2>1
       DEF PerformFresh, PerformStale, NoRefreshToken, HasRefreshToken, Goto, TokenStays
  <2>2. CASE JoinRefresh(c) \/ OwnRefresh(c) \/ CheckRefreshToken(c) \/ SendRefresh(c)
    BY <1>0, <1>2, <1>4, <2>2
       DEF JoinRefresh, OwnRefresh, CheckRefreshToken, SendRefresh, Goto, TokenStays
  <2> QED BY <1>4, <2>1, <2>2 DEF Perform
<1>5. ASSUME Otherwise, ~ \E c \in Callers : Perform(c) PROVE TokenStays'
  <2>0. intruded' = {d \in intruded : pc'[d] # "returned"}
    BY <1>5 DEF Otherwise
  <2>1. ASSUME NEW b \in blocks, RunAction(b) PROVE TokenStays'
    BY <1>0, <1>2, <2>0, <2>1 DEF RunAction, Goto, Blocks, TypeOK, TokenStays
  <2>2. ASSUME NEW r \in requests, RefreshAnswered(r) PROVE TokenStays'
    <3>1. pc' = pc /\ (st.refreshToken # Nil => st'.refreshToken # Nil)
      BY <2>2, AnswerIsOfGrant, NilIsNoGrant
    <3> QED BY <1>2, <2>0, <3>1 DEF TokenStays
  <2>3. CASE AppExchanges \/ AppFails
    <3>1. pc' = pc /\ (st.refreshToken # Nil => st'.refreshToken # Nil)
      BY <2>3, OtherUpdatesKeepGrant
    <3> QED BY <1>2, <2>0, <3>1 DEF TokenStays
  <2>4. CASE CallbackDispatch \/ Tick
    BY <1>2, <2>0, <2>4 DEF CallbackDispatch, Tick, TokenStays
  <2> QED BY <1>5, <2>1, <2>2, <2>3, <2>4 DEF Otherwise
<1>6. CASE UNCHANGED <<vars, history>>
  BY <1>6 DEF vars, history, TokenStays
<1> QED BY <1>1, <1>3, <1>4, <1>5, <1>6, Zenon DEF HistoryNext, Sends, Otherwise, Perform

\* The exception is raised only in a caller of another thread that was inside the
\* method when the authorization was replaced.
THEOREM RaisesWhereIntruded == HistorySpec => []RaisesOnlyIntruded
<1>1. HistoryInit => TokenStays
  BY DEF HistoryInit, Init, TokenStays
<1>2. TokenStays => RaisesOnlyIntruded
  BY DEF TokenStays, RaisesOnlyIntruded
<1>3. HistorySpec => []TypeOK
  BY ObjectWithHistoryIsObject, TypeCorrect, PTL
<1> QED BY <1>1, <1>2, <1>3, StepKeepsTokenStays, PTL DEF HistorySpec

-----------------------------------------------------------------------------
(* Refreshes that were forced. *)

\* What is owed is still noted, and no answer is on its way that could take the
\* note for its own.
OwedIsNoted == owed => st.needsRefresh /\ requests = {}

LEMMA AppKeepsForce ==
  ASSUME st \in AuthStates, AppRegisters \/ AppAuthorizes \/ AppExchanges \/ AppFails
  PROVE  st'.needsRefresh = st.needsRefresh /\ requests' = requests
<1>1. \A r, e :
        /\ UpdateWithRegistrationResponse(st, TRUE).needsRefresh = st.needsRefresh
        /\ UpdateWithAuthorizationError(st, e).needsRefresh = st.needsRefresh
        /\ UpdateWithAuthorizationResponse(st, r, e).needsRefresh = st.needsRefresh
        /\ UpdateWithTokenResponse(st, r, e).needsRefresh = st.needsRefresh
  BY UpdatesKeepForce
<1>2. CASE AppRegisters
  BY <1>1, <1>2, Zenon DEF AppRegisters, AppUpdates
<1>3. CASE AppAuthorizes
  BY <1>1, <1>3, Zenon DEF AppAuthorizes, AppUpdates
<1>4. CASE AppExchanges
  BY <1>1, <1>4, Zenon DEF AppExchanges, AppUpdates
<1>5. CASE AppFails
  BY <1>1, <1>5, Zenon DEF AppFails, AppUpdates
<1> QED BY <1>2, <1>3, <1>4, <1>5

\* A refresh forced while no request is out is not forgotten before it was
\* requested: ForcedRefreshOwed, for callers on any threads.
THEOREM ForcedIsOwed == HistorySpec => []ForcedRefreshOwed
<1>1. HistoryInit => OwedIsNoted
  BY DEF HistoryInit, OwedIsNoted
<1>2. TypeOK /\ OwedIsNoted /\ [HistoryNext]_<<vars, history>> => OwedIsNoted'
  <2> SUFFICES ASSUME TypeOK, OwedIsNoted, [HistoryNext]_<<vars, history>>
               PROVE  OwedIsNoted'
    OBVIOUS
  <2>1. CASE Forces
    BY <2>1 DEF Forces, SetNeedsTokenRefresh, OwedIsNoted, TypeOK, AuthStates
  <2>2. CASE Sends
    BY <2>2 DEF Sends, OwedIsNoted
  <2>3. CASE Replaces
    BY <2>3, AppKeepsForce DEF Replaces, TypeOK, OwedIsNoted
  <2>4. CASE Otherwise
    <3> SUFFICES ASSUME owed PROVE st'.needsRefresh /\ requests' = {}
      BY <2>4 DEF Otherwise, OwedIsNoted
    <3>1. st.needsRefresh /\ requests = {}
      BY DEF OwedIsNoted
    <3>2. CASE AppExchanges \/ AppFails
      BY <3>1, <3>2, AppKeepsForce DEF TypeOK
    <3>3. CASE \/ \E c \in Callers : Perform(c) /\ ~ SendRefresh(c)
               \/ \E b \in blocks : RunAction(b)
               \/ CallbackDispatch \/ Tick
      BY <3>1, <3>3
         DEF Perform, PerformFresh, PerformStale, NoRefreshToken, HasRefreshToken,
             JoinRefresh, OwnRefresh, CheckRefreshToken, RunAction, CallbackDispatch, Tick
    <3> QED BY <2>4, <3>1, <3>2, <3>3 DEF Otherwise
  <2>5. CASE UNCHANGED <<vars, history>>
    BY <2>5 DEF vars, history, OwedIsNoted
  <2> QED BY <2>1, <2>2, <2>3, <2>4, <2>5 DEF HistoryNext
<1>3. OwedIsNoted => ForcedRefreshOwed
  BY DEF OwedIsNoted, ForcedRefreshOwed, IsTokenFresh
<1>4. HistorySpec => []TypeOK
  BY ObjectWithHistoryIsObject, TypeCorrect, PTL
<1> QED BY <1>1, <1>2, <1>3, <1>4, PTL DEF HistorySpec

\* Only the answer of a refresh ends a forced refresh, and no action is handed
\* tokens before but by the end of a refresh: ForceEndsWithRefresh, whatever the
\* app does meanwhile and whatever threads call.
THEOREM ForceLasts == HistorySpec => ForceEndsWithRefresh
<1>1. TypeOK /\ [Next]_vars =>
        (st.needsRefresh =>
           /\ st'.needsRefresh \/ \E r \in requests : requests' = requests \ {r}
           /\ \A b \in blocks' \ blocks : b.tokens => callback.running)
  <2> SUFFICES ASSUME TypeOK, [Next]_vars, st.needsRefresh
               PROVE  /\ st'.needsRefresh \/ \E r \in requests : requests' = requests \ {r}
                      /\ \A b \in blocks' \ blocks : b.tokens => callback.running
    OBVIOUS
  <2>0. ~ IsTokenFresh(st, now) /\ st \in AuthStates
    BY DEF IsTokenFresh, TypeOK
  <2>1. ASSUME NEW c \in Callers, Perform(c)
        PROVE  st' = st /\ \A b \in blocks' \ blocks : ~ b.tokens
    <3>1. CASE PerformFresh(c)
      BY <2>0, <3>1 DEF PerformFresh
    <3>2. CASE NoRefreshToken(c)
      BY <3>2 DEF NoRefreshToken, Dispatch
    <3>3. CASE PerformStale(c) \/ HasRefreshToken(c) \/ JoinRefresh(c) \/ OwnRefresh(c)
                 \/ CheckRefreshToken(c) \/ SendRefresh(c)
      BY <3>3 DEF PerformStale, HasRefreshToken, JoinRefresh, OwnRefresh,
                  CheckRefreshToken, SendRefresh
    <3> QED BY <2>1, <3>1, <3>2, <3>3 DEF Perform
  <2>2. CASE \E b \in blocks : RunAction(b)
    BY <2>2 DEF RunAction
  <2>3. ASSUME NEW r \in requests, RefreshAnswered(r)
        PROVE  requests' = requests \ {r} /\ blocks' = blocks
    BY <2>3 DEF RefreshAnswered, CallbackUpdate
  <2>4. CASE CallbackDispatch
    BY <2>4 DEF CallbackDispatch
  <2>5. CASE App
    <3>1. blocks' = blocks
      BY <2>5 DEF App, AppRegisters, AppAuthorizes, AppExchanges, AppFails,
                  SetNeedsTokenRefresh, AppUpdates
    <3>2. CASE SetNeedsTokenRefresh
      BY <2>0, <3>1, <3>2 DEF SetNeedsTokenRefresh, AuthStates
    <3>3. CASE AppRegisters \/ AppAuthorizes \/ AppExchanges \/ AppFails
      BY <2>0, <3>1, <3>3, AppKeepsForce
    <3> QED BY <2>5, <3>2, <3>3 DEF App
  <2>6. CASE Tick \/ UNCHANGED vars
    BY <2>6 DEF Tick, vars
  <2> QED BY <2>1, <2>2, <2>3, <2>4, <2>5, <2>6 DEF Next
<1>2. HistorySpec => []TypeOK
  BY ObjectWithHistoryIsObject, TypeCorrect, PTL
<1> QED BY <1>1, <1>2, HistoryStepIsStep, PTL DEF HistorySpec, ForceEndsWithRefresh
=============================================================================
