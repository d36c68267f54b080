------------------------ MODULE AuthStateData_proofs ------------------------
(***************************************************************************)
(* Lemmas about the operators of AuthStateData, for AuthState_proofs and   *)
(* AuthStateStorage_proofs.                                                *)
(***************************************************************************)
EXTENDS AuthStateData, TLAPS

-----------------------------------------------------------------------------
(* The operators of AuthStateData keep the record well-typed. *)

\* A new authorization response, or an authorization error, leaves a record of
\* the right shape (updateWithAuthorizationResponse:error:).
LEMMA AuthorizationUpdateTyped ==
  ASSUME NEW s \in AuthStates, NEW r \in AuthorizationResponses \cup {Nil},
         NEW e \in Errors \cup {Nil}
  PROVE  UpdateWithAuthorizationResponse(s, r, e) \in AuthStates
<1>1. CASE e = AuthorizationErrorDomain
  BY <1>1 DEF UpdateWithAuthorizationResponse, UpdateWithAuthorizationError,
              AuthStates, Errors
<1>2. CASE e # AuthorizationErrorDomain /\ r = Nil
  BY <1>2 DEF UpdateWithAuthorizationResponse
<1>3. CASE e # AuthorizationErrorDomain /\ r # Nil
  <2>1. FirstNonNil(r.scope, r.requestScope) \in Scopes \cup {Nil}
    BY <1>3 DEF FirstNonNil, AuthorizationResponses
  <2> QED BY <1>3, <2>1 DEF UpdateWithAuthorizationResponse, AuthStates
<1> QED BY <1>1, <1>2, <1>3

\* So does a token response, or a token error (updateWithTokenResponse:error:).
LEMMA TokenUpdateTyped ==
  ASSUME NEW s \in AuthStates, NEW r \in TokenResponses \cup {Nil},
         NEW e \in Errors \cup {Nil}
  PROVE  UpdateWithTokenResponse(s, r, e) \in AuthStates
<1>1. CASE e = TokenErrorDomain
  BY <1>1 DEF UpdateWithTokenResponse, UpdateWithAuthorizationError,
              AuthStates, Errors
<1>2. CASE e # TokenErrorDomain /\ r = Nil
  BY <1>2 DEF UpdateWithTokenResponse, AuthStates
<1>3. CASE e # TokenErrorDomain /\ r # Nil
  <2>1. /\ r \in TokenResponses
        /\ FirstNonNil(r.scope, s.scope) \in Scopes \cup {Nil}
        /\ (IF r.refresh THEN r.grant ELSE s.refreshToken) \in Grants \cup {Nil}
    BY <1>3 DEF FirstNonNil, TokenResponses, AuthStates
  <2> QED BY <1>3, <2>1 DEF UpdateWithTokenResponse, AuthStates
<1> QED BY <1>1, <1>2, <1>3

\* And the refresh callback (lines 517-531).
LEMMA RefreshedStateTyped ==
  ASSUME NEW s \in AuthStates, NEW r \in TokenResponses \cup {Nil},
         NEW e \in Errors \cup {Nil}
  PROVE  RefreshedState(s, r, e) \in AuthStates
<1>1. [s EXCEPT !.needsRefresh = FALSE] \in AuthStates
  BY DEF AuthStates
<1>2. UpdateWithTokenResponse([s EXCEPT !.needsRefresh = FALSE], r, Nil)
        \in AuthStates
  BY <1>1, TokenUpdateTyped
<1>3. e = TokenErrorDomain =>
        UpdateWithAuthorizationError([s EXCEPT !.needsRefresh = FALSE], e)
          \in AuthStates
  BY <1>1 DEF UpdateWithAuthorizationError, AuthStates, Errors
<1> QED BY <1>2, <1>3 DEF RefreshedState

\* The initializer makes a well-typed object.
LEMMA InitialStateTyped ==
  ASSUME NEW a \in AuthorizationResponses \cup {Nil},
         NEW t \in TokenResponses \cup {Nil}
  PROVE  InitialState(a, t, FALSE) \in AuthStates
<1>1. EmptyState \in AuthStates
  BY DEF EmptyState, AuthStates
<1>2. UpdateWithAuthorizationResponse(EmptyState, a, Nil) \in AuthStates
  BY <1>1, AuthorizationUpdateTyped
<1>3. UpdateWithTokenResponse(UpdateWithAuthorizationResponse(EmptyState, a, Nil),
                              t, Nil) \in AuthStates
  BY <1>2, TokenUpdateTyped
<1> QED BY <1>2, <1>3 DEF InitialState

-----------------------------------------------------------------------------
(* What the update methods change. *)

\* A refresh is not forced or unforced by the methods the app calls.
LEMMA UpdatesKeepForce ==
  ASSUME NEW s \in AuthStates, NEW r, NEW e
  PROVE  /\ UpdateWithRegistrationResponse(s, TRUE).needsRefresh = s.needsRefresh
         /\ UpdateWithAuthorizationError(s, e).needsRefresh = s.needsRefresh
         /\ UpdateWithAuthorizationResponse(s, r, e).needsRefresh = s.needsRefresh
         /\ UpdateWithTokenResponse(s, r, e).needsRefresh = s.needsRefresh
<1>1. UpdateWithRegistrationResponse(s, TRUE).needsRefresh = s.needsRefresh
  BY DEF UpdateWithRegistrationResponse, AuthStates
<1>2. UpdateWithAuthorizationError(s, e).needsRefresh = s.needsRefresh
  BY DEF UpdateWithAuthorizationError, AuthStates
<1>3. UpdateWithAuthorizationResponse(s, r, e).needsRefresh = s.needsRefresh
  BY <1>2 DEF UpdateWithAuthorizationResponse, AuthStates
<1>4. UpdateWithTokenResponse(s, r, e).needsRefresh = s.needsRefresh
  BY <1>2 DEF UpdateWithTokenResponse, AuthStates
<1> QED BY <1>1, <1>2, <1>3, <1>4

\* The initializer takes the responses over.
LEMMA InitialStateTakes ==
  ASSUME NEW a \in AuthorizationResponses \cup {Nil}, NEW t \in TokenResponses \cup {Nil}
  PROVE  /\ InitialState(a, t, FALSE) \in AuthStates
         /\ ~ InitialState(a, t, FALSE).registration
         /\ InitialState(a, t, FALSE).authorization = a
         /\ InitialState(a, t, FALSE).token = t
<1> DEFINE authorized == UpdateWithAuthorizationResponse(EmptyState, a, Nil)
<1>1. /\ EmptyState \in AuthStates /\ ~ EmptyState.registration
      /\ EmptyState.authorization = Nil /\ EmptyState.token = Nil
  BY DEF EmptyState, AuthStates
<1>2. Nil # AuthorizationErrorDomain /\ Nil # TokenErrorDomain
  BY NilIsNoError DEF Errors
<1>3. /\ authorized \in AuthStates /\ ~ authorized.registration
      /\ authorized.authorization = a /\ authorized.token = Nil
  <2>1. authorized \in AuthStates
    BY <1>1, AuthorizationUpdateTyped
  <2>2. CASE a = Nil
    BY <1>1, <1>2, <2>2 DEF UpdateWithAuthorizationResponse
  <2>3. CASE a # Nil
    <3> DEFINE scope == FirstNonNil(a.scope, a.requestScope)
    <3>1. authorized = [EmptyState EXCEPT !.authorization = a, !.token = Nil,
                          !.refreshToken = Nil, !.error = Nil, !.scope = scope]
      BY <1>2, <2>3 DEF UpdateWithAuthorizationResponse
    <3> HIDE DEF scope, authorized
    <3>2. ~ authorized.registration
      BY <1>1, <3>1 DEF AuthStates
    <3>3. authorized.authorization = a
      BY <1>1, <3>1 DEF AuthStates
    <3>4. authorized.token = Nil
      BY <1>1, <3>1 DEF AuthStates
    <3> QED BY <2>1, <3>2, <3>3, <3>4
  <2> QED BY <2>1, <2>2, <2>3
<1>4. InitialState(a, t, FALSE)
        = IF t # Nil THEN UpdateWithTokenResponse(authorized, t, Nil) ELSE authorized
  BY DEF InitialState
<1> HIDE DEF authorized
<1>5. ASSUME t # Nil
      PROVE  LET s == UpdateWithTokenResponse(authorized, t, Nil) IN
             ~ s.registration /\ s.authorization = a /\ s.token = t
  BY <1>2, <1>3, <1>5 DEF UpdateWithTokenResponse, AuthStates
<1> QED BY <1>3, <1>4, <1>5, InitialStateTyped
=============================================================================
