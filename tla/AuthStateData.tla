--------------------------- MODULE AuthStateData ---------------------------
(***************************************************************************)
(* The data an OIDAuthState object keeps and what its update methods, its  *)
(* getters and its coder do to it, as operators on one record             *)
(* (Source/AppAuthCore/OIDAuthState.m).  Nothing here runs concurrently:   *)
(* AuthState.tla interleaves these operators the way the callers, the main *)
(* thread and the network do, AuthStateStorage.tla saves and restores the  *)
(* record.                                                                 *)
(*                                                                         *)
(* A grant stands for one authorization of the end user: a response, a     *)
(* refresh token and the tokens obtained with it all carry the grant they  *)
(* descend from.  Token strings are abstracted to that grant; an error is  *)
(* abstracted to its NSError domain, the only part of it the code tests.   *)
(***************************************************************************)
EXTENDS Naturals

CONSTANTS Nil,                 \* Objective-C nil
          Grants,              \* authorizations of the end user
          Scopes,              \* scope strings
          ExpiryTimeTolerance  \* kExpiryTimeTolerance

ASSUME NilIsNoGrant == Nil \notin Grants
ASSUME NilIsNoScope == Nil \notin Scopes
ASSUME NilIsNoTime  == Nil \notin Nat
ASSUME ToleranceIsNat == ExpiryTimeTolerance \in Nat

AuthorizationErrorDomain == "OIDOAuthAuthorizationErrorDomain"
TokenErrorDomain         == "OIDOAuthTokenErrorDomain"
GeneralErrorDomain       == "OIDGeneralErrorDomain"

Errors == {AuthorizationErrorDomain, TokenErrorDomain, GeneralErrorDomain}

Dates == Nat \cup {Nil}

\* OIDAuthorizationResponse, with the scope of the request it answers.
AuthorizationResponses ==
  [grant : Grants, access : BOOLEAN, id : BOOLEAN, expiration : Dates,
   scope : Scopes \cup {Nil}, requestScope : Scopes \cup {Nil}]

\* OIDTokenResponse: access, id and refresh say which tokens it carries.
TokenResponses ==
  [grant : Grants, access : BOOLEAN, id : BOOLEAN, refresh : BOOLEAN,
   expiration : Dates, scope : Scopes \cup {Nil}]

ASSUME NilIsNoResponse ==
  Nil \notin AuthorizationResponses /\ Nil \notin TokenResponses
ASSUME NilIsNoError == Nil \notin Errors

\* The instance variables of OIDAuthState that describe the authorization.
AuthStates ==
  [registration  : BOOLEAN,
   authorization : AuthorizationResponses \cup {Nil},
   token         : TokenResponses \cup {Nil},
   refreshToken  : Grants \cup {Nil},
   scope         : Scopes \cup {Nil},
   error         : Errors \cup {Nil},
   needsRefresh  : BOOLEAN]

EmptyState ==
  [registration |-> FALSE, authorization |-> Nil, token |-> Nil,
   refreshToken |-> Nil, scope |-> Nil, error |-> Nil,
   needsRefresh |-> FALSE]

\* Mutant: a scope of the library's own when the server names none.
DefaultedFirstNonNil(a, b) == IF a # Nil THEN a ELSE "openid"

FirstNonNil(a, b) == IF a # Nil THEN a ELSE b

-----------------------------------------------------------------------------
(* The getters. A token is Nil or the grant it belongs to. *)

\* The response the token getters read.
LastResponse(st) == FirstNonNil(st.token, st.authorization)

AccessToken(st) ==
  IF st.error = Nil /\ LastResponse(st) # Nil /\ LastResponse(st).access
  THEN LastResponse(st).grant ELSE Nil

IDToken(st) ==
  IF st.error = Nil /\ LastResponse(st) # Nil /\ LastResponse(st).id
  THEN LastResponse(st).grant ELSE Nil

AccessTokenExpirationDate(st) ==
  IF st.error = Nil /\ LastResponse(st) # Nil
  THEN LastResponse(st).expiration ELSE Nil

IsAuthorized(st) ==
  /\ st.error = Nil
  /\ \/ AccessToken(st) # Nil
     \/ IDToken(st) # Nil
     \/ st.refreshToken # Nil

\* Mutant: the forced refresh is not looked at (lines 553-556).
UnforcedIsTokenFresh(st, now) ==
  IF AccessTokenExpirationDate(st) = Nil
  THEN AccessToken(st) # Nil
  ELSE AccessTokenExpirationDate(st) > now + ExpiryTimeTolerance

IsTokenFresh(st, now) ==
  /\ ~ st.needsRefresh
  /\ IF AccessTokenExpirationDate(st) = Nil
     THEN AccessToken(st) # Nil
     ELSE AccessTokenExpirationDate(st) > now + ExpiryTimeTolerance

-----------------------------------------------------------------------------
(* The update methods: the record each leaves behind. *)

UpdateWithRegistrationResponse(st, response) ==
  [st EXCEPT !.registration = response, !.refreshToken = Nil, !.scope = Nil,
             !.authorization = Nil, !.token = Nil, !.error = Nil]

UpdateWithAuthorizationError(st, error) == [st EXCEPT !.error = error]

\* Mutant: the old authorization's refresh token is not cleared (line 363).
KeepingAuthorizationUpdate(st, response, error) ==
  IF error = AuthorizationErrorDomain
  THEN UpdateWithAuthorizationError(st, error)
  ELSE IF response = Nil THEN st
  ELSE [st EXCEPT !.authorization = response, !.token = Nil, !.error = Nil]

UpdateWithAuthorizationResponse(st, response, error) ==
  IF error = AuthorizationErrorDomain
  THEN UpdateWithAuthorizationError(st, error)
  ELSE IF response = Nil THEN st
  ELSE [st EXCEPT !.authorization = response, !.token = Nil,
                  !.refreshToken = Nil, !.error = Nil,
                  !.scope = FirstNonNil(response.scope, response.requestScope)]

\* Mutant: any token response ends a forced refresh, as line 519 does.
UnforcingTokenUpdate(st, response, error) ==
  IF error = TokenErrorDomain
  THEN UpdateWithAuthorizationError(st, error)
  ELSE IF response = Nil THEN [st EXCEPT !.error = Nil]
  ELSE [st EXCEPT !.error = Nil, !.token = response, !.needsRefresh = FALSE]

UpdateWithTokenResponse(st, response, error) ==
  IF error = TokenErrorDomain
  THEN UpdateWithAuthorizationError(st, error)
  ELSE IF response = Nil THEN [st EXCEPT !.error = Nil]
  ELSE [st EXCEPT !.error = Nil, !.token = response,
                  !.scope = FirstNonNil(response.scope, @),
                  !.refreshToken = IF response.refresh THEN response.grant
                                                       ELSE @]

\* initWithAuthorizationResponse:tokenResponse:registrationResponse:
InitialState(authorization, token, registration) ==
  LET registered == IF registration
                    THEN UpdateWithRegistrationResponse(EmptyState, TRUE)
                    ELSE EmptyState
      authorized == UpdateWithAuthorizationResponse(registered, authorization,
                                                    Nil)
  IN  IF token # Nil THEN UpdateWithTokenResponse(authorized, token, Nil)
                     ELSE authorized

\* The refresh callback's update of the state, lines 517 to 531: the response
\* when there is one, else the error.
RefreshedState(st, response, error) ==
  IF response # Nil
  THEN UpdateWithTokenResponse([st EXCEPT !.needsRefresh = FALSE], response, Nil)
  ELSE IF error = TokenErrorDomain
  THEN UpdateWithAuthorizationError([st EXCEPT !.needsRefresh = FALSE], error)
  ELSE st
=============================================================================
