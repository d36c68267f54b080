----------------------- MODULE AuthStateStorage_proofs -----------------------
(***************************************************************************)
(* What holds of AuthStateStorage for every menu of responses.             *)
(***************************************************************************)
EXTENDS AuthStateStorage, AuthStateData_proofs

\* Decoding restores what was encoded, and an object without a registration.
LEMMA DecodeRestores ==
  ASSUME NEW a \in Archives
  PROVE  Decode(a) = [registration |-> FALSE, authorization |-> a.authorization,
                      token |-> a.token, refreshToken |-> a.refreshToken,
                      scope |-> a.scope, error |-> a.error,
                      needsRefresh |-> a.needsRefresh]
<1> DEFINE s == InitialState(a.authorization, a.token, FALSE)
<1>1. /\ a.authorization \in AuthorizationResponses \cup {Nil}
      /\ a.token \in TokenResponses \cup {Nil}
  BY DEF Archives
<1>2. /\ s \in AuthStates /\ s.registration = FALSE
      /\ s.authorization = a.authorization /\ s.token = a.token
  <2>1. s \in AuthStates /\ ~ s.registration
        /\ s.authorization = a.authorization /\ s.token = a.token
    BY <1>1, InitialStateTakes
  <2> HIDE DEF s
  <2> QED BY <2>1 DEF AuthStates
<1>3. Decode(a) = [s EXCEPT !.error = a.error, !.scope = a.scope,
                            !.refreshToken = a.refreshToken,
                            !.needsRefresh = a.needsRefresh]
  BY DEF Decode
<1> HIDE DEF s
<1> QED BY <1>2, <1>3 DEF AuthStates

LEMMA DecodeTyped == ASSUME NEW a \in Archives PROVE Decode(a) \in AuthStates
<1>1. /\ a.authorization \in AuthorizationResponses \cup {Nil}
      /\ a.token \in TokenResponses \cup {Nil} /\ a.error \in Errors \cup {Nil}
      /\ a.scope \in Scopes \cup {Nil} /\ a.refreshToken \in Grants \cup {Nil}
      /\ a.needsRefresh \in BOOLEAN
  BY DEF Archives
<1> DEFINE d == Decode(a)
<1>2. d = [registration |-> FALSE, authorization |-> a.authorization,
           token |-> a.token, refreshToken |-> a.refreshToken,
           scope |-> a.scope, error |-> a.error,
           needsRefresh |-> a.needsRefresh]
  BY DecodeRestores
<1> HIDE DEF d
<1>3. d \in AuthStates
  BY <1>1, <1>2 DEF AuthStates
<1> QED BY <1>3 DEF d

LEMMA EncodeTyped == ASSUME NEW s \in AuthStates PROVE Encode(s) \in Archives
  BY DEF Encode, Archives, AuthStates

LEMMA InitTyped == Init => TypeOK
<1> SUFFICES ASSUME Init PROVE TypeOK
  OBVIOUS
<1>1. PICK a \in AuthorizationMenu, t \in TokenMenu \cup {Nil} :
        st = InitialState(a, t, FALSE) /\ archive = Encode(st)
  BY DEF Init
<1>2. st \in AuthStates
  BY <1>1, MenusTyped, InitialStateTyped
<1> QED BY <1>1, <1>2, EncodeTyped DEF TypeOK

LEMMA UpdateTyped ==
  ASSUME TypeOK, NEW new \in AuthStates, NEW notifies, Update(new, notifies)
  PROVE  TypeOK'
  BY EncodeTyped DEF Update, TypeOK

LEMMA RegistrationTyped ==
  ASSUME NEW s \in AuthStates PROVE UpdateWithRegistrationResponse(s, TRUE) \in AuthStates
  BY DEF UpdateWithRegistrationResponse, AuthStates

LEMMA StepTyped == TypeOK /\ [Next]_vars => TypeOK'
<1> SUFFICES ASSUME TypeOK, [Next]_vars PROVE TypeOK'
  OBVIOUS
<1>1. Running => st \in AuthStates
  BY DEF Running, TypeOK
<1>2. CASE Register
  BY <1>1, <1>2, RegistrationTyped, UpdateTyped DEF Register, Update
<1>3. CASE Authorize
  <2>1. PICK r \in AuthorizationMenu \cup {Nil}, e \in Errors \cup {Nil} :
          Update(UpdateWithAuthorizationResponse(st, r, e),
                 AuthorizationResponseNotifies(r, e))
    BY <1>3 DEF Authorize
  <2>2. UpdateWithAuthorizationResponse(st, r, e) \in AuthStates
    BY <1>1, <2>1, MenusTyped, AuthorizationUpdateTyped DEF Update
  <2> QED BY <2>1, <2>2, UpdateTyped
<1>4. CASE Exchange
  <2>1. PICK r \in TokenMenu \cup {Nil}, e \in Errors \cup {Nil} :
          Update(UpdateWithTokenResponse(st, r, e), TokenResponseNotifies(r, e))
    BY <1>4 DEF Exchange
  <2>2. UpdateWithTokenResponse(st, r, e) \in AuthStates
    BY <1>1, <2>1, MenusTyped, TokenUpdateTyped DEF Update
  <2> QED BY <2>1, <2>2, UpdateTyped
<1>5. CASE SignalError
  <2>1. PICK e \in Errors : Update(UpdateWithAuthorizationError(st, e), TRUE)
    BY <1>5 DEF SignalError
  <2>2. UpdateWithAuthorizationError(st, e) \in AuthStates
    BY <1>1, <2>1 DEF Update, UpdateWithAuthorizationError, AuthStates
  <2> QED BY <2>1, <2>2, UpdateTyped
<1>6. CASE SetNeedsTokenRefresh
  <2>1. [st EXCEPT !.needsRefresh = TRUE] \in AuthStates
    BY <1>1, <1>6 DEF SetNeedsTokenRefresh, AuthStates
  <2> QED BY <1>6, <2>1, UpdateTyped DEF SetNeedsTokenRefresh
<1>7. CASE Refresh
  <2>1. PICK r \in TokenMenu \cup {Nil}, e \in {TokenErrorDomain, GeneralErrorDomain, Nil} :
          Update(RefreshedState(st, r, e), TokenResponseNotifies(r, e))
    BY <1>7 DEF Refresh
  <2>2. RefreshedState(st, r, e) \in AuthStates
    BY <1>1, <2>1, MenusTyped, RefreshedStateTyped DEF Update, Errors
  <2> QED BY <2>1, <2>2, UpdateTyped
<1>8. CASE Crash \/ Restart
  BY <1>8, DecodeTyped DEF Crash, Restart, TypeOK
<1>9. CASE UNCHANGED vars
  BY <1>9 DEF vars, TypeOK
<1> QED BY <1>2, <1>3, <1>4, <1>5, <1>6, <1>7, <1>8, <1>9 DEF Next

\* Every reachable state is well-typed: TypeOK.
THEOREM TypeCorrect == Spec => []TypeOK
  BY InitTyped, StepTyped, PTL DEF Spec

\* Archiving what was unarchived writes the same archive: DecodeFaithful.
THEOREM DecodingIsFaithful == Spec => []DecodeFaithful
<1>1. TypeOK => DecodeFaithful
  <2> SUFFICES ASSUME TypeOK PROVE Encode(Decode(archive)) = archive
    BY DEF DecodeFaithful
  <2>1. archive \in Archives
    BY DEF TypeOK
  <2> DEFINE s == Decode(archive)
  <2>2. /\ s.authorization = archive.authorization /\ s.token = archive.token
        /\ s.error = archive.error /\ s.scope = archive.scope
        /\ s.refreshToken = archive.refreshToken /\ s.needsRefresh = archive.needsRefresh
    BY <2>1, DecodeRestores
  <2> HIDE DEF s
  <2> QED BY <2>1, <2>2 DEF Encode, Archives, s
<1> QED BY <1>1, TypeCorrect, PTL
-----------------------------------------------------------------------------
(* The archive. *)

\* The members the archive keeps for certain are those of the object.
Kept(s, a) ==
  /\ a.authorization = s.authorization /\ a.token = s.token /\ a.error = s.error
  /\ a.scope = s.scope /\ a.refreshToken = s.refreshToken

\* An object is what it archives, its registration and its forced refresh.
LEMMA RestorableMembers ==
  ASSUME NEW s \in AuthStates, NEW forced \in BOOLEAN
  PROVE  [s EXCEPT !.registration = FALSE, !.needsRefresh = forced]
           = [registration |-> FALSE, authorization |-> s.authorization,
              token |-> s.token, refreshToken |-> s.refreshToken,
              scope |-> s.scope, error |-> s.error, needsRefresh |-> forced]
<1> DEFINE d == [s EXCEPT !.registration = FALSE, !.needsRefresh = forced]
           e == [registration |-> FALSE, authorization |-> s.authorization,
                 token |-> s.token, refreshToken |-> s.refreshToken,
                 scope |-> s.scope, error |-> s.error, needsRefresh |-> forced]
<1>1. d \in AuthStates
  BY DEF AuthStates
<1>2. e \in AuthStates
  BY DEF AuthStates
<1>3. /\ d.registration = FALSE /\ d.authorization = s.authorization
      /\ d.token = s.token /\ d.refreshToken = s.refreshToken
      /\ d.scope = s.scope /\ d.error = s.error /\ d.needsRefresh = forced
  BY DEF AuthStates
<1>4. /\ e.registration = FALSE /\ e.authorization = s.authorization
      /\ e.token = s.token /\ e.refreshToken = s.refreshToken
      /\ e.scope = s.scope /\ e.error = s.error /\ e.needsRefresh = forced
  OBVIOUS
<1> HIDE DEF d, e
<1>5. d = e
  BY <1>1, <1>2, <1>3, <1>4 DEF AuthStates
<1> QED BY <1>5 DEF d, e

LEMMA KeptIsCurrent ==
  ASSUME TypeOK PROVE (Running => Kept(st, archive)) <=> ArchiveCurrent
<1>1. archive \in Archives
  BY DEF TypeOK
<1>2. ASSUME Running
      PROVE  Kept(st, archive)
               <=> Decode(archive) = [st EXCEPT !.registration = FALSE,
                                                !.needsRefresh = archive.needsRefresh]
  <2> DEFINE d == Decode(archive)
             s == [st EXCEPT !.registration = FALSE, !.needsRefresh = archive.needsRefresh]
  <2>1. st \in AuthStates
    BY <1>2 DEF Running, TypeOK
  <2>2. d = [registration |-> FALSE, authorization |-> archive.authorization,
             token |-> archive.token, refreshToken |-> archive.refreshToken,
             scope |-> archive.scope, error |-> archive.error,
             needsRefresh |-> archive.needsRefresh]
    BY <1>1, DecodeRestores
  <2>3. s = [registration |-> FALSE, authorization |-> st.authorization,
             token |-> st.token, refreshToken |-> st.refreshToken,
             scope |-> st.scope, error |-> st.error,
             needsRefresh |-> archive.needsRefresh]
    BY <1>1, <2>1, RestorableMembers DEF Archives
  <2> HIDE DEF d, s
  <2>4. Kept(st, archive) => d = s
    BY <2>2, <2>3 DEF Kept
  <2>5. d = s => Kept(st, archive)
    <3>1. /\ d.authorization = archive.authorization /\ s.authorization = st.authorization
          /\ d.token = archive.token /\ s.token = st.token
          /\ d.error = archive.error /\ s.error = st.error
          /\ d.scope = archive.scope /\ s.scope = st.scope
          /\ d.refreshToken = archive.refreshToken /\ s.refreshToken = st.refreshToken
      BY <2>2, <2>3
    <3> QED BY <3>1 DEF Kept
  <2> QED BY <2>4, <2>5 DEF d, s
<1> QED BY <1>2 DEF ArchiveCurrent

LEMMA EncodeKeeps == ASSUME NEW s \in AuthStates PROVE Kept(s, Encode(s))
  BY DEF Kept, Encode

\* An update that is not announced changes nothing that is kept.
LEMMA UpdateKeeps ==
  ASSUME TypeOK, TypeOK', Running => Kept(st, archive),
         NEW new \in AuthStates, NEW notifies \in BOOLEAN, Update(new, notifies),
         ~ notifies =>
           /\ new.authorization = st.authorization /\ new.token = st.token
           /\ new.error = st.error /\ new.scope = st.scope
           /\ new.refreshToken = st.refreshToken
  PROVE  Kept(st, archive)'
<1>1. CASE notifies
  BY <1>1, EncodeKeeps DEF Update
<1>2. CASE ~ notifies
  BY <1>2 DEF Update, Kept
<1> QED BY <1>1, <1>2

\* A crash at any moment loses no token, no error and no scope: ArchiveCurrent,
\* for an app that archives when it is told of a change and does not feed token
\* responses to an object in an error state.
THEOREM ArchiveIsCurrent ==
  ASSUME RespectsErrorState
  PROVE  Spec => []ArchiveCurrent
<1> DEFINE Current == Running => Kept(st, archive)
<1>1. Init => Current
  <2> SUFFICES ASSUME Init PROVE Kept(st, archive)
    OBVIOUS
  <2>1. st # Nil => st \in AuthStates
    BY InitTyped DEF TypeOK
  <2> QED BY <2>1 DEF Init, Kept, Encode
<1>2. TypeOK /\ TypeOK' /\ Current /\ [Next]_vars => Current'
  <2> SUFFICES ASSUME TypeOK, TypeOK', Current, [Next]_vars PROVE Current'
    OBVIOUS
  <2>0. Running => st \in AuthStates
    BY DEF Running, TypeOK
  <2>1. Running' => st' \in AuthStates
    BY DEF Running, TypeOK
  <2>2. CASE Register
    <3>1. UpdateWithRegistrationResponse(st, TRUE) \in AuthStates
      BY <2>0, <2>2, RegistrationTyped DEF Register, Update
    <3> QED BY <2>2, <3>1, UpdateKeeps DEF Register
  <2>3. CASE Authorize
    <3>1. PICK r \in AuthorizationMenu \cup {Nil}, e \in Errors \cup {Nil} :
            Update(UpdateWithAuthorizationResponse(st, r, e),
                   AuthorizationResponseNotifies(r, e))
      BY <2>3 DEF Authorize
    <3>2. UpdateWithAuthorizationResponse(st, r, e) \in AuthStates
      BY <2>0, <3>1, MenusTyped, AuthorizationUpdateTyped DEF Update
    <3>3. ~ AuthorizationResponseNotifies(r, e) =>
            UpdateWithAuthorizationResponse(st, r, e) = st
      BY DEF AuthorizationResponseNotifies, UpdateWithAuthorizationResponse
    <3>4. AuthorizationResponseNotifies(r, e) \in BOOLEAN
      BY DEF AuthorizationResponseNotifies
    <3> QED BY <3>1, <3>2, <3>3, <3>4, UpdateKeeps
  <2>4. CASE Exchange
    <3>1. PICK r \in TokenMenu \cup {Nil}, e \in Errors \cup {Nil} :
            /\ st.error = Nil
            /\ Update(UpdateWithTokenResponse(st, r, e), TokenResponseNotifies(r, e))
      BY <2>4 DEF Exchange
    <3>2. UpdateWithTokenResponse(st, r, e) \in AuthStates /\ st \in AuthStates
      BY <2>0, <3>1, MenusTyped, TokenUpdateTyped DEF Update
    <3>3. ASSUME ~ TokenResponseNotifies(r, e)
          PROVE  LET new == UpdateWithTokenResponse(st, r, e) IN
                 /\ new.authorization = st.authorization /\ new.token = st.token
                 /\ new.error = st.error /\ new.scope = st.scope
                 /\ new.refreshToken = st.refreshToken
      BY <3>1, <3>2, <3>3 DEF TokenResponseNotifies, UpdateWithTokenResponse, AuthStates
    <3>4. TokenResponseNotifies(r, e) \in BOOLEAN
      BY DEF TokenResponseNotifies
    <3> QED BY <3>1, <3>2, <3>3, <3>4, UpdateKeeps
  <2>5. CASE SignalError
    <3>1. PICK e \in Errors : Update(UpdateWithAuthorizationError(st, e), TRUE)
      BY <2>5 DEF SignalError
    <3>2. UpdateWithAuthorizationError(st, e) \in AuthStates
      BY <2>0, <3>1 DEF Update, UpdateWithAuthorizationError, AuthStates
    <3> QED BY <3>1, <3>2, UpdateKeeps
  <2>6. CASE SetNeedsTokenRefresh
    <3>1. st \in AuthStates /\ st' = [st EXCEPT !.needsRefresh = TRUE] /\ archive' = archive
      BY <2>0, <2>6 DEF SetNeedsTokenRefresh, Update
    <3>2. Kept(st, archive)
      BY <2>6 DEF SetNeedsTokenRefresh
    <3> QED BY <3>1, <3>2 DEF Kept, AuthStates
  <2>7. CASE Refresh
    <3>1. PICK r \in TokenMenu \cup {Nil},
               e \in {TokenErrorDomain, GeneralErrorDomain, Nil} :
            Update(RefreshedState(st, r, e), TokenResponseNotifies(r, e))
      BY <2>7 DEF Refresh
    <3>2. RefreshedState(st, r, e) \in AuthStates
      BY <2>0, <3>1, MenusTyped, RefreshedStateTyped DEF Update, Errors
    <3>3. ~ TokenResponseNotifies(r, e) => RefreshedState(st, r, e) = st
      BY DEF TokenResponseNotifies, RefreshedState
    <3>4. TokenResponseNotifies(r, e) \in BOOLEAN
      BY DEF TokenResponseNotifies
    <3> QED BY <3>1, <3>2, <3>3, <3>4, UpdateKeeps
  <2>8. CASE Crash
    BY <2>8 DEF Crash, Running
  <2>9. CASE Restart
    <3>1. archive \in Archives /\ st' = Decode(archive) /\ archive' = archive
      BY <2>9 DEF Restart, TypeOK
    <3> QED BY <3>1, DecodeRestores DEF Kept
  <2>10. CASE UNCHANGED vars
    BY <2>10 DEF vars, Running, Kept
  <2> QED BY <2>2, <2>3, <2>4, <2>5, <2>6, <2>7, <2>8, <2>9, <2>10 DEF Next
<1>3. TypeOK /\ Current => ArchiveCurrent
  BY KeptIsCurrent
<1> QED BY <1>1, <1>2, <1>3, TypeCorrect, PTL DEF Spec
=============================================================================
