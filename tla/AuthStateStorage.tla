-------------------------- MODULE AuthStateStorage --------------------------
(***************************************************************************)
(* An OIDAuthState object, the archive its app keeps of it, and a process  *)
(* that may die at any moment (OIDAuthState.m: NSSecureCoding, the update  *)
(* methods, didChangeState).  The app archives the object when its state   *)
(* change delegate is called, as OIDAuthStateChangeDelegate.h:30-33 asks,  *)
(* and unarchives it when it starts again.                                 *)
(***************************************************************************)
EXTENDS AuthStateData

CONSTANTS AuthorizationMenu,  \* authorization responses the server gives
          TokenMenu,          \* token responses the server gives
          RespectsErrorState  \* does the app keep from updating the object
                              \* with token responses in an error state, as
                              \* the log message of lines 380-383 asks?

ASSUME MenusTyped ==
  /\ AuthorizationMenu \subseteq AuthorizationResponses
  /\ TokenMenu \subseteq TokenResponses
ASSUME RespectsErrorStateIsBoolean == RespectsErrorState \in BOOLEAN

VARIABLES st,      \* the object in memory, Nil while the process is dead
          archive  \* what encodeWithCoder: last wrote

vars == <<st, archive>>

Archives == [authorization : AuthorizationResponses \cup {Nil},
             token         : TokenResponses \cup {Nil},
             error         : Errors \cup {Nil},
             scope         : Scopes \cup {Nil},
             refreshToken  : Grants \cup {Nil},
             needsRefresh  : BOOLEAN]

\* encodeWithCoder: the registration response is not written. Of an error the
\* domain and the code are kept, the user info is dropped.
Encode(s) ==
  [authorization |-> s.authorization, token |-> s.token, error |-> s.error,
   scope |-> s.scope, refreshToken |-> s.refreshToken,
   needsRefresh |-> s.needsRefresh]

\* Mutant: the stored refresh token is not read back (line 275).
ForgetfulDecode(a) ==
  [InitialState(a.authorization, a.token, FALSE) EXCEPT
     !.error = a.error, !.scope = a.scope, !.needsRefresh = a.needsRefresh]

\* initWithCoder: runs the initializer, and with it the update methods, on the
\* two responses, then overwrites what they derived.
Decode(a) ==
  [InitialState(a.authorization, a.token, FALSE) EXCEPT
     !.error = a.error, !.scope = a.scope, !.refreshToken = a.refreshToken,
     !.needsRefresh = a.needsRefresh]

\* Which calls reach didChangeState.
AuthorizationResponseNotifies(response, error) ==
  error = AuthorizationErrorDomain \/ response # Nil

\* Mutant: an OAuth error is recorded and not announced (line 416).
SilentErrorNotifies(response, error) == response # Nil

TokenResponseNotifies(response, error) ==
  error = TokenErrorDomain \/ response # Nil

Running == st # Nil

Update(new, notifies) ==
  /\ Running
  /\ st' = new
  /\ archive' = IF notifies THEN Encode(new) ELSE archive

Init ==
  \E a \in AuthorizationMenu, t \in TokenMenu \cup {Nil} :
    /\ st = InitialState(a, t, FALSE)
    /\ archive = Encode(st)

Register == Update(UpdateWithRegistrationResponse(st, TRUE), TRUE)

Authorize ==
  \E r \in AuthorizationMenu \cup {Nil}, e \in Errors \cup {Nil} :
    /\ (r = Nil) # (e = Nil)
    /\ Update(UpdateWithAuthorizationResponse(st, r, e),
              AuthorizationResponseNotifies(r, e))

Exchange ==
  \E r \in TokenMenu \cup {Nil}, e \in Errors \cup {Nil} :
    /\ (r = Nil) # (e = Nil)
    /\ Running
    /\ RespectsErrorState => st.error = Nil
    /\ Update(UpdateWithTokenResponse(st, r, e), TokenResponseNotifies(r, e))

SignalError ==
  \E e \in Errors : Update(UpdateWithAuthorizationError(st, e), TRUE)

SetNeedsTokenRefresh == Running /\ Update([st EXCEPT !.needsRefresh = TRUE], FALSE)

\* A refresh of performActionWithFreshTokens: comes to its end. It may have
\* begun before the object fell into an error state.
Refresh ==
  \E r \in TokenMenu \cup {Nil}, e \in {TokenErrorDomain, GeneralErrorDomain, Nil} :
    /\ (r = Nil) # (e = Nil)
    /\ Running
    /\ st.refreshToken # Nil
    /\ Update(RefreshedState(st, r, e), TokenResponseNotifies(r, e))

Crash == Running /\ st' = Nil /\ UNCHANGED archive

Restart == ~ Running /\ st' = Decode(archive) /\ UNCHANGED archive

Next == \/ Register \/ Authorize \/ Exchange \/ SignalError
        \/ SetNeedsTokenRefresh \/ Refresh \/ Crash \/ Restart

Spec == Init /\ [][Next]_vars
-----------------------------------------------------------------------------
TypeOK == st \in AuthStates \cup {Nil} /\ archive \in Archives

\* The object the archive would restore, but for the flag setNeedsTokenRefresh
\* sets, is the object in memory, but for its registration response: a crash
\* at any moment loses no token, no error and no scope.
ArchiveCurrent ==
  Running => Decode(archive) = [st EXCEPT !.registration = FALSE,
                                          !.needsRefresh = archive.needsRefresh]

\* Archiving what was unarchived writes the same archive: the update methods
\* initWithCoder: runs on the way leave nothing of theirs behind.
DecodeFaithful == Encode(Decode(archive)) = archive
=============================================================================
