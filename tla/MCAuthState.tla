---------------------------- MODULE MCAuthState ----------------------------
(* Small instances of AuthState: shapes of the responses. *)
EXTENDS AuthState

\* The code flow: an authorization response carries no token.
CodeFlow == [access |-> FALSE, id |-> FALSE, lifetime |-> Nil,
             scope |-> Nil, requestScope |-> Nil]

\* The implicit flow: the access token comes with the authorization response.
\* A redirect URL holds strings, and only a number becomes an expiration date
\* (OIDAuthorizationResponse.m:94-99), so there is none.
ImplicitFlow == [CodeFlow EXCEPT !.access = TRUE]

\* An access token that expires, with a (rotated) refresh token.
Rotating == [access |-> TRUE, id |-> TRUE, refresh |-> TRUE, lifetime |-> 2,
             scope |-> Nil]

\* An answer without a refresh token, so the one in use stays, whose access
\* token never expires.
Keeping == [Rotating EXCEPT !.refresh = FALSE, !.id = FALSE, !.lifetime = Nil]

MCAuthorizationShapes == {CodeFlow, ImplicitFlow}
MCTokenShapes == {Rotating, Keeping}

\* The code flow with tokens that expire: the smallest instance that refreshes.
MCCodeFlowOnly == {CodeFlow}
MCRotatingOnly == {Rotating}
=============================================================================
