------------------------- MODULE MCAuthStateStorage -------------------------
(* A small instance of AuthStateStorage. *)
EXTENDS AuthStateStorage

CONSTANTS g1, g2, s1, s2

CodeFlow(g) == [grant |-> g, access |-> FALSE, id |-> FALSE,
                expiration |-> Nil, scope |-> Nil, requestScope |-> s1]

ImplicitFlow(g) == [CodeFlow(g) EXCEPT !.access = TRUE, !.id = TRUE,
                                       !.scope = s2]

Tokens(g) == [grant |-> g, access |-> TRUE, id |-> TRUE, refresh |-> TRUE,
              expiration |-> 9, scope |-> Nil]

Narrowed(g) == [Tokens(g) EXCEPT !.refresh = FALSE, !.id = FALSE, !.scope = s2]

MCAuthorizationMenu == {CodeFlow(g) : g \in {g1, g2}} \cup {ImplicitFlow(g1)}
MCTokenMenu == {Tokens(g) : g \in {g1, g2}} \cup {Narrowed(g1)}
=============================================================================
