------------------------ MODULE MCAuthorizationFlow ------------------------
(***************************************************************************)
(* AuthorizationFlow for TLC: replies that are right, and those that are   *)
(* wrong in one respect, for each check of the code.                       *)
(***************************************************************************)
EXTENDS AuthorizationFlow

CONSTANTS f1, x1, i1, i2, c1, c2

MCErrorNames == {"invalid_grant", "access_denied", "invalid_redirect_uri", "slow_down"}
MCTimes == 0 .. 3

\* Replies that fail, with these statuses and naming these errors, if any.
Failures(statuses, names) ==
  {NoReply, Reply(200, FALSE, Nil, Nil)}
    \cup {Reply(s, TRUE, e, Nil) : s \in statuses, e \in names \cup {Nil, NotAString}}
    \cup {Reply(s, FALSE, Nil, Nil) : s \in statuses}

Document == [issuer |-> i1, fields |-> URLFields \cup ListFields, urls |-> URLFields]
MCDocuments ==
  {Document}
    \cup {[Document EXCEPT !.fields = @ \ {x}, !.urls = @ \ {x}] : x \in Document.fields}
    \cup {[Document EXCEPT !.urls = @ \ {x}] : x \in URLFields}
MCDiscoveryReplies ==
  {Reply(200, TRUE, Nil, d) : d \in MCDocuments} \cup Failures({404}, {})

MCRegistrationReplies ==
  {Reply(201, TRUE, Nil, p) :
     p \in {q \in RegistrationParameters : q.clientID # c2}}
    \cup Failures({400, 401, 500}, {"invalid_redirect_uri", "slow_down"})

\* An ID token that passes, and the ways to go wrong.
IDToken(expiresAt, issuedAt, nonce) ==
  [issuer |-> i1, subject |-> TRUE, audience |-> {c1}, azp |-> Nil,
   expiresAt |-> expiresAt, issuedAt |-> issuedAt, nonce |-> nonce]
MCIDTokens ==
  {IDToken(e, i, n) : e \in {0, 2}, i \in {0, 2, 3}, n \in {f1, x1, Nil}}
    \cup UNION {LET t == IDToken(2, 1, n)
                IN  {[t EXCEPT !.issuer = i2], [t EXCEPT !.issuer = Nil],
                     [t EXCEPT !.subject = FALSE], [t EXCEPT !.audience = {}],
                     [t EXCEPT !.audience = {c2}, !.azp = c1],
                     [t EXCEPT !.audience = {c2}, !.azp = c2],
                     [t EXCEPT !.audience = Nil], [t EXCEPT !.expiresAt = Nil],
                     [t EXCEPT !.issuedAt = Nil]} : n \in {f1, x1}}
MCTokenReplies ==
  {Reply(200, TRUE, Nil, t) : t \in MCIDTokens \cup {Nil}} \cup Failures({400, 429, 503}, {"invalid_grant", "access_denied", "slow_down"})
=============================================================================
