---------------------- MODULE AuthorizationFlow_proofs ----------------------
(***************************************************************************)
(* Proofs about AuthorizationFlow, for any number of authorizations and    *)
(* whatever the network and the servers reply.                             *)
(***************************************************************************)
EXTENDS AuthorizationFlow, TLAPS

-----------------------------------------------------------------------------
(* What the library makes of a reply. *)

LEMMA OAuthErrorsTyped ==
  ASSUME NEW domain \in OAuthDomains, NEW name \in ErrorMembers
  PROVE  /\ OAuthErrorWithDomain(domain, name) \in Errors
         /\ name = NotAString => OAuthErrorWithDomain(domain, name).domain = GeneralDomain
         /\ name # NotAString =>
              OAuthErrorWithDomain(domain, name) =
                Error(domain, OAuthErrorCodeFromString(name))
<1>1. OAuthErrorCodeFromString(name) \in OAuthErrorCodes
  BY DEF OAuthErrorCodeFromString, OAuthErrorCodes
<1> QED BY <1>1 DEF OAuthErrorWithDomain, ErrorWithCode, Error, Errors, ErrorCodes

\* The lookup gives an error of RFC 6749 the code of the header, and Other to any
\* other name.
LEMMA LooksUp ==
  ASSUME NEW name
  PROVE  OAuthErrorCodeFromString(name) = CodeOf(name)
<1>1. /\ DOMAIN AuthorizationCodes =
           {"invalid_request", "unauthorized_client", "access_denied",
            "unsupported_response_type", "invalid_scope", "server_error",
            "temporarily_unavailable"}
      /\ DOMAIN TokenCodes =
           {"invalid_request", "invalid_client", "invalid_grant", "unauthorized_client",
            "unsupported_grant_type", "invalid_scope"}
  BY DEF AuthorizationCodes, TokenCodes
<1>2. CASE name \in DOMAIN AuthorizationCodes
  <2>1. CodeOf(name) = AuthorizationCodes[name]
    BY <1>2 DEF CodeOf
  <2> QED BY <1>1, <1>2, <2>1 DEF OAuthErrorCodeFromString, AuthorizationCodes
<1>3. CASE name \in DOMAIN TokenCodes \ DOMAIN AuthorizationCodes
  <2>1. CodeOf(name) = TokenCodes[name]
    BY <1>3 DEF CodeOf
  <2>2. name \in {"invalid_client", "invalid_grant", "unsupported_grant_type"}
    BY <1>1, <1>3
  <2> QED BY <2>1, <2>2 DEF OAuthErrorCodeFromString, TokenCodes
<1>4. CASE name \notin DOMAIN TokenCodes \cup DOMAIN AuthorizationCodes
  <2>1. CodeOf(name) = "Other"
    BY <1>4 DEF CodeOf
  <2>2. OAuthErrorCodeFromString(name) = "Other"
    BY <1>1, <1>4 DEF OAuthErrorCodeFromString
  <2> QED BY <2>1, <2>2
<1> QED BY <1>2, <1>3, <1>4

LEMMA FixedErrors ==
  /\ \A code \in ErrorCodes : /\ ErrorWithCode(code) \in Errors
                              /\ ErrorWithCode(code).domain = GeneralDomain
  /\ Error(AuthorizationDomain, "ClientError") \in Errors
  BY DEF ErrorWithCode, Error, Errors, OAuthDomains, OAuthErrorCodes

LEMMA SuccessTyped ==
  ASSUME NEW V, NEW v \in V
  PROVE  Success(v) \in Results(V) /\ Success(v).value = v /\ Success(v).error = Nil
  BY DEF Success, Results

LEMMA FailureTyped ==
  ASSUME NEW V, NEW e \in Errors
  PROVE  Failure(e) \in Results(V) /\ Failure(e).value = Nil /\ Failure(e).error = e
  BY DEF Failure, Results

\* A result is a value or an error.
LEMMA ResultsSplit ==
  ASSUME NEW V, NEW r \in Results(V)
  PROVE  /\ r.error = Nil => r.value \in V
         /\ r.error # Nil => r.error \in Errors /\ r.value = Nil
         /\ r.value # Nil => r.error = Nil /\ r.value \in V
  BY NilIsNoError DEF Results

LEMMA DiscoveryTyped ==
  ASSUME NEW reply \in RepliesWith(Documents)
  PROVE  /\ DiscoveryResult(reply) \in Results(Configurations)
         /\ DiscoveryResult(reply).error = Nil => DiscoveryResult(reply).value.issuer \in Issuers
         /\ DiscoveryResult(reply).error # Nil =>
              DiscoveryResult(reply).error.domain = GeneralDomain
<1>1. CASE /\ reply.status = 200 /\ reply.json
           /\ DictionaryHasRequiredFields(reply.content)
  <2>1. reply.content \in Documents
    BY <1>1 DEF RepliesWith
  <2>2. /\ ConfigurationWithDiscoveryDocument(reply.content) \in Configurations
        /\ ConfigurationWithDiscoveryDocument(reply.content).issuer \in Issuers
    BY <2>1 DEF ConfigurationWithDiscoveryDocument, Configurations, Documents
  <2>3. DiscoveryResult(reply) = Success(ConfigurationWithDiscoveryDocument(reply.content))
    BY <1>1 DEF DiscoveryResult
  <2> QED BY <2>2, <2>3, SuccessTyped
<1>2. CASE ~ (/\ reply.status = 200 /\ reply.json
              /\ DictionaryHasRequiredFields(reply.content))
  <2>1. DiscoveryResult(reply) = Failure(ErrorWithCode("NetworkError"))
    BY <1>2 DEF DiscoveryResult
  <2>2. "NetworkError" \in ErrorCodes
    BY DEF ErrorCodes
  <2> QED BY <2>1, <2>2, FixedErrors, FailureTyped, NilIsNoError
<1> QED BY <1>1, <1>2

\* What a reply names, and what the error made of it says.
RefusesWith(reply, statuses) ==
  reply.status \in statuses /\ reply.json /\ reply.error \notin {Nil, NotAString}

LEMMA ServerErrors ==
  ASSUME NEW contents, NEW reply \in RepliesWith(contents), NEW statuses,
         NEW domain \in OAuthDomains
  PROVE  /\ ServerError(reply, statuses, domain) \in Errors
         /\ RefusesWith(reply, statuses) =>
              ServerError(reply, statuses, domain) = Error(domain, CodeOf(reply.error))
         /\ ~ RefusesWith(reply, statuses) =>
              ServerError(reply, statuses, domain).domain = GeneralDomain
<1>1. reply.error \in ErrorMembers \cup {Nil}
  BY DEF RepliesWith
<1>2. "ServerError" \in ErrorCodes
  BY DEF ErrorCodes
<1>3. CASE reply.status \in statuses /\ reply.json /\ reply.error # Nil
  <2>1. ServerError(reply, statuses, domain) = OAuthErrorWithDomain(domain, reply.error)
    BY <1>3 DEF ServerError
  <2> QED BY <1>1, <1>3, <2>1, OAuthErrorsTyped, LooksUp DEF RefusesWith
<1>4. CASE ~ (reply.status \in statuses /\ reply.json /\ reply.error # Nil)
  <2>1. ServerError(reply, statuses, domain) = ErrorWithCode("ServerError")
    BY <1>4 DEF ServerError
  <2> QED BY <1>2, <1>4, <2>1, FixedErrors DEF RefusesWith
<1> QED BY <1>3, <1>4

\* A result that is an OAuth error if and only if the server refused.
Tells(result, refuses, domain, name) ==
  /\ refuses => result.error = Error(domain, CodeOf(name))
  /\ ~ refuses /\ result.error # Nil => result.error.domain = GeneralDomain

LEMMA RegistrationTyped ==
  ASSUME NEW reply \in RepliesWith(RegistrationParameters)
  PROVE  /\ RegistrationResult(reply) \in Results(RegistrationParameters)
         /\ Tells(RegistrationResult(reply), RefusesWith(reply, {400}),
                  RegistrationDomain, reply.error)
         /\ RegistrationResult(reply).error = Nil => reply.status \in {200, 201}
<1> DEFINE result == RegistrationResult(reply)
<1>1. CASE reply = NoReply
  <2>1. result = Failure(ErrorWithCode("NetworkError")) /\ "NetworkError" \in ErrorCodes
    BY <1>1 DEF RegistrationResult, ErrorCodes, NoReply
  <2>2. ~ RefusesWith(reply, {400})
    BY <1>1 DEF RefusesWith, NoReply
  <2> QED BY <2>1, <2>2, FixedErrors, FailureTyped, NilIsNoError DEF Tells
<1>2. CASE reply # NoReply /\ reply.status \notin {200, 201}
  <2>1. result = Failure(ServerError(reply, {400}, RegistrationDomain))
    BY <1>2 DEF RegistrationResult
  <2> QED BY <2>1, ServerErrors, FailureTyped, NilIsNoError DEF Tells, OAuthDomains
<1>3. CASE reply # NoReply /\ reply.status \in {200, 201}
  <2>1. ~ RefusesWith(reply, {400})
    BY <1>3 DEF RefusesWith
  <2>2. \/ \E code \in ErrorCodes : result = Failure(ErrorWithCode(code))
        \/ reply.json /\ result = Success(reply.content)
    BY <1>3 DEF RegistrationResult, ErrorCodes
  <2>3. CASE \E code \in ErrorCodes : result = Failure(ErrorWithCode(code))
    BY <2>1, <2>3, FixedErrors, FailureTyped, NilIsNoError DEF Tells
  <2>4. CASE reply.json /\ result = Success(reply.content)
    <3>1. reply.content \in RegistrationParameters
      BY <1>3, <2>4 DEF RepliesWith
    <3> QED BY <1>3, <2>1, <2>4, <3>1, SuccessTyped DEF Tells
  <2> QED BY <2>2, <2>3, <2>4
<1> QED BY <1>1, <1>2, <1>3

ClientErrors == 400 .. 499

\* An ID token that was let through.
Valid(token, request_, original, at) ==
  token.idToken # Nil =>
    /\ IsIDToken(token.idToken)
    /\ PassesValidation(token.idToken, request_, original, at)

LEMMA TokenTyped ==
  ASSUME NEW reply \in RepliesWith(Claims \cup {Nil}), NEW q \in TokenRequests,
         NEW original, NEW at
  PROVE  /\ TokenResult(q, original, reply, at) \in Results(TokenResponses)
         /\ Tells(TokenResult(q, original, reply, at), RefusesWith(reply, ClientErrors),
                  TokenDomain, reply.error)
         /\ TokenResult(q, original, reply, at).error = Nil =>
              /\ reply.status \in {200, 201}
              /\ TokenResult(q, original, reply, at).value.request = q
              /\ Valid(TokenResult(q, original, reply, at).value, q, original, at)
<1> DEFINE result == TokenResult(q, original, reply, at)
<1>1. CASE reply = NoReply
  <2>1. result = Failure(ErrorWithCode("NetworkError")) /\ "NetworkError" \in ErrorCodes
    BY <1>1 DEF TokenResult, ErrorCodes, NoReply
  <2>2. ~ RefusesWith(reply, ClientErrors)
    BY <1>1 DEF RefusesWith, NoReply, ClientErrors
  <2> QED BY <2>1, <2>2, FixedErrors, FailureTyped, NilIsNoError DEF Tells
<1>2. CASE reply # NoReply /\ reply.status # 200
  <2>1. result = Failure(ServerError(reply, ClientErrors, TokenDomain))
    BY <1>2 DEF TokenResult, ClientErrors
  <2> QED BY <2>1, ServerErrors, FailureTyped, NilIsNoError DEF Tells, OAuthDomains
<1>3. CASE reply # NoReply /\ reply.status = 200
  <2>1. ~ RefusesWith(reply, ClientErrors)
    BY <1>3 DEF RefusesWith, ClientErrors
  <2>2. \/ \E code \in ErrorCodes : result = Failure(ErrorWithCode(code))
        \/ /\ reply.json
           /\ result = Success([request |-> q, idToken |-> reply.content])
           /\ reply.content # Nil => /\ IsIDToken(reply.content)
                                    /\ PassesValidation(reply.content, q, original, at)
    BY <1>3 DEF TokenResult, IDTokenResult, ErrorCodes
  <2>3. CASE \E code \in ErrorCodes : result = Failure(ErrorWithCode(code))
    BY <2>1, <2>3, FixedErrors, FailureTyped, NilIsNoError DEF Tells
  <2>4. CASE /\ reply.json
             /\ result = Success([request |-> q, idToken |-> reply.content])
             /\ reply.content # Nil => /\ IsIDToken(reply.content)
                                      /\ PassesValidation(reply.content, q, original, at)
    <3>1. reply.content \in Claims \cup {Nil}
      BY <1>3, <2>4 DEF RepliesWith
    <3>2. [request |-> q, idToken |-> reply.content] \in TokenResponses
      BY <3>1 DEF TokenResponses
    <3> QED BY <1>3, <2>1, <2>4, <3>2, SuccessTyped DEF Tells, Valid
  <2> QED BY <2>2, <2>3, <2>4
<1> QED BY <1>1, <1>2, <1>3

-----------------------------------------------------------------------------
(* The inductive invariant. *)

\* A flow that has presented a request presented its own: for the client and the
\* configuration it has, with a nonce of its own.
Own(f) ==
  /\ request[f] \in AuthorizationRequests
  /\ request[f].configuration = configuration[f]
  /\ configuration[f].issuer \in Issuers
  /\ request[f].clientID = client[f]
  /\ request[f].nonce \in {Nil, f}

Redeems(f) ==
  /\ response[f] \in AuthorizationResponses
  /\ response[f].request = request[f]
  /\ response[f].state = request[f].state
  /\ request[f].responseType = "code"

\* A result on its way to the main queue.
Brings(f) ==
  block[f] # Nil /\ block[f].error = Nil =>
    /\ stage[f] = "discovering" => block[f].value.issuer \in Issuers
    /\ stage[f] = "redeeming" =>
         /\ block[f].value.request = TokenExchangeRequest(response[f])
         /\ Valid(block[f].value, TokenExchangeRequest(response[f]), response[f], checkedAt[f])
         /\ checkedAt[f] \in 0 .. MaxTime

\* What is to be said of an error response r: the error of a refusal, and else one
\* that is no refusal.
Says(error, r) ==
  /\ r # Nil => error # Nil
  /\ error # Nil =>
       IF r # Nil /\ IsRefusal(r) THEN error = Error(r.domain, CodeOf(r.name))
       ELSE error.domain = GeneralDomain

\* An error response not yet told of is on its way.
TellsRefusal(f) ==
  /\ refused[f] # Nil => block[f] # Nil
  /\ block[f] # Nil => Says(block[f].error, refused[f])

FlowInv(f) ==
  /\ stage[f] = "registering" =>
       configuration[f] \in Configurations /\ configuration[f].issuer \in Issuers
  /\ stage[f] \in {"authorizing", "redeeming"} => Own(f)
  /\ stage[f] = "redeeming" => Redeems(f)
  /\ Brings(f)
  /\ stage[f] # "over" => told[f] = Nil /\ TellsRefusal(f)

Inv == /\ TypeOK
       /\ \A f \in Flows : FlowInv(f)
       /\ StateIsOfThisFlow /\ RefusalIsTold

\* StateIsOfThisFlow and RefusalIsTold, of one flow.
StateOf(f) ==
  told[f] # Nil /\ told[f].value # Nil =>
    LET authorization == told[f].value.authorization
        token         == told[f].value.token
        idToken       == token.idToken
    IN  /\ authorization.request = request[f]
        /\ authorization.state = request[f].state
        /\ token = Nil <=> request[f].responseType # "code"
        /\ token # Nil /\ idToken # Nil =>
             /\ idToken.issuer = configuration[f].issuer
             /\ client[f] # Nil
             /\ client[f] \in idToken.audience \/ client[f] = idToken.azp
             /\ checkedAt[f] <= idToken.expiresAt
             /\ idToken.issuedAt \in checkedAt[f] - IATMaxSkew .. checkedAt[f] + IATMaxSkew
             /\ request[f].nonce # Nil => idToken.nonce = f

ErrorOf(f) ==
  told[f] # Nil =>
    LET error == told[f].error
    IN  /\ refused[f] # Nil => error # Nil
        /\ error # Nil =>
             IF refused[f] # Nil /\ IsRefusal(refused[f])
             THEN error = Error(refused[f].domain, CodeOf(refused[f].name))
             ELSE \/ error.domain = GeneralDomain
                  \/ error = Error(AuthorizationDomain, "ClientError")

LEMMA ByFlow ==
  /\ StateIsOfThisFlow <=> \A f \in Flows : StateOf(f)
  /\ RefusalIsTold <=> \A f \in Flows : ErrorOf(f)
<1>1. StateIsOfThisFlow <=> \A f \in Flows : StateOf(f)
  BY Zenon DEF StateIsOfThisFlow, StateOf
<1>2. RefusalIsTold <=> \A f \in Flows : ErrorOf(f)
  BY Zenon DEF RefusalIsTold, ErrorOf
<1> QED BY <1>1, <1>2

LEMMA ByFlowNext ==
  /\ StateIsOfThisFlow' <=> \A f \in Flows : StateOf(f)'
  /\ RefusalIsTold' <=> \A f \in Flows : ErrorOf(f)'
<1>1. StateIsOfThisFlow' <=> \A f \in Flows : StateOf(f)'
  BY Zenon DEF StateIsOfThisFlow, StateOf
<1>2. RefusalIsTold' <=> \A f \in Flows : ErrorOf(f)'
  BY Zenon DEF RefusalIsTold, ErrorOf
<1> QED BY <1>1, <1>2

Same(g) ==
  /\ stage'[g] = stage[g] /\ client'[g] = client[g]
  /\ configuration'[g] = configuration[g] /\ request'[g] = request[g]
  /\ response'[g] = response[g] /\ block'[g] = block[g] /\ told'[g] = told[g]
  /\ refused'[g] = refused[g] /\ checkedAt'[g] = checkedAt[g]

LEMMA SameHolds ==
  ASSUME NEW g \in Flows, Same(g), FlowInv(g), StateOf(g), ErrorOf(g)
  PROVE  FlowInv(g)' /\ StateOf(g)' /\ ErrorOf(g)'
<1>1. FlowInv(g)'
  BY DEF FlowInv, Same, Own, Redeems, Brings, TellsRefusal
<1>2. StateOf(g)'
  BY DEF StateOf, Same
<1>3. ErrorOf(g)'
  BY DEF ErrorOf, Same
<1> QED BY <1>1, <1>2, <1>3

\* The functions of the flows, typed but for what is under way.
Typed ==
  /\ now \in 0 .. MaxTime
  /\ stage \in [Flows -> Stages]
  /\ client \in [Flows -> Clients \cup {Nil}]
  /\ configuration \in [Flows -> Configurations \cup {Nil}]
  /\ request \in [Flows -> AuthorizationRequests \cup {Nil}]
  /\ response \in [Flows -> AuthorizationResponses \cup {Nil}]
  /\ DOMAIN block = Flows
  /\ told \in [Flows -> OptionalResults(AuthStates)]
  /\ refused \in [Flows -> ErrorResponses \cup {Nil}]
  /\ checkedAt \in [Flows -> 0 .. MaxTime \cup {Nil}]
  /\ raised \in BOOLEAN

BlockTyped(f) ==
  IF stage[f] \in Waiting THEN block[f] \in OptionalResults(Values(stage[f]))
                          ELSE block[f] = Nil

\* A step of one flow, that keeps the invariant of that flow.
LEMMA OneFlow ==
  ASSUME Inv, NEW f \in Flows, Typed', BlockTyped(f)',
         \A g \in Flows \ {f} : Same(g),
         FlowInv(f)', StateOf(f)', ErrorOf(f)'
  PROVE  Inv'
<1>1. ASSUME NEW g \in Flows
      PROVE  FlowInv(g)' /\ StateOf(g)' /\ ErrorOf(g)' /\ BlockTyped(g)'
  <2>1. CASE g = f
    BY <2>1
  <2>2. CASE g # f
    <3>1. FlowInv(g) /\ StateOf(g) /\ ErrorOf(g) /\ BlockTyped(g)
      BY ByFlow DEF Inv, TypeOK, BlockTyped
    <3>2. Same(g)
      BY <2>2
    <3>3. BlockTyped(g)'
      BY <3>1, <3>2 DEF BlockTyped, Same
    <3> QED BY <3>1, <3>2, <3>3, SameHolds
  <2> QED BY <2>1, <2>2
<1>2. TypeOK'
  BY <1>1 DEF Typed, TypeOK, BlockTyped
<1> QED BY <1>1, <1>2, ByFlowNext DEF Inv

LEMMA InvTyped ==
  ASSUME Inv
  PROVE  /\ Typed
         /\ \A f \in Flows : BlockTyped(f) /\ FlowInv(f) /\ StateOf(f) /\ ErrorOf(f)
  BY ByFlow DEF Inv, TypeOK, Typed, BlockTyped

-----------------------------------------------------------------------------
(* The end of a flow. *)

\* The app is called back with result; r is the error response of a server.
LEMMA Ends ==
  ASSUME Inv, NEW f \in Flows, NEW result \in Results(AuthStates), Tell(f, result),
         block'[f] = Nil, DOMAIN block' = Flows, \A g \in Flows \ {f} : block'[g] = block[g],
         UNCHANGED <<now, messages, checkedAt, raised>>,
         NEW r \in ErrorResponses \cup {Nil}, refused' = [refused EXCEPT ![f] = r],
         StateOf(f)', ErrorOf(f)'
  PROVE  Inv'
<1> USE InvTyped DEF Typed
<1>1. Typed'
  BY DEF Tell, Enter, Stages, messages, OptionalResults
<1>2. stage'[f] = "over"
  BY DEF Tell, Enter
<1>3. BlockTyped(f)' /\ FlowInv(f)'
  BY <1>2 DEF BlockTyped, Waiting, FlowInv, Brings
<1>4. \A g \in Flows \ {f} : Same(g)
  BY DEF Tell, Enter, Same, messages
<1> QED BY <1>1, <1>3, <1>4, OneFlow

LEMMA Fails ==
  ASSUME Inv, NEW f \in Flows, NEW e \in Errors, Tell(f, Failure(e)),
         block'[f] = Nil, DOMAIN block' = Flows, \A g \in Flows \ {f} : block'[g] = block[g],
         UNCHANGED <<now, messages, checkedAt, raised>>,
         NEW r \in ErrorResponses \cup {Nil}, refused' = [refused EXCEPT ![f] = r],
         Says(e, r) \/ (r = Nil /\ e = Error(AuthorizationDomain, "ClientError"))
  PROVE  Inv'
<1>1. told'[f] = Failure(e) /\ refused'[f] = r
  BY InvTyped DEF Tell, Typed
<1>2. Failure(e) \in Results(AuthStates) /\ Failure(e).value = Nil /\ Failure(e).error = e
  BY FailureTyped
<1>3. StateOf(f)'
  BY <1>1, <1>2 DEF StateOf
<1>4. ErrorOf(f)'
  BY <1>1, <1>2, NilIsNoError DEF ErrorOf, Says
<1> QED BY <1>2, <1>3, <1>4, Ends

LEMMA RequestFailsKeeps ==
  ASSUME Inv, NEW f \in Flows, RequestFails(f)
  PROVE  Inv'
<1> USE InvTyped DEF Typed
<1>1. PICK s \in Waiting : /\ Runs(f, s) /\ block[f].error # Nil
                           /\ Tell(f, Failure(block[f].error))
                           /\ UNCHANGED <<messages, raised>>
  BY DEF RequestFails
<1> DEFINE e == block[f].error
<1>2. stage[f] = s /\ block[f] # Nil /\ block[f] \in Results(Values(s))
  BY <1>1 DEF Runs, BlockTyped, OptionalResults
<1>3. e \in Errors
  BY <1>1, <1>2, ResultsSplit
<1>4. TellsRefusal(f)
  BY <1>2 DEF FlowInv, Waiting
<1>5. /\ block'[f] = Nil /\ DOMAIN block' = Flows
      /\ \A g \in Flows \ {f} : block'[g] = block[g]
  BY <1>1 DEF Runs
<1> DEFINE r == refused[f]
<1>6. refused' = [refused EXCEPT ![f] = r] /\ r \in ErrorResponses \cup {Nil}
  BY <1>1 DEF Runs, history
<1>7. Says(e, r)
  BY <1>2, <1>4 DEF TellsRefusal
<1>8. Tell(f, Failure(e)) /\ UNCHANGED <<now, messages, checkedAt, raised>>
  BY <1>1 DEF Runs, history
<1> HIDE DEF e, r
<1> QED BY <1>3, <1>5, <1>6, <1>7, <1>8, Fails

\* Until it is over, a flow that waits for its session has nothing to be told.
LEMMA Undisturbed ==
  ASSUME Inv, NEW f \in Flows, stage[f] = "authorizing"
  PROVE  /\ block[f] = Nil /\ told[f] = Nil /\ refused[f] = Nil /\ Own(f)
         /\ request[f].state \in Flows \cup {Nil}
         /\ request[f].responseType \in ResponseTypes
  BY InvTyped DEF BlockTyped, Waiting, FlowInv, TellsRefusal, Own, AuthorizationRequests

LEMMA SessionFailsKeeps ==
  ASSUME Inv, NEW f \in Flows, SessionFails(f)
  PROVE  Inv'
<1> USE InvTyped DEF Typed
<1>1. PICK code \in ErrorCodes :
        /\ stage[f] = "authorizing" /\ Tell(f, Failure(ErrorWithCode(code)))
        /\ UNCHANGED <<now, messages, block, history, raised>>
  BY DEF SessionFails, ErrorCodes
<1>2. ErrorWithCode(code) \in Errors /\ ErrorWithCode(code).domain = GeneralDomain
  BY FixedErrors
<1>3. refused' = [refused EXCEPT ![f] = Nil] /\ block'[f] = Nil
  BY <1>1, Undisturbed DEF history
<1> DEFINE e == ErrorWithCode(code)
<1>4. Says(e, Nil)
  BY <1>2, NilIsNoError DEF Says
<1>5. Tell(f, Failure(e)) /\ DOMAIN block' = Flows
      /\ \A g \in Flows \ {f} : block'[g] = block[g]
  BY <1>1
<1>6. e \in Errors
  BY <1>2
<1> HIDE DEF e
<1> QED BY <1>1, <1>3, <1>4, <1>5, <1>6, Fails DEF history

LEMMA SessionRefusedKeeps ==
  ASSUME Inv, NEW f \in Flows, SessionRefused(f)
  PROVE  Inv'
<1> USE InvTyped DEF Typed
<1>1. stage[f] = "authorizing" /\ UNCHANGED <<now, messages, block, checkedAt, raised>>
  BY DEF SessionRefused, IsShown
<1>2. block'[f] = Nil /\ refused[f] = Nil
  BY <1>1, Undisturbed
<1>3. ASSUME NEW name \in ErrorMembers,
             Tell(f, Failure(OAuthErrorWithDomain(AuthorizationDomain, name))),
             NoteError(f, AuthorizationDomain, Nil, name)
      PROVE  Inv'
  <2> DEFINE e == OAuthErrorWithDomain(AuthorizationDomain, name)
  <2>1. e \in Errors /\ AuthorizationDomain \in OAuthDomains
    BY OAuthErrorsTyped DEF OAuthDomains
  <2>2. PICK r \in ErrorResponses \cup {Nil} :
          refused' = [refused EXCEPT ![f] = r] /\ Says(e, r)
    <3>1. CASE name = NotAString
      <4>1. refused' = [refused EXCEPT ![f] = Nil]
        BY <1>2, <1>3, <3>1, ErrorNamesAssumption DEF NoteError
      <4>2. e.domain = GeneralDomain
        BY <2>1, <3>1, OAuthErrorsTyped
      <4> QED BY <2>1, <4>1, <4>2, NilIsNoError DEF Says
    <3>2. CASE name # NotAString
      <4> DEFINE r == [domain |-> AuthorizationDomain, status |-> Nil, name |-> name]
      <4>1. name \in ErrorNames
        BY <3>2 DEF ErrorMembers
      <4>2. r \in ErrorResponses /\ r # Nil
        BY <2>1, <4>1, NilIsNoMessage DEF ErrorResponses
      <4>3. refused' = [refused EXCEPT ![f] = r]
        BY <1>3, <4>1 DEF NoteError
      <4>4. e = Error(r.domain, CodeOf(r.name))
        BY <2>1, <3>2, OAuthErrorsTyped, LooksUp
      <4>5. IsRefusal(r)
        BY DEF IsRefusal
      <4>6. e # Nil
        BY <2>1, NilIsNoError
      <4> HIDE DEF r, e
      <4>7. Says(e, r)
        BY <4>2, <4>4, <4>5, <4>6 DEF Says
      <4> QED BY <4>2, <4>3, <4>7
    <3> QED BY <3>1, <3>2
  <2>3. Tell(f, Failure(e)) /\ DOMAIN block' = Flows
        /\ \A g \in Flows \ {f} : block'[g] = block[g]
    BY <1>1, <1>3
  <2> HIDE DEF e
  <2> QED BY <1>1, <1>2, <2>1, <2>2, <2>3, Fails
<1>4. ASSUME Tell(f, Failure(Error(AuthorizationDomain, "ClientError"))), UNCHANGED refused
      PROVE  Inv'
  <2>1. refused' = [refused EXCEPT ![f] = Nil]
    BY <1>2, <1>4
  <2> QED BY <1>1, <1>2, <1>4, <2>1, FixedErrors, Fails
<1> QED BY <1>3, <1>4 DEF SessionRefused

\* A flow that ends well.
LEMMA Succeeds ==
  ASSUME Inv, NEW f \in Flows, NEW v \in AuthStates, Tell(f, Success(v)),
         stage[f] # "over", Own(f), refused[f] = Nil,
         block'[f] = Nil, DOMAIN block' = Flows, \A g \in Flows \ {f} : block'[g] = block[g],
         UNCHANGED <<now, messages, history, raised>>,
         v.authorization.request = request[f], v.authorization.state = request[f].state,
         v.token = Nil <=> request[f].responseType # "code",
         v.token # Nil =>
           /\ v.token.request = TokenExchangeRequest(v.authorization)
           /\ Valid(v.token, v.token.request, v.authorization, checkedAt[f])
           /\ checkedAt[f] \in 0 .. MaxTime
  PROVE  Inv'
<1> USE InvTyped DEF Typed
<1>1. told'[f] = Success(v) /\ refused'[f] = Nil /\ refused' = [refused EXCEPT ![f] = Nil]
  BY DEF Tell, history
<1>2. Success(v) \in Results(AuthStates) /\ Success(v).value = v /\ Success(v).error = Nil
  BY SuccessTyped
<1>3. UNCHANGED <<request, configuration, client, checkedAt>>
  BY DEF messages, history
<1>4. ASSUME v.token # Nil, v.token.idToken # Nil
      PROVE  LET idToken == v.token.idToken
             IN  /\ idToken.issuer = configuration[f].issuer
                 /\ client[f] # Nil
                 /\ client[f] \in idToken.audience \/ client[f] = idToken.azp
                 /\ checkedAt[f] <= idToken.expiresAt
                 /\ idToken.issuedAt \in checkedAt[f] - IATMaxSkew .. checkedAt[f] + IATMaxSkew
                 /\ request[f].nonce # Nil => idToken.nonce = f
  <2> DEFINE t == v.token.idToken
             q == TokenExchangeRequest(v.authorization)
  <2>1. /\ q.configuration = configuration[f] /\ q.clientID = client[f]
        /\ q.grantType = "authorization_code"
    BY DEF TokenExchangeRequest, Own
  <2>2. IsIDToken(t) /\ PassesValidation(t, q, v.authorization, checkedAt[f])
    BY <1>4 DEF Valid
  <2>3. t.issuer = configuration[f].issuer
    BY <2>1, <2>2, NilAssumption DEF PassesValidation, IsIssuedBy, Own
  <2>4. client[f] # Nil /\ (client[f] \in t.audience \/ client[f] = t.azp)
    BY <2>1, <2>2 DEF PassesValidation, IsFor
  <2>5. /\ checkedAt[f] <= t.expiresAt
        /\ t.issuedAt \in checkedAt[f] - IATMaxSkew .. checkedAt[f] + IATMaxSkew
    <3>1. t \in Claims
      <4>1. v.token \in TokenResponses
        BY <1>4 DEF AuthStates
      <4> QED BY <1>4, <4>1 DEF TokenResponses
    <3>2. t.expiresAt \in Int /\ t.issuedAt \in Int /\ IATMaxSkew \in Int
      <4>1. t.expiresAt \in Times \cup {Nil} /\ t.issuedAt \in Times \cup {Nil}
        BY <3>1 DEF Claims
      <4>2. t.expiresAt # Nil /\ t.issuedAt # Nil
        BY <2>2 DEF IsIDToken
      <4>3. \A x \in Times \cup {Nil} : x # Nil => x \in Int
        BY TimesAssumption
      <4>4. IATMaxSkew \in Int
        BY TimesAssumption
      <4> QED BY <4>1, <4>2, <4>3, <4>4
    <3>3. checkedAt[f] \in Int
      BY <1>4, MaxTimeAssumption
    <3>4. IsCurrent(t, checkedAt[f])
      BY <2>2 DEF PassesValidation
    <3>5. /\ t.expiresAt >= checkedAt[f]
          /\ t.issuedAt - checkedAt[f] <= IATMaxSkew /\ checkedAt[f] - t.issuedAt <= IATMaxSkew
      BY <3>4 DEF IsCurrent
    <3> HIDE DEF t
    <3> QED BY <3>2, <3>3, <3>5
  <2>6. request[f].nonce # Nil => t.nonce = f
    <3>1. v.authorization # Nil
      BY NilIsNoMessage DEF AuthStates
    <3>2. v.authorization.request.nonce \in {Nil, t.nonce}
      BY <2>1, <2>2, <3>1 DEF PassesValidation, AnswersNonce
    <3> QED BY <3>2 DEF Own
  <2> QED BY <2>3, <2>4, <2>5, <2>6
<1>5. StateOf(f)'
  BY <1>1, <1>2, <1>3, <1>4 DEF StateOf
<1>6. ErrorOf(f)'
  BY <1>1, <1>2 DEF ErrorOf
<1> QED BY <1>1, <1>2, <1>5, <1>6, Ends DEF history

LEMMA SessionDeliversKeeps ==
  ASSUME Inv, NEW f \in Flows, SessionDelivers(f)
  PROVE  Inv'
<1>1. PICK code \in BOOLEAN :
        /\ stage[f] = "authorizing" /\ request[f].responseType # "code"
        /\ Tell(f, Success([authorization |-> Answer(f, code), token |-> Nil]))
        /\ UNCHANGED <<now, messages, block, history, raised>>
  BY DEF SessionDelivers, IsShown
<1> DEFINE v == [authorization |-> Answer(f, code), token |-> Nil]
<1>2. Own(f) /\ block[f] = Nil /\ refused[f] = Nil /\ request[f].state \in Flows \cup {Nil}
  BY <1>1, Undisturbed
<1>3. v \in AuthStates
  BY <1>2 DEF AuthStates, Answer, AuthorizationResponses, Own
<1>4. v.authorization.request = request[f] /\ v.authorization.state = request[f].state
  BY DEF Answer
<1>5. v.token = Nil
  OBVIOUS
<1>6. DOMAIN block' = Flows /\ block' = block /\ Tell(f, Success(v))
  BY <1>1, InvTyped DEF Typed
<1> HIDE DEF v
<1> QED BY <1>1, <1>2, <1>3, <1>4, <1>5, <1>6, Succeeds

\* The block of a request that succeeded has run: the flow goes on.
LEMMA Ran ==
  ASSUME Inv, NEW f \in Flows, NEW s \in Waiting, Runs(f, s), block[f].error = Nil
  PROVE  /\ block[f].value \in Values(s) /\ refused[f] = Nil
         /\ s = "discovering" => block[f].value.issuer \in Issuers
         /\ s = "registering" =>
              configuration[f] \in Configurations /\ configuration[f].issuer \in Issuers
         /\ stage[f] = s /\ told[f] = Nil
         /\ block' = [block EXCEPT ![f] = Nil]
         /\ UNCHANGED <<now, refused, checkedAt>>
<1> USE InvTyped DEF Typed
<1>1. /\ stage[f] = s /\ block[f] # Nil /\ block' = [block EXCEPT ![f] = Nil]
      /\ UNCHANGED <<now, refused, checkedAt>>
  BY DEF Runs, history
<1>2. block[f] \in Results(Values(s))
  BY <1>1 DEF BlockTyped, OptionalResults
<1>3. block[f].value \in Values(s)
  BY <1>2, ResultsSplit
<1>4. FlowInv(f) /\ stage[f] # "over"
  BY <1>1 DEF Waiting
<1>6. refused[f] = Nil
  BY <1>1, <1>4 DEF FlowInv, TellsRefusal, Says
<1> QED BY <1>1, <1>3, <1>4, <1>6 DEF FlowInv, Brings

LEMMA AuthStateDeliveredKeeps ==
  ASSUME Inv, NEW f \in Flows, AuthStateDelivered(f)
  PROVE  Inv'
<1> USE InvTyped DEF Typed
<1> DEFINE v == [authorization |-> response[f], token |-> block[f].value]
<1>1. /\ stage[f] = "redeeming" /\ block[f] # Nil /\ block[f].error = Nil
      /\ Tell(f, Success(v)) /\ UNCHANGED <<now, messages, history, raised>>
      /\ block' = [block EXCEPT ![f] = Nil]
  BY DEF AuthStateDelivered, Runs
<1>2. block[f] \in Results(TokenResponses)
  BY <1>1 DEF BlockTyped, Waiting, OptionalResults, Values
<1>3. block[f].value \in TokenResponses
  BY <1>1, <1>2, ResultsSplit
<1>4. Own(f) /\ Redeems(f) /\ Brings(f) /\ refused[f] = Nil
  <2>1. Runs(f, "redeeming") /\ "redeeming" \in Waiting
    BY DEF AuthStateDelivered, Waiting
  <2> QED BY <1>1, <2>1, Ran DEF FlowInv
<1>5. v \in AuthStates
  BY <1>3, <1>4 DEF AuthStates, Redeems
<1>6. /\ v.authorization.request = request[f] /\ v.authorization.state = request[f].state
      /\ v.token = Nil <=> request[f].responseType # "code"
  BY <1>3, <1>4, NilIsNoMessage DEF Redeems
<1>7. /\ v.token.request = TokenExchangeRequest(v.authorization)
      /\ Valid(v.token, v.token.request, v.authorization, checkedAt[f])
      /\ checkedAt[f] \in 0 .. MaxTime
  BY <1>1, <1>4 DEF Brings
<1>8. /\ block'[f] = Nil /\ DOMAIN block' = Flows
      /\ \A g \in Flows \ {f} : block'[g] = block[g]
  BY <1>1
<1> HIDE DEF v
<1> QED BY <1>1, <1>4, <1>5, <1>6, <1>7, <1>8, Succeeds

-----------------------------------------------------------------------------
(* The steps before the end. *)

\* A step of a flow that is not over after it.
LEMMA Continues ==
  ASSUME Inv, NEW f \in Flows, stage[f] # "over", Typed', BlockTyped(f)', FlowInv(f)',
         UNCHANGED told, \A g \in Flows \ {f} : Same(g)
  PROVE  Inv'
<1>1. told'[f] = Nil
  BY InvTyped DEF FlowInv
<1>2. StateOf(f)' /\ ErrorOf(f)'
  BY <1>1 DEF StateOf, ErrorOf
<1> QED BY <1>2, OneFlow

LEMMA BeginKeeps ==
  ASSUME Inv, NEW f \in Flows, NEW c \in Clients \cup {Nil}, Begin(f, c)
  PROVE  Inv'
<1> USE InvTyped DEF Typed
<1>1. /\ stage[f] = "idle" /\ stage' = [stage EXCEPT ![f] = "discovering"]
      /\ client' = [client EXCEPT ![f] = c]
      /\ UNCHANGED <<now, configuration, request, response, block, told, refused,
                     checkedAt, raised>>
  BY DEF Begin, Enter, history
<1>2. Typed'
  BY <1>1 DEF Stages, Waiting
<1>3. block[f] = Nil /\ told[f] = Nil /\ refused[f] = Nil
  BY <1>1 DEF BlockTyped, Waiting, FlowInv, TellsRefusal
<1>4. BlockTyped(f)' /\ FlowInv(f)'
  BY <1>1, <1>3 DEF BlockTyped, Waiting, OptionalResults, FlowInv, Brings, TellsRefusal
<1>5. \A g \in Flows \ {f} : Same(g)
  BY <1>1 DEF Same
<1> QED BY <1>1, <1>2, <1>4, <1>5, Continues

\* The result of a request arrives; r is the error response of the server.
LEMMA Arrives ==
  ASSUME Inv, NEW f \in Flows, NEW s \in Waiting, NEW result \in Results(Values(s)),
         Dispatch(f, s, result),
         NEW r \in ErrorResponses \cup {Nil}, refused' = [refused EXCEPT ![f] = r],
         Says(result.error, r),
         checkedAt' \in [Flows -> 0 .. MaxTime \cup {Nil}],
         \A g \in Flows \ {f} : checkedAt'[g] = checkedAt[g],
         Brings(f)'
  PROVE  Inv'
<1> USE InvTyped DEF Typed
<1>1. /\ stage[f] = s /\ block' = [block EXCEPT ![f] = result]
      /\ UNCHANGED <<now, stage, client, configuration, request, response, told, raised>>
  BY DEF Dispatch, messages
<1>2. Typed'
  BY <1>1
<1>3. block'[f] = result /\ refused'[f] = r /\ result # Nil
  BY <1>1, NilIsNoMessage
<1>4. BlockTyped(f)'
  BY <1>1, <1>3 DEF BlockTyped, OptionalResults
<1>5. TellsRefusal(f)'
  BY <1>3 DEF TellsRefusal
<1>6. FlowInv(f)'
  BY <1>1, <1>5 DEF FlowInv, Own, Redeems, Waiting
<1>7. \A g \in Flows \ {f} : Same(g)
  BY <1>1 DEF Same
<1>8. stage[f] # "over"
  BY <1>1 DEF Waiting
<1> QED BY <1>1, <1>2, <1>4, <1>6, <1>7, <1>8, Continues

LEMMA DiscoveryRepliedKeeps ==
  ASSUME Inv, NEW f \in Flows, DiscoveryReplied(f)
  PROVE  Inv'
<1> USE InvTyped DEF Typed
<1>1. PICK reply \in DiscoveryReplies :
        Dispatch(f, "discovering", DiscoveryResult(reply)) /\ UNCHANGED <<refused, checkedAt>>
  BY DEF DiscoveryReplied, history
<1> DEFINE result == DiscoveryResult(reply)
<1>2. /\ result \in Results(Values("discovering"))
      /\ result.error = Nil => result.value.issuer \in Issuers
      /\ result.error # Nil => result.error.domain = GeneralDomain
  BY RepliesAssumption, DiscoveryTyped DEF Values
<1> HIDE DEF result
<1>3. stage[f] = "discovering" /\ block[f] = Nil /\ stage' = stage /\ block'[f] = result
  BY <1>1 DEF Dispatch, result
<1>4. refused[f] = Nil
  BY <1>3 DEF FlowInv, TellsRefusal
<1>5. Brings(f)'
  BY <1>2, <1>3 DEF Brings
<1>6. Dispatch(f, "discovering", result) /\ "discovering" \in Waiting
  BY <1>1 DEF result, Waiting
<1>7. refused' = [refused EXCEPT ![f] = Nil]
  BY <1>1, <1>4
<1>8. Says(result.error, Nil)
  BY <1>2 DEF Says
<1> QED BY <1>1, <1>2, <1>5, <1>6, <1>7, <1>8, Arrives

\* The statuses whose error member the code reads as an error of the endpoint.
RefusalStatuses(domain) == IF domain = TokenDomain THEN ClientErrors ELSE {400}

\* The error response a reply is noted as.
NamedBy(domain, reply) ==
  IF reply.status >= 400 /\ reply.json /\ reply.error \in ErrorNames
  THEN [domain |-> domain, status |-> reply.status, name |-> reply.error] ELSE Nil

\* What NoteError notes of a reply, and what the result tells of it; a success
\* names no error.
LEMMA Noted ==
  ASSUME NEW f \in Flows, refused[f] = Nil, NEW domain \in OAuthDomains,
         NEW reply, reply.status \in {0} \cup 200 .. 599, reply.json \in BOOLEAN,
         reply.error \in ErrorMembers \cup {Nil},
         NEW result, result.error = Nil => reply.status \in {200, 201},
         Tells(result, RefusesWith(reply, RefusalStatuses(domain)), domain, reply.error),
         NoteError(f, domain, reply.status, ErrorNamedBy(reply))
  PROVE  /\ NamedBy(domain, reply) \in ErrorResponses \cup {Nil}
         /\ refused' = [refused EXCEPT ![f] = NamedBy(domain, reply)]
         /\ Says(result.error, NamedBy(domain, reply))
<1> DEFINE statuses == RefusalStatuses(domain)
           r        == NamedBy(domain, reply)
           named    == reply.status >= 400 /\ reply.json /\ reply.error \in ErrorNames
<1>1. CASE named
  <2>1. r = [domain |-> domain, status |-> reply.status, name |-> reply.error]
    BY <1>1 DEF NamedBy
  <2>2. reply.status \in 400 .. 599
    BY <1>1
  <2>3. r \in ErrorResponses /\ r # Nil
    BY <1>1, <2>1, <2>2, NilIsNoMessage DEF ErrorResponses
  <2>4. refused' = [refused EXCEPT ![f] = r]
    BY <1>1, <2>1 DEF NoteError, ErrorNamedBy
  <2>5. RefusesWith(reply, statuses) <=> reply.status \in statuses
    BY <1>1, ErrorNamesAssumption DEF RefusesWith, ErrorMembers
  <2>6. IsRefusal(r) <=> reply.status \in statuses
    <3>1. IsRefusal(r) <=>
            reply.status = 400 \/ (domain = TokenDomain /\ reply.status \in 400 .. 499)
      BY <2>1, <2>2, NilIsNoMessage DEF IsRefusal
    <3> QED BY <2>2, <3>1 DEF RefusalStatuses, ClientErrors
  <2>7. result.error # Nil
    BY <1>1
  <2>8. /\ IsRefusal(r) => result.error = Error(r.domain, CodeOf(r.name))
        /\ ~ IsRefusal(r) => result.error.domain = GeneralDomain
    BY <2>1, <2>5, <2>6, <2>7 DEF Tells
  <2> HIDE DEF r, statuses, named
  <2>9. Says(result.error, r)
    BY <2>3, <2>7, <2>8 DEF Says
  <2> QED BY <2>3, <2>4, <2>9 DEF r
<1>2. CASE ~ named
  <2>1. r = Nil
    BY <1>2 DEF NamedBy
  <2>2. refused' = [refused EXCEPT ![f] = Nil]
    <3>1. ErrorNamedBy(reply) \notin ErrorNames
      BY <1>2, ErrorNamesAssumption DEF ErrorNamedBy, ErrorMembers
    <3>2. refused' = [refused EXCEPT ![f] = refused[f]]
      BY <3>1 DEF NoteError
    <3> QED BY <3>2
  <2>3. ~ RefusesWith(reply, statuses)
    <3>1. ASSUME RefusesWith(reply, statuses)  PROVE  named
      BY <3>1 DEF RefusesWith, ErrorMembers, RefusalStatuses, ClientErrors
    <3> QED BY <1>2, <3>1
  <2>4. Says(result.error, Nil)
    BY <2>3 DEF Says, Tells
  <2> QED BY <2>1, <2>2, <2>4
<1> QED BY <1>1, <1>2

LEMMA RegistrationRepliedKeeps ==
  ASSUME Inv, NEW f \in Flows, RegistrationReplied(f)
  PROVE  Inv'
<1> USE InvTyped DEF Typed
<1>1. PICK reply \in RegistrationReplies :
        /\ Dispatch(f, "registering", RegistrationResult(reply))
        /\ NoteError(f, RegistrationDomain, reply.status, ErrorNamedBy(reply))
        /\ UNCHANGED checkedAt
  BY DEF RegistrationReplied
<1> DEFINE result == RegistrationResult(reply)
<1>2. reply \in RepliesWith(RegistrationParameters)
  BY RepliesAssumption
<1>3. /\ result \in Results(Values("registering"))
      /\ Tells(result, RefusesWith(reply, {400}), RegistrationDomain, reply.error)
  BY <1>2, RegistrationTyped DEF Values
<1>4. result.error = Nil => reply.status \in {200, 201}
  BY <1>2, RegistrationTyped
<1> HIDE DEF result
<1>5. /\ stage[f] = "registering" /\ block[f] = Nil /\ stage' = stage
      /\ Dispatch(f, "registering", result) /\ "registering" \in Waiting
  BY <1>1 DEF Dispatch, result, Waiting
<1>6. refused[f] = Nil
  BY <1>5 DEF FlowInv, TellsRefusal
<1>7. RegistrationDomain \in OAuthDomains
  BY DEF OAuthDomains
<1> DEFINE r == NamedBy(RegistrationDomain, reply)
<1>8. /\ r \in ErrorResponses \cup {Nil}
      /\ refused' = [refused EXCEPT ![f] = r] /\ Says(result.error, r)
  <2>1. RefusalStatuses(RegistrationDomain) = {400}
    BY DEF RefusalStatuses, RegistrationDomain, TokenDomain
  <2>2. /\ reply.status \in {0} \cup 200 .. 599 /\ reply.json \in BOOLEAN
        /\ reply.error \in ErrorMembers \cup {Nil}
    BY <1>2 DEF RepliesWith
  <2>3. Tells(result, RefusesWith(reply, RefusalStatuses(RegistrationDomain)),
              RegistrationDomain, reply.error)
    BY <1>3, <2>1
  <2>4. NoteError(f, RegistrationDomain, reply.status, ErrorNamedBy(reply))
    BY <1>1
  <2> HIDE InvTyped DEF Typed
  <2> QED BY <1>4, <1>6, <1>7, <2>2, <2>3, <2>4, Noted, SMTT(30)
<1> HIDE DEF r
<1>9. Brings(f)'
  BY <1>5 DEF Brings
<1> QED BY <1>1, <1>3, <1>5, <1>8, <1>9, Arrives

LEMMA TokenRepliedKeeps ==
  ASSUME Inv, NEW f \in Flows, TokenReplied(f)
  PROVE  Inv'
<1> USE InvTyped DEF Typed
<1> DEFINE q == TokenExchangeRequest(response[f])
<1>1. PICK reply \in TokenReplies :
        /\ Dispatch(f, "redeeming", TokenResult(q, response[f], reply, now))
        /\ NoteError(f, TokenDomain, reply.status, ErrorNamedBy(reply))
        /\ checkedAt' = [checkedAt EXCEPT ![f] = now]
  BY DEF TokenReplied
<1> DEFINE result == TokenResult(q, response[f], reply, now)
<1>2. reply \in RepliesWith(Claims \cup {Nil})
  BY RepliesAssumption
<1>3. /\ stage[f] = "redeeming" /\ block[f] = Nil /\ UNCHANGED <<stage, response>>
      /\ block'[f] = result
      /\ Dispatch(f, "redeeming", result) /\ "redeeming" \in Waiting
  BY <1>1 DEF Dispatch, Waiting, messages
<1>4. refused[f] = Nil /\ Own(f) /\ Redeems(f)
  BY <1>3 DEF FlowInv, TellsRefusal
<1>5. q \in TokenRequests
  BY <1>4 DEF TokenExchangeRequest, TokenRequests, Redeems, AuthorizationResponses,
              AuthorizationRequests
<1>6. /\ result \in Results(Values("redeeming"))
      /\ Tells(result, RefusesWith(reply, ClientErrors), TokenDomain, reply.error)
      /\ result.error = Nil => /\ reply.status \in {200, 201}
                               /\ result.value.request = q
                               /\ Valid(result.value, q, response[f], now)
  <2>1. Values("redeeming") = TokenResponses
    BY DEF Values
  <2> HIDE InvTyped DEF Typed, q
  <2>2. /\ result \in Results(TokenResponses)
        /\ Tells(result, RefusesWith(reply, ClientErrors), TokenDomain, reply.error)
        /\ result.error = Nil => /\ reply.status \in {200, 201}
                                 /\ result.value.request = q
                                 /\ Valid(result.value, q, response[f], now)
    BY <1>2, <1>5, TokenTyped
  <2> QED BY <2>1, <2>2
<1>7. result.error = Nil => reply.status \in {200, 201}
  BY <1>6
<1>8. TokenDomain \in OAuthDomains
  BY DEF OAuthDomains
<1> HIDE DEF result
<1> DEFINE r == NamedBy(TokenDomain, reply)
<1>9. /\ r \in ErrorResponses \cup {Nil}
      /\ refused' = [refused EXCEPT ![f] = r] /\ Says(result.error, r)
  <2>1. RefusalStatuses(TokenDomain) = ClientErrors
    BY DEF RefusalStatuses
  <2>2. /\ reply.status \in {0} \cup 200 .. 599 /\ reply.json \in BOOLEAN
        /\ reply.error \in ErrorMembers \cup {Nil}
    BY <1>2 DEF RepliesWith
  <2>3. Tells(result, RefusesWith(reply, RefusalStatuses(TokenDomain)),
              TokenDomain, reply.error)
    BY <1>6, <2>1
  <2>4. NoteError(f, TokenDomain, reply.status, ErrorNamedBy(reply))
    BY <1>1
  <2> HIDE InvTyped DEF Typed, q
  <2> QED BY <1>4, <1>7, <1>8, <2>2, <2>3, <2>4, Noted, SMTT(30)
<1> HIDE DEF r
<1>10. /\ checkedAt'[f] = now /\ checkedAt' \in [Flows -> 0 .. MaxTime \cup {Nil}]
       /\ \A g \in Flows \ {f} : checkedAt'[g] = checkedAt[g]
  BY <1>1
<1>11. Brings(f)'
  <2>1. stage'[f] = "redeeming" /\ response'[f] = response[f]
    BY <1>3
  <2>2. result.error = Nil =>
          /\ result.value.request = TokenExchangeRequest(response'[f])
          /\ Valid(result.value, TokenExchangeRequest(response'[f]), response'[f], now)
    BY <1>6, <2>1
  <2> QED BY <1>3, <1>10, <2>1, <2>2 DEF Brings, Valid
<1>12. result \in Results(Values("redeeming"))
  BY <1>6
<1>13. Dispatch(f, "redeeming", result) /\ "redeeming" \in Waiting
  BY <1>3
<1> HIDE InvTyped DEF Typed, q
<1> QED BY <1>9, <1>10, <1>11, <1>12, <1>13, Arrives, Zenon

LEMMA RegisterKeeps ==
  ASSUME Inv, NEW f \in Flows, Register(f)
  PROVE  Inv'
<1> USE InvTyped DEF Typed
<1>1. Runs(f, "discovering") /\ block[f].error = Nil /\ "discovering" \in Waiting
  BY DEF Register, Waiting
<1>2. block[f].value \in Configurations /\ block[f].value.issuer \in Issuers
  BY <1>1, Ran DEF Values
<1>3. /\ stage[f] = "discovering" /\ told[f] = Nil /\ refused[f] = Nil
      /\ stage' = [stage EXCEPT ![f] = "registering"]
      /\ configuration' = [configuration EXCEPT ![f] = block[f].value]
      /\ block' = [block EXCEPT ![f] = Nil]
      /\ UNCHANGED <<now, client, request, response, told, refused, checkedAt, raised>>
  BY <1>1, Ran DEF Register, Enter
<1>4. Typed'
  BY <1>2, <1>3 DEF Stages, Waiting
<1>5. BlockTyped(f)' /\ FlowInv(f)'
  BY <1>2, <1>3 DEF BlockTyped, Waiting, OptionalResults, FlowInv, Brings, TellsRefusal
<1>6. \A g \in Flows \ {f} : Same(g)
  BY <1>3 DEF Same
<1> QED BY <1>3, <1>4, <1>5, <1>6, Continues

\* An authorization request is presented.
LEMMA Presents ==
  ASSUME Inv, NEW f \in Flows, NEW s \in Waiting, Runs(f, s), block[f].error = Nil,
         NEW c \in Clients \cup {Nil}, NEW conf \in Configurations, conf.issuer \in Issuers,
         Present(f, c, conf), client' = [client EXCEPT ![f] = c],
         configuration' = [configuration EXCEPT ![f] = conf]
  PROVE  Inv'
<1> USE InvTyped DEF Typed
<1>1. /\ stage[f] = s /\ told[f] = Nil /\ refused[f] = Nil
      /\ block' = [block EXCEPT ![f] = Nil] /\ UNCHANGED <<now, refused, checkedAt>>
  BY Ran
<1>2. PICK responseType \in ResponseTypes, generated \in BOOLEAN :
        /\ request' = [request EXCEPT ![f] =
             AuthorizationRequest(f, conf, c, responseType, generated)]
        /\ stage' = [stage EXCEPT ![f] = "authorizing"]
        /\ UNCHANGED <<response, told, raised>>
  BY DEF Present, Enter
<1> DEFINE q == AuthorizationRequest(f, conf, c, responseType, generated)
<1>3. /\ q \in AuthorizationRequests /\ q.configuration = conf /\ q.clientID = c
      /\ q.nonce \in {Nil, f}
  BY DEF AuthorizationRequest, AuthorizationRequests
<1> HIDE DEF q
<1>4. request' = [request EXCEPT ![f] = q]
  BY <1>2 DEF q
<1>5. Typed'
  BY <1>1, <1>2, <1>3, <1>4 DEF Stages
<1>6. Own(f)'
  BY <1>3, <1>4 DEF Own
<1>7. BlockTyped(f)' /\ FlowInv(f)'
  BY <1>1, <1>2, <1>6 DEF BlockTyped, Waiting, FlowInv, Brings, TellsRefusal
<1>8. \A g \in Flows \ {f} : Same(g)
  BY <1>1, <1>2, <1>4 DEF Same
<1>9. stage[f] # "over"
  BY <1>1 DEF Waiting
<1> QED BY <1>2, <1>5, <1>7, <1>8, <1>9, Continues

LEMMA PresentDiscoveredKeeps ==
  ASSUME Inv, NEW f \in Flows, PresentDiscovered(f)
  PROVE  Inv'
<1> USE InvTyped DEF Typed
<1>1. Runs(f, "discovering") /\ block[f].error = Nil /\ "discovering" \in Waiting
  BY DEF PresentDiscovered, Waiting
<1>2. block[f].value \in Configurations /\ block[f].value.issuer \in Issuers
  BY <1>1, Ran DEF Values
<1>3. /\ Present(f, client[f], block[f].value)
      /\ client' = [client EXCEPT ![f] = client[f]]
      /\ configuration' = [configuration EXCEPT ![f] = block[f].value]
  BY DEF PresentDiscovered
<1>4. client[f] \in Clients \cup {Nil}
  OBVIOUS
<1> QED BY <1>1, <1>2, <1>3, <1>4, Presents

LEMMA PresentRegisteredKeeps ==
  ASSUME Inv, NEW f \in Flows, PresentRegistered(f)
  PROVE  Inv'
<1> USE InvTyped DEF Typed
<1>1. Runs(f, "registering") /\ block[f].error = Nil /\ "registering" \in Waiting
  BY DEF PresentRegistered, Waiting
<1>2. /\ block[f].value \in RegistrationParameters
      /\ configuration[f] \in Configurations /\ configuration[f].issuer \in Issuers
  BY <1>1, Ran DEF Values
<1>3. block[f].value.clientID \in Clients \cup {Nil}
  BY <1>2 DEF RegistrationParameters
<1>4. /\ Present(f, block[f].value.clientID, configuration[f])
      /\ client' = [client EXCEPT ![f] = block[f].value.clientID]
      /\ configuration' = [configuration EXCEPT ![f] = configuration[f]]
  BY DEF PresentRegistered
<1> QED BY <1>1, <1>2, <1>3, <1>4, Presents

LEMMA SessionRedeemsKeeps ==
  ASSUME Inv, NEW f \in Flows, SessionRedeems(f)
  PROVE  Inv'
<1> USE InvTyped DEF Typed
<1>1. PICK code \in BOOLEAN :
        /\ stage[f] = "authorizing" /\ request[f].responseType = "code"
        /\ response' = [response EXCEPT ![f] = Answer(f, code)]
        /\ IF code THEN stage' = [stage EXCEPT ![f] = "redeeming"] /\ UNCHANGED raised
                   ELSE raised' = TRUE /\ UNCHANGED stage
        /\ UNCHANGED <<now, client, configuration, request, block, told, refused, checkedAt>>
  BY DEF SessionRedeems, IsShown, Enter, history
<1>2. /\ block[f] = Nil /\ told[f] = Nil /\ refused[f] = Nil /\ Own(f)
      /\ request[f].state \in Flows \cup {Nil}
  BY <1>1, Undisturbed
<1> DEFINE a == Answer(f, code)
<1>3. a \in AuthorizationResponses /\ a.request = request[f] /\ a.state = request[f].state
  BY <1>2 DEF Answer, AuthorizationResponses, Own
<1> HIDE DEF a
<1>4. response' = [response EXCEPT ![f] = a]
  BY <1>1 DEF a
<1>5. Typed'
  <2>1. response' \in [Flows -> AuthorizationResponses \cup {Nil}]
    BY <1>3, <1>4
  <2>2. stage' \in [Flows -> Stages] /\ raised' \in BOOLEAN
    <3>1. CASE code
      BY <1>1, <3>1 DEF Stages, Waiting
    <3>2. CASE ~ code
      BY <1>1, <3>2
    <3> QED BY <3>1, <3>2
  <2>3. UNCHANGED <<now, client, configuration, request, block, told, refused, checkedAt>>
    BY <1>1
  <2> QED BY <2>1, <2>2, <2>3
<1>6. stage'[f] \in {"authorizing", "redeeming"}
  BY <1>1
<1>7. Own(f)'
  BY <1>1, <1>2 DEF Own
<1>8. Redeems(f)'
  BY <1>1, <1>3, <1>4 DEF Redeems
<1>9. BlockTyped(f)' /\ FlowInv(f)'
  BY <1>1, <1>2, <1>6, <1>7, <1>8
     DEF BlockTyped, OptionalResults, FlowInv, Brings, TellsRefusal
<1>10. \A g \in Flows \ {f} : Same(g)
  BY <1>1, <1>4 DEF Same
<1> QED BY <1>1, <1>5, <1>9, <1>10, Continues

\* Steps that touch no flow.
LEMMA Elsewhere ==
  ASSUME Inv, UNCHANGED <<stage, messages, block, told, history>>,
         now' \in 0 .. MaxTime, raised' \in BOOLEAN
  PROVE  Inv'
<1>1. UNCHANGED <<stage, client, configuration, request, response, block, told,
                  refused, checkedAt>>
  BY DEF messages, history
<1>2. TypeOK'
  BY <1>1 DEF Inv, TypeOK
<1>3. ASSUME NEW f \in Flows PROVE FlowInv(f)' /\ StateOf(f)' /\ ErrorOf(f)'
  BY <1>1, InvTyped, SameHolds DEF Same
<1> QED BY <1>2, <1>3, ByFlowNext DEF Inv

LEMMA InvInit == Init => Inv
<1> SUFFICES ASSUME Init PROVE Inv
  OBVIOUS
<1>1. TypeOK
  <2>1. Typed
    <3>1. now \in 0 .. MaxTime
      BY MaxTimeAssumption DEF Init
    <3>2. stage \in [Flows -> Stages]
      BY DEF Init, Stages
    <3>3. told \in [Flows -> OptionalResults(AuthStates)]
      BY DEF Init, OptionalResults
    <3>4. checkedAt \in [Flows -> 0 .. MaxTime \cup {Nil}]
      BY DEF Init
    <3> QED BY <3>1, <3>2, <3>3, <3>4 DEF Init, Typed
  <2>2. \A f \in Flows : BlockTyped(f)
    BY DEF Init, BlockTyped, Waiting
  <2> QED BY <2>1, <2>2 DEF Typed, BlockTyped, TypeOK
<1>2. ASSUME NEW f \in Flows PROVE FlowInv(f) /\ StateOf(f) /\ ErrorOf(f)
  <2>1. stage[f] = "idle" /\ block[f] = Nil /\ told[f] = Nil /\ refused[f] = Nil
    BY DEF Init
  <2> QED BY <2>1 DEF FlowInv, Brings, TellsRefusal, StateOf, ErrorOf
<1> QED BY <1>1, <1>2, ByFlow DEF Inv

LEMMA InvNext == Inv /\ [Next]_vars => Inv'
<1> SUFFICES ASSUME Inv, [Next]_vars PROVE Inv'
  OBVIOUS
<1>1. CASE UNCHANGED vars
  BY <1>1, Elsewhere, InvTyped DEF vars, messages, history, Typed
<1>2. CASE Tick
  <2>1. now' \in 0 .. MaxTime
    BY <1>2, InvTyped, MaxTimeAssumption DEF Tick, Typed
  <2> QED BY <1>2, <2>1, Elsewhere, InvTyped DEF Tick, Typed
<1>3. ASSUME NEW f \in Flows, NEW c \in Clients \cup {Nil}, Begin(f, c)
      PROVE  Inv'
  BY <1>3, BeginKeeps
<1>4. ASSUME NEW f \in Flows, Network(f) PROVE Inv'
  BY <1>4, DiscoveryRepliedKeeps, RegistrationRepliedKeeps, TokenRepliedKeeps DEF Network
<1>5. ASSUME NEW f \in Flows, MainQueue(f) PROVE Inv'
  BY <1>5, RequestFailsKeeps, RegisterKeeps, PresentDiscoveredKeeps,
     PresentRegisteredKeeps, AuthStateDeliveredKeeps DEF MainQueue
<1>6. ASSUME NEW f \in Flows, Session(f) PROVE Inv'
  <2>1. CASE SessionRaises(f)
    BY <2>1, Elsewhere, InvTyped DEF SessionRaises, Typed
  <2> QED BY <1>6, <2>1, SessionFailsKeeps, SessionRefusedKeeps, SessionRedeemsKeeps,
          SessionDeliversKeeps DEF Session
<1> QED BY <1>1, <1>2, <1>3, <1>4, <1>5, <1>6 DEF Next

LEMMA InvHolds == Spec => []Inv
  BY InvInit, InvNext, PTL DEF Spec

-----------------------------------------------------------------------------
(* Theorems. *)

\* The main queue is handed results of the request the flow waits for, and every
\* error has a code the library knows, whatever names the servers make up.
THEOREM FlowTyped == Spec => []TypeOK
<1>1. Inv => TypeOK
  BY DEF Inv
<1> QED BY <1>1, InvHolds, PTL

\* However many flows are under way and whatever ID tokens servers send, the
\* OIDAuthState a flow ends with is its own (OIDAuthorizationService.m:526-642).
THEOREM StatesKeepToTheirFlow == Spec => []StateIsOfThisFlow
<1>1. Inv => StateIsOfThisFlow
  BY DEF Inv
<1> QED BY <1>1, InvHolds, PTL

\* An OAuth error is told if and only if a server refused, whatever it calls its
\* errors, with the code the header gives that name for the authorization or the
\* token endpoint and Other if it gives it none there: so also registration's own
\* names (OIDAuthorizationService.m:463-494, 713-745, OIDErrorUtilities.m:63-162).
THEOREM RefusalsAreTold == Spec => []RefusalIsTold
<1>1. Inv => RefusalIsTold
  BY DEF Inv
<1> QED BY <1>1, InvHolds, PTL

-----------------------------------------------------------------------------
(* Flows advance. *)

\* How far a flow has come: its stage and, half a stage further, the result that
\* ends it.
Rank(s) ==
  CASE s = "idle" -> 0
    [] s = "discovering" -> 2
    [] s = "registering" -> 4
    [] s = "authorizing" -> 6
    [] s = "redeeming" -> 8
    [] s = "over" -> 10
Place(f) == Rank(stage[f]) + (IF block[f] = Nil THEN 0 ELSE 1)

LEMMA RankTyped == \A s \in Stages : Rank(s) \in Nat
  BY DEF Stages, Waiting, Rank

LEMMA PlaceTyped ==
  ASSUME TypeOK, NEW f \in Flows
  PROVE  Rank(stage[f]) \in Nat /\ Place(f) \in {Rank(stage[f]), Rank(stage[f]) + 1}
<1>1. stage[f] \in Stages
  BY DEF TypeOK
<1> QED BY <1>1, RankTyped DEF Place

\* What a step of flow f does: a reply brings a result, a result is taken to a
\* later stage.
Waits(f) == /\ stage'[f] = stage[f] /\ block'[f] = block[f]
            /\ told'[f] = told[f]
Hears(f) == /\ stage'[f] = stage[f] /\ block[f] = Nil /\ block'[f] # Nil
            /\ told'[f] = told[f]
Proceeds(f) == /\ Rank(stage'[f]) >= Rank(stage[f]) + 2
               /\ told[f] = Nil

LEMMA NetworkHears ==
  ASSUME Inv, NEW f \in Flows, Network(f)
  PROVE  Hears(f)
<1> USE InvTyped DEF Typed
<1>1. ASSUME NEW s \in Waiting, NEW result \in Results(Values(s)), Dispatch(f, s, result)
      PROVE  Hears(f)
  <2>1. result # Nil
    BY NilIsNoMessage
  <2> QED BY <1>1, <2>1 DEF Dispatch, Hears
<1>2. CASE DiscoveryReplied(f)
  <2>1. PICK reply \in DiscoveryReplies : Dispatch(f, "discovering", DiscoveryResult(reply))
    BY <1>2 DEF DiscoveryReplied
  <2>2. DiscoveryResult(reply) \in Results(Values("discovering"))
    BY RepliesAssumption, DiscoveryTyped DEF Values
  <2> QED BY <1>1, <2>1, <2>2 DEF Waiting
<1>3. CASE RegistrationReplied(f)
  <2>1. PICK reply \in RegistrationReplies : Dispatch(f, "registering", RegistrationResult(reply))
    BY <1>3 DEF RegistrationReplied
  <2>2. RegistrationResult(reply) \in Results(Values("registering"))
    BY RepliesAssumption, RegistrationTyped DEF Values
  <2> QED BY <1>1, <2>1, <2>2 DEF Waiting
<1>4. CASE TokenReplied(f)
  <2> DEFINE q == TokenExchangeRequest(response[f])
  <2>1. PICK reply \in TokenReplies :
          Dispatch(f, "redeeming", TokenResult(q, response[f], reply, now))
    BY <1>4 DEF TokenReplied
  <2>2. Own(f) /\ Redeems(f)
    BY <2>1 DEF Dispatch, FlowInv
  <2>3. q \in TokenRequests
    BY <2>2 DEF TokenExchangeRequest, TokenRequests, Redeems, AuthorizationResponses,
                AuthorizationRequests
  <2> HIDE InvTyped DEF Typed, q
  <2>4. Values("redeeming") = TokenResponses /\ reply \in RepliesWith(Claims \cup {Nil})
    BY RepliesAssumption DEF Values
  <2>5. TokenResult(q, response[f], reply, now) \in Results(TokenResponses)
    BY <2>3, <2>4, TokenTyped
  <2> QED BY <1>1, <2>1, <2>4, <2>5 DEF Waiting
<1> QED BY <1>2, <1>3, <1>4 DEF Network

LEMMA Proceeding ==
  ASSUME Inv, NEW f \in Flows, NEW s \in Stages, Enter(f, s),
         Rank(s) >= Rank(stage[f]) + 2
  PROVE  Proceeds(f)
<1> USE InvTyped DEF Typed
<1>1. stage'[f] = s
  BY DEF Enter
<1>2. stage[f] # "over"
  BY DEF Rank, Stages, Waiting
<1> QED BY <1>1, <1>2 DEF Proceeds, FlowInv

LEMMA MainQueueProceeds ==
  ASSUME Inv, NEW f \in Flows, MainQueue(f)
  PROVE  Proceeds(f)
<1>1. /\ Rank("discovering") = 2 /\ Rank("registering") = 4 /\ Rank("authorizing") = 6
      /\ Rank("redeeming") = 8 /\ Rank("over") = 10
  BY DEF Rank
<1>2. CASE RequestFails(f)
  <2>1. PICK s \in Waiting : stage[f] = s /\ Enter(f, "over")
    BY <1>2 DEF RequestFails, Runs, Tell
  <2> QED BY <1>1, <2>1, Proceeding DEF Waiting, Stages
<1>3. CASE Register(f)
  BY <1>1, <1>3, Proceeding DEF Register, Runs, Waiting, Stages
<1>4. CASE PresentDiscovered(f)
  BY <1>1, <1>4, Proceeding DEF PresentDiscovered, Present, Runs, Waiting, Stages
<1>5. CASE PresentRegistered(f)
  BY <1>1, <1>5, Proceeding DEF PresentRegistered, Present, Runs, Waiting, Stages
<1>6. CASE AuthStateDelivered(f)
  BY <1>1, <1>6, Proceeding DEF AuthStateDelivered, Tell, Runs, Waiting, Stages
<1> QED BY <1>2, <1>3, <1>4, <1>5, <1>6 DEF MainQueue

LEMMA SessionProceeds ==
  ASSUME Inv, NEW f \in Flows, Session(f)
  PROVE  Proceeds(f) \/ (raised' /\ Waits(f))
<1>1. Rank("authorizing") = 6 /\ Rank("redeeming") = 8 /\ Rank("over") = 10
  BY DEF Rank
<1>2. CASE SessionRaises(f)
  BY <1>2 DEF SessionRaises, Waits
<1>3. CASE SessionFails(f)
  BY <1>1, <1>3, Proceeding DEF SessionFails, Tell, Stages
<1>4. CASE SessionRefused(f)
  BY <1>1, <1>4, Proceeding DEF SessionRefused, IsShown, Tell, Stages
<1>5. CASE SessionDelivers(f)
  BY <1>1, <1>5, Proceeding DEF SessionDelivers, IsShown, Tell, Stages
<1>6. CASE SessionRedeems(f)
  <2>1. PICK code \in BOOLEAN :
          /\ stage[f] = "authorizing" /\ UNCHANGED <<block, told>>
          /\ IF code THEN Enter(f, "redeeming") ELSE raised' = TRUE /\ UNCHANGED stage
    BY <1>6 DEF SessionRedeems, IsShown
  <2>2. CASE code
    BY <1>1, <2>1, <2>2, Proceeding DEF Stages, Waiting
  <2>3. CASE ~ code
    BY <2>1, <2>3 DEF Waits
  <2> QED BY <2>2, <2>3
<1> QED BY <1>2, <1>3, <1>4, <1>5, <1>6 DEF Session

LEMMA OthersWait ==
  ASSUME Inv, NEW f \in Flows, NEW g \in Flows \ {f},
         (\E c \in Clients \cup {Nil} : Begin(f, c)) \/ Network(f) \/ MainQueue(f) \/ Session(f)
  PROVE  Waits(g)
<1> USE InvTyped DEF Typed
<1>1. CASE \E c \in Clients \cup {Nil} : Begin(f, c)
  BY <1>1 DEF Begin, Enter, Waits
<1>2. CASE Network(f)
  BY <1>2 DEF Network, DiscoveryReplied, RegistrationReplied, TokenReplied, Dispatch, Waits
<1>3. CASE MainQueue(f)
  BY <1>3 DEF MainQueue, RequestFails, Register, PresentDiscovered, PresentRegistered,
              AuthStateDelivered, Present, Runs, Tell, Enter, Waits
<1>4. CASE Session(f)
  BY <1>4 DEF Session, SessionFails, SessionRaises, SessionRefused, SessionRedeems,
              SessionDelivers, Tell, Enter, Waits
<1> QED BY <1>1, <1>2, <1>3, <1>4

\* Flows only advance: no step takes one back, and each reply, each block of the
\* main queue and each outcome of a session takes its flow further or raises.  So
\* a flow asks a server for nothing twice and is over after ten of its steps at
\* most, and what the app was told stands: the safety half of FlowSettles, of which
\* the other is that tasks complete and the main queue runs.
THEOREM FlowsAdvance ==
  Spec => [][\A f \in Flows :
               /\ Place(f)' >= Place(f)
               /\ Network(f) \/ MainQueue(f) \/ Session(f) =>
                    Place(f)' > Place(f) \/ raised'
               /\ told[f] # Nil => told'[f] = told[f]]_vars
<1>1. ASSUME Inv, Inv', [Next]_vars, NEW f \in Flows
      PROVE  /\ Place(f)' >= Place(f)
             /\ Network(f) \/ MainQueue(f) \/ Session(f) => Place(f)' > Place(f) \/ raised'
             /\ told[f] # Nil => told'[f] = told[f]
  <2>1. /\ Rank(stage[f]) \in Nat /\ Place(f) \in {Rank(stage[f]), Rank(stage[f]) + 1}
        /\ Rank(stage'[f]) \in Nat /\ Place(f)' \in {Rank(stage'[f]), Rank(stage'[f]) + 1}
    <3>1. TypeOK /\ TypeOK'
      BY <1>1 DEF Inv
    <3>2. stage'[f] \in Stages
      BY <3>1 DEF TypeOK
    <3>3. Place(f)' \in {Rank(stage'[f]), Rank(stage'[f]) + 1}
      BY <3>2, RankTyped DEF Place
    <3> QED BY <3>1, <3>2, <3>3, PlaceTyped, RankTyped
  <2>2. Proceeds(f) => Place(f)' > Place(f) /\ told[f] = Nil
    BY <2>1 DEF Proceeds
  <2>3. Hears(f) => Place(f)' > Place(f) /\ told'[f] = told[f]
    BY <2>1 DEF Hears, Place
  <2>4. Waits(f) => Place(f)' = Place(f) /\ told'[f] = told[f]
    BY DEF Waits, Place
  <2>5. Network(f) \/ MainQueue(f) \/ Session(f) => Place(f)' > Place(f) \/ raised'
    BY <1>1, <2>2, <2>3, NetworkHears, MainQueueProceeds, SessionProceeds
  <2>6. Proceeds(f) \/ Hears(f) \/ Waits(f)
    <3>1. CASE Tick \/ UNCHANGED vars
      BY <3>1 DEF Tick, vars, Waits
    <3>2. ASSUME NEW g \in Flows \ {f},
                 (\E c \in Clients \cup {Nil} : Begin(g, c))
                   \/ Network(g) \/ MainQueue(g) \/ Session(g)
          PROVE  Waits(f)
      BY <1>1, <3>2, OthersWait
    <3>3. CASE \E c \in Clients \cup {Nil} : Begin(f, c)
      <4>1. stage[f] = "idle" /\ Enter(f, "discovering")
        BY <3>3 DEF Begin
      <4>2. Rank("idle") = 0 /\ Rank("discovering") = 2
        BY DEF Rank
      <4> QED BY <1>1, <4>1, <4>2, Proceeding DEF Stages, Waiting
    <3>4. CASE Network(f) \/ MainQueue(f) \/ Session(f)
      BY <1>1, <3>4, NetworkHears, MainQueueProceeds, SessionProceeds
    <3> QED BY <1>1, <3>1, <3>2, <3>3, <3>4 DEF Next
  <2>7. /\ Place(f) \in Nat /\ Place(f)' \in Nat
    BY <2>1
  <2> QED BY <2>2, <2>3, <2>4, <2>5, <2>6, <2>7
<1>2. Inv /\ Inv' /\ [Next]_vars =>
        \A f \in Flows :
          /\ Place(f)' >= Place(f)
          /\ Network(f) \/ MainQueue(f) \/ Session(f) => Place(f)' > Place(f) \/ raised'
          /\ told[f] # Nil => told'[f] = told[f]
  BY <1>1
<1> QED BY <1>2, InvHolds, PTL DEF Spec
=============================================================================
