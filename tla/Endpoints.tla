----------------------------- MODULE Endpoints -----------------------------
(***************************************************************************)
(* What OIDAuthorizationService makes of the answer to a request: the      *)
(* completion handlers of discoverServiceConfigurationForDiscoveryURL:,    *)
(* performTokenRequest: and performRegistrationRequest:, as operators from *)
(* the reply of NSURLSession to what the callback is called with.          *)
(*                                                                         *)
(* A JSON body is taken to be an object, as the code does without a check. *)
(***************************************************************************)
EXTENDS OAuthMessages

\* The reply: none (a connection error), or a status and a body.  error is the
\* "error" member of a JSON body, content what else the body holds.
NoReply == [status |-> 0, json |-> FALSE, error |-> Nil, content |-> Nil]
Reply(status, json, error, content) ==
  [status |-> status, json |-> json, error |-> error, content |-> content]

\* What a callback is called with.
Success(value) == [value |-> value, error |-> Nil]
Failure(error) == [value |-> Nil, error |-> error]

Results(values) ==
  [value : values, error : {Nil}] \cup [value : {Nil}, error : Errors]

\* Every error of discovery is reported as a network error.
DiscoveryResult(reply) ==
  IF /\ reply.status = 200 /\ reply.json
     /\ DictionaryHasRequiredFields(reply.content)
  THEN Success(ConfigurationWithDiscoveryDocument(reply.content))
  ELSE Failure(ErrorWithCode("NetworkError"))

\* A reply with an unexpected status, which may be an OAuth error if its status
\* is one of those given.
ServerError(reply, statuses, domain) ==
  IF reply.status \in statuses /\ reply.json /\ reply.error # Nil
  THEN OAuthErrorWithDomain(domain, reply.error)
  ELSE ErrorWithCode("ServerError")

RegistrationResult(reply) ==
  CASE reply = NoReply -> Failure(ErrorWithCode("NetworkError"))
    [] reply # NoReply /\ reply.status \notin {200, 201} ->
         Failure(ServerError(reply, {400}, RegistrationDomain))
    [] reply.status \in {200, 201} /\ ~ reply.json ->
         Failure(ErrorWithCode("JSONDeserializationError"))
    [] reply.status \in {200, 201} /\ reply.json /\ ~ IsRegistrationResponse(reply.content) ->
         Failure(ErrorWithCode("RegistrationResponseConstructionError"))
    [] OTHER -> Success(reply.content)

\* A token response that carries the ID token t.
IDTokenResult(t, request, original, now) ==
  IF ~ IsIDToken(t) THEN Failure(ErrorWithCode("IDTokenParsingError"))
  ELSE IF ~ PassesValidation(t, request, original, now)
  THEN Failure(ErrorWithCode("IDTokenFailedValidationError"))
  ELSE Success([request |-> request, idToken |-> t])

\* Mutant: an error response is looked for whatever the status.
CredulousTokenResult(request, original, reply, now) ==
  CASE reply = NoReply -> Failure(ErrorWithCode("NetworkError"))
    [] reply # NoReply /\ reply.status # 200 ->
         Failure(ServerError(reply, 201 .. 599, TokenDomain))
    [] reply.status = 200 /\ ~ reply.json ->
         Failure(ErrorWithCode("JSONDeserializationError"))
    [] reply.status = 200 /\ reply.json /\ reply.content = Nil ->
         Success([request |-> request, idToken |-> Nil])
    [] OTHER -> IDTokenResult(reply.content, request, original, now)

\* performTokenRequest:originalAuthorizationResponse:.  The constructor of the
\* token response never returns nil, so that error does not occur.
TokenResult(request, original, reply, now) ==
  CASE reply = NoReply -> Failure(ErrorWithCode("NetworkError"))
    [] reply # NoReply /\ reply.status # 200 ->
         Failure(ServerError(reply, 400 .. 499, TokenDomain))
    [] reply.status = 200 /\ ~ reply.json ->
         Failure(ErrorWithCode("JSONDeserializationError"))
    [] reply.status = 200 /\ reply.json /\ reply.content = Nil ->
         Success([request |-> request, idToken |-> Nil])
    [] OTHER -> IDTokenResult(reply.content, request, original, now)
=============================================================================
