------------------------- MODULE AuthorizationFlow -------------------------
(***************************************************************************)
(* An authorization from the issuer's address to an OIDAuthState: the app  *)
(* discovers the configuration, registers unless it has a client           *)
(* identifier, and calls authStateByPresentingAuthorizationRequest:, which *)
(* presents the request and redeems the code (OIDAuthState.m), the way     *)
(* authWithAutoCodeExchange: of the example app does.                      *)
(*                                                                         *)
(* Replies of the network come on a queue of NSURLSession, where they are  *)
(* looked at; what they amount to reaches the app in a block of the main   *)
(* queue.  The session and its user agent are those of                     *)
(* AuthorizationSession, of which only the outcome matters here.  Several  *)
(* flows may be under way; they share the clock and the servers.           *)
(***************************************************************************)
EXTENDS Endpoints

CONSTANTS
  DiscoveryReplies,     \* replies of the issuer to discovery,
  RegistrationReplies,  \* of the registration endpoint
  TokenReplies,         \* and of the token endpoint
  MaxTime               \* bound of the clock

\* The content of a body matters only if it is JSON and the status a success.
RepliesWith(contents) ==
  {r \in [status : {0} \cup 200 .. 599, json : BOOLEAN,
          error : ErrorMembers \cup {Nil}, content : contents \cup {Nil}] :
     r.json /\ r.status \in {200, 201} => r.content \in contents}

ASSUME RepliesAssumption ==
  /\ DiscoveryReplies \subseteq RepliesWith(Documents)
  /\ RegistrationReplies \subseteq RepliesWith(RegistrationParameters)
  /\ TokenReplies \subseteq RepliesWith(Claims \cup {Nil})
ASSUME MaxTimeAssumption == MaxTime \in Nat /\ 0 .. MaxTime \subseteq Times

VARIABLES
  now,            \* the clock
  stage,          \* flow: what it waits for
  client,         \* flow: the app's client identifier, or the registered one
  configuration,  \* flow: what discovery yielded
  request,        \* flow: the authorization request presented
  response,       \* flow: the authorization response redeemed
  block,          \* flow: the result on its way to the main queue
  told,           \* flow: what the app was called back with at the end
  refused,        \* history: the error response of a server
  checkedAt,      \* history: when the token endpoint's reply was looked at
  raised          \* an exception ended the process

vars == <<now, stage, client, configuration, request, response, block, told,
          refused, checkedAt, raised>>
messages == <<client, configuration, request, response>>
history == <<refused, checkedAt>>

Waiting == {"discovering", "registering", "redeeming"}
Stages == {"idle", "authorizing", "over"} \cup Waiting

\* What an OIDAuthState is made of.
AuthStates == [authorization : AuthorizationResponses, token : TokenResponses \cup {Nil}]
ErrorResponses ==
  [domain : OAuthDomains, status : 400 .. 599 \cup {Nil}, name : ErrorNames]

\* What the request of each stage yields.
Values(s) ==
  CASE s = "discovering" -> Configurations
    [] s = "registering" -> RegistrationParameters
    [] s = "redeeming"   -> TokenResponses

ASSUME NilIsNoMessage ==
  /\ Nil \notin ErrorResponses \cup AuthorizationResponses \cup TokenResponses
  /\ Nil \notin 400 .. 599
  /\ \A s \in Waiting : Nil \notin Results(Values(s))

Init ==
  /\ now = 0
  /\ stage = [f \in Flows |-> "idle"]
  /\ client = [f \in Flows |-> Nil]
  /\ configuration = [f \in Flows |-> Nil]
  /\ request = [f \in Flows |-> Nil]
  /\ response = [f \in Flows |-> Nil]
  /\ block = [f \in Flows |-> Nil]
  /\ told = [f \in Flows |-> Nil]
  /\ refused = [f \in Flows |-> Nil]
  /\ checkedAt = [f \in Flows |-> Nil]
  /\ raised = FALSE

Enter(f, s) == stage' = [stage EXCEPT ![f] = s]

\* The app is called back, for the last time.
Tell(f, result) ==
  /\ Enter(f, "over")
  /\ told' = [told EXCEPT ![f] = result]

\* A server names an error, in a reply with this status or in a redirect.
NoteError(f, domain, status, name) ==
  refused' = [refused EXCEPT ![f] =
    IF name \in ErrorNames
    THEN [domain |-> domain, status |-> status, name |-> name] ELSE @]

\* What a reply names, if it is an error response.
ErrorNamedBy(reply) == IF reply.status >= 400 /\ reply.json THEN reply.error ELSE Nil

-----------------------------------------------------------------------------
(* Discovery and registration. *)

\* authWithAutoCodeExchange:, with the app's client identifier, if it has one.
Begin(f, c) ==
  /\ ~ raised /\ stage[f] = "idle"
  /\ Enter(f, "discovering")
  /\ client' = [client EXCEPT ![f] = c]
  /\ UNCHANGED <<now, configuration, request, response, block, told, history, raised>>

\* The result of the request under way is dispatched to the main queue.
Dispatch(f, s, result) ==
  /\ ~ raised /\ stage[f] = s /\ block[f] = Nil
  /\ block' = [block EXCEPT ![f] = result]
  /\ UNCHANGED <<now, stage, messages, told, raised>>

DiscoveryReplied(f) ==
  \E reply \in DiscoveryReplies :
    Dispatch(f, "discovering", DiscoveryResult(reply)) /\ UNCHANGED history

\* A configuration without a registration endpoint has no address to ask.
RegistrationReplied(f) ==
  \E reply \in RegistrationReplies :
    /\ Dispatch(f, "registering", RegistrationResult(reply))
    /\ "registration_endpoint" \notin configuration[f].endpoints => reply = NoReply
    /\ NoteError(f, RegistrationDomain, reply.status, ErrorNamedBy(reply))
    /\ UNCHANGED checkedAt

\* Main queue: the block of stage s runs.
Runs(f, s) ==
  /\ ~ raised /\ stage[f] = s /\ block[f] # Nil
  /\ block' = [block EXCEPT ![f] = Nil]
  /\ UNCHANGED <<now, history>>

\* Mutant: authStateByPresentingAuthorizationRequest: calls back only if there
\* is a token response.
SilentRequestFails(f) ==
  \E s \in {"discovering", "registering"} :
    /\ Runs(f, s) /\ block[f].error # Nil
    /\ Tell(f, Failure(block[f].error))
    /\ UNCHANGED <<messages, raised>>

\* The app hears of a request that failed.
RequestFails(f) ==
  \E s \in Waiting :
    /\ Runs(f, s) /\ block[f].error # Nil
    /\ Tell(f, Failure(block[f].error))
    /\ UNCHANGED <<messages, raised>>

\* doClientRegistration:callback:.
Register(f) ==
  /\ Runs(f, "discovering") /\ block[f].error = Nil /\ client[f] = Nil
  /\ configuration' = [configuration EXCEPT ![f] = block[f].value]
  /\ Enter(f, "registering")
  /\ UNCHANGED <<client, request, response, told, raised>>

\* doAuthWithAutoCodeExchange:clientID:clientSecret:, which presents a request.
\* Its parameters may be generated, or left out.
Present(f, c, conf) ==
  \E responseType \in ResponseTypes, generated \in BOOLEAN :
    /\ request' = [request EXCEPT ![f] =
         AuthorizationRequest(f, conf, c, responseType, generated)]
    /\ Enter(f, "authorizing")
    /\ UNCHANGED <<response, told, raised>>

PresentDiscovered(f) ==
  /\ Runs(f, "discovering") /\ block[f].error = Nil /\ client[f] # Nil
  /\ configuration' = [configuration EXCEPT ![f] = block[f].value]
  /\ Present(f, client[f], block[f].value)
  /\ UNCHANGED client

PresentRegistered(f) ==
  /\ Runs(f, "registering") /\ block[f].error = Nil
  /\ client' = [client EXCEPT ![f] = block[f].value.clientID]
  /\ Present(f, block[f].value.clientID, configuration[f])
  /\ UNCHANGED configuration

-----------------------------------------------------------------------------
(* authStateByPresentingAuthorizationRequest:. *)

\* The session ends without a redirect: it was cancelled, by the user or the
\* app, or its user agent could not show the request.
SessionFails(f) ==
  \E code \in {"UserCanceledAuthorizationFlow", "ProgramCanceledAuthorizationFlow",
               "SafariOpenError", "BrowserOpenError"} :
    /\ ~ raised /\ stage[f] = "authorizing"
    /\ Tell(f, Failure(ErrorWithCode(code)))
    /\ UNCHANGED <<now, messages, block, history, raised>>

\* Does the user see the page of the server?  Discovery does not insist on an
\* authorization endpoint that is a URL.
IsShown(f) ==
  /\ ~ raised /\ stage[f] = "authorizing"
  /\ "authorization_endpoint" \in request[f].configuration.endpoints

\* The user agents hand the nil address to frameworks, some of which raise.
SessionRaises(f) ==
  /\ ~ raised /\ stage[f] = "authorizing" /\ ~ IsShown(f)
  /\ raised' = TRUE
  /\ UNCHANGED <<now, stage, messages, block, told, history>>

\* The redirect is an OAuth error, or carries another request's state.
SessionRefused(f) ==
  /\ IsShown(f)
  /\ \/ \E name \in ErrorMembers :
          /\ Tell(f, Failure(OAuthErrorWithDomain(AuthorizationDomain, name)))
          /\ NoteError(f, AuthorizationDomain, Nil, name)
     \/ \E state \in Flows \cup Strangers \cup {Nil} :
          /\ state # request[f].state
          /\ Tell(f, Failure(Error(AuthorizationDomain, "ClientError")))
          /\ UNCHANGED refused
  /\ UNCHANGED <<now, messages, block, checkedAt, raised>>

\* The authorization response of a redirect with the state of the request.
Answer(f, code) == [request |-> request[f], code |-> code, state |-> request[f].state]

\* Code flow: the code is redeemed; without one, tokenExchangeRequest raises.
SessionRedeems(f) ==
  \E code \in BOOLEAN :
    /\ IsShown(f) /\ request[f].responseType = "code"
    /\ response' = [response EXCEPT ![f] = Answer(f, code)]
    /\ IF code THEN Enter(f, "redeeming") /\ UNCHANGED raised
               ELSE raised' = TRUE /\ UNCHANGED stage
    /\ UNCHANGED <<now, client, configuration, request, block, told, history>>

\* Hybrid flow: the app is to verify the response before it uses the code.
SessionDelivers(f) ==
  \E code \in BOOLEAN :
    /\ IsShown(f) /\ request[f].responseType # "code"
    /\ Tell(f, Success([authorization |-> Answer(f, code), token |-> Nil]))
    /\ UNCHANGED <<now, messages, block, history, raised>>

TokenReplied(f) ==
  \E reply \in TokenReplies :
    /\ Dispatch(f, "redeeming",
                TokenResult(TokenExchangeRequest(response[f]), response[f], reply, now))
    /\ NoteError(f, TokenDomain, reply.status, ErrorNamedBy(reply))
    /\ checkedAt' = [checkedAt EXCEPT ![f] = now]

AuthStateDelivered(f) ==
  /\ Runs(f, "redeeming") /\ block[f].error = Nil
  /\ Tell(f, Success([authorization |-> response[f], token |-> block[f].value]))
  /\ UNCHANGED <<messages, raised>>

Tick ==
  /\ ~ raised /\ now < MaxTime
  /\ now' = now + 1
  /\ UNCHANGED <<stage, messages, block, told, history, raised>>

Network(f) == DiscoveryReplied(f) \/ RegistrationReplied(f) \/ TokenReplied(f)
MainQueue(f) ==
  \/ RequestFails(f) \/ Register(f)
  \/ PresentDiscovered(f) \/ PresentRegistered(f) \/ AuthStateDelivered(f)
Session(f) ==
  \/ SessionFails(f) \/ SessionRaises(f) \/ SessionRefused(f)
  \/ SessionRedeems(f) \/ SessionDelivers(f)

Next ==
  \/ Tick
  \/ \E f \in Flows :
       \/ \E c \in Clients \cup {Nil} : Begin(f, c)
       \/ Network(f) \/ MainQueue(f) \/ Session(f)

Spec == Init /\ [][Next]_vars

\* A task of NSURLSession completes, with a reply or, at its time-out, with an
\* error, and the main queue runs its blocks.  The user need not do anything.
FairSpec ==
  Spec /\ \A f \in Flows : WF_vars(Network(f)) /\ WF_vars(MainQueue(f))

-----------------------------------------------------------------------------
(* Properties. *)

OptionalResults(values) == Results(values) \cup {Nil}

\* Types: in particular, the main queue is handed results of the request the
\* flow waits for, and every error has a code the library knows.
TypeOK ==
  /\ now \in 0 .. MaxTime
  /\ stage \in [Flows -> Stages]
  /\ client \in [Flows -> Clients \cup {Nil}]
  /\ configuration \in [Flows -> Configurations \cup {Nil}]
  /\ request \in [Flows -> AuthorizationRequests \cup {Nil}]
  /\ response \in [Flows -> AuthorizationResponses \cup {Nil}]
  /\ DOMAIN block = Flows
  /\ told \in [Flows -> OptionalResults(AuthStates)]
  /\ refused \in [Flows -> ErrorResponses \cup {Nil}]
  /\ checkedAt \in [Flows -> 0 .. MaxTime \cup {Nil}]
  /\ raised \in BOOLEAN
  /\ \A f \in Flows :
       IF stage[f] \in Waiting THEN block[f] \in OptionalResults(Values(stage[f]))
                               ELSE block[f] = Nil

\* The OIDAuthState a flow ends with is of that flow alone: it holds the answer
\* to its own request and, in the code flow, tokens.  Their ID token was issued
\* by the issuer discovered at the beginning, for the client registered, not
\* more than the allowed skew before or after it was looked at and not expired
\* by then, and it carries the nonce of the request, if that had one
\* (OIDAuthorizationService.m:526-642).
StateIsOfThisFlow ==
  \A f \in Flows : told[f] # Nil /\ told[f].value # Nil =>
    LET authorization == told[f].value.authorization
        token         == told[f].value.token
        idToken       == token.idToken
    IN  /\ authorization.request = request[f]
        /\ authorization.state = request[f].state
        /\ token = Nil <=> request[f].responseType # "code"
        /\ token # Nil /\ idToken # Nil =>
             /\ idToken.issuer = configuration[f].issuer
             /\ client[f] # Nil
             /\ client[f] \in idToken.audience \/ client[f] = idToken.azp
             /\ checkedAt[f] <= idToken.expiresAt
             /\ idToken.issuedAt \in checkedAt[f] - IATMaxSkew .. checkedAt[f] + IATMaxSkew
             /\ request[f].nonce # Nil => idToken.nonce = f

\* The error responses that are to end the authorization: a redirect, a reply with
\* HTTP 400 (OIDError.h:38, 52) and, of the token endpoint, any with HTTP 4xx
\* (OIDAuthorizationService.m:467).
IsRefusal(r) ==
  r.status \in {Nil, 400} \/ (r.domain = TokenDomain /\ r.status \in 400 .. 499)

\* The code of an error RFC 6749 names for the authorization or the token endpoint.
CodeOf(name) ==
  CASE name \in DOMAIN AuthorizationCodes -> AuthorizationCodes[name]
    [] name \in DOMAIN TokenCodes \ DOMAIN AuthorizationCodes -> TokenCodes[name]
    [] OTHER -> "Other"

\* An error of an OAuth domain makes OIDAuthState give the authorization up.
\* The app is told one if a server refused, of the domain of the endpoint and with
\* the code of the name, and no other failure of network or server passes for a
\* refusal, though it may name an error; the one error of these domains that is
\* the library's own is that of a state mismatch.  A name has one code at every
\* endpoint, "Other" if RFC 6749 does not name it: so registration's own names
\* have "Other", against the header (HeaderCodesAreKept), and a token endpoint's
\* access_denied has a code the header does not list there
\* (OIDAuthorizationService.m:463-494, 713-745, OIDErrorUtilities.m:63-162).
RefusalIsTold ==
  \A f \in Flows : told[f] # Nil =>
    LET error == told[f].error
    IN  /\ refused[f] # Nil => error # Nil
        /\ error # Nil =>
             IF refused[f] # Nil /\ IsRefusal(refused[f])
             THEN error = Error(refused[f].domain, CodeOf(refused[f].name))
             ELSE \/ error.domain = GeneralDomain
                  \/ error = Error(AuthorizationDomain, "ClientError")

\* An error the header names for an endpoint is told with the code the header
\* gives it there (the @remarks of OIDError.h:244-371).
HeaderCodesAreKept ==
  \A f \in Flows : told[f] # Nil /\ refused[f] # Nil /\ IsRefusal(refused[f]) =>
    LET codes == HeaderCodes(refused[f].domain)
        name  == refused[f].name
    IN  name \in DOMAIN codes => told[f].error.code = codes[name]

\* Whatever the network and the servers do, the library does not keep the app
\* waiting: each request it sends ends in a page for the user or in a callback
\* (or in the exception of OIDAuthorizationResponse.m:194).
FlowSettles ==
  \A f \in Flows :
    (stage[f] \in Waiting) ~> (stage[f] \in {"authorizing", "over"} \/ raised)
=============================================================================
