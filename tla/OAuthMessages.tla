--------------------------- MODULE OAuthMessages ---------------------------
(***************************************************************************)
(* The messages of an authorization (the request, response, configuration  *)
(* and ID token classes of AppAuthCore) and what the library takes from    *)
(* them: which discovery documents, registration responses and ID tokens   *)
(* it accepts.                                                             *)
(*                                                                         *)
(* A message keeps the members some check depends on.  The values a        *)
(* request generates for itself, its state and its nonce, are named by the *)
(* authorization whose request it is.                                      *)
(***************************************************************************)
EXTENDS OAuthErrors, Integers

CONSTANTS
  Flows,      \* authorizations the app begins
  Strangers,  \* authorizations of others, or of an earlier run of the app
  Issuers,    \* issuers of tokens
  Clients,    \* client identifiers
  Times,      \* instants a token can speak of
  IATMaxSkew  \* kOIDAuthorizationSessionIATMaxSkew

ASSUME NilAssumption == Nil \notin Flows \cup Strangers \cup Issuers \cup Clients \cup Times
ASSUME TimesAssumption == Times \subseteq Int /\ IATMaxSkew \in Nat

-----------------------------------------------------------------------------
(* Discovery. *)

URLFields ==
  {"issuer", "authorization_endpoint", "device_authorization_endpoint",
   "token_endpoint", "userinfo_endpoint", "jwks_uri", "registration_endpoint",
   "end_session_endpoint"}

\* Of the lists a document holds, those that are not nullable.
ListFields ==
  {"response_types_supported", "subject_types_supported",
   "id_token_signing_alg_values_supported"}

\* An OIDServiceDiscovery, or what is to become one: the fields that are there,
\* and those among them that are URLs.
Documents ==
  {d \in [issuer : Issuers, fields : SUBSET (URLFields \cup ListFields),
          urls : SUBSET URLFields] : d.urls \subseteq d.fields}

RequiredFields ==
  {"issuer", "authorization_endpoint", "token_endpoint", "jwks_uri"} \cup ListFields
RequiredURLFields == {"issuer", "token_endpoint", "jwks_uri"}

DictionaryHasRequiredFields(d) ==
  RequiredFields \subseteq d.fields /\ RequiredURLFields \subseteq d.urls

Endpoints == {"authorization_endpoint", "token_endpoint",
              "registration_endpoint", "end_session_endpoint"}

\* OIDServiceConfiguration: its issuer, and the endpoints that are not nil.
Configurations == [issuer : Issuers \cup {Nil}, endpoints : SUBSET Endpoints]

\* initWithDiscoveryDocument:, whose getters yield nil for what is no URL.
ConfigurationWithDiscoveryDocument(d) ==
  [issuer |-> d.issuer, endpoints |-> Endpoints \cap d.urls]

-----------------------------------------------------------------------------
(* Registration. *)

RegistrationParameters ==
  [clientID : Clients \cup {Nil}, clientSecret : BOOLEAN,
   clientSecretExpiresAt : BOOLEAN, registrationClientURI : BOOLEAN,
   registrationAccessToken : BOOLEAN]

\* OIDRegistrationResponse initWithRequest:parameters: does not return nil.
\* A response without a client identifier passes.
IsRegistrationResponse(p) ==
  /\ p.clientSecret => p.clientSecretExpiresAt
  /\ p.registrationClientURI <=> p.registrationAccessToken

-----------------------------------------------------------------------------
(* Authorization and token requests and responses. *)

ResponseTypes == {"code", "code id_token"}

\* state and nonce: what they were generated for, or nil.
AuthorizationRequests ==
  [configuration : Configurations, clientID : Clients \cup {Nil},
   responseType : ResponseTypes, state : Flows \cup {Nil},
   nonce : Flows \cup {Nil}]

AuthorizationRequest(f, configuration, client, responseType, generated) ==
  LET value == IF generated THEN f ELSE Nil
  IN  [configuration |-> configuration, clientID |-> client,
       responseType |-> responseType, state |-> value, nonce |-> value]

\* code: does the response carry an authorization code?
AuthorizationResponses ==
  [request : AuthorizationRequests, code : BOOLEAN, state : Flows \cup {Nil}]

TokenRequests ==
  [configuration : Configurations, clientID : Clients \cup {Nil},
   grantType : {"authorization_code", "refresh_token"}]

\* tokenExchangeRequest, which raises an exception if there is no code.
TokenExchangeRequest(response) ==
  [configuration |-> response.request.configuration,
   clientID |-> response.request.clientID, grantType |-> "authorization_code"]

\* The claims of an ID token.  A string that is to become one may lack some.
Claims ==
  [issuer : Issuers \cup {Nil}, subject : BOOLEAN,
   audience : SUBSET Clients \cup {Nil}, azp : Clients \cup {Nil},
   expiresAt : Times \cup {Nil}, issuedAt : Times \cup {Nil},
   nonce : Flows \cup Strangers \cup {Nil}]

\* initWithIDTokenString: does not return nil.
IsIDToken(t) ==
  /\ t.issuer # Nil /\ t.audience # Nil /\ t.subject
  /\ t.expiresAt # Nil /\ t.issuedAt # Nil

\* OIDTokenResponse: the request it answers and the ID token, if any.
TokenResponses == [request : TokenRequests, idToken : Claims \cup {Nil}]

-----------------------------------------------------------------------------
(* ID token validation in performTokenRequest:, at an instant. *)

IsIssuedBy(t, configuration) ==
  configuration.issuer # Nil => t.issuer = configuration.issuer

IsFor(t, client) == client # Nil /\ client \in t.audience \cup {t.azp}

IsCurrent(t, now) ==
  /\ t.expiresAt >= now
  /\ t.issuedAt - now <= IATMaxSkew /\ now - t.issuedAt <= IATMaxSkew

\* Mutant: an ID token without a nonce passes.
LaxAnswersNonce(t, request, original) ==
  request.grantType = "authorization_code" /\ original # Nil /\ t.nonce # Nil =>
    original.request.nonce \in {Nil, t.nonce}

\* original: the authorization response the token request is made for, or Nil.
AnswersNonce(t, request, original) ==
  request.grantType = "authorization_code" /\ original # Nil =>
    original.request.nonce \in {Nil, t.nonce}

PassesValidation(t, request, original, now) ==
  /\ IsIssuedBy(t, request.configuration)
  /\ IsFor(t, request.clientID)
  /\ IsCurrent(t, now)
  /\ AnswersNonce(t, request, original)
=============================================================================
