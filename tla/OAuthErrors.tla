---------------------------- MODULE OAuthErrors ----------------------------
(***************************************************************************)
(* The errors the library reports (OIDError.h) and how it makes one of an  *)
(* error response of a server (OIDErrorUtilities.m).  An NSError is its    *)
(* domain and its code; user info, descriptions and underlying errors are  *)
(* left out.  Codes go by the last part of their enumerator's name.        *)
(***************************************************************************)
CONSTANTS
  Nil,
  ErrorNames  \* what servers call their errors

GeneralDomain       == "OIDGeneralErrorDomain"
AuthorizationDomain == "OIDOAuthAuthorizationErrorDomain"
TokenDomain         == "OIDOAuthTokenErrorDomain"
RegistrationDomain  == "OIDOAuthRegistrationErrorDomain"
OAuthDomains == {RegistrationDomain, AuthorizationDomain, TokenDomain}

ErrorCodes ==
  {"InvalidDiscoveryDocument", "UserCanceledAuthorizationFlow",
   "ProgramCanceledAuthorizationFlow", "NetworkError", "ServerError",
   "JSONDeserializationError", "TokenResponseConstructionError",
   "SafariOpenError", "BrowserOpenError", "TokenRefreshError",
   "RegistrationResponseConstructionError", "JSONSerializationError",
   "IDTokenParsingError", "IDTokenFailedValidationError"}

OAuthErrorCodes ==
  {"InvalidRequest", "UnauthorizedClient", "AccessDenied",
   "UnsupportedResponseType", "InvalidScope", "ServerError",
   "TemporarilyUnavailable", "InvalidClient", "InvalidGrant",
   "UnsupportedGrantType", "InvalidRedirectURI", "InvalidClientMetadata",
   "ClientError", "Other"}

\* The names the header gives the errors of each endpoint, with their codes.
AuthorizationCodes ==
  [invalid_request |-> "InvalidRequest", unauthorized_client |-> "UnauthorizedClient",
   access_denied |-> "AccessDenied", unsupported_response_type |-> "UnsupportedResponseType",
   invalid_scope |-> "InvalidScope", server_error |-> "ServerError",
   temporarily_unavailable |-> "TemporarilyUnavailable"]
TokenCodes ==
  [invalid_request |-> "InvalidRequest", invalid_client |-> "InvalidClient",
   invalid_grant |-> "InvalidGrant", unauthorized_client |-> "UnauthorizedClient",
   unsupported_grant_type |-> "UnsupportedGrantType", invalid_scope |-> "InvalidScope"]
RegistrationCodes ==
  [invalid_request |-> "InvalidRequest", invalid_redirect_uri |-> "InvalidRedirectURI",
   invalid_client_metadata |-> "InvalidClientMetadata"]

HeaderCodes(domain) ==
  CASE domain = AuthorizationDomain -> AuthorizationCodes
    [] domain = TokenDomain         -> TokenCodes
    [] domain = RegistrationDomain  -> RegistrationCodes

\* An NSError of the library.
Error(domain, code) == [domain |-> domain, code |-> code]
Errors == [domain : {GeneralDomain}, code : ErrorCodes]
            \cup [domain : OAuthDomains, code : OAuthErrorCodes]

ASSUME NilIsNoError == Nil \notin Errors

ErrorWithCode(code) == Error(GeneralDomain, code)

-----------------------------------------------------------------------------
(* Errors a server names. *)

\* Mutant: an error that is not in the table has no code.
PartialOAuthErrorCodeFromString(name) ==
  CASE name = "invalid_request" -> "InvalidRequest"
    [] name = "invalid_grant"   -> "InvalidGrant"
    [] OTHER                    -> Nil

OAuthErrorCodeFromString(name) ==
  CASE name = "invalid_request"           -> "InvalidRequest"
    [] name = "unauthorized_client"       -> "UnauthorizedClient"
    [] name = "access_denied"             -> "AccessDenied"
    [] name = "unsupported_response_type" -> "UnsupportedResponseType"
    [] name = "invalid_scope"             -> "InvalidScope"
    [] name = "server_error"              -> "ServerError"
    [] name = "temporarily_unavailable"   -> "TemporarilyUnavailable"
    [] name = "invalid_client"            -> "InvalidClient"
    [] name = "invalid_grant"             -> "InvalidGrant"
    [] name = "unsupported_grant_type"    -> "UnsupportedGrantType"
    [] OTHER -> "Other"

\* The "error" member of a response: a name, or something else than a string.
NotAString == "not a string"
ErrorMembers == ErrorNames \cup {NotAString}

ASSUME ErrorNamesAssumption == Nil \notin ErrorMembers /\ NotAString \notin ErrorNames

OAuthErrorWithDomain(domain, name) ==
  IF name = NotAString THEN ErrorWithCode("NetworkError")
  ELSE Error(domain, OAuthErrorCodeFromString(name))
=============================================================================
