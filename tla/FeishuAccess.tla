---------------------------- MODULE FeishuAccess ----------------------------
(***************************************************************************)
(* What a request to Feishu goes through first: the lease, the Keychain    *)
(* and the credential bundle, the tenant token of the Bot, the rotation of *)
(* the User credential, the scope probe and its authorizer.  Each layer is *)
(* given by what it can fail with; an error is the layer that raised it    *)
(* and its code, and a layer maps the errors of the layers it calls.       *)
(***************************************************************************)
EXTENDS HttpAnswers

CONSTANT IdentityType  \* the identity the request is made with

ASSUME IdentityTypeAssumption == IdentityType \in {"bot", "user"}

(***************************************************************************)
(* Keychain and credential bundle                                          *)
(***************************************************************************)

\* How the security command ends when it does not print a secret.
CommandFailure == {"exit_44", "max_buffer", "other_exit", "not_started"}

CommandErrorCode(failure) ==
  CASE failure = "exit_44" -> "not_found"
    [] failure = "max_buffer" -> "secret_too_large"
    [] OTHER -> "unavailable"

WithSecretErrors ==
  Error("keychain", {CommandErrorCode(f) : f \in CommandFailure} \cup
                    {"secret_empty", "secret_too_large", "unsupported_platform"})

DecodeErrors == {"invalid_bundle"}

AppCredentialErrors == {"invalid_bundle", "identity_mismatch"}

\* An expired access token is no error: the credential tells its status.
UserCredentialErrors == {"invalid_bundle", "identity_mismatch", "credential_expired"}

WithCredentialErrors ==
  Error("bundle", DecodeErrors \cup
    (IF IdentityType = "bot" THEN AppCredentialErrors ELSE UserCredentialErrors))

(***************************************************************************)
(* Tenant token of the Bot                                                 *)
(***************************************************************************)

TokenErrorForCode(code) ==
  CASE code = "rate_limit" -> "retry_later"
    [] code = "credentials" -> "configuration_invalid"
    [] OTHER -> "invalid_response"

\* A well-formed token whose lifetime is out of range is unfitting.
TokenResponse(body) ==
  CASE body = "ok" -> "acquired"
    [] body \in Code \ {"ok"} -> TokenErrorForCode(body)
    [] OTHER -> "invalid_response"

Acquire(answer) ==
  CASE answer.status = NoResponse -> "retry_later"
    [] answer.status = 429 \/ answer.status >= 500 -> "retry_later"
    [] answer.status \in {400, 401, 403} -> "configuration_invalid"
    [] answer.status = 200 /\ answer.body \in {"slow", "broken"} -> "retry_later"
    [] answer.status = 200 /\ answer.body \notin {"slow", "broken"} -> TokenResponse(answer.body)
    [] OTHER -> "invalid_response"

AcquireErrors == Error("token", {Acquire(a) : a \in Answer} \ {"acquired"})

(***************************************************************************)
(* Scope probes                                                            *)
(***************************************************************************)

ScopeCodeError(code) ==
  CASE code = "rate_limit" -> "rate_limited"
    [] code \in {"credentials", "token"} -> "not_authorized"
    [] OTHER -> "invalid_response"

\* bot/v3/info: another principal than the configured one is not authorized.
BotPrincipal(body) ==
  CASE body = "ok" -> "read"
    [] body = "unfitting" -> "not_authorized"
    [] body \in Code \ {"ok"} -> ScopeCodeError(body)
    [] OTHER -> "invalid_response"

\* The application's scopes: an unsorted or repeated scope is malformed.
GrantedScopes(body) ==
  CASE body \in {"ok", "unfitting"} -> "read"
    [] body \in Code \ {"ok"} -> ScopeCodeError(body)
    [] OTHER -> "invalid_response"

Read(answer, parsed) ==
  CASE answer.status = NoResponse -> "network"
    [] answer.status \in {401, 403} -> "not_authorized"
    [] answer.status = 429 -> "rate_limited"
    [] answer.status >= 500 -> "unavailable"
    [] answer.status = 200 /\ answer.body = "slow" -> "network"
    [] answer.status = 200 /\ answer.body = "broken" -> "unavailable"
    [] answer.status = 200 /\ answer.body \notin {"slow", "broken"} -> parsed
    [] OTHER -> "invalid_response"

InspectErrors ==
  Error("probe", UNION {{Read(a, BotPrincipal(a.body)), Read(a, GrantedScopes(a.body))} :
                          a \in Answer} \ {"read"})

KeychainProbeError(code) ==
  CASE code = "not_found" -> "not_authorized"
    [] code \in {"unsupported_platform", "secret_empty", "secret_too_large"} -> "invalid_response"
    [] OTHER -> "unavailable"

BotProbeError(error) ==
  CASE error.from = "probe" -> error.code
    [] error.from = "keychain" -> KeychainProbeError(error.code)
    [] error.from = "token" /\ error.code = "configuration_invalid" -> "not_authorized"
    [] error.from = "token" /\ error.code = "retry_later" -> "unavailable"
    [] OTHER -> "invalid_response"

UserProbeError(error) ==
  CASE error.from = "probe" -> error.code
    [] error.from = "keychain" -> KeychainProbeError(error.code)
    [] error.from = "bundle" /\ error.code = "credential_expired" -> "not_authorized"
    [] OTHER -> "invalid_response"

BotProbeErrors ==
  {BotProbeError(e) : e \in WithSecretErrors \cup WithCredentialErrors \cup
                            AcquireErrors \cup InspectErrors}

\* An access token that is no longer usable needs a refresh first.
UserProbeErrors ==
  {UserProbeError(e) : e \in WithSecretErrors \cup WithCredentialErrors \cup
                             Error("probe", {"refresh_required", "invalid_response"})}

(***************************************************************************)
(* Scope authorization                                                     *)
(***************************************************************************)

MapClientError(code) ==
  CASE code = "not_authorized" -> "not_authorized"
    [] code = "refresh_required" -> "credential_refresh_required"
    [] code = "invalid_response" -> "invalid_client"
    [] OTHER -> "probe_unavailable"

\* The probe fails, or its observation is malformed, old or lacks the scope.
AuthorizationErrors ==
  Error("scope",
    {MapClientError(c) : c \in IF IdentityType = "bot" THEN BotProbeErrors ELSE UserProbeErrors}
      \cup {"invalid_client", "observation_stale", "scope_missing"})

(***************************************************************************)
(* Lease and rotation                                                      *)
(***************************************************************************)

LeaseErrors == Error("lease", {"lost"})

\* The rotation coordinator refreshes the User credential.
RotationErrors ==
  Error("rotation", {"reauthorization_required", "rotation_uncertain", "rotation_pending",
                     "journal_unavailable", "invalid_request", "unsafe_file",
                     "journal_too_large"})
=============================================================================
