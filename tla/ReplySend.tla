------------------------------ MODULE ReplySend ------------------------------
(***************************************************************************)
(* How one reply is sent: what FeishuReplyExecutor can fail with before    *)
(* the POST, what the answer to the POST becomes, and the verdict of the   *)
(* receipt.                                                                *)
(***************************************************************************)
EXTENDS FeishuAccess

(***************************************************************************)
(* The adapter                                                             *)
(***************************************************************************)

\* The request does not fit the configuration or carries unsendable text.
RequestErrors == Error("reply", {"invalid_response"})

PreparationErrors ==
  LeaseErrors \cup RequestErrors \cup
  (IF IdentityType = "bot" THEN {}
   ELSE WithSecretErrors \cup WithCredentialErrors \cup RotationErrors)

SendUserErrors ==
  WithSecretErrors \cup WithCredentialErrors \cup LeaseErrors \cup
  Error("reply", {"preflight_unavailable", "scope_missing"})

SendBotErrors ==
  WithSecretErrors \cup WithCredentialErrors \cup AcquireErrors \cup LeaseErrors

\* Everything that can fail between the reservation and the POST.
ErrorsBeforePost ==
  LeaseErrors \cup AuthorizationErrors \cup RequestErrors \cup
  (IF IdentityType = "bot" THEN SendBotErrors ELSE SendUserErrors)

MapPreflightError(error) ==
  CASE error.from = "reply" -> error.code
    [] error.from = "scope" /\ error.code \in {"not_authorized", "scope_missing"} -> error.code
    [] error.from = "scope" /\ error.code \in {"credential_refresh_required",
          "observation_stale", "probe_unavailable"} -> "preflight_unavailable"
    [] error.from = "keychain" /\ error.code = "not_found" -> "not_authorized"
    [] error.from = "keychain" /\ error.code = "unavailable" -> "preflight_unavailable"
    [] error.from = "token" /\ error.code = "configuration_invalid" -> "not_authorized"
    [] error.from = "token" /\ error.code = "retry_later" -> "preflight_unavailable"
    [] error.from = "bundle" /\ error.code = "credential_expired" -> "not_authorized"
    [] error.from = "rotation" /\ error.code = "reauthorization_required" ->
          "credential_reauthorization_required"
    [] error.from = "rotation" /\ error.code = "rotation_uncertain" ->
          "credential_rotation_uncertain"
    [] error.from = "rotation" /\ error.code \in {"rotation_pending", "journal_unavailable"} ->
          "preflight_unavailable"
    [] error.from = "lease" -> "preflight_unavailable"
    [] OTHER -> "invalid_response"

(***************************************************************************)
(* The POST                                                                *)
(***************************************************************************)

ApplicationCodeError(code) ==
  CASE code = "rate_limit" -> "rate_limited"
    [] code \in {"credentials", "token"} -> "not_authorized"
    [] code = "scope" -> "scope_missing"
    [] code = "rejected" -> "rejected"
    [] OTHER -> "unknown"

\* Mutated form: an error of the server or of a gateway counts as a rejection.
ServerErrorsReject(status) ==
  CASE status \in {401, 403} -> "not_authorized"
    [] status = 429 -> "rate_limited"
    [] status \in {304, 418} -> "unknown"
    [] OTHER -> "rejected"

HttpStatusError(status) ==
  CASE status \in {401, 403} -> "not_authorized"
    [] status = 429 -> "rate_limited"
    [] status \in {400, 404, 409, 413, 415, 422} -> "rejected"
    [] OTHER -> "unknown"

\* The record of a 200 answer.
ParseResult(body) ==
  CASE body \in {"ok", "unfitting"} -> body
    [] body \in Code \ {"ok"} -> ApplicationCodeError(body)
    [] OTHER -> "unknown"

\* The statuses whose body may tell more than the status.
ApplicationErrorStatuses == {400, 403, 404, 409, 422}

TellsMore(answer) ==
  /\ answer.status \in ApplicationErrorStatuses
  /\ answer.body \in Code \ {"ok"}
  /\ ApplicationCodeError(answer.body) # "unknown"

Send(answer) ==
  CASE answer.status = NoResponse -> "network"
    [] answer.status \in ApplicationErrorStatuses \cup {200} /\ answer.body = "slow" -> "network"
    [] answer.status = 200 /\ answer.body # "slow" -> ParseResult(answer.body)
    [] TellsMore(answer) -> ApplicationCodeError(answer.body)
    [] OTHER -> HttpStatusError(answer.status)

\* The executor compares the result with the request and its chronology; a
\* result that does not fit is no client error, so its code is unknown.
ParseReconciliation(outcome) == IF outcome = "unfitting" THEN "unknown" ELSE outcome

\* The verdict of the receipt for an error of the client.
ClientIssue(code) ==
  CASE code \in {"rate_limited", "preflight_unavailable"} -> "retry_same_key"
    [] code \in {"network", "unknown"} -> "uncertain"
    [] OTHER -> "do_not_retry"

SendVerdict(answer) ==
  LET outcome == ParseReconciliation(Send(answer))
  IN IF outcome = "ok" THEN "succeeded" ELSE ClientIssue(outcome)

\* Feishu never tells a refusal of a POST it accepted; it may tell anything
\* else, or nothing.
AnswersToAccepted ==
  {a \in Answer :
     /\ a.status \notin 400..499
     /\ a.status = 200 => a.body \notin Code \ {"ok", "unknown_code"}}

\* It never tells the success of a POST it refused.
AnswersToRefused ==
  {a \in Answer : a.status = 200 => a.body \notin {"ok", "malformed", "empty", "unfitting"}}

(***************************************************************************)
(* The verdicts an execution may end with                                  *)
(***************************************************************************)

PreparationVerdicts == {ClientIssue(MapPreflightError(e)) : e \in PreparationErrors}
VerdictsBeforePost == {ClientIssue(MapPreflightError(e)) : e \in ErrorsBeforePost}
VerdictsOfAccepted == {SendVerdict(a) : a \in AnswersToAccepted}
VerdictsOfRefused == {SendVerdict(a) : a \in AnswersToRefused}
=============================================================================
