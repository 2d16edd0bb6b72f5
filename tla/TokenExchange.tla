---------------------------- MODULE TokenExchange ----------------------------
(***************************************************************************)
(* The request that exchanges a refresh token: what the transport and the  *)
(* refresher make of each answer of Feishu's token endpoint, and what the  *)
(* rotation journal then says of the token.  A token that was sent is only *)
(* given up for good when the endpoint itself says so; every other failure *)
(* leaves open whether it was used.                                        *)
(***************************************************************************)
EXTENDS HttpAnswers

\* The codes of the endpoint, by what is wrong: the client, the authorization
\* of the person, nothing but the moment, or something else.
RefreshCode == {"client", "authorization", "moment", "other"}

\* Without a body; timed out or disconnected while read; too large; of a wrong
\* type; not JSON of the expected shape; tokens that are expired, or the old
\* refresh token again; new tokens.
RefreshBody ==
  {"none", "slow", "broken", "too_large", "wrong_type", "malformed", "unfitting", "tokens"}
    \cup RefreshCode

RefreshAnswer ==
  [status : Status, body : RefreshBody] \cup {[status |-> NoResponse, body |-> "none"]}

Busy(status) == status = 429 \/ status >= 500

\* The transport; the type of the body is not looked at while Feishu is busy.
Send(answer) ==
  IF answer.status = NoResponse THEN "retry_later"
  ELSE IF answer.status \in 300 .. 399 THEN "invalid_response"
  ELSE IF answer.body = "wrong_type" /\ ~Busy(answer.status) THEN "invalid_response"
  ELSE IF answer.body = "too_large" THEN "invalid_response"
  ELSE IF answer.body \in {"slow", "broken"} THEN "retry_later"
  ELSE "received"

ErrorForUpstreamCode(code) ==
  CASE code = "client" -> "configuration_invalid"
    [] code = "authorization" -> "reauthorization_required"
    [] code = "moment" -> "retry_later"
    [] OTHER -> "invalid_response"

\* An error code counts whatever the status is, tokens only under a 2xx.
ParseTokenResponse(answer) ==
  CASE answer.body \in RefreshCode -> ErrorForUpstreamCode(answer.body)
    [] answer.body = "tokens" /\ answer.status \in 200 .. 299 -> "refreshed"
    [] OTHER -> "invalid_response"

Refresh(answer) ==
  IF Send(answer) # "received" THEN Send(answer)
  ELSE IF Busy(answer.status) THEN "retry_later"
  ELSE ParseTokenResponse(answer)

\* What the journal is told when the refresh fails.
Settlement(code) ==
  IF code = "reauthorization_required" THEN "reauthorization_required" ELSE "uncertain"

RefreshFailures == {Refresh(a) : a \in RefreshAnswer} \ {"refreshed"}
Settlements == {Settlement(code) : code \in RefreshFailures}
=============================================================================
