----------------------------- MODULE HttpAnswers -----------------------------
(***************************************************************************)
(* What one request to Feishu can bring back, as far as the fixed-endpoint *)
(* clients of plugin-feishu tell answers apart: the status, and for a body *)
(* what came of reading and decoding it.                                   *)
(***************************************************************************)
EXTENDS Integers

\* The fetch failed, was refused a redirect, or timed out before any status.
NoResponse == 0

Status == {200, 304, 400, 401, 403, 404, 409, 413, 415, 418, 422, 429, 500, 503}

\* Application codes: success, the rate limit, rejected application
\* credentials, a rejected token, a missing scope, a definite rejection of the
\* request, and every code the clients do not know.
Code == {"ok", "rate_limit", "credentials", "token", "scope", "rejected", "unknown_code"}

\* Without a stream; timed out or disconnected while read; of a wrong type,
\* size or encoding; success whose data has the wrong shape, or is an empty
\* list, or has contents that do not fit the request.
Body == {"none", "slow", "broken", "unreadable", "malformed", "empty", "unfitting"} \cup Code

Answer ==
  [status : Status, body : Body] \cup {[status |-> NoResponse, body |-> "none"]}

Error(from, codes) == {[from |-> from, code |-> c] : c \in codes}
=============================================================================
