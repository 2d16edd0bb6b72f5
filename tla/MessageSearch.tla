---------------------------- MODULE MessageSearch ----------------------------
(***************************************************************************)
(* How one page of the User's messages is fetched: a search, and for each  *)
(* message it lists a request for its details and, if the search does not  *)
(* tell the type of the chat, one for the chat.  All of them answer to one *)
(* timeout.  Here is what each answer becomes, and what a search as a      *)
(* whole can fail with.                                                    *)
(***************************************************************************)
EXTENDS HttpAnswers

Access == INSTANCE FeishuAccess WITH IdentityType <- "user"

(***************************************************************************)
(* The client                                                              *)
(***************************************************************************)

ApplicationError(code) ==
  CASE code = "rate_limit" -> "rate_limited"
    [] code \in {"credentials", "token"} -> "not_authorized"
    [] code = "scope" -> "scope_missing"
    [] OTHER -> "unknown"

StatusError(status) ==
  CASE status \in {401, 403} -> "not_authorized"
    [] status = 429 -> "rate_limited"
    [] OTHER -> "unknown"

\* The statuses whose body may tell more than the status.
ReadableErrors == {400, 401, 403, 404, 409, 422, 429}

\* An error code in the body, unless the client does not know it.
TellsMore(answer) ==
  /\ answer.status \in ReadableErrors
  /\ answer.body \in Code \ {"ok"}
  /\ ApplicationError(answer.body) # "unknown"

\* The data of a 200 answer, or the error its code stands for.  A code that is
\* not known is put down to the page token, or to the message asked for.
ReadData(body, context, hasPageToken) ==
  CASE body = "slow" -> "network"
    [] body \in {"none", "broken", "unreadable"} -> "invalid_response"
    [] body \in Code \ {"ok"} /\ ApplicationError(body) # "unknown" -> ApplicationError(body)
    [] body \in {"rejected", "unknown_code"} ->
         (CASE context # "search" -> "unavailable"
            [] hasPageToken -> "invalid_page_token"
            [] OTHER -> "unknown")
    [] OTHER -> "data"

\* The first that applies.  A timeout while the body of an error is read only
\* matters where the status does not already say that the message is unavailable.
RequestJson(answer, context, hasPageToken) ==
  IF answer.status = NoResponse THEN "network"
  ELSE IF answer.status = 200 THEN ReadData(answer.body, context, hasPageToken)
  ELSE IF answer.status = 404 /\ context # "search" THEN "unavailable"
  ELSE IF TellsMore(answer) THEN ApplicationError(answer.body)
  ELSE IF answer.status \in (400 .. 499) \ {401, 403} /\ context # "search" THEN "unavailable"
  ELSE IF answer.status \in ReadableErrors /\ answer.body = "slow" THEN "network"
  ELSE IF answer.status = 400 /\ hasPageToken THEN "invalid_page_token"
  ELSE StatusError(answer.status)

\* An item outside the window, or listed twice, does not fit.
ParseSearchPage(answer, hasPageToken) ==
  LET read == RequestJson(answer, "search", hasPageToken)
  IN  CASE read # "data" -> read
        [] read = "data" /\ answer.body \in {"ok", "empty"} -> "page"
        [] OTHER -> "invalid_response"

ParseChat(answer) ==
  LET read == RequestJson(answer, "chat", FALSE)
  IN  CASE read # "data" -> read
        [] read = "data" /\ answer.body = "ok" -> "data"
        [] OTHER -> "invalid_response"

\* Details that differ from the item of the search do not fit.
ParseDetail(body) ==
  CASE body = "ok" -> "found"
    [] body = "empty" -> "unavailable"
    [] OTHER -> "invalid_response"

\* One item of a page: the details are requested first, then the chat, and
\* parsed last.
FetchItem(detail, chat) ==
  LET read == RequestJson(detail, "detail", FALSE)
      parsed == ParseChat(chat)
  IN  IF read # "data" THEN read
      ELSE IF parsed # "data" THEN parsed
      ELSE ParseDetail(detail.body)

ItemOutcomes == {FetchItem(d, c) : d, c \in Answer}

(***************************************************************************)
(* The adapter                                                             *)
(***************************************************************************)

\* The request does not fit the configuration; the credential that is read
\* last is not usable any more, or lacks a scope.
RequestErrors == Error("search", {"invalid_response", "not_authorized", "scope_missing"})

MapError(error) ==
  CASE error.from = "search" -> error.code
    [] error.from = "scope" /\ error.code \in {"not_authorized", "scope_missing"} -> error.code
    [] error.from = "scope" /\ error.code \in {"credential_refresh_required",
          "observation_stale", "probe_unavailable"} -> "network"
    [] error.from = "rotation" /\ error.code = "reauthorization_required" -> "not_authorized"
    [] error.from = "rotation" /\ error.code \in {"rotation_pending",
          "rotation_uncertain", "journal_unavailable"} -> "unknown"
    [] error.from = "keychain" /\ error.code = "not_found" -> "not_authorized"
    [] error.from = "keychain" /\ error.code = "unavailable" -> "network"
    [] error.from = "bundle" /\ error.code = "credential_expired" -> "not_authorized"
    [] error.from = "lease" -> "unknown"
    [] OTHER -> "invalid_response"

ErrorsBeforeSearch ==
  Access!LeaseErrors \cup Access!RotationErrors \cup Access!AuthorizationErrors \cup
  Access!WithSecretErrors \cup Access!WithCredentialErrors \cup RequestErrors

\* What a search fails with.
SearchErrors(hasPageToken) ==
  {MapError(e) : e \in ErrorsBeforeSearch}
    \cup ({ParseSearchPage(a, hasPageToken) : a \in Answer} \ {"page"})
    \cup (ItemOutcomes \ {"found", "unavailable"})

\* The failures of a search that the discoverer calls retryable.
Retryable(code) == code \in {"rate_limited", "network", "invalid_page_token", "unknown"}
=============================================================================
