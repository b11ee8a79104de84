-------------------------- MODULE ReviewClassifier --------------------------
(***************************************************************************)
(* The classification of one item of feedback by an external model         *)
(* (agent/review_classify.py): what its service may answer, and what the   *)
(* review makes of it.  An answer that is complete and fits the schema is  *)
(* advice to the review; one that came but says nothing usable settles the *)
(* item by an escalation; no answer at all is an outage, or an error that  *)
(* nobody foresaw.                                                         *)
(***************************************************************************)
Classifications ==
  {"NON_ACTIONABLE", "OUT_OF_SCOPE", "CONFLICTS_WITH_SPEC", "UNCERTAIN", "ACTIONABLE"}

\* An answer: its class, whether the confidence reaches the threshold, and the
\* paths it refers to: none, all inside of the scope, or some outside.
AllAnswers ==
  [ class : Classifications, confident : BOOLEAN, paths : {"none", "inside", "outside"} ]

\* How a request may end: without an answer, with an HTTP status, with a body
\* that is no JSON or no object, or with a completion.
Transport ==
  {"no key", "other provider", "timeout", "unreachable", "HTTP 429", "HTTP 4xx", "HTTP 5xx",
   "cut off", "no JSON", "no object", "completion"}

\* A completion: its first choice, why it ended, its message, whether that is a
\* refusal, and its content, of which the last one fits the schema.
Completions ==
  [ choice : {"none", "odd", "first"},
    finish : {"absent", "stop", "length", "content_filter", "tool_calls"},
    message : BOOLEAN, refusal : BOOLEAN,
    content : {"empty", "no JSON", "no object", "misfit", "answer"} ]

-----------------------------------------------------------------------------
(* The code of the error each of them raises; "none" if there is an answer *)

\* The body is not read, or not decoded, by a handler of its own.
Unforeseen == {"cut off", "no JSON"}

classifier_error_for_http(status) ==
  IF status = "HTTP 429" THEN "CLASSIFIER_API_RATE_LIMIT" ELSE "CLASSIFIER_API_FAILURE"

_openai_chat_completions(t) ==
  CASE t = "timeout"      -> "CLASSIFIER_API_TIMEOUT"
    [] t = "unreachable"  -> "CLASSIFIER_API_NETWORK"
    [] t \in {"HTTP 429", "HTTP 4xx", "HTTP 5xx"} -> classifier_error_for_http(t)
    [] t \in Unforeseen   -> "INTERNAL_FAILURE"
    [] t = "no object"    -> "CLASSIFIER_API_FAILURE"
    [] t = "completion"   -> "none"

parse_classification_payload(content) ==
  IF content = "misfit" THEN "INVALID_CLASSIFIER_JSON" ELSE "none"

_extract_message_json(c) ==
  CASE c.choice # "first"                  -> "CLASSIFIER_INCOMPLETE"
    [] c.choice = "first" /\ c.finish \notin {"absent", "stop"} ->
         IF c.finish = "content_filter" THEN "CLASSIFIER_REFUSAL" ELSE "CLASSIFIER_INCOMPLETE"
    [] OTHER ->
         CASE ~c.message                   -> "CLASSIFIER_INCOMPLETE"
           [] c.message /\ c.refusal       -> "CLASSIFIER_REFUSAL"
           [] c.message /\ ~c.refusal      ->
                CASE c.content = "empty"   -> "CLASSIFIER_INCOMPLETE"
                  [] c.content \in {"no JSON", "no object"} -> "INVALID_CLASSIFIER_JSON"
                  [] OTHER                 -> parse_classification_payload(c.content)

classify_review_comment(t, c) ==
  CASE t = "no key"                -> "MISSING_CLASSIFIER_API_KEY"
    [] t = "completion"            -> _extract_message_json(c)
    [] t \in Transport \ {"no key", "other provider", "completion"} ->
         _openai_chat_completions(t)

_classify(t, c) ==
  IF t = "other provider" THEN "CLASSIFIER_API_FAILURE" ELSE classify_review_comment(t, c)

ClassifierErrors == {_classify(t, c) : t \in Transport, c \in Completions} \ {"none"}

-----------------------------------------------------------------------------
(* What the review makes of an error *)

CLASSIFIER_FAIL_CLOSED ==
  {"INVALID_CLASSIFIER_JSON", "CLASSIFIER_REFUSAL", "CLASSIFIER_INCOMPLETE"}

RETRYABLE_CODES ==
  {"GITHUB_API_FAILURE", "MISSING_CLASSIFIER_API_KEY", "CLASSIFIER_API_FAILURE",
   "CLASSIFIER_API_TIMEOUT", "CLASSIFIER_API_NETWORK", "CLASSIFIER_API_RATE_LIMIT"}

\* classify_control_plane_error: an outage, of this service or of GitHub, fails the
\* review; what is unknown escalates.
OutcomeOfError(code) == IF code \in RETRYABLE_CODES THEN "FAILED" ELSE "ESCALATED"

\* The reasons that are told apart: the item, an outage, or neither.
ReasonOfError(code) ==
  CASE code \in CLASSIFIER_FAIL_CLOSED -> "classifier"
    [] code \in RETRYABLE_CODES        -> "outage"
    [] OTHER                           -> "INTERNAL_FAILURE"

\* The errors that are not about the item.
Outages == ClassifierErrors \ CLASSIFIER_FAIL_CLOSED
=============================================================================
