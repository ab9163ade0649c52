----------------------------- MODULE RestRequest -----------------------------
(***************************************************************************)
(* SignalWire::REST::HttpClient::_request: one HTTP call with its retries, *)
(* and the resolved RequestOptions that govern them.                       *)
(*                                                                         *)
(* What matters to the caller is how often the server acted on the request *)
(* and what it is told.  A transport failure is reported by HTTP::Tiny as  *)
(* status 599 whether or not the request reached the server.  Delays are   *)
(* left out.                                                               *)
(***************************************************************************)
EXTENDS Naturals

CONSTANTS Retries,     \* request_options: retries
          RetryOn      \* request_options: retry_on_status

ASSUME RestOptions == Retries \in Nat /\ RetryOn \subseteq 100..599

VARIABLES
  phase,     \* "idle", "loop" top of the loop, "sent", "answered"
  method,    \* of the current request
  attempt,   \* attempts made
  response,  \* status of the last response, 0 before the first
  outcome,   \* of the last request: "none", "result", "error", "transport",
             \* "cancelled"
  aborted,   \* the abort_signal is set
  applied,   \* history: how often the server acted on the current request
  lost       \* history: how often no response came back for it

request == <<phase, method, attempt, response, outcome, aborted, applied, lost>>

Methods    == {"GET", "POST"}             \* GET, PUT, DELETE ..; POST, PATCH
Idempotent == {"GET"}                     \* IDEMPOTENT_METHODS
Statuses   == {200, 404, 429, 500, 599}   \* one of each treatment

RequestTypeOK ==
  /\ phase \in {"idle", "loop", "sent", "answered"}
  /\ method \in Methods
  /\ attempt \in 0..(Retries + 1)
  /\ response \in Statuses \cup {0}
  /\ outcome \in {"none", "result", "error", "transport", "cancelled"}
  /\ aborted \in BOOLEAN
  /\ applied \in 0..(Retries + 1) /\ lost \in 0..(Retries + 1)

RequestInit ==
  /\ phase = "idle" /\ method = "GET" /\ attempt = 0 /\ response = 0
  /\ outcome = "none" /\ aborted = FALSE /\ applied = 0 /\ lost = 0

-----------------------------------------------------------------------------
(* A request is made. *)
Begin(m) ==
  /\ phase = "idle"
  /\ phase' = "loop" /\ method' = m /\ attempt' = 0 /\ response' = 0
  /\ outcome' = "none" /\ applied' = 0 /\ lost' = 0
  /\ UNCHANGED aborted

End(o) == phase' = "idle" /\ outcome' = o

(* The top of the loop: cancelled, or sent. *)
Attempt ==
  /\ phase = "loop"
  /\ attempt' = attempt + 1
  /\ IF aborted THEN End("cancelled") ELSE phase' = "sent" /\ UNCHANGED outcome
  /\ UNCHANGED <<method, response, aborted, applied, lost>>

(* Mutant of StatusIsRetryable: the method is not looked at. *)
StatusIsInSet(m, status) == status \in RetryOn

(* Idempotent methods on the whole set, the others only on throttling.     *)
StatusIsRetryable(m, status) ==
  status \in RetryOn /\ (m \in Idempotent \/ status \in {429, 503})

(* Mutant of Retryable: one attempt less. *)
RetryableOnceLess ==
  attempt < Retries /\ (response = 599 \/ StatusIsRetryable(method, response))

(* Transport failures are retried for every method.                        *)
Retryable ==
  attempt <= Retries /\ (response = 599 \/ StatusIsRetryable(method, response))

(* The loop body after the send: return, go round after a delay, or die.   *)
Conclude ==
  /\ phase = "answered"
  /\ IF response = 200 THEN End("result")
     ELSE IF Retryable THEN phase' = "loop" /\ UNCHANGED outcome
     ELSE End(IF response = 599 THEN "transport" ELSE "error")
  /\ UNCHANGED <<method, attempt, response, aborted, applied, lost>>

(* The application (a signal handler, another object) sets the signal.     *)
Abort ==
  /\ ~aborted /\ aborted' = TRUE
  /\ UNCHANGED <<phase, method, attempt, response, outcome, applied, lost>>

-----------------------------------------------------------------------------
(* The HTTP server and the network (not under src/): a throttled or        *)
(* rejected request is not acted on, a server error or a lost response     *)
(* leaves it open.                                                         *)
Respond(status) ==
  /\ phase = "sent"
  /\ phase' = "answered" /\ response' = status
  /\ applied' \in CASE status = 200          -> {applied + 1}
                    [] status \in {404, 429} -> {applied}
                    [] OTHER                 -> {applied, applied + 1}
  /\ lost' = IF status = 599 THEN lost + 1 ELSE lost
  /\ UNCHANGED <<method, attempt, outcome, aborted>>

RequestStep == Attempt \/ Conclude \/ \E s \in Statuses : Respond(s)

-----------------------------------------------------------------------------
(* What the caller is told is what the last response said: a result only   *)
(* if the server acted on the request, an error that was not worth another *)
(* attempt or had none left, and nothing at all once cancelled.            *)
OutcomeTruthful ==
  phase = "idle" =>
    /\ outcome = "result" => response = 200 /\ applied > 0
    /\ outcome = "error" => /\ response \notin {200, 599}
                            /\ StatusIsRetryable(method, response) => attempt = Retries + 1
    /\ outcome = "transport" => response = 599 /\ attempt = Retries + 1
    /\ outcome = "cancelled" => aborted

(* A POST or PATCH whose side effect "may have partially applied"          *)
(* (RequestOptions.pm) is not sent again: it acts more than once only when *)
(* responses were lost, for a transport failure is retried whatever the    *)
(* method is.                                                              *)
OnlyLossReplays == method \notin Idempotent => applied <= 1 + lost

-----------------------------------------------------------------------------
(* The invariant these two follow from: attempts are counted, an answer is *)
(* what the last attempt brought, and a method that is not idempotent only *)
(* goes round again when the server did not act or its answer was lost.    *)
AttemptsCounted ==
  /\ phase = "loop" => attempt <= Retries
  /\ phase \in {"sent", "answered"} => attempt >= 1
  /\ phase = "sent" => applied < attempt /\ lost < attempt
  /\ applied <= attempt /\ lost <= attempt
AnswerStands ==
  phase = "answered" => response \in Statuses /\ (response = 200 => applied > 0)
RoundsAreSafe == method \notin Idempotent =>
  /\ phase \in {"loop", "sent"} => applied <= lost
  /\ phase = "answered" /\ response \in {429, 599} => applied <= lost

RequestInv == /\ RequestTypeOK /\ AttemptsCounted /\ AnswerStands /\ RoundsAreSafe
              /\ OutcomeTruthful /\ OnlyLossReplays
=============================================================================
