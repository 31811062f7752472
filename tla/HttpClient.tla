----------------------------- MODULE HttpClient -----------------------------
(***************************************************************************)
(* AxiosHttpClientAdapter.request: one call, its attempts, the delays      *)
(* between them and the time they take.  The content repositories make     *)
(* every call to Strapi through it; Content treats a whole call as one     *)
(* step, which this module justifies.                                      *)
(***************************************************************************)
EXTENDS Naturals

CONSTANTS
    Retries,     \* the numbers of retries callers ask for (the default is 3)
    Timeout,     \* time units one attempt may take (30 s)
    RetryDelay   \* units of delay before the first retry (1 s); it grows linearly

ASSUME HttpClientAssumption ==
    Retries \subseteq Nat /\ Timeout \in Nat /\ RetryDelay \in Nat

VARIABLES
    pc,        \* "idle", "delay", "send", "await" or "done"
    retries,   \* the call's number of retries
    attempt,   \* the loop's counter
    last,      \* what the last attempt came to, "none" before it has
    sent,      \* history: how many times the request went out
    elapsed,   \* history: the time the call has taken
    result     \* "none", "response" or "error"

vars == <<pc, retries, attempt, last, sent, elapsed, result>>

\* What an attempt comes to: a 2xx response; no response (refused, timed out);
\* a response of 5xx or 429; one of any other status; an error not of axios.
Outcome == {"ok", "noResponse", "busy", "refused", "broken"}

Init ==
    /\ pc = "idle"
    /\ retries = 0
    /\ attempt = 0
    /\ last = "none"
    /\ sent = 0
    /\ elapsed = 0
    /\ result = "none"

Call(n) ==
    /\ pc = "idle"
    /\ retries' = n
    /\ pc' = "send"
    /\ UNCHANGED <<attempt, last, sent, elapsed, result>>

\* Mutant: exponential delays.
DelayDoubling ==
    /\ pc = "delay"
    /\ elapsed' = elapsed + RetryDelay * 2 ^ attempt
    /\ pc' = "send"
    /\ UNCHANGED <<retries, attempt, last, sent, result>>

\* Mutant: the promise of the delay is never resolved.
DelayUnresolved ==
    /\ FALSE
    /\ UNCHANGED vars

\* Before a retry: the delay is proportional to the attempt.
Delay ==
    /\ pc = "delay"
    /\ elapsed' = elapsed + RetryDelay * attempt
    /\ pc' = "send"
    /\ UNCHANGED <<retries, attempt, last, sent, result>>

Send ==
    /\ pc = "send"
    /\ sent' = sent + 1
    /\ pc' = "await"
    /\ UNCHANGED <<retries, attempt, last, elapsed, result>>

\* Mutant: one attempt too many.
ShouldRetryOnceMore(outcome) ==
    attempt <= retries /\ outcome \in {"noResponse", "busy"}

\* Mutant: any axios error is retried.
ShouldRetryAny(outcome) ==
    attempt < retries /\ outcome \in {"noResponse", "busy", "refused"}

\* Mutant: a rate-limited or failing server is not asked again.
ShouldRetryNetwork(outcome) ==
    attempt < retries /\ outcome = "noResponse"

\* Network errors, 5xx and 429, while there are retries left.
ShouldRetry(outcome) ==
    attempt < retries /\ outcome \in {"noResponse", "busy"}

\* The attempt settles, after some time: return, retry, or throw the error.
Settle(outcome, time) ==
    /\ pc = "await"
    /\ last' = outcome
    /\ elapsed' = elapsed + time
    /\ IF outcome = "ok"
       THEN pc' = "done" /\ result' = "response" /\ UNCHANGED attempt
       ELSE IF ShouldRetry(outcome)
       THEN pc' = "delay" /\ attempt' = attempt + 1 /\ UNCHANGED result
       ELSE pc' = "done" /\ result' = "error" /\ UNCHANGED attempt
    /\ UNCHANGED <<retries, sent>>

Next ==
    \/ \E n \in Retries : Call(n)
    \/ Delay
    \/ Send
    \/ \E outcome \in Outcome, time \in 0 .. Timeout : Settle(outcome, time)

Spec == Init /\ [][Next]_vars

\* Timers fire, and axios settles every attempt within its timeout.
FairSpec == Spec /\ WF_vars(Delay \/ Send \/ \E o \in Outcome, t \in 0 .. Timeout : Settle(o, t))

-----------------------------------------------------------------------------
\* Every variable holds values of its type, and the counter counts attempts.
TypeOK ==
    /\ pc \in {"idle", "delay", "send", "await", "done"}
    /\ retries \in Retries \cup {0}
    /\ attempt \in 0 .. retries
    /\ last \in Outcome \cup {"none"}
    /\ sent \in Nat
    /\ elapsed \in Nat
    /\ result \in {"none", "response", "error"}

\* A caller waits for a bounded time: every attempt takes at most the timeout,
\* and the delays before the retries add up to a triangular number of them.
TimeBounded ==
    2 * elapsed <= 2 * (retries + 1) * Timeout + RetryDelay * retries * (retries + 1)

\* A request never goes out again once the server has answered it with anything
\* but an overload: not after a success, not after a 4xx.
NotResentOnceAnswered ==
    [][sent' # sent => last \in {"none", "noResponse", "busy"}]_vars

\* The client gives up for a reason: the last answer was final, or the request
\* went out the configured number of times and one more.
GivesUpForAReason ==
    result = "error" => last \in {"refused", "broken"} \/ sent = retries + 1

\* A call settles: whatever Strapi does, no content request hangs on it.
CallSettles == pc = "send" ~> pc = "done"
=============================================================================
