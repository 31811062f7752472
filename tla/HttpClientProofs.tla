-------------------------- MODULE HttpClientProofs --------------------------
(***************************************************************************)
(* Proofs about a call of the HTTP client, for any number of retries, any  *)
(* timeout and any delay.                                                  *)
(***************************************************************************)
EXTENDS HttpClient, TLAPS

-----------------------------------------------------------------------------
(* The inductive invariant. *)

Types ==
    /\ pc \in {"idle", "delay", "send", "await", "done"}
    /\ retries \in Retries \cup {0}
    /\ attempt \in Nat
    /\ attempt <= retries
    /\ last \in Outcome \cup {"none"}
    /\ sent \in Nat
    /\ elapsed \in Nat
    /\ result \in {"none", "response", "error"}

\* How often the request has gone out, by the loop's counter.
Counts == sent = IF pc \in {"await", "done"} THEN attempt + 1 ELSE attempt

\* The loop goes on only after an overload.
Reasons ==
    /\ pc = "idle" => attempt = 0 /\ last = "none"
    /\ pc # "done" => last \in {"none", "noResponse", "busy"} /\ result = "none"
    /\ result = "error" => last \in {"refused", "broken"} \/ attempt = retries

\* n attempts and the delays before d retries.
Budget(n, d) == 2 * n * Timeout + RetryDelay * d * (d + 1)

\* A delay that has not begun is counted as spent.
Time ==
    /\ pc = "delay" => 2 * elapsed + 2 * RetryDelay * attempt <= Budget(attempt, attempt)
    /\ pc \in {"idle", "send", "await"} => 2 * elapsed <= Budget(attempt, attempt)
    /\ pc = "done" => 2 * elapsed <= Budget(attempt + 1, attempt)

Inv == Types /\ Counts /\ Reasons /\ Time

-----------------------------------------------------------------------------
(* Arithmetic. *)

LEMMA RetriesNatural == Types => retries \in Nat
BY HttpClientAssumption DEF Types

LEMMA ProductMonotone ==
    ASSUME NEW a \in Nat, NEW b \in Nat, NEW c \in Nat, a <= b
    PROVE  c * a <= c * b
OBVIOUS

\* One more attempt, and the delay before it, stay within the budget.
LEMMA BudgetGrows ==
    ASSUME NEW a \in Nat
    PROVE  /\ Budget(a, a) \in Nat
           /\ Budget(a + 1, a) = Budget(a, a) + 2 * Timeout
           /\ Budget(a + 1, a + 1) = Budget(a + 1, a) + 2 * RetryDelay * (a + 1)
BY HttpClientAssumption DEF Budget

\* A budget for more attempts is no smaller.
LEMMA BudgetMonotone ==
    ASSUME NEW a \in Nat, NEW n \in Nat, a <= n
    PROVE  Budget(a + 1, a) <= Budget(n + 1, n)
<1>1. Timeout * (a + 1) <= Timeout * (n + 1)
      BY ProductMonotone, HttpClientAssumption
<1>2. a * (a + 1) <= n * (n + 1)
  <2>1. a * (a + 1) <= a * (n + 1)
        BY ProductMonotone
  <2>2. (n + 1) * a <= (n + 1) * n
        BY ProductMonotone
  <2> QED BY <2>1, <2>2
<1>3. RetryDelay * (a * (a + 1)) <= RetryDelay * (n * (n + 1))
      BY <1>2, ProductMonotone, HttpClientAssumption
<1> QED BY <1>1, <1>3, HttpClientAssumption DEF Budget

-----------------------------------------------------------------------------
(* The invariant is inductive. *)

LEMMA InitInv == Init => Inv
BY HttpClientAssumption, BudgetGrows DEF Init, Inv, Types, Counts, Reasons, Time

LEMMA CallInv ==
    ASSUME Inv, NEW n \in Retries, Call(n) PROVE Inv'
BY HttpClientAssumption DEF Inv, Types, Counts, Reasons, Time, Call, Budget

LEMMA DelayInv ==
    ASSUME Inv, Delay PROVE Inv'
<1>1. Types' /\ Counts' /\ Reasons'
      BY HttpClientAssumption DEF Inv, Types, Counts, Reasons, Delay
<1>2. Time'
      BY HttpClientAssumption, BudgetGrows DEF Inv, Types, Time, Delay, Budget
<1> QED BY <1>1, <1>2 DEF Inv

LEMMA SendInv ==
    ASSUME Inv, Send PROVE Inv'
BY DEF Inv, Types, Counts, Reasons, Time, Send, Budget

LEMMA SettleInv ==
    ASSUME Inv, NEW outcome \in Outcome, NEW time \in 0 .. Timeout, Settle(outcome, time)
    PROVE  Inv'
<1>1. /\ attempt \in Nat /\ retries \in Nat /\ elapsed \in Nat /\ time \in Nat
      /\ time <= Timeout /\ Timeout \in Nat /\ RetryDelay \in Nat
      /\ 2 * elapsed <= Budget(attempt, attempt)
      BY HttpClientAssumption, RetriesNatural DEF Inv, Types, Time, Settle
<1>2. 2 * (elapsed + time) <= Budget(attempt + 1, attempt)
      BY <1>1, BudgetGrows
<1>3. CASE pc' = "done"
  <2>1. Types' /\ Counts' /\ Reasons'
        BY <1>1, <1>3 DEF Inv, Types, Counts, Reasons, Settle, ShouldRetry, Outcome
  <2>2. Time'
        BY <1>1, <1>2, <1>3 DEF Time, Settle, Budget
  <2> QED BY <2>1, <2>2 DEF Inv
<1>4. CASE pc' = "delay"
  <2>1. attempt' = attempt + 1 /\ ShouldRetry(outcome)
        BY <1>4 DEF Settle
  <2>2. Types' /\ Counts' /\ Reasons'
        BY <1>1, <1>4, <2>1 DEF Inv, Types, Counts, Reasons, Settle, ShouldRetry, Outcome
  <2>3. 2 * (elapsed + time) + 2 * RetryDelay * (attempt + 1)
            <= Budget(attempt + 1, attempt + 1)
        BY <1>1, <1>2, BudgetGrows
  <2>4. Time'
        BY <1>4, <2>1, <2>3 DEF Time, Settle, Budget
  <2> QED BY <2>2, <2>4 DEF Inv
<1> QED BY <1>3, <1>4 DEF Settle

LEMMA NextInv == Inv /\ [Next]_vars => Inv'
<1> SUFFICES ASSUME Inv, [Next]_vars PROVE Inv'
    OBVIOUS
<1>1. CASE Next
      BY <1>1, CallInv, DelayInv, SendInv, SettleInv DEF Next
<1>2. CASE UNCHANGED vars
      BY <1>2 DEF Inv, Types, Counts, Reasons, Time, Budget, vars
<1> QED BY <1>1, <1>2

\* The invariant holds in every reachable state.
THEOREM InvHolds == Spec => []Inv
BY InitInv, NextInv, PTL DEF Spec

-----------------------------------------------------------------------------
(* What follows from it. *)

\* Every reachable state of a call is well typed, and the loop's counter stays
\* within the retries that were asked for.
THEOREM TypeCorrect == Spec => []TypeOK
<1>1. Inv => TypeOK
      BY RetriesNatural DEF Inv, Types, TypeOK
<1> QED BY <1>1, InvHolds, PTL

\* A call of n retries takes at most n + 1 timeouts and the n growing delays.
THEOREM TimeIsBounded == Spec => []TimeBounded
<1>1. Inv => TimeBounded
  <2> SUFFICES ASSUME Inv PROVE TimeBounded
      OBVIOUS
  <2>1. /\ attempt \in Nat /\ retries \in Nat /\ attempt <= retries /\ elapsed \in Nat
        /\ Timeout \in Nat /\ RetryDelay \in Nat
        BY HttpClientAssumption, RetriesNatural DEF Inv, Types
  <2>2. 2 * elapsed <= Budget(attempt + 1, attempt)
    <3>1. 2 * RetryDelay * attempt \in Nat
          BY <2>1
    <3>2. Budget(attempt, attempt) \in Nat
          BY <2>1, BudgetGrows
    <3>3. Budget(attempt + 1, attempt) = Budget(attempt, attempt) + 2 * Timeout
          BY <2>1, BudgetGrows
    <3>4. CASE pc = "delay"
          BY <2>1, <3>1, <3>2, <3>3, <3>4 DEF Inv, Time
    <3>5. CASE pc # "delay"
          BY <2>1, <3>2, <3>3, <3>5 DEF Inv, Types, Time
    <3> QED BY <3>4, <3>5
  <2>3. 2 * elapsed <= Budget(retries + 1, retries)
    <3>1. Budget(attempt + 1, attempt) \in Nat /\ Budget(retries + 1, retries) \in Nat
          BY <2>1 DEF Budget
    <3> QED BY <2>1, <2>2, <3>1, BudgetMonotone
  <2> QED BY <2>3 DEF TimeBounded, Budget
<1> QED BY <1>1, InvHolds, PTL

\* A call fails for a final answer, or after all of its attempts.
THEOREM GivesUp == Spec => []GivesUpForAReason
<1>1. Inv => GivesUpForAReason
      BY RetriesNatural DEF Inv, Types, Counts, Reasons, GivesUpForAReason
<1> QED BY <1>1, InvHolds, PTL

\* No request goes out again after an answer that was not an overload.
THEOREM NotResent == Spec => NotResentOnceAnswered
<1>1. Inv /\ [Next]_vars => [sent' # sent => last \in {"none", "noResponse", "busy"}]_vars
      BY DEF Inv, Reasons, Next, Call, Delay, Send, Settle, vars
<1> QED BY <1>1, InvHolds, PTL DEF Spec, NotResentOnceAnswered
-----------------------------------------------------------------------------
(* A call that has begun runs out of steps. *)

\* The steps the call may still take: three for each retry it has left, and
\* those of the attempt it is at.
Remaining ==
    IF pc = "done" THEN 0
    ELSE 3 * (retries - attempt)
         + CASE pc = "delay" -> 3 [] pc = "send" -> 2 [] OTHER -> 1

\* A natural number that every step of a call in flight decreases: no answer of
\* the server, and no order of its failures, keeps the loop going for more than
\* three steps an attempt.  CallSettles needs, besides this, only that a call
\* in flight takes its next step.
THEOREM LoopRunsOut ==
    Spec => /\ [](Remaining \in Nat)
            /\ [][pc # "idle" => Remaining' < Remaining]_vars
<1>1. Inv => Remaining \in Nat
      BY RetriesNatural DEF Inv, Types, Remaining
<1>2. Inv /\ [Next]_vars => [pc # "idle" => Remaining' < Remaining]_vars
  <2> SUFFICES ASSUME Inv, Next, pc # "idle" PROVE Remaining' < Remaining
      OBVIOUS
  <2>1. retries \in Nat /\ attempt \in Nat /\ attempt <= retries
        BY RetriesNatural DEF Inv, Types
  <2>2. CASE Delay
        BY <2>1, <2>2 DEF Delay, Remaining
  <2>3. CASE Send
        BY <2>1, <2>3 DEF Send, Remaining
  <2>4. ASSUME NEW outcome \in Outcome, NEW time \in 0 .. Timeout, Settle(outcome, time)
        PROVE  Remaining' < Remaining
        BY <2>1, <2>4 DEF Settle, ShouldRetry, Remaining
  <2> QED BY <2>2, <2>3, <2>4 DEF Next, Call
<1> QED BY <1>1, <1>2, InvHolds, PTL DEF Spec
=============================================================================
