--------------------------- MODULE ThrottleProofs ---------------------------
(***************************************************************************)
(* Proofs about rate limiting, for any addresses, routes, limits and ttls: *)
(* no throttler remembers a request, or stays closed, for longer than its  *)
(* ttl after a client's last request, so the Retry-After of registration   *)
(* is true wherever it announces the longest ttl of the configuration.     *)
(***************************************************************************)
EXTENDS Throttle, FunctionTheorems, FiniteSetTheorems, TLAPS

\* As in the shipped configuration, where registration's ttl is the longest
\* and the filter announces it.
RegisterAnnouncesLongest ==
    \A n \in Throttler : /\ Announced["register"] >= Config[n].ttl
                         /\ Announced["register"] >= Decorated[n].ttl

-----------------------------------------------------------------------------
(* The inductive invariant. *)

Types ==
    /\ DOMAIN life = Key
    /\ \A k \in Key :
          /\ DOMAIN life[k] = Throttler
          /\ \A n \in Throttler : life[k][n] \in [Slot(k, n) -> 0 .. Applied(k, n).ttl]
    /\ block \in [Key -> [Throttler -> 0 .. Longest]]
    /\ answer \in [Key -> {"none", "served", "refused"}]
    /\ idle \in [Key -> 0 .. Longest]
    /\ hasty \in [Key -> BOOLEAN]

\* What is left of a time t, of a throttler with that ttl, when the client has
\* been idle for so long.
Within(t, quiet, ttl) == t = 0 \/ t + quiet <= ttl

Recent ==
    \A k \in Key, n \in Throttler :
        /\ \A s \in Slot(k, n) : Within(life[k][n][s], idle[k], Applied(k, n).ttl)
        /\ Within(block[k][n], idle[k], Applied(k, n).ttl)

Inv == Types /\ Recent

-----------------------------------------------------------------------------
LEMMA AppliedSetting ==
    ASSUME NEW k \in Key, NEW n \in Throttler
    PROVE  /\ Applied(k, n).ttl \in Nat \ {0} /\ Applied(k, n).limit \in Nat \ {0}
           /\ Applied(k, n).ttl <= Longest /\ Longest \in Nat
BY ThrottleAssumption DEF Applied, Setting

LEMMA FreshTypes ==
    ASSUME NEW k \in Key
    PROVE  /\ DOMAIN Fresh(k) = Throttler
           /\ \A n \in Throttler : /\ Fresh(k)[n] \in [Slot(k, n) -> 0 .. Applied(k, n).ttl]
                                   /\ \A s \in Slot(k, n) : Fresh(k)[n][s] = 0
BY AppliedSetting DEF Fresh

\* No request is remembered, and no throttler closed.
LEMMA Cleared ==
    ASSUME life' = [k \in Key |-> Fresh(k)],
           block' = [k \in Key |-> [n \in Throttler |-> 0]],
           answer' \in [Key -> {"none", "served", "refused"}],
           idle' \in [Key -> 0 .. Longest], hasty' \in [Key -> BOOLEAN]
    PROVE  Inv'
<1>1. Types'
  <2>1. block' \in [Key -> [Throttler -> 0 .. Longest]]
        BY ThrottleAssumption
  <2>2. \A k \in Key : /\ DOMAIN life'[k] = Throttler
                       /\ \A n \in Throttler : life'[k][n] \in [Slot(k, n) -> 0 .. Applied(k, n).ttl]
        BY FreshTypes
  <2> QED BY <2>1, <2>2 DEF Types
<1>2. Recent'
      BY FreshTypes DEF Recent, Within
<1> QED BY <1>1, <1>2 DEF Inv

LEMMA InitInv == Init => Inv
<1> SUFFICES ASSUME Init PROVE Inv
    OBVIOUS
<1>1. block \in [Key -> [Throttler -> 0 .. Longest]] /\ idle \in [Key -> 0 .. Longest]
      BY ThrottleAssumption DEF Init
<1>2. Types
      BY <1>1, FreshTypes DEF Init, Types
<1>3. Recent
      BY FreshTypes DEF Init, Recent, Within
<1> QED BY <1>2, <1>3 DEF Inv

LEMMA RestartInv == Inv /\ Restart => Inv'
BY Cleared DEF Inv, Types, Restart

LEMMA ArriveInv ==
    ASSUME Inv, NEW c \in Key, Arrive(c)
    PROVE  Inv'
<1>1. KeyOf(c.address, c.route) = c
      BY DEF KeyOf, Key
<1>2. /\ idle' = [idle EXCEPT ![c] = 0]
      /\ hasty' = [hasty EXCEPT ![c] = hasty[c] \/ idle[c] < Pace]
      /\ answer' = [answer EXCEPT ![c] = IF LetThrough(c) THEN "served" ELSE "refused"]
      /\ life' = [life EXCEPT ![c] = [n \in Throttler |-> Counts(c, n)]]
      /\ block' = [block EXCEPT ![c] = [n \in Throttler |-> Closes(c, n)]]
      BY <1>1 DEF Arrive
<1>3. ASSUME NEW n \in Throttler
      PROVE  /\ Counts(c, n) \in [Slot(c, n) -> 0 .. Applied(c, n).ttl]
             /\ Closes(c, n) \in 0 .. Applied(c, n).ttl
  <2> DEFINE ttl == Applied(c, n).ttl
  <2>1. ttl \in 0 .. ttl /\ ttl \in Nat
        BY AppliedSetting
  <2>2. life[c][n] \in [Slot(c, n) -> 0 .. ttl]
        BY DEF Inv, Types
  <2>3. block[c][n] \in 0 .. ttl
    <3>1. block[c][n] \in Nat /\ idle[c] \in Nat /\ Within(block[c][n], idle[c], ttl)
          BY ThrottleAssumption DEF Inv, Types, Recent
    <3> QED BY <2>1, <3>1 DEF Within
  <2> HIDE DEF ttl
  <2>4. Counts(c, n) = life[c][n]
           \/ \E s : Counts(c, n) = [life[c][n] EXCEPT ![s] = ttl]
        BY DEF Counts, ttl
  <2>5. Closes(c, n) = ttl \/ Closes(c, n) = block[c][n]
        BY DEF Closes, ttl
  <2>6. Counts(c, n) \in [Slot(c, n) -> 0 .. ttl] /\ Closes(c, n) \in 0 .. ttl
        BY <2>1, <2>2, <2>3, <2>4, <2>5
  <2> QED BY <2>6 DEF ttl
<1>4. /\ DOMAIN life' = Key
      /\ \A n \in Throttler : life'[c][n] = Counts(c, n) /\ block'[c][n] = Closes(c, n)
      /\ DOMAIN life'[c] = Throttler
      /\ \A k \in Key \ {c} : life'[k] = life[k] /\ block'[k] = block[k] /\ idle'[k] = idle[k]
      /\ idle'[c] = 0
      BY <1>2 DEF Inv, Types
<1>5. Types'
  <2>1. \A k \in Key :
           /\ DOMAIN life'[k] = Throttler
           /\ \A n \in Throttler : life'[k][n] \in [Slot(k, n) -> 0 .. Applied(k, n).ttl]
    <3>1. /\ DOMAIN life'[c] = Throttler
          /\ \A n \in Throttler : life'[c][n] \in [Slot(c, n) -> 0 .. Applied(c, n).ttl]
          BY <1>3, <1>4
    <3>2. ASSUME NEW k \in Key, k # c
          PROVE  /\ DOMAIN life'[k] = Throttler
                 /\ \A n \in Throttler : life'[k][n] \in [Slot(k, n) -> 0 .. Applied(k, n).ttl]
          BY <1>4, <3>2 DEF Inv, Types
    <3> QED BY <3>1, <3>2
  <2>2. block' \in [Key -> [Throttler -> 0 .. Longest]]
    <3>1. \A n \in Throttler : Closes(c, n) \in 0 .. Longest
          BY <1>3, AppliedSetting
    <3> QED BY <1>2, <3>1 DEF Inv, Types
  <2>3. idle' \in [Key -> 0 .. Longest]
        BY <1>2, ThrottleAssumption DEF Inv, Types
  <2>4. answer' \in [Key -> {"none", "served", "refused"}]
        BY <1>2 DEF Inv, Types
  <2>5. hasty' \in [Key -> BOOLEAN]
        BY <1>2 DEF Inv, Types
  <2> QED BY <1>4, <2>1, <2>2, <2>3, <2>4, <2>5 DEF Types
<1>6. Recent'
  <2> SUFFICES ASSUME NEW k \in Key, NEW n \in Throttler
               PROVE  /\ \A s \in Slot(k, n) : Within(life'[k][n][s], idle'[k], Applied(k, n).ttl)
                      /\ Within(block'[k][n], idle'[k], Applied(k, n).ttl)
      BY DEF Recent
  <2>1. CASE k # c
        BY <1>4, <2>1 DEF Inv, Recent
  <2>2. CASE k = c
    <3>1. /\ Applied(c, n).ttl \in Nat
          /\ \A s \in Slot(c, n) : life'[c][n][s] \in 0 .. Applied(c, n).ttl
          /\ block'[c][n] \in 0 .. Applied(c, n).ttl
          BY <1>3, <1>4, AppliedSetting
    <3> QED BY <1>4, <2>2, <3>1 DEF Within
  <2> QED BY <2>1, <2>2
<1> QED BY <1>5, <1>6 DEF Inv

\* A unit of time less to come is one more of idleness, as far as it is told.
LEMMA LessWithin ==
    ASSUME NEW t \in Nat, NEW quiet \in 0 .. Longest, NEW ttl \in Nat, ttl <= Longest,
           Longest \in Nat, Within(t, quiet, ttl)
    PROVE  Within(Less(t), IF quiet < Longest THEN quiet + 1 ELSE Longest, ttl)
BY DEF Within, Less

LEMMA TickInv == Inv /\ Tick => Inv'
<1> SUFFICES ASSUME Inv, Tick PROVE Inv'
    OBVIOUS
<1>1. /\ life' = [k \in Key |-> [n \in Throttler |-> [s \in Slot(k, n) |-> Less(life[k][n][s])]]]
      /\ block' = [k \in Key |-> [n \in Throttler |-> Less(block[k][n])]]
      /\ idle' = [k \in Key |-> IF idle[k] < Longest THEN idle[k] + 1 ELSE Longest]
      /\ answer' = answer /\ hasty' = hasty
      BY DEF Tick
<1>2. ASSUME NEW bound \in Nat, NEW t \in 0 .. bound PROVE Less(t) \in 0 .. bound
      BY DEF Less
<1>3. Types'
  <2>1. ASSUME NEW k \in Key
        PROVE  /\ DOMAIN life'[k] = Throttler
               /\ \A n \in Throttler : life'[k][n] \in [Slot(k, n) -> 0 .. Applied(k, n).ttl]
    <3>1. \A n \in Throttler : life'[k][n] = [s \in Slot(k, n) |-> Less(life[k][n][s])]
          BY <1>1
    <3>2. \A n \in Throttler : \A s \in Slot(k, n) :
             Less(life[k][n][s]) \in 0 .. Applied(k, n).ttl
          BY <1>2, AppliedSetting DEF Inv, Types
    <3> QED BY <1>1, <3>1, <3>2
  <2>2. block' \in [Key -> [Throttler -> 0 .. Longest]]
    <3>1. \A k \in Key, n \in Throttler : Less(block[k][n]) \in 0 .. Longest
          BY <1>2, ThrottleAssumption DEF Inv, Types
    <3> QED BY <1>1, <3>1
  <2>3. idle' \in [Key -> 0 .. Longest]
        BY <1>1, ThrottleAssumption DEF Inv, Types
  <2> QED BY <1>1, <2>1, <2>2, <2>3 DEF Inv, Types
<1>4. Recent'
  <2> SUFFICES ASSUME NEW k \in Key, NEW n \in Throttler
               PROVE  /\ \A s \in Slot(k, n) : Within(life'[k][n][s], idle'[k], Applied(k, n).ttl)
                      /\ Within(block'[k][n], idle'[k], Applied(k, n).ttl)
      BY DEF Recent
  <2>1. /\ \A s \in Slot(k, n) : life[k][n][s] \in Nat
        /\ block[k][n] \in Nat /\ idle[k] \in 0 .. Longest
        BY AppliedSetting, ThrottleAssumption DEF Inv, Types
  <2>2. /\ \A s \in Slot(k, n) : Within(life[k][n][s], idle[k], Applied(k, n).ttl)
        /\ Within(block[k][n], idle[k], Applied(k, n).ttl)
        BY DEF Inv, Recent
  <2>3. /\ \A s \in Slot(k, n) : life'[k][n][s] = Less(life[k][n][s])
        /\ block'[k][n] = Less(block[k][n])
        /\ idle'[k] = IF idle[k] < Longest THEN idle[k] + 1 ELSE Longest
        BY <1>1
  <2> QED BY <2>1, <2>2, <2>3, AppliedSetting, LessWithin
<1> QED BY <1>3, <1>4 DEF Inv

LEMMA NextInv == Inv /\ [Next]_vars => Inv'
<1> SUFFICES ASSUME Inv, [Next]_vars PROVE Inv'
    OBVIOUS
<1>1. CASE UNCHANGED vars
      BY <1>1 DEF vars, Inv, Types, Recent
<1> QED BY <1>1, ArriveInv, TickInv, RestartInv DEF Next

LEMMA InvHolds == Spec => []Inv
<1>1. Init => Inv
      BY InitInv
<1>2. Inv /\ [Next]_vars => Inv'
      BY NextInv
<1> QED BY <1>1, <1>2, PTL DEF Spec

-----------------------------------------------------------------------------
\* After the longest ttl nothing is remembered and nothing is closed.
LEMMA RestedServed ==
    ASSUME Inv, NEW c \in Key, \A n \in Throttler : Applied(c, n).ttl <= idle[c]
    PROVE  LetThrough(c)
<1> SUFFICES ASSUME NEW n \in Throttler PROVE ~Closed(c, n) /\ ~Full(c, n)
    BY DEF LetThrough, Refuses
<1>1. /\ Applied(c, n).ttl \in Nat /\ 1 \in Slot(c, n)
      /\ block[c][n] \in Nat /\ idle[c] \in Nat /\ life[c][n][1] \in Nat
      BY AppliedSetting DEF Inv, Types, Slot
<1>2. block[c][n] = 0 /\ life[c][n][1] = 0
      BY <1>1 DEF Inv, Recent, Within
<1> QED BY <1>1, <1>2 DEF Closed, Full

\* What /auth/register tells a refused client is true, whichever throttler
\* refused it, where it announces the longest ttl.
THEOREM RetryAfterTrue == RegisterAnnouncesLongest => (Spec => RegisterRetryAfter)
<1> SUFFICES ASSUME RegisterAnnouncesLongest PROVE Spec => RegisterRetryAfter
    OBVIOUS
<1>1. Inv => \A c \in Key : /\ c.route = "register" /\ answer[c] = "refused"
                           /\ idle[c] >= RetryAfter(c.route)
                           /\ Arrive(c)
                           => answer'[c] = "served"
  <2> SUFFICES ASSUME Inv, NEW c \in Key, c.route = "register",
                      idle[c] >= RetryAfter(c.route), Arrive(c)
               PROVE  answer'[c] = "served"
      OBVIOUS
  <2>1. ASSUME NEW n \in Throttler PROVE Applied(c, n).ttl <= idle[c]
    <3>1. RetryAfter(c.route) = Announced["register"]
          BY DEF RetryAfter
    <3>2. c.route \in Throttler
          BY ThrottleAssumption DEF Key
    <3>3. Announced["register"] \in Nat /\ idle[c] \in Nat
          BY <3>2, ThrottleAssumption DEF Inv, Types
    <3>4. Announced["register"] >= Applied(c, n).ttl
          BY DEF Applied, RegisterAnnouncesLongest
    <3> QED BY <3>1, <3>3, <3>4, AppliedSetting
  <2>2. LetThrough(c)
        BY <2>1, RestedServed
  <2>3. KeyOf(c.address, c.route) = c
        BY DEF KeyOf, Key
  <2> QED BY <2>2, <2>3 DEF Arrive, Inv, Types
<1>2. Inv => [\A c \in Key :
                 /\ c.route = "register" /\ answer[c] = "refused"
                 /\ idle[c] >= RetryAfter(c.route)
                 /\ Arrive(c)
                 => answer'[c] = "served"]_vars
      BY <1>1
<1>3. Spec => []Inv
      BY InvHolds
<1> QED BY <1>2, <1>3, PTL DEF RegisterRetryAfter

-----------------------------------------------------------------------------
(* How often a handler runs.                                               *)

\* Every run within the ttl of a throttler is one of the requests that the
\* throttler remembers, and the age of the one and the life of the other add up.
Remembers(k, n, f) ==
    /\ f \in [Runs(k, Applied(k, n).ttl) -> Slot(k, n)]
    /\ \A p, q \in Runs(k, Applied(k, n).ttl) : f[p] = f[q] => p = q
    /\ \A p \in Runs(k, Applied(k, n).ttl) : life[k][n][f[p]] = Applied(k, n).ttl - p[1]

RunsInv ==
    /\ served \in [Key -> [Age -> Nat]]
    /\ \A k \in Key, n \in Throttler : \E f : Remembers(k, n, f)

LEMMA RunsMembers ==
    ASSUME NEW k, NEW ttl, NEW p
    PROVE  p \in Runs(k, ttl) <=>
              \E age \in 0 .. ttl - 1 : \E i \in 1 .. served[k][age] : p = <<age, i>>
BY DEF Runs

\* Where no request has been let through, there is nothing to remember.
LEMMA NothingRan ==
    ASSUME NEW k \in Key, NEW n \in Throttler, served[k] = NeverRan
    PROVE  \E f : Remembers(k, n, f)
<1>1. Runs(k, Applied(k, n).ttl) = {}
  <2> SUFFICES ASSUME NEW age \in 0 .. Applied(k, n).ttl - 1, NEW i \in 1 .. served[k][age]
               PROVE  FALSE
      BY RunsMembers
  <2>1. age \in Age
        BY AppliedSetting DEF Age
  <2> QED BY <2>1 DEF NeverRan
<1>2. [p \in {} |-> 1] \in [{} -> Slot(k, n)]
      OBVIOUS
<1>3. Remembers(k, n, [p \in {} |-> 1])
      BY <1>1, <1>2 DEF Remembers
<1> QED BY <1>3

LEMMA NeverRanTyped == NeverRan \in [Age -> Nat]
BY DEF NeverRan

LEMMA InitRuns == Init => RunsInv
<1> SUFFICES ASSUME Init PROVE RunsInv
    OBVIOUS
<1>1. served = [k \in Key |-> NeverRan]
      BY DEF Init
<1> QED BY <1>1, NothingRan, NeverRanTyped DEF RunsInv

\* The handler of c runs: every throttler had a slot left, and takes it.
LEMMA LetThroughCounts ==
    ASSUME Inv, NEW c \in Key, LetThrough(c), NEW n \in Throttler
    PROVE  \E s \in Slot(c, n) :
              /\ life[c][n][s] = 0
              /\ Counts(c, n) = [life[c][n] EXCEPT ![s] = Applied(c, n).ttl]
<1>1. n \in Asked(c) /\ ~Refuses(c, n)
      BY DEF LetThrough, Asked
<1>2. \E s \in Slot(c, n) : life[c][n][s] = 0
  <2>1. PICK s \in Slot(c, n) : ~(life[c][n][s] > 0)
        BY <1>1 DEF Refuses, Full
  <2>2. life[c][n][s] \in Nat
        BY AppliedSetting DEF Inv, Types
  <2> QED BY <2>1, <2>2
<1> DEFINE s == CHOOSE s \in Slot(c, n) : life[c][n][s] = 0
<1>3. s \in Slot(c, n) /\ life[c][n][s] = 0
      BY <1>2
<1>4. Counts(c, n) = [life[c][n] EXCEPT ![s] = Applied(c, n).ttl]
      BY <1>1 DEF Counts
<1> QED BY <1>3, <1>4

\* A throttler that takes a request forgets none of those it remembers.
LEMMA CountsKeeps ==
    ASSUME Inv, NEW c \in Key, NEW n \in Throttler, NEW s \in Slot(c, n), life[c][n][s] > 0
    PROVE  Counts(c, n)[s] = life[c][n][s]
<1> DEFINE free == CHOOSE t \in Slot(c, n) : life[c][n][t] = 0
<1>1. life[c][n] \in [Slot(c, n) -> 0 .. Applied(c, n).ttl]
      BY DEF Inv, Types
<1>2. CASE Counts(c, n) = life[c][n]
      BY <1>2
<1>3. CASE ~Refuses(c, n) /\ Counts(c, n) = [life[c][n] EXCEPT ![free] = Applied(c, n).ttl]
  <2>1. \E t \in Slot(c, n) : life[c][n][t] = 0
    <3>1. PICK t \in Slot(c, n) : ~(life[c][n][t] > 0)
          BY <1>3 DEF Refuses, Full
    <3>2. life[c][n][t] \in Nat
          BY <1>1, AppliedSetting
    <3> QED BY <3>1, <3>2
  <2>2. free \in Slot(c, n) /\ life[c][n][free] = 0
        BY <2>1
  <2>3. free # s
    <3> HIDE DEF free
    <3> QED BY <2>2
  <2> QED BY <1>1, <1>3, <2>3
<1> QED BY <1>2, <1>3 DEF Counts

LEMMA ArriveFacts ==
    ASSUME Inv, NEW c \in Key, Arrive(c)
    PROVE  /\ idle' = [idle EXCEPT ![c] = 0]
           /\ hasty' = [hasty EXCEPT ![c] = hasty[c] \/ idle[c] < Pace]
           /\ answer' = [answer EXCEPT ![c] = IF LetThrough(c) THEN "served" ELSE "refused"]
           /\ \A n \in Throttler : life'[c][n] = Counts(c, n) /\ block'[c][n] = Closes(c, n)
           /\ \A k \in Key \ {c} : life'[k] = life[k] /\ block'[k] = block[k]
           /\ served' = IF LetThrough(c) THEN [served EXCEPT ![c][0] = @ + 1] ELSE served
<1>1. KeyOf(c.address, c.route) = c
      BY DEF KeyOf, Key
<1>2. /\ life' = [life EXCEPT ![c] = [n \in Throttler |-> Counts(c, n)]]
      /\ block' = [block EXCEPT ![c] = [n \in Throttler |-> Closes(c, n)]]
      BY <1>1 DEF Arrive
<1>3. DOMAIN life = Key /\ DOMAIN block = Key
      BY DEF Inv, Types
<1>4. /\ \A n \in Throttler : life'[c][n] = Counts(c, n) /\ block'[c][n] = Closes(c, n)
      /\ \A k \in Key \ {c} : life'[k] = life[k] /\ block'[k] = block[k]
      BY <1>2, <1>3
<1> QED BY <1>1, <1>4 DEF Arrive

\* What a throttler remembers of runs that are not touched, it still remembers.
LEMMA RunsKept ==
    ASSUME Inv, NEW k \in Key, NEW n \in Throttler, NEW f, Remembers(k, n, f),
           served'[k] = served[k],
           \A s \in Slot(k, n) : life[k][n][s] > 0 => life'[k][n][s] = life[k][n][s]
    PROVE  Remembers(k, n, f)'
<1> DEFINE ttl == Applied(k, n).ttl
<1>1. Runs(k, ttl)' = Runs(k, ttl)
      BY DEF Runs
<1>2. ASSUME NEW p \in Runs(k, ttl)
      PROVE  life'[k][n][f[p]] = ttl - p[1]
  <2>1. PICK age \in 0 .. ttl - 1 : \E i \in 1 .. served[k][age] : p = <<age, i>>
        BY RunsMembers
  <2>2. life[k][n][f[p]] = ttl - age /\ f[p] \in Slot(k, n) /\ p[1] = age
        BY <2>1 DEF Remembers
  <2>3. ttl - age > 0
        BY AppliedSetting
  <2> QED BY <2>2, <2>3
<1> QED BY <1>1, <1>2 DEF Remembers

LEMMA ArriveRuns ==
    ASSUME Inv, RunsInv, NEW c \in Key, Arrive(c)
    PROVE  RunsInv'
<1>1. served' \in [Key -> [Age -> Nat]]
  <2>1. served' = IF LetThrough(c) THEN [served EXCEPT ![c][0] = @ + 1] ELSE served
        BY ArriveFacts
  <2>2. served[c] \in [Age -> Nat]
        BY DEF RunsInv
  <2>3. [served[c] EXCEPT ![0] = @ + 1] \in [Age -> Nat]
    <3>1. CASE 0 \in Age
      <4>1. served[c][0] + 1 \in Nat
            BY <2>2, <3>1
      <4> QED BY <2>2, <4>1
    <3>2. CASE 0 \notin Age
      <4>1. [served[c] EXCEPT ![0] = @ + 1] = served[c]
            BY <2>2, <3>2
      <4> QED BY <2>2, <4>1
    <3> QED BY <3>1, <3>2
  <2> QED BY <2>1, <2>3 DEF RunsInv
<1>2. ASSUME NEW k \in Key, NEW n \in Throttler, served'[k] = served[k]
      PROVE  \E f : Remembers(k, n, f)'
  <2>1. PICK f : Remembers(k, n, f)
        BY DEF RunsInv
  <2>2. \A s \in Slot(k, n) : life[k][n][s] > 0 => life'[k][n][s] = life[k][n][s]
        BY ArriveFacts, CountsKeeps
  <2> QED BY <1>2, <2>1, <2>2, RunsKept
<1>3. ASSUME LetThrough(c), NEW n \in Throttler
      PROVE  \E f : Remembers(c, n, f)'
  <2> DEFINE ttl == Applied(c, n).ttl
             new == <<0, served[c][0] + 1>>
  <2>1. PICK f : Remembers(c, n, f)
        BY DEF RunsInv
  <2>2. PICK s \in Slot(c, n) : /\ life[c][n][s] = 0
                                /\ Counts(c, n) = [life[c][n] EXCEPT ![s] = ttl]
        BY <1>3, LetThroughCounts
  <2>3. ttl \in Nat \ {0} /\ ttl <= Longest /\ Longest \in Nat
        BY AppliedSetting
  <2>4. 0 \in Age /\ served[c] \in [Age -> Nat]
        BY <2>3 DEF Age, RunsInv
  <2>5. served'[c] = [served[c] EXCEPT ![0] = served[c][0] + 1]
        BY <1>3, ArriveFacts DEF RunsInv
  <2>6. Runs(c, ttl)' = Runs(c, ttl) \cup {new} /\ new \notin Runs(c, ttl)
    <3>1. ASSUME NEW age \in 0 .. ttl - 1
          PROVE  served'[c][age] = IF age = 0 THEN served[c][0] + 1 ELSE served[c][age]
          BY <2>3, <2>4, <2>5 DEF Age
    <3>2. \A p : p \in Runs(c, ttl)' <=>
             \E age \in 0 .. ttl - 1 : \E i \in 1 .. served'[c][age] : p = <<age, i>>
          BY DEF Runs
    <3>3. \A p : p \in Runs(c, ttl) <=>
             \E age \in 0 .. ttl - 1 : \E i \in 1 .. served[c][age] : p = <<age, i>>
          BY DEF Runs
    <3>4. 0 \in 0 .. ttl - 1 /\ served[c][0] \in Nat
          BY <2>3, <2>4
    <3>5. ASSUME NEW p \in Runs(c, ttl)' PROVE p \in Runs(c, ttl) \cup {new}
          BY <3>1, <3>2, <3>3, <3>4
    <3>6. ASSUME NEW p \in Runs(c, ttl) PROVE p \in Runs(c, ttl)'
          BY <3>1, <3>2, <3>3, <3>4
    <3>7. new \in Runs(c, ttl)'
          BY <3>1, <3>2, <3>4
    <3>8. new \notin Runs(c, ttl)
          BY <3>3, <3>4
    <3> QED BY <3>5, <3>6, <3>7, <3>8
  <2>7. life'[c][n] = [life[c][n] EXCEPT ![s] = ttl]
        BY <2>2, ArriveFacts
  <2>8. life[c][n] \in [Slot(c, n) -> 0 .. ttl]
        BY DEF Inv, Types
  <2>9. ASSUME NEW p \in Runs(c, ttl)
        PROVE  f[p] \in Slot(c, n) /\ f[p] # s /\ life'[c][n][f[p]] = ttl - p[1]
    <3>1. PICK age \in 0 .. ttl - 1 : \E i \in 1 .. served[c][age] : p = <<age, i>>
          BY RunsMembers
    <3>2. life[c][n][f[p]] = ttl - age /\ f[p] \in Slot(c, n) /\ p[1] = age
          BY <2>1, <3>1 DEF Remembers
    <3>3. ttl - age > 0
          BY <2>3
    <3> QED BY <2>2, <2>7, <2>8, <3>2, <3>3
  <2> DEFINE g == [p \in Runs(c, ttl) \cup {new} |-> IF p = new THEN s ELSE f[p]]
  <2>10. \A p \in Runs(c, ttl) : g[p] = f[p]
         BY <2>6
  <2>11. g[new] = s /\ life'[c][n][s] = ttl - new[1]
         BY <2>2, <2>3, <2>7, <2>8
  <2>12. g \in [Runs(c, ttl)' -> Slot(c, n)]
         BY <2>6, <2>9
  <2>13. ASSUME NEW p \in Runs(c, ttl)', NEW q \in Runs(c, ttl)', g[p] = g[q]
         PROVE  p = q
    <3>1. \A x, y \in Runs(c, ttl) : f[x] = f[y] => x = y
          BY <2>1 DEF Remembers
    <3> HIDE DEF g, new
    <3> QED BY <2>6, <2>9, <2>10, <2>11, <2>13, <3>1
  <2>14. \A p \in Runs(c, ttl)' : life'[c][n][g[p]] = ttl - p[1]
    <3> HIDE DEF g, new
    <3> QED BY <2>6, <2>9, <2>10, <2>11
  <2>15. ASSUME NEW h, h = g PROVE Remembers(c, n, h)'
    <3> HIDE DEF g
    <3> QED BY <2>12, <2>13, <2>14, <2>15 DEF Remembers, Applied, Slot
  <2> HIDE DEF g
  <2> QED BY <2>15
<1>4. \A k \in Key : served'[k] = served[k] \/ (k = c /\ LetThrough(c))
      BY ArriveFacts DEF RunsInv
<1> QED BY <1>1, <1>2, <1>3, <1>4 DEF RunsInv

LEMMA TickRuns == Inv /\ RunsInv /\ Tick => RunsInv'
<1> SUFFICES ASSUME Inv, RunsInv, Tick PROVE RunsInv'
    OBVIOUS
<1>1. /\ life' = [k \in Key |-> [n \in Throttler |-> [s \in Slot(k, n) |-> Less(life[k][n][s])]]]
      /\ served' = [k \in Key |->
            [age \in Age |-> IF age = 0 THEN 0 ELSE served[k][age - 1]]]
      BY DEF Tick
<1>2. served' \in [Key -> [Age -> Nat]]
  <2>1. ASSUME NEW k \in Key, NEW age \in Age
        PROVE  (IF age = 0 THEN 0 ELSE served[k][age - 1]) \in Nat
        BY ThrottleAssumption DEF Age, RunsInv
  <2> QED BY <1>1, <2>1
<1>3. ASSUME NEW k \in Key, NEW n \in Throttler
      PROVE  \E f : Remembers(k, n, f)'
  <2> DEFINE ttl == Applied(k, n).ttl
             Younger(p) == <<p[1] - 1, p[2]>>
             After == UNION {{age} \X (1 .. served'[k][age]) : age \in 0 .. ttl - 1}
  <2>1. PICK f : Remembers(k, n, f)
        BY DEF RunsInv
  <2>2. ttl \in Nat \ {0} /\ ttl <= Longest /\ Longest \in Nat
        BY AppliedSetting
  <2>3. ASSUME NEW p \in After
        PROVE  \E age \in 1 .. ttl - 1 : \E i :
                  p = <<age, i>> /\ Younger(p) = <<age - 1, i>> /\ Younger(p) \in Runs(k, ttl)
    <3>1. PICK age \in 0 .. ttl - 1 : \E i \in 1 .. served'[k][age] : p = <<age, i>>
          OBVIOUS
    <3>2. age \in Age
          BY <2>2 DEF Age
    <3>3. served'[k][age] = IF age = 0 THEN 0 ELSE served[k][age - 1]
          BY <1>1, <3>2
    <3>4. PICK i \in 1 .. served'[k][age] : p = <<age, i>>
          BY <3>1
    <3>5. age # 0
          BY <3>3, <3>4
    <3>6. age - 1 \in 0 .. ttl - 1 /\ age \in 1 .. ttl - 1 /\ i \in 1 .. served[k][age - 1]
          BY <2>2, <3>3, <3>4, <3>5
    <3>7. Younger(p) = <<age - 1, i>>
          BY <3>4
    <3>8. Younger(p) \in Runs(k, ttl)
          BY <3>6, <3>7, RunsMembers
    <3> QED BY <3>4, <3>6, <3>7, <3>8
  <2> DEFINE g == [p \in After |-> f[Younger(p)]]
  <2>4. g \in [After -> Slot(k, n)]
        BY <2>1, <2>3 DEF Remembers
  <2>5. ASSUME NEW p \in After, NEW q \in After, g[p] = g[q]
        PROVE  p = q
    <3>1. Younger(p) = Younger(q)
          BY <2>1, <2>3, <2>5 DEF Remembers
    <3>2. PICK a \in 1 .. ttl - 1 : \E i : p = <<a, i>> /\ Younger(p) = <<a - 1, i>>
          BY <2>3
    <3>3. PICK b \in 1 .. ttl - 1 : \E j : q = <<b, j>> /\ Younger(q) = <<b - 1, j>>
          BY <2>3
    <3> HIDE DEF Younger
    <3>4. PICK i, j : /\ p = <<a, i>> /\ Younger(p) = <<a - 1, i>>
                      /\ q = <<b, j>> /\ Younger(q) = <<b - 1, j>>
          BY <3>2, <3>3
    <3>5. a - 1 = b - 1 /\ i = j
          BY <3>1, <3>4
    <3> QED BY <2>2, <3>2, <3>3, <3>4, <3>5
  <2>6. ASSUME NEW p \in After
        PROVE  life'[k][n][g[p]] = ttl - p[1]
    <3>1. PICK age \in 1 .. ttl - 1 : \E i :
             p = <<age, i>> /\ Younger(p) = <<age - 1, i>> /\ Younger(p) \in Runs(k, ttl)
          BY <2>3
    <3>2. p[1] = age /\ Younger(p)[1] = age - 1 /\ Younger(p) \in Runs(k, ttl)
          BY <3>1
    <3>3. life[k][n][f[Younger(p)]] = ttl - (age - 1) /\ f[Younger(p)] \in Slot(k, n)
          BY <2>1, <3>2 DEF Remembers
    <3>4. life'[k][n][g[p]] = Less(ttl - (age - 1))
          BY <1>1, <3>3
    <3> QED BY <2>2, <3>2, <3>4 DEF Less
  <2>7. ASSUME NEW h, h = g PROVE Remembers(k, n, h)'
    <3>1. Applied(k, n).ttl' = ttl /\ Slot(k, n)' = Slot(k, n)
          BY DEF Applied, Slot
    <3>2. Runs(k, Applied(k, n).ttl)' = After
          BY DEF Runs, Applied
    <3> HIDE DEF g, After, ttl
    <3> QED BY <2>4, <2>5, <2>6, <2>7, <3>1, <3>2 DEF Remembers, Applied, Slot
  <2> HIDE DEF g
  <2> QED BY <2>7
<1> QED BY <1>2, <1>3 DEF RunsInv

LEMMA NextRuns == Inv /\ RunsInv /\ [Next]_vars => RunsInv'
<1> SUFFICES ASSUME Inv, RunsInv, [Next]_vars PROVE RunsInv'
    OBVIOUS
<1>1. CASE Restart
  <2>1. served' = [k \in Key |-> NeverRan]
        BY <1>1 DEF Restart
  <2>2. ASSUME NEW k \in Key, NEW n \in Throttler PROVE \E f : Remembers(k, n, f)'
    <3>1. Runs(k, Applied(k, n).ttl)' = {}
      <4>1. \A age \in 0 .. Applied(k, n).ttl - 1 : served'[k][age] = 0
            BY <2>1, AppliedSetting DEF NeverRan, Age
      <4> QED BY <4>1 DEF Runs
    <3>2. [p \in {} |-> 1] \in [{} -> Slot(k, n)]
          OBVIOUS
    <3>3. Remembers(k, n, [p \in {} |-> 1])'
          BY <3>1, <3>2 DEF Remembers, Applied, Slot
    <3> QED BY <3>3
  <2> QED BY <2>1, <2>2, NeverRanTyped DEF RunsInv
<1>2. CASE UNCHANGED vars
  <2>1. served' = served /\ life' = life
        BY <1>2 DEF vars
  <2>2. ASSUME NEW k \in Key, NEW n \in Throttler PROVE \E f : Remembers(k, n, f)'
    <3>1. PICK f : Remembers(k, n, f)
          BY DEF RunsInv
    <3>2. Remembers(k, n, f)'
          BY <2>1, <3>1, RunsKept
    <3> QED BY <3>2
  <2> QED BY <2>1, <2>2 DEF RunsInv
<1> QED BY <1>1, <1>2, ArriveRuns, TickRuns DEF Next

\* Every variable holds values of its type: no throttler counts more than its
\* limit, nor remembers for longer than its ttl.
THEOREM TypeCorrect == Spec => []TypeOK
<1>1. Inv /\ RunsInv => TypeOK
      BY DEF Inv, Types, RunsInv, TypeOK
<1> QED BY <1>1, InitInv, InitRuns, NextInv, NextRuns, PTL DEF Spec

\* No handler runs for an address more than limit times within the ttl, for any
\* throttler, configuration and traffic.
THEOREM WindowsBounded == Spec => []WindowBound
<1>1. Inv /\ RunsInv => WindowBound
  <2> SUFFICES ASSUME Inv, RunsInv, NEW k \in Key, NEW n \in Throttler
               PROVE  Cardinality(Runs(k, Applied(k, n).ttl)) <= Applied(k, n).limit
      BY DEF WindowBound
  <2>1. PICK f : Remembers(k, n, f)
        BY DEF RunsInv
  <2>2. f \in Injection(Runs(k, Applied(k, n).ttl), Slot(k, n))
        BY <2>1, Fun_IsInj DEF Remembers
  <2>3. Applied(k, n).limit \in Nat \ {0}
        BY AppliedSetting
  <2>4. IsFiniteSet(Slot(k, n)) /\ Cardinality(Slot(k, n)) = Applied(k, n).limit
        BY <2>3, FS_Interval DEF Slot
  <2> QED BY <2>2, <2>4, FS_Injection
<1> QED BY <1>1, InitInv, InitRuns, NextInv, NextRuns, PTL DEF Spec

-----------------------------------------------------------------------------
(* A client that spaces its requests.                                      *)

\* Requests one Pace after another never use up a limit within its ttl.
PaceSuffices == \A k \in Key, n \in Throttler : Applied(k, n).ttl <= Pace * Applied(k, n).limit

\* The requests still counted lie a Pace apart: the one of rank r was let through
\* at least r Paces before the last one, and no two have the same rank.
Apart(k, n, rank) ==
    /\ rank \in [Slot(k, n) -> Nat]
    /\ \A s \in Slot(k, n) : life[k][n][s] > 0 =>
          life[k][n][s] + idle[k] + Pace * rank[s] <= Applied(k, n).ttl
    /\ \A s, t \in Slot(k, n) :
          life[k][n][s] > 0 /\ life[k][n][t] > 0 /\ rank[s] = rank[t] => s = t

Patient(k) ==
    /\ answer[k] # "refused"
    /\ \A n \in Throttler : block[k][n] = 0 /\ \E rank : Apart(k, n, rank)

Spaced == \A k \in Key : ~hasty[k] => Patient(k)

LEMMA PaceAssumption == Pace \in Nat /\ Longest \in Nat /\ Pace <= Longest
BY ThrottleAssumption

LEMMA Multiples ==
    ASSUME NEW p \in Nat, NEW r \in Nat, NEW m \in Nat
    PROVE  /\ p * r \in Nat
           /\ p * (r + 1) = p * r + p
           /\ p * r < p * m => r < m
<1>1. p * r \in Nat /\ p * (r + 1) = p * r + p
      OBVIOUS
<1>2. ASSUME m <= r PROVE p * m <= p * r
  <2>1. r - m \in Nat /\ r = m + (r - m)
        BY <1>2
  <2>2. p * (r - m) \in Nat
        BY <2>1
  <2>3. p * r = p * m + p * (r - m)
        OBVIOUS
  <2>4. p * m \in Nat /\ p * r \in Nat
        OBVIOUS
  <2> QED BY <2>2, <2>3, <2>4
<1>3. p * m \in Nat
      OBVIOUS
<1> QED BY <1>1, <1>2, <1>3

\* Where nothing is counted, any ranks will do.
LEMMA NothingCounted ==
    ASSUME NEW k \in Key, NEW n \in Throttler, \A s \in Slot(k, n) : life[k][n][s] = 0
    PROVE  \E rank : Apart(k, n, rank)
<1>1. Apart(k, n, [s \in Slot(k, n) |-> 0])
      BY DEF Apart
<1> QED BY <1>1

LEMMA InitSpaced == Init => Spaced
<1> SUFFICES ASSUME Init, NEW k \in Key PROVE Patient(k)
    BY DEF Spaced
<1>1. answer[k] # "refused" /\ \A n \in Throttler : block[k][n] = 0
      BY DEF Init
<1>2. \A n \in Throttler : \A s \in Slot(k, n) : life[k][n][s] = 0
      BY FreshTypes DEF Init
<1> QED BY <1>1, <1>2, NothingCounted DEF Patient

\* When its next request comes, a full limit would hold as many different ranks as
\* it has slots, and the Paces between them add up to the ttl and more.
LEMMA PatientNotFull ==
    ASSUME PaceSuffices, Inv, NEW k \in Key, NEW n \in Throttler,
           NEW rank, Apart(k, n, rank), idle[k] >= Pace
    PROVE  ~Full(k, n)
<1> SUFFICES ASSUME Full(k, n) PROVE FALSE
    OBVIOUS
<1> DEFINE ttl == Applied(k, n).ttl
           limit == Applied(k, n).limit
           next == [s \in Slot(k, n) |-> rank[s] + 1]
<1>1. ttl \in Nat \ {0} /\ limit \in Nat \ {0} /\ ttl <= Pace * limit
      BY AppliedSetting DEF PaceSuffices
<1>2. idle[k] \in Nat
      BY PaceAssumption DEF Inv, Types
<1>3. ASSUME NEW s \in Slot(k, n) PROVE next[s] \in 1 .. limit - 1
  <2>1. /\ life[k][n][s] > 0 /\ life[k][n][s] \in Nat
        /\ rank[s] \in Nat
        /\ life[k][n][s] + idle[k] + Pace * rank[s] <= ttl
        BY <1>1 DEF Full, Apart, Inv, Types
  <2>2. Pace * rank[s] \in Nat /\ Pace * limit \in Nat /\ Pace * (rank[s] + 1) = Pace * rank[s] + Pace
        BY <1>1, <2>1, Multiples, PaceAssumption
  <2>3. Pace * (rank[s] + 1) < Pace * limit
    <3> HIDE DEF ttl, limit
    <3> QED BY <1>1, <1>2, <2>1, <2>2, PaceAssumption
  <2>4. rank[s] + 1 \in Nat
        BY <2>1
  <2>5. rank[s] + 1 < limit
        BY <1>1, <2>3, <2>4, Multiples, PaceAssumption
  <2> QED BY <1>1, <2>1, <2>5
<1>4. \A s, t \in Slot(k, n) : next[s] = next[t] => s = t
  <2>1. \A s \in Slot(k, n) : life[k][n][s] > 0 /\ rank[s] \in Nat
        BY DEF Full, Apart
  <2> QED BY <2>1 DEF Apart
<1>5. next \in Injection(Slot(k, n), 1 .. limit - 1)
  <2>1. next \in [Slot(k, n) -> 1 .. limit - 1]
        BY <1>3
  <2> HIDE DEF next
  <2> QED BY <1>4, <2>1, Fun_IsInj
<1>6. IsFiniteSet(1 .. limit - 1) /\ Cardinality(1 .. limit - 1) = limit - 1
  <2> HIDE DEF limit
  <2>1. 1 \in Int /\ limit - 1 \in Int
        BY <1>1
  <2>2. (IF 1 > limit - 1 THEN 0 ELSE (limit - 1) - 1 + 1) = limit - 1
        BY <1>1
  <2> QED BY <2>1, <2>2, FS_Interval
<1>7. Cardinality(Slot(k, n)) = limit
      BY <1>1, FS_Interval DEF Slot
<1>8. Cardinality(Slot(k, n)) <= Cardinality(1 .. limit - 1)
      BY <1>5, <1>6, FS_Injection
<1> HIDE DEF limit
<1> QED BY <1>1, <1>6, <1>7, <1>8

LEMMA ArriveSpaced ==
    ASSUME PaceSuffices, Inv, Spaced, NEW c \in Key, Arrive(c)
    PROVE  Spaced'
<1> SUFFICES ASSUME NEW k \in Key, ~hasty'[k] PROVE Patient(k)'
    BY DEF Spaced
<1>1. ~hasty[k]
      BY ArriveFacts DEF Inv, Types
<1>2. Patient(k)
      BY <1>1 DEF Spaced
<1>3. CASE k # c
  <2>1. life'[k] = life[k] /\ block'[k] = block[k]
        BY <1>3, ArriveFacts
  <2>2. idle'[k] = idle[k] /\ answer'[k] = answer[k]
        BY <1>3, ArriveFacts DEF Inv, Types
  <2>3. ASSUME NEW n \in Throttler, NEW rank, Apart(k, n, rank) PROVE Apart(k, n, rank)'
        BY <2>1, <2>2, <2>3 DEF Apart, Applied, Slot
  <2> QED BY <1>2, <2>1, <2>2, <2>3 DEF Patient
<1>4. CASE k = c
  <2>1. idle[c] >= Pace /\ idle[c] \in Nat /\ idle'[c] = 0
    <3>1. idle \in [Key -> 0 .. Longest] /\ hasty \in [Key -> BOOLEAN]
          BY DEF Inv, Types
    <3>2. idle' = [idle EXCEPT ![c] = 0] /\ hasty' = [hasty EXCEPT ![c] = hasty[c] \/ idle[c] < Pace]
          BY ArriveFacts
    <3>3. ~(idle[c] < Pace)
          BY <1>4, <3>1, <3>2
    <3> QED BY <3>1, <3>2, <3>3, PaceAssumption
  <2>2. ASSUME NEW n \in Throttler PROVE ~Closed(c, n) /\ ~Full(c, n)
        BY <1>2, <1>4, <2>1, PatientNotFull DEF Patient, Closed
  <2>3. LetThrough(c)
        BY <2>2 DEF LetThrough, Refuses
  <2>4. answer'[c] = "served"
        BY <2>3, ArriveFacts DEF Inv, Types
  <2>5. ASSUME NEW n \in Throttler PROVE block'[c][n] = 0
        BY <1>2, <1>4, <2>2, ArriveFacts DEF Closes, Patient
  <2>6. ASSUME NEW n \in Throttler PROVE \E rank : Apart(c, n, rank)'
    <3> DEFINE ttl == Applied(c, n).ttl
    <3>1. PICK rank : Apart(c, n, rank)
          BY <1>2, <1>4 DEF Patient
    <3>2. PICK s \in Slot(c, n) : /\ life[c][n][s] = 0
                                  /\ Counts(c, n) = [life[c][n] EXCEPT ![s] = ttl]
          BY <2>3, LetThroughCounts
    <3>3. life[c][n] \in [Slot(c, n) -> 0 .. ttl] /\ ttl \in Nat \ {0}
          BY AppliedSetting DEF Inv, Types
    <3>4. life'[c][n] = [life[c][n] EXCEPT ![s] = ttl]
          BY <3>2, ArriveFacts
    <3>5. PICK new : new = [t \in Slot(c, n) |-> IF t = s THEN 0 ELSE rank[t] + 1]
          OBVIOUS
    <3>6. rank \in [Slot(c, n) -> Nat] /\ new \in [Slot(c, n) -> Nat]
          BY <3>1, <3>5 DEF Apart
    <3>7. ASSUME NEW t \in Slot(c, n), life'[c][n][t] > 0
          PROVE  life'[c][n][t] + idle'[c] + Pace * new[t] <= ttl
      <4>1. CASE t = s
        <5>1. life'[c][n][t] = ttl /\ new[t] = 0
              BY <3>3, <3>4, <3>5, <4>1
        <5>2. Pace * 0 = 0
              BY PaceAssumption
        <5> HIDE DEF ttl
        <5> QED BY <2>1, <3>3, <5>1, <5>2
      <4>2. CASE t # s
        <5>1. life'[c][n][t] = life[c][n][t] /\ life[c][n][t] \in Nat
              BY <3>3, <3>4, <4>2
        <5>2. life[c][n][t] + idle[c] + Pace * rank[t] <= ttl
              BY <3>1, <3>7, <5>1 DEF Apart
        <5>3. rank[t] \in Nat /\ new[t] = rank[t] + 1
              BY <3>5, <3>6, <4>2
        <5>4. Pace * rank[t] \in Nat /\ Pace * new[t] = Pace * rank[t] + Pace
              BY <5>3, Multiples, PaceAssumption
        <5> HIDE DEF ttl
        <5> QED BY <2>1, <3>3, <5>1, <5>2, <5>4, PaceAssumption
      <4> QED BY <4>1, <4>2
    <3>8. ASSUME NEW t \in Slot(c, n), NEW u \in Slot(c, n),
                 life'[c][n][t] > 0, life'[c][n][u] > 0, new[t] = new[u]
          PROVE  t = u
      <4>1. rank[t] \in Nat /\ rank[u] \in Nat
            BY <3>6
      <4>2. (t = s) <=> (u = s)
            BY <3>5, <3>8, <4>1
      <4>3. CASE t # s /\ u # s
        <5>1. life[c][n][t] > 0 /\ life[c][n][u] > 0
              BY <3>3, <3>4, <3>8, <4>3
        <5>2. rank[t] = rank[u]
              BY <3>5, <3>8, <4>1, <4>3
        <5> QED BY <3>1, <5>1, <5>2 DEF Apart
      <4> QED BY <4>2, <4>3
    <3>9. Apart(c, n, new)'
      <4>1. Applied(c, n)' = Applied(c, n) /\ Slot(c, n)' = Slot(c, n)
            BY DEF Applied, Slot
      <4> QED BY <3>6, <3>7, <3>8, <4>1 DEF Apart
    <3> QED BY <3>9
  <2> QED BY <1>4, <2>4, <2>5, <2>6 DEF Patient
<1> QED BY <1>3, <1>4

LEMMA TickSpaced == Inv /\ Spaced /\ Tick => Spaced'
<1> SUFFICES ASSUME Inv, Spaced, Tick, NEW k \in Key, ~hasty'[k] PROVE Patient(k)'
    BY DEF Spaced
<1>1. /\ life' = [c \in Key |-> [n \in Throttler |-> [s \in Slot(c, n) |-> Less(life[c][n][s])]]]
      /\ block' = [c \in Key |-> [n \in Throttler |-> Less(block[c][n])]]
      /\ idle'[k] = IF idle[k] < Longest THEN idle[k] + 1 ELSE Longest
      /\ answer' = answer /\ hasty' = hasty
      BY DEF Tick
<1>2. Patient(k)
      BY <1>1 DEF Spaced
<1>3. ASSUME NEW n \in Throttler PROVE block'[k][n] = 0
      BY <1>1, <1>2 DEF Patient, Less
<1>4. ASSUME NEW n \in Throttler, NEW rank, Apart(k, n, rank)
      PROVE  Apart(k, n, rank)'
  <2> DEFINE ttl == Applied(k, n).ttl
  <2>1. /\ life[k][n] \in [Slot(k, n) -> 0 .. ttl]
        /\ idle[k] \in 0 .. Longest
        /\ ttl \in Nat /\ ttl <= Longest /\ Longest \in Nat
        BY AppliedSetting DEF Inv, Types
  <2>2. ASSUME NEW s \in Slot(k, n), life'[k][n][s] > 0
        PROVE  /\ life[k][n][s] > 0
               /\ life'[k][n][s] + idle'[k] + Pace * rank[s] <= ttl
    <3>1. life'[k][n][s] = Less(life[k][n][s]) /\ life[k][n][s] \in Nat
          BY <1>1, <2>1
    <3>2. life[k][n][s] > 0 /\ life'[k][n][s] = life[k][n][s] - 1
          BY <2>2, <3>1 DEF Less
    <3>3. life[k][n][s] + idle[k] + Pace * rank[s] <= ttl /\ rank[s] \in Nat
          BY <1>4, <3>2 DEF Apart
    <3>4. Pace * rank[s] \in Nat
          BY <3>3, PaceAssumption, Multiples
    <3> HIDE DEF ttl
    <3>5. idle[k] < Longest
          BY <2>1, <3>1, <3>2, <3>3, <3>4
    <3>6. idle'[k] = idle[k] + 1
          BY <1>1, <3>5
    <3> QED BY <2>1, <3>1, <3>2, <3>3, <3>4, <3>6
  <2>3. Applied(k, n)' = Applied(k, n) /\ Slot(k, n)' = Slot(k, n)
        BY DEF Applied, Slot
  <2> QED BY <1>4, <2>2, <2>3 DEF Apart
<1> QED BY <1>1, <1>2, <1>3, <1>4 DEF Patient

LEMMA NextSpaced == PaceSuffices /\ Inv /\ Spaced /\ [Next]_vars => Spaced'
<1> SUFFICES ASSUME PaceSuffices, Inv, Spaced, [Next]_vars PROVE Spaced'
    OBVIOUS
<1>1. CASE Restart
  <2> SUFFICES ASSUME NEW k \in Key, ~hasty'[k] PROVE Patient(k)'
      BY DEF Spaced
  <2>1. Patient(k) /\ answer' = answer
        BY <1>1 DEF Restart, Spaced
  <2>2. \A n \in Throttler : block'[k][n] = 0
        BY <1>1 DEF Restart
  <2>3. \A n \in Throttler : \A s \in Slot(k, n) : life'[k][n][s] = 0
        BY <1>1, FreshTypes DEF Restart
  <2>4. ASSUME NEW n \in Throttler PROVE \E rank : Apart(k, n, rank)'
    <3>1. Applied(k, n)' = Applied(k, n) /\ Slot(k, n)' = Slot(k, n)
          BY DEF Applied, Slot
    <3>2. Apart(k, n, [s \in Slot(k, n) |-> 0])'
          BY <2>3, <3>1 DEF Apart
    <3> QED BY <3>2
  <2> QED BY <2>1, <2>2, <2>4 DEF Patient
<1>2. CASE UNCHANGED vars
  <2> SUFFICES ASSUME NEW k \in Key, ~hasty'[k] PROVE Patient(k)'
      BY DEF Spaced
  <2>1. life' = life /\ block' = block /\ answer' = answer /\ idle' = idle /\ hasty' = hasty
        BY <1>2 DEF vars
  <2>2. ASSUME NEW n \in Throttler, NEW rank, Apart(k, n, rank) PROVE Apart(k, n, rank)'
        BY <2>1, <2>2 DEF Apart, Applied, Slot
  <2> QED BY <2>1, <2>2 DEF Patient, Spaced
<1> QED BY <1>1, <1>2, ArriveSpaced, TickSpaced DEF Next

\* A client that leaves a Pace between its requests to a route is never refused
\* there, for every configuration that such a Pace suffices for.
THEOREM PatientServed == PaceSuffices => (Spec => []PatientClientsServed)
<1> SUFFICES ASSUME PaceSuffices PROVE Spec => []PatientClientsServed
    OBVIOUS
<1>1. Spaced => PatientClientsServed
      BY DEF Spaced, Patient, PatientClientsServed
<1>2. Inv /\ Spaced /\ [Next]_vars => Inv' /\ Spaced'
      BY NextInv, NextSpaced
<1> QED BY <1>1, <1>2, InitInv, InitSpaced, PTL DEF Spec

=============================================================================
