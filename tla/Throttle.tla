------------------------------ MODULE Throttle ------------------------------
(***************************************************************************)
(* Rate limiting.  ThrottlerGuard, as APP_GUARD, runs before every handler *)
(* and asks each of the five named throttlers of app.module.ts in turn, by *)
(* increasing ttl; a @Throttle decorator changes the numbers of the one    *)
(* throttler it names, and the others keep theirs.  The counters are in    *)
(* memory, one per client address, handler and throttler: each request     *)
(* they count is forgotten after the ttl, and one too many closes them for *)
(* another ttl.  The exception filter tells a refused client when to come  *)
(* back, by the URL and not by the throttler that refused.                 *)
(*                                                                         *)
(* Time is relative: lives and blocks are what is left of them, and Tick   *)
(* takes one unit of each.  The guard awaits nothing but its own memory,   *)
(* so a request passes it in one step.                                     *)
(***************************************************************************)
EXTENDS Naturals, FiniteSets

CONSTANTS
    Address,    \* the addresses clients are seen under (req.ip)
    Route,      \* the handlers considered, by the decorator they carry
    Config,     \* config/throttle.config.ts
    Decorated,  \* the numbers in the @Throttle decorators
    Announced,  \* THROTTLE_CONFIG of the exception filter, by endpoint
    Pace,       \* units a patient client leaves between two requests
    Longest     \* bound: the longest ttl, up to which time is remembered

Throttler == DOMAIN Config

Setting == [ttl : Nat \ {0}, limit : Nat \ {0}]

ASSUME ThrottleAssumption ==
    /\ Throttler \subseteq {"default", "login", "register", "refresh", "strapi"}
    /\ Route \subseteq Throttler \cup {"other"}
    /\ Config \in [Throttler -> Setting]
    /\ Decorated \in [Throttler -> Setting]
    /\ Announced \in [Throttler -> Nat]
    /\ Longest \in Nat /\ Pace \in 0 .. Longest
    /\ \A n \in Throttler : Config[n].ttl <= Longest /\ Decorated[n].ttl <= Longest

Key == [address : Address, route : Route]

\* Mutant: what an address sends to one route counts for all.
KeyOfAddress(a, rt) == [address |-> a, route |-> CHOOSE r \in Route : TRUE]

\* generateKey: class and handler, and the client's address.
KeyOf(a, rt) == [address |-> a, route |-> rt]

\* The numbers a throttler works with on a route.
Applied(k, n) == IF n = k.route THEN Decorated[n] ELSE Config[n]

\* Mutant: the entry of another endpoint.
RetryAfterOfLogin(rt) == Announced["login"]

\* getThrottleEndpoint, and the entry found for it, or the default's.
RetryAfter(rt) == Announced[IF rt = "other" THEN "default" ELSE rt]

Slot(k, n) == 1 .. Applied(k, n).limit

VARIABLES
    life,    \* life[k][n][s]: what is left of the s-th counted request, 0 if none
    block,   \* block[k][n]: what is left of the time throttler n is closed
    answer,  \* answer[k]: what became of the last request, "none" before one
    idle,    \* history: time since it, as far as Longest
    hasty,   \* history: some request of the key came sooner than Pace after another
    served   \* history: served[k][age] is how often the handler ran that long ago,
             \* since the process started

vars == <<life, block, answer, idle, hasty, served>>

-----------------------------------------------------------------------------
Age == 0 .. Longest - 1

NeverRan == [age \in Age |-> 0]

Fresh(k) == [n \in Throttler |-> [s \in Slot(k, n) |-> 0]]

Init ==
    /\ life = [k \in Key |-> Fresh(k)]
    /\ block = [k \in Key |-> [n \in Throttler |-> 0]]
    /\ answer = [k \in Key |-> "none"]
    /\ idle = [k \in Key |-> Longest]
    /\ hasty = [k \in Key |-> FALSE]
    /\ served = [k \in Key |-> NeverRan]

Closed(k, n) == block[k][n] > 0

\* The limit is used up: the next request is one too many.
Full(k, n) == \A s \in Slot(k, n) : life[k][n][s] > 0

Refuses(k, n) == Closed(k, n) \/ Full(k, n)

Place == [default |-> 1, login |-> 2, register |-> 3, refresh |-> 4, strapi |-> 5]

\* The guard sorts the throttlers by their configured ttl.
Precedes(m, n) ==
    \/ Config[m].ttl < Config[n].ttl
    \/ Config[m].ttl = Config[n].ttl /\ Place[m] < Place[n]

\* The throttlers that are asked: none after the first that refuses.
Asked(k) ==
    LET refusing == {m \in Throttler : Refuses(k, m)}
    IN  {n \in Throttler : \A m \in refusing : ~Precedes(m, n)}

\* Mutant: only the throttler the route is named for counts.
CountsOwn(k, n) ==
    LET slots == life[k][n] IN
        IF n # k.route \/ Refuses(k, n) THEN slots
        ELSE [slots EXCEPT ![CHOOSE s \in Slot(k, n) : slots[s] = 0] = Applied(k, n).ttl]

\* increment: a request is counted where it is asked for and not refused.
Counts(k, n) ==
    LET slots == life[k][n] IN
        IF n \notin Asked(k) \/ Refuses(k, n) THEN slots
        ELSE [slots EXCEPT ![CHOOSE s \in Slot(k, n) : slots[s] = 0] = Applied(k, n).ttl]

\* Mutant: every refused request closes the throttler anew.
ClosesAgain(k, n) ==
    IF n \in Asked(k) /\ Refuses(k, n) THEN Applied(k, n).ttl ELSE block[k][n]

\* One request too many closes it; requests while it is closed change nothing.
Closes(k, n) ==
    IF n \in Asked(k) /\ Full(k, n) /\ ~Closed(k, n) THEN Applied(k, n).ttl
    ELSE block[k][n]

LetThrough(k) == \A n \in Throttler : ~Refuses(k, n)

\* A request, of any kind, that ThrottlerGuard sees.
Arrive(c) ==
    LET k == KeyOf(c.address, c.route) IN
        /\ idle' = [idle EXCEPT ![c] = 0]
        /\ hasty' = [hasty EXCEPT ![c] = hasty[c] \/ idle[c] < Pace]
        /\ answer' = [answer EXCEPT ![c] = IF LetThrough(k) THEN "served" ELSE "refused"]
        /\ life' = [life EXCEPT ![k] = [n \in Throttler |-> Counts(k, n)]]
        /\ block' = [block EXCEPT ![k] = [n \in Throttler |-> Closes(k, n)]]
        /\ served' = IF LetThrough(k) THEN [served EXCEPT ![c][0] = @ + 1]
                                      ELSE served

\* Mutant: a time that has passed goes on being counted down.
LessOne(t) == t - 1

\* setTimeout of a counted request, and timeToBlockExpire.
Less(t) == IF t = 0 THEN 0 ELSE t - 1

Tick ==
    /\ life' = [k \in Key |-> [n \in Throttler |-> [s \in Slot(k, n) |-> Less(life[k][n][s])]]]
    /\ block' = [k \in Key |-> [n \in Throttler |-> Less(block[k][n])]]
    /\ idle' = [k \in Key |-> IF idle[k] < Longest THEN idle[k] + 1 ELSE Longest]
    /\ served' = [k \in Key |->
          [age \in Age |-> IF age = 0 THEN 0 ELSE served[k][age - 1]]]
    /\ UNCHANGED <<answer, hasty>>

\* The process restarts: its counters are gone.
Restart ==
    /\ life' = [k \in Key |-> Fresh(k)]
    /\ block' = [k \in Key |-> [n \in Throttler |-> 0]]
    /\ served' = [k \in Key |-> NeverRan]
    /\ UNCHANGED <<answer, idle, hasty>>

Next ==
    \/ \E c \in Key : Arrive(c)
    \/ Tick
    \/ Restart

Spec == Init /\ [][Next]_vars

\* Time passes, and a client that was refused tries again, at whatever moments.
Fairness == WF_vars(Tick) /\ \A c \in Key : WF_vars(Arrive(c))

FairSpec == Spec /\ Fairness

-----------------------------------------------------------------------------
(* What rate limiting guarantees, to the service and to its clients. *)

\* Every variable holds values of its type: no counter goes over its limit, and
\* nothing is remembered or closed for longer than the ttl.
TypeOK ==
    /\ DOMAIN life = Key
    /\ \A k \in Key :
          /\ DOMAIN life[k] = Throttler
          /\ \A n \in Throttler : life[k][n] \in [Slot(k, n) -> 0 .. Applied(k, n).ttl]
    /\ block \in [Key -> [Throttler -> 0 .. Longest]]
    /\ answer \in [Key -> {"none", "served", "refused"}]
    /\ idle \in [Key -> 0 .. Longest]
    /\ hasty \in [Key -> BOOLEAN]
    /\ served \in [Key -> [Age -> Nat]]

\* The runs of a handler in the last ttl, each told by its age and a number.
Runs(k, ttl) == UNION {{age} \X (1 .. served[k][age]) : age \in 0 .. ttl - 1}

\* A handler runs at most limit times in any ttl, for every throttler and each
\* client address, whatever the order in which they close and open again.
WindowBound ==
    \A k \in Key, n \in Throttler :
        Cardinality(Runs(k, Applied(k, n).ttl)) <= Applied(k, n).limit

\* A client that spaces its requests to a route is never refused there, for
\* whatever is counted under other keys: what it sends to other routes, or others
\* send to this one.
PatientClientsServed == \A c \in Key : ~hasty[c] => answer[c] # "refused"

\* What /auth/register tells a refused client is true, whichever throttler
\* refused it: back after that time, and not before, it is let through.
RegisterRetryAfter ==
    [][\A c \in Key :
          /\ c.route = "register" /\ answer[c] = "refused"
          /\ idle[c] >= RetryAfter(c.route)
          /\ Arrive(c)
          => answer'[c] = "served"]_vars

\* No client is shut out for good, however impatiently it tries and though what
\* one throttler refuses has been counted by those before it.
NobodyShutOut ==
    \A c \in Key : answer[c] = "refused" ~> answer[c] = "served"
=============================================================================
