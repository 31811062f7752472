------------------------------ MODULE Content ------------------------------
(***************************************************************************)
(* The strapi module and the cache in front of it.  A GET of content runs  *)
(* through the interceptors that Nest nests around its handler: the cache  *)
(* interceptor registered as APP_INTERCEPTOR, the response interceptor of  *)
(* main.ts, and the cache interceptor again, of the controller's own       *)
(* @UseInterceptors.  Both cache interceptors use one key, that of the     *)
(* handler and URL.  Strapi calls the webhook when content changes.        *)
(*                                                                         *)
(* Each awaited Redis command or Strapi call is a step: its effect, and    *)
(* the code that runs until the next one.  Requests that a guard refuses   *)
(* (no access token, wrong webhook secret) touch none of this and are left *)
(* out.  Content is told apart by the edit that published it.              *)
(***************************************************************************)
EXTENDS Naturals

CONSTANTS
    Request,   \* the requests clients and Strapi may send, one slot each
    Key,       \* cache keys: a route's key and the URL it was called with
    Lists,     \* the keys of findAll routes, which have content even if empty
    StampKey,  \* 'strapi:cache', which the pattern 'strapi:*' matches too
    Time,      \* the timestamp it may hold
    Null,
    MaxEdits,  \* bound: editors publish so many times behind each key
    Served,    \* Served[k]: the edits after which Strapi has an answer for k
    Ttl,       \* units of time content is cached for (a day)
    StampTtl,  \* and the timestamp (30 days)
    Patience,  \* units a request takes at most, its calls having timeouts
    MaxTime,   \* bound: the time at which the model's clock stops
    Failures   \* what may go wrong, of "redis", "strapi" and "crash"

Edit == 0 .. MaxEdits
AllKeys == Key \cup {StampKey}

\* A response body: the edit it shows, how many ApiResponse envelopes ({success,
\* data, ...}) are around it and, history, when it was fetched from Strapi.
Body == [edit : Edit, envelopes : Nat, fetched : 0 .. MaxTime]

ASSUME ContentAssumption ==
    /\ MaxEdits \in Nat /\ MaxTime \in Nat
    /\ Ttl \in Nat /\ StampTtl \in Nat /\ Patience \in Nat
    /\ Lists \subseteq Key /\ StampKey \notin Key
    /\ Served \in [Key -> SUBSET Edit]
    /\ \A k \in Lists : Served[k] = Edit
    /\ Failures \subseteq {"redis", "strapi", "crash"}
    /\ Time # Null /\ Time \notin Body /\ Null \notin Body

VARIABLES
    now,        \* the time
    edit,       \* edit[k]: the last edit published in Strapi behind k
    redis,      \* the keys under 'strapi:' in Redis
    expires,    \* expires[k]: when Redis drops k, 0 where it has none
    op,         \* op[r]: the request, Null before it arrives
    pc,         \* pc[r]: the await it is suspended at
    body,       \* body[r]: the data its handler chain holds, or answered
    found,      \* found[r]: the keys KEYS returned to an invalidation
    answer,     \* answer[r]: HTTP status, 0 while there is none
    missed,     \* history: missed[r] are the keys an invalidation cannot vouch for
    covered,    \* history: covered[k] is the last edit an answered invalidation,
                \* which could vouch for k, had been called for
    deletions,  \* history: the number of DELs that took effect
    until       \* history: when the timestamp last announced runs out

vars == <<now, edit, redis, expires, op, pc, body, found, answer,
          missed, covered, deletions, until>>

\* The last three are history: how those variables stood on arrival.
Command == [kind : {"read", "invalidate", "stamp"}, key : Key \cup {Null},
            published : [Key -> Edit], covered : [Key -> Edit], arrived : 0 .. MaxTime]

ASSUME CommandAssumption == Null \notin Command

Step == {"idle", "outerGet", "innerGet", "fetch", "innerSet", "outerSet",
         "keys", "del", "setStamp", "getStamp", "done"}

InFlight == {r \in Request : pc[r] \notin {"idle", "done"}}

FirstStep(kind) == IF kind = "read" THEN "outerGet"
                   ELSE IF kind = "invalidate" THEN "keys" ELSE "getStamp"

\* A read that has a body and is about to store it.
Storing(r) == pc[r] \in {"innerSet", "outerSet"}

\* An invalidation cannot vouch for a key that a read has a body to store under
\* while it awaits its KEYS or its DEL.
Missed ==
    [r \in Request |-> IF pc[r] \in {"keys", "del"}
                       THEN missed[r] \cup {op[s].key : s \in {s \in Request : Storing(s)}}
                       ELSE missed[r]]

\* What the handlers make of Strapi's answer behind k: its fields, copied.
Mapped(k) == [edit |-> edit[k], envelopes |-> 0, fetched |-> now]

-----------------------------------------------------------------------------
(* RedisCacheAdapter: a command takes effect or, where it fails, is logged *)
(* and swallowed.                                                          *)

\* Redis is away, or the client has given up: after its third reconnection it
\* never tries again, and every command fails until the process restarts.
CommandsFail == "redis" \in Failures

Got(k) == {redis[k]} \cup (IF CommandsFail THEN {Null} ELSE {})

\* SET with EX: the key's life starts again.
SetKey(k, value, ttl) ==
    \/ /\ redis' = [redis EXCEPT ![k] = value]
       /\ expires' = [expires EXCEPT ![k] = now + ttl]
    \/ CommandsFail /\ UNCHANGED <<redis, expires>>

Drop(keys) ==
    /\ redis' = [k \in AllKeys |-> IF k \in keys THEN Null ELSE redis[k]]
    /\ expires' = [k \in AllKeys |-> IF k \in keys THEN 0 ELSE expires[k]]

\* Mutant: the item is not looked for in what Strapi returned.
FoundAny(k) == Mapped(k)

\* The item among those that Strapi returned and the filters left.
Found(k) == IF edit[k] \in Served[k] THEN Mapped(k) ELSE Null

\* A repository's search for one item catches every failure of the call: null.
RepositoryFinds(k) == {Found(k)} \cup (IF "strapi" \in Failures THEN {Null} ELSE {})

\* ResponseInterceptor
Wrap(b) == [b EXCEPT !.envelopes = @ + 1]

Await(r, step, data) == /\ pc' = [pc EXCEPT ![r] = step]
                        /\ body' = [body EXCEPT ![r] = data]
                        /\ missed' = Missed
                        /\ UNCHANGED answer

Answer(r, status, data) == /\ pc' = [pc EXCEPT ![r] = "done"]
                           /\ body' = [body EXCEPT ![r] = data]
                           /\ missed' = Missed
                           /\ answer' = [answer EXCEPT ![r] = status]

-----------------------------------------------------------------------------
Init ==
    /\ now = 0
    /\ edit = [k \in Key |-> 0]
    /\ redis = [k \in AllKeys |-> Null]
    /\ expires = [k \in AllKeys |-> 0]
    /\ op = [r \in Request |-> Null]
    /\ pc = [r \in Request |-> "idle"]
    /\ body = [r \in Request |-> Null]
    /\ found = [r \in Request |-> {}]
    /\ answer = [r \in Request |-> 0]
    /\ missed = [r \in Request |-> {}]
    /\ covered = [k \in Key |-> 0]
    /\ deletions = 0
    /\ until = 0

\* An editor publishes or deletes content; Strapi calls the webhook later, or
\* the call is lost.
Publish(k) ==
    /\ edit[k] < MaxEdits
    /\ edit' = [edit EXCEPT ![k] = @ + 1]
    /\ UNCHANGED <<now, redis, expires, op, pc, body, found, answer,
                   missed, covered, deletions, until>>

\* A request gets past its guards.
Submit(r, kind, k) ==
    /\ pc[r] = "idle"
    /\ op' = [op EXCEPT ![r] = [kind |-> kind, key |-> k, published |-> edit,
                                covered |-> covered, arrived |-> now]]
    /\ Await(r, FirstStep(kind), Null)
    /\ UNCHANGED <<now, edit, redis, expires, found, covered, deletions, until>>

\* GET of a findAll route, or of a single item, by its cache key.
SubmitList(r, k) == k \in Lists /\ Submit(r, "read", k)

SubmitItem(r, k) == k \notin Lists /\ Submit(r, "read", k)

\* POST /strapi/webhook/cache-invalidation
SubmitInvalidate(r) == Submit(r, "invalidate", Null)

\* GET /strapi/webhook/cache-timestamp, which is not cached.
SubmitStamp(r) == Submit(r, "stamp", Null)

\* Mutant: a failed get is thrown, not swallowed.
OuterGetThrows(r) ==
    /\ pc[r] = "outerGet"
    /\ \/ CommandsFail /\ Answer(r, 500, Null)
       \/ redis[op[r].key] # Null /\ Answer(r, 200, redis[op[r].key])
       \/ redis[op[r].key] = Null /\ Await(r, "innerGet", Null)
    /\ UNCHANGED <<now, edit, redis, expires, op, found, covered, deletions, until>>

\* Mutant: a hit renews the entry.
OuterGetRenewing(r) ==
    LET hit == redis[op[r].key] IN
        /\ pc[r] = "outerGet"
        /\ IF hit # Null THEN SetKey(op[r].key, hit, Ttl) /\ Answer(r, 200, hit)
           ELSE UNCHANGED <<redis, expires>> /\ Await(r, "innerGet", Null)
        /\ UNCHANGED <<now, edit, op, found, covered, deletions, until>>

\* The outer cache interceptor: a hit is the response, as it was stored.
OuterGet(r) ==
    /\ pc[r] = "outerGet"
    /\ \E hit \in Got(op[r].key) :
          IF hit # Null THEN Answer(r, 200, hit) ELSE Await(r, "innerGet", Null)
    /\ UNCHANGED <<now, edit, redis, expires, op, found, covered, deletions, until>>

\* The inner one, under the same key: a hit still passes the two around it.
InnerGet(r) ==
    /\ pc[r] = "innerGet"
    /\ \E hit \in Got(op[r].key) :
          IF hit # Null THEN Await(r, "outerSet", Wrap(hit)) ELSE Await(r, "fetch", Null)
    /\ UNCHANGED <<now, edit, redis, expires, op, found, covered, deletions, until>>

\* A findAll handler: a failure of Strapi goes through, and no list is absent.
FetchList(r) ==
    LET k == op[r].key IN
        /\ pc[r] = "fetch" /\ k \in Lists
        /\ \/ Await(r, "innerSet", Mapped(k))
           \/ "strapi" \in Failures /\ Answer(r, 500, Null)
        /\ UNCHANGED <<now, edit, redis, expires, op, found, covered, deletions, until>>

\* Mutant: an absent item is returned as null, and no NotFoundException thrown.
FetchItemOrNull(r) ==
    LET k == op[r].key IN
        /\ pc[r] = "fetch" /\ k \notin Lists
        /\ \E item \in RepositoryFinds(k) : Await(r, "innerSet", item)
        /\ UNCHANGED <<now, edit, redis, expires, op, found, covered, deletions, until>>

\* A single-item handler: what its repository does not find is "not found".
FetchItem(r) ==
    LET k == op[r].key IN
        /\ pc[r] = "fetch" /\ k \notin Lists
        /\ \E item \in RepositoryFinds(k) :
              IF item = Null THEN Answer(r, 404, Null) ELSE Await(r, "innerSet", item)
        /\ UNCHANGED <<now, edit, redis, expires, op, found, covered, deletions, until>>

\* The inner interceptor stores what the handler returned, then it is wrapped.
InnerSet(r) ==
    /\ pc[r] = "innerSet"
    /\ SetKey(op[r].key, body[r], Ttl)
    /\ Await(r, "outerSet", Wrap(body[r]))
    /\ UNCHANGED <<now, edit, op, found, covered, deletions, until>>

\* The outer one stores the wrapped response over it.
OuterSet(r) ==
    /\ pc[r] = "outerSet"
    /\ SetKey(op[r].key, body[r], Ttl)
    /\ Answer(r, 200, body[r])
    /\ UNCHANGED <<now, edit, op, found, covered, deletions, until>>

\* deleteByPattern('strapi:*'): KEYS, and DEL if it returned any.
FindKeys(r) ==
    LET keys == {k \in AllKeys : redis[k] # Null} IN
        /\ pc[r] = "keys"
        /\ found' = [found EXCEPT ![r] = keys]
        /\ Await(r, IF keys = {} THEN "setStamp" ELSE "del", Null)
        /\ UNCHANGED <<now, edit, redis, expires, op, covered, deletions, until>>

\* Mutant: the client's prefix is not stripped from the keys, and no key matches.
DeleteFoundPrefixed(r) ==
    /\ pc[r] = "del"
    /\ found' = [found EXCEPT ![r] = {}]
    /\ Await(r, "setStamp", Null)
    /\ UNCHANGED <<now, edit, redis, expires, op, covered, deletions, until>>

DeleteFound(r) ==
    /\ pc[r] = "del"
    /\ Drop(found[r])
    /\ deletions' = deletions + 1
    /\ found' = [found EXCEPT ![r] = {}]
    /\ Await(r, "setStamp", Null)
    /\ UNCHANGED <<now, edit, op, covered, until>>

\* Its catch: KEYS or DEL failed, and the webhook goes on as if it had not.
DeleteByPatternFails(r) ==
    /\ CommandsFail
    /\ pc[r] \in {"keys", "del"}
    /\ pc' = [pc EXCEPT ![r] = "setStamp"]
    /\ found' = [found EXCEPT ![r] = {}]
    /\ missed' = [Missed EXCEPT ![r] = Key]
    /\ UNCHANGED <<now, edit, redis, expires, op, body, answer, covered, deletions, until>>

\* What an answered invalidation covers: what it was called for, but the keys it
\* cannot vouch for.
Covering(r) ==
    [k \in Key |-> IF k \notin missed[r] /\ covered[k] < op[r].published[k]
                   THEN op[r].published[k] ELSE covered[k]]

\* Mutant: the time is not stored again after the pattern deleted it.
RecordStampNowhere(r) ==
    /\ pc[r] = "setStamp"
    /\ Answer(r, 201, Null)
    /\ covered' = Covering(r)
    /\ until' = now + StampTtl
    /\ UNCHANGED <<now, edit, redis, expires, op, found, deletions>>

\* invalidateCache records the time and answers "Cache invalidated successfully".
RecordStamp(r) ==
    /\ pc[r] = "setStamp"
    /\ SetKey(StampKey, Time, StampTtl)
    /\ Answer(r, 201, Null)
    /\ covered' = Covering(r)
    /\ until' = now + StampTtl
    /\ UNCHANGED <<now, edit, op, found, deletions>>

\* GET /strapi/webhook/cache-timestamp
GetStamp(r) ==
    /\ pc[r] = "getStamp"
    /\ \E timestamp \in Got(StampKey) : Answer(r, 200, timestamp)
    /\ UNCHANGED <<now, edit, redis, expires, op, found, covered, deletions, until>>

\* Time passes, but no request outlasts Patience; Redis drops what has expired.
Tick ==
    /\ now < MaxTime
    /\ \A r \in InFlight : now < op[r].arrived + Patience
    /\ now' = now + 1
    /\ Drop({k \in AllKeys : expires[k] <= now + 1})
    /\ UNCHANGED <<edit, op, pc, body, found, answer, missed, covered, deletions, until>>

\* The process dies: its requests are never answered, Redis keeps what it has.
Crash ==
    /\ "crash" \in Failures
    /\ InFlight # {}
    /\ pc' = [r \in Request |-> IF r \in InFlight THEN "done" ELSE pc[r]]
    /\ UNCHANGED <<now, edit, redis, expires, op, body, found, answer,
                   missed, covered, deletions, until>>

Proceed(r) ==
    \/ OuterGet(r)
    \/ InnerGet(r)
    \/ FetchList(r)
    \/ FetchItem(r)
    \/ InnerSet(r)
    \/ OuterSet(r)
    \/ FindKeys(r)
    \/ DeleteFound(r)
    \/ DeleteByPatternFails(r)
    \/ RecordStamp(r)
    \/ GetStamp(r)

Next ==
    \/ \E k \in Key : Publish(k)
    \/ \E r \in Request :
          \/ \E k \in Key : SubmitList(r, k) \/ SubmitItem(r, k)
          \/ SubmitInvalidate(r)
          \/ SubmitStamp(r)
          \/ Proceed(r)
    \/ Tick
    \/ Crash

Spec == Init /\ [][Next]_vars

-----------------------------------------------------------------------------
(* What a client of the content routes may rely on. *)

\* Every variable holds values of its type; a chain about to store holds data.
TypeOK ==
    /\ now \in 0 .. MaxTime
    /\ edit \in [Key -> Edit]
    /\ redis \in [AllKeys -> Body \cup {Time, Null}]
    /\ expires \in [AllKeys -> Nat]
    /\ op \in [Request -> Command \cup {Null}]
    /\ pc \in [Request -> Step]
    /\ body \in [Request -> Body \cup {Time, Null}]
    /\ found \in [Request -> SUBSET AllKeys]
    /\ answer \in [Request -> {0, 200, 201, 404, 500}]
    /\ missed \in [Request -> SUBSET Key]
    /\ covered \in [Key -> Edit]
    /\ deletions \in Nat
    /\ until \in Nat
    /\ \A k \in Key : redis[k] # Time
    /\ redis[StampKey] \in {Time, Null}
    /\ \A r \in Request :
          /\ pc[r] # "idle" => op[r] # Null
          /\ pc[r] \in {"innerSet", "outerSet"} => body[r] \in Body

Done(r, kind) == pc[r] = "done" /\ op[r].kind = kind

\* Only content is cached: whatever races and fails, neither an error nor a
\* "not found" is ever stored for a day, nor content not yet published.
CachedWasServed ==
    \A k \in Key : redis[k] # Null => redis[k].edit \in Served[k] /\ redis[k].edit <= edit[k]

\* Redis is an optimisation: while Strapi answers, its failures cost no read
\* its answer, which is content, or a "not found" that was true meanwhile.
ReadsSurviveRedis ==
    \A r \in Request :
        Done(r, "read") =>
            \/ answer[r] \in {0, 200}
            \/ /\ answer[r] = 404
               /\ \E e \in op[r].published[op[r].key] .. edit[op[r].key] :
                     e \notin Served[op[r].key]

\* "Standardizes all HTTP responses": content reaches the client in exactly
\* one ApiResponse, whether it was cached, and by whichever interceptor.
EnvelopedOnce ==
    \A r \in Request : Done(r, "read") /\ answer[r] = 200 => body[r].envelopes = 1

\* "Cache invalidated successfully": a read that arrives after that answer is not
\* given content older than what was published when the webhook was called.  The
\* invalidation vouches for a key if its KEYS and DEL took effect and no read of
\* that key had a body to store meanwhile, whatever else overlaps and fails.
FreshAfterInvalidation ==
    \A r \in Request :
        Done(r, "read") /\ answer[r] = 200 => body[r].edit >= op[r].covered[op[r].key]

\* "Retrieves the timestamp of the last cache invalidation": null only if there
\* has been none, its 30 days have passed, or another has deleted it with the
\* rest and is about to set it again.
TimestampReported ==
    [][\A r \in Request :
          /\ pc[r] = "getStamp" /\ answer'[r] = 200
          /\ now < until /\ \A s \in Request : pc[s] # "setStamp"
          => body'[r] = Time]_vars

\* Staleness ends although webhooks are lost: a hit does not renew an entry.  A
\* read that missed it first, and then hit it inside, does; but it has waited
\* since before the entry was there, and only a DEL can let another wait on it.
EntriesRunOut ==
    \A k \in Key :
        redis[k] # Null => now < redis[k].fetched + Ttl + (2 + deletions) * Patience
=============================================================================
