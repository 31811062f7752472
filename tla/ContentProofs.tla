--------------------------- MODULE ContentProofs ---------------------------
(***************************************************************************)
(* Proofs about the cached content routes, for any keys, requests, number  *)
(* of edits and times: what holds whatever overlaps and fails, what an     *)
(* answered invalidation guarantees, and how long an entry can last.       *)
(***************************************************************************)
EXTENDS Content, TLAPS

-----------------------------------------------------------------------------
(* The inductive invariant. *)

Types ==
    /\ now \in 0 .. MaxTime
    /\ edit \in [Key -> Edit]
    /\ redis \in [AllKeys -> Body \cup {Time, Null}]
    /\ expires \in [AllKeys -> Nat]
    /\ op \in [Request -> Command \cup {Null}]
    /\ pc \in [Request -> Step]
    /\ body \in [Request -> Body \cup {Time, Null}]
    /\ found \in [Request -> SUBSET AllKeys]
    /\ answer \in [Request -> {0, 200, 201, 404, 500}]
    /\ missed \in [Request -> SUBSET Key]
    /\ covered \in [Key -> Edit]
    /\ deletions \in Nat
    /\ until \in Nat

\* A body that shows what Strapi has, or had, to show behind k.
Genuine(k, b) == b \in Body /\ b.edit \in Served[k] /\ b.edit <= edit[k]

RedisInv ==
    /\ \A k \in Key : redis[k] # Null => Genuine(k, redis[k])
    /\ redis[StampKey] \in {Time, Null}

\* The kind of request that can be suspended at a step.
KindFits(kind, step) ==
    /\ step \in {"outerGet", "innerGet", "fetch", "innerSet", "outerSet"} => kind = "read"
    /\ step \in {"keys", "del", "setStamp"} => kind = "invalidate"
    /\ step = "getStamp" => kind = "stamp"

\* What an arrived request carries.
CommandInv(r) ==
    /\ op[r] \in Command
    /\ KindFits(op[r].kind, pc[r])
    /\ op[r].kind = "read" => op[r].key \in Key
    /\ \A k \in Key : op[r].published[k] <= edit[k]

\* An item may have been absent at some time between arrival and now.
MaybeAbsent(r) ==
    \E e \in Edit : /\ op[r].published[op[r].key] <= e /\ e <= edit[op[r].key]
                    /\ e \notin Served[op[r].key]

\* What the answer to a read stands for.
ReadAnswer(r) ==
    /\ answer[r] = 200 => Genuine(op[r].key, body[r])
    /\ answer[r] # 201
    /\ "strapi" \notin Failures => answer[r] # 500 /\ (answer[r] = 404 => MaybeAbsent(r))

RequestInv(r) ==
    /\ pc[r] # "idle" => CommandInv(r)
    /\ pc[r] # "done" => answer[r] = 0
    /\ pc[r] \in {"innerSet", "outerSet"} => Genuine(op[r].key, body[r])
    /\ Done(r, "read") => ReadAnswer(r)

Inv == Types /\ RedisInv /\ \A r \in Request : RequestInv(r)

-----------------------------------------------------------------------------
(* The invariant implies what the runs check. *)

LEMMA InvTypeOK == Inv => TypeOK
<1> SUFFICES ASSUME Inv PROVE TypeOK
    OBVIOUS
<1>1. \A k \in Key : redis[k] # Time
      BY ContentAssumption DEF Inv, RedisInv, Genuine
<1>2. ASSUME NEW r \in Request
      PROVE  /\ pc[r] # "idle" => op[r] # Null
             /\ pc[r] \in {"innerSet", "outerSet"} => body[r] \in Body
      BY <1>2, CommandAssumption DEF Inv, RequestInv, CommandInv, Genuine
<1> QED BY <1>1, <1>2 DEF Inv, Types, RedisInv, TypeOK

LEMMA InvCached == Inv => CachedWasServed
BY DEF Inv, RedisInv, Genuine, CachedWasServed

LEMMA InvSurvives == Inv /\ "strapi" \notin Failures => ReadsSurviveRedis
<1> SUFFICES ASSUME Inv, "strapi" \notin Failures, NEW r \in Request, Done(r, "read")
             PROVE  \/ answer[r] \in {0, 200}
                    \/ /\ answer[r] = 404
                       /\ \E e \in op[r].published[op[r].key] .. edit[op[r].key] :
                             e \notin Served[op[r].key]
    BY DEF ReadsSurviveRedis
<1>1. answer[r] \in {0, 200, 404} /\ ReadAnswer(r) /\ CommandInv(r)
      BY DEF Inv, Types, RequestInv, ReadAnswer, Done
<1>2. CASE answer[r] = 404
  <2>1. PICK e \in Edit : /\ op[r].published[op[r].key] <= e /\ e <= edit[op[r].key]
                          /\ e \notin Served[op[r].key]
        BY <1>1, <1>2 DEF ReadAnswer, MaybeAbsent
  <2>2. op[r].key \in Key
        BY <1>1 DEF CommandInv, Done
  <2>3. op[r].published[op[r].key] \in Nat /\ edit[op[r].key] \in Nat /\ e \in Nat
        BY <1>1, <2>2, ContentAssumption DEF CommandInv, Command, Inv, Types, Edit
  <2> QED BY <1>2, <2>1, <2>3
<1> QED BY <1>1, <1>2

-----------------------------------------------------------------------------
(* The invariant is inductive. *)

LEMMA InitInv == Init => Inv
<1> SUFFICES ASSUME Init PROVE Inv
    OBVIOUS
<1>1. Types
  <2>1. edit \in [Key -> Edit] /\ covered \in [Key -> Edit]
        BY ContentAssumption DEF Init, Edit
  <2>2. /\ redis \in [AllKeys -> Body \cup {Time, Null}] /\ expires \in [AllKeys -> Nat]
        /\ found \in [Request -> SUBSET AllKeys] /\ missed \in [Request -> SUBSET Key]
        BY DEF Init
  <2>3. /\ pc \in [Request -> Step] /\ now \in 0 .. MaxTime
        /\ deletions \in Nat /\ until \in Nat
        BY ContentAssumption DEF Init, Step
  <2>4. /\ op \in [Request -> Command \cup {Null}]
        /\ body \in [Request -> Body \cup {Time, Null}]
        /\ answer \in [Request -> {0, 200, 201, 404, 500}]
        BY DEF Init
  <2> QED BY <2>1, <2>2, <2>3, <2>4 DEF Types
<1>2. RedisInv
      BY DEF Init, RedisInv, AllKeys
<1>3. ASSUME NEW r \in Request PROVE RequestInv(r)
      BY DEF Init, RequestInv, Done
<1> QED BY <1>1, <1>2, <1>3 DEF Inv

\* Edits are only added, and what is genuine stays so.
Grows == \A k \in Key : edit[k] <= edit'[k]

LEMMA GenuineStays ==
    ASSUME Types, Types', Grows, NEW k \in Key, NEW b, Genuine(k, b)
    PROVE  b \in Body /\ b.edit \in Served[k] /\ b.edit <= edit'[k]
<1>1. /\ edit[k] \in Nat /\ edit'[k] \in Nat /\ b.edit \in Nat
      /\ edit[k] <= edit'[k]
      BY ContentAssumption DEF Types, Grows, Edit, Genuine, Body
<1> QED BY <1>1 DEF Genuine

LEMMA AbsentStays ==
    ASSUME Types, Types', Grows, NEW r \in Request, CommandInv(r), op[r].kind = "read",
           MaybeAbsent(r), op'[r] = op[r]
    PROVE  MaybeAbsent(r)'
<1>1. PICK e \in Edit : /\ op[r].published[op[r].key] <= e /\ e <= edit[op[r].key]
                        /\ e \notin Served[op[r].key]
      BY DEF MaybeAbsent
<1>2. op[r].key \in Key
      BY DEF CommandInv
<1>3. /\ edit[op[r].key] \in Nat /\ edit'[op[r].key] \in Nat /\ e \in Nat
      /\ edit[op[r].key] <= edit'[op[r].key]
      BY <1>2, ContentAssumption DEF Types, Grows, Edit
<1>4. e <= edit'[op[r].key]
      BY <1>1, <1>3
<1> QED BY <1>1, <1>4 DEF MaybeAbsent

LEMMA CommandStays ==
    ASSUME Types, Types', Grows, NEW r \in Request, CommandInv(r), op'[r] = op[r],
           KindFits(op[r].kind, pc'[r])
    PROVE  CommandInv(r)'
<1>1. ASSUME NEW k \in Key PROVE op[r].published[k] <= edit'[k]
  <2>1. /\ op[r].published[k] \in Nat /\ edit[k] \in Nat /\ edit'[k] \in Nat
        /\ op[r].published[k] <= edit[k] /\ edit[k] <= edit'[k]
        BY ContentAssumption DEF CommandInv, Command, Types, Edit, Grows
  <2> QED BY <2>1
<1> QED BY <1>1 DEF CommandInv

\* A step leaves alone what it says of the requests that it does not move.
LEMMA OthersKeep ==
    ASSUME Types, Types', Grows, NEW r \in Request, RequestInv(r), op'[r] = op[r],
           pc'[r] = pc[r], body'[r] = body[r], answer'[r] = answer[r]
    PROVE  RequestInv(r)'
<1>1. CASE pc[r] = "idle"
      BY <1>1 DEF RequestInv, Done
<1>2. CASE pc[r] # "idle"
  <2>1. CommandInv(r) /\ CommandInv(r)'
        BY <1>2, CommandStays DEF RequestInv, CommandInv
  <2>2. pc[r] \in {"innerSet", "outerSet"} => Genuine(op[r].key, body[r])'
        BY <2>1, GenuineStays DEF RequestInv, CommandInv, KindFits, Genuine
  <2>3. Done(r, "read") => ReadAnswer(r)'
    <3> SUFFICES ASSUME Done(r, "read") PROVE ReadAnswer(r)'
        OBVIOUS
    <3>1. op[r].key \in Key /\ op[r].kind = "read"
          BY <2>1 DEF CommandInv, Done
    <3>2. answer[r] = 200 => Genuine(op[r].key, body[r])'
          BY <3>1, GenuineStays DEF RequestInv, ReadAnswer, Genuine
    <3>3. "strapi" \notin Failures /\ answer[r] = 404 => MaybeAbsent(r)'
          BY <2>1, <3>1, AbsentStays DEF RequestInv, ReadAnswer
    <3> QED BY <3>2, <3>3 DEF RequestInv, ReadAnswer
  <2> QED BY <1>2, <2>1, <2>2, <2>3 DEF RequestInv, Done
<1> QED BY <1>1, <1>2

\* The step of one request, when no content is published.
LEMMA RequestStep ==
    ASSUME Inv, NEW r \in Request, Types', edit' = edit, RedisInv', RequestInv(r)',
           \A s \in Request \ {r} : /\ op'[s] = op[s] /\ pc'[s] = pc[s]
                                    /\ body'[s] = body[s] /\ answer'[s] = answer[s]
    PROVE  Inv'
<1>1. Grows
      BY ContentAssumption DEF Grows, Inv, Types, Edit
<1>2. ASSUME NEW s \in Request \ {r} PROVE RequestInv(s)'
      BY <1>1, OthersKeep DEF Inv
<1> QED BY <1>2 DEF Inv

\* Missed names keys, those of the reads that are storing.
LEMMA MissedTyped ==
    ASSUME Inv PROVE Missed \in [Request -> SUBSET Key]
<1>1. \A s \in Request : Storing(s) => op[s].key \in Key
      BY DEF Inv, RequestInv, CommandInv, KindFits, Storing
<1>2. ASSUME NEW r \in Request
      PROVE  missed[r] \in SUBSET Key
             /\ missed[r] \cup {op[s].key : s \in {s \in Request : Storing(s)}} \in SUBSET Key
      BY <1>1 DEF Inv, Types
<1> QED BY <1>2 DEF Missed

\* What Await and Answer leave of the types and of the other requests.
LEMMA AwaitStep ==
    ASSUME Inv, NEW r \in Request, NEW step \in Step, NEW data \in Body \cup {Time, Null},
           Await(r, step, data)
    PROVE  /\ pc' \in [Request -> Step] /\ body' \in [Request -> Body \cup {Time, Null}]
           /\ answer' = answer /\ pc'[r] = step /\ body'[r] = data
           /\ missed' \in [Request -> SUBSET Key]
           /\ \A s \in Request \ {r} : pc'[s] = pc[s] /\ body'[s] = body[s]
BY MissedTyped DEF Await, Inv, Types

LEMMA AnswerStep ==
    ASSUME Inv, NEW r \in Request, NEW status \in {200, 201, 404, 500},
           NEW data \in Body \cup {Time, Null}, Answer(r, status, data)
    PROVE  /\ pc' \in [Request -> Step] /\ body' \in [Request -> Body \cup {Time, Null}]
           /\ answer' \in [Request -> {0, 200, 201, 404, 500}]
           /\ pc'[r] = "done" /\ body'[r] = data /\ answer'[r] = status
           /\ missed' \in [Request -> SUBSET Key]
           /\ \A s \in Request \ {r} : /\ pc'[s] = pc[s] /\ body'[s] = body[s]
                                       /\ answer'[s] = answer[s]
BY MissedTyped DEF Answer, Inv, Types, Step

LEMMA PublishInv ==
    ASSUME Inv, NEW k \in Key, Publish(k) PROVE Inv'
<1>1. Types'
      BY ContentAssumption DEF Inv, Types, Publish, Edit
<1>2. Grows
      BY ContentAssumption DEF Inv, Types, Publish, Edit, Grows
<1>3. RedisInv'
  <2> SUFFICES ASSUME NEW j \in Key, redis[j] # Null PROVE Genuine(j, redis[j])'
      BY DEF RedisInv, Publish, Inv
  <2> QED BY <1>1, <1>2, GenuineStays DEF Inv, RedisInv, Genuine, Publish
<1>4. ASSUME NEW s \in Request PROVE RequestInv(s)'
      BY <1>1, <1>2, OthersKeep DEF Inv, Publish
<1> QED BY <1>1, <1>3, <1>4 DEF Inv

LEMMA SubmitInv ==
    ASSUME Inv, NEW r \in Request,
           NEW kind \in {"read", "invalidate", "stamp"}, NEW k \in Key \cup {Null},
           kind = "read" => k \in Key,
           Submit(r, kind, k)
    PROVE  Inv'
<1> DEFINE c == [kind |-> kind, key |-> k, published |-> edit,
                covered |-> covered, arrived |-> now]
<1>1. c \in Command /\ op' = [op EXCEPT ![r] = c]
      BY DEF Command, Inv, Types, Submit
<1>2. FirstStep(kind) \in Step \ {"idle", "done", "innerSet", "outerSet"} /\ KindFits(kind, FirstStep(kind))
      BY DEF FirstStep, Step, KindFits
<1>3. /\ pc' \in [Request -> Step] /\ body' \in [Request -> Body \cup {Time, Null}]
      /\ answer' = answer /\ pc'[r] = FirstStep(kind) /\ missed' \in [Request -> SUBSET Key]
      /\ \A s \in Request \ {r} : pc'[s] = pc[s] /\ body'[s] = body[s]
      BY <1>2, AwaitStep DEF Submit
<1>4. Types'
  <2> HIDE DEF c
  <2>1. op' \in [Request -> Command \cup {Null}]
        BY <1>1 DEF Inv, Types
  <2>2. UNCHANGED <<now, edit, redis, expires, found, covered, deletions, until>>
        BY DEF Submit
  <2> QED BY <1>3, <2>1, <2>2 DEF Inv, Types
<1>5. op'[r] = c /\ \A s \in Request \ {r} : op'[s] = op[s]
      BY <1>1 DEF Inv, Types
<1>6. edit' = edit /\ redis' = redis
      BY DEF Submit
<1>7. \A j \in Key : edit[j] <= edit[j]
      BY ContentAssumption DEF Inv, Types, Edit
<1>8. CommandInv(r)'
      BY <1>1, <1>2, <1>3, <1>5, <1>6, <1>7 DEF CommandInv
<1>9. answer[r] = 0
      BY DEF Inv, RequestInv, Submit
<1>10. RequestInv(r)'
      BY <1>2, <1>3, <1>8, <1>9 DEF RequestInv, Done
<1>11. RedisInv'
      BY <1>6 DEF Inv, RedisInv, Genuine
<1> QED BY <1>3, <1>4, <1>5, <1>6, <1>10, <1>11, RequestStep

\* The types of what Await and Answer leave to the action.
RestTyped ==
    /\ now \in 0 .. MaxTime
    /\ redis \in [AllKeys -> Body \cup {Time, Null}]
    /\ expires \in [AllKeys -> Nat]
    /\ found \in [Request -> SUBSET AllKeys]
    /\ covered \in [Key -> Edit]
    /\ deletions \in Nat
    /\ until \in Nat

LEMMA RestStays ==
    ASSUME Inv, UNCHANGED <<now, redis, expires, found, covered, deletions, until>>
    PROVE  RestTyped'
BY DEF Inv, Types, RestTyped

\* A request that goes on, with what it needs.
LEMMA GoesOn ==
    ASSUME Inv, NEW r \in Request, NEW step \in Step, NEW data \in Body \cup {Time, Null},
           pc[r] \notin {"idle", "done"},
           Await(r, step, data), op' = op, edit' = edit, RedisInv', RestTyped',
           step \notin {"idle", "done"}, KindFits(op[r].kind, step),
           step \in {"innerSet", "outerSet"} => Genuine(op[r].key, data)
    PROVE  Inv'
<1>1. /\ pc' \in [Request -> Step] /\ body' \in [Request -> Body \cup {Time, Null}]
      /\ answer' = answer /\ pc'[r] = step /\ body'[r] = data
      /\ missed' \in [Request -> SUBSET Key]
      /\ \A s \in Request \ {r} : pc'[s] = pc[s] /\ body'[s] = body[s]
      BY AwaitStep
<1>2. Types'
      BY <1>1 DEF Inv, Types, RestTyped
<1>3. CommandInv(r)'
      BY <1>1 DEF Inv, RequestInv, CommandInv
<1>4. answer[r] = 0
      BY DEF Inv, RequestInv
<1>5. RequestInv(r)'
      BY <1>1, <1>3, <1>4 DEF RequestInv, Done, Genuine
<1> QED BY <1>1, <1>2, <1>5, RequestStep

\* A request that is answered; a read, as ReadAnswer requires.
LEMMA IsAnswered ==
    ASSUME Inv, NEW r \in Request, NEW status \in {200, 201, 404, 500},
           NEW data \in Body \cup {Time, Null},
           pc[r] \notin {"idle", "done"},
           Answer(r, status, data), op' = op, edit' = edit, RedisInv', RestTyped',
           op[r].kind = "read" =>
              /\ status = 200 => Genuine(op[r].key, data)
              /\ status # 201
              /\ "strapi" \notin Failures => status # 500 /\ (status = 404 => MaybeAbsent(r))
    PROVE  Inv'
<1>1. /\ pc' \in [Request -> Step] /\ body' \in [Request -> Body \cup {Time, Null}]
      /\ answer' \in [Request -> {0, 200, 201, 404, 500}]
      /\ pc'[r] = "done" /\ body'[r] = data /\ answer'[r] = status
      /\ missed' \in [Request -> SUBSET Key]
      /\ \A s \in Request \ {r} : /\ pc'[s] = pc[s] /\ body'[s] = body[s]
                                  /\ answer'[s] = answer[s]
      BY AnswerStep
<1>2. Types'
      BY <1>1 DEF Inv, Types, RestTyped
<1>3. CommandInv(r)'
      BY <1>1 DEF Inv, RequestInv, CommandInv, KindFits
<1>4. op[r].kind = "read" => ReadAnswer(r)'
      BY <1>1 DEF ReadAnswer, Genuine, MaybeAbsent
<1>5. RequestInv(r)'
      BY <1>1, <1>3, <1>4 DEF RequestInv, Done
<1> QED BY <1>1, <1>2, <1>5, RequestStep

\* What a suspended request is, by the invariant.
LEMMA Suspended ==
    ASSUME Inv, NEW r \in Request, pc[r] \notin {"idle", "done"}
    PROVE  /\ CommandInv(r) /\ answer[r] = 0
           /\ pc[r] \in {"outerGet", "innerGet", "fetch", "innerSet", "outerSet"} =>
                 op[r].kind = "read" /\ op[r].key \in Key
           /\ pc[r] \in {"keys", "del", "setStamp"} => op[r].kind = "invalidate"
           /\ pc[r] = "getStamp" => op[r].kind = "stamp"
           /\ pc[r] \in {"innerSet", "outerSet"} => Genuine(op[r].key, body[r])
BY DEF Inv, RequestInv, CommandInv, KindFits

\* A hit is genuine, and stays so in an envelope.
LEMMA HitIsGenuine ==
    ASSUME Inv, NEW k \in Key, NEW hit \in Got(k)
    PROVE  hit = Null \/ (Genuine(k, hit) /\ Genuine(k, Wrap(hit)))
BY DEF Got, Inv, RedisInv, Genuine, Wrap, Body

LEMMA SameRedis == RedisInv /\ redis' = redis /\ edit' = edit => RedisInv'
BY DEF RedisInv, Genuine

LEMMA OuterGetInv ==
    ASSUME Inv, NEW r \in Request, OuterGet(r) PROVE Inv'
<1>1. /\ pc[r] = "outerGet" /\ op[r].kind = "read" /\ op[r].key \in Key
      BY Suspended DEF OuterGet
<1>2. PICK hit \in Got(op[r].key) :
          IF hit # Null THEN Answer(r, 200, hit) ELSE Await(r, "innerGet", Null)
      BY DEF OuterGet
<1>3. /\ op' = op /\ edit' = edit /\ redis' = redis
      /\ UNCHANGED <<now, redis, expires, found, covered, deletions, until>>
      BY DEF OuterGet
<1>4. RedisInv' /\ RestTyped'
      BY <1>3, SameRedis, RestStays DEF Inv
<1>5. CASE hit # Null
  <2>1. Genuine(op[r].key, hit) /\ hit \in Body
        BY <1>1, <1>5, HitIsGenuine DEF Genuine
  <2> QED BY <1>1, <1>2, <1>3, <1>4, <1>5, <2>1, IsAnswered
<1>6. CASE hit = Null
      BY <1>1, <1>2, <1>3, <1>4, <1>6, GoesOn DEF Step, KindFits
<1> QED BY <1>5, <1>6

LEMMA InnerGetInv ==
    ASSUME Inv, NEW r \in Request, InnerGet(r) PROVE Inv'
<1>1. /\ pc[r] = "innerGet" /\ op[r].kind = "read" /\ op[r].key \in Key
      BY Suspended DEF InnerGet
<1>2. PICK hit \in Got(op[r].key) :
          IF hit # Null THEN Await(r, "outerSet", Wrap(hit)) ELSE Await(r, "fetch", Null)
      BY DEF InnerGet
<1>3. /\ op' = op /\ edit' = edit /\ redis' = redis
      /\ UNCHANGED <<now, redis, expires, found, covered, deletions, until>>
      BY DEF InnerGet
<1>4. RedisInv' /\ RestTyped'
      BY <1>3, SameRedis, RestStays DEF Inv
<1>5. CASE hit # Null
  <2>1. Genuine(op[r].key, Wrap(hit)) /\ Wrap(hit) \in Body
        BY <1>1, <1>5, HitIsGenuine DEF Genuine
  <2> QED BY <1>1, <1>2, <1>3, <1>4, <1>5, <2>1, GoesOn DEF Step, KindFits
<1>6. CASE hit = Null
      BY <1>1, <1>2, <1>3, <1>4, <1>6, GoesOn DEF Step, KindFits
<1> QED BY <1>5, <1>6

\* What the handlers make of Strapi's answer is genuine where it has one.
LEMMA MappedIsGenuine ==
    ASSUME Inv, NEW k \in Key, edit[k] \in Served[k] PROVE Genuine(k, Mapped(k))
BY ContentAssumption DEF Genuine, Mapped, Body, Edit, Inv, Types

LEMMA FetchListInv ==
    ASSUME Inv, NEW r \in Request, FetchList(r) PROVE Inv'
<1>1. /\ pc[r] = "fetch" /\ op[r].kind = "read" /\ op[r].key \in Key
      /\ op[r].key \in Lists
      BY Suspended DEF FetchList
<1>2. Genuine(op[r].key, Mapped(op[r].key)) /\ Mapped(op[r].key) \in Body
      BY <1>1, MappedIsGenuine, ContentAssumption DEF Inv, Types, Genuine
<1>3. /\ op' = op /\ edit' = edit /\ redis' = redis
      /\ UNCHANGED <<now, redis, expires, found, covered, deletions, until>>
      BY DEF FetchList
<1>4. RedisInv' /\ RestTyped'
      BY <1>3, SameRedis, RestStays DEF Inv
<1>5. CASE Await(r, "innerSet", Mapped(op[r].key))
      BY <1>1, <1>2, <1>3, <1>4, <1>5, GoesOn DEF Step, KindFits
<1>6. CASE "strapi" \in Failures /\ Answer(r, 500, Null)
      BY <1>1, <1>3, <1>4, <1>6, IsAnswered
<1> QED BY <1>5, <1>6 DEF FetchList

LEMMA FetchItemInv ==
    ASSUME Inv, NEW r \in Request, FetchItem(r) PROVE Inv'
<1>1. /\ pc[r] = "fetch" /\ op[r].kind = "read" /\ op[r].key \in Key
      /\ CommandInv(r)
      BY Suspended DEF FetchItem
<1>2. PICK item \in RepositoryFinds(op[r].key) :
          IF item = Null THEN Answer(r, 404, Null) ELSE Await(r, "innerSet", item)
      BY DEF FetchItem
<1>3. /\ op' = op /\ edit' = edit /\ redis' = redis
      /\ UNCHANGED <<now, redis, expires, found, covered, deletions, until>>
      BY DEF FetchItem
<1>4. RedisInv' /\ RestTyped'
      BY <1>3, SameRedis, RestStays DEF Inv
<1>5. CASE item # Null
  <2>1. Genuine(op[r].key, item) /\ item \in Body
        BY <1>1, <1>5, MappedIsGenuine DEF RepositoryFinds, Found, Genuine
  <2> QED BY <1>1, <1>2, <1>3, <1>4, <1>5, <2>1, GoesOn DEF Step, KindFits
<1>6. CASE item = Null
  <2>1. "strapi" \notin Failures => MaybeAbsent(r)
    <3> SUFFICES ASSUME "strapi" \notin Failures PROVE MaybeAbsent(r)
        OBVIOUS
    <3>1. edit[op[r].key] \notin Served[op[r].key]
      <4>1. item = Found(op[r].key)
            BY DEF RepositoryFinds
      <4>2. Mapped(op[r].key) # Null
            BY <1>1, ContentAssumption DEF Mapped, Body, Inv, Types, Edit
      <4> QED BY <1>6, <4>1, <4>2 DEF Found
    <3>2. /\ op[r].published[op[r].key] <= edit[op[r].key]
          /\ edit[op[r].key] \in Edit /\ edit[op[r].key] <= edit[op[r].key]
          BY <1>1, ContentAssumption DEF CommandInv, Inv, Types, Edit
    <3> QED BY <3>1, <3>2 DEF MaybeAbsent
  <2> QED BY <1>1, <1>2, <1>3, <1>4, <1>6, <2>1, IsAnswered
<1> QED BY <1>5, <1>6

LEMMA StoresGenuine ==
    ASSUME Inv, NEW k \in Key, NEW b, Genuine(k, b), SetKey(k, b, Ttl), edit' = edit,
           UNCHANGED <<now, found, covered, deletions, until>>
    PROVE  RedisInv' /\ RestTyped'
<1>1. CASE UNCHANGED <<redis, expires>>
      BY <1>1, SameRedis, RestStays DEF Inv
<1>2. CASE /\ redis' = [redis EXCEPT ![k] = b]
           /\ expires' = [expires EXCEPT ![k] = now + Ttl]
  <2>1. RedisInv'
        BY <1>2, ContentAssumption DEF Inv, Types, RedisInv, Genuine, AllKeys
  <2>2. redis' \in [AllKeys -> Body \cup {Time, Null}]
        BY <1>2 DEF Inv, Types, Genuine
  <2>3. now + Ttl \in Nat
        BY ContentAssumption DEF Inv, Types
  <2>4. expires' \in [AllKeys -> Nat]
        BY <1>2, <2>3 DEF Inv, Types
  <2> QED BY <2>1, <2>2, <2>4 DEF Inv, Types, RestTyped
<1> QED BY <1>1, <1>2 DEF SetKey

LEMMA InnerSetInv ==
    ASSUME Inv, NEW r \in Request, InnerSet(r) PROVE Inv'
<1>1. /\ pc[r] = "innerSet" /\ op[r].kind = "read" /\ op[r].key \in Key
      /\ Genuine(op[r].key, body[r])
      BY Suspended DEF InnerSet
<1>2. /\ op' = op /\ edit' = edit /\ UNCHANGED <<now, found, covered, deletions, until>>
      /\ SetKey(op[r].key, body[r], Ttl) /\ Await(r, "outerSet", Wrap(body[r]))
      BY DEF InnerSet
<1>3. RedisInv' /\ RestTyped'
      BY <1>1, <1>2, StoresGenuine
<1>4. Genuine(op[r].key, Wrap(body[r])) /\ Wrap(body[r]) \in Body
      BY <1>1 DEF Genuine, Wrap, Body
<1> QED BY <1>1, <1>2, <1>3, <1>4, GoesOn DEF Step, KindFits

LEMMA OuterSetInv ==
    ASSUME Inv, NEW r \in Request, OuterSet(r) PROVE Inv'
<1>1. /\ pc[r] = "outerSet" /\ op[r].kind = "read" /\ op[r].key \in Key
      /\ Genuine(op[r].key, body[r]) /\ body[r] \in Body
      BY Suspended DEF OuterSet, Genuine
<1>2. /\ op' = op /\ edit' = edit /\ UNCHANGED <<now, found, covered, deletions, until>>
      /\ SetKey(op[r].key, body[r], Ttl) /\ Answer(r, 200, body[r])
      BY DEF OuterSet
<1>3. RedisInv' /\ RestTyped'
      BY <1>1, <1>2, StoresGenuine
<1> QED BY <1>1, <1>2, <1>3, IsAnswered

LEMMA FindKeysInv ==
    ASSUME Inv, NEW r \in Request, FindKeys(r) PROVE Inv'
<1>1. pc[r] = "keys" /\ op[r].kind = "invalidate"
      BY Suspended DEF FindKeys
<1>2. found' \in [Request -> SUBSET AllKeys]
      BY DEF FindKeys, Inv, Types
<1>3. PICK step \in {"del", "setStamp"} : Await(r, step, Null)
      BY DEF FindKeys
<1>4. /\ op' = op /\ edit' = edit /\ redis' = redis
      /\ UNCHANGED <<now, expires, covered, deletions, until>>
      BY DEF FindKeys
<1>5. RedisInv' /\ RestTyped'
      BY <1>2, <1>4, SameRedis DEF Inv, Types, RestTyped
<1> QED BY <1>1, <1>3, <1>4, <1>5, GoesOn DEF Step, KindFits

\* Keys that go leave the rest as it was.
LEMMA DropsTyped ==
    ASSUME Inv, NEW keys, Drop(keys), edit' = edit
    PROVE  /\ RedisInv'
           /\ redis' \in [AllKeys -> Body \cup {Time, Null}] /\ expires' \in [AllKeys -> Nat]
<1>1. /\ redis' = [k \in AllKeys |-> IF k \in keys THEN Null ELSE redis[k]]
      /\ expires' = [k \in AllKeys |-> IF k \in keys THEN 0 ELSE expires[k]]
      BY DEF Drop
<1>2. RedisInv'
      BY <1>1 DEF Inv, RedisInv, Genuine, AllKeys
<1> QED BY <1>1, <1>2 DEF Inv, Types

LEMMA DeleteFoundInv ==
    ASSUME Inv, NEW r \in Request, DeleteFound(r) PROVE Inv'
<1>1. pc[r] = "del" /\ op[r].kind = "invalidate"
      BY Suspended DEF DeleteFound
<1>2. /\ op' = op /\ edit' = edit /\ UNCHANGED <<now, covered, until>>
      /\ deletions' = deletions + 1
      /\ Await(r, "setStamp", Null) /\ Drop(found[r])
      BY DEF DeleteFound
<1>3. found' \in [Request -> SUBSET AllKeys]
      BY DEF DeleteFound, Inv, Types
<1>4. /\ RedisInv'
      /\ redis' \in [AllKeys -> Body \cup {Time, Null}] /\ expires' \in [AllKeys -> Nat]
      BY <1>2, DropsTyped
<1>5. RestTyped'
      BY <1>2, <1>3, <1>4 DEF Inv, Types, RestTyped
<1> QED BY <1>1, <1>2, <1>4, <1>5, GoesOn DEF Step, KindFits

LEMMA DeleteByPatternFailsInv ==
    ASSUME Inv, NEW r \in Request, DeleteByPatternFails(r) PROVE Inv'
<1>1. /\ pc[r] \in {"keys", "del"} /\ op[r].kind = "invalidate" /\ CommandInv(r)
      /\ answer[r] = 0
      BY Suspended DEF DeleteByPatternFails
<1>2. /\ UNCHANGED <<now, edit, redis, expires, op, body, answer, covered, deletions, until>>
      /\ pc' = [pc EXCEPT ![r] = "setStamp"] /\ missed' = [Missed EXCEPT ![r] = Key]
      BY DEF DeleteByPatternFails
<1>3. missed' \in [Request -> SUBSET Key]
      BY <1>2, MissedTyped
<1>4. found' \in [Request -> SUBSET AllKeys] /\ pc' \in [Request -> Step]
      BY <1>2 DEF DeleteByPatternFails, Inv, Types, Step
<1>5. Types'
      BY <1>2, <1>3, <1>4 DEF Inv, Types
<1>6. pc'[r] = "setStamp" /\ \A s \in Request \ {r} : pc'[s] = pc[s]
      BY <1>2 DEF Inv, Types
<1>7. CommandInv(r)'
      BY <1>1, <1>2, <1>6 DEF CommandInv, KindFits
<1>8. RequestInv(r)'
      BY <1>1, <1>2, <1>6, <1>7 DEF RequestInv, Done
<1>9. RedisInv'
      BY <1>2, SameRedis DEF Inv
<1> QED BY <1>2, <1>5, <1>6, <1>8, <1>9, RequestStep

\* What an answered invalidation covers.
LEMMA CoveredTyped ==
    ASSUME Inv, NEW r \in Request, pc[r] = "setStamp" PROVE Covering(r) \in [Key -> Edit]
<1>1. op[r] \in Command
      BY Suspended DEF CommandInv
<1> QED BY <1>1 DEF Covering, Inv, Types, Command

LEMMA RecordStampInv ==
    ASSUME Inv, NEW r \in Request, RecordStamp(r) PROVE Inv'
<1>1. pc[r] = "setStamp" /\ op[r].kind = "invalidate"
      BY Suspended DEF RecordStamp
<1>2. /\ op' = op /\ edit' = edit /\ found' = found /\ now' = now /\ deletions' = deletions
      /\ covered' = Covering(r) /\ until' = now + StampTtl
      /\ Answer(r, 201, Null) /\ SetKey(StampKey, Time, StampTtl)
      BY DEF RecordStamp
<1>3. covered' \in [Key -> Edit] /\ until' \in Nat
      BY <1>1, <1>2, CoveredTyped, ContentAssumption DEF Inv, Types
<1>4. /\ RedisInv' /\ redis' \in [AllKeys -> Body \cup {Time, Null}]
      /\ expires' \in [AllKeys -> Nat]
  <2>1. CASE UNCHANGED <<redis, expires>>
        BY <1>2, <2>1, SameRedis DEF Inv, Types
  <2>2. CASE /\ redis' = [redis EXCEPT ![StampKey] = Time]
             /\ expires' = [expires EXCEPT ![StampKey] = now + StampTtl]
    <3>1. RedisInv'
          BY <1>2, <2>2, ContentAssumption DEF Inv, Types, RedisInv, Genuine, AllKeys
    <3>2. redis' \in [AllKeys -> Body \cup {Time, Null}]
          BY <2>2 DEF Inv, Types
    <3>3. now + StampTtl \in Nat
          BY ContentAssumption DEF Inv, Types
    <3>4. expires' \in [AllKeys -> Nat]
          BY <2>2, <3>3 DEF Inv, Types
    <3> QED BY <3>1, <3>2, <3>4
  <2> QED BY <1>2, <2>1, <2>2 DEF SetKey
<1>5. RestTyped'
      BY <1>2, <1>3, <1>4 DEF Inv, Types, RestTyped
<1> QED BY <1>1, <1>2, <1>4, <1>5, IsAnswered

LEMMA GetStampInv ==
    ASSUME Inv, NEW r \in Request, GetStamp(r) PROVE Inv'
<1>1. pc[r] = "getStamp" /\ op[r].kind = "stamp"
      BY Suspended DEF GetStamp
<1>2. PICK timestamp \in Got(StampKey) : Answer(r, 200, timestamp)
      BY DEF GetStamp
<1>3. timestamp \in Body \cup {Time, Null}
      BY DEF Got, Inv, RedisInv
<1>4. /\ op' = op /\ edit' = edit /\ redis' = redis
      /\ UNCHANGED <<now, redis, expires, found, covered, deletions, until>>
      BY DEF GetStamp
<1>5. RedisInv' /\ RestTyped'
      BY <1>4, SameRedis, RestStays DEF Inv
<1> QED BY <1>1, <1>2, <1>3, <1>4, <1>5, IsAnswered

LEMMA TickInv ==
    ASSUME Inv, Tick PROVE Inv'
<1>1. /\ UNCHANGED <<edit, op, pc, body, found, answer, missed, covered, deletions, until>>
      /\ now' = now + 1 /\ now < MaxTime
      /\ Drop({k \in AllKeys : expires[k] <= now + 1})
      BY DEF Tick
<1>2. /\ RedisInv'
      /\ redis' \in [AllKeys -> Body \cup {Time, Null}] /\ expires' \in [AllKeys -> Nat]
      BY <1>1, DropsTyped
<1>3. now' \in 0 .. MaxTime
      BY <1>1, ContentAssumption DEF Inv, Types
<1>4. Types'
      BY <1>1, <1>2, <1>3 DEF Inv, Types
<1>5. Grows
      BY <1>1, ContentAssumption DEF Grows, Inv, Types, Edit
<1>6. ASSUME NEW s \in Request PROVE RequestInv(s)'
      BY <1>1, <1>4, <1>5, OthersKeep DEF Inv
<1> QED BY <1>2, <1>4, <1>6 DEF Inv

LEMMA CrashInv ==
    ASSUME Inv, Crash PROVE Inv'
<1>1. Types'
      BY DEF Inv, Types, Crash, Step
<1>2. RedisInv'
      BY SameRedis DEF Inv, Crash
<1>3. Grows
      BY ContentAssumption DEF Grows, Inv, Types, Edit, Crash
<1>4. ASSUME NEW s \in Request PROVE RequestInv(s)'
  <2>1. CASE s \in InFlight
    <3>1. pc'[s] = "done" /\ op'[s] = op[s] /\ answer'[s] = 0 /\ CommandInv(s)
          BY <2>1, Suspended DEF Inv, Types, Crash, InFlight
    <3>2. CommandInv(s)'
          BY <1>1, <1>3, <3>1, CommandStays DEF Inv, KindFits
    <3> QED BY <3>1, <3>2 DEF RequestInv, ReadAnswer
  <2>2. CASE s \notin InFlight
        BY <1>1, <1>3, <2>2, OthersKeep DEF Inv, Types, Crash
  <2> QED BY <2>1, <2>2
<1> QED BY <1>1, <1>2, <1>4 DEF Inv

LEMMA NextInv == Inv /\ [Next]_vars => Inv'
<1> SUFFICES ASSUME Inv, [Next]_vars PROVE Inv'
    OBVIOUS
<1>1. ASSUME NEW k \in Key, Publish(k) PROVE Inv'
      BY <1>1, PublishInv
<1>2. ASSUME NEW r \in Request, NEW k \in Key, SubmitList(r, k) \/ SubmitItem(r, k)
      PROVE  Inv'
      BY <1>2, SubmitInv DEF SubmitList, SubmitItem
<1>3. ASSUME NEW r \in Request, SubmitInvalidate(r) \/ SubmitStamp(r) PROVE Inv'
      BY <1>3, SubmitInv DEF SubmitInvalidate, SubmitStamp
<1>4. ASSUME NEW r \in Request, Proceed(r) PROVE Inv'
      BY <1>4, OuterGetInv, InnerGetInv, FetchListInv, FetchItemInv, InnerSetInv,
         OuterSetInv, FindKeysInv, DeleteFoundInv, DeleteByPatternFailsInv,
         RecordStampInv, GetStampInv DEF Proceed
<1>5. CASE Tick
      BY <1>5, TickInv
<1>6. CASE UNCHANGED vars
  <2>1. Types' /\ RedisInv' /\ Grows
        BY <1>6, SameRedis, ContentAssumption DEF Inv, Types, Edit, Grows, vars
  <2>2. ASSUME NEW s \in Request PROVE RequestInv(s)'
        BY <1>6, <2>1, OthersKeep DEF Inv, vars
  <2> QED BY <2>1, <2>2 DEF Inv
<1> QED BY <1>1, <1>2, <1>3, <1>4, <1>5, <1>6, CrashInv DEF Next

\* The invariant holds in every reachable state.
THEOREM InvHolds == Spec => []Inv
BY InitInv, NextInv, PTL DEF Spec

\* Every reachable state is well typed, whatever overlaps and fails.
THEOREM TypeCorrect == Spec => []TypeOK
BY InvHolds, InvTypeOK, PTL

\* Neither an error nor anything unpublished is ever cached.
THEOREM CachedServed == Spec => []CachedWasServed
BY InvHolds, InvCached, PTL

\* While Strapi answers, no failure of Redis costs a read its answer.
THEOREM ReadsSurvive == "strapi" \notin Failures => (Spec => []ReadsSurviveRedis)
<1> SUFFICES ASSUME "strapi" \notin Failures PROVE Spec => []ReadsSurviveRedis
    OBVIOUS
<1>1. Inv => ReadsSurviveRedis
      BY InvSurvives
<1> QED BY <1>1, InvHolds, PTL

-----------------------------------------------------------------------------
(***************************************************************************)
(* What an answered invalidation guarantees: a later read is not given    *)
(* content older than what the invalidation covers.  Nothing is assumed of *)
(* Redis, of Strapi, of crashes or of what overlaps: an invalidation does  *)
(* not cover the keys it has missed.                                       *)
(***************************************************************************)

\* An edit as new as every invalidation past its DEL has been called for.
Recent(k, e) ==
    /\ covered[k] <= e
    /\ \A r \in Request :
          pc[r] = "setStamp" /\ k \notin missed[r] => op[r].published[k] <= e

CacheFresh ==
    \A k \in Key : /\ covered[k] <= edit[k]
                   /\ redis[k] # Null => Recent(k, redis[k].edit)

\* What a request holds is that new too, and what it answers as new as the
\* invalidations before it; an invalidation has found every entry, but of the
\* keys it has missed.
RequestFresh(r) ==
    /\ pc[r] # "idle" => \A k \in Key : op[r].covered[k] <= covered[k]
    /\ Storing(r) => Recent(op[r].key, body[r].edit)
    /\ pc[r] = "del" => \A k \in Key : redis[k] # Null => k \in found[r] \/ k \in missed[r]
    /\ Done(r, "read") /\ answer[r] = 200 => op[r].covered[op[r].key] <= body[r].edit

FreshInv == Inv /\ CacheFresh /\ \A r \in Request : RequestFresh(r)

LEMMA FreshImplies == FreshInv => FreshAfterInvalidation
<1> SUFFICES ASSUME FreshInv, NEW r \in Request, Done(r, "read"), answer[r] = 200
             PROVE  body[r].edit >= op[r].covered[op[r].key]
    BY DEF FreshAfterInvalidation
<1>1. CommandInv(r) /\ Genuine(op[r].key, body[r]) /\ op[r].key \in Key
      BY DEF FreshInv, Inv, RequestInv, ReadAnswer, Done, CommandInv
<1>2. body[r].edit \in Nat /\ op[r].covered[op[r].key] \in Nat
      BY <1>1, ContentAssumption DEF CommandInv, Command, Genuine, Body, Edit
<1> QED BY <1>2 DEF FreshInv, RequestFresh

LEMMA InitFresh == Init => FreshInv
<1> SUFFICES ASSUME Init PROVE FreshInv
    OBVIOUS
<1>1. Inv
      BY InitInv
<1>2. CacheFresh
      BY DEF Init, CacheFresh, AllKeys
<1>3. ASSUME NEW r \in Request PROVE RequestFresh(r)
      BY DEF Init, RequestFresh, Done, Storing
<1> QED BY <1>1, <1>2, <1>3 DEF FreshInv

\* The numbers that the comparisons are about.
LEMMA Numbers ==
    ASSUME Inv, NEW k \in Key
    PROVE  /\ edit[k] \in Nat /\ covered[k] \in Nat
           /\ redis[k] # Null => redis[k].edit \in Nat
           /\ \A r \in Request :
                 pc[r] # "idle" => /\ op[r].covered[k] \in Nat /\ op[r].published[k] \in Nat
                                   /\ op[r].published[k] <= edit[k]
<1>1. edit[k] \in Nat /\ covered[k] \in Nat
      BY ContentAssumption DEF Inv, Types, Edit
<1>2. redis[k] # Null => redis[k].edit \in Nat
      BY ContentAssumption DEF Inv, RedisInv, Genuine, Body, Edit
<1>3. ASSUME NEW r \in Request, pc[r] # "idle"
      PROVE  /\ op[r].covered[k] \in Nat /\ op[r].published[k] \in Nat
             /\ op[r].published[k] <= edit[k]
  <2>1. CommandInv(r) /\ op[r].covered \in [Key -> Edit] /\ op[r].published \in [Key -> Edit]
        BY <1>3 DEF Inv, RequestInv, CommandInv, Command
  <2> QED BY <2>1, ContentAssumption DEF Edit, CommandInv
<1> QED BY <1>1, <1>2, <1>3

\* What is published now is as new as any invalidation.
LEMMA PublishedRecent ==
    ASSUME FreshInv, NEW k \in Key PROVE Recent(k, edit[k])
BY Numbers DEF FreshInv, CacheFresh, Recent

\* No invalidation gets past its DEL that vouches for k.
NoNewer(k) ==
    /\ covered'[k] = covered[k]
    /\ \A r \in Request : pc'[r] = "setStamp" /\ k \notin missed'[r] =>
          pc[r] = "setStamp" /\ k \notin missed[r] /\ op'[r] = op[r]

LEMMA RecentStays ==
    ASSUME NEW k, NoNewer(k), NEW e, Recent(k, e) PROVE Recent(k, e)'
BY DEF Recent, NoNewer

\* What is said of a request that does not move stays so, if no entry appears
\* between the KEYS and the DEL of an invalidation that does not miss it.
LEMMA StaysFresh ==
    ASSUME NEW s \in Request, RequestFresh(s), covered' = covered,
           op'[s] = op[s], pc'[s] = pc[s], body'[s] = body[s],
           answer'[s] = answer[s], found'[s] = found[s],
           Storing(s) => NoNewer(op[s].key),
           \A k \in missed[s] : k \in missed'[s],
           pc[s] = "del" => \A k \in Key : redis[k] = Null => redis'[k] = Null \/ k \in missed'[s]
    PROVE  RequestFresh(s)'
<1>1. Storing(s)' => Recent(op[s].key, body[s].edit)'
      BY RecentStays DEF RequestFresh, Storing
<1>2. pc'[s] = "del" => \A k \in Key : redis'[k] # Null => k \in found'[s] \/ k \in missed'[s]
      BY DEF RequestFresh
<1> QED BY <1>1, <1>2 DEF RequestFresh, Done, Storing

-----------------------------------------------------------------------------
(* One lemma per action. *)

\* What Await and Answer set, and what they leave alone.
LEMMA AwaitMoves ==
    ASSUME Inv, NEW r \in Request, NEW step, NEW data, Await(r, step, data)
    PROVE  /\ pc'[r] = step /\ body'[r] = data /\ answer' = answer /\ missed' = Missed
           /\ \A s \in Request \ {r} : pc'[s] = pc[s] /\ body'[s] = body[s]
BY DEF Await, Inv, Types

LEMMA AnswerMoves ==
    ASSUME Inv, NEW r \in Request, NEW status, NEW data, Answer(r, status, data)
    PROVE  /\ pc'[r] = "done" /\ body'[r] = data /\ answer'[r] = status /\ missed' = Missed
           /\ \A s \in Request \ {r} : /\ pc'[s] = pc[s] /\ body'[s] = body[s]
                                       /\ answer'[s] = answer[s]
BY DEF Answer, Inv, Types

\* An invalidation misses ever more, and the keys of the reads that are storing.
LEMMA MissedGrows ==
    ASSUME NEW s \in Request
    PROVE  /\ \A k \in missed[s] : k \in Missed[s]
           /\ pc[s] = "setStamp" => Missed[s] = missed[s]
           /\ pc[s] \in {"keys", "del"} =>
                 \A t \in Request : Storing(t) => op[t].key \in Missed[s]
BY DEF Missed

LEMMA PublishFresh ==
    ASSUME FreshInv, NEW k \in Key, Publish(k) PROVE FreshInv'
<1>1. Inv'
      BY PublishInv DEF FreshInv
<1>2. UNCHANGED <<covered, redis, pc, op, missed>>
      BY DEF Publish
<1>3. ASSUME NEW j \in Key PROVE covered'[j] <= edit'[j]
  <2>1. covered[j] \in Nat /\ edit[j] \in Nat /\ covered[j] <= edit[j]
        BY Numbers DEF FreshInv, CacheFresh
  <2>2. edit'[j] \in {edit[j], edit[j] + 1}
        BY DEF Publish, FreshInv, Inv, Types
  <2> QED BY <1>2, <2>1, <2>2
<1>4. CacheFresh'
      BY <1>2, <1>3 DEF FreshInv, CacheFresh, Recent
<1>5. \A j : NoNewer(j)
      BY <1>2 DEF NoNewer
<1>6. ASSUME NEW s \in Request PROVE RequestFresh(s)'
      BY <1>5, StaysFresh DEF FreshInv, Publish
<1> QED BY <1>1, <1>4, <1>6 DEF FreshInv

LEMMA SubmitFresh ==
    ASSUME FreshInv, NEW r \in Request,
           NEW kind \in {"read", "invalidate", "stamp"}, NEW k \in Key \cup {Null},
           kind = "read" => k \in Key,
           Submit(r, kind, k)
    PROVE  FreshInv'
<1>1. Inv'
      BY SubmitInv DEF FreshInv
<1>2. /\ pc[r] = "idle" /\ pc'[r] = FirstStep(kind) /\ op'[r].covered = covered
      /\ \A s \in Request \ {r} : pc'[s] = pc[s] /\ op'[s] = op[s] /\ body'[s] = body[s]
      /\ answer' = answer /\ redis' = redis /\ edit' = edit /\ found' = found
      /\ covered' = covered /\ missed' = Missed
      BY DEF Submit, Await, FreshInv, Inv, Types
<1>3. ASSUME NEW j PROVE NoNewer(j)
  <2>1. ASSUME NEW s \in Request, pc'[s] = "setStamp"
        PROVE  pc[s] = "setStamp" /\ op'[s] = op[s] /\ missed'[s] = missed[s]
        BY <1>2, <2>1, MissedGrows DEF FirstStep
  <2> QED BY <1>2, <2>1 DEF NoNewer
<1>4. \A j \in Key : covered[j] <= covered[j]
      BY Numbers DEF FreshInv
<1>5. RequestFresh(r)'
      BY <1>2, <1>4 DEF RequestFresh, FirstStep, Done, Storing
<1>6. ASSUME NEW s \in Request \ {r} PROVE RequestFresh(s)'
      BY <1>2, <1>3, MissedGrows, StaysFresh DEF FreshInv
<1>7. CacheFresh'
      BY <1>2, <1>3, RecentStays DEF FreshInv, CacheFresh
<1> QED BY <1>1, <1>5, <1>6, <1>7 DEF FreshInv

\* The step of a read or of a timestamp request.
LEMMA ReadStep ==
    ASSUME FreshInv, Inv', NEW r \in Request,
           pc[r] \notin {"idle", "done"}, pc'[r] \notin {"idle", "del", "setStamp"},
           op' = op, edit' = edit, found' = found, covered' = covered, missed' = Missed,
           \A k \in Key : redis'[k] = redis[k] \/ (Storing(r) /\ k = op[r].key),
           \A k \in Key : redis'[k] # Null => Recent(k, redis'[k].edit),
           Storing(r)' => Recent(op[r].key, body'[r].edit),
           op[r].kind = "read" /\ answer'[r] = 200 => covered[op[r].key] <= body'[r].edit,
           \A s \in Request \ {r} : /\ pc'[s] = pc[s] /\ body'[s] = body[s]
                                    /\ answer'[s] = answer[s]
    PROVE  FreshInv'
<1>1. ASSUME NEW j PROVE NoNewer(j)
  <2>1. ASSUME NEW s \in Request, pc'[s] = "setStamp"
        PROVE  pc[s] = "setStamp" /\ missed'[s] = missed[s]
        BY <2>1, MissedGrows
  <2> QED BY <2>1 DEF NoNewer
<1>2. CacheFresh'
      BY <1>1, RecentStays DEF FreshInv, CacheFresh
<1>3. ASSUME NEW s \in Request \ {r} PROVE RequestFresh(s)'
      BY <1>1, MissedGrows, StaysFresh DEF FreshInv
<1>4. RequestFresh(r)'
  <2>1. \A k \in Key : op[r].covered[k] <= covered[k]
        BY DEF FreshInv, RequestFresh
  <2>2. Done(r, "read")' /\ answer'[r] = 200 => op[r].covered[op[r].key] <= body'[r].edit
    <3> SUFFICES ASSUME Done(r, "read")', answer'[r] = 200
                 PROVE  op[r].covered[op[r].key] <= body'[r].edit
        OBVIOUS
    <3>1. op[r].kind = "read" /\ op[r].key \in Key
          BY DEF Done, FreshInv, Inv, RequestInv, CommandInv
    <3>2. Genuine(op[r].key, body[r])'
          BY DEF Inv, RequestInv, ReadAnswer
    <3>3. /\ body'[r].edit \in Nat /\ covered[op[r].key] \in Nat
          /\ op[r].covered[op[r].key] \in Nat
          BY <3>1, <3>2, Numbers, ContentAssumption DEF FreshInv, Genuine, Body, Edit
    <3> QED BY <2>1, <3>1, <3>3
  <2>3. Storing(r)' => Recent(op[r].key, body[r].edit)'
        BY <1>1, RecentStays
  <2> QED BY <2>1, <2>2, <2>3 DEF RequestFresh
<1> QED BY <1>2, <1>3, <1>4 DEF FreshInv

\* One that leaves Redis alone.
LEMMA PeekStep ==
    ASSUME FreshInv, Inv', NEW r \in Request,
           pc[r] \notin {"idle", "done"}, pc'[r] \notin {"idle", "del", "setStamp"},
           op' = op, edit' = edit, found' = found, covered' = covered, redis' = redis,
           missed' = Missed,
           Storing(r)' => Recent(op[r].key, body'[r].edit),
           op[r].kind = "read" /\ answer'[r] = 200 => covered[op[r].key] <= body'[r].edit,
           \A s \in Request \ {r} : /\ pc'[s] = pc[s] /\ body'[s] = body[s]
                                    /\ answer'[s] = answer[s]
    PROVE  FreshInv'
<1>1. \A k \in Key : redis'[k] # Null => Recent(k, redis'[k].edit)
      BY DEF FreshInv, CacheFresh
<1> QED BY <1>1, ReadStep

LEMMA OuterGetFresh ==
    ASSUME FreshInv, NEW r \in Request, OuterGet(r)
    PROVE  FreshInv'
<1>1. pc[r] = "outerGet" /\ op[r].key \in Key /\ op[r].kind = "read" /\ answer[r] = 0
      BY Suspended DEF FreshInv, OuterGet
<1>2. /\ op' = op /\ edit' = edit /\ redis' = redis /\ found' = found
      /\ covered' = covered /\ Inv /\ Inv'
      BY OuterGetInv DEF FreshInv, OuterGet
<1>3. \/ redis[op[r].key] # Null /\ Answer(r, 200, redis[op[r].key])
      \/ Await(r, "innerGet", Null)
      BY DEF OuterGet, Got
<1>4. CASE redis[op[r].key] # Null /\ Answer(r, 200, redis[op[r].key])
  <2>1. covered[op[r].key] <= redis[op[r].key].edit
        BY <1>1, <1>4 DEF FreshInv, CacheFresh, Recent
  <2> QED BY <1>1, <1>2, <1>4, <2>1, AnswerMoves, PeekStep DEF Storing
<1>5. CASE Await(r, "innerGet", Null)
      BY <1>1, <1>2, <1>5, AwaitMoves, PeekStep DEF Storing
<1> QED BY <1>3, <1>4, <1>5

LEMMA InnerGetFresh ==
    ASSUME FreshInv, NEW r \in Request, InnerGet(r)
    PROVE  FreshInv'
<1>1. pc[r] = "innerGet" /\ op[r].key \in Key /\ op[r].kind = "read" /\ answer[r] = 0
      BY Suspended DEF FreshInv, InnerGet
<1>2. /\ op' = op /\ edit' = edit /\ redis' = redis /\ found' = found
      /\ covered' = covered /\ Inv /\ Inv'
      BY InnerGetInv DEF FreshInv, InnerGet
<1>3. \/ redis[op[r].key] # Null /\ Await(r, "outerSet", Wrap(redis[op[r].key]))
      \/ Await(r, "fetch", Null)
      BY DEF InnerGet, Got
<1>4. CASE redis[op[r].key] # Null /\ Await(r, "outerSet", Wrap(redis[op[r].key]))
  <2>1. Wrap(redis[op[r].key]).edit = redis[op[r].key].edit
        BY <1>1, <1>4 DEF FreshInv, Inv, RedisInv, Genuine, Wrap, Body
  <2>2. Recent(op[r].key, Wrap(redis[op[r].key]).edit)
        BY <1>1, <1>4, <2>1 DEF FreshInv, CacheFresh
  <2> QED BY <1>1, <1>2, <1>4, <2>2, AwaitMoves, PeekStep
<1>5. CASE Await(r, "fetch", Null)
      BY <1>1, <1>2, <1>5, AwaitMoves, PeekStep DEF Storing
<1> QED BY <1>3, <1>4, <1>5

\* What a handler makes of Strapi's answer is as new as any invalidation.
LEMMA FetchFresh ==
    ASSUME FreshInv, NEW r \in Request, FetchList(r) \/ FetchItem(r)
    PROVE  FreshInv'
<1>1. pc[r] = "fetch" /\ op[r].key \in Key /\ op[r].kind = "read" /\ answer[r] = 0
      BY Suspended DEF FreshInv, FetchList, FetchItem
<1>2. /\ op' = op /\ edit' = edit /\ redis' = redis /\ found' = found
      /\ covered' = covered /\ Inv /\ Inv'
      BY FetchListInv, FetchItemInv DEF FreshInv, FetchList, FetchItem
<1>3. \/ Await(r, "innerSet", Mapped(op[r].key))
      \/ Answer(r, 404, Null)
      \/ Answer(r, 500, Null)
      BY ContentAssumption DEF FetchList, FetchItem, RepositoryFinds, Found, Mapped
<1>4. CASE Await(r, "innerSet", Mapped(op[r].key))
  <2>1. Recent(op[r].key, Mapped(op[r].key).edit)
        BY <1>1, PublishedRecent DEF Mapped
  <2> QED BY <1>1, <1>2, <1>4, <2>1, AwaitMoves, PeekStep
<1>5. ASSUME NEW status \in {404, 500}, Answer(r, status, Null) PROVE FreshInv'
      BY <1>1, <1>2, <1>5, AnswerMoves, PeekStep DEF Storing
<1> QED BY <1>3, <1>4, <1>5

\* A body is stored, and carried on in one more envelope or answered.
LEMMA StoreFresh ==
    ASSUME FreshInv, NEW r \in Request, Inv',
           pc[r] \in {"innerSet", "outerSet"}, SetKey(op[r].key, body[r], Ttl),
           op' = op, edit' = edit, found' = found, covered' = covered,
           \/ Await(r, "outerSet", Wrap(body[r]))
           \/ Answer(r, 200, body[r])
    PROVE  FreshInv'
<1>1. /\ op[r].key \in Key /\ op[r].kind = "read" /\ answer[r] = 0
      /\ Genuine(op[r].key, body[r]) /\ Inv
      BY Suspended DEF FreshInv
<1>2. Recent(op[r].key, body[r].edit) /\ Wrap(body[r]).edit = body[r].edit
      BY <1>1 DEF FreshInv, RequestFresh, Storing, Wrap, Genuine, Body
<1>3. ASSUME NEW k \in Key
      PROVE  /\ redis'[k] = redis[k] \/ k = op[r].key
             /\ redis'[k] # Null => Recent(k, redis'[k].edit)
  <2>1. redis' = redis \/ redis' = [redis EXCEPT ![op[r].key] = body[r]]
        BY DEF SetKey
  <2> QED BY <1>1, <1>2, <2>1 DEF FreshInv, CacheFresh, Inv, Types, AllKeys
<1>4. CASE Await(r, "outerSet", Wrap(body[r]))
      BY <1>1, <1>2, <1>3, <1>4, AwaitMoves, ReadStep DEF Storing
<1>5. CASE Answer(r, 200, body[r])
  <2>1. covered[op[r].key] <= body[r].edit
        BY <1>2 DEF Recent
  <2> QED BY <1>1, <1>3, <1>5, <2>1, AnswerMoves, ReadStep DEF Storing
<1> QED BY <1>4, <1>5

LEMMA StoresFresh ==
    ASSUME FreshInv, NEW r \in Request, InnerSet(r) \/ OuterSet(r)
    PROVE  FreshInv'
<1>1. Inv'
      BY InnerSetInv, OuterSetInv DEF FreshInv
<1> QED BY <1>1, StoreFresh DEF InnerSet, OuterSet

LEMMA GetStampFresh ==
    ASSUME FreshInv, NEW r \in Request, GetStamp(r)
    PROVE  FreshInv'
<1>1. pc[r] = "getStamp" /\ op[r].kind = "stamp"
      BY Suspended DEF FreshInv, GetStamp
<1>2. /\ op' = op /\ edit' = edit /\ redis' = redis /\ found' = found
      /\ covered' = covered /\ Inv /\ Inv'
      BY GetStampInv DEF FreshInv, GetStamp
<1>3. PICK data : Answer(r, 200, data)
      BY DEF GetStamp
<1> QED BY <1>1, <1>2, <1>3, AnswerMoves, PeekStep DEF Storing

\* An invalidation gets past its DEL, or gives up: what is cached yet, and what
\* is being stored, it has missed.
LEMMA ClearsFresh ==
    ASSUME FreshInv, Inv', NEW r \in Request, pc[r] \in {"keys", "del"},
           pc'[r] = "setStamp", op' = op, edit' = edit, covered' = covered, answer' = answer,
           \A k \in Key : redis'[k] # Null => redis'[k] = redis[k] /\ k \in missed'[r],
           \A s \in Request : \A k \in Missed[s] : k \in missed'[s],
           \A s \in Request \ {r} : /\ pc'[s] = pc[s] /\ body'[s] = body[s]
                                    /\ found'[s] = found[s] /\ missed'[s] = Missed[s]
    PROVE  FreshInv'
<1>1. ASSUME NEW k \in missed'[r] PROVE NoNewer(k)
  <2>1. ASSUME NEW s \in Request \ {r}, pc'[s] = "setStamp"
        PROVE  pc[s] = "setStamp" /\ missed'[s] = missed[s]
        BY <2>1, MissedGrows
  <2> QED BY <2>1 DEF NoNewer
<1>2. CacheFresh'
      BY <1>1, RecentStays DEF FreshInv, CacheFresh
<1>3. RequestFresh(r)'
      BY DEF FreshInv, RequestFresh, Done, Storing
<1>4. ASSUME NEW s \in Request \ {r} PROVE RequestFresh(s)'
  <2>1. Storing(s) => NoNewer(op[s].key)
        BY <1>1, MissedGrows
  <2> QED BY <2>1, MissedGrows, StaysFresh DEF FreshInv
<1> QED BY <1>2, <1>3, <1>4 DEF FreshInv

LEMMA FindKeysFresh ==
    ASSUME FreshInv, NEW r \in Request, FindKeys(r)
    PROVE  FreshInv'
<1> DEFINE keys == {k \in AllKeys : redis[k] # Null}
<1>1. /\ pc[r] = "keys" /\ op[r].kind = "invalidate"
      /\ \A k \in Key : op[r].covered[k] <= covered[k]
      BY Suspended DEF FreshInv, FindKeys, RequestFresh
<1>2. /\ op' = op /\ edit' = edit /\ redis' = redis /\ covered' = covered
      /\ found' = [found EXCEPT ![r] = keys]
      /\ Await(r, IF keys = {} THEN "setStamp" ELSE "del", Null)
      BY DEF FindKeys
<1>3. found'[r] = keys /\ \A s \in Request \ {r} : found'[s] = found[s]
      BY <1>2 DEF FreshInv, Inv, Types
<1>4. /\ pc'[r] = (IF keys = {} THEN "setStamp" ELSE "del") /\ answer' = answer
      /\ missed' = Missed
      /\ \A s \in Request \ {r} : pc'[s] = pc[s] /\ body'[s] = body[s]
      BY <1>2, AwaitMoves DEF FreshInv
<1>5. Inv'
      BY FindKeysInv DEF FreshInv
<1>6. CASE keys = {}
  <2>1. \A k \in Key : redis'[k] = Null
        BY <1>2, <1>6 DEF AllKeys
  <2> QED BY <1>1, <1>2, <1>3, <1>4, <1>5, <1>6, <2>1, ClearsFresh
<1>7. CASE keys # {}
  <2>1. ASSUME NEW j PROVE NoNewer(j)
    <3>1. ASSUME NEW s \in Request, pc'[s] = "setStamp"
          PROVE  pc[s] = "setStamp" /\ missed'[s] = missed[s]
          BY <1>4, <1>7, <3>1, MissedGrows
    <3> QED BY <1>2, <3>1 DEF NoNewer
  <2>2. ASSUME NEW s \in Request \ {r} PROVE RequestFresh(s)'
        BY <1>2, <1>3, <1>4, <2>1, MissedGrows, StaysFresh DEF FreshInv
  <2>3. RequestFresh(r)'
        BY <1>1, <1>2, <1>3, <1>4, <1>7 DEF RequestFresh, Done, Storing, AllKeys
  <2>4. CacheFresh'
        BY <1>2, <2>1, RecentStays DEF FreshInv, CacheFresh
  <2> QED BY <1>5, <2>2, <2>3, <2>4 DEF FreshInv
<1> QED BY <1>6, <1>7

LEMMA DeleteFoundFresh ==
    ASSUME FreshInv, NEW r \in Request, DeleteFound(r)
    PROVE  FreshInv'
<1>1. pc[r] = "del" /\ \A k \in Key : redis[k] # Null => k \in found[r] \/ k \in missed[r]
      BY DEF FreshInv, DeleteFound, RequestFresh
<1>2. /\ op' = op /\ edit' = edit /\ covered' = covered
      /\ redis' = [k \in AllKeys |-> IF k \in found[r] THEN Null ELSE redis[k]]
      /\ found' = [found EXCEPT ![r] = {}] /\ Await(r, "setStamp", Null)
      BY DEF DeleteFound, Drop
<1>3. /\ pc'[r] = "setStamp" /\ answer' = answer /\ missed' = Missed
      /\ \A s \in Request \ {r} : /\ pc'[s] = pc[s] /\ body'[s] = body[s]
                                  /\ found'[s] = found[s]
      BY <1>2, AwaitMoves DEF FreshInv, Inv, Types
<1>4. \A k \in Key : redis'[k] # Null => redis'[k] = redis[k] /\ k \in missed'[r]
      BY <1>1, <1>2, <1>3, MissedGrows DEF AllKeys
<1>5. Inv'
      BY DeleteFoundInv DEF FreshInv
<1> QED BY <1>1, <1>2, <1>3, <1>4, <1>5, ClearsFresh

LEMMA DeleteByPatternFailsFresh ==
    ASSUME FreshInv, NEW r \in Request, DeleteByPatternFails(r)
    PROVE  FreshInv'
<1>1. /\ pc[r] \in {"keys", "del"}
      /\ UNCHANGED <<op, edit, covered, answer, redis, body>>
      /\ pc' = [pc EXCEPT ![r] = "setStamp"] /\ found' = [found EXCEPT ![r] = {}]
      /\ missed' = [Missed EXCEPT ![r] = Key]
      BY DEF DeleteByPatternFails
<1>2. Missed \in [Request -> SUBSET Key]
      BY MissedTyped DEF FreshInv
<1>3. /\ pc'[r] = "setStamp" /\ missed'[r] = Key /\ \A k \in Missed[r] : k \in Key
      /\ \A s \in Request \ {r} : /\ pc'[s] = pc[s] /\ found'[s] = found[s]
                                  /\ missed'[s] = Missed[s]
      BY <1>1, <1>2 DEF FreshInv, Inv, Types
<1>4. Inv'
      BY DeleteByPatternFailsInv DEF FreshInv
<1> QED BY <1>1, <1>3, <1>4, ClearsFresh

\* It is answered: what it has been called for is covered, but what it missed.
LEMMA RecordStampFresh ==
    ASSUME FreshInv, NEW r \in Request, RecordStamp(r)
    PROVE  FreshInv'
<1>1. pc[r] = "setStamp" /\ op[r].kind = "invalidate"
      BY Suspended DEF FreshInv, RecordStamp
<1>2. /\ op' = op /\ edit' = edit /\ found' = found /\ covered' = Covering(r)
      /\ Answer(r, 201, Null)
      /\ redis' = redis \/ redis' = [redis EXCEPT ![StampKey] = Time]
      BY DEF RecordStamp, SetKey
<1>3. /\ pc'[r] = "done" /\ missed' = Missed
      /\ \A s \in Request \ {r} : /\ pc'[s] = pc[s] /\ body'[s] = body[s]
                                  /\ answer'[s] = answer[s]
      BY <1>2, AnswerMoves DEF FreshInv
<1>4. \A k \in Key : redis'[k] = redis[k]
      BY <1>2, ContentAssumption DEF FreshInv, Inv, Types, AllKeys
<1>5. ASSUME NEW k \in Key
      PROVE  /\ covered[k] <= covered'[k] /\ covered'[k] <= edit[k] /\ covered'[k] \in Nat
             /\ \A e : Recent(k, e) => Recent(k, e)'
  <2>1. /\ covered[k] \in Nat /\ edit[k] \in Nat /\ op[r].published[k] \in Nat
        /\ covered[k] <= edit[k] /\ op[r].published[k] <= edit[k]
        BY <1>1, Numbers DEF FreshInv, CacheFresh
  <2>2. covered'[k] = IF k \notin missed[r] /\ covered[k] < op[r].published[k]
                      THEN op[r].published[k] ELSE covered[k]
        BY <1>2 DEF Covering
  <2>3. \A s \in Request : pc'[s] = "setStamp" => pc[s] = "setStamp" /\ missed'[s] = missed[s]
        BY <1>3, MissedGrows
  <2>4. \A e : Recent(k, e) => Recent(k, e)'
        BY <1>1, <1>2, <2>2, <2>3 DEF Recent
  <2> QED BY <2>1, <2>2, <2>4
<1>6. CacheFresh'
      BY <1>2, <1>4, <1>5 DEF FreshInv, CacheFresh
<1>7. ASSUME NEW s \in Request PROVE RequestFresh(s)'
  <2>1. pc'[s] # "idle" => \A k \in Key : op[s].covered[k] <= covered'[k]
    <3> SUFFICES ASSUME pc'[s] # "idle", NEW k \in Key PROVE op[s].covered[k] <= covered'[k]
        OBVIOUS
    <3>1. pc[s] # "idle"
          BY <1>1, <1>3
    <3>2. /\ op[s].covered[k] \in Nat /\ covered[k] \in Nat
          /\ op[s].covered[k] <= covered[k]
          BY <3>1, Numbers DEF FreshInv, RequestFresh
    <3> QED BY <1>5, <3>2
  <2>2. CASE s = r
        BY <1>1, <1>2, <1>3, <2>1, <2>2 DEF RequestFresh, Done, Storing
  <2>3. CASE s # r
    <3>1. RequestFresh(s) /\ (Storing(s) => op[s].key \in Key)
          BY Suspended DEF FreshInv, Storing
    <3>2. body'[s] = body[s] /\ op'[s] = op[s] /\ Storing(s)' = Storing(s)
          BY <1>2, <1>3, <2>3 DEF Storing
    <3>3. Storing(s)' => Recent(op[s].key, body[s].edit)'
      <4> SUFFICES ASSUME Storing(s) PROVE Recent(op[s].key, body[s].edit)'
          BY <3>2
      <4> DEFINE j == op[s].key
                 e == body[s].edit
      <4>1. j' = j /\ e' = e /\ j \in Key /\ Recent(j, e)
            BY <3>1, <3>2 DEF RequestFresh
      <4> HIDE DEF j, e
      <4>2. Recent(j, e)'
            BY <1>5, <4>1
      <4> QED BY <4>2 DEF j, e
    <3>4. pc'[s] = "del" => \A k \in Key : redis'[k] # Null => k \in found'[s] \/ k \in missed'[s]
          BY <1>2, <1>3, <1>4, <2>3, <3>1, MissedGrows DEF RequestFresh
    <3> QED BY <1>2, <1>3, <2>1, <2>3, <3>1, <3>3, <3>4 DEF RequestFresh, Done
  <2> QED BY <2>2, <2>3
<1>8. Inv'
      BY RecordStampInv DEF FreshInv
<1> QED BY <1>6, <1>7, <1>8 DEF FreshInv

LEMMA TickFresh ==
    ASSUME FreshInv, Tick PROVE FreshInv'
<1>1. Inv'
      BY TickInv DEF FreshInv
<1>2. \A k \in AllKeys : redis'[k] \in {redis[k], Null}
      BY DEF Tick, Drop
<1>3. UNCHANGED <<covered, edit, op, pc, body, found, answer, missed>>
      BY DEF Tick
<1>4. \A k : NoNewer(k)
      BY <1>3 DEF NoNewer
<1>5. CacheFresh'
      BY <1>2, <1>3, <1>4, RecentStays DEF FreshInv, CacheFresh, AllKeys
<1>6. ASSUME NEW s \in Request PROVE RequestFresh(s)'
      BY <1>2, <1>3, <1>4, StaysFresh DEF FreshInv, AllKeys
<1> QED BY <1>1, <1>5, <1>6 DEF FreshInv

LEMMA CrashFresh ==
    ASSUME FreshInv, Crash PROVE FreshInv'
<1>1. Inv'
      BY CrashInv DEF FreshInv
<1>2. \A s \in Request : /\ pc'[s] \in {"idle", "done"} /\ (pc'[s] = pc[s] \/ answer[s] = 0)
                         /\ (pc'[s] = "idle" <=> pc[s] = "idle")
      BY DEF Crash, InFlight, FreshInv, Inv, RequestInv
<1>3. UNCHANGED <<covered, edit, redis, op>>
      BY DEF Crash
<1>4. \A k : NoNewer(k)
      BY <1>2, <1>3 DEF NoNewer
<1>5. CacheFresh'
      BY <1>3, <1>4, RecentStays DEF FreshInv, CacheFresh
<1>6. ASSUME NEW s \in Request PROVE RequestFresh(s)'
      BY <1>2 DEF FreshInv, RequestFresh, Crash, Done, Storing
<1> QED BY <1>1, <1>5, <1>6 DEF FreshInv

LEMMA NextFresh == FreshInv /\ [Next]_vars => FreshInv'
<1> SUFFICES ASSUME FreshInv, [Next]_vars PROVE FreshInv'
    OBVIOUS
<1>1. ASSUME NEW k \in Key, Publish(k) PROVE FreshInv'
      BY <1>1, PublishFresh
<1>2. ASSUME NEW r \in Request, NEW k \in Key, SubmitList(r, k) \/ SubmitItem(r, k)
      PROVE  FreshInv'
      BY <1>2, SubmitFresh DEF SubmitList, SubmitItem
<1>3. ASSUME NEW r \in Request, SubmitInvalidate(r) \/ SubmitStamp(r) PROVE FreshInv'
      BY <1>3, SubmitFresh DEF SubmitInvalidate, SubmitStamp
<1>4. ASSUME NEW r \in Request, Proceed(r) PROVE FreshInv'
      BY <1>4, OuterGetFresh, InnerGetFresh, FetchFresh, StoresFresh, FindKeysFresh,
         DeleteFoundFresh, DeleteByPatternFailsFresh, RecordStampFresh, GetStampFresh
         DEF Proceed
<1>5. CASE UNCHANGED vars
  <2>1. Inv'
        BY <1>5, NextInv DEF FreshInv
  <2>2. \A k : NoNewer(k)
        BY <1>5 DEF NoNewer, vars
  <2>3. CacheFresh'
        BY <1>5, <2>2, RecentStays DEF FreshInv, CacheFresh, vars
  <2>4. ASSUME NEW s \in Request PROVE RequestFresh(s)'
        BY <1>5, <2>2, StaysFresh DEF FreshInv, vars
  <2> QED BY <2>1, <2>3, <2>4 DEF FreshInv
<1> QED BY <1>1, <1>2, <1>3, <1>4, <1>5, TickFresh, CrashFresh DEF Next

\* A read that arrives after an invalidation was answered is not given content
\* older than what was published when the webhook was called, for every key that
\* the invalidation can vouch for: whatever overlaps it, fails and crashes.
THEOREM FreshAfter == Spec => []FreshAfterInvalidation
BY InitFresh, NextFresh, FreshImplies, PTL DEF Spec

-----------------------------------------------------------------------------
(***************************************************************************)
(* What holds while Redis' commands take effect: the timestamp of the last *)
(* invalidation is there, and an entry runs out.                           *)
(***************************************************************************)

RedisWorks == "redis" \notin Failures

\* With Redis there, a command does what it says.
LEMMA RedisThere ==
    ASSUME RedisWorks
    PROVE  /\ ~CommandsFail
           /\ \A k : Got(k) = {redis[k]}
           /\ \A k, v, ttl : SetKey(k, v, ttl) =>
                 /\ redis' = [redis EXCEPT ![k] = v]
                 /\ expires' = [expires EXCEPT ![k] = now + ttl]
BY DEF RedisWorks, CommandsFail, Got, SetKey

\* The numbers that the comparisons are about.
LEMMA Times ==
    ASSUME Inv
    PROVE  /\ now \in Nat /\ until \in Nat /\ deletions \in Nat
           /\ \A k \in AllKeys : expires[k] \in Nat
           /\ \A k \in Key : k \in AllKeys /\ (redis[k] # Null => redis[k].fetched \in Nat)
           /\ \A r \in Request : pc[r] # "idle" => op[r].arrived \in Nat
           /\ \A r \in Request : Storing(r) => op[r].key \in Key /\ body[r].fetched \in Nat
<1>1. /\ now \in Nat /\ until \in Nat /\ deletions \in Nat
      /\ \A k \in AllKeys : expires[k] \in Nat
      BY ContentAssumption DEF Inv, Types
<1>2. ASSUME NEW k \in Key PROVE k \in AllKeys /\ (redis[k] # Null => redis[k].fetched \in Nat)
      BY ContentAssumption DEF Inv, RedisInv, Genuine, Body, AllKeys
<1>3. ASSUME NEW r \in Request, pc[r] # "idle" PROVE op[r].arrived \in Nat
      BY <1>3, ContentAssumption DEF Inv, RequestInv, CommandInv, Command
<1>4. ASSUME NEW r \in Request, Storing(r) PROVE op[r].key \in Key /\ body[r].fetched \in Nat
  <2>1. Genuine(op[r].key, body[r]) /\ op[r].key \in Key
        BY <1>4, Suspended DEF Storing
  <2> QED BY <2>1, ContentAssumption DEF Genuine, Body
<1> QED BY <1>1, <1>2, <1>3, <1>4

\* A step of one request, as the others see it.
LEMMA ProceedMoves ==
    ASSUME Inv, NEW r \in Request, Proceed(r)
    PROVE  /\ pc[r] \notin {"idle", "done"} /\ op' = op /\ now' = now
           /\ \A s \in Request \ {r} : /\ pc'[s] = pc[s] /\ body'[s] = body[s]
                                       /\ answer'[s] = answer[s]
<1>1. pc[r] \notin {"idle", "done"} /\ op' = op /\ now' = now
      BY DEF Proceed, OuterGet, InnerGet, FetchList, FetchItem, InnerSet, OuterSet,
         FindKeys, DeleteFound, DeleteByPatternFails, RecordStamp, GetStamp
<1>2. \/ \E step, data : Await(r, step, data)
      \/ \E status, data : Answer(r, status, data)
      \/ DeleteByPatternFails(r)
      BY DEF Proceed, OuterGet, InnerGet, FetchList, FetchItem, InnerSet, OuterSet,
         FindKeys, DeleteFound, RecordStamp, GetStamp
<1>3. CASE \E step, data : Await(r, step, data)
      BY <1>1, <1>3, AwaitMoves
<1>4. CASE \E status, data : Answer(r, status, data)
      BY <1>1, <1>4, AnswerMoves
<1>5. CASE DeleteByPatternFails(r)
      BY <1>1, <1>5 DEF DeleteByPatternFails, Inv, Types
<1> QED BY <1>2, <1>3, <1>4, <1>5

-----------------------------------------------------------------------------
(* The timestamp: there, or about to be set again by an invalidation whose *)
(* DEL has taken it.                                                       *)

StampInv ==
    \/ until <= now
    \/ redis[StampKey] = Time /\ until <= expires[StampKey]
    \/ \E r \in Request : pc[r] = "setStamp"

\* The steps that are no request's own.
LEMMA StampOutside ==
    ASSUME Inv, StampInv, "crash" \notin Failures, [Next]_vars,
           \A r \in Request : ~Proceed(r)
    PROVE  StampInv'
<1>1. ASSUME NEW k \in Key, Publish(k) PROVE StampInv'
      BY <1>1 DEF StampInv, Publish
<1>2. ASSUME NEW r \in Request, NEW kind, NEW k, Submit(r, kind, k) PROVE StampInv'
  <2>1. /\ UNCHANGED <<redis, expires, now, until>> /\ pc[r] = "idle"
        /\ \A s \in Request \ {r} : pc'[s] = pc[s]
        BY <1>2, AwaitMoves DEF Submit
  <2> QED BY <2>1 DEF StampInv
<1>3. CASE Tick
  <2>1. /\ until \in Nat /\ now \in Nat /\ expires[StampKey] \in Nat
        BY Times DEF AllKeys
  <2>2. /\ pc' = pc /\ until' = until /\ now' = now + 1
        /\ redis'[StampKey] = IF expires[StampKey] <= now + 1 THEN Null ELSE redis[StampKey]
        /\ expires'[StampKey] = IF expires[StampKey] <= now + 1 THEN 0 ELSE expires[StampKey]
        BY <1>3 DEF Tick, Drop, AllKeys
  <2> QED BY <2>1, <2>2 DEF StampInv
<1>4. CASE UNCHANGED vars
      BY <1>4 DEF StampInv, vars
<1>5. CASE Crash
      BY <1>5 DEF Crash
<1> QED BY <1>1, <1>2, <1>3, <1>4, <1>5
        DEF Next, SubmitList, SubmitItem, SubmitInvalidate, SubmitStamp

LEMMA StampProceeds ==
    ASSUME RedisWorks, Inv, StampInv, NEW r \in Request, Proceed(r)
    PROVE  StampInv'
<1>1. /\ pc[r] \notin {"idle", "done"} /\ now' = now
      /\ \A s \in Request \ {r} : pc'[s] = pc[s]
      BY ProceedMoves
<1>2. CASE OuterGet(r) \/ InnerGet(r) \/ FetchList(r) \/ FetchItem(r) \/ FindKeys(r) \/ GetStamp(r)
  <2>1. UNCHANGED <<redis, expires, until>> /\ pc[r] # "setStamp"
        BY <1>2 DEF OuterGet, InnerGet, FetchList, FetchItem, FindKeys, GetStamp
  <2> QED BY <1>1, <2>1 DEF StampInv
<1>3. CASE InnerSet(r) \/ OuterSet(r)
  <2>1. /\ redis' = [redis EXCEPT ![op[r].key] = body[r]] /\ until' = until
        /\ expires' = [expires EXCEPT ![op[r].key] = now + Ttl]
        /\ pc[r] \in {"innerSet", "outerSet"}
        BY <1>3, RedisThere DEF InnerSet, OuterSet
  <2>2. redis'[StampKey] = redis[StampKey] /\ expires'[StampKey] = expires[StampKey]
        BY <2>1, Suspended, ContentAssumption DEF Inv, Types, AllKeys
  <2> QED BY <1>1, <2>1, <2>2 DEF StampInv
<1>4. CASE DeleteFound(r)
      BY <1>4, AwaitMoves DEF DeleteFound, StampInv
<1>5. CASE RecordStamp(r)
  <2>1. /\ redis' = [redis EXCEPT ![StampKey] = Time] /\ until' = now + StampTtl
        /\ expires' = [expires EXCEPT ![StampKey] = now + StampTtl]
        BY <1>5, RedisThere DEF RecordStamp
  <2>2. redis'[StampKey] = Time /\ expires'[StampKey] = now + StampTtl
        BY <2>1 DEF Inv, Types, AllKeys
  <2>3. now + StampTtl \in Nat
        BY Times, ContentAssumption
  <2> QED BY <2>1, <2>2, <2>3 DEF StampInv
<1> QED BY <1>2, <1>3, <1>4, <1>5, RedisThere DEF Proceed, DeleteByPatternFails

LEMMA NextStamp ==
    RedisWorks /\ "crash" \notin Failures /\ Inv /\ StampInv /\ [Next]_vars => StampInv'
BY StampOutside, StampProceeds

\* Only its own step answers a request.
LEMMA AnsweredByItself ==
    ASSUME Inv, [Next]_vars, NEW r \in Request, answer'[r] # answer[r]
    PROVE  Proceed(r)
<1>1. PICK s \in Request : Proceed(s)
  <2>1. answer' # answer /\ Next
        BY DEF vars
  <2>2. (\A k \in Key : ~Publish(k)) /\ ~Tick /\ ~Crash
        BY <2>1 DEF Publish, Tick, Crash
  <2>3. \A s, kind, k : ~Submit(s, kind, k)
        BY <2>1 DEF Submit, Await
  <2> QED BY <2>1, <2>2, <2>3
          DEF Next, SubmitList, SubmitItem, SubmitInvalidate, SubmitStamp
<1> QED BY <1>1, ProceedMoves

\* The timestamp of an answered invalidation is reported until its 30 days have
\* passed, whatever reads and invalidations overlap, but to who asks between the
\* DEL of a later one, which takes it, and its SET.  A crash between the two would
\* leave none.
THEOREM StampReported ==
    RedisWorks /\ "crash" \notin Failures => (Spec => TimestampReported)
<1> SUFFICES ASSUME RedisWorks, "crash" \notin Failures
             PROVE  Spec => TimestampReported
    OBVIOUS
<1>1. Init => StampInv
      BY DEF Init, StampInv
<1>2. Inv /\ StampInv /\ [Next]_vars => StampInv'
      BY NextStamp
<1>3. ASSUME Inv, StampInv, [Next]_vars,
             NEW r \in Request, pc[r] = "getStamp", answer'[r] = 200,
             now < until, \A s \in Request : pc[s] # "setStamp"
      PROVE  body'[r] = Time
  <2>1. answer[r] = 0
        BY <1>3, Suspended
  <2>2. redis[StampKey] = Time
        BY <1>3, Times DEF StampInv
  <2>3. Proceed(r)
        BY <1>3, <2>1, AnsweredByItself
  <2>4. GetStamp(r)
        BY <1>3, <2>3 DEF Proceed, OuterGet, InnerGet, FetchList, FetchItem, InnerSet,
           OuterSet, FindKeys, DeleteFound, DeleteByPatternFails, RecordStamp
  <2> QED BY <1>3, <2>2, <2>4, AnswerMoves, RedisThere DEF GetStamp
<1>4. Inv /\ StampInv /\ [Next]_vars =>
         [\A r \in Request :
             /\ pc[r] = "getStamp" /\ answer'[r] = 200
             /\ now < until /\ \A s \in Request : pc[s] # "setStamp"
             => body'[r] = Time]_vars
      BY <1>3
<1> QED BY <1>1, <1>2, <1>4, InvHolds, PTL DEF Spec, TimestampReported

-----------------------------------------------------------------------------
(***************************************************************************)
(* An entry runs out.  The only SET of a body that was not just fetched is *)
(* that of a read which missed the entry in its outer get and hit it in    *)
(* its inner one.  It had arrived before the entry was there, or when that *)
(* had last been deleted, and a request does not wait longer than Patience:*)
(* so a chain of such SETs is short.                                       *)
(***************************************************************************)

\* How far behind its arrival what a read stores can be.
Slack(n) == (n + deletions) * Patience

LEMMA Slacks ==
    ASSUME Inv
    PROVE  /\ Slack(0) \in Nat /\ Slack(1) \in Nat /\ Slack(2) \in Nat /\ Slack(3) \in Nat
           /\ Slack(1) = Slack(0) + Patience
           /\ Slack(2) = Slack(1) + Patience
           /\ Slack(3) = Slack(2) + Patience
<1>1. deletions \in Nat /\ Patience \in Nat
      BY Times, ContentAssumption
<1> QED BY <1>1 DEF Slack

\* A read of k that its outer get has missed.
Waits(r, k) ==
    pc[r] \in {"innerGet", "fetch", "innerSet", "outerSet"} /\ op[r].key = k

\* An entry does not outlive its body's day by more than that, and outlives every
\* read that waits.
EntryInv(k) ==
    redis[k] # Null =>
        /\ now < expires[k] /\ expires[k] <= redis[k].fetched + Slack(2) + Ttl
        /\ \A r \in Request : Waits(r, k) =>
              /\ op[r].arrived + Ttl <= expires[k]
              /\ op[r].arrived <= redis[k].fetched + Slack(1)

\* What a read carries to its SETs.
CarryInv(r) ==
    /\ r \in InFlight => op[r].arrived <= now /\ now <= op[r].arrived + Patience
    /\ pc[r] = "innerSet" => op[r].arrived <= body[r].fetched
    /\ pc[r] = "outerSet" =>
          /\ \A s \in Request :
                Waits(s, op[r].key) => op[s].arrived <= body[r].fetched + Slack(1)
          /\ redis[op[r].key] = Null => op[r].arrived <= body[r].fetched + Slack(0)

AgeInv ==
    /\ Inv
    /\ \A k \in Key : EntryInv(k)
    /\ \A r \in Request : CarryInv(r)

LEMMA AgeImplies == AgeInv => EntriesRunOut
<1> SUFFICES ASSUME AgeInv, NEW k \in Key, redis[k] # Null
             PROVE  now < redis[k].fetched + Ttl + (2 + deletions) * Patience
    BY DEF EntriesRunOut
<1>1. /\ now \in Nat /\ expires[k] \in Nat /\ redis[k].fetched \in Nat
      /\ Slack(2) \in Nat /\ Ttl \in Nat
      BY Times, Slacks, ContentAssumption DEF AgeInv
<1>2. now < expires[k] /\ expires[k] <= redis[k].fetched + Slack(2) + Ttl
      BY DEF AgeInv, EntryInv
<1>3. now < redis[k].fetched + Ttl + Slack(2)
      BY <1>1, <1>2
<1> QED BY <1>3 DEF Slack

LEMMA InitAge == Init => AgeInv
<1> SUFFICES ASSUME Init PROVE AgeInv
    OBVIOUS
<1>1. Inv
      BY InitInv
<1>2. ASSUME NEW k \in Key PROVE EntryInv(k)
      BY DEF Init, EntryInv, AllKeys
<1>3. ASSUME NEW r \in Request PROVE CarryInv(r)
      BY DEF Init, CarryInv, InFlight
<1> QED BY <1>1, <1>2, <1>3 DEF AgeInv

-----------------------------------------------------------------------------
(* One lemma per kind of step. *)

\* A step that leaves the entries and the time alone, and lets no read pass its
\* outer get where there is an entry, nor to its SETs without what they need.
LEMMA PeekAges ==
    ASSUME AgeInv, Inv', now' = now, deletions' = deletions,
           \A k \in Key : redis'[k] = redis[k] /\ expires'[k] = expires[k],
           \A r \in Request :
              /\ r \in InFlight' => \/ r \in InFlight /\ op'[r] = op[r]
                                    \/ op'[r].arrived = now
              /\ Waits(r, op[r].key)' =>
                    /\ r \in InFlight /\ op'[r] = op[r]
                    /\ Waits(r, op[r].key) \/ redis[op[r].key] = Null
              /\ pc'[r] = "innerSet" => \/ pc[r] = "innerSet" /\ body'[r] = body[r]
                                        \/ body'[r].fetched = now
              /\ pc'[r] = "outerSet" =>
                    \/ pc[r] = "outerSet" /\ body'[r] = body[r]
                    \/ /\ redis[op[r].key] # Null
                       /\ body'[r].fetched = redis[op[r].key].fetched
    PROVE  AgeInv'
<1>1. Slack(0)' = Slack(0) /\ Slack(1)' = Slack(1) /\ Slack(2)' = Slack(2)
      BY DEF Slack
<1>2. \A r \in Request : r \in InFlight => pc[r] # "idle"
      BY DEF InFlight
<1>3. \A r, k : Waits(r, k)' => op'[r].key = k /\ Waits(r, op[r].key)'
      BY DEF Waits
<1>4. ASSUME NEW k \in Key PROVE EntryInv(k)'
  <2>1. ASSUME NEW r \in Request, Waits(r, k)', redis[k] # Null
        PROVE  Waits(r, k) /\ op'[r] = op[r]
        BY <1>3, <2>1 DEF Waits
  <2> QED BY <1>1, <2>1 DEF AgeInv, EntryInv
<1>5. ASSUME NEW r \in Request PROVE CarryInv(r)'
  <2>1. r \in InFlight' => op'[r].arrived <= now /\ now <= op'[r].arrived + Patience
        BY <1>2, Times, ContentAssumption DEF AgeInv, CarryInv
  <2>2. pc'[r] = "innerSet" => op'[r].arrived <= body'[r].fetched
    <3> SUFFICES ASSUME pc'[r] = "innerSet" PROVE op'[r].arrived <= body'[r].fetched
        OBVIOUS
    <3>1. r \in InFlight /\ op'[r] = op[r]
          BY DEF Waits
    <3> QED BY <3>1 DEF AgeInv, CarryInv
  <2>3. ASSUME pc'[r] = "outerSet", NEW k, k = op'[r].key
        PROVE  /\ \A s \in Request :
                     Waits(s, k)' => op'[s].arrived <= body'[r].fetched + Slack(1)
               /\ redis'[k] = Null => op'[r].arrived <= body'[r].fetched + Slack(0)
    <3>1. op'[r] = op[r] /\ r \in InFlight
          BY <2>3 DEF Waits
    <3>2. k \in Key /\ op[r].key = k
          BY <2>3, <3>1 DEF Inv, RequestInv, CommandInv, KindFits
    <3>3. ASSUME NEW s \in Request, Waits(s, k)'
          PROVE  /\ op'[s] = op[s] /\ s \in InFlight
                 /\ Waits(s, k) \/ redis[k] = Null
          BY <1>3, <3>3 DEF Waits
    <3>4. CASE pc[r] = "outerSet" /\ body'[r] = body[r]
      <4>1. ASSUME NEW s \in Request, Waits(s, k)'
            PROVE  op'[s].arrived <= body'[r].fetched + Slack(1)
        <5>1. CASE Waits(s, k)
              BY <3>2, <3>3, <3>4, <4>1, <5>1 DEF AgeInv, CarryInv
        <5>2. CASE redis[k] = Null
          <6>1. /\ op[r].arrived <= body[r].fetched + Slack(0)
                /\ op[s].arrived <= now /\ now <= op[r].arrived + Patience
                BY <3>1, <3>2, <3>3, <3>4, <4>1, <5>2 DEF AgeInv, CarryInv
          <6>2. /\ op[r].arrived \in Nat /\ op[s].arrived \in Nat /\ now \in Nat
                /\ body[r].fetched \in Nat
                BY <1>2, <3>1, <3>3, <3>4, <4>1, Times DEF AgeInv, Storing
          <6>3. op[s].arrived <= body[r].fetched + Slack(1)
                BY <6>1, <6>2, Slacks, ContentAssumption DEF AgeInv
          <6> QED BY <3>3, <3>4, <4>1, <6>3
        <5> QED BY <3>3, <4>1, <5>1, <5>2
      <4> QED BY <3>1, <3>2, <3>4, <4>1 DEF AgeInv, CarryInv
    <3>5. CASE redis[k] # Null /\ body'[r].fetched = redis[k].fetched
          BY <3>2, <3>3, <3>5 DEF AgeInv, EntryInv
    <3> QED BY <2>3, <3>2, <3>4, <3>5
  <2> QED BY <1>1, <2>1, <2>2, <2>3 DEF CarryInv
<1> QED BY <1>4, <1>5 DEF AgeInv

\* A read stores its body, which ends its wait or takes it to its outer SET.
LEMMA StoreAges ==
    ASSUME AgeInv, RedisWorks, Inv', NEW r \in Request, NEW k, k = op[r].key,
           Storing(r), SetKey(k, body[r], Ttl),
           op' = op, now' = now, deletions' = deletions, Patience < Ttl,
           pc'[r] \in {"outerSet", "done"},
           pc'[r] = "outerSet" => pc[r] = "innerSet" /\ body'[r].fetched = body[r].fetched,
           \A s \in Request \ {r} : pc'[s] = pc[s] /\ body'[s] = body[s]
    PROVE  AgeInv'
<1>1. Slack(0)' = Slack(0) /\ Slack(1)' = Slack(1) /\ Slack(2)' = Slack(2)
      BY DEF Slack
<1>2. k \in Key /\ r \in InFlight /\ Waits(r, k) /\ body[r] # Null
      BY Suspended, ContentAssumption DEF AgeInv, Storing, InFlight, Waits, Genuine
<1>3. /\ redis'[k] = body[r] /\ expires'[k] = now + Ttl
      /\ \A j \in Key \ {k} : redis'[j] = redis[j] /\ expires'[j] = expires[j]
      BY <1>2, RedisThere DEF AgeInv, Inv, Types, AllKeys
<1>4. /\ now \in Nat /\ body[r].fetched \in Nat
      /\ op[r].arrived <= now /\ now <= op[r].arrived + Patience /\ op[r].arrived \in Nat
      BY <1>2, Times DEF AgeInv, CarryInv, InFlight
<1>5. ASSUME NEW s \in Request, Waits(s, k)
      PROVE  op[s].arrived \in Nat /\ op[s].arrived <= now
  <2>1. s \in InFlight
        BY <1>5 DEF Waits, InFlight
  <2> QED BY <2>1, Times DEF AgeInv, CarryInv, InFlight
<1>6. /\ now <= body[r].fetched + Slack(2)
      /\ \A s \in Request : Waits(s, k) => op[s].arrived <= body[r].fetched + Slack(1)
  <2>1. CASE pc[r] = "innerSet"
    <3>1. op[r].arrived <= body[r].fetched
          BY <2>1 DEF AgeInv, CarryInv
    <3>2. now <= body[r].fetched + Slack(1) /\ now <= body[r].fetched + Slack(2)
          BY <1>4, <3>1, Slacks, ContentAssumption DEF AgeInv
    <3> QED BY <1>4, <1>5, <3>2, Slacks DEF AgeInv
  <2>2. CASE pc[r] = "outerSet"
    <3>1. \A s \in Request : Waits(s, k) => op[s].arrived <= body[r].fetched + Slack(1)
          BY <2>2 DEF AgeInv, CarryInv
    <3>2. now <= body[r].fetched + Slack(2)
          BY <1>2, <1>4, <3>1, Slacks, ContentAssumption DEF AgeInv
    <3> QED BY <3>1, <3>2
  <2> QED BY <2>1, <2>2 DEF Storing
<1>7. \A s \in Request : \A j : Waits(s, j)' => Waits(s, j)
      BY DEF Waits, Storing
<1>8. ASSUME NEW j \in Key PROVE EntryInv(j)'
  <2>1. CASE j = k
    <3>1. now < now + Ttl /\ now + Ttl <= body[r].fetched + Slack(2) + Ttl
          BY <1>4, <1>6, Slacks, ContentAssumption DEF AgeInv
    <3>2. ASSUME NEW s \in Request, Waits(s, k)
          PROVE  /\ op[s].arrived + Ttl <= now + Ttl
                 /\ op[s].arrived <= body[r].fetched + Slack(1)
          BY <1>4, <1>5, <1>6, <3>2, ContentAssumption
    <3> QED BY <1>1, <1>3, <1>7, <2>1, <3>1, <3>2 DEF EntryInv
  <2>2. CASE j # k
        BY <1>1, <1>3, <1>7, <2>2 DEF AgeInv, EntryInv
  <2> QED BY <2>1, <2>2
<1>9. ASSUME NEW s \in Request PROVE CarryInv(s)'
  <2>1. s \in InFlight' => s \in InFlight
        BY <1>2 DEF InFlight
  <2>2. pc'[s] = "innerSet" => pc[s] = "innerSet" /\ body'[s] = body[s]
        BY DEF Storing
  <2>3. ASSUME pc'[s] = "outerSet"
        PROVE  /\ \A t \in Request :
                     Waits(t, op[s].key)' => op[t].arrived <= body'[s].fetched + Slack(1)
               /\ redis'[op[s].key] = Null => op[s].arrived <= body'[s].fetched + Slack(0)
    <3>1. CASE s = r
          BY <1>2, <1>3, <1>6, <1>7, <2>3, <3>1
    <3>2. CASE s # r
      <4>1. pc[s] = "outerSet" /\ body'[s] = body[s] /\ op[s].key \in Key
            BY <2>3, <3>2, Times DEF AgeInv, Storing
      <4> QED BY <1>2, <1>3, <1>7, <4>1 DEF AgeInv, CarryInv
    <3> QED BY <3>1, <3>2
  <2> QED BY <1>1, <2>1, <2>2, <2>3 DEF AgeInv, CarryInv
<1> QED BY <1>8, <1>9 DEF AgeInv

\* A step of one request that leaves the entries alone.
LEMMA RequestPeeks ==
    ASSUME AgeInv, Inv', NEW r \in Request, pc[r] \notin {"idle", "done"},
           op' = op, now' = now, deletions' = deletions,
           \A k \in Key : redis'[k] = redis[k] /\ expires'[k] = expires[k],
           Waits(r, op[r].key)' => Waits(r, op[r].key) \/ redis[op[r].key] = Null,
           pc'[r] = "innerSet" => body'[r].fetched = now,
           pc'[r] = "outerSet" => /\ redis[op[r].key] # Null
                                  /\ body'[r].fetched = redis[op[r].key].fetched,
           \A s \in Request \ {r} : pc'[s] = pc[s] /\ body'[s] = body[s]
    PROVE  AgeInv'
<1>1. ASSUME NEW s \in Request
      PROVE  /\ s \in InFlight' => s \in InFlight
             /\ Waits(s, op[s].key)' =>
                   s \in InFlight /\ (Waits(s, op[s].key) \/ redis[op[s].key] = Null)
             /\ pc'[s] = "innerSet" => \/ pc[s] = "innerSet" /\ body'[s] = body[s]
                                       \/ body'[s].fetched = now
             /\ pc'[s] = "outerSet" =>
                   \/ pc[s] = "outerSet" /\ body'[s] = body[s]
                   \/ /\ redis[op[s].key] # Null
                      /\ body'[s].fetched = redis[op[s].key].fetched
  <2>1. CASE s = r
        BY <2>1 DEF InFlight
  <2>2. CASE s # r
        BY <2>2 DEF InFlight, Waits
  <2> QED BY <2>1, <2>2
<1> QED BY <1>1, PeekAges

LEMMA GetsAge ==
    ASSUME AgeInv, RedisWorks, Inv', NEW r \in Request,
           OuterGet(r) \/ InnerGet(r) \/ GetStamp(r)
    PROVE  AgeInv'
<1>1. /\ UNCHANGED <<now, redis, expires, op, deletions>>
      /\ pc[r] \in {"outerGet", "innerGet", "getStamp"} /\ Inv
      BY DEF AgeInv, OuterGet, InnerGet, GetStamp
<1>2. CASE OuterGet(r)
  <2>1. \/ \E data : Answer(r, 200, data)
        \/ redis[op[r].key] = Null /\ Await(r, "innerGet", Null)
        BY <1>2, RedisThere DEF OuterGet
  <2> QED BY <1>1, <2>1, AnswerMoves, AwaitMoves, RequestPeeks DEF Waits
<1>3. CASE InnerGet(r)
  <2>1. pc[r] = "innerGet" /\ op[r].key \in Key
        BY <1>1, <1>3, Suspended DEF InnerGet
  <2>2. \/ redis[op[r].key] # Null /\ Await(r, "outerSet", Wrap(redis[op[r].key]))
        \/ Await(r, "fetch", Null)
        BY <1>3, RedisThere DEF InnerGet
  <2>3. redis[op[r].key] # Null => Wrap(redis[op[r].key]).fetched = redis[op[r].key].fetched
        BY <1>1, <2>1 DEF Inv, RedisInv, Genuine, Wrap, Body
  <2> QED BY <1>1, <2>1, <2>2, <2>3, AwaitMoves, RequestPeeks DEF Waits
<1>4. CASE GetStamp(r)
  <2>1. \E data : Answer(r, 200, data)
        BY <1>4 DEF GetStamp
  <2> QED BY <1>1, <2>1, AnswerMoves, RequestPeeks DEF Waits
<1> QED BY <1>2, <1>3, <1>4

LEMMA FetchesAge ==
    ASSUME AgeInv, Inv', NEW r \in Request, FetchList(r) \/ FetchItem(r)
    PROVE  AgeInv'
<1>1. /\ UNCHANGED <<now, redis, expires, op, deletions>> /\ pc[r] = "fetch" /\ Inv
      BY DEF AgeInv, FetchList, FetchItem
<1>2. \/ Await(r, "innerSet", Mapped(op[r].key))
      \/ \E status : Answer(r, status, Null)
      BY ContentAssumption DEF FetchList, FetchItem, RepositoryFinds, Found, Mapped
<1>3. CASE Await(r, "innerSet", Mapped(op[r].key))
  <2>1. Mapped(op[r].key).fetched = now
        BY DEF Mapped
  <2> QED BY <1>1, <1>3, <2>1, AwaitMoves, RequestPeeks DEF Waits
<1>4. CASE \E status : Answer(r, status, Null)
      BY <1>1, <1>4, AnswerMoves, RequestPeeks DEF Waits
<1> QED BY <1>2, <1>3, <1>4

LEMMA StoresAge ==
    ASSUME AgeInv, RedisWorks, Inv', NEW r \in Request, Patience < Ttl,
           InnerSet(r) \/ OuterSet(r)
    PROVE  AgeInv'
<1>1. op' = op /\ now' = now /\ deletions' = deletions /\ Inv /\ Storing(r)
      /\ SetKey(op[r].key, body[r], Ttl)
      BY DEF AgeInv, InnerSet, OuterSet, Storing
<1>2. CASE InnerSet(r)
  <2>1. pc[r] = "innerSet" /\ Await(r, "outerSet", Wrap(body[r]))
        BY <1>2 DEF InnerSet
  <2>2. Wrap(body[r]).fetched = body[r].fetched
        BY <1>1, <2>1, Suspended DEF Genuine, Wrap, Body
  <2> QED BY <1>1, <2>1, <2>2, AwaitMoves, StoreAges
<1>3. CASE OuterSet(r)
  <2>1. Answer(r, 200, body[r])
        BY <1>3 DEF OuterSet
  <2> QED BY <1>1, <2>1, AnswerMoves, StoreAges
<1> QED BY <1>2, <1>3

LEMMA InvalidatesAge ==
    ASSUME AgeInv, RedisWorks, Inv', NEW r \in Request, FindKeys(r) \/ RecordStamp(r)
    PROVE  AgeInv'
<1>1. /\ UNCHANGED <<now, op, deletions>> /\ pc[r] \in {"keys", "setStamp"} /\ Inv
      BY DEF AgeInv, FindKeys, RecordStamp
<1>2. \A k \in Key : redis'[k] = redis[k] /\ expires'[k] = expires[k]
      BY <1>1, RedisThere, ContentAssumption DEF FindKeys, RecordStamp, Inv, Types, AllKeys
<1>3. \/ \E step \in {"setStamp", "del"} : \E data : Await(r, step, data)
      \/ \E status, data : Answer(r, status, data)
      BY DEF FindKeys, RecordStamp
<1>4. /\ pc'[r] \in {"setStamp", "del", "done"}
      /\ \A s \in Request \ {r} : pc'[s] = pc[s] /\ body'[s] = body[s]
      BY <1>1, <1>3, AwaitMoves, AnswerMoves
<1> QED BY <1>1, <1>2, <1>4, RequestPeeks DEF Waits

\* A DEL lets another read of its keys wait on those that wait already.
LEMMA DeleteFoundAges ==
    ASSUME AgeInv, Inv', NEW r \in Request, DeleteFound(r)
    PROVE  AgeInv'
<1>1. /\ op' = op /\ now' = now /\ deletions' = deletions + 1 /\ Inv
      /\ pc[r] = "del" /\ pc'[r] = "setStamp"
      /\ \A s \in Request \ {r} : pc'[s] = pc[s] /\ body'[s] = body[s]
      BY AwaitMoves DEF AgeInv, DeleteFound
<1>2. \A k \in Key : \/ redis'[k] = Null
                     \/ redis'[k] = redis[k] /\ expires'[k] = expires[k]
      BY DEF DeleteFound, Drop, AllKeys
<1>3. /\ Slack(0)' = Slack(1) /\ Slack(1)' = Slack(2) /\ Slack(2)' = Slack(3)
      /\ Slack(0) <= Slack(1) /\ Slack(1) <= Slack(2) /\ Slack(2) <= Slack(3)
  <2>1. deletions \in Nat /\ Patience \in Nat
        BY <1>1, Times, ContentAssumption
  <2>2. /\ 0 + (deletions + 1) = 1 + deletions /\ 1 + (deletions + 1) = 2 + deletions
        /\ 2 + (deletions + 1) = 3 + deletions
        BY <2>1
  <2>3. Slack(0)' = Slack(1) /\ Slack(1)' = Slack(2) /\ Slack(2)' = Slack(3)
        BY <1>1, <2>2 DEF Slack
  <2> QED BY <1>1, <2>1, <2>3, Slacks
<1>4. \A s \in Request : \A k : Waits(s, k)' => Waits(s, k)
      BY <1>1 DEF Waits
<1>5. /\ Slack(0) \in Nat /\ Slack(1) \in Nat /\ Slack(2) \in Nat /\ Slack(3) \in Nat
      /\ Ttl \in Nat
      BY <1>1, Slacks, ContentAssumption
<1>6. ASSUME NEW k \in Key PROVE EntryInv(k)'
  <2> SUFFICES ASSUME redis'[k] # Null PROVE EntryInv(k)'
      BY DEF EntryInv
  <2>1. redis'[k] = redis[k] /\ expires'[k] = expires[k] /\ redis[k] # Null
        BY <1>2
  <2>2. redis[k].fetched \in Nat /\ expires[k] \in Nat
        BY <1>1, <2>1, Times
  <2>3. now < expires[k] /\ expires[k] <= redis[k].fetched + Slack(3) + Ttl
        BY <1>3, <1>5, <2>1, <2>2 DEF AgeInv, EntryInv
  <2>4. ASSUME NEW s \in Request, Waits(s, k)
        PROVE  /\ op[s].arrived + Ttl <= expires[k]
               /\ op[s].arrived <= redis[k].fetched + Slack(2)
    <3>1. op[s].arrived \in Nat
          BY <1>1, <2>4, Times DEF Waits
    <3> QED BY <1>3, <1>5, <2>1, <2>2, <2>4, <3>1 DEF AgeInv, EntryInv
  <2> QED BY <1>1, <1>3, <1>4, <2>1, <2>3, <2>4 DEF EntryInv
<1>7. ASSUME NEW s \in Request PROVE CarryInv(s)'
  <2>1. /\ s \in InFlight' => s \in InFlight
        /\ pc'[s] = "innerSet" => pc[s] = "innerSet" /\ body'[s] = body[s]
        BY <1>1 DEF InFlight
  <2>2. ASSUME pc'[s] = "outerSet"
        PROVE  /\ \A t \in Request :
                     Waits(t, op[s].key) => op[t].arrived <= body[s].fetched + Slack(2)
               /\ op[s].arrived <= body[s].fetched + Slack(1)
               /\ body'[s] = body[s]
    <3>1. pc[s] = "outerSet" /\ body'[s] = body[s] /\ Waits(s, op[s].key)
          BY <1>1, <2>2 DEF Waits
    <3>2. body[s].fetched \in Nat
          BY <1>1, <3>1, Times DEF Storing
    <3>3. ASSUME NEW t \in Request, Waits(t, op[s].key)
          PROVE  /\ op[t].arrived <= body[s].fetched + Slack(1)
                 /\ op[t].arrived <= body[s].fetched + Slack(2)
      <4>1. op[t].arrived \in Nat
            BY <1>1, <3>3, Times DEF Waits
      <4> QED BY <1>3, <1>5, <3>1, <3>2, <3>3, <4>1 DEF AgeInv, CarryInv
    <3> QED BY <3>1, <3>3
  <2> QED BY <1>1, <1>3, <1>4, <2>1, <2>2 DEF AgeInv, CarryInv
<1> QED BY <1>6, <1>7 DEF AgeInv

\* Time passes for an entry only when no read waits that would outlast it.
LEMMA TickAges ==
    ASSUME AgeInv, Inv', Patience < Ttl, Tick
    PROVE  AgeInv'
<1>1. /\ UNCHANGED <<op, pc, body, deletions>> /\ now' = now + 1 /\ Inv
      /\ \A r \in InFlight : now < op[r].arrived + Patience
      BY DEF AgeInv, Tick
<1>2. Slack(0)' = Slack(0) /\ Slack(1)' = Slack(1) /\ Slack(2)' = Slack(2)
      BY <1>1 DEF Slack
<1>3. ASSUME NEW k \in Key
      PROVE  \/ redis'[k] = Null /\ (redis[k] = Null \/ expires[k] <= now + 1)
             \/ redis'[k] = redis[k] /\ expires'[k] = expires[k] /\ now + 1 < expires[k]
  <2>1. expires[k] \in Nat /\ now \in Nat
        BY <1>1, Times
  <2>2. /\ redis'[k] = IF expires[k] <= now + 1 THEN Null ELSE redis[k]
        /\ expires'[k] = IF expires[k] <= now + 1 THEN 0 ELSE expires[k]
        BY DEF Tick, Drop, AllKeys
  <2> QED BY <2>1, <2>2
<1>4. \A s \in Request : \A k : Waits(s, k)' <=> Waits(s, k)
      BY <1>1 DEF Waits
<1>5. ASSUME NEW k \in Key PROVE EntryInv(k)'
      BY <1>1, <1>2, <1>3, <1>4 DEF AgeInv, EntryInv
<1>6. ASSUME NEW r \in Request PROVE CarryInv(r)'
  <2>1. r \in InFlight' => op[r].arrived <= now + 1 /\ now + 1 <= op[r].arrived + Patience
    <3> SUFFICES ASSUME r \in InFlight
                 PROVE  op[r].arrived <= now + 1 /\ now + 1 <= op[r].arrived + Patience
        BY <1>1 DEF InFlight
    <3>1. op[r].arrived \in Nat /\ now \in Nat /\ op[r].arrived <= now
          BY <1>1, Times DEF AgeInv, CarryInv, InFlight
    <3> QED BY <1>1, <3>1, ContentAssumption
  <2>2. ASSUME pc[r] = "outerSet", redis'[op[r].key] = Null
        PROVE  redis[op[r].key] = Null
    <3> SUFFICES ASSUME redis[op[r].key] # Null PROVE FALSE
        OBVIOUS
    <3>1. op[r].key \in Key /\ r \in InFlight /\ Waits(r, op[r].key)
          BY <1>1, <2>2, Times DEF Storing, InFlight, Waits
    <3>2. expires[op[r].key] <= now + 1 /\ op[r].arrived + Ttl <= expires[op[r].key]
          BY <1>3, <2>2, <3>1 DEF AgeInv, EntryInv
    <3>3. /\ op[r].arrived \in Nat /\ now \in Nat /\ expires[op[r].key] \in Nat
          /\ now < op[r].arrived + Patience
          BY <1>1, <3>1, Times DEF InFlight
    <3> QED BY <3>2, <3>3, ContentAssumption
  <2> QED BY <1>1, <1>2, <1>4, <2>1, <2>2 DEF AgeInv, CarryInv
<1> QED BY <1>5, <1>6 DEF AgeInv

\* What is published, and who dies, does not matter; who arrives does not wait yet.
LEMMA OutsideAges ==
    ASSUME AgeInv, Inv', [Next]_vars, ~Tick, \A r \in Request : ~Proceed(r)
    PROVE  AgeInv'
<1>1. ASSUME NEW k \in Key, Publish(k) PROVE AgeInv'
  <2>1. UNCHANGED <<now, redis, expires, op, pc, body, deletions>>
        BY <1>1 DEF Publish
  <2> QED BY <2>1, PeekAges DEF InFlight, Waits
<1>2. ASSUME NEW r \in Request, NEW kind, NEW k, Submit(r, kind, k) PROVE AgeInv'
  <2>1. /\ UNCHANGED <<now, redis, expires, deletions>>
        /\ pc'[r] \in {"outerGet", "keys", "getStamp"} /\ op'[r].arrived = now
        /\ \A s \in Request \ {r} : pc'[s] = pc[s] /\ body'[s] = body[s] /\ op'[s] = op[s]
        BY <1>2, AwaitMoves DEF AgeInv, Inv, Types, Submit, FirstStep
  <2>2. ASSUME NEW s \in Request
        PROVE  /\ s \in InFlight' => \/ s \in InFlight /\ op'[s] = op[s]
                                     \/ op'[s].arrived = now
               /\ Waits(s, op[s].key)' =>
                     s \in InFlight /\ op'[s] = op[s] /\ Waits(s, op[s].key)
               /\ pc'[s] = "innerSet" => pc[s] = "innerSet" /\ body'[s] = body[s]
               /\ pc'[s] = "outerSet" => pc[s] = "outerSet" /\ body'[s] = body[s]
        BY <2>1 DEF InFlight, Waits
  <2> QED BY <2>1, <2>2, PeekAges
<1>3. CASE Crash
  <2>1. /\ UNCHANGED <<now, redis, expires, op, deletions>>
        /\ \A s \in Request : pc'[s] \in {"idle", "done"}
        BY <1>3 DEF Crash, InFlight, AgeInv, Inv, Types
  <2> QED BY <2>1, PeekAges DEF InFlight, Waits
<1>4. CASE UNCHANGED vars
  <2>1. UNCHANGED <<now, redis, expires, op, pc, body, deletions>>
        BY <1>4 DEF vars
  <2> QED BY <2>1, PeekAges DEF InFlight, Waits
<1> QED BY <1>1, <1>2, <1>3, <1>4
        DEF Next, SubmitList, SubmitItem, SubmitInvalidate, SubmitStamp

LEMMA NextAge == RedisWorks /\ Patience < Ttl /\ AgeInv /\ [Next]_vars => AgeInv'
<1> SUFFICES ASSUME RedisWorks, Patience < Ttl, AgeInv, [Next]_vars PROVE AgeInv'
    OBVIOUS
<1>1. Inv'
      BY NextInv DEF AgeInv
<1>2. ASSUME NEW r \in Request, Proceed(r) PROVE AgeInv'
      BY <1>1, <1>2, GetsAge, FetchesAge, StoresAge, InvalidatesAge, DeleteFoundAges,
         RedisThere DEF Proceed, DeleteByPatternFails
<1> QED BY <1>1, <1>2, TickAges, OutsideAges

\* Where commands take effect and requests are shorter than an entry's life, no
\* entry outlives its body's day by more than two such requests, and one more for
\* each DEL: whatever reads renew it, and whatever Strapi does and crashes.
THEOREM EntriesEnd == RedisWorks /\ Patience < Ttl => (Spec => []EntriesRunOut)
<1> SUFFICES ASSUME RedisWorks, Patience < Ttl PROVE Spec => []EntriesRunOut
    OBVIOUS
<1>1. AgeInv /\ [Next]_vars => AgeInv'
      BY NextAge
<1> QED BY <1>1, InitAge, AgeImplies, PTL DEF Spec
=============================================================================
