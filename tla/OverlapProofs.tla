--------------------------- MODULE OverlapProofs ---------------------------
(***************************************************************************)
(* Proofs about which overlaps of requests the auth module survives, for   *)
(* any users, requests and lifetimes and whichever statements fail.  Where *)
(* no two refreshes of one token overlap, a session has one live token;    *)
(* where no refresh overlaps a logout-all of its user, that ends the       *)
(* sessions it found; and where no refresh overlaps a logout of its token  *)
(* either, the handlers implement the ledger.                              *)
(***************************************************************************)
EXTENDS SessionsProofs

-----------------------------------------------------------------------------
(* The inductive invariants, on top of Inv. *)

\* A session belongs to the user of each of its tokens, and starts with a row.
SessionsRooted ==
    \A t \in Token : Stored(t) =>
        /\ tokens[t].session \in Token
        /\ tokens[t].session.user = t.user
        /\ Stored(tokens[t].session)

\* Past its check of the presented token, and not answered yet.
Refreshing(r) ==
    pc[r] \in {"user", "revoke"} \/ (pc[r] = "save" /\ op[r].kind = "refresh")

SessionOf(r) == tokens[op[r].token].session

InSession(t, s) == Stored(t) /\ tokens[t].session = s

\* No token of the session but the presented one is live.
SoleHolder(r) ==
    Refreshing(r) => \A t \in Token : InSession(t, SessionOf(r)) /\ Live(t) => t = op[r].token

\* A refresh has its session to itself.
HoldersApart ==
    \A q, r \in Request : Refreshing(q) /\ Refreshing(r) /\ q # r => SessionOf(q) # SessionOf(r)

Rotation ==
    /\ SessionsRooted
    /\ OneLiveTokenPerSession
    /\ HoldersApart
    /\ \A r \in Request : SoleHolder(r)

\* Every token of the session is revoked, and no refresh of one is past its check.
Ended(s) ==
    /\ \A t \in Token : InSession(t, s) => tokens[t].revoked
    /\ \A q \in Request : Refreshing(q) => SessionOf(q) # s

\* What a logoutAll found is its caller's, and has ended once it is answered.
LogoutAllInv(r) ==
    pc[r] # "idle" /\ op[r].kind = "logoutAll" =>
        \A s \in op[r].ended :
            /\ s \in Token /\ Stored(s) /\ s.user = op[r].who
            /\ answer[r] = 200 => Ended(s)

Ends == SessionsRooted /\ \A r \in Request : LogoutAllInv(r)

\* Nobody revokes the token under a refresh that has yet to revoke it.
ExchangesLive ==
    \A r \in Request : pc[r] \in {"user", "revoke"} => Live(op[r].token)

-----------------------------------------------------------------------------
(* The facts each step rests on. *)

LEMMA RefreshingFacts ==
    ASSUME Inv, NEW r \in Request, Refreshing(r)
    PROVE  /\ op[r].kind = "refresh" /\ r \in InFlight
           /\ op[r].token \in Token /\ Stored(op[r].token)
           /\ pc[r] = "save" => tokens[op[r].token].revoked /\ ~Live(op[r].token)
<1>1. CommandInv(r) /\ HandlerInv(r)
      BY DEF Inv, RequestInv, Refreshing
<1>2. op[r].kind = "refresh" /\ op[r].token # Null /\ r \in InFlight
      BY <1>1 DEF CommandInv, HandlerInv, KindFits, Refreshing, InFlight
<1> QED BY <1>1, <1>2 DEF CommandInv, HandlerInv, Command, Live

\* The effect of a request's step on what the invariants read.
Moves(r) ==
    /\ r \in InFlight /\ op' = op
    /\ pc'[r] # "idle"
    /\ \A s \in Request \ {r} : pc'[s] = pc[s] /\ answer'[s] = answer[s]

\* A handler at an await is in flight, and stays there or is answered.
LEMMA AwaitMoves ==
    ASSUME Inv, NEW r \in Request, pc[r] \notin {"idle", "done"}, op' = op,
           NEW step \in Step \ {"idle"}, NEW user, Await(r, step, user)
    PROVE  Moves(r) /\ pc'[r] = step /\ answer' = answer
BY DEF Moves, InFlight, Await, Inv, Types

LEMMA AnswerMoves ==
    ASSUME Inv, NEW r \in Request, pc[r] \notin {"idle", "done"}, op' = op,
           NEW status, Answer(r, status)
    PROVE  Moves(r) /\ pc'[r] = "done" /\ answer'[r] = status
BY DEF Moves, InFlight, Answer, Inv, Types

\* The kind of the request that takes a step.
LEMMA KindAtStep ==
    ASSUME Inv, NEW r \in Request, pc[r] \notin {"idle", "done"}
    PROVE  KindFits(op[r].kind, pc[r]) /\ answer[r] = 0
BY DEF Inv, RequestInv, CommandInv, AnswerInv

\* An UPDATE that revokes adds no row, and touches only the rows it matches.
LEMMA RevokeOnly ==
    ASSUME Inv, NEW matching, Revoke(matching)
    PROVE  /\ Grows
           /\ \A t \in Token : tokens'[t] # Null => tokens[t] # Null
           /\ \A t \in Token : t \notin matching => tokens'[t] = tokens[t]
           /\ \A t \in Token : t \in matching /\ tokens[t] # Null => tokens'[t].revoked
<1>1. Grows /\ \A t \in Token \cap matching : tokens[t] # Null => tokens'[t].revoked
      BY RevokeGrows
<1>2. /\ \A t \in Token : tokens'[t] # Null => tokens[t] # Null
      /\ \A t \in Token : t \notin matching => tokens'[t] = tokens[t]
      BY DEF Revoke
<1> QED BY <1>1, <1>2

\* Steps that read, go on or refuse.
Reads(r) ==
    \/ CreateUser(r) \/ ReadAccount(r) \/ ComparePassword(r)
    \/ FindOwner(r) \/ Authenticate(r) \/ StatementFails(r)

Revokes(r) == RevokePresented(r) \/ Logout(r) \/ LogoutAll(r)

LEMMA ReadsMove ==
    ASSUME Inv, NEW r \in Request, Reads(r)
    PROVE  /\ Moves(r) /\ tokens' = tokens /\ answer'[r] # 200
           /\ Refreshing(r)' => pc[r] = "user" /\ pc'[r] = "revoke"
<1>1. pc[r] \notin {"idle", "done"} /\ op' = op /\ tokens' = tokens
      BY DEF Reads, CreateUser, ReadAccount, ComparePassword, FindOwner, Authenticate,
             StatementFails, InFlight
<1>2. KindFits(op[r].kind, pc[r]) /\ answer[r] = 0
      BY <1>1, KindAtStep
<1>3. ASSUME NEW status \in {401, 500}, Answer(r, status)
      PROVE  Moves(r) /\ answer'[r] # 200 /\ ~Refreshing(r)'
  <2>1. Moves(r) /\ pc'[r] = "done" /\ answer'[r] = status
        BY <1>1, <1>3, AnswerMoves
  <2> QED BY <2>1 DEF Refreshing
<1>4. ASSUME NEW step \in {"save", "compare", "revoke", "logout", "logoutAll"}, NEW user,
             Await(r, step, user),
             step = "revoke" => pc[r] = "user",
             step = "save" => op[r].kind # "refresh"
      PROVE  /\ Moves(r) /\ answer'[r] # 200
             /\ Refreshing(r)' => pc[r] = "user" /\ pc'[r] = "revoke"
  <2>1. Moves(r) /\ pc'[r] = step /\ answer' = answer /\ op' = op
        BY <1>1, <1>4, AwaitMoves DEF Step
  <2> QED BY <1>2, <1>4, <2>1 DEF Refreshing
<1>5. CASE CreateUser(r) \/ ReadAccount(r) \/ ComparePassword(r)
  <2>1. op[r].kind # "refresh"
        BY <1>2, <1>5 DEF KindFits, CreateUser, ReadAccount, ComparePassword
  <2> QED BY <1>1, <1>3, <1>4, <1>5, <2>1 DEF CreateUser, ReadAccount, ComparePassword
<1>6. CASE FindOwner(r)
      BY <1>1, <1>3, <1>4, <1>6 DEF FindOwner
<1>7. CASE Authenticate(r)
  <2>1. op[r].kind \in {"logout", "logoutAll"}
        BY <1>2, <1>7 DEF KindFits, Authenticate
  <2> QED BY <1>1, <1>3, <1>4, <1>7, <2>1 DEF Authenticate
<1>8. CASE StatementFails(r)
      BY <1>1, <1>3, <1>8 DEF StatementFails
<1> QED BY <1>5, <1>6, <1>7, <1>8 DEF Reads

LEMMA RevokesMove ==
    ASSUME Inv, NEW r \in Request, Revokes(r)
    PROVE  /\ Moves(r) /\ Grows
           /\ \A t \in Token : tokens'[t] # Null => tokens[t] # Null
           /\ Refreshing(r)' => Refreshing(r)
           /\ ~LogoutAll(r) => op[r].kind # "logoutAll"
<1>1. pc[r] \in {"revoke", "logout", "logoutAll"} /\ op' = op
      BY DEF Revokes, RevokePresented, Logout, LogoutAll
<1>2. KindFits(op[r].kind, pc[r])
      BY <1>1, KindAtStep
<1>3. PICK matching : Revoke(matching)
      BY DEF Revokes, RevokePresented, Logout, LogoutAll
<1>4. Grows /\ \A t \in Token : tokens'[t] # Null => tokens[t] # Null
      BY <1>3, RevokeOnly
<1>5. CASE RevokePresented(r)
  <2>1. pc[r] = "revoke" /\ Await(r, "save", Null)
        BY <1>5 DEF RevokePresented
  <2>2. Moves(r)
        BY <1>1, <2>1, AwaitMoves DEF Step
  <2> QED BY <1>2, <1>4, <2>1, <2>2 DEF KindFits, Refreshing
<1>6. CASE Logout(r) \/ LogoutAll(r)
  <2>1. \E status \in {200, 500} : Answer(r, status)
        BY <1>6 DEF Logout, LogoutAll, Acknowledge
  <2>2. Moves(r) /\ pc'[r] = "done"
        BY <1>1, <2>1, AnswerMoves
  <2>3. Logout(r) => op[r].kind = "logout"
        BY <1>2 DEF KindFits, Logout
  <2> QED BY <1>4, <1>6, <2>2, <2>3 DEF Refreshing
<1> QED BY <1>5, <1>6 DEF Revokes

LEMMA FindMoves ==
    ASSUME Inv, NEW r \in Request, FindToken(r)
    PROVE  /\ Moves(r) /\ tokens' = tokens /\ answer'[r] # 200
           /\ op[r].kind = "refresh" /\ op[r].token \in Token \cup {Null}
           /\ Refreshing(r)' => /\ pc'[r] = "user"
                                /\ op[r].token \in Token /\ Live(op[r].token)
<1>1. pc[r] = "find" /\ op' = op /\ tokens' = tokens
      BY DEF FindToken
<1>2. op[r].kind = "refresh" /\ op[r].token \in Token \cup {Null} /\ answer[r] = 0
      BY <1>1, KindAtStep DEF KindFits, Inv, RequestInv, CommandInv, Command
<1>3. CASE Answer(r, 401)
  <2>1. Moves(r) /\ pc'[r] = "done" /\ answer'[r] = 401
        BY <1>1, <1>3, AnswerMoves
  <2> QED BY <1>1, <1>2, <2>1 DEF Refreshing
<1>4. CASE Live(op[r].token) /\ Await(r, "user", Null)
  <2>1. Moves(r) /\ pc'[r] = "user" /\ answer' = answer
        BY <1>1, <1>4, AwaitMoves DEF Step
  <2> QED BY <1>1, <1>2, <1>4, <2>1 DEF Live, Stored
<1> QED BY <1>3, <1>4 DEF FindToken

\* The row SaveToken adds, and what it leaves alone.
LEMMA SaveTokenRow ==
    ASSUME Inv, SessionsRooted, NEW r \in Request, SaveToken(r), tokens' # tokens
    PROVE  LET t == minted[r]
               s == IF op[r].kind = "refresh" THEN tokens[op[r].token].session ELSE t
           IN  /\ Moves(r) /\ pc[r] = "save" /\ pc'[r] = "done" /\ Grows
               /\ t \in Token /\ tokens[t] = Null
               /\ s \in Token /\ s.user = t.user /\ s # Null
               /\ tokens' \in [Token -> TokenRow \cup {Null}]
               /\ tokens'[t] # Null /\ tokens'[t].session = s /\ ~tokens'[t].revoked
               /\ \A x \in Token \ {t} : tokens'[x] = tokens[x]
<1> DEFINE t == minted[r]
           old == op[r].token
           s == IF op[r].kind = "refresh" THEN tokens[old].session ELSE t
<1>1. /\ pc[r] = "save" /\ op' = op /\ tokens[t] = Null
      /\ tokens' = [tokens EXCEPT ![t] = [session |-> s, revoked |-> FALSE]]
      /\ \E status \in {200, 201, 500} : Answer(r, status)
      BY DEF SaveToken, Acknowledge
<1>2. /\ t \in Token
      /\ op[r].kind = "refresh" => old \in Token /\ Stored(old) /\ t.user = old.user
      BY <1>1 DEF Inv, RequestInv, CommandInv, HandlerInv, Command
<1>3. s \in Token /\ s.user = t.user
      BY <1>2 DEF SessionsRooted
<1> DEFINE row == [session |-> s, revoked |-> FALSE]
<1>4. row \in TokenRow /\ row.session = s /\ ~row.revoked /\ row # Null
  <2>1. row \in TokenRow
        BY <1>3 DEF TokenRow
  <2> QED BY <2>1, SessionsAssumption
<1>5. /\ tokens' \in [Token -> TokenRow \cup {Null}]
      /\ tokens'[t] # Null /\ tokens'[t].session = s /\ ~tokens'[t].revoked
      /\ \A x \in Token \ {t} : tokens'[x] = tokens[x]
  <2>1. tokens \in [Token -> TokenRow \cup {Null}] /\ tokens' = [tokens EXCEPT ![t] = row]
        BY <1>1 DEF Inv, Types
  <2>2. t \in Token
        BY <1>2
  <2> HIDE DEF row, s, t
  <2> QED BY <1>4, <2>1, <2>2
<1>6. Moves(r) /\ pc'[r] = "done"
      BY <1>1, AnswerMoves
<1>7. Grows
      BY <1>1, <1>5 DEF Grows
<1>8. s # Null
      BY <1>3, SessionsAssumption
<1> QED BY <1>1, <1>2, <1>3, <1>5, <1>6, <1>7, <1>8

\* A save that stores nothing.
LEMMA SaveRefused ==
    ASSUME Inv, NEW r \in Request, SaveToken(r)
    PROVE  /\ Moves(r) /\ pc[r] = "save" /\ pc'[r] = "done" /\ ~Refreshing(r)'
           /\ op[r].kind # "logoutAll"
<1>1. /\ pc[r] = "save" /\ op' = op /\ \E status \in {200, 201, 500} : Answer(r, status)
      BY DEF SaveToken, Acknowledge
<1>2. Moves(r) /\ pc'[r] = "done"
      BY <1>1, AnswerMoves
<1>3. op[r].kind # "logoutAll"
      BY <1>1, KindAtStep DEF KindFits
<1> QED BY <1>1, <1>2, <1>3 DEF Refreshing

\* What the steps outside the requests leave alone, and the arrival of one.
LEMMA ArrivalFacts ==
    ASSUME Inv, NEW r \in Request, NEW c, NEW step, Submit(r, c, step),
           step \in {"create", "read", "find", "guard"}
    PROVE  /\ pc[r] = "idle" /\ tokens' = tokens /\ answer' = answer /\ answer[r] = 0
           /\ op'[r] = c /\ pc'[r] = step
           /\ \A s \in Request \ {r} : op'[s] = op[s] /\ pc'[s] = pc[s]
BY DEF Submit, Await, Inv, Types, RequestInv

\* Every step is one of these.
Arrives(r) ==
    \E u \in User :
        \/ SubmitRegister(r, u) \/ SubmitLogin(r, u) \/ SubmitLogoutAll(r, u)
        \/ \E t \in Token \cup {Null} : SubmitRefresh(r, u, t) \/ SubmitLogout(r, u, t)

Passes == tokens' = tokens /\ op' = op /\ pc' = pc /\ answer' = answer

LEMMA Steps ==
    ASSUME [Next]_vars
    PROVE  \/ \E r \in Request : \/ Reads(r) \/ Revokes(r) \/ FindToken(r)
                                 \/ SaveToken(r) \/ Arrives(r)
           \/ Passes
<1>1. CASE UNCHANGED vars
      BY <1>1 DEF vars, Passes
<1>2. CASE Next
      BY <1>2 DEF Next, Proceed, Reads, Revokes, Arrives, Passes, Tick, ChangeAccount
<1> QED BY <1>1, <1>2

LEMMA Arrival ==
    ASSUME NEW r \in Request, Arrives(r)
    PROVE  \E c : \E step \in {"create", "read", "find", "guard"} :
              /\ Submit(r, c, step)
              /\ c.kind = "logoutAll" => c.ended = SessionsOf(c.who)
<1>1. PICK u \in User :
         \/ SubmitRegister(r, u) \/ SubmitLogin(r, u) \/ SubmitLogoutAll(r, u)
         \/ \E t \in Token \cup {Null} : SubmitRefresh(r, u, t) \/ SubmitLogout(r, u, t)
      BY DEF Arrives
<1>2. CASE SubmitRegister(r, u)
      BY <1>2 DEF SubmitRegister, Plain
<1>3. CASE SubmitLogin(r, u)
      BY <1>3 DEF SubmitLogin, Plain
<1>4. CASE SubmitLogoutAll(r, u)
  <2> DEFINE c == [Plain("logoutAll", u, Null) EXCEPT !.ended = SessionsOf(u)]
  <2>1. c.ended = SessionsOf(u) /\ c.who = u
        BY DEF Plain
  <2>2. Submit(r, c, "guard")
        BY <1>4 DEF SubmitLogoutAll
  <2> HIDE DEF c
  <2> QED BY <2>1, <2>2
<1>5. ASSUME NEW t, SubmitRefresh(r, u, t)
      PROVE  \E c : Submit(r, c, "find") /\ c.kind = "refresh"
  <2> DEFINE c == [Plain("refresh", u, t) EXCEPT !.dead = Dead(t)]
  <2>1. c.kind = "refresh" /\ Submit(r, c, "find")
        BY <1>5 DEF SubmitRefresh, Plain
  <2> HIDE DEF c
  <2> QED BY <2>1
<1>6. ASSUME NEW t, SubmitLogout(r, u, t)
      PROVE  \E c : Submit(r, c, "guard") /\ c.kind = "logout"
      BY <1>6 DEF SubmitLogout, Plain
<1> QED BY <1>1, <1>2, <1>3, <1>4, <1>5, <1>6

-----------------------------------------------------------------------------
(* Rotation: one live token per session.                                   *)

LEMMA RootsKept ==
    ASSUME SessionsRooted, Grows,
           \A t \in Token : tokens'[t] # Null => tokens[t] # Null
    PROVE  SessionsRooted'
<1> SUFFICES ASSUME NEW t \in Token, t # Null, tokens'[t] # Null
             PROVE  /\ tokens'[t].session \in Token
                    /\ tokens'[t].session.user = t.user
                    /\ tokens'[t].session # Null
                    /\ tokens'[tokens'[t].session] # Null
    BY DEF SessionsRooted, Stored
<1>1. Stored(t) /\ tokens'[t].session = tokens[t].session
      BY DEF Grows, Stored
<1>2. /\ tokens[t].session \in Token /\ tokens[t].session.user = t.user
      /\ tokens[t].session # Null /\ tokens[tokens[t].session] # Null
      BY <1>1 DEF SessionsRooted, Stored
<1> QED BY <1>1, <1>2 DEF Grows

\* A row is added to a session that has one, or starts its own.
LEMMA SaveRoots ==
    ASSUME Inv, SessionsRooted, NEW r \in Request, SaveToken(r), tokens' # tokens
    PROVE  SessionsRooted'
<1> DEFINE t == minted[r]
           old == op[r].token
           s == IF op[r].kind = "refresh" THEN tokens[old].session ELSE t
<1>1. /\ pc[r] = "save" /\ t \in Token /\ tokens[t] = Null
      /\ s \in Token /\ s.user = t.user /\ s # Null
      /\ tokens'[t] # Null /\ tokens'[t].session = s
      /\ \A x \in Token \ {t} : tokens'[x] = tokens[x]
      BY SaveTokenRow
<1>2. op[r].kind = "refresh" => old \in Token /\ Stored(old) /\ tokens[old].session = s
      BY <1>1, RefreshingFacts DEF Refreshing
<1>3. op[r].kind # "refresh" => s = t
      OBVIOUS
<1> HIDE DEF t, old, s
<1>4. tokens'[s] # Null
  <2>1. CASE op[r].kind = "refresh"
    <3>1. tokens[s] # Null
          BY <1>2, <2>1 DEF SessionsRooted, Stored
    <3> QED BY <1>1, <3>1
  <2>2. CASE op[r].kind # "refresh"
        BY <1>1, <1>3, <2>2
  <2> QED BY <2>1, <2>2
<1> QED BY <1>1, <1>4 DEF SessionsRooted, Stored

\* Where rows are only revoked, what is live was live, in its session.
LEMMA LiveWas ==
    ASSUME Grows, \A t \in Token : tokens'[t] # Null => tokens[t] # Null,
           NEW t \in Token, Live(t)'
    PROVE  Live(t) /\ tokens'[t].session = tokens[t].session
BY DEF Live, Stored, Grows

\* Nothing is stored, and no refresh gets past its check.
LEMMA KeptRotation ==
    ASSUME Inv, Rotation, Grows,
           \A t \in Token : tokens'[t] # Null => tokens[t] # Null,
           \A q \in Request : Refreshing(q)' => Refreshing(q) /\ op'[q] = op[q]
    PROVE  Rotation'
<1>1. SessionsRooted'
      BY RootsKept DEF Rotation
<1>2. OneLiveTokenPerSession'
  <2> SUFFICES ASSUME NEW t1 \in Token, NEW t2 \in Token, Live(t1)', Live(t2)',
                      tokens'[t1].session = tokens'[t2].session
               PROVE  t1 = t2
      BY DEF OneLiveTokenPerSession
  <2>1. /\ Live(t1) /\ tokens'[t1].session = tokens[t1].session
        /\ Live(t2) /\ tokens'[t2].session = tokens[t2].session
        BY LiveWas
  <2> QED BY <2>1 DEF Rotation, OneLiveTokenPerSession
<1>3. ASSUME NEW q \in Request, Refreshing(q)' PROVE Refreshing(q) /\ SessionOf(q)' = SessionOf(q)
  <2>1. Refreshing(q) /\ op'[q] = op[q]
        BY <1>3
  <2>2. op[q].token \in Token /\ tokens[op[q].token] # Null
        BY <2>1, RefreshingFacts DEF Stored
  <2> QED BY <2>1, <2>2 DEF SessionOf, Grows
<1>4. HoldersApart'
      BY <1>3 DEF Rotation, HoldersApart
<1>5. ASSUME NEW q \in Request PROVE SoleHolder(q)'
  <2> SUFFICES ASSUME Refreshing(q)', NEW t \in Token, InSession(t, SessionOf(q))', Live(t)'
               PROVE  t = op'[q].token
      BY DEF SoleHolder
  <2>1. Live(t) /\ tokens'[t].session = tokens[t].session
        BY LiveWas
  <2>2. Refreshing(q) /\ SessionOf(q)' = SessionOf(q) /\ op'[q] = op[q]
        BY <1>3
  <2>3. InSession(t, SessionOf(q))
        BY <2>1, <2>2 DEF InSession, Live
  <2> QED BY <2>1, <2>2, <2>3 DEF Rotation, SoleHolder
<1> QED BY <1>1, <1>2, <1>4, <1>5 DEF Rotation

\* The others, when r moves.
LEMMA OthersRefresh ==
    ASSUME NEW r \in Request, Moves(r), NEW q \in Request, q # r
    PROVE  (Refreshing(q)' <=> Refreshing(q)) /\ op'[q] = op[q]
BY DEF Moves, Refreshing

\* A refresh gets past its check: its token is live, and whoever else holds the
\* session would hold it by that token.
LEMMA FindRotation ==
    ASSUME Inv, Rotation, RefreshesApart, NEW r \in Request, FindToken(r), Refreshing(r)'
    PROVE  Rotation'
<1>1. /\ Moves(r) /\ tokens' = tokens /\ op' = op
      /\ op[r].kind = "refresh" /\ op[r].token \in Token /\ Live(op[r].token)
      BY FindMoves DEF Moves
<1>2. InSession(op[r].token, SessionOf(r))
      BY <1>1 DEF InSession, Live, SessionOf
<1>3. \A q \in Request : SessionOf(q)' = SessionOf(q)
      BY <1>1 DEF SessionOf
<1>4. ASSUME NEW q \in Request, Refreshing(q)', q # r PROVE SessionOf(q) # SessionOf(r)
  <2> SUFFICES ASSUME SessionOf(q) = SessionOf(r) PROVE FALSE
      OBVIOUS
  <2>1. Refreshing(q)
        BY <1>1, <1>4, OthersRefresh
  <2>2. op[q].token = op[r].token
        BY <1>1, <1>2, <2>1 DEF Rotation, SoleHolder
  <2>3. q \in InFlight /\ r \in InFlight /\ op[q].kind = "refresh"
        BY <1>1, <2>1, RefreshingFacts DEF Moves
  <2> QED BY <1>1, <1>4, <2>2, <2>3 DEF RefreshesApart, Live, Stored
<1>5. HoldersApart'
  <2> SUFFICES ASSUME NEW p \in Request, NEW q \in Request, p # q,
                      Refreshing(p)', Refreshing(q)'
               PROVE  SessionOf(p) # SessionOf(q)
      BY <1>3 DEF HoldersApart
  <2>1. CASE p = r \/ q = r
        BY <1>4, <2>1
  <2>2. CASE p # r /\ q # r
        BY <1>1, <2>2, OthersRefresh DEF Rotation, HoldersApart
  <2> QED BY <2>1, <2>2
<1>6. SessionsRooted' /\ OneLiveTokenPerSession'
      BY <1>1 DEF Rotation, SessionsRooted, OneLiveTokenPerSession, Live, Stored
<1>7. ASSUME NEW q \in Request PROVE SoleHolder(q)'
  <2>1. CASE q = r
    <3>1. \A t \in Token : InSession(t, SessionOf(r)) /\ Live(t) => t = op[r].token
          BY <1>1, <1>2 DEF Rotation, OneLiveTokenPerSession, InSession
    <3> QED BY <1>1, <1>3, <2>1, <3>1 DEF SoleHolder, InSession, Live, Stored
  <2>2. CASE q # r
    <3>1. SoleHolder(q) /\ (Refreshing(q)' <=> Refreshing(q))
          BY <1>1, <2>2, OthersRefresh DEF Rotation
    <3> QED BY <1>1, <1>3, <3>1 DEF SoleHolder, InSession, Live, Stored
  <2> QED BY <2>1, <2>2
<1> QED BY <1>5, <1>6, <1>7 DEF Rotation

\* A token is stored: in a session of its own, or in one that r alone holds, and
\* by a token that is revoked.
LEMMA SaveRotation ==
    ASSUME Inv, Rotation, NEW r \in Request, SaveToken(r), tokens' # tokens
    PROVE  Rotation'
<1> DEFINE t == minted[r]
           old == op[r].token
           s == IF op[r].kind = "refresh" THEN tokens[old].session ELSE t
<1>1. SessionsRooted /\ OneLiveTokenPerSession /\ HoldersApart
      BY DEF Rotation
<1>2. /\ Moves(r) /\ op' = op /\ pc[r] = "save" /\ pc'[r] = "done" /\ Grows
      /\ t \in Token /\ tokens[t] = Null
      /\ s \in Token /\ s.user = t.user /\ s # Null
      /\ tokens'[t] # Null /\ tokens'[t].session = s
      /\ \A x \in Token \ {t} : tokens'[x] = tokens[x]
      BY <1>1, SaveTokenRow DEF Moves
<1>3. op[r].kind = "refresh" =>
         /\ Refreshing(r) /\ old \in Token /\ Stored(old) /\ ~Live(old)
         /\ SessionOf(r) = s
      BY <1>2, RefreshingFacts DEF Refreshing, SessionOf
<1>4. op[r].kind # "refresh" => s = t
      OBVIOUS
<1> HIDE DEF t, old, s
<1>5. ASSUME NEW x \in Token, x # t, Stored(x), tokens[x].session = s PROVE ~Live(x)
  <2>1. CASE op[r].kind = "refresh"
    <3>1. InSession(x, SessionOf(r)) /\ SoleHolder(r)
          BY <1>3, <1>5, <2>1 DEF InSession, Rotation
    <3> QED BY <1>3, <2>1, <3>1 DEF SoleHolder, old
  <2>2. CASE op[r].kind # "refresh"
    <3>1. Stored(t)
          BY <1>1, <1>4, <1>5, <2>2 DEF SessionsRooted
    <3> QED BY <1>2, <3>1 DEF Stored
  <2> QED BY <2>1, <2>2
<1>6. ASSUME NEW q \in Request, Refreshing(q)'
      PROVE  /\ q # r /\ Refreshing(q) /\ op[q].token \in Token
             /\ op[q].token # t /\ tokens'[op[q].token] = tokens[op[q].token]
             /\ SessionOf(q)' = SessionOf(q) /\ SessionOf(q) # s
  <2>1. q # r /\ Refreshing(q)
        BY <1>2, <1>6, OthersRefresh DEF Refreshing
  <2>2. op[q].token \in Token /\ Stored(op[q].token) /\ op[q].token # t
        BY <1>2, <2>1, RefreshingFacts DEF Stored
  <2>3. SessionOf(q) # s
    <3>1. CASE op[r].kind = "refresh"
          BY <1>1, <1>3, <2>1, <3>1 DEF HoldersApart
    <3>2. CASE op[r].kind # "refresh"
          BY <1>1, <1>2, <1>4, <2>2, <3>2 DEF SessionsRooted, SessionOf, Stored
    <3> QED BY <3>1, <3>2
  <2>4. tokens'[op[q].token] = tokens[op[q].token]
        BY <1>2, <2>2
  <2> QED BY <1>2, <2>1, <2>2, <2>3, <2>4 DEF SessionOf
<1>7. SessionsRooted'
      BY <1>1, SaveRoots
<1>8. OneLiveTokenPerSession'
      BY <1>1, <1>2, <1>5 DEF OneLiveTokenPerSession, Live, Stored
<1>9. HoldersApart'
      BY <1>1, <1>6 DEF HoldersApart
<1>10. ASSUME NEW q \in Request PROVE SoleHolder(q)'
  <2> SUFFICES ASSUME Refreshing(q)', NEW x \in Token, x # Null, tokens'[x] # Null,
                      tokens'[x].session = SessionOf(q)', ~tokens'[x].revoked
               PROVE  x = op'[q].token
      BY DEF SoleHolder, InSession, Live, Stored
  <2>1. x # t /\ tokens'[x] = tokens[x]
        BY <1>2, <1>6
  <2>2. InSession(x, SessionOf(q)) /\ Live(x)
        BY <1>6, <2>1 DEF InSession, Live, Stored
  <2> QED BY <1>2, <1>6, <2>2 DEF Rotation, SoleHolder
<1> QED BY <1>7, <1>8, <1>9, <1>10 DEF Rotation

LEMMA NextRotation == Inv /\ Rotation /\ RefreshesApart /\ [Next]_vars => Rotation'
<1> SUFFICES ASSUME Inv, Rotation, RefreshesApart, [Next]_vars PROVE Rotation'
    OBVIOUS
<1>1. Grows
      BY NextGrows
<1>2. ASSUME NEW r \in Request, Moves(r), Refreshing(r)' => Refreshing(r),
             \A t \in Token : tokens'[t] # Null => tokens[t] # Null
      PROVE  Rotation'
  <2>1. \A q \in Request : Refreshing(q)' => Refreshing(q) /\ op'[q] = op[q]
        BY <1>2, OthersRefresh DEF Moves
  <2> QED BY <1>1, <1>2, <2>1, KeptRotation
<1>3. ASSUME NEW r \in Request, Reads(r) PROVE Rotation'
      BY <1>2, <1>3, ReadsMove DEF Refreshing
<1>4. ASSUME NEW r \in Request, Revokes(r) PROVE Rotation'
      BY <1>2, <1>4, RevokesMove
<1>5. ASSUME NEW r \in Request, FindToken(r) PROVE Rotation'
      BY <1>2, <1>5, FindMoves, FindRotation
<1>6. ASSUME NEW r \in Request, SaveToken(r) PROVE Rotation'
      BY <1>2, <1>6, SaveRefused, SaveRotation
<1>7. ASSUME NEW r \in Request, Arrives(r) PROVE Rotation'
  <2>1. \E c : \E step \in {"create", "read", "find", "guard"} : Submit(r, c, step)
        BY <1>7, Arrival
  <2>2. /\ tokens' = tokens
        /\ \A q \in Request : Refreshing(q)' => Refreshing(q) /\ op'[q] = op[q]
        BY <2>1, ArrivalFacts DEF Refreshing
  <2> QED BY <1>1, <2>2, KeptRotation
<1>8. CASE Passes
  <2>1. \A q \in Request : Refreshing(q)' => Refreshing(q) /\ op'[q] = op[q]
        BY <1>8 DEF Passes, Refreshing
  <2> QED BY <1>1, <1>8, <2>1, KeptRotation DEF Passes
<1> QED BY <1>3, <1>4, <1>5, <1>6, <1>7, <1>8, Steps

LEMMA InitRotation == Init => Rotation
BY DEF Init, Rotation, SessionsRooted, OneLiveTokenPerSession, HoldersApart, SoleHolder,
       Refreshing, Live, Stored

LEMMA RotationHolds == Spec /\ []RefreshesApart => [](Inv /\ Rotation)
BY InitInv, InitRotation, NextInv, NextRotation, PTL DEF Spec

\* Rotation: a session has at most one live refresh token, whatever overlaps but
\* two refreshes of one token, and whichever statement of a refresh fails.
THEOREM OverlapsKeepOneToken == Spec /\ []RefreshesApart => []OneLiveTokenPerSession
<1>1. Rotation => OneLiveTokenPerSession
      BY DEF Rotation
<1> QED BY <1>1, RotationHolds, PTL

-----------------------------------------------------------------------------
(* Ends: a session a logout-all has ended stays ended.                     *)

\* A session stays ended while no refresh of it gets past its check, and no row
\* of it is added.
LEMMA EndedKept ==
    ASSUME NEW s, Ended(s), Grows,
           \A t \in Token : tokens'[t] # Null => tokens[t] # Null \/ tokens'[t].session # s,
           \A q \in Request : Refreshing(q)' => SessionOf(q)' # s
    PROVE  Ended(s)'
<1>1. ASSUME NEW t \in Token, t # Null, tokens'[t] # Null, tokens'[t].session = s
      PROVE  tokens'[t].revoked
  <2>1. InSession(t, s)
        BY <1>1 DEF InSession, Stored, Grows
  <2> QED BY <2>1 DEF Ended, InSession, Stored, Grows
<1> QED BY <1>1 DEF Ended, InSession, Stored

LEMMA SessionKept ==
    ASSUME Inv, Grows, NEW q \in Request, Refreshing(q), op'[q] = op[q]
    PROVE  SessionOf(q)' = SessionOf(q)
<1>1. op[q].token \in Token /\ tokens[op[q].token] # Null
      BY RefreshingFacts DEF Stored
<1> QED BY <1>1 DEF SessionOf, Grows

\* However requests overlap: a refresh gets past its check with a live token
\* only, and stores its row in the session of that token.
LEMMA EndedStays ==
    ASSUME Inv, SessionsRooted, [Next]_vars, NEW s \in Token, Stored(s), Ended(s)
    PROVE  Ended(s)'
<1>1. Grows
      BY NextGrows
<1>2. ASSUME \A t \in Token : tokens'[t] # Null => tokens[t] # Null,
             \A q \in Request : Refreshing(q)' => Refreshing(q) /\ op'[q] = op[q]
      PROVE  Ended(s)'
  <2>1. \A q \in Request : Refreshing(q)' => SessionOf(q)' # s
        BY <1>1, <1>2, SessionKept DEF Ended
  <2> QED BY <1>1, <1>2, <2>1, EndedKept
<1>3. ASSUME NEW r \in Request, Moves(r), Refreshing(r)' => Refreshing(r),
             \A t \in Token : tokens'[t] # Null => tokens[t] # Null
      PROVE  Ended(s)'
  <2>1. \A q \in Request : Refreshing(q)' => Refreshing(q) /\ op'[q] = op[q]
        BY <1>3, OthersRefresh DEF Moves
  <2> QED BY <1>2, <1>3, <2>1
<1>4. ASSUME NEW r \in Request, Reads(r) PROVE Ended(s)'
      BY <1>3, <1>4, ReadsMove DEF Refreshing
<1>5. ASSUME NEW r \in Request, Revokes(r) PROVE Ended(s)'
      BY <1>3, <1>5, RevokesMove
<1>6. ASSUME NEW r \in Request, FindToken(r) PROVE Ended(s)'
  <2>1. Moves(r) /\ tokens' = tokens /\ op' = op
        BY <1>6, FindMoves DEF Moves
  <2>2. ASSUME NEW q \in Request, Refreshing(q)' PROVE SessionOf(q)' # s
    <3>1. SessionOf(q)' = SessionOf(q)
          BY <2>1 DEF SessionOf
    <3>2. CASE q = r
      <4>1. op[r].token \in Token /\ Live(op[r].token)
            BY <1>6, <2>2, <3>2, FindMoves
      <4> QED BY <3>1, <3>2, <4>1 DEF Ended, InSession, Live, SessionOf
    <3>3. CASE q # r
          BY <2>1, <2>2, <3>1, <3>3, OthersRefresh DEF Ended
    <3> QED BY <3>2, <3>3
  <2> QED BY <1>1, <2>1, <2>2, EndedKept
<1>7. ASSUME NEW r \in Request, SaveToken(r) PROVE Ended(s)'
  <2>1. Moves(r) /\ op' = op /\ pc[r] = "save" /\ ~Refreshing(r)'
        BY <1>7, SaveRefused DEF Moves
  <2>2. \A q \in Request : Refreshing(q)' => Refreshing(q) /\ op'[q] = op[q]
        BY <2>1, OthersRefresh
  <2>3. CASE tokens' = tokens
        BY <1>2, <2>2, <2>3
  <2>4. CASE tokens' # tokens
    <3>1. /\ tokens[minted[r]] = Null
          /\ tokens'[minted[r]].session =
               IF op[r].kind = "refresh" THEN SessionOf(r) ELSE minted[r]
          /\ \A x \in Token \ {minted[r]} : tokens'[x] = tokens[x]
          BY <1>7, <2>4, SaveTokenRow DEF SessionOf
    <3>2. tokens'[minted[r]].session # s
          BY <2>1, <3>1 DEF Ended, Refreshing, Stored
    <3>3. \A q \in Request : Refreshing(q)' => SessionOf(q)' # s
          BY <1>1, <2>2, SessionKept DEF Ended
    <3> QED BY <1>1, <3>1, <3>2, <3>3, EndedKept
  <2> QED BY <2>3, <2>4
<1>8. ASSUME NEW r \in Request, Arrives(r) PROVE Ended(s)'
  <2>1. \E c : \E step \in {"create", "read", "find", "guard"} : Submit(r, c, step)
        BY <1>8, Arrival
  <2>2. /\ tokens' = tokens
        /\ \A q \in Request : Refreshing(q)' => Refreshing(q) /\ op'[q] = op[q]
        BY <2>1, ArrivalFacts DEF Refreshing
  <2> QED BY <1>2, <2>2
<1>9. CASE Passes
      BY <1>2, <1>9 DEF Passes, Refreshing
<1> QED BY <1>4, <1>5, <1>6, <1>7, <1>8, <1>9, Steps

LEMMA NextRoots == Inv /\ SessionsRooted /\ [Next]_vars => SessionsRooted'
<1> SUFFICES ASSUME Inv, SessionsRooted, [Next]_vars PROVE SessionsRooted'
    OBVIOUS
<1>1. Grows
      BY NextGrows
<1>2. CASE \E r \in Request : Reads(r) \/ FindToken(r)
      BY <1>1, <1>2, ReadsMove, FindMoves, RootsKept
<1>3. CASE \E r \in Request : Revokes(r)
      BY <1>1, <1>3, RevokesMove, RootsKept
<1>4. CASE \E r \in Request : SaveToken(r)
  <2>1. CASE tokens' = tokens
        BY <1>1, <2>1, RootsKept
  <2>2. CASE tokens' # tokens
        BY <1>4, <2>2, SaveRoots
  <2> QED BY <2>1, <2>2
<1>5. CASE \E r \in Request : Arrives(r)
  <2>1. tokens' = tokens
        BY <1>5, Arrival DEF Submit
  <2> QED BY <1>1, <2>1, RootsKept
<1>6. CASE Passes
      BY <1>1, <1>6, RootsKept DEF Passes
<1> QED BY <1>2, <1>3, <1>4, <1>5, <1>6, Steps

\* A request that arrived stays what it was, and only an arrival starts one.
LEMMA SubmittedStays ==
    ASSUME Inv, [Next]_vars, NEW r \in Request
    PROVE  /\ pc[r] # "idle" => op'[r] = op[r]
           /\ pc[r] = "idle" /\ pc'[r] # "idle" => Arrives(r)
<1>1. ASSUME NEW q \in Request, Moves(q)
      PROVE  op'[r] = op[r] /\ (pc[r] = "idle" => pc'[r] = "idle")
      BY <1>1 DEF Moves, InFlight
<1>2. CASE \E q \in Request : Reads(q) \/ Revokes(q) \/ FindToken(q) \/ SaveToken(q)
      BY <1>1, <1>2, ReadsMove, RevokesMove, FindMoves, SaveRefused
<1>3. ASSUME NEW q \in Request, Arrives(q), q # r \/ pc[r] # "idle"
      PROVE  op'[r] = op[r] /\ pc'[r] = pc[r]
  <2>1. \E c : \E step \in {"create", "read", "find", "guard"} : Submit(q, c, step)
        BY <1>3, Arrival
  <2> QED BY <1>3, <2>1, ArrivalFacts
<1>4. CASE Passes
      BY <1>4 DEF Passes
<1> QED BY <1>2, <1>3, <1>4, Steps

\* Only the UPDATE of a logout-all answers one with 200.
LEMMA OnlyLogoutAllAnswers ==
    ASSUME Inv, [Next]_vars, NEW r \in Request, pc[r] # "idle", op[r].kind = "logoutAll"
    PROVE  answer'[r] = 200 => answer[r] = 200 \/ LogoutAll(r)
<1>1. ASSUME NEW q \in Request, Moves(q), answer'[q] = 200 => q # r \/ LogoutAll(r)
      PROVE  answer'[r] = 200 => answer[r] = 200 \/ LogoutAll(r)
      BY <1>1 DEF Moves
<1>2. CASE \E q \in Request : Reads(q) \/ FindToken(q)
      BY <1>1, <1>2, ReadsMove, FindMoves
<1>3. CASE \E q \in Request : Revokes(q)
      BY <1>1, <1>3, RevokesMove
<1>4. CASE \E q \in Request : SaveToken(q)
      BY <1>1, <1>4, SaveRefused
<1>5. ASSUME NEW q \in Request, Arrives(q)
      PROVE  answer'[r] = answer[r]
  <2>1. \E c : \E step \in {"create", "read", "find", "guard"} : Submit(q, c, step)
        BY <1>5, Arrival
  <2> QED BY <2>1, ArrivalFacts
<1>6. CASE Passes
      BY <1>6 DEF Passes
<1> QED BY <1>2, <1>3, <1>4, <1>5, <1>6, Steps

\* It ends the sessions of its caller where no refresh of one is under way.
LEMMA LogoutAllEnds ==
    ASSUME Inv, SessionsRooted, LogoutAllsApart, NEW r \in Request, LogoutAll(r),
           NEW s \in Token, s.user = op[r].who
    PROVE  Ended(s)'
<1>1. /\ pc[r] = "logoutAll" /\ Revoke({t \in Token : t.user = op[r].who})
      /\ op[r].kind = "logoutAll"
      BY KindAtStep DEF LogoutAll, KindFits
<1>2. Moves(r) /\ op' = op /\ ~Refreshing(r)'
  <2>1. op' = op /\ \E status \in {200, 500} : Answer(r, status)
        BY DEF LogoutAll, Acknowledge
  <2>2. Moves(r) /\ pc'[r] = "done"
        BY <1>1, <2>1, AnswerMoves
  <2> QED BY <2>1, <2>2 DEF Refreshing
<1>3. /\ Grows
      /\ \A t \in Token : tokens'[t] # Null => tokens[t] # Null
      /\ \A t \in Token : t.user = op[r].who /\ tokens[t] # Null => tokens'[t].revoked
      BY <1>1, RevokeOnly
<1>4. ASSUME NEW t \in Token, t # Null, tokens'[t] # Null, tokens'[t].session = s
      PROVE  tokens'[t].revoked
  <2>1. Stored(t) /\ tokens[t].session = s
        BY <1>3, <1>4 DEF Stored, Grows
  <2> QED BY <1>3, <2>1 DEF SessionsRooted, Stored
<1>5. ASSUME NEW q \in Request, Refreshing(q)' PROVE SessionOf(q)' # s
  <2>1. Refreshing(q)
        BY <1>2, <1>5, OthersRefresh
  <2>2. /\ op[q].kind = "refresh" /\ q \in InFlight
        /\ op[q].token \in Token /\ Stored(op[q].token)
        BY <2>1, RefreshingFacts
  <2>3. op[q].token.user # op[r].who
        BY <1>1, <1>2, <2>2 DEF LogoutAllsApart, Moves, Stored
  <2>4. SessionOf(q) # s
        BY <2>2, <2>3 DEF SessionsRooted, SessionOf
  <2> QED BY <1>2, <1>3, <2>1, <2>4, SessionKept
<1> QED BY <1>4, <1>5 DEF Ended, InSession, Stored

LEMMA NextEnds == Inv /\ Ends /\ LogoutAllsApart /\ [Next]_vars => Ends'
<1> SUFFICES ASSUME Inv, Ends, LogoutAllsApart, [Next]_vars PROVE Ends'
    OBVIOUS
<1>1. SessionsRooted /\ SessionsRooted' /\ Grows
      BY NextRoots, NextGrows DEF Ends
<1>2. ASSUME NEW r \in Request, pc[r] # "idle" PROVE LogoutAllInv(r)'
  <2>1. op'[r] = op[r]
        BY <1>2, SubmittedStays
  <2>2. ASSUME op[r].kind = "logoutAll", NEW s \in op[r].ended
        PROVE  /\ s \in Token /\ Stored(s)' /\ s.user = op[r].who
               /\ answer'[r] = 200 => Ended(s)'
    <3>1. /\ s \in Token /\ Stored(s) /\ s.user = op[r].who
          /\ answer[r] = 200 => Ended(s)
          BY <1>2, <2>2 DEF Ends, LogoutAllInv
    <3>2. Stored(s)'
          BY <1>1, <3>1 DEF Stored, Grows
    <3>3. answer[r] = 200 => Ended(s)'
          BY <1>1, <3>1, EndedStays
    <3>4. LogoutAll(r) => Ended(s)'
          BY <1>1, <3>1, LogoutAllEnds
    <3> QED BY <1>2, <2>2, <3>1, <3>2, <3>3, <3>4, OnlyLogoutAllAnswers
  <2> QED BY <2>1, <2>2 DEF LogoutAllInv
<1>3. ASSUME NEW r \in Request, pc[r] = "idle" PROVE LogoutAllInv(r)'
  <2>1. CASE pc'[r] = "idle"
        BY <2>1 DEF LogoutAllInv
  <2>2. CASE pc'[r] # "idle"
    <3>1. Arrives(r)
          BY <1>3, <2>2, SubmittedStays
    <3>2. PICK c : \E step \in {"create", "read", "find", "guard"} :
                      /\ Submit(r, c, step)
                      /\ c.kind = "logoutAll" => c.ended = SessionsOf(c.who)
          BY <3>1, Arrival
    <3>3. op'[r] = c /\ tokens' = tokens /\ answer'[r] = 0
          BY <3>2, ArrivalFacts
    <3>4. c.kind = "logoutAll" => \A s \in c.ended : s \in Token /\ Stored(s) /\ s.user = c.who
          BY <1>1, <3>2 DEF SessionsOf, SessionsRooted
    <3> QED BY <3>3, <3>4 DEF LogoutAllInv, Stored
  <2> QED BY <2>1, <2>2
<1> QED BY <1>1, <1>2, <1>3 DEF Ends

LEMMA InitEnds == Init => Ends
BY DEF Init, Ends, SessionsRooted, LogoutAllInv, Stored

\* "Effectively ending all active sessions": an answered logout-all has ended
\* every session it found, for good, where no refresh of its user overlaps it.
THEOREM OverlapsEndSessions == Spec /\ []LogoutAllsApart => []LogoutAllEndsSessions
<1>1. Inv /\ Ends => LogoutAllEndsSessions
  <2> SUFFICES ASSUME Inv, Ends, NEW r \in Request, NEW t \in Token,
                      answer[r] = 200, op[r].kind = "logoutAll",
                      Stored(t), tokens[t].session \in op[r].ended
               PROVE  tokens[t].revoked
      BY DEF LogoutAllEndsSessions
  <2>1. pc[r] # "idle"
        BY DEF Inv, RequestInv
  <2>2. Ended(tokens[t].session)
        BY <2>1 DEF Ends, LogoutAllInv
  <2> QED BY <2>2 DEF Ended, InSession
<1> QED BY <1>1, InitInv, InitEnds, NextInv, NextEnds, PTL DEF Spec

-----------------------------------------------------------------------------
(* Exchanges: the token under a refresh is its own to revoke.              *)

\* Nobody refreshes the token a logout is about to revoke.
LEMMA LogoutAlone ==
    ASSUME Inv, LogoutsApart, NEW r \in Request, pc[r] = "logout",
           NEW q \in Request, Refreshing(q)
    PROVE  op[q].token # op[r].token
<1>1. op[r].kind = "logout" /\ r \in InFlight
      BY KindAtStep DEF KindFits, InFlight
<1>2. op[q].kind = "refresh" /\ q \in InFlight /\ op[q].token # Null
      BY RefreshingFacts DEF Stored
<1> QED BY <1>1, <1>2 DEF LogoutsApart

\* Nor any token of the user a logout-all is about to revoke those of.
LEMMA LogoutAllAlone ==
    ASSUME Inv, LogoutAllsApart, NEW r \in Request, pc[r] = "logoutAll",
           NEW q \in Request, Refreshing(q)
    PROVE  op[q].token.user # op[r].who
<1>1. op[r].kind = "logoutAll" /\ r \in InFlight
      BY KindAtStep DEF KindFits, InFlight
<1>2. op[q].kind = "refresh" /\ q \in InFlight /\ op[q].token # Null
      BY RefreshingFacts DEF Stored
<1> QED BY <1>1, <1>2 DEF LogoutAllsApart

LEMMA NextExchanges ==
    /\ Inv /\ Rotation /\ ExchangesLive /\ LogoutsApart /\ LogoutAllsApart /\ [Next]_vars
    => ExchangesLive'
<1> SUFFICES ASSUME Inv, Rotation, ExchangesLive, LogoutsApart, LogoutAllsApart, [Next]_vars,
                    NEW q \in Request, pc'[q] \in {"user", "revoke"}
             PROVE  Live(op[q].token)'
    BY DEF ExchangesLive
<1>1. ASSUME pc[q] \in {"user", "revoke"}, op'[q] = op[q],
             tokens'[op[q].token] = tokens[op[q].token]
      PROVE  Live(op[q].token)'
      BY <1>1 DEF ExchangesLive, Live, Stored
<1>2. ASSUME NEW r \in Request, Reads(r) PROVE Live(op[q].token)'
  <2>1. /\ Moves(r) /\ tokens' = tokens /\ op' = op
        /\ Refreshing(r)' => pc[r] = "user"
        BY <1>2, ReadsMove DEF Moves
  <2>2. pc[q] \in {"user", "revoke"}
        BY <2>1 DEF Moves, Refreshing
  <2> QED BY <1>1, <2>1, <2>2
<1>3. ASSUME NEW r \in Request, Revokes(r) PROVE Live(op[q].token)'
  <2>1. /\ Moves(r) /\ op' = op /\ pc[r] \in {"revoke", "logout", "logoutAll"}
        /\ pc'[r] \in {"save", "done"}
    <3>1. /\ pc[r] \in {"revoke", "logout", "logoutAll"} /\ op' = op
          /\ Await(r, "save", Null) \/ Answer(r, 200) \/ Answer(r, 500)
          BY <1>3 DEF Revokes, RevokePresented, Logout, LogoutAll, Acknowledge
    <3> QED BY <3>1, AwaitMoves, AnswerMoves DEF Step
  <2>2. q # r /\ pc[q] \in {"user", "revoke"} /\ Refreshing(q)
        BY <2>1 DEF Moves, Refreshing
  <2>3. op[q].token \in Token
        BY <2>2, RefreshingFacts
  <2>4. CASE RevokePresented(r)
    <3>1. Refreshing(r)
          BY <2>4 DEF RevokePresented, Refreshing
    <3>2. op[q].token # op[r].token
          BY <2>2, <3>1 DEF Rotation, HoldersApart, SessionOf
    <3> QED BY <1>1, <2>1, <2>2, <2>3, <2>4, <3>2, RevokeOnly DEF RevokePresented
  <2>5. CASE Logout(r)
    <3>1. op[q].token # op[r].token
          BY <2>2, <2>5, LogoutAlone DEF Logout
    <3> QED BY <1>1, <2>1, <2>2, <2>3, <2>5, <3>1, RevokeOnly DEF Logout
  <2>6. CASE LogoutAll(r)
    <3>1. op[q].token.user # op[r].who
          BY <2>2, <2>6, LogoutAllAlone DEF LogoutAll
    <3> QED BY <1>1, <2>1, <2>2, <2>3, <2>6, <3>1, RevokeOnly DEF LogoutAll
  <2> QED BY <1>3, <2>4, <2>5, <2>6 DEF Revokes
<1>4. ASSUME NEW r \in Request, FindToken(r) PROVE Live(op[q].token)'
  <2>1. Moves(r) /\ tokens' = tokens /\ op' = op
        BY <1>4, FindMoves DEF Moves
  <2>2. CASE q = r
    <3>1. Live(op[r].token)
          BY <1>4, <2>2, FindMoves DEF Refreshing
    <3> QED BY <2>1, <2>2, <3>1 DEF Live, Stored
  <2>3. CASE q # r
        BY <1>1, <2>1, <2>3 DEF Moves
  <2> QED BY <2>2, <2>3
<1>5. ASSUME NEW r \in Request, SaveToken(r) PROVE Live(op[q].token)'
  <2>1. Moves(r) /\ op' = op /\ ~Refreshing(r)'
        BY <1>5, SaveRefused DEF Moves
  <2>2. pc[q] \in {"user", "revoke"}
        BY <2>1 DEF Moves, Refreshing
  <2>3. op[q].token \in Token /\ Stored(op[q].token)
        BY <2>2, RefreshingFacts DEF Refreshing
  <2>4. tokens'[op[q].token] = tokens[op[q].token]
    <3>1. CASE tokens' = tokens
          BY <3>1
    <3>2. CASE tokens' # tokens
          BY <1>5, <2>3, <3>2, SaveTokenRow DEF Rotation, Stored
    <3> QED BY <3>1, <3>2
  <2> QED BY <1>1, <2>1, <2>2, <2>4
<1>6. ASSUME NEW r \in Request, Arrives(r) PROVE Live(op[q].token)'
  <2>1. \E c : \E step \in {"create", "read", "find", "guard"} : Submit(r, c, step)
        BY <1>6, Arrival
  <2> QED BY <1>1, <2>1, ArrivalFacts
<1>7. CASE Passes
      BY <1>1, <1>7 DEF Passes
<1> QED BY <1>2, <1>3, <1>4, <1>5, <1>6, <1>7, Steps

LEMMA InitExchanges == Init => ExchangesLive
BY DEF Init, ExchangesLive

-----------------------------------------------------------------------------
(* The refinement: every step is one of the ledger's, or none. *)

Used == {t \in Token : Stored(t)}

LEMMA RotatedFacts ==
    ASSUME Inv, NEW t, BeingRotated(t)
    PROVE  \E q \in Request : /\ Refreshing(q) /\ q \in InFlight /\ pc[q] = "save"
                              /\ op[q].token = t /\ t \in Token /\ Stored(t)
<1>1. PICK q \in Request : pc[q] = "save" /\ op[q].kind = "refresh" /\ op[q].token = t
      BY DEF BeingRotated
<1> QED BY <1>1, RefreshingFacts DEF Refreshing

\* A refresh that has revoked its token shares it with nobody.
LEMMA RotatedOnce ==
    ASSUME Inv, Rotation, NEW q \in Request, Refreshing(q),
           NEW t, BeingRotated(t), t = op[q].token
    PROVE  pc[q] = "save" /\ op[q].kind = "refresh"
<1>1. PICK p \in Request : Refreshing(p) /\ pc[p] = "save" /\ op[p].token = t
      BY RotatedFacts
<1>2. SessionOf(p) = SessionOf(q)
      BY <1>1 DEF SessionOf
<1>3. p = q
      BY <1>1, <1>2 DEF Rotation, HoldersApart
<1> QED BY <1>1, <1>3, RefreshingFacts

LEMMA HoldingStored ==
    ASSUME Inv, NEW t \in Holding PROVE t \in Token /\ Stored(t)
BY RotatedFacts DEF Holding, Live

\* Two holders of a session are one.
LEMMA HoldersOnce ==
    ASSUME Inv, Rotation, NEW t \in Holding, NEW x \in Holding,
           tokens[t].session = tokens[x].session
    PROVE  t = x
<1>1. ASSUME NEW a \in Holding, NEW b \in Holding, BeingRotated(a),
             tokens[a].session = tokens[b].session
      PROVE  a = b
  <2>1. PICK q \in Request : Refreshing(q) /\ pc[q] = "save" /\ op[q].token = a
        BY <1>1, RotatedFacts
  <2>2. ~Live(a) /\ b \in Token /\ Stored(b) /\ InSession(b, SessionOf(q))
        BY <1>1, <2>1, RefreshingFacts, HoldingStored DEF InSession, SessionOf
  <2>3. CASE Live(b)
        BY <2>1, <2>2, <2>3 DEF Rotation, SoleHolder
  <2>4. CASE BeingRotated(b)
    <3>1. PICK p \in Request : Refreshing(p) /\ op[p].token = b
          BY <2>4, RotatedFacts
    <3>2. SessionOf(p) = SessionOf(q)
          BY <1>1, <2>1, <3>1 DEF SessionOf
    <3> QED BY <2>1, <3>1, <3>2 DEF Rotation, HoldersApart
  <2> QED BY <2>3, <2>4 DEF Holding
<1>2. CASE BeingRotated(t)
      BY <1>1, <1>2
<1>3. CASE BeingRotated(x)
      BY <1>1, <1>3
<1>4. CASE Live(t) /\ Live(x)
  <2>1. t \in Token /\ x \in Token
        BY HoldingStored
  <2> QED BY <1>4, <2>1 DEF Rotation, OneLiveTokenPerSession
<1> QED BY <1>2, <1>3, <1>4 DEF Holding

\* What is left of the holders, where rows stay.
LEMMA LedgerStays ==
    ASSUME Inv, Grows, Used' = Used, Holding' = Holding
    PROVE  UNCHANGED Ledger!LedgerVars
<1>1. \A t \in Holding : tokens'[t].session = tokens[t].session
      BY HoldingStored DEF Grows, Stored
<1>2. {<<tokens'[t].session, t>> : t \in Holding'} = {<<tokens[t].session, t>> : t \in Holding}
      BY <1>1
<1> QED BY <1>2 DEF Ledger!LedgerVars, Used

LEMMA LedgerEnds ==
    ASSUME Inv, Rotation, Grows, Used' = Used, NEW t \in Holding, Holding' = Holding \ {t}
    PROVE  Ledger!LedgerNext
<1>1. \A x \in Holding : tokens'[x].session = tokens[x].session
      BY HoldingStored DEF Grows, Stored
<1>2. tokens[t].session \in Token
      BY HoldingStored DEF Rotation, SessionsRooted
<1>3. PICK s \in Token : s = tokens[t].session
      BY <1>2
<1>4. \A x \in Holding : x # t => tokens[x].session # s
      BY <1>3, HoldersOnce
<1>5. {<<tokens'[x].session, x>> : x \in Holding'}
         = {p \in {<<tokens[x].session, x>> : x \in Holding} : p[1] # s}
  <2>1. \A x \in Holding' : tokens'[x].session = tokens[x].session /\ tokens[x].session # s
        BY <1>1, <1>4
  <2>2. \A x \in Holding : tokens[x].session # s => x \in Holding'
        BY <1>3
  <2> QED BY <2>1, <2>2
<1>6. Ledger!End(s)
      BY <1>5 DEF Ledger!End, Ledger!Others, Used
<1> QED BY <1>6 DEF Ledger!LedgerNext

LEMMA LedgerEndsAll ==
    ASSUME Inv, Rotation, Grows, Used' = Used, NEW u \in User,
           Holding' = {t \in Holding : t.user # u}
    PROVE  Ledger!LedgerNext
<1>1. \A x \in Holding : tokens'[x].session = tokens[x].session
      BY HoldingStored DEF Grows, Stored
<1>2. \A x \in Holding : tokens[x].session.user = x.user
      BY HoldingStored DEF Rotation, SessionsRooted
<1>3. {<<tokens'[x].session, x>> : x \in Holding'}
         = {p \in {<<tokens[x].session, x>> : x \in Holding} : p[1].user # u}
      BY <1>1, <1>2
<1>4. Ledger!EndAll(u)
      BY <1>3 DEF Ledger!EndAll, Used
<1> QED BY <1>4 DEF Ledger!LedgerNext

\* A request at any other await than its save keeps the ledger, if it revokes
\* nothing: so do the steps outside the requests.
LEMMA RotatedSame ==
    ASSUME NEW r \in Request, op' = op,
           \A q \in Request \ {r} : pc'[q] = pc[q],
           pc'[r] = "save" /\ op[r].kind = "refresh" <=> pc[r] = "save" /\ op[r].kind = "refresh"
    PROVE  \A t : BeingRotated(t)' <=> BeingRotated(t)
BY DEF BeingRotated

LEMMA QuietLedger ==
    ASSUME Inv, tokens' = tokens, \A t : BeingRotated(t)' <=> BeingRotated(t)
    PROVE  UNCHANGED Ledger!LedgerVars
<1>1. Used' = Used /\ Holding' = Holding
      BY DEF Used, Holding, Live, Stored
<1> QED BY <1>1, SameGrows, LedgerStays

\* A handler that leaves its save, or fails there, lets go of what it rotated.
LEMMA SaveLeft ==
    ASSUME Inv, Rotation, NEW r \in Request, Moves(r), pc[r] = "save", pc'[r] = "done"
    PROVE  \A t : BeingRotated(t)' <=>
                     BeingRotated(t) /\ ~(op[r].kind = "refresh" /\ t = op[r].token)
<1>1. ASSUME NEW t, BeingRotated(t)' PROVE BeingRotated(t) /\ ~(op[r].kind = "refresh" /\ t = op[r].token)
  <2>1. PICK q \in Request : pc'[q] = "save" /\ op[q].kind = "refresh" /\ op[q].token = t
        BY <1>1 DEF BeingRotated, Moves
  <2>2. q # r /\ pc[q] = "save"
        BY <2>1 DEF Moves
  <2>3. BeingRotated(t)
        BY <2>1, <2>2 DEF BeingRotated
  <2>4. ASSUME op[r].kind = "refresh" PROVE op[r].token # t
    <3>1. Refreshing(q) /\ Refreshing(r)
          BY <2>1, <2>2, <2>4 DEF Refreshing
    <3> QED BY <2>1, <2>2, <3>1 DEF Rotation, HoldersApart, SessionOf
  <2> QED BY <2>3, <2>4
<1>2. ASSUME NEW t, BeingRotated(t), ~(op[r].kind = "refresh" /\ t = op[r].token)
      PROVE  BeingRotated(t)'
  <2>1. PICK q \in Request : pc[q] = "save" /\ op[q].kind = "refresh" /\ op[q].token = t
        BY <1>2 DEF BeingRotated
  <2>2. q # r
        BY <1>2, <2>1
  <2> QED BY <2>1, <2>2 DEF BeingRotated, Moves
<1> QED BY <1>1, <1>2

\* The save that stores nothing: the session of a refresh ends with it.
LEMMA SaveRefusedLedger ==
    ASSUME Inv, Rotation, NEW r \in Request, Moves(r), pc[r] = "save", pc'[r] = "done",
           tokens' = tokens
    PROVE  [Ledger!LedgerNext]_(Ledger!LedgerVars)
<1>1. CASE op[r].kind # "refresh"
  <2>1. \A t : BeingRotated(t)' <=> BeingRotated(t)
        BY <1>1, SaveLeft
  <2> QED BY <2>1, QuietLedger
<1>2. CASE op[r].kind = "refresh"
  <2> DEFINE t == op[r].token
  <2>1. t \in Token /\ Stored(t) /\ ~Live(t) /\ BeingRotated(t)
    <3>1. t \in Token /\ Stored(t) /\ ~Live(t)
          BY <1>2, RefreshingFacts DEF Refreshing
    <3> QED BY <1>2, <3>1 DEF BeingRotated
  <2>2. Used' = Used /\ t \in Holding
        BY <2>1 DEF Used, Stored, Holding
  <2>3. \A x : Live(x)' <=> Live(x)
        BY DEF Live, Stored
  <2>4. Holding' = Holding \ {t}
    <3>1. \A x : BeingRotated(x)' <=> BeingRotated(x) /\ x # t
          BY <1>2, SaveLeft
    <3> HIDE DEF t
    <3> QED BY <2>1, <2>3, <3>1 DEF Holding
  <2> HIDE DEF t
  <2>5. Ledger!LedgerNext
        BY <2>2, <2>4, SameGrows, LedgerEnds
  <2> QED BY <2>5
<1> QED BY <1>1, <1>2

\* The save that stores its token opens a session or rotates one.
LEMMA SaveStoredLedger ==
    ASSUME Inv, Rotation, NEW r \in Request, SaveToken(r), tokens' # tokens
    PROVE  Ledger!LedgerNext
<1> DEFINE refresh == op[r].kind = "refresh"
<1>0. SessionsRooted
      BY DEF Rotation
<1>1. PICK t \in Token : t = minted[r]
      BY <1>0, SaveTokenRow
<1>2. PICK s \in Token : s = IF refresh THEN tokens[op[r].token].session ELSE t
      BY <1>0, <1>1, SaveTokenRow
<1>3. /\ Moves(r) /\ pc[r] = "save" /\ pc'[r] = "done" /\ Grows
      /\ tokens[t] = Null /\ s.user = t.user
      /\ tokens'[t] # Null /\ tokens'[t].session = s /\ ~tokens'[t].revoked
      /\ \A x \in Token \ {t} : tokens'[x] = tokens[x]
      BY <1>0, <1>1, <1>2, SaveTokenRow
<1>4. t # Null /\ t \notin Used /\ Used' = Used \cup {t}
      BY <1>3, SessionsAssumption DEF Used, Stored
<1>5. \A x \in Holding : x \in Token /\ tokens[x] # Null /\ tokens'[x].session = tokens[x].session
      BY <1>3, HoldingStored DEF Grows, Stored
<1>6. \A x : BeingRotated(x)' <=> BeingRotated(x) /\ ~(refresh /\ x = op[r].token)
      BY <1>3, SaveLeft
<1>7. \A x \in Token : x # t => (Live(x)' <=> Live(x))
      BY <1>3 DEF Live, Stored
<1>8. Live(t)' /\ ~Live(t) /\ ~BeingRotated(t)
  <2>1. Live(t)' /\ ~Live(t)
        BY <1>3, <1>4 DEF Live, Stored
  <2> QED BY <1>3, <2>1, RotatedFacts DEF Stored
<1>9. CASE ~refresh
  <2>1. Holding' = Holding \cup {t}
    <3> HIDE DEF refresh
    <3> QED BY <1>6, <1>7, <1>8, <1>9 DEF Holding
  <2>2. s = t
        BY <1>2, <1>9
  <2>3. {<<tokens'[x].session, x>> : x \in Holding'}
           = {<<tokens[x].session, x>> : x \in Holding} \cup {<<t, t>>}
        BY <1>3, <1>5, <2>1, <2>2
  <2>4. Ledger!Open(t)
        BY <1>4, <2>3 DEF Ledger!Open, Used
  <2> QED BY <2>4 DEF Ledger!LedgerNext
<1>10. CASE refresh
  <2>1. PICK old \in Token : old = op[r].token
        BY <1>3, <1>10, RefreshingFacts DEF Refreshing
  <2>2. BeingRotated(old) /\ tokens[old].session = s
        BY <1>2, <1>3, <1>10, <2>1 DEF BeingRotated
  <2>3. old \in Holding /\ ~Live(old) /\ old # t
    <3>1. Stored(old)
          BY <2>2, RotatedFacts
    <3>2. ~Live(old)
          BY <1>3, <1>10, <2>1, RefreshingFacts DEF Refreshing
    <3> QED BY <1>3, <2>2, <3>1, <3>2 DEF Holding, Stored
  <2>4. Holding' = (Holding \ {old}) \cup {t}
    <3>1. \A x : BeingRotated(x)' <=> BeingRotated(x) /\ x # old
          BY <1>6, <1>10, <2>1
    <3> HIDE DEF refresh
    <3> QED BY <1>7, <1>8, <2>3, <3>1 DEF Holding
  <2>5. \A x \in Holding : x # old => tokens[x].session # s
        BY <2>2, <2>3, HoldersOnce
  <2>6. {<<tokens'[x].session, x>> : x \in Holding'}
           = {p \in {<<tokens[x].session, x>> : x \in Holding} : p[1] # s} \cup {<<s, t>>}
    <3>1. \A x \in Holding' : \/ x = t /\ tokens'[x].session = s
                              \/ /\ x \in Holding /\ tokens'[x].session = tokens[x].session
                                 /\ tokens[x].session # s
          BY <1>3, <1>5, <2>4, <2>5
    <3>2. \A x \in Holding : tokens[x].session # s => x \in Holding'
          BY <2>2, <2>4
    <3>3. t \in Holding'
          BY <2>4
    <3>4. \A x \in Holding : tokens'[x].session = tokens[x].session
          BY <1>5
    <3>5. tokens'[t].session = s
          BY <1>3
    <3> QED BY <3>1, <3>2, <3>3, <3>4, <3>5
  <2>7. {p \in {<<tokens[x].session, x>> : x \in Holding} : p[1] # s}
           # {<<tokens[x].session, x>> : x \in Holding}
    <3> DEFINE pairs == {<<tokens[x].session, x>> : x \in Holding}
    <3>1. <<s, old>> \in pairs
          BY <2>2, <2>3
    <3> HIDE DEF pairs
    <3>2. <<s, old>> \notin {p \in pairs : p[1] # s}
          OBVIOUS
    <3>3. pairs # {p \in pairs : p[1] # s}
          BY <3>1, <3>2
    <3> QED BY <3>3 DEF pairs
  <2>8. Ledger!Rotate(s, t)
        BY <1>3, <1>4, <2>6, <2>7 DEF Ledger!Rotate, Ledger!Others, Used
  <2> QED BY <2>8 DEF Ledger!LedgerNext
<1> QED BY <1>9, <1>10

LEMMA RevokePresentedLedger ==
    ASSUME Inv, ExchangesLive, NEW r \in Request, RevokePresented(r)
    PROVE  UNCHANGED Ledger!LedgerVars
<1>0. pc[r] = "revoke" /\ op[r].token \in Token
      BY RefreshingFacts DEF RevokePresented, Refreshing
<1> PICK t \in Token : t = op[r].token
    BY <1>0
<1>1. /\ pc[r] = "revoke" /\ op' = op /\ Revoke({t}) /\ t = op[r].token
      /\ Await(r, "save", Null)
      BY DEF RevokePresented
<1>2. Moves(r) /\ pc'[r] = "save"
      BY <1>1, AwaitMoves DEF Step
<1>3. op[r].kind = "refresh" /\ t \in Token /\ Stored(t) /\ Live(t)
      BY <1>1, RefreshingFacts DEF Refreshing, ExchangesLive
<1>4. /\ Grows
      /\ \A x \in Token : tokens'[x] # Null => tokens[x] # Null
      /\ \A x \in Token : x # t => tokens'[x] = tokens[x]
      BY <1>1, RevokeOnly
<1>5. BeingRotated(t)'
      BY <1>1, <1>2, <1>3 DEF BeingRotated
<1>6. \A x : x # t => (BeingRotated(x)' <=> BeingRotated(x))
      BY <1>1, <1>2 DEF BeingRotated, Moves
<1>7. Used' = Used
      BY <1>4 DEF Used, Stored, Grows
<1>8. Holding' = Holding
  <2>1. \A x \in Token : x # t => (Live(x)' <=> Live(x))
        BY <1>4 DEF Live, Stored
  <2> QED BY <1>3, <1>5, <1>6, <2>1 DEF Holding
<1> QED BY <1>4, <1>7, <1>8, LedgerStays

\* The two revocations take their tokens from whoever holds them.
LEMMA RevokedLedger ==
    ASSUME Inv, Rotation, NEW r \in Request, NEW matching \in SUBSET Token,
           Revoke(matching), Moves(r), pc[r] # "save", pc'[r] = "done",
           \A t \in matching : ~BeingRotated(t)
    PROVE  Grows /\ Used' = Used /\ Holding' = Holding \ matching
<1>1. /\ Grows
      /\ \A t \in Token : tokens'[t] # Null => tokens[t] # Null
      /\ \A t \in Token : t \notin matching => tokens'[t] = tokens[t]
      /\ \A t \in Token : t \in matching /\ tokens[t] # Null => tokens'[t].revoked
      BY RevokeOnly
<1>2. Used' = Used
      BY <1>1 DEF Used, Stored, Grows
<1>3. \A t : BeingRotated(t)' <=> BeingRotated(t)
      BY RotatedSame DEF Moves
<1>4. \A t \in Token : Live(t)' <=> Live(t) /\ t \notin matching
      BY <1>1 DEF Live, Stored
<1>5. Holding' = Holding \ matching
      BY <1>3, <1>4 DEF Holding
<1> QED BY <1>1, <1>2, <1>5

LEMMA LogoutLedger ==
    ASSUME Inv, Rotation, LogoutsApart, NEW r \in Request, Logout(r)
    PROVE  [Ledger!LedgerNext]_(Ledger!LedgerVars)
<1> DEFINE t == op[r].token
<1>1. /\ pc[r] = "logout" /\ op' = op /\ Revoke({t})
      /\ \E status \in {200, 500} : Answer(r, status)
      BY DEF Logout, Acknowledge
<1>2. Moves(r) /\ pc'[r] = "done"
      BY <1>1, AnswerMoves
<1>3. t = Null \/ t \in Token
      BY <1>1 DEF Inv, RequestInv, CommandInv, Command
<1>4. PICK matching \in SUBSET Token : matching = {t} \cap Token
      OBVIOUS
<1>5. Revoke(matching)
      BY <1>1, <1>4 DEF Revoke
<1>6. \A x \in matching : ~BeingRotated(x)
      BY <1>1, <1>4, LogoutAlone, RotatedFacts
<1>7. Grows /\ Used' = Used /\ Holding' = Holding \ matching
      BY <1>1, <1>2, <1>5, <1>6, RevokedLedger
<1> HIDE DEF t
<1>8. CASE t \in Holding
  <2>1. Holding' = Holding \ {t}
        BY <1>4, <1>7, <1>8, HoldingStored
  <2> QED BY <1>7, <1>8, <2>1, LedgerEnds
<1>9. CASE t \notin Holding
      BY <1>4, <1>7, <1>9, LedgerStays
<1> QED BY <1>8, <1>9

LEMMA LogoutAllLedger ==
    ASSUME Inv, Rotation, LogoutAllsApart, NEW r \in Request, LogoutAll(r)
    PROVE  Ledger!LedgerNext
<1>1. /\ pc[r] = "logoutAll" /\ op' = op
      /\ Revoke({t \in Token : t.user = op[r].who})
      /\ \E status \in {200, 500} : Answer(r, status)
      BY DEF LogoutAll, Acknowledge
<1>2. Moves(r) /\ pc'[r] = "done"
      BY <1>1, AnswerMoves
<1>3. PICK u \in User : u = op[r].who
      BY <1>1 DEF Inv, RequestInv, CommandInv, Command
<1>4. PICK matching \in SUBSET Token : matching = {t \in Token : t.user = u}
      OBVIOUS
<1>5. Grows /\ Used' = Used /\ Holding' = Holding \ matching
  <2>1. Revoke(matching) /\ \A t \in matching : ~BeingRotated(t)
        BY <1>1, <1>3, <1>4, LogoutAllAlone, RotatedFacts
  <2> QED BY <1>1, <1>2, <2>1, RevokedLedger
<1>6. Holding' = {t \in Holding : t.user # u}
      BY <1>4, <1>5, HoldingStored
<1> QED BY <1>5, <1>6, LedgerEndsAll

LEMMA SubmitLedger ==
    ASSUME Inv, NEW r \in Request, Arrives(r)
    PROVE  UNCHANGED Ledger!LedgerVars
<1>1. \E c : \E step \in {"create", "read", "find", "guard"} : Submit(r, c, step)
      BY Arrival
<1>2. /\ pc[r] = "idle" /\ tokens' = tokens /\ pc'[r] # "save"
      /\ \A q \in Request \ {r} : op'[q] = op[q] /\ pc'[q] = pc[q]
      BY <1>1, ArrivalFacts
<1>3. \A t : BeingRotated(t)' <=> BeingRotated(t)
      BY <1>2 DEF BeingRotated
<1> QED BY <1>2, <1>3, QuietLedger

\* A step that stores and revokes nothing: at a save it is the failure of the
\* statement.
LEMMA ReadsLedger ==
    ASSUME Inv, Rotation, NEW r \in Request, Reads(r) \/ FindToken(r)
    PROVE  [Ledger!LedgerNext]_(Ledger!LedgerVars)
<1>1. /\ Moves(r) /\ op' = op /\ tokens' = tokens
      /\ Refreshing(r)' => pc'[r] \in {"user", "revoke"}
      BY ReadsMove, FindMoves DEF Moves
<1>2. CASE pc[r] = "save"
  <2>1. StatementFails(r)
        BY <1>2 DEF Reads, CreateUser, ReadAccount, ComparePassword, FindOwner, Authenticate,
                    FindToken
  <2>2. pc'[r] = "done"
        BY <1>1, <1>2, <2>1, AnswerMoves DEF StatementFails
  <2> QED BY <1>1, <1>2, <2>2, SaveRefusedLedger
<1>3. CASE pc[r] # "save"
  <2>1. ~(pc'[r] = "save" /\ op[r].kind = "refresh")
        BY <1>1 DEF Refreshing
  <2>2. \A t : BeingRotated(t)' <=> BeingRotated(t)
        BY <1>1, <1>3, <2>1, RotatedSame DEF Moves
  <2> QED BY <1>1, <2>2, QuietLedger
<1> QED BY <1>2, <1>3

LEMMA NextLedger ==
    Inv /\ Rotation /\ ExchangesLive /\ LogoutsApart /\ LogoutAllsApart /\ [Next]_vars
        => [Ledger!LedgerNext]_(Ledger!LedgerVars)
<1> SUFFICES ASSUME Inv, Rotation, ExchangesLive, LogoutsApart, LogoutAllsApart, [Next]_vars
             PROVE  [Ledger!LedgerNext]_(Ledger!LedgerVars)
    OBVIOUS
<1>1. ASSUME NEW r \in Request, Reads(r) \/ FindToken(r)
      PROVE  [Ledger!LedgerNext]_(Ledger!LedgerVars)
      BY <1>1, ReadsLedger
<1>2. ASSUME NEW r \in Request, Revokes(r) PROVE [Ledger!LedgerNext]_(Ledger!LedgerVars)
      BY <1>2, RevokePresentedLedger, LogoutLedger, LogoutAllLedger DEF Revokes
<1>3. ASSUME NEW r \in Request, SaveToken(r) PROVE [Ledger!LedgerNext]_(Ledger!LedgerVars)
      BY <1>3, SaveRefused, SaveRefusedLedger, SaveStoredLedger
<1>4. ASSUME NEW r \in Request, Arrives(r) PROVE UNCHANGED Ledger!LedgerVars
      BY <1>4, SubmitLedger
<1>5. CASE Passes
  <2>1. \A t : BeingRotated(t)' <=> BeingRotated(t)
        BY <1>5 DEF BeingRotated, Passes
  <2> QED BY <1>5, <2>1, QuietLedger DEF Passes
<1> QED BY <1>1, <1>2, <1>3, <1>4, <1>5, Steps

LEMMA InitLedger == Init => Ledger!LedgerInit
<1> SUFFICES ASSUME Init PROVE Ledger!LedgerInit
    OBVIOUS
<1>1. Holding = {} /\ Used = {}
      BY DEF Init, Holding, Used, BeingRotated, Live, Stored
<1> QED BY <1>1 DEF Ledger!LedgerInit, Used

\* The auth module implements the ledger: it opens, rotates and ends sessions in
\* single steps, whichever statements of its handlers fail, where no two
\* refreshes of one token overlap, and no refresh a logout of its token or a
\* logout-all of its user.
THEOREM OverlapsImplementLedger ==
    Spec /\ []RefreshesApart /\ []LogoutsApart /\ []LogoutAllsApart => LedgerSpec
BY InitInv, InitRotation, InitExchanges, InitLedger, NextInv, NextRotation, NextExchanges,
   NextLedger, PTL DEF Spec, LedgerSpec, Ledger!LedgerSpec
=============================================================================
