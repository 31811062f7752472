------------------------------ MODULE Sessions ------------------------------
(***************************************************************************)
(* The auth module: refresh tokens in the "refresh_tokens" table, and the  *)
(* requests that issue, exchange and revoke them, one step per awaited     *)
(* statement (its effect and the code that runs until the next one).       *)
(*                                                                         *)
(* A refresh token is a signed JWT of {sub, email, role, iat, exp} with no *)
(* random part, and e-mails never change: two tokens signed for one user   *)
(* and role within one second are the same string.  A Token is therefore   *)
(* a record of user, role and second.                                      *)
(***************************************************************************)
EXTENDS Naturals

CONSTANTS
    User,              \* ids of the users
    Request,           \* the requests clients may send, one slot each
    Null,              \* no account, no row, or a string that is no token
    Lifetime,          \* seconds a refresh token lives (7 days)
    MaxTime,           \* the second at which the model's clock stops
    StatementsMayFail  \* whether a database statement may fail

Role == {"USER", "ADMIN"}
Account == [role : Role, active : BOOLEAN]
Token == [user : User, role : Role, iat : 0 .. MaxTime]

\* A row of refresh_tokens.  session is a history variable: the token the
\* login or registration issued, of which this one descends by refreshes.
TokenRow == [session : Token, revoked : BOOLEAN]

ASSUME SessionsAssumption ==
    /\ Lifetime \in Nat /\ MaxTime \in Nat
    /\ StatementsMayFail \in BOOLEAN
    /\ Null \notin Account /\ Null \notin Token /\ Null \notin TokenRow

VARIABLES
    clock,    \* the current second
    account,  \* the user module's table, as far as this module reads it
    tokens,   \* the "refresh_tokens" table, by its UNIQUE column token
    op,       \* op[r]: the request's inputs, Null before it arrives
    pc,       \* pc[r]: the await the request is suspended at
    held,     \* held[r]: the User the handler read
    minted,   \* minted[r]: the refresh token it signed
    answer,   \* answer[r]: HTTP status, 0 while there is none
    barred    \* history: requests whose user has been disabled since they arrived

vars == <<clock, account, tokens, op, pc, held, minted, answer, barred>>

Stored(t) == t # Null /\ tokens[t] # Null
Live(t) == Stored(t) /\ ~tokens[t].revoked

ExpiresAt(t) == t.iat + Lifetime

ActiveUser(u) == account[u] # Null /\ account[u].active

Disabled(u) == account[u] # Null /\ ~account[u].active

\* Tokens that cannot be exchanged any more, or never could.
Dead(t) == ~Live(t) \/ clock > ExpiresAt(t)

SessionsOf(u) == {tokens[t].session : t \in {t \in Token : Stored(t) /\ t.user = u}}

-----------------------------------------------------------------------------
(* Requests.  Two of their fields are history too, and record the state a  *)
(* request arrived in: dead, that it is a refresh of a dead token, and     *)
(* ended, the sessions a logoutAll found.                                  *)

Command == [kind : {"register", "login", "refresh", "logout", "logoutAll"},
            who : User, token : Token \cup {Null},
            dead : BOOLEAN, ended : SUBSET Token]

ASSUME CommandAssumption == Null \notin Command

Plain(kind, u, t) ==
    [kind |-> kind, who |-> u, token |-> t, dead |-> FALSE, ended |-> {}]

InFlight == {r \in Request : pc[r] \notin {"idle", "done"}}

Step == {"idle", "create", "read", "compare", "find", "user", "revoke",
         "save", "guard", "logout", "logoutAll", "done"}

-----------------------------------------------------------------------------
(* How a handler moves on, or answers and forgets its locals. *)

Await(r, step, user) == /\ pc' = [pc EXCEPT ![r] = step]
                        /\ held' = [held EXCEPT ![r] = user]
                        /\ UNCHANGED answer

Answer(r, status) == /\ pc' = [pc EXCEPT ![r] = "done"]
                     /\ held' = [held EXCEPT ![r] = Null]
                     /\ answer' = [answer EXCEPT ![r] = status]

\* A statement took effect; its acknowledgement may be lost all the same.
Acknowledge(r, status) ==
    Answer(r, status) \/ (StatementsMayFail /\ Answer(r, 500))

\* generateTokens up to its await: sign the payload, at the current second.
Mint(r, u, role) ==
    minted' = [minted EXCEPT ![r] = [user |-> u, role |-> role, iat |-> clock]]

\* Mutant: a revoked row is deleted.
RevokeByDelete(matching) ==
    tokens' = [t \in Token |-> IF t \in matching THEN Null ELSE tokens[t]]

\* UPDATE refresh_tokens SET isRevoked = true WHERE ... : the rows it matches.
Revoke(matching) ==
    tokens' = [t \in Token |-> IF tokens[t] # Null /\ t \in matching
                               THEN [tokens[t] EXCEPT !.revoked = TRUE]
                               ELSE tokens[t]]

-----------------------------------------------------------------------------
Init ==
    /\ clock = 0
    /\ account \in [User -> {Null, [role |-> "USER", active |-> TRUE]}]
    /\ tokens = [t \in Token |-> Null]
    /\ op = [r \in Request |-> Null]
    /\ pc = [r \in Request |-> "idle"]
    /\ held = [r \in Request |-> Null]
    /\ minted = [r \in Request |-> Null]
    /\ answer = [r \in Request |-> 0]
    /\ barred = {}

Submit(r, c, step) ==
    /\ pc[r] = "idle"
    /\ op' = [op EXCEPT ![r] = c]
    /\ barred' = IF Disabled(c.who) THEN barred \cup {r} ELSE barred
    /\ Await(r, step, Null)
    /\ UNCHANGED <<clock, account, tokens, minted>>

\* POST /auth/register of an address that is free; uuids do not repeat.
SubmitRegister(r, u) ==
    /\ account[u] = Null
    /\ \A s \in Request : pc[s] # "idle" /\ op[s].kind = "register" => op[s].who # u
    /\ Submit(r, Plain("register", u, Null), "create")

SubmitLogin(r, u) ==
    Submit(r, Plain("login", u, Null), "read")

\* POST /auth/refresh is public: anyone may present any string.
SubmitRefresh(r, u, t) ==
    /\ t # Null => Stored(t) /\ t.user = u
    /\ Submit(r, [Plain("refresh", u, t) EXCEPT !.dead = Dead(t)], "find")

\* The caller of logout holds an access token, and names any refresh token.
SubmitLogout(r, u, t) ==
    /\ account[u] # Null
    /\ t # Null => Stored(t)
    /\ Submit(r, Plain("logout", u, t), "guard")

SubmitLogoutAll(r, u) ==
    /\ account[u] # Null
    /\ Submit(r, [Plain("logoutAll", u, Null) EXCEPT !.ended = SessionsOf(u)], "guard")

\* createUser, for which see Users; then sign.
CreateUser(r) ==
    LET u == op[r].who IN
        /\ pc[r] = "create"
        /\ account' = [account EXCEPT ![u] = [role |-> "USER", active |-> TRUE]]
        /\ Mint(r, u, "USER")
        /\ Await(r, "save", Null)
        /\ UNCHANGED <<clock, tokens, op, barred>>

\* login: findByEmail.
ReadAccount(r) ==
    LET user == account[op[r].who] IN
        /\ pc[r] = "read"
        /\ IF user = Null THEN Answer(r, 401) ELSE Await(r, "compare", user)
        /\ UNCHANGED <<clock, account, tokens, op, minted, barred>>

\* login: bcrypt.compare, then the checks on the user read before it, and sign.
ComparePassword(r) ==
    /\ pc[r] = "compare"
    /\ \E isPasswordValid \in BOOLEAN :
          IF ~isPasswordValid THEN Answer(r, 401) /\ UNCHANGED minted
          ELSE IF ~held[r].active THEN Answer(r, 401) /\ UNCHANGED minted
          ELSE Mint(r, op[r].who, held[r].role) /\ Await(r, "save", Null)
    /\ UNCHANGED <<clock, account, tokens, op, barred>>

\* Mutant: isValid is not asked.
FindTokenUnchecked(r) ==
    /\ pc[r] = "find"
    /\ IF Stored(op[r].token) THEN Await(r, "user", Null) ELSE Answer(r, 401)
    /\ UNCHANGED <<clock, account, tokens, op, minted, barred>>

\* refreshTokens: findRefreshToken and isValid.  expiresAt has milliseconds:
\* within its second the comparison can go either way.
FindToken(r) ==
    LET t == op[r].token IN
        /\ pc[r] = "find"
        /\ \/ Live(t) /\ clock <= ExpiresAt(t) /\ Await(r, "user", Null)
           \/ ~(Live(t) /\ clock < ExpiresAt(t)) /\ Answer(r, 401)
        /\ UNCHANGED <<clock, account, tokens, op, minted, barred>>

\* Mutant: the presented token is not revoked.
FindOwnerAndSign(r) ==
    LET u == op[r].token.user IN
        /\ pc[r] = "user"
        /\ IF ~ActiveUser(u)
           THEN Answer(r, 401) /\ UNCHANGED minted
           ELSE Mint(r, u, account[u].role) /\ Await(r, "save", Null)
        /\ UNCHANGED <<clock, account, tokens, op, barred>>

\* refreshTokens: findById of the owner.
FindOwner(r) ==
    LET u == op[r].token.user IN
        /\ pc[r] = "user"
        /\ IF ~ActiveUser(u) THEN Answer(r, 401) ELSE Await(r, "revoke", account[u])
        /\ UNCHANGED <<clock, account, tokens, op, minted, barred>>

\* refreshTokens: revoke the presented token, then sign.
RevokePresented(r) ==
    LET t == op[r].token IN
        /\ pc[r] = "revoke"
        /\ Revoke({t})
        /\ Mint(r, t.user, held[r].role)
        /\ Await(r, "save", Null)
        /\ UNCHANGED <<clock, account, op, barred>>

\* Mutant: the row is updated where the token is already stored.
SaveTokenUpsert(r) ==
    LET t == minted[r]
        session == IF op[r].kind = "refresh" THEN tokens[op[r].token].session ELSE t
    IN  /\ pc[r] = "save"
        /\ tokens' = [tokens EXCEPT ![t] = [session |-> session, revoked |-> FALSE]]
        /\ Answer(r, IF op[r].kind = "register" THEN 201 ELSE 200)
        /\ UNCHANGED <<clock, account, op, minted, barred>>

\* Mutant: the save is not awaited.
SaveTokenUnawaited(r) ==
    LET t == minted[r]
        session == IF op[r].kind = "refresh" THEN tokens[op[r].token].session ELSE t
    IN  /\ pc[r] = "save"
        /\ \/ UNCHANGED tokens
           \/ /\ tokens[t] = Null
              /\ tokens' = [tokens EXCEPT ![t] = [session |-> session, revoked |-> FALSE]]
        /\ Answer(r, IF op[r].kind = "register" THEN 201 ELSE 200)
        /\ UNCHANGED <<clock, account, op, minted, barred>>

\* saveRefreshToken: a new uuid, so an INSERT, which UNIQUE(token) may refuse.
SaveToken(r) ==
    LET t == minted[r]
        session == IF op[r].kind = "refresh" THEN tokens[op[r].token].session ELSE t
    IN  /\ pc[r] = "save"
        /\ IF tokens[t] # Null
           THEN Answer(r, 500) /\ UNCHANGED tokens
           ELSE /\ tokens' = [tokens EXCEPT ![t] = [session |-> session, revoked |-> FALSE]]
                /\ Acknowledge(r, IF op[r].kind = "register" THEN 201 ELSE 200)
        /\ UNCHANGED <<clock, account, op, minted, barred>>

\* JwtStrategy.validate of the caller's access token.
Authenticate(r) ==
    /\ pc[r] = "guard"
    /\ IF ActiveUser(op[r].who) THEN Await(r, op[r].kind, Null) ELSE Answer(r, 401)
    /\ UNCHANGED <<clock, account, tokens, op, minted, barred>>

Logout(r) ==
    /\ pc[r] = "logout"
    /\ Revoke({op[r].token})
    /\ Acknowledge(r, 200)
    /\ UNCHANGED <<clock, account, op, minted, barred>>

\* Mutant: only one of the rows is updated.
LogoutAllOne(r) ==
    /\ pc[r] = "logoutAll"
    /\ \E t \in Token : t.user = op[r].who /\ Revoke({t})
    /\ Answer(r, 200)
    /\ UNCHANGED <<clock, account, op, minted, barred>>

LogoutAll(r) ==
    /\ pc[r] = "logoutAll"
    /\ Revoke({t \in Token : t.user = op[r].who})
    /\ Acknowledge(r, 200)
    /\ UNCHANGED <<clock, account, op, minted, barred>>

\* An awaited statement fails and the filter answers 500; a crash of the
\* process abandons its requests in the same states.
StatementFails(r) ==
    /\ StatementsMayFail
    /\ r \in InFlight
    /\ Answer(r, 500)
    /\ UNCHANGED <<clock, account, tokens, op, minted, barred>>

Tick ==
    /\ clock < MaxTime
    /\ clock' = clock + 1
    /\ UNCHANGED <<account, tokens, op, pc, held, minted, answer, barred>>

\* The user module writes the account: its role, or whether it is active.  A
\* disabled account cannot authenticate, but a PATCH that already did can still
\* enable it again.
ChangeAccount(u, user) ==
    /\ account[u] # Null
    /\ account' = [account EXCEPT ![u] = user]
    /\ barred' = IF user.active THEN {r \in barred : op[r].who # u} ELSE barred
    /\ UNCHANGED <<clock, tokens, op, pc, held, minted, answer>>

Proceed(r) ==
    \/ CreateUser(r)
    \/ ReadAccount(r)
    \/ ComparePassword(r)
    \/ FindToken(r)
    \/ FindOwner(r)
    \/ RevokePresented(r)
    \/ SaveToken(r)
    \/ Authenticate(r)
    \/ Logout(r)
    \/ LogoutAll(r)

Next ==
    \/ \E r \in Request :
          \/ \E u \in User :
                \/ SubmitRegister(r, u)
                \/ SubmitLogin(r, u)
                \/ SubmitLogoutAll(r, u)
                \/ \E t \in Token \cup {Null} : SubmitRefresh(r, u, t) \/ SubmitLogout(r, u, t)
          \/ Proceed(r)
          \/ StatementFails(r)
    \/ Tick
    \/ \E u \in User, user \in Account : ChangeAccount(u, user)

Spec == Init /\ [][Next]_vars

-----------------------------------------------------------------------------
(* Overlaps of requests: nothing in the code keeps two of them apart. *)

\* No two refreshes of one token are under way.
RefreshesApart ==
    \A r, s \in InFlight :
        /\ op[r].kind = "refresh" /\ op[s].kind = "refresh" /\ r # s
        /\ op[r].token = op[s].token
        => op[r].token = Null

\* No logout of a token is under way together with a refresh of it.
LogoutsApart ==
    \A r, s \in InFlight :
        /\ op[r].kind = "logout" /\ op[s].kind = "refresh"
        /\ op[r].token = op[s].token
        => op[r].token = Null

\* No logout-all is under way together with a refresh of a token of its caller.
LogoutAllsApart ==
    \A r, s \in InFlight :
        /\ op[r].kind = "logoutAll" /\ op[s].kind = "refresh"
        /\ op[s].token # Null
        => op[s].token.user # op[r].who

-----------------------------------------------------------------------------
(* What the auth module guarantees. *)

\* Every variable holds values of its type, and a suspended handler holds
\* what its next statement uses.
TypeOK ==
    /\ clock \in 0 .. MaxTime
    /\ account \in [User -> Account \cup {Null}]
    /\ tokens \in [Token -> TokenRow \cup {Null}]
    /\ op \in [Request -> Command \cup {Null}]
    /\ pc \in [Request -> Step]
    /\ held \in [Request -> Account \cup {Null}]
    /\ minted \in [Request -> Token \cup {Null}]
    /\ answer \in [Request -> {0, 200, 201, 401, 500}]
    /\ barred \subseteq Request
    /\ \A r \in Request :
          /\ pc[r] # "idle" => op[r] # Null
          /\ pc[r] \in {"compare", "revoke"} => held[r] # Null
          /\ pc[r] = "save" => minted[r] # Null
          /\ /\ pc[r] \in {"user", "revoke", "save"}
             /\ op[r].kind = "refresh"
             => Stored(op[r].token)

\* A revoked refresh token never comes back to life: not by a late save, and
\* not when the same string is signed again within its second.
RevokedForever ==
    [][\A t \in Token : Stored(t) /\ tokens[t].revoked =>
                           tokens'[t] # Null /\ tokens'[t].revoked]_vars

\* A refresh of a token that was revoked or expired when it arrived is not
\* answered with new tokens; nor is any request of an account that has been
\* disabled ever since it arrived.  Requests already under way may succeed.
HopelessRequestsFail ==
    \A r \in Request :
        pc[r] = "done" /\ (op[r].dead \/ r \in barred) => answer[r] \notin {200, 201}

\* A client is never handed a refresh token the table does not know, whichever
\* statements failed on the way, and it descends from the session it was
\* exchanged for.
IssuedTokensAreStored ==
    \A r \in Request :
        /\ answer[r] \in {200, 201}
        /\ op[r].kind \in {"register", "login", "refresh"}
        => /\ Stored(minted[r])
           /\ op[r].kind = "refresh" =>
                 /\ Stored(op[r].token)
                 /\ tokens[minted[r]].session = tokens[op[r].token].session
                 /\ minted[r].user = op[r].token.user

\* "Invalidates the specified refresh token": an answered logout has revoked
\* it, and an answered refresh the one it exchanged.
AnsweredMeansRevoked ==
    \A r \in Request :
        /\ answer[r] = 200
        /\ op[r].kind \in {"logout", "refresh"}
        /\ Stored(op[r].token)
        => tokens[op[r].token].revoked

\* Rotation: a session has at most one live refresh token.
OneLiveTokenPerSession ==
    \A t1, t2 \in Token :
        Live(t1) /\ Live(t2) /\ tokens[t1].session = tokens[t2].session => t1 = t2

\* logoutAll "invalidates all refresh tokens associated with the user,
\* effectively ending all active sessions": none of the sessions it found open
\* has a live token once it is answered.
LogoutAllEndsSessions ==
    \A r \in Request, t \in Token :
        /\ answer[r] = 200
        /\ op[r].kind = "logoutAll"
        /\ Stored(t) /\ tokens[t].session \in op[r].ended
        => tokens[t].revoked

\* refreshTokens issues new tokens or throws UnauthorizedException: it never
\* gives up half-way, with the old token revoked and no new one saved.
RefreshRotatesOrRefuses ==
    \A r \in Request :
        pc[r] = "done" /\ op[r].kind = "refresh" => answer[r] \in {200, 401}

\* A refresh has revoked t and is about to store its successor.
BeingRotated(t) ==
    \E r \in Request : pc[r] = "save" /\ op[r].kind = "refresh" /\ op[r].token = t

\* Sessions implements the ledger: a session is held by its live tokens, and by
\* one that a refresh is exchanging until the new one is stored.
Holding == {t \in Token : Live(t) \/ BeingRotated(t)}

Ledger == INSTANCE SessionLedger WITH
    current <- {<<tokens[t].session, t>> : t \in Holding},
    used <- {t \in Token : Stored(t)}

LedgerSpec == Ledger!LedgerSpec
=============================================================================
