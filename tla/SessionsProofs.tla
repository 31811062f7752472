--------------------------- MODULE SessionsProofs ---------------------------
(***************************************************************************)
(* Proofs about the auth module, for any users, requests and lifetimes,    *)
(* however requests overlap and whichever statements fail: its types, and  *)
(* what revocation, expiry and disabling promise.                          *)
(***************************************************************************)
EXTENDS Sessions, TLAPS

-----------------------------------------------------------------------------
(* The inductive invariant. *)

\* The kind of request that can be suspended at a step.
KindFits(kind, step) ==
    /\ step = "create" => kind = "register"
    /\ step \in {"read", "compare"} => kind = "login"
    /\ step \in {"find", "user", "revoke"} => kind = "refresh"
    /\ step = "save" => kind \in {"register", "login", "refresh"}
    /\ step = "guard" => kind \in {"logout", "logoutAll"}
    /\ step = "logout" => kind = "logout"
    /\ step = "logoutAll" => kind = "logoutAll"

\* What an arrived request names.
CommandInv(r) ==
    /\ op[r] \in Command
    /\ KindFits(op[r].kind, pc[r])
    /\ op[r].token # Null => Stored(op[r].token)
    /\ op[r].kind = "refresh" /\ op[r].token # Null => op[r].token.user = op[r].who
    /\ op[r].dead => /\ op[r].kind = "refresh"
                     /\ Dead(op[r].token)
                     /\ pc[r] \in {"find", "done"}

\* What its handler holds.
HandlerInv(r) ==
    /\ pc[r] = "create" => account[op[r].who] = Null
    /\ pc[r] \in {"user", "revoke"} => op[r].token # Null
    /\ pc[r] \in {"compare", "revoke"} => held[r] \in Account
    /\ pc[r] = "save" => minted[r] \in Token
    /\ pc[r] = "save" /\ op[r].kind = "refresh" =>
          /\ op[r].token # Null
          /\ tokens[op[r].token].revoked
          /\ minted[r].user = op[r].token.user

\* A request barred so far has not passed the check of its account.
BarredInv(r) ==
    r \in barred /\ pc[r] # "done" =>
        /\ pc[r] \in {"read", "compare", "find", "user", "guard"}
        /\ Disabled(op[r].who)
        /\ pc[r] = "compare" => ~held[r].active

\* What an answer stands for.
AnswerInv(r) ==
    /\ pc[r] # "done" => answer[r] = 0
    /\ op[r].dead \/ r \in barred => answer[r] \notin {200, 201}
    /\ answer[r] \in {200, 201} /\ op[r].kind \in {"register", "login", "refresh"} =>
          /\ minted[r] \in Token
          /\ Stored(minted[r])
          /\ op[r].kind = "refresh" =>
                /\ op[r].token # Null
                /\ tokens[minted[r]].session = tokens[op[r].token].session
                /\ minted[r].user = op[r].token.user
    /\ answer[r] = 200 /\ op[r].kind \in {"logout", "refresh"} /\ op[r].token # Null =>
          tokens[op[r].token].revoked

RequestInv(r) ==
    IF pc[r] = "idle" THEN answer[r] = 0 /\ r \notin barred
    ELSE CommandInv(r) /\ HandlerInv(r) /\ BarredInv(r) /\ AnswerInv(r)

\* No two registrations were given the same uuid.
FreshIds ==
    \A r, s \in Request :
        /\ pc[r] # "idle" /\ pc[s] # "idle"
        /\ op[r].kind = "register" /\ op[s].kind = "register"
        /\ op[r].who = op[s].who
        => r = s

Types ==
    /\ clock \in 0 .. MaxTime
    /\ account \in [User -> Account \cup {Null}]
    /\ tokens \in [Token -> TokenRow \cup {Null}]
    /\ op \in [Request -> Command \cup {Null}]
    /\ pc \in [Request -> Step]
    /\ held \in [Request -> Account \cup {Null}]
    /\ minted \in [Request -> Token \cup {Null}]
    /\ answer \in [Request -> {0, 200, 201, 401, 500}]
    /\ barred \subseteq Request

Inv == Types /\ FreshIds /\ \A r \in Request : RequestInv(r)

-----------------------------------------------------------------------------
(* What the runs check follows from it. *)

LEMMA InvTypeOK == Inv => TypeOK
<1> SUFFICES ASSUME Inv PROVE TypeOK
    OBVIOUS
<1>1. ASSUME NEW r \in Request
      PROVE  /\ pc[r] # "idle" => op[r] # Null
             /\ pc[r] \in {"compare", "revoke"} => held[r] # Null
             /\ pc[r] = "save" => minted[r] # Null
             /\ pc[r] \in {"user", "revoke", "save"} /\ op[r].kind = "refresh"
                   => Stored(op[r].token)
  <2>1. RequestInv(r)
        BY DEF Inv
  <2>2. pc[r] # "idle" => op[r] # Null
        BY <2>1, CommandAssumption DEF RequestInv, CommandInv
  <2>3. pc[r] \in {"user", "revoke", "save"} /\ op[r].kind = "refresh" => Stored(op[r].token)
        BY <2>1 DEF RequestInv, CommandInv, HandlerInv
  <2> QED BY <2>1, <2>2, <2>3, SessionsAssumption DEF RequestInv, HandlerInv
<1> QED BY <1>1 DEF Inv, Types, TypeOK

LEMMA InvHopeless == Inv => HopelessRequestsFail
BY DEF Inv, RequestInv, AnswerInv, HopelessRequestsFail

LEMMA InvIssued == Inv => IssuedTokensAreStored
<1> SUFFICES ASSUME Inv, NEW r \in Request, answer[r] \in {200, 201},
                    op[r].kind \in {"register", "login", "refresh"}
             PROVE  /\ Stored(minted[r])
                    /\ op[r].kind = "refresh" =>
                          /\ Stored(op[r].token)
                          /\ tokens[minted[r]].session = tokens[op[r].token].session
                          /\ minted[r].user = op[r].token.user
    BY DEF IssuedTokensAreStored
<1>1. RequestInv(r) /\ pc[r] # "idle"
      BY DEF Inv, RequestInv
<1> QED BY <1>1 DEF RequestInv, CommandInv, AnswerInv

LEMMA InvAnswered == Inv => AnsweredMeansRevoked
<1> SUFFICES ASSUME Inv, NEW r \in Request, answer[r] = 200,
                    op[r].kind \in {"logout", "refresh"}, Stored(op[r].token)
             PROVE  tokens[op[r].token].revoked
    BY DEF AnsweredMeansRevoked
<1>1. RequestInv(r) /\ pc[r] # "idle" /\ op[r].token # Null
      BY DEF Inv, RequestInv, Stored
<1> QED BY <1>1 DEF RequestInv, AnswerInv

-----------------------------------------------------------------------------
(* The invariant is inductive. *)

\* How rows of refresh_tokens change: they stay, in their session, and a
\* revoked one stays revoked.
Grows ==
    \A t \in Token : tokens[t] # Null =>
        /\ tokens'[t] # Null
        /\ tokens'[t].session = tokens[t].session
        /\ tokens[t].revoked => tokens'[t].revoked

LEMMA InitInv == Init => Inv
<1> SUFFICES ASSUME Init PROVE Inv
    OBVIOUS
<1>1. [role |-> "USER", active |-> TRUE] \in Account
      BY DEF Account, Role
<1>2. account \in [User -> Account \cup {Null}]
      BY <1>1 DEF Init
<1>3. clock \in 0 .. MaxTime
      BY SessionsAssumption DEF Init
<1>4. Types
      BY <1>2, <1>3 DEF Init, Types, Step
<1>5. FreshIds /\ \A r \in Request : RequestInv(r)
      BY DEF Init, FreshIds, RequestInv
<1> QED BY <1>4, <1>5 DEF Inv

\* Dead tokens stay dead.
LEMMA DeadStays ==
    ASSUME Grows, NEW t \in Token \cup {Null}, Dead(t), t # Null => Stored(t),
           clock \in Nat, clock' \in Nat, clock' >= clock
    PROVE  Dead(t)'
<1>1. CASE t = Null
      BY <1>1 DEF Dead, Live, Stored
<1>2. CASE t # Null
  <2>1. t \in Token /\ tokens[t] # Null
        BY <1>2 DEF Stored
  <2>2. CASE tokens[t].revoked
        BY <2>1, <2>2 DEF Grows, Dead, Live, Stored
  <2>3. CASE ~tokens[t].revoked
    <3>1. clock > ExpiresAt(t)
          BY <1>2, <2>1, <2>3 DEF Dead, Live, Stored
    <3>2. ExpiresAt(t) \in Nat
          BY <2>1, SessionsAssumption DEF ExpiresAt, Token
    <3>3. clock' > ExpiresAt(t)
          BY <3>1, <3>2
    <3> QED BY <3>3 DEF Dead, ExpiresAt
  <2> QED BY <2>2, <2>3
<1> QED BY <1>1, <1>2

\* A request keeps what it holds while others move.
LEMMA OtherKeeps ==
    ASSUME Inv, Grows, NEW s \in Request,
           clock' \in Nat, clock' >= clock,
           op'[s] = op[s], pc'[s] = pc[s], held'[s] = held[s],
           minted'[s] = minted[s], answer'[s] = answer[s],
           s \in barred' => s \in barred,
           s \in barred' /\ Disabled(op[s].who) => Disabled(op[s].who)',
           pc[s] = "create" => account'[op[s].who] = account[op[s].who]
    PROVE  RequestInv(s)'
<1>1. CASE pc[s] = "idle"
      BY <1>1 DEF Inv, RequestInv
<1>2. CASE pc[s] # "idle"
  <2>1. CommandInv(s) /\ HandlerInv(s) /\ BarredInv(s) /\ AnswerInv(s)
        BY <1>2 DEF Inv, RequestInv
  <2>2. /\ op[s].token \in Token \cup {Null} /\ clock \in Nat
        /\ op[s].token # Null => op[s].token \in Token /\ Stored(op[s].token)
        BY <2>1, SessionsAssumption DEF CommandInv, Command, Inv, Types
  <2>3. op[s].token # Null => /\ Stored(op[s].token)'
                              /\ tokens'[op[s].token].session = tokens[op[s].token].session
                              /\ tokens[op[s].token].revoked => tokens'[op[s].token].revoked
        BY <2>2 DEF Grows, Stored
  <2>4. op[s].dead => Dead(op[s].token)'
        BY <2>1, <2>2, DeadStays DEF CommandInv
  <2>5. CommandInv(s)'
        BY <2>1, <2>3, <2>4 DEF CommandInv, Dead, Live, Stored, ExpiresAt
  <2>6. HandlerInv(s)'
        BY <2>1, <2>3 DEF HandlerInv
  <2>7. BarredInv(s)'
        BY <2>1 DEF BarredInv, Disabled
  <2>8. AnswerInv(s)'
        BY <2>1, <2>3 DEF AnswerInv, Grows, Stored
  <2> QED BY <1>2, <2>5, <2>6, <2>7, <2>8 DEF RequestInv
<1> QED BY <1>1, <1>2

\* What a request names stays what it is when the request itself moves.
LEMMA CommandKeeps ==
    ASSUME Inv, Grows, NEW r \in Request, pc[r] # "idle",
           clock' = clock, op' = op, KindFits(op[r].kind, pc'[r]),
           op[r].dead => pc'[r] \in {"find", "done"}
    PROVE  CommandInv(r)'
<1>1. CommandInv(r)
      BY DEF Inv, RequestInv
<1>2. /\ op[r].token \in Token \cup {Null} /\ clock \in Nat
      /\ op[r].token # Null => op[r].token \in Token /\ Stored(op[r].token)
      BY <1>1, SessionsAssumption DEF CommandInv, Command, Inv, Types
<1>3. op[r].token # Null => Stored(op[r].token)'
      BY <1>2 DEF Grows, Stored
<1>4. op[r].dead => Dead(op[r].token)'
      BY <1>1, <1>2, DeadStays DEF CommandInv
<1> QED BY <1>1, <1>3, <1>4 DEF CommandInv, Dead, Live, Stored, ExpiresAt

\* Rows that do not change grow.
LEMMA SameGrows == tokens' = tokens => Grows
BY DEF Grows

\* A step of request r keeps Inv, if what r itself holds is kept.
LEMMA StepKeeps ==
    ASSUME Inv, Grows, NEW r \in Request, pc[r] # "idle",
           clock' = clock, op' = op, barred' = barred,
           account' \in [User -> Account \cup {Null}],
           tokens' \in [Token -> TokenRow \cup {Null}],
           pc' \in [Request -> Step],
           held' \in [Request -> Account \cup {Null}],
           minted' \in [Request -> Token \cup {Null}],
           answer' \in [Request -> {0, 200, 201, 401, 500}],
           \A s \in Request \ {r} :
              /\ pc'[s] = pc[s] /\ held'[s] = held[s]
              /\ minted'[s] = minted[s] /\ answer'[s] = answer[s]
              /\ pc[s] = "create" => account'[op[s].who] = account[op[s].who],
           \A u \in User : Disabled(u) => Disabled(u)',
           pc'[r] # "idle",
           CommandInv(r)' /\ HandlerInv(r)' /\ BarredInv(r)' /\ AnswerInv(r)'
    PROVE  Inv'
<1>1. Types'
      BY DEF Inv, Types
<1>2. FreshIds'
      BY DEF Inv, FreshIds
<1>3. ASSUME NEW s \in Request \ {r} PROVE RequestInv(s)'
  <2>1. clock \in Nat /\ clock' >= clock
        BY SessionsAssumption DEF Inv, Types
  <2>2. CASE pc[s] = "idle"
        BY <2>2 DEF Inv, RequestInv
  <2>3. CASE pc[s] # "idle"
    <3>1. op[s].who \in User
          BY <2>3 DEF Inv, RequestInv, CommandInv, Command
    <3>2. Disabled(op[s].who) => Disabled(op[s].who)'
          BY <3>1 DEF Disabled
    <3> QED BY <2>1, <3>2, OtherKeeps
  <2> QED BY <2>2, <2>3
<1>4. RequestInv(r)'
      BY DEF RequestInv
<1> QED BY <1>1, <1>2, <1>3, <1>4 DEF Inv

\* The effect of Await and Answer on the variables.
LEMMA AwaitTypes ==
    ASSUME Inv, NEW r \in Request, NEW step \in Step, NEW user \in Account \cup {Null},
           Await(r, step, user)
    PROVE  /\ pc' \in [Request -> Step] /\ pc'[r] = step
           /\ held' \in [Request -> Account \cup {Null}] /\ held'[r] = user
           /\ answer' = answer
           /\ \A s \in Request \ {r} : pc'[s] = pc[s] /\ held'[s] = held[s]
BY DEF Inv, Types, Await

LEMMA AnswerTypes ==
    ASSUME Inv, NEW r \in Request, NEW status \in {200, 201, 401, 500}, Answer(r, status)
    PROVE  /\ pc' \in [Request -> Step] /\ pc'[r] = "done"
           /\ held' \in [Request -> Account \cup {Null}]
           /\ answer' \in [Request -> {0, 200, 201, 401, 500}] /\ answer'[r] = status
           /\ \A s \in Request \ {r} : /\ pc'[s] = pc[s] /\ held'[s] = held[s]
                                       /\ answer'[s] = answer[s]
BY DEF Inv, Types, Answer, Step

\* Any request may be refused, whatever its statement did to the tokens.
LEMMA Refused ==
    ASSUME Inv, Grows, NEW r \in Request, pc[r] # "idle",
           clock' = clock, account' = account, op' = op, minted' = minted, barred' = barred,
           tokens' \in [Token -> TokenRow \cup {Null}],
           NEW status \in {401, 500}, Answer(r, status)
    PROVE  Inv'
<1>1. /\ pc' \in [Request -> Step] /\ pc'[r] = "done"
      /\ held' \in [Request -> Account \cup {Null}]
      /\ answer' \in [Request -> {0, 200, 201, 401, 500}] /\ answer'[r] = status
      /\ \A s \in Request \ {r} : /\ pc'[s] = pc[s] /\ held'[s] = held[s]
                                  /\ answer'[s] = answer[s]
      BY AnswerTypes
<1>2. CommandInv(r)'
      BY <1>1, CommandKeeps DEF KindFits
<1>3. HandlerInv(r)' /\ BarredInv(r)' /\ AnswerInv(r)'
      BY <1>1 DEF HandlerInv, BarredInv, AnswerInv
<1>4. \A u \in User : Disabled(u) => Disabled(u)'
      BY DEF Disabled
<1> QED BY <1>1, <1>2, <1>3, <1>4, StepKeeps DEF Inv, Types

\* Steps that read and go on, with what the next step needs.
LEMMA Awaits ==
    ASSUME Inv, NEW r \in Request, pc[r] \notin {"idle", "done"},
           clock' = clock, account' = account, op' = op, tokens' = tokens, barred' = barred,
           minted' \in [Request -> Token \cup {Null}],
           \A s \in Request \ {r} : minted'[s] = minted[s],
           NEW step \in Step \ {"idle", "done"}, NEW user \in Account \cup {Null},
           Await(r, step, user),
           KindFits(op[r].kind, step),
           op[r].dead => step = "find",
           HandlerInv(r)', BarredInv(r)'
    PROVE  Inv'
<1>1. /\ pc' \in [Request -> Step] /\ pc'[r] = step
      /\ held' \in [Request -> Account \cup {Null}] /\ held'[r] = user
      /\ answer' = answer
      /\ \A s \in Request \ {r} : pc'[s] = pc[s] /\ held'[s] = held[s]
      BY AwaitTypes
<1>2. Grows
      BY SameGrows
<1>3. CommandInv(r)'
      BY <1>1, <1>2, CommandKeeps
<1>4. AnswerInv(r)'
      BY <1>1 DEF Inv, RequestInv, AnswerInv
<1>5. \A u \in User : Disabled(u) => Disabled(u)'
      BY DEF Disabled
<1> QED BY <1>1, <1>2, <1>3, <1>4, <1>5, StepKeeps DEF Inv, Types

LEMMA ReadAccountInv ==
    ASSUME Inv, NEW r \in Request, ReadAccount(r) PROVE Inv'
<1> DEFINE user == account[op[r].who]
<1>1. /\ pc[r] = "read" /\ tokens' = tokens /\ account' = account /\ clock' = clock
      /\ op' = op /\ minted' = minted /\ barred' = barred
      BY DEF ReadAccount
<1>2. CommandInv(r) /\ BarredInv(r)
      BY <1>1 DEF Inv, RequestInv
<1>3. CASE Answer(r, 401)
      BY <1>1, <1>3, Refused, SameGrows DEF Inv, Types
<1>4. CASE user # Null /\ Await(r, "compare", user)
  <2>1. user \in Account
        BY <1>2, <1>4 DEF CommandInv, Command, Inv, Types
  <2>2. pc'[r] = "compare" /\ held'[r] = user
        BY <1>4, <2>1, AwaitTypes DEF Step
  <2>3. HandlerInv(r)'
        BY <2>1, <2>2 DEF HandlerInv
  <2>4. BarredInv(r)'
        BY <1>1, <1>2, <2>2 DEF BarredInv, Disabled
  <2>5. KindFits(op[r].kind, "compare") /\ ~op[r].dead
        BY <1>1, <1>2 DEF CommandInv, KindFits
  <2> QED BY <1>1, <1>4, <2>1, <2>3, <2>4, <2>5, Awaits DEF Step, Inv, Types
<1> QED BY <1>3, <1>4 DEF ReadAccount

\* Signing gives a token of the user, now.
LEMMA MintTypes ==
    ASSUME Inv, NEW r \in Request, NEW u \in User, NEW role \in Role, Mint(r, u, role)
    PROVE  /\ minted' \in [Request -> Token \cup {Null}]
           /\ minted'[r] \in Token /\ minted'[r].user = u
           /\ \A s \in Request \ {r} : minted'[s] = minted[s]
BY DEF Inv, Types, Mint, Token

LEMMA ComparePasswordInv ==
    ASSUME Inv, NEW r \in Request, ComparePassword(r) PROVE Inv'
<1>1. /\ pc[r] = "compare" /\ tokens' = tokens /\ account' = account /\ clock' = clock
      /\ op' = op /\ barred' = barred
      BY DEF ComparePassword
<1>2. /\ op[r] \in Command /\ op[r].kind = "login" /\ ~op[r].dead
      /\ held[r] \in Account /\ BarredInv(r)
      BY <1>1 DEF Inv, RequestInv, CommandInv, HandlerInv, KindFits
<1>3. CASE Answer(r, 401) /\ UNCHANGED minted
      BY <1>1, <1>3, Refused, SameGrows DEF Inv, Types
<1>4. CASE held[r].active /\ Mint(r, op[r].who, held[r].role) /\ Await(r, "save", Null)
  <2>1. op[r].who \in User /\ held[r].role \in Role
        BY <1>2 DEF Command, Account
  <2>2. /\ minted' \in [Request -> Token \cup {Null}] /\ minted'[r] \in Token
        /\ \A s \in Request \ {r} : minted'[s] = minted[s]
        BY <1>4, <2>1, MintTypes
  <2>3. pc'[r] = "save"
        BY <1>4, AwaitTypes DEF Step
  <2>4. HandlerInv(r)'
        BY <1>1, <1>2, <2>2, <2>3 DEF HandlerInv
  <2>5. r \notin barred
        BY <1>1, <1>2, <1>4 DEF BarredInv
  <2>6. BarredInv(r)'
        BY <1>1, <2>5 DEF BarredInv
  <2>7. KindFits(op[r].kind, "save")
        BY <1>2 DEF KindFits
  <2> QED BY <1>1, <1>2, <1>4, <2>2, <2>4, <2>6, <2>7, Awaits DEF Step
<1> QED BY <1>3, <1>4 DEF ComparePassword

LEMMA FindTokenInv ==
    ASSUME Inv, NEW r \in Request, FindToken(r) PROVE Inv'
<1> DEFINE t == op[r].token
<1>1. /\ pc[r] = "find" /\ tokens' = tokens /\ account' = account /\ clock' = clock
      /\ op' = op /\ minted' = minted /\ barred' = barred
      BY DEF FindToken
<1>2. CommandInv(r) /\ BarredInv(r) /\ op[r].kind = "refresh"
      BY <1>1 DEF Inv, RequestInv, CommandInv, KindFits
<1>3. CASE Answer(r, 401)
      BY <1>1, <1>3, Refused, SameGrows DEF Inv, Types
<1>4. CASE Live(t) /\ clock <= ExpiresAt(t) /\ Await(r, "user", Null)
  <2>1. pc'[r] = "user"
        BY <1>4, AwaitTypes DEF Step
  <2>2. t # Null
        BY <1>4 DEF Live, Stored
  <2>3. HandlerInv(r)'
        BY <1>1, <2>1, <2>2 DEF HandlerInv
  <2>4. BarredInv(r)'
        BY <1>1, <1>2, <2>1 DEF BarredInv, Disabled
  <2>5. ~op[r].dead
    <3>1. t \in Token /\ ExpiresAt(t) \in Nat /\ clock \in Nat
          BY <1>2, <2>2, SessionsAssumption
             DEF CommandInv, Command, ExpiresAt, Token, Inv, Types
    <3>2. ~(clock > ExpiresAt(t))
          BY <1>4, <3>1
    <3> QED BY <1>2, <1>4, <3>2 DEF CommandInv, Dead
  <2>6. KindFits(op[r].kind, "user")
        BY <1>2 DEF KindFits
  <2> QED BY <1>1, <1>4, <2>3, <2>4, <2>5, <2>6, Awaits DEF Step, Inv, Types
<1> QED BY <1>3, <1>4 DEF FindToken

LEMMA FindOwnerInv ==
    ASSUME Inv, NEW r \in Request, FindOwner(r) PROVE Inv'
<1> DEFINE u == op[r].token.user
<1>1. /\ pc[r] = "user" /\ tokens' = tokens /\ account' = account /\ clock' = clock
      /\ op' = op /\ minted' = minted /\ barred' = barred
      BY DEF FindOwner
<1>2. /\ CommandInv(r) /\ BarredInv(r) /\ op[r].kind = "refresh" /\ ~op[r].dead
      /\ op[r].token # Null
      BY <1>1 DEF Inv, RequestInv, CommandInv, HandlerInv, KindFits
<1>3. u \in User /\ u = op[r].who
      BY <1>2 DEF CommandInv, Command, Token
<1>4. CASE Answer(r, 401)
      BY <1>1, <1>4, Refused, SameGrows DEF Inv, Types
<1>5. CASE ActiveUser(u) /\ Await(r, "revoke", account[u])
  <2>1. account[u] \in Account
        BY <1>3, <1>5 DEF ActiveUser, Inv, Types
  <2>2. pc'[r] = "revoke" /\ held'[r] = account[u]
        BY <1>5, <2>1, AwaitTypes DEF Step
  <2>3. HandlerInv(r)'
        BY <1>1, <1>2, <2>1, <2>2 DEF HandlerInv
  <2>4. r \notin barred
        BY <1>1, <1>2, <1>3, <1>5 DEF BarredInv, Disabled, ActiveUser
  <2>5. BarredInv(r)'
        BY <1>1, <2>4 DEF BarredInv
  <2>6. KindFits(op[r].kind, "revoke")
        BY <1>2 DEF KindFits
  <2> QED BY <1>1, <1>2, <1>5, <2>1, <2>3, <2>5, <2>6, Awaits DEF Step, Inv, Types
<1> QED BY <1>4, <1>5 DEF FindOwner

\* An UPDATE that revokes keeps every row, in its session.
LEMMA RevokeGrows ==
    ASSUME Inv, NEW matching, Revoke(matching)
    PROVE  /\ Grows
           /\ tokens' \in [Token -> TokenRow \cup {Null}]
           /\ \A t \in Token \cap matching : tokens[t] # Null => tokens'[t].revoked
<1>1. ASSUME NEW t \in Token, tokens[t] # Null
      PROVE  /\ tokens'[t] \in TokenRow /\ tokens'[t] # Null
             /\ tokens'[t].session = tokens[t].session
             /\ tokens[t].revoked => tokens'[t].revoked
             /\ t \in matching => tokens'[t].revoked
  <2>1. tokens[t] \in TokenRow
        BY <1>1 DEF Inv, Types
  <2>2. tokens'[t] = IF t \in matching THEN [tokens[t] EXCEPT !.revoked = TRUE] ELSE tokens[t]
        BY <1>1 DEF Revoke
  <2>3. tokens'[t] \in TokenRow /\ tokens'[t].session = tokens[t].session
        BY <2>1, <2>2 DEF TokenRow
  <2>4. t \in matching => tokens'[t].revoked
        BY <2>1, <2>2 DEF TokenRow
  <2>5. t \notin matching => tokens'[t] = tokens[t]
        BY <2>2
  <2> QED BY <2>3, <2>4, <2>5, SessionsAssumption
<1>2. tokens' \in [Token -> TokenRow \cup {Null}]
  <2>1. \A t \in Token : tokens[t] = Null => tokens'[t] = Null
        BY DEF Revoke
  <2> QED BY <1>1, <2>1 DEF Revoke
<1> QED BY <1>1, <1>2 DEF Grows

LEMMA RevokePresentedInv ==
    ASSUME Inv, NEW r \in Request, RevokePresented(r) PROVE Inv'
<1> DEFINE t == op[r].token
<1>1. /\ pc[r] = "revoke" /\ account' = account /\ clock' = clock
      /\ op' = op /\ barred' = barred
      /\ Revoke({t}) /\ Mint(r, t.user, held[r].role) /\ Await(r, "save", Null)
      BY DEF RevokePresented
<1>2. /\ CommandInv(r) /\ BarredInv(r) /\ op[r].kind = "refresh" /\ ~op[r].dead
      /\ t # Null /\ held[r] \in Account /\ answer[r] = 0
      BY <1>1 DEF Inv, RequestInv, CommandInv, HandlerInv, AnswerInv, KindFits
<1>3. t \in Token /\ t.user \in User /\ held[r].role \in Role /\ tokens[t] # Null
      BY <1>2 DEF CommandInv, Command, Token, Account, Stored
<1>4. /\ minted' \in [Request -> Token \cup {Null}]
      /\ minted'[r] \in Token /\ minted'[r].user = t.user
      /\ \A s \in Request \ {r} : minted'[s] = minted[s]
      BY <1>1, <1>3, MintTypes
<1>5. /\ Grows /\ tokens' \in [Token -> TokenRow \cup {Null}] /\ tokens'[t].revoked
      BY <1>1, <1>3, RevokeGrows
<1>6. /\ pc' \in [Request -> Step] /\ pc'[r] = "save" /\ answer' = answer
      /\ held' \in [Request -> Account \cup {Null}]
      /\ \A s \in Request \ {r} : pc'[s] = pc[s] /\ held'[s] = held[s]
      BY <1>1, AwaitTypes DEF Step
<1>7. CommandInv(r)'
      BY <1>1, <1>2, <1>5, <1>6, CommandKeeps DEF KindFits
<1>8. HandlerInv(r)'
      BY <1>1, <1>2, <1>4, <1>5, <1>6 DEF HandlerInv
<1>9. r \notin barred
      BY <1>1, <1>2 DEF BarredInv
<1>10. BarredInv(r)' /\ AnswerInv(r)'
       BY <1>1, <1>2, <1>6, <1>9 DEF BarredInv, AnswerInv
<1>11. \A u \in User : Disabled(u) => Disabled(u)'
       BY <1>1 DEF Disabled
<1> QED BY <1>1, <1>4, <1>5, <1>6, <1>7, <1>8, <1>10, <1>11, StepKeeps DEF Inv, Types

LEMMA SaveTokenInv ==
    ASSUME Inv, NEW r \in Request, SaveToken(r) PROVE Inv'
<1> DEFINE t == minted[r]
           old == op[r].token
           session == IF op[r].kind = "refresh" THEN tokens[old].session ELSE t
<1>1. /\ pc[r] = "save" /\ account' = account /\ clock' = clock
      /\ op' = op /\ minted' = minted /\ barred' = barred
      BY DEF SaveToken
<1>2. /\ CommandInv(r) /\ BarredInv(r) /\ ~op[r].dead /\ t \in Token
      /\ op[r].kind \in {"register", "login", "refresh"}
      /\ op[r].kind = "refresh" => old # Null /\ tokens[old].revoked /\ t.user = old.user
      BY <1>1 DEF Inv, RequestInv, CommandInv, HandlerInv, KindFits
<1>3. op[r].kind = "refresh" => old \in Token /\ tokens[old] # Null
      BY <1>2 DEF CommandInv, Command, Stored
<1>4. CASE Answer(r, 500) /\ UNCHANGED tokens
      BY <1>1, <1>4, Refused, SameGrows DEF Inv, Types
<1>5. CASE /\ tokens[t] = Null
           /\ tokens' = [tokens EXCEPT ![t] = [session |-> session, revoked |-> FALSE]]
           /\ \E status \in {200, 201, 500} : Answer(r, status)
  <2>1. session \in Token
        BY <1>2, <1>3 DEF Inv, Types, TokenRow
  <2> DEFINE row == [session |-> session, revoked |-> FALSE]
  <2>2. row \in TokenRow /\ row.session = session /\ row # Null
    <3>1. row \in TokenRow
          BY <2>1 DEF TokenRow
    <3> QED BY <3>1, SessionsAssumption
  <2>3. /\ tokens' \in [Token -> TokenRow \cup {Null}]
        /\ tokens'[t] # Null /\ tokens'[t].session = session
        /\ \A x \in Token \ {t} : tokens'[x] = tokens[x]
    <3>1. tokens \in [Token -> TokenRow \cup {Null}] /\ tokens' = [tokens EXCEPT ![t] = row]
          BY <1>5 DEF Inv, Types
    <3>2. t \in Token
          BY <1>2
    <3> HIDE DEF row, session, t
    <3> QED BY <2>2, <3>1, <3>2
  <2>4. Grows
        BY <1>5, <2>3 DEF Grows
  <2>5. CASE Answer(r, 500)
        BY <1>1, <2>3, <2>4, <2>5, Refused
  <2>6. ASSUME NEW status \in {200, 201}, Answer(r, status) PROVE Inv'
    <3>1. /\ pc' \in [Request -> Step] /\ pc'[r] = "done"
          /\ held' \in [Request -> Account \cup {Null}]
          /\ answer' \in [Request -> {0, 200, 201, 401, 500}] /\ answer'[r] = status
          /\ \A s \in Request \ {r} : /\ pc'[s] = pc[s] /\ held'[s] = held[s]
                                      /\ answer'[s] = answer[s]
          BY <2>6, AnswerTypes
    <3>2. CommandInv(r)'
          BY <1>1, <2>4, <3>1, CommandKeeps DEF KindFits
    <3>3. HandlerInv(r)' /\ BarredInv(r)'
          BY <3>1 DEF HandlerInv, BarredInv
    <3>4. r \notin barred
          BY <1>1, <1>2 DEF BarredInv
    <3>5. op[r].kind = "refresh" => /\ tokens'[old] = tokens[old]
                                    /\ tokens'[t].session = tokens[old].session
          BY <1>2, <1>3, <1>5, <2>3
    <3>6. AnswerInv(r)'
      <4>1. minted'[r] = t /\ op'[r] = op[r] /\ Stored(t)' /\ t \in Token
            BY <1>1, <1>2, <2>3, SessionsAssumption DEF Stored
      <4>2. op[r].kind = "refresh" => /\ old # Null /\ tokens'[old].revoked
                                      /\ tokens'[t].session = tokens'[old].session
                                      /\ t.user = old.user
            BY <1>2, <3>5
      <4> QED BY <1>1, <1>2, <3>1, <3>4, <4>1, <4>2 DEF AnswerInv, Stored
    <3>7. \A u \in User : Disabled(u) => Disabled(u)'
          BY <1>1 DEF Disabled
    <3> QED BY <1>1, <2>3, <2>4, <3>1, <3>2, <3>3, <3>6, <3>7, StepKeeps DEF Inv, Types
  <2> QED BY <1>5, <2>5, <2>6
<1> QED BY <1>4, <1>5 DEF SaveToken, Acknowledge

LEMMA AuthenticateInv ==
    ASSUME Inv, NEW r \in Request, Authenticate(r) PROVE Inv'
<1>1. /\ pc[r] = "guard" /\ tokens' = tokens /\ account' = account /\ clock' = clock
      /\ op' = op /\ minted' = minted /\ barred' = barred
      BY DEF Authenticate
<1>2. CommandInv(r) /\ BarredInv(r) /\ op[r].kind \in {"logout", "logoutAll"}
      BY <1>1 DEF Inv, RequestInv, CommandInv, KindFits
<1>3. CASE Answer(r, 401)
      BY <1>1, <1>3, Refused, SameGrows DEF Inv, Types
<1>4. CASE ActiveUser(op[r].who) /\ Await(r, op[r].kind, Null)
  <2>1. pc'[r] = op[r].kind
        BY <1>2, <1>4, AwaitTypes DEF Step
  <2>2. HandlerInv(r)'
        BY <1>1, <1>2, <2>1 DEF HandlerInv
  <2>3. r \notin barred
        BY <1>1, <1>2, <1>4 DEF BarredInv, Disabled, ActiveUser
  <2>4. BarredInv(r)'
        BY <1>1, <2>3 DEF BarredInv
  <2>5. KindFits(op[r].kind, op[r].kind) /\ ~op[r].dead
        BY <1>2 DEF KindFits, CommandInv
  <2> QED BY <1>1, <1>2, <1>4, <2>2, <2>4, <2>5, Awaits DEF Step, Inv, Types
<1> QED BY <1>3, <1>4 DEF Authenticate

\* Both logouts revoke, and answer.
LEMMA LogoutsInv ==
    ASSUME Inv, NEW r \in Request, Logout(r) \/ LogoutAll(r) PROVE Inv'
<1>1. /\ pc[r] \in {"logout", "logoutAll"} /\ account' = account /\ clock' = clock
      /\ op' = op /\ minted' = minted /\ barred' = barred
      /\ \E status \in {200, 500} : Answer(r, status)
      BY DEF Logout, LogoutAll, Acknowledge
<1>2. /\ CommandInv(r) /\ BarredInv(r) /\ ~op[r].dead /\ pc[r] = op[r].kind
      BY <1>1 DEF Inv, RequestInv, CommandInv, KindFits
<1>3. /\ Grows /\ tokens' \in [Token -> TokenRow \cup {Null}]
      BY RevokeGrows DEF Logout, LogoutAll
<1>4. op[r].kind = "logout" /\ op[r].token # Null => tokens'[op[r].token].revoked
  <2> SUFFICES ASSUME op[r].kind = "logout", op[r].token # Null
               PROVE  tokens'[op[r].token].revoked
      OBVIOUS
  <2>1. Revoke({op[r].token})
        BY <1>2 DEF Logout, LogoutAll
  <2>2. op[r].token \in Token /\ tokens[op[r].token] # Null
        BY <1>2 DEF CommandInv, Command, Stored
  <2> QED BY <2>1, <2>2, RevokeGrows
<1>5. CASE Answer(r, 500)
      BY <1>1, <1>3, <1>5, Refused
<1>6. CASE Answer(r, 200)
  <2>1. /\ pc' \in [Request -> Step] /\ pc'[r] = "done"
        /\ held' \in [Request -> Account \cup {Null}]
        /\ answer' \in [Request -> {0, 200, 201, 401, 500}] /\ answer'[r] = 200
        /\ \A s \in Request \ {r} : /\ pc'[s] = pc[s] /\ held'[s] = held[s]
                                    /\ answer'[s] = answer[s]
        BY <1>6, AnswerTypes
  <2>2. CommandInv(r)'
        BY <1>1, <1>3, <2>1, CommandKeeps DEF KindFits
  <2>3. HandlerInv(r)' /\ BarredInv(r)'
        BY <2>1 DEF HandlerInv, BarredInv
  <2>4. r \notin barred
        BY <1>1, <1>2 DEF BarredInv
  <2>5. AnswerInv(r)'
        BY <1>1, <1>2, <1>4, <2>1, <2>4 DEF AnswerInv
  <2>6. \A u \in User : Disabled(u) => Disabled(u)'
        BY <1>1 DEF Disabled
  <2> QED BY <1>1, <1>3, <2>1, <2>2, <2>3, <2>5, <2>6, StepKeeps DEF Inv, Types
<1> QED BY <1>1, <1>5, <1>6

LEMMA StatementFailsInv ==
    ASSUME Inv, NEW r \in Request, StatementFails(r) PROVE Inv'
BY Refused, SameGrows DEF StatementFails, InFlight, Inv, Types

\* The new account is nobody's yet.
LEMMA CreateUserInv ==
    ASSUME Inv, NEW r \in Request, CreateUser(r) PROVE Inv'
<1> DEFINE u == op[r].who
           new == [role |-> "USER", active |-> TRUE]
<1>1. /\ pc[r] = "create" /\ tokens' = tokens /\ clock' = clock
      /\ op' = op /\ barred' = barred
      /\ account' = [account EXCEPT ![u] = new]
      /\ Mint(r, u, "USER") /\ Await(r, "save", Null)
      BY DEF CreateUser
<1>2. /\ CommandInv(r) /\ BarredInv(r) /\ op[r].kind = "register" /\ ~op[r].dead
      /\ account[u] = Null /\ answer[r] = 0
      BY <1>1 DEF Inv, RequestInv, CommandInv, HandlerInv, AnswerInv, KindFits
<1>3. u \in User /\ new \in Account
      BY <1>2 DEF CommandInv, Command, Account, Role
<1>4. /\ account' \in [User -> Account \cup {Null}]
      /\ \A v \in User \ {u} : account'[v] = account[v]
      BY <1>1, <1>3 DEF Inv, Types
<1>5. /\ minted' \in [Request -> Token \cup {Null}] /\ minted'[r] \in Token
      /\ \A s \in Request \ {r} : minted'[s] = minted[s]
      BY <1>1, <1>3, MintTypes DEF Role
<1>6. /\ pc' \in [Request -> Step] /\ pc'[r] = "save" /\ answer' = answer
      /\ held' \in [Request -> Account \cup {Null}]
      /\ \A s \in Request \ {r} : pc'[s] = pc[s] /\ held'[s] = held[s]
      BY <1>1, AwaitTypes DEF Step
<1>7. ASSUME NEW s \in Request \ {r}, pc[s] = "create"
      PROVE  account'[op[s].who] = account[op[s].who]
  <2>1. op[s] \in Command /\ op[s].kind = "register"
        BY <1>7 DEF Inv, RequestInv, CommandInv, KindFits
  <2>2. op[s].who # u
        BY <1>1, <1>2, <1>7, <2>1 DEF Inv, FreshIds
  <2> QED BY <1>4, <2>1, <2>2 DEF Command
<1>8. \A v \in User : Disabled(v) => Disabled(v)'
      BY <1>2, <1>4 DEF Disabled
<1>9. Grows
      BY <1>1, SameGrows
<1>10. CommandInv(r)'
       BY <1>1, <1>2, <1>6, <1>9, CommandKeeps DEF KindFits
<1>11. HandlerInv(r)'
       BY <1>1, <1>2, <1>5, <1>6 DEF HandlerInv
<1>12. r \notin barred
       BY <1>1, <1>2 DEF BarredInv
<1>13. BarredInv(r)' /\ AnswerInv(r)'
       BY <1>1, <1>2, <1>6, <1>12 DEF BarredInv, AnswerInv
<1>14. tokens' \in [Token -> TokenRow \cup {Null}] /\ pc[r] # "idle" /\ pc'[r] # "idle"
       BY <1>1, <1>6 DEF Inv, Types
<1>15. \A s \in Request \ {r} :
          /\ pc'[s] = pc[s] /\ held'[s] = held[s]
          /\ minted'[s] = minted[s] /\ answer'[s] = answer[s]
          /\ pc[s] = "create" => account'[op[s].who] = account[op[s].who]
       BY <1>5, <1>6, <1>7
<1>16. answer' \in [Request -> {0, 200, 201, 401, 500}]
       BY <1>6 DEF Inv, Types
<1> QED BY <1>1, <1>4, <1>5, <1>6, <1>8, <1>9, <1>10, <1>11, <1>13, <1>14, <1>15, <1>16,
           StepKeeps

LEMMA TickInv ==
    ASSUME Inv, Tick PROVE Inv'
<1>1. /\ clock' \in 0 .. MaxTime /\ clock' \in Nat /\ clock' >= clock
      /\ UNCHANGED <<account, tokens, op, pc, held, minted, answer, barred>>
      BY SessionsAssumption DEF Tick, Inv, Types
<1>2. Grows
      BY <1>1, SameGrows
<1>3. \A s \in Request : RequestInv(s)'
      BY <1>1, <1>2, OtherKeeps DEF Disabled
<1> QED BY <1>1, <1>3 DEF Inv, Types, FreshIds

\* Enabling an account clears its requests, and nothing bars them again.
LEMMA ChangeAccountInv ==
    ASSUME Inv, NEW u \in User, NEW user \in Account, ChangeAccount(u, user) PROVE Inv'
<1>1. /\ clock' = clock /\ tokens' = tokens /\ op' = op /\ pc' = pc
      /\ held' = held /\ minted' = minted /\ answer' = answer
      /\ account' = [account EXCEPT ![u] = user] /\ account[u] # Null
      BY DEF ChangeAccount
<1>2. /\ account' \in [User -> Account \cup {Null}] /\ account'[u] = user
      /\ \A v \in User \ {u} : account'[v] = account[v]
      BY <1>1 DEF Inv, Types
<1>3. /\ barred' \subseteq barred
      /\ user.active => \A s \in barred' : op[s].who # u
      BY DEF ChangeAccount
<1>4. clock \in Nat /\ clock' \in Nat /\ clock' >= clock
      BY <1>1, SessionsAssumption DEF Inv, Types
<1>5. Grows
      BY <1>1, SameGrows
<1>6. ASSUME NEW s \in Request PROVE RequestInv(s)'
  <2>1. CASE pc[s] = "idle"
        BY <1>1, <1>3, <2>1 DEF Inv, RequestInv
  <2>2. CASE pc[s] # "idle"
    <3>1. op[s].who \in User /\ HandlerInv(s)
          BY <2>2 DEF Inv, RequestInv, CommandInv, Command
    <3>2. s \in barred' /\ Disabled(op[s].who) => Disabled(op[s].who)'
          BY <1>1, <1>2, <1>3, <3>1, SessionsAssumption DEF Disabled
    <3>3. pc[s] = "create" => account'[op[s].who] = account[op[s].who]
          BY <1>1, <1>2, <3>1 DEF HandlerInv
    <3>4. s \in barred' => s \in barred
          BY <1>3
    <3>5. /\ op'[s] = op[s] /\ pc'[s] = pc[s] /\ held'[s] = held[s]
          /\ minted'[s] = minted[s] /\ answer'[s] = answer[s]
          BY <1>1
    <3> QED BY <1>4, <1>5, <3>2, <3>3, <3>4, <3>5, OtherKeeps
  <2> QED BY <2>1, <2>2
<1> QED BY <1>1, <1>2, <1>3, <1>6 DEF Inv, Types, FreshIds

\* An arriving request holds nothing yet, and is barred if its user is.
LEMMA SubmitInv ==
    ASSUME Inv, NEW r \in Request, NEW c \in Command, NEW step \in Step,
           Submit(r, c, step),
           step \in {"create", "read", "find", "guard"}, KindFits(c.kind, step),
           c.token # Null => Stored(c.token),
           c.kind = "refresh" /\ c.token # Null => c.token.user = c.who,
           c.dead => c.kind = "refresh" /\ Dead(c.token) /\ step = "find",
           step = "create" =>
              /\ account[c.who] = Null
              /\ \A s \in Request :
                    pc[s] # "idle" /\ op[s].kind = "register" => op[s].who # c.who
    PROVE  Inv'
<1>1. /\ clock' = clock /\ account' = account /\ tokens' = tokens /\ minted' = minted
      /\ pc[r] = "idle" /\ op' = [op EXCEPT ![r] = c] /\ Await(r, step, Null)
      /\ barred' = IF Disabled(c.who) THEN barred \cup {r} ELSE barred
      BY DEF Submit
<1>2. /\ pc' \in [Request -> Step] /\ pc'[r] = step
      /\ held' \in [Request -> Account \cup {Null}]
      /\ answer' = answer
      /\ \A s \in Request \ {r} : pc'[s] = pc[s] /\ held'[s] = held[s]
      BY <1>1, AwaitTypes
<1>3. /\ op' \in [Request -> Command \cup {Null}] /\ op'[r] = c
      /\ \A s \in Request \ {r} : op'[s] = op[s]
      BY <1>1 DEF Inv, Types
<1>4. clock \in Nat /\ clock' \in Nat /\ clock' >= clock
      BY <1>1, SessionsAssumption DEF Inv, Types
<1>5. Grows
      BY <1>1, SameGrows
<1>6. ASSUME NEW s \in Request \ {r} PROVE RequestInv(s)'
  <2>1. s \in barred' => s \in barred
        BY <1>1
  <2>2. /\ minted'[s] = minted[s] /\ answer'[s] = answer[s]
        /\ account'[op[s].who] = account[op[s].who]
        /\ Disabled(op[s].who) => Disabled(op[s].who)'
        BY <1>1, <1>2 DEF Disabled
  <2> QED BY <1>2, <1>3, <1>4, <1>5, <2>1, <2>2, OtherKeeps
<1>7. answer'[r] = 0 /\ r \notin barred
      BY <1>1, <1>2 DEF Inv, RequestInv
<1>8. CommandInv(r)'
      BY <1>1, <1>2, <1>3 DEF CommandInv, Stored, Dead, Live, ExpiresAt
<1>9. HandlerInv(r)'
      BY <1>1, <1>2, <1>3 DEF HandlerInv
<1>10. BarredInv(r)'
  <2>1. step = "create" => r \notin barred'
        BY <1>1, <1>7 DEF Disabled
  <2>2. r \in barred' => Disabled(c.who)'
        BY <1>1, <1>7 DEF Disabled
  <2> QED BY <1>2, <1>3, <2>1, <2>2 DEF BarredInv, Disabled
<1>11. AnswerInv(r)'
       BY <1>7 DEF AnswerInv
<1>12. FreshIds'
  <2>1. c.kind = "register" => step = "create"
        BY DEF KindFits
  <2> QED BY <1>2, <1>3, <2>1 DEF Inv, FreshIds
<1>13. RequestInv(r)'
       BY <1>2, <1>8, <1>9, <1>10, <1>11 DEF RequestInv
<1>14. Types'
       BY <1>1, <1>2, <1>3 DEF Inv, Types
<1> QED BY <1>6, <1>12, <1>13, <1>14 DEF Inv

LEMMA SubmitsInv ==
    ASSUME Inv, NEW r \in Request, NEW u \in User,
           \/ SubmitRegister(r, u) \/ SubmitLogin(r, u) \/ SubmitLogoutAll(r, u)
           \/ \E t \in Token \cup {Null} : SubmitRefresh(r, u, t) \/ SubmitLogout(r, u, t)
    PROVE  Inv'
<1> USE DEF Plain, KindFits, Step
<1>1. ASSUME NEW kind \in {"register", "login", "refresh", "logout", "logoutAll"},
             NEW t \in Token \cup {Null}
      PROVE  /\ Plain(kind, u, t) \in Command
             /\ \A b \in BOOLEAN : [Plain(kind, u, t) EXCEPT !.dead = b] \in Command
             /\ \A e \in SUBSET Token : [Plain(kind, u, t) EXCEPT !.ended = e] \in Command
      BY DEF Command
<1>2. CASE SubmitRegister(r, u)
      BY <1>1, <1>2, SubmitInv DEF SubmitRegister
<1>3. CASE SubmitLogin(r, u)
      BY <1>1, <1>3, SubmitInv DEF SubmitLogin
<1>4. CASE SubmitLogoutAll(r, u)
  <2> DEFINE c == [Plain("logoutAll", u, Null) EXCEPT !.ended = SessionsOf(u)]
  <2>1. SessionsOf(u) \in SUBSET Token
        BY DEF SessionsOf, Stored, Inv, Types, TokenRow
  <2>2. /\ c \in Command /\ c.kind = "logoutAll" /\ c.token = Null /\ ~c.dead
        BY <1>1, <2>1
  <2>3. Submit(r, c, "guard")
        BY <1>4 DEF SubmitLogoutAll
  <2> HIDE DEF c
  <2> QED BY <2>2, <2>3, SubmitInv
<1>5. ASSUME NEW t \in Token \cup {Null}, SubmitRefresh(r, u, t) PROVE Inv'
  <2> DEFINE c == [Plain("refresh", u, t) EXCEPT !.dead = Dead(t)]
  <2>1. /\ c \in Command /\ c.kind = "refresh" /\ c.token = t /\ c.who = u
        /\ c.dead => Dead(t)
        BY <1>1 DEF Dead
  <2>2. Submit(r, c, "find") /\ (t # Null => Stored(t) /\ t.user = u)
        BY <1>5 DEF SubmitRefresh
  <2> HIDE DEF c
  <2> QED BY <2>1, <2>2, SubmitInv
<1>6. ASSUME NEW t \in Token \cup {Null}, SubmitLogout(r, u, t) PROVE Inv'
  <2>1. Plain("logout", u, t) \in Command
        BY <1>1
  <2> QED BY <1>6, <2>1, SubmitInv DEF SubmitLogout
<1> QED BY <1>2, <1>3, <1>4, <1>5, <1>6

LEMMA NextInv == Inv /\ [Next]_vars => Inv'
<1> SUFFICES ASSUME Inv, [Next]_vars PROVE Inv'
    OBVIOUS
<1>1. CASE UNCHANGED vars
  <2>1. /\ UNCHANGED <<clock, account, tokens, op, pc, held, minted, answer, barred>>
        /\ clock \in Nat
        BY <1>1, SessionsAssumption DEF vars, Inv, Types
  <2>2. Grows
        BY <2>1, SameGrows
  <2>3. \A s \in Request : RequestInv(s)'
        BY <2>1, <2>2, OtherKeeps DEF Disabled
  <2> QED BY <2>1, <2>3 DEF Inv, Types, FreshIds
<1>2. ASSUME NEW r \in Request, Proceed(r) PROVE Inv'
      BY <1>2, CreateUserInv, ReadAccountInv, ComparePasswordInv, FindTokenInv,
         FindOwnerInv, RevokePresentedInv, SaveTokenInv, AuthenticateInv, LogoutsInv
         DEF Proceed
<1>3. ASSUME NEW r \in Request, NEW u \in User,
             \/ SubmitRegister(r, u) \/ SubmitLogin(r, u) \/ SubmitLogoutAll(r, u)
             \/ \E t \in Token \cup {Null} : SubmitRefresh(r, u, t) \/ SubmitLogout(r, u, t)
      PROVE  Inv'
      BY <1>3, SubmitsInv
<1> QED BY <1>1, <1>2, <1>3, StatementFailsInv, TickInv, ChangeAccountInv DEF Next

LEMMA NextGrows == Inv /\ [Next]_vars => Grows
<1> SUFFICES ASSUME Inv, Next PROVE Grows
    BY SameGrows DEF vars
<1>1. ASSUME NEW r \in Request, RevokePresented(r) \/ Logout(r) \/ LogoutAll(r)
      PROVE  Grows
      BY <1>1, RevokeGrows DEF RevokePresented, Logout, LogoutAll
<1>2. ASSUME NEW r \in Request, SaveToken(r) PROVE Grows
      BY <1>2, SameGrows DEF SaveToken, Grows, Inv, Types
<1>3. ASSUME NEW r \in Request, Proceed(r) PROVE Grows
  <2>1. CASE tokens' = tokens
        BY <2>1, SameGrows
  <2>2. CASE tokens' # tokens
        BY <1>1, <1>2, <1>3, <2>2 DEF Proceed, CreateUser, ReadAccount, ComparePassword,
           FindToken, FindOwner, Authenticate
  <2> QED BY <2>1, <2>2
<1>4. ASSUME NEW r \in Request, NEW u \in User,
             \/ SubmitRegister(r, u) \/ SubmitLogin(r, u) \/ SubmitLogoutAll(r, u)
             \/ \E t \in Token \cup {Null} : SubmitRefresh(r, u, t) \/ SubmitLogout(r, u, t)
      PROVE  tokens' = tokens
      BY <1>4 DEF SubmitRegister, SubmitLogin, SubmitRefresh, SubmitLogout,
         SubmitLogoutAll, Submit
<1>5. ASSUME NEW r \in Request, StatementFails(r) PROVE tokens' = tokens
      BY <1>5 DEF StatementFails
<1>6. CASE Tick \/ \E u \in User, user \in Account : ChangeAccount(u, user)
      BY <1>6, SameGrows DEF Tick, ChangeAccount
<1> QED BY <1>3, <1>4, <1>5, <1>6, SameGrows DEF Next

-----------------------------------------------------------------------------
THEOREM InvHolds == Spec => []Inv
<1>1. Init => Inv
      BY InitInv
<1>2. Inv /\ [Next]_vars => Inv'
      BY NextInv
<1> QED BY <1>1, <1>2, PTL DEF Spec

\* Type correctness, for every instance.
THEOREM TypeCorrect == Spec => []TypeOK
BY InvHolds, InvTypeOK, PTL

\* Revocation is for ever, however requests overlap.
THEOREM RevocationLasts == Spec => RevokedForever
<1>1. Grows => \A t \in Token : Stored(t) /\ tokens[t].revoked =>
                                   tokens'[t] # Null /\ tokens'[t].revoked
      BY DEF Grows, Stored
<1>2. Inv /\ [Next]_vars =>
         [\A t \in Token : Stored(t) /\ tokens[t].revoked =>
                              tokens'[t] # Null /\ tokens'[t].revoked]_vars
      BY <1>1, NextGrows
<1> QED BY <1>2, InvHolds, PTL DEF Spec, RevokedForever

\* Dead tokens and disabled accounts obtain nothing.
THEOREM HopelessFail == Spec => []HopelessRequestsFail
BY InvHolds, InvHopeless, PTL

\* Every refresh token a client was handed is in the table, in its session.
THEOREM IssuedStored == Spec => []IssuedTokensAreStored
BY InvHolds, InvIssued, PTL

\* An answered logout or refresh has revoked the token it names.
THEOREM AnsweredRevoked == Spec => []AnsweredMeansRevoked
BY InvHolds, InvAnswered, PTL
=============================================================================
