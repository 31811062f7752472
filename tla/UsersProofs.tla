---------------------------- MODULE UsersProofs ----------------------------
(***************************************************************************)
(* Proofs about the user module, for any number of users, addresses and    *)
(* requests.  However their steps interleave: the types and the uniqueness *)
(* of mailboxes.  Where no two requests hold copies of the same row: no    *)
(* write loses another's.  Where, besides, no two demotions overlap: the   *)
(* module implements UserDirectory, so that an administrator remains.  A   *)
(* deployment whose PATCH requests do not overlap at all is a special case.*)
(***************************************************************************)
EXTENDS Users, FiniteSetTheorems, TLAPS

-----------------------------------------------------------------------------
(* The inductive invariant. *)

\* The kind of request that can be suspended at a step.
KindFits(kind, step) ==
    /\ step \in {"lookup", "exists", "insert"} => kind = "register"
    /\ step = "read" => kind = "signIn"
    /\ step = "sign" => kind \in {"register", "signIn"}
    /\ step = "count" => kind = "updateRole"
    /\ step \in {"guard", "find", "select", "update"} => kind \in {"updateMe", "updateRole"}

WellFormed(c) ==
    /\ c \in Command
    /\ c.kind = "register" => c.email \in Spelling /\ c.profile \in Profile
    /\ c.kind = "updateRole" => c.role \in Role

\* What request r holds at each of its steps.
RequestInv(r) ==
    /\ pc[r] # "idle" => WellFormed(op[r]) /\ KindFits(op[r].kind, pc[r])
    /\ pc[r] \in {"lookup", "exists", "insert"} => table[op[r].who] = Null
    /\ pc[r] = "insert" => entity[r] = NewUser(op[r])
    /\ pc[r] = "sign" => entity[r] \in Row
    /\ pc[r] \in {"count", "select", "update"} =>
          /\ entity[r] \in Row
          /\ table[op[r].target] # Null
          /\ entity[r].email = table[op[r].target].email
    /\ pc[r] = "update" =>
          /\ loaded[r] \in Row
          /\ loaded[r].email = table[op[r].target].email

\* No two registrations were given the same uuid.
FreshIds ==
    \A r, s \in Request :
        /\ pc[r] # "idle" /\ pc[s] # "idle"
        /\ op[r].kind = "register" /\ op[s].kind = "register"
        /\ op[r].who = op[s].who
        => r = s

Types ==
    /\ table \in Table
    /\ claims \in [User -> SUBSET Role]
    /\ op \in [Request -> Command \cup {Null}]
    /\ pc \in [Request -> Step]
    /\ entity \in [Request -> Row \cup {Null}]
    /\ loaded \in [Request -> Row \cup {Null}]
    /\ answer \in [Request -> Status]

Inv ==
    /\ Types
    /\ UniqueEmails(table)
    /\ Canonical(table)
    /\ FreshIds
    /\ \A r \in Request : RequestInv(r)

-----------------------------------------------------------------------------
(* Facts about rows. *)

\* The entity a registration builds is a row whose address is in lower case.
LEMMA NewUserIsRow ==
    ASSUME NEW c, WellFormed(c), c.kind = "register"
    PROVE  NewUser(c) \in Row /\ Canon[NewUser(c).email] = NewUser(c).email
BY CanonAssumption DEF NewUser, Row, Role, WellFormed

\* The entity a PATCH builds is a row with the address of the row it read.
LEMMA EditedIsRow ==
    ASSUME NEW c, WellFormed(c), NEW user \in Row
    PROVE  Edited(c, user) \in Row /\ Edited(c, user).email = user.email
BY DEF Edited, Coalesce, Row, WellFormed, Command

\* UPDATE keeps a row a row, and its address when both reads agree on it.
LEMMA MergedIsRow ==
    ASSUME NEW new \in Row, NEW selected \in Row, NEW current \in Row,
           new.email = selected.email
    PROVE  /\ Merged(new, selected, current) \in Row
           /\ Merged(new, selected, current).email = current.email
BY DEF Merged, Column, Row

\* The invariant implies the type invariant the runs check.
LEMMA InvTypeOK == Inv => TypeOK
<1> SUFFICES ASSUME Inv PROVE TypeOK
    OBVIOUS
<1>1. ASSUME NEW r \in Request
      PROVE  /\ pc[r] # "idle" => op[r] # Null
             /\ pc[r] \in {"select", "update", "insert", "sign"} => entity[r] # Null
             /\ pc[r] = "update" => loaded[r] # Null /\ table[op[r].target] # Null
  <2>1. RequestInv(r)
        BY DEF Inv
  <2>2. pc[r] # "idle" => op[r] # Null
        BY <2>1, CommandAssumption DEF RequestInv, WellFormed
  <2>3. pc[r] = "insert" => entity[r] # Null
        BY <2>1, NewUserIsRow, NullAssumption DEF RequestInv, KindFits
  <2> QED BY <2>1, <2>2, <2>3, NullAssumption DEF RequestInv
<1> QED BY <1>1 DEF TypeOK, Inv, Types

-----------------------------------------------------------------------------
(* The invariant is inductive. *)

LEMMA InitInv == Init => Inv
<1> SUFFICES ASSUME Init PROVE Inv
    OBVIOUS
<1>1. Types
      BY InitialAssumption DEF Init, Types, Table, Row, Role, Step, Status
<1>2. UniqueEmails(table) /\ Canonical(table)
      BY InitialAssumption DEF Init
<1> QED BY <1>1, <1>2 DEF Init, Inv, FreshIds, RequestInv

\* A step of request r that leaves the table and every command alone keeps
\* what the other requests hold.
LEMMA OthersKeep ==
    ASSUME Inv, NEW r \in Request,
           table' = table, op' = op,
           \A s \in Request \ {r} : pc'[s] = pc[s] /\ entity'[s] = entity[s]
                                                   /\ loaded'[s] = loaded[s]
    PROVE  \A s \in Request \ {r} : RequestInv(s)'
<1> TAKE s \in Request \ {r}
<1>1. RequestInv(s)
      BY DEF Inv
<1> QED BY <1>1 DEF RequestInv

\* An answer leaves the request with nothing to hold.
LEMMA AnswerStep ==
    ASSUME Inv, NEW r \in Request, NEW status \in Status, Answer(r, status),
           pc[r] # "idle", op' = op
    PROVE  /\ pc' \in [Request -> Step]
           /\ entity' \in [Request -> Row \cup {Null}]
           /\ loaded' \in [Request -> Row \cup {Null}]
           /\ answer' \in [Request -> Status]
           /\ FreshIds'
           /\ RequestInv(r)'
           /\ \A s \in Request \ {r} : pc'[s] = pc[s] /\ entity'[s] = entity[s]
                                                      /\ loaded'[s] = loaded[s]
<1>1. /\ pc' \in [Request -> Step] /\ pc'[r] = "done"
      /\ entity' \in [Request -> Row \cup {Null}]
      /\ loaded' \in [Request -> Row \cup {Null}]
      /\ answer' \in [Request -> Status]
      /\ \A s \in Request \ {r} : pc'[s] = pc[s] /\ entity'[s] = entity[s]
                                                 /\ loaded'[s] = loaded[s]
      BY DEF Answer, Inv, Types, Step
<1>2. FreshIds'
      BY <1>1 DEF Inv, FreshIds
<1>3. RequestInv(r)
      BY DEF Inv
<1>4. RequestInv(r)'
      BY <1>1, <1>3 DEF RequestInv, KindFits
<1> QED BY <1>1, <1>2, <1>4

\* So does an await, but for the entity it suspends with.
LEMMA AwaitStep ==
    ASSUME Inv, NEW r \in Request, NEW step \in Step, NEW user \in Row \cup {Null},
           Await(r, step, user), pc[r] # "idle", op' = op, step # "idle"
    PROVE  /\ pc' \in [Request -> Step]
           /\ entity' \in [Request -> Row \cup {Null}]
           /\ loaded' \in [Request -> Row \cup {Null}]
           /\ answer' \in [Request -> Status]
           /\ FreshIds'
           /\ pc'[r] = step /\ entity'[r] = user
           /\ \A s \in Request \ {r} : pc'[s] = pc[s] /\ entity'[s] = entity[s]
                                                      /\ loaded'[s] = loaded[s]
<1>1. /\ pc' \in [Request -> Step] /\ pc'[r] = step /\ entity'[r] = user
      /\ entity' \in [Request -> Row \cup {Null}]
      /\ loaded' \in [Request -> Row \cup {Null}]
      /\ answer' \in [Request -> Status]
      /\ \A s \in Request \ {r} : pc'[s] = pc[s] /\ entity'[s] = entity[s]
                                                 /\ loaded'[s] = loaded[s]
      BY DEF Await, Inv, Types
<1>2. FreshIds'
      BY <1>1 DEF Inv, FreshIds
<1> QED BY <1>1, <1>2

\* What a PATCH finds under the id of an existing row.
LEMMA RowTyped ==
    ASSUME Inv, NEW u \in User, table[u] # Null
    PROVE  table[u] \in Row
BY DEF Inv, Types, Table

\* Every step that leaves the table and the commands alone keeps Inv, if
\* it keeps the types and what its own request holds.
LEMMA QuietStep ==
    ASSUME Inv, NEW r \in Request,
           table' = table, op' = op, claims' \in [User -> SUBSET Role],
           pc' \in [Request -> Step],
           entity' \in [Request -> Row \cup {Null}],
           loaded' \in [Request -> Row \cup {Null}],
           answer' \in [Request -> Status],
           FreshIds', RequestInv(r)',
           \A s \in Request \ {r} : pc'[s] = pc[s] /\ entity'[s] = entity[s]
                                                   /\ loaded'[s] = loaded[s]
    PROVE  Inv'
<1>1. \A s \in Request \ {r} : RequestInv(s)'
      BY OthersKeep
<1>2. Types'
      BY DEF Inv, Types
<1>3. UniqueEmails(table)' /\ Canonical(table)'
      BY DEF Inv, UniqueEmails, Canonical, Rows
<1> QED BY <1>1, <1>2, <1>3 DEF Inv

\* Steps that only answer, or await with an entity that fits, keep Inv.
LEMMA ProceedQuietly ==
    ASSUME Inv, NEW r \in Request, pc[r] # "idle",
           table' = table, op' = op, claims' \in [User -> SUBSET Role],
           \/ \E status \in Status : Answer(r, status)
           \/ \E step \in Step, user \in Row \cup {Null} :
                 Await(r, step, user) /\ step # "idle" /\ RequestInv(r)'
    PROVE  Inv'
<1>1. CASE \E status \in Status : Answer(r, status)
      BY <1>1, AnswerStep, QuietStep
<1>2. CASE \E step \in Step, user \in Row \cup {Null} :
              Await(r, step, user) /\ step # "idle" /\ RequestInv(r)'
      BY <1>2, AwaitStep, QuietStep
<1> QED BY <1>1, <1>2

LEMMA AuthenticateInv ==
    ASSUME Inv, NEW r \in Request, Authenticate(r) PROVE Inv'
<1>1. RequestInv(r) /\ claims \in [User -> SUBSET Role] /\ pc[r] = "guard"
      BY DEF Inv, Types, Authenticate
<1>2. CASE Await(r, "find", Null)
  <2>1. pc'[r] = "find" /\ op' = op
        BY <1>2 DEF Await, Inv, Types, Authenticate
  <2>2. RequestInv(r)'
        BY <1>1, <2>1 DEF RequestInv, KindFits
  <2> QED BY <1>1, <1>2, <2>2, ProceedQuietly DEF Authenticate, Step
<1>3. CASE \E status \in Status : Answer(r, status)
      BY <1>1, <1>3, ProceedQuietly DEF Authenticate
<1> QED BY <1>2, <1>3 DEF Authenticate, Status

LEMMA FindForProfileInv ==
    ASSUME Inv, NEW r \in Request, FindForProfile(r) PROVE Inv'
<1> DEFINE u == op[r].target
<1>1. RequestInv(r) /\ claims \in [User -> SUBSET Role] /\ pc[r] = "find"
      BY DEF Inv, Types, FindForProfile
<1>2. WellFormed(op[r]) /\ u \in User
      BY <1>1 DEF RequestInv, WellFormed, Command
<1>3. CASE Answer(r, 404)
      BY <1>1, <1>3, ProceedQuietly DEF FindForProfile, Status
<1>4. CASE table[u] # Null /\ Await(r, "select", Edited(op[r], table[u]))
  <2>1. Edited(op[r], table[u]) \in Row /\ Edited(op[r], table[u]).email = table[u].email
        BY <1>2, <1>4, RowTyped, EditedIsRow
  <2>2. pc'[r] = "select" /\ op' = op /\ table' = table /\ entity'[r] = Edited(op[r], table[u])
        BY <1>4 DEF Await, Inv, Types, FindForProfile
  <2>3. RequestInv(r)'
        BY <1>1, <1>4, <2>1, <2>2 DEF RequestInv, KindFits
  <2> QED BY <1>1, <1>4, <2>1, <2>3, ProceedQuietly DEF FindForProfile, Step
<1> QED BY <1>3, <1>4 DEF FindForProfile

LEMMA FindForRoleInv ==
    ASSUME Inv, NEW r \in Request, FindForRole(r) PROVE Inv'
<1> DEFINE u == op[r].target
<1>1. /\ RequestInv(r) /\ claims \in [User -> SUBSET Role]
      /\ pc[r] = "find" /\ op[r].kind = "updateRole"
      BY DEF Inv, Types, FindForRole
<1>2. WellFormed(op[r]) /\ u \in User
      BY <1>1 DEF RequestInv, WellFormed, Command
<1>3. CASE \E status \in Status : Answer(r, status)
      BY <1>1, <1>3, ProceedQuietly DEF FindForRole
<1>4. ASSUME NEW step \in {"count", "select"},
             table[u] # Null, Await(r, step, Edited(op[r], table[u]))
      PROVE  Inv'
  <2>1. Edited(op[r], table[u]) \in Row /\ Edited(op[r], table[u]).email = table[u].email
        BY <1>2, <1>4, RowTyped, EditedIsRow
  <2>2. pc'[r] = step /\ op' = op /\ table' = table /\ entity'[r] = Edited(op[r], table[u])
        BY <1>4 DEF Await, Inv, Types, FindForRole
  <2>3. RequestInv(r)'
        BY <1>1, <1>4, <2>1, <2>2 DEF RequestInv, KindFits
  <2> QED BY <1>1, <1>4, <2>1, <2>3, ProceedQuietly DEF FindForRole, Step
<1> QED BY <1>3, <1>4 DEF FindForRole, Status

LEMMA CountAdminsInv ==
    ASSUME Inv, NEW r \in Request, CountAdmins(r) PROVE Inv'
<1>1. /\ RequestInv(r) /\ claims \in [User -> SUBSET Role] /\ pc[r] = "count"
      /\ entity[r] \in Row
      BY DEF Inv, Types, CountAdmins, RequestInv
<1>2. CASE Answer(r, 403)
      BY <1>1, <1>2, ProceedQuietly DEF CountAdmins, Status
<1>3. CASE Await(r, "select", entity[r])
  <2>1. pc'[r] = "select" /\ op' = op /\ table' = table /\ entity'[r] = entity[r]
        BY <1>3 DEF Await, Inv, Types, CountAdmins
  <2>2. RequestInv(r)'
        BY <1>1, <2>1 DEF RequestInv, KindFits
  <2> QED BY <1>1, <1>3, <2>2, ProceedQuietly DEF CountAdmins, Step
<1> QED BY <1>2, <1>3 DEF CountAdmins

LEMMA SaveSelectInv ==
    ASSUME Inv, NEW r \in Request, SaveSelect(r) PROVE Inv'
<1> DEFINE u == op[r].target
<1>1. RequestInv(r) /\ pc[r] = "select"
      BY DEF Inv, SaveSelect
<1>2. u \in User /\ table[u] \in Row
      BY <1>1, RowTyped DEF RequestInv, WellFormed, Command
<1>3. /\ pc' \in [Request -> Step] /\ pc'[r] = "update"
      /\ loaded' \in [Request -> Row \cup {Null}] /\ loaded'[r] = table[u]
      /\ \A s \in Request \ {r} : pc'[s] = pc[s] /\ entity'[s] = entity[s]
                                                 /\ loaded'[s] = loaded[s]
      BY <1>2 DEF SaveSelect, Inv, Types, Step
<1>4. RequestInv(r)'
      BY <1>1, <1>2, <1>3 DEF SaveSelect, RequestInv, KindFits
<1>5. FreshIds'
      BY <1>1, <1>3 DEF Inv, FreshIds, SaveSelect
<1> QED BY <1>3, <1>4, <1>5, QuietStep DEF SaveSelect, Inv, Types

LEMMA LookUpEmailInv ==
    ASSUME Inv, NEW r \in Request, LookUpEmail(r) PROVE Inv'
<1>1. RequestInv(r) /\ claims \in [User -> SUBSET Role] /\ pc[r] = "lookup"
      BY DEF Inv, Types, LookUpEmail
<1>2. CASE Answer(r, 409)
      BY <1>1, <1>2, ProceedQuietly DEF LookUpEmail, Status
<1>3. CASE Await(r, "exists", Null)
  <2>1. pc'[r] = "exists" /\ op' = op /\ table' = table
        BY <1>3 DEF Await, Inv, Types, LookUpEmail
  <2>2. RequestInv(r)'
        BY <1>1, <2>1 DEF RequestInv, KindFits
  <2> QED BY <1>1, <1>3, <2>2, ProceedQuietly DEF LookUpEmail, Step
<1> QED BY <1>2, <1>3 DEF LookUpEmail

LEMMA ExistsByEmailInv ==
    ASSUME Inv, NEW r \in Request, ExistsByEmail(r) PROVE Inv'
<1>1. RequestInv(r) /\ claims \in [User -> SUBSET Role] /\ pc[r] = "exists"
      BY DEF Inv, Types, ExistsByEmail
<1>2. CASE Answer(r, 409)
      BY <1>1, <1>2, ProceedQuietly DEF ExistsByEmail, Status
<1>3. CASE Await(r, "insert", NewUser(op[r]))
  <2>1. /\ pc'[r] = "insert" /\ op' = op /\ table' = table
        /\ entity'[r] = NewUser(op[r])
        BY <1>3 DEF Await, Inv, Types, ExistsByEmail
  <2>2. NewUser(op[r]) \in Row
        BY <1>1, NewUserIsRow DEF RequestInv, KindFits
  <2>3. RequestInv(r)'
        BY <1>1, <2>1 DEF RequestInv, KindFits, NewUser
  <2> QED BY <1>1, <1>3, <2>2, <2>3, ProceedQuietly DEF ExistsByEmail, Step
<1> QED BY <1>2, <1>3 DEF ExistsByEmail

LEMMA ReadCredentialsInv ==
    ASSUME Inv, NEW r \in Request, ReadCredentials(r) PROVE Inv'
<1> DEFINE user == table[op[r].who]
<1>1. RequestInv(r) /\ claims \in [User -> SUBSET Role] /\ pc[r] = "read"
      BY DEF Inv, Types, ReadCredentials
<1>2. CASE Answer(r, 401)
      BY <1>1, <1>2, ProceedQuietly DEF ReadCredentials, Status
<1>3. CASE user # Null /\ Await(r, "sign", user)
  <2>1. user \in Row
        BY <1>1, <1>3, RowTyped DEF RequestInv, WellFormed, Command
  <2>2. pc'[r] = "sign" /\ op' = op /\ table' = table /\ entity'[r] = user
        BY <1>3 DEF Await, Inv, Types, ReadCredentials
  <2>3. RequestInv(r)'
        BY <1>1, <2>1, <2>2 DEF RequestInv, KindFits
  <2> QED BY <1>1, <1>3, <2>1, <2>3, ProceedQuietly DEF ReadCredentials, Step
<1> QED BY <1>2, <1>3 DEF ReadCredentials

LEMMA SignTokensInv ==
    ASSUME Inv, NEW r \in Request, SignTokens(r) PROVE Inv'
<1>1. RequestInv(r) /\ claims \in [User -> SUBSET Role] /\ pc[r] = "sign"
      BY DEF Inv, Types, SignTokens
<1>2. entity[r].role \in Role /\ op[r].who \in User
      BY <1>1 DEF RequestInv, WellFormed, Command, Row
<1>3. claims' \in [User -> SUBSET Role]
      BY <1>1, <1>2 DEF SignTokens
<1>4. \E status \in Status : Answer(r, status)
      BY DEF SignTokens, Status
<1> QED BY <1>1, <1>3, <1>4, ProceedQuietly DEF SignTokens

LEMMA StatementFailsInv ==
    ASSUME Inv, NEW r \in Request, StatementFails(r) PROVE Inv'
BY ProceedQuietly DEF StatementFails, Status, Inv, Types

LEMMA ClaimExpiresInv ==
    ASSUME Inv, NEW u \in User, NEW role \in Role, ClaimExpires(u, role) PROVE Inv'
<1>1. Types'
      BY DEF Inv, Types, ClaimExpires
<1>2. /\ table' = table /\ op' = op /\ pc' = pc
      /\ entity' = entity /\ loaded' = loaded
      BY DEF ClaimExpires
<1>3. \A r \in Request : RequestInv(r)'
      BY <1>2 DEF Inv, RequestInv
<1> QED BY <1>1, <1>2, <1>3 DEF Inv, FreshIds, UniqueEmails, Canonical, Rows

\* An arriving request holds nothing yet.
LEMMA SubmitInv ==
    ASSUME Inv, NEW r \in Request, NEW c, WellFormed(c), Submit(r, c),
           c.kind = "register" =>
              /\ table[c.who] = Null
              /\ \A s \in Request :
                    pc[s] # "idle" /\ op[s].kind = "register" => op[s].who # c.who
    PROVE  Inv'
<1> DEFINE step == FirstStep(c)
<1>1. step \in {"lookup", "read", "guard"}
      BY DEF FirstStep
<1>2. /\ pc' \in [Request -> Step] /\ pc'[r] = step
      /\ op' \in [Request -> Command \cup {Null}] /\ op'[r] = c
      /\ entity' \in [Request -> Row \cup {Null}]
      /\ \A s \in Request \ {r} : /\ pc'[s] = pc[s] /\ op'[s] = op[s]
                                  /\ entity'[s] = entity[s]
      BY <1>1 DEF Submit, Await, Inv, Types, Step, WellFormed
<1>3. UNCHANGED <<table, claims, loaded, answer>>
      BY DEF Submit, Await
<1>4. Types'
      BY <1>2, <1>3 DEF Inv, Types
<1>5. FreshIds'
      BY <1>2 DEF Inv, FreshIds, Submit
<1>6. ASSUME NEW s \in Request \ {r} PROVE RequestInv(s)'
  <2>1. RequestInv(s)
        BY DEF Inv
  <2> QED BY <2>1, <1>2, <1>3 DEF RequestInv
<1>7. RequestInv(r)'
  <2>1. KindFits(c.kind, step)
        BY DEF FirstStep, KindFits, WellFormed, Command
  <2> QED BY <2>1, <1>1, <1>2, <1>3 DEF RequestInv, FirstStep
<1> QED BY <1>3, <1>4, <1>5, <1>6, <1>7 DEF Inv, UniqueEmails, Canonical, Rows

\* A registration writes a row nobody else can be writing.
LEMMA SaveInsertInv ==
    ASSUME Inv, NEW r \in Request, SaveInsert(r) PROVE Inv'
<1> DEFINE u == op[r].who
           user == entity[r]
<1>1. /\ RequestInv(r) /\ claims \in [User -> SUBSET Role] /\ pc[r] = "insert"
      /\ op' = op /\ claims' = claims
      BY DEF Inv, Types, SaveInsert
<1>2. /\ user = NewUser(op[r]) /\ table[u] = Null /\ u \in User
      /\ WellFormed(op[r]) /\ op[r].kind = "register"
      BY <1>1 DEF RequestInv, KindFits, WellFormed, Command
<1>3. user \in Row /\ Canon[user.email] = user.email
      BY <1>2, NewUserIsRow
<1>4. CASE Answer(r, 500) /\ UNCHANGED table
      BY <1>1, <1>4, ProceedQuietly DEF Status
<1>5. CASE /\ ~\E v \in Rows(table) : table[v].email = user.email
           /\ table' = [table EXCEPT ![u] = user]
           /\ Await(r, "sign", user)
  <2>1. /\ table' \in Table /\ table'[u] = user
        /\ \A v \in User \ {u} : table'[v] = table[v]
        BY <1>2, <1>3, <1>5 DEF Inv, Types, Table
  <2>2. Rows(table') = Rows(table) \cup {u}
        BY <2>1, <1>2, <1>3, NullAssumption DEF Rows
  <2>3. UniqueEmails(table')
        BY <2>1, <2>2, <1>2, <1>5 DEF Inv, UniqueEmails, Rows
  <2>4. Canonical(table')
        BY <2>1, <2>2, <1>3 DEF Inv, Canonical, Rows
  <2>5. /\ pc' \in [Request -> Step] /\ pc'[r] = "sign" /\ entity'[r] = user
        /\ entity' \in [Request -> Row \cup {Null}]
        /\ loaded' \in [Request -> Row \cup {Null}]
        /\ answer' \in [Request -> Status]
        /\ FreshIds'
        /\ \A s \in Request \ {r} : pc'[s] = pc[s] /\ entity'[s] = entity[s]
                                                   /\ loaded'[s] = loaded[s]
        BY <1>1, <1>3, <1>5, AwaitStep DEF Step
  <2>6. RequestInv(r)'
        BY <1>1, <1>2, <1>3, <2>5 DEF RequestInv, KindFits
  <2>7. ASSUME NEW s \in Request \ {r} PROVE RequestInv(s)'
    <3>1. RequestInv(s)
          BY DEF Inv
    <3>2. pc[s] \in {"lookup", "exists", "insert"} => op[s].who \in User \ {u}
          BY <3>1, <1>1, <1>2 DEF RequestInv, KindFits, WellFormed, Command, Inv, FreshIds
    <3>3. pc[s] \in {"count", "select", "update"} => op[s].target \in User \ {u}
          BY <3>1, <1>2 DEF RequestInv, WellFormed, Command
    <3> QED BY <3>1, <3>2, <3>3, <2>1, <2>5, <1>1 DEF RequestInv
  <2>8. Types'
        BY <1>1, <2>1, <2>5 DEF Inv, Types
  <2> QED BY <2>3, <2>4, <2>5, <2>6, <2>7, <2>8 DEF Inv
<1> QED BY <1>4, <1>5 DEF SaveInsert

\* A PATCH writes the row it read, under the address it read.
LEMMA SaveUpdateInv ==
    ASSUME Inv, NEW r \in Request, SaveUpdate(r) PROVE Inv'
<1> DEFINE u == op[r].target
           row == Merged(entity[r], loaded[r], table[u])
<1>1. /\ RequestInv(r) /\ pc[r] = "update" /\ \E status \in Status : Answer(r, status)
      /\ op' = op /\ claims' = claims /\ table' = [table EXCEPT ![u] = row]
      BY DEF Inv, SaveUpdate, Acknowledge, Status
<1>2. /\ entity[r] \in Row /\ loaded[r] \in Row /\ table[u] # Null
      /\ entity[r].email = loaded[r].email /\ u \in User
      BY <1>1 DEF RequestInv, WellFormed, Command
<1>3. row \in Row /\ row.email = table[u].email
      BY <1>2, MergedIsRow, RowTyped
<1>4. /\ table' \in Table /\ table'[u] = row
      /\ \A v \in User \ {u} : table'[v] = table[v]
      BY <1>1, <1>2, <1>3 DEF Inv, Types, Table
<1>5. Rows(table') = Rows(table)
      BY <1>2, <1>3, <1>4, NullAssumption DEF Rows
<1>6. \A v \in Rows(table) : table'[v].email = table[v].email
      BY <1>3, <1>4 DEF Rows
<1>7. UniqueEmails(table') /\ Canonical(table')
      BY <1>5, <1>6 DEF Inv, UniqueEmails, Canonical
<1>8. /\ pc' \in [Request -> Step]
      /\ entity' \in [Request -> Row \cup {Null}]
      /\ loaded' \in [Request -> Row \cup {Null}]
      /\ answer' \in [Request -> Status]
      /\ FreshIds' /\ RequestInv(r)'
      /\ \A s \in Request \ {r} : pc'[s] = pc[s] /\ entity'[s] = entity[s]
                                                 /\ loaded'[s] = loaded[s]
  <2>1. pc'[r] = "done"
        BY <1>1 DEF Answer, Inv, Types
  <2>2. RequestInv(r)'
        BY <1>1, <2>1 DEF RequestInv, KindFits
  <2> QED BY <1>1, <2>2, AnswerStep
<1>9. ASSUME NEW s \in Request \ {r} PROVE RequestInv(s)'
  <2>1. RequestInv(s)
        BY DEF Inv
  <2>2. pc[s] \in {"lookup", "exists", "insert"} => op[s].who \in User \ {u}
        BY <2>1, <1>2 DEF RequestInv, WellFormed, Command
  <2>3. pc[s] \in {"count", "select", "update"} =>
           op[s].target \in Rows(table) /\ table'[op[s].target] # Null
        BY <2>1, <1>5 DEF RequestInv, WellFormed, Command, Rows
  <2> QED BY <2>1, <2>2, <2>3, <1>1, <1>4, <1>6, <1>8 DEF RequestInv
<1>10. Types'
       BY <1>1, <1>4, <1>8 DEF Inv, Types
<1> QED BY <1>7, <1>8, <1>9, <1>10 DEF Inv

LEMMA NextInv == Inv /\ [Next]_vars => Inv'
<1> SUFFICES ASSUME Inv, [Next]_vars PROVE Inv'
    OBVIOUS
<1>1. CASE UNCHANGED vars
      BY <1>1 DEF vars, Inv, Types, FreshIds, RequestInv, UniqueEmails, Canonical, Rows
<1>2. ASSUME NEW r \in Request, NEW c \in RegisterCommands, SubmitRegister(r, c)
      PROVE  Inv'
  <2>1. WellFormed(c)
        BY DEF RegisterCommands, WellFormed, Command
  <2> QED BY <1>2, <2>1, SubmitInv DEF SubmitRegister
<1>3. ASSUME NEW r \in Request, NEW c \in SignInCommands, SubmitSignIn(r, c)
      PROVE  Inv'
  <2>1. WellFormed(c) /\ c.kind # "register"
        BY DEF SignInCommands, WellFormed, Command
  <2> QED BY <1>3, <2>1, SubmitInv DEF SubmitSignIn
<1>4. ASSUME NEW r \in Request, NEW c \in UpdateMeCommands \cup UpdateRoleCommands,
             SubmitPatch(r, c)
      PROVE  Inv'
  <2>1. WellFormed(c) /\ c.kind # "register"
        BY DEF UpdateMeCommands, UpdateRoleCommands, WellFormed, Command
  <2> QED BY <1>4, <2>1, SubmitInv DEF SubmitPatch
<1>5. ASSUME NEW r \in Request, Proceed(r)
      PROVE  Inv'
      BY <1>5, AuthenticateInv, FindForProfileInv, FindForRoleInv, CountAdminsInv,
         SaveSelectInv, SaveUpdateInv, LookUpEmailInv, ExistsByEmailInv, SaveInsertInv,
         ReadCredentialsInv, SignTokensInv DEF Proceed
<1>6. ASSUME NEW r \in Request, StatementFails(r)
      PROVE  Inv'
      BY <1>6, StatementFailsInv
<1>7. ASSUME NEW u \in User, NEW role \in Role, ClaimExpires(u, role)
      PROVE  Inv'
      BY <1>7, ClaimExpiresInv
<1> QED BY <1>1, <1>2, <1>3, <1>4, <1>5, <1>6, <1>7 DEF Next

THEOREM InvHolds == Spec => []Inv
<1>1. Init => Inv
      BY InitInv
<1>2. Inv /\ [Next]_vars => Inv'
      BY NextInv
<1> QED BY <1>1, <1>2, PTL DEF Spec

\* Type correctness, for every instance.
THEOREM TypeCorrect == Spec => []TypeOK
<1>1. Inv => TypeOK
      BY InvTypeOK
<1> QED BY <1>1, InvHolds, PTL

\* No interleaving of registrations gives one mailbox two accounts.
THEOREM MailboxesUnique == Spec => []OneAccountPerMailbox
<1>1. Inv => OneAccountPerMailbox
      BY DEF Inv, UniqueEmails, Canonical, OneAccountPerMailbox
<1> QED BY <1>1, InvHolds, PTL

-----------------------------------------------------------------------------
(* The directory keeps its table legal. *)

\* The directory's words mean what this module's do.
LEMMA Vocabulary ==
    /\ Directory!Role = Role /\ Directory!Row = Row /\ Directory!Table = Table
    /\ \A t : /\ Directory!Rows(t) = Rows(t)
              /\ Directory!Admins(t) = Admins(t)
              /\ Directory!UniqueEmails(t) <=> UniqueEmails(t)
              /\ Directory!HasAdmin(t) <=> HasAdmin(t)
              /\ \A e : Directory!EmailTaken(t, e) <=> EmailTaken(t, e)
<1>1. Directory!Role = Role /\ Directory!Row = Row /\ Directory!Table = Table
      BY DEF Directory!Role, Directory!Row, Directory!Table, Role, Row, Table
<1>2. ASSUME NEW t PROVE Directory!Rows(t) = Rows(t)
      BY DEF Directory!Rows, Rows
<1>3. ASSUME NEW t PROVE Directory!Admins(t) = Admins(t)
      BY <1>2 DEF Directory!Admins, Admins
<1> QED BY <1>1, <1>2, <1>3 DEF Directory!UniqueEmails, UniqueEmails,
           Directory!HasAdmin, HasAdmin, Directory!EmailTaken, EmailTaken

\* Every operation of the directory keeps addresses unique and an
\* administrator in place.
LEMMA DirectoryStepLegal ==
    Directory!DirectoryLegal /\ Directory!DirectoryNext => Directory!DirectoryLegal'
<1> SUFFICES ASSUME Directory!DirectoryLegal, NEW u \in User,
                    \/ \E e \in Spelling, p \in Profile : Directory!Register(u, e, p)
                    \/ Directory!UpdateProfile(u)
                    \/ \E role \in Role : Directory!UpdateRole(u, role)
             PROVE  Directory!DirectoryLegal'
    BY Vocabulary DEF Directory!DirectoryNext
<1> DEFINE Legal(t) == t \in Table /\ UniqueEmails(t) /\ HasAdmin(t)
<1>0. Legal(table) /\ (Legal(table') => Directory!DirectoryLegal')
      BY Vocabulary DEF Directory!DirectoryLegal
<1>1. PICK admin \in User : table[admin] # Null /\ table[admin].role = "ADMIN"
      BY <1>0 DEF HasAdmin, Admins, Rows
<1>2. ASSUME NEW e \in Spelling, NEW p \in Profile, Directory!Register(u, e, p)
      PROVE  Directory!DirectoryLegal'
  <2> DEFINE row == [email |-> Canon[e], profile |-> p, role |-> "USER", active |-> TRUE]
  <2>1. row \in Row /\ table[u] = Null /\ ~EmailTaken(table, e)
        BY <1>2, Vocabulary, CanonAssumption DEF Directory!Register, Row, Role
  <2>2. /\ table' \in Table /\ table'[u] = row
        /\ \A v \in User \ {u} : table'[v] = table[v]
        BY <1>0, <1>2, <2>1 DEF Directory!Register, Table
  <2>3. Rows(table') = Rows(table) \cup {u}
        BY <2>1, <2>2, NullAssumption DEF Rows
  <2>4. UniqueEmails(table')
        BY <1>0, <2>1, <2>2, <2>3 DEF UniqueEmails, EmailTaken, Rows
  <2>5. HasAdmin(table')
        BY <1>1, <2>1, <2>2 DEF HasAdmin, Admins, Rows
  <2> QED BY <1>0, <2>2, <2>4, <2>5
<1>3. ASSUME Directory!UpdateProfile(u)
      PROVE  Directory!DirectoryLegal'
  <2>1. PICK p \in Profile, a \in BOOLEAN :
            table' = [table EXCEPT ![u] = [email |-> table[u].email, profile |-> p,
                                           role |-> table[u].role, active |-> a]]
        BY <1>3 DEF Directory!UpdateProfile
  <2>2. table[u] \in Row /\ u \in Rows(table)
        BY <1>0, <1>3 DEF Directory!UpdateProfile, Table, Rows
  <2>3. /\ table' \in Table /\ table'[u].email = table[u].email
        /\ table'[u].role = table[u].role /\ table'[u] # Null
        /\ \A v \in User \ {u} : table'[v] = table[v]
        BY <1>0, <2>1, <2>2, NullAssumption DEF Table, Row
  <2>4. Rows(table') = Rows(table)
        BY <2>2, <2>3 DEF Rows
  <2>5. UniqueEmails(table')
        BY <1>0, <2>3, <2>4 DEF UniqueEmails, Rows
  <2>6. HasAdmin(table')
        BY <1>1, <2>3, <2>4 DEF HasAdmin, Admins, Rows
  <2> QED BY <1>0, <2>3, <2>5, <2>6
<1>4. ASSUME NEW role \in Role, Directory!UpdateRole(u, role)
      PROVE  Directory!DirectoryLegal'
  <2>1. table[u] \in Row /\ u \in Rows(table)
        BY <1>0, <1>4 DEF Directory!UpdateRole, Table, Rows
  <2>2. /\ table' \in Table /\ table'[u].email = table[u].email
        /\ table'[u].role = role /\ table'[u] # Null
        /\ \A v \in User \ {u} : table'[v] = table[v]
        BY <1>0, <1>4, <2>1, NullAssumption DEF Directory!UpdateRole, Table, Row
  <2>3. Rows(table') = Rows(table)
        BY <2>1, <2>2 DEF Rows
  <2>4. UniqueEmails(table')
        BY <1>0, <2>2, <2>3 DEF UniqueEmails, Rows
  <2>5. HasAdmin(table')
    <3>1. CASE table[u].role = "ADMIN" /\ role = "USER"
      <4>1. PICK v \in Admins(table) : v # u
            BY <1>4, <3>1, Vocabulary DEF Directory!UpdateRole
      <4> QED BY <4>1, <2>2, <2>3 DEF HasAdmin, Admins, Rows
    <3>2. CASE ~(table[u].role = "ADMIN" /\ role = "USER")
          BY <1>1, <2>2, <3>2 DEF HasAdmin, Admins, Rows, Role
    <3> QED BY <3>1, <3>2
  <2> QED BY <1>0, <2>2, <2>4, <2>5
<1> QED BY <1>2, <1>3, <1>4

-----------------------------------------------------------------------------
(* Which overlaps of PATCH requests the directory survives. *)

\* The entity a request will save is the edit of the row as it still is.
EditHolds(r) ==
    /\ pc[r] \in {"count", "select", "update"} =>
          entity[r] = Edited(op[r], table[op[r].target])
    /\ pc[r] = "update" => loaded[r] = table[op[r].target]

EditsCurrent == \A r \in Request : EditHolds(r)

\* A demotion past its count still leaves an administrator.
SparesAdmin(r) ==
    /\ pc[r] \in {"select", "update"} /\ Demotes(op[r]) /\ table[op[r].target].role = "ADMIN"
    => \E v \in Admins(table) : v # op[r].target

AdminSpared == \A r \in Request : SparesAdmin(r)

\* More than one administrator means one besides any given user.
LEMMA SecondAdmin ==
    ASSUME NEW u, ~(Cardinality(Admins(table)) <= 1)
    PROVE  \E v \in Admins(table) : v # u
<1> SUFFICES ASSUME \A v \in Admins(table) : v = u PROVE FALSE
    OBVIOUS
<1>1. CASE Admins(table) = {}
      BY <1>1, FS_EmptySet
<1>2. CASE Admins(table) = {u}
  <2>1. Cardinality({u}) = 1
        BY FS_Singleton
  <2>2. Cardinality(Admins(table)) = 1
        BY <1>2, <2>1
  <2> QED BY <2>2
<1> QED BY <1>1, <1>2

\* Saving an entity over the row it was compared with stores the entity.
LEMMA MergedFresh ==
    ASSUME NEW new \in Row, NEW row \in Row PROVE Merged(new, row, row) = new
BY DEF Merged, Column, Row

\* The edit a PATCH asks for, as the directory's operations state it.
LEMMA EditedByKind ==
    ASSUME NEW c, WellFormed(c), NEW user \in Row
    PROVE  /\ c.kind = "updateMe" =>
                 \E p \in Profile, a \in BOOLEAN :
                    Edited(c, user) = [email |-> user.email, profile |-> p,
                                       role |-> user.role, active |-> a]
           /\ c.kind = "updateRole" => Edited(c, user) = [user EXCEPT !.role = c.role]
<1>1. CASE c.kind = "updateMe"
  <2> DEFINE p == Coalesce(c.profile, user.profile)
             a == Coalesce(c.active, user.active)
  <2>1. p \in Profile /\ a \in BOOLEAN
        BY DEF Coalesce, WellFormed, Command, Row
  <2>2. Edited(c, user) = [email |-> user.email, profile |-> p,
                           role |-> user.role, active |-> a]
        BY <1>1 DEF Edited
  <2> QED BY <1>1, <2>1, <2>2
<1>2. CASE c.kind = "updateRole"
      BY <1>2 DEF Edited, Row
<1> QED BY <1>1, <1>2

\* The step that saves a PATCH writes the edit of the current row.
LEMMA SerialWrite ==
    ASSUME Inv, EditsCurrent, NEW r \in Request, SaveUpdate(r)
    PROVE  LET c == op[r] IN
           /\ WellFormed(c) /\ c.kind \in {"updateMe", "updateRole"}
           /\ c.target \in User /\ table[c.target] \in Row
           /\ table' = [table EXCEPT ![c.target] = Edited(c, table[c.target])]
<1> DEFINE c == op[r]
<1>1. RequestInv(r) /\ pc[r] = "update"
      BY DEF Inv, SaveUpdate
<1>2. WellFormed(c) /\ c.kind \in {"updateMe", "updateRole"} /\ c.target \in User
      BY <1>1 DEF RequestInv, KindFits, WellFormed, Command
<1>3. table[c.target] \in Row /\ entity[r] \in Row
      BY <1>1, <1>2, RowTyped DEF RequestInv
<1>4. entity[r] = Edited(c, table[c.target]) /\ loaded[r] = table[c.target]
      BY <1>1 DEF EditsCurrent, EditHolds
<1>5. Merged(entity[r], loaded[r], table[c.target]) = Edited(c, table[c.target])
      BY <1>3, <1>4, MergedFresh
<1> QED BY <1>2, <1>3, <1>5 DEF SaveUpdate

\* Each step is a step of the directory, or leaves the table alone.
LEMMA StepRefines ==
    Inv /\ EditsCurrent /\ AdminSpared /\ [Next]_vars => [Directory!DirectoryNext]_table
<1> SUFFICES ASSUME Inv, EditsCurrent, AdminSpared, Next, table' # table
             PROVE  Directory!DirectoryNext
    BY DEF vars
<1>1. PICK r \in Request : SaveUpdate(r) \/ SaveInsert(r)
      BY DEF Next, SubmitRegister, SubmitSignIn, SubmitPatch, Submit, Proceed,
             Authenticate, FindForProfile, FindForRole, CountAdmins, SaveSelect,
             LookUpEmail, ExistsByEmail, ReadCredentials, SignTokens,
             StatementFails, ClaimExpires
<1> DEFINE c == op[r]
<1>2. CASE SaveInsert(r)
  <2>1. RequestInv(r) /\ pc[r] = "insert"
        BY <1>2 DEF Inv, SaveInsert
  <2>2. /\ WellFormed(c) /\ c.kind = "register" /\ c.who \in User
        /\ entity[r] = NewUser(c) /\ table[c.who] = Null
        BY <2>1 DEF RequestInv, KindFits, WellFormed, Command
  <2>3. /\ ~\E u \in Rows(table) : table[u].email = entity[r].email
        /\ table' = [table EXCEPT ![c.who] = entity[r]]
        BY <1>2 DEF SaveInsert
  <2>4. ~EmailTaken(table, c.email)
        BY <2>2, <2>3 DEF EmailTaken, NewUser
  <2>5. Directory!Register(c.who, c.email, c.profile)
        BY <2>2, <2>3, <2>4, Vocabulary DEF Directory!Register, NewUser
  <2> QED BY <2>2, <2>5 DEF Directory!DirectoryNext, WellFormed
<1>3. CASE SaveUpdate(r)
  <2> DEFINE u == c.target
  <2>1. /\ WellFormed(c) /\ c.kind \in {"updateMe", "updateRole"}
        /\ u \in User /\ table[u] \in Row
        /\ table' = [table EXCEPT ![u] = Edited(c, table[u])]
        BY <1>3, SerialWrite
  <2>2. table[u] # Null
        BY <2>1, NullAssumption
  <2>3. CASE c.kind = "updateMe"
    <3>1. PICK p \in Profile, a \in BOOLEAN :
             Edited(c, table[u]) = [email |-> table[u].email, profile |-> p,
                                    role |-> table[u].role, active |-> a]
          BY <2>1, <2>3, EditedByKind
    <3>2. table' = [table EXCEPT ![u] = [email |-> table[u].email, profile |-> p,
                                         role |-> table[u].role, active |-> a]]
          BY <2>1, <3>1, Zenon
    <3>3. Directory!UpdateProfile(u)
          BY <2>2, <3>2, Zenon DEF Directory!UpdateProfile
    <3> QED BY <2>1, <3>3 DEF Directory!DirectoryNext
  <2>4. CASE c.kind = "updateRole"
    <3>1. c.role \in Role /\ table' = [table EXCEPT ![u] = [table[u] EXCEPT !.role = c.role]]
          BY <2>1, <2>4, EditedByKind DEF WellFormed
    <3>2. table[u].role = "ADMIN" /\ c.role = "USER" => \E v \in Admins(table) : v # u
          BY <1>3, <2>4 DEF AdminSpared, SparesAdmin, Demotes, SaveUpdate
    <3>3. Directory!UpdateRole(u, c.role)
          BY <2>2, <3>1, <3>2, Vocabulary DEF Directory!UpdateRole
    <3> QED BY <2>1, <3>1, <3>3, Vocabulary DEF Directory!DirectoryNext
  <2> QED BY <2>1, <2>3, <2>4
<1> QED BY <1>1, <1>2, <1>3

\* A request that is past its guard is a writer.
LEMMA IsWriter ==
    ASSUME Inv, NEW r \in Request, pc[r] \in {"find", "count", "select", "update"}
    PROVE  r \in Writers
BY DEF Inv, RequestInv, KindFits, Writers, IsPatch

\* What a step must keep of the two invariants.
SerialKept == EditsCurrent' /\ (AdminSpared => AdminSpared')

\* A step of r that leaves the table and the commands alone keeps them, if r
\* itself holds what it must.
LEMMA QuietSerial ==
    ASSUME Inv, EditsCurrent, NEW r \in Request, table' = table, op' = op,
           EditHolds(r)', AdminSpared => SparesAdmin(r)',
           \A s \in Request \ {r} : pc'[s] = pc[s] /\ entity'[s] = entity[s]
                                                   /\ loaded'[s] = loaded[s]
    PROVE  SerialKept
<1>1. ASSUME NEW s \in Request \ {r} PROVE EditHolds(s)' /\ (AdminSpared => SparesAdmin(s)')
  <2>1. EditHolds(s) /\ (AdminSpared => SparesAdmin(s))
        BY DEF EditsCurrent, AdminSpared
  <2> QED BY <2>1 DEF EditHolds, SparesAdmin
<1> QED BY <1>1 DEF SerialKept, EditsCurrent, AdminSpared

\* Steps that only answer, or await where nothing is to be held.
LEMMA PlainSerial ==
    ASSUME Inv, EditsCurrent, NEW r \in Request, table' = table, op' = op,
           \/ \E status : Answer(r, status)
           \/ \E step \in Step \ {"count", "select", "update"} : \E user : Await(r, step, user)
    PROVE  SerialKept
<1>1. /\ pc'[r] \notin {"count", "select", "update"}
      /\ \A s \in Request \ {r} : pc'[s] = pc[s] /\ entity'[s] = entity[s]
                                                 /\ loaded'[s] = loaded[s]
      BY DEF Answer, Await, Inv, Types, Step
<1>2. EditHolds(r)' /\ SparesAdmin(r)'
      BY <1>1 DEF EditHolds, SparesAdmin
<1> QED BY <1>1, <1>2, QuietSerial

LEMMA FindSerial ==
    ASSUME Inv, EditsCurrent, NEW r \in Request,
           NEW step \in {"count", "select"}, table' = table, op' = op,
           Await(r, step, Edited(op[r], table[op[r].target])),
           step = "select" => \/ op[r].kind = "updateMe"
                              \/ ~(table[op[r].target].role = "ADMIN" /\ op[r].role = "USER")
    PROVE  SerialKept
<1>1. /\ pc'[r] = step /\ entity'[r] = Edited(op[r], table[op[r].target])
      /\ \A s \in Request \ {r} : pc'[s] = pc[s] /\ entity'[s] = entity[s]
                                                 /\ loaded'[s] = loaded[s]
      BY DEF Await, Inv, Types
<1>2. EditHolds(r)' /\ SparesAdmin(r)'
      BY <1>1 DEF EditHolds, SparesAdmin, Demotes
<1> QED BY <1>1, <1>2, QuietSerial

LEMMA CountSerial ==
    ASSUME Inv, EditsCurrent, NEW r \in Request, CountAdmins(r) PROVE SerialKept
<1> DEFINE u == op[r].target
<1>1. pc[r] = "count" /\ table' = table /\ op' = op /\ EditHolds(r)
      BY DEF CountAdmins, EditsCurrent
<1>2. CASE Answer(r, 403)
      BY <1>1, <1>2, PlainSerial
<1>3. CASE ~(Cardinality(Admins(table)) <= 1) /\ Await(r, "select", entity[r])
  <2>1. /\ pc'[r] = "select" /\ entity'[r] = entity[r]
        /\ \A s \in Request \ {r} : pc'[s] = pc[s] /\ entity'[s] = entity[s]
                                                   /\ loaded'[s] = loaded[s]
        BY <1>3 DEF Await, Inv, Types
  <2>2. \E v \in Admins(table) : v # u
        BY <1>3, SecondAdmin
  <2>3. Admins(table)' = Admins(table)
        BY <1>1
  <2>4. EditHolds(r)' /\ SparesAdmin(r)'
        BY <1>1, <2>1, <2>2, <2>3 DEF EditHolds, SparesAdmin
  <2> QED BY <1>1, <2>1, <2>4, QuietSerial
<1> QED BY <1>2, <1>3 DEF CountAdmins

LEMMA SelectSerial ==
    ASSUME Inv, EditsCurrent, NEW r \in Request, SaveSelect(r) PROVE SerialKept
<1>1. pc[r] = "select" /\ table' = table /\ op' = op /\ EditHolds(r)
      BY DEF SaveSelect, EditsCurrent
<1>2. /\ pc'[r] = "update" /\ entity' = entity /\ loaded'[r] = table[op[r].target]
      /\ \A s \in Request \ {r} : pc'[s] = pc[s] /\ entity'[s] = entity[s]
                                                 /\ loaded'[s] = loaded[s]
      BY DEF SaveSelect, Inv, Types
<1>3. Admins(table)' = Admins(table)
      BY <1>1
<1>4. EditHolds(r)' /\ (SparesAdmin(r) => SparesAdmin(r)')
      BY <1>1, <1>2, <1>3 DEF EditHolds, SparesAdmin, Demotes
<1> QED BY <1>1, <1>2, <1>4, QuietSerial DEF AdminSpared

\* A save writes one row, which no other PATCH concerns; and it takes the role of
\* an administrator only if it demotes, which then no other does.
LEMMA UpdateSerial ==
    ASSUME Inv, EditsCurrent, RowsApart, NEW r \in Request, SaveUpdate(r)
    PROVE  EditsCurrent' /\ (DemotionsApart /\ AdminSpared => AdminSpared')
<1> DEFINE c == op[r]
           u == c.target
<1>1. /\ pc[r] = "update" /\ op' = op /\ pc'[r] = "done"
      /\ \A s \in Request \ {r} : pc'[s] = pc[s] /\ entity'[s] = entity[s]
                                                 /\ loaded'[s] = loaded[s]
      BY DEF SaveUpdate, Acknowledge, Answer, Inv, Types
<1>2. /\ WellFormed(c) /\ c.kind \in {"updateMe", "updateRole"}
      /\ u \in User /\ table[u] \in Row
      /\ table' = [table EXCEPT ![u] = Edited(c, table[u])]
      BY SerialWrite
<1>3. /\ table'[u] = Edited(c, table[u])
      /\ \A v \in User \ {u} : table'[v] = table[v]
      BY <1>2 DEF Inv, Types, Table
<1>4. r \in Writers
      BY <1>1, IsWriter
<1>5. EditHolds(r)' /\ SparesAdmin(r)'
      BY <1>1 DEF EditHolds, SparesAdmin
<1>6. ASSUME NEW s \in Request \ {r}, pc[s] \in {"count", "select", "update"}
      PROVE  /\ s \in Writers /\ op[s].target \in User \ {u}
             /\ table'[op[s].target] = table[op[s].target]
  <2>1. s \in Writers
        BY <1>6, IsWriter
  <2>2. op[s].target \in User
        BY <1>6 DEF Inv, RequestInv, WellFormed, Command
  <2>3. op[s].target # u
        BY <1>4, <2>1 DEF RowsApart
  <2> QED BY <1>3, <2>1, <2>2, <2>3
<1>7. ASSUME NEW s \in Request \ {r} PROVE EditHolds(s)'
  <2>1. EditHolds(s)
        BY DEF EditsCurrent
  <2> QED BY <1>1, <1>6, <2>1 DEF EditHolds
<1>8. ASSUME DemotionsApart, AdminSpared, NEW s \in Request \ {r} PROVE SparesAdmin(s)'
  <2> SUFFICES ASSUME pc[s] \in {"select", "update"}, Demotes(op[s]),
                      table[op[s].target].role = "ADMIN"
               PROVE  \E v \in Admins(table') : v # op[s].target
      BY <1>1, <1>6 DEF SparesAdmin
  <2>1. PICK v \in Admins(table) : v # op[s].target
        BY <1>8 DEF AdminSpared, SparesAdmin
  <2>2. ~Demotes(c)
        BY <1>4, <1>6, <1>8 DEF DemotionsApart
  <2>3. v \in User /\ table[v].role = "ADMIN" /\ table[v] # Null
        BY <2>1 DEF Admins, Rows
  <2>4. Edited(c, table[u]) \in Row /\ (v = u => Edited(c, table[u]).role = "ADMIN")
        BY <1>2, <2>2, <2>3, EditedIsRow DEF Edited, Demotes, WellFormed, Role
  <2>5. v \in Admins(table')
        BY <1>3, <2>3, <2>4, NullAssumption DEF Admins, Rows
  <2> QED BY <2>1, <2>5
<1> QED BY <1>5, <1>7, <1>8 DEF EditsCurrent, AdminSpared

\* A registration adds a row that no PATCH concerns.
LEMMA InsertSerial ==
    ASSUME Inv, EditsCurrent, NEW r \in Request, SaveInsert(r) PROVE SerialKept
<1> DEFINE u == op[r].who
<1>1. /\ RequestInv(r) /\ pc[r] = "insert" /\ op' = op
      BY DEF Inv, SaveInsert
<1>2. CASE Answer(r, 500) /\ UNCHANGED table
      BY <1>1, <1>2, PlainSerial
<1>3. CASE /\ table' = [table EXCEPT ![u] = entity[r]]
           /\ Await(r, "sign", entity[r])
  <2>1. table[u] = Null /\ u \in User /\ entity[r] \in Row
        BY <1>1, NewUserIsRow DEF RequestInv, KindFits, WellFormed, Command
  <2>2. \A v \in User \ {u} : table'[v] = table[v]
        BY <1>3, <2>1 DEF Inv, Types, Table
  <2>3. Admins(table) \subseteq Admins(table')
        BY <2>1, <2>2 DEF Admins, Rows
  <2>4. /\ pc'[r] = "sign"
        /\ \A s \in Request \ {r} : pc'[s] = pc[s] /\ entity'[s] = entity[s]
                                                   /\ loaded'[s] = loaded[s]
        BY <1>3 DEF Await, Inv, Types
  <2>5. EditHolds(r)' /\ SparesAdmin(r)'
        BY <2>4 DEF EditHolds, SparesAdmin
  <2>6. ASSUME NEW s \in Request \ {r} PROVE EditHolds(s)' /\ (AdminSpared => SparesAdmin(s)')
    <3>1. RequestInv(s) /\ EditHolds(s) /\ (AdminSpared => SparesAdmin(s))
          BY DEF Inv, EditsCurrent, AdminSpared
    <3>2. pc[s] \in {"count", "select", "update"} =>
             table'[op[s].target] = table[op[s].target]
          BY <2>1, <2>2, <3>1 DEF RequestInv, WellFormed, Command
    <3> QED BY <1>1, <2>3, <2>4, <3>1, <3>2 DEF EditHolds, SparesAdmin
  <2> QED BY <2>5, <2>6 DEF SerialKept, EditsCurrent, AdminSpared
<1> QED BY <1>2, <1>3 DEF SaveInsert

LEMMA SubmitSerial ==
    ASSUME Inv, EditsCurrent, NEW r \in Request, NEW c, Submit(r, c) PROVE SerialKept
<1>1. FirstStep(c) \in {"lookup", "read", "guard"}
      BY DEF FirstStep
<1>2. /\ pc'[r] \in {"lookup", "read", "guard"} /\ op'[r] = c
      /\ \A s \in Request \ {r} : /\ pc'[s] = pc[s] /\ op'[s] = op[s]
                                  /\ entity'[s] = entity[s]
      /\ loaded' = loaded /\ table' = table
      BY <1>1 DEF Submit, Await, Inv, Types
<1>3. Admins(table)' = Admins(table)
      BY <1>2
<1>4. EditHolds(r)' /\ SparesAdmin(r)'
      BY <1>2 DEF EditHolds, SparesAdmin
<1>5. ASSUME NEW s \in Request \ {r} PROVE EditHolds(s)' /\ (AdminSpared => SparesAdmin(s)')
  <2>1. EditHolds(s) /\ (AdminSpared => SparesAdmin(s))
        BY DEF EditsCurrent, AdminSpared
  <2> QED BY <1>2, <1>3, <2>1 DEF EditHolds, SparesAdmin
<1> QED BY <1>4, <1>5 DEF SerialKept, EditsCurrent, AdminSpared

\* Statements that read and answer, or go on without an entity to save.
LEMMA ReadSerial ==
    ASSUME Inv, EditsCurrent, NEW r \in Request,
           \/ Authenticate(r) \/ LookUpEmail(r) \/ ExistsByEmail(r)
           \/ ReadCredentials(r) \/ SignTokens(r) \/ StatementFails(r)
    PROVE  SerialKept
<1>1. CASE Authenticate(r)
      BY <1>1, PlainSerial DEF Authenticate, Step
<1>2. CASE LookUpEmail(r)
      BY <1>2, PlainSerial DEF LookUpEmail, Step
<1>3. CASE ExistsByEmail(r)
      BY <1>3, PlainSerial DEF ExistsByEmail, Step
<1>4. CASE ReadCredentials(r)
      BY <1>4, PlainSerial DEF ReadCredentials, Step
<1>5. CASE SignTokens(r)
      BY <1>5, PlainSerial DEF SignTokens
<1>6. CASE StatementFails(r)
      BY <1>6, PlainSerial DEF StatementFails
<1> QED BY <1>1, <1>2, <1>3, <1>4, <1>5, <1>6

LEMMA FindsSerial ==
    ASSUME Inv, EditsCurrent, NEW r \in Request, FindForProfile(r) \/ FindForRole(r)
    PROVE  SerialKept
<1>1. CASE \E status : Answer(r, status)
      BY <1>1, PlainSerial DEF FindForProfile, FindForRole
<1>2. CASE FindForProfile(r) /\ ~\E status : Answer(r, status)
      BY <1>2, FindSerial DEF FindForProfile
<1>3. CASE FindForRole(r) /\ ~\E status : Answer(r, status)
      BY <1>3, FindSerial DEF FindForRole
<1> QED BY <1>1, <1>2, <1>3

LEMMA NextSerial ==
    Inv /\ EditsCurrent /\ RowsApart /\ [Next]_vars
       => EditsCurrent' /\ (DemotionsApart /\ AdminSpared => AdminSpared')
<1> SUFFICES ASSUME Inv, EditsCurrent, RowsApart, [Next]_vars,
                    ~\E r \in Request : SaveUpdate(r)
             PROVE  SerialKept
    BY UpdateSerial DEF SerialKept
<1>1. ASSUME table' = table, op' = op, pc' = pc, entity' = entity, loaded' = loaded
      PROVE  SerialKept
  <2>1. Admins(table)' = Admins(table)
        BY <1>1
  <2> QED BY <1>1, <2>1 DEF SerialKept, EditsCurrent, AdminSpared, EditHolds, SparesAdmin
<1>2. ASSUME NEW r \in Request, NEW c, Submit(r, c) PROVE SerialKept
      BY <1>2, SubmitSerial
<1>3. ASSUME NEW r \in Request, Proceed(r) \/ StatementFails(r) PROVE SerialKept
      BY <1>3, ReadSerial, FindsSerial, CountSerial, SelectSerial, InsertSerial DEF Proceed
<1>4. ASSUME NEW u \in User, NEW role \in Role, ClaimExpires(u, role) PROVE SerialKept
      BY <1>1, <1>4 DEF ClaimExpires
<1> QED BY <1>1, <1>2, <1>3, <1>4 DEF Next, vars, SubmitRegister, SubmitSignIn, SubmitPatch

LEMMA InitSerial == Init => EditsCurrent /\ AdminSpared
BY DEF Init, EditsCurrent, AdminSpared, EditHolds, SparesAdmin

LEMMA EditsHold == Spec /\ []RowsApart => [](Inv /\ EditsCurrent)
BY InitInv, NextInv, InitSerial, NextSerial, PTL DEF Spec

LEMMA AdminHolds == Spec /\ []RowsApart /\ []DemotionsApart => []AdminSpared
BY EditsHold, InitSerial, NextSerial, PTL DEF Spec

-----------------------------------------------------------------------------
(* Two PATCH requests at a time may be under way on two rows: the module   *)
(* implements the directory, if no more than one of them demotes.          *)

\* Every handler takes effect at once at its write.
THEOREM OverlapsImplementDirectory ==
    Spec /\ []RowsApart /\ []DemotionsApart => DirectorySpec
<1>1. Init => Directory!DirectoryInit
      BY DEF Init, Directory!DirectoryInit
<1> QED BY <1>1, StepRefines, EditsHold, AdminHolds, PTL
    DEF Spec, DirectorySpec, Directory!DirectorySpec

\* ... so the last administrator is never demoted, ...
THEOREM OverlapsSpareAdministrator ==
    Spec /\ []RowsApart /\ []DemotionsApart => []AdminRemains
<1>1. Init => Directory!DirectoryLegal
      BY InitialAssumption, Vocabulary DEF Init, Directory!DirectoryLegal
<1>2. Inv /\ EditsCurrent /\ AdminSpared /\ [Next]_vars /\ Directory!DirectoryLegal
         => Directory!DirectoryLegal'
  <2>1. UNCHANGED table /\ Directory!DirectoryLegal => Directory!DirectoryLegal'
        BY Vocabulary DEF Directory!DirectoryLegal
  <2> QED BY <2>1, StepRefines, DirectoryStepLegal
<1>3. Directory!DirectoryLegal => AdminRemains
      BY Vocabulary DEF Directory!DirectoryLegal, AdminRemains
<1> QED BY <1>1, <1>2, <1>3, EditsHold, AdminHolds, PTL DEF Spec

\* Only its own save answers a PATCH that is about to write with 200.
LEMMA WriteIsSave ==
    ASSUME Inv, [Next]_vars, NEW r \in Request,
           pc[r] = "update", pc'[r] = "done", answer'[r] = 200
    PROVE  SaveUpdate(r)
<1>1. pc \in [Request -> Step] /\ answer \in [Request -> Status]
      BY DEF Inv, Types
<1>2. ASSUME NEW s \in Request, NEW c, Submit(s, c) PROVE FALSE
      BY <1>1, <1>2 DEF Submit, Await, FirstStep
<1>3. ~\E u \in User, role \in Role : ClaimExpires(u, role)
      BY DEF ClaimExpires
<1>4. PICK s \in Request : Proceed(s) \/ StatementFails(s)
      BY <1>2, <1>3 DEF Next, vars, SubmitRegister, SubmitSignIn, SubmitPatch
<1>5. s = r
      BY <1>1, <1>4 DEF Proceed, Authenticate, FindForProfile, FindForRole, CountAdmins,
         SaveSelect, SaveUpdate, LookUpEmail, ExistsByEmail, SaveInsert,
         ReadCredentials, SignTokens, StatementFails, Acknowledge, Answer, Await
<1>6. ~StatementFails(r)
      BY <1>1 DEF StatementFails, Answer
<1> QED BY <1>4, <1>5, <1>6 DEF Proceed, Authenticate, FindForProfile, FindForRole,
           CountAdmins, SaveSelect, LookUpEmail, ExistsByEmail, SaveInsert,
           ReadCredentials, SignTokens

\* ... and no update is lost, whoever demotes whom meanwhile.
THEOREM OverlapsLoseNothing == Spec /\ []RowsApart => WritesAreExact
<1> DEFINE Exact == \A r \in Request :
                       pc[r] = "update" /\ pc'[r] = "done" /\ answer'[r] = 200 =>
                          table'[op[r].target] = Edited(op[r], table[op[r].target])
<1>1. Inv /\ EditsCurrent /\ [Next]_vars => [Exact]_vars
  <2> SUFFICES ASSUME Inv, EditsCurrent, [Next]_vars, NEW r \in Request,
                      pc[r] = "update", pc'[r] = "done", answer'[r] = 200
               PROVE  table'[op[r].target] = Edited(op[r], table[op[r].target])
      OBVIOUS
  <2>1. SaveUpdate(r)
        BY WriteIsSave
  <2> QED BY <2>1, SerialWrite DEF Inv, Types, Table
<1> QED BY <1>1, EditsHold, PTL DEF Spec, WritesAreExact
=============================================================================
