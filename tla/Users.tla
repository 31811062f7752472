------------------------------- MODULE Users -------------------------------
(***************************************************************************)
(* The user module as it runs: every HTTP request is a sequence of steps,  *)
(* one per awaited database statement, and the steps of concurrent         *)
(* requests interleave in any order.  A request is a registration, a       *)
(* sign-in (login, or the user lookup of a refresh), PATCH /users/me or    *)
(* PATCH /users/:id/role.  A handler builds a whole User entity from the   *)
(* row it read first, and the repository saves it in two further           *)
(* statements: TypeORM's save() selects the row again and then updates     *)
(* the columns in which the entity differs from that second read.          *)
(*                                                                         *)
(* Requests that only read (GET /users...) change nothing and are left     *)
(* out; so are timestamps, and bodies the validation pipe refuses before   *)
(* the handler runs (the value objects' own 400s repeat those checks).     *)
(***************************************************************************)
EXTENDS UserRecords, Naturals

CONSTANTS
    Request,           \* the requests clients may send, one slot each
    StatementsMayFail  \* whether a database statement may fail (connection, server)

ASSUME FlagAssumption == StatementsMayFail \in BOOLEAN

VARIABLES
    table,   \* the "users" table
    claims,  \* claims[u]: roles carried by u's unexpired access tokens
    op,      \* op[r]: the request's inputs, Null before it arrives
    pc,      \* pc[r]: the await the request is suspended at
    entity,  \* entity[r]: the User object its handler holds
    loaded,  \* loaded[r]: the row save() selected to compute its update
    answer   \* answer[r]: HTTP status, 0 while there is none

vars == <<table, claims, op, pc, entity, loaded, answer>>

Step == {"idle", "guard", "lookup", "exists", "find", "count", "select",
         "update", "insert", "read", "sign", "done"}

Status == {0, 200, 201, 401, 403, 404, 409, 500}

-----------------------------------------------------------------------------
(* Commands: the inputs of a request, with Null for what its body omits.   *)

Command == [kind : {"register", "signIn", "updateMe", "updateRole"},
            who : User,                     \* the caller, or the new row's uuid
            target : User,                  \* the row concerned
            email : Spelling \cup {Null},
            profile : Profile \cup {Null},
            active : BOOLEAN \cup {Null},
            role : Role \cup {Null},
            claim : Role \cup {Null}]       \* the role in the caller's access token

ASSUME CommandAssumption == Null \notin Command

RegisterCommands ==
    {c \in [kind : {"register"}, who : User, target : User, email : Spelling,
             profile : Profile, active : {Null}, role : {Null}, claim : {Null}] :
        c.target = c.who}

SignInCommands ==
    {c \in [kind : {"signIn"}, who : User, target : User, email : {Null},
             profile : {Null}, active : {Null}, role : {Null}, claim : {Null}] :
        c.target = c.who}

UpdateMeCommands ==
    {c \in [kind : {"updateMe"}, who : User, target : User, email : {Null},
             profile : Profile \cup {Null}, active : BOOLEAN \cup {Null},
             role : {Null}, claim : Role] :
        c.target = c.who}

UpdateRoleCommands ==
    [kind : {"updateRole"}, who : User, target : User, email : {Null},
     profile : {Null}, active : {Null}, role : Role, claim : Role]

IsPatch(c) == c.kind \in {"updateMe", "updateRole"}

FirstStep(c) == IF c.kind = "register" THEN "lookup"
                ELSE IF c.kind = "signIn" THEN "read" ELSE "guard"

\* PATCH requests between their arrival and their answer.
Writers == {r \in Request : pc[r] \notin {"idle", "done"} /\ IsPatch(op[r])}

-----------------------------------------------------------------------------
(* How a handler moves on, or answers and forgets its locals. *)

Await(r, step, user) == /\ pc' = [pc EXCEPT ![r] = step]
                        /\ entity' = [entity EXCEPT ![r] = user]
                        /\ UNCHANGED <<loaded, answer>>

Answer(r, status) == /\ pc' = [pc EXCEPT ![r] = "done"]
                     /\ answer' = [answer EXCEPT ![r] = status]
                     /\ entity' = [entity EXCEPT ![r] = Null]
                     /\ loaded' = [loaded EXCEPT ![r] = Null]

\* A statement took effect; its acknowledgement may be lost all the same.
Acknowledge(r, status) ==
    Answer(r, status) \/ (StatementsMayFail /\ Answer(r, 500))

\* x ?? y
Coalesce(x, y) == IF x = Null THEN y ELSE x

\* Mutant: updateUser builds it without a role, and the default applies.
EditedRoleless(c, user) ==
    [email |-> user.email,
     profile |-> IF c.kind = "updateMe" THEN Coalesce(c.profile, user.profile)
                                        ELSE user.profile,
     role |-> IF c.kind = "updateRole" THEN c.role ELSE "USER",
     active |-> IF c.kind = "updateMe" THEN Coalesce(c.active, user.active)
                                       ELSE user.active]

\* The User that updateUser, or updateUserRole, builds from the row it read.
Edited(c, user) ==
    [email |-> user.email,
     profile |-> IF c.kind = "updateMe" THEN Coalesce(c.profile, user.profile)
                                        ELSE user.profile,
     role |-> IF c.kind = "updateRole" THEN c.role ELSE user.role,
     active |-> IF c.kind = "updateMe" THEN Coalesce(c.active, user.active)
                                       ELSE user.active]

\* Mutant: the address is stored as it was typed.
NewUserAsTyped(c) == [email |-> c.email, profile |-> c.profile,
                      role |-> "USER", active |-> TRUE]

\* The User that createUser builds: RegisterDto has no role, so the default.
NewUser(c) == [email |-> Canon[c.email], profile |-> c.profile,
               role |-> "USER", active |-> TRUE]

\* UPDATE sets a column only where the entity differs from the selected row.
Column(new, selected, current) == IF new # selected THEN new ELSE current

Merged(new, selected, current) ==
    [email |-> Column(new.email, selected.email, current.email),
     profile |-> Column(new.profile, selected.profile, current.profile),
     role |-> Column(new.role, selected.role, current.role),
     active |-> Column(new.active, selected.active, current.active)]

-----------------------------------------------------------------------------
Init ==
    /\ table \in InitialTables
    /\ claims = [u \in User |-> IF table[u] = Null THEN {} ELSE {table[u].role}]
    /\ op = [r \in Request |-> Null]
    /\ pc = [r \in Request |-> "idle"]
    /\ entity = [r \in Request |-> Null]
    /\ loaded = [r \in Request |-> Null]
    /\ answer = [r \in Request |-> 0]

\* A request arrives.
Submit(r, c) ==
    /\ pc[r] = "idle"
    /\ op' = [op EXCEPT ![r] = c]
    /\ Await(r, FirstStep(c), Null)
    /\ UNCHANGED <<table, claims>>

\* POST /auth/register.  uuidv4() never repeats an id.
SubmitRegister(r, c) ==
    /\ table[c.who] = Null
    /\ \A s \in Request : pc[s] # "idle" /\ op[s].kind = "register" => op[s].who # c.who
    /\ Submit(r, c)

\* POST /auth/login with the right password, or /auth/refresh with a valid token.
SubmitSignIn(r, c) == Submit(r, c)

\* A PATCH carries an access token the strategy verifies before anything else.
SubmitPatch(r, c) ==
    /\ c.claim \in claims[c.who]
    /\ Submit(r, c)

\* RolesGuard: the role compared with @Roles(ADMIN) is the access token's.
RolesAllow(c) == c.kind = "updateRole" => c.claim = "ADMIN"

\* updateUserRole, first rule: nobody changes their own role.
OwnRole(c) == c.kind = "updateRole" /\ c.target = c.who

\* Mutant: no RolesGuard on the route.
AuthenticateAnyRole(r) ==
    LET c == op[r]
        caller == table[c.who]
    IN  /\ pc[r] = "guard"
        /\ IF caller = Null THEN Answer(r, 401)
           ELSE IF ~caller.active THEN Answer(r, 401)
           ELSE IF OwnRole(c) THEN Answer(r, 403)
           ELSE Await(r, "find", Null)
        /\ UNCHANGED <<table, claims, op>>

\* JwtStrategy.validate awaits the caller's row; RolesGuard and the first
\* rule of updateUserRole then run before the handler's first await.
Authenticate(r) ==
    LET c == op[r]
        caller == table[c.who]
    IN  /\ pc[r] = "guard"
        /\ IF caller = Null THEN Answer(r, 401)
           ELSE IF ~caller.active THEN Answer(r, 401)
           ELSE IF ~RolesAllow(c) \/ OwnRole(c) THEN Answer(r, 403)
           ELSE Await(r, "find", Null)
        /\ UNCHANGED <<table, claims, op>>

\* Mutant: isActive || user.isActive, where the code has ??.
FindForProfileOr(r) ==
    LET user == table[op[r].target]
        active == op[r].active = TRUE \/ user.active
    IN  /\ pc[r] = "find" /\ op[r].kind = "updateMe"
        /\ IF user = Null THEN Answer(r, 404)
           ELSE Await(r, "select", [Edited(op[r], user) EXCEPT !.active = active])
        /\ UNCHANGED <<table, claims, op>>

\* updateUser after its findById.
FindForProfile(r) ==
    LET user == table[op[r].target] IN
        /\ pc[r] = "find" /\ op[r].kind = "updateMe"
        /\ IF user = Null THEN Answer(r, 404)
           ELSE Await(r, "select", Edited(op[r], user))
        /\ UNCHANGED <<table, claims, op>>

\* updateUserRole after its findById: a demotion goes on to count the admins,
\* an unchanged role answers without saving.
FindForRole(r) ==
    LET c == op[r]
        user == table[c.target]
    IN  /\ pc[r] = "find" /\ c.kind = "updateRole"
        /\ IF user = Null THEN Answer(r, 404)
           ELSE IF user.role = "ADMIN" /\ c.role = "USER"
           THEN Await(r, "count", Edited(c, user))
           ELSE IF user.role = c.role THEN Answer(r, 200)
           ELSE Await(r, "select", Edited(c, user))
        /\ UNCHANGED <<table, claims, op>>

\* Mutant: the last administrator is off by one.
CountAdminsOffByOne(r) ==
    /\ pc[r] = "count"
    /\ IF Cardinality(Admins(table)) < 1 THEN Answer(r, 403)
       ELSE Await(r, "select", entity[r])
    /\ UNCHANGED <<table, claims, op>>

\* The second rule: cannot demote the last admin.
CountAdmins(r) ==
    /\ pc[r] = "count"
    /\ IF Cardinality(Admins(table)) <= 1 THEN Answer(r, 403)
       ELSE Await(r, "select", entity[r])
    /\ UNCHANGED <<table, claims, op>>

\* Mutant: the selected row is not kept.
SaveSelectNothing(r) ==
    /\ pc[r] = "select"
    /\ pc' = [pc EXCEPT ![r] = "update"]
    /\ UNCHANGED <<table, claims, op, entity, loaded, answer>>

\* The first statement of save(): select the row by its id.
SaveSelect(r) ==
    /\ pc[r] = "select"
    /\ loaded' = [loaded EXCEPT ![r] = table[op[r].target]]
    /\ pc' = [pc EXCEPT ![r] = "update"]
    /\ UNCHANGED <<table, claims, op, entity, answer>>

\* The second: update the columns that differ.
SaveUpdate(r) ==
    LET u == op[r].target IN
        /\ pc[r] = "update"
        /\ table' = [table EXCEPT ![u] = Merged(entity[r], loaded[r], table[u])]
        /\ Acknowledge(r, 200)
        /\ UNCHANGED <<claims, op>>

\* Mutant: an address somebody else is registering counts as taken.
LookUpEmailReserved(r) ==
    /\ pc[r] = "lookup"
    /\ IF \/ EmailTaken(table, op[r].email)
          \/ \E s \in Request \ {r} : /\ pc[s] \notin {"idle", "done"}
                                      /\ op[s].kind = "register"
                                      /\ Canon[op[s].email] = Canon[op[r].email]
       THEN Answer(r, 409)
       ELSE Await(r, "exists", Null)
    /\ UNCHANGED <<table, claims, op>>

\* AuthService.register looks the address up, then createUser does again.
LookUpEmail(r) ==
    /\ pc[r] = "lookup"
    /\ IF EmailTaken(table, op[r].email) THEN Answer(r, 409)
       ELSE Await(r, "exists", Null)
    /\ UNCHANGED <<table, claims, op>>

\* createUser; the password is hashed before the row is saved.
ExistsByEmail(r) ==
    /\ pc[r] = "exists"
    /\ IF EmailTaken(table, op[r].email) THEN Answer(r, 409)
       ELSE Await(r, "insert", NewUser(op[r]))
    /\ UNCHANGED <<table, claims, op>>

\* Mutant: a refused insert goes unnoticed.
SaveInsertUnnoticed(r) ==
    /\ pc[r] = "insert"
    /\ IF \E u \in Rows(table) : table[u].email = entity[r].email
       THEN UNCHANGED table
       ELSE table' = [table EXCEPT ![op[r].who] = entity[r]]
    /\ Await(r, "sign", entity[r])
    /\ UNCHANGED <<claims, op>>

\* save() of a new uuid: its select finds nothing, so it inserts, and the
\* unique constraint on the stored address has the last word.
SaveInsert(r) ==
    /\ pc[r] = "insert"
    /\ IF \E u \in Rows(table) : table[u].email = entity[r].email
       THEN Answer(r, 500) /\ UNCHANGED table
       ELSE /\ table' = [table EXCEPT ![op[r].who] = entity[r]]
            /\ Await(r, "sign", entity[r])
    /\ UNCHANGED <<claims, op>>

\* login (findByEmail, password, isActive) and refreshTokens (findById).
ReadCredentials(r) ==
    LET user == table[op[r].who] IN
        /\ pc[r] = "read"
        /\ IF user = Null THEN Answer(r, 401)
           ELSE IF ~user.active THEN Answer(r, 401)
           ELSE Await(r, "sign", user)
        /\ UNCHANGED <<table, claims, op>>

\* generateTokens: the access token carries the role of the row read before.
SignTokens(r) ==
    LET u == op[r].who IN
        /\ pc[r] = "sign"
        /\ claims' = [claims EXCEPT ![u] = @ \cup {entity[r].role}]
        /\ Answer(r, IF op[r].kind = "register" THEN 201 ELSE 200)
        /\ UNCHANGED <<table, op>>

\* Any awaited statement may fail: the exception filter answers 500.
StatementFails(r) ==
    /\ StatementsMayFail
    /\ pc[r] \notin {"idle", "done"}
    /\ Answer(r, 500)
    /\ UNCHANGED <<table, claims, op>>

\* Access tokens live for 15 minutes.
ClaimExpires(u, role) ==
    /\ role \in claims[u]
    /\ claims' = [claims EXCEPT ![u] = @ \ {role}]
    /\ UNCHANGED <<table, op, pc, entity, loaded, answer>>

Proceed(r) ==
    \/ Authenticate(r)
    \/ FindForProfile(r)
    \/ FindForRole(r)
    \/ CountAdmins(r)
    \/ SaveSelect(r)
    \/ SaveUpdate(r)
    \/ LookUpEmail(r)
    \/ ExistsByEmail(r)
    \/ SaveInsert(r)
    \/ ReadCredentials(r)
    \/ SignTokens(r)

Next ==
    \/ \E r \in Request :
          \/ \E c \in RegisterCommands : SubmitRegister(r, c)
          \/ \E c \in SignInCommands : SubmitSignIn(r, c)
          \/ \E c \in UpdateMeCommands \cup UpdateRoleCommands : SubmitPatch(r, c)
          \/ Proceed(r)
          \/ StatementFails(r)
    \/ \E u \in User, role \in Role : ClaimExpires(u, role)

Spec == Init /\ [][Next]_vars

\* An awaited statement returns or fails: the driver settles its promise.
Fairness == \A r \in Request : WF_vars(Proceed(r) \/ StatementFails(r))

FairSpec == Spec /\ Fairness

-----------------------------------------------------------------------------
(* Overlaps of PATCH requests: nothing in the code keeps two of them apart. *)

\* No two PATCH requests under way concern one row.
RowsApart == \A r, s \in Writers : r # s => op[r].target # op[s].target

Demotes(c) == c.kind = "updateRole" /\ c.role = "USER"

\* No two demotions are under way.
DemotionsApart == \A r, s \in Writers : r # s => ~(Demotes(op[r]) /\ Demotes(op[s]))

-----------------------------------------------------------------------------
(* What the user module guarantees. *)

\* Every variable holds values of its type; a suspended handler holds the
\* entity, and save() the selected row, that its next statement uses.
TypeOK ==
    /\ table \in Table
    /\ claims \in [User -> SUBSET Role]
    /\ op \in [Request -> Command \cup {Null}]
    /\ pc \in [Request -> Step]
    /\ entity \in [Request -> Row \cup {Null}]
    /\ loaded \in [Request -> Row \cup {Null}]
    /\ answer \in [Request -> Status]
    /\ \A r \in Request :
          /\ pc[r] # "idle" => op[r] # Null
          /\ pc[r] \in {"select", "update", "insert", "sign"} => entity[r] # Null
          /\ pc[r] = "update" => loaded[r] # Null /\ table[op[r].target] # Null

\* Two clients that register at once, under spellings of one address or not,
\* never end up with two accounts on one mailbox: the lookups that run before
\* the password is hashed cannot see each other, the constraint can.
OneAccountPerMailbox ==
    \A u, v \in Rows(table) : Canon[table[u].email] = Canon[table[v].email] => u = v

\* "Cannot demote the last admin in the system": whatever sequence of role
\* changes, profile updates and registrations, an administrator remains.
AdminRemains == HasAdmin(table)

\* A role changes only when an updateRole of somebody else, sent under an
\* ADMIN token, writes it: no save() of a whole entity moves it otherwise.
RoleChangesAuthorised ==
    [][\A u \in Rows(table) :
          table'[u].role # table[u].role =>
             \E r \in Request :
                /\ pc[r] = "update" /\ pc'[r] = "done"
                /\ op[r].kind = "updateRole" /\ op[r].target = u
                /\ op[r].role = table'[u].role
                /\ op[r].who # u /\ op[r].claim = "ADMIN"]_vars

\* A PATCH answered 200 took effect exactly: the row it wrote is the row it
\* found there with the edit its body asks for, and nothing else.
WritesAreExact ==
    [][\A r \in Request :
          pc[r] = "update" /\ pc'[r] = "done" /\ answer'[r] = 200 =>
             table'[op[r].target] = Edited(op[r], table[op[r].target])]_vars

\* A registration is told 201 or 409 truthfully, even late: the account it was
\* promised is there under its own id and mailbox, or the mailbox is taken.
RegistrationAnswers ==
    \A r \in Request :
        pc[r] = "done" /\ op[r].kind = "register" =>
            /\ answer[r] = 201 => /\ table[op[r].who] # Null
                                  /\ table[op[r].who].email = Canon[op[r].email]
            /\ answer[r] = 409 => EmailTaken(table, op[r].email)

Registering(r) == pc[r] # "idle" /\ op[r].kind = "register"

\* However registrations race, they do not all refuse each other: each is
\* answered, and unless it failed (500) its mailbox then has an account.
RegistrationsSettle ==
    \A r \in Request :
        Registering(r) ~>
            /\ Registering(r) /\ pc[r] = "done"
            /\ EmailTaken(table, op[r].email) \/ answer[r] = 500

\* Users implements the directory: each handler takes effect at once, at its
\* write, as one of the operations that UserDirectory states.
Directory == INSTANCE UserDirectory WITH table <- table
DirectorySpec == Directory!DirectorySpec
=============================================================================
