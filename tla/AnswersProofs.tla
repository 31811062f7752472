--------------------------- MODULE AnswersProofs ---------------------------
(***************************************************************************)
(* More guarantees of the user module, for any number of users, addresses  *)
(* and requests.  However requests interleave: what a registration is told *)
(* is true, so is what its welcome mail says, though the process dies at   *)
(* any step, and whoever is an administrator was one at first or was made  *)
(* one by an administrator.  Where no two requests hold copies of the same *)
(* row: no role changes but by somebody else under an ADMIN token.         *)
(***************************************************************************)
EXTENDS UsersProofs, Registration

-----------------------------------------------------------------------------
(* Answers to registrations. *)

\* The account of r's registration is there, under the address r gave.
HasAccount(r) ==
    table[op[r].who] # Null /\ table[op[r].who].email = Canon[op[r].email]

\* What r has been told, or is about to be.
ToldTruth(r) ==
    op[r] # Null /\ op[r].kind = "register" =>
        /\ pc[r] = "sign" => HasAccount(r)
        /\ pc[r] = "done" /\ answer[r] = 201 => HasAccount(r)
        /\ pc[r] = "done" /\ answer[r] = 409 => EmailTaken(table, op[r].email)

Truthful == \A r \in Request : ToldTruth(r)

\* No row is deleted, and none changes its address.
RowsStay == \A u \in Rows(table) : u \in Rows(table') /\ table'[u].email = table[u].email

\* Only the two saves write the table.
LEMMA WritesAreSaves ==
    ASSUME [Next]_vars, table' # table
    PROVE  \E r \in Request : SaveUpdate(r) \/ SaveInsert(r)
BY DEF Next, vars, SubmitRegister, SubmitSignIn, SubmitPatch, Submit, Proceed,
       Authenticate, FindForProfile, FindForRole, CountAdmins, SaveSelect,
       LookUpEmail, ExistsByEmail, ReadCredentials, SignTokens,
       StatementFails, ClaimExpires

LEMMA AddressesStay ==
    ASSUME Inv, [Next]_vars PROVE RowsStay
<1>1. CASE table' = table
      BY <1>1 DEF RowsStay
<1>2. CASE table' # table
  <2>1. PICK r \in Request : SaveUpdate(r) \/ SaveInsert(r)
        BY <1>2, WritesAreSaves
  <2>2. CASE SaveInsert(r)
    <3>1. table' = [table EXCEPT ![op[r].who] = entity[r]]
          BY <1>2, <2>2 DEF SaveInsert
    <3>2. table[op[r].who] = Null
          BY <2>2 DEF Inv, RequestInv, SaveInsert
    <3> QED BY <3>1, <3>2 DEF Inv, Types, Table, Rows, RowsStay
  <2>3. CASE SaveUpdate(r)
    <3> DEFINE u == op[r].target
               row == Merged(entity[r], loaded[r], table[u])
    <3>1. RequestInv(r) /\ pc[r] = "update" /\ table' = [table EXCEPT ![u] = row]
          BY <2>3 DEF Inv, SaveUpdate
    <3>2. /\ entity[r] \in Row /\ loaded[r] \in Row /\ table[u] # Null
          /\ entity[r].email = loaded[r].email /\ u \in User
          BY <3>1 DEF RequestInv, WellFormed, Command
    <3>3. row \in Row /\ row.email = table[u].email
          BY <3>2, MergedIsRow, RowTyped
    <3>4. table'[u] = row /\ \A v \in User \ {u} : table'[v] = table[v]
          BY <3>1, <3>2 DEF Inv, Types, Table
    <3> QED BY <3>2, <3>3, <3>4, NullAssumption DEF Rows, RowsStay
  <2> QED BY <2>1, <2>2, <2>3
<1> QED BY <1>1, <1>2

\* What was true stays true.
LEMMA TruthStays ==
    ASSUME Inv, RowsStay, NEW r \in Request, ToldTruth(r),
           op'[r] = op[r], pc'[r] = pc[r], answer'[r] = answer[r]
    PROVE  ToldTruth(r)'
<1>1. op[r] # Null => op[r].who \in User
      BY DEF Inv, Types, Command
<1>2. op[r] # Null /\ HasAccount(r) => HasAccount(r)'
      BY <1>1 DEF HasAccount, RowsStay, Rows
<1>3. EmailTaken(table, op[r].email) => EmailTaken(table', op[r].email)
      BY DEF EmailTaken, RowsStay
<1> QED BY <1>2, <1>3 DEF ToldTruth

\* A step answers its own request only.
LEMMA OneMoves ==
    ASSUME Inv, NEW r \in Request,
           (\E c : Submit(r, c)) \/ Proceed(r) \/ StatementFails(r)
    PROVE  \A s \in Request \ {r} : op'[s] = op[s] /\ pc'[s] = pc[s] /\ answer'[s] = answer[s]
BY DEF Inv, Types, Submit, Proceed, Authenticate, FindForProfile, FindForRole, CountAdmins,
       SaveSelect, SaveUpdate, LookUpEmail, ExistsByEmail, SaveInsert, ReadCredentials,
       SignTokens, StatementFails, Acknowledge, Answer, Await

\* An arriving request has been told nothing.
LEMMA SubmitTruth ==
    ASSUME Inv, NEW r \in Request, NEW c, Submit(r, c) PROVE ToldTruth(r)'
<1>1. pc'[r] \in {"lookup", "read", "guard"}
      BY DEF Submit, Await, FirstStep, Inv, Types
<1> QED BY <1>1 DEF ToldTruth

\* A step of a registration, by the statement it waited for.
LEMMA ProceedTruth ==
    ASSUME Inv, NEW r \in Request, ToldTruth(r), Proceed(r), RowsStay PROVE ToldTruth(r)'
<1> SUFFICES ASSUME op'[r] # Null, op'[r].kind = "register" PROVE ToldTruth(r)'
    BY DEF ToldTruth
<1>1. op' = op
      BY DEF Proceed, Authenticate, FindForProfile, FindForRole, CountAdmins, SaveSelect,
         SaveUpdate, LookUpEmail, ExistsByEmail, SaveInsert, ReadCredentials, SignTokens
<1>2. pc[r] # "idle"
      BY DEF Proceed, Authenticate, FindForProfile, FindForRole, CountAdmins, SaveSelect,
         SaveUpdate, LookUpEmail, ExistsByEmail, SaveInsert, ReadCredentials, SignTokens
<1>3. WellFormed(op[r]) /\ KindFits("register", pc[r])
      BY <1>1, <1>2 DEF Inv, RequestInv
<1>4. LookUpEmail(r) \/ ExistsByEmail(r) \/ SaveInsert(r) \/ SignTokens(r)
      BY <1>3 DEF KindFits, Proceed, Authenticate, FindForProfile, FindForRole, CountAdmins,
         SaveSelect, SaveUpdate, ReadCredentials
<1>5. CASE LookUpEmail(r) \/ ExistsByEmail(r)
  <2>1. CASE EmailTaken(table, op[r].email)
    <3>1. pc'[r] = "done" /\ answer'[r] = 409 /\ table' = table
          BY <1>5, <2>1 DEF LookUpEmail, ExistsByEmail, Answer, Inv, Types
    <3> QED BY <1>1, <2>1, <3>1 DEF ToldTruth, EmailTaken, Rows
  <2>2. CASE ~EmailTaken(table, op[r].email)
    <3>1. pc'[r] \in {"exists", "insert"}
          BY <1>5, <2>2 DEF LookUpEmail, ExistsByEmail, Await, Inv, Types
    <3> QED BY <3>1 DEF ToldTruth
  <2> QED BY <2>1, <2>2
<1>6. CASE SaveInsert(r)
  <2>1. CASE Answer(r, 500)
    <3>1. pc'[r] = "done" /\ answer'[r] = 500
          BY <2>1 DEF Answer, Inv, Types
    <3> QED BY <3>1 DEF ToldTruth
  <2>2. CASE /\ table' = [table EXCEPT ![op[r].who] = entity[r]]
             /\ Await(r, "sign", entity[r])
    <3>1. entity[r] = NewUser(op[r])
          BY <1>6 DEF SaveInsert, Inv, RequestInv
    <3>2. op[r].who \in User /\ NewUser(op[r]) \in Row
          BY <1>1, <1>3, NewUserIsRow DEF WellFormed, Command
    <3>3. table'[op[r].who] = NewUser(op[r])
          BY <2>2, <3>1, <3>2 DEF Inv, Types, Table
    <3>4. HasAccount(r)'
      <4>1. NewUser(op[r]) # Null
            BY <3>2, NullAssumption
      <4>2. NewUser(op[r]).email = Canon[op[r].email]
            BY DEF NewUser
      <4> QED BY <1>1, <3>3, <4>1, <4>2 DEF HasAccount
    <3>5. pc'[r] = "sign"
          BY <2>2 DEF Await, Inv, Types
    <3> QED BY <3>4, <3>5 DEF ToldTruth
  <2> QED BY <1>6, <2>1, <2>2 DEF SaveInsert
<1>7. CASE SignTokens(r)
  <2>1. pc[r] = "sign" /\ table' = table
        BY <1>7 DEF SignTokens
  <2>2. HasAccount(r)'
        BY <1>1, <2>1 DEF ToldTruth, HasAccount
  <2>3. pc'[r] = "done" /\ answer'[r] = 201
        BY <1>1, <1>7 DEF SignTokens, Answer, Inv, Types
  <2> QED BY <2>2, <2>3 DEF ToldTruth
<1> QED BY <1>4, <1>5, <1>6, <1>7

LEMMA NextTruth == Inv /\ Truthful /\ [Next]_vars => Truthful'
<1> SUFFICES ASSUME Inv, Truthful, [Next]_vars PROVE Truthful'
    OBVIOUS
<1>1. RowsStay
      BY AddressesStay
<1>2. ASSUME NEW r \in Request, ToldTruth(r)',
             (\E c : Submit(r, c)) \/ Proceed(r) \/ StatementFails(r)
      PROVE  Truthful'
      BY <1>1, <1>2, OneMoves, TruthStays DEF Truthful
<1>3. ASSUME NEW r \in Request, NEW c, Submit(r, c) PROVE Truthful'
      BY <1>2, <1>3, SubmitTruth
<1>4. ASSUME NEW r \in Request, Proceed(r) PROVE Truthful'
      BY <1>1, <1>2, <1>4, ProceedTruth DEF Truthful
<1>5. ASSUME NEW r \in Request, StatementFails(r) PROVE Truthful'
  <2>1. pc'[r] = "done" /\ answer'[r] = 500
        BY <1>5 DEF StatementFails, Answer, Inv, Types
  <2>2. ToldTruth(r)'
        BY <2>1 DEF ToldTruth
  <2> QED BY <1>2, <1>5, <2>2
<1>6. ASSUME op' = op, pc' = pc, answer' = answer PROVE Truthful'
      BY <1>1, <1>6, TruthStays DEF Truthful
<1>7. CASE UNCHANGED vars
      BY <1>6, <1>7 DEF vars
<1>8. CASE \E u \in User, role \in Role : ClaimExpires(u, role)
      BY <1>6, <1>8 DEF ClaimExpires
<1> QED BY <1>3, <1>4, <1>5, <1>7, <1>8 DEF Next, SubmitRegister, SubmitSignIn, SubmitPatch

LEMMA TruthAnswers == Inv /\ Truthful => RegistrationAnswers
<1> SUFFICES ASSUME Inv, Truthful, NEW r \in Request,
                    pc[r] = "done", op[r].kind = "register"
             PROVE  /\ answer[r] = 201 => HasAccount(r)
                    /\ answer[r] = 409 => EmailTaken(table, op[r].email)
    BY DEF RegistrationAnswers, HasAccount
<1>1. op[r] # Null
      BY CommandAssumption DEF Inv, RequestInv, WellFormed
<1> QED BY <1>1 DEF Truthful, ToldTruth

\* However registrations race and statements fail, 201 and 409 tell the truth.
THEOREM RegistrationTruth == Spec => []RegistrationAnswers
<1>1. Init => Truthful
      BY DEF Init, Truthful, ToldTruth
<1> QED BY <1>1, TruthAnswers, InvHolds, NextTruth, PTL DEF Spec

-----------------------------------------------------------------------------
(* The welcome mail, and the process that dies. *)

\* A mail is started with the answer 201, which comes last.
MailInv ==
    /\ mail \in [Request -> Letter]
    /\ \A r \in Request :
          /\ pc[r] # "done" => answer[r] = 0
          /\ mail[r] # "none" <=> Registering(r) /\ answer[r] = 201

WholeInv == Inv /\ Truthful /\ MailInv

\* What the mail says follows from what its registration was told, and that two
\* accounts never share an address.
LEMMA WholeWelcomes == WholeInv => WelcomedOnce
<1> SUFFICES ASSUME WholeInv, NEW r \in Request
             PROVE  /\ mail[r] # "none" <=> Registering(r) /\ answer[r] = 201
                    /\ mail[r] # "none" =>
                          /\ HasAccount(r)
                          /\ \A s \in Request \ {r} :
                                mail[s] # "none" => Canon[op[s].email] # Canon[op[r].email]
    BY DEF WelcomedOnce, HasAccount
<1>1. ASSUME NEW s \in Request, mail[s] # "none"
      PROVE  Registering(s) /\ HasAccount(s) /\ op[s].who \in User
  <2>1. pc[s] = "done" /\ answer[s] = 201 /\ Registering(s)
        BY <1>1 DEF WholeInv, MailInv
  <2>2. op[s] \in Command /\ op[s] # Null
        BY <2>1, CommandAssumption DEF WholeInv, Inv, RequestInv, WellFormed
  <2> QED BY <2>1, <2>2 DEF WholeInv, Truthful, ToldTruth, Registering, Command
<1>2. ASSUME mail[r] # "none", NEW s \in Request \ {r}, mail[s] # "none",
             Canon[op[s].email] = Canon[op[r].email]
      PROVE  FALSE
  <2>1. op[s].who = op[r].who
        BY <1>1, <1>2 DEF WholeInv, Inv, UniqueEmails, Rows, HasAccount
  <2> QED BY <1>1, <1>2, <2>1 DEF WholeInv, Inv, FreshIds, Registering
<1>3. mail[r] # "none" <=> Registering(r) /\ answer[r] = 201
      BY DEF WholeInv, MailInv
<1> QED BY <1>1, <1>2, <1>3

\* A step of one request starts its own mail only.
LEMMA OneMails ==
    ASSUME WholeInv, NEW r \in Request,
           (\E c : Submit(r, c)) \/ Proceed(r) \/ StatementFails(r),
           mail' \in [Request -> Letter],
           \A s \in Request \ {r} : mail'[s] = mail[s],
           pc'[r] # "done" => answer'[r] = 0,
           mail'[r] # "none" <=> Registering(r)' /\ answer'[r] = 201
    PROVE  MailInv'
<1>1. \A s \in Request \ {r} : op'[s] = op[s] /\ pc'[s] = pc[s] /\ answer'[s] = answer[s]
      BY OneMoves DEF WholeInv
<1> QED BY <1>1 DEF WholeInv, MailInv, Registering

LEMMA ArriveMails ==
    ASSUME WholeInv, NEW r \in Request, Arrive(r) PROVE MailInv'
<1>1. PICK c : Submit(r, c)
      BY DEF Arrive, SubmitRegister
<1>2. mail' = mail /\ pc[r] = "idle" /\ answer'[r] = answer[r]
      BY <1>1 DEF Arrive, Submit, Await
<1>3. answer[r] = 0 /\ mail[r] = "none"
      BY <1>2 DEF WholeInv, MailInv, Registering
<1> QED BY <1>1, <1>2, <1>3, OneMails DEF WholeInv, MailInv

LEMMA FailsMails ==
    ASSUME WholeInv, NEW r \in Request, Fails(r) PROVE MailInv'
<1>1. StatementFails(r) /\ mail' = mail /\ pc[r] # "done"
      BY DEF Fails, StatementFails
<1>2. pc'[r] = "done" /\ answer'[r] = 500
      BY <1>1 DEF StatementFails, Answer, WholeInv, Inv, Types
<1>3. mail[r] = "none"
      BY <1>1 DEF WholeInv, MailInv
<1> QED BY <1>1, <1>2, <1>3, OneMails DEF WholeInv, MailInv

LEMMA AdvanceMails ==
    ASSUME WholeInv, NEW r \in Request, Advance(r) PROVE MailInv'
<1>1. Proceed(r)
      BY DEF Advance
<1>2. pc[r] \notin {"idle", "done"} /\ op' = op
      BY <1>1 DEF Proceed, Authenticate, FindForProfile, FindForRole, CountAdmins, SaveSelect,
         SaveUpdate, LookUpEmail, ExistsByEmail, SaveInsert, ReadCredentials, SignTokens
<1>3. answer[r] = 0 /\ mail[r] = "none"
      BY <1>2 DEF WholeInv, MailInv
<1>4. pc'[r] # "done" => answer'[r] = 0
      BY <1>1, <1>3 DEF Proceed, Authenticate, FindForProfile, FindForRole, CountAdmins,
         SaveSelect, SaveUpdate, LookUpEmail, ExistsByEmail, SaveInsert, ReadCredentials,
         SignTokens, Acknowledge, Answer, Await, WholeInv, Inv, Types
<1>5. CASE StartsMail(r)
  <2>1. mail' = [mail EXCEPT ![r] = "sending"]
        BY <1>5 DEF Advance
  <2>2. SignTokens(r)
        BY <1>1, <1>5 DEF StartsMail, Proceed, Authenticate, FindForProfile, FindForRole,
           CountAdmins, SaveSelect, SaveUpdate, LookUpEmail, ExistsByEmail, SaveInsert,
           ReadCredentials
  <2>3. pc'[r] = "done" /\ answer'[r] = 201
        BY <1>5, <2>2 DEF StartsMail, SignTokens, Answer, WholeInv, Inv, Types
  <2>4. Registering(r)'
        BY <1>2, <1>5, <2>3 DEF StartsMail, Registering
  <2>5. /\ mail' \in [Request -> Letter] /\ mail'[r] = "sending"
        /\ \A s \in Request \ {r} : mail'[s] = mail[s]
        BY <2>1 DEF WholeInv, MailInv, Letter
  <2> QED BY <1>1, <2>3, <2>4, <2>5, OneMails
<1>6. CASE ~StartsMail(r)
  <2>1. mail' = mail
        BY <1>6 DEF Advance
  <2>2. answer'[r] = 201 => SignTokens(r) /\ op[r].kind = "register"
        BY <1>1, <1>3 DEF Proceed, Authenticate, FindForProfile, FindForRole, CountAdmins,
           SaveSelect, SaveUpdate, LookUpEmail, ExistsByEmail, SaveInsert, ReadCredentials,
           SignTokens, Acknowledge, Answer, Await, WholeInv, Inv, Types
  <2>3. answer'[r] # 201
        BY <1>6, <2>2 DEF StartsMail, SignTokens
  <2> QED BY <1>1, <1>3, <1>4, <2>1, <2>3, OneMails DEF WholeInv, MailInv
<1> QED BY <1>5, <1>6

\* A crash answers what was in flight, and leaves the rows.
LEMMA CrashWhole == WholeInv /\ Crash => WholeInv'
<1> SUFFICES ASSUME WholeInv, Crash PROVE WholeInv'
    OBVIOUS
<1>1. table' = table /\ op' = op /\ claims' = claims
      BY DEF Crash
<1>2. ASSUME NEW r \in Request
      PROVE  /\ pc[r] = "idle" => pc'[r] = "idle" /\ answer'[r] = answer[r]
             /\ pc[r] = "done" => pc'[r] = "done" /\ answer'[r] = answer[r]
             /\ pc[r] \notin {"idle", "done"} => pc'[r] = "done" /\ answer'[r] = 500
             /\ mail'[r] # "none" <=> mail[r] # "none"
      BY DEF Crash, InFlight
<1>3. Types'
      BY <1>1 DEF WholeInv, Inv, Types, Crash, InFlight, Step, Status
<1>4. \A r \in Request : RequestInv(r)'
  <2> SUFFICES ASSUME NEW r \in Request PROVE RequestInv(r)'
      OBVIOUS
  <2>1. RequestInv(r) /\ pc'[r] \in {"idle", "done"} /\ (pc'[r] = "idle" <=> pc[r] = "idle")
        BY <1>2 DEF WholeInv, Inv
  <2> QED BY <1>1, <2>1 DEF RequestInv, KindFits
<1>5. FreshIds'
      BY <1>1, <1>2 DEF WholeInv, Inv, FreshIds
<1>6. Inv'
      BY <1>1, <1>3, <1>4, <1>5 DEF WholeInv, Inv, UniqueEmails, Canonical, Rows
<1>7. Truthful'
      BY <1>1, <1>2 DEF WholeInv, Truthful, ToldTruth, HasAccount, EmailTaken, Rows
<1>8. mail' \in [Request -> Letter]
      BY DEF WholeInv, MailInv, Crash, Letter
<1>9. MailInv'
      BY <1>1, <1>2, <1>8 DEF WholeInv, MailInv, Registering
<1> QED BY <1>6, <1>7, <1>9 DEF WholeInv

LEMMA NextWhole == WholeInv /\ [RegistrationNext]_allVars => WholeInv'
<1> SUFFICES ASSUME WholeInv, [RegistrationNext]_allVars PROVE WholeInv'
    OBVIOUS
<1>1. ASSUME [Next]_vars, MailInv' PROVE WholeInv'
      BY <1>1, NextInv, NextTruth DEF WholeInv
<1>2. ASSUME NEW r \in Request, Arrive(r) PROVE WholeInv'
      BY <1>1, <1>2, ArriveMails DEF Arrive, Next
<1>3. ASSUME NEW r \in Request, Advance(r) PROVE WholeInv'
      BY <1>1, <1>3, AdvanceMails DEF Advance, Next
<1>4. ASSUME NEW r \in Request, Fails(r) PROVE WholeInv'
      BY <1>1, <1>4, FailsMails DEF Fails, Next
<1>5. ASSUME NEW r \in Request, Send(r) PROVE WholeInv'
  <2>1. UNCHANGED vars /\ mail' \in [Request -> Letter]
        BY <1>5 DEF Send, WholeInv, MailInv, Letter
  <2>2. \A s \in Request : mail'[s] # "none" <=> mail[s] # "none"
        BY <1>5 DEF Send, WholeInv, MailInv
  <2> QED BY <1>1, <2>1, <2>2 DEF vars, WholeInv, MailInv, Registering
<1>6. CASE UNCHANGED allVars
      BY <1>1, <1>6 DEF allVars, vars, WholeInv, MailInv, Registering
<1> QED BY <1>2, <1>3, <1>4, <1>5, <1>6, CrashWhole DEF RegistrationNext

LEMMA InitWhole == RegistrationInit => WholeInv
<1> SUFFICES ASSUME RegistrationInit PROVE WholeInv
    OBVIOUS
<1>1. Inv
      BY InitInv DEF RegistrationInit
<1> QED BY <1>1 DEF RegistrationInit, Init, WholeInv, Truthful, ToldTruth, MailInv, Letter,
           Registering

\* However registrations race and fail, and whenever the process dies, one
\* mailbox is welcomed at most once, and what the mail says is true.
THEOREM Welcomed == RegistrationSpec => []WelcomedOnce
BY InitWhole, NextWhole, WholeWelcomes, PTL DEF RegistrationSpec

\* Dying makes nothing that was answered untrue, nor any mailbox shared.
THEOREM CrashesTellTruth == RegistrationSpec => [](OneAccountPerMailbox /\ RegistrationAnswers)
<1>1. WholeInv => OneAccountPerMailbox
      BY DEF WholeInv, Inv, UniqueEmails, Canonical, OneAccountPerMailbox
<1>2. WholeInv => RegistrationAnswers
      BY TruthAnswers DEF WholeInv
<1> QED BY <1>1, <1>2, InitWhole, NextWhole, PTL DEF RegistrationSpec

-----------------------------------------------------------------------------
(* The directory, and the process that dies. *)

\* No PATCH is under way: the clients considered here only register.
OnlyRegistrations == \A r \in Request : pc[r] # "idle" => op[r].kind = "register"

LEMMA OnlySerial == Inv /\ OnlyRegistrations => EditsCurrent /\ AdminSpared
<1> SUFFICES ASSUME Inv, OnlyRegistrations PROVE EditsCurrent /\ AdminSpared
    OBVIOUS
<1>1. ASSUME NEW r \in Request PROVE pc[r] \notin {"count", "select", "update"}
      BY DEF OnlyRegistrations, Inv, RequestInv, KindFits
<1> QED BY <1>1 DEF EditsCurrent, AdminSpared, EditHolds, SparesAdmin

LEMMA NextOnly ==
    WholeInv /\ OnlyRegistrations /\ [RegistrationNext]_allVars => OnlyRegistrations'
<1> SUFFICES ASSUME WholeInv, OnlyRegistrations, [RegistrationNext]_allVars
             PROVE  OnlyRegistrations'
    OBVIOUS
<1>1. ASSUME NEW r \in Request, NEW c \in RegisterCommands, Submit(r, c)
      PROVE  OnlyRegistrations'
  <2>1. op'[r] = c /\ c.kind = "register"
        BY <1>1 DEF Submit, RegisterCommands, WholeInv, Inv, Types
  <2> QED BY <1>1, <2>1, OneMoves DEF OnlyRegistrations, WholeInv
<1>2. ASSUME NEW r \in Request, Proceed(r) \/ StatementFails(r)
      PROVE  OnlyRegistrations'
  <2>1. op' = op /\ pc[r] # "idle"
        BY <1>2 DEF Proceed, Authenticate, FindForProfile, FindForRole, CountAdmins, SaveSelect,
           SaveUpdate, LookUpEmail, ExistsByEmail, SaveInsert, ReadCredentials, SignTokens,
           StatementFails
  <2> QED BY <1>2, <2>1, OneMoves DEF OnlyRegistrations, WholeInv
<1>3. CASE Crash
      BY <1>3 DEF Crash, InFlight, OnlyRegistrations
<1>4. CASE op' = op /\ pc' = pc
      BY <1>4 DEF OnlyRegistrations
<1> QED BY <1>1, <1>2, <1>3, <1>4 DEF RegistrationNext, Arrive, SubmitRegister, Advance, Fails,
           Send, allVars, vars

\* A step of the whole is one of the user module, or leaves the table alone.
LEMMA WholeStep == [RegistrationNext]_allVars => [Next]_vars \/ UNCHANGED table
BY DEF RegistrationNext, allVars, Arrive, Advance, Fails, Send, Crash, Next, vars

\* What registrations do to the users table, though the process dies at any of
\* their statements, is what the directory lets Register do.
THEOREM RegistrationKeepsDirectory == RegistrationSpec => DirectorySpec
<1>1. RegistrationInit => Directory!DirectoryInit /\ OnlyRegistrations
      BY DEF RegistrationInit, Init, Directory!DirectoryInit, OnlyRegistrations
<1>2. WholeInv /\ OnlyRegistrations /\ [RegistrationNext]_allVars
         => [Directory!DirectoryNext]_table
      BY OnlySerial, WholeStep, StepRefines DEF WholeInv
<1> QED BY <1>1, <1>2, InitWhole, NextWhole, NextOnly, PTL
    DEF RegistrationSpec, DirectorySpec, Directory!DirectorySpec

-----------------------------------------------------------------------------
(* Changes of roles. *)

\* A role change past its guard was asked for under an ADMIN token, about
\* somebody else.
Guarded ==
    \A r \in Request :
        pc[r] \in {"find", "count", "select", "update"} /\ op[r].kind = "updateRole" =>
            op[r].claim = "ADMIN" /\ op[r].who # op[r].target

LEMMA NextGuarded == Inv /\ Guarded /\ [Next]_vars => Guarded'
<1> SUFFICES ASSUME Inv, Guarded, [Next]_vars PROVE Guarded'
    OBVIOUS
<1> DEFINE Past == {"find", "count", "select", "update"}
<1>1. ASSUME NEW r \in Request, op'[r] = op[r], pc'[r] \in Past => pc[r] \in Past
      PROVE  pc'[r] \in Past /\ op'[r].kind = "updateRole" =>
                op'[r].claim = "ADMIN" /\ op'[r].who # op'[r].target
      BY <1>1 DEF Guarded
<1>2. ASSUME NEW r \in Request,
             (\E c : Submit(r, c)) \/ Proceed(r) \/ StatementFails(r),
             pc'[r] \in Past /\ op'[r].kind = "updateRole" =>
                op'[r].claim = "ADMIN" /\ op'[r].who # op'[r].target
      PROVE  Guarded'
      BY <1>1, <1>2, OneMoves DEF Guarded
<1>3. ASSUME NEW r \in Request, NEW c, Submit(r, c) PROVE Guarded'
  <2>1. pc'[r] \in {"lookup", "read", "guard"}
        BY <1>3 DEF Submit, Await, FirstStep, Inv, Types
  <2> QED BY <1>2, <1>3, <2>1
<1>4. ASSUME NEW r \in Request, Authenticate(r) PROVE Guarded'
  <2>1. op' = op /\ (pc'[r] = "done" \/ (RolesAllow(op[r]) /\ ~OwnRole(op[r])))
        BY <1>4 DEF Authenticate, Answer, Inv, Types
  <2> QED BY <1>2, <1>4, <2>1 DEF RolesAllow, OwnRole, Proceed
<1>5. ASSUME NEW r \in Request, Proceed(r) \/ StatementFails(r), ~Authenticate(r)
      PROVE  Guarded'
  <2>1. op' = op /\ (pc'[r] \in Past => pc[r] \in Past)
        BY <1>5 DEF Proceed, FindForProfile, FindForRole, CountAdmins, SaveSelect, SaveUpdate,
           LookUpEmail, ExistsByEmail, SaveInsert, ReadCredentials, SignTokens,
           StatementFails, Acknowledge, Answer, Await, Inv, Types
  <2> QED BY <1>1, <1>2, <1>5, <2>1
<1>6. CASE op' = op /\ pc' = pc
      BY <1>6 DEF Guarded
<1> QED BY <1>3, <1>4, <1>5, <1>6 DEF Next, vars, SubmitRegister, SubmitSignIn, SubmitPatch,
           Proceed, ClaimExpires

\* The save that changes a role.
LEMMA RoleWrite ==
    ASSUME Inv, EditsCurrent, Guarded, [Next]_vars, NEW u \in Rows(table),
           table'[u].role # table[u].role
    PROVE  \E r \in Request :
              /\ pc[r] = "update" /\ pc'[r] = "done"
              /\ op[r].kind = "updateRole" /\ op[r].target = u
              /\ op[r].role = table'[u].role
              /\ op[r].who # u /\ op[r].claim = "ADMIN"
<1>1. PICK r \in Request : SaveUpdate(r) \/ SaveInsert(r)
      BY WritesAreSaves
<1>2. CASE SaveInsert(r)
  <2>1. table[op[r].who] = Null
        BY <1>2 DEF Inv, RequestInv, SaveInsert
  <2>2. table' = table \/ table' = [table EXCEPT ![op[r].who] = entity[r]]
        BY <1>2 DEF SaveInsert
  <2>3. u # op[r].who /\ u \in User
        BY <2>1 DEF Rows
  <2> QED BY <2>2, <2>3 DEF Inv, Types, Table
<1>3. CASE SaveUpdate(r)
  <2> DEFINE c == op[r]
  <2>1. /\ WellFormed(c) /\ c.kind \in {"updateMe", "updateRole"}
        /\ c.target \in User /\ table[c.target] \in Row
        /\ table' = [table EXCEPT ![c.target] = Edited(c, table[c.target])]
        BY <1>3, SerialWrite
  <2>2. u = c.target /\ table'[u] = Edited(c, table[u])
        BY <2>1 DEF Inv, Types, Table, Rows
  <2>3. c.kind = "updateRole" /\ table'[u].role = c.role
        BY <2>1, <2>2 DEF Edited
  <2>4. pc[r] = "update" /\ pc'[r] = "done"
        BY <1>3 DEF SaveUpdate, Acknowledge, Answer, Inv, Types
  <2> QED BY <2>2, <2>3, <2>4 DEF Guarded
<1> QED BY <1>1, <1>2, <1>3

\* Where no two PATCH requests overlap on one row, no save of a whole entity moves
\* a role that its request was not allowed to change.
THEOREM OverlapsMoveNoRole == Spec /\ []RowsApart => RoleChangesAuthorised
<1> DEFINE Authorised ==
              \A u \in Rows(table) :
                 table'[u].role # table[u].role =>
                    \E r \in Request :
                       /\ pc[r] = "update" /\ pc'[r] = "done"
                       /\ op[r].kind = "updateRole" /\ op[r].target = u
                       /\ op[r].role = table'[u].role
                       /\ op[r].who # u /\ op[r].claim = "ADMIN"
<1>1. Init => Guarded
      BY DEF Init, Guarded
<1>2. Inv /\ EditsCurrent /\ Guarded /\ [Next]_vars => [Authorised]_vars
      BY RoleWrite
<1> QED BY <1>1, <1>2, EditsHold, NextGuarded, PTL DEF Spec, RoleChangesAuthorised

-----------------------------------------------------------------------------
(* Where administrators come from, when PATCH requests overlap as they may. *)

WasAdmin(t, u) == t[u] # Null /\ t[u].role = "ADMIN"

\* r asks, under an ADMIN token, to make somebody else, u, an administrator, and
\* has gone as far as the save, or was told that it was done or went wrong.
Promotes(r, u) ==
    /\ pc[r] \in {"select", "update"} \/ (pc[r] = "done" /\ answer[r] \in {200, 500})
    /\ op[r].kind = "updateRole" /\ op[r].target = u /\ op[r].role = "ADMIN"
    /\ op[r].claim = "ADMIN" /\ op[r].who # u

\* S has everybody who administered from the start, on the table t, and
\* everybody who was promoted by somebody in it.
ClosedUnderPromotion(t, S) ==
    /\ \A u : WasAdmin(t, u) => u \in S
    /\ \A r \in Request : \A u : Promotes(r, u) /\ op[r].who \in S => u \in S

\* A chain of promotions leads to u from somebody who administered on t: u is
\* in the smallest set that is closed under promotion.
Entitled(t, u) == \A S : ClosedUnderPromotion(t, S) => u \in S

\* No handler holds the role for a user who was never entitled to it.
HeldRoles(t, r) ==
    /\ pc[r] = "count" => entity[r].role # "ADMIN"
    /\ \A u :
          \/ /\ pc[r] \in {"select", "update"} /\ op[r].target = u
             /\ entity[r].role = "ADMIN"
          \/ pc[r] = "sign" /\ op[r].who = u /\ entity[r].role = "ADMIN"
          \/ pc[r] # "idle" /\ op[r].who = u /\ op[r].claim = "ADMIN"
          => Entitled(t, u)

EntitledRoles(t) ==
    /\ \A u \in Rows(table) : table[u].role = "ADMIN" => Entitled(t, u)
    /\ \A u \in User : "ADMIN" \in claims[u] => Entitled(t, u)
    /\ \A r \in Request : HeldRoles(t, r)

\* A promotion under way stays one until its answer, and then for good.
LEMMA PromotionStays ==
    ASSUME Inv, [Next]_vars, NEW r \in Request, NEW u, Promotes(r, u)
    PROVE  Promotes(r, u)' /\ op'[r] = op[r]
<1>1. CASE op'[r] = op[r] /\ pc'[r] = pc[r] /\ answer'[r] = answer[r]
      BY <1>1 DEF Promotes
<1>2. ASSUME NEW s \in Request, (\E c : Submit(s, c)) \/ Proceed(s) \/ StatementFails(s)
      PROVE  Promotes(r, u)' /\ op'[r] = op[r]
  <2>1. CASE s # r
        BY <1>1, <1>2, <2>1, OneMoves
  <2>2. CASE s = r
    <3>1. pc[r] \in {"select", "update", "done"}
          BY DEF Promotes
    <3>2. SaveSelect(r) \/ SaveUpdate(r) \/ StatementFails(r)
          BY <1>2, <2>2, <3>1 DEF Submit, Proceed, Authenticate, FindForProfile, FindForRole,
             CountAdmins, LookUpEmail, ExistsByEmail, SaveInsert, ReadCredentials, SignTokens
    <3>3. op' = op /\ (pc'[r] = "update" \/ (pc'[r] = "done" /\ answer'[r] \in {200, 500}))
          BY <3>2 DEF SaveSelect, SaveUpdate, StatementFails, Acknowledge, Answer, Inv, Types
    <3> QED BY <3>3 DEF Promotes
  <2> QED BY <2>1, <2>2
<1>3. CASE op' = op /\ pc' = pc /\ answer' = answer
      BY <1>1, <1>3
<1> QED BY <1>2, <1>3 DEF Next, vars, SubmitRegister, SubmitSignIn, SubmitPatch, ClaimExpires

LEMMA EntitledStays ==
    ASSUME Inv, [Next]_vars, NEW t, NEW u, Entitled(t, u)
    PROVE  Entitled(t, u)'
<1> SUFFICES ASSUME NEW S, ClosedUnderPromotion(t, S)' PROVE u \in S
    BY DEF Entitled
<1>1. ASSUME NEW r \in Request, NEW v, Promotes(r, v), op[r].who \in S PROVE v \in S
  <2>1. Promotes(r, v)' /\ op'[r] = op[r]
        BY <1>1, PromotionStays
  <2> QED BY <1>1, <2>1 DEF ClosedUnderPromotion
<1>2. ClosedUnderPromotion(t, S)
      BY <1>1 DEF ClosedUnderPromotion, WasAdmin
<1> QED BY <1>2 DEF Entitled

\* What another request, or none, holds is held still.
LEMMA HeldStays ==
    ASSUME Inv, [Next]_vars, NEW t, NEW s \in Request, HeldRoles(t, s),
           op'[s] = op[s], pc'[s] = pc[s], entity'[s] = entity[s]
    PROVE  HeldRoles(t, s)'
<1>1. \A u : Entitled(t, u) => Entitled(t, u)'
      BY EntitledStays
<1> QED BY <1>1 DEF HeldRoles

\* So is the entitlement of whoever sent it under an ADMIN token.
LEMMA HolderStays ==
    ASSUME Inv, [Next]_vars, NEW t, NEW r \in Request, HeldRoles(t, r),
           pc[r] # "idle", op[r].claim = "ADMIN", op'[r] = op[r]
    PROVE  \A u : u = op[r].who => Entitled(t, u)'
BY EntitledStays DEF HeldRoles

LEMMA OneHolds ==
    ASSUME Inv, NEW r \in Request,
           (\E c : Submit(r, c)) \/ Proceed(r) \/ StatementFails(r)
    PROVE  \A s \in Request \ {r} : op'[s] = op[s] /\ pc'[s] = pc[s] /\ entity'[s] = entity[s]
BY DEF Inv, Types, Submit, Proceed, Authenticate, FindForProfile, FindForRole, CountAdmins,
       SaveSelect, SaveUpdate, LookUpEmail, ExistsByEmail, SaveInsert, ReadCredentials,
       SignTokens, StatementFails, Acknowledge, Answer, Await

\* It is enough to look at the request that moves, and at what it writes or signs.
LEMMA OneEntitled ==
    ASSUME Inv, [Next]_vars, NEW t, EntitledRoles(t), NEW r \in Request,
           (\E c : Submit(r, c)) \/ Proceed(r) \/ StatementFails(r),
           HeldRoles(t, r)',
           \A u \in Rows(table') : table'[u].role = "ADMIN" =>
              (u \in Rows(table) /\ table[u].role = "ADMIN") \/ Entitled(t, u),
           \A u \in User : "ADMIN" \in claims'[u] =>
              "ADMIN" \in claims[u] \/ Entitled(t, u)
    PROVE  EntitledRoles(t)'
<1>1. \A u \in Rows(table)' : table'[u].role = "ADMIN" => Entitled(t, u)'
      BY EntitledStays DEF EntitledRoles, Rows
<1>2. \A u \in User : "ADMIN" \in claims'[u] => Entitled(t, u)'
      BY EntitledStays DEF EntitledRoles
<1>3. \A s \in Request \ {r} : HeldRoles(t, s)'
      BY OneHolds, HeldStays DEF EntitledRoles
<1> QED BY <1>1, <1>2, <1>3 DEF EntitledRoles

\* A request that goes on without an entity, or is answered.
LEMMA HeldNothing ==
    ASSUME Inv, [Next]_vars, NEW t, NEW r \in Request, HeldRoles(t, r), pc[r] # "idle",
           op'[r] = op[r], pc'[r] \notin {"count", "select", "update", "sign"}
    PROVE  HeldRoles(t, r)'
<1>1. \A u : Entitled(t, u) => Entitled(t, u)'
      BY EntitledStays
<1> QED BY <1>1 DEF HeldRoles

LEMMA AnswerEntitled ==
    ASSUME Inv, [Next]_vars, NEW t, EntitledRoles(t), NEW r \in Request,
           Proceed(r) \/ StatementFails(r), op' = op, table' = table, claims' = claims,
           pc[r] # "idle", pc'[r] \notin {"count", "select", "update", "sign"}
    PROVE  EntitledRoles(t)'
<1>1. HeldRoles(t, r)'
      BY HeldNothing DEF EntitledRoles
<1> QED BY <1>1, OneEntitled

LEMMA SubmitEntitled ==
    ASSUME Inv, [Next]_vars, NEW t, EntitledRoles(t), NEW r \in Request, NEW c, Submit(r, c),
           c.claim = "ADMIN" => Entitled(t, c.who)
    PROVE  EntitledRoles(t)'
<1>1. pc'[r] \in {"lookup", "read", "guard"} /\ op'[r] = c
      BY DEF Submit, Await, FirstStep, Inv, Types
<1>2. \A u : Entitled(t, u) => Entitled(t, u)'
      BY EntitledStays
<1>3. HeldRoles(t, r)'
      BY <1>1, <1>2 DEF HeldRoles
<1>4. table' = table /\ claims' = claims
      BY DEF Submit
<1> QED BY <1>3, <1>4, OneEntitled

\* The entity a PATCH builds is an administrator's if the row it read is, or if
\* its body says so, which the guard lets only an ADMIN token ask for.
LEMMA FindEntitled ==
    ASSUME Inv, Guarded, [Next]_vars, NEW t, EntitledRoles(t), NEW r \in Request,
           FindForProfile(r) \/ FindForRole(r)
    PROVE  EntitledRoles(t)'
<1> DEFINE c == op[r]
           user == table[c.target]
<1>1. /\ op' = op /\ table' = table /\ claims' = claims /\ pc[r] = "find"
      /\ c.kind \in {"updateMe", "updateRole"} /\ HeldRoles(t, r)
      BY DEF FindForProfile, FindForRole, EntitledRoles
<1>2. CASE \E status : Answer(r, status)
  <2>1. pc'[r] = "done"
        BY <1>2 DEF Answer, Inv, Types
  <2> QED BY <1>1, <2>1, AnswerEntitled DEF Proceed
<1>3. CASE /\ user # Null
           /\ \E step \in {"count", "select"} :
                 /\ Await(r, step, Edited(c, user))
                 /\ step = "count" => c.kind = "updateRole" /\ c.role = "USER"
  <2>1. PICK step \in {"count", "select"} :
           /\ Await(r, step, Edited(c, user))
           /\ step = "count" => c.kind = "updateRole" /\ c.role = "USER"
        BY <1>3
  <2>2. pc'[r] = step /\ entity'[r] = Edited(c, user)
        BY <2>1 DEF Await, Inv, Types
  <2>3. ASSUME step = "select", Edited(c, user).role = "ADMIN"
        PROVE  Entitled(t, c.target)'
    <3>1. CASE c.kind = "updateRole"
      <4>1. c.role = "ADMIN" /\ c.claim = "ADMIN" /\ c.who # c.target
            BY <1>1, <2>3, <3>1 DEF Edited, Guarded
      <4>2. Promotes(r, c.target)'
            BY <1>1, <2>2, <2>3, <3>1, <4>1 DEF Promotes
      <4>3. \A u : u = c.who => Entitled(t, u)'
            BY <1>1, <4>1, HolderStays
      <4> QED BY <1>1, <4>2, <4>3 DEF Entitled, ClosedUnderPromotion
    <3>2. CASE c.kind = "updateMe"
      <4>1. user.role = "ADMIN" /\ c.target \in Rows(table)
            BY <1>1, <1>3, <2>3, <3>2 DEF Edited, Rows, Inv, RequestInv, WellFormed, Command
      <4>2. \A u : u = c.target => Entitled(t, u)'
            BY <4>1, EntitledStays DEF EntitledRoles
      <4> QED BY <1>1, <4>2
    <3> QED BY <1>1, <3>1, <3>2
  <2>4. step = "count" => Edited(c, user).role # "ADMIN"
        BY <2>1 DEF Edited
  <2>5. HeldRoles(t, r)'
    <3>1. \A u : Entitled(t, u) => Entitled(t, u)'
          BY EntitledStays
    <3> QED BY <1>1, <2>2, <2>3, <2>4, <3>1 DEF HeldRoles
  <2> QED BY <1>1, <2>5, OneEntitled DEF Proceed
<1> QED BY <1>2, <1>3 DEF FindForProfile, FindForRole

\* The steps that answer, or go on without a role to write or to sign.
LEMMA PlainEntitled ==
    ASSUME Inv, [Next]_vars, NEW t, EntitledRoles(t), NEW r \in Request,
           \/ Authenticate(r) \/ LookUpEmail(r) \/ ExistsByEmail(r) \/ StatementFails(r)
    PROVE  EntitledRoles(t)'
<1>1. op' = op /\ table' = table /\ claims' = claims /\ pc[r] # "idle"
      BY DEF Authenticate, LookUpEmail, ExistsByEmail, StatementFails
<1>2. pc'[r] \in {"done", "find", "exists", "insert"}
      BY DEF Authenticate, LookUpEmail, ExistsByEmail, StatementFails, Answer, Await, Inv, Types
<1> QED BY <1>1, <1>2, AnswerEntitled DEF Proceed

LEMMA SaveEntitled ==
    ASSUME Inv, [Next]_vars, NEW t, EntitledRoles(t), NEW r \in Request,
           CountAdmins(r) \/ SaveSelect(r) \/ SaveUpdate(r)
    PROVE  EntitledRoles(t)'
<1>1. op' = op /\ claims' = claims /\ pc[r] # "idle" /\ HeldRoles(t, r)
      BY DEF CountAdmins, SaveSelect, SaveUpdate, EntitledRoles
<1>2. \A u : Entitled(t, u) => Entitled(t, u)'
      BY EntitledStays
<1>3. CASE CountAdmins(r)
  <2>1. table' = table /\ pc[r] = "count"
        BY <1>3 DEF CountAdmins
  <2>2. pc'[r] = "done" \/ (pc'[r] = "select" /\ entity'[r] = entity[r])
        BY <1>3 DEF CountAdmins, Answer, Await, Inv, Types
  <2>3. HeldRoles(t, r)'
        BY <1>1, <1>2, <2>1, <2>2 DEF HeldRoles
  <2> QED BY <1>1, <1>3, <2>1, <2>3, OneEntitled DEF Proceed
<1>4. CASE SaveSelect(r)
  <2>1. table' = table /\ pc[r] = "select" /\ pc'[r] = "update" /\ entity'[r] = entity[r]
        BY <1>4 DEF SaveSelect, Inv, Types
  <2>2. HeldRoles(t, r)'
        BY <1>1, <1>2, <2>1 DEF HeldRoles
  <2> QED BY <1>1, <1>4, <2>1, <2>2, OneEntitled DEF Proceed
<1>5. CASE SaveUpdate(r)
  <2> DEFINE u == op[r].target
  <2>1. /\ pc[r] = "update" /\ pc'[r] = "done"
        /\ table' = [table EXCEPT ![u] = Merged(entity[r], loaded[r], table[u])]
        BY <1>5 DEF SaveUpdate, Acknowledge, Answer, Inv, Types
  <2>2. HeldRoles(t, r)'
        BY <1>1, <2>1, HeldNothing
  <2>3. table[u] # Null
        BY <2>1 DEF Inv, RequestInv
  <2>4. entity[r].role = "ADMIN" => Entitled(t, u)
        BY <1>1, <2>1 DEF HeldRoles
  <2>5. Merged(entity[r], loaded[r], table[u]).role \in {entity[r].role, table[u].role}
        BY DEF Merged, Column
  <2>6. ASSUME NEW v \in Rows(table'), table'[v].role = "ADMIN"
        PROVE  (v \in Rows(table) /\ table[v].role = "ADMIN") \/ Entitled(t, v)
    <3>1. CASE v = u
      <4>1. table'[u] = Merged(entity[r], loaded[r], table[u]) /\ u \in Rows(table)
            BY <2>1, <2>3, <3>1 DEF Rows, Inv, Types, Table
      <4> QED BY <2>4, <2>5, <2>6, <3>1, <4>1
    <3>2. CASE v # u
      <4>1. table'[v] = table[v] /\ v \in Rows(table)
            BY <2>1, <3>2 DEF Rows, Inv, Types, Table
      <4> QED BY <2>6, <4>1
    <3> QED BY <3>1, <3>2
  <2> QED BY <1>1, <1>5, <2>2, <2>6, OneEntitled DEF Proceed
<1> QED BY <1>3, <1>4, <1>5

LEMMA SignEntitled ==
    ASSUME Inv, [Next]_vars, NEW t, EntitledRoles(t), NEW r \in Request,
           SaveInsert(r) \/ ReadCredentials(r) \/ SignTokens(r)
    PROVE  EntitledRoles(t)'
<1> DEFINE u == op[r].who
<1>1. op' = op /\ pc[r] # "idle" /\ HeldRoles(t, r)
      BY DEF SaveInsert, ReadCredentials, SignTokens, EntitledRoles
<1>2. \A v : Entitled(t, v) => Entitled(t, v)'
      BY EntitledStays
<1>3. CASE SaveInsert(r)
  <2>1. /\ claims' = claims
        /\ \/ table' = table
           \/ table' = [table EXCEPT ![u] = entity[r]] /\ Await(r, "sign", entity[r])
        /\ pc'[r] = "done" \/ (pc'[r] = "sign" /\ entity'[r] = entity[r])
        BY <1>3 DEF SaveInsert, Answer, Await, Inv, Types
  <2>2. entity[r].role = "USER"
    <3>1. entity[r] = NewUser(op[r])
          BY <1>3 DEF SaveInsert, Inv, RequestInv
    <3> QED BY <3>1 DEF NewUser
  <2>3. HeldRoles(t, r)'
        BY <1>1, <1>2, <2>1, <2>2 DEF HeldRoles
  <2>4. \A v \in Rows(table') : table'[v].role = "ADMIN" =>
           v \in Rows(table) /\ table[v].role = "ADMIN"
        BY <2>1, <2>2 DEF Rows, Inv, Types, Table
  <2> QED BY <1>1, <1>3, <2>1, <2>3, <2>4, OneEntitled DEF Proceed
<1>4. CASE ReadCredentials(r)
  <2>1. table' = table /\ claims' = claims /\ pc[r] = "read"
        BY <1>4 DEF ReadCredentials
  <2>2. \/ pc'[r] = "done"
        \/ pc'[r] = "sign" /\ entity'[r] = table[u] /\ table[u] # Null
        BY <1>4 DEF ReadCredentials, Answer, Await, Inv, Types
  <2>3. u \in User
        BY <2>1 DEF Inv, RequestInv, WellFormed, Command
  <2>4. table[u] # Null /\ table[u].role = "ADMIN" => Entitled(t, u)
        BY <2>3 DEF EntitledRoles, Rows
  <2>5. HeldRoles(t, r)'
        BY <1>1, <1>2, <2>1, <2>2, <2>4 DEF HeldRoles
  <2> QED BY <1>1, <1>4, <2>1, <2>5, OneEntitled DEF Proceed
<1>5. CASE SignTokens(r)
  <2>1. /\ table' = table /\ pc[r] = "sign" /\ pc'[r] = "done"
        /\ claims' = [claims EXCEPT ![u] = claims[u] \cup {entity[r].role}]
        BY <1>5 DEF SignTokens, Answer, Inv, Types
  <2>2. entity[r].role = "ADMIN" => Entitled(t, u)
        BY <1>1, <2>1 DEF HeldRoles
  <2>3. HeldRoles(t, r)'
        BY <1>1, <2>1, HeldNothing
  <2>4. \A v \in User : "ADMIN" \in claims'[v] => "ADMIN" \in claims[v] \/ Entitled(t, v)
        BY <2>1, <2>2 DEF Inv, Types
  <2> QED BY <1>1, <1>5, <2>1, <2>3, <2>4, OneEntitled DEF Proceed
<1> QED BY <1>3, <1>4, <1>5

LEMMA NextEntitled ==
    ASSUME NEW t, Inv, Guarded, EntitledRoles(t), [Next]_vars PROVE EntitledRoles(t)'
<1>1. ASSUME NEW r \in Request, NEW c \in RegisterCommands \cup SignInCommands, Submit(r, c)
      PROVE  EntitledRoles(t)'
  <2>1. c.claim # "ADMIN"
        BY NullAssumption DEF RegisterCommands, SignInCommands, Role
  <2> QED BY <1>1, <2>1, SubmitEntitled
<1>2. ASSUME NEW r \in Request, NEW c \in UpdateMeCommands \cup UpdateRoleCommands,
             SubmitPatch(r, c)
      PROVE  EntitledRoles(t)'
  <2>1. c.who \in User /\ c.claim \in claims[c.who] /\ Submit(r, c)
        BY <1>2 DEF SubmitPatch, UpdateMeCommands, UpdateRoleCommands
  <2> QED BY <2>1, SubmitEntitled DEF EntitledRoles
<1>3. ASSUME NEW r \in Request, Proceed(r) \/ StatementFails(r) PROVE EntitledRoles(t)'
      BY <1>3, PlainEntitled, FindEntitled, SaveEntitled, SignEntitled DEF Proceed
<1>4. ASSUME table' = table, op' = op, pc' = pc, entity' = entity,
             \A u \in User : claims'[u] \subseteq claims[u]
      PROVE  EntitledRoles(t)'
  <2>1. \A u : Entitled(t, u) => Entitled(t, u)'
        BY EntitledStays
  <2>2. \A s \in Request : HeldRoles(t, s)'
        BY <1>4, HeldStays DEF EntitledRoles
  <2> QED BY <1>4, <2>1, <2>2 DEF EntitledRoles, Rows
<1>5. ASSUME NEW u \in User, NEW role \in Role, ClaimExpires(u, role) PROVE EntitledRoles(t)'
  <2>1. \A v \in User : claims'[v] \subseteq claims[v]
        BY <1>5 DEF ClaimExpires, Inv, Types
  <2> QED BY <1>4, <1>5, <2>1 DEF ClaimExpires
<1>6. CASE UNCHANGED vars
      BY <1>4, <1>6 DEF vars
<1> QED BY <1>1, <1>2, <1>3, <1>5, <1>6 DEF Next, SubmitRegister, SubmitSignIn

\* Nobody becomes an administrator unasked, however profile updates, role changes
\* and sign-ins overlap and lose each other's writes: to whoever has the role, in
\* the table or in a token, a chain of promotions leads from an administrator of
\* the table the service started with, each asked for under an ADMIN token by
\* somebody the chain had reached.
THEOREM AdministratorsEntitled ==
    ASSUME NEW t
    PROVE  Spec /\ table = t =>
              [](/\ \A u \in Rows(table) : table[u].role = "ADMIN" => Entitled(t, u)
                 /\ \A u \in User : "ADMIN" \in claims[u] => Entitled(t, u))
<1>1. Init => Guarded
      BY DEF Init, Guarded
<1>2. Init /\ table = t => EntitledRoles(t)
  <2> SUFFICES ASSUME Init, table = t PROVE EntitledRoles(t)
      OBVIOUS
  <2>1. \A u \in User : table[u] # Null /\ table[u].role = "ADMIN" => Entitled(t, u)
        BY DEF Entitled, ClosedUnderPromotion, WasAdmin
  <2>2. \A u \in User : "ADMIN" \in claims[u] => table[u] # Null /\ table[u].role = "ADMIN"
        BY DEF Init
  <2>3. \A r \in Request : HeldRoles(t, r)
        BY DEF Init, HeldRoles
  <2> QED BY <2>1, <2>2, <2>3 DEF EntitledRoles, Rows
<1>3. EntitledRoles(t) =>
         /\ \A u \in Rows(table) : table[u].role = "ADMIN" => Entitled(t, u)
         /\ \A u \in User : "ADMIN" \in claims[u] => Entitled(t, u)
      BY DEF EntitledRoles
<1>4. Inv /\ Guarded /\ EntitledRoles(t) /\ [Next]_vars
         => Inv' /\ Guarded' /\ EntitledRoles(t)'
      BY NextInv, NextGuarded, NextEntitled
<1> QED BY <1>1, <1>2, <1>3, <1>4, InitInv, PTL DEF Spec
=============================================================================
