---------------------------- MODULE Registration ----------------------------
(***************************************************************************)
(* Registration as a whole: the user module, the welcome mail that         *)
(* AuthService.register starts once the tokens are there and does not wait *)
(* for, and the process, which may die at any moment.  A crash abandons    *)
(* the requests under way and the mails still with the HTTP client, and    *)
(* leaves the rows; clients that were cut off register again, in another   *)
(* slot.  An answer of 500 stands for the broken connection too.           *)
(***************************************************************************)
EXTENDS Users

VARIABLE mail  \* mail[r]: the welcome mail that the registration r started

allVars == <<table, claims, op, pc, entity, loaded, answer, mail>>

Letter == {"none", "sending", "sent", "failed", "lost"}

RegistrationInit == Init /\ mail = [r \in Request |-> "none"]

Arrive(r) == /\ \E c \in RegisterCommands : SubmitRegister(r, c)
             /\ UNCHANGED mail

\* Mutant: the mail is started with the user, before the tokens are stored.
StartsMailEarly(r) == op[r].kind = "register" /\ pc[r] = "insert"

\* register calls sendWelcomeEmail when generateTokens has returned, and
\* answers without awaiting it.
StartsMail(r) == op[r].kind = "register" /\ pc[r] = "sign"

Advance(r) ==
    /\ Proceed(r)
    /\ mail' = IF StartsMail(r) THEN [mail EXCEPT ![r] = "sending"] ELSE mail

Fails(r) == StatementFails(r) /\ UNCHANGED mail

\* send: whatever Resend answers or throws becomes a result, which is logged.
Send(r) ==
    /\ mail[r] = "sending"
    /\ \E result \in {"sent", "failed"} : mail' = [mail EXCEPT ![r] = result]
    /\ UNCHANGED vars

InFlight(r) == pc[r] \notin {"idle", "done"}

\* The process dies, and another takes its place.  Resend may have taken a mail it was being handed.
Crash ==
    /\ pc' = [r \in Request |-> IF InFlight(r) THEN "done" ELSE pc[r]]
    /\ answer' = [r \in Request |-> IF InFlight(r) THEN 500 ELSE answer[r]]
    /\ entity' = [r \in Request |-> Null]
    /\ loaded' = [r \in Request |-> Null]
    /\ mail' = [r \in Request |-> IF mail[r] = "sending" THEN "lost" ELSE mail[r]]
    /\ UNCHANGED <<table, claims, op>>

RegistrationNext ==
    \/ \E r \in Request : Arrive(r) \/ Advance(r) \/ Fails(r) \/ Send(r)
    \/ Crash

RegistrationSpec ==
    /\ RegistrationInit /\ [][RegistrationNext]_allVars
    /\ \A r \in Request : WF_allVars(Advance(r) \/ Fails(r))

-----------------------------------------------------------------------------
\* However registrations race, fail and are tried again, a mailbox is welcomed
\* at most once, when its owner is told 201 and never otherwise, and the account
\* the mail speaks of is there.
WelcomedOnce ==
    \A r \in Request :
        /\ mail[r] # "none" <=> Registering(r) /\ answer[r] = 201
        /\ mail[r] # "none" =>
              /\ table[op[r].who] # Null /\ table[op[r].who].email = Canon[op[r].email]
              /\ \A s \in Request \ {r} :
                    mail[s] # "none" => Canon[op[s].email] # Canon[op[r].email]
=============================================================================
