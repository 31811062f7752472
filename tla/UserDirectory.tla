--------------------------- MODULE UserDirectory ---------------------------
(***************************************************************************)
(* What the user module promises, as its doc comments state it: a table on *)
(* which each operation takes effect at once.  A registration adds a row   *)
(* under a free e-mail address; a profile update changes the fields it     *)
(* provides and preserves the others; a role update changes the role of    *)
(* somebody else and never demotes the last administrator.  Users.tla is   *)
(* the detailed specification, and says when it keeps this promise.        *)
(***************************************************************************)
EXTENDS UserRecords

VARIABLE table

DirectoryInit == table \in InitialTables

Register(u, e, p) ==
    /\ table[u] = Null
    /\ ~EmailTaken(table, e)
    /\ table' = [table EXCEPT ![u] = [email |-> Canon[e], profile |-> p,
                                      role |-> "USER", active |-> TRUE]]

UpdateProfile(u) ==
    /\ table[u] # Null
    /\ \E p \in Profile, a \in BOOLEAN :
          table' = [table EXCEPT ![u] = [email |-> table[u].email, profile |-> p,
                                         role |-> table[u].role, active |-> a]]

UpdateRole(u, role) ==
    /\ table[u] # Null
    /\ table[u].role = "ADMIN" /\ role = "USER" => \E v \in Admins(table) : v # u
    /\ table' = [table EXCEPT ![u].role = role]

DirectoryNext ==
    \E u \in User :
        \/ \E e \in Spelling, p \in Profile : Register(u, e, p)
        \/ UpdateProfile(u)
        \/ \E role \in Role : UpdateRole(u, role)

DirectorySpec == DirectoryInit /\ [][DirectoryNext]_table

\* A legal table has unique e-mails and an administrator.
DirectoryLegal ==
    table \in Table /\ UniqueEmails(table) /\ HasAdmin(table)
=============================================================================
