---------------------------- MODULE UserRecords ----------------------------
(***************************************************************************)
(* The vocabulary of the "users" table: what a row holds, when a table is  *)
(* legal, and who its administrators are.  Shared by the directory the     *)
(* user module promises (UserDirectory) and by the request handlers that   *)
(* implement it (Users).                                                   *)
(***************************************************************************)
EXTENDS FiniteSets

CONSTANTS
    User,          \* the uuids rows can have
    Spelling,      \* e-mail addresses as clients type them
    Canon,         \* [Spelling -> Spelling]: the lower-case form of a spelling
    Profile,       \* values of the columns only their owner edits (names, age, avatar)
    Null,          \* no row, or a field the request body leaves out
    InitialTables  \* the contents the table may have when the service starts

Role == {"USER", "ADMIN"}

Row == [email : Spelling, profile : Profile, role : Role, active : BOOLEAN]

Table == [User -> Row \cup {Null}]

\* The rows of a table: the ids that have one.
Rows(table) == {u \in User : table[u] # Null}

\* UNIQUE("email"): no two rows share one.
UniqueEmails(table) ==
    \A u, v \in Rows(table) : table[u].email = table[v].email => u = v

\* countByRole(ADMIN) counts every row with the role, active or not.
Admins(table) == {u \in Rows(table) : table[u].role = "ADMIN"}

HasAdmin(table) == Admins(table) # {}

\* Addresses are stored in lower case.
Canonical(table) == \A u \in Rows(table) : Canon[table[u].email] = table[u].email

\* existsByEmail and findByEmail look the lower-case form up.
EmailTaken(table, e) == \E u \in Rows(table) : table[u].email = Canon[e]

ASSUME CanonAssumption ==
    /\ Canon \in [Spelling -> Spelling]
    /\ \A e \in Spelling : Canon[Canon[e]] = Canon[e]

ASSUME NullAssumption ==
    /\ Null \notin Row
    /\ Null \notin Spelling
    /\ Null \notin Profile
    /\ Null \notin Role
    /\ Null \notin BOOLEAN

\* The service is deployed over a table with at least one administrator: the
\* code has no operation that creates the first one.
ASSUME InitialAssumption ==
    \A table \in InitialTables :
        /\ table \in Table
        /\ UniqueEmails(table)
        /\ Canonical(table)
        /\ HasAdmin(table)
=============================================================================
