------------------------------ MODULE MCUsers ------------------------------
(* Instances of Users for TLC. *)
EXTENDS Users, TLC

CONSTANTS u1, u2, u3, r1, r2, r3, lower, upper, other, fresh, p1, p2

\* No property tells one request slot from another.
Slots == Permutations(Request)

\* "UPPER@x.org" and "lower@x.org" are spellings of one address.
MCCanon == [e \in Spelling |-> IF e = upper THEN lower ELSE e]

RowOf(e, role) == [email |-> e, profile |-> p1, role |-> role, active |-> TRUE]

\* u1 administers; u2 is a second administrator or an ordinary user.
MCTables == {(u1 :> RowOf(other, "ADMIN")) @@ (u2 :> RowOf(lower, role))
                @@ [u \in User |-> Null] : role \in Role}

\* Or u2 is yet to register.
MCTablesOrFree == MCTables \cup {(u1 :> RowOf(other, "ADMIN")) @@ [u \in User |-> Null]}
=============================================================================
