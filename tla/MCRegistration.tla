--------------------------- MODULE MCRegistration ---------------------------
(* An instance of Registration for TLC. *)
EXTENDS Registration, TLC

CONSTANTS u1, u2, u3, u4, r1, r2, r3, lower, upper, other, p1

\* "UPPER@x.org" and "lower@x.org" are spellings of one address.
MCCanon == [e \in Spelling |-> IF e = upper THEN lower ELSE e]

\* u1 administers, and three free ids may want one mailbox.
MCOneAdmin ==
    {(u1 :> [email |-> other, profile |-> p1, role |-> "ADMIN", active |-> TRUE])
        @@ [u \in User |-> Null]}
=============================================================================
