---------------------------- MODULE SessionLedger ----------------------------
(***************************************************************************)
(* What the auth module promises about sessions, as the doc comments of    *)
(* AuthService and AuthController state it: a session opened by a          *)
(* registration or a login is held by one refresh token at a time.  A      *)
(* refresh hands it on to a new token in one step; a logout ends it, and a *)
(* logout-all every session of the user.  Nobody opens it again.           *)
(* Sessions.tla is the detailed specification, and says when it keeps this *)
(* promise.                                                                *)
(***************************************************************************)
CONSTANTS
    User,   \* ids of the users
    Token   \* refresh tokens: records, of which only the field user matters

VARIABLES
    current,  \* pairs of an open session, named by its first token, and its token
    used      \* the tokens issued so far

LedgerVars == <<current, used>>

LedgerInit == current = {} /\ used = {}

Others(s) == {p \in current : p[1] # s}

Open(s) ==
    /\ s \notin used
    /\ used' = used \cup {s}
    /\ current' = current \cup {<<s, s>>}

Rotate(s, new) ==
    /\ new \notin used /\ new.user = s.user
    /\ used' = used \cup {new}
    /\ Others(s) # current
    /\ current' = Others(s) \cup {<<s, new>>}

\* Also what becomes of a session whose rotation fails half-way.
End(s) ==
    /\ UNCHANGED used
    /\ current' = Others(s)

EndAll(u) ==
    /\ UNCHANGED used
    /\ current' = {p \in current : p[1].user # u}

LedgerNext ==
    \/ \E s \in Token : Open(s) \/ End(s) \/ \E new \in Token : Rotate(s, new)
    \/ \E u \in User : EndAll(u)

LedgerSpec == LedgerInit /\ [][LedgerNext]_LedgerVars
=============================================================================
