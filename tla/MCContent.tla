----------------------------- MODULE MCContent -----------------------------
(* Instances of Content for TLC. *)
EXTENDS Content, TLC

CONSTANTS list, one

\* No safety property tells one request slot from another.
Slots == Permutations(Request)

\* A list always has an answer; the entry is deleted by its first edit and
\* published again by the second.
MCServed == [k \in Key |-> IF k \in Lists THEN Edit ELSE Edit \ {1}]
=============================================================================
