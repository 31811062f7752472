----------------------------- MODULE MCSessions -----------------------------
(* Instances of Sessions for TLC. *)
EXTENDS Sessions, TLC

\* No safety property tells one request slot, or one user, from another.
Interchangeable == Permutations(Request) \cup Permutations(User)
=============================================================================
