---------------------------- MODULE MCHttpClient ----------------------------
(* An instance of HttpClient for TLC: callers ask for no retry, one, or three. *)
EXTENDS HttpClient

MCRetries == {0, 1, 3}
=============================================================================
