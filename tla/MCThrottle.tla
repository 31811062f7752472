----------------------------- MODULE MCThrottle -----------------------------
(* An instance of Throttle for TLC: the order of the limits and of the ttls  *)
(* is that of the shipped configuration, where login and register allow the  *)
(* fewest requests over the longest time.                                    *)
EXTENDS Throttle

CONSTANTS a1

MCConfig == [default |-> [ttl |-> 1, limit |-> 2],
             login |-> [ttl |-> 2, limit |-> 2],
             register |-> [ttl |-> 3, limit |-> 2]]

MCAnnounced == [default |-> 1, login |-> 2, register |-> 3]
=============================================================================
