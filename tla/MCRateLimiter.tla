----------------------------- MODULE MCRateLimiter -----------------------------
(* Instance of RateLimiter for TLC. *)
EXTENDS RateLimiter

CONSTANTS ip1, ip2

MCKeys == {ip1, ip2}
MCKey == {ip1}
=============================================================================
