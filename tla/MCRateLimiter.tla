--------------------------- MODULE MCRateLimiter ----------------------------
(* Small instance of the rate limiter: MCRateLimiter.cfg gives the values. *)
EXTENDS RateLimiter
=============================================================================
