------------------------------ MODULE MCRateLimit ------------------------------
(* A small instance of the rate limiter for TLC. *)
EXTENDS RateLimit, TLC

KeySymmetry == Permutations(Keys)
===============================================================================
