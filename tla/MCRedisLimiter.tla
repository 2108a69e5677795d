--------------------------- MODULE MCRedisLimiter ---------------------------
(* A small instance of RedisLimiter. *)
EXTENDS RedisLimiter, TLC
=============================================================================
