----------------------------- MODULE MCRedisPaths -----------------------------
(***************************************************************************)
(* TLC instance of RedisPaths: readings of two keys and one that is not    *)
(* stored, any of them published more than once; two document uploads in   *)
(* the api process that share a pool of one thread and the breaker of      *)
(* their tenant.                                                           *)
(***************************************************************************)
EXTENDS RedisPaths

CONSTANTS u1, u2

MCFeed == {[key |-> "k1", value |-> 1, fate |-> "good"],
           [key |-> "k2", value |-> 1, fate |-> "good"],
           [key |-> "k3", value |-> 1, fate |-> "unknown"]}
MCCallers == {u1, u2}
MCHome == [c \in MCCallers |-> "api"]
=============================================================================
