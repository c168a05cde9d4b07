---------------------------- MODULE MCRedisQueue ----------------------------
(* RedisQueue on small instances.                                          *)
EXTENDS RedisQueue, TLC

MCSymmetry ==
    Permutations(Tasks) \cup Permutations(Replicas) \cup Permutations(Workers)
=============================================================================
