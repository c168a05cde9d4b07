------------------------------- MODULE MCHub -------------------------------
(* Hub with a connection of a session and one without, and two publishers  *)
(* that mix a broadcast, updates for the session and a no-op.              *)
EXTENDS Hub

CONSTANTS c1, c2, p1, p2, k1

MCKeyOf == [c \in Clients |-> IF c = c1 THEN k1 ELSE NoKey]
MCScript == [p \in Publishers |->
               IF p = p1 THEN <<Everyone, NoKey, k1>> ELSE <<k1>>]
=============================================================================
