------------------------------ MODULE MCLogin ------------------------------
(* Login with two requests at a time, both from one browser and for one    *)
(* account, and one user key of the application.                           *)
EXTENDS Login, TLC

CONSTANT ip

MCAddressOf == [b \in Browsers |-> ip]
MCLimits == {[total |-> 2, perKey |-> 1], [total |-> 3, perKey |-> 1]}
MCSymmetry ==
    Permutations(Ids) \cup Permutations(Requests)
=============================================================================
