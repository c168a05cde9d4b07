----------------------------- MODULE MCOrmQuery -----------------------------
(* Conditions with no argument, one and two, and a table of three rows.    *)
EXTENDS OrmQuery

MCConds == {"null", "in", "search"}
MCMeets == [null |-> {1, 2}, in |-> {2, 3}, search |-> {1, 3}]
MCHoles == [null |-> <<>>, in |-> << <<"in", 1>>, <<"in", 2>> >>,
            search |-> << <<"search", 1>> >>]
MCRankOf == <<2, 3, 1>>
=============================================================================
