------------------------------ MODULE MCAdmin ------------------------------
(* Admin with two tabs of one browser and three keys, and a struct with a  *)
(* field of each kind: the password is marked "encrypt" as well, the owner *)
(* is beyond the options, and nobody is the deputy.                        *)
EXTENDS Admin, TLC

MCTags ==
    [name |-> {}, pass |-> {"hash", "encrypt"}, note |-> {"encrypt"}, photo |-> {"image"},
     due |-> {"datetime"}, owner |-> {"fk"}, deputy |-> {"fk", "optional"},
     state |-> {"default"}, saved |-> {"autonow"}]
MCRow ==
    [name |-> 1, pass |-> 1, note |-> 1, photo |-> 1, due |-> 3, owner |-> 9, deputy |-> Blank,
     state |-> 1, saved |-> 0]
MCRows == [pk \in Pks |-> IF pk = 1 THEN MCRow ELSE Absent]
MCNewRows == {[MCRow EXCEPT !.due = 0, !.state = Blank]}
MCTouches == {[field |-> "name", input |-> 2], [field |-> "pass", input |-> 2]}
MCTargets == <<7, 8, 9>>
=============================================================================
