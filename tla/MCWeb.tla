-------------------------------- MODULE MCWeb --------------------------------
(* Web, one part in each behaviour.                                        *)
EXTENDS Web, MCAdmin

(* The user of the panel is an administrator, or has just lost it all; the *)
(* other administrator may make them staff.                                *)
MCInit ==
    /\ WebInit
    /\ IF part = "requests" THEN role = "none" /\ stamp[1] = NoStamp ELSE role # "staff"

MCSpec == MCInit /\ [][WebNext]_webVars

WebSymmetry ==
    Permutations(Conns) \cup Permutations(Clients) \cup Permutations(Contexts)
      \cup Permutations(DataMaps)
=============================================================================
