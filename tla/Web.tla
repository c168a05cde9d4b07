--------------------------------- MODULE Web ---------------------------------
(* What a browser meets, in two parts that share no variable: the path of  *)
(* a request through the middleware and the renderer, and the admin panel. *)
EXTENDS Requests, Admin

VARIABLE part  \* "requests" or "admin"

webVars == <<requestVars, adminVars, part>>

WebInit == part \in {"requests", "admin"} /\ RequestsInit /\ AdminInit

WebNext ==
    /\ UNCHANGED part
    /\ \/ part = "requests" /\ RequestsNext /\ UNCHANGED adminVars
       \/ part = "admin" /\ AdminNext /\ UNCHANGED requestVars

WebSpec == WebInit /\ [][WebNext]_webVars

(* The values of the variables of both parts.  An open request has a       *)
(* context that is in no pool, what goes back to a pool is empty, and      *)
(* RateLimit counts no request twice.                                      *)
WebTypeOK == RequestsTypeOK /\ AdminTypeOK
=============================================================================
