----------------------------- MODULE MCSessions -----------------------------
(* What the process remembers of its visitors: sessions and failed logins, *)
(* revoked tokens, codes of images, cached values.  These share no         *)
(* variable, and a behaviour is about one of them.                         *)
EXTENDS MCLogin, Cache, Tokens, Captcha

VARIABLE part  \* "login", "cache", "tokens" or "captcha"

(* A part that waits is in one of its initial states.                      *)
LoginWaits == Init /\ limits = [total |-> 2, perKey |-> 1]
CacheWaits == CacheInit /\ backend = "redis" /\ maxEntries = 1

MCInit ==
    /\ TokensInit /\ CaptchaInit
    /\ \/ part = "login" /\ Init /\ CacheWaits
       \/ part = "cache" /\ LoginWaits /\ CacheInit
       \/ part \in {"tokens", "captcha"} /\ LoginWaits /\ CacheWaits

MCNext ==
    /\ UNCHANGED part
    /\ \/ part = "login" /\ Next /\ UNCHANGED <<cacheVars, tokenVars, captchaVars>>
       \/ part = "cache" /\ CacheNext /\ UNCHANGED <<vars, tokenVars, captchaVars>>
       \/ part = "tokens" /\ TokensNext /\ UNCHANGED <<vars, cacheVars, captchaVars>>
       \/ part = "captcha" /\ CaptchaNext /\ UNCHANGED <<vars, cacheVars, tokenVars>>

MCSpec == MCInit /\ [][MCNext]_<<vars, cacheVars, tokenVars, captchaVars, part>>
=============================================================================
