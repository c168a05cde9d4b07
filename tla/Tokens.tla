------------------------------- MODULE Tokens -------------------------------
(***************************************************************************)
(* The Authenticator of core/security/auth/auth.go.  A token is signed and *)
(* says itself when it expires, in whole seconds; the ones revoked before  *)
(* that are in a map of the process, from which a ticker drops them once   *)
(* they have expired.  ValidateToken looks at the clock first and at the   *)
(* map, under its lock, afterwards.                                        *)
(*                                                                         *)
(* A token is known by its identifier.  One whose signature is wrong never *)
(* gets as far as the clock, and is left out.                              *)
(***************************************************************************)
EXTENDS Naturals

CONSTANTS
    Jtis,        \* the identifiers of the tokens, each drawn once
    Validations, \* the calls of ValidateToken in progress at a time
    TokenTTLs,   \* the times to live that callers ask for
    Second,      \* a second, in ticks of the clock
    TokenTime,   \* bound on the clock
    MaxBoots     \* bound on the restarts of the process

(* The times that the model counts are numbers, and a second is some ticks *)
(* long.                                                                   *)
ASSUME TokensAssumption ==
    Second \in Nat \ {0} /\ TokenTTLs \subseteq Nat /\ TokenTime \in Nat

VARIABLES
    expiresAt,   \* what each token says; 0 before it is generated
    revoked,     \* the map
    validation,  \* each call of ValidateToken
    revokedHere, \* tokens for which RevokeToken has returned (history)
    tokenClock,
    boots

tokenVars == <<expiresAt, revoked, validation, revokedHere, tokenClock, boots>>

NotCalled == [at |-> "idle"]

TokensInit ==
    /\ expiresAt = [j \in Jtis |-> 0]
    /\ revoked = {}
    /\ validation = [v \in Validations |-> NotCalled]
    /\ revokedHere = {}
    /\ tokenClock = 1
    /\ boots = 0

-----------------------------------------------------------------------------
(* Format(time.RFC3339) leaves out the fraction of the second.             *)
RFC3339(t) == (t \div Second) * Second

GenerateToken(j, ttl) ==
    /\ expiresAt[j] = 0
    /\ expiresAt' = [expiresAt EXCEPT ![j] = RFC3339(tokenClock + ttl)]
    /\ UNCHANGED <<revoked, validation, revokedHere, tokenClock, boots>>

TokenExpired(j) == tokenClock > expiresAt[j]

(* Up to the test of the expiry.  "warned" is no part of the call: whether *)
(* the token had been revoked when it began.                               *)
ValidateBegins(v, j) ==
    /\ expiresAt[j] # 0
    /\ validation[v].at # "lookup"
    /\ validation' = [validation EXCEPT ![v] =
         [at |-> IF TokenExpired(j) THEN "ErrTokenExpired" ELSE "lookup", jti |-> j,
          warned |-> j \in revokedHere, ended |-> 0]]
    /\ UNCHANGED <<expiresAt, revoked, revokedHere, tokenClock, boots>>

ValidateEnds(v) ==
    /\ validation[v].at = "lookup"
    /\ validation' = [validation EXCEPT
         ![v].at = IF validation[v].jti \in revoked THEN "ErrTokenRevoked" ELSE "claims",
         ![v].ended = tokenClock]
    /\ UNCHANGED <<expiresAt, revoked, revokedHere, tokenClock, boots>>

(* A logout, with the claims that a validation has returned.               *)
RevokeToken(v) ==
    /\ validation[v].at = "claims"
    /\ revoked' = revoked \cup {validation[v].jti}
    /\ revokedHere' = revokedHere \cup {validation[v].jti}
    /\ UNCHANGED <<expiresAt, validation, tokenClock, boots>>

(* Variant of the next operator: a token goes at the instant it names, at  *)
(* which it can still be validated.                                        *)
DueToGo == {j \in Jtis : tokenClock >= expiresAt[j]}
Overdue == {j \in Jtis : TokenExpired(j)}

Sweep ==
    /\ revoked \cap Overdue # {}
    /\ revoked' = revoked \ Overdue
    /\ UNCHANGED <<expiresAt, validation, revokedHere, tokenClock, boots>>

(* The process starts again with the same secret: tokens live on, the map  *)
(* does not ("revogacoes de JWT vivem no processo", USE.md:1619).          *)
Boot ==
    /\ boots < MaxBoots
    /\ boots' = boots + 1
    /\ revoked' = {} /\ revokedHere' = {}
    /\ validation' = [v \in Validations |-> NotCalled]
    /\ UNCHANGED <<expiresAt, tokenClock>>

TokenTick ==
    /\ tokenClock < TokenTime
    /\ tokenClock' = tokenClock + 1
    /\ UNCHANGED <<expiresAt, revoked, validation, revokedHere, boots>>

TokensNext ==
    \/ Sweep \/ Boot \/ TokenTick
    \/ \E j \in Jtis, ttl \in TokenTTLs : GenerateToken(j, ttl)
    \/ \E v \in Validations : \/ ValidateEnds(v) \/ RevokeToken(v)
                              \/ \E j \in Jtis : ValidateBegins(v, j)

TokensSpec == TokensInit /\ [][TokensNext]_tokenVars

-----------------------------------------------------------------------------
(* "RevokeToken invalida o token imediatamente" (auth.go:82): a validation *)
(* that begins after the revocation fails, whatever gc drops meanwhile.    *)
(* The one exception is a token that expired between the two tests, which  *)
(* gc may drop before the second.                                          *)
RevokedStaysOut ==
    \A v \in Validations :
        validation[v].at = "claims" /\ validation[v].warned =>
            validation[v].ended > expiresAt[validation[v].jti]
=============================================================================
