---------------------------- MODULE VisitorProofs ----------------------------
(***************************************************************************)
(* What holds of what a visitor meets: of revoked tokens and of the codes  *)
(* of images, for any number of tokens, validations, images, answers and   *)
(* sessions; of the requests, for any number of connections, clients,      *)
(* pooled objects and copies, and whatever the limit of RateLimit and its  *)
(* window; of the panel, for any tabs, rows, fields and forms; and of the  *)
(* values of both.                                                         *)
(***************************************************************************)
EXTENDS Tokens, Captcha, Web, SequenceFacts, FiniteSetTheorems, TLAPS

-----------------------------------------------------------------------------
(* A token whose revocation has been called is in the map, or its time is  *)
(* over; so is the one a warned validation still has to look up.           *)
Known(j) == j \in revoked \/ tokenClock > expiresAt[j]

TokenTypes ==
    /\ tokenClock \in Nat
    /\ expiresAt \in [Jtis -> Nat]
    /\ DOMAIN validation = Validations

ValidationInv(v) ==
    LET r == validation[v] IN
    /\ r.at # "idle" => r.jti \in Jtis /\ expiresAt[r.jti] # 0
    /\ r.at = "lookup" => (r.warned => Known(r.jti))
    /\ r.at = "claims" => (r.warned => r.ended > expiresAt[r.jti])

TokenInv ==
    /\ TokenTypes
    /\ revokedHere \subseteq Jtis
    /\ \A j \in revokedHere : expiresAt[j] # 0 /\ Known(j)
    /\ \A v \in Validations : ValidationInv(v)

LEMMA TokenInvInit == TokensInit => TokenInv
  BY DEF TokensInit, TokenInv, TokenTypes, ValidationInv, NotCalled

(* The whole seconds of a natural number are one.                          *)
LEMMA RFC3339Nat == ASSUME NEW t \in Nat PROVE RFC3339(t) \in Nat
  <1>1. Second \in Nat /\ Second > 0
    BY TokensAssumption
  <1>2. t \div Second \in Nat
    BY <1>1
  <1> QED
    BY <1>1, <1>2 DEF RFC3339

LEMMA TokenInvNext == TokenInv /\ [TokensNext]_tokenVars => TokenInv'
  <1> SUFFICES ASSUME TokenInv, [TokensNext]_tokenVars PROVE TokenInv'
    OBVIOUS
  <1>1. ASSUME UNCHANGED tokenVars PROVE TokenInv'
    BY <1>1 DEF tokenVars, TokenInv, TokenTypes, ValidationInv, Known
  <1>2. ASSUME NEW j \in Jtis, NEW ttl \in TokenTTLs, GenerateToken(j, ttl) PROVE TokenInv'
    <2>1. RFC3339(tokenClock + ttl) \in Nat
      BY RFC3339Nat, TokensAssumption DEF TokenInv, TokenTypes
    <2>2. \A k \in Jtis : expiresAt[k] # 0 => expiresAt'[k] = expiresAt[k]
      BY <1>2 DEF GenerateToken, TokenInv, TokenTypes
    <2>3. TokenTypes'
      BY <1>2, <2>1 DEF GenerateToken, TokenInv, TokenTypes
    <2>4. UNCHANGED <<revoked, validation, revokedHere, tokenClock>>
      BY <1>2 DEF GenerateToken
    <2> QED
      BY <2>2, <2>3, <2>4 DEF TokenInv, ValidationInv, Known
  <1>3. ASSUME NEW v \in Validations, NEW j \in Jtis, ValidateBegins(v, j) PROVE TokenInv'
    <2>1. UNCHANGED <<revoked, expiresAt, revokedHere, tokenClock>>
      BY <1>3 DEF ValidateBegins
    <2>2. ASSUME NEW u \in Validations, u # v PROVE validation'[u] = validation[u]
      BY <1>3, <2>2 DEF ValidateBegins, TokenInv, TokenTypes
    <2>3. /\ validation'[v].at \in {"ErrTokenExpired", "lookup"}
          /\ validation'[v].jti = j /\ expiresAt[j] # 0
          /\ validation'[v].warned = (j \in revokedHere)
      BY <1>3 DEF ValidateBegins, TokenInv, TokenTypes
    <2>4. validation'[v].warned => Known(j)
      BY <2>3 DEF TokenInv
    <2>5. ValidationInv(v)'
      BY <2>1, <2>3, <2>4 DEF ValidationInv, Known
    <2>6. DOMAIN validation' = Validations
      BY <1>3 DEF ValidateBegins, TokenInv, TokenTypes
    <2> QED
      BY <2>1, <2>2, <2>5, <2>6 DEF TokenInv, TokenTypes, ValidationInv, Known
  <1>4. ASSUME NEW v \in Validations, ValidateEnds(v) PROVE TokenInv'
    <2>1. UNCHANGED <<revoked, expiresAt, revokedHere, tokenClock>>
      BY <1>4 DEF ValidateEnds
    <2>2. ASSUME NEW u \in Validations, u # v PROVE validation'[u] = validation[u]
      BY <1>4, <2>2 DEF ValidateEnds, TokenInv, TokenTypes
    <2>3. validation' = [validation EXCEPT
             ![v].at = IF validation[v].jti \in revoked THEN "ErrTokenRevoked" ELSE "claims",
             ![v].ended = tokenClock]
      BY <1>4 DEF ValidateEnds
    <2>4. validation'[v] = [validation[v] EXCEPT
             !.at = IF validation[v].jti \in revoked THEN "ErrTokenRevoked" ELSE "claims",
             !.ended = tokenClock]
      BY <2>3 DEF TokenInv, TokenTypes
    <2>5. ValidationInv(v)'
      <3> DEFINE r == validation[v]
      <3>1. r.at = "lookup" /\ r.jti \in Jtis /\ expiresAt[r.jti] # 0
        BY <1>4 DEF ValidateEnds, TokenInv, ValidationInv
      <3>2. r.warned => Known(r.jti)
        BY <3>1 DEF TokenInv, ValidationInv
      <3>3. /\ validation'[v].jti = r.jti /\ validation'[v].warned = r.warned
            /\ validation'[v].ended = tokenClock
            /\ validation'[v].at = IF r.jti \in revoked THEN "ErrTokenRevoked" ELSE "claims"
        BY <2>4
      <3>4. validation'[v].at = "claims" /\ validation'[v].warned
              => tokenClock > expiresAt[r.jti]
        BY <3>2, <3>3 DEF Known
      <3> HIDE DEF r
      <3> QED
        BY <2>1, <3>1, <3>3, <3>4 DEF ValidationInv, Known
    <2>6. DOMAIN validation' = Validations
      BY <2>3 DEF TokenInv, TokenTypes
    <2> QED
      BY <2>1, <2>2, <2>5, <2>6 DEF TokenInv, TokenTypes, ValidationInv, Known
  <1>5. ASSUME NEW v \in Validations, RevokeToken(v) PROVE TokenInv'
    <2> DEFINE j == validation[v].jti
    <2>1. UNCHANGED <<expiresAt, validation, tokenClock>>
      BY <1>5 DEF RevokeToken
    <2>2. revoked' = revoked \cup {j} /\ revokedHere' = revokedHere \cup {j}
      BY <1>5 DEF RevokeToken
    <2>3. j \in Jtis /\ expiresAt[j] # 0
      BY <1>5 DEF RevokeToken, TokenInv, ValidationInv
    <2>4. \A k \in Jtis : Known(k) => Known(k)'
      BY <2>1, <2>2 DEF Known
    <2>5. TokenTypes' /\ revokedHere' \subseteq Jtis
      BY <2>1, <2>2, <2>3 DEF TokenInv, TokenTypes
    <2>6. ASSUME NEW k \in revokedHere' PROVE (expiresAt[k] # 0)' /\ Known(k)'
      <3>1. CASE k = j
        BY <3>1, <2>1, <2>2, <2>3 DEF Known
      <3>2. CASE k \in revokedHere
        BY <3>2, <2>1, <2>4 DEF TokenInv
      <3> QED
        BY <2>2, <2>6, <3>1, <3>2
    <2>7. ASSUME NEW u \in Validations PROVE ValidationInv(u)'
      BY <2>1, <2>4 DEF TokenInv, ValidationInv
    <2> QED
      BY <2>5, <2>6, <2>7 DEF TokenInv
  <1>6. ASSUME Sweep PROVE TokenInv'
    BY <1>6 DEF Sweep, Overdue, TokenExpired, TokenInv, TokenTypes, ValidationInv, Known
  <1>7. ASSUME Boot PROVE TokenInv'
    BY <1>7 DEF Boot, NotCalled, TokenInv, TokenTypes, ValidationInv, Known
  <1>8. ASSUME TokenTick PROVE TokenInv'
    BY <1>8 DEF TokenTick, TokenInv, TokenTypes, ValidationInv, Known
  <1> QED
    BY <1>1, <1>2, <1>3, <1>4, <1>5, <1>6, <1>7, <1>8 DEF TokensNext

(* A validation that begins after a token was revoked returns its claims   *)
(* only if the token has expired between its two tests (auth.go:68-76).    *)
THEOREM RevocationIsFinal == TokensSpec => []RevokedStaysOut
  <1>1. TokenInv => RevokedStaysOut
    BY DEF TokenInv, ValidationInv, RevokedStaysOut
  <1> QED
    BY <1>1, TokenInvInit, TokenInvNext, PTL DEF TokensSpec

-----------------------------------------------------------------------------
(* A code is where its own image has put it, and nowhere once an answer    *)
(* that has read it is through.                                            *)
ImagePast(i) == image[i].at \in {"draw", "shown"}

CaptchaTypes ==
    /\ DOMAIN codeOf = Sids
    /\ DOMAIN image = Images
    /\ DOMAIN submit = Submits
    /\ live \subseteq Sids

CodesPlaced ==
    \A s \in Sids : codeOf[s] # Nobody =>
        codeOf[s] \in Images /\ ImagePast(codeOf[s]) /\ image[codeOf[s]].sid = s

HasRead(w) == submit[w].at \in {"delete", "done"} /\ submit[w].read # Nobody

SubmitInv(w) ==
    /\ submit[w].at \in {"idle", "get", "delete", "done"}
    /\ submit[w].at \in {"get", "delete"} => submit[w].sid \in Sids
    /\ submit[w].at = "get" => submit[w].read = Nobody /\ ~submit[w].passed
    /\ submit[w].at = "delete" => submit[w].read # Nobody
    /\ HasRead(w) => /\ submit[w].read \in Images
                     /\ ImagePast(submit[w].read)
                     /\ image[submit[w].read].sid = submit[w].sid
    /\ submit[w].at = "done" /\ submit[w].passed => submit[w].read # Nobody

Spent(w) ==
    submit[w].at = "done" /\ submit[w].read # Nobody =>
        \A s \in Sids : codeOf[s] # submit[w].read

AnswersApart(v) ==
    submit[v].at # "idle" =>
        \A w \in submit[v].after :
            /\ w \in Submits /\ submit[w].at = "done"
            /\ submit[v].read # Nobody => submit[w].read # submit[v].read

CaptchaInv ==
    /\ CaptchaTypes
    /\ CodesPlaced
    /\ \A w \in Submits : SubmitInv(w) /\ Spent(w) /\ AnswersApart(w)

LEMMA CaptchaInvInit == CaptchaInit => CaptchaInv
  BY DEF CaptchaInit, CaptchaInv, CaptchaTypes, CodesPlaced, SubmitInv, HasRead, Spent, AnswersApart

LEMMA CaptchaInvNext == CaptchaInv /\ [CaptchaNext]_captchaVars => CaptchaInv'
  <1> SUFFICES ASSUME CaptchaInv, [CaptchaNext]_captchaVars PROVE CaptchaInv'
    OBVIOUS
  (* The steps of images that write no code: those past their code stay so *)
  (* and keep their session.                                               *)
  <1>1. ASSUME UNCHANGED <<codeOf, submit>>, DOMAIN image' = Images, live' \subseteq Sids,
               \A i \in Images : ImagePast(i) => ImagePast(i)' /\ image'[i].sid = image[i].sid
        PROVE  CaptchaInv'
    <2>1. CaptchaTypes'
      BY <1>1 DEF CaptchaInv, CaptchaTypes
    <2>2. CodesPlaced'
      BY <1>1 DEF CaptchaInv, CodesPlaced
    <2>3. ASSUME NEW w \in Submits PROVE SubmitInv(w)' /\ Spent(w)' /\ AnswersApart(w)'
      BY <1>1 DEF CaptchaInv, SubmitInv, HasRead, Spent, AnswersApart
    <2> QED
      BY <2>1, <2>2, <2>3 DEF CaptchaInv
  <1>2. ASSUME NEW i \in Images,
               ImageAsked(i) \/ MakeSession(i) \/ NoRoom(i) \/ ImageShown(i)
        PROVE  CaptchaInv'
    <2>1. UNCHANGED <<codeOf, submit>> /\ DOMAIN image' = Images /\ live' \subseteq Sids
      BY <1>2 DEF ImageAsked, MakeSession, NoRoom, ImageShown, CaptchaInv, CaptchaTypes
    <2>2. ASSUME NEW k \in Images, ImagePast(k)
          PROVE  ImagePast(k)' /\ image'[k].sid = image[k].sid
      <3> USE DEF CaptchaInv, CaptchaTypes, ImagePast
      <3>1. CASE ImageAsked(i)
        BY <2>2, <3>1 DEF ImageAsked
      <3>2. CASE MakeSession(i)
        BY <2>2, <3>2 DEF MakeSession
      <3>3. CASE NoRoom(i)
        BY <2>2, <3>3 DEF NoRoom
      <3>4. CASE ImageShown(i)
        BY <2>2, <3>4 DEF ImageShown
      <3> QED
        BY <1>2, <3>1, <3>2, <3>3, <3>4
    <2> QED
      BY <1>1, <2>1, <2>2
  <1>3. ASSUME NEW i \in Images, SetCode(i) PROVE CaptchaInv'
    <2>1. /\ image[i].at = "set" /\ ~ImagePast(i)
          /\ codeOf' = [codeOf EXCEPT ![image[i].sid] = i]
          /\ image' = [image EXCEPT ![i].at = "draw"]
          /\ UNCHANGED <<live, submit>>
      BY <1>3 DEF SetCode, ImagePast
    <2>2. \A k \in Images : (ImagePast(k) => ImagePast(k)') /\ image'[k].sid = image[k].sid
      BY <2>1 DEF ImagePast, CaptchaInv, CaptchaTypes
    <2>3. ImagePast(i)'
      BY <2>1 DEF ImagePast, CaptchaInv, CaptchaTypes
    <2>4. ASSUME NEW s \in Sids
          PROVE  codeOf'[s] = codeOf[s] \/ (codeOf'[s] = i /\ s = image[i].sid)
      BY <2>1 DEF CaptchaInv, CaptchaTypes
    <2>5. CaptchaTypes'
      BY <2>1 DEF CaptchaInv, CaptchaTypes
    <2>6. CodesPlaced'
      BY <2>2, <2>3, <2>4 DEF CaptchaInv, CodesPlaced
    <2>7. ASSUME NEW w \in Submits PROVE SubmitInv(w)' /\ AnswersApart(w)'
      BY <2>1, <2>2 DEF CaptchaInv, SubmitInv, HasRead, AnswersApart
    <2>8. ASSUME NEW w \in Submits PROVE Spent(w)'
      <3>1. HasRead(w) => submit[w].read # i
        BY <2>1 DEF CaptchaInv, SubmitInv
      <3> QED
        BY <2>1, <2>4, <3>1 DEF CaptchaInv, Spent, HasRead
    <2> QED
      BY <2>5, <2>6, <2>7, <2>8 DEF CaptchaInv
  <1>4. ASSUME NEW v \in Submits, SubmitBegins(v) PROVE CaptchaInv'
    <2>1. UNCHANGED <<live, codeOf, image>> /\ submit[v].at = "idle"
      BY <1>4 DEF SubmitBegins
    <2>2. DOMAIN submit' = Submits /\ \A w \in Submits : w # v => submit'[w] = submit[w]
      BY <1>4 DEF SubmitBegins, CaptchaInv, CaptchaTypes
    <2>3. /\ submit'[v].at = IF Session = Nobody THEN "done" ELSE "get"
          /\ submit'[v].sid = Session /\ submit'[v].read = Nobody
          /\ submit'[v].after = Answered
      BY <1>4 DEF SubmitBegins, CaptchaInv, CaptchaTypes
    <2>4. ~submit'[v].passed
      BY <1>4 DEF SubmitBegins, CaptchaInv, CaptchaTypes
    <2>5. Session # Nobody => Session \in Sids
      BY DEF Session, CaptchaInv, CaptchaTypes
    <2>6. SubmitInv(v)' /\ Spent(v)'
      BY <2>3, <2>4, <2>5 DEF SubmitInv, HasRead, Spent
    <2>7. AnswersApart(v)'
      BY <2>1, <2>2, <2>3 DEF AnswersApart, Answered
    <2>8. ASSUME NEW w \in Submits, w # v PROVE SubmitInv(w)' /\ Spent(w)' /\ AnswersApart(w)'
      <3>1. SubmitInv(w)' /\ Spent(w)'
        BY <2>1, <2>2, <2>8 DEF CaptchaInv, SubmitInv, HasRead, ImagePast, Spent
      <3>2. AnswersApart(w)'
        BY <2>1, <2>2, <2>8 DEF CaptchaInv, AnswersApart
      <3> QED
        BY <3>1, <3>2
    <2>9. CaptchaTypes' /\ CodesPlaced'
      BY <2>1, <2>2 DEF CaptchaInv, CaptchaTypes, CodesPlaced, ImagePast
    <2> QED
      BY <2>6, <2>7, <2>8, <2>9 DEF CaptchaInv
  <1>5. ASSUME NEW v \in Submits, GetCode(v) PROVE CaptchaInv'
    <2> DEFINE code == codeOf[submit[v].sid]
    <2>1. UNCHANGED <<live, codeOf, image>> /\ submit[v].at = "get" /\ submit[v].sid \in Sids
      BY <1>5 DEF GetCode, CaptchaInv, SubmitInv
    <2>2. DOMAIN submit' = Submits /\ \A w \in Submits : w # v => submit'[w] = submit[w]
      BY <1>5 DEF GetCode, CaptchaInv, CaptchaTypes
    <2>3. submit'[v] = [submit[v] EXCEPT !.read = code,
                                         !.at = IF code = Nobody THEN "done" ELSE "delete"]
      BY <1>5 DEF GetCode, CaptchaInv, CaptchaTypes
    <2>4. code # Nobody => code \in Images /\ ImagePast(code) /\ image[code].sid = submit[v].sid
      BY <2>1 DEF CaptchaInv, CodesPlaced
    <2>5. submit'[v].passed <=> submit[v].passed
      BY <2>3
    <2>6. SubmitInv(v)' /\ Spent(v)'
      BY <2>1, <2>3, <2>4, <2>5 DEF CaptchaInv, SubmitInv, HasRead, ImagePast, Spent
    <2>7. AnswersApart(v)'
      <3>1. ASSUME NEW w \in submit[v].after, code # Nobody
            PROVE  w \in Submits /\ w # v /\ submit[w].at = "done" /\ submit[w].read # code
        <4>1. w \in Submits /\ w # v /\ submit[w].at = "done"
          BY <2>1 DEF CaptchaInv, AnswersApart
        <4>2. submit[w].read # code
          BY <4>1, <2>1, <3>1 DEF CaptchaInv, Spent
        <4> QED
          BY <4>1, <4>2
      <3>2. \A w \in submit[v].after : w \in Submits /\ w # v /\ submit[w].at = "done"
        BY <2>1 DEF CaptchaInv, AnswersApart
      <3> QED
        BY <2>2, <2>3, <3>1, <3>2 DEF AnswersApart
    <2>8. ASSUME NEW w \in Submits, w # v PROVE SubmitInv(w)' /\ Spent(w)' /\ AnswersApart(w)'
      <3>1. SubmitInv(w)' /\ Spent(w)'
        BY <2>1, <2>2, <2>8 DEF CaptchaInv, SubmitInv, HasRead, ImagePast, Spent
      <3>2. AnswersApart(w)'
        BY <2>1, <2>2, <2>8 DEF CaptchaInv, AnswersApart
      <3> QED
        BY <3>1, <3>2
    <2>9. CaptchaTypes' /\ CodesPlaced'
      BY <2>1, <2>2 DEF CaptchaInv, CaptchaTypes, CodesPlaced, ImagePast
    <2> QED
      BY <2>6, <2>7, <2>8, <2>9 DEF CaptchaInv
  <1>6. ASSUME NEW v \in Submits, DeleteCode(v) PROVE CaptchaInv'
    <2> DEFINE code == submit[v].read
    <2>1. /\ UNCHANGED <<live, image>>
          /\ submit[v].at = "delete" /\ submit[v].sid \in Sids /\ code # Nobody
          /\ code \in Images /\ image[code].sid = submit[v].sid
      BY <1>6 DEF DeleteCode, CaptchaInv, SubmitInv, HasRead
    <2>2. DOMAIN submit' = Submits /\ \A w \in Submits : w # v => submit'[w] = submit[w]
      BY <1>6 DEF DeleteCode, CaptchaInv, CaptchaTypes
    <2>3. /\ submit'[v].at = "done" /\ submit'[v].read = code
          /\ submit'[v].sid = submit[v].sid /\ submit'[v].after = submit[v].after
      BY <1>6 DEF DeleteCode, CaptchaInv, CaptchaTypes
    <2>4. /\ DOMAIN codeOf' = Sids /\ codeOf'[submit[v].sid] = Nobody
          /\ \A s \in Sids : s # submit[v].sid => codeOf'[s] = codeOf[s]
      BY <1>6, <2>1 DEF DeleteCode, UsedUp, CaptchaInv, CaptchaTypes
    <2>5. SubmitInv(v)'
      BY <2>1, <2>3 DEF CaptchaInv, SubmitInv, HasRead, ImagePast
    <2>6. Spent(v)'
      <3>1. ASSUME NEW s \in Sids, codeOf'[s] = code PROVE FALSE
        <4>1. s # submit[v].sid
          BY <2>1, <2>4, <3>1
        <4>2. codeOf[s] = code
          BY <2>4, <3>1, <4>1
        <4> QED
          BY <2>1, <4>1, <4>2 DEF CaptchaInv, CodesPlaced
      <3> QED
        BY <2>3, <3>1 DEF Spent
    <2>7. ASSUME NEW w \in Submits PROVE AnswersApart(w)'
      <3>1. submit'[w].read = submit[w].read /\ submit'[w].after = submit[w].after
        BY <2>2, <2>3
      <3>2. submit[w].at # "idle"
              => \A u \in submit[w].after : u \in Submits /\ u # v /\ submit'[u] = submit[u]
        BY <2>1, <2>2 DEF CaptchaInv, AnswersApart
      <3>3. submit'[w].at # "idle" => submit[w].at # "idle"
        BY <2>1, <2>2
      <3> QED
        BY <3>1, <3>2, <3>3 DEF CaptchaInv, AnswersApart
    <2>8. ASSUME NEW w \in Submits, w # v PROVE SubmitInv(w)' /\ Spent(w)'
      <3>1. SubmitInv(w)'
        BY <2>1, <2>2, <2>8 DEF CaptchaInv, SubmitInv, HasRead, ImagePast
      <3>2. Spent(w)'
        BY <2>2, <2>4, <2>8 DEF CaptchaInv, Spent
      <3> QED
        BY <3>1, <3>2
    <2>9. CaptchaTypes' /\ CodesPlaced'
      BY <2>1, <2>2, <2>4 DEF CaptchaInv, CaptchaTypes, CodesPlaced, ImagePast
    <2> QED
      BY <2>5, <2>6, <2>7, <2>8, <2>9 DEF CaptchaInv
  <1>7. ASSUME NEW s \in Sids, SessionEnds(s) PROVE CaptchaInv'
    BY <1>1, <1>7 DEF SessionEnds, CaptchaInv, CaptchaTypes, ImagePast
  <1>8. ASSUME UNCHANGED captchaVars PROVE CaptchaInv'
    BY <1>1, <1>8 DEF captchaVars, CaptchaInv, CaptchaTypes, ImagePast
  <1> QED
    BY <1>2, <1>3, <1>4, <1>5, <1>6, <1>7, <1>8 DEF CaptchaNext

(* An answer passes only with a code that no answer which had ended before *)
(* it came has met (store.go:62-71).                                       *)
THEOREM CodesUsedOnce == CaptchaSpec => []CodesAreUsedUp
  <1>1. CaptchaInv => CodesAreUsedUp
    BY DEF CaptchaInv, SubmitInv, AnswersApart, CodesAreUsedUp
  <1> QED
    BY <1>1, CaptchaInvInit, CaptchaInvNext, PTL DEF CaptchaSpec

-----------------------------------------------------------------------------
(* The requests.  Contexts, maps and gzip writers are owned: what a        *)
(* request has out of a pool nobody else has, and what it finds in it is   *)
(* what it put there.                                                      *)

Open(c) == conn[c] # Free

Outputs == [code : {"none", "served", "refused", "failed"},
            body : {"none", "open", "whole", "part", "mixed"}, token : Nat, from : Nat]

Served == [at : Places, n : Nat, client : Clients, method : {"GET", "POST"}, sent : Nat,
           raw : Nat, submitted : Nat, ctx : Contexts, gz : GzWriters \cup {Nothing},
           active : BOOLEAN, panicked : BOOLEAN, out : Outputs]

RequestTypes ==
    /\ conn \in [Conns -> {Free} \cup Served]
    /\ ctxPool \subseteq Contexts /\ dataPool \subseteq DataMaps /\ gzPool \subseteq GzWriters
    /\ ctxData \in [Contexts -> DataMaps \cup {Nothing}]
    /\ content \in [DataMaps -> [of : Nat, raw : Nat]]
    /\ gzTo \in [GzWriters -> Conns \cup {Nothing}]
    /\ current \in [Conns -> Contexts \cup {Nothing}]
    /\ served \in Nat
    /\ jar \in [Clients -> Nat]
    /\ pages \subseteq [client : Clients, token : Nat]

(* Each context that is out has a map that is out, and a map of its own.   *)
PoolInv ==
    /\ \A x \in Contexts : x \in ctxPool <=> ctxData[x] = Nothing
    /\ \A x \in Contexts \ ctxPool : ctxData[x] \notin dataPool
    /\ \A x, y \in Contexts \ ctxPool : ctxData[x] = ctxData[y] => x = y

(* A request's context is out, its map holds the request's own values, and *)
(* its goroutine has it as the current one while it renders.               *)
OwnInv(c) ==
    /\ Open(c) => /\ conn[c].ctx \notin ctxPool
                  /\ content[ctxData[conn[c].ctx]] = [of |-> conn[c].n, raw |-> conn[c].raw]
    /\ current[c] = IF IsAt(c, "rendering") THEN conn[c].ctx ELSE Nothing

Apart ==
    \A c, d \in Conns : c # d /\ Open(c) /\ Open(d) => conn[c].ctx # conn[d].ctx

(* What has been written so far, and whether its end is missing.           *)
OutInv(c) ==
    LET r == conn[c] IN
    Open(c) =>
        /\ r.at \in {"entered", "handler", "rendering"} =>
             r.out = BlankPage /\ ~r.active /\ ~r.panicked
        /\ r.at = "entered" => r.gz = Nothing
        /\ r.at = "unzipped" => r.gz # Nothing
        /\ r.active => r.gz # Nothing
        /\ r.out.token \in {0, r.raw}
        /\ r.out.body # "mixed"
        /\ r.panicked \/ r.at \in {"returned", "unzipped"} =>
             r.out.from = r.n \/ (r.panicked /\ r.out = BlankPage /\ ~r.active)
        /\ r.at = "returned" /\ ~r.panicked =>
             r.out.body = IF r.active THEN "open" ELSE "whole"

OwnersInv ==
    /\ RequestTypes /\ PoolInv /\ Apart
    /\ \A c \in Conns : OwnInv(c) /\ OutInv(c)
    /\ \A j \in copies : j.copy = [value |-> j.of, shared |-> Nothing]

(* The cookie a client has, those it still sends and those in its forms    *)
(* were each given to it by an answer to a request without a cookie.       *)
GivenTo(given, b, raw) == \E a \in given : a.of = b /\ a.sent = 0 /\ a.raw = raw

TokensInv ==
    /\ \A b \in Clients : jar[b] # 0 => GivenTo(answers, b, jar[b])
    /\ \A c \in Conns : Open(c) =>
         /\ conn[c].raw # 0
         /\ conn[c].sent # 0 => /\ conn[c].raw = conn[c].sent
                                /\ jar[conn[c].client] # 0
                                /\ GivenTo(answers, conn[c].client, conn[c].sent)
    /\ \A p \in pages : jar[p.client] # 0 /\ GivenTo(answers, p.client, p.token)
    /\ \A a \in answers : a.token \in {0, a.raw}

(* While nothing behind Compress has panicked, a gzip writer that is out   *)
(* points at the connection it was taken for.                              *)
Calm ==
    /\ \A a \in answers : a.panic # "zipped"
    /\ \A c \in Conns : Open(c) => PanicOf(conn[c]) # "zipped"

Zips(c) == Open(c) /\ conn[c].gz # Nothing /\ conn[c].at # "unzipped"

GzInv ==
    /\ \A c \in Conns : Zips(c) => conn[c].gz \notin gzPool
    /\ \A c, d \in Conns : c # d /\ Zips(c) /\ Zips(d) => conn[c].gz # conn[d].gz

EndsInv ==
    Calm =>
        /\ \A c \in Conns :
             /\ Zips(c) /\ conn[c].active => gzTo[conn[c].gz] = c
             /\ Open(c) /\ conn[c].at = "unzipped" => conn[c].out.body = "whole"
        /\ \A a \in answers : /\ a.own
                              /\ a.body = "whole" \/ a.panic = "late"
                              /\ a.panic = "early" => a.code = "failed"

LEMMA PanicIs ==
    ASSUME NEW r \in Served
    PROVE  /\ PanicOf(r) = "zipped" <=> r.panicked /\ r.gz # Nothing
           /\ PanicOf(r) = "early" <=> r.panicked /\ r.gz = Nothing /\ r.out = BlankPage
           /\ PanicOf(r) = "late" <=> r.panicked /\ r.gz = Nothing /\ r.out # BlankPage
  BY DEF PanicOf, Served

LEMMA RequestsInitially == RequestsInit => OwnersInv /\ TokensInv /\ GzInv /\ EndsInv
  <1> SUFFICES ASSUME RequestsInit PROVE OwnersInv /\ TokensInv /\ GzInv /\ EndsInv
    OBVIOUS
  <1>1. \A c \in Conns : conn[c] = Free /\ ~Open(c)
    BY DEF RequestsInit, Open
  <1>2. RequestTypes
    BY DEF RequestsInit, RequestTypes, NoValues
  <1>3. PoolInv /\ Apart
    BY <1>1, RequestsAssumption DEF RequestsInit, PoolInv, Apart
  <1>4. \A c \in Conns : OwnInv(c) /\ OutInv(c)
    BY <1>1 DEF RequestsInit, OwnInv, OutInv, IsAt, Free
  <1>5. OwnersInv
    BY <1>2, <1>3, <1>4 DEF OwnersInv, RequestsInit
  <1>6. TokensInv
    BY <1>1 DEF RequestsInit, TokensInv
  <1>7. GzInv /\ EndsInv
    BY <1>1 DEF RequestsInit, GzInv, EndsInv, Zips
  <1> QED
    BY <1>5, <1>6, <1>7

-----------------------------------------------------------------------------
(* What the steps have in common.  A request that goes on stays the same   *)
(* request, with the same context.                                         *)
Stays(c) ==
    /\ Open(c) /\ Open(c)'
    /\ conn' \in [Conns -> {Free} \cup Served]
    /\ \A d \in Conns \ {c} : conn'[d] = conn[d]
    /\ conn'[c].n = conn[c].n /\ conn'[c].client = conn[c].client
    /\ conn'[c].sent = conn[c].sent /\ conn'[c].raw = conn[c].raw
    /\ conn'[c].ctx = conn[c].ctx
    /\ UNCHANGED <<ctxPool, dataPool, ctxData, content, copies, served, browser, answers>>

LEMMA OpenTyped ==
    ASSUME RequestTypes, NEW c \in Conns
    PROVE  /\ Open(c) => conn[c] \in Served
           /\ Open(c) <=> conn[c].at # "free"
  BY DEF RequestTypes, Open, Free, Served, Places

(* A request goes on with a new record, which differs in what it has       *)
(* written, in its gzip writer and in its place only.                      *)
LEMMA GoesOn ==
    ASSUME RequestTypes, NEW c \in Conns, Open(c), NEW q \in Served,
           conn' = [conn EXCEPT ![c] = q],
           q.n = conn[c].n, q.client = conn[c].client, q.sent = conn[c].sent,
           q.raw = conn[c].raw, q.ctx = conn[c].ctx,
           UNCHANGED <<ctxPool, dataPool, ctxData, content, copies, served, browser, answers>>
    PROVE  Stays(c) /\ conn'[c] = q
  <1>1. conn'[c] = q /\ \A d \in Conns \ {c} : conn'[d] = conn[d]
    BY DEF RequestTypes
  <1>2. conn' \in [Conns -> {Free} \cup Served]
    BY DEF RequestTypes
  <1>3. q # Free
    BY DEF Served, Places, Free
  <1> QED
    BY <1>1, <1>2, <1>3 DEF Stays, Open

(* Write: the first body that is compressed takes the gzip writer.         *)
Wrote(c, place, written) ==
    /\ conn'[c].at = place
    /\ conn'[c].gz = conn[c].gz /\ conn'[c].panicked = conn[c].panicked
    /\ conn'[c].out.token = written.token /\ conn'[c].out.from = written.from
    /\ \/ /\ conn'[c].active = conn[c].active
          /\ conn'[c].out = written
          /\ UNCHANGED gzTo
       \/ /\ conn[c].gz # Nothing
          /\ conn'[c].active = TRUE
          /\ conn'[c].out.body = "open"
          /\ gzTo' = [gzTo EXCEPT ![conn[c].gz] = c]

LEMMA WriteStays ==
    ASSUME RequestTypes, NEW c \in Conns, Open(c), NEW place \in Places,
           NEW written \in Outputs, NEW zip \in BOOLEAN, Write(c, place, written, zip),
           UNCHANGED <<ctxPool, dataPool, ctxData, content, copies, served, browser, answers>>
    PROVE  Stays(c) /\ Wrote(c, place, written)
  <1>1. conn[c] \in Served
    BY OpenTyped
  <1>2. CASE conn[c].gz = Nothing \/ ~zip
    <2> DEFINE q == [conn[c] EXCEPT !.at = place, !.out = written]
    <2>1. conn' = [conn EXCEPT ![c] = q] /\ UNCHANGED gzTo
      BY <1>2 DEF Write
    <2>2. /\ q \in Served
          /\ q.at = place /\ q.out = written /\ q.gz = conn[c].gz /\ q.active = conn[c].active
          /\ q.panicked = conn[c].panicked /\ q.n = conn[c].n /\ q.client = conn[c].client
          /\ q.sent = conn[c].sent /\ q.raw = conn[c].raw /\ q.ctx = conn[c].ctx
      BY <1>1 DEF Served
    <2> HIDE DEF q
    <2>3. Stays(c) /\ conn'[c] = q
      BY <2>1, <2>2, GoesOn
    <2> QED
      BY <1>2, <2>1, <2>2, <2>3 DEF Wrote
  <1>3. CASE conn[c].gz # Nothing /\ zip
    <2> DEFINE o == [written EXCEPT !.body = "open"]
               q == [conn[c] EXCEPT !.at = place, !.active = TRUE, !.out = o]
    <2>1. conn' = [conn EXCEPT ![c] = q] /\ gzTo' = [gzTo EXCEPT ![conn[c].gz] = c]
      BY <1>3 DEF Write
    <2>2. /\ o \in Outputs
          /\ o.body = "open" /\ o.token = written.token
          /\ o.from = written.from /\ o.code = written.code
      BY DEF Outputs
    <2> HIDE DEF o
    <2>3. /\ q \in Served
          /\ q.at = place /\ q.out = o /\ q.gz = conn[c].gz /\ q.active = TRUE
          /\ q.panicked = conn[c].panicked /\ q.n = conn[c].n /\ q.client = conn[c].client
          /\ q.sent = conn[c].sent /\ q.raw = conn[c].raw /\ q.ctx = conn[c].ctx
      BY <1>1, <2>2 DEF Served
    <2> HIDE DEF q
    <2>4. Stays(c) /\ conn'[c] = q
      BY <2>1, <2>3, GoesOn
    <2> QED
      BY <1>3, <2>1, <2>2, <2>3, <2>4 DEF Wrote
  <1> QED
    BY <1>2, <1>3

(* The owners after a request has gone on.                                 *)
LEMMA StaysOwned ==
    ASSUME OwnersInv, NEW c \in Conns, Stays(c), OutInv(c)',
           gzPool' \subseteq GzWriters, gzTo' \in [GzWriters -> Conns \cup {Nothing}],
           current' = [current EXCEPT ![c] = IF IsAt(c, "rendering")' THEN conn[c].ctx
                                             ELSE Nothing]
    PROVE  OwnersInv'
  <1>1. conn[c] \in Served /\ conn'[c] \in Served
    <2>1. conn'[c] # Free
      BY DEF Stays, Open
    <2> QED
      BY <2>1, OpenTyped DEF OwnersInv, Stays
  <1>2. RequestTypes'
    <2>1. current' \in [Conns -> Contexts \cup {Nothing}]
      BY <1>1 DEF OwnersInv, RequestTypes, Served
    <2> QED
      BY <2>1 DEF OwnersInv, RequestTypes, Stays, browser
  <1>3. PoolInv'
    BY DEF OwnersInv, PoolInv, Stays
  <1>4. Apart'
    BY DEF OwnersInv, Apart, Stays, Open
  <1>5. ASSUME NEW d \in Conns PROVE OwnInv(d)' /\ OutInv(d)'
    <2>1. CASE d = c
      BY <2>1 DEF OwnersInv, OwnInv, Stays, Open, IsAt, RequestTypes
    <2>2. CASE d # c
      BY <2>2 DEF OwnersInv, OwnInv, OutInv, Stays, Open, IsAt, RequestTypes
    <2> QED
      BY <2>1, <2>2
  <1> QED
    BY <1>2, <1>3, <1>4, <1>5 DEF OwnersInv, Stays

LEMMA StaysTokens ==
    ASSUME TokensInv, NEW c \in Conns, Stays(c)
    PROVE  TokensInv'
  <1>1. UNCHANGED <<jar, pages, answers>>
    BY DEF Stays, browser
  <1>2. \A b, raw : GivenTo(answers', b, raw) <=> GivenTo(answers, b, raw)
    BY <1>1 DEF GivenTo
  <1> QED
    BY <1>1, <1>2 DEF TokensInv, Stays, Open

(* The steps of no request: a refusal before it has a context, the clock.  *)
LEMMA StillOwned ==
    ASSUME OwnersInv, TokensInv, GzInv, EndsInv, served' \in Nat,
           UNCHANGED <<conn, pools, current, browser, answers>>,
           \A j \in copies' : j.copy = [value |-> j.of, shared |-> Nothing]
    PROVE  OwnersInv' /\ TokensInv' /\ GzInv' /\ EndsInv'
  <1>1. UNCHANGED <<conn, ctxPool, dataPool, gzPool, ctxData, content, gzTo, current, jar,
                    pages, answers>>
    BY DEF pools, browser
  <1>2. RequestTypes' /\ PoolInv' /\ Apart'
    BY <1>1 DEF OwnersInv, RequestTypes, PoolInv, Apart, Open
  <1>3. \A c \in Conns : OwnInv(c)' /\ OutInv(c)'
    BY <1>1 DEF OwnersInv, OwnInv, OutInv, Open, IsAt
  <1>4. TokensInv'
    BY <1>1 DEF TokensInv, GivenTo, Open
  <1>5. GzInv' /\ EndsInv'
    BY <1>1 DEF GzInv, EndsInv, Zips, Open, Calm
  <1> QED
    BY <1>2, <1>3, <1>4, <1>5 DEF OwnersInv

(* A request ends: its map, emptied, and its context go back.              *)
LEMMA LeaveOwned ==
    ASSUME OwnersInv, NEW c \in Conns, Open(c), ~IsAt(c, "rendering"), NEW out \in Outputs,
           Leave(c, out), gzPool' \subseteq GzWriters,
           gzTo' \in [GzWriters -> Conns \cup {Nothing}], UNCHANGED <<current, copies, served>>
    PROVE  OwnersInv' /\ ~Open(c)' /\ \A d \in Conns \ {c} : conn'[d] = conn[d]
  <1> DEFINE x == conn[c].ctx
             m == ctxData[x]
  <1>1. conn[c] \in Served /\ x \in Contexts \ ctxPool
    BY OpenTyped DEF OwnersInv, OwnInv, Served
  <1>2. m \in DataMaps \ dataPool
    BY <1>1 DEF OwnersInv, PoolInv, RequestTypes
  <1>3. /\ content' = [content EXCEPT ![m] = NoValues]
        /\ dataPool' = dataPool \cup {m}
        /\ ctxData' = [ctxData EXCEPT ![x] = Nothing]
        /\ ctxPool' = ctxPool \cup {x}
        /\ conn' = [conn EXCEPT ![c] = Free]
        /\ jar' = IF conn[c].raw # conn[c].sent
                  THEN [jar EXCEPT ![conn[c].client] = conn[c].raw] ELSE jar
        /\ pages' = IF out.token = 0 THEN pages
                    ELSE pages \cup {[client |-> conn[c].client, token |-> out.token]}
    BY DEF Leave, Deliver, Emptied
  <1>4. conn[c].client \in Clients /\ conn[c].raw \in Nat
    BY <1>1 DEF Served
  <1> HIDE DEF x, m
  <1>5. /\ ~Open(c)'
        /\ \A d \in Conns \ {c} : conn'[d] = conn[d] /\ (Open(d)' <=> Open(d))
    BY <1>3 DEF OwnersInv, RequestTypes, Open
  <1>6. RequestTypes'
    <2>1. content' \in [DataMaps -> [of : Nat, raw : Nat]]
      BY <1>2, <1>3 DEF OwnersInv, RequestTypes, NoValues
    <2>2. ctxData' \in [Contexts -> DataMaps \cup {Nothing}]
      BY <1>1, <1>3 DEF OwnersInv, RequestTypes
    <2>3. conn' \in [Conns -> {Free} \cup Served]
      BY <1>3 DEF OwnersInv, RequestTypes
    <2>4. jar' \in [Clients -> Nat]
      BY <1>3, <1>4 DEF OwnersInv, RequestTypes
    <2>5. pages' \subseteq [client : Clients, token : Nat]
      BY <1>3, <1>4 DEF OwnersInv, RequestTypes, Outputs
    <2> QED
      BY <1>1, <1>2, <1>3, <2>1, <2>2, <2>3, <2>4, <2>5 DEF OwnersInv, RequestTypes
  <1>7. PoolInv'
    <2>1. x \in ctxPool' /\ ctxData'[x] = Nothing
      BY <1>1, <1>3 DEF OwnersInv, RequestTypes
    <2>2. \A y \in Contexts \ {x} : ctxData'[y] = ctxData[y] /\ (y \in ctxPool' <=> y \in ctxPool)
      BY <1>3 DEF OwnersInv, RequestTypes
    <2>3. \A y \in Contexts \ ctxPool' : y \in Contexts \ ctxPool /\ y # x /\ ctxData[y] # m
      BY <1>1, <2>1, <2>2 DEF OwnersInv, PoolInv, m
    <2> QED
      BY <1>3, <2>1, <2>2, <2>3 DEF OwnersInv, PoolInv
  <1>8. Apart'
    BY <1>5 DEF OwnersInv, Apart
  <1>9. ASSUME NEW d \in Conns PROVE OwnInv(d)' /\ OutInv(d)'
    <2>1. CASE d = c
      BY <1>3, <1>5, <2>1 DEF OwnersInv, OwnInv, OutInv, IsAt, Free, RequestTypes
    <2>2. CASE d # c
      <3>1. OutInv(d)'
        BY <1>5, <2>2 DEF OwnersInv, OutInv
      <3>2. ASSUME Open(d)
            PROVE  conn[d].ctx \notin ctxPool' /\ content'[ctxData'[conn[d].ctx]]
                                                    = content[ctxData[conn[d].ctx]]
        <4>1. conn[d].ctx \in Contexts \ ctxPool /\ conn[d].ctx # x
          <5>1. conn[d] \in Served
            BY <3>2, OpenTyped DEF OwnersInv
          <5> QED
            BY <2>2, <3>2, <5>1 DEF OwnersInv, OwnInv, Apart, Served, x
        <4>2. ctxData[conn[d].ctx] # m /\ ctxData[conn[d].ctx] \in DataMaps
          BY <1>1, <4>1 DEF OwnersInv, PoolInv, RequestTypes, m
        <4>3. ctxData'[conn[d].ctx] = ctxData[conn[d].ctx]
          BY <1>3, <4>1 DEF OwnersInv, RequestTypes
        <4> QED
          BY <1>3, <4>1, <4>2, <4>3 DEF OwnersInv, RequestTypes
      <3> QED
        BY <1>5, <2>2, <3>1, <3>2 DEF OwnersInv, OwnInv, IsAt
    <2> QED
      BY <2>1, <2>2
  <1> QED
    BY <1>5, <1>6, <1>7, <1>8, <1>9 DEF OwnersInv

LEMMA LeaveTokens ==
    ASSUME OwnersInv, TokensInv, NEW c \in Conns, Open(c), NEW out \in Outputs,
           out.token \in {0, conn[c].raw}, Leave(c, out)
    PROVE  TokensInv'
  <1> DEFINE r == conn[c]
             a == [of |-> r.client, sent |-> r.sent, raw |-> r.raw,
                   own |-> out.from = r.n, panic |-> PanicOf(r),
                   code |-> out.code, body |-> out.body, token |-> out.token]
  <1>1. /\ conn' = [conn EXCEPT ![c] = Free]
        /\ answers' = answers \cup {a}
        /\ jar' = IF r.raw # r.sent THEN [jar EXCEPT ![r.client] = r.raw] ELSE jar
        /\ pages' = IF out.token = 0 THEN pages
                    ELSE pages \cup {[client |-> r.client, token |-> out.token]}
    BY DEF Leave, Deliver
  <1>2. a.of = r.client /\ a.sent = r.sent /\ a.raw = r.raw /\ a.token = out.token
    OBVIOUS
  <1>3. r \in Served /\ r.client \in Clients /\ r.raw \in Nat /\ r.raw # 0
    BY OpenTyped DEF OwnersInv, Served, TokensInv
  <1>4. r.sent # 0 => r.raw = r.sent /\ jar[r.client] # 0 /\ GivenTo(answers, r.client, r.sent)
    BY DEF TokensInv
  <1> HIDE DEF a, r
  <1>5. \A b, raw : GivenTo(answers, b, raw) => GivenTo(answers', b, raw)
    BY <1>1 DEF GivenTo
  <1>6. GivenTo(answers', r.client, r.raw)
    <2>1. CASE r.sent = 0
      BY <1>1, <1>2, <2>1 DEF GivenTo
    <2>2. CASE r.sent # 0
      BY <1>4, <1>5, <2>2
    <2> QED
      BY <2>1, <2>2
  <1>7. \A b \in Clients : jar'[b] = jar[b] \/ (b = r.client /\ jar'[b] = r.raw)
    BY <1>1, <1>3 DEF OwnersInv, RequestTypes
  <1>8. jar'[r.client] # 0
    <2>1. CASE r.raw # r.sent
      BY <1>1, <1>3, <2>1 DEF OwnersInv, RequestTypes
    <2>2. CASE r.raw = r.sent
      BY <1>1, <1>3, <1>4, <2>2
    <2> QED
      BY <2>1, <2>2
  <1>9. ASSUME NEW b \in Clients, jar'[b] # 0 PROVE GivenTo(answers', b, jar'[b])
    BY <1>5, <1>6, <1>7, <1>9 DEF TokensInv
  <1>10. ASSUME NEW d \in Conns, conn'[d] # Free
         PROVE  /\ conn'[d].raw # 0
                /\ conn'[d].sent # 0 => /\ conn'[d].raw = conn'[d].sent
                                        /\ jar'[conn'[d].client] # 0
                                        /\ GivenTo(answers', conn'[d].client, conn'[d].sent)
    <2>1. d # c /\ conn'[d] = conn[d]
      BY <1>1, <1>10 DEF OwnersInv, RequestTypes
    <2>2. conn[d].client \in Clients
      BY <1>10, <2>1, OpenTyped DEF OwnersInv, Open, Served
    <2>3. jar[conn[d].client] # 0 => jar'[conn[d].client] # 0
      BY <1>3, <1>7, <2>2
    <2> QED
      BY <1>5, <1>10, <2>1, <2>3 DEF TokensInv, Open
  <1>11. ASSUME NEW p \in pages' PROVE jar'[p.client] # 0 /\ GivenTo(answers', p.client, p.token)
    <2>1. CASE p \in pages
      <3>1. p.client \in Clients
        BY <2>1 DEF OwnersInv, RequestTypes
      <3> QED
        BY <1>3, <1>5, <1>7, <2>1, <3>1 DEF TokensInv
    <2>2. CASE p \notin pages
      <3>1. p = [client |-> r.client, token |-> out.token] /\ out.token # 0
        BY <1>1, <1>11, <2>2
      <3>2. p.client = r.client /\ p.token = r.raw
        BY <3>1 DEF r
      <3> QED
        BY <1>6, <1>8, <3>2
    <2> QED
      BY <2>1, <2>2
  <1>12. \A b \in answers' : b.token \in {0, b.raw}
    BY <1>1, <1>2 DEF TokensInv, r
  <1> QED
    BY <1>9, <1>10, <1>11, <1>12 DEF TokensInv, Open

(* The answer is whole and the request's own.                              *)
LEMMA LeaveEnds ==
    ASSUME OwnersInv, GzInv, EndsInv, NEW c \in Conns, Open(c), NEW out \in Outputs,
           Leave(c, out), ~Open(c)', \A d \in Conns \ {c} : conn'[d] = conn[d],
           UNCHANGED gzPool,
           UNCHANGED gzTo \/ PanicOf(conn[c]) = "zipped",
           \/ PanicOf(conn[c]) = "zipped"
           \/ /\ Calm => out.body = "whole" \/ PanicOf(conn[c]) = "late"
              /\ out.from = conn[c].n
              /\ PanicOf(conn[c]) = "early" => out.code = "failed"
    PROVE  GzInv' /\ EndsInv'
  <1> DEFINE r == conn[c]
             a == [of |-> r.client, sent |-> r.sent, raw |-> r.raw,
                   own |-> out.from = r.n, panic |-> PanicOf(r),
                   code |-> out.code, body |-> out.body, token |-> out.token]
  <1>1. answers' = answers \cup {a}
    BY DEF Leave, Deliver
  <1>2. /\ a.panic = PanicOf(r) /\ a.own = (out.from = r.n)
        /\ a.body = out.body /\ a.code = out.code
    OBVIOUS
  <1> HIDE DEF a
  <1>4. \A d \in Conns : (Open(d)' => d # c) /\ (Zips(d)' <=> d # c /\ Zips(d))
    BY DEF Open, Zips
  <1>5. GzInv'
    BY <1>4 DEF GzInv
  <1>6. ASSUME Calm'
        PROVE  Calm /\ PanicOf(r) # "zipped" /\ UNCHANGED gzTo
    <2>1. a \in answers'
      BY <1>1
    <2>2. PanicOf(r) # "zipped"
      BY <1>2, <1>6, <2>1 DEF Calm
    <2>3. \A d \in Conns : Open(d) => PanicOf(conn[d]) # "zipped"
      BY <1>6, <2>2 DEF Calm, Open
    <2> QED
      BY <1>1, <1>6, <2>2, <2>3 DEF Calm
  <1>7. ASSUME Calm'
        PROVE  /\ \A d \in Conns :
                    /\ (Zips(d) /\ conn[d].active)' => gzTo'[conn'[d].gz] = d
                    /\ (Open(d) /\ conn[d].at = "unzipped")' => conn'[d].out.body = "whole"
               /\ \A e \in answers' : /\ e.own
                                      /\ e.body = "whole" \/ e.panic = "late"
                                      /\ e.panic = "early" => e.code = "failed"
    <2>1. Calm /\ UNCHANGED gzTo /\ PanicOf(r) # "zipped"
      BY <1>6, <1>7
    <2>2. \A d \in Conns :
             /\ (Zips(d) /\ conn[d].active)' => gzTo'[conn'[d].gz] = d
             /\ (Open(d) /\ conn[d].at = "unzipped")' => conn'[d].out.body = "whole"
      BY <1>4, <2>1 DEF EndsInv, Open, Zips
    <2>3. /\ a.own /\ (a.body = "whole" \/ a.panic = "late")
          /\ a.panic = "early" => a.code = "failed"
      BY <1>2, <2>1
    <2> QED
      BY <1>1, <2>1, <2>2, <2>3 DEF EndsInv
  <1> QED
    BY <1>5, <1>7 DEF EndsInv

(* A request goes on: no other has its gzip writer, and none is taken from *)
(* another while all is calm.                                              *)
LEMMA StaysEnds ==
    ASSUME OwnersInv, GzInv, EndsInv, NEW c \in Conns, Stays(c),
           PanicOf(conn[c]) = "zipped" => PanicOf(conn'[c]) = "zipped",
           UNCHANGED gzTo \/ (/\ Zips(c)
                              /\ gzTo' = [gzTo EXCEPT ![conn[c].gz] = c]),
           Zips(c)' /\ conn'[c].active => \/ gzTo' = [gzTo EXCEPT ![conn[c].gz] = c]
                                          \/ Zips(c) /\ conn[c].active,
           Zips(c)' /\ conn'[c].active => Zips(c) /\ conn'[c].gz = conn[c].gz,
           Calm /\ conn'[c].at = "unzipped" => conn'[c].out.body = "whole",
           GzInv'
    PROVE  EndsInv'
  <1>1. Calm' => Calm
    <2>1. ASSUME Calm', NEW d \in Conns, Open(d) PROVE PanicOf(conn[d]) # "zipped"
      <3>1. CASE d = c
        BY <2>1, <3>1 DEF Calm, Stays
      <3>2. CASE d # c
        BY <2>1, <3>2 DEF Calm, Stays, Open
      <3> QED
        BY <3>1, <3>2
    <2> QED
      BY <2>1 DEF Calm, Stays
  <1>2. \A d \in Conns : Open(d) => conn[d] \in Served
    BY OpenTyped DEF OwnersInv
  <1>3. ASSUME Calm, NEW d \in Conns, Zips(d)', conn'[d].active
        PROVE  gzTo'[conn'[d].gz] = d
    <2>1. CASE d = c
      BY <1>2, <1>3, <2>1 DEF EndsInv, Zips, Served, OwnersInv, RequestTypes
    <2>2. CASE d # c
      <3>1. Zips(d) /\ conn[d].active /\ conn'[d].gz = conn[d].gz
        BY <1>3, <2>2 DEF Stays, Zips, Open
      <3>2. gzTo[conn[d].gz] = d
        BY <1>3, <3>1 DEF EndsInv
      <3>3. Zips(c) => conn[c].gz # conn[d].gz
        BY <2>2, <3>1 DEF GzInv
      <3> QED
        BY <1>2, <3>1, <3>2, <3>3 DEF OwnersInv, RequestTypes, Served, Zips
    <2> QED
      BY <2>1, <2>2
  <1>4. ASSUME Calm, NEW d \in Conns, Open(d)', conn'[d].at = "unzipped"
        PROVE  conn'[d].out.body = "whole"
    <2>1. CASE d = c
      BY <1>4, <2>1
    <2>2. CASE d # c
      BY <1>4, <2>2 DEF EndsInv, Stays, Open
    <2> QED
      BY <2>1, <2>2
  <1> QED
    BY <1>1, <1>3, <1>4 DEF EndsInv, Stays

LEMMA SameGz ==
    ASSUME GzInv, NEW c \in Conns, Stays(c), UNCHANGED gzPool,
           Zips(c)' => Zips(c) /\ conn'[c].gz = conn[c].gz
    PROVE  GzInv'
  <1>1. \A d \in Conns : Zips(d)' => Zips(d) /\ conn'[d].gz = conn[d].gz
    BY DEF Stays, Zips, Open
  <1> QED
    BY <1>1 DEF GzInv

-----------------------------------------------------------------------------
(* Each step.                                                              *)
WebInv == OwnersInv /\ TokensInv /\ GzInv /\ EndsInv

LEMMA EnterKeeps ==
    ASSUME WebInv, NEW c \in Conns, NEW b \in Clients, NEW method \in {"GET", "POST"},
           NEW submitted \in Nat, Enter(c, b, method, submitted)
    PROVE  WebInv'
  <1>1. ~Open(c) /\ served' = served + 1
    BY OpenTyped DEF WebInv, OwnersInv, Enter, Begin, IsAt, Served, Places
  <1> DEFINE raw == RawToken(b)
  <1>2. PICK x \in ctxPool, m \in dataPool :
          /\ conn' = [conn EXCEPT ![c] = [Request(b, method, submitted) EXCEPT !.ctx = x]]
          /\ ctxPool' = ctxPool \ {x}
          /\ dataPool' = dataPool \ {m}
          /\ ctxData' = [ctxData EXCEPT ![x] = m]
          /\ content' = [content EXCEPT ![m] = [of |-> served + 1, raw |-> raw]]
    BY DEF Enter
  <1>3. UNCHANGED <<gzPool, gzTo, current, copies, jar, pages, answers>>
    BY DEF Enter, browser
  <1>4. served \in Nat /\ jar[b] \in Nat /\ raw \in Nat /\ raw # 0
    BY DEF WebInv, OwnersInv, RequestTypes, RawToken
  <1>5. x \in Contexts /\ m \in DataMaps
    BY DEF WebInv, OwnersInv, RequestTypes
  <1> DEFINE q == [Request(b, method, submitted) EXCEPT !.ctx = x]
  <1>6. /\ q.at = "entered" /\ q.n = served + 1 /\ q.client = b /\ q.method = method
        /\ q.sent = jar[b] /\ q.raw = raw /\ q.submitted = submitted /\ q.ctx = x
        /\ q.gz = Nothing /\ q.active = FALSE /\ q.panicked = FALSE /\ q.out = BlankPage
    BY DEF Request
  <1>7. q \in Served
    <2>1. BlankPage \in Outputs
      BY DEF BlankPage, Outputs
    <2>2. Request(b, method, submitted) \in
             [at : Places, n : Nat, client : Clients, method : {"GET", "POST"}, sent : Nat,
              raw : Nat, submitted : Nat, ctx : {Nothing}, gz : GzWriters \cup {Nothing},
              active : BOOLEAN, panicked : BOOLEAN, out : Outputs]
      BY <1>4, <2>1 DEF Request, Places
    <2> QED
      BY <1>5, <2>2 DEF Served
  <1>8. raw = IF jar[b] # 0 THEN jar[b] ELSE served + 1
    BY DEF RawToken
  <1> HIDE DEF q, raw
  <1>9. /\ conn'[c] = q /\ \A d \in Conns \ {c} : conn'[d] = conn[d]
        /\ conn' \in [Conns -> {Free} \cup Served]
    BY <1>2, <1>7 DEF q, WebInv, OwnersInv, RequestTypes
  <1>10. ctxData'[x] = m /\ \A y \in Contexts \ {x} : ctxData'[y] = ctxData[y]
    BY <1>2, <1>5 DEF WebInv, OwnersInv, RequestTypes
  <1>11. \A y \in Contexts \ ctxPool : ctxData[y] # m /\ y # x
    BY <1>2, <1>5 DEF WebInv, OwnersInv, PoolInv
  <1>12. RequestTypes'
    BY <1>1, <1>2, <1>3, <1>4, <1>5, <1>9 DEF WebInv, OwnersInv, RequestTypes
  <1>13. PoolInv'
    <2>1. m # Nothing
      BY <1>5, RequestsAssumption
    <2>2. \A y \in Contexts : y \in ctxPool' <=> (y \in ctxPool /\ y # x)
      BY <1>2
    <2> QED
      BY <1>2, <1>10, <1>11, <2>1, <2>2 DEF WebInv, OwnersInv, PoolInv
  <1>14. ASSUME NEW d \in Conns, d # c, Open(d)
         PROVE  conn[d].ctx \in Contexts \ ctxPool /\ conn[d].ctx # x
    <2>1. conn[d] \in Served /\ OwnInv(d)
      BY <1>14, OpenTyped DEF WebInv, OwnersInv
    <2> QED
      BY <1>2, <1>14, <2>1 DEF OwnInv, Served
  <1>15. Apart'
    <2>1. conn'[c].ctx = x
      BY <1>6, <1>9
    <2> QED
      BY <1>9, <1>14, <2>1 DEF WebInv, OwnersInv, Apart, Open
  <1>16. ASSUME NEW d \in Conns PROVE OwnInv(d)' /\ OutInv(d)'
    <2>1. CASE d = c
      <3>1. content'[m] = [of |-> served + 1, raw |-> raw]
        BY <1>2, <1>5 DEF WebInv, OwnersInv, RequestTypes
      <3>2. current[c] = Nothing
        BY <1>1, OpenTyped DEF WebInv, OwnersInv, OwnInv, IsAt
      <3>3. OwnInv(c)'
        <4>1. conn'[c].at = "entered" /\ conn'[c].ctx = x
              /\ conn'[c].n = served + 1 /\ conn'[c].raw = raw
          BY <1>6, <1>9
        <4>2. x \notin ctxPool' /\ current'[c] = Nothing
          BY <1>2, <1>3, <3>2
        <4> QED
          BY <1>10, <3>1, <4>1, <4>2 DEF OwnInv, IsAt
      <3>4. OutInv(c)'
        BY <1>6, <1>9 DEF OutInv, BlankPage
      <3> QED
        BY <2>1, <3>3, <3>4
    <2>2. CASE d # c
      <3>1. conn'[d] = conn[d] /\ current'[d] = current[d]
        BY <1>3, <1>9, <2>2
      <3>2. OutInv(d)'
        BY <3>1 DEF WebInv, OwnersInv, OutInv, Open
      <3>3. ASSUME Open(d)
            PROVE  conn[d].ctx \notin ctxPool' /\ content'[ctxData'[conn[d].ctx]]
                                                    = content[ctxData[conn[d].ctx]]
        <4>1. conn[d].ctx \in Contexts \ ctxPool /\ conn[d].ctx # x
          BY <1>14, <2>2, <3>3
        <4>2. ctxData[conn[d].ctx] # m /\ ctxData'[conn[d].ctx] = ctxData[conn[d].ctx]
          BY <1>10, <1>11, <4>1
        <4>3. ctxData[conn[d].ctx] \in DataMaps
          BY <4>1 DEF WebInv, OwnersInv, PoolInv, RequestTypes
        <4> QED
          BY <1>2, <4>1, <4>2, <4>3 DEF WebInv, OwnersInv, RequestTypes
      <3> QED
        BY <3>1, <3>2, <3>3 DEF WebInv, OwnersInv, OwnInv, IsAt, Open
    <2> QED
      BY <2>1, <2>2
  <1>17. OwnersInv'
    BY <1>3, <1>12, <1>13, <1>15, <1>16 DEF WebInv, OwnersInv
  <1>18. TokensInv'
    <2>1. ASSUME NEW d \in Conns, conn'[d] # Free
          PROVE  /\ conn'[d].raw # 0
                 /\ conn'[d].sent # 0 => /\ conn'[d].raw = conn'[d].sent
                                         /\ jar[conn'[d].client] # 0
                                         /\ GivenTo(answers, conn'[d].client, conn'[d].sent)
      <3>1. CASE d = c
        BY <1>4, <1>6, <1>8, <1>9, <3>1 DEF WebInv, TokensInv
      <3>2. CASE d # c
        BY <1>9, <2>1, <3>2 DEF WebInv, TokensInv, Open
      <3> QED
        BY <3>1, <3>2
    <2> QED
      BY <1>3, <2>1 DEF WebInv, TokensInv, Open
  <1>19. \A d \in Conns : /\ Zips(d)' => Zips(d) /\ conn'[d] = conn[d]
                          /\ Open(d)' /\ d # c => Open(d) /\ conn'[d] = conn[d]
    BY <1>6, <1>9 DEF Zips, Open
  <1>20. GzInv'
    BY <1>3, <1>19 DEF WebInv, GzInv
  <1>21. EndsInv'
    <2>1. Open(c)' /\ conn'[c].panicked = FALSE /\ conn'[c].at = "entered"
      BY <1>6, <1>7, <1>9 DEF Open, Served, Places, Free
    <2>2. Calm' => Calm
      BY <1>1, <1>3, <1>9, <1>19 DEF Calm, Open
    <2> QED
      BY <1>3, <1>9, <1>19, <2>1, <2>2 DEF WebInv, EndsInv
  <1> QED
    BY <1>17, <1>18, <1>20, <1>21 DEF WebInv

LEMMA LeaveKeeps ==
    ASSUME WebInv, NEW c \in Conns, Open(c), ~IsAt(c, "rendering"), NEW out \in Outputs,
           out.token \in {0, conn[c].raw}, Leave(c, out),
           UNCHANGED <<gzPool, current, copies, served>>,
           \/ UNCHANGED gzTo
           \/ /\ PanicOf(conn[c]) = "zipped"
              /\ gzTo' \in [GzWriters -> Conns \cup {Nothing}],
           \/ PanicOf(conn[c]) = "zipped"
           \/ /\ Calm => out.body = "whole" \/ PanicOf(conn[c]) = "late"
              /\ out.from = conn[c].n
              /\ PanicOf(conn[c]) = "early" => out.code = "failed"
    PROVE  WebInv'
  <1>1. gzTo' \in [GzWriters -> Conns \cup {Nothing}] /\ gzPool' \subseteq GzWriters
    BY DEF WebInv, OwnersInv, RequestTypes
  <1>2. OwnersInv' /\ ~Open(c)' /\ \A d \in Conns \ {c} : conn'[d] = conn[d]
    BY <1>1, LeaveOwned DEF WebInv
  <1>3. TokensInv'
    BY LeaveTokens DEF WebInv
  <1>4. GzInv' /\ EndsInv'
    BY <1>2, LeaveEnds DEF WebInv
  <1> QED
    BY <1>2, <1>3, <1>4 DEF WebInv

(* The error page takes the place of no answer, and follows one begun.     *)
LEMMA PageIs ==
    ASSUME OwnersInv, NEW c \in Conns, Open(c), NEW code \in {"refused", "failed"}
    PROVE  /\ Page(c, code) \in Outputs
           /\ conn[c].out = BlankPage =>
                /\ Page(c, code).code = code /\ Page(c, code).body = "whole"
                /\ Page(c, code).token = 0 /\ Page(c, code).from = conn[c].n
           /\ conn[c].out # BlankPage => /\ Page(c, code).token = conn[c].out.token
                                         /\ Page(c, code).from = conn[c].out.from
  <1>1. conn[c] \in Served /\ conn[c].out \in Outputs
    BY OpenTyped DEF OwnersInv, Served
  <1>2. CASE conn[c].out = BlankPage
    BY <1>1, <1>2 DEF Page, Answer, BlankPage, Outputs, Served
  <1>3. CASE conn[c].out # BlankPage /\ conn[c].out.body = "part"
    <2>1. Page(c, code) = [conn[c].out EXCEPT !.body = "mixed"]
      BY <1>3 DEF Page, BlankPage
    <2> QED
      BY <1>1, <1>3, <2>1 DEF Outputs
  <1>4. CASE conn[c].out # BlankPage /\ conn[c].out.body # "part"
    <2>1. Page(c, code) = conn[c].out
      BY <1>4 DEF Page, BlankPage
    <2> QED
      BY <1>1, <1>4, <2>1
  <1> QED
    BY <1>2, <1>3, <1>4

(* Refuse, Protect and Block: an error page for a request just entered.    *)
LEMMA RefusedKeeps ==
    ASSUME WebInv, NEW c \in Conns, IsAt(c, "entered"), Leave(c, Page(c, "refused")),
           UNCHANGED <<gzPool, gzTo, current, copies, served>>
    PROVE  WebInv'
  <1>1. Open(c) /\ ~IsAt(c, "rendering")
    BY OpenTyped DEF WebInv, OwnersInv, IsAt
  <1>2. conn[c].out = BlankPage /\ ~conn[c].panicked
    BY <1>1 DEF WebInv, OwnersInv, OutInv, IsAt
  <1> DEFINE out == Page(c, "refused")
  <1>3. out \in Outputs /\ out.body = "whole" /\ out.token = 0 /\ out.from = conn[c].n
    BY <1>1, <1>2, PageIs DEF WebInv
  <1> HIDE DEF out
  <1>4. Leave(c, out) /\ PanicOf(conn[c]) = "none"
    BY <1>2 DEF out, PanicOf
  <1> QED
    BY <1>1, <1>2, <1>3, <1>4, LeaveKeeps

LEMMA RecoveryKeeps ==
    ASSUME WebInv, NEW c \in Conns, Recovery(c)
    PROVE  WebInv'
  <1>1. Open(c) /\ ~IsAt(c, "rendering") /\ UNCHANGED <<gzPool, current, copies, served>>
    BY OpenTyped DEF WebInv, OwnersInv, IsAt, Recovery
  <1>2. /\ OutInv(c) /\ conn[c] \in Served /\ conn[c].out \in Outputs
        /\ conn[c].at \in {"returned", "unzipped"}
    BY <1>1, OpenTyped DEF WebInv, OwnersInv, Recovery, IsAt, Served
  <1> DEFINE page == Page(c, "failed")
  <1>3. /\ page \in Outputs /\ page.token \in {0, conn[c].raw}
        /\ conn[c].out = BlankPage =>
             page.body = "whole" /\ page.code = "failed" /\ page.from = conn[c].n
        /\ conn[c].out # BlankPage => page.from = conn[c].out.from
    BY <1>1, <1>2, PageIs DEF WebInv, OutInv
  <1>4. CASE ~conn[c].panicked /\ Leave(c, conn[c].out) /\ UNCHANGED gzTo
    <2> DEFINE out == conn[c].out
    <2>1. PanicOf(conn[c]) = "none"
      BY <1>4 DEF PanicOf
    <2>2. out \in Outputs /\ out.token \in {0, conn[c].raw} /\ out.from = conn[c].n
      BY <1>1, <1>2, <1>4 DEF OutInv
    <2>3. Calm => out.body = "whole"
      <3>1. CASE IsAt(c, "unzipped")
        BY <1>1, <3>1 DEF WebInv, EndsInv, IsAt
      <3>2. CASE IsAt(c, "returned") /\ conn[c].gz = Nothing
        BY <1>1, <1>2, <1>4, <3>2 DEF OutInv, IsAt, Served
      <3> QED
        BY <3>1, <3>2 DEF Recovery
    <2>4. Leave(c, out)
      BY <1>4
    <2> HIDE DEF out
    <2> QED
      BY <1>1, <1>4, <2>1, <2>2, <2>3, <2>4, LeaveKeeps
  <1>5. CASE /\ conn[c].panicked /\ ~conn[c].active
             /\ conn[c].gz = Nothing \/ conn[c].out # BlankPage
             /\ Leave(c, Page(c, "failed")) /\ UNCHANGED gzTo
    <2>1. Leave(c, page)
      BY <1>5
    <2> HIDE DEF page
    <2>2. CASE conn[c].gz # Nothing
      <3>1. PanicOf(conn[c]) = "zipped"
        BY <1>2, <1>5, <2>2, PanicIs
      <3> QED
        BY <1>1, <1>3, <1>5, <2>1, <3>1, LeaveKeeps
    <2>3. CASE conn[c].gz = Nothing /\ conn[c].out = BlankPage
      <3>1. PanicOf(conn[c]) = "early"
        BY <1>2, <1>5, <2>3, PanicIs
      <3> QED
        BY <1>1, <1>3, <1>5, <2>1, <2>3, <3>1, LeaveKeeps
    <2>4. CASE conn[c].gz = Nothing /\ conn[c].out # BlankPage
      <3>1. PanicOf(conn[c]) = "late"
        BY <1>2, <1>5, <2>4, PanicIs
      <3>2. page.from = conn[c].n
        BY <1>1, <1>2, <1>3, <1>5, <2>4 DEF OutInv
      <3> QED
        BY <1>1, <1>3, <1>5, <2>1, <3>1, <3>2, LeaveKeeps
    <2> QED
      BY <2>2, <2>3, <2>4
  <1>6. CASE /\ conn[c].panicked /\ conn[c].gz # Nothing
             /\ gzTo' = [gzTo EXCEPT ![conn[c].gz] = c]
             /\ Leave(c, [Page(c, "failed") EXCEPT !.body = "open"])
    <2> DEFINE out == [page EXCEPT !.body = "open"]
    <2>1. out \in Outputs /\ out.token \in {0, conn[c].raw}
      <3> HIDE DEF page
      <3> QED
        BY <1>3 DEF Outputs
    <2>2. Leave(c, out)
      BY <1>6
    <2> HIDE DEF out
    <2>3. PanicOf(conn[c]) = "zipped"
      BY <1>2, <1>6, PanicIs
    <2>4. gzTo' \in [GzWriters -> Conns \cup {Nothing}]
      BY <1>2, <1>6 DEF WebInv, OwnersInv, RequestTypes
    <2> QED
      BY <1>1, <2>1, <2>2, <2>3, <2>4, LeaveKeeps
  <1>7. CASE /\ conn[c].panicked /\ conn[c].active
             /\ gzTo' = [gzTo EXCEPT ![conn[c].gz] = IF @ = c THEN c ELSE Nothing]
             /\ Leave(c, conn[c].out)
    <2> DEFINE out == conn[c].out
    <2>1. out \in Outputs /\ out.token \in {0, conn[c].raw} /\ conn[c].gz # Nothing
      BY <1>1, <1>2, <1>7 DEF OutInv
    <2>2. Leave(c, out)
      BY <1>7
    <2> HIDE DEF out
    <2>3. PanicOf(conn[c]) = "zipped"
      BY <1>2, <1>7, <2>1, PanicIs
    <2>4. gzTo' \in [GzWriters -> Conns \cup {Nothing}]
      BY <1>2, <1>7 DEF WebInv, OwnersInv, RequestTypes
    <2> QED
      BY <1>1, <2>1, <2>2, <2>3, <2>4, LeaveKeeps
  <1> QED
    BY <1>4, <1>5, <1>6, <1>7 DEF Recovery

LEMMA PassKeeps ==
    ASSUME WebInv, NEW c \in Conns, NEW g \in gzPool \cup {Nothing}, Pass(c, g)
    PROVE  WebInv'
  <1>1. Open(c) /\ conn[c] \in Served /\ OutInv(c) /\ conn[c].at = "entered"
    BY OpenTyped DEF WebInv, OwnersInv, IsAt, Pass, CountRequest
  <1>2. /\ UNCHANGED <<ctxPool, dataPool, ctxData, content, copies, served, browser, answers,
                       gzTo, current>>
        /\ gzPool' = gzPool \ {g}
    BY DEF Pass, CountRequest
  <1> DEFINE q == [conn[c] EXCEPT !.at = "handler", !.gz = g]
  <1>3. g \in GzWriters \cup {Nothing}
    BY DEF WebInv, OwnersInv, RequestTypes
  <1>4. /\ q \in Served
        /\ q.at = "handler" /\ q.gz = g /\ q.out = conn[c].out /\ q.active = conn[c].active
        /\ q.panicked = conn[c].panicked /\ q.n = conn[c].n /\ q.client = conn[c].client
        /\ q.sent = conn[c].sent /\ q.raw = conn[c].raw /\ q.ctx = conn[c].ctx
    BY <1>1, <1>3 DEF Served, Places
  <1>5. conn' = [conn EXCEPT ![c] = q]
    BY DEF Pass
  <1> HIDE DEF q
  <1>6. Stays(c) /\ conn'[c] = q
    BY <1>1, <1>2, <1>4, <1>5, GoesOn DEF WebInv, OwnersInv
  <1>7. OutInv(c)' /\ conn'[c].active = FALSE /\ conn'[c].at = "handler"
    BY <1>1, <1>4, <1>6 DEF OutInv, Served
  <1>8. OwnersInv'
    <2>1. current' = [current EXCEPT ![c] = IF IsAt(c, "rendering")' THEN conn[c].ctx ELSE Nothing]
      BY <1>1, <1>2, <1>7 DEF WebInv, OwnersInv, OwnInv, RequestTypes, IsAt
    <2> QED
      BY <1>2, <1>6, <1>7, <2>1, StaysOwned DEF WebInv, OwnersInv, RequestTypes
  <1>9. GzInv'
    <2>1. \A d \in Conns \ {c} : (Zips(d)' <=> Zips(d)) /\ conn'[d].gz = conn[d].gz
      BY <1>6 DEF Stays, Zips, Open
    <2>2. Zips(c)' => conn'[c].gz \in gzPool /\ conn'[c].gz \notin gzPool'
      BY <1>2, <1>4, <1>6 DEF Zips
    <2> QED
      BY <1>2, <2>1, <2>2 DEF WebInv, GzInv
  <1>10. EndsInv'
    <2>1. PanicOf(conn[c]) = "none"
      BY <1>1 DEF OutInv, PanicOf
    <2> QED
      BY <1>2, <1>6, <1>7, <1>9, <2>1, StaysEnds DEF WebInv
  <1> QED
    BY <1>6, <1>8, <1>9, <1>10, StaysTokens DEF WebInv

LEMMA SpawnKeeps ==
    ASSUME WebInv, NEW c \in Conns, Spawn(c)
    PROVE  WebInv'
  <1>1. Open(c) /\ OwnInv(c)
    BY OpenTyped DEF WebInv, OwnersInv, IsAt, Spawn
  <1>2. Copy(conn[c].ctx) = [value |-> conn[c].n, shared |-> Nothing]
    <2>1. content[ctxData[conn[c].ctx]].of = conn[c].n
      BY <1>1 DEF OwnInv
    <2> QED
      BY <2>1 DEF Copy
  <1>3. \A j \in copies' : j.copy = [value |-> j.of, shared |-> Nothing]
    BY <1>2 DEF Spawn, WebInv, OwnersInv
  <1> QED
    BY <1>3, StillOwned DEF Spawn, WebInv, OwnersInv, RequestTypes

(* What a template finds is the token of its own request, or none.         *)
LEMMA TokenFound ==
    ASSUME OwnersInv, NEW c \in Conns, Open(c)
    PROVE  TokenOf(current[c]) \in {0, conn[c].raw} /\ TokenOf(current[c]) \in Nat
  <1>1. conn[c] \in Served /\ OwnInv(c)
    BY OpenTyped DEF OwnersInv
  <1> QED
    BY <1>1 DEF OwnInv, TokenOf, Served

(* Whatever writes an answer and returns.                                  *)
LEMMA WriteKeeps ==
    ASSUME WebInv, NEW c \in Conns, IsAt(c, "handler") \/ IsAt(c, "rendering"),
           NEW written \in Outputs, written.body = "whole", written.from = conn[c].n,
           written.token \in {0, conn[c].raw}, NEW zip \in BOOLEAN,
           Write(c, "returned", written, zip),
           UNCHANGED <<ctxPool, dataPool, gzPool, ctxData, content, copies, served, browser,
                       answers>>,
           current' = Cleared(c)
    PROVE  WebInv'
  <1>1. Open(c) /\ conn[c] \in Served /\ OutInv(c)
    BY OpenTyped DEF WebInv, OwnersInv, IsAt
  <1>2. /\ conn[c].out = BlankPage /\ conn[c].active = FALSE /\ conn[c].panicked = FALSE
        /\ conn[c].at # "unzipped"
    BY <1>1 DEF OutInv, IsAt, Served
  <1>3. /\ Stays(c)
        /\ conn'[c].at = "returned"
        /\ conn'[c].gz = conn[c].gz /\ conn'[c].panicked = conn[c].panicked
        /\ conn'[c].out.token = written.token /\ conn'[c].out.from = written.from
        /\ \/ /\ conn'[c].active = conn[c].active /\ conn'[c].out = written /\ UNCHANGED gzTo
           \/ /\ conn[c].gz # Nothing
              /\ conn'[c].active = TRUE /\ conn'[c].out.body = "open"
              /\ gzTo' = [gzTo EXCEPT ![conn[c].gz] = c]
    <2>1. RequestTypes /\ "returned" \in Places
      BY DEF WebInv, OwnersInv, Places
    <2>2. UNCHANGED <<ctxPool, dataPool, ctxData, content, copies, served, browser, answers>>
      OBVIOUS
    <2>3. Stays(c) /\ Wrote(c, "returned", written)
      BY <1>1, <2>1, <2>2, WriteStays
    <2> QED
      BY <2>3 DEF Wrote
  <1>4. OutInv(c)'
    BY <1>2, <1>3 DEF OutInv, Stays
  <1>5. OwnersInv'
    <2>1. gzTo' \in [GzWriters -> Conns \cup {Nothing}]
      BY <1>1, <1>3 DEF WebInv, OwnersInv, RequestTypes, Served
    <2>2. current' = [current EXCEPT ![c] = IF IsAt(c, "rendering")' THEN conn[c].ctx ELSE Nothing]
      BY <1>3 DEF Cleared, IsAt
    <2> QED
      BY <1>3, <1>4, <2>1, <2>2, StaysOwned DEF WebInv, OwnersInv, RequestTypes
  <1>6. Zips(c)' => Zips(c) /\ conn'[c].gz = conn[c].gz
    BY <1>1, <1>2, <1>3 DEF Zips
  <1>7. GzInv'
    BY <1>3, <1>6, SameGz DEF WebInv
  <1>8. EndsInv'
    <2>1. PanicOf(conn[c]) = "none"
      BY <1>2 DEF PanicOf
    <2> QED
      BY <1>1, <1>2, <1>3, <1>6, <1>7, <2>1, StaysEnds DEF WebInv, Zips
  <1> QED
    BY <1>3, <1>5, <1>7, <1>8, StaysTokens DEF WebInv

LEMMA RepliesKeep ==
    ASSUME WebInv, NEW c \in Conns, Reply(c) \/ RenderEnd(c) \/ PartialForm(c)
    PROVE  WebInv'
  <1>1. Open(c) /\ conn[c] \in Served /\ OwnInv(c) /\ (IsAt(c, "handler") \/ IsAt(c, "rendering"))
    BY OpenTyped DEF WebInv, OwnersInv, IsAt, Reply, RenderEnd, PartialForm
  <1>2. UNCHANGED <<ctxPool, dataPool, gzPool, ctxData, content, copies, served, browser, answers>>
    BY DEF Reply, RenderEnd, PartialForm
  <1>3. current' = Cleared(c)
    BY <1>1 DEF Reply, RenderEnd, PartialForm, Cleared, OwnInv, IsAt, WebInv, OwnersInv,
                RequestTypes
  <1>4. PICK code \in {"served", "failed"}, token \in {0, conn[c].raw}, zip \in BOOLEAN :
               token \in Nat /\ Write(c, "returned", Answer(code, "whole", token, conn[c].n), zip)
    BY <1>1, TokenFound DEF Reply, RenderEnd, PartialForm, WebInv
  <1> DEFINE out == Answer(code, "whole", token, conn[c].n)
  <1>5. /\ out \in Outputs /\ out.body = "whole" /\ out.from = conn[c].n
        /\ out.token \in {0, conn[c].raw}
    BY <1>1, <1>4 DEF Answer, Outputs, Served
  <1>6. Write(c, "returned", out, zip)
    BY <1>4
  <1> HIDE DEF out
  <1> QED
    BY <1>1, <1>2, <1>3, <1>5, <1>6, WriteKeeps

LEMMA RenderBeginKeeps ==
    ASSUME WebInv, NEW c \in Conns, RenderBegin(c)
    PROVE  WebInv'
  <1>1. Open(c) /\ conn[c] \in Served /\ OutInv(c) /\ conn[c].at = "handler"
    BY OpenTyped DEF WebInv, OwnersInv, IsAt, RenderBegin
  <1> DEFINE q == [conn[c] EXCEPT !.at = "rendering"]
  <1>2. /\ q \in Served
        /\ q.at = "rendering" /\ q.gz = conn[c].gz /\ q.out = conn[c].out
        /\ q.active = conn[c].active
        /\ q.panicked = conn[c].panicked /\ q.n = conn[c].n /\ q.client = conn[c].client
        /\ q.sent = conn[c].sent /\ q.raw = conn[c].raw /\ q.ctx = conn[c].ctx
    BY <1>1 DEF Served, Places
  <1>3. /\ conn' = [conn EXCEPT ![c] = q]
        /\ current' = [current EXCEPT ![c] = conn[c].ctx]
        /\ UNCHANGED <<ctxPool, dataPool, gzPool, ctxData, content, gzTo, copies, served,
                       browser, answers>>
    BY DEF RenderBegin, Move, pools
  <1> HIDE DEF q
  <1>4. Stays(c) /\ conn'[c] = q
    BY <1>1, <1>2, <1>3, GoesOn DEF WebInv, OwnersInv
  <1>5. OutInv(c)'
    BY <1>1, <1>2, <1>4 DEF OutInv
  <1>6. OwnersInv'
    <2>1. current' = [current EXCEPT ![c] = IF IsAt(c, "rendering")' THEN conn[c].ctx ELSE Nothing]
      BY <1>2, <1>3, <1>4 DEF IsAt
    <2> QED
      BY <1>3, <1>4, <1>5, <2>1, StaysOwned DEF WebInv, OwnersInv, RequestTypes
  <1>7. Zips(c)' => Zips(c) /\ conn'[c].gz = conn[c].gz
    BY <1>1, <1>2, <1>4 DEF Zips
  <1>8. GzInv'
    BY <1>3, <1>4, <1>7, SameGz DEF WebInv
  <1>9. EndsInv'
    <2>1. PanicOf(conn[c]) = "none"
      BY <1>1 DEF OutInv, PanicOf
    <2> QED
      BY <1>1, <1>2, <1>3, <1>4, <1>7, <1>8, <2>1, StaysEnds DEF WebInv
  <1> QED
    BY <1>4, <1>6, <1>8, <1>9, StaysTokens DEF WebInv

LEMMA PanicKeeps ==
    ASSUME WebInv, NEW c \in Conns, Panic(c)
    PROVE  WebInv'
  <1>1. Open(c) /\ conn[c] \in Served /\ OutInv(c) /\ OwnInv(c)
        /\ conn[c].at \in {"handler", "rendering"}
    BY OpenTyped DEF WebInv, OwnersInv, IsAt, Panic
  <1> DEFINE q == [conn[c] EXCEPT !.at = "returned", !.panicked = TRUE]
  <1>2. /\ q \in Served
        /\ q.at = "returned" /\ q.gz = conn[c].gz /\ q.out = conn[c].out
        /\ q.active = conn[c].active
        /\ q.panicked = TRUE /\ q.n = conn[c].n /\ q.client = conn[c].client
        /\ q.sent = conn[c].sent /\ q.raw = conn[c].raw /\ q.ctx = conn[c].ctx
    BY <1>1 DEF Served, Places
  <1>3. /\ conn' = [conn EXCEPT ![c] = q]
        /\ UNCHANGED <<ctxPool, dataPool, gzPool, ctxData, content, gzTo, copies, served,
                       browser, answers>>
    BY DEF Panic, pools
  <1>4. current' = Cleared(c)
    BY <1>1 DEF Panic, OwnInv, Cleared, WebInv, OwnersInv, RequestTypes
  <1> HIDE DEF q
  <1>5. Stays(c) /\ conn'[c] = q
    BY <1>1, <1>2, <1>3, GoesOn DEF WebInv, OwnersInv
  <1>6. OutInv(c)'
    BY <1>1, <1>2, <1>5 DEF OutInv
  <1>7. OwnersInv'
    <2>1. current' = [current EXCEPT ![c] = IF IsAt(c, "rendering")' THEN conn[c].ctx ELSE Nothing]
      BY <1>2, <1>4, <1>5 DEF IsAt, Cleared
    <2> QED
      BY <1>3, <1>5, <1>6, <2>1, StaysOwned DEF WebInv, OwnersInv, RequestTypes
  <1>8. Zips(c)' => Zips(c) /\ conn'[c].gz = conn[c].gz
    BY <1>1, <1>2, <1>5 DEF Zips
  <1>9. GzInv'
    BY <1>3, <1>5, <1>8, SameGz DEF WebInv
  <1>10. EndsInv'
    <2>1. PanicOf(conn[c]) = "none"
      BY <1>1 DEF OutInv, PanicOf
    <2> QED
      BY <1>1, <1>2, <1>3, <1>5, <1>8, <1>9, <2>1, StaysEnds DEF WebInv
  <1> QED
    BY <1>5, <1>7, <1>9, <1>10, StaysTokens DEF WebInv

(* A panic after the answer was begun changes nothing of it but its body.  *)
LEMMA PanicLateIs ==
    ASSUME WebInv, NEW c \in Conns, PanicLate(c)
    PROVE  /\ Open(c) /\ conn[c] \in Served /\ OutInv(c) /\ OwnInv(c)
           /\ conn[c].at = "returned" /\ ~conn[c].panicked
           /\ \E o \in Outputs :
                /\ o.token = conn[c].out.token /\ o.from = conn[c].n /\ o.body # "mixed"
                /\ conn' = [conn EXCEPT ![c] = [conn[c] EXCEPT !.panicked = TRUE, !.out = o]]
  <1>1. Open(c) /\ conn[c] \in Served /\ OutInv(c) /\ OwnInv(c) /\ conn[c].at = "returned"
    BY OpenTyped DEF WebInv, OwnersInv, IsAt, PanicLate
  <1>2. ~conn[c].panicked /\ conn[c].out.from = conn[c].n /\ conn[c].out \in Outputs
    BY <1>1 DEF PanicLate, MayPanic, OutInv, Served
  <1>3. PICK o \in {conn[c].out, [conn[c].out EXCEPT !.body = "part"]} :
          conn' = [conn EXCEPT ![c] = [conn[c] EXCEPT !.panicked = TRUE, !.out = o]]
    <2>1. CASE conn' = [conn EXCEPT ![c].panicked = TRUE]
      <3>1. [conn[c] EXCEPT !.panicked = TRUE]
              = [conn[c] EXCEPT !.panicked = TRUE, !.out = conn[c].out]
        BY <1>1 DEF Served
      <3> QED
        BY <2>1, <3>1
    <2>2. CASE conn' = [conn EXCEPT ![c].panicked = TRUE, ![c].out.body = "part"]
      <3>1. conn' = [conn EXCEPT ![c] =
                       [conn[c] EXCEPT !.panicked = TRUE,
                                       !.out = [conn[c].out EXCEPT !.body = "part"]]]
        BY <1>1, <2>2 DEF Served, WebInv, OwnersInv, RequestTypes
      <3> QED
        BY <3>1
    <2> QED
      BY <2>1, <2>2 DEF PanicLate
  <1>4. o \in Outputs /\ o.token = conn[c].out.token /\ o.from = conn[c].n /\ o.body # "mixed"
    BY <1>1, <1>2 DEF Outputs, OutInv
  <1> QED
    BY <1>1, <1>2, <1>3, <1>4

LEMMA PanicLateKeeps ==
    ASSUME WebInv, NEW c \in Conns, PanicLate(c)
    PROVE  WebInv'
  <1>1. /\ Open(c) /\ conn[c] \in Served /\ OutInv(c) /\ OwnInv(c)
        /\ conn[c].at = "returned" /\ ~conn[c].panicked
    BY PanicLateIs
  <1>2. PICK o \in Outputs :
          /\ o.token = conn[c].out.token /\ o.from = conn[c].n /\ o.body # "mixed"
          /\ conn' = [conn EXCEPT ![c] = [conn[c] EXCEPT !.panicked = TRUE, !.out = o]]
    BY PanicLateIs
  <1> DEFINE q == [conn[c] EXCEPT !.panicked = TRUE, !.out = o]
  <1>3. /\ q \in Served
        /\ q.at = "returned" /\ q.gz = conn[c].gz /\ q.out = o /\ q.active = conn[c].active
        /\ q.panicked = TRUE /\ q.n = conn[c].n /\ q.client = conn[c].client
        /\ q.sent = conn[c].sent /\ q.raw = conn[c].raw /\ q.ctx = conn[c].ctx
    BY <1>1, <1>2 DEF Served
  <1>4. /\ conn' = [conn EXCEPT ![c] = q]
        /\ UNCHANGED <<ctxPool, dataPool, gzPool, ctxData, content, gzTo, current, copies,
                       served, browser, answers>>
    BY <1>2 DEF PanicLate, pools
  <1> HIDE DEF q
  <1>5. Stays(c) /\ conn'[c] = q
    BY <1>1, <1>3, <1>4, GoesOn DEF WebInv, OwnersInv
  <1>6. OutInv(c)'
    BY <1>1, <1>2, <1>3, <1>5 DEF OutInv
  <1>7. OwnersInv'
    <2>1. current' = [current EXCEPT ![c] = IF IsAt(c, "rendering")' THEN conn[c].ctx ELSE Nothing]
      BY <1>1, <1>3, <1>4, <1>5 DEF IsAt, OwnInv, WebInv, OwnersInv, RequestTypes
    <2> QED
      BY <1>4, <1>5, <1>6, <2>1, StaysOwned DEF WebInv, OwnersInv, RequestTypes
  <1>8. Zips(c)' <=> Zips(c)
    BY <1>1, <1>3, <1>5 DEF Zips, Stays
  <1>9. GzInv'
    BY <1>3, <1>4, <1>5, <1>8, SameGz DEF WebInv
  <1>10. EndsInv'
    <2>1. PanicOf(conn[c]) = "none"
      BY <1>1 DEF PanicOf
    <2> QED
      BY <1>1, <1>3, <1>4, <1>5, <1>8, <1>9, <2>1, StaysEnds DEF WebInv
  <1> QED
    BY <1>5, <1>7, <1>9, <1>10, StaysTokens DEF WebInv

LEMMA CompressKeeps ==
    ASSUME WebInv, NEW c \in Conns, CompressReturns(c)
    PROVE  WebInv'
  <1>1. /\ Open(c) /\ conn[c] \in Served /\ OutInv(c) /\ OwnInv(c)
        /\ conn[c].at = "returned" /\ conn[c].gz # Nothing /\ conn[c].gz \in GzWriters
    BY OpenTyped DEF WebInv, OwnersInv, IsAt, CompressReturns, Served
  <1> DEFINE e == Ended(c)
             q == [conn[c] EXCEPT !.at = "unzipped", !.out = e]
  <1>2. /\ e \in Outputs /\ e.token = conn[c].out.token /\ e.from = conn[c].out.from
        /\ conn[c].out.body = "open" /\ gzTo[conn[c].gz] = c => e.body = "whole"
        /\ conn[c].out.body # "open" => e = conn[c].out
        /\ e.body # "mixed"
    <2>1. conn[c].out \in Outputs
      BY <1>1 DEF Served
    <2> QED
      BY <1>1, <2>1 DEF Ended, Outputs, OutInv
  <1> HIDE DEF e
  <1>3. /\ q \in Served
        /\ q.at = "unzipped" /\ q.gz = conn[c].gz /\ q.out = e
        /\ q.active = conn[c].active
        /\ q.panicked = conn[c].panicked /\ q.n = conn[c].n /\ q.client = conn[c].client
        /\ q.sent = conn[c].sent /\ q.raw = conn[c].raw /\ q.ctx = conn[c].ctx
    BY <1>1, <1>2 DEF Served, Places
  <1>4. /\ conn' = [conn EXCEPT ![c] = q]
        /\ gzPool' = gzPool \cup {conn[c].gz}
        /\ UNCHANGED <<ctxPool, dataPool, ctxData, content, gzTo, current, copies, served,
                       browser, answers>>
    BY DEF CompressReturns, e
  <1> HIDE DEF q
  <1>5. Stays(c) /\ conn'[c] = q
    BY <1>1, <1>3, <1>4, GoesOn DEF WebInv, OwnersInv
  <1>6. OutInv(c)'
    BY <1>1, <1>2, <1>3, <1>5 DEF OutInv, BlankPage
  <1>7. OwnersInv'
    <2>1. current' = [current EXCEPT ![c] = IF IsAt(c, "rendering")' THEN conn[c].ctx ELSE Nothing]
      BY <1>1, <1>3, <1>4, <1>5 DEF IsAt, OwnInv, WebInv, OwnersInv, RequestTypes
    <2> QED
      BY <1>1, <1>4, <1>5, <1>6, <2>1, StaysOwned DEF WebInv, OwnersInv, RequestTypes
  <1>8. ~Zips(c)' /\ Zips(c)
    BY <1>1, <1>3, <1>5 DEF Zips
  <1>9. GzInv'
    <2>1. \A d \in Conns \ {c} : (Zips(d)' <=> Zips(d)) /\ conn'[d].gz = conn[d].gz
      BY <1>5 DEF Stays, Zips, Open
    <2> QED
      BY <1>4, <1>8, <2>1 DEF WebInv, GzInv
  <1>10. Calm => conn'[c].out.body = "whole"
    <2>1. ASSUME Calm PROVE e.body = "whole"
      <3>1. ~conn[c].panicked
        BY <1>1, <2>1, PanicIs DEF Calm
      <3>2. conn[c].active => gzTo[conn[c].gz] = c
        BY <1>8, <2>1 DEF WebInv, EndsInv
      <3> QED
        BY <1>1, <1>2, <3>1, <3>2 DEF OutInv, Served
    <2> QED
      BY <1>3, <1>5, <2>1
  <1>11. EndsInv'
    <2>1. PanicOf(conn[c]) = "zipped" => PanicOf(conn'[c]) = "zipped"
      BY <1>1, <1>3, <1>5, PanicIs
    <2> QED
      BY <1>1, <1>3, <1>4, <1>5, <1>8, <1>9, <1>10, <2>1, StaysEnds DEF WebInv
  <1> QED
    BY <1>5, <1>7, <1>9, <1>11, StaysTokens DEF WebInv

LEMMA RequestsStep == WebInv /\ [RequestsNext]_requestVars => WebInv'
  <1> SUFFICES ASSUME WebInv, [RequestsNext]_requestVars PROVE WebInv'
    OBVIOUS
  <1>1. served \in Nat /\ \A j \in copies : j.copy = [value |-> j.of, shared |-> Nothing]
    BY DEF WebInv, OwnersInv, RequestTypes
  <1>2. CASE UNCHANGED requestVars
    BY <1>1, <1>2, StillOwned DEF requestVars, WebInv
  <1>3. CASE ClockTick
    BY <1>1, <1>3, StillOwned DEF ClockTick, WebInv
  <1>4. ASSUME NEW c \in Conns, NotRouted(c) \/ UnknownHost(c) PROVE WebInv'
    BY <1>1, <1>4, StillOwned DEF NotRouted, UnknownHost, TurnAway, Begin, WebInv
  <1>5. ASSUME NEW c \in Conns, NEW b \in Clients, Get(c, b) PROVE WebInv'
    BY <1>5, EnterKeeps DEF Get
  <1>6. ASSUME NEW c \in Conns, NEW b \in Clients, Post(c, b) PROVE WebInv'
    <2>1. PICK p \in pages : Enter(c, b, "POST", p.token)
      BY <1>6 DEF Post
    <2>2. p.token \in Nat
      BY DEF WebInv, OwnersInv, RequestTypes
    <2> QED
      BY <2>1, <2>2, EnterKeeps
  <1>7. ASSUME NEW c \in Conns, ServeHTTP(c) PROVE WebInv'
    <2>1. CASE Refuse(c) \/ Protect(c) \/ Block(c)
      BY <2>1, RefusedKeeps DEF Refuse, Protect, Block, CountRequest
    <2>2. CASE \E g \in gzPool \cup {Nothing} : Pass(c, g)
      BY <2>2, PassKeeps
    <2>3. CASE Reply(c) \/ RenderEnd(c) \/ PartialForm(c)
      BY <2>3, RepliesKeep
    <2> QED
      BY <1>7, <2>1, <2>2, <2>3, SpawnKeeps, RenderBeginKeeps, PanicKeeps,
         PanicLateKeeps, CompressKeeps, RecoveryKeeps DEF ServeHTTP
  <1> QED
    BY <1>2, <1>3, <1>4, <1>5, <1>6, <1>7 DEF RequestsNext

LEMMA RequestsAlways == RequestsSpec => []WebInv
  <1>1. RequestsInit => WebInv
    BY RequestsInitially DEF WebInv
  <1> QED
    BY <1>1, RequestsStep, PTL DEF RequestsSpec

(* What a goroutine reads from its copy of a context is what the handler   *)
(* had put there (router.go, Context.Copy), for any number of connections  *)
(* and of contexts and maps in the pools.                                  *)
THEOREM CopiesAreOwn == RequestsSpec => []CopiesKeepTheirValues
  <1>1. ASSUME WebInv, NEW j \in copies PROVE ReadCopy(j) = j.of
    <2>1. j.copy = [value |-> j.of, shared |-> Nothing]
      BY <1>1 DEF WebInv, OwnersInv
    <2>2. j.copy.shared = Nothing /\ j.copy.value = j.of
      BY <2>1
    <2> QED
      BY <2>2 DEF ReadCopy
  <1>2. WebInv => CopiesKeepTheirValues
    BY <1>1 DEF CopiesKeepTheirValues
  <1> QED
    BY <1>2, RequestsAlways, PTL

(* A form carries its client's own token or none, and goes stale only if   *)
(* two answers gave the client a cookie (csrf.go, render.go).              *)
THEOREM FormsAreOwn == RequestsSpec => []FormsCarryOwnToken
  <1>1. ASSUME WebInv, NEW p \in pages, p.token # jar[p.client]
        PROVE  \E a, b \in answers : a # b /\ {a.of, b.of} = {p.client} /\ a.sent = 0 /\ b.sent = 0
    <2>1. jar[p.client] # 0 /\ p.client \in Clients /\ GivenTo(answers, p.client, p.token)
      BY <1>1 DEF WebInv, TokensInv, OwnersInv, RequestTypes
    <2>2. GivenTo(answers, p.client, jar[p.client])
      BY <1>1, <2>1 DEF WebInv, TokensInv
    <2>3. PICK a \in answers : a.of = p.client /\ a.sent = 0 /\ a.raw = p.token
      BY <2>1 DEF GivenTo
    <2>4. PICK b \in answers : b.of = p.client /\ b.sent = 0 /\ b.raw = jar[p.client]
      BY <2>2 DEF GivenTo
    <2>5. a # b /\ {a.of, b.of} = {p.client}
      BY <1>1, <2>3, <2>4
    <2> QED
      BY <2>3, <2>4, <2>5
  <1>2. WebInv => FormsCarryOwnToken
    BY <1>1 DEF FormsCarryOwnToken, WebInv, TokensInv
  <1> QED
    BY <1>2, RequestsAlways, PTL

(* While no handler behind Compress panics, every request is answered by   *)
(* its own handler or one error page and no body is another's; it is in    *)
(* full unless the handler panics after it has begun to write, and a       *)
(* panic before that is a 500 (middleware.go, compress.go, errors.go).     *)
THEOREM EveryAnswerIsWhole == RequestsSpec => []AnsweredInFull
  <1>1. WebInv => AnsweredInFull
    BY DEF WebInv, EndsInv, AnsweredInFull, Calm, Open
  <1> QED
    BY <1>1, RequestsAlways, PTL

-----------------------------------------------------------------------------
(* RateLimit.  A window of an address is the time from the request that    *)
(* opens it to its reset, both included; the passes since are counted, and *)
(* those of the window before it all lie in its last RateWindow times.     *)

Between(b, low, high) == {p \in Passed(b, 0..MaxClock) : low <= p[1] /\ p[1] <= high}

RateTypes ==
    /\ clock \in 0..MaxClock
    /\ rate \in [Clients -> [count : Nat, reset : Nat]]
    /\ passes \in [Clients -> [0..MaxClock -> Nat]]
    /\ \A b \in Clients : IsFiniteSet(Passed(b, 0..MaxClock))
    /\ \A b \in Clients, t \in 0..MaxClock : t > clock => passes[b][t] = 0

NoWindow(b) == rate[b] = NoEntry \/ WindowOver(rate[b])
Opened(b) == rate[b].reset - RateWindow

WindowInv(b) ==
    IF NoWindow(b)
    THEN /\ passes[b][clock] = 0
         /\ Cardinality(Between(b, clock - RateWindow, clock - 1)) <= RateMax
    ELSE /\ Opened(b) \in 0..clock
         /\ Cardinality(Between(b, Opened(b), clock)) <= rate[b].count
         /\ Cardinality(Between(b, Opened(b), clock)) <= RateMax
         /\ Cardinality(Between(b, Opened(b) - RateWindow, Opened(b) - 1)) <= RateMax

RateInv ==
    /\ RateTypes
    /\ \A b \in Clients :
         /\ WindowInv(b)
         /\ \A t \in 0..MaxClock : Cardinality(Between(b, t, t + RateWindow)) <= 2 * RateMax

LEMMA BetweenFinite ==
    ASSUME RateTypes, NEW b \in Clients, NEW low, NEW high
    PROVE  /\ IsFiniteSet(Between(b, low, high))
           /\ Cardinality(Between(b, low, high)) \in Nat
           /\ \A S : S \subseteq Between(b, low, high) =>
                Cardinality(S) \in Nat /\ Cardinality(S) <= Cardinality(Between(b, low, high))
  <1>1. Between(b, low, high) \subseteq Passed(b, 0..MaxClock)
    BY DEF Between
  <1>2. IsFiniteSet(Between(b, low, high))
    BY <1>1, FS_Subset DEF RateTypes
  <1> QED
    BY <1>2, FS_Subset, FS_CardinalityType

(* A pass between two times has one of them, and nobody passes later than  *)
(* now.                                                                    *)
LEMMA BetweenIs ==
    ASSUME RateTypes, NEW b \in Clients, NEW low, NEW high, NEW p \in Between(b, low, high)
    PROVE  /\ p[1] \in 0..clock /\ low <= p[1] /\ p[1] <= high
           /\ passes[b][p[1]] # 0
  <1>1. PICK u \in 0..MaxClock : \E i \in 1..passes[b][u] : p = <<u, i>>
    <2>1. p \in Passed(b, 0..MaxClock)
      BY DEF Between
    <2> QED
      BY <2>1 DEF Passed
  <1>2. passes[b][u] \in Nat
    BY DEF RateTypes
  <1>3. p[1] = u /\ passes[b][u] # 0
    BY <1>1, <1>2
  <1>4. ~(u > clock)
    BY <1>3 DEF RateTypes
  <1> QED
    BY <1>3, <1>4 DEF Between, RateTypes

LEMMA RateInitially == RequestsInit => RateInv
  <1> SUFFICES ASSUME RequestsInit PROVE RateInv
    OBVIOUS
  <1>1. 0 \in 0..MaxClock
    BY RequestsAssumption
  <1>2. \A b \in Clients, t \in 0..MaxClock : passes[b][t] = 0
    BY DEF RequestsInit
  <1>3. ASSUME NEW b \in Clients PROVE Passed(b, 0..MaxClock) = {}
    <2>1. \A u \in 0..MaxClock : 1..passes[b][u] = {}
      BY <1>2
    <2> QED
      BY <2>1 DEF Passed
  <1>4. \A b \in Clients : \A low, high : Cardinality(Between(b, low, high)) = 0
    BY <1>3, FS_EmptySet DEF Between
  <1>5. RateTypes
    BY <1>1, <1>2, <1>3, FS_EmptySet, RequestsAssumption DEF RequestsInit, RateTypes, NoEntry
  <1>6. \A b \in Clients : WindowInv(b)
    BY <1>1, <1>2, <1>4, RequestsAssumption DEF RequestsInit, WindowInv, NoWindow
  <1> QED
    BY <1>4, <1>5, <1>6, RequestsAssumption DEF RateInv

LEMMA RateUnchanged ==
    ASSUME RateInv, UNCHANGED <<rate, passes, clock>>
    PROVE  RateInv'
  <1>1. \A b, T : Passed(b, T)' = Passed(b, T)
    BY DEF Passed
  <1>2. \A b, low, high : Between(b, low, high)' = Between(b, low, high)
    BY <1>1 DEF Between
  <1>3. RateTypes'
    BY <1>1 DEF RateInv, RateTypes
  <1>4. \A b \in Clients : WindowInv(b)'
    BY DEF RateInv, WindowInv, NoWindow, WindowOver, Opened, Between, Passed
  <1>5. \A b \in Clients, t \in 0..MaxClock :
           Cardinality(Between(b, t, t + RateWindow)') <= 2 * RateMax
    BY <1>2 DEF RateInv
  <1> QED
    BY <1>3, <1>4, <1>5 DEF RateInv

LEMMA TickKeepsRate ==
    ASSUME RateInv, ClockTick
    PROVE  RateInv'
  <1>1. clock' = clock + 1 /\ clock < MaxClock /\ UNCHANGED <<rate, passes>>
    BY DEF ClockTick, rates
  <1>2. clock \in Nat /\ RateWindow \in Nat /\ RateMax \in Nat /\ MaxClock \in Nat
    BY RequestsAssumption DEF RateInv, RateTypes
  <1>3. \A b, low, high : Between(b, low, high)' = Between(b, low, high)
    BY <1>1 DEF Between, Passed
  <1>4. RateTypes'
    <2>1. \A b \in Clients : Passed(b, 0..MaxClock)' = Passed(b, 0..MaxClock)
      BY <1>1 DEF Passed
    <2> QED
      BY <1>1, <1>2, <2>1 DEF RateInv, RateTypes
  <1>5. ASSUME NEW b \in Clients PROVE WindowInv(b)'
    <2>1. /\ rate[b].reset \in Nat /\ rate[b].count \in Nat /\ WindowInv(b)
          /\ passes'[b][clock'] = 0
      BY <1>1, <1>2 DEF RateInv, RateTypes
    <2> DEFINE P(low, high) == Between(b, low, high)
    <2>2. ASSUME NEW low, NEW high, NEW low2, NEW high2, P(low2, high2) \subseteq P(low, high),
                 NEW n \in Nat, Cardinality(P(low, high)) <= n
          PROVE  Cardinality(P(low2, high2)) <= n
      BY <2>2, BetweenFinite DEF RateInv
    <2>3. CASE NoWindow(b)
      <3>1. NoWindow(b)'
        BY <1>1, <1>2, <2>1, <2>3 DEF NoWindow, WindowOver
      <3>2. Between(b, clock' - RateWindow, clock' - 1)
              \subseteq Between(b, clock - RateWindow, clock - 1)
        <4>1. ASSUME NEW p \in Between(b, clock' - RateWindow, clock' - 1)
              PROVE  p \in Between(b, clock - RateWindow, clock - 1)
          <5>1. p[1] \in 0..clock /\ clock' - RateWindow <= p[1] /\ passes[b][p[1]] # 0
            BY <4>1, BetweenIs DEF RateInv
          <5>2. p[1] # clock
            BY <2>1, <2>3, <5>1 DEF WindowInv
          <5> QED
            BY <1>1, <1>2, <4>1, <5>1, <5>2 DEF Between
        <4> QED
          BY <4>1
      <3>3. Cardinality(Between(b, clock' - RateWindow, clock' - 1)) <= RateMax
        BY <1>2, <2>1, <2>2, <2>3, <3>2 DEF WindowInv
      <3> QED
        BY <1>1, <1>3, <2>1, <3>1, <3>3 DEF WindowInv
    <2>4. CASE ~NoWindow(b) /\ NoWindow(b)'
      <3>1. clock = rate[b].reset
        BY <1>1, <1>2, <2>1, <2>4 DEF NoWindow, WindowOver
      <3>2. ASSUME NEW p \in Between(b, clock' - RateWindow, clock' - 1)
            PROVE  p \in Between(b, Opened(b), clock)
        <4>1. p[1] \in 0..clock /\ clock' - RateWindow <= p[1]
          BY <3>2, BetweenIs DEF RateInv
        <4> QED
          BY <1>1, <1>2, <2>1, <3>1, <3>2, <4>1 DEF Between, Opened
      <3>3. Cardinality(Between(b, clock' - RateWindow, clock' - 1)) <= RateMax
        BY <1>2, <2>1, <2>2, <2>4, <3>2 DEF WindowInv
      <3> QED
        BY <1>1, <1>3, <2>1, <2>4, <3>3 DEF WindowInv
    <2>5. CASE ~NoWindow(b) /\ ~NoWindow(b)'
      <3>1. Opened(b)' = Opened(b)
        BY <1>1 DEF Opened
      <3>2. ASSUME NEW p \in Between(b, Opened(b), clock')
            PROVE  p \in Between(b, Opened(b), clock)
        <4>1. p[1] \in 0..clock /\ Opened(b) <= p[1]
          BY <3>2, BetweenIs DEF RateInv
        <4> QED
          BY <1>2, <3>2, <4>1 DEF Between
      <3>3. /\ Cardinality(Between(b, Opened(b), clock')) <= RateMax
            /\ Cardinality(Between(b, Opened(b), clock')) <= rate[b].count
        BY <1>2, <2>1, <2>2, <2>5, <3>2 DEF WindowInv
      <3>4. Opened(b) \in 0..clock'
        BY <1>1, <1>2, <2>1, <2>5 DEF WindowInv
      <3> QED
        BY <1>1, <1>3, <2>1, <2>5, <3>1, <3>3, <3>4 DEF WindowInv
    <2> QED
      BY <2>3, <2>4, <2>5
  <1>6. ASSUME NEW b \in Clients, NEW t \in 0..MaxClock
        PROVE  Cardinality(Between(b, t, t + RateWindow)') <= 2 * RateMax
    BY <1>3 DEF RateInv
  <1> QED
    BY <1>4, <1>5, <1>6 DEF RateInv

(* Counting one more request of an address: a window that is over, or      *)
(* none, makes place for one that begins now; the others' windows stay.    *)
LEMMA CountedIs ==
    ASSUME RateInv, NEW c \in Conns, NEW b \in Clients, conn[c].client = b, CountRequest(c)
    PROVE  /\ clock' = clock
           /\ rate' \in [Clients -> [count : Nat, reset : Nat]]
           /\ ~NoWindow(b)'
           /\ rate'[b].count = Counted(b).count
           /\ NoWindow(b) => Opened(b)' = clock /\ rate'[b].count = 1
           /\ ~NoWindow(b) => Opened(b)' = Opened(b) /\ rate'[b].count = rate[b].count + 1
           /\ \A d \in Clients \ {b} : /\ NoWindow(d)' <=> NoWindow(d)
                                       /\ ~NoWindow(d) => rate'[d] = rate[d]
  <1>1. /\ clock' = clock /\ clock \in Nat /\ RateWindow \in Nat
        /\ rate' = [RatesKept EXCEPT ![b] = Counted(b)]
    BY RequestsAssumption DEF CountRequest, RateInv, RateTypes
  <1>2. \A d \in Clients : rate[d].count \in Nat /\ rate[d].reset \in Nat
                          /\ rate[d] = [count |-> rate[d].count, reset |-> rate[d].reset]
    BY DEF RateInv, RateTypes
  <1>3. RatesKept \in [Clients -> [count : Nat, reset : Nat]]
    BY DEF RatesKept, RateInv, RateTypes, NoEntry
  <1>4. ASSUME NEW d \in Clients
        PROVE  /\ ~NoWindow(d) => RatesKept[d] = rate[d]
               /\ NoWindow(d) <=> (RatesKept[d] = NoEntry \/ WindowOver(RatesKept[d]))
    BY DEF RatesKept, NoWindow, RateInv, RateTypes
  <1>5. /\ NoWindow(b) => Counted(b) = [count |-> 1, reset |-> clock + RateWindow]
        /\ ~NoWindow(b) => Counted(b) = [rate[b] EXCEPT !.count = @ + 1]
    BY <1>4 DEF Counted
  <1>6. ~NoWindow(b) => /\ Counted(b).count = rate[b].count + 1
                        /\ Counted(b).reset = rate[b].reset
    BY <1>2, <1>5
  <1>7. Counted(b) \in [count : Nat, reset : Nat] /\ Counted(b).count # 0
    <2>1. CASE NoWindow(b)
      BY <1>1, <1>5, <2>1
    <2>2. CASE ~NoWindow(b)
      <3>1. Counted(b) = [count |-> rate[b].count + 1, reset |-> rate[b].reset]
        BY <1>2, <1>5, <2>2
      <3>2. rate[b].count \in Nat /\ rate[b].reset \in Nat
        BY <1>2
      <3> QED
        BY <3>1, <3>2
    <2> QED
      BY <2>1, <2>2
  <1>8. rate'[b] = Counted(b) /\ \A d \in Clients \ {b} : rate'[d] = RatesKept[d]
    BY <1>1, <1>3
  <1>9. rate' \in [Clients -> [count : Nat, reset : Nat]]
    BY <1>1, <1>3, <1>7
  <1>10. ~NoWindow(b)'
    <2>1. Counted(b) # NoEntry
      BY <1>7 DEF NoEntry
    <2>2. ~(clock > Counted(b).reset)
      <3>1. CASE NoWindow(b)
        BY <1>1, <1>5, <3>1
      <3>2. CASE ~NoWindow(b)
        BY <1>6, <3>2 DEF NoWindow, WindowOver
      <3> QED
        BY <3>1, <3>2
    <2> QED
      BY <1>1, <1>8, <2>1, <2>2 DEF NoWindow, WindowOver
  <1>11. /\ NoWindow(b) => Opened(b)' = clock /\ rate'[b].count = 1
         /\ ~NoWindow(b) => Opened(b)' = Opened(b) /\ rate'[b].count = rate[b].count + 1
    BY <1>1, <1>5, <1>6, <1>8 DEF Opened
  <1>12. ASSUME NEW d \in Clients \ {b}
         PROVE  /\ NoWindow(d)' <=> NoWindow(d)
                /\ ~NoWindow(d) => rate'[d] = rate[d]
    BY <1>1, <1>4, <1>8 DEF NoWindow, WindowOver
  <1> QED
    BY <1>1, <1>8, <1>9, <1>10, <1>11, <1>12

(* The windows of the addresses whose passes stay.                         *)
LEMMA OthersWindow ==
    ASSUME RateInv, NEW d \in Clients, clock' = clock, passes'[d] = passes[d],
           NoWindow(d)' <=> NoWindow(d), ~NoWindow(d) => rate'[d] = rate[d]
    PROVE  /\ WindowInv(d)'
           /\ \A t \in 0..MaxClock : Cardinality(Between(d, t, t + RateWindow)') <= 2 * RateMax
           /\ Passed(d, 0..MaxClock)' = Passed(d, 0..MaxClock)
  <1>1. Passed(d, 0..MaxClock)' = Passed(d, 0..MaxClock)
    BY DEF Passed
  <1>2. \A low, high : Between(d, low, high)' = Between(d, low, high)
    BY <1>1 DEF Between
  <1>3. \A t \in 0..MaxClock : Cardinality(Between(d, t, t + RateWindow)') <= 2 * RateMax
    BY <1>2 DEF RateInv
  <1>4. WindowInv(d)'
    <2>1. WindowInv(d)
      BY DEF RateInv
    <2>2. CASE NoWindow(d)
      BY <1>2, <2>1, <2>2 DEF WindowInv
    <2>3. CASE ~NoWindow(d)
      <3>1. Opened(d)' = Opened(d) /\ rate'[d] = rate[d]
        BY <2>3 DEF Opened
      <3> QED
        BY <1>2, <2>1, <2>3, <3>1 DEF WindowInv
    <2> QED
      BY <2>2, <2>3
  <1> QED
    BY <1>1, <1>3, <1>4

(* What a window of b has at its beginning, or has had so far.             *)
LEMMA WindowSoFar ==
    ASSUME RateInv, NEW b \in Clients, NEW s,
           NoWindow(b) => s = clock,
           ~NoWindow(b) => s = Opened(b)
    PROVE  /\ s \in 0..clock
           /\ Cardinality(Between(b, s - RateWindow, s - 1)) <= RateMax
           /\ NoWindow(b) => Between(b, s, clock) = {}
           /\ ~NoWindow(b) => /\ Cardinality(Between(b, s, clock)) <= rate[b].count
                              /\ Cardinality(Between(b, s, clock)) <= RateMax
  <1>1. WindowInv(b) /\ RateTypes /\ clock \in Nat
    BY RequestsAssumption DEF RateInv, RateTypes
  <1>2. CASE NoWindow(b)
    <2>1. Between(b, clock, clock) = {}
      <3>1. ASSUME NEW p \in Between(b, clock, clock) PROVE FALSE
        <4>1. p[1] \in 0..clock /\ clock <= p[1] /\ passes[b][p[1]] # 0
          BY <1>1, <3>1, BetweenIs
        <4>2. p[1] = clock
          BY <1>1, <4>1
        <4> QED
          BY <1>1, <1>2, <4>1, <4>2 DEF WindowInv
      <3> QED
        BY <3>1
    <2> QED
      BY <1>1, <1>2, <2>1 DEF WindowInv
  <1>3. CASE ~NoWindow(b)
    BY <1>1, <1>3 DEF WindowInv
  <1> QED
    BY <1>2, <1>3

LEMMA BlockKeepsRate ==
    ASSUME RateInv, NEW c \in Conns, NEW b \in Clients, conn[c].client = b, CountRequest(c),
           UNCHANGED passes
    PROVE  RateInv'
  <1>1. /\ clock' = clock
        /\ rate' \in [Clients -> [count : Nat, reset : Nat]]
        /\ ~NoWindow(b)'
        /\ NoWindow(b) => Opened(b)' = clock /\ rate'[b].count = 1
        /\ ~NoWindow(b) => Opened(b)' = Opened(b) /\ rate'[b].count = rate[b].count + 1
        /\ \A d \in Clients \ {b} : /\ NoWindow(d)' <=> NoWindow(d)
                                    /\ ~NoWindow(d) => rate'[d] = rate[d]
    BY CountedIs
  <1>2. \A d, T : Passed(d, T)' = Passed(d, T)
    BY DEF Passed
  <1>3. \A d, low, high : Between(d, low, high)' = Between(d, low, high)
    BY <1>2 DEF Between
  <1>4. RateTypes'
    BY <1>1, <1>2 DEF RateInv, RateTypes
  <1>5. WindowInv(b)'
    <2> DEFINE s == Opened(b)'
    <2>1. (NoWindow(b) => s = clock) /\ (~NoWindow(b) => s = Opened(b))
      BY <1>1
    <2> HIDE DEF s
    <2>2. /\ s \in 0..clock
          /\ Cardinality(Between(b, s - RateWindow, s - 1)) <= RateMax
          /\ NoWindow(b) => Between(b, s, clock) = {}
          /\ ~NoWindow(b) => /\ Cardinality(Between(b, s, clock)) <= rate[b].count
                             /\ Cardinality(Between(b, s, clock)) <= RateMax
      BY <2>1, WindowSoFar
    <2>3. Cardinality(Between(b, s, clock)) <= rate'[b].count
          /\ Cardinality(Between(b, s, clock)) <= RateMax
      <3>1. CASE NoWindow(b)
        <4>1. Between(b, s, clock) = {} /\ rate'[b].count = 1 /\ RateMax \in Nat
          BY <1>1, <2>2, <3>1, RequestsAssumption
        <4>2. Cardinality({}) = 0
          BY FS_EmptySet
        <4> QED
          BY <4>1, <4>2
      <3>2. CASE ~NoWindow(b)
        <4>1. Cardinality(Between(b, s, clock)) \in Nat /\ rate[b].count \in Nat
          BY BetweenFinite DEF RateInv, RateTypes
        <4> QED
          BY <1>1, <2>2, <3>2, <4>1
      <3> QED
        BY <3>1, <3>2
    <2> QED
      BY <1>1, <1>3, <2>2, <2>3 DEF WindowInv, s
  <1>6. \A d \in Clients \ {b} : WindowInv(d)'
    BY <1>1, OthersWindow
  <1>7. \A d \in Clients, t \in 0..MaxClock :
           Cardinality(Between(d, t, t + RateWindow)') <= 2 * RateMax
    BY <1>3 DEF RateInv
  <1> QED
    BY <1>4, <1>5, <1>6, <1>7 DEF RateInv

(* A pass is one more in its window, and the window has room for it.       *)
LEMMA PassedGrows ==
    ASSUME RateTypes, NEW b \in Clients,
           passes' = [passes EXCEPT ![b][clock] = @ + 1]
    PROVE  /\ passes' \in [Clients -> [0..MaxClock -> Nat]]
           /\ \A d \in Clients \ {b} : passes'[d] = passes[d]
           /\ \A u \in 0..MaxClock : u # clock => passes'[b][u] = passes[b][u]
           /\ \E new : /\ new[1] = clock
                       /\ Passed(b, 0..MaxClock)' = Passed(b, 0..MaxClock) \cup {new}
  <1>1. clock \in 0..MaxClock /\ passes \in [Clients -> [0..MaxClock -> Nat]]
    BY DEF RateTypes
  <1> DEFINE line == [passes[b] EXCEPT ![clock] = passes[b][clock] + 1]
  <1>2. passes[b] \in [0..MaxClock -> Nat] /\ passes[b][clock] \in Nat
    BY <1>1
  <1>3. line \in [0..MaxClock -> Nat] /\ line[clock] = passes[b][clock] + 1
        /\ \A u \in 0..MaxClock : u # clock => line[u] = passes[b][u]
    BY <1>1, <1>2
  <1>4. passes' = [passes EXCEPT ![b] = line]
    OBVIOUS
  <1> HIDE DEF line
  <1>5. passes' \in [Clients -> [0..MaxClock -> Nat]] /\ passes'[b] = line
        /\ \A d \in Clients \ {b} : passes'[d] = passes[d]
    BY <1>1, <1>3, <1>4
  <1>6. \A u \in 0..MaxClock : u # clock => passes'[b][u] = passes[b][u]
    BY <1>3, <1>5
  <1> DEFINE new == <<clock, passes[b][clock] + 1>>
             All == Passed(b, 0..MaxClock)
  <1>7. All' = All \cup {new}
    <2>1. \A p : p \in All' <=> \E u \in 0..MaxClock : \E i \in 1..passes'[b][u] : p = <<u, i>>
      BY DEF Passed
    <2>2. \A p : p \in All <=> \E u \in 0..MaxClock : \E i \in 1..passes[b][u] : p = <<u, i>>
      BY DEF Passed
    <2>3. 1..passes'[b][clock] = (1..passes[b][clock]) \cup {passes[b][clock] + 1}
      BY <1>2, <1>3, <1>5
    <2>4. passes'[b][clock] = passes[b][clock] + 1
      BY <1>3, <1>5
    <2>5. ASSUME NEW p, p \in All' PROVE p \in All \cup {new}
      <3>1. PICK u \in 0..MaxClock : \E i \in 1..passes'[b][u] : p = <<u, i>>
        BY <2>1, <2>5
      <3>2. CASE u = clock
        BY <1>1, <2>2, <2>3, <3>1, <3>2
      <3>3. CASE u # clock
        BY <1>6, <2>2, <3>1, <3>3
      <3> QED
        BY <3>2, <3>3
    <2>6. ASSUME NEW p, p \in All PROVE p \in All'
      <3>1. PICK u \in 0..MaxClock : \E i \in 1..passes[b][u] : p = <<u, i>>
        BY <2>2, <2>6
      <3>2. CASE u = clock
        BY <1>1, <2>1, <2>3, <3>1, <3>2
      <3>3. CASE u # clock
        BY <1>6, <2>1, <3>1, <3>3
      <3> QED
        BY <3>2, <3>3
    <2>7. new \in All'
      BY <1>1, <1>2, <2>1, <2>3
    <2> HIDE DEF All, new
    <2> QED
      BY <2>5, <2>6, <2>7
  <1>8. new[1] = clock
    OBVIOUS
  <1> QED
    BY <1>5, <1>6, <1>7, <1>8

LEMMA PassKeepsRate ==
    ASSUME RateInv, NEW c \in Conns, NEW b \in Clients, conn[c].client = b, CountRequest(c),
           Counted(b).count <= RateMax,
           passes' = [passes EXCEPT ![b][clock] = @ + 1]
    PROVE  RateInv'
  <1>1. /\ clock' = clock
        /\ rate' \in [Clients -> [count : Nat, reset : Nat]]
        /\ ~NoWindow(b)' /\ rate'[b].count <= RateMax
        /\ NoWindow(b) => Opened(b)' = clock /\ rate'[b].count = 1
        /\ ~NoWindow(b) => Opened(b)' = Opened(b) /\ rate'[b].count = rate[b].count + 1
        /\ \A d \in Clients \ {b} : /\ NoWindow(d)' <=> NoWindow(d)
                                    /\ ~NoWindow(d) => rate'[d] = rate[d]
    BY CountedIs
  <1>2. /\ clock \in Nat /\ clock \in 0..MaxClock /\ RateMax \in Nat /\ RateWindow \in Nat
        /\ MaxClock \in Nat
    BY RequestsAssumption DEF RateInv, RateTypes
  <1> DEFINE All == Passed(b, 0..MaxClock)
  <1>3. /\ passes' \in [Clients -> [0..MaxClock -> Nat]]
        /\ \A d \in Clients \ {b} : passes'[d] = passes[d]
        /\ \A u \in 0..MaxClock : u # clock => passes'[b][u] = passes[b][u]
        /\ \E new : new[1] = clock /\ All' = All \cup {new}
    BY PassedGrows DEF RateInv
  <1>4. PICK new : new[1] = clock /\ All' = All \cup {new}
    BY <1>3
  <1>5. \A low, high : Between(b, low, high) = {p \in All : low <= p[1] /\ p[1] <= high}
    BY DEF Between
  <1>6. \A low, high : Between(b, low, high)' = {p \in All' : low <= p[1] /\ p[1] <= high}
    BY DEF Between
  <1> HIDE DEF All
  <1>7. ASSUME NEW low, NEW high
        PROVE  /\ Between(b, low, high)' \subseteq Between(b, low, high) \cup {new}
               /\ ~(low <= clock /\ clock <= high) =>
                    Between(b, low, high)' = Between(b, low, high)
    <2>1. Between(b, low, high) = {p \in All : low <= p[1] /\ p[1] <= high}
      BY <1>5
    <2>2. Between(b, low, high)' = {p \in All' : low <= p[1] /\ p[1] <= high}
      BY <1>6
    <2> QED
      BY <1>4, <2>1, <2>2
  <1>8. RateTypes'
    <2>1. ASSUME NEW d \in Clients PROVE IsFiniteSet(Passed(d, 0..MaxClock)')
      <3>1. CASE d = b
        <4>1. IsFiniteSet(All)
          BY DEF RateInv, RateTypes, All
        <4>2. IsFiniteSet(All')
          BY <1>4, <4>1, FS_AddElement
        <4> QED
          BY <3>1, <4>2 DEF All
      <3>2. CASE d # b
        <4>1. Passed(d, 0..MaxClock)' = Passed(d, 0..MaxClock)
          BY <1>3, <3>2 DEF Passed
        <4> QED
          BY <4>1 DEF RateInv, RateTypes
      <3> QED
        BY <3>1, <3>2
    <2>2. ASSUME NEW d \in Clients, NEW t \in 0..MaxClock, t > clock
          PROVE  passes'[d][t] = 0
      <3>1. passes[d][t] = 0
        BY <2>2 DEF RateInv, RateTypes
      <3>2. t # clock
        BY <1>2, <2>2
      <3> QED
        BY <1>3, <3>1, <3>2
    <2> QED
      BY <1>1, <1>2, <1>3, <2>1, <2>2 DEF RateTypes
  <1>9. \A d \in Clients \ {b} :
           /\ WindowInv(d)'
           /\ \A t \in 0..MaxClock : Cardinality(Between(d, t, t + RateWindow)') <= 2 * RateMax
    BY <1>1, <1>3, OthersWindow
  <1>10. PICK s, now : s = Opened(b)' /\ now = clock
    OBVIOUS
  <1>11. (NoWindow(b) => s = clock) /\ (~NoWindow(b) => s = Opened(b))
    BY <1>1, <1>10
  <1>12. /\ s \in 0..clock
         /\ Cardinality(Between(b, s - RateWindow, s - 1)) <= RateMax
         /\ NoWindow(b) => Between(b, s, clock) = {}
         /\ ~NoWindow(b) => Cardinality(Between(b, s, clock)) <= rate[b].count
    BY <1>11, WindowSoFar
  <1> DEFINE Now == Between(b, s, now)'
             Before == Between(b, s - RateWindow, s - 1)'
  <1>13. IsFiniteSet(Now) /\ Cardinality(Now) \in Nat /\ Cardinality(Now) <= rate'[b].count
    <2> DEFINE Old == Between(b, s, clock)
    <2>1. /\ IsFiniteSet(Old) /\ Cardinality(Old) \in Nat
          /\ rate[b].count \in Nat
      BY BetweenFinite DEF RateInv, RateTypes
    <2>2. Cardinality(Old) + 1 <= rate'[b].count
      <3>1. CASE NoWindow(b)
        <4>1. Old = {}
          BY <1>12, <3>1
        <4> HIDE DEF Old
        <4>2. Cardinality(Old) = 0
          BY <4>1, FS_EmptySet
        <4> QED
          BY <1>1, <3>1, <4>2
      <3>2. CASE ~NoWindow(b)
        BY <1>1, <1>12, <2>1, <3>2
      <3> QED
        BY <3>1, <3>2
    <2>3. Now \subseteq Old \cup {new}
      BY <1>7, <1>10
    <2> HIDE DEF Old, Now
    <2>4. /\ IsFiniteSet(Old \cup {new}) /\ Cardinality(Old \cup {new}) \in Nat
          /\ Cardinality(Old \cup {new}) <= Cardinality(Old) + 1
      <3>1. /\ IsFiniteSet(Old \cup {new})
            /\ Cardinality(Old \cup {new})
                 = IF new \in Old THEN Cardinality(Old) ELSE Cardinality(Old) + 1
        BY <2>1, FS_AddElement
      <3> QED
        BY <2>1, <3>1
    <2>5. IsFiniteSet(Now) /\ Cardinality(Now) <= Cardinality(Old \cup {new})
      BY <2>3, <2>4, FS_Subset
    <2>6. Cardinality(Now) \in Nat /\ rate'[b].count \in Nat
      BY <1>1, <2>5, FS_CardinalityType
    <2> QED
      BY <2>1, <2>2, <2>4, <2>5, <2>6
  <1>14. IsFiniteSet(Before) /\ Cardinality(Before) \in Nat /\ Cardinality(Before) <= RateMax
    <2>1. Before = Between(b, s - RateWindow, s - 1)
      <3>1. ~(s - RateWindow <= clock /\ clock <= s - 1)
        BY <1>2, <1>12
      <3> QED
        BY <1>7, <3>1 DEF Before
    <2> HIDE DEF Before
    <2> QED
      BY <1>12, <2>1, BetweenFinite DEF RateInv
  <1>15. WindowInv(b)'
    <2>1. Cardinality(Now) <= RateMax
      BY <1>1, <1>2, <1>13
    <2>2. Opened(b)' = s /\ clock' = now /\ s \in 0..now
      BY <1>1, <1>10, <1>12
    <2> QED
      BY <1>1, <1>13, <1>14, <2>1, <2>2 DEF WindowInv
  <1>16. ASSUME NEW t \in 0..MaxClock
         PROVE  Cardinality(Between(b, t, t + RateWindow)') <= 2 * RateMax
    <2>1. CASE ~(t <= clock /\ clock <= t + RateWindow)
      <3>1. Between(b, t, t + RateWindow)' = Between(b, t, t + RateWindow)
        BY <1>7, <2>1
      <3> QED
        BY <3>1 DEF RateInv
    <2>2. CASE t <= clock /\ clock <= t + RateWindow
      <3> DEFINE Both == Between(b, t, t + RateWindow)'
      <3>1. Both \subseteq Now \cup Before
        <4>1. ASSUME NEW p \in Both PROVE p \in Now \cup Before
          <5>1. p \in All' /\ t <= p[1]
            BY <1>6, <4>1
          <5>2. p[1] \in 0..clock
            <6>1. CASE p \in All
              <7>1. p \in Between(b, t, t + RateWindow)
                BY <1>5, <1>6, <4>1, <6>1
              <7> QED
                BY <7>1, BetweenIs DEF RateInv
            <6>2. CASE p = new
              BY <1>2, <1>4, <6>2
            <6> QED
              BY <1>4, <5>1, <6>1, <6>2
          <5>3. CASE s <= p[1]
            <6>1. p[1] <= now
              BY <1>2, <1>10, <5>2
            <6> QED
              BY <1>6, <5>1, <5>3, <6>1
          <5>4. CASE ~(s <= p[1])
            <6>1. s - RateWindow <= p[1] /\ p[1] <= s - 1
              BY <1>2, <1>12, <2>2, <5>1, <5>2, <5>4
            <6> QED
              BY <1>6, <5>1, <6>1
          <5> QED
            BY <5>3, <5>4
        <4> QED
          BY <4>1
      <3> HIDE DEF Both, Now, Before
      <3>2. /\ IsFiniteSet(Now \cup Before)
            /\ Cardinality(Now \cup Before) =
                 Cardinality(Now) + Cardinality(Before) - Cardinality(Now \cap Before)
            /\ Cardinality(Now \cap Before) \in Nat
        <4>1. IsFiniteSet(Now \cap Before)
          BY <1>13, FS_Intersection
        <4> QED
          BY <1>13, <1>14, <4>1, FS_Union, FS_CardinalityType
      <3>3. IsFiniteSet(Both) /\ Cardinality(Both) <= Cardinality(Now \cup Before)
        BY <3>1, <3>2, FS_Subset
      <3>4. Cardinality(Both) \in Nat
        BY <3>3, FS_CardinalityType
      <3>5. Cardinality(Both) <= 2 * RateMax
        BY <1>1, <1>2, <1>13, <1>14, <3>2, <3>3, <3>4
      <3> QED
        BY <3>5 DEF Both
    <2> QED
      BY <2>1, <2>2
  <1> QED
    BY <1>8, <1>9, <1>15, <1>16 DEF RateInv

LEMMA RateStep == WebInv /\ RateInv /\ [RequestsNext]_requestVars => RateInv'
  <1> SUFFICES ASSUME WebInv, RateInv, [RequestsNext]_requestVars PROVE RateInv'
    OBVIOUS
  <1>1. ASSUME NEW c \in Conns, Block(c) PROVE RateInv'
    <2>1. CountRequest(c) /\ UNCHANGED passes /\ IsAt(c, "entered")
      BY <1>1 DEF Block, CountRequest
    <2>2. conn[c].client \in Clients
      BY <2>1, OpenTyped DEF WebInv, OwnersInv, IsAt, Open, Free, Served
    <2> QED
      BY <2>1, <2>2, BlockKeepsRate
  <1>2. ASSUME NEW c \in Conns, NEW g, Pass(c, g) PROVE RateInv'
    <2>1. /\ CountRequest(c) /\ IsAt(c, "entered")
          /\ Counted(conn[c].client).count <= RateMax
          /\ passes' = [passes EXCEPT ![conn[c].client][clock] = @ + 1]
      BY <1>2 DEF Pass, CountRequest
    <2>2. conn[c].client \in Clients
      BY <2>1, OpenTyped DEF WebInv, OwnersInv, IsAt, Open, Free, Served
    <2> QED
      BY <2>1, <2>2, PassKeepsRate
  <1>3. CASE ClockTick
    BY <1>3, TickKeepsRate
  <1>4. CASE UNCHANGED requestVars
    BY <1>4, RateUnchanged DEF requestVars, rates
  <1>5. ASSUME NEW c \in Conns, NEW b \in Clients, Get(c, b) \/ Post(c, b) PROVE RateInv'
    BY <1>5, RateUnchanged DEF Get, Post, Enter, rates
  <1>6. ASSUME NEW c \in Conns, NotRouted(c) \/ UnknownHost(c) PROVE RateInv'
    BY <1>6, RateUnchanged DEF NotRouted, UnknownHost, TurnAway, rates
  <1>7. ASSUME NEW c \in Conns, Refuse(c) \/ Protect(c) \/ Recovery(c) PROVE RateInv'
    BY <1>7, RateUnchanged DEF Refuse, Protect, Recovery, rates
  <1>8. ASSUME NEW c \in Conns, Spawn(c) \/ Reply(c) \/ RenderBegin(c) PROVE RateInv'
    BY <1>8, RateUnchanged DEF Spawn, Reply, RenderBegin, rates
  <1>9. ASSUME NEW c \in Conns, RenderEnd(c) \/ PartialForm(c) \/ Panic(c) PROVE RateInv'
    BY <1>9, RateUnchanged DEF RenderEnd, PartialForm, Panic, rates
  <1>10. ASSUME NEW c \in Conns, PanicLate(c) \/ CompressReturns(c) PROVE RateInv'
    BY <1>10, RateUnchanged DEF PanicLate, CompressReturns, rates
  <1> QED
    BY <1>1, <1>2, <1>3, <1>4, <1>5, <1>6, <1>7, <1>8, <1>9, <1>10 DEF RequestsNext, ServeHTTP

(* Between any two times a window apart an address passes RateLimit at     *)
(* most twice max times (middleware.go, RateLimit), for any number of      *)
(* requests and whatever the limit and the window.                         *)
THEOREM RateHolds == RequestsSpec => []RateLimited
  <1>1. ASSUME RateInv, NEW b \in Clients, NEW t \in 0..MaxClock
        PROVE  Cardinality(Passed(b, (t..t + RateWindow) \cap (0..MaxClock))) <= 2 * RateMax
    <2>1. Passed(b, (t..t + RateWindow) \cap (0..MaxClock)) = Between(b, t, t + RateWindow)
      <3> DEFINE times == (t..t + RateWindow) \cap (0..MaxClock)
      <3>1. MaxClock \in Nat /\ RateWindow \in Nat
        BY RequestsAssumption
      <3>2. \A p : p \in Passed(b, times) <=>
                     \E u \in times : \E i \in 1..passes[b][u] : p = <<u, i>>
        BY DEF Passed
      <3>3. \A p : p \in Passed(b, 0..MaxClock) <=>
                     \E u \in 0..MaxClock : \E i \in 1..passes[b][u] : p = <<u, i>>
        BY DEF Passed
      <3>4. \A p : p \in Passed(b, times) => p \in Between(b, t, t + RateWindow)
        BY <3>1, <3>2, <3>3 DEF Between
      <3>5. ASSUME NEW p \in Between(b, t, t + RateWindow) PROVE p \in Passed(b, times)
        <4>1. /\ p \in Passed(b, 0..MaxClock)
              /\ t <= p[1] /\ p[1] <= t + RateWindow
          BY DEF Between
        <4>2. PICK u \in 0..MaxClock : \E i \in 1..passes[b][u] : p = <<u, i>>
          BY <3>3, <4>1
        <4>3. u \in times
          BY <3>1, <4>1, <4>2
        <4> QED
          BY <3>2, <4>2, <4>3
      <3> QED
        BY <3>4, <3>5
    <2> QED
      BY <1>1, <2>1 DEF RateInv
  <1>2. RateInv => RateLimited
    BY <1>1 DEF RateLimited
  <1>3. RequestsInit => RateInv
    BY RateInitially
  <1>4. RequestsSpec => []RateInv
    BY <1>3, RateStep, RequestsAlways, PTL DEF RequestsSpec
  <1> QED
    BY <1>2, <1>4, PTL

-----------------------------------------------------------------------------
(* The panel.  A right in a stamp was had at most one guard's query before *)
(* the stamp, and the role a guard has read since it read it.              *)

Roles == {"none", "staff", "admin"}
Seen == [role : Roles, at : Nat]

GuardTypes ==
    /\ adminClock \in Nat
    /\ role \in Roles
    /\ had \in [{"staff", "admin"} -> Nat]
    /\ made \in 1..MaxSessions /\ panelCookie \in 0..made
    /\ stamp \in [1..MaxSessions -> Seen]
    /\ at \in [Tabs -> {"idle", "read", "passed", "log"}]
    /\ pass \in [Tabs -> Seen]
    /\ DOMAIN job = Tabs

StampInv(s) ==
    /\ stamp[s].at <= adminClock
    /\ \A r \in Rights(stamp[s].role) : stamp[s].at - had[r] <= GuardTime

PassInv(t) ==
    /\ at[t] = "read" =>
         /\ job[t].session \in 1..MaxSessions
         /\ pass[t].at <= adminClock /\ adminClock - pass[t].at <= GuardTime
         /\ \A r \in Rights(pass[t].role) : pass[t].at <= had[r]
    /\ at[t] = "passed" =>
         \A r \in Rights(pass[t].role) : pass[t].at - had[r] < StaffCheckTTL + GuardTime

GuardInv ==
    /\ GuardTypes
    /\ \A r \in {"staff", "admin"} : had[r] <= adminClock
    /\ \A r \in Rights(role) : had[r] = adminClock
    /\ \A s \in 1..MaxSessions : StampInv(s)
    /\ \A t \in Tabs : PassInv(t)

(* What the history says of a row, and what it will say once the tabs that *)
(* have executed a statement have recorded it.                             *)
Recorded(pk) == {e \in history : e.pk = pk}
Entry(pk, j) == [pk |-> pk, action |-> j.action, changes |-> Redacted(j.changes)]
Writers(pk) == {t \in Tabs : at[t] = "log" /\ pk \in job[t].pks}
Entries(pk) == Recorded(pk) \cup {Entry(pk, job[t]) : t \in Writers(pk)}

Accounts(pk, row, entries) ==
    IF row = Absent
    THEN \/ InitRows[pk] = Absent /\ \A e \in entries : e.action # "create"
         \/ \E e \in entries : e.action = "delete"
    ELSE \A f \in {x \in Fields : ~FilledByDatabase(x)} :
           \/ InitRows[pk] # Absent /\ row[f] = InitRows[pk][f]
           \/ \E e \in entries : \/ e.action = "bulk" /\ Kind[f] = "plain"
                                 \/ f \in DOMAIN e.changes
                                      /\ e.changes[f] \in {row[f], Stars, Address}

(* A form shows the row that it was opened on.                             *)
FormInv(t) ==
    form[t] # NoForm =>
        /\ form[t].pk \in Pks /\ form[t].base \in TableRows
        /\ form[t].posted = [f \in Fields |-> FormatInput(f, form[t].base[f])]

PanelTypes ==
    /\ adminClock \in Int
    /\ at \in [Tabs -> {"idle", "read", "passed", "log"}]
    /\ DOMAIN job = Tabs /\ DOMAIN form = Tabs
    /\ rows \in [Pks -> TableRows \cup {Absent}]
    /\ \A t \in Tabs : at[t] = "log" => job[t].pks \subseteq Pks

Secretive == \A e \in history : \A f \in DOMAIN e.changes : Secret(f) => e.changes[f] = Stars

PanelInv ==
    /\ PanelTypes
    /\ \A t \in Tabs : FormInv(t)
    /\ \A pk \in Pks \ lost : Accounts(pk, rows[pk], Entries(pk))
    /\ Secretive

LEMMA RightsAre == ASSUME NEW r PROVE Rights(r) \subseteq {"staff", "admin"}
  BY DEF Rights

LEMMA GuardInvInit == AdminInit => GuardInv
  <1> SUFFICES ASSUME AdminInit PROVE GuardInv
    OBVIOUS
  <1>1. MaxSessions \in Nat \ {0} /\ GuardTime \in Nat /\ StaffCheckTTL \in Nat \ {0}
    BY AdminAssumption
  <1>2. NoStamp \in Seen /\ [role |-> "admin", at |-> 0] \in Seen /\ NoPass \in Seen
    BY DEF NoStamp, NoPass, Seen, Roles
  <1>3. stamp \in [1..MaxSessions -> Seen] /\ \A s \in 1..MaxSessions : stamp[s].at = 0
    BY <1>1, <1>2 DEF AdminInit, NoStamp
  <1>4. GuardTypes
    BY <1>1, <1>2, <1>3 DEF AdminInit, GuardTypes, Roles
  <1>5. \A r \in {"staff", "admin"} : had[r] = 0
    BY DEF AdminInit
  <1>6. \A s \in 1..MaxSessions : StampInv(s)
    BY <1>1, <1>3, <1>5, RightsAre DEF StampInv, AdminInit
  <1>7. \A t \in Tabs : PassInv(t)
    BY DEF AdminInit, PassInv
  <1> QED
    BY <1>4, <1>5, <1>6, <1>7, RightsAre DEF GuardInv, AdminInit

(* Time passes or the role changes: the rights that the user has now are   *)
(* had from then on, and none is had at an earlier time than before.       *)
LEMMA OutsideKeeps ==
    ASSUME GuardInv, UNCHANGED <<session, tabState>>,
           adminClock' \in Nat, adminClock <= adminClock', role' \in Roles,
           \A t \in Tabs : at[t] = "read" => adminClock' - pass[t].at <= GuardTime,
           had' \in [{"staff", "admin"} -> Nat],
           \A r \in {"staff", "admin"} : had[r] <= had'[r] /\ had'[r] <= adminClock',
           \A r \in Rights(role') : had'[r] = adminClock'
    PROVE  GuardInv'
  <1>1. UNCHANGED <<panelCookie, made, stamp, at, pass, job>>
    BY DEF session, tabState
  <1>2. /\ GuardTypes /\ adminClock \in Nat /\ GuardTime \in Nat
        /\ StaffCheckTTL \in Nat
    BY AdminAssumption DEF GuardInv, GuardTypes
  <1>3. GuardTypes'
    BY <1>1, <1>2 DEF GuardTypes
  <1>4. ASSUME NEW s \in 1..MaxSessions PROVE StampInv(s)'
    <2>1. /\ stamp[s].at \in Nat /\ stamp[s].at <= adminClock
          /\ \A r \in Rights(stamp[s].role) :
               stamp[s].at - had[r] <= GuardTime /\ had[r] \in Nat /\ had'[r] \in Nat
      BY <1>2, RightsAre DEF GuardInv, StampInv, GuardTypes, Seen
    <2>2. \A r \in Rights(stamp[s].role) : stamp[s].at - had'[r] <= GuardTime
      BY <1>2, <2>1, RightsAre
    <2> QED
      BY <1>1, <1>2, <2>1, <2>2 DEF StampInv
  <1>5. ASSUME NEW t \in Tabs PROVE PassInv(t)'
    <2>1. /\ PassInv(t) /\ pass[t].at \in Nat
          /\ \A r \in Rights(pass[t].role) : had[r] \in Nat /\ had'[r] \in Nat /\ had[r] <= had'[r]
      BY <1>2, RightsAre DEF GuardInv, GuardTypes, Seen
    <2>2. CASE at[t] = "read"
      BY <1>1, <1>2, <2>1, <2>2 DEF PassInv
    <2>3. CASE at[t] = "passed"
      BY <1>1, <1>2, <2>1, <2>3 DEF PassInv
    <2>4. CASE at[t] \notin {"read", "passed"}
      BY <1>1, <2>4 DEF PassInv
    <2> QED
      BY <2>2, <2>3, <2>4
  <1> QED
    BY <1>3, <1>4, <1>5 DEF GuardInv

(* A tab leaves the guard, or what it has been let in for.                 *)
LEMMA LeavesKeep ==
    ASSUME GuardInv, NEW t \in Tabs, NEW place \in {"idle", "log"},
           at' = [at EXCEPT ![t] = place],
           pass' \in [Tabs -> Seen], DOMAIN job' = Tabs,
           \A u \in Tabs \ {t} : pass'[u] = pass[u] /\ job'[u] = job[u],
           UNCHANGED <<adminClock, role, had, stamp, made>>, panelCookie' \in 0..made
    PROVE  GuardInv'
  <1>1. GuardTypes'
    BY DEF GuardInv, GuardTypes
  <1>2. \A s \in 1..MaxSessions : StampInv(s)'
    BY DEF GuardInv, StampInv
  <1>3. ASSUME NEW u \in Tabs PROVE PassInv(u)'
    <2>1. CASE u = t
      <3>1. at'[u] = place
        BY <2>1 DEF GuardInv, GuardTypes
      <3> QED
        BY <3>1 DEF PassInv
    <2>2. CASE u # t
      <3>1. at'[u] = at[u] /\ pass'[u] = pass[u] /\ job'[u] = job[u]
        BY <2>2 DEF GuardInv, GuardTypes
      <3> QED
        BY <3>1 DEF GuardInv, PassInv
    <2> QED
      BY <2>1, <2>2
  <1> QED
    BY <1>1, <1>2, <1>3 DEF GuardInv

LEMMA FinishKeeps ==
    ASSUME GuardInv, NEW t \in Tabs, Finish(t), DOMAIN job' = Tabs,
           \A u \in Tabs \ {t} : job'[u] = job[u],
           UNCHANGED <<adminClock, role, had, stamp, made>>, panelCookie' \in 0..made
    PROVE  GuardInv'
  <1>1. pass' = [pass EXCEPT ![t] = NoPass] /\ at' = [at EXCEPT ![t] = "idle"]
    BY DEF Finish
  <1>2. NoPass \in Seen
    BY DEF NoPass, Seen, Roles
  <1>3. pass' \in [Tabs -> Seen] /\ \A u \in Tabs \ {t} : pass'[u] = pass[u]
    BY <1>1, <1>2 DEF GuardInv, GuardTypes
  <1> QED
    BY <1>1, <1>3, LeavesKeep

LEMMA ExecuteKeeps ==
    ASSUME GuardInv, NEW t \in Tabs, NEW action, NEW pks, NEW changes, NEW touched,
           Execute(t, action, pks, changes, touched)
    PROVE  GuardInv'
  <1>1. /\ at' = [at EXCEPT ![t] = "log"] /\ UNCHANGED <<pass, adminClock, role, had, session>>
        /\ job' = [job EXCEPT ![t] =
             [action |-> action, pks |-> pks, changes |-> changes, touched |-> touched]]
    BY DEF Execute, OnlyRequest
  <1>2. UNCHANGED <<stamp, made, panelCookie>>
    BY <1>1 DEF session
  <1>3. pass' \in [Tabs -> Seen] /\ DOMAIN job' = Tabs /\ panelCookie' \in 0..made
    BY <1>1, <1>2 DEF GuardInv, GuardTypes
  <1>4. \A u \in Tabs \ {t} : pass'[u] = pass[u] /\ job'[u] = job[u]
    BY <1>1 DEF GuardInv, GuardTypes
  <1> QED
    BY <1>1, <1>2, <1>3, <1>4, LeavesKeep

(* A stamp younger than staffCheckTTL, taken for what the role is now.     *)
LEMMA CachedKeeps ==
    ASSUME GuardInv, NEW t \in Tabs, GuardCached(t)
    PROVE  GuardInv'
  <1>1. /\ at' = [at EXCEPT ![t] = "passed"]
        /\ pass' = [pass EXCEPT ![t] = [role |-> stamp[panelCookie].role, at |-> adminClock]]
        /\ UNCHANGED <<adminClock, role, had, panelCookie, made, stamp, job>>
        /\ panelCookie # 0 /\ adminClock - stamp[panelCookie].at < StaffCheckTTL
    BY DEF GuardCached, Trusted, Stay
  <1>2. /\ GuardTypes /\ adminClock \in Nat /\ GuardTime \in Nat /\ StaffCheckTTL \in Nat
        /\ MaxSessions \in Nat
    BY AdminAssumption DEF GuardInv, GuardTypes
  <1>3. panelCookie \in 1..MaxSessions
    BY <1>1, <1>2 DEF GuardTypes
  <1>4. /\ stamp[panelCookie].role \in Roles /\ stamp[panelCookie].at \in Nat
        /\ StampInv(panelCookie)
    BY <1>2, <1>3 DEF GuardInv, GuardTypes, Seen
  <1>5. [role |-> stamp[panelCookie].role, at |-> adminClock] \in Seen
    BY <1>2, <1>4 DEF Seen
  <1>6. GuardTypes'
    BY <1>1, <1>2, <1>5 DEF GuardTypes
  <1>7. \A s \in 1..MaxSessions : StampInv(s)'
    BY <1>1 DEF GuardInv, StampInv
  <1>8. ASSUME NEW u \in Tabs PROVE PassInv(u)'
    <2>1. CASE u = t
      <3>1. /\ at'[u] = "passed" /\ pass'[u].role = stamp[panelCookie].role
            /\ pass'[u].at = adminClock
        BY <1>1, <1>2, <2>1 DEF GuardTypes
      <3>2. ASSUME NEW r \in Rights(stamp[panelCookie].role)
            PROVE  adminClock - had[r] < StaffCheckTTL + GuardTime
        <4>1. stamp[panelCookie].at - had[r] <= GuardTime /\ had[r] \in Nat
          BY <1>2, <1>4, RightsAre DEF StampInv, GuardTypes
        <4> QED
          BY <1>1, <1>2, <1>4, <4>1
      <3> QED
        BY <1>1, <3>1, <3>2 DEF PassInv
    <2>2. CASE u # t
      <3>1. at'[u] = at[u] /\ pass'[u] = pass[u] /\ job'[u] = job[u]
        BY <1>1, <1>2, <2>2 DEF GuardTypes
      <3> QED
        BY <1>1, <3>1 DEF GuardInv, PassInv
    <2> QED
      BY <2>1, <2>2
  <1> QED
    BY <1>1, <1>6, <1>7, <1>8 DEF GuardInv

LEMMA ReadKeeps ==
    ASSUME GuardInv, NEW t \in Tabs, GuardRead(t)
    PROVE  GuardInv'
  <1>1. /\ at' = [at EXCEPT ![t] = "read"]
        /\ pass' = [pass EXCEPT ![t] = [role |-> role, at |-> adminClock]]
        /\ job' = [job EXCEPT ![t] = [action |-> "guard", session |-> panelCookie]]
        /\ UNCHANGED <<adminClock, role, had, panelCookie, made, stamp>>
        /\ panelCookie # 0
    BY DEF GuardRead, session
  <1>2. GuardTypes /\ adminClock \in Nat /\ GuardTime \in Nat /\ MaxSessions \in Nat
    BY AdminAssumption DEF GuardInv, GuardTypes
  <1>3. panelCookie \in 1..MaxSessions
    BY <1>1, <1>2 DEF GuardTypes
  <1>4. [role |-> role, at |-> adminClock] \in Seen
    BY <1>2 DEF GuardTypes, Seen
  <1>5. GuardTypes'
    BY <1>1, <1>2, <1>4 DEF GuardTypes
  <1>6. \A s \in 1..MaxSessions : StampInv(s)'
    BY <1>1 DEF GuardInv, StampInv
  <1>7. ASSUME NEW u \in Tabs PROVE PassInv(u)'
    <2>1. CASE u = t
      <3>1. /\ at'[u] = "read" /\ pass'[u].role = role /\ pass'[u].at = adminClock
            /\ job'[u].session = panelCookie
        BY <1>1, <1>2, <2>1 DEF GuardTypes
      <3>2. \A r \in Rights(role) : had[r] = adminClock
        BY DEF GuardInv
      <3> QED
        BY <1>1, <1>2, <1>3, <3>1, <3>2 DEF PassInv
    <2>2. CASE u # t
      <3>1. at'[u] = at[u] /\ pass'[u] = pass[u] /\ job'[u] = job[u]
        BY <1>1, <1>2, <2>2 DEF GuardTypes
      <3> QED
        BY <1>1, <3>1 DEF GuardInv, PassInv
    <2> QED
      BY <2>1, <2>2
  <1> QED
    BY <1>1, <1>5, <1>6, <1>7 DEF GuardInv

LEMMA StampKeeps ==
    ASSUME GuardInv, NEW t \in Tabs, GuardStamp(t)
    PROVE  GuardInv'
  <1> DEFINE fresh == [role |-> pass[t].role, at |-> adminClock]
             here == job[t].session
  <1>1. /\ at[t] = "read" /\ at' = [at EXCEPT ![t] = "passed"]
        /\ stamp' = [stamp EXCEPT ![here] = fresh]
        /\ pass' = [pass EXCEPT ![t].at = adminClock]
        /\ job' = [job EXCEPT ![t] = NoJob]
        /\ UNCHANGED <<adminClock, role, had, panelCookie, made>>
    BY DEF GuardStamp
  <1>2. /\ GuardTypes /\ adminClock \in Nat /\ GuardTime \in Nat /\ StaffCheckTTL \in Nat \ {0}
    BY AdminAssumption DEF GuardInv, GuardTypes
  <1>3. /\ pass[t] = [role |-> pass[t].role, at |-> pass[t].at]
        /\ pass[t].role \in Roles /\ pass[t].at \in Nat
    BY <1>2 DEF GuardTypes, Seen
  <1>4. fresh \in Seen /\ fresh.role = pass[t].role /\ fresh.at = adminClock
    BY <1>2, <1>3 DEF Seen
  <1>5. here \in 1..MaxSessions /\ adminClock - pass[t].at <= GuardTime
        /\ \A r \in Rights(pass[t].role) : pass[t].at <= had[r] /\ had[r] \in Nat
    BY <1>1, <1>2, RightsAre DEF GuardInv, PassInv, GuardTypes
  <1>6. pass' = [pass EXCEPT ![t] = fresh]
    <2>1. [pass[t] EXCEPT !.at = adminClock] = fresh
      BY <1>3
    <2> QED
      BY <1>1, <2>1
  <1>7. \A r \in Rights(fresh.role) : adminClock - had[r] <= GuardTime
    BY <1>2, <1>3, <1>4, <1>5
  <1> HIDE DEF fresh, here
  <1>8. GuardTypes'
    BY <1>1, <1>2, <1>4, <1>5, <1>6 DEF GuardTypes
  <1>9. ASSUME NEW s \in 1..MaxSessions PROVE StampInv(s)'
    <2>1. CASE s = here
      <3>1. stamp'[s] = fresh
        BY <1>1, <1>2, <2>1 DEF GuardTypes
      <3> QED
        BY <1>1, <1>2, <1>4, <1>7, <3>1 DEF StampInv
    <2>2. CASE s # here
      <3>1. stamp'[s] = stamp[s]
        BY <1>1, <1>2, <2>2 DEF GuardTypes
      <3> QED
        BY <1>1, <3>1 DEF GuardInv, StampInv
    <2> QED
      BY <2>1, <2>2
  <1>10. ASSUME NEW u \in Tabs PROVE PassInv(u)'
    <2>1. CASE u = t
      <3>1. at'[u] = "passed" /\ pass'[u] = fresh
        BY <1>1, <1>2, <1>6, <2>1 DEF GuardTypes
      <3>2. \A r \in Rights(fresh.role) : adminClock - had[r] < StaffCheckTTL + GuardTime
        BY <1>2, <1>4, <1>5, <1>7
      <3> QED
        BY <1>1, <1>4, <3>1, <3>2 DEF PassInv
    <2>2. CASE u # t
      <3>1. at'[u] = at[u] /\ pass'[u] = pass[u] /\ job'[u] = job[u]
        BY <1>1, <1>2, <1>6, <2>2 DEF GuardTypes
      <3> QED
        BY <1>1, <3>1 DEF GuardInv, PassInv
    <2> QED
      BY <2>1, <2>2
  <1> QED
    BY <1>1, <1>8, <1>9, <1>10 DEF GuardInv

LEMMA GuardInvNext == GuardInv /\ [AdminNext]_adminVars => GuardInv'
  <1> SUFFICES ASSUME GuardInv, [AdminNext]_adminVars PROVE GuardInv'
    OBVIOUS
  <1>1. /\ GuardTypes /\ adminClock \in Nat /\ GuardTime \in Nat /\ MaxSessions \in Nat
        /\ made \in Nat /\ DOMAIN job = Tabs /\ panelCookie \in 0..made
    BY AdminAssumption DEF GuardInv, GuardTypes
  <1>2. CASE ClockTicks
    <2>1. /\ adminClock' = adminClock + 1 /\ UNCHANGED <<role, session, tabState>>
          /\ had' = Held(adminClock + 1)
          /\ \A t \in Tabs : at[t] = "read" => adminClock - pass[t].at < GuardTime
      BY <1>2 DEF ClockTicks
    <2>2. \A t \in Tabs : at[t] = "read" => adminClock' - pass[t].at <= GuardTime
      <3>1. \A t \in Tabs : pass[t].at \in Nat
        BY <1>1 DEF GuardTypes, Seen
      <3> QED
        BY <1>1, <2>1, <3>1
    <2>3. had \in [{"staff", "admin"} -> Nat] /\ \A r \in {"staff", "admin"} : had[r] <= adminClock
      BY <1>1 DEF GuardInv, GuardTypes
    <2>4. /\ had' \in [{"staff", "admin"} -> Nat]
          /\ \A r \in {"staff", "admin"} : had'[r] = IF r \in Rights(role) THEN adminClock + 1
                                                     ELSE had[r]
      BY <1>1, <2>1, <2>3 DEF Held
    <2>5. \A r \in {"staff", "admin"} : had[r] <= had'[r] /\ had'[r] <= adminClock'
      BY <1>1, <2>1, <2>3, <2>4
    <2>6. \A r \in Rights(role') : had'[r] = adminClock'
      BY <2>1, <2>4, RightsAre
    <2>7. adminClock' \in Nat /\ adminClock <= adminClock' /\ role' \in Roles
      BY <1>1, <2>1 DEF GuardTypes
    <2> QED
      BY <2>1, <2>2, <2>4, <2>5, <2>6, <2>7, OutsideKeeps
  <1>3. ASSUME NEW r \in Roles, SetRole(r) PROVE GuardInv'
    <2>1. /\ role' = r /\ UNCHANGED <<adminClock, session, tabState>>
          /\ had' = [x \in DOMAIN had |-> IF x \in Rights(r) THEN adminClock ELSE had[x]]
      BY <1>3 DEF SetRole
    <2>2. \A t \in Tabs : at[t] = "read" => adminClock' - pass[t].at <= GuardTime
      BY <2>1 DEF GuardInv, PassInv
    <2>3. had \in [{"staff", "admin"} -> Nat] /\ \A x \in {"staff", "admin"} : had[x] <= adminClock
      BY <1>1 DEF GuardInv, GuardTypes
    <2>4. /\ had' \in [{"staff", "admin"} -> Nat]
          /\ \A x \in {"staff", "admin"} : had'[x] = IF x \in Rights(r) THEN adminClock ELSE had[x]
      BY <1>1, <2>1, <2>3
    <2>5. \A x \in {"staff", "admin"} : had[x] <= had'[x] /\ had'[x] <= adminClock'
      BY <1>1, <2>1, <2>3, <2>4
    <2>6. \A x \in Rights(role') : had'[x] = adminClock'
      BY <2>1, <2>4, RightsAre
    <2> QED
      BY <1>1, <2>1, <2>2, <2>4, <2>5, <2>6, OutsideKeeps
  <1>4. CASE LoginSubmit
    <2>1. /\ UNCHANGED <<adminClock, role, had, stamp, at, pass, job>>
          /\ made' = made + 1 /\ made < MaxSessions /\ panelCookie' \in {0, made'}
      BY <1>4 DEF LoginSubmit, tabState
    <2>2. GuardTypes'
      BY <1>1, <2>1 DEF GuardTypes
    <2> QED
      BY <2>1, <2>2 DEF GuardInv, StampInv, PassInv
  <1>5. ASSUME NEW t \in Tabs, GuardCached(t) \/ GuardRead(t) \/ GuardStamp(t) PROVE GuardInv'
    BY <1>5, CachedKeeps, ReadKeeps, StampKeeps
  <1>6. ASSUME NEW t \in Tabs,
               GuardRefuses(t) \/ Logout(t) \/ Show(t) \/ EditForm(t) \/ BulkActionFails(t)
                 \/ LogHistory(t) \/ LogFails(t)
        PROVE  GuardInv'
    <2>1. Finish(t) /\ (UNCHANGED job \/ job' = [job EXCEPT ![t] = NoJob])
      BY <1>6 DEF GuardRefuses, Logout, Show, EditForm, BulkActionFails, LogHistory, LogFails
    <2>2. UNCHANGED <<adminClock, role, had, stamp, made>> /\ panelCookie' \in {0, panelCookie}
      BY <1>6 DEF GuardRefuses, Logout, Show, EditForm, BulkActionFails, LogHistory, LogFails,
                  OnlyRequest, session
    <2>3. DOMAIN job' = Tabs /\ \A u \in Tabs \ {t} : job'[u] = job[u]
      BY <1>1, <2>1
    <2>4. panelCookie' \in 0..made
      BY <1>1, <2>2
    <2> QED
      BY <2>1, <2>2, <2>3, <2>4, FinishKeeps
  <1>7. ASSUME NEW t \in Tabs,
               CreateRow(t) \/ UpdateRow(t) \/ DeleteRow(t) \/ BulkAction(t)
        PROVE  GuardInv'
    BY <1>7, ExecuteKeeps DEF CreateRow, UpdateRow, DeleteRow, BulkAction
  <1>8. CASE UNCHANGED adminVars
    BY <1>8 DEF adminVars, GuardInv, GuardTypes, StampInv, PassInv
  <1> QED
    BY <1>2, <1>3, <1>4, <1>5, <1>6, <1>7, <1>8 DEF AdminNext, Roles

(* Nobody passes the guard with a right lost for longer than staffCheckTTL *)
(* and the time of one guard's own query (admin.go, requireStaff), however *)
(* many tabs and sessions there are.                                       *)
THEOREM LostRightsExpire == AdminSpec => []RightsExpire
  <1>1. GuardInv => RightsExpire
    BY DEF GuardInv, PassInv, RightsExpire
  <1> QED
    BY <1>1, GuardInvInit, GuardInvNext, PTL DEF AdminSpec

-----------------------------------------------------------------------------
LEMMA LeastOfTwo == ASSUME NEW a \in Int, NEW b \in Int PROVE Min({a, b}) = IF a <= b THEN a ELSE b
  <1> DEFINE m == IF a <= b THEN a ELSE b
  <1>1. m \in {a, b} /\ \A y \in {a, b} : m <= y
    OBVIOUS
  <1>2. \A x \in {a, b} : (\A y \in {a, b} : x <= y) => x = m
    OBVIOUS
  <1> HIDE DEF m
  <1> QED
    BY <1>1, <1>2 DEF Min

(* What a form shows of a row of the table.                                *)
LEMMA SelectedIs ==
    ASSUME NEW v \in Values
    PROVE  Selected(v) \in Values /\ (v # Blank => Selected(v) = v)
  <1>1. Targets \in Seq(Range(Targets)) /\ OptionsLimit \in Nat
    BY AdminAssumption
  <1>2. FetchFKOptions # {} => Targets[1] \in Values
    <2>1. ASSUME FetchFKOptions # {} PROVE 1 \in DOMAIN Targets
      <3>1. Len(Targets) \in Nat /\ DOMAIN Targets = 1..Len(Targets)
        BY <1>1
      <3>2. PICK i \in 1..Min({OptionsLimit, Len(Targets)}) : TRUE
        BY <2>1 DEF FetchFKOptions
      <3>3. Min({OptionsLimit, Len(Targets)}) \in {OptionsLimit, Len(Targets)}
            /\ Min({OptionsLimit, Len(Targets)}) <= Len(Targets)
        BY <1>1, <3>1, LeastOfTwo
      <3> QED
        BY <1>1, <3>1, <3>2, <3>3
    <2> QED
      BY <2>1 DEF Values, Range
  <1>3. Blank \in Values
    BY DEF Values
  <1> QED
    BY <1>2, <1>3 DEF Selected, OptionsOf

LEMMA ShownIs ==
    ASSUME NEW row \in TableRows, NEW f \in Fields
    PROVE  /\ FormatInput(f, row[f]) \in Values
           /\ Kind[f] \in {"hash", "image"} => FormatInput(f, row[f]) = Blank
           /\ Kind[f] = "datetime" => FormatInput(f, row[f]) = Floor(row[f] + Zone)
           /\ Kind[f] \in Times => FormatInput(f, row[f]) \in Int
           /\ Kind[f] \notin {"hash", "image", "datetime"} /\ (Kind[f] # "fk" \/ row[f] # Blank)
                => FormatInput(f, row[f]) = row[f]
  <1>1. row[f] \in Values /\ (Kind[f] \in Times => row[f] \in Int)
    BY DEF TableRows
  <1>2. Blank \in Values /\ Int \subseteq Values
    BY DEF Values
  <1>3. CASE Kind[f] \in {"hash", "image"}
    BY <1>2, <1>3 DEF FormatInput, Times
  <1>4. CASE Kind[f] = "datetime"
    <2>1. FormatInput(f, row[f]) = Floor(row[f] + Zone)
      BY <1>4 DEF FormatInput
    <2>2. Floor(row[f] + Zone) \in Int
      <3>1. Minute \in Nat \ {0} /\ row[f] + Zone \in Int
        BY <1>1, <1>4, AdminAssumption DEF Times
      <3>2. (row[f] + Zone) % Minute \in Int
        BY <3>1
      <3> QED
        BY <3>1, <3>2 DEF Floor
    <2> QED
      BY <1>2, <1>4, <2>1, <2>2
  <1>5. CASE Kind[f] = "fk"
    <2>1. FormatInput(f, row[f]) = Selected(row[f])
      BY <1>5 DEF FormatInput
    <2> QED
      BY <1>1, <1>5, <2>1, SelectedIs DEF Times
  <1>6. CASE Kind[f] \notin {"hash", "image", "datetime", "fk"}
    <2>1. FormatInput(f, row[f]) = row[f]
      BY <1>6 DEF FormatInput
    <2> QED
      BY <1>1, <1>6, <2>1
  <1> QED
    BY <1>3, <1>4, <1>5, <1>6

LEMMA PanelInvInit == AdminInit => PanelInv
  <1> SUFFICES ASSUME AdminInit PROVE PanelInv
    OBVIOUS
  <1>1. PanelTypes
    BY AdminAssumption DEF AdminInit, PanelTypes
  <1>2. \A t \in Tabs : FormInv(t)
    BY DEF AdminInit, FormInv
  <1>3. ASSUME NEW pk \in Pks PROVE Accounts(pk, rows[pk], Entries(pk))
    <2>1. rows = InitRows /\ Entries(pk) = {}
      BY DEF AdminInit, Entries, Recorded, Writers
    <2> QED
      BY <2>1 DEF Accounts
  <1>4. Secretive
    BY DEF AdminInit, Secretive
  <1> QED
    BY <1>1, <1>2, <1>3, <1>4 DEF PanelInv

(* Which entries there are, or will be, does not depend on the tabs that   *)
(* have executed nothing.                                                  *)
LEMMA EntriesStay ==
    ASSUME NEW pk, UNCHANGED history,
           \A u \in Tabs : at'[u] = "log" <=> at[u] = "log",
           \A u \in Tabs : at[u] = "log" => job'[u] = job[u]
    PROVE  Entries(pk)' = Entries(pk)
  <1>1. Writers(pk)' = Writers(pk)
    BY DEF Writers
  <1>2. \A u \in Writers(pk) : job'[u] = job[u]
    BY DEF Writers
  <1>3. {Entry(pk, job[u]) : u \in Writers(pk)}' = {Entry(pk, job[u]) : u \in Writers(pk)}
    BY <1>1, <1>2
  <1>4. Recorded(pk)' = Recorded(pk)
    BY DEF Recorded
  <1> QED
    BY <1>3, <1>4 DEF Entries

(* A step that neither executes nor records a statement.                   *)
LEMMA PanelStays ==
    ASSUME PanelInv, UNCHANGED <<rows, history, lost>>, adminClock' \in Int,
           at' \in [Tabs -> {"idle", "read", "passed", "log"}],
           DOMAIN job' = Tabs, DOMAIN form' = Tabs, \A u \in Tabs : FormInv(u)',
           \A u \in Tabs : at'[u] = "log" <=> at[u] = "log",
           \A u \in Tabs : at[u] = "log" => job'[u] = job[u]
    PROVE  PanelInv'
  <1>1. PanelTypes'
    BY DEF PanelInv, PanelTypes
  <1>2. \A pk : Entries(pk)' = Entries(pk)
    BY EntriesStay
  <1>3. ASSUME NEW pk \in Pks \ lost' PROVE Accounts(pk, rows[pk], Entries(pk))'
    <2>1. Accounts(pk, rows[pk], Entries(pk))
      BY DEF PanelInv
    <2> QED
      BY <1>2, <2>1 DEF Accounts
  <1>4. Secretive'
    BY DEF PanelInv, Secretive
  <1> QED
    BY <1>1, <1>3, <1>4 DEF PanelInv

(* A statement has been executed: the entry it is to get accounts for what *)
(* it has done to its rows.                                                *)
LEMMA ExecuteAccounts ==
    ASSUME PanelInv, NEW t \in Tabs, NEW action, NEW pks \in SUBSET Pks, NEW changes, NEW touched,
           at[t] = "passed", Execute(t, action, pks, changes, touched),
           rows' \in [Pks -> TableRows \cup {Absent}],
           \A pk \in Pks \ pks : rows'[pk] = rows[pk],
           \A pk \in pks \ lost :
             Accounts(pk, rows'[pk],
               Entries(pk) \cup {[pk |-> pk, action |-> action, changes |-> Redacted(changes)]}),
           DOMAIN form' = Tabs, \A u \in Tabs : FormInv(u)'
    PROVE  PanelInv'
  <1> DEFINE done == [action |-> action, pks |-> pks, changes |-> changes, touched |-> touched]
  <1>1. /\ at' = [at EXCEPT ![t] = "log"] /\ job' = [job EXCEPT ![t] = done]
        /\ UNCHANGED <<history, lost, adminClock>>
    BY DEF Execute, OnlyRequest
  <1>2. at \in [Tabs -> {"idle", "read", "passed", "log"}] /\ DOMAIN job = Tabs
    BY DEF PanelInv, PanelTypes
  <1>3. done.pks = pks /\ done.action = action /\ done.changes = changes
    OBVIOUS
  <1> HIDE DEF done
  <1>4. /\ at'[t] = "log" /\ job'[t] = done
        /\ \A u \in Tabs \ {t} : at'[u] = at[u] /\ job'[u] = job[u]
    BY <1>1, <1>2
  <1>5. PanelTypes'
    BY <1>1, <1>2, <1>3, <1>4 DEF PanelInv, PanelTypes
  <1>6. ASSUME NEW pk \in Pks \ lost' PROVE Accounts(pk, rows'[pk], Entries(pk)')
    <2>1. Recorded(pk)' = Recorded(pk)
      BY <1>1 DEF Recorded
    <2>2. CASE pk \in pks
      <3>1. Writers(pk)' = Writers(pk) \cup {t}
        BY <1>3, <1>4, <2>2 DEF Writers
      <3>2. t \notin Writers(pk)
        BY DEF Writers
      <3>3. \A u \in Writers(pk) : job'[u] = job[u]
        BY <1>4, <3>2 DEF Writers
      <3>4. {Entry(pk, job[u]) : u \in Writers(pk)}'
              = {Entry(pk, job[u]) : u \in Writers(pk)} \cup {Entry(pk, done)}
        BY <1>4, <3>1, <3>3
      <3>5. Entry(pk, done) = [pk |-> pk, action |-> action, changes |-> Redacted(changes)]
        BY <1>3 DEF Entry
      <3>6. Entries(pk)' = Entries(pk)
              \cup {[pk |-> pk, action |-> action, changes |-> Redacted(changes)]}
        BY <2>1, <3>4, <3>5 DEF Entries
      <3> QED
        BY <1>1, <2>2, <3>6
    <2>3. CASE pk \notin pks
      <3>1. Writers(pk)' = Writers(pk) /\ t \notin Writers(pk)
        BY <1>3, <1>4, <2>3 DEF Writers
      <3>2. \A u \in Writers(pk) : job'[u] = job[u]
        BY <1>4, <3>1 DEF Writers
      <3>3. {Entry(pk, job[u]) : u \in Writers(pk)}' = {Entry(pk, job[u]) : u \in Writers(pk)}
        BY <3>1, <3>2
      <3>4. Entries(pk)' = Entries(pk) /\ rows'[pk] = rows[pk]
        BY <2>1, <2>3, <3>3 DEF Entries
      <3> QED
        BY <1>1, <3>4 DEF PanelInv
    <2> QED
      BY <2>2, <2>3
  <1>7. Secretive'
    BY <1>1 DEF PanelInv, Secretive
  <1> QED
    BY <1>5, <1>6, <1>7 DEF PanelInv

(* More entries account for as much, unless one says it was made.          *)
LEMMA AccountsGrow ==
    ASSUME NEW pk, NEW row, NEW few, NEW entry, Accounts(pk, row, few), entry.action # "create"
    PROVE  Accounts(pk, row, few \cup {entry})
  BY DEF Accounts

(* The guard, its refusals and the pages that only read.                   *)
LEMMA GuardsKeepPanel ==
    ASSUME PanelInv, NEW t \in Tabs,
           GuardCached(t) \/ GuardRead(t) \/ GuardStamp(t) \/ GuardRefuses(t) \/ Logout(t)
             \/ Show(t)
    PROVE  PanelInv'
  <1>1. /\ at[t] \in {"idle", "read", "passed"}
        /\ \E place \in {"idle", "read", "passed"} : at' = [at EXCEPT ![t] = place]
        /\ UNCHANGED job \/ \E new : job' = [job EXCEPT ![t] = new]
        /\ UNCHANGED <<form, rows, history, lost, adminClock>>
    BY DEF GuardCached, GuardRead, GuardStamp, GuardRefuses, Logout, Show, Finish, data,
           OnlyRequest
  <1>2. /\ at \in [Tabs -> {"idle", "read", "passed", "log"}]
        /\ DOMAIN job = Tabs /\ DOMAIN form = Tabs
    BY DEF PanelInv, PanelTypes
  <1>3. /\ at' \in [Tabs -> {"idle", "read", "passed", "log"}] /\ DOMAIN job' = Tabs
        /\ at'[t] # "log" /\ at[t] # "log"
        /\ \A u \in Tabs \ {t} : at'[u] = at[u] /\ job'[u] = job[u]
    BY <1>1, <1>2
  <1>4. \A u \in Tabs : FormInv(u)'
    BY <1>1 DEF PanelInv, FormInv
  <1> QED
    BY <1>1, <1>2, <1>3, <1>4, PanelStays DEF PanelInv, PanelTypes

LEMMA EditFormKeepsPanel ==
    ASSUME PanelInv, NEW t \in Tabs, EditForm(t)
    PROVE  PanelInv'
  <1>1. PICK pk \in Pks :
           /\ rows[pk] # Absent
           /\ form' = [form EXCEPT ![t] = [pk |-> pk, base |-> rows[pk],
                         posted |-> [f \in Fields |-> FormatInput(f, rows[pk][f])]]]
    BY DEF EditForm
  <1>2. /\ at[t] = "passed" /\ at' = [at EXCEPT ![t] = "idle"]
        /\ UNCHANGED <<job, rows, history, lost, adminClock>>
    BY DEF EditForm, Finish, data, OnlyRequest
  <1>3. /\ at \in [Tabs -> {"idle", "read", "passed", "log"}]
        /\ DOMAIN job = Tabs /\ DOMAIN form = Tabs /\ rows[pk] \in TableRows
    BY <1>1 DEF PanelInv, PanelTypes
  <1>4. ASSUME NEW u \in Tabs PROVE FormInv(u)'
    <2>1. CASE u = t
      <3>1. form'[u] = [pk |-> pk, base |-> rows[pk],
                        posted |-> [f \in Fields |-> FormatInput(f, rows[pk][f])]]
        BY <1>1, <1>3, <2>1
      <3>2. /\ form'[u].pk = pk /\ form'[u].base = rows[pk]
            /\ form'[u].posted = [f \in Fields |-> FormatInput(f, rows[pk][f])]
        BY <3>1
      <3> QED
        BY <1>3, <3>2 DEF FormInv
    <2>2. CASE u # t
      <3>1. form'[u] = form[u]
        BY <1>1, <1>3, <2>2
      <3> QED
        BY <3>1 DEF PanelInv, FormInv
    <2> QED
      BY <2>1, <2>2
  <1>5. /\ at' \in [Tabs -> {"idle", "read", "passed", "log"}] /\ DOMAIN form' = Tabs
        /\ \A u \in Tabs : at'[u] = "log" <=> at[u] = "log"
    BY <1>1, <1>2, <1>3
  <1> QED
    BY <1>2, <1>3, <1>4, <1>5, PanelStays DEF PanelInv, PanelTypes

(* What the database makes of a row that is inserted or updated.           *)
LEMMA InsertedIs ==
    ASSUME PanelInv, NEW new \in TableRows
    PROVE  /\ Inserted(new) \in TableRows
           /\ \A f \in Fields : ~FilledByDatabase(f) => Inserted(new)[f] = new[f]
  <1>1. adminClock \in Int /\ Int \subseteq Values
    BY DEF PanelInv, PanelTypes, Values
  <1>2. ASSUME NEW f \in Fields
        PROVE  /\ Inserted(new)[f] \in Values
               /\ Kind[f] \in Times => Inserted(new)[f] \in Int
               /\ ~FilledByDatabase(f) => Inserted(new)[f] = new[f]
    <2>1. /\ new[f] \in Values /\ (Kind[f] \in Times => new[f] \in Int)
          /\ Defaults[f] \in Values /\ (Kind[f] \in Times => Defaults[f] \in Int)
      BY AdminAssumption DEF TableRows
    <2>2. Inserted(new)[f] \in {adminClock, Defaults[f], new[f]}
          /\ (~FilledByDatabase(f) => Inserted(new)[f] = new[f])
      BY DEF Inserted, FilledByDatabase
    <2> QED
      BY <1>1, <2>1, <2>2
  <1>3. Inserted(new) = [f \in Fields |-> Inserted(new)[f]]
    BY DEF Inserted
  <1>4. Inserted(new) \in [Fields -> Values]
    BY <1>2, <1>3
  <1> QED
    BY <1>2, <1>4 DEF TableRows

LEMMA UpdatedIs ==
    ASSUME PanelInv, NEW row \in TableRows, NEW values, DOMAIN values \subseteq Fields,
           \A f \in DOMAIN values : values[f] \in Values /\ (Kind[f] \in Times => values[f] \in Int)
    PROVE  /\ Updated(row, values) \in TableRows
           /\ \A f \in Fields :
                Updated(row, values)[f] = IF Kind[f] = "autonow" THEN adminClock
                                          ELSE IF f \in DOMAIN values THEN values[f] ELSE row[f]
  <1>1. adminClock \in Int /\ Int \subseteq Values
    BY DEF PanelInv, PanelTypes, Values
  <1>2. \A f \in Fields : row[f] \in Values /\ (Kind[f] \in Times => row[f] \in Int)
    BY DEF TableRows
  <1>3. \A f \in Fields :
           Updated(row, values)[f] = IF Kind[f] = "autonow" THEN adminClock
                                     ELSE IF f \in DOMAIN values THEN values[f] ELSE row[f]
    BY DEF Updated
  <1>4. \A f \in Fields : /\ Updated(row, values)[f] \in Values
                          /\ Kind[f] \in Times => Updated(row, values)[f] \in Int
    BY <1>1, <1>2, <1>3
  <1>5. Updated(row, values) = [f \in Fields |-> Updated(row, values)[f]]
    BY DEF Updated
  <1>6. Updated(row, values) \in [Fields -> Values]
    BY <1>4, <1>5
  <1> QED
    BY <1>3, <1>4, <1>6 DEF TableRows

LEMMA CreateKeepsPanel ==
    ASSUME PanelInv, NEW t \in Tabs, CreateRow(t)
    PROVE  PanelInv'
  <1>1. PICK pk \in Pks, new \in NewRows :
           rows' = [rows EXCEPT ![pk] = Inserted(new)] /\ Execute(t, "create", {pk}, new, {})
    BY DEF CreateRow, FreshKeys
  <1>2. at[t] = "passed" /\ UNCHANGED form
    BY DEF CreateRow
  <1> DEFINE row == Inserted(new)
  <1>3. /\ new \in TableRows /\ row \in TableRows /\ row # Absent
        /\ \A f \in Fields : ~FilledByDatabase(f) => row[f] = new[f]
    BY AdminAssumption, InsertedIs
  <1>4. rows \in [Pks -> TableRows \cup {Absent}] /\ DOMAIN form = Tabs
    BY DEF PanelInv, PanelTypes
  <1>5. /\ rows' \in [Pks -> TableRows \cup {Absent}] /\ rows'[pk] = row
        /\ \A other \in Pks \ {pk} : rows'[other] = rows[other]
    BY <1>1, <1>3, <1>4
  <1> DEFINE entry == [pk |-> pk, action |-> "create", changes |-> Redacted(new)]
  <1> HIDE DEF row
  <1>6. Accounts(pk, row, Entries(pk) \cup {entry})
    <2>1. ASSUME NEW f \in Fields, ~FilledByDatabase(f)
          PROVE  f \in DOMAIN entry.changes /\ entry.changes[f] \in {row[f], Stars, Address}
      BY <1>3, <2>1 DEF Redacted, TableRows
    <2> HIDE DEF entry
    <2> QED
      BY <1>3, <2>1 DEF Accounts
  <1>7. \A u \in Tabs : FormInv(u)'
    BY <1>2 DEF PanelInv, FormInv
  <1> QED
    BY <1>1, <1>2, <1>4, <1>5, <1>6, <1>7, ExecuteAccounts

(* A form that is saved: what is posted of each field, and what the row    *)
(* becomes.                                                                *)
Posted(t, touch) ==
    [f \in Fields |-> IF f = touch.field THEN touch.input ELSE form[t].posted[f]]

LEMMA SavedIs ==
    ASSUME PanelInv, NEW t \in Tabs, form[t] # NoForm,
           NEW touch \in Touches \cup {[field |-> Absent, input |-> Blank]}, Accepted(touch)
    PROVE  /\ DOMAIN Written(Posted(t, touch)) \subseteq Fields
           /\ \A f \in DOMAIN Written(Posted(t, touch)) :
                Written(Posted(t, touch))[f] = Posted(t, touch)[f]
           /\ \A f \in DOMAIN Written(Posted(t, touch)) :
                /\ Written(Posted(t, touch))[f] \in Values
                /\ Kind[f] \in Times => Written(Posted(t, touch))[f] \in Int
           /\ \A f \in Fields \ {touch.field} :
                Posted(t, touch)[f] = FormatInput(f, form[t].base[f])
  <1>1. form[t].base \in TableRows
        /\ form[t].posted = [f \in Fields |-> FormatInput(f, form[t].base[f])]
    BY DEF PanelInv, FormInv
  <1>2. \A f \in Fields \ {touch.field} : Posted(t, touch)[f] = FormatInput(f, form[t].base[f])
    BY <1>1 DEF Posted
  <1>3. ASSUME NEW f \in Fields
        PROVE  /\ Posted(t, touch)[f] \in Values
               /\ Kind[f] \in Times => Posted(t, touch)[f] \in Int
    <2>1. CASE f = touch.field
      <3>1. touch \in Touches
        <4>1. CASE touch = [field |-> Absent, input |-> Blank]
          BY <2>1, <4>1, AdminAssumption
        <4> QED
          BY <4>1
      <3>2. Posted(t, touch)[f] = touch.input /\ touch.input # Bad
        BY <2>1 DEF Posted, Accepted
      <3>3. touch.input \in Values
        BY <3>1 DEF Values
      <3>4. Kind[f] \in Times => Kind[f] = "datetime"
        BY <2>1, <3>1, AdminAssumption DEF ReadOnly, Times
      <3> QED
        BY <2>1, <3>1, <3>2, <3>3, <3>4, AdminAssumption
    <2>2. CASE f # touch.field
      BY <1>1, <1>2, <2>2, ShownIs
    <2> QED
      BY <2>1, <2>2
  <1>4. /\ DOMAIN Written(Posted(t, touch)) \subseteq Fields
        /\ \A f \in DOMAIN Written(Posted(t, touch)) :
             Written(Posted(t, touch))[f] = Posted(t, touch)[f]
    BY DEF Written
  <1> QED
    BY <1>2, <1>3, <1>4

LEMMA UpdateIs ==
    ASSUME PanelInv, NEW t \in Tabs, UpdateRow(t)
    PROVE  /\ at[t] = "passed" /\ form[t] # NoForm /\ form[t].pk \in Pks
           /\ form' = [form EXCEPT ![t] = NoForm]
           /\ \E touch \in Touches \cup {[field |-> Absent, input |-> Blank]} :
                /\ Accepted(touch)
                /\ rows' = [rows EXCEPT ![form[t].pk] =
                     IF @ = Absent THEN Absent ELSE Updated(@, Written(Posted(t, touch)))]
                /\ Execute(t, "update", {form[t].pk}, Written(Posted(t, touch)), {touch.field})
  BY DEF UpdateRow, Posted, PanelInv, FormInv

LEMMA UpdateKeepsPanel ==
    ASSUME PanelInv, NEW t \in Tabs, UpdateRow(t)
    PROVE  PanelInv'
  <1>1. /\ at[t] = "passed" /\ form[t] # NoForm /\ form[t].pk \in Pks
        /\ form' = [form EXCEPT ![t] = NoForm]
    BY UpdateIs
  <1>2. PICK touch \in Touches \cup {[field |-> Absent, input |-> Blank]} :
           /\ Accepted(touch)
           /\ rows' = [rows EXCEPT ![form[t].pk] =
                IF @ = Absent THEN Absent ELSE Updated(@, Written(Posted(t, touch)))]
           /\ Execute(t, "update", {form[t].pk}, Written(Posted(t, touch)), {touch.field})
    BY UpdateIs
  <1> DEFINE pk == form[t].pk
             values == Written(Posted(t, touch))
             entry == [pk |-> pk, action |-> "update", changes |-> Redacted(values)]
  <1>3. /\ DOMAIN values \subseteq Fields
        /\ \A f \in DOMAIN values :
             values[f] \in Values /\ (Kind[f] \in Times => values[f] \in Int)
    BY <1>1, <1>2, SavedIs
  <1>4. DOMAIN entry.changes = DOMAIN values
        /\ \A f \in DOMAIN values : entry.changes[f] \in {values[f], Stars, Address}
    BY DEF Redacted
  <1>5. entry.action = "update"
    OBVIOUS
  <1>6. rows \in [Pks -> TableRows \cup {Absent}] /\ DOMAIN form = Tabs
        /\ (pk \notin lost => Accounts(pk, rows[pk], Entries(pk)))
    BY <1>1 DEF PanelInv, PanelTypes
  <1>7. Execute(t, "update", {pk}, values, {touch.field})
        /\ rows' = [rows EXCEPT ![pk] = IF rows[pk] = Absent THEN Absent
                                        ELSE Updated(rows[pk], values)]
    BY <1>2
  <1> HIDE DEF values, entry, pk
  <1>8. /\ rows' \in [Pks -> TableRows \cup {Absent}]
        /\ rows'[pk] = IF rows[pk] = Absent THEN Absent ELSE Updated(rows[pk], values)
        /\ \A other \in Pks \ {pk} : rows'[other] = rows[other]
    <2>1. \A row \in TableRows : Updated(row, values) \in TableRows
      BY <1>3, UpdatedIs
    <2> QED
      BY <1>1, <1>6, <1>7, <2>1 DEF pk
  <1>9. ASSUME pk \notin lost PROVE Accounts(pk, rows'[pk], Entries(pk) \cup {entry})
    <2>1. CASE rows[pk] = Absent
      BY <1>5, <1>6, <1>8, <1>9, <2>1, AccountsGrow
    <2>2. CASE rows[pk] # Absent
      <3>1. rows[pk] \in TableRows
        BY <1>1, <1>6, <2>2 DEF pk
      <3>2. /\ rows'[pk] # Absent
            /\ \A f \in Fields : Kind[f] # "autonow" =>
                 rows'[pk][f] = IF f \in DOMAIN values THEN values[f] ELSE rows[pk][f]
        BY <1>3, <1>8, <2>2, <3>1, UpdatedIs, AdminAssumption
      <3>3. ASSUME NEW f \in Fields, ~FilledByDatabase(f)
            PROVE  \/ InitRows[pk] # Absent /\ rows'[pk][f] = InitRows[pk][f]
                   \/ \E e \in Entries(pk) \cup {entry} :
                        \/ e.action = "bulk" /\ Kind[f] = "plain"
                        \/ f \in DOMAIN e.changes
                             /\ e.changes[f] \in {rows'[pk][f], Stars, Address}
        <4>0. Kind[f] # "autonow"
          BY <3>3 DEF FilledByDatabase
        <4>1. CASE f \in DOMAIN values
          <5>1. rows'[pk][f] = values[f]
            BY <3>2, <4>0, <4>1
          <5> QED
            BY <1>4, <4>1, <5>1
        <4>2. CASE f \notin DOMAIN values
          <5>1. rows'[pk][f] = rows[pk][f]
            BY <3>2, <4>0, <4>2
          <5> QED
            BY <1>6, <1>9, <2>2, <3>3, <5>1 DEF Accounts
        <4> QED
          BY <4>1, <4>2
      <3> QED
        BY <3>2, <3>3 DEF Accounts
    <2> QED
      BY <2>1, <2>2
  <1>10. ASSUME NEW u \in Tabs PROVE FormInv(u)'
    <2>1. form'[u] = NoForm \/ form'[u] = form[u]
      BY <1>1, <1>6
    <2> QED
      BY <2>1 DEF PanelInv, FormInv
  <1>11. {pk} \in SUBSET Pks /\ DOMAIN form' = Tabs
    BY <1>1, <1>6 DEF pk
  <1>12. \A k \in {pk} \ lost :
           Accounts(k, rows'[k],
             Entries(k) \cup {[pk |-> k, action |-> "update", changes |-> Redacted(values)]})
    BY <1>9 DEF entry
  <1> QED
    BY <1>1, <1>7, <1>8, <1>10, <1>11, <1>12, ExecuteAccounts

LEMMA DeleteKeepsPanel ==
    ASSUME PanelInv, NEW t \in Tabs, DeleteRow(t)
    PROVE  PanelInv'
  <1>1. PICK pks \in (SUBSET Pks) \ {{}} :
           /\ rows' = [pk \in Pks |-> IF pk \in pks THEN Absent ELSE rows[pk]]
           /\ Execute(t, "delete", pks, NoChanges, {})
    BY DEF DeleteRow
  <1>2. at[t] = "passed" /\ UNCHANGED form
    BY DEF DeleteRow
  <1>3. rows \in [Pks -> TableRows \cup {Absent}] /\ DOMAIN form = Tabs
    BY DEF PanelInv, PanelTypes
  <1>4. /\ rows' \in [Pks -> TableRows \cup {Absent}]
        /\ \A pk \in Pks \ pks : rows'[pk] = rows[pk]
        /\ \A pk \in pks : rows'[pk] = Absent
    BY <1>1, <1>3
  <1>5. \A pk \in pks \ lost :
           Accounts(pk, rows'[pk], Entries(pk) \cup
             {[pk |-> pk, action |-> "delete", changes |-> Redacted(NoChanges)]})
    BY <1>4 DEF Accounts
  <1>6. \A u \in Tabs : FormInv(u)'
    BY <1>2 DEF PanelInv, FormInv
  <1> QED
    BY <1>1, <1>2, <1>3, <1>4, <1>5, <1>6, ExecuteAccounts

LEMMA MarkedIs ==
    ASSUME PanelInv, NEW pks \in SUBSET Pks, NEW touch \in Markings
    PROVE  /\ Marked(pks, touch) \in [Pks -> TableRows \cup {Absent}]
           /\ \A pk \in Pks \ pks : Marked(pks, touch)[pk] = rows[pk]
           /\ \A pk \in Pks : rows[pk] = Absent => Marked(pks, touch)[pk] = Absent
           /\ \A pk \in Pks : rows[pk] # Absent =>
                /\ Marked(pks, touch)[pk] # Absent
                /\ \A f \in Fields : Kind[f] \notin {"plain", "autonow"} =>
                     Marked(pks, touch)[pk][f] = rows[pk][f]
  <1>1. touch \in Touches /\ touch.field \in Fields /\ Kind[touch.field] = "plain"
        /\ touch.input \in Values
    BY AdminAssumption DEF Markings, Values
  <1>2. rows \in [Pks -> TableRows \cup {Absent}]
    BY DEF PanelInv, PanelTypes
  <1>3. ASSUME NEW pk \in Pks, rows[pk] # Absent
        PROVE  /\ Marked(pks, touch)[pk] \in TableRows
               /\ \A f \in Fields : f # touch.field /\ Kind[f] # "autonow" =>
                    Marked(pks, touch)[pk][f] = rows[pk][f]
    <2>1. rows[pk] \in TableRows
      BY <1>2, <1>3
    <2>2. CASE pk \in pks
      <3> DEFINE values == [f \in {touch.field} |-> touch.input]
      <3>1. Marked(pks, touch)[pk] = Updated(rows[pk], values)
        BY <1>3, <2>2 DEF Marked
      <3>2. /\ DOMAIN values = {touch.field}
            /\ values[touch.field] \in Values /\ Kind[touch.field] \notin Times
        BY <1>1 DEF Times
      <3> HIDE DEF values
      <3> QED
        BY <1>1, <2>1, <3>1, <3>2, UpdatedIs
    <2>3. CASE pk \notin pks
      BY <2>1, <2>3 DEF Marked
    <2> QED
      BY <2>2, <2>3
  <1>4. \A pk \in Pks : rows[pk] = Absent => Marked(pks, touch)[pk] = Absent
    BY DEF Marked
  <1>5. Marked(pks, touch) \in [Pks -> TableRows \cup {Absent}]
    <2>1. Marked(pks, touch) = [pk \in Pks |-> Marked(pks, touch)[pk]]
      BY DEF Marked
    <2>2. \A pk \in Pks : Marked(pks, touch)[pk] \in TableRows \cup {Absent}
      BY <1>3, <1>4
    <2> QED
      BY <2>1, <2>2
  <1>6. \A pk \in Pks \ pks : Marked(pks, touch)[pk] = rows[pk]
    BY DEF Marked
  <1> QED
    BY <1>1, <1>3, <1>4, <1>5, <1>6, AdminAssumption

LEMMA BulkKeepsPanel ==
    ASSUME PanelInv, NEW t \in Tabs, BulkAction(t)
    PROVE  PanelInv'
  <1>1. PICK pks \in (SUBSET (Pks \ Restricted)) \ {{}}, touch \in Markings :
           rows' = Marked(pks, touch) /\ Execute(t, "bulk", pks, NoChanges, {})
    BY DEF BulkAction
  <1>2. at[t] = "passed" /\ UNCHANGED form /\ pks \in SUBSET Pks /\ DOMAIN form = Tabs
    BY DEF BulkAction, PanelInv, PanelTypes
  <1>3. /\ rows' \in [Pks -> TableRows \cup {Absent}]
        /\ \A pk \in Pks \ pks : rows'[pk] = rows[pk]
        /\ \A pk \in Pks : rows[pk] = Absent => rows'[pk] = Absent
        /\ \A pk \in Pks : rows[pk] # Absent =>
             /\ rows'[pk] # Absent
             /\ \A f \in Fields : Kind[f] \notin {"plain", "autonow"} =>
                  rows'[pk][f] = rows[pk][f]
    <2> DEFINE new == Marked(pks, touch)
    <2>1. /\ new \in [Pks -> TableRows \cup {Absent}]
          /\ \A pk \in Pks \ pks : new[pk] = rows[pk]
          /\ \A pk \in Pks : rows[pk] = Absent => new[pk] = Absent
          /\ \A pk \in Pks : rows[pk] # Absent =>
               /\ new[pk] # Absent
               /\ \A f \in Fields : Kind[f] \notin {"plain", "autonow"} =>
                    new[pk][f] = rows[pk][f]
      BY <1>2, MarkedIs
    <2>2. rows' = new
      BY <1>1
    <2> HIDE DEF new
    <2> QED
      BY <2>1, <2>2
  <1>4. ASSUME NEW pk \in pks \ lost, NEW entry, entry.action = "bulk"
        PROVE  Accounts(pk, rows'[pk], Entries(pk) \cup {entry})
    <2>1. pk \in Pks /\ Accounts(pk, rows[pk], Entries(pk))
      BY <1>2 DEF PanelInv
    <2>2. CASE rows[pk] = Absent
      BY <1>3, <1>4, <2>1, <2>2, AccountsGrow
    <2>3. CASE rows[pk] # Absent
      <3>1. ASSUME NEW f \in Fields, ~FilledByDatabase(f)
            PROVE  \/ InitRows[pk] # Absent /\ rows'[pk][f] = InitRows[pk][f]
                   \/ \E e \in Entries(pk) \cup {entry} :
                        \/ e.action = "bulk" /\ Kind[f] = "plain"
                        \/ f \in DOMAIN e.changes
                             /\ e.changes[f] \in {rows'[pk][f], Stars, Address}
        <4>1. CASE Kind[f] = "plain"
          BY <1>4, <4>1
        <4>2. CASE Kind[f] # "plain"
          <5>1. rows'[pk][f] = rows[pk][f]
            BY <1>3, <2>1, <2>3, <3>1, <4>2 DEF FilledByDatabase
          <5> QED
            BY <2>1, <2>3, <3>1, <5>1 DEF Accounts
        <4> QED
          BY <4>1, <4>2
      <3> QED
        BY <1>3, <2>1, <2>3, <3>1 DEF Accounts
    <2> QED
      BY <2>2, <2>3
  <1>5. \A pk \in pks \ lost :
           Accounts(pk, rows'[pk], Entries(pk) \cup
             {[pk |-> pk, action |-> "bulk", changes |-> Redacted(NoChanges)]})
    BY <1>4
  <1>6. \A u \in Tabs : FormInv(u)'
    BY <1>2 DEF PanelInv, FormInv
  <1> QED
    BY <1>1, <1>2, <1>3, <1>5, <1>6, ExecuteAccounts

(* A tab that finishes: of the rows it takes along nothing is claimed.     *)
LEMMA LosesKeep ==
    ASSUME PanelInv, NEW t \in Tabs, Finish(t), UNCHANGED <<form, history, adminClock>>,
           UNCHANGED job \/ job' = [job EXCEPT ![t] = NoJob],
           NEW pks, lost' = lost \cup pks, at[t] = "log" => job[t].pks \subseteq pks,
           rows' \in [Pks -> TableRows \cup {Absent}],
           \A pk \in Pks \ pks : rows'[pk] = rows[pk]
    PROVE  PanelInv'
  <1>1. at' = [at EXCEPT ![t] = "idle"]
    BY DEF Finish
  <1>2. /\ at \in [Tabs -> {"idle", "read", "passed", "log"}]
        /\ DOMAIN job = Tabs /\ DOMAIN form = Tabs
    BY DEF PanelInv, PanelTypes
  <1>3. /\ at'[t] = "idle" /\ \A u \in Tabs \ {t} : at'[u] = at[u] /\ job'[u] = job[u]
        /\ DOMAIN job' = Tabs
    BY <1>1, <1>2
  <1>4. PanelTypes'
    BY <1>1, <1>2, <1>3 DEF PanelInv, PanelTypes
  <1>5. ASSUME NEW pk \in Pks \ lost' PROVE Accounts(pk, rows'[pk], Entries(pk)')
    <2>1. pk \notin pks /\ pk \notin lost
      OBVIOUS
    <2>2. Writers(pk)' = Writers(pk) /\ t \notin Writers(pk)
      BY <1>3, <2>1 DEF Writers
    <2>3. \A u \in Writers(pk) : job'[u] = job[u]
      BY <1>3, <2>2 DEF Writers
    <2>4. {Entry(pk, job[u]) : u \in Writers(pk)}' = {Entry(pk, job[u]) : u \in Writers(pk)}
      BY <2>2, <2>3
    <2>5. Entries(pk)' = Entries(pk)
      BY <2>4 DEF Entries, Recorded
    <2> QED
      BY <2>1, <2>5 DEF PanelInv
  <1>6. \A u \in Tabs : FormInv(u)'
    BY DEF PanelInv, FormInv
  <1>7. Secretive'
    BY DEF PanelInv, Secretive
  <1> QED
    BY <1>4, <1>5, <1>6, <1>7 DEF PanelInv

LEMMA LogKeepsPanel ==
    ASSUME PanelInv, NEW t \in Tabs, LogHistory(t)
    PROVE  PanelInv'
  <1> DEFINE mine == {Entry(pk, job[t]) : pk \in job[t].pks}
  <1>1. /\ at[t] = "log" /\ at' = [at EXCEPT ![t] = "idle"]
        /\ job' = [job EXCEPT ![t] = NoJob]
        /\ UNCHANGED <<form, rows, lost, adminClock>>
        /\ history' = history \cup mine
    BY DEF LogHistory, Finish, Entry, Logged, OnlyRequest
  <1>2. /\ at \in [Tabs -> {"idle", "read", "passed", "log"}]
        /\ DOMAIN job = Tabs /\ DOMAIN form = Tabs
    BY DEF PanelInv, PanelTypes
  <1>3. /\ at'[t] = "idle" /\ \A u \in Tabs \ {t} : at'[u] = at[u] /\ job'[u] = job[u]
        /\ DOMAIN job' = Tabs
    BY <1>1, <1>2
  <1>4. \A e \in mine : \E pk \in job[t].pks : e = Entry(pk, job[t]) /\ e.pk = pk
    BY DEF Entry
  <1>5. \A e \in mine : \A f \in DOMAIN e.changes : Secret(f) => e.changes[f] = Stars
    <2>1. \A changes : \A f \in DOMAIN Redacted(changes) :
             Secret(f) => Redacted(changes)[f] = Stars
      BY DEF Redacted
    <2>2. \A e \in mine : e.changes = Redacted(job[t].changes)
      BY DEF Entry
    <2> HIDE DEF mine
    <2> QED
      BY <2>1, <2>2
  <1>6. \A pk \in job[t].pks : Entry(pk, job[t]) \in mine
    OBVIOUS
  <1> HIDE DEF mine
  <1>7. PanelTypes'
    BY <1>1, <1>2, <1>3 DEF PanelInv, PanelTypes
  <1>8. ASSUME NEW pk \in Pks PROVE Entries(pk)' = Entries(pk)
    <2>1. Writers(pk)' = Writers(pk) \ {t}
      BY <1>3 DEF Writers
    <2>2. \A u \in Writers(pk) \ {t} : job'[u] = job[u]
      BY <1>3 DEF Writers
    <2>3. {Entry(pk, job[u]) : u \in Writers(pk)}'
            = {Entry(pk, job[u]) : u \in Writers(pk) \ {t}}
      BY <2>1, <2>2
    <2>4. CASE pk \in job[t].pks
      <3>1. t \in Writers(pk)
        BY <1>1, <2>4 DEF Writers
      <3>2. Recorded(pk)' = Recorded(pk) \cup {Entry(pk, job[t])}
        <4>1. Entry(pk, job[t]) \in mine /\ Entry(pk, job[t]).pk = pk
          BY <1>6, <2>4 DEF Entry
        <4>2. \A e \in mine : e.pk = pk => e = Entry(pk, job[t])
          BY <1>4
        <4> QED
          BY <1>1, <4>1, <4>2 DEF Recorded
      <3> QED
        BY <2>3, <3>1, <3>2 DEF Entries
    <2>5. CASE pk \notin job[t].pks
      <3>1. t \notin Writers(pk)
        BY <2>5 DEF Writers
      <3>2. Recorded(pk)' = Recorded(pk)
        BY <1>1, <1>4, <2>5 DEF Recorded
      <3>3. Writers(pk) \ {t} = Writers(pk)
        BY <3>1
      <3> QED
        BY <2>3, <3>2, <3>3 DEF Entries
    <2> QED
      BY <2>4, <2>5
  <1>9. ASSUME NEW pk \in Pks \ lost' PROVE Accounts(pk, rows'[pk], Entries(pk)')
    BY <1>1, <1>8 DEF PanelInv
  <1>10. \A u \in Tabs : FormInv(u)'
    BY <1>1 DEF PanelInv, FormInv
  <1>11. Secretive'
    BY <1>1, <1>5 DEF PanelInv, Secretive
  <1> QED
    BY <1>7, <1>9, <1>10, <1>11 DEF PanelInv

LEMMA PanelInvNext == PanelInv /\ [AdminNext]_adminVars => PanelInv'
  <1> SUFFICES ASSUME PanelInv, [AdminNext]_adminVars PROVE PanelInv'
    OBVIOUS
  <1>1. PanelTypes
    BY DEF PanelInv
  <1>2. ASSUME UNCHANGED <<at, job, form, data>>, adminClock' \in {adminClock, adminClock + 1}
        PROVE  PanelInv'
    <2>1. \A u \in Tabs : FormInv(u)'
      BY <1>2 DEF PanelInv, FormInv
    <2> QED
      BY <1>1, <1>2, <2>1, PanelStays DEF PanelTypes, data
  <1>3. CASE ClockTicks \/ LoginSubmit \/ \E r \in Roles : SetRole(r)
    BY <1>2, <1>3 DEF ClockTicks, LoginSubmit, SetRole, tabState
  <1>4. ASSUME NEW t \in Tabs, BulkActionFails(t) PROVE PanelInv'
    <2>1. PICK pks \in (SUBSET (Pks \ Restricted)) \ {{}}, touch \in Markings :
             rows' = Marked(pks, touch) /\ lost' = lost \cup pks
      BY <1>4 DEF BulkActionFails
    <2>2. Finish(t) /\ UNCHANGED <<job, form, history, adminClock>> /\ at[t] = "passed"
      BY <1>4 DEF BulkActionFails, OnlyRequest
    <2>3. pks \in SUBSET Pks
      OBVIOUS
    <2>4. /\ rows' \in [Pks -> TableRows \cup {Absent}]
          /\ \A pk \in Pks \ pks : rows'[pk] = rows[pk]
      BY <2>1, <2>3, MarkedIs
    <2> QED
      BY <2>1, <2>2, <2>4, LosesKeep
  <1>5. ASSUME NEW t \in Tabs, LogFails(t) PROVE PanelInv'
    <2>1. /\ Finish(t) /\ UNCHANGED <<form, rows, history, adminClock>>
          /\ lost' = lost \cup job[t].pks /\ job' = [job EXCEPT ![t] = NoJob]
      BY <1>5 DEF LogFails, OnlyRequest
    <2> QED
      BY <1>1, <2>1, LosesKeep DEF PanelTypes
  <1>6. CASE UNCHANGED adminVars
    BY <1>2, <1>6 DEF adminVars, data
  <1> QED
    BY <1>3, <1>4, <1>5, <1>6, GuardsKeepPanel, EditFormKeepsPanel, CreateKeepsPanel,
       UpdateKeepsPanel, DeleteKeepsPanel, BulkKeepsPanel, LogKeepsPanel DEF AdminNext, Roles

LEMMA PanelAlways == AdminSpec => []PanelInv
  BY PanelInvInit, PanelInvNext, PTL DEF AdminSpec

(* Each value in the table is one it began with or one that an entry of    *)
(* the history accounts for, with the value, the stars of a secret or the  *)
(* address of an optional one; of the columns that the database fills      *)
(* nothing is said.  And no entry tells a secret (handlers.go, history.go, *)
(* orm/query.go), for any tabs, rows, fields, tags and forms.              *)
THEOREM HistoryIsComplete == AdminSpec => []HistoryAccounts
  <1>1. ASSUME PanelInv, NEW pk \in Pks \ lost,
               \A t \in Tabs : at[t] = "log" => pk \notin job[t].pks
        PROVE  Accounts(pk, rows[pk], {e \in history : e.pk = pk})
    <2>1. Writers(pk) = {}
      BY <1>1 DEF Writers
    <2>2. Entries(pk) = {e \in history : e.pk = pk}
      BY <2>1 DEF Entries, Recorded
    <2> QED
      BY <1>1, <2>2 DEF PanelInv
  <1>2. PanelInv => HistoryAccounts
    BY <1>1 DEF HistoryAccounts, Accounts, PanelInv, Secretive
  <1> QED
    BY <1>2, PanelAlways, PTL

(* A form that is saved leaves alone the fields that the user has not      *)
(* touched (handlers.go, formData and handleUpdate), whatever the fields,  *)
(* their kinds, the targets of a foreign key and the limit of its options, *)
(* but for a foreign key that was empty, which becomes the first option,   *)
(* the seconds and the zone of a datetime and the columns that the UPDATE  *)
(* sets by itself (autonow).                                               *)
THEOREM SavedFormsKeepTheRest == AdminSpec => UntouchedFieldsStay
  <1> DEFINE StaysOrAsNamed(f, before, after) ==
        CASE Kind[f] = "autonow" -> after = adminClock
          [] Kind[f] = "datetime" -> after = Floor(before + Zone)
          [] Kind[f] = "fk" /\ before = Blank -> after = Selected(Blank)
          [] OTHER -> after = before
      LeavesTheRest ==
        \A t \in Tabs : Saving(t) /\ form[t].base = rows[form[t].pk] =>
          \A f \in Untouched(t) : StaysOrAsNamed(f, form[t].base[f], rows'[form[t].pk][f])
  <1>1. ASSUME PanelInv, [AdminNext]_adminVars PROVE [LeavesTheRest]_adminVars
    <2> SUFFICES ASSUME AdminNext, NEW t \in Tabs, Saving(t), form[t].base = rows[form[t].pk],
                        NEW f \in Untouched(t)
                 PROVE  StaysOrAsNamed(f, form[t].base[f], rows'[form[t].pk][f])
      BY <1>1 DEF LeavesTheRest
    <2>1. /\ at \in [Tabs -> {"idle", "read", "passed", "log"}] /\ DOMAIN job = Tabs
          /\ at[t] = "passed" /\ at'[t] = "log" /\ job'[t].action = "update"
      BY <1>1 DEF PanelInv, PanelTypes, Saving
    <2>2. UpdateRow(t)
      <3>1. ASSUME NEW u \in Tabs,
                   GuardCached(u) \/ GuardRead(u) \/ GuardStamp(u) \/ GuardRefuses(u)
                     \/ Logout(u) \/ Show(u) \/ EditForm(u) \/ BulkActionFails(u)
                     \/ LogHistory(u) \/ LogFails(u)
            PROVE  FALSE
        <4>1. \E place \in {"idle", "read", "passed"} : at' = [at EXCEPT ![u] = place]
          BY <3>1 DEF GuardCached, GuardRead, GuardStamp, GuardRefuses, Logout, Show, EditForm,
                      BulkActionFails, LogHistory, LogFails, Finish
        <4> QED
          BY <2>1, <4>1
      <3>2. ASSUME NEW u \in Tabs, CreateRow(u) \/ DeleteRow(u) \/ BulkAction(u)
            PROVE  FALSE
        <4>1. \E action \in {"create", "delete", "bulk"} : \E pks, changes, touched :
                 Execute(u, action, pks, changes, touched)
          BY <3>2 DEF CreateRow, DeleteRow, BulkAction
        <4>2. /\ at' = [at EXCEPT ![u] = "log"]
              /\ \E action \in {"create", "delete", "bulk"} : job'[u].action = action
          BY <2>1, <4>1 DEF Execute
        <4> QED
          BY <2>1, <4>2
      <3>3. ASSUME NEW u \in Tabs, UpdateRow(u), u # t PROVE FALSE
        <4>1. at' = [at EXCEPT ![u] = "log"]
          BY <3>3 DEF UpdateRow, Execute
        <4> QED
          BY <2>1, <3>3, <4>1
      <3>4. CASE ClockTicks \/ LoginSubmit \/ \E r \in Roles : SetRole(r)
        BY <2>1, <3>4 DEF ClockTicks, LoginSubmit, SetRole, tabState
      <3> QED
        BY <3>1, <3>2, <3>3, <3>4 DEF AdminNext, Roles
    <2>3. /\ form[t] # NoForm /\ form[t].pk \in Pks
          /\ \E touch \in Touches \cup {[field |-> Absent, input |-> Blank]} :
               /\ Accepted(touch)
               /\ rows' = [rows EXCEPT ![form[t].pk] =
                    IF @ = Absent THEN Absent ELSE Updated(@, Written(Posted(t, touch)))]
               /\ Execute(t, "update", {form[t].pk}, Written(Posted(t, touch)), {touch.field})
      BY <1>1, <2>2, UpdateIs
    <2>4. PICK touch \in Touches \cup {[field |-> Absent, input |-> Blank]} :
             /\ Accepted(touch)
             /\ rows' = [rows EXCEPT ![form[t].pk] =
                  IF @ = Absent THEN Absent ELSE Updated(@, Written(Posted(t, touch)))]
             /\ Execute(t, "update", {form[t].pk}, Written(Posted(t, touch)), {touch.field})
      BY <2>3
    <2> DEFINE base == form[t].base
               posted == Posted(t, touch)
               values == Written(posted)
    <2>5. base \in TableRows /\ base # Absent /\ rows \in [Pks -> TableRows \cup {Absent}]
      <3>1. base \in TableRows
        BY <1>1, <2>3 DEF PanelInv, FormInv
      <3>2. rows \in [Pks -> TableRows \cup {Absent}]
        BY <1>1 DEF PanelInv, PanelTypes
      <3> QED
        BY <3>1, <3>2, AdminAssumption
    <2>6. f \in Fields /\ f # touch.field
      <3>1. job'[t].touched = {touch.field}
        BY <2>1, <2>4 DEF Execute
      <3> QED
        BY <3>1 DEF Untouched
    <2>7. /\ DOMAIN values = {x \in Fields : ~Skipped(x, posted)}
          /\ \A x \in DOMAIN values : values[x] = posted[x]
      BY DEF Written
    <2>8. posted[f] = FormatInput(f, base[f])
      BY <1>1, <2>3, <2>4, <2>6, SavedIs
    <2>9. rows'[form[t].pk] = Updated(base, values)
      BY <2>3, <2>4, <2>5
    <2> DEFINE after == rows'[form[t].pk][f]
    <2>10. after = IF Kind[f] = "autonow" THEN adminClock
                   ELSE IF f \in DOMAIN values THEN values[f] ELSE base[f]
      BY <2>6, <2>9 DEF Updated
    <2> HIDE DEF base, posted, values, after
    <2>11. CASE Kind[f] = "autonow"
      BY <2>10, <2>11 DEF base, after
    <2>12. CASE Kind[f] \in {"autonow_add", "nanoid", "hash", "image"}
      <3>1. Skipped(f, posted)
        BY <2>5, <2>6, <2>8, <2>12, ShownIs DEF Skipped, ReadOnly
      <3>2. after = base[f]
        BY <2>7, <2>10, <2>12, <3>1
      <3> QED
        BY <2>12, <3>2 DEF base, after
    <2>13. CASE Kind[f] \notin {"autonow", "autonow_add", "nanoid", "hash", "image"}
      <3>1. ~Skipped(f, posted)
        BY <2>13 DEF Skipped, ReadOnly
      <3>2. after = FormatInput(f, base[f])
        BY <2>6, <2>7, <2>8, <2>10, <2>13, <3>1
      <3>3. /\ Kind[f] = "datetime" => after = Floor(base[f] + Zone)
            /\ Kind[f] # "datetime" /\ (Kind[f] # "fk" \/ base[f] # Blank) => after = base[f]
        BY <2>5, <2>6, <2>13, <3>2, ShownIs
      <3>4. Kind[f] = "fk" /\ base[f] = Blank => after = Selected(Blank)
        BY <3>2 DEF FormatInput
      <3> QED
        BY <2>13, <3>3, <3>4 DEF base, after
    <2> QED
      BY <2>11, <2>12, <2>13
  <1> QED
    BY <1>1, PanelAlways, PTL DEF AdminSpec, UntouchedFieldsStay

-----------------------------------------------------------------------------
(* The list and its filters.                                               *)

LEMMA NewestIs ==
    ASSUME NEW pks \in SUBSET Pks
    PROVE  /\ Newest(pks) \in Seq(Pks)
           /\ Len(Newest(pks)) \in Nat /\ Len(Newest(pks)) <= Cardinality(Pks)
           /\ Cardinality(Pks) \in Nat
  <1> DEFINE key == [pk \in pks |-> -pk]
             n == Cardinality(pks)
  <1>1. /\ IsFiniteSet(pks) /\ n \in Nat /\ Cardinality(Pks) \in Nat /\ n <= Cardinality(Pks)
        /\ pks \subseteq Int
    BY AdminAssumption, FS_Subset, FS_CardinalityType
  <1>2. key \in [pks -> Int] /\ \A r, s \in pks : key[r] = key[s] => r = s
    BY <1>1
  <1>3. PICK s \in [1..n -> pks] : \A i, j \in DOMAIN s : i < j => key[s[i]] < key[s[j]]
    <2> HIDE DEF key
    <2> QED
      BY <1>1, <1>2, Sortable
  <1>4. \A i, j \in DOMAIN s : i < j => s[i] > s[j]
    <2> SUFFICES ASSUME NEW i \in DOMAIN s, NEW j \in DOMAIN s, i < j PROVE s[i] > s[j]
      OBVIOUS
    <2>1. key[s[i]] < key[s[j]] /\ s[i] \in pks /\ s[j] \in pks
      BY <1>3
    <2>2. \A pk \in pks : key[pk] = -pk
      OBVIOUS
    <2>3. s[i] \in Int /\ s[j] \in Int /\ key[s[i]] = -s[i] /\ key[s[j]] = -s[j]
      BY <1>1, <2>1, <2>2
    <2> HIDE DEF key
    <2> QED
      BY <2>1, <2>3
  <1>5. Newest(pks) \in [1..n -> pks]
    BY <1>4 DEF Newest
  <1> HIDE DEF n
  <1>6. ASSUME NEW t \in [1..n -> pks] PROVE t \in Seq(Pks) /\ Len(t) = n
    <2>1. t \in [1..n -> Pks]
      OBVIOUS
    <2> QED
      BY <1>1, <2>1
  <1> QED
    BY <1>1, <1>5, <1>6

(* Following the links to the next page from the first: what does not fit  *)
(* on the first page, whose size the browser has asked for, is shown from  *)
(* where a first page of the default size would have ended.                *)
Matching(f, low, high) ==
    {pk \in Pks : /\ rows[pk] # Absent
                  /\ \A c \in FromDay(low) \cup UntilDay(high) : Meets(rows[pk][f], c)}

LEMMA FollowedIs ==
    ASSUME NEW size \in Sizes, NEW f, NEW low, NEW high
    PROVE  LET K == Newest(Matching(f, low, high))
               first == PageSize(size)
           IN  Followed(size, f, low, high) =
                 IF Len(K) <= first THEN K
                 ELSE SubSeq(K, 1, first) \o SubSeq(K, DefaultPageSize + 1, Len(K))
  <1> DEFINE K == Newest(Matching(f, low, high))
             n == Len(K)
             N == Cardinality(Pks) + 1
             s == DefaultPageSize
             first == PageSize(size)
             Shown(p) == HandleList(p, IF p = 1 THEN size ELSE 0, f, low, high)
             Part(a, b) == SubSeq(K, a + 1, b)
             Items(p) == Part((p - 1) * s, Min({p * s, n}))
             Rest(p) == IF (p - 1) * s < n THEN Part((p - 1) * s, n) ELSE <<>>
             Def(g) == [page \in 1..Cardinality(Pks) + 1 |->
                          LET p == HandleList(page, IF page = 1 THEN size ELSE 0, f, low, high)
                          IN  p.items \o IF p.hasNext THEN g[page + 1] ELSE <<>>]
             from == CHOOSE g : g = Def(g)
  <1>1. K \in Seq(Pks) /\ n \in Nat /\ N \in Nat \ {0} /\ n < N
    <2>1. Matching(f, low, high) \in SUBSET Pks
      BY DEF Matching
    <2> HIDE DEF K
    <2>2. K \in Seq(Pks) /\ n \in Nat /\ n <= Cardinality(Pks) /\ Cardinality(Pks) \in Nat
      BY <2>1, NewestIs DEF K
    <2> QED
      BY <2>2
  <1>2. s \in Nat \ {0} /\ first \in Nat \ {0} /\ PageSize(0) = s
    <2>1. size \in Int /\ s \in Nat \ {0} /\ MaxPageSize \in Nat /\ s <= MaxPageSize
      BY AdminAssumption
    <2>2. PageSize(0) = s
      <3>1. PageSize(0) = Min({s, MaxPageSize})
        BY DEF PageSize
      <3> QED
        BY <2>1, <3>1, LeastOfTwo
    <2>3. first \in Nat \ {0}
      <3> DEFINE asked == IF size < 1 THEN s ELSE size
      <3>1. asked \in Nat \ {0} /\ first = Min({asked, MaxPageSize})
        BY <2>1 DEF PageSize
      <3> HIDE DEF asked, s, first
      <3> QED
        BY <2>1, <3>1, LeastOfTwo
    <2> QED
      BY <2>1, <2>2, <2>3
  <1>3. ASSUME NEW p \in 1..N, NEW sz \in Int, NEW k, k = PageSize(sz)
        PROVE  HandleList(p, sz, f, low, high) =
                 [items |-> Part((p - 1) * k, Min({p * k, n})), hasNext |-> n > p * k]
    <2>1. (IF p < 1 THEN 1 ELSE p) = p
      BY <1>1
    <2> HIDE DEF s, first, Shown
    <2>2. HandleList(p, sz, f, low, high) = List(p, k, f, low, high)
      BY <1>3, <2>1 DEF HandleList
    <2>3. List(p, k, f, low, high) =
            [items |-> Part((p - 1) * k, Min({p * k, n})), hasNext |-> n > p * k]
      BY DEF List, Matching
    <2> QED
      BY <2>2, <2>3
  <1>3b. ASSUME NEW p \in 2..N PROVE Shown(p).items = Items(p) /\ Shown(p).hasNext = (n > p * s)
    <2>1. p \in 1..N /\ p # 1
      BY <1>1
    <2>2. Shown(p) = HandleList(p, 0, f, low, high)
      BY <2>1 DEF Shown
    <2> HIDE DEF Shown, s, n, K, Part
    <2> QED
      BY <1>2, <1>3, <2>1, <2>2
  <1>3c. Shown(1).items = Part(0, Min({first, n})) /\ Shown(1).hasNext = (n > first)
    <2>1. 1 \in 1..N /\ size \in Int /\ (1 - 1) * first = 0 /\ 1 * first = first
      BY <1>1, <1>2, AdminAssumption
    <2>2. Shown(1) = HandleList(1, size, f, low, high)
      BY DEF Shown
    <2> HIDE DEF Shown, s, n, K, Part
    <2>3. HandleList(1, size, f, low, high) =
            [items |-> Part((1 - 1) * first, Min({1 * first, n})), hasNext |-> n > 1 * first]
      BY <1>3, <2>1 DEF first
    <2> HIDE DEF first
    <2> QED
      BY <2>1, <2>2, <2>3
  <1> HIDE DEF K, n, s, first, Shown
  <1>3a. ASSUME NEW a \in Nat
        PROVE  /\ a >= n => Part(a, n) = <<>>
               /\ a < n => Part(a, n) \in Seq(Pks)
               /\ \A b \in Nat : a <= b /\ b <= n => Part(a, n) = Part(a, b) \o Part(b, n)
    <2>1. ASSUME a >= n PROVE Part(a, n) = <<>>
      <3>1. a + 1 \in Int /\ n \in Int /\ a + 1 > n
        BY <1>1, <2>1
      <3> QED
        BY <1>1, <3>1, SubSeqEmpty
    <2>2. ASSUME a < n PROVE Part(a, n) \in Seq(Pks)
      <3>1. a + 1 \in 1..n + 1 /\ n \in a + 1 - 1..n
        BY <1>1, <2>2
      <3>2. a + 1 \in 1..Len(K) + 1 /\ n \in a + 1 - 1..Len(K)
        BY <3>1 DEF n
      <3> QED
        BY <1>1, <3>2, SubSeqProperties
    <2>3. ASSUME NEW b \in Nat, a <= b, b <= n PROVE Part(a, n) = Part(a, b) \o Part(b, n)
      BY <1>1, <2>3, PartsOf DEF n
    <2> QED
      BY <2>1, <2>2, <2>3
  <1> HIDE DEF Part
  <1>4. ASSUME NEW p \in 2..N
        PROVE  Rest(p) = Items(p) \o IF n > p * s THEN Rest(p + 1) ELSE <<>>
    <2> DEFINE m == (p - 1) * s
    <2>1. m \in Nat /\ p * s = m + s /\ (p + 1 - 1) * s = m + s
      BY <1>1, <1>2
    <2>2. Min({p * s, n}) = IF m + s <= n THEN m + s ELSE n
      BY <1>1, <1>2, <2>1, LeastOfTwo
    <2> HIDE DEF m
    <2>3. Rest(p) = IF m < n THEN Part(m, n) ELSE <<>>
      BY DEF m
    <2>4. Items(p) = Part(m, IF m + s <= n THEN m + s ELSE n)
      BY <2>2 DEF m
    <2>5. Rest(p + 1) = IF m + s < n THEN Part(m + s, n) ELSE <<>>
      BY <2>1
    <2> HIDE DEF Rest, Items
    <2>6. CASE n > m + s
      <3>1. m + s \in Nat /\ m <= m + s /\ m + s <= n /\ m < n
        BY <1>1, <1>2, <2>1, <2>6
      <3>2. Part(m, n) = Part(m, m + s) \o Part(m + s, n)
        BY <1>3a, <2>1, <3>1
      <3> QED
        BY <2>1, <2>3, <2>4, <2>5, <2>6, <3>1, <3>2
    <2>7. CASE ~(n > m + s)
      <3>1. m + s <= n => m + s = n
        BY <1>1, <1>2, <2>1, <2>7
      <3>2. Items(p) = Part(m, n)
        BY <2>4, <3>1
      <3>3. Part(m, n) \in Seq(Pks) /\ Rest(p) = Part(m, n)
        BY <1>1, <1>3a, <2>1, <2>3
      <3>4. Part(m, n) \o <<>> = Part(m, n)
        BY <3>3, ConcatEmptySeq
      <3> QED
        BY <2>1, <2>7, <3>2, <3>3, <3>4
    <2> QED
      BY <2>6, <2>7
  <1>5. ASSUME NEW p \in 2..N, n > p * s PROVE p + 1 \in 2..N
    <2>1. p * s >= p
      BY <1>2
    <2> QED
      BY <1>1, <1>2, <1>5, <2>1
  <1> HIDE DEF Items, Rest
  <1>5a. n > first => 2 \in 2..N
    BY <1>1, <1>2
  <1> DEFINE Opening == Part(0, Min({first, n}))
  <1>6. ASSUME NEW g
        PROVE  /\ \A p \in 2..N : Def(g)[p] = Items(p) \o IF n > p * s THEN g[p + 1] ELSE <<>>
               /\ Def(g)[1] = Opening \o IF n > first THEN g[2] ELSE <<>>
    <2>1. \A p \in 1..N : Def(g)[p] = Shown(p).items \o IF Shown(p).hasNext THEN g[p + 1] ELSE <<>>
      BY DEF Shown
    <2>2. 1 \in 1..N /\ 1 + 1 = 2 /\ \A p \in 2..N : p \in 1..N
      BY <1>1
    <2> HIDE DEF Def, Opening
    <2>3. Def(g)[1] = Opening \o IF n > first THEN g[2] ELSE <<>>
      BY <1>3c, <2>1, <2>2 DEF Opening
    <2> QED
      BY <1>3b, <2>1, <2>2, <2>3
  <1> HIDE DEF Def, Opening
  <1> DEFINE all == [p \in 1..N |-> IF p = 1 THEN Opening \o IF n > first THEN Rest(2) ELSE <<>>
                                    ELSE Rest(p)]
  <1>7. all = Def(all)
    <2>1. \A p \in 2..N : all[p] = Rest(p)
      BY <1>1
    <2>2. all[1] = Opening \o IF n > first THEN Rest(2) ELSE <<>>
      BY <1>1
    <2>3. \A p \in 2..N : all[p] = Def(all)[p]
      <3> HIDE DEF all
      <3> QED
        BY <1>4, <1>5, <1>6, <2>1
    <2>4. all[1] = Def(all)[1]
      <3> HIDE DEF all
      <3>1. Def(all)[1] = Opening \o IF n > first THEN all[2] ELSE <<>>
        BY <1>6
      <3>2. n > first => all[2] = Rest(2)
        BY <1>5a, <2>1
      <3>3. CASE n > first
        BY <2>2, <3>1, <3>2, <3>3
      <3>4. CASE ~(n > first)
        BY <2>2, <3>1, <3>4
      <3> QED
        BY <3>3, <3>4
    <2>5. \A p \in 1..N : all[p] = Def(all)[p]
      <3>1. \A p \in 1..N : p = 1 \/ p \in 2..N
        BY <1>1
      <3> HIDE DEF all
      <3> QED
        BY <2>3, <2>4, <3>1
    <2> QED
      BY <2>5 DEF Def
  <1>8. from = Def(from)
    BY <1>7
  <1>9. Followed(size, f, low, high) = from[1]
    BY DEF Followed, Def
  <1> HIDE DEF from, all
  <1> DEFINE T == {d \in Nat : d < N - 1 => from[N - d] = Rest(N - d)}
  <1>10. ASSUME NEW p \in 2..N, n > p * s => from[p + 1] = Rest(p + 1)
         PROVE  from[p] = Rest(p)
    BY <1>4, <1>6, <1>8, <1>10
  <1>11. 0 \in T
    <2> SUFFICES ASSUME 0 < N - 1 PROVE from[N - 0] = Rest(N - 0)
      OBVIOUS
    <2>1. N \in 2..N /\ ~(n > N * s) /\ N - 0 = N
      BY <1>1, <1>5
    <2> QED
      BY <1>10, <2>1
  <1>12. ASSUME NEW d \in T PROVE d + 1 \in T
    <2> SUFFICES ASSUME d + 1 < N - 1 PROVE from[N - (d + 1)] = Rest(N - (d + 1))
      OBVIOUS
    <2>1. N - (d + 1) \in 2..N /\ N - (d + 1) + 1 = N - d /\ d < N - 1
      BY <1>1
    <2> QED
      BY <1>10, <2>1
  <1>13. T = Nat
    <2> HIDE DEF T
    <2>1. T \in SUBSET Nat
      BY DEF T
    <2> QED
      BY <1>11, <1>12, <2>1, Induction
  <1>14. CASE n > first
    <2>1. N - 2 \in T /\ N - 2 < N - 1 /\ N - (N - 2) = 2 /\ first <= n
      BY <1>1, <1>2, <1>13, <1>14
    <2>2. from[2] = Rest(2)
      BY <2>1
    <2>3. Rest(2) = Part(s, n)
      <3>1. (2 - 1) * s = s /\ (~(s < n) => s >= n)
        BY <1>1, <1>2
      <3> QED
        BY <1>2, <1>3a, <3>1 DEF Rest
    <2>4. Opening = Part(0, first)
      BY <1>1, <1>2, <2>1, LeastOfTwo DEF Opening
    <2>5. from[1] = Part(0, first) \o Part(s, n)
      BY <1>6, <1>8, <1>14, <2>2, <2>3, <2>4
    <2>6. /\ Part(0, first) = SubSeq(K, 1, first)
          /\ Part(s, n) = SubSeq(K, DefaultPageSize + 1, Len(K))
      <3>1. 0 + 1 = 1
        OBVIOUS
      <3> QED
        BY <3>1 DEF Part, n, s
    <2>7. ~(Len(K) <= first)
      BY <1>1, <1>2, <1>14 DEF n
    <2> QED
      BY <1>9, <2>5, <2>6, <2>7 DEF K, first
  <1>15. CASE ~(n > first)
    <2>1. n <= first /\ Min({first, n}) = n
      BY <1>1, <1>2, <1>15, LeastOfTwo
    <2>2. Opening = K
      <3>1. CASE n > 0
        <4>1. 0 + 1 = 1
          OBVIOUS
        <4>2. Part(0, n) = SubSeq(K, 1, Len(K))
          BY <4>1 DEF Part, n
        <4> QED
          BY <1>1, <2>1, <4>2, SubSeqFull DEF Opening
      <3>2. CASE ~(n > 0)
        <4>1. n = 0 /\ 0 >= n /\ 0 \in Nat
          BY <1>1, <3>2
        <4>2. Part(0, n) = <<>>
          BY <1>3a, <4>1
        <4> QED
          BY <1>1, <2>1, <4>1, <4>2, EmptySeq DEF Opening, n
      <3> QED
        BY <3>1, <3>2
    <2>3. from[1] = K \o <<>>
      BY <1>6, <1>8, <1>15, <2>2
    <2>4. from[1] = K
      BY <1>1, <2>3, ConcatEmptySeq
    <2>5. Len(K) <= first
      BY <2>1 DEF n
    <2> QED
      BY <1>9, <2>4, <2>5 DEF K, first
  <1> QED
    BY <1>14, <1>15

(* A second is of the days from low to high exactly if it is no earlier    *)
(* than the first second of low and before the one after high.             *)
LEMMA DayBounds ==
    ASSUME NEW v \in Int, NEW d \in Int
    PROVE  (d <= v \div Day <=> v >= d * Day) /\ (v \div Day <= d <=> v < d * Day + Day)
  <1>1. Day \in Nat \ {0}
    BY AdminAssumption
  <1> DEFINE q == v \div Day
             r == v % Day
  <1>2. q \in Int /\ r \in 0..Day - 1 /\ v = Day * q + r
    BY <1>1
  <1> HIDE DEF q, r
  <1>3. ASSUME NEW a \in Int, NEW b \in Int, a < b PROVE a * Day + Day <= b * Day
    <2>1. (b - a - 1) * Day >= 0
      BY <1>1, <1>3
    <2>2. (b - a - 1) * Day = b * Day - a * Day - Day
      BY <1>1
    <2> QED
      BY <1>1, <2>1, <2>2
  <1>4. q * Day = Day * q /\ q * Day \in Int /\ d * Day \in Int
    BY <1>1, <1>2
  <1>5. CASE d < q
    BY <1>1, <1>2, <1>3, <1>4, <1>5
  <1>6. CASE d = q
    BY <1>1, <1>2, <1>4, <1>6
  <1>7. CASE q < d
    BY <1>1, <1>2, <1>3, <1>4, <1>7
  <1> QED
    BY <1>2, <1>5, <1>6, <1>7 DEF q

LEMMA ListShowsDays == PanelTypes => DaysShown
  <1> SUFFICES ASSUME PanelTypes, NEW f \in Fields, Kind[f] = "datetime",
                      NEW low \in Days, NEW high \in Days, NEW size \in Sizes
               PROVE  LET shown == Newest({pk \in Pks :
                                             /\ rows[pk] # Absent
                                             /\ low = Bad \/ low <= rows[pk][f] \div Day
                                             /\ high = Bad \/ rows[pk][f] \div Day <= high})
                          first == PageSize(size)
                      IN  Followed(size, f, low, high) =
                            IF Len(shown) <= first THEN shown
                            ELSE SubSeq(shown, 1, first)
                                   \o SubSeq(shown, DefaultPageSize + 1, Len(shown))
    BY DEF DaysShown
  <1>1. ASSUME NEW pk \in Pks, rows[pk] # Absent
        PROVE  (\A c \in FromDay(low) \cup UntilDay(high) : Meets(rows[pk][f], c))
                 <=> /\ low = Bad \/ low <= rows[pk][f] \div Day
                     /\ high = Bad \/ rows[pk][f] \div Day <= high
    <2> DEFINE v == rows[pk][f]
    <2>1. v \in Int
      BY <1>1 DEF PanelTypes, TableRows, Times
    <2> HIDE DEF v
    <2>2. (\A c \in FromDay(low) : Meets(v, c)) <=> (low = Bad \/ low <= v \div Day)
      <3>1. CASE low = Bad
        BY <3>1 DEF FromDay
      <3>2. CASE low # Bad
        <4>1. low \in Int
          BY <3>2, AdminAssumption
        <4> DEFINE bound == low * Day
        <4>2. FromDay(low) = {[op |-> ">=", val |-> bound]}
          BY <3>2 DEF FromDay
        <4> HIDE DEF bound
        <4>3. Meets(v, [op |-> ">=", val |-> bound]) <=> v >= bound
          BY DEF Meets
        <4>4. (\A c \in FromDay(low) : Meets(v, c)) <=> v >= low * Day
          BY <4>2, <4>3 DEF bound
        <4> QED
          BY <2>1, <3>2, <4>1, <4>4, DayBounds
      <3> QED
        BY <3>1, <3>2
    <2>3. (\A c \in UntilDay(high) : Meets(v, c)) <=> (high = Bad \/ v \div Day <= high)
      <3>1. CASE high = Bad
        BY <3>1 DEF UntilDay
      <3>2. CASE high # Bad
        <4>1. high \in Int
          BY <3>2, AdminAssumption
        <4> DEFINE bound == high * Day + Day
        <4>2. UntilDay(high) = {[op |-> "<", val |-> bound]}
          BY <3>2 DEF UntilDay, NextDay
        <4> HIDE DEF bound
        <4>3. Meets(v, [op |-> "<", val |-> bound]) <=> v < bound
          BY DEF Meets
        <4>4. (\A c \in UntilDay(high) : Meets(v, c)) <=> v < high * Day + Day
          BY <4>2, <4>3 DEF bound
        <4> QED
          BY <2>1, <3>2, <4>1, <4>4, DayBounds
      <3> QED
        BY <3>1, <3>2
    <2> QED
      BY <2>2, <2>3 DEF v
  <1>2. Matching(f, low, high) = {pk \in Pks :
                                    /\ rows[pk] # Absent
                                    /\ low = Bad \/ low <= rows[pk][f] \div Day
                                    /\ high = Bad \/ rows[pk][f] \div Day <= high}
    BY <1>1 DEF Matching
  <1> DEFINE K == Newest(Matching(f, low, high))
  <1>3. Followed(size, f, low, high) =
          IF Len(K) <= PageSize(size) THEN K
          ELSE SubSeq(K, 1, PageSize(size)) \o SubSeq(K, DefaultPageSize + 1, Len(K))
    BY FollowedIs
  <1>4. K = Newest({pk \in Pks : /\ rows[pk] # Absent
                                 /\ low = Bad \/ low <= rows[pk][f] \div Day
                                 /\ high = Bad \/ rows[pk][f] \div Day <= high})
    BY <1>2
  <1> HIDE DEF K
  <1> QED
    BY <1>3, <1>4

(* After each change of the rows, a list that is filtered by days and      *)
(* followed by its links to the last page (crud.go, rm.list; filters.go)   *)
(* shows each row of those days once, for any rows and days, if the        *)
(* browser asks for no size of page, for the default or for one that holds *)
(* them all.  Otherwise, as the links drop the size (handlers.go:580-581), *)
(* it shows the first page and then what a first page of the default size  *)
(* would have left over: the rows between are left out, or shown twice.    *)
THEOREM FiltersHold == AdminSpec => FiltersMatchDays
  <1>1. PanelInv => DaysShown
    BY ListShowsDays DEF PanelInv
  <1>2. AdminSpec => []DaysShown
    BY <1>1, PanelAlways, PTL
  <1>3. DaysShown' => [rows' # rows => DaysShown']_adminVars
    OBVIOUS
  <1> QED
    BY <1>2, <1>3, PTL DEF FiltersMatchDays

-----------------------------------------------------------------------------
(* The values of both parts.  RateLimit counts a request once: the count   *)
(* of an address is at most the number of requests that have left          *)
(* "entered", among those that have begun.                                 *)
Waiting == {conn[c].n : c \in {d \in Conns : IsAt(d, "entered")}}
Past == (1..served) \ Waiting

NumbersInv ==
    /\ served <= MaxServed
    /\ lastSwept \in 0..clock
    /\ \A m \in dataPool : content[m] = NoValues
    /\ \A b \in Clients : jar[b] <= MaxServed
    /\ \A c \in Conns : Open(c) => conn[c].n \in 1..served /\ conn[c].raw <= MaxServed
    /\ \A c, d \in Conns : c # d /\ Open(c) /\ Open(d) => conn[c].n # conn[d].n

CountsInv ==
    \A b \in Clients :
        rate[b].count <= Cardinality(Past) /\ rate[b].reset <= MaxClock + RateWindow

LEMMA PastIsFinite ==
    ASSUME served \in Nat
    PROVE  /\ IsFiniteSet(Past)
           /\ Cardinality(Past) \in Nat /\ Cardinality(Past) <= served
  <1>1. IsFiniteSet(1..served) /\ Cardinality(1..served) = served
    BY FS_Interval
  <1>2. Past \subseteq 1..served
    BY DEF Past
  <1> QED
    BY <1>1, <1>2, FS_Subset, FS_CardinalityType

(* A connection that is free after a step, or whose request goes on.       *)
GoesOnOrEnds(c) ==
    \/ ~Open(c)'
    \/ /\ Open(c) /\ Open(c)'
       /\ conn'[c].n = conn[c].n /\ conn'[c].raw = conn[c].raw
       /\ conn'[c].at = "entered" => conn[c].at = "entered"

LEMMA NumbersStay ==
    ASSUME WebInv, RateTypes, NumbersInv, served' \in Nat, clock' \in Nat,
           \A c \in Conns : GoesOnOrEnds(c),
           served <= served', served' <= MaxServed,
           lastSwept' \in 0..clock',
           \A b \in Clients : jar'[b] <= MaxServed,
           \A m \in dataPool' : content'[m] = NoValues
    PROVE  NumbersInv' /\ Past \subseteq Past'
  <1>1. served \in Nat
    BY DEF WebInv, OwnersInv, RequestTypes
  <1>2. \A c \in Conns : Open(c)' => Open(c) /\ conn'[c].n = conn[c].n
                                     /\ conn'[c].raw = conn[c].raw
    BY DEF GoesOnOrEnds
  <1>3. Waiting' \subseteq Waiting
    <2>1. \A c \in Conns : IsAt(c, "entered")' => IsAt(c, "entered") /\ conn'[c].n = conn[c].n
      BY DEF GoesOnOrEnds, IsAt, Open, Free
    <2> QED
      BY <2>1 DEF Waiting
  <1>4. Past \subseteq Past'
    BY <1>1, <1>3 DEF Past
  <1>5. \A c \in Conns : Open(c)' => conn'[c].n \in 1..served' /\ conn'[c].raw <= MaxServed
    BY <1>1, <1>2 DEF NumbersInv
  <1>6. \A c, d \in Conns : c # d /\ Open(c)' /\ Open(d)' => conn'[c].n # conn'[d].n
    BY <1>2 DEF NumbersInv
  <1> QED
    BY <1>4, <1>5, <1>6 DEF NumbersInv

LEMMA CountsStay ==
    ASSUME RateTypes, CountsInv, served \in Nat, served' \in Nat,
           Past \subseteq Past', UNCHANGED rate
    PROVE  CountsInv'
  <1>1. Cardinality(Past) \in Nat /\ Cardinality(Past') \in Nat
        /\ Cardinality(Past) <= Cardinality(Past')
    <2>1. IsFiniteSet(Past') /\ Cardinality(Past') \in Nat
      <3>1. IsFiniteSet(1..served')
        BY FS_Interval
      <3>2. Past' \subseteq 1..served'
        BY DEF Past
      <3> QED
        BY <3>1, <3>2, FS_Subset, FS_CardinalityType
    <2> QED
      BY <2>1, PastIsFinite, FS_Subset
  <1>2. \A b \in Clients : rate[b].count \in Nat
    BY DEF RateTypes
  <1> QED
    BY <1>1, <1>2 DEF CountsInv

(* RateLimit counts the request, which has left "entered" with that.       *)
LEMMA CountsGrow ==
    ASSUME WebInv, RateInv, NumbersInv, CountsInv, NEW c \in Conns, CountRequest(c),
           IsAt(c, "entered"), ~IsAt(c, "entered")', GoesOnOrEnds(c),
           \A d \in Conns \ {c} : conn'[d] = conn[d]
    PROVE  CountsInv' /\ lastSwept' \in 0..clock'
  <1>1. /\ served \in Nat /\ served' = served /\ clock' = clock /\ clock \in 0..MaxClock
        /\ MaxClock \in Nat /\ RateWindow \in Nat
        /\ rate' = [RatesKept EXCEPT ![conn[c].client] = Counted(conn[c].client)]
        /\ lastSwept' = IF clock - lastSwept > RateWindow THEN clock ELSE lastSwept
    BY RequestsAssumption
       DEF CountRequest, WebInv, OwnersInv, RequestTypes, RateInv, RateTypes
  <1>2. Open(c) /\ conn[c].client \in Clients /\ conn[c].n \in 1..served
    BY OpenTyped DEF WebInv, OwnersInv, IsAt, Free, Served, NumbersInv
  <1> DEFINE b == conn[c].client
             n == conn[c].n
  <1>3. n \in Waiting /\ n \notin Past
    BY <1>2 DEF Waiting, Past
  <1>4. n \notin Waiting'
    <2>1. ASSUME NEW d \in Conns, IsAt(d, "entered")', conn'[d].n = n PROVE FALSE
      <3>1. d # c
        BY <2>1
      <3>2. conn'[d] = conn[d] /\ Open(d)
        BY <2>1, <3>1, OpenTyped DEF IsAt, WebInv, OwnersInv
      <3> QED
        BY <1>2, <2>1, <3>1, <3>2 DEF NumbersInv
    <2> QED
      BY <2>1 DEF Waiting
  <1>5. Past \cup {n} \subseteq Past'
    <2>1. \A d \in Conns : IsAt(d, "entered")' => IsAt(d, "entered") /\ conn'[d].n = conn[d].n
      BY DEF GoesOnOrEnds, IsAt, Open, Free
    <2>2. Waiting' \subseteq Waiting
      BY <2>1 DEF Waiting
    <2> QED
      BY <1>1, <1>2, <1>4, <2>2 DEF Past
  <1>6. /\ Cardinality(Past) \in Nat /\ Cardinality(Past') \in Nat
        /\ Cardinality(Past) + 1 <= Cardinality(Past')
    <2>1. IsFiniteSet(Past') /\ Cardinality(Past') \in Nat
      <3>1. IsFiniteSet(1..served') /\ Past' \subseteq 1..served'
        BY <1>1, FS_Interval DEF Past
      <3> QED
        BY <3>1, FS_Subset, FS_CardinalityType
    <2>2. IsFiniteSet(Past) /\ Cardinality(Past) \in Nat
      BY <1>1, PastIsFinite
    <2>3. Cardinality(Past \cup {n}) = Cardinality(Past) + 1
      BY <1>3, <2>2, FS_AddElement
    <2> QED
      BY <1>5, <2>1, <2>2, <2>3, FS_Subset
  <1>7. rate \in [Clients -> [count : Nat, reset : Nat]]
    BY DEF RateInv, RateTypes
  <1>8. ASSUME NEW d \in Clients
        PROVE  /\ RatesKept[d] \in [count : Nat, reset : Nat]
               /\ RatesKept[d].count <= Cardinality(Past)
               /\ RatesKept[d].reset <= MaxClock + RateWindow
    BY <1>1, <1>6, <1>7 DEF RatesKept, NoEntry, CountsInv
  <1>9. RatesKept \in [Clients -> [count : Nat, reset : Nat]]
    BY <1>7 DEF RatesKept, NoEntry
  <1>10. Counted(b).count <= Cardinality(Past) + 1 /\ Counted(b).reset <= MaxClock + RateWindow
    BY <1>1, <1>2, <1>6, <1>8 DEF Counted
  <1>11. CountsInv'
    <2>1. \A d \in Clients : rate'[d] = IF d = b THEN Counted(b) ELSE RatesKept[d]
      BY <1>1, <1>9
    <2>2. ASSUME NEW d \in Clients
          PROVE  rate'[d].count <= Cardinality(Past') /\ rate'[d].reset <= MaxClock + RateWindow
      <3>1. CASE d = b
        <4>1. Counted(b).count \in Nat
          BY <1>2, <1>8 DEF Counted
        <4> QED
          BY <1>6, <1>10, <2>1, <3>1, <4>1
      <3>2. CASE d # b
        BY <1>6, <1>8, <2>1, <3>2
      <3> QED
        BY <3>1, <3>2
    <2> QED
      BY <2>2 DEF CountsInv
  <1>12. lastSwept' \in 0..clock'
    BY <1>1 DEF NumbersInv
  <1> QED
    BY <1>11, <1>12

(* The pages, cookies and pools after a request has ended.                 *)
LEMMA LeaveEmpties ==
    ASSUME WebInv, NumbersInv, NEW c \in Conns, Open(c), NEW out, Leave(c, out)
    PROVE  /\ \A d \in Conns : GoesOnOrEnds(d)
           /\ ~Open(c)' /\ \A d \in Conns \ {c} : conn'[d] = conn[d]
           /\ \A b \in Clients : jar'[b] <= MaxServed
           /\ \A m \in dataPool' : content'[m] = NoValues
  <1>1. RequestTypes /\ PoolInv /\ OwnInv(c) /\ conn[c] \in Served
    BY OpenTyped DEF WebInv, OwnersInv
  <1>2. conn' = [conn EXCEPT ![c] = Free]
    BY DEF Leave
  <1>3. ~Open(c)' /\ \A d \in Conns \ {c} : conn'[d] = conn[d]
    BY <1>1, <1>2 DEF RequestTypes, Open
  <1>4. \A d \in Conns : GoesOnOrEnds(d)
    BY <1>3 DEF GoesOnOrEnds, Open
  <1>5. PICK m : /\ m = ctxData[conn[c].ctx]
                 /\ content' = [content EXCEPT ![m] = NoValues]
                 /\ dataPool' = dataPool \cup {m}
    BY DEF Leave, Emptied
  <1>6. m \in DataMaps
    BY <1>1, <1>5 DEF OwnInv, PoolInv, RequestTypes, Served
  <1>7. \A d \in dataPool' : content'[d] = NoValues
    BY <1>1, <1>5, <1>6 DEF NumbersInv, RequestTypes
  <1>8. jar' = jar \/ jar' = [jar EXCEPT ![conn[c].client] = conn[c].raw]
    BY DEF Leave, Deliver
  <1>9. \A b \in Clients : jar'[b] <= MaxServed
    BY <1>1, <1>8 DEF NumbersInv, RequestTypes
  <1> QED
    BY <1>3, <1>4, <1>7, <1>9

LEMMA EnterNumbers ==
    ASSUME WebInv, RateInv, NumbersInv, CountsInv,
           NEW c \in Conns, NEW b \in Clients, NEW method, NEW submitted,
           Enter(c, b, method, submitted)
    PROVE  NumbersInv' /\ CountsInv'
  <1>1. /\ RequestTypes /\ served \in Nat /\ MaxServed \in Nat /\ served < MaxServed
        /\ served' = served + 1 /\ conn[c].at = "free"
        /\ UNCHANGED <<jar, rate, lastSwept, clock>>
    BY RequestsAssumption DEF WebInv, OwnersInv, RequestTypes, Enter, Begin, IsAt, browser, rates
  <1>2. PICK x \in ctxPool, m \in dataPool :
           /\ conn' = [conn EXCEPT ![c] = [Request(b, method, submitted) EXCEPT !.ctx = x]]
           /\ dataPool' = dataPool \ {m}
           /\ content' = [content EXCEPT ![m] = [of |-> served + 1, raw |-> RawToken(b)]]
    BY DEF Enter
  <1>3. RawToken(b) <= MaxServed
    BY <1>1 DEF RawToken, NumbersInv
  <1>4. /\ conn'[c].n = served + 1 /\ conn'[c].raw = RawToken(b)
        /\ \A d \in Conns \ {c} : conn'[d] = conn[d]
    <2>1. conn'[c] = [Request(b, method, submitted) EXCEPT !.ctx = x]
      BY <1>1, <1>2 DEF RequestTypes
    <2>2. /\ conn'[c].n = Request(b, method, submitted).n
          /\ conn'[c].raw = Request(b, method, submitted).raw
      BY <2>1 DEF Request
    <2> QED
      BY <1>1, <1>2, <2>2 DEF RequestTypes, Request
  <1>5. ASSUME NEW d \in Conns, d # c, Open(d)' PROVE Open(d) /\ conn'[d] = conn[d]
    BY <1>4, <1>5 DEF Open
  <1>6. \A d \in Conns : Open(d)' => conn'[d].n \in 1..served' /\ conn'[d].raw <= MaxServed
    BY <1>1, <1>3, <1>4, <1>5 DEF NumbersInv
  <1>7. ASSUME NEW d \in Conns, NEW e \in Conns, d # e, Open(d)', Open(e)'
        PROVE  conn'[d].n # conn'[e].n
    <2>1. \A f \in Conns : f # c /\ Open(f)' => conn'[f].n \in 1..served
      BY <1>5 DEF NumbersInv
    <2>2. CASE d # c /\ e # c
      BY <1>5, <1>7, <2>2 DEF NumbersInv
    <2>3. CASE d = c
      BY <1>1, <1>4, <1>7, <2>1, <2>3
    <2>4. CASE e = c
      BY <1>1, <1>4, <1>7, <2>1, <2>4
    <2> QED
      BY <2>2, <2>3, <2>4
  <1>8. \A d \in dataPool' : content'[d] = NoValues
    BY <1>1, <1>2 DEF NumbersInv, RequestTypes
  <1>9. NumbersInv'
    BY <1>1, <1>6, <1>7, <1>8 DEF NumbersInv
  <1>10. Past \subseteq Past'
    <2>1. Waiting' \subseteq Waiting \cup {served + 1}
      <3>1. \A d \in Conns : IsAt(d, "entered")' =>
              d = c \/ (IsAt(d, "entered") /\ conn'[d].n = conn[d].n)
        BY <1>4 DEF IsAt
      <3> QED
        BY <1>4, <3>1 DEF Waiting
    <2> QED
      BY <1>1, <2>1 DEF Past
  <1>11. CountsInv'
    BY <1>1, <1>10, CountsStay DEF RateInv
  <1> QED
    BY <1>9, <1>11

(* A step of a request that stays open, and is not counted.                *)
LEMMA GoesOnNumbers ==
    ASSUME WebInv, RateInv, NumbersInv, CountsInv, NEW c \in Conns, GoesOnOrEnds(c),
           \A d \in Conns \ {c} : conn'[d] = conn[d],
           UNCHANGED <<served, clock, jar, dataPool, content, rate, lastSwept>>
    PROVE  NumbersInv' /\ CountsInv'
  <1>1. served \in Nat /\ served <= MaxServed /\ clock \in Nat /\ RateTypes
    BY DEF WebInv, OwnersInv, RequestTypes, NumbersInv, RateInv, RateTypes
  <1>2. \A d \in Conns : GoesOnOrEnds(d)
    BY DEF GoesOnOrEnds, Open
  <1>3. NumbersInv' /\ Past \subseteq Past'
    BY <1>1, <1>2, NumbersStay DEF NumbersInv
  <1> QED
    BY <1>1, <1>3, CountsStay

LEMMA LeaveNumbers ==
    ASSUME WebInv, RateInv, NumbersInv, CountsInv, NEW c \in Conns, Open(c),
           NEW out, Leave(c, out), UNCHANGED <<served, clock>>,
           \/ UNCHANGED rates
           \/ CountRequest(c)
    PROVE  NumbersInv' /\ CountsInv'
  <1>1. /\ served \in Nat /\ served <= MaxServed /\ clock \in Nat /\ RateTypes
        /\ lastSwept \in 0..clock
    BY DEF WebInv, OwnersInv, RequestTypes, NumbersInv, RateInv, RateTypes
  <1>2. /\ \A d \in Conns : GoesOnOrEnds(d)
        /\ ~Open(c)' /\ \A d \in Conns \ {c} : conn'[d] = conn[d]
        /\ \A b \in Clients : jar'[b] <= MaxServed
        /\ \A m \in dataPool' : content'[m] = NoValues
    BY LeaveEmpties
  <1>3. CASE UNCHANGED rates
    <2>1. UNCHANGED <<rate, lastSwept>>
      BY <1>3 DEF rates
    <2>2. NumbersInv' /\ Past \subseteq Past'
      BY <1>1, <1>2, <2>1, NumbersStay
    <2> QED
      BY <1>1, <2>1, <2>2, CountsStay
  <1>4. CASE CountRequest(c)
    <2>1. IsAt(c, "entered") /\ ~IsAt(c, "entered")'
      BY <1>2, <1>4 DEF CountRequest, IsAt, Open, Free
    <2>2. CountsInv' /\ lastSwept' \in 0..clock'
      BY <1>2, <1>4, <2>1, CountsGrow
    <2> QED
      BY <1>1, <1>2, <2>2, NumbersStay
  <1> QED
    BY <1>3, <1>4

(* A request moves on past the middleware that counts it.                  *)
LEMMA Onward ==
    ASSUME WebInv, NEW c \in Conns, Open(c), NEW q, conn' = [conn EXCEPT ![c] = q],
           q.at \notin {"free", "entered"}, q.n = conn[c].n, q.raw = conn[c].raw
    PROVE  /\ GoesOnOrEnds(c) /\ ~IsAt(c, "entered")'
           /\ \A d \in Conns \ {c} : conn'[d] = conn[d]
  <1>1. conn'[c] = q /\ \A d \in Conns \ {c} : conn'[d] = conn[d]
    BY DEF WebInv, OwnersInv, RequestTypes
  <1>2. Open(c)'
    BY <1>1 DEF Open, Free
  <1> QED
    BY <1>1, <1>2 DEF GoesOnOrEnds, IsAt

LEMMA WriteOnward ==
    ASSUME WebInv, NEW c \in Conns, Open(c), NEW place, NEW written, NEW zip,
           Write(c, place, written, zip), place \notin {"free", "entered"}
    PROVE  /\ GoesOnOrEnds(c)
           /\ \A d \in Conns \ {c} : conn'[d] = conn[d]
  <1>1. conn[c] \in Served
    BY OpenTyped DEF WebInv, OwnersInv
  <1>2. PICK q \in {[conn[c] EXCEPT !.at = place, !.out = written],
                    [conn[c] EXCEPT !.at = place, !.active = TRUE,
                                    !.out = [written EXCEPT !.body = "open"]]} :
           conn' = [conn EXCEPT ![c] = q]
    BY DEF Write
  <1>3. q.at = place /\ q.n = conn[c].n /\ q.raw = conn[c].raw
    BY <1>1, <1>2 DEF Served
  <1> QED
    BY <1>2, <1>3, Onward

LEMMA HandlerOnward ==
    ASSUME WebInv, NEW c \in Conns,
           Reply(c) \/ RenderEnd(c) \/ PartialForm(c) \/ RenderBegin(c) \/ Panic(c)
             \/ PanicLate(c) \/ CompressReturns(c)
    PROVE  /\ GoesOnOrEnds(c)
           /\ \A d \in Conns \ {c} : conn'[d] = conn[d]
  <1>1. Open(c) /\ conn[c] \in Served
    BY OpenTyped DEF WebInv, OwnersInv, IsAt, Reply, RenderEnd, PartialForm, RenderBegin, Panic,
                     PanicLate, CompressReturns
  <1>2. CASE Reply(c) \/ RenderEnd(c) \/ PartialForm(c)
    <2>1. PICK written, zip : Write(c, "returned", written, zip)
      BY <1>2 DEF Reply, RenderEnd, PartialForm
    <2> QED
      BY <1>1, <2>1, WriteOnward
  <1>3. CASE RenderBegin(c) \/ Panic(c) \/ CompressReturns(c)
    <2>1. PICK q \in {[conn[c] EXCEPT !.at = "rendering"],
                      [conn[c] EXCEPT !.at = "returned", !.panicked = TRUE],
                      [conn[c] EXCEPT !.at = "unzipped", !.out = Ended(c)]} :
             conn' = [conn EXCEPT ![c] = q]
      BY <1>3 DEF RenderBegin, Move, Panic, CompressReturns
    <2>2. q.at \notin {"free", "entered"} /\ q.n = conn[c].n /\ q.raw = conn[c].raw
      BY <1>1, <2>1 DEF Served
    <2> QED
      BY <1>1, <2>1, <2>2, Onward
  <1>4. CASE PanicLate(c)
    <2>1. PICK o \in Outputs :
             conn' = [conn EXCEPT ![c] = [conn[c] EXCEPT !.panicked = TRUE, !.out = o]]
      BY <1>4, PanicLateIs
    <2> DEFINE q == [conn[c] EXCEPT !.panicked = TRUE, !.out = o]
    <2>2. q.at \notin {"free", "entered"} /\ q.n = conn[c].n /\ q.raw = conn[c].raw
      BY <1>1, <1>4 DEF Served, PanicLate, IsAt
    <2>3. conn' = [conn EXCEPT ![c] = q]
      BY <2>1
    <2> HIDE DEF q
    <2> QED
      BY <1>1, <2>2, <2>3, Onward
  <1> QED
    BY <1>2, <1>3, <1>4

LEMMA PassNumbers ==
    ASSUME WebInv, RateInv, NumbersInv, CountsInv, NEW c \in Conns, NEW g, Pass(c, g)
    PROVE  NumbersInv' /\ CountsInv'
  <1>1. /\ CountRequest(c) /\ IsAt(c, "entered")
        /\ UNCHANGED <<jar, dataPool, content, served, clock>>
    BY DEF Pass, CountRequest, browser
  <1>2. Open(c) /\ conn[c] \in Served
    BY <1>1, OpenTyped DEF WebInv, OwnersInv, IsAt
  <1> DEFINE q == [conn[c] EXCEPT !.at = "handler", !.gz = g]
  <1>3. /\ conn' = [conn EXCEPT ![c] = q]
        /\ q.at = "handler" /\ q.n = conn[c].n /\ q.raw = conn[c].raw
    BY <1>2 DEF Pass, Served
  <1> HIDE DEF q
  <1>4. /\ GoesOnOrEnds(c) /\ ~IsAt(c, "entered")'
        /\ \A d \in Conns \ {c} : conn'[d] = conn[d]
    BY <1>2, <1>3, Onward
  <1>5. CountsInv' /\ lastSwept' \in 0..clock'
    BY <1>1, <1>4, CountsGrow
  <1>6. \A d \in Conns : GoesOnOrEnds(d)
    BY <1>4 DEF GoesOnOrEnds, Open
  <1>7. served \in Nat /\ served <= MaxServed /\ clock \in Nat /\ RateTypes
    BY DEF WebInv, OwnersInv, RequestTypes, NumbersInv, RateInv, RateTypes
  <1>8. NumbersInv'
    BY <1>1, <1>5, <1>6, <1>7, NumbersStay DEF NumbersInv
  <1> QED
    BY <1>5, <1>8

LEMMA NumbersStep ==
    WebInv /\ RateInv /\ NumbersInv /\ CountsInv /\ [RequestsNext]_requestVars
      => NumbersInv' /\ CountsInv'
  <1> SUFFICES ASSUME WebInv, RateInv, NumbersInv, CountsInv, [RequestsNext]_requestVars
               PROVE  NumbersInv' /\ CountsInv'
    OBVIOUS
  <1>1. /\ served \in Nat /\ served <= MaxServed /\ clock \in Nat /\ RateTypes
        /\ lastSwept \in 0..clock
    BY DEF WebInv, OwnersInv, RequestTypes, NumbersInv, RateInv, RateTypes
  <1>2. ASSUME UNCHANGED <<conn, dataPool, content, jar, rate, lastSwept>>, served' \in Nat,
               served <= served', served' <= MaxServed, clock' \in Nat, clock <= clock'
        PROVE  NumbersInv' /\ CountsInv'
    <2>1. \A c \in Conns : GoesOnOrEnds(c)
      BY <1>2 DEF GoesOnOrEnds, Open
    <2>2. NumbersInv' /\ Past \subseteq Past'
      BY <1>1, <1>2, <2>1, NumbersStay DEF NumbersInv
    <2> QED
      BY <1>1, <1>2, <2>2, CountsStay
  <1>3. CASE UNCHANGED requestVars
    BY <1>1, <1>2, <1>3 DEF requestVars, pools, browser, rates
  <1>4. CASE ClockTick
    BY <1>1, <1>2, <1>4 DEF ClockTick, pools, browser, rates
  <1>5. ASSUME NEW c \in Conns, NotRouted(c) \/ UnknownHost(c) PROVE NumbersInv' /\ CountsInv'
    <2>1. MaxServed \in Nat
      BY RequestsAssumption
    <2> QED
      BY <1>1, <1>2, <1>5, <2>1
         DEF NotRouted, UnknownHost, TurnAway, Begin, pools, browser, rates
  <1>6. ASSUME NEW c \in Conns, NEW b \in Clients, Get(c, b) \/ Post(c, b)
        PROVE  NumbersInv' /\ CountsInv'
    BY <1>6, EnterNumbers DEF Get, Post
  <1>7. ASSUME NEW c \in Conns, Refuse(c) \/ Protect(c) \/ Block(c) \/ Recovery(c)
        PROVE  NumbersInv' /\ CountsInv'
    <2>1. PICK out : Leave(c, out)
      BY <1>7 DEF Refuse, Protect, Block, Recovery
    <2>2. Open(c)
      BY <1>7, OpenTyped DEF WebInv, OwnersInv, IsAt, Refuse, Protect, Block, CountRequest, Recovery
    <2>3. UNCHANGED <<served, clock>> /\ (UNCHANGED rates \/ CountRequest(c))
      BY <1>7 DEF Refuse, Protect, Block, CountRequest, Recovery
    <2> QED
      BY <2>1, <2>2, <2>3, LeaveNumbers
  <1>8. ASSUME NEW c \in Conns, Reply(c) \/ RenderEnd(c) \/ PartialForm(c) \/ RenderBegin(c)
                                  \/ Panic(c) \/ PanicLate(c) \/ CompressReturns(c)
        PROVE  NumbersInv' /\ CountsInv'
    <2>1. UNCHANGED <<served, clock, jar, dataPool, content, rate, lastSwept>>
      BY <1>8 DEF Reply, RenderEnd, PartialForm, RenderBegin, Panic, PanicLate,
                  CompressReturns, pools, browser, rates
    <2> QED
      BY <1>8, <2>1, HandlerOnward, GoesOnNumbers
  <1>9. ASSUME NEW c \in Conns, Spawn(c) PROVE NumbersInv' /\ CountsInv'
    BY <1>1, <1>2, <1>9 DEF Spawn, pools, browser, rates
  <1>10. ASSUME NEW c \in Conns, NEW g \in gzPool \cup {Nothing}, Pass(c, g)
         PROVE  NumbersInv' /\ CountsInv'
    BY <1>10, PassNumbers
  <1> QED
    BY <1>3, <1>4, <1>5, <1>6, <1>7, <1>8, <1>9, <1>10 DEF RequestsNext, ServeHTTP

LEMMA NumbersInitially == RequestsInit => NumbersInv /\ CountsInv
  <1> SUFFICES ASSUME RequestsInit PROVE NumbersInv /\ CountsInv
    OBVIOUS
  <1>1. \A c \in Conns : ~Open(c)
    BY DEF RequestsInit, Open
  <1>2. MaxServed \in Nat /\ MaxClock \in Nat /\ RateWindow \in Nat
    BY RequestsAssumption
  <1>3. NumbersInv
    BY <1>1, <1>2 DEF RequestsInit, NumbersInv
  <1>4. served \in Nat
    BY DEF RequestsInit
  <1>5. Cardinality(Past) \in Nat
    BY <1>4, PastIsFinite
  <1>6. \A b \in Clients : rate[b].count = 0 /\ rate[b].reset = 0
    BY DEF RequestsInit, NoEntry
  <1> QED
    BY <1>2, <1>3, <1>5, <1>6 DEF CountsInv

LEMMA RequestsTyped ==
    ASSUME WebInv, RateInv, NumbersInv, CountsInv
    PROVE  RequestsTypeOK
  <1>1. RequestTypes /\ PoolInv /\ RateTypes /\ MaxServed \in Nat /\ MaxClock \in Nat
        /\ RateWindow \in Nat /\ served \in Nat /\ served <= MaxServed
    BY RequestsAssumption DEF WebInv, OwnersInv, RateInv, RequestTypes, NumbersInv
  <1>2. ASSUME NEW c \in Conns, conn[c] # Free
        PROVE  /\ conn[c].at \in Places /\ conn[c].ctx \in Contexts \ ctxPool
               /\ conn[c].out.body \in {"none", "part", "open", "whole"}
    <2>1. Open(c) /\ conn[c] \in Served /\ OwnInv(c) /\ OutInv(c)
      BY <1>2, OpenTyped DEF WebInv, OwnersInv, Open
    <2> QED
      BY <2>1 DEF OwnInv, OutInv, Served, Outputs
  <1>3. jar \in [Clients -> Numbers]
    BY <1>1 DEF RequestTypes, NumbersInv, Numbers
  <1>4. Cardinality(Past) \in Nat /\ Cardinality(Past) <= MaxServed
    BY <1>1, PastIsFinite
  <1>5. ASSUME NEW b \in Clients
        PROVE  rate[b] \in [count : 0..MaxServed, reset : 0..MaxClock + RateWindow]
    <2>1. rate[b] \in [count : Nat, reset : Nat]
      BY <1>1 DEF RateTypes
    <2>2. rate[b].count <= MaxServed /\ rate[b].reset <= MaxClock + RateWindow
      BY <1>1, <1>4, <2>1 DEF CountsInv
    <2> QED
      BY <1>1, <2>1, <2>2
  <1>6. rate \in [Clients -> [count : 0..MaxServed, reset : 0..MaxClock + RateWindow]]
    BY <1>1, <1>5 DEF RateTypes
  <1> QED
    BY <1>1, <1>2, <1>3, <1>6 DEF RequestsTypeOK, RequestTypes, PoolInv, RateTypes, NumbersInv,
       Numbers

-----------------------------------------------------------------------------
(* The panel: no request passes the guard without a role, and none waits   *)
(* to record a statement about no row.                                     *)
StepsInv ==
    /\ steps \in Nat /\ adminClock <= steps
    /\ \A t \in Tabs : /\ at[t] = "passed" => pass[t].role # "none"
                       /\ at[t] = "log" => job[t].pks # {}

LEMMA TabMoves ==
    ASSUME GuardInv, StepsInv, NEW t \in Tabs, steps' \in Nat, adminClock' <= steps',
           \A u \in Tabs \ {t} : at'[u] = at[u] /\ pass'[u] = pass[u] /\ job'[u] = job[u],
           at'[t] = "passed" => pass'[t].role # "none",
           at'[t] = "log" => job'[t].pks # {}
    PROVE  StepsInv'
  BY DEF StepsInv

LEMMA StepsInvNext == GuardInv /\ StepsInv /\ [AdminNext]_adminVars => StepsInv'
  <1> SUFFICES ASSUME GuardInv, StepsInv, [AdminNext]_adminVars PROVE StepsInv'
    OBVIOUS
  <1>1. /\ steps \in Nat /\ adminClock \in Nat /\ adminClock <= steps
        /\ at \in [Tabs -> {"idle", "read", "passed", "log"}] /\ pass \in [Tabs -> Seen]
        /\ DOMAIN job = Tabs
    BY DEF GuardInv, GuardTypes, StepsInv
  <1>2. CASE ClockTicks \/ LoginSubmit \/ \E r \in Roles : SetRole(r)
    <2>1. /\ UNCHANGED <<at, pass, job>> /\ steps' = steps + 1
          /\ adminClock' \in {adminClock, adminClock + 1}
      BY <1>2 DEF ClockTicks, LoginSubmit, SetRole, Step, tabState
    <2> QED
      BY <1>1, <2>1 DEF StepsInv
  <1>3. ASSUME NEW t \in Tabs, Finish(t), steps' \in {steps, steps + 1}, adminClock' = adminClock,
               UNCHANGED job \/ job' = [job EXCEPT ![t] = NoJob]
        PROVE  StepsInv'
    <2>1. at'[t] = "idle"
      BY <1>1, <1>3 DEF Finish
    <2>2. \A u \in Tabs \ {t} : at'[u] = at[u] /\ pass'[u] = pass[u] /\ job'[u] = job[u]
      BY <1>1, <1>3 DEF Finish
    <2> QED
      BY <1>1, <1>3, <2>1, <2>2, TabMoves
  <1>4. ASSUME NEW t \in Tabs, NEW action, NEW pks, pks # {}, NEW changes, NEW touched,
               Execute(t, action, pks, changes, touched)
        PROVE  StepsInv'
    <2>1. /\ at'[t] = "log" /\ job'[t].pks # {}
          /\ UNCHANGED <<pass, adminClock>> /\ steps' = steps + 1
          /\ \A u \in Tabs \ {t} : at'[u] = at[u] /\ job'[u] = job[u]
      BY <1>1, <1>4 DEF Execute, Step, OnlyRequest
    <2> QED
      BY <1>1, <2>1, TabMoves
  <1>5. ASSUME NEW t \in Tabs,
               GuardRefuses(t) \/ Logout(t) \/ Show(t) \/ EditForm(t) \/ BulkActionFails(t)
                 \/ LogHistory(t) \/ LogFails(t)
        PROVE  StepsInv'
    <2>1. Finish(t) /\ (UNCHANGED job \/ job' = [job EXCEPT ![t] = NoJob])
      BY <1>5 DEF GuardRefuses, Logout, Show, EditForm, BulkActionFails, LogHistory, LogFails
    <2>2. adminClock' = adminClock /\ steps' \in {steps, steps + 1}
      BY <1>5 DEF GuardRefuses, Logout, Show, EditForm, BulkActionFails, LogHistory, LogFails,
                  OnlyRequest, Step
    <2> QED
      BY <1>3, <2>1, <2>2
  <1>6. ASSUME NEW t \in Tabs, CreateRow(t) \/ UpdateRow(t) \/ DeleteRow(t) \/ BulkAction(t)
        PROVE  StepsInv'
    <2>1. \E action, pks, changes, touched :
             pks # {} /\ Execute(t, action, pks, changes, touched)
      <3>1. CASE CreateRow(t)
        BY <3>1 DEF CreateRow
      <3>2. CASE UpdateRow(t)
        BY <3>2 DEF UpdateRow
      <3>3. CASE DeleteRow(t)
        BY <3>3 DEF DeleteRow
      <3>4. CASE BulkAction(t)
        BY <3>4 DEF BulkAction
      <3> QED
        BY <1>6, <3>1, <3>2, <3>3, <3>4
    <2> QED
      BY <1>4, <2>1
  <1>7. ASSUME NEW t \in Tabs, GuardCached(t) \/ GuardRead(t) \/ GuardStamp(t) PROVE StepsInv'
    <2>1. /\ UNCHANGED <<adminClock, steps>>
          /\ at' \in {[at EXCEPT ![t] = "passed"], [at EXCEPT ![t] = "read"]}
          /\ \A u \in Tabs \ {t} : pass'[u] = pass[u] /\ job'[u] = job[u]
      BY <1>1, <1>7 DEF GuardCached, GuardRead, GuardStamp
    <2>2. /\ at'[t] \in {"passed", "read"}
          /\ \A u \in Tabs \ {t} : at'[u] = at[u]
      BY <1>1, <2>1
    <2>3. at'[t] = "passed" => pass'[t].role # "none"
      <3>1. CASE GuardCached(t)
        BY <1>1, <3>1 DEF GuardCached, Trusted
      <3>2. CASE GuardRead(t)
        BY <1>1, <3>2 DEF GuardRead
      <3>3. CASE GuardStamp(t)
        BY <1>1, <3>3 DEF GuardStamp, Seen
      <3> QED
        BY <1>7, <3>1, <3>2, <3>3
    <2> QED
      BY <1>1, <2>1, <2>2, <2>3, TabMoves
  <1>8. CASE UNCHANGED adminVars
    BY <1>8 DEF adminVars, StepsInv
  <1> QED
    BY <1>2, <1>5, <1>6, <1>7, <1>8 DEF AdminNext, Roles

LEMMA AdminTyped ==
    ASSUME GuardInv, PanelInv, StepsInv
    PROVE  AdminTypeOK
  <1>1. \A pk \in Pks : rows[pk] = Absent \/ DOMAIN rows[pk] = Fields
    BY DEF PanelInv, PanelTypes, TableRows
  <1> QED
    BY <1>1 DEF GuardInv, GuardTypes, StepsInv, AdminTypeOK

(* In every state of both parts, for any connections, clients, tabs, rows  *)
(* and bounds: an open request has a context that no pool has, the maps in *)
(* the pool are empty (router.go, Handle), RateLimit counts no more        *)
(* requests of an address than there have been (middleware.go, RateLimit), *)
(* nobody is past the guard of the panel without a role (admin.go,         *)
(* requireStaff), and no statement waits to be recorded for no row.        *)
THEOREM WebIsTyped == WebSpec => []WebTypeOK
  <1> DEFINE Inv == /\ WebInv /\ RateInv /\ NumbersInv /\ CountsInv
                    /\ GuardInv /\ PanelInv /\ StepsInv
  <1>1. WebInit => Inv
    <2>1. AdminInit => StepsInv
      BY DEF AdminInit, StepsInv
    <2>2. RequestsInit => WebInv
      BY RequestsInitially DEF WebInv
    <2> QED
      BY <2>1, <2>2, RateInitially, NumbersInitially, GuardInvInit, PanelInvInit DEF WebInit
  <1>2. [WebNext]_webVars => [RequestsNext]_requestVars /\ [AdminNext]_adminVars
    BY DEF WebNext, webVars
  <1>3. Inv /\ [WebNext]_webVars => Inv'
    BY <1>2, RequestsStep, RateStep, NumbersStep, GuardInvNext, PanelInvNext, StepsInvNext
  <1>4. Inv => WebTypeOK
    BY RequestsTyped, AdminTyped DEF WebTypeOK
  <1> QED
    BY <1>1, <1>3, <1>4, PTL DEF WebSpec
=============================================================================
