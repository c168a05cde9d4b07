------------------------------- MODULE Captcha -------------------------------
(***************************************************************************)
(* The Store of core/security/captcha/store.go, for one browser: images    *)
(* put a code into its session, answers are compared with it and use it    *)
(* up.  Reading and deleting the code are two locked steps, and requests   *)
(* that run at once share the session, or get one each when there is none. *)
(*                                                                         *)
(* A code is drawn once: that two of five random digits are the same is    *)
(* left out.  A session that has left the store is still written to by     *)
(* the request that holds it.                                              *)
(***************************************************************************)
EXTENDS FiniteSets

CONSTANTS
    Sids,       \* session identifiers
    Images,     \* requests for an image, each with a code of its own
    Submits,    \* requests with an answer
    Nobody      \* no session, and no code

(* Neither a code nor a session stands for a missing one.                  *)
ASSUME CaptchaAssumption == Nobody \notin Images \cup Sids

VARIABLES
    sentSid,    \* the session identifier that the browser sends
    live,       \* the sessions in the store
    used,       \* identifiers drawn so far
    codeOf,     \* the value of the session under sessionKey: an image's code
    image,      \* where each request for an image is, and its session
    submit      \* each request with an answer

captchaVars == <<sentSid, live, used, codeOf, image, submit>>

CaptchaInit ==
    /\ sentSid = Nobody
    /\ live = {} /\ used = {}
    /\ codeOf = [s \in Sids |-> Nobody]
    /\ image = [i \in Images |-> [at |-> "idle", sid |-> Nobody, made |-> FALSE]]
    /\ submit = [v \in Submits |-> [at |-> "idle"]]

(* FromRequest.                                                            *)
Session == IF sentSid \in live THEN sentSid ELSE Nobody

-----------------------------------------------------------------------------
(* ImageHandler.                                                           *)
ImageAsked(i) ==
    /\ image[i].at = "idle"
    /\ image' = [image EXCEPT ![i] =
         [at |-> IF Session = Nobody THEN "new" ELSE "set", sid |-> Session,
          made |-> FALSE]]
    /\ UNCHANGED <<sentSid, live, used, codeOf, submit>>

MakeSession(i) ==
    /\ image[i].at = "new"
    /\ \E s \in Sids \ used :
         /\ live' = live \cup {s} /\ used' = used \cup {s}
         /\ image' = [image EXCEPT ![i] = [at |-> "set", sid |-> s, made |-> TRUE]]
    /\ UNCHANGED <<sentSid, codeOf, submit>>

(* ErrStoreFull is logged, and the image is shown all the same.            *)
NoRoom(i) ==
    /\ image[i].at = "new"
    /\ image' = [image EXCEPT ![i].at = "draw"]
    /\ UNCHANGED <<sentSid, live, used, codeOf, submit>>

SetCode(i) ==
    /\ image[i].at = "set"
    /\ codeOf' = [codeOf EXCEPT ![image[i].sid] = i]
    /\ image' = [image EXCEPT ![i].at = "draw"]
    /\ UNCHANGED <<sentSid, live, used, submit>>

(* The response arrives, with the cookie if a session has been made.       *)
ImageShown(i) ==
    /\ image[i].at = "draw"
    /\ image' = [image EXCEPT ![i].at = "shown"]
    /\ sentSid' = IF image[i].made THEN image[i].sid ELSE sentSid
    /\ UNCHANGED <<live, used, codeOf, submit>>

-----------------------------------------------------------------------------
(* Verify.  The visitor answers with the code of an image that has been    *)
(* shown, or with another.  "after" is no part of the request: the ones    *)
(* that had been answered when it came.                                    *)
Answered == {v \in Submits : submit[v].at = "done"}

SubmitBegins(v) ==
    /\ submit[v].at = "idle"
    /\ \E answer \in {i \in Images : image[i].at = "shown"} \cup {Nobody} :
         submit' = [submit EXCEPT ![v] =
           [at |-> IF Session = Nobody THEN "done" ELSE "get", sid |-> Session,
            answer |-> answer, read |-> Nobody, passed |-> FALSE, after |-> Answered]]
    /\ UNCHANGED <<sentSid, live, used, codeOf, image>>

GetCode(v) ==
    /\ submit[v].at = "get"
    /\ LET code == codeOf[submit[v].sid] IN
       submit' = [submit EXCEPT ![v].read = code,
                                ![v].at = IF code = Nobody THEN "done" ELSE "delete"]
    /\ UNCHANGED <<sentSid, live, used, codeOf, image>>

(* Variant of the next operator: only a right answer uses up the code.     *)
KeptIfWrong(v) ==
    IF submit[v].answer = submit[v].read THEN Nobody ELSE codeOf[submit[v].sid]
UsedUp(v) == Nobody

DeleteCode(v) ==
    /\ submit[v].at = "delete"
    /\ codeOf' = [codeOf EXCEPT ![submit[v].sid] = UsedUp(v)]
    /\ submit' = [submit EXCEPT ![v].at = "done",
                                ![v].passed = submit[v].answer = submit[v].read]
    /\ UNCHANGED <<sentSid, live, used, image>>

(* The session expires, or is deleted by a logout.                         *)
SessionEnds(s) ==
    /\ s \in live
    /\ live' = live \ {s}
    /\ UNCHANGED <<sentSid, used, codeOf, image, submit>>

CaptchaNext ==
    \/ \E i \in Images :
          ImageAsked(i) \/ MakeSession(i) \/ NoRoom(i) \/ SetCode(i) \/ ImageShown(i)
    \/ \E v \in Submits : SubmitBegins(v) \/ GetCode(v) \/ DeleteCode(v)
    \/ \E s \in Sids : SessionEnds(s)

CaptchaSpec == CaptchaInit /\ [][CaptchaNext]_captchaVars

-----------------------------------------------------------------------------
(* "consome o codigo (uso unico) independente do resultado" (store.go:62): *)
(* an answer passes only with a code that no answer has met before it      *)
(* came, whichever images and answers are on their way with it.  Two that  *)
(* run at once may both pass.                                              *)
CodesAreUsedUp ==
    \A v \in Submits : submit[v].at = "done" /\ submit[v].passed =>
        \A w \in submit[v].after : submit[w].read # submit[v].read
=============================================================================
