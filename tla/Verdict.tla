------------------------------- MODULE Verdict -------------------------------
(***************************************************************************)
(* From the reason a consent request ended for to what the asking program  *)
(* is told: the refusal, the outcome it becomes on either lane, the string *)
(* it travels as, the reply without scores, and the PAM code the module    *)
(* returns for it. Every operator is one conversion of that way.           *)
(***************************************************************************)
EXTENDS Naturals, FiniteSets

Wire ==
  [Shaken |-> "shaken", Dismissed |-> "dismissed", WrongPassword |-> "wrong password",
   NoAnswer |-> "no answer", Gone |-> "requester gone", NoWindow |-> "the consent window did not open",
   NoNod |-> "no nod", NoSession |-> "no active graphical session to ask in",
   OtherUser |-> "another user's request is on screen", TooMany |-> "too many requests waiting",
   RefusedRecently |-> "refused a moment ago"]
Reasons == DOMAIN Wire
Explicit == {"Shaken", "Dismissed", "Confirm"}

\* A confirm's refusal carries why; its string is that text under a prefix of
\* its own, kept as a pair.
Plain(r) == [reason |-> r]
Confirm(why) == [reason |-> "Confirm", why |-> why]
ToWire(refusal) ==
  IF refusal.reason = "Confirm" THEN <<"confirm: ", refusal.why>> ELSE <<"", Wire[refusal.reason]>>
Parse(text) ==
  IF text[1] = "confirm: " THEN {Confirm(text[2])} ELSE {Plain(r) : r \in {q \in Reasons : Wire[q] = text[2]}}
IsExplicitNo(refusal) == refusal.reason \in Explicit

\* The same answer is a refusal on the polkit lane and a denial on sudo's.
ConsentDenied(refusal) == [result |-> "consent_denied", reason |-> ToWire(refusal)]
Refused(lane, refusal) ==
  IF lane = "polkit" THEN [result |-> "refused", reason |-> ToWire(refusal)] ELSE ConsentDenied(refusal)

NoScore == "none"
Match(score) == [result |-> "match", score |-> score]

\* The verdict of a request that ended with a gesture (Confirm with its reason,
\* or one of the names) and the outcome of its last scan.
Finish(lane, gesture, passwordOk, scan) ==
  CASE gesture = "Password" /\ passwordOk -> Match("1.0")
    [] gesture = "Password" /\ ~passwordOk -> ConsentDenied(Plain("WrongPassword"))
    [] gesture = "Timeout" /\ scan.result = "match" -> ConsentDenied(Plain("NoAnswer"))
    [] gesture \in {"Dismissed", "Shaken"} -> Refused(lane, Plain(gesture))
    [] OTHER -> scan
ConfirmFailed(lane, why) == Refused(lane, Confirm(why))

\* Read back from an outcome: does this start the standing refusal?
StartsRefusal(outcome) ==
  outcome.result \in {"refused", "consent_denied"} /\ \E r \in Parse(outcome.reason) : IsExplicitNo(r)

\* What the window shows last: nothing to who said no to it, or a verdict.
LastCard(outcome) ==
  IF outcome.result \notin {"refused", "consent_denied"} THEN "other"
  ELSE IF \E r \in Parse(outcome.reason) : r.reason \in {"Shaken", "Dismissed"} THEN "hidden"
  ELSE IF \E r \in Parse(outcome.reason) : r.reason = "Confirm" THEN "not live"
  ELSE IF outcome.result = "consent_denied" THEN "no answer" ELSE "refused"

Redacted(outcome) == IF outcome.result \in {"match", "no_match"} THEN [outcome EXCEPT !.score = NoScore] ELSE outcome
Reply(outcome, root) == IF root THEN outcome ELSE Redacted(outcome)

\* The module: only a reply that begins with the result counts.
Classify(reply, consent) ==
  IF reply.result = "match" THEN "Match"
  ELSE IF consent /\ reply.result = "refused" THEN "Refused" ELSE "Other"

\* asked is whether it could ask at all: a name it can send, a socket whose
\* other end is root, a whole line back in time; local is no remote host.
Authenticate(local, asked, reply, consent) ==
  IF ~local \/ ~asked THEN "PAM_IGNORE"
  ELSE CASE Classify(reply, consent) = "Match" -> "PAM_SUCCESS"
         [] Classify(reply, consent) = "Refused" -> "PAM_AUTH_ERR"
         [] OTHER -> "PAM_IGNORE"
=============================================================================
