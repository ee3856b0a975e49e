------------------------------ MODULE MCThrottles ------------------------------
(* Three failures in a window of three units, holds of one unit doubled at   *)
(* most twice, and checks of up to two units, which outlast the first hold.  *)
EXTENDS Throttles

-----------------------------------------------------------------------------
(* What starts a refusal, and what the asking program is told.             *)
V == INSTANCE Verdict

Lanes == {"sudo", "polkit"}
Whys == {"liveness", "shaken", "dismissed", "no answer"}
Refusals == {V!Plain(r) : r \in V!Reasons} \cup {V!Confirm(w) : w \in Whys}
Gestures == {"Nods", "Timeout", "Shaken", "Dismissed", "Password"}
Scans == {V!Match("0.9"), [result |-> "no_match", score |-> "0.4"], [result |-> "error"]}
Finished ==
  {<<l, g, p, V!Finish(l, g, p, s)>> : l \in Lanes, g \in Gestures, p \in BOOLEAN, s \in Scans}
  \cup {<<l, "Confirm", FALSE, V!ConfirmFailed(l, w)>> : l \in Lanes, w \in Whys}

\* A reason is read back as the one that was sent, whatever a confirm says.
ASSUME ReasonsAreReadBack == \A r \in Refusals : V!Parse(V!ToWire(r)) = {r}

\* On either lane the user's own no starts the standing refusal, and nothing
\* else does; it fails a polkit request and lets a sudo fall to its password.
ASSUME NoIsTakenAsNo ==
  \A <<lane, gesture, ok, outcome>> \in Finished :
    LET no == gesture \in {"Shaken", "Dismissed", "Confirm"}
    IN /\ V!StartsRefusal(outcome) <=> no
       /\ no => V!LastCard(outcome) = IF gesture = "Confirm" THEN "not live" ELSE "hidden"
       /\ \A root \in BOOLEAN :
            (V!Authenticate(TRUE, TRUE, V!Reply(outcome, root), TRUE) = "PAM_AUTH_ERR")
              <=> no /\ lane = "polkit"

\* A program is let in only by a match, from a gesture that approves or with the
\* password; a plain look is never refused, and no score reaches a user.
ASSUME OnlyAMatchLetsIn ==
  \A <<lane, gesture, ok, outcome>> \in Finished, local, asked, consent \in BOOLEAN :
    LET said == V!Authenticate(local, asked, V!Reply(outcome, FALSE), consent)
    IN /\ said = "PAM_SUCCESS" =>
            local /\ asked /\ (gesture = "Nods" \/ (gesture = "Password" /\ ok))
       /\ said = "PAM_AUTH_ERR" => consent
       /\ outcome.result = "match" => V!Reply(outcome, FALSE).score = V!NoScore
=============================================================================
