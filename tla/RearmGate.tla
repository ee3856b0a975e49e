------------------------------ MODULE RearmGate ------------------------------
(***************************************************************************)
(* The looks of a consent request that waits between two rounds            *)
(* (auth/rearm.rs): which look arms the nods again (RearmGate), which one  *)
(* checks identity, and when the away clock ends the wait. What cuts a     *)
(* wait short from outside (an answer, a lock, the end of a hold) is       *)
(* ConsentRequest's.                                                       *)
(*                                                                         *)
(* A sight is what a look would show: a face or none, attentive or not,    *)
(* and what an identity check of it would say; or a look that fails. Time  *)
(* is counted in looks. The gate's strikes are left out: the wait does not *)
(* read the user_seen they decide.                                         *)
(***************************************************************************)
EXTENDS Integers, SequencesExt

Never == -1              \* no away time
Failed == [kind |-> "failed"]
Nobody == [kind |-> "face", face |-> FALSE, attentive |-> FALSE, identity |-> "none"]
Face(attentive, verdict) ==
  [kind |-> "face", face |-> TRUE, attentive |-> attentive, identity |-> verdict]
Verdicts == {"yes", "no", "none"}
Sights == {Failed, Nobody} \cup {Face(a, v) : a \in BOOLEAN, v \in Verdicts}

(* What a look that checks identity, or does not, makes of a sight.         *)
Observed(s, identify) == IF identify THEN s ELSE [s EXCEPT !.identity = "none"]

(* A wait: the gate, the looks so far, how long ago the user was last       *)
(* proved, whether the next look was asked for by the gate, and how it      *)
(* ended.                                                                   *)
Start(need_away, since) ==
  [need_away |-> need_away, away_seen |-> FALSE, looks |-> 0, since |-> since,
   asked |-> FALSE, end |-> "waiting"]

identity_due(w, lost_after) ==
  w.looks % 3 = 0 \/ (lost_after # Never /\ 2 * w.since > lost_after)

(* RearmGate::look. A face that fails its check is not the attentive user.  *)
AttentiveUser(o) == o.face /\ o.attentive /\ o.identity # "no"

Looked(w, o) ==
  CASE ~AttentiveUser(o) \/ (w.need_away /\ ~w.away_seen) -> "Wait"
    [] OTHER -> IF o.identity = "yes" THEN "Arm" ELSE "Identify"

AfterLook(w, o) == [w EXCEPT !.away_seen = @ \/ ~AttentiveUser(o), !.asked = FALSE]

away_clock(w, o, lost_after) ==
  CASE o.identity = "yes" -> [w EXCEPT !.since = 0]
    [] o.identity # "yes" /\ lost_after # Never /\ w.since > lost_after -> [w EXCEPT !.end = "lost"]
    [] OTHER -> w

(* One tick goes by before a look, and none before the one the gate asks for. *)
Ticked(w) ==
  IF w.asked THEN w ELSE [w EXCEPT !.looks = @ + 1, !.since = @ + 1]

(* attention_wait, one look at a time: a look that fails is passed over with *)
(* its clock, and a face that was asked and stays unchecked only waits.      *)
AttentionLook(w, s, lost_after) ==
  LET t == Ticked(w)
      o == Observed(s, w.asked \/ identity_due(t, lost_after))
      g == AfterLook(t, o)
  IN  CASE w.end # "waiting" -> w
        [] w.end = "waiting" /\ s = Failed -> [t EXCEPT !.asked = FALSE]
        [] OTHER ->
             CASE Looked(t, o) = "Arm" -> [g EXCEPT !.end = "armed"]
               [] Looked(t, o) = "Identify" /\ ~w.asked -> [g EXCEPT !.asked = TRUE]
               [] OTHER -> away_clock(g, o, lost_after)

attention_wait(sights, need_away, since, lost_after) ==
  FoldLeft(LAMBDA w, s : AttentionLook(w, s, lost_after), Start(need_away, since), sights)

(* hold_wait: no gate, and no looks at all without an away time.            *)
HoldLook(w, s, lost_after) ==
  LET t == Ticked(w)
      o == Observed(s, identity_due(t, lost_after))
  IN  CASE w.end # "waiting" \/ lost_after = Never -> w
        [] w.end = "waiting" /\ lost_after # Never /\ s = Failed -> t
        [] OTHER -> away_clock(t, o, lost_after)

hold_wait(sights, since, lost_after) ==
  FoldLeft(LAMBDA w, s : HoldLook(w, s, lost_after), Start(FALSE, since), sights)
=============================================================================
