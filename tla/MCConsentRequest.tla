--------------------------- MODULE MCConsentRequest ---------------------------
(* Two requests, so that what is said to the first can reach the second, and *)
(* two lengths of passwordless sudo, so that a rider can change under way.   *)
EXTENDS ConsentRequest, Sequences

MCMinutes == {5, 15}

-----------------------------------------------------------------------------
(* The looks of a wait, over every course of five sights.                  *)
RG == INSTANCE RearmGate

Courses == UNION {[1 .. n -> RG!Sights] : n \in 1 .. 5}
AwayTimes == {0, 2, 5, RG!Never}
Has(course, S) == \E i \in DOMAIN course : course[i] \in S
Proved == {RG!Face(a, "yes") : a \in BOOLEAN}
\* The face is at the card all along, as far as anybody can tell.
Staying == {RG!Face(TRUE, v) : v \in {"yes", "none"}}

\* The look that arms the nods shows the user, attentive; and after a nod window
\* passed unanswered an earlier look did not find the user so.
Armed(c, need_away) == RG!attention_wait(c, need_away, 0, 2).end = "armed"
ASSUME OnlyTheUserRearms ==
  \A c \in Courses, need_away \in BOOLEAN :
    LET n == Len(c) IN
    Armed(c, need_away) /\ ~Armed(SubSeq(c, 1, n - 1), need_away) =>
      /\ c[n] = RG!Face(TRUE, "yes")
      /\ need_away => \E j \in 1 .. n - 1 : c[j] \notin Staying

\* One failed check counts as being away: a user who stays at the card and is
\* misread once is armed again without having left it.
ASSUME MisreadingIsAway ==
  LET me == RG!Face(TRUE, "yes") misread == RG!Face(TRUE, "no")
  IN /\ RG!attention_wait(<<me, me, misread, me, me>>, TRUE, 0, 5).end = "armed"
     /\ RG!attention_wait(<<me, me, me, me, me>>, TRUE, 0, 5).end = "waiting"

\* With no passing check and no look that fails, a wait or a hold is over within
\* one look of the away time, whoever sits there and however late it began; a
\* look asks for one more at most.
ASSUME NobodyHoldsTheRequest ==
  \A c \in {d \in Courses : ~Has(d, Proved \cup {RG!Failed})}, l \in AwayTimes, since \in {0, 7} :
    LET w == RG!attention_wait(c, FALSE, since, l)
        h == RG!hold_wait(c, since, l)
    IN  l # RG!Never =>
          /\ w.end = "waiting" => (w.asked \/ w.since <= l) /\ Len(c) <= 2 * w.looks
          /\ h.end = "waiting" => h.since <= l

\* A user who can be read is checked before the clock runs out and never taken
\* to have left, however long ago the last check was; and has the whole away time
\* from then on.
ASSUME UserHoldsTheRequest ==
  \A c \in {d \in Courses : \A i \in DOMAIN d : d[i] \in Proved}, l \in AwayTimes, since \in {0, 7} :
    /\ RG!attention_wait(c, TRUE, since, l).end # "lost"
    /\ RG!hold_wait(c, since, l).end # "lost"
    /\ \A n \in 0 .. 6 : l # RG!Never =>
         LET left == [i \in 1 .. n |-> RG!Nobody]
         IN  RG!hold_wait(<<RG!Face(FALSE, "yes")>> \o left, 7, l).end = "lost" <=> n > l

\* A look that fails is passed over, with its clock: while every look fails the
\* request waits, past any away time.
ASSUME FailedLooksWait ==
  \A l \in AwayTimes, since \in {0, 7} :
    LET c == [i \in 1 .. 5 |-> RG!Failed]
    IN  "waiting" \in {RG!attention_wait(c, TRUE, since, l).end}
          \cap {RG!hold_wait(c, since, l).end}
===============================================================================
