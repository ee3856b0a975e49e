----------------------------- MODULE MCEnrolment -----------------------------
(* Two sessions, so that a word or a watcher meant for the first can reach   *)
(* the second, one thread of the window, and room for one word waiting.      *)
EXTENDS Enrolment, Integers

-----------------------------------------------------------------------------
(* The dot of the walk-through.                                            *)
HD == INSTANCE HeadDot

Grid == {5 * k : k \in -32 .. 32}
Looks == {HD!HoldZones[i] : i \in DOMAIN HD!HoldZones}
Extents == [HD!Directions -> {900, 1300, 4000}]
Shifts == {0, 2, 6}
PlaceExtents(s, t) == [left |-> s, right |-> t, up |-> t, down |-> s]
HeadAt(yaw, pitch, x, y) == [yaw |-> yaw, pitch |-> pitch, x |-> x, y |-> y]
Centre == HeadAt(0, 0, 50, 50)

\* A dot that counts as on a hold is labelled as that hold's look, but for the
\* exact corner between two looks; and the path passes every look.
ASSUME HoldIsItsLook ==
  /\ \A zone \in Looks : \A p \in Grid \X Grid :
       HD!OnTarget(p, HD!HoldTarget(zone)) =>
         HD!ZoneOfPoint(p) = zone \/ HD!Magnitude(p[1]) = HD!Magnitude(p[2])
  /\ \A zone \in Looks :
       \E i \in DOMAIN HD!PathStations : HD!ZoneOfPoint(HD!PathStations[i]) = zone

\* Nine degrees are enough for a hold, whatever was learned of a reach that
\* short; a longer reach puts its own end on or past the ring.
ASSUME ReachMeetsTheRing ==
  \A e \in Extents, s, t \in Shifts, cov \in {-5, 0, 5} :
    LET reach == HD!WithPlace(e, PlaceExtents(s, t), cov, cov)
        near  == HD!DotOf(HeadAt(-e.left, 0, 50, 50), Centre, [reach EXCEPT !.placeX = FALSE])
    IN /\ e.left >= 900 => near[1] <= -65
       /\ e.left >= 1300 => near[1] <= -100

\* A shift of the face across the frame, as far as the ring is wide and with no
\* turn, brings the dot half way and not on the target; and it brings it nowhere
\* on an axis the range step did not see the face move along.
ASSUME ShiftGoesHalfWay ==
  \A s, t \in Shifts, cov \in {-5, -1, 1, 5} :
    LET reach == HD!WithPlace([d \in HD!Directions |-> 2000], PlaceExtents(s, t), cov, cov)
        dot   == HD!DotOf(HeadAt(0, 0, 50 - reach.signX * reach.place.left, 50), Centre, reach)
    IN /\ dot = IF reach.placeX THEN <<-50, 0>> ELSE <<0, 0>>
       /\ ~HD!OnTarget(dot, HD!HoldTarget("left"))
       /\ reach.placeX <=> (s = 6 \/ t = 6) /\ cov \in {-5, 5}

\* One wild reading after the second frame does not move the dot.
ASSUME FlickerIsThrownOut ==
  \A n \in 3 .. 6, wild \in {-100, 0, 90} :
    HD!Filtered([i \in 1 .. 7 |-> IF i = n THEN wild ELSE 20]) = 20

-----------------------------------------------------------------------------
(* A round of the command-line enrolment.                                  *)
EL == INSTANCE EnrolLook

Stored == <<[centre |-> TRUE, pitch |-> 50], [centre |-> FALSE, pitch |-> 70]>>
Shown == {EL!None, EL!Nobody, EL!Face(0, 45, TRUE), EL!Face(0, 45, FALSE), EL!Face(0, 60, TRUE)}
\* Every third frame is the one that is looked at.
Run(shown) == [i \in 1 .. 24 |-> IF i % 3 = 0 THEN shown[i \div 3] ELSE EL!Nobody]
Started == [i \in 1 .. 3 |-> EL!Face(0, 45, TRUE)]

\* What a round stores is three looks or more, none over the count, each in the
\* pose it asked for and a spacing apart; an error stores nothing. The level the
\* poses are measured from is the centre look's, whatever else was stored.
ASSUME RoundStoresItsPose ==
  \A shown \in [1 .. 5 -> Shown], spacing \in {2, 4} :
    LET r == EL!RunEnroll(Stored, TRUE, Run(Started \o shown), 2, spacing, "up")
    IN IF r.outcome = "error" THEN r.stored = Stored
       ELSE /\ Len(r.samples) = 3 /\ EL!LevelOf(r.stored) = EL!LevelOf(Stored)
            /\ \A i \in DOMAIN r.samples :
                 /\ r.samples[i].face.embedded
                 /\ EL!PoseBinAccepts("up", r.samples[i].face, 50)
                 /\ i > 1 => r.samples[i].at - r.samples[i - 1].at >= spacing

\* No frame is both chin-up and chin-down, or both left and right, at any level.
ASSUME OppositePosesExclude ==
  \A yaw \in {-60, -20, -12, 0, 18, 60}, pitch, level \in {40, 50, 53, 58, 70} :
    LET in(pose) == EL!PoseBinAccepts(pose, EL!Face(yaw, pitch, TRUE), level)
    IN ~(in("up") /\ in("down")) /\ ~(in("left") /\ in("right"))
=============================================================================
