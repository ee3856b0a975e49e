------------------------------- MODULE HeadDot -------------------------------
(***************************************************************************)
(* Where the enrolment walk-through draws the dot: the readings cleaned,   *)
(* the head's place in units of the person's own reach, the path and the   *)
(* holds of the target, and when the dot counts as on it.                  *)
(*                                                                         *)
(* Points, angles and places in the frame are in hundredths (of a ring, of *)
(* a degree, of a frame side); directions are the four of a target.        *)
(***************************************************************************)
EXTENDS Integers, Sequences, SequencesExt

SizeRight == <<14, 24>>
DistanceOf(size) ==
  IF size < SizeRight[1] THEN "far" ELSE IF size > SizeRight[2] THEN "close" ELSE "right"

Directions == {"left", "right", "up", "down"}
RingOfReach == 70
PoseFloor == [left |-> 1200, right |-> 1200, up |-> 1000, down |-> 1200]
PlaceFloor == 3
PlaceMinExtent == 3      \* 0.025 of a frame, rounded up to the unit
PlaceMinCovar == 2

AtLeast(v, floor) == IF v < floor THEN floor ELSE v
Magnitude(v) == IF v < 0 THEN -v ELSE v
Clamped(v, lo, hi) == IF v < lo THEN lo ELSE IF v > hi THEN hi ELSE v

\* The reach from how far the person went each way, by pose and by place. An
\* axis counts by place if the face moved along it in one plain direction.
FromExtents(pose) == [d \in Directions |-> AtLeast((pose[d] * RingOfReach) \div 100, PoseFloor[d])]
PlaceReach(place) == [d \in Directions |-> AtLeast((place[d] * RingOfReach) \div 100, PlaceFloor)]
Counts(place, one, other, covar) ==
  /\ place[one] >= PlaceMinExtent \/ place[other] >= PlaceMinExtent
  /\ Magnitude(covar) >= PlaceMinCovar
Sign(covar) == IF covar < 0 THEN -1 ELSE 1
WithPlace(pose, place, covarX, covarY) ==
  [pose |-> FromExtents(pose), place |-> PlaceReach(place),
   signX |-> Sign(covarX), signY |-> Sign(covarY),
   placeX |-> Counts(place, "left", "right", covarX), placeY |-> Counts(place, "up", "down", covarY)]

\* A reading in ring units, rounded towards zero.
InRings(v, back, forth) == IF v < 0 THEN -((-v * 100) \div back) ELSE (v * 100) \div forth
Mean(p, q, counts) == IF counts THEN (p + q) \div 2 ELSE p

\* w and c are [yaw, pitch, x, y]: the head now, and at this person's centre.
DotOf(w, c, reach) ==
  LET px == InRings(w.yaw - c.yaw, reach.pose.left, reach.pose.right)
      py == InRings(w.pitch - c.pitch, reach.pose.up, reach.pose.down)
      qx == InRings((w.x - c.x) * reach.signX, reach.place.left, reach.place.right)
      qy == InRings((w.y - c.y) * reach.signY, reach.place.up, reach.place.down)
  IN <<Clamped(Mean(px, qx, reach.placeX), -160, 160), Clamped(Mean(py, qy, reach.placeY), -160, 160)>>

-----------------------------------------------------------------------------

OnTargetAlong == 35
OnTargetAcross == 65

\* Along the target's own direction and across it; both sides of each bound are
\* squared and multiplied by the target's distance.
OnTarget(dot, target) ==
  LET ex == dot[1] - target[1]
      ey == dot[2] - target[2]
      rr == target[1] * target[1] + target[2] * target[2]
      along  == ex * target[1] + ey * target[2]
      across == ey * target[1] - ex * target[2]
  IN IF rr < 400 THEN ex * ex + ey * ey <= OnTargetAlong * OnTargetAlong
     ELSE /\ along * along <= OnTargetAlong * OnTargetAlong * rr
          /\ across * across <= OnTargetAcross * OnTargetAcross * rr

HoldZones == <<"centre", "left", "right", "centre", "up", "down">>
HoldTarget(zone) ==
  CASE zone = "left" -> <<-100, 0>> [] zone = "right" -> <<100, 0>>
    [] zone = "up" -> <<0, -100>>   [] zone = "down" -> <<0, 100>>
    [] OTHER -> <<0, 0>>

\* The look a point is nearest to.
ZoneOfPoint(p) ==
  IF Magnitude(p[1]) < 50 /\ Magnitude(p[2]) < 50 THEN "centre"
  ELSE IF Magnitude(p[1]) >= Magnitude(p[2]) THEN (IF p[1] < 0 THEN "left" ELSE "right")
  ELSE IF p[2] < 0 THEN "up" ELSE "down"

\* The target's path at eighths of its ring: out to the left, round over the
\* top, and back. 71 is the sine of an eighth of a turn.
PathStations ==
  <<<<0, 0>>, <<-50, 0>>, <<-100, 0>>, <<-71, -71>>, <<0, -100>>, <<71, -71>>, <<100, 0>>,
    <<71, 71>>, <<0, 100>>, <<-71, 71>>, <<-100, 0>>, <<-50, 0>>, <<0, 0>>>>

-----------------------------------------------------------------------------
(* The filter on one reading: the median of the last three (the greater of *)
(* two), then four tenths of the way to it.                                *)

Median(s) == SortSeq(s, LAMBDA a, b : a < b)[Len(s) \div 2 + 1]
NoReading == [last |-> <<>>, smooth |-> <<>>]
Push(f, v) ==
  LET last == IF Len(f.last) = 3 THEN Append(Tail(f.last), v) ELSE Append(f.last, v)
      m    == Median(last)
  IN [last |-> last,
      smooth |-> IF f.smooth = <<>> THEN <<m>> ELSE <<f.smooth[1] + (4 * (m - f.smooth[1])) \div 10>>]
Filtered(readings) == FoldLeft(Push, NoReading, readings).smooth[1]
=============================================================================
