------------------------------- MODULE Exposure -------------------------------
(***************************************************************************)
(* The infrared exposure loop's arithmetic (faceauth-camera/src/calib.rs): *)
(* from what the meter saw of a frame to the setting to write next.        *)
(*                                                                         *)
(* Factors are percent. A mean is in thousandths of the range above black, *)
(* a clip share in percent. The code's floating point is truncated to      *)
(* whole percents where it makes a factor, and to whole units of exposure  *)
(* and gain where the code truncates.                                      *)
(***************************************************************************)
EXTENDS Integers, FiniteSets

CONSTANTS MinExposure, MaxExposure,   \* ExposureLimits: lines of exposure,
          MinGain, MaxGain,           \* analogue gain,
          MaxDigital                  \* and digital gain, in percent

ASSUME LimitsAssumption ==
  /\ MinExposure \in Nat \ {0} /\ MaxExposure \in Nat /\ MinExposure <= MaxExposure
  /\ MinGain \in Nat /\ MaxGain \in Nat /\ MinGain <= MaxGain
  /\ MaxDigital \in Nat /\ MaxDigital >= 100

AtMost(n, m) == IF n <= m THEN n ELSE m
AtLeast(n, m) == IF n >= m THEN n ELSE m
Scaled(n, f) == (n * f) \div 100

(* Exposure::step. Brightening takes exposure, then gain, then digital      *)
(* gain; darkening unwinds them in reverse.                                 *)
Brighter(s, f) ==
  IF s.exposure < MaxExposure
  THEN [s EXCEPT !.exposure = AtMost(Scaled(@, f) + 1, MaxExposure)]
  ELSE IF s.gain < MaxGain
       THEN [s EXCEPT !.gain = AtMost(Scaled(@, f) + 1, MaxGain)]
       ELSE [s EXCEPT !.digital = AtMost(Scaled(@, f), MaxDigital)]

Darker(s, f) ==
  IF s.digital > 100
  THEN [s EXCEPT !.digital = AtLeast(Scaled(@, f), 100)]
  ELSE IF s.gain > MinGain
       THEN [s EXCEPT !.gain = AtLeast(Scaled(@, f), MinGain)]
       ELSE [s EXCEPT !.exposure = AtLeast(Scaled(@, f), MinExposure)]

Step(s, f) == IF f = 100 THEN s ELSE IF f > 100 THEN Brighter(s, f) ELSE Darker(s, f)

(* ae_factor: the square root of target over mean, in 80..125; no brighter  *)
(* over 5 % clipped, darker over 15 %; nothing within 6 % of where it is.   *)
Target == 300

Root(mean) ==
  LET under == {f \in 80..125 : f * f * mean <= 10000 * Target}
  IN  IF under = {} THEN 80 ELSE CHOOSE f \in under : \A g \in under : g <= f

Factor(mean, clip) ==
  LET held == IF clip > 5 /\ Root(mean) > 100 THEN 100 ELSE Root(mean)
      f == IF clip > 15 THEN AtMost(held, 90) ELSE held
  IN  IF mean = 0 THEN 125 ELSE IF f \in 95..105 THEN 100 ELSE f

(* AutoExposure::observe: a window nearly all white counts as clipped.      *)
Observed(mean, clip) == Factor(mean, IF mean > 950 THEN AtLeast(clip, 20) ELSE clip)

(* metering_window: the raw pixels under a face box given in the oriented   *)
(* frame (transposed, flipped), never empty, clamped to the raw frame.      *)
Back(point, orientation, width, height) ==
  LET w == IF orientation.transpose THEN height ELSE width
      h == IF orientation.transpose THEN width ELSE height
      x == IF orientation.flipX THEN w - 1 - point[1] ELSE point[1]
      y == IF orientation.flipY THEN h - 1 - point[2] ELSE point[2]
  IN  IF orientation.transpose THEN <<y, x>> ELSE <<x, y>>

MeteringWindow(box, orientation, width, height) ==
  LET a == Back(<<AtLeast(box.x, 0), AtLeast(box.y, 0)>>, orientation, width, height)
      b == Back(<<AtLeast(box.x + box.w, 0), AtLeast(box.y + box.h, 0)>>,
                orientation, width, height)
      x0 == AtLeast(AtMost(a[1], b[1]), 0)
      y0 == AtLeast(AtMost(a[2], b[2]), 0)
  IN  [x0 |-> AtMost(x0, width), y0 |-> AtMost(y0, height),
       x1 |-> AtMost(AtLeast(AtLeast(a[1], b[1]), x0 + 1), width),
       y1 |-> AtMost(AtLeast(AtLeast(a[2], b[2]), y0 + 1), height)]
=============================================================================
