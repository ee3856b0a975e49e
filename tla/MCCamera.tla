------------------------------- MODULE MCCamera -------------------------------
(* Two buffers of the driver: one being read and one being filled. Frame     *)
(* numbers wrap after three, a call waits for two frames, and the exposure   *)
(* has room for one step up and one down.                                    *)
EXTENDS Camera

(* One node that grants both buffers, one that grants one, and two that do  *)
(* not open: nothing to decode, and another format than the one asked for.  *)
Good == [caps |-> {"capture", "streaming"}, formats |-> <<"mjpeg", "grey">>,
         settles |-> "grey", planes |-> 1, granted |-> {1, 2}, controls |-> {"exposure"}]
MCNodes == {Good, [Good EXCEPT !.granted = {2}], [Good EXCEPT !.formats = <<"mjpeg">>],
            [Good EXCEPT !.settles = "mjpeg"]}

(* Over every graph of two entities: a usable infrared sensor is found      *)
(* whatever else is on the graph, one that faces away never is, and the     *)
(* probe fails only when nothing came through and something would not       *)
(* answer (ipu3.rs: probe, pick).                                           *)
Entity == [port : {0, 1}, reads : {"nothing", "error", "sensor"}, kind : Kinds,
           facing : Facing]
Usables(g) == {e \in g : e.reads = "sensor" /\ e.kind = "infrared"
                        /\ e.facing \in {"front", "unknown"}}
ASSUME SensorIsFound ==
  \A a, b \in Entity :
    LET g == {a, b} found == Pick(g, "infrared")
    IN  /\ found \subseteq Usables(g) /\ (found = {} <=> Usables(g) = {})
        /\ ProbeFails(g) => Usables(g) = {}
        /\ \A e \in found : e.facing = "unknown" =>
             ~\E o \in Usables(g) : o.facing = "front"

(* A second loop, with room to move: 60 lines of exposure, gains of 4 to 9. *)
Loop == INSTANCE Exposure WITH MinExposure <- 1, MaxExposure <- 60,
                               MinGain <- 4, MaxGain <- 9, MaxDigital <- 100

(* The loop closed over a steady scene, which reads mean = light * exposure *)
(* * gain / 1000, saturating, smoothed by two fifths (Smoother::push).      *)
Mean(light, s) == LET m == (light * s.exposure * s.gain) \div 1000
                  IN  IF m < 1000 THEN m ELSE 1000
Looped(light, x) ==
  LET mean == Mean(light, x.s)
      seen == IF x.acc < 0 THEN mean ELSE x.acc + (2 * (mean - x.acc)) \div 5
  IN  [s |-> Loop!Step(x.s, Loop!Observed(seen, IF mean > 950 THEN 20 ELSE 0)),
       acc |-> seen]
After(light, s) ==
  LET run[n \in 0..60] == IF n = 0 THEN [s |-> s, acc |-> 0 - 1]
                          ELSE CHOOSE y \in {Looped(light, x) : x \in {run[n - 1]}} : TRUE
  IN  {run[n].s : n \in 40..60}

(* From any end of the range, a scene whose fitting exposure is five lines  *)
(* or more settles: the square root and the six percent under-shoot rather  *)
(* than oscillate (calib.rs: ae_factor). Below five lines one line more is  *)
(* a step of over six percent each way, and the loop goes on hunting.       *)
Ends == {[exposure |-> e, gain |-> g, digital |-> 100] : e \in {1, 60}, g \in {4, 9}}
ASSUME LoopSettles ==
  \A lines \in {5, 6, 7, 8, 10, 13, 20, 35, 60, 80, 110} :
    LET light == 75000 \div lines
    IN  \A s \in {e \in Ends : e.gain > 4 => e.exposure = 60} :
          Cardinality(After(light, s)) = 1
ASSUME LoopHunts ==
  Cardinality(After((75000 * 2) \div 7, [exposure |-> 60, gain |-> 4, digital |-> 100])) = 2

(* The metering window lies under the oriented box, to a pixel, in every    *)
(* orientation of a five by four frame.                                     *)
Orientations == [transpose : BOOLEAN, flipX : BOOLEAN, flipY : BOOLEAN]
Oriented(p, o) == Loop!Back(p, o, 5, 4)
ASSUME WindowUnderTheBox ==
  \A o \in Orientations, x \in 0..2, y \in 0..2, w \in 1..2, h \in 1..2 :
    LET v == Loop!MeteringWindow([x |-> x, y |-> y, w |-> w, h |-> h], o, 5, 4)
    IN  /\ v.x0 <= v.x1 /\ v.y0 <= v.y1 /\ v.x1 <= 5 /\ v.y1 <= 4
        /\ \A p \in (v.x0..(v.x1 - 1)) \X (v.y0..(v.y1 - 1)) :
             \E q \in (x..(x + w)) \X (y..(y + h)) : Oriented(q, o) = p
=============================================================================
