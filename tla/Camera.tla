-------------------------------- MODULE Camera --------------------------------
(***************************************************************************)
(* One use of the infrared camera after another: IrCapture                 *)
(* (faceauth-daemon/src/capture.rs) over Camera and VideoDevice            *)
(* (faceauth-camera/src/lib.rs and v4l2.rs). The daemon's thread asks for  *)
(* frames and steps the exposure; the driver fills the buffers it was      *)
(* given, in order, whether or not anybody asks.                           *)
(*                                                                         *)
(* A frame's pixels are the number of the exposure they came from, written *)
(* in two halves because a buffer may be overwritten while it is read.     *)
(* Frame numbers are the driver's, modulo Numbers. Time passes by frames:  *)
(* a call's deadline is counted in them. Any ioctl may fail; a failure     *)
(* that next returns ends the use, since every caller passes it on. What   *)
(* is written to the sensor is what S_CTRL was asked for: the driver may   *)
(* round it, and the sensor may move by itself.                            *)
(***************************************************************************)
EXTENDS Exposure, CameraGraph

CONSTANTS Nodes,     \* the nodes a use may find (CameraGraph)
          Buffers,   \* the buffers a driver may grant (6 asked for)
          Numbers,   \* frame numbers before they wrap (2^32)
          Timeout,   \* frames a call waits
          Default    \* the exposure a use starts from without a seed (500),
                     \* which nothing holds against the sensor's minimum

ASSUME CameraAssumption ==
  /\ IsFiniteSet(Buffers) /\ \A node \in Nodes : node.granted \subseteq Buffers
  /\ Numbers \in Nat \ {0} /\ Timeout \in Nat \ {0}
  /\ Default \in Nat \ {0}

VARIABLES streaming,  \* STREAMON has been called
          call,       \* where the daemon's thread stands in IrCapture::next
          given,      \* buffers queued to the driver, in order
          done,       \* buffers filled and not yet dequeued, in order
          pixels,     \* each buffer's content: its two halves
          hand,       \* the FrameRef: a buffer, its number, its fate
          number,     \* the number of the sensor's next frame
          left,       \* frames to the deadline of the call
          frame,      \* IrCapture's frame: its number and the halves decoded
          asked,      \* what was last written to the sensor's controls
          applied,    \* Camera::applied
          loop,       \* AutoExposure::exposure
          next,       \* the setting observe has asked for
          metering,   \* the loop may step (freeze_exposure)
          seed        \* the last use's exposure (Authenticator::last_exposure)

buffers == <<given, done, pixels>>
exposing == <<asked, applied, loop, next, metering, seed>>
vars == <<streaming, call, buffers, hand, number, left, frame, exposing>>

Nobody == [buf |-> 0, seq |-> 0]   \* no buffer in hand
None == [exposure |-> 0, gain |-> 0, digital |-> 0]
Blank == [seq |-> 0, top |-> 0, bottom |-> 0]

(* How the driver may hand a buffer back.                                   *)
Fates == {"whole", "short", "error", "empty"}
Usable(fate) == fate \in {"whole", "short"}

Start == [exposure |-> AtMost(Default, MaxExposure), gain |-> MinGain, digital |-> 100]

(* Within the limits, but for an exposure that started under the minimum.   *)
Lowest == AtMost(Default, MinExposure)
Allowed == [exposure : Lowest..MaxExposure,
            gain : MinGain..MaxGain, digital : 100..MaxDigital]

Init ==
  /\ streaming = FALSE /\ call = "none"
  /\ given = <<>> /\ done = <<>> /\ pixels = [b \in Buffers |-> <<0, 0>>]
  /\ hand = Nobody /\ number = 0 /\ left = 0 /\ frame = Blank
  /\ asked = Start /\ applied = None /\ loop = Start /\ next = None
  /\ metering = TRUE /\ seed = None

-----------------------------------------------------------------------------
(* Opening and closing.                                                     *)

(* Camera::open and the rest of open_at, up to the first write: a node that *)
(* opens, and the buffers it grants mapped and queued. A presence look      *)
(* starts from the remembered exposure, any other use from the default.     *)
Open ==
  /\ ~streaming /\ call = "none"
  /\ \E node \in Nodes : Opens(node) /\ given' = SetToSeq(node.granted)
  /\ done' = <<>> /\ number' = 0
  /\ frame' = Blank /\ applied' = None
  /\ next' \in {Start, seed} \ {None}
  /\ loop' = next' /\ metering' = TRUE
  /\ call' = "exposure"
  /\ UNCHANGED <<streaming, pixels, hand, left, asked, seed>>

(* A presence look remembers its exposure, face or no face, and so does an   *)
(* attempt once it has settled.                                             *)
Remember ==
  /\ streaming /\ call = "none" /\ seed' = loop
  /\ UNCHANGED <<streaming, call, buffers, hand, number, left, frame,
                 asked, applied, loop, next, metering>>

(* The use is over, by stop or by the error a call returned: what it had is *)
(* dropped, and the drop stops the stream and unmaps.                       *)
Close ==
  /\ streaming' = FALSE /\ call' = "none" /\ given' = <<>> /\ done' = <<>>
  /\ pixels' = [b \in Buffers |-> <<0, 0>>] /\ hand' = Nobody
  /\ number' = 0 /\ left' = 0 /\ frame' = Blank
  /\ applied' = None /\ loop' = Start /\ next' = None /\ metering' = TRUE
  /\ UNCHANGED <<asked, seed>>

Stop == streaming /\ call = "none" /\ Close

Fails == call # "none" /\ Close

(* Start of a gate, and its drop.                                           *)
Freeze ==
  /\ streaming /\ call = "none" /\ metering' = ~metering
  /\ UNCHANGED <<streaming, call, buffers, hand, number, left, frame,
                 asked, applied, loop, next, seed>>

-----------------------------------------------------------------------------
(* The driver.                                                              *)

(* A frame is exposed. It goes to the first buffer given, in two halves, or *)
(* nowhere; or the sensor has stalled and only time passes. A call that     *)
(* waits looks at a ready buffer, or at the clock, within a frame's time.   *)
Expose ==
  /\ streaming
  /\ ~(call = "waiting" /\ (done # <<>> \/ left = 0))
  /\ left' = IF left > 0 THEN left - 1 ELSE 0
  /\ \/ /\ number' = (number + 1) % Numbers
        /\ IF given = <<>> THEN UNCHANGED buffers
           ELSE /\ given' = Tail(given)
                /\ done' = Append(done, Head(given))
                /\ pixels' = [pixels EXCEPT ![Head(given)] = <<number, number>>]
     \/ UNCHANGED <<buffers, number>>
  /\ UNCHANGED <<streaming, call, hand, frame, exposing>>

-----------------------------------------------------------------------------
(* IrCapture::next.                                                         *)

Ask ==
  /\ streaming /\ call = "none"
  /\ call' = "waiting" /\ left' = Timeout
  /\ UNCHANGED <<streaming, buffers, hand, number, frame, exposing>>

DeadlineRestarts ==
  /\ call = "waiting" /\ done # <<>>
  /\ done' = Tail(done) /\ given' = Append(given, Head(done)) /\ left' = Timeout
  /\ UNCHANGED <<streaming, call, pixels, hand, number, frame, exposing>>

(* VideoDevice::next_frame, a ready buffer: one flagged or empty is given   *)
(* back and the wait goes on to the same deadline.                          *)
SkipBad ==
  /\ call = "waiting" /\ done # <<>>
  /\ done' = Tail(done) /\ given' = Append(given, Head(done))
  /\ UNCHANGED <<streaming, call, pixels, hand, number, left, frame, exposing>>

NumberFirst ==
  /\ call = "waiting" /\ done # <<>>
  /\ \E fate \in {f \in Fates : Usable(f)} :
       call' = IF fate = "whole" THEN "top" ELSE "putback"
  /\ hand' = [buf |-> Head(done), seq |-> pixels[Head(done)][1]]
  /\ frame' = [frame EXCEPT !.seq = hand'.seq]
  /\ done' = Tail(done)
  /\ UNCHANGED <<streaming, given, pixels, number, left, exposing>>

(* A usable one is the caller's: decoded if it is whole.                    *)
Dequeue ==
  /\ call = "waiting" /\ done # <<>>
  /\ \E fate \in {f \in Fates : Usable(f)} :
       call' = IF fate = "whole" THEN "top" ELSE "putback"
  /\ hand' = [buf |-> Head(done), seq |-> pixels[Head(done)][1]]
  /\ done' = Tail(done)
  /\ UNCHANGED <<streaming, given, pixels, number, left, frame, exposing>>

TimesOut ==
  /\ call = "waiting" /\ done = <<>> /\ left = 0
  /\ call' = "none"
  /\ UNCHANGED <<streaming, buffers, hand, number, left, frame, exposing>>

(* Camera::capture: the halves are decoded, and the frame takes the number. *)
DecodeTop ==
  /\ call = "top" /\ call' = "bottom"
  /\ frame' = [frame EXCEPT !.top = pixels[hand.buf][1]]
  /\ UNCHANGED <<streaming, buffers, hand, number, left, exposing>>

DecodeBottom ==
  /\ call = "bottom" /\ call' = "decoded"
  /\ frame' = [frame EXCEPT !.bottom = pixels[hand.buf][2], !.seq = hand.seq]
  /\ UNCHANGED <<streaming, buffers, hand, number, left, exposing>>

(* FrameRef's drop gives the buffer back, or fails to and says nothing.     *)
GiveBack == given' \in {Append(given, hand.buf), given}

PutBack ==
  /\ call \in {"decoded", "putback"} /\ GiveBack
  /\ call' = IF call = "putback" THEN "none" ELSE IF metering THEN "meter" ELSE "none"
  /\ hand' = Nobody
  /\ UNCHANGED <<streaming, done, pixels, number, left, frame, exposing>>

(* AutoExposure::observe: no step due or none called for, or a new setting. *)
Observe ==
  /\ call = "meter"
  /\ \E f \in 80..125 :
       LET to == Step(loop, f)
       IN  IF f \in 95..105 \ {100} THEN FALSE
           ELSE IF to = loop THEN call' = "none" /\ UNCHANGED next
           ELSE call' = "exposure" /\ next' = to
  /\ UNCHANGED <<streaming, buffers, hand, number, left, frame, asked, applied,
                 loop, metering, seed>>

(* Camera::set_exposure: what changed is written, the exposure and then the *)
(* gain, and the setting asked for is recorded once both are: what S_CTRL   *)
(* says the driver made of it is not looked at.                             *)
SetExposure ==
  /\ call = "exposure" /\ call' = "gain"
  /\ asked' = IF applied = None \/ applied.exposure # next.exposure
               THEN [asked EXCEPT !.exposure = next.exposure] ELSE asked
  /\ UNCHANGED <<streaming, buffers, hand, number, left, frame, applied, loop, next,
                 metering, seed>>

GainOnlyIfSet ==
  /\ call = "gain"
  /\ asked' = IF applied # None /\ applied.gain # next.gain
               THEN [asked EXCEPT !.gain = next.gain] ELSE asked
  /\ applied' = next /\ loop' = next /\ next' = None
  /\ streaming' = TRUE /\ call' = "none"
  /\ UNCHANGED <<buffers, hand, number, left, frame, metering, seed>>

(* The gain written, the setting is recorded in the camera and in the loop; *)
(* the first one of a use is followed by STREAMON.                          *)
SetGain ==
  /\ call = "gain"
  /\ asked' = IF applied = None \/ applied.gain # next.gain
               THEN [asked EXCEPT !.gain = next.gain] ELSE asked
  /\ applied' = next /\ loop' = next /\ next' = None
  /\ streaming' = TRUE /\ call' = "none"
  /\ UNCHANGED <<buffers, hand, number, left, frame, metering, seed>>

Thread ==
  \/ SkipBad \/ Dequeue \/ TimesOut \/ DecodeTop \/ DecodeBottom \/ PutBack
  \/ Observe \/ SetExposure \/ SetGain

Next == Open \/ Remember \/ Stop \/ Fails \/ Freeze \/ Ask \/ Thread \/ Expose

(* The thread inside a call goes on, and the sensor exposes or time passes. *)
Spec == Init /\ [][Next]_vars /\ WF_vars(Thread) /\ WF_vars(Expose)

-----------------------------------------------------------------------------
(* Between two calls the frame the daemon holds is one exposure of the      *)
(* sensor, whole, under that exposure's own number: a gate that compares    *)
(* numbers sees every frame lost, flagged, empty or short between two it    *)
(* was handed (Camera::capture, FrameRef's drop, strobe.rs's gap test).     *)
FrameIsWhole ==
  streaming /\ call = "none" => frame.seq = frame.top /\ frame.top = frame.bottom

(* No setting the loop asks for raises the gain with exposure to spare, or  *)
(* multiplies digitally with gain to spare, and none is out of the limits,  *)
(* but for the default exposure under a sensor's minimum: through any order *)
(* of steps either way and any seed a use left behind (Exposure::step,      *)
(* open_at).                                                                *)
ActuatorsInOrder ==
  \A s \in {loop, next, seed} \ {None} :
    /\ s \in Allowed
    /\ s.gain > MinGain => s.exposure = MaxExposure
    /\ s.digital > 100 => s.gain = MaxGain

(* While a use streams and no write is under way, what the camera and the   *)
(* loop believe is what was last written to the sensor, though each use     *)
(* starts after writes of other uses, or half of one that failed, and       *)
(* writes only what it believes has changed. (set_exposure's record.)  The  *)
(* sensor itself may hold a rounding of it or have moved: the gate reads it *)
(* back for that, the loop goes by the frames.                              *)
RecordIsWhatWasAsked ==
  streaming /\ call \notin {"exposure", "gain"} =>
    /\ applied = loop
    /\ asked.exposure = loop.exposure /\ asked.gain = loop.gain

(* Together: the settings asked for and those recorded are the same legal   *)
(* ones.                                                                    *)
SettingsHold == ActuatorsInOrder /\ RecordIsWhatWasAsked

(* A call for a frame comes back: with the sensor stalled, with every       *)
(* buffer lost, and with bad buffers without end (next_frame's deadline).   *)
CallReturns == call = "waiting" ~> call # "waiting"
=============================================================================
