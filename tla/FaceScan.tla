------------------------------- MODULE FaceScan -------------------------------
(***************************************************************************)
(* One use of the infrared camera after another: the scan behind a lock    *)
(* screen's attempt and behind a consent round (auth/attempt.rs), the      *)
(* strobe gate every scan reads its pairs from (strobe.rs and StrobePhase  *)
(* in the engine), and the confirm after the nods (auth/confirm.rs).       *)
(*                                                                         *)
(* A frame is what the gate makes of it: its brightness against the frame  *)
(* before (a step up, a step down, or neither, LIT_STEP), and whether the  *)
(* driver dropped frames in front of it. What a face is and what it scores *)
(* is the engine's to say, so each is any of its answers. The deadline,    *)
(* the scoring cap and the confirm's time may run out between two frames.  *)
(***************************************************************************)
EXTENDS StrobePhase, FiniteSets

CONSTANTS Masks,             \* the masks random_pattern may draw
          Required,          \* cfg.required_matches
          LivenessRequired   \* cfg.liveness_required

ASSUME ScanAssumption ==
  /\ Masks # {} /\ Masks \subseteq [1..Span -> BOOLEAN]
  /\ Required \in Nat \ {0}
  /\ LivenessRequired \in BOOLEAN

VARIABLES stage,    \* where the camera's user stands
          lane,     \* the lock screen's attempt, or a consent round
          strobe,   \* this camera's sensor can strobe
          light,    \* the illuminator: off, steady, or on the gate's mask
          frozen,   \* the exposure is held (freeze_exposure)
          stuck,    \* history: the light did not take the last write meant to change it
          gate,     \* the strobe gate, while one is alive (StrobeGate)
          pair,     \* the pair the last frame completed: none, gated, alone
          matches,  \* pairs at or above the threshold
          misses,   \* pairs under it
          outcome,  \* how the scan ended
          charged,  \* a failure was charged to the user for it
          run,      \* history: frames since the mask was written or one was lost
          brighter, \* history: the last frame stepped up from the one before it
          under     \* history: draws the matching pairs came under, with their run

history == <<run, brighter, under>>
counts == <<matches, misses>>
camera == <<light, frozen, stuck>>
result == <<outcome, charged>>
vars == <<stage, lane, strobe, camera, gate, pair, counts, result, history>>

Lanes == {"screen", "consent"}
Ends == {"none", "match", "nomatch", "noface", "denied", "error", "answered",
         "live", "refused", "unclear", "nods"}

NoGate == [mask |-> <<>>, bits |-> <<>>, known |-> FALSE, prev |-> FALSE,
           over |-> FALSE, draws |-> 0, third |-> 0]

Init ==
  /\ stage = "idle" /\ lane = "screen" /\ strobe \in BOOLEAN
  /\ light = "off" /\ frozen = FALSE /\ stuck = FALSE
  /\ gate = NoGate /\ pair = "none" /\ matches = 0 /\ misses = 0
  /\ outcome = "none" /\ charged = FALSE
  /\ run = 0 /\ brighter = FALSE /\ under = {}

-----------------------------------------------------------------------------
(* The gate.                                                                *)

ForgetNothing(g) == g

(* The frame before is forgotten with the phase.                            *)
Forget(g) == [Reset(g) EXCEPT !.prev = FALSE]

(* The gate's redraw: a fresh mask, the bits cleared, the settle restarted; *)
(* the last brightness is kept. Ungated, nothing.                           *)
Redraw(g, mask) ==
  IF g.mask = <<>> THEN g
  ELSE [Drawn(g, mask) EXCEPT !.prev = FALSE, !.over = FALSE, !.draws = g.draws + 1]

(* StrobeGate::start: the exposure frozen, and a mask written if the sensor *)
(* strobes. That write is looked at: without it there is no gate (Fails).   *)
StartGate(next) ==
  /\ \E mask \in Masks :
       gate' = [NoGate EXCEPT !.mask = IF strobe THEN mask ELSE <<>>,
                              !.draws = IF strobe THEN 1 ELSE 0]
  /\ stage' = next
  /\ light' = IF strobe THEN "mask" ELSE light
  /\ stuck' = FALSE /\ frozen' = TRUE /\ pair' = "none"
  /\ matches' = 0 /\ misses' = 0
  /\ run' = 0 /\ brighter' = FALSE /\ under' = {}

(* The writes on the way out are not looked at: the light is what was asked  *)
(* for, or is left as it was by a write that failed.                         *)
Lights(lit, left) ==
  /\ light' \in {lit} \cup (IF strobe THEN left ELSE {})
  /\ stuck' = (light' # lit)

DropForgets(lit) ==        \* mutant: the gate's drop does not write the light
  gate' = NoGate /\ pair' = "none" /\ frozen' = FALSE
  /\ IF lit = "steady" THEN UNCHANGED <<light, stuck>> ELSE Lights(lit, {light, "steady"})

(* The gate's drop, and what becomes of the camera after it: the gate asks   *)
(* for steady light, the end of the scan for none.                           *)
DropGate(lit) ==
  /\ gate' = NoGate /\ pair' = "none" /\ frozen' = FALSE
  /\ Lights(lit, IF gate.mask = <<>> THEN {light} ELSE {light, "steady"})

-----------------------------------------------------------------------------
(* The scan.                                                                *)

(* The attempt's failures that are charged: a face was scored or refused.   *)
Charged(end) == end \in {"nomatch", "denied", "refused"}

Over(end) ==
  /\ stage' = "done" /\ outcome' = end /\ charged' = Charged(end)
  /\ UNCHANGED <<lane, strobe, counts, history>>

End(end) == Over(end) /\ DropGate("off")

Open(l) ==
  /\ stage = "idle"
  /\ lane' = l
  /\ \/ /\ strobe \/ ~LivenessRequired
        /\ stage' = "settle" /\ outcome' = "none"
        /\ light' = IF strobe THEN "steady" ELSE "off"
        /\ stuck' = FALSE
     \/ /\ stage' = "done" /\ outcome' = "error"   \* no strobe, or another camera's templates
        /\ Lights("off", {light, "steady"})
  /\ UNCHANGED <<strobe, frozen, gate, pair, counts, charged, history>>

(* The exposure has settled on a face: the gate starts and follows it.      *)
Settle == stage = "settle" /\ StartGate("score") /\ UNCHANGED <<lane, strobe, result>>

(* StrobeGate::next_frame. A gap in the sequence numbers starts the phase   *)
(* over if the gate holds a frame from before it.                           *)
NextFrame ==
  /\ stage \in {"score", "confirm"} /\ pair = "none"
  /\ \E gap \in BOOLEAN, step \in Steps :
       LET kept == IF gap /\ gate.prev THEN Forget(gate) ELSE gate
           seen == Push(kept, step)
       IN  IF gate.mask = <<>>
           THEN /\ gate' = [gate EXCEPT !.third = (gate.third + 1) % 3]
                /\ pair' = IF gate'.third = 0 THEN "alone" ELSE "none"
                /\ UNCHANGED <<run, brighter>>
           ELSE /\ gate' = [seen EXCEPT !.prev = TRUE]
                /\ pair' = IF kept.prev /\ gate.over /\ Rising(kept, seen) /\ InPhase(seen)
                           THEN "gated" ELSE "none"
                /\ run' = IF gap THEN 1 ELSE IF run < Span THEN run + 1 ELSE run
                /\ brighter' = (step = "up")
  /\ UNCHANGED <<stage, lane, strobe, camera, counts, result, under>>

(* The settle after the mask runs out.                                      *)
MaskSettled ==
  /\ gate.mask # <<>> /\ ~gate.over
  /\ gate' = [gate EXCEPT !.over = TRUE]
  /\ UNCHANGED <<stage, lane, strobe, camera, pair, counts, result, history>>

(* No face, one too far to judge, one that is not the followed box, no      *)
(* strobe signal at it, or no template to score it against: the next frame. *)
PairUnread ==
  /\ pair # "none"
  /\ pair' = "none"
  /\ UNCHANGED <<stage, lane, strobe, camera, gate, counts, result, history>>

(* judge: a measured pair is refused by the exposure read back, if that      *)
(* works and tells of a change, and then by the flash. A read back that      *)
(* fails refuses nothing, and a pair that is not measured is not refused.    *)
Refusable == pair = "gated"
Readable == pair # "none"

PairDenied ==
  /\ Refusable
  /\ \/ stage = "score" /\ End("denied")
     \/ stage = "confirm" /\ End("refused")

(* A live face at or above the threshold. The match that is not the last    *)
(* one redraws the mask.                                                    *)
Needed == IF stage = "confirm" THEN 2 ELSE Required

PairMatches ==
  /\ Readable
  /\ matches' = matches + 1
  /\ under' = under \cup {[draw |-> gate.draws, run |-> run, brighter |-> brighter]}
  /\ IF matches + 1 < Needed
     THEN /\ \E mask \in Masks : gate' = Redraw(gate, mask)
          /\ pair' = "none" /\ run' = 0 /\ brighter' = FALSE
          /\ UNCHANGED <<stage, camera, result>>
     ELSE /\ UNCHANGED <<run, brighter>>
          /\ \/ /\ stage = "score" /\ lane = "screen"
                /\ stage' = "done" /\ outcome' = "match" /\ charged' = FALSE
                /\ DropGate("off")
             \/ /\ stage = "score" /\ lane = "consent"
                /\ stage' = "nods" /\ UNCHANGED result
                /\ DropGate(IF strobe THEN "steady" ELSE "off")
             \/ /\ stage = "confirm" /\ stage' = "nodframes" /\ UNCHANGED result
                /\ DropGate("steady")
  /\ UNCHANGED <<lane, strobe, misses>>

(* A live face under it. In the confirm a second one is the refusal.        *)
PairMisses ==
  /\ Readable
  /\ \/ /\ (stage = "score" \/ misses = 0)
        /\ misses' = 1 /\ pair' = "none"
        /\ UNCHANGED <<stage, lane, strobe, camera, gate, matches, result, history>>
     \/ stage = "confirm" /\ misses = 1 /\ End("refused")

(* The deadline, or the scoring cap once a face has been scored.            *)
TimesUp ==
  \/ stage = "settle" /\ End("noface")
  \/ /\ stage = "score" /\ pair = "none"
     /\ End(IF matches + misses = 0 THEN "noface" ELSE "nomatch")
  \/ stage = "confirm" /\ pair = "none" /\ End("unclear")

(* The window answers before the face has matched.                          *)
Answered ==
  /\ lane = "consent" /\ stage \in {"settle", "score"} /\ pair = "none"
  /\ End("answered")

(* A control, a frame or the engine fails: everything is dropped. A gate     *)
(* that fails to start may have written its mask by then.                    *)
Fails ==
  /\ stage \in {"settle", "score", "nods", "confirm", "nodframes"} /\ Over("error")
  /\ gate' = NoGate /\ pair' = "none" /\ frozen' = FALSE
  /\ Lights("off", {light, "steady", "mask"})

-----------------------------------------------------------------------------
(* The nods and the confirm after them, on the camera still open.           *)

(* The nod window ended without the nods (ConsentRequest says how).         *)
NoNods == stage = "nods" /\ End("nods")

Confirm ==
  /\ stage = "nods" /\ strobe
  /\ StartGate("confirm") /\ UNCHANGED <<lane, strobe, result>>

(* No illuminator: the scan ran ungated by the administrator's leave, and   *)
(* so does the confirm.                                                     *)
ConfirmUngated ==
  /\ stage = "nods" /\ ~strobe
  /\ IF LivenessRequired THEN End("refused")
     ELSE stage' = "nodframes" /\ UNCHANGED <<lane, strobe, camera, gate,
                                              pair, counts, result, history>>

(* No template answers for this camera.                                     *)
ConfirmUnbound == stage = "confirm" /\ Readable /\ End("refused")

(* The frames kept from the nods are the enrolled face, or are not.         *)
NodFrames == stage = "nodframes" /\ \E end \in {"live", "refused"} : End(end)

Again ==
  /\ stage = "done" /\ stage' = "idle" /\ outcome' = "none" /\ charged' = FALSE
  /\ matches' = 0 /\ misses' = 0 /\ run' = 0 /\ brighter' = FALSE /\ under' = {}
  /\ UNCHANGED <<lane, strobe, camera, gate, pair>>

Next ==
  \/ \E l \in Lanes : Open(l)
  \/ Settle \/ NextFrame \/ MaskSettled
  \/ PairUnread \/ PairDenied \/ PairMatches \/ PairMisses
  \/ TimesUp \/ Answered \/ Fails
  \/ NoNods \/ Confirm \/ ConfirmUngated \/ ConfirmUnbound \/ NodFrames \/ Again

(* The camera's state is what its type says.                                *)
TypeOK ==
  /\ stage \in {"idle", "settle", "score", "nods", "confirm", "nodframes", "done"}
  /\ lane \in Lanes /\ strobe \in BOOLEAN /\ light \in {"off", "steady", "mask"}
  /\ frozen \in BOOLEAN /\ stuck \in BOOLEAN
  /\ gate.bits \in UNION {[1..n -> BOOLEAN] : n \in 0..Span}
  /\ pair \in {"none", "gated", "alone"} /\ outcome \in Ends /\ charged \in BOOLEAN
  /\ matches \in 0..(IF Required > 2 THEN Required ELSE 2) /\ misses \in 0..1

(* On a camera that can strobe, the matches that make a match or a live     *)
(* confirm came each under a mask of its own draw, and each from a pair     *)
(* that stepped up after a whole mask's frames had been seen under that     *)
(* draw with none lost: the redraw after a match (attempt.rs, confirm.rs)   *)
(* and the phase lock that starts over at a gap (strobe.rs) together.       *)
EachMatchUnderItsOwnMask ==
  strobe => /\ Cardinality({m.draw : m \in under}) = matches
            /\ \A m \in under : m.run = Span /\ m.brighter

(* A gate takes its pairs under its own mask with the exposure held, never   *)
(* under a light a failed write left, and whatever ends a gate or a scan (a  *)
(* match, a refusal, an answer, an error, the deadline) gives the exposure   *)
(* back; and unless the write that should have changed it failed, which      *)
(* nothing looks at, the light follows: the nods are watched in steady light *)
(* and a camera that nobody uses is dark (StrobeGate's drop, IrCapture::stop). *)
LightFollowsTheStage ==
  /\ stage \in {"score", "confirm"} => light = IF strobe THEN "mask" ELSE "off"
  /\ frozen <=> stage \in {"score", "confirm"}
  /\ gate # NoGate => stage \in {"score", "confirm"}
  /\ ~stuck => /\ stage \in {"nods", "nodframes"} => (light = "steady" <=> strobe)
               /\ stage \in {"idle", "done"} => light = "off"

Spec == Init /\ [][Next]_vars
=============================================================================
