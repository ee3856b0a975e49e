------------------------------- MODULE Gesture -------------------------------
(* One gesture axis of the consent window (consent/detector.rs): a zigzag    *)
(* over the head angle finds the legs of a nod or a shake, and four legs     *)
(* that hang together are a gesture.  Around it the frame loop of            *)
(* wait_for_nods (consent/wait.rs): a followed face that is lost starts both *)
(* detectors over, another face alone for a second sends the request back to *)
(* the scan, the window runs out.                                            *)
(*                                                                           *)
(* A frame is one tick.  The filtered angle is a level in 0..Top; the        *)
(* threshold drifts with the noise between Floor and Ceil.  What the box and *)
(* the other axis say (the box rode the leg, the face moved or had just      *)
(* arrived, the head turned or faced away) is the environment's choice.      *)
(* `legs` also keeps whether the head rested at a leg's end; `read` and *)
(* `broken` are history: the gesture that was read, and the last frame with   *)
(* faces but not the followed one, or extreme that was refused.              *)
EXTENDS Integers, Sequences, SequencesExt

CONSTANTS Top,          \* levels of the angle
          Floor, Ceil,  \* min_thr, max_thr
          MaxAmp,       \* larger is a turn away
          RevFrames,    \* reversed frames that confirm an extreme
          Rest,         \* frames not moving that end a leg
          Idle,         \* frames at rest after which the pivot follows the head
          LegMin, LegMax, GestureSpan,
          MovedAfter,   \* frames another single face must stay (1 s)
          Window        \* the nod window, in frames

ASSUME GestureAssumption ==
  /\ {Top, Floor, Ceil, MaxAmp, RevFrames, Rest, Idle, LegMin, LegMax, GestureSpan,
      MovedAfter, Window} \subseteq Nat
  /\ 0 < Floor /\ Floor <= Ceil /\ LegMax <= GestureSpan

VARIABLES t, status, settled, p, thr, dir, pivot, cand, rev, rest, depart, legs,
          lost, read, broken

zigzag == <<settled, p, thr, dir, pivot, cand, rev, rest, depart>>
gestureVars == <<t, status, zigzag, legs, lost, read, broken>>

Levels == 0 .. Top
Never == -1                       \* a None time
Legs == 4

Distance(a, b) == IF a > b THEN a - b ELSE b - a
Sign(a, b) == IF a > b THEN 1 ELSE -1     \* the way from b to a

GestureInit ==
  /\ t = 0 /\ status = "watching"
  /\ settled = FALSE /\ p = 0 /\ thr = Floor
  /\ dir = 0 /\ pivot = [at |-> 0, t |-> 0] /\ cand = [at |-> 0, t |-> 0]
  /\ rev = 0 /\ rest = Never /\ depart = 0
  /\ legs = <<>> /\ lost = Never
  /\ read = <<>> /\ broken = 0

-----------------------------------------------------------------------------
(* A frame with the followed face in it, read by the mesh at level q. *)

Now == t + 1

\* Only steps far under the threshold teach the noise floor.
Learnt(q) ==
  IF 4 * Distance(q, p) < thr
  THEN {h \in Floor .. Ceil : Distance(h, thr) <= 1} ELSE {thr}

Frame(q) ==
  /\ status = "watching" /\ t < Window
  /\ t' = Now /\ p' = q /\ lost' = Never

Still(q) == q = p

\* The baseline comes from a run of quiet frames; nothing is read before it.
SettleBaseline(q) ==
  /\ Frame(q) /\ ~settled
  /\ settled' \in BOOLEAN
  /\ IF settled' THEN pivot' = [at |-> q, t |-> Now] /\ depart' = Now
                 ELSE UNCHANGED <<pivot, depart>>
  /\ UNCHANGED <<status, thr, dir, cand, rev, rest, legs, read, broken>>

Reading(q) == Frame(q) /\ settled /\ thr' \in Learnt(q) /\ UNCHANGED settled

\* Waiting for the head to leave the pivot; an idle pivot follows the head.
Wait(q) ==
  /\ Reading(q) /\ dir = 0 /\ Distance(q, pivot.at) < thr'
  /\ depart' = IF 4 * Distance(q, pivot.at) < thr' THEN Now ELSE depart
  /\ pivot' = IF Now - pivot.t > Idle THEN [at |-> q, t |-> Now] ELSE pivot
  /\ UNCHANGED <<status, dir, cand, rev, rest, legs, read, broken>>

Depart(q) ==
  /\ Reading(q) /\ dir = 0 /\ Distance(q, pivot.at) >= thr'
  /\ dir' = Sign(q, pivot.at)
  /\ cand' = [at |-> q, t |-> Now]
  /\ UNCHANGED <<status, pivot, rev, rest, depart, legs, read, broken>>

Beyond(q) == dir * (q - cand.at) > 0

Further(q) ==
  /\ Reading(q) /\ dir # 0 /\ Beyond(q)
  /\ cand' = [at |-> q, t |-> Now] /\ rev' = 0
  /\ rest' = IF ~Still(q) THEN Never ELSE IF rest = Never THEN Now ELSE rest
  /\ UNCHANGED <<status, dir, pivot, depart, legs, read, broken>>

Reversed(q) == dir * (cand.at - q) >= thr'
RestFrom(q) == IF rest = Never THEN Now ELSE rest
AtRest(q) == ~Reversed(q) /\ Still(q) /\ Now - RestFrom(q) >= Rest
Turned(q) == Reversed(q) /\ rev + 1 >= RevFrames

\* Neither further nor an extreme yet.
Hover(q) ==
  /\ Reading(q) /\ dir # 0 /\ ~Beyond(q) /\ ~AtRest(q) /\ ~Turned(q)
  /\ rev' = IF Reversed(q) THEN rev + 1 ELSE 0
  /\ rest' = IF Reversed(q) \/ ~Still(q) THEN Never ELSE RestFrom(q)
  /\ UNCHANGED <<status, dir, pivot, cand, depart, legs, read, broken>>

\* The extreme is confirmed: the leg to it, from where the head left its rest
\* for a first one and from the previous extreme for a later one.
LegTo(q) ==
  [start  |-> IF legs = <<>> /\ depart > pivot.t THEN depart ELSE pivot.t,
   end    |-> cand.t,
   dir    |-> dir,
   amp    |-> Distance(cand.at, pivot.at),
   rested |-> AtRest(q)]

Counts(l) == l.end - l.start \in LegMin .. LegMax /\ l.amp <= MaxAmp

Extreme(q) ==
  /\ Reading(q) /\ dir # 0 /\ ~Beyond(q) /\ (AtRest(q) \/ Turned(q))
  /\ rev' = 0 /\ rest' = Never
  /\ pivot' = cand /\ depart' = cand.t
  /\ dir' = IF AtRest(q) THEN 0 ELSE -dir
  /\ cand' = [at |-> q, t |-> Now]

\* Legs whose sequence has outlived the span drop off its front, up to the first
\* that is within it (a leg that counts is: it is shorter than the span).
Kept(l) ==
  LET s == Append(legs, l)
  IN  SubSeq(s, SelectInSeq(s, LAMBDA k : l.end - k.start <= GestureSpan), Len(s))

\* Mutant: any rest after the midpoint is taken for the end.
SpoilsEarly(s) == Last(s).rested /\ Len(s) < Legs \div 2

\* A rest anywhere but between the two motions starts the sequence over.
Spoils(s) == Last(s).rested /\ Len(s) # Legs \div 2

\* What becomes of the sequence: it goes on, starts over, or is a gesture.
StartOver ==
  legs' = <<>> /\ broken' = cand.t /\ UNCHANGED <<status, read>>

Leg(q) ==
  /\ Extreme(q)
  /\ LET l == LegTo(q)
         s == Kept(l)
     IN  \/ StartOver                     \* the box did not ride the leg
         \/ ~Counts(l) /\ StartOver
         \/ /\ Counts(l) /\ Len(s) < Legs /\ ~Spoils(s)
            /\ legs' = s /\ UNCHANGED <<status, read, broken>>
         \/ Counts(l) /\ Len(s) < Legs /\ Spoils(s) /\ StartOver
         \/ /\ Counts(l) /\ Len(s) = Legs
            /\ \/ StartOver               \* moved, just arrived, faced away
               \/ /\ legs' = <<>> /\ read' = s /\ status' = "nodded"
                  /\ UNCHANGED broken

-----------------------------------------------------------------------------
(* Frames without the followed face, and the end of the window. *)

\* Mutant: the signal starts over, the legs found so far stay.
FreshSignal ==
  /\ settled' = FALSE /\ UNCHANGED legs
  /\ dir' = 0 /\ rev' = 0 /\ rest' = Never /\ thr' = Floor
  /\ pivot' = [at |-> 0, t |-> 0] /\ cand' = [at |-> 0, t |-> 0]
  /\ depart' = 0 /\ p' = 0

Fresh ==
  /\ settled' = FALSE /\ legs' = <<>>
  /\ dir' = 0 /\ rev' = 0 /\ rest' = Never /\ thr' = Floor
  /\ pivot' = [at |-> 0, t |-> 0] /\ cand' = [at |-> 0, t |-> 0]
  /\ depart' = 0 /\ p' = 0

\* Lost, or not to be told from another face: both detectors start over.  One
\* other face there for longer than a second is for the scan to decide.
Unfollowed(alone) ==
  /\ status = "watching" /\ t < Window
  /\ t' = Now /\ broken' = Now
  /\ lost' = IF lost = Never THEN Now ELSE lost
  /\ status' = IF alone /\ Now - lost' > MovedAfter THEN "moved" ELSE status
  /\ Fresh
  /\ UNCHANGED read

\* No face at all, or the followed one and a mesh that does not read: the
\* detectors are not fed, and nothing starts over.
Skipped == /\ status = "watching" /\ t < Window /\ t' = Now
           /\ UNCHANGED <<status, zigzag, legs, read, broken>>
NoFace == Skipped /\ UNCHANGED lost
Unread == Skipped /\ lost' = Never

TimeOut ==
  /\ status = "watching" /\ t = Window
  /\ status' = "timeout"
  /\ UNCHANGED <<t, zigzag, legs, lost, read, broken>>

GestureNext ==
  \/ \E q \in Levels : \/ SettleBaseline(q) \/ Wait(q) \/ Depart(q)
                       \/ Further(q) \/ Hover(q) \/ Leg(q)
  \/ \E alone \in BOOLEAN : Unfollowed(alone)
  \/ NoFace \/ Unread \/ TimeOut

GestureSpec == GestureInit /\ [][GestureNext]_gestureVars

-----------------------------------------------------------------------------
(* Properties. *)

(* A gesture that was read is four legs, each at least the lowest threshold  *)
(* tall and no turn away, of a leg's time, all within the span; a leg starts *)
(* at the extreme the last one ended at and goes the other way, unless the   *)
(* head rested there; and it never rested before the last leg.               *)
(* (Oscillation::legs_complete, detector.rs:213-267: two thresholds, four    *)
(* clocks and a list that is cut at both ends decide it together.)           *)
GestureIsFourLegs ==
  read # <<>> =>
    /\ Len(read) = Legs
    /\ read[4].end - read[1].start <= GestureSpan
    /\ \A i \in 1 .. 4 : /\ read[i].amp \in Floor .. MaxAmp
                         /\ read[i].end - read[i].start \in LegMin .. LegMax
    /\ \A i \in 1 .. 3 : \/ read[i].rested /\ read[i + 1].start >= read[i].end
                         \/ /\ read[i + 1].start = read[i].end
                            /\ read[i + 1].dir = -read[i].dir
    /\ ~read[3].rested

(* Nothing came between the legs of a gesture: from its first leg on no frame *)
(* showed faces without the followed one, and no extreme was refused; frames *)
(* that show no face, or whose mesh does not read, are passed over in it.    *)
(* (wait.rs:370-421 starts both detectors over; detector.rs:448 clears the   *)
(* legs.)                                                                    *)
GestureIsUnbroken ==
  read # <<>> => read[1].start >= broken

(* What wait.rs:376-378 says of a lost face: "The followed face is not there, *)
(* or cannot be told from another: nothing counts meanwhile, and a nod begun *)
(* before is forgotten". Not on a frame with no face in it (wait.rs:356).     *)
ForgottenWhenNotThere ==
  [][NoFace \/ (\E alone \in BOOLEAN : Unfollowed(alone)) => legs' = <<>>]_gestureVars

(* What detector.rs:15-18 says of the legs: "every counted leg is at least a *)
(* threshold tall and consecutive legs alternate by construction".           *)
LegsAlternate ==
  \A i \in 1 .. Len(legs) - 1 : legs[i + 1].dir = -legs[i].dir

(* What detector.rs:229-233 says of a rest: "The one rest allowed is at the  *)
(* midpoint, the beat between the two motions".                              *)
RestOnlyAtTheMidpoint ==
  read # <<>> => \A i \in {1, 3} : ~read[i].rested

=============================================================================
