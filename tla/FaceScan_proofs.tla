---------------------------- MODULE FaceScan_proofs ----------------------------
(***************************************************************************)
(* Theorems about the scan and the confirm (FaceScan), for any masks, any  *)
(* number of matches asked for, and with or without the liveness gate      *)
(* required; then about the gesture read between the two (Gesture).        *)
(***************************************************************************)
EXTENDS FaceScan, Gesture, Integers, FiniteSetTheorems, SequenceTheorems,
        WellFoundedInduction, TLAPS

(* A gate has a strobe gate's fields.                                       *)
IsGate(g) ==
  g = [mask |-> g.mask, bits |-> g.bits, known |-> g.known, prev |-> g.prev,
       over |-> g.over, draws |-> g.draws, third |-> g.third]

Gated == stage \in {"score", "confirm"}

(* Where the camera's user may stand, and the light of each place: the mask *)
(* of a gate is there, and lit, exactly while a gate runs on a sensor that  *)
(* strobes; a confirm runs on no other. The other lights are as asked for    *)
(* unless the write failed.                                                 *)
Stages == {"idle", "settle", "score", "nods", "confirm", "nodframes", "done"}

LightInv ==
  /\ stage \in Stages /\ strobe \in BOOLEAN /\ IsGate(gate)
  /\ frozen \in BOOLEAN /\ (frozen <=> Gated) /\ stuck \in BOOLEAN
  /\ Gated => (strobe <=> gate.mask # <<>>) /\ light = (IF strobe THEN "mask" ELSE "off")
  /\ ~Gated => gate = NoGate
  /\ ~strobe => light = "off"
  /\ stage \in {"nods", "nodframes"} /\ ~stuck => light = (IF strobe THEN "steady" ELSE "off")
  /\ stage \in {"idle", "done"} /\ ~stuck => light = "off"
  /\ stage = "confirm" => strobe

(* It says what the property asks for.                                      *)
LEMMA LightOfInv == LightInv => LightFollowsTheStage
BY DEF LightInv, LightFollowsTheStage, Gated, Stages, NoGate

(* A mask is not the empty one of a gate that does not strobe.              *)
LEMMA MaskIsSomething == ASSUME NEW mask \in Masks PROVE mask # <<>>
<1>1. mask \in [1..Span -> BOOLEAN] BY ScanAssumption DEF ScanAssumption
<1>2. DOMAIN mask = 1..Span /\ 1 \in 1..Span BY <1>1, SpanAssumption DEF SpanAssumption
<1>3. DOMAIN <<>> = {} OBVIOUS
<1>. QED BY <1>2, <1>3

(* No gate has a gate's fields.                                             *)
LEMMA NoGateIsGate == IsGate(NoGate)
BY DEF IsGate, NoGate

(* What every way out of a scan leaves behind.                              *)
LEMMA EndKeeps == ASSUME LightInv, NEW end, End(end) PROVE LightInv'
BY NoGateIsGate DEF LightInv, End, Over, DropGate, Lights, Gated, Stages

(* A gate that starts, in the scan or in the confirm, lights its mask.      *)
LEMMA StartKeeps ==
  ASSUME LightInv, NEW next \in {"score", "confirm"}, StartGate(next), UNCHANGED strobe,
         stage \in {"settle", "nods"}, next = "confirm" => strobe
  PROVE  LightInv'
<1>. PICK mask \in Masks :
       gate' = [NoGate EXCEPT !.mask = IF strobe THEN mask ELSE <<>>,
                              !.draws = IF strobe THEN 1 ELSE 0]
     BY DEF StartGate
<1>1. IsGate(gate') /\ gate'.mask = IF strobe THEN mask ELSE <<>> BY DEF IsGate, NoGate
<1>2. mask # <<>> BY MaskIsSomething
<1>. QED BY <1>1, <1>2 DEF LightInv, StartGate, Gated, Stages

(* What Push makes of a gate that holds at most a mask's bits.              *)
Holds(g) == IsGate(g) /\ g.bits \in Seq(BOOLEAN) /\ Len(g.bits) <= Span

(* A frame recorded keeps that, and its class is the last bit.              *)
LEMMA PushHolds ==
  ASSUME NEW g, Holds(g), NEW step
  PROVE  LET q == Push(g, step)
         IN  /\ Holds(q) /\ q.mask = g.mask /\ q.draws = g.draws
             /\ Len(q.bits) <= Len(g.bits) + 1 /\ Len(q.bits) > 0
             /\ q.bits[Len(q.bits)] = Lit(g, step)
<1>. DEFINE lit == Lit(g, step)
            bits == Append(g.bits, lit)
            q == Push(g, step)
<1>1. lit \in BOOLEAN BY DEF Lit
<1>2. q = [g EXCEPT !.known = TRUE, !.bits = IF Len(bits) > Span THEN Tail(bits) ELSE bits]
  BY DEF Push
<1>. HIDE DEF lit, q
<1>. SUFFICES /\ Holds(q) /\ q.mask = g.mask /\ q.draws = g.draws
              /\ Len(q.bits) <= Len(g.bits) + 1 /\ Len(q.bits) > 0
              /\ q.bits[Len(q.bits)] = lit
  BY DEF lit, q
<1>3. bits \in Seq(BOOLEAN) /\ Len(bits) = Len(g.bits) + 1 /\ bits[Len(bits)] = lit
  BY <1>1 DEF Holds
<1>4. IsGate(q) /\ q.mask = g.mask /\ q.draws = g.draws
      /\ q.bits = IF Len(bits) > Span THEN Tail(bits) ELSE bits
  BY <1>2 DEF Holds, IsGate
<1>. HIDE DEF bits
<1>5. CASE Len(bits) > Span
  <2>1. Len(bits) = Span + 1 /\ Len(bits) > 1 BY <1>3, <1>5, SpanAssumption DEF Holds, SpanAssumption
  <2>2. Tail(bits) \in Seq(BOOLEAN) /\ Len(Tail(bits)) = Span
        /\ Tail(bits)[Span] = bits[Span + 1]
    BY <1>3, <2>1, SpanAssumption DEF SpanAssumption
  <2>3. q.bits = Tail(bits) BY <1>4, <1>5
  <2>4. Len(q.bits) = Span /\ q.bits[Len(q.bits)] = lit
    BY <1>3, <2>1, <2>2, <2>3
  <2>5. Len(g.bits) = Span BY <1>3, <2>1, SpanAssumption DEF Holds, SpanAssumption
  <2>6. Holds(q)
    <3>1. IsGate(q) BY <1>4
    <3>2. q.bits \in Seq(BOOLEAN) BY <2>2, <2>3
    <3>3. Len(q.bits) <= Span BY <2>4, SpanAssumption DEF SpanAssumption
    <3>. QED BY <3>1, <3>2, <3>3 DEF Holds
  <2>7. Len(q.bits) <= Len(g.bits) + 1 /\ Len(q.bits) > 0
    BY <2>4, <2>5, SpanAssumption DEF SpanAssumption
  <2>. QED BY <1>4, <2>4, <2>6, <2>7
<1>6. CASE ~(Len(bits) > Span)
  BY <1>3, <1>4, <1>6, SpanAssumption DEF Holds, SpanAssumption
<1>. QED BY <1>5, <1>6

(* No bits are few enough.                                                  *)
LEMMA EmptyBits == ASSUME NEW g, IsGate(g), g.bits = <<>> PROVE Holds(g) /\ Len(g.bits) = 0
<1>1. <<>> \in Seq(BOOLEAN) /\ Len(<<>>) = 0 OBVIOUS
<1>2. Len(<<>>) <= Span BY <1>1, SpanAssumption DEF SpanAssumption
<1>. QED BY <1>1, <1>2 DEF Holds

(* A lost frame leaves none of them, under the same mask and draw.          *)
LEMMA ForgetHolds ==
  ASSUME NEW g, Holds(g)
  PROVE  /\ Holds(Forget(g)) /\ Forget(g).bits = <<>>
         /\ Forget(g).mask = g.mask /\ Forget(g).draws = g.draws
<1>. DEFINE r == Reset(g)
            f == [r EXCEPT !.prev = FALSE]
<1>1. IsGate(g) /\ r = [g EXCEPT !.bits = <<>>, !.known = FALSE] BY DEF Holds, Reset
<1>2. Forget(g) = f BY DEF Forget
<1>. HIDE DEF r
<1>3. IsGate(r) /\ r.bits = <<>> /\ r.mask = g.mask /\ r.draws = g.draws BY <1>1 DEF IsGate
<1>4. f = [r EXCEPT !.prev = FALSE] OBVIOUS
<1>. HIDE DEF f
<1>5. IsGate(f) /\ f.bits = <<>> /\ f.mask = g.mask /\ f.draws = g.draws
  BY <1>3, <1>4 DEF IsGate
<1>. QED BY <1>2, <1>5, EmptyBits

(* A frame leaves the light and the mask as they were.                      *)
LEMMA NextFrameKeeps == ASSUME LightInv, NextFrame, Holds(gate) PROVE LightInv'
<1>. PICK gap \in BOOLEAN, step \in Steps :
       LET kept == IF gap /\ gate.prev THEN Forget(gate) ELSE gate
           seen == Push(kept, step)
       IN  IF gate.mask = <<>>
           THEN gate' = [gate EXCEPT !.third = (gate.third + 1) % 3]
           ELSE gate' = [seen EXCEPT !.prev = TRUE]
     BY DEF NextFrame
<1>. DEFINE kept == IF gap /\ gate.prev THEN Forget(gate) ELSE gate
            seen == Push(kept, step)
<1>1. Holds(kept) /\ kept.mask = gate.mask
  BY ForgetHolds
<1>2. IsGate(seen) /\ seen.mask = gate.mask BY <1>1, PushHolds DEF Holds
<1>3. IsGate(gate') /\ gate'.mask = gate.mask
  <2>1. CASE gate.mask = <<>> BY <2>1 DEF LightInv, IsGate
  <2>2. CASE gate.mask # <<>> BY <2>2, <1>2 DEF IsGate
  <2>. QED BY <2>1, <2>2
<1>. QED BY <1>3 DEF LightInv, NextFrame, Gated, camera

(* A match redraws a mask that is there, or drops it with the gate.         *)
LEMMA PairMatchesKeeps == ASSUME LightInv, PairMatches, pair # "none" => Gated PROVE LightInv'
<1>1. CASE matches + 1 < Needed
  <2>. PICK mask \in Masks : gate' = Redraw(gate, mask) BY <1>1 DEF PairMatches
  <2>1. IsGate(gate') /\ (gate'.mask = <<>> <=> gate.mask = <<>>)
    BY MaskIsSomething DEF LightInv, IsGate, Redraw, Drawn
  <2>2. UNCHANGED <<stage, strobe, light, frozen, stuck>> BY <1>1 DEF PairMatches, camera
  <2>3. Gated /\ Gated' BY <2>2 DEF PairMatches, Readable, Gated
  <2>. QED BY <2>1, <2>2, <2>3 DEF LightInv, Gated
<1>2. CASE ~(matches + 1 < Needed)
  BY <1>2, NoGateIsGate DEF LightInv, PairMatches, DropGate, Lights, Gated, Stages
<1>. QED BY <1>1, <1>2

(* A pair is there only while a gate runs, and a gate on a mask makes no    *)
(* other pair than its own.                                                 *)
PairPlace ==
  /\ pair # "none" => Gated
  /\ pair \in {"none"} \cup (IF strobe THEN {"gated"} ELSE {"alone"})

(* Every step keeps the light's part.                                       *)
LEMMA LightStep == ASSUME LightInv, PairPlace, Gated => Holds(gate), [Next]_vars PROVE LightInv'
<1>1. CASE UNCHANGED vars
  BY <1>1 DEF LightInv, vars, camera, Gated
<1>2. ASSUME NEW l \in Lanes, Open(l) PROVE LightInv'
  BY <1>2 DEF LightInv, Open, Lights, Gated, Stages
<1>3. CASE Settle
  <2>1. StartGate("score") /\ UNCHANGED strobe /\ stage = "settle" BY <1>3 DEF Settle
  <2>. QED BY <2>1, StartKeeps
<1>4. CASE NextFrame BY <1>4, NextFrameKeeps DEF NextFrame, Gated
<1>5. CASE MaskSettled
  <2>1. UNCHANGED <<stage, strobe, light, frozen, stuck>> BY <1>5 DEF MaskSettled, camera
  <2>2. IsGate(gate') /\ gate'.mask = gate.mask BY <1>5 DEF LightInv, MaskSettled, IsGate
  <2>3. Gated /\ Gated' BY <1>5, <2>1 DEF LightInv, MaskSettled, NoGate, Gated
  <2>. QED BY <2>1, <2>2, <2>3 DEF LightInv, Gated
<1>6. CASE PairUnread
  BY <1>6 DEF LightInv, PairUnread, camera, Gated
<1>7. CASE PairDenied BY <1>7, EndKeeps DEF PairDenied
<1>8. CASE PairMatches BY <1>8, PairMatchesKeeps DEF PairPlace
<1>9. CASE PairMisses BY <1>9, EndKeeps DEF PairMisses, LightInv, camera, Gated
<1>10. CASE TimesUp BY <1>10, EndKeeps DEF TimesUp
<1>11. CASE Answered \/ NoNods \/ ConfirmUnbound
  BY <1>11, EndKeeps DEF Answered, NoNods, ConfirmUnbound
<1>16. CASE Fails
  BY <1>16, NoGateIsGate DEF LightInv, Fails, Over, Lights, Gated, Stages
<1>12. CASE Confirm
  <2>1. StartGate("confirm") /\ UNCHANGED strobe /\ stage = "nods" /\ strobe
    BY <1>12 DEF Confirm
  <2>. QED BY <2>1, StartKeeps
<1>13. CASE ConfirmUngated
  BY <1>13, EndKeeps DEF ConfirmUngated, LightInv, camera, Gated, Stages
<1>14. CASE NodFrames BY <1>14, EndKeeps DEF NodFrames
<1>15. CASE Again BY <1>15 DEF Again, LightInv, camera, Gated, Stages
<1>. QED
  BY <1>1, <1>2, <1>3, <1>4, <1>5, <1>6, <1>7, <1>8, <1>9, <1>10, <1>11, <1>12,
     <1>13, <1>14, <1>15, <1>16 DEF Next

-----------------------------------------------------------------------------
(* The bits a gate holds are no more than the frames seen since its mask    *)
(* was written or one was lost, and none before the first of them.          *)
BitsInv ==
  Gated => /\ Holds(gate) /\ gate.draws \in Nat
           /\ strobe => /\ run \in 0..Span /\ Len(gate.bits) <= run
                        /\ ~gate.prev => gate.bits = <<>>

(* A pair of the gate's stepped up at the end of a whole mask's frames.     *)
PairInv == PairPlace /\ (pair = "gated" => run = Span /\ brighter)

(* Every match under a draw before the gate's own, one match to a draw.     *)
Draws == {m.draw : m \in under}

MatchInv ==
  strobe => /\ IsFiniteSet(Draws) /\ Cardinality(Draws) = matches
            /\ \A m \in under : m.run = Span /\ m.brighter
            /\ Gated => \A d \in Draws : d \in Nat /\ d < gate.draws

(* The inductive invariant: the light's part, and the matches' part.        *)
ScanInv == BitsInv /\ PairInv /\ MatchInv

IInv == LightInv /\ ScanInv

(* The initial state, then the steps.                                       *)
LEMMA InitIInv == Init => IInv
<1>. SUFFICES ASSUME Init PROVE IInv OBVIOUS
<1>1. LightInv BY NoGateIsGate DEF Init, LightInv, Gated, Stages
<1>2. BitsInv /\ PairInv BY DEF Init, BitsInv, PairInv, PairPlace, Gated
<1>3. Draws = {} BY DEF Init, Draws
<1>4. MatchInv BY <1>3, FS_EmptySet DEF Init, MatchInv, Gated
<1>. QED BY <1>1, <1>2, <1>4 DEF IInv, ScanInv

(* A pair made by a frame: the gate held a whole mask, and stepped up.      *)
LEMMA PairOfAMask ==
  ASSUME NEW g, Holds(g), NEW step \in Steps, Rising(g, Push(g, step)), InPhase(Push(g, step))
  PROVE  step = "up" /\ Len(Push(g, step).bits) = Span
<1>1. Push(g, step).bits[Len(Push(g, step).bits)] = Lit(g, step) BY PushHolds
<1>2. Lit(g, step) /\ ~g.bits[Len(g.bits)] BY <1>1 DEF Rising
<1>3. step = "up" BY <1>2 DEF Lit, Steps
<1>. QED BY <1>3 DEF InPhase

(* A frame: the bits grow by at most the frame, and start over at a gap.    *)
LEMMA FrameBits == ASSUME IInv, NextFrame PROVE ScanInv'
<1>. PICK gap \in BOOLEAN, step \in Steps :
       LET kept == IF gap /\ gate.prev THEN Forget(gate) ELSE gate
           seen == Push(kept, step)
       IN  IF gate.mask = <<>>
           THEN /\ gate' = [gate EXCEPT !.third = (gate.third + 1) % 3]
                /\ pair' = IF gate'.third = 0 THEN "alone" ELSE "none"
                /\ UNCHANGED <<run, brighter>>
           ELSE /\ gate' = [seen EXCEPT !.prev = TRUE]
                /\ pair' = IF kept.prev /\ gate.over /\ Rising(kept, seen) /\ InPhase(seen)
                           THEN "gated" ELSE "none"
                /\ run' = IF gap THEN 1 ELSE IF run < Span THEN run + 1 ELSE run
                /\ brighter' = (step = "up")
     BY DEF NextFrame
<1>. DEFINE kept == IF gap /\ gate.prev THEN Forget(gate) ELSE gate
            seen == Push(kept, step)
<1>1. Gated /\ UNCHANGED <<stage, strobe, matches, under>>
  BY DEF NextFrame, Gated, counts
<1>2. Gated' BY <1>1 DEF Gated
<1>3. /\ Holds(gate) /\ IsGate(gate) /\ gate.draws \in Nat
      /\ strobe <=> gate.mask # <<>>
      /\ strobe => /\ run \in 0..Span /\ Len(gate.bits) <= run
                   /\ ~gate.prev => gate.bits = <<>>
  BY <1>1 DEF IInv, ScanInv, BitsInv, LightInv
<1>4. CASE gate.mask = <<>>
  <2>1. /\ IsGate(gate') /\ gate'.bits = gate.bits /\ gate'.draws = gate.draws
        /\ gate'.prev = gate.prev
    BY <1>3, <1>4 DEF IsGate
  <2>2. run' = run /\ brighter' = brighter /\ pair' \in {"none", "alone"} BY <1>4
  <2>3. Holds(gate') BY <1>3, <2>1 DEF Holds
  <2>4. BitsInv' BY <1>1, <1>3, <1>4, <2>1, <2>3 DEF BitsInv
  <2>5. PairInv' BY <1>1, <1>2, <1>3, <1>4, <2>2 DEF PairInv, PairPlace
  <2>6. MatchInv' BY <1>1, <1>3, <1>4 DEF MatchInv
  <2>. QED BY <2>4, <2>5, <2>6 DEF ScanInv
<1>5. CASE gate.mask # <<>>
  <2>1. Holds(kept) /\ kept.draws = gate.draws BY <1>3, ForgetHolds
  <2>2. gap => kept.bits = <<>> BY <1>3, <1>5, ForgetHolds
  <2>3. ~gap => kept = gate OBVIOUS
  <2>4. gate' = [seen EXCEPT !.prev = TRUE] BY <1>5
  <2>5. run' = IF gap THEN 1 ELSE IF run < Span THEN run + 1 ELSE run BY <1>5
  <2>6. pair' = IF kept.prev /\ gate.over /\ Rising(kept, seen) /\ InPhase(seen)
                THEN "gated" ELSE "none"
    BY <1>5
  <2>7. brighter' = (step = "up") BY <1>5
  <2>8. /\ Holds(seen) /\ seen.draws = gate.draws
        /\ Len(seen.bits) <= Len(kept.bits) + 1
    BY <2>1, PushHolds
  <2>9. pair' = "gated" => step = "up" /\ Len(seen.bits) = Span
    BY <2>1, <2>6, PairOfAMask
  <2>. HIDE DEF kept, seen
  <2>10. /\ IsGate(gate') /\ gate'.bits = seen.bits /\ gate'.draws = gate.draws
         /\ gate'.prev
    BY <2>4, <2>8 DEF Holds, IsGate
  <2>11. Holds(gate') BY <2>8, <2>10 DEF Holds
  <2>12. Len(seen.bits) \in Nat /\ Len(seen.bits) <= Span BY <2>8 DEF Holds
  <2>13. run' \in 0..Span /\ Len(seen.bits) <= run'
    <3>1. CASE gap
      <4>1. Len(kept.bits) = 0 BY <2>2, <3>1
      <4>. QED BY <2>5, <2>8, <2>12, <3>1, <4>1, SpanAssumption DEF SpanAssumption
    <3>2. CASE ~gap
      <4>1. Len(kept.bits) = Len(gate.bits) /\ Len(gate.bits) \in Nat
        BY <1>3, <2>3, <3>2 DEF Holds
      <4>. QED BY <1>3, <1>5, <2>5, <2>8, <2>12, <3>2, <4>1, SpanAssumption DEF SpanAssumption
    <3>. QED BY <3>1, <3>2
  <2>14. BitsInv' BY <1>3, <2>10, <2>11, <2>13 DEF BitsInv
  <2>15. pair' = "gated" => run' = Span /\ brighter'
    <3>1. pair' = "gated" => run' = Span
      BY <2>9, <2>13, SpanAssumption DEF SpanAssumption
    <3>. QED BY <2>7, <2>9, <3>1, Zenon
  <2>16. pair' \in {"none", "gated"} BY <2>6
  <2>17. PairInv' BY <1>1, <1>2, <1>3, <1>5, <2>15, <2>16 DEF PairInv, PairPlace
  <2>18. Draws' = Draws BY <1>1 DEF Draws
  <2>19. MatchInv' BY <1>1, <2>10, <2>18 DEF IInv, ScanInv, MatchInv
  <2>. QED BY <2>14, <2>17, <2>19 DEF ScanInv
<1>. QED BY <1>4, <1>5

(* Every way out of a scan: no gate, no pair, the matches as they were.     *)
LEMMA EndMatches == ASSUME IInv, NEW end, End(end) PROVE ScanInv'
<1>1. ~Gated' /\ pair' = "none" /\ UNCHANGED <<strobe, matches, under>>
  BY DEF End, Over, DropGate, Gated, counts, history
<1>2. Draws' = Draws BY <1>1 DEF Draws
<1>3. BitsInv' /\ PairInv' BY <1>1 DEF BitsInv, PairInv, PairPlace
<1>4. MatchInv' BY <1>1, <1>2 DEF IInv, ScanInv, MatchInv
<1>. QED BY <1>3, <1>4 DEF ScanInv

(* A gate begins with no bits, no pair and no match.                        *)
LEMMA StartMatches ==
  ASSUME IInv, NEW next \in {"score", "confirm"}, StartGate(next), UNCHANGED strobe
  PROVE  ScanInv'
<1>1. IsGate(gate') /\ gate'.bits = <<>> /\ gate'.draws \in Nat
  <2>. PICK mask \in Masks :
         gate' = [NoGate EXCEPT !.mask = IF strobe THEN mask ELSE <<>>,
                                !.draws = IF strobe THEN 1 ELSE 0]
       BY DEF StartGate
  <2>. QED BY DEF IsGate, NoGate
<1>3. Holds(gate') /\ Len(gate'.bits) = 0 BY <1>1, EmptyBits
<1>4. pair' = "none" /\ matches' = 0 /\ run' = 0 /\ under' = {} BY DEF StartGate
<1>5. BitsInv' BY <1>1, <1>3, <1>4, SpanAssumption DEF BitsInv, SpanAssumption
<1>6. PairInv' BY <1>4 DEF PairInv, PairPlace
<1>7. Draws' = {} BY <1>4 DEF Draws
<1>8. MatchInv' BY <1>4, <1>7, FS_EmptySet DEF MatchInv
<1>. QED BY <1>5, <1>6, <1>8 DEF ScanInv

(* A match: a draw that no earlier match has, and the next one redraws.     *)
LEMMA MatchMatches == ASSUME IInv, PairMatches PROVE ScanInv'
<1>1. Gated /\ pair # "none"
  BY DEF PairMatches, Readable, IInv, ScanInv, PairInv, PairPlace
<1>2. strobe' = strobe /\ matches' = matches + 1
      /\ under' = under \cup {[draw |-> gate.draws, run |-> run, brighter |-> brighter]}
  BY DEF PairMatches
<1>3. Draws' = Draws \cup {gate.draws}
  <2>. DEFINE last == [draw |-> gate.draws, run |-> run, brighter |-> brighter]
  <2>1. last.draw = gate.draws OBVIOUS
  <2>. HIDE DEF last
  <2>2. under' = under \cup {last} BY <1>2 DEF last
  <2>. QED BY <2>1, <2>2 DEF Draws
<1>4. Holds(gate) /\ gate.draws \in Nat BY <1>1 DEF IInv, ScanInv, BitsInv
<1>5. pair' = "none" BY DEF PairMatches, DropGate
<1>6. ASSUME strobe
      PROVE  /\ IsFiniteSet(Draws') /\ Cardinality(Draws') = matches'
             /\ \A m \in under' : m.run = Span /\ m.brighter
             /\ \A d \in Draws' : d \in Nat /\ d <= gate.draws
  <2>1. /\ IsFiniteSet(Draws) /\ Cardinality(Draws) = matches
        /\ \A m \in under : m.run = Span /\ m.brighter
        /\ \A d \in Draws : d \in Nat /\ d < gate.draws
    BY <1>1, <1>6 DEF IInv, ScanInv, MatchInv
  <2>2. gate.draws \notin Draws BY <1>4, <2>1
  <2>3. IsFiniteSet(Draws') /\ Cardinality(Draws') = Cardinality(Draws) + 1
    BY <1>3, <2>1, <2>2, FS_AddElement
  <2>4. run = Span /\ brighter BY <1>1, <1>6 DEF IInv, ScanInv, PairInv, PairPlace
  <2>5. \A m \in under' : m.run = Span /\ m.brighter BY <1>2, <2>1, <2>4
  <2>6. \A d \in Draws' : d \in Nat /\ d <= gate.draws BY <1>3, <1>4, <2>1
  <2>. QED BY <1>2, <2>1, <2>3, <2>5, <2>6
<1>7. CASE matches + 1 < Needed
  <2>. PICK mask \in Masks : gate' = Redraw(gate, mask) BY <1>7 DEF PairMatches
  <2>1. UNCHANGED stage /\ run' = 0 BY <1>7 DEF PairMatches
  <2>2. Gated' BY <1>1, <2>1 DEF Gated
  <2>3. CASE gate.mask = <<>>
    <3>1. gate' = gate /\ ~strobe BY <1>1, <2>3 DEF Redraw, IInv, LightInv
    <3>2. BitsInv' BY <1>2, <1>4, <3>1 DEF BitsInv
    <3>3. PairInv' /\ MatchInv' BY <1>2, <1>5, <3>1 DEF PairInv, PairPlace, MatchInv
    <3>. QED BY <3>2, <3>3 DEF ScanInv
  <2>4. CASE gate.mask # <<>>
    <3>1. IsGate(gate') /\ gate'.bits = <<>> /\ gate'.draws = gate.draws + 1
      BY <1>4, <2>4 DEF Redraw, Drawn, Holds, IsGate
    <3>3. Holds(gate') /\ Len(gate'.bits) = 0 BY <3>1, EmptyBits
    <3>4. BitsInv' BY <1>4, <2>1, <3>1, <3>3, SpanAssumption DEF BitsInv, SpanAssumption
    <3>5. PairInv' BY <1>5 DEF PairInv, PairPlace
    <3>6. strobe => \A d \in Draws' : d \in Nat /\ d < gate'.draws BY <1>4, <1>6, <3>1
    <3>7. MatchInv' BY <1>2, <1>6, <3>6 DEF MatchInv
    <3>. QED BY <3>4, <3>5, <3>7 DEF ScanInv
  <2>. QED BY <2>3, <2>4
<1>8. CASE ~(matches + 1 < Needed)
  <2>1. ~Gated' BY <1>8 DEF PairMatches, Gated
  <2>2. BitsInv' BY <2>1 DEF BitsInv
  <2>3. PairInv' BY <1>5 DEF PairInv, PairPlace
  <2>4. MatchInv' BY <1>2, <1>6, <2>1 DEF MatchInv
  <2>. QED BY <2>2, <2>3, <2>4 DEF ScanInv
<1>. QED BY <1>7, <1>8

(* The steps, each by what it does to the bits, the run and the matches.    *)
LEMMA MatchStep ==
  ASSUME IInv, [Next]_vars PROVE ScanInv'
(* Steps that leave the gate's bits, the run and the matches alone.         *)
<1>1. ASSUME UNCHANGED <<stage, strobe, matches, history>>,
             pair' \in {pair, "none"},
             IsGate(gate) => IsGate(gate') /\ gate'.bits = gate.bits
                             /\ gate'.prev = gate.prev /\ gate'.draws = gate.draws
      PROVE  ScanInv'
  <2>1. IsGate(gate) BY DEF IInv, ScanInv, LightInv
  <2>2. Holds(gate) => Holds(gate') BY <1>1, <2>1 DEF Holds
  <2>3. Gated' <=> Gated BY <1>1 DEF Gated
  <2>4. BitsInv' BY <1>1, <2>1, <2>2, <2>3 DEF IInv, ScanInv, BitsInv, history
  <2>5. PairInv' BY <1>1, <2>3 DEF IInv, ScanInv, PairInv, PairPlace, history
  <2>6. under' = under /\ Draws' = Draws BY <1>1 DEF Draws, history
  <2>7. MatchInv' BY <1>1, <2>1, <2>3, <2>6 DEF IInv, ScanInv, MatchInv
  <2>. QED BY <2>4, <2>5, <2>7 DEF ScanInv
(* Steps of a camera no gate runs on, that make no match.                   *)
<1>2. ASSUME ~Gated', pair' = "none", UNCHANGED <<strobe, matches, under>> PROVE ScanInv'
  <2>1. Draws' = Draws BY <1>2 DEF Draws
  <2>. QED BY <1>2, <2>1 DEF IInv, ScanInv, BitsInv, PairInv, PairPlace, MatchInv
<1>0. ASSUME NEW end, End(end) PROVE ScanInv' BY <1>0, EndMatches
<1>3. ~Gated => pair = "none" BY DEF IInv, ScanInv, PairInv, PairPlace
<1>4. CASE UNCHANGED vars BY <1>1, <1>4 DEF vars, counts
<1>5. ASSUME NEW l \in Lanes, Open(l) PROVE ScanInv'
  BY <1>2, <1>3, <1>5 DEF Open, Gated, counts, history
<1>6. CASE Settle BY <1>6, StartMatches DEF Settle
<1>7. CASE NextFrame BY <1>7, FrameBits
<1>8. CASE MaskSettled
  <2>1. IsGate(gate) => /\ IsGate(gate') /\ gate'.bits = gate.bits
                        /\ gate'.prev = gate.prev /\ gate'.draws = gate.draws
    BY <1>8 DEF MaskSettled, IsGate
  <2>2. UNCHANGED <<stage, strobe, matches, history, pair>> BY <1>8 DEF MaskSettled, counts
  <2>. QED BY <1>1, <2>1, <2>2
<1>10. CASE PairUnread BY <1>1, <1>10 DEF PairUnread, counts
<1>11. CASE PairDenied BY <1>11, <1>0 DEF PairDenied
<1>12. CASE PairMatches BY <1>12, MatchMatches
<1>13. CASE PairMisses
  <2>1. CASE End("refused") BY <1>0, <2>1
  <2>2. CASE ~End("refused") BY <1>1, <1>13, <2>2 DEF PairMisses
  <2>. QED BY <2>1, <2>2
<1>14. CASE TimesUp BY <1>14, <1>0 DEF TimesUp
<1>15. CASE Answered \/ NoNods \/ ConfirmUnbound
  BY <1>15, <1>0 DEF Answered, NoNods, ConfirmUnbound
<1>9. CASE Fails BY <1>2, <1>9 DEF Fails, Over, Gated, counts, history
<1>16. CASE Confirm BY <1>16, StartMatches DEF Confirm
<1>17. CASE ConfirmUngated
  <2>1. CASE End("refused") BY <1>0, <2>1
  <2>2. CASE ~End("refused")
    BY <1>2, <1>3, <1>17, <2>2 DEF ConfirmUngated, Gated, counts, history
  <2>. QED BY <2>1, <2>2
<1>18. CASE NodFrames BY <1>18, <1>0 DEF NodFrames
<1>19. CASE Again
  <2>1. ~Gated' /\ pair' = "none" /\ matches' = 0 /\ under' = {}
    BY <1>3, <1>19 DEF Again, Gated
  <2>2. Draws' = {} BY <2>1 DEF Draws
  <2>. QED BY <2>1, <2>2, FS_EmptySet DEF ScanInv, BitsInv, PairInv, PairPlace, MatchInv
<1>. QED
  BY <1>4, <1>5, <1>6, <1>7, <1>8, <1>9, <1>10, <1>11, <1>12, <1>13, <1>14, <1>15,
     <1>16, <1>17, <1>18, <1>19 DEF Next

(* Both parts together.                                                     *)
LEMMA StepIInv == IInv /\ [Next]_vars => IInv'
<1>. SUFFICES ASSUME IInv, [Next]_vars PROVE IInv' OBVIOUS
<1>1. LightInv /\ PairPlace /\ (Gated => Holds(gate)) BY DEF IInv, ScanInv, PairInv, BitsInv
<1>2. LightInv' BY <1>1, LightStep
<1>. QED BY <1>2, MatchStep DEF IInv

(* At every moment of every scan and confirm, for any masks and any number  *)
(* of matches: pairs are taken under the gate's own mask with the exposure   *)
(* held, whatever light a failed write left before, and the exposure and,    *)
(* unless the last write of it failed, the light are those of the stage the  *)
(* camera's user stands at (StrobeGate::start and drop, IrCapture::stop).   *)
THEOREM TheLightFollowsTheStage == Spec => []LightFollowsTheStage
<1>1. IInv => LightFollowsTheStage BY LightOfInv DEF IInv
<1>. QED BY <1>1, InitIInv, StepIInv, PTL DEF Spec

(* On a sensor that strobes, each match of a scan or a confirm came under a *)
(* draw of its own, on a whole mask's frames seen with none lost (the       *)
(* redraws of attempt.rs and confirm.rs, the reset in strobe.rs).           *)
THEOREM MatchesUnderTheirOwnMasks == Spec => []EachMatchUnderItsOwnMask
<1>1. IInv => EachMatchUnderItsOwnMask
  BY DEF IInv, ScanInv, MatchInv, EachMatchUnderItsOwnMask, Draws
<1>. QED BY <1>1, InitIInv, StepIInv, PTL DEF Spec

-------------------------------------------------------------------------------
(* The gesture read between the scan and the confirm (Gesture), for any      *)
(* levels and thresholds of the angle and any lengths of a leg, a rest, the  *)
(* span and the window that are as its module assumes.                       *)

LegType == [start : Nat, end : Nat, dir : {1, -1}, amp : Nat, rested : BOOLEAN]
ExtremeType == [at : Nat, t : Nat]

GestureTyped ==
  /\ t \in Nat /\ settled \in BOOLEAN /\ thr \in Floor .. Ceil /\ dir \in {-1, 0, 1}
  /\ pivot \in ExtremeType /\ cand \in ExtremeType /\ depart \in Nat
  /\ legs \in Seq(LegType) /\ broken \in Nat

(* A leg that counts, begun after everything that breaks a gesture.          *)
GoodLeg(k) ==
  /\ k.amp \in Floor .. MaxAmp /\ k.end - k.start \in LegMin .. LegMax
  /\ k.start >= broken

LinkedTo(k, next) ==
  \/ k.rested /\ next.start >= k.end
  \/ next.start = k.end /\ next.dir = -k.dir

(* The legs found so far are the beginning of a gesture: what the property   *)
(* asks of four legs holds of them already.                                  *)
SequenceInv ==
  /\ Len(legs) < 4 /\ (Len(legs) = 3 => ~legs[3].rested)
  /\ \A i \in 1 .. Len(legs) : GoodLeg(legs[i])
  /\ \A i \in 1 .. Len(legs) - 1 : LinkedTo(legs[i], legs[i + 1])

(* Where the zigzag stands after leg k: the next leg starts at its end and   *)
(* goes back, or the head rests there and the pivot may only follow it.      *)
GoesOn(k) == IF k.rested THEN pivot.t >= k.end ELSE pivot.t = k.end /\ dir = -k.dir

(* The pivot is later than what broke the last gesture, and the head is at   *)
(* least the lowest threshold away from it on its way.                       *)
SignalInv ==
  /\ ~settled => legs = <<>> /\ dir = 0
  /\ settled => pivot.t >= broken
  /\ broken <= t /\ cand.t <= t
  /\ dir = 1 => cand.at - pivot.at >= Floor
  /\ dir = -1 => pivot.at - cand.at >= Floor
  /\ legs # <<>> => GoesOn(legs[Len(legs)])
  /\ legs # <<>> => legs[Len(legs)].end <= t

(* Reading goes on until a gesture was read.                                 *)
ReadInv ==
  /\ read # <<>> => status # "watching"
  /\ GestureIsFourLegs /\ GestureIsUnbroken

GestureInv == GestureTyped /\ SequenceInv /\ SignalInv /\ ReadInv

(* The bounds they give.                                                     *)
LEMMA GestureBounds ==
  /\ Top \in Nat /\ Floor \in Nat /\ Ceil \in Nat /\ MaxAmp \in Nat
  /\ LegMin \in Nat /\ LegMax \in Nat /\ GestureSpan \in Nat
  /\ 0 < Floor /\ Floor <= Ceil /\ LegMax <= GestureSpan
BY GestureAssumption DEF GestureAssumption

(* The first index of a set of them is in it.                                *)
LEMMA FirstIndex ==
  ASSUME NEW I, I \subseteq Nat, I # {}
  PROVE  Min(I) \in I
<1>1. \E x \in I : \A y \in I : ~(<<y, x>> \in OpToRel(<, Nat))
  BY NatLessThanWellFounded, WFMin, Zenon
<1>2. PICK x \in I : \A y \in I : ~(<<y, x>> \in OpToRel(<, Nat))
  BY <1>1
<1>3. ASSUME NEW y \in I PROVE x <= y
  <2>1. ~(<<y, x>> \in OpToRel(<, Nat)) /\ x \in Nat /\ y \in Nat
    BY <1>2
  <2>. QED BY <2>1 DEF OpToRel
<1>4. \E z \in I : \A y \in I : z <= y
  BY <1>3
<1>. QED BY <1>4 DEF Min

(* A leg within the span keeps the end of the sequence it joins, from a leg  *)
(* on that is within the span of its end.                                    *)
LEMMA KeptIs ==
  ASSUME GestureTyped, NEW l \in LegType, l.end - l.start <= GestureSpan
  PROVE  \E d \in 0 .. Len(legs) :
            /\ Kept(l) \in Seq(LegType) /\ Len(Kept(l)) = Len(legs) + 1 - d
            /\ \A i \in 1 .. Len(legs) + 1 - d :
                 Kept(l)[i] = IF i + d = Len(legs) + 1 THEN l ELSE legs[i + d]
            /\ l.end - Kept(l)[1].start <= GestureSpan
<1> DEFINE s == Append(legs, l)
           n == Len(s)
           I == {i \in 1 .. Len(s) : l.end - s[i].start <= GestureSpan}
           first == IF I # {} THEN Min(I) ELSE 0
           kept == SubSeq(s, first, n)
<1>1. Kept(l) = kept
  BY DEF Kept, SelectInSeq
<1>2. /\ s \in Seq(LegType) /\ Len(s) = Len(legs) + 1 /\ Len(legs) \in Nat /\ n \in Nat
      /\ \A i \in 1 .. n : s[i] = IF i = n THEN l ELSE legs[i]
  BY DEF GestureTyped
<1> HIDE DEF s
<1>3. first \in I
  <2>1. Len(s) \in 1 .. Len(s) /\ s[Len(s)] = l
    BY <1>2
  <2>2. Len(s) \in I
    BY <2>1
  <2>3. I \subseteq Nat
    BY <1>2
  <2> HIDE DEF I
  <2>. QED BY <2>2, <2>3, FirstIndex
<1>4. first \in 1 .. n /\ l.end - s[first].start <= GestureSpan
  BY <1>3
<1> HIDE DEF first, I
<1>5. /\ kept \in Seq(LegType) /\ Len(kept) = n - first + 1
      /\ \A i \in 1 .. n - first + 1 : kept[i] = s[first + i - 1]
  <2>1. first \in Int /\ n \in Int /\ \A i \in first .. n : s[i] \in LegType
    BY <1>2, <1>4
  <2>2. /\ kept \in Seq(LegType) /\ Len(kept) = IF first <= n THEN n - first + 1 ELSE 0
        /\ \A i \in 1 .. n - first + 1 : kept[i] = s[first + i - 1]
    BY <2>1, SubSeqProperties
  <2> HIDE DEF kept, n
  <2>. QED BY <1>4, <2>2
<1> HIDE DEF kept
<1> DEFINE d == first - 1
<1>6. /\ d \in 0 .. Len(legs) /\ Len(kept) = Len(legs) + 1 - d
      /\ n = Len(legs) + 1 /\ first = d + 1
  BY <1>2, <1>4, <1>5
<1> HIDE DEF d, n
<1>7. ASSUME NEW i \in 1 .. Len(legs) + 1 - d
      PROVE  kept[i] = IF i + d = Len(legs) + 1 THEN l ELSE legs[i + d]
  <2>1. kept[i] = s[first + i - 1] /\ first + i - 1 = i + d /\ i + d \in 1 .. n
    BY <1>2, <1>5, <1>6
  <2>. QED BY <1>2, <1>6, <2>1
<1>8. l.end - kept[1].start <= GestureSpan
  <2>1. 1 \in 1 .. n - first + 1 /\ first + 1 - 1 = first
    BY <1>2, <1>4, <1>6
  <2>2. kept[1] = s[first]
    BY <1>5, <2>1
  <2>. QED BY <1>4, <2>2
<1>. QED BY <1>1, <1>5, <1>6, <1>7, <1>8


(* The level of a frame is a number, and so is the threshold it teaches.     *)
LEMMA ReadingTypes ==
  ASSUME GestureTyped, NEW q \in Levels, Reading(q)
  PROVE  /\ q \in Nat /\ thr' \in Floor .. Ceil /\ thr' >= Floor /\ thr' \in Int
         /\ settled /\ settled' = settled /\ t' = t + 1 /\ status = "watching"
<1>1. q \in Nat
  BY GestureBounds DEF Levels
<1>2. /\ settled /\ settled' = settled /\ t' = t + 1 /\ status = "watching"
      /\ thr' \in Learnt(q)
  BY DEF Reading, Frame, Now
<1>3. thr' \in Floor .. Ceil
  BY <1>2 DEF Learnt, GestureTyped
<1>4. thr' >= Floor /\ thr' \in Int
  BY <1>3, GestureBounds
<1>. QED BY <1>1, <1>2, <1>3, <1>4

(* What the zigzag knows of the leg to a confirmed extreme, and where it     *)
(* goes on from there.                                                       *)
LEMMA ExtremeIs ==
  ASSUME GestureTyped, SignalInv, NEW q \in Levels, Extreme(q)
  PROVE  LET l == LegTo(q)
         IN  /\ l \in LegType /\ l.amp >= Floor /\ l.end = cand.t /\ l.start >= broken
             /\ legs # <<>> => LinkedTo(legs[Len(legs)], l)
             /\ dir' \in {-1, 0, 1} /\ pivot' = cand /\ cand' \in ExtremeType
             /\ depart' \in Nat /\ cand'.t <= t'
             /\ dir' = 1 => cand'.at - pivot'.at >= Floor
             /\ dir' = -1 => pivot'.at - cand'.at >= Floor
             /\ l.rested \/ dir' = -l.dir
<1> DEFINE rested == AtRest(q)
           start == IF legs = <<>> /\ depart > pivot.t THEN depart ELSE pivot.t
           amp == Distance(cand.at, pivot.at)
           l == LegTo(q)
<1>0. /\ q \in Nat /\ thr' >= Floor /\ thr' \in Int /\ settled /\ t' = t + 1 /\ Reading(q)
  BY ReadingTypes DEF Extreme
<1>1. /\ dir \in {1, -1} /\ (rested \/ Turned(q))
      /\ pivot' = cand /\ depart' = cand.t /\ dir' = (IF rested THEN 0 ELSE -dir)
      /\ cand' = [at |-> q, t |-> t + 1]
  BY DEF Extreme, Now, GestureTyped
<1>2. /\ l = [start |-> start, end |-> cand.t, dir |-> dir, amp |-> amp, rested |-> rested]
      /\ rested \in BOOLEAN
  BY DEF LegTo, AtRest
<1>3. /\ cand.t \in Nat /\ cand.at \in Nat /\ pivot.t \in Nat /\ pivot.at \in Nat
      /\ depart \in Nat /\ t \in Nat /\ broken \in Nat /\ Floor \in Nat
  BY GestureBounds DEF GestureTyped, ExtremeType
<1>4. start \in Nat /\ start >= pivot.t /\ start >= broken /\ (legs # <<>> => start = pivot.t)
  <2>1. pivot.t >= broken
    BY <1>0, Zenon DEF SignalInv
  <2>2. CASE legs = <<>> /\ depart > pivot.t
    BY <1>3, <2>1, <2>2
  <2>3. CASE ~(legs = <<>> /\ depart > pivot.t)
    <3>1. start = pivot.t
      BY <2>3
    <3> HIDE DEF start
    <3>. QED BY <1>3, <2>1, <3>1
  <2>. QED BY <2>2, <2>3
<1>5. amp \in Nat /\ amp >= Floor
  <2>1. ASSUME NEW x \in Nat, NEW y \in Nat, x - y >= Floor \/ y - x >= Floor
        PROVE  Distance(x, y) \in Nat /\ Distance(x, y) >= Floor
    BY <2>1, <1>3 DEF Distance
  <2>2. cand.at - pivot.at >= Floor \/ pivot.at - cand.at >= Floor
    BY <1>1, Zenon DEF SignalInv
  <2>. QED BY <1>3, <2>1, <2>2, Zenon
<1>6. Reversed(q) => IF dir = 1 THEN cand.at - q >= Floor ELSE q - cand.at >= Floor
  <2>1. CASE dir = 1
    BY <1>0, <1>3, <2>1 DEF Reversed
  <2>2. CASE dir = -1
    BY <1>0, <1>3, <2>2 DEF Reversed
  <2>. QED BY <1>1, <2>1, <2>2
<1>7. rested \/ Reversed(q)
  BY <1>1 DEF Turned
<1> HIDE DEF rested, start, amp, l
<1>8. l \in LegType /\ l.amp = amp /\ l.end = cand.t /\ l.start = start /\ l.dir = dir
  BY <1>1, <1>2, <1>3, <1>4, <1>5 DEF LegType
<1>9. l.rested = rested
  BY <1>2
<1>10. ASSUME legs # <<>> PROVE LinkedTo(legs[Len(legs)], l)
  BY <1>4, <1>8, <1>10 DEF SignalInv, GoesOn, LinkedTo
<1>11. /\ cand'.at = q /\ cand'.t = t + 1 /\ pivot'.at = cand.at /\ cand' \in ExtremeType
  BY <1>0, <1>1, <1>3 DEF ExtremeType
<1>12. CASE rested
  <2>1. dir' = 0
    BY <1>1, <1>12
  <2>. QED BY <1>0, <1>1, <1>3, <1>4, <1>5, <1>8, <1>9, <1>10, <1>11, <1>12, <2>1 DEF l
<1>13. CASE ~rested
  <2>1. dir' = -dir /\ Reversed(q)
    BY <1>1, <1>7, <1>13
  <2>2. /\ dir' \in {-1, 0, 1} /\ dir' = -l.dir
        /\ dir' = 1 => cand'.at - pivot'.at >= Floor
        /\ dir' = -1 => pivot'.at - cand'.at >= Floor
    BY <1>1, <1>6, <1>8, <1>11, <2>1
  <2>. QED BY <1>0, <1>1, <1>3, <1>4, <1>5, <1>8, <1>10, <1>11, <2>2 DEF l
<1>. QED BY <1>12, <1>13

(* A leg that completes a gesture of four finds three, all of them kept.     *)
LEMMA NoneDropped ==
  ASSUME NEW n \in {0, 1, 2, 3}, NEW d \in 0 .. n, n + 1 - d = 4
  PROVE  n = 3 /\ d = 0
<1>1. CASE n = 3
  <2>. QED BY <1>1
<1>2. CASE n = 2
  <2>. QED BY <1>2
<1>3. CASE n = 1
  <2>. QED BY <1>3
<1>4. CASE n = 0
  <2>. QED BY <1>4
<1>. QED BY <1>1, <1>2, <1>3, <1>4

(* A leg that counts makes the sequence it joins longer, and what is kept is *)
(* still the beginning of a gesture.                                         *)
LEMMA KeptGoesOn ==
  ASSUME GestureTyped, SequenceInv, NEW l \in LegType,
         Counts(l), l.amp >= Floor, l.start >= broken,
         legs # <<>> => LinkedTo(legs[Len(legs)], l)
  PROVE  LET s == Kept(l)
         IN  /\ s \in Seq(LegType) /\ Len(s) \in 1 .. 4 /\ s[Len(s)] = l
             /\ \A i \in 1 .. Len(s) : GoodLeg(s[i])
             /\ \A i \in 1 .. Len(s) - 1 : LinkedTo(s[i], s[i + 1])
             /\ Len(s) = 4 => ~s[3].rested
             /\ s[Len(s)].end - s[1].start <= GestureSpan
<1> DEFINE s == Kept(l)
           n == Len(legs)
<1>1. l.start \in Nat /\ l.end \in Nat /\ l.amp \in Nat
  BY DEF LegType
<1>2. GoodLeg(l) /\ l.end - l.start <= GestureSpan
  BY <1>1, GestureBounds DEF Counts, GoodLeg
<1>3. PICK d \in 0 .. n :
         /\ s \in Seq(LegType) /\ Len(s) = n + 1 - d
         /\ \A i \in 1 .. n + 1 - d : s[i] = IF i + d = n + 1 THEN l ELSE legs[i + d]
         /\ l.end - s[1].start <= GestureSpan
  BY <1>2, KeptIs
<1>4. n \in Nat /\ n < 4
  BY DEF GestureTyped, SequenceInv
<1>5. \A i \in 1 .. n : GoodLeg(legs[i])
  BY DEF SequenceInv
<1>6. \A i \in 1 .. n - 1 : LinkedTo(legs[i], legs[i + 1])
  BY DEF SequenceInv
<1>7. n # 0 => legs # <<>> /\ LinkedTo(legs[n], l)
  BY DEF GestureTyped
<1>8. n = 3 => ~legs[3].rested
  BY DEF SequenceInv
<1> HIDE DEF s, n
<1>9. Len(s) \in 1 .. 4 /\ s[Len(s)] = l
  BY <1>3, <1>4
<1>10. ASSUME NEW i \in 1 .. Len(s) PROVE GoodLeg(s[i])
  <2>1. CASE i + d = n + 1
    BY <1>2, <1>3, <2>1
  <2>2. CASE i + d # n + 1
    <3>1. s[i] = legs[i + d] /\ i + d \in 1 .. n
      BY <1>3, <1>4, <2>2
    <3>. QED BY <1>5, <3>1
  <2>. QED BY <2>1, <2>2
<1>11. ASSUME NEW i \in 1 .. Len(s) - 1 PROVE LinkedTo(s[i], s[i + 1])
  <2>1. i \in 1 .. n + 1 - d /\ i + 1 \in 1 .. n + 1 - d /\ i + d \in 1 .. n /\ i + d # n + 1
    BY <1>3, <1>4
  <2>2. s[i] = legs[i + d]
    BY <1>3, <2>1
  <2>3. s[i + 1] = IF i + d = n THEN l ELSE legs[i + d + 1]
    <3>1. (i + 1) + d = n + 1 <=> i + d = n
      BY <1>4, <2>1
    <3>2. (i + 1) + d = i + d + 1
      BY <2>1
    <3>. QED BY <1>3, <2>1, <3>1, <3>2
  <2>4. CASE i + d = n
    <3>1. n # 0
      BY <1>4, <2>1, <2>4
    <3>. QED BY <1>7, <2>2, <2>3, <2>4, <3>1
  <2>5. CASE i + d # n
    <3>1. i + d \in 1 .. n - 1
      BY <1>4, <2>1, <2>5
    <3>. QED BY <1>6, <2>2, <2>3, <2>5, <3>1
  <2>. QED BY <2>4, <2>5
<1>12. ASSUME Len(s) = 4 PROVE ~s[3].rested
  <2>1. n = 3 /\ d = 0
    <3>1. Len(s) = n + 1 - d /\ d \in 0 .. n
      BY <1>3
    <3>2. n + 1 - d = 4
      BY <1>12, <3>1, Zenon
    <3>3. n \in {0, 1, 2, 3}
      BY <1>4
    <3>. QED BY <3>1, <3>2, <3>3, NoneDropped, Zenon
  <2>2. s[3] = legs[3]
    BY <1>3, <2>1
  <2>. QED BY <1>8, <2>1, <2>2
<1>. QED BY <1>3, <1>9, <1>10, <1>11, <1>12 DEF s


(* The last leg is a leg.                                                    *)
LEMMA LastLegIs ==
  ASSUME GestureInv, legs # <<>>
  PROVE  legs[Len(legs)] \in LegType /\ legs[Len(legs)].end \in Nat
         /\ legs[Len(legs)].dir \in {1, -1}
<1>1. legs[Len(legs)] \in LegType
  BY DEF GestureInv, GestureTyped
<1>. QED BY <1>1 DEF LegType

(* What is kept of a step that does not touch the legs, when the pivot and   *)
(* the head keep their distance and the pivot stays behind the last leg.     *)
LEMMA SignalKeeps ==
  ASSUME GestureInv, UNCHANGED <<legs, read, broken>>, t' \in Nat, t' >= t,
         settled' \in BOOLEAN, settled => settled', thr' \in Floor .. Ceil,
         dir' \in {-1, 0, 1}, pivot' \in ExtremeType, cand' \in ExtremeType,
         depart' \in Nat, cand'.t <= t', ~settled' => dir' = 0,
         settled' => pivot'.t >= broken,
         dir' = 1 => cand'.at - pivot'.at >= Floor,
         dir' = -1 => pivot'.at - cand'.at >= Floor,
         legs # <<>> => GoesOn(legs[Len(legs)])',
         read # <<>> => status' # "watching"
  PROVE  GestureInv'
<1> USE DEF GestureInv
<1>1. GestureTyped'
  BY DEF GestureTyped
<1>2. SequenceInv'
  BY DEF SequenceInv, GoodLeg
<1>3. ReadInv'
  BY DEF ReadInv, GestureIsFourLegs, GestureIsUnbroken
<1>4. ~settled' => legs' = <<>>
  BY Zenon DEF SignalInv
<1>5. broken' <= t'
  BY DEF SignalInv, GestureTyped
<1>6. legs' # <<>> => legs'[Len(legs')].end <= t'
  <2>1. ASSUME legs # <<>> PROVE legs[Len(legs)].end <= t /\ legs[Len(legs)].end \in Nat /\ t \in Nat
    BY <2>1, LastLegIs DEF SignalInv, GestureTyped
  <2>. QED BY <2>1
<1>7. SignalInv'
  BY <1>4, <1>5, <1>6, Zenon DEF SignalInv
<1>. QED BY <1>1, <1>2, <1>3, <1>7

(* The facts about the signal the steps of a frame need.                     *)
LEMMA SignalIs ==
  ASSUME GestureInv
  PROVE  /\ t \in Nat /\ cand.at \in Nat /\ cand.t \in Nat /\ pivot.at \in Nat /\ pivot.t \in Nat
         /\ broken \in Nat /\ Floor \in Nat /\ broken <= t /\ cand.t <= t
         /\ dir \in {-1, 0, 1} /\ depart \in Nat
         /\ settled => pivot.t >= broken
         /\ ~settled => legs = <<>> /\ dir = 0
<1>1. /\ t \in Nat /\ cand \in ExtremeType /\ pivot \in ExtremeType /\ broken \in Nat
      /\ dir \in {-1, 0, 1} /\ depart \in Nat /\ Floor \in Nat
  BY GestureBounds DEF GestureInv, GestureTyped
<1>2. cand.at \in Nat /\ cand.t \in Nat /\ pivot.at \in Nat /\ pivot.t \in Nat
  BY <1>1 DEF ExtremeType
<1>3. /\ broken <= t /\ cand.t <= t /\ (settled => pivot.t >= broken)
      /\ (~settled => legs = <<>> /\ dir = 0)
  BY Zenon DEF GestureInv, SignalInv
<1>. QED BY <1>1, <1>2, <1>3

(* The baseline found, the pivot is where the head is.                       *)
LEMMA SettleKeeps ==
  ASSUME GestureInv, NEW q \in Levels, SettleBaseline(q)
  PROVE  GestureInv'
<1>1. /\ ~settled /\ settled' \in BOOLEAN /\ UNCHANGED <<thr, dir, cand, status, legs, read, broken>>
      /\ pivot' = (IF settled' THEN [at |-> q, t |-> t + 1] ELSE pivot)
      /\ depart' = (IF settled' THEN t + 1 ELSE depart)
      /\ t' = t + 1
  BY DEF SettleBaseline, Frame, Now
<1>2. legs = <<>> /\ dir = 0 /\ t \in Nat /\ cand.t <= t /\ broken <= t /\ broken \in Nat /\ cand.t \in Nat
  BY <1>1, SignalIs
<1>3. pivot' \in ExtremeType /\ depart' \in Nat /\ cand' \in ExtremeType /\ thr' \in Floor .. Ceil
  <2>1. q \in Nat /\ t + 1 \in Nat
    BY <1>2, GestureBounds DEF Levels
  <2>2. [at |-> q, t |-> t + 1] \in ExtremeType
    BY <2>1 DEF ExtremeType
  <2>3. pivot \in ExtremeType /\ depart \in Nat /\ cand \in ExtremeType /\ thr \in Floor .. Ceil
    BY DEF GestureInv, GestureTyped
  <2>. QED BY <1>1, <2>1, <2>2, <2>3
<1>4. settled' => pivot'.t >= broken
  BY <1>1, <1>2
<1>5. t' \in Nat /\ t' >= t /\ cand'.t <= t'
  BY <1>1, <1>2
<1>6. read # <<>> => status' # "watching"
  BY <1>1 DEF GestureInv, ReadInv
<1>7. dir' = 0 /\ dir' \in {-1, 0, 1} /\ dir' # 1 /\ dir' # -1
  BY <1>1, <1>2
<1>. QED BY <1>1, <1>2, <1>3, <1>4, <1>5, <1>6, <1>7, SignalKeeps

(* A frame that waits for the head, or follows it, and confirms no extreme.  *)
LEMMA MoveKeeps ==
  ASSUME GestureInv, NEW q \in Levels,
         Wait(q) \/ Depart(q) \/ Further(q) \/ Hover(q)
  PROVE  GestureInv'
<1> DEFINE head == [at |-> q, t |-> t + 1]
<1>1. /\ settled /\ settled' = settled /\ thr' \in Floor .. Ceil /\ thr' >= Floor /\ thr' \in Int
      /\ q \in Nat /\ t' = t + 1 /\ UNCHANGED <<legs, read, broken, status>>
  <2>1. Reading(q) /\ UNCHANGED <<legs, read, broken, status>>
    BY DEF Wait, Depart, Further, Hover
  <2>2. GestureTyped
    BY DEF GestureInv
  <2>. QED BY <2>1, <2>2, ReadingTypes
<1>2. /\ t \in Nat /\ cand.at \in Nat /\ cand.t \in Nat /\ pivot.at \in Nat /\ pivot.t \in Nat
      /\ broken \in Nat /\ Floor \in Nat /\ broken <= t /\ cand.t <= t
      /\ dir \in {-1, 0, 1} /\ depart \in Nat /\ pivot.t >= broken
  BY <1>1, SignalIs
<1>3. pivot \in ExtremeType /\ cand \in ExtremeType
  BY DEF GestureInv, GestureTyped
<1>4. head \in ExtremeType /\ head.at = q /\ head.t = t + 1
  BY <1>1, <1>2 DEF ExtremeType
<1> HIDE DEF head
<1>5. /\ dir = 1 => cand.at - pivot.at >= Floor
      /\ dir = -1 => pivot.at - cand.at >= Floor
      /\ legs # <<>> => GoesOn(legs[Len(legs)])
      /\ read # <<>> => status # "watching"
  BY Zenon DEF GestureInv, SignalInv, ReadInv
<1>6. /\ t' \in Nat /\ t' >= t /\ settled' \in BOOLEAN /\ (settled => settled')
  <2>1. settled' \in BOOLEAN /\ (settled => settled')
    BY <1>1, Zenon DEF GestureInv, GestureTyped
  <2>. QED BY <1>1, <1>2, <2>1
<1>7. CASE Wait(q)
  <2>1. /\ dir = 0 /\ dir' = 0 /\ cand' = cand /\ depart' \in {t + 1, depart} /\ pivot' \in {head, pivot}
    BY <1>7 DEF Wait, Now, head
  <2>2. pivot' \in ExtremeType /\ depart' \in Nat /\ pivot'.t >= broken /\ cand'.t <= t'
    BY <1>1, <1>2, <1>3, <1>4, <2>1
  <2>3. legs # <<>> => GoesOn(legs[Len(legs)])'
    <3>1. SUFFICES ASSUME legs # <<>> PROVE GoesOn(legs[Len(legs)])'
      OBVIOUS
    <3> DEFINE k == legs[Len(legs)]
    <3>2. k.end \in Nat /\ k.dir \in {1, -1} /\ GoesOn(k) /\ k' = k
      BY <1>1, <1>5, <3>1, LastLegIs
    <3> HIDE DEF k
    <3>3. k.rested /\ pivot.t >= k.end
      BY <2>1, <3>2 DEF GoesOn
    <3>4. k.end <= t
      BY <3>1 DEF k, GestureInv, SignalInv
    <3>5. pivot'.t >= k.end
      BY <1>2, <1>4, <2>1, <3>2, <3>3, <3>4
    <3>6. GoesOn(k)'
      BY <3>2, <3>3, <3>5 DEF GoesOn
    <3>. QED BY <3>6 DEF k
  <2>. QED BY <1>1, <1>2, <1>3, <1>5, <1>6, <2>1, <2>2, <2>3, SignalKeeps
<1>8. CASE ~Wait(q)
  <2>1. /\ pivot' = pivot /\ depart' = depart /\ cand' \in {head, cand}
        /\ dir' \in {-1, 0, 1} /\ (dir # 0 => dir' = dir)
    BY <1>2, <1>8 DEF Depart, Further, Hover, Now, Sign, head
  <2>2. /\ dir' = 1 => cand'.at - pivot.at >= Floor
        /\ dir' = -1 => pivot.at - cand'.at >= Floor
    <3>1. CASE Depart(q)
      BY <1>1, <1>2, <1>4, <3>1 DEF Depart, Sign, Distance, Now, head
    <3>2. CASE Further(q)
      <4>1. cand' = head /\ dir' = dir /\ Beyond(q)
        BY <3>2 DEF Further, Now, head
      <4>2. CASE dir = 1
        <5>1. q > cand.at
          BY <1>1, <1>2, <4>1, <4>2 DEF Beyond
        <5>. QED BY <1>1, <1>2, <1>4, <1>5, <4>1, <4>2, <5>1
      <4>3. CASE dir = -1
        <5>1. cand.at > q
          BY <1>1, <1>2, <4>1, <4>3 DEF Beyond
        <5>. QED BY <1>1, <1>2, <1>4, <1>5, <4>1, <4>3, <5>1
      <4>. QED BY <1>2, <4>1, <4>2, <4>3
    <3>3. CASE Hover(q)
      BY <1>5, <3>3 DEF Hover
    <3>. QED BY <1>8, <3>1, <3>2, <3>3
  <2>3. legs # <<>> => GoesOn(legs[Len(legs)])'
    <3>1. SUFFICES ASSUME legs # <<>> PROVE GoesOn(legs[Len(legs)])'
      OBVIOUS
    <3> DEFINE k == legs[Len(legs)]
    <3>2. k.dir \in {1, -1} /\ GoesOn(k) /\ k' = k
      BY <1>1, <1>5, <3>1, LastLegIs
    <3> HIDE DEF k
    <3>3. ~k.rested => dir # 0
      BY <3>2 DEF GoesOn
    <3>4. GoesOn(k)'
      BY <2>1, <3>2, <3>3 DEF GoesOn
    <3>. QED BY <3>4 DEF k
  <2>4. cand' \in ExtremeType /\ cand'.t <= t' /\ depart' \in Nat
    BY <1>1, <1>2, <1>3, <1>4, <2>1
  <2>. QED BY <1>1, <1>2, <1>3, <1>5, <1>6, <2>1, <2>2, <2>3, <2>4, SignalKeeps
<1>. QED BY <1>7, <1>8


(* Nothing was read while frames are still being read.                       *)
LEMMA NothingRead ==
  ASSUME GestureInv, status = "watching", UNCHANGED read
  PROVE  ReadInv'
<1>1. read = <<>> /\ read' = <<>>
  BY DEF GestureInv, ReadInv
<1>. QED BY <1>1 DEF ReadInv, GestureIsFourLegs, GestureIsUnbroken

(* A sequence that is empty again: what broke the last one is not later than *)
(* the pivot.                                                                *)
LEMMA EmptyAgain ==
  ASSUME ReadInv', legs' = <<>>,
         t' \in Nat, settled' \in BOOLEAN, thr' \in Floor .. Ceil, dir' \in {-1, 0, 1},
         pivot' \in ExtremeType, cand' \in ExtremeType, depart' \in Nat, broken' \in Nat,
         broken' <= t', cand'.t <= t', ~settled' => dir' = 0,
         settled' => pivot'.t >= broken',
         dir' = 1 => cand'.at - pivot'.at >= Floor,
         dir' = -1 => pivot'.at - cand'.at >= Floor
  PROVE  GestureInv'
<1>1. GestureTyped'
  <2>1. legs' \in Seq(LegType)
    OBVIOUS
  <2>. QED BY <2>1 DEF GestureTyped
<1>2. Len(legs') = 0 /\ 1 .. Len(legs') = {} /\ 1 .. Len(legs') - 1 = {}
  OBVIOUS
<1>3. SequenceInv'
  BY <1>2 DEF SequenceInv
<1>4. SignalInv'
  BY Zenon DEF SignalInv
<1>. QED BY <1>1, <1>3, <1>4 DEF GestureInv

(* What a length short of a gesture's four is.                               *)
LEMMA ShortLength ==
  \A n : n \in 1 .. 3 => n < 4 /\ n # 0
<1>. SUFFICES ASSUME NEW n \in {1, 2, 3} PROVE n < 4 /\ n # 0
  OBVIOUS
<1>. QED OBVIOUS

(* One, two or three legs.                                                   *)
LEMMA ShortOfFour ==
  ASSUME NEW S, NEW s \in Seq(S), Len(s) \in 1 .. 3
  PROVE  s # <<>> /\ Len(s) < 4
<1>1. Len(s) < 4 /\ Len(s) # 0
  BY ShortLength, Zenon
<1>2. Len(<<>>) = 0
  OBVIOUS
<1>. QED BY <1>1, <1>2, Zenon

(* A leg that joins the sequence short of a gesture.                         *)
LEMMA SequenceGrows ==
  ASSUME GestureInv, status = "watching", UNCHANGED <<read, broken>>,
         NEW l \in LegType, NEW s \in Seq(LegType), legs' = s,
         GoodLeg(l), l.end <= t', Len(s) \in 1 .. 3, s[Len(s)] = l,
         l.rested => Len(s) = 2,
         \A i \in 1 .. Len(s) : GoodLeg(s[i]),
         \A i \in 1 .. Len(s) - 1 : LinkedTo(s[i], s[i + 1]),
         t' \in Nat, t' >= t, settled' \in BOOLEAN, settled', thr' \in Floor .. Ceil,
         dir' \in {-1, 0, 1}, pivot' \in ExtremeType, cand' \in ExtremeType,
         depart' \in Nat, cand'.t <= t', pivot'.t = l.end,
         dir' = 1 => cand'.at - pivot'.at >= Floor,
         dir' = -1 => pivot'.at - cand'.at >= Floor,
         l.rested \/ dir' = -l.dir
  PROVE  GestureInv'
<1>1. GestureTyped'
  BY DEF GestureInv, GestureTyped
<1>2. SequenceInv'
  <2>1. Len(s) = 3 => ~s[3].rested
    OBVIOUS
  <2>2. \A i \in 1 .. Len(s) : GoodLeg(s[i])'
    BY DEF GoodLeg
  <2>3. \A i \in 1 .. Len(s) - 1 : LinkedTo(s[i], s[i + 1])'
    BY DEF LinkedTo
  <2>4. Len(s) < 4
    BY ShortOfFour, Zenon
  <2>. QED BY <2>1, <2>2, <2>3, <2>4, Zenon DEF SequenceInv
<1>3. pivot'.t >= broken' /\ broken' <= t'
  <2>1. l.start \in Nat /\ l.end \in Nat /\ l.end - l.start >= LegMin /\ l.start >= broken
        /\ LegMin \in Nat /\ broken \in Nat /\ broken <= t /\ t \in Nat
    BY GestureBounds, SignalIs DEF GoodLeg, LegType
  <2>2. l.end >= broken
    BY <2>1
  <2>. QED BY <2>1, <2>2
<1>4. GoesOn(l)'
  <2>1. pivot'.t >= l.end
    BY DEF LegType
  <2>. QED BY <2>1 DEF GoesOn
<1>5. SignalInv'
  <2>1. legs' # <<>> /\ legs'[Len(legs')] = l
    <3>1. s # <<>>
      BY ShortOfFour, Zenon
    <3>. QED BY <3>1
  <2>. QED BY <1>3, <1>4, <2>1, Zenon DEF SignalInv
<1>6. ReadInv'
  BY NothingRead
<1>. QED BY <1>1, <1>2, <1>5, <1>6 DEF GestureInv

(* Four legs of one gesture are what is read.                                *)
LEMMA GestureIsRead ==
  ASSUME GestureInv, NEW s \in Seq(LegType), Len(s) = 4,
         \A i \in 1 .. Len(s) : GoodLeg(s[i]),
         \A i \in 1 .. Len(s) - 1 : LinkedTo(s[i], s[i + 1]),
         ~s[3].rested, s[Len(s)].end - s[1].start <= GestureSpan,
         read' = s, status' = "nodded", UNCHANGED broken
  PROVE  ReadInv'
<1>1. /\ 1 .. Len(s) = 1 .. 4
      /\ Len(s) - 1 = 3
  OBVIOUS
<1>2. \A i \in 1 .. 4 : s[i].amp \in Floor .. MaxAmp /\ s[i].end - s[i].start \in LegMin .. LegMax
  BY <1>1 DEF GoodLeg
<1>3. \A i \in 1 .. 3 : \/ s[i].rested /\ s[i + 1].start >= s[i].end
                        \/ /\ s[i + 1].start = s[i].end
                           /\ s[i + 1].dir = -s[i].dir
  BY <1>1 DEF LinkedTo
<1>4. s[1].start >= broken
  BY <1>1 DEF GoodLeg
<1>5. GestureIsFourLegs'
  BY <1>2, <1>3 DEF GestureIsFourLegs, Legs
<1>6. GestureIsUnbroken'
  BY <1>4 DEF GestureIsUnbroken
<1>7. status' # "watching"
  OBVIOUS
<1>. QED BY <1>5, <1>6, <1>7 DEF ReadInv

(* A confirmed extreme: the sequence starts over, goes on or is a gesture.   *)
LEMMA LegKeeps ==
  ASSUME GestureInv, NEW q \in Levels, Leg(q)
  PROVE  GestureInv'
<1> DEFINE l == LegTo(q)
           s == Kept(l)
<1>1. Extreme(q) /\ Reading(q)
  BY DEF Leg, Extreme
<1>2. GestureTyped /\ SequenceInv /\ SignalInv
  BY DEF GestureInv
<1>3. /\ settled /\ settled' = settled /\ thr' \in Floor .. Ceil
      /\ t' = t + 1 /\ status = "watching"
  BY <1>1, <1>2, ReadingTypes
<1>4. /\ t \in Nat /\ cand \in ExtremeType /\ cand.t \in Nat /\ cand.t <= t /\ broken \in Nat
      /\ broken <= t
  BY SignalIs, <1>2 DEF GestureTyped
<1>5. /\ l \in LegType /\ l.amp >= Floor /\ l.end = cand.t /\ l.start >= broken
      /\ legs # <<>> => LinkedTo(legs[Len(legs)], l)
      /\ dir' \in {-1, 0, 1} /\ pivot' = cand /\ cand' \in ExtremeType
      /\ depart' \in Nat /\ cand'.t <= t'
      /\ dir' = 1 => cand'.at - pivot'.at >= Floor
      /\ dir' = -1 => pivot'.at - cand'.at >= Floor
      /\ l.rested \/ dir' = -l.dir
  BY <1>1, <1>2, ExtremeIs
<1>6. settled' \in BOOLEAN /\ settled'
  BY <1>2, <1>3, Zenon DEF GestureTyped
<1>7. t' \in Nat /\ pivot' \in ExtremeType /\ pivot'.t = cand.t /\ cand.t <= t'
  BY <1>3, <1>4, <1>5
<1>8. \/ StartOver
      \/ /\ Counts(l) /\ Len(s) < 4 /\ ~Spoils(s)
         /\ legs' = s /\ UNCHANGED <<status, read, broken>>
      \/ /\ Counts(l) /\ Len(s) = 4
         /\ legs' = <<>> /\ read' = s /\ status' = "nodded" /\ UNCHANGED broken
  BY DEF Leg, Legs
<1>9. ASSUME Counts(l)
      PROVE  /\ s \in Seq(LegType) /\ Len(s) \in 1 .. 4 /\ s[Len(s)] = l
             /\ \A i \in 1 .. Len(s) : GoodLeg(s[i])
             /\ \A i \in 1 .. Len(s) - 1 : LinkedTo(s[i], s[i + 1])
             /\ Len(s) = 4 => ~s[3].rested
             /\ s[Len(s)].end - s[1].start <= GestureSpan
  BY <1>2, <1>5, <1>9, KeptGoesOn
<1> HIDE DEF s, l
<1>10. CASE StartOver
  <2>1. legs' = <<>> /\ broken' = cand.t /\ read' = read
    BY <1>10 DEF StartOver
  <2>2. broken' \in Nat /\ broken' <= t' /\ pivot'.t >= broken'
    BY <1>3, <1>4, <1>7, <2>1
  <2>3. ReadInv'
    BY <1>3, <2>1, NothingRead
  <2>. QED BY <1>3, <1>5, <1>6, <1>7, <2>1, <2>2, <2>3, EmptyAgain
<1>11. CASE /\ Counts(l) /\ Len(s) < 4 /\ ~Spoils(s)
            /\ legs' = s /\ UNCHANGED <<status, read, broken>>
  <2>1. PICK k \in LegType : k = l
    BY <1>5
  <2>2. PICK z \in Seq(LegType) : z = s
    BY <1>9, <1>11
  <2>3. GoodLeg(k) /\ k.end <= t'
    BY <1>4, <1>5, <1>7, <1>9, <1>11, <2>1
  <2>4. Len(z) \in 1 .. 3 /\ z[Len(z)] = k
    <3>1. Len(s) \in 1 .. 4 /\ Len(s) < 4 /\ s[Len(s)] = l
      BY <1>9, <1>11
    <3>. QED BY <2>1, <2>2, <3>1
  <2>5. k.rested => Len(z) = 2
    BY <1>11, <2>2, <2>4 DEF Spoils, Last, Legs
  <2>6. /\ legs' = z /\ UNCHANGED <<read, broken>>
        /\ \A i \in 1 .. Len(z) : GoodLeg(z[i])
        /\ \A i \in 1 .. Len(z) - 1 : LinkedTo(z[i], z[i + 1])
    BY <1>9, <1>11, <2>2
  <2>7. pivot'.t = k.end /\ (k.rested \/ dir' = -k.dir) /\ t' >= t
    BY <1>3, <1>4, <1>5, <1>7, <2>1
  <2>. QED BY <1>3, <1>5, <1>6, <1>7, <2>3, <2>4, <2>5, <2>6, <2>7, SequenceGrows
<1>12. CASE /\ Counts(l) /\ Len(s) = 4
            /\ legs' = <<>> /\ read' = s /\ status' = "nodded" /\ UNCHANGED broken
  <2>1. PICK z \in Seq(LegType) : z = s
    BY <1>9, <1>12
  <2>2. /\ Len(z) = 4 /\ ~z[3].rested /\ z[Len(z)].end - z[1].start <= GestureSpan
        /\ \A i \in 1 .. Len(z) : GoodLeg(z[i])
        /\ \A i \in 1 .. Len(z) - 1 : LinkedTo(z[i], z[i + 1])
        /\ read' = z /\ status' = "nodded" /\ UNCHANGED broken
    BY <1>9, <1>12, <2>1
  <2>3. ReadInv'
    BY <2>2, GestureIsRead
  <2>4. pivot'.t >= broken'
    <3>1. Len(s) \in 1 .. Len(s) /\ s[Len(s)] = l
      BY <1>9, <1>12
    <3>2. GoodLeg(l)
      BY <1>9, <1>12, <3>1
    <3>3. /\ l.start \in Nat /\ l.end \in Nat /\ l.end - l.start >= LegMin /\ l.start >= broken
          /\ LegMin \in Nat
      BY <1>5, <3>2, GestureBounds DEF GoodLeg, LegType
    <3>. QED BY <1>4, <1>5, <1>7, <1>12, <3>3
  <2>5. broken' \in Nat /\ broken' <= t'
    BY <1>3, <1>4, <1>12
  <2>. QED BY <1>5, <1>6, <1>3, <1>7, <1>12, <2>3, <2>4, <2>5, EmptyAgain
<1>. QED BY <1>8, <1>10, <1>11, <1>12


(* The followed face is lost: everything starts over with this frame.        *)
LEMMA UnfollowedKeeps ==
  ASSUME GestureInv, NEW alone \in BOOLEAN, Unfollowed(alone)
  PROVE  GestureInv'
<1>1. /\ status = "watching" /\ t' = t + 1 /\ broken' = t' /\ settled' = FALSE
      /\ legs' = <<>> /\ dir' = 0 /\ thr' = Floor /\ depart' = 0 /\ UNCHANGED read
      /\ pivot' = [at |-> 0, t |-> 0] /\ cand' = [at |-> 0, t |-> 0]
  BY DEF Unfollowed, Fresh, Now
<1>2. t' \in Nat /\ 0 <= t' /\ broken' \in Nat /\ broken' <= t'
  <2>1. t \in Nat
    BY SignalIs
  <2>2. t' \in Nat /\ 0 <= t'
    BY <1>1, <2>1
  <2>. QED BY <1>1, <2>2
<1>3. pivot' \in ExtremeType /\ cand' \in ExtremeType /\ cand'.t = 0
  BY <1>1 DEF ExtremeType
<1>4. thr' \in Floor .. Ceil
  BY <1>1, GestureBounds
<1>5. ReadInv'
  BY <1>1, NothingRead
<1>6. settled' \in BOOLEAN /\ ~settled'
  BY <1>1, Zenon
<1>7. dir' \in {-1, 0, 1} /\ dir' # 1 /\ dir' # -1 /\ depart' \in Nat
  BY <1>1
<1>. QED BY <1>1, <1>2, <1>3, <1>4, <1>5, <1>6, <1>7, EmptyAgain

(* A frame that feeds nothing, the end of the window, and a stutter.         *)
LEMMA IdleKeeps ==
  ASSUME GestureInv, NoFace \/ Unread \/ TimeOut \/ UNCHANGED gestureVars
  PROVE  GestureInv'
<1>1. /\ UNCHANGED <<settled, thr, dir, pivot, cand, depart, legs, read, broken>>
      /\ t' \in {t, t + 1} /\ status' \in {status, "timeout"}
  BY DEF NoFace, Unread, Skipped, TimeOut, gestureVars, zigzag, Now
<1>2. t \in Nat /\ cand.t \in Nat /\ cand.t <= t
  BY SignalIs
<1>3. t' \in Nat /\ t' >= t /\ cand'.t <= t'
  BY <1>1, <1>2
<1>4. /\ settled' \in BOOLEAN /\ (settled => settled')
      /\ ~settled' => dir' = 0
      /\ settled' => pivot'.t >= broken
      /\ dir' = 1 => cand'.at - pivot'.at >= Floor
      /\ dir' = -1 => pivot'.at - cand'.at >= Floor
  BY <1>1, Zenon DEF GestureInv, SignalInv, GestureTyped
<1>5. /\ thr' \in Floor .. Ceil /\ dir' \in {-1, 0, 1} /\ pivot' \in ExtremeType
      /\ cand' \in ExtremeType /\ depart' \in Nat
  BY <1>1 DEF GestureInv, GestureTyped
<1>6. legs # <<>> => GoesOn(legs[Len(legs)])'
  BY <1>1 DEF GestureInv, SignalInv, GoesOn
<1>7. read # <<>> => status' # "watching"
  BY <1>1 DEF GestureInv, ReadInv
<1>. QED BY <1>1, <1>3, <1>4, <1>5, <1>6, <1>7, SignalKeeps

(* The invariant of the gesture, for every value of the constants.           *)
LEMMA GestureInvariant == GestureSpec => []GestureInv
<1>1. GestureInit => GestureInv
  <2> SUFFICES ASSUME GestureInit PROVE GestureInv
    OBVIOUS
  <2>1. /\ t = 0 /\ settled = FALSE /\ thr = Floor /\ dir = 0 /\ depart = 0 /\ broken = 0
        /\ pivot = [at |-> 0, t |-> 0] /\ cand = [at |-> 0, t |-> 0]
        /\ legs = <<>> /\ read = <<>>
    BY DEF GestureInit
  <2>2. GestureTyped
    <3>1. [at |-> 0, t |-> 0] \in ExtremeType
      BY DEF ExtremeType
    <3>2. Floor \in Floor .. Ceil /\ 0 \in {-1, 0, 1} /\ FALSE \in BOOLEAN /\ 0 \in Nat
      BY GestureBounds
    <3>3. legs \in Seq(LegType)
      BY <2>1
    <3>. QED BY <2>1, <3>1, <3>2, <3>3 DEF GestureTyped
  <2>3. SequenceInv
    BY <2>1 DEF SequenceInv
  <2>4. SignalInv
    BY <2>1 DEF SignalInv
  <2>5. ReadInv
    BY <2>1 DEF ReadInv, GestureIsFourLegs, GestureIsUnbroken
  <2>. QED BY <2>2, <2>3, <2>4, <2>5 DEF GestureInv
<1>2. GestureInv /\ [GestureNext]_gestureVars => GestureInv'
  <2> SUFFICES ASSUME GestureInv, [GestureNext]_gestureVars PROVE GestureInv'
    OBVIOUS
  <2>1. ASSUME NEW q \in Levels, SettleBaseline(q) PROVE GestureInv'
    BY <2>1, SettleKeeps
  <2>2. ASSUME NEW q \in Levels, Wait(q) \/ Depart(q) \/ Further(q) \/ Hover(q)
        PROVE  GestureInv'
    BY <2>2, MoveKeeps
  <2>3. ASSUME NEW q \in Levels, Leg(q) PROVE GestureInv'
    BY <2>3, LegKeeps
  <2>4. ASSUME NEW alone \in BOOLEAN, Unfollowed(alone) PROVE GestureInv'
    BY <2>4, UnfollowedKeeps
  <2>5. CASE NoFace \/ Unread \/ TimeOut \/ UNCHANGED gestureVars
    BY <2>5, IdleKeeps
  <2>. QED BY <2>1, <2>2, <2>3, <2>4, <2>5, Zenon DEF GestureNext
<1>. QED BY <1>1, <1>2, PTL DEF GestureSpec

(* A gesture that is read is four legs that hang together: each tall enough  *)
(* and no turn away, of a leg's time, all within the span, each from where   *)
(* the last one ended and back unless the head rested there, and no rest     *)
(* before the last leg (GestureIsFourLegs; legs_complete, detector.rs).      *)
THEOREM GesturesAreFourLegs == GestureSpec => []GestureIsFourLegs
<1>1. GestureInv => GestureIsFourLegs
  BY DEF GestureInv, ReadInv
<1>. QED BY <1>1, GestureInvariant, PTL

(* From its first leg on, no frame showed faces without the followed one and *)
(* no extreme was refused; frames with no face in them, or whose mesh does   *)
(* not read, may lie between (GestureIsUnbroken; wait.rs starts both         *)
(* detectors over, detector.rs clears the legs).                             *)
THEOREM GesturesAreUnbroken == GestureSpec => []GestureIsUnbroken
<1>1. GestureInv => GestureIsUnbroken
  BY DEF GestureInv, ReadInv
<1>. QED BY <1>1, GestureInvariant, PTL
===============================================================================
