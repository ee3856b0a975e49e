----------------------------- MODULE Camera_proofs -----------------------------
(***************************************************************************)
(* Proofs about Camera, for any nodes with finitely many buffers, any      *)
(* limits of the exposure, any wrap of the frame numbers and any deadline. *)
(*                                                                         *)
(* A frame is whole because a buffer has one owner at a time: the driver,  *)
(* which fills it, its queue of filled ones, or the daemon, which decodes  *)
(* it (OwnInv, HandInv). The settings hold because a write under way and   *)
(* the loop's wish are kept apart from what was last recorded (BeliefInv), *)
(* and because no step of the loop leaves the limits (Legal).              *)
(***************************************************************************)
EXTENDS Camera, FiniteSetTheorems, TLAPS

Calls == {"none", "waiting", "top", "bottom", "decoded", "putback", "meter", "exposure", "gain"}
Holding == {"top", "bottom", "decoded", "putback"}
Writing == {"exposure", "gain"}
Shots == 0..Numbers - 1

Typed ==
  /\ streaming \in BOOLEAN /\ metering \in BOOLEAN /\ call \in Calls
  /\ given \in Seq(Buffers) /\ done \in Seq(Buffers)
  /\ pixels \in [Buffers -> Shots \X Shots]
  /\ number \in Shots /\ left \in 0..Timeout
  /\ frame \in [seq : Shots, top : Shots, bottom : Shots]
  /\ asked \in Allowed /\ applied \in Allowed \cup {None} /\ loop \in Allowed
  /\ next \in Allowed \cup {None} /\ seed \in Allowed \cup {None}

(* A buffer is queued once, and to one side only.                           *)
Once(s) == \A i, j \in DOMAIN s : s[i] = s[j] => i = j
Apart(s, t) == \A i \in DOMAIN s, j \in DOMAIN t : s[i] # t[j]
OwnInv == Once(given) /\ Once(done) /\ Apart(given, done)

(* The driver writes a buffer whole, and nobody writes the one in hand.     *)
HandInv ==
  /\ \A b \in Buffers : pixels[b][1] = pixels[b][2]
  /\ call \in Holding =>
       /\ hand \in [buf : Buffers, seq : Shots] /\ hand.seq = pixels[hand.buf][1]
       /\ \A i \in DOMAIN given : given[i] # hand.buf
       /\ \A i \in DOMAIN done : done[i] # hand.buf

(* Only while its second half is decoded does the daemon's frame mix two.   *)
FrameInv ==
  /\ call # "bottom" => frame.seq = frame.top /\ frame.top = frame.bottom
  /\ call = "bottom" => frame.top = hand.seq

(* Exposure before gain before digital gain.                                *)
InOrder(s) ==
  /\ s.gain > MinGain => s.exposure = MaxExposure
  /\ s.digital > 100 => s.gain = MaxGain
Legal(s) == s \in Allowed /\ InOrder(s)

(* What is written first has been asked for before the second is, and what  *)
(* was recorded last is what was asked until then.                          *)
BeliefInv ==
  /\ call \notin {"none", "exposure", "gain"} => streaming
  /\ streaming => applied = loop /\ asked.gain = loop.gain
  /\ streaming /\ call # "gain" => asked.exposure = loop.exposure
  /\ ~streaming /\ call \in Writing => applied = None
  /\ call \in Writing => next # None
  /\ call = "gain" => asked.exposure = next.exposure

IInv == Typed /\ OwnInv /\ HandInv /\ FrameInv /\ ActuatorsInOrder /\ BeliefInv
-------------------------------------------------------------------------------
(* The arithmetic of a step: a factor over 100 never lowers a value, ...     *)
LEMMA ScaledUp ==
  ASSUME NEW n \in Nat, NEW f \in Nat, f >= 100
  PROVE  Scaled(n, f) \in Nat /\ Scaled(n, f) >= n
<1>1. PICK g \in Nat : f = 100 + g
  <2>1. f - 100 \in Nat /\ f = 100 + (f - 100)
    OBVIOUS
  <2> QED BY <2>1
<1>2. n * f = 100 * n + n * g /\ n * g \in Nat
  BY <1>1
<1> DEFINE p == n * g
<1>3. Scaled(n, f) = (100 * n + p) \div 100 /\ p \in Nat
  BY <1>2 DEF Scaled
<1> HIDE DEF p
<1> QED BY <1>3

(* ... and one under it never raises it.                                  *)
LEMMA ScaledDown ==
  ASSUME NEW n \in Nat, NEW f \in Nat, f <= 100
  PROVE  Scaled(n, f) \in Nat /\ Scaled(n, f) <= n
<1>1. PICK g \in Nat : f = 100 - g
  <2>1. 100 - f \in Nat /\ f = 100 - (100 - f)
    OBVIOUS
  <2> QED BY <2>1
<1>2. n * f = 100 * n - n * g /\ n * g \in Nat /\ n * f \in Nat
  BY <1>1
<1> DEFINE p == n * g
<1>3. Scaled(n, f) = (100 * n - p) \div 100 /\ p \in Nat /\ 100 * n - p \in Nat
  BY <1>2 DEF Scaled
<1> HIDE DEF p
<1> QED BY <1>3

(* A value held between its limits.                                         *)
LEMMA Held ==
  ASSUME NEW lo \in Nat, NEW hi \in Nat, NEW n \in Nat, lo <= hi
  PROVE  /\ lo <= n => AtMost(n, hi) \in lo..hi
         /\ n <= hi => AtLeast(n, lo) \in lo..hi
BY DEF AtMost, AtLeast

(* The least exposure there is.                                             *)
LEMMA LowestIs == Lowest \in Nat \ {0} /\ Lowest <= MinExposure
BY CameraAssumption, LimitsAssumption DEF Lowest, AtMost

(* No setting is the absence of one.                                        *)
LEMMA NoneIsNoSetting == None \notin Allowed
<1>1. None.exposure = 0
  BY DEF None
<1> QED BY <1>1, LowestIs, LimitsAssumption DEF Allowed

(* The setting a use starts from is legal.                                  *)
LEMMA StartLegal == Legal(Start)
BY CameraAssumption, LimitsAssumption DEF Start, Legal, InOrder, Allowed, Lowest, AtMost

(* Brightening a legal setting leaves a legal one: exposure to its end, then *)
(* gain to its end, then digital gain.                                      *)
LEMMA BrighterLegal ==
  ASSUME NEW s, Legal(s), NEW f \in 100..125
  PROVE  Legal(Brighter(s, f))
<1>1. /\ s \in Allowed /\ InOrder(s)
      /\ s.exposure \in Lowest..MaxExposure /\ s.gain \in MinGain..MaxGain
      /\ s.digital \in 100..MaxDigital
  BY DEF Legal, Allowed
<1>2. s.exposure \in Nat /\ s.gain \in Nat /\ s.digital \in Nat
  BY <1>1, LowestIs, LimitsAssumption
<1>3. CASE s.exposure < MaxExposure
  <2> DEFINE e == AtMost(Scaled(s.exposure, f) + 1, MaxExposure)
  <2>1. e \in Lowest..MaxExposure
    <3> DEFINE n == Scaled(s.exposure, f) + 1
    <3>1. Scaled(s.exposure, f) \in Nat /\ Scaled(s.exposure, f) >= s.exposure
      BY <1>2, ScaledUp
    <3>2. n \in Nat /\ Lowest <= n /\ Lowest \in Nat /\ MaxExposure \in Nat /\ Lowest <= MaxExposure
      BY <1>1, <1>2, <3>1, LowestIs, LimitsAssumption
    <3>3. e = AtMost(n, MaxExposure)
      OBVIOUS
    <3> HIDE DEF n, e
    <3> QED BY <3>2, <3>3, Held
  <2>2. Brighter(s, f) = [s EXCEPT !.exposure = e]
    BY <1>3 DEF Brighter
  <2> HIDE DEF e
  <2>3. s.gain = MinGain
    BY <1>1, <1>3, LimitsAssumption DEF InOrder
  <2> QED BY <1>1, <2>1, <2>2, <2>3, LimitsAssumption DEF Legal, InOrder, Allowed
<1>4. CASE ~(s.exposure < MaxExposure) /\ s.gain < MaxGain
  <2> DEFINE g == AtMost(Scaled(s.gain, f) + 1, MaxGain)
  <2>1. g \in MinGain..MaxGain
    <3> DEFINE n == Scaled(s.gain, f) + 1
    <3>1. Scaled(s.gain, f) \in Nat /\ Scaled(s.gain, f) >= s.gain
      BY <1>2, ScaledUp
    <3>2. n \in Nat /\ MinGain <= n /\ MinGain \in Nat /\ MaxGain \in Nat /\ MinGain <= MaxGain
      BY <1>1, <1>2, <3>1, LimitsAssumption
    <3>3. g = AtMost(n, MaxGain)
      OBVIOUS
    <3> HIDE DEF n, g
    <3> QED BY <3>2, <3>3, Held
  <2>2. Brighter(s, f) = [s EXCEPT !.gain = g]
    BY <1>4 DEF Brighter
  <2> HIDE DEF g
  <2>3. s.exposure = MaxExposure /\ ~(s.digital > 100)
    BY <1>1, <1>4, LimitsAssumption DEF InOrder
  <2> QED BY <1>1, <2>1, <2>2, <2>3, LimitsAssumption DEF Legal, InOrder, Allowed
<1>5. CASE ~(s.exposure < MaxExposure) /\ ~(s.gain < MaxGain)
  <2> DEFINE d == AtMost(Scaled(s.digital, f), MaxDigital)
  <2>1. d \in 100..MaxDigital
    <3> DEFINE n == Scaled(s.digital, f)
    <3>1. Scaled(s.digital, f) \in Nat /\ Scaled(s.digital, f) >= s.digital
      BY <1>2, ScaledUp
    <3>2. n \in Nat /\ 100 <= n /\ 100 \in Nat /\ MaxDigital \in Nat /\ 100 <= MaxDigital
      BY <1>1, <1>2, <3>1, LimitsAssumption
    <3>3. d = AtMost(n, MaxDigital)
      OBVIOUS
    <3> HIDE DEF n, d
    <3> QED BY <3>2, <3>3, Held
  <2>2. Brighter(s, f) = [s EXCEPT !.digital = d]
    BY <1>5 DEF Brighter
  <2> HIDE DEF d
  <2>3. s.exposure = MaxExposure /\ s.gain = MaxGain
    BY <1>1, <1>5, LimitsAssumption
  <2> QED BY <1>1, <2>1, <2>2, <2>3, LimitsAssumption DEF Legal, InOrder, Allowed
<1> QED BY <1>3, <1>4, <1>5

(* ... and darkening unwinds them in reverse.                               *)
LEMMA DarkerLegal ==
  ASSUME NEW s, Legal(s), NEW f \in 80..100
  PROVE  Legal(Darker(s, f))
<1>1. /\ s \in Allowed /\ InOrder(s)
      /\ s.exposure \in Lowest..MaxExposure /\ s.gain \in MinGain..MaxGain
      /\ s.digital \in 100..MaxDigital
  BY DEF Legal, Allowed
<1>2. s.exposure \in Nat /\ s.gain \in Nat /\ s.digital \in Nat
  BY <1>1, LowestIs, LimitsAssumption
<1>3. CASE s.digital > 100
  <2> DEFINE d == AtLeast(Scaled(s.digital, f), 100)
  <2>1. d \in 100..MaxDigital
    <3> DEFINE n == Scaled(s.digital, f)
    <3>1. Scaled(s.digital, f) \in Nat /\ Scaled(s.digital, f) <= s.digital
      BY <1>2, ScaledDown
    <3>2. n \in Nat /\ n <= MaxDigital /\ 100 \in Nat /\ MaxDigital \in Nat /\ 100 <= MaxDigital
      BY <1>1, <1>2, <3>1, LimitsAssumption
    <3>3. d = AtLeast(n, 100)
      OBVIOUS
    <3> HIDE DEF n, d
    <3> QED BY <3>2, <3>3, Held
  <2>2. Darker(s, f) = [s EXCEPT !.digital = d]
    BY <1>3 DEF Darker
  <2> HIDE DEF d
  <2>3. s.gain = MaxGain
    BY <1>1, <1>3 DEF InOrder
  <2> QED BY <1>1, <2>1, <2>2, <2>3, LimitsAssumption DEF Legal, InOrder, Allowed
<1>4. CASE ~(s.digital > 100) /\ s.gain > MinGain
  <2> DEFINE g == AtLeast(Scaled(s.gain, f), MinGain)
  <2>1. g \in MinGain..MaxGain
    <3> DEFINE n == Scaled(s.gain, f)
    <3>1. Scaled(s.gain, f) \in Nat /\ Scaled(s.gain, f) <= s.gain
      BY <1>2, ScaledDown
    <3>2. n \in Nat /\ n <= MaxGain /\ MinGain \in Nat /\ MaxGain \in Nat /\ MinGain <= MaxGain
      BY <1>1, <1>2, <3>1, LimitsAssumption
    <3>3. g = AtLeast(n, MinGain)
      OBVIOUS
    <3> HIDE DEF n, g
    <3> QED BY <3>2, <3>3, Held
  <2>2. Darker(s, f) = [s EXCEPT !.gain = g]
    BY <1>4 DEF Darker
  <2> HIDE DEF g
  <2>3. s.exposure = MaxExposure
    BY <1>1, <1>4 DEF InOrder
  <2> QED BY <1>1, <1>4, <2>1, <2>2, <2>3, LimitsAssumption DEF Legal, InOrder, Allowed
<1>5. CASE ~(s.digital > 100) /\ ~(s.gain > MinGain)
  <2> DEFINE e == AtLeast(Scaled(s.exposure, f), MinExposure)
  <2>1. e \in MinExposure..MaxExposure
    <3> DEFINE n == Scaled(s.exposure, f)
    <3>1. Scaled(s.exposure, f) \in Nat /\ Scaled(s.exposure, f) <= s.exposure
      BY <1>2, ScaledDown
    <3>2. n \in Nat /\ n <= MaxExposure /\ MinExposure \in Nat /\ MaxExposure \in Nat /\ MinExposure <= MaxExposure
      BY <1>1, <1>2, <3>1, LimitsAssumption
    <3>3. e = AtLeast(n, MinExposure)
      OBVIOUS
    <3> HIDE DEF n, e
    <3> QED BY <3>2, <3>3, Held
  <2>2. Darker(s, f) = [s EXCEPT !.exposure = e]
    BY <1>5 DEF Darker
  <2> HIDE DEF e
  <2>3. e \in Lowest..MaxExposure
    BY <2>1, LowestIs, LimitsAssumption
  <2> QED BY <1>1, <1>5, <2>2, <2>3, LimitsAssumption DEF Legal, InOrder, Allowed
<1> QED BY <1>3, <1>4, <1>5

(* So does any step, at any factor the meter gives.                         *)
LEMMA StepLegal ==
  ASSUME NEW s, Legal(s), NEW f \in 80..125
  PROVE  Legal(Step(s, f))
<1>1. CASE f > 100
  <2>1. Step(s, f) = Brighter(s, f) /\ f \in 100..125
    BY <1>1 DEF Step
  <2> QED BY <2>1, BrighterLegal
<1>2. CASE f < 100
  <2>1. Step(s, f) = Darker(s, f) /\ f \in 80..100
    BY <1>2 DEF Step
  <2> QED BY <2>1, DarkerLegal
<1>3. CASE f = 100
  BY <1>3 DEF Step
<1> QED BY <1>1, <1>2, <1>3
-------------------------------------------------------------------------------
(* Queues of buffers.                                                       *)

(* The buffers a node granted, in the order they are queued at the open.    *)
LEMMA GrantedOnce ==
  ASSUME NEW S \in SUBSET Buffers
  PROVE  SetToSeq(S) \in Seq(Buffers) /\ Once(SetToSeq(S))
<1>1. IsFiniteSet(S)
  BY CameraAssumption, FS_Subset
<1>2. Cardinality(S) \in Nat /\ ExistsBijection(1..Cardinality(S), S)
  BY <1>1, FS_CardinalityType
<1>3. \E f \in [1..Cardinality(S) -> S] : IsInjective(f)
  BY <1>2 DEF ExistsBijection, Bijection, Injection
<1>4. SetToSeq(S) \in [1..Cardinality(S) -> S] /\ IsInjective(SetToSeq(S))
  BY <1>3, Zenon DEF SetToSeq
<1> DEFINE q == SetToSeq(S)
<1> HIDE DEF q
<1>5. q \in [1..Cardinality(S) -> S] /\ IsInjective(q)
  BY <1>4 DEF q
<1>6. q \in Seq(S)
  BY <1>2, <1>5
<1>7. q \in Seq(Buffers) /\ Once(q)
  BY <1>5, <1>6 DEF Once, IsInjective
<1> QED BY <1>7 DEF q

(* Taking the head of a queue of buffers each queued once.                  *)
LEMMA TailOnce ==
  ASSUME NEW s \in Seq(Buffers), s # <<>>, Once(s)
  PROVE  /\ Tail(s) \in Seq(Buffers) /\ Once(Tail(s)) /\ Head(s) \in Buffers
         /\ \A i \in DOMAIN Tail(s) : \E j \in DOMAIN s : Tail(s)[i] = s[j]
         /\ \A i \in DOMAIN Tail(s) : Tail(s)[i] # Head(s)
         /\ \E j \in DOMAIN s : Head(s) = s[j]
BY DEF Once

(* Queueing one that is not queued.                                         *)
LEMMA AppendOnce ==
  ASSUME NEW s \in Seq(Buffers), Once(s), NEW b \in Buffers, \A i \in DOMAIN s : s[i] # b
  PROVE  /\ Append(s, b) \in Seq(Buffers) /\ Once(Append(s, b))
         /\ \A i \in DOMAIN Append(s, b) : Append(s, b)[i] = b \/ \E j \in DOMAIN s : Append(s, b)[i] = s[j]
BY DEF Once

(* Two queues with nothing in common still have nothing in common when the  *)
(* head of one goes to the end of the other.                                *)
LEMMA MoveApart ==
  ASSUME NEW s \in Seq(Buffers), NEW t \in Seq(Buffers), s # <<>>,
         Once(s), Once(t), Apart(t, s)
  PROVE  Apart(Append(t, Head(s)), Tail(s)) /\ Once(Append(t, Head(s)))
<1>1. \E j \in DOMAIN s : Head(s) = s[j]
  BY TailOnce
<1>2. \A i \in DOMAIN t : t[i] # Head(s)
  BY <1>1 DEF Apart
<1>3. Head(s) \in Buffers
  BY TailOnce
<1>4. \A i \in DOMAIN Append(t, Head(s)) :
         Append(t, Head(s))[i] = Head(s) \/ \E j \in DOMAIN t : Append(t, Head(s))[i] = t[j]
  BY <1>2, <1>3, AppendOnce
<1>5. \A k \in DOMAIN Tail(s) : Tail(s)[k] # Head(s) /\ \E j \in DOMAIN s : Tail(s)[k] = s[j]
  BY TailOnce
<1>6. Once(Append(t, Head(s)))
  BY <1>2, <1>3, AppendOnce
<1> DEFINE a == Append(t, Head(s))
           r == Tail(s)
           h == Head(s)
<1>7. Apart(a, r)
  <2>1. /\ \A i \in DOMAIN a : a[i] = h \/ \E j \in DOMAIN t : a[i] = t[j]
        /\ \A k \in DOMAIN r : r[k] # h /\ \E j \in DOMAIN s : r[k] = s[j]
        /\ \A i \in DOMAIN t, j \in DOMAIN s : t[i] # s[j]
    BY <1>4, <1>5 DEF Apart
  <2> HIDE DEF a, r, h
  <2>2. ASSUME NEW i \in DOMAIN a, NEW k \in DOMAIN r PROVE a[i] # r[k]
    <3>1. r[k] # h /\ \E j \in DOMAIN s : r[k] = s[j]
      BY <2>1
    <3>2. a[i] = h \/ \E j \in DOMAIN t : a[i] = t[j]
      BY <2>1
    <3> QED BY <2>1, <3>1, <3>2
  <2> QED BY <2>2 DEF Apart
<1> QED BY <1>6, <1>7
-------------------------------------------------------------------------------
(* Setting up, and standing still.                                          *)
LEMMA InitIInv == Init => IInv
<1> SUFFICES ASSUME Init PROVE IInv
  OBVIOUS
<1>1. Start \in Allowed /\ InOrder(Start) /\ Start # None
  BY StartLegal, NoneIsNoSetting DEF Legal
<1>2. 0 \in Shots /\ 0 \in 0..Timeout
  BY CameraAssumption DEF Shots
<1>3. Typed
  <2>1. given \in Seq(Buffers) /\ done \in Seq(Buffers)
    BY DEF Init
  <2>2. pixels \in [Buffers -> Shots \X Shots]
    BY <1>2 DEF Init
  <2>3. frame \in [seq : Shots, top : Shots, bottom : Shots]
    BY <1>2 DEF Init, Blank
  <2> QED BY <1>1, <1>2, <2>1, <2>2, <2>3 DEF Init, Typed, Calls
<1>4. OwnInv
  BY DEF Init, OwnInv, Once, Apart
<1>5. HandInv /\ FrameInv
  BY DEF Init, HandInv, FrameInv, Holding, Blank
<1>6. ActuatorsInOrder
  BY <1>1 DEF Init, ActuatorsInOrder, InOrder
<1>7. BeliefInv
  BY <1>1 DEF Init, BeliefInv, Writing
<1> QED BY <1>3, <1>4, <1>5, <1>6, <1>7 DEF IInv

(* The variables keep their types.                                          *)
LEMMA TypedKept == IInv /\ [Next]_vars => Typed'
<1> SUFFICES ASSUME IInv, [Next]_vars PROVE Typed'
  OBVIOUS
<1> USE DEF IInv, Typed, Calls
<1>0. /\ Start \in Allowed /\ 0 \in Shots /\ 0 \in 0..Timeout /\ Timeout \in 0..Timeout
      /\ Blank \in [seq : Shots, top : Shots, bottom : Shots]
  BY StartLegal, CameraAssumption DEF Legal, Shots, Blank
<1>1. CASE Open
  <2>1. PICK node \in Nodes : given' = SetToSeq(node.granted)
    BY <1>1 DEF Open
  <2>2. given' \in Seq(Buffers)
    BY <2>1, CameraAssumption, GrantedOnce
  <2>3. done' \in Seq(Buffers) /\ call' \in Calls
    BY <1>1 DEF Open
  <2> QED BY <1>0, <1>1, <2>2, <2>3 DEF Open
<1>2. CASE Stop \/ Fails
  <2>1. Close
    BY <1>2 DEF Stop, Fails
  <2>2. given' \in Seq(Buffers) /\ done' \in Seq(Buffers)
    BY <2>1 DEF Close
  <2>3. pixels' \in [Buffers -> Shots \X Shots]
    BY <1>0, <2>1 DEF Close
  <2> QED BY <1>0, <2>1, <2>2, <2>3 DEF Close
<1>3. CASE Freeze \/ Remember
  BY <1>3 DEF Freeze, Remember, buffers
<1>4. CASE Ask
  BY <1>0, <1>4 DEF Ask, buffers, exposing
<1>5. CASE SkipBad
  <2>1. given' \in Seq(Buffers) /\ done' \in Seq(Buffers)
    BY <1>5, TailOnce DEF SkipBad, OwnInv
  <2> QED BY <1>5, <2>1 DEF SkipBad, exposing
<1>6. CASE Dequeue
  <2>1. done' \in Seq(Buffers)
    BY <1>6, TailOnce DEF Dequeue, OwnInv
  <2> QED BY <1>6, <2>1 DEF Dequeue, exposing
<1>7. CASE TimesOut
  BY <1>7 DEF TimesOut, buffers, exposing
<1>8. CASE DecodeTop
  <2>1. hand.buf \in Buffers
    BY <1>8 DEF DecodeTop, HandInv, Holding
  <2>2. pixels[hand.buf][1] \in Shots
    BY <2>1
  <2> QED BY <1>8, <2>2 DEF DecodeTop, buffers, exposing
<1>9. CASE DecodeBottom
  <2>1. hand \in [buf : Buffers, seq : Shots]
    BY <1>9 DEF DecodeBottom, HandInv, Holding
  <2>2. pixels[hand.buf][2] \in Shots /\ hand.seq \in Shots
    BY <2>1
  <2> QED BY <1>9, <2>2 DEF DecodeBottom, buffers, exposing
<1>10. CASE PutBack
  <2>1. hand.buf \in Buffers
    BY <1>10 DEF PutBack, HandInv, Holding
  <2>2. given' \in Seq(Buffers)
    BY <1>10, <2>1 DEF PutBack, GiveBack
  <2> QED BY <1>10, <2>2 DEF PutBack, exposing
<1>11. CASE Observe
  <2>1. PICK f \in 80..125 :
          LET to == Step(loop, f)
          IN  IF f \in 95..105 \ {100} THEN FALSE
              ELSE IF to = loop THEN call' = "none" /\ UNCHANGED next
              ELSE call' = "exposure" /\ next' = to
    BY <1>11 DEF Observe
  <2>2. Legal(loop)
    BY NoneIsNoSetting DEF ActuatorsInOrder, Legal, InOrder
  <2>3. Step(loop, f) \in Allowed
    BY <2>2, StepLegal DEF Legal
  <2>4. next' \in Allowed \cup {None} /\ call' \in Calls
    BY <2>1, <2>3
  <2> QED BY <1>11, <2>4 DEF Observe, buffers
<1>12. CASE SetExposure
  <2>1. next \in Allowed
    BY <1>12 DEF SetExposure, BeliefInv, Writing
  <2>2. asked' \in Allowed
    BY <1>12, <2>1 DEF SetExposure, Allowed
  <2> QED BY <1>12, <2>2 DEF SetExposure, buffers
<1>13. CASE SetGain
  <2>1. next \in Allowed
    BY <1>13 DEF SetGain, BeliefInv, Writing
  <2>2. asked' \in Allowed
    BY <1>13, <2>1 DEF SetGain, Allowed
  <2> QED BY <1>13, <2>1, <2>2 DEF SetGain, buffers
<1>14. CASE Expose
  <2>1. left' \in 0..Timeout
    BY <1>14, CameraAssumption DEF Expose
  <2>2. number' \in Shots
    <3>1. number \in Nat /\ Numbers \in Nat \ {0}
      BY CameraAssumption DEF Shots
    <3>2. (number + 1) % Numbers \in Shots
      BY <3>1 DEF Shots
    <3>3. number' = (number + 1) % Numbers \/ number' = number
      BY <1>14 DEF Expose
    <3> QED BY <3>2, <3>3
  <2>3. given' \in Seq(Buffers) /\ done' \in Seq(Buffers) /\ pixels' \in [Buffers -> Shots \X Shots]
    <3>1. CASE UNCHANGED buffers
      BY <3>1 DEF buffers
    <3>2. CASE /\ given # <<>> /\ given' = Tail(given) /\ done' = Append(done, Head(given))
               /\ pixels' = [pixels EXCEPT ![Head(given)] = <<number, number>>]
      BY <3>2, TailOnce DEF OwnInv
    <3> QED BY <1>14, <3>1, <3>2 DEF Expose
  <2> QED BY <1>14, <2>1, <2>2, <2>3 DEF Expose, exposing
<1>15. CASE UNCHANGED vars
  BY <1>15 DEF vars, buffers, exposing
<1> QED BY <1>1, <1>2, <1>3, <1>4, <1>5, <1>6, <1>7, <1>8, <1>9, <1>10, <1>11,
           <1>12, <1>13, <1>14, <1>15 DEF Next, Thread

(* A buffer keeps one owner, through every queueing and dequeueing.         *)
LEMMA OwnKept == IInv /\ [Next]_vars => OwnInv'
<1> SUFFICES ASSUME IInv, [Next]_vars PROVE OwnInv'
  OBVIOUS
<1> USE DEF IInv
<1>0. given \in Seq(Buffers) /\ done \in Seq(Buffers) /\ Once(given) /\ Once(done) /\ Apart(given, done)
  BY DEF Typed, OwnInv
<1>1. CASE UNCHANGED <<given, done>>
  BY <1>0, <1>1 DEF OwnInv, Once, Apart
<1>2. CASE Open
  <2>1. PICK node \in Nodes : given' = SetToSeq(node.granted)
    BY <1>2 DEF Open
  <2>2. Once(given') /\ done' = <<>>
    BY <1>2, <2>1, CameraAssumption, GrantedOnce DEF Open
  <2> QED BY <2>2 DEF OwnInv, Once, Apart
<1>3. CASE given' = <<>> /\ done' = <<>>
  BY <1>3 DEF OwnInv, Once, Apart
<1>4. CASE SkipBad
  <2>1. done # <<>> /\ done' = Tail(done) /\ given' = Append(given, Head(done))
    BY <1>4 DEF SkipBad
  <2>2. Apart(given', done') /\ Once(given')
    BY <1>0, <2>1, MoveApart
  <2>3. Once(done')
    BY <1>0, <2>1, TailOnce
  <2> QED BY <2>2, <2>3 DEF OwnInv
<1>5. CASE Dequeue
  <2>1. done # <<>> /\ done' = Tail(done) /\ given' = given
    BY <1>5 DEF Dequeue
  <2>2. Once(done') /\ \A i \in DOMAIN done' : \E j \in DOMAIN done : done'[i] = done[j]
    BY <1>0, <2>1, TailOnce
  <2>3. Apart(given', done')
    BY <1>0, <2>1, <2>2 DEF Apart
  <2> QED BY <1>0, <2>1, <2>2, <2>3 DEF OwnInv
<1>6. CASE PutBack /\ given' = Append(given, hand.buf)
  <2>1. /\ hand.buf \in Buffers
        /\ \A i \in DOMAIN given : given[i] # hand.buf
        /\ \A i \in DOMAIN done : done[i] # hand.buf
    BY <1>6 DEF PutBack, HandInv, Holding
  <2> DEFINE h == hand.buf
  <2>2. Once(given') /\ \A i \in DOMAIN given' : given'[i] = h \/ \E j \in DOMAIN given : given'[i] = given[j]
    BY <1>0, <1>6, <2>1, AppendOnce
  <2>3. done' = done
    BY <1>6 DEF PutBack
  <2>4. ASSUME NEW i \in DOMAIN given', NEW k \in DOMAIN done PROVE given'[i] # done[k]
    <3> HIDE DEF h
    <3> QED BY <1>0, <2>1, <2>2 DEF Apart, h
  <2>5. Apart(given', done')
    BY <2>3, <2>4 DEF Apart
  <2> QED BY <1>0, <2>2, <2>3, <2>5 DEF OwnInv
<1>7. CASE Expose /\ ~UNCHANGED buffers
  <2>1. given # <<>> /\ given' = Tail(given) /\ done' = Append(done, Head(given))
    BY <1>7 DEF Expose
  <2>2. Apart(done, given)
    BY <1>0 DEF Apart
  <2>3. Apart(done', given') /\ Once(done')
    BY <1>0, <2>1, <2>2, MoveApart
  <2>4. Once(given')
    BY <1>0, <2>1, TailOnce
  <2>5. Apart(given', done')
    BY <2>3 DEF Apart
  <2> QED BY <2>3, <2>4, <2>5 DEF OwnInv
<1>8. \/ UNCHANGED <<given, done>> \/ Open \/ (given' = <<>> /\ done' = <<>>)
      \/ SkipBad \/ Dequeue \/ (PutBack /\ given' = Append(given, hand.buf))
      \/ (Expose /\ ~UNCHANGED buffers)
  BY DEF Next, Thread, vars, buffers, Stop, Fails, Close, Freeze, Remember, Ask, TimesOut,
         DecodeTop, DecodeBottom, PutBack, GiveBack, Observe, SetExposure, SetGain
<1> QED BY <1>1, <1>2, <1>3, <1>4, <1>5, <1>6, <1>7, <1>8

(* The buffer in hand keeps its content, and every filled one is whole.     *)
LEMMA HandKept == IInv /\ [Next]_vars => HandInv'
<1> SUFFICES ASSUME IInv, [Next]_vars PROVE HandInv'
  OBVIOUS
<1> USE DEF IInv
<1>0. /\ given \in Seq(Buffers) /\ done \in Seq(Buffers) /\ Once(given) /\ Once(done)
      /\ Apart(given, done) /\ pixels \in [Buffers -> Shots \X Shots]
      /\ \A b \in Buffers : pixels[b][1] = pixels[b][2]
  BY DEF Typed, OwnInv, HandInv
<1>1. CASE pixels' = pixels /\ call' \notin Holding
  BY <1>0, <1>1 DEF HandInv
<1>2. CASE pixels' = [b \in Buffers |-> <<0, 0>>] /\ call' = "none"
  BY <1>2 DEF HandInv, Holding
<1>3. CASE UNCHANGED <<pixels, given, done, hand>> /\ call \in Holding
  BY <1>3 DEF HandInv
<1>4. CASE Dequeue
  <2>1. /\ done # <<>> /\ done' = Tail(done) /\ given' = given /\ pixels' = pixels
        /\ hand' = [buf |-> Head(done), seq |-> pixels[Head(done)][1]]
    BY <1>4 DEF Dequeue
  <2>2. /\ Head(done) \in Buffers
        /\ \A i \in DOMAIN Tail(done) : Tail(done)[i] # Head(done)
        /\ \E j \in DOMAIN done : Head(done) = done[j]
    BY <1>0, <2>1, TailOnce
  <2>3. \A i \in DOMAIN given : given[i] # Head(done)
    BY <1>0, <2>2 DEF Apart
  <2>4. pixels[Head(done)][1] \in Shots
    BY <1>0, <2>2
  <2>5. hand' \in [buf : Buffers, seq : Shots] /\ hand'.buf = Head(done)
        /\ hand'.seq = pixels[Head(done)][1]
    BY <2>1, <2>2, <2>4
  <2> QED BY <1>0, <2>1, <2>2, <2>3, <2>5 DEF HandInv
<1>5. CASE Expose /\ ~UNCHANGED buffers
  <2>1. /\ given # <<>> /\ given' = Tail(given) /\ done' = Append(done, Head(given))
        /\ pixels' = [pixels EXCEPT ![Head(given)] = <<number, number>>]
        /\ call' = call /\ hand' = hand
    BY <1>5 DEF Expose
  <2> DEFINE h == Head(given)
  <2>2. /\ h \in Buffers
        /\ \A i \in DOMAIN given' : \E j \in DOMAIN given : given'[i] = given[j]
        /\ \E j \in DOMAIN given : h = given[j]
    BY <1>0, <2>1, TailOnce
  <2>3. \A i \in DOMAIN done : done[i] # h
    BY <1>0, <2>2 DEF Apart
  <2>4. \A i \in DOMAIN done' : done'[i] = h \/ \E j \in DOMAIN done : done'[i] = done[j]
    BY <1>0, <2>1, <2>2, <2>3, AppendOnce
  <2>5. pixels' = [pixels EXCEPT ![h] = <<number, number>>]
    BY <2>1
  <2> HIDE DEF h
  <2>6. \A b \in Buffers : pixels'[b][1] = pixels'[b][2]
    BY <1>0, <2>2, <2>5
  <2>7. CASE call \notin Holding
    BY <2>1, <2>6, <2>7 DEF HandInv
  <2>8. CASE call \in Holding
    <3>1. /\ hand \in [buf : Buffers, seq : Shots] /\ hand.seq = pixels[hand.buf][1]
          /\ \A i \in DOMAIN given : given[i] # hand.buf
          /\ \A i \in DOMAIN done : done[i] # hand.buf
      BY <2>8 DEF HandInv
    <3>2. h # hand.buf /\ hand.buf \in Buffers
      BY <2>2, <3>1
    <3>3. pixels'[hand.buf] = pixels[hand.buf]
      BY <1>0, <2>5, <3>2
    <3>4. \A i \in DOMAIN given' : given'[i] # hand.buf
      BY <2>2, <3>1
    <3>5. \A i \in DOMAIN done' : done'[i] # hand.buf
      BY <2>4, <3>1, <3>2
    <3> QED BY <2>1, <2>6, <3>1, <3>3, <3>4, <3>5 DEF HandInv
  <2> QED BY <2>7, <2>8
<1>6. CASE Expose /\ UNCHANGED buffers
  <2>1. UNCHANGED <<pixels, given, done, hand, call>>
    BY <1>6 DEF Expose, buffers
  <2> QED BY <1>1, <1>3, <2>1
<1>7. CASE UNCHANGED vars
  <2>1. UNCHANGED <<pixels, given, done, hand, call>>
    BY <1>7 DEF vars, buffers
  <2> QED BY <1>1, <1>3, <2>1
<1>8. CASE Freeze \/ Remember
  <2>1. UNCHANGED <<pixels, call>> /\ call = "none"
    BY <1>8 DEF Freeze, Remember, buffers
  <2> QED BY <1>1, <2>1 DEF Holding
<1>9. \/ (pixels' = pixels /\ call' \notin Holding)
      \/ (pixels' = [b \in Buffers |-> <<0, 0>>] /\ call' = "none")
      \/ (UNCHANGED <<pixels, given, done, hand>> /\ call \in Holding)
      \/ Dequeue \/ Expose \/ Freeze \/ Remember \/ UNCHANGED vars
  <2>1. Stop \/ Fails => pixels' = [b \in Buffers |-> <<0, 0>>] /\ call' = "none"
    BY DEF Stop, Fails, Close
  <2>2. Open \/ Ask \/ SkipBad \/ TimesOut => pixels' = pixels /\ call' \notin Holding
    <3>1. Open => pixels' = pixels /\ call' = "exposure"
      BY DEF Open
    <3>2. Ask \/ SkipBad => pixels' = pixels /\ call' = "waiting"
      BY DEF Ask, SkipBad, buffers
    <3>3. TimesOut => pixels' = pixels /\ call' = "none"
      BY DEF TimesOut, buffers
    <3> QED BY <3>1, <3>2, <3>3 DEF Holding
  <2>3. PutBack => \/ pixels' = pixels /\ call' \notin Holding
                   \/ UNCHANGED <<pixels, given, done, hand>> /\ call \in Holding
    BY DEF buffers, PutBack, Holding
  <2>4. DecodeTop \/ DecodeBottom \/ Observe \/ SetExposure \/ SetGain
          => \/ pixels' = pixels /\ call' \notin Holding
             \/ UNCHANGED <<pixels, given, done, hand>> /\ call \in Holding
    BY DEF buffers, DecodeTop, DecodeBottom, Observe, SetExposure, SetGain, Holding
  <2> QED BY <2>1, <2>2, <2>3, <2>4 DEF Next, Thread
<1> QED BY <1>1, <1>2, <1>3, <1>4, <1>5, <1>6, <1>7, <1>8, <1>9

(* The frame the daemon holds: both halves come from the buffer in hand.    *)
LEMMA FrameKept == IInv /\ [Next]_vars => FrameInv'
<1> SUFFICES ASSUME IInv, [Next]_vars PROVE FrameInv'
  OBVIOUS
<1> USE DEF IInv
<1>1. CASE frame' = frame /\ hand' = hand /\ call' = call
  BY <1>1 DEF FrameInv
<1>2. CASE frame' = frame /\ call # "bottom" /\ call' # "bottom"
  BY <1>2 DEF FrameInv
<1>3. CASE Open \/ Close
  BY <1>3 DEF Open, Close, FrameInv, Blank
<1>4. CASE DecodeTop
  <2>1. hand.seq = pixels[hand.buf][1] /\ hand' = hand /\ call' = "bottom"
    BY <1>4 DEF DecodeTop, HandInv, Holding
  <2>2. frame'.top = pixels[hand.buf][1]
    BY <1>4 DEF DecodeTop, Typed
  <2> QED BY <2>1, <2>2 DEF FrameInv
<1>5. CASE DecodeBottom
  <2>1. /\ hand.seq = pixels[hand.buf][1] /\ pixels[hand.buf][1] = pixels[hand.buf][2]
        /\ call' = "decoded"
    BY <1>5 DEF DecodeBottom, HandInv, Holding
  <2>2. frame.top = hand.seq
    BY <1>5 DEF DecodeBottom, FrameInv
  <2>3. frame'.top = frame.top /\ frame'.bottom = pixels[hand.buf][2] /\ frame'.seq = hand.seq
    BY <1>5 DEF DecodeBottom, Typed
  <2> QED BY <2>1, <2>2, <2>3 DEF FrameInv
<1>6. \/ (frame' = frame /\ hand' = hand /\ call' = call)
      \/ (frame' = frame /\ call # "bottom" /\ call' # "bottom")
      \/ Open \/ Close \/ DecodeTop \/ DecodeBottom
  BY DEF Next, Thread, vars, Stop, Fails, Freeze, Remember, Ask, SkipBad, TimesOut,
         Dequeue, PutBack, Observe, SetExposure, SetGain, Expose
<1> QED BY <1>1, <1>2, <1>3, <1>4, <1>5, <1>6

(* No action makes an illegal setting: the start is legal, a step leaves a  *)
(* legal one, and the rest is handed from one place to another.             *)
LEMMA ActuatorsKept == IInv /\ [Next]_vars => ActuatorsInOrder'
<1> SUFFICES ASSUME IInv, [Next]_vars PROVE ActuatorsInOrder'
  OBVIOUS
<1> USE DEF IInv
<1>0. /\ \A s \in {loop, next, seed} : s = None \/ Legal(s)
      /\ Legal(Start)
  BY StartLegal DEF ActuatorsInOrder, Legal, InOrder
<1>1. CASE Observe
  <2>1. PICK f \in 80..125 :
          LET to == Step(loop, f)
          IN  IF f \in 95..105 \ {100} THEN FALSE
              ELSE IF to = loop THEN call' = "none" /\ UNCHANGED next
              ELSE call' = "exposure" /\ next' = to
    BY <1>1 DEF Observe
  <2>2. Legal(loop)
    BY <1>0, NoneIsNoSetting DEF Typed
  <2>3. Legal(Step(loop, f))
    BY <2>2, StepLegal
  <2>4. next' = next \/ next' = Step(loop, f)
    BY <2>1
  <2>5. loop' = loop /\ seed' = seed
    BY <1>1 DEF Observe
  <2>6. \A s \in {loop', next', seed'} : s = None \/ Legal(s)
    BY <1>0, <2>3, <2>4, <2>5
  <2> QED BY <2>6 DEF ActuatorsInOrder, Legal, InOrder
<1>2. CASE ~Observe
  <2>1. {loop', next', seed'} \subseteq {loop, next, seed, Start, None}
    BY <1>2 DEF Next, Thread, vars, exposing, Open, Stop, Fails, Close, Freeze, Remember, Ask, SkipBad,
         TimesOut, Dequeue, DecodeTop, DecodeBottom, PutBack, SetExposure, SetGain, Expose
  <2>2. \A s \in {loop', next', seed'} : s = None \/ Legal(s)
    BY <1>0, <2>1
  <2> QED BY <2>2 DEF ActuatorsInOrder, Legal, InOrder
<1> QED BY <1>1, <1>2

(* What the camera and the loop record is what was last written, outside a  *)
(* write; inside one, what has been written already is.                     *)
LEMMA BeliefKept == IInv /\ [Next]_vars => BeliefInv'
<1> SUFFICES ASSUME IInv, [Next]_vars PROVE BeliefInv'
  OBVIOUS
<1> USE DEF IInv
<1>0. Start # None /\ loop # None
  BY StartLegal, NoneIsNoSetting DEF Legal, Typed
<1>1. CASE UNCHANGED <<exposing, streaming, call>>
  BY <1>1 DEF exposing, BeliefInv
<1>2. CASE /\ UNCHANGED <<asked, applied, loop, next, streaming>>
           /\ streaming /\ call \notin Writing /\ call' \notin Writing
  BY <1>2 DEF BeliefInv, Writing
<1>3. CASE Open
  BY <1>0, <1>3 DEF Open, BeliefInv, Writing
<1>4. CASE Close
  BY <1>4 DEF Close, BeliefInv, Writing
<1>5. CASE Observe
  <2>1. PICK f \in 80..125 :
          LET to == Step(loop, f)
          IN  IF f \in 95..105 \ {100} THEN FALSE
              ELSE IF to = loop THEN call' = "none" /\ UNCHANGED next
              ELSE call' = "exposure" /\ next' = to
    BY <1>5 DEF Observe
  <2>2. Legal(loop)
    BY <1>0 DEF ActuatorsInOrder, Legal, InOrder
  <2>3. Step(loop, f) # None
    BY <2>2, StepLegal, NoneIsNoSetting DEF Legal
  <2>4. call' = "none" \/ (call' = "exposure" /\ next' # None)
    BY <2>1, <2>3
  <2> QED BY <1>5, <2>4 DEF Observe, BeliefInv, Writing
<1>6. CASE SetExposure
  <2>1. next # None /\ next' = next /\ applied' = applied /\ loop' = loop
        /\ streaming' = streaming /\ call = "exposure" /\ call' = "gain"
    BY <1>6 DEF SetExposure, BeliefInv, Writing
  <2>2. asked'.gain = asked.gain /\ asked'.exposure = next.exposure
    <3>1. CASE applied = None \/ applied.exposure # next.exposure
      BY <1>6, <3>1 DEF SetExposure, Typed, Allowed
    <3>2. CASE applied # None /\ applied.exposure = next.exposure
      BY <1>6, <3>2, <2>1 DEF SetExposure, BeliefInv, Writing
    <3> QED BY <3>1, <3>2
  <2> QED BY <2>1, <2>2 DEF BeliefInv, Writing
<1>7. CASE SetGain
  <2>1. applied' = next /\ loop' = next /\ call = "gain" /\ call' = "none" /\ next # None
    BY <1>7 DEF SetGain, BeliefInv, Writing
  <2>2. asked'.exposure = next.exposure /\ asked'.gain = next.gain
    <3>1. CASE applied = None \/ applied.gain # next.gain
      BY <1>7, <3>1 DEF SetGain, BeliefInv, Typed, Allowed
    <3>2. CASE applied # None /\ applied.gain = next.gain
      BY <1>7, <3>2, <2>1 DEF SetGain, BeliefInv, Writing
    <3> QED BY <3>1, <3>2
  <2> QED BY <2>1, <2>2 DEF BeliefInv, Writing
<1>8. \/ UNCHANGED <<exposing, streaming, call>>
      \/ (/\ UNCHANGED <<asked, applied, loop, next, streaming>>
          /\ streaming /\ call \notin Writing /\ call' \notin Writing)
      \/ Open \/ Close \/ Observe \/ SetExposure \/ SetGain
  BY DEF Next, Thread, vars, exposing, Stop, Fails, Freeze, Remember, Ask, SkipBad, Writing, BeliefInv,
         TimesOut, Dequeue, DecodeTop, DecodeBottom, PutBack, Expose
<1> QED BY <1>1, <1>2, <1>3, <1>4, <1>5, <1>6, <1>7, <1>8

(* The invariant holds throughout.                                          *)
LEMMA Invariance == Spec => []IInv
<1>1. IInv /\ [Next]_vars => IInv'
  BY TypedKept, OwnKept, HandKept, FrameKept, ActuatorsKept, BeliefKept DEF IInv
<1> QED BY <1>1, InitIInv, PTL DEF Spec
-------------------------------------------------------------------------------
(* The types: of the driver's two queues, the buffers' contents, the frame  *)
(* and its number, and the settings held in five places.                    *)
THEOREM CameraTypeCorrect == Spec => []Typed
<1>1. IInv => Typed
  BY DEF IInv
<1> QED BY <1>1, Invariance, PTL

(* Between two calls the frame the daemon holds is one exposure, whole,      *)
(* under that exposure's own number, however many buffers there are and     *)
(* whatever was lost, flagged, short or given back in vain before it        *)
(* (Camera::capture, FrameRef's drop).                                      *)
THEOREM FrameStaysWhole == Spec => []FrameIsWhole
<1>1. IInv => FrameIsWhole
  BY DEF IInv, FrameInv, FrameIsWhole
<1> QED BY <1>1, Invariance, PTL

(* The settings asked for are legal and in order for any limits, and those  *)
(* recorded are the ones last written, whatever failed half way in an       *)
(* earlier use; what the sensor made of them is not said (set_exposure,     *)
(* Exposure::step, open_at).                                                *)
THEOREM SettingsAreRecorded == Spec => []SettingsHold
<1>1. IInv => SettingsHold
  BY DEF IInv, BeliefInv, RecordIsWhatWasAsked, SettingsHold
<1> QED BY <1>1, Invariance, PTL
=============================================================================
