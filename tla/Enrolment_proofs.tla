--------------------------- MODULE Enrolment_proofs ---------------------------
(***************************************************************************)
(* Proofs about Enrolment, for any users, any number of the window's       *)
(* threads, any number of sessions and any room for control words.         *)
(*                                                                         *)
(* What a session reports when it ends depends on everything it did since  *)
(* it began, which is what ProgressInv and RoundsInv keep: how far the     *)
(* walk-through has come, what is on disk by then, and which rounds in the *)
(* set are this session's. GrantInv ties the claim, the grant on the       *)
(* socket and the request's own place together.                            *)
(***************************************************************************)
EXTENDS Enrolment, FiniteSetTheorems, TLAPS

Up == {"summon", "top", "frame", "told"}
Walking == {"top", "frame"}

(* The claim is the running session's, whose user may connect from before    *)
(* the window is summoned; between requests the list is the store's.        *)
GrantInv ==
  /\ pc \in Up => active = who /\ who \in acl
  /\ pc \notin Up => active = Nobody
  /\ pc # "none" => who \in Users /\ session # 0
  /\ pc = "open" => who \in acl
  /\ pc = "none" => poisoned \/ acl = Enrolled(disk)

(* No kind of a set mixes the rounds of two sessions.                       *)
OneEach(s) == \A k \in Kinds : \A r1, r2 \in s[k] : r1.session = r2.session

(* So it is on disk and in the set being made, and a kind that has begun     *)
(* holds rounds of this session alone.                                      *)
RoundsInv ==
  /\ \A x \in Users : disk[x] # NoSet => OneEach(disk[x])
  /\ pc \in Up => OneEach(u)
  /\ pc \in Walking => \A k \in kinds : \A r \in u[k] : r.session = session

(* The everyday rounds of this session up to n.                             *)
Everyday(n, s) ==
  \A i \in 1..RoundCount :
    i <= n /\ StoredAs(i) = "everyday" => Round(i) \in s["everyday"]

(* How far the walk-through is says what it has done: the looks are saved    *)
(* before they are verified and verified twice before anything follows, and  *)
(* the everyday rounds passed are all in the set.                           *)
ProgressInv ==
  /\ pc \in Walking =>
       /\ step.name \in {"welcome", "centre", "range", "path", "hold"} => hits = 0
       /\ step.name = "verify" => saved /\ hits < 2
       /\ step.name = "bridge" => start = "bridge" \/ (saved /\ hits = 2)
       /\ step.name = "round" =>
            /\ start = "bridge" \/ (saved /\ hits = 2)
            /\ Everyday(step.i - 1, u)
            /\ step.i > 5 => "everyday" \in kinds
  /\ pc = "told" /\ outcome = "enrolled" =>
       /\ start = "bridge" \/ (saved /\ hits = 2)
       /\ EndsAtVerify \/ Everyday(RoundCount, disk[who])

IInv == TypeOK /\ GrantInv /\ RoundsInv /\ ProgressInv
-------------------------------------------------------------------------------
(* The steps of the walk-through are steps, one after the other.            *)
LEMMA StepValues ==
  /\ \A n \in {"welcome", "centre", "range", "path", "verify", "bridge"} :
       At(n) \in Steps /\ At(n).name = n
  /\ \A i \in 1..Zones : Nth("hold", i) \in Steps /\ Nth("hold", i).name = "hold"
  /\ \A i \in 1..RoundCount :
       Nth("round", i) \in Steps /\ Nth("round", i).name = "round" /\ Nth("round", i).i = i
BY DEF At, Nth, Steps

(* What a step is.                                                          *)
LEMMA StepFields ==
  ASSUME NEW s \in Steps
  PROVE  /\ s.name \in {"welcome", "centre", "range", "path", "verify", "bridge", "hold", "round"}
         /\ s.name = "hold" => s.i \in 1..Zones
         /\ s.name = "round" => s.i \in 1..RoundCount
BY DEF Steps

(* The screen a session starts at.                                          *)
LEMMA StartStep ==
  ASSUME NEW s \in Starts
  PROVE  /\ FromStart[s] \in Steps
         /\ FromStart[s].name \in {"welcome", "centre", "range", "path", "hold", "bridge"}
         /\ FromStart[s].name = "bridge" => s = "bridge"
<1>1. /\ FromStart["welcome"] = At("welcome") /\ FromStart["distance"] = At("centre")
      /\ FromStart["range"] = At("range") /\ FromStart["path"] = At("path")
      /\ FromStart["hold"] = Nth("hold", 1) /\ FromStart["bridge"] = At("bridge")
  BY DEF FromStart
<1>2. 1 \in 1..Zones
  BY DEF Zones
<1> QED BY <1>1, <1>2, StepValues DEF Starts

(* Where the person's "continue" leads.                                     *)
LEMMA ContinuedStep ==
  ASSUME step \in Steps
  PROVE  /\ Continued \in Steps
         /\ step.name \notin {"welcome", "bridge"} => Continued = step
         /\ step.name = "welcome" => Continued.name = "centre"
         /\ step.name = "bridge" => Continued = Nth("round", 1)
<1>1. 1 \in 1..RoundCount
  BY DEF RoundCount
<1>2. Continued = IF step.name = "welcome" THEN At("centre")
                  ELSE IF step.name = "bridge" THEN Nth("round", 1) ELSE step
  BY DEF Continued
<1> QED BY <1>1, <1>2, StepValues

(* A kind of gesture.                                                       *)
LEMMA StoredAsKind ==
  ASSUME NEW i \in 1..RoundCount
  PROVE  StoredAs(i) \in Kinds /\ (StoredAs(i) = "everyday" <=> i > 4)
BY DEF StoredAs, Kinds, RoundCount

(* A set of rounds made by a function is a set; an empty set mixes nothing. *)
LEMMA EmptySet == NoRounds \in Sets /\ OneEach(NoRounds)
<1>1. NoRounds \in Sets
  BY DEF NoRounds, Sets
<1> QED BY <1>1 DEF NoRounds, OneEach
(* Adding a round to a set, in the place of the kind's rounds of earlier     *)
(* sessions or beside its own.                                              *)
LEMMA RoundJoins ==
  ASSUME TypeOK, session # 0, step.name = "round", NEW reads \in BOOLEAN,
         NEW k, k = StoredAs(step.i),
         NEW more, more = (Begun(k) \cup IF reads THEN {Round(step.i)} ELSE {})
  PROVE  k \in Kinds /\ more \in SUBSET Rounds /\ [u EXCEPT ![k] = more] \in Sets
<1>1. step.i \in 1..RoundCount
  BY StepFields DEF TypeOK
<1>2. k \in Kinds
  BY <1>1, StoredAsKind
<1>3. Round(step.i) \in Rounds
  BY <1>1, EnrolAssumption DEF TypeOK, Rounds, Round, RoundCount
<1>4. Begun(k) \in SUBSET Rounds
  BY <1>2 DEF Begun, TypeOK, Sets
<1>5. more \in SUBSET Rounds
  BY <1>3, <1>4
<1> QED BY <1>2, <1>5 DEF TypeOK, Sets
-------------------------------------------------------------------------------
(* Types: the window's threads.                                             *)
LEMMA WindowTyped ==
  ASSUME TypeOK, WatcherGone \/ \E w \in Window : AskIn(w) \/ Watch(w) \/ Steer(w)
  PROVE  TypeOK'
<1> USE DEF link, walk
<1>1. CASE WatcherGone
  BY <1>1 DEF WatcherGone, TypeOK
<1>2. ASSUME NEW w \in Window, AskIn(w) PROVE TypeOK'
  BY <1>2 DEF AskIn, TypeOK
<1>3. ASSUME NEW w \in Window, Watch(w) PROVE TypeOK'
  <2>1. watcher' \in Users \cup {Nobody, Root}
    BY <1>3 DEF Watch, LetIn, TypeOK
  <2> QED BY <1>3, <2>1 DEF Watch, TypeOK
<1>4. ASSUME NEW w \in Window, Steer(w) PROVE TypeOK'
  <2>1. PICK word \in Control : control' = Append(control, word)
    BY <1>4 DEF Steer
  <2>3. Len(control) < Words
    BY <1>4 DEF Steer
  <2>4. control' \in Seq(Control) /\ Len(control') <= Words
    BY <2>1, <2>3, EnrolAssumption DEF TypeOK
  <2>5. asking' \in [Window -> Users \cup {Nobody}]
    BY <1>4 DEF Steer, TypeOK
  <2> QED BY <1>4, <2>4, <2>5 DEF Steer, TypeOK
<1> QED BY <1>1, <1>2, <1>3, <1>4

(* Types: the request around the loop.                                      *)
LEMMA RequestTyped ==
  ASSUME TypeOK, GrantInv,
         \/ Arrive \/ Busy \/ Delete \/ OpenFails \/ Claim \/ Abandon \/ Summoned \/ Fail \/ Panic
         \/ RunOut \/ End \/ Refresh
  PROVE  TypeOK'
<1> USE DEF link, walk, Goto, Tell
<1>1. <<>> \in Seq(Control) /\ Len(<<>>) <= Words
  BY EnrolAssumption
<1>2. /\ Enrolled(disk) \subseteq Users /\ Enrolled(disk') \subseteq Users
      /\ Listed(disk) \subseteq Users /\ Listed(disk') \subseteq Users
  BY DEF Enrolled, Listed, TypeOK
<1>3. pc' \in Places /\ outcome' \in {"none", "error", "enrolled", "panic"}
  BY DEF Arrive, Busy, Delete, OpenFails, Claim, Abandon, Summoned, Fail, Panic, RunOut, End,
         Refresh, Places, TypeOK
<1>4. CASE Arrive
  <2>1. session' \in 0..Sessions
    BY <1>4, EnrolAssumption DEF Arrive, TypeOK
  <2>2. who' \in Users /\ start' \in Starts /\ acl' \subseteq Users
    BY <1>2, <1>4 DEF Arrive
  <2> QED BY <1>3, <1>4, <2>1, <2>2 DEF Arrive, TypeOK
<1>5. CASE Delete
  <2>1. disk' \in [Users -> Sets \cup {NoSet}]
    BY <1>5 DEF Delete, TypeOK
  <2> QED BY <1>2, <1>3, <1>5, <2>1 DEF Delete, TypeOK
<1>6. CASE OpenFails
  <2>1. disk' \in [Users -> Sets \cup {NoSet}]
    BY <1>6 DEF OpenFails, TypeOK
  <2> QED BY <1>3, <1>6, <2>1 DEF OpenFails, TypeOK
<1>7. CASE Claim
  <2>1. who \in Users
    BY <1>7 DEF Claim, GrantInv
  <2>2. disk' \in [Users -> Sets \cup {NoSet}]
    BY <1>7 DEF Claim, TypeOK
  <2>3. u' \in Sets
    BY <1>7, <2>1, <2>2, EmptySet DEF Claim
  <2> QED BY <1>1, <1>3, <1>7, <2>1, <2>2, <2>3 DEF Claim, TypeOK
<1>8. CASE Abandon \/ End
  <2>1. /\ active' = Nobody /\ watcher' = Nobody /\ control' = <<>>
        /\ step' = At("welcome") /\ taken' = 0 /\ hits' = 0 /\ saved' = FALSE /\ kinds' = {}
        /\ u' = NoRounds /\ UNCHANGED <<asking, acl, who, start, session, disk>>
    BY <1>8 DEF Abandon, End, Release, LocalsGone
  <2>2. poisoned' \in BOOLEAN
    BY <1>8 DEF Abandon, End, TypeOK
  <2>3. step' \in Steps /\ taken' \in 0..HoldWanted - 1 /\ u' \in Sets
    BY <2>1, StepValues, EmptySet DEF HoldWanted
  <2>4. active' \in Users \cup {Nobody} /\ watcher' \in Users \cup {Nobody, Root} /\ kinds' \subseteq Kinds
    BY <2>1
  <2>7. hits' \in 0..2
    BY <2>1
  <2>8. saved' \in BOOLEAN
    BY <2>1
  <2>5. control' \in Seq(Control) /\ Len(control') <= Words
    BY <1>1, <2>1
  <2>6. /\ asking' \in [Window -> Users \cup {Nobody}] /\ acl' \subseteq Users
        /\ who' \in Users \cup {Nobody} /\ start' \in Starts /\ session' \in 0..Sessions
        /\ disk' \in [Users -> Sets \cup {NoSet}]
    BY <2>1 DEF TypeOK
  <2> QED BY <1>3, <2>2, <2>3, <2>4, <2>5, <2>6, <2>7, <2>8 DEF TypeOK
<1>9. CASE Summoned
  <2>1. step' \in Steps
    BY <1>9, StartStep DEF Summoned, TypeOK
  <2>2. taken' \in 0..HoldWanted - 1 /\ hits' \in 0..2 /\ kinds' \subseteq Kinds
    BY <1>9 DEF Summoned, HoldWanted
  <2>3. saved' \in BOOLEAN
    BY <1>9 DEF Summoned
  <2> QED BY <1>3, <1>9, <2>1, <2>2, <2>3 DEF Summoned, TypeOK
<1>10. CASE Fail \/ RunOut \/ Panic
  <2>1. poisoned' \in BOOLEAN
    BY <1>10 DEF Fail, RunOut, Panic, TypeOK
  <2> QED BY <1>3, <1>10, <2>1 DEF Fail, RunOut, Panic, TypeOK
<1>11. CASE Refresh \/ Busy
  BY <1>2, <1>3, <1>11 DEF Refresh, Busy, TypeOK
<1> QED BY <1>4, <1>5, <1>6, <1>7, <1>8, <1>9, <1>10, <1>11

(* Types: the loop.                                                         *)
LEMMA LoopTyped ==
  ASSUME TypeOK, GrantInv, ProgressInv, Loop
  PROVE  TypeOK'
<1> USE DEF link, walk, Goto, Tell, Judged
<1>1. pc' \in Places /\ outcome' \in {"none", "error", "enrolled", "panic"}
  BY DEF Loop, NoWord, TakeWord, FrameOnly, StepDone, HoldTakes, HoldEnds, Verify, NotRecognised,
         RoundEnds, Places, TypeOK
<1>2. CASE NoWord \/ FrameOnly \/ NotRecognised
  BY <1>1, <1>2 DEF NoWord, FrameOnly, NotRecognised, TypeOK
<1>3. CASE TakeWord
  <2>1. control' \in Seq(Control) /\ Len(control') <= Words
    BY <1>3, EnrolAssumption DEF TakeWord, TypeOK
  <2>2. step' \in Steps
    BY <1>3, ContinuedStep DEF TakeWord, TypeOK
  <2>3. taken' \in 0..HoldWanted - 1
    BY <1>3 DEF TakeWord, TypeOK, HoldWanted
  <2> QED BY <1>1, <1>3, <2>1, <2>2, <2>3 DEF TakeWord, TypeOK
<1>4. CASE StepDone
  <2>1. step' \in Steps
    <3>1. step' = IF step.name = "centre" THEN At("range")
                  ELSE IF step.name = "range" THEN At("path") ELSE Nth("hold", 1)
      BY <1>4 DEF StepDone
    <3> QED BY <3>1, StepValues DEF Zones
  <2>2. taken' \in 0..HoldWanted - 1
    BY <1>4 DEF StepDone, HoldWanted
  <2> QED BY <1>1, <1>4, <2>1, <2>2 DEF StepDone, TypeOK
<1>5. CASE HoldTakes
  BY <1>1, <1>5 DEF HoldTakes, HoldWanted, TypeOK
<1>6. CASE HoldEnds
  <2>1. step' \in Steps
    <3>1. step.i \in 1..Zones
      BY <1>6, StepFields DEF HoldEnds, TypeOK
    <3>2. CASE step.i < Zones
      <4>1. step.i + 1 \in 1..Zones /\ step' = Nth("hold", step.i + 1)
        BY <1>6, <3>1, <3>2 DEF HoldEnds, Zones
      <4> QED BY <4>1, StepValues
    <3>3. CASE ~(step.i < Zones)
      BY <1>6, <3>3, StepValues DEF HoldEnds
    <3> QED BY <3>2, <3>3
  <2>2. disk' \in [Users -> Sets \cup {NoSet}]
    BY <1>6 DEF HoldEnds, TypeOK
  <2>3. saved' \in BOOLEAN
    BY <1>6 DEF HoldEnds, TypeOK
  <2>4. taken' \in 0..HoldWanted - 1
    BY <1>6 DEF HoldEnds, HoldWanted
  <2> QED BY <1>1, <1>6, <2>1, <2>2, <2>3, <2>4 DEF HoldEnds, TypeOK
<1>7. CASE Verify
  <2>1. hits' \in 0..2
    <3>1. pc = "frame" /\ step.name = "verify" /\ hits' = hits + 1
      BY <1>7 DEF Verify
    <3>2. hits < 2
      BY <3>1 DEF ProgressInv, Walking
    <3> QED BY <3>1, <3>2 DEF TypeOK
  <2>2. step' \in Steps
    BY <1>7, StepValues DEF Verify, TypeOK
  <2> QED BY <1>1, <1>7, <2>1, <2>2 DEF Verify, TypeOK
<1>8. CASE RoundEnds
  <2> DEFINE k == StoredAs(step.i)
             more(reads) == Begun(k) \cup IF reads THEN {Round(step.i)} ELSE {}
  <2>1. /\ pc = "frame" /\ step.name = "round"
        /\ kinds' = kinds \cup {k}
        /\ \E reads \in BOOLEAN : u' = [u EXCEPT ![k] = more(reads)]
    BY <1>8 DEF RoundEnds
  <2>2. session # 0 /\ who \in Users
    BY <2>1 DEF GrantInv
  <2>3. k \in Kinds /\ u' \in Sets
    <3>1. PICK reads \in BOOLEAN : u' = [u EXCEPT ![k] = more(reads)]
      BY <2>1
    <3> QED BY <2>1, <2>2, <3>1, RoundJoins
  <2>4. disk' \in [Users -> Sets \cup {NoSet}]
    BY <1>8, <2>3 DEF RoundEnds, TypeOK
  <2>5. step' \in Steps
    <3>1. step.i \in 1..RoundCount
      BY <2>1, StepFields DEF TypeOK
    <3>2. step' = step \/ (step.i < RoundCount /\ step' = Nth("round", step.i + 1))
      BY <1>8 DEF RoundEnds
    <3>3. step.i < RoundCount => step.i + 1 \in 1..RoundCount
      BY <3>1 DEF RoundCount
    <3> QED BY <3>2, <3>3, StepValues DEF TypeOK
  <2>6. kinds' \subseteq Kinds
    BY <2>1, <2>3 DEF TypeOK
  <2> HIDE DEF k, more
  <2> QED BY <1>1, <1>8, <2>3, <2>4, <2>5, <2>6 DEF RoundEnds, TypeOK
<1> QED BY <1>2, <1>3, <1>4, <1>5, <1>6, <1>7, <1>8 DEF Loop
(* Every step keeps the types.                                              *)
LEMMA StepTyped ==
  ASSUME TypeOK, GrantInv, ProgressInv, [Next]_vars
  PROVE  TypeOK'
<1>1. CASE UNCHANGED vars
  BY <1>1 DEF vars, link, walk, TypeOK
<1> QED BY <1>1, WindowTyped, RequestTyped, LoopTyped DEF Next, Request, Requests
-------------------------------------------------------------------------------
(* What the window's threads leave alone: everything but the link.          *)
LEMMA WindowLeaves ==
  ASSUME WatcherGone \/ \E w \in Window : AskIn(w) \/ Watch(w) \/ Steer(w)
  PROVE  UNCHANGED <<active, acl, poisoned, pc, who, start, session, walk, disk, outcome>>
BY DEF WatcherGone, AskIn, Watch, Steer, link

(* What the loop leaves alone, and where it may go.                         *)
LEMMA LoopLeaves ==
  ASSUME Loop
  PROVE  /\ UNCHANGED <<active, acl, poisoned, who, start, session>>
         /\ pc \in Walking /\ pc' \in Walking \cup {"told"}
BY DEF Loop, NoWord, TakeWord, FrameOnly, StepDone, HoldTakes, HoldEnds, Verify, NotRecognised,
       RoundEnds, Judged, Goto, Tell, link, walk, Walking

(* Every step keeps the claim, the grant and the request's place together.  *)
LEMMA StepGrant ==
  ASSUME TypeOK, GrantInv, [Next]_vars
  PROVE  GrantInv'
<1> USE DEF link, walk, Goto, Tell, Up
<1>1. CASE UNCHANGED <<active, acl, poisoned, pc, who, session, disk>>
  BY <1>1 DEF GrantInv, Enrolled
<1>2. WatcherGone \/ (\E w \in Window : AskIn(w) \/ Watch(w) \/ Steer(w)) \/ UNCHANGED vars
         => UNCHANGED <<active, acl, poisoned, pc, who, session, disk>>
  BY WindowLeaves DEF vars
<1>3. CASE Loop
  BY <1>3, LoopLeaves DEF GrantInv, Walking
<1>4. CASE Arrive
  <2>1. who' \in Users /\ who' \in acl' /\ pc' = "open" /\ session' = session + 1 /\ active' = active
    BY <1>4 DEF Arrive
  <2>2. pc \in {"none", "over"} /\ session \in Nat
    BY <1>4, EnrolAssumption DEF Arrive, TypeOK
  <2> QED BY <2>1, <2>2 DEF GrantInv
<1>5. CASE Delete
  BY <1>5 DEF Delete, GrantInv, Listed
<1>6. CASE OpenFails
  BY <1>6 DEF OpenFails, GrantInv
<1>7. CASE Claim
  BY <1>7 DEF Claim, GrantInv
<1>8. CASE Abandon \/ End
  <2>1. /\ active' = Nobody /\ UNCHANGED <<acl, who, session, disk>> /\ pc \in Up
        /\ pc' = "over" \/ (pc' = "none" /\ poisoned')
    BY <1>8 DEF Abandon, End, Release
  <2> QED BY <2>1 DEF GrantInv
<1>9. CASE Summoned \/ Fail \/ RunOut \/ Panic
  <2>1. /\ UNCHANGED <<active, acl, who, session, disk>>
        /\ \/ pc \in Up /\ pc' \in Up
           \/ pc = "open" /\ pc' = "none" /\ poisoned'
    BY <1>9 DEF Summoned, Fail, RunOut, Panic
  <2> QED BY <2>1 DEF GrantInv
<1>10. CASE Refresh \/ Busy
  BY <1>10 DEF Refresh, Busy, GrantInv, Listed, Enrolled
<1> QED BY <1>1, <1>2, <1>3, <1>4, <1>5, <1>6, <1>7, <1>8, <1>9, <1>10 DEF Next, Request, Requests
-------------------------------------------------------------------------------
(* A set on disk that was replaced by nothing, or by a set that mixes no     *)
(* sessions, mixes none.                                                    *)
LEMMA StoreOneEach ==
  ASSUME TypeOK, \A x \in Users : disk[x] # NoSet => OneEach(disk[x]),
         NEW y \in Users, NEW s, s = NoSet \/ OneEach(s), disk' = [disk EXCEPT ![y] = s]
  PROVE  \A x \in Users : disk'[x] # NoSet => OneEach(disk'[x])
BY DEF TypeOK

(* A round joins rounds of its own session only.                            *)
LEMMA RoundKeepsApart ==
  ASSUME TypeOK, RoundsInv, pc \in Walking, session # 0, step.name = "round", RoundEnds
  PROVE  OneEach(u') /\ \A k \in kinds' : \A r \in u'[k] : r.session = session
<1> DEFINE k == StoredAs(step.i)
           more(reads) == Begun(k) \cup IF reads THEN {Round(step.i)} ELSE {}
<1>1. kinds' = kinds \cup {k} /\ \E reads \in BOOLEAN : u' = [u EXCEPT ![k] = more(reads)]
  BY DEF RoundEnds
<1>2. PICK reads \in BOOLEAN : u' = [u EXCEPT ![k] = more(reads)]
  BY <1>1
<1>3. k \in Kinds
  BY RoundJoins
<1>4. \A r \in more(reads) : r.session = session
  BY <1>3 DEF RoundsInv, Begun, Round
<1> HIDE DEF k, more
<1>5. u'[k] = more(reads) /\ \A j \in Kinds \ {k} : u'[j] = u[j]
  BY <1>2, <1>3 DEF TypeOK, Sets
<1>6. \A j \in kinds' : \A r \in u'[j] : r.session = session
  <2> SUFFICES ASSUME NEW j \in kinds' PROVE \A r \in u'[j] : r.session = session
    OBVIOUS
  <2>1. CASE j = k
    BY <1>4, <1>5, <2>1
  <2>2. CASE j # k
    <3>1. j \in kinds /\ j \in Kinds
      BY <1>1, <2>2 DEF TypeOK
    <3> QED BY <1>5, <2>2, <3>1 DEF RoundsInv
  <2> QED BY <2>1, <2>2
<1>7. OneEach(u')
  <2> SUFFICES ASSUME NEW j \in Kinds, NEW r1 \in u'[j], NEW r2 \in u'[j]
               PROVE  r1.session = r2.session
    BY DEF OneEach
  <2>1. CASE j = k
    BY <1>4, <1>5, <2>1
  <2>2. CASE j # k
    <3>1. OneEach(u)
      BY DEF RoundsInv, Up, Walking
    <3> QED BY <1>5, <2>2, <3>1 DEF OneEach
  <2> QED BY <2>1, <2>2
<1> QED BY <1>6, <1>7

(* Every step keeps the sessions' rounds apart.                             *)
LEMMA StepRounds ==
  ASSUME TypeOK, GrantInv, RoundsInv, [Next]_vars
  PROVE  RoundsInv'
<1> USE DEF link, walk, Goto, Tell
<1>1. CASE UNCHANGED <<disk, u, pc, kinds, session>>
  BY <1>1 DEF RoundsInv, OneEach
<1>2. WatcherGone \/ (\E w \in Window : AskIn(w) \/ Watch(w) \/ Steer(w)) \/ UNCHANGED vars
         => UNCHANGED <<disk, u, pc, kinds, session>>
  BY WindowLeaves DEF vars
<1>3. CASE UNCHANGED <<disk, u>> /\ pc' \notin Walking /\ (pc' \in Up => pc \in Up)
  BY <1>3 DEF RoundsInv, OneEach
<1>4. Arrive \/ Busy \/ Fail \/ Panic \/ RunOut \/ Refresh
        => UNCHANGED <<disk, u>> /\ pc' \notin Walking /\ (pc' \in Up => pc \in Up)
  BY DEF Arrive, Busy, Fail, Panic, RunOut, Refresh, Walking, Up
<1>11. CASE Abandon \/ End
  <2>1. disk' = disk /\ pc' \notin Up /\ pc' \notin Walking
    BY <1>11 DEF Abandon, End, Walking, Up
  <2> QED BY <2>1 DEF RoundsInv, OneEach
<1>5. CASE Delete \/ OpenFails
  <2>1. pc' \notin Up /\ pc' \notin Walking
    BY <1>5 DEF Delete, OpenFails, GrantInv, Up, Walking
  <2>2. disk' = disk \/ \E y \in Users : disk' = [disk EXCEPT ![y] = NoSet]
    BY <1>5 DEF Delete, OpenFails, GrantInv
  <2>3. \A x \in Users : disk'[x] # NoSet => OneEach(disk'[x])
    <3>1. CASE disk' = disk
      BY <3>1 DEF RoundsInv
    <3>2. CASE \E y \in Users : disk' = [disk EXCEPT ![y] = NoSet]
      BY <3>2, StoreOneEach DEF RoundsInv
    <3> QED BY <2>2, <3>1, <3>2
  <2> QED BY <2>1, <2>3 DEF RoundsInv
<1>6. CASE Claim
  <2>1. pc' = "summon" /\ who \in Users /\ u' = IF disk'[who] = NoSet THEN NoRounds ELSE disk'[who]
    BY <1>6 DEF Claim, GrantInv
  <2>2. disk' = disk \/ disk' = [disk EXCEPT ![who] = NoSet]
    BY <1>6 DEF Claim
  <2>3. \A x \in Users : disk'[x] # NoSet => OneEach(disk'[x])
    BY <2>1, <2>2, StoreOneEach DEF RoundsInv
  <2>4. OneEach(u')
    BY <2>1, <2>3, EmptySet
  <2>5. pc' \notin Walking
    BY <2>1 DEF Walking
  <2> QED BY <2>3, <2>4, <2>5 DEF RoundsInv, OneEach
<1>7. CASE Summoned
  <2>1. kinds' = {} /\ disk' = disk /\ u' = u /\ pc = "summon"
    BY <1>7 DEF Summoned
  <2> QED BY <2>1 DEF RoundsInv, OneEach, Up
<1>8. CASE Loop /\ ~HoldEnds /\ ~RoundEnds
  <2>1. UNCHANGED <<disk, u, kinds, session>> /\ pc \in Walking
    BY <1>8, LoopLeaves DEF Loop, NoWord, TakeWord, FrameOnly, StepDone, HoldTakes, Verify, NotRecognised,
                            Judged
  <2> QED BY <2>1 DEF RoundsInv, OneEach, Up, Walking
<1>9. CASE HoldEnds
  <2>1. UNCHANGED <<u, kinds, session>> /\ pc \in Walking /\ who \in Users
    BY <1>9 DEF HoldEnds, Judged, Walking, GrantInv
  <2>2. OneEach(u)
    BY <2>1 DEF RoundsInv, Up, Walking
  <2>3. disk' = disk \/ disk' = [disk EXCEPT ![who] = u]
    BY <1>9 DEF HoldEnds
  <2>4. \A x \in Users : disk'[x] # NoSet => OneEach(disk'[x])
    BY <2>1, <2>2, <2>3, StoreOneEach DEF RoundsInv
  <2> QED BY <2>1, <2>2, <2>4 DEF RoundsInv, OneEach
<1>10. CASE RoundEnds
  <2>1. session' = session /\ pc \in Walking /\ who \in Users /\ session # 0 /\ step.name = "round"
    BY <1>10 DEF RoundEnds, Judged, Walking, GrantInv
  <2>2. OneEach(u') /\ \A k \in kinds' : \A r \in u'[k] : r.session = session
    BY <1>10, <2>1, RoundKeepsApart
  <2>3. disk' = disk \/ disk' = [disk EXCEPT ![who] = u']
    BY <1>10 DEF RoundEnds
  <2>4. \A x \in Users : disk'[x] # NoSet => OneEach(disk'[x])
    BY <2>1, <2>2, <2>3, StoreOneEach DEF RoundsInv
  <2> QED BY <2>1, <2>2, <2>4 DEF RoundsInv, OneEach
<1> QED BY <1>1, <1>2, <1>3, <1>4, <1>5, <1>6, <1>7, <1>8, <1>9, <1>10, <1>11 DEF Next, Request, Requests, Loop
-------------------------------------------------------------------------------
(* The end of a round: this session's everyday rounds up to it are in the    *)
(* set, since the kind began with the first of them.                        *)
LEMMA RoundAdds ==
  ASSUME TypeOK, step.name = "round", RoundEnds,
         Everyday(step.i - 1, u), step.i > 5 => "everyday" \in kinds
  PROVE  /\ step.i \in 1..RoundCount
         /\ \A i \in 1..RoundCount :
              i <= step.i /\ StoredAs(i) = "everyday" => Round(i) \in u'["everyday"]
         /\ step.i + 1 > 5 => "everyday" \in kinds'
<1> DEFINE k == StoredAs(step.i)
           more(reads) == Begun(k) \cup IF reads THEN {Round(step.i)} ELSE {}
<1>1. /\ kinds' = kinds \cup {k}
      /\ \E reads \in IF k = "everyday" THEN {TRUE} ELSE BOOLEAN : u' = [u EXCEPT ![k] = more(reads)]
  BY DEF RoundEnds
<1>2. PICK reads \in IF k = "everyday" THEN {TRUE} ELSE BOOLEAN : u' = [u EXCEPT ![k] = more(reads)]
  BY <1>1
<1>3. step.i \in 1..RoundCount
  BY StepFields DEF TypeOK
<1>4. k \in Kinds /\ (k = "everyday" <=> step.i > 4)
  BY <1>3, StoredAsKind
<1>5. k = "everyday" => Round(step.i) \in more(reads)
  BY <1>2
<1>6. k = "everyday" /\ "everyday" \in kinds => \A r \in u["everyday"] : r \in more(reads)
  BY DEF Begun
<1>7. u'[k] = more(reads) /\ \A j \in Kinds \ {k} : u'[j] = u[j]
  BY <1>2, <1>4 DEF TypeOK, Sets
<1> HIDE DEF k, more
<1>8. step.i + 1 > 5 => "everyday" \in kinds'
  BY <1>1, <1>3, <1>4 DEF RoundCount
<1>9. ASSUME NEW i \in 1..RoundCount, i <= step.i, StoredAs(i) = "everyday"
      PROVE  Round(i) \in u'["everyday"]
  <2>1. i > 4
    BY <1>9, StoredAsKind
  <2>2. k = "everyday"
    BY <1>3, <1>4, <1>9, <2>1 DEF RoundCount
  <2>3. CASE i = step.i
    BY <1>5, <1>7, <2>2, <2>3
  <2>4. CASE i # step.i
    <3>1. i <= step.i - 1 /\ step.i > 5
      BY <1>3, <1>9, <2>1, <2>4 DEF RoundCount
    <3>2. Round(i) \in u["everyday"]
      BY <1>9, <3>1 DEF Everyday
    <3> QED BY <1>6, <1>7, <2>2, <3>1, <3>2
  <2> QED BY <2>3, <2>4
<1> QED BY <1>3, <1>8, <1>9

(* No round comes before the first.                                         *)
LEMMA NothingYet ==
  ASSUME NEW s PROVE Everyday(0, s)
BY DEF Everyday, RoundCount

(* Progress, in the loop, but for the rounds.                               *)
LEMMA LoopProgress ==
  ASSUME TypeOK, ProgressInv, Loop, ~RoundEnds
  PROVE  ProgressInv'
<1> USE DEF link, walk, Goto, Tell, Judged
<1>1. UNCHANGED <<start, session, who>> /\ pc \in Walking
  BY LoopLeaves
<1>2. step.name \in {"welcome", "centre", "range", "path", "verify", "bridge", "hold", "round"}
  BY StepFields DEF TypeOK
<1>3. CASE NoWord \/ FrameOnly
  BY <1>1, <1>3 DEF NoWord, FrameOnly, ProgressInv, Everyday, Round, Walking
<1>4. CASE TakeWord
  <2>1. /\ UNCHANGED <<hits, saved, kinds, u, disk>>
        /\ step' = step \/ step' = Continued
        /\ pc' = "frame" \/ (pc' = "told" /\ outcome' = "error")
    BY <1>4 DEF TakeWord
  <2>2. CASE step' = step
    BY <1>1, <2>1, <2>2 DEF ProgressInv, Everyday, Round, Walking
  <2>3. CASE step' = Continued /\ step.name = "welcome"
    <3>1. step'.name = "centre" /\ hits = 0
      BY <1>1, <2>3, ContinuedStep DEF ProgressInv, TypeOK
    <3> QED BY <1>1, <2>1, <3>1 DEF ProgressInv
  <2>4. CASE step' = Continued /\ step.name = "bridge"
    <3>1. step' = Nth("round", 1)
      BY <2>4, ContinuedStep DEF TypeOK
    <3>2. step'.name = "round" /\ step'.i = 1
      BY <3>1 DEF Nth
    <3>3. start = "bridge" \/ (saved /\ hits = 2)
      BY <1>1, <2>4 DEF ProgressInv
    <3>4. \A i \in 1..RoundCount : ~(i <= step'.i - 1)
      BY <3>2 DEF RoundCount
    <3> QED BY <1>1, <2>1, <3>2, <3>3, <3>4 DEF ProgressInv, Everyday
  <2>5. CASE step' = Continued /\ step.name \notin {"welcome", "bridge"}
    <3>1. step' = step
      BY <2>5, ContinuedStep DEF TypeOK
    <3> QED BY <2>2, <3>1
  <2> QED BY <2>1, <2>2, <2>3, <2>4, <2>5
<1>5. CASE StepDone
  <2>1. /\ pc' = "top" /\ UNCHANGED <<hits, saved, kinds, u, disk, outcome>>
        /\ step' = IF step.name = "centre" THEN At("range")
                   ELSE IF step.name = "range" THEN At("path") ELSE Nth("hold", 1)
        /\ step.name \in {"centre", "range", "path"}
    BY <1>5 DEF StepDone
  <2>2. step'.name \in {"range", "path", "hold"} /\ hits = 0
    BY <1>1, <2>1 DEF At, Nth, ProgressInv
  <2> QED BY <1>1, <2>1, <2>2 DEF ProgressInv
<1>6. CASE HoldTakes
  <2>1. /\ pc' = "top" /\ UNCHANGED <<step, hits, saved, kinds, u, disk, outcome>>
    BY <1>6 DEF HoldTakes
  <2> QED BY <1>1, <2>1 DEF ProgressInv, Everyday, Round, Walking
<1>7. CASE HoldEnds
  <2>1. step.name = "hold" /\ hits = 0 /\ hits' = hits
    BY <1>1, <1>7 DEF HoldEnds, ProgressInv
  <2>2. CASE step.i < Zones
    <3>1. pc' = "top" /\ step'.name = "hold"
      BY <1>7, <2>2 DEF HoldEnds, Nth
    <3> QED BY <1>1, <2>1, <3>1 DEF ProgressInv
  <2>3. CASE ~(step.i < Zones)
    <3>1. /\ step'.name = "verify"
          /\ (saved' /\ pc' = "top") \/ (pc' = "told" /\ outcome' = "error")
      BY <1>7, <2>3 DEF HoldEnds, At
    <3> QED BY <1>1, <2>1, <3>1 DEF ProgressInv, Walking
  <2> QED BY <2>2, <2>3
<1>8. CASE Verify
  <2>1. /\ step.name = "verify" /\ hits' = hits + 1 /\ saved /\ hits < 2 /\ saved' = saved
        /\ hits \in 0..2
    BY <1>1, <1>8 DEF Verify, ProgressInv, TypeOK
  <2>2. CASE hits' < 2
    <3>1. pc' = "top" /\ step' = step
      BY <1>8, <2>2 DEF Verify
    <3> QED BY <1>1, <2>1, <2>2, <3>1 DEF ProgressInv
  <2>3. CASE ~(hits' < 2)
    <3>1. hits' = 2
      BY <2>1, <2>3
    <3>2. CASE EndsAtVerify
      <4>1. pc' = "told" /\ EndsAtVerify'
        BY <1>1, <1>8, <2>3, <3>2 DEF Verify, EndsAtVerify
      <4> QED BY <2>1, <3>1, <4>1 DEF ProgressInv, Walking
    <3>3. CASE ~EndsAtVerify
      <4>1. pc' = "top" /\ step'.name = "bridge"
        BY <1>8, <2>3, <3>3 DEF Verify, At
      <4> QED BY <2>1, <3>1, <4>1 DEF ProgressInv
    <3> QED BY <3>2, <3>3
  <2> QED BY <2>2, <2>3
<1>9. CASE NotRecognised
  <2>1. pc' = "told" /\ outcome' = "error"
    BY <1>9 DEF NotRecognised
  <2> QED BY <2>1 DEF ProgressInv, Walking
<1> QED BY <1>3, <1>4, <1>5, <1>6, <1>7, <1>8, <1>9 DEF Loop

(* Progress, at the end of a round.                                         *)
LEMMA RoundProgress ==
  ASSUME TypeOK, GrantInv, ProgressInv, RoundEnds
  PROVE  ProgressInv'
<1> USE DEF Goto, Tell, Judged
<1>1. /\ pc = "frame" /\ step.name = "round" /\ UNCHANGED <<start, session, who, hits, saved>>
  BY DEF RoundEnds
<1>2. /\ start = "bridge" \/ (saved /\ hits = 2)
      /\ Everyday(step.i - 1, u) /\ (step.i > 5 => "everyday" \in kinds)
  BY <1>1 DEF ProgressInv, Walking
<1>3. /\ step.i \in 1..RoundCount
      /\ \A i \in 1..RoundCount :
           i <= step.i /\ StoredAs(i) = "everyday" => Round(i) \in u'["everyday"]
      /\ step.i + 1 > 5 => "everyday" \in kinds'
  BY <1>1, <1>2, RoundAdds
<1>4. CASE pc' = "told" /\ outcome' = "error"
  BY <1>4 DEF ProgressInv, Walking
<1>5. CASE disk' = [disk EXCEPT ![who] = u'] /\ step.i < RoundCount /\ pc' = "top"
           /\ step' = Nth("round", step.i + 1)
  <2>1. step'.name = "round" /\ step'.i = step.i + 1
    BY <1>5 DEF Nth
  <2>2. step'.i - 1 = step.i
    BY <1>3, <2>1 DEF RoundCount
  <2>3. Everyday(step.i - 1, u)'
    BY <1>1, <1>3, <2>2 DEF Everyday, Round
  <2> QED BY <1>1, <1>2, <1>3, <1>5, <2>1, <2>3 DEF ProgressInv
<1>6. CASE disk' = [disk EXCEPT ![who] = u'] /\ ~(step.i < RoundCount) /\ pc' = "told"
  <2>1. who \in Users /\ disk'[who] = u'
    BY <1>1, <1>6 DEF GrantInv, TypeOK
  <2>2. \A i \in 1..RoundCount : i <= step.i
    BY <1>3, <1>6 DEF RoundCount
  <2>3. Everyday(RoundCount, disk[who])'
    BY <1>1, <1>3, <2>1, <2>2 DEF Everyday, Round
  <2> QED BY <1>1, <1>2, <1>6, <2>3 DEF ProgressInv, Walking
<1> QED BY <1>4, <1>5, <1>6 DEF RoundEnds

(* Every step keeps what a session's progress says.                         *)
LEMMA StepProgress ==
  ASSUME TypeOK, GrantInv, ProgressInv, [Next]_vars
  PROVE  ProgressInv'
<1> USE DEF link, walk, Goto, Tell
<1>1. CASE UNCHANGED <<pc, start, session, who, step, hits, saved, kinds, u, disk, outcome>>
  BY <1>1 DEF ProgressInv, Everyday, Round, EndsAtVerify
<1>2. WatcherGone \/ (\E w \in Window : AskIn(w) \/ Watch(w) \/ Steer(w)) \/ UNCHANGED vars
         => UNCHANGED <<pc, start, session, who, step, hits, saved, kinds, u, disk, outcome>>
  BY WindowLeaves DEF vars
<1>3. CASE pc' \notin Walking /\ (pc' = "told" => outcome' \in {"error", "panic"})
  BY <1>3 DEF ProgressInv
<1>4. Arrive \/ Busy \/ Delete \/ OpenFails \/ Claim \/ Abandon \/ End \/ Fail \/ Panic \/ RunOut
          \/ Refresh
        => pc' \notin Walking /\ (pc' = "told" => outcome' \in {"error", "panic"})
  BY DEF Arrive, Busy, Delete, OpenFails, Claim, Abandon, End, Fail, Panic, RunOut, Refresh, Walking
<1>5. CASE Summoned
  <2>1. pc' = "top" /\ step' = FromStart[start] /\ hits' = 0 /\ start' = start
    BY <1>5 DEF Summoned
  <2>2. /\ step'.name \in {"welcome", "centre", "range", "path", "hold", "bridge"}
        /\ step'.name = "bridge" => start = "bridge"
    BY <2>1, StartStep DEF TypeOK
  <2> QED BY <2>1, <2>2 DEF ProgressInv
<1>6. CASE Loop
  BY <1>6, LoopProgress, RoundProgress
<1> QED BY <1>1, <1>2, <1>3, <1>4, <1>5, <1>6 DEF Next, Request, Requests
-------------------------------------------------------------------------------
(* A service that starts has nobody's session and nobody's set.             *)
LEMMA InitIInv ==
  ASSUME Init
  PROVE  IInv
<1>1. TypeOK
  <2>1. active \in Users \cup {Nobody} /\ watcher \in Users \cup {Nobody, Root} /\ who \in Users \cup {Nobody}
    BY DEF Init
  <2>2. control \in Seq(Control) /\ Len(control) <= Words
    BY EnrolAssumption DEF Init
  <2>3. asking \in [Window -> Users \cup {Nobody}] /\ acl \subseteq Users
    BY DEF Init
  <2>4. pc \in Places /\ start \in Starts /\ outcome \in {"none", "error", "enrolled", "panic"}
    BY DEF Init, Places, Starts
  <2>5. session \in 0..Sessions
    BY EnrolAssumption DEF Init
  <2>6. step \in Steps
    BY StepValues DEF Init
  <2>7. taken \in 0..HoldWanted - 1 /\ hits \in 0..2
    BY DEF Init, HoldWanted
  <2>8. saved \in BOOLEAN /\ kinds \subseteq Kinds /\ poisoned \in BOOLEAN
    BY DEF Init
  <2>9. u \in Sets /\ disk \in [Users -> Sets \cup {NoSet}]
    BY EmptySet DEF Init
  <2> QED BY <2>1, <2>2, <2>3, <2>4, <2>5, <2>6, <2>7, <2>8, <2>9 DEF TypeOK
<1>2. GrantInv
  BY DEF Init, GrantInv, Up, Enrolled
<1>3. RoundsInv
  BY DEF Init, RoundsInv, Up, Walking
<1>4. ProgressInv
  BY DEF Init, ProgressInv, Walking
<1> QED BY <1>1, <1>2, <1>3, <1>4 DEF IInv

(* The inductive invariant holds throughout.                                *)
LEMMA Invariance == Spec => []IInv
<1>1. IInv /\ [Next]_vars => IInv'
  BY StepTyped, StepGrant, StepRounds, StepProgress DEF IInv
<1> QED BY <1>1, InitIInv, PTL DEF Spec

(* A kind of a set that mixes no sessions names one at most.                *)
LEMMA OneEachIsOne ==
  ASSUME NEW s, OneEach(s), NEW k \in Kinds
  PROVE  Cardinality({r.session : r \in s[k]}) <= 1
<1>1. CASE s[k] = {}
  <2>1. {r.session : r \in s[k]} = {}
    BY <1>1
  <2> QED BY <2>1, FS_EmptySet
<1>2. CASE s[k] # {}
  <2>1. PICK q \in s[k] : TRUE
    BY <1>2
  <2>2. {r.session : r \in s[k]} = {q.session}
    BY <2>1 DEF OneEach
  <2>3. Cardinality({q.session}) = 1
    BY FS_Singleton
  <2> QED BY <2>2, <2>3
<1> QED BY <1>1, <1>2

(* The properties, from the invariant.                                      *)
LEMMA IInvImplies ==
  ASSUME IInv
  PROVE  OneSessionPerKind /\ GrantGoesWithTheSession /\ RecognisedBeforeDone
<1>1. OneSessionPerKind
  <2>1. \A x \in Users : disk[x] # NoSet =>
           \A k \in Kinds : Cardinality({r.session : r \in disk[x][k]}) <= 1
    BY OneEachIsOne DEF IInv, RoundsInv
  <2>2. (pc = "told" /\ outcome = "enrolled" /\ ~EndsAtVerify) =>
           \A i \in 1..RoundCount : StoredAs(i) = "everyday" =>
              Round(i) \in disk[who]["everyday"]
    <3>1. \A i \in 1..RoundCount : i <= RoundCount
      BY DEF RoundCount
    <3> QED BY <3>1 DEF IInv, ProgressInv, Everyday
  <2> QED BY <2>1, <2>2 DEF OneSessionPerKind
<1>2. GrantGoesWithTheSession
  BY DEF IInv, GrantInv, GrantGoesWithTheSession, Up
<1>3. RecognisedBeforeDone
  BY DEF IInv, ProgressInv, RecognisedBeforeDone
<1> QED BY <1>1, <1>2, <1>3

(* Every variable of the walk-through keeps its type: no word beyond the     *)
(* room for them, no look beyond those wanted, no hit beyond two.           *)
THEOREM EnrolmentTypeCorrect == Spec => []TypeOK
BY Invariance, PTL DEF IInv

(* A session leaves nothing of its own to the next: every kind of a set on   *)
(* disk is one session's, whole, and the right to connect goes when the      *)
(* session does (steps.rs begin_kind, session.rs release, handle.rs).       *)
THEOREM SessionsStayApart == Spec => []SessionsKeepApart
<1>1. IInv => SessionsKeepApart
  BY IInvImplies DEF SessionsKeepApart
<1> QED BY <1>1, Invariance, PTL

(* An enrolment of looks reports success only after the set on disk has      *)
(* recognised the person twice (walk.rs, the verify step).                  *)
THEOREM DoneMeansRecognised == Spec => []RecognisedBeforeDone
<1>1. IInv => RecognisedBeforeDone
  BY IInvImplies
<1> QED BY <1>1, Invariance, PTL
=============================================================================
