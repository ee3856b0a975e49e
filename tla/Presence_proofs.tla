---------------------------- MODULE Presence_proofs ----------------------------
(***************************************************************************)
(* Proofs about Presence, for every cut-off of the ages, every range of    *)
(* the obscured-face lock and every set of [presence] tables.              *)
(*                                                                         *)
(* The four properties speak of the moment a look has been judged. What    *)
(* makes each true there is a fact about how the watch's own memory stands *)
(* to the history beside it at every step of the thread: its ages to the   *)
(* real ones (AgeInv), its last full sight to a user who never left        *)
(* (DeskInv), and its count of failed checks to a stranger's looks         *)
(* (CountInv).                                                             *)
(***************************************************************************)
EXTENDS Presence, TLAPS

(* An instant kept at age "age", if there is one, is no later than the      *)
(* instant of age "than".                                                   *)
NoYounger(age, than) == age # Never => than <= age

(* The watch's sightings are no younger than the user's last one; the note   *)
(* of a consent or a match bounds both histories; and a sighting runs ahead  *)
(* of a passed check by no more than the obscured time.                      *)
AgeInv ==
  /\ gone \in 0..Cap /\ unproved \in 0..Cap
  /\ NoYounger(last_seen, gone) /\ NoYounger(recent, gone)
  /\ NoYounger(recent, unproved) /\ NoYounger(last_full, unproved)
  /\ last_seen # Never => unproved <= last_seen + ObscuredRange[2]

(* The desk's user was seen in full and left a shape; with an obscured time  *)
(* of "never" the watch is away only if it locked.                           *)
DeskInv ==
  settled => /\ last_full # Never /\ reference
             /\ cfg.obscured = Never /\ ~locked_by_presence => state # "Away"

(* Ticks since the last one on which identity is checked in any case, the    *)
(* one under way not counted.                                                *)
Since == IF pc = "look" THEN (tick + 2) % 3 ELSE tick % 3

(* While the confirmation stands, at most one check failed, and a stranger   *)
(* had one look for it and those on which nothing was checked.               *)
CountInv ==
  /\ pc # "tick" => ~locked_by_presence
  /\ pc = "look" /\ mode = "default" /\ tick % 3 = 0 => identify
  /\ identity_ok => identity_fails < 2
  /\ identity_ok /\ ~locked_by_presence => strangers <= 3 * identity_fails + Since

IInv == TypeOK /\ AgeInv /\ DeskInv /\ CountInv

Properties == /\ SecureNeedsTheUser /\ ObscuredIsBounded
              /\ UserKeepsTheDesk /\ StrangerIsReported
-------------------------------------------------------------------------------
(* The bounds the assumption gives, in the form the steps use.              *)
LEMMA Bounds ==
  /\ Cap \in Nat /\ Never \notin 0..Cap /\ 0 \in 0..Cap /\ 0 \in Ages
  /\ ObscuredRange[1] \in 1..Cap /\ ObscuredRange[2] \in 1..Cap
  /\ ObscuredRange[1] <= ObscuredRange[2]
<1>1. Cap \in Nat /\ Never \notin 0..Cap BY PresenceAssumption
<1>2. 0 \in 0..Cap BY <1>1
<1> QED BY <1>1, <1>2, PresenceAssumption DEF Ages

(* A table's lock times have their types.                                   *)
LEMMA TableTypes ==
  ASSUME cfg \in Configs
  PROVE  /\ cfg.away \in (1..Cap) \cup {Never} /\ cfg.secure_away \in 1..Cap
         /\ cfg.obscured \in (0..Cap) \cup {Never} /\ cfg.secure_obscured \in 0..Cap
BY PresenceAssumption DEF PresenceConfig

(* Growing older: an age stays an age, "never" stays "never", and time only *)
(* adds.                                                                    *)
LEMMA OlderAge ==
  ASSUME NEW age \in Ages, NEW by \in {1, 2}
  PROVE  /\ Older(age, by) \in Ages
         /\ Older(age, by) = Never <=> age = Never
         /\ age # Never => age <= Older(age, by)
BY Bounds DEF Older, Ages

(* Growing older keeps the order of two instants.                           *)
LEMMA OlderOrder ==
  ASSUME NEW age \in Ages, NEW than \in 0..Cap, NEW by \in {1, 2}, NoYounger(age, than)
  PROVE  Older(than, by) \in 0..Cap /\ NoYounger(Older(age, by), Older(than, by))
BY Bounds DEF Older, Ages, NoYounger

(* ... and their distance, up to the cut-off.                               *)
LEMMA OlderDistance ==
  ASSUME NEW age \in Ages, NEW than \in 0..Cap, NEW by \in {1, 2},
         NEW d \in 0..Cap, age # Never => than <= age + d
  PROVE  Older(age, by) # Never => Older(than, by) <= Older(age, by) + d
BY Bounds DEF Older, Ages

(* The secure mode's obscured time stays within its range.                  *)
LEMMA ClampedBounded ==
  ASSUME NEW v \in 0..Cap
  PROVE  Clamped(v, ObscuredRange) \in 1..ObscuredRange[2]
BY Bounds DEF Clamped

(* What the check of a face comes to: a pass takes the score of the user's  *)
(* own face, and a near miss takes one near the threshold.                  *)
LEMMA ReadingTypes ==
  ASSUME NEW who, NEW strict \in BOOLEAN, NEW r \in Readings(who, strict)
  PROVE  \E w \in {"yes", "no", "none"}, n \in BOOLEAN :
            r = <<w, n>> /\ (who = "stranger" => w # "yes" /\ ~n)
<1>1. PICK v \in Verdicts, s \in Scores(who) \cup {"unreadable"} : r = Reading(v, s, strict)
  BY DEF Readings
<1>2. who = "stranger" => s # "pass" /\ s # "near"
  BY DEF Scores
<1> QED BY <1>1, <1>2 DEF Reading

(* What a look can come back with, as far as the rules tell looks apart: a  *)
(* passed check is the user's own face, on a look that checked; a shape is  *)
(* the user's; and a stranger who is read never comes near the threshold.   *)
LookFacts(o) ==
  /\ o.face \in BOOLEAN /\ o.attentive \in BOOLEAN /\ o.near_miss \in BOOLEAN
  /\ o.shape \in BOOLEAN /\ o.identity \in {"yes", "no", "none"}
  /\ o.identity = "yes" => o.face /\ chair \in {"user", "hidden"}
  /\ o.shape => chair \in {"user", "hidden"}
  /\ o.face => chair # "empty"
  /\ o.identity = "no" => o.face /\ identify
  /\ chair = "stranger" => ~o.near_miss

(* The facts of a look without a face, and of one with a face.              *)
LEMMA FrameFacts ==
  ASSUME NEW m \in BOOLEAN, m => chair \in {"user", "hidden"}
  PROVE  LookFacts(Frame(m))
BY DEF LookFacts, Frame

(* What a judged face says.                                               *)
LEMMA FaceFacts ==
  ASSUME NEW a \in BOOLEAN, NEW w \in {"yes", "no", "none"}, NEW n \in BOOLEAN,
         chair # "empty", w = "yes" => chair \in {"user", "hidden"}, w = "no" => identify,
         chair = "stranger" => ~n
  PROVE  LookFacts(Face(a, <<w, n>>))
<1> DEFINE m == chair \in {"user", "hidden"}
<1>1. /\ Face(a, <<w, n>>) = [face |-> TRUE, attentive |-> a, identity |-> w,
                              near_miss |-> n, shape |-> m]
      /\ m \in BOOLEAN /\ (m => chair \in {"user", "hidden"})
  BY DEF Face
<1> HIDE DEF m
<1> DEFINE o == Face(a, <<w, n>>)
<1>2. o.face = TRUE /\ o.attentive = a /\ o.identity = w /\ o.near_miss = n /\ o.shape = m
  BY <1>1
<1> HIDE DEF o
<1>3. LookFacts(o)
  BY <1>1, <1>2, Zenon DEF LookFacts
<1> QED BY <1>3 DEF o

(* What a look leaves is of its type.                                     *)
LEMMA LookTypes ==
  ASSUME TypeOK, NEW o \in Looks
  PROVE  LookFacts(o)
<1> DEFINE poses == IF chair = "user" THEN {TRUE} ELSE BOOLEAN
           checks == {<<"none", FALSE>>}
                     \cup (IF identify THEN Readings(chair, mode = "secure") ELSE {})
<1>1. \/ o = Frame(FALSE) \/ o = Frame(chair = "hidden")
      \/ chair # "empty" /\ \E a \in poses : \E r \in checks : o = Face(a, r)
  <2>1. \/ o = Frame(FALSE)
        \/ o \in IF chair = "user" THEN {} ELSE {Frame(chair = "hidden")}
        \/ o \in IF chair = "empty" THEN {} ELSE UNION {{Face(a, r) : r \in checks} : a \in poses}
    BY Zenon DEF Looks
  <2>2. CASE o \in IF chair = "user" THEN {} ELSE {Frame(chair = "hidden")}
    BY <2>2, Zenon
  <2> HIDE DEF poses, checks
  <2>3. CASE o \in IF chair = "empty" THEN {} ELSE UNION {{Face(a, r) : r \in checks} : a \in poses}
    BY <2>3, Zenon
  <2> QED
    BY <2>1, <2>2, <2>3
<1>2. CASE chair # "empty" /\ \E a \in poses : \E r \in checks : o = Face(a, r)
  <2>1. PICK a \in poses : \E r \in checks : o = Face(a, r)
    BY <1>2
  <2>2. PICK r \in checks : o = Face(a, r)
    BY <2>1
  <2>3. chair \in {"user", "hidden", "stranger"} /\ a \in BOOLEAN
    BY <1>2 DEF TypeOK
  <2>4. CASE r = <<"none", FALSE>>
    BY <1>2, <2>2, <2>3, <2>4, FaceFacts
  <2>5. CASE identify /\ r \in Readings(chair, mode = "secure")
    <3> DEFINE strict == mode = "secure"
    <3>0. strict \in BOOLEAN /\ r \in Readings(chair, strict)
      BY <2>5
    <3> HIDE DEF strict
    <3>1. PICK w \in {"yes", "no", "none"}, n \in BOOLEAN :
             r = <<w, n>> /\ (chair = "stranger" => w # "yes" /\ ~n)
      BY <3>0, ReadingTypes
    <3> QED BY <1>2, <2>2, <2>3, <2>5, <3>1, FaceFacts
  <2> QED BY <2>2, <2>4, <2>5
<1>3. CASE o = Frame(FALSE)
  BY <1>3, FrameFacts
<1>4. CASE o = Frame(chair = "hidden")
  BY <1>4, FrameFacts
<1> QED BY <1>1, <1>2, <1>3, <1>4
-------------------------------------------------------------------------------
(* The rules of one look, on a typed state and a typed look.                *)

(* The note of a consent or a match moves the last sighting to the later of *)
(* the two.                                                                 *)
LEMMA NoteRecentIs ==
  ASSUME TypeOK
  PROVE  /\ NoteRecent \in Ages
         /\ NoteRecent = last_seen \/ NoteRecent = recent
         /\ NoteRecent = Never => last_seen = Never
         /\ last_seen = Never => NoteRecent = recent
BY DEF NoteRecent, TypeOK

(* The count of failed checks stays within 0..2.                            *)
LEMMA FailsType ==
  ASSUME TypeOK, NEW o, LookFacts(o)
  PROVE  Fails(o) \in 0..2
BY DEF Fails, TypeOK

(* A stranger's looks are counted up to 6.                                  *)
LEMMA StrangersType ==
  ASSUME TypeOK, NEW o
  PROVE  Strangers(o) \in 0..6 /\ Strangers(o) <= strangers + 1
BY DEF Strangers, TypeOK

(* The verdicts of a look are truth values.                                 *)
LEMMA VerdictTypes ==
  ASSUME NEW o
  PROVE  /\ Seen(o) \in BOOLEAN /\ IdentityOk(o) \in BOOLEAN
         /\ HeldByShape(o) \in BOOLEAN /\ Settled(o) \in BOOLEAN
         /\ (reference \/ (Seen(o) /\ o.identity = "yes")) \in BOOLEAN
         /\ (locked_by_presence /\ NextState(o) # "Present") \in BOOLEAN
BY DEF Seen, IdentityOk, HeldByShape, Settled

(* A look leaves one of the four states.                                    *)
LEMMA NextStateType ==
  ASSUME TypeOK, NEW o
  PROVE  NextState(o) \in States
BY DEF NextState, States, TypeOK

(* Somebody is seen only in front of the camera, and in the secure mode only *)
(* on a passed check; a shape that holds is the user's.                     *)
LEMMA WhoIsSeen ==
  ASSUME NEW o, LookFacts(o)
  PROVE  /\ Seen(o) => o.face /\ chair # "empty"
         /\ Seen(o) /\ mode = "secure" => o.identity = "yes" /\ chair \in {"user", "hidden"}
         /\ HeldByShape(o) => chair \in {"user", "hidden"} /\ ~Seen(o)
         /\ o.identity = "yes" => Seen(o)
BY DEF Seen, HeldByShape, same_shape, IdentityOk, LookFacts

(* In the secure mode a shape holds for less than the longest obscured time *)
(* after the last full sight.                                               *)
LEMMA HeldIsRecent ==
  ASSUME TypeOK, NEW o, HeldByShape(o), mode = "secure"
  PROVE  last_full \in 0..Cap /\ last_full < ObscuredRange[2]
<1>1. Clamped(cfg.secure_obscured, ObscuredRange) \in 1..ObscuredRange[2]
  BY ClampedBounded, TableTypes DEF TypeOK
<1>2. last_full # Never /\ last_full \in 0..Cap
  BY DEF HeldByShape, Within, TypeOK, Ages
<1>3. last_full < Clamped(cfg.secure_obscured, ObscuredRange)
  <2>1. Clamped(cfg.secure_obscured, ObscuredRange) # Never
    BY <1>1, Bounds
  <2> QED BY <2>1 DEF HeldByShape, Within, obscured_lock_for
<1> QED BY <1>1, <1>2, <1>3, Bounds
-------------------------------------------------------------------------------
(* The steps, an action at a time.                                          *)

(* Types: a tick.                                                           *)
LEMMA TickTyped ==
  ASSUME TypeOK, Tick \/ TickLocked \/ \E by_face \in BOOLEAN : TickResumes(by_face)
  PROVE  TypeOK'
<1> USE Bounds
<1>1. tick_for(mode) \in {1, 2}
  BY DEF tick_for
<1>2. /\ Older(last_full, tick_for(mode)) \in Ages /\ Older(recent, tick_for(mode)) \in Ages
      /\ Older(last_seen, tick_for(mode)) \in Ages
      /\ Older(gone, tick_for(mode)) \in Ages /\ Older(unproved, tick_for(mode)) \in Ages
  BY <1>1, OlderAge DEF TypeOK
<1>3. identify_this_tick(mode', tick') \in BOOLEAN
  BY DEF identify_this_tick
<1>4. ASSUME NEW there \in {"tick", "look"}, Sleep(there)
      PROVE  /\ mode' \in Modes /\ tick' \in 0..5 /\ identify' \in BOOLEAN /\ pc' \in {"tick", "look"}
             /\ UNCHANGED <<cfg, now_mode, chair, session, last>>
  BY <1>3, <1>4 DEF Sleep, TypeOK
<1>5. CASE Tick
  BY <1>2, <1>4, <1>5 DEF Tick, Passing, TimePasses, TypeOK
<1>6. CASE TickLocked
  BY <1>2, <1>4, <1>6 DEF TickLocked, Passing, TimePasses, TypeOK, States
<1>7. CASE \E by_face \in BOOLEAN : TickResumes(by_face)
  <2>1. PICK by_face \in BOOLEAN : TickResumes(by_face)
    BY <1>7
  <2>2. {reference', record', locked_by_presence', identity_ok', settled'} \subseteq BOOLEAN
    BY <2>1 DEF TickResumes, TypeOK
  <2>3. /\ state' \in States /\ last_seen' = 0 /\ identity_fails' = 0
        /\ last_full' \in Ages /\ recent' \in Ages
        /\ gone' = 0 /\ unproved' = 0 /\ strangers' = 0
    BY <1>2, <2>1 DEF TickResumes, States
  <2> QED BY <1>4, <2>1, <2>2, <2>3 DEF TickResumes, TypeOK
<1> QED BY <1>5, <1>6, <1>7

(* Types: a look.                                                           *)
LEMMA ObserveTyped ==
  ASSUME TypeOK, NEW o, LookFacts(o), Observe(o)
  PROVE  TypeOK'
<1>1. /\ SeenNow(o) \in Ages /\ FullNow(o) \in Ages /\ Never \in Ages /\ 0 \in Ages
  BY NoteRecentIs, Bounds DEF SeenNow, FullNow, TypeOK, Ages
<1>2. Fails(o) \in 0..2 /\ Strangers(o) \in 0..6 /\ NextState(o) \in States
  BY FailsType, StrangersType, NextStateType
<1>3. {reference', locked_by_presence', identity_ok', settled'} \subseteq BOOLEAN
  BY VerdictTypes DEF Observe
<1>4. gone' \in Ages /\ unproved' \in Ages
  BY <1>1 DEF Observe, TypeOK
<1> QED BY <1>1, <1>2, <1>3, <1>4 DEF Observe, TypeOK

(* Types: every other step.                                                 *)
LEMMA RestTyped ==
  ASSUME TypeOK,
         \/ LookFails \/ LockWorks \/ NoLock \/ Wait \/ Restart \/ set_presence_mode
         \/ Recent \/ RequestLocks \/ Unlock \/ Sit \/ UNCHANGED vars
  PROVE  TypeOK'
<1> USE Bounds
<1>1. CASE LookFails
  BY <1>1, NoteRecentIs DEF LookFails, TypeOK, Ages
<1>2. CASE LockWorks
  BY <1>2 DEF LockWorks, Publish, Idle, history, TypeOK
<1>3. CASE NoLock
  BY <1>3 DEF NoLock, Publish, Idle, history, TypeOK
<1>4. CASE Wait
  BY <1>4, OlderAge DEF Wait, Passing, TimePasses, TypeOK
<1>5. CASE Restart
  <2>1. {reference', record', locked_by_presence', identity_ok', settled'} \subseteq BOOLEAN
    BY <1>5 DEF Restart
  <2>2. cfg' \in Configs /\ now_mode' \in Modes /\ mode' \in Modes /\ identify' \in BOOLEAN
    BY <1>5 DEF Restart
  <2>3. /\ chair' = chair /\ session' = session /\ pc' = "tick" /\ tick' \in 0..5
        /\ state' \in States /\ last' \in States \cup {"none"}
        /\ identity_fails' \in 0..2 /\ strangers' \in 0..6
    BY <1>5 DEF Restart, States
  <2>4. /\ last_seen' \in Ages /\ last_full' \in Ages /\ recent' \in Ages
        /\ gone' \in Ages /\ unproved' \in Ages
    BY <1>5 DEF Restart, Ages
  <2> QED BY <2>1, <2>2, <2>3, <2>4 DEF TypeOK
<1>6. CASE set_presence_mode
  BY <1>6 DEF set_presence_mode, Still, watched, history, TypeOK
<1>7. CASE Recent
  BY <1>7 DEF Recent, Still, watched, TypeOK
<1>8. CASE RequestLocks
  BY <1>8 DEF RequestLocks, Still, watched, history, TypeOK
<1>9. CASE Unlock
  BY <1>9 DEF Unlock, Still, watched, history, TypeOK
<1>10. CASE Sit
  BY <1>10 DEF Sit, Still, watched, history, TypeOK
<1>11. CASE UNCHANGED vars
  BY <1>11 DEF vars, world, watched, history, TypeOK
<1> QED BY <1>1, <1>2, <1>3, <1>4, <1>5, <1>6, <1>7, <1>8, <1>9, <1>10, <1>11
(* Every step keeps the types.                                              *)
LEMMA StepTyped ==
  ASSUME TypeOK, [Next]_vars
  PROVE  TypeOK'
<1>1. CASE Look
  BY <1>1, LookTypes, ObserveTyped DEF Look
<1> QED BY <1>1, TickTyped, RestTyped DEF Next, Watching
-------------------------------------------------------------------------------
(* Time passes for the watch's ages and for the histories alike.            *)
LEMMA PassingAges ==
  ASSUME TypeOK, AgeInv, NEW by \in {1, 2}, Passing(by)
  PROVE  AgeInv'
<1>1. /\ gone \in 0..Cap /\ unproved \in 0..Cap
      /\ last_seen \in Ages /\ last_full \in Ages /\ recent \in Ages
  BY DEF AgeInv, TypeOK
<1>2. /\ gone' \in 0..Cap /\ NoYounger(last_seen', gone') /\ NoYounger(recent', gone')
  BY <1>1, OlderOrder DEF AgeInv, Passing, TimePasses
<1>3. /\ unproved' \in 0..Cap /\ NoYounger(recent', unproved') /\ NoYounger(last_full', unproved')
  BY <1>1, OlderOrder DEF AgeInv, Passing, TimePasses
<1>4. last_seen' # Never => unproved' <= last_seen' + ObscuredRange[2]
  <2>1. ObscuredRange[2] \in 0..Cap
    BY Bounds
  <2>2. last_seen # Never => unproved <= last_seen + ObscuredRange[2]
    BY DEF AgeInv
  <2> QED BY <1>1, <2>1, <2>2, OlderDistance DEF Passing, TimePasses
<1> QED BY <1>2, <1>3, <1>4 DEF AgeInv, NoYounger

(* A look that takes the user, or in the default mode anybody, for present   *)
(* is one the histories count too.                                          *)
LEMMA ObserveAges ==
  ASSUME TypeOK, AgeInv, NEW o, LookFacts(o), Observe(o)
  PROVE  AgeInv'
<1> DEFINE met == Seen(o) \/ HeldByShape(o)
<1>1. /\ last_seen' = SeenNow(o) /\ last_full' = FullNow(o) /\ recent' = Never
      /\ gone' = 0 \/ gone' = gone
      /\ unproved' = 0 \/ unproved' = unproved
  BY DEF Observe
<1>2. gone \in 0..Cap /\ unproved \in 0..Cap /\ gone' \in 0..Cap /\ unproved' \in 0..Cap
  BY Bounds DEF Observe, AgeInv
<1>3. /\ met => last_seen' = 0 /\ gone' = 0
      /\ Seen(o) => unproved' = 0 /\ last_full' = 0
      /\ last_seen = Never => gone' = 0 /\ unproved' = 0
  <2>1. met => last_seen' = 0
    BY <1>1 DEF SeenNow
  <2>2. met => gone' = 0
    <3>1. met => chair # "empty" /\ (mode = "secure" => chair \in {"user", "hidden"})
      BY WhoIsSeen
    <3>2. chair \in {"user", "hidden", "stranger", "empty"} /\ mode \in {"default", "secure"}
      BY DEF TypeOK, Modes
    <3> QED BY <3>1, <3>2 DEF Observe
  <2>3. Seen(o) => unproved' = 0 /\ last_full' = 0
    BY <1>1, WhoIsSeen DEF Observe, FullNow, TypeOK, Modes
  <2> QED BY <2>1, <2>2, <2>3 DEF Observe
<1>4. NoYounger(last_seen', gone')
  <2>1. CASE met
    BY <1>3, <2>1 DEF NoYounger
  <2>2. CASE ~met
    <3>1. last_seen' = NoteRecent
      BY <1>1, <2>2 DEF SeenNow
    <3>2. gone' <= gone
      BY <1>2 DEF Observe
    <3>3. NoteRecent # Never => gone <= NoteRecent
      BY NoteRecentIs DEF AgeInv, NoYounger
    <3>4. NoteRecent \in Ages
      BY NoteRecentIs
    <3> QED BY <1>2, <3>1, <3>2, <3>3, <3>4, Bounds DEF NoYounger, Ages
  <2> QED BY <2>1, <2>2
<1>5. NoYounger(last_full', unproved')
  <2>1. CASE Seen(o)
    BY <1>3, <2>1 DEF NoYounger
  <2>2. CASE ~Seen(o)
    <3>1. last_full' = last_full
      BY <1>1, <2>2 DEF FullNow
    <3>2. last_full # Never => unproved <= last_full /\ last_full \in 0..Cap
      BY DEF AgeInv, NoYounger, TypeOK, Ages
    <3>3. unproved' <= unproved
      BY <1>2 DEF Observe
    <3> QED BY <1>2, <3>1, <3>2, <3>3, Bounds DEF NoYounger
  <2> QED BY <2>1, <2>2
<1>6. last_seen' # Never => unproved' <= last_seen' + ObscuredRange[2]
  <2>1. CASE Seen(o)
    BY <1>3, <2>1, Bounds
  <2>2. CASE HeldByShape(o)
    <3>1. CASE mode = "secure"
      <4>1. last_full \in 0..Cap /\ last_full < ObscuredRange[2]
        BY <2>2, <3>1, HeldIsRecent
      <4>2. unproved <= last_full
        BY <4>1, Bounds DEF AgeInv, NoYounger
      <4> QED BY <1>2, <1>3, <2>2, <4>1, <4>2, Bounds DEF Observe
    <3>2. CASE mode = "default"
      BY <1>3, <2>2, <3>2, Bounds DEF Observe
    <3> QED BY <3>1, <3>2 DEF TypeOK, Modes
  <2>3. CASE ~met
    <3>1. last_seen' = NoteRecent
      BY <1>1, <2>3 DEF SeenNow
    <3>2. unproved' <= unproved
      BY <1>2 DEF Observe
    <3>3. CASE NoteRecent = last_seen
      BY <1>2, <3>1, <3>2, <3>3, Bounds DEF AgeInv, TypeOK, Ages
    <3>4. CASE NoteRecent = recent
      BY <1>2, <3>1, <3>2, <3>4, Bounds DEF AgeInv, NoYounger, TypeOK, Ages
    <3> QED BY <3>3, <3>4, NoteRecentIs
  <2> QED BY <2>1, <2>2, <2>3
<1>7. NoYounger(recent', gone') /\ NoYounger(recent', unproved')
  BY <1>1 DEF NoYounger
<1> QED BY <1>2, <1>4, <1>5, <1>6, <1>7 DEF AgeInv, NoYounger
(* Every step keeps the order of the ages.                                  *)
LEMMA StepAges ==
  ASSUME TypeOK, AgeInv, [Next]_vars
  PROVE  AgeInv'
<1>1. CASE Tick \/ TickLocked
  BY <1>1, PassingAges DEF Tick, TickLocked, tick_for
<1>2. CASE \E by_face \in BOOLEAN : TickResumes(by_face)
  <2>1. last_seen' = 0 /\ gone' = 0 /\ unproved' = 0
    BY <1>2 DEF TickResumes
  <2>2. last_full' \in Ages /\ recent' \in Ages
    BY <1>2, TickTyped DEF TypeOK
  <2> QED BY <2>1, <2>2, Bounds DEF AgeInv, NoYounger, Ages
<1>3. CASE Look
  BY <1>3, LookTypes, ObserveAges DEF Look
<1>4. CASE LookFails
  <2>1. /\ last_seen' = NoteRecent /\ recent' = Never
        /\ last_full' = last_full /\ gone' = gone /\ unproved' = unproved
    BY <1>4 DEF LookFails
  <2>2. CASE NoteRecent = last_seen
    BY <2>1, <2>2 DEF AgeInv, NoYounger
  <2>3. CASE NoteRecent = recent
    BY <2>1, <2>3, Bounds DEF AgeInv, NoYounger, TypeOK, Ages
  <2> QED BY <2>2, <2>3, NoteRecentIs
<1>5. CASE Wait
  BY <1>5, PassingAges DEF Wait
<1>6. CASE Restart
  BY <1>6, Bounds DEF Restart, AgeInv, NoYounger
<1>7. CASE Recent
  <2>1. /\ recent' = 0 /\ gone' = 0 /\ unproved' = 0
        /\ last_seen' = last_seen /\ last_full' = last_full
    BY <1>7 DEF Recent, Still, watched
  <2> QED BY <2>1, Bounds DEF AgeInv, NoYounger, TypeOK, Ages
<1>8. CASE UNCHANGED <<last_seen, last_full, recent, gone, unproved>>
  BY <1>8 DEF AgeInv, NoYounger
<1>9. LockWorks \/ NoLock => UNCHANGED <<last_seen, last_full, recent, gone, unproved>>
  BY DEF LockWorks, NoLock, Idle, history
<1>10. set_presence_mode \/ RequestLocks \/ Unlock \/ Sit \/ UNCHANGED vars
          => UNCHANGED <<last_seen, last_full, recent, gone, unproved>>
  BY DEF set_presence_mode, RequestLocks, Unlock, Sit, Still, watched, history, vars, world
<1> QED BY <1>1, <1>2, <1>3, <1>4, <1>5, <1>6, <1>7, <1>8, <1>9, <1>10 DEF Next, Watching
-------------------------------------------------------------------------------
(* A user of the default mode who stays in the chair is held by their shape   *)
(* when they are not seen, for as long as it takes.                         *)
LEMMA UserHeld ==
  ASSUME TypeOK, NEW o, LookFacts(o), mode = "default", chair \in {"user", "hidden"},
         o.shape, reference, last_full # Never, cfg.obscured = Never, ~Seen(o)
  PROVE  HeldByShape(o)
<1>1. ~IsStranger(o)
  BY DEF Seen, IsStranger
<1>2. obscured_lock_for(mode) = Never
  <2>1. Never # 0
    BY Bounds
  <2> QED BY <2>1 DEF obscured_lock_for
<1> QED BY <1>1, <1>2 DEF HeldByShape, Within, same_shape

(* A look keeps a settled user's desk.                                      *)
LEMMA ObserveDesk ==
  ASSUME TypeOK, DeskInv, CountInv, NEW o, LookFacts(o), Observe(o)
  PROVE  DeskInv'
<1> SUFFICES ASSUME settled'
             PROVE  /\ last_full' # Never /\ reference'
                    /\ cfg'.obscured = Never /\ ~locked_by_presence' => state' # "Away"
  BY DEF DeskInv
<1>1. /\ mode = "default" /\ chair \in {"user", "hidden"} /\ o.shape
      /\ settled \/ (o.identity = "yes" /\ o.face)
  <2>1. Settled(o)
    BY Zenon DEF Observe
  <2> QED BY <2>1, Zenon DEF Settled
<1>2. /\ last_full' = FullNow(o) /\ state' = NextState(o) /\ cfg' = cfg
      /\ reference' <=> reference \/ (Seen(o) /\ o.identity = "yes")
  BY DEF Observe
<1>3. ~locked_by_presence
  BY DEF Observe, CountInv
<1>4. ~Missed(o)
  BY <1>1 DEF Missed
<1>5. CASE Seen(o)
  <2>1. last_full' # Never
    BY <1>2, <1>5, Bounds DEF FullNow
  <2>2. reference'
    BY <1>1, <1>2, <1>5 DEF DeskInv
  <2>3. state' # "Away"
    BY <1>2, <1>4, <1>5 DEF NextState
  <2> QED BY <2>1, <2>2, <2>3
<1>6. CASE ~Seen(o)
  <2>1. settled
    BY <1>1, <1>6, WhoIsSeen
  <2>2. last_full # Never /\ reference
    BY <2>1 DEF DeskInv
  <2>3. last_full' # Never /\ reference'
    BY <1>2, <1>6, <2>2 DEF FullNow
  <2>4. ASSUME cfg.obscured = Never
        PROVE  state' # "Away"
    <3>1. HeldByShape(o)
      BY <1>1, <1>6, <2>2, <2>4, UserHeld
    <3>2. SeenNow(o) = 0
      BY <3>1 DEF SeenNow
    <3>3. ~Reached(0, away_for(mode))
      BY <1>1, TableTypes DEF Reached, away_for, TypeOK
    <3>4. state # "Away"
      BY <1>3, <2>1, <2>4 DEF DeskInv
    <3> QED BY <1>2, <1>4, <1>6, <3>1, <3>2, <3>3, <3>4 DEF NextState
  <2> QED BY <1>2, <2>3, <2>4
<1> QED BY <1>5, <1>6

(* Every step keeps it.                                                     *)
LEMMA StepDesk ==
  ASSUME TypeOK, DeskInv, CountInv, [Next]_vars
  PROVE  DeskInv'
<1> DEFINE desk == <<settled, reference, cfg, state, last_full, locked_by_presence>>
<1>1. CASE Tick \/ TickLocked
  <2>1. /\ settled' = settled /\ reference' = reference /\ cfg' = cfg
        /\ locked_by_presence' \/ UNCHANGED <<state, locked_by_presence>>
        /\ last_full' = Older(last_full, tick_for(mode))
    BY <1>1 DEF Tick, TickLocked, Sleep, Passing, TimePasses
  <2>2. last_full # Never => last_full' # Never
    BY <2>1, OlderAge DEF TypeOK, tick_for
  <2> QED BY <2>1, <2>2 DEF DeskInv
<1>2. CASE (\E by_face \in BOOLEAN : TickResumes(by_face)) \/ Restart
  BY <1>2 DEF TickResumes, Restart, DeskInv
<1>3. CASE Look
  BY <1>3, LookTypes, ObserveDesk DEF Look
<1>4. CASE LookFails
  BY <1>4 DEF LookFails, DeskInv
<1>5. CASE LockWorks
  BY <1>5 DEF LockWorks, Idle, history, DeskInv
<1>6. CASE Wait
  BY <1>6, OlderAge DEF Wait, Passing, TimePasses, DeskInv, TypeOK
<1>7. CASE UNCHANGED desk
  BY <1>7 DEF DeskInv
<1>8. NoLock => UNCHANGED desk
  BY DEF NoLock, Idle, history
<1>9. set_presence_mode \/ Recent \/ RequestLocks \/ Unlock \/ Sit \/ UNCHANGED vars => UNCHANGED desk
  BY DEF set_presence_mode, Recent, RequestLocks, Unlock, Sit, Still, watched, history, vars, world
<1> QED BY <1>1, <1>2, <1>3, <1>4, <1>5, <1>6, <1>7, <1>8, <1>9 DEF Next, Watching
-------------------------------------------------------------------------------
(* The ticks since the last one that checked in any case: at most two, and   *)
(* a look that checks nothing adds one.                                     *)
LEMMA SinceIs ==
  ASSUME TypeOK
  PROVE  /\ Since \in 0..2
         /\ pc # "look" => Since = tick % 3
         /\ pc = "look" => Since = (tick + 2) % 3
         /\ pc = "look" /\ tick % 3 # 0 => tick % 3 = Since + 1
<1>1. tick \in {0, 1, 2, 3, 4, 5}
  BY DEF TypeOK
<1> QED BY <1>1 DEF Since

(* A remainder of three is at most two.                                     *)
LEMMA Remainder ==
  ASSUME NEW t \in {0, 1, 2, 3, 4, 5}
  PROVE  (t + 2) % 3 \in 0..2
OBVIOUS

(* The next tick goes on from where this one ends.                          *)
LEMMA SinceSleeps ==
  ASSUME TypeOK, pc = "tick", pc' = "look", tick' = (tick + 1) % 6
  PROVE  Since' = Since
<1>1. tick \in {0, 1, 2, 3, 4, 5}
  BY DEF TypeOK
<1> QED BY <1>1 DEF Since

(* A look keeps the count of a stranger's looks: one that checks fails, and  *)
(* leaves the confirmation standing once; one that does not is counted in    *)
(* the ticks.                                                               *)
LEMMA ObserveCount ==
  ASSUME TypeOK, CountInv, NEW o, LookFacts(o), Observe(o)
  PROVE  CountInv'
<1>1. /\ pc = "look" /\ pc' = "judged" /\ tick' = tick /\ mode' = mode
      /\ identity_fails' = Fails(o) /\ identity_ok' = IdentityOk(o)
      /\ strangers' = Strangers(o)
      /\ locked_by_presence' = (locked_by_presence /\ NextState(o) # "Present")
  BY DEF Observe
<1>2. ~locked_by_presence /\ ~locked_by_presence'
  BY <1>1 DEF CountInv
<1>3. IdentityOk(o) => Fails(o) < 2
  BY DEF IdentityOk, Fails, Strikes, CountInv, TypeOK
<1>4. IdentityOk(o) => Strangers(o) <= 3 * Fails(o) + (tick % 3)
  <2> SUFFICES ASSUME IdentityOk(o), Strangers(o) # 0
               PROVE  Strangers(o) <= 3 * Fails(o) + (tick % 3)
    BY FailsType, SinceIs, <1>1, StrangersType DEF TypeOK
  <2>1. /\ mode = "default" /\ chair = "stranger" /\ (identify => o.identity = "no")
    BY DEF Strangers
  <2>2. o.identity # "yes" /\ identity_ok
    BY <2>1 DEF LookFacts, IdentityOk
  <2>3. strangers <= 3 * identity_fails + Since /\ identity_fails < 2
    BY <1>2, <2>2 DEF CountInv
  <2>4. strangers \in 0..6 /\ identity_fails \in 0..1 /\ Since \in 0..2 /\ tick % 3 \in 0..2
    BY <2>3, SinceIs DEF TypeOK
  <2>5. Strangers(o) <= strangers + 1 /\ Strangers(o) \in 0..6
    BY StrangersType
  <2>6. CASE identify
    <3>1. o.identity = "no" /\ Fails(o) = identity_fails + 1
      BY <2>1, <2>4, <2>6 DEF Fails
    <3>2. identity_fails = 0
      BY <1>3, <2>4, <3>1
    <3> QED BY <2>3, <2>4, <2>5, <3>1, <3>2
  <2>7. CASE ~identify
    <3>1. tick % 3 = Since + 1
      BY <1>1, <2>1, <2>7, SinceIs DEF CountInv
    <3>2. Fails(o) = identity_fails
      BY <2>2, <2>7 DEF Fails, LookFacts
    <3> QED BY <2>3, <2>4, <2>5, <3>1, <3>2
  <2> QED BY <2>6, <2>7
<1>5. Since' = tick % 3
  BY <1>1 DEF Since
<1>6. identity_ok' => identity_fails' < 2 /\ strangers' <= 3 * identity_fails' + Since'
  BY <1>1, <1>3, <1>4, <1>5
<1> QED BY <1>1, <1>2, <1>6 DEF CountInv

(* Every step keeps it.                                                     *)
LEMMA StepCount ==
  ASSUME TypeOK, CountInv, [Next]_vars
  PROVE  CountInv'
<1> DEFINE counted == <<pc, mode, tick, identify, identity_ok, identity_fails,
                        locked_by_presence, strangers>>
<1>1. CASE Tick
  <2>1. /\ pc = "tick" /\ pc' = "look" /\ tick' = (tick + 1) % 6
        /\ UNCHANGED <<identity_ok, identity_fails, locked_by_presence, strangers>>
        /\ ~locked_by_presence
    BY <1>1 DEF Tick, Sleep
  <2>2. tick' % 3 = 0 => identify'
    BY <1>1 DEF Tick, Sleep, identify_this_tick
  <2>3. Since' = Since
    BY <2>1, SinceSleeps
  <2> QED BY <2>1, <2>2, <2>3 DEF CountInv
<1>2. CASE TickLocked
  <2>1. /\ pc' = "tick" /\ locked_by_presence' /\ UNCHANGED <<identity_ok, identity_fails>>
    BY <1>2 DEF TickLocked, Sleep
  <2> QED BY <2>1 DEF CountInv
<1>3. CASE \E by_face \in BOOLEAN : TickResumes(by_face)
  <2>1. /\ pc' = "look" /\ ~locked_by_presence' /\ identity_fails' = 0 /\ strangers' = 0
    BY <1>3 DEF TickResumes, Sleep
  <2>2. tick' % 3 = 0 => identify'
    BY <1>3 DEF TickResumes, Sleep, identify_this_tick
  <2>3. Since' \in 0..2
    <3>1. tick' \in {0, 1, 2, 3, 4, 5}
      BY <1>3 DEF TickResumes, Sleep, TypeOK
    <3>2. Since' = (tick' + 2) % 3
      BY <2>1 DEF Since
    <3> QED BY <3>1, <3>2, Remainder
  <2>4. strangers' <= 3 * identity_fails' + Since' /\ identity_fails' < 2
    <3>1. strangers' = 0 /\ identity_fails' = 0
      BY <2>1
    <3>2. ASSUME NEW s \in 0..2 PROVE 0 <= 3 * 0 + s /\ 0 < 2
      OBVIOUS
    <3> QED BY <2>3, <3>1, <3>2
  <2> QED BY <2>1, <2>2, <2>4 DEF CountInv
<1>4. CASE Look
  BY <1>4, LookTypes, ObserveCount DEF Look
<1>5. CASE LookFails \/ NoLock
  <2>1. /\ pc = "look" \/ pc = "judged"
        /\ pc' = "tick" /\ tick' = tick
        /\ UNCHANGED <<identity_ok, identity_fails, locked_by_presence>>
        /\ strangers' = 0 \/ (pc = "judged" /\ strangers' = strangers)
    BY <1>5 DEF LookFails, NoLock, Publish, Idle, history
  <2>2. Since' = tick % 3 /\ tick % 3 \in 0..2
    BY <2>1 DEF Since, TypeOK
  <2>3. pc = "judged" => Since = tick % 3
    BY SinceIs
  <2>4. identity_ok /\ ~locked_by_presence => strangers' <= 3 * identity_fails + Since'
    BY <2>1, <2>2, <2>3 DEF CountInv, TypeOK
  <2> QED BY <2>1, <2>4 DEF CountInv
<1>6. CASE LockWorks
  <2>1. pc' = "tick" /\ locked_by_presence' /\ UNCHANGED <<identity_ok, identity_fails>>
    BY <1>6 DEF LockWorks, Publish, Idle
  <2> QED BY <2>1 DEF CountInv
<1>7. CASE Restart
  <2>1. /\ pc' = "tick" /\ ~locked_by_presence' /\ tick' = 0
        /\ identity_fails' = 0 /\ strangers' = 0
    BY <1>7 DEF Restart
  <2> QED BY <2>1 DEF CountInv, Since
<1>8. CASE UNCHANGED counted
  BY <1>8 DEF CountInv, Since
<1>9. Wait \/ set_presence_mode \/ Recent \/ RequestLocks \/ Unlock \/ Sit \/ UNCHANGED vars
         => UNCHANGED counted
  BY DEF Wait, set_presence_mode, Recent, RequestLocks, Unlock, Sit, Still, watched, history,
         vars, world
<1> QED BY <1>1, <1>2, <1>3, <1>4, <1>5, <1>6, <1>7, <1>8, <1>9 DEF Next, Watching
-------------------------------------------------------------------------------
(* What a look of the secure mode decides, by the ages.                     *)
JudgedInv == SecureNeedsTheUser /\ ObscuredIsBounded /\ StrangerIsReported

(* A look of the secure mode that does not meet the user goes by the last    *)
(* sighting, and a sighting past the away time ends in Away.                *)
LEMMA AwayByAge ==
  ASSUME TypeOK, NEW o, mode = "secure", ~Seen(o), ~HeldByShape(o),
         NoteRecent # Never, cfg.secure_away <= NoteRecent
  PROVE  NextState(o) = "Away"
<1>1. Reached(SeenNow(o), away_for(mode))
  <2>1. cfg.secure_away # Never
    BY TableTypes, Bounds DEF TypeOK
  <2> QED BY <2>1 DEF Reached, SeenNow, away_for
<1> QED BY <1>1 DEF NextState

(* Nobody else keeps the session of the secure mode open.                   *)
LEMMA ObserveSecure ==
  ASSUME TypeOK, AgeInv, NEW o, LookFacts(o), Observe(o)
  PROVE  SecureNeedsTheUser'
<1> SUFFICES ASSUME mode = "secure", last_seen' # Never, gone' >= cfg.secure_away
             PROVE  NextState(o) = "Away"
  BY DEF SecureNeedsTheUser, Judged, Observe
<1>1. cfg.secure_away \in 1..Cap /\ gone \in 0..Cap
  BY TableTypes DEF TypeOK, AgeInv
<1>2. gone' # 0
  BY <1>1, Bounds
<1>3. chair \notin {"user", "hidden"} /\ last_seen # Never /\ gone' = gone
  BY <1>2 DEF Observe
<1>4. ~Seen(o) /\ ~HeldByShape(o)
  BY <1>3, WhoIsSeen
<1>5. NoteRecent # Never /\ NoteRecent \in Ages /\ gone <= NoteRecent
  BY <1>3, NoteRecentIs DEF AgeInv, NoYounger
<1>6. cfg.secure_away <= NoteRecent
  BY <1>1, <1>3, <1>5, Bounds DEF Ages
<1> QED BY <1>4, <1>5, <1>6, AwayByAge

(* The user's hidden face holds no longer than both times together.         *)
LEMMA ObserveObscured ==
  ASSUME TypeOK, AgeInv, NEW o, LookFacts(o), Observe(o)
  PROVE  ObscuredIsBounded'
<1> SUFFICES ASSUME mode = "secure", last_seen' # Never,
                    unproved' >= ObscuredRange[2] + cfg.secure_away
             PROVE  NextState(o) = "Away"
  BY DEF ObscuredIsBounded, Judged, Observe
<1>1. cfg.secure_away \in 1..Cap /\ unproved \in 0..Cap /\ ObscuredRange[2] \in 1..Cap
  BY TableTypes, Bounds DEF TypeOK, AgeInv
<1>2. unproved' # 0
  BY <1>1, Bounds
<1>3. o.identity # "yes" /\ last_seen # Never /\ unproved' = unproved
  BY <1>2 DEF Observe
<1>4. ~Seen(o)
  BY <1>3, WhoIsSeen
<1>5. ~HeldByShape(o)
  <2> SUFFICES ASSUME HeldByShape(o) PROVE FALSE
    OBVIOUS
  <2>1. last_full \in 0..Cap /\ last_full < ObscuredRange[2]
    BY HeldIsRecent
  <2>2. unproved <= last_full
    BY <2>1, Bounds DEF AgeInv, NoYounger
  <2> QED BY <1>1, <1>3, <2>1, <2>2, Bounds
<1>6. NoteRecent # Never /\ NoteRecent \in 0..Cap
  BY <1>3, NoteRecentIs DEF Ages
<1>7. cfg.secure_away <= NoteRecent
  <2>1. CASE NoteRecent = last_seen
    BY <1>1, <1>3, <1>6, <2>1, Bounds DEF AgeInv
  <2>2. CASE NoteRecent = recent
    BY <1>1, <1>3, <1>6, <2>2, Bounds DEF AgeInv, NoYounger
  <2> QED BY <2>1, <2>2, NoteRecentIs
<1> QED BY <1>4, <1>5, <1>6, <1>7, AwayByAge

(* A stranger who was read six times in a row is not taken for the user.    *)
LEMMA ObserveStranger ==
  ASSUME TypeOK, CountInv, NEW o, LookFacts(o), Observe(o)
  PROVE  StrangerIsReported'
<1> SUFFICES ASSUME mode = "default", Strangers(o) >= 6
             PROVE  NextState(o) = "Stranger"
  BY DEF StrangerIsReported, Judged, Observe
<1>1. o.face /\ o.attentive
  BY DEF Strangers
<1>2. ~IdentityOk(o)
  <2> SUFFICES ASSUME IdentityOk(o) PROVE FALSE
    OBVIOUS
  <2>1. /\ identity_ok' /\ identity_fails' = Fails(o) /\ ~locked_by_presence'
        /\ strangers' = Strangers(o) /\ Since' = tick % 3
    BY DEF Observe, CountInv, Since
  <2>2. Fails(o) < 2 /\ Strangers(o) <= 3 * Fails(o) + (tick % 3)
    BY <2>1, ObserveCount DEF CountInv
  <2>3. Fails(o) \in 0..2 /\ Strangers(o) \in 0..6 /\ tick % 3 \in 0..2
    BY FailsType, StrangersType DEF TypeOK
  <2> QED BY <2>2, <2>3
<1>3. Seen(o) /\ ~Missed(o)
  BY <1>1 DEF Seen, Missed
<1> QED BY <1>2, <1>3 DEF NextState

(* A look is judged by Observe alone, and what was judged stays until it is  *)
(* published.                                                               *)
LEMMA StepJudged ==
  ASSUME TypeOK, AgeInv, CountInv, JudgedInv, [Next]_vars
  PROVE  JudgedInv'
<1>1. CASE Look
  BY <1>1, LookTypes, ObserveSecure, ObserveObscured, ObserveStranger DEF Look, JudgedInv
<1>2. CASE UNCHANGED vars
  BY <1>2 DEF vars, world, watched, history, JudgedInv, SecureNeedsTheUser,
              ObscuredIsBounded, StrangerIsReported, Judged
<1>3. CASE pc' # "judged"
  BY <1>3 DEF JudgedInv, SecureNeedsTheUser, ObscuredIsBounded, StrangerIsReported, Judged
<1>4. Tick \/ TickLocked \/ (\E by_face \in BOOLEAN : TickResumes(by_face)) \/ LookFails
         \/ LockWorks \/ NoLock \/ Wait => pc' # "judged"
  BY DEF Tick, TickLocked, TickResumes, Sleep, LookFails, LockWorks, NoLock, Publish, Wait
<1>5. Restart \/ set_presence_mode \/ Recent \/ RequestLocks \/ Unlock \/ Sit => pc' # "judged"
  BY DEF Restart, set_presence_mode, Recent, RequestLocks, Unlock, Sit, Still
<1> QED BY <1>1, <1>2, <1>3, <1>4, <1>5 DEF Next, Watching

(* A desk settled in the default mode is judged by the memory of it.        *)
LEMMA DeskIsKept ==
  ASSUME DeskInv, CountInv
  PROVE  UserKeepsTheDesk
BY DEF DeskInv, CountInv, UserKeepsTheDesk, Judged
-------------------------------------------------------------------------------
(* The watch starts with nobody seen and nothing counted.                   *)
LEMMA InitIInv ==
  ASSUME Init
  PROVE  IInv /\ JudgedInv
<1>1. TypeOK
  <2>1. {reference, record, locked_by_presence, identity_ok, settled} \subseteq BOOLEAN
    BY DEF Init
  <2>2. identify \in BOOLEAN
    BY DEF Init
  <2>6. tick \in 0..5 /\ identity_fails \in 0..2 /\ strangers \in 0..6
    BY DEF Init
  <2>3. /\ last_seen \in Ages /\ last_full \in Ages /\ recent \in Ages
        /\ gone \in Ages /\ unproved \in Ages
    BY Bounds DEF Init, Ages
  <2>4. state \in States /\ last \in States \cup {"none"}
    BY DEF Init, States
  <2>5. /\ cfg \in Configs /\ now_mode \in Modes /\ mode \in Modes
        /\ chair \in {"user", "hidden", "stranger", "empty"} /\ session \in {"open", "locked"}
        /\ pc \in {"tick", "look", "judged"}
    BY DEF Init
  <2> QED BY <2>1, <2>2, <2>3, <2>4, <2>5, <2>6 DEF TypeOK
<1>2. AgeInv
  BY Bounds DEF Init, AgeInv, NoYounger
<1>3. DeskInv
  BY DEF Init, DeskInv
<1>4. CountInv
  <2>1. pc = "tick" /\ tick = 0 /\ identity_fails = 0 /\ strangers = 0
    BY DEF Init
  <2>2. Since = 0
    BY <2>1 DEF Since
  <2> QED BY <2>1, <2>2 DEF CountInv
<1>5. JudgedInv
  BY DEF Init, JudgedInv, SecureNeedsTheUser, ObscuredIsBounded, StrangerIsReported, Judged
<1> QED BY <1>1, <1>2, <1>3, <1>4, <1>5 DEF IInv

(* The inductive invariant holds throughout.                                *)
LEMMA Invariance == Spec => [](IInv /\ JudgedInv)
<1>1. IInv /\ JudgedInv /\ [Next]_vars => IInv' /\ JudgedInv'
  BY StepTyped, StepAges, StepDesk, StepCount, StepJudged DEF IInv
<1> QED BY <1>1, InitIInv, PTL DEF Spec

(* Every variable of the watch keeps its type.                              *)
THEOREM WatchTypeCorrect == Spec => []TypeOK
BY Invariance, PTL DEF IInv

(* In the secure mode nobody else keeps the session open: a look that comes  *)
(* the away time after the user was last met ends in a lock (watch.rs).     *)
THEOREM SecureModeNeedsTheUser == Spec => []SecureNeedsTheUser
BY Invariance, PTL DEF JudgedInv

(* In the secure mode a hidden face is good for the obscured time, clamped   *)
(* into its range, and the away time after it, whatever the file says.      *)
THEOREM HiddenFaceIsBounded == Spec => []ObscuredIsBounded
BY Invariance, PTL DEF JudgedInv

(* In the default mode with no obscured time, a confirmed user who stays in  *)
(* the chair is never found away.                                           *)
THEOREM TheDeskIsKept == Spec => []UserKeepsTheDesk
<1>1. IInv => UserKeepsTheDesk
  BY DeskIsKept DEF IInv
<1> QED BY <1>1, Invariance, PTL

(* In the default mode the sixth readable look at a stranger reports one.    *)
THEOREM TheStrangerIsReported == Spec => []StrangerIsReported
BY Invariance, PTL DEF JudgedInv
=============================================================================
