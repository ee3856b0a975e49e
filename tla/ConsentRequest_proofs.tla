------------------------ MODULE ConsentRequest_proofs ------------------------
(* Proofs about the consent request at the window, for every number of      *)
(* requests, every set of minutes the card may offer, every number of nods  *)
(* asked for, and with or without an away time; then about what its face    *)
(* checks are held by (Throttles).                                          *)
EXTENDS ConsentRequest, Throttles, FiniteSetTheorems, SequenceTheorems, WellFoundedInduction,
        TLAPS

(* Where a nod may still be counted, the number asked for is not reached:   *)
(* with this the bound on nods is inductive.                                *)
Tight == {"nod_poll", "nod_rider", "nod_frame", "show_check", "show_send", "show_wait"}
NodsLeft == pc \in {"nod_poll", "nod_rider", "nod_frame"} \/ Showing("nod") => nods < NodsNeeded

(* The type invariant, with the records' types under names of their own.    *)
LiveType == [acked : BOOLEAN, answer : Answers, lane : {"none", "sudo", "polkit"},
             face : BOOLEAN, minutes : Minutes \cup {NoName}, shown : BOOLEAN]
DialogType == [acked : BOOLEAN, open : BOOLEAN]
CardType == [token : 0 .. MaxRequests, state : {"none", "pending", "final"},
             names : Minutes \cup {NoName}]

Typed == /\ pc \in Places /\ token \in 0 .. MaxRequests /\ sudo \in BOOLEAN
         /\ live \in LiveType /\ gone \in BOOLEAN /\ hold \in BOOLEAN
         /\ dialog \in DialogType /\ card \in CardType
         /\ show \in DOMAIN Then /\ gesture \in Gestures /\ nods \in 0 .. NodsNeeded
         /\ verdict \in {"none", "allow", "refuse"} /\ granted \in Minutes \cup {NoName}
         /\ loose \in BOOLEAN /\ heard \subseteq 1 .. MaxRequests /\ nodNames \subseteq Minutes \cup {NoName}

(* The two spellings of the type invariant agree.                           *)
LEMMA TypedIsTypeOK == Typed <=> TypeOK
  BY DEF TypeOK, Typed, LiveType, DialogType, CardType

(* What the code reads of the live record, and what it writes, has its type *)
(* (ConsentState::Live, Dialog and the payloads of window.rs).              *)
LEMMA LiveFields ==
  ASSUME live \in LiveType
  PROVE  /\ live.acked \in BOOLEAN /\ live.shown \in BOOLEAN /\ live.face \in BOOLEAN
         /\ live.minutes \in Minutes \cup {NoName} /\ live.answer \in Answers
  BY DEF LiveType

(* What is drawn, with one component changed.                             *)
LEMMA LiveUpdates ==
  ASSUME live \in LiveType
  PROVE  /\ \A b \in BOOLEAN : [live EXCEPT !.acked = b] \in LiveType
         /\ \A a \in Answers : [live EXCEPT !.answer = a] \in LiveType
         /\ \A b \in BOOLEAN : [live EXCEPT !.face = b] \in LiveType
         /\ \A m \in Minutes \cup {NoName} : [live EXCEPT !.minutes = m, !.shown = FALSE] \in LiveType
         /\ \A l \in {"sudo", "polkit"} : [live EXCEPT !.lane = l, !.shown = TRUE] \in LiveType
  BY DEF LiveType

(* Nothing drawn.                                                         *)
LEMMA EmptyLiveType == EmptyLive \in LiveType
  BY DEF EmptyLive, LiveType, Answers

(* The window's side, with one component changed.                         *)
LEMMA DialogUpdates ==
  ASSUME dialog \in DialogType
  PROVE  /\ \A b \in BOOLEAN : [dialog EXCEPT !.acked = b] \in DialogType
         /\ \A b \in BOOLEAN : [dialog EXCEPT !.open = b] \in DialogType
         /\ dialog.acked \in BOOLEAN /\ dialog.open \in BOOLEAN
  BY DEF DialogType

(* No card.                                                               *)
LEMMA NoCardType == NoCard \in CardType
  BY RequestAssumption DEF CardType, NoCard, NoName

(* A card on the screen.                                                  *)
LEMMA ACardType ==
  ASSUME NEW t \in 0 .. MaxRequests, NEW s \in {"none", "pending", "final"}, NEW n \in Minutes \cup {NoName}
  PROVE  [token |-> t, state |-> s, names |-> n] \in CardType
  BY DEF CardType

(* What a summon was asked to draw,                                       *)
LEMMA PayloadType ==
  ASSUME Typed
  PROVE  Pending(live.minutes) \in CardType /\ Pending(RiderOf(live)) \in CardType
         /\ FinalCard \in CardType
  BY LiveFields, ACardType DEF Pending, FinalCard, RiderOf, Typed, NoName

(* and what is up when it failed, is a card or none;                      *)
LEMMA FailureType ==
  ASSUME Typed, NEW c \in CardType, SummonFails(c)
  PROVE  card' \in CardType
  BY NoCardType DEF SummonFails, Typed

(* so is a card sent again, by a turn of the loop or by the heartbeat,    *)
LEMMA ResendType ==
  ASSUME Typed, Resend(live)
  PROVE  card' \in CardType
  BY PayloadType, FailureType DEF Resend

(* (the heartbeat sends one when the window is open),                     *)
LEMMA HeartbeatType ==
  ASSUME Typed, Heartbeat
  PROVE  card' \in CardType
  BY ResendType DEF Heartbeat, Typed

(* what is left when the window is taken down,                            *)
LEMMA HideType ==
  ASSUME Typed, Hide
  PROVE  card' \in CardType /\ dialog' \in DialogType /\ loose' \in BOOLEAN
  BY NoCardType, DialogUpdates DEF Hide, LetGo, Typed

(* and the card that says how it ended.                                   *)
LEMMA FinalType ==
  ASSUME Typed, ShowFinal
  PROVE  card' \in CardType /\ dialog' \in DialogType /\ loose' \in BOOLEAN
  BY PayloadType, FailureType, DialogUpdates DEF ShowFinal, LetGo, Typed

(* Where the thread can be when a show has returned.                        *)
OnScreen == {"load", "nod_poll", "confirm", "hold_poll", "round", "attend_poll", "park_poll", "top"}

(* Dialog::show_inner: only the nod card opens the nod window, and when that *)
(* card cannot be vouched for the round ends without a window.              *)
LEMMA ThenPlaces ==
  ASSUME show \in DOMAIN Then
  PROVE  Then[show] \in OnScreen /\ (Then[show] = "nod_poll" <=> show = "nod")
  BY DEF Then, OnScreen

(* After a card was shown the thread polls, and after the nod card for a nod; *)
LEMMA ShowDoneGoes ==
  ASSUME Typed, ShowDone
  PROVE  /\ pc' \in OnScreen /\ (pc' = "nod_poll" <=> show = "nod")
         /\ gesture' = gesture /\ gesture' \in Gestures
  BY ThenPlaces DEF ShowDone, Goto, Typed

(* after one that was not, it looks elsewhere, decides or is over.        *)
LEMMA ShowFailedGoes ==
  ASSUME Typed, ShowFailed
  PROVE  /\ pc' \in (OnScreen \ {"nod_poll"}) \cup {"over", "decide"}
         /\ gesture' \in Gestures
         /\ show = "nod" => pc' = "decide" /\ gesture' = "nowindow"
<1>1. CASE show = "begin"
  BY <1>1 DEF ShowFailed, Goto, Typed
<1>2. CASE show = "nod"
  BY <1>2 DEF ShowFailed, Goto, Gestures
<1>3. CASE show \notin {"begin", "nod"}
  BY <1>3, ThenPlaces DEF ShowFailed, ShowDone, Goto, Typed
<1> QED BY <1>1, <1>2, <1>3

(* Showing a card starts by checking the one shown.                       *)
LEMMA StartShowGoes ==
  ASSUME Typed, NEW s \in {"begin", "nod", "confirming", "password", "again", "ask", "waiting", "locked", "welcome"}, StartShow(s)
  PROVE  /\ pc' = "show_check" /\ show' = s /\ show' \in DOMAIN Then
         /\ UNCHANGED <<dialog, card, loose>>
  BY DEF StartShow, Goto, Then

(* A poll of the record goes to one of two places and keeps every type.     *)
LEMMA PollGoes ==
  ASSUME Typed, NEW there \in Places \ Tight, NEW otherwise \in Places \ {"show_check", "show_send", "show_wait"},
         Poll(there, otherwise),
         otherwise \in Tight => NodsLeft /\ pc = "nod_poll"
  PROVE  Typed' /\ NodsLeft'
<1>1. live' \in LiveType
  BY LiveUpdates DEF Poll, Take, Typed, Answers
<1>2. pc' \in {there, otherwise} /\ gesture' \in Gestures
  BY DEF Poll, Goto, Gestures, Typed
<1>3. NodsLeft'
  BY <1>2 DEF Poll, NodsLeft, Tight, Showing, counted
<1> QED
  BY <1>1, <1>2, <1>3 DEF Poll, Typed, request, fate, screen, counted

(* Every step keeps the types and the bound on nods.                        *)
LEMMA TypeStep == Typed /\ NodsLeft /\ [Next]_vars => Typed' /\ NodsLeft'
<1> SUFFICES ASSUME Typed, NodsLeft, [Next]_vars PROVE Typed' /\ NodsLeft'
  OBVIOUS
<1> USE DEF At, Goto, record, screen, counted, fate, request, NodsLeft, Showing
<1>1. CASE ShowCheck
  <2>1. live' \in LiveType
    BY <1>1, LiveUpdates, LiveFields DEF ShowCheck, Typed
  <2>2. dialog' \in DialogType
    BY <1>1, DialogUpdates DEF ShowCheck, Typed
  <2> QED
    BY <1>1, <2>1, <2>2 DEF ShowCheck, Typed, Places
<1>2. CASE ShowSend
  <2>1. live' \in LiveType
    BY <1>2, LiveUpdates DEF ShowSend, MarkShown, Lane, Typed
  <2>2. card' \in CardType
    BY <1>2, PayloadType, FailureType DEF ShowSend
  <2>3. dialog' \in DialogType /\ loose' \in BOOLEAN
    BY <1>2, DialogUpdates DEF ShowSend, Typed
  <2>4. pc' \in Places /\ gesture' \in Gestures /\ NodsLeft'
    <3>1. CASE ShowDone
      BY <1>2, <3>1, ShowDoneGoes DEF ShowSend, OnScreen, Places
    <3>2. CASE ShowFailed
      BY <1>2, <3>2, ShowFailedGoes DEF ShowSend, OnScreen, Places
    <3>3. CASE Goto("show_wait") /\ UNCHANGED gesture
      BY <1>2, <3>3 DEF ShowSend, Places, Typed
    <3> QED BY <1>2, <3>1, <3>2, <3>3 DEF ShowSend
  <2> QED
    BY <1>2, <2>1, <2>2, <2>3, <2>4 DEF ShowSend, Typed
<1>3. CASE ShowAcked
  <2>1. dialog' \in DialogType
    BY <1>3, DialogUpdates DEF ShowAcked, Typed
  <2>2. pc' \in Places /\ gesture' \in Gestures /\ NodsLeft'
    BY <1>3, ShowDoneGoes DEF ShowAcked, OnScreen, Places
  <2> QED
    BY <1>3, <2>1, <2>2 DEF ShowAcked, Typed
<1>4. CASE ShowUnacked
  <2>1. dialog' \in DialogType
    BY <1>4, DialogUpdates DEF ShowUnacked, Typed
  <2>2. pc' \in Places /\ gesture' \in Gestures /\ NodsLeft'
    BY <1>4, ShowFailedGoes DEF ShowUnacked, OnScreen, Places
  <2> QED
    BY <1>4, <2>1, <2>2 DEF ShowUnacked, Typed
<1>5. CASE Load
  <2>1. card' \in CardType /\ dialog' \in DialogType /\ loose' \in BOOLEAN
    BY <1>5, HideType DEF Load, Typed
  <2> QED
    BY <1>5, <2>1 DEF Load, Typed, Places
<1>6. CASE Top
  BY <1>6 DEF Top, Typed, Places
<1>7. CASE RoundTop
  BY <1>7, StartShowGoes DEF RoundTop, ToLock, Typed, Places, Gestures
<1>8. CASE ScanPoll
  BY <1>8, PollGoes DEF ScanPoll, Places, Tight
<1>9. CASE ScanFrame
  BY <1>9 DEF ScanFrame, Typed, Places, Gestures
<1>10. CASE Matched
  <2>1. live' \in LiveType
    BY <1>10, LiveUpdates DEF Matched, Typed
  <2>2. 0 \in 0 .. NodsNeeded /\ 0 < NodsNeeded
    BY RequestAssumption
  <2>3. pc' = "show_check" /\ show' \in DOMAIN Then /\ UNCHANGED <<dialog, card, loose>>
    BY <1>10, StartShowGoes DEF Matched
  <2> QED
    BY <1>10, <2>1, <2>2, <2>3 DEF Matched, Typed, Places
<1>11. CASE NodPoll
  BY <1>11, PollGoes DEF NodPoll, Places, Tight
<1>12. CASE NodRider
  BY <1>12 DEF NodRider, Typed, Places, Gestures
<1>13. CASE NodFrame
  <2>1. CASE \E present \in BOOLEAN : FaceSeen(present)
    <3>1. PICK present \in BOOLEAN : FaceSeen(present)
      BY <2>1
    <3>2. live' \in LiveType
      BY <3>1, LiveUpdates DEF FaceSeen, Typed
    <3>3. card' \in CardType
      BY <3>1, ResendType DEF FaceSeen, Typed
    <3>4. nods' \in 0 .. NodsNeeded /\ nods' < NodsNeeded /\ nodNames' \subseteq Minutes \cup {NoName}
      BY <1>13, <3>1, RequestAssumption DEF NodFrame, FaceSeen, Typed
    <3> QED
      BY <1>13, <3>1, <3>2, <3>3, <3>4 DEF NodFrame, FaceSeen, Typed, Places
  <2>2. CASE Nod
    <3>1. nods' \in 0 .. NodsNeeded /\ (pc' = "nod_poll" => nods' < NodsNeeded)
      BY <1>13, <2>2, RequestAssumption DEF NodFrame, Nod, Typed
    <3>2. nodNames' \subseteq Minutes \cup {NoName}
      BY <2>2 DEF Nod, Typed, CardType
    <3>3. pc' \in {"nod_drop", "nod_poll"} /\ gesture' \in Gestures
      BY <2>2 DEF Nod, Typed, Gestures
    <3> QED
      BY <1>13, <2>2, <3>1, <3>2, <3>3 DEF NodFrame, Nod, Typed, Places
  <2>3. CASE WindowEnds
    BY <1>13, <2>3 DEF NodFrame, WindowEnds, Typed, Places, Gestures
  <2> QED
    BY <1>13, <2>1, <2>2, <2>3 DEF NodFrame
<1>14. CASE NodDrop
  <2>1. live' \in LiveType
    BY <1>14, LiveUpdates DEF NodDrop, FaceMarkDrop, Typed
  <2>2. /\ pc' \in {"match", "decide", "show_check"} /\ show' \in DOMAIN Then
        /\ (pc' = "show_check" => show' = "confirming")
        /\ UNCHANGED <<dialog, card, loose>>
    BY <1>14, StartShowGoes DEF NodDrop, Typed
  <2> QED
    BY <1>14, <2>1, <2>2 DEF NodDrop, Typed, Places
<1>15. CASE Confirm
  BY <1>15 DEF Confirm, Typed, Places, Gestures
<1>16. CASE Decide
  <2>1. /\ pc' \in {"over", "lock", "round", "finish", "show_check"} /\ show' \in DOMAIN Then
        /\ (pc' = "show_check" => show' # "nod")
        /\ UNCHANGED <<dialog, card, loose>>
    BY <1>16, StartShowGoes DEF Decide, ToLock, Typed
  <2>2. gesture' \in Gestures /\ hold' \in BOOLEAN
    BY <1>16 DEF Decide, ToLock, Charge, Typed, Gestures
  <2> QED
    BY <1>16, <2>1, <2>2 DEF Decide, Typed, Places
<1>17. CASE AttendPoll
  <2>1. live' \in LiveType
    BY <1>17, LiveUpdates DEF AttendPoll, Typed, Answers
  <2> QED
    BY <1>17, <2>1 DEF AttendPoll, Typed, Places
<1>18. CASE AttendLook
  <2>1. card' \in CardType
    BY <1>18, HeartbeatType DEF AttendLook, ToLock, Typed
  <2> QED
    BY <1>18, <2>1 DEF AttendLook, ToLock, Typed, Places, Gestures
<1>19. CASE HoldPoll
  BY <1>19 DEF HoldPoll, Typed, Places
<1>20. CASE HoldLook
  BY <1>20 DEF HoldLook, ToLock, Typed, Places, Gestures
<1>21. CASE Lock
  <2>1. /\ pc' \in {"park_poll", "show_check"} /\ show' \in DOMAIN Then
        /\ (pc' = "show_check" => show' # "nod")
        /\ UNCHANGED <<dialog, card, loose>>
    BY <1>21, StartShowGoes DEF Lock, Typed
  <2> QED
    BY <1>21, <2>1 DEF Lock, Typed, Places, Gestures
<1>22. CASE ParkPoll
  BY <1>22, PollGoes DEF ParkPoll, Places, Tight
<1>23. CASE ParkWait
  <2>1. card' \in CardType
    BY <1>23, HeartbeatType, StartShowGoes DEF ParkWait, Typed
  <2>2. pc' \in {"park_poll", "show_check"} /\ show' \in DOMAIN Then /\ UNCHANGED <<dialog, loose>>
        /\ (pc' = "show_check" => show' # "nod")
    BY <1>23, StartShowGoes DEF ParkWait, Typed
  <2> QED
    BY <1>23, <2>1, <2>2 DEF ParkWait, Typed, Places
<1>24. CASE Finish
  <2>1. live' \in LiveType
    <3>1. live \in LiveType /\ (live' = live \/ live' = DropRider)
      BY <1>24 DEF Finish, Approve, Refuse, Typed
    <3>2. DropRider \in LiveType
      BY <3>1, LiveUpdates DEF DropRider
    <3> QED
      BY <3>1, <3>2
  <2>2. Hide \/ ShowFinal
    BY <1>24 DEF Finish, Approve, Refuse
  <2>3. card' \in CardType /\ dialog' \in DialogType /\ loose' \in BOOLEAN
    BY <2>2, HideType, FinalType
  <2>4. pc' \in {"grant", "over"} /\ hold' \in BOOLEAN /\ verdict' \in {"none", "allow", "refuse"}
    BY <1>24 DEF Finish, Approve, Refuse, Charge, Typed
  <2> QED
    BY <1>24, <2>1, <2>3, <2>4 DEF Finish, Typed, Places
<1>25. CASE Grant
  <2>1. live' \in LiveType /\ granted' \in Minutes \cup {NoName}
    BY <1>25, LiveUpdates, LiveFields DEF Grant, TakePasswordless, DropRider, NoName, Typed
  <2> QED
    BY <1>25, <2>1 DEF Grant, Typed, Places
<1>26. CASE End
  BY <1>26, HideType, EmptyLiveType DEF End, Typed, Places
<1>27. ASSUME NEW viaSudo \in BOOLEAN, NEW locked \in BOOLEAN, Begin(viaSudo, locked)
       PROVE  Typed' /\ NodsLeft'
  <2>1. dialog' \in DialogType /\ live' \in LiveType
    BY <1>27, EmptyLiveType DEF Begin, DialogType
  <2>2. token' \in 0 .. MaxRequests /\ nods' \in 0 .. NodsNeeded
    BY <1>27, RequestAssumption DEF Begin, Typed
  <2>3. gesture' \in Gestures /\ pc' \in {"load", "show_check"} /\ show' = "begin" /\ show' \in DOMAIN Then
    BY <1>27 DEF Begin, Gestures, Then
  <2> QED
    BY <1>27, <2>1, <2>2, <2>3 DEF Begin, Typed, Places
<1>28. CASE Message
  <2>1. PICK t \in 1 .. MaxRequests :
          \/ Ack(t)
          \/ \E a \in Answers \ {"none"} : Answer(t, a)
          \/ \E m \in Minutes : Arm(t, m)
    BY <1>28 DEF Message
  <2>2. \E rec \in LiveType : Write(t, rec)
    <3>0. live \in LiveType
      BY DEF Typed
    <3>1. CASE Ack(t)
      <4>1. [live EXCEPT !.acked = TRUE] \in LiveType
        BY <3>0, LiveUpdates
      <4> QED
        BY <3>1, <4>1 DEF Ack
    <3>2. CASE \E a \in Answers \ {"none"} : Answer(t, a)
      <4>1. PICK a \in Answers : Answer(t, a)
        BY <3>2
      <4>2. [live EXCEPT !.answer = a] \in LiveType
        BY <3>0, LiveUpdates
      <4> QED
        BY <4>1, <4>2 DEF Answer
    <3>3. CASE \E m \in Minutes : Arm(t, m)
      <4>1. PICK m \in Minutes : Arm(t, m)
        BY <3>3
      <4>2. [live EXCEPT !.minutes = m, !.shown = FALSE] \in LiveType
        BY <3>0, LiveUpdates
      <4> QED
        BY <4>1, <4>2 DEF Arm
    <3> QED
      BY <2>1, <3>1, <3>2, <3>3
  <2>3. /\ live' \in LiveType /\ heard' = heard \cup {t}
        /\ UNCHANGED <<pc, request, gone, hold, screen, gesture, counted, fate>>
    BY <2>2 DEF Write
  <2> QED
    BY <2>3 DEF Typed
<1>29. CASE HangUp \/ HoldEnds \/ LockScreenFails \/ UNCHANGED vars
  BY <1>29 DEF HangUp, HoldEnds, LockScreenFails, vars, Typed
<1> QED
  BY <1>1, <1>2, <1>3, <1>4, <1>5, <1>6, <1>7, <1>8, <1>9, <1>10, <1>11, <1>12, <1>13, <1>14, <1>15,
     <1>16, <1>17, <1>18, <1>19, <1>20, <1>21, <1>22, <1>23, <1>24, <1>25, <1>26, <1>27, <1>28, <1>29
     DEF Next, Daemon

(* Why minutes are granted to sudo only: they are armed in the sudo lane,   *)
(* the lane is the caller's own, and the grant follows an approval.         *)
Granting ==
  /\ live.minutes # NoName => live.lane = "sudo"
  /\ live.lane = "sudo" => sudo
  /\ At("grant") => verdict = "allow"
  /\ granted # NoName => At("over") \/ At("idle")
  /\ GrantNeedsSudo

(* Granting is inductive.                                                   *)
LEMMA GrantingStep == Typed /\ Granting /\ [Next]_vars => Granting'
<1> SUFFICES ASSUME Typed, Granting, [Next]_vars PROVE Granting'
  OBVIOUS
<1> USE DEF Granting, GrantNeedsSudo, At, Goto, request, fate
<1>1. CASE ShowCheck
  BY <1>1 DEF ShowCheck, Typed, LiveType
<1>2. CASE ShowSend
  <2>1. pc' # "grant"
    BY <1>2, ShowDoneGoes, ShowFailedGoes DEF ShowSend, OnScreen
  <2> QED
    BY <1>2, <2>1 DEF ShowSend, MarkShown, Lane, Typed, LiveType
<1>3. CASE ShowAcked \/ ShowUnacked
  BY <1>3, ShowDoneGoes, ShowFailedGoes DEF ShowAcked, ShowUnacked, OnScreen, record
<1>4. CASE ScanPoll \/ NodPoll \/ ParkPoll
  BY <1>4 DEF ScanPoll, NodPoll, ParkPoll, Poll, Take, Typed, LiveType
<1>5. CASE Load \/ Top \/ RoundTop \/ ScanFrame \/ NodRider \/ Confirm
  BY <1>5 DEF Load, Top, RoundTop, ToLock, StartShow, ScanFrame, NodRider, Confirm, record
<1>6. CASE HoldPoll \/ HoldLook \/ AttendLook \/ Lock \/ ParkWait
  BY <1>6 DEF HoldPoll, HoldLook, AttendLook, Lock, ParkWait, ToLock, StartShow, record
<1>7. CASE Matched \/ NodDrop
  BY <1>7 DEF Matched, NodDrop, FaceMarkDrop, StartShow, Typed, LiveType
<1>8. CASE NodFrame
  BY <1>8 DEF NodFrame, FaceSeen, Nod, WindowEnds, Typed, LiveType
<1>9. CASE Decide
  BY <1>9 DEF Decide, ToLock, StartShow, record
<1>10. CASE AttendPoll
  BY <1>10 DEF AttendPoll, Typed, LiveType
<1>11. CASE Finish
  BY <1>11 DEF Finish, Approve, Refuse, DropRider, NoName, Typed, LiveType
<1>12. CASE Grant
  BY <1>12 DEF Grant, TakePasswordless, DropRider, NoName, Typed, LiveType
<1>13. CASE End
  BY <1>13 DEF End, EmptyLive
<1>14. CASE \E viaSudo, locked \in BOOLEAN : Begin(viaSudo, locked)
  BY <1>14 DEF Begin, EmptyLive
<1>15. CASE Message
  <2>1. /\ live'.lane = live.lane /\ (live'.minutes = live.minutes \/ live.lane = "sudo")
        /\ UNCHANGED <<pc, request, fate>>
    BY <1>15 DEF Message, Ack, Answer, Arm, Write, Typed, LiveType
  <2> QED
    BY <2>1
<1>16. CASE HangUp \/ HoldEnds \/ LockScreenFails \/ UNCHANGED vars
  BY <1>16 DEF HangUp, HoldEnds, LockScreenFails, vars, record
<1> QED
  BY <1>1, <1>2, <1>3, <1>4, <1>5, <1>6, <1>7, <1>8, <1>9, <1>10, <1>11, <1>12, <1>13, <1>14, <1>15, <1>16
     DEF Next, Daemon

(* ArmOnlyAtNods is inductive by itself: every way out of the window passes *)
(* the place where the mark is dropped.                                     *)
LEMMA ArmStep == Typed /\ ArmOnlyAtNods /\ [Next]_vars => ArmOnlyAtNods'
<1> SUFFICES ASSUME Typed, ArmOnlyAtNods, [Next]_vars PROVE ArmOnlyAtNods'
  OBVIOUS
<1> USE DEF ArmOnlyAtNods, NodWindow, Showing, At, Goto, screen
<1>1. CASE ShowCheck
  BY <1>1 DEF ShowCheck, Typed, LiveType
<1>2. CASE ShowSend
  <2>1. live'.face = live.face
    BY <1>2 DEF ShowSend, MarkShown, Typed, LiveType
  <2> QED
    BY <1>2, <2>1, ShowDoneGoes, ShowFailedGoes DEF ShowSend
<1>3. CASE ShowAcked \/ ShowUnacked
  BY <1>3, ShowDoneGoes, ShowFailedGoes DEF ShowAcked, ShowUnacked, record
<1>4. CASE ScanPoll \/ NodPoll \/ ParkPoll
  BY <1>4 DEF ScanPoll, NodPoll, ParkPoll, Poll, Take, Typed, LiveType
<1>5. CASE Load \/ Top \/ RoundTop \/ ScanFrame \/ NodRider \/ Confirm
  BY <1>5 DEF Load, Top, RoundTop, ToLock, StartShow, ScanFrame, NodRider, Confirm, record
<1>6. CASE HoldPoll \/ HoldLook \/ AttendLook \/ Lock \/ ParkWait
  BY <1>6 DEF HoldPoll, HoldLook, AttendLook, Lock, ParkWait, ToLock, StartShow, record
<1>7. CASE Matched \/ NodDrop
  BY <1>7 DEF Matched, NodDrop, FaceMarkDrop, StartShow, Typed, LiveType
<1>8. CASE NodFrame
  BY <1>8 DEF NodFrame, FaceSeen, Nod, WindowEnds
<1>9. CASE Decide
  BY <1>9 DEF Decide, ToLock, StartShow, record
<1>10. CASE AttendPoll
  BY <1>10 DEF AttendPoll, Typed, LiveType
<1>11. CASE Finish \/ Grant
  BY <1>11 DEF Finish, Approve, Refuse, Grant, DropRider, Typed, LiveType
<1>13. CASE End
  BY <1>13 DEF End, EmptyLive
<1>14. CASE \E viaSudo, locked \in BOOLEAN : Begin(viaSudo, locked)
  BY <1>14 DEF Begin, EmptyLive
<1>15. CASE Message
  BY <1>15 DEF Message, Ack, Answer, Arm, Write, Typed, LiveType
<1>16. CASE HangUp \/ HoldEnds \/ LockScreenFails \/ UNCHANGED vars
  BY <1>16 DEF HangUp, HoldEnds, LockScreenFails, vars, record
<1> QED
  BY <1>1, <1>2, <1>3, <1>4, <1>5, <1>6, <1>7, <1>8, <1>9, <1>10, <1>11, <1>13, <1>14, <1>15, <1>16
     DEF Next, Daemon

(* An acknowledgement was sent by this request's card; the nod window runs  *)
(* only at an acknowledged card that is up; and a pending card of this      *)
(* request is one the daemon knows to be open, and so will hide, or one it  *)
(* has lost hold of.                                                        *)
Acknowledged ==
  /\ dialog.acked \/ live.acked => token \in heard
  /\ At("show_wait") => dialog.open /\ ~dialog.acked
  /\ pc \in NodWindow => dialog.open /\ dialog.acked
  /\ card.token <= token
  /\ card.state = "pending" /\ card.token = token => dialog.open \/ loose
  /\ At("idle") => ~dialog.open

(* Acknowledged is inductive.                                               *)
LEMMA AcknowledgedStep == Typed /\ Acknowledged /\ [Next]_vars => Acknowledged'
<1> SUFFICES ASSUME Typed, Acknowledged, [Next]_vars PROVE Acknowledged'
  OBVIOUS
<1> USE DEF Acknowledged, NodWindow, At, Goto, screen, request
<1>1. CASE ShowCheck
  BY <1>1 DEF ShowCheck, Typed, LiveType, DialogType
<1>2. CASE ShowSend
  <2>1. live'.acked = live.acked /\ UNCHANGED <<token, heard>>
    BY <1>2 DEF ShowSend, MarkShown, Typed, LiveType
  <2>0. token \in Nat
    BY RequestAssumption DEF Typed
  <2>2. CASE /\ card' = Pending(live.minutes) /\ dialog' = [dialog EXCEPT !.open = TRUE]
             /\ IF dialog.acked THEN ShowDone ELSE Goto("show_wait") /\ UNCHANGED gesture
    <3>1. dialog'.open = TRUE /\ dialog'.acked = dialog.acked
      BY <2>2 DEF Typed, DialogType
    <3>2. (dialog.acked \/ pc' = "show_wait") /\ pc' # "idle" /\ (pc' = "show_wait" => ~dialog.acked)
      BY <2>2, ShowDoneGoes DEF OnScreen
    <3>3. pc' \in NodWindow => dialog.acked
      BY <3>2
    <3>4. card'.token = token
      BY <2>2 DEF Pending
    <3> QED
      BY <2>0, <2>1, <3>1, <3>2, <3>3, <3>4
  <2>3. CASE /\ SummonFails(Pending(live.minutes)) /\ loose' = (loose \/ ~dialog.open)
             /\ UNCHANGED dialog /\ ShowFailed
    <3>1. pc' \notin NodWindow \cup {"show_wait", "idle"}
      BY <2>3, ShowFailedGoes DEF OnScreen
    <3>2. dialog'.open \/ loose'
      BY <2>3 DEF Typed, DialogType
    <3>3. card'.token <= token
      BY <2>0, <2>3, RequestAssumption DEF SummonFails, Pending, NoCard
    <3> QED
      BY <2>1, <2>3, <3>1, <3>2, <3>3
  <2> QED
    BY <1>2, <2>2, <2>3 DEF ShowSend
<1>3. CASE ShowAcked
  BY <1>3, ShowDoneGoes DEF ShowAcked, record, OnScreen, Typed, DialogType
<1>4. CASE ShowUnacked
  BY <1>4, ShowFailedGoes DEF ShowUnacked, record, OnScreen, Typed, DialogType
<1>5. CASE ScanPoll \/ NodPoll \/ ParkPoll
  BY <1>5 DEF ScanPoll, NodPoll, ParkPoll, Poll, Take, Typed, LiveType
<1>6. CASE Load
  BY <1>6, RequestAssumption DEF Load, Hide, LetGo, NoCard, record, Typed, DialogType
<1>7. CASE Top \/ RoundTop \/ ScanFrame \/ NodRider \/ Confirm
  BY <1>7 DEF Top, RoundTop, ToLock, StartShow, ScanFrame, NodRider, Confirm, record
<1>8. CASE HoldPoll \/ HoldLook \/ Lock
  BY <1>8 DEF HoldPoll, HoldLook, Lock, ToLock, StartShow, record
<1>9. CASE AttendLook
  <2>1. card'.token <= token /\ (UNCHANGED card \/ dialog.open)
    BY <1>9, RequestAssumption DEF AttendLook, Heartbeat, Resend, SummonFails, Pending, NoCard, ToLock, Typed
  <2> QED
    BY <1>9, <2>1 DEF AttendLook, ToLock, record
<1>10. CASE ParkWait
  <2>1. card'.token <= token /\ (UNCHANGED card \/ dialog.open)
    BY <1>10, RequestAssumption
       DEF ParkWait, Heartbeat, Resend, SummonFails, Pending, NoCard, StartShow, Typed
  <2> QED
    BY <1>10, <2>1 DEF ParkWait, StartShow, record
<1>11. CASE Matched \/ NodDrop
  BY <1>11 DEF Matched, NodDrop, FaceMarkDrop, StartShow, Typed, LiveType
<1>12. CASE NodFrame
  <2>3. card'.token <= token /\ dialog.open
    BY <1>12, RequestAssumption
       DEF NodFrame, FaceSeen, Nod, WindowEnds, Resend, SummonFails, Pending, NoCard, Typed
  <2>1. live'.acked = live.acked
    BY <1>12 DEF NodFrame, FaceSeen, Nod, WindowEnds, Typed, LiveType
  <2>2. pc' \in NodWindow
    BY <1>12 DEF NodFrame, FaceSeen, Nod, WindowEnds
  <2> QED
    BY <1>12, <2>1, <2>2, <2>3 DEF NodFrame
<1>13. CASE Decide
  BY <1>13 DEF Decide, ToLock, StartShow, record
<1>14. CASE AttendPoll
  BY <1>14 DEF AttendPoll, Typed, LiveType
<1>15. CASE Finish
  <2>1. Hide \/ ShowFinal
    BY <1>15 DEF Finish, Approve, Refuse
  <2>2. /\ dialog'.acked = dialog.acked /\ card'.token <= token
        /\ card'.state = "pending" /\ card'.token = token => dialog'.open \/ loose'
    BY <2>1, RequestAssumption
       DEF Hide, ShowFinal, LetGo, SummonFails, FinalCard, NoCard, Typed, DialogType
  <2>3. live'.acked = live.acked /\ UNCHANGED <<token, heard>> /\ pc' \in {"grant", "over"}
    BY <1>15 DEF Finish, Approve, Refuse, DropRider, Typed, LiveType
  <2> QED
    BY <2>2, <2>3
<1>16. CASE Grant
  BY <1>16 DEF Grant, DropRider, Typed, LiveType
<1>17. CASE End
  BY <1>17, RequestAssumption DEF End, Hide, LetGo, NoCard, EmptyLive, Typed, DialogType
<1>18. CASE \E viaSudo, locked \in BOOLEAN : Begin(viaSudo, locked)
  BY <1>18, RequestAssumption DEF Begin, EmptyLive, Typed, CardType
<1>19. CASE Message
  <2>1. heard' = heard \cup {token} /\ UNCHANGED <<pc, token, dialog, card, loose>>
    BY <1>19 DEF Message, Ack, Answer, Arm, Write, TokenMatches
  <2> QED
    BY <2>1
<1>20. CASE HangUp \/ HoldEnds \/ LockScreenFails \/ UNCHANGED vars
  BY <1>20 DEF HangUp, HoldEnds, LockScreenFails, vars, record
<1> QED
  BY <1>1, <1>2, <1>3, <1>4, <1>5, <1>6, <1>7, <1>8, <1>9, <1>10, <1>11, <1>12, <1>13, <1>14, <1>15,
     <1>16, <1>17, <1>18, <1>19, <1>20 DEF Next, Daemon

(* From the summon that drew the nod card to the end of the window, the     *)
(* card is this request's, if there is one, and says what the record does.  *)
CardAsMarked ==
  pc \in NodWindow \cup {"show_wait"} /\ live.minutes # NoName /\ live.shown
    /\ card.state = "pending"
  => card.names = live.minutes

(* No nod is counted before the nod window of this match.                   *)
Named ==
  /\ CardAsMarked
  /\ Showing("nod") => nodNames = {}
  /\ pc \in NodWindow \cup {"show_wait"} => card.state = "none" \/ card.token = token
  /\ NodsNameTheRider

(* Named is inductive.                                                      *)
LEMMA NamedStep == Typed /\ Named /\ [Next]_vars => Named'
<1> SUFFICES ASSUME Typed, Named, [Next]_vars PROVE Named'
  OBVIOUS
<1> USE DEF Named, CardAsMarked, NodsNameTheRider, Showing, NodWindow, At, Goto, screen, request, counted
<1>1. CASE ShowCheck
  BY <1>1 DEF ShowCheck, Typed, LiveType
<1>2. CASE ShowSend
  <2>1. live'.minutes = live.minutes /\ UNCHANGED <<token, show, nodNames>>
    BY <1>2 DEF ShowSend, MarkShown, Typed, LiveType
  <2>3. CASE card' = Pending(live.minutes) /\ (ShowDone \/ Goto("show_wait"))
    <3>1. card'.token = token /\ card'.names = live.minutes
      BY <2>3 DEF Pending
    <3> QED
      BY <1>2, <2>1, <2>3, <3>1, ShowDoneGoes DEF ShowSend, OnScreen
  <2>4. CASE ShowFailed
    BY <1>2, <2>1, <2>4, ShowFailedGoes DEF ShowSend, OnScreen
  <2> QED
    BY <1>2, <2>3, <2>4 DEF ShowSend
<1>3. CASE ShowAcked
  BY <1>3, ShowDoneGoes DEF ShowAcked, record, OnScreen
<1>4. CASE ShowUnacked
  BY <1>4, ShowFailedGoes DEF ShowUnacked, record, OnScreen
<1>5. CASE ScanPoll \/ NodPoll \/ ParkPoll
  BY <1>5 DEF ScanPoll, NodPoll, ParkPoll, Poll, Take, Typed, LiveType
<1>6. CASE Load
  BY <1>6 DEF Load, record
<1>7. CASE Top \/ RoundTop \/ ScanFrame \/ NodRider \/ Confirm
  BY <1>7 DEF Top, RoundTop, ToLock, StartShow, ScanFrame, NodRider, Confirm, record
<1>8. CASE HoldPoll \/ HoldLook \/ Lock
  BY <1>8 DEF HoldPoll, HoldLook, Lock, ToLock, StartShow, record
<1>9. CASE AttendLook
  BY <1>9 DEF AttendLook, ToLock, record
<1>10. CASE ParkWait
  BY <1>10 DEF ParkWait, StartShow, record
<1>11. CASE Matched \/ NodDrop
  BY <1>11 DEF Matched, NodDrop, FaceMarkDrop, StartShow, Typed, LiveType
<1>12. CASE NodFrame
  <2>1. live'.minutes = live.minutes /\ live'.shown = live.shown /\ UNCHANGED <<token, show>>
        /\ pc' \in NodWindow
    BY <1>12 DEF NodFrame, FaceSeen, Nod, WindowEnds, Typed, LiveType
  <2>2. /\ card'.state = "none" \/ card'.token = token
        /\ UNCHANGED card \/ (card'.state = "pending" /\ live.shown => card'.names = live.minutes)
    BY <1>12 DEF NodFrame, FaceSeen, Nod, WindowEnds, Resend, SummonFails, Pending, RiderOf, NoCard
  <2>3. \/ nodNames' \subseteq nodNames
        \/ nodNames' \subseteq nodNames \cup {card.names} /\ card.state = "pending"
    BY <1>12 DEF NodFrame, FaceSeen, Nod, WindowEnds
  <2>5. pc \in NodWindow
    BY <1>12 DEF NodFrame
  <2>4. CardAsMarked'
    BY <2>1, <2>2, <2>5
  <2>6. live.minutes # NoName /\ live.shown /\ card.state = "pending" => card.names = live.minutes
    BY <2>5
  <2>7. NodsNameTheRider'
    BY <2>1, <2>3, <2>5, <2>6
  <2> QED
    BY <2>1, <2>2, <2>4, <2>7
<1>13. CASE Decide
  BY <1>13 DEF Decide, ToLock, StartShow, record
<1>14. CASE AttendPoll
  BY <1>14 DEF AttendPoll, Typed, LiveType
<1>15. CASE Finish
  <2>1. pc' \in {"grant", "over"} /\ UNCHANGED <<token, show, nodNames>>
    BY <1>15 DEF Finish, Approve, Refuse
  <2>2. \/ UNCHANGED live
        \/ live'.minutes = NoName
    BY <1>15 DEF Finish, Approve, Refuse, DropRider, Typed, LiveType
  <2> QED
    BY <2>1, <2>2
<1>16. CASE Grant
  BY <1>16 DEF Grant, DropRider, Typed, LiveType
<1>17. CASE End
  BY <1>17 DEF End, EmptyLive
<1>18. CASE \E viaSudo, locked \in BOOLEAN : Begin(viaSudo, locked)
  BY <1>18 DEF Begin, EmptyLive
<1>19. CASE Message
  BY <1>19 DEF Message, Ack, Answer, Arm, Write, Typed, LiveType
<1>20. CASE HangUp \/ HoldEnds \/ LockScreenFails \/ UNCHANGED vars
  BY <1>20 DEF HangUp, HoldEnds, LockScreenFails, vars, record
<1> QED
  BY <1>1, <1>2, <1>3, <1>4, <1>5, <1>6, <1>7, <1>8, <1>9, <1>10, <1>11, <1>12, <1>13, <1>14, <1>15,
     <1>16, <1>17, <1>18, <1>19, <1>20 DEF Next, Daemon
-------------------------------------------------------------------------------
(* The daemon starts in a state of all these invariants.                    *)
LEMMA Starts == Init => Typed /\ NodsLeft /\ Granting /\ ArmOnlyAtNods
                        /\ Acknowledged /\ Named
<1> SUFFICES ASSUME Init
             PROVE  Typed /\ NodsLeft /\ Granting /\ ArmOnlyAtNods
                    /\ Acknowledged /\ Named
  OBVIOUS
<1>1. Typed
  <2>1. live \in LiveType /\ dialog \in DialogType /\ card \in CardType
    BY EmptyLiveType, NoCardType DEF Init, DialogType
  <2>2. token \in 0 .. MaxRequests /\ nods \in 0 .. NodsNeeded
    BY RequestAssumption DEF Init
  <2>3. show \in DOMAIN Then
    BY DEF Init, Then
  <2> QED
    BY <2>1, <2>2, <2>3 DEF Init, Typed, Places, Gestures
<1>2. NodsLeft /\ ArmOnlyAtNods
  BY DEF Init, NodsLeft, ArmOnlyAtNods, Showing, EmptyLive
<1>3. Granting
  BY DEF Init, Granting, GrantNeedsSudo, At, EmptyLive
<1>4. Acknowledged /\ Named
  BY DEF Init, Acknowledged, Named, CardAsMarked, NodsNameTheRider, NodWindow,
         Showing, At, EmptyLive, NoCard
<1> QED
  BY <1>1, <1>2, <1>3, <1>4

(* The types hold always; the other invariants are proved on top of them.   *)
LEMMA AlwaysTyped == Spec => [](Typed /\ NodsLeft)
  BY Starts, TypeStep, PTL DEF Spec

(* Every variable keeps its type; in particular the nods counted in one     *)
(* nod window never exceed the number the code asks for.                    *)
THEOREM RequestTypeCorrect == Spec => []TypeOK
  BY AlwaysTyped, TypedIsTypeOK, PTL

(* take_passwordless on an approval is the only way minutes are granted,    *)
(* and arm_passwordless takes minutes in the sudo lane only.                *)
THEOREM OnlySudoGrants == Spec => []GrantNeedsSudo
<1>1. Granting => GrantNeedsSudo
  BY DEF Granting
<1> QED
  BY <1>1, AlwaysTyped, Starts, GrantingStep, PTL DEF Spec

(* FaceMark is dropped on every way out of wait_for_nods, so the card can   *)
(* arm only where somebody is asked for nods.                               *)
THEOREM ArmsOnlyAtNods == Spec => []ArmOnlyAtNods
  BY AlwaysTyped, Starts, ArmStep, PTL DEF Spec

(* Dialog::show_inner vouches for the card before a frame is read for nods. *)
LEMMA CardVouchedFor == Spec => []NodsAtAckedCard
<1>1. Acknowledged => NodsAtAckedCard
  BY DEF Acknowledged, NodsAtAckedCard, NodWindow, At
<1> QED
  BY <1>1, AlwaysTyped, Starts, AcknowledgedStep, PTL DEF Spec

(* Dialog's drop hides what it has open, and `open` is lost only where a    *)
(* call to the shell, or the window's acknowledgement, failed: whatever     *)
(* fails, and in whatever order, no other pending card is left up.          *)
THEOREM NoCardForgotten == Spec => []CardComesDown
<1>1. Acknowledged => CardComesDown
  BY DEF Acknowledged, CardComesDown, At
<1> QED
  BY <1>1, AlwaysTyped, Starts, AcknowledgedStep, PTL DEF Spec

(* Both of what happens at the nod card happens nowhere else: FaceMark lets *)
(* the card arm, and wait_for_nods reads its frames.                        *)
THEOREM AtTheNodCard == Spec => []OnlyAtTheNodCard
<1>1. ArmOnlyAtNods /\ NodsAtAckedCard => OnlyAtTheNodCard
  BY DEF OnlyAtTheNodCard
<1> QED
  BY <1>1, ArmsOnlyAtNods, CardVouchedFor, PTL

(* In the nod window the minutes the record marks as shown are the minutes  *)
(* on the card, whatever summons have failed before, and every nod in it    *)
(* was made at a card that named them (rider_for_payload, mark_shown,       *)
(* arm_passwordless).                                                       *)
THEOREM RiderIsNamed == Spec => []RiderIsOnTheCard
<1>1. Named => RiderIsOnTheCard
  BY DEF Named, CardAsMarked, RiderTruthful, RiderIsOnTheCard
<1> QED
  BY <1>1, AlwaysTyped, Starts, NamedStep, PTL DEF Spec

-------------------------------------------------------------------------------
(* What the face checks of a request and of the lock screen are held by     *)
(* (Throttles), for any lengths of a window, a hold and a refusal that are   *)
(* as its module assumes.                                                    *)

(* The bounds they give.                                                     *)
LEMMA ThrottleBounds ==
  /\ Failures \in Nat /\ Failures > 0 /\ Window \in Nat /\ Window > 0
  /\ MaxDoublings \in Nat /\ MaxDoublings > 0 /\ Quiet \in Nat /\ Window < Quiet
  /\ LongestCheck \in Nat /\ MaxLevel \in Nat /\ BackoffQuiet \in Nat
  /\ None \notin Nat /\ None \notin Entries
BY ThrottleAssumption DEF ThrottleAssumption

(* A hold lasts, and is over with the longest check begun inside it before a *)
(* spell without a failure counts as quiet.                                  *)
LEMMA HoldLength ==
  ASSUME NEW n \in 0 .. MaxDoublings
  PROVE  Hold * 2 ^ n \in Nat /\ Hold * 2 ^ n > 0 /\ Hold * 2 ^ n + LongestCheck < Quiet
<1>1. Hold * 2 ^ n \in 1 .. (Quiet - (LongestCheck + 1))
  BY ThrottleAssumption DEF ThrottleAssumption
<1>2. ASSUME NEW h \in 1 .. (Quiet - (LongestCheck + 1))
      PROVE  h \in Nat /\ h > 0 /\ h + LongestCheck < Quiet
  BY ThrottleBounds
<1>. QED BY <1>1, <1>2, Zenon

-------------------------------------------------------------------------------
(* Ages, oldest first.                                                       *)
Sorted(s) == \A i \in 1 .. Len(s) : \A j \in 1 .. Len(s) : i < j => s[i] >= s[j]

(* What is left of s when the ages out of the window drop off its front.     *)
IsLeft(s, q) ==
  \E d \in 0 .. Len(s) :
    /\ Len(q) = Len(s) - d
    /\ \A i \in 1 .. d : ~Recent(s[i])
    /\ \A i \in 1 .. Len(s) - d : q[i] = s[i + d] /\ Recent(s[i + d])

(* It is what the record retains.                                            *)
LEMMA LeftIsRetained ==
  ASSUME NEW s \in Seq(Nat), NEW q \in Seq(Nat), IsLeft(s, q)
  PROVE  Retained(s) = q
<1> DEFINE J == {i \in DOMAIN s : ~Recent(s[i])}
<1>1. PICK d \in 0 .. Len(s) :
        /\ Len(q) = Len(s) - d
        /\ \A i \in 1 .. d : ~Recent(s[i])
        /\ \A i \in 1 .. Len(s) - d : q[i] = s[i + d] /\ Recent(s[i + d])
  BY DEF IsLeft
<1>2. /\ Len(s) \in Nat /\ DOMAIN s = 1 .. Len(s) /\ d \in Nat /\ d <= Len(s)
      /\ \A i \in 1 .. Len(s) : s[i] \in Nat
  BY <1>1
<1>3. J = 1 .. d
  <2>1. ASSUME NEW i \in 1 .. d PROVE i \in J
    BY <1>1, <1>2
  <2>2. ASSUME NEW i \in J PROVE i \in 1 .. d
    <3>1. i \in 1 .. Len(s) /\ ~Recent(s[i])
      BY <1>2
    <3>2. CASE i > d
      <4>1. i - d \in 1 .. Len(s) - d /\ (i - d) + d = i
        BY <1>2, <3>1, <3>2
      <4>2. Recent(s[(i - d) + d])
        BY <1>1, <4>1
      <4>. QED BY <3>1, <4>1, <4>2
    <3>. QED BY <1>2, <3>1, <3>2
  <2> HIDE DEF J
  <2>. QED BY <2>1, <2>2
<1>4. Cardinality(1 .. d) = d
  BY <1>2, FS_Interval
<1>5. Retained(s) = SubSeq(s, d + 1, Len(s))
  <2>1. Retained(s) = SubSeq(s, Cardinality(J) + 1, Len(s))
    BY DEF Retained
  <2> HIDE DEF J
  <2>. QED BY <1>3, <1>4, <2>1, Zenon
<1> HIDE DEF J
<1> DEFINE x == d + 1
           r == SubSeq(s, x, Len(s))
<1>6. /\ r \in Seq(Nat) /\ Len(r) = Len(s) - d
      /\ \A i \in 1 .. Len(s) - d : r[i] = s[i + d]
  <2>1. x \in Int /\ Len(s) \in Int /\ \A i \in x .. Len(s) : s[i] \in Nat
    BY <1>2
  <2> HIDE DEF x
  <2>2. /\ r \in Seq(Nat) /\ Len(r) = IF x <= Len(s) THEN Len(s) - x + 1 ELSE 0
        /\ \A i \in 1 .. Len(s) - x + 1 : r[i] = s[x + i - 1]
    BY <2>1, SubSeqProperties
  <2> HIDE DEF r
  <2>3. Len(r) = Len(s) - d
    <3>1. ASSUME NEW n \in Nat, NEW m \in Nat, m <= n, NEW y, y = m + 1
          PROVE  (IF y <= n THEN n - y + 1 ELSE 0) = n - m
      BY <3>1
    <3>2. x = d + 1
      BY DEF x
    <3>. QED BY <1>2, <2>2, <3>1, <3>2, Zenon
  <2>4. ASSUME NEW i \in 1 .. Len(s) - d PROVE r[i] = s[i + d]
    <3>1. i \in 1 .. Len(s) - x + 1 /\ x + i - 1 = i + d
      BY <1>2 DEF x
    <3>. QED BY <2>2, <3>1
  <2>. QED BY <2>2, <2>3, <2>4
<1> HIDE DEF r
<1>7. r = q
  <2>1. Len(r) = Len(q) /\ \A i \in 1 .. Len(r) : r[i] = q[i]
    BY <1>1, <1>6
  <2>. QED BY <1>6, <2>1, SeqEqual
<1>. QED BY <1>5, <1>7 DEF r, x

(* The least of a set of indices is in it.                                   *)
LEMMA LeastOfIndices ==
  ASSUME NEW I, I \subseteq Nat, I # {}
  PROVE  \E x \in I : \A y \in I : x <= y
<1>1. \E x \in I : \A y \in I : ~(<<y, x>> \in OpToRel(<, Nat))
  BY NatLessThanWellFounded, WFMin, Zenon
<1>2. PICK x \in I : \A y \in I : ~(<<y, x>> \in OpToRel(<, Nat))
  BY <1>1
<1>3. ASSUME NEW y \in I PROVE x <= y
  <2>1. ~(<<y, x>> \in OpToRel(<, Nat)) /\ x \in Nat /\ y \in Nat
    BY <1>2
  <2>. QED BY <2>1 DEF OpToRel
<1>. QED BY <1>3

(* Of ages with the oldest first, something is left.                         *)
LEMMA SomethingLeft ==
  ASSUME NEW s \in Seq(Nat), Sorted(s)
  PROVE  Retained(s) \in Seq(Nat) /\ IsLeft(s, Retained(s))
<1> DEFINE I == {i \in 1 .. Len(s) + 1 : i = Len(s) + 1 \/ Recent(s[i])}
<1>1. Len(s) \in Nat /\ \A i \in 1 .. Len(s) : s[i] \in Nat
  OBVIOUS
<1>2. I \subseteq Nat /\ Len(s) + 1 \in I
  BY <1>1
<1>3. PICK x \in I : \A y \in I : x <= y
  <2> HIDE DEF I
  <2>1. I # {}
    BY <1>2
  <2>. QED BY <1>2, <2>1, LeastOfIndices
<1>4. x \in 1 .. Len(s) + 1 /\ (x = Len(s) + 1 \/ Recent(s[x]))
  OBVIOUS
<1>5. ASSUME NEW i \in 1 .. Len(s), i < x PROVE ~Recent(s[i])
  BY <1>1, <1>3, <1>4, <1>5
<1> HIDE DEF I
<1>6. ASSUME NEW i \in 1 .. Len(s), x <= i PROVE Recent(s[i])
  <2>1. x \in 1 .. Len(s) /\ Recent(s[x])
    BY <1>1, <1>4, <1>6
  <2>2. s[i] <= s[x]
    <3>1. CASE i = x
      BY <1>1, <3>1
    <3>2. CASE x < i
      BY <2>1, <3>2 DEF Sorted
    <3>. QED BY <1>6, <2>1, <3>1, <3>2
  <2>3. s[i] \in Nat /\ s[x] \in Nat /\ Window \in Nat
    BY <1>1, <2>1, ThrottleBounds
  <2>. QED BY <2>1, <2>2, <2>3 DEF Recent
<1> DEFINE d == x - 1
           q == SubSeq(s, x, Len(s))
<1>7. d \in 0 .. Len(s) /\ d + 1 = x
  BY <1>1, <1>4
<1>8. /\ q \in Seq(Nat) /\ Len(q) = Len(s) - d
      /\ \A i \in 1 .. Len(s) - d : q[i] = s[i + d]
  <2>1. x \in Int /\ Len(s) \in Int /\ \A i \in x .. Len(s) : s[i] \in Nat
    BY <1>1, <1>4
  <2>2. /\ q \in Seq(Nat) /\ Len(q) = IF x <= Len(s) THEN Len(s) - x + 1 ELSE 0
        /\ \A i \in 1 .. Len(s) - x + 1 : q[i] = s[x + i - 1]
    BY <2>1, SubSeqProperties
  <2> HIDE DEF q
  <2>3. Len(q) = Len(s) - d
    BY <1>1, <1>4, <2>2
  <2>4. ASSUME NEW i \in 1 .. Len(s) - d PROVE q[i] = s[i + d]
    <3>1. i \in 1 .. Len(s) - x + 1 /\ x + i - 1 = i + d
      BY <1>1, <1>4
    <3>. QED BY <2>2, <3>1
  <2>. QED BY <2>2, <2>3, <2>4
<1> HIDE DEF q, d
<1>9. ASSUME NEW i \in 1 .. d PROVE ~Recent(s[i])
  BY <1>1, <1>4, <1>5, <1>7
<1>10. ASSUME NEW i \in 1 .. Len(s) - d PROVE Recent(s[i + d])
  <2>1. i + d \in 1 .. Len(s) /\ x <= i + d
    BY <1>1, <1>7
  <2>. QED BY <1>6, <2>1
<1>11. IsLeft(s, q)
  BY <1>7, <1>8, <1>9, <1>10 DEF IsLeft
<1>. QED BY <1>8, <1>11, LeftIsRetained

(* A failure just charged is left, after what was left.                      *)
LEMMA ChargedIsLeft ==
  ASSUME NEW s \in Seq(Nat), Sorted(s)
  PROVE  /\ Append(s, 0) \in Seq(Nat) /\ Sorted(Append(s, 0))
         /\ Retained(Append(s, 0)) = Append(Retained(s), 0)
<1> DEFINE q == Retained(s)
           u == Append(s, 0)
           r == Append(q, 0)
<1>1. q \in Seq(Nat) /\ IsLeft(s, q)
  BY SomethingLeft
<1> HIDE DEF q
<1>2. PICK d \in 0 .. Len(s) :
        /\ Len(q) = Len(s) - d
        /\ \A i \in 1 .. d : ~Recent(s[i])
        /\ \A i \in 1 .. Len(s) - d : q[i] = s[i + d] /\ Recent(s[i + d])
  BY <1>1 DEF IsLeft
<1>3. /\ Len(s) \in Nat /\ d \in Nat /\ d <= Len(s) /\ Len(u) = Len(s) + 1 /\ u \in Seq(Nat)
      /\ \A i \in 1 .. Len(s) + 1 : u[i] = IF i = Len(s) + 1 THEN 0 ELSE s[i]
      /\ \A i \in 1 .. Len(s) : s[i] \in Nat
  BY <1>2
<1>4. /\ r \in Seq(Nat) /\ Len(r) = (Len(s) + 1) - d
      /\ \A i \in 1 .. (Len(s) + 1) - d : r[i] = IF i = (Len(s) + 1) - d THEN 0 ELSE q[i]
  <2>1. /\ r \in Seq(Nat) /\ Len(r) = Len(q) + 1
        /\ \A i \in 1 .. Len(q) + 1 : r[i] = IF i = Len(q) + 1 THEN 0 ELSE q[i]
    BY <1>1
  <2>2. Len(q) + 1 = (Len(s) + 1) - d
    BY <1>2, <1>3
  <2>. QED BY <2>1, <2>2
<1> HIDE DEF u, r
<1>5. Recent(0)
  BY ThrottleBounds DEF Recent
<1>6. ASSUME NEW i \in 1 .. (Len(s) + 1) - d PROVE r[i] = u[i + d] /\ Recent(u[i + d])
  <2>1. CASE i = (Len(s) + 1) - d
    <3>1. i + d = Len(s) + 1 /\ i + d \in 1 .. Len(s) + 1
      BY <1>3, <2>1
    <3>. QED BY <1>3, <1>4, <1>5, <2>1, <3>1
  <2>2. CASE i # (Len(s) + 1) - d
    <3>1. i \in 1 .. Len(s) - d /\ i + d \in 1 .. Len(s) + 1 /\ i + d # Len(s) + 1
      BY <1>3, <2>2
    <3>2. u[i + d] = s[i + d] /\ r[i] = q[i]
      BY <1>3, <1>4, <2>2, <3>1
    <3>. QED BY <1>2, <3>1, <3>2
  <2>. QED BY <2>1, <2>2
<1>7. ASSUME NEW i \in 1 .. d PROVE ~Recent(u[i])
  <2>1. i \in 1 .. Len(s) + 1 /\ i # Len(s) + 1
    BY <1>3
  <2>2. u[i] = s[i]
    BY <1>3, <2>1
  <2>. QED BY <1>2, <2>2
<1>8. IsLeft(u, r)
  <2>1. d \in 0 .. Len(u) /\ Len(u) = Len(s) + 1
    BY <1>3
  <2>2. Len(r) = Len(u) - d
    BY <1>4, <2>1, Zenon
  <2>3. \A i \in 1 .. Len(u) - d : r[i] = u[i + d] /\ Recent(u[i + d])
    BY <1>6, <2>1, Zenon
  <2>. QED BY <1>7, <2>1, <2>2, <2>3, Zenon DEF IsLeft
<1>9. Sorted(u)
  <2> SUFFICES ASSUME NEW i \in 1 .. Len(u), NEW j \in 1 .. Len(u), i < j PROVE u[i] >= u[j]
    BY DEF Sorted
  <2>1. i \in 1 .. Len(s) /\ u[i] = s[i] /\ s[i] \in Nat
    <3>1. i \in 1 .. Len(s) /\ i \in 1 .. Len(s) + 1 /\ i # Len(s) + 1
      BY <1>3
    <3>. QED BY <1>3, <3>1
  <2>2. CASE j = Len(s) + 1
    <3>1. u[j] = 0
      BY <1>3, <2>2
    <3>. QED BY <2>1, <3>1
  <2>3. CASE j # Len(s) + 1
    <3>0. ASSUME NEW n \in Nat, NEW k \in 1 .. n + 1, k # n + 1
          PROVE  k \in 1 .. n /\ k \in 1 .. n + 1
      BY <3>0
    <3>1. j \in 1 .. Len(s) /\ j \in 1 .. Len(s) + 1
      BY <1>3, <2>3, <3>0
    <3>2. u[j] = s[j] /\ s[i] >= s[j]
      BY <1>3, <2>1, <2>3, <3>1 DEF Sorted
    <3>. QED BY <2>1, <3>2
  <2>. QED BY <2>2, <2>3
<1>. QED BY <1>3, <1>4, <1>8, <1>9, LeftIsRetained DEF u, r, q

(* What was retained is in order, and all of it is retained again.           *)
LEMMA RetainedStays ==
  ASSUME NEW s \in Seq(Nat), Sorted(s)
  PROVE  /\ Retained(s) \in Seq(Nat) /\ Sorted(Retained(s))
         /\ Retained(Retained(s)) = Retained(s)
<1> DEFINE q == Retained(s)
<1>1. q \in Seq(Nat) /\ IsLeft(s, q)
  BY SomethingLeft
<1> HIDE DEF q
<1>2. PICK d \in 0 .. Len(s) :
        /\ Len(q) = Len(s) - d
        /\ \A i \in 1 .. Len(s) - d : q[i] = s[i + d] /\ Recent(s[i + d])
  BY <1>1 DEF IsLeft
<1>3. Len(s) \in Nat /\ d \in Nat /\ d <= Len(s) /\ Len(q) \in Nat
  BY <1>1, <1>2
<1>4. IsLeft(q, q)
  <2>1. 0 \in 0 .. Len(q) /\ Len(q) = Len(q) - 0 /\ \A i \in 1 .. 0 : ~Recent(q[i])
    BY <1>3
  <2>2. ASSUME NEW i \in 1 .. Len(q) - 0 PROVE q[i] = q[i + 0] /\ Recent(q[i + 0])
    <3>1. i + 0 = i /\ i \in 1 .. Len(s) - d
      BY <1>2, <1>3
    <3>. QED BY <1>2, <3>1
  <2>. QED BY <2>1, <2>2 DEF IsLeft
<1>5. Sorted(q)
  <2> SUFFICES ASSUME NEW i \in 1 .. Len(q), NEW j \in 1 .. Len(q), i < j PROVE q[i] >= q[j]
    BY DEF Sorted
  <2>1. /\ i \in 1 .. Len(s) - d /\ j \in 1 .. Len(s) - d
        /\ i + d \in 1 .. Len(s) /\ j + d \in 1 .. Len(s) /\ i + d < j + d
    BY <1>2, <1>3
  <2>2. s[i + d] >= s[j + d]
    BY <2>1 DEF Sorted
  <2>. QED BY <1>2, <2>1, <2>2
<1>. QED BY <1>1, <1>4, <1>5, LeftIsRetained DEF q

(* Of nothing, nothing is left.                                              *)
LEMMA NothingRetained ==
  <<>> \in Seq(Nat) /\ Sorted(<<>>) /\ Len(<<>>) = 0 /\ Retained(<<>>) = <<>>
<1>1. <<>> \in Seq(Nat) /\ Len(<<>>) = 0 /\ Sorted(<<>>)
  BY DEF Sorted
<1>2. IsLeft(<<>>, <<>>)
  BY DEF IsLeft
<1>. QED BY <1>1, <1>2, LeftIsRetained

(* The ages a moment later, as the record keeps them.                        *)
Later(s) == [i \in 1 .. Len(s) |-> Older(s[i], Window)]

(* The ages of the promise a moment later.                                   *)
LEMMA SamePromise ==
  /\ \A q : Abstract!Within(q) = Retained(q)
  /\ \A q : Abstract!Aged(q) = [i \in 1 .. Len(q) |-> q[i] + 1]
<1>1. \A S : Abstract!Cardinality(S) = Cardinality(S)
  BY DEF Abstract!Cardinality, Cardinality
<1>. QED BY <1>1 DEF Abstract!Within, Retained, Abstract!Young, Recent, Abstract!Aged

(* An age a moment later.                                                    *)
LEMMA OlderIs ==
  ASSUME NEW x \in Nat, NEW bound \in Nat
  PROVE  /\ Older(x, bound) \in Nat
         /\ Older(x, bound) = IF x + 1 < bound THEN x + 1 ELSE bound
<1>1. x # None
  BY ThrottleBounds
<1>. QED BY <1>1 DEF Older, Least

(* What is out of the window stays out, and what was left ages on: a moment  *)
(* later as much is left as is left of what was left.                        *)
LEMMA LaterIsLeft ==
  ASSUME NEW s \in Seq(Nat), Sorted(s)
  PROVE  /\ Later(s) \in Seq(Nat) /\ Sorted(Later(s))
         /\ Retained(Later(s)) = Retained([i \in 1 .. Len(Retained(s)) |-> Retained(s)[i] + 1])
         /\ Len(Retained(Later(s))) <= Len(Retained(s))
<1> DEFINE q == Retained(s)
           u == Later(s)
           a == [i \in 1 .. Len(q) |-> q[i] + 1]
           r == Retained(a)
           W == Window
<1>1. q \in Seq(Nat) /\ Sorted(q) /\ IsLeft(s, q)
  BY SomethingLeft, RetainedStays
<1> HIDE DEF q
<1>2. PICK d \in 0 .. Len(s) :
        /\ Len(q) = Len(s) - d
        /\ \A i \in 1 .. d : ~Recent(s[i])
        /\ \A i \in 1 .. Len(s) - d : q[i] = s[i + d] /\ Recent(s[i + d])
  BY <1>1 DEF IsLeft
<1>3. /\ Len(s) \in Nat /\ d \in Nat /\ d <= Len(s) /\ W \in Nat /\ Len(q) \in Nat
      /\ \A i \in 1 .. Len(s) : s[i] \in Nat
      /\ \A i \in 1 .. Len(q) : q[i] \in Nat
  <2>1. W \in Nat
    BY ThrottleBounds
  <2> HIDE DEF u, a, r, W
  <2>2. Len(s) \in Nat /\ d \in Nat /\ d <= Len(s)
    BY <1>2
  <2>3. \A i \in 1 .. Len(s) : s[i] \in Nat
    OBVIOUS
  <2>4. Len(q) \in Nat /\ \A i \in 1 .. Len(q) : q[i] \in Nat
    BY <1>1
  <2>. QED BY <2>1, <2>2, <2>3, <2>4
<1>4. /\ u \in Seq(Nat) /\ Len(u) = Len(s)
      /\ \A i \in 1 .. Len(s) : u[i] = IF s[i] + 1 < W THEN s[i] + 1 ELSE W
  <2>1. \A i \in 1 .. Len(s) : Older(s[i], W) \in Nat
    BY <1>3, OlderIs
  <2>2. u = [i \in 1 .. Len(s) |-> Older(s[i], W)]
    BY DEF Later
  <2>3. u \in Seq(Nat) /\ Len(u) = Len(s)
    BY <1>3, <2>1, <2>2
  <2>4. ASSUME NEW i \in 1 .. Len(s) PROVE u[i] = IF s[i] + 1 < W THEN s[i] + 1 ELSE W
    <3>1. u[i] = Older(s[i], W)
      BY <2>2
    <3>. QED BY <1>3, <3>1, OlderIs
  <2>. QED BY <2>3, <2>4
<1>5. /\ a \in Seq(Nat) /\ Len(a) = Len(q)
      /\ \A i \in 1 .. Len(q) : a[i] = q[i] + 1
  BY <1>3
<1> HIDE DEF u, a, W
<1>6. Sorted(a)
  <2> SUFFICES ASSUME NEW i \in 1 .. Len(a), NEW j \in 1 .. Len(a), i < j PROVE a[i] >= a[j]
    BY DEF Sorted
  <2>1. q[i] >= q[j] /\ q[i] \in Nat /\ q[j] \in Nat
    BY <1>1, <1>3, <1>5 DEF Sorted
  <2>. QED BY <1>5, <2>1
<1>7. Sorted(u)
  <2> SUFFICES ASSUME NEW i \in 1 .. Len(u), NEW j \in 1 .. Len(u), i < j PROVE u[i] >= u[j]
    BY DEF Sorted
  <2>1. s[i] >= s[j] /\ s[i] \in Nat /\ s[j] \in Nat
    BY <1>3, <1>4 DEF Sorted
  <2>2. /\ u[i] = IF s[i] + 1 < W THEN s[i] + 1 ELSE W
        /\ u[j] = IF s[j] + 1 < W THEN s[j] + 1 ELSE W
    BY <1>4
  <2>3. ASSUME NEW x \in Nat, NEW y \in Nat, NEW w \in Nat, x >= y
        PROVE  (IF x + 1 < w THEN x + 1 ELSE w) >= (IF y + 1 < w THEN y + 1 ELSE w)
    BY <2>3
  <2>. QED BY <1>3, <2>1, <2>2, <2>3, Zenon
<1>8. r \in Seq(Nat) /\ IsLeft(a, r)
  BY <1>5, <1>6, SomethingLeft
<1> HIDE DEF r
<1>9. PICK e \in 0 .. Len(a) :
        /\ Len(r) = Len(a) - e
        /\ \A i \in 1 .. e : ~Recent(a[i])
        /\ \A i \in 1 .. Len(a) - e : r[i] = a[i + e] /\ Recent(a[i + e])
  BY <1>8 DEF IsLeft
<1> DEFINE f == d + e
<1>10. f \in 0 .. Len(u) /\ Len(r) = Len(u) - f /\ e \in Nat /\ e <= Len(q) /\ Len(r) <= Len(q)
  BY <1>2, <1>3, <1>4, <1>5, <1>9
<1>11. ASSUME NEW i \in 1 .. f PROVE ~Recent(u[i])
  <2>1. i \in 1 .. Len(s)
    BY <1>3, <1>4, <1>10
  <2>2. ~(s[i] + 1 < W)
    <3>1. CASE i <= d
      <4>1. ~(s[i] < W)
        <5>1. i \in 1 .. d
          BY <1>3, <2>1, <3>1
        <5>. QED BY <1>2, <5>1 DEF Recent, W
      <4>. QED BY <1>3, <2>1, <4>1
    <3>2. CASE i > d
      <4>1. i - d \in 1 .. e /\ i - d \in 1 .. Len(q) /\ (i - d) + d = i /\ i - d \in 1 .. Len(s) - d
        BY <1>2, <1>3, <1>10, <3>2
      <4>2. a[i - d] = s[i] + 1
        <5>1. a[i - d] = q[i - d] + 1 /\ q[i - d] = s[(i - d) + d]
          BY <1>2, <1>5, <4>1
        <5>. QED BY <4>1, <5>1
      <4>. QED BY <1>9, <4>1, <4>2 DEF Recent, W
    <3>. QED BY <1>3, <3>1, <3>2
  <2>3. u[i] = W
    BY <1>4, <2>1, <2>2
  <2>. QED BY <1>3, <2>3 DEF Recent, W
<1>12. ASSUME NEW i \in 1 .. Len(u) - f PROVE r[i] = u[i + f] /\ Recent(u[i + f])
  <2>1. /\ i \in 1 .. Len(a) - e /\ i + e \in 1 .. Len(q) /\ i + e \in 1 .. Len(s) - d
        /\ (i + e) + d = i + f /\ i + f \in 1 .. Len(s)
    BY <1>2, <1>3, <1>4, <1>5, <1>10
  <2>2. r[i] = a[i + e] /\ a[i + e] = q[i + e] + 1 /\ q[i + e] = s[(i + e) + d] /\ Recent(a[i + e])
    BY <1>2, <1>5, <1>9, <2>1
  <2>3. r[i] = s[i + f] + 1 /\ Recent(r[i])
    BY <2>1, <2>2
  <2>4. s[i + f] + 1 < W
    BY <2>3 DEF Recent, W
  <2>5. u[i + f] = s[i + f] + 1
    BY <1>4, <2>1, <2>4
  <2>. QED BY <2>3, <2>5
<1> HIDE DEF f
<1>13. IsLeft(u, r)
  BY <1>10, <1>11, <1>12 DEF IsLeft
<1>14. Retained(u) = r
  BY <1>4, <1>8, <1>13, LeftIsRetained
<1>. QED BY <1>4, <1>7, <1>10, <1>14 DEF u, r, a, q

-------------------------------------------------------------------------------
StrikeType == [times : Seq(Nat), last : Nat \cup {None}, until : Nat \cup {None}, holds : Nat]

(* A record of failures as the calls leave it: with no hold to serve it has  *)
(* earned none, and a hold in force is over, with the longest check begun    *)
(* inside it, before the last failure is a quiet spell away.                 *)
Sound(s) ==
  /\ s \in StrikeType /\ Sorted(s.times)
  /\ s.until = None => /\ s.holds > 0 => s.times = <<>>
                       /\ Len(Retained(s.times)) < Failures
  /\ s.until # None /\ s.until > 0 =>
       s.last # None /\ s.last + s.until + LongestCheck < Quiet

(* What the record says of the promise's state.                              *)
Recents(s) == IF s.until # None THEN <<>> ELSE Retained(s.times)
Rest(s) == IF s.until = None THEN 0 ELSE s.until
Level(s) == IF AtLeast(s.last, Quiet) THEN 0
            ELSE Least(s.holds + (IF s.until = 0 THEN 1 ELSE 0), MaxDoublings)
Still(s) == IF s.last = None THEN Quiet ELSE s.last

(* The fields of a record.                                                   *)
LEMMA StrikeFields ==
  ASSUME NEW s \in StrikeType
  PROVE  /\ s = [times |-> s.times, last |-> s.last, until |-> s.until, holds |-> s.holds]
         /\ s.times \in Seq(Nat) /\ s.holds \in Nat
         /\ s.last = None \/ s.last \in Nat
         /\ s.until = None \/ s.until \in Nat
         /\ s.until = 0 => s.until # None
BY ThrottleBounds DEF StrikeType

(* A record of failures has these fields.                                    *)
IsStrikes(s) == s = [times |-> s.times, last |-> s.last, until |-> s.until, holds |-> s.holds]

(* A record with one field changed.                                          *)
LEMMA OneField ==
  ASSUME NEW s, IsStrikes(s), NEW x
  PROVE  /\ [s EXCEPT !.times = x]
            = [times |-> x, last |-> s.last, until |-> s.until, holds |-> s.holds]
         /\ [s EXCEPT !.last = x]
            = [times |-> s.times, last |-> x, until |-> s.until, holds |-> s.holds]
         /\ [s EXCEPT !.until = x]
            = [times |-> s.times, last |-> s.last, until |-> x, holds |-> s.holds]
         /\ [s EXCEPT !.holds = x]
            = [times |-> s.times, last |-> s.last, until |-> s.until, holds |-> x]
<1>1. [s EXCEPT !.times = x]
      = [times |-> x, last |-> s.last, until |-> s.until, holds |-> s.holds]
  BY DEF IsStrikes
<1>2. [s EXCEPT !.last = x]
      = [times |-> s.times, last |-> x, until |-> s.until, holds |-> s.holds]
  BY DEF IsStrikes
<1>3. [s EXCEPT !.until = x]
      = [times |-> s.times, last |-> s.last, until |-> x, holds |-> s.holds]
  BY DEF IsStrikes
<1>4. [s EXCEPT !.holds = x]
      = [times |-> s.times, last |-> s.last, until |-> s.until, holds |-> x]
  BY DEF IsStrikes
<1>. QED BY <1>1, <1>2, <1>3, <1>4

(* A record whose failures are spent.                                        *)
LEMMA TimesSpent ==
  ASSUME NEW s \in StrikeType, NEW x
  PROVE  [s EXCEPT !.until = x, !.times = <<>>]
         = [times |-> <<>>, last |-> s.last, until |-> x, holds |-> s.holds]
<1> DEFINE e == [times |-> s.times, last |-> s.last, until |-> x, holds |-> s.holds]
<1>1. IsStrikes(s)
  BY StrikeFields DEF IsStrikes
<1>2. IsStrikes(e) /\ e.last = s.last /\ e.until = x /\ e.holds = s.holds
  BY DEF IsStrikes
<1>3. [s EXCEPT !.until = x] = e
  BY <1>1, OneField, Zenon
<1>4. [s EXCEPT !.until = x, !.times = <<>>] = [[s EXCEPT !.until = x] EXCEPT !.times = <<>>]
  OBVIOUS
<1> HIDE DEF e
<1>5. [e EXCEPT !.times = <<>>]
      = [times |-> <<>>, last |-> e.last, until |-> e.until, holds |-> e.holds]
  BY <1>2, OneField, Zenon
<1>. QED BY <1>2, <1>3, <1>4, <1>5, Zenon

(* Strikes::hold on a hold in force.                                         *)
LEMMA HoldStands ==
  ASSUME NEW s, s.until # None, s.until # 0
  PROVE  HoldOf(s) = s
BY DEF HoldOf

(* Strikes::hold on a hold that has run out.                                 *)
LEMMA HoldIsServed ==
  ASSUME NEW s \in StrikeType, s.until = 0
  PROVE  HoldOf(s) = [times |-> <<>>, last |-> s.last, until |-> None,
                        holds |-> Least(s.holds + 1, MaxDoublings + 1)]
<1> DEFINE h == Least(s.holds + 1, MaxDoublings + 1)
           u == [times |-> <<>>, last |-> s.last, until |-> None, holds |-> h]
<1>1. h \in Nat /\ h > 0 /\ 0 < 1
  BY StrikeFields, ThrottleBounds DEF Least
<1> HIDE DEF h
<1>2. Served(s) = u
  <2>1. Served(s) = [s EXCEPT !.until = None, !.times = <<>>, !.holds = h]
    BY DEF Served, h
  <2>2. [s EXCEPT !.until = None, !.times = <<>>]
        = [times |-> <<>>, last |-> s.last, until |-> None, holds |-> s.holds]
    BY TimesSpent
  <2>3. [s EXCEPT !.until = None, !.times = <<>>, !.holds = h]
        = [[s EXCEPT !.until = None, !.times = <<>>] EXCEPT !.holds = h]
    OBVIOUS
  <2> DEFINE e == [times |-> <<>>, last |-> s.last, until |-> None, holds |-> s.holds]
  <2>4. IsStrikes(e) /\ e.times = <<>> /\ e.last = s.last /\ e.until = None
    BY DEF IsStrikes
  <2> HIDE DEF e
  <2>5. [e EXCEPT !.holds = h] = u
    <3>1. [e EXCEPT !.holds = h]
          = [times |-> e.times, last |-> e.last, until |-> e.until, holds |-> h]
      BY <2>4, OneField, Zenon
    <3>. QED BY <2>4, <3>1
  <2>. QED BY <2>1, <2>2, <2>3, <2>5, Zenon DEF e
<1>3. Retained(u.times) = <<>> /\ Len(<<>>) = 0
  BY NothingRetained
<1>4. u.holds > 0 /\ [u EXCEPT !.times = <<>>] = u /\ ~(s.until # 0)
  BY <1>1
<1> HIDE DEF u
<1>5. HoldOf(s) = [u EXCEPT !.times = <<>>]
  BY <1>1, <1>2, <1>3, <1>4 DEF HoldOf
<1>. QED BY <1>4, <1>5 DEF u, h

(* Strikes::hold when too few of the failures are recent.                    *)
LEMMA HoldIsNotEarned ==
  ASSUME NEW s \in StrikeType, s.until = None,
         Len(Retained(s.times)) < (IF s.holds > 0 THEN 1 ELSE Failures)
  PROVE  HoldOf(s) = [times |-> Retained(s.times), last |-> s.last, until |-> None,
                        holds |-> s.holds]
<1>1. s.until # 0 /\ ~(s.until # None /\ s.until # 0)
  BY StrikeFields
<1>2. Served(s) = s
  BY <1>1 DEF Served
<1>3. HoldOf(s) = [s EXCEPT !.times = Retained(s.times)]
  BY <1>1, <1>2 DEF HoldOf
<1>4. IsStrikes(s)
  BY StrikeFields DEF IsStrikes
<1>. QED BY <1>3, <1>4, OneField

(* Strikes::hold when the failure just charged earns one.                    *)
LEMMA HoldIsEarned ==
  ASSUME NEW s \in StrikeType, s.until = None, NEW q \in Seq(Nat),
         Retained(s.times) = Append(q, 0),
         ~(Len(Append(q, 0)) < (IF s.holds > 0 THEN 1 ELSE Failures))
  PROVE  HoldOf(s) = [times |-> <<>>, last |-> s.last,
                        until |-> Hold * 2 ^ Least(s.holds, MaxDoublings),
                        holds |-> s.holds]
<1> DEFINE r == Append(q, 0)
           m == Least(s.holds, MaxDoublings)
           h == Hold * 2 ^ m
<1>1. s.until # 0 /\ ~(s.until # None /\ s.until # 0)
  BY StrikeFields
<1>2. Served(s) = s
  BY <1>1 DEF Served
<1>3. r[Len(r)] = 0
  OBVIOUS
<1>4. m \in 0 .. MaxDoublings
  BY StrikeFields, ThrottleBounds DEF Least
<1>5. h \in Nat /\ h > 0
  <2> HIDE DEF m
  <2>. QED BY <1>4, HoldLength
<1> HIDE DEF r, h
<1>6. (IF 0 < h THEN h - 0 ELSE 0) = h
  BY <1>5
<1>7. HoldOf(s) = [s EXCEPT !.until = IF r[Len(r)] < h THEN h - r[Len(r)] ELSE 0, !.times = <<>>]
  BY <1>1, <1>2 DEF HoldOf, r, h
<1>8. HoldOf(s) = [s EXCEPT !.until = h, !.times = <<>>]
  BY <1>3, <1>6, <1>7, Zenon
<1>. QED BY <1>8, TimesSpent DEF h

(* One hold more, capped once or twice.                                      *)
LEMMA LeastTwice ==
  ASSUME NEW n \in Nat, NEW m \in Nat
  PROVE  /\ Least(n + 1, m + 1) \in Nat
         /\ Least(Least(n + 1, m + 1) + 0, m) = Least(n + 1, m)
<1>1. CASE n < m
  BY <1>1 DEF Least
<1>2. CASE ~(n < m)
  BY <1>2 DEF Least
<1>. QED BY <1>1, <1>2

(* hold_for in front of a check: a hold in force stays as it is, any other   *)
(* record is left with none, and nothing of the promise changes.             *)
LEMMA AskingKeeps ==
  ASSUME NEW s, Sound(s)
  PROVE  LET u == HoldOf(s)
         IN  /\ Sound(u)
             /\ Recents(u) = Recents(s) /\ Rest(u) = Rest(s)
             /\ Level(u) = Level(s) /\ Still(u) = Still(s)
             /\ InForce(u) => u = s
             /\ ~InForce(u) => u.until = None
<1> DEFINE u == HoldOf(s)
<1>1. s \in StrikeType /\ Sorted(s.times) /\ s.times \in Seq(Nat) /\ s.holds \in Nat
  BY StrikeFields DEF Sound
<1>2. CASE s.until # None /\ s.until # 0
  <2>1. u = s
    BY <1>2, HoldStands
  <2> HIDE DEF u
  <2>. QED BY <1>2, <2>1 DEF InForce, u
<1>3. CASE s.until = 0
  <2> DEFINE h == Least(s.holds + 1, MaxDoublings + 1)
             v == [times |-> <<>>, last |-> s.last, until |-> None, holds |-> h]
  <2>1. u = v /\ s.until # None
    BY <1>1, <1>3, HoldIsServed, StrikeFields
  <2>2. h \in Nat /\ Least(h + 0, MaxDoublings) = Least(s.holds + 1, MaxDoublings)
    <3>1. s.holds \in Nat /\ MaxDoublings \in Nat
      BY <1>1, ThrottleBounds
    <3>. QED BY <3>1, LeastTwice
  <2> HIDE DEF h
  <2>3. v \in StrikeType
    BY <1>1, <2>2, NothingRetained DEF StrikeType
  <2>4. Sound(v)
    <3>1. Len(Retained(v.times)) < Failures
      BY NothingRetained, ThrottleBounds
    <3>. QED BY <2>3, <3>1, NothingRetained DEF Sound
  <2>5. Recents(v) = Recents(s)
    BY <2>1, NothingRetained DEF Recents
  <2>6. Rest(v) = Rest(s) /\ Still(v) = Still(s)
    BY <1>3, <2>1 DEF Rest, Still
  <2>7. Level(v) = Level(s)
    <3>1. v.until # 0 /\ v.last = s.last /\ v.holds = h
      BY ThrottleBounds
    <3> HIDE DEF v
    <3>. QED BY <1>3, <2>2, <3>1, Zenon DEF Level
  <2>8. ~InForce(v) /\ v.until = None
    BY DEF InForce
  <2> HIDE DEF u, v
  <2>. QED BY <2>1, <2>4, <2>5, <2>6, <2>7, <2>8 DEF u
<1>4. CASE s.until = None
  <2> DEFINE q == Retained(s.times)
             v == [times |-> q, last |-> s.last, until |-> None, holds |-> s.holds]
  <2>1. Len(q) < (IF s.holds > 0 THEN 1 ELSE Failures) /\ (s.holds > 0 => s.times = <<>>)
        /\ Len(q) < Failures
    <3>1. s.holds > 0 => q = <<>> /\ Len(q) = 0
      BY <1>4, NothingRetained DEF Sound
    <3>2. Len(q) < Failures /\ (s.holds > 0 => s.times = <<>>)
      BY <1>4 DEF Sound
    <3>. QED BY <3>1, <3>2
  <2>2. u = v
    BY <1>1, <1>4, <2>1, HoldIsNotEarned
  <2>3. q \in Seq(Nat) /\ Sorted(q) /\ Retained(q) = q
    BY <1>1, RetainedStays
  <2>4. s.holds > 0 => q = <<>>
    BY <2>1, NothingRetained
  <2> HIDE DEF q
  <2>5. v \in StrikeType
    BY <1>1, <2>3, StrikeFields DEF StrikeType
  <2>6. Sound(v)
    BY <2>1, <2>3, <2>4, <2>5 DEF Sound
  <2>7. Recents(v) = Recents(s)
    BY <1>4, <2>3 DEF Recents, q
  <2>8. Rest(v) = Rest(s) /\ Still(v) = Still(s) /\ Level(v) = Level(s)
    BY <1>4 DEF Rest, Still, Level
  <2>9. ~InForce(v) /\ v.until = None
    BY DEF InForce
  <2> HIDE DEF u, v
  <2>. QED BY <2>2, <2>6, <2>7, <2>8, <2>9 DEF u
<1>. QED BY <1>2, <1>3, <1>4

(* The holds served that a failure counts with: none after a quiet spell.    *)
Standing(s) == IF s.holds > 0 /\ AtLeast(s.last, Quiet) THEN 0 ELSE s.holds

(* Strikes::charge.                                                          *)
LEMMA ChargedIs ==
  ASSUME NEW s \in StrikeType
  PROVE  /\ Charged(s) = [times |-> Append(s.times, 0), last |-> 0, until |-> s.until,
                           holds |-> Standing(s)]
         /\ Charged(s) \in StrikeType
<1> DEFINE a == Append(s.times, 0)
           h == Standing(s)
<1>1. Charged(s) = [s EXCEPT !.holds = h, !.times = a, !.last = 0]
  BY DEF Charged, Standing
<1>2. h \in Nat /\ a \in Seq(Nat) /\ IsStrikes(s)
  BY StrikeFields DEF Standing, IsStrikes
<1> HIDE DEF a, h
<1> DEFINE e == [times |-> s.times, last |-> s.last, until |-> s.until, holds |-> h]
           f == [times |-> a, last |-> s.last, until |-> s.until, holds |-> h]
           g == [times |-> a, last |-> 0, until |-> s.until, holds |-> h]
<1>3. IsStrikes(e) /\ e.last = s.last /\ e.until = s.until /\ e.holds = h
  BY DEF IsStrikes
<1>4. IsStrikes(f) /\ f.times = a /\ f.until = s.until /\ f.holds = h
  BY DEF IsStrikes
<1>5. g \in StrikeType
  BY <1>2, StrikeFields DEF StrikeType
<1>6. [s EXCEPT !.holds = h] = e
  BY <1>2, OneField, Zenon
<1> HIDE DEF e, f, g
<1>7. [e EXCEPT !.times = a] = f
  <2>1. [e EXCEPT !.times = a]
        = [times |-> a, last |-> e.last, until |-> e.until, holds |-> e.holds]
    BY <1>3, OneField, Zenon
  <2>. QED BY <1>3, <2>1, Zenon DEF f
<1>8. [f EXCEPT !.last = 0] = g
  <2>1. [f EXCEPT !.last = 0]
        = [times |-> f.times, last |-> 0, until |-> f.until, holds |-> f.holds]
    BY <1>4, OneField, Zenon
  <2>. QED BY <1>4, <2>1, Zenon DEF g
<1>9. [s EXCEPT !.holds = h, !.times = a, !.last = 0]
      = [[[s EXCEPT !.holds = h] EXCEPT !.times = a] EXCEPT !.last = 0]
  OBVIOUS
<1>10. Charged(s) = g
  BY <1>1, <1>6, <1>7, <1>8, <1>9, Zenon
<1>. QED BY <1>5, <1>10 DEF a, g, h

(* A failure that counts: it joins the recent ones, or it earns the hold the *)
(* promise gives.                                                            *)
LEMMA ScanFails ==
  ASSUME NEW s, Sound(s), s.until = None
  PROVE  LET u == HoldOf(Charged(s))
             failed == Append(Recents(s), 0)
         IN  /\ Sound(u) /\ Rest(s) = 0 /\ Still(u) = 0 /\ Level(u) = Level(s) /\ u.until # 0
             /\ IF Level(s) > 0 \/ Len(failed) >= Failures
                THEN Recents(u) = <<>> /\ Rest(u) = Hold * 2 ^ Least(Level(s), MaxDoublings)
                ELSE Recents(u) = failed /\ Rest(u) = Rest(s)
<1> DEFINE u == HoldOf(Charged(s))
           q == Retained(s.times)
           r == Append(q, 0)
           h == Standing(s)
           c == [times |-> Append(s.times, 0), last |-> 0, until |-> None, holds |-> h]
           m == Least(h, MaxDoublings)
<1>1. s \in StrikeType /\ Sorted(s.times) /\ s.times \in Seq(Nat)
  BY StrikeFields DEF Sound
<1>2. Charged(s) = c /\ c \in StrikeType
  BY <1>1, ChargedIs
<1>3. q \in Seq(Nat) /\ Len(q) \in Nat
  BY <1>1, SomethingLeft
<1>4. /\ Retained(c.times) = r /\ Sorted(c.times)
      /\ r \in Seq(Nat) /\ Len(r) = Len(q) + 1 /\ Sorted(r) /\ Retained(r) = r
  <2>1. /\ Retained(Append(s.times, 0)) = r /\ Sorted(Append(s.times, 0))
        /\ Append(s.times, 0) \in Seq(Nat)
    BY <1>1, ChargedIsLeft
  <2>2. r \in Seq(Nat) /\ Len(r) = Len(q) + 1
    <3> HIDE DEF q
    <3>. QED BY <1>3
  <2> HIDE DEF r
  <2>3. Sorted(r) /\ Retained(r) = r
    BY <2>1, RetainedStays
  <2>. QED BY <2>1, <2>2, <2>3
<1>5. /\ h \in Nat /\ m \in 0 .. MaxDoublings /\ (h > 0 <=> m > 0)
      /\ Least(h + 0, MaxDoublings) = m /\ Least(m, MaxDoublings) = m
  <2>1. h \in Nat
    BY <1>1, StrikeFields DEF Standing
  <2> HIDE DEF h
  <2>. QED BY <2>1, ThrottleBounds DEF Least
<1>6. Level(s) = m
  <2>1. s.until # 0 /\ s.holds \in Nat
    BY <1>1, StrikeFields
  <2>2. CASE AtLeast(s.last, Quiet)
    <3>1. h = 0
      BY <2>1, <2>2 DEF Standing
    <3>2. m = 0
      BY <3>1, ThrottleBounds DEF Least
    <3>. QED BY <2>2, <3>2 DEF Level
  <2>3. CASE ~AtLeast(s.last, Quiet)
    <3>1. h = s.holds
      BY <2>3 DEF Standing
    <3> HIDE DEF m, h
    <3>. QED BY <1>5, <2>1, <2>3, <3>1 DEF Level
  <2>. QED BY <2>2, <2>3
<1>7. Recents(s) = q /\ Rest(s) = 0
  BY DEF Recents, Rest
<1>8. ~AtLeast(0, Quiet) /\ 0 # None /\ 0 \in Nat
  BY ThrottleBounds DEF AtLeast
<1>9. CASE h > 0 \/ Len(r) >= Failures
  <2> DEFINE l == Hold * 2 ^ m
             v == [times |-> <<>>, last |-> 0, until |-> l, holds |-> h]
  <2>1. l \in Nat /\ l > 0 /\ l + LongestCheck < Quiet /\ l # None /\ l # 0
    <3>1. l \in Nat /\ l > 0 /\ l + LongestCheck < Quiet
      <4> HIDE DEF m
      <4>. QED BY <1>5, HoldLength
    <3> HIDE DEF l
    <3>. QED BY <3>1, ThrottleBounds
  <2>2. u = v
    <3>1. ~(Len(r) < (IF c.holds > 0 THEN 1 ELSE Failures))
      <4>1. c.holds = h /\ Failures \in Nat /\ Len(r) \in Nat /\ Len(r) >= 1
        BY <1>3, <1>4, ThrottleBounds
      <4> HIDE DEF c, r, h
      <4>. QED BY <1>9, <4>1
    <3>2. c.until = None /\ c.last = 0 /\ c.holds = h
      OBVIOUS
    <3> HIDE DEF c, h, q
    <3>3. HoldOf(c) = [times |-> <<>>, last |-> c.last,
                         until |-> Hold * 2 ^ Least(c.holds, MaxDoublings), holds |-> c.holds]
      BY <1>2, <1>3, <1>4, <3>1, <3>2, HoldIsEarned
    <3>. QED BY <1>2, <3>2, <3>3
  <2> HIDE DEF l, h, m
  <2>3. v \in StrikeType
    BY <1>5, <1>8, <2>1, NothingRetained DEF StrikeType
  <2>4. Sound(v)
    <3>1. 0 + l + LongestCheck < Quiet
      BY <2>1, ThrottleBounds
    <3>. QED BY <1>8, <2>1, <2>3, <3>1, NothingRetained DEF Sound
  <2>5. Recents(v) = <<>> /\ Rest(v) = l /\ Still(v) = 0
    BY <1>8, <2>1 DEF Recents, Rest, Still
  <2>6. Level(v) = m
    <3>1. v.last = 0 /\ v.until = l /\ v.holds = h
      OBVIOUS
    <3> HIDE DEF v
    <3>. QED BY <1>5, <1>8, <2>1, <3>1, Zenon DEF Level
  <2>7. (Level(s) > 0 \/ Len(r) >= Failures) /\ v.until # 0
    BY <1>5, <1>6, <1>9, <2>1
  <2> HIDE DEF u, v, r, q
  <2>. QED BY <1>5, <1>6, <1>7, <2>2, <2>4, <2>5, <2>6, <2>7 DEF u, l, r
<1>10. CASE ~(h > 0 \/ Len(r) >= Failures)
  <2> DEFINE v == [times |-> r, last |-> 0, until |-> None, holds |-> h]
  <2>1. h = 0 /\ Len(r) < Failures
    <3> HIDE DEF h, r
    <3>1. Len(r) \in Nat
      BY <1>3, <1>4
    <3>. QED BY <1>5, <1>10, <3>1, ThrottleBounds
  <2>2. u = v
    <3>1. c.until = None /\ c.last = 0 /\ c.holds = h
      OBVIOUS
    <3> HIDE DEF c, h, r
    <3>2. Len(Retained(c.times)) < (IF c.holds > 0 THEN 1 ELSE Failures)
      BY <1>4, <2>1, <3>1
    <3>. QED BY <1>2, <1>4, <3>1, <3>2, HoldIsNotEarned
  <2> HIDE DEF r, h, m
  <2>3. v \in StrikeType
    BY <1>4, <1>5, <1>8 DEF StrikeType
  <2>4. Sound(v)
    BY <1>4, <2>1, <2>3 DEF Sound
  <2>5. Recents(v) = r /\ Rest(v) = 0 /\ Still(v) = 0
    BY <1>4, <1>8 DEF Recents, Rest, Still
  <2>6. Level(v) = m
    <3>1. v.last = 0 /\ v.until # 0 /\ v.holds = h
      BY <1>8
    <3> HIDE DEF v
    <3>. QED BY <1>5, <1>8, <3>1, Zenon DEF Level
  <2>7. ~(Level(s) > 0 \/ Len(r) >= Failures) /\ v.until # 0
    BY <1>5, <1>6, <1>8, <1>10
  <2> HIDE DEF u, v, q
  <2>. QED BY <1>6, <1>7, <2>2, <2>4, <2>5, <2>6, <2>7 DEF u, r
<1>. QED BY <1>9, <1>10

(* A failure inside a hold, or after one that ran out unseen, changes        *)
(* nothing of the promise but the time since the last failure; the hold that *)
(* is served by it doubles the next one, after a quiet spell too.            *)
LEMMA HeldFails ==
  ASSUME NEW s, Sound(s), s.until # None
  PROVE  LET u == HoldOf(Charged(s))
         IN  /\ Sound(u) /\ Still(u) = 0 /\ u.until # 0
             /\ Recents(u) = Recents(s) /\ Rest(u) = Rest(s) /\ (Rest(s) > 0 \/ s.until = 0)
             /\ Level(u) = IF s.until = 0 /\ Still(s) >= Quiet THEN 1 ELSE Level(s)
<1> DEFINE u == HoldOf(Charged(s))
           h == Standing(s)
           c == [times |-> Append(s.times, 0), last |-> 0, until |-> s.until, holds |-> h]
<1>1. /\ s \in StrikeType /\ Sorted(s.times) /\ s.times \in Seq(Nat) /\ s.holds \in Nat
      /\ s.until \in Nat /\ (s.last = None \/ s.last \in Nat)
  BY StrikeFields DEF Sound
<1>2. ~AtLeast(0, Quiet) /\ 0 # None /\ 0 \in Nat
  BY ThrottleBounds DEF AtLeast
<1>3. h \in Nat /\ Charged(s) = c /\ c \in StrikeType
  BY <1>1, ChargedIs DEF Standing
<1>4. Sorted(c.times)
  BY <1>1, ChargedIsLeft
<1>5. c.last = 0 /\ c.until = s.until /\ c.holds = h
  OBVIOUS
<1>6. CASE s.until # 0
  <2>0. s.until > 0 /\ s.last \in Nat /\ ~AtLeast(s.last, Quiet)
    <3>1. s.until > 0
      BY <1>1, <1>6
    <3>2. s.last # None /\ s.last + s.until + LongestCheck < Quiet
      BY <3>1 DEF Sound
    <3>3. ASSUME NEW l \in Nat, NEW w \in Nat, l + w + LongestCheck < Quiet PROVE ~(l >= Quiet)
      BY <3>3, ThrottleBounds
    <3>. QED BY <1>1, <3>1, <3>2, <3>3 DEF AtLeast
  <2>00. h = s.holds
    BY <2>0 DEF Standing
  <2>1. u = c
    BY <1>3, <1>5, <1>6, HoldStands
  <2> HIDE DEF u, c, h
  <2>2. Sound(c)
    <3>1. s.last + s.until + LongestCheck < Quiet
      BY <2>0 DEF Sound
    <3>2. 0 + s.until + LongestCheck < Quiet
      BY <1>1, <2>0, <3>1, ThrottleBounds
    <3>. QED BY <1>2, <1>3, <1>4, <1>5, <3>2 DEF Sound
  <2>3. Recents(c) = Recents(s) /\ Rest(c) = Rest(s) /\ Still(c) = 0
    BY <1>2, <1>5 DEF Recents, Rest, Still
  <2>4. Level(c) = Level(s)
    BY <1>2, <1>5, <2>0, <2>00, Zenon DEF Level
  <2>. QED BY <1>5, <1>6, <2>0, <2>1, <2>2, <2>3, <2>4 DEF u, Rest
<1>7. CASE s.until = 0
  <2> DEFINE k == Least(h + 1, MaxDoublings + 1)
             v == [times |-> <<>>, last |-> 0, until |-> None, holds |-> k]
  <2>1. u = v
    BY <1>3, <1>5, <1>7, HoldIsServed
  <2>2. /\ k \in Nat /\ Least(k + 0, MaxDoublings) = Least(h + 1, MaxDoublings)
        /\ Least(0 + 1, MaxDoublings) = 1
    <3>1. h \in Nat /\ MaxDoublings \in Nat
      BY <1>3, ThrottleBounds
    <3>2. Least(0 + 1, MaxDoublings) = 1
      BY ThrottleBounds DEF Least
    <3> HIDE DEF h
    <3>. QED BY <3>1, <3>2, LeastTwice
  <2> HIDE DEF k
  <2>3. v \in StrikeType
    BY <1>2, <2>2, NothingRetained DEF StrikeType
  <2>4. Sound(v)
    <3>1. Len(Retained(v.times)) < Failures
      BY NothingRetained, ThrottleBounds
    <3>. QED BY <2>3, <3>1, NothingRetained DEF Sound
  <2>5. Recents(v) = Recents(s) /\ Rest(v) = Rest(s) /\ Still(v) = 0
    BY <1>2, <1>7, NothingRetained DEF Recents, Rest, Still
  <2>6. Level(v) = Least(h + 1, MaxDoublings) /\ v.until # 0
    <3>1. v.until # 0 /\ v.last = 0 /\ v.holds = k
      BY <1>2, ThrottleBounds
    <3> HIDE DEF v, h
    <3>. QED BY <1>2, <2>2, <3>1, Zenon DEF Level
  <2>7. Level(v) = IF Still(s) >= Quiet THEN 1 ELSE Level(s)
    <3>1. Still(s) >= Quiet <=> AtLeast(s.last, Quiet)
      BY <1>1, ThrottleBounds DEF Still, AtLeast
    <3>2. CASE AtLeast(s.last, Quiet)
      <4>1. h = 0
        BY <1>1, <3>2 DEF Standing
      <4> HIDE DEF h, v
      <4>. QED BY <2>2, <2>6, <3>1, <3>2, <4>1
    <3>3. CASE ~AtLeast(s.last, Quiet)
      <4>1. h = s.holds
        BY <3>3 DEF Standing
      <4>2. Level(s) = Least(s.holds + 1, MaxDoublings)
        BY <1>7, <3>3 DEF Level
      <4> HIDE DEF h, v
      <4>. QED BY <2>6, <3>1, <3>3, <4>1, <4>2
    <3>. QED BY <3>2, <3>3
  <2> HIDE DEF u, v
  <2>. QED BY <1>7, <2>1, <2>4, <2>5, <2>6, <2>7 DEF u
<1>. QED BY <1>6, <1>7

(* The record a moment later.                                                *)
Passed(s) == [times |-> Later(s.times), last |-> Older(s.last, Quiet),
              until |-> Sooner(s.until), holds |-> s.holds]

(* What the clock does to each instant.                                      *)
LEMMA ClockIs ==
  ASSUME NEW s \in StrikeType
  PROVE  /\ s.until = None => Sooner(s.until) = None
         /\ s.until # None => /\ s.until \in Nat /\ Sooner(s.until) \in Nat
                              /\ Sooner(s.until) = IF s.until = 0 THEN 0 ELSE s.until - 1
         /\ s.last = None => Older(s.last, Quiet) = None
         /\ s.last # None => /\ s.last \in Nat /\ Older(s.last, Quiet) \in Nat
                             /\ Older(s.last, Quiet) = IF s.last + 1 < Quiet THEN s.last + 1 ELSE Quiet
<1>1. s.until # None => s.until \in Nat
  BY StrikeFields
<1>2. s.last # None => s.last \in Nat
  BY StrikeFields
<1>3. /\ s.until = None => Sooner(s.until) = None
      /\ s.until # None => /\ Sooner(s.until) \in Nat
                           /\ Sooner(s.until) = IF s.until = 0 THEN 0 ELSE s.until - 1
  BY <1>1 DEF Sooner
<1>4. s.last = None => Older(s.last, Quiet) = None
  BY DEF Older
<1>5. s.last # None => /\ Older(s.last, Quiet) \in Nat
                       /\ Older(s.last, Quiet) = IF s.last + 1 < Quiet THEN s.last + 1 ELSE Quiet
  BY <1>2, OlderIs, ThrottleBounds
<1>. QED BY <1>1, <1>2, <1>3, <1>4, <1>5

(* It stays sound.                                                           *)
LEMMA PassingIsSound ==
  ASSUME NEW s, Sound(s)
  PROVE  Sound(Passed(s))
<1> DEFINE u == Passed(s)
           l == Older(s.last, Quiet)
           w == Sooner(s.until)
<1>1. s \in StrikeType /\ Sorted(s.times) /\ s.times \in Seq(Nat) /\ s.holds \in Nat
  BY StrikeFields DEF Sound
<1>2. /\ Later(s.times) \in Seq(Nat) /\ Sorted(Later(s.times))
      /\ Len(Retained(Later(s.times))) <= Len(Retained(s.times))
  BY <1>1, LaterIsLeft
<1>3. (l = None \/ l \in Nat) /\ (w = None \/ w \in Nat)
  BY <1>1, ClockIs
<1>4. u \in StrikeType /\ u.times = Later(s.times) /\ u.last = l /\ u.until = w /\ u.holds = s.holds
  <2> HIDE DEF l, w
  <2>1. u = [times |-> Later(s.times), last |-> l, until |-> w, holds |-> s.holds]
    BY DEF Passed, l, w
  <2> HIDE DEF u
  <2>. QED BY <1>1, <1>2, <1>3, <2>1 DEF StrikeType
<1> HIDE DEF u
<1>5. ASSUME u.until = None
      PROVE  (u.holds > 0 => u.times = <<>>) /\ Len(Retained(u.times)) < Failures
  <2>1. s.until = None
    BY <1>1, <1>4, <1>5, ClockIs, ThrottleBounds
  <2>2. (s.holds > 0 => s.times = <<>>) /\ Len(Retained(s.times)) < Failures
    BY <2>1 DEF Sound
  <2>3. s.times = <<>> => Later(s.times) = <<>>
    BY DEF Later
  <2>4. Len(Retained(s.times)) \in Nat /\ Len(Retained(Later(s.times))) \in Nat
    BY <1>1, <1>2, SomethingLeft, LenProperties
  <2>5. Len(Retained(u.times)) < Failures
    BY <1>2, <1>4, <2>2, <2>4, ThrottleBounds
  <2>. QED BY <1>4, <2>2, <2>3, <2>5
<1>6. ASSUME u.until # None, u.until > 0
      PROVE  u.last # None /\ u.last + u.until + LongestCheck < Quiet
  <2>1. s.until # None /\ s.until \in Nat /\ s.until > 0 /\ w = s.until - 1
    <3>1. s.until # None
      BY <1>1, <1>4, <1>6, ClockIs
    <3>2. s.until \in Nat /\ w = IF s.until = 0 THEN 0 ELSE s.until - 1
      BY <1>1, <3>1, ClockIs
    <3>. QED BY <1>4, <1>6, <3>1, <3>2
  <2>2. s.last # None /\ s.last + s.until + LongestCheck < Quiet
    BY <2>1 DEF Sound
  <2>3. s.last \in Nat /\ l \in Nat /\ l = IF s.last + 1 < Quiet THEN s.last + 1 ELSE Quiet
    BY <1>1, <2>2, ClockIs
  <2>4. l # None /\ l + w + LongestCheck < Quiet
    <3> HIDE DEF l, w
    <3>. QED BY <2>1, <2>2, <2>3, ThrottleBounds
  <2>. QED BY <1>4, <2>4
<1>. QED BY <1>2, <1>4, <1>5, <1>6 DEF Sound, u

(* The time since the last failure, a moment later.                          *)
LEMMA PassingStill ==
  ASSUME NEW s \in StrikeType
  PROVE  /\ Still(Passed(s)) = IF Still(s) < Quiet THEN Still(s) + 1 ELSE Quiet
         /\ AtLeast(Passed(s).last, Quiet) <=> Still(Passed(s)) = Quiet
         /\ AtLeast(s.last, Quiet) => Still(Passed(s)) = Quiet
<1> DEFINE l == Older(s.last, Quiet)
<1>1. Passed(s).last = l
  BY DEF Passed
<1>2. CASE s.last = None
  <2>1. l = None
    BY <1>2, ClockIs
  <2> HIDE DEF l
  <2>. QED BY <1>1, <1>2, <2>1, ThrottleBounds DEF Still, AtLeast
<1>3. CASE s.last # None
  <2>1. s.last \in Nat /\ l \in Nat /\ l = IF s.last + 1 < Quiet THEN s.last + 1 ELSE Quiet
    BY <1>3, ClockIs
  <2> HIDE DEF l
  <2>2. l # None /\ Quiet \in Nat
    BY <2>1, ThrottleBounds
  <2>. QED BY <1>1, <1>3, <2>1, <2>2 DEF Still, AtLeast
<1>. QED BY <1>2, <1>3

(* What is left of a hold, and the recent failures, a moment later.          *)
LEMMA PassingRest ==
  ASSUME NEW s, Sound(s)
  PROVE  /\ Rest(Passed(s)) = IF Rest(s) = 0 THEN 0 ELSE Rest(s) - 1
         /\ Recents(Passed(s)) = IF Rest(s) = 1 THEN <<>>
                                 ELSE Retained([i \in 1 .. Len(Recents(s)) |-> Recents(s)[i] + 1])
<1> DEFINE w == Sooner(s.until)
<1>1. s \in StrikeType /\ Sorted(s.times) /\ s.times \in Seq(Nat)
  BY StrikeFields DEF Sound
<1>2. Passed(s).until = w /\ Passed(s).times = Later(s.times)
  BY DEF Passed
<1>3. CASE s.until = None
  <2>1. w = None
    BY <1>1, <1>3, ClockIs
  <2> HIDE DEF w
  <2>2. /\ Retained(Later(s.times)) = Retained([i \in 1 .. Len(Retained(s.times)) |-> Retained(s.times)[i] + 1])
    BY <1>1, LaterIsLeft
  <2>3. Rest(s) = 0 /\ Rest(Passed(s)) = 0 /\ Recents(s) = Retained(s.times)
        /\ Recents(Passed(s)) = Retained(Later(s.times)) /\ 0 # 1
    BY <1>2, <1>3, <2>1 DEF Rest, Recents
  <2>. QED BY <2>2, <2>3, Zenon
<1>4. CASE s.until # None
  <2>1. s.until \in Nat /\ w \in Nat /\ w = IF s.until = 0 THEN 0 ELSE s.until - 1
    BY <1>1, <1>4, ClockIs
  <2> HIDE DEF w
  <2>2. w # None
    BY <2>1, ThrottleBounds
  <2>3. Recents(s) = <<>> /\ Recents(Passed(s)) = <<>> /\ Rest(s) = s.until /\ Rest(Passed(s)) = w
    BY <1>2, <1>4, <2>2 DEF Rest, Recents
  <2>4. [i \in 1 .. Len(Recents(s)) |-> Recents(s)[i] + 1] = <<>>
    BY <2>3
  <2>5. Retained([i \in 1 .. Len(Recents(s)) |-> Recents(s)[i] + 1]) = <<>>
    BY <2>4, NothingRetained, Zenon
  <2>. QED BY <2>1, <2>3, <2>5
<1>. QED BY <1>3, <1>4

(* The holds served, a moment later: the one that runs out is one more, and  *)
(* a quiet spell forgets them.                                               *)
LEMMA PassingLevel ==
  ASSUME NEW s \in StrikeType
  PROVE  Level(Passed(s)) = IF Still(Passed(s)) = Quiet THEN 0
                            ELSE IF Rest(s) = 1 THEN Least(Level(s) + 1, MaxDoublings) ELSE Level(s)
<1> DEFINE h == s.holds
           w == Sooner(s.until)
<1>1. Passed(s).until = w /\ Passed(s).holds = h /\ h \in Nat /\ (s.until = 0 => s.until # None)
  BY StrikeFields DEF Passed
<1>2. CASE AtLeast(Passed(s).last, Quiet)
  BY <1>2, PassingStill DEF Level
<1>3. CASE ~AtLeast(Passed(s).last, Quiet)
  <2>1. Still(Passed(s)) # Quiet /\ ~AtLeast(s.last, Quiet)
    BY <1>3, PassingStill
  <2>2. Level(Passed(s)) = Least(h + (IF w = 0 THEN 1 ELSE 0), MaxDoublings)
    BY <1>1, <1>3 DEF Level
  <2>3. Level(s) = Least(h + (IF s.until = 0 THEN 1 ELSE 0), MaxDoublings)
    BY <2>1 DEF Level
  <2>4. Least(Least(h + 0, MaxDoublings) + 1, MaxDoublings) = Least(h + 1, MaxDoublings)
    <3> HIDE DEF h
    <3>. QED BY <1>1, ThrottleBounds DEF Least
  <2>5. (w = 0 <=> s.until = 0 \/ s.until = 1) /\ (Rest(s) = 1 <=> s.until = 1)
    <3>1. CASE s.until = None
      <4>1. w = None /\ None # 0 /\ None # 1
        BY <3>1, ClockIs, ThrottleBounds
      <4>. QED BY <3>1, <4>1 DEF Rest
    <3>2. CASE s.until # None
      <4>1. s.until \in Nat /\ w = IF s.until = 0 THEN 0 ELSE s.until - 1
        BY <3>2, ClockIs
      <4> HIDE DEF w
      <4>. QED BY <3>2, <4>1 DEF Rest
    <3>. QED BY <3>1, <3>2
  <2> HIDE DEF h, w
  <2>6. CASE s.until = 1
    <3>1. s.until # 0 /\ w = 0 /\ Rest(s) = 1
      BY <2>5, <2>6
    <3>. QED BY <2>1, <2>2, <2>3, <2>4, <3>1, Zenon
  <2>7. CASE s.until # 1
    <3>1. (w = 0 <=> s.until = 0) /\ Rest(s) # 1
      BY <2>5, <2>7
    <3>. QED BY <2>1, <2>2, <2>3, <3>1, Zenon
  <2>. QED BY <2>6, <2>7
<1>. QED BY <1>2, <1>3

-------------------------------------------------------------------------------
(* Where a check may stand: outside a hold, or let in during one that, with  *)
(* what is left of the check, is over before the last failure is forgotten.  *)
StrikesInv ==
  /\ Sound(strikes) /\ check \in {"none", "scan", "answered"} /\ taken \in 0 .. LongestCheck
  /\ check = "scan" => strikes.until = None
  /\ check = "answered" =>
       /\ strikes.until \in Nat /\ strikes.last \in Nat
       /\ strikes.last + strikes.until + LongestCheck < Quiet + taken

(* What a refusal knows of the noes before it: an entry that was dropped had *)
(* outlived the quiet spell, and one that was not announced was not.         *)
RefusalInv ==
  /\ calm \in Nat /\ nos \in Nat /\ notices \in 0 .. 1
  /\ refusal = None => calm >= BackoffQuiet
  /\ refusal # None => /\ refusal \in Entries
                       /\ refusal.last = calm /\ refusal.level = nos
                       /\ ~refusal.notified => notices = 0

ThrottleInv == StrikesInv /\ RefusalInv

(* What the promise sees of a step.                                          *)
SameView == /\ Recents(strikes') = Recents(strikes) /\ Rest(strikes') = Rest(strikes)
            /\ Level(strikes') = Level(strikes) /\ Still(strikes') = Still(strikes)

(* The promise's state as the record gives it (Abstract, Throttles).         *)
View == <<IF strikes.until # None THEN <<>> ELSE Retained(strikes.times),
          IF strikes.until = None THEN 0 ELSE strikes.until,
          IF AtLeast(strikes.last, Quiet) THEN 0
          ELSE Least(strikes.holds + (IF strikes.until = 0 THEN 1 ELSE 0), MaxDoublings),
          IF strikes.last = None THEN Quiet ELSE strikes.last,
          strikes.until = 0>>

(* A look at the hold, after which none that has run out is left unseen.     *)
LEMMA AskedIs == ASSUME SameView, strikes'.until # 0 PROVE Abstract!Asked
BY Zenon DEF SameView, Abstract!Asked, Recents, Rest, Level, Still

(* A failure that counts.                                                    *)
LEMMA CountsIs ==
  ASSUME Rest(strikes) = 0, Still(strikes') = 0, Level(strikes') = Level(strikes),
         strikes'.until # 0,
         LET failed == Append(Recents(strikes), 0)
         IN  IF Level(strikes) > 0 \/ Len(failed) >= Failures
             THEN /\ Recents(strikes') = <<>>
                  /\ Rest(strikes') = Hold * 2 ^ Least(Level(strikes), MaxDoublings)
             ELSE Recents(strikes') = failed /\ Rest(strikes') = Rest(strikes)
  PROVE  Abstract!Counts
BY Zenon DEF Abstract!Counts, Abstract!Length, Abstract!Capped, Least, Recents, Rest, Level, Still

(* A failure that does not.                                                  *)
LEMMA ForgivenIs ==
  ASSUME Recents(strikes') = Recents(strikes), Rest(strikes') = Rest(strikes),
         Rest(strikes) > 0 \/ strikes.until = 0, strikes'.until # 0, Still(strikes') = 0,
         Level(strikes') = IF strikes.until = 0 /\ Still(strikes) >= Quiet THEN 1
                           ELSE Level(strikes)
  PROVE  Abstract!Forgiven
BY Zenon DEF Abstract!Forgiven, Recents, Rest, Level, Still

(* A match.                                                                  *)
LEMMA MatchIs ==
  ASSUME Recents(strikes') = <<>>, Rest(strikes') = 0, Level(strikes') = 0, Still(strikes') = Quiet,
         strikes'.until # 0
  PROVE  Abstract!Match
BY Zenon DEF Abstract!Match, Recents, Rest, Level, Still

(* The clock.                                                                *)
LEMMA TickIs ==
  ASSUME Rest(strikes') = (IF Rest(strikes) = 0 THEN 0 ELSE Rest(strikes) - 1),
         Still(strikes') = (IF Still(strikes) < Quiet THEN Still(strikes) + 1 ELSE Quiet),
         Recents(strikes') = (IF Rest(strikes) = 1 THEN <<>>
            ELSE Retained([i \in 1 .. Len(Recents(strikes)) |-> Recents(strikes)[i] + 1])),
         Level(strikes') = (IF Still(strikes') = Quiet THEN 0
            ELSE IF Rest(strikes) = 1 THEN Least(Level(strikes) + 1, MaxDoublings)
                 ELSE Level(strikes)),
         strikes'.until = 0 <=> strikes.until = 0 \/ Rest(strikes) = 1
  PROVE  Abstract!Tick
BY SamePromise, Zenon DEF Abstract!Tick, Abstract!Capped, Least, Recents, Rest, Level, Still

(* A failure with no hold on record: what it does is what the promise says   *)
(* of a failure that counts.                                                 *)
LEMMA FailingScan ==
  ASSUME StrikesInv, strikes.until = None, Failed
  PROVE  StrikesInv' /\ Abstract!Counts
<1>1. Sound(strikes) /\ strikes.until = None
  BY DEF StrikesInv
<1>2. strikes' = HoldOf(Charged(strikes)) /\ check' = "none" /\ taken' = 0
  BY DEF Failed
<1> DEFINE s == strikes
           u == HoldOf(Charged(s))
           failed == Append(Recents(s), 0)
<1>3. /\ Sound(u) /\ Rest(s) = 0 /\ Still(u) = 0 /\ Level(u) = Level(s) /\ u.until # 0
      /\ IF Level(s) > 0 \/ Len(failed) >= Failures
         THEN Recents(u) = <<>> /\ Rest(u) = Hold * 2 ^ Least(Level(s), MaxDoublings)
         ELSE Recents(u) = failed /\ Rest(u) = Rest(s)
  BY <1>1, ScanFails
<1>4. StrikesInv'
  <2>1. Sound(strikes)'
    BY <1>2, <1>3 DEF Sound
  <2>2. taken' \in 0 .. LongestCheck
    BY <1>2, ThrottleBounds
  <2>. QED BY <1>2, <2>1, <2>2 DEF StrikesInv
<1>5. Abstract!Counts
  BY <1>2, <1>3, CountsIs
<1>. QED BY <1>4, <1>5

(* A failure with a hold on record, in force or run out: nothing is added.   *)
LEMMA FailingHeld ==
  ASSUME StrikesInv, strikes.until # None, Failed
  PROVE  StrikesInv' /\ Abstract!Forgiven
<1>1. Sound(strikes)
  BY DEF StrikesInv
<1>2. strikes' = HoldOf(Charged(strikes)) /\ check' = "none" /\ taken' = 0
  BY DEF Failed
<1> DEFINE s == strikes
           u == HoldOf(Charged(s))
<1>4. /\ Sound(u) /\ Still(u) = 0 /\ u.until # 0
      /\ Recents(u) = Recents(s) /\ Rest(u) = Rest(s) /\ (Rest(s) > 0 \/ s.until = 0)
      /\ Level(u) = IF s.until = 0 /\ Still(s) >= Quiet THEN 1 ELSE Level(s)
  BY <1>1, HeldFails
<1>5. StrikesInv'
  <2>1. Sound(strikes)'
    BY <1>2, <1>4 DEF Sound
  <2>2. taken' \in 0 .. LongestCheck
    BY <1>2, ThrottleBounds
  <2>. QED BY <1>2, <2>1, <2>2 DEF StrikesInv
<1>6. Abstract!Forgiven
  BY <1>2, <1>4, ForgivenIs
<1>. QED BY <1>5, <1>6

(* A check that begins.                                                      *)
LEMMA Beginning ==
  ASSUME StrikesInv, BeginCheck \/ BeginAnswered
  PROVE  StrikesInv' /\ Abstract!Asked
<1> DEFINE u == HoldOf(strikes)
<1>1. Sound(strikes) /\ strikes' = u /\ taken' = 0
  BY DEF StrikesInv, BeginCheck, BeginAnswered
<1>2. /\ Sound(u)
      /\ Recents(u) = Recents(strikes) /\ Rest(u) = Rest(strikes)
      /\ Level(u) = Level(strikes) /\ Still(u) = Still(strikes)
      /\ InForce(u) => u = strikes
      /\ ~InForce(u) => u.until = None
  BY <1>1, AskingKeeps
<1>3. Sound(strikes)' /\ taken' \in 0 .. LongestCheck
  BY <1>1, <1>2, ThrottleBounds DEF Sound
<1>4. check' = "scan" => strikes'.until = None
  <2>1. check' = "scan" => ~InForce(u)
    BY DEF BeginCheck, BeginAnswered
  <2>. QED BY <1>1, <1>2, <2>1
<1>5. ASSUME check' = "answered"
      PROVE  /\ strikes'.until \in Nat /\ strikes'.last \in Nat
             /\ strikes'.last + strikes'.until + LongestCheck < Quiet + taken'
  <2>1. InForce(u)
    BY <1>5 DEF BeginCheck, BeginAnswered
  <2>2. u = strikes /\ u.until # None /\ u.until # 0
    BY <1>2, <2>1 DEF InForce
  <2>3. u \in StrikeType
    BY <1>2 DEF Sound
  <2>4. u.until \in Nat /\ u.until > 0
    <3>1. u.until \in Nat
      BY <2>2, <2>3, StrikeFields
    <3> HIDE DEF u
    <3>. QED BY <2>2, <3>1
  <2>5. u.last # None /\ u.last + u.until + LongestCheck < Quiet
    BY <1>2, <2>2, <2>4, Zenon DEF Sound
  <2>6. u.last \in Nat
    BY <2>3, <2>5, StrikeFields
  <2> HIDE DEF u
  <2>7. u.last + u.until + LongestCheck < Quiet + 0
    BY <2>5, ThrottleBounds
  <2>. QED BY <1>1, <2>4, <2>6, <2>7
<1>6. check' \in {"none", "scan", "answered"}
  BY DEF BeginCheck, BeginAnswered
<1>7. StrikesInv'
  BY <1>3, <1>4, <1>5, <1>6 DEF StrikesInv
<1>8. strikes'.until # 0
  <2>1. InForce(u) \/ u.until = None
    BY <1>2
  <2> HIDE DEF u
  <2>2. u.until # 0
    BY <2>1, ThrottleBounds DEF InForce
  <2>. QED BY <1>1, <2>2 DEF u
<1>9. SameView
  BY <1>1, <1>2 DEF SameView
<1>. QED BY <1>7, <1>8, <1>9, AskedIs

(* A check that ends without a failure.                                      *)
LEMMA Ending ==
  ASSUME StrikesInv, CheckEnds
  PROVE  StrikesInv' /\ UNCHANGED View
<1>1. strikes' = strikes /\ check' = "none" /\ taken' = 0
  BY DEF CheckEnds
<1>2. Sound(strikes)' /\ taken' \in 0 .. LongestCheck
  BY <1>1, ThrottleBounds DEF StrikesInv, Sound
<1>. QED BY <1>1, <1>2 DEF StrikesInv, View

(* A record forgiven everything.                                             *)
LEMMA FreshIs ==
  /\ Sound(Fresh) /\ Recents(Fresh) = <<>> /\ Rest(Fresh) = 0
  /\ Level(Fresh) = 0 /\ Still(Fresh) = Quiet /\ Fresh.until # 0
<1>1. Fresh.times = <<>> /\ Fresh.last = None /\ Fresh.until = None /\ Fresh.holds = 0
  BY DEF Fresh
<1>2. Fresh \in StrikeType
  BY NothingRetained DEF Fresh, StrikeType
<1>3. Len(Retained(<<>>)) < Failures
  BY NothingRetained, ThrottleBounds
<1>4. Sound(Fresh)
  BY <1>1, <1>2, <1>3, NothingRetained DEF Sound
<1>5. Recents(Fresh) = <<>> /\ Rest(Fresh) = 0 /\ Still(Fresh) = Quiet
  BY <1>1, NothingRetained DEF Recents, Rest, Still
<1>6. Level(Fresh) = 0
  BY <1>1 DEF Level, AtLeast
<1>7. Fresh.until # 0
  BY <1>1, ThrottleBounds
<1>. QED BY <1>4, <1>5, <1>6, <1>7

(* A check that matches.                                                     *)
LEMMA Matching ==
  ASSUME StrikesInv, CheckMatches
  PROVE  StrikesInv' /\ Abstract!Match
<1>1. strikes' = Fresh /\ check' = "none" /\ taken' = 0
  BY DEF CheckMatches
<1>2. Sound(strikes)' /\ taken' \in 0 .. LongestCheck
  BY <1>1, FreshIs, ThrottleBounds DEF Sound
<1>3. Abstract!Match
  BY <1>1, FreshIs, MatchIs
<1>. QED BY <1>1, <1>2, <1>3 DEF StrikesInv

(* The clock.                                                                *)
LEMMA Ticking ==
  ASSUME StrikesInv, Tick
  PROVE  StrikesInv' /\ Abstract!Tick
<1>1. Sound(strikes) /\ strikes \in StrikeType /\ IsStrikes(strikes)
  BY StrikeFields DEF StrikesInv, Sound, IsStrikes
<1>2. strikes' = Passed(strikes)
  <2> DEFINE a == Later(strikes.times)
             l == Older(strikes.last, Quiet)
             w == Sooner(strikes.until)
             e == [times |-> a, last |-> strikes.last, until |-> strikes.until, holds |-> strikes.holds]
             f == [times |-> a, last |-> l, until |-> strikes.until, holds |-> strikes.holds]
  <2>1. strikes' = [strikes EXCEPT !.times = a, !.last = l, !.until = w]
    BY DEF Tick, Later
  <2>2. Passed(strikes) = [times |-> a, last |-> l, until |-> w, holds |-> strikes.holds]
    BY DEF Passed
  <2> HIDE DEF a, l, w
  <2>3. /\ IsStrikes(e) /\ e.times = a /\ e.until = strikes.until /\ e.holds = strikes.holds
        /\ IsStrikes(f) /\ f.times = a /\ f.last = l /\ f.holds = strikes.holds
    BY DEF IsStrikes
  <2>4. [strikes EXCEPT !.times = a] = e
    BY <1>1, OneField, Zenon
  <2> HIDE DEF e, f
  <2>5. [e EXCEPT !.last = l] = f
    <3>1. [e EXCEPT !.last = l]
          = [times |-> e.times, last |-> l, until |-> e.until, holds |-> e.holds]
      BY <2>3, OneField, Zenon
    <3>. QED BY <2>3, <3>1, Zenon DEF f
  <2>6. [f EXCEPT !.until = w] = [times |-> a, last |-> l, until |-> w, holds |-> strikes.holds]
    <3>1. [f EXCEPT !.until = w]
          = [times |-> f.times, last |-> f.last, until |-> w, holds |-> f.holds]
      BY <2>3, OneField, Zenon
    <3>. QED BY <2>3, <3>1, Zenon
  <2>7. [strikes EXCEPT !.times = a, !.last = l, !.until = w]
        = [[[strikes EXCEPT !.times = a] EXCEPT !.last = l] EXCEPT !.until = w]
    OBVIOUS
  <2>. QED BY <2>1, <2>2, <2>4, <2>5, <2>6, <2>7, Zenon
<1>3. check' = check /\ taken' \in 0 .. LongestCheck /\ taken \in 0 .. LongestCheck
      /\ (check # "none" => taken' = taken + 1)
  <2>1. /\ check' = check /\ (check # "none" => taken < LongestCheck)
        /\ taken' = IF check # "none" THEN taken + 1 ELSE 0
    BY DEF Tick
  <2>2. taken \in 0 .. LongestCheck
    BY DEF StrikesInv
  <2>. QED BY <2>1, <2>2, ThrottleBounds
<1>4. Sound(strikes)'
  BY <1>1, <1>2, PassingIsSound DEF Sound
<1>5. check' = "scan" => strikes'.until = None
  <2>1. check = "scan" => strikes.until = None
    BY DEF StrikesInv
  <2>2. strikes.until = None => Passed(strikes).until = None
    BY <1>1, ClockIs DEF Passed
  <2>. QED BY <1>2, <1>3, <2>1, <2>2
<1>6. ASSUME check' = "answered"
      PROVE  /\ strikes'.until \in Nat /\ strikes'.last \in Nat
             /\ strikes'.last + strikes'.until + LongestCheck < Quiet + taken'
  <2>1. /\ strikes.until \in Nat /\ strikes.last \in Nat
        /\ strikes.last + strikes.until + LongestCheck < Quiet + taken
    BY <1>3, <1>6 DEF StrikesInv
  <2>2. strikes.until # None /\ strikes.last # None
    BY <2>1, ThrottleBounds
  <2> DEFINE l == Older(strikes.last, Quiet)
             w == Sooner(strikes.until)
  <2>3. /\ w \in Nat /\ w = IF strikes.until = 0 THEN 0 ELSE strikes.until - 1
        /\ l \in Nat /\ l = IF strikes.last + 1 < Quiet THEN strikes.last + 1 ELSE Quiet
    BY <1>1, <2>2, ClockIs
  <2>4. strikes'.until = w /\ strikes'.last = l
    BY <1>2 DEF Passed
  <2> HIDE DEF l, w
  <2>5. ASSUME NEW a \in Nat, NEW b \in Nat, NEW k \in Nat, a + b + LongestCheck < Quiet + k,
               w = IF b = 0 THEN 0 ELSE b - 1, l = IF a + 1 < Quiet THEN a + 1 ELSE Quiet
        PROVE  l + w + LongestCheck < Quiet + (k + 1)
    BY <2>5, ThrottleBounds
  <2>6. l + w + LongestCheck < Quiet + (taken + 1)
    <3>1. taken \in Nat
      BY <1>3
    <3>. QED BY <2>1, <2>3, <2>5, <3>1
  <2>7. taken' = taken + 1
    BY <1>3, <1>6
  <2>. QED BY <2>3, <2>4, <2>6, <2>7
<1>7. check' \in {"none", "scan", "answered"}
  BY <1>3 DEF StrikesInv
<1>8. StrikesInv'
  BY <1>3, <1>4, <1>5, <1>6, <1>7 DEF StrikesInv
<1>10. strikes'.until = 0 <=> strikes.until = 0 \/ Rest(strikes) = 1
  <2> DEFINE w == Sooner(strikes.until)
  <2>1. strikes'.until = w
    BY <1>2 DEF Passed
  <2>2. CASE strikes.until = None
    <3>1. w = None /\ None # 0
      BY <1>1, <2>2, ClockIs, ThrottleBounds
    <3>. QED BY <2>1, <2>2, <3>1 DEF Rest
  <2>3. CASE strikes.until # None
    <3>1. strikes.until \in Nat /\ w = IF strikes.until = 0 THEN 0 ELSE strikes.until - 1
      BY <1>1, <2>3, ClockIs
    <3> HIDE DEF w
    <3>. QED BY <2>1, <2>3, <3>1 DEF Rest
  <2>. QED BY <2>2, <2>3
<1>9. Abstract!Tick
  BY <1>1, <1>2, <1>10, PassingRest, PassingStill, PassingLevel, TickIs
<1>. QED BY <1>8, <1>9

(* Every step of the record keeps it sound, and is one of the promise's.     *)
LEMMA StrikesStep ==
  ASSUME ThrottleInv, [ThrottleNext]_throttleVars
  PROVE  StrikesInv' /\ (Abstract!Next \/ UNCHANGED View)
<1>0. StrikesInv
  BY DEF ThrottleInv
<1>1. CASE BeginCheck \/ BeginAnswered \/ CheckEnds
  BY <1>0, <1>1, Beginning, Ending DEF Abstract!Next
<1>2. CASE CheckMatches
  BY <1>0, <1>2, Matching DEF Abstract!Next
<1>3. ASSUME Failed PROVE StrikesInv' /\ Abstract!Next
  BY <1>0, <1>3, FailingScan, FailingHeld DEF Abstract!Next
<1>4. CASE Tick
  BY <1>0, <1>4, Ticking DEF Abstract!Next
<1>5. CASE UNCHANGED <<strikes, check, taken>>
  <2>1. StrikesInv'
    BY <1>0, <1>5 DEF StrikesInv, Sound
  <2>2. UNCHANGED View
    BY <1>5 DEF View
  <2>. QED BY <2>1, <2>2
<1>6. CASE CheckFails \/ ParkedFails
  BY <1>3, <1>6 DEF CheckFails, ParkedFails
<1>7. CASE ConfirmRefuses
  BY <1>3, <1>7 DEF ConfirmRefuses
<1>. QED BY <1>1, <1>2, <1>4, <1>5, <1>6, <1>7 DEF ThrottleNext, throttleVars, Dismiss, Ask

(* A no: what it is stood by for, and what the noes before it were.          *)
LEMMA SayingNo ==
  ASSUME RefusalInv, SaysNo
  PROVE  RefusalInv' /\ refusal'.until = Backoff * 2 ^ nos'
<1> DEFINE level == IF refusal # None /\ refusal.last < BackoffQuiet
                    THEN Least(refusal.level + 1, MaxLevel) ELSE 0
           e == [until |-> Backoff * 2 ^ level, last |-> 0, level |-> level, notified |-> FALSE]
<1>1. refusal' = e /\ calm' = 0 /\ notices' = 0
  BY DEF SaysNo, Refused
<1>2. nos' = level /\ level \in 0 .. MaxLevel
  <2>1. nos' = IF calm < BackoffQuiet THEN Least(nos + 1, MaxLevel) ELSE 0
    BY DEF SaysNo
  <2>2. CASE refusal = None
    <3>1. ~(calm < BackoffQuiet)
      BY <2>2, ThrottleBounds DEF RefusalInv
    <3>2. 0 \in 0 .. MaxLevel
      BY ThrottleBounds
    <3>. QED BY <2>1, <2>2, <3>1, <3>2
  <2>3. CASE refusal # None
    <3>1. refusal.last = calm /\ refusal.level = nos
      BY <2>3 DEF RefusalInv
    <3>2. Least(nos + 1, MaxLevel) \in 0 .. MaxLevel /\ 0 \in 0 .. MaxLevel
      BY ThrottleBounds DEF RefusalInv, Least
    <3>. QED BY <2>1, <2>3, <3>1, <3>2
  <2>. QED BY <2>2, <2>3
<1> HIDE DEF level
<1>3. e \in Entries
  <2>1. Backoff * 2 ^ level \in 1 .. (BackoffQuiet - 1)
    BY <1>2, ThrottleAssumption DEF ThrottleAssumption
  <2>2. \A k \in 1 .. (BackoffQuiet - 1) : k \in Nat
    BY ThrottleBounds
  <2>3. level \in Nat
    BY <1>2, ThrottleBounds
  <2>4. Backoff * 2 ^ level \in Nat
    BY <2>1, <2>2, Zenon
  <2>. QED BY <2>3, <2>4 DEF Entries
<1>4. e # None
  BY <1>3, ThrottleBounds
<1>5. e.last = 0 /\ e.level = level /\ e.notified = FALSE /\ e.until = Backoff * 2 ^ level
  OBVIOUS
<1> HIDE DEF e
<1>6. nos' \in Nat
  BY <1>2, ThrottleBounds
<1>. QED BY <1>1, <1>2, <1>3, <1>4, <1>5, <1>6 DEF RefusalInv

(* Every step keeps what a refusal knows, and a no stands as it should.      *)
LEMMA RefusalStep ==
  ASSUME ThrottleInv, [ThrottleNext]_throttleVars
  PROVE  RefusalInv' /\ (SaysNo => refusal'.until = Backoff * 2 ^ nos')
<1>0. RefusalInv
  BY DEF ThrottleInv
<1>1. SaysNo => RefusalInv' /\ refusal'.until = Backoff * 2 ^ nos'
  BY <1>0, SayingNo
<1>2. CASE Dismiss \/ ConfirmRefuses
  BY <1>1, <1>2 DEF Dismiss, ConfirmRefuses
<1>3. CASE UNCHANGED <<refusal, history>>
  BY <1>0, <1>1, <1>3 DEF RefusalInv, history
<1>4. CASE Ask
  <2>1. refusal # None /\ calm' = calm /\ nos' = nos
    BY <1>4 DEF Ask
  <2>2. /\ refusal \in Entries /\ refusal.last = calm /\ refusal.level = nos
        /\ (~refusal.notified => notices = 0) /\ notices \in 0 .. 1 /\ calm \in Nat /\ nos \in Nat
    BY <1>0, <2>1 DEF RefusalInv
  <2>3. CASE Drop
    <3>1. refusal' = None /\ notices' = notices /\ refusal.last >= BackoffQuiet
      BY <1>4, <2>3 DEF Ask, Drop
    <3>. QED BY <1>1, <2>1, <2>2, <3>1 DEF RefusalInv
  <2>4. CASE ~Drop
    <3> DEFINE told == refusal.notified \/ refusal.until > 0
    <3>1. /\ refusal' = [refusal EXCEPT !.notified = told]
          /\ notices' = IF Notice(refusal) THEN Least(notices + 1, 2) ELSE notices
      BY <1>4, <2>4 DEF Ask
    <3>2. /\ refusal' \in Entries /\ refusal'.last = calm /\ refusal'.level = nos
          /\ (refusal'.notified <=> told)
      <4>1. told \in BOOLEAN
        BY <2>2 DEF Entries
      <4> HIDE DEF told
      <4>. QED BY <2>2, <3>1, <4>1 DEF Entries
    <3>3. refusal' # None
      BY <3>2, ThrottleBounds
    <3>4. notices' \in 0 .. 1 /\ (~told => notices' = 0)
      BY <2>2, <3>1 DEF Notice, Least
    <3>. QED BY <1>1, <2>1, <2>2, <3>2, <3>3, <3>4, Zenon DEF RefusalInv
  <2>. QED BY <2>3, <2>4
<1>5. CASE Tick
  <2>1. calm' = Least(calm + 1, BackoffQuiet) /\ nos' = nos /\ notices' = notices
    BY <1>5 DEF Tick
  <2>2. CASE refusal = None
    <3>1. refusal' = None
      BY <1>5, <2>2 DEF Tick
    <3>2. calm \in Nat /\ calm >= BackoffQuiet /\ nos \in Nat /\ notices \in 0 .. 1
      BY <1>0, <2>2 DEF RefusalInv
    <3>3. calm' \in Nat /\ calm' >= BackoffQuiet
      BY <2>1, <3>2, ThrottleBounds DEF Least
    <3>. QED BY <1>1, <2>1, <3>1, <3>2, <3>3 DEF RefusalInv
  <2>3. CASE refusal # None
    <3> DEFINE w == Sooner(refusal.until)
               l == Older(refusal.last, BackoffQuiet)
    <3>1. refusal' = [refusal EXCEPT !.until = w, !.last = l]
      BY <1>5, <2>3 DEF Tick
    <3>2. /\ refusal \in Entries /\ refusal.last = calm /\ refusal.level = nos
          /\ (~refusal.notified => notices = 0) /\ notices \in 0 .. 1 /\ calm \in Nat /\ nos \in Nat
          /\ refusal.until \in Nat
      BY <1>0, <2>3 DEF RefusalInv, Entries
    <3>3. w \in Nat
      BY <3>2 DEF Sooner
    <3>4. l \in Nat /\ l = calm'
      <4>1. l \in Nat /\ l = IF calm + 1 < BackoffQuiet THEN calm + 1 ELSE BackoffQuiet
        BY <3>2, OlderIs, ThrottleBounds
      <4>. QED BY <2>1, <4>1 DEF Least
    <3> HIDE DEF w, l
    <3>5. /\ refusal' \in Entries /\ refusal'.last = l /\ refusal'.level = nos
          /\ refusal'.notified = refusal.notified
      BY <3>1, <3>2, <3>3, <3>4 DEF Entries
    <3>6. refusal' # None
      BY <3>5, ThrottleBounds
    <3>. QED BY <1>1, <2>1, <3>2, <3>4, <3>5, <3>6 DEF RefusalInv
  <2>. QED BY <2>2, <2>3
<1>. QED BY <1>2, <1>3, <1>4, <1>5
     DEF ThrottleNext, throttleVars, BeginCheck, BeginAnswered, CheckFails, ParkedFails, CheckEnds,
         CheckMatches

(* The record's invariant.                                                   *)
LEMMA ThrottleInvariant == ThrottleSpec => []ThrottleInv
<1>1. ThrottleInit => ThrottleInv
  <2> SUFFICES ASSUME ThrottleInit PROVE ThrottleInv
    OBVIOUS
  <2>1. strikes = Fresh /\ check = "none" /\ taken = 0
    BY DEF ThrottleInit
  <2>2. Sound(strikes) /\ taken \in 0 .. LongestCheck
    BY <2>1, FreshIs, ThrottleBounds
  <2>3. RefusalInv
    BY ThrottleBounds DEF ThrottleInit, RefusalInv
  <2>. QED BY <2>1, <2>2, <2>3 DEF ThrottleInv, StrikesInv
<1>2. ThrottleInv /\ [ThrottleNext]_throttleVars => ThrottleInv'
  BY StrikesStep, RefusalStep DEF ThrottleInv
<1>. QED BY <1>1, <1>2, PTL DEF ThrottleSpec

(* For any window, holds and refusals: the failures and holds of either lane *)
(* are those of the promise whose timers the clock keeps, so a hold that is  *)
(* noticed late, a failure that falls out of the window unseen and a         *)
(* doubling forgotten only at the next failure make no difference, and a     *)
(* failure that adds nothing was charged inside a hold or after one nobody   *)
(* had asked for since (ImplementsFailureHold; Strikes, cooldown.rs).        *)
THEOREM HoldsAreAsPromised == ThrottleSpec => ImplementsFailureHold
<1>1. ThrottleInit => Abstract!Init
  <2> SUFFICES ASSUME ThrottleInit PROVE Abstract!Init
    OBVIOUS
  <2>1. strikes = Fresh
    BY DEF ThrottleInit
  <2>2. /\ Recents(strikes) = <<>> /\ Rest(strikes) = 0 /\ Level(strikes) = 0
        /\ Still(strikes) = Quiet /\ strikes.until # 0
    BY <2>1, FreshIs
  <2>. QED BY <2>2, Zenon DEF Abstract!Init, Recents, Rest, Level, Still
<1>2. ThrottleInv /\ [ThrottleNext]_throttleVars => [Abstract!Next]_View
  BY StrikesStep
<1>3. ThrottleSpec => Abstract!Init /\ [][Abstract!Next]_View
  BY <1>1, <1>2, ThrottleInvariant, PTL DEF ThrottleSpec
<1>. QED BY <1>3 DEF ImplementsFailureHold, Abstract!Spec, View

(* No check that began after a look at the hold, outside one, fails without  *)
(* counting, whenever its failure comes and whatever was charged unseen      *)
(* before it (EveryCheckCounts; the hold is asked for at the start, the      *)
(* failure is charged at the end). A parked password has no such look.       *)
THEOREM FailuresCount == ThrottleSpec => EveryCheckCounts
<1>1. ThrottleInv /\ [ThrottleNext]_throttleVars => [CheckFails /\ check = "scan" => Abstract!Counts]_throttleVars
  <2> SUFFICES ASSUME ThrottleInv, CheckFails, check = "scan" PROVE Abstract!Counts
    OBVIOUS
  <2>1. StrikesInv /\ strikes.until = None /\ Failed
    BY DEF ThrottleInv, StrikesInv, CheckFails
  <2>. QED BY <2>1, FailingScan
<1>. QED BY <1>1, ThrottleInvariant, PTL DEF ThrottleSpec, EveryCheckCounts

(* A no that follows another before a quiet spell is stood by for twice as   *)
(* long, whether its entry was asked for, marked or dropped in between, and  *)
(* it is announced once (NoIsStoodBy; backoff.rs).                           *)
THEOREM RefusalsAreStoodBy == ThrottleSpec => NoIsStoodBy
<1>1. ThrottleInv /\ [ThrottleNext]_throttleVars => [SaysNo => refusal'.until = Backoff * 2 ^ nos']_throttleVars
  BY RefusalStep
<1>2. ThrottleInv => OneNotice
  BY DEF ThrottleInv, RefusalInv, OneNotice
<1>. QED BY <1>1, <1>2, ThrottleInvariant, PTL DEF ThrottleSpec, NoIsStoodBy, RefusalsEscalate
===============================================================================
