---------------------------- MODULE ConsentRequest ----------------------------
(***************************************************************************)
(* One consent request after another at the window: the daemon's thread    *)
(* that drives the request (server/rounds.rs, auth/consent_flow.rs,        *)
(* auth/attempt.rs, consent/wait.rs, auth/rearm.rs), the record it shares  *)
(* with the socket threads (consent/state.rs), and the card on screen      *)
(* (consent/window.rs; the card itself is outside the repository).         *)
(*                                                                         *)
(* A step of the daemon is what it does between two accesses to the shared *)
(* record, so a message may land between any two of them: after the last   *)
(* poll and before the frame, between the checks and the mark of one show, *)
(* during the confirm. Requests are numbered; the number is the token.     *)
(***************************************************************************)
EXTENDS Naturals, FiniteSets

CONSTANTS Minutes,        \* what the passwordless button may ask for
          MaxRequests,    \* bound: requests that get the window
          NodsNeeded,     \* NODS_NEEDED, 2 in the code
          MayLeave        \* an away time is configured (lost_after is set)

ASSUME RequestAssumption ==
  /\ Minutes \subseteq Nat \ {0}
  /\ MaxRequests \in Nat \ {0}
  /\ NodsNeeded \in Nat \ {0}
  /\ MayLeave \in BOOLEAN

VARIABLES pc,        \* where the daemon's thread stands
          token,     \* the number of the request at the window
          sudo,      \* its caller came through sudo, not polkit
          live,      \* the record shared with the socket threads (Live, Rider)
          gone,      \* the requester has hung up
          hold,      \* a hold on the face checks stands for this user
          dialog,    \* the daemon's own view of the card (Dialog)
          card,      \* what the screen shows
          loose,     \* history: that card may be beyond the daemon's reach
          show,      \* the card being shown, while a show runs
          gesture,   \* how the last scan, nod window or wait ended (Gesture)
          nods,      \* nods counted in this nod window
          verdict,   \* allow, refuse, or none: fall to the password
          granted,   \* minutes of passwordless sudo it turned on, or 0
          heard,     \* history: tokens of the messages this record took
          nodNames   \* history: what the card named at each nod counted

record == <<live, heard>>
screen == <<dialog, card, loose, show>>
counted == <<nods, nodNames>>
fate == <<verdict, granted>>
request == <<token, sudo>>
vars == <<pc, request, record, gone, hold, screen, gesture, counted, fate>>

Answers == {"none", "password", "dismiss", "rearm"}
NoName == 0

EmptyLive == [acked |-> FALSE, answer |-> "none", lane |-> "none",
              face |-> FALSE, minutes |-> NoName, shown |-> FALSE]
NoCard == [token |-> 0, state |-> "none", names |-> NoName]

(* The shows of a request, each with the place where the thread goes on.    *)
Then == [begin |-> "load", nod |-> "nod_poll", confirming |-> "confirm",
         password |-> "hold_poll", again |-> "round", ask |-> "attend_poll",
         waiting |-> "attend_poll", locked |-> "park_poll", welcome |-> "top"]

(* Two shows end the request when no card can be vouched for; the result of *)
(* the others is dropped (`let _ =`).                                       *)
Vital == {"begin", "nod"}

Gestures == {"none", "password", "dismissed", "gone", "nowindow", "lost", "locked",
             "moved", "unclear", "refused", "timeout", "shaken", "nodded", "armed",
             "nomatch", "denied", "noface", "error"}

Places == {"idle", "show_check", "show_send", "show_wait", "load", "top", "round",
           "scan_poll", "scan_frame", "match", "nod_poll", "nod_rider", "nod_frame",
           "nod_drop", "confirm", "decide", "attend_poll", "attend_look",
           "hold_poll", "hold_look", "lock", "park_poll", "park_wait", "finish",
           "grant", "over"}

Init ==
  /\ pc = "idle" /\ token = 0 /\ sudo = FALSE
  /\ live = EmptyLive /\ gone = FALSE /\ hold = FALSE
  /\ dialog = [acked |-> FALSE, open |-> FALSE] /\ card = NoCard /\ show = "begin"
  /\ loose = FALSE
  /\ gesture = "none" /\ nods = 0 /\ verdict = "none" /\ granted = NoName
  /\ heard = {} /\ nodNames = {}

At(here) == pc = here
Goto(there) == pc' = there
-------------------------------------------------------------------------------
(* The socket threads. An answer, an acknowledgement or a rider is written  *)
(* into the live record under its lock, and only with the record's token.   *)
(* The token leaves the daemon with the first payload, which sets the lane. *)
TokenMatches(t) == live.lane # "none" /\ t = token

Unshown == live.minutes # NoName /\ ~live.shown

Write(t, rec) ==
  /\ TokenMatches(t)
  /\ live' = rec
  /\ heard' = heard \cup {t}
  /\ UNCHANGED <<pc, request, gone, hold, screen, gesture, counted, fate>>

Ack(t) == Write(t, [live EXCEPT !.acked = TRUE])

(* ConsentState::answer: a re-arm never displaces an answer that waits.     *)
RearmDisplaces(t, a) == Write(t, [live EXCEPT !.answer = a])    \* mutant
Answer(t, a) ==
  /\ a # "rearm" \/ live.answer = "none"
  /\ Write(t, [live EXCEPT !.answer = a])

(* ConsentState::arm_passwordless: a sudo request, its card shown, and the  *)
(* enrolled face followed by the nod window.                                *)

ArmAnyLane(t, m) ==                                             \* mutant
  live.face /\ Write(t, [live EXCEPT !.minutes = m, !.shown = FALSE])

Arm(t, m) ==
  /\ live.lane = "sudo"
  /\ live.face
  /\ Write(t, [live EXCEPT !.minutes = m, !.shown = FALSE])

Message ==
  \E t \in 1 .. MaxRequests :
    \/ Ack(t)
    \/ \E a \in Answers \ {"none"} : Answer(t, a)
    \/ \E m \in Minutes : Arm(t, m)

HangUp ==
  /\ ~At("idle") /\ ~gone
  /\ gone' = TRUE
  /\ UNCHANGED <<pc, request, record, hold, screen, gesture, counted, fate>>

Answered == live.answer # "none" \/ gone
-------------------------------------------------------------------------------
(* Showing the card (Dialog::show_inner).                                   *)
StartShow(s) == Goto("show_check") /\ show' = s /\ UNCHANGED <<dialog, card, loose>>

ShowDone == Goto(Then[show]) /\ UNCHANGED gesture

ShowFailed ==
  CASE show = "begin" -> Goto("over") /\ UNCHANGED gesture
    [] show = "nod" -> Goto("decide") /\ gesture' = "nowindow"
    [] OTHER -> ShowDone

(* A rider the card has not named yet: forget the acknowledgement.          *)
ShowCheck ==
  /\ At("show_check")
  /\ live' = [live EXCEPT !.acked = @ /\ ~Unshown]
  /\ dialog' = [dialog EXCEPT !.acked = @ /\ ~Unshown]
  /\ Goto("show_send")
  /\ UNCHANGED <<request, heard, gone, hold, card, loose, show, gesture, counted, fate>>

Lane == IF sudo THEN "sudo" ELSE "polkit"

(* rider_for_payload with mark_shown.                                       *)
MarkShown == [live EXCEPT !.lane = Lane, !.shown = TRUE]

Pending(minutes) == [token |-> token, state |-> "pending", names |-> minutes]

(* A call to the shell fails by its answer, its exit status or its timeout  *)
(* (shell_call): the screen then shows nothing, what it showed before, or   *)
(* what it was asked for.                                                   *)
SummonFails(new) == card' \in {NoCard, card, new}

(* The payload is made, its rider marked as shown, and the shell summons    *)
(* the card. When that fails the mark stays, and `open` is as it was: a     *)
(* card drawn all the same is out of the daemon's hands if it had none.     *)
ShowSend ==
  /\ At("show_send")
  /\ live' = MarkShown
  /\ \/ /\ card' = Pending(live.minutes)
        /\ dialog' = [dialog EXCEPT !.open = TRUE] /\ loose' = FALSE
        /\ IF dialog.acked
           THEN ShowDone
           ELSE Goto("show_wait") /\ UNCHANGED gesture
     \/ /\ SummonFails(Pending(live.minutes))
        /\ loose' = (loose \/ ~dialog.open)
        /\ UNCHANGED dialog
        /\ ShowFailed
  /\ UNCHANGED <<request, heard, gone, hold, show, counted, fate>>

ShowAcked ==
  /\ At("show_wait")
  /\ live.acked
  /\ dialog' = [dialog EXCEPT !.acked = TRUE]
  /\ ShowDone
  /\ UNCHANGED <<request, record, gone, hold, card, loose, show, counted, fate>>

ShowUnacked ==
  /\ At("show_wait")
  /\ ~live.acked
  /\ dialog' = [dialog EXCEPT !.open = FALSE] /\ loose' = TRUE
  /\ ShowFailed
  /\ UNCHANGED <<request, record, gone, hold, card, show, counted, fate>>

(* A payload that waits for no acknowledgement (show_again, the heartbeat,  *)
(* the final state): a rider not shown yet is left out.                     *)
RiderOf(rec) == IF rec.shown THEN rec.minutes ELSE NoName

Resend(rec) == card' = Pending(RiderOf(rec)) \/ SummonFails(Pending(RiderOf(rec)))

Heartbeat == IF dialog.open THEN Resend(live) ELSE UNCHANGED card
-------------------------------------------------------------------------------
(* The start of a request (consent_begin): a fresh record and dialog. When  *)
(* the session is locked no card is shown and the request parks.            *)
Begin(viaSudo, locked) ==
  /\ At("idle") /\ token < MaxRequests
  /\ token' = token + 1 /\ sudo' = viaSudo
  /\ live' = EmptyLive /\ heard' = {} /\ gone' = FALSE
  /\ dialog' = [acked |-> FALSE, open |-> FALSE]
  /\ verdict' = "none" /\ granted' = NoName /\ nods' = 0 /\ nodNames' = {}
  /\ show' = "begin"
  /\ gesture' = IF locked THEN "locked" ELSE "none"
  /\ Goto(IF locked THEN "load" ELSE "show_check")
  /\ loose' = FALSE
  /\ UNCHANGED <<hold, card>>

(* A hide that fails is logged, and the daemon is done with the card.       *)
LetGo == dialog' = [dialog EXCEPT !.open = FALSE]

Hide ==
  IF dialog.open
  THEN /\ LetGo
       /\ \/ card' = NoCard /\ UNCHANGED loose
          \/ UNCHANGED card /\ loose' = TRUE
  ELSE UNCHANGED <<card, loose, dialog>>

Load ==
  /\ At("load")
  /\ \/ Goto("top") /\ UNCHANGED screen
     \/ Goto("over") /\ Hide /\ UNCHANGED show
  /\ UNCHANGED <<request, record, gone, hold, gesture, counted, fate>>

(* The loop of consent_rounds, with the camera taken for the round.         *)
Top ==
  /\ At("top")
  /\ Goto(IF gone THEN "over" ELSE IF gesture = "locked" THEN "lock" ELSE "round")
  /\ UNCHANGED <<request, record, gone, hold, screen, gesture, counted, fate>>

ToLock(g) == Goto("lock") /\ gesture' = g /\ UNCHANGED screen

(* The top of consent_round's loop: the away clock, the hold, the lock.     *)
RoundTop ==
  /\ At("round")
  /\ \/ MayLeave /\ ~Answered /\ ToLock("lost")
     \/ hold /\ ~Answered /\ StartShow("password") /\ UNCHANGED gesture
     \/ (hold => Answered) /\ ToLock("locked")
     \/ (hold => Answered) /\ Goto("scan_poll") /\ UNCHANGED <<screen, gesture>>
  /\ UNCHANGED <<request, record, gone, hold, counted, fate>>

(* Where a loop polls the record: an answer is taken, a hang-up is read off *)
(* the requester's socket, a re-arm is dropped (ConsentState::poll).        *)
Take == live' = [live EXCEPT !.answer = "none"]

Poll(there, otherwise) ==
  /\ Take
  /\ CASE live.answer = "password" -> Goto(there) /\ gesture' = "password"
       [] live.answer = "dismiss" -> Goto(there) /\ gesture' = "dismissed"
       [] live.answer = "none" /\ gone -> Goto(there) /\ gesture' = "gone"
       [] OTHER -> Goto(otherwise) /\ UNCHANGED gesture
  /\ UNCHANGED <<request, heard, gone, hold, screen, counted, fate>>

(* The scan (run_with_answers): before each frame the answers are read.     *)
ScanPoll == At("scan_poll") /\ Poll("decide", "scan_frame")

ScanFrame ==
  /\ At("scan_frame")
  /\ \/ Goto("scan_poll") /\ UNCHANGED gesture
     \/ Goto("match") /\ UNCHANGED gesture
     \/ Goto("decide") /\ gesture' \in {"nomatch", "denied", "noface", "error"}
  /\ UNCHANGED <<request, record, gone, hold, screen, counted, fate>>

(* The face matched, or a rider was armed: from here the card may arm, the  *)
(* nods start over, and the nod card is shown.                              *)
MatchedNodsKept ==                                              \* mutant
  /\ At("match")
  /\ live' = [live EXCEPT !.face = TRUE]
  /\ StartShow("nod")
  /\ UNCHANGED <<request, heard, gone, hold, gesture, counted, fate>>

Matched ==
  /\ At("match")
  /\ live' = [live EXCEPT !.face = TRUE]
  /\ nods' = 0 /\ nodNames' = {}
  /\ StartShow("nod")
  /\ UNCHANGED <<request, heard, gone, hold, gesture, fate>>
-------------------------------------------------------------------------------
(* The nod window (wait_for_nods): answers, then the rider, then a frame.   *)
NodPoll == At("nod_poll") /\ Poll("nod_drop", "nod_rider")

NodRider ==
  /\ At("nod_rider")
  /\ IF Unshown
     THEN Goto("nod_drop") /\ gesture' = "armed"
     ELSE Goto("nod_frame") /\ UNCHANGED gesture
  /\ UNCHANGED <<request, record, gone, hold, screen, counted, fate>>

(* The followed face is lost or found: the record and the card are told,    *)
(* and a nod begun before a loss is forgotten.                              *)
FaceSeen(present) ==
  /\ live' = [live EXCEPT !.face = present]
  /\ IF live.face # present THEN Resend(live) ELSE UNCHANGED card
  /\ nods' = IF present THEN nods ELSE 0
  /\ nodNames' = IF present THEN nodNames ELSE {}
  /\ Goto("nod_poll")
  /\ UNCHANGED gesture

NodOneMore ==                                                   \* mutant
  /\ live.face
  /\ nods' = nods + 1 /\ nodNames' = nodNames
  /\ IF nods + 1 > NodsNeeded
     THEN Goto("nod_drop") /\ gesture' = "nodded"
     ELSE Goto("nod_poll") /\ UNCHANGED gesture
  /\ UNCHANGED <<live, card>>

Nod ==
  /\ live.face
  /\ nods' = nods + 1
  /\ nodNames' = nodNames \cup (IF card.state = "pending" THEN {card.names} ELSE {})
  /\ IF nods + 1 >= NodsNeeded
     THEN Goto("nod_drop") /\ gesture' = "nodded"
     ELSE Goto("nod_poll") /\ UNCHANGED gesture
  /\ UNCHANGED <<live, card>>

WindowEnds ==
  /\ \/ gesture' \in {"locked", "timeout", "error"}
     \/ gesture' = "lost" /\ MayLeave
     \/ gesture' = "shaken" /\ live.face
     \/ gesture' = "moved" /\ ~live.face
  /\ Goto("nod_drop")
  /\ UNCHANGED <<live, card, counted>>

NodFrame ==
  /\ At("nod_frame")
  /\ \/ \E present \in BOOLEAN : FaceSeen(present)
     \/ Nod
     \/ WindowEnds
  /\ UNCHANGED <<request, heard, gone, hold, dialog, loose, show, fate>>

(* FaceMark::drop: whichever way the window ends, nothing can be armed.     *)
FaceMarkKept == live                                            \* mutant
FaceMarkDrop == [live EXCEPT !.face = FALSE]

NodDrop ==
  /\ At("nod_drop")
  /\ live' = FaceMarkDrop
  /\ CASE gesture = "armed" -> Goto("match") /\ UNCHANGED screen
       [] gesture = "nodded" -> StartShow("confirming")
       [] OTHER -> Goto("decide") /\ UNCHANGED screen
  /\ UNCHANGED <<request, heard, gone, hold, gesture, counted, fate>>

Confirm ==
  /\ At("confirm")
  /\ gesture' \in {"nodded", "unclear", "refused", "error"}
  /\ Goto("decide")
  /\ UNCHANGED <<request, record, gone, hold, screen, counted, fate>>
-------------------------------------------------------------------------------
(* A failure is charged; it may be the one that starts the hold.            *)
Charge == hold' \in {hold, TRUE}

(* What consent_round makes of the end of a scan or a nod window.           *)
Decide ==
  /\ At("decide")
  /\ CASE gesture \in {"gone", "nowindow"} ->
            Goto("over") /\ UNCHANGED <<gesture, hold, screen>>
       [] gesture \in {"lost", "locked"} -> ToLock(gesture) /\ UNCHANGED hold
       [] gesture = "noface" /\ MayLeave -> ToLock("lost") /\ UNCHANGED hold
       [] gesture = "moved" -> StartShow("again") /\ UNCHANGED <<gesture, hold>>
       [] gesture = "timeout" -> StartShow("waiting") /\ UNCHANGED <<gesture, hold>>
       [] gesture = "unclear" \/ (gesture = "noface" /\ ~MayLeave) ->
            StartShow("ask") /\ UNCHANGED <<gesture, hold>>
       [] gesture \in {"nomatch", "denied"} ->
            /\ Charge
            /\ IF hold' THEN Goto("round") /\ UNCHANGED screen ELSE StartShow("ask")
            /\ UNCHANGED gesture
       [] gesture = "refused" -> Charge /\ Goto("finish") /\ UNCHANGED <<gesture, screen>>
       [] OTHER -> Goto("finish") /\ UNCHANGED <<gesture, hold, screen>>
  /\ UNCHANGED <<request, record, gone, counted, fate>>

(* The attention wait: "Ready to nod" is taken, any other answer is left    *)
(* for the scan start; so is a "Ready to nod" that lands between the two    *)
(* looks at the record.                                                     *)
AttendPoll ==
  /\ At("attend_poll")
  /\ Goto(IF Answered THEN "round" ELSE "attend_look")
  /\ \/ live' = IF live.answer = "rearm" THEN [live EXCEPT !.answer = "none"] ELSE live
     \/ UNCHANGED live
  /\ UNCHANGED <<request, heard, gone, hold, screen, gesture, counted, fate>>

AttendLook ==
  /\ At("attend_look")
  /\ \/ ToLock("locked")
     \/ /\ Heartbeat /\ UNCHANGED <<dialog, loose, show>>
        /\ \/ pc' \in {"round", "attend_poll"} /\ UNCHANGED gesture
           \/ MayLeave /\ Goto("lock") /\ gesture' = "lost"
  /\ UNCHANGED <<request, record, gone, hold, counted, fate>>

(* The wait for a hold to pass (hold_wait).                                 *)
HoldPoll ==
  /\ At("hold_poll")
  /\ Goto(IF Answered \/ ~hold THEN "round" ELSE "hold_look")
  /\ UNCHANGED <<request, record, gone, hold, screen, gesture, counted, fate>>

HoldLook ==
  /\ At("hold_look")
  /\ \/ Goto("hold_poll") /\ UNCHANGED <<gesture, screen>>
     \/ MayLeave /\ ToLock("lost")
  /\ UNCHANGED <<request, record, gone, hold, counted, fate>>

(* The hold runs out; the lock screen, which has the camera while the       *)
(* request does not, may start one.                                         *)
HoldEnds ==
  /\ hold
  /\ hold' = FALSE
  /\ UNCHANGED <<pc, request, record, gone, screen, gesture, counted, fate>>

LockScreenFails ==
  /\ pc \in {"idle", "park_poll", "park_wait"} /\ ~hold
  /\ hold' = TRUE
  /\ UNCHANGED <<pc, request, record, gone, screen, gesture, counted, fate>>
-------------------------------------------------------------------------------
(* The user left, or the session is locked: the request parks without the   *)
(* camera, and the card says so unless it was locked by other means.        *)
Lock ==
  /\ At("lock")
  /\ IF gesture = "locked" THEN Goto("park_poll") /\ UNCHANGED screen
                           ELSE StartShow("locked")
  /\ gesture' = "none"
  /\ UNCHANGED <<request, record, gone, hold, counted, fate>>

ParkPoll ==
  /\ At("park_poll")
  /\ Poll(IF live.answer = "none" THEN "over" ELSE "finish",
          IF live.answer = "rearm" THEN "park_poll" ELSE "park_wait")

ParkWait ==
  /\ At("park_wait")
  /\ \/ Heartbeat /\ Goto("park_poll") /\ UNCHANGED <<dialog, loose, show>>
     \/ StartShow("welcome")
  /\ UNCHANGED <<request, record, gone, hold, gesture, counted, fate>>

(* consent_finish. The final payload marks no rider as shown, its failure   *)
(* is not looked at, and whatever was armed rides on an approval only.      *)
DropRider == [live EXCEPT !.minutes = NoName, !.shown = FALSE]

FinalCard == [token |-> token, state |-> "final", names |-> RiderOf(live)]

ShowFinal ==
  /\ LetGo
  /\ \/ card' = FinalCard /\ loose' = FALSE
     \/ SummonFails(FinalCard) /\ loose' = TRUE

ExplicitNo == {"dismissed", "shaken", "refused"}

Approve ==
  /\ gesture \in {"nodded", "password"}
  /\ verdict' = "allow" /\ hold' = FALSE
  /\ ShowFinal
  /\ Goto("grant")
  /\ UNCHANGED live

Refuse ==
  /\ \/ gesture \in ExplicitNo /\ verdict' = "refuse" /\ UNCHANGED hold
     \/ gesture = "password" /\ Charge /\ UNCHANGED verdict
     \/ gesture = "error" /\ UNCHANGED <<hold, verdict>>
  /\ IF gesture \in {"dismissed", "shaken"} THEN Hide ELSE ShowFinal
  /\ live' = DropRider
  /\ Goto("over")

Finish ==
  /\ At("finish")
  /\ Approve \/ Refuse
  /\ UNCHANGED <<request, heard, gone, show, gesture, counted, granted>>

(* take_passwordless on the approval: minutes the card was shown.           *)
TakePasswordless == IF live.shown THEN live.minutes ELSE NoName

Grant ==
  /\ At("grant")
  /\ granted' = TakePasswordless
  /\ live' = DropRider
  /\ Goto("over")
  /\ UNCHANGED <<request, heard, gone, hold, screen, gesture, counted, verdict>>

(* The dialog and the turn are dropped: the card comes down, the record is  *)
(* forgotten.                                                               *)
EndCardKept ==                                                  \* mutant
  /\ At("over")
  /\ live' = EmptyLive
  /\ Goto("idle")
  /\ UNCHANGED <<request, heard, gone, hold, screen, gesture, counted, fate>>

End ==
  /\ At("over")
  /\ Hide
  /\ live' = EmptyLive
  /\ Goto("idle")
  /\ UNCHANGED <<request, heard, gone, hold, show, gesture, counted, fate>>

Daemon ==
  \/ ShowCheck \/ ShowSend \/ ShowAcked \/ ShowUnacked
  \/ Load \/ Top \/ RoundTop \/ ScanPoll \/ ScanFrame \/ Matched
  \/ NodPoll \/ NodRider \/ NodFrame \/ NodDrop \/ Confirm \/ Decide
  \/ AttendPoll \/ AttendLook \/ HoldPoll \/ HoldLook
  \/ Lock \/ ParkPoll \/ ParkWait \/ Finish \/ Grant \/ End

Next ==
  \/ \E viaSudo, locked \in BOOLEAN : Begin(viaSudo, locked)
  \/ Daemon
  \/ Message \/ HangUp \/ HoldEnds \/ LockScreenFails

Spec == Init /\ [][Next]_vars

(* The daemon's thread goes on when it can: every wait of it has a timeout. *)
FairSpec == Spec /\ WF_vars(Daemon)
-------------------------------------------------------------------------------
(* Every variable has its type.                                             *)
TypeOK ==
  /\ pc \in Places /\ token \in 0 .. MaxRequests /\ sudo \in BOOLEAN
  /\ live \in [acked : BOOLEAN, answer : Answers, lane : {"none", "sudo", "polkit"},
               face : BOOLEAN, minutes : Minutes \cup {NoName}, shown : BOOLEAN]
  /\ gone \in BOOLEAN /\ hold \in BOOLEAN
  /\ dialog \in [acked : BOOLEAN, open : BOOLEAN]
  /\ card \in [token : 0 .. MaxRequests, state : {"none", "pending", "final"},
               names : Minutes \cup {NoName}]
  /\ show \in DOMAIN Then /\ gesture \in Gestures /\ nods \in 0 .. NodsNeeded
  /\ verdict \in {"none", "allow", "refuse"} /\ granted \in Minutes \cup {NoName}
  /\ loose \in BOOLEAN /\ heard \subseteq 1 .. MaxRequests /\ nodNames \subseteq Minutes \cup {NoName}

NodWindow == {"nod_poll", "nod_rider", "nod_frame", "nod_drop"}
Showing(s) == pc \in {"show_check", "show_send", "show_wait"} /\ show = s

(* The record says "the face is followed", which lets the card arm, only    *)
(* while the nod card is put up or the nod window runs, whichever of its    *)
(* many ways out the window took, or on the way out of a request that has   *)
(* no window left to nod at and so approves nothing.                        *)
ArmOnlyAtNods ==
  live.face => \/ pc \in NodWindow \/ Showing("nod")
               \/ pc \in {"decide", "over"} /\ gesture = "nowindow"

(* No frame is read for nods unless this request's own window was heard and *)
(* acknowledged its card, however many shows have failed before and         *)
(* whatever an earlier card says late.                                      *)
NodsAtAckedCard == At("nod_frame") => dialog.acked /\ dialog.open /\ token \in heard

(* Together: minutes are armed and nods are read at the nod card and at no  *)
(* other time.                                                              *)
OnlyAtTheNodCard == ArmOnlyAtNods /\ NodsAtAckedCard

(* Inside the nod window the record's word for what the card says is true:  *)
(* minutes marked as shown are the minutes on the card. (Outside it they    *)
(* need not be: a show that fails leaves the mark, and the old card.)       *)
RiderTruthful ==
  /\ pc \in NodWindow /\ live.minutes # NoName /\ live.shown
  /\ card.state = "pending" /\ card.token = token
  => card.names = live.minutes

(* Inside the nod window, once the card has named the rider every nod that  *)
(* counts was made at a card that named it.                                 *)
NodsNameTheRider ==
  pc \in NodWindow /\ live.minutes # NoName /\ live.shown
    => nodNames \subseteq {live.minutes}

(* Together: what the record says of the rider while nods are read is what  *)
(* the card says, and what the nods in the window were made at, though any  *)
(* summon may fail and leave the card before it up.                         *)
RiderIsOnTheCard == RiderTruthful /\ NodsNameTheRider

(* Passwordless sudo comes only of the approval of a sudo request.          *)
GrantNeedsSudo == granted # NoName => sudo /\ verdict = "allow"

(* A pending card that is left on screen when its request is over is one    *)
(* the daemon had no hold of any more: a hide or a final payload failed,    *)
(* the window never acknowledged, or a summon failed that drew the card all *)
(* the same, and no summon has succeeded since. By every other way out of a *)
(* request its card comes down, or stays up to say how it ended.            *)
CardComesDown ==
  At("idle") /\ card.state = "pending" /\ card.token = token => loose

(* A password or a dismissal, once accepted, ends the request wherever the  *)
(* thread was: scanning, counting nods, waiting, on hold or parked.         *)
AnswerEnds == live.answer \in {"password", "dismiss"} ~> At("idle")

(* So does a hang-up, unless somebody presses "Ready to nod" for ever:      *)
(* a poll that takes a re-arm does not look at the socket.                  *)
HangUpEnds == <>[](live.answer # "rearm") => (gone ~> At("idle"))

(* Together: nothing that should end a request leaves it hanging.           *)
RequestEnds == AnswerEnds /\ HangUpEnds

(* README.md:93-95, state.rs:95-98: what is granted was named by the card   *)
(* at every nod that approved it.                                           *)
RiderNamedAtEveryNod == granted # NoName /\ gesture = "nodded" => NoName \notin nodNames

(* README.md:196-198, state.rs:80-84: a hold pauses the face checks.        *)
NoScanDuringHold == At("scan_frame") => ~hold

(* state.rs:68 ("refuse now"): nods do not approve a request that has been  *)
(* dismissed.                                                               *)
DismissRefuses ==
  [][verdict # "allow" /\ verdict' = "allow" /\ gesture = "nodded"
       => live.answer # "dismiss"]_vars
===============================================================================
