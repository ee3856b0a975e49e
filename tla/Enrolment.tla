------------------------------ MODULE Enrolment ------------------------------
(***************************************************************************)
(* The enrolment walk-through: the root request that runs it (handle.rs),   *)
(* the one session and its three statics (enrol/session.rs), the camera     *)
(* loop and its steps (enrol/walk.rs, enrol/steps.rs), and the short-lived  *)
(* threads of the window's own requests, which check who runs the session   *)
(* first and hand their word, or their connection, to it later.             *)
(*                                                                         *)
(* The request holds the authenticator's mutex from the open of the store   *)
(* to the end of the session, so sessions do not overlap; the window's      *)
(* threads take no lock but that of the static they touch.                  *)
(***************************************************************************)
EXTENDS Naturals, Sequences, FiniteSets

CONSTANTS Users, Window,     \* the threads of the window's requests
          Sessions,          \* bound: sessions in a behaviour
          Words              \* bound: control words waiting

ASSUME EnrolAssumption == Sessions \in Nat \ {0} /\ Words \in Nat \ {0}

VARIABLES active,     \* ACTIVE: whose session runs
          watcher,    \* WATCHERS: whose connection the stream goes to
          control,    \* CONTROL: the words not yet taken
          asking,     \* what each thread of the window has been let in for
          acl,        \* who may connect to the socket
          poisoned,   \* a thread has panicked with the authenticator's mutex
          pc,         \* where the session's thread stands
          who, start, \* the session's user, and the screen it starts at
          session,    \* sessions so far
          step, taken,\* the step, and the templates taken at this hold
          hits,       \* frames recognised at the verify step
          saved,      \* the session's looks are on disk
          kinds,      \* kinds_this_session
          u,          \* the gesture rounds of the set being made
          disk,       \* the gesture rounds on disk, or NoSet
          outcome     \* the outcome of this session, once it has one

link == <<active, watcher, control>>
walk == <<step, taken, hits, saved, kinds, u>>   \* the locals of run_inner
vars == <<link, asking, acl, poisoned, pc, who, start, session, walk, disk, outcome>>

Nobody == "nobody"
Root == "root"
Starts == {"welcome", "distance", "range", "path", "hold", "bridge"}
Control == {"continue", "redo", "cancel"}
Kinds == {"nod", "shake", "everyday"}

(* HOLD_ZONES, HOLD_WANTED and ROUNDS: the everyday rounds are one kind.    *)
Zones == 6
HoldWanted == 3
RoundCount == 12
StoredAs(i) == IF i <= 2 THEN "nod" ELSE IF i <= 4 THEN "shake" ELSE "everyday"

At(name) == [name |-> name, i |-> 0]
Nth(name, i) == [name |-> name, i |-> i]
Steps == [name : {"welcome", "centre", "range", "path", "verify", "bridge"}, i : {0}]
         \cup [name : {"hold"}, i : 1..Zones] \cup [name : {"round"}, i : 1..RoundCount]

FromStart == [welcome |-> At("welcome"), distance |-> At("centre"), range |-> At("range"),
              path |-> At("path"), hold |-> Nth("hold", 1), bridge |-> At("bridge")]

(* Add Look stops after verify; every other session ends with the rounds.   *)
EndsAtVerify == start \in {"distance", "path", "hold"}

(* A round of the person's, by the session that recorded it. Which of a     *)
(* session's nods, or of its shakes, could be read back is one and the same. *)
Rounds == [session : 1..Sessions, i : 0..RoundCount]
Round(i) == [session |-> session, i |-> IF StoredAs(i) = "everyday" THEN i ELSE 0]
Sets == [Kinds -> SUBSET Rounds]
NoRounds == [k \in Kinds |-> {}]
NoSet == [none |-> {}]

Places == {"none", "open", "summon", "top", "frame", "told", "over"}

Init ==
  /\ active = Nobody /\ watcher = Nobody /\ control = <<>>
  /\ asking = [w \in Window |-> Nobody] /\ acl = {} /\ poisoned = FALSE
  /\ pc = "none" /\ who = Nobody /\ start = "welcome" /\ session = 0
  /\ step = At("welcome") /\ taken = 0 /\ hits = 0 /\ saved = FALSE /\ kinds = {}
  /\ u = NoRounds /\ disk = [x \in Users |-> NoSet] /\ outcome = "none"

Goto(p) == pc' = p
-------------------------------------------------------------------------------
(* The window's threads. The gate asks active_for and lets the request in;   *)
(* the word, or the connection, is handed over afterwards. Root's request    *)
(* is let in without a look at the claim. A second watcher replaces the      *)
(* first.                                                                   *)
AskIn(w) ==
  /\ asking[w] = Nobody /\ active \in acl /\ asking' = [asking EXCEPT ![w] = active]
  /\ UNCHANGED <<link, acl, poisoned, pc, who, start, session, walk, disk, outcome>>

LetIn(w) == IF asking[w] = Nobody THEN Root ELSE asking[w]

Watch(w) ==
  /\ watcher' = LetIn(w) /\ asking' = [asking EXCEPT ![w] = Nobody]
  /\ UNCHANGED <<active, control, acl, poisoned, pc, who, start, session, walk, disk, outcome>>

Steer(w) ==
  /\ Len(control) < Words /\ \E word \in Control : control' = Append(control, word)
  /\ asking' = [asking EXCEPT ![w] = Nobody]
  /\ UNCHANGED <<active, watcher, acl, poisoned, pc, who, start, session, walk, disk, outcome>>

(* broadcast drops a watcher that does not read, or hung up.                *)
WatcherGone == /\ watcher # Nobody /\ pc \in {"frame", "told"} /\ watcher' = Nobody
               /\ UNCHANGED <<active, control, asking, acl, poisoned, pc, who, start, session, walk, disk, outcome>>
-------------------------------------------------------------------------------
(* release: the watchers, the words, then the claim.                        *)
ReleaseClaimOnly == active' = Nobody /\ UNCHANGED <<watcher, control>>   \* mutant: only the claim
Release == active' = Nobody /\ watcher' = Nobody /\ control' = <<>>

LocalsGone == /\ step' = At("welcome") /\ taken' = 0 /\ hits' = 0 /\ saved' = FALSE
              /\ kinds' = {} /\ u' = NoRounds

Enrolled(d) == {x \in Users : d[x] # NoSet}

(* refresh_socket_acl waits for the authenticator and makes the list the    *)
(* store's again, unless the mutex is poisoned: then it does nothing.       *)
Listed(d) == IF poisoned THEN acl ELSE Enrolled(d)

(* The root request: the grant is made before the window is summoned,       *)
(* because the window connects once and never retries. The next may come    *)
(* before the last has refreshed the list, and then does that for both.      *)
Arrive ==
  /\ pc \in {"none", "over"} /\ session < Sessions
  /\ \E x \in Users, s \in Starts : who' = x /\ start' = s /\ acl' = Enrolled(disk) \cup {x}
  /\ session' = session + 1 /\ Goto("open") /\ outcome' = "none"
  /\ UNCHANGED <<link, asking, poisoned, walk, disk>>

(* A request that finds the authenticator taken for six seconds answers     *)
(* "busy", and refreshes the list once it is free.                          *)
Busy ==
  /\ pc = "over" /\ acl' = Listed(disk)
  /\ UNCHANGED <<link, asking, poisoned, pc, who, start, session, walk, disk, outcome>>

(* The preconditions, before the claim: no session runs, the store's        *)
(* opener, the model, the mesh. A set the store could not open is set       *)
(* aside, or the session fails.                                             *)
OpenFails ==
  /\ pc = "open" /\ Goto("over") /\ outcome' = "error"
  /\ disk' \in {disk, [disk EXCEPT ![who] = NoSet]}
  /\ UNCHANGED <<link, asking, acl, poisoned, who, start, session, walk>>

Claim ==
  /\ pc = "open" /\ active = Nobody /\ Goto("summon")
  /\ disk' \in {disk, [disk EXCEPT ![who] = NoSet]}
  /\ u' = IF disk'[who] = NoSet THEN NoRounds ELSE disk'[who]
  /\ active' = who /\ control' = <<>>
  /\ UNCHANGED <<watcher, asking, acl, poisoned, who, start, session, step, taken, hits, saved, kinds, outcome>>

(* The window never opened: nothing to tell and nothing to hide.            *)
Abandon ==
  /\ pc = "summon" /\ Release /\ Goto("over") /\ outcome' = "error" /\ LocalsGone
  /\ UNCHANGED <<asking, acl, poisoned, who, start, session, disk>>

Summoned ==
  /\ pc = "summon" /\ Goto("top") /\ step' = FromStart[start]
  /\ taken' = 0 /\ hits' = 0 /\ saved' = FALSE /\ kinds' = {}
  /\ UNCHANGED <<link, asking, acl, poisoned, who, start, session, u, disk, outcome>>

(* Session::end, the one way out once the window is up: the window is told, *)
(* a second and a half passes, the claim is released, the window hidden.    *)
Tell(o) == Goto("told") /\ outcome' = o

End ==
  /\ pc = "told" /\ Release /\ LocalsGone /\ Goto(IF outcome = "panic" THEN "none" ELSE "over")
  /\ poisoned' = (poisoned \/ outcome = "panic")
  /\ UNCHANGED <<asking, acl, who, start, session, disk, outcome>>

FailWithoutEnd ==        \* mutant: an error leaves the loop without ending the session
  /\ pc \in {"summon", "top", "frame"} /\ Goto("over") /\ outcome' = "error"
  /\ UNCHANGED <<link, asking, acl, poisoned, who, start, session, walk, disk>>

(* The camera, the detector, the mesh or the embedder.                      *)
Fail ==
  /\ pc \in {"summon", "top", "frame"} /\ Tell("error")
  /\ UNCHANGED <<link, asking, acl, poisoned, who, start, session, walk, disk>>

(* A panic unwinds through the session, whose drop ends it, and through the *)
(* guard, which poisons the mutex: others still take it. Nothing refreshes  *)
(* the list, now or later.                                                  *)
Panic ==
  /\ pc \in {"open", "summon", "top", "frame"} /\ outcome' = "panic"
  /\ Goto(IF pc = "open" THEN "none" ELSE "told")
  /\ poisoned' = (poisoned \/ pc = "open")
  /\ UNCHANGED <<link, asking, acl, who, start, session, walk, disk>>

RefreshIfEnrolled ==        \* mutant: the list is refreshed after a success only
  /\ pc = "over" /\ Goto("none")
  /\ acl' = IF outcome = "enrolled" THEN Listed(disk) ELSE acl
  /\ UNCHANGED <<link, asking, poisoned, who, start, session, walk, disk, outcome>>

(* Every outcome: the socket's list is the store's again.                   *)
Refresh ==
  /\ pc = "over" /\ Goto("none") /\ acl' = Listed(disk)
  /\ UNCHANGED <<link, asking, poisoned, who, start, session, walk, disk, outcome>>

Delete ==
  /\ pc \in {"none", "over"} /\ \E x \in Users : disk' = [disk EXCEPT ![x] = NoSet]
  /\ disk' # disk /\ acl' = Listed(disk')
  /\ UNCHANGED <<link, asking, poisoned, pc, who, start, session, walk, outcome>>
-------------------------------------------------------------------------------
(* The loop. At its top, the session's 15 minutes and one control word; a   *)
(* redo starts the step over and keeps what was taken.                      *)
RunOut ==
  /\ pc = "top" /\ Tell("error")
  /\ UNCHANGED <<link, asking, acl, poisoned, who, start, session, walk, disk>>

NoWord == /\ pc = "top" /\ control = <<>> /\ Goto("frame")
          /\ UNCHANGED <<link, asking, acl, poisoned, who, start, session, walk, disk, outcome>>

Continued == CASE step.name = "welcome" -> At("centre")
               [] step.name = "bridge" -> Nth("round", 1)
               [] OTHER -> step

TakeWord ==
  /\ pc = "top" /\ control # <<>> /\ control' = Tail(control)
  /\ LET word == Head(control)
     IN  /\ IF word = "cancel" THEN Tell("error") ELSE Goto("frame") /\ UNCHANGED outcome
         /\ step' = IF word = "continue" THEN Continued ELSE step
         /\ taken' = IF word = "redo" /\ step.name = "hold" THEN 0 ELSE taken
  /\ UNCHANGED <<active, watcher, asking, acl, poisoned, who, start, session, hits, saved, kinds, u, disk>>

(* A frame without a face, or one that does not bring the step to its end.  *)
FrameOnly == /\ pc = "frame" /\ Goto("top")
             /\ UNCHANGED <<link, asking, acl, poisoned, who, start, session, walk, disk, outcome>>

Judged == pc = "frame" /\ UNCHANGED <<link, asking, acl, poisoned, who, start, session>>

(* The centre is learned, the range passed, the path followed to its end.   *)
StepDone ==
  /\ Judged /\ step.name \in {"centre", "range", "path"} /\ Goto("top")
  /\ step' = CASE step.name = "centre" -> At("range")
               [] step.name = "range" -> At("path")
               [] step.name = "path" -> Nth("hold", 1)
  /\ taken' = 0
  /\ UNCHANGED <<hits, saved, kinds, u, disk, outcome>>

HoldTakes ==
  /\ Judged /\ step.name = "hold" /\ taken + 1 < HoldWanted /\ Goto("top")
  /\ taken' = taken + 1
  /\ UNCHANGED <<step, hits, saved, kinds, u, disk, outcome>>

(* The last look of a zone; after the last zone the set is pruned and saved.*)
HoldEnds ==
  /\ Judged /\ step.name = "hold" /\ taken + 1 = HoldWanted /\ taken' = 0
  /\ IF step.i < Zones
     THEN Goto("top") /\ step' = Nth("hold", step.i + 1) /\ UNCHANGED <<disk, saved, outcome>>
     ELSE /\ step' = At("verify")
          /\ \/ /\ disk' = [disk EXCEPT ![who] = u] /\ saved' = TRUE
                /\ Goto("top") /\ UNCHANGED outcome
             \/ UNCHANGED <<disk, saved>> /\ Tell("error")
  /\ UNCHANGED <<hits, kinds, u>>

VerifyOnce ==        \* mutant: one recognised frame is enough
  /\ Judged /\ step.name = "verify" /\ hits' = hits + 1
  /\ IF EndsAtVerify THEN Tell("enrolled") /\ UNCHANGED step
                     ELSE Goto("top") /\ step' = At("bridge") /\ UNCHANGED outcome
  /\ UNCHANGED <<taken, saved, kinds, u, disk>>

(* Two frames recognised by the saved set end the looks.                    *)
Verify ==
  /\ Judged /\ step.name = "verify" /\ hits' = hits + 1
  /\ IF hits' < 2 THEN Goto("top") /\ UNCHANGED <<step, outcome>>
     ELSE IF EndsAtVerify THEN Tell("enrolled") /\ UNCHANGED step
                          ELSE Goto("top") /\ step' = At("bridge") /\ UNCHANGED outcome
  /\ UNCHANGED <<taken, saved, kinds, u, disk>>

(* Twenty seconds without: the session fails, what was saved stays.         *)
NotRecognised == /\ Judged /\ step.name = "verify" /\ Tell("error")
                 /\ UNCHANGED <<walk, disk>>

(* begin_kind: a session's first round of a kind replaces every earlier     *)
(* session's rounds of it, its later rounds add to them.                    *)
Begun(k) == IF k \in kinds THEN u[k] ELSE {}

(* A nod or a shake that the detectors cannot read back at any floor is not *)
(* kept; the kind has begun all the same. Every round ends with a save.     *)
RoundEnds ==
  /\ Judged /\ step.name = "round"
  /\ LET k == StoredAs(step.i)
     IN  \E reads \in IF k = "everyday" THEN {TRUE} ELSE BOOLEAN :
           /\ u' = [u EXCEPT ![k] = Begun(k) \cup IF reads THEN {Round(step.i)} ELSE {}]
           /\ kinds' = kinds \cup {k}
  /\ \/ /\ disk' = [disk EXCEPT ![who] = u']
        /\ IF step.i < RoundCount
           THEN Goto("top") /\ step' = Nth("round", step.i + 1) /\ UNCHANGED outcome
           ELSE Tell("enrolled") /\ UNCHANGED step
     \/ UNCHANGED <<disk, step>> /\ Tell("error")
  /\ UNCHANGED <<taken, hits, saved>>
-------------------------------------------------------------------------------
Loop == NoWord \/ TakeWord \/ FrameOnly \/ StepDone \/ HoldTakes \/ HoldEnds \/ Verify
        \/ NotRecognised \/ RoundEnds
Request == OpenFails \/ Claim \/ Abandon \/ Summoned \/ Fail \/ Panic \/ RunOut \/ Loop \/ End \/ Refresh
Requests == Arrive \/ Busy \/ Delete

Next == Requests \/ Request \/ WatcherGone
        \/ \E w \in Window : AskIn(w) \/ Watch(w) \/ Steer(w)

(* The session's thread runs on, and its fifteen minutes pass: at some top  *)
(* of the loop they have. What the window sends is up to the person.        *)
Fairness == WF_vars(Request) /\ SF_vars(RunOut)
Spec == Init /\ [][Next]_vars
LiveSpec == Spec /\ Fairness
-------------------------------------------------------------------------------
TypeOK ==
  /\ active \in Users \cup {Nobody} /\ watcher \in Users \cup {Nobody, Root}
  /\ control \in Seq(Control) /\ Len(control) <= Words
  /\ asking \in [Window -> Users \cup {Nobody}] /\ acl \subseteq Users /\ poisoned \in BOOLEAN
  /\ pc \in Places /\ who \in Users \cup {Nobody} /\ start \in Starts
  /\ session \in 0..Sessions /\ step \in Steps /\ taken \in 0..HoldWanted - 1
  /\ hits \in 0..2 /\ saved \in BOOLEAN /\ kinds \subseteq Kinds
  /\ u \in Sets /\ disk \in [Users -> Sets \cup {NoSet}]
  /\ outcome \in {"none", "error", "enrolled", "panic"}

(* What a stored set says of a kind of gesture comes from one session, with *)
(* all the rounds of it that session has kept: an exaggerated or an aborted *)
(* session is replaced, never mixed with.                                   *)
OneSessionPerKind ==
  /\ \A x \in Users : disk[x] # NoSet =>
       \A k \in Kinds : Cardinality({r.session : r \in disk[x][k]}) <= 1
  /\ (pc = "told" /\ outcome = "enrolled" /\ ~EndsAtVerify) =>
       \A i \in 1..RoundCount : StoredAs(i) = "everyday" => Round(i) \in disk[who]["everyday"]

(* An enrolment of looks reports success only once the set on disk has      *)
(* recognised the person twice.                                             *)
RecognisedBeforeDone ==
  (pc = "told" /\ outcome = "enrolled" /\ start # "bridge") => saved /\ hits = 2

(* While the window is up its user may connect, and once the session is     *)
(* over only those with a set on disk may, until a thread has panicked with *)
(* the authenticator.                                                       *)
GrantGoesWithTheSession ==
  /\ pc \in {"summon", "top", "frame", "told"} => active = who /\ who \in acl
  /\ pc = "none" => active = Nobody /\ (poisoned \/ acl = Enrolled(disk))

(* Together: a session leaves nothing of its own to the next, neither       *)
(* rounds in a set nor the right to connect.                                *)
SessionsKeepApart == OneSessionPerKind /\ GrantGoesWithTheSession

(* Every session ends, whoever stopped watching it: the claim is released   *)
(* and the next enrolment is not refused as already running.                *)
SessionEnds == (active # Nobody) ~> (active = Nobody)

(* handle.rs:470: "The session's own user (or root) may watch it and steer  *)
(* it". What a thread was let in for while one user's session ran may reach  *)
(* another's: the gate looks at the claim, and the word, or the connection,  *)
(* is handed over later, to whatever session runs by then.                  *)
OnlyItsUserIsHeard ==
  [][\A w \in Window :
       asking[w] # Nobody /\ asking'[w] = Nobody => active \in {asking[w], Nobody}]_vars

(* handle.rs:463-465: "Every outcome: back to the template-only list, which *)
(* [...] drops the session grant after a failed or cancelled one".          *)
EveryOutcomeRefreshes ==
  (pc = "none" /\ outcome \in {"error", "enrolled"}) => acl = Enrolled(disk)
=============================================================================
