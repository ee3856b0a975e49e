----------------------------- MODULE SessionLock -----------------------------
(***************************************************************************)
(* The walk-away lock (presence/lock.rs) and the two threads that ask for  *)
(* it and wait for its end: the presence watch (presence/run.rs) and a     *)
(* consent request whose user left (server/rounds.rs). They share the      *)
(* record of the lock, the cadence of asking the compositor, and the       *)
(* authenticator's mutex, which a consent round holds from end to end.     *)
(*                                                                         *)
(* An instant is kept only as far as the code compares it: `newer` names   *)
(* the instants that the last face match is newer than. The walk-away lock *)
(* is on for the user who asks, so every round has an away time.           *)
(***************************************************************************)
EXTENDS Naturals

CONSTANT AwayLooks       \* looks without the user that make the away time

ASSUME LockAssumption == AwayLooks \in Nat \ {0}

VARIABLES locked,     \* the compositor holds a session lock
          away,       \* nobody who counts is in front of the camera
          record,     \* LockState.locked_at is set
          newer,      \* instants older than the last match of the face
          age,        \* time since LockState.last_check, in coarse units
          auth,       \* who holds the authenticator's mutex
          pc,         \* where each asker's thread stands
          matched,    \* the asker has read that the face matched since
          already,    \* the request found the session locked
          watching,   \* Watch.locked_by_presence
          unseen      \* looks since the user was last seen

vars == <<locked, away, record, newer, age, auth, pc, matched, already, watching, unseen>>

Asker == {"watch", "request"}
Instants == {"record", "watch", "request"}

(* How old the last check must be before an asker may ask again: 2.5 ticks  *)
(* for the watch, 2 seconds for the request, which is less.                 *)
Every == [watch |-> 2, request |-> 1]

Places == {"tick", "read", "match", "look",          \* the watch
           "none", "take", "round", "park",          \* the request
           "lock", "helper", "adopt", "resume", "probe", "clear"}

(* Before the first sighting the away clock does not run.                   *)
NotYetSeen == AwayLooks + 1

Init ==
  /\ locked = FALSE /\ away = FALSE /\ record = FALSE /\ newer = {} /\ age = 2
  /\ auth = "free" /\ pc = [watch |-> "tick", request |-> "none"]
  /\ matched = [x \in Asker |-> FALSE] /\ already = FALSE
  /\ watching = FALSE /\ unseen = NotYetSeen

At(x, here) == pc[x] = here
Goto(x, there) == pc' = [pc EXCEPT ![x] = there]

environment == <<locked, away, age>>
watch == <<watching, unseen>>
-------------------------------------------------------------------------------
(* SessionLock::lock, adopt and resumed, the same for both askers.          *)
(* Whose instant becomes the record's: all that matters of it is whether    *)
(* the last match is newer.                                                 *)
Read(x) == newer' = IF "record" \in newer THEN newer \cup {x} ELSE newer \ {x}

(* adopt: get_or_insert, under the mutex.                                   *)
Record(x) ==
  /\ record' = TRUE
  /\ IF record THEN Read(x) ELSE newer' = newer \ {"record", x}

(* Where an asker goes once the session counts as locked, or as open.       *)
Locked(x) == IF x = "watch" THEN Goto(x, "tick") /\ watching' = TRUE
                            ELSE Goto(x, "park") /\ UNCHANGED watching

Open(x) ==
  IF x = "watch" THEN Goto(x, "look") /\ watching' = FALSE /\ unseen' = 0
                 ELSE Goto(x, "take") /\ UNCHANGED watch

(* lock: a recorded lock is believed; otherwise the helper is run, outside  *)
(* the mutex. A request that found the session locked only adopts the lock. *)
Lock(x) ==
  /\ At(x, "lock")
  /\ IF x = "request" /\ already
     THEN Record(x) /\ Locked(x)
     ELSE /\ IF record THEN Read(x) /\ Locked(x)
                       ELSE Goto(x, "helper") /\ UNCHANGED <<newer, watching>>
          /\ UNCHANGED record
  /\ already' = (already /\ x # "request")
  /\ UNCHANGED <<environment, auth, matched, unseen>>

HelperLocks(x) ==
  /\ At(x, "helper")
  /\ locked' = TRUE
  /\ Goto(x, "adopt")
  /\ UNCHANGED <<away, record, newer, age, auth, matched, already, watch>>

(* The helper says the session is not locked: the watch tries again at its  *)
(* next look, the request parks without a record.                           *)
HelperFails(x) ==
  /\ At(x, "helper")
  /\ ~locked
  /\ Goto(x, IF x = "watch" THEN "tick" ELSE "park")
  /\ newer' = IF x = "watch" THEN newer ELSE newer \ {x}
  /\ UNCHANGED <<environment, record, auth, matched, already, watch>>

Adopt(x) ==
  /\ At(x, "adopt")
  /\ Record(x)
  /\ Locked(x)
  /\ UNCHANGED <<environment, auth, matched, already, unseen>>

(* resumed: no record reads as unlocked elsewhere; a newer match ends the   *)
(* lock; else the compositor is asked when the last check is old enough.    *)
Due(x) == age >= Every[x]

WaitOn(x) == Goto(x, IF x = "watch" THEN "tick" ELSE "park") /\ UNCHANGED watch

ResumedByRecordOnly(x) ==      \* mutant: a lock another asker saw end is waited for
  /\ At(x, "resume")
  /\ IF record /\ matched[x]
     THEN Open(x) /\ record' = FALSE /\ UNCHANGED age
     ELSE WaitOn(x) /\ UNCHANGED <<record, age>>
  /\ UNCHANGED <<locked, away, newer, auth, matched, already>>

Resumed(x) ==
  /\ At(x, "resume")
  /\ IF ~record \/ matched[x]
     THEN Open(x) /\ record' = FALSE /\ UNCHANGED age
     ELSE /\ IF Due(x) THEN Goto(x, "probe") /\ age' = 0 /\ UNCHANGED watch
                       ELSE WaitOn(x) /\ UNCHANGED age
          /\ UNCHANGED record
  /\ UNCHANGED <<locked, away, newer, auth, matched, already>>

(* The compositor is asked outside the mutex; a question that fails reads   *)
(* as an open session.                                                      *)
Reads == {locked, FALSE}

Probe(x) ==
  /\ At(x, "probe")
  /\ \E answer \in Reads : IF answer THEN WaitOn(x) ELSE Goto(x, "clear") /\ UNCHANGED watch
  /\ UNCHANGED <<environment, record, newer, auth, matched, already>>

Clear(x) ==
  /\ At(x, "clear")
  /\ record' = FALSE
  /\ Open(x)
  /\ UNCHANGED <<environment, newer, auth, matched, already>>
-------------------------------------------------------------------------------
(* The watch, one tick. A lock made by a request is taken over.             *)
Tick ==
  /\ At("watch", "tick")
  /\ watching' = (watching \/ record)
  /\ Goto("watch", IF watching' THEN "read" ELSE "look")
  /\ UNCHANGED <<environment, record, newer, auth, matched, already, unseen>>

(* Has the face matched since? The record is read first; the answer then    *)
(* waits for the authenticator's mutex, for as long as a round holds it.    *)
ReadRecord ==
  /\ At("watch", "read")
  /\ IF record THEN Read("watch") /\ Goto("watch", "match") /\ UNCHANGED matched
               ELSE /\ Goto("watch", "resume")
                    /\ matched' = [matched EXCEPT !["watch"] = FALSE]
                    /\ UNCHANGED newer
  /\ UNCHANGED <<environment, record, auth, already, watch>>

ReadMatch ==
  /\ At("watch", "match")
  /\ auth = "free"
  /\ matched' = [matched EXCEPT !["watch"] = "watch" \in newer]
  /\ Goto("watch", "resume")
  /\ UNCHANGED <<environment, record, newer, auth, already, watch>>

(* A look, under the authenticator's mutex, and its step: the watch locks   *)
(* at the away time and at every look after it until a lock succeeds.       *)
Looked(clock) ==
  /\ At("watch", "look")
  /\ auth = "free"
  /\ unseen' = clock
  /\ Goto("watch", IF clock = AwayLooks THEN "lock" ELSE "tick")
  /\ UNCHANGED <<environment, record, newer, auth, matched, already, watching>>

LookLocksOnce ==               \* mutant: only the transition to away locks
  IF away /\ unseen = AwayLooks
  THEN /\ At("watch", "look") /\ auth = "free" /\ Goto("watch", "tick")
       /\ UNCHANGED <<environment, record, newer, auth, matched, already, watch>>
  ELSE Looked(IF ~away THEN 0 ELSE IF unseen < AwayLooks THEN unseen + 1 ELSE unseen)

Look == Looked(IF ~away THEN 0 ELSE IF unseen < AwayLooks THEN unseen + 1 ELSE unseen)

LookFails ==
  /\ At("watch", "look")
  /\ auth = "free"
  /\ Goto("watch", "tick")
  /\ UNCHANGED <<environment, record, newer, auth, matched, already, watch>>
-------------------------------------------------------------------------------
(* A consent request. One that finds the session locked parks at once. The  *)
(* request, as it begins and as it ends, restarts the watch's clock.        *)
Arrive ==
  /\ At("request", "none")
  /\ already' \in Reads
  /\ unseen' = 0
  /\ Goto("request", IF already' THEN "lock" ELSE "take")
  /\ UNCHANGED <<environment, record, newer, auth, matched, watching>>

Take ==
  /\ At("request", "take")
  /\ auth = "free"
  /\ auth' = "request"
  /\ Goto("request", "round")
  /\ UNCHANGED <<environment, record, newer, matched, already, watch>>

RoundEnds(there) ==
  /\ At("request", "round")
  /\ auth' = "free"
  /\ Goto("request", there)
  /\ UNCHANGED <<environment, record, matched, watching>>

Done == RoundEnds("none") /\ unseen' = 0 /\ newer' \in {newer, Instants} /\ UNCHANGED already
FaceLost == away /\ RoundEnds("lock") /\ already' = FALSE /\ UNCHANGED <<newer, unseen>>
SessionLocked == locked /\ RoundEnds("lock") /\ already' = TRUE /\ UNCHANGED <<newer, unseen>>

(* Parked: the answer or the hang-up may end it; otherwise the match is     *)
(* read, if the mutex is free at that instant (a look or another attempt    *)
(* may hold it), and the lock is asked about.                               *)
ParkAnswered ==
  /\ At("request", "park")
  /\ auth = "free"
  /\ Goto("request", "none")
  /\ unseen' = 0
  /\ UNCHANGED <<environment, record, newer, auth, matched, already, watching>>

ParkRead ==
  /\ At("request", "park")
  /\ \E free \in BOOLEAN : matched' = [matched EXCEPT !["request"] = free /\ "request" \in newer]
  /\ Goto("request", "resume")
  /\ UNCHANGED <<environment, record, newer, auth, already, watch>>
-------------------------------------------------------------------------------
(* The user and the desktop. An attempt, the lock screen's most likely,     *)
(* needs the camera; the unlock itself follows its match, and an unlock by  *)
(* password or fingerprint follows none.                                    *)
FaceMatch ==
  /\ ~away /\ auth = "free"
  /\ newer' = Instants
  /\ unseen' = 0
  /\ UNCHANGED <<environment, record, auth, pc, matched, already, watching>>

Desktop ==
  /\ \/ locked' = ~locked /\ UNCHANGED away
     \/ away' = ~away /\ UNCHANGED locked
  /\ UNCHANGED <<record, newer, age, auth, pc, matched, already, watch>>

TimePasses ==
  /\ age < 2 /\ age' = age + 1
  /\ UNCHANGED <<locked, away, record, newer, auth, pc, matched, already, watch>>

Shared(x) == Lock(x) \/ HelperLocks(x) \/ HelperFails(x) \/ Adopt(x)
               \/ Resumed(x) \/ Probe(x) \/ Clear(x)
WatchThread == Shared("watch") \/ Tick \/ ReadRecord \/ ReadMatch \/ Look \/ LookFails
Parked == Shared("request") \/ Take \/ ParkRead

Next == \/ WatchThread \/ Parked
        \/ Arrive \/ Done \/ FaceLost \/ SessionLocked \/ ParkAnswered
        \/ FaceMatch \/ Desktop \/ TimePasses

Spec == Init /\ [][Next]_vars

(* Both threads go on when they can. The mutex is not fair, but each thread *)
(* tries again and again and gets it in the end; so do a look at the camera *)
(* and a helper that is run again and again. The round's own away clock     *)
(* ends it while nobody is there. The user owes nothing: no answer, no      *)
(* unlock, no return.                                                       *)
FairSpec ==
  /\ Spec
  /\ WF_vars(WatchThread) /\ SF_vars(Tick \/ ReadMatch) /\ SF_vars(Look)
  /\ WF_vars(Parked) /\ SF_vars(Take)
  /\ WF_vars(FaceLost) /\ WF_vars(TimePasses)
  /\ \A x \in Asker : SF_vars(HelperLocks(x))
-------------------------------------------------------------------------------
(* Every variable has its type.                                             *)
TypeOK ==
  /\ {locked, away, record, already, watching} \subseteq BOOLEAN
  /\ newer \subseteq Instants /\ age \in 0 .. 2 /\ auth \in {"free", "request"}
  /\ pc \in [Asker -> Places] /\ matched \in [Asker -> BOOLEAN]
  /\ unseen \in 0 .. NotYetSeen

(* A parked request whose session stays open goes on, however it was        *)
(* unlocked, whoever notices first and whoever keeps asking.                *)
ParkEnds ==
  <>[]~locked => (At("request", "park") ~> pc["request"] \in {"none", "take", "round"})

(* The watch does not sleep through an open session: unless a round holds   *)
(* the authenticator, it takes its clock up again.                          *)
WatchWakes == <>[]~locked => []<>(~watching \/ At("request", "round"))

(* Together: an unlock is seen by whoever waits for it.                     *)
UnlockIsSeen == ParkEnds /\ WatchWakes

(* Walking away locks the session once somebody has been there, whichever   *)
(* thread has the camera, however stale the record was when the user left   *)
(* and however often the lock is undone; only requests that keep coming and *)
(* being answered, each taken for the user at the desk, put it off.         *)
LastRequest == LET idle == At("request", "none") IN <>[]idle \/ <>[]~idle

WalkAwayLocks == <>[](away /\ unseen # NotYetSeen) /\ LastRequest => []<>locked

(* rounds.rs:10-12, lock.rs:67: a request whose user left parks only with   *)
(* the session locked.                                                      *)
ParkedLocked ==
  [][At("request", "lock") /\ ~already /\ pc'["request"] = "park" => locked]_vars
==============================================================================
