------------------------------- MODULE Presence -------------------------------
(***************************************************************************)
(* The presence watch: its thread (presence/run.rs), one look with the     *)
(* camera (presence/observe.rs) and the rules that turn looks into a lock  *)
(* (presence/watch.rs), with the mode its user may switch at any time over *)
(* the socket (server/presence.rs). SessionLock has the lock itself step   *)
(* by step; here it is a session that locks and opens again.               *)
(*                                                                         *)
(* Instants are kept as ages, in units of the secure mode's tick and cut   *)
(* off at Cap, and a frame as whether the shape in it is the user's. What  *)
(* the camera shows is whoever sits in the chair, as well as it can be     *)
(* read: a flash without a signal, a face out of range, templates that     *)
(* cannot be loaded, and scores near or far below the threshold.           *)
(***************************************************************************)
EXTENDS Integers

CONSTANTS Never,          \* no such instant, no such limit
          Cap,            \* ages from here on are alike
          ObscuredRange,  \* <<least, most>> obscured-face lock of the secure mode
          Configs         \* the [presence] tables tried

(* The lock times of a table that from_text lets through: no away time of 0, *)
(* and "never" only in the default mode.                                     *)
PresenceConfig == [away : (1..Cap) \cup {Never}, secure_away : 1..Cap,
                   obscured : (0..Cap) \cup {Never}, secure_obscured : 0..Cap]

ASSUME PresenceAssumption ==
  /\ Cap \in Nat /\ Never \notin 0..Cap
  /\ ObscuredRange \in (1..Cap) \X (1..Cap) /\ ObscuredRange[1] <= ObscuredRange[2]
  /\ Configs \subseteq PresenceConfig

Modes == {"default", "secure"}
States == {"Present", "Away", "Stranger", "Unknown"}

VARIABLES cfg,            \* the [presence] table the daemon started with
          now_mode,       \* MODE, which the socket sets
          chair,          \* who is in front of the camera
          session,        \* "open" or "locked", as the compositor has it
          record,         \* SESSION_LOCK holds a lock
          pc,             \* where the watch's thread stands
          mode,           \* the mode it read this tick
          tick,           \* its tick, as far as the cadences tell ticks apart
          identify,       \* this tick checks identity
          state, last_seen, last_full, reference,        \* Watch
          locked_by_presence, identity_ok, identity_fails,
          recent,         \* age of a consent or a match the watch has not noted
          last,           \* the state in LAST
          gone,           \* history: time since a look last met somebody the mode
                          \* accepts, or the user unlocked, asked or matched
          unproved,       \* history: the same for a passed check in the secure mode,
                          \* 0 in the default mode
          settled,        \* history: the user has been in every frame since the
                          \* reference was taken, in the default mode
          strangers       \* history: looks in a row at a stranger who can be read

watched == <<state, last_seen, last_full, reference, locked_by_presence,
             identity_ok, identity_fails>>
history == <<gone, unproved, settled, strangers>>
world == <<now_mode, chair, session, record, recent>>
vars == <<cfg, world, pc, mode, tick, identify, watched, last, history>>

Init ==
  /\ cfg \in Configs
  /\ now_mode \in Modes /\ mode = now_mode
  /\ chair \in {"user", "empty"} /\ session = "open" /\ record = FALSE
  /\ pc = "tick" /\ tick = 0 /\ identify = FALSE
  /\ state = "Unknown" /\ last_seen = Never /\ last_full = Never
  /\ reference = FALSE /\ locked_by_presence = FALSE
  /\ identity_ok = TRUE /\ identity_fails = 0
  /\ recent = Never /\ last = "none"
  /\ gone = 0 /\ unproved = 0 /\ settled = FALSE /\ strangers = 0
-------------------------------------------------------------------------------
(* The lock times of a mode. The secure mode always has them: its obscured  *)
(* time is clamped into its range, and its away time has no "never".        *)
away_for(m) == IF m = "secure" THEN cfg.secure_away ELSE cfg.away

Clamped(v, range) == IF v < range[1] THEN range[1]
                     ELSE IF v > range[2] THEN range[2] ELSE v

obscured_lock_for(m) ==
  IF m = "secure" THEN Clamped(cfg.secure_obscured, ObscuredRange)
  ELSE IF cfg.obscured = 0 THEN 1 ELSE cfg.obscured

(* Ages: how time passes for one, and whether one is within a limit.        *)
Older(age, by) == IF age = Never THEN Never
                  ELSE IF age + by >= Cap THEN Cap ELSE age + by

Within(age, limit) == age # Never /\ (limit = Never \/ age < limit)
Reached(age, limit) == age # Never /\ limit # Never /\ age >= limit

tick_for(m) == IF m = "secure" THEN 1 ELSE 2

TimePasses(by) ==
  /\ last_seen' = Older(last_seen, by) /\ last_full' = Older(last_full, by)
  /\ recent' = Older(recent, by)

(* Identity is checked on every tick of the secure mode; in the default     *)
(* mode every third, and every other one while the user is not confirmed.   *)
identify_this_tick(m, t) ==
  m = "secure" \/ t % 3 = 0 \/ (state # "Present" /\ t % 2 = 0)
-------------------------------------------------------------------------------
(* One look.                                                                *)
Frame(shape) == [face |-> FALSE, attentive |-> FALSE, identity |-> "none",
                 near_miss |-> FALSE, shape |-> shape]

(* The flash gate's verdict, then the embedding's score, if it comes to it. *)
Verdicts == {"pass", "refused", "no signal", "cannot run"}

after_gate(verdict, strict) ==
  IF verdict = "refused" THEN "Refused"
  ELSE IF verdict = "no signal" /\ strict THEN "Unconfirmed" ELSE "Embed"

Scores(who) == IF who = "stranger" THEN {"far"} ELSE {"pass", "near", "far"}

Reading(verdict, score, strict) ==
  IF after_gate(verdict, strict) = "Refused" THEN <<"no", FALSE>>
  ELSE IF after_gate(verdict, strict) = "Unconfirmed" \/ score = "unreadable"
       THEN <<"none", FALSE>>
  ELSE IF score = "pass" THEN <<"yes", FALSE>> ELSE <<"no", score = "near">>

Readings(who, strict) ==
  {Reading(v, s, strict) : v \in Verdicts, s \in Scores(who) \cup {"unreadable"}}

(* What a look at the chair may come back with: nothing, no face, a face    *)
(* that was not checked (not this tick, or beyond the line), or a reading.  *)
(* The user who can be seen is found and looks at the screen.               *)
Face(a, r) == [face |-> TRUE, attentive |-> a, identity |-> r[1], near_miss |-> r[2],
               shape |-> chair \in {"user", "hidden"}]

Looks ==
  LET poses == IF chair = "user" THEN {TRUE} ELSE BOOLEAN
      checks == {<<"none", FALSE>>}
                \cup (IF identify THEN Readings(chair, mode = "secure") ELSE {})
  IN {Frame(FALSE)}                                        \* no frame came
     \cup (IF chair = "user" THEN {} ELSE {Frame(chair = "hidden")})
     \cup (IF chair = "empty" THEN {}
           ELSE UNION {{Face(a, r) : r \in checks} : a \in poses})
-------------------------------------------------------------------------------
(* Watch::step, on what the look saw.                                       *)
Strikes == IF mode = "secure" THEN 1 ELSE 2

FailsForgotten(o) ==           \* mutant: a look without a check clears the count
  IF o.identity = "no" /\ identity_fails < 2 THEN identity_fails + 1 ELSE 0

Fails(o) == IF o.identity = "yes" THEN 0
            ELSE IF o.identity = "no" /\ identity_fails < 2 THEN identity_fails + 1
            ELSE identity_fails

IdentityOk(o) == o.identity = "yes" \/ (identity_ok /\ ~(o.identity = "no" /\ Fails(o) >= Strikes))

Seen(o) == /\ o.face
           /\ IF mode = "secure" THEN o.identity = "yes" ELSE IdentityOk(o) \/ o.attentive

StrangerAnywhere(o) ==         \* mutant: a face that looks elsewhere is a stranger too
  o.face /\ o.identity = "no" /\ ~o.near_miss

IsStranger(o) == o.face /\ o.attentive /\ o.identity = "no" /\ ~o.near_miss

HeldByAnyShape(o) ==           \* mutant: the shape is not compared
  /\ ~Seen(o) /\ ~IsStranger(o)
  /\ Within(last_full, obscured_lock_for(mode))
  /\ reference

(* A hidden face holds the clock while the shape of the last confirmed look *)
(* is still in the chair, within the obscured time of the last full sight.  *)
same_shape(o) == reference /\ o.shape

HeldByShape(o) ==
  /\ ~Seen(o) /\ ~IsStranger(o)
  /\ Within(last_full, obscured_lock_for(mode))
  /\ same_shape(o)

(* The last sighting a look leaves behind, after note_recent.               *)
NoteRecent == IF recent # Never /\ (last_seen = Never \/ recent < last_seen)
              THEN recent ELSE last_seen

SeenNow(o) == IF Seen(o) \/ HeldByShape(o) THEN 0 ELSE NoteRecent

HoldCountsAsFull(o) == IF Seen(o) \/ HeldByShape(o) THEN 0 ELSE last_full   \* mutant
FullNow(o) == IF Seen(o) THEN 0 ELSE last_full

Missed(o) == mode = "secure" /\ o.face /\ o.identity = "no" /\ ~HeldByShape(o)

NextState(o) ==
  IF Missed(o) THEN "Away"
  ELSE IF Seen(o) THEN IF IdentityOk(o) THEN "Present" ELSE "Stranger"
  ELSE IF Reached(SeenNow(o), away_for(mode)) THEN "Away"
  ELSE IF HeldByShape(o) THEN state
  ELSE IF o.face /\ ~IdentityOk(o) THEN "Stranger"
  ELSE state
-------------------------------------------------------------------------------
(* The watch's thread: run. Every tick it sleeps, reads the mode and decides  *)
(* whether this look will check identity.                                   *)
Sleep(there) ==
  /\ pc = "tick" /\ pc' = there
  /\ mode' = now_mode /\ tick' = (tick + 1) % 6
  /\ identify' = identify_this_tick(mode', tick')
  /\ UNCHANGED <<cfg, now_mode, chair, session, last>>

Passing(by) ==
  /\ TimePasses(by)
  /\ gone' = Older(gone, by) /\ unproved' = Older(unproved, by)

Tick ==
  /\ Sleep("look")
  /\ ~locked_by_presence /\ ~record
  /\ Passing(tick_for(mode))
  /\ UNCHANGED <<record, state, reference, locked_by_presence, identity_ok,
                 identity_fails, settled, strangers>>

(* A lock a consent request made is taken over (Watch::locked), and a       *)
(* locked session's camera is left to the lock screen.                      *)
TickLocked ==
  /\ Sleep("tick")
  /\ locked_by_presence \/ record
  /\ locked_by_presence' = TRUE
  /\ state' = IF locked_by_presence THEN state ELSE "Away"
  /\ Passing(tick_for(mode))
  /\ UNCHANGED <<record, reference, identity_ok, identity_fails, settled, strangers>>

(* Watch::resumed, when the session is found open: by a face or otherwise.  *)
TickResumes(by_face) ==
  /\ Sleep("look")
  /\ locked_by_presence \/ record
  /\ session = "open"
  /\ locked_by_presence' = FALSE /\ record' = FALSE
  /\ last_seen' = 0 /\ identity_ok' = TRUE /\ identity_fails' = 0
  /\ state' = IF by_face THEN "Present" ELSE "Unknown"
  /\ last_full' = Older(last_full, tick_for(mode))
  /\ recent' = Older(recent, tick_for(mode))
  /\ gone' = 0 /\ unproved' = 0 /\ settled' = FALSE /\ strangers' = 0
  /\ UNCHANGED reference

(* The look waits for the authenticator while somebody else has it.         *)
Wait ==
  /\ pc = "look"
  /\ Passing(1)
  /\ UNCHANGED <<cfg, now_mode, chair, session, record, pc, mode, tick, identify, state,
                 reference, locked_by_presence, identity_ok, identity_fails, last,
                 settled, strangers>>

(* What the histories make of a look: who sat there, and what was proved.   *)
Settled(o) == /\ mode = "default" /\ chair \in {"user", "hidden"} /\ o.shape
              /\ settled \/ (o.identity = "yes" /\ o.face)

Strangers(o) == IF /\ mode = "default" /\ chair = "stranger" /\ o.face /\ o.attentive
                   /\ identify => o.identity = "no"
                THEN IF strangers < 6 THEN strangers + 1 ELSE 6
                ELSE 0

Observe(o) ==
  /\ pc = "look" /\ pc' = "judged"
  /\ identity_fails' = Fails(o) /\ identity_ok' = IdentityOk(o)
  /\ last_seen' = SeenNow(o) /\ last_full' = FullNow(o)
  /\ reference' = (reference \/ (Seen(o) /\ o.identity = "yes"))
  /\ recent' = Never
  /\ state' = NextState(o)
  /\ locked_by_presence' = (locked_by_presence /\ NextState(o) # "Present")
  /\ gone' = IF \/ chair \in {"user", "hidden"} \/ last_seen = Never
                \/ mode = "default" /\ chair = "stranger"
             THEN 0 ELSE gone
  /\ unproved' = IF mode = "default" \/ o.identity = "yes" \/ last_seen = Never
                 THEN 0 ELSE unproved
  /\ settled' = Settled(o) /\ strangers' = Strangers(o)
  /\ UNCHANGED <<cfg, now_mode, chair, session, record, mode, tick, identify, last>>

Look == \E o \in Looks : Observe(o)

(* The camera could not be opened: this tick decides nothing, and the       *)
(* consent or match it noted stays noted.                                   *)
LookFails ==
  /\ pc = "look" /\ pc' = "tick"
  /\ last_seen' = NoteRecent /\ recent' = Never
  /\ settled' = settled /\ strangers' = 0
  /\ UNCHANGED <<cfg, now_mode, chair, session, record, mode, tick, identify, state,
                 last_full, reference, locked_by_presence, identity_ok, identity_fails,
                 last, gone, unproved>>

(* A step to Away locks the session and every later look while away tries   *)
(* again until the helper succeeds; then the decision is published.         *)
MustLock == state = "Away" /\ ~locked_by_presence

Publish == last' = state /\ pc' = "tick"

Idle == UNCHANGED <<cfg, now_mode, chair, mode, tick, identify, state, last_seen,
                    last_full, reference, identity_ok, identity_fails, recent, history>>

LockWorks ==
  /\ pc = "judged" /\ MustLock
  /\ session' = "locked" /\ record' = TRUE /\ locked_by_presence' = TRUE
  /\ Publish /\ Idle

NoLock ==
  /\ pc = "judged"
  /\ Publish /\ Idle
  /\ UNCHANGED <<session, record, locked_by_presence>>
-------------------------------------------------------------------------------
(* Everybody else. What they change is read by the next tick alone, except  *)
(* that a consent or a match may come while the look waits for its turn.    *)
Still == UNCHANGED <<cfg, pc, mode, tick, identify, watched, last>>

set_presence_mode ==
  /\ pc = "tick"
  /\ now_mode' \in Modes \ {now_mode}
  /\ Still /\ UNCHANGED <<chair, session, record, recent, history>>

Recent ==
  /\ pc # "judged"
  /\ recent' = 0 /\ gone' = 0 /\ unproved' = 0
  /\ Still /\ UNCHANGED <<now_mode, chair, session, record, settled, strangers>>

RequestLocks ==
  /\ pc = "tick"
  /\ session' = "locked" /\ record' = TRUE
  /\ Still /\ UNCHANGED <<now_mode, chair, recent, history>>

Unlock ==
  /\ pc = "tick"
  /\ session = "locked" /\ session' = "open"
  /\ Still /\ UNCHANGED <<now_mode, chair, record, recent, history>>

Sit ==
  /\ pc = "tick"
  /\ chair' \in {"user", "hidden", "stranger", "empty"} \ {chair}
  /\ Still /\ UNCHANGED <<now_mode, session, record, recent, history>>

(* The daemon dies, or is restarted to read an edited table: what it knew of *)
(* the chair and of the lock is gone.                                        *)
Restart ==
  /\ pc = "tick"
  /\ cfg' \in Configs
  /\ now_mode' \in Modes /\ mode' = now_mode'
  /\ pc' = "tick" /\ tick' = 0 /\ identify' = FALSE
  /\ state' = "Unknown" /\ last_seen' = Never /\ last_full' = Never
  /\ reference' = FALSE /\ locked_by_presence' = FALSE
  /\ identity_ok' = TRUE /\ identity_fails' = 0
  /\ recent' = Never /\ last' = "none" /\ record' = FALSE
  /\ gone' = 0 /\ unproved' = 0 /\ settled' = FALSE /\ strangers' = 0
  /\ UNCHANGED <<chair, session>>

Watching == Tick \/ TickLocked \/ (\E by_face \in BOOLEAN : TickResumes(by_face))
            \/ Look \/ LookFails \/ LockWorks \/ NoLock

Next == Watching \/ Wait \/ Restart \/ set_presence_mode \/ Recent \/ RequestLocks \/ Unlock \/ Sit

(* The thread runs, its waits end, and neither the camera nor the lock      *)
(* helper fails for ever; an open session is noticed.                       *)
Fairness ==
  /\ WF_vars(Watching) /\ SF_vars(Look) /\ SF_vars(LockWorks)
  /\ SF_vars(\E by_face \in BOOLEAN : TickResumes(by_face))

Spec == Init /\ [][Next]_vars
LiveSpec == Spec /\ Fairness
-------------------------------------------------------------------------------
Ages == (0..Cap) \cup {Never}

TypeOK ==
  /\ cfg \in Configs /\ now_mode \in Modes /\ mode \in Modes
  /\ chair \in {"user", "hidden", "stranger", "empty"} /\ session \in {"open", "locked"}
  /\ pc \in {"tick", "look", "judged"} /\ tick \in 0..5 /\ identify \in BOOLEAN
  /\ state \in States /\ last \in States \cup {"none"}
  /\ last_seen \in Ages /\ last_full \in Ages /\ recent \in Ages
  /\ {reference, record, locked_by_presence, identity_ok, settled} \subseteq BOOLEAN
  /\ identity_fails \in 0..2 /\ strangers \in 0..6
  /\ gone \in Ages /\ unproved \in Ages

Judged(m) == pc = "judged" /\ mode = m

(* In the secure mode nobody else keeps the session open: once the watch    *)
(* has seen the user, a look that comes the secure away time after the user *)
(* last sat there, asked, matched or unlocked (or a stranger did, while the *)
(* default mode was in force) ends in a lock, whoever sits there now and    *)
(* whatever the flash can read of them.                                     *)
SecureNeedsTheUser ==
  Judged("secure") /\ last_seen # Never /\ gone >= cfg.secure_away => state = "Away"

(* In the secure mode even the user's own hidden face holds the session     *)
(* only for a while: with no passed check for the obscured time and the     *)
(* away time together the session locks, and the obscured time is never     *)
(* over its range however the file sets it.                                 *)
ObscuredIsBounded ==
  Judged("secure") /\ last_seen # Never /\ unproved >= ObscuredRange[2] + cfg.secure_away
     => state = "Away"

(* In the default mode with an obscured time of "never", a user who was     *)
(* confirmed and stays in the chair is never locked out, however they sit   *)
(* and whatever their checks score.                                         *)
UserKeepsTheDesk ==
  Judged("default") /\ settled /\ cfg.obscured = Never => state # "Away"

(* In the default mode a stranger who can be read is called one within two  *)
(* identity checks' time, although checks run only on some ticks, on which  *)
(* ones depends on the state, and one failed check is forgiven.             *)
StrangerIsReported ==
  Judged("default") /\ strangers >= 6 => state = "Stranger"

(* presence/config.rs:28: "an empty chair always locks", here in the secure *)
(* mode with the mode left alone and no consent or match to note.           *)
EmptyChairAlwaysLocks ==
  <>[](chair = "empty" /\ now_mode = "secure" /\ recent = Never) => []<>(session = "locked")
=============================================================================
