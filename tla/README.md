# A formal model of the FaceAuth daemon

TLA+ modules, TLC configurations and TLAPS proofs for `omarchy-faceauth`: a
daemon (`faceauthd`) that owns the infrared camera, recognises the user,
raises a consent window for `sudo` and polkit requests, and locks the session
when the user walks away. Paths below are relative to the repository;
`D/` stands for `faceauth-daemon/src/`, `C/` for `faceauth-camera/src/`.

Recognition itself is numbers, and appears as free choices of what a frame
shows and scores. What is modelled is everything around it: one thread per
connection, one mutex around the authenticator and its camera, one shared
consent record, one shared record of the session lock, files that must survive
a crash, a driver that loses frames, a window on the other side of a process
boundary that can miss, repeat or delay anything it says, shell commands that
fail having done their work or half of it, and the state
machines that turn a course of frames into a verdict.

## Inventory

| part | state it keeps | operations | what makes it correct |
|---|---|---|---|
| accept loop, slots (`D/server/serve.rs`) | `ACTIVE`, one `Slot` per connection | accept, turn away, release, drop | the count is the slots held; waiting requests hold none |
| consent queue (`D/consent/state.rs`) | `Queue.live`, `Queue.waiting` | `join`, `take_turn`, `Place::drop`, `Turn::drop` | arrival order, one window, one user, nothing left behind |
| consent record (`D/consent/state.rs`) | `Live`, `Rider` | `answer`, `ack`, `arm_passwordless`, `poll`, `rider_for_payload`, ... | minutes armed on it are granted by its own approval only; while nods are read `shown` means shown |
| consent request (`D/auth/consent_flow.rs`, `D/consent/wait.rs`, `D/auth/rearm.rs`, `D/server/rounds.rs`) | `ConsentSession`, the gesture | scan, nod window, confirm, waits, hold, park, finish | an answer ends it; nods count only at an acknowledged card |
| card (`D/consent/window.rs`) | `Dialog` | `show`, `show_again`, `heartbeat`, `show_final`, `hide` | a card the daemon still holds comes down with its request; one it lost hold of (a call to the shell failed) may stay |
| session lock (`D/presence/lock.rs`) | `LockState` | `lock`, `adopt`, `resumed` | one lock, noticed by both who wait for it |
| presence watch (`D/presence/{run,watch,observe,config}.rs`, `D/server/presence.rs`) | `Watch`, the mode | tick, look, step, mode switch | walking away locks; staying does not; nobody else keeps a secure session open |
| failure holds, refusals (`D/auth/cooldown.rs`, `D/server/backoff.rs`) | `Strikes`, `REFUSALS` | `charge`, `hold`, `refused`, `refusal_standing` | five tries, then longer and longer holds, but for failures a hold swallows; a no is not worn down by asking again |
| verdicts (`D/auth/outcome.rs`, `pam_faceauth/src/lib.rs`) | none | reason to outcome to wire to reply to PAM code | a refusal arrives as what it was |
| admission (`D/server/{handle,admit,locality}.rs`), requester (`D/consent/requester.rs`) | contexts per user | the gates of `handle`, `take_context` | root needs a card; a description serves one request of the agent that sent it, not always its own |
| passwordless rule (`D/consent/passwordless.rs`) | sudoers file, timer unit | `enable_passwordless` | a rule loses its timer by a crash or a failed removal only |
| scan, confirm, strobe gate (`D/auth/{attempt,confirm}.rs`, `D/strobe.rs`) | mask, phase, matches | `next_frame`, `redraw`, end of gate | a pair is two neighbouring frames under this mask; the light goes out with its gate unless the write fails |
| gesture detectors (`D/consent/{detector,wait}.rs`) | legs, threshold, rest | one frame | four legs that hang together, with no other face seen between them |
| enrolment (`D/enrol/*`, `D/auth/poses.rs`) | session claim, watcher, control words, the walk | claim, watch, control, steps, save, end | one session; its set and its grant are its own |
| template store (`D/store/*`) | a file per user, a cache, sealing | `save`, `load`, `set_aside`, `delete` | a crash loses no good set and an enrolment sets one aside at worst; sealed stays sealed |
| camera (`C/*`, `D/capture.rs`) | buffers, sensor registers, the loop | open, frame, step, stop | a frame is one exposure under its own number; what was last written is what is recorded |
| configuration (`D/presence/config.rs`, CLI) | the file | edit, read, clamp | an edit changes its keys and nothing else |

How they meet. A PAM stack or the CLI connects to the socket; each connection
is a thread that runs the gates of `handle` (`Door`). A consent request joins
the queue, gives its slot back, waits for its turn (`ConsentQueue`) and then
runs `consent_rounds` (`ConsentRequest`): each round holds the authenticator's
mutex from end to end, and between rounds the request parks without it
(`SessionLock`). A round's scan and confirm read the camera through the strobe
gate (`FaceScan`, `Camera`), its nod window through the detectors (`Gesture`).
The card and the user's other processes answer through short connections of
their own, which write into the live record under the queue's mutex. Failures
and refusals outlive the request (`Throttles`), and its reason goes back as a
reply (`Verdict`). The watch takes the same authenticator mutex for each look
(`Presence`) and shares the session lock's record with a parked request
(`SessionLock`). Every scan matches against the set the store serves
(`TemplateStore`, `TemplateSet`), which the walk-through makes (`Enrolment`).

What is hard, by kind (each line is in `PROJECT.json` under `hazards`):
messages landing between any two looks at the record; a state read before a
wait and used after it; shows and saves that fail half-way; a crash between
two file operations; frames dropped between the two of a pair; words of one
session that arrive in the next; timers nobody runs, noticed late; liveness of
a dozen different wait loops; two askers of one lock; bounds kept by counters.

## Modules

| module | models | kind |
|---|---|---|
| `ConsentWindow` | what the queue promises: a line in arrival order before one window | abstract specification |
| `ConsentQueue` | accept loop, gates, `join`, `take_turn`, refusals, reply, panics | component, implements `ConsentWindow` |
| `ConsentRequest` | one request after another at the window, with the messages of the socket threads | record, card and driving thread composed |
| `RearmGate` | a course of looks between two rounds: the gate, the identity looks, the away clock | operators |
| `SessionLock` | the lock record with the watch's thread and a request's thread | composition of two askers |
| `Presence` | the watch's thread, one look, every rule, the two modes | component |
| `FailureHold` | what the failure cooldown promises, with timers | abstract specification |
| `Throttles` | `Strikes` and `Backoff` as kept, without timers | component, implements `FailureHold` |
| `Verdict` | reason, outcome, wire, reply, PAM code | operators |
| `Locality` | `locality_of` over the facts it reads | operators |
| `Door` | PAM module, admission, descriptions, the start of a spell | composition, extends `Locality` |
| `StrobePhase` | the mask and the frames delivered | operators |
| `FaceScan` | scan, confirm, strobe gate, light and exposure | component, extends `StrobePhase` |
| `Gesture` | one axis' detector and the frame loop around it | component |
| `Enrolment` | the session's statics, the request that runs it, the window's threads | composition |
| `HeadDot`, `EnrolLook` | the dot of the walk-through; a look of the CLI's enrolment | operators |
| `TemplateStore` | a user's files, the cache, sealing, crash and power cut | component |
| `TemplateSet` | match, prune, floors over one set | operators |
| `Exposure`, `CameraGraph` | the exposure loop's arithmetic, metering; probe, pick, format | operators |
| `Camera` | buffers, frames, settings of one use after another | component, extends both |
| `ConfigEdit` | the CLI's edits of the configuration and how they reach the disk | operators |
| `ConsentQueue_proofs`, `ConsentRequest_proofs`, `Door_proofs`, `FaceScan_proofs`, `TemplateStore_proofs`, `Presence_proofs`, `Enrolment_proofs`, `Camera_proofs` | theorems about the module each extends; `ConsentRequest_proofs` also extends `Throttles`, and `FaceScan_proofs` `Gesture`, whose specifications have names of their own for that (`ThrottleSpec`, `GestureSpec`) | proofs |
| `MC*` | instances for TLC, and the rules checked as assumptions | model checking |

Operators with the comment `mutant` are slips a maintainer could make in the
definition after them; the runs must notice each.

### ConsentQueue

Every action is what one thread does in one critical section or one access to
an atomic; the thread's place in `handle` is `phase[r]`. `window` and `place`
are `Queue.live` and `Queue.waiting`; `held` and `active` are `Slot.held` and
`ACTIVE`. `ACTIVE` is raised before it is compared, and lowered again when
the connection is turned away; the accept loop is one thread, so the two are
one action. `Leave` is the return of `handle`, on which Rust drops the place
and the turn; a panic (`Unwind`) does the same at any point. `take_turn` is
three actions: the look under the mutex (`TakeTurn` or `Wait`) and, after the
wait, the poll of the requester (`PollRequester`): a requester that hung up is
seen only there, so a hung-up head of the queue may still get the window, as
in the code. The verdict that starts a standing refusal is a step before the
turn is dropped (`handle.rs:711-720`).

### ConsentRequest

The thread's state is `pc`; a step is what it does between two accesses to
the shared record, so that messages land between any two of them. `live` is
`Live` with its `Rider`, `dialog` is the daemon's view of the card, and `card`
is what is on screen, which is outside the repository. A call to the shell may
fail by its answer, its exit status or its timeout (`shell.rs:49-69`), and none
of these says what became of the screen: after a failed summon it shows nothing,
what it showed before, or the new payload, while the rider stays marked as shown
(`window.rs:203-218`); a hide or a final payload that fails leaves the card up
and is only logged (`window.rs:253-268`). An acknowledgement is a message that
may never come.
Messages carry any token that a request had, at any time, any number of times,
which is delay, loss, duplication and reordering in one. `handle` checks the
token once without the mutex and each operation checks it again under it; the
model keeps the second. A show (`Dialog::show_inner`) is three steps (check,
send, wait), because the record is unlocked between them. A scan, a nod
window and a confirm end in any of the ways their code can return. Three
variables are history (`heard`, `nodNames`, and `loose`: the card on screen may
be one the daemon has no hold of) and guard nothing.

Times are left to chance: the dwell, the wait for an acknowledgement, the
lengths of the scan, of the nod window, of the hold and of the away time may
each end at any step. A round that finds the camera taken sleeps and tries
again; that is a stutter. Whether the session is locked is a free answer here
and is modelled in `SessionLock`. `enable_passwordless` may still refuse what
`Grant` takes; the model records what was taken.

### RearmGate

The looks of `attention_wait` and `hold_wait` as a fold over a course of
sights, where a sight is what a look would show and what an identity check of
it would say. In `ConsentRequest` a look is a free choice; here it is decided.

### SessionLock

`record` is `LockState.locked_at`, `locked` is what the compositor holds. The
code compares instants in one way only, "is the last face match newer than
this lock?", so `newer` keeps the answer for the record's instant and for the
copy each asker has read. `age` is how long ago the compositor was last
asked, in units that tell the two cadences apart. `helper`, `adopt`, `probe`
and `clear` are separate steps because the mutex is free between them. A look
of the watch and the rule on it are one action, since both belong to the same
thread and nothing is shared between them. A question to the compositor that
fails reads as "not locked" (`shell.rs:81-89`), so an answer of FALSE is
always possible. The walk-away lock is taken to be on for the user who asks.

### Presence

`Presence` is `run`'s loop (`tick` sleeps and reads the mode; `look` is
`observe`; `judged` is what `step` made of it, then the lock), with every rule
of `Watch::step` as an operator on the look: strikes, near misses, the shape
hold, the full sight that bounds it, strangers. Instants are ages in units of
the secure mode's tick, cut off at `Cap`: the code only asks whether an age is
under a limit, and no limit of a run is above `Cap`. Who sits in the chair
and what can be read of them is the environment's. `gone`, `unproved`,
`settled` and `strangers` are history: the time since the user was last proved,
and the ticks a stranger could have been called one. The lock is one action
here; its steps are `SessionLock`'s.

### Throttles and FailureHold

`Strikes` and `Backoff` hold instants and have no timers. An instant is kept as
an age, a time still to come as what is left; a check begins and fails in
different steps, so one may outlast the hold it was let in before. The
refinement mapping says what the records *mean* at any moment (which failures
still count, what doubling is still owed), whether or not any call has noticed.
Failures are charged in order, so the ones `retain` throws away are a prefix:
`Retained` (and `Within`, in the promise) is what is left behind it. A check of
the face and a password typed at the window are let in by a look at the hold
(`hold_for`), but a password typed while the request is parked is charged as it
comes (`rounds.rs:124-137`): `ParkedFails`. The promise has therefore two kinds
of failure: `Counts`, and `Forgiven`, which happens inside a hold, or first
thing after one that ran out and that nobody has asked for since (`unseen`).

### Door, Locality, Verdict

A request's `phase` is where it stands between the PAM module and the reply;
the gates that answer the same way are one action each (`TurnAway`,
`NoWindow`). The queue and the rounds are one action (`Approve`, `Denied`).
`gone` are the requests whose program was killed or cancelled (`HangUp`): the
agent goes on at once, and the daemon's thread, which does not look at the
socket while it looks for a description, goes on too.
`granting` is the spell being started step by step: a name that no rule may hold
is refused, the stop of the old timer may fail with nobody looking, the new one
may not start, the rule may not be written or removed. `orphaned` remembers the
two ways a rule is left without a timer: a removal that failed, which is logged,
and a crash between the stop and the start, which nothing logs. `Verdict`'s
operators are the conversions on the way back, `Locality` the decision over
the facts read about a process.

### FaceScan and StrobePhase

One use of the camera at a time, as its mutex makes it. `gate` is `StrobeGate`
with `StrobePhase`'s mask and bits; `NextFrame` is one frame of it, lost frames
included, and `pair` whether the frame completed one. The frames are the
environment's: a step up, a step down or neither, so a scene that mimics a mask
for a while is among the behaviours. The writes of the mask and of the light on
the way out of a gate or of a scan may fail, and the code looks at none of them
(`strobe.rs:243-247`, `capture.rs:257-260`, `C/lib.rs:287-291`): `stuck` then
says so, and the light is whatever the last write that worked made it. `run`,
`brighter`, `under` and `stuck` are history: what had really been seen when a
pair counted, and whether a write of the light has failed.

### Gesture

One axis of `Oscillation` at a level per frame, with the threshold drifting as
noise teaches it, and the frame loop of `wait_for_nods` around it. What the
other axis, the box and the turn of the head say is free. A frame may show
other faces and not the followed one, which starts both detectors over
(`Unfollowed`); no face at all (`NoFace`), or the followed one with a mesh that
does not read (`Unread`): both of these are skipped and start nothing over.
`read` and `broken` are history. Times are frames. `Kept` is the loop that drops
legs off the front of the sequence while it is longer than the span: what is left
starts at the first leg that is within it.

### Enrolment, HeadDot, EnrolLook

The session's three statics, each touched under its own mutex, the root
request's thread (`pc`, `step`) and the threads of the window's requests, whose
check (`AskIn`) and act (`Watch`, `Steer`) are two steps; root may watch and
steer any session. A request that finds the camera busy gives its grant back
(`Busy`). The thread may panic anywhere: the session is then ended by its drop,
and the authenticator's mutex is poisoned, which the next request takes all the
same while the refresh of the socket's list does not (`Listed`). The twelve
rounds are `ROUNDS` with each one's `times`. What a frame shows is free, so every
step may take as long as it likes. A set on disk is kept as the gesture rounds in
it, each by the session that recorded it. `HeadDot` and `EnrolLook` are the
arithmetic of the two front ends in integers.

### TemplateStore and TemplateSet

A directory is three names; `past` is the set of directories a power cut may
leave, which grows with each change and shrinks to one at an `fsync` of the
directory. Each file operation of `save` is a step, and any may fail; the
daemon may die, the power may go, and the account's name may pass to another uid
or to nobody. What the credential tool says of a sealed file is free, for it is
told apart by the words it prints, and words nobody listed count as a verdict
(`seal.rs:133-166`): a passing fault may make an enrolment set a good set aside,
and a good set that was set aside is still on disk, which is what `AckedSurvives`
asks for. A set is the number of the save that made it. `TemplateSet` is the
match, the pruning and the floors over one set.

### Camera, Exposure, CameraGraph

The driver exposes frames into the buffers it was given, in order and whenever
it likes; the thread is inside `IrCapture::next` at `call`. A buffer's content
is two halves, because it may be overwritten while it is decoded; that a frame
is whole is then a property and not an assumption. `asked` is what was last
written to the sensor's controls, apart from what the camera (`applied`) and the
loop (`loop`) record. What the sensor then holds is not in the model: the driver
may clamp or round a value (`C/v4l2.rs:507-513`), the code does not look at what
it returns, and the sensor may move by itself. A use starts from the default
exposure, which is cut at the maximum and not raised to the minimum
(`capture.rs:170-174`), or, for a presence look, from the one remembered of the
last use (`Remember`, `attempt.rs:384-393`).

### ConfigEdit

A file is a sequence of lines and an edit rewrites some of them; what the
daemon would read of the result is an operator too, so that the two can be
compared.

## Runs

| run | instance | shows |
|---|---|---|
| `consent_queue` | 3 requests of one user and 1 of another, 2 slots, 2 per user | `QueueIsSound` (no ghost places, one window, one user), `WithinBounds`, `NoOvertaking`, `ImplementsWindow`, and that it moves (`MovesOn`, `HangUpLeavesQueue`) |
| `consent_request` | 2 requests, 2 nods, riders of 5 and 15 minutes, away time set | what a card and its record may say of each other when any call to the shell may fail (`OnlyAtTheNodCard`, `RiderIsOnTheCard`, `GrantNeedsSudo`, `CardComesDown`), and that an answer or a hang-up ends it (`RequestEnds`) |
| `session_lock` | the watch and a stream of requests, 2 looks to the away time | `UnlockIsSeen` by both askers; `WalkAwayLocks` |
| `presence` | two tables of lock times, a stranger, a hidden face, both modes | `SecureNeedsTheUser`, `ObscuredIsBounded`, `UserKeepsTheDesk`, `StrangerIsReported` |
| `throttles` | 3 failures, 2 doublings, checks longer than a hold | `ImplementsFailureHold`, `EveryCheckCounts`, `NoIsStoodBy` |
| `door` | 2 requests of one agent, 1 of another behind a misspelt line, a plain look; or 2 sudos with spells of 1 and 2 minutes beside the misspelt one | `RootNeedsACard`, `OneContextOneRequest`, `RuleHasATimer`, `SpellEnds` |
| `face_scan` | 8-frame masks, 2 matches | `EachMatchUnderItsOwnMask`, `LightFollowsTheStage` |
| `gesture` | 3 levels, 16 frames | `GestureIsFourLegs`, `GestureIsUnbroken` |
| `enrolment` | 2 sessions of 12 rounds, 1 window thread, 1 word | `SessionsKeepApart`, `RecognisedBeforeDone`, `SessionEnds` |
| `template_store` | 2 saves, 2 uids | `AckedSurvives`, `SealingSticks` |
| `camera` | 2 buffers, numbers modulo 3, a call of 2 frames, a default under the minimum | `FrameIsWhole`, `SettingsHold`, `CallReturns` |
| `rider` | `consent_request` with one request | violated: `RiderNamedAtEveryNod` |

Some properties are conjunctions of named parts that belong together; the parts
are stated beside them, and each can be put in a configuration by itself.

Why the bounds are enough.

- Queue: four requests are a live one, one behind it, one over the bound and
  one of the other user, in every order of arrival and departure; two slots
  are both filled by requests still at the gates.
- Request: a second request is what a late message can reach, a second rider
  length is what a changed rider is; everything else is finite in the code.
  `MaxRequests` bounds the number of requests in `Begin`; after the last one
  the model idles.
- Session lock: requests go on for ever, one at a time (the queue serialises
  them), and two looks tell "not yet" from "now" and from "still".
- Presence: ages are cut off at 5 ticks, which is the longest limit (an obscured
  time of 2 and an away time of 3). One table sets
  the default mode's away time to "never" and its obscured time to 0, the other
  its obscured time to "never" and the secure one out of range.
- Throttles: a window of 3, a hold of 1 and two doublings let failures fall out
  of the window, holds be noticed late and the last doubling be reached and
  forgotten. The assumption on the constants is the one the code's own numbers
  satisfy: the longest hold and a check begun in it are over before a quiet
  spell is (480 s + a check < 600 s), and so is the longest refusal (480 s <
  600 s). It is stated of every hold and every refusal, and not of the longest,
  because a prover knows nothing of powers of two. There is at least one
  doubling (the code has four): with none the record would count the first hold
  served and the promise would not.
- Door: two descriptions are kept, so a third drops one; one agent has two
  requests, so the first's description may be late for it and early for the
  second, and the first's thread may still look when its helper is gone. `Apart`,
  a constraint of the run, keeps the requests of a spell and those of the
  descriptions in different behaviours, since they touch nothing of each
  other's; two sudos are a spell and its extension.
- Scan: the mask's length is the sensor's own; the two masks are no rotation of
  each other.
- Gesture: three levels are still, a leg and too much; eleven frames of span in
  a window of sixteen let the span cut a leg off a sequence.
- Enrolment: a second session is what a late word or watcher can reach.
- Store: one save to lose and one to replace it, and one other
  owner of the name (the two uids are interchangeable: the only symmetry used).
- Camera: one buffer being read and one being filled; numbers that wrap within
  a call.

Deadlock checking is off where a run's supply of requests, sessions, saves or
frames ends (`consent_queue`, `door`, `gesture`, `enrolment`,
`template_store`).

### Rules checked as assumptions

Pure rules are checked over every small input when TLC starts, as named
assumptions of the `MC` modules:

| module | rules |
|---|---|
| `MCPresence` | `LockTimeEditIsExact`, `SwitchIsExact`, `TakenTimesAreRead` (an edit sets its keys, keeps every other line, and the daemon reads what was asked for), `FileIsReplacedWhole` |
| `MCTemplateStore` | `StrangerGoesFirst`, `PoorGoesFirst`, `PruneKeepsTheCap`, `RareLookStays`, `MatchIsOnThisCamera`, `FloorsReadTheirRounds` |
| `MCEnrolment` | `HoldIsItsLook`, `ReachMeetsTheRing`, `ShiftGoesHalfWay`, `FlickerIsThrownOut`, `RoundStoresItsPose`, `OppositePosesExclude` |
| `MCConsentRequest` | `OnlyTheUserRearms`, `MisreadingIsAway`, `NobodyHoldsTheRequest`, `UserHoldsTheRequest`, `FailedLooksWait` |
| `MCThrottles` | `ReasonsAreReadBack`, `NoIsTakenAsNo`, `OnlyAMatchLetsIn` |
| `MCDoor` | `LocalityFailsClosed` |
| `MCFaceScan` | `MasksAreDrawn` |
| `MCCamera` | `SensorIsFound`, `LoopSettles`, `LoopHunts`, `WindowUnderTheBox` |

### Fairness, and why the code justifies it

- `ConsentQueue`: weak fairness of each handler thread. Threads are the
  kernel's to schedule and each wait times out after 300 ms. Verdicts,
  hang-ups, panics and arrivals are not fair: slots come free and a hung-up
  request leaves although no user ever answers.
- `ConsentRequest`: weak fairness of the daemon's thread, all of whose waits
  time out. Nothing else: no message, no acknowledgement, no return of the
  user. That a hang-up ends the request assumes that "Ready to nod" is not
  pressed for ever, because a poll that takes it does not look at the socket.
- `SessionLock`: weak fairness of both threads; strong fairness of the steps
  that need the authenticator's mutex (each thread tries again for ever, and
  the mutex is not kept for ever by anyone but a round), of a look that reads
  the camera, and of a helper that is run again and again. The user owes
  nothing. `WalkAwayLocks` is stated for the time after somebody was seen once
  (before that the away clock does not run) and for requests that do not keep
  coming and being answered, since each restarts the clock.
- `Enrolment`: weak fairness of the request's thread, and strong fairness of
  its deadline: fifteen minutes pass, and the loop looks at the clock at every
  turn. The window and the person owe nothing.
- `Door`: weak fairness of the clock, of the steps that start a spell, and of
  the look for a description, which the clock ends. `systemd-run` is under
  `timeout`; `systemctl stop` is not (`passwordless.rs:113-117`), and that it
  returns is assumed: one that hangs keeps the request, and its spell, waiting.
- `Camera`: weak fairness of the thread inside a call and of the sensor, of
  which it asks only that time passes: a stalled sensor is a fair one.

## Findings

The run `rider` (`ConsentRequest!RiderNamedAtEveryNod`) ends with TLC's
behaviour. `src/README.md:92-95` says that what is granted was named by the
card; a passwordless rider armed after the nod window's last look is marked
shown by the "confirming" card and granted by nods made at a card that did not
name it.

Also seen while modelling, and not stated by any line of the repository: a
failed summon leaves the card before it on screen with the new rider marked as
shown (`window.rs:203-218`), so outside the nod window the record's word for the
card may be wrong, which is why `RiderIsOnTheCard` speaks of the nod window; and
a pending card stays up after its request when a hide, the acknowledgement or
the final payload failed, which is what `CardComesDown` exempts.

### Where the code and its comments disagree

These statements of the repository are properties of the modules and do not
hold of what the code does either. None is in a configuration; adding it to the
module's one, with the change named here, shows TLC's behaviour (the formulas that
hold of one step, `[][...]_vars`, as a PROPERTY, the others as an INVARIANT).

| property | what happens |
|---|---|
| `ConsentQueue!NoWindowWhileRefused` | the standing refusal is looked up once, before the wait for the turn: a request already queued when the user says no gets its window |
| `ConsentRequest!NoScanDuringHold` | "Ready to nod" pressed during a hold counts as an answer; the scan discards it and scores faces during the hold |
| `ConsentRequest!DismissRefuses` | a dismissal during the confirm after the nods is never read |
| `SessionLock!ParkedLocked` | a request whose user left believes the record of a lock that has ended and parks with the session open; `WalkAwayLocks` shows that it is locked in the end |
| `Presence!EmptyChairAlwaysLocks` (`LiveSpec`, `Configs <- AtOnce`, `Cap = 3`) | a watch that starts, or starts again, with the chair already empty has seen nobody, and its away clock does not run |
| `Gesture!LegsAlternate` | after the rest at the midpoint the next leg may go the same way as the last |
| `Gesture!RestOnlyAtTheMidpoint` | a sequence cut at its front by the span may carry a rest to another place |
| `Throttles!ParkedPasswordCounts` | `consent_flow.rs:546-547`: "it counts against the same budget as a failed scan". A password typed while parked is charged with no look at the hold before it; when a hold had run out unasked for, the next look clears the failure with it |
| `Enrolment!OnlyItsUserIsHeard` (`Users = {"ann", "bob"}`) | `handle.rs:470`: "The session's own user (or root) may watch it and steer it". A word or a connection let in for one user's session is handed over later, to whatever session runs by then |
| `Enrolment!EveryOutcomeRefreshes` | `handle.rs:463-465`: "Every outcome: back to the template-only list". After a panic with the authenticator held, the refresh does nothing (`acl.rs:69`) while the next walk-through goes on (`handle.rs:246`); a failed one keeps its grant |
| `Gesture!ForgottenWhenNotThere` | `wait.rs:376-378`: "nothing counts meanwhile, and a nod begun before is forgotten". A frame with no face in it at all is skipped before that (`wait.rs:356-358`), and a nod begun before it goes on |
| `Door!OwnDescription` | `requester.rs:194-198`: descriptions queue in order, so a request takes its own. A late one is there for the agent's next request, and the thread of a cancelled request takes the next one's |
| `Door!SpellKeepsItsTimer` | `passwordless.rs:28-30`: "a rule with no timer would never end. Only then is the rule written, so the spell never outlives its timer". An extension stops the old timer and starts the new one in two commands with the rule in place; a daemon that ends in between leaves the rule and no timer |

Five more are rules. `rearm.rs:13-17` says that a face that merely stays in
view is not a re-arm; `MisreadingIsAway` shows that one failed identity check
of a user who never left counts as having been away. `C/calib.rs` says the
exposure loop under-shoots rather than oscillates: `LoopSettles` shows so from
five lines of exposure up, and `LoopHunts` shows it going round at fewer.
`templates.rs:190-194` puts impostors at 0.37 to 0.56 of similarity and the
outlier mark at 0.50, so `StrangerGoesFirst` holds under the mark only.
`dot.rs:162-168` says that a shift alone reaches half way: `ShiftGoesHalfWay`
shows so for a shift as far as the ring is wide, and a longer one goes further.
And a wrong password charged during a hold is forgotten when that hold has been
served (`consent_flow.rs:546`, `cooldown.rs:46-49`), which `FailureHold` states
as `Forgiven`, with the one typed while parked of
`ParkedPasswordCounts`.

## Proofs

`ConsentQueue_proofs` proves, for every set of requests and users and every
value of the two limits (`QueueAssumption`: a finite set of requests, limits of
at least one):

- `TypeCorrect`, `PlacesAndTurns` (`QueueIsSound`), `OneUserAlways`,
  `SlotAccounting`, `Bounded` (`WithinBounds`): the invariants of the run, from
  one inductive invariant;
- `InOrder`, `BoundedPerUser`: no overtaking, and the bound per user;
- `Implements`: `Spec => Abstract!Spec`, step by step.

`Inv` is the conjunction of the type invariant, `NoGhostPlace`, `OneWindow`,
`OneUser` and `SlotsCounted`, each needed by another: that a leaving thread
takes exactly its own place out needs the places to be distinct; that the next
join compares with two requests only is enough because all are of one user
already; that `active - 1` stays a natural number needs the count. `LeaveInv`
says once what every way out of `handle` preserves and `MoveInv` what a change
of phase alone does; then there is one lemma per action that touches the queue
or the count, and `StepInv` puts them together. `WithoutPlace` is what
`Place::drop` does to a queue of distinct places. The per-user bound is not
inductive without `Inv`: a request that takes the window leaves the queue in
the same step, and the count stays only because it was in exactly one place.

`ConsentRequest_proofs` proves, for every number of requests, every set of
minutes the card may offer, every number of nods and with or without an away
time (`RequestAssumption`), the type invariant and the safety invariants of the
run `consent_request`:

- `RequestTypeCorrect`: the types, with `NodsLeft` beside them: where a nod may
  still be counted, fewer than `NodsNeeded` have been. The records have named
  types, and one lemma each says that what the code writes keeps them;
- `ArmsOnlyAtNods`: inductive by itself over the types;
- `OnlySudoGrants`: by `Granting`, which follows the minutes from the lane they
  were armed in to the approval;
- `NoCardForgotten` (`CardComesDown`), and with the arms `AtTheNodCard`
  (`OnlyAtTheNodCard`): by `Acknowledged`. Neither is inductive alone. That the
  nod window is at an acknowledged card needs `show_wait` to be at an open one;
  that a pending card left up was out of the daemon's hands needs, at every step,
  the card of this request to be open in the daemon's view or `loose`, through
  summons that failed with any card on screen;
- `RiderIsNamed` (`RiderIsOnTheCard`): by `Named`. Before the window a
  failed summon may leave minutes marked as shown that no card names, and the nod
  card's own summon is what puts that right: the window opens only behind one
  that succeeded. In it a nod adds the name on the card, which is the armed one
  because the card in the window is this request's, and none was counted before
  the window opened.

Each has one lemma for the step, with one case per action or per group of
actions that leave its part alone.

`Door_proofs` proves, for every set of requests, agents, misspelt lines,
callers and lengths (`DoorAssumption`):

- `RootIsAskedAtACard` (`RootNeedsACard`): whatever the gates' order and whoever
  gives up or crashes. It is not inductive alone: a spell's last step answers
  "match" for `granting.for`, so the invariant says that such a request was
  approved at its card;
- `RuleIsTimed` (`RuleHasATimer`): the same invariant says that once the timer
  is armed it stands until the rule is written, which is where writing the rule
  needs the clock not to have run out in between (the module's `Tick` says so:
  the write takes no minute). A crash between stop and start is exempt by name
  (`orphaned`), and `SpellKeepsItsTimer` without that exemption does not
  hold (see the table above);
- `ContextServesOne` (`OneContextOneRequest`), by a second invariant over the
  first one's types: what was sent is of a polkit request that has started, and
  of an agent's requests that have started and are not over at most one has its
  program still there (`AgentInv`), so when a request takes another's description
  one of the two programs is gone or answered; what is in the queue was sent once
  and nobody has it (`KeptInv`), through drops, ageing and removals from the
  middle.

`ConsentRequest_proofs` ends with what it proves about `Throttles`, for every
number of tries, window, hold, doublings, refusal and length of a check that
satisfy `ThrottleAssumption`:

- `HoldsAreAsPromised` (`ImplementsFailureHold`): `ThrottleSpec => Abstract!Spec`, one
  lemma for each kind of step (`FailingScan`, `FailingAnswered`, `Beginning`,
  `Ending`, `Matching`, `Ticking`). The mapping is four functions of the record
  (`View`), so that a step is first shown to be a step of the record alone and
  then to mean a step of the promise. `Sound` says what makes the two agree: the
  ages are sorted and bounded (`Retained` is then the recent ones, and what a
  tick or a charge does to the end of the sequence is `LaterIsLeft` and the
  lemmas around it), a record with holds behind it and none in force has no
  failures left to count, and a hold in force is over before the doubling would
  be forgotten. `StrikesInv` adds the check under way: one let in during a hold
  may end after it, and still before a quiet spell;
- `FailuresCount` (`EveryCheckCounts`): a check let in by a look outside a hold
  finds none when it fails, and none that ran out unasked for, so its failure is
  one the promise counts; a parked password, which no look lets in, is not such a
  check;
- `RefusalsAreStoodBy` (`NoIsStoodBy`): by `RefusalInv`, which ties the entry to
  the history of noes beside it: it is there while the last no is not a quiet
  spell old, with its age and its level, so neither a request that drops an entry
  nor one that marks it changes how long the next no stands.

`FaceScan_proofs` proves, for any masks, any length of them and any number of
matches asked for (`ScanAssumption`, `SpanAssumption`):

- `TheLightFollowsTheStage` (`LightFollowsTheStage`): from `LightInv`, which says
  at each stage what the light, the held exposure and the gate are: a gate's mask
  is written before it takes a pair, whatever an earlier write left, and off the
  gates the light is the stage's unless a write is `stuck`;
- `MatchesUnderTheirOwnMasks` (`EachMatchUnderItsOwnMask`): `BitsInv` bounds the
  bits a gate holds by the frames really seen since its mask was written or a
  frame was lost, so a pair in phase (a whole mask of bits) means a whole mask of
  frames (`PairInv`), and every match so far lies under an earlier draw than the
  gate's own (`MatchInv`), so that the next one adds a draw.

At its end are the theorems about `Gesture`, for any levels, thresholds, leg
times, span and window that satisfy its `GestureAssumption`:

- `GesturesAreFourLegs` (`GestureIsFourLegs`), `GesturesAreUnbroken`
  (`GestureIsUnbroken`): by `GestureInv`. What the properties ask of the four legs
  of a gesture holds of every beginning of one: `SequenceInv` says it of the legs
  so far (each counts, each is linked to the one before, none of them is older
  than the last break), and `SignalInv` of where the zigzag stands after them: the
  pivot is where the last leg ended, or follows a head that rested there; it is
  later than what broke the last gesture; and the extreme under way is a lowest
  threshold away from it. The first is not inductive without the second. A sequence may
  be cut at its front at any leg, so the links are stated of neighbours and never
  of places (which is why `RestOnlyAtTheMidpoint` is false), except for a rest at
  the third place, which `Spoils` refuses whatever was cut.

`TemplateStore_proofs` proves, for any number of saves and of uids that have had
the name (`StoreAssumption`):

- `AckedSetSurvives` (`AckedSurvives`) and `SealedStaysSealed`
  (`SealingSticks`). Neither is inductive: a power cut goes back to any directory
  in `past`, so `PastInv` says of each of these what the properties say of the
  one on disk; the rename is safe because the set being saved is no older than
  the newest acknowledged (`JobInv`), and because the plain file is written only
  where nothing is sealed (`SaveInv`, which also follows the file from the rename
  to the sync that makes `past` one directory again); a deletion has withdrawn
  both promises before its second half (`DeleteInv`);
- `StoreTypeCorrect`.

`Presence_proofs` proves, for every table of lock times, every range of the
obscured time and every cut-off of the ages (`PresenceAssumption`), the four
properties of the run and `WatchTypeCorrect`. Each speaks of the moment a look
has been judged and compares the watch's memory with the history beside it, so
the invariant says at every step of the thread how the two stand to each other:

- `SecureModeNeedsTheUser`, `HiddenFaceIsBounded`: `AgeInv`. No sighting of the
  watch is younger than the user's last one, and a sighting runs ahead of a
  passed check by the obscured time at most;
- `TheDeskIsKept`: `DeskInv`. A settled user was seen in full and left a shape,
  and nothing but a lock makes the watch away;
- `TheStrangerIsReported`: `CountInv` bounds the looks at a stranger by three for
  each failed check and the ticks since the last one on which identity is checked
  anyway, which is where the six of the property comes from.

`Enrolment_proofs` proves, for any users, window threads, sessions and room for
words (`EnrolAssumption`):

- `SessionsStayApart` (`SessionsKeepApart`): by `RoundsInv`, which says of the set
  on disk, of the one being made and of each kind begun whose rounds are in it,
  and by `GrantInv`, which ties the claim and the grant on the socket to where the
  request stands, and the socket's list to the sets on disk until a panic has
  poisoned the mutex;
- `DoneMeansRecognised` (`RecognisedBeforeDone`): by `ProgressInv`. What a session
  reports at its end depends on all it did, so the invariant says at each step of
  the walk what is behind it: saved and verified twice before anything follows,
  and every everyday round passed in the set;
- `EnrolmentTypeCorrect`.

`Camera_proofs` proves, for any finite set of buffers, any nodes, wrap of the
numbers, deadline and limits (`CameraAssumption`, `LimitsAssumption`):

- `FrameStaysWhole` (`FrameIsWhole`): a buffer has one owner at a time (`OwnInv`:
  each is queued once and to one side), the one in hand is in neither queue, so
  that no exposure lands in it (`HandInv`), and the frame mixes two buffers only
  while its second half is decoded (`FrameInv`). `GrantedOnce`, `MoveApart` and
  `AppendOnce` are the lemmas about the queues;
- `SettingsAreRecorded` (`SettingsHold`): `StepLegal` shows, through the integer
  divisions, that no step of the loop leaves the limits or their order;
  `BeliefInv` says what of a write under way has been asked of the sensor already.
  It has to say that a use which does not stream has recorded nothing: a first
  write must not be skipped because it looks like what the last use left. It says
  nothing of what the sensor makes of a value;
- `CameraTypeCorrect`.

Every safety invariant, action property and refinement of a run is now stated by
a theorem. Only model-checked: liveness (fairness and `ENABLED` are out of the
prover's reach: `MovesOn`, `HangUpLeavesQueue`, `RequestEnds`, `UnlockIsSeen`,
`WalkAwayLocks`, `SessionEnds`, `SpellEnds`, `CallReturns`), and what a recursive
function or a fold computes (no induction over data: `TemplateSet`, `HeadDot`,
`EnrolLook`, `ConfigEdit`, `RearmGate`), with the rest of the rules checked as
assumptions. The prover knows nothing of `SelectSeq`, so a cut of a sequence that
the code orders is written as what is left of it: `Door!Aged`, `Gesture!Kept`,
`Throttles!Retained`.

## Not modelled

- What the driver makes of a setting (clamped, rounded, moved by the sensor
  itself): nothing in the code keeps the value it returns.
- A `systemctl stop` that never returns.
- The password check (`D/pamcheck.rs`): a call into libpam; right or wrong is a
  free choice of `ConsentRequest!Finish`.
- The engine's numbers (detection, embedding, mesh, liveness measures): what a
  frame scores is a free choice everywhere. Only the strobe's phase, a state
  machine over frames, is modelled.
- The filters that make an angle of a frame, the two-axis tests of the
  detectors and the replay of a calibration round: free choices of `Gesture`.
- Unpacking, demosaicing and drawing of pixels, and the debug tools' calls on
  the media controller.
- Reading `/proc`, logind and a command line, which is wording; the socket's
  ACL beyond the grant of an enrolment; the requests of `doctor` and `bench`,
  which change nothing the others read.
- The other tables of the configuration (thresholds), start-up (wiring), the
  CLI's reports and its clients (sequential), packaging (scripts and units).

Times are left to chance in `ConsentRequest`, `FaceScan`, `Enrolment` and
`TemplateStore`, and counted in ticks in `Presence`, `Throttles`, `Door`,
`Gesture` and `Camera`.

## Plan

Done: every module above, and a theorem for each property that is not liveness.

Left, if the code grows: the replay of a calibration round and the two-axis tests
in `Gesture`, and the times that `ConsentRequest` leaves to chance.
