----------------------------- MODULE ConsentQueue -----------------------------
(***************************************************************************)
(* The consent requests of the daemon, from the accept loop to the reply   *)
(* (server/serve.rs, server/handle.rs, consent/state.rs, backoff.rs).      *)
(*                                                                         *)
(* Each request runs on a thread of its own, so every action is one step   *)
(* of one thread: what it does while it holds the queue's mutex, or one    *)
(* access to an atomic. Threads meet in the queue (window, waiting), the   *)
(* connection count (active) and the standing refusals (standing).         *)
(*                                                                         *)
(* phase[r] is where the thread of request r stands:                       *)
(*   calling   its PAM module has not connected                            *)
(*   gates     accepted with a slot; the gates before the queue run        *)
(*   joined    has a place in the queue, still holds its slot              *)
(*   admitted  slot given back; the refusal and locality checks run        *)
(*   queued    take_turn: about to look at the queue under its mutex       *)
(*   waiting   take_turn: has waited, about to poll its requester          *)
(*   live      holds the window: the consent rounds run                    *)
(*   closing   the verdict is known, the window not yet given back         *)
(*   leaving   replied; the slot, if still held, is not yet given back     *)
(*   done      the thread has ended                                        *)
(***************************************************************************)
EXTENDS Naturals, Sequences, FiniteSets

CONSTANTS Request,          \* connections that ask for consent
          User,             \* uids
          UserOf,           \* the uid each request is for
          NoRequest,        \* no live record
          MaxConnections,   \* MAX_CONNECTIONS, 8 in the code
          ConsentPerUid     \* CONSENT_PER_UID, 32 in the code

ASSUME QueueAssumption ==
  /\ IsFiniteSet(Request)
  /\ UserOf \in [Request -> User]
  /\ NoRequest \notin Request
  /\ MaxConnections \in Nat \ {0}
  /\ ConsentPerUid \in Nat \ {0}

VARIABLES phase,      \* where each request's thread stands
          window,     \* Queue.live: the request on screen
          place,      \* Queue.waiting: places in arrival order
          held,       \* Slot.held of each request
          active,     \* ACTIVE: connections counted by the accept loop
          gone,       \* requesters that have hung up their socket
          standing    \* users whose last no still stands (REFUSALS)

vars == <<phase, window, place, held, active, gone, standing>>

Phases == {"calling", "gates", "joined", "admitted", "queued", "waiting",
           "live", "closing", "leaving", "done"}

(* The phases in which a thread owns a Place, a Turn, and certainly a slot. *)
PlacePhases == {"joined", "admitted", "queued", "waiting"}
TurnPhases  == {"live", "closing"}
SlotPhases  == {"gates", "joined"}

In(q, r) == \E i \in DOMAIN q : q[i] = r

InPlace(r) == In(place, r)

(* Place::drop: r's place, wherever it is in the queue, is taken out.       *)
Without(q, r) ==
  IF In(q, r)
  THEN LET k == CHOOSE i \in DOMAIN q : q[i] = r
       IN  [i \in 1 .. Len(q) - 1 |-> IF i < k THEN q[i] ELSE q[i + 1]]
  ELSE q

(* Requests of user u that are live or waiting, which `join` counts.        *)
HeldBy(u) == {r \in Request : UserOf[r] = u /\ (InPlace(r) \/ window = r)}

Init ==
  /\ phase = [r \in Request |-> "calling"]
  /\ window = NoRequest
  /\ place = <<>>
  /\ held = [r \in Request |-> FALSE]
  /\ active = 0
  /\ gone = {}
  /\ standing = {}
-------------------------------------------------------------------------------
(* Every return from `handle`, whatever it replies: the thread's Place and  *)
(* Turn are dropped. Its slot is dropped after them (Exit).                 *)
LeaveKeepingPlace(r) ==                                          \* mutant
  /\ phase' = [phase EXCEPT ![r] = "leaving"]
  /\ window' = IF window = r THEN NoRequest ELSE window
  /\ UNCHANGED place

Leave(r) ==
  /\ phase' = [phase EXCEPT ![r] = "leaving"]
  /\ place' = Without(place, r)
  /\ window' = IF window = r THEN NoRequest ELSE window

(* The accept loop counts the connection, or turns it away at the limit.    *)
Accept(r) ==
  /\ phase[r] = "calling"
  /\ active < MaxConnections
  /\ phase' = [phase EXCEPT ![r] = "gates"]
  /\ active' = active + 1
  /\ held' = [held EXCEPT ![r] = TRUE]
  /\ UNCHANGED <<window, place, gone, standing>>

TurnAway(r) ==
  /\ phase[r] = "calling"
  /\ active >= MaxConnections
  /\ phase' = [phase EXCEPT ![r] = "done"]
  /\ UNCHANGED <<window, place, held, active, gone, standing>>

(* One of the gates before the queue says no (own pid, unreadable request,  *)
(* root, may_ask, locality, lid, no active graphical session).              *)
Gate(r) ==
  /\ phase[r] = "gates"
  /\ Leave(r)
  /\ UNCHANGED <<held, active, gone, standing>>

(* ConsentState::join.                                                      *)
OtherUserLive(r) ==                                              \* mutant
  window # NoRequest /\ UserOf[window] # UserOf[r]

OtherUserHolds(r) ==
  \/ window # NoRequest /\ UserOf[window] # UserOf[r]
  \/ place # <<>> /\ UserOf[Head(place)] # UserOf[r]

JoinCountsWaiting(r) ==                                          \* mutant
  /\ phase[r] = "gates"
  /\ ~OtherUserHolds(r)
  /\ Cardinality(HeldBy(UserOf[r]) \ {window}) < ConsentPerUid
  /\ place' = Append(place, r)
  /\ phase' = [phase EXCEPT ![r] = "joined"]
  /\ UNCHANGED <<window, held, active, gone, standing>>

JoinAtFront(r) ==                                                \* mutant
  /\ phase[r] = "gates"
  /\ ~OtherUserHolds(r)
  /\ Cardinality(HeldBy(UserOf[r])) < ConsentPerUid
  /\ place' = <<r>> \o place
  /\ phase' = [phase EXCEPT ![r] = "joined"]
  /\ UNCHANGED <<window, held, active, gone, standing>>

Join(r) ==
  /\ phase[r] = "gates"
  /\ ~OtherUserHolds(r)
  /\ Cardinality(HeldBy(UserOf[r])) < ConsentPerUid
  /\ place' = Append(place, r)
  /\ phase' = [phase EXCEPT ![r] = "joined"]
  /\ UNCHANGED <<window, held, active, gone, standing>>

JoinRefused(r) ==
  /\ phase[r] = "gates"
  /\ OtherUserHolds(r) \/ Cardinality(HeldBy(UserOf[r])) >= ConsentPerUid
  /\ Leave(r)
  /\ UNCHANGED <<held, active, gone, standing>>

(* Slot::release, called early for an admitted consent request.             *)
ReleaseStillHeld(r) ==                                           \* mutant
  /\ phase[r] = "joined"
  /\ phase' = [phase EXCEPT ![r] = "admitted"]
  /\ active' = IF held[r] THEN active - 1 ELSE active
  /\ UNCHANGED <<window, place, held, gone, standing>>

Release(r) ==
  /\ phase[r] = "joined"
  /\ phase' = [phase EXCEPT ![r] = "admitted"]
  /\ held' = [held EXCEPT ![r] = FALSE]
  /\ active' = IF held[r] THEN active - 1 ELSE active
  /\ UNCHANGED <<window, place, gone, standing>>

(* refusal_standing: a no said a moment ago answers this request too.       *)
RefusedRecently(r) ==
  /\ phase[r] = "admitted"
  /\ UserOf[r] \in standing
  /\ Leave(r)
  /\ UNCHANGED <<held, active, gone, standing>>

(* No refusal stands. The polkit requester must be local too; then the      *)
(* thread goes on to wait for its turn.                                     *)
RequesterRemote(r) ==
  /\ phase[r] = "admitted"
  /\ UserOf[r] \notin standing
  /\ Leave(r)
  /\ UNCHANGED <<held, active, gone, standing>>

Queue(r) ==
  /\ phase[r] = "admitted"
  /\ UserOf[r] \notin standing
  /\ phase' = [phase EXCEPT ![r] = "queued"]
  /\ UNCHANGED <<window, place, held, active, gone, standing>>
-------------------------------------------------------------------------------
(* take_turn, the part under the mutex: the head takes a free window; a     *)
(* request behind another user's loses its place; the rest wait.            *)
AnyMayTake(r) == InPlace(r) /\ window = NoRequest                \* mutant
MayTake(r) == place # <<>> /\ Head(place) = r /\ window = NoRequest

TakeTurn(r) ==
  /\ phase[r] = "queued"
  /\ MayTake(r)
  /\ place' = Tail(place)
  /\ window' = r
  /\ phase' = [phase EXCEPT ![r] = "live"]
  /\ UNCHANGED <<held, active, gone, standing>>

Wait(r) ==
  /\ phase[r] = "queued"
  /\ ~MayTake(r)
  /\ IF window # NoRequest /\ UserOf[window] # UserOf[r]
     THEN Leave(r)
     ELSE /\ phase' = [phase EXCEPT ![r] = "waiting"]
          /\ UNCHANGED <<window, place>>
  /\ UNCHANGED <<held, active, gone, standing>>

(* take_turn, after the wait (a wake-up or 300 ms): the requester is polled.*)
WaitOn(r) ==                                                     \* mutant
  /\ phase[r] = "waiting"
  /\ phase' = [phase EXCEPT ![r] = "queued"]
  /\ UNCHANGED <<window, place, held, active, gone, standing>>

PollRequester(r) ==
  /\ phase[r] = "waiting"
  /\ IF r \in gone
     THEN Leave(r)
     ELSE /\ phase' = [phase EXCEPT ![r] = "queued"]
          /\ UNCHANGED <<window, place>>
  /\ UNCHANGED <<held, active, gone, standing>>

(* The consent rounds end with a verdict. An explicit no (a shake, a        *)
(* dismissal, a refused confirm) starts the standing refusal before the     *)
(* window is given back; any other verdict changes nothing here.            *)
Verdict(r, no) ==
  /\ phase[r] = "live"
  /\ phase' = [phase EXCEPT ![r] = "closing"]
  /\ standing' = IF no THEN standing \cup {UserOf[r]} ELSE standing
  /\ UNCHANGED <<window, place, held, active, gone>>

(* Turn::drop, then the reply.                                              *)
DropTurn(r) ==
  /\ phase[r] = "closing"
  /\ Leave(r)
  /\ UNCHANGED <<held, active, gone, standing>>

(* A panic unwinds the handler: its Place, Turn and slot are dropped.       *)
Unwind(r) ==
  /\ phase[r] \notin {"calling", "leaving", "done"}
  /\ Leave(r)
  /\ UNCHANGED <<held, active, gone, standing>>

(* The thread's closure ends: Slot::drop gives the slot back unless it was  *)
(* released, and the connection is closed.                                  *)
Exit(r) ==
  /\ phase[r] = "leaving"
  /\ phase' = [phase EXCEPT ![r] = "done"]
  /\ held' = [held EXCEPT ![r] = FALSE]
  /\ active' = IF held[r] THEN active - 1 ELSE active
  /\ gone' = gone \ {r}
  /\ UNCHANGED <<window, place, standing>>

(* The requester goes away: sudo interrupted, the polkit helper killed.     *)
HangUp(r) ==
  /\ phase[r] \notin {"calling", "leaving", "done"}
  /\ r \notin gone
  /\ gone' = gone \cup {r}
  /\ UNCHANGED <<phase, window, place, held, active, standing>>

(* The standing refusal of user u runs out.                                 *)
Expire(u) ==
  /\ u \in standing
  /\ standing' = standing \ {u}
  /\ UNCHANGED <<phase, window, place, held, active, gone>>

Handler(r) ==
  \/ Gate(r) \/ Join(r) \/ JoinRefused(r) \/ Release(r)
  \/ RefusedRecently(r) \/ RequesterRemote(r) \/ Queue(r)
  \/ TakeTurn(r) \/ Wait(r) \/ PollRequester(r)
  \/ DropTurn(r) \/ Exit(r)

Answered(r) == \E no \in BOOLEAN : Verdict(r, no)

Next ==
  \/ \E r \in Request :
       \/ Accept(r) \/ TurnAway(r) \/ Handler(r)
       \/ Answered(r) \/ Unwind(r) \/ HangUp(r)
  \/ \E u \in User : Expire(u)

Spec == Init /\ [][Next]_vars
-------------------------------------------------------------------------------
(* Fairness. A handler thread that can go on goes on; nothing makes a user  *)
(* answer, a requester hang up or another connection arrive.                *)
FairSpec == Spec /\ \A r \in Request : WF_vars(Handler(r))
-------------------------------------------------------------------------------
(* Every variable has its type.                                             *)
TypeOK ==
  /\ phase \in [Request -> Phases]
  /\ window \in Request \cup {NoRequest}
  /\ place \in Seq(Request)
  /\ held \in [Request -> BOOLEAN]
  /\ active \in Nat
  /\ gone \subseteq Request
  /\ standing \subseteq User

(* The queue never holds the place of a thread that is not waiting for it,  *)
(* nor twice the same one, and the window is held by exactly the thread     *)
(* whose rounds run: a place or a turn that outlived its thread would block *)
(* every request behind it for good.                                        *)
NoGhostPlace ==
  /\ \A r \in Request : InPlace(r) <=> phase[r] \in PlacePhases
  /\ \A i, j \in DOMAIN place : place[i] = place[j] => i = j

OneWindow == \A r \in Request : window = r <=> phase[r] \in TurnPhases

(* Whoever is on screen or waiting is the same user: `join` compares with   *)
(* the live request and the head of the queue only, and this is why that is *)
(* enough, and why take_turn's own OtherUser check never takes a place away.*)
OneUser ==
  /\ \A i, j \in DOMAIN place : UserOf[place[i]] = UserOf[place[j]]
  /\ window # NoRequest => \A i \in DOMAIN place : UserOf[place[i]] = UserOf[window]

(* Together: the queue and the window hold what their threads hold, and one *)
(* user's requests only.                                                    *)
QueueIsSound == NoGhostPlace /\ OneWindow /\ OneUser

(* ACTIVE counts exactly the slots held, and no request that waits for its  *)
(* user holds one, so parked requests never starve the short connections    *)
(* (answers, acknowledgements, probes) that must get through meanwhile.     *)
SlotsCounted ==
  /\ active = Cardinality({r \in Request : held[r]})
  /\ active <= MaxConnections
  /\ \A r \in Request : held[r] => phase[r] \in SlotPhases \cup {"leaving"}

(* A user never has more than CONSENT_PER_UID requests live or waiting,     *)
(* whatever joins, leaves and hand-overs have happened since `join` counted.*)
PerUserBound == \A u \in User : Cardinality(HeldBy(u)) <= ConsentPerUid

(* Together: neither the slots nor a user's places go over their number.    *)
WithinBounds == SlotsCounted /\ PerUserBound

(* No overtaking: a request never gets the window while one that took its   *)
(* place earlier is still waiting.                                          *)
NoOvertaking ==
  [][\A i, j \in DOMAIN place : i < j => window' # place[j]]_vars

(* The queue is the abstract consent window, step for step.                 *)
Abstract == INSTANCE ConsentWindow WITH line <- place
ImplementsWindow == Abstract!Spec

(* A free window never stays free while requests wait for it: whatever hung *)
(* up, was refused or panicked in front of them, somebody takes it.         *)
FreeWindowIsTaken ==
  (window = NoRequest /\ place # <<>>) ~> (window # NoRequest \/ place = <<>>)

(* The connection slots come free again although no user ever answers.      *)
SlotsComeFree == active = MaxConnections ~> active < MaxConnections

(* Together: neither the window nor the slots wait for a user to answer.    *)
MovesOn == FreeWindowIsTaken /\ SlotsComeFree

(* A requester that hangs up while it waits leaves the queue even if the    *)
(* request on screen is never answered.                                     *)
HangUpLeavesQueue ==
  \A r \in Request :
    (r \in gone /\ phase[r] \in {"queued", "waiting"})
      ~> phase[r] \in {"live", "leaving", "done"}

(* README.md:199-201 and backoff.rs:10-15: after a no, the user's requests  *)
(* are refused without a window while the refusal stands.                   *)
NoWindowWhileRefused ==
  [][\A r \in Request : window # r /\ window' = r => UserOf[r] \notin standing]_vars
===============================================================================
