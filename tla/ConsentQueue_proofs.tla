------------------------- MODULE ConsentQueue_proofs -------------------------
(* Proofs about the consent queue, for every finite set of requests, every  *)
(* number of users and every value of the two limits.                       *)
EXTENDS ConsentQueue, FiniteSetTheorems, TLAPS

Injective(q) == \A i, j \in DOMAIN q : q[i] = q[j] => i = j

(* Taking a place out of a queue without repetitions keeps it one, removes  *)
(* that request and nobody else, and keeps the others in order.             *)
LEMMA WithoutPlace ==
  ASSUME NEW S, NEW q \in Seq(S), Injective(q), NEW r
  PROVE  /\ Without(q, r) \in Seq(S)
         /\ Injective(Without(q, r))
         /\ \A s : In(Without(q, r), s) <=> In(q, s) /\ s # r
<1>1. CASE ~ In(q, r)
  BY <1>1 DEF Without, In
<1>2. CASE In(q, r)
  <2> DEFINE k == CHOOSE i \in DOMAIN q : q[i] = r
             w == [i \in 1 .. Len(q) - 1 |-> IF i < k THEN q[i] ELSE q[i + 1]]
  <2>1. k \in DOMAIN q /\ q[k] = r
    BY <1>2 DEF In
  <2>2. Without(q, r) = w
    BY <1>2 DEF Without
  <2> HIDE DEF k
  <2>3. Len(q) \in Nat /\ DOMAIN q = 1 .. Len(q) /\ Len(q) - 1 \in Nat
    BY <2>1
  <2>4. w \in Seq(S) /\ DOMAIN w = 1 .. Len(q) - 1
    BY <2>1, <2>3
  <2>5. Injective(w)
    BY <2>1, <2>3, <2>4 DEF Injective
  <2>6. ASSUME NEW s PROVE In(w, s) <=> In(q, s) /\ s # r
    <3>1. ASSUME In(w, s) PROVE In(q, s) /\ s # r
      BY <3>1, <2>1, <2>3, <2>4 DEF In, Injective
    <3>2. ASSUME In(q, s), s # r PROVE In(w, s)
      <4>1. PICK j \in 1 .. Len(q) : q[j] = s
        BY <3>2, <2>3 DEF In
      <4>2. CASE j < k
        BY <4>1, <4>2, <2>1, <2>3, <2>4 DEF In
      <4>3. CASE j > k
        <5>1. j - 1 \in DOMAIN w /\ w[j - 1] = q[j]
          BY <4>3, <2>1, <2>3, <2>4
        <5> QED
          BY <5>1, <4>1 DEF In
      <4>4. j # k
        BY <3>2, <4>1, <2>1
      <4> QED
        BY <4>2, <4>3, <4>4, <2>1, <2>3
    <3> QED
      BY <3>1, <3>2
  <2> QED
    BY <2>2, <2>4, <2>5, <2>6
<1> QED
  BY <1>1, <1>2
-------------------------------------------------------------------------------
(* The inductive invariant: the invariants the model checker confirms on    *)
(* small instances are inductive together, none of them alone. OneUser      *)
(* needs OneWindow and NoGhostPlace to know that whoever leaves takes       *)
(* exactly its own place; SlotsCounted needs the phases.                    *)
Inv == TypeOK /\ NoGhostPlace /\ OneWindow /\ OneUser /\ SlotsCounted

USE DEF Phases, PlacePhases, TurnPhases, SlotPhases

(* The daemon starts with nobody connected.                               *)
LEMMA InitInv == Init => Inv
<1> SUFFICES ASSUME Init PROVE Inv
  OBVIOUS
<1> USE DEF Init
<1>1. TypeOK
  BY DEF TypeOK
<1>2. NoGhostPlace
  BY DEF NoGhostPlace, InPlace, In
<1>3. OneWindow
  BY QueueAssumption DEF OneWindow
<1>4. OneUser
  BY DEF OneUser
<1>5. SlotsCounted
  <2>1. {r \in Request : held[r]} = {}
    OBVIOUS
  <2> QED
    <3>1. Cardinality({}) = 0 /\ active = 0
      BY FS_EmptySet
    <3>2. active <= MaxConnections
      BY <3>1, QueueAssumption
    <3>3. \A r \in Request : ~held[r]
      OBVIOUS
    <3> QED
      BY <2>1, <3>1, <3>2, <3>3 DEF SlotsCounted
<1> QED
  BY <1>1, <1>2, <1>3, <1>4, <1>5 DEF Inv

(* Dropping a thread's place and turn, from any phase in which it has not   *)
(* left yet, keeps the invariant.                                           *)
LEMMA LeaveInv ==
  ASSUME Inv, NEW r \in Request, Leave(r),
         phase[r] \notin {"calling", "leaving", "done"},
         UNCHANGED <<held, active, gone>>, standing' \subseteq User
  PROVE  Inv'
<1> USE DEF Inv
<1>1. /\ place' \in Seq(Request)
      /\ Injective(place')
      /\ \A s : In(place', s) <=> In(place, s) /\ s # r
  BY WithoutPlace DEF Leave, TypeOK, NoGhostPlace, Injective
<1>2. phase' \in [Request -> Phases] /\ phase'[r] = "leaving"
      /\ \A s \in Request : s # r => phase'[s] = phase[s]
  BY DEF Leave, TypeOK
<1>3. TypeOK'
  BY <1>1, <1>2 DEF Leave, TypeOK
<1>4. NoGhostPlace'
  BY <1>1, <1>2 DEF NoGhostPlace, InPlace, Injective
<1>5. OneWindow'
  BY <1>2, QueueAssumption DEF OneWindow, Leave
<1>6. OneUser'
  <2>1. ASSUME NEW i \in DOMAIN place' PROVE \E j \in DOMAIN place : place'[i] = place[j]
    BY <1>1 DEF In
  <2> QED
    BY <2>1 DEF OneUser, Leave
<1>7. SlotsCounted'
  <2>1. {s \in Request : held[s]}' = {s \in Request : held[s]}
    OBVIOUS
  <2> QED
    BY <2>1, <1>2 DEF SlotsCounted
<1> QED
  BY <1>3, <1>4, <1>5, <1>6, <1>7

(* A thread that only moves on, with place, window and slots as they are,   *)
(* stays in the same kind of phase.                                         *)
LEMMA MoveInv ==
  ASSUME Inv, NEW r \in Request, NEW p \in Phases,
         phase' = [phase EXCEPT ![r] = p],
         p \in PlacePhases <=> phase[r] \in PlacePhases,
         p \in TurnPhases <=> phase[r] \in TurnPhases,
         held[r] => p \in SlotPhases \cup {"leaving"},
         UNCHANGED <<window, place, held, active, gone>>, standing' \subseteq User
  PROVE  Inv'
<1> USE DEF Inv
<1>1. TypeOK'
  BY DEF TypeOK
<1>2. NoGhostPlace' /\ OneWindow' /\ OneUser'
  BY DEF TypeOK, NoGhostPlace, InPlace, In, OneWindow, OneUser
<1>3. SlotsCounted'
  <2>1. {s \in Request : held[s]}' = {s \in Request : held[s]}
    OBVIOUS
  <2> QED
    BY <2>1 DEF SlotsCounted, TypeOK
<1> QED
  BY <1>1, <1>2, <1>3

(* A slot taken is counted once, a slot given back is discounted once.      *)
LEMMA SlotTaken ==
  ASSUME Inv, NEW r \in Request, ~held[r], held' = [held EXCEPT ![r] = TRUE]
  PROVE  Cardinality({s \in Request : held'[s]}) = active + 1
<1> DEFINE S == {s \in Request : held[s]}
<1>1. IsFiniteSet(S)
  BY FS_Subset, QueueAssumption
<1>2. {s \in Request : held'[s]} = S \cup {r} /\ r \notin S
  BY DEF Inv, TypeOK
<1>3. active = Cardinality(S)
  BY DEF Inv, SlotsCounted
<1> QED
  BY <1>1, <1>2, <1>3, FS_AddElement

(* A slot is given back by whom it was counted for.                       *)
LEMMA SlotGivenBack ==
  ASSUME Inv, NEW r \in Request,
         held' = [held EXCEPT ![r] = FALSE],
         active' = IF held[r] THEN active - 1 ELSE active
  PROVE  /\ active' = Cardinality({s \in Request : held'[s]})
         /\ active' \in Nat /\ active' <= active
<1> DEFINE S == {s \in Request : held[s]}
           T == {s \in Request : held'[s]}
<1>1. IsFiniteSet(S) /\ active = Cardinality(S) /\ active \in Nat
  BY FS_Subset, QueueAssumption DEF Inv, SlotsCounted, TypeOK
<1>2. CASE held[r]
  <2>1. T = S \ {r} /\ r \in S
    BY <1>2 DEF Inv, TypeOK
  <2>2. Cardinality(T) = Cardinality(S) - 1 /\ IsFiniteSet(T)
    BY <1>1, <2>1, FS_RemoveElement
  <2>3. Cardinality(T) \in Nat
    BY <2>2, FS_CardinalityType
  <2> HIDE DEF S, T
  <2> QED
    BY <1>1, <1>2, <2>2, <2>3 DEF T
<1>3. CASE ~held[r]
  <2>1. T = S
    BY <1>3 DEF Inv, TypeOK
  <2> QED
    BY <1>1, <1>3, <2>1
<1> QED
  BY <1>2, <1>3
-------------------------------------------------------------------------------
(* A connection is counted as it is accepted, up to the limits.           *)
LEMMA AcceptInv == ASSUME Inv, NEW r \in Request, Accept(r) PROVE Inv'
<1> USE DEF Inv, Accept
<1>1. ~held[r]
  BY DEF SlotsCounted, TypeOK
<1>2. Cardinality({s \in Request : held'[s]}) = active + 1
  BY <1>1, SlotTaken
<1>3. TypeOK'
  BY DEF TypeOK
<1>4. NoGhostPlace' /\ OneWindow' /\ OneUser'
  BY DEF TypeOK, NoGhostPlace, InPlace, In, OneWindow, OneUser
<1>5. SlotsCounted'
  BY <1>2, QueueAssumption DEF SlotsCounted, TypeOK
<1> QED
  BY <1>3, <1>4, <1>5

(* The front of the queue and the live request stand for everybody: if      *)
(* neither is another user's, nobody in the queue is.                       *)
LEMMA JoinInv == ASSUME Inv, NEW r \in Request, Join(r) PROVE Inv'
<1> USE DEF Inv, Join
<1>1. /\ place \in Seq(Request) /\ place' = Append(place, r)
      /\ Len(place') = Len(place) + 1 /\ DOMAIN place' = 1 .. Len(place) + 1
      /\ DOMAIN place = 1 .. Len(place) /\ Len(place) \in Nat
      /\ \A i \in DOMAIN place : place'[i] = place[i]
      /\ place'[Len(place) + 1] = r
  BY DEF TypeOK
<1>2. TypeOK'
  BY <1>1 DEF TypeOK
<1>3. ~ InPlace(r)
  BY DEF NoGhostPlace
<1>4. NoGhostPlace'
  <2>1. \A s \in Request : In(place', s) <=> In(place, s) \/ s = r
    BY <1>1 DEF In
  <2>2. \A i, j \in DOMAIN place' : place'[i] = place'[j] => i = j
    BY <1>1, <1>3 DEF NoGhostPlace, InPlace, In
  <2> QED
    BY <2>1, <2>2 DEF NoGhostPlace, InPlace, TypeOK
<1>5. OneWindow'
  BY DEF OneWindow, TypeOK
<1>6. OneUser'
  <2>1. \A i \in DOMAIN place : UserOf[place[i]] = UserOf[r]
    <3>1. ASSUME NEW i \in DOMAIN place PROVE UserOf[place[i]] = UserOf[r]
      <4>1. place # <<>> /\ Head(place) = place[1] /\ 1 \in DOMAIN place
        BY <1>1
      <4> QED
        BY <4>1 DEF OtherUserHolds, OneUser
    <3> QED
      BY <3>1
  <2>2. window # NoRequest => UserOf[window] = UserOf[r]
    BY DEF OtherUserHolds
  <2> QED
    BY <1>1, <2>1, <2>2 DEF OneUser
<1>7. SlotsCounted'
  BY DEF SlotsCounted, TypeOK
<1> QED
  BY <1>2, <1>4, <1>5, <1>6, <1>7

(* ... and uncounted as it ends.                                          *)
LEMMA ReleaseInv == ASSUME Inv, NEW r \in Request, Release(r) PROVE Inv'
<1> USE DEF Inv, Release
<1>1. /\ active' = Cardinality({s \in Request : held'[s]})
      /\ active' \in Nat /\ active' <= active
  BY SlotGivenBack, Zenon
<1>2. TypeOK'
  BY <1>1 DEF TypeOK
<1>3. NoGhostPlace' /\ OneWindow' /\ OneUser'
  BY DEF TypeOK, NoGhostPlace, InPlace, In, OneWindow, OneUser
<1>4. SlotsCounted'
  <2>1. active' <= MaxConnections
    BY <1>1, QueueAssumption DEF SlotsCounted, TypeOK
  <2>2. \A s \in Request : held'[s] => phase'[s] \in SlotPhases \cup {"leaving"}
    BY DEF SlotsCounted, TypeOK
  <2> QED
    BY <1>1, <2>1, <2>2, Zenon DEF SlotsCounted
<1> QED
  BY <1>2, <1>3, <1>4

(* The head of the queue takes the free window.                           *)
LEMMA TakeTurnInv == ASSUME Inv, NEW r \in Request, TakeTurn(r) PROVE Inv'
<1> USE DEF Inv, TakeTurn, MayTake
<1>1. /\ place \in Seq(Request) /\ place # <<>> /\ place' = Tail(place)
      /\ Len(place) \in Nat \ {0} /\ DOMAIN place = 1 .. Len(place)
      /\ DOMAIN place' = 1 .. Len(place) - 1
      /\ \A i \in DOMAIN place' : place'[i] = place[i + 1]
      /\ place[1] = r
  BY DEF TypeOK
<1>2. TypeOK'
  BY <1>1 DEF TypeOK
<1>3. NoGhostPlace'
  <2>1. ASSUME NEW s \in Request PROVE In(place', s) <=> In(place, s) /\ s # r
    <3>1. ASSUME In(place, s), s # r PROVE In(place', s)
      <4>1. PICK i \in 1 .. Len(place) : place[i] = s
        BY <1>1, <3>1 DEF In
      <4>2. i - 1 \in DOMAIN place' /\ place'[i - 1] = s
        BY <1>1, <3>1, <4>1
      <4> QED
        BY <4>2 DEF In
    <3>2. ASSUME In(place', s) PROVE In(place, s) /\ s # r
      BY <1>1, <3>2 DEF In, NoGhostPlace
    <3> QED
      BY <3>1, <3>2
  <2>2. \A i, j \in DOMAIN place' : place'[i] = place'[j] => i = j
    BY <1>1 DEF NoGhostPlace
  <2> QED
    BY <2>1, <2>2 DEF NoGhostPlace, InPlace, TypeOK
<1>4. OneWindow'
  BY QueueAssumption DEF OneWindow, TypeOK
<1>5. OneUser'
  <2>1. \A i \in DOMAIN place' : i + 1 \in DOMAIN place /\ place'[i] = place[i + 1]
    BY <1>1
  <2>2. 1 \in DOMAIN place /\ place[1] = r /\ window' = r
    BY <1>1
  <2> QED
    BY <2>1, <2>2 DEF OneUser
<1>6. SlotsCounted'
  BY DEF SlotsCounted, TypeOK
<1> QED
  BY <1>2, <1>3, <1>4, <1>5, <1>6

(* A request leaves the queue, from wherever it stands.                   *)
LEMMA ExitInv == ASSUME Inv, NEW r \in Request, Exit(r) PROVE Inv'
<1> USE DEF Inv, Exit
<1>1. /\ active' = Cardinality({s \in Request : held'[s]})
      /\ active' \in Nat /\ active' <= active
  BY SlotGivenBack, Zenon
<1>2. TypeOK'
  BY <1>1 DEF TypeOK
<1>3. NoGhostPlace' /\ OneWindow' /\ OneUser'
  BY DEF TypeOK, NoGhostPlace, InPlace, In, OneWindow, OneUser
<1>4. SlotsCounted'
  <2>1. active' <= MaxConnections
    BY <1>1, QueueAssumption DEF SlotsCounted, TypeOK
  <2>2. \A s \in Request : held'[s] => phase'[s] \in SlotPhases \cup {"leaving"}
    BY DEF SlotsCounted, TypeOK
  <2> QED
    BY <1>1, <2>1, <2>2, Zenon DEF SlotsCounted
<1> QED
  BY <1>2, <1>3, <1>4
-------------------------------------------------------------------------------
(* Every step keeps the invariant, one case per action.                     *)
LEMMA StepInv == Inv /\ [Next]_vars => Inv'
<1> SUFFICES ASSUME Inv, [Next]_vars PROVE Inv'
  OBVIOUS
<1>1. ASSUME NEW r \in Request, Accept(r) PROVE Inv'
  BY <1>1, AcceptInv
<1>2. ASSUME NEW r \in Request, TurnAway(r) PROVE Inv'
  <2>1. ~held[r]
    BY <1>2 DEF Inv, SlotsCounted, TurnAway
  <2> QED
    BY <1>2, <2>1, MoveInv DEF TurnAway, Inv, TypeOK
<1>3. ASSUME NEW r \in Request, Gate(r) PROVE Inv'
  BY <1>3, LeaveInv DEF Gate, Inv, TypeOK
<1>4. ASSUME NEW r \in Request, Join(r) PROVE Inv'
  BY <1>4, JoinInv
<1>5. ASSUME NEW r \in Request, JoinRefused(r) PROVE Inv'
  BY <1>5, LeaveInv DEF JoinRefused, Inv, TypeOK
<1>6. ASSUME NEW r \in Request, Release(r) PROVE Inv'
  BY <1>6, ReleaseInv
<1>7. ASSUME NEW r \in Request, RefusedRecently(r) PROVE Inv'
  BY <1>7, LeaveInv DEF RefusedRecently, Inv, TypeOK
<1>8. ASSUME NEW r \in Request, RequesterRemote(r) PROVE Inv'
  BY <1>8, LeaveInv DEF RequesterRemote, Inv, TypeOK
<1>9. ASSUME NEW r \in Request, Queue(r) PROVE Inv'
  <2>1. ~held[r]
    BY <1>9 DEF Inv, SlotsCounted, Queue
  <2> QED
    BY <1>9, <2>1, MoveInv DEF Queue, Inv, TypeOK
<1>10. ASSUME NEW r \in Request, TakeTurn(r) PROVE Inv'
  BY <1>10, TakeTurnInv
<1>11. ASSUME NEW r \in Request, Wait(r) PROVE Inv'
  <2>1. ~held[r]
    BY <1>11 DEF Inv, SlotsCounted, Wait
  <2>2. CASE window # NoRequest /\ UserOf[window] # UserOf[r]
    BY <1>11, <2>2, LeaveInv DEF Wait, Inv, TypeOK
  <2>3. CASE ~(window # NoRequest /\ UserOf[window] # UserOf[r])
    BY <1>11, <2>1, <2>3, MoveInv DEF Wait, Inv, TypeOK
  <2> QED
    BY <2>2, <2>3
<1>12. ASSUME NEW r \in Request, PollRequester(r) PROVE Inv'
  <2>1. ~held[r]
    BY <1>12 DEF Inv, SlotsCounted, PollRequester
  <2>2. CASE r \in gone
    BY <1>12, <2>2, LeaveInv DEF PollRequester, Inv, TypeOK
  <2>3. CASE r \notin gone
    BY <1>12, <2>1, <2>3, MoveInv DEF PollRequester, Inv, TypeOK
  <2> QED
    BY <2>2, <2>3
<1>13. ASSUME NEW r \in Request, DropTurn(r) PROVE Inv'
  BY <1>13, LeaveInv DEF DropTurn, Inv, TypeOK
<1>14. ASSUME NEW r \in Request, Exit(r) PROVE Inv'
  BY <1>14, ExitInv
<1>15. ASSUME NEW r \in Request, Answered(r) PROVE Inv'
  <2>1. PICK no \in BOOLEAN : Verdict(r, no)
    BY <1>15 DEF Answered
  <2>2. ~held[r]
    BY <2>1 DEF Inv, SlotsCounted, Verdict
  <2>3. standing' \subseteq User
    BY <2>1, QueueAssumption DEF Verdict, Inv, TypeOK
  <2> QED
    BY <2>1, <2>2, <2>3, MoveInv DEF Verdict, Inv, TypeOK
<1>16. ASSUME NEW r \in Request, Unwind(r) PROVE Inv'
  BY <1>16, LeaveInv DEF Unwind, Inv, TypeOK
<1>17. ASSUME NEW r \in Request, HangUp(r) PROVE Inv'
  <2> USE <1>17 DEF HangUp, Inv
  <2>1. TypeOK'
    BY DEF TypeOK
  <2>2. NoGhostPlace' /\ OneWindow' /\ OneUser' /\ SlotsCounted'
    BY DEF NoGhostPlace, InPlace, In, OneWindow, OneUser, SlotsCounted
  <2> QED
    BY <2>1, <2>2
<1>18. ASSUME NEW u \in User, Expire(u) PROVE Inv'
  <2> USE <1>18 DEF Expire, Inv
  <2>1. TypeOK'
    BY DEF TypeOK
  <2>2. NoGhostPlace' /\ OneWindow' /\ OneUser' /\ SlotsCounted'
    BY DEF NoGhostPlace, InPlace, In, OneWindow, OneUser, SlotsCounted
  <2> QED
    BY <2>1, <2>2
<1>19. CASE UNCHANGED vars
  <2> USE <1>19 DEF vars, Inv
  <2>1. TypeOK'
    BY DEF TypeOK
  <2>2. NoGhostPlace' /\ OneWindow' /\ OneUser' /\ SlotsCounted'
    BY DEF NoGhostPlace, InPlace, In, OneWindow, OneUser, SlotsCounted
  <2> QED
    BY <2>1, <2>2
<1> QED
  BY <1>1, <1>2, <1>3, <1>4, <1>5, <1>6, <1>7, <1>8, <1>9, <1>10, <1>11, <1>12,
     <1>13, <1>14, <1>15, <1>16, <1>17, <1>18, <1>19 DEF Next, Handler

(* So the invariant holds throughout.                                     *)
LEMMA Invariance == Spec => []Inv
  BY InitInv, StepInv, PTL DEF Spec

(* Every reachable state of the queue is well typed.                        *)
THEOREM TypeCorrect == Spec => []TypeOK
  BY Invariance, PTL DEF Inv

(* Places and the window never outlive the threads they belong to, and all  *)
(* of them are one user's.                                                  *)
THEOREM PlacesAndTurns == Spec => []QueueIsSound
<1>1. Inv => QueueIsSound
  BY DEF Inv, QueueIsSound
<1> QED
  BY <1>1, Invariance, PTL

(* Comparing a newcomer with the live request and the front of the queue is *)
(* enough to keep the queue one user's.                                     *)
THEOREM OneUserAlways == Spec => []OneUser
  BY Invariance, PTL DEF Inv

(* ACTIVE is exact, within its limit, and no parked request holds a slot.   *)
THEOREM SlotAccounting == Spec => []SlotsCounted
  BY Invariance, PTL DEF Inv
-------------------------------------------------------------------------------
(* What one step does to the window and to the line for it: nothing, one    *)
(* request joins, the head is served, or one request leaves.                *)
QueueStep ==
  \/ UNCHANGED <<window, place>>
  \/ \E r \in Request : Join(r)
  \/ \E r \in Request : TakeTurn(r)
  \/ \E r \in Request : Leave(r)

(* What each step is to the abstract queue.                               *)
LEMMA StepsOfTheQueue == [Next]_vars => QueueStep
<1> SUFFICES ASSUME [Next]_vars PROVE QueueStep
  OBVIOUS
<1> USE DEF QueueStep
<1>1. CASE UNCHANGED vars
  BY <1>1 DEF vars
<1>2. ASSUME NEW r \in Request, Accept(r) \/ TurnAway(r) \/ HangUp(r) PROVE QueueStep
  BY <1>2 DEF Accept, TurnAway, HangUp
<1>3. ASSUME NEW r \in Request, Handler(r) PROVE QueueStep
  BY <1>3 DEF Handler, Gate, JoinRefused, Release, RefusedRecently, RequesterRemote,
              Queue, Wait, PollRequester, DropTurn, Exit
<1>4. ASSUME NEW r \in Request, Answered(r) \/ Unwind(r) PROVE QueueStep
  BY <1>4 DEF Answered, Verdict, Unwind
<1>5. ASSUME NEW u \in User, Expire(u) PROVE QueueStep
  BY <1>5 DEF Expire
<1> QED
  BY <1>1, <1>2, <1>3, <1>4, <1>5 DEF Next

(* A request has a place or the window, never both.                         *)
LEMMA NotBoth == ASSUME Inv, NEW i \in DOMAIN place PROVE place[i] \in Request /\ window # place[i]
<1>1. place[i] \in Request
  BY DEF Inv, TypeOK
<1>2. phase[place[i]] \in PlacePhases
  BY <1>1 DEF Inv, NoGhostPlace, InPlace, In
<1> QED
  BY <1>1, <1>2 DEF Inv, OneWindow, PlacePhases, TurnPhases

(* The window only ever goes to the front of the line, so to nobody behind  *)
(* it.                                                                      *)
THEOREM InOrder == Spec => NoOvertaking
<1> DEFINE Ordered == \A i, j \in DOMAIN place : i < j => window' # place[j]
<1>1. Inv /\ [Next]_vars => [Ordered]_vars
  <2> SUFFICES ASSUME Inv, [Next]_vars, NEW i \in DOMAIN place, NEW j \in DOMAIN place, i < j
               PROVE  window' # place[j]
    OBVIOUS
  <2>1. window # place[j] /\ place[j] \in Request
    BY NotBoth
  <2>2. CASE window' = window
    BY <2>1, <2>2
  <2>3. CASE window' = NoRequest
    BY <2>1, <2>3, QueueAssumption
  <2>4. ASSUME NEW r \in Request, TakeTurn(r) PROVE window' # place[j]
    <3>1. window' = place[1] /\ 1 \in DOMAIN place /\ j # 1
      BY <2>4 DEF TakeTurn, MayTake, Inv, TypeOK
    <3> QED
      BY <3>1 DEF Inv, NoGhostPlace
  <2> QED
    BY <2>2, <2>3, <2>4, StepsOfTheQueue DEF QueueStep, Join, Leave
<1> QED
  BY <1>1, Invariance, PTL DEF Spec, NoOvertaking
-------------------------------------------------------------------------------
(* The per-user bound: a join counts before it adds, and every other step   *)
(* only takes requests away from the user or moves one from the line to the *)
(* window.                                                                  *)
LEMMA BoundKept == ASSUME Inv, PerUserBound, [Next]_vars PROVE PerUserBound'
<1> SUFFICES ASSUME NEW u \in User PROVE Cardinality(HeldBy(u)') <= ConsentPerUid
  BY DEF PerUserBound
<1>1. HeldBy(u) \subseteq Request /\ IsFiniteSet(HeldBy(u))
  BY FS_Subset, QueueAssumption DEF HeldBy
<1>2. Cardinality(HeldBy(u)) \in Nat /\ Cardinality(HeldBy(u)) <= ConsentPerUid
  BY <1>1, FS_CardinalityType DEF PerUserBound
<1>3. CASE HeldBy(u)' \subseteq HeldBy(u)
  <2>1. Cardinality(HeldBy(u)') <= Cardinality(HeldBy(u)) /\ IsFiniteSet(HeldBy(u)')
    BY <1>1, <1>3, FS_Subset
  <2>2. Cardinality(HeldBy(u)') \in Nat
    BY <2>1, FS_CardinalityType
  <2> QED
    BY <1>2, <2>1, <2>2, QueueAssumption
<1>4. CASE UNCHANGED <<window, place>>
  BY <1>3, <1>4 DEF HeldBy, InPlace, In
<1>5. ASSUME NEW r \in Request, Leave(r) PROVE HeldBy(u)' \subseteq HeldBy(u)
  <2>1. \A s : In(place', s) => In(place, s)
    BY <1>5, WithoutPlace DEF Leave, Inv, TypeOK, NoGhostPlace, Injective
  <2> QED
    BY <1>5, <2>1, QueueAssumption DEF Leave, HeldBy, InPlace
<1>6. ASSUME NEW r \in Request, TakeTurn(r) PROVE HeldBy(u)' \subseteq HeldBy(u)
  <2>1. place \in Seq(Request) /\ place # <<>> /\ place[1] = r /\ place' = Tail(place)
    BY <1>6 DEF TakeTurn, MayTake, Inv, TypeOK
  <2>2. ASSUME NEW s, In(place', s) PROVE In(place, s)
    <3>1. PICK i \in DOMAIN place' : place'[i] = s
      BY <2>2 DEF In
    <3>2. i + 1 \in DOMAIN place /\ place[i + 1] = s
      BY <2>1, <3>1
    <3> QED
      BY <3>2 DEF In
  <2>3. In(place, r)
    BY <2>1 DEF In
  <2> QED
    BY <1>6, <2>2, <2>3 DEF TakeTurn, HeldBy, InPlace
<1>7. ASSUME NEW r \in Request, Join(r) PROVE Cardinality(HeldBy(u)') <= ConsentPerUid
  <2>1. ASSUME NEW s PROVE In(place', s) <=> In(place, s) \/ s = r
    <3>1. /\ place \in Seq(Request) /\ Len(place') = Len(place) + 1
          /\ \A i \in 1 .. Len(place) : place'[i] = place[i]
          /\ place'[Len(place) + 1] = r
          /\ DOMAIN place' = 1 .. Len(place) + 1 /\ DOMAIN place = 1 .. Len(place)
          /\ Len(place) \in Nat
      BY <1>7 DEF Join, Inv, TypeOK
    <3> QED
      BY <3>1 DEF In
  <2>2. CASE UserOf[r] # u
    BY <1>3, <1>7, <2>1, <2>2 DEF Join, HeldBy, InPlace
  <2>3. CASE UserOf[r] = u
    <3>1. HeldBy(u)' = HeldBy(u) \cup {r}
      BY <1>7, <2>1, <2>3 DEF Join, HeldBy, InPlace
    <3>2. Cardinality(HeldBy(u)') <= Cardinality(HeldBy(u)) + 1
      <4>1. Cardinality(HeldBy(u) \cup {r}) = IF r \in HeldBy(u) THEN Cardinality(HeldBy(u))
                                                             ELSE Cardinality(HeldBy(u)) + 1
        BY <1>1, FS_AddElement
      <4> QED
        BY <1>2, <3>1, <4>1
    <3>3. Cardinality(HeldBy(u)') \in Nat
      BY <1>1, <3>1, FS_AddElement, FS_CardinalityType
    <3>4. Cardinality(HeldBy(u)) < ConsentPerUid
      BY <1>7, <2>3 DEF Join
    <3> QED
      BY <1>2, <3>2, <3>3, <3>4, QueueAssumption
  <2> QED
    BY <2>2, <2>3
<1> QED
  BY <1>3, <1>4, <1>5, <1>6, <1>7, StepsOfTheQueue DEF QueueStep

(* No user ever has more than CONSENT_PER_UID requests live or waiting.     *)
THEOREM BoundedPerUser == Spec => []PerUserBound
<1>1. Init => PerUserBound
  <2> SUFFICES ASSUME Init, NEW u \in User PROVE Cardinality(HeldBy(u)) <= ConsentPerUid
    BY DEF PerUserBound
  <2>1. HeldBy(u) = {}
    BY QueueAssumption DEF Init, HeldBy, InPlace, In
  <2> QED
    BY <2>1, FS_EmptySet, QueueAssumption
<1>2. Inv /\ PerUserBound /\ [Next]_vars => PerUserBound'
  BY BoundKept
<1> QED
  BY <1>1, <1>2, Invariance, PTL DEF Spec

(* The limits of serve.rs and state.rs hold for any number of requests.     *)
THEOREM Bounded == Spec => []WithinBounds
<1>1. SlotsCounted /\ PerUserBound => WithinBounds
  BY DEF WithinBounds
<1> QED
  BY <1>1, SlotAccounting, BoundedPerUser, PTL
-------------------------------------------------------------------------------
(* The queue implements the abstract consent window. A join enters the line *)
(* of one user (OneUser and join's comparison with two requests), a turn    *)
(* serves its head, and whoever leaves either finishes at the window or     *)
(* gives one place up, never both (NotBoth).                                *)
LEMMA JoinEnters == ASSUME Inv, NEW r \in Request, Join(r) PROVE Abstract!Enter(r)
<1>1. r \notin Abstract!Party
  BY DEF Inv, NoGhostPlace, InPlace, In, OneWindow, Join, PlacePhases, TurnPhases, Abstract!Party
<1>2. ASSUME NEW s \in Abstract!Party PROVE UserOf[s] = UserOf[r]
  <2>1. CASE s = window /\ window # NoRequest
    BY <2>1 DEF Join, OtherUserHolds
  <2>2. ASSUME NEW i \in DOMAIN place, s = place[i] PROVE UserOf[s] = UserOf[r]
    <3>1. 1 \in DOMAIN place /\ place # <<>> /\ Head(place) = place[1]
      BY <2>2 DEF Inv, TypeOK
    <3> QED
      BY <2>2, <3>1 DEF Inv, OneUser, Join, OtherUserHolds
  <2> QED
    BY <2>1, <2>2 DEF Abstract!Party
<1> QED
  BY <1>1, <1>2 DEF Abstract!Enter, Join

(* Leaving is finishing for the one asked, giving up for one who waits.   *)
LEMMA LeaveFinishesOrGivesUp ==
  ASSUME Inv, NEW r \in Request, Leave(r)
  PROVE  [Abstract!Next]_<<window, place>>
<1>1. CASE In(place, r)
  <2> DEFINE k == CHOOSE i \in DOMAIN place : place[i] = r
  <2>1. k \in DOMAIN place /\ place[k] = r
    BY <1>1 DEF In
  <2>2. window' = window
    BY <2>1, NotBoth DEF Leave
  <2>3. place' = [i \in 1 .. Len(place) - 1 |-> IF i < k THEN place[i] ELSE place[i + 1]]
    BY <1>1 DEF Leave, Without
  <2> HIDE DEF k
  <2>4. Abstract!Leave(k)
    BY <2>2, <2>3 DEF Abstract!Leave
  <2> QED
    BY <2>1, <2>4 DEF Abstract!Next
<1>2. CASE ~In(place, r) /\ window = r
  BY <1>2, QueueAssumption DEF Leave, Without, Abstract!Next, Abstract!Finish
<1>3. CASE ~In(place, r) /\ window # r
  BY <1>3 DEF Leave, Without
<1> QED
  BY <1>1, <1>2, <1>3

(* Every behaviour is one of the abstract queue.                          *)
THEOREM Implements == Spec => ImplementsWindow
<1>1. Init => Abstract!Init
  BY DEF Init, Abstract!Init
<1>2. Inv /\ [Next]_vars => [Abstract!Next]_<<window, place>>
  <2> SUFFICES ASSUME Inv, [Next]_vars PROVE [Abstract!Next]_<<window, place>>
    OBVIOUS
  <2>1. ASSUME NEW r \in Request, Join(r) PROVE Abstract!Next
    BY <2>1, JoinEnters DEF Abstract!Next
  <2>2. ASSUME NEW r \in Request, TakeTurn(r) PROVE Abstract!Next
    BY <2>2 DEF TakeTurn, MayTake, Abstract!Next, Abstract!Serve
  <2>3. ASSUME NEW r \in Request, Leave(r) PROVE [Abstract!Next]_<<window, place>>
    BY <2>3, LeaveFinishesOrGivesUp
  <2> QED
    BY <2>1, <2>2, <2>3, StepsOfTheQueue DEF QueueStep
<1> QED
  BY <1>1, <1>2, Invariance, PTL DEF Spec, ImplementsWindow, Abstract!Spec, Abstract!vars
==============================================================================
