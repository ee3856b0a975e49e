----------------------------- MODULE Door_proofs -----------------------------
(***************************************************************************)
(* The invariants of Door, for any requests, agents, callers and lengths   *)
(* of a spell: nothing run by root succeeds without its card, a rule that  *)
(* is in place has a timer or was left by a crash or a failed removal, and *)
(* a description serves one request of the agent that sent it.             *)
(***************************************************************************)
EXTENDS Door, SequenceTheorems, WellFoundedInduction, TLAPS

GrantTypes == [for : Requests, step : {"stop", "arm", "write"}, minutes : Minutes]

Phases == {"new", "asked", "looking", "waiting", "granting", "over"}
Verdicts == {"none", "success", "auth error", "ignore"}
Replies == {"match", "no match", "refused", "denied", "error", "none"}

(* What the two need of the types.                                         *)
Typed ==
  /\ phase \in [Requests -> Phases] /\ verdict \in [Requests -> Verdicts]
  /\ rule \in BOOLEAN /\ orphaned \in Orphaned /\ timer \in Nat
  /\ granting \in {None} \cup GrantTypes

(* A spell is started for a request its user approved, and its rule is     *)
(* written only under a timer that has been armed.                         *)
GrantInv ==
  /\ granting # None => granting.for \in approved
  /\ Step("write") => timer > 0

Inv == Typed /\ GrantInv /\ RootNeedsACard /\ RuleHasATimer
-----------------------------------------------------------------------------
(* Only a match is a success.                                              *)
LEMMA SuccessIsAMatch ==
  \A r \in Requests : \A reply \in Replies :
    Code(r, reply) \in Verdicts /\ (Code(r, reply) = "success" => reply = "match")
  BY DEF Code, Verdicts, Replies

(* The first states: a rule found at the start is timed.                  *)
LEMMA Starts == Init => Inv
<1> SUFFICES ASSUME Init PROVE Inv
  OBVIOUS
<1>1. Typed
  <2>1. timer \in Nat /\ rule \in BOOLEAN
    <3>1. CASE rule
      BY <3>1, DoorAssumption DEF Init
    <3>2. CASE ~rule
      BY <3>2 DEF Init
    <3> QED
      BY <3>1, <3>2 DEF Init
  <2>2. phase \in [Requests -> Phases] /\ verdict \in [Requests -> Verdicts]
    BY DEF Init, Phases, Verdicts
  <2> QED
    BY <2>1, <2>2 DEF Init, Typed, Orphaned
<1>2. GrantInv
  BY DEF Init, GrantInv, Step
<1>3. RootNeedsACard
  BY DEF Init, RootNeedsACard
<1>4. RuleHasATimer
  BY DoorAssumption DEF Init, RuleHasATimer
<1> QED
  BY <1>1, <1>2, <1>3, <1>4 DEF Inv

(* A step that answers one request keeps the verdicts right if a match is  *)
(* told only to a look or to a request that was approved.                  *)
LEMMA AnswerKeepsCards ==
  ASSUME Inv, NEW r \in Requests, NEW reply \in Replies, Reply(r, reply),
         approved \subseteq approved', reply = "match" /\ ByRoot(r) => r \in approved'
  PROVE  RootNeedsACard' /\ phase' \in [Requests -> Phases] /\ verdict' \in [Requests -> Verdicts]
<1>1. phase' \in [Requests -> Phases] /\ verdict' \in [Requests -> Verdicts]
  BY SuccessIsAMatch DEF Inv, Typed, Reply, Goto, Phases
<1>2. ASSUME NEW q \in Requests, verdict'[q] = "success", ByRoot(q) PROVE q \in approved'
  <2>1. CASE q = r /\ r \notin gone
    <3>1. verdict'[q] = Code(r, reply)
      BY <2>1 DEF Inv, Typed, Reply
    <3> QED
      BY <2>1, <3>1, <1>2, SuccessIsAMatch
  <2>2. CASE q # r \/ r \in gone
    <3>1. verdict'[q] = verdict[q]
      BY <2>2 DEF Inv, Typed, Reply
    <3> QED
      BY <3>1, <1>2 DEF Inv, RootNeedsACard
  <2> QED
    BY <2>1, <2>2
<1> QED
  BY <1>1, <1>2 DEF RootNeedsACard, ByRoot

(* While no spell is being started nothing of it changes.                  *)
LEMMA SpellKept ==
  ASSUME Inv, UNCHANGED spell, approved \subseteq approved'
  PROVE  GrantInv' /\ RuleHasATimer' /\ (granting \in {None} \cup GrantTypes)'
         /\ rule' \in BOOLEAN /\ orphaned' \in Orphaned /\ timer' \in Nat
  BY DEF Inv, Typed, GrantInv, RuleHasATimer, Step, spell, GrantTypes

(* An answer that leaves the spell alone.                                  *)
LEMMA AnswerInv ==
  ASSUME Inv, NEW r \in Requests, NEW reply \in Replies, Reply(r, reply), UNCHANGED spell,
         approved \subseteq approved', reply = "match" /\ ByRoot(r) => r \in approved'
  PROVE  Inv'
  BY AnswerKeepsCards, SpellKept DEF Inv, Typed

(* A step that only moves one request on.                                  *)
LEMMA MoveInv ==
  ASSUME Inv, UNCHANGED <<verdict, approved, spell>>,
         phase' = phase \/ \E r \in Requests, p \in Phases : Goto(r, p)
  PROVE  Inv'
<1>1. phase' \in [Requests -> Phases]
  BY DEF Inv, Typed, Goto, Phases
<1>2. RootNeedsACard'
  BY DEF Inv, RootNeedsACard
<1> QED
  BY <1>1, <1>2, SpellKept DEF Inv, Typed
-----------------------------------------------------------------------------
(* The steps of a request.                                                 *)
LEMMA RequestInv ==
  ASSUME Inv, NEW r \in Requests,
         Start(r) \/ GiveUp(r) \/ HangUp(r) \/ SendContext(r) \/ Handle(r)
  PROVE  Inv'
<1>1. CASE Start(r)
  <2>1. CASE Goto(r, "asked") /\ UNCHANGED verdict
    BY <1>1, <2>1, MoveInv DEF Start, Phases
  <2>2. CASE Reply(r, "none")
    BY <1>1, <2>2, AnswerInv DEF Start, Replies
  <2> QED
    BY <1>1, <2>1, <2>2 DEF Start
<1>2. CASE GiveUp(r)
  BY <1>2, AnswerInv DEF GiveUp, Replies
<1>3. CASE SendContext(r)
  BY <1>3, MoveInv DEF SendContext, Phases
<1>10. CASE HangUp(r)
  BY <1>10, MoveInv DEF HangUp, Phases
<1>4. CASE TurnAway(r)
  BY <1>4, AnswerInv DEF TurnAway, Replies
<1>5. CASE Look(r)
  BY <1>5, AnswerInv DEF Look, AdmitPlainLook, Replies
<1>6. CASE LidClosed(r) \/ NoWindow(r)
  BY <1>6, AnswerInv DEF LidClosed, NoWindow, Replies
<1>7. CASE Join(r) \/ TakeContext(r) \/ NoContext(r) \/ OwnCaller(r)
  BY <1>7, MoveInv DEF Phases, Join, TakeContext, NoContext, OwnCaller
<1>8. CASE RefusedRecently(r) \/ RequesterRemote(r) \/ Denied(r)
  <2>1. Refused(r) \in {"refused", "denied"}
    BY DEF Refused
  <2> QED
    BY <1>8, <2>1, AnswerInv DEF RefusedRecently, Replies, RequesterRemote, Denied
<1>9. CASE Approve(r)
  <2>1. CASE Reply(r, "match") /\ UNCHANGED granting
    BY <1>9, <2>1, AnswerInv DEF Approve, Replies, spell
  <2>2. ASSUME Goto(r, "granting"), UNCHANGED verdict,
               NEW m \in Minutes, granting' = [for |-> r, step |-> "stop", minutes |-> m]
        PROVE  Inv'
    <3>1. granting' \in GrantTypes /\ granting'.for \in approved' /\ granting'.step = "stop"
      BY <1>9, <2>2 DEF Approve, GrantTypes
    <3>2. ~Step("arm") /\ UNCHANGED <<rule, timer, orphaned>>
      BY <1>9 DEF Approve, Step
    <3>3. Typed'
      BY <2>2, <3>1, <3>2 DEF Inv, Typed, Goto, Phases
    <3>4. RootNeedsACard'
      BY <1>9, <2>2 DEF Inv, Approve, RootNeedsACard
    <3> QED
      BY <3>1, <3>2, <3>3, <3>4 DEF Inv, GrantInv, RuleHasATimer, Step
  <2> QED
    BY <1>9, <2>1, <2>2 DEF Approve
<1> QED
  BY <1>1, <1>2, <1>3, <1>4, <1>5, <1>6, <1>7, <1>8, <1>9, <1>10 DEF Handle
-----------------------------------------------------------------------------
(* The steps of a spell.                                                   *)
LEMMA GrantedAnswer ==
  ASSUME Inv, granting # None, Granted, UNCHANGED approved
  PROVE  /\ RootNeedsACard' /\ phase' \in [Requests -> Phases] /\ verdict' \in [Requests -> Verdicts]
         /\ granting' = None
<1>1. granting.for \in Requests /\ granting.for \in approved
  BY DEF Inv, Typed, GrantInv, GrantTypes
<1> QED
  BY <1>1, AnswerKeepsCards DEF Granted, Replies

(* Each step of a spell's start, and each of its failures.                *)
LEMMA GrantingInv ==
  ASSUME Inv, Granting
  PROVE  Inv'
<1>1. granting # None /\ granting \in GrantTypes
  BY DEF Inv, Typed, Granting, NameRefused, StopTimer, ArmTimer, ArmFails, WriteRule, WriteFails, Step
<1>2. ASSUME NEW s \in {"arm", "write"}, granting' = [granting EXCEPT !.step = s]
      PROVE  /\ granting' \in GrantTypes /\ granting'.step = s /\ granting'.for = granting.for
  BY <1>1, <1>2 DEF GrantTypes
<1>3. CASE StopTimer
  <2>1. granting' \in GrantTypes /\ granting'.step = "arm" /\ granting'.for = granting.for
    BY <1>2, <1>3 DEF StopTimer
  <2>2. granting' # None
    BY <2>1, DoorAssumption DEF GrantTypes
  <2>3. timer' \in Nat /\ UNCHANGED <<phase, verdict, approved, rule, orphaned>>
    BY <1>3 DEF Inv, Typed, StopTimer, Outside
  <2> QED
    BY <1>1, <2>1, <2>2, <2>3
    DEF Inv, Typed, GrantInv, RootNeedsACard, RuleHasATimer, Step
<1>4. CASE ArmTimer
  <2>1. granting.minutes \in Nat /\ granting.minutes > 0
    BY <1>1, DoorAssumption DEF GrantTypes
  <2>2. Typed' /\ timer' > 0 /\ granting'.for = granting.for
    BY <1>1, <1>2, <1>4, <2>1 DEF Inv, Typed, ArmTimer, Outside, Orphaned
  <2> QED
    BY <1>1, <1>4, <2>2 DEF Inv, ArmTimer, Outside, GrantInv, RootNeedsACard, RuleHasATimer
<1>5. CASE ArmFails
  <2>1. /\ rule' \in BOOLEAN /\ orphaned' \in Orphaned
        /\ rule' /\ timer' = 0 => orphaned' # "no"
    BY <1>5 DEF ArmFails, Disarm, Inv, Typed, Orphaned
  <2> QED
    BY <1>1, <1>5, <2>1, GrantedAnswer
    DEF Inv, Typed, ArmFails, Outside, GrantInv, RuleHasATimer, Step
<1>6. CASE WriteRule \/ WriteFails
  <2>1. timer > 0 /\ UNCHANGED <<timer, orphaned, approved>> /\ rule' \in BOOLEAN
    BY <1>6 DEF WriteRule, WriteFails, Inv, Typed, GrantInv, Outside
  <2> QED
    BY <1>1, <1>6, <2>1, GrantedAnswer
    DEF Inv, Typed, WriteRule, WriteFails, GrantInv, RuleHasATimer, Step
<1>7. CASE NameRefused
  <2>1. UNCHANGED <<rule, timer, orphaned, approved>> /\ ~Step("arm")
    BY <1>7 DEF NameRefused, Outside, Step
  <2> QED
    BY <1>1, <1>7, <2>1, GrantedAnswer
    DEF Inv, Typed, NameRefused, GrantInv, RuleHasATimer, Step
<1> QED
  BY <1>3, <1>4, <1>5, <1>6, <1>7 DEF Granting

(* The clock removes a rule in the minute its timer ends, and never while  *)
(* the rule is being written.                                              *)
LEMMA TickInv ==
  ASSUME Inv, Tick
  PROVE  Inv'
<1>1. timer' \in Nat /\ rule' \in BOOLEAN /\ (rule' => rule) /\ (rule' /\ timer' = 0 => timer = 0)
  <2>1. timer \in Nat /\ rule \in BOOLEAN
    BY DEF Inv, Typed
  <2>2. timer' = IF timer > 0 THEN timer - 1 ELSE 0
    BY DEF Tick
  <2>3. timer' \in Nat /\ (timer' = 0 => timer = 0 \/ timer = 1)
    BY <2>1, <2>2
  <2>4. rule' \in BOOLEAN /\ (rule' => rule) /\ (timer = 1 => ~rule')
    BY <2>1 DEF Tick
  <2> QED
    BY <2>3, <2>4
<1>2. UNCHANGED <<phase, verdict, approved, granting, orphaned>> /\ ~Step("write")
  BY DEF Tick
<1> QED
  BY <1>1, <1>2 DEF Inv, Typed, GrantInv, RootNeedsACard, RuleHasATimer, Step

(* A crash ends every request and leaves rule and timer as they are.      *)
LEMMA CrashInv ==
  ASSUME Inv, Crash
  PROVE  Inv'
<1>1. phase' \in [Requests -> Phases] /\ verdict' \in [Requests -> Verdicts]
  BY DEF Crash, Inv, Typed, Phases, Verdicts
<1>2. RootNeedsACard'
  BY DEF Crash, Inv, RootNeedsACard
<1>3. RuleHasATimer' /\ orphaned' \in Orphaned
  <2>1. /\ UNCHANGED <<rule, timer>>
        /\ orphaned' = IF rule /\ timer = 0 /\ Step("arm") THEN "crash" ELSE orphaned
    BY DEF Crash
  <2>2. orphaned' \in Orphaned
    BY <2>1 DEF Inv, Typed, Orphaned
  <2>3. rule /\ timer = 0 => orphaned' # "no"
    BY <2>1 DEF Inv, RuleHasATimer
  <2> QED
    BY <2>1, <2>2, <2>3 DEF RuleHasATimer
<1> QED
  BY <1>1, <1>2, <1>3 DEF Crash, Inv, Typed, GrantInv, Step
-----------------------------------------------------------------------------
(* Every step.                                                            *)
LEMMA StepInv == Inv /\ [Next]_vars => Inv'
<1> SUFFICES ASSUME Inv, [Next]_vars PROVE Inv'
  OBVIOUS
<1>1. CASE \E r \in Requests : Start(r) \/ GiveUp(r) \/ HangUp(r) \/ SendContext(r) \/ Handle(r)
  BY <1>1, RequestInv
<1>2. CASE Granting \/ Tick \/ Crash
  BY <1>2, GrantingInv, TickInv, CrashInv
<1>3. CASE UNCHANGED vars
  BY <1>3, MoveInv DEF vars
<1> QED
  BY <1>1, <1>2, <1>3 DEF Next

(* So they hold throughout.                                               *)
LEMMA Invariance == Spec => []Inv
  BY Starts, StepInv, PTL DEF Spec

(* However a PAM line is spelt and whatever ends a request, root is let in *)
(* only by an approval at its own card (pam_faceauth/src/lib.rs, admit.rs, *)
(* handle.rs).                                                             *)
THEOREM RootIsAskedAtACard == Spec => []RootNeedsACard
<1>1. Inv => RootNeedsACard
  BY DEF Inv
<1> QED
  BY <1>1, Invariance, PTL

(* enable_passwordless arms the timer before it writes the rule, so no     *)
(* order of extensions, refused names, stops that fail, timers that do not *)
(* start and crashes leaves a rule that nothing will remove, but for two   *)
(* ways: a crash while its timer is being replaced, and a removal that     *)
(* fails, and until the next timer starts.                                 *)
THEOREM RuleIsTimed == Spec => []RuleHasATimer
<1>1. Inv => RuleHasATimer
  BY DEF Inv
<1> QED
  BY <1>1, Invariance, PTL
-----------------------------------------------------------------------------
(* Descriptions.                                                           *)
Ctx == [of : Requests, agent : Agents, age : Nat]
Ends == {"new", "over"}

ContextTypes ==
  /\ sent \subseteq Requests /\ contexts \in Seq(Ctx)
  /\ described \in [Requests -> Requests \cup {None}]

(* What has been sent is of a polkit request that has started, and an agent *)
(* waits for one helper at a time.                                          *)
AgentInv ==
  /\ \A r \in sent : Kind[r] = "polkit" /\ phase[r] # "new"
  /\ \A p, q \in Requests :
       p # q /\ Kind[p] = "polkit" /\ Kind[q] = "polkit" /\ AgentOf[p] = AgentOf[q] =>
         phase[p] \in Ends \/ phase[q] \in Ends \/ {p, q} \cap gone # {}

(* A description kept was sent once, by its agent, and nobody has it yet.    *)
KeptInv ==
  /\ \A i \in DOMAIN contexts :
       /\ contexts[i].of \in sent /\ contexts[i].agent = AgentOf[contexts[i].of]
       /\ \A q \in Requests : described[q] # contexts[i].of
  /\ \A i, j \in DOMAIN contexts : contexts[i].of = contexts[j].of => i = j

(* One that was taken had been sent, or is its taker's own.                 *)
TakenInv ==
  \A r \in Requests : described[r] # None =>
    \/ described[r] = r /\ Kind[r] = "sudo"
    \/ described[r] \in sent

CtxInv == ContextTypes /\ AgentInv /\ KeptInv /\ TakenInv /\ OneContextOneRequest

-----------------------------------------------------------------------------
(* A search in a queue finds an entry that passes, if any does.            *)
LEMMA LeastIndex ==
  ASSUME NEW I, I \subseteq Nat, I # {}
  PROVE  Min(I) \in I
<1>1. \E x \in I : \A y \in I : ~(<<y, x>> \in OpToRel(<, Nat))
  BY NatLessThanWellFounded, WFMin, Zenon
<1>2. PICK x \in I : \A y \in I : ~(<<y, x>> \in OpToRel(<, Nat))
  BY <1>1
<1>3. ASSUME NEW y \in I PROVE x <= y
  <2>1. ~(<<y, x>> \in OpToRel(<, Nat))
    BY <1>2
  <2>2. x \in Nat /\ y \in Nat
    OBVIOUS
  <2> QED
    BY <2>1, <2>2 DEF OpToRel
<1>4. \E z \in I : \A y \in I : z <= y
  BY <1>3
<1> QED
  BY <1>4 DEF Min

(* The description found is of the request's own agent.                   *)
LEMMA MineIsTheAgents ==
  ASSUME NEW r \in Requests, contexts \in Seq(Ctx), Mine(r) > 0
  PROVE  Mine(r) \in 1 .. Len(contexts) /\ contexts[Mine(r)].agent = AgentOf[r]
<1> DEFINE I == {i \in 1 .. Len(contexts) : contexts[i].agent = AgentOf[r]}
<1>1. Mine(r) = IF I # {} THEN Min(I) ELSE 0
  BY DEF Mine, SelectInSeq
<1>2. I # {} /\ I \subseteq Nat
  BY <1>1
<1>3. Min(I) \in I
  <2> HIDE DEF I
  <2> QED
    BY <1>2, LeastIndex
<1> QED
  BY <1>1, <1>2, <1>3

(* A queue with one entry taken out.                                       *)
LEMMA OneTakenOut ==
  ASSUME NEW S, NEW s \in Seq(S), NEW m \in 1 .. Len(s)
  PROVE  /\ RemoveAt(s, m) \in Seq(S) /\ Len(RemoveAt(s, m)) = Len(s) - 1
         /\ \A i \in 1 .. Len(s) - 1 : RemoveAt(s, m)[i] = s[IF i < m THEN i ELSE i + 1]
<1> DEFINE n == Len(s)
           front == SubSeq(s, 1, m - 1)
           back == SubSeq(s, m + 1, n)
           left == front \o back
<1>1. n \in Nat /\ m \in 1 .. n /\ \A i \in 1 .. n : s[i] \in S
  OBVIOUS
<1>2. RemoveAt(s, m) = left
  BY DEF RemoveAt
<1>3. /\ front \in Seq(S) /\ Len(front) = m - 1
      /\ \A i \in 1 .. m - 1 : front[i] = s[i]
  <2>1. 1 \in Int /\ m - 1 \in Int /\ \A i \in 1 .. m - 1 : s[i] \in S
    BY <1>1
  <2>2. /\ front \in Seq(S) /\ Len(front) = IF 1 <= m - 1 THEN (m - 1) - 1 + 1 ELSE 0
        /\ \A i \in 1 .. (m - 1) - 1 + 1 : front[i] = s[1 + i - 1]
    BY <2>1, SubSeqProperties
  <2> HIDE DEF front
  <2>3. \A i \in 1 .. m - 1 : 1 + i - 1 = i /\ i \in 1 .. (m - 1) - 1 + 1
    BY <1>1
  <2> QED
    BY <1>1, <2>2, <2>3
<1>4. /\ back \in Seq(S) /\ Len(back) = n - m
      /\ \A i \in 1 .. n - m : back[i] = s[m + i]
  <2>1. m + 1 \in Int /\ n \in Int /\ \A i \in m + 1 .. n : s[i] \in S
    BY <1>1
  <2>2. /\ back \in Seq(S) /\ Len(back) = IF m + 1 <= n THEN n - (m + 1) + 1 ELSE 0
        /\ \A i \in 1 .. n - (m + 1) + 1 : back[i] = s[(m + 1) + i - 1]
    BY <2>1, SubSeqProperties
  <2> HIDE DEF back, n
  <2>3. \A i \in 1 .. n - m : (m + 1) + i - 1 = m + i /\ i \in 1 .. n - (m + 1) + 1
    BY <1>1
  <2> QED
    BY <1>1, <2>2, <2>3
<1> HIDE DEF n, front, back
<1>5. /\ left \in Seq(S) /\ Len(left) = Len(front) + Len(back)
      /\ \A i \in 1 .. Len(front) + Len(back) :
           left[i] = IF i <= Len(front) THEN front[i] ELSE back[i - Len(front)]
  BY <1>3, <1>4, ConcatProperties
<1> HIDE DEF left
<1>6. /\ Len(left) = n - 1
      /\ \A i \in 1 .. n - 1 : left[i] = IF i <= m - 1 THEN front[i] ELSE back[i - (m - 1)]
  BY <1>1, <1>3, <1>4, <1>5
<1>7. ASSUME NEW i \in 1 .. n - 1 PROVE left[i] = s[IF i < m THEN i ELSE i + 1]
  <2>1. CASE i < m
    BY <1>1, <1>3, <1>6, <2>1
  <2>2. CASE ~(i < m)
    <3>1. i - (m - 1) \in 1 .. n - m /\ m + (i - (m - 1)) = i + 1 /\ ~(i <= m - 1)
      BY <1>1, <2>2
    <3>2. left[i] = back[i - (m - 1)]
      BY <1>6, <3>1
    <3> QED
      BY <1>4, <2>2, <3>1, <3>2
  <2> QED
    BY <2>1, <2>2
<1> QED
  BY <1>2, <1>5, <1>6, <1>7 DEF n

(* What is left of the queue is some of what was in it, each entry once: the *)
(* same entries, if older, in other places.                                 *)
LEMMA FewerKept ==
  ASSUME CtxInv, UNCHANGED <<sent, described>>, contexts' \in Seq(Ctx),
         NEW place \in [DOMAIN contexts' -> DOMAIN contexts],
         \A i \in DOMAIN contexts' :
           /\ contexts'[i].of = contexts[place[i]].of
           /\ contexts'[i].agent = contexts[place[i]].agent,
         \A i, j \in DOMAIN contexts' : place[i] = place[j] => i = j
  PROVE  KeptInv'
<1>1. \A i \in DOMAIN contexts' : place[i] \in DOMAIN contexts
  OBVIOUS
<1>2. ASSUME NEW i \in DOMAIN contexts'
      PROVE  /\ contexts'[i].of \in sent /\ contexts'[i].agent = AgentOf[contexts'[i].of]
             /\ \A q \in Requests : described[q] # contexts'[i].of
  BY <1>1 DEF CtxInv, KeptInv
<1>3. ASSUME NEW i \in DOMAIN contexts', NEW j \in DOMAIN contexts',
             contexts'[i].of = contexts'[j].of
      PROVE  i = j
  BY <1>1, <1>3 DEF CtxInv, KeptInv
<1> QED
  BY <1>2, <1>3 DEF KeptInv

(* A step that leaves the descriptions alone and brings no request to life.  *)
LEMMA QuietStep ==
  ASSUME CtxInv, UNCHANGED <<sent, contexts, described>>, gone \subseteq gone',
         \A r \in Requests : \/ phase'[r] = phase[r] \/ phase'[r] = "over"
                             \/ phase[r] \notin Ends /\ phase'[r] # "new"
  PROVE  CtxInv'
<1>1. ContextTypes' /\ KeptInv' /\ TakenInv'
  BY DEF CtxInv, ContextTypes, KeptInv, TakenInv
<1>2. AgentInv'
  BY DEF CtxInv, ContextTypes, AgentInv, Ends
<1>3. OneContextOneRequest'
  <2> SUFFICES ASSUME NEW r \in Requests, described[r] # None, described[r] # r
               PROVE  /\ AgentOf[described[r]] = AgentOf[r] /\ Kind[described[r]] = "polkit"
                      /\ phase'[described[r]] = "over" \/ {described[r], r} \cap gone' # {}
                      /\ \A q \in Requests \ {r} : described[q] # described[r]
    BY DEF OneContextOneRequest
  <2>1. described[r] \in Requests
    BY DEF CtxInv, ContextTypes
  <2> QED
    BY <2>1 DEF CtxInv, OneContextOneRequest, Ends
<1> QED
  BY <1>1, <1>2, <1>3 DEF CtxInv

(* One that ends a request or moves a living one on.                       *)
LEMMA QuietGoto ==
  ASSUME CtxInv, Typed, UNCHANGED <<gone, sent, contexts, described>>,
         NEW r \in Requests, NEW p \in Phases, Goto(r, p),
         p = "over" \/ (p # "new" /\ phase[r] \notin Ends)
  PROVE  CtxInv'
<1>1. \A q \in Requests : phase'[q] = IF q = r THEN p ELSE phase[q]
  BY DEF Goto, Typed
<1> QED
  BY <1>1, QuietStep

(* An answer.                                                             *)
LEMMA QuietReply ==
  ASSUME CtxInv, Typed, UNCHANGED <<sent, contexts, described>>,
         NEW r \in Requests, NEW reply, Reply(r, reply)
  PROVE  CtxInv'
  BY QuietGoto DEF Reply, Phases
-----------------------------------------------------------------------------
(* The steps that touch the descriptions, or start a request.              *)
LEMMA StartAlone ==
  ASSUME CtxInv, Typed, NEW r \in Requests, Start(r)
  PROVE  CtxInv'
<1>1. CASE Reply(r, "none")
  BY <1>1, QuietReply DEF Start
<1>2. CASE Goto(r, "asked")
  <2>1. \A q \in Requests : phase'[q] = IF q = r THEN "asked" ELSE phase[q]
    BY <1>2 DEF Goto, Typed
  <2>2. phase[r] = "new" /\ UNCHANGED <<gone, sent, contexts, described>>
    BY DEF Start, Reply
  <2>3. ContextTypes' /\ KeptInv' /\ TakenInv'
    BY <2>2 DEF CtxInv, ContextTypes, KeptInv, TakenInv
  <2>4. \A q \in Requests : Kind[r] = "polkit" /\ Kind[q] = "polkit" /\ AgentOf[q] = AgentOf[r] =>
          phase[q] \in Ends \/ q \in gone
    BY DEF Start, AgentFree, Ends
  <2>5. AgentInv'
    BY <2>1, <2>2, <2>4 DEF CtxInv, ContextTypes, AgentInv, Ends
  <2>6. OneContextOneRequest'
    <3>1. \A q \in Requests : phase[q] = "over" => phase'[q] = "over"
      BY <2>1, <2>2
    <3> QED
      BY <2>2, <3>1 DEF CtxInv, ContextTypes, OneContextOneRequest
  <2> QED
    BY <2>3, <2>5, <2>6 DEF CtxInv
<1> QED
  BY <1>1, <1>2 DEF Start

(* A description joins the queue once, and may push the oldest out.       *)
LEMMA SendKeeps ==
  ASSUME CtxInv, Typed, NEW r \in Requests, SendContext(r)
  PROVE  CtxInv'
<1> DEFINE c == [of |-> r, agent |-> AgentOf[r], age |-> 0]
           q == Append(contexts, c)
<1>1. /\ Kind[r] = "polkit" /\ phase[r] # "new" /\ r \notin sent /\ sent' = sent \cup {r}
      /\ UNCHANGED <<phase, gone, described>>
      /\ contexts' = IF Len(q) > MaxContexts THEN Tail(q) ELSE q
  BY DEF SendContext
<1>2. c \in Ctx /\ c.of = r /\ c.agent = AgentOf[r] /\ contexts \in Seq(Ctx)
  BY DoorAssumption DEF Ctx, CtxInv, ContextTypes
<1> HIDE DEF c
<1>3. q \in Seq(Ctx) /\ q # <<>> /\ Len(q) = Len(contexts) + 1
      /\ \A i \in 1 .. Len(q) : q[i] = IF i = Len(contexts) + 1 THEN c ELSE contexts[i]
  BY <1>2
<1> HIDE DEF q
<1>4. contexts' \in Seq(Ctx)
  BY <1>1, <1>3
<1>5. ASSUME NEW x \in Requests PROVE described[x] # r
  <2>1. Kind[r] # "sudo"
    BY <1>1
  <2>2. r # None
    BY DoorAssumption
  <2> QED
    BY <1>1, <2>1, <2>2 DEF CtxInv, TakenInv
<1>6. ASSUME NEW i \in 1 .. Len(q)
      PROVE  /\ q[i].of \in sent' /\ q[i].agent = AgentOf[q[i].of]
             /\ \A x \in Requests : described[x] # q[i].of
  <2>1. CASE i = Len(contexts) + 1
    BY <1>1, <1>2, <1>3, <1>5, <2>1
  <2>2. CASE i # Len(contexts) + 1
    <3>1. q[i] = contexts[i] /\ i \in DOMAIN contexts
      BY <1>2, <1>3, <2>2
    <3> QED
      BY <1>1, <3>1 DEF CtxInv, KeptInv
  <2> QED
    BY <2>1, <2>2
<1>7. ASSUME NEW i \in 1 .. Len(q), NEW j \in 1 .. Len(q), q[i].of = q[j].of
      PROVE  i = j
  <2>1. \A k \in DOMAIN contexts : contexts[k].of # r
    BY <1>1 DEF CtxInv, KeptInv
  <2>2. DOMAIN contexts = 1 .. Len(contexts) /\ Len(contexts) \in Nat
    BY <1>2
  <2> QED
    BY <1>2, <1>3, <1>7, <2>1, <2>2 DEF CtxInv, KeptInv
<1>8. KeptInv'
  <2>1. CASE contexts' = q
    <3>1. DOMAIN q = 1 .. Len(q)
      BY <1>3
    <3>2. \A i \in DOMAIN contexts' : i \in 1 .. Len(q) /\ contexts'[i] = q[i]
      BY <2>1, <3>1
    <3>3. \A i, j \in DOMAIN contexts' : contexts'[i].of = contexts'[j].of => i = j
      BY <1>7, <3>2
    <3>4. \A i \in DOMAIN contexts' :
             /\ contexts'[i].of \in sent' /\ contexts'[i].agent = AgentOf[contexts'[i].of]
             /\ \A x \in Requests : described[x] # contexts'[i].of
      BY <1>6, <3>2
    <3> QED
      BY <1>1, <3>3, <3>4 DEF KeptInv
  <2>2. CASE contexts' = Tail(q)
    <3>1. DOMAIN Tail(q) = 1 .. Len(q) - 1 /\ Len(q) \in Nat
          /\ \A i \in 1 .. Len(q) - 1 : Tail(q)[i] = q[i + 1]
      BY <1>3
    <3>2. \A i \in DOMAIN contexts' : i + 1 \in 1 .. Len(q) /\ contexts'[i] = q[i + 1]
      BY <2>2, <3>1
    <3>3. \A i, j \in DOMAIN contexts' : i + 1 = j + 1 => i = j
      BY <2>2, <3>1
    <3> QED
      BY <1>1, <1>6, <1>7, <3>2, <3>3 DEF KeptInv
  <2> QED
    BY <1>1, <2>1, <2>2
<1>9. ContextTypes' /\ AgentInv' /\ TakenInv' /\ OneContextOneRequest'
  BY <1>1, <1>4 DEF CtxInv, ContextTypes, AgentInv, TakenInv, OneContextOneRequest
<1> QED
  BY <1>8, <1>9 DEF CtxInv

(* A description leaves the queue for one request of the same agent.       *)
LEMMA TakeKeeps ==
  ASSUME CtxInv, Typed, NEW r \in Requests, TakeContext(r)
  PROVE  CtxInv'
<1> DEFINE m == Mine(r)
           d == contexts[m].of
<1>1. /\ phase[r] = "looking" /\ Kind[r] = "polkit" /\ m > 0 /\ UNCHANGED <<gone, sent>>
      /\ described' = [described EXCEPT ![r] = d] /\ contexts' = RemoveAt(contexts, m)
      /\ Goto(r, "waiting")
  BY DEF TakeContext
<1>2. contexts \in Seq(Ctx) /\ described \in [Requests -> Requests \cup {None}]
  BY DEF CtxInv, ContextTypes
<1>3. m \in 1 .. Len(contexts) /\ contexts[m].agent = AgentOf[r]
  BY <1>1, <1>2, MineIsTheAgents
<1> HIDE DEF m
<1>4. m \in DOMAIN contexts /\ d \in Requests
  <2>1. m \in DOMAIN contexts /\ contexts[m] \in Ctx
    BY <1>2, <1>3
  <2> QED
    BY <2>1 DEF Ctx
<1>5. /\ d \in sent /\ AgentOf[d] = AgentOf[r] /\ \A q \in Requests : described[q] # d
      /\ Kind[d] = "polkit" /\ phase[d] # "new"
      /\ \A i \in DOMAIN contexts : i # m => contexts[i].of # d
  BY <1>3, <1>4 DEF CtxInv, KeptInv, AgentInv
<1> HIDE DEF d
<1>6. /\ \A q \in Requests : phase'[q] = IF q = r THEN "waiting" ELSE phase[q]
      /\ \A q \in Requests : described'[q] = IF q = r THEN d ELSE described[q]
  BY <1>1, <1>2 DEF Goto, Typed
<1>7. d # r => phase[d] = "over" \/ {d, r} \cap gone # {}
  BY <1>1, <1>4, <1>5 DEF CtxInv, AgentInv, Ends
<1>8. ContextTypes'
  <2>1. contexts' \in Seq(Ctx)
    BY <1>1, <1>2, <1>3, OneTakenOut
  <2> QED
    BY <1>1, <1>2, <1>4, <2>1 DEF CtxInv, ContextTypes
<1>9. AgentInv'
  BY <1>1, <1>6 DEF CtxInv, ContextTypes, AgentInv, Ends
<1>10. KeptInv'
  <2>1. /\ Len(contexts) \in Nat /\ DOMAIN contexts = 1 .. Len(contexts)
        /\ Len(contexts') = Len(contexts) - 1 /\ DOMAIN contexts' = 1 .. Len(contexts) - 1
        /\ \A i \in DOMAIN contexts' : contexts'[i] = contexts[IF i < m THEN i ELSE i + 1]
    <3>1. /\ contexts' \in Seq(Ctx) /\ Len(contexts') = Len(contexts) - 1
          /\ \A i \in 1 .. Len(contexts) - 1 : contexts'[i] = contexts[IF i < m THEN i ELSE i + 1]
      BY <1>1, <1>2, <1>3, OneTakenOut
    <3>2. Len(contexts) \in Nat /\ DOMAIN contexts = 1 .. Len(contexts)
      BY <1>2
    <3>3. DOMAIN contexts' = 1 .. Len(contexts) - 1
      BY <3>1, <3>2
    <3> QED
      BY <3>1, <3>2, <3>3
  <2> DEFINE at(i) == IF i < m THEN i ELSE i + 1
  <2>2. \A i \in DOMAIN contexts' : at(i) \in DOMAIN contexts /\ at(i) # m /\ contexts'[i] = contexts[at(i)]
    BY <1>3, <2>1
  <2>3. \A i, j \in DOMAIN contexts' : at(i) = at(j) => i = j
    BY <1>3, <2>1
  <2> HIDE DEF at
  <2>4. ASSUME NEW i \in DOMAIN contexts'
        PROVE  /\ contexts'[i].of \in sent' /\ contexts'[i].agent = AgentOf[contexts'[i].of]
               /\ \A q \in Requests : described'[q] # contexts'[i].of
    BY <1>1, <1>5, <1>6, <2>2 DEF CtxInv, KeptInv
  <2>5. ASSUME NEW i \in DOMAIN contexts', NEW j \in DOMAIN contexts',
               contexts'[i].of = contexts'[j].of
        PROVE  i = j
    BY <2>2, <2>3, <2>5 DEF CtxInv, KeptInv
  <2> QED
    BY <2>4, <2>5 DEF KeptInv
<1>11. TakenInv'
  BY <1>1, <1>5, <1>6 DEF CtxInv, TakenInv
<1>12. OneContextOneRequest'
  <2> SUFFICES ASSUME NEW x \in Requests, described'[x] # None, described'[x] # x
               PROVE  /\ AgentOf[described'[x]] = AgentOf[x] /\ Kind[described'[x]] = "polkit"
                      /\ phase'[described'[x]] = "over" \/ {described'[x], x} \cap gone # {}
                      /\ \A q \in Requests \ {x} : described'[q] # described'[x]
    BY <1>1 DEF OneContextOneRequest
  <2>1. CASE x = r
    BY <1>4, <1>5, <1>6, <1>7, <2>1
  <2>2. CASE x # r
    <3>1. /\ described'[x] = described[x] /\ described[x] \in Requests
          /\ AgentOf[described[x]] = AgentOf[x] /\ Kind[described[x]] = "polkit"
          /\ phase[described[x]] = "over" \/ {described[x], x} \cap gone # {}
          /\ \A q \in Requests \ {x} : described[q] # described[x]
      BY <1>2, <1>6, <2>2 DEF CtxInv, OneContextOneRequest
    <3>2. described[x] # d
      BY <1>5, <3>1
    <3>3. phase[described[x]] = "over" => described[x] # r
      BY <1>1
    <3> QED
      BY <1>6, <3>1, <3>2, <3>3
  <2> QED
    BY <2>1, <2>2
<1> QED
  BY <1>8, <1>9, <1>10, <1>11, <1>12 DEF CtxInv

(* A program that is not polkit's describes itself.                       *)
LEMMA OwnKeeps ==
  ASSUME CtxInv, Typed, NEW r \in Requests, OwnCaller(r)
  PROVE  CtxInv'
<1>1. /\ phase[r] = "looking" /\ Kind[r] = "sudo" /\ UNCHANGED <<gone, sent, contexts>>
      /\ described' = [described EXCEPT ![r] = r] /\ Goto(r, "waiting")
  BY DEF OwnCaller
<1>2. contexts \in Seq(Ctx) /\ described \in [Requests -> Requests \cup {None}]
  BY DEF CtxInv, ContextTypes
<1>3. /\ \A q \in Requests : phase'[q] = IF q = r THEN "waiting" ELSE phase[q]
      /\ \A q \in Requests : described'[q] = IF q = r THEN r ELSE described[q]
  BY <1>1, <1>2 DEF Goto, Typed
<1>4. ContextTypes'
  BY <1>1, <1>2 DEF CtxInv, ContextTypes
<1>5. AgentInv'
  BY <1>1, <1>3 DEF CtxInv, ContextTypes, AgentInv, Ends
<1>6. r \notin sent
  BY <1>1 DEF CtxInv, AgentInv
<1>7. KeptInv'
  BY <1>1, <1>3, <1>6 DEF CtxInv, KeptInv
<1>8. TakenInv'
  BY <1>1, <1>3 DEF CtxInv, TakenInv
<1>9. OneContextOneRequest'
  <2> SUFFICES ASSUME NEW x \in Requests, described'[x] # None, described'[x] # x
               PROVE  /\ AgentOf[described'[x]] = AgentOf[x] /\ Kind[described'[x]] = "polkit"
                      /\ phase'[described'[x]] = "over" \/ {described'[x], x} \cap gone # {}
                      /\ \A q \in Requests \ {x} : described'[q] # described'[x]
    BY <1>1 DEF OneContextOneRequest
  <2>1. x # r
    BY <1>3
  <2>2. /\ described'[x] = described[x] /\ described[x] \in Requests
        /\ AgentOf[described[x]] = AgentOf[x] /\ Kind[described[x]] = "polkit"
        /\ phase[described[x]] = "over" \/ {described[x], x} \cap gone # {}
        /\ \A q \in Requests \ {x} : described[q] # described[x]
    BY <1>2, <1>3, <2>1 DEF CtxInv, OneContextOneRequest
  <2>3. described[x] # r
    BY <1>1, <2>2
  <2> QED
    BY <1>3, <2>2, <2>3
<1> QED
  BY <1>4, <1>5, <1>7, <1>8, <1>9 DEF CtxInv
-----------------------------------------------------------------------------
(* The clock drops what is too old, a crash everything.                    *)
LEMMA AgedKeeps ==
  ASSUME CtxInv, UNCHANGED <<phase, gone, sent, described>>, contexts' = Aged
  PROVE  CtxInv'
<1> DEFINE older == [i \in 1 .. Len(contexts) |-> [contexts[i] EXCEPT !.age = @ + 1]]
           I == {i \in 1 .. Len(older) : older[i].age < FreshFor}
           first == IF I # {} THEN Min(I) ELSE 0
<1>1. contexts' = IF first = 0 THEN <<>> ELSE SubSeq(older, first, Len(older))
  BY DEF Aged, SelectInSeq
<1>2. contexts \in Seq(Ctx)
  BY DEF CtxInv, ContextTypes
<1>3. /\ older \in Seq(Ctx) /\ Len(older) = Len(contexts) /\ Len(contexts) \in Nat
      /\ DOMAIN contexts = 1 .. Len(contexts)
      /\ \A i \in 1 .. Len(contexts) : older[i].of = contexts[i].of /\ older[i].agent = contexts[i].agent
  <2>1. Len(contexts) \in Nat /\ DOMAIN contexts = 1 .. Len(contexts)
    BY <1>2
  <2>2. ASSUME NEW i \in 1 .. Len(contexts)
        PROVE  /\ [contexts[i] EXCEPT !.age = @ + 1] \in Ctx
               /\ older[i].of = contexts[i].of /\ older[i].agent = contexts[i].agent
    <3>1. contexts[i] \in Ctx
      BY <1>2, <2>1
    <3> QED
      BY <3>1 DEF Ctx
  <2>3. older \in [1 .. Len(contexts) -> Ctx]
    BY <2>2
  <2>4. older \in Seq(Ctx) /\ Len(older) = Len(contexts)
    <3> HIDE DEF older
    <3> QED
      BY <2>1, <2>3
  <2> QED
    BY <2>1, <2>2, <2>4
<1>4. first \in 0 .. Len(contexts)
  <2>1. I \subseteq Nat /\ I \subseteq 1 .. Len(contexts)
    BY <1>3
  <2> HIDE DEF I
  <2> QED
    BY <1>3, <2>1, LeastIndex
<1> HIDE DEF older, first
<1>5. KeptInv' /\ contexts' \in Seq(Ctx)
  <2>1. CASE first = 0
    <3>1. contexts' = <<>>
      BY <1>1, <2>1
    <3> QED
      BY <3>1 DEF KeptInv
  <2>2. CASE first # 0
    <3>1. contexts' = SubSeq(older, first, Len(older)) /\ first \in 1 .. Len(contexts)
      BY <1>1, <1>4, <2>2
    <3>2. /\ contexts' \in Seq(Ctx) /\ DOMAIN contexts' = 1 .. (Len(contexts) - first + 1)
          /\ \A i \in DOMAIN contexts' : contexts'[i] = older[first + i - 1]
      BY <1>3, <3>1
    <3> DEFINE place == [i \in DOMAIN contexts' |-> first + i - 1]
    <3>3. place \in [DOMAIN contexts' -> DOMAIN contexts]
      BY <1>3, <3>1, <3>2
    <3>4. \A i, j \in DOMAIN contexts' : place[i] = place[j] => i = j
      BY <1>3, <3>1, <3>2
    <3>5. \A i \in DOMAIN contexts' : /\ contexts'[i].of = contexts[place[i]].of
                                      /\ contexts'[i].agent = contexts[place[i]].agent
      BY <1>3, <3>1, <3>2, <3>3
    <3> HIDE DEF place
    <3> QED
      BY <3>2, <3>3, <3>4, <3>5, FewerKept
  <2> QED
    BY <2>1, <2>2
<1> QED
  BY <1>5 DEF CtxInv, ContextTypes, AgentInv, TakenInv, OneContextOneRequest

(* A crash forgets the descriptions, not who was described.               *)
LEMMA CrashKeeps ==
  ASSUME CtxInv, Typed, Crash
  PROVE  CtxInv'
<1>1. /\ \A r \in Requests : phase'[r] = IF Lives(r) THEN "over" ELSE phase[r]
      /\ contexts' = <<>> /\ UNCHANGED <<gone, sent, described>>
  BY DEF Crash
<1>2. contexts' \in Seq(Ctx) /\ KeptInv'
  BY <1>1 DEF KeptInv
<1>3. AgentInv'
  BY <1>1 DEF CtxInv, ContextTypes, AgentInv, Ends, Lives
<1>4. OneContextOneRequest'
  <2>1. \A q \in Requests : phase[q] = "over" => phase'[q] = "over"
    BY <1>1
  <2> QED
    BY <1>1, <2>1 DEF CtxInv, ContextTypes, OneContextOneRequest
<1> QED
  BY <1>1, <1>2, <1>3, <1>4 DEF CtxInv, ContextTypes, TakenInv

(* Every step keeps one description to one request.                       *)
LEMMA ContextStep == CtxInv /\ Inv /\ [Next]_vars => CtxInv'
<1> SUFFICES ASSUME CtxInv, Inv, [Next]_vars PROVE CtxInv'
  OBVIOUS
<1>0. Typed
  BY DEF Inv
<1>1. CASE \E r \in Requests : Start(r) \/ SendContext(r) \/ TakeContext(r) \/ OwnCaller(r)
  BY <1>0, <1>1, StartAlone, SendKeeps, TakeKeeps, OwnKeeps
<1>2. ASSUME NEW r \in Requests,
             \/ GiveUp(r) \/ TurnAway(r) \/ Look(r) \/ LidClosed(r) \/ NoWindow(r)
             \/ RefusedRecently(r) \/ RequesterRemote(r) \/ Denied(r)
      PROVE  CtxInv'
  <2>1. UNCHANGED <<sent, contexts, described>> /\ \E reply : Reply(r, reply)
    BY <1>2 DEF GiveUp, TurnAway, Look, LidClosed, NoWindow, RefusedRecently, RequesterRemote, Denied
  <2> QED
    BY <1>0, <2>1, QuietReply
<1>3. ASSUME NEW r \in Requests, Join(r) \/ NoContext(r)
      PROVE  CtxInv'
  BY <1>0, <1>3, QuietGoto DEF Join, NoContext, Phases, Ends
<1>4. ASSUME NEW r \in Requests, Approve(r)
      PROVE  CtxInv'
  <2>1. CASE Reply(r, "match")
    BY <1>0, <1>4, <2>1, QuietReply DEF Approve
  <2>2. CASE Goto(r, "granting")
    BY <1>0, <1>4, <2>2, QuietGoto DEF Approve, Reply, Phases, Ends
  <2> QED
    BY <1>4, <2>1, <2>2 DEF Approve
<1>9. ASSUME NEW r \in Requests, HangUp(r)
      PROVE  CtxInv'
  BY <1>9, QuietStep DEF HangUp
<1>5. CASE StopTimer \/ ArmTimer \/ UNCHANGED vars
  BY <1>5, QuietStep DEF StopTimer, ArmTimer, Outside, vars
<1>6. CASE NameRefused \/ ArmFails \/ WriteRule \/ WriteFails
  <2>1. granting.for \in Requests /\ Granted /\ UNCHANGED <<sent, contexts, described>>
    BY <1>0, <1>6 DEF NameRefused, ArmFails, WriteRule, WriteFails, Outside, Step, Typed, GrantTypes
  <2> QED
    BY <1>0, <2>1, QuietReply DEF Granted
<1>7. CASE Tick
  BY <1>7, AgedKeeps DEF Tick
<1>8. CASE Crash
  BY <1>0, <1>8, CrashKeeps
<1> QED
  BY <1>1, <1>2, <1>3, <1>4, <1>5, <1>6, <1>7, <1>8, <1>9 DEF Next, Handle, Granting

(* Nothing has been sent or taken at the start.                            *)
LEMMA ContextStart == Init => CtxInv
<1> SUFFICES ASSUME Init PROVE CtxInv
  OBVIOUS
<1>1. contexts \in Seq(Ctx) /\ KeptInv
  BY DEF Init, KeptInv
<1> QED
  BY <1>1 DEF Init, CtxInv, ContextTypes, AgentInv, Ends, TakenInv, OneContextOneRequest

(* take_polkit_context and the agents' one helper at a time: a description *)
(* is taken once, by a request of the agent that sent it, and when that is *)
(* not the one it was sent for, the helper of one of the two is gone or    *)
(* answered, in any order of late connections, cancelled requests whose    *)
(* threads look on, drops, ageing and crashes (requester.rs).              *)
THEOREM ContextServesOne == Spec => []OneContextOneRequest
<1>1. CtxInv => OneContextOneRequest
  BY DEF CtxInv
<1> QED
  BY <1>1, ContextStart, ContextStep, Invariance, PTL DEF Spec
=============================================================================
