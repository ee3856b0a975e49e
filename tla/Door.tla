--------------------------------- MODULE Door ---------------------------------
(* The way of a request from a program's PAM stack to an answer.  The PAM    *)
(* module asks (pam_faceauth), handle admits (server/handle.rs), a request   *)
(* through polkit's helper takes the description its agent sent ahead        *)
(* (consent/requester.rs), the answer goes back as a PAM code, and an        *)
(* approval may start a spell of passwordless sudo (consent/passwordless.rs).*)
(* The queue, the rounds and the refusals between are modules of their own:  *)
(* here they are one action each.                                            *)
(*                                                                           *)
(* Outside: the agents (each serves one request at a time, goes on to the    *)
(* next when the helper of the last is gone, and sends each request's        *)
(* description once, over a connection of its own, so it may come late), the *)
(* programs, which may be killed or cancelled under the daemon's thread, the *)
(* clock, systemd's timer and a crash of the daemon, which ends every        *)
(* request and forgets the descriptions but no file and no timer.            *)
EXTENDS Locality, FiniteSets, SequencesExt

CONSTANTS Requests, Agents,
          Kind,         \* of each request: see Kinds
          Misspelt,     \* requests whose line spells `consent` wrong
          AgentOf,      \* the agent that serves a polkit request
          Callers,      \* facts the locality check may read
          MaxContexts,  \* descriptions kept for a user (8)
          FreshFor,     \* ticks a description is kept (120 s)
          LookFor,      \* ticks a request waits for its own (1.5 s)
          Minutes,      \* lengths of a spell
          None

\* Root's stacks, whose lines say `consent`, and the lock screen's, which runs
\* as the user and is a plain look.
Kinds == {"sudo", "polkit", "look"}

\* Not at all, by a daemon that ended in the middle, or with a removal that
\* failed and was logged.
Orphaned == {"no", "crash", "removal"}

ASSUME DoorAssumption ==
  /\ Kind \in [Requests -> Kinds]
  /\ AgentOf \in [Requests -> Agents] /\ Misspelt \subseteq Requests
  /\ {MaxContexts, FreshFor, LookFor} \subseteq Nat /\ MaxContexts > 0
  /\ Minutes \subseteq Nat \ {0}
  /\ None \notin Requests
  /\ None \notin [for : Requests, step : {"stop", "arm", "write"}, minutes : Minutes]

VARIABLES phase,      \* of each request, as the daemon's thread has it
          verdict,    \* what its PAM module returned
          gone,       \* requests whose program or helper is gone
          sent,       \* whose description the agent has sent
          contexts,   \* the descriptions kept, oldest first
          waited,     \* ticks spent looking for a description
          described,  \* whose description the request took
          approved,   \* requests approved at their card
          rule,       \* the NOPASSWD file is there
          timer,      \* minutes until it is removed; 0: no timer
          granting,   \* the spell being started: step and minutes
          orphaned    \* how the rule was left without a timer: see Orphaned

spell == <<rule, timer, granting, orphaned>>
vars == <<phase, verdict, gone, sent, contexts, waited, described, approved, spell>>

Init ==
  /\ phase = [r \in Requests |-> "new"]
  /\ verdict = [r \in Requests |-> "none"] /\ gone = {}
  /\ sent = {} /\ contexts = <<>>
  /\ waited = [r \in Requests |-> 0]
  /\ described = [r \in Requests |-> None]
  /\ approved = {}
  /\ rule \in BOOLEAN /\ timer \in IF rule THEN Minutes ELSE {0}
  /\ granting = None /\ orphaned = "no"

-----------------------------------------------------------------------------
(* The PAM module. *)

ByRoot(r) == Kind[r] # "look"
Consents(r) == ByRoot(r) /\ r \notin Misspelt     \* parse_args on its line

\* What the module makes of a reply: a refusal is read on a consent line only.
Code(r, reply) ==
  IF reply = "match" THEN "success"
  ELSE IF reply = "refused" /\ Consents(r) THEN "auth error"
  ELSE "ignore"

Goto(r, p) == phase' = [phase EXCEPT ![r] = p]

\* Nobody reads the reply to a program that is gone.
Reply(r, reply) ==
  /\ Goto(r, "over") /\ UNCHANGED gone
  /\ verdict' = IF r \in gone THEN verdict ELSE [verdict EXCEPT ![r] = Code(r, reply)]

\* A refusal cancels at polkit's agent and falls to the password at sudo.
Refused(r) == IF Kind[r] = "polkit" THEN "refused" ELSE "denied"

\* The agent waits for the helper of its last request, not for the daemon's
\* thread, which may still be looking for that one's description.
AgentFree(r) ==
  \A q \in Requests :
    Kind[q] = "polkit" /\ AgentOf[q] = AgentOf[r] => phase[q] \in {"new", "over"} \/ q \in gone

\* A remote host on the transaction, a name PAM cannot give or the module will
\* not quote, no daemon: the stack falls through without a question.
Start(r) ==
  /\ phase[r] = "new"
  /\ Kind[r] = "polkit" => AgentFree(r)
  /\ (Goto(r, "asked") /\ UNCHANGED <<verdict, gone>>) \/ Reply(r, "none")
  /\ UNCHANGED <<sent, contexts, waited, described, approved, spell>>

\* timeout= bounds the wait of a plain line only.
GiveUp(r) ==
  /\ phase[r] = "asked" /\ ~Consents(r) /\ Reply(r, "none")
  /\ UNCHANGED <<sent, contexts, waited, described, approved, spell>>

\* sudo interrupted, the helper killed or its request cancelled at the agent:
\* the daemon's thread finds out only where it looks at the socket, which is
\* once it waits.
HangUp(r) ==
  /\ phase[r] \in {"asked", "looking", "waiting"} /\ Consents(r) /\ r \notin gone
  /\ gone' = gone \cup {r}
  /\ UNCHANGED <<phase, verdict, sent, contexts, waited, described, approved, spell>>

-----------------------------------------------------------------------------
(* handle. *)

\* The agent's own connection, when it is shown to be local: kept in arrival
\* order, the oldest dropped.
SendContext(r) ==
  /\ Kind[r] = "polkit" /\ phase[r] # "new" /\ r \notin sent
  /\ \E f \in Callers : Local(f)
  /\ sent' = sent \cup {r}
  /\ LET q == Append(contexts, [of |-> r, agent |-> AgentOf[r], age |-> 0])
     IN  contexts' = IF Len(q) > MaxContexts THEN Tail(q) ELSE q
  /\ UNCHANGED <<phase, verdict, gone, waited, described, approved, spell>>

\* Mutant: a plain look is for whoever asks.
AdmitAnyLook(r) == TRUE

\* Elevation is never passive: a root caller gets no plain look.
AdmitPlainLook(r) == ~ByRoot(r)

\* The daemon's own pid, an unreadable or unknown request, root as the user,
\* another's user, or a caller not shown to be local.
TurnAway(r) ==
  /\ phase[r] = "asked" /\ Reply(r, "error")
  /\ UNCHANGED <<sent, contexts, waited, described, approved, spell>>

Look(r) ==
  /\ phase[r] = "asked" /\ ~Consents(r)
  /\ \E f \in Callers : Local(f)
  /\ IF AdmitPlainLook(r) THEN \E reply \in {"match", "no match", "error"} : Reply(r, reply)
                          ELSE Reply(r, "error")
  /\ UNCHANGED <<sent, contexts, waited, described, approved, spell>>

\* Nobody can nod at a camera in a closed lid.
LidClosed(r) ==
  /\ phase[r] = "asked" /\ Consents(r) /\ Reply(r, "error")
  /\ \E f \in Callers : Local(f)
  /\ UNCHANGED <<sent, contexts, waited, described, approved, spell>>

\* No session to ask in, another user's window, too many requests: all before
\* the description is looked for.
NoWindow(r) ==
  /\ phase[r] = "asked" /\ Consents(r) /\ Reply(r, "denied")
  /\ \E f \in Callers : Local(f)
  /\ UNCHANGED <<sent, contexts, waited, described, approved, spell>>

Join(r) ==
  /\ phase[r] = "asked" /\ Consents(r)
  /\ \E f \in Callers : Local(f)
  /\ Goto(r, "looking")
  /\ UNCHANGED <<verdict, gone, sent, contexts, waited, described, approved, spell>>

\* Mutant: the oldest of the user's, whichever agent sent it.
Oldest(r) == SelectInSeq(contexts, LAMBDA c : TRUE)

\* The oldest fresh description this request's agent sent, once.
Mine(r) == SelectInSeq(contexts, LAMBDA c : c.agent = AgentOf[r])

TakeContext(r) ==
  /\ phase[r] = "looking" /\ Kind[r] = "polkit" /\ Mine(r) > 0
  /\ described' = [described EXCEPT ![r] = contexts[Mine(r)].of]
  /\ contexts' = RemoveAt(contexts, Mine(r))
  /\ Goto(r, "waiting") /\ waited' = [waited EXCEPT ![r] = 0]
  /\ UNCHANGED <<verdict, gone, sent, approved, spell>>

NoContext(r) ==
  /\ phase[r] = "looking" /\ Kind[r] = "polkit" /\ Mine(r) = 0 /\ waited[r] = LookFor
  /\ Goto(r, "waiting") /\ waited' = [waited EXCEPT ![r] = 0]
  /\ UNCHANGED <<verdict, gone, sent, contexts, described, approved, spell>>

\* Off polkit's lane the caller describes itself.
OwnCaller(r) ==
  /\ phase[r] = "looking" /\ Kind[r] = "sudo"
  /\ described' = [described EXCEPT ![r] = r]
  /\ Goto(r, "waiting")
  /\ UNCHANGED <<verdict, gone, sent, contexts, waited, approved, spell>>

\* A refusal stands.
RefusedRecently(r) ==
  /\ phase[r] = "waiting" /\ Reply(r, Refused(r))
  /\ UNCHANGED <<sent, contexts, waited, described, approved, spell>>

\* The process polkitd named is judged as the agent was.
RequesterRemote(r) ==
  /\ phase[r] = "waiting" /\ Kind[r] = "polkit" /\ described[r] # None
  /\ \E f \in Callers : ~Local(f)
  /\ Reply(r, "error")
  /\ UNCHANGED <<sent, contexts, waited, described, approved, spell>>

\* The rounds end without an approval: a no, no answer, the requester gone.
Denied(r) ==
  /\ phase[r] = "waiting" /\ \E reply \in {Refused(r), "denied"} : Reply(r, reply)
  /\ UNCHANGED <<sent, contexts, waited, described, approved, spell>>

\* The request has the one window, and keeps it until its spell is started.
Approve(r) ==
  /\ phase[r] = "waiting" /\ granting = None /\ approved' = approved \cup {r}
  /\ \/ Reply(r, "match") /\ UNCHANGED granting
     \/ /\ Kind[r] = "sudo" /\ Goto(r, "granting") /\ UNCHANGED <<verdict, gone>>
        /\ \E m \in Minutes : granting' = [for |-> r, step |-> "stop", minutes |-> m]
  /\ UNCHANGED <<sent, contexts, waited, described, rule, timer, orphaned>>

-----------------------------------------------------------------------------
(* Starting a spell: the timer that ends it is armed before the rule is put  *)
(* in place; the timer of an earlier spell is stopped first.                 *)

Step(s) == granting # None /\ granting.step = s
Granted == /\ granting' = None /\ Reply(granting.for, "match")
Outside == <<sent, contexts, waited, described, approved>>

\* A name that cannot be written into a rule: nothing is touched.
NameRefused ==
  /\ Step("stop") /\ Granted
  /\ UNCHANGED <<Outside, rule, timer, orphaned>>

\* What systemctl says is not looked at: the timer may still be there.  The
\* step is over when the timer is stopped or left, whenever systemctl returns.
StopTimer ==
  /\ Step("stop") /\ timer' \in {0, timer}
  /\ granting' = [granting EXCEPT !.step = "arm"]
  /\ UNCHANGED <<phase, verdict, gone, Outside, rule, orphaned>>

\* systemd starts no second unit of the name.
ArmTimer ==
  /\ Step("arm") /\ timer = 0 /\ timer' = granting.minutes /\ orphaned' = "no"
  /\ granting' = [granting EXCEPT !.step = "write"]
  /\ UNCHANGED <<phase, verdict, gone, Outside, rule>>

\* Mutant: the error is passed on and the earlier rule left.
DisarmNothing(removed) == UNCHANGED <<rule, orphaned>>

\* The earlier rule goes with its stopped timer.  When it cannot be removed
\* that is logged for root to see to.
Disarm(removed) ==
  /\ rule' = (rule /\ ~removed)
  /\ orphaned' = IF rule' /\ timer = 0 THEN "removal" ELSE "no"

\* Mutant: a timer that did not start is no reason to stop.
ArmFailsGoesOn ==
  /\ Step("arm") /\ granting' = [granting EXCEPT !.step = "write"]
  /\ UNCHANGED <<phase, verdict, gone, Outside, rule, timer, orphaned>>

ArmFails ==
  /\ Step("arm") /\ \E removed \in BOOLEAN : Disarm(removed)
  /\ Granted
  /\ UNCHANGED <<Outside, timer>>

WriteRule ==
  /\ Step("write") /\ rule' = TRUE /\ Granted
  /\ UNCHANGED <<Outside, timer, orphaned>>

WriteFails ==
  /\ Step("write") /\ Granted
  /\ UNCHANGED <<Outside, rule, timer, orphaned>>

-----------------------------------------------------------------------------
(* The clock and the daemon's end. *)

\* A tick ages every description; the oldest come first, so what is still fresh
\* is the end of the queue.
Aged ==
  LET older == [i \in 1 .. Len(contexts) |-> [contexts[i] EXCEPT !.age = @ + 1]]
      first == SelectInSeq(older, LAMBDA c : c.age < FreshFor)
  IN  IF first = 0 THEN <<>> ELSE SubSeq(older, first, Len(older))

\* A look for a description is over before its last tick is; writing the rule
\* takes no minute.
Tick ==
  /\ ~Step("write")
  /\ \A r \in Requests : phase[r] = "looking" /\ Kind[r] = "polkit" => waited[r] < LookFor
  /\ \/ contexts # <<>> \/ timer > 0
     \/ \E r \in Requests : phase[r] = "looking" /\ Kind[r] = "polkit"
  /\ contexts' = Aged
  /\ waited' = [r \in Requests |->
                  IF phase[r] = "looking" /\ Kind[r] = "polkit" THEN waited[r] + 1 ELSE waited[r]]
  /\ timer' = IF timer > 0 THEN timer - 1 ELSE 0
  /\ rule' = IF timer = 1 THEN FALSE ELSE rule
  /\ UNCHANGED <<phase, verdict, gone, sent, described, approved, granting, orphaned>>

Lives(r) == phase[r] \notin {"new", "over"}

Crash ==
  /\ \E r \in Requests : Lives(r)
  /\ phase' = [r \in Requests |-> IF Lives(r) THEN "over" ELSE phase[r]]
  /\ verdict' = [r \in Requests |-> IF Lives(r) /\ r \notin gone THEN "ignore" ELSE verdict[r]]
  /\ contexts' = <<>>
  /\ waited' = [r \in Requests |-> 0]
  /\ orphaned' = IF rule /\ timer = 0 /\ Step("arm") THEN "crash" ELSE orphaned
  /\ granting' = None
  /\ UNCHANGED <<gone, sent, described, approved, rule, timer>>

Granting == NameRefused \/ StopTimer \/ ArmTimer \/ ArmFails \/ WriteRule \/ WriteFails

Handle(r) ==
  \/ TurnAway(r) \/ Look(r) \/ LidClosed(r) \/ NoWindow(r) \/ Join(r)
  \/ TakeContext(r) \/ NoContext(r) \/ OwnCaller(r)
  \/ RefusedRecently(r) \/ RequesterRemote(r) \/ Denied(r) \/ Approve(r)

Next ==
  \/ \E r \in Requests : \/ Start(r) \/ GiveUp(r) \/ HangUp(r)
                         \/ SendContext(r) \/ Handle(r)
  \/ Granting \/ Tick \/ Crash

Describe(r) == TakeContext(r) \/ NoContext(r)

\* The clock goes on; a look for a description and the start of a spell wait
\* for nothing but the clock and systemd: that `systemctl stop`, which is given
\* no time to be over in, returns is assumed.
Spec == /\ Init /\ [][Next]_vars /\ WF_vars(Tick) /\ WF_vars(Granting)
        /\ \A r \in Requests : WF_vars(Describe(r))

-----------------------------------------------------------------------------
(* Properties. *)

(* Nothing run by root succeeds but by an approval at its own card, however  *)
(* its PAM line is spelt and whoever gives up, crashes or is turned away     *)
(* meanwhile.  (pam_faceauth/src/lib.rs:135-182, server/admit.rs:10-16,      *)
(* handle.rs:595-742)                                                        *)
RootNeedsACard ==
  \A r \in Requests : verdict[r] = "success" /\ ByRoot(r) => r \in approved

(* A description serves one request, of the agent that sent it.  When that   *)
(* is not the one it was sent for, the program of one of the two is gone or  *)
(* answered: no card whose program waits shows what another that waits asks  *)
(* for.  (requester.rs:222-247, handle.rs:261-290)                           *)
OneContextOneRequest ==
  \A r \in Requests : LET d == described[r] IN
    d # None /\ d # r =>
      /\ AgentOf[d] = AgentOf[r] /\ Kind[d] = "polkit"
      /\ phase[d] = "over" \/ {d, r} \cap gone # {}
      /\ \A q \in Requests \ {r} : described[q] # d

(* What requester.rs:194-198 takes for granted of the order of arrival: the  *)
(* description a request takes is its own.  It is not so: a description may  *)
(* come after its request gave up looking, and the thread of a request whose *)
(* helper is gone looks on and takes the next one's.                         *)
OwnDescription == \A r \in Requests : described[r] \in {None, r}

(* A rule in place has a timer that will remove it, unless its spell is being*)
(* extended right now, the daemon crashed in the middle of that (which       *)
(* nothing logs or repairs), or it could not be removed after its new timer  *)
(* did not start (which is logged).  A later timer ends the exemption.       *)
(* (passwordless.rs:26-94, 106-133)                                          *)
RuleHasATimer == rule /\ timer = 0 => Step("arm") \/ orphaned # "no"

(* What passwordless.rs:28-30 says, "the spell never outlives its timer":    *)
(* no rule is without one, but while its timer is being replaced or when it  *)
(* could not be removed.  It is not so: a daemon that ends between the stop  *)
(* of the old timer and the start of the new one leaves the old rule.        *)
SpellKeepsItsTimer == rule /\ timer = 0 => Step("arm") \/ orphaned = "removal"

(* A spell ends: the rule goes, or was left behind as above.                 *)
SpellEnds == rule ~> (~rule \/ orphaned # "no")
=============================================================================
