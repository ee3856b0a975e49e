------------------------------- MODULE Locality -------------------------------
(* Where a caller comes from (server/locality.rs): local only when /proc and *)
(* logind show it, remote on any error or unfamiliar shape.  The facts read  *)
(* about one process are a record; polkit's helper carries, as `agent`, those*)
(* of the process its unit name says connected it.                           *)
EXTENDS Naturals, Sequences

\* A logind session as session() answers: on a seat, remote, seatless, not of
\* class user, gone since it was listed, or not to be read.
Sessions == {"seated", "remote", "seatless", "greeter", "vanished", "unreadable"}

\* The parent chain up to init: whole, under sshd, too deep, or not readable.
Chains == {"init", "ssh", "deep", "unreadable"}

\* The cgroup: a root service, a logind session scope, the target user's own
\* manager, anywhere else.
Places == {"service", "session", "manager", "elsewhere"}

\* 3. A session scope counts when it is the target user's own and seated.
InSession(f) == f.place = "session" /\ f.theirs /\ f.session = "seated"

\* 4. The sessions of the user are asked in order; one that logind no longer
\* knows says nothing, any other error ends the question.
InManager(f) ==
  /\ f.place = "manager"
  /\ \E i \in 1 .. Len(f.sessions) :
       /\ f.sessions[i] = "seated"
       /\ \A j \in 1 .. i - 1 : f.sessions[j] # "unreadable"

\* 1, 3, 4.  A root process under system.slice is a service and never this.
FromSession(f) ==
  /\ f.chain = "init"
  /\ ~(f.root /\ f.place = "service")
  /\ InSession(f) \/ InManager(f)

\* 2. Only polkit's helper is followed, one step, to the agent its instance
\* name pins by pid and pidfd id.
FromAgent(f) ==
  /\ f.chain = "init" /\ f.root /\ f.place = "service"
  /\ f.unit = "polkit helper" /\ f.names = "pid and id" /\ f.agentThere
  /\ FromSession(f.agent)

\* The answer stands only for a process that is still there afterwards.
Local(f) == (FromSession(f) \/ FromAgent(f)) /\ f.pidfd = "open"
=============================================================================
