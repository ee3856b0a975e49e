-------------------------------- MODULE MCDoor --------------------------------
(* The door: two requests of one agent, which share the descriptions it      *)
(* sends, one of another agent with its line misspelt, and a lock screen's   *)
(* look. Two descriptions are kept, so a third drops one.                    *)
(* The spell: two sudos, each of which may start a spell or lengthen one,    *)
(* and a misspelt request beside them.                                       *)
EXTENDS Door
CONSTANTS p1, p2, q1, s1, s2, l1, a, b
MCKind == [r \in Requests |-> IF r \in {p1, p2, q1} THEN "polkit"
                              ELSE IF r = l1 THEN "look" ELSE "sudo"]
MCAgentOf == [r \in Requests |-> IF r = q1 THEN b ELSE a]

\* Bound: what a behaviour asks for. A spell and a description touch nothing of
\* each other's, so the requests of one are not mixed with those of the other.
Apart ==
  LET made == {r \in Requests : phase[r] # "new"}
  IN  made \subseteq {p1, p2, q1, l1} \/ made \subseteq {q1, s1, s2}

\* Facts about a process that is not a service, and about polkit's helper.
Processes ==
  [chain: Chains, root: BOOLEAN, place: Places \ {"service"}, theirs: BOOLEAN,
   session: Sessions, sessions: BoundedSeq(Sessions, 2), pidfd: {"open", "exited", "none"}]
Process == [chain |-> "init", root |-> FALSE, place |-> "manager", theirs |-> FALSE,
            session |-> "unreadable", sessions |-> <<"vanished", "seated">>, pidfd |-> "open"]
Helper == [chain |-> "init", root |-> TRUE, place |-> "service", unit |-> "polkit helper",
           names |-> "pid and id", agentThere |-> TRUE, agent |-> Process, pidfd |-> "open"]
MCCallers ==
  {Process, [Process EXCEPT !.chain = "ssh"], Helper,
   [Helper EXCEPT !.agent = [Process EXCEPT !.chain = "ssh"]], [Helper EXCEPT !.agent = Helper]}

\* A caller is local only with a whole chain, a live process and a session on a
\* seat; a session that can no longer be read never makes a remote caller local;
\* and a helper is no more local than the agent it is followed to.
ASSUME LocalityFailsClosed ==
  \A f \in Processes :
    /\ Local(f) => /\ f.chain = "init" /\ f.pidfd = "open"
                   /\ "seated" \in {f.session} \cup ToSet(f.sessions)
    /\ \A i \in DOMAIN f.sessions :
         Local([f EXCEPT !.sessions[i] = "unreadable"]) => Local(f)
    /\ Local([Helper EXCEPT !.agent = f]) = FromSession(f)
=============================================================================
