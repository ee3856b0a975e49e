---------------------------- MODULE ConsentWindow ----------------------------
(***************************************************************************)
(* What the consent queue of the daemon promises, with nothing of how it   *)
(* keeps the promise: there is one consent window; requests stand in line  *)
(* for it in arrival order; everybody in line and at the window is the     *)
(* same user; a request may give up its place at any time.                 *)
(* ConsentQueue, the queue as consent/state.rs writes it, implements this. *)
(***************************************************************************)
EXTENDS Naturals, Sequences

CONSTANTS Request,      \* the consent requests
          User,         \* the users they are made for
          UserOf,       \* the user each request is for
          NoRequest     \* the window is free

VARIABLES window,       \* the request on screen, or NoRequest
          line          \* the requests waiting for the window

vars == <<window, line>>

InLine(r) == \E i \in DOMAIN line : line[i] = r

(* Everybody who is at the window or in line for it.                        *)
Party == (IF window = NoRequest THEN {} ELSE {window})
           \cup {line[i] : i \in DOMAIN line}

Init == window = NoRequest /\ line = <<>>

(* A request goes to the end of the line, if the line is its user's.        *)
Enter(r) ==
  /\ r \notin Party
  /\ \A s \in Party : UserOf[s] = UserOf[r]
  /\ line' = Append(line, r)
  /\ UNCHANGED window

(* The first in line gets the free window.                                  *)
Serve ==
  /\ window = NoRequest /\ line # <<>>
  /\ window' = Head(line)
  /\ line' = Tail(line)

(* The request at place k gives its place up; those behind it move up.      *)
Leave(k) ==
  /\ line' = [i \in 1 .. Len(line) - 1 |-> IF i < k THEN line[i] ELSE line[i + 1]]
  /\ UNCHANGED window

(* The request at the window is over.                                       *)
Finish ==
  /\ window # NoRequest
  /\ window' = NoRequest
  /\ UNCHANGED line

Next ==
  \/ \E r \in Request : Enter(r)
  \/ Serve
  \/ \E k \in DOMAIN line : Leave(k)
  \/ Finish

Spec == Init /\ [][Next]_vars
==============================================================================
