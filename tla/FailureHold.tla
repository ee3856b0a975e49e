------------------------------ MODULE FailureHold ------------------------------
(***************************************************************************)
(* What the failure cooldown promises one user's failed face checks        *)
(* (auth/cooldown.rs), with every timer kept by the clock: so many         *)
(* failures inside the window earn a hold; once one has been served every  *)
(* further failure earns the next at once, twice as long, up to a limit; a *)
(* match forgives everything, and a quiet spell the doubling. What it does *)
(* not promise: that a failure counts which is charged inside a hold, or    *)
(* after one that ran out before anybody asked for it.                     *)
(***************************************************************************)
EXTENDS Naturals, Sequences, FiniteSets

CONSTANTS Failures,      \* COOLDOWN_FAILURES, 5 in the code
          Window,        \* COOLDOWN_WINDOW, 60 s
          Hold,          \* COOLDOWN_HOLD, 30 s
          MaxDoublings,  \* COOLDOWN_MAX_DOUBLINGS, 4
          Quiet          \* COOLDOWN_QUIET, 600 s

VARIABLES recent,   \* ages of the failures inside the window, oldest first
          rest,     \* how much of a hold is left
          level,    \* holds served since the last match or quiet spell
          still,    \* time since the last failure, up to Quiet
          unseen    \* a hold has run out that nobody has asked for since

Capped(n) == IF n < MaxDoublings THEN n ELSE MaxDoublings
Length(n) == Hold * 2^Capped(n)
Aged(ages) == [i \in 1..Len(ages) |-> ages[i] + 1]
Young(age) == age < Window

\* What is left of the ages inside the window: the oldest come first, so what is
\* out of it is a prefix.
Within(ages) ==
  SubSeq(ages, Cardinality({i \in DOMAIN ages : ~Young(ages[i])}) + 1, Len(ages))

Init == recent = <<>> /\ rest = 0 /\ level = 0 /\ still = Quiet /\ unseen = FALSE

Tick ==
  /\ rest' = IF rest = 0 THEN 0 ELSE rest - 1
  /\ still' = IF still < Quiet THEN still + 1 ELSE Quiet
  /\ recent' = IF rest = 1 THEN <<>> ELSE Within(Aged(recent))
  /\ level' = IF still' = Quiet THEN 0
              ELSE IF rest = 1 THEN Capped(level + 1) ELSE level
  /\ unseen' = (unseen \/ rest = 1)

(* Somebody asks whether a hold stands, before a check.                     *)
Asked == unseen' = FALSE /\ UNCHANGED <<recent, rest, level, still>>

Counts ==
  /\ rest = 0 /\ still' = 0
  /\ LET failed == Append(recent, 0)
     IN  IF level > 0 \/ Len(failed) >= Failures
         THEN recent' = <<>> /\ rest' = Length(level)
         ELSE recent' = failed /\ UNCHANGED rest
  /\ unseen' = FALSE
  /\ UNCHANGED level

(* A failure inside a hold, or after one nobody has asked for since, adds   *)
(* nothing; it is taken for part of the hold, whose doubling stands after   *)
(* a quiet spell too.                                                       *)
Forgiven ==
  /\ rest > 0 \/ unseen
  /\ still' = 0 /\ unseen' = FALSE
  /\ level' = IF unseen /\ still >= Quiet THEN 1 ELSE level
  /\ UNCHANGED <<recent, rest>>

Match == recent' = <<>> /\ rest' = 0 /\ level' = 0 /\ still' = Quiet /\ unseen' = FALSE

Next == Tick \/ Asked \/ Counts \/ Forgiven \/ Match

Spec == Init /\ [][Next]_<<recent, rest, level, still, unseen>>
=============================================================================
