------------------------------- MODULE Throttles -------------------------------
(***************************************************************************)
(* One user's two throttles as the daemon keeps them: the failure holds    *)
(* shared by the lock screen and the consent window (Strikes), and the     *)
(* refusal that stands after the user said no (Backoff). Neither has a     *)
(* timer: what has run out is noticed by the next call that asks, and a    *)
(* check may begin before a timer runs out and fail after it.              *)
(*                                                                         *)
(* Instants are kept as ages, and a time still to come as what is left.    *)
(***************************************************************************)
EXTENDS Naturals, Sequences, FiniteSets

CONSTANTS Failures, Window, Hold, MaxDoublings, Quiet,
          Backoff,           \* BACKOFF, 60 s
          MaxLevel,          \* BACKOFF_MAX_DOUBLINGS, 3
          BackoffQuiet,      \* BACKOFF_QUIET, 600 s
          LongestCheck,      \* how long one face check may take
          None               \* no instant

Entries == [until : Nat, last : Nat, level : Nat, notified : BOOLEAN]

\* Every hold, and the longest check begun inside it, is over before a spell
\* without a failure counts as quiet; so is every refusal before one without a no.
ASSUME ThrottleAssumption ==
  /\ Failures \in Nat \ {0} /\ Window \in Nat \ {0} /\ Hold \in Nat \ {0}
  /\ MaxDoublings \in Nat \ {0} /\ Quiet \in Nat /\ Window < Quiet
  /\ Backoff \in Nat \ {0} /\ MaxLevel \in Nat /\ BackoffQuiet \in Nat
  /\ LongestCheck \in Nat
  /\ \A n \in 0..MaxDoublings : Hold * 2^n \in 1..(Quiet - (LongestCheck + 1))
  /\ \A n \in 0..MaxLevel : Backoff * 2^n \in 1..(BackoffQuiet - 1)
  /\ None \notin Nat /\ None \notin Entries

VARIABLES strikes,   \* the user's Strikes; [times, last, until, holds]
          check,     \* a face check running: none, scan, or let in during a hold
          taken,     \* how long it has taken
          refusal,   \* the user's Backoff in REFUSALS, or none
          calm,      \* history: time since the last no, up to BackoffQuiet
          nos,       \* history: noes before it with no quiet spell between
          notices    \* history: notices of the refusal since the last no

history == <<calm, nos, notices>>
throttleVars == <<strikes, check, taken, refusal, history>>

Fresh == [times |-> <<>>, last |-> None, until |-> None, holds |-> 0]

ThrottleInit ==
  /\ strikes = Fresh /\ check = "none" /\ taken = 0
  /\ refusal = None /\ calm = BackoffQuiet /\ nos = 0 /\ notices = 0

Least(a, b) == IF a < b THEN a ELSE b

-----------------------------------------------------------------------------
(* Strikes.                                                                 *)

AtLeast(age, bound) == age = None \/ age >= bound

Recent(age) == age < Window

\* Failures are charged in order, so those outside the window are a prefix.
Retained(times) ==
  SubSeq(times, Cardinality({i \in DOMAIN times : ~Recent(times[i])}) + 1, Len(times))

ChargeKeepsHolds(s) == [s EXCEPT !.times = Append(s.times, 0), !.last = 0]

(* Strikes::charge.                                                         *)
Charged(s) ==
  [s EXCEPT !.holds = IF s.holds > 0 /\ AtLeast(s.last, Quiet) THEN 0 ELSE s.holds,
            !.times = Append(s.times, 0),
            !.last = 0]

ServedUncounted(s) == IF s.until = 0 THEN [s EXCEPT !.until = None, !.times = <<>>] ELSE s

(* The hold that ran out is served: the failures are spent. Past            *)
(* MaxDoublings the number served makes no difference.                      *)
Served(s) ==
  IF s.until = 0
  THEN [s EXCEPT !.until = None, !.times = <<>>,
                 !.holds = Least(s.holds + 1, MaxDoublings + 1)]
  ELSE s

(* Strikes::hold.                                                           *)
HoldOf(s) ==
  IF s.until # None /\ s.until # 0 THEN s
  ELSE LET t == Served(s)
           times == Retained(t.times)
           needed == IF t.holds > 0 THEN 1 ELSE Failures
           length == Hold * 2^Least(t.holds, MaxDoublings)
           last == times[Len(times)]
       IN  IF Len(times) < needed THEN [t EXCEPT !.times = times]
           ELSE [t EXCEPT !.until = IF last < length THEN length - last ELSE 0,
                          !.times = <<>>]

InForce(s) == s.until # None /\ s.until # 0

(* hold_for in front of a check: the lock screen answers Cooldown, the      *)
(* consent round waits, or the check begins.                                *)
BeginCheck ==
  /\ check = "none"
  /\ strikes' = HoldOf(strikes)
  /\ check' = IF InForce(strikes') THEN "none" ELSE "scan"
  /\ taken' = 0
  /\ UNCHANGED <<refusal, history>>

(* An answer is waiting at a consent round's top: the hold is not waited    *)
(* out, whatever the answer turns out to be. Bound: as many checks fail     *)
(* inside one hold as earn one.                                             *)
BeginAnswered ==
  /\ check = "none" /\ Len(strikes.times) < Failures
  /\ strikes' = HoldOf(strikes) /\ InForce(strikes')
  /\ check' = "answered" /\ taken' = 0
  /\ UNCHANGED <<refusal, history>>

Failed == strikes' = HoldOf(Charged(strikes)) /\ check' = "none" /\ taken' = 0

(* NoMatch, Denied, or a wrong password.                                    *)
CheckFails ==
  /\ check # "none" /\ Failed
  /\ UNCHANGED <<refusal, history>>

(* A password typed while the request is parked is checked and charged as   *)
(* it arrives, with no look at the hold before it. Bound: as BeginAnswered. *)
ParkedFails ==
  /\ check = "none" /\ Len(strikes.times) < Failures /\ Failed
  /\ UNCHANGED <<refusal, history>>

(* No face, no strobe signal, an error, an answer: nothing is charged.      *)
CheckEnds ==
  /\ check # "none" /\ check' = "none" /\ taken' = 0
  /\ UNCHANGED <<strikes, refusal, history>>

CheckMatches ==
  /\ check # "none" /\ check' = "none" /\ taken' = 0
  /\ strikes' = Fresh
  /\ UNCHANGED <<refusal, history>>

-----------------------------------------------------------------------------
(* The standing refusal.                                                    *)

(* Backoff::refuse, on the entry or on a new one.                           *)
RefuseAlwaysDoubles(r) ==
  LET level == IF r # None THEN Least(r.level + 1, MaxLevel) ELSE 0
  IN  [until |-> Backoff * 2^level, last |-> 0, level |-> level, notified |-> FALSE]

Refused(r) ==
  LET repeat == r # None /\ r.last < BackoffQuiet
      level == IF repeat THEN Least(r.level + 1, MaxLevel) ELSE 0
  IN  [until |-> Backoff * 2^level, last |-> 0, level |-> level, notified |-> FALSE]

SaysNo ==
  /\ refusal' = Refused(refusal)
  /\ nos' = IF calm < BackoffQuiet THEN Least(nos + 1, MaxLevel) ELSE 0
  /\ calm' = 0 /\ notices' = 0

(* A shake or a dismissal.                                                  *)
Dismiss == SaysNo /\ UNCHANGED <<strikes, check, taken>>

(* A confirm that refused is a failure and a no.                            *)
ConfirmRefuses == check = "scan" /\ Failed /\ SaysNo

(* refusal_standing: an entry that stands no longer and is not counted from *)
(* any more is dropped (every user's at once).                              *)
Notice(r) == r.until > 0 /\ ~r.notified

Drop == refusal.until = 0 /\ refusal.last >= BackoffQuiet

Ask ==
  /\ refusal # None
  /\ IF Drop THEN refusal' = None /\ UNCHANGED notices
     ELSE /\ refusal' = [refusal EXCEPT !.notified = refusal.notified \/ refusal.until > 0]
          /\ notices' = IF Notice(refusal) THEN Least(notices + 1, 2) ELSE notices
  /\ UNCHANGED <<strikes, check, taken, calm, nos>>

-----------------------------------------------------------------------------
Older(age, bound) == IF age = None THEN None ELSE Least(age + 1, bound)
Sooner(left) == IF left = None \/ left = 0 THEN left ELSE left - 1

Tick ==
  /\ check # "none" => taken < LongestCheck
  /\ taken' = IF check # "none" THEN taken + 1 ELSE 0
  /\ strikes' = [strikes EXCEPT
        !.times = [i \in 1..Len(strikes.times) |-> Older(strikes.times[i], Window)],
        !.last = Older(strikes.last, Quiet),
        !.until = Sooner(strikes.until)]
  /\ refusal' = IF refusal = None THEN None
                ELSE [refusal EXCEPT !.until = Sooner(refusal.until),
                                     !.last = Older(refusal.last, BackoffQuiet)]
  /\ calm' = Least(calm + 1, BackoffQuiet)
  /\ UNCHANGED <<check, nos, notices>>

ThrottleNext == BeginCheck \/ BeginAnswered \/ CheckFails \/ ParkedFails \/ CheckEnds
        \/ CheckMatches \/ Dismiss \/ ConfirmRefuses \/ Ask \/ Tick

ThrottleSpec == ThrottleInit /\ [][ThrottleNext]_throttleVars

-----------------------------------------------------------------------------
(* The record without timers keeps the promise made with them.              *)
Abstract == INSTANCE FailureHold WITH
  recent <- IF strikes.until # None THEN <<>> ELSE Retained(strikes.times),
  rest <- IF strikes.until = None THEN 0 ELSE strikes.until,
  level <- IF AtLeast(strikes.last, Quiet) THEN 0
           ELSE Least(strikes.holds + (IF strikes.until = 0 THEN 1 ELSE 0), MaxDoublings),
  still <- IF strikes.last = None THEN Quiet ELSE strikes.last,
  unseen <- strikes.until = 0

(* The failures and holds of either lane are those of FailureHold, whose    *)
(* timers are kept by the clock: a hold that is noticed late, a failure     *)
(* that falls out of the window unseen and a doubling forgotten only at the *)
(* next failure make no difference to when the next check is held. What     *)
(* FailureHold does not promise, the code does not keep: see Forgiven.      *)
ImplementsFailureHold == Abstract!Spec

(* A check that began after a look at the hold, outside one, never fails    *)
(* without counting, however long it took and whatever else was charged     *)
(* before it.                                                               *)
EveryCheckCounts == [][CheckFails /\ check = "scan" => Abstract!Counts]_throttleVars

(* consent_flow.rs:546-547 ("it counts against the same budget as a failed  *)
(* scan"): a wrong password typed while parked counts, no hold standing.    *)
ParkedPasswordCounts ==
  [][ParkedFails /\ ~InForce(strikes) => Abstract!Counts]_throttleVars

(* Each no that follows another before a whole quiet spell stands twice as  *)
(* long as the one before it, up to the limit, whether or not a request     *)
(* came in between to drop or mark the entry (backoff.rs): what is left of  *)
(* a refusal is never more nor, until time passes, less than that.          *)
RefusalsEscalate ==
  [][SaysNo => refusal'.until = Backoff * 2^nos']_throttleVars

(* A refusal that stands is announced once, to the first request it turns   *)
(* away, however many follow.                                               *)
OneNotice == notices <= 1

(* Together: a no is stood by for its time, and said so once.               *)
NoIsStoodBy == RefusalsEscalate /\ []OneNotice
=============================================================================
