---------------------------- MODULE TemplateStore ----------------------------
(***************************************************************************)
(* One user's templates on disk (store/files.rs, store/seal.rs), and the    *)
(* callers that load, enrol and delete them. Every call is made under the   *)
(* authenticator's mutex, so calls do not overlap: what interleaves with    *)
(* the steps of one call is the credential tool's answer, an I/O error, the *)
(* daemon's death, a power cut and an account that changes hands.           *)
(*                                                                         *)
(* A power cut may keep any prefix of the directory's changes since its     *)
(* last fsync: `past` holds the directories it can leave. A set of          *)
(* templates is the number of the save that made it; a later one is newer.  *)
(***************************************************************************)
EXTENDS Naturals

CONSTANTS Sets,      \* bound: saves of an enrolment in a behaviour
          Uids,      \* uids the account's name has belonged to
          NoUid      \* the name is not in the password database

ASSUME StoreAssumption ==
  Sets \in Nat \ {0} /\ Uids # {} /\ NoUid \notin Uids

VARIABLES live,       \* the directory as the running system sees it
          staging,    \* whose staging file is in it: this daemon's, a dead one's
          past,       \* the directories a power cut can leave
          uid,        \* the uid the account's name now has, or NoUid
          sealing,    \* Store.sealing: this daemon can seal
          cache,      \* Store.cache: the file a cached set came from
          pc,         \* where the call under way stands
          job,        \* the set being saved, and for whom
          enrol,      \* an enrolment has opened the set
          got,        \* the set the enrolment under way opened
          made,       \* saves of enrolments so far
          acked,      \* the newest enrolment save that returned Ok, or 0
          sealedOk    \* a sealed save has returned Ok since nothing was stored

vars == <<live, staging, past, uid, sealing, cache, pc, job, enrol, got, made, acked, sealedOk>>

None == [set |-> 0]
File(n, owner, s, parses) == [set |-> n, uid |-> owner, sealed |-> s, parses |-> parses]
Files == [set : 0..Sets, uid : Uids, sealed : BOOLEAN, parses : BOOLEAN]

(* Only a sealed file has the sealed name. Of the sets that were set aside  *)
(* (a name each, for its second) only the number matters.                   *)
Directories == [cred : {f \in Files : f.sealed} \cup {None},
                json : {f \in Files : ~f.sealed} \cup {None}, aside : SUBSET (0..Sets)]

Places == {"idle", "seal", "staged", "renamed", "sync", "deleting"}
Jobs == [file : Files, why : {"enrol", "load"}]
NoJob == [file |-> None, why |-> "load"]

(* A set the previous release, or nobody, left behind: sealed or in the     *)
(* clear, with the fields this build requires or without.                   *)
LeftBehind(owner) ==
  {None} \cup {f \in Files : f.set = 0 /\ f.uid = owner}

Init ==
  /\ \E owner \in Uids :
       /\ uid = owner
       /\ \E f \in LeftBehind(owner) :
            live = [cred |-> IF f # None /\ f.sealed THEN f ELSE None,
                    json |-> IF f # None /\ ~f.sealed THEN f ELSE None,
                    aside |-> {}]
  /\ staging = "none" /\ job = NoJob
  /\ past = {live} /\ sealing \in BOOLEAN /\ cache = None
  /\ pc = "idle" /\ enrol = "no" /\ got = None /\ made = 0 /\ acked = 0
  /\ sealedOk = FALSE

Change(d) == live' = d /\ past' = past \cup {d}
NoChange == UNCHANGED <<live, past>>
caller == <<enrol, made>>
answered == <<acked, sealedOk>>

Sealed == live.cred # None
(* The set a load prefers.                                                  *)
Serving(d) == IF d.cred # None THEN d.cred ELSE d.json
(* What the file holds parses. The credential tool may fail on a sealed one *)
(* at any time, and for good once the TPM is cleared; a load that fails     *)
(* changes nothing, so the actions say what one that succeeds does.         *)
Readable(f) == f.parses

(* A name that nobody has cannot log in, so its set is left to the caller.  *)
Owned(f) == IF uid \in {f.uid, NoUid} THEN f ELSE None
-------------------------------------------------------------------------------
(* save: the bound and the finite numbers are the caller's to keep; staging *)
(* files of another process go; a store that could not seal at start probes *)
(* the TPM once more before it would write plaintext over a sealed file,    *)
(* and refuses when it still cannot.                                        *)
Sweep == staging' = IF staging = "stale" THEN "none" ELSE staging

SaveRefused == /\ ~sealing /\ Sealed
               /\ Sweep /\ pc' = "idle" /\ job' = NoJob
               /\ UNCHANGED <<live, past, uid, sealing, cache, caller, got, answered>>

SaveBegins ==
  /\ Sweep /\ pc' = "staged"
  /\ \E again \in IF Sealed /\ ~sealing THEN {TRUE} ELSE {sealing} :
       /\ sealing' = again
       /\ job' = [job EXCEPT !.file.sealed = again]
  /\ UNCHANGED <<live, past, uid, cache, caller, got, answered>>

(* An I/O error, or the credential tool could not seal: the staging file is *)
(* removed with the guard that holds its name.                              *)
SaveFails == /\ staging' = "none" /\ pc' = "idle" /\ job' = NoJob
             /\ UNCHANGED <<live, past, uid, sealing, cache, caller, got, answered>>

Save == pc = "seal" /\ (SaveRefused \/ SaveBegins \/ SaveFails)

ToTpm == job.file.sealed

(* The staging file is written and synced, then renamed over the target.    *)
Stage == /\ pc = "staged" /\ staging # "mine" /\ staging' = "mine"
         /\ UNCHANGED <<live, past, uid, sealing, cache, pc, job, caller, got, answered>>

Rename ==
  /\ pc = "staged" /\ staging = "mine"
  /\ Change([live EXCEPT !.cred = IF ToTpm THEN job.file ELSE @,
                         !.json = IF ToTpm THEN @ ELSE job.file])
  /\ pc' = "renamed" /\ staging' = "none"
  /\ UNCHANGED <<uid, sealing, cache, job, caller, got, answered>>

StageFails == pc = "staged" /\ SaveFails

KeepPlain ==        \* mutant: the plaintext stays beside the sealed file
  /\ pc = "renamed" /\ NoChange /\ pc' = "sync"
  /\ UNCHANGED <<staging, uid, sealing, cache, job, caller, got, answered>>

(* A sealed save removes the plaintext file; an error leaves both.          *)
RemovePlain ==
  /\ pc = "renamed"
  /\ IF ToTpm THEN Change([live EXCEPT !.json = None]) ELSE NoChange
  /\ pc' = "sync"
  /\ UNCHANGED <<staging, uid, sealing, cache, job, caller, got, answered>>

NoSync ==        \* mutant: the save returns before the directory is synced
  /\ pc = "sync" /\ UNCHANGED past /\ pc' = "idle"
  /\ cache' = IF ToTpm THEN job.file ELSE None
  /\ acked' = IF job.why = "enrol" THEN job.file.set ELSE acked
  /\ sealedOk' = (sealedOk \/ ToTpm)
  /\ job' = NoJob /\ UNCHANGED <<live, staging, uid, sealing, caller, got>>

(* The directory is synced; the cache takes the set under its new file; the *)
(* caller has its answer, or the load its set.                              *)
Sync ==
  /\ pc = "sync" /\ past' = {live} /\ pc' = "idle"
  /\ cache' = IF ToTpm THEN job.file ELSE None
  /\ acked' = IF job.why = "enrol" THEN job.file.set ELSE acked
  /\ sealedOk' = (sealedOk \/ ToTpm)
  /\ job' = NoJob /\ UNCHANGED <<live, staging, uid, sealing, caller, got>>

(* The unlink or the sync fails after the rename: the caller is told of an  *)
(* error and the cache keeps the entry of the file that was replaced.       *)
LateFailure ==
  /\ pc \in {"renamed", "sync"} /\ NoChange /\ pc' = "idle" /\ job' = NoJob
  /\ UNCHANGED <<staging, uid, sealing, cache, caller, got, answered>>
-------------------------------------------------------------------------------
(* load: a sealed file is preferred, from the cache while it is the file    *)
(* the cached set came from, and the account's uid is compared either way.  *)
Hit == cache # None /\ cache = live.cred

Answer == IF Serving(live) = None THEN None ELSE Owned(Serving(live))

Keep(f) == cache' = IF Owned(f) = None THEN cache ELSE f

LoadCached ==
  /\ pc = "idle" /\ Sealed /\ Hit
  /\ UNCHANGED <<live, staging, past, uid, sealing, cache, pc, job, made, answered>>

Unseal ==
  /\ pc = "idle" /\ Sealed /\ ~Hit /\ Readable(live.cred) /\ Keep(live.cred)
  /\ UNCHANGED <<live, staging, past, uid, sealing, pc, job, made, answered>>

(* A plaintext set found by a store that can seal is sealed now: an error   *)
(* of that save is only logged.                                             *)
LoadPlain ==
  /\ pc = "idle" /\ ~Sealed
  /\ live.json # None => Readable(live.json)
  /\ IF Answer # None /\ sealing
     THEN pc' = "seal" /\ job' = [file |-> live.json, why |-> "load"]
     ELSE UNCHANGED <<pc, job>>
  /\ UNCHANGED <<live, staging, past, uid, sealing, cache, made, answered>>

Loads == LoadCached \/ Unseal \/ LoadPlain
Load == enrol = "no" /\ Loads /\ UNCHANGED <<enrol, got>>
-------------------------------------------------------------------------------
(* open_for_enrolment. A set the credential tool refuses, or whose content   *)
(* does not parse, goes aside under another name and the enrolment starts    *)
(* afresh; a failure on the list of passing ones (the TPM busy, unreachable, *)
(* slow) keeps it and fails the enrolment, which changes nothing.            *)
MayReplace == sealing \/ ~Sealed

OpenSet == /\ enrol = "no" /\ made < Sets /\ MayReplace
           /\ Loads /\ enrol' = "open" /\ got' = Answer

(* The tool's failures are told apart by the words it prints, and words that *)
(* are not on the list count as its verdict: a set that is not unreadable    *)
(* may be judged so. Only a cached one is never judged.                      *)
Verdict == Sealed /\ ~Hit

SetAside ==
  /\ pc = "idle" /\ enrol = "no" /\ made < Sets /\ MayReplace /\ Verdict
  /\ Change([live EXCEPT !.cred = None, !.aside = @ \cup {live.cred.set}])
  /\ cache' = None /\ enrol' = "open" /\ got' = None /\ sealedOk' = FALSE
  /\ UNCHANGED <<staging, uid, sealing, pc, job, made, acked>>

(* A plaintext set that does not parse: nothing is sealed, so nothing goes  *)
(* aside and the load's error is the enrolment's.                           *)
OpenUnreadable ==
  /\ pc = "idle" /\ enrol = "no" /\ made < Sets /\ ~Sealed
  /\ live.json # None /\ ~Readable(live.json)
  /\ enrol' = "unreadable"
  /\ UNCHANGED <<live, staging, past, uid, sealing, cache, pc, job, got, made, answered>>

(* The walk-through saves more than once; poses.rs once. Neither begins for  *)
(* a name that is not in the password database.                             *)
EnrolSave ==
  /\ pc = "idle" /\ enrol = "open" /\ made < Sets /\ uid # NoUid
  /\ made' = made + 1 /\ pc' = "seal"
  /\ job' = [file |-> File(made + 1, IF got = None THEN uid ELSE got.uid, FALSE, TRUE),
             why |-> "enrol"]
  /\ UNCHANGED <<live, staging, past, uid, sealing, cache, enrol, got, answered>>

EnrolEnds == /\ pc = "idle" /\ enrol # "no" /\ enrol' = "no" /\ got' = None
             /\ UNCHANGED <<live, staging, past, uid, sealing, cache, pc, job, made, answered>>

(* delete: the staging files and the sealed file, then the rest. Nothing is *)
(* synced.                                                                  *)
Delete ==
  /\ pc = "idle" /\ enrol = "no" /\ pc' = "deleting"
  /\ staging' = "none"
  /\ Change([live EXCEPT !.cred = None])
  /\ acked' = 0 /\ sealedOk' = FALSE
  /\ UNCHANGED <<uid, sealing, cache, job, caller, got>>

DeleteRest ==
  /\ pc = "deleting" /\ pc' = "idle"
  /\ \/ Change([live EXCEPT !.json = None, !.aside = {}]) /\ cache' = None
     \/ NoChange /\ UNCHANGED cache
  /\ UNCHANGED <<staging, uid, sealing, job, caller, got, answered>>
-------------------------------------------------------------------------------
(* The machine. The daemon dies between any two steps and starts again with *)
(* its own probe of the TPM; its staging files are then another process's.  *)
Start == /\ sealing' \in BOOLEAN /\ cache' = None /\ pc' = "idle" /\ enrol' = "no"
         /\ got' = None /\ job' = NoJob
         /\ staging' = IF staging = "mine" THEN "stale" ELSE staging
         /\ UNCHANGED <<uid, made, answered>>

Restart == NoChange /\ Start
PowerCut == live' \in past /\ past' = {live'} /\ Start

(* The account is deleted, and its name given to another or to nobody.      *)
Machine ==
  /\ uid' \in (Uids \cup {NoUid}) \ {uid} /\ pc = "idle" /\ enrol = "no"
  /\ UNCHANGED <<live, staging, past, sealing, cache, pc, job, caller, got, answered>>

Saving == Save \/ Stage \/ Rename \/ StageFails \/ RemovePlain \/ Sync \/ LateFailure
Calls == Load \/ OpenSet \/ SetAside \/ OpenUnreadable \/ EnrolSave \/ EnrolEnds
         \/ Delete \/ DeleteRest

Next == Saving \/ Calls \/ Restart \/ PowerCut \/ Machine
Spec == Init /\ [][Next]_vars
-------------------------------------------------------------------------------
TypeOK ==
  /\ live \in Directories /\ past \subseteq Directories
  /\ uid \in Uids \cup {NoUid} /\ sealing \in BOOLEAN
  /\ cache \in Files \cup {None} /\ pc \in Places /\ job \in Jobs \cup {NoJob}
  /\ staging \in {"none", "mine", "stale"}
  /\ enrol \in {"no", "open", "unreadable"} /\ got \in Files \cup {None}
  /\ made \in 0..Sets /\ acked \in 0..Sets /\ sealedOk \in BOOLEAN

(* The sets a directory still has, served or set aside.                     *)
Held(d) == d.aside \cup (IF Serving(d) = None THEN {} ELSE {Serving(d).set})

(* A save that returned Ok survives whatever comes next, a power cut        *)
(* included: every directory one can leave serves that set or a newer one,  *)
(* until it is deleted. Where an enrolment took it for unreadable, rightly  *)
(* or not, it is still there under another name until a newer one is.       *)
AckedSurvives == acked # 0 => \A d \in past : \E n \in Held(d) : n >= acked

(* Sealing is sticky: once a sealed save has returned Ok, and until the set *)
(* is deleted or set aside, a sealed file is on disk and no plaintext file  *)
(* of any age is beside it, a power cut included.                           *)
SealingSticks == sealedOk => \A d \in past : d.cred # None /\ d.json = None
=============================================================================
