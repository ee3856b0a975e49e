------------------------- MODULE TemplateStore_proofs -------------------------
(***************************************************************************)
(* What TemplateStore promises of a set on disk, for any number of saves,   *)
(* and of accounts that have had the name.                                  *)
(***************************************************************************)
EXTENDS TemplateStore, TLAPS

(* The places of a save under way.                                          *)
Midway == {"seal", "staged", "renamed", "sync"}

(* A directory has the newest set acknowledged, or a newer one, and none    *)
(* that is older under the names that are served.                           *)
HasAcked(d) ==
  acked # 0 => /\ \E n \in Held(d) : n >= acked
               /\ d.cred # None => d.cred.set >= acked
               /\ d.json # None => d.json.set >= acked

(* What every directory a power cut can leave must be.                      *)
Sound(d) ==
  /\ d \in Directories /\ HasAcked(d)
  /\ sealedOk => d.cred # None /\ d.json = None

PastInv == live \in past /\ \A d \in past : Sound(d)

(* The set being saved is no older than the newest one acknowledged.        *)
JobInv ==
  /\ acked <= made
  /\ pc \in Midway => /\ job \in Jobs /\ job.file.set >= acked
                      /\ job.why = "enrol" => job.file.set = made

(* Where a save stands, as the directory shows it. Plaintext is written     *)
(* only where nothing is sealed, so once it is there it is what is served.  *)
SaveInv ==
  /\ pc = "staged" /\ ~ToTpm => ~Sealed
  /\ pc \in {"renamed", "sync"} => Serving(live) = job.file /\ (ToTpm <=> Sealed)
  /\ pc = "sync" /\ ToTpm => live.json = None

(* A delete begins by forgetting what was promised.                         *)
DeleteInv == pc = "deleting" => acked = 0 /\ ~sealedOk

(* The type of everything but the directories.                              *)
Typed ==
  /\ uid \in Uids \cup {NoUid} /\ sealing \in BOOLEAN
  /\ cache \in Files \cup {None} /\ pc \in Places /\ job \in Jobs \cup {NoJob}
  /\ staging \in {"none", "mine", "stale"}
  /\ enrol \in {"no", "open", "unreadable"} /\ got \in Files \cup {None}
  /\ made \in 0..Sets /\ acked \in 0..Sets /\ sealedOk \in BOOLEAN

IInv == Typed /\ PastInv /\ JobInv /\ SaveInv /\ DeleteInv

(* The invariant gives the properties.                                    *)
LEMMA IInvImplies == IInv => TypeOK /\ AckedSurvives /\ SealingSticks
BY DEF IInv, Typed, PastInv, Sound, HasAcked, TypeOK, AckedSurvives, SealingSticks
-------------------------------------------------------------------------------
(* No set is not a file.                                                    *)
LEMMA NoneIsNoFile == None \notin Files
<1>. SUFFICES ASSUME None \in Files PROVE FALSE OBVIOUS
<1>1. DOMAIN None = {"set"} BY DEF None
<1>2. DOMAIN None = {"set", "uid", "sealed", "parses"} BY DEF Files
<1>. QED BY <1>1, <1>2

(* What the two names of a directory may hold.                              *)
LEMMA DirectoryType ==
  ASSUME NEW d \in Directories
  PROVE  /\ d.cred \in Files \cup {None} /\ (d.cred # None => d.cred.sealed)
         /\ d.json \in Files \cup {None} /\ (d.json # None => ~d.json.sealed)
         /\ d.aside \subseteq 0..Sets
BY DEF Directories

(* A directory with a file of either kind put in it, or none, is one.     *)
LEMMA MakeDirectory ==
  ASSUME NEW d \in Directories, NEW c, NEW j, NEW a \in SUBSET (0..Sets),
         c = None \/ (c \in Files /\ c.sealed),
         j = None \/ (j \in Files /\ ~j.sealed)
  PROVE  /\ [d EXCEPT !.cred = c] \in Directories
         /\ [d EXCEPT !.json = j] \in Directories
         /\ [d EXCEPT !.cred = c, !.aside = a] \in Directories
         /\ [d EXCEPT !.json = j, !.aside = a] \in Directories
BY DEF Directories

(* What a file's fields are.                                              *)
LEMMA FileTypes ==
  ASSUME NEW f \in Files
  PROVE  f.set \in 0..Sets /\ f.uid \in Uids /\ f.sealed \in BOOLEAN /\ f.parses \in BOOLEAN
BY DEF Files

(* A file a save makes.                                                     *)
LEMMA MakeFile ==
  ASSUME NEW n \in 0..Sets, NEW o \in Uids, NEW k \in BOOLEAN, NEW p \in BOOLEAN
  PROVE  /\ File(n, o, k, p) \in Files /\ File(n, o, k, p).set = n
         /\ File(n, o, k, p).sealed = k
BY DEF File, Files
-------------------------------------------------------------------------------
(* A store found at the start.                                            *)
LEMMA InitIInv == Init => IInv
<1>. SUFFICES ASSUME Init PROVE IInv OBVIOUS
<1>. PICK owner \in Uids :
       /\ uid = owner
       /\ \E f \in LeftBehind(owner) :
            live = [cred |-> IF f # None /\ f.sealed THEN f ELSE None,
                    json |-> IF f # None /\ ~f.sealed THEN f ELSE None,
                    aside |-> {}]
  BY DEF Init
<1>1. PICK f \in LeftBehind(owner) :
        live = [cred |-> IF f # None /\ f.sealed THEN f ELSE None,
                json |-> IF f # None /\ ~f.sealed THEN f ELSE None,
                aside |-> {}]
  OBVIOUS
<1>2. f = None \/ f \in Files
  BY DEF LeftBehind
<1>3. live \in Directories BY <1>1, <1>2 DEF Directories
<1>4. Typed
  <2>1. 0 \in 0..Sets BY StoreAssumption DEF StoreAssumption
  <2>. QED BY <2>1 DEF Init, Typed, Places
<1>. QED BY <1>3, <1>4 DEF Init, IInv, PastInv, Sound, HasAcked, JobInv, SaveInv, DeleteInv, Midway

(* A change keeps the directories sound if the new one is, and no answer is *)
(* given or taken back.                                                     *)
LEMMA ChangeKeeps ==
  ASSUME PastInv, UNCHANGED answered, NEW d, Change(d), Sound(d)
  PROVE  PastInv'
BY DEF PastInv, Change, Sound, HasAcked, Held, Serving, answered

(* A step that changes no file and no job.                                *)
LEMMA NoChangeKeeps == ASSUME PastInv, NoChange, UNCHANGED answered PROVE PastInv'
BY DEF PastInv, NoChange, Sound, HasAcked, Held, Serving, answered

(* Where sealing is no longer promised, it has a set and its type to keep.  *)
LEMMA UnsealedKeeps ==
  ASSUME PastInv, UNCHANGED acked, sealedOk' = FALSE, NEW d \in Directories, Change(d),
         HasAcked(d)
  PROVE  PastInv'
BY DEF PastInv, Change, Sound, HasAcked, Held, Serving

(* Where nothing is promised, a directory has only its type to keep.        *)
LEMMA ForgottenKeeps ==
  ASSUME PastInv, NEW d \in Directories, Change(d), acked' = 0, sealedOk' = FALSE
  PROVE  PastInv'
BY DEF PastInv, Change, Sound, HasAcked

(* A step uid a save, which leaves the directories and the answers be.  *)
LEMMA CallKeeps ==
  ASSUME IInv, Typed', NoChange, UNCHANGED answered, made' >= made,
         pc' \notin Midway, pc' = "deleting" => pc = "deleting"
  PROVE  IInv'
<1>1. PastInv' BY NoChangeKeeps DEF IInv
<1>2. JobInv'
  <2>1. acked' <= made' BY DEF IInv, Typed, Typed, JobInv, answered
  <2>. QED BY <2>1 DEF JobInv
<1>3. SaveInv' BY DEF SaveInv, Midway
<1>4. DeleteInv' BY DEF IInv, DeleteInv, answered
<1>. QED BY <1>1, <1>2, <1>3, <1>4 DEF IInv
-------------------------------------------------------------------------------
(* The steps of a save.                                                     *)
LEMMA SaveStepInv == ASSUME IInv, Save PROVE IInv'
<1>1. pc = "seal" /\ job \in Jobs /\ job.file \in Files /\ job.why \in {"enrol", "load"}
  BY DEF Save, IInv, Typed, JobInv, Midway, Jobs
<1>2. CASE SaveRefused
  <2>1. Typed' BY <1>2 DEF IInv, Typed, SaveRefused, Sweep, caller, answered, Places
  <2>. QED BY <1>2, <2>1, CallKeeps DEF SaveRefused, NoChange, caller, Midway, IInv, Typed
<1>3. CASE SaveFails
  <2>1. Typed' BY <1>3 DEF IInv, Typed, SaveFails, caller, answered, Places
  <2>. QED BY <1>3, <2>1, CallKeeps DEF SaveFails, NoChange, caller, Midway, IInv, Typed
<1>4. CASE SaveBegins
  <2>. PICK again \in IF Sealed /\ ~sealing THEN {TRUE} ELSE {sealing} :
         /\ sealing' = again
         /\ job' = [job EXCEPT !.file.sealed = again]
    BY <1>4 DEF SaveBegins
  <2>1. again \in BOOLEAN /\ (~again => ~Sealed) BY DEF IInv, Typed
  <2>4. /\ job' \in Jobs /\ job'.file.sealed = again
        /\ job'.file.set = job.file.set /\ job'.why = job.why
    BY <1>1, <2>1 DEF Jobs, Files
  <2>5. Typed'
    BY <1>4, <2>1, <2>4 DEF IInv, Typed, SaveBegins, Sweep, caller, answered, Places
  <2>6. PastInv' BY <1>4, NoChangeKeeps DEF IInv, SaveBegins, NoChange
  <2>7. JobInv' BY <1>1, <1>4, <2>4 DEF IInv, JobInv, SaveBegins, caller, answered, Midway
  <2>8. SaveInv' BY <1>4, <2>1, <2>4 DEF SaveInv, SaveBegins, ToTpm, Sealed
  <2>9. DeleteInv' BY <1>4 DEF DeleteInv, SaveBegins
  <2>. QED BY <2>5, <2>6, <2>7, <2>8, <2>9 DEF IInv
<1>. QED BY <1>2, <1>3, <1>4 DEF Save

(* A file is staged beside the one in force.                              *)
LEMMA StageInv == ASSUME IInv, Stage \/ StageFails PROVE IInv'
<1>1. CASE Stage
  <2>1. Typed' BY <1>1 DEF IInv, Typed, Stage, caller, answered
  <2>2. PastInv' BY <1>1, NoChangeKeeps DEF IInv, Stage, NoChange
  <2>3. JobInv' BY <1>1 DEF IInv, JobInv, Stage, caller, answered
  <2>4. SaveInv' BY <1>1 DEF IInv, SaveInv, Stage, ToTpm, Sealed
  <2>5. DeleteInv' BY <1>1 DEF IInv, DeleteInv, Stage, answered
  <2>. QED BY <2>1, <2>2, <2>3, <2>4, <2>5 DEF IInv
<1>2. CASE StageFails
  <2>1. SaveFails BY <1>2 DEF StageFails
  <2>2. Typed' BY <2>1 DEF IInv, Typed, SaveFails, caller, answered, Places
  <2>. QED BY <2>1, <2>2, CallKeeps DEF SaveFails, NoChange, caller, Midway, IInv, Typed
<1>. QED BY <1>1, <1>2

(* The rename brings in a set no older than the one acknowledged, under the *)
(* name that is served from then on.                                        *)
LEMMA RenameInv == ASSUME IInv, Rename PROVE IInv'
<1>. DEFINE d == [live EXCEPT !.cred = IF ToTpm THEN job.file ELSE @,
                              !.json = IF ToTpm THEN @ ELSE job.file]
<1>1. /\ pc = "staged" /\ pc' = "renamed" /\ staging' = "none" /\ Change(d)
      /\ UNCHANGED <<uid, sealing, cache, job, caller, got, answered>>
  BY DEF Rename
<1>2. job \in Jobs /\ job.file \in Files /\ job.file.set >= acked
  BY <1>1 DEF IInv, JobInv, Midway, Jobs
<1>3. live \in Directories /\ Sound(live) BY DEF IInv, PastInv, Sound, HasAcked
<1>4. job.file # None BY <1>2, NoneIsNoFile
<1>5. CASE ToTpm
  <2>1. d = [live EXCEPT !.cred = job.file] BY <1>3, <1>5 DEF Directories
  <2>2. d \in Directories BY <1>2, <1>3, <1>5, <2>1, MakeDirectory DEF ToTpm
  <2>3. d.cred = job.file /\ d.json = live.json BY <1>3, <2>1 DEF Directories
  <2>. HIDE DEF d
  <2>4. Sound(d) BY <1>2, <1>3, <1>4, <2>2, <2>3 DEF Sound, HasAcked, Serving, Held
  <2>5. Serving(d) = job.file /\ d.cred # None BY <1>4, <2>3 DEF Serving
  <2>. QED BY <1>1, <1>5, <2>4, <2>5, ChangeKeeps
       DEF IInv, Typed, Places, JobInv, SaveInv, DeleteInv, Midway, Change, ToTpm, Sealed,
           caller, answered
<1>6. CASE ~ToTpm
  <2>1. d = [live EXCEPT !.json = job.file] BY <1>3, <1>6 DEF Directories
  <2>2. live.cred = None BY <1>1, <1>6 DEF IInv, SaveInv, Sealed
  <2>3. d \in Directories BY <1>2, <1>3, <1>6, <2>1, MakeDirectory DEF ToTpm
  <2>4. d.json = job.file /\ d.cred = None BY <1>3, <2>1, <2>2 DEF Directories
  <2>. HIDE DEF d
  <2>5. ~sealedOk BY <1>3, <2>2 DEF Sound, HasAcked
  <2>6. Sound(d) BY <1>2, <1>3, <1>4, <2>3, <2>4, <2>5 DEF Sound, HasAcked, Serving, Held
  <2>7. Serving(d) = job.file /\ d.cred = None BY <1>4, <2>4 DEF Serving
  <2>. QED BY <1>1, <1>6, <2>6, <2>7, ChangeKeeps
       DEF IInv, Typed, Places, JobInv, SaveInv, DeleteInv, Midway, Change, ToTpm, Sealed,
           caller, answered
<1>. QED BY <1>5, <1>6

(* The plain file goes once the sealed one is in place.                   *)
LEMMA RemovePlainInv == ASSUME IInv, RemovePlain PROVE IInv'
<1>. DEFINE d == [live EXCEPT !.json = None]
<1>1. /\ pc = "renamed" /\ pc' = "sync"
      /\ IF ToTpm THEN Change(d) ELSE NoChange
      /\ UNCHANGED <<staging, uid, sealing, cache, job, caller, got, answered>>
  BY DEF RemovePlain
<1>2. live \in Directories /\ Sound(live) BY DEF IInv, PastInv, Sound, HasAcked
<1>3. Serving(live) = job.file /\ (ToTpm <=> Sealed) BY <1>1 DEF IInv, SaveInv
<1>4. CASE ToTpm
  <2>1. d \in Directories BY <1>2, MakeDirectory
  <2>2. d.cred = live.cred /\ d.json = None BY <1>2 DEF Directories
  <2>. HIDE DEF d
  <2>3. Sound(d) /\ Serving(d) = job.file /\ d.cred # None
    BY <1>2, <1>3, <1>4, <2>1, <2>2 DEF Sound, HasAcked, Serving, Sealed, Held
  <2>. QED BY <1>1, <1>4, <2>2, <2>3, ChangeKeeps
       DEF IInv, Typed, Places, JobInv, SaveInv, DeleteInv, Midway, Change, ToTpm, Sealed,
           caller, answered
<1>5. CASE ~ToTpm
  BY <1>1, <1>3, <1>5, NoChangeKeeps
  DEF IInv, Typed, Places, JobInv, SaveInv, DeleteInv, Midway, NoChange, ToTpm, Sealed,
      caller, answered
<1>. QED BY <1>4, <1>5

(* The sync is what is acknowledged: the one directory it leaves serves the *)
(* set of the save, and has no plaintext beside a sealed one.               *)
LEMMA SyncInv == ASSUME IInv, Sync PROVE IInv'
<1>1. /\ pc = "sync" /\ past' = {live} /\ pc' = "idle" /\ job' = NoJob
      /\ cache' = IF ToTpm THEN job.file ELSE None
      /\ acked' = IF job.why = "enrol" THEN job.file.set ELSE acked
      /\ sealedOk' = (sealedOk \/ ToTpm)
      /\ UNCHANGED <<live, staging, uid, sealing, caller, got>>
  BY DEF Sync
<1>2. job \in Jobs /\ job.file \in Files /\ job.file.set >= acked
      /\ (job.why = "enrol" => job.file.set = made) /\ acked <= made
  BY <1>1 DEF IInv, JobInv, Midway, Jobs
<1>3. Sound(live) /\ live \in Directories BY DEF IInv, PastInv, Sound, HasAcked
<1>4. /\ Serving(live) = job.file /\ (ToTpm => live.cred # None /\ live.json = None)
      /\ ~ToTpm => live.cred = None
  BY <1>1 DEF IInv, SaveInv, Sealed
<1>5. job.file # None /\ job.file.set \in 0..Sets BY <1>2, NoneIsNoFile, FileTypes
<1>6. acked' <= job.file.set /\ acked' \in 0..Sets /\ acked' <= made
  BY <1>1, <1>2, <1>5 DEF IInv, Typed
<1>7. sealedOk' \in BOOLEAN BY <1>1 DEF IInv, Typed, ToTpm
<1>8. Typed'
  BY <1>1, <1>2, <1>6, <1>7 DEF IInv, Typed, caller, Places, NoJob
<1>9. PastInv'
  <2>1. sealedOk' => live.cred # None /\ live.json = None BY <1>1, <1>3, <1>4 DEF Sound, HasAcked
  <2>2. HasAcked(live)'
    BY <1>1, <1>4, <1>5, <1>6 DEF Serving, Held, HasAcked
  <2>3. live' = live BY <1>1
  <2>4. Sound(live)' BY <1>3, <2>1, <2>2, <2>3 DEF Sound, HasAcked, Held, Serving
  <2>. QED BY <1>1, <2>3, <2>4 DEF PastInv
<1>. QED BY <1>1, <1>6, <1>8, <1>9 DEF IInv, JobInv, SaveInv, DeleteInv, Midway, caller

(* A failure once the new file is in place ends the save.                 *)
LEMMA LateFailureInv == ASSUME IInv, LateFailure PROVE IInv'
<1>1. Typed' BY DEF IInv, Typed, LateFailure, caller, answered, Places
<1>. QED BY <1>1, CallKeeps DEF LateFailure, NoChange, caller, Midway, IInv, Typed
-------------------------------------------------------------------------------
(* The loads. What one answers is nothing or the set on disk.               *)
LEMMA AnswerIs == Answer \in {None, Serving(live)}
BY DEF Answer, Owned

(* A load, of an enrolment or not; one of a plain set may begin to seal it.  *)
LEMMA LoadsInv ==
  ASSUME IInv, Loads, enrol' \in {enrol, "open"}, got' \in {got, Answer}
  PROVE  IInv'
<1>1. /\ live.cred \in Files \cup {None} /\ live.json \in Files \cup {None}
      /\ Sound(live) /\ pc = "idle"
  BY DirectoryType DEF IInv, PastInv, Sound, HasAcked, Loads, LoadCached, Unseal, LoadPlain
<1>2. got' \in Files \cup {None} BY <1>1, AnswerIs DEF Serving, IInv, Typed
<1>3. cache' \in Files \cup {None}
  BY <1>1 DEF Loads, LoadCached, Unseal, LoadPlain, Keep, IInv, Typed
<1>4. /\ UNCHANGED <<live, staging, past, uid, sealing, made, answered>>
  BY DEF Loads, LoadCached, Unseal, LoadPlain
<1>5. CASE UNCHANGED <<pc, job>>
  <2>1. Typed' BY <1>2, <1>3, <1>4, <1>5 DEF IInv, Typed, answered
  <2>. QED BY <1>1, <1>4, <1>5, <2>1, CallKeeps DEF NoChange, Midway, IInv, Typed
<1>6. CASE ~UNCHANGED <<pc, job>>
  <2>1. /\ live.cred = None /\ pc' = "seal" /\ job' = [file |-> live.json, why |-> "load"]
        /\ Answer # None
    BY <1>6 DEF Loads, LoadCached, Unseal, LoadPlain, Sealed
  <2>2. live.json \in Files BY <1>1, <2>1 DEF Answer, Serving
  <2>3. job' \in Jobs /\ job'.file = live.json /\ job'.why = "load" BY <2>1, <2>2 DEF Jobs
  <2>4. live.json.set \in 0..Sets /\ acked \in 0..Sets BY <2>2, FileTypes DEF IInv, Typed
  <2>5. live.json.set >= acked BY <1>1, <2>2, <2>4, NoneIsNoFile DEF Sound, HasAcked
  <2>6. Typed' BY <1>2, <1>3, <1>4, <2>1, <2>3 DEF IInv, Typed, answered, Places
  <2>7. PastInv' BY <1>4, NoChangeKeeps DEF IInv, NoChange
  <2>8. JobInv' BY <1>4, <2>3, <2>5 DEF IInv, JobInv, answered
  <2>. QED BY <2>1, <2>6, <2>7, <2>8 DEF IInv, SaveInv, DeleteInv
<1>. QED BY <1>5, <1>6

(* The steps of an enrolment and of a delete.                               *)
LEMMA SetAsideInv == ASSUME IInv, SetAside PROVE IInv'
<1>. DEFINE a == live.aside \cup {live.cred.set}
            d == [live EXCEPT !.cred = None, !.aside = @ \cup {live.cred.set}]
<1>1. /\ Change(d) /\ sealedOk' = FALSE /\ pc = "idle" /\ live.cred # None
      /\ cache' = None /\ enrol' = "open" /\ got' = None
      /\ UNCHANGED <<staging, uid, sealing, pc, job, made, acked>>
  BY DEF SetAside, Verdict, Sealed
<1>2. live \in Directories /\ Sound(live) BY DEF IInv, PastInv, Sound, HasAcked
<1>3. live.cred \in Files /\ live.cred.set \in 0..Sets
  BY <1>1, <1>2, DirectoryType, FileTypes
<1>4. a \in SUBSET (0..Sets) BY <1>2, <1>3, DirectoryType
<1>5. d = [live EXCEPT !.cred = None, !.aside = a] BY <1>2 DEF Directories
<1>6. d \in Directories BY <1>2, <1>4, <1>5, MakeDirectory
<1>7. d.cred = None /\ d.json = live.json /\ live.cred.set \in d.aside
  BY <1>2, <1>5 DEF Directories
<1>8. HasAcked(d)
  BY <1>1, <1>2, <1>6, <1>7 DEF Sound, HasAcked, Held
<1>. HIDE DEF d
<1>9. PastInv /\ UNCHANGED acked /\ sealedOk' = FALSE /\ Change(d) BY <1>1 DEF IInv
<1>10. PastInv' BY <1>6, <1>8, <1>9, UnsealedKeeps
<1>11. Typed' BY <1>1 DEF IInv, Typed
<1>. QED BY <1>1, <1>10, <1>11 DEF IInv, JobInv, SaveInv, DeleteInv, Midway

(* An enrolment's save, acknowledged when it is in force.                 *)
LEMMA EnrolSaveInv == ASSUME IInv, EnrolSave PROVE IInv'
<1>. DEFINE owner == IF got = None THEN uid ELSE got.uid
            f == File(made + 1, owner, FALSE, TRUE)
<1>1. /\ pc = "idle" /\ made < Sets /\ uid # NoUid /\ made' = made + 1 /\ pc' = "seal"
      /\ job' = [file |-> f, why |-> "enrol"]
      /\ UNCHANGED <<live, staging, past, uid, sealing, cache, enrol, got, answered>>
  BY DEF EnrolSave
<1>2. owner \in Uids BY <1>1, FileTypes DEF IInv, Typed
<1>3. made + 1 \in 0..Sets /\ acked <= made + 1
  BY <1>1, StoreAssumption DEF IInv, Typed, JobInv, StoreAssumption
<1>. HIDE DEF owner
<1>4. f \in Files /\ f.set = made + 1 BY <1>2, <1>3, MakeFile
<1>. HIDE DEF f
<1>5. job' \in Jobs /\ job'.file = f /\ job'.why = "enrol" BY <1>1, <1>4 DEF Jobs
<1>6. Typed' BY <1>1, <1>3, <1>5 DEF IInv, Typed, answered, Places
<1>7. PastInv' BY <1>1, NoChangeKeeps DEF IInv, NoChange
<1>8. JobInv' BY <1>1, <1>3, <1>4, <1>5 DEF JobInv, answered, IInv, Typed
<1>. QED BY <1>1, <1>6, <1>7, <1>8 DEF IInv, SaveInv, DeleteInv

(* A deletion takes the sealed file and what was promised of it,          *)
LEMMA DeleteInvKept == ASSUME IInv, Delete PROVE IInv'
<1>. DEFINE d == [live EXCEPT !.cred = None]
<1>1. d \in Directories BY MakeDirectory DEF IInv, PastInv, Sound, HasAcked
<1>2. /\ Change(d) /\ acked' = 0 /\ sealedOk' = FALSE /\ pc' = "deleting" /\ staging' = "none"
      /\ UNCHANGED <<uid, sealing, cache, job, enrol, made, got>>
  BY DEF Delete, caller
<1>3. Typed'
  <2>1. 0 \in 0..Sets BY StoreAssumption DEF StoreAssumption
  <2>. QED BY <1>2, <2>1 DEF IInv, Typed, Places
<1>. HIDE DEF d
<1>4. PastInv' BY <1>1, <1>2, ForgottenKeeps DEF IInv
<1>. QED BY <1>2, <1>3, <1>4 DEF IInv, Typed, JobInv, SaveInv, DeleteInv, Midway

(* and then the rest.                                                     *)
LEMMA DeleteRestInv == ASSUME IInv, DeleteRest PROVE IInv'
<1>1. acked = 0 /\ ~sealedOk /\ pc' = "idle" /\ UNCHANGED <<caller, answered>>
  BY DEF IInv, DeleteInv, DeleteRest
<1>2. Typed' BY DEF IInv, Typed, DeleteRest, caller, answered, Places
<1>3. CASE NoChange BY <1>1, <1>2, <1>3, CallKeeps DEF caller, Midway, IInv, Typed
<1>4. CASE ~NoChange
  <2>. DEFINE d == [live EXCEPT !.json = None, !.aside = {}]
  <2>1. d \in Directories BY MakeDirectory DEF IInv, PastInv, Sound, HasAcked
  <2>2. Change(d) BY <1>4 DEF DeleteRest
  <2>. HIDE DEF d
  <2>3. acked' = 0 /\ sealedOk' = FALSE BY <1>1 DEF answered, IInv, Typed
  <2>4. PastInv' BY <2>1, <2>2, <2>3, ForgottenKeeps DEF IInv
  <2>. QED BY <1>1, <1>2, <2>3, <2>4 DEF IInv, Typed, JobInv, SaveInv, DeleteInv, Midway, caller
<1>. QED BY <1>3, <1>4

(* Every step of a call.                                                  *)
LEMMA CallInv == ASSUME IInv, Calls PROVE IInv'
<1>1. CASE Load \/ OpenSet BY <1>1, LoadsInv DEF Load, OpenSet
<1>2. CASE OpenUnreadable \/ EnrolEnds
  <2>1. Typed' BY <1>2 DEF IInv, Typed, OpenUnreadable, EnrolEnds, answered
  <2>. QED BY <1>2, <2>1, CallKeeps
       DEF OpenUnreadable, EnrolEnds, NoChange, Midway, IInv, Typed
<1>. QED
  BY <1>1, <1>2, SetAsideInv, EnrolSaveInv, DeleteInvKept, DeleteRestInv DEF Calls
-------------------------------------------------------------------------------
(* The machine: a restart keeps what is on disk, a power cut one of the     *)
(* directories it can leave.                                                *)
LEMMA StartTyped == ASSUME IInv, Start PROVE Typed'
BY DEF IInv, Typed, Start, answered, Places

(* A restart, a power cut, a change of the TPM or of the account's uid.   *)
LEMMA MachineInv == ASSUME IInv, Restart \/ PowerCut \/ Machine PROVE IInv'
<1>1. CASE Restart
  BY <1>1, StartTyped, CallKeeps DEF Restart, Start, Midway, IInv, Typed
<1>2. CASE PowerCut
  <2>1. Start /\ live' \in past /\ past' = {live'} BY <1>2 DEF PowerCut
  <2>2. pc' = "idle" /\ UNCHANGED <<made, acked, sealedOk>> BY <2>1 DEF Start, answered
  <2>3. PastInv' BY <2>1, <2>2 DEF IInv, PastInv, Sound, HasAcked, Held, Serving
  <2>. QED BY <2>1, <2>2, <2>3, StartTyped DEF IInv, JobInv, SaveInv, DeleteInv, Midway
<1>3. CASE Machine
  <2>1. uid' \in Uids \cup {NoUid}
    BY <1>3 DEF Machine
  <2>2. Typed' BY <1>3, <2>1 DEF IInv, Typed, Machine, caller, answered
  <2>. QED BY <1>3, <2>2, CallKeeps DEF Machine, NoChange, caller, Midway, IInv, Typed
<1>. QED BY <1>1, <1>2, <1>3

(* Every step.                                                            *)
LEMMA StepIInv == IInv /\ [Next]_vars => IInv'
<1>. SUFFICES ASSUME IInv, [Next]_vars PROVE IInv' OBVIOUS
<1>1. CASE Saving
  BY <1>1, SaveStepInv, StageInv, RenameInv, RemovePlainInv, SyncInv, LateFailureInv DEF Saving
<1>2. CASE Calls BY <1>2, CallInv
<1>3. CASE Restart \/ PowerCut \/ Machine BY <1>3, MachineInv
<1>4. CASE UNCHANGED vars
  <2>1. Typed' /\ PastInv' BY <1>4 DEF vars, IInv, Typed, PastInv, Sound, HasAcked, Held, Serving
  <2>2. JobInv' /\ SaveInv' /\ DeleteInv'
    BY <1>4 DEF vars, IInv, JobInv, SaveInv, DeleteInv, ToTpm, Sealed
  <2>. QED BY <2>1, <2>2 DEF IInv
<1>. QED BY <1>1, <1>2, <1>3, <1>4 DEF Next

(* So the invariant holds throughout.                                     *)
LEMMA Invariance == Spec => []IInv
BY InitIInv, StepIInv, PTL DEF Spec
-------------------------------------------------------------------------------
(* Every reachable store is well typed.                                     *)
THEOREM StoreTypeCorrect == Spec => []TypeOK
BY Invariance, IInvImplies, PTL

(* However saves, loads, deletes and enrolments follow one another, and     *)
(* wherever a failure, a crash or a power cut falls between two file        *)
(* operations of Store::save, a set whose save returned Ok is served, or a  *)
(* newer one is, until it is deleted; and one that open_for_enrolment set   *)
(* aside is still there under its other name until a newer one is.          *)
THEOREM AckedSetSurvives == Spec => []AckedSurvives
BY Invariance, IInvImplies, PTL

(* Once a sealed save has returned Ok there is no plaintext beside a sealed *)
(* file, in any directory a power cut can leave (save, and the seal of a    *)
(* plaintext set at its load).                                              *)
THEOREM SealedStaysSealed == Spec => []SealingSticks
BY Invariance, IInvImplies, PTL
===============================================================================
