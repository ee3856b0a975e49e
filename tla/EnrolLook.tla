------------------------------ MODULE EnrolLook ------------------------------
(***************************************************************************)
(* One round of the command-line enrolment: which frames of a camera run   *)
(* become templates, and what is stored.                                   *)
(*                                                                         *)
(* A frame shows a face with its turn and pitch in hundredths and whether  *)
(* a template could be made of it, or nobody, or did not come in the two   *)
(* seconds it is waited for, which is the longest spacing. The clock       *)
(* counts frames; the camera's run ends with the sequence of frames.       *)
(***************************************************************************)
EXTENDS Integers, Sequences, SequencesExt

Poses == {"centre", "left", "right", "up", "down"}
Face(yaw, pitch, embedded) ==
  [kind |-> "face", yaw |-> yaw, pitch |-> pitch, embedded |-> embedded]
None == [kind |-> "none"]
Nobody == [kind |-> "nobody"]
NoPitch == -1

LevelDefault == 53
UpBelowLevel == 2
DownAboveLevel == 8
Abs(v) == IF v < 0 THEN -v ELSE v

\* A person's level: the mean pitch of their centre looks, else of any look.
\* A template is [centre, pitch], or has no pitch on record.
Mean(pitches) == FoldLeft(LAMBDA a, b : a + b, 0, pitches) \div Len(pitches)
LevelOf(templates) ==
  LET read(s)  == SelectSeq(s, LAMBDA t : t.pitch # NoPitch)
      pitch(s) == [i \in DOMAIN s |-> s[i].pitch]
      centre   == SelectSeq(read(templates), LAMBDA t : t.centre)
      pick     == IF centre # <<>> THEN centre ELSE read(templates)
  IN IF pick = <<>> THEN LevelDefault ELSE Mean(pitch(pick))

PoseBinAccepts(pose, face, level) ==
  CASE pose = "centre" -> Abs(face.yaw) <= 12 /\ Abs(face.pitch - level) <= 6
    [] pose = "left" -> face.yaw \in -60 .. -18
    [] pose = "right" -> face.yaw \in 18 .. 60
    [] pose = "up" -> face.pitch <= level - UpBelowLevel /\ Abs(face.yaw) <= 20
    [] pose = "down" -> face.pitch >= level + DownAboveLevel /\ Abs(face.yaw) <= 20
    [] OTHER -> FALSE

AnyPose == "any"       \* no pose was asked for
Begun == [frames |-> 0, seen |-> 0, last |-> -100, taken |-> <<>>, at |-> 0]

\* Only every third delivered frame is looked at; the first three faces are for
\* the metering; then one frame a spacing, if it is in the pose.
Frame(run, f, count, spacing, pose, level) ==
  LET given == [run EXCEPT !.at = @ + 1, !.frames = @ + 1]
      met   == [given EXCEPT !.seen = @ + 1]
      kept  == [met EXCEPT !.last = run.at,
                           !.taken = IF f.embedded THEN Append(@, [face |-> f, at |-> run.at]) ELSE @]
  IN IF Len(run.taken) >= count THEN run
     ELSE IF f.kind = "none" THEN [run EXCEPT !.at = @ + spacing]
     ELSE IF given.frames % 3 # 0 \/ f.kind = "nobody" THEN given
     ELSE IF \/ met.seen <= 3
             \/ run.at - run.last < spacing
             \/ pose # AnyPose /\ ~PoseBinAccepts(pose, f, level)
     THEN met ELSE kept

Samples(frames, count, spacing, pose, level) ==
  FoldLeft(LAMBDA run, f : Frame(run, f, count, spacing, pose, level), Begun, frames).taken

\* The set to save, before it is pruned to the cap, or the error that leaves
\* what is stored as it was. It opens if the user is known, and the stored set
\* could be read and is for this recognition model.
RunEnroll(stored, opens, frames, count, spacing, pose) ==
  LET wanted  == IF count < 3 THEN 3 ELSE IF count > 40 THEN 40 ELSE count
      samples == Samples(frames, wanted, spacing, pose, LevelOf(stored))
      look(i) == [centre |-> pose = "centre", pitch |-> samples[i].face.pitch]
  IN IF pose \notin Poses \cup {AnyPose} \/ ~opens \/ Len(samples) < 3
     THEN [outcome |-> "error", stored |-> stored, samples |-> <<>>]
     ELSE [outcome |-> "enrolled", stored |-> stored \o [i \in DOMAIN samples |-> look(i)],
           samples |-> samples]
=============================================================================
