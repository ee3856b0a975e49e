------------------------------ MODULE MCPresence ------------------------------
EXTENDS Presence, Sequences

(* The away times are longer than the default mode's tick; the obscured time *)
(* of the secure mode is 1 to 2 units. One table sets both times of the      *)
(* default mode to "never", one has the obscured times out of range.         *)
Table(away, obscured, secure_obscured) ==
  [away |-> away, secure_away |-> 3, obscured |-> obscured, secure_obscured |-> secure_obscured]

Tables == {Table(4, Never, 5), Table(Never, 0, 1)}
AtOnce == {Table(Never, Never, 1)}
Range12 == <<1, 2>>

-----------------------------------------------------------------------------
(* The table the watch starts from, as the command line edits it.          *)
CE == INSTANCE ConfigEdit

Key(name, value, note) == CE!Line("key", name, value, note)
Comment == CE!Line("comment", "", "", "a remark")
ConfigLines ==
  {CE!Header("presence"), CE!Line("spaced", "presence", "", ""), CE!Header("unlock"),
   Key("presence", "inline", ""), Key("enabled", "true", "on"), Key("away_seconds", "0", "off"),
   Key("away_seconds", "10", ""), CE!Blank, Comment}
ConfigFiles == UNION {[1 .. n -> ConfigLines] : n \in 0 .. 4}

Arguments == {"absent", "never", "soon"} \cup DOMAIN CE!Number
KeyLists ==
  ({CE!ObscuredKeys(d, s) : d, s \in Arguments} \cup {CE!AwayKeys(d, s) : d, s \in Arguments})
  \ {CE!Refused}

\* What an edit leaves alone: every other key and comment, in order.
Others(file, names) ==
  SelectSeq(file, LAMBDA l : l.kind = "comment" \/ (l.kind = "key" /\ l.name \notin names))
Names(keys) == {keys[i].name : i \in DOMAIN keys}
Notes(file) == {<<file[i].name, file[i].note>> : i \in {j \in CE!Keys(file) : file[j].note # ""}}

EditIsExact(file, keys, edited) ==
  /\ CE!Usable(edited)
  /\ \A name \in DOMAIN CE!Default :
       CE!Read(edited)[name] =
         IF name \in Names(keys)
         THEN keys[CHOOSE i \in DOMAIN keys : keys[i].name = name].value
         ELSE CE!Read(file)[name]
  /\ Others(edited, Names(keys)) = Others(file, Names(keys))
  /\ Notes(file) = Notes(edited)

\* A lock time that is written is the one the daemon then reads, nothing else
\* changes, and only a file the daemon could not use anyway is refused.
ASSUME LockTimeEditIsExact ==
  \A file \in ConfigFiles :
    LET keys == CE!AwayKeys("11", "absent")
        edited == CE!LockTimeEdit(file, keys)
    IN /\ edited # CE!Refused => EditIsExact(file, keys, edited)
       /\ CE!Usable(file) /\ CE!SectionHeader(file) # 0 => edited # CE!Refused

\* Switching the watch on or off is exact in the same way.
ASSUME SwitchIsExact ==
  \A file \in ConfigFiles, on \in BOOLEAN :
    LET edited == CE!PresenceEdit(file, on, "mike", "absent")
    IN edited # CE!Refused => EditIsExact(file, CE!PresenceKeys(on, "mike", "absent"), edited)

\* The command line writes no lock time that the daemon refuses, or clamps.
ASSUME TakenTimesAreRead ==
  \A keys \in KeyLists, on \in {"true", "false"} :
    LET file == <<CE!Header("presence"), Key("enabled", on, ""), Key("user", "mike", "")>>
        edited == CE!LockTimeEdit(file, keys)
    IN /\ edited # CE!Refused
       /\ CE!Watched(CE!Read(edited)) = CE!Read(edited) /\ ~CE!Warns(CE!Read(edited))

\* Whatever step fails, and wherever the machine stops, the file is the old one
\* or the new one; an error is the old one and leaves nothing beside it.
ASSUME FileIsReplacedWhole ==
  \A o \in CE!WriteOutcomes("old", "new") :
    /\ o.file \in {"old", "new"}
    /\ o.ended = "ok" => o.file = "new"
    /\ o.ended = "error" => o.file = "old" /\ o.tmp = "none"
=============================================================================
