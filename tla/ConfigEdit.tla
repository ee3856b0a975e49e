----------------------------- MODULE ConfigEdit -----------------------------
(***************************************************************************)
(* Edits of the [presence] table of faceauth's configuration by its        *)
(* command line: which arguments are taken, how lines are rewritten, what  *)
(* the daemon would read from the result, and how the file is replaced.    *)
(*                                                                         *)
(* A file is a sequence of lines [kind, name, value, note]: a table header *)
(* ("plain", or "spaced" as [ presence ], which TOML reads and the edit    *)
(* does not), a key with its value and its trailing comment, a comment or  *)
(* a blank line. Characters, quoting and values over several lines are     *)
(* abstracted. A value is its text: a number, a Boolean or another word.   *)
(***************************************************************************)
EXTENDS Naturals, Sequences, SequencesExt, TLC

Number == ("0" :> 0) @@ ("1" :> 1) @@ ("2" :> 2) @@ ("10" :> 10) @@ ("11" :> 11) @@ ("20" :> 20)
Minutes(v) == v \in DOMAIN Number
Positive(v) == v \in DOMAIN Number /\ Number[v] > 0
Between(v, lo, hi) == v \in DOMAIN Number /\ Number[v] \in lo .. hi

Line(kind, name, value, note) == [kind |-> kind, name |-> name, value |-> value, note |-> note]
Header(name) == Line("plain", name, "", "")
Blank == Line("blank", "", "", "")
Headers == {"plain", "spaced"}

\* The first of a set of positions, or `none` when there is none.
Least(positions, none) ==
  IF positions = {} THEN none ELSE CHOOSE i \in positions : \A j \in positions : i <= j

\* The lines of the [presence] table: its header and the line after its last.
SectionHeader(file) ==
  Least({i \in DOMAIN file : file[i].kind = "plain" /\ file[i].name = "presence"}, 0)
SectionEnd(file, header) ==
  Least({i \in DOMAIN file : i > header /\ file[i].kind \in Headers}, Len(file) + 1)

WithSection(file) ==
  IF SectionHeader(file) # 0 THEN file
  ELSE file \o (IF file # <<>> /\ Last(file).kind # "blank" THEN <<Blank>> ELSE <<>>)
            \o <<Header("presence")>>

\* A key's line is rewritten in place and keeps its comment; a new key goes
\* after the last line of the table that is not blank.
SetKey(file, key) ==
  LET header == SectionHeader(file)
      end    == SectionEnd(file, header)
      at     == Least({i \in header + 1 .. end - 1 : file[i].kind = "key" /\ file[i].name = key.name}, 0)
      last   == CHOOSE i \in header .. end - 1 :
                  /\ i = header \/ file[i].kind # "blank"
                  /\ \A j \in i + 1 .. end - 1 : file[j].kind = "blank"
  IN IF at # 0 THEN [file EXCEPT ![at].value = key.value]
     ELSE InsertAt(file, last + 1, Line("key", key.name, key.value, ""))

SetPresenceKeys(file, keys) == FoldLeft(SetKey, WithSection(file), keys)

-----------------------------------------------------------------------------
(* What the daemon makes of a file.                                        *)

TableAt(file, i) ==
  LET headers == {j \in 1 .. i : file[j].kind \in Headers}
  IN IF headers = {} THEN "" ELSE file[CHOOSE j \in headers : \A k \in headers : k <= j].name

Keys(file) == {i \in DOMAIN file : file[i].kind = "key"}

\* TOML: no table and no key twice, and `presence = {..}` is the table, too.
Parses(file) ==
  /\ \A i, j \in DOMAIN file :
       i < j /\ file[i].kind \in Headers /\ file[j].kind \in Headers => file[i].name # file[j].name
  /\ \A i, j \in Keys(file) :
       i < j => file[i].name # file[j].name \/ TableAt(file, i) # TableAt(file, j)
  /\ \A i \in Keys(file), j \in DOMAIN file :
       ~(file[j].kind \in Headers /\ file[i].name = file[j].name /\ TableAt(file, i) = "")

Default == [enabled |-> "false", user |-> "", away_seconds |-> "20", secure_away_seconds |-> "20",
            obscured_face_lock |-> "never", secure_obscured_face_lock |-> "2"]

Read(file) ==
  [name \in DOMAIN Default |->
     LET at == Least({i \in Keys(file) : file[i].name = name /\ TableAt(file, i) = "presence"}, 0)
     IN IF at = 0 THEN Default[name] ELSE file[at].value]

Typed(presence) ==
  /\ presence.enabled \in {"true", "false"}
  /\ Minutes(presence.obscured_face_lock) \/ presence.obscured_face_lock = "never"
  /\ Minutes(presence.secure_obscured_face_lock)
Validate(presence) ==
  /\ presence.away_seconds = "never" \/ Positive(presence.away_seconds)
  /\ Positive(presence.secure_away_seconds)
  /\ presence.enabled = "true" => presence.user # ""
Usable(file) == Parses(file) /\ Typed(Read(file)) /\ Validate(Read(file))

\* What the watch runs on: obscured times are clamped, never is kept.
Watched(presence) ==
  LET within(v, lo, hi) ==
        IF Number[v] < Number[lo] THEN lo ELSE IF Number[v] > Number[hi] THEN hi ELSE v
  IN [presence EXCEPT !.obscured_face_lock = IF @ = "0" THEN "1" ELSE @,
                      !.secure_obscured_face_lock = within(@, "1", "10")]
Warns(presence) ==
  presence.obscured_face_lock = "0" \/ ~Between(presence.secure_obscured_face_lock, 1, 10)

-----------------------------------------------------------------------------
(* The commands. An argument is a text like a value's, or absent.            *)

Refused == <<>>          \* an error: no edited file and no list of keys is empty
Absent == "absent"

\* The keys of the two optional arguments, if each is one the key takes.
LockKeys(default_key, default, default_ok, secure_key, secure, secure_ok) ==
  IF \/ default # Absent /\ ~default_ok
     \/ secure # Absent /\ ~secure_ok
     \/ default = Absent /\ secure = Absent
  THEN Refused
  ELSE SelectSeq(<<[name |-> default_key, value |-> default], [name |-> secure_key, value |-> secure]>>,
                 LAMBDA k : k.value # Absent)

ObscuredKeys(default, secure) ==
  LockKeys("obscured_face_lock", default, default = "never" \/ Positive(default),
           "secure_obscured_face_lock", secure, Between(secure, 1, 10))
AwayKeys(default, secure) ==
  LockKeys("away_seconds", default, default = "never" \/ Positive(default),
           "secure_away_seconds", secure, Positive(secure))

LockTimeEdit(file, keys) ==
  LET edited == SetPresenceKeys(file, keys)
  IN IF ~Usable(edited) \/ (Usable(file) /\ Read(file).enabled # Read(edited).enabled)
     THEN Refused ELSE edited

PresenceKeys(on, user, away) ==
  <<[name |-> "enabled", value |-> IF on THEN "true" ELSE "false"]>>
  \o (IF on THEN <<[name |-> "user", value |-> user]>> ELSE <<>>)
  \o (IF on /\ away # Absent THEN <<[name |-> "away_seconds", value |-> away]>> ELSE <<>>)

PresenceEdit(file, on, user, away) ==
  LET edited == SetPresenceKeys(file, PresenceKeys(on, user, away))
      took   == /\ (Read(edited).enabled = "true") = on
                /\ on => /\ Read(edited).user = user
                         /\ away # Absent => Read(edited).away_seconds = away
  IN IF (on /\ away # Absent /\ ~Positive(away)) \/ ~Usable(edited) \/ ~took
     THEN Refused ELSE edited

-----------------------------------------------------------------------------
(* The file on disk, replaced through a temporary file and a rename. Each  *)
(* of the four steps may fail (the rest is skipped and the temporary file  *)
(* removed) or be the last before a crash (nothing is cleaned up).         *)

Steps == 1 .. 4          \* create, write, sync, rename
After(old, new, done) ==
  [file |-> IF done = 4 THEN new ELSE old,
   tmp  |-> CASE done = 0 -> "none" [] done = 1 -> "empty" [] done \in {2, 3} -> "whole" [] done = 4 -> "none"]
WriteOutcomes(old, new) ==
  {[After(old, new, k - 1) EXCEPT !.tmp = "none"] @@ [ended |-> "error"] : k \in Steps}
  \cup {After(old, new, k) @@ [ended |-> "crash"] : k \in 0 .. 4}
  \cup {After(old, new, 4) @@ [ended |-> "ok"]}
=============================================================================
