--------------------------- MODULE MCTemplateStore ---------------------------
(* Two saves, so that there is a set to lose, and two accounts that may have *)
(* had the name.                                                            *)
EXTENDS TemplateStore, TLC, Sequences, FiniteSets
Owners == Permutations(Uids)

-----------------------------------------------------------------------------
(* What is computed from a set, over small sets. The looks o1..o4 are one   *)
(* person's, s1 is somebody else's.                                         *)
TS == INSTANCE TemplateSet

Own == {"o1", "o2", "o3", "o4"}
Look(id, quality) == [id |-> id, quality |-> quality, device |-> IF id = "o4" THEN "usb" ELSE "ir"]
Sims(own, between) ==
  [p \in (Own \cup {"s1"}) \X (Own \cup {"s1"}) |->
     IF "s1" \in {p[1], p[2]} THEN between ELSE IF "o4" \in {p[1], p[2]} THEN own - 5 ELSE own]
Orderings(ids) == {f \in [1 .. Cardinality(ids) -> ids] : \A i, j \in DOMAIN f : f[i] = f[j] => i = j}
LookSets(ids, bad) ==
  {[i \in DOMAIN f |-> Look(f[i], IF f[i] \in bad THEN 55 ELSE 80)] : f \in Orderings(ids)}
Ids(set) == {set[i].id : i \in DOMAIN set}

\* One stranger's look whose similarity to each of the person's looks is under
\* the outlier mark is the first to go, however the set is ordered; at the mark
\* it is the last. A poor crop goes before every good look.
ASSUME StrangerGoesFirst ==
  \A set \in LookSets(Own \cup {"s1"}, {}), between \in {37, 49, 50, 56}, n \in 2 .. 4 :
    ("s1" \in Ids(TS!PruneTo(set, Sims(90, between), n))) <=> between >= 50
ASSUME PoorGoesFirst ==
  \A set \in LookSets(Own, {"o3"}), n \in 2 .. 3 :
    "o3" \notin Ids(TS!PruneTo(set, Sims(90, 40), n))

\* A set ends at its cap and never empty; a set of one's own looks keeps the
\* look that is least like the others.
ASSUME PruneKeepsTheCap ==
  \A set \in LookSets(Own \cup {"s1"}, {}), n \in 0 .. 6 :
    Len(TS!PruneTo(set, Sims(90, 40), n)) = IF n = 0 THEN 1 ELSE IF n > 5 THEN 5 ELSE n
ASSUME RareLookStays ==
  \A set \in LookSets(Own, {}), n \in 2 .. 4 : "o4" \in Ids(TS!PruneTo(set, Sims(90, 40), n))

\* A face is matched only against templates of the camera it was seen by.
ASSUME MatchIsOnThisCamera ==
  \A set \in LookSets(Own, {}), score \in [Own -> {40, 80}] :
    LET i == TS!BestMatchOn(set, score, "usb")
    IN set[i].id = "o4" /\ TS!UsableOn(set, "usb") = 1
       /\ score[set[TS!BestMatch(set, score)].id] >= score["o4"]

\* At the floor made from a person's rounds every one of those rounds still
\* reads, even one that reads at some higher floor and not at all between; and
\* no floor is under the detector's least or over its cap.
ASSUME FloorsReadTheirRounds ==
  \A a, b \in SUBSET {8, 9, 10, 12} :
    LET rounds == {8 .. 14 \ a, 8 .. 14 \ b}
        to     == UNION {TS!ReadsToDeg(reads, 8, 14) : reads \in rounds}
        floors == TS!FloorsDeg([nod |-> to, shake |-> {}], 800, 1500)
    IN /\ floors.nod \in 800 .. TS!NodDegMax /\ floors.shake = 1500
       /\ ~TS!IsCalibrated([nod |-> to, shake |-> {}])
       /\ \A reads \in rounds : 8 \in reads => \A d \in 8 .. floors.nod \div 100 : d \in reads
=============================================================================
