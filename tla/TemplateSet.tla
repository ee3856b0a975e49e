----------------------------- MODULE TemplateSet -----------------------------
(***************************************************************************)
(* What the program computes from one user's templates: the match on a     *)
(* camera, the pruning of a set over its cap, and the gesture floors.      *)
(*                                                                         *)
(* A set is a sequence of templates [id, quality, device]; sim[a, b] is    *)
(* the similarity of two looks. Similarities and qualities are in          *)
(* hundredths, degrees in hundredths of a degree.                          *)
(***************************************************************************)
EXTENDS Integers, Sequences, SequencesExt, FiniteSetsExt

OutlierMean == 50
QualityFloor == 60
MeshFloorMargin == 85
NodDegMax == 1600
ShakeDegMax == 2400

Usable(set, device) == {i \in DOMAIN set : set[i].device = device}
UsableOn(set, device) == Cardinality(Usable(set, device))

\* The best template for a face, the later one of two equals; 0 is no template.
BestAmong(set, among, score) ==
  IF among = {} THEN 0
  ELSE CHOOSE i \in among : \A j \in among :
         score[set[i].id] > score[set[j].id] \/ (score[set[i].id] = score[set[j].id] /\ j <= i)
BestMatch(set, score) == BestAmong(set, DOMAIN set, score)
BestMatchOn(set, score, device) == BestAmong(set, Usable(set, device), score)

-----------------------------------------------------------------------------

Sim(set, sim, i, j) == sim[set[i].id, set[j].id]
SumToRest(set, sim, i) ==
  FoldLeftDomain(LAMBDA sum, j : IF j = i THEN sum ELSE sum + Sim(set, sim, i, j), 0, set)
Nearest(set, sim, i) == Max({-100} \cup {Sim(set, sim, i, j) : j \in DOMAIN set \ {i}})

Outliers(set, sim) == {i \in DOMAIN set : SumToRest(set, sim, i) < OutlierMean * (Len(set) - 1)}
Poor(set) == {i \in DOMAIN set : set[i].quality < QualityFloor}

\* The first of the least by a measure, and the last of the greatest.
FirstLeast(S, measure(_)) ==
  CHOOSE i \in S : \A j \in S : measure(i) < measure(j) \/ (measure(i) = measure(j) /\ i <= j)
LastGreatest(S, measure(_)) ==
  CHOOSE i \in S : \A j \in S : measure(i) > measure(j) \/ (measure(i) = measure(j) /\ j <= i)

Victim(set, sim) ==
  CASE Outliers(set, sim) # {} -> FirstLeast(Outliers(set, sim), LAMBDA i : SumToRest(set, sim, i))
    [] Outliers(set, sim) = {} /\ Poor(set) # {} -> FirstLeast(Poor(set), LAMBDA i : set[i].quality)
    [] OTHER -> LastGreatest(DOMAIN set, LAMBDA i : Nearest(set, sim, i))

PruneTo(set, sim, max) ==
  LET cap == Max({max, 1})
      drop(s, round) == IF Len(s) > cap THEN RemoveAt(s, Victim(s, sim)) ELSE s
  IN FoldLeft(drop, set, set)

\* Twice each pair is twice the sum and twice the count.
SelfConsistency(set, sim) ==
  LET pairs == {p \in (DOMAIN set) \X (DOMAIN set) : p[1] # p[2]}
      sims  == {Sim(set, sim, p[1], p[2]) : p \in pairs}
      total == FoldLeftDomain(LAMBDA sum, i : sum + SumToRest(set, sim, i), 0, set)
  IN [min |-> Min(sims), mean |-> total \div Cardinality(pairs), max |-> Max(sims)]

-----------------------------------------------------------------------------

\* How high a recorded round still reads, in whole degrees from the detector's
\* least floor: reads is the set of floors at which it counts two gestures.
ReadsToDeg(reads, least, most) ==
  LET unbroken == {d \in least .. most : \A e \in least .. d : e \in reads}
  IN IF unbroken = {} THEN {} ELSE {100 * Max(unbroken)}

Clamp(v, lo, hi) == IF v < lo THEN lo ELSE IF v > hi THEN hi ELSE v
Floor(readsTo, default, cap) ==
  IF readsTo = {} THEN default
  ELSE Clamp((Min(readsTo) * MeshFloorMargin) \div 100, default, cap)
FloorsDeg(gesture, nod, shake) ==
  [nod |-> Floor(gesture.nod, nod, NodDegMax), shake |-> Floor(gesture.shake, shake, ShakeDegMax)]
IsCalibrated(gesture) == gesture.nod # {} /\ gesture.shake # {}
=============================================================================
