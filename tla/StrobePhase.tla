----------------------------- MODULE StrobePhase -----------------------------
(***************************************************************************)
(* The strobe's phase (StrobePhase in faceauth-engine/src/liveness.rs): the *)
(* sensor lights its frames on a mask drawn for this gate, and a lit frame  *)
(* and the unlit one before it are a pair only while the frames delivered   *)
(* follow the mask. A frame is its step in brightness from the one before.  *)
(***************************************************************************)
EXTENDS Naturals, Sequences

CONSTANT Span   \* frames a mask covers: 8 in the sensor

ASSUME SpanAssumption == Span \in Nat \ {0, 1}

Steps == {"up", "down", "flat"}

(* The class of a frame: lit if it steps up, unlit if it steps down, and    *)
(* otherwise the class of the frame before it.                              *)
Lit(p, step) ==
  /\ p.known
  /\ \/ step = "up"
     \/ step = "flat" /\ p.bits # <<>> /\ p.bits[Len(p.bits)]

(* A frame recorded. Bits older than a mask's span are read by nothing.     *)
Push(p, step) ==
  LET bits == Append(p.bits, Lit(p, step))
  IN  [p EXCEPT !.known = TRUE,
                !.bits = IF Len(bits) > Span THEN Tail(bits) ELSE bits]

Rising(before, after) ==
  /\ before.bits # <<>> /\ ~before.bits[Len(before.bits)]
  /\ after.bits[Len(after.bits)]

Rotations(mask) ==
  {[i \in 1..Span |-> mask[((i + r - 1) % Span) + 1]] : r \in 0..(Span - 1)}

(* The last frames are some rotation of the mask.                           *)
InPhase(p) == Len(p.bits) = Span /\ p.bits \in Rotations(p.mask)

(* After a lost frame: the frames seen are forgotten, the mask is kept.     *)
Reset(p) == [p EXCEPT !.bits = <<>>, !.known = FALSE]

(* A fresh mask: the frames seen are forgotten, the last brightness is not. *)
Drawn(p, mask) == [p EXCEPT !.mask = mask, !.bits = <<>>]

(* What random_pattern draws: as many lit as unlit, never plain alternation. *)
Alternations == {m \in [1..Span -> BOOLEAN] : \A i \in 1..(Span - 1) : m[i] # m[i + 1]}
RandomMasks == {m \in [1..Span -> BOOLEAN] :
                  2 * Len(SelectSeq(m, LAMBDA b : b)) = Span} \ Alternations
=============================================================================
