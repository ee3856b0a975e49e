----------------------------- MODULE CameraGraph -----------------------------
(***************************************************************************)
(* Which camera a use opens: the sensors on the IPU3 media graph           *)
(* (faceauth-camera/src/ipu3.rs), or the node the configuration names, and *)
(* the format either is read in (faceauth-camera/src/v4l2.rs and lib.rs).  *)
(*                                                                         *)
(* An entity is its CSI-2 port, what it is when asked (not a sensor, one   *)
(* that does not answer, or a sensor) and, of a sensor, its kind, which is *)
(* its media-bus code, and the way it faces.                               *)
(***************************************************************************)
EXTENDS Naturals, FiniteSets, SequencesExt

Kinds == {"infrared", "colour"}
Facing == {"front", "back", "external", "unknown"}
Entities == [port : Nat, reads : {"nothing", "error", "sensor"}, kind : Kinds,
             facing : Facing]

(* probe: every sensor that answers; an error only when none does.          *)
Sensors(entities) == {e \in entities : e.reads = "sensor"}
ProbeFails(entities) ==
  Sensors(entities) = {} /\ \E e \in entities : e.reads = "error"

First(sensors) == CHOOSE s \in sensors : \A o \in sensors : s.port <= o.port

(* Ipu3Graph::pick: a front one, else one that does not say.                *)
Candidates(sensors, kind) ==
  LET facing(way) == {s \in sensors : s.kind = kind /\ s.facing = way}
  IN  IF facing("front") # {} THEN facing("front") ELSE facing("unknown")

Pick(entities, kind) ==
  LET of == Candidates(Sensors(entities), kind)
  IN  IF of = {} THEN {} ELSE {First(of)}

(* A video node: what it can do, the formats it offers in order, the format *)
(* and planes the driver settles on when asked for one, the buffers it      *)
(* grants, and the controls behind it.                                      *)
Formats == {"ip3y", "grey", "yuyv", "y10", "y16", "mjpeg"}
Decodable == Formats \ {"mjpeg"}   \* Decoder::for_pixelformat

(* VideoDevice::open: a capture node of either kind, by streaming.          *)
Streams(node) == node.caps \cap {"capture", "mplane"} # {} /\ "streaming" \in node.caps

(* open_at asks a configured node for the first format it offers that has a *)
(* decoder (0: none).                                                       *)
Asked(node) == SelectInSeq(node.formats, LAMBDA f : f \in Decodable)

(* set_format: the driver may not substitute another, nor split the planes. *)
Negotiates(node) == node.settles = node.formats[Asked(node)] /\ node.planes = 1

(* request_buffers: one is enough; each is mapped and queued.               *)
Grants(node) == node.granted # {}

(* Camera::open.                                                            *)
Opens(node) ==
  /\ Streams(node)
  /\ Asked(node) # 0
  /\ Negotiates(node)
  /\ Grants(node)
  /\ "exposure" \in node.controls
=============================================================================
