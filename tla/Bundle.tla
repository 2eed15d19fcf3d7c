------------------------------- MODULE Bundle -------------------------------
(***************************************************************************)
(* What package bundle gives a store-and-forward node: endpoint            *)
(* identifiers, the bundle ID that duplicates are recognised by, and       *)
(* expiry.                                                                 *)
(*                                                                         *)
(* Tick 0 is the DTN epoch.  Creation times and lifetimes count            *)
(* milliseconds and are unsigned; they are compared with instants after a  *)
(* conversion to time.Duration, a signed machine integer.                  *)
(***************************************************************************)
EXTENDS NodesAndTime, Sequences

CONSTANTS
    Service,      \* demux components such as "inbox"
    Payload,      \* application data units
    TicksPerMs,   \* ticks in a millisecond
    MaxDuration   \* one more than the largest time.Duration, in ticks

ASSUME BundleAssumption == TicksPerMs \in Nat \ {0} /\ MaxDuration \in Nat \ {0}

EndpointID == [node : Node, service : Service]

NodeID(eid) == eid.node

(***************************************************************************)
(* The fields that a node looks at.  fragment is <<>> when the fragment    *)
(* flag is clear, and <<offset, length of the whole>> when it is set;      *)
(* size is the length of the encoded bundle.                               *)
(***************************************************************************)
Fragment == {<<>>} \cup (Nat \X Nat)

BundleType ==
    [source : EndpointID, dest : EndpointID, created : Nat, seq : Nat,
     fragment : Fragment, lifetime : Nat, size : Nat, payload : Payload]

ID(b) == [source |-> b.source, created |-> b.created, seq |-> b.seq,
          fragment |-> b.fragment]

\* time.Duration(x): the machine integer that x wraps to.
Duration(x) == ((x + MaxDuration) % (2 * MaxDuration)) - MaxDuration

DTNTime(t) == IF t < 0 THEN 0 ELSE t \div TicksPerMs

FromDTNTime(ms) == Duration(ms * TicksPerMs)

Deadline(b) == FromDTNTime(b.created) + Duration(b.lifetime * TicksPerMs)

\* A creation time of zero stands for "no clock": such a bundle never expires.
Expired(b, now) == b.created # 0 /\ now > Deadline(b)
=============================================================================
