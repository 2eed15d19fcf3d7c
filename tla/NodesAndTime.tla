---------------------------- MODULE NodesAndTime ----------------------------
(***************************************************************************)
(* What bundles and contacts share.  A node is what EndpointID.NodeID      *)
(* gives for an endpoint and what a contact names at either end.  An       *)
(* instant is a time.Time, counted in ticks.                               *)
(***************************************************************************)
EXTENDS Integers, Maps

CONSTANT Node   \* node identifiers such as "dtn://sat-7"

Time == Int
=============================================================================
