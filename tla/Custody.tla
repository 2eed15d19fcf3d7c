------------------------------- MODULE Custody -------------------------------
(***************************************************************************)
(* What the mesh promises about custody.  A copy is one introduction of a  *)
(* bundle into the mesh.  It is at one place, moves from node to node, and *)
(* comes to one end that is final; only its destination delivers it, and a *)
(* node delivers an ID once however many copies of it there are.           *)
(***************************************************************************)
EXTENDS Node

VARIABLE place   \* for every copy: its bundle, its node and its state

Ends == {"delivered", "duplicate", "expired", "undeliverable"}

Init == place = <<>>

Moving(k) == place[k].state = "moving"

\* New copies join, each at the node it is introduced at.
Joins(old, new) ==
    /\ Len(new) >= Len(old)
    /\ \A k \in DOMAIN old : new[k] = old[k]
    /\ \A k \in DOMAIN new \ DOMAIN old : new[k].state = "moving"

Accept == Joins(place, place')

Move(k) ==
    /\ Moving(k)
    /\ \E x \in Node : place' = [place EXCEPT ![k].node = x]

Deliver(k) ==
    /\ Moving(k)
    /\ place[k].node = NodeID(place[k].b.dest)
    /\ \A j \in DOMAIN place :
         place[j].state = "delivered" /\ place[j].node = place[k].node =>
            ID(place[j].b) # ID(place[k].b)
    /\ Joins([place EXCEPT ![k].state = "delivered"], place')

Discard(k) ==
    /\ Moving(k)
    /\ \E end \in Ends \ {"delivered"} :
         place' = [place EXCEPT ![k].state = end]

\* The whole run is broken off.
Abandon ==
    place' = [k \in DOMAIN place |->
                IF Moving(k) THEN [place[k] EXCEPT !.state = "abandoned"]
                ELSE place[k]]

Next ==
    \/ Accept
    \/ \E k \in DOMAIN place : Move(k) \/ Deliver(k) \/ Discard(k)
    \/ Abandon

Spec == Init /\ [][Next]_place
=============================================================================
