----------------------------- MODULE LaneQueue -----------------------------
(****************************************************************************)
(* What the inbound queue promises whoever sends to a conversation: an      *)
(* event is offered once, in the order of arrival, to one lane; it is taken *)
(* only as the first unsettled event of that lane, may be given back any    *)
(* number of times, and is settled once, by whoever has it.  No event is    *)
(* lost.  InboundEvent, with passes that overlap, stall, reject and crash,  *)
(* implements it.                                                           *)
(****************************************************************************)
EXTENDS Naturals

CONSTANTS Events,    \* sequence numbers
          LaneKeys   \* lanes

VARIABLES state,   \* absent, queued, taken or settled
          lane     \* the lane an event was offered to

Init ==
    /\ state = [e \in Events |-> "absent"]
    /\ lane \in [Events -> LaneKeys]

Offer(e) ==
    /\ state[e] = "absent"
    /\ \A d \in Events : d < e => state[d] # "absent"
    /\ state' = [state EXCEPT ![e] = "queued"]
    /\ \E l \in LaneKeys : lane' = [lane EXCEPT ![e] = l]

(* The first unsettled event of its lane.                                   *)
First(e) ==
    \A d \in Events : d < e /\ lane[d] = lane[e] => state[d] = "settled"

(* A batch, of any lanes.                                                   *)
Take ==
    /\ \E S \in SUBSET {e \in Events : state[e] = "queued" /\ First(e)} :
           state' = [e \in Events |-> IF e \in S THEN "taken" ELSE state[e]]
    /\ UNCHANGED lane

(* Taken events are given back or settled.                                  *)
Release ==
    /\ \E S \in SUBSET {e \in Events : state[e] = "taken"} :
       \E outcome \in [S -> {"queued", "settled"}] :
           state' = [e \in Events |-> IF e \in S THEN outcome[e] ELSE state[e]]
    /\ UNCHANGED lane

Next == (\E e \in Events : Offer(e)) \/ Take \/ Release

Spec == Init /\ [][Next]_<<state, lane>>
=============================================================================
