--------------------------- MODULE MCInboundEvent ---------------------------
(* Instances of InboundEvent for TLC: what arrives in which conversation.  *)
EXTENDS InboundEvent

CONSTANTS l1, l2   \* two conversations

Arrival(kind, lane) == [kind |-> kind, lane |-> lane]

Scenario(first, second, n) == [event |-> <<first, second>>, faults |-> n]

(* A turn that may run errands, then an APPROVE or DENY, a STOP, or a      *)
(* message of another conversation; and one fault during a turn or a       *)
(* command behind another message.                                         *)
QueueScenarios ==
    { Scenario(Arrival("agent_turn", l1), Arrival("reply", l1), 0),
      Scenario(Arrival("agent_turn", l1), Arrival("stop", l1), 0),
      Scenario(Arrival("agent_turn", l1), Arrival("record_only", l2), 0),
      Scenario(Arrival("record_only", l1), Arrival("agent_turn", l1), 1),
      Scenario(Arrival("record_only", l1), Arrival("command", l1), 1) }

(* One command or approval button, and one fault. *)
ReplayScenarios ==
    {[event |-> <<Arrival(kind, l1)>>, faults |-> 1] : kind \in Commands}
=============================================================================
