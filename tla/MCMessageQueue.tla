--------------------------- MODULE MCMessageQueue ---------------------------
(* Small instances of MessageQueue for TLC.                                *)
EXTENDS MessageQueue, TLC

CONSTANTS m1, m2, c1, c2, o1, g1, g2

\* m1 is a key the producer chose; m2 is sent later or is m1's requeued copy.
OneKey      == {m1}
NoKeys      == {}
OneId       == {m1}
TwoIds      == {m1, m2}
OneConsumer == {c1}
TwoConsumers == {c1, c2}
OneOperator == {o1}

SamePrio    == [i \in Ids |-> 5]
MixedPrio   == [i \in Ids |-> IF i = m1 THEN 5 ELSE 0]
\* Two agent_executor groups, or one queue worker.
NoWorkers   == {}
TwoGroups   == {g1, g2}
OneEach     == [c \in Consumers |-> IF c = c1 THEN g1 ELSE g2]
=============================================================================
