---------------------------- MODULE MCAlertEngine ----------------------------
(* Instances of AlertEngine for TLC.                                       *)
EXTENDS AlertEngine

CONSTANTS warm, hot   \* a warning and a critical level of the same metric

Levels    == {{}, {warm}, {warm, hot}}
Durations == [r \in Rules |-> IF r = warm THEN 2 ELSE 0]
Cooldowns == [r \in Rules |-> IF r = warm THEN 3 ELSE 2]
BothOrBad == {{warm}, {warm, hot}, Bad}
Both      == {{warm, hot}}
Forward   == {1, 2}
Stepping  == {2, -1}
==============================================================================
