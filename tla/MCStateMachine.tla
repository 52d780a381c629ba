--------------------------- MODULE MCStateMachine ---------------------------
(* Two services and the fewest states that tell the cases apart: two of one  *)
(* rough state, one that is down, and FREEING.                                *)
EXTENDS StateMachine

CONSTANTS s1, s2, startMarked, startRun, stopped, freeing

MCStates == {startMarked, startRun, stopped, freeing}
MCIs == [st \in MCStates |-> IF st \in {stopped, freeing} THEN "DOWN"
                                                         ELSE "STARTING"]
=============================================================================
