------------------------------ MODULE MCEvents ------------------------------
(***************************************************************************)
(* Small instances of a session for TLC: more events, more faults, a task  *)
(* whose ship has an event, and two tasks whose scopes meet.               *)
(***************************************************************************)
EXTENDS EventSessions

CONSTANTS me, s1, s2

MCBudgets == {[events |-> 3, tasks |-> 0, faults |-> 0],
              [events |-> 2, tasks |-> 0, faults |-> 2],
              [events |-> 1, tasks |-> 1, faults |-> 0],
              [events |-> 0, tasks |-> 1, faults |-> 1],
              [events |-> 0, tasks |-> 2, faults |-> 0]}
=============================================================================
