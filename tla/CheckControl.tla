----------------------------- MODULE CheckControl -----------------------------
(***************************************************************************)
(* What CCheckQueueControl promises to ConnectBlock: checks are added one  *)
(* batch after the other, and Wait returns whether all of them, and none   *)
(* of an earlier block's, were successful.  CheckQueue implements this     *)
(* with a pool of threads.                                                 *)
(***************************************************************************)
VARIABLES phase,    \* of the controller: "closed", "open", "waiting"
          good,     \* all checks added since it was opened are good
          result    \* what the last Wait returned

vars == <<phase, good, result>>

Init == phase = "closed" /\ good = TRUE /\ result = TRUE

Open == /\ phase = "closed"
        /\ phase' = "open"
        /\ UNCHANGED <<good, result>>

\* Some checks are added, all of them good or not.
Add(ok) == /\ phase = "open"
           /\ good' = (good /\ ok)
           /\ UNCHANGED <<phase, result>>

Wait == /\ phase = "open"
        /\ phase' = "waiting"
        /\ UNCHANGED <<good, result>>

Return == /\ phase = "waiting"
          /\ phase' = "closed"
          /\ result' = good
          /\ good' = TRUE

Next == Open \/ (\E ok \in BOOLEAN : Add(ok)) \/ Wait \/ Return

\* A Wait returns in the end.
Spec == Init /\ [][Next]_vars /\ WF_vars(Return)
=============================================================================
