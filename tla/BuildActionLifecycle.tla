------------------------ MODULE BuildActionLifecycle ------------------------
(***************************************************************************)
(* What every internal build action promises about its record (spec 4.1    *)
(* and 7): once running, it moves to Finished exactly once, with one      *)
(* result that is never changed afterwards, and it does get there.  The    *)
(* detailed modules of the actions implement this specification under a   *)
(* refinement mapping from their own result variable.                      *)
(***************************************************************************)

CONSTANT Results   \* the results an action of this type may report

VARIABLES status, result

lifecycleVars == <<status, result>>

Init == status = "running" /\ result = "none"

\* reportResult() / conclude(): the one transition to Finished
Conclude(r) ==
    /\ status = "running"
    /\ status' = "finished"
    /\ result' = r

Next == \E r \in Results : Conclude(r)

\* the result is set once, on the one transition to Finished
SafetySpec == Init /\ [][Next]_lifecycleVars

\* a running internal action is driven to completion by its own threads and
\* handlers
Spec == Init /\ [][Next]_lifecycleVars /\ WF_lifecycleVars(Next)

=============================================================================
