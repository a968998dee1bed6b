----------------------------- MODULE PowerStage -----------------------------
(***************************************************************************)
(* What the assistive state machine promises about the power stage: it is  *)
(* a resource with at most one user.  A procedure takes it only when it is *)
(* free, hands it to the running machine or gives it back, and whoever     *)
(* stops using it leaves all three phases in high impedance.               *)
(***************************************************************************)
VARIABLES
  user,   \* who controls the power stage
  bridge  \* whether some phase is driven

stage == <<user, bridge>>

Init == user = "nobody" /\ bridge = "open"

\* A procedure begins on a free power stage and has driven nothing yet.
Take == /\ user = "nobody" /\ user' = "procedure"
        /\ UNCHANGED bridge

\* The user switches the phases as it likes.
Drive == /\ user # "nobody" /\ UNCHANGED user
         /\ bridge' \in {"open", "driven"}

\* A startup procedure leaves a running machine behind.
Run == /\ user = "procedure" /\ user' = "machine"
       /\ bridge' \in {"open", "driven"}

\* A procedure gives the power stage back.
Leave == /\ user = "procedure" /\ user' = "nobody"
         /\ bridge' = "open"

\* A machine is stopped, at once or under the control of a halting procedure.
Stop == /\ user = "machine" /\ user' \in {"procedure", "nobody"}
        /\ bridge' = "open"

Next == Take \/ Drive \/ Run \/ Leave \/ Stop

\* Procedures are finite: none keeps the power stage for ever.
Spec == Init /\ [][Next]_stage /\ WF_stage(Run \/ Leave)
=============================================================================
