--------------------------- MODULE MCPaperWorker ---------------------------
(***************************************************************************)
(* Model values for PaperWorker, and the environment under which stopping   *)
(* should succeed: market data never fails, and the operator reissues a     *)
(* stop for as long as the run has not stopped.                             *)
(***************************************************************************)
EXTENDS PaperWorker, TLC

Symmetry == Permutations(Runs) \cup Permutations(Operators)

PatientOperator ==
    \A o \in Operators :
        /\ WF_vars(OperatorStep(o) /\ desk[o].mode # "idle")
        /\ \A r \in Runs : SF_vars(View(o, r) /\ run[r].status = "faulted")
        /\ SF_vars(ControlRun(o, "stop") /\ run' # run)

PatientSpec ==
    /\ Init /\ [][Next /\ ~\E w \in Workers : PollFails(w)]_vars
    /\ Fairness
    /\ PatientOperator
=============================================================================
