------------------------------- MODULE RunStatus -------------------------------
(***************************************************************************)
(* The one vocabulary of outcomes (run_status.py): how a result or an      *)
(* exception becomes an outcome, an outcome an exit code and a job status, *)
(* and the exit code of a child process an outcome again.                  *)
(*                                                                         *)
(* A result is [status, converged, success], each "absent" when the runner *)
(* did not set it; spellings of the same status are one value.             *)
(***************************************************************************)
EXTENDS Integers

Outcomes == {"completed", "not_converged", "failed", "cancelled"}
ConvergenceTypes == {"opt", "neb"}

Flags == {"true", "false", "absent"}
Results ==
    [status : {"absent", "completed", "failed", "cancelled", "not_converged"},
     converged : Flags,
     success : Flags]

ClassifyResult(result, calc) ==
    IF result.status \in {"cancelled", "failed", "not_converged"} THEN result.status
    ELSE IF \/ result.converged = "false"
            \/ result.converged = "absent" /\ calc \in ConvergenceTypes
         THEN "not_converged"
    ELSE IF result.success = "false" THEN "failed"
    ELSE "completed"

ClassifyException(exception) ==
    IF exception \in {"CancellationRequested", "KeyboardInterrupt"}
    THEN "cancelled" ELSE "failed"

ExitCode ==
    [o \in Outcomes |-> CASE o = "completed" -> 0 [] o = "not_converged" -> 2
                          [] o = "failed" -> 1    [] o = "cancelled" -> 130]

JobStatusOf ==
    [o \in Outcomes |-> IF o = "completed" THEN "done" ELSE o]

\* A child killed by SIGINT (2) or SIGTERM (15) has a negative code.
OutcomeOfCode(code) ==
    CASE code = 0 -> "completed"
      [] code = 2 -> "not_converged"
      [] code \in {130, -2, -15} -> "cancelled"
      [] OTHER -> "failed"

=============================================================================
