---------------------------- MODULE MCWorkflowRun ----------------------------
(***************************************************************************)
(* WorkflowRun with the ways a run is started that matter, and a second    *)
(* attempt for the checks of the spec.                                     *)
(***************************************************************************)
EXTENDS WorkflowRun

Plain == [resume |-> 0, retry |-> 0, pause |-> 0, gated |-> FALSE]

MCRequests ==
    {[Plain EXCEPT !.gated = TRUE], [Plain EXCEPT !.pause = CiRepo],
     [Plain EXCEPT !.resume = CiRepo], [Plain EXCEPT !.retry = CiSpec]}

MCMaxAttempts == [s \in Stage |-> IF s = CiSpec THEN 2 ELSE 1]
=============================================================================
