------------------------------ MODULE Translation ------------------------------
(***************************************************************************)
(* What one run of translate_file promises to the worker and to the disk:  *)
(* the row says in_progress before anything else, a sidecar that appears   *)
(* has passed the gate, the row says done only after that, and a           *)
(* quarantined row leaves no new sidecar.  A run that ends with an         *)
(* exception leaves the row for the next poll, unless a batch had already  *)
(* been given up.                                                          *)
(***************************************************************************)
EXTENDS Naturals

VARIABLES
  row,      \* status of the ledger row
  sidecar,  \* "none" | "passed" | "unchecked"
  outcome   \* "none" while the run lasts

Init == row = "none" /\ sidecar = "none" /\ outcome = "none"

Claim ==
  /\ row = "none" /\ outcome = "none"
  /\ row' = "in_progress"
  /\ UNCHANGED <<sidecar, outcome>>

Publish ==
  /\ row = "in_progress" /\ sidecar = "none" /\ outcome = "none"
  /\ sidecar' = "passed"
  /\ UNCHANGED <<row, outcome>>

Complete ==
  /\ sidecar = "passed" /\ outcome = "none"
  /\ row' = "done" /\ outcome' = "done"
  /\ UNCHANGED sidecar

GiveUp ==
  /\ row = "in_progress" /\ sidecar = "none" /\ outcome = "none"
  /\ row' = "quarantined"
  /\ outcome' \in {"quarantined", "failed"}
  /\ UNCHANGED sidecar

Fail ==
  /\ outcome = "none"
  /\ outcome' = "failed"
  /\ UNCHANGED <<row, sidecar>>

Next == Claim \/ Publish \/ Complete \/ GiveUp \/ Fail

Spec == Init /\ [][Next]_<<row, sidecar, outcome>>
=============================================================================
