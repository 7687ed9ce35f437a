----------------------------- MODULE RunContract -----------------------------
(***************************************************************************)
(* What the host promises about every run, independently of how runs are   *)
(* scheduled (docs/specs/runtime-event-loop.md, "Run state machine", and    *)
(* RunOutcome / VoydRunHandle in packages/js-host/src/protocol/types.ts):   *)
(* a run makes at most one internal step at a time, settles at most once,   *)
(* and never leaves its outcome again.                                      *)
(***************************************************************************)
CONSTANT Run                \* the runs of one scheduler

VARIABLES phase,            \* where each run is
          outcome           \* how each run has settled

contractVars == <<phase, outcome>>

Outcome == {"value", "failed", "cancelled"}

(* "idle": alive, between two steps; "stepping": a step is under way, or    *)
(* its result has not been taken in yet.                                    *)
ContractTypeOK ==
  /\ phase \in [Run -> {"absent", "idle", "stepping", "done"}]
  /\ outcome \in [Run -> Outcome \cup {"none"}]

(* A run may have been started already.                                     *)
Init ==
  /\ phase \in [Run -> {"absent", "idle"}]
  /\ outcome = [r \in Run |-> "none"]

Start(r) ==
  /\ phase[r] = "absent"
  /\ phase' = [phase EXCEPT ![r] = "idle"]
  /\ UNCHANGED outcome

BeginStep(r) ==
  /\ phase[r] = "idle"
  /\ phase' = [phase EXCEPT ![r] = "stepping"]
  /\ UNCHANGED outcome

EndStep(r) ==
  /\ phase[r] = "stepping"
  /\ phase' = [phase EXCEPT ![r] = "idle"]
  /\ UNCHANGED outcome

(* A run yields a value only by a step that returned it.                    *)
Settle(r, kind) ==
  /\ phase[r] = "stepping" \/ (phase[r] = "idle" /\ kind # "value")
  /\ phase' = [phase EXCEPT ![r] = "done"]
  /\ outcome' = [outcome EXCEPT ![r] = kind]

Next ==
  \E r \in Run :
    \/ Start(r) \/ BeginStep(r) \/ EndStep(r)
    \/ \E kind \in Outcome : Settle(r, kind)

Spec == Init /\ [][Next]_contractVars

-----------------------------------------------------------------------------
(* A run that may be stepped is stepped or settled in the end: no ready run *)
(* starves (runtime-event-loop.md, "Fairness").                             *)
Served == \A r \in Run : (phase[r] = "idle") ~> (phase[r] # "idle")
=============================================================================
