---------------------------- MODULE RunScheduler ----------------------------
(***************************************************************************)
(* The cooperative run scheduler of packages/js-host/src/runtime/           *)
(* scheduler.ts.  JavaScript is single threaded: the state says which       *)
(* function is on top of the call stack, and only that function moves.      *)
(* The scheduler calls out to code it does not own in three places, the     *)
(* run's start(), its step() and the onRunFailed observer, and that code    *)
(* may start and cancel runs before it returns.                             *)
(***************************************************************************)
EXTENDS Naturals, Sequences, Functions

CONSTANTS Run,          \* the runs that are ever started
          Budget        \* budgetPerTick: steps per tick of the pump

ASSUME BudgetAssumption == Budget \in Nat \ {0}

VARIABLES
  status,         \* ActiveRun.status, "absent" before startRun
  runs,           \* the keys of the map of active runs
  resolved,       \* resolved[r]: the resolveOutcome calls made for r
  reported,       \* reported[r]: the number of onRunFailed calls made for r
  handle,         \* handle[r]: startRun has returned a handle whose cancel works
  inFlight,       \* inFlight[r]: the step promises of r that are pending
  readyQueue, externalQueue,
  pumpScheduled,  \* a pump task is queued with scheduleTask
  pump,           \* what pump() is doing: "off", "drain" or "serve"
  used,           \* usedBudget
  callee,         \* the foreign code pump() is calling now
  starts          \* the start() calls on the stack, the innermost last

queueVars == <<readyQueue, externalQueue>>
pumpVars == <<pump, used, callee>>
runVars == <<status, runs, resolved, reported>>
vars == <<status, runs, resolved, reported, handle, inFlight, readyQueue,
          externalQueue, pumpScheduled, pump, used, callee, starts>>

OutcomeKind == {"value", "failed", "cancelled"}
EventKind == {"next", "value", "aborted", "failed"}
Event == [run : Run, kind : EventKind]
NoCall == [kind |-> "none"]
Callee == {NoCall} \cup [kind : {"step"}, run : Run] \cup [kind : {"report"}, run : Run]

TypeOK ==
  /\ status \in [Run -> {"absent", "waiting", "ready", "terminal"}]
  /\ runs \in SUBSET Run
  /\ resolved \in [Run -> Seq(OutcomeKind)]
  /\ reported \in [Run -> Nat]
  /\ handle \in [Run -> BOOLEAN]
  /\ inFlight \in [Run -> Nat]
  /\ readyQueue \in Seq(Run)
  /\ externalQueue \in Seq(Event)
  /\ pumpScheduled \in BOOLEAN
  /\ pump \in {"off", "drain", "serve"}
  /\ used \in 0..Budget
  /\ callee \in Callee
  /\ starts \in Seq(Run)

Init ==
  /\ status = [r \in Run |-> "absent"]
  /\ runs = {}
  /\ resolved = [r \in Run |-> <<>>]
  /\ reported = [r \in Run |-> 0]
  /\ handle = [r \in Run |-> FALSE]
  /\ inFlight = [r \in Run |-> 0]
  /\ readyQueue = <<>>
  /\ externalQueue = <<>>
  /\ pumpScheduled = FALSE
  /\ pump = "off"
  /\ used = 0
  /\ callee = NoCall
  /\ starts = <<>>

-----------------------------------------------------------------------------
(* Code outside the scheduler is running: the program between two tasks of  *)
(* the event loop, or a function the pump has called.                       *)
ForeignCode == pump = "off" \/ callee # NoCall

(* The stack is empty: the event loop may run the next task or microtask.   *)
EventLoop == pump = "off" /\ starts = <<>>

(* Mutant: finalizeRun without its status check.                            *)
FinalizeRunAgain(r, kind) ==
  /\ status' = [status EXCEPT ![r] = "terminal"]
  /\ runs' = runs \ {r}
  /\ resolved' = [resolved EXCEPT ![r] = Append(@, kind)]
  /\ reported' = IF kind = "failed" THEN [reported EXCEPT ![r] = @ + 1] ELSE reported

(* finalizeRun: the first outcome wins; a failure is also reported.         *)
FinalizeRun(r, kind) ==
  IF status[r] = "terminal"
  THEN UNCHANGED runVars
  ELSE /\ status' = [status EXCEPT ![r] = "terminal"]
       /\ runs' = runs \ {r}
       /\ resolved' = [resolved EXCEPT ![r] = Append(@, kind)]
       /\ reported' = IF kind = "failed"
                      THEN [reported EXCEPT ![r] = @ + 1] ELSE reported

(* What the pump calls when it finalizes r with this outcome.               *)
ReportOf(r, kind) ==
  IF status[r] # "terminal" /\ kind = "failed"
  THEN [kind |-> "report", run |-> r] ELSE NoCall

(* Mutants: a queued run is not marked ready; it goes to the front.         *)
EnqueueReadyUnmarked(r) ==
  IF status[r] \in {"terminal", "ready"}
  THEN UNCHANGED <<status, readyQueue>>
  ELSE readyQueue' = Append(readyQueue, r) /\ UNCHANGED status
EnqueueReadyFirst(r) ==
  IF status[r] \in {"terminal", "ready"}
  THEN UNCHANGED <<status, readyQueue>>
  ELSE /\ status' = [status EXCEPT ![r] = "ready"]
       /\ readyQueue' = <<r>> \o readyQueue

EnqueueReady(r) ==
  IF status[r] \in {"terminal", "ready"}
  THEN UNCHANGED <<status, readyQueue>>
  ELSE /\ status' = [status EXCEPT ![r] = "ready"]
       /\ readyQueue' = Append(readyQueue, r)

SchedulePumpLost == UNCHANGED pumpScheduled     \* mutant: no task is queued
SchedulePump == pumpScheduled' = TRUE

-----------------------------------------------------------------------------
(* startRun, up to and including the call of start().                       *)
CallStart(r) ==
  /\ ForeignCode
  /\ status[r] = "absent"
  /\ status' = [status EXCEPT ![r] = "waiting"]
  /\ runs' = runs \cup {r}
  /\ starts' = Append(starts, r)
  /\ UNCHANGED <<resolved, reported, handle, inFlight, queueVars, pumpScheduled, pumpVars>>

Innermost(r) == starts # <<>> /\ starts[Len(starts)] = r
Unwind == starts' = SubSeq(starts, 1, Len(starts) - 1)

StartReturns(r) ==
  /\ ForeignCode
  /\ Innermost(r)
  /\ Unwind
  /\ EnqueueReady(r)
  /\ SchedulePump
  /\ handle' = [handle EXCEPT ![r] = TRUE]
  /\ UNCHANGED <<runs, resolved, reported, inFlight, externalQueue, pumpVars>>

(* start() throws: the handle returned has a cancel that does nothing.      *)
StartThrows(r) ==
  /\ ForeignCode
  /\ Innermost(r)
  /\ Unwind
  /\ FinalizeRun(r, "failed")
  /\ UNCHANGED <<handle, inFlight, queueVars, pumpScheduled, pumpVars>>

(* handle.cancel(reason), when it returns true.                             *)
Cancel(r) ==
  /\ ForeignCode
  /\ handle[r]
  /\ r \in runs /\ status[r] # "terminal"
  /\ FinalizeRun(r, "cancelled")
  /\ UNCHANGED <<handle, inFlight, queueVars, pumpScheduled, pumpVars, starts>>

-----------------------------------------------------------------------------
(* The task queued by schedulePump runs.                                    *)
PumpTask ==
  /\ EventLoop
  /\ pumpScheduled
  /\ pumpScheduled' = FALSE
  /\ pump' = "drain"
  /\ used' = 0
  /\ UNCHANGED <<runVars, handle, inFlight, queueVars, callee, starts>>

(* How processExternalEvents settles a run, for the events that do.         *)
OutcomeOf(event) == IF event.kind = "value" THEN "value" ELSE "failed"

(* One iteration of processExternalEvents.                                  *)
DrainEvent ==
  /\ pump = "drain" /\ callee = NoCall
  /\ externalQueue # <<>>
  /\ externalQueue' = Tail(externalQueue)
  /\ LET event == Head(externalQueue)
         r == event.run
     IN IF r \notin runs \/ status[r] = "terminal"
        THEN UNCHANGED <<runVars, readyQueue, callee>>
        ELSE IF event.kind = "next"
        THEN /\ EnqueueReady(r)
             /\ UNCHANGED <<runs, resolved, reported, callee>>
        ELSE /\ FinalizeRun(r, OutcomeOf(event))
             /\ callee' = ReportOf(r, OutcomeOf(event))
             /\ UNCHANGED readyQueue
  /\ UNCHANGED <<handle, inFlight, pumpScheduled, pump, used, starts>>

DrainDone ==
  /\ pump = "drain" /\ callee = NoCall
  /\ externalQueue = <<>>
  /\ pump' = "serve"
  /\ used' = 0
  /\ UNCHANGED <<runVars, handle, inFlight, queueVars, pumpScheduled, callee, starts>>

BudgetLeft == used < Budget
RunnableUnchecked(r) == TRUE                    \* mutant: settled runs too
Runnable(r) == r \in runs /\ status[r] = "ready"

(* One iteration of the inner loop of pump, up to the call of run.step: an  *)
(* id whose run has settled meanwhile is dropped and costs no budget.       *)
ServeReady ==
  /\ pump = "serve" /\ callee = NoCall
  /\ BudgetLeft
  /\ readyQueue # <<>>
  /\ readyQueue' = Tail(readyQueue)
  /\ LET r == Head(readyQueue)
     IN IF Runnable(r)
        THEN /\ status' = [status EXCEPT ![r] = "waiting"]
             /\ callee' = [kind |-> "step", run |-> r]
             /\ used' = used + 1
        ELSE UNCHANGED <<status, callee, used>>
  /\ UNCHANGED <<runs, resolved, reported, handle, inFlight, externalQueue,
                 pumpScheduled, pump, starts>>

(* The inner loop ends: the tick goes on with new events, ends, or leaves   *)
(* the rest of the ready queue to the next tick.                            *)
ServeDone ==
  /\ pump = "serve" /\ callee = NoCall
  /\ ~BudgetLeft \/ readyQueue = <<>>
  /\ IF readyQueue = <<>> /\ externalQueue # <<>>
     THEN pump' = "drain" /\ UNCHANGED pumpScheduled
     ELSE /\ pump' = "off"
          /\ IF readyQueue = <<>> THEN UNCHANGED pumpScheduled ELSE SchedulePump
  /\ UNCHANGED <<runVars, handle, inFlight, queueVars, used, callee, starts>>

(* run.step(...) returns to processReadyRun, with a result or a promise:    *)
(* either way the result arrives in a later microtask.                      *)
StepReturns ==
  /\ callee.kind = "step"
  /\ starts = <<>>
  /\ inFlight' = [inFlight EXCEPT ![callee.run] = @ + 1]
  /\ callee' = NoCall
  /\ UNCHANGED <<runVars, handle, queueVars, pumpScheduled, pump, used, starts>>

StepThrows ==
  /\ callee.kind = "step"
  /\ starts = <<>>
  /\ FinalizeRun(callee.run, "failed")
  /\ callee' = ReportOf(callee.run, "failed")
  /\ UNCHANGED <<handle, inFlight, queueVars, pumpScheduled, pump, used, starts>>

(* onRunFailed returns, or throws and is ignored.                           *)
ReportReturns ==
  /\ callee.kind = "report"
  /\ starts = <<>>
  /\ callee' = NoCall
  /\ UNCHANGED <<runVars, handle, inFlight, queueVars, pumpScheduled, pump, used, starts>>

(* The promise of a step of r settles, in a microtask.                      *)
StepSettles(r) ==
  /\ EventLoop
  /\ inFlight[r] > 0
  /\ inFlight' = [inFlight EXCEPT ![r] = @ - 1]
  /\ \E kind \in EventKind :
       externalQueue' = Append(externalQueue, [run |-> r, kind |-> kind])
  /\ SchedulePump
  /\ UNCHANGED <<runVars, handle, readyQueue, pumpVars, starts>>

Foreign(r) == CallStart(r) \/ StartReturns(r) \/ StartThrows(r) \/ Cancel(r)
Pump == DrainEvent \/ DrainDone \/ ServeReady \/ ServeDone
Returns == StepReturns \/ StepThrows \/ ReportReturns

Next ==
  \/ \E r \in Run : Foreign(r) \/ StepSettles(r)
  \/ PumpTask \/ Pump \/ Returns

Spec == Init /\ [][Next]_vars

(* The event loop runs queued tasks, a function that has been called        *)
(* returns; nothing is assumed of the promises steps return.                *)
Fairness ==
  /\ WF_vars(PumpTask)
  /\ WF_vars(Pump)
  /\ WF_vars(Returns)
  /\ \A r \in Run : WF_vars(StartReturns(r) \/ StartThrows(r))

FairSpec == Spec /\ Fairness
-----------------------------------------------------------------------------
(* Where the right to move run r on lies.                                   *)
Place == {"start", "ready", "step", "promise", "event"}
Holds(place, r) ==
  \/ place = "start"   /\ \E i \in DOMAIN starts : starts[i] = r
  \/ place = "ready"   /\ \E i \in DOMAIN readyQueue : readyQueue[i] = r
  \/ place = "step"    /\ callee = [kind |-> "step", run |-> r]
  \/ place = "promise" /\ inFlight[r] > 0
  \/ place = "event"   /\ \E i \in DOMAIN externalQueue : externalQueue[i].run = r

(* A live run is in exactly one place, once: it is never stepped twice at a *)
(* time, never queued twice, and never forgotten (scheduler.ts keeps this   *)
(* by the status checks of enqueueReady, processReadyRun and the event      *)
(* loop; "Only one active step per run", runtime-event-loop.md).            *)
OneToken ==
  /\ \A r \in runs : \E place \in Place : Holds(place, r)
  /\ \A r \in Run : \A p, q \in Place : Holds(p, r) /\ Holds(q, r) => p = q
  /\ \A r \in Run : inFlight[r] <= 1
  /\ IsInjective(starts)
  /\ IsInjective(readyQueue)
  /\ \A i, j \in DOMAIN externalQueue :
       externalQueue[i].run = externalQueue[j].run => i = j

(* Queued work has a pump that will see it: the coalescing of schedulePump  *)
(* and the exits of pump lose no wake-up.                                   *)
WorkHasPump ==
  readyQueue # <<>> \/ externalQueue # <<>> => pumpScheduled \/ pump # "off"

(* The outcome promise is resolved exactly when the run leaves the map, and *)
(* once; the failure observer hears of exactly the failed runs, once.       *)
SettledOnce ==
  \A r \in Run :
    /\ status[r] = "terminal" <=> Len(resolved[r]) = 1
    /\ Len(resolved[r]) <= 1
    /\ r \in runs <=> status[r] \in {"waiting", "ready"}
    /\ reported[r] = IF resolved[r] = <<"failed">> THEN 1 ELSE 0

(* No step of a run begins once it has settled, whatever was queued for it  *)
(* when it was cancelled (processReadyRun, pump).                           *)
StepsUnsettled ==
  \A r \in Run : callee' = [kind |-> "step", run |-> r] /\ callee' # callee
                    => resolved[r] = <<>>
NoStepAfterSettled == [][StepsUnsettled]_vars

(* The runs served before r.                                                *)
Ahead(r) == {readyQueue[i] : i \in {k \in DOMAIN readyQueue :
                \A j \in 1..k : readyQueue[j] # r}}

(* A ready run is not overtaken: nobody enters the queue in front of it, on *)
(* this tick or on the ticks the budget pushes it to.                       *)
StayInLine ==
  \A r \in Run : status[r] = "ready" /\ status'[r] = "ready"
                    => Ahead(r)' \subseteq Ahead(r)
NoOvertaking == [][StayInLine]_vars

-----------------------------------------------------------------------------
(* The scheduler keeps the contract of RunContract.                         *)
PhaseOf(r) ==
  IF status[r] = "absent" THEN "absent"
  ELSE IF status[r] = "terminal" THEN "done"
  ELSE IF status[r] = "ready" \/ Holds("start", r) THEN "idle"
  ELSE "stepping"

Result(r) == IF resolved[r] = <<>> THEN "none" ELSE resolved[r][1]

Contract == INSTANCE RunContract WITH
  phase <- [r \in Run |-> PhaseOf(r)],
  outcome <- [r \in Run |-> Result(r)]

(* Every behaviour of the scheduler is one the contract allows.             *)
ContractSpec == Contract!Spec

(* Under the fairness of the event loop no ready run starves.               *)
ContractServed == Contract!Served
=============================================================================
