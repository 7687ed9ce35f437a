------------------------- MODULE RunSchedulerProofs -------------------------
(***************************************************************************)
(* What RunScheduler keeps for every set of runs and every budget.         *)
(***************************************************************************)
EXTENDS RunScheduler, SequenceFacts

(* The steps of the scheduler one by one, as every proof below takes them.  *)
LEMMA NextCases ==
  ASSUME [Next]_vars
  PROVE  \/ \E r \in Run : CallStart(r)
         \/ \E r \in Run : StartReturns(r)
         \/ \E r \in Run : StartThrows(r)
         \/ \E r \in Run : Cancel(r)
         \/ \E r \in Run : StepSettles(r)
         \/ PumpTask \/ DrainEvent \/ DrainDone \/ ServeReady \/ ServeDone
         \/ StepReturns \/ StepThrows \/ ReportReturns
         \/ UNCHANGED vars
BY DEF Next, Foreign, Pump, Returns

-----------------------------------------------------------------------------
(* The variables keep their types.                                          *)
LEMMA InitTypeOK == Init => TypeOK
<1> SUFFICES ASSUME Init PROVE TypeOK  OBVIOUS
<1> USE DEF Init
<1>1. status \in [Run -> {"absent", "waiting", "ready", "terminal"}]  OBVIOUS
<1>2. runs \in SUBSET Run /\ reported \in [Run -> Nat]  OBVIOUS
<1>3. handle \in [Run -> BOOLEAN] /\ inFlight \in [Run -> Nat]  OBVIOUS
<1>4. resolved \in [Run -> Seq(OutcomeKind)]  OBVIOUS
<1>5. /\ readyQueue \in Seq(Run) /\ externalQueue \in Seq(Event)
      /\ starts \in Seq(Run)
  OBVIOUS
<1>6. used \in 0..Budget  BY BudgetAssumption
<1>7. callee \in Callee  BY DEF Callee
<1> QED  BY <1>1, <1>2, <1>3, <1>4, <1>5, <1>6, <1>7 DEF TypeOK

LEMMA FinalizeRunType ==
  ASSUME TypeOK, NEW r \in Run, NEW kind \in OutcomeKind, FinalizeRun(r, kind)
  PROVE  /\ status' \in [Run -> {"absent", "waiting", "ready", "terminal"}]
         /\ runs' \in SUBSET Run
         /\ resolved' \in [Run -> Seq(OutcomeKind)]
         /\ reported' \in [Run -> Nat]
         /\ ReportOf(r, kind) \in Callee
<1>1. ReportOf(r, kind) \in Callee  BY DEF ReportOf, Callee
<1>2. CASE status[r] = "terminal"
  BY <1>1, <1>2 DEF TypeOK, FinalizeRun, runVars
<1>3. CASE status[r] # "terminal"
  <2>1. status' \in [Run -> {"absent", "waiting", "ready", "terminal"}]
    BY <1>3 DEF TypeOK, FinalizeRun
  <2>2. runs' \in SUBSET Run  BY <1>3 DEF TypeOK, FinalizeRun
  <2>3. resolved \in [Run -> Seq(OutcomeKind)] /\ reported \in [Run -> Nat]
    BY DEF TypeOK
  <2>4. resolved' = [resolved EXCEPT ![r] = Append(@, kind)]
    BY <1>3 DEF FinalizeRun
  <2>5. resolved' \in [Run -> Seq(OutcomeKind)]  BY <2>3, <2>4
  <2>6. reported' = reported \/ reported' = [reported EXCEPT ![r] = @ + 1]
    BY <1>3 DEF FinalizeRun
  <2>7. reported' \in [Run -> Nat]  BY <2>3, <2>6
  <2> QED  BY <1>1, <2>1, <2>2, <2>5, <2>7
<1> QED  BY <1>2, <1>3

LEMMA EnqueueReadyType ==
  ASSUME TypeOK, NEW r \in Run, EnqueueReady(r)
  PROVE  /\ status' \in [Run -> {"absent", "waiting", "ready", "terminal"}]
         /\ readyQueue' \in Seq(Run)
<1>1. /\ status \in [Run -> {"absent", "waiting", "ready", "terminal"}]
      /\ readyQueue \in Seq(Run)
  BY DEF TypeOK
<1> QED  BY <1>1 DEF EnqueueReady

(* What the steps leave alone needs no proof of its own.                    *)
LEMMA StepTypeOK == TypeOK /\ [Next]_vars => TypeOK'
<1> SUFFICES ASSUME TypeOK, [Next]_vars PROVE TypeOK'  OBVIOUS
<1> USE DEF queueVars, pumpVars, runVars
<1>1. ASSUME NEW r \in Run, CallStart(r) PROVE TypeOK'
  <2>1. status' \in [Run -> {"absent", "waiting", "ready", "terminal"}]
    BY <1>1 DEF CallStart, TypeOK
  <2>2. starts' \in Seq(Run) /\ runs' \in SUBSET Run  BY <1>1 DEF CallStart, TypeOK
  <2> QED  BY <1>1, <2>1, <2>2 DEF CallStart, TypeOK
<1>2. ASSUME NEW r \in Run, StartReturns(r) PROVE TypeOK'
  <2>1. starts' \in Seq(Run)  BY <1>2 DEF StartReturns, Innermost, Unwind, TypeOK
  <2>2. handle' \in [Run -> BOOLEAN]  BY <1>2 DEF StartReturns, TypeOK
  <2>3. EnqueueReady(r) /\ pumpScheduled'  BY <1>2 DEF StartReturns, SchedulePump
  <2> QED  BY <1>2, <2>1, <2>2, <2>3, EnqueueReadyType DEF StartReturns, TypeOK
<1>3. ASSUME NEW r \in Run, StartThrows(r) PROVE TypeOK'
  <2>1. starts' \in Seq(Run)  BY <1>3 DEF StartThrows, Innermost, Unwind, TypeOK
  <2>2. FinalizeRun(r, "failed") /\ "failed" \in OutcomeKind
    BY <1>3 DEF StartThrows, OutcomeKind
  <2> QED  BY <1>3, <2>1, <2>2, FinalizeRunType DEF StartThrows, TypeOK
<1>4. ASSUME NEW r \in Run, Cancel(r) PROVE TypeOK'
  <2>1. FinalizeRun(r, "cancelled") /\ "cancelled" \in OutcomeKind
    BY <1>4 DEF Cancel, OutcomeKind
  <2> QED  BY <1>4, <2>1, FinalizeRunType DEF Cancel, TypeOK
<1>5. ASSUME NEW r \in Run, StepSettles(r) PROVE TypeOK'
  <2>1. inFlight' \in [Run -> Nat]  BY <1>5 DEF StepSettles, TypeOK
  <2>2. PICK kind \in EventKind :
          externalQueue' = Append(externalQueue, [run |-> r, kind |-> kind])
    BY <1>5 DEF StepSettles
  <2>3. [run |-> r, kind |-> kind] \in Event  BY DEF Event
  <2>4. externalQueue' \in Seq(Event)  BY <2>2, <2>3 DEF TypeOK
  <2>5. pumpScheduled'  BY <1>5 DEF StepSettles, SchedulePump
  <2> QED  BY <1>5, <2>1, <2>4, <2>5 DEF StepSettles, TypeOK
<1>6. CASE PumpTask
  <2>1. used' \in 0..Budget  BY <1>6, BudgetAssumption DEF PumpTask
  <2> QED  BY <1>6, <2>1 DEF PumpTask, TypeOK
<1>7. CASE DrainEvent
  <2> DEFINE event == Head(externalQueue)
  <2>1. event \in Event /\ externalQueue' \in Seq(Event)
    BY <1>7 DEF DrainEvent, TypeOK
  <2>2. event.run \in Run /\ OutcomeOf(event) \in OutcomeKind
    BY <2>1 DEF Event, OutcomeOf, OutcomeKind
  <2>3. /\ UNCHANGED <<handle, inFlight, pumpScheduled, pump, used, starts>>
        /\ \/ UNCHANGED <<runVars, readyQueue, callee>>
           \/ EnqueueReady(event.run) /\ UNCHANGED <<runs, resolved, reported, callee>>
           \/ /\ FinalizeRun(event.run, OutcomeOf(event))
              /\ callee' = ReportOf(event.run, OutcomeOf(event))
              /\ UNCHANGED readyQueue
    BY <1>7 DEF DrainEvent
  <2> HIDE DEF event
  <2> QED  BY <2>1, <2>2, <2>3, EnqueueReadyType, FinalizeRunType DEF TypeOK
<1>8. CASE DrainDone
  <2>1. used' \in 0..Budget  BY <1>8, BudgetAssumption DEF DrainDone
  <2> QED  BY <1>8, <2>1 DEF DrainDone, TypeOK
<1>9. CASE ServeReady
  <2> DEFINE r == Head(readyQueue)
  <2>1. r \in Run /\ readyQueue' \in Seq(Run)  BY <1>9 DEF ServeReady, TypeOK
  <2>2. used' \in 0..Budget
    <3>1. used \in 0..Budget  BY DEF TypeOK
    <3>2. used < Budget /\ (used' = used \/ used' = used + 1)
      BY <1>9 DEF ServeReady, BudgetLeft
    <3> QED  BY <3>1, <3>2, BudgetAssumption
  <2>3. callee' \in Callee  BY <1>9, <2>1 DEF ServeReady, TypeOK, Callee
  <2>4. status' \in [Run -> {"absent", "waiting", "ready", "terminal"}]
    BY <1>9, <2>1 DEF ServeReady, TypeOK
  <2> QED  BY <1>9, <2>1, <2>2, <2>3, <2>4 DEF ServeReady, TypeOK
<1>10. CASE ServeDone
  BY <1>10 DEF ServeDone, SchedulePump, TypeOK
<1>11. CASE StepReturns
  <2>1. callee' \in Callee  BY <1>11 DEF StepReturns, Callee
  <2>2. inFlight' \in [Run -> Nat]
    <3>1. inFlight \in [Run -> Nat]  BY DEF TypeOK
    <3>2. inFlight' = [inFlight EXCEPT ![callee.run] = @ + 1] /\ callee.run \in Run
      BY <1>11 DEF StepReturns, TypeOK, Callee, NoCall
    <3> QED  BY <3>1, <3>2
  <2> QED  BY <1>11, <2>1, <2>2 DEF StepReturns, TypeOK
<1>12. CASE StepThrows
  <2>1. callee.run \in Run /\ "failed" \in OutcomeKind
    BY <1>12 DEF StepThrows, TypeOK, Callee, NoCall, OutcomeKind
  <2>2. FinalizeRun(callee.run, "failed")  BY <1>12 DEF StepThrows
  <2> QED  BY <1>12, <2>1, <2>2, FinalizeRunType DEF StepThrows, TypeOK
<1>13. CASE ReportReturns
  BY <1>13 DEF ReportReturns, TypeOK, Callee
<1>14. CASE UNCHANGED vars
  BY <1>14 DEF vars, TypeOK
<1> QED  BY NextCases, <1>1, <1>2, <1>3, <1>4, <1>5, <1>6, <1>7, <1>8, <1>9,
            <1>10, <1>11, <1>12, <1>13, <1>14

(* Type correctness.                                                        *)
THEOREM TypeCorrect == Spec => []TypeOK
<1>1. Init => TypeOK  BY InitTypeOK
<1>2. TypeOK /\ [Next]_vars => TypeOK'  BY StepTypeOK
<1> QED  BY <1>1, <1>2, PTL DEF Spec

-----------------------------------------------------------------------------
(* Work in a queue always has a pump coming for it.                         *)
LEMMA StepWorkHasPump == WorkHasPump /\ [Next]_vars => WorkHasPump'
<1> SUFFICES ASSUME WorkHasPump, [Next]_vars PROVE WorkHasPump'  OBVIOUS
<1> USE DEF WorkHasPump, queueVars, pumpVars, runVars, SchedulePump
<1>1. CASE \E r \in Run : CallStart(r)  BY <1>1 DEF CallStart
<1>2. CASE \E r \in Run : StartReturns(r)  BY <1>2 DEF StartReturns
<1>3. CASE \E r \in Run : StartThrows(r)  BY <1>3 DEF StartThrows
<1>4. CASE \E r \in Run : Cancel(r)  BY <1>4 DEF Cancel
<1>5. CASE \E r \in Run : StepSettles(r)  BY <1>5 DEF StepSettles
<1>6. CASE PumpTask  BY <1>6 DEF PumpTask
<1>7. CASE DrainEvent  BY <1>7 DEF DrainEvent
<1>8. CASE DrainDone  BY <1>8 DEF DrainDone
<1>9. CASE ServeReady  BY <1>9 DEF ServeReady
<1>10. CASE ServeDone  BY <1>10 DEF ServeDone
<1>11. CASE StepReturns  BY <1>11 DEF StepReturns
<1>12. CASE StepThrows  BY <1>12 DEF StepThrows
<1>13. CASE ReportReturns  BY <1>13 DEF ReportReturns
<1>14. CASE UNCHANGED vars  BY <1>14 DEF vars
<1> QED  BY NextCases, <1>1, <1>2, <1>3, <1>4, <1>5, <1>6, <1>7, <1>8, <1>9,
            <1>10, <1>11, <1>12, <1>13, <1>14

(* No wake-up is lost: schedulePump's coalescing flag and the ways out of   *)
(* pump never leave a ready run or an event behind with nobody to serve it. *)
THEOREM NoLostWakeup == Spec => []WorkHasPump
<1>1. Init => WorkHasPump  BY DEF Init, WorkHasPump
<1>2. WorkHasPump /\ [Next]_vars => WorkHasPump'  BY StepWorkHasPump
<1> QED  BY <1>1, <1>2, PTL DEF Spec

-----------------------------------------------------------------------------
(* A run is settled once.  finalizeRun is called for runs of the map, but   *)
(* for two: the run whose start() is on the stack and the run being         *)
(* stepped.  Both have been started.                                        *)
Known ==
  /\ \A i \in DOMAIN starts : status[starts[i]] # "absent"
  /\ callee # NoCall => status[callee.run] # "absent"

SettledInv == TypeOK /\ SettledOnce /\ Known

LEMMA BelowOne == ASSUME NEW n \in Nat, n # 1, n <= 1 PROVE n = 0
OBVIOUS

(* What has not settled has no outcome.                                     *)
LEMMA Unsettled ==
  ASSUME TypeOK, SettledOnce, NEW r \in Run, status[r] # "terminal"
  PROVE  resolved[r] = <<>> /\ reported[r] = 0
<1>1. resolved[r] \in Seq(OutcomeKind)  BY DEF TypeOK
<1>2. Len(resolved[r]) # 1 /\ Len(resolved[r]) <= 1  BY DEF SettledOnce
<1>3. Len(resolved[r]) \in Nat  BY <1>1
<1>4. Len(resolved[r]) = 0  BY <1>2, <1>3, BelowOne
<1>5. resolved[r] = <<>>  BY <1>1, <1>4
<1>6. <<>> # <<"failed">>  OBVIOUS
<1> QED  BY <1>5, <1>6 DEF SettledOnce

LEMMA FinalizeRunSettles ==
  ASSUME TypeOK, SettledOnce, NEW r \in Run, NEW kind \in OutcomeKind,
         status[r] # "absent", FinalizeRun(r, kind)
  PROVE  /\ SettledOnce'
         /\ \A q \in Run : status[q] # "absent" => status'[q] # "absent"
<1>1. CASE status[r] = "terminal"
  BY <1>1 DEF SettledOnce, FinalizeRun, runVars
<1>2. CASE status[r] # "terminal"
  <2>1. /\ status \in [Run -> {"absent", "waiting", "ready", "terminal"}]
        /\ resolved \in [Run -> Seq(OutcomeKind)]
        /\ reported \in [Run -> Nat]
    BY DEF TypeOK
  <2>2. /\ status' = [status EXCEPT ![r] = "terminal"]
        /\ runs' = runs \ {r}
        /\ resolved' = [resolved EXCEPT ![r] = Append(@, kind)]
        /\ reported' = IF kind = "failed" THEN [reported EXCEPT ![r] = @ + 1] ELSE reported
    BY <1>2 DEF FinalizeRun
  <2>3. resolved[r] = <<>> /\ reported[r] = 0  BY <1>2, Unsettled
  <2>4. resolved'[r] = <<kind>>  BY <2>1, <2>2, <2>3
  <2>5. reported'[r] = IF kind = "failed" THEN 1 ELSE 0  BY <2>1, <2>2, <2>3
  <2>6. ASSUME NEW q \in Run, q # r
        PROVE  /\ status'[q] = status[q] /\ (q \in runs' <=> q \in runs)
               /\ resolved'[q] = resolved[q] /\ reported'[q] = reported[q]
    BY <2>1, <2>2, <2>6
  <2>7. status'[r] = "terminal" /\ r \notin runs'  BY <2>1, <2>2
  <2>8. <<kind>> = <<"failed">> <=> kind = "failed"  OBVIOUS
  <2>9. SettledOnce'
    <3> SUFFICES ASSUME NEW q \in Run
                 PROVE  /\ status'[q] = "terminal" <=> Len(resolved'[q]) = 1
                        /\ Len(resolved'[q]) <= 1
                        /\ q \in runs' <=> status'[q] \in {"waiting", "ready"}
                        /\ reported'[q] = IF resolved'[q] = <<"failed">> THEN 1 ELSE 0
      BY DEF SettledOnce
    <3>1. CASE q = r  BY <3>1, <2>4, <2>5, <2>7, <2>8
    <3>2. CASE q # r  BY <3>2, <2>6 DEF SettledOnce
    <3> QED  BY <3>1, <3>2
  <2> QED  BY <2>6, <2>7, <2>9
<1> QED  BY <1>1, <1>2

LEMMA EnqueueReadySettles ==
  ASSUME TypeOK, SettledOnce, NEW r \in Run, status[r] # "absent",
         EnqueueReady(r), UNCHANGED <<runs, resolved, reported>>
  PROVE  /\ SettledOnce'
         /\ \A q \in Run : status[q] # "absent" => status'[q] # "absent"
<1>1. status \in [Run -> {"absent", "waiting", "ready", "terminal"}]  BY DEF TypeOK
<1> QED  BY <1>1 DEF SettledOnce, EnqueueReady

LEMMA InitSettled == Init => SettledInv
<1> SUFFICES ASSUME Init PROVE SettledInv  OBVIOUS
<1>1. TypeOK  BY InitTypeOK
<1>2. SettledOnce  BY DEF Init, SettledOnce
<1>3. Known  BY DEF Init, Known
<1> QED  BY <1>1, <1>2, <1>3 DEF SettledInv

(* Known goes on as long as no status returns to "absent", the stack only    *)
(* shrinks or is pushed a run that has been started, and likewise callee.   *)
LEMMA KnownKept ==
  ASSUME TypeOK, Known,
         \A q \in Run : status[q] # "absent" => status'[q] # "absent",
         \A i \in DOMAIN starts' :
           \/ status'[starts'[i]] # "absent"
           \/ i \in DOMAIN starts /\ starts'[i] = starts[i],
         callee' \in {NoCall, callee} \/ status'[callee'.run] # "absent"
  PROVE  Known'
<1>1. \A i \in DOMAIN starts : starts[i] \in Run  BY DEF TypeOK
<1>2. callee # NoCall => callee.run \in Run  BY DEF TypeOK, Callee
<1> QED  BY <1>1, <1>2 DEF Known

LEMMA UnwindKeeps ==
  ASSUME TypeOK, starts # <<>>, Unwind
  PROVE  \A i \in DOMAIN starts' : i \in DOMAIN starts /\ starts'[i] = starts[i]
<1>1. starts \in Seq(Run)  BY DEF TypeOK
<1> QED  BY <1>1 DEF Unwind

LEMMA InnermostKnown ==
  ASSUME TypeOK, Known, NEW r \in Run, Innermost(r)
  PROVE  status[r] # "absent" /\ starts # <<>>
<1>1. starts \in Seq(Run)  BY DEF TypeOK
<1>2. Len(starts) \in DOMAIN starts  BY <1>1 DEF Innermost
<1> QED  BY <1>2 DEF Innermost, Known

LEMMA StepSettled == SettledInv /\ [Next]_vars => SettledInv'
<1> SUFFICES ASSUME TypeOK, SettledOnce, Known, [Next]_vars
             PROVE  SettledOnce' /\ Known'
  BY StepTypeOK DEF SettledInv
<1>a. /\ status \in [Run -> {"absent", "waiting", "ready", "terminal"}]
      /\ starts \in Seq(Run)
  BY DEF TypeOK
<1>b. \A r \in Run : r \in runs => status[r] # "absent"  BY DEF SettledOnce
<1>c. ASSUME UNCHANGED <<status, starts>>, callee' \in {NoCall, callee}  PROVE Known'
  BY <1>c, KnownKept
<1>d. ASSUME UNCHANGED runVars PROVE SettledOnce'
  BY <1>d DEF SettledOnce, runVars
<1> USE DEF queueVars, pumpVars
<1>1. ASSUME NEW r \in Run, CallStart(r) PROVE SettledOnce' /\ Known'
  <2>1. SettledOnce'  BY <1>1, <1>a DEF CallStart, SettledOnce, TypeOK
  <2>2. \A q \in Run : status[q] # "absent" => status'[q] # "absent"
    BY <1>1, <1>a DEF CallStart
  <2>3. status'[r] # "absent"  BY <1>1, <1>a DEF CallStart
  <2>4. \A i \in DOMAIN starts' :
          starts'[i] = r \/ (i \in DOMAIN starts /\ starts'[i] = starts[i])
    BY <1>1, <1>a DEF CallStart
  <2>5. callee' = callee  BY <1>1 DEF CallStart
  <2> QED  BY <2>1, <2>2, <2>3, <2>4, <2>5, KnownKept
<1>2. ASSUME NEW r \in Run, StartReturns(r) PROVE SettledOnce' /\ Known'
  <2>1. status[r] # "absent" /\ starts # <<>>
    BY <1>2, InnermostKnown DEF StartReturns
  <2>2. /\ EnqueueReady(r) /\ Unwind
        /\ UNCHANGED <<runs, resolved, reported, callee>>
    BY <1>2 DEF StartReturns
  <2>3. SettledOnce' /\ \A q \in Run : status[q] # "absent" => status'[q] # "absent"
    BY <2>1, <2>2, EnqueueReadySettles
  <2> QED  BY <2>1, <2>2, <2>3, UnwindKeeps, KnownKept
<1>3. ASSUME NEW r \in Run, StartThrows(r) PROVE SettledOnce' /\ Known'
  <2>1. status[r] # "absent" /\ starts # <<>>
    BY <1>3, InnermostKnown DEF StartThrows
  <2>2. FinalizeRun(r, "failed") /\ Unwind /\ callee' = callee
    BY <1>3 DEF StartThrows
  <2>3. SettledOnce' /\ \A q \in Run : status[q] # "absent" => status'[q] # "absent"
    BY <2>1, <2>2, FinalizeRunSettles DEF OutcomeKind
  <2> QED  BY <2>1, <2>2, <2>3, UnwindKeeps, KnownKept
<1>4. ASSUME NEW r \in Run, Cancel(r) PROVE SettledOnce' /\ Known'
  <2>1. FinalizeRun(r, "cancelled") /\ UNCHANGED <<callee, starts>> /\ r \in runs
    BY <1>4 DEF Cancel
  <2>2. SettledOnce' /\ \A q \in Run : status[q] # "absent" => status'[q] # "absent"
    BY <1>b, <2>1, FinalizeRunSettles DEF OutcomeKind
  <2> QED  BY <2>1, <2>2, KnownKept
<1>5. ASSUME NEW r \in Run, StepSettles(r) PROVE SettledOnce' /\ Known'
  BY <1>5, <1>c, <1>d DEF StepSettles, runVars
<1>6. CASE PumpTask  BY <1>6, <1>c, <1>d DEF PumpTask, runVars
<1>7. CASE DrainEvent
  <2> DEFINE event == Head(externalQueue)
  <2>1. event.run \in Run /\ OutcomeOf(event) \in OutcomeKind
    <3>1. event \in Event  BY <1>7 DEF DrainEvent, TypeOK
    <3> QED  BY <3>1 DEF Event, OutcomeOf, OutcomeKind
  <2>2. /\ starts' = starts
        /\ \/ UNCHANGED <<runVars, callee>>
           \/ /\ event.run \in runs
              /\ EnqueueReady(event.run) /\ UNCHANGED <<runs, resolved, reported, callee>>
           \/ /\ event.run \in runs
              /\ FinalizeRun(event.run, OutcomeOf(event))
              /\ callee' = ReportOf(event.run, OutcomeOf(event))
    BY <1>7 DEF DrainEvent
  <2> HIDE DEF event
  <2>3. CASE UNCHANGED <<runVars, callee>>
    BY <1>c, <1>d, <2>2, <2>3 DEF runVars
  <2>4. CASE /\ event.run \in runs
             /\ EnqueueReady(event.run) /\ UNCHANGED <<runs, resolved, reported, callee>>
    BY <1>b, <2>1, <2>2, <2>4, EnqueueReadySettles, KnownKept
  <2>5. CASE /\ event.run \in runs
             /\ FinalizeRun(event.run, OutcomeOf(event))
             /\ callee' = ReportOf(event.run, OutcomeOf(event))
    <3>1. /\ SettledOnce'
          /\ \A q \in Run : status[q] # "absent" => status'[q] # "absent"
      BY <1>b, <2>1, <2>5, FinalizeRunSettles
    <3>2. callee' = NoCall \/ callee'.run = event.run  BY <2>5 DEF ReportOf
    <3> QED  BY <1>b, <2>1, <2>2, <2>5, <3>1, <3>2, KnownKept
  <2> QED  BY <2>2, <2>3, <2>4, <2>5
<1>8. CASE DrainDone  BY <1>8, <1>c, <1>d DEF DrainDone, runVars
<1>9. CASE ServeReady
  <2> DEFINE r == Head(readyQueue)
  <2>1. r \in Run  BY <1>9 DEF ServeReady, TypeOK
  <2>2. /\ UNCHANGED <<runs, resolved, reported, starts>>
        /\ \/ UNCHANGED <<status, callee>>
           \/ /\ Runnable(r)
              /\ status' = [status EXCEPT ![r] = "waiting"]
              /\ callee' = [kind |-> "step", run |-> r]
    BY <1>9 DEF ServeReady
  <2> HIDE DEF r
  <2>3. CASE UNCHANGED <<status, callee>>
    BY <1>c, <1>d, <2>2, <2>3 DEF runVars
  <2>4. CASE /\ Runnable(r)
             /\ status' = [status EXCEPT ![r] = "waiting"]
             /\ callee' = [kind |-> "step", run |-> r]
    <3>1. SettledOnce'  BY <1>a, <2>1, <2>2, <2>4 DEF SettledOnce, Runnable
    <3>2. \A q \in Run : status[q] # "absent" => status'[q] # "absent"
      BY <1>a, <2>1, <2>4
    <3>3. status'[callee'.run] # "absent"  BY <1>a, <2>1, <2>4
    <3> QED  BY <2>2, <3>1, <3>2, <3>3, KnownKept
  <2> QED  BY <2>2, <2>3, <2>4
<1>10. CASE ServeDone  BY <1>10, <1>c, <1>d DEF ServeDone, runVars
<1>11. CASE StepReturns  BY <1>11, <1>c, <1>d DEF StepReturns, runVars
<1>12. CASE StepThrows
  <2>1. callee # NoCall /\ callee.run \in Run /\ status[callee.run] # "absent"
    BY <1>12 DEF StepThrows, TypeOK, Callee, NoCall, Known
  <2>2. /\ FinalizeRun(callee.run, "failed") /\ starts' = starts
        /\ callee' = NoCall \/ callee'.run = callee.run
    BY <1>12 DEF StepThrows, ReportOf
  <2>3. /\ SettledOnce'
        /\ \A q \in Run : status[q] # "absent" => status'[q] # "absent"
    BY <2>1, <2>2, FinalizeRunSettles DEF OutcomeKind
  <2> QED  BY <2>1, <2>2, <2>3, KnownKept
<1>13. CASE ReportReturns  BY <1>13, <1>c, <1>d DEF ReportReturns, runVars
<1>14. CASE UNCHANGED vars  BY <1>14, <1>c, <1>d DEF vars, runVars
<1> QED  BY NextCases, <1>1, <1>2, <1>3, <1>4, <1>5, <1>6, <1>7, <1>8, <1>9,
            <1>10, <1>11, <1>12, <1>13, <1>14

(* A run settles once: one resolveOutcome, made when it leaves the map, and *)
(* one call of the failure observer if it failed.                           *)
THEOREM SettlesOnce == Spec => []SettledOnce
<1>1. Init => SettledInv  BY InitSettled
<1>2. SettledInv /\ [Next]_vars => SettledInv'  BY StepSettled
<1>3. SettledInv => SettledOnce  BY DEF SettledInv
<1> QED  BY <1>1, <1>2, <1>3, PTL DEF Spec

(* No step of a settled run begins: the only step that calls run.step is    *)
(* ServeReady, for a run that is ready.                                     *)
THEOREM SettledRunsRest == Spec => NoStepAfterSettled
<1>1. SettledInv /\ [Next]_vars => StepsUnsettled
  <2> SUFFICES ASSUME SettledInv, [Next]_vars, NEW r \in Run,
                      callee' = [kind |-> "step", run |-> r], callee' # callee
               PROVE  resolved[r] = <<>>
    BY DEF StepsUnsettled
  <2>1. callee'.kind = "step" /\ callee'.run = r  OBVIOUS
  <2>2. callee' # NoCall  BY <2>1 DEF NoCall
  <2>3. \A q, kind : callee' # ReportOf(q, kind)  BY <2>1, <2>2 DEF ReportOf
  <2>4. ServeReady
    BY <2>2, <2>3, NextCases
       DEF CallStart, StartReturns, StartThrows, Cancel, StepSettles, PumpTask,
           DrainEvent, DrainDone, ServeDone, StepReturns, StepThrows,
           ReportReturns, pumpVars, vars
  <2>5. status[r] = "ready"  BY <2>1, <2>4 DEF ServeReady, Runnable
  <2> QED  BY <2>5, Unsettled DEF SettledInv
<1>2. Init => SettledInv  BY InitSettled
<1>3. SettledInv /\ [Next]_vars => SettledInv'  BY StepSettled
<1> QED  BY <1>1, <1>2, <1>3, PTL DEF Spec, NoStepAfterSettled

-----------------------------------------------------------------------------
(* RunScheduler implements RunContract.  The proof rests on OneToken: where *)
(* the right to move a run lies says which phase of the contract it is in.  *)
(* The runs of the queued events.                                           *)
EventRuns == [i \in DOMAIN externalQueue |-> externalQueue[i].run]

LEMMA EventRunsType == TypeOK => EventRuns \in Seq(Run)
<1> SUFFICES ASSUME TypeOK PROVE EventRuns \in Seq(Run)  OBVIOUS
<1>1. externalQueue \in Seq(Event)  BY DEF TypeOK
<1>2. PICK n \in Nat : n = Len(externalQueue) /\ DOMAIN externalQueue = 1 .. n
  BY <1>1
<1>3. \A i \in 1 .. n : externalQueue[i].run \in Run
  <2>1. \A i \in 1 .. n : externalQueue[i] \in Event  BY <1>1, <1>2
  <2> QED  BY <2>1 DEF Event
<1>4. [i \in 1 .. n |-> externalQueue[i].run] \in Seq(Run)  BY <1>3, IsASeq
<1> QED  BY <1>2, <1>4 DEF EventRuns

LEMMA EventAppended ==
  ASSUME TypeOK, NEW event \in Event, externalQueue' = Append(externalQueue, event)
  PROVE  EventRuns' = Append(EventRuns, event.run)
<1>1. externalQueue \in Seq(Event) /\ EventRuns \in Seq(Run)
  BY EventRunsType DEF TypeOK
<1>2. PICK n \in Nat : n = Len(externalQueue) /\ DOMAIN externalQueue = 1 .. n
  BY <1>1
<1>3. DOMAIN EventRuns = 1 .. n /\ Len(EventRuns) = n  BY <1>1, <1>2 DEF EventRuns
<1>4. DOMAIN EventRuns' = 1 .. n + 1  BY <1>1, <1>2 DEF EventRuns
<1>5. \A i \in 1 .. n + 1 :
        EventRuns'[i] = IF i = n + 1 THEN event.run ELSE EventRuns[i]
  BY <1>1, <1>2 DEF EventRuns
<1>6. EventRuns' = [i \in 1 .. n + 1 |-> EventRuns'[i]]
  BY <1>4 DEF EventRuns
<1> QED  BY <1>3, <1>5, <1>6

LEMMA EventTaken ==
  ASSUME TypeOK, externalQueue # <<>>, externalQueue' = Tail(externalQueue)
  PROVE  /\ EventRuns # <<>>
         /\ EventRuns' = Tail(EventRuns)
         /\ Head(EventRuns) = Head(externalQueue).run
<1>1. externalQueue \in Seq(Event) /\ EventRuns \in Seq(Run)
  BY EventRunsType DEF TypeOK
<1>2. PICK n \in Nat : n > 0 /\ n = Len(externalQueue) /\ DOMAIN externalQueue = 1 .. n
  BY <1>1
<1>3. DOMAIN EventRuns = 1 .. n /\ Len(EventRuns) = n  BY <1>1, <1>2 DEF EventRuns
<1>4. DOMAIN EventRuns' = 1 .. n - 1  BY <1>1, <1>2 DEF EventRuns
<1>5. \A i \in 1 .. n - 1 : EventRuns'[i] = EventRuns[i + 1]
  <2> TAKE i \in 1 .. n - 1
  <2>1. externalQueue'[i] = externalQueue[i + 1]  BY <1>1, <1>2
  <2>2. i + 1 \in 1 .. n  BY <1>2
  <2> QED  BY <1>2, <1>4, <2>1, <2>2 DEF EventRuns
<1>6. EventRuns' = [i \in 1 .. n - 1 |-> EventRuns'[i]]
  BY <1>4 DEF EventRuns
<1>7. EventRuns # <<>>  BY <1>2, <1>3
<1>8. EventRuns' = Tail(EventRuns)  BY <1>1, <1>3, <1>5, <1>6, <1>7
<1>9. Head(EventRuns) = Head(externalQueue).run
  <2>1. 1 \in 1 .. n  BY <1>2
  <2> QED  BY <1>1, <1>2, <1>3, <1>7, <2>1 DEF EventRuns
<1> QED  BY <1>7, <1>8, <1>9

-----------------------------------------------------------------------------
(* The inductive form of OneToken: per run, where it may be found and what  *)
(* its status says of it.                                                   *)
TokenOf(r) ==
  /\ r \in runs => \E p \in Place : Holds(p, r)
  /\ \A p, q \in Place : Holds(p, r) /\ Holds(q, r) => p = q
  /\ inFlight[r] <= 1
  /\ status[r] = "absent" => \A p \in Place : ~Holds(p, r)
  /\ Holds("ready", r) => status[r] \in {"ready", "terminal"}
  /\ status[r] = "ready" => Holds("ready", r)

NoRepeats == IsInjective(starts) /\ IsInjective(readyQueue) /\ IsInjective(EventRuns)

TokenInv == SettledInv /\ NoRepeats /\ \A r \in Run : TokenOf(r)

LEMMA Places ==
  ASSUME NEW r
  PROVE  /\ Holds("start", r) <=> In(starts, r)
         /\ Holds("ready", r) <=> In(readyQueue, r)
         /\ Holds("step", r) <=> callee = [kind |-> "step", run |-> r]
         /\ Holds("promise", r) <=> inFlight[r] > 0
         /\ Holds("event", r) <=> In(EventRuns, r)
<1>1. Holds("event", r) <=> \E i \in DOMAIN externalQueue : externalQueue[i].run = r
  BY DEF Holds
<1>2. In(EventRuns, r) <=> \E i \in DOMAIN externalQueue : externalQueue[i].run = r
  BY DEF In, EventRuns
<1> QED  BY <1>1, <1>2 DEF Holds, In

LEMMA PlacesNext ==
  ASSUME NEW r
  PROVE  /\ Holds("start", r)' <=> In(starts', r)
         /\ Holds("ready", r)' <=> In(readyQueue', r)
         /\ Holds("step", r)' <=> callee' = [kind |-> "step", run |-> r]
         /\ Holds("promise", r)' <=> inFlight'[r] > 0
         /\ Holds("event", r)' <=> In(EventRuns', r)
<1>1. Holds("event", r)' <=> \E i \in DOMAIN externalQueue' : externalQueue'[i].run = r
  BY DEF Holds
<1>2. In(EventRuns', r) <=> \E i \in DOMAIN externalQueue' : externalQueue'[i].run = r
  BY DEF In, EventRuns
<1> QED  BY <1>1, <1>2 DEF Holds, In

LEMMA TokenInvToken == TokenInv => OneToken
<1> SUFFICES ASSUME TokenInv PROVE OneToken  OBVIOUS
<1>1. runs \subseteq Run  BY DEF TokenInv, SettledInv, TypeOK
<1>2. \A i, j \in DOMAIN externalQueue :
        externalQueue[i].run = externalQueue[j].run => i = j
  BY DEF TokenInv, NoRepeats, IsInjective, EventRuns
<1> QED  BY <1>1, <1>2 DEF TokenInv, NoRepeats, TokenOf, OneToken

(* A run whose token stays where it is.                                     *)
LEMMA TokenStays ==
  ASSUME NEW r \in Run, TokenOf(r),
         \A p \in Place : Holds(p, r)' <=> Holds(p, r),
         inFlight'[r] = inFlight[r],
         status'[r] \in {status[r], "terminal"},
         r \in runs' => r \in runs
  PROVE  TokenOf(r)'
BY DEF TokenOf, Place

(* A run whose token is in one place after the step.                        *)
LEMMA TokenAt ==
  ASSUME NEW r \in Run, NEW to \in Place,
         \A p \in Place : Holds(p, r)' <=> p = to,
         inFlight'[r] <= 1, status'[r] # "absent",
         to = "ready" <=> status'[r] = "ready"
  PROVE  TokenOf(r)'
BY DEF TokenOf, Place

(* A run that has settled and that nothing is queued for any more.          *)
LEMMA TokenGone ==
  ASSUME NEW r \in Run, \A p \in Place : ~Holds(p, r)',
         inFlight'[r] <= 1, status'[r] = "terminal", r \notin runs'
  PROVE  TokenOf(r)'
BY DEF TokenOf, Place

LEMMA CallStartToken ==
  ASSUME TokenInv, NEW r \in Run, CallStart(r)
  PROVE  NoRepeats' /\ \A q \in Run : TokenOf(q)'
<1>1. /\ starts \in Seq(Run) /\ status \in [Run -> {"absent", "waiting", "ready", "terminal"}]
      /\ inFlight \in [Run -> Nat]
  BY DEF TokenInv, SettledInv, TypeOK
<1>2. /\ starts' = Append(starts, r) /\ status[r] = "absent"
      /\ status' = [status EXCEPT ![r] = "waiting"] /\ runs' = runs \cup {r}
      /\ UNCHANGED <<inFlight, readyQueue, externalQueue, callee>>
  BY DEF CallStart, queueVars, pumpVars
<1>3. TokenOf(r) /\ NoRepeats  BY DEF TokenInv
<1>4. \A p \in Place : ~Holds(p, r)  BY <1>2, <1>3 DEF TokenOf
<1>5. ~In(starts, r) /\ ~In(readyQueue, r) /\ ~In(EventRuns, r) /\ ~(inFlight[r] > 0)
      /\ callee # [kind |-> "step", run |-> r]
  BY <1>4, Places DEF Place
<1>6. /\ \A q : In(starts', q) <=> q = r \/ In(starts, q)
      /\ IsInjective(starts')
  BY <1>1, <1>2, <1>3, <1>5, AppendIn DEF NoRepeats
<1>7. EventRuns' = EventRuns  BY <1>2 DEF EventRuns
<1>8. NoRepeats'  BY <1>2, <1>3, <1>6, <1>7 DEF NoRepeats
<1>9. TokenOf(r)'
  <2>1. \A p \in Place : Holds(p, r)' <=> p = "start"
    BY <1>2, <1>5, <1>6, <1>7, PlacesNext DEF Place
  <2>2. inFlight'[r] <= 1  BY <1>2, <1>3 DEF TokenOf
  <2>3. status'[r] = "waiting"  BY <1>1, <1>2
  <2> QED  BY <2>1, <2>2, <2>3, TokenAt DEF Place
<1>10. ASSUME NEW q \in Run, q # r PROVE TokenOf(q)'
  <2>1. \A p \in Place : Holds(p, q)' <=> Holds(p, q)
    BY <1>2, <1>6, <1>7, <1>10, Places, PlacesNext DEF Place
  <2>2. status'[q] = status[q] /\ inFlight'[q] = inFlight[q] /\ (q \in runs' => q \in runs)
    BY <1>1, <1>2, <1>10
  <2> QED  BY <2>1, <2>2, TokenStays DEF TokenInv
<1> QED  BY <1>8, <1>9, <1>10

(* start() returns or throws: the run leaves the stack for the ready queue, *)
(* or settles.                                                              *)
LEMMA Unwound ==
  ASSUME TokenInv, NEW r \in Run, Innermost(r), Unwind
  PROVE  /\ \A q : In(starts', q) <=> In(starts, q) /\ q # r
         /\ IsInjective(starts')
         /\ In(starts, r)
<1>1. starts \in Seq(Run) /\ IsInjective(starts)
  BY DEF TokenInv, NoRepeats, SettledInv, TypeOK
<1> QED  BY <1>1, FrontIn DEF Innermost, Unwind

LEMMA StartReturnsToken ==
  ASSUME TokenInv, NEW r \in Run, StartReturns(r)
  PROVE  NoRepeats' /\ \A q \in Run : TokenOf(q)'
<1>1. /\ readyQueue \in Seq(Run) /\ status \in [Run -> {"absent", "waiting", "ready", "terminal"}]
      /\ inFlight \in [Run -> Nat]
  BY DEF TokenInv, SettledInv, TypeOK
<1>2. /\ Innermost(r) /\ Unwind /\ EnqueueReady(r)
      /\ UNCHANGED <<runs, inFlight, externalQueue, callee>>
  BY DEF StartReturns, pumpVars
<1>3. TokenOf(r) /\ NoRepeats /\ SettledOnce  BY DEF TokenInv, SettledInv
<1>4. /\ \A q : In(starts', q) <=> In(starts, q) /\ q # r
      /\ IsInjective(starts') /\ In(starts, r)
  BY <1>2, Unwound
<1>5. Holds("start", r)  BY <1>4, Places
<1>6. ~In(readyQueue, r) /\ ~In(EventRuns, r) /\ ~(inFlight[r] > 0)
      /\ callee # [kind |-> "step", run |-> r]
  BY <1>3, <1>5, Places DEF TokenOf, Place
<1>7. status[r] \in {"waiting", "terminal"}
  BY <1>1, <1>3, <1>5, <1>6, Places DEF TokenOf, Place
<1>8. EventRuns' = EventRuns  BY <1>2 DEF EventRuns
<1>9. CASE status[r] = "terminal"
  <2>1. UNCHANGED <<status, readyQueue>>  BY <1>2, <1>9 DEF EnqueueReady
  <2>2. NoRepeats'  BY <1>3, <1>4, <1>8, <2>1 DEF NoRepeats
  <2>3. TokenOf(r)'
    <3>1. \A p \in Place : ~Holds(p, r)'
      BY <1>2, <1>4, <1>6, <1>8, <2>1, PlacesNext DEF Place
    <3>2. inFlight'[r] <= 1 /\ status'[r] = "terminal" /\ r \notin runs'
      BY <1>2, <1>3, <1>9, <2>1 DEF TokenOf, SettledOnce
    <3> QED  BY <3>1, <3>2, TokenGone
  <2>4. ASSUME NEW q \in Run, q # r PROVE TokenOf(q)'
    <3>1. \A p \in Place : Holds(p, q)' <=> Holds(p, q)
      BY <1>2, <1>4, <1>8, <2>1, <2>4, Places, PlacesNext DEF Place
    <3> QED  BY <1>2, <2>1, <3>1, TokenStays DEF TokenInv
  <2> QED  BY <2>2, <2>3, <2>4
<1>10. CASE status[r] = "waiting"
  <2>1. status' = [status EXCEPT ![r] = "ready"] /\ readyQueue' = Append(readyQueue, r)
    BY <1>2, <1>10 DEF EnqueueReady
  <2>2. /\ \A q : In(readyQueue', q) <=> q = r \/ In(readyQueue, q)
        /\ IsInjective(readyQueue')
    BY <1>1, <1>3, <1>6, <2>1, AppendIn DEF NoRepeats
  <2>3. NoRepeats'  BY <1>3, <1>4, <1>8, <2>2 DEF NoRepeats
  <2>4. TokenOf(r)'
    <3>1. \A p \in Place : Holds(p, r)' <=> p = "ready"
      BY <1>2, <1>4, <1>6, <1>8, <2>2, PlacesNext DEF Place
    <3>2. inFlight'[r] <= 1 /\ status'[r] = "ready"
      BY <1>1, <1>2, <1>3, <2>1 DEF TokenOf
    <3> QED  BY <3>1, <3>2, TokenAt DEF Place
  <2>5. ASSUME NEW q \in Run, q # r PROVE TokenOf(q)'
    <3>1. \A p \in Place : Holds(p, q)' <=> Holds(p, q)
      BY <1>2, <1>4, <1>8, <2>2, <2>5, Places, PlacesNext DEF Place
    <3>2. status'[q] = status[q]  BY <1>1, <2>1, <2>5
    <3> QED  BY <1>2, <3>1, <3>2, TokenStays DEF TokenInv
  <2> QED  BY <2>3, <2>4, <2>5
<1> QED  BY <1>7, <1>9, <1>10

LEMMA Finalized ==
  ASSUME TypeOK, SettledOnce, NEW r \in Run, NEW kind, FinalizeRun(r, kind)
  PROVE  /\ status'[r] = "terminal" /\ r \notin runs' /\ runs' \subseteq runs
         /\ \A q \in Run : status'[q] \in {status[q], "terminal"}
<1>1. status \in [Run -> {"absent", "waiting", "ready", "terminal"}]  BY DEF TypeOK
<1>2. CASE status[r] = "terminal"
  BY <1>2 DEF FinalizeRun, runVars, SettledOnce
<1>3. CASE status[r] # "terminal"
  BY <1>1, <1>3 DEF FinalizeRun
<1> QED  BY <1>2, <1>3

LEMMA StartThrowsToken ==
  ASSUME TokenInv, NEW r \in Run, StartThrows(r)
  PROVE  NoRepeats' /\ \A q \in Run : TokenOf(q)'
<1>1. /\ Innermost(r) /\ Unwind /\ FinalizeRun(r, "failed")
      /\ UNCHANGED <<readyQueue, inFlight, externalQueue, callee>>
  BY DEF StartThrows, pumpVars, queueVars
<1>2. TokenOf(r) /\ NoRepeats /\ SettledOnce /\ TypeOK  BY DEF TokenInv, SettledInv
<1>3. /\ \A q : In(starts', q) <=> In(starts, q) /\ q # r
      /\ IsInjective(starts') /\ In(starts, r)
  BY <1>1, Unwound
<1>4. ~In(readyQueue, r) /\ ~In(EventRuns, r) /\ ~(inFlight[r] > 0)
      /\ callee # [kind |-> "step", run |-> r]
  BY <1>2, <1>3, Places DEF TokenOf, Place
<1>5. EventRuns' = EventRuns  BY <1>1 DEF EventRuns
<1>6. /\ status'[r] = "terminal" /\ r \notin runs' /\ runs' \subseteq runs
      /\ \A q \in Run : status'[q] \in {status[q], "terminal"}
  BY <1>1, <1>2, Finalized
<1>7. NoRepeats'  BY <1>1, <1>2, <1>3, <1>5 DEF NoRepeats
<1>8. TokenOf(r)'
  <2>1. \A p \in Place : ~Holds(p, r)'
    BY <1>1, <1>3, <1>4, <1>5, PlacesNext DEF Place
  <2>2. inFlight'[r] <= 1  BY <1>1, <1>2 DEF TokenOf
  <2> QED  BY <1>6, <2>1, <2>2, TokenGone
<1>9. ASSUME NEW q \in Run, q # r PROVE TokenOf(q)'
  <2>1. \A p \in Place : Holds(p, q)' <=> Holds(p, q)
    BY <1>1, <1>3, <1>5, <1>9, Places, PlacesNext DEF Place
  <2> QED  BY <1>1, <1>6, <2>1, TokenStays DEF TokenInv
<1> QED  BY <1>7, <1>8, <1>9

(* Steps that move no token.                                                *)
LEMMA StillToken ==
  ASSUME TokenInv, UNCHANGED <<starts, readyQueue, inFlight, externalQueue>>,
         \A q \in Run : callee' = [kind |-> "step", run |-> q]
                        <=> callee = [kind |-> "step", run |-> q],
         \A q \in Run : status'[q] \in {status[q], "terminal"},
         runs' \subseteq runs
  PROVE  NoRepeats' /\ \A q \in Run : TokenOf(q)'
<1>1. EventRuns' = EventRuns  BY DEF EventRuns
<1>2. NoRepeats'  BY <1>1 DEF TokenInv, NoRepeats
<1>3. ASSUME NEW q \in Run PROVE TokenOf(q)'
  <2>1. \A p \in Place : Holds(p, q)' <=> Holds(p, q)
    BY <1>1, Places, PlacesNext DEF Place
  <2> QED  BY <2>1, TokenStays DEF TokenInv
<1> QED  BY <1>2, <1>3

LEMMA CancelToken ==
  ASSUME TokenInv, NEW r \in Run, Cancel(r)
  PROVE  NoRepeats' /\ \A q \in Run : TokenOf(q)'
<1>1. /\ FinalizeRun(r, "cancelled")
      /\ UNCHANGED <<starts, readyQueue, inFlight, externalQueue, callee>>
  BY DEF Cancel, pumpVars, queueVars
<1>2. /\ runs' \subseteq runs
      /\ \A q \in Run : status'[q] \in {status[q], "terminal"}
  BY <1>1, Finalized DEF TokenInv, SettledInv
<1> QED  BY <1>1, <1>2, StillToken

(* The first event is taken off its queue.                                  *)
LEMMA DrainEventToken ==
  ASSUME TokenInv, DrainEvent
  PROVE  NoRepeats' /\ \A q \in Run : TokenOf(q)'
<1>1. /\ readyQueue \in Seq(Run) /\ status \in [Run -> {"absent", "waiting", "ready", "terminal"}]
      /\ inFlight \in [Run -> Nat] /\ TypeOK /\ SettledOnce /\ NoRepeats
  BY DEF TokenInv, SettledInv, TypeOK
<1>2. PICK event \in Event : externalQueue # <<>> /\ event = Head(externalQueue)
  BY <1>1 DEF DrainEvent, TypeOK
<1>3. PICK r \in Run : r = event.run  BY DEF Event
<1>4. /\ externalQueue' = Tail(externalQueue)
      /\ callee = NoCall
      /\ UNCHANGED <<inFlight, starts>>
      /\ \/ /\ r \notin runs \/ status[r] = "terminal"
            /\ UNCHANGED <<runVars, readyQueue, callee>>
         \/ /\ r \in runs /\ status[r] # "terminal"
            /\ EnqueueReady(r) /\ UNCHANGED <<runs, callee>>
         \/ /\ FinalizeRun(r, OutcomeOf(event))
            /\ callee' = ReportOf(r, OutcomeOf(event))
            /\ UNCHANGED readyQueue
  BY <1>2, <1>3 DEF DrainEvent
<1>5. EventRuns \in Seq(Run) /\ EventRuns # <<>> /\ EventRuns' = Tail(EventRuns)
      /\ r = Head(EventRuns)
  BY <1>1, <1>2, <1>3, <1>4, EventRunsType, EventTaken
<1>6. /\ \A q : In(EventRuns', q) <=> In(EventRuns, q) /\ q # r
      /\ In(EventRuns, r) /\ IsInjective(EventRuns')
  BY <1>1, <1>5, TailIn DEF NoRepeats
<1>7. TokenOf(r)  BY DEF TokenInv
<1>8. ~In(starts, r) /\ ~In(readyQueue, r) /\ ~(inFlight[r] > 0)
  BY <1>6, <1>7, Places DEF TokenOf, Place
<1>9. status[r] \in {"waiting", "terminal"}
  BY <1>1, <1>6, <1>7, <1>8, Places DEF TokenOf, Place
<1>10. \A q : callee' # [kind |-> "step", run |-> q]
  BY <1>4 DEF NoCall, ReportOf
<1>11. \A q : callee # [kind |-> "step", run |-> q]
  BY <1>4 DEF NoCall
<1>12. ASSUME readyQueue' = readyQueue, status'[r] = "terminal", r \notin runs',
              runs' \subseteq runs,
              \A q \in Run : status'[q] \in {status[q], "terminal"}
       PROVE  NoRepeats' /\ \A q \in Run : TokenOf(q)'
  <2>1. NoRepeats'  BY <1>1, <1>4, <1>6, <1>12 DEF NoRepeats
  <2>2. TokenOf(r)'
    <3>1. \A p \in Place : ~Holds(p, r)'
      BY <1>4, <1>6, <1>8, <1>10, <1>12, PlacesNext DEF Place
    <3>2. inFlight'[r] <= 1  BY <1>4, <1>7 DEF TokenOf
    <3> QED  BY <1>12, <3>1, <3>2, TokenGone
  <2>3. ASSUME NEW q \in Run, q # r PROVE TokenOf(q)'
    <3>1. \A p \in Place : Holds(p, q)' <=> Holds(p, q)
      BY <1>4, <1>6, <1>10, <1>11, <1>12, <2>3, Places, PlacesNext DEF Place
    <3> QED  BY <1>4, <1>12, <3>1, TokenStays DEF TokenInv
  <2> QED  BY <2>1, <2>2, <2>3
<1>13. CASE /\ r \notin runs \/ status[r] = "terminal"
            /\ UNCHANGED <<runVars, readyQueue, callee>>
  <2>1. status[r] = "terminal" /\ r \notin runs  BY <1>1, <1>9, <1>13 DEF SettledOnce
  <2> QED  BY <1>12, <1>13, <2>1 DEF runVars
<1>14. CASE FinalizeRun(r, OutcomeOf(event)) /\ UNCHANGED readyQueue
  BY <1>1, <1>12, <1>14, Finalized
<1>15. CASE status[r] # "terminal" /\ EnqueueReady(r) /\ UNCHANGED <<runs, callee>>
  <2>1. status' = [status EXCEPT ![r] = "ready"] /\ readyQueue' = Append(readyQueue, r)
    BY <1>9, <1>15 DEF EnqueueReady
  <2>2. /\ \A q : In(readyQueue', q) <=> q = r \/ In(readyQueue, q)
        /\ IsInjective(readyQueue')
    BY <1>1, <1>8, <2>1, AppendIn DEF NoRepeats
  <2>3. NoRepeats'  BY <1>1, <1>4, <1>6, <2>2 DEF NoRepeats
  <2>4. TokenOf(r)'
    <3>1. \A p \in Place : Holds(p, r)' <=> p = "ready"
      BY <1>4, <1>6, <1>8, <1>10, <2>2, PlacesNext DEF Place
    <3>2. inFlight'[r] <= 1 /\ status'[r] = "ready"
      BY <1>1, <1>4, <1>7, <2>1 DEF TokenOf
    <3> QED  BY <3>1, <3>2, TokenAt DEF Place
  <2>5. ASSUME NEW q \in Run, q # r PROVE TokenOf(q)'
    <3>1. \A p \in Place : Holds(p, q)' <=> Holds(p, q)
      BY <1>4, <1>6, <1>10, <1>11, <2>2, <2>5, Places, PlacesNext DEF Place
    <3>2. status'[q] = status[q]  BY <1>1, <2>1, <2>5
    <3> QED  BY <1>4, <1>15, <3>1, <3>2, TokenStays DEF TokenInv
  <2> QED  BY <2>3, <2>4, <2>5
<1> QED  BY <1>4, <1>13, <1>14, <1>15

(* The first ready run is taken off the queue, to be stepped or dropped.    *)
LEMMA ServeReadyToken ==
  ASSUME TokenInv, ServeReady
  PROVE  NoRepeats' /\ \A q \in Run : TokenOf(q)'
<1>1. /\ readyQueue \in Seq(Run) /\ status \in [Run -> {"absent", "waiting", "ready", "terminal"}]
      /\ SettledOnce /\ NoRepeats
  BY DEF TokenInv, SettledInv, TypeOK
<1>2. PICK r \in Run : readyQueue # <<>> /\ r = Head(readyQueue)
  BY <1>1 DEF ServeReady
<1>3. /\ readyQueue' = Tail(readyQueue) /\ callee = NoCall
      /\ UNCHANGED <<runs, inFlight, externalQueue, starts>>
      /\ \/ /\ Runnable(r) /\ status' = [status EXCEPT ![r] = "waiting"]
            /\ callee' = [kind |-> "step", run |-> r]
         \/ ~Runnable(r) /\ UNCHANGED <<status, callee>>
  BY <1>2 DEF ServeReady
<1>4. /\ \A q : In(readyQueue', q) <=> In(readyQueue, q) /\ q # r
      /\ In(readyQueue, r) /\ IsInjective(readyQueue')
  BY <1>1, <1>2, <1>3, TailIn DEF NoRepeats
<1>5. TokenOf(r)  BY DEF TokenInv
<1>6. ~In(starts, r) /\ ~In(EventRuns, r) /\ ~(inFlight[r] > 0)
  BY <1>4, <1>5, Places DEF TokenOf, Place
<1>7. EventRuns' = EventRuns  BY <1>3 DEF EventRuns
<1>8. \A q : callee # [kind |-> "step", run |-> q]  BY <1>3 DEF NoCall
<1>9. NoRepeats'  BY <1>1, <1>3, <1>4, <1>7 DEF NoRepeats
<1>10. ASSUME NEW q \in Run, q # r PROVE TokenOf(q)'
  <2>1. callee' # [kind |-> "step", run |-> q]
    <3>1. [kind |-> "step", run |-> r] # [kind |-> "step", run |-> q]
      <4>1. [kind |-> "step", run |-> r].run # [kind |-> "step", run |-> q].run
        BY <1>10
      <4> QED  BY <4>1
    <3> QED  BY <1>3, <1>8, <3>1
  <2>2. \A p \in Place : Holds(p, q)' <=> Holds(p, q)
    BY <1>3, <1>4, <1>7, <1>8, <1>10, <2>1, Places, PlacesNext DEF Place
  <2>3. status'[q] = status[q]  BY <1>1, <1>3, <1>10
  <2> QED  BY <1>3, <2>2, <2>3, TokenStays DEF TokenInv
<1>11. TokenOf(r)'
  <2>1. inFlight'[r] <= 1  BY <1>3, <1>5 DEF TokenOf
  <2>2. CASE Runnable(r)
    <3>1. \A p \in Place : Holds(p, r)' <=> p = "step"
      BY <1>3, <1>4, <1>6, <1>7, <2>2, PlacesNext DEF Place
    <3>2. status'[r] = "waiting"  BY <1>1, <1>3, <2>2
    <3> QED  BY <2>1, <3>1, <3>2, TokenAt DEF Place
  <2>3. CASE ~Runnable(r)
    <3>1. \A p \in Place : ~Holds(p, r)'
      BY <1>3, <1>4, <1>6, <1>7, <1>8, <2>3, PlacesNext DEF Place
    <3>2. status[r] \in {"ready", "terminal"}
      BY <1>4, <1>5, Places DEF TokenOf, Place
    <3>3. status'[r] = "terminal" /\ r \notin runs'
      BY <1>1, <1>3, <2>3, <3>2 DEF Runnable, SettledOnce
    <3> QED  BY <2>1, <3>1, <3>3, TokenGone
  <2> QED  BY <2>2, <2>3
<1> QED  BY <1>9, <1>10, <1>11

(* The run whose step() is being called.                                    *)
LEMMA SteppedRun ==
  ASSUME TokenInv, callee.kind = "step"
  PROVE  \E r \in Run :
           /\ callee = [kind |-> "step", run |-> r] /\ callee.run = r
           /\ ~In(starts, r) /\ ~In(readyQueue, r) /\ ~In(EventRuns, r)
           /\ inFlight[r] = 0
           /\ status[r] \in {"waiting", "terminal"}
           /\ \A q : q # r => callee # [kind |-> "step", run |-> q]
<1>1. callee \in Callee /\ inFlight \in [Run -> Nat]
      /\ status \in [Run -> {"absent", "waiting", "ready", "terminal"}]
  BY DEF TokenInv, SettledInv, TypeOK
<1>2. PICK r \in Run : callee = [kind |-> "step", run |-> r]
  BY <1>1 DEF Callee, NoCall
<1>3. callee.run = r /\ \A q : q # r => callee # [kind |-> "step", run |-> q]
  <2>1. \A q : [kind |-> "step", run |-> q].run = q  OBVIOUS
  <2> QED  BY <1>2, <2>1
<1>4. TokenOf(r)  BY DEF TokenInv
<1>5. ~In(starts, r) /\ ~In(readyQueue, r) /\ ~In(EventRuns, r) /\ ~(inFlight[r] > 0)
  BY <1>2, <1>4, Places DEF TokenOf, Place
<1>6. status[r] \in {"waiting", "terminal"}
  BY <1>1, <1>2, <1>4, <1>5, Places DEF TokenOf, Place
<1>7. inFlight[r] = 0
  <2>1. inFlight[r] \in Nat  BY <1>1
  <2> QED  BY <1>5, <2>1
<1> QED  BY <1>2, <1>3, <1>5, <1>6, <1>7

LEMMA StepReturnsToken ==
  ASSUME TokenInv, StepReturns
  PROVE  NoRepeats' /\ \A q \in Run : TokenOf(q)'
<1>1. /\ inFlight \in [Run -> Nat] /\ NoRepeats
      /\ callee.kind = "step" /\ callee' = NoCall
      /\ inFlight' = [inFlight EXCEPT ![callee.run] = @ + 1]
      /\ UNCHANGED <<status, runs, starts, readyQueue, externalQueue>>
  BY DEF TokenInv, SettledInv, TypeOK, StepReturns, runVars, queueVars
<1>2. PICK r \in Run :
        /\ callee = [kind |-> "step", run |-> r] /\ callee.run = r
        /\ ~In(starts, r) /\ ~In(readyQueue, r) /\ ~In(EventRuns, r)
        /\ inFlight[r] = 0
        /\ status[r] \in {"waiting", "terminal"}
        /\ \A q : q # r => callee # [kind |-> "step", run |-> q]
  BY <1>1, SteppedRun
<1>3. EventRuns' = EventRuns  BY <1>1 DEF EventRuns
<1>4. NoRepeats'  BY <1>1, <1>3 DEF NoRepeats
<1>5. inFlight'[r] = 1 /\ \A q \in Run : q # r => inFlight'[q] = inFlight[q]
  BY <1>1, <1>2
<1>6. \A q : callee' # [kind |-> "step", run |-> q]  BY <1>1 DEF NoCall
<1>7. TokenOf(r)'
  <2>1. \A p \in Place : Holds(p, r)' <=> p = "promise"
    BY <1>1, <1>2, <1>3, <1>5, <1>6, PlacesNext DEF Place
  <2>2. inFlight'[r] <= 1 /\ status'[r] \in {"waiting", "terminal"}  BY <1>1, <1>2, <1>5
  <2> QED  BY <2>1, <2>2, TokenAt DEF Place
<1>8. ASSUME NEW q \in Run, q # r PROVE TokenOf(q)'
  <2>1. callee # [kind |-> "step", run |-> q] /\ inFlight'[q] = inFlight[q]
    BY <1>2, <1>5, <1>8
  <2>2. UNCHANGED <<starts, readyQueue, runs, status>>  BY <1>1
  <2>3. \A p \in Place : Holds(p, q)' <=> Holds(p, q)
    BY <1>3, <1>6, <2>1, <2>2, Places, PlacesNext DEF Place
  <2> QED  BY <2>1, <2>2, <2>3, TokenStays DEF TokenInv
<1> QED  BY <1>4, <1>7, <1>8

LEMMA StepThrowsToken ==
  ASSUME TokenInv, StepThrows
  PROVE  NoRepeats' /\ \A q \in Run : TokenOf(q)'
<1>1. /\ NoRepeats /\ TypeOK /\ SettledOnce
      /\ callee.kind = "step" /\ callee' = ReportOf(callee.run, "failed")
      /\ FinalizeRun(callee.run, "failed")
      /\ UNCHANGED <<inFlight, starts, readyQueue, externalQueue>>
  BY DEF TokenInv, SettledInv, StepThrows, queueVars
<1>2. PICK r \in Run :
        /\ callee = [kind |-> "step", run |-> r] /\ callee.run = r
        /\ ~In(starts, r) /\ ~In(readyQueue, r) /\ ~In(EventRuns, r)
        /\ inFlight[r] = 0
        /\ status[r] \in {"waiting", "terminal"}
        /\ \A q : q # r => callee # [kind |-> "step", run |-> q]
  BY <1>1, SteppedRun
<1>3. EventRuns' = EventRuns  BY <1>1 DEF EventRuns
<1>4. NoRepeats'  BY <1>1, <1>3 DEF NoRepeats
<1>5. /\ status'[r] = "terminal" /\ r \notin runs' /\ runs' \subseteq runs
      /\ \A q \in Run : status'[q] \in {status[q], "terminal"}
  BY <1>1, <1>2, Finalized
<1>6. \A q : callee' # [kind |-> "step", run |-> q]
  BY <1>1 DEF NoCall, ReportOf
<1>7. TokenOf(r)'
  <2>1. \A p \in Place : ~Holds(p, r)'
    BY <1>1, <1>2, <1>3, <1>6, PlacesNext DEF Place
  <2> QED  BY <1>1, <1>2, <1>5, <2>1, TokenGone
<1>8. ASSUME NEW q \in Run, q # r PROVE TokenOf(q)'
  <2>1. \A p \in Place : Holds(p, q)' <=> Holds(p, q)
    BY <1>1, <1>2, <1>3, <1>6, <1>8, Places, PlacesNext DEF Place
  <2> QED  BY <1>1, <1>5, <2>1, TokenStays DEF TokenInv
<1> QED  BY <1>4, <1>7, <1>8

LEMMA StepSettlesToken ==
  ASSUME TokenInv, NEW r \in Run, StepSettles(r)
  PROVE  NoRepeats' /\ \A q \in Run : TokenOf(q)'
<1>1. /\ inFlight \in [Run -> Nat] /\ NoRepeats /\ TypeOK
      /\ status \in [Run -> {"absent", "waiting", "ready", "terminal"}]
      /\ inFlight[r] > 0
      /\ inFlight' = [inFlight EXCEPT ![r] = @ - 1]
      /\ UNCHANGED <<status, runs, starts, readyQueue, callee>>
  BY DEF TokenInv, SettledInv, TypeOK, StepSettles, runVars, pumpVars
<1>2. PICK event \in Event :
        event.run = r /\ externalQueue' = Append(externalQueue, event)
  <2>1. PICK kind \in EventKind :
          externalQueue' = Append(externalQueue, [run |-> r, kind |-> kind])
    BY DEF StepSettles
  <2> QED  BY <2>1 DEF Event
<1>3. EventRuns \in Seq(Run) /\ EventRuns' = Append(EventRuns, r)
  BY <1>1, <1>2, EventRunsType, EventAppended
<1>4. TokenOf(r)  BY DEF TokenInv
<1>5. ~In(starts, r) /\ ~In(readyQueue, r) /\ ~In(EventRuns, r)
      /\ callee # [kind |-> "step", run |-> r]
  BY <1>1, <1>4, Places DEF TokenOf, Place
<1>6. /\ \A q : In(EventRuns', q) <=> q = r \/ In(EventRuns, q)
      /\ IsInjective(EventRuns')
  BY <1>1, <1>3, <1>5, AppendIn DEF NoRepeats
<1>7. NoRepeats'  BY <1>1, <1>6 DEF NoRepeats
<1>8. inFlight'[r] = 0 /\ \A q \in Run : q # r => inFlight'[q] = inFlight[q]
  <2>1. inFlight[r] \in Nat /\ inFlight[r] <= 1  BY <1>1, <1>4 DEF TokenOf
  <2>2. inFlight[r] = 1  BY <1>1, <2>1
  <2> QED  BY <1>1, <2>2
<1>9. TokenOf(r)'
  <2>1. \A p \in Place : Holds(p, r)' <=> p = "event"
    BY <1>1, <1>5, <1>6, <1>8, PlacesNext DEF Place
  <2>2. status[r] # "absent" /\ status[r] # "ready"
    BY <1>1, <1>4, <1>5, Places DEF TokenOf, Place
  <2> QED  BY <1>1, <1>8, <2>1, <2>2, TokenAt DEF Place
<1>10. ASSUME NEW q \in Run, q # r PROVE TokenOf(q)'
  <2>1. \A p \in Place : Holds(p, q)' <=> Holds(p, q)
    BY <1>1, <1>6, <1>8, <1>10, Places, PlacesNext DEF Place
  <2> QED  BY <1>1, <1>8, <1>10, <2>1, TokenStays DEF TokenInv
<1> QED  BY <1>7, <1>9, <1>10

LEMMA InitToken == Init => TokenInv
<1> SUFFICES ASSUME Init PROVE TokenInv  OBVIOUS
<1>1. SettledInv  BY InitSettled
<1>2. DOMAIN EventRuns = {} /\ starts = <<>> /\ readyQueue = <<>>  BY DEF Init, EventRuns
<1>3. NoRepeats  BY <1>2 DEF NoRepeats, IsInjective
<1>4. ASSUME NEW r \in Run PROVE TokenOf(r)
  <2>1. ~In(starts, r) /\ ~In(readyQueue, r) /\ ~In(EventRuns, r)  BY <1>2 DEF In
  <2>2. callee # [kind |-> "step", run |-> r] /\ ~(inFlight[r] > 0) /\ inFlight[r] <= 1
    BY DEF Init, NoCall
  <2>3. \A p \in Place : ~Holds(p, r)  BY <2>1, <2>2, Places DEF Place
  <2>4. r \notin runs /\ status[r] = "absent"  BY DEF Init
  <2> QED  BY <2>2, <2>3, <2>4 DEF TokenOf, Place
<1> QED  BY <1>1, <1>3, <1>4 DEF TokenInv

LEMMA StepToken == TokenInv /\ [Next]_vars => TokenInv'
<1> SUFFICES ASSUME TokenInv, [Next]_vars
             PROVE  NoRepeats' /\ \A q \in Run : TokenOf(q)'
  BY StepSettled DEF TokenInv
<1> USE DEF queueVars, pumpVars, runVars
<1>1. CASE \E r \in Run : CallStart(r)  BY <1>1, CallStartToken
<1>2. CASE \E r \in Run : StartReturns(r)  BY <1>2, StartReturnsToken
<1>3. CASE \E r \in Run : StartThrows(r)  BY <1>3, StartThrowsToken
<1>4. CASE \E r \in Run : Cancel(r)  BY <1>4, CancelToken
<1>5. CASE \E r \in Run : StepSettles(r)  BY <1>5, StepSettlesToken
<1>6. CASE PumpTask  BY <1>6, StillToken DEF PumpTask
<1>7. CASE DrainEvent  BY <1>7, DrainEventToken
<1>8. CASE DrainDone  BY <1>8, StillToken DEF DrainDone
<1>9. CASE ServeReady  BY <1>9, ServeReadyToken
<1>10. CASE ServeDone  BY <1>10, StillToken DEF ServeDone
<1>11. CASE StepReturns  BY <1>11, StepReturnsToken
<1>12. CASE StepThrows  BY <1>12, StepThrowsToken
<1>13. CASE ReportReturns
  <2>1. \A q : callee # [kind |-> "step", run |-> q] /\ callee' # [kind |-> "step", run |-> q]
    <3>1. \A q : [kind |-> "step", run |-> q].kind = "step"  OBVIOUS
    <3>2. callee.kind = "report" /\ callee' = NoCall  BY <1>13 DEF ReportReturns
    <3> QED  BY <3>1, <3>2 DEF NoCall
  <2> QED  BY <1>13, <2>1, StillToken DEF ReportReturns
<1>14. CASE UNCHANGED vars  BY <1>14, StillToken DEF vars
<1> QED  BY NextCases, <1>1, <1>2, <1>3, <1>4, <1>5, <1>6, <1>7, <1>8, <1>9,
            <1>10, <1>11, <1>12, <1>13, <1>14

(* A live run is in one place, once, whatever the runs and the budget: it   *)
(* is never stepped twice at a time, queued twice, or forgotten.            *)
THEOREM OneTokenAlways == Spec => []OneToken
<1>1. Init => TokenInv  BY InitToken
<1>2. TokenInv /\ [Next]_vars => TokenInv'  BY StepToken
<1>3. TokenInv => OneToken  BY TokenInvToken
<1> QED  BY <1>1, <1>2, <1>3, PTL DEF Spec

-----------------------------------------------------------------------------
(* The refinement of RunContract.                                           *)
LEMMA ContractStutters ==
  ASSUME \A q \in Run : PhaseOf(q)' = PhaseOf(q) /\ Result(q)' = Result(q)
  PROVE  UNCHANGED Contract!contractVars
BY DEF Contract!contractVars

(* A step of the scheduler moves at most one run of the contract.           *)
LEMMA ContractMoves ==
  ASSUME NEW r \in Run,
         \A q \in Run : q # r => PhaseOf(q)' = PhaseOf(q) /\ Result(q)' = Result(q),
         \/ Result(r)' = Result(r) /\ PhaseOf(r) = "absent" /\ PhaseOf(r)' = "idle"
         \/ Result(r)' = Result(r) /\ PhaseOf(r) = "idle" /\ PhaseOf(r)' = "stepping"
         \/ Result(r)' = Result(r) /\ PhaseOf(r) = "stepping" /\ PhaseOf(r)' = "idle"
         \/ /\ PhaseOf(r) = "stepping" \/ (PhaseOf(r) = "idle" /\ Result(r)' # "value")
            /\ PhaseOf(r)' = "done" /\ Result(r)' \in OutcomeKind
  PROVE  Contract!Next
<1> DEFINE ph == [q \in Run |-> PhaseOf(q)]
           out == [q \in Run |-> Result(q)]
<1>1. ph' = [ph EXCEPT ![r] = PhaseOf(r)']  OBVIOUS
<1>2. out' = [out EXCEPT ![r] = Result(r)']  OBVIOUS
<1>3. Result(r)' = Result(r) => out' = out  OBVIOUS
<1>4. ph[r] = PhaseOf(r)  OBVIOUS
<1>5. OutcomeKind = Contract!Outcome  BY DEF OutcomeKind, Contract!Outcome
<1> HIDE DEF ph, out
<1>6. CASE Result(r)' = Result(r) /\ PhaseOf(r) = "absent" /\ PhaseOf(r)' = "idle"
  BY <1>1, <1>3, <1>4, <1>6 DEF Contract!Next, Contract!Start, ph, out
<1>7. CASE Result(r)' = Result(r) /\ PhaseOf(r) = "idle" /\ PhaseOf(r)' = "stepping"
  BY <1>1, <1>3, <1>4, <1>7 DEF Contract!Next, Contract!BeginStep, ph, out
<1>8. CASE Result(r)' = Result(r) /\ PhaseOf(r) = "stepping" /\ PhaseOf(r)' = "idle"
  BY <1>1, <1>3, <1>4, <1>8 DEF Contract!Next, Contract!EndStep, ph, out
<1>9. CASE /\ PhaseOf(r) = "stepping" \/ (PhaseOf(r) = "idle" /\ Result(r)' # "value")
           /\ PhaseOf(r)' = "done" /\ Result(r)' \in OutcomeKind
  <2>1. Contract!Settle(r, Result(r)')
    BY <1>1, <1>2, <1>4, <1>9 DEF Contract!Settle, ph, out
  <2> QED  BY <1>5, <1>9, <2>1 DEF Contract!Next
<1> QED  BY <1>6, <1>7, <1>8, <1>9

LEMMA SamePhase ==
  ASSUME NEW q \in Run, status'[q] = status[q],
         status[q] # "terminal" => (Holds("start", q)' <=> Holds("start", q))
  PROVE  PhaseOf(q)' = PhaseOf(q)
BY DEF PhaseOf

LEMMA SettleContract ==
  ASSUME TokenInv, NEW r \in Run, NEW kind \in OutcomeKind, FinalizeRun(r, kind),
         status[r] # "absent",
         \A q \in Run : q # r => (Holds("start", q)' <=> Holds("start", q)),
         kind = "value" => PhaseOf(r) \in {"stepping", "done"}
  PROVE  [Contract!Next]_(Contract!contractVars)
<1>1. /\ status \in [Run -> {"absent", "waiting", "ready", "terminal"}]
      /\ resolved \in [Run -> Seq(OutcomeKind)] /\ TypeOK /\ SettledOnce
  BY DEF TokenInv, SettledInv, TypeOK
<1>2. CASE status[r] = "terminal"
  <2>1. UNCHANGED runVars  BY <1>2 DEF FinalizeRun
  <2>2. \A q \in Run : PhaseOf(q)' = PhaseOf(q) /\ Result(q)' = Result(q)
    BY <1>2, <2>1, SamePhase DEF runVars, Result
  <2> QED  BY <2>2, ContractStutters
<1>3. CASE status[r] # "terminal"
  <2>1. /\ status' = [status EXCEPT ![r] = "terminal"]
        /\ resolved' = [resolved EXCEPT ![r] = Append(@, kind)]
    BY <1>3 DEF FinalizeRun
  <2>2. resolved[r] = <<>>  BY <1>1, <1>3, Unsettled
  <2>3. resolved'[r] = <<kind>>  BY <1>1, <2>1, <2>2
  <2>4. Result(r)' = kind
    <3>1. <<kind>> # <<>> /\ <<kind>>[1] = kind  OBVIOUS
    <3> QED  BY <2>3, <3>1 DEF Result
  <2>5. PhaseOf(r)' = "done" /\ PhaseOf(r) \in {"idle", "stepping"}
    <3>1. status'[r] = "terminal" /\ status[r] \in {"waiting", "ready"}
      BY <1>1, <1>3, <2>1
    <3> QED  BY <3>1 DEF PhaseOf
  <2>6. ASSUME NEW q \in Run, q # r
        PROVE  PhaseOf(q)' = PhaseOf(q) /\ Result(q)' = Result(q)
    <3>1. status'[q] = status[q] /\ resolved'[q] = resolved[q]  BY <1>1, <2>1, <2>6
    <3> QED  BY <2>6, <3>1, SamePhase DEF Result
  <2> QED  BY <2>4, <2>5, <2>6, ContractMoves
<1> QED  BY <1>2, <1>3

LEMMA CallStartContract ==
  ASSUME TokenInv, NEW r \in Run, CallStart(r)
  PROVE  Contract!Next
<1>1. /\ status \in [Run -> {"absent", "waiting", "ready", "terminal"}]
      /\ starts \in Seq(Run)
  BY DEF TokenInv, SettledInv, TypeOK
<1>2. /\ status[r] = "absent" /\ starts' = Append(starts, r)
      /\ status' = [status EXCEPT ![r] = "waiting"] /\ resolved' = resolved
  BY DEF CallStart
<1>3. \A q : In(starts', q) <=> q = r \/ In(starts, q)  BY <1>1, <1>2, AppendIn
<1>4. status'[r] = "waiting" /\ Holds("start", r)'  BY <1>1, <1>2, <1>3, PlacesNext
<1>5. PhaseOf(r) = "absent" /\ PhaseOf(r)' = "idle"  BY <1>2, <1>4 DEF PhaseOf
<1>6. ASSUME NEW q \in Run, q # r PROVE PhaseOf(q)' = PhaseOf(q)
  <2>1. status'[q] = status[q]  BY <1>1, <1>2, <1>6
  <2>2. Holds("start", q)' <=> Holds("start", q)
    BY <1>3, <1>6, Places, PlacesNext
  <2> QED  BY <2>1, <2>2, SamePhase
<1>7. \A q \in Run : Result(q)' = Result(q)  BY <1>2 DEF Result
<1> QED  BY <1>5, <1>6, <1>7, ContractMoves

LEMMA StartReturnsContract ==
  ASSUME TokenInv, NEW r \in Run, StartReturns(r)
  PROVE  UNCHANGED Contract!contractVars
<1>1. status \in [Run -> {"absent", "waiting", "ready", "terminal"}] /\ TokenOf(r)
  BY DEF TokenInv, SettledInv, TypeOK
<1>2. Innermost(r) /\ Unwind /\ EnqueueReady(r) /\ resolved' = resolved
  BY DEF StartReturns
<1>3. (\A q : In(starts', q) <=> In(starts, q) /\ q # r) /\ In(starts, r)
  BY <1>2, Unwound
<1>4. Holds("start", r)  BY <1>3, Places
<1>5. \A q \in Run : Result(q)' = Result(q)  BY <1>2 DEF Result
<1>6. ASSUME NEW q \in Run, q # r PROVE PhaseOf(q)' = PhaseOf(q)
  <2>1. status'[q] = status[q]  BY <1>1, <1>2, <1>6 DEF EnqueueReady
  <2>2. Holds("start", q)' <=> Holds("start", q)
    BY <1>3, <1>6, Places, PlacesNext
  <2> QED  BY <2>1, <2>2, SamePhase
<1>7. PhaseOf(r)' = PhaseOf(r)
  <2>1. CASE status[r] = "terminal"
    <3>1. status'[r] = status[r]  BY <1>2, <2>1 DEF EnqueueReady
    <3> QED  BY <2>1, <3>1, SamePhase
  <2>2. CASE status[r] # "terminal"
    <3>1. status[r] # "absent"  BY <1>1, <1>4 DEF TokenOf, Place
    <3>2. status'[r] = "ready"  BY <1>1, <1>2, <2>2 DEF EnqueueReady
    <3>3. PhaseOf(r) = "idle"  BY <1>4, <2>2, <3>1 DEF PhaseOf
    <3>4. PhaseOf(r)' = "idle"  BY <3>2 DEF PhaseOf
    <3> QED  BY <3>3, <3>4
  <2> QED  BY <2>1, <2>2
<1>8. \A q \in Run : PhaseOf(q)' = PhaseOf(q)  BY <1>6, <1>7
<1> QED  BY <1>5, <1>8, ContractStutters

LEMMA StartThrowsContract ==
  ASSUME TokenInv, NEW r \in Run, StartThrows(r)
  PROVE  [Contract!Next]_(Contract!contractVars)
<1>1. Innermost(r) /\ Unwind /\ FinalizeRun(r, "failed")  BY DEF StartThrows
<1>2. \A q : In(starts', q) <=> In(starts, q) /\ q # r  BY <1>1, Unwound
<1>3. \A q \in Run : q # r => (Holds("start", q)' <=> Holds("start", q))
  BY <1>2, Places, PlacesNext
<1>4. status[r] # "absent"  BY <1>1, InnermostKnown DEF TokenInv, SettledInv
<1>5. "failed" \in OutcomeKind /\ "failed" # "value"  BY DEF OutcomeKind
<1> QED  BY <1>1, <1>3, <1>4, <1>5, SettleContract

LEMMA CancelContract ==
  ASSUME TokenInv, NEW r \in Run, Cancel(r)
  PROVE  [Contract!Next]_(Contract!contractVars)
<1>1. FinalizeRun(r, "cancelled") /\ r \in runs /\ starts' = starts  BY DEF Cancel
<1>2. status[r] # "absent"  BY <1>1 DEF TokenInv, SettledInv, SettledOnce
<1>3. \A q \in Run : q # r => (Holds("start", q)' <=> Holds("start", q))
  BY <1>1, Places, PlacesNext
<1>4. "cancelled" \in OutcomeKind /\ "cancelled" # "value"  BY DEF OutcomeKind
<1> QED  BY <1>1, <1>2, <1>3, <1>4, SettleContract

LEMMA DrainEventContract ==
  ASSUME TokenInv, DrainEvent
  PROVE  [Contract!Next]_(Contract!contractVars)
<1>1. /\ status \in [Run -> {"absent", "waiting", "ready", "terminal"}]
      /\ SettledOnce /\ TypeOK
  BY DEF TokenInv, SettledInv, TypeOK
<1>2. PICK event \in Event : externalQueue # <<>> /\ event = Head(externalQueue)
  BY <1>1 DEF DrainEvent, TypeOK
<1>3. PICK r \in Run : r = event.run  BY DEF Event
<1>4. /\ starts' = starts
      /\ \/ UNCHANGED runVars
         \/ r \in runs /\ status[r] # "terminal" /\ EnqueueReady(r) /\ resolved' = resolved
         \/ r \in runs /\ FinalizeRun(r, OutcomeOf(event))
  BY <1>2, <1>3 DEF DrainEvent
<1>5. TokenOf(r) /\ NoRepeats  BY DEF TokenInv
<1>6. Holds("event", r)
  <2>1. externalQueue \in Seq(Event)  BY <1>1 DEF TypeOK
  <2>2. 1 \in DOMAIN externalQueue /\ externalQueue[1] = event  BY <1>2, <2>1
  <2> QED  BY <1>3, <2>2 DEF Holds
<1>7. ~Holds("start", r) /\ ~Holds("ready", r)  BY <1>5, <1>6 DEF TokenOf, Place
<1>8. \A q \in Run : Holds("start", q)' <=> Holds("start", q)
  BY <1>4, Places, PlacesNext
<1>9. CASE UNCHANGED runVars
  <2>1. \A q \in Run : PhaseOf(q)' = PhaseOf(q) /\ Result(q)' = Result(q)
    BY <1>8, <1>9, SamePhase DEF runVars, Result
  <2> QED  BY <2>1, ContractStutters
<1>10. CASE r \in runs /\ status[r] # "terminal" /\ EnqueueReady(r) /\ resolved' = resolved
  <2>1. status[r] = "waiting"  BY <1>1, <1>5, <1>7, <1>10 DEF TokenOf, SettledOnce
  <2>2. status' = [status EXCEPT ![r] = "ready"]  BY <1>10, <2>1 DEF EnqueueReady
  <2>3. status'[r] = "ready"  BY <1>1, <2>2
  <2>4. PhaseOf(r) = "stepping"  BY <1>7, <2>1 DEF PhaseOf
  <2>5. PhaseOf(r)' = "idle"  BY <2>3 DEF PhaseOf
  <2>6. \A q \in Run : Result(q)' = Result(q)  BY <1>10 DEF Result
  <2>7. ASSUME NEW q \in Run, q # r PROVE PhaseOf(q)' = PhaseOf(q)
    <3>1. status'[q] = status[q]  BY <1>1, <2>2, <2>7
    <3> QED  BY <1>8, <3>1, SamePhase
  <2> QED  BY <2>4, <2>5, <2>6, <2>7, ContractMoves
<1>11. CASE r \in runs /\ FinalizeRun(r, OutcomeOf(event))
  <2>1. status[r] \in {"waiting", "ready"}  BY <1>11, <1>1 DEF SettledOnce
  <2>2. status[r] = "waiting"  BY <1>5, <1>7, <2>1 DEF TokenOf
  <2>3. PhaseOf(r) = "stepping"  BY <1>7, <2>2 DEF PhaseOf
  <2>4. OutcomeOf(event) \in OutcomeKind  BY DEF OutcomeOf, OutcomeKind
  <2> QED  BY <1>8, <1>11, <2>2, <2>3, <2>4, SettleContract
<1> QED  BY <1>4, <1>9, <1>10, <1>11

LEMMA ServeReadyContract ==
  ASSUME TokenInv, ServeReady
  PROVE  [Contract!Next]_(Contract!contractVars)
<1>1. /\ readyQueue \in Seq(Run)
      /\ status \in [Run -> {"absent", "waiting", "ready", "terminal"}]
  BY DEF TokenInv, SettledInv, TypeOK
<1>2. PICK r \in Run : readyQueue # <<>> /\ r = Head(readyQueue)
  BY <1>1 DEF ServeReady
<1>3. /\ UNCHANGED <<starts, resolved>>
      /\ \/ Runnable(r) /\ status' = [status EXCEPT ![r] = "waiting"]
         \/ status' = status
  BY <1>2 DEF ServeReady
<1>4. TokenOf(r)  BY DEF TokenInv
<1>5. \A q \in Run : Holds("start", q)' <=> Holds("start", q)
  BY <1>3, Places, PlacesNext
<1>6. Holds("ready", r)
  <2>1. 1 \in DOMAIN readyQueue /\ readyQueue[1] = r  BY <1>1, <1>2
  <2> QED  BY <2>1 DEF Holds
<1>7. ~Holds("start", r)  BY <1>4, <1>6 DEF TokenOf, Place
<1>8. \A q \in Run : Result(q)' = Result(q)  BY <1>3 DEF Result
<1>9. CASE status' = status
  BY <1>5, <1>8, <1>9, SamePhase, ContractStutters
<1>10. CASE Runnable(r) /\ status' = [status EXCEPT ![r] = "waiting"]
  <2>1. status'[r] = "waiting" /\ status[r] = "ready"  BY <1>1, <1>10 DEF Runnable
  <2>2. PhaseOf(r) = "idle"  BY <2>1 DEF PhaseOf
  <2>3. ~Holds("start", r)'  BY <1>5, <1>7
  <2>4. PhaseOf(r)' = "stepping"  BY <2>1, <2>3 DEF PhaseOf
  <2>5. ASSUME NEW q \in Run, q # r PROVE PhaseOf(q)' = PhaseOf(q)
    <3>1. status'[q] = status[q]  BY <1>1, <1>10, <2>5
    <3> QED  BY <1>5, <3>1, SamePhase
  <2> QED  BY <1>8, <2>2, <2>4, <2>5, ContractMoves
<1> QED  BY <1>3, <1>9, <1>10

LEMMA StepThrowsContract ==
  ASSUME TokenInv, StepThrows
  PROVE  [Contract!Next]_(Contract!contractVars)
<1>1. callee.kind = "step" /\ FinalizeRun(callee.run, "failed") /\ starts' = starts
  BY DEF StepThrows
<1>2. PICK r \in Run : callee.run = r /\ status[r] \in {"waiting", "terminal"}
  BY <1>1, SteppedRun
<1>3. \A q \in Run : Holds("start", q)' <=> Holds("start", q)
  BY <1>1, Places, PlacesNext
<1>4. "failed" \in OutcomeKind /\ "failed" # "value"  BY DEF OutcomeKind
<1> QED  BY <1>1, <1>2, <1>3, <1>4, SettleContract

(* The steps the contract does not see.                                     *)
LEMMA InvisibleContract ==
  ASSUME UNCHANGED <<status, resolved, starts>>
  PROVE  UNCHANGED Contract!contractVars
<1>1. \A q \in Run : Holds("start", q)' <=> Holds("start", q)
  BY Places, PlacesNext
<1>2. \A q \in Run : PhaseOf(q)' = PhaseOf(q) /\ Result(q)' = Result(q)
  BY <1>1, SamePhase DEF Result
<1> QED  BY <1>2, ContractStutters

LEMMA InitContract == Init => Contract!Init
<1> SUFFICES ASSUME Init PROVE Contract!Init  OBVIOUS
<1>1. \A r \in Run : PhaseOf(r) = "absent" /\ Result(r) = "none"
  BY DEF Init, PhaseOf, Result
<1> QED  BY <1>1 DEF Contract!Init

LEMMA StepContract ==
  TokenInv /\ [Next]_vars => [Contract!Next]_(Contract!contractVars)
<1> SUFFICES ASSUME TokenInv, [Next]_vars
             PROVE  [Contract!Next]_(Contract!contractVars)
  OBVIOUS
<1> USE DEF runVars, pumpVars
<1>1. CASE \E r \in Run : CallStart(r)  BY <1>1, CallStartContract
<1>2. CASE \E r \in Run : StartReturns(r)  BY <1>2, StartReturnsContract
<1>3. CASE \E r \in Run : StartThrows(r)  BY <1>3, StartThrowsContract
<1>4. CASE \E r \in Run : Cancel(r)  BY <1>4, CancelContract
<1>5. CASE \E r \in Run : StepSettles(r)  BY <1>5, InvisibleContract DEF StepSettles
<1>6. CASE PumpTask  BY <1>6, InvisibleContract DEF PumpTask
<1>7. CASE DrainEvent  BY <1>7, DrainEventContract
<1>8. CASE DrainDone  BY <1>8, InvisibleContract DEF DrainDone
<1>9. CASE ServeReady  BY <1>9, ServeReadyContract
<1>10. CASE ServeDone  BY <1>10, InvisibleContract DEF ServeDone
<1>11. CASE StepReturns  BY <1>11, InvisibleContract DEF StepReturns
<1>12. CASE StepThrows  BY <1>12, StepThrowsContract
<1>13. CASE ReportReturns  BY <1>13, InvisibleContract DEF ReportReturns
<1>14. CASE UNCHANGED vars  BY <1>14, InvisibleContract DEF vars
<1> QED  BY NextCases, <1>1, <1>2, <1>3, <1>4, <1>5, <1>6, <1>7, <1>8, <1>9,
            <1>10, <1>11, <1>12, <1>13, <1>14

(* The scheduler keeps the contract of a run: initial states map to initial *)
(* states, and every step to a step or a stutter.                           *)
THEOREM KeepsContract == Spec => ContractSpec
<1>1. Init => TokenInv /\ Contract!Init  BY InitToken, InitContract
<1>2. TokenInv /\ [Next]_vars => TokenInv'  BY StepToken
<1>3. TokenInv /\ [Next]_vars => [Contract!Next]_(Contract!contractVars)
  BY StepContract
<1> QED  BY <1>1, <1>2, <1>3, PTL DEF Spec, ContractSpec, Contract!Spec

-----------------------------------------------------------------------------
(* The ready queue is first come, first served.                             *)
LEMMA AppendAhead ==
  ASSUME TypeOK, NEW r \in Run, In(readyQueue, r), NEW x \in Run,
         readyQueue' = Append(readyQueue, x)
  PROVE  Ahead(r)' \subseteq Ahead(r)
<1>1. readyQueue \in Seq(Run)  BY DEF TypeOK
<1>2. PICK n \in Nat : n = Len(readyQueue) /\ DOMAIN readyQueue = 1 .. n
  BY <1>1
<1>3. DOMAIN readyQueue' = 1 .. n + 1  BY <1>1, <1>2
<1>4. \A i \in 1 .. n : readyQueue'[i] = readyQueue[i]  BY <1>1, <1>2
<1>5. PICK i \in 1 .. n : readyQueue[i] = r  BY <1>2 DEF In
<1>6. ASSUME NEW k \in 1 .. n + 1, \A j \in 1 .. k : readyQueue'[j] # r
      PROVE  readyQueue'[k] \in Ahead(r)
  <2>1. k < i
    <3>1. i \notin 1 .. k  BY <1>4, <1>5, <1>6
    <3> QED  BY <3>1
  <2>2. k \in 1 .. n  BY <2>1
  <2>3. \A j \in 1 .. k : j \in 1 .. n  BY <2>2
  <2>4. \A j \in 1 .. k : readyQueue[j] # r  BY <1>4, <1>6, <2>3
  <2> QED  BY <1>2, <1>4, <2>2, <2>4 DEF Ahead
<1>7. Ahead(r)' = {readyQueue'[k] : k \in {k \in 1 .. n + 1 :
                                           \A j \in 1 .. k : readyQueue'[j] # r}}
  BY <1>3 DEF Ahead
<1> QED  BY <1>6, <1>7

LEMMA TailAhead ==
  ASSUME TypeOK, NEW r \in Run, readyQueue # <<>>, Head(readyQueue) # r,
         readyQueue' = Tail(readyQueue)
  PROVE  Ahead(r)' \subseteq Ahead(r)
<1>1. readyQueue \in Seq(Run)  BY DEF TypeOK
<1>2. PICK n \in Nat : n = Len(readyQueue) /\ DOMAIN readyQueue = 1 .. n /\ n > 0
  BY <1>1
<1>3. DOMAIN readyQueue' = 1 .. n - 1  BY <1>1, <1>2
<1>4. \A i \in 1 .. n - 1 : readyQueue'[i] = readyQueue[i + 1]  BY <1>1, <1>2
<1>5. readyQueue[1] # r  BY <1>1
<1>6. ASSUME NEW k \in 1 .. n - 1, \A j \in 1 .. k : readyQueue'[j] # r
      PROVE  readyQueue'[k] \in Ahead(r)
  <2>1. k + 1 \in 1 .. n  OBVIOUS
  <2>0. readyQueue'[k] = readyQueue[k + 1]  BY <1>4
  <2>2. ASSUME NEW j \in 1 .. k + 1 PROVE readyQueue[j] # r
    <3>1. CASE j = 1  BY <1>5, <3>1
    <3>2. CASE j # 1
      <4>1. j - 1 \in 1 .. k /\ j - 1 \in 1 .. n - 1 /\ (j - 1) + 1 = j  BY <3>2
      <4>2. readyQueue'[j - 1] = readyQueue[j]  BY <1>4, <4>1
      <4> QED  BY <1>6, <4>1, <4>2
    <3> QED  BY <3>1, <3>2
  <2> QED  BY <1>2, <2>0, <2>1, <2>2 DEF Ahead
<1>7. Ahead(r)' = {readyQueue'[k] : k \in {k \in 1 .. n - 1 :
                                           \A j \in 1 .. k : readyQueue'[j] # r}}
  BY <1>3 DEF Ahead
<1> QED  BY <1>6, <1>7

LEMMA StepStaysInLine == TokenInv /\ [Next]_vars => StayInLine
<1> SUFFICES ASSUME TokenInv, [Next]_vars, NEW r \in Run,
                    status[r] = "ready", status'[r] = "ready"
             PROVE  Ahead(r)' \subseteq Ahead(r)
  BY DEF StayInLine
<1>1. /\ readyQueue \in Seq(Run) /\ starts \in Seq(Run) /\ TypeOK /\ SettledOnce
      /\ status \in [Run -> {"absent", "waiting", "ready", "terminal"}]
  BY DEF TokenInv, SettledInv, TypeOK
<1>2. In(readyQueue, r)
  <2>1. TokenOf(r)  BY DEF TokenInv
  <2> QED  BY <2>1, Places DEF TokenOf
<1>3. readyQueue' = readyQueue => Ahead(r)' \subseteq Ahead(r)
  BY DEF Ahead
<1>4. ASSUME NEW q \in Run, EnqueueReady(q) PROVE Ahead(r)' \subseteq Ahead(r)
  <2>1. readyQueue' = readyQueue \/ readyQueue' = Append(readyQueue, q)
    BY <1>4 DEF EnqueueReady
  <2> QED  BY <1>1, <1>2, <1>3, <2>1, AppendAhead
<1>5. ASSUME DrainEvent PROVE Ahead(r)' \subseteq Ahead(r)
  <2>1. PICK event \in Event : event = Head(externalQueue)
    BY <1>1, <1>5 DEF DrainEvent, TypeOK
  <2>2. PICK q \in Run : q = event.run  BY DEF Event
  <2>3. EnqueueReady(q) \/ readyQueue' = readyQueue
    BY <1>5, <2>1, <2>2 DEF DrainEvent
  <2> QED  BY <1>3, <1>4, <2>3
<1>6. ASSUME ServeReady PROVE Ahead(r)' \subseteq Ahead(r)
  <2>1. readyQueue # <<>> /\ readyQueue' = Tail(readyQueue)  BY <1>6 DEF ServeReady
  <2>2. Head(readyQueue) # r
    <3> SUFFICES ASSUME Head(readyQueue) = r PROVE FALSE  OBVIOUS
    <3>1. Runnable(r)  BY <1>1 DEF Runnable, SettledOnce
    <3>2. status' = [status EXCEPT ![r] = "waiting"]  BY <1>6, <3>1 DEF ServeReady
    <3> QED  BY <1>1, <3>2
  <2> QED  BY <1>1, <2>1, <2>2, TailAhead
<1> USE DEF queueVars
<1>7. CASE \E q \in Run : StartReturns(q)  BY <1>4, <1>7 DEF StartReturns
<1>8. CASE DrainEvent  BY <1>5, <1>8
<1>9. CASE ServeReady  BY <1>6, <1>9
<1>10. CASE /\ ~\E q \in Run : StartReturns(q)
            /\ ~DrainEvent /\ ~ServeReady
  <2>1. readyQueue' = readyQueue
    BY <1>10, NextCases
       DEF CallStart, StartThrows, Cancel, StepSettles, PumpTask, DrainDone,
           ServeDone, StepReturns, StepThrows, ReportReturns, vars
  <2> QED  BY <1>3, <2>1
<1> QED  BY <1>7, <1>8, <1>9, <1>10

(* A ready run is served in its turn, on this tick or on a later one: no    *)
(* run ever gets in front of it.                                            *)
THEOREM ServedInOrder == Spec => NoOvertaking
<1>1. Init => TokenInv  BY InitToken
<1>2. TokenInv /\ [Next]_vars => TokenInv'  BY StepToken
<1>3. TokenInv /\ [Next]_vars => StayInLine  BY StepStaysInLine
<1> QED  BY <1>1, <1>2, <1>3, PTL DEF Spec, NoOvertaking
=============================================================================
