------------------------- MODULE TaskRuntimeProofs -------------------------
(***************************************************************************)
(* Theorems about TaskRuntime, for any number of tasks: every id it holds   *)
(* is the id of one of its tasks (TypeCorrect), the end of a task is        *)
(* awaited by one party at most (OneObserverAlways), the code of a task is  *)
(* in one place at most, and so a continuation is resumed once              *)
(* (OneShotAlways), no failure of a detached task is lost                   *)
(* (DetachedAlwaysReported), a late answer to a task that is over is        *)
(* ignored (LateAnswersAlwaysIgnored), and a task that waits for its        *)
(* children is completed by the last of them (OwnersAlwaysComplete).  And,  *)
(* each under one hypothesis on tasks that were cancelled: no failure of a  *)
(* child is lost (FailureAlwaysKept), and what the host is told is the end  *)
(* (DoneAlwaysMeansDone).                                                   *)
(***************************************************************************)
EXTENDS TaskRuntime, SequenceFacts, FiniteSetTheorems

LEMMA Stacks ==
  ASSUME NEW S, NEW s \in Seq(S)
  PROVE  /\ \A e \in S : <<e>> \o s \in Seq(S)
         /\ s # <<>> => Head(s) \in S /\ Tail(s) \in Seq(S)
BY ConcatProperties, HeadTailProperties

LEMMA CallKinds ==
  ASSUME NEW ids, NEW c \in Call(ids)
  PROVE  /\ c.fn = "vm" => c \in VmCall(ids)
         /\ c.fn = "effect" => c \in EffectCall(ids)
         /\ c.fn \in {"handler", "apply", "owner"} => c \in TaskCall(ids)
         /\ c.fn = "complete" => c \in CompleteCall(ids)
         /\ c.fn = "settle" => c \in SettleCall(ids)
         /\ c.fn = "cancel" => c \in CancelTaskCall(ids)
         /\ c.fn = "cancelAll" => c \in CancelAllCall(ids)
BY DEF Call, VmCall, EffectCall, TaskCall, CompleteCall, SettleCall, CancelTaskCall, CancelAllCall

LEMMA TypedStack ==
  ASSUME NEW n \in 1..MaxTasks, Typed(n)
  PROVE  /\ Spawned = 1..n
         /\ \A c \in Call(1..n) : Push(c) => stack' \in Seq(Call(1..n))
         /\ stack # <<>> => /\ Top \in Call(1..n)
                            /\ Tail(stack) \in Seq(Call(1..n))
                            /\ Pop => stack' \in Seq(Call(1..n))
                            /\ \A c \in Call(1..n) : Become(c) => stack' \in Seq(Call(1..n))
<1>1. stack \in Seq(Call(1..n)) /\ DOMAIN tasks = 1..n  BY DEF Typed
<1> QED  BY <1>1, Stacks, Zenon DEF Spawned, Push, Pop, Become, Top

(* The updates of a record that the actions make keep its type.             *)
LEMMA Updates ==
  ASSUME NEW ids, NEW task \in Task(ids)
  PROVE  /\ [task EXCEPT !.resume = FALSE, !.frame = FALSE] \in Task(ids)
         /\ [task EXCEPT !.resume = FALSE] \in Task(ids)
         /\ [task EXCEPT !.fresh = FALSE] \in Task(ids)
         /\ [task EXCEPT !.frame = FALSE] \in Task(ids)
         /\ [task EXCEPT !.promise = FALSE] \in Task(ids)
         /\ [task EXCEPT !.resume = TRUE, !.state = "ready"] \in Task(ids)
         /\ [task EXCEPT !.state = "waiting", !.promise = TRUE] \in Task(ids)
         /\ [task EXCEPT !.state = "waiting"] \in Task(ids)
         /\ [task EXCEPT !.claimed = TRUE] \in Task(ids)
         /\ [task EXCEPT !.observed = TRUE] \in Task(ids)
         /\ [task EXCEPT !.reported = TRUE] \in Task(ids)
         /\ [task EXCEPT !.live = FALSE] \in Task(ids)
         /\ [task EXCEPT !.observed = TRUE, !.live = FALSE] \in Task(ids)
         /\ \A x \in Outcome(ids) : [task EXCEPT !.raw = x, !.state = "ready"] \in Task(ids)
         /\ \A w \in ids : [task EXCEPT !.waiters = @ \cup {w}] \in Task(ids)
         /\ \A w : [task EXCEPT !.waiters = @ \ {w}] \in Task(ids)
         /\ [task EXCEPT !.observed = FALSE, !.reported = FALSE] \in Task(ids)
         /\ [task EXCEPT !.completion = "none", !.resume = FALSE] \in Task(ids)
         /\ [task EXCEPT !.raw = None] \in Task(ids)
         /\ \A k \in Kind : [task EXCEPT !.state = "terminal", !.terminal = k] \in Task(ids)
<1>1. [task EXCEPT !.resume = FALSE, !.frame = FALSE] \in Task(ids)
  BY ZenonT(60) DEF Task, TaskRecord
<1>2. [task EXCEPT !.resume = FALSE] \in Task(ids)
  BY ZenonT(60) DEF Task, TaskRecord
<1>3. [task EXCEPT !.fresh = FALSE] \in Task(ids)
  BY ZenonT(60) DEF Task, TaskRecord
<1>4. [task EXCEPT !.frame = FALSE] \in Task(ids)
  BY ZenonT(60) DEF Task, TaskRecord
<1>5. [task EXCEPT !.promise = FALSE] \in Task(ids)
  BY ZenonT(60) DEF Task, TaskRecord
<1>6. [task EXCEPT !.resume = TRUE, !.state = "ready"] \in Task(ids)
  BY DEF Task, TaskRecord
<1>7. [task EXCEPT !.state = "waiting", !.promise = TRUE] \in Task(ids)
  BY DEF Task, TaskRecord
<1>8. [task EXCEPT !.state = "waiting"] \in Task(ids)
  BY DEF Task, TaskRecord
<1>9. [task EXCEPT !.claimed = TRUE] \in Task(ids)
  BY DEF Task, TaskRecord
<1>10. [task EXCEPT !.observed = TRUE] \in Task(ids)
  BY DEF Task, TaskRecord
<1>11. [task EXCEPT !.reported = TRUE] \in Task(ids)
  BY DEF Task, TaskRecord
<1>12. [task EXCEPT !.live = FALSE] \in Task(ids)
  BY ZenonT(60) DEF Task, TaskRecord
<1>13. [task EXCEPT !.observed = TRUE, !.live = FALSE] \in Task(ids)
  BY ZenonT(60) DEF Task, TaskRecord
<1>14. \A x \in Outcome(ids) : [task EXCEPT !.raw = x, !.state = "ready"] \in Task(ids)
  BY DEF Task, TaskRecord
<1>15. \A w \in ids : [task EXCEPT !.waiters = @ \cup {w}] \in Task(ids)
  BY DEF Task, TaskRecord
<1>16. \A w : [task EXCEPT !.waiters = @ \ {w}] \in Task(ids)
  BY DEF Task, TaskRecord
<1>17. [task EXCEPT !.observed = FALSE, !.reported = FALSE] \in Task(ids)
  BY ZenonT(60) DEF Task, TaskRecord
<1>18. [task EXCEPT !.completion = "none", !.resume = FALSE] \in Task(ids)
  BY ZenonT(60) DEF Task, TaskRecord
<1>19. [task EXCEPT !.raw = None] \in Task(ids)
  BY DEF Task, TaskRecord
<1>20. \A k \in Kind : [task EXCEPT !.state = "terminal", !.terminal = k] \in Task(ids)
  BY DEF Task, TaskRecord, Kind
<1> QED
  BY <1>1, <1>2, <1>3, <1>4, <1>5, <1>6, <1>7, <1>8, <1>9, <1>10, <1>11, <1>12, <1>13,
     <1>14, <1>15, <1>16, <1>17, <1>18, <1>19, <1>20

\* A record with other waiters.
LEMMA WaitersTyped ==
  ASSUME NEW ids, NEW task \in Task(ids), NEW W \in SUBSET ids
  PROVE  /\ [task EXCEPT !.waiters = W] \in Task(ids)
         /\ [task EXCEPT !.observed = TRUE, !.waiters = W] \in Task(ids)
         /\ [task EXCEPT !.claimed = TRUE, !.waiters = W] \in Task(ids)
<1> DEFINE other == [task EXCEPT !.waiters = W]
<1>1. task \in TaskRecord(ids) /\ (task.state = "terminal" => task.terminal # "none")  BY DEF Task
<1>2. other \in TaskRecord(ids)  BY <1>1 DEF TaskRecord
<1>3. other.state = task.state /\ other.terminal = task.terminal  BY <1>1 DEF TaskRecord
<1>4. /\ [task EXCEPT !.observed = TRUE, !.waiters = W] = [other EXCEPT !.observed = TRUE]
      /\ [task EXCEPT !.claimed = TRUE, !.waiters = W] = [other EXCEPT !.claimed = TRUE]
  BY <1>1 DEF TaskRecord
<1> HIDE DEF other
<1>5. other \in Task(ids)  BY <1>1, <1>2, <1>3 DEF Task
<1>6. [other EXCEPT !.observed = TRUE] \in Task(ids)  BY <1>5, Updates
<1>7. [other EXCEPT !.claimed = TRUE] \in Task(ids)  BY <1>5, Updates
<1> QED  BY <1>4, <1>5, <1>6, <1>7 DEF other

LEMMA TakenIn ==
  ASSUME NEW n, NEW t \in 1..n, tasks \in [1..n -> Task(1..n)], NEW outcome
  PROVE  TakeIn(t, outcome) \in [1..n -> Task(1..n)]
<1>1. tasks[t] \in Task(1..n)  OBVIOUS
<1>2. \A b \in BOOLEAN : [tasks[t] EXCEPT !.raw = None, !.frame = b] \in Task(1..n)
  BY <1>1 DEF Task, TaskRecord
<1>3. TakeIn(t, outcome)
        = [tasks EXCEPT ![t] = [tasks[t] EXCEPT !.raw = None, !.frame = (outcome.op # "value")]]
  BY DEF TakeIn
<1> QED  BY <1>2, <1>3

-----------------------------------------------------------------------------
(* The steps of the run.                                                    *)
LEMMA StepTyped ==
  ASSUME NEW n \in 1..MaxTasks, Typed(n), Step
  PROVE  Typed(n)'
<1>1. CASE StepSettles  BY <1>1 DEF StepSettles, Typed
<1>2. CASE StepParks  BY <1>2 DEF StepParks, Typed
<1>3. CASE StepPolls
  <2> DEFINE t == Head(ready)
  <2>1. t \in 1..n /\ ready' \in Seq(1..n)  BY <1>3, Stacks DEF StepPolls, Typed
  <2>2. tasks[t] \in Task(1..n) /\ tasks \in [1..n -> Task(1..n)]  BY <2>1 DEF Typed
  <2>3. turn' = turn /\ public' = public /\ final' = final  BY <1>3 DEF StepPolls
  <2>4. tasks' \in [1..n -> Task(1..n)]
    <3>1. /\ [tasks[t] EXCEPT !.resume = FALSE, !.frame = FALSE] \in Task(1..n)
          /\ [tasks[t] EXCEPT !.resume = FALSE] \in Task(1..n)
          /\ [tasks[t] EXCEPT !.fresh = FALSE] \in Task(1..n)
      BY <2>2, Updates
    <3>2. TakeIn(t, tasks[t].raw) \in [1..n -> Task(1..n)]  BY <2>1, <2>2, TakenIn
    <3>3. \/ tasks' = tasks \/ tasks' = TakeIn(t, tasks[t].raw)
          \/ tasks' = [tasks EXCEPT ![t].resume = FALSE, ![t].frame = FALSE]
          \/ tasks' = [tasks EXCEPT ![t].resume = FALSE]
          \/ tasks' = [tasks EXCEPT ![t].fresh = FALSE]
      BY <1>3 DEF StepPolls
    <3> QED  BY <2>1, <2>2, <3>1, <3>2, <3>3
  <2>5. stack' \in Seq(Call(1..n))
    <3>1. Vm(t, "poll") \in Call(1..n) /\ Complete(t, "failed") \in Call(1..n)
      BY <2>1 DEF Vm, Complete, Call, VmCall, CompleteCall, Completion
    <3>2. tasks[t].raw # None => Effect(t, tasks[t].raw) \in Call(1..n)
      BY <2>1, <2>2 DEF Effect, Call, EffectCall, Task, TaskRecord
    <3> QED  BY <1>3, <3>1, <3>2, TypedStack DEF StepPolls, Typed
  <2> QED  BY <2>1, <2>3, <2>4, <2>5 DEF Typed
<1> QED  BY <1>1, <1>2, <1>3 DEF Step

-----------------------------------------------------------------------------
(* Program code.                                                            *)
LEMMA SameInterval ==
  ASSUME NEW a \in Nat, NEW b \in Nat, 1..a = 1..b
  PROVE  a = b
<1>1. \A i \in Nat : (i \in 1..a <=> 1 <= i /\ i <= a) /\ (i \in 1..b <=> 1 <= i /\ i <= b)
  OBVIOUS
<1>2. ~(a < b)  BY <1>1
<1>3. ~(b < a)  BY <1>1
<1> QED  BY <1>2, <1>3

LEMMA OneMore ==
  ASSUME NEW n \in Nat
  PROVE  /\ Task(1..n) \subseteq Task(1..n + 1)
         /\ Call(1..n) \subseteq Call(1..n + 1)
         /\ 1..n \subseteq 1..n + 1 /\ n + 1 \in 1..n + 1
<1>1. 1..n \subseteq 1..n + 1 /\ n + 1 \in 1..n + 1  OBVIOUS
<1>2. Outcome(1..n) \subseteq Outcome(1..n + 1)  BY <1>1 DEF Outcome
<1>3. Task(1..n) \subseteq Task(1..n + 1)
  <2> SUFFICES ASSUME NEW task \in Task(1..n) PROVE task \in Task(1..n + 1)
    OBVIOUS
  <2> QED  BY <1>1, <1>2 DEF Task, TaskRecord
<1>4. Call(1..n) \subseteq Call(1..n + 1)
  <2> SUFFICES ASSUME NEW call \in Call(1..n) PROVE call \in Call(1..n + 1)
    OBVIOUS
  <2> QED  BY <1>1, <1>2 DEF Call, VmCall, EffectCall, TaskCall, CompleteCall, SettleCall,
                               CancelTaskCall, CancelAllCall
<1> QED  BY <1>1, <1>3, <1>4

LEMMA SpawnTyped ==
  ASSUME NEW n \in 1..MaxTasks, Typed(n), NEW isDetached \in BOOLEAN, Spawn(isDetached)
  PROVE  n + 1 \in 1..MaxTasks /\ Typed(n + 1)'
<1>1. tasks \in [1..n -> Task(1..n)] /\ tasks \in Seq(Task(1..n))  BY SeqDef DEF Typed
<1>2. Len(tasks) = n
  <2>1. Len(tasks) \in Nat /\ 1..Len(tasks) = 1..n  BY <1>1, LenProperties
  <2> QED  BY <2>1
<1>3. n + 1 \in 1..MaxTasks  BY <1>2, TaskAssumption DEF Spawn
<1> DEFINE t == Top.task
           new == n + 1
           spawner == [tasks[t] EXCEPT !.knows = @ \cup {new}]
           child == NewTask(IF isDetached THEN TheRun ELSE t, isDetached, tasks[t].knows, TRUE)
<1>4. t \in 1..n
  BY TypedStack, CallKinds DEF Spawn, OnTop, VmCall
<1>5. tasks[t] \in Task(1..n) /\ tasks[t] \in Task(1..n + 1)  BY <1>1, <1>4, OneMore
<1>6. spawner \in Task(1..n + 1)  BY <1>5, OneMore DEF Task, TaskRecord
<1>7. child \in Task(1..n + 1)
  BY <1>4, <1>5, OneMore DEF Task, TaskRecord, NewTask
<1>8. tasks' = Append([tasks EXCEPT ![t] = spawner], child)  BY <1>2 DEF Spawn
<1>9. [tasks EXCEPT ![t] = spawner] \in [1..n -> Task(1..n + 1)]  BY <1>1, <1>4, <1>6, OneMore
<1>10. tasks' \in [1..n + 1 -> Task(1..n + 1)]
  <2> DEFINE old == [tasks EXCEPT ![t] = spawner]
  <2>1. old \in Seq(Task(1..n + 1)) /\ Len(old) = n
    <3>1. old \in Seq(Task(1..n + 1))
      <4>1. n \in Nat /\ old \in [1..n -> Task(1..n + 1)]  BY <1>9
      <4> HIDE DEF old
      <4> QED  BY <4>1, SeqDef
    <3>2. Len(old) \in Nat /\ 1..Len(old) = 1..n  BY <3>1, <1>9, LenProperties
    <3> QED  BY <3>1, <3>2, SameInterval
  <2> HIDE DEF old, child
  <2>2. Append(old, child) \in Seq(Task(1..n + 1)) /\ Len(Append(old, child)) = n + 1
    BY <2>1, <1>7, AppendProperties
  <2>3. Append(old, child) \in [1..n + 1 -> Task(1..n + 1)]  BY <2>2, LenProperties
  <2> QED  BY <2>3, <1>8 DEF old
<1>11. ready' \in Seq(1..n + 1)
  <2>1. ready \in Seq(1..n + 1)  BY OneMore, SeqMonotonic DEF Typed
  <2>2. ready' = Append(ready, n + 1)  BY <1>2 DEF Spawn
  <2> QED  BY <2>1, <2>2, OneMore, AppendProperties
<1>12. stack' \in Seq(Call(1..n + 1))
  BY OneMore, SeqMonotonic DEF Typed, Spawn
<1>13. turn' \in {"step", "parked", "settled"} /\ public' = public /\ final' = final
  BY DEF Spawn, Wake, Typed
<1> QED  BY <1>3, <1>10, <1>11, <1>12, <1>13 DEF Typed

LEMMA CancelTaskTyped ==
  ASSUME NEW n \in 1..MaxTasks, Typed(n), NEW u \in Spawned, CancelTask(u)
  PROVE  Typed(n)'
<1>1. u \in 1..n  BY TypedStack
<1>2. CancelCall(u, TRUE) \in Call(1..n)  BY <1>1 DEF CancelCall, Call, CancelTaskCall
<1>3. stack' \in Seq(Call(1..n))  BY <1>2, TypedStack DEF CancelTask
<1> QED  BY <1>3 DEF CancelTask, Typed

LEMMA TakeValueTyped ==
  ASSUME NEW n \in 1..MaxTasks, Typed(n), NEW u \in Spawned, TakeValue(u)
  PROVE  Typed(n)'
<1>1. u \in 1..n /\ tasks \in [1..n -> Task(1..n)] /\ tasks[u] \in Task(1..n)
  BY TypedStack DEF Typed
<1>2. [tasks[u] EXCEPT !.observed = TRUE, !.live = FALSE] \in Task(1..n)  BY <1>1, Updates
<1>3. tasks' = [tasks EXCEPT ![u].observed = TRUE, ![u].live = FALSE]  BY DEF TakeValue
<1>4. tasks' \in [1..n -> Task(1..n)]  BY <1>1, <1>2, <1>3
<1> QED  BY <1>4 DEF TakeValue, Typed

LEMMA VmReturnsTyped ==
  ASSUME NEW n \in 1..MaxTasks, Typed(n), VmReturns
  PROVE  Typed(n)'
<1> DEFINE t == Top.task
<1>1. t \in 1..n  BY TypedStack, CallKinds DEF VmReturns, OnTop, VmCall
<1>2. tasks \in [1..n -> Task(1..n)] /\ tasks[t] \in Task(1..n)  BY <1>1 DEF Typed
<1>3. ready \in Seq(1..n) /\ stack # <<>>  BY DEF VmReturns, OnTop, Typed
<1>4. PICK outcome \in Outcomes(t) :
         \/ tasks' = TakeIn(t, outcome) /\ Become(Effect(t, outcome)) /\ ready' = ready
         \/ Readied(t, outcome) /\ Pop
         \/ tasks' = tasks /\ ready' = ready /\ Pop
  BY Zenon DEF VmReturns
<1>5. Handles(t) \subseteq 1..n  BY <1>2, TypedStack DEF Handles, Task, TaskRecord
<1>6. outcome \in Outcome(1..n)  BY <1>4, <1>5 DEF Outcomes, Outcome
<1>7. Effect(t, outcome) \in Call(1..n)  BY <1>1, <1>6 DEF Effect, Call, EffectCall
<1>8. turn' \in {"step", "parked", "settled"} /\ public' = public /\ final' = final
  BY DEF VmReturns, Wake, Typed
<1>9. tasks' \in [1..n -> Task(1..n)] /\ ready' \in Seq(1..n) /\ stack' \in Seq(Call(1..n))
  <2>1. CASE tasks' = TakeIn(t, outcome) /\ Become(Effect(t, outcome)) /\ ready' = ready
    BY <2>1, <1>1, <1>2, <1>3, <1>7, TakenIn, TypedStack
  <2>2. CASE Readied(t, outcome) /\ Pop
    <3>1. [tasks[t] EXCEPT !.raw = outcome, !.state = "ready"] \in Task(1..n)
      BY <1>2, <1>6, Updates
    <3>2. tasks' = [tasks EXCEPT ![t].raw = outcome, ![t].state = "ready"]
      BY <2>2 DEF Readied
    <3>3. tasks' \in [1..n -> Task(1..n)]  BY <1>1, <1>2, <3>1, <3>2
    <3>4. ready' \in Seq(1..n)  BY <2>2, <1>1, <1>3, AppendProperties DEF Readied
    <3> QED  BY <2>2, <3>3, <3>4, <1>3, TypedStack
  <2>3. CASE tasks' = tasks /\ ready' = ready /\ Pop
    BY <2>3, <1>2, <1>3, TypedStack
  <2> QED  BY <1>4, <2>1, <2>2, <2>3
<1> QED  BY <1>8, <1>9 DEF Typed

LEMMA VmTrapsTyped ==
  ASSUME NEW n \in 1..MaxTasks, Typed(n), VmTraps
  PROVE  Typed(n)'
<1>1. Top.task \in 1..n /\ stack # <<>>
  BY TypedStack, CallKinds DEF VmTraps, OnTop, VmCall
<1>2. Complete(Top.task, "failed") \in Call(1..n)
  BY <1>1 DEF Complete, Call, CompleteCall, Completion
<1>3. stack' \in Seq(Call(1..n))  BY <1>1, <1>2, TypedStack DEF VmTraps
<1> QED  BY <1>3 DEF VmTraps, Typed

-----------------------------------------------------------------------------
(* The effects a task suspends on.                                          *)
LEMMA OnEffectTyped ==
  ASSUME NEW n \in 1..MaxTasks, Typed(n), NEW op, OnEffect(op)
  PROVE  /\ stack # <<>> /\ Top.task \in 1..n /\ Top.outcome \in Outcome(1..n)
         /\ op \in {"wait", "message"} => Top.outcome.task \in 1..n
         /\ tasks \in [1..n -> Task(1..n)]
         /\ \A u \in 1..n : tasks[u] \in Task(1..n)
         /\ \A kind \in Completion : Complete(Top.task, kind) \in Call(1..n)
         /\ [fn |-> "apply", task |-> Top.task] \in Call(1..n)
         /\ [fn |-> "handler", task |-> Top.task] \in Call(1..n)
<1>1. stack # <<>> /\ Top \in EffectCall(1..n)
  BY TypedStack, CallKinds DEF OnEffect, OnTop
<1>2. Top.task \in 1..n /\ Top.outcome \in Outcome(1..n)  BY <1>1 DEF EffectCall
<1>3. op \in {"wait", "message"} => Top.outcome.task \in 1..n
  BY <1>2 DEF OnEffect, Outcome
<1>4. tasks \in [1..n -> Task(1..n)]  BY DEF Typed
<1>5. \A kind \in Completion : Complete(Top.task, kind) \in Call(1..n)
  BY <1>2 DEF Complete, Call, CompleteCall
<1>6. /\ [fn |-> "apply", task |-> Top.task] \in Call(1..n)
      /\ [fn |-> "handler", task |-> Top.task] \in Call(1..n)
  BY <1>2 DEF Call, TaskCall
<1> QED  BY <1>1, <1>2, <1>3, <1>4, <1>5, <1>6

LEMMA TaskReturnsTyped ==
  ASSUME NEW n \in 1..MaxTasks, Typed(n), TaskReturns
  PROVE  Typed(n)'
<1>1. OnEffect("value")  BY DEF TaskReturns
<1>2. stack' \in Seq(Call(1..n))
  BY <1>1, OnEffectTyped, TypedStack DEF TaskReturns, Completion
<1> QED  BY <1>2 DEF TaskReturns, Typed

LEMMA CallHandlerTyped ==
  ASSUME NEW n \in 1..MaxTasks, Typed(n), CallHandler
  PROVE  Typed(n)'
<1>1. OnEffect("host")  BY DEF CallHandler
<1>2. stack' \in Seq(Call(1..n))
  BY <1>1, OnEffectTyped, TypedStack DEF CallHandler
<1> QED  BY <1>2 DEF CallHandler, Typed

LEMMA YieldOnceTyped ==
  ASSUME NEW n \in 1..MaxTasks, Typed(n), YieldOnce
  PROVE  Typed(n)'
<1> DEFINE t == Top.task
<1>1. OnEffect("yield")  BY DEF YieldOnce
<1>2. t \in 1..n /\ tasks[t] \in Task(1..n)  BY <1>1, OnEffectTyped
<1>3. [tasks[t] EXCEPT !.resume = TRUE, !.state = "ready"] \in Task(1..n)  BY <1>2, Updates
<1>4. tasks' = [tasks EXCEPT ![t].resume = TRUE, ![t].state = "ready"]  BY DEF YieldOnce
<1>5. tasks' \in [1..n -> Task(1..n)]  BY <1>1, <1>2, <1>3, <1>4, OnEffectTyped
<1>6. ready' \in Seq(1..n)  BY <1>2, AppendProperties DEF YieldOnce, Typed
<1>7. stack' \in Seq(Call(1..n))  BY <1>1, OnEffectTyped, TypedStack DEF YieldOnce
<1> QED  BY <1>5, <1>6, <1>7 DEF YieldOnce, Typed

LEMMA FailureMessageTyped ==
  ASSUME NEW n \in 1..MaxTasks, Typed(n), FailureMessage
  PROVE  Typed(n)'
<1> DEFINE u == Top.outcome.task
<1>1. OnEffect("message")  BY DEF FailureMessage
<1>2. u \in 1..n /\ tasks[u] \in Task(1..n)  BY <1>1, OnEffectTyped
<1>3. [tasks[u] EXCEPT !.observed = TRUE, !.live = FALSE] \in Task(1..n)  BY <1>2, Updates
<1>4. tasks' \in {tasks, [tasks EXCEPT ![u].observed = TRUE, ![u].live = FALSE]}
  BY DEF FailureMessage
<1>5. tasks' \in [1..n -> Task(1..n)]  BY <1>1, <1>2, <1>3, <1>4, OnEffectTyped
<1>6. stack' \in Seq(Call(1..n))
  BY <1>1, OnEffectTyped, TypedStack DEF FailureMessage, Completion
<1> QED  BY <1>5, <1>6 DEF FailureMessage, Typed

LEMMA WaitTaskTyped ==
  ASSUME NEW n \in 1..MaxTasks, Typed(n), WaitTask
  PROVE  Typed(n)'
<1> DEFINE t == Top.task
           u == Top.outcome.task
           claim == [tasks EXCEPT ![u].claimed = TRUE]
           awaited == [claim EXCEPT ![u].waiters = @ \cup {t}]
<1>1. OnEffect("wait")  BY DEF WaitTask
<1>2. t \in 1..n /\ u \in 1..n /\ tasks \in [1..n -> Task(1..n)]  BY <1>1, OnEffectTyped
<1>3. claim \in [1..n -> Task(1..n)]
  <2>1. [tasks[u] EXCEPT !.claimed = TRUE] \in Task(1..n)  BY <1>2, Updates
  <2> QED  BY <1>2, <2>1
<1>4. [claim EXCEPT ![u].observed = TRUE, ![u].live = (tasks[u].terminal # "cancelled")]
        \in [1..n -> Task(1..n)]
  <2>1. claim[u] \in Task(1..n)  BY <1>2, <1>3
  <2> HIDE DEF claim
  <2>2. \A b \in BOOLEAN : [claim[u] EXCEPT !.observed = TRUE, !.live = b] \in Task(1..n)
    BY <2>1 DEF Task, TaskRecord
  <2> QED  BY <1>2, <1>3, <2>2
<1>5. [claim EXCEPT ![u].waiters = @ \cup {t}, ![t].state = "waiting"] \in [1..n -> Task(1..n)]
  <2>1. claim[u] \in Task(1..n)  BY <1>2, <1>3
  <2> HIDE DEF claim
  <2>2. [claim[u] EXCEPT !.waiters = @ \cup {t}] \in Task(1..n)  BY <1>2, <2>1, Updates
  <2>3. awaited \in [1..n -> Task(1..n)]  BY <1>2, <1>3, <2>2
  <2>4. [awaited[t] EXCEPT !.state = "waiting"] \in Task(1..n)  BY <1>2, <2>3, Updates
  <2>5. [claim EXCEPT ![u].waiters = @ \cup {t}, ![t].state = "waiting"]
          = [awaited EXCEPT ![t].state = "waiting"]
    OBVIOUS
  <2> HIDE DEF awaited
  <2> QED  BY <1>2, <2>3, <2>4, <2>5
<1>6. tasks' \in [1..n -> Task(1..n)]  BY <1>2, <1>4, <1>5 DEF WaitTask
<1>7. stack' \in Seq(Call(1..n))
  BY <1>1, OnEffectTyped, TypedStack DEF WaitTask, Completion
<1> QED  BY <1>6, <1>7 DEF WaitTask, Typed

-----------------------------------------------------------------------------
(* Handlers, continuations and the ends of tasks.                           *)
LEMMA OnCallTyped ==
  ASSUME NEW n \in 1..MaxTasks, Typed(n), NEW fn, OnTop(fn),
         fn \in {"handler", "apply", "owner", "complete", "settle", "cancel"}
  PROVE  /\ stack # <<>> /\ Top.task \in 1..n /\ Top \in Call(1..n)
         /\ Spawned = 1..n
         /\ tasks \in [1..n -> Task(1..n)]
         /\ \A u \in 1..n : tasks[u] \in Task(1..n)
         /\ fn = "complete" => Top \in CompleteCall(1..n)
         /\ fn = "settle" => Top \in SettleCall(1..n)
         /\ fn = "cancel" => Top \in CancelTaskCall(1..n)
<1>1. stack # <<>> /\ Top \in Call(1..n) /\ Top.fn = fn /\ Spawned = 1..n
  BY TypedStack DEF OnTop
<1>2. /\ fn \in {"handler", "apply", "owner"} => Top \in TaskCall(1..n)
      /\ fn = "complete" => Top \in CompleteCall(1..n)
      /\ fn = "settle" => Top \in SettleCall(1..n)
      /\ fn = "cancel" => Top \in CancelTaskCall(1..n)
  BY <1>1, CallKinds
<1>3. Top.task \in 1..n
  BY <1>2 DEF TaskCall, CompleteCall, SettleCall, CancelTaskCall
<1>4. tasks \in [1..n -> Task(1..n)]  BY DEF Typed
<1> QED  BY <1>1, <1>2, <1>3, <1>4

(* The calls the actions make, with the ids of tasks, are calls.            *)
LEMMA CallsMade ==
  ASSUME NEW n, NEW t \in 1..n
  PROVE  /\ \A kind \in Completion : Complete(t, kind) \in Call(1..n)
         /\ \A for \in {"poll", "apply", "terminal", "cancel"} : Vm(t, for) \in Call(1..n)
         /\ \A wake \in BOOLEAN : CancelCall(t, wake) \in Call(1..n)
         /\ \A fn \in {"handler", "apply", "owner"} : [fn |-> fn, task |-> t] \in Call(1..n)
         /\ [fn |-> "settle", task |-> t, at |-> "waiters"] \in Call(1..n)
         /\ \A c \in SettleCall(1..n) : [c EXCEPT !.at = "sink"] \in Call(1..n)
<1>1. \A kind \in Completion : Complete(t, kind) \in Call(1..n)
  BY DEF Complete, Call, CompleteCall
<1>2. \A for \in {"poll", "apply", "terminal", "cancel"} : Vm(t, for) \in Call(1..n)
  BY DEF Vm, Call, VmCall
<1>3. \A wake \in BOOLEAN : CancelCall(t, wake) \in Call(1..n)
  BY DEF CancelCall, Call, CancelTaskCall
<1>4. \A fn \in {"handler", "apply", "owner"} : [fn |-> fn, task |-> t] \in Call(1..n)
  BY DEF Call, TaskCall
<1>5. [fn |-> "settle", task |-> t, at |-> "waiters"] \in Call(1..n)
  BY DEF Call, SettleCall
<1>6. \A c \in SettleCall(1..n) : [c EXCEPT !.at = "sink"] \in Call(1..n)
  BY DEF Call, SettleCall
<1> QED  BY <1>1, <1>2, <1>3, <1>4, <1>5, <1>6

LEMMA ApplyContinuationTyped ==
  ASSUME NEW n \in 1..MaxTasks, Typed(n), ApplyContinuation
  PROVE  Typed(n)'
<1> DEFINE t == Top.task
<1>1. OnTop("apply")  BY DEF ApplyContinuation
<1>2. t \in 1..n /\ tasks \in [1..n -> Task(1..n)]  BY <1>1, OnCallTyped
<1>3. [tasks[t] EXCEPT !.frame = FALSE] \in Task(1..n)  BY <1>2, Updates
<1>4. tasks' = [tasks EXCEPT ![t].frame = FALSE]  BY DEF ApplyContinuation
<1>5. tasks' \in [1..n -> Task(1..n)]  BY <1>2, <1>3, <1>4
<1>6. Vm(t, "apply") \in Call(1..n) /\ Complete(t, "failed") \in Call(1..n)
  BY <1>2, CallsMade DEF Completion
<1>7. Pop \/ Become(Vm(t, "apply")) \/ Become(Complete(t, "failed"))
  BY DEF ApplyContinuation
<1>8. stack' \in Seq(Call(1..n))  BY <1>1, <1>6, <1>7, OnCallTyped, TypedStack
<1> QED  BY <1>5, <1>8 DEF ApplyContinuation, Typed

LEMMA HandlerReturnsTyped ==
  ASSUME NEW n \in 1..MaxTasks, Typed(n), HandlerReturns
  PROVE  Typed(n)'
<1> DEFINE t == Top.task
<1>1. OnTop("handler")  BY DEF HandlerReturns
<1>2. t \in 1..n /\ tasks \in [1..n -> Task(1..n)]  BY <1>1, OnCallTyped
<1>3. [tasks[t] EXCEPT !.state = "waiting", !.promise = TRUE] \in Task(1..n)
  BY <1>2, Updates
<1>4. \/ tasks' = tasks
      \/ tasks' = [tasks EXCEPT ![t].state = "waiting", ![t].promise = TRUE]
  BY DEF HandlerReturns
<1>5. tasks' \in [1..n -> Task(1..n)]  BY <1>2, <1>3, <1>4
<1>6. [fn |-> "apply", task |-> t] \in Call(1..n) /\ Complete(t, "failed") \in Call(1..n)
  BY <1>2, CallsMade DEF Completion
<1>7. Pop \/ Become([fn |-> "apply", task |-> t]) \/ Become(Complete(t, "failed"))
  BY DEF HandlerReturns
<1>8. stack' \in Seq(Call(1..n))  BY <1>1, <1>6, <1>7, OnCallTyped, TypedStack
<1> QED  BY <1>5, <1>8 DEF HandlerReturns, Typed

LEMMA PromiseSettlesTyped ==
  ASSUME NEW n \in 1..MaxTasks, Typed(n), NEW t \in Spawned, PromiseSettles(t)
  PROVE  Typed(n)'
<1>1. t \in 1..n /\ tasks \in [1..n -> Task(1..n)]  BY TypedStack DEF Typed
<1>2. [tasks[t] EXCEPT !.promise = FALSE] \in Task(1..n)  BY <1>1, Updates
<1>3. tasks' = [tasks EXCEPT ![t].promise = FALSE]  BY DEF PromiseSettles
<1>4. tasks' \in [1..n -> Task(1..n)]  BY <1>1, <1>2, <1>3
<1>5. [fn |-> "apply", task |-> t] \in Call(1..n) /\ Complete(t, "failed") \in Call(1..n)
  BY <1>1, CallsMade DEF Completion
<1>6. Push([fn |-> "apply", task |-> t]) \/ Push(Complete(t, "failed"))
  BY DEF PromiseSettles
<1>7. stack' \in Seq(Call(1..n))  BY <1>5, <1>6, TypedStack
<1> QED  BY <1>4, <1>7 DEF PromiseSettles, Typed

LEMMA CompleteEntryTyped ==
  ASSUME NEW n \in 1..MaxTasks, Typed(n), CompleteEntry
  PROVE  Typed(n)'
<1> DEFINE t == Top.task
<1>1. OnTop("complete")  BY DEF CompleteEntry
<1>2. t \in 1..n /\ tasks \in [1..n -> Task(1..n)] /\ Top \in CompleteCall(1..n)
  BY <1>1, OnCallTyped
<1>3. [tasks[t] EXCEPT !.frame = FALSE] \in Task(1..n)  BY <1>2, Updates
<1>4. tasks' = [tasks EXCEPT ![t].frame = FALSE]  BY DEF CompleteEntry
<1>5. tasks' \in [1..n -> Task(1..n)]  BY <1>2, <1>3, <1>4
<1>6. [Top EXCEPT !.at = "children"] \in Call(1..n)  BY <1>2 DEF Call, CompleteCall
<1>7. Pop \/ Become([Top EXCEPT !.at = "children"])  BY DEF CompleteEntry
<1>8. stack' \in Seq(Call(1..n))  BY <1>1, <1>6, <1>7, OnCallTyped, TypedStack
<1> QED  BY <1>5, <1>8 DEF CompleteEntry, Typed

LEMMA OnTopOf ==
  ASSUME NEW S, NEW s \in Seq(S), NEW a \in S, NEW e \in S, NEW told
  PROVE  (IF told THEN <<a>> ELSE <<>>) \o <<e>> \o s \in Seq(S)
<1> DEFINE first == IF told THEN <<a>> ELSE <<>>
<1>1. <<a>> \in Seq(S) /\ <<e>> \in Seq(S)  OBVIOUS
<1>2. <<>> \in Seq(S)  BY EmptySeq
<1>3. first \in Seq(S)  BY <1>1, <1>2
<1> HIDE DEF first
<1>4. first \o <<e>> \o s \in Seq(S)  BY <1>1, <1>3, ConcatProperties
<1> QED  BY <1>4 DEF first

LEMMA VisitTyped ==
  ASSUME NEW n \in 1..MaxTasks, Typed(n), NEW c \in 1..n, VisitChild(c), stack # <<>>,
         Top \in CompleteCall(1..n) \cup CancelTaskCall(1..n)
  PROVE  stack' \in Seq(Call(1..n))
<1>1. CancelCall(c, FALSE) \in Call(1..n)  BY CallsMade
<1>2. [Top EXCEPT !.from = c] \in Call(1..n)
  BY DEF Call, CompleteCall, CancelTaskCall
<1>3. Tail(stack) \in Seq(Call(1..n))  BY TypedStack
<1> QED  BY <1>1, <1>2, <1>3, OnTopOf, Zenon DEF VisitChild

LEMMA CompleteCancelsChildTyped ==
  ASSUME NEW n \in 1..MaxTasks, Typed(n), CompleteCancelsChild
  PROVE  Typed(n)'
<1>1. OnTop("complete")  BY DEF CompleteCancelsChild
<1>2. PICK c \in Spawned : VisitChild(c)  BY DEF CompleteCancelsChild
<1>3. stack # <<>> /\ Top \in CompleteCall(1..n) /\ c \in 1..n  BY <1>1, OnCallTyped
<1>4. stack' \in Seq(Call(1..n))  BY <1>2, <1>3, VisitTyped
<1> QED  BY <1>4 DEF CompleteCancelsChild, Typed

LEMMA CancelCancelsChildTyped ==
  ASSUME NEW n \in 1..MaxTasks, Typed(n), CancelCancelsChild
  PROVE  Typed(n)'
<1>1. OnTop("cancel")  BY DEF CancelCancelsChild
<1>2. PICK c \in Spawned : VisitChild(c)  BY DEF CancelCancelsChild
<1>3. stack # <<>> /\ Top \in CancelTaskCall(1..n) /\ c \in 1..n  BY <1>1, OnCallTyped
<1>4. stack' \in Seq(Call(1..n))  BY <1>2, <1>3, VisitTyped
<1> QED  BY <1>4 DEF CancelCancelsChild, Typed

(* A task that has ended keeps its type.                                    *)
LEMMA EndedTyped ==
  ASSUME NEW ids, NEW task \in Task(ids), NEW k \in Kind
  PROVE  /\ [task EXCEPT !.state = "terminal", !.terminal = k, !.observed = FALSE,
               !.reported = FALSE, !.completion = "none", !.resume = FALSE] \in Task(ids)
         /\ [task EXCEPT !.state = "terminal", !.terminal = k, !.observed = FALSE,
               !.reported = FALSE, !.raw = None, !.resume = FALSE, !.completion = "none"]
              \in Task(ids)
<1> DEFINE told == [[task EXCEPT !.state = "terminal", !.terminal = k]
                      EXCEPT !.observed = FALSE, !.reported = FALSE]
<1>1. told \in Task(ids)  BY Updates
<1>2. [told EXCEPT !.completion = "none", !.resume = FALSE] \in Task(ids)  BY <1>1, Updates
<1>3. [[told EXCEPT !.raw = None] EXCEPT !.completion = "none", !.resume = FALSE] \in Task(ids)
  BY <1>1, Updates
<1>4. [told EXCEPT !.raw = None, !.resume = FALSE, !.completion = "none"]
        = [[told EXCEPT !.raw = None] EXCEPT !.completion = "none", !.resume = FALSE]
  BY <1>1 DEF Task, TaskRecord
<1> QED  BY <1>2, <1>3, <1>4

LEMMA TerminateTyped ==
  ASSUME NEW n \in 1..MaxTasks, Typed(n), stack # <<>>,
         NEW t \in 1..n, NEW kind \in Completion, Terminate(t, kind)
  PROVE  tasks' \in [1..n -> Task(1..n)] /\ stack' \in Seq(Call(1..n))
<1>1. tasks \in [1..n -> Task(1..n)] /\ tasks[t] \in Task(1..n)  BY DEF Typed
<1>2. TerminalKinds(t, kind) \subseteq Kind  BY DEF TerminalKinds, Completion, Kind
<1>3. PICK k \in Kind :
         tasks' = [tasks EXCEPT ![t].state = "terminal", ![t].terminal = k,
                     ![t].observed = FALSE, ![t].reported = FALSE,
                     ![t].completion = "none", ![t].resume = FALSE]
  BY <1>2, Zenon DEF Terminate
<1>4. [tasks[t] EXCEPT !.state = "terminal", !.terminal = k,
         !.observed = FALSE, !.reported = FALSE, !.completion = "none", !.resume = FALSE]
        \in Task(1..n)
  BY <1>1, EndedTyped
<1>5. tasks' \in [1..n -> Task(1..n)]  BY <1>1, <1>3, <1>4
<1>6. Become([fn |-> "settle", task |-> t, at |-> "waiters"])  BY DEF Terminate
<1>7. stack' \in Seq(Call(1..n))  BY <1>6, CallsMade, TypedStack
<1> QED  BY <1>5, <1>7

LEMMA CompleteDecidesTyped ==
  ASSUME NEW n \in 1..MaxTasks, Typed(n), CompleteDecides
  PROVE  Typed(n)'
<1> DEFINE t == Top.task
<1>1. OnTop("complete")  BY DEF CompleteDecides
<1>2. /\ stack # <<>> /\ t \in 1..n /\ Top \in CompleteCall(1..n)
      /\ tasks \in [1..n -> Task(1..n)]
  BY <1>1, OnCallTyped
<1>3. Top.kind \in Completion  BY <1>2 DEF CompleteCall
<1>4. tasks' \in [1..n -> Task(1..n)] /\ stack' \in Seq(Call(1..n))
  <2>1. CASE Terminate(t, Top.kind)  BY <2>1, <1>2, <1>3, TerminateTyped
  <2>2. CASE ~Terminate(t, Top.kind)
    <3>1. [tasks[t] EXCEPT !.state = "completing", !.completion = Top.kind] \in Task(1..n)
      <4>1. tasks[t] \in Task(1..n)  BY <1>2
      <4> QED  BY <4>1, <1>3 DEF Task, TaskRecord
    <3>2. tasks' = [tasks EXCEPT ![t].state = "completing", ![t].completion = Top.kind] /\ Pop
      BY <2>2 DEF CompleteDecides
    <3> QED  BY <3>1, <3>2, <1>2, TypedStack
  <2> QED  BY <2>1, <2>2
<1> QED  BY <1>4 DEF CompleteDecides, Typed

LEMMA OwnerCompletesTyped ==
  ASSUME NEW n \in 1..MaxTasks, Typed(n), OwnerCompletes
  PROVE  Typed(n)'
<1> DEFINE t == Top.task
<1>1. OnTop("owner")  BY DEF OwnerCompletes
<1>2. stack # <<>> /\ t \in 1..n /\ tasks[t] \in Task(1..n)  BY <1>1, OnCallTyped
<1>3. tasks' \in [1..n -> Task(1..n)] /\ stack' \in Seq(Call(1..n))
  <2>1. CASE tasks[t].completion # "none" /\ Terminate(t, tasks[t].completion)
    <3>1. tasks[t].completion \in Completion  BY <1>2, <2>1 DEF Task, TaskRecord
    <3> QED  BY <2>1, <3>1, <1>2, TerminateTyped
  <2>2. CASE Pop /\ tasks' = tasks
    BY <2>2, <1>2, TypedStack DEF Typed
  <2> QED  BY <2>1, <2>2 DEF OwnerCompletes
<1> QED  BY <1>3 DEF OwnerCompletes, Typed

LEMMA SettleResumesWaiterTyped ==
  ASSUME NEW n \in 1..MaxTasks, Typed(n), SettleResumesWaiter
  PROVE  Typed(n)'
<1> DEFINE t == Top.task
<1>1. OnTop("settle")  BY DEF SettleResumesWaiter
<1>2. t \in 1..n /\ tasks \in [1..n -> Task(1..n)] /\ tasks[t] \in Task(1..n)
  BY <1>1, OnCallTyped
<1>3. PICK w \in tasks[t].waiters :
         /\ tasks' = [tasks EXCEPT ![t].observed = TRUE, ![t].waiters = @ \ {w},
                                   ![w].frame = FALSE]
         /\ IF tasks[w].frame THEN Push(Vm(w, "terminal")) ELSE Push(Complete(w, "failed"))
  BY Zenon DEF SettleResumesWaiter
<1>4. w \in 1..n  BY <1>2, <1>3 DEF Task, TaskRecord
<1>5. tasks' \in [1..n -> Task(1..n)]
  <2> DEFINE told == [tasks EXCEPT ![t].observed = TRUE, ![t].waiters = @ \ {w}]
  <2>1. told \in [1..n -> Task(1..n)]
    <3>1. [tasks[t] EXCEPT !.observed = TRUE] \in Task(1..n)  BY <1>2, Updates
    <3>2. [[tasks[t] EXCEPT !.observed = TRUE] EXCEPT !.waiters = @ \ {w}] \in Task(1..n)
      BY <3>1, Updates
    <3>3. told = [tasks EXCEPT ![t] = [[tasks[t] EXCEPT !.observed = TRUE] EXCEPT !.waiters = @ \ {w}]]
      BY <1>2
    <3> QED  BY <1>2, <3>2, <3>3
  <2>2. [told[w] EXCEPT !.frame = FALSE] \in Task(1..n)  BY <1>4, <2>1, Updates
  <2>3. tasks' = [told EXCEPT ![w].frame = FALSE]  BY <1>3
  <2> HIDE DEF told
  <2> QED  BY <1>4, <2>1, <2>2, <2>3
<1>6. Vm(w, "terminal") \in Call(1..n) /\ Complete(w, "failed") \in Call(1..n)
  BY <1>4, CallsMade DEF Completion
<1>7. stack' \in Seq(Call(1..n))  BY <1>3, <1>6, TypedStack
<1> QED  BY <1>5, <1>7 DEF SettleResumesWaiter, Typed

LEMMA CancelResumesWaiterTyped ==
  ASSUME NEW n \in 1..MaxTasks, Typed(n), CancelResumesWaiter
  PROVE  Typed(n)'
<1> DEFINE t == Top.task
<1>1. OnTop("cancel")  BY DEF CancelResumesWaiter
<1>2. t \in 1..n /\ tasks \in [1..n -> Task(1..n)] /\ tasks[t] \in Task(1..n)
  BY <1>1, OnCallTyped
<1>3. PICK w \in tasks[t].waiters :
         /\ tasks' = [tasks EXCEPT ![t].waiters = @ \ {w}, ![w].frame = FALSE]
         /\ Push(Vm(w, "cancel")) \/ stack' = stack
  BY Zenon DEF CancelResumesWaiter
<1>4. w \in 1..n  BY <1>2, <1>3 DEF Task, TaskRecord
<1>5. tasks' \in [1..n -> Task(1..n)]
  <2> DEFINE told == [tasks EXCEPT ![t].waiters = @ \ {w}]
  <2>1. [tasks[t] EXCEPT !.waiters = @ \ {w}] \in Task(1..n)  BY <1>2, Updates
  <2>2. told \in [1..n -> Task(1..n)]  BY <1>2, <2>1
  <2>3. [told[w] EXCEPT !.frame = FALSE] \in Task(1..n)  BY <1>4, <2>2, Updates
  <2>4. tasks' = [told EXCEPT ![w].frame = FALSE]  BY <1>3
  <2> HIDE DEF told
  <2> QED  BY <1>4, <2>2, <2>3, <2>4
<1>6. Vm(w, "cancel") \in Call(1..n)  BY <1>4, CallsMade
<1>7. stack' \in Seq(Call(1..n))  BY <1>3, <1>6, TypedStack DEF Typed
<1> QED  BY <1>5, <1>7 DEF CancelResumesWaiter, Typed

(* The record once the sink has returned.                                   *)
Reported(task) == [task EXCEPT !.reported = TRUE]

LEMMA NotifiedTyped ==
  ASSUME NEW ids, NEW task \in Task(ids)
  PROVE  Notified(task) \in Task(ids) /\ Reported(task) \in Task(ids)
<1>1. [task EXCEPT !.observer = task.terminal, !.live = FALSE, !.observed = TRUE] \in Task(ids)
  <2> DEFINE told == [task EXCEPT !.observer = task.terminal]
  <2>1. told \in Task(ids)  BY DEF Task, TaskRecord
  <2>2. [task EXCEPT !.observer = task.terminal, !.live = FALSE, !.observed = TRUE]
          = [told EXCEPT !.observed = TRUE, !.live = FALSE]
    BY DEF Task, TaskRecord
  <2> HIDE DEF told
  <2> QED  BY <2>1, <2>2, Updates
<1>2. Notified(task) \in Task(ids)  BY <1>1, Updates DEF Notified
<1>3. Reported(task) \in Task(ids)  BY Updates DEF Reported
<1> QED  BY <1>2, <1>3

LEMMA TellOwnerTyped ==
  ASSUME NEW n \in 1..MaxTasks, Typed(n), stack # <<>>, NEW t \in 1..n, TellOwner(t),
         Top \in SettleCall(1..n) \cup CancelTaskCall(1..n)
  PROVE  stack' \in Seq(Call(1..n))
<1>1. tasks[t] \in Task(1..n) /\ Tail(stack) \in Seq(Call(1..n))  BY TypedStack DEF Typed
<1>2. [Top EXCEPT !.at = "finish"] \in Call(1..n)
  BY DEF Call, SettleCall, CancelTaskCall
<1> DEFINE owner == tasks[t].owner
           orphan == owner = TheRun
           told == [fn |-> "owner", task |-> owner]
<1>3. CASE orphan
  <2>1. stack' = <<>> \o <<[Top EXCEPT !.at = "finish"]>> \o Tail(stack)
    BY <1>3 DEF TellOwner
  <2>2. stack' = (IF FALSE THEN <<Top>> ELSE <<>>) \o <<[Top EXCEPT !.at = "finish"]>> \o Tail(stack)
    BY <2>1
  <2> QED  BY <2>2, <1>1, <1>2, TypedStack, OnTopOf, Zenon
<1>4. CASE ~orphan
  <2>1. owner \in 1..n  BY <1>1, <1>4 DEF Task, TaskRecord
  <2>2. told \in Call(1..n)  BY <2>1, CallsMade
  <2>3. stack' = <<told>> \o <<[Top EXCEPT !.at = "finish"]>> \o Tail(stack)
    BY <1>4 DEF TellOwner
  <2>4. stack' = (IF TRUE THEN <<told>> ELSE <<>>) \o <<[Top EXCEPT !.at = "finish"]>> \o Tail(stack)
    BY <2>3
  <2> QED  BY <2>4, <2>2, <1>1, <1>2, OnTopOf, Zenon
<1> QED  BY <1>3, <1>4

LEMMA SettleNotifiesTyped ==
  ASSUME NEW n \in 1..MaxTasks, Typed(n), SettleNotifies
  PROVE  Typed(n)'
<1> DEFINE t == Top.task
<1>1. OnTop("settle")  BY DEF SettleNotifies
<1>2. /\ stack # <<>> /\ t \in 1..n /\ Top \in SettleCall(1..n)
      /\ tasks \in [1..n -> Task(1..n)] /\ tasks[t] \in Task(1..n)
  BY <1>1, OnCallTyped
<1>3. Notified(tasks[t]) \in Task(1..n)  BY <1>2, NotifiedTyped
<1>4. tasks' = [tasks EXCEPT ![t] = Notified(tasks[t])]  BY DEF SettleNotifies
<1>5. tasks' \in [1..n -> Task(1..n)]  BY <1>2, <1>3, <1>4
<1>6. stack' \in Seq(Call(1..n))
  <2>1. [Top EXCEPT !.at = "sink"] \in Call(1..n)  BY <1>2, CallsMade
  <2>2. CASE Become([Top EXCEPT !.at = "sink"])  BY <1>2, <2>1, <2>2, TypedStack
  <2>3. CASE TellOwner(t)  BY <1>2, <2>3, TellOwnerTyped
  <2> QED  BY <2>2, <2>3 DEF SettleNotifies
<1> QED  BY <1>5, <1>6 DEF SettleNotifies, Typed

LEMMA SinkReturnsTyped ==
  ASSUME NEW n \in 1..MaxTasks, Typed(n), SinkReturns
  PROVE  Typed(n)'
<1> DEFINE t == Top.task
<1>1. OnTop("settle")  BY DEF SinkReturns
<1>2. /\ stack # <<>> /\ t \in 1..n /\ Top \in SettleCall(1..n)
      /\ tasks \in [1..n -> Task(1..n)] /\ tasks[t] \in Task(1..n)
  BY <1>1, OnCallTyped
<1>3. Reported(tasks[t]) \in Task(1..n)  BY <1>2, NotifiedTyped
<1>4. tasks' = [tasks EXCEPT ![t] = Reported(tasks[t])]  BY <1>2 DEF SinkReturns, Reported
<1>5. tasks' \in [1..n -> Task(1..n)]  BY <1>2, <1>3, <1>4
<1>6. stack' \in Seq(Call(1..n))  BY <1>2, TellOwnerTyped DEF SinkReturns
<1> QED  BY <1>5, <1>6 DEF SinkReturns, Typed

LEMMA CancelNotifiesTyped ==
  ASSUME NEW n \in 1..MaxTasks, Typed(n), CancelNotifies
  PROVE  Typed(n)'
<1> DEFINE t == Top.task
<1>1. OnTop("cancel")  BY DEF CancelNotifies
<1>2. /\ stack # <<>> /\ t \in 1..n /\ Top \in CancelTaskCall(1..n)
      /\ tasks \in [1..n -> Task(1..n)] /\ tasks[t] \in Task(1..n)
  BY <1>1, OnCallTyped
<1>3. Notified(tasks[t]) \in Task(1..n)  BY <1>2, NotifiedTyped
<1>4. tasks' = [tasks EXCEPT ![t] = Notified(tasks[t])]  BY DEF CancelNotifies
<1>5. tasks' \in [1..n -> Task(1..n)]  BY <1>2, <1>3, <1>4
<1>6. stack' \in Seq(Call(1..n))  BY <1>2, TellOwnerTyped DEF CancelNotifies
<1> QED  BY <1>5, <1>6 DEF CancelNotifies, Typed

LEMMA FinalizeTyped ==
  ASSUME NEW n \in 1..MaxTasks, Typed(n), FinalizeIfDone
  PROVE  public' \in Kind \cup {"none"} /\ final' \in Kind \cup {"none"}
<1>1. Root \in 1..n  BY TaskAssumption DEF Root
<1>2. tasks[Root] \in Task(1..n)  BY <1>1 DEF Typed
<1>3. tasks[Root].terminal \in Kind \cup {"none"}  BY <1>2 DEF Task, TaskRecord
<1> QED  BY <1>3, Zenon DEF FinalizeIfDone, SettlePublic, Typed

LEMMA SettleFinishesTyped ==
  ASSUME NEW n \in 1..MaxTasks, Typed(n), SettleFinishes
  PROVE  Typed(n)'
<1>1. public' \in Kind \cup {"none"} /\ final' \in Kind \cup {"none"}
  BY FinalizeTyped DEF SettleFinishes
<1>2. turn' \in {"step", "parked", "settled"}  BY DEF SettleFinishes, Wake, Typed
<1>3. stack' \in Seq(Call(1..n))  BY TypedStack DEF SettleFinishes, OnTop
<1> QED  BY <1>1, <1>2, <1>3 DEF SettleFinishes, Typed

LEMMA CancelFinishesTyped ==
  ASSUME NEW n \in 1..MaxTasks, Typed(n), CancelFinishes
  PROVE  Typed(n)'
<1>1. public' \in Kind \cup {"none"} /\ final' \in Kind \cup {"none"}
  BY FinalizeTyped DEF CancelFinishes
<1>2. turn' \in {"step", "parked", "settled"}  BY DEF CancelFinishes, Wake, Typed
<1>3. stack' \in Seq(Call(1..n))  BY TypedStack DEF CancelFinishes, OnTop
<1> QED  BY <1>1, <1>2, <1>3 DEF CancelFinishes, Typed

LEMMA CancelTerminatesTyped ==
  ASSUME NEW n \in 1..MaxTasks, Typed(n), CancelTerminates
  PROVE  Typed(n)'
<1> DEFINE t == Top.task
<1>1. OnTop("cancel")  BY DEF CancelTerminates
<1>2. /\ stack # <<>> /\ t \in 1..n /\ Top \in CancelTaskCall(1..n)
      /\ tasks \in [1..n -> Task(1..n)] /\ tasks[t] \in Task(1..n)
  BY <1>1, OnCallTyped
<1>3. [tasks[t] EXCEPT !.state = "terminal", !.terminal = "cancelled",
         !.observed = FALSE, !.reported = FALSE, !.raw = None, !.resume = FALSE,
         !.completion = "none"] \in Task(1..n)
  BY <1>2, EndedTyped DEF Kind
<1>4. tasks' = [tasks EXCEPT ![t].state = "terminal", ![t].terminal = "cancelled",
                  ![t].observed = FALSE, ![t].reported = FALSE,
                  ![t].raw = None, ![t].resume = FALSE, ![t].completion = "none"]
  BY DEF CancelTerminates
<1>5. tasks' \in [1..n -> Task(1..n)]  BY <1>2, <1>3, <1>4
<1>6. [Top EXCEPT !.at = "waiters"] \in Call(1..n)  BY <1>2 DEF Call, CancelTaskCall
<1>7. stack' \in Seq(Call(1..n))  BY <1>2, <1>6, TypedStack DEF CancelTerminates
<1> QED  BY <1>5, <1>7 DEF CancelTerminates, Typed

-----------------------------------------------------------------------------
(* The host's calls.                                                        *)
LEMMA CancelAllTyped ==
  ASSUME NEW n \in 1..MaxTasks, Typed(n), CancelAll
  PROVE  Typed(n)'
<1>1. stack # <<>> /\ Top \in CancelAllCall(1..n)  BY TypedStack, CallKinds DEF CancelAll, OnTop
<1>2. stack' \in Seq(Call(1..n))
  <2>1. CASE Pop  BY <2>1, <1>1, TypedStack
  <2>2. CASE ~Pop
    <3> DEFINE t == Top.from + 1
    <3>1. Top.from \in Nat /\ Top.upto \in 1..n /\ Top.from <= Top.upto /\ Top.from # Top.upto
      BY <1>1, <2>2 DEF CancelAll, CancelAllCall
    <3>2. t \in 1..n /\ t <= Top.upto  BY <3>1
    <3>3. [Top EXCEPT !.from = t] \in Call(1..n)
      BY <1>1, <3>2 DEF Call, CancelAllCall
    <3>4. CancelCall(t, FALSE) \in Call(1..n)  BY <3>2, CallsMade
    <3>5. stack' = (IF Live(t) THEN <<CancelCall(t, FALSE)>> ELSE <<>>)
                     \o <<[Top EXCEPT !.from = t]>> \o Tail(stack)
      BY <2>2 DEF CancelAll
    <3> HIDE DEF t
    <3> QED  BY <3>3, <3>4, <3>5, <1>1, TypedStack, OnTopOf, Zenon
  <2> QED  BY <2>1, <2>2
<1> QED  BY <1>2 DEF CancelAll, Typed

LEMMA RunCancelTyped ==
  ASSUME NEW n \in 1..MaxTasks, Typed(n), RunCancel
  PROVE  Typed(n)'
<1>1. Len(tasks) = n
  <2>1. tasks \in Seq(Task(1..n))  BY SeqDef DEF Typed
  <2>2. Len(tasks) \in Nat /\ 1..Len(tasks) = 1..n  BY <2>1, LenProperties DEF Typed
  <2> QED  BY <2>2, SameInterval
<1>2. [fn |-> "cancelAll", from |-> 0, upto |-> Len(tasks)] \in Call(1..n)
  BY <1>1 DEF Call, CancelAllCall
<1>3. stack' \in Seq(Call(1..n))  BY <1>2, TypedStack DEF RunCancel
<1>4. public' \in Kind \cup {"none"}  BY DEF RunCancel, SettlePublic, Kind, Typed
<1> QED  BY <1>3, <1>4 DEF RunCancel, Typed

LEMMA ObserveTaskTyped ==
  ASSUME NEW n \in 1..MaxTasks, Typed(n), NEW u \in Spawned, ObserveTask(u)
  PROVE  Typed(n)'
<1>1. u \in 1..n /\ tasks \in [1..n -> Task(1..n)] /\ tasks[u] \in Task(1..n)
  BY TypedStack DEF Typed
<1>2. tasks[u].terminal \in Kind \cup {"none"} /\ tasks[u].observed \in BOOLEAN
  BY <1>1 DEF Task, TaskRecord
<1>3. \A o \in Kind \cup {"waiting"}, b, l \in BOOLEAN :
        [tasks[u] EXCEPT !.claimed = TRUE, !.observer = o, !.observed = b, !.live = l] \in Task(1..n)
  <2>1. ASSUME NEW r \in Task(1..n), NEW o \in Kind \cup {"waiting"}
        PROVE  [r EXCEPT !.claimed = TRUE, !.observer = o] \in Task(1..n)
    BY ZenonT(60) DEF Task, TaskRecord
  <2>2. ASSUME NEW r \in Task(1..n), NEW b \in BOOLEAN, NEW l \in BOOLEAN
        PROVE  [r EXCEPT !.observed = b, !.live = l] \in Task(1..n)
    BY ZenonT(60) DEF Task, TaskRecord
  <2> QED  BY <1>1, <2>1, <2>2
<1>4. tasks' = [tasks EXCEPT ![u] = [tasks[u] EXCEPT !.claimed = TRUE,
                 !.observer = IF tasks[u].terminal = "none" THEN "waiting" ELSE tasks[u].terminal,
                 !.observed = @ \/ tasks[u].terminal # "none",
                 !.live = (tasks[u].terminal = "none")]]
  BY <1>1 DEF ObserveTask
<1>5. tasks' \in [1..n -> Task(1..n)]  BY <1>1, <1>2, <1>3, <1>4
<1> QED  BY <1>5 DEF ObserveTask, Typed

-----------------------------------------------------------------------------
LEMMA InitTyped == Init => 1 \in 1..MaxTasks /\ Typed(1)
<1> SUFFICES ASSUME Init PROVE 1 \in 1..MaxTasks /\ Typed(1)
  OBVIOUS
<1> DEFINE root == NewTask(TheRun, FALSE, {}, FALSE)
<1>1. 1 \in 1..MaxTasks  BY TaskAssumption
<1>2. root \in Task(1..1)  BY DEF NewTask, Task, TaskRecord
<1>3. tasks \in [1..1 -> Task(1..1)]
  <2>1. tasks = <<root>>  BY DEF Init
  <2> HIDE DEF root
  <2> QED  BY <1>2, <2>1
<1>4. ready \in Seq(1..1)  BY DEF Init, Root
<1>5. stack \in Seq(Call(1..1))  BY EmptySeq DEF Init
<1> QED  BY <1>1, <1>3, <1>4, <1>5 DEF Init, Typed

LEMMA NextTyped ==
  ASSUME NEW n \in 1..MaxTasks, Typed(n), [Next]_vars
  PROVE  \E m \in 1..MaxTasks : Typed(m)'
<1>1. CASE Step  BY <1>1, StepTyped
<1>2. CASE Program
  <2>1. ASSUME NEW d \in BOOLEAN, Spawn(d) PROVE \E m \in 1..MaxTasks : Typed(m)'
    BY <2>1, SpawnTyped
  <2>2. ASSUME NEW u \in Spawned, CancelTask(u) \/ TakeValue(u) PROVE Typed(n)'
    BY <2>2, CancelTaskTyped, TakeValueTyped
  <2> QED  BY <1>2, <2>1, <2>2, VmReturnsTyped, VmTrapsTyped DEF Program
<1>3. CASE Suspend
  BY <1>3, TaskReturnsTyped, WaitTaskTyped, YieldOnceTyped, FailureMessageTyped, CallHandlerTyped
  DEF Suspend
<1>4. CASE Runtime
  BY <1>4, ApplyContinuationTyped, CompleteEntryTyped, CompleteCancelsChildTyped,
     CompleteDecidesTyped, OwnerCompletesTyped, SettleResumesWaiterTyped, SettleNotifiesTyped,
     SinkReturnsTyped, SettleFinishesTyped, CancelCancelsChildTyped, CancelTerminatesTyped,
     CancelResumesWaiterTyped, CancelNotifiesTyped, CancelFinishesTyped, CancelAllTyped
  DEF Runtime
<1>5. CASE Host
  BY <1>5, HandlerReturnsTyped, RunCancelTyped, PromiseSettlesTyped, ObserveTaskTyped DEF Host
<1>6. CASE UNCHANGED vars  BY <1>6 DEF vars, Typed
<1> QED  BY <1>1, <1>2, <1>3, <1>4, <1>5, <1>6 DEF Next

(* However many tasks a run spawns, every id held by a task, the queue or a *)
(* call in progress is the id of a task of the run, and the records keep    *)
(* their shape (TaskRecord in host.ts).                                     *)
THEOREM TypeCorrect == Spec => []TypeOK
<1>1. Init => TypeOK  BY InitTyped DEF TypeOK
<1>2. TypeOK /\ [Next]_vars => TypeOK'  BY NextTyped DEF TypeOK
<1> QED  BY <1>1, <1>2, PTL DEF Spec

-----------------------------------------------------------------------------
(* One observer: nobody waits for an unclaimed task, and the one claim is   *)
(* a task's or the host's.                                                  *)
Claim(task) ==
  /\ ~task.claimed => task.waiters = {} /\ task.observer = "none"
  /\ task.waiters = {} \/ \E w : task.waiters = {w}
  /\ task.waiters # {} => task.observer = "none"
Claims == \A t \in Spawned : Claim(tasks[t])

SameClaim(task, new) ==
  new.claimed = task.claimed /\ new.waiters = task.waiters /\ new.observer = task.observer

LEMMA OneTaskChanges ==
  ASSUME NEW n \in 1..MaxTasks, Typed(n), Claims, NEW t \in 1..n, NEW new,
         Claim(new), tasks' = [tasks EXCEPT ![t] = new]
  PROVE  Claims'
<1>1. DOMAIN tasks = 1..n /\ DOMAIN tasks' = 1..n  BY DEF Typed
<1>2. \A u \in 1..n : tasks'[u] = IF u = t THEN new ELSE tasks[u]  BY <1>1
<1>3. \A u \in 1..n : Claim(tasks'[u])
  <2> SUFFICES ASSUME NEW u \in 1..n PROVE Claim(tasks'[u])
    OBVIOUS
  <2>1. CASE u = t  BY <2>1, <1>2
  <2>2. CASE u # t  BY <2>2, <1>1, <1>2, Zenon DEF Claims, Spawned
  <2> QED  BY <2>1, <2>2
<1> QED  BY <1>1, <1>3, Zenon DEF Claims, Spawned, Claim

LEMMA SameClaimKept ==
  ASSUME NEW n \in 1..MaxTasks, Typed(n), Claims, NEW t \in 1..n, NEW new,
         SameClaim(tasks[t], new), tasks' = [tasks EXCEPT ![t] = new]
  PROVE  Claims'
<1>1. Claim(tasks[t])  BY DEF Claims, Spawned, Typed
<1>2. Claim(new)  BY <1>1, Zenon DEF Claim, SameClaim
<1> QED  BY <1>2, OneTaskChanges

LEMMA TasksKept ==
  ASSUME Claims, UNCHANGED tasks
  PROVE  Claims'
BY DEF Claims, Spawned, Claim

(* The updates that leave the claim alone.                                  *)
LEMMA Untouched ==
  ASSUME NEW ids, NEW task \in Task(ids)
  PROVE  /\ \A x, b : SameClaim(task, [task EXCEPT !.raw = x, !.frame = b])
         /\ SameClaim(task, [task EXCEPT !.resume = FALSE, !.frame = FALSE])
         /\ SameClaim(task, [task EXCEPT !.resume = FALSE])
         /\ SameClaim(task, [task EXCEPT !.fresh = FALSE])
         /\ SameClaim(task, [task EXCEPT !.frame = FALSE])
         /\ SameClaim(task, [task EXCEPT !.promise = FALSE])
         /\ SameClaim(task, [task EXCEPT !.resume = TRUE, !.state = "ready"])
         /\ SameClaim(task, [task EXCEPT !.state = "waiting", !.promise = TRUE])
         /\ SameClaim(task, [task EXCEPT !.observed = TRUE, !.live = FALSE])
         /\ \A x : SameClaim(task, [task EXCEPT !.raw = x, !.state = "ready"])
         /\ \A k : SameClaim(task, [task EXCEPT !.state = "completing", !.completion = k])
         /\ \A k : SameClaim(task, [task EXCEPT !.state = "terminal", !.terminal = k,
                       !.observed = FALSE, !.reported = FALSE, !.completion = "none", !.resume = FALSE])
         /\ SameClaim(task, [task EXCEPT !.state = "terminal", !.terminal = "cancelled",
                       !.observed = FALSE, !.reported = FALSE, !.raw = None, !.resume = FALSE,
                       !.completion = "none"])
BY DEF Task, TaskRecord, SameClaim

LEMMA StepClaims ==
  ASSUME NEW n \in 1..MaxTasks, Typed(n), Claims, Step
  PROVE  Claims'
<1>1. CASE UNCHANGED tasks  BY <1>1, TasksKept
<1>2. CASE StepPolls /\ tasks' # tasks
  <2> DEFINE t == Head(ready)
  <2>1. t \in 1..n  BY <1>2, Stacks DEF StepPolls, Typed
  <2>2. tasks[t] \in Task(1..n)  BY <2>1 DEF Typed
  <2>3. \/ tasks' = [tasks EXCEPT ![t] = [tasks[t] EXCEPT !.raw = None, !.frame = (tasks[t].raw.op # "value")]]
        \/ tasks' = [tasks EXCEPT ![t] = [tasks[t] EXCEPT !.resume = FALSE, !.frame = FALSE]]
        \/ tasks' = [tasks EXCEPT ![t] = [tasks[t] EXCEPT !.resume = FALSE]]
        \/ tasks' = [tasks EXCEPT ![t] = [tasks[t] EXCEPT !.fresh = FALSE]]
    BY <1>2 DEF StepPolls, TakeIn
  <2> HIDE DEF t
  <2>4. \E new : SameClaim(tasks[t], new) /\ tasks' = [tasks EXCEPT ![t] = new]
    BY <2>2, <2>3, Untouched, Zenon
  <2> QED  BY <2>1, <2>4, SameClaimKept
<1>3. StepPolls \/ UNCHANGED tasks  BY DEF Step, StepSettles, StepParks
<1> QED  BY <1>1, <1>2, <1>3

LEMMA ProgramClaims ==
  ASSUME NEW n \in 1..MaxTasks, Typed(n), Claims, Program
  PROVE  Claims'
<1>1. CASE UNCHANGED tasks  BY <1>1, TasksKept
<1>2. ASSUME NEW d \in BOOLEAN, Spawn(d) PROVE Claims'
  <2> DEFINE t == Top.task
             child == NewTask(IF d THEN TheRun ELSE t, d, tasks[t].knows, TRUE)
             spawner == [tasks[t] EXCEPT !.knows = @ \cup {n + 1}]
             old == [tasks EXCEPT ![t] = spawner]
  <2>1. t \in 1..n  BY <1>2, TypedStack, CallKinds DEF Spawn, OnTop, VmCall
  <2>2. tasks \in [1..n -> Task(1..n)] /\ tasks[t] \in Task(1..n)  BY <2>1 DEF Typed
  <2>3. Len(tasks) = n
    <3>1. tasks \in Seq(Task(1..n))  BY <2>2, SeqDef
    <3>2. Len(tasks) \in Nat /\ 1..Len(tasks) = 1..n  BY <3>1, <2>2, LenProperties
    <3> QED  BY <3>2, SameInterval
  <2>4. tasks' = Append(old, child)  BY <1>2, <2>3 DEF Spawn
  <2>5. old \in Seq(Task(1..n) \cup {spawner}) /\ Len(old) = n
    <3>1. n \in Nat /\ old \in [1..n -> Task(1..n) \cup {spawner}]
      <4> HIDE DEF spawner
      <4> QED  BY <2>1, <2>2
    <3> HIDE DEF old, spawner
    <3>2. old \in Seq(Task(1..n) \cup {spawner})  BY <3>1, SeqDef
    <3>3. Len(old) \in Nat /\ 1..Len(old) = 1..n  BY <3>1, <3>2, LenProperties
    <3> QED  BY <3>2, <3>3, SameInterval
  <2>6. SameClaim(tasks[t], spawner)  BY <2>2 DEF Task, TaskRecord, SameClaim
  <2>7. Claim(tasks[t])  BY <2>1, <2>2 DEF Claims, Spawned
  <2>8. Claim(spawner)  BY <2>6, <2>7, Zenon DEF Claim, SameClaim
  <2>9. Claim(child)  BY DEF Claim, NewTask
  <2>10. \A u \in 1..n : Claim(old[u])
    <3> SUFFICES ASSUME NEW u \in 1..n PROVE Claim(old[u])
      OBVIOUS
    <3>1. CASE u = t
      <4>1. old[u] = spawner  BY <3>1, <2>1, <2>2
      <4> QED  BY <4>1, <2>8
    <3>2. CASE u # t
      <4>1. old[u] = tasks[u]  BY <3>2, <2>1, <2>2
      <4> QED  BY <4>1, <2>2, Zenon DEF Claims, Spawned
    <3> QED  BY <3>1, <3>2
  <2> HIDE DEF old, child
  <2>11. /\ DOMAIN Append(old, child) = 1..n + 1
         /\ \A u \in 1..n : Append(old, child)[u] = old[u]
         /\ Append(old, child)[n + 1] = child
    <3> DEFINE S == Task(1..n) \cup {spawner} \cup {child}
    <3>1. old \in Seq(S) /\ child \in S  BY <2>5, SeqMonotonic
    <3> HIDE DEF S
    <3> QED  BY <3>1, <2>5, AppendProperties, LenProperties
  <2>12. \A u \in 1..n + 1 : Claim(tasks'[u])
    <3> SUFFICES ASSUME NEW u \in 1..n + 1 PROVE Claim(tasks'[u])
      OBVIOUS
    <3>1. u \in 1..n \/ u = n + 1  OBVIOUS
    <3> QED  BY <3>1, <2>4, <2>9, <2>10, <2>11
  <2> QED  BY <2>4, <2>11, <2>12, Zenon DEF Claims, Spawned, Claim
<1>3. ASSUME NEW u \in Spawned, TakeValue(u) PROVE Claims'
  <2>1. u \in 1..n /\ tasks[u] \in Task(1..n)  BY TypedStack DEF Typed
  <2>2. tasks' = [tasks EXCEPT ![u] = [tasks[u] EXCEPT !.observed = TRUE, !.live = FALSE]]
    BY <1>3 DEF TakeValue
  <2>3. SameClaim(tasks[u], [tasks[u] EXCEPT !.observed = TRUE, !.live = FALSE])
    BY <2>1, Untouched
  <2> QED  BY <2>1, <2>2, <2>3, SameClaimKept
<1>4. CASE VmReturns /\ tasks' # tasks
  <2> DEFINE t == Top.task
  <2>1. t \in 1..n  BY <1>4, TypedStack, CallKinds DEF VmReturns, OnTop, VmCall
  <2>2. tasks[t] \in Task(1..n)  BY <2>1 DEF Typed
  <2>3. PICK outcome \in Outcomes(t) : tasks' = TakeIn(t, outcome) \/ Readied(t, outcome)
    BY <1>4, Zenon DEF VmReturns
  <2>4. \/ tasks' = [tasks EXCEPT ![t] = [tasks[t] EXCEPT !.raw = None, !.frame = (outcome.op # "value")]]
        \/ tasks' = [tasks EXCEPT ![t] = [tasks[t] EXCEPT !.raw = outcome, !.state = "ready"]]
    BY <2>3 DEF TakeIn, Readied
  <2> HIDE DEF t
  <2>5. \E new : SameClaim(tasks[t], new) /\ tasks' = [tasks EXCEPT ![t] = new]
    BY <2>2, <2>4, Untouched, Zenon
  <2> QED  BY <2>1, <2>5, SameClaimKept
<1> QED  BY <1>1, <1>2, <1>3, <1>4, Zenon DEF Program, CancelTask, VmTraps

LEMMA SuspendClaims ==
  ASSUME NEW n \in 1..MaxTasks, Typed(n), Claims, Suspend
  PROVE  Claims'
<1>1. CASE UNCHANGED tasks  BY <1>1, TasksKept
<1>2. CASE WaitTask /\ tasks' # tasks
  <2> DEFINE t == Top.task
             u == Top.outcome.task
             claim == [tasks EXCEPT ![u].claimed = TRUE]
             claimed == [tasks[u] EXCEPT !.claimed = TRUE]
             awaited == [claimed EXCEPT !.waiters = @ \cup {t}]
  <2>1. OnEffect("wait")  BY <1>2 DEF WaitTask
  <2>2. t \in 1..n /\ u \in 1..n /\ tasks \in [1..n -> Task(1..n)] /\ tasks[u] \in Task(1..n)
    BY <2>1, OnEffectTyped
  <2>3. ~tasks[u].claimed  BY <1>2 DEF WaitTask, Claimable
  <2>4. tasks[u].waiters = {} /\ tasks[u].observer = "none"
    BY <2>2, <2>3 DEF Claims, Claim, Spawned
  <2>5. CASE tasks' = [claim EXCEPT ![u].observed = TRUE,
                                    ![u].live = (tasks[u].terminal # "cancelled")]
    <3> DEFINE new == [claimed EXCEPT !.observed = TRUE, !.live = (tasks[u].terminal # "cancelled")]
    <3>1. tasks' = [tasks EXCEPT ![u] = new]  BY <2>5, <2>2
    <3>2. Claim(new)  BY <2>2, <2>4 DEF Claim, Task, TaskRecord
    <3> QED  BY <3>1, <3>2, <2>2, OneTaskChanges
  <2>6. CASE tasks' = [claim EXCEPT ![u].waiters = @ \cup {t}, ![t].state = "waiting"]
    <3> DEFINE middle == [tasks EXCEPT ![u] = awaited]
    <3>1. Claim(awaited) /\ awaited \in Task(1..n)
      <4>1. claimed \in Task(1..n)  BY <2>2, Updates
      <4>2. awaited \in Task(1..n)  BY <2>2, <4>1, Updates
      <4>3. awaited.waiters = {t} /\ awaited.observer = "none" /\ awaited.claimed
        BY <2>2, <2>4 DEF Task, TaskRecord
      <4> HIDE DEF awaited
      <4> QED  BY <4>2, <4>3 DEF Claim
    <3>2. tasks' = [middle EXCEPT ![t].state = "waiting"]  BY <2>6, <2>2
    <3> HIDE DEF awaited
    <3>3. /\ middle \in [1..n -> Task(1..n)]
          /\ \A v \in 1..n : middle[v] = IF v = u THEN awaited ELSE tasks[v]
      BY <2>2, <3>1
    <3> HIDE DEF middle
    <3>4. \A v \in 1..n : Claim(middle[v])
      <4> SUFFICES ASSUME NEW v \in 1..n PROVE Claim(middle[v])
        OBVIOUS
      <4>1. CASE v = u  BY <4>1, <3>1, <3>3
      <4>2. CASE v # u  BY <4>2, <3>3, <2>2, Zenon DEF Claims, Spawned
      <4> QED  BY <4>1, <4>2
    <3>5. \A v \in 1..n : SameClaim(middle[v], tasks'[v])
      <4> SUFFICES ASSUME NEW v \in 1..n PROVE SameClaim(middle[v], tasks'[v])
        OBVIOUS
      <4>1. middle[v] \in Task(1..n)  BY <3>3
      <4>2. SameClaim(middle[v], [middle[v] EXCEPT !.state = "waiting"])
        BY <4>1 DEF SameClaim, Task, TaskRecord
      <4>3. CASE v = t
        <5>1. tasks'[v] = [middle[v] EXCEPT !.state = "waiting"]  BY <4>3, <3>2, <3>3
        <5> QED  BY <5>1, <4>2
      <4>4. CASE v # t
        <5>1. tasks'[v] = middle[v]  BY <4>4, <3>2, <3>3
        <5> QED  BY <5>1 DEF SameClaim
      <4> QED  BY <4>3, <4>4
    <3>6. \A v \in 1..n : Claim(tasks'[v])
      <4> SUFFICES ASSUME NEW v \in 1..n PROVE Claim(tasks'[v])
        OBVIOUS
      <4> QED  BY <3>4, <3>5, Zenon DEF Claim, SameClaim
    <3>7. DOMAIN tasks' = 1..n  BY <3>2, <3>3
    <3> QED  BY <3>6, <3>7, Zenon DEF Claims, Spawned, Claim
  <2> QED  BY <1>2, <2>5, <2>6 DEF WaitTask
<1>3. CASE YieldOnce
  <2> DEFINE t == Top.task
  <2>1. t \in 1..n /\ tasks[t] \in Task(1..n)  BY <1>3, OnEffectTyped DEF YieldOnce
  <2>2. tasks' = [tasks EXCEPT ![t] = [tasks[t] EXCEPT !.resume = TRUE, !.state = "ready"]]
    BY <1>3 DEF YieldOnce
  <2>3. SameClaim(tasks[t], [tasks[t] EXCEPT !.resume = TRUE, !.state = "ready"])
    BY <2>1, Untouched
  <2> QED  BY <2>1, <2>2, <2>3, SameClaimKept
<1>4. CASE FailureMessage /\ tasks' # tasks
  <2> DEFINE u == Top.outcome.task
  <2>1. u \in 1..n /\ tasks[u] \in Task(1..n)  BY <1>4, OnEffectTyped DEF FailureMessage
  <2>2. tasks' = [tasks EXCEPT ![u] = [tasks[u] EXCEPT !.observed = TRUE, !.live = FALSE]]
    BY <1>4 DEF FailureMessage
  <2>3. SameClaim(tasks[u], [tasks[u] EXCEPT !.observed = TRUE, !.live = FALSE])
    BY <2>1, Untouched
  <2> QED  BY <2>1, <2>2, <2>3, SameClaimKept
<1> QED  BY <1>1, <1>2, <1>3, <1>4, Zenon DEF Suspend, TaskReturns, CallHandler

LEMMA TerminateClaims ==
  ASSUME NEW n \in 1..MaxTasks, Typed(n), Claims,
         NEW t \in 1..n, NEW kind \in Completion, Terminate(t, kind)
  PROVE  Claims'
<1>1. tasks[t] \in Task(1..n)  BY DEF Typed
<1>2. PICK k : tasks' = [tasks EXCEPT ![t].state = "terminal", ![t].terminal = k,
                     ![t].observed = FALSE, ![t].reported = FALSE,
                     ![t].completion = "none", ![t].resume = FALSE]
  BY Zenon DEF Terminate
<1> DEFINE new == [tasks[t] EXCEPT !.state = "terminal", !.terminal = k,
                     !.observed = FALSE, !.reported = FALSE, !.completion = "none", !.resume = FALSE]
<1>3. tasks' = [tasks EXCEPT ![t] = new]  BY <1>2
<1>4. SameClaim(tasks[t], new)  BY <1>1, Untouched
<1> QED  BY <1>3, <1>4, SameClaimKept

LEMMA NotifiedClaim ==
  ASSUME NEW ids, NEW task \in Task(ids), Claim(task)
  PROVE  Claim(Notified(task)) /\ Claim(Reported(task))
<1>1. SameClaim(task, Reported(task))
  BY DEF SameClaim, Reported, Task, TaskRecord
<1>2. \/ SameClaim(task, Notified(task))
      \/ /\ task.observer = "waiting"
         /\ Notified(task).claimed = task.claimed /\ Notified(task).waiters = task.waiters
  BY DEF SameClaim, Notified, Task, TaskRecord
<1>3. Claim(Notified(task))
  <2>1. CASE SameClaim(task, Notified(task))  BY <2>1, Zenon DEF SameClaim, Claim
  <2>2. CASE /\ task.observer = "waiting"
             /\ Notified(task).claimed = task.claimed /\ Notified(task).waiters = task.waiters
    BY <2>2 DEF Claim
  <2> QED  BY <1>2, <2>1, <2>2
<1>4. Claim(Reported(task))  BY <1>1, Zenon DEF SameClaim, Claim
<1> QED  BY <1>3, <1>4

(* Taking a waiter off the list.                                            *)
LEMMA ResumedClaim ==
  ASSUME NEW n \in 1..MaxTasks, Typed(n), Claims, NEW t \in 1..n, NEW w \in 1..n,
         NEW told, SameClaim(tasks[t], told), told \in Task(1..n),
         tasks' = [[tasks EXCEPT ![t] = [told EXCEPT !.waiters = @ \ {w}]] EXCEPT ![w].frame = FALSE]
  PROVE  Claims'
<1> DEFINE new == [told EXCEPT !.waiters = @ \ {w}]
           middle == [tasks EXCEPT ![t] = new]
<1>1. tasks \in [1..n -> Task(1..n)] /\ Claim(tasks[t])  BY DEF Claims, Spawned, Typed
<1>2. new \in Task(1..n)  BY Updates
<1>3. Claim(new)
  <2>1. new.claimed = told.claimed /\ new.waiters = told.waiters \ {w} /\ new.observer = told.observer
    BY DEF Task, TaskRecord
  <2>2. Claim(told)  BY <1>1, Zenon DEF Claim, SameClaim
  <2> HIDE DEF new
  <2> QED  BY <2>1, <2>2 DEF Claim
<1>4. tasks' = [middle EXCEPT ![w].frame = FALSE]  OBVIOUS
<1> HIDE DEF new
<1>5. /\ middle \in [1..n -> Task(1..n)]
      /\ \A v \in 1..n : middle[v] = IF v = t THEN new ELSE tasks[v]
  BY <1>1, <1>2
<1> HIDE DEF middle
<1>6. \A v \in 1..n : Claim(middle[v])
  <2> SUFFICES ASSUME NEW v \in 1..n PROVE Claim(middle[v])
    OBVIOUS
  <2>1. CASE v = t  BY <2>1, <1>3, <1>5
  <2>2. CASE v # t  BY <2>2, <1>1, <1>5, Zenon DEF Claims, Spawned
  <2> QED  BY <2>1, <2>2
<1>7. \A v \in 1..n : SameClaim(middle[v], tasks'[v])
  <2> SUFFICES ASSUME NEW v \in 1..n PROVE SameClaim(middle[v], tasks'[v])
    OBVIOUS
  <2>1. SameClaim(middle[v], [middle[v] EXCEPT !.frame = FALSE])  BY <1>5, Untouched
  <2>2. CASE v = w
    <3>1. tasks'[v] = [middle[v] EXCEPT !.frame = FALSE]  BY <2>2, <1>4, <1>5
    <3> QED  BY <3>1, <2>1
  <2>3. CASE v # w
    <3>1. tasks'[v] = middle[v]  BY <2>3, <1>4, <1>5
    <3> QED  BY <3>1 DEF SameClaim
  <2> QED  BY <2>2, <2>3
<1>8. \A v \in 1..n : Claim(tasks'[v])
  <2> SUFFICES ASSUME NEW v \in 1..n PROVE Claim(tasks'[v])
    OBVIOUS
  <2> QED  BY <1>6, <1>7, Zenon DEF Claim, SameClaim
<1>9. DOMAIN tasks' = 1..n  BY <1>4, <1>5
<1> QED  BY <1>8, <1>9, Zenon DEF Claims, Spawned, Claim

LEMMA RuntimeClaims ==
  ASSUME NEW n \in 1..MaxTasks, Typed(n), Claims, Runtime
  PROVE  Claims'
<1> DEFINE t == Top.task
<1>1. CASE UNCHANGED tasks  BY <1>1, TasksKept
<1>2. CASE ApplyContinuation \/ CompleteEntry
  <2>1. t \in 1..n /\ tasks[t] \in Task(1..n)
    BY <1>2, OnCallTyped DEF ApplyContinuation, CompleteEntry
  <2>2. tasks' = [tasks EXCEPT ![t] = [tasks[t] EXCEPT !.frame = FALSE]]
    BY <1>2 DEF ApplyContinuation, CompleteEntry
  <2>3. SameClaim(tasks[t], [tasks[t] EXCEPT !.frame = FALSE])  BY <2>1, Untouched
  <2> QED  BY <2>1, <2>2, <2>3, SameClaimKept
<1>3. CASE CompleteDecides
  <2>1. t \in 1..n /\ tasks[t] \in Task(1..n) /\ Top \in CompleteCall(1..n)
    BY <1>3, OnCallTyped DEF CompleteDecides
  <2>2. CASE Terminate(t, Top.kind)
    <3>1. Top.kind \in Completion  BY <2>1 DEF CompleteCall
    <3> QED  BY <2>1, <2>2, <3>1, TerminateClaims
  <2>3. CASE ~Terminate(t, Top.kind)
    <3>1. tasks' = [tasks EXCEPT ![t] = [tasks[t] EXCEPT !.state = "completing", !.completion = Top.kind]]
      BY <1>3, <2>3 DEF CompleteDecides
    <3>2. SameClaim(tasks[t], [tasks[t] EXCEPT !.state = "completing", !.completion = Top.kind])
      BY <2>1, Untouched
    <3> QED  BY <2>1, <3>1, <3>2, SameClaimKept
  <2> QED  BY <2>2, <2>3
<1>4. CASE OwnerCompletes /\ tasks' # tasks
  <2>1. t \in 1..n /\ tasks[t] \in Task(1..n)  BY <1>4, OnCallTyped DEF OwnerCompletes
  <2>2. tasks[t].completion # "none" /\ Terminate(t, tasks[t].completion)
    BY <1>4 DEF OwnerCompletes
  <2>3. tasks[t].completion \in Completion  BY <2>1, <2>2 DEF Task, TaskRecord
  <2> QED  BY <2>1, <2>2, <2>3, TerminateClaims
<1>5. CASE SettleResumesWaiter
  <2>1. t \in 1..n /\ tasks[t] \in Task(1..n) /\ tasks \in [1..n -> Task(1..n)]
    BY <1>5, OnCallTyped DEF SettleResumesWaiter
  <2>2. PICK w \in tasks[t].waiters :
           tasks' = [tasks EXCEPT ![t].observed = TRUE, ![t].waiters = @ \ {w}, ![w].frame = FALSE]
    BY <1>5, Zenon DEF SettleResumesWaiter
  <2> DEFINE told == [tasks[t] EXCEPT !.observed = TRUE]
  <2>3. w \in 1..n  BY <2>1, <2>2 DEF Task, TaskRecord
  <2>4. told \in Task(1..n)  BY <2>1, Updates
  <2>5. SameClaim(tasks[t], told)  BY <2>1 DEF SameClaim, Task, TaskRecord
  <2>6. tasks' = [[tasks EXCEPT ![t] = [told EXCEPT !.waiters = @ \ {w}]] EXCEPT ![w].frame = FALSE]
    <3>1. [tasks EXCEPT ![t].observed = TRUE, ![t].waiters = @ \ {w}]
            = [tasks EXCEPT ![t] = [told EXCEPT !.waiters = @ \ {w}]]
      BY <2>1
    <3> QED  BY <2>2, <3>1
  <2> QED  BY <2>1, <2>3, <2>4, <2>5, <2>6, ResumedClaim
<1>6. CASE CancelResumesWaiter
  <2>1. t \in 1..n /\ tasks[t] \in Task(1..n) /\ tasks \in [1..n -> Task(1..n)]
    BY <1>6, OnCallTyped DEF CancelResumesWaiter
  <2>2. PICK w \in tasks[t].waiters :
           tasks' = [tasks EXCEPT ![t].waiters = @ \ {w}, ![w].frame = FALSE]
    BY <1>6, Zenon DEF CancelResumesWaiter
  <2>3. w \in 1..n  BY <2>1, <2>2 DEF Task, TaskRecord
  <2>4. SameClaim(tasks[t], tasks[t])  BY DEF SameClaim
  <2>5. tasks' = [[tasks EXCEPT ![t] = [tasks[t] EXCEPT !.waiters = @ \ {w}]] EXCEPT ![w].frame = FALSE]
    BY <2>1, <2>2
  <2> QED  BY <2>1, <2>3, <2>4, <2>5, ResumedClaim
<1>7. CASE SettleNotifies \/ SinkReturns \/ CancelNotifies
  <2>1. t \in 1..n /\ tasks[t] \in Task(1..n) /\ tasks \in [1..n -> Task(1..n)]
    BY <1>7, OnCallTyped DEF SettleNotifies, SinkReturns, CancelNotifies
  <2>2. Claim(tasks[t])  BY <2>1 DEF Claims, Spawned, Typed
  <2>3. Claim(Notified(tasks[t])) /\ Claim(Reported(tasks[t]))
    BY <2>1, <2>2, NotifiedClaim
  <2>4. \/ tasks' = [tasks EXCEPT ![t] = Reported(tasks[t])]
        \/ tasks' = [tasks EXCEPT ![t] = Notified(tasks[t])]
    BY <1>7, <2>1 DEF SettleNotifies, SinkReturns, CancelNotifies, Reported
  <2> QED  BY <2>1, <2>3, <2>4, OneTaskChanges
<1>8. CASE CancelTerminates
  <2>1. t \in 1..n /\ tasks[t] \in Task(1..n)  BY <1>8, OnCallTyped DEF CancelTerminates
  <2> DEFINE new == [tasks[t] EXCEPT !.state = "terminal", !.terminal = "cancelled",
                       !.observed = FALSE, !.reported = FALSE, !.raw = None, !.resume = FALSE,
                       !.completion = "none"]
  <2>2. tasks' = [tasks EXCEPT ![t] = new]  BY <1>8 DEF CancelTerminates
  <2>3. SameClaim(tasks[t], new)  BY <2>1, Untouched
  <2> QED  BY <2>1, <2>2, <2>3, SameClaimKept
<1>9. CompleteCancelsChild \/ CancelCancelsChild \/ SettleFinishes \/ CancelFinishes \/ CancelAll
        => UNCHANGED tasks
  BY DEF CompleteCancelsChild, CancelCancelsChild, SettleFinishes, CancelFinishes, CancelAll
<1> QED
  BY <1>1, <1>2, <1>3, <1>4, <1>5, <1>6, <1>7, <1>8, <1>9, Zenon DEF Runtime

LEMMA HostClaims ==
  ASSUME NEW n \in 1..MaxTasks, Typed(n), Claims, Host
  PROVE  Claims'
<1>1. CASE UNCHANGED tasks  BY <1>1, TasksKept
<1>2. CASE HandlerReturns /\ tasks' # tasks
  <2> DEFINE t == Top.task
  <2>1. t \in 1..n /\ tasks[t] \in Task(1..n)  BY <1>2, OnCallTyped DEF HandlerReturns
  <2>2. tasks' = [tasks EXCEPT ![t] = [tasks[t] EXCEPT !.state = "waiting", !.promise = TRUE]]
    BY <1>2 DEF HandlerReturns
  <2>3. SameClaim(tasks[t], [tasks[t] EXCEPT !.state = "waiting", !.promise = TRUE])
    BY <2>1, Untouched
  <2> QED  BY <2>1, <2>2, <2>3, SameClaimKept
<1>3. ASSUME NEW t \in Spawned, PromiseSettles(t) PROVE Claims'
  <2>1. t \in 1..n /\ tasks[t] \in Task(1..n)  BY TypedStack DEF Typed
  <2>2. tasks' = [tasks EXCEPT ![t] = [tasks[t] EXCEPT !.promise = FALSE]]
    BY <1>3 DEF PromiseSettles
  <2>3. SameClaim(tasks[t], [tasks[t] EXCEPT !.promise = FALSE])  BY <2>1, Untouched
  <2> QED  BY <2>1, <2>2, <2>3, SameClaimKept
<1>4. ASSUME NEW u \in Spawned, ObserveTask(u) PROVE Claims'
  <2>1. /\ u \in 1..n /\ tasks[u] \in Task(1..n) /\ Claim(tasks[u]) /\ ~tasks[u].claimed
        /\ tasks \in [1..n -> Task(1..n)]
    BY <1>4, TypedStack DEF ObserveTask, Claimable, Claims, Typed
  <2>2. tasks[u].waiters = {}  BY <2>1 DEF Claim
  <2> DEFINE new == [tasks[u] EXCEPT !.claimed = TRUE,
                 !.observer = IF tasks[u].terminal = "none" THEN "waiting" ELSE tasks[u].terminal,
                 !.observed = @ \/ tasks[u].terminal # "none",
                 !.live = (tasks[u].terminal = "none")]
  <2>3. tasks' = [tasks EXCEPT ![u] = new]  BY <2>1, <1>4 DEF ObserveTask
  <2>4. new.claimed /\ new.waiters = {}  BY <2>1, <2>2 DEF Task, TaskRecord
  <2>5. Claim(new)
    <3> HIDE DEF new
    <3> QED  BY <2>4 DEF Claim
  <2> QED  BY <2>1, <2>3, <2>5, OneTaskChanges
<1> QED  BY <1>1, <1>2, <1>3, <1>4, Zenon DEF Host, RunCancel

LEMMA NextClaims ==
  ASSUME NEW n \in 1..MaxTasks, Typed(n), Claims, [Next]_vars
  PROVE  Claims'
<1>1. UNCHANGED vars => UNCHANGED tasks  BY DEF vars
<1> QED
  BY <1>1, StepClaims, ProgramClaims, SuspendClaims, RuntimeClaims, HostClaims, TasksKept DEF Next

LEMMA InitClaims == Init => Claims
<1> SUFFICES ASSUME Init PROVE Claims
  OBVIOUS
<1> DEFINE root == NewTask(TheRun, FALSE, {}, FALSE)
<1>1. Claim(root)  BY DEF Claim, NewTask
<1>2. tasks = <<root>>  BY DEF Init
<1> HIDE DEF root
<1>3. DOMAIN tasks = {1} /\ tasks[1] = root  BY <1>2
<1> QED  BY <1>1, <1>3, Zenon DEF Claims, Spawned

(* The end of a task is awaited by one party at most, whatever the tasks    *)
(* and the host claim and in whatever order (capabilityClaimed).            *)
THEOREM OneObserverAlways == Spec => []OneObserver
<1>1. Init => TypeOK /\ Claims  BY InitTyped, InitClaims DEF TypeOK
<1>2. TypeOK /\ Claims /\ [Next]_vars => TypeOK' /\ Claims'
  BY NextTyped, NextClaims DEF TypeOK
<1>3. Claims => OneObserver
  <2> SUFFICES ASSUME Claims, NEW t \in Spawned
               PROVE  /\ Cardinality(tasks[t].waiters) <= 1
                      /\ tasks[t].waiters # {} => tasks[t].observer = "none"
    BY DEF OneObserver
  <2>1. Claim(tasks[t])  BY DEF Claims
  <2>2. Cardinality(tasks[t].waiters) <= 1
    <3>1. CASE tasks[t].waiters = {}  BY <3>1, FS_EmptySet
    <3>2. CASE \E w : tasks[t].waiters = {w}
      <4>1. PICK w : tasks[t].waiters = {w}  BY <3>2
      <4>2. Cardinality({w}) = 1  BY FS_Singleton
      <4> QED  BY <4>1, <4>2
    <3> QED  BY <2>1, <3>1, <3>2, Zenon DEF Claim
  <2> QED  BY <2>1, <2>2 DEF Claim
<1> QED  BY <1>1, <1>2, <1>3, PTL DEF Spec

-----------------------------------------------------------------------------
(* One thread of control.  The code of a task is in one place at most: in a *)
(* call in progress, in the queue, with a handler's promise, among the      *)
(* waiters of one task, or at its end, completing.                          *)
Code(call, t) == call.fn \in {"vm", "effect", "handler", "apply", "complete"} /\ call.task = t
Asking(call, t) == call.fn = "effect" /\ call.outcome.op # "value" /\ call.task = t

Has(s, t) == \E i \in DOMAIN s : Code(s[i], t)
Alone(s, t) == \A i, j \in DOMAIN s : Code(s[i], t) /\ Code(s[j], t) => i = j
Asks(s, t) == \E i \in DOMAIN s : Asking(s[i], t)

At(t, p) ==
  /\ Has(stack, t) => p = <<"stack", 0>>
  /\ Queued(t) => p = <<"queue", 0>>
  /\ tasks[t].promise => p = <<"promise", 0>>
  /\ \A u \in Spawned : t \in tasks[u].waiters => p = <<"task", u>>
  /\ tasks[t].state = "completing" => p = <<"end", 0>>

Threads ==
  /\ IsInjective(ready)
  /\ \A t \in Spawned : Alone(stack, t) /\ \E p : At(t, p)

(* A task that is suspended on a request has that request.                  *)
Requests ==
  /\ \A u \in Spawned : \A w \in tasks[u].waiters : tasks[w].frame
  /\ \A t \in Spawned : Asks(stack, t) => tasks[t].frame

(* A task whose code is nowhere.                                            *)
Gone(t) ==
  /\ ~Has(stack, t) /\ ~Queued(t) /\ ~tasks[t].promise /\ tasks[t].state # "completing"
  /\ \A u \in Spawned : t \notin tasks[u].waiters

(* What every step keeps: the code that is gone does not come back.         *)
KeepsThreads ==
  /\ Threads' /\ Requests'
  /\ \A t \in Spawned : Gone(t) => Gone(t)'

LEMMA PushCode ==
  ASSUME NEW S, NEW s \in Seq(S), NEW e, NEW t
  PROVE  /\ Has(<<e>> \o s, t) <=> Code(e, t) \/ Has(s, t)
         /\ Asks(<<e>> \o s, t) <=> Asking(e, t) \/ Asks(s, t)
         /\ Alone(s, t) /\ ~(Code(e, t) /\ Has(s, t)) => Alone(<<e>> \o s, t)
<1> DEFINE new == <<e>> \o s
<1>1. /\ Len(s) \in Nat /\ DOMAIN s = 1..Len(s) /\ DOMAIN new = 1..Len(s) + 1
      /\ new[1] = e /\ \A i \in 1..Len(s) : new[i + 1] = s[i]
  <2>1. Len(s) \in Nat /\ DOMAIN s = 1..Len(s)  OBVIOUS
  <2>2. Len(new) = Len(s) + 1 /\ DOMAIN new = 1..Len(new)  OBVIOUS
  <2>3. new[1] = e /\ \A i \in 1..Len(s) : new[i + 1] = s[i]  OBVIOUS
  <2> QED  BY <2>1, <2>2, <2>3
<1> HIDE DEF new
<1>2. \A j \in DOMAIN new : j = 1 \/ \E i \in DOMAIN s : j = i + 1
  <2> SUFFICES ASSUME NEW j \in 1..Len(s) + 1, j # 1 PROVE \E i \in 1..Len(s) : j = i + 1
    BY <1>1
  <2>1. j - 1 \in 1..Len(s) /\ j = (j - 1) + 1  BY <1>1
  <2> QED  BY <2>1
<1>3. 1 \in DOMAIN new /\ \A i \in DOMAIN s : i + 1 \in DOMAIN new  BY <1>1
<1>4. Has(new, t) <=> Code(e, t) \/ Has(s, t)  BY <1>1, <1>2, <1>3 DEF Has
<1>5. Asks(new, t) <=> Asking(e, t) \/ Asks(s, t)  BY <1>1, <1>2, <1>3 DEF Asks
<1>6. ASSUME Alone(s, t), ~(Code(e, t) /\ Has(s, t)) PROVE Alone(new, t)
  <2> SUFFICES ASSUME NEW i \in DOMAIN new, NEW j \in DOMAIN new, Code(new[i], t), Code(new[j], t)
               PROVE  i = j
    BY DEF Alone
  <2>1. CASE i = 1 /\ j = 1  BY <2>1
  <2>2. CASE i = 1 /\ j # 1
    <3>1. PICK k \in DOMAIN s : j = k + 1  BY <1>2, <2>2
    <3> QED  BY <1>1, <1>6, <2>2, <3>1 DEF Has
  <2>3. CASE i # 1 /\ j = 1
    <3>1. PICK k \in DOMAIN s : i = k + 1  BY <1>2, <2>3
    <3> QED  BY <1>1, <1>6, <2>3, <3>1 DEF Has
  <2>4. CASE i # 1 /\ j # 1
    <3>1. PICK k \in DOMAIN s, m \in DOMAIN s : i = k + 1 /\ j = m + 1  BY <1>2, <2>4
    <3>2. k = m  BY <1>1, <1>6, <3>1 DEF Alone
    <3> QED  BY <3>1, <3>2
  <2> QED  BY <2>1, <2>2, <2>3, <2>4
<1> QED  BY <1>4, <1>5, <1>6 DEF new

LEMMA TopCode ==
  ASSUME NEW S, NEW s \in Seq(S), s # <<>>, NEW t
  PROVE  /\ Has(s, t) <=> Code(Head(s), t) \/ Has(Tail(s), t)
         /\ Asks(s, t) <=> Asking(Head(s), t) \/ Asks(Tail(s), t)
         /\ Alone(s, t) => Alone(Tail(s), t) /\ ~(Code(Head(s), t) /\ Has(Tail(s), t))
         /\ Asks(s, t) => Has(s, t)
<1> DEFINE rest == Tail(s)
           n == Len(s)
<1>1. /\ n \in Nat /\ n >= 1 /\ DOMAIN s = 1..n /\ DOMAIN rest = 1..n - 1
      /\ Head(s) = s[1] /\ \A i \in 1..n - 1 : rest[i] = s[i + 1]
  <2>1. n \in Nat /\ n >= 1 /\ DOMAIN s = 1..n  BY EmptySeq
  <2>2. Len(rest) = n - 1 /\ DOMAIN rest = 1..Len(rest)  BY HeadTailProperties, LenProperties
  <2>3. \A i \in 1..n - 1 : rest[i] = s[i + 1]  BY <2>2
  <2> QED  BY <2>1, <2>2, <2>3
<1> HIDE DEF rest, n
<1>2. \A j \in DOMAIN s : j = 1 \/ \E i \in DOMAIN rest : j = i + 1
  <2> SUFFICES ASSUME NEW j \in 1..n, j # 1 PROVE \E i \in 1..n - 1 : j = i + 1
    BY <1>1
  <2>1. j - 1 \in 1..n - 1 /\ j = (j - 1) + 1  BY <1>1
  <2> QED  BY <2>1
<1>3. 1 \in DOMAIN s /\ \A i \in DOMAIN rest : i \in Nat /\ i # 0 /\ i + 1 \in DOMAIN s  BY <1>1
<1>4. Has(s, t) <=> Code(Head(s), t) \/ Has(rest, t)  BY <1>1, <1>2, <1>3 DEF Has
<1>5. Asks(s, t) <=> Asking(Head(s), t) \/ Asks(rest, t)  BY <1>1, <1>2, <1>3 DEF Asks
<1>6. ASSUME Alone(s, t) PROVE Alone(rest, t) /\ ~(Code(Head(s), t) /\ Has(rest, t))
  <2>1. ASSUME NEW i \in DOMAIN rest, NEW j \in DOMAIN rest, Code(rest[i], t), Code(rest[j], t)
        PROVE  i = j
    <3>1. i + 1 = j + 1  BY <1>1, <1>3, <1>6, <2>1 DEF Alone
    <3> QED  BY <1>1, <3>1
  <2>2. ASSUME Code(Head(s), t), NEW i \in DOMAIN rest, Code(rest[i], t) PROVE FALSE
    <3>1. i + 1 = 1  BY <1>1, <1>3, <1>6, <2>2 DEF Alone
    <3> QED  BY <1>3, <3>1
  <2> QED  BY <2>1, <2>2 DEF Alone, Has
<1>7. Asks(s, t) => Has(s, t)  BY DEF Asks, Has, Asking, Code
<1> QED  BY <1>4, <1>5, <1>6, <1>7 DEF rest

(* What a step makes of the calls, for every task but m.                    *)
Moves(m) ==
  \A t \in Spawned :
    /\ Alone(stack', t)
    /\ t # m => (Has(stack', t) => Has(stack, t)) /\ (Asks(stack', t) => Asks(stack, t))

LEMMA Replaced ==
  ASSUME NEW n \in 1..MaxTasks, Typed(n), Threads, NEW m, stack # <<>>, Code(Top, m),
         NEW e, e.task = m, Become(e)
  PROVE  Moves(m) /\ (Asks(stack', m) /\ m \in Spawned => Asking(e, m))
<1>1. stack \in Seq(Call(1..n)) /\ Tail(stack) \in Seq(Call(1..n)) /\ stack' = <<e>> \o Tail(stack)
  BY TypedStack DEF Typed, Become
<1>2. ASSUME NEW t \in Spawned
      PROVE  /\ Alone(stack', t)
             /\ t # m => (Has(stack', t) => Has(stack, t)) /\ (Asks(stack', t) => Asks(stack, t))
             /\ t = m => (Asks(stack', t) => Asking(e, t))
  <2> DEFINE rest == Tail(stack)
  <2>1. /\ Has(stack, t) <=> Code(Top, t) \/ Has(rest, t)
        /\ Asks(stack, t) <=> Asking(Top, t) \/ Asks(rest, t)
        /\ Alone(rest, t) /\ ~(Code(Top, t) /\ Has(rest, t))
    BY <1>1, TopCode DEF Threads, Top
  <2>2. Asks(rest, t) => Has(rest, t)  BY DEF Asks, Has, Asking, Code
  <2>3. /\ Has(stack', t) <=> Code(e, t) \/ Has(rest, t)
        /\ Asks(stack', t) <=> Asking(e, t) \/ Asks(rest, t)
        /\ Alone(rest, t) /\ ~(Code(e, t) /\ Has(rest, t)) => Alone(stack', t)
    BY <1>1, PushCode
  <2>4. (Code(e, t) \/ Asking(e, t)) => t = m  BY DEF Code, Asking
  <2>5. t = m => ~Has(rest, t)  BY <2>1
  <2> HIDE DEF rest
  <2> QED  BY <2>1, <2>2, <2>3, <2>4, <2>5
<1> QED  BY <1>2 DEF Moves

LEMMA Popped ==
  ASSUME NEW n \in 1..MaxTasks, Typed(n), Threads, stack # <<>>, Pop
  PROVE  \A t \in Spawned :
           /\ Alone(stack', t)
           /\ Has(stack', t) => Has(stack, t) /\ ~Code(Top, t)
           /\ Asks(stack', t) => Asks(stack, t)
<1>1. stack \in Seq(Call(1..n)) /\ stack' = Tail(stack)  BY DEF Typed, Pop
<1> SUFFICES ASSUME NEW t \in Spawned
             PROVE  /\ Alone(stack', t)
                    /\ Has(stack', t) => Has(stack, t) /\ ~Code(Top, t)
                    /\ Asks(stack', t) => Asks(stack, t)
  OBVIOUS
<1>2. /\ Has(stack, t) <=> Code(Top, t) \/ Has(Tail(stack), t)
      /\ Asks(stack, t) <=> Asking(Top, t) \/ Asks(Tail(stack), t)
      /\ Alone(Tail(stack), t) /\ ~(Code(Top, t) /\ Has(Tail(stack), t))
  BY <1>1, TopCode DEF Threads, Top
<1> QED  BY <1>1, <1>2

LEMMA Pushed ==
  ASSUME NEW n \in 1..MaxTasks, Typed(n), Threads, NEW m,
         NEW e, Code(e, m) => ~Has(stack, m), \A t : Code(e, t) \/ Asking(e, t) => t = m, Push(e)
  PROVE  Moves(m) /\ (Asks(stack', m) /\ m \in Spawned => Asking(e, m) \/ Asks(stack, m))
<1>1. stack \in Seq(Call(1..n)) /\ stack' = <<e>> \o stack  BY DEF Typed, Push
<1>2. ASSUME NEW t \in Spawned
      PROVE  /\ Alone(stack', t)
             /\ t # m => (Has(stack', t) => Has(stack, t)) /\ (Asks(stack', t) => Asks(stack, t))
             /\ Asks(stack', t) => Asking(e, t) \/ Asks(stack, t)
  <2>1. /\ Has(stack', t) <=> Code(e, t) \/ Has(stack, t)
        /\ Asks(stack', t) <=> Asking(e, t) \/ Asks(stack, t)
        /\ Alone(stack, t) /\ ~(Code(e, t) /\ Has(stack, t)) => Alone(stack', t)
    BY <1>1, PushCode
  <2> QED  BY <2>1 DEF Threads
<1> QED  BY <1>2 DEF Moves

(* A call of the runtime's own, and one that is no code in its place.       *)
LEMMA Called ==
  ASSUME NEW n \in 1..MaxTasks, Typed(n), Threads, stack # <<>>, NEW told, NEW a, NEW e,
         \A t : ~Code(a, t) /\ ~Asking(a, t) /\ ~Asking(e, t) /\ (Code(e, t) => Code(Top, t)),
         stack' = (IF told THEN <<a>> ELSE <<>>) \o <<e>> \o Tail(stack)
  PROVE  \A t \in Spawned :
           /\ Alone(stack', t)
           /\ Has(stack', t) => Has(stack, t)
           /\ Asks(stack', t) => Asks(stack, t)
<1> DEFINE rest == Tail(stack)
           under == <<e>> \o rest
<1>1. stack \in Seq(Call(1..n)) /\ rest \in Seq(Call(1..n))  BY TypedStack DEF Typed
<1> DEFINE S == Call(1..n) \cup {e}
<1>2. rest \in Seq(S)
  <2>1. Call(1..n) \subseteq S  OBVIOUS
  <2> HIDE DEF S, rest
  <2> QED  BY <1>1, <2>1, SeqMonotonic
<1>3. under \in Seq(S)
  <2>1. e \in S  OBVIOUS
  <2> HIDE DEF S, rest
  <2> QED  BY <1>2, <2>1, Stacks
<1>4. \/ stack' = under
      \/ stack' = <<a>> \o under
  <2> HIDE DEF rest, S
  <2>1. <<e>> \in Seq(S \cup {a}) /\ rest \in Seq(S \cup {a}) /\ <<a>> \in Seq(S \cup {a})
    <3>1. rest \in Seq(S \cup {a})
      <4>1. S \subseteq S \cup {a}  OBVIOUS
      <4> QED  BY <1>2, <4>1, SeqMonotonic
    <3>2. e \in S \cup {a}  BY DEF S
    <3> QED  BY <3>1, <3>2
  <2>2. <<>> \o <<e>> \o rest = under
    BY <2>1, ConcatEmptySeq
  <2>3. (<<a>> \o <<e>>) \o rest = <<a>> \o (<<e>> \o rest)
    BY <2>1, ConcatAssociative
  <2> QED  BY <2>2, <2>3 DEF rest
<1> SUFFICES ASSUME NEW t \in Spawned
             PROVE  /\ Alone(stack', t)
                    /\ Has(stack', t) => Has(stack, t)
                    /\ Asks(stack', t) => Asks(stack, t)
  OBVIOUS
<1>5. /\ Has(stack, t) <=> Code(Top, t) \/ Has(rest, t)
      /\ Asks(stack, t) <=> Asking(Top, t) \/ Asks(rest, t)
      /\ Alone(rest, t) /\ ~(Code(Top, t) /\ Has(rest, t))
  BY <1>1, TopCode DEF Threads, Top
<1>6. /\ Has(under, t) <=> Code(e, t) \/ Has(rest, t)
      /\ Asks(under, t) <=> Asking(e, t) \/ Asks(rest, t)
      /\ Alone(rest, t) /\ ~(Code(e, t) /\ Has(rest, t)) => Alone(under, t)
  BY <1>1, PushCode
<1>7. /\ Has(<<a>> \o under, t) <=> Code(a, t) \/ Has(under, t)
      /\ Asks(<<a>> \o under, t) <=> Asking(a, t) \/ Asks(under, t)
      /\ Alone(under, t) /\ ~(Code(a, t) /\ Has(under, t)) => Alone(<<a>> \o under, t)
  <2> HIDE DEF under
  <2> QED  BY <1>3, PushCode
<1> HIDE DEF under, rest
<1> QED  BY <1>4, <1>5, <1>6, <1>7

LEMMA Only ==
  ASSUME Threads, NEW t \in Spawned
  PROVE  /\ Has(stack, t) => /\ ~Queued(t) /\ ~tasks[t].promise /\ tasks[t].state # "completing"
                             /\ \A u \in Spawned : t \notin tasks[u].waiters
         /\ Queued(t) => /\ ~Has(stack, t) /\ ~tasks[t].promise /\ tasks[t].state # "completing"
                         /\ \A u \in Spawned : t \notin tasks[u].waiters
         /\ tasks[t].promise => /\ ~Has(stack, t) /\ ~Queued(t) /\ tasks[t].state # "completing"
                                /\ \A u \in Spawned : t \notin tasks[u].waiters
         /\ \A u \in Spawned : t \in tasks[u].waiters =>
              /\ ~Has(stack, t) /\ ~Queued(t) /\ ~tasks[t].promise /\ tasks[t].state # "completing"
              /\ \A v \in Spawned : t \in tasks[v].waiters => v = u
         /\ tasks[t].state = "completing" =>
              /\ ~Has(stack, t) /\ ~Queued(t) /\ ~tasks[t].promise
              /\ \A u \in Spawned : t \notin tasks[u].waiters
<1>1. PICK p : At(t, p)  BY DEF Threads
<1>2. /\ <<"stack", 0>> # <<"queue", 0>> /\ <<"stack", 0>> # <<"promise", 0>>
      /\ <<"stack", 0>> # <<"end", 0>> /\ <<"queue", 0>> # <<"promise", 0>>
      /\ <<"queue", 0>> # <<"end", 0>> /\ <<"promise", 0>> # <<"end", 0>>
      /\ \A u : /\ <<"task", u>> # <<"stack", 0>> /\ <<"task", u>> # <<"queue", 0>>
                /\ <<"task", u>> # <<"promise", 0>> /\ <<"task", u>> # <<"end", 0>>
      /\ \A u, v : <<"task", u>> = <<"task", v>> => u = v
  OBVIOUS
<1> QED  BY <1>1, <1>2, Zenon DEF At

(* The code of one task moves, and the other tasks stay where they are.     *)
Stays(t) ==
  /\ Has(stack', t) => Has(stack, t)
  /\ Asks(stack', t) => Asks(stack, t)
  /\ Queued(t)' => Queued(t)
  /\ tasks'[t].promise => tasks[t].promise
  /\ \A u \in Spawned : t \in tasks'[u].waiters => t \in tasks[u].waiters
  /\ tasks'[t].state = "completing" => tasks[t].state = "completing"
  /\ tasks[t].frame => tasks'[t].frame

LEMMA StaysPut ==
  ASSUME Threads, NEW t \in Spawned, Spawned' = Spawned, Stays(t)
  PROVE  \E p : At(t, p)'
<1>1. PICK p : At(t, p)  BY DEF Threads
<1>2. At(t, p)'  BY <1>1 DEF At, Stays
<1> QED  BY <1>2

LEMMA OneMoves ==
  ASSUME NEW n \in 1..MaxTasks, Typed(n), Typed(n)', Threads, Requests, IsInjective(ready'),
         NEW m, \A t \in Spawned : Alone(stack', t),
         \A t \in Spawned : t # m => Stays(t),
         m \in Spawned =>
           /\ ~Gone(m)
           /\ \E p : At(m, p)'
           /\ Asks(stack', m) => tasks'[m].frame
           /\ \A u \in Spawned : m \in tasks'[u].waiters => tasks'[m].frame
  PROVE  KeepsThreads
<1>0. Spawned' = Spawned /\ \A u \in Spawned : tasks'[u].waiters \subseteq Spawned
  <2>1. Spawned = 1..n /\ tasks' \in [1..n -> Task(1..n)]  BY TypedStack DEF Typed
  <2>2. ASSUME NEW u \in 1..n PROVE tasks'[u].waiters \subseteq 1..n
    <3>1. tasks'[u] \in Task(1..n)  BY <2>1
    <3> QED  BY <3>1 DEF Task, TaskRecord
  <2> QED  BY <2>1, <2>2 DEF Spawned
<1>1. \A t \in Spawned : \E p : At(t, p)'
  <2> SUFFICES ASSUME NEW t \in Spawned PROVE \E p : At(t, p)'
    OBVIOUS
  <2>1. CASE t = m  BY <2>1
  <2>2. CASE t # m  BY <1>0, <2>2, StaysPut
  <2> QED  BY <2>1, <2>2
<1>2. Threads'  BY <1>0, <1>1 DEF Threads
<1>3. ASSUME NEW t \in Spawned, Asks(stack', t) PROVE tasks'[t].frame
  BY <1>3 DEF Stays, Requests
<1>4. ASSUME NEW u \in Spawned', NEW w \in tasks'[u].waiters PROVE tasks'[w].frame
  <2>1. u \in Spawned /\ w \in Spawned  BY <1>0, <1>4
  <2>2. CASE w = m  BY <1>4, <2>1, <2>2
  <2>3. CASE w # m  BY <1>4, <2>1, <2>3 DEF Stays, Requests
  <2> QED  BY <2>2, <2>3
<1>5. ASSUME NEW t \in Spawned, Gone(t) PROVE Gone(t)'
  <2>1. Stays(t)  BY <1>5
  <2> QED  BY <1>0, <1>5, <2>1 DEF Gone, Stays
<1>6. Requests'  BY <1>0, <1>3, <1>4 DEF Requests
<1> QED  BY <1>2, <1>5, <1>6 DEF KeepsThreads

(* One record changes, and no task is added to its waiters.                 *)
LEMMA RecordSet ==
  ASSUME NEW n \in 1..MaxTasks, Typed(n), NEW m \in Spawned, NEW new,
         new.waiters \subseteq tasks[m].waiters, tasks' = [tasks EXCEPT ![m] = new]
  PROVE  /\ tasks'[m] = new
         /\ \A t \in Spawned : t # m => tasks'[t] = tasks[t]
         /\ \A t, u \in Spawned : t \in tasks'[u].waiters => t \in tasks[u].waiters
<1>1. tasks \in [1..n -> Task(1..n)] /\ Spawned = 1..n  BY TypedStack DEF Typed
<1>2. tasks'[m] = new /\ \A t \in Spawned : t # m => tasks'[t] = tasks[t]  BY <1>1
<1> QED  BY <1>2

(* A step that moves the code of no task.                                   *)
LEMMA NoneMoves ==
  ASSUME NEW n \in 1..MaxTasks, Typed(n), Typed(n)', Threads, Requests, ready' = ready,
         \A t \in Spawned : /\ Alone(stack', t)
                            /\ Has(stack', t) => Has(stack, t)
                            /\ Asks(stack', t) => Asks(stack, t),
         \/ tasks' = tasks
         \/ \E m \in Spawned : \E new :
              /\ new.waiters = tasks[m].waiters /\ new.promise = tasks[m].promise
              /\ new.frame = tasks[m].frame
              /\ new.state = "completing" => tasks[m].state = "completing"
              /\ tasks' = [tasks EXCEPT ![m] = new]
  PROVE  KeepsThreads
<1>1. \A t \in Spawned : Queued(t)' => Queued(t)  BY DEF Queued
<1>2. IsInjective(ready')  BY DEF Threads
<1>3. ASSUME NEW t \in Spawned PROVE Stays(t)
  <2>1. CASE tasks' = tasks  BY <1>1, <2>1 DEF Stays
  <2>2. CASE tasks' # tasks
    <3>1. PICK m \in Spawned : \E new :
              /\ new.waiters = tasks[m].waiters /\ new.promise = tasks[m].promise
              /\ new.frame = tasks[m].frame
              /\ new.state = "completing" => tasks[m].state = "completing"
              /\ tasks' = [tasks EXCEPT ![m] = new]
      BY <2>2
    <3>2. PICK new :
              /\ new.waiters = tasks[m].waiters /\ new.promise = tasks[m].promise
              /\ new.frame = tasks[m].frame
              /\ new.state = "completing" => tasks[m].state = "completing"
              /\ tasks' = [tasks EXCEPT ![m] = new]
      BY <3>1
    <3>3. /\ tasks'[m] = new
          /\ \A u \in Spawned : u # m => tasks'[u] = tasks[u]
          /\ \A v, u \in Spawned : v \in tasks'[u].waiters => v \in tasks[u].waiters
      BY <3>2, RecordSet
    <3> QED  BY <1>1, <3>2, <3>3 DEF Stays
  <2> QED  BY <2>1, <2>2
<1>4. PICK m : m \notin Spawned
  <2>1. 0 \notin Spawned  BY TypedStack
  <2> QED  BY <2>1
<1> QED  BY <1>2, <1>3, <1>4, OneMoves

(* The runtime's own calls are no code.                                     *)
LEMMA NoCode ==
  ASSUME NEW call, call.fn \in {"owner", "settle", "cancel", "cancelAll"}
  PROVE  \A t : ~Code(call, t) /\ ~Asking(call, t)
BY DEF Code, Asking

LEMMA VisitThreads ==
  ASSUME NEW n \in 1..MaxTasks, Typed(n), Threads, NEW c, VisitChild(c), stack # <<>>,
         Top \in CompleteCall(1..n) \cup CancelTaskCall(1..n)
  PROVE  \A t \in Spawned : /\ Alone(stack', t)
                            /\ Has(stack', t) => Has(stack, t)
                            /\ Asks(stack', t) => Asks(stack, t)
<1> DEFINE e == [Top EXCEPT !.from = c]
<1>1. e.fn = Top.fn /\ e.task = Top.task /\ e.fn # "effect"  BY DEF CompleteCall, CancelTaskCall
<1>2. \A t : ~Asking(e, t) /\ (Code(e, t) => Code(Top, t))
  <2> HIDE DEF e
  <2> QED  BY <1>1 DEF Code, Asking
<1>3. \A t : ~Code(CancelCall(c, FALSE), t) /\ ~Asking(CancelCall(c, FALSE), t)
  BY NoCode DEF CancelCall
<1>4. stack' = (IF Live(c) THEN <<CancelCall(c, FALSE)>> ELSE <<>>) \o <<e>> \o Tail(stack)
  BY DEF VisitChild
<1> HIDE DEF e
<1> QED  BY <1>2, <1>3, <1>4, Called

LEMMA TellOwnerThreads ==
  ASSUME NEW n \in 1..MaxTasks, Typed(n), Threads, NEW t, TellOwner(t), stack # <<>>,
         Top \in SettleCall(1..n) \cup CancelTaskCall(1..n)
  PROVE  \A u \in Spawned : /\ Alone(stack', u)
                            /\ Has(stack', u) => Has(stack, u)
                            /\ Asks(stack', u) => Asks(stack, u)
<1> DEFINE e == [Top EXCEPT !.at = "finish"]
           a == [fn |-> "owner", task |-> tasks[t].owner]
           told == tasks[t].owner # TheRun
<1>1. e.fn \in {"settle", "cancel"}  BY DEF SettleCall, CancelTaskCall
<1>2. \A u : ~Asking(e, u) /\ ~Code(e, u)
  <2> HIDE DEF e
  <2> QED  BY <1>1, NoCode
<1>3. \A u : ~Code(a, u) /\ ~Asking(a, u)
  <2>1. a.fn = "owner"  OBVIOUS
  <2> HIDE DEF a
  <2> QED  BY <2>1, NoCode
<1>4. stack' = (IF told THEN <<a>> ELSE <<>>) \o <<e>> \o Tail(stack)
  BY DEF TellOwner
<1> HIDE DEF a, e, told
<1> QED  BY <1>2, <1>3, <1>4, Called

LEMMA PushedOwn ==
  ASSUME NEW n \in 1..MaxTasks, Typed(n), Threads, NEW e,
         e.fn \in {"owner", "settle", "cancel", "cancelAll"}, Push(e)
  PROVE  \A t \in Spawned : /\ Alone(stack', t)
                            /\ Has(stack', t) => Has(stack, t)
                            /\ Asks(stack', t) => Asks(stack, t)
<1>1. \A t : ~Code(e, t) /\ ~Asking(e, t)  BY NoCode
<1>2. 0 \notin Spawned  BY TypedStack
<1>3. Moves(0)  BY <1>1, Pushed
<1> QED  BY <1>2, <1>3 DEF Moves

LEMMA BecomesOwn ==
  ASSUME NEW n \in 1..MaxTasks, Typed(n), Threads, NEW e, stack # <<>>,
         e.fn \in {"owner", "settle", "cancel", "cancelAll"}, Become(e)
  PROVE  \A t \in Spawned : /\ Alone(stack', t)
                            /\ Has(stack', t) => Has(stack, t) /\ ~Code(Top, t)
                            /\ Asks(stack', t) => Asks(stack, t)
<1>1. \A t : ~Code(e, t) /\ ~Asking(e, t)  BY NoCode
<1>2. stack \in Seq(Call(1..n)) /\ Tail(stack) \in Seq(Call(1..n)) /\ stack' = <<e>> \o Tail(stack)
  BY TypedStack DEF Typed, Become
<1> SUFFICES ASSUME NEW t \in Spawned
             PROVE  /\ Alone(stack', t)
                    /\ Has(stack', t) => Has(stack, t) /\ ~Code(Top, t)
                    /\ Asks(stack', t) => Asks(stack, t)
  OBVIOUS
<1> DEFINE rest == Tail(stack)
<1>3. /\ Has(stack, t) <=> Code(Top, t) \/ Has(rest, t)
      /\ Asks(stack, t) <=> Asking(Top, t) \/ Asks(rest, t)
      /\ Alone(rest, t) /\ ~(Code(Top, t) /\ Has(rest, t))
  BY <1>2, TopCode DEF Threads, Top
<1>4. /\ Has(<<e>> \o rest, t) <=> Code(e, t) \/ Has(rest, t)
      /\ Asks(<<e>> \o rest, t) <=> Asking(e, t) \/ Asks(rest, t)
      /\ Alone(rest, t) /\ ~(Code(e, t) /\ Has(rest, t)) => Alone(<<e>> \o rest, t)
  BY <1>2, PushCode
<1> QED  BY <1>1, <1>2, <1>3, <1>4

LEMMA CallsThreads ==
  ASSUME NEW n \in 1..MaxTasks, Typed(n), Threads, Requests,
         \/ StepSettles \/ StepParks \/ \E u \in Spawned : CancelTask(u)
         \/ CompleteCancelsChild \/ SettleFinishes \/ CancelCancelsChild \/ CancelFinishes
         \/ CancelAll \/ RunCancel
  PROVE  KeepsThreads
<1>1. tasks' = tasks /\ ready' = ready
  BY DEF StepSettles, StepParks, CancelTask, CompleteCancelsChild, SettleFinishes,
         CancelCancelsChild, CancelFinishes, CancelAll, RunCancel
<1>2. Typed(n)'
  BY StepTyped, CancelTaskTyped, CompleteCancelsChildTyped, SettleFinishesTyped,
     CancelCancelsChildTyped, CancelFinishesTyped, CancelAllTyped, RunCancelTyped DEF Step
<1>3. \A t \in Spawned : /\ Alone(stack', t)
                         /\ Has(stack', t) => Has(stack, t)
                         /\ Asks(stack', t) => Asks(stack, t)
  <2>1. CASE StepSettles \/ StepParks  BY <2>1 DEF StepSettles, StepParks, Threads
  <2>2. ASSUME NEW u \in Spawned, CancelTask(u)
        PROVE  \A t \in Spawned : /\ Alone(stack', t)
                                  /\ Has(stack', t) => Has(stack, t)
                                  /\ Asks(stack', t) => Asks(stack, t)
    <3>1. PICK e : Push(e) /\ e.fn = "cancel"
      BY <2>2 DEF CancelTask, CancelCall
    <3>2. e.fn \in {"owner", "settle", "cancel", "cancelAll"}  BY <3>1
    <3> QED  BY <3>1, <3>2, PushedOwn
  <2>3. CASE CompleteCancelsChild
    <3>1. PICK c \in Spawned : VisitChild(c)  BY <2>3 DEF CompleteCancelsChild
    <3>2. stack # <<>> /\ Top \in CompleteCall(1..n)
      BY <2>3, OnCallTyped DEF CompleteCancelsChild
    <3> QED  BY <3>1, <3>2, VisitThreads
  <2>4. CASE CancelCancelsChild
    <3>1. PICK c \in Spawned : VisitChild(c)  BY <2>4 DEF CancelCancelsChild
    <3>2. stack # <<>> /\ Top \in CancelTaskCall(1..n)
      BY <2>4, OnCallTyped DEF CancelCancelsChild
    <3> QED  BY <3>1, <3>2, VisitThreads
  <2>5. CASE SettleFinishes \/ CancelFinishes \/ (CancelAll /\ Pop)
    BY <2>5, Popped DEF SettleFinishes, CancelFinishes, CancelAll, OnTop
  <2>6. CASE CancelAll /\ ~Pop
    <3> DEFINE c == Top.from + 1
               e == [Top EXCEPT !.from = c]
    <3>1. stack # <<>> /\ Top \in CancelAllCall(1..n)
      BY <2>6, TypedStack, CallKinds DEF CancelAll, OnTop
    <3> DEFINE a == CancelCall(c, FALSE)
    <3>2. e.fn = "cancelAll" /\ a.fn = "cancel"
      BY <3>1 DEF CancelAllCall, CancelCall
    <3>3. stack' = (IF Live(c) THEN <<a>> ELSE <<>>) \o <<e>> \o Tail(stack)
      BY <2>6 DEF CancelAll
    <3> HIDE DEF c, e, a
    <3>4. \A t : ~Code(a, t) /\ ~Asking(a, t) /\ ~Asking(e, t) /\ ~Code(e, t)
      BY <3>2, NoCode
    <3> QED  BY <3>1, <3>3, <3>4, Called
  <2>7. CASE RunCancel
    <3> DEFINE e == [fn |-> "cancelAll", from |-> 0, upto |-> Len(tasks)]
    <3>1. Push(e) /\ e.fn = "cancelAll"  BY <2>7 DEF RunCancel
    <3> HIDE DEF e
    <3> QED  BY <3>1, PushedOwn
  <2> QED  BY <2>1, <2>2, <2>3, <2>4, <2>5, <2>6, <2>7
<1> QED  BY <1>1, <1>2, <1>3, NoneMoves

LEMMA NotifiedThread ==
  ASSUME NEW ids, NEW task \in Task(ids), NEW new \in {Notified(task), Reported(task)}
  PROVE  /\ new.waiters = task.waiters /\ new.promise = task.promise
         /\ new.frame = task.frame /\ new.state = task.state
         /\ new.terminal = task.terminal /\ new.owner = task.owner /\ new.detached = task.detached
<1>1. /\ Reported(task).waiters = task.waiters /\ Reported(task).promise = task.promise
      /\ Reported(task).frame = task.frame /\ Reported(task).state = task.state
      /\ Reported(task).terminal = task.terminal /\ Reported(task).owner = task.owner
      /\ Reported(task).detached = task.detached
  BY DEF Reported, Task, TaskRecord
<1>2. /\ Notified(task).waiters = task.waiters /\ Notified(task).promise = task.promise
      /\ Notified(task).frame = task.frame /\ Notified(task).state = task.state
      /\ Notified(task).terminal = task.terminal /\ Notified(task).owner = task.owner
      /\ Notified(task).detached = task.detached
  BY DEF Notified, Task, TaskRecord
<1> QED  BY <1>1, <1>2

LEMMA RecordThreads ==
  ASSUME NEW n \in 1..MaxTasks, Typed(n), Threads, Requests,
         \/ \E u \in Spawned : TakeValue(u) \/ ObserveTask(u)
         \/ SettleNotifies \/ SinkReturns \/ CancelTerminates \/ CancelNotifies
  PROVE  KeepsThreads
<1>1. ready' = ready
  BY DEF TakeValue, ObserveTask, SettleNotifies, SinkReturns, CancelTerminates, CancelNotifies
<1>2. Typed(n)'
  BY TakeValueTyped, ObserveTaskTyped, SettleNotifiesTyped, SinkReturnsTyped,
     CancelTerminatesTyped, CancelNotifiesTyped
<1>3. Spawned = 1..n /\ tasks \in [1..n -> Task(1..n)]  BY TypedStack DEF Typed
<1>4. CASE \E u \in Spawned : TakeValue(u) \/ ObserveTask(u)
  <2>1. PICK u \in Spawned : TakeValue(u) \/ ObserveTask(u)  BY <1>4
  <2>2. \A t \in Spawned : Alone(stack', t)
                           /\ (Has(stack', t) => Has(stack, t)) /\ (Asks(stack', t) => Asks(stack, t))
    BY <2>1 DEF TakeValue, ObserveTask, Threads
  <2>3. tasks[u] \in Task(1..n)  BY <1>3
  <2>4. PICK new :
          /\ new.waiters = tasks[u].waiters /\ new.promise = tasks[u].promise
          /\ new.frame = tasks[u].frame /\ new.state = tasks[u].state
          /\ tasks' = [tasks EXCEPT ![u] = new]
    <3>1. CASE TakeValue(u)
      <4> DEFINE r == [tasks[u] EXCEPT !.observed = TRUE, !.live = FALSE]
      <4>1. tasks' = [tasks EXCEPT ![u] = r]  BY <1>3, <3>1 DEF TakeValue
      <4>2. /\ r.waiters = tasks[u].waiters /\ r.promise = tasks[u].promise
            /\ r.frame = tasks[u].frame /\ r.state = tasks[u].state
        BY <2>3 DEF Task, TaskRecord
      <4> HIDE DEF r
      <4> QED  BY <4>1, <4>2
    <3>2. CASE ObserveTask(u)
      <4> DEFINE r == [tasks[u] EXCEPT !.claimed = TRUE,
                 !.observer = IF tasks[u].terminal = "none" THEN "waiting" ELSE tasks[u].terminal,
                 !.observed = @ \/ tasks[u].terminal # "none",
                 !.live = (tasks[u].terminal = "none")]
      <4>1. tasks' = [tasks EXCEPT ![u] = r]  BY <1>3, <3>2 DEF ObserveTask
      <4>2. /\ r.waiters = tasks[u].waiters /\ r.promise = tasks[u].promise
            /\ r.frame = tasks[u].frame /\ r.state = tasks[u].state
        BY <2>3 DEF Task, TaskRecord
      <4> HIDE DEF r
      <4> QED  BY <4>1, <4>2
    <3> QED  BY <2>1, <3>1, <3>2
  <2> QED  BY <1>1, <1>2, <2>2, <2>4, NoneMoves
<1>5. CASE SettleNotifies \/ SinkReturns \/ CancelNotifies
  <2>1. PICK t \in Spawned : t = Top.task
    BY <1>5, OnCallTyped DEF SettleNotifies, SinkReturns, CancelNotifies
  <2>2. /\ stack # <<>> /\ Top \in SettleCall(1..n) \cup CancelTaskCall(1..n)
        /\ \/ TellOwner(t)
           \/ Top \in SettleCall(1..n) /\ Become([Top EXCEPT !.at = "sink"])
    BY <1>5, <2>1, OnCallTyped DEF SettleNotifies, SinkReturns, CancelNotifies
  <2>3. \A u \in Spawned : Alone(stack', u)
                           /\ (Has(stack', u) => Has(stack, u)) /\ (Asks(stack', u) => Asks(stack, u))
    <3>1. CASE TellOwner(t)  BY <2>2, <3>1, TellOwnerThreads
    <3>2. CASE Top \in SettleCall(1..n) /\ Become([Top EXCEPT !.at = "sink"])
      <4>1. PICK e : Become(e) /\ e = [Top EXCEPT !.at = "sink"]  BY <3>2
      <4>2. e.fn \in {"owner", "settle", "cancel", "cancelAll"}  BY <3>2, <4>1 DEF SettleCall
      <4> QED  BY <2>2, <4>1, <4>2, BecomesOwn
    <3> QED  BY <2>2, <3>1, <3>2
  <2>4. PICK new \in {Notified(tasks[t]), Reported(tasks[t])} :
           tasks' = [tasks EXCEPT ![t] = new]
    BY <1>3, <1>5, <2>1 DEF SettleNotifies, SinkReturns, CancelNotifies, Reported
  <2>5. tasks[t] \in Task(1..n)  BY <1>3
  <2>6. /\ new.waiters = tasks[t].waiters /\ new.promise = tasks[t].promise
        /\ new.frame = tasks[t].frame /\ new.state = tasks[t].state
    BY <2>4, <2>5, NotifiedThread
  <2> QED  BY <1>1, <1>2, <2>3, <2>4, <2>6, NoneMoves
<1>6. CASE CancelTerminates
  <2>1. PICK t \in Spawned : t = Top.task  BY <1>6, OnCallTyped DEF CancelTerminates
  <2>2. stack # <<>> /\ Top \in CancelTaskCall(1..n)  BY <1>6, OnCallTyped DEF CancelTerminates
  <2>3. PICK e : Become(e) /\ e = [Top EXCEPT !.at = "waiters"]  BY <1>6 DEF CancelTerminates
  <2>4. e.fn \in {"owner", "settle", "cancel", "cancelAll"}  BY <2>2, <2>3 DEF CancelTaskCall
  <2>5. \A u \in Spawned : Alone(stack', u)
                           /\ (Has(stack', u) => Has(stack, u)) /\ (Asks(stack', u) => Asks(stack, u))
    BY <2>2, <2>3, <2>4, BecomesOwn
  <2> DEFINE r == [tasks[t] EXCEPT !.state = "terminal", !.terminal = "cancelled",
                       !.observed = FALSE, !.reported = FALSE, !.raw = None, !.resume = FALSE,
                       !.completion = "none"]
  <2>6. tasks' = [tasks EXCEPT ![t] = r]  BY <1>6, <2>1 DEF CancelTerminates
  <2>7. tasks[t] \in Task(1..n)  BY <1>3
  <2>8. /\ r.waiters = tasks[t].waiters /\ r.promise = tasks[t].promise
        /\ r.frame = tasks[t].frame /\ r.state = "terminal"
    BY <2>7 DEF Task, TaskRecord
  <2> HIDE DEF r
  <2>9. r.state # "completing"  BY <2>8
  <2> QED  BY <1>1, <1>2, <2>5, <2>6, <2>8, <2>9, NoneMoves
<1> QED  BY <1>4, <1>5, <1>6

(* The records, but for a request that t gives up, as far as places go.     *)
Beside(t) ==
  \A x \in Spawned :
    /\ tasks'[x].waiters \subseteq tasks[x].waiters
    /\ tasks'[x].promise => tasks[x].promise
    /\ tasks'[x].state = "completing" => tasks[x].state = "completing"
    /\ x # t => (tasks[x].frame => tasks'[x].frame)

LEMMA BesideRecord ==
  ASSUME NEW n \in 1..MaxTasks, Typed(n), NEW u \in Spawned, NEW t, NEW new,
         new.waiters = tasks[u].waiters, new.promise = tasks[u].promise,
         new.state = "completing" => tasks[u].state = "completing",
         u # t => new.frame = tasks[u].frame, tasks' = [tasks EXCEPT ![u] = new]
  PROVE  Beside(t) /\ tasks'[u] = new
<1>1. tasks'[u] = new /\ \A x \in Spawned : x # u => tasks'[x] = tasks[x]
  <2>1. tasks \in [1..n -> Task(1..n)] /\ Spawned = 1..n  BY TypedStack DEF Typed
  <2> QED  BY <2>1
<1> QED  BY <1>1 DEF Beside

(* The code of t goes on in another call, or ends with this one.            *)
LEMMA CodeGoesOn ==
  ASSUME NEW n \in 1..MaxTasks, Typed(n), Typed(n)', Threads, Requests, ready' = ready,
         NEW t \in Spawned, stack # <<>>, Code(Top, t), Beside(t),
         Pop \/ \E e : e.task = t /\ Become(e) /\ (Asking(e, t) => tasks'[t].frame)
  PROVE  KeepsThreads
<1>1. Has(stack, t)  BY TopCode DEF Top, Typed
<1>2. /\ ~Queued(t) /\ ~tasks[t].promise /\ tasks[t].state # "completing"
      /\ \A u \in Spawned : t \notin tasks[u].waiters
  BY <1>1, Only
<1>3. /\ \A x \in Spawned : Alone(stack', x)
      /\ \A x \in Spawned : x # t => /\ Has(stack', x) => Has(stack, x)
                                     /\ Asks(stack', x) => Asks(stack, x)
      /\ Asks(stack', t) => tasks'[t].frame
  <2>1. CASE Pop
    <3>1. \A x \in Spawned : /\ Alone(stack', x)
                             /\ Has(stack', x) => Has(stack, x) /\ ~Code(Top, x)
                             /\ Asks(stack', x) => Asks(stack, x)
      BY <2>1, Popped
    <3>2. Asks(stack', t) => Has(stack', t)  BY DEF Asks, Has, Asking, Code
    <3> QED  BY <3>1, <3>2
  <2>2. CASE \E e : e.task = t /\ Become(e) /\ (Asking(e, t) => tasks'[t].frame)
    <3>1. PICK e : e.task = t /\ Become(e) /\ (Asking(e, t) => tasks'[t].frame)  BY <2>2
    <3>2. Moves(t) /\ (Asks(stack', t) => Asking(e, t))  BY <3>1, Replaced
    <3> QED  BY <3>1, <3>2 DEF Moves
  <2> QED  BY <2>1, <2>2
<1>4. \A x \in Spawned : Queued(x)' <=> Queued(x)  BY DEF Queued
<1>5. \A x \in Spawned : x # t => Stays(x)  BY <1>3, <1>4 DEF Stays, Beside
<1>6. At(t, <<"stack", 0>>)'
  <2>1. Spawned' = Spawned  BY DEF Spawned, Typed
  <2> QED  BY <1>2, <1>4, <2>1 DEF At, Beside
<1>7. \A u \in Spawned : t \notin tasks'[u].waiters  BY <1>2 DEF Beside
<1>8. IsInjective(ready') /\ ~Gone(t)  BY <1>1 DEF Threads, Gone
<1> QED  BY <1>3, <1>5, <1>6, <1>7, <1>8, OneMoves

(* The code of t leaves the calls, to one place.                            *)
LEMMA CodeLeaves ==
  ASSUME NEW n \in 1..MaxTasks, Typed(n), Typed(n)', Threads, Requests,
         NEW t \in Spawned, stack # <<>>, Code(Top, t), Pop,
         IsInjective(ready'), \A x \in Spawned : x # t /\ Queued(x)' => Queued(x),
         \A x \in Spawned : x # t => (tasks'[x].promise => tasks[x].promise)
                                     /\ (tasks'[x].state = "completing" => tasks[x].state = "completing")
                                     /\ (tasks[x].frame => tasks'[x].frame),
         \A x, u \in Spawned : x # t /\ x \in tasks'[u].waiters => x \in tasks[u].waiters,
         NEW p, Queued(t)' => p = <<"queue", 0>>, tasks'[t].promise => p = <<"promise", 0>>,
         \A u \in Spawned : t \in tasks'[u].waiters => p = <<"task", u>> /\ tasks'[t].frame,
         tasks'[t].state = "completing" => p = <<"end", 0>>
  PROVE  KeepsThreads
<1>1. \A x \in Spawned : /\ Alone(stack', x)
                         /\ Has(stack', x) => Has(stack, x) /\ ~Code(Top, x)
                         /\ Asks(stack', x) => Asks(stack, x)
  BY Popped
<1>2. ~Has(stack', t) /\ ~Asks(stack', t)
  <2>1. Asks(stack', t) => Has(stack', t)  BY DEF Asks, Has, Asking, Code
  <2> QED  BY <1>1, <2>1
<1>3. \A x \in Spawned : x # t => Stays(x)  BY <1>1 DEF Stays
<1>4. At(t, p)'
  <2>1. Spawned' = Spawned  BY DEF Spawned, Typed
  <2> QED  BY <1>2, <2>1 DEF At
<1>5. ~Gone(t)
  <2>1. Has(stack, t)  BY TopCode DEF Top, Typed
  <2> QED  BY <2>1 DEF Gone
<1> QED  BY <1>1, <1>2, <1>3, <1>4, <1>5, OneMoves

(* The code of t enters the calls, from the place it was in.                *)
LEMMA CodeEnters ==
  ASSUME NEW n \in 1..MaxTasks, Typed(n), Typed(n)', Threads, Requests,
         NEW t \in Spawned, ~Gone(t), ~Has(stack, t),
         NEW e, e.task = t, Push(e), Asking(e, t) => tasks'[t].frame,
         IsInjective(ready'), \A x \in Spawned : Queued(x)' => Queued(x),
         Beside(t), ~Queued(t)', ~tasks'[t].promise, tasks'[t].state # "completing",
         \A u \in Spawned : t \notin tasks'[u].waiters
  PROVE  KeepsThreads
<1>1. \A x : Code(e, x) \/ Asking(e, x) => x = t  BY DEF Code, Asking
<1>2. Moves(t) /\ (Asks(stack', t) => Asking(e, t) \/ Asks(stack, t))  BY <1>1, Pushed
<1>3. ~Asks(stack, t)  BY DEF Asks, Has, Asking, Code
<1>4. \A x \in Spawned : x # t => Stays(x)  BY <1>2 DEF Stays, Beside, Moves
<1>5. At(t, <<"stack", 0>>)'
  <2>1. Spawned' = Spawned  BY DEF Spawned, Typed
  <2> QED  BY <2>1 DEF At
<1> QED  BY <1>2, <1>3, <1>4, <1>5, OneMoves DEF Moves

(* The updates that the actions make to a record, as far as places go.      *)
LEMMA Fields ==
  ASSUME NEW ids, NEW task \in Task(ids)
  PROVE  /\ \A x, b : LET new == [task EXCEPT !.raw = x, !.frame = b]
                      IN  new.waiters = task.waiters /\ new.promise = task.promise
                            /\ new.state = task.state /\ new.frame = b
         /\ \A x : LET new == [task EXCEPT !.raw = x, !.state = "ready"]
                   IN  new.waiters = task.waiters /\ new.promise = task.promise
                         /\ new.state = "ready" /\ new.frame = task.frame
         /\ LET new == [task EXCEPT !.frame = FALSE]
            IN  new.waiters = task.waiters /\ new.promise = task.promise
                  /\ new.state = task.state /\ new.frame = FALSE
         /\ LET new == [task EXCEPT !.resume = FALSE, !.frame = FALSE]
            IN  new.waiters = task.waiters /\ new.promise = task.promise
                  /\ new.state = task.state /\ new.frame = FALSE
         /\ LET new == [task EXCEPT !.resume = FALSE]
            IN  new.waiters = task.waiters /\ new.promise = task.promise
                  /\ new.state = task.state /\ new.frame = task.frame
         /\ LET new == [task EXCEPT !.fresh = FALSE]
            IN  new.waiters = task.waiters /\ new.promise = task.promise
                  /\ new.state = task.state /\ new.frame = task.frame
         /\ LET new == [task EXCEPT !.resume = TRUE, !.state = "ready"]
            IN  new.waiters = task.waiters /\ new.promise = task.promise
                  /\ new.state = "ready" /\ new.frame = task.frame
         /\ LET new == [task EXCEPT !.observed = TRUE, !.live = FALSE]
            IN  new.waiters = task.waiters /\ new.promise = task.promise
                  /\ new.state = task.state /\ new.frame = task.frame
         /\ LET new == [task EXCEPT !.state = "waiting", !.promise = TRUE]
            IN  new.waiters = task.waiters /\ new.promise = TRUE
                  /\ new.state = "waiting" /\ new.frame = task.frame
         /\ LET new == [task EXCEPT !.promise = FALSE]
            IN  new.waiters = task.waiters /\ new.promise = FALSE
                  /\ new.state = task.state /\ new.frame = task.frame
         /\ \A k : LET new == [task EXCEPT !.state = "completing", !.completion = k]
                   IN  new.waiters = task.waiters /\ new.promise = task.promise
                         /\ new.state = "completing" /\ new.frame = task.frame
         /\ \A k : LET new == [task EXCEPT !.state = "terminal", !.terminal = k, !.observed = FALSE,
                                 !.reported = FALSE, !.completion = "none", !.resume = FALSE]
                   IN  new.waiters = task.waiters /\ new.promise = task.promise
                         /\ new.state = "terminal" /\ new.frame = task.frame
BY DEF Task, TaskRecord

(* A call that is the code of a task, on top.                               *)
LEMMA CodeOnTop ==
  ASSUME NEW n \in 1..MaxTasks, Typed(n), NEW fn, OnTop(fn),
         fn \in {"vm", "effect", "handler", "apply", "complete"}
  PROVE  /\ stack # <<>> /\ Top.task \in Spawned /\ Code(Top, Top.task)
         /\ Spawned = 1..n /\ tasks \in [1..n -> Task(1..n)] /\ tasks[Top.task] \in Task(1..n)
<1>1. stack # <<>> /\ Top \in Call(1..n) /\ Top.fn = fn /\ Spawned = 1..n  BY TypedStack DEF OnTop
<1>2. Top \in VmCall(1..n) \cup EffectCall(1..n) \cup TaskCall(1..n) \cup CompleteCall(1..n)
  BY <1>1, CallKinds
<1>3. Top.task \in 1..n  BY <1>2 DEF VmCall, EffectCall, TaskCall, CompleteCall
<1> QED  BY <1>1, <1>3 DEF Code, Typed

LEMMA CallsOf ==
  ASSUME NEW t
  PROVE  /\ \A kind : Complete(t, kind).task = t /\ ~Asking(Complete(t, kind), t)
         /\ \A for : Vm(t, for).task = t /\ ~Asking(Vm(t, for), t)
         /\ \A fn \in {"handler", "apply"} :
              [fn |-> fn, task |-> t].task = t /\ ~Asking([fn |-> fn, task |-> t], t)
         /\ \A outcome : /\ Effect(t, outcome).task = t
                         /\ Asking(Effect(t, outcome), t) <=> outcome.op # "value"
BY DEF Complete, Vm, Effect, Asking

LEMMA VmTrapsThreads ==
  ASSUME NEW n \in 1..MaxTasks, Typed(n), Threads, Requests, VmTraps
  PROVE  KeepsThreads
<1>1. OnTop("vm")  BY DEF VmTraps
<1>2. PICK t \in Spawned : t = Top.task /\ Code(Top, t) /\ stack # <<>>  BY <1>1, CodeOnTop
<1>3. Beside(t)  BY DEF VmTraps, Beside
<1>4. Pop \/ Become(Complete(t, "failed"))  BY <1>2 DEF VmTraps
<1>5. Pop \/ \E e : e.task = t /\ Become(e) /\ (Asking(e, t) => tasks'[t].frame)
  BY <1>4, CallsOf
<1> QED  BY <1>2, <1>3, <1>5, VmTrapsTyped, CodeGoesOn DEF VmTraps

LEMMA TaskReturnsThreads ==
  ASSUME NEW n \in 1..MaxTasks, Typed(n), Threads, Requests, TaskReturns \/ CallHandler
  PROVE  KeepsThreads
<1>1. OnTop("effect")  BY DEF TaskReturns, CallHandler, OnEffect
<1>2. PICK t \in Spawned : t = Top.task /\ Code(Top, t) /\ stack # <<>>  BY <1>1, CodeOnTop
<1>3. Beside(t) /\ ready' = ready  BY DEF TaskReturns, CallHandler, Beside
<1>4. Become(Complete(t, "value")) \/ Become([fn |-> "handler", task |-> t])
  BY <1>2 DEF TaskReturns, CallHandler
<1>5. \E e : e.task = t /\ Become(e) /\ (Asking(e, t) => tasks'[t].frame)
  BY <1>4, CallsOf
<1> QED  BY <1>2, <1>3, <1>5, TaskReturnsTyped, CallHandlerTyped, CodeGoesOn

LEMMA FailureMessageThreads ==
  ASSUME NEW n \in 1..MaxTasks, Typed(n), Threads, Requests, FailureMessage
  PROVE  KeepsThreads
<1>1. OnEffect("message") /\ OnTop("effect")  BY DEF FailureMessage, OnEffect
<1>2. PICK t \in Spawned : t = Top.task /\ Code(Top, t) /\ stack # <<>>  BY <1>1, CodeOnTop
<1>3. PICK u \in Spawned : u = Top.outcome.task /\ tasks[u] \in Task(1..n)
  BY <1>1, OnEffectTyped, TypedStack
<1>4. Become(Complete(t, "failed")) \/ Become([fn |-> "apply", task |-> t])
  BY <1>2 DEF FailureMessage
<1>5. \E e : e.task = t /\ Become(e) /\ (Asking(e, t) => tasks'[t].frame)
  BY <1>4, CallsOf
<1>6. Beside(t)
  <2>1. CASE tasks' = tasks  BY <2>1 DEF Beside
  <2>2. CASE tasks' # tasks
    <3> DEFINE r == [tasks[u] EXCEPT !.observed = TRUE, !.live = FALSE]
    <3>1. tasks' = [tasks EXCEPT ![u] = r]  BY <1>3, <2>2 DEF FailureMessage
    <3>2. /\ r.waiters = tasks[u].waiters /\ r.promise = tasks[u].promise
          /\ r.state = tasks[u].state /\ r.frame = tasks[u].frame
      BY <1>3 DEF Task, TaskRecord
    <3> HIDE DEF r
    <3> QED  BY <3>1, <3>2, BesideRecord
  <2> QED  BY <2>1, <2>2
<1> QED  BY <1>2, <1>5, <1>6, FailureMessageTyped, CodeGoesOn DEF FailureMessage

(* The tasks that were there are still there.                               *)
LEMMA QueuedThen ==
  ASSUME NEW n \in 1..MaxTasks, Typed(n), NEW t \in Spawned, ready' = Append(ready, t),
         Threads, ~Queued(t)
  PROVE  /\ IsInjective(ready') /\ \A x : Queued(x)' <=> x = t \/ Queued(x)
<1>1. ready \in Seq(1..n) /\ t \in 1..n  BY TypedStack DEF Typed
<1>2. \A x : In(ready, x) <=> Queued(x)  BY DEF In, Queued
<1>3. \A x : In(Append(ready, t), x) <=> x = t \/ In(ready, x)  BY <1>1, AppendIn
<1>4. IsInjective(Append(ready, t))  BY <1>1, <1>2, AppendIn DEF Threads
<1>5. \A x : In(ready', x) <=> Queued(x)'  BY DEF In, Queued
<1> QED  BY <1>2, <1>3, <1>4, <1>5

LEMMA ApplyContinuationThreads ==
  ASSUME NEW n \in 1..MaxTasks, Typed(n), Threads, Requests, ApplyContinuation
  PROVE  KeepsThreads
<1>1. OnTop("apply")  BY DEF ApplyContinuation
<1>2. PICK t \in Spawned : t = Top.task /\ Code(Top, t) /\ stack # <<>> /\ tasks[t] \in Task(1..n)
  BY <1>1, CodeOnTop
<1> DEFINE r == [tasks[t] EXCEPT !.frame = FALSE]
<1>3. tasks' = [tasks EXCEPT ![t] = r]  BY <1>2 DEF ApplyContinuation
<1>4. /\ r.waiters = tasks[t].waiters /\ r.promise = tasks[t].promise
      /\ r.state = tasks[t].state
  BY <1>2 DEF Task, TaskRecord
<1> HIDE DEF r
<1>5. Beside(t)  BY <1>3, <1>4, BesideRecord
<1>6. Pop \/ Become(Vm(t, "apply")) \/ Become(Complete(t, "failed"))
  BY <1>2 DEF ApplyContinuation
<1>7. Pop \/ \E e : e.task = t /\ Become(e) /\ (Asking(e, t) => tasks'[t].frame)
  BY <1>6, CallsOf
<1> QED  BY <1>2, <1>5, <1>7, ApplyContinuationTyped, CodeGoesOn DEF ApplyContinuation

LEMMA CompleteEntryThreads ==
  ASSUME NEW n \in 1..MaxTasks, Typed(n), Threads, Requests, CompleteEntry
  PROVE  KeepsThreads
<1>1. OnTop("complete")  BY DEF CompleteEntry
<1>2. PICK t \in Spawned : t = Top.task /\ Code(Top, t) /\ stack # <<>> /\ tasks[t] \in Task(1..n)
  BY <1>1, CodeOnTop
<1>0. Top \in CompleteCall(1..n)  BY <1>1, OnCallTyped
<1> DEFINE r == [tasks[t] EXCEPT !.frame = FALSE]
<1>3. tasks' = [tasks EXCEPT ![t] = r]  BY <1>2 DEF CompleteEntry
<1>4. /\ r.waiters = tasks[t].waiters /\ r.promise = tasks[t].promise
      /\ r.state = tasks[t].state
  BY <1>2 DEF Task, TaskRecord
<1> HIDE DEF r
<1>5. Beside(t)  BY <1>3, <1>4, BesideRecord
<1> DEFINE e == [Top EXCEPT !.at = "children"]
<1>6. Pop \/ Become(e)  BY DEF CompleteEntry
<1>7. e.task = t /\ ~Asking(e, t)
  <2>1. e.task = t /\ e.fn = "complete"  BY <1>0, <1>2 DEF CompleteCall
  <2> HIDE DEF e
  <2> QED  BY <2>1 DEF Asking
<1>8. Pop \/ \E f : f.task = t /\ Become(f) /\ (Asking(f, t) => tasks'[t].frame)
  <2> HIDE DEF e
  <2> QED  BY <1>6, <1>7
<1> QED  BY <1>2, <1>5, <1>8, CompleteEntryTyped, CodeGoesOn DEF CompleteEntry

(* The code of t is put in the queue.                                       *)
LEMMA CodeQueued ==
  ASSUME NEW n \in 1..MaxTasks, Typed(n), Typed(n)', Threads, Requests,
         NEW t \in Spawned, stack # <<>>, Code(Top, t), Pop, ready' = Append(ready, t),
         NEW r, r.waiters = tasks[t].waiters, r.promise = tasks[t].promise,
         r.state = "ready", r.frame = tasks[t].frame, tasks' = [tasks EXCEPT ![t] = r]
  PROVE  KeepsThreads
<1>1. /\ tasks'[t] = r /\ \A x \in Spawned : x # t => tasks'[x] = tasks[x]
      /\ \A x, u \in Spawned : x \in tasks'[u].waiters => x \in tasks[u].waiters
  BY RecordSet
<1>2. Has(stack, t)  BY TopCode DEF Top, Typed
<1>3. /\ ~Queued(t) /\ ~tasks[t].promise
      /\ \A u \in Spawned : t \notin tasks[u].waiters
  BY <1>2, Only
<1>4. IsInjective(ready') /\ \A x : Queued(x)' <=> x = t \/ Queued(x)
  BY <1>3, QueuedThen
<1> QED  BY <1>1, <1>3, <1>4, CodeLeaves

LEMMA YieldOnceThreads ==
  ASSUME NEW n \in 1..MaxTasks, Typed(n), Threads, Requests, YieldOnce
  PROVE  KeepsThreads
<1>1. OnTop("effect")  BY DEF YieldOnce, OnEffect
<1>2. PICK t \in Spawned : t = Top.task /\ Code(Top, t) /\ stack # <<>> /\ tasks[t] \in Task(1..n)
  BY <1>1, CodeOnTop
<1> DEFINE r == [tasks[t] EXCEPT !.resume = TRUE, !.state = "ready"]
<1>3. tasks' = [tasks EXCEPT ![t] = r] /\ ready' = Append(ready, t) /\ Pop
  BY <1>2 DEF YieldOnce
<1>4. /\ r.waiters = tasks[t].waiters /\ r.promise = tasks[t].promise
      /\ r.state = "ready" /\ r.frame = tasks[t].frame
  BY <1>2 DEF Task, TaskRecord
<1> HIDE DEF r
<1> QED  BY <1>2, <1>3, <1>4, YieldOnceTyped, CodeQueued

LEMMA HandlerReturnsThreads ==
  ASSUME NEW n \in 1..MaxTasks, Typed(n), Threads, Requests, HandlerReturns
  PROVE  KeepsThreads
<1>1. OnTop("handler") /\ ready' = ready  BY DEF HandlerReturns
<1>2. PICK t \in Spawned : t = Top.task /\ Code(Top, t) /\ stack # <<>> /\ tasks[t] \in Task(1..n)
  BY <1>1, CodeOnTop
<1> DEFINE r == [tasks[t] EXCEPT !.state = "waiting", !.promise = TRUE]
<1>3. \/ UNCHANGED tasks /\ (Become([fn |-> "apply", task |-> t]) \/ Become(Complete(t, "failed")))
      \/ tasks' = [tasks EXCEPT ![t] = r] /\ Pop
  BY <1>2 DEF HandlerReturns
<1>4. CASE tasks' = [tasks EXCEPT ![t] = r] /\ Pop
  <2>1. /\ r.waiters = tasks[t].waiters /\ r.promise
        /\ r.state = "waiting" /\ r.frame = tasks[t].frame
    BY <1>2 DEF Task, TaskRecord
  <2> HIDE DEF r
  <2>2. /\ tasks'[t] = r /\ \A x \in Spawned : x # t => tasks'[x] = tasks[x]
        /\ \A x, u \in Spawned : x \in tasks'[u].waiters => x \in tasks[u].waiters
    BY <1>4, <2>1, RecordSet
  <2>3. Has(stack, t)  BY <1>2, TopCode DEF Top, Typed
  <2>4. /\ ~Queued(t) /\ \A u \in Spawned : t \notin tasks[u].waiters
    BY <2>3, Only
  <2>5. IsInjective(ready') /\ \A x : Queued(x)' <=> Queued(x)
    BY <1>1 DEF Threads, Queued
  <2> QED  BY <1>2, <1>4, <2>1, <2>2, <2>4, <2>5, HandlerReturnsTyped, CodeLeaves, ZenonT(60)
<1>5. CASE UNCHANGED tasks /\ (Become([fn |-> "apply", task |-> t]) \/ Become(Complete(t, "failed")))
  <2>1. \E e : e.task = t /\ Become(e) /\ (Asking(e, t) => tasks'[t].frame)
    BY <1>5, CallsOf
  <2>2. Beside(t)  BY <1>5 DEF Beside
  <2> QED  BY <1>1, <1>2, <2>1, <2>2, HandlerReturnsTyped, CodeGoesOn
<1> QED  BY <1>3, <1>4, <1>5

LEMMA VmReturnsThreads ==
  ASSUME NEW n \in 1..MaxTasks, Typed(n), Threads, Requests, VmReturns
  PROVE  KeepsThreads
<1>1. OnTop("vm")  BY DEF VmReturns
<1>2. PICK t \in Spawned : t = Top.task /\ Code(Top, t) /\ stack # <<>> /\ tasks[t] \in Task(1..n)
  BY <1>1, CodeOnTop
<1>3. Typed(n)'  BY VmReturnsTyped
<1>4. PICK outcome \in Outcomes(t) :
         \/ tasks' = TakeIn(t, outcome) /\ Become(Effect(t, outcome)) /\ ready' = ready
         \/ Readied(t, outcome) /\ Pop
         \/ tasks' = tasks /\ ready' = ready /\ Pop
  BY <1>2, Zenon DEF VmReturns
<1>5. CASE tasks' = TakeIn(t, outcome) /\ Become(Effect(t, outcome)) /\ ready' = ready
  <2> DEFINE r == [tasks[t] EXCEPT !.raw = None, !.frame = (outcome.op # "value")]
  <2>1. tasks' = [tasks EXCEPT ![t] = r]  BY <1>2, <1>5 DEF TakeIn
  <2>2. /\ r.waiters = tasks[t].waiters /\ r.promise = tasks[t].promise
        /\ r.state = tasks[t].state
    BY <1>2 DEF Task, TaskRecord
  <2>3. r.frame = (outcome.op # "value")  BY <1>2 DEF Task, TaskRecord
  <2> HIDE DEF r
  <2>4. Beside(t) /\ tasks'[t] = r
    <3>1. tasks'[t] = r /\ \A x \in Spawned : x # t => tasks'[x] = tasks[x]
      BY <2>1, <2>2, RecordSet
    <3> QED  BY <2>2, <3>1 DEF Beside
  <2>5. Effect(t, outcome).task = t /\ (Asking(Effect(t, outcome), t) => tasks'[t].frame)
    BY <2>3, <2>4, CallsOf
  <2>6. \E e : e.task = t /\ Become(e) /\ (Asking(e, t) => tasks'[t].frame)
    BY <1>5, <2>5
  <2> QED  BY <1>2, <1>3, <1>5, <2>4, <2>6, CodeGoesOn
<1>6. CASE Readied(t, outcome) /\ Pop
  <2> DEFINE r == [tasks[t] EXCEPT !.raw = outcome, !.state = "ready"]
  <2>1. tasks' = [tasks EXCEPT ![t] = r] /\ ready' = Append(ready, t)
    BY <1>2, <1>6 DEF Readied
  <2>2. /\ r.waiters = tasks[t].waiters /\ r.promise = tasks[t].promise
        /\ r.state = "ready" /\ r.frame = tasks[t].frame
    BY <1>2 DEF Task, TaskRecord
  <2> HIDE DEF r
  <2> QED  BY <1>2, <1>3, <1>6, <2>1, <2>2, CodeQueued
<1>7. CASE tasks' = tasks /\ ready' = ready /\ Pop
  <2>1. Beside(t)  BY <1>7 DEF Beside
  <2> QED  BY <1>2, <1>3, <1>7, <2>1, CodeGoesOn
<1> QED  BY <1>4, <1>5, <1>6, <1>7

LEMMA WaitTaskThreads ==
  ASSUME NEW n \in 1..MaxTasks, Typed(n), Threads, Requests, WaitTask
  PROVE  KeepsThreads
<1>1. OnEffect("wait") /\ OnTop("effect") /\ ready' = ready  BY DEF WaitTask, OnEffect
<1>2. PICK t \in Spawned : t = Top.task /\ Code(Top, t) /\ stack # <<>> /\ tasks[t] \in Task(1..n)
  BY <1>1, CodeOnTop
<1>3. PICK u \in Spawned : u = Top.outcome.task /\ tasks[u] \in Task(1..n)
  BY <1>1, OnEffectTyped, TypedStack
<1>4. Typed(n)' /\ tasks \in [1..n -> Task(1..n)] /\ Spawned = 1..n
  BY WaitTaskTyped, TypedStack DEF Typed
<1> DEFINE claim == [tasks EXCEPT ![u].claimed = TRUE]
           now == [claim EXCEPT ![u].observed = TRUE, ![u].live = (tasks[u].terminal # "cancelled")]
           later == [claim EXCEPT ![u].waiters = @ \cup {t}, ![t].state = "waiting"]
<1>5. \/ tasks' = tasks /\ Become(Complete(t, "failed"))
      \/ tasks' = now /\ Become([fn |-> "apply", task |-> t])
      \/ tasks' = later /\ Pop
  BY <1>2, <1>3, Zenon DEF WaitTask
<1>6. CASE tasks' = tasks /\ Become(Complete(t, "failed"))
  <2>1. \E e : e.task = t /\ Become(e) /\ (Asking(e, t) => tasks'[t].frame)
    BY <1>6, CallsOf
  <2>2. Beside(t)  BY <1>6 DEF Beside
  <2> QED  BY <1>1, <1>2, <1>4, <2>1, <2>2, CodeGoesOn
<1>7. CASE tasks' = now /\ Become([fn |-> "apply", task |-> t])
  <2> DEFINE r == [tasks[u] EXCEPT !.claimed = TRUE, !.observed = TRUE,
                                   !.live = (tasks[u].terminal # "cancelled")]
  <2>1. tasks' = [tasks EXCEPT ![u] = r]  BY <1>4, <1>7
  <2>2. /\ r.waiters = tasks[u].waiters /\ r.promise = tasks[u].promise
        /\ r.state = tasks[u].state /\ r.frame = tasks[u].frame
    BY <1>3 DEF Task, TaskRecord
  <2> HIDE DEF r
  <2>3. Beside(t)  BY <2>1, <2>2, BesideRecord
  <2>4. \E e : e.task = t /\ Become(e) /\ (Asking(e, t) => tasks'[t].frame)
    BY <1>7, CallsOf
  <2> QED  BY <1>1, <1>2, <1>4, <2>3, <2>4, CodeGoesOn
<1>8. CASE tasks' = later /\ Pop
  <2> DEFINE a == [tasks[u] EXCEPT !.claimed = TRUE, !.waiters = @ \cup {t}]
             mid == [tasks EXCEPT ![u] = a]
             b == [mid[t] EXCEPT !.state = "waiting"]
  <2>1. a \in Task(1..n) /\ a.waiters = tasks[u].waiters \cup {t}
        /\ a.promise = tasks[u].promise /\ a.state = tasks[u].state /\ a.frame = tasks[u].frame
    <3>1. tasks[u].waiters \cup {t} \in SUBSET (1..n)
      BY <1>2, <1>3, <1>4 DEF Task, TaskRecord
    <3>2. PICK W \in SUBSET (1..n) : W = tasks[u].waiters \cup {t}  BY <3>1
    <3>3. a = [tasks[u] EXCEPT !.claimed = TRUE, !.waiters = W]  BY <3>2
    <3>4. a \in Task(1..n)
      <4>1. tasks[u] \in Task(1..n)  BY <1>3
      <4> QED  BY <3>3, <4>1, WaitersTyped
    <3>5. a.waiters = W  BY <1>3, <3>3 DEF Task, TaskRecord
    <3>6. a.promise = tasks[u].promise /\ a.state = tasks[u].state /\ a.frame = tasks[u].frame
      BY <1>3, <3>3 DEF Task, TaskRecord
    <3> QED  BY <3>2, <3>4, <3>5, <3>6
  <2>2. tasks' = [mid EXCEPT ![t] = b]
    <3>1. [claim EXCEPT ![u].waiters = @ \cup {t}] = mid  BY <1>4
    <3>2. later = [[claim EXCEPT ![u].waiters = @ \cup {t}] EXCEPT ![t].state = "waiting"]
      OBVIOUS
    <3>3. later = [mid EXCEPT ![t].state = "waiting"]
      <4> HIDE DEF mid, later, claim
      <4> QED  BY <3>1, <3>2
    <3>4. [mid EXCEPT ![t].state = "waiting"] = [mid EXCEPT ![t] = b]  OBVIOUS
    <3> HIDE DEF mid, later, b
    <3> QED  BY <1>8, <3>3, <3>4
  <2> HIDE DEF a
  <2>3. mid \in [1..n -> Task(1..n)] /\ mid[u] = a
        /\ \A x \in Spawned : x # u => mid[x] = tasks[x]
    BY <1>4, <2>1
  <2> HIDE DEF mid
  <2>4. /\ b.waiters = mid[t].waiters /\ b.promise = mid[t].promise
        /\ b.state = "waiting" /\ b.frame = mid[t].frame
    BY <1>4, <2>3 DEF Task, TaskRecord
  <2> HIDE DEF b
  <2>5. tasks'[t] = b /\ \A x \in Spawned : x # t => tasks'[x] = mid[x]
    BY <1>4, <2>2, <2>3
  <2>6. \A x \in Spawned :
          /\ mid[x].promise = tasks[x].promise /\ mid[x].state = tasks[x].state
          /\ mid[x].frame = tasks[x].frame
          /\ mid[x].waiters = IF x = u THEN tasks[x].waiters \cup {t} ELSE tasks[x].waiters
    BY <2>1, <2>3
  <2>7. \A x \in Spawned :
          /\ tasks'[x].promise = tasks[x].promise /\ tasks'[x].frame = tasks[x].frame
          /\ tasks'[x].state = IF x = t THEN "waiting" ELSE tasks[x].state
          /\ tasks'[x].waiters = IF x = u THEN tasks[x].waiters \cup {t} ELSE tasks[x].waiters
    BY <2>4, <2>5, <2>6
  <2>8. Has(stack, t) /\ Asks(stack, t)
    <3>1. Asking(Top, t)  BY <1>1, <1>2 DEF OnEffect, OnTop, Asking
    <3> QED  BY <1>2, <3>1, TopCode DEF Top, Typed
  <2>9. /\ tasks[t].frame /\ ~Queued(t) /\ ~tasks[t].promise
        /\ \A x \in Spawned : t \notin tasks[x].waiters
    BY <2>8, Only DEF Requests
  <2>10. IsInjective(ready') /\ \A x : Queued(x)' <=> Queued(x)
    BY <1>1 DEF Threads, Queued
  <2>11. PICK p : p = <<"task", u>>  OBVIOUS
  <2>12. \A x \in Spawned : t \in tasks'[x].waiters => p = <<"task", x>> /\ tasks'[t].frame
    <3>1. \A x \in Spawned : t \in tasks'[x].waiters => x = u  BY <2>7, <2>9
    <3>2. tasks'[t].frame  BY <1>2, <2>7, <2>9
    <3> QED  BY <2>11, <3>1, <3>2
  <2>13. \A x, y \in Spawned : x # t /\ x \in tasks'[y].waiters => x \in tasks[y].waiters
    BY <2>7
  <2>14. \A x \in Spawned : x # t =>
           /\ tasks'[x].promise => tasks[x].promise
           /\ tasks'[x].state = "completing" => tasks[x].state = "completing"
           /\ tasks[x].frame => tasks'[x].frame
    BY <2>7
  <2>15. ~tasks'[t].promise /\ tasks'[t].state # "completing"  BY <1>2, <2>7, <2>9
  <2>16. ~Queued(t)' /\ \A x \in Spawned : x # t /\ Queued(x)' => Queued(x)
    BY <2>9, <2>10
  <2> HIDE DEF claim, now, later, a, mid, b
  <2> QED
    BY <1>2, <1>4, <1>8, <2>10, <2>12, <2>13, <2>14, <2>15, <2>16, CodeLeaves, ZenonT(60)
<1> QED  BY <1>5, <1>6, <1>7, <1>8

LEMMA PromiseSettlesThreads ==
  ASSUME NEW n \in 1..MaxTasks, Typed(n), Threads, Requests, NEW t \in Spawned, PromiseSettles(t)
  PROVE  KeepsThreads
<1>1. stack = <<>> /\ tasks[t].promise /\ ready' = ready /\ tasks[t] \in Task(1..n)
  BY TypedStack DEF PromiseSettles, Typed
<1>2. Typed(n)'  BY PromiseSettlesTyped
<1> DEFINE r == [tasks[t] EXCEPT !.promise = FALSE]
<1>3. tasks' = [tasks EXCEPT ![t] = r]  BY DEF PromiseSettles
<1>4. /\ r.waiters = tasks[t].waiters /\ ~r.promise
      /\ r.state = tasks[t].state /\ r.frame = tasks[t].frame
  BY <1>1 DEF Task, TaskRecord
<1> HIDE DEF r
<1>5. Beside(t) /\ tasks'[t] = r
  <2>1. tasks'[t] = r /\ \A x \in Spawned : x # t => tasks'[x] = tasks[x]
    BY <1>3, <1>4, RecordSet
  <2> QED  BY <1>4, <2>1 DEF Beside
<1>6. /\ ~Has(stack, t) /\ ~Queued(t) /\ tasks[t].state # "completing"
      /\ \A u \in Spawned : t \notin tasks[u].waiters
      /\ ~Gone(t)
  BY <1>1, Only DEF Gone
<1>7. PICK e : e.task = t /\ Push(e) /\ ~Asking(e, t)
  <2>1. Push([fn |-> "apply", task |-> t]) \/ Push(Complete(t, "failed"))
    BY DEF PromiseSettles
  <2> QED  BY <2>1, CallsOf
<1>8. IsInjective(ready') /\ \A x : Queued(x)' <=> Queued(x)
  BY <1>1 DEF Threads, Queued
<1>9. /\ ~Queued(t)' /\ ~tasks'[t].promise /\ tasks'[t].state # "completing"
      /\ \A x \in Spawned : Queued(x)' => Queued(x)
      /\ Asking(e, t) => tasks'[t].frame
      /\ \A u \in Spawned : t \notin tasks'[u].waiters
  BY <1>4, <1>5, <1>6, <1>7, <1>8 DEF Beside
<1> QED  BY <1>2, <1>5, <1>6, <1>7, <1>8, <1>9, CodeEnters

LEMMA TerminateThreads ==
  ASSUME NEW n \in 1..MaxTasks, Typed(n), Typed(n)', Threads, Requests, ready' = ready,
         NEW t \in Spawned, stack # <<>>, NEW kind, Terminate(t, kind)
  PROVE  KeepsThreads
<1>1. tasks[t] \in Task(1..n)  BY TypedStack DEF Typed
<1>2. PICK k \in TerminalKinds(t, kind) :
         tasks' = [tasks EXCEPT ![t].state = "terminal", ![t].terminal = k,
                     ![t].observed = FALSE, ![t].reported = FALSE,
                     ![t].completion = "none", ![t].resume = FALSE]
  BY DEF Terminate
<1> DEFINE r == [tasks[t] EXCEPT !.state = "terminal", !.terminal = k,
                     !.observed = FALSE, !.reported = FALSE,
                     !.completion = "none", !.resume = FALSE]
<1>3. tasks' = [tasks EXCEPT ![t] = r]  BY <1>2
<1>4. /\ r.waiters = tasks[t].waiters /\ r.promise = tasks[t].promise
      /\ r.state = "terminal" /\ r.frame = tasks[t].frame
  BY <1>1 DEF Task, TaskRecord
<1> HIDE DEF r
<1>5. PICK e : e.fn = "settle" /\ Become(e)
  <2>1. [fn |-> "settle", task |-> t, at |-> "waiters"].fn = "settle"  OBVIOUS
  <2> QED  BY <2>1 DEF Terminate
<1>6. \A x \in Spawned : /\ Alone(stack', x)
                         /\ Has(stack', x) => Has(stack, x)
                         /\ Asks(stack', x) => Asks(stack, x)
  BY <1>5, BecomesOwn
<1>7. r.state = "completing" => tasks[t].state = "completing"  BY <1>4
<1> QED  BY <1>3, <1>4, <1>6, <1>7, NoneMoves

LEMMA CompleteDecidesThreads ==
  ASSUME NEW n \in 1..MaxTasks, Typed(n), Threads, Requests, CompleteDecides
  PROVE  KeepsThreads
<1>1. OnTop("complete") /\ ready' = ready  BY DEF CompleteDecides
<1>2. PICK t \in Spawned : t = Top.task /\ Code(Top, t) /\ stack # <<>> /\ tasks[t] \in Task(1..n)
  BY <1>1, CodeOnTop
<1>3. Typed(n)'  BY CompleteDecidesTyped
<1>4. CASE Terminate(t, Top.kind)  BY <1>1, <1>2, <1>3, <1>4, TerminateThreads
<1>5. CASE ~Terminate(t, Top.kind)
  <2> DEFINE r == [tasks[t] EXCEPT !.state = "completing", !.completion = Top.kind]
  <2>1. tasks' = [tasks EXCEPT ![t] = r] /\ Pop  BY <1>2, <1>5 DEF CompleteDecides
  <2>2. /\ r.waiters = tasks[t].waiters /\ r.promise = tasks[t].promise
        /\ r.state = "completing" /\ r.frame = tasks[t].frame
    BY <1>2 DEF Task, TaskRecord
  <2> HIDE DEF r
  <2>3. /\ tasks'[t] = r /\ \A x \in Spawned : x # t => tasks'[x] = tasks[x]
        /\ \A x, u \in Spawned : x \in tasks'[u].waiters => x \in tasks[u].waiters
    BY <2>1, <2>2, RecordSet
  <2>4. Has(stack, t)  BY <1>2, TopCode DEF Top, Typed
  <2>5. /\ ~Queued(t) /\ ~tasks[t].promise /\ \A u \in Spawned : t \notin tasks[u].waiters
    BY <2>4, Only
  <2>6. IsInjective(ready') /\ \A x : Queued(x)' <=> Queued(x)
    BY <1>1 DEF Threads, Queued
  <2> QED  BY <1>2, <1>3, <2>1, <2>2, <2>3, <2>5, <2>6, CodeLeaves, ZenonT(60)
<1> QED  BY <1>4, <1>5

LEMMA OwnerCompletesThreads ==
  ASSUME NEW n \in 1..MaxTasks, Typed(n), Threads, Requests, OwnerCompletes
  PROVE  KeepsThreads
<1>1. OnTop("owner") /\ ready' = ready  BY DEF OwnerCompletes
<1>2. PICK t \in Spawned : t = Top.task  BY <1>1, OnCallTyped
<1>3. Typed(n)' /\ stack # <<>>  BY <1>1, OwnerCompletesTyped DEF OnTop
<1>4. CASE Terminate(t, tasks[t].completion)  BY <1>1, <1>2, <1>3, <1>4, TerminateThreads
<1>5. CASE ~Terminate(t, tasks[t].completion)
  <2>1. tasks' = tasks /\ Pop  BY <1>2, <1>5 DEF OwnerCompletes
  <2>2. \A x \in Spawned : /\ Alone(stack', x)
                           /\ Has(stack', x) => Has(stack, x)
                           /\ Asks(stack', x) => Asks(stack, x)
    BY <1>3, <2>1, Popped
  <2> QED  BY <1>1, <1>3, <2>1, <2>2, NoneMoves
<1> QED  BY <1>4, <1>5

(* The task w that waited for t is resumed, or is made to fail.             *)
LEMMA WaiterGoesOn ==
  ASSUME NEW n \in 1..MaxTasks, Typed(n), Typed(n)', Threads, Requests, ready' = ready,
         NEW t \in Spawned, NEW w \in tasks[t].waiters, NEW a \in Task(1..n),
         a.waiters = tasks[t].waiters \ {w}, a.promise = tasks[t].promise,
         a.state = tasks[t].state, a.frame = tasks[t].frame,
         NEW told, told = [tasks EXCEPT ![t] = a], tasks' = [told EXCEPT ![w].frame = FALSE],
         NEW e, e.task = w, ~Asking(e, w), Push(e)
  PROVE  KeepsThreads
<1>1. tasks \in [1..n -> Task(1..n)] /\ Spawned = 1..n  BY TypedStack DEF Typed
<1>2. w \in Spawned
  <2>1. tasks[t] \in Task(1..n)  BY <1>1
  <2> QED  BY <1>1, <2>1 DEF Task, TaskRecord
<1>3. told \in [1..n -> Task(1..n)] /\ told[t] = a /\ \A x \in Spawned : x # t => told[x] = tasks[x]
  BY <1>1
<1>4. \A x \in Spawned :
        /\ told[x].promise = tasks[x].promise /\ told[x].state = tasks[x].state
        /\ told[x].frame = tasks[x].frame
        /\ x = t => told[x].waiters = tasks[x].waiters \ {w}
        /\ x # t => told[x].waiters = tasks[x].waiters
  <2> SUFFICES ASSUME NEW x \in Spawned
               PROVE  /\ told[x].promise = tasks[x].promise /\ told[x].state = tasks[x].state
                      /\ told[x].frame = tasks[x].frame
                      /\ x = t => told[x].waiters = tasks[x].waiters \ {w}
                      /\ x # t => told[x].waiters = tasks[x].waiters
    OBVIOUS
  <2>1. CASE x = t  BY <1>3, <2>1, Zenon
  <2>2. CASE x # t
    <3>1. told[x] = tasks[x]  BY <1>3, <2>2, Zenon
    <3> QED  BY <2>2, <3>1, Zenon
  <2> QED  BY <2>1, <2>2
<1> DEFINE b == [told[w] EXCEPT !.frame = FALSE]
<1>5. tasks' = [told EXCEPT ![w] = b]  OBVIOUS
<1>6. b.waiters = told[w].waiters /\ b.promise = told[w].promise /\ b.state = told[w].state
  <2>1. told[w] \in Task(1..n)  BY <1>1, <1>2, <1>3
  <2> QED  BY <2>1 DEF Task, TaskRecord
<1> HIDE DEF b
<1>7. tasks'[w] = b /\ \A x \in Spawned : x # w => tasks'[x] = told[x]
  BY <1>1, <1>2, <1>3, <1>5
<1>8. \A x \in Spawned :
        /\ tasks'[x].promise = tasks[x].promise /\ tasks'[x].state = tasks[x].state
        /\ x # w => tasks'[x].frame = tasks[x].frame
        /\ x = t => tasks'[x].waiters = tasks[x].waiters \ {w}
        /\ x # t => tasks'[x].waiters = tasks[x].waiters
  <2> SUFFICES ASSUME NEW x \in Spawned
               PROVE  /\ tasks'[x].promise = tasks[x].promise /\ tasks'[x].state = tasks[x].state
                      /\ x # w => tasks'[x].frame = tasks[x].frame
                      /\ x = t => tasks'[x].waiters = tasks[x].waiters \ {w}
                      /\ x # t => tasks'[x].waiters = tasks[x].waiters
    OBVIOUS
  <2>1. CASE x = w
    <3>1. /\ tasks'[x].promise = told[x].promise /\ tasks'[x].state = told[x].state
          /\ tasks'[x].waiters = told[x].waiters
      BY <1>6, <1>7, <2>1, Zenon
    <3> QED  BY <1>4, <2>1, <3>1, Zenon
  <2>2. CASE x # w
    <3>1. tasks'[x] = told[x]  BY <1>7, <2>2, Zenon
    <3> QED  BY <1>4, <3>1, Zenon
  <2> QED  BY <2>1, <2>2
<1>9. Beside(w)
  <2>1. \A x \in Spawned : tasks'[x].waiters \subseteq tasks[x].waiters
    <3> SUFFICES ASSUME NEW x \in Spawned PROVE tasks'[x].waiters \subseteq tasks[x].waiters
      OBVIOUS
    <3>1. tasks'[x].waiters = tasks[x].waiters \ {w} \/ tasks'[x].waiters = tasks[x].waiters
      BY <1>8, Zenon
    <3> QED  BY <3>1, Zenon
  <2>2. \A x \in Spawned :
          /\ tasks'[x].promise => tasks[x].promise
          /\ tasks'[x].state = "completing" => tasks[x].state = "completing"
          /\ x # w => (tasks[x].frame => tasks'[x].frame)
    <3> SUFFICES ASSUME NEW x \in Spawned
                 PROVE  /\ tasks'[x].promise => tasks[x].promise
                        /\ tasks'[x].state = "completing" => tasks[x].state = "completing"
                        /\ x # w => (tasks[x].frame => tasks'[x].frame)
      OBVIOUS
    <3>1. /\ tasks'[x].promise = tasks[x].promise /\ tasks'[x].state = tasks[x].state
          /\ x # w => tasks'[x].frame = tasks[x].frame
      BY <1>8, Zenon
    <3> QED  BY <3>1
  <2> QED  BY <2>1, <2>2, Zenon DEF Beside
<1>10. /\ ~Has(stack, w) /\ ~Queued(w) /\ ~tasks[w].promise /\ tasks[w].state # "completing"
       /\ \A v \in Spawned : w \in tasks[v].waiters => v = t
  BY <1>2, Only
<1>11. /\ ~Queued(w)' /\ ~tasks'[w].promise /\ tasks'[w].state # "completing"
       /\ \A x \in Spawned : Queued(x)' => Queued(x)
       /\ IsInjective(ready')
  BY <1>2, <1>8, <1>10 DEF Threads, Queued
<1>12. ~Gone(w) /\ \A u \in Spawned : w \notin tasks'[u].waiters  BY <1>8, <1>10 DEF Gone
<1> QED  BY <1>2, <1>9, <1>10, <1>11, <1>12, CodeEnters

LEMMA SettleResumesWaiterThreads ==
  ASSUME NEW n \in 1..MaxTasks, Typed(n), Threads, Requests, SettleResumesWaiter
  PROVE  KeepsThreads
<1>1. OnTop("settle") /\ ready' = ready  BY DEF SettleResumesWaiter
<1>2. PICK t \in Spawned : t = Top.task /\ tasks[t] \in Task(1..n) /\ tasks \in [1..n -> Task(1..n)]
  BY <1>1, OnCallTyped
<1>3. PICK w \in tasks[t].waiters :
         /\ tasks' = [tasks EXCEPT ![t].observed = TRUE, ![t].waiters = @ \ {w},
                                   ![w].frame = FALSE]
         /\ Push(Vm(w, "terminal")) \/ Push(Complete(w, "failed"))
  BY <1>2, Zenon DEF SettleResumesWaiter
<1>4. Typed(n)'  BY SettleResumesWaiterTyped
<1>5. PICK e : e.task = w /\ ~Asking(e, w) /\ Push(e)  BY <1>3, CallsOf
<1>6. PICK W \in SUBSET (1..n) : W = tasks[t].waiters \ {w}  BY <1>2 DEF Task, TaskRecord
<1> DEFINE a == [tasks[t] EXCEPT !.observed = TRUE, !.waiters = W]
           told == [tasks EXCEPT ![t] = a]
<1>7. a \in Task(1..n) /\ a.waiters = W /\ a.promise = tasks[t].promise
      /\ a.state = tasks[t].state /\ a.frame = tasks[t].frame
  <2>1. a \in Task(1..n)  BY <1>2, WaitersTyped
  <2>2. a.waiters = W  BY <1>2 DEF Task, TaskRecord
  <2>3. a.promise = tasks[t].promise /\ a.state = tasks[t].state /\ a.frame = tasks[t].frame
    BY <1>2 DEF Task, TaskRecord
  <2> QED  BY <2>1, <2>2, <2>3
<1>8. tasks' = [told EXCEPT ![w].frame = FALSE]
  <2>1. tasks' = [[tasks EXCEPT ![t].observed = TRUE, ![t].waiters = @ \ {w}] EXCEPT ![w].frame = FALSE]
    BY <1>3
  <2>2. [tasks EXCEPT ![t].observed = TRUE, ![t].waiters = @ \ {w}] = told  BY <1>2, <1>6, TypedStack
  <2> HIDE DEF told
  <2> QED  BY <2>1, <2>2
<1>9. PICK m : m = told  OBVIOUS
<1>10. m = [tasks EXCEPT ![t] = a] /\ tasks' = [m EXCEPT ![w].frame = FALSE]
  <2> HIDE DEF a
  <2> QED  BY <1>8, <1>9
<1> HIDE DEF a, told
<1> QED  BY <1>1, <1>4, <1>5, <1>6, <1>7, <1>10, WaiterGoesOn

LEMMA CancelResumesWaiterThreads ==
  ASSUME NEW n \in 1..MaxTasks, Typed(n), Threads, Requests, CancelResumesWaiter
  PROVE  KeepsThreads
<1>1. OnTop("cancel") /\ ready' = ready  BY DEF CancelResumesWaiter
<1>2. PICK t \in Spawned : t = Top.task /\ tasks[t] \in Task(1..n) /\ tasks \in [1..n -> Task(1..n)]
  BY <1>1, OnCallTyped
<1>3. PICK w \in tasks[t].waiters :
         /\ tasks' = [tasks EXCEPT ![t].waiters = @ \ {w}, ![w].frame = FALSE]
         /\ IF tasks[w].frame THEN Push(Vm(w, "cancel")) ELSE UNCHANGED stack
  BY <1>2, Zenon DEF CancelResumesWaiter
<1>4. Typed(n)'  BY CancelResumesWaiterTyped
<1>5. PICK e : e.task = w /\ ~Asking(e, w) /\ Push(e)
  <2>1. tasks[w].frame  BY <1>3 DEF Requests
  <2> QED  BY <1>3, <2>1, CallsOf
<1>6. PICK W \in SUBSET (1..n) : W = tasks[t].waiters \ {w}  BY <1>2 DEF Task, TaskRecord
<1> DEFINE a == [tasks[t] EXCEPT !.waiters = W]
           told == [tasks EXCEPT ![t] = a]
<1>7. a \in Task(1..n) /\ a.waiters = W /\ a.promise = tasks[t].promise
      /\ a.state = tasks[t].state /\ a.frame = tasks[t].frame
  <2>1. a \in Task(1..n)  BY <1>2, WaitersTyped
  <2>2. a.waiters = W  BY <1>2 DEF Task, TaskRecord
  <2>3. a.promise = tasks[t].promise /\ a.state = tasks[t].state /\ a.frame = tasks[t].frame
    BY <1>2 DEF Task, TaskRecord
  <2> QED  BY <2>1, <2>2, <2>3
<1>8. tasks' = [told EXCEPT ![w].frame = FALSE]
  <2>1. tasks' = [[tasks EXCEPT ![t].waiters = @ \ {w}] EXCEPT ![w].frame = FALSE]
    BY <1>3
  <2>2. [tasks EXCEPT ![t].waiters = @ \ {w}] = told  BY <1>2, <1>6, TypedStack
  <2> HIDE DEF told
  <2> QED  BY <2>1, <2>2
<1>9. PICK m : m = told  OBVIOUS
<1>10. m = [tasks EXCEPT ![t] = a] /\ tasks' = [m EXCEPT ![w].frame = FALSE]
  <2> HIDE DEF a
  <2> QED  BY <1>8, <1>9
<1> HIDE DEF a, told
<1> QED  BY <1>1, <1>4, <1>5, <1>6, <1>7, <1>10, WaiterGoesOn

LEMMA StepPollsThreads ==
  ASSUME NEW n \in 1..MaxTasks, Typed(n), Threads, Requests, StepPolls
  PROVE  KeepsThreads
<1>1. ready # <<>> /\ ready' = Tail(ready) /\ stack = <<>> /\ ready \in Seq(1..n)
  BY DEF StepPolls, Typed
<1>2. PICK t \in Spawned : t = Head(ready)
  <2>1. Head(ready) \in 1..n  BY <1>1, Stacks
  <2> QED  BY <2>1, TypedStack
<1>3. tasks \in [1..n -> Task(1..n)] /\ Spawned = 1..n /\ tasks[t] \in Task(1..n)
  BY TypedStack DEF Typed
<1>4. Typed(n)'  BY StepTyped DEF Step
<1>5. Queued(t) /\ ~Queued(t)' /\ IsInjective(ready') /\ \A x \in Spawned : Queued(x)' => Queued(x)
  <2>1. \A x : (In(ready, x) <=> Queued(x)) /\ (In(ready', x) <=> Queued(x)')  BY DEF In, Queued
  <2>2. IsInjective(ready)  BY DEF Threads
  <2>3. /\ \A x : In(Tail(ready), x) => In(ready, x)
        /\ In(ready, Head(ready))
        /\ IsInjective(Tail(ready)) /\ ~In(Tail(ready), Head(ready))
    BY <1>1, <2>2, TailIn
  <2> QED  BY <1>1, <1>2, <2>1, <2>3
<1>6. /\ ~Has(stack, t) /\ ~tasks[t].promise /\ tasks[t].state # "completing"
      /\ \A u \in Spawned : t \notin tasks[u].waiters
      /\ ~Gone(t)
  BY <1>5, Only DEF Gone
<1>7. CASE UNCHANGED <<tasks, stack>>
  <2>1. \A x \in Spawned : Alone(stack', x) /\ Stays(x)  BY <1>5, <1>7 DEF Threads, Stays
  <2>2. PICK m : m \notin Spawned
    <3>1. 0 \notin Spawned  BY <1>3
    <3> QED  BY <3>1
  <2> QED  BY <1>4, <1>5, <2>1, <2>2, OneMoves
<1>8. CASE \E r, e : /\ r.waiters = tasks[t].waiters /\ r.promise = tasks[t].promise
                     /\ r.state = tasks[t].state /\ tasks' = [tasks EXCEPT ![t] = r]
                     /\ e.task = t /\ (Asking(e, t) => r.frame) /\ Push(e)
  <2>1. PICK r, e : /\ r.waiters = tasks[t].waiters /\ r.promise = tasks[t].promise
                    /\ r.state = tasks[t].state /\ tasks' = [tasks EXCEPT ![t] = r]
                    /\ e.task = t /\ (Asking(e, t) => r.frame) /\ Push(e)
    BY <1>8
  <2>2. tasks'[t] = r /\ \A x \in Spawned : x # t => tasks'[x] = tasks[x]
    BY <2>1, RecordSet
  <2>3. Beside(t)  BY <2>1, <2>2 DEF Beside
  <2>4. /\ Asking(e, t) => tasks'[t].frame
        /\ ~tasks'[t].promise /\ tasks'[t].state # "completing"
        /\ \A u \in Spawned : t \notin tasks'[u].waiters
    BY <1>6, <2>1, <2>2, <2>3 DEF Beside
  <2> QED  BY <1>4, <1>5, <1>6, <2>1, <2>3, <2>4, CodeEnters
<1> DEFINE task == tasks[t]
<1>9. \/ UNCHANGED <<tasks, stack>>
      \/ tasks' = TakeIn(t, task.raw) /\ Push(Effect(t, task.raw))
      \/ /\ tasks' = [tasks EXCEPT ![t].resume = FALSE, ![t].frame = FALSE]
         /\ Push(Vm(t, "poll"))
      \/ tasks' = [tasks EXCEPT ![t].fresh = FALSE] /\ Push(Vm(t, "poll"))
      \/ tasks' = [tasks EXCEPT ![t].resume = FALSE] /\ Push(Complete(t, "failed"))
  BY <1>2, Zenon DEF StepPolls
<1>10. CASE tasks' = TakeIn(t, task.raw) /\ Push(Effect(t, task.raw))
  <2> DEFINE r == [tasks[t] EXCEPT !.raw = None, !.frame = (task.raw.op # "value")]
  <2>1. tasks' = [tasks EXCEPT ![t] = r]  BY <1>3, <1>10 DEF TakeIn
  <2>2. r.waiters = tasks[t].waiters /\ r.promise = tasks[t].promise /\ r.state = tasks[t].state
    BY <1>3 DEF Task, TaskRecord
  <2>3. r.frame = (task.raw.op # "value")  BY <1>3 DEF Task, TaskRecord
  <2>4. PICK x : x = task.raw  OBVIOUS
  <2>5. Effect(t, x).task = t /\ (Asking(Effect(t, x), t) => r.frame)
    <3> HIDE DEF r
    <3> QED  BY <2>3, <2>4, CallsOf
  <2>6. PICK e : e.task = t /\ (Asking(e, t) => r.frame) /\ Push(e)
    <3> HIDE DEF r
    <3> QED  BY <1>10, <2>4, <2>5
  <2> HIDE DEF r
  <2> QED  BY <1>8, <2>1, <2>2, <2>6
<1>11. CASE \E r : /\ tasks' = [tasks EXCEPT ![t] = r]
                   /\ r \in {[task EXCEPT !.resume = FALSE, !.frame = FALSE],
                             [task EXCEPT !.fresh = FALSE], [task EXCEPT !.resume = FALSE]}
                   /\ Push(Vm(t, "poll")) \/ Push(Complete(t, "failed"))
  <2>1. PICK r : /\ tasks' = [tasks EXCEPT ![t] = r]
                 /\ r \in {[task EXCEPT !.resume = FALSE, !.frame = FALSE],
                           [task EXCEPT !.fresh = FALSE], [task EXCEPT !.resume = FALSE]}
    BY <1>11
  <2>2. r.waiters = tasks[t].waiters /\ r.promise = tasks[t].promise /\ r.state = tasks[t].state
    BY <1>3, <2>1 DEF Task, TaskRecord
  <2>3. PICK e : e.task = t /\ ~Asking(e, t) /\ Push(e)  BY <1>11, CallsOf
  <2> QED  BY <1>8, <2>1, <2>2, <2>3
<1>12. CASE /\ tasks' = [tasks EXCEPT ![t].resume = FALSE, ![t].frame = FALSE]
            /\ Push(Vm(t, "poll"))
  <2>1. tasks' = [tasks EXCEPT ![t] = [task EXCEPT !.resume = FALSE, !.frame = FALSE]]
    BY <1>12
  <2> QED  BY <1>11, <1>12, <2>1
<1>13. CASE tasks' = [tasks EXCEPT ![t].fresh = FALSE] /\ Push(Vm(t, "poll"))
  <2>1. tasks' = [tasks EXCEPT ![t] = [task EXCEPT !.fresh = FALSE]]  BY <1>13
  <2> QED  BY <1>11, <1>13, <2>1
<1>14. CASE tasks' = [tasks EXCEPT ![t].resume = FALSE] /\ Push(Complete(t, "failed"))
  <2>1. tasks' = [tasks EXCEPT ![t] = [task EXCEPT !.resume = FALSE]]  BY <1>14
  <2> QED  BY <1>11, <1>14, <2>1
<1> QED  BY <1>7, <1>9, <1>10, <1>12, <1>13, <1>14

LEMMA SpawnThreads ==
  ASSUME NEW n \in 1..MaxTasks, Typed(n), Threads, Requests,
         NEW isDetached \in BOOLEAN, Spawn(isDetached)
  PROVE  KeepsThreads
<1>1. n \in Nat /\ tasks \in [1..n -> Task(1..n)] /\ Spawned = 1..n /\ ready \in Seq(1..n)
      /\ stack' = stack /\ stack \in Seq(Call(1..n))
  BY TypedStack DEF Typed, Spawn
<1>2. PICK t \in Spawned : t = Top.task  BY CodeOnTop DEF Spawn
<1>3. Len(tasks) = n
  <2>1. tasks \in Seq(Task(1..n))  BY <1>1, SeqDef
  <2>2. Len(tasks) \in Nat /\ 1..Len(tasks) = 1..n  BY <1>1, <2>1, LenProperties
  <2> QED  BY <1>1, <2>2, SameInterval
<1> DEFINE new == n + 1
           spawner == [tasks[t] EXCEPT !.knows = @ \cup {new}]
           child == NewTask(IF isDetached THEN TheRun ELSE t, isDetached, tasks[t].knows, TRUE)
           old == [tasks EXCEPT ![t] = spawner]
<1>4. tasks' = Append(old, child) /\ ready' = Append(ready, new)
  BY <1>2, <1>3 DEF Spawn
<1>5. /\ spawner.waiters = tasks[t].waiters /\ spawner.promise = tasks[t].promise
      /\ spawner.state = tasks[t].state /\ spawner.frame = tasks[t].frame
  <2>1. tasks[t] \in Task(1..n)  BY <1>1
  <2> QED  BY <2>1 DEF Task, TaskRecord
<1>6. child.waiters = {} /\ ~child.promise /\ child.state = "ready"  BY DEF NewTask
<1>7. Spawned' = Spawned \cup {new} /\ new \notin Spawned
  <2>1. n + 1 \in 1..MaxTasks /\ Typed(n + 1)'  BY SpawnTyped
  <2>2. Spawned' = 1..n + 1  BY <2>1 DEF Spawned, Typed
  <2> QED  BY <1>1, <2>2
<1> HIDE DEF spawner, child
<1>8. tasks'[new] = child /\ tasks'[t] = spawner /\ \A x \in Spawned : x # t => tasks'[x] = tasks[x]
  <2> DEFINE S == {tasks[x] : x \in 1..n} \cup {spawner, child}
  <2>1. old \in [1..n -> S] /\ old[t] = spawner /\ \A x \in 1..n : x # t => old[x] = tasks[x]
    BY <1>1
  <2> HIDE DEF old, S
  <2>2. old \in Seq(S)  BY <1>1, <2>1, SeqDef
  <2>3. Len(old) = n
    <3>1. Len(old) \in Nat /\ 1..Len(old) = 1..n  BY <2>1, <2>2, LenProperties
    <3> QED  BY <1>1, <3>1, SameInterval
  <2>4. child \in S  BY DEF S
  <2>5. /\ \A x \in 1..n : Append(old, child)[x] = old[x]
        /\ Append(old, child)[n + 1] = child
    BY <2>2, <2>3, <2>4, AppendProperties
  <2> QED  BY <1>1, <1>4, <2>1, <2>5
<1>9. \A x \in Spawned :
        /\ tasks'[x].waiters = tasks[x].waiters /\ tasks'[x].promise = tasks[x].promise
        /\ tasks'[x].state = tasks[x].state /\ tasks'[x].frame = tasks[x].frame
  <2> SUFFICES ASSUME NEW x \in Spawned
               PROVE  /\ tasks'[x].waiters = tasks[x].waiters /\ tasks'[x].promise = tasks[x].promise
                      /\ tasks'[x].state = tasks[x].state /\ tasks'[x].frame = tasks[x].frame
    OBVIOUS
  <2>1. CASE x = t  BY <1>5, <1>8, <2>1, Zenon
  <2>2. CASE x # t  BY <1>8, <2>2, Zenon
  <2> QED  BY <2>1, <2>2
<1>10. ~Has(stack, new) /\ ~Asks(stack, new)
  <2>1. ASSUME NEW i \in DOMAIN stack PROVE ~Code(stack[i], new)
    <3>1. stack[i] \in Call(1..n)  BY <1>1, <2>1
    <3>2. CASE stack[i].fn \in {"vm", "effect", "handler", "apply", "complete"}
      <4>1. stack[i].task \in 1..n
        BY <3>1, <3>2, CallKinds DEF VmCall, EffectCall, TaskCall, CompleteCall
      <4> QED  BY <1>1, <1>7, <4>1 DEF Code
    <3> QED  BY <3>2 DEF Code
  <2>2. ~Has(stack, new)  BY <2>1 DEF Has
  <2>3. Asks(stack, new) => Has(stack, new)  BY DEF Asks, Has, Asking, Code
  <2> QED  BY <2>2, <2>3
<1>11. \A x \in Spawned : tasks[x].waiters \subseteq Spawned
  <2> SUFFICES ASSUME NEW x \in Spawned PROVE tasks[x].waiters \subseteq Spawned
    OBVIOUS
  <2>1. tasks[x] \in Task(1..n)  BY <1>1
  <2> QED  BY <1>1, <2>1 DEF Task, TaskRecord
<1>12. IsInjective(ready') /\ \A x \in Spawned : Queued(x)' => Queued(x)
  <2>1. ready \in Seq(1..n + 1) /\ new \in 1..n + 1
    <3>1. 1..n \subseteq 1..n + 1 /\ new \in 1..n + 1  BY <1>1
    <3> QED  BY <1>1, <3>1, SeqMonotonic
  <2>2. ~In(ready, new)  BY <1>1, <1>7 DEF In
  <2>3. /\ \A y : In(Append(ready, new), y) <=> y = new \/ In(ready, y)
        /\ IsInjective(Append(ready, new))
    BY <2>1, <2>2, AppendIn DEF Threads
  <2>4. \A x : (In(ready, x) <=> Queued(x)) /\ (In(ready', x) <=> Queued(x)')  BY DEF In, Queued
  <2> HIDE DEF new
  <2> QED  BY <1>4, <1>7, <2>3, <2>4
<1> HIDE DEF new
<1>13. ASSUME NEW x \in Spawned PROVE Alone(stack', x) /\ \E p : At(x, p)'
  <2>1. PICK p : At(x, p)  BY DEF Threads
  <2>2. At(x, p)'
    <3>1. \A u \in Spawned' : x \in tasks'[u].waiters => u \in Spawned /\ x \in tasks[u].waiters
      BY <1>6, <1>7, <1>8, <1>9
    <3> QED  BY <1>1, <1>9, <1>12, <2>1, <3>1 DEF At
  <2> QED  BY <1>1, <2>2 DEF Threads
<1>14. \A u \in Spawned' : new \notin tasks'[u].waiters
  <2>1. \A u \in Spawned : new \notin tasks'[u].waiters  BY <1>7, <1>9, <1>11
  <2>2. new \notin tasks'[new].waiters  BY <1>6, <1>8
  <2> QED  BY <1>7, <2>1, <2>2
<1>15. Alone(stack', new) /\ \E p : At(new, p)'
  <2>1. PICK p : p = <<"queue", 0>>  OBVIOUS
  <2>2. At(new, p)'  BY <1>1, <1>6, <1>8, <1>10, <1>14, <2>1 DEF At
  <2>3. Alone(stack', new)  BY <1>1, <1>10 DEF Alone, Has
  <2> QED  BY <2>2, <2>3
<1>16. Threads'
  <2>1. \A x \in Spawned' : Alone(stack', x) /\ \E p : At(x, p)'  BY <1>7, <1>13, <1>15
  <2> QED  BY <1>12, <2>1 DEF Threads
<1>17. Requests'
  <2>1. ASSUME NEW u \in Spawned', NEW w \in tasks'[u].waiters PROVE tasks'[w].frame
    <3>1. u \in Spawned /\ w \in tasks[u].waiters  BY <1>6, <1>7, <1>8, <1>9, <2>1
    <3>2. w \in Spawned /\ tasks[w].frame  BY <1>11, <3>1 DEF Requests
    <3> QED  BY <1>9, <3>2
  <2>2. ASSUME NEW x \in Spawned', Asks(stack', x) PROVE tasks'[x].frame
    <3>1. x \in Spawned  BY <1>1, <1>7, <1>10, <2>2
    <3> QED  BY <1>1, <1>9, <2>2, <3>1 DEF Requests
  <2> QED  BY <2>1, <2>2 DEF Requests
<1>18. ASSUME NEW x \in Spawned, Gone(x) PROVE Gone(x)'
  <2>1. \A u \in Spawned' : x \notin tasks'[u].waiters  BY <1>6, <1>7, <1>8, <1>9, <1>18 DEF Gone
  <2> QED  BY <1>1, <1>9, <1>12, <1>18, <2>1 DEF Gone
<1> QED  BY <1>16, <1>17, <1>18 DEF KeepsThreads

LEMMA InitThreads == Init => Threads /\ Requests
<1> SUFFICES ASSUME Init PROVE Threads /\ Requests
  OBVIOUS
<1> DEFINE root == NewTask(TheRun, FALSE, {}, FALSE)
<1>1. root.waiters = {} /\ ~root.promise /\ root.state = "ready"  BY DEF NewTask
<1>2. tasks = <<root>> /\ ready = <<1>> /\ stack = <<>>  BY DEF Init, Root
<1> HIDE DEF root
<1>3. Spawned = {1} /\ tasks[1] = root  BY <1>2 DEF Spawned
<1>4. \A t : ~Has(stack, t) /\ ~Asks(stack, t) /\ Alone(stack, t)
  <2>1. DOMAIN stack = {}  BY <1>2
  <2> QED  BY <2>1 DEF Has, Asks, Alone
<1>5. PICK p : p = <<"queue", 0>>  OBVIOUS
<1>6. At(1, p)  BY <1>1, <1>3, <1>4, <1>5 DEF At
<1>7. IsInjective(ready)
  <2>1. DOMAIN ready = {1}  BY <1>2
  <2> QED  BY <2>1 DEF IsInjective
<1> QED  BY <1>1, <1>3, <1>4, <1>6, <1>7 DEF Threads, Requests

LEMMA NextThreads ==
  ASSUME NEW n \in 1..MaxTasks, Typed(n), Threads, Requests, [Next]_vars
  PROVE  KeepsThreads
<1>1. CASE Step
  BY <1>1, CallsThreads, StepPollsThreads DEF Step
<1>2. CASE Program
  <2>1. ASSUME NEW d \in BOOLEAN, Spawn(d) PROVE KeepsThreads
    BY <2>1, SpawnThreads
  <2>2. ASSUME NEW u \in Spawned, CancelTask(u) PROVE KeepsThreads
    BY <2>2, CallsThreads
  <2>3. ASSUME NEW u \in Spawned, TakeValue(u) PROVE KeepsThreads
    BY <2>3, RecordThreads
  <2> QED  BY <1>2, <2>1, <2>2, <2>3, VmReturnsThreads, VmTrapsThreads DEF Program
<1>3. CASE Suspend
  BY <1>3, TaskReturnsThreads, WaitTaskThreads, YieldOnceThreads, FailureMessageThreads DEF Suspend
<1>4. CASE Runtime
  BY <1>4, CallsThreads, RecordThreads, ApplyContinuationThreads, CompleteEntryThreads,
     CompleteDecidesThreads, OwnerCompletesThreads, SettleResumesWaiterThreads,
     CancelResumesWaiterThreads
  DEF Runtime
<1>5. CASE Host
  <2>1. ASSUME NEW t \in Spawned, PromiseSettles(t) PROVE KeepsThreads
    BY <2>1, PromiseSettlesThreads
  <2>2. ASSUME NEW t \in Spawned, ObserveTask(t) PROVE KeepsThreads
    BY <2>2, RecordThreads
  <2> QED  BY <1>5, <2>1, <2>2, HandlerReturnsThreads, CallsThreads DEF Host
<1>6. CASE UNCHANGED vars
  <2>1. Threads' /\ Requests'
    BY <1>6 DEF vars, Threads, Requests, Has, Asks, Alone, At, Queued, Spawned
  <2>2. \A t : Gone(t) => Gone(t)'  BY <1>6 DEF vars, Gone, Has, Queued, Spawned
  <2> QED  BY <2>1, <2>2 DEF KeepsThreads
<1> QED  BY <1>1, <1>2, <1>3, <1>4, <1>5, <1>6 DEF Next

(* The continuation of a task is resumed at most once for each time it is   *)
(* suspended, however ends, cancellations, promises and calls interleave    *)
(* (effectFramesByRequest, waiters, applyContinuation): a task that waits   *)
(* has its request, and no task has two segments in progress.               *)
THEOREM OneShotAlways == Spec => []OneShot
<1>1. Init => TypeOK /\ Threads /\ Requests  BY InitTyped, InitThreads DEF TypeOK
<1>2. TypeOK /\ Threads /\ Requests /\ [Next]_vars => TypeOK' /\ Threads' /\ Requests'
  BY NextTyped, NextThreads DEF TypeOK, KeepsThreads
<1>3. TypeOK /\ Threads /\ Requests => OneShot
  <2> SUFFICES ASSUME NEW n \in 1..MaxTasks, Typed(n), Threads, Requests PROVE OneShot
    BY DEF TypeOK
  <2>1. ASSUME NEW i \in {k \in DOMAIN stack : stack[k].fn = "vm"},
               NEW j \in {k \in DOMAIN stack : stack[k].fn = "vm"},
               stack[i].task = stack[j].task
        PROVE  i = j
    <3>1. stack[i] \in Call(1..n) /\ stack[i].fn = "vm"  BY <2>1 DEF Typed
    <3>2. stack[i].task \in Spawned  BY <3>1, CallKinds, TypedStack DEF VmCall
    <3>3. PICK t \in Spawned : t = stack[i].task  BY <3>2
    <3>4. Code(stack[i], t) /\ Code(stack[j], t)  BY <2>1, <3>3 DEF Code
    <3> QED  BY <2>1, <3>3, <3>4 DEF Threads, Alone
  <2> QED  BY <2>1 DEF OneShot, Requests
<1> QED  BY <1>1, <1>2, <1>3, PTL DEF Spec

-----------------------------------------------------------------------------
(* What becomes of the records.  A task that has been looked at was claimed *)
(* or its capability is gone.                                               *)
Seen(task) == task.observed => task.claimed \/ ~task.live

(* What a step leaves of a record, but for the end of its task.             *)
Lasting(task, new) ==
  /\ new.owner = task.owner /\ new.detached = task.detached /\ new.terminal = task.terminal
  /\ new.state = "terminal" => task.state = "terminal"
  /\ task.observed => new.observed
  /\ task.reported => new.reported
  /\ new.live => task.live
  /\ Seen(task) => Seen(new)

RecordsLast ==
  /\ Spawned' = Spawned
  /\ \A x \in Spawned : Lasting(tasks[x], tasks'[x])

(* The end of t.                                                            *)
Ends(t, k) ==
  /\ Spawned' = Spawned
  /\ \A x \in Spawned : x # t => tasks'[x] = tasks[x]
  /\ tasks'[t].owner = tasks[t].owner /\ tasks'[t].detached = tasks[t].detached
  /\ tasks'[t].waiters = tasks[t].waiters /\ tasks'[t].promise = tasks[t].promise
  /\ tasks'[t].state = "terminal" /\ tasks'[t].terminal = k
  /\ ~tasks'[t].observed /\ ~tasks'[t].reported /\ tasks'[t].live = tasks[t].live

LEMMA Lasts ==
  ASSUME NEW ids, NEW task \in Task(ids)
  PROVE  /\ Lasting(task, task)
         /\ \A x, b : Lasting(task, [task EXCEPT !.raw = x, !.frame = b])
         /\ Lasting(task, [task EXCEPT !.resume = FALSE, !.frame = FALSE])
         /\ Lasting(task, [task EXCEPT !.resume = FALSE])
         /\ Lasting(task, [task EXCEPT !.fresh = FALSE])
         /\ Lasting(task, [task EXCEPT !.frame = FALSE])
         /\ Lasting(task, [task EXCEPT !.promise = FALSE])
         /\ Lasting(task, [task EXCEPT !.resume = TRUE, !.state = "ready"])
         /\ Lasting(task, [task EXCEPT !.state = "waiting", !.promise = TRUE])
         /\ Lasting(task, [task EXCEPT !.state = "waiting"])
         /\ Lasting(task, [task EXCEPT !.observed = TRUE, !.live = FALSE])
         /\ \A x : Lasting(task, [task EXCEPT !.raw = x, !.state = "ready"])
         /\ \A k : Lasting(task, [task EXCEPT !.state = "completing", !.completion = k])
         /\ \A b : task.live =>
              Lasting(task, [task EXCEPT !.claimed = TRUE, !.observed = TRUE, !.live = b])
         /\ \A W : Lasting(task, [task EXCEPT !.claimed = TRUE, !.waiters = W])
         /\ \A W : Lasting(task, [task EXCEPT !.waiters = W])
         /\ \A W : task.claimed => Lasting(task, [task EXCEPT !.observed = TRUE, !.waiters = W])
         /\ \A K : Lasting(task, [task EXCEPT !.knows = K])
<1>1. Lasting(task, task)  BY DEF Lasting
<1>2. \A x, b : Lasting(task, [task EXCEPT !.raw = x, !.frame = b])
  BY DEF Task, TaskRecord, Lasting, Seen
<1>3. /\ Lasting(task, [task EXCEPT !.resume = FALSE, !.frame = FALSE])
      /\ Lasting(task, [task EXCEPT !.resume = FALSE])
      /\ Lasting(task, [task EXCEPT !.fresh = FALSE])
      /\ Lasting(task, [task EXCEPT !.frame = FALSE])
      /\ Lasting(task, [task EXCEPT !.promise = FALSE])
  BY DEF Task, TaskRecord, Lasting, Seen
<1>4. /\ Lasting(task, [task EXCEPT !.resume = TRUE, !.state = "ready"])
      /\ Lasting(task, [task EXCEPT !.state = "waiting", !.promise = TRUE])
      /\ Lasting(task, [task EXCEPT !.state = "waiting"])
      /\ Lasting(task, [task EXCEPT !.observed = TRUE, !.live = FALSE])
  BY DEF Task, TaskRecord, Lasting, Seen
<1>5. /\ \A x : Lasting(task, [task EXCEPT !.raw = x, !.state = "ready"])
      /\ \A k : Lasting(task, [task EXCEPT !.state = "completing", !.completion = k])
  BY DEF Task, TaskRecord, Lasting, Seen
<1>6. /\ \A b : task.live =>
           Lasting(task, [task EXCEPT !.claimed = TRUE, !.observed = TRUE, !.live = b])
      /\ \A W : Lasting(task, [task EXCEPT !.claimed = TRUE, !.waiters = W])
  BY DEF Task, TaskRecord, Lasting, Seen
<1>7. /\ \A W : Lasting(task, [task EXCEPT !.waiters = W])
      /\ \A W : task.claimed => Lasting(task, [task EXCEPT !.observed = TRUE, !.waiters = W])
      /\ \A K : Lasting(task, [task EXCEPT !.knows = K])
  BY DEF Task, TaskRecord, Lasting, Seen
<1> QED  BY <1>1, <1>2, <1>3, <1>4, <1>5, <1>6, <1>7

LEMMA NotifiedLasts ==
  ASSUME NEW ids, NEW task \in Task(ids)
  PROVE  Lasting(task, Notified(task)) /\ Lasting(task, Reported(task))
<1>1. Lasting(task, Reported(task))
  BY DEF Reported, Task, TaskRecord, Lasting, Seen
<1>2. Lasting(task, Notified(task))
  BY DEF Notified, Task, TaskRecord, Lasting, Seen
<1> QED  BY <1>1, <1>2

LEMMA NoRecordChanges ==
  ASSUME NEW n \in 1..MaxTasks, Typed(n), UNCHANGED tasks
  PROVE  RecordsLast
BY DEF RecordsLast, Lasting, Spawned

LEMMA OneLasts ==
  ASSUME NEW n \in 1..MaxTasks, Typed(n), NEW m \in Spawned, NEW new,
         Lasting(tasks[m], new), tasks' = [tasks EXCEPT ![m] = new]
  PROVE  RecordsLast
<1>1. tasks'[m] = new /\ \A x \in Spawned : x # m => tasks'[x] = tasks[x]
  BY DEF Spawned, Typed
<1>2. Spawned' = Spawned  BY DEF Spawned, Typed
<1>3. ASSUME NEW x \in Spawned PROVE Lasting(tasks[x], tasks'[x])
  <2>1. CASE x = m  BY <1>1, <2>1
  <2>2. CASE x # m
    <3>1. tasks'[x] = tasks[x]  BY <1>1, <2>2
    <3> QED  BY <3>1 DEF Lasting
  <2> QED  BY <2>1, <2>2
<1> QED  BY <1>2, <1>3 DEF RecordsLast

(* The record of t changes and then that of w, which may be the same.       *)
LEMMA TwoLast ==
  ASSUME NEW n \in 1..MaxTasks, Typed(n), NEW t \in Spawned, NEW w \in Spawned,
         NEW a \in Task(1..n), Lasting(tasks[t], a),
         NEW told, told = [tasks EXCEPT ![t] = a],
         NEW b, Lasting(told[w], b), tasks' = [told EXCEPT ![w] = b]
  PROVE  RecordsLast
<1>1. tasks \in [1..n -> Task(1..n)] /\ Spawned = 1..n  BY TypedStack DEF Typed
<1>2. told \in [1..n -> Task(1..n)] /\ told[t] = a /\ \A x \in Spawned : x # t => told[x] = tasks[x]
  BY <1>1
<1>3. tasks'[w] = b /\ (\A x \in Spawned : x # w => tasks'[x] = told[x]) /\ Spawned' = Spawned
  BY <1>1, <1>2 DEF Spawned
<1>4. ASSUME NEW x \in Spawned PROVE Lasting(tasks[x], tasks'[x])
  <2>1. Lasting(tasks[x], told[x])
    <3>1. CASE x = t  BY <1>2, <3>1
    <3>2. CASE x # t
      <4>1. told[x] = tasks[x]  BY <1>2, <3>2
      <4> QED  BY <4>1, Zenon DEF Lasting
    <3> QED  BY <3>1, <3>2
  <2>2. Lasting(told[x], tasks'[x])
    <3>1. CASE x = w  BY <1>3, <3>1
    <3>2. CASE x # w
      <4>1. tasks'[x] = told[x]  BY <1>3, <3>2
      <4> QED  BY <4>1, Zenon DEF Lasting
    <3> QED  BY <3>1, <3>2
  <2> QED  BY <2>1, <2>2, Zenon DEF Lasting
<1> QED  BY <1>3, <1>4 DEF RecordsLast

LEMMA StepRecords ==
  ASSUME NEW n \in 1..MaxTasks, Typed(n), Step
  PROVE  RecordsLast
<1>1. CASE UNCHANGED tasks  BY <1>1, NoRecordChanges
<1>2. CASE StepPolls /\ tasks' # tasks
  <2> DEFINE t == Head(ready)
  <2>1. t \in 1..n  BY <1>2, Stacks DEF StepPolls, Typed
  <2>2. tasks[t] \in Task(1..n) /\ t \in Spawned  BY <2>1, TypedStack DEF Typed
  <2>3. \/ tasks' = [tasks EXCEPT ![t] = [tasks[t] EXCEPT !.raw = None, !.frame = (tasks[t].raw.op # "value")]]
        \/ tasks' = [tasks EXCEPT ![t] = [tasks[t] EXCEPT !.resume = FALSE, !.frame = FALSE]]
        \/ tasks' = [tasks EXCEPT ![t] = [tasks[t] EXCEPT !.resume = FALSE]]
        \/ tasks' = [tasks EXCEPT ![t] = [tasks[t] EXCEPT !.fresh = FALSE]]
    BY <1>2 DEF StepPolls, TakeIn
  <2> HIDE DEF t
  <2>4. \E new : Lasting(tasks[t], new) /\ tasks' = [tasks EXCEPT ![t] = new]
    BY <2>2, <2>3, Lasts, Zenon
  <2> QED  BY <2>2, <2>4, OneLasts
<1>3. StepPolls \/ UNCHANGED tasks  BY DEF Step, StepSettles, StepParks
<1> QED  BY <1>1, <1>2, <1>3

LEMMA ProgramRecords ==
  ASSUME NEW n \in 1..MaxTasks, Typed(n), Program, \A d \in BOOLEAN : ~Spawn(d)
  PROVE  RecordsLast
<1>1. CASE UNCHANGED tasks  BY <1>1, NoRecordChanges
<1>3. ASSUME NEW u \in Spawned, TakeValue(u) PROVE RecordsLast
  <2>1. u \in 1..n /\ tasks[u] \in Task(1..n)  BY TypedStack DEF Typed
  <2>2. tasks' = [tasks EXCEPT ![u] = [tasks[u] EXCEPT !.observed = TRUE, !.live = FALSE]]
    BY <1>3 DEF TakeValue
  <2>3. Lasting(tasks[u], [tasks[u] EXCEPT !.observed = TRUE, !.live = FALSE])
    BY <2>1, Lasts
  <2> QED  BY <2>1, <2>2, <2>3, OneLasts
<1>4. CASE VmReturns /\ tasks' # tasks
  <2> DEFINE t == Top.task
  <2>1. t \in 1..n  BY <1>4, TypedStack, CallKinds DEF VmReturns, OnTop, VmCall
  <2>2. tasks[t] \in Task(1..n) /\ t \in Spawned  BY <2>1, TypedStack DEF Typed
  <2>3. PICK outcome \in Outcomes(t) : tasks' = TakeIn(t, outcome) \/ Readied(t, outcome)
    BY <1>4, Zenon DEF VmReturns
  <2>4. \/ tasks' = [tasks EXCEPT ![t] = [tasks[t] EXCEPT !.raw = None, !.frame = (outcome.op # "value")]]
        \/ tasks' = [tasks EXCEPT ![t] = [tasks[t] EXCEPT !.raw = outcome, !.state = "ready"]]
    BY <2>3 DEF TakeIn, Readied
  <2> HIDE DEF t
  <2>5. \E new : Lasting(tasks[t], new) /\ tasks' = [tasks EXCEPT ![t] = new]
    BY <2>2, <2>4, Lasts, Zenon
  <2> QED  BY <2>2, <2>5, OneLasts
<1> QED  BY <1>1, <1>3, <1>4, Zenon DEF Program, CancelTask, VmTraps

LEMMA SuspendRecords ==
  ASSUME NEW n \in 1..MaxTasks, Typed(n), Suspend
  PROVE  RecordsLast
<1>1. CASE UNCHANGED tasks  BY <1>1, NoRecordChanges
<1>2. CASE WaitTask /\ tasks' # tasks
  <2>1. OnEffect("wait")  BY <1>2 DEF WaitTask
  <2>2. PICK t \in Spawned, u \in Spawned :
           /\ t = Top.task /\ u = Top.outcome.task /\ t \in 1..n /\ u \in 1..n
           /\ tasks \in [1..n -> Task(1..n)] /\ tasks[u] \in Task(1..n)
    BY <2>1, OnEffectTyped, TypedStack
  <2> DEFINE claim == [tasks EXCEPT ![u].claimed = TRUE]
  <2>3. CASE tasks' = [claim EXCEPT ![u].observed = TRUE,
                                    ![u].live = (tasks[u].terminal # "cancelled")]
    <3>1. PICK b : b = (tasks[u].terminal # "cancelled")  OBVIOUS
    <3> DEFINE new == [tasks[u] EXCEPT !.claimed = TRUE, !.observed = TRUE, !.live = b]
    <3>2. tasks' = [tasks EXCEPT ![u] = new]  BY <2>2, <2>3, <3>1
    <3>3. Lasting(tasks[u], new)
      <4>1. tasks[u].live  BY <1>2, <2>2, Zenon DEF WaitTask, Claimable
      <4> QED  BY <2>2, <4>1, Lasts
    <3> HIDE DEF new
    <3> QED  BY <3>2, <3>3, OneLasts
  <2>4. CASE tasks' = [claim EXCEPT ![u].waiters = @ \cup {t}, ![t].state = "waiting"]
    <3>1. PICK W \in SUBSET (1..n) : W = tasks[u].waiters \cup {t}
      BY <2>2 DEF Task, TaskRecord
    <3> DEFINE a == [tasks[u] EXCEPT !.claimed = TRUE, !.waiters = W]
               told == [tasks EXCEPT ![u] = a]
               b == [told[t] EXCEPT !.state = "waiting"]
    <3>2. a \in Task(1..n) /\ Lasting(tasks[u], a)
      <4>1. a \in Task(1..n)  BY <2>2, WaitersTyped
      <4>2. Lasting(tasks[u], a)  BY <2>2, Lasts
      <4> QED  BY <4>1, <4>2
    <3>3. tasks' = [told EXCEPT ![t].state = "waiting"]
      <4>1. tasks' = [[claim EXCEPT ![u].waiters = @ \cup {t}] EXCEPT ![t].state = "waiting"]
        BY <2>4
      <4>2. [claim EXCEPT ![u].waiters = @ \cup {t}] = told  BY <2>2, <3>1
      <4> HIDE DEF claim, told
      <4> QED  BY <4>1, <4>2
    <3>4. tasks' = [told EXCEPT ![t] = b]
      <4> HIDE DEF told
      <4> QED  BY <3>3
    <3>5. told[t] \in Task(1..n)
      <4> HIDE DEF a
      <4> QED  BY <2>2, <3>2
    <3>6. Lasting(told[t], b)
      <4> HIDE DEF told
      <4> QED  BY <3>5, Lasts
    <3>7. PICK m : m = told  OBVIOUS
    <3>8. PICK c : c = b  OBVIOUS
    <3>9. m = [tasks EXCEPT ![u] = a] /\ Lasting(m[t], c) /\ tasks' = [m EXCEPT ![t] = c]
      <4>1. m = [tasks EXCEPT ![u] = a]  BY <3>7
      <4> HIDE DEF a, told, b
      <4> QED  BY <3>4, <3>6, <3>7, <3>8, <4>1
    <3> HIDE DEF a, told, b
    <3> QED  BY <3>2, <3>9, TwoLast
  <2> QED  BY <1>2, <2>2, <2>3, <2>4 DEF WaitTask
<1>3. CASE YieldOnce
  <2> DEFINE t == Top.task
  <2>1. t \in Spawned /\ tasks[t] \in Task(1..n)
    BY <1>3, OnEffectTyped, TypedStack DEF YieldOnce
  <2>2. tasks' = [tasks EXCEPT ![t] = [tasks[t] EXCEPT !.resume = TRUE, !.state = "ready"]]
    BY <1>3 DEF YieldOnce
  <2>3. Lasting(tasks[t], [tasks[t] EXCEPT !.resume = TRUE, !.state = "ready"])
    BY <2>1, Lasts
  <2> QED  BY <2>1, <2>2, <2>3, OneLasts
<1>4. CASE FailureMessage /\ tasks' # tasks
  <2> DEFINE u == Top.outcome.task
  <2>1. u \in Spawned /\ tasks[u] \in Task(1..n)
    BY <1>4, OnEffectTyped, TypedStack DEF FailureMessage
  <2>2. tasks' = [tasks EXCEPT ![u] = [tasks[u] EXCEPT !.observed = TRUE, !.live = FALSE]]
    BY <1>4 DEF FailureMessage
  <2>3. Lasting(tasks[u], [tasks[u] EXCEPT !.observed = TRUE, !.live = FALSE])
    BY <2>1, Lasts
  <2> QED  BY <2>1, <2>2, <2>3, OneLasts
<1> QED  BY <1>1, <1>2, <1>3, <1>4, Zenon DEF Suspend, TaskReturns, CallHandler

LEMMA HostRecords ==
  ASSUME NEW n \in 1..MaxTasks, Typed(n), Host
  PROVE  RecordsLast
<1>1. CASE UNCHANGED tasks  BY <1>1, NoRecordChanges
<1>2. CASE HandlerReturns /\ tasks' # tasks
  <2> DEFINE t == Top.task
  <2>1. t \in Spawned /\ tasks[t] \in Task(1..n)  BY <1>2, OnCallTyped DEF HandlerReturns
  <2>2. tasks' = [tasks EXCEPT ![t] = [tasks[t] EXCEPT !.state = "waiting", !.promise = TRUE]]
    BY <1>2 DEF HandlerReturns
  <2>3. Lasting(tasks[t], [tasks[t] EXCEPT !.state = "waiting", !.promise = TRUE])
    BY <2>1, Lasts
  <2> QED  BY <2>1, <2>2, <2>3, OneLasts
<1>3. ASSUME NEW t \in Spawned, PromiseSettles(t) PROVE RecordsLast
  <2>1. tasks[t] \in Task(1..n)  BY TypedStack DEF Typed
  <2>2. tasks' = [tasks EXCEPT ![t] = [tasks[t] EXCEPT !.promise = FALSE]]
    BY <1>3 DEF PromiseSettles
  <2>3. Lasting(tasks[t], [tasks[t] EXCEPT !.promise = FALSE])  BY <2>1, Lasts
  <2> QED  BY <2>1, <2>2, <2>3, OneLasts
<1>4. ASSUME NEW u \in Spawned, ObserveTask(u) PROVE RecordsLast
  <2>1. tasks[u] \in Task(1..n)  BY TypedStack DEF Typed
  <2> DEFINE new == [tasks[u] EXCEPT !.claimed = TRUE,
                 !.observer = IF tasks[u].terminal = "none" THEN "waiting" ELSE tasks[u].terminal,
                 !.observed = @ \/ tasks[u].terminal # "none",
                 !.live = (tasks[u].terminal = "none")]
  <2>2. tasks' = [tasks EXCEPT ![u] = new]  BY <2>1, <1>4 DEF ObserveTask
  <2>3. Lasting(tasks[u], new)
    <3>1. tasks[u].live  BY <1>4 DEF ObserveTask, Claimable
    <3> QED  BY <2>1, <3>1 DEF Task, TaskRecord, Lasting, Seen
  <2> QED  BY <2>1, <2>2, <2>3, OneLasts
<1> QED  BY <1>1, <1>2, <1>3, <1>4, Zenon DEF Host, RunCancel

(* Every other step of the runtime, completeTask and cancelTaskById before  *)
(* the end of their task and after it.                                      *)
LEMMA RuntimeRecords ==
  ASSUME NEW n \in 1..MaxTasks, Typed(n), Claims, Runtime,
         ~CompleteDecides, ~OwnerCompletes, ~CancelTerminates
  PROVE  RecordsLast
<1>1. CASE UNCHANGED tasks  BY <1>1, NoRecordChanges
<1>2. CASE ApplyContinuation \/ CompleteEntry
  <2>1. PICK t \in Spawned : t = Top.task /\ tasks[t] \in Task(1..n)
    BY <1>2, OnCallTyped DEF ApplyContinuation, CompleteEntry
  <2>2. tasks' = [tasks EXCEPT ![t] = [tasks[t] EXCEPT !.frame = FALSE]]
    BY <1>2, <2>1 DEF ApplyContinuation, CompleteEntry
  <2>3. Lasting(tasks[t], [tasks[t] EXCEPT !.frame = FALSE])  BY <2>1, Lasts
  <2> QED  BY <2>1, <2>2, <2>3, OneLasts
<1>3. CASE SettleResumesWaiter \/ CancelResumesWaiter
  <2>1. PICK t \in Spawned : t = Top.task /\ tasks[t] \in Task(1..n) /\ tasks \in [1..n -> Task(1..n)]
    BY <1>3, OnCallTyped DEF SettleResumesWaiter, CancelResumesWaiter
  <2>2. PICK w \in tasks[t].waiters :
           \/ tasks' = [tasks EXCEPT ![t].observed = TRUE, ![t].waiters = @ \ {w}, ![w].frame = FALSE]
           \/ tasks' = [tasks EXCEPT ![t].waiters = @ \ {w}, ![w].frame = FALSE]
    BY <1>3, <2>1, Zenon DEF SettleResumesWaiter, CancelResumesWaiter
  <2>3. w \in Spawned /\ Spawned = 1..n  BY <2>1, TypedStack DEF Task, TaskRecord
  <2>4. tasks[t].claimed  BY <2>1, <2>2 DEF Claims, Claim
  <2>5. PICK W \in SUBSET (1..n) : W = tasks[t].waiters \ {w}  BY <2>1 DEF Task, TaskRecord
  <2>6. PICK a \in Task(1..n) :
           /\ Lasting(tasks[t], a)
           /\ tasks' = [[tasks EXCEPT ![t] = a] EXCEPT ![w].frame = FALSE]
    <3>1. CASE tasks' = [tasks EXCEPT ![t].observed = TRUE, ![t].waiters = @ \ {w}, ![w].frame = FALSE]
      <4> DEFINE a == [tasks[t] EXCEPT !.observed = TRUE, !.waiters = W]
      <4>1. a \in Task(1..n)  BY <2>1, WaitersTyped
      <4>2. Lasting(tasks[t], a)  BY <2>1, <2>4, Lasts
      <4>3. [tasks EXCEPT ![t].observed = TRUE, ![t].waiters = @ \ {w}] = [tasks EXCEPT ![t] = a]
        BY <2>1, <2>3, <2>5
      <4>4. tasks' = [[tasks EXCEPT ![t].observed = TRUE, ![t].waiters = @ \ {w}] EXCEPT ![w].frame = FALSE]
        BY <3>1
      <4> HIDE DEF a
      <4> QED  BY <4>1, <4>2, <4>3, <4>4, Zenon
    <3>2. CASE tasks' = [tasks EXCEPT ![t].waiters = @ \ {w}, ![w].frame = FALSE]
      <4> DEFINE a == [tasks[t] EXCEPT !.waiters = W]
      <4>1. a \in Task(1..n)  BY <2>1, WaitersTyped
      <4>2. Lasting(tasks[t], a)  BY <2>1, Lasts
      <4>3. [tasks EXCEPT ![t].waiters = @ \ {w}] = [tasks EXCEPT ![t] = a]
        BY <2>1, <2>3, <2>5
      <4>4. tasks' = [[tasks EXCEPT ![t].waiters = @ \ {w}] EXCEPT ![w].frame = FALSE]
        BY <3>2
      <4> HIDE DEF a
      <4> QED  BY <4>1, <4>2, <4>3, <4>4, Zenon
    <3> QED  BY <2>2, <3>1, <3>2
  <2>7. PICK told \in [1..n -> Task(1..n)] : told = [tasks EXCEPT ![t] = a]
    <3>1. [tasks EXCEPT ![t] = a] \in [1..n -> Task(1..n)]  BY <2>1, <2>3
    <3> QED  BY <3>1
  <2>8. PICK b : b = [told[w] EXCEPT !.frame = FALSE]  OBVIOUS
  <2>9. Lasting(told[w], b)
    <3>1. told[w] \in Task(1..n)  BY <2>3, <2>7
    <3> QED  BY <2>8, <3>1, Lasts
  <2>10. tasks' = [told EXCEPT ![w] = b]  BY <2>6, <2>7, <2>8
  <2> QED  BY <2>3, <2>6, <2>7, <2>9, <2>10, TwoLast
<1>4. CASE SettleNotifies \/ SinkReturns \/ CancelNotifies
  <2>1. PICK t \in Spawned : t = Top.task /\ tasks[t] \in Task(1..n) /\ tasks \in [1..n -> Task(1..n)]
    BY <1>4, OnCallTyped DEF SettleNotifies, SinkReturns, CancelNotifies
  <2>2. \/ tasks' = [tasks EXCEPT ![t] = Reported(tasks[t])]
        \/ tasks' = [tasks EXCEPT ![t] = Notified(tasks[t])]
    BY <1>4, <2>1 DEF SettleNotifies, SinkReturns, CancelNotifies, Reported
  <2>3. Lasting(tasks[t], Notified(tasks[t])) /\ Lasting(tasks[t], Reported(tasks[t]))
    BY <2>1, NotifiedLasts
  <2> QED  BY <2>1, <2>2, <2>3, OneLasts
<1>5. CompleteCancelsChild \/ CancelCancelsChild \/ SettleFinishes \/ CancelFinishes \/ CancelAll
        => UNCHANGED tasks
  BY DEF CompleteCancelsChild, CancelCancelsChild, SettleFinishes, CancelFinishes, CancelAll
<1> QED  BY <1>1, <1>2, <1>3, <1>4, <1>5, Zenon DEF Runtime

LEMMA TerminateEnds ==
  ASSUME NEW n \in 1..MaxTasks, Typed(n), NEW t \in Spawned, NEW kind, Terminate(t, kind)
  PROVE  \E k \in TerminalKinds(t, kind) : Ends(t, k)
<1>1. PICK k \in TerminalKinds(t, kind) :
         tasks' = [tasks EXCEPT ![t].state = "terminal", ![t].terminal = k,
                     ![t].observed = FALSE, ![t].reported = FALSE,
                     ![t].completion = "none", ![t].resume = FALSE]
  BY DEF Terminate
<1>2. tasks[t] \in Task(1..n) /\ tasks \in [1..n -> Task(1..n)] /\ Spawned = 1..n
  BY TypedStack DEF Typed
<1> DEFINE r == [tasks[t] EXCEPT !.state = "terminal", !.terminal = k,
                     !.observed = FALSE, !.reported = FALSE,
                     !.completion = "none", !.resume = FALSE]
<1>3. tasks' = [tasks EXCEPT ![t] = r]  BY <1>1
<1>4. /\ r.owner = tasks[t].owner /\ r.detached = tasks[t].detached
      /\ r.waiters = tasks[t].waiters /\ r.promise = tasks[t].promise
      /\ r.live = tasks[t].live
  BY <1>2 DEF Task, TaskRecord
<1>5. r.state = "terminal" /\ r.terminal = k /\ ~r.observed /\ ~r.reported
  BY <1>2 DEF Task, TaskRecord
<1> HIDE DEF r
<1>6. /\ Spawned' = Spawned /\ tasks'[t] = r
      /\ \A x \in Spawned : x # t => tasks'[x] = tasks[x]
  BY <1>2, <1>3 DEF Spawned
<1>7. Ends(t, k)  BY <1>4, <1>5, <1>6, Zenon DEF Ends
<1> QED  BY <1>7

LEMMA CancelEnds ==
  ASSUME NEW n \in 1..MaxTasks, Typed(n), CancelTerminates
  PROVE  Top.task \in Spawned /\ Ends(Top.task, "cancelled")
<1>1. PICK t \in Spawned :
         t = Top.task /\ t \in 1..n /\ tasks[t] \in Task(1..n) /\ tasks \in [1..n -> Task(1..n)]
  BY OnCallTyped DEF CancelTerminates
<1> DEFINE r == [tasks[t] EXCEPT !.state = "terminal", !.terminal = "cancelled",
                     !.observed = FALSE, !.reported = FALSE, !.raw = None, !.resume = FALSE,
                     !.completion = "none"]
<1>2. tasks' = [tasks EXCEPT ![t] = r]  BY <1>1 DEF CancelTerminates
<1>3. /\ r.owner = tasks[t].owner /\ r.detached = tasks[t].detached
      /\ r.waiters = tasks[t].waiters /\ r.promise = tasks[t].promise
      /\ r.live = tasks[t].live
  BY <1>1 DEF Task, TaskRecord
<1>4. r.state = "terminal" /\ r.terminal = "cancelled" /\ ~r.observed /\ ~r.reported
  BY <1>1 DEF Task, TaskRecord
<1> HIDE DEF r
<1>5. /\ Spawned' = Spawned /\ tasks'[t] = r
      /\ \A x \in Spawned : x # t => tasks'[x] = tasks[x]
  BY <1>1, <1>2 DEF Spawned
<1>6. Ends(t, "cancelled")  BY <1>3, <1>4, <1>5, Zenon DEF Ends
<1> QED  BY <1>1, <1>6

(* How t ends of itself: its code, or its last child's end, completes it.   *)
Decides(t, k) ==
  /\ Code(Top, t) \/ tasks[t].state = "completing"
  /\ \A c \in Children(t) : ~Live(c)
  /\ k = "value" => ~UnobservedFailure(t)
  /\ Ends(t, k)
  /\ ready' = ready
  /\ stack # <<>> /\ Become([fn |-> "settle", task |-> t, at |-> "waiters"])

(* The code of t spawns a task.                                             *)
Spawns(t, new) ==
  /\ OnTop("vm") /\ Top.task = t /\ Code(Top, t)
  /\ new \notin Spawned /\ Spawned' = Spawned \cup {new}
  /\ \A x \in Spawned : Lasting(tasks[x], tasks'[x])
  /\ \A x \in Spawned : /\ tasks'[x].state = tasks[x].state
                         /\ tasks'[x].completion = tasks[x].completion
                         /\ tasks'[x].waiters = tasks[x].waiters
  /\ tasks'[new].terminal = "none" /\ tasks'[new].state = "ready" /\ ~tasks'[new].observed
  /\ tasks'[new].waiters = {}
  /\ \/ tasks'[new].owner = TheRun /\ tasks'[new].detached
     \/ tasks'[new].owner = t /\ ~tasks'[new].detached
  /\ UNCHANGED <<public, final, stack>>

LEMMA TerminateDecides ==
  ASSUME NEW n \in 1..MaxTasks, Typed(n), NEW t \in Spawned, NEW kind \in Completion,
         Terminate(t, kind), stack # <<>>, Code(Top, t) \/ tasks[t].state = "completing",
         ~\E c \in Children(t) : Live(c), ready' = ready
  PROVE  \E k \in Completion : Decides(t, k)
<1>1. PICK k \in TerminalKinds(t, kind) : Ends(t, k)  BY TerminateEnds
<1>2. k \in Completion /\ (k = "value" => ~UnobservedFailure(t))
  BY <1>1 DEF TerminalKinds, Completion
<1>3. Become([fn |-> "settle", task |-> t, at |-> "waiters"])  BY DEF Terminate
<1>4. Decides(t, k)  BY <1>1, <1>2, <1>3 DEF Decides
<1> QED  BY <1>2, <1>4

LEMMA CompleteRecords ==
  ASSUME NEW n \in 1..MaxTasks, Typed(n), CompleteDecides
  PROVE  RecordsLast \/ \E t \in Spawned, k \in Completion : Decides(t, k)
<1>1. OnTop("complete")  BY DEF CompleteDecides
<1>2. PICK t \in Spawned : t = Top.task /\ Code(Top, t) /\ stack # <<>> /\ tasks[t] \in Task(1..n)
  BY <1>1, CodeOnTop
<1>3. Top.kind \in Completion  BY <1>1, OnCallTyped DEF CompleteCall
<1>4. CASE \E c \in Children(t) : Live(c)
  <2> DEFINE r == [tasks[t] EXCEPT !.state = "completing", !.completion = Top.kind]
  <2>1. tasks' = [tasks EXCEPT ![t] = r]  BY <1>2, <1>4 DEF CompleteDecides
  <2>2. Lasting(tasks[t], r)  BY <1>2, Lasts
  <2> QED  BY <1>2, <2>1, <2>2, OneLasts
<1>5. CASE ~\E c \in Children(t) : Live(c)
  <2>1. Terminate(t, Top.kind) /\ ready' = ready  BY <1>2, <1>5, Zenon DEF CompleteDecides
  <2> QED  BY <1>2, <1>3, <1>5, <2>1, TerminateDecides
<1> QED  BY <1>4, <1>5

LEMMA OwnerRecords ==
  ASSUME NEW n \in 1..MaxTasks, Typed(n), OwnerCompletes
  PROVE  RecordsLast \/ \E t \in Spawned, k \in Completion : Decides(t, k)
<1>1. OnTop("owner") /\ ready' = ready  BY DEF OwnerCompletes
<1>2. PICK t \in Spawned : t = Top.task /\ stack # <<>> /\ tasks[t] \in Task(1..n)
  BY <1>1, OnCallTyped
<1>3. CASE UNCHANGED tasks  BY <1>3, NoRecordChanges
<1>4. CASE ~UNCHANGED tasks
  <2>1. /\ tasks[t].state = "completing" /\ tasks[t].completion # "none"
        /\ ~\E c \in Children(t) : Live(c)
        /\ Terminate(t, tasks[t].completion)
    BY <1>2, <1>4, Zenon DEF OwnerCompletes
  <2>2. tasks[t].completion \in Completion  BY <1>2, <2>1 DEF Task, TaskRecord
  <2> QED  BY <1>1, <1>2, <2>1, <2>2, TerminateDecides
<1> QED  BY <1>3, <1>4

LEMMA SpawnRecords ==
  ASSUME NEW n \in 1..MaxTasks, Typed(n), NEW isDetached \in BOOLEAN, Spawn(isDetached)
  PROVE  \E t \in Spawned, new \in {n + 1} : Spawns(t, new)
<1>1. n \in Nat /\ tasks \in [1..n -> Task(1..n)] /\ Spawned = 1..n
  BY TypedStack DEF Typed
<1>2. PICK t \in Spawned : t = Top.task /\ Code(Top, t)  BY CodeOnTop DEF Spawn
<1>3. Len(tasks) = n
  <2>1. tasks \in Seq(Task(1..n))  BY <1>1, SeqDef
  <2>2. Len(tasks) \in Nat /\ 1..Len(tasks) = 1..n  BY <1>1, <2>1, LenProperties
  <2> QED  BY <1>1, <2>2, SameInterval
<1> DEFINE new == n + 1
<1>4. PICK K : K = tasks[t].knows \cup {new}  OBVIOUS
<1> DEFINE spawner == [tasks[t] EXCEPT !.knows = K]
           child == NewTask(IF isDetached THEN TheRun ELSE t, isDetached, tasks[t].knows, TRUE)
           old == [tasks EXCEPT ![t] = spawner]
<1>5. tasks' = Append(old, child)
  <2>1. [tasks EXCEPT ![t].knows = @ \cup {new}] = old  BY <1>1, <1>4
  <2> HIDE DEF old, child
  <2> QED  BY <1>2, <1>3, <2>1 DEF Spawn, child
<1>6. /\ Lasting(tasks[t], spawner)
      /\ spawner.state = tasks[t].state /\ spawner.completion = tasks[t].completion
      /\ spawner.waiters = tasks[t].waiters
  <2>1. tasks[t] \in Task(1..n)  BY <1>1
  <2>2. Lasting(tasks[t], spawner)  BY <2>1, Lasts
  <2>3. /\ spawner.state = tasks[t].state /\ spawner.completion = tasks[t].completion
        /\ spawner.waiters = tasks[t].waiters
    BY <2>1 DEF Task, TaskRecord
  <2> QED  BY <2>2, <2>3
<1>7. /\ child.terminal = "none" /\ child.state = "ready" /\ ~child.observed /\ child.waiters = {}
      /\ \/ child.owner = TheRun /\ child.detached
         \/ child.owner = t /\ ~child.detached
  BY DEF NewTask
<1>8. Spawned' = Spawned \cup {new} /\ new \notin Spawned
  <2>1. n + 1 \in 1..MaxTasks /\ Typed(n + 1)'  BY SpawnTyped
  <2>2. Spawned' = 1..n + 1  BY <2>1 DEF Spawned, Typed
  <2> QED  BY <1>1, <2>2
<1> HIDE DEF spawner, child
<1>9. tasks'[new] = child /\ tasks'[t] = spawner /\ \A x \in Spawned : x # t => tasks'[x] = tasks[x]
  <2> DEFINE S == {tasks[x] : x \in 1..n} \cup {spawner, child}
  <2>1. old \in [1..n -> S] /\ old[t] = spawner /\ \A x \in 1..n : x # t => old[x] = tasks[x]
    BY <1>1
  <2> HIDE DEF old, S
  <2>2. old \in Seq(S)  BY <1>1, <2>1, SeqDef
  <2>3. Len(old) = n
    <3>1. Len(old) \in Nat /\ 1..Len(old) = 1..n  BY <2>1, <2>2, LenProperties
    <3> QED  BY <1>1, <3>1, SameInterval
  <2>4. child \in S  BY DEF S
  <2>5. /\ \A x \in 1..n : Append(old, child)[x] = old[x]
        /\ Append(old, child)[n + 1] = child
    BY <2>2, <2>3, <2>4, AppendProperties
  <2> QED  BY <1>1, <1>5, <2>1, <2>5
<1>10. ASSUME NEW x \in Spawned
       PROVE  /\ Lasting(tasks[x], tasks'[x])
              /\ tasks'[x].state = tasks[x].state /\ tasks'[x].completion = tasks[x].completion
              /\ tasks'[x].waiters = tasks[x].waiters
  <2>1. CASE x = t  BY <1>6, <1>9, <2>1
  <2>2. CASE x # t
    <3>1. tasks'[x] = tasks[x]  BY <1>9, <2>2
    <3> QED  BY <3>1 DEF Lasting
  <2> QED  BY <2>1, <2>2
<1>11. /\ tasks'[new].terminal = "none" /\ tasks'[new].state = "ready" /\ ~tasks'[new].observed
       /\ tasks'[new].waiters = {}
       /\ \/ tasks'[new].owner = TheRun /\ tasks'[new].detached
          \/ tasks'[new].owner = t /\ ~tasks'[new].detached
  <2> HIDE DEF new
  <2> QED  BY <1>7, <1>9, Zenon
<1>12. OnTop("vm") /\ UNCHANGED <<public, final, stack>>  BY DEF Spawn
<1>13. Spawns(t, new)
  <2> HIDE DEF new
  <2> QED  BY <1>2, <1>8, <1>10, <1>11, <1>12, Zenon DEF Spawns
<1> QED  BY <1>13

(* What becomes of the records in a step.                                   *)
LEMMA NextRecords ==
  ASSUME NEW n \in 1..MaxTasks, Typed(n), Claims, [Next]_vars
  PROVE  \/ RecordsLast
         \/ \E t \in Spawned, k \in Completion : Decides(t, k)
         \/ CancelTerminates /\ Top.task \in Spawned /\ Ends(Top.task, "cancelled")
         \/ \E t \in Spawned, new \in {n + 1} : Spawns(t, new)
<1>1. CASE UNCHANGED vars  BY <1>1, NoRecordChanges DEF vars
<1>2. CASE Program
  <2>1. CASE \E d \in BOOLEAN : Spawn(d)  BY <2>1, SpawnRecords
  <2>2. CASE \A d \in BOOLEAN : ~Spawn(d)  BY <1>2, <2>2, ProgramRecords
  <2> QED  BY <2>1, <2>2
<1>3. CASE Runtime
  BY <1>3, RuntimeRecords, CompleteRecords, OwnerRecords, CancelEnds, Zenon
<1> QED  BY <1>1, <1>2, <1>3, StepRecords, SuspendRecords, HostRecords DEF Next

(* What a step leaves of the calls in progress.                             *)
LEMMA UnderStays ==
  ASSUME NEW n \in 1..MaxTasks, Typed(n), NEW c, In(stack, c)
  PROVE  /\ \A e : Push(e) => In(stack', c)
         /\ c # Top => /\ Pop => In(stack', c)
                       /\ \A e : Become(e) => In(stack', c)
                       /\ \A told, a, e :
                            stack' = (IF told THEN <<a>> ELSE <<>>) \o <<e>> \o Tail(stack)
                              => In(stack', c)
<1>1. stack \in Seq(Call(1..n)) /\ stack # <<>>
  <2>1. stack # <<>>  BY DEF In
  <2> QED  BY <2>1 DEF Typed
<1>2. Tail(stack) \in Seq(Call(1..n)) /\ (c # Top => In(Tail(stack), c))
  BY <1>1, TailIn, HeadTailProperties DEF Top
<1>3. ASSUME NEW e, Push(e) PROVE In(stack', c)
  <2>1. <<e>> \in Seq({e})  OBVIOUS
  <2> QED  BY <1>1, <1>3, <2>1, ConcatIn DEF Push
<1>4. ASSUME NEW e, Become(e), c # Top PROVE In(stack', c)
  <2>1. <<e>> \in Seq({e})  OBVIOUS
  <2> QED  BY <1>2, <1>4, <2>1, ConcatIn DEF Become
<1>5. ASSUME NEW told, NEW a, NEW e, c # Top,
             stack' = (IF told THEN <<a>> ELSE <<>>) \o <<e>> \o Tail(stack)
      PROVE  In(stack', c)
  <2> DEFINE first == IF told THEN <<a>> ELSE <<>>
  <2>1. <<a>> \in Seq({a, e}) /\ <<>> \in Seq({a, e}) /\ <<e>> \in Seq({a, e})
    BY EmptySeq
  <2>2. first \in Seq({a, e})  BY <2>1
  <2> HIDE DEF first
  <2>3. first \o <<e>> \in Seq({a, e})  BY <2>1, <2>2, ConcatProperties
  <2>4. PICK front \in Seq({a, e}) : stack' = front \o Tail(stack)  BY <1>5, <2>3 DEF first
  <2>5. In(Tail(stack), c)  BY <1>2, <1>5
  <2>6. In(front \o Tail(stack), c)  BY <1>2, <2>5, ConcatIn
  <2> QED  BY <2>4, <2>6
<1>6. Pop /\ c # Top => In(stack', c)  BY <1>2 DEF Pop
<1> QED  BY <1>3, <1>4, <1>5, <1>6

(* Only a call's own step ends it.                                          *)
LEMMA CallsStay ==
  ASSUME NEW n \in 1..MaxTasks, Typed(n), NEW c, In(stack, c), c # Top, [Next]_vars
  PROVE  In(stack', c)
<1>1. \/ UNCHANGED stack \/ Pop
      \/ \E e : Push(e) \/ Become(e)
      \/ \E told, a, e : stack' = (IF told THEN <<a>> ELSE <<>>) \o <<e>> \o Tail(stack)
  <2>1. CASE Step  BY <2>1 DEF Step, StepSettles, StepParks, StepPolls
  <2>2. CASE Program  BY <2>2 DEF Program, Spawn, CancelTask, TakeValue, VmReturns, VmTraps
  <2>3. CASE Suspend
    BY <2>3 DEF Suspend, TaskReturns, WaitTask, YieldOnce, FailureMessage, CallHandler
  <2>4. CASE Runtime
    <3>1. CASE \/ CompleteCancelsChild \/ CancelCancelsChild
               \/ SettleNotifies \/ SinkReturns \/ CancelNotifies \/ CancelAll
      BY <3>1, Zenon DEF CompleteCancelsChild, CancelCancelsChild, SettleNotifies, SinkReturns,
         CancelNotifies, CancelAll, VisitChild, TellOwner
    <3>2. CASE ApplyContinuation \/ CompleteEntry \/ CompleteDecides \/ OwnerCompletes
      BY <3>2 DEF ApplyContinuation, CompleteEntry, CompleteDecides, OwnerCompletes, Terminate
    <3>3. CASE SettleResumesWaiter \/ CancelResumesWaiter \/ SettleFinishes \/ CancelFinishes \/ CancelTerminates
      BY <3>3 DEF SettleResumesWaiter, CancelResumesWaiter, SettleFinishes, CancelFinishes,
         CancelTerminates
    <3> QED  BY <2>4, <3>1, <3>2, <3>3 DEF Runtime
  <2>5. CASE Host  BY <2>5 DEF Host, HandlerReturns, RunCancel, PromiseSettles, ObserveTask
  <2>6. CASE UNCHANGED vars  BY <2>6 DEF vars
  <2> QED  BY <2>1, <2>2, <2>3, <2>4, <2>5, <2>6 DEF Next
<1>2. CASE UNCHANGED stack  BY <1>2
<1>3. CASE ~UNCHANGED stack  BY <1>1, <1>3, UnderStays, Zenon
<1> QED  BY <1>2, <1>3

(* The end of t is being settled, and its failure has not been reported.    *)
SettleOf(t) == [fn |-> "settle", task |-> t, at |-> "waiters"]
SinkOf(t) == [fn |-> "settle", task |-> t, at |-> "sink"]
Settling(t) == In(stack, SettleOf(t)) \/ In(stack, SinkOf(t))

Told ==
  \A t \in Spawned :
    /\ Seen(tasks[t])
    /\ tasks[t].detached /\ tasks[t].terminal = "failed" =>
         tasks[t].reported \/ tasks[t].observed \/ Settling(t)

LEMMA SettlingStays ==
  ASSUME NEW n \in 1..MaxTasks, Typed(n), NEW t \in Spawned, Settling(t), [Next]_vars
  PROVE  Settling(t)' \/ ((SettleNotifies \/ SinkReturns) /\ Top.task = t)
<1> SUFFICES ASSUME NEW c \in {SettleOf(t), SinkOf(t)}, In(stack, c)
             PROVE  Settling(t)' \/ ((SettleNotifies \/ SinkReturns) /\ Top.task = t)
  BY DEF Settling
<1>0. In(stack', c) => Settling(t)'  BY DEF Settling, SettleOf, SinkOf
<1>1. CASE c # Top  BY <1>0, <1>1, CallsStay
<1>2. CASE c = Top
  <2>1. OnTop("settle") /\ Top.at \in {"waiters", "sink"} /\ Top.task = t
    BY <1>2 DEF SettleOf, SinkOf, OnTop, In
  <2>2. CASE \E e : Push(e)  BY <1>0, <2>2, UnderStays
  <2>3. CASE UNCHANGED stack  BY <1>0, <2>3 DEF In
  <2>4. Step \/ Program \/ Suspend \/ Runtime \/ Host \/ UNCHANGED vars  BY DEF Next
  <2>5. ~Step  BY <2>1 DEF OnTop, Step, StepSettles, StepParks, StepPolls
  <2>6. ~Program  BY <2>1 DEF OnTop, Program, Spawn, CancelTask, TakeValue, VmReturns, VmTraps
  <2>7. ~Suspend
    BY <2>1 DEF OnTop, OnEffect, Suspend, TaskReturns, WaitTask, YieldOnce, FailureMessage, CallHandler
  <2>8. Host => UNCHANGED stack \/ \E e : Push(e)
    BY <2>1 DEF OnTop, Host, HandlerReturns, RunCancel, PromiseSettles, ObserveTask
  <2>9. Runtime => SettleResumesWaiter \/ SettleNotifies \/ SinkReturns
    BY <2>1 DEF OnTop, Runtime, ApplyContinuation, CompleteEntry, CompleteCancelsChild,
         CompleteDecides, OwnerCompletes, SettleFinishes, CancelCancelsChild, CancelTerminates,
         CancelResumesWaiter, CancelNotifies, CancelFinishes, CancelAll
  <2>10. SettleResumesWaiter => \E e : Push(e)  BY DEF SettleResumesWaiter
  <2>11. UNCHANGED vars => UNCHANGED stack  BY DEF vars
  <2> QED
    BY <2>1, <2>2, <2>3, <2>4, <2>5, <2>6, <2>7, <2>8, <2>9, <2>10, <2>11
<1> QED  BY <1>1, <1>2

LEMMA InitTold == Init => Told
<1> SUFFICES ASSUME Init PROVE Told
  OBVIOUS
<1> DEFINE root == NewTask(TheRun, FALSE, {}, FALSE)
<1>1. ~root.observed /\ ~root.detached  BY DEF NewTask
<1>2. tasks = <<root>>  BY DEF Init
<1> HIDE DEF root
<1>3. Spawned = {1} /\ tasks[1] = root  BY <1>2 DEF Spawned
<1> QED  BY <1>1, <1>3 DEF Told, Seen

(* The first call of a step.                                                *)
LEMMA FirstIn ==
  ASSUME NEW n \in 1..MaxTasks, Typed(n), NEW e, NEW rest \in Seq(Call(1..n)), stack' = <<e>> \o rest
  PROVE  In(stack', e)
<1>1. <<e>> \in Seq({e}) /\ In(<<e>>, e)
  <2>1. DOMAIN <<e>> = {1} /\ <<e>>[1] = e  OBVIOUS
  <2> QED  BY <2>1 DEF In
<1> QED  BY <1>1, ConcatIn

(* The report of a failure nobody has observed.                             *)
LEMMA NotifiesReports ==
  ASSUME NEW n \in 1..MaxTasks, Typed(n), NEW t \in Spawned, Top.task = t,
         SettleNotifies \/ SinkReturns, tasks'[t].detached, tasks'[t].terminal = "failed"
  PROVE  tasks'[t].reported \/ tasks'[t].observed \/ Settling(t)'
<1>1. t \in 1..n /\ tasks[t] \in Task(1..n) /\ tasks \in [1..n -> Task(1..n)]
  BY TypedStack DEF Typed
<1>2. CASE SettleNotifies
  <2>1. tasks'[t] = Notified(tasks[t])  BY <1>1, <1>2 DEF SettleNotifies
  <2>2. CASE ~tasks'[t].observed
    <3>1. Unhandled(Notified(tasks[t]))  BY <2>1, <2>2 DEF Unhandled
    <3>2. stack # <<>> /\ Top \in SettleCall(1..n)  BY <1>2, OnCallTyped DEF SettleNotifies
    <3>3. [Top EXCEPT !.at = "sink"] = SinkOf(t)  BY <3>2 DEF SettleCall, SinkOf
    <3>4. Become(SinkOf(t))  BY <1>2, <3>1, <3>3 DEF SettleNotifies
    <3>5. In(stack', SinkOf(t))
      <4>1. stack' = <<SinkOf(t)>> \o Tail(stack) /\ Tail(stack) \in Seq(Call(1..n))
        BY <3>2, <3>4, TypedStack DEF Become
      <4> QED  BY <4>1, FirstIn
    <3> QED  BY <3>5 DEF Settling, SinkOf
  <2> QED  BY <2>2
<1>3. CASE SinkReturns
  <2>1. tasks'[t].reported = TRUE  BY <1>1, <1>3 DEF SinkReturns, Task, TaskRecord
  <2> QED  BY <2>1
<1> QED  BY <1>2, <1>3

LEMMA NextTold ==
  ASSUME NEW n \in 1..MaxTasks, Typed(n), Claims, Told, [Next]_vars
  PROVE  Told'
<1>1. CASE RecordsLast
  <2>1. ASSUME NEW t \in Spawned' PROVE Seen(tasks'[t])
    BY <1>1, <2>1, Zenon DEF RecordsLast, Lasting, Told
  <2>2. ASSUME NEW t \in Spawned', tasks'[t].detached, tasks'[t].terminal = "failed"
        PROVE  tasks'[t].reported \/ tasks'[t].observed \/ Settling(t)'
    <3>1. t \in Spawned /\ Lasting(tasks[t], tasks'[t])  BY <1>1 DEF RecordsLast
    <3>2. tasks[t].reported \/ tasks[t].observed \/ Settling(t)
      BY <2>2, <3>1, Zenon DEF Lasting, Told
    <3>3. CASE tasks[t].reported \/ tasks[t].observed  BY <3>1, <3>3, Zenon DEF Lasting
    <3>4. CASE Settling(t)
      <4>1. Settling(t)' \/ ((SettleNotifies \/ SinkReturns) /\ Top.task = t)
        BY <3>1, <3>4, SettlingStays
      <4> QED  BY <2>2, <3>1, <4>1, NotifiesReports
    <3> QED  BY <3>2, <3>3, <3>4
  <2> QED  BY <2>1, <2>2, Zenon DEF Told
<1>2. ASSUME NEW u \in Spawned, NEW k, Ends(u, k), k = "failed" => Settling(u)'
      PROVE  Told'
  <2>1. ASSUME NEW t \in Spawned'
        PROVE  /\ Seen(tasks'[t])
               /\ tasks'[t].detached /\ tasks'[t].terminal = "failed" =>
                    tasks'[t].reported \/ tasks'[t].observed \/ Settling(t)'
    <3>1. t \in Spawned  BY <1>2 DEF Ends
    <3>2. CASE t = u  BY <1>2, <3>2, Zenon DEF Ends, Seen
    <3>3. CASE t # u
      <4>1. tasks'[t] = tasks[t]  BY <1>2, <3>1, <3>3, Zenon DEF Ends
      <4>2. Settling(t) => Settling(t)' \/ ((SettleNotifies \/ SinkReturns) /\ Top.task = t)
        BY <3>1, SettlingStays
      <4>3. CASE Settling(t) => Settling(t)'  BY <3>1, <4>1, <4>3, Zenon DEF Told
      <4>4. CASE (SettleNotifies \/ SinkReturns) /\ Top.task = t
        <5>1. tasks'[t].detached /\ tasks'[t].terminal = "failed"
                => tasks'[t].reported \/ tasks'[t].observed \/ Settling(t)'
          BY <3>1, <4>4, NotifiesReports
        <5>2. Seen(tasks'[t])  BY <3>1, <4>1, Zenon DEF Told
        <5> QED  BY <5>1, <5>2
      <4> QED  BY <4>2, <4>3, <4>4
    <3> QED  BY <3>2, <3>3
  <2> QED  BY <2>1, Zenon DEF Told
<1>3. ASSUME NEW u \in Spawned, NEW k \in Completion, Decides(u, k) PROVE Told'
  <2>1. Settling(u)'
    <3>1. stack # <<>> /\ Tail(stack) \in Seq(Call(1..n))  BY <1>3, TypedStack DEF Decides
    <3>2. SettleOf(u) \in Call(1..n) /\ stack' = <<SettleOf(u)>> \o Tail(stack)
      BY <1>3, CallsMade, TypedStack DEF Decides, Become, SettleOf
    <3>3. In(stack', SettleOf(u))  BY <3>1, <3>2, FirstIn
    <3> QED  BY <3>3 DEF Settling, SettleOf
  <2> QED  BY <1>2, <1>3, <2>1 DEF Decides
<1>4. CASE CancelTerminates /\ Top.task \in Spawned /\ Ends(Top.task, "cancelled")
  <2>1. PICK u \in Spawned, k \in {"cancelled"} : k = "cancelled" /\ Ends(u, k)  BY <1>4
  <2> QED  BY <1>2, <2>1
<1>5. ASSUME NEW u \in Spawned, NEW new \in {n + 1}, Spawns(u, new) PROVE Told'
  <2>1. ASSUME NEW t \in Spawned'
        PROVE  /\ Seen(tasks'[t])
               /\ tasks'[t].detached /\ tasks'[t].terminal = "failed" =>
                    tasks'[t].reported \/ tasks'[t].observed \/ Settling(t)'
    <3>1. CASE t = new  BY <1>5, <3>1 DEF Spawns, Seen
    <3>2. CASE t \in Spawned
      <4>1. Lasting(tasks[t], tasks'[t]) /\ stack' = stack  BY <1>5, <3>2 DEF Spawns
      <4>2. Settling(t) => Settling(t)'  BY <4>1 DEF Settling, In, SettleOf, SinkOf
      <4> QED  BY <3>2, <4>1, <4>2, Zenon DEF Lasting, Told
    <3> QED  BY <1>5, <3>1, <3>2 DEF Spawns
  <2> QED  BY <2>1, Zenon DEF Told
<1> QED  BY <1>1, <1>3, <1>4, <1>5, NextRecords

(* The failure of a detached task is not lost, whoever ended it and whatever *)
(* the tasks and the host do meanwhile (notifyTaskTerminal and the report of *)
(* completeTask): between two turns it has been reported, or somebody who   *)
(* had claimed the task or read its message has seen it.                    *)
THEOREM DetachedAlwaysReported == Spec => []DetachedReported
<1>1. Init => TypeOK /\ Claims /\ Told  BY InitTyped, InitClaims, InitTold DEF TypeOK
<1>2. TypeOK /\ Claims /\ Told /\ [Next]_vars => TypeOK' /\ Claims' /\ Told'
  BY NextTyped, NextClaims, NextTold DEF TypeOK
<1>3. Told => DetachedReported
  <2> SUFFICES ASSUME Told, Quiet, NEW t \in Spawned, tasks[t].detached, tasks[t].terminal = "failed"
               PROVE  tasks[t].reported \/ (tasks[t].observed /\ (tasks[t].claimed \/ ~tasks[t].live))
    BY DEF DetachedReported
  <2>1. ~Settling(t)
    <3>1. DOMAIN stack = {}  BY DEF Quiet
    <3> QED  BY <3>1 DEF Settling, In
  <2> QED  BY <2>1, Zenon DEF Told, Seen
<1> QED  BY <1>1, <1>2, <1>3, PTL DEF Spec

-----------------------------------------------------------------------------
(* Who moves.  The state of a task changes by its own code, at its end, or  *)
(* when it is left to complete; and nobody but that code makes it wait.     *)
Running(x) == stack # <<>> /\ CodeOf(Top, x)

Stable(x, task, new) ==
  /\ \A w \in new.waiters : w \in task.waiters \/ Running(w)
  /\ \/ new.state = task.state /\ new.completion = task.completion
     \/ new.state \in {"ready", "waiting"} /\ Running(x)

Ended(task, new) == new.state = "terminal" /\ new.waiters = task.waiters

Completing(x) ==
  /\ Running(x)
  /\ tasks'[x].state = "completing" /\ tasks'[x].completion # "none"
  /\ tasks'[x].waiters = tasks[x].waiters
  /\ \E c \in Children(x)' : Live(c)'

StatesStay ==
  /\ Spawned \subseteq Spawned'
  /\ \A x \in Spawned :
       Stable(x, tasks[x], tasks'[x]) \/ Ended(tasks[x], tasks'[x]) \/ Completing(x)
  /\ \A x \in Spawned' : x \notin Spawned =>
       tasks'[x].state = "ready" /\ tasks'[x].waiters = {}

LEMMA Stabilities ==
  ASSUME NEW ids, NEW task \in Task(ids), NEW x
  PROVE  /\ Stable(x, task, task)
         /\ \A o, b : Stable(x, task, [task EXCEPT !.raw = o, !.frame = b])
         /\ Stable(x, task, [task EXCEPT !.resume = FALSE, !.frame = FALSE])
         /\ Stable(x, task, [task EXCEPT !.resume = FALSE])
         /\ Stable(x, task, [task EXCEPT !.fresh = FALSE])
         /\ Stable(x, task, [task EXCEPT !.frame = FALSE])
         /\ Stable(x, task, [task EXCEPT !.promise = FALSE])
         /\ Stable(x, task, [task EXCEPT !.observed = TRUE, !.live = FALSE])
         /\ \A b : Stable(x, task, [task EXCEPT !.claimed = TRUE, !.observed = TRUE, !.live = b])
         /\ Stable(x, task, Notified(task)) /\ Stable(x, task, Reported(task))
         /\ Running(x) =>
              /\ Stable(x, task, [task EXCEPT !.resume = TRUE, !.state = "ready"])
              /\ Stable(x, task, [task EXCEPT !.state = "waiting", !.promise = TRUE])
              /\ Stable(x, task, [task EXCEPT !.state = "waiting"])
              /\ \A o : Stable(x, task, [task EXCEPT !.raw = o, !.state = "ready"])
<1>1. Stable(x, task, task)  BY DEF Stable
<1>2. /\ \A o, b : Stable(x, task, [task EXCEPT !.raw = o, !.frame = b])
      /\ Stable(x, task, [task EXCEPT !.resume = FALSE, !.frame = FALSE])
      /\ Stable(x, task, [task EXCEPT !.resume = FALSE])
      /\ Stable(x, task, [task EXCEPT !.fresh = FALSE])
      /\ Stable(x, task, [task EXCEPT !.frame = FALSE])
      /\ Stable(x, task, [task EXCEPT !.promise = FALSE])
  BY DEF Task, TaskRecord, Stable
<1>3. /\ Stable(x, task, [task EXCEPT !.observed = TRUE, !.live = FALSE])
      /\ \A b : Stable(x, task, [task EXCEPT !.claimed = TRUE, !.observed = TRUE, !.live = b])
  BY DEF Task, TaskRecord, Stable
<1>4. Stable(x, task, Notified(task)) /\ Stable(x, task, Reported(task))
  <2>1. Stable(x, task, Notified(task))  BY DEF Task, TaskRecord, Stable, Notified
  <2>2. Stable(x, task, Reported(task))  BY DEF Task, TaskRecord, Stable, Reported
  <2> QED  BY <2>1, <2>2
<1>5. ASSUME Running(x)
      PROVE  /\ Stable(x, task, [task EXCEPT !.resume = TRUE, !.state = "ready"])
             /\ Stable(x, task, [task EXCEPT !.state = "waiting", !.promise = TRUE])
             /\ Stable(x, task, [task EXCEPT !.state = "waiting"])
             /\ \A o : Stable(x, task, [task EXCEPT !.raw = o, !.state = "ready"])
  BY <1>5 DEF Task, TaskRecord, Stable
<1> QED  BY <1>1, <1>2, <1>3, <1>4, <1>5

LEMMA SameStates ==
  ASSUME NEW n \in 1..MaxTasks, Typed(n), UNCHANGED tasks
  PROVE  StatesStay
BY DEF StatesStay, Stable, Spawned

LEMMA OneStable ==
  ASSUME NEW n \in 1..MaxTasks, Typed(n), NEW m \in Spawned, NEW new,
         Stable(m, tasks[m], new), tasks' = [tasks EXCEPT ![m] = new]
  PROVE  StatesStay
<1>1. /\ tasks'[m] = new /\ Spawned' = Spawned
      /\ \A x \in Spawned : x # m => tasks'[x] = tasks[x]
  BY DEF Spawned, Typed
<1>2. ASSUME NEW x \in Spawned PROVE Stable(x, tasks[x], tasks'[x])
  <2>1. CASE x = m  BY <1>1, <2>1
  <2>2. CASE x # m
    <3>1. tasks'[x] = tasks[x]  BY <1>1, <2>2
    <3> QED  BY <3>1, Zenon DEF Stable
  <2> QED  BY <2>1, <2>2
<1> QED  BY <1>1, <1>2, Zenon DEF StatesStay

LEMMA TwoStable ==
  ASSUME NEW n \in 1..MaxTasks, Typed(n), NEW t \in Spawned, NEW w \in Spawned,
         NEW a \in Task(1..n), Stable(t, tasks[t], a),
         NEW told, told = [tasks EXCEPT ![t] = a],
         NEW b, Stable(w, told[w], b), tasks' = [told EXCEPT ![w] = b]
  PROVE  StatesStay
<1>1. tasks \in [1..n -> Task(1..n)] /\ Spawned = 1..n  BY TypedStack DEF Typed
<1>2. told \in [1..n -> Task(1..n)] /\ told[t] = a /\ \A x \in Spawned : x # t => told[x] = tasks[x]
  BY <1>1
<1>3. tasks'[w] = b /\ (\A x \in Spawned : x # w => tasks'[x] = told[x]) /\ Spawned' = Spawned
  BY <1>1, <1>2 DEF Spawned
<1>4. ASSUME NEW x \in Spawned PROVE Stable(x, tasks[x], tasks'[x])
  <2>1. Stable(x, tasks[x], told[x])
    <3>1. CASE x = t  BY <1>2, <3>1
    <3>2. CASE x # t
      <4>1. told[x] = tasks[x]  BY <1>2, <3>2
      <4> QED  BY <4>1, Zenon DEF Stable
    <3> QED  BY <3>1, <3>2
  <2>2. Stable(x, told[x], tasks'[x])
    <3>1. CASE x = w  BY <1>3, <3>1
    <3>2. CASE x # w
      <4>1. tasks'[x] = told[x]  BY <1>3, <3>2
      <4> QED  BY <4>1, Zenon DEF Stable
    <3> QED  BY <3>1, <3>2
  <2>3. \A v \in tasks'[x].waiters : v \in tasks[x].waiters \/ Running(v)
    BY <2>1, <2>2, Zenon DEF Stable
  <2>4. \/ tasks'[x].state = tasks[x].state /\ tasks'[x].completion = tasks[x].completion
        \/ tasks'[x].state \in {"ready", "waiting"} /\ Running(x)
    <3>1. CASE tasks'[x].state \in {"ready", "waiting"} /\ Running(x)  BY <3>1
    <3>2. CASE tasks'[x].state = told[x].state /\ tasks'[x].completion = told[x].completion
      BY <2>1, <3>2 DEF Stable
    <3> QED  BY <2>2, <3>1, <3>2, Zenon DEF Stable
  <2> QED  BY <2>3, <2>4, Zenon DEF Stable
<1> QED  BY <1>3, <1>4, Zenon DEF StatesStay

LEMMA EndStates ==
  ASSUME NEW t \in Spawned, NEW k, Ends(t, k)
  PROVE  StatesStay
<1>1. Spawned' = Spawned /\ \A x \in Spawned : x # t => tasks'[x] = tasks[x]  BY DEF Ends
<1>2. Ended(tasks[t], tasks'[t])  BY DEF Ends, Ended
<1>3. ASSUME NEW x \in Spawned, x # t PROVE Stable(x, tasks[x], tasks'[x])
  BY <1>1, <1>3, Zenon DEF Stable
<1> QED  BY <1>1, <1>2, <1>3, Zenon DEF StatesStay

LEMMA SpawnStates ==
  ASSUME NEW t \in Spawned, NEW new, Spawns(t, new)
  PROVE  StatesStay
<1>1. ASSUME NEW x \in Spawned PROVE Stable(x, tasks[x], tasks'[x])
  BY <1>1, Zenon DEF Spawns, Stable
<1> QED  BY <1>1 DEF Spawns, StatesStay

LEMMA StepStates ==
  ASSUME NEW n \in 1..MaxTasks, Typed(n), Step
  PROVE  StatesStay
<1>1. CASE UNCHANGED tasks  BY <1>1, SameStates
<1>2. CASE StepPolls /\ tasks' # tasks
  <2> DEFINE t == Head(ready)
  <2>1. t \in 1..n  BY <1>2, Stacks DEF StepPolls, Typed
  <2>2. tasks[t] \in Task(1..n) /\ t \in Spawned  BY <2>1, TypedStack DEF Typed
  <2>3. \/ tasks' = [tasks EXCEPT ![t] = [tasks[t] EXCEPT !.raw = None, !.frame = (tasks[t].raw.op # "value")]]
        \/ tasks' = [tasks EXCEPT ![t] = [tasks[t] EXCEPT !.resume = FALSE, !.frame = FALSE]]
        \/ tasks' = [tasks EXCEPT ![t] = [tasks[t] EXCEPT !.resume = FALSE]]
        \/ tasks' = [tasks EXCEPT ![t] = [tasks[t] EXCEPT !.fresh = FALSE]]
    BY <1>2 DEF StepPolls, TakeIn
  <2> HIDE DEF t
  <2>4. \E new : Stable(t, tasks[t], new) /\ tasks' = [tasks EXCEPT ![t] = new]
    BY <2>2, <2>3, Stabilities, Zenon
  <2> QED  BY <2>2, <2>4, OneStable
<1>3. StepPolls \/ UNCHANGED tasks  BY DEF Step, StepSettles, StepParks
<1> QED  BY <1>1, <1>2, <1>3

LEMMA ProgramStates ==
  ASSUME NEW n \in 1..MaxTasks, Typed(n), Program
  PROVE  StatesStay
<1>1. CASE UNCHANGED tasks  BY <1>1, SameStates
<1>2. CASE \E d \in BOOLEAN : Spawn(d)  BY <1>2, SpawnRecords, SpawnStates
<1>3. ASSUME NEW u \in Spawned, TakeValue(u) PROVE StatesStay
  <2>1. u \in 1..n /\ tasks[u] \in Task(1..n)  BY TypedStack DEF Typed
  <2>2. tasks' = [tasks EXCEPT ![u] = [tasks[u] EXCEPT !.observed = TRUE, !.live = FALSE]]
    BY <1>3 DEF TakeValue
  <2>3. Stable(u, tasks[u], [tasks[u] EXCEPT !.observed = TRUE, !.live = FALSE])
    BY <2>1, Stabilities
  <2> QED  BY <2>1, <2>2, <2>3, OneStable
<1>4. CASE VmReturns /\ tasks' # tasks
  <2> DEFINE t == Top.task
  <2>1. t \in 1..n /\ Running(t)
    BY <1>4, TypedStack, CallKinds DEF VmReturns, OnTop, VmCall, Running, CodeOf
  <2>2. tasks[t] \in Task(1..n) /\ t \in Spawned  BY <2>1, TypedStack DEF Typed
  <2>3. PICK outcome \in Outcomes(t) : tasks' = TakeIn(t, outcome) \/ Readied(t, outcome)
    BY <1>4, Zenon DEF VmReturns
  <2>4. \/ tasks' = [tasks EXCEPT ![t] = [tasks[t] EXCEPT !.raw = None, !.frame = (outcome.op # "value")]]
        \/ tasks' = [tasks EXCEPT ![t] = [tasks[t] EXCEPT !.raw = outcome, !.state = "ready"]]
    BY <2>3 DEF TakeIn, Readied
  <2> HIDE DEF t
  <2>5. \E new : Stable(t, tasks[t], new) /\ tasks' = [tasks EXCEPT ![t] = new]
    BY <2>1, <2>2, <2>4, Stabilities, Zenon
  <2> QED  BY <2>2, <2>5, OneStable
<1> QED  BY <1>1, <1>2, <1>3, <1>4, Zenon DEF Program, CancelTask, VmTraps

LEMMA SuspendStates ==
  ASSUME NEW n \in 1..MaxTasks, Typed(n), Suspend
  PROVE  StatesStay
<1>1. CASE UNCHANGED tasks  BY <1>1, SameStates
<1>2. CASE WaitTask /\ tasks' # tasks
  <2>1. OnEffect("wait")  BY <1>2 DEF WaitTask
  <2>2. PICK t \in Spawned, u \in Spawned :
           /\ t = Top.task /\ u = Top.outcome.task /\ t \in 1..n /\ u \in 1..n
           /\ tasks \in [1..n -> Task(1..n)] /\ tasks[u] \in Task(1..n)
    BY <2>1, OnEffectTyped, TypedStack
  <2>3. Running(t)  BY <2>1, <2>2 DEF OnEffect, OnTop, Running, CodeOf
  <2> DEFINE claim == [tasks EXCEPT ![u].claimed = TRUE]
  <2>4. CASE tasks' = [claim EXCEPT ![u].observed = TRUE,
                                    ![u].live = (tasks[u].terminal # "cancelled")]
    <3>1. PICK b : b = (tasks[u].terminal # "cancelled")  OBVIOUS
    <3> DEFINE new == [tasks[u] EXCEPT !.claimed = TRUE, !.observed = TRUE, !.live = b]
    <3>2. tasks' = [tasks EXCEPT ![u] = new]  BY <2>2, <2>4, <3>1
    <3>3. Stable(u, tasks[u], new)  BY <2>2, Stabilities
    <3> HIDE DEF new
    <3> QED  BY <3>2, <3>3, OneStable
  <2>5. CASE tasks' = [claim EXCEPT ![u].waiters = @ \cup {t}, ![t].state = "waiting"]
    <3>1. PICK W \in SUBSET (1..n) : W = tasks[u].waiters \cup {t}
      BY <2>2 DEF Task, TaskRecord
    <3> DEFINE a == [tasks[u] EXCEPT !.claimed = TRUE, !.waiters = W]
               told == [tasks EXCEPT ![u] = a]
               b == [told[t] EXCEPT !.state = "waiting"]
    <3>2. a \in Task(1..n) /\ Stable(u, tasks[u], a)
      <4>1. a \in Task(1..n)  BY <2>2, WaitersTyped
      <4>2. a.state = tasks[u].state /\ a.completion = tasks[u].completion /\ a.waiters = W
        BY <2>2 DEF Task, TaskRecord
      <4>3. \A w \in W : w \in tasks[u].waiters \/ Running(w)  BY <2>3, <3>1
      <4> HIDE DEF a
      <4> QED  BY <4>1, <4>2, <4>3 DEF Stable
    <3>3. tasks' = [told EXCEPT ![t].state = "waiting"]
      <4>1. tasks' = [[claim EXCEPT ![u].waiters = @ \cup {t}] EXCEPT ![t].state = "waiting"]
        BY <2>5
      <4>2. [claim EXCEPT ![u].waiters = @ \cup {t}] = told  BY <2>2, <3>1
      <4> HIDE DEF claim, told
      <4> QED  BY <4>1, <4>2
    <3>4. tasks' = [told EXCEPT ![t] = b]
      <4> HIDE DEF told
      <4> QED  BY <3>3
    <3>5. told[t] \in Task(1..n)
      <4> HIDE DEF a
      <4> QED  BY <2>2, <3>2
    <3>6. Stable(t, told[t], b)
      <4> HIDE DEF told
      <4> QED  BY <2>3, <3>5, Stabilities
    <3>7. PICK m : m = told  OBVIOUS
    <3>8. PICK c : c = b  OBVIOUS
    <3>9. m = [tasks EXCEPT ![u] = a] /\ Stable(t, m[t], c) /\ tasks' = [m EXCEPT ![t] = c]
      <4>1. m = [tasks EXCEPT ![u] = a]  BY <3>7
      <4> HIDE DEF a, told, b
      <4> QED  BY <3>4, <3>6, <3>7, <3>8, <4>1
    <3> HIDE DEF a, told, b
    <3> QED  BY <3>2, <3>9, TwoStable
  <2> QED  BY <1>2, <2>2, <2>4, <2>5 DEF WaitTask
<1>3. CASE YieldOnce
  <2> DEFINE t == Top.task
  <2>1. t \in Spawned /\ tasks[t] \in Task(1..n) /\ Running(t)
    BY <1>3, OnEffectTyped, TypedStack DEF YieldOnce, OnEffect, OnTop, Running, CodeOf
  <2>2. tasks' = [tasks EXCEPT ![t] = [tasks[t] EXCEPT !.resume = TRUE, !.state = "ready"]]
    BY <1>3 DEF YieldOnce
  <2>3. Stable(t, tasks[t], [tasks[t] EXCEPT !.resume = TRUE, !.state = "ready"])
    BY <2>1, Stabilities
  <2> QED  BY <2>1, <2>2, <2>3, OneStable
<1>4. CASE FailureMessage /\ tasks' # tasks
  <2> DEFINE u == Top.outcome.task
  <2>1. u \in Spawned /\ tasks[u] \in Task(1..n)
    BY <1>4, OnEffectTyped, TypedStack DEF FailureMessage
  <2>2. tasks' = [tasks EXCEPT ![u] = [tasks[u] EXCEPT !.observed = TRUE, !.live = FALSE]]
    BY <1>4 DEF FailureMessage
  <2>3. Stable(u, tasks[u], [tasks[u] EXCEPT !.observed = TRUE, !.live = FALSE])
    BY <2>1, Stabilities
  <2> QED  BY <2>1, <2>2, <2>3, OneStable
<1> QED  BY <1>1, <1>2, <1>3, <1>4, Zenon DEF Suspend, TaskReturns, CallHandler

LEMMA HostStates ==
  ASSUME NEW n \in 1..MaxTasks, Typed(n), Host
  PROVE  StatesStay
<1>1. CASE UNCHANGED tasks  BY <1>1, SameStates
<1>2. CASE HandlerReturns /\ tasks' # tasks
  <2> DEFINE t == Top.task
  <2>1. t \in Spawned /\ tasks[t] \in Task(1..n) /\ Running(t)
    BY <1>2, OnCallTyped DEF HandlerReturns, OnTop, Running, CodeOf
  <2>2. tasks' = [tasks EXCEPT ![t] = [tasks[t] EXCEPT !.state = "waiting", !.promise = TRUE]]
    BY <1>2 DEF HandlerReturns
  <2>3. Stable(t, tasks[t], [tasks[t] EXCEPT !.state = "waiting", !.promise = TRUE])
    BY <2>1, Stabilities
  <2> QED  BY <2>1, <2>2, <2>3, OneStable
<1>3. ASSUME NEW t \in Spawned, PromiseSettles(t) PROVE StatesStay
  <2>1. tasks[t] \in Task(1..n)  BY TypedStack DEF Typed
  <2>2. tasks' = [tasks EXCEPT ![t] = [tasks[t] EXCEPT !.promise = FALSE]]
    BY <1>3 DEF PromiseSettles
  <2>3. Stable(t, tasks[t], [tasks[t] EXCEPT !.promise = FALSE])  BY <2>1, Stabilities
  <2> QED  BY <2>1, <2>2, <2>3, OneStable
<1>4. ASSUME NEW u \in Spawned, ObserveTask(u) PROVE StatesStay
  <2>1. tasks[u] \in Task(1..n)  BY TypedStack DEF Typed
  <2> DEFINE new == [tasks[u] EXCEPT !.claimed = TRUE,
                 !.observer = IF tasks[u].terminal = "none" THEN "waiting" ELSE tasks[u].terminal,
                 !.observed = @ \/ tasks[u].terminal # "none",
                 !.live = (tasks[u].terminal = "none")]
  <2>2. tasks' = [tasks EXCEPT ![u] = new]  BY <2>1, <1>4 DEF ObserveTask
  <2>3. Stable(u, tasks[u], new)  BY <2>1 DEF Task, TaskRecord, Stable
  <2> QED  BY <2>1, <2>2, <2>3, OneStable
<1> QED  BY <1>1, <1>2, <1>3, <1>4, Zenon DEF Host, RunCancel

LEMMA CompleteStates ==
  ASSUME NEW n \in 1..MaxTasks, Typed(n), CompleteDecides
  PROVE  StatesStay
<1>1. OnTop("complete") /\ Top.at = "children"  BY DEF CompleteDecides
<1>2. /\ Top.task \in Spawned /\ stack # <<>> /\ Top.kind \in Completion
      /\ tasks \in [1..n -> Task(1..n)] /\ Spawned = 1..n
  BY <1>1, OnCallTyped DEF CompleteCall
<1>3. PICK t \in Spawned, k \in Completion : t = Top.task /\ k = Top.kind  BY <1>2
<1>4. CASE \E c \in Children(t) : Live(c)
  <2> DEFINE r == [tasks[t] EXCEPT !.state = "completing", !.completion = k]
  <2>1. tasks' = [tasks EXCEPT ![t] = r]  BY <1>2, <1>3, <1>4 DEF CompleteDecides
  <2>2. /\ r.state = "completing" /\ r.completion = k /\ r.waiters = tasks[t].waiters
        /\ r.owner = tasks[t].owner
    <3>1. tasks[t] \in Task(1..n)  BY <1>2
    <3> QED  BY <3>1 DEF Task, TaskRecord
  <2> HIDE DEF r
  <2>3. /\ tasks'[t] = r /\ Spawned' = Spawned
        /\ \A x \in Spawned : x # t => tasks'[x] = tasks[x]
    BY <1>2, <2>1 DEF Spawned
  <2>4. PICK c \in Spawned : tasks[c].owner = t /\ tasks[c].state # "terminal"
    BY <1>4 DEF Children, Live
  <2>5. c \in Children(t)' /\ Live(c)'
    <3>1. tasks'[c].owner = t /\ tasks'[c].state # "terminal"
      <4>1. CASE c = t  BY <2>2, <2>3, <2>4, <4>1
      <4>2. CASE c # t
        <5>1. tasks'[c] = tasks[c]  BY <2>3, <4>2
        <5> QED  BY <2>4, <5>1
      <4> QED  BY <4>1, <4>2
    <3> QED  BY <2>3, <3>1 DEF Children, Live
  <2>6. Running(t)  BY <1>1, <1>2, <1>3 DEF OnTop, Running, CodeOf
  <2>7. Completing(t)  BY <2>2, <2>3, <2>5, <2>6 DEF Completing, Completion
  <2>8. ASSUME NEW x \in Spawned, x # t PROVE Stable(x, tasks[x], tasks'[x])
    BY <2>3, <2>8, Zenon DEF Stable
  <2> QED  BY <2>3, <2>7, <2>8, Zenon DEF StatesStay
<1>5. CASE ~\E c \in Children(t) : Live(c)
  <2>1. Terminate(t, k)  BY <1>3, <1>5, Zenon DEF CompleteDecides
  <2> QED  BY <2>1, TerminateEnds, EndStates
<1> QED  BY <1>4, <1>5

LEMMA OwnerStates ==
  ASSUME NEW n \in 1..MaxTasks, Typed(n), OwnerCompletes
  PROVE  StatesStay
<1>1. OnTop("owner")  BY DEF OwnerCompletes
<1>2. PICK t \in Spawned : t = Top.task  BY <1>1, OnCallTyped
<1>3. CASE UNCHANGED tasks  BY <1>3, SameStates
<1>4. CASE Terminate(t, tasks[t].completion)  BY <1>4, TerminateEnds, EndStates
<1> QED  BY <1>2, <1>3, <1>4, Zenon DEF OwnerCompletes

LEMMA RuntimeStates ==
  ASSUME NEW n \in 1..MaxTasks, Typed(n), Runtime
  PROVE  StatesStay
<1>1. CASE UNCHANGED tasks  BY <1>1, SameStates
<1>2. CASE ApplyContinuation \/ CompleteEntry
  <2>1. PICK t \in Spawned : t = Top.task /\ tasks[t] \in Task(1..n)
    BY <1>2, OnCallTyped DEF ApplyContinuation, CompleteEntry
  <2>2. tasks' = [tasks EXCEPT ![t] = [tasks[t] EXCEPT !.frame = FALSE]]
    BY <1>2, <2>1 DEF ApplyContinuation, CompleteEntry
  <2>3. Stable(t, tasks[t], [tasks[t] EXCEPT !.frame = FALSE])  BY <2>1, Stabilities
  <2> QED  BY <2>1, <2>2, <2>3, OneStable
<1>3. CASE SettleResumesWaiter \/ CancelResumesWaiter
  <2>1. PICK t \in Spawned : t = Top.task /\ tasks[t] \in Task(1..n) /\ tasks \in [1..n -> Task(1..n)]
    BY <1>3, OnCallTyped DEF SettleResumesWaiter, CancelResumesWaiter
  <2>2. PICK w \in tasks[t].waiters :
           \/ tasks' = [tasks EXCEPT ![t].observed = TRUE, ![t].waiters = @ \ {w}, ![w].frame = FALSE]
           \/ tasks' = [tasks EXCEPT ![t].waiters = @ \ {w}, ![w].frame = FALSE]
    BY <1>3, <2>1, Zenon DEF SettleResumesWaiter, CancelResumesWaiter
  <2>3. w \in Spawned /\ Spawned = 1..n  BY <2>1, TypedStack DEF Task, TaskRecord
  <2>5. PICK W \in SUBSET (1..n) : W = tasks[t].waiters \ {w}  BY <2>1 DEF Task, TaskRecord
  <2>6. PICK a \in Task(1..n) :
           /\ Stable(t, tasks[t], a)
           /\ tasks' = [[tasks EXCEPT ![t] = a] EXCEPT ![w].frame = FALSE]
    <3>1. CASE tasks' = [tasks EXCEPT ![t].observed = TRUE, ![t].waiters = @ \ {w}, ![w].frame = FALSE]
      <4> DEFINE a == [tasks[t] EXCEPT !.observed = TRUE, !.waiters = W]
      <4>1. a \in Task(1..n)  BY <2>1, WaitersTyped
      <4>2. a.state = tasks[t].state /\ a.completion = tasks[t].completion /\ a.waiters = W
        BY <2>1 DEF Task, TaskRecord
      <4>3. [tasks EXCEPT ![t].observed = TRUE, ![t].waiters = @ \ {w}] = [tasks EXCEPT ![t] = a]
        BY <2>1, <2>3, <2>5
      <4>4. tasks' = [[tasks EXCEPT ![t].observed = TRUE, ![t].waiters = @ \ {w}] EXCEPT ![w].frame = FALSE]
        BY <3>1
      <4> HIDE DEF a
      <4>5. Stable(t, tasks[t], a)  BY <2>5, <4>2 DEF Stable
      <4> QED  BY <4>1, <4>3, <4>4, <4>5, Zenon
    <3>2. CASE tasks' = [tasks EXCEPT ![t].waiters = @ \ {w}, ![w].frame = FALSE]
      <4> DEFINE a == [tasks[t] EXCEPT !.waiters = W]
      <4>1. a \in Task(1..n)  BY <2>1, WaitersTyped
      <4>2. a.state = tasks[t].state /\ a.completion = tasks[t].completion /\ a.waiters = W
        BY <2>1 DEF Task, TaskRecord
      <4>3. [tasks EXCEPT ![t].waiters = @ \ {w}] = [tasks EXCEPT ![t] = a]
        BY <2>1, <2>3, <2>5
      <4>4. tasks' = [[tasks EXCEPT ![t].waiters = @ \ {w}] EXCEPT ![w].frame = FALSE]
        BY <3>2
      <4> HIDE DEF a
      <4>5. Stable(t, tasks[t], a)  BY <2>5, <4>2 DEF Stable
      <4> QED  BY <4>1, <4>3, <4>4, <4>5, Zenon
    <3> QED  BY <2>2, <3>1, <3>2
  <2>7. PICK told \in [1..n -> Task(1..n)] : told = [tasks EXCEPT ![t] = a]
    <3>1. [tasks EXCEPT ![t] = a] \in [1..n -> Task(1..n)]  BY <2>1, <2>3
    <3> QED  BY <3>1
  <2>8. PICK b : b = [told[w] EXCEPT !.frame = FALSE]  OBVIOUS
  <2>9. Stable(w, told[w], b)
    <3>1. told[w] \in Task(1..n)  BY <2>3, <2>7
    <3> QED  BY <2>8, <3>1, Stabilities
  <2>10. tasks' = [told EXCEPT ![w] = b]  BY <2>6, <2>7, <2>8
  <2>11. Stable(t, tasks[t], a) /\ told = [tasks EXCEPT ![t] = a]  BY <2>6, <2>7
  <2> QED  BY <2>3, <2>9, <2>10, <2>11, TwoStable, Zenon
<1>4. CASE SettleNotifies \/ SinkReturns \/ CancelNotifies
  <2>1. PICK t \in Spawned : t = Top.task /\ tasks[t] \in Task(1..n) /\ tasks \in [1..n -> Task(1..n)]
    BY <1>4, OnCallTyped DEF SettleNotifies, SinkReturns, CancelNotifies
  <2>2. \/ tasks' = [tasks EXCEPT ![t] = Reported(tasks[t])]
        \/ tasks' = [tasks EXCEPT ![t] = Notified(tasks[t])]
    BY <1>4, <2>1 DEF SettleNotifies, SinkReturns, CancelNotifies, Reported
  <2>3. Stable(t, tasks[t], Notified(tasks[t])) /\ Stable(t, tasks[t], Reported(tasks[t]))
    BY <2>1, Stabilities
  <2> QED  BY <2>1, <2>2, <2>3, OneStable
<1>5. CASE CancelTerminates
  <2>1. PICK t \in Spawned : Ends(t, "cancelled")  BY <1>5, CancelEnds
  <2> QED  BY <2>1, EndStates
<1>6. CompleteCancelsChild \/ CancelCancelsChild \/ SettleFinishes \/ CancelFinishes \/ CancelAll
        => UNCHANGED tasks
  BY DEF CompleteCancelsChild, CancelCancelsChild, SettleFinishes, CancelFinishes, CancelAll
<1> QED  BY <1>1, <1>2, <1>3, <1>4, <1>5, <1>6, CompleteStates, OwnerStates, Zenon DEF Runtime

LEMMA NextStates ==
  ASSUME NEW n \in 1..MaxTasks, Typed(n), [Next]_vars
  PROVE  StatesStay
<1>1. CASE UNCHANGED vars  BY <1>1, SameStates DEF vars
<1> QED  BY <1>1, StepStates, ProgramStates, SuspendStates, RuntimeStates, HostStates DEF Next

-----------------------------------------------------------------------------
(* Which calls a step makes.                                                *)
LEMMA OnlyCalls ==
  ASSUME NEW n \in 1..MaxTasks, Typed(n), NEW c, In(stack', c), ~In(stack, c)
  PROVE  /\ \A e : Push(e) => c = e
         /\ stack # <<>> =>
              /\ ~Pop
              /\ \A e : Become(e) => c = e
              /\ \A told, a, e :
                   stack' = (IF told THEN <<a>> ELSE <<>>) \o <<e>> \o Tail(stack)
                     => c = e \/ (told /\ c = a)
<1>1. stack \in Seq(Call(1..n))  BY DEF Typed
<1>2. \A e, x : In(<<e>>, x) => x = e
  <2> SUFFICES ASSUME NEW e, NEW x, In(<<e>>, x) PROVE x = e
    OBVIOUS
  <2>1. DOMAIN <<e>> = {1} /\ <<e>>[1] = e  OBVIOUS
  <2> QED  BY <2>1 DEF In
<1>3. ASSUME NEW e, Push(e) PROVE c = e
  <2>1. <<e>> \in Seq({e})  OBVIOUS
  <2> QED  BY <1>1, <1>2, <1>3, <2>1, ConcatIn DEF Push
<1>4. stack # <<>> => Tail(stack) \in Seq(Call(1..n)) /\ \A x : In(Tail(stack), x) => In(stack, x)
  BY <1>1, TailIn, HeadTailProperties
<1>5. ASSUME stack # <<>>, NEW e, Become(e) PROVE c = e
  <2>1. <<e>> \in Seq({e})  OBVIOUS
  <2>2. In(<<e>>, c) \/ In(Tail(stack), c)
    <3> DEFINE rest == Tail(stack)
    <3>1. stack' = <<e>> \o rest  BY <1>5 DEF Become
    <3>2. rest \in Seq(Call(1..n))  BY <1>4, <1>5
    <3>3. In(<<e>> \o rest, c)  BY <3>1
    <3>4. PICK one \in Seq({e}) : one = <<e>>  BY <2>1
    <3> HIDE DEF rest
    <3>5. In(one \o rest, c)  BY <3>3, <3>4
    <3>6. In(one, c) \/ In(rest, c)  BY <3>2, <3>5, ConcatIn
    <3> QED  BY <3>4, <3>6 DEF rest
  <2> QED  BY <1>2, <1>4, <1>5, <2>2
<1>6. ASSUME stack # <<>>, NEW told, NEW a, NEW e,
             stack' = (IF told THEN <<a>> ELSE <<>>) \o <<e>> \o Tail(stack)
      PROVE  c = e \/ (told /\ c = a)
  <2> DEFINE first == IF told THEN <<a>> ELSE <<>>
  <2>1. <<a>> \in Seq({a, e}) /\ <<>> \in Seq({a, e}) /\ <<e>> \in Seq({a, e})
    BY EmptySeq
  <2>2. first \in Seq({a, e})  BY <2>1
  <2>3. In(first, c) => told /\ c = a
    <3>1. CASE told  BY <1>2, <3>1
    <3>2. CASE ~told
      <4>1. DOMAIN first = {}  BY <3>2
      <4> QED  BY <4>1 DEF In
    <3> QED  BY <3>1, <3>2
  <2> HIDE DEF first
  <2>4. first \o <<e>> \in Seq({a, e})  BY <2>1, <2>2, ConcatProperties
  <2>5. stack' = (first \o <<e>>) \o Tail(stack)  BY <1>6 DEF first
  <2>6. In(first \o <<e>>, c)
    <3>1. In((first \o <<e>>) \o Tail(stack), c)  BY <2>5
    <3>2. ~In(Tail(stack), c)  BY <1>4, <1>6
    <3> QED  BY <1>4, <1>6, <2>4, <3>1, <3>2, ConcatIn
  <2>7. In(first, c) \/ In(<<e>>, c)  BY <2>1, <2>2, <2>6, ConcatIn
  <2> QED  BY <1>2, <2>3, <2>7
<1>7. stack # <<>> => ~Pop  BY <1>4 DEF Pop
<1> QED  BY <1>3, <1>5, <1>6, <1>7

(* What lets a step make the call c: code goes on, starts in a task that has *)
(* not ended, or resumes in a waiter; and a task is cancelled by its handle, *)
(* by its owner or with the run.                                            *)
Due(c) ==
  \/ c.fn \in {"apply", "owner", "settle"}
  \/ c.fn = "complete" /\ c.at = "entry"
  \/ /\ c.fn \in {"vm", "effect", "handler", "complete"}
     /\ Live(c.task) \/ Running(c.task) \/ \E u \in Spawned : c.task \in tasks[u].waiters
  \/ /\ c.fn = "cancel"
     /\ \/ tasks[c.task].live \/ tasks[c.task].owner \in Spawned
        \/ OnTop("cancelAll") \/ (OnTop("cancel") /\ c.task = Top.task)
  \/ c.fn = "cancelAll" /\ (OnTop("cancelAll") \/ turn' = "settled")

LEMMA TopThen ==
  ASSUME NEW n \in 1..MaxTasks, Typed(n), stack # <<>>
  PROVE  /\ \A at : Top.fn \in {"complete", "settle", "cancel"} =>
              [Top EXCEPT !.at = at].fn = Top.fn /\ [Top EXCEPT !.at = at].task = Top.task
         /\ \A c : Top.fn \in {"complete", "cancel"} =>
              [Top EXCEPT !.from = c].fn = Top.fn /\ [Top EXCEPT !.from = c].task = Top.task
         /\ \A c : Top.fn = "cancelAll" => [Top EXCEPT !.from = c].fn = "cancelAll"
<1>1. PICK top \in Call(1..n) : top = Top  BY TypedStack
<1>2. /\ top.fn = "complete" => top \in CompleteCall(1..n)
      /\ top.fn = "settle" => top \in SettleCall(1..n)
      /\ top.fn = "cancel" => top \in CancelTaskCall(1..n)
      /\ top.fn = "cancelAll" => top \in CancelAllCall(1..n)
  BY CallKinds
<1>3. /\ \A at : top.fn = "complete" =>
           [top EXCEPT !.at = at].fn = top.fn /\ [top EXCEPT !.at = at].task = top.task
      /\ \A at : top.fn = "settle" =>
           [top EXCEPT !.at = at].fn = top.fn /\ [top EXCEPT !.at = at].task = top.task
      /\ \A at : top.fn = "cancel" =>
           [top EXCEPT !.at = at].fn = top.fn /\ [top EXCEPT !.at = at].task = top.task
  BY <1>2 DEF CompleteCall, SettleCall, CancelTaskCall
<1>4. /\ \A c : top.fn = "complete" =>
           [top EXCEPT !.from = c].fn = top.fn /\ [top EXCEPT !.from = c].task = top.task
      /\ \A c : top.fn = "cancel" =>
           [top EXCEPT !.from = c].fn = top.fn /\ [top EXCEPT !.from = c].task = top.task
      /\ \A c : top.fn = "cancelAll" => [top EXCEPT !.from = c].fn = "cancelAll"
  BY <1>2 DEF CompleteCall, CancelTaskCall, CancelAllCall
<1> QED  BY <1>1, <1>3, <1>4, Zenon

LEMMA OthersDue ==
  ASSUME NEW n \in 1..MaxTasks, Typed(n), NEW c, In(stack', c), ~In(stack, c),
         Step \/ Program \/ Suspend \/ Host
  PROVE  Due(c)
<1>0. ~UNCHANGED stack  BY DEF In
<1>1. CASE Step
  <2> DEFINE t == Head(ready)
  <2>1. /\ tasks[t].state \notin {"terminal", "completing"}
        /\ Push(Effect(t, tasks[t].raw)) \/ Push(Vm(t, "poll")) \/ Push(Complete(t, "failed"))
    BY <1>0, <1>1 DEF Step, StepSettles, StepParks, StepPolls
  <2>2. c = Effect(t, tasks[t].raw) \/ c = Vm(t, "poll") \/ c = Complete(t, "failed")
    BY <2>1, OnlyCalls, Zenon
  <2>3. Live(t)  BY <2>1 DEF Live
  <2> HIDE DEF t
  <2> QED  BY <2>2, <2>3 DEF Due, Effect, Vm, Complete
<1>2. CASE Program
  <2>1. ASSUME NEW u \in Spawned, CancelTask(u) PROVE Due(c)
    <3>1. c = CancelCall(u, TRUE) /\ tasks[u].live  BY <2>1, OnlyCalls DEF CancelTask
    <3> QED  BY <3>1 DEF Due, CancelCall
  <2>2. CASE VmReturns \/ VmTraps
    <3>1. stack # <<>> /\ Top.fn = "vm"  BY <2>2 DEF VmReturns, VmTraps, OnTop
    <3>2. PICK t : t = Top.task  OBVIOUS
    <3>3. Running(t)  BY <3>1, <3>2 DEF Running, CodeOf
    <3>4. ~Pop  BY <3>1, OnlyCalls
    <3>5. PICK e : Become(e) /\ ((\E o : e = Effect(t, o)) \/ e = Complete(t, "failed"))
      BY <2>2, <3>2, <3>4 DEF VmReturns, VmTraps
    <3>6. c = e  BY <3>1, <3>5, OnlyCalls
    <3> QED  BY <3>3, <3>5, <3>6 DEF Due, Effect, Complete
  <2>3. \A d : Spawn(d) => UNCHANGED stack  BY DEF Spawn
  <2>4. \A u : TakeValue(u) => UNCHANGED stack  BY DEF TakeValue
  <2> QED  BY <1>0, <1>2, <2>1, <2>2, <2>3, <2>4 DEF Program
<1>3. CASE Suspend
  <2>1. stack # <<>> /\ Top.fn = "effect"
    BY <1>3 DEF Suspend, TaskReturns, WaitTask, YieldOnce, FailureMessage, CallHandler, OnEffect, OnTop
  <2>2. PICK t : t = Top.task  OBVIOUS
  <2>3. Running(t)  BY <2>1, <2>2 DEF Running, CodeOf
  <2>4. ~Pop  BY <2>1, OnlyCalls
  <2>5. PICK e : /\ Become(e)
                 /\ \/ \E k : e = Complete(t, k)
                    \/ e = [fn |-> "apply", task |-> t] \/ e = [fn |-> "handler", task |-> t]
    BY <1>3, <2>2, <2>4 DEF Suspend, TaskReturns, WaitTask, YieldOnce, FailureMessage, CallHandler
  <2>6. c = e  BY <2>1, <2>5, OnlyCalls
  <2> QED  BY <2>3, <2>5, <2>6 DEF Due, Complete
<1>4. CASE Host
  <2>1. CASE HandlerReturns
    <3>1. stack # <<>>  BY <2>1 DEF HandlerReturns, OnTop
    <3>2. PICK t : t = Top.task  OBVIOUS
    <3>3. ~Pop  BY <3>1, OnlyCalls
    <3>4. Become([fn |-> "apply", task |-> t]) \/ Become(Complete(t, "failed"))
      BY <2>1, <3>2, <3>3 DEF HandlerReturns
    <3>5. c = [fn |-> "apply", task |-> t] \/ c = Complete(t, "failed")
      BY <3>1, <3>4, OnlyCalls, Zenon
    <3> QED  BY <3>5 DEF Due, Complete
  <2>2. CASE RunCancel
    <3>1. turn' = "settled" /\ c = [fn |-> "cancelAll", from |-> 0, upto |-> Len(tasks)]
      BY <2>2, OnlyCalls DEF RunCancel
    <3> QED  BY <3>1 DEF Due
  <2>3. ASSUME NEW t \in Spawned, PromiseSettles(t) PROVE Due(c)
    <3>1. Push([fn |-> "apply", task |-> t]) \/ Push(Complete(t, "failed"))
      BY <2>3 DEF PromiseSettles
    <3>2. c = [fn |-> "apply", task |-> t] \/ c = Complete(t, "failed")
      BY <3>1, OnlyCalls, Zenon
    <3> QED  BY <3>2 DEF Due, Complete
  <2>4. \A u : ObserveTask(u) => UNCHANGED stack  BY DEF ObserveTask
  <2> QED  BY <1>0, <1>4, <2>1, <2>2, <2>3, <2>4 DEF Host
<1> QED  BY <1>1, <1>2, <1>3, <1>4

LEMMA TellsDue ==
  ASSUME NEW n \in 1..MaxTasks, Typed(n), NEW c, In(stack', c), ~In(stack, c),
         NEW t, TellOwner(t), OnTop("settle") \/ OnTop("cancel")
  PROVE  Due(c)
<1>1. stack # <<>>  BY DEF OnTop
<1>2. PICK a, told, e :
        /\ e = [Top EXCEPT !.at = "finish"]
        /\ stack' = (IF told THEN <<a>> ELSE <<>>) \o <<e>> \o Tail(stack)
        /\ told => a.fn = "owner"
  <2>1. CASE tasks[t].owner = TheRun
    <3>1. stack' = (IF FALSE THEN <<0>> ELSE <<>>) \o <<[Top EXCEPT !.at = "finish"]>> \o Tail(stack)
      BY <2>1 DEF TellOwner
    <3> QED  BY <3>1, Zenon
  <2>2. CASE tasks[t].owner # TheRun
    <3>1. PICK a : a = [fn |-> "owner", task |-> tasks[t].owner]  OBVIOUS
    <3>2. stack' = (IF TRUE THEN <<a>> ELSE <<>>) \o <<[Top EXCEPT !.at = "finish"]>> \o Tail(stack)
      BY <2>2, <3>1 DEF TellOwner
    <3>3. a.fn = "owner"  BY <3>1
    <3> QED  BY <3>2, <3>3, Zenon
  <2> QED  BY <2>1, <2>2
<1>3. c = e \/ (told /\ c = a)  BY <1>1, <1>2, OnlyCalls, Zenon
<1>4. e.fn = Top.fn /\ e.task = Top.task  BY <1>1, <1>2, TopThen DEF OnTop
<1> QED  BY <1>2, <1>3, <1>4 DEF Due, OnTop

LEMMA VisitsDue ==
  ASSUME NEW n \in 1..MaxTasks, Typed(n), NEW c, In(stack', c), ~In(stack, c),
         NEW x \in Spawned, VisitChild(x), tasks[x].owner \in Spawned \/ OnTop("cancelAll"),
         OnTop("cancelAll") \/ OnTop("cancel") \/ (OnTop("complete") /\ Running(Top.task))
  PROVE  Due(c)
<1>1. stack # <<>>  BY DEF OnTop
<1>2. PICK e : e = [Top EXCEPT !.from = x]  OBVIOUS
<1>3. PICK a : a = CancelCall(x, FALSE)  OBVIOUS
<1>4. stack' = (IF Live(x) THEN <<a>> ELSE <<>>) \o <<e>> \o Tail(stack)
  BY <1>2, <1>3 DEF VisitChild
<1>5. c = e \/ c = a  BY <1>1, <1>4, OnlyCalls, Zenon
<1>6. CASE c = a
  <2>1. c.fn = "cancel" /\ c.task = x  BY <1>3, <1>6 DEF CancelCall
  <2> QED  BY <2>1 DEF Due
<1>7. CASE c = e
  <2>1. CASE OnTop("cancelAll")
    <3>1. c.fn = "cancelAll"  BY <1>1, <1>2, <1>7, <2>1, TopThen DEF OnTop
    <3> QED  BY <2>1, <3>1 DEF Due
  <2>2. CASE Top.fn \in {"cancel", "complete"}
    <3>1. c.fn = Top.fn /\ c.task = Top.task  BY <1>1, <1>2, <1>7, <2>2, TopThen
    <3> QED  BY <1>1, <2>2, <3>1 DEF Due, OnTop
  <2> QED  BY <2>1, <2>2 DEF OnTop
<1> QED  BY <1>5, <1>6, <1>7

LEMMA RuntimeDue ==
  ASSUME NEW n \in 1..MaxTasks, Typed(n), NEW c, In(stack', c), ~In(stack, c), Runtime
  PROVE  Due(c)
<1>0. ~UNCHANGED stack /\ Spawned = 1..n  BY TypedStack DEF In
<1>1. CASE ApplyContinuation \/ CompleteEntry
  <2>1. stack # <<>> /\ Top.fn \in {"apply", "complete"}
    BY <1>1 DEF ApplyContinuation, CompleteEntry, OnTop
  <2>2. ~Pop  BY <2>1, OnlyCalls
  <2>3. CASE Become(Complete(Top.task, "failed"))
    <3>1. c = Complete(Top.task, "failed")  BY <2>1, <2>3, OnlyCalls
    <3> QED  BY <3>1 DEF Due, Complete
  <2>4. CASE Become(Vm(Top.task, "apply")) /\ Live(Top.task)
    <3>1. c = Vm(Top.task, "apply")  BY <2>1, <2>4, OnlyCalls
    <3> QED  BY <2>4, <3>1 DEF Due, Vm
  <2>5. CASE Become([Top EXCEPT !.at = "children"]) /\ Live(Top.task) /\ Top.fn = "complete"
    <3>1. c = [Top EXCEPT !.at = "children"]  BY <2>1, <2>5, OnlyCalls, Zenon
    <3>2. c.fn = "complete" /\ c.task = Top.task  BY <2>1, <2>5, <3>1, TopThen
    <3> QED  BY <2>5, <3>2 DEF Due
  <2> QED  BY <1>1, <2>2, <2>3, <2>4, <2>5 DEF ApplyContinuation, CompleteEntry, OnTop, Live
<1>2. CASE CompleteCancelsChild \/ CancelCancelsChild
  <2>1. PICK x \in Spawned : x \in Children(Top.task) /\ VisitChild(x)
    BY <1>2, Zenon DEF CompleteCancelsChild, CancelCancelsChild, NextChild
  <2>2. Top.task \in Spawned  BY <1>2, OnCallTyped DEF CompleteCancelsChild, CancelCancelsChild
  <2>3. tasks[x].owner \in Spawned  BY <2>1, <2>2 DEF Children
  <2>4. OnTop("cancel") \/ (OnTop("complete") /\ Running(Top.task))
    BY <1>2 DEF CompleteCancelsChild, CancelCancelsChild, OnTop, Running, CodeOf
  <2> QED  BY <2>1, <2>3, <2>4, VisitsDue
<1>3. CASE CancelAll
  <2>1. stack # <<>> /\ Top \in CancelAllCall(1..n) /\ OnTop("cancelAll")
    BY <1>3, TypedStack, CallKinds DEF CancelAll, OnTop
  <2>2. Top.from # Top.upto  BY <1>3, <2>1, OnlyCalls DEF CancelAll
  <2>3. Top.from + 1 \in Spawned  BY <1>0, <2>1, <2>2 DEF CancelAllCall
  <2>4. VisitChild(Top.from + 1)  BY <1>3, <2>2 DEF CancelAll, VisitChild
  <2> QED  BY <2>1, <2>3, <2>4, VisitsDue
<1>4. CASE CompleteDecides \/ OwnerCompletes
  <2>1. stack # <<>>  BY <1>4 DEF CompleteDecides, OwnerCompletes, OnTop
  <2>2. ~Pop  BY <2>1, OnlyCalls
  <2>3. PICK t : Become([fn |-> "settle", task |-> t, at |-> "waiters"])
    BY <1>4, <2>2 DEF CompleteDecides, OwnerCompletes, Terminate
  <2>4. c = [fn |-> "settle", task |-> t, at |-> "waiters"]  BY <2>1, <2>3, OnlyCalls, Zenon
  <2> QED  BY <2>4 DEF Due
<1>5. CASE SettleResumesWaiter \/ CancelResumesWaiter
  <2>1. Top.task \in Spawned  BY <1>5, OnCallTyped DEF SettleResumesWaiter, CancelResumesWaiter
  <2>2. PICK w \in tasks[Top.task].waiters, caller \in {"terminal", "cancel"} :
          Push(Vm(w, caller)) \/ Push(Complete(w, "failed"))
    BY <1>0, <1>5 DEF SettleResumesWaiter, CancelResumesWaiter
  <2>3. c = Vm(w, caller) \/ c = Complete(w, "failed")  BY <2>2, OnlyCalls, Zenon
  <2>4. \E u \in Spawned : w \in tasks[u].waiters  BY <2>1, <2>2
  <2> QED  BY <2>3, <2>4 DEF Due, Vm, Complete
<1>6. CASE SettleNotifies \/ SinkReturns \/ CancelNotifies
  <2>1. OnTop("settle") \/ OnTop("cancel")  BY <1>6 DEF SettleNotifies, SinkReturns, CancelNotifies
  <2>2. CASE TellOwner(Top.task)  BY <2>1, <2>2, TellsDue
  <2>3. CASE Become([Top EXCEPT !.at = "sink"]) /\ OnTop("settle")
    <3>1. stack # <<>>  BY <2>1 DEF OnTop
    <3>2. c = [Top EXCEPT !.at = "sink"]  BY <2>3, <3>1, OnlyCalls, Zenon
    <3>3. c.fn = "settle"  BY <2>3, <3>1, <3>2, TopThen DEF OnTop
    <3> QED  BY <3>3 DEF Due
  <2> QED  BY <1>6, <2>2, <2>3 DEF SettleNotifies, SinkReturns, CancelNotifies
<1>7. CASE CancelTerminates
  <2>1. OnTop("cancel") /\ stack # <<>>  BY <1>7 DEF CancelTerminates, OnTop
  <2>2. c = [Top EXCEPT !.at = "waiters"]  BY <1>7, <2>1, OnlyCalls, Zenon DEF CancelTerminates
  <2>3. c.fn = "cancel" /\ c.task = Top.task  BY <2>1, <2>2, TopThen DEF OnTop
  <2> QED  BY <2>1, <2>3 DEF Due
<1>8. ~SettleFinishes /\ ~CancelFinishes
  <2>1. SettleFinishes \/ CancelFinishes => stack # <<>> /\ Pop
    BY DEF SettleFinishes, CancelFinishes, OnTop
  <2> QED  BY <2>1, OnlyCalls
<1> QED  BY <1>1, <1>2, <1>3, <1>4, <1>5, <1>6, <1>7, <1>8 DEF Runtime

LEMMA NextDue ==
  ASSUME NEW n \in 1..MaxTasks, Typed(n), NEW c, In(stack', c), ~In(stack, c), [Next]_vars
  PROVE  Due(c)
<1>1. ~UNCHANGED vars  BY DEF In, vars
<1> QED  BY <1>1, OthersDue, RuntimeDue DEF Next

-----------------------------------------------------------------------------
(* Late answers.                                                            *)
LEMMA NextOver ==
  ASSUME NEW n \in 1..MaxTasks, Typed(n), [Next]_vars, NEW t \in Spawned, Over(t)
  PROVE  Over(t)'
<1>1. StatesStay  BY NextStates
<1>2. ~Running(t)
  <2>1. stack # <<>> => Top \in {stack[i] : i \in DOMAIN stack}
    <3> SUFFICES ASSUME stack # <<>> PROVE Top \in {stack[i] : i \in DOMAIN stack}
      OBVIOUS
    <3>1. In(stack, Head(stack))  BY TailIn DEF Typed
    <3> QED  BY <3>1 DEF In, Top
  <2> QED  BY <2>1 DEF Over, Running
<1>3. ~Live(t)'
  <2>1. tasks[t].state = "terminal"  BY DEF Over, Live
  <2>2. tasks'[t].state = "terminal"
    BY <1>1, <1>2, <2>1 DEF StatesStay, Stable, Ended, Completing
  <2> QED  BY <2>2 DEF Live
<1>4. ASSUME NEW u \in Spawned' PROVE t \notin tasks'[u].waiters
  <2>1. CASE u \notin Spawned  BY <1>1, <2>1 DEF StatesStay
  <2>2. CASE u \in Spawned
    <3>1. t \notin tasks[u].waiters  BY <2>2 DEF Over
    <3> QED  BY <1>1, <1>2, <2>2, <3>1 DEF StatesStay, Stable, Ended, Completing
  <2> QED  BY <2>1, <2>2
<1>5. ASSUME NEW i \in DOMAIN stack', CodeOf(stack'[i], t) PROVE FALSE
  <2>1. PICK c : c = stack'[i]  OBVIOUS
  <2>2. In(stack', c) /\ CodeOf(c, t)  BY <1>5, <2>1 DEF In
  <2>3. ~In(stack, c)  BY <2>2 DEF Over, In
  <2>4. Due(c)  BY <2>2, <2>3, NextDue
  <2>5. c.task = t /\ c.fn \in {"vm", "effect", "handler", "complete"}
        /\ (c.fn = "complete" => c.at = "children")
    BY <2>2 DEF CodeOf
  <2>6. Live(t) \/ Running(t) \/ \E u \in Spawned : t \in tasks[u].waiters
    BY <2>4, <2>5 DEF Due
  <2> QED  BY <1>2, <2>6 DEF Over
<1> QED  BY <1>3, <1>4, <1>5 DEF Over

(* A late answer is ignored (applyContinuation and the guards of             *)
(* completeTask, host.ts:2837 and :2435): a task that has ended, has no code *)
(* in progress and waits in no other task's list neither comes back nor has  *)
(* code run again, whatever still answers it.                               *)
THEOREM LateAnswersAlwaysIgnored == Spec => LateAnswersIgnored
<1>1. TypeOK /\ [Next]_vars => [\A t \in Spawned : Over(t) => Over(t)']_vars
  BY NextOver DEF TypeOK
<1>2. Init => TypeOK  BY InitTyped DEF TypeOK
<1>3. TypeOK /\ [Next]_vars => TypeOK'  BY NextTyped DEF TypeOK
<1> QED  BY <1>1, <1>2, <1>3, PTL DEF Spec, LateAnswersIgnored

-----------------------------------------------------------------------------
(* The last child completes its owner.  The call that still has to tell the *)
(* owner of the end of a task is on the stack.                              *)
OwnerOf(t) == [fn |-> "owner", task |-> t]
Telling(call, c) ==
  call.fn \in {"settle", "cancel"} /\ call.task = c /\ call.at \in {"waiters", "sink"}
Awaited(t) ==
  \/ \E c \in Children(t) : Live(c)
  \/ In(stack, OwnerOf(t))
  \/ \E c \in Children(t), call \in {stack[i] : i \in DOMAIN stack} : Telling(call, c)

Completed ==
  \A t \in Spawned :
    tasks[t].state = "completing" => tasks[t].completion # "none" /\ Awaited(t)

LEMMA TellsOwner ==
  ASSUME NEW n \in 1..MaxTasks, Typed(n), stack # <<>>, NEW t \in Spawned,
         tasks[t].owner # TheRun, TellOwner(t)
  PROVE  In(stack', OwnerOf(tasks[t].owner))
<1>1. PICK e : e = [Top EXCEPT !.at = "finish"]  OBVIOUS
<1>2. PICK a : a = OwnerOf(tasks[t].owner)  OBVIOUS
<1>3. PICK rest \in Seq(Call(1..n)) : rest = Tail(stack)  BY TypedStack
<1>4. stack' = <<a>> \o <<e>> \o rest  BY <1>1, <1>2, <1>3 DEF TellOwner, OwnerOf
<1>5. In(<<a>>, a)
  <2>1. DOMAIN <<a>> = {1} /\ <<a>>[1] = a  OBVIOUS
  <2> QED  BY <2>1 DEF In
<1>6. <<a>> \in Seq({a, e}) /\ <<e>> \in Seq({a, e})  OBVIOUS
<1>7. PICK front \in Seq({a, e}) : front = <<a>> \o <<e>>  BY <1>6, ConcatProperties
<1>8. In(front, a)
  <2>1. In(<<a>> \o <<e>>, a)  BY <1>5, <1>6, ConcatIn
  <2> QED  BY <1>7, <2>1
<1>9. In(front \o rest, a)  BY <1>8, ConcatIn
<1>10. stack' = front \o rest  BY <1>4, <1>7
<1> QED  BY <1>2, <1>9, <1>10

LEMMA TellingStays ==
  ASSUME NEW n \in 1..MaxTasks, Typed(n), NEW t \in Spawned, tasks[t].owner # TheRun,
         NEW c, In(stack, c), Telling(c, t), [Next]_vars
  PROVE  In(stack', OwnerOf(tasks[t].owner)) \/ \E d : In(stack', d) /\ Telling(d, t)
<1>1. CASE In(stack', c)  BY <1>1
<1>2. CASE c # Top  BY <1>2, CallsStay
<1>3. CASE c = Top /\ ~In(stack', c)
  <2>1. /\ stack # <<>> /\ Top.fn \in {"settle", "cancel"} /\ Top.at \in {"waiters", "sink"}
        /\ Top.task = t
    BY <1>3 DEF Telling, In
  <2>2. ~\E e : Push(e)  BY <1>3, UnderStays
  <2>3. ~UNCHANGED stack  BY <1>3 DEF In
  <2>4. Step \/ Program \/ Suspend \/ Runtime \/ Host
    BY <2>3 DEF Next, vars
  <2>5. ~Step  BY <2>1 DEF Step, StepSettles, StepParks, StepPolls
  <2>6. ~Program  BY <2>1 DEF OnTop, Program, Spawn, CancelTask, TakeValue, VmReturns, VmTraps
  <2>7. ~Suspend
    BY <2>1 DEF OnTop, OnEffect, Suspend, TaskReturns, WaitTask, YieldOnce, FailureMessage, CallHandler
  <2>8. ~Host
    BY <2>1, <2>2, <2>3 DEF OnTop, Host, HandlerReturns, RunCancel, PromiseSettles, ObserveTask
  <2>9. Runtime => SettleNotifies \/ SinkReturns \/ CancelNotifies
    BY <2>1, <2>2, <2>3 DEF OnTop, Runtime, ApplyContinuation, CompleteEntry, CompleteCancelsChild,
         CompleteDecides, OwnerCompletes, SettleFinishes, CancelCancelsChild, CancelTerminates,
         CancelResumesWaiter, SettleResumesWaiter, CancelFinishes, CancelAll
  <2>10. CASE TellOwner(t)  BY <2>1, <2>10, TellsOwner
  <2>11. CASE SettleNotifies /\ Become([Top EXCEPT !.at = "sink"])
    <3>1. Top \in SettleCall(1..n)  BY <2>11, OnCallTyped DEF SettleNotifies
    <3>2. [Top EXCEPT !.at = "sink"] = SinkOf(t)  BY <2>1, <3>1 DEF SettleCall, SinkOf
    <3>3. stack' = <<SinkOf(t)>> \o Tail(stack) /\ Tail(stack) \in Seq(Call(1..n))
      BY <2>1, <2>11, <3>2, TypedStack DEF Become
    <3>4. In(stack', SinkOf(t))  BY <3>3, FirstIn
    <3>5. Telling(SinkOf(t), t)  BY DEF Telling, SinkOf
    <3> QED  BY <3>4, <3>5
  <2> QED
    BY <2>1, <2>4, <2>5, <2>6, <2>7, <2>8, <2>9, <2>10, <2>11
       DEF SettleNotifies, SinkReturns, CancelNotifies
<1> QED  BY <1>1, <1>2, <1>3

(* The owner a task has it keeps; and a task that ends has its end told.    *)
LEMMA EndIsTold ==
  ASSUME NEW n \in 1..MaxTasks, Typed(n), Claims, [Next]_vars, NEW t \in Spawned
  PROVE  /\ t \in Spawned' /\ tasks'[t].owner = tasks[t].owner
         /\ Live(t) /\ ~Live(t)' => \E d : In(stack', d) /\ Telling(d, t)
<1>1. CASE RecordsLast  BY <1>1 DEF RecordsLast, Lasting, Live
<1>2. ASSUME NEW u \in Spawned, NEW new \in {n + 1}, Spawns(u, new)
      PROVE  t \in Spawned' /\ tasks'[t].owner = tasks[t].owner /\ (Live(t) => Live(t)')
  BY <1>2 DEF Spawns, Lasting, Live
<1>3. ASSUME NEW u \in Spawned, NEW k, Ends(u, k), NEW d, In(stack', d), Telling(d, u)
      PROVE  /\ t \in Spawned' /\ tasks'[t].owner = tasks[t].owner
             /\ Live(t) /\ ~Live(t)' => \E e : In(stack', e) /\ Telling(e, t)
  <2>1. CASE t = u  BY <1>3, <2>1 DEF Ends
  <2>2. CASE t # u
    <3>1. t \in Spawned' /\ tasks'[t] = tasks[t]  BY <1>3, <2>2 DEF Ends
    <3> QED  BY <3>1 DEF Live
  <2> QED  BY <2>1, <2>2
<1>4. ASSUME NEW u \in Spawned, NEW k \in Completion, Decides(u, k)
      PROVE  In(stack', SettleOf(u)) /\ Telling(SettleOf(u), u)
  <2>1. stack' = <<SettleOf(u)>> \o Tail(stack) /\ Tail(stack) \in Seq(Call(1..n))
    BY <1>4, TypedStack DEF Decides, Become, SettleOf
  <2> QED  BY <2>1, FirstIn DEF Telling, SettleOf
<1>5. ASSUME CancelTerminates
      PROVE  \E d : In(stack', d) /\ Telling(d, Top.task)
  <2>1. stack # <<>> /\ Top.fn = "cancel" /\ Tail(stack) \in Seq(Call(1..n))
    BY <1>5, TypedStack DEF CancelTerminates, OnTop
  <2>2. PICK d : d = [Top EXCEPT !.at = "waiters"]  OBVIOUS
  <2>3. d.fn = "cancel" /\ d.task = Top.task  BY <2>1, <2>2, TopThen
  <2>4. d.at = "waiters"
    <3>1. Top \in CancelTaskCall(1..n)  BY <1>5, OnCallTyped DEF CancelTerminates
    <3> QED  BY <2>2, <3>1 DEF CancelTaskCall
  <2>5. stack' = <<d>> \o Tail(stack)  BY <1>5, <2>2 DEF CancelTerminates, Become
  <2>6. In(stack', d)  BY <2>1, <2>5, FirstIn
  <2> QED  BY <2>3, <2>4, <2>6 DEF Telling
<1>6. CASE \E u \in Spawned, k \in Completion : Decides(u, k)
  <2>1. PICK u \in Spawned, k \in Completion : Decides(u, k)  BY <1>6
  <2>2. Ends(u, k)  BY <2>1 DEF Decides
  <2> QED  BY <1>3, <1>4, <2>1, <2>2
<1>7. CASE CancelTerminates /\ Top.task \in Spawned /\ Ends(Top.task, "cancelled")
  <2>1. PICK d : In(stack', d) /\ Telling(d, Top.task)  BY <1>5, <1>7
  <2> QED  BY <1>3, <1>7, <2>1
<1> QED  BY <1>1, <1>2, <1>6, <1>7, NextRecords

LEMMA OwnerLooks ==
  ASSUME NEW n \in 1..MaxTasks, Typed(n), NEW t \in Spawned, In(stack, OwnerOf(t)),
         tasks[t].state = "completing", tasks[t].completion # "none",
         Live(t)', [Next]_vars
  PROVE  In(stack', OwnerOf(t)) \/ \E c \in Children(t)' : Live(c)'
<1>1. CASE OwnerOf(t) # Top  BY <1>1, CallsStay
<1>2. CASE UNCHANGED stack  BY <1>2 DEF In
<1>3. CASE OwnerOf(t) = Top /\ ~UNCHANGED stack
  <2>1. stack # <<>> /\ Top.fn = "owner" /\ Top.task = t  BY <1>3 DEF In, OwnerOf
  <2>2. Step \/ Program \/ Suspend \/ Runtime \/ Host  BY <1>3 DEF Next, vars
  <2>3. ~Step  BY <2>1 DEF Step, StepSettles, StepParks, StepPolls
  <2>4. ~Program  BY <2>1 DEF OnTop, Program, Spawn, CancelTask, TakeValue, VmReturns, VmTraps
  <2>5. ~Suspend
    BY <2>1 DEF OnTop, OnEffect, Suspend, TaskReturns, WaitTask, YieldOnce, FailureMessage, CallHandler
  <2>6. ~Host
    BY <1>3, <2>1 DEF OnTop, Host, HandlerReturns, RunCancel, HostCode, PromiseSettles, ObserveTask
  <2>7. OwnerCompletes
    BY <2>1, <2>2, <2>3, <2>4, <2>5, <2>6
       DEF OnTop, Runtime, ApplyContinuation, CompleteEntry, CompleteCancelsChild,
         CompleteDecides, SettleFinishes, CancelCancelsChild, CancelTerminates,
         CancelResumesWaiter, SettleResumesWaiter, CancelFinishes, CancelAll, SettleNotifies,
         SinkReturns, CancelNotifies
  <2>8. CASE \E c \in Children(t) : Live(c)
    <3>1. UNCHANGED tasks  BY <2>1, <2>7, <2>8 DEF OwnerCompletes
    <3> QED  BY <2>8, <3>1 DEF Children, Live, Spawned
  <2>9. CASE ~\E c \in Children(t) : Live(c)
    <3>1. Terminate(t, tasks[t].completion)  BY <2>1, <2>7, <2>9, Zenon DEF OwnerCompletes
    <3>2. PICK k : Ends(t, k)  BY <3>1, TerminateEnds
    <3> QED  BY <3>2 DEF Ends, Live
  <2> QED  BY <2>8, <2>9
<1> QED  BY <1>1, <1>2, <1>3

LEMMA NextCompleted ==
  ASSUME NEW n \in 1..MaxTasks, Typed(n), Claims, Completed, [Next]_vars
  PROVE  Completed'
<1>1. StatesStay  BY NextStates
<1>2. ASSUME NEW t \in Spawned', tasks'[t].state = "completing"
      PROVE  tasks'[t].completion # "none" /\ Awaited(t)'
  <2>1. t \in Spawned  BY <1>1, <1>2 DEF StatesStay
  <2>2. CASE Completing(t)  BY <2>2 DEF Completing, Awaited
  <2>3. CASE ~Completing(t)
    <3>1. Stable(t, tasks[t], tasks'[t])  BY <1>1, <1>2, <2>1, <2>3 DEF StatesStay, Ended
    <3>2. tasks[t].state = "completing" /\ tasks'[t].completion = tasks[t].completion
      BY <1>2, <3>1 DEF Stable
    <3>3. tasks[t].completion # "none" /\ Awaited(t)  BY <2>1, <3>2 DEF Completed
    <3>4. Spawned = 1..n /\ t # TheRun  BY <2>1, TypedStack DEF TheRun
    <3>5. \A c, d : c \in Children(t)' /\ In(stack', d) /\ Telling(d, c) => Awaited(t)'
      BY DEF Awaited, In
    <3>6. \A c \in Children(t) : c \in Children(t)'
      BY EndIsTold DEF Children
    <3>7. ASSUME \E c \in Children(t) : Live(c) PROVE Awaited(t)'
      <4>1. PICK c \in Children(t) : Live(c) /\ c \in Spawned  BY <3>7 DEF Children
      <4>2. CASE Live(c)'  BY <3>6, <4>1, <4>2 DEF Awaited
      <4>3. CASE ~Live(c)'
        <5>1. PICK d : In(stack', d) /\ Telling(d, c)  BY <4>1, <4>3, EndIsTold
        <5> QED  BY <3>5, <3>6, <4>1, <5>1
      <4> QED  BY <4>2, <4>3
    <3>8. ASSUME In(stack, OwnerOf(t)) PROVE Awaited(t)'
      <4>1. Live(t)'  BY <1>2 DEF Live
      <4>2. In(stack', OwnerOf(t)) \/ \E c \in Children(t)' : Live(c)'
        BY <2>1, <3>2, <3>3, <3>8, <4>1, OwnerLooks
      <4> QED  BY <4>2 DEF Awaited, OwnerOf
    <3>9. ASSUME \E c \in Children(t), call \in {stack[i] : i \in DOMAIN stack} : Telling(call, c)
          PROVE  Awaited(t)'
      <4>1. PICK c \in Children(t), call \in {stack[i] : i \in DOMAIN stack} :
               In(stack, call) /\ Telling(call, c)
        BY <3>9 DEF In
      <4>2. c \in Spawned /\ tasks[c].owner = t  BY <4>1 DEF Children
      <4>3. In(stack', OwnerOf(t)) \/ \E d : In(stack', d) /\ Telling(d, c)
        BY <3>4, <4>1, <4>2, TellingStays
      <4>4. In(stack', OwnerOf(t)) => Awaited(t)'  BY DEF Awaited, OwnerOf
      <4> QED  BY <3>5, <3>6, <4>1, <4>3, <4>4
    <3>10. Awaited(t)'  BY <3>3, <3>7, <3>8, <3>9 DEF Awaited
    <3> QED  BY <3>2, <3>3, <3>10
  <2> QED  BY <2>2, <2>3
<1> QED  BY <1>2 DEF Completed

LEMMA InitCompleted == Init => Completed
<1> SUFFICES ASSUME Init PROVE Completed
  OBVIOUS
<1> DEFINE root == NewTask(TheRun, FALSE, {}, FALSE)
<1>1. root.state = "ready"  BY DEF NewTask
<1>2. tasks = <<root>>  BY DEF Init
<1> HIDE DEF root
<1>3. Spawned = {1} /\ tasks[1] = root  BY <1>2 DEF Spawned
<1> QED  BY <1>1, <1>3 DEF Completed

(* Whoever ends the last child of a task that waits for its children -- the *)
(* child itself, a cancellation, the host -- completes that task in the same *)
(* chain of calls (maybeCompleteOwner): none is left waiting for nobody.    *)
THEOREM OwnersAlwaysComplete == Spec => []OwnersComplete
<1>1. Init => TypeOK /\ Claims /\ Completed
  BY InitTyped, InitClaims, InitCompleted DEF TypeOK
<1>2. TypeOK /\ Claims /\ Completed /\ [Next]_vars => TypeOK' /\ Claims' /\ Completed'
  BY NextTyped, NextClaims, NextCompleted DEF TypeOK
<1>3. Completed => OwnersComplete
  <2> SUFFICES ASSUME Completed, Quiet, NEW t \in Spawned, tasks[t].state = "completing"
               PROVE  \E c \in Children(t) : Live(c)
    BY DEF OwnersComplete
  <2>1. DOMAIN stack = {}  BY DEF Quiet
  <2>2. Awaited(t)  BY DEF Completed
  <2> QED  BY <2>1, <2>2 DEF Awaited, In
<1> QED  BY <1>1, <1>2, <1>3, PTL DEF Spec

-----------------------------------------------------------------------------
(* What an end leaves: who ended of itself stays ended, and its children    *)
(* have ended too.                                                          *)
EndedGone == \A t \in Spawned : tasks[t].terminal \in {"value", "failed"} => Gone(t)
EndStays == \A t \in Spawned : tasks[t].terminal \in {"value", "failed"} => ~Live(t)
ChildrenDone ==
  \A t \in Spawned : tasks[t].terminal = "value" =>
    \A c \in Children(t) : ~Live(c) /\ (tasks[c].terminal = "failed" => tasks[c].observed)

LEMMA InitEnds == Init => EndStays /\ EndedGone /\ ChildrenDone
<1> SUFFICES ASSUME Init PROVE EndStays /\ EndedGone /\ ChildrenDone
  OBVIOUS
<1> DEFINE root == NewTask(TheRun, FALSE, {}, FALSE)
<1>1. root.terminal = "none"  BY DEF NewTask
<1>2. tasks = <<root>>  BY DEF Init
<1> HIDE DEF root
<1>3. Spawned = {1} /\ tasks[1] = root  BY <1>2 DEF Spawned
<1> QED  BY <1>1, <1>3 DEF EndStays, EndedGone, ChildrenDone

(* Who ends of itself leaves no code behind.                                *)
LEMMA DecidesGone ==
  ASSUME NEW n \in 1..MaxTasks, Typed(n), Threads, NEW t \in Spawned, NEW k, Decides(t, k)
  PROVE  ~Gone(t) /\ Gone(t)'
<1>1. stack # <<>> /\ stack \in Seq(Call(1..n))  BY DEF Decides, Typed
<1>2. PICK e : e.fn = "settle" /\ Become(e)
  <2>1. [fn |-> "settle", task |-> t, at |-> "waiters"].fn = "settle"  OBVIOUS
  <2> QED  BY <2>1 DEF Decides
<1>3. Has(stack', t) => Has(stack, t) /\ ~Code(Top, t)  BY <1>1, <1>2, BecomesOwn
<1>4. Code(Top, t) => Has(stack, t)  BY <1>1, TopCode DEF Top
<1>5. Code(Top, t) \/ tasks[t].state = "completing"  BY DEF Decides
<1>6. /\ ~Queued(t) /\ ~tasks[t].promise /\ \A u \in Spawned : t \notin tasks[u].waiters
      /\ tasks[t].state = "completing" => ~Has(stack, t)
  BY <1>4, <1>5, Only
<1>7. ~Gone(t)  BY <1>4, <1>5 DEF Gone
<1>8. ~Has(stack', t)  BY <1>3, <1>5, <1>6
<1>9. /\ ~Queued(t)' /\ ~tasks'[t].promise /\ tasks'[t].state # "completing"
  BY <1>6 DEF Queued, Decides, Ends
<1>10. \A u \in Spawned' : t \notin tasks'[u].waiters
  <2> SUFFICES ASSUME NEW u \in Spawned' PROVE t \notin tasks'[u].waiters
    OBVIOUS
  <2>1. u \in Spawned /\ tasks'[u].waiters = tasks[u].waiters
    BY Zenon DEF Decides, Ends
  <2> QED  BY <1>6, <2>1
<1> QED  BY <1>7, <1>8, <1>9, <1>10 DEF Gone

LEMMA NextGone ==
  ASSUME NEW n \in 1..MaxTasks, Typed(n), Claims, Threads, Requests, EndedGone, [Next]_vars
  PROVE  EndedGone'
<1> SUFFICES ASSUME NEW t \in Spawned', tasks'[t].terminal \in {"value", "failed"}
             PROVE  Gone(t)'
  BY DEF EndedGone
<1>1. CASE t \in Spawned /\ tasks'[t].terminal = tasks[t].terminal
  BY <1>1, NextThreads DEF EndedGone, KeepsThreads
<1>2. CASE RecordsLast  BY <1>1, <1>2 DEF RecordsLast, Lasting
<1>3. ASSUME NEW u \in Spawned, NEW k, Ends(u, k), t # u
      PROVE  Gone(t)'
  <2>1. t \in Spawned /\ tasks'[t] = tasks[t]  BY <1>3 DEF Ends
  <2> QED  BY <1>1, <2>1
<1>4. ASSUME NEW u \in Spawned, NEW k \in Completion, Decides(u, k)
      PROVE  Gone(t)'
  <2>1. CASE t = u  BY <1>4, <2>1, DecidesGone
  <2>2. CASE t # u  BY <1>3, <1>4, <2>2 DEF Decides
  <2> QED  BY <2>1, <2>2
<1>5. CASE CancelTerminates /\ Top.task \in Spawned /\ Ends(Top.task, "cancelled")
  <2>1. PICK u \in Spawned, k \in {"cancelled"} : Ends(u, k)  BY <1>5
  <2>2. t # u  BY <2>1 DEF Ends
  <2> QED  BY <1>3, <2>1, <2>2
<1>6. ASSUME NEW u \in Spawned, NEW new \in {n + 1}, Spawns(u, new)
      PROVE  Gone(t)'
  BY <1>1, <1>6 DEF Spawns, Lasting
<1> QED  BY <1>2, <1>4, <1>5, <1>6, NextRecords

LEMMA GoneRests ==
  ASSUME NEW n \in 1..MaxTasks, Typed(n), NEW t, Gone(t)
  PROVE  ~Running(t)
<1> SUFFICES ASSUME Running(t) PROVE FALSE
  OBVIOUS
<1>1. stack # <<>> /\ stack \in Seq(Call(1..n)) /\ Code(Top, t)
  BY DEF Running, CodeOf, Code, Typed
<1>2. Has(stack, t)  BY <1>1, TopCode DEF Top
<1> QED  BY <1>2 DEF Gone

LEMMA NextEndStays ==
  ASSUME NEW n \in 1..MaxTasks, Typed(n), Claims, EndedGone, EndStays, [Next]_vars
  PROVE  EndStays'
<1> SUFFICES ASSUME NEW t \in Spawned', tasks'[t].terminal \in {"value", "failed"}
             PROVE  tasks'[t].state = "terminal"
  BY DEF EndStays, Live
<1>1. CASE t \in Spawned /\ tasks'[t].terminal = tasks[t].terminal
  <2>1. Gone(t) /\ tasks[t].state = "terminal"  BY <1>1 DEF EndedGone, EndStays, Live
  <2>2. ~Running(t)  BY <2>1, GoneRests
  <2> QED  BY <1>1, <2>1, <2>2, NextStates DEF StatesStay, Stable, Ended, Completing
<1>2. CASE RecordsLast  BY <1>1, <1>2 DEF RecordsLast, Lasting
<1>3. ASSUME NEW u \in Spawned, NEW k, Ends(u, k)
      PROVE  tasks'[t].state = "terminal"
  <2>1. CASE t = u  BY <1>3, <2>1 DEF Ends
  <2>2. CASE t # u
    <3>1. t \in Spawned /\ tasks'[t] = tasks[t]  BY <1>3, <2>2 DEF Ends
    <3> QED  BY <1>1, <3>1
  <2> QED  BY <2>1, <2>2
<1>4. ASSUME NEW u \in Spawned, NEW new \in {n + 1}, Spawns(u, new)
      PROVE  tasks'[t].state = "terminal"
  BY <1>1, <1>4 DEF Spawns, Lasting
<1> QED  BY <1>2, <1>3, <1>4, NextRecords DEF Decides

(* A child that has ended, under an owner that ended with a value, and whose *)
(* end the step does not replace.                                           *)
LEMMA ChildStays ==
  ASSUME NEW n \in 1..MaxTasks, Typed(n), Claims, EndedGone, EndStays, [Next]_vars,
         ChildStaysCancelled, NEW t \in Spawned, tasks[t].terminal = "value",
         NEW c \in Spawned, tasks[c].owner = t, ~Live(c),
         tasks[c].terminal = "failed" => tasks[c].observed,
         tasks[c].terminal = "cancelled" \/
           (tasks'[c].terminal = tasks[c].terminal /\ (tasks[c].observed => tasks'[c].observed))
  PROVE  tasks'[c].state = "terminal" /\ (tasks'[c].terminal = "failed" => tasks'[c].observed)
<1>1. t # TheRun  BY TypedStack DEF TheRun
<1>2. tasks[c].terminal \in Kind  BY TypedStack DEF Typed, Task, TaskRecord, Live
<1>3. CASE tasks[c].terminal = "cancelled"
  <2>1. tasks'[c].state = "terminal" /\ tasks'[c].terminal = "cancelled"
    BY <1>1, <1>3 DEF ChildStaysCancelled
  <2> QED  BY <2>1
<1>4. CASE tasks[c].terminal \in {"value", "failed"}
  <2>1. c \in Spawned' /\ tasks'[c].terminal = tasks[c].terminal
    BY <1>4, EndIsTold
  <2>2. tasks'[c].state = "terminal"  BY <1>4, <2>1, NextEndStays DEF EndStays, Live
  <2> QED  BY <1>4, <2>1, <2>2
<1> QED  BY <1>2, <1>3, <1>4 DEF Kind

LEMMA NextDone ==
  ASSUME NEW n \in 1..MaxTasks, Typed(n), Claims, Threads, EndedGone, EndStays,
         ChildrenDone, [Next]_vars, ChildStaysCancelled
  PROVE  ChildrenDone'
<1> SUFFICES ASSUME NEW t \in Spawned', tasks'[t].terminal = "value",
                    NEW c \in Spawned', tasks'[c].owner = t
             PROVE  tasks'[c].state = "terminal" /\ (tasks'[c].terminal = "failed" => tasks'[c].observed)
  BY DEF ChildrenDone, Children, Live
<1>1. ASSUME t \in Spawned, c \in Spawned, tasks[t].terminal = "value", tasks[c].owner = t
      PROVE  ~Live(c) /\ (tasks[c].terminal = "failed" => tasks[c].observed)
  BY <1>1 DEF ChildrenDone, Children
<1>2. CASE RecordsLast
  <2>1. /\ t \in Spawned /\ c \in Spawned
        /\ Lasting(tasks[t], tasks'[t]) /\ Lasting(tasks[c], tasks'[c])
    BY <1>2 DEF RecordsLast
  <2>2. /\ tasks[t].terminal = "value" /\ tasks[c].owner = t
        /\ tasks'[c].terminal = tasks[c].terminal /\ (tasks[c].observed => tasks'[c].observed)
    BY <2>1 DEF Lasting
  <2> QED  BY <1>1, <2>1, <2>2, ChildStays
<1>3. ASSUME NEW u \in Spawned, NEW k, Ends(u, k), u # t,
             u = c /\ k # "cancelled" => tasks[c].terminal \notin {"value", "failed"}
      PROVE  tasks'[c].state = "terminal" /\ (tasks'[c].terminal = "failed" => tasks'[c].observed)
  <2>1. /\ t \in Spawned /\ c \in Spawned /\ tasks'[t] = tasks[t]
        /\ tasks'[c].owner = tasks[c].owner
        /\ c # u => tasks'[c] = tasks[c]
    BY <1>3, Zenon DEF Ends
  <2>2. ~Live(c) /\ (tasks[c].terminal = "failed" => tasks[c].observed)  BY <1>1, <2>1
  <2>3. CASE c # u  BY <2>1, <2>2, <2>3, ChildStays
  <2>4. CASE c = u /\ k # "cancelled"
    <3>1. tasks[c].terminal \in Kind  BY <2>1, <2>2, TypedStack DEF Typed, Task, TaskRecord, Live
    <3>2. tasks[c].terminal = "cancelled"  BY <1>3, <2>4, <3>1 DEF Kind
    <3> QED  BY <2>1, <2>2, <3>2, ChildStays
  <2>5. CASE c = u /\ k = "cancelled"  BY <1>3, <2>5 DEF Ends
  <2> QED  BY <2>3, <2>4, <2>5
<1>4. ASSUME NEW u \in Spawned, NEW k \in Completion, Decides(u, k)
      PROVE  tasks'[c].state = "terminal" /\ (tasks'[c].terminal = "failed" => tasks'[c].observed)
  <2>1. Ends(u, k) /\ ~Gone(u)  BY <1>4, DecidesGone DEF Decides
  <2>2. CASE u # t
    <3>1. tasks[u].terminal \notin {"value", "failed"}  BY <2>1 DEF EndedGone
    <3> QED  BY <1>3, <2>1, <2>2, <3>1
  <2>3. CASE u = t
    <3>1. k = "value" /\ c \in Spawned /\ tasks'[c].owner = tasks[c].owner
          /\ (c # t => tasks'[c] = tasks[c])
      BY <2>1, <2>3, Zenon DEF Ends
    <3>2. ~Live(c) /\ (tasks[c].terminal = "failed" => tasks[c].observed)
      BY <1>4, <2>3, <3>1 DEF Decides, Children, UnobservedFailure
    <3>3. CASE c # t  BY <3>1, <3>2, <3>3 DEF Live
    <3>4. CASE c = t  BY <2>1, <2>3, <3>4 DEF Ends
    <3> QED  BY <3>3, <3>4
  <2> QED  BY <2>2, <2>3
<1>5. CASE CancelTerminates /\ Top.task \in Spawned /\ Ends(Top.task, "cancelled")
  <2>1. PICK u \in Spawned : Ends(u, "cancelled")  BY <1>5
  <2>2. u # t  BY <2>1 DEF Ends
  <2> QED  BY <1>3, <2>1, <2>2
<1>6. ASSUME NEW u \in Spawned, NEW new \in {n + 1}, Spawns(u, new)
      PROVE  tasks'[c].state = "terminal" /\ (tasks'[c].terminal = "failed" => tasks'[c].observed)
  <2>1. t \in Spawned /\ tasks[t].terminal = "value"
    BY <1>6 DEF Spawns, Lasting
  <2>2. t # u
    <3>1. stack # <<>> /\ stack \in Seq(Call(1..n)) /\ Code(Top, u)  BY <1>6 DEF Spawns, OnTop, Typed
    <3>2. Has(stack, u)  BY <3>1, TopCode DEF Top
    <3> QED  BY <2>1, <3>2 DEF EndedGone, Gone
  <2>3. CASE c = new
    <3>1. t \in 1..n  BY <2>1, TypedStack
    <3>2. tasks'[c].owner = TheRun \/ tasks'[c].owner = u  BY <1>6, <2>3 DEF Spawns
    <3> QED  BY <2>2, <3>1, <3>2 DEF TheRun
  <2>4. CASE c \in Spawned
    <3>1. Lasting(tasks[c], tasks'[c])  BY <1>6, <2>4 DEF Spawns
    <3>2. /\ tasks[c].owner = t /\ tasks'[c].terminal = tasks[c].terminal
          /\ (tasks[c].observed => tasks'[c].observed)
      BY <3>1 DEF Lasting
    <3> QED  BY <1>1, <2>1, <2>4, <3>2, ChildStays
  <2> QED  BY <1>6, <2>3, <2>4 DEF Spawns
<1> QED  BY <1>2, <1>4, <1>5, <1>6, NextRecords

(* No task ends with a value, or is left with one, while an attached child  *)
(* runs or has failed unobserved (buildTaskTerminal, completeTask,          *)
(* maybeCompleteOwner), as long as a child that was cancelled stays so once *)
(* its owner has ended with a value: that it comes back (host.ts:2821 and    *)
(* the like) is the only way to lose a failure.                             *)
THEOREM FailureAlwaysKept == ChildrenStaySpec => []FailureKept
<1>1. Init => /\ TypeOK /\ Claims /\ Threads /\ Requests
              /\ EndedGone /\ EndStays /\ ChildrenDone
  BY InitTyped, InitClaims, InitThreads, InitEnds DEF TypeOK
<1>2. /\ TypeOK /\ Claims /\ Threads /\ Requests /\ EndedGone /\ EndStays /\ ChildrenDone
      /\ [Next /\ ChildStaysCancelled]_vars
      => /\ TypeOK' /\ Claims' /\ Threads' /\ Requests'
         /\ EndedGone' /\ EndStays' /\ ChildrenDone'
  <2> SUFFICES ASSUME NEW n \in 1..MaxTasks, Typed(n), Claims, Threads, Requests,
                      EndedGone, EndStays, ChildrenDone, [Next /\ ChildStaysCancelled]_vars
               PROVE  /\ TypeOK' /\ Claims' /\ Threads' /\ Requests'
                      /\ EndedGone' /\ EndStays' /\ ChildrenDone'
    BY DEF TypeOK
  <2>1. [Next]_vars /\ ChildStaysCancelled
    <3>1. UNCHANGED vars => ChildStaysCancelled  BY DEF vars, ChildStaysCancelled, Live
    <3> QED  BY <3>1
  <2> QED
    BY <2>1, NextTyped, NextClaims, NextThreads, NextGone, NextEndStays, NextDone
    DEF TypeOK, KeepsThreads
<1>3. ChildrenDone => FailureKept  BY DEF ChildrenDone, FailureKept, UnobservedFailure
<1> QED  BY <1>1, <1>2, <1>3, PTL DEF ChildrenStaySpec

-----------------------------------------------------------------------------
(* What the run has told the host.                                          *)
Done ==
  Active => /\ public # "none" => /\ public = tasks[Root].terminal
                                  /\ \A t \in Spawned : ~Blocking(t)
            /\ final # "none" => public # "none" /\ \A t \in Spawned : ~Live(t)

(* Nothing but the cancellation of the run cancels the root: no handle names *)
(* it and no task owns it.                                                  *)
CancelsRoot(c) == c.fn = "cancelAll" \/ (c.fn = "cancel" /\ c.task = Root)
RootApart ==
  /\ Root \in Spawned /\ tasks[Root].owner = TheRun /\ ~tasks[Root].live
  /\ Active => /\ tasks[Root].terminal # "cancelled"
               /\ \A c \in {stack[i] : i \in DOMAIN stack} : ~CancelsRoot(c)

(* A detached ancestor stays one.                                           *)
LEMMA AncestorStays ==
  ASSUME NEW n \in 1..MaxTasks, Typed(n), Spawned \subseteq Spawned',
         \A x \in Spawned : /\ tasks'[x].owner = tasks[x].owner
                            /\ tasks'[x].detached = tasks[x].detached,
         NEW t \in Spawned, DetachedAncestor(t)
  PROVE  DetachedAncestor(t)'
<1>1. \A x \in Spawned : tasks[x].owner \in Spawned \cup {TheRun}
  <2> SUFFICES ASSUME NEW x \in Spawned PROVE tasks[x].owner \in Spawned \cup {TheRun}
    OBVIOUS
  <2>1. tasks[x] \in Task(1..n) /\ Spawned = 1..n  BY TypedStack DEF Typed
  <2> QED  BY <2>1 DEF Task, TaskRecord
<1>2. tasks'[t].owner # TheRun  BY DEF DetachedAncestor
<1>3. ASSUME NEW line \in SUBSET Spawned', tasks'[t].owner \in line,
             \A a \in line : tasks'[a].owner \in line \cup {TheRun}
      PROVE  \E a \in line : tasks'[a].detached
  <2> DEFINE old == line \cap Spawned
  <2>1. old \in SUBSET Spawned  OBVIOUS
  <2>2. tasks[t].owner \in old  BY <1>1, <1>2, <1>3
  <2>3. \A a \in old : tasks[a].owner \in old \cup {TheRun}  BY <1>1, <1>3
  <2> HIDE DEF old
  <2>4. PICK a \in old : tasks[a].detached  BY <2>1, <2>2, <2>3 DEF DetachedAncestor
  <2>5. a \in line /\ a \in Spawned  BY DEF old
  <2> QED  BY <2>4, <2>5
<1> QED  BY <1>2, <1>3 DEF DetachedAncestor

(* The child of a detached task, or of one with a detached ancestor, has    *)
(* one.                                                                     *)
LEMMA AncestorInherited ==
  ASSUME NEW n \in 1..MaxTasks, Typed(n), Spawned \subseteq Spawned',
         \A x \in Spawned : /\ tasks'[x].owner = tasks[x].owner
                            /\ tasks'[x].detached = tasks[x].detached,
         NEW t \in Spawned, tasks[t].detached \/ DetachedAncestor(t),
         NEW new, tasks'[new].owner = t
  PROVE  DetachedAncestor(new)'
<1>1. t # TheRun
  <2>1. Spawned = 1..n  BY TypedStack
  <2> QED  BY <2>1 DEF TheRun
<1>2. ASSUME NEW line \in SUBSET Spawned', t \in line,
             \A a \in line : tasks'[a].owner \in line \cup {TheRun}
      PROVE  \E a \in line : tasks'[a].detached
  <2>1. CASE tasks[t].detached  BY <1>2, <2>1
  <2>2. CASE DetachedAncestor(t)
    <3>1. DetachedAncestor(t)'  BY <2>2, AncestorStays
    <3>2. tasks'[t].owner \in line  BY <1>2, <3>1 DEF DetachedAncestor
    <3> QED  BY <1>2, <3>1, <3>2 DEF DetachedAncestor
  <2> QED  BY <2>1, <2>2
<1> QED  BY <1>1, <1>2 DEF DetachedAncestor

(* What a step makes of the outcomes.                                       *)
LEMMA OutcomeSteps ==
  ASSUME [Next]_vars
  PROVE  /\ turn = "settled" => turn' = "settled"
         /\ \/ UNCHANGED <<public, final>>
            \/ FinalizeIfDone /\ UNCHANGED tasks
            \/ turn' = "settled"
<1>1. CASE Step  BY <1>1 DEF Step, StepSettles, StepParks, StepPolls
<1>2. CASE Program
  BY <1>2 DEF Program, Spawn, CancelTask, TakeValue, VmReturns, VmTraps, Wake
<1>3. CASE Suspend
  BY <1>3 DEF Suspend, TaskReturns, WaitTask, YieldOnce, FailureMessage, CallHandler
<1>4. CASE SettleFinishes \/ CancelFinishes
  <2>1. FinalizeIfDone /\ UNCHANGED tasks /\ (Wake \/ UNCHANGED turn)
    BY <1>4, Zenon DEF SettleFinishes, CancelFinishes
  <2> QED  BY <2>1 DEF Wake
<1>5. CASE Runtime /\ ~SettleFinishes /\ ~CancelFinishes
  BY <1>5 DEF Runtime, ApplyContinuation, CompleteEntry, CompleteCancelsChild, CompleteDecides,
              OwnerCompletes, SettleResumesWaiter, SettleNotifies, SinkReturns,
              CancelCancelsChild, CancelTerminates, CancelResumesWaiter, CancelNotifies, CancelAll
<1>6. CASE Host  BY <1>6 DEF Host, HandlerReturns, RunCancel, PromiseSettles, ObserveTask
<1>7. CASE UNCHANGED vars  BY <1>7 DEF vars
<1> QED  BY <1>1, <1>2, <1>3, <1>4, <1>5, <1>6, <1>7, Zenon DEF Next

LEMMA InitDone == Init => Done /\ RootApart
<1> SUFFICES ASSUME Init PROVE Done /\ RootApart
  OBVIOUS
<1> DEFINE root == NewTask(TheRun, FALSE, {}, FALSE)
<1>1. root.terminal = "none" /\ root.owner = TheRun /\ ~root.live  BY DEF NewTask
<1>2. tasks = <<root>> /\ stack = <<>> /\ public = "none" /\ final = "none"  BY DEF Init
<1> HIDE DEF root
<1>3. Spawned = {1} /\ tasks[1] = root  BY <1>2 DEF Spawned
<1> QED  BY <1>1, <1>2, <1>3 DEF Done, RootApart, Root

(* The steps that decide the outcomes.                                      *)
LEMMA FinalizeDone ==
  ASSUME Done, Active, FinalizeIfDone, UNCHANGED tasks
  PROVE  Done'
<1>1. /\ public # "none" => public = tasks[Root].terminal /\ \A t \in Spawned : ~Blocking(t)
      /\ final # "none" => public # "none" /\ \A t \in Spawned : ~Live(t)
  BY DEF Done
<1> DEFINE over == tasks[Root].terminal # "none" /\ \A t \in Spawned : ~Blocking(t)
<1>2. public' = IF over THEN SettlePublic(tasks[Root].terminal) ELSE public
  BY Zenon DEF FinalizeIfDone
<1>3. public' # "none" => public' = tasks[Root].terminal /\ \A t \in Spawned : ~Blocking(t)
  <2>1. CASE over  BY <1>1, <1>2, <2>1 DEF SettlePublic
  <2>2. CASE ~over  BY <1>1, <1>2, <2>2, Zenon
  <2> QED  BY <2>1, <2>2
<1>4. final' # "none" => public' # "none" /\ \A t \in Spawned : ~Live(t)
  <2>1. CASE tasks[Root].terminal # "none" /\ \A t \in Spawned : ~Live(t)
    <3>1. over  BY <2>1 DEF Blocking
    <3>2. public' # "none"  BY <1>2, <3>1 DEF SettlePublic
    <3> QED  BY <2>1, <3>2
  <2>2. CASE ~(tasks[Root].terminal # "none" /\ \A t \in Spawned : ~Live(t))
    <3>1. final' = final  BY <2>2, Zenon DEF FinalizeIfDone
    <3>2. public # "none" => public' # "none"  BY <1>2, Zenon DEF SettlePublic
    <3> QED  BY <1>1, <3>1, <3>2
  <2> QED  BY <2>1, <2>2
<1>5. \A t \in Spawned : Blocking(t)' <=> Blocking(t)
  BY DEF Blocking, Live, DetachedAncestor, Spawned
<1>6. \A t \in Spawned : Live(t)' <=> Live(t)  BY DEF Live
<1>7. Spawned' = Spawned /\ tasks'[Root].terminal = tasks[Root].terminal  BY DEF Spawned
<1> QED  BY <1>3, <1>4, <1>5, <1>6, <1>7 DEF Done

LEMMA NextApart ==
  ASSUME NEW n \in 1..MaxTasks, Typed(n), Claims, RootApart, [Next]_vars
  PROVE  RootApart'
<1>1. /\ Root \in Spawned' /\ tasks'[Root].owner = TheRun
  BY EndIsTold DEF RootApart
<1>2. Active' => Active  BY OutcomeSteps DEF Active
<1>3. TheRun \notin Spawned  BY TypedStack DEF TheRun
<1>4. ASSUME Active', NEW c, In(stack', c), CancelsRoot(c) PROVE FALSE
  <2>1. \A x : In(stack, x) => ~CancelsRoot(x)  BY <1>2, <1>4 DEF RootApart, In
  <2>2. Due(c)  BY <1>4, <2>1, NextDue
  <2>3. stack # <<>> => In(stack, Top)  BY TailIn DEF Typed, Top
  <2>4. ~OnTop("cancelAll") /\ ~(OnTop("cancel") /\ Top.task = Root)
    BY <2>1, <2>3 DEF OnTop, CancelsRoot
  <2>5. turn' # "settled"  BY <1>4 DEF Active
  <2> QED  BY <1>3, <1>4, <2>2, <2>4, <2>5, Zenon DEF Due, CancelsRoot, RootApart
<1>5. ~tasks'[Root].live
  <2>1. CASE RecordsLast  BY <2>1 DEF RecordsLast, Lasting, RootApart
  <2>2. ASSUME NEW u \in Spawned, NEW k, Ends(u, k) PROVE ~tasks'[Root].live
    <3>1. CASE u = Root  BY <2>2, <3>1, Zenon DEF Ends, RootApart
    <3>2. CASE u # Root  BY <2>2, <3>2, Zenon DEF Ends, RootApart
    <3> QED  BY <3>1, <3>2
  <2>3. ASSUME NEW u \in Spawned, NEW new \in {n + 1}, Spawns(u, new) PROVE ~tasks'[Root].live
    BY <2>3 DEF Spawns, Lasting, RootApart
  <2> QED  BY <2>1, <2>2, <2>3, NextRecords DEF Decides
<1>6. ASSUME Active' PROVE tasks'[Root].terminal # "cancelled"
  <2>1. tasks[Root].terminal # "cancelled"  BY <1>2, <1>6 DEF RootApart
  <2>2. CASE RecordsLast  BY <2>1, <2>2 DEF RecordsLast, Lasting, RootApart
  <2>3. ASSUME NEW u \in Spawned, NEW k, Ends(u, k), u = Root => k # "cancelled"
        PROVE  tasks'[Root].terminal # "cancelled"
    <3>1. CASE u = Root  BY <2>3, <3>1, Zenon DEF Ends
    <3>2. CASE u # Root  BY <2>1, <2>3, <3>2, Zenon DEF Ends, RootApart
    <3> QED  BY <3>1, <3>2
  <2>4. ASSUME NEW u \in Spawned, NEW k \in Completion, Decides(u, k)
        PROVE  tasks'[Root].terminal # "cancelled"
    BY <2>3, <2>4 DEF Decides, Completion
  <2>5. CASE CancelTerminates /\ Top.task \in Spawned /\ Ends(Top.task, "cancelled")
    <3>1. stack # <<>> /\ Top.fn = "cancel"  BY <2>5 DEF CancelTerminates, OnTop
    <3>2. In(stack, Top)  BY <3>1, TailIn DEF Typed, Top
    <3>3. ~CancelsRoot(Top)  BY <1>2, <1>6, <3>2 DEF RootApart, In
    <3>4. Top.task # Root  BY <3>1, <3>3 DEF CancelsRoot
    <3> QED  BY <2>3, <2>5, <3>4
  <2>6. ASSUME NEW u \in Spawned, NEW new \in {n + 1}, Spawns(u, new)
        PROVE  tasks'[Root].terminal # "cancelled"
    BY <2>1, <2>6 DEF Spawns, Lasting, RootApart
  <2> QED  BY <2>2, <2>4, <2>5, <2>6, NextRecords
<1> QED  BY <1>1, <1>4, <1>5, <1>6 DEF RootApart, In

(* The root ends once, unless the run is cancelled.                         *)
LEMMA RootEndsOnce ==
  ASSUME NEW n \in 1..MaxTasks, Typed(n), Claims, Threads, EndedGone, RootApart,
         Active', tasks[Root].terminal # "none", [Next]_vars
  PROVE  tasks'[Root].terminal = tasks[Root].terminal
<1>1. Root \in Spawned /\ Active  BY OutcomeSteps DEF RootApart, Active
<1>2. tasks[Root].terminal \in {"value", "failed"}
  <2>1. tasks[Root].terminal \in Kind  BY <1>1, TypedStack DEF Typed, Task, TaskRecord
  <2> QED  BY <1>1, <2>1 DEF RootApart, Kind
<1>3. CASE RecordsLast  BY <1>1, <1>3 DEF RecordsLast, Lasting
<1>4. ASSUME NEW u \in Spawned, NEW k, Ends(u, k), u # Root
      PROVE  tasks'[Root].terminal = tasks[Root].terminal
  BY <1>1, <1>4, Zenon DEF Ends
<1>5. ASSUME NEW u \in Spawned, NEW k \in Completion, Decides(u, k)
      PROVE  tasks'[Root].terminal = tasks[Root].terminal
  <2>1. ~Gone(u) /\ Ends(u, k)  BY <1>5, DecidesGone DEF Decides
  <2>2. u # Root  BY <1>1, <1>2, <2>1 DEF EndedGone
  <2> QED  BY <1>4, <2>1, <2>2
<1>6. CASE CancelTerminates /\ Top.task \in Spawned /\ Ends(Top.task, "cancelled")
  <2>1. RootApart'  BY NextApart
  <2>2. tasks'[Root].terminal # "cancelled"  BY <2>1 DEF RootApart
  <2>3. Top.task # Root  BY <1>6, <2>2, Zenon DEF Ends
  <2> QED  BY <1>4, <1>6, <2>3
<1>7. ASSUME NEW u \in Spawned, NEW new \in {n + 1}, Spawns(u, new)
      PROVE  tasks'[Root].terminal = tasks[Root].terminal
  BY <1>1, <1>7 DEF Spawns, Lasting
<1> QED  BY <1>3, <1>5, <1>6, <1>7, NextRecords

LEMMA NextOutcome ==
  ASSUME NEW n \in 1..MaxTasks, Typed(n), Claims, Threads, EndedGone, RootApart, Done,
         [Next]_vars, NothingLate
  PROVE  Done'
<1>1. \/ RecordsLast
      \/ \E u \in Spawned : \E k : Ends(u, k)
      \/ \E u \in Spawned, new \in {n + 1} : Spawns(u, new)
  BY NextRecords, Zenon DEF Decides
<1>2. /\ Spawned \subseteq Spawned'
      /\ \A x \in Spawned : /\ tasks'[x].owner = tasks[x].owner
                            /\ tasks'[x].detached = tasks[x].detached
  <2>1. CASE RecordsLast  BY <2>1 DEF RecordsLast, Lasting
  <2>2. ASSUME NEW u \in Spawned, NEW k, Ends(u, k)
        PROVE  /\ Spawned \subseteq Spawned'
               /\ \A x \in Spawned : /\ tasks'[x].owner = tasks[x].owner
                                     /\ tasks'[x].detached = tasks[x].detached
    BY <2>2 DEF Ends
  <2>3. ASSUME NEW u \in Spawned, NEW new \in {n + 1}, Spawns(u, new)
        PROVE  /\ Spawned \subseteq Spawned'
               /\ \A x \in Spawned : /\ tasks'[x].owner = tasks[x].owner
                                     /\ tasks'[x].detached = tasks[x].detached
    BY <2>3 DEF Spawns, Lasting
  <2> QED  BY <1>1, <2>1, <2>2, <2>3
<1>3. ASSUME public # "none", NEW x \in Spawned, Live(x)' PROVE Live(x)
  BY <1>3 DEF NothingLate, Live
<1>4. ASSUME public # "none", NEW x \in Spawned, Blocking(x)' PROVE Blocking(x)
  <2>1. DetachedAncestor(x) => DetachedAncestor(x)'  BY <1>2, AncestorStays
  <2> QED  BY <1>2, <1>3, <1>4, <2>1 DEF Blocking
<1>5. CASE public = "none" /\ Active /\ UNCHANGED <<public, final>>
  BY <1>5 DEF Done
<1>6. CASE public # "none" /\ Active /\ Active' /\ UNCHANGED <<public, final>>
  <2>1. /\ public = tasks[Root].terminal /\ \A t \in Spawned : ~Blocking(t)
        /\ final # "none" => \A t \in Spawned : ~Live(t)
    BY <1>6 DEF Done
  <2>2. public' = tasks'[Root].terminal  BY <1>6, <2>1, RootEndsOnce
  <2>3. CASE Spawned' = Spawned  BY <1>3, <1>4, <1>6, <2>1, <2>2, <2>3 DEF Done
  <2>4. ASSUME NEW u \in Spawned, NEW new \in {n + 1}, Spawns(u, new)
        PROVE  Done'
    <3>1. Live(u)
      <4>1. DOMAIN tasks' # Spawned /\ Top.task = u  BY <2>4 DEF Spawns, Spawned
      <4> QED  BY <1>6, <4>1 DEF NothingLate
    <3>2. final' = "none"  BY <1>6, <2>1, <3>1
    <3>3. tasks[u].detached \/ DetachedAncestor(u)
      BY <1>6, <2>1, <3>1 DEF Blocking
    <3>4. ~Blocking(new)'
      <4>1. CASE tasks'[new].detached  BY <4>1 DEF Blocking
      <4>2. CASE tasks'[new].owner = u
        <5>1. DetachedAncestor(new)'  BY <1>2, <3>3, <4>2, AncestorInherited
        <5> QED  BY <5>1 DEF Blocking
      <4> QED  BY <2>4, <4>1, <4>2 DEF Spawns
    <3>5. \A t \in Spawned' : ~Blocking(t)'
      BY <1>4, <1>6, <2>1, <2>4, <3>4 DEF Spawns
    <3> QED  BY <2>2, <3>2, <3>5 DEF Done
  <2> QED  BY <1>1, <2>3, <2>4 DEF RecordsLast, Ends
<1>7. CASE Active /\ FinalizeIfDone /\ UNCHANGED tasks  BY <1>7, FinalizeDone
<1>8. CASE ~Active'  BY <1>8 DEF Done
<1> QED  BY <1>5, <1>6, <1>7, <1>8, OutcomeSteps DEF Active

(* The host learns the root's own outcome, after everything that blocks it  *)
(* has ended, and the run's last step comes after every task has ended      *)
(* (finalizeIfDone, hasDetachedAncestor), whatever happens before the host  *)
(* has been told, as long as no ended task comes back or spawns after that. *)
THEOREM DoneAlwaysMeansDone == NothingLateSpec => []DoneMeansDone
<1>1. Init => /\ TypeOK /\ Claims /\ Threads /\ Requests
              /\ EndedGone /\ RootApart /\ Done
  BY InitTyped, InitClaims, InitThreads, InitEnds, InitDone DEF TypeOK
<1>2. /\ TypeOK /\ Claims /\ Threads /\ Requests /\ EndedGone /\ RootApart /\ Done
      /\ [Next /\ NothingLate]_vars
      => /\ TypeOK' /\ Claims' /\ Threads' /\ Requests' /\ EndedGone' /\ RootApart' /\ Done'
  <2> SUFFICES ASSUME NEW n \in 1..MaxTasks, Typed(n), Claims, Threads, Requests,
                      EndedGone, RootApart, Done, [Next /\ NothingLate]_vars
               PROVE  /\ TypeOK' /\ Claims' /\ Threads' /\ Requests'
                      /\ EndedGone' /\ RootApart' /\ Done'
    BY DEF TypeOK
  <2>1. [Next]_vars /\ NothingLate
    <3>1. UNCHANGED vars => NothingLate  BY DEF vars, NothingLate, Live, Spawned
    <3> QED  BY <3>1
  <2> QED
    BY <2>1, NextTyped, NextClaims, NextThreads, NextGone, NextApart, NextOutcome
    DEF TypeOK, KeepsThreads
<1>3. Done => DoneMeansDone  BY DEF Done, DoneMeansDone
<1> QED  BY <1>1, <1>2, <1>3, PTL DEF NothingLateSpec

=============================================================================
