----------------------------- MODULE TaskRuntime -----------------------------
(***************************************************************************)
(* The tasks of one managed run: runEffectfulManaged in packages/js-host/   *)
(* src/host.ts.  The compiled program and the host call each other: a       *)
(* program segment calls the host to spawn, cancel and take values, and     *)
(* ending or cancelling a task makes the host resume the program code of    *)
(* the task that waits for it, inside that call.  "stack" is that chain of  *)
(* calls, the innermost first; only the innermost one moves.  With an empty *)
(* stack the event loop takes the next turn.                                *)
(***************************************************************************)
EXTENDS Naturals, Sequences, FiniteSets

CONSTANTS
  MaxTasks,       \* tasks of the run, the root included
  SharedHandles   \* a program may hand task handles to any task; otherwise a
                  \* task knows those it spawned and those its spawner knew

ASSUME TaskAssumption == MaxTasks \in Nat \ {0} /\ SharedHandles \in BOOLEAN

VARIABLES
  tasks,         \* the task records; a task's id is its index
  ready,         \* readyQueue
  turn,          \* the run in the scheduler: to be stepped, parked or settled
  public,        \* publicOutcome, what the host's promise has resolved to
  final,         \* finalOutcome, what the next step will return
  stack          \* the calls in progress, the innermost first

vars == <<tasks, ready, turn, public, final, stack>>

TaskId == 1..MaxTasks
Root == 1
TheRun == 0       \* the owner of the root and of detached tasks (ownerId null)
Kind == {"value", "failed", "cancelled"}
Completion == {"value", "failed"}   \* how code ends; only a cancellation cancels

(* What a program segment ends in.  "host" is any effect but the task       *)
(* runtime's own three: wait, yield_once and failure_message.               *)
Outcome(ids) == [op : {"value", "yield", "host"}] \cup [op : {"wait", "message"}, task : ids]
None == [op |-> "none"]

TaskRecord(ids) ==
  [state : {"ready", "waiting", "completing", "terminal"},
   terminal : Kind \cup {"none"}, observed : BOOLEAN, reported : BOOLEAN,
   claimed : BOOLEAN,                     \* capabilityClaimed
   live : BOOLEAN,                        \* the capability still resolves
   owner : ids \cup {TheRun}, detached : BOOLEAN,
   knows : SUBSET ids,                    \* the handles its code holds
   fresh : BOOLEAN,                       \* starter not called yet
   raw : Outcome(ids) \cup {None},        \* pendingRawOutcome
   resume : BOOLEAN,                      \* pendingResume
   completion : Completion \cup {"none"}, \* pendingCompletion
   waiters : SUBSET ids,
   frame : BOOLEAN,                       \* its request is in effectFramesByRequest
   promise : BOOLEAN,                     \* its effect handler's promise is pending
   observer : Kind \cup {"none", "waiting"}]  \* the promise of observeTask

Task(ids) == {task \in TaskRecord(ids) : task.state = "terminal" => task.terminal # "none"}

(* A call in progress.  "for" is the host code that awaits a segment.       *)
VmCall(ids) == [fn : {"vm"}, task : ids, for : {"poll", "apply", "terminal", "cancel"}]
EffectCall(ids) == [fn : {"effect"}, task : ids, outcome : Outcome(ids)]
TaskCall(ids) == [fn : {"handler", "apply", "owner"}, task : ids]
CompleteCall(ids) ==
  [fn : {"complete"}, task : ids, kind : Completion, at : {"entry", "children"}, from : ids \cup {0}]
SettleCall(ids) == [fn : {"settle"}, task : ids, at : {"waiters", "sink", "finish"}]
CancelTaskCall(ids) ==
  [fn : {"cancel"}, task : ids, at : {"children", "waiters", "finish"},
   from : ids \cup {0}, wake : BOOLEAN]
CancelAllCall(ids) ==
  {call \in [fn : {"cancelAll"}, from : ids \cup {0}, upto : ids] : call.from <= call.upto}
Call(ids) ==
  VmCall(ids) \cup EffectCall(ids) \cup TaskCall(ids) \cup CompleteCall(ids)
    \cup SettleCall(ids) \cup CancelTaskCall(ids) \cup CancelAllCall(ids)

(* Every id the runtime holds is the id of one of its n tasks.              *)
Typed(n) ==
  /\ tasks \in [1..n -> Task(1..n)]
  /\ ready \in Seq(1..n)
  /\ turn \in {"step", "parked", "settled"}
  /\ public \in Kind \cup {"none"}
  /\ final \in Kind \cup {"none"}
  /\ stack \in Seq(Call(1..n))

TypeOK == \E n \in 1..MaxTasks : Typed(n)

NewTask(o, isDetached, handles, hasCapability) ==
  [state |-> "ready", terminal |-> "none", observed |-> FALSE, reported |-> FALSE,
   claimed |-> FALSE, live |-> hasCapability, owner |-> o, detached |-> isDetached,
   knows |-> handles, fresh |-> TRUE, raw |-> None, resume |-> FALSE,
   completion |-> "none", waiters |-> {}, frame |-> FALSE, promise |-> FALSE,
   observer |-> "none"]

Init ==
  /\ tasks = <<NewTask(TheRun, FALSE, {}, FALSE)>>
  /\ ready = <<Root>>
  /\ turn = "step"
  /\ public = "none"
  /\ final = "none"
  /\ stack = <<>>

-----------------------------------------------------------------------------
Spawned == DOMAIN tasks
Live(t) == tasks[t].state # "terminal"
Children(t) == {c \in Spawned : tasks[c].owner = t}
Top == Head(stack)
OnTop(fn) == stack # <<>> /\ Top.fn = fn
Push(frame) == stack' = <<frame>> \o stack
Become(frame) == stack' = <<frame>> \o Tail(stack)
Pop == stack' = Tail(stack)
(* Host code outside the runtime: the event loop's, an effect handler, or    *)
(* the sink of unhandled failures (onUnhandledTaskFailed).                  *)
HostCode == stack = <<>> \/ OnTop("handler") \/ (OnTop("settle") /\ Top.at = "sink")

Complete(t, kind) ==
  [fn |-> "complete", task |-> t, kind |-> kind, at |-> "entry", from |-> 0]
CancelCall(t, wake) ==
  [fn |-> "cancel", task |-> t, at |-> "children", from |-> 0, wake |-> wake]
Vm(t, caller) == [fn |-> "vm", task |-> t, for |-> caller]

WakeLost == UNCHANGED turn                  \* mutant: the resolver is not called
Wake == turn' = IF turn = "parked" THEN "step" ELSE turn

(* settlePublicOutcome: the first outcome wins.                             *)
SettlePublic(kind) == IF public = "none" THEN kind ELSE public

(* hasDetachedAncestor: every set that holds the owner of t, and the owner   *)
(* of each of its members, has a detached task.                             *)
DetachedAncestor(t) ==
  /\ tasks[t].owner # TheRun
  /\ \A line \in SUBSET Spawned :
       /\ tasks[t].owner \in line
       /\ \A a \in line : tasks[a].owner \in line \cup {TheRun}
       => \E a \in line : tasks[a].detached
Blocking(t) == Live(t) /\ ~tasks[t].detached /\ ~DetachedAncestor(t)

(* finalizeIfDone: the public outcome when nothing but detached work is     *)
(* left, the final one when nothing is.                                     *)
(* Mutant: the run ends without waiting for detached work.                  *)
FinalizeEarly ==
  LET settled == IF tasks[Root].terminal # "none" /\ \A t \in Spawned : ~Blocking(t)
                 THEN SettlePublic(tasks[Root].terminal) ELSE public
  IN public' = settled /\ final' = settled
FinalizeIfDone ==
  LET rootDone == tasks[Root].terminal # "none"
      settled == IF rootDone /\ \A t \in Spawned : ~Blocking(t)
                 THEN SettlePublic(tasks[Root].terminal) ELSE public
  IN /\ public' = settled
     /\ final' = IF rootDone /\ \A t \in Spawned : ~Live(t) THEN settled ELSE final

(* Mutant: the end of a task counts as observed though nobody asked.        *)
NotifiedObserved(task) ==
  IF task.observer = "waiting"
  THEN [task EXCEPT !.observer = task.terminal, !.live = FALSE, !.observed = TRUE]
  ELSE [task EXCEPT !.observed = TRUE]
(* notifyTaskTerminal: the terminal task's record afterwards.               *)
Notified(task) ==
  IF task.observer = "waiting"
  THEN [task EXCEPT !.observer = task.terminal, !.live = FALSE, !.observed = TRUE]
  ELSE IF task.claimed /\ task.terminal = "cancelled"
  THEN [task EXCEPT !.live = FALSE]
  ELSE task
(* The failure of a detached task that nobody has observed.                 *)
Unhandled(task) == task.detached /\ task.terminal = "failed" /\ ~task.observed

-----------------------------------------------------------------------------
(* One step of the run (wakeRun), up to the program code it calls.          *)
StepSettles ==
  /\ stack = <<>> /\ turn = "step"
  /\ final # "none"
  /\ turn' = "settled"
  /\ UNCHANGED <<tasks, ready, public, final, stack>>

StepParks ==
  /\ stack = <<>> /\ turn = "step"
  /\ final = "none" /\ ready = <<>>
  /\ turn' = "parked"
  /\ UNCHANGED <<tasks, ready, public, final, stack>>

(* The segment of t ended in this outcome and the host takes it in.         *)
Effect(t, outcome) == [fn |-> "effect", task |-> t, outcome |-> outcome]
TakeIn(t, outcome) == [tasks EXCEPT ![t].raw = None, ![t].frame = (outcome.op # "value")]

StepPolls ==
  /\ stack = <<>> /\ turn = "step"
  /\ final = "none" /\ ready # <<>>
  /\ ready' = Tail(ready)
  /\ LET t == Head(ready)
         task == tasks[t]
     IN IF task.state \in {"terminal", "completing"}
        THEN UNCHANGED <<tasks, stack>>
        ELSE IF task.raw # None
        THEN tasks' = TakeIn(t, task.raw) /\ Push(Effect(t, task.raw))
        ELSE IF task.resume /\ task.frame
        THEN /\ tasks' = [tasks EXCEPT ![t].resume = FALSE, ![t].frame = FALSE]
             /\ Push(Vm(t, "poll"))
        ELSE IF ~task.resume /\ task.fresh
        THEN tasks' = [tasks EXCEPT ![t].fresh = FALSE] /\ Push(Vm(t, "poll"))
        ELSE tasks' = [tasks EXCEPT ![t].resume = FALSE] /\ Push(Complete(t, "failed"))
  /\ UNCHANGED <<turn, public, final>>

-----------------------------------------------------------------------------
(* What program code does, and how it ends.                                 *)
Handles(t) == IF SharedHandles THEN Spawned \ {Root} ELSE tasks[t].knows

Spawn(isDetached) ==
  /\ OnTop("vm")
  /\ Len(tasks) < MaxTasks
  /\ LET t == Top.task
         new == Len(tasks) + 1
     IN /\ tasks' = Append([tasks EXCEPT ![t].knows = @ \cup {new}],
                           NewTask(IF isDetached THEN TheRun ELSE t, isDetached,
                                   tasks[t].knows, TRUE))
        /\ ready' = Append(ready, new)
  /\ Wake
  /\ UNCHANGED <<public, final, stack>>

(* task::cancel with a handle that resolves to a task that has not ended.   *)
CancelTask(u) ==
  /\ OnTop("vm")
  /\ u \in Handles(Top.task) /\ tasks[u].live /\ Live(u)
  /\ Push(CancelCall(u, TRUE))
  /\ UNCHANGED <<tasks, ready, turn, public, final>>

(* take_value, when it does not throw.                                      *)
TakeValue(u) ==
  /\ OnTop("vm")
  /\ u \in Handles(Top.task)
  /\ tasks[u].live /\ tasks[u].claimed /\ tasks[u].terminal = "value"
  /\ tasks' = [tasks EXCEPT ![u].observed = TRUE, ![u].live = FALSE]
  /\ UNCHANGED <<ready, turn, public, final, stack>>

Outcomes(t) ==
  [op : {"value", "yield", "host"}] \cup [op : {"wait", "message"}, task : Handles(t)]

(* A suspended task has its next outcome and is queued.                     *)
Readied(t, outcome) ==
  /\ tasks' = [tasks EXCEPT ![t].raw = outcome, ![t].state = "ready"]
  /\ ready' = Append(ready, t)

VmReturns ==
  /\ OnTop("vm")
  /\ LET t == Top.task
     IN \E outcome \in Outcomes(t) :
          \/ /\ Top.for = "poll"
             /\ tasks' = TakeIn(t, outcome)
             /\ Become(Effect(t, outcome))
             /\ UNCHANGED <<ready, turn>>
          \/ /\ Top.for = "apply"
             /\ Readied(t, outcome) /\ Wake /\ Pop
          \/ /\ Top.for \in {"terminal", "cancel"}
             /\ IF Live(t) THEN Readied(t, outcome) ELSE UNCHANGED <<tasks, ready>>
             /\ Pop
             /\ UNCHANGED turn
  /\ UNCHANGED <<public, final>>

(* The segment traps: the task fails, but for a waiter that was being told  *)
(* of a cancellation, whose error cancelTaskById ignores.                   *)
VmTraps ==
  /\ OnTop("vm")
  /\ IF Top.for = "cancel" THEN Pop ELSE Become(Complete(Top.task, "failed"))
  /\ UNCHANGED <<tasks, ready, turn, public, final>>

-----------------------------------------------------------------------------
(* The effects a task suspends on.                                          *)
OnEffect(op) == OnTop("effect") /\ Top.outcome.op = op

TaskReturns ==
  /\ OnEffect("value")
  /\ Become(Complete(Top.task, "value"))
  /\ UNCHANGED <<tasks, ready, turn, public, final>>

ClaimableAgain(u) == tasks[u].live          \* mutant: claimed handles too
Claimable(u) == tasks[u].live /\ ~tasks[u].claimed

(* TaskRuntime::wait: the capability is claimed for good; the waiter goes   *)
(* on at once when the task has ended.                                      *)
WaitTask ==
  /\ OnEffect("wait")
  /\ LET t == Top.task
         u == Top.outcome.task
         claim == [tasks EXCEPT ![u].claimed = TRUE]
     IN IF ~Claimable(u)
        THEN Become(Complete(t, "failed")) /\ UNCHANGED tasks
        ELSE IF tasks[u].terminal # "none"
        THEN /\ tasks' = [claim EXCEPT ![u].observed = TRUE,
                                       ![u].live = (tasks[u].terminal # "cancelled")]
             /\ Become([fn |-> "apply", task |-> t])
        ELSE /\ tasks' = [claim EXCEPT ![u].waiters = @ \cup {t}, ![t].state = "waiting"]
             /\ Pop
  /\ UNCHANGED <<ready, turn, public, final>>

(* Mutant: a task that yields goes to the front of the queue.               *)
YieldFirst ==
  /\ OnEffect("yield")
  /\ LET t == Top.task
     IN /\ tasks' = [tasks EXCEPT ![t].resume = TRUE, ![t].state = "ready"]
        /\ ready' = <<t>> \o ready
  /\ Pop
  /\ UNCHANGED <<turn, public, final>>

YieldOnce ==
  /\ OnEffect("yield")
  /\ LET t == Top.task
     IN /\ tasks' = [tasks EXCEPT ![t].resume = TRUE, ![t].state = "ready"]
        /\ ready' = Append(ready, t)
  /\ Pop
  /\ UNCHANGED <<turn, public, final>>

FailureMessage ==
  /\ OnEffect("message")
  /\ LET t == Top.task
         u == Top.outcome.task
     IN IF tasks[u].live /\ tasks[u].terminal = "failed"
        THEN /\ tasks' = [tasks EXCEPT ![u].observed = TRUE, ![u].live = FALSE]
             /\ Become([fn |-> "apply", task |-> t])
        ELSE Become(Complete(t, "failed")) /\ UNCHANGED tasks
  /\ UNCHANGED <<ready, turn, public, final>>

CallHandler ==
  /\ OnEffect("host")
  /\ Become([fn |-> "handler", task |-> Top.task])
  /\ UNCHANGED <<tasks, ready, turn, public, final>>

(* The handler returns a continuation, a promise of one, or fails (throws,  *)
(* is missing, or returns no continuation of the kind the effect requires). *)
HandlerReturns ==
  /\ OnTop("handler")
  /\ LET t == Top.task
     IN \/ Become([fn |-> "apply", task |-> t]) /\ UNCHANGED tasks
        \/ Become(Complete(t, "failed")) /\ UNCHANGED tasks
        \/ /\ tasks' = [tasks EXCEPT ![t].state = "waiting", ![t].promise = TRUE]
           /\ Pop
  /\ UNCHANGED <<ready, turn, public, final>>

PromiseSettles(t) ==
  /\ stack = <<>>
  /\ t \in Spawned /\ tasks[t].promise
  /\ tasks' = [tasks EXCEPT ![t].promise = FALSE]
  /\ Push([fn |-> "apply", task |-> t]) \/ Push(Complete(t, "failed"))
  /\ UNCHANGED <<ready, turn, public, final>>

(* Mutant: applyContinuation does not look at the state of the task.        *)
ApplyAnyway ==
  /\ OnTop("apply")
  /\ LET t == Top.task
     IN /\ tasks' = [tasks EXCEPT ![t].frame = FALSE]
        /\ IF tasks[t].frame THEN Become(Vm(t, "apply")) ELSE Become(Complete(t, "failed"))
  /\ UNCHANGED <<ready, turn, public, final>>

(* applyContinuation: program code of t runs at once, whoever called.       *)
ApplyContinuation ==
  /\ OnTop("apply")
  /\ LET t == Top.task
     IN /\ tasks' = [tasks EXCEPT ![t].frame = FALSE]
        /\ IF ~Live(t) THEN Pop
           ELSE IF tasks[t].frame THEN Become(Vm(t, "apply"))
           ELSE Become(Complete(t, "failed"))
  /\ UNCHANGED <<ready, turn, public, final>>

-----------------------------------------------------------------------------
(* Mutant: completeTask drops the requests of every task.                   *)
CompleteEntryDropsAll ==
  /\ OnTop("complete") /\ Top.at = "entry"
  /\ tasks' = [t \in Spawned |-> [tasks[t] EXCEPT !.frame = FALSE]]
  /\ IF tasks[Top.task].state \in {"completing", "terminal"} THEN Pop
     ELSE Become([Top EXCEPT !.at = "children"])
  /\ UNCHANGED <<ready, turn, public, final>>

(* completeTask.                                                            *)
CompleteEntry ==
  /\ OnTop("complete") /\ Top.at = "entry"
  /\ LET t == Top.task
     IN /\ tasks' = [tasks EXCEPT ![t].frame = FALSE]
        /\ IF tasks[t].state \in {"completing", "terminal"} THEN Pop
           ELSE Become([Top EXCEPT !.at = "children"])
  /\ UNCHANGED <<ready, turn, public, final>>

(* The loop over the children visits those added while it runs.             *)
NextChild(t, from, c) ==
  /\ c \in Children(t) /\ c > from
  /\ \A d \in Children(t) : d > from => c <= d
NoChildLeft(t, from) == \A c \in Children(t) : c <= from
VisitChild(c) ==
  stack' = (IF Live(c) THEN <<CancelCall(c, FALSE)>> ELSE <<>>)
             \o <<[Top EXCEPT !.from = c]>> \o Tail(stack)

CompleteCancelsChild ==
  /\ OnTop("complete") /\ Top.at = "children" /\ Top.kind # "value"
  /\ \E c \in Spawned : NextChild(Top.task, Top.from, c) /\ VisitChild(c)
  /\ UNCHANGED <<tasks, ready, turn, public, final>>

UnobservedFailure(t) ==
  \E c \in Children(t) : tasks[c].terminal = "failed" /\ ~tasks[c].observed

(* Mutant: children's failures are not looked at.                           *)
TerminalKindsAlone(t, kind) == IF kind # "value" THEN {kind} ELSE {"value", "failed"}

(* buildTaskTerminal: a value becomes a failure when a child's failure was  *)
(* not observed, or when releasing its callbacks or decoding it fails.      *)
TerminalKinds(t, kind) ==
  IF kind # "value" THEN {kind}
  ELSE IF UnobservedFailure(t) THEN {"failed"} ELSE {"value", "failed"}

Terminate(t, kind) ==
  /\ \E k \in TerminalKinds(t, kind) :
       tasks' = [tasks EXCEPT ![t].state = "terminal", ![t].terminal = k,
                   ![t].observed = FALSE, ![t].reported = FALSE,
                   ![t].completion = "none", ![t].resume = FALSE]
  /\ Become([fn |-> "settle", task |-> t, at |-> "waiters"])

CompleteDecides ==
  /\ OnTop("complete") /\ Top.at = "children"
  /\ Top.kind = "value" \/ NoChildLeft(Top.task, Top.from)
  /\ LET t == Top.task
     IN IF \E c \in Children(t) : Live(c)
        THEN /\ tasks' = [tasks EXCEPT ![t].state = "completing", ![t].completion = Top.kind]
             /\ Pop
        ELSE Terminate(t, Top.kind)
  /\ UNCHANGED <<ready, turn, public, final>>

(* maybeCompleteOwner, called when a child has ended.                       *)
OwnerCompletes ==
  /\ OnTop("owner")
  /\ LET t == Top.task
     IN IF /\ tasks[t].state = "completing" /\ tasks[t].completion # "none"
           /\ ~\E c \in Children(t) : Live(c)
        THEN Terminate(t, tasks[t].completion)
        ELSE Pop /\ UNCHANGED tasks
  /\ UNCHANGED <<ready, turn, public, final>>

(* The end of completeTask and of maybeCompleteOwner: waiters are resumed,  *)
(* observers and the owner are told, the run is finished if it can be.      *)
SettleResumesWaiter ==
  /\ OnTop("settle") /\ Top.at = "waiters"
  /\ LET t == Top.task
     IN \E w \in tasks[t].waiters :
          /\ tasks' = [tasks EXCEPT ![t].observed = TRUE, ![t].waiters = @ \ {w},
                                    ![w].frame = FALSE]
          /\ IF tasks[w].frame THEN Push(Vm(w, "terminal")) ELSE Push(Complete(w, "failed"))
  /\ UNCHANGED <<ready, turn, public, final>>

(* Mutant: onTaskTerminal does not look for an owner that waits.            *)
TellNobody(t) == Become([Top EXCEPT !.at = "finish"])
(* maybeCompleteOwner of the owner is next.                                 *)
TellOwner(t) ==
  stack' = (IF tasks[t].owner = TheRun THEN <<>>
            ELSE <<[fn |-> "owner", task |-> tasks[t].owner]>>)
             \o <<[Top EXCEPT !.at = "finish"]>> \o Tail(stack)

SettleNotifies ==
  /\ OnTop("settle") /\ Top.at = "waiters"
  /\ tasks[Top.task].waiters = {}
  /\ tasks' = [tasks EXCEPT ![Top.task] = Notified(@)]
  /\ IF Unhandled(Notified(tasks[Top.task]))
     THEN Become([Top EXCEPT !.at = "sink"]) ELSE TellOwner(Top.task)
  /\ UNCHANGED <<ready, turn, public, final>>

(* reportUnhandledDetachedFailure has called the sink.                      *)
SinkReturns ==
  /\ OnTop("settle") /\ Top.at = "sink"
  /\ tasks' = [tasks EXCEPT ![Top.task].reported = TRUE]
  /\ TellOwner(Top.task)
  /\ UNCHANGED <<ready, turn, public, final>>

SettleFinishes ==
  /\ OnTop("settle") /\ Top.at = "finish"
  /\ Wake
  /\ FinalizeIfDone
  /\ Pop
  /\ UNCHANGED <<tasks, ready>>

-----------------------------------------------------------------------------
(* cancelTaskById, called with a task that has not ended.                   *)
CancelCancelsChild ==
  /\ OnTop("cancel") /\ Top.at = "children"
  /\ \E c \in Spawned : NextChild(Top.task, Top.from, c) /\ VisitChild(c)
  /\ UNCHANGED <<tasks, ready, turn, public, final>>

CancelTerminates ==
  /\ OnTop("cancel") /\ Top.at = "children"
  /\ NoChildLeft(Top.task, Top.from)
  /\ tasks' = [tasks EXCEPT ![Top.task].state = "terminal", ![Top.task].terminal = "cancelled",
                 ![Top.task].observed = FALSE, ![Top.task].reported = FALSE,
                 ![Top.task].raw = None, ![Top.task].resume = FALSE,
                 ![Top.task].completion = "none"]
  /\ Become([Top EXCEPT !.at = "waiters"])
  /\ UNCHANGED <<ready, turn, public, final>>

CancelResumesWaiter ==
  /\ OnTop("cancel") /\ Top.at = "waiters"
  /\ \E w \in tasks[Top.task].waiters :
       /\ tasks' = [tasks EXCEPT ![Top.task].waiters = @ \ {w}, ![w].frame = FALSE]
       /\ IF tasks[w].frame THEN Push(Vm(w, "cancel")) ELSE UNCHANGED stack
  /\ UNCHANGED <<ready, turn, public, final>>

CancelNotifies ==
  /\ OnTop("cancel") /\ Top.at = "waiters"
  /\ tasks[Top.task].waiters = {}
  /\ tasks' = [tasks EXCEPT ![Top.task] = Notified(@)]
  /\ TellOwner(Top.task)
  /\ UNCHANGED <<ready, turn, public, final>>

CancelFinishes ==
  /\ OnTop("cancel") /\ Top.at = "finish"
  /\ FinalizeIfDone
  /\ IF Top.wake THEN Wake ELSE UNCHANGED turn
  /\ Pop
  /\ UNCHANGED <<tasks, ready>>

-----------------------------------------------------------------------------
(* The host: VoydRunHandle.cancel, when the scheduler accepts it, cancels   *)
(* the tasks there are now, in the order they were spawned.                 *)
RunCancel ==
  /\ HostCode
  /\ turn # "settled"
  /\ turn' = "settled"
  /\ public' = SettlePublic("cancelled")
  /\ Push([fn |-> "cancelAll", from |-> 0, upto |-> Len(tasks)])
  /\ UNCHANGED <<tasks, ready, final>>

CancelAll ==
  /\ OnTop("cancelAll")
  /\ IF Top.from = Top.upto THEN Pop
     ELSE LET t == Top.from + 1
          IN stack' = (IF Live(t) THEN <<CancelCall(t, FALSE)>> ELSE <<>>)
                        \o <<[Top EXCEPT !.from = t]>> \o Tail(stack)
  /\ UNCHANGED <<tasks, ready, turn, public, final>>

(* VoydRunHandle.observeTask, while the run is not over.                    *)
ObserveTask(u) ==
  /\ HostCode
  /\ turn # "settled"
  /\ u \in Spawned /\ Claimable(u)
  /\ tasks' = [tasks EXCEPT ![u].claimed = TRUE,
                 ![u].observer = IF tasks[u].terminal = "none" THEN "waiting" ELSE tasks[u].terminal,
                 ![u].observed = @ \/ tasks[u].terminal # "none",
                 ![u].live = (tasks[u].terminal = "none")]
  /\ UNCHANGED <<ready, turn, public, final, stack>>

Step == StepSettles \/ StepParks \/ StepPolls
Program ==
  \/ \E d \in BOOLEAN : Spawn(d)
  \/ \E u \in Spawned : CancelTask(u) \/ TakeValue(u)
  \/ VmReturns \/ VmTraps
Suspend == TaskReturns \/ WaitTask \/ YieldOnce \/ FailureMessage \/ CallHandler
Runtime ==
  \/ ApplyContinuation
  \/ CompleteEntry \/ CompleteCancelsChild \/ CompleteDecides \/ OwnerCompletes
  \/ SettleResumesWaiter \/ SettleNotifies \/ SinkReturns \/ SettleFinishes
  \/ CancelCancelsChild \/ CancelTerminates \/ CancelResumesWaiter
  \/ CancelNotifies \/ CancelFinishes \/ CancelAll
Host ==
  \/ HandlerReturns \/ RunCancel
  \/ \E t \in Spawned : PromiseSettles(t) \/ ObserveTask(t)

Next == Step \/ Program \/ Suspend \/ Runtime \/ Host

Spec == Init /\ [][Next]_vars
(* The event loop takes its turns, program code and handlers return, and    *)
(* the host code that is called runs to its end; promises may stay pending. *)
Fairness ==
  /\ WF_vars(Step) /\ WF_vars(Suspend) /\ WF_vars(Runtime)
  /\ WF_vars(VmReturns \/ VmTraps) /\ WF_vars(HandlerReturns)

FairSpec == Spec /\ Fairness

-----------------------------------------------------------------------------
(* Between two turns of the event loop.                                     *)
Quiet == stack = <<>>
Active == turn # "settled"

(* A task's end is awaited by one party at most, a task or the host: the    *)
(* capability is claimed by the first and every other attempt fails         *)
(* (capabilityClaimed in the wait operation and in observeTask).            *)
OneObserver ==
  \A t \in Spawned :
    /\ Cardinality(tasks[t].waiters) <= 1
    /\ tasks[t].waiters # {} => tasks[t].observer = "none"

(* Continuations are one-shot: the request of a task that waits is there to *)
(* be resumed, and no task has two segments in progress.                    *)
OneShot ==
  /\ \A t \in Spawned : \A w \in tasks[t].waiters : tasks[w].frame
  /\ \A i, j \in {k \in DOMAIN stack : stack[k].fn = "vm"} :
       stack[i].task = stack[j].task => i = j

(* The failure of a detached task reaches the sink or whoever claimed the   *)
(* task or read its message.                                                *)
DetachedReported ==
  Quiet => \A t \in Spawned :
    tasks[t].detached /\ tasks[t].terminal = "failed" =>
      \/ tasks[t].reported
      \/ tasks[t].observed /\ (tasks[t].claimed \/ ~tasks[t].live)

(* A task that waits for its children to end has one that has not: the last *)
(* to end, whoever ends it, completes it (maybeCompleteOwner).              *)
OwnersComplete ==
  Quiet => \A t \in Spawned :
    tasks[t].state = "completing" => \E c \in Children(t) : Live(c)

(* The task has ended, no code of it is in progress and none is kept by a   *)
(* task it waited for: only a handler's answer and its place in the ready   *)
(* queue may still name it.                                                 *)
CodeOf(call, t) ==
  /\ call.fn \in {"vm", "effect", "handler", "complete"}
  /\ call.task = t
  /\ call.fn = "complete" => call.at = "children"
Over(t) ==
  /\ ~Live(t)
  /\ \A i \in DOMAIN stack : ~CodeOf(stack[i], t)
  /\ \A u \in Spawned : t \notin tasks[u].waiters

(* "Late completions for cancelled tasks must be ignored" (docs/proposals/  *)
(* event-loop-runs-and-tasks.md:612): such a task neither comes back nor    *)
(* has code run, whatever still answers it.                                 *)
LateAnswersIgnored == [][\A t \in Spawned : Over(t) => Over(t)']_vars

(* Once every task has ended the run ends, and a queued task is polled: the *)
(* run neither hangs with its work done nor starves a task that yields.     *)
RunEnds == (Quiet /\ \A t \in Spawned : ~Live(t)) ~> (turn = "settled")
Queued(t) == \E i \in DOMAIN ready : ready[i] = t
QueuedIsPolled == \A t \in TaskId : Queued(t) ~> (~Queued(t) \/ ~Active)

-----------------------------------------------------------------------------
(* What the documents say of tasks and the code does not keep: a run with    *)
(* one of these as its property ends in a counterexample.                   *)

(* Once a task has ended its code is silent: it may be in the middle of a   *)
(* call, its own or a handler's, that cancels it (ibid. :612).              *)
EndedStaysSilent == OnTop("vm") => Live(Top.task)

(* "Cancellation is terminal and idempotent" (ibid. :609): how a task ended *)
(* never changes.                                                           *)
EndsStay ==
  \A t \in Spawned : ~Live(t) =>
    tasks'[t].state = "terminal" /\ tasks'[t].terminal = tasks[t].terminal
CancelledIsTerminal == [][EndsStay]_vars

(* "A task runs until return, failure, cancellation, or suspension" (ibid.  *)
(* :593): a task that waits is suspended on something, a handler's promise  *)
(* or a task that has not ended.                                            *)
NobodyStranded ==
  Quiet /\ Active =>
    \A t \in Spawned : tasks[t].state = "waiting" =>
      tasks[t].promise \/ \E u \in Spawned : Live(u) /\ t \in tasks[u].waiters

-----------------------------------------------------------------------------
(* What holds when tasks that were cancelled do not come back too late.  A   *)
(* cancelled child whose owner has ended with a value stays as it is; and   *)
(* once the host has been told how the run ended, no task comes back and    *)
(* no code of an ended task spawns.                                         *)
ChildStaysCancelled ==
  \A t \in Spawned :
    /\ ~Live(t) /\ tasks[t].terminal = "cancelled"
    /\ tasks[t].owner # TheRun /\ tasks[tasks[t].owner].terminal = "value"
    => tasks'[t].state = "terminal" /\ tasks'[t].terminal = "cancelled"
NothingLate ==
  public # "none" =>
    /\ \A t \in Spawned : ~Live(t) => tasks'[t].state = "terminal"
    /\ DOMAIN tasks' # Spawned => Live(Top.task)

ChildrenStaySpec == Init /\ [][Next /\ ChildStaysCancelled]_vars
NothingLateSpec == Init /\ [][Next /\ NothingLate]_vars

(* A task does not end with a value while an attached child has failed and  *)
(* nobody has looked ("Unobserved failure of an attached child must fail    *)
(* its owner before the owner can complete successfully", ibid. :618).      *)
FailureKept ==
  Quiet => \A t \in Spawned : tasks[t].terminal = "value" => ~UnobservedFailure(t)

(* The host learns the root's own outcome, after everything that blocks it  *)
(* has ended; and the run's last step comes after every task, detached or   *)
(* not, has ended.                                                          *)
DoneMeansDone ==
  Quiet /\ Active =>
    /\ public # "none" => /\ public = tasks[Root].terminal
                          /\ \A t \in Spawned : ~Blocking(t)
    /\ final # "none" => \A t \in Spawned : ~Live(t)
=============================================================================
