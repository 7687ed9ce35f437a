------------------------------- MODULE VxMount -------------------------------
(***************************************************************************)
(* An application mounted in a page (packages/vx-dom, mountRuntimeApp),    *)
(* with the Voyd program behind it (createVoydVxAppRuntime) and the        *)
(* registry of the callbacks the program retains for the host.             *)
(*                                                                         *)
(* Messages pass through a chain of promises, one at a time: the program   *)
(* steps, the frame is painted, the subscriptions are brought in line with *)
(* the model, the commands run.  The first step, of mountRuntimeApp        *)
(* itself, is not on that chain, and neither is a call of render().        *)
(*                                                                         *)
(* JavaScript runs to the next await: while turn holds a process, only     *)
(* that process moves.  The sub mapper and the command mapper of a step    *)
(* are callbacks the step owns; every subscription of a step is mapped by  *)
(* the one, every command by the other.  A component's own rendering, and  *)
(* the frames' content, are left out; a frame is the messages it shows.    *)
(***************************************************************************)
EXTENDS Naturals, Sequences, FiniteSets, SequencesExt

CONSTANTS
    MaxMessages,    \* messages ever dispatched
    MaxTrouble,     \* failures, calls of render() and of dispose() in a behaviour
    Key,            \* subscription keys
    Eager,          \* keys whose runner dispatches at once (media_query, ...)
    Deferring,      \* keys whose runner dispatches after the commands (location_change)
    Configs,        \* the subscription lists a step may return: <<[key, sig], ...>>
    Programs        \* the command lists a step may return

ASSUME BoundsAreNatural == MaxMessages \in Nat /\ MaxTrouble \in Nat
ASSUME ConfigsAreLists ==
    \A list \in Configs :
        /\ list \in Seq(Range(list))
        /\ \A i \in DOMAIN list : /\ list[i].key \in Key
                                 /\ list[i] = [key |-> list[i].key, sig |-> list[i].sig]

Message == 1 .. MaxMessages
Mount   == 0                        \* the step of mountRuntimeApp itself
Repaint == MaxMessages + 1          \* one call of render()
Proc    == 0 .. MaxMessages + 1

View(p)   == <<p, "view">>          \* the event handlers of the frame of p
Mapper(p) == <<p, "sub">>           \* the mapper of the subscriptions of p
Lift(p)   == <<p, "cmd">>           \* the mapper of the commands of p
Handler   == Proc \X {"view", "sub", "cmd"}

\* "Use a key that names the logical listener": two entries of a list that have one
\* key describe the same subscription.
KeysAreIdentities ==
    \A list \in Configs :
        \A i, j \in DOMAIN list : list[i].key = list[j].key => list[i].sig = list[j].sig

VARIABLES
    pc,         \* where each process is
    turn,       \* the process between two awaits, if any
    chain,      \* queue: steps and releases that wait for their turn, head first
    via,        \* the callback a message is mapped or handled by
    model,      \* app-runtime model: the messages it accounts for
    base,       \* the model a step has read
    frame,      \* the model the frame of a step was computed from
    shown,      \* the process whose frame is in the page
    page,       \* the model that frame was computed from
    want,       \* the subscriptions a step has returned
    todo,       \* those it has still to bring in line
    asked,      \* history: the subscriptions the last step to apply has returned
    drop,       \* the callback to release when a disposal returns
    cmds,       \* the commands it has still to run
    awaits,     \* the message whose handling it waits for
    active,     \* activeSubscriptions
    live,       \* listeners in the page
    timers,     \* delay commands that have not fired
    owed,       \* command mappers to release after their last use
    retained,   \* the registry of retained callbacks
    stack,      \* afterCommandCallbacks, by the step that pushed each list
    deferred,   \* the callbacks on each list
    disposed,
    doomed,     \* subscriptions disposeSubscriptions has still to dispose
    early,      \* history: a step began before the first one had ended
    stale       \* history: a callback was released that was not retained

vars == <<pc, turn, chain, via, model, base, frame, shown, page, want, todo, asked,
          drop, cmds, awaits, active, live, timers, owed, retained, stack, deferred, disposed,
          doomed, early, stale>>
program  == <<model, base, frame>>
display  == <<shown, page>>
step     == <<want, todo, drop, cmds, awaits, asked>>
subs     == <<active, live>>
commands == <<timers, owed>>
hooks    == <<stack, deferred>>
ending   == <<disposed, doomed>>
history  == <<early, stale>>

Settled == {"done", "failed"}
Running == {"stepping", "stepped", "removing", "dropping", "syncing", "replacing",
            "starting", "commands", "executing", "awaiting", "failing"}
KeysOf(list) == {list[i].key : i \in DOMAIN list}

TypeOK ==
    /\ pc \in [Proc -> {"new", "queued"} \cup Running \cup Settled]
    /\ turn \in SUBSET Proc /\ Cardinality(turn) <= 1
    /\ \A i \in DOMAIN chain : chain[i] \in [step : SUBSET Message, release : SUBSET Handler]
    /\ via \in [Message -> SUBSET Handler]
    /\ model \subseteq Message
    /\ base \in [Proc -> SUBSET Message] /\ frame \in [Proc -> SUBSET Message]
    /\ shown \in SUBSET Proc /\ Cardinality(shown) <= 1 /\ page \subseteq Message
    /\ \A p \in Proc : want[p] \in Configs \cup {<<>>}
    /\ drop \in [Proc -> SUBSET Handler] /\ awaits \in [Proc -> SUBSET Message]
    /\ \A r \in active : r.key \in Key /\ r.own \in Handler /\ r.by \in Proc
    /\ \A r, s \in active : r.key = s.key => r = s
    /\ \A l \in live : l.key \in Key /\ l.own \in Handler /\ l.by \in Proc
    /\ timers \subseteq Proc /\ owed \subseteq Handler /\ retained \subseteq Handler
    /\ stack \in Seq(Proc) /\ deferred \in [Proc -> SUBSET (Key \X Proc)]
    /\ disposed \in BOOLEAN /\ early \in BOOLEAN /\ stale \in BOOLEAN

\* The program is initialising; nothing is in the page yet.
Init ==
    /\ pc = [p \in Proc |-> IF p = Mount THEN "stepping" ELSE "new"]
    /\ turn = {} /\ chain = <<>> /\ via = [m \in Message |-> {}]
    /\ model = {} /\ base = [p \in Proc |-> {}] /\ frame = [p \in Proc |-> {}]
    /\ shown = {} /\ page = {} /\ asked = <<>>
    /\ want = [p \in Proc |-> <<>>] /\ todo = [p \in Proc |-> <<>>]
    /\ drop = [p \in Proc |-> {}] /\ cmds = [p \in Proc |-> <<>>]
    /\ awaits = [p \in Proc |-> {}]
    /\ active = {} /\ live = {} /\ timers = {} /\ owed = {} /\ retained = {}
    /\ stack = <<>> /\ deferred = [p \in Proc |-> {}]
    /\ disposed = FALSE /\ doomed = {}
    /\ early = FALSE /\ stale = FALSE

-----------------------------------------------------------------------------
(* The chain.                                                              *)

\* dispatchQueued: the next message is put behind everything that is queued.
Fresh == LET sent == Cardinality({m \in Message : pc[m] # "new"})
         IN  {sent + 1} \cap Message
Steps(M) == IF M = {} THEN <<>> ELSE <<[step |-> M, release |-> {}]>>

\* queuedRetainedHandlerReleaser: a release runs when what is queued has ended.
Releases(H) == IF H = {} THEN <<>> ELSE <<[step |-> {}, release |-> H]>>

WithoutNone(p) == chain                     \* mutant: a step never leaves the queue
\* The step of p has settled: the first one and a call of render() are not queued.
Without(p) == IF chain # <<>> /\ Head(chain).step = {p} THEN Tail(chain) ELSE chain

\* p goes to state s, and the messages of M are dispatched, mapped by h.
Goto(p, s, M, h) ==
    /\ pc' = [q \in Proc |-> IF q \in M THEN "queued" ELSE IF q = p THEN s ELSE pc[q]]
    /\ via' = [m \in Message |-> IF m \in M THEN h
                                ELSE IF m = p /\ s \in Settled THEN {} ELSE via[m]]

\* Mutant: a message does not wait for those before it.
MayBeginAtOnce(m) == \E i \in DOMAIN chain : chain[i].step = {m}
\* Nothing that was queued before m is still there.
MayBegin(m) == chain # <<>> /\ Head(chain).step = {m}
Ready(m)    == pc[m] = "queued" /\ MayBegin(m)

\* Mutant: a delay under way does not count as a use.
LastUseReturned(p) ==
    /\ Lift(p) \in owed
    /\ \A m \in Message : via[m] = {Lift(p)} => pc[m] \in Settled

\* A command has returned and the last message through its mapper has been handled.
LastUse(p) ==
    /\ Lift(p) \in owed /\ p \notin timers
    /\ \A m \in Message : via[m] = {Lift(p)} => pc[m] \in Settled

\* Nobody is between two awaits, and no release is due.
Idle == /\ turn = {}
        /\ chain # <<>> => Head(chain).step # {}
        /\ \A p \in Proc : ~ LastUse(p)

\* Bound: how much goes wrong in one behaviour.
Failures == {p \in Proc : pc[p] \in {"failing", "failed"}}
MayTrouble == (IF Failures # {} THEN 1 ELSE 0) + (IF pc[Repaint] # "new" THEN 1 ELSE 0)
              + (IF disposed /\ pc[Mount] = "done" THEN 1 ELSE 0) < MaxTrouble

\* Promise continuations that are ready run before the next event or timer does.
NoneReady ==
    /\ Idle
    /\ \A m \in Message : ~ Ready(m)
    /\ \A p \in Proc : /\ pc[p] \notin {"stepped", "failing"}
                       /\ pc[p] = "awaiting" => \E m \in awaits[p] : pc[m] \notin Settled

\* A release whose turn has come.  The registry refuses a callback it does not
\* hold, and the rejection is nobody's.
RunRelease ==
    /\ turn = {} /\ chain # <<>> /\ Head(chain).step = {}
    /\ retained' = retained \ Head(chain).release
    /\ stale' = (stale \/ ~ Head(chain).release \subseteq retained)
    /\ chain' = Tail(chain)
    /\ UNCHANGED <<pc, turn, via, program, display, step, subs, commands, hooks, ending,
                   early>>

\* dispatchNow: the program reads its model and runs, unless the application is
\* disposed or the callback the message comes through is gone.
BeginStep(m) ==
    /\ Ready(m) /\ Idle
    /\ \/ /\ disposed
          /\ Goto(m, "done", {}, {})
          /\ chain' = Without(m)
          /\ UNCHANGED <<base, early>>
       \/ /\ ~ disposed /\ ~ via[m] \subseteq retained
          /\ Goto(m, "failing", {}, {})
          /\ UNCHANGED <<chain, base, early>>
       \/ /\ ~ disposed /\ via[m] \subseteq retained
          /\ Goto(m, "stepping", {}, {})
          /\ base' = [base EXCEPT ![m] = model]
          /\ early' = (early \/ pc[Mount] # "done")
          /\ UNCHANGED chain
    /\ UNCHANGED <<turn, model, frame, display, step, subs, commands, retained, hooks,
                   ending, stale>>

\* toRuntimeStep: the program's answer.  Its model replaces the one there is; the
\* frame, the subscriptions and the commands come with callbacks of their own.
EndStep(p) ==
    /\ p # Repaint /\ pc[p] = "stepping" /\ Idle
    /\ \E config \in Configs, list \in Programs :
          /\ want' = [want EXCEPT ![p] = config]
          /\ todo' = [todo EXCEPT ![p] = config]
          /\ cmds' = [cmds EXCEPT ![p] = list]
          /\ retained' = retained \cup {View(p)}
                                  \cup (IF config = <<>> THEN {} ELSE {Mapper(p)})
                                  \cup (IF list = <<>> THEN {} ELSE {Lift(p)})
    /\ model' = base[p] \cup ({p} \cap Message)
    /\ frame' = [frame EXCEPT ![p] = model']
    /\ base' = [base EXCEPT ![p] = {}]
    /\ Goto(p, "stepped", {}, {})
    /\ UNCHANGED <<turn, chain, display, asked, drop, awaits, subs, commands, hooks,
                   ending, history>>

\* The program traps.
FailStep(p) ==
    /\ p # Repaint /\ pc[p] = "stepping" /\ Idle
    /\ Goto(p, "failing", {}, {})
    /\ base' = [base EXCEPT ![p] = {}]
    /\ UNCHANGED <<turn, chain, model, frame, display, step, subs, commands, retained,
                   hooks, ending, history>>

\* render(): the frame is computed at once and applied when the promise returns.
Render ==
    /\ pc[Mount] = "done" /\ pc[Repaint] = "new" /\ MayTrouble /\ NoneReady
    /\ Goto(Repaint, "stepped", {}, {})
    /\ frame' = [frame EXCEPT ![Repaint] = model]
    /\ retained' = retained \cup {View(Repaint)}
    /\ UNCHANGED <<turn, chain, model, base, display, step, subs, commands, hooks, ending,
                   history>>

-----------------------------------------------------------------------------
(* applyRuntimeStep.                                                       *)

\* The frame replaces the one in the page, whose handlers are released.  An
\* application that is disposed is left alone.
Apply(p) ==
    /\ pc[p] = "stepped" /\ ~ disposed /\ Idle
    /\ shown' = {p} /\ page' = frame[p]
    /\ frame' = [frame EXCEPT ![p] = {}]
    /\ chain' = chain \o Releases({View(q) : q \in shown})
    /\ IF p = Repaint
         THEN Goto(p, "done", {}, {}) /\ UNCHANGED <<turn, stack, asked>>
         ELSE /\ Goto(p, "removing", {}, {})
              /\ turn' = {p} /\ stack' = Append(stack, p) /\ asked' = want[p]
    /\ UNCHANGED <<model, base, want, todo, drop, cmds, awaits, subs, commands, retained,
                   deferred, ending, history>>

ApplyNothing(p) ==
    /\ pc[p] = "stepped" /\ disposed /\ Idle
    /\ Goto(p, "done", {}, {})
    /\ chain' = Without(p)
    /\ want' = [want EXCEPT ![p] = <<>>]
    /\ todo' = [todo EXCEPT ![p] = <<>>]
    /\ cmds' = [cmds EXCEPT ![p] = <<>>]
    /\ frame' = [frame EXCEPT ![p] = {}]
    /\ UNCHANGED <<turn, model, base, display, asked, drop, awaits, subs, commands,
                   retained, hooks, ending, history>>

\* The page refuses the frame: the handlers it would have introduced are released.
RenderThrows(p) ==
    /\ pc[p] = "stepped" /\ ~ disposed /\ Idle
    /\ chain' = chain \o Releases({View(p)})
    /\ Goto(p, "failing", {}, {})
    /\ UNCHANGED <<turn, program, display, step, subs, commands, retained, hooks, ending,
                   history>>

-----------------------------------------------------------------------------
(* syncRuntimeSubscriptions.                                               *)

\* releaseRetainedHandlers: the callbacks no active subscription owns.
UnusedUnchecked(H, records) == H            \* mutant: a shared mapper is released with its first owner
Unused(H, records) == {h \in H : \A r \in records : r.own # h}

\* Mutant: the record is dropped without calling its disposer.
DisposeRecord(p, r, s) ==
    /\ active' = active \ {r}
    /\ drop' = [drop EXCEPT ![p] = {r.own}]
    /\ turn' = {}
    /\ Goto(p, s, {}, {})
    /\ UNCHANGED <<chain, program, display, want, todo, asked, cmds, awaits, live,
                   commands, retained, hooks, ending, history>>
Dispose(p, r, s) ==
    /\ active' = active \ {r}
    /\ live' = {l \in live : <<l.key, l.by>> # <<r.key, r.by>>}
    /\ drop' = [drop EXCEPT ![p] = {r.own}]
    /\ turn' = {}
    /\ Goto(p, s, {}, {})
    /\ UNCHANGED <<chain, program, display, want, todo, asked, cmds, awaits, commands,
                   retained, hooks, ending, history>>

\* The subscriptions that are gone are disposed, each disposal awaited.
RemoveGone(p) ==
    /\ turn = {p} /\ pc[p] = "removing"
    /\ \E r \in active : r.key \notin KeysOf(want[p]) /\ Dispose(p, r, "dropping")

RemovedAll(p) ==
    /\ turn = {p} /\ pc[p] = "removing"
    /\ \A r \in active : r.key \in KeysOf(want[p])
    /\ Goto(p, "syncing", {}, {})
    /\ UNCHANGED <<turn, chain, program, display, step, subs, commands, retained, hooks,
                   ending, history>>

\* The subscription has changed: it is disposed and started again.
Replace(p) ==
    /\ turn = {p} /\ pc[p] = "syncing" /\ todo[p] # <<>>
    /\ \E r \in active : /\ r.key = Head(todo[p]).key /\ r.sig # Head(todo[p]).sig
                         /\ Dispose(p, r, "replacing")

\* The disposal has returned.
Dropped(p) ==
    /\ pc[p] \in {"dropping", "replacing"} /\ Idle
    /\ chain' = chain \o Releases(Unused(drop[p], active))
    /\ drop' = [drop EXCEPT ![p] = {}]
    /\ turn' = {p}
    /\ Goto(p, IF pc[p] = "dropping" THEN "removing" ELSE "syncing", {}, {})
    /\ UNCHANGED <<program, display, want, todo, asked, cmds, awaits, subs, commands,
                   retained, hooks, ending, history>>

\* The subscription is the same: its listener stays and takes the new mapper.
Keep(p) ==
    /\ turn = {p} /\ pc[p] = "syncing" /\ todo[p] # <<>>
    /\ \E r \in active :
          /\ r.key = Head(todo[p]).key /\ r.sig = Head(todo[p]).sig
          /\ active' = (active \ {r}) \cup {[r EXCEPT !.own = Mapper(p)]}
          /\ live' = {IF <<l.key, l.by>> = <<r.key, r.by>> THEN [l EXCEPT !.own = Mapper(p)]
                                                          ELSE l : l \in live}
          /\ chain' = chain \o Releases(Unused({r.own}, active'))
    /\ todo' = [todo EXCEPT ![p] = Tail(@)]
    /\ UNCHANGED <<pc, turn, via, program, display, want, asked, drop, cmds, awaits,
                   commands, retained, hooks, ending, history>>

NotActive(key) == \A r \in active : r.key # key

\* The runner is called: it listens, and may dispatch at once, or leave a callback
\* for after the commands of whichever step is on top of the stack.
Start(p) ==
    /\ turn = {p} /\ pc[p] = "syncing" /\ todo[p] # <<>> /\ NotActive(Head(todo[p]).key)
    /\ LET key == Head(todo[p]).key
           speaks == IF key \in Eager /\ ~ disposed THEN Fresh ELSE {}
       IN  /\ live' = live \cup {[key |-> key, by |-> p, own |-> Mapper(p)]}
           /\ Goto(p, "starting", speaks, {Mapper(p)})
           /\ chain' = chain \o Steps(speaks)
           /\ deferred' = IF key \in Deferring /\ stack # <<>>
                            THEN [deferred EXCEPT ![Last(stack)] = @ \cup {<<key, p>>}]
                            ELSE deferred
    /\ turn' = {}
    /\ UNCHANGED <<program, display, step, active, commands, retained, stack, ending,
                   history>>

\* The runner's promise has returned: the subscription is on record.
Started(p) ==
    /\ pc[p] = "starting" /\ Idle
    /\ active' = {r \in active : r.key # Head(todo[p]).key}
                 \cup {[key |-> Head(todo[p]).key, sig |-> Head(todo[p]).sig,
                        own |-> Mapper(p), by |-> p]}
    /\ todo' = [todo EXCEPT ![p] = Tail(@)]
    /\ turn' = {p}
    /\ Goto(p, "syncing", {}, {})
    /\ UNCHANGED <<chain, program, display, want, asked, drop, cmds, awaits, live,
                   commands, retained, hooks, ending, history>>

\* The runner refuses: the step fails, and what was not reached is left as it was.
StartThrows(p) ==
    /\ turn = {p} /\ pc[p] = "syncing" /\ todo[p] # <<>> /\ NotActive(Head(todo[p]).key)
    /\ turn' = {}
    /\ stack' = Front(stack)
    /\ Goto(p, "failing", {}, {})
    /\ UNCHANGED <<chain, program, display, step, subs, commands, retained, deferred,
                   ending, history>>

Synced(p) ==
    /\ turn = {p} /\ pc[p] = "syncing" /\ todo[p] = <<>>
    /\ want' = [want EXCEPT ![p] = <<>>]
    /\ Goto(p, "commands", {}, {})
    /\ UNCHANGED <<turn, chain, program, display, todo, asked, drop, cmds, awaits, subs,
                   commands, retained, hooks, ending, history>>

-----------------------------------------------------------------------------
(* runCommands, under the command mapper of the step.                      *)

Command(p, kind) == /\ turn = {p} /\ pc[p] = "commands"
                    /\ cmds[p] # <<>> /\ Head(cmds[p]) = kind
Advance(p) == cmds' = [cmds EXCEPT ![p] = Tail(@)]

\* A message command dispatches, and waits until the message has been handled.
MessageCommand(p) ==
    /\ Command(p, "message")
    /\ Advance(p)
    /\ awaits' = [awaits EXCEPT ![p] = Fresh]
    /\ Goto(p, "awaiting", Fresh, {Lift(p)})
    /\ chain' = chain \o Steps(Fresh)
    /\ turn' = {}
    /\ UNCHANGED <<program, display, want, todo, asked, drop, subs, commands, retained,
                   hooks, ending, history>>

MessageHandled(p) ==
    /\ pc[p] = "awaiting" /\ Idle
    /\ \A m \in awaits[p] : pc[m] \in Settled
    /\ IF \E m \in awaits[p] : pc[m] = "failed"
         THEN /\ Goto(p, "failing", {}, {})
              /\ stack' = Front(stack)
              /\ owed' = owed \cup {Lift(p)}
              /\ UNCHANGED turn
         ELSE Goto(p, "commands", {}, {}) /\ turn' = {p} /\ UNCHANGED <<stack, owed>>
    /\ awaits' = [awaits EXCEPT ![p] = {}]
    /\ UNCHANGED <<chain, program, display, want, todo, asked, drop, cmds, subs, timers,
                   retained, deferred, ending, history>>

\* A delay command, on an application that may have been disposed meanwhile.
DelayCommand(p) ==
    /\ Command(p, "delay")
    /\ Advance(p)
    /\ timers' = timers \cup {p}
    /\ UNCHANGED <<pc, turn, chain, via, program, display, want, todo, asked, drop,
                   awaits, subs, owed, retained, hooks, ending, history>>

DelayFires(p) ==
    /\ p \in timers /\ NoneReady
    /\ timers' = timers \ {p}
    /\ LET M == IF disposed THEN {} ELSE Fresh
       IN  Goto(p, pc[p], M, {Lift(p)}) /\ chain' = chain \o Steps(M)
    /\ UNCHANGED <<turn, program, display, step, subs, owed, retained, hooks, ending,
                   history>>

\* An executor of the host, which returns later and then dispatches or does not.
ExecuteCommand(p) ==
    /\ Command(p, "execute")
    /\ Advance(p)
    /\ Goto(p, "executing", {}, {})
    /\ turn' = {}
    /\ UNCHANGED <<chain, program, display, want, todo, asked, drop, awaits, subs,
                   commands, retained, hooks, ending, history>>

Executed(p) ==
    /\ pc[p] = "executing" /\ Idle
    /\ \E M \in {{}} \cup (IF disposed THEN {} ELSE {Fresh}) :
          Goto(p, "commands", M, {Lift(p)}) /\ chain' = chain \o Steps(M)
    /\ turn' = {p}
    /\ UNCHANGED <<program, display, step, subs, commands, retained, hooks, ending,
                   history>>

ExecuteThrows(p) ==
    /\ pc[p] = "executing" /\ Idle
    /\ Goto(p, "failing", {}, {})
    /\ stack' = Front(stack)
    /\ owed' = owed \cup {Lift(p)}
    /\ UNCHANGED <<turn, chain, program, display, step, subs, timers, retained, deferred,
                   ending, history>>

\* The commands have returned: the callbacks left for after them run, those of
\* listeners that are gone doing nothing.
Finish(p) ==
    /\ turn = {p} /\ pc[p] = "commands" /\ cmds[p] = <<>>
    /\ turn' = {}
    /\ LET ready == {l \in live : <<l.key, l.by>> \in deferred[p] /\ ~ disposed}
           M == IF ready = {} THEN {} ELSE Fresh
       IN  /\ Goto(p, "done", M, {l.own : l \in ready})
           /\ chain' = Without(p) \o Steps(M)
    /\ stack' = Front(stack)
    /\ deferred' = [deferred EXCEPT ![p] = {}]
    /\ owed' = owed \cup ({Lift(p)} \cap retained)
    /\ UNCHANGED <<program, display, step, subs, timers, retained, ending, history>>

\* Mutant: the last use of a command mapper does not release it.
ReleaseLiftKept(p) ==
    /\ turn = {} /\ LastUse(p)
    /\ owed' = owed \ {Lift(p)}
    /\ UNCHANGED <<pc, turn, chain, via, program, display, step, subs, timers, retained,
                   hooks, ending, history>>
\* releaseIfDone of ownedCommandMapExecutionContext.
ReleaseLift(p) ==
    /\ turn = {} /\ LastUse(p)
    /\ owed' = owed \ {Lift(p)}
    /\ chain' = chain \o Releases({Lift(p)})
    /\ UNCHANGED <<pc, turn, via, program, display, step, subs, timers, retained, hooks,
                   ending, history>>

-----------------------------------------------------------------------------
(* Input, errors and the end.                                              *)

\* The user acts on the frame in the page, or the page's code calls dispatch().
UserEvent ==
    /\ Fresh # {} /\ NoneReady
    /\ \E h \in {{View(p)} : p \in shown} \cup (IF pc[Mount] = "done" THEN {{}} ELSE {}) :
          Goto(Mount, pc[Mount], Fresh, h)
    /\ chain' = chain \o Steps(Fresh)
    /\ UNCHANGED <<turn, program, display, step, subs, commands, retained, hooks, ending,
                   history>>

\* A listener dispatches; one that has spoken does not speak after the commands.
Emit(l) ==
    /\ ~ disposed /\ Fresh # {} /\ NoneReady
    /\ Goto(Mount, pc[Mount], Fresh, {l.own})
    /\ chain' = chain \o Steps(Fresh)
    /\ deferred' = [p \in Proc |-> deferred[p] \ {<<l.key, l.by>>}]
    /\ UNCHANGED <<turn, program, display, step, subs, commands, retained, stack, ending,
                   history>>

\* dispose(), and the catch of mountRuntimeApp: timers are cleared, the renderer
\* lets its handlers go, the subscriptions are taken off the record to be disposed.
TearDown ==
    /\ disposed' = TRUE
    /\ timers' = {}
    /\ doomed' = doomed \cup active
    /\ active' = {}
    /\ shown' = {} /\ page' = {}

DisposeApp ==
    /\ pc[Mount] = "done" /\ ~ disposed /\ MayTrouble /\ Idle
    /\ TearDown
    /\ chain' = chain \o Releases({View(p) : p \in shown})
    /\ UNCHANGED <<pc, turn, via, program, step, live, owed, retained, hooks, history>>

\* A step that failed has settled; the first one takes the application with it.
Reject(p) ==
    /\ pc[p] = "failing" /\ Idle
    /\ Goto(p, "failed", {}, {})
    /\ IF p = Mount
         THEN TearDown /\ chain' = chain \o Releases({View(q) : q \in shown})
         ELSE chain' = Without(p) /\ UNCHANGED <<display, active, timers, disposed, doomed>>
    /\ want' = [want EXCEPT ![p] = <<>>]
    /\ todo' = [todo EXCEPT ![p] = <<>>]
    /\ cmds' = [cmds EXCEPT ![p] = <<>>]
    /\ frame' = [frame EXCEPT ![p] = {}]
    /\ UNCHANGED <<turn, model, base, asked, drop, awaits, live, owed, retained, hooks,
                   early, stale>>

\* disposeSubscriptions: one subscription after the other; the release is direct,
\* and one the registry refuses ends the loop.
DisposeNext ==
    /\ doomed # {} /\ Idle
    /\ \E r \in doomed :
          LET gone == Unused({r.own}, active)
          IN  /\ live' = {l \in live : <<l.key, l.by>> # <<r.key, r.by>>}
              /\ retained' = retained \ gone
              /\ stale' = (stale \/ ~ gone \subseteq retained)
              /\ doomed' = IF gone \subseteq retained THEN doomed \ {r} ELSE {}
    /\ UNCHANGED <<pc, turn, chain, via, program, display, step, active, commands, hooks,
                   disposed, early>>

Sync(p) == \/ RemoveGone(p) \/ RemovedAll(p) \/ Replace(p) \/ Dropped(p) \/ Keep(p)
           \/ Start(p) \/ Started(p) \/ Synced(p)
Commands(p) == \/ MessageCommand(p) \/ MessageHandled(p) \/ DelayCommand(p) \/ DelayFires(p)
               \/ ExecuteCommand(p) \/ Executed(p) \/ Finish(p) \/ ReleaseLift(p)
Errors(p) == FailStep(p) \/ RenderThrows(p) \/ StartThrows(p) \/ ExecuteThrows(p)

Machine == \/ RunRelease \/ DisposeNext
           \/ \E m \in Message : BeginStep(m)
           \/ \E p \in Proc : \/ EndStep(p) \/ Apply(p) \/ ApplyNothing(p) \/ Reject(p)
                              \/ Sync(p) \/ Commands(p)

Next == \/ Machine
        \/ MayTrouble /\ Failures = {} /\ \E p \in Proc : Errors(p)
        \/ Render \/ UserEvent \/ DisposeApp
        \/ \E l \in live : Emit(l)

Spec == Init /\ [][Next]_vars

\* Promises that can settle do: the program's, the runners' and executors' too.
FairSpec == Spec /\ WF_vars(Machine)

-----------------------------------------------------------------------------
(* Properties.                                                             *)

\* Whatever can still call back into the program finds its callback retained: the
\* page, the listeners, the delays and the messages on their way, although frames
\* and subscriptions change and their callbacks are released while all of these
\* are under way (browser.ts:497-521, 3069-3085, 3965-4017).
CallbacksOutliveUses ==
    ~ disposed /\ ~ early =>
        /\ \A m \in Message : pc[m] = "queued" => via[m] \subseteq retained
        /\ \A p \in shown : View(p) \in retained
        /\ \A p \in timers : Lift(p) \in retained
        /\ \A l \in live : l.own \in retained

\* No callback is released twice while the application lives: the registry throws
\* for one it does not hold, and leaves the rest of a batch retained
\* (retained-callbacks.ts:100-109).
ReleasedOnce == stale => disposed \/ early

Recorded == {[key |-> r.key, by |-> r.by, own |-> r.own] : r \in active}

\* Each key has one listener in the page, and the record that can dispose it is
\* kept, or is about to be (browser.ts:2987-3025).
OneListenerPerKey ==
    ~ early /\ ~ disposed =>
        /\ \A l1, l2 \in live : l1.key = l2.key => l1 = l2
        /\ \A l \in live : \/ [key |-> l.key, by |-> l.by, own |-> l.own] \in Recorded
                           \/ pc[l.by] = "starting" /\ Head(todo[l.by]).key = l.key

Quiet == /\ turn = {} /\ chain = <<>> /\ timers = {} /\ owed = {} /\ doomed = {}
         /\ \A p \in Proc : pc[p] \in {"new"} \cup Settled
Calm == Quiet /\ ~ early /\ ~ disposed /\ Failures = {}

\* When everything has settled, the listeners are those the last step asked for,
\* as it described them, and nothing is retained but what they and the page need.
SettledAsAsked ==
    Calm => /\ {[key |-> r.key, sig |-> r.sig] : r \in active} = Range(asked)
            /\ {<<l.key, l.by>> : l \in live} = {<<r.key, r.by>> : r \in active}
            /\ retained = {View(p) : p \in shown} \cup {r.own : r \in active}

\* No step is lost.  The program reads its model before an await and overwrites it
\* after (app-runtime.ts:253-275): no step writes a model that misses what an earlier
\* one wrote, and the page never goes back to an older model, except by a call of
\* render(), which does not wait for the steps under way (browser.ts:668-671).
NoStepLost == [][/\ model \subseteq model'
                 /\ shown' \subseteq {Repaint} \/ page \subseteq page']_vars

\* A message is handled, unless a step waits for a message of its own.
WaitsForItself == \E p \in Message : pc[p] = "awaiting"
MessagesHandled ==
    \A m \in Message : pc[m] = "queued" ~> (pc[m] \in Settled \/ WaitsForItself)

-----------------------------------------------------------------------------
(* What the documentation says and the code does not keep.                 *)

\* "Creates a command that dispatches a typed application message": a message
\* command is handled, whichever step returns it.
MessageCommandsHandled ==
    \A m \in Message : pc[m] = "queued" ~> pc[m] \in Settled

\* "The runtime cleans up timers and browser listeners when a subscription
\* disappears or the app is disposed."
DisposedIsSilent == Quiet /\ disposed => live = {}
=============================================================================
