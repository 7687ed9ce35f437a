---------------------------- MODULE VxMountProofs ----------------------------
(***************************************************************************)
(* What VxMount keeps for every number of messages, every set of keys and  *)
(* all lists of subscriptions and commands: no step writes a model that    *)
(* misses what an earlier one wrote, and the page does not go back; a key  *)
(* has one listener; and, where the entries of a list that have one key    *)
(* describe one subscription, whatever can call back into the program      *)
(* finds its callback retained, none is released twice, and when all has   *)
(* settled the subscriptions are those asked for and nothing else is       *)
(* retained.                                                               *)
(***************************************************************************)
EXTENDS VxMount, SequenceTheorems, FiniteSetTheorems, TLAPS

-----------------------------------------------------------------------------
(* The types of what VxMount keeps of callbacks, subscriptions and lists.   *)
AtMostOne(S, T) == S = {} \/ \E x \in T : S = {x}

Wanted   == UNION {Range(list) : list \in Configs}
Record   == [key : Key, sig : {w.sig : w \in Wanted}, own : Handler, by : Proc]
Listener == [key : Key, by : Proc, own : Handler]

Placed == /\ AtMostOne(turn, Proc) /\ AtMostOne(shown, Proc)
          /\ stack \in Seq(Proc) /\ timers \in SUBSET Proc
          /\ disposed \in BOOLEAN /\ early \in BOOLEAN /\ stale \in BOOLEAN
Owned  == /\ via \in [Message -> SUBSET Handler]
          /\ drop \in [Proc -> SUBSET Handler] /\ awaits \in [Proc -> SUBSET Message]
          /\ owed \in SUBSET Handler /\ retained \in SUBSET Handler
Listed == /\ want \in [Proc -> Configs \cup {<<>>}]
          /\ todo \in [Proc -> Seq(Wanted)]
          /\ active \in SUBSET Record /\ (\A r, s \in active : r.key = s.key => r = s)
          /\ live \in SUBSET Listener
          /\ deferred \in [Proc -> SUBSET (Key \X Proc)]
\* A start under way is that of the first subscription of the list.
Begun  == \A p \in Proc : pc[p] = "starting" => todo[p] # <<>>
Typed  == Placed /\ Owned /\ Listed /\ Begun

LEMMA Procs ==
    /\ Message \subseteq Proc /\ Mount \in Proc /\ Repaint \in Proc
    /\ Mount \notin Message /\ Repaint \notin Message /\ Mount # Repaint
    /\ Proc = Message \cup {Mount, Repaint}
BY BoundsAreNatural DEF Message, Proc, Mount, Repaint

LEMMA Handlers ==
    \A p \in Proc : View(p) \in Handler /\ Mapper(p) \in Handler /\ Lift(p) \in Handler
BY DEF View, Mapper, Lift, Handler

LEMMA FreshTyped == Fresh \in SUBSET Message
BY DEF Fresh

\* A message comes through callbacks.
LEMMA GotoOwned ==
    ASSUME via \in [Message -> SUBSET Handler], NEW p, NEW s, NEW M, NEW h \in SUBSET Handler,
           Goto(p, s, M, h)
    PROVE  via' \in [Message -> SUBSET Handler]
BY DEF Goto

LEMMA WantedTyped ==
    /\ \A list \in Configs : list \in Seq(Wanted)
    /\ \A w \in Wanted : w.key \in Key
<1>1. ASSUME NEW list \in Configs
      PROVE  list \in Seq(Wanted) /\ \A x \in Range(list) : x.key \in Key
  <2>1. list \in Seq(Range(list)) /\ \A i \in DOMAIN list : list[i].key \in Key
    BY ConfigsAreLists
  <2>2. Range(list) \subseteq Wanted  BY DEF Wanted
  <2>3. Len(list) \in Nat /\ DOMAIN list = 1 .. Len(list)
        /\ \A i \in 1 .. Len(list) : list[i] \in Wanted
    BY <2>1, <2>2
  <2>4. list \in Seq(Wanted)  BY <2>1, <2>3
  <2> QED  BY <2>1, <2>4 DEF Range
<1> QED  BY <1>1 DEF Wanted

\* The head of a list that is not at its end, and what is left of it.
LEMMA HeadAndTail ==
    ASSUME NEW S, NEW s \in Seq(S), s # <<>>
    PROVE  Head(s) \in S /\ Tail(s) \in Seq(S)
OBVIOUS

LEMMA FrontTyped == ASSUME NEW S, NEW s \in Seq(S) PROVE Front(s) \in Seq(S)
<1>1. Len(s) \in Nat  OBVIOUS
<1>2. \A i \in 1 .. (Len(s) - 1) : s[i] \in S  OBVIOUS
<1> QED  BY <1>1, <1>2 DEF Front

LEMMA InitTyped == Init => Typed
<1> SUFFICES ASSUME Init PROVE Typed  OBVIOUS
<1>1. Placed
  <2>1. turn = {} /\ shown = {} /\ stack = <<>> /\ timers = {}
        /\ disposed = FALSE /\ early = FALSE /\ stale = FALSE
    BY DEF Init
  <2>2. stack \in Seq(Proc)  BY <2>1
  <2>3. disposed \in BOOLEAN /\ early \in BOOLEAN /\ stale \in BOOLEAN  BY <2>1
  <2>4. AtMostOne(turn, Proc) /\ AtMostOne(shown, Proc) /\ timers \in SUBSET Proc
    BY <2>1 DEF AtMostOne
  <2> QED  BY <2>2, <2>3, <2>4 DEF Placed
<1>2. Owned  BY DEF Init, Owned
<1>3. Listed  BY DEF Init, Listed
<1>4. Begun  BY DEF Init, Begun
<1> QED  BY <1>1, <1>2, <1>3, <1>4 DEF Typed

-----------------------------------------------------------------------------
(* Who has the turn, what is shown, the stack and the timers.              *)

LEMMA PlacedKept == ASSUME Typed, [Next]_vars PROVE Placed'
<1> USE DEF program, display, step, subs, commands, hooks, ending, history, Placed, AtMostOne
<1>1. Placed  BY DEF Typed
<1>2. Front(stack) \in Seq(Proc)  BY <1>1, FrontTyped
<1>3. ASSUME NEW p \in Proc, Sync(p) PROVE Placed'
  BY <1>1, <1>3 DEF Sync, RemoveGone, RemovedAll, Replace, Dropped, Keep, Start, Started, Synced,
                    Dispose
<1>4. ASSUME NEW p \in Proc, Commands(p) PROVE Placed'
  BY <1>1, <1>2, <1>4 DEF Commands, MessageCommand, MessageHandled, DelayCommand, DelayFires,
                          ExecuteCommand, Executed, Finish, ReleaseLift, Command
<1>5. ASSUME NEW p \in Proc, Errors(p) PROVE Placed'
  BY <1>1, <1>2, <1>5 DEF Errors, FailStep, RenderThrows, StartThrows, ExecuteThrows
<1>6. ASSUME NEW p \in Proc, EndStep(p) \/ ApplyNothing(p) PROVE Placed'
  BY <1>1, <1>6 DEF EndStep, ApplyNothing
<1>7. ASSUME NEW p \in Proc, Apply(p) PROVE Placed'
  <2>1. Append(stack, p) \in Seq(Proc)  BY <1>1, <1>7
  <2>2. /\ shown' = {p} /\ turn' \in {turn, {p}} /\ stack' \in {stack, Append(stack, p)}
        /\ UNCHANGED <<timers, disposed, early, stale>>
    BY <1>7 DEF Apply
  <2> QED  BY <1>1, <1>7, <2>1, <2>2
<1>8. ASSUME NEW p \in Proc, Reject(p) PROVE Placed'
  BY <1>1, <1>8 DEF Reject, TearDown
<1>9. ASSUME NEW m \in Message, BeginStep(m) PROVE Placed'
  BY <1>1, <1>9 DEF BeginStep
<1>10. ASSUME RunRelease \/ Render \/ UserEvent PROVE Placed'
  BY <1>1, <1>10 DEF RunRelease, Render, UserEvent
<1>11. ASSUME DisposeNext PROVE Placed'  BY <1>1, <1>11 DEF DisposeNext
<1>12. ASSUME DisposeApp PROVE Placed'  BY <1>1, <1>12 DEF DisposeApp, TearDown
<1>13. ASSUME NEW l \in live, Emit(l) PROVE Placed'  BY <1>1, <1>13 DEF Emit
<1>14. CASE UNCHANGED vars  BY <1>1, <1>14 DEF vars
<1> QED
  BY <1>3, <1>4, <1>5, <1>6, <1>7, <1>8, <1>9, <1>10, <1>11, <1>12, <1>13, <1>14
  DEF Next, Machine

-----------------------------------------------------------------------------
(* Callbacks: where messages come through, what is dropped and retained.   *)

LEMMA OwnedKept == ASSUME Typed, [Next]_vars PROVE Owned'
<1> USE DEF program, display, step, subs, commands, hooks, ending, history, Owned
<1>1. Owned  BY DEF Typed
<1>2. /\ active \in SUBSET Record /\ live \in SUBSET Listener
      /\ \A r \in active : r.own \in Handler
      /\ \A l \in live : l.own \in Handler
  BY DEF Typed, Listed, Record, Listener
<1>3. shown \subseteq Proc  BY DEF Typed, Placed, AtMostOne
<1>4. ASSUME NEW p \in Proc, Sync(p) PROVE Owned'
  <2>1. ASSUME NEW r \in active, NEW s, Dispose(p, r, s) PROVE Owned'
    BY <1>1, <1>2, <2>1, GotoOwned DEF Dispose
  <2>2. CASE RemoveGone(p) \/ Replace(p)  BY <2>1, <2>2 DEF RemoveGone, Replace
  <2>3. CASE RemovedAll(p)  BY <1>1, <2>3, GotoOwned DEF RemovedAll
  <2>4. CASE Dropped(p)  BY <1>1, <2>4, GotoOwned DEF Dropped
  <2>5. CASE Keep(p)  BY <1>1, <2>5 DEF Keep
  <2>6. CASE Start(p)  BY <1>1, <2>6, GotoOwned, Handlers DEF Start
  <2>7. CASE Started(p)  BY <1>1, <2>7, GotoOwned DEF Started
  <2>8. CASE Synced(p)  BY <1>1, <2>8, GotoOwned DEF Synced
  <2> QED  BY <1>4, <2>2, <2>3, <2>4, <2>5, <2>6, <2>7, <2>8 DEF Sync
<1>5. ASSUME NEW p \in Proc, Commands(p) PROVE Owned'
  <2>1. {Lift(p)} \in SUBSET Handler  BY Handlers
  <2>2. CASE MessageCommand(p)
    BY <1>1, <2>1, <2>2, GotoOwned, FreshTyped DEF MessageCommand
  <2>3. CASE MessageHandled(p)  BY <1>1, <2>1, <2>3, GotoOwned DEF MessageHandled
  <2>4. CASE DelayCommand(p)  BY <1>1, <2>4 DEF DelayCommand
  <2>5. CASE DelayFires(p)  BY <1>1, <2>1, <2>5, GotoOwned DEF DelayFires
  <2>6. CASE ExecuteCommand(p)  BY <1>1, <2>6, GotoOwned DEF ExecuteCommand
  <2>7. CASE Executed(p)  BY <1>1, <2>1, <2>7, GotoOwned DEF Executed
  <2>8. CASE Finish(p)
    <3> DEFINE L == {l \in live : <<l.key, l.by>> \in deferred[p] /\ ~disposed}
               M == IF L = {} THEN {} ELSE Fresh
               H == {l.own : l \in L}
    <3>1. Goto(p, "done", M, H)  BY <2>8 DEF Finish
    <3>2. H \in SUBSET Handler  BY <1>2
    <3> HIDE DEF M, H
    <3>3. via' \in [Message -> SUBSET Handler]  BY <1>1, <3>1, <3>2, GotoOwned
    <3> QED  BY <1>1, <2>1, <2>8, <3>3 DEF Finish
  <2>9. CASE ReleaseLift(p)  BY <1>1, <2>9 DEF ReleaseLift
  <2> QED  BY <1>5, <2>2, <2>3, <2>4, <2>5, <2>6, <2>7, <2>8, <2>9 DEF Commands
<1>6. ASSUME NEW p \in Proc, Errors(p) PROVE Owned'
  BY <1>1, <1>6, GotoOwned, Handlers DEF Errors, FailStep, RenderThrows, StartThrows, ExecuteThrows
<1>7. ASSUME NEW p \in Proc, EndStep(p) PROVE Owned'
  BY <1>1, <1>7, GotoOwned, Handlers DEF EndStep
<1>8. ASSUME NEW p \in Proc, Apply(p) \/ ApplyNothing(p) PROVE Owned'
  BY <1>1, <1>8, GotoOwned DEF Apply, ApplyNothing
<1>9. ASSUME NEW p \in Proc, Reject(p) PROVE Owned'
  BY <1>1, <1>9, GotoOwned DEF Reject
<1>10. ASSUME NEW m \in Message, BeginStep(m) PROVE Owned'
  BY <1>1, <1>10, GotoOwned DEF BeginStep
<1>11. CASE RunRelease \/ DisposeApp  BY <1>1, <1>11 DEF RunRelease, DisposeApp
<1>12. CASE DisposeNext  BY <1>1, <1>12 DEF DisposeNext
<1>13. CASE Render  BY <1>1, <1>13, GotoOwned, Handlers, Procs DEF Render
<1>14. CASE UserEvent
  <2>1. PICK h \in {{View(p)} : p \in shown} \cup {{}} : Goto(Mount, pc[Mount], Fresh, h)
    BY <1>14 DEF UserEvent
  <2>2. h \in SUBSET Handler  BY <1>3, Handlers
  <2> QED  BY <1>1, <1>14, <2>1, <2>2, GotoOwned DEF UserEvent
<1>15. ASSUME NEW l \in live, Emit(l) PROVE Owned'
  BY <1>1, <1>2, <1>15, GotoOwned DEF Emit
<1>16. CASE UNCHANGED vars  BY <1>1, <1>16 DEF vars
<1> QED
  BY <1>4, <1>5, <1>6, <1>7, <1>8, <1>9, <1>10, <1>11, <1>12, <1>13, <1>14, <1>15, <1>16
  DEF Next, Machine

-----------------------------------------------------------------------------
(* The subscriptions: wanted, on record and listening.                     *)

LEMMA ListedKept == ASSUME Typed, [Next]_vars PROVE Listed'
<1> USE DEF program, display, step, subs, commands, hooks, ending, history, Listed
<1>1. Listed  BY DEF Typed
<1>2. \A p \in Proc : todo[p] # <<>> => /\ Head(todo[p]) \in Wanted
                                         /\ Tail(todo[p]) \in Seq(Wanted)
  BY <1>1, HeadAndTail
<1>3. <<>> \in Seq(Wanted)  OBVIOUS
<1>4. ASSUME NEW p \in Proc, Sync(p) PROVE Listed'
  <2>1. ASSUME NEW r \in active, NEW s, Dispose(p, r, s) PROVE Listed'
    BY <1>1, <2>1 DEF Dispose
  <2>2. CASE RemoveGone(p) \/ Replace(p)  BY <2>1, <2>2 DEF RemoveGone, Replace
  <2>3. CASE RemovedAll(p) \/ Dropped(p)  BY <1>1, <2>3 DEF RemovedAll, Dropped
  <2>4. CASE Keep(p)
    <3>1. PICK r \in active :
            /\ active' = (active \ {r}) \cup {[r EXCEPT !.own = Mapper(p)]}
            /\ live' = {IF <<l.key, l.by>> = <<r.key, r.by>> THEN [l EXCEPT !.own = Mapper(p)]
                                                            ELSE l : l \in live}
      BY <2>4 DEF Keep
    <3>2. /\ [r EXCEPT !.own = Mapper(p)] \in Record
          /\ [r EXCEPT !.own = Mapper(p)].key = r.key
      BY <1>1, Handlers DEF Record
    <3>3. active' \in SUBSET Record /\ \A q, s \in active' : q.key = s.key => q = s
      BY <1>1, <3>1, <3>2
    <3>4. \A l \in live : [l EXCEPT !.own = Mapper(p)] \in Listener
      BY <1>1, Handlers DEF Listener
    <3>5. live' \in SUBSET Listener  BY <1>1, <3>1, <3>4
    <3>6. todo[p] # <<>>  BY <2>4 DEF Keep
    <3>7. want' = want /\ deferred' = deferred /\ todo' \in [Proc -> Seq(Wanted)]
      BY <1>1, <1>2, <2>4, <3>6 DEF Keep
    <3> QED  BY <1>1, <3>3, <3>5, <3>7
  <2>5. CASE Start(p)
    <3>1. Head(todo[p]).key \in Key  BY <1>2, <2>5, WantedTyped DEF Start
    <3>2. [key |-> Head(todo[p]).key, by |-> p, own |-> Mapper(p)] \in Listener
      BY <3>1, Handlers DEF Listener
    <3>3. stack # <<>> => Last(stack) \in Proc
      BY DEF Typed, Placed, Last
    <3>4. deferred' \in [Proc -> SUBSET (Key \X Proc)]
      BY <1>1, <2>5, <3>1, <3>3 DEF Start
    <3>5. live' \in SUBSET Listener  BY <1>1, <2>5, <3>2 DEF Start
    <3> QED  BY <1>1, <2>5, <3>4, <3>5 DEF Start
  <2>6. CASE Started(p)
    <3> DEFINE w == Head(todo[p])
               new == [key |-> w.key, sig |-> w.sig, own |-> Mapper(p), by |-> p]
    <3>1. active' = {r \in active : r.key # w.key} \cup {new}  BY <2>6 DEF Started
    <3>2. w \in Wanted /\ Tail(todo[p]) \in Seq(Wanted)
      <4>1. todo[p] # <<>>  BY <2>6 DEF Started, Typed, Begun
      <4> QED  BY <1>2, <4>1
    <3>3. new \in Record  BY <3>2, Handlers, WantedTyped DEF Record
    <3>4. active' \in SUBSET Record /\ \A q, s \in active' : q.key = s.key => q = s
      BY <1>1, <3>1, <3>3
    <3>5. UNCHANGED <<want, live, deferred>> /\ todo' \in [Proc -> Seq(Wanted)]
      BY <1>1, <2>6, <3>2 DEF Started
    <3> QED  BY <1>1, <3>4, <3>5
  <2>7. CASE Synced(p)  BY <1>1, <2>7 DEF Synced
  <2> QED  BY <1>4, <2>2, <2>3, <2>4, <2>5, <2>6, <2>7 DEF Sync
<1>5. ASSUME NEW p \in Proc, Commands(p) PROVE Listed'
  BY <1>1, <1>5 DEF Commands, MessageCommand, MessageHandled, DelayCommand, DelayFires,
                    ExecuteCommand, Executed, Finish, ReleaseLift, Command
<1>6. ASSUME NEW p \in Proc, Errors(p) PROVE Listed'
  BY <1>1, <1>6 DEF Errors, FailStep, RenderThrows, StartThrows, ExecuteThrows
<1>7. ASSUME NEW p \in Proc, EndStep(p) PROVE Listed'
  BY <1>1, <1>7, WantedTyped DEF EndStep
<1>8. ASSUME NEW p \in Proc, Apply(p) PROVE Listed'  BY <1>1, <1>8 DEF Apply
<1>9. ASSUME NEW p \in Proc, ApplyNothing(p) \/ Reject(p) PROVE Listed'
  BY <1>1, <1>3, <1>9 DEF ApplyNothing, Reject, TearDown
<1>10. ASSUME NEW m \in Message, BeginStep(m) PROVE Listed'
  BY <1>1, <1>10 DEF BeginStep
<1>11. CASE RunRelease \/ Render \/ UserEvent
  BY <1>1, <1>11 DEF RunRelease, Render, UserEvent
<1>12. CASE DisposeNext \/ DisposeApp
  BY <1>1, <1>12 DEF DisposeNext, DisposeApp, TearDown
<1>13. ASSUME NEW l \in live, Emit(l) PROVE Listed'
  BY <1>1, <1>13 DEF Emit
<1>14. CASE UNCHANGED vars  BY <1>1, <1>14 DEF vars
<1> QED
  BY <1>4, <1>5, <1>6, <1>7, <1>8, <1>9, <1>10, <1>11, <1>12, <1>13, <1>14 DEF Next, Machine

LEMMA GotoStarting ==
    ASSUME NEW p \in Proc, NEW s, NEW M, NEW h, Goto(p, s, M, h)
    PROVE  \A q \in Proc : pc'[q] = "starting" => IF q = p THEN s = "starting" ELSE pc[q] = "starting"
BY DEF Goto

LEMMA BegunKept == ASSUME Typed, [Next]_vars PROVE Begun'
<1> USE DEF program, display, step, subs, commands, hooks, ending, history
<1>1. Begun /\ todo \in [Proc -> Seq(Wanted)]  BY DEF Typed, Listed
\* A step that is not starting leaves the lists of the others.
<1>2. ASSUME NEW p \in Proc, NEW s, NEW M, NEW h, Goto(p, s, M, h), s # "starting",
             \A q \in Proc \ {p} : todo'[q] = todo[q]
      PROVE  Begun'
  BY <1>1, <1>2, GotoStarting DEF Begun
<1>3. ASSUME NEW p \in Proc, NEW M, NEW h, Goto(p, pc[p], M, h), todo' = todo PROVE Begun'
  BY <1>1, <1>3, GotoStarting DEF Begun
<1>4. ASSUME pc' = pc, todo' = todo PROVE Begun'  BY <1>1, <1>4 DEF Begun
<1>5. ASSUME NEW p \in Proc, Sync(p) PROVE Begun'
  <2>1. CASE RemoveGone(p) \/ Replace(p)
    BY <1>2, <2>1 DEF RemoveGone, Replace, Dispose
  <2>2. CASE RemovedAll(p) \/ Dropped(p) \/ Synced(p)
    BY <1>2, <2>2 DEF RemovedAll, Dropped, Synced
  <2>3. CASE Keep(p)  BY <1>1, <2>3 DEF Keep, Begun
  <2>4. CASE Start(p)
    <3>1. todo[p] # <<>> /\ todo' = todo  BY <2>4 DEF Start
    <3>2. PICK M, h : Goto(p, "starting", M, h)  BY <2>4 DEF Start
    <3> QED  BY <1>1, <3>1, <3>2, GotoStarting DEF Begun
  <2>5. CASE Started(p)  BY <1>1, <1>2, <2>5 DEF Started
  <2> QED  BY <1>5, <2>1, <2>2, <2>3, <2>4, <2>5 DEF Sync
<1>6. ASSUME NEW p \in Proc, Commands(p) PROVE Begun'
  <2>1. CASE MessageCommand(p)  BY <1>2, <2>1 DEF MessageCommand
  <2>2. CASE MessageHandled(p)  BY <1>2, <2>2 DEF MessageHandled
  <2>3. CASE DelayCommand(p) \/ ReleaseLift(p)  BY <1>4, <2>3 DEF DelayCommand, ReleaseLift
  <2>4. CASE DelayFires(p)  BY <1>3, <2>4 DEF DelayFires
  <2>5. CASE ExecuteCommand(p)  BY <1>2, <2>5 DEF ExecuteCommand
  <2>6. CASE Executed(p)  BY <1>2, <2>6 DEF Executed
  <2>7. CASE Finish(p)
    <3>1. PICK M, h : Goto(p, "done", M, h)  BY <2>7 DEF Finish
    <3> QED  BY <1>2, <2>7, <3>1 DEF Finish
  <2> QED  BY <1>6, <2>1, <2>2, <2>3, <2>4, <2>5, <2>6, <2>7 DEF Commands
<1>7. ASSUME NEW p \in Proc, Errors(p) PROVE Begun'
  BY <1>2, <1>7 DEF Errors, FailStep, RenderThrows, StartThrows, ExecuteThrows
<1>8. ASSUME NEW p \in Proc, EndStep(p) \/ ApplyNothing(p) \/ Reject(p) PROVE Begun'
  BY <1>1, <1>2, <1>8 DEF EndStep, ApplyNothing, Reject
<1>9. ASSUME NEW p \in Proc, Apply(p) PROVE Begun'  BY <1>2, <1>9 DEF Apply
<1>10. ASSUME NEW m \in Message, BeginStep(m) PROVE Begun'
  BY <1>2, <1>10, Procs DEF BeginStep
<1>11. CASE RunRelease \/ DisposeNext \/ DisposeApp \/ UNCHANGED vars
  BY <1>4, <1>11 DEF RunRelease, DisposeNext, DisposeApp, vars
<1>12. CASE Render  BY <1>2, <1>12, Procs DEF Render
<1>13. CASE UserEvent  BY <1>3, <1>13, Procs DEF UserEvent
<1>14. ASSUME NEW l \in live, Emit(l) PROVE Begun'  BY <1>3, <1>14, Procs DEF Emit
<1> QED
  BY <1>5, <1>6, <1>7, <1>8, <1>9, <1>10, <1>11, <1>12, <1>13, <1>14 DEF Next, Machine

THEOREM AlwaysTyped == Spec => []Typed
<1>1. Init => Typed  BY InitTyped
<1>2. Typed /\ [Next]_vars => Typed'
  BY PlacedKept, OwnedKept, ListedKept, BegunKept DEF Typed
<1> QED  BY <1>1, <1>2, PTL DEF Spec

-----------------------------------------------------------------------------
(* The program, the frames and the chain, and what depends on them.         *)
States == {"new", "queued"} \cup Running \cup Settled
Item   == [step : SUBSET Message, release : SUBSET Handler]

Shape ==
    /\ pc \in [Proc -> States]
    /\ chain \in Seq(Item)
    /\ base \in [Proc -> SUBSET Message]
    /\ frame \in [Proc -> SUBSET Message]
    /\ model \subseteq Message

\* The message whose step is under way is at the head of the chain: one at a time.
AtHead == \A m \in Message : pc[m] \in Running => chain # <<>> /\ Head(chain).step = {m}

\* What it has read, and the frame it has computed, are of the present model.
UpToDate == \A m \in Message : /\ pc[m] = "stepping" => base[m] = model
                               /\ pc[m] = "stepped" => frame[m] = model

\* Until the first step is applied there is nothing else.
Young == pc[Mount] \in {"stepping", "stepped"}
Blank ==
    Young => /\ \A p \in Proc \ {Mount} : pc[p] = "new"
             /\ model = {} /\ base[Mount] = {} /\ frame[Mount] = {}
             /\ page = {} /\ shown = {} /\ live = {} /\ timers = {}

\* Nothing that is shown, or about to be, is ahead of the model.
Behind == /\ page \subseteq model
          /\ pc[Repaint] = "stepped" => frame[Repaint] \subseteq model

InOrder == Shape /\ AtHead /\ UpToDate /\ Blank /\ Behind

LEMMA InitInOrder == Init => InOrder
<1> SUFFICES ASSUME Init PROVE InOrder  OBVIOUS
<1>1. Shape  BY Procs DEF Init, Shape, States, Running, Settled
<1>2. AtHead /\ UpToDate /\ Blank /\ Behind
  BY Procs DEF Init, AtHead, UpToDate, Blank, Behind, Young, Running
<1> QED  BY <1>1, <1>2 DEF InOrder

-----------------------------------------------------------------------------
(* The chain.                                                              *)

LEMMA Pieces ==
    /\ \A M \in SUBSET Message : Steps(M) \in Seq(Item)
    /\ \A H \in SUBSET Handler : Releases(H) \in Seq(Item)
    /\ Fresh \subseteq Message
<1>1. ASSUME NEW M \in SUBSET Message PROVE Steps(M) \in Seq(Item)
  <2>1. [step |-> M, release |-> {}] \in Item  BY DEF Item
  <2>2. <<>> \in Seq(Item) /\ <<[step |-> M, release |-> {}]>> \in Seq(Item)  BY <2>1
  <2> QED  BY <2>2 DEF Steps
<1>2. ASSUME NEW H \in SUBSET Handler PROVE Releases(H) \in Seq(Item)
  <2>1. [step |-> {}, release |-> H] \in Item  BY DEF Item
  <2>2. <<>> \in Seq(Item) /\ <<[step |-> {}, release |-> H]>> \in Seq(Item)  BY <2>1
  <2> QED  BY <2>2 DEF Releases
<1> QED  BY <1>1, <1>2 DEF Fresh

\* What is put behind the others leaves the head where it is.
LEMMA HeadStays ==
    ASSUME NEW s \in Seq(Item), NEW t \in Seq(Item)
    PROVE  /\ s \o t \in Seq(Item)
           /\ s # <<>> => s \o t # <<>> /\ Head(s \o t) = Head(s)
<1>1. s \o t \in Seq(Item)  OBVIOUS
<1>2. ASSUME s # <<>> PROVE s \o t # <<>> /\ Head(s \o t) = Head(s)
  <2>1. Len(s) \in Nat /\ Len(s) > 0  BY <1>2, EmptySeq
  <2>2. Len(s \o t) = Len(s) + Len(t) /\ Len(t) \in Nat  BY ConcatProperties
  <2>3. (s \o t)[1] = s[1]  BY <2>1, ConcatProperties
  <2> QED  BY <1>1, <2>1, <2>2, <2>3
<1> QED  BY <1>1, <1>2

LEMMA WithoutTyped == ASSUME Shape, NEW p PROVE Without(p) \in Seq(Item)
BY DEF Without, Shape

-----------------------------------------------------------------------------
(* Steps that leave the program's variables alone.                         *)

\* p is put into state s, the messages of M are queued.
LEMMA GotoShape ==
    ASSUME Shape, NEW p \in Proc, NEW s \in States, NEW M \in SUBSET Message, NEW h,
           Goto(p, s, M, h)
    PROVE  /\ pc' \in [Proc -> States]
           /\ \A q \in Proc : pc'[q] = IF q \in M THEN "queued" ELSE IF q = p THEN s ELSE pc[q]
<1>1. pc' = [q \in Proc |-> IF q \in M THEN "queued" ELSE IF q = p THEN s ELSE pc[q]]
  BY DEF Goto
<1>2. \A q \in Proc : pc[q] \in States  BY DEF Shape
<1>3. "queued" \in States  BY DEF States
<1> QED  BY <1>1, <1>2, <1>3

LEMMA GotoAlone ==
    ASSUME Shape, NEW p \in Proc, NEW s \in States, Goto(p, s, {}, {})
    PROVE  /\ pc' \in [Proc -> States]
           /\ \A q \in Proc : pc'[q] = IF q = p THEN s ELSE pc[q]
<1>1. pc' = [q \in Proc |-> IF q = p THEN s ELSE pc[q]]  BY DEF Goto
<1>2. \A q \in Proc : pc[q] \in States  BY DEF Shape
<1> QED  BY <1>1, <1>2

\* Nobody begins a step or comes to the end of one.
LEMMA NobodyBegins ==
    ASSUME InOrder, pc' \in [Proc -> States], chain' \in Seq(Item), model' = model,
           base' \in [Proc -> SUBSET Message], frame' \in [Proc -> SUBSET Message],
           \A q \in Proc : pc'[q] \in {"stepping", "stepped"} =>
               pc'[q] = pc[q] /\ base'[q] = base[q] /\ frame'[q] = frame[q],
           \A m \in Message : pc'[m] \in Running =>
               pc[m] \in Running /\ chain' # <<>> /\ Head(chain') = Head(chain),
           page' \subseteq model,
           Young' => /\ \A q \in Proc \ {Mount} : pc'[q] = pc[q]
                     /\ page' \subseteq page /\ shown' \subseteq shown
                     /\ live' \subseteq live /\ timers' \subseteq timers
    PROVE  InOrder'
<1>1. Shape'  BY DEF InOrder, Shape
<1>2. AtHead'  BY DEF InOrder, AtHead
<1>3. UpToDate'  BY Procs DEF InOrder, UpToDate
<1>4. Blank'
  <2>1. SUFFICES ASSUME Young' PROVE Blank'  BY DEF Blank
  <2>2. Young /\ base'[Mount] = base[Mount] /\ frame'[Mount] = frame[Mount]
    BY <2>1, Procs DEF Young
  <2> QED  BY <2>1, <2>2 DEF InOrder, Blank
<1>5. Behind'  BY Procs DEF InOrder, Behind
<1> QED  BY <1>1, <1>2, <1>3, <1>4, <1>5 DEF InOrder

\* A process that has been to the page goes on, or fails.
LEMMA GoesOn ==
    ASSUME InOrder, NEW p \in Proc, NEW s \in States \ {"stepping", "stepped"},
           NEW M \in SUBSET Message, NEW h, Goto(p, s, M, h),
           pc[p] \in Running \/ s \notin Running, pc[p] # "new",
           NEW X \in Seq(Item), chain' = chain \o X,
           model' = model,
           base' \in [Proc -> SUBSET Message], frame' \in [Proc -> SUBSET Message],
           \A q \in Proc \ {p} : base'[q] = base[q] /\ frame'[q] = frame[q],
           page' \subseteq model
    PROVE  InOrder'
<1>1. Shape  BY DEF InOrder
<1>2. /\ pc' \in [Proc -> States]
      /\ \A q \in Proc : pc'[q] = IF q \in M THEN "queued" ELSE IF q = p THEN s ELSE pc[q]
  BY <1>1, GotoShape
<1>3. chain \in Seq(Item)  BY <1>1 DEF Shape
<1>4. chain' \in Seq(Item) /\ (chain # <<>> => chain' # <<>> /\ Head(chain') = Head(chain))
  BY <1>3, HeadStays
<1>5. \A q \in Proc : pc'[q] \in {"stepping", "stepped"} =>
        pc'[q] = pc[q] /\ base'[q] = base[q] /\ frame'[q] = frame[q]
  BY <1>2
<1>6. "queued" \notin Running  BY DEF Running
<1>7. ASSUME NEW m \in Message, pc'[m] \in Running
      PROVE  pc[m] \in Running /\ chain' # <<>> /\ Head(chain') = Head(chain)
  <2>1. pc[m] \in Running  BY <1>2, <1>6, <1>7, Procs
  <2>2. chain # <<>>  BY <2>1 DEF InOrder, AtHead
  <2> QED  BY <2>1, <2>2, <1>4
<1>8. ~ Young'
  <2>1. SUFFICES ASSUME Young' PROVE FALSE  OBVIOUS
  <2>2. p # Mount /\ Young  BY <1>2, <2>1, Procs DEF Young
  <2> QED  BY <2>2 DEF InOrder, Blank
<1> QED  BY <1>2, <1>4, <1>5, <1>7, <1>8, NobodyBegins

\* Messages are sent while everybody else stays where they are.
LEMMA Sends ==
    ASSUME InOrder, ~ Young, NEW p \in Proc, NEW M \in SUBSET Message, NEW h,
           Goto(p, pc[p], M, h), NEW X \in Seq(Item), chain' = chain \o X,
           UNCHANGED program, page' = page
    PROVE  InOrder'
<1>1. Shape /\ pc[p] \in States  BY DEF InOrder, Shape
<1>2. /\ pc' \in [Proc -> States]
      /\ \A q \in Proc : pc'[q] = IF q \in M THEN "queued" ELSE pc[q]
  <2>1. pc' = [q \in Proc |-> IF q \in M THEN "queued" ELSE IF q = p THEN pc[p] ELSE pc[q]]
    BY DEF Goto
  <2>2. "queued" \in States /\ \A q \in Proc : pc[q] \in States
    BY <1>1 DEF Shape, States
  <2> QED  BY <2>1, <2>2
<1>3. chain \in Seq(Item)  BY <1>1 DEF Shape
<1>4. chain' \in Seq(Item) /\ (chain # <<>> => chain' # <<>> /\ Head(chain') = Head(chain))
  BY <1>3, HeadStays
<1>5. /\ model' = model
      /\ base' \in [Proc -> SUBSET Message] /\ frame' \in [Proc -> SUBSET Message]
      /\ \A q \in Proc : pc'[q] \in {"stepping", "stepped"} =>
           pc'[q] = pc[q] /\ base'[q] = base[q] /\ frame'[q] = frame[q]
      /\ page' \subseteq model
  BY <1>1, <1>2 DEF program, Shape, InOrder, Behind
<1>6. "queued" \notin Running  BY DEF Running
<1>7. ASSUME NEW m \in Message, pc'[m] \in Running
      PROVE  pc[m] \in Running /\ chain' # <<>> /\ Head(chain') = Head(chain)
  <2>1. pc[m] \in Running  BY <1>2, <1>6, <1>7, Procs
  <2>2. chain # <<>>  BY <2>1 DEF InOrder, AtHead
  <2> QED  BY <2>1, <2>2, <1>4
<1>8. ~ Young'  BY <1>2, Procs DEF Young
<1> QED  BY <1>2, <1>4, <1>5, <1>7, <1>8, NobodyBegins

\* Nobody moves.
LEMMA NobodyMoves ==
    ASSUME InOrder, pc' = pc, NEW X \in Seq(Item), chain' = chain \o X,
           UNCHANGED program, page' \subseteq page,
           Young => shown' \subseteq shown /\ live' \subseteq live /\ timers' \subseteq timers
    PROVE  InOrder'
<1>1. pc \in [Proc -> States] /\ chain \in Seq(Item)  BY DEF InOrder, Shape
<1>2. chain' \in Seq(Item) /\ (chain # <<>> => chain' # <<>> /\ Head(chain') = Head(chain))
  BY <1>1, HeadStays
<1>3. \A m \in Message : pc'[m] \in Running =>
        pc[m] \in Running /\ chain' # <<>> /\ Head(chain') = Head(chain)
  BY <1>2 DEF InOrder, AtHead
<1>4. Young' => Young  BY DEF Young
<1>5. /\ model' = model /\ base' = base /\ frame' = frame
      /\ base \in [Proc -> SUBSET Message] /\ frame \in [Proc -> SUBSET Message]
      /\ page' \subseteq model
  BY DEF program, Shape, InOrder, Behind
<1> QED  BY <1>1, <1>2, <1>3, <1>4, <1>5, NobodyBegins

\* A step leaves the chain.
LEMMA Leaves ==
    ASSUME InOrder, NEW p \in Proc, NEW M \in SUBSET Message, NEW h, NEW s \in Settled,
           Goto(p, s, M, h),
           pc[p] # "new", p \in Message => chain # <<>> /\ Head(chain).step = {p},
           NEW X \in Seq(Item), chain' = Without(p) \o X,
           model' = model, base' = base, frame' \in [Proc -> SUBSET Message],
           \A q \in Proc \ {p} : frame'[q] = frame[q],
           page' \subseteq page
    PROVE  InOrder'
<1>1. Shape  BY DEF InOrder
<1>2. s \in States /\ s \notin Running /\ s \notin {"stepping", "stepped", "new"}
      /\ "queued" \notin Running /\ "stepping" \in Running /\ "stepped" \in Running
  BY DEF States, Settled, Running
<1>3. /\ pc' \in [Proc -> States]
      /\ \A q \in Proc : pc'[q] = IF q \in M THEN "queued" ELSE IF q = p THEN s ELSE pc[q]
  BY <1>1, <1>2, GotoShape
<1>4. chain \in Seq(Item) /\ Without(p) \in Seq(Item)
  BY <1>1, WithoutTyped DEF Shape
<1>5. chain' \in Seq(Item)
      /\ (Without(p) # <<>> => chain' # <<>> /\ Head(chain') = Head(Without(p)))
  BY <1>4, HeadStays
<1>6. ASSUME NEW m \in Message, pc'[m] \in Running
      PROVE  /\ m # p /\ pc[m] = pc'[m]
             /\ chain' # <<>> /\ Head(chain').step = {m}
  <2>1. m # p /\ pc'[m] = pc[m]  BY <1>2, <1>3, <1>6, Procs
  <2>2. chain # <<>> /\ Head(chain).step = {m}  BY <2>1, <1>6 DEF InOrder, AtHead
  <2>3. p \notin Message /\ Without(p) = chain  BY <2>1, <2>2 DEF Without
  <2> QED  BY <2>1, <2>2, <2>3, <1>5
<1>7. Shape'  BY <1>1, <1>3, <1>5 DEF Shape
<1>8. AtHead'  BY <1>6 DEF AtHead
<1>9. UpToDate'
  <2>1. SUFFICES ASSUME NEW m \in Message
                 PROVE  /\ pc'[m] = "stepping" => base'[m] = model'
                        /\ pc'[m] = "stepped" => frame'[m] = model'
    BY DEF UpToDate
  <2> QED  BY <1>2, <1>6, Procs DEF InOrder, UpToDate
<1>10. Blank'
  <2>1. SUFFICES ASSUME Young' PROVE FALSE  BY DEF Blank
  <2>2. p # Mount /\ Young  BY <1>2, <1>3, <2>1, Procs DEF Young
  <2> QED  BY <2>2 DEF InOrder, Blank
<1>11. Behind'  BY <1>2, <1>3, Procs DEF InOrder, Behind
<1> QED  BY <1>7, <1>8, <1>9, <1>10, <1>11 DEF InOrder

-----------------------------------------------------------------------------
(* The actions.                                                            *)

LEMMA NothingAdded ==
    ASSUME NEW s \in Seq(Item)
    PROVE  <<>> \in Seq(Item) /\ s \o <<>> = s
OBVIOUS

LEMMA HeadOf ==
    ASSUME InOrder, NEW p \in Message, pc[p] \in Running
    PROVE  chain # <<>> /\ Head(chain).step = {p}
BY DEF InOrder, AtHead

LEMMA RunReleaseKeeps == ASSUME InOrder, RunRelease PROVE InOrder'
<1>1. chain \in Seq(Item) /\ chain # <<>> /\ Head(chain).step = {} /\ chain' = Tail(chain)
  BY DEF RunRelease, InOrder, Shape
<1>2. chain' \in Seq(Item)  BY <1>1
<1>3. \A m \in Message : pc[m] \notin Running
  <2>1. SUFFICES ASSUME NEW m \in Message, pc[m] \in Running PROVE FALSE  OBVIOUS
  <2> QED  BY <1>1, <2>1, HeadOf
<1>4. pc' = pc /\ model' = model /\ base' = base /\ frame' = frame
      /\ page' = page /\ shown' = shown /\ live' = live /\ timers' = timers
  BY DEF RunRelease, program, display, subs, commands
<1>5. page \subseteq model /\ pc \in [Proc -> States]
      /\ base \in [Proc -> SUBSET Message] /\ frame \in [Proc -> SUBSET Message]
  BY DEF InOrder, Behind, Shape
<1> QED  BY <1>2, <1>3, <1>4, <1>5, NobodyBegins

LEMMA BeginStepKeeps == ASSUME InOrder, NEW m \in Message, BeginStep(m) PROVE InOrder'
<1>1. /\ pc[m] = "queued" /\ chain # <<>> /\ Head(chain).step = {m}
      /\ model' = model /\ frame' = frame /\ page' = page
      /\ shown' = shown /\ live' = live /\ timers' = timers
  BY DEF BeginStep, Ready, MayBegin, display, subs, commands
<1>2. /\ Shape /\ m \in Proc /\ chain \in Seq(Item)
      /\ base \in [Proc -> SUBSET Message] /\ frame \in [Proc -> SUBSET Message]
      /\ page \subseteq model /\ model \in SUBSET Message
  BY Procs DEF InOrder, Shape, Behind
<1>3. ~ Young  BY <1>1, Procs DEF InOrder, Blank
<1>4. \A q \in Message \ {m} : pc[q] \notin Running
  BY <1>1 DEF InOrder, AtHead
<1>5. CASE Goto(m, "done", {}, {}) /\ chain' = Without(m) /\ UNCHANGED <<base, early>>
  <2>1. Without(m) \in Seq(Item)  BY <1>2, WithoutTyped
  <2>2. chain' = Without(m) \o <<>> /\ <<>> \in Seq(Item)  BY <1>5, <2>1, NothingAdded
  <2>3. "done" \in Settled /\ {} \in SUBSET Message  BY DEF Settled
  <2>4. base' = base  BY <1>5
  <2> QED  BY <1>1, <1>2, <1>5, <2>2, <2>3, <2>4, Leaves
<1>6. ASSUME NEW s \in {"failing", "stepping"}, Goto(m, s, {}, {}), UNCHANGED chain,
             base' \in [Proc -> SUBSET Message], s = "stepping" => base'[m] = model,
             \A q \in Proc \ {m} : base'[q] = base[q]
      PROVE  InOrder'
  <2>1. s \in States /\ {} \in SUBSET Message  BY DEF States, Running
  <2>2. pc' \in [Proc -> States] /\ \A q \in Proc : pc'[q] = IF q = m THEN s ELSE pc[q]
    BY <1>2, <1>6, <2>1, GotoAlone
  <2>3. Shape'  BY <1>1, <1>2, <1>6, <2>2 DEF Shape
  <2>4. AtHead'  BY <1>1, <1>4, <1>6, <2>2, Procs DEF AtHead
  <2>5. UpToDate'
    <3>1. SUFFICES ASSUME NEW q \in Message
                   PROVE  /\ pc'[q] = "stepping" => base'[q] = model'
                          /\ pc'[q] = "stepped" => frame'[q] = model'
      BY DEF UpToDate
    <3>2. CASE q = m  BY <1>1, <1>6, <2>2, <3>2, Procs
    <3>3. CASE q # m
      <4>1. pc'[q] = pc[q] /\ pc[q] \notin Running  BY <1>4, <2>2, <3>3, Procs
      <4> QED  BY <4>1 DEF Running
    <3> QED  BY <3>2, <3>3
  <2>6. Blank'
    <3>1. ~ Young'  BY <1>3, <2>2, Procs DEF Young
    <3> QED  BY <3>1 DEF Blank
  <2>7. Behind'  BY <1>1, <2>2, Procs DEF InOrder, Behind
  <2> QED  BY <2>3, <2>4, <2>5, <2>6, <2>7 DEF InOrder
<1>7. CASE Goto(m, "failing", {}, {}) /\ UNCHANGED <<chain, base, early>>
  BY <1>2, <1>6, <1>7
<1>8. CASE Goto(m, "stepping", {}, {}) /\ base' = [base EXCEPT ![m] = model] /\ UNCHANGED chain
  <2>1. base' \in [Proc -> SUBSET Message] /\ base'[m] = model
        /\ \A q \in Proc \ {m} : base'[q] = base[q]
    BY <1>2, <1>8
  <2> QED  BY <1>6, <1>8, <2>1
<1> QED  BY <1>5, <1>7, <1>8 DEF BeginStep

\* One step at a time: no other step is under way when that of p ends, or is applied.
LEMMA EndStepKeeps == ASSUME InOrder, NEW p \in Proc, EndStep(p) PROVE InOrder' /\ model \subseteq model'
<1>1. /\ p # Repaint /\ pc[p] = "stepping" /\ chain' = chain
      /\ model' = base[p] \cup ({p} \cap Message)
      /\ frame' = [frame EXCEPT ![p] = model'] /\ base' = [base EXCEPT ![p] = {}]
      /\ page' = page /\ shown' = shown /\ live' = live /\ timers' = timers
  BY DEF EndStep, display, subs, commands
<1>2. Shape /\ "stepping" \in Running /\ "stepped" \in Running /\ "stepped" \in States
  BY DEF InOrder, States, Running
<1>3. /\ pc' \in [Proc -> States]
      /\ \A q \in Proc : pc'[q] = IF q = p THEN "stepped" ELSE pc[q]
  <2>1. Goto(p, "stepped", {}, {})  BY DEF EndStep
  <2> QED  BY <1>2, <2>1, GotoAlone
<1>4. base[p] = model
  <2>1. CASE p \in Message  BY <1>1, <2>1 DEF InOrder, UpToDate
  <2>2. CASE p = Mount  BY <1>1, <2>2 DEF InOrder, Blank, Young
  <2> QED  BY <1>1, <2>1, <2>2, Procs
<1>5. model \subseteq model' /\ model' \in SUBSET Message
  BY <1>1, <1>2, <1>4 DEF Shape
<1>6. \A q \in Message \ {p} : pc[q] \notin {"stepping", "stepped"}
  <2>1. CASE p \in Message  BY <1>1, <1>2, <2>1 DEF InOrder, AtHead
  <2>2. CASE p = Mount  BY <1>1, <2>2, Procs DEF InOrder, Blank, Young
  <2> QED  BY <1>1, <2>1, <2>2, Procs
<1>7. Shape'  BY <1>1, <1>2, <1>3, <1>5 DEF Shape
<1>8. AtHead'  BY <1>1, <1>2, <1>3, Procs DEF InOrder, AtHead
<1>9. UpToDate'  BY <1>1, <1>2, <1>3, <1>5, <1>6, Procs DEF Shape, UpToDate
<1>10. Blank'
  <2>1. SUFFICES ASSUME Young' PROVE Blank'  BY DEF Blank
  <2>2. Young  BY <1>1, <1>3, <2>1, Procs DEF Young
  <2>3. p = Mount  BY <1>1, <2>2 DEF InOrder, Blank
  <2>4. model' = {} /\ base'[Mount] = {} /\ frame'[Mount] = {}
    BY <1>1, <1>2, <1>4, <2>2, <2>3, Procs DEF InOrder, Blank, Shape
  <2>5. \A q \in Proc \ {Mount} : pc'[q] = "new"  BY <1>3, <2>2, <2>3 DEF InOrder, Blank
  <2> QED  BY <1>1, <2>2, <2>4, <2>5 DEF InOrder, Blank
<1>11. Behind'
  BY <1>1, <1>2, <1>3, <1>5, Procs DEF InOrder, Behind, Shape
<1> QED  BY <1>5, <1>7, <1>8, <1>9, <1>10, <1>11 DEF InOrder

LEMMA RenderKeeps == ASSUME InOrder, Render PROVE InOrder'
<1>1. /\ pc[Mount] = "done" /\ chain' = chain /\ base' = base /\ model' = model
      /\ frame' = [frame EXCEPT ![Repaint] = model] /\ page' = page
  BY DEF Render, display
<1>2. Shape /\ "stepped" \in States  BY DEF InOrder, States, Running
<1>3. /\ pc' \in [Proc -> States]
      /\ \A q \in Proc : pc'[q] = IF q = Repaint THEN "stepped" ELSE pc[q]
  <2>1. Goto(Repaint, "stepped", {}, {}) /\ Repaint \in Proc  BY Procs DEF Render
  <2> QED  BY <1>2, <2>1, GotoAlone
<1>4. Shape'  BY <1>1, <1>2, <1>3 DEF Shape
<1>5. AtHead'  BY <1>1, <1>3, Procs DEF InOrder, AtHead
<1>6. UpToDate'  BY <1>1, <1>2, <1>3, Procs DEF InOrder, UpToDate, Shape
<1>7. Blank'  BY <1>1, <1>3, Procs DEF Blank, Young
<1>8. Behind'  BY <1>1, <1>2, <1>3, Procs DEF InOrder, Behind, Shape
<1> QED  BY <1>4, <1>5, <1>6, <1>7, <1>8 DEF InOrder

LEMMA ViewsTyped == \A Q \in SUBSET Proc : Releases({View(q) : q \in Q}) \in Seq(Item)
<1>1. \A Q \in SUBSET Proc : {View(q) : q \in Q} \in SUBSET Handler  BY DEF View, Handler
<1> QED  BY <1>1, Pieces

LEMMA AppliedInOrder ==
    ASSUME InOrder, Typed, NEW p \in Proc, Apply(p), frame[p] \subseteq model
    PROVE  InOrder'
<1>1. /\ pc[p] = "stepped" /\ page' = frame[p]
      /\ frame' = [frame EXCEPT ![p] = {}] /\ base' = base /\ model' = model
      /\ chain' = chain \o Releases({View(q) : q \in shown})
  BY DEF Apply
<1>2. Releases({View(q) : q \in shown}) \in Seq(Item)
  BY ViewsTyped DEF Typed, Placed, AtMostOne
<1>3. /\ base' \in [Proc -> SUBSET Message] /\ frame' \in [Proc -> SUBSET Message]
      /\ \A q \in Proc \ {p} : base'[q] = base[q] /\ frame'[q] = frame[q]
  BY <1>1 DEF InOrder, Shape
<1>4. /\ pc[p] \in Running /\ {} \in SUBSET Message
      /\ {"done", "removing"} \subseteq States \ {"stepping", "stepped"}
  BY <1>1 DEF States, Running, Settled
<1>5. CASE p = Repaint
  <2>1. Goto(p, "done", {}, {})  BY <1>5 DEF Apply
  <2> QED  BY <1>1, <1>2, <1>3, <1>4, <2>1, GoesOn
<1>6. CASE p # Repaint
  <2>1. Goto(p, "removing", {}, {})  BY <1>6 DEF Apply
  <2> QED  BY <1>1, <1>2, <1>3, <1>4, <2>1, GoesOn
<1> QED  BY <1>5, <1>6

LEMMA ApplyKeeps ==
    ASSUME InOrder, Typed, NEW p \in Proc, Apply(p)
    PROVE  InOrder' /\ (shown' \subseteq {Repaint} \/ page \subseteq page')
<1>1. /\ pc[p] = "stepped" /\ shown' = {p} /\ page' = frame[p]
      /\ frame' = [frame EXCEPT ![p] = {}] /\ base' = base /\ model' = model
      /\ chain' = chain \o Releases({View(q) : q \in shown})
  BY DEF Apply
<1>2. page \subseteq model /\ Shape /\ frame[p] \in SUBSET Message
  BY DEF InOrder, Behind, Shape
<1>3. CASE p \in Message
  <2>1. frame[p] = model  BY <1>1, <1>3 DEF InOrder, UpToDate
  <2> QED  BY <1>1, <1>2, <2>1, AppliedInOrder
<1>4. CASE p = Mount
  <2>1. frame[p] = {} /\ page = {}  BY <1>1, <1>4 DEF InOrder, Blank, Young
  <2> QED  BY <1>1, <1>2, <2>1, AppliedInOrder
<1>5. CASE p = Repaint
  <2>1. frame[p] \subseteq model  BY <1>1, <1>5 DEF InOrder, Behind
  <2> QED  BY <1>1, <1>5, <2>1, AppliedInOrder
<1> QED  BY <1>3, <1>4, <1>5, Procs

\* The step goes on to s: the two cases of GoesOn that leave the frames alone.
LEMMA MovesOn ==
    ASSUME InOrder, NEW p \in Proc, NEW s \in States \ {"stepping", "stepped"}, NEW M, NEW h,
           Goto(p, s, M, h), M \in SUBSET Message,
           pc[p] \in Running, NEW X \in Seq(Item), chain' = chain \o X,
           UNCHANGED <<program, page>>
    PROVE  InOrder'
<1>1. /\ base' = base /\ frame' = frame /\ model' = model /\ page' = page
      /\ base' \in [Proc -> SUBSET Message] /\ frame' \in [Proc -> SUBSET Message]
      /\ page' \subseteq model
  BY DEF InOrder, Shape, Behind, program
<1>2. pc[p] # "new"  BY DEF Running
<1> QED  BY <1>1, <1>2, GoesOn

LEMMA SyncKeeps == ASSUME InOrder, Typed, NEW p \in Proc, Sync(p) PROVE InOrder'
<1> USE DEF program, display, step, subs, commands, hooks, ending, history
<1>1. chain \in Seq(Item) /\ chain = chain \o <<>> /\ <<>> \in Seq(Item)
  BY NothingAdded DEF InOrder, Shape
<1>2. {"removing", "dropping", "syncing", "replacing", "starting", "commands"}
         \subseteq Running \cap (States \ {"stepping", "stepped"})
  BY DEF States, Running
<1>3. {} \in SUBSET Message  OBVIOUS
<1>4. ASSUME NEW r \in active, NEW s \in {"dropping", "replacing"}, Dispose(p, r, s),
             pc[p] \in {"removing", "syncing"}
      PROVE  InOrder'
  BY <1>1, <1>2, <1>3, <1>4, MovesOn DEF Dispose
<1>5. CASE RemoveGone(p) \/ Replace(p)  BY <1>4, <1>5 DEF RemoveGone, Replace
<1>6. CASE RemovedAll(p)  BY <1>1, <1>2, <1>3, <1>6, MovesOn DEF RemovedAll
<1>7. CASE Dropped(p)
  <2>1. Unused(drop[p], active) \in SUBSET Handler  BY DEF Unused, Typed, Owned
  <2>2. Releases(Unused(drop[p], active)) \in Seq(Item)  BY <2>1, Pieces
  <2>3. PICK s \in {"removing", "syncing"} : Goto(p, s, {}, {})  BY <1>7 DEF Dropped
  <2>4. pc[p] \in {"dropping", "replacing"} /\ UNCHANGED <<program, page>>
        /\ chain' = chain \o Releases(Unused(drop[p], active))
    BY <1>7 DEF Dropped
  <2> QED  BY <1>2, <1>3, <2>2, <2>3, <2>4, MovesOn
<1>8. CASE Keep(p)
  <2>1. PICK r \in active : chain' = chain \o Releases(Unused({r.own}, active'))
    BY <1>8 DEF Keep
  <2>2. Unused({r.own}, active') \in SUBSET Handler  BY DEF Unused, Typed, Listed, Record
  <2>3. Releases(Unused({r.own}, active')) \in Seq(Item)  BY <2>2, Pieces
  <2>4. pc' = pc /\ page' = page /\ shown' = shown /\ UNCHANGED program /\ timers' = timers
        /\ pc[p] = "syncing"
    BY <1>8 DEF Keep
  <2>5. ~ Young  BY <2>4, Procs DEF InOrder, Blank, Young
  <2> QED  BY <2>1, <2>3, <2>4, <2>5, NobodyMoves
<1>9. CASE Start(p)
  <2>1. PICK M \in SUBSET Message :
          Goto(p, "starting", M, {Mapper(p)}) /\ chain' = chain \o Steps(M)
    BY <1>9, Pieces DEF Start
  <2>2. Steps(M) \in Seq(Item)  BY <2>1, Pieces
  <2>3. pc[p] = "syncing" /\ UNCHANGED <<program, page>>  BY <1>9 DEF Start
  <2> QED  BY <1>2, <2>1, <2>2, <2>3, MovesOn
<1>10. CASE Started(p)  BY <1>1, <1>2, <1>3, <1>10, MovesOn DEF Started
<1>11. CASE Synced(p)  BY <1>1, <1>2, <1>3, <1>11, MovesOn DEF Synced
<1> QED  BY <1>5, <1>6, <1>7, <1>8, <1>9, <1>10, <1>11 DEF Sync

LEMMA CommandsKeep == ASSUME InOrder, Typed, NEW p \in Proc, Commands(p) PROVE InOrder'
<1> USE DEF program, display, step, subs, commands, hooks, ending, history
<1>1. chain \in Seq(Item) /\ chain = chain \o <<>> /\ <<>> \in Seq(Item)
  BY NothingAdded DEF InOrder, Shape
<1>2. {"commands", "awaiting", "executing", "failing"}
         \subseteq Running \cap (States \ {"stepping", "stepped"})
  BY DEF States, Running
<1>3. {} \in SUBSET Message /\ Fresh \in SUBSET Message /\ Steps(Fresh) \in Seq(Item)
      /\ \A M \in SUBSET Message : Steps(M) \in Seq(Item)
  BY Pieces
<1>4. pc[p] \in Running => pc[p] # "new"  BY DEF Running
<1>5. CASE MessageCommand(p)
  BY <1>2, <1>3, <1>5, MovesOn DEF MessageCommand, Command
<1>6. CASE MessageHandled(p)
  <2>1. PICK s \in {"failing", "commands"} : Goto(p, s, {}, {})  BY <1>6 DEF MessageHandled
  <2>2. pc[p] = "awaiting" /\ UNCHANGED <<program, page, chain>>  BY <1>6 DEF MessageHandled
  <2> QED  BY <1>1, <1>2, <1>3, <2>1, <2>2, MovesOn
<1>7. CASE DelayCommand(p)
  <2>1. /\ pc[p] = "commands" /\ pc' = pc /\ chain' = chain /\ UNCHANGED program
        /\ page' = page
    BY <1>7 DEF DelayCommand, Command
  <2>2. ~ Young  BY <2>1, Procs DEF InOrder, Blank, Young
  <2> QED  BY <1>1, <2>1, <2>2, NobodyMoves
<1>8. CASE DelayFires(p)
  <2>1. PICK M \in SUBSET Message :
          Goto(p, pc[p], M, {Lift(p)}) /\ chain' = chain \o Steps(M)
    BY <1>3, <1>8 DEF DelayFires
  <2>2. p \in timers /\ UNCHANGED program /\ page' = page  BY <1>8 DEF DelayFires
  <2>3. ~ Young  BY <2>2 DEF InOrder, Blank
  <2> QED  BY <1>3, <2>1, <2>2, <2>3, Sends
<1>9. CASE ExecuteCommand(p)
  BY <1>1, <1>2, <1>3, <1>9, MovesOn DEF ExecuteCommand, Command
<1>10. CASE Executed(p)
  <2>1. PICK M \in SUBSET Message :
          Goto(p, "commands", M, {Lift(p)}) /\ chain' = chain \o Steps(M)
    BY <1>3, <1>10 DEF Executed
  <2>2. pc[p] = "executing" /\ UNCHANGED <<program, page>>  BY <1>10 DEF Executed
  <2> QED  BY <1>2, <1>3, <2>1, <2>2, MovesOn
<1>11. CASE Finish(p)
  <2> DEFINE ready == {l \in live : <<l.key, l.by>> \in deferred[p] /\ ~ disposed}
             M == IF ready = {} THEN {} ELSE Fresh
             H == {l.own : l \in ready}
  <2>1. M \in SUBSET Message /\ Goto(p, "done", M, H) /\ chain' = Without(p) \o Steps(M)
    BY <1>3, <1>11 DEF Finish
  <2> HIDE DEF M, H
  <2>2. pc[p] = "commands" /\ UNCHANGED <<program, page>>  BY <1>11 DEF Finish
  <2>3. p \in Message => chain # <<>> /\ Head(chain).step = {p}
    BY <1>2, <2>2, HeadOf
  <2>4. frame' = frame /\ frame' \in [Proc -> SUBSET Message] /\ base' = base
        /\ model' = model /\ "done" \in Settled
    BY <2>2 DEF InOrder, Shape, Settled
  <2> QED  BY <1>2, <1>3, <1>4, <2>1, <2>2, <2>3, <2>4, Leaves
<1>12. CASE ReleaseLift(p)
  <2>1. {Lift(p)} \in SUBSET Handler  BY Handlers
  <2>2. Releases({Lift(p)}) \in Seq(Item)  BY <2>1, Pieces
  <2> QED  BY <1>12, <2>2, NobodyMoves DEF ReleaseLift
<1> QED
  BY <1>5, <1>6, <1>7, <1>8, <1>9, <1>10, <1>11, <1>12 DEF Commands

LEMMA ErrorsKeep == ASSUME InOrder, Typed, NEW p \in Proc, Errors(p) PROVE InOrder'
<1> USE DEF program, display, step, subs, commands, hooks, ending, history
<1>1. chain \in Seq(Item) /\ chain = chain \o <<>> /\ <<>> \in Seq(Item)
  BY NothingAdded DEF InOrder, Shape
<1>2. "failing" \in Running \cap (States \ {"stepping", "stepped"}) /\ {} \in SUBSET Message
      /\ {"stepping", "stepped", "syncing", "executing"} \subseteq Running
  BY DEF States, Running
<1>3. CASE FailStep(p)
  <2>1. /\ Goto(p, "failing", {}, {}) /\ pc[p] = "stepping" /\ base' = [base EXCEPT ![p] = {}]
        /\ frame' = frame /\ model' = model /\ page' = page /\ chain' = chain
    BY <1>3 DEF FailStep
  <2>2. /\ base' \in [Proc -> SUBSET Message] /\ frame' \in [Proc -> SUBSET Message]
        /\ \A q \in Proc \ {p} : base'[q] = base[q] /\ frame'[q] = frame[q]
        /\ page' \subseteq model
    BY <2>1 DEF InOrder, Shape, Behind
  <2> QED  BY <1>1, <1>2, <2>1, <2>2, GoesOn
<1>4. CASE RenderThrows(p)
  <2>1. {View(p)} \in SUBSET Handler  BY Handlers
  <2>2. Releases({View(p)}) \in Seq(Item)  BY <2>1, Pieces
  <2> QED  BY <1>2, <1>4, <2>2, MovesOn DEF RenderThrows
<1>5. CASE StartThrows(p)  BY <1>1, <1>2, <1>5, MovesOn DEF StartThrows
<1>6. CASE ExecuteThrows(p)  BY <1>1, <1>2, <1>6, MovesOn DEF ExecuteThrows
<1> QED  BY <1>3, <1>4, <1>5, <1>6 DEF Errors

LEMMA ApplyNothingKeeps == ASSUME InOrder, NEW p \in Proc, ApplyNothing(p) PROVE InOrder'
<1>1. /\ pc[p] = "stepped" /\ Goto(p, "done", {}, {}) /\ chain' = Without(p)
      /\ frame' = [frame EXCEPT ![p] = {}] /\ model' = model /\ base' = base /\ page' = page
  BY DEF ApplyNothing, display
<1>2. /\ frame' \in [Proc -> SUBSET Message] /\ \A q \in Proc \ {p} : frame'[q] = frame[q]
      /\ Without(p) \in Seq(Item)
  BY <1>1, WithoutTyped DEF InOrder, Shape
<1>3. chain' = Without(p) \o <<>> /\ <<>> \in Seq(Item)  BY <1>1, <1>2, NothingAdded
<1>4. pc[p] \in Running /\ "done" \in Settled /\ {} \in SUBSET Message
  BY <1>1 DEF Running, Settled
<1>5. p \in Message => chain # <<>> /\ Head(chain).step = {p}  BY <1>4, HeadOf
<1> QED  BY <1>1, <1>2, <1>3, <1>4, <1>5, Leaves

LEMMA RejectKeeps == ASSUME InOrder, Typed, NEW p \in Proc, Reject(p) PROVE InOrder'
<1>1. /\ pc[p] = "failing" /\ Goto(p, "failed", {}, {})
      /\ frame' = [frame EXCEPT ![p] = {}] /\ model' = model /\ base' = base
  BY DEF Reject
<1>2. /\ frame' \in [Proc -> SUBSET Message] /\ base' \in [Proc -> SUBSET Message]
      /\ \A q \in Proc \ {p} : frame'[q] = frame[q]
  BY <1>1 DEF InOrder, Shape
<1>3. /\ pc[p] \in Running /\ "failed" \in Settled /\ {} \in SUBSET Message
      /\ "failed" \in States \ {"stepping", "stepped"}
  BY <1>1 DEF Running, Settled, States
<1>4. CASE p = Mount
  <2>1. page' = {} /\ chain' = chain \o Releases({View(q) : q \in shown})
    BY <1>4 DEF Reject, TearDown
  <2>2. Releases({View(q) : q \in shown}) \in Seq(Item)
    BY ViewsTyped DEF Typed, Placed, AtMostOne
  <2> QED  BY <1>1, <1>2, <1>3, <2>1, <2>2, GoesOn
<1>5. CASE p # Mount
  <2>1. page' = page /\ chain' = Without(p)  BY <1>5 DEF Reject, display
  <2>2. Without(p) \in Seq(Item)  BY WithoutTyped DEF InOrder
  <2>3. chain' = Without(p) \o <<>> /\ <<>> \in Seq(Item)  BY <2>1, <2>2, NothingAdded
  <2>4. p \in Message => chain # <<>> /\ Head(chain).step = {p}  BY <1>3, HeadOf
  <2> QED  BY <1>1, <1>2, <1>3, <2>1, <2>3, <2>4, Leaves
<1> QED  BY <1>4, <1>5

LEMMA InputKeeps ==
    ASSUME InOrder, Typed, UserEvent \/ DisposeApp \/ DisposeNext \/ \E l \in live : Emit(l)
    PROVE  InOrder'
<1> USE DEF program, display, step, subs, commands, hooks, ending, history
<1>1. Fresh \in SUBSET Message /\ Steps(Fresh) \in Seq(Item)  BY Pieces
<1>2. CASE UserEvent
  <2>1. PICK h : Goto(Mount, pc[Mount], Fresh, h)  BY <1>2 DEF UserEvent
  <2>2. ~ Young  BY <1>2 DEF UserEvent, InOrder, Blank, Young
  <2> QED  BY <1>1, <1>2, <2>1, <2>2, Procs, Sends DEF UserEvent
<1>3. CASE \E l \in live : Emit(l)
  <2>1. PICK l \in live : Emit(l)  BY <1>3
  <2>2. ~ Young  BY <2>1 DEF InOrder, Blank
  <2> QED  BY <1>1, <2>1, <2>2, Procs, Sends DEF Emit
<1>4. CASE DisposeApp
  <2>1. Releases({View(q) : q \in shown}) \in Seq(Item)
    BY ViewsTyped DEF Typed, Placed, AtMostOne
  <2>2. ~ Young  BY <1>4 DEF DisposeApp, Young
  <2> QED  BY <1>4, <2>1, <2>2, NobodyMoves DEF DisposeApp, TearDown
<1>5. CASE DisposeNext
  <2>1. chain \in Seq(Item) /\ chain = chain \o <<>> /\ <<>> \in Seq(Item)
    BY NothingAdded DEF InOrder, Shape
  <2>2. /\ UNCHANGED <<pc, program, page, shown, timers, chain>> /\ live' \subseteq live
    BY <1>5 DEF DisposeNext
  <2> QED  BY <2>1, <2>2, NobodyMoves
<1> QED  BY <1>2, <1>3, <1>4, <1>5

-----------------------------------------------------------------------------
(* Every step.                                                             *)

LEMMA OrderKept == ASSUME InOrder, Typed, [Next]_vars PROVE InOrder'
<1>1. CASE UNCHANGED vars
  <2>1. chain \in Seq(Item) /\ chain = chain \o <<>> /\ <<>> \in Seq(Item)
    BY NothingAdded DEF InOrder, Shape
  <2> QED  BY <1>1, <2>1, NobodyMoves DEF vars, program
<1> QED
  BY <1>1, RunReleaseKeeps, BeginStepKeeps, EndStepKeeps, RenderKeeps, ApplyKeeps,
     ApplyNothingKeeps, RejectKeeps, SyncKeeps, CommandsKeep, ErrorsKeep, InputKeeps
  DEF Next, Machine

\* The model is written by the end of a step, the page by a frame or the end of all.
LEMMA StepKeepsAll ==
    ASSUME InOrder, Typed, [Next]_vars
    PROVE  model \subseteq model' /\ (shown' \subseteq {Repaint} \/ page \subseteq page')
<1> USE DEF program, display, step, subs, commands, hooks, ending, history
<1>1. ASSUME NEW p \in Proc, EndStep(p)
      PROVE  model \subseteq model' /\ page' = page
  BY <1>1, EndStepKeeps DEF EndStep
<1>2. ASSUME NEW p \in Proc, Apply(p)
      PROVE  model' = model /\ (shown' \subseteq {Repaint} \/ page \subseteq page')
  BY <1>2, ApplyKeeps DEF Apply
<1>3. ASSUME NEW p \in Proc, Reject(p)
      PROVE  model' = model /\ (shown' = {} \/ page' = page)
  BY <1>3 DEF Reject, TearDown
<1>4. ASSUME DisposeApp PROVE model' = model /\ shown' = {}
  BY <1>4 DEF DisposeApp, TearDown
<1>5. ASSUME NEW p \in Proc, Sync(p) PROVE model' = model /\ page' = page
  BY <1>5 DEF Sync, RemoveGone, RemovedAll, Replace, Dropped, Keep, Start, Started, Synced, Dispose
<1>6. ASSUME NEW p \in Proc, Commands(p) PROVE model' = model /\ page' = page
  BY <1>6 DEF Commands, MessageCommand, MessageHandled, DelayCommand, DelayFires,
              ExecuteCommand, Executed, Finish, ReleaseLift
<1>7. ASSUME NEW p \in Proc, Errors(p) \/ ApplyNothing(p) PROVE model' = model /\ page' = page
  BY <1>7 DEF Errors, FailStep, RenderThrows, StartThrows, ExecuteThrows, ApplyNothing
<1>8. ASSUME NEW m \in Message, BeginStep(m) PROVE model' = model /\ page' = page
  BY <1>8 DEF BeginStep
<1>9. ASSUME RunRelease \/ DisposeNext \/ Render \/ UserEvent \/ UNCHANGED vars
      PROVE  model' = model /\ page' = page
  BY <1>9 DEF RunRelease, DisposeNext, Render, UserEvent, vars
<1>10. ASSUME NEW l \in live, Emit(l) PROVE model' = model /\ page' = page
  BY <1>10 DEF Emit
<1> QED
  BY <1>1, <1>2, <1>3, <1>4, <1>5, <1>6, <1>7, <1>8, <1>9, <1>10 DEF Next, Machine

\* No step is lost: none writes a model that misses what an earlier one wrote, and
\* but for a call of render() the page never goes back (app-runtime.ts:253-275,
\* browser.ts:668-671).
THEOREM EveryStepCounts == Spec => NoStepLost
<1>1. Init => InOrder /\ Typed  BY InitInOrder, InitTyped
<1>2. InOrder /\ Typed /\ [Next]_vars => (InOrder /\ Typed)'
  BY OrderKept, PlacedKept, OwnedKept, ListedKept, BegunKept DEF Typed
<1>3. InOrder /\ Typed /\ [Next]_vars =>
        [/\ model \subseteq model'
         /\ shown' \subseteq {Repaint} \/ page \subseteq page']_vars
  BY StepKeepsAll
<1> QED  BY <1>1, <1>2, <1>3, PTL DEF Spec, NoStepLost

LEMMA FewInPlace ==
    ASSUME NEW S, NEW T, AtMostOne(S, T)
    PROVE  Cardinality(S) <= 1
<1>1. CASE S = {}  BY <1>1, FS_EmptySet
<1>2. CASE S # {}
  <2>1. PICK x \in T : S = {x}  BY <1>2 DEF AtMostOne
  <2>2. Cardinality(S) = 1  BY <2>1, FS_Singleton
  <2> QED  BY <2>2
<1> QED  BY <1>1, <1>2

\* Every variable keeps its type.
THEOREM AlwaysTypeOK == Spec => []TypeOK
<1>1. Init => InOrder /\ Typed  BY InitInOrder, InitTyped
<1>2. InOrder /\ Typed /\ [Next]_vars => (InOrder /\ Typed)'
  BY OrderKept, PlacedKept, OwnedKept, ListedKept, BegunKept DEF Typed
<1>3. InOrder /\ Typed => TypeOK
  <2> SUFFICES ASSUME InOrder, Typed PROVE TypeOK  OBVIOUS
  <2>1. Cardinality(turn) <= 1 /\ Cardinality(shown) <= 1
        /\ turn \in SUBSET Proc /\ shown \in SUBSET Proc
    BY FewInPlace DEF Typed, Placed, AtMostOne
  <2>2. /\ pc \in [Proc -> {"new", "queued"} \cup Running \cup Settled]
        /\ model \subseteq Message /\ page \subseteq Message
        /\ base \in [Proc -> SUBSET Message] /\ frame \in [Proc -> SUBSET Message]
    BY DEF InOrder, Shape, Behind, States
  <2>3. \A i \in DOMAIN chain : chain[i] \in [step : SUBSET Message, release : SUBSET Handler]
    <3>1. chain \in Seq(Item)  BY DEF InOrder, Shape
    <3>2. \A i \in DOMAIN chain : chain[i] \in Item  BY <3>1
    <3> QED  BY <3>2 DEF Item
  <2>4. /\ \A r \in active : r.key \in Key /\ r.own \in Handler /\ r.by \in Proc
        /\ \A r, s \in active : r.key = s.key => r = s
        /\ \A l \in live : l.key \in Key /\ l.own \in Handler /\ l.by \in Proc
    BY DEF Typed, Listed, Record, Listener
  <2>5. /\ \A p \in Proc : want[p] \in Configs \cup {<<>>}
        /\ deferred \in [Proc -> SUBSET (Key \X Proc)]
    BY DEF Typed, Listed
  <2>6. /\ via \in [Message -> SUBSET Handler] /\ drop \in [Proc -> SUBSET Handler]
        /\ awaits \in [Proc -> SUBSET Message] /\ owed \subseteq Handler
        /\ retained \subseteq Handler
    BY DEF Typed, Owned
  <2>7. /\ timers \subseteq Proc /\ stack \in Seq(Proc)
        /\ disposed \in BOOLEAN /\ early \in BOOLEAN /\ stale \in BOOLEAN
    BY DEF Typed, Placed
  <2> QED  BY <2>1, <2>2, <2>3, <2>4, <2>5, <2>6, <2>7 DEF TypeOK
<1> QED  BY <1>1, <1>2, <1>3, PTL DEF Spec

-----------------------------------------------------------------------------
(* One listener for each key.                                              *)

Active == Running \ {"failing"}

\* Messages are dispatched in the order of their numbers.
Numbered == \E n \in 0 .. MaxMessages : \A m \in Message : pc[m] = "new" <=> m > n
\* Unless one began early, no message is handled before the first step has ended.
Alone == ~ early => \A m \in Message : pc[m] \in Active => pc[Mount] = "done"
\* A call of render() touches no subscription.
Apart == pc[Repaint] \in {"new", "stepped", "done", "failing", "failed"}
Solo  == Numbered /\ Alone /\ Apart

LEMMA FreshIsNew ==
    ASSUME NEW n \in 0 .. MaxMessages, \A m \in Message : pc[m] = "new" <=> m > n
    PROVE  /\ \A m \in Fresh : m = n + 1 /\ m \in Message /\ pc[m] = "new"
           /\ n < MaxMessages => Fresh = {n + 1}
<1>1. n \in Nat /\ MaxMessages \in Nat  BY BoundsAreNatural
<1>2. {m \in Message : pc[m] # "new"} = 1 .. n  BY <1>1 DEF Message
<1>3. Cardinality(1 .. n) = n  BY <1>1, FS_Interval
<1>4. Fresh = {n + 1} \cap Message  BY <1>2, <1>3 DEF Fresh
<1> QED  BY <1>1, <1>4 DEF Message

LEMMA InitSolo == Init => Solo
<1> SUFFICES ASSUME Init PROVE Solo  OBVIOUS
<1>1. \A m \in Message : pc[m] = "new" /\ m > 0  BY Procs DEF Init, Message
<1>2. Numbered  BY <1>1, BoundsAreNatural DEF Numbered
<1>3. Alone /\ Apart  BY <1>1, Procs DEF Init, Alone, Apart, Active, Running
<1> QED  BY <1>2, <1>3 DEF Solo

\* p goes to s, and the next message is dispatched or not.
LEMMA GotoSolo ==
    ASSUME Solo, NEW p \in Proc, NEW s, NEW M \in {{}, Fresh}, NEW h, Goto(p, s, M, h),
           p \in Message => (pc[p] = "new" <=> s = "new"),
           s \in Active => pc[p] \in Active \/ p = Repaint \/ early' \/ pc[Mount] = "done", pc[p] = "done" => s = "done",
           p = Repaint => s \in {"new", "stepped", "done", "failing", "failed"}, early => early'
    PROVE  Solo'
<1>1. pc' = [q \in Proc |-> IF q \in M THEN "queued" ELSE IF q = p THEN s ELSE pc[q]]
  BY DEF Goto
<1>2. M \in SUBSET Message  BY FreshTyped
<1>3. Numbered'
  <2>1. PICK n \in 0 .. MaxMessages : \A m \in Message : pc[m] = "new" <=> m > n
    BY DEF Solo, Numbered
  <2>2. CASE M = {}  BY <1>1, <2>1, <2>2, Procs DEF Numbered
  <2>3. CASE M = Fresh /\ M # {}
    <3>1. PICK m \in Message : m = n + 1  BY <2>1, <2>3, FreshIsNew
    <3>2. n + 1 \in 0 .. MaxMessages /\ n < MaxMessages  BY <3>1, BoundsAreNatural DEF Message
    <3>3. M = {n + 1}  BY <2>1, <2>3, <3>2, FreshIsNew
    <3>4. ASSUME NEW k \in Message PROVE pc'[k] = "new" <=> k > n + 1
      <4>1. CASE k = n + 1  BY <1>1, <3>3, <4>1, Procs DEF Message
      <4>2. CASE k # n + 1
        <5>1. pc'[k] = "new" <=> pc[k] = "new"  BY <1>1, <3>3, <4>2, Procs
        <5>2. k > n <=> k > n + 1  BY <4>2 DEF Message
        <5> QED  BY <2>1, <5>1, <5>2
      <4> QED  BY <4>1, <4>2
    <3> QED  BY <3>2, <3>4 DEF Numbered
  <2> QED  BY <2>2, <2>3
<1>4. Alone'
  <2>1. SUFFICES ASSUME ~ early', NEW m \in Message, pc'[m] \in Active
                 PROVE  pc'[Mount] = "done"
    BY DEF Alone
  <2>2. "queued" \notin Active  BY DEF Active, Running
  <2>3. m \notin M /\ (pc[m] \in Active \/ pc[Mount] = "done")  BY <1>1, <2>1, <2>2, Procs
  <2>4. pc[Mount] = "done"  BY <2>1, <2>3 DEF Solo, Alone
  <2> QED  BY <1>1, <1>2, <2>4, Procs
<1>5. Apart'  BY <1>1, <1>2, Procs DEF Solo, Apart
<1> QED  BY <1>3, <1>4, <1>5 DEF Solo

LEMMA SoloKept == ASSUME Solo, Typed, [Next]_vars PROVE Solo'
<1> USE DEF program, display, step, subs, commands, hooks, ending, history
<1>1. /\ "new" \notin Running /\ "queued" \notin Running /\ "done" \notin Running
      /\ \A s \in {"stepping", "stepped", "removing", "dropping", "syncing", "replacing",
                   "starting", "commands", "executing", "awaiting"} : s \in Active
      /\ "done" \notin Active /\ "failing" \notin Active /\ "failed" \notin Active
      /\ Active \subseteq Running
  BY DEF Running, Active
<1>2. {} \in {{}, Fresh} /\ Fresh \in {{}, Fresh}  OBVIOUS
\* A step that is under way goes on or ends.
<1>3. ASSUME NEW p \in Proc, NEW s \in Running \cup Settled, NEW M \in {{}, Fresh}, NEW h,
             Goto(p, s, M, h), pc[p] \in Running, s \in Active => pc[p] \in Active,
             p = Repaint => s \in {"done", "failing", "failed"}, early' = early
      PROVE  Solo'
  <2>1. s # "new" /\ pc[p] # "new" /\ pc[p] # "done"  BY <1>1, <1>3 DEF Running, Settled
  <2> QED  BY <1>3, <2>1, GotoSolo
<1>4. ASSUME NEW p \in Proc, NEW M \in {{}, Fresh}, NEW h, Goto(p, pc[p], M, h), early' = early
      PROVE  Solo'
  BY <1>4, GotoSolo DEF Solo, Apart
<1>5. ASSUME pc' = pc, early' = early PROVE Solo'
  BY <1>5 DEF Solo, Numbered, Alone, Apart
<1>6. \A p \in Proc : pc[p] \in Active \ {"stepped"} => p # Repaint  BY <1>1 DEF Solo, Apart, Active, Running
<1>7. ASSUME NEW p \in Proc, Sync(p) PROVE Solo'
  <2>1. CASE RemoveGone(p) \/ Replace(p)
    <3>1. PICK s \in {"dropping", "replacing"} : Goto(p, s, {}, {})
      BY <2>1 DEF RemoveGone, Replace, Dispose
    <3>2. pc[p] \in {"removing", "syncing"} /\ early' = early
      BY <2>1 DEF RemoveGone, Replace, Dispose
    <3> QED  BY <1>1, <1>2, <1>3, <1>6, <3>1, <3>2
  <2>2. CASE RemovedAll(p)  BY <1>1, <1>2, <1>3, <1>6, <2>2 DEF RemovedAll
  <2>3. CASE Dropped(p)
    <3>1. PICK s \in {"removing", "syncing"} : Goto(p, s, {}, {})  BY <2>3 DEF Dropped
    <3>2. pc[p] \in {"dropping", "replacing"} /\ early' = early  BY <2>3 DEF Dropped
    <3> QED  BY <1>1, <1>2, <1>3, <1>6, <3>1, <3>2
  <2>4. CASE Keep(p)  BY <1>5, <2>4 DEF Keep
  <2>5. CASE Start(p)
    <3>1. PICK M \in {{}, Fresh} : Goto(p, "starting", M, {Mapper(p)})  BY <2>5 DEF Start
    <3>2. pc[p] = "syncing" /\ early' = early  BY <2>5 DEF Start
    <3> QED  BY <1>1, <1>3, <1>6, <3>1, <3>2
  <2>6. CASE Started(p)  BY <1>1, <1>2, <1>3, <1>6, <2>6 DEF Started
  <2>7. CASE Synced(p)  BY <1>1, <1>2, <1>3, <1>6, <2>7 DEF Synced
  <2> QED  BY <1>7, <2>1, <2>2, <2>3, <2>4, <2>5, <2>6, <2>7 DEF Sync
<1>8. ASSUME NEW p \in Proc, Commands(p) PROVE Solo'
  <2>1. CASE MessageCommand(p)
    BY <1>1, <1>2, <1>3, <1>6, <2>1 DEF MessageCommand, Command
  <2>2. CASE MessageHandled(p)
    <3>1. PICK s \in {"failing", "commands"} : Goto(p, s, {}, {})  BY <2>2 DEF MessageHandled
    <3>2. pc[p] = "awaiting" /\ early' = early  BY <2>2 DEF MessageHandled
    <3> QED  BY <1>1, <1>2, <1>3, <1>6, <3>1, <3>2 DEF Running
  <2>3. CASE DelayCommand(p) \/ ReleaseLift(p)  BY <1>5, <2>3 DEF DelayCommand, ReleaseLift
  <2>4. CASE DelayFires(p)
    <3>1. PICK M \in {{}, Fresh} : Goto(p, pc[p], M, {Lift(p)})  BY <2>4 DEF DelayFires
    <3> QED  BY <1>4, <2>4, <3>1 DEF DelayFires
  <2>5. CASE ExecuteCommand(p)
    BY <1>1, <1>2, <1>3, <1>6, <2>5 DEF ExecuteCommand, Command
  <2>6. CASE Executed(p)
    <3>1. PICK M \in {{}, Fresh} : Goto(p, "commands", M, {Lift(p)})  BY <2>6 DEF Executed
    <3>2. pc[p] = "executing" /\ early' = early  BY <2>6 DEF Executed
    <3> QED  BY <1>1, <1>3, <1>6, <3>1, <3>2
  <2>7. CASE Finish(p)
    <3> DEFINE ready == {l \in live : <<l.key, l.by>> \in deferred[p] /\ ~ disposed}
               M == IF ready = {} THEN {} ELSE Fresh
               H == {l.own : l \in ready}
    <3>1. M \in {{}, Fresh} /\ Goto(p, "done", M, H)  BY <2>7 DEF Finish
    <3>2. pc[p] = "commands" /\ early' = early  BY <2>7 DEF Finish
    <3>3. "done" \in Running \cup Settled  BY DEF Settled
    <3> HIDE DEF M, H
    <3> QED  BY <1>1, <1>3, <3>1, <3>2, <3>3
  <2> QED  BY <1>8, <2>1, <2>2, <2>3, <2>4, <2>5, <2>6, <2>7 DEF Commands
<1>9. ASSUME NEW p \in Proc, Errors(p) PROVE Solo'
  <2>1. Goto(p, "failing", {}, {}) /\ early' = early
        /\ pc[p] \in {"stepping", "stepped", "syncing", "executing"}
    BY <1>9 DEF Errors, FailStep, RenderThrows, StartThrows, ExecuteThrows
  <2>2. "failing" \in Running  BY DEF Running
  <2> QED  BY <1>1, <1>2, <1>3, <2>1, <2>2
<1>10. ASSUME NEW p \in Proc, EndStep(p) PROVE Solo'
  BY <1>1, <1>2, <1>3, <1>10 DEF EndStep
<1>11. ASSUME NEW p \in Proc, Apply(p) PROVE Solo'
  <2>1. pc[p] = "stepped" /\ early' = early
        /\ Goto(p, IF p = Repaint THEN "done" ELSE "removing", {}, {})
    BY <1>11 DEF Apply
  <2>2. "done" \in Settled  BY DEF Settled
  <2>3. CASE p = Repaint  BY <1>1, <1>2, <1>3, <2>1, <2>2, <2>3
  <2>4. CASE p # Repaint  BY <1>1, <1>2, <1>3, <2>1, <2>4
  <2> QED  BY <2>3, <2>4
<1>12. ASSUME NEW p \in Proc, ApplyNothing(p) \/ Reject(p) PROVE Solo'
  <2>1. PICK s \in Settled : Goto(p, s, {}, {})
    BY <1>12 DEF ApplyNothing, Reject, Settled
  <2>2. pc[p] \in {"stepped", "failing"} /\ early' = early  BY <1>12 DEF ApplyNothing, Reject
  <2> QED  BY <1>1, <1>2, <1>3, <2>1, <2>2 DEF Running, Settled
<1>13. ASSUME NEW m \in Message, BeginStep(m) PROVE Solo'
  <2>1. pc[m] = "queued" /\ m \in Proc /\ m # Repaint  BY <1>13, Procs DEF BeginStep, Ready
  <2>2. CASE Goto(m, "done", {}, {}) /\ early' = early  BY <1>1, <1>2, <2>1, <2>2, GotoSolo
  <2>3. CASE Goto(m, "failing", {}, {}) /\ early' = early  BY <1>1, <1>2, <2>1, <2>3, GotoSolo
  <2>4. CASE Goto(m, "stepping", {}, {}) /\ early' = (early \/ pc[Mount] # "done")
    BY <1>1, <1>2, <2>1, <2>4, GotoSolo
  <2> QED  BY <1>13, <2>2, <2>3, <2>4 DEF BeginStep
<1>14. CASE RunRelease \/ DisposeNext \/ DisposeApp \/ UNCHANGED vars
  BY <1>5, <1>14 DEF RunRelease, DisposeNext, DisposeApp, TearDown, vars
<1>15. CASE Render
  BY <1>1, <1>2, <1>15, Procs, GotoSolo DEF Render
<1>16. CASE UserEvent  BY <1>2, <1>4, <1>16, Procs DEF UserEvent
<1>17. ASSUME NEW l \in live, Emit(l) PROVE Solo'  BY <1>2, <1>4, <1>17, Procs DEF Emit
<1> QED
  BY <1>7, <1>8, <1>9, <1>10, <1>11, <1>12, <1>13, <1>14, <1>15, <1>16, <1>17 DEF Next, Machine

-----------------------------------------------------------------------------
(* Who listens is on record, or about to be.                               *)

OnItsWay(l) == pc[l.by] = "starting" /\ Head(todo[l.by]).key = l.key /\ l.own = Mapper(l.by)
Known ==
    /\ ~ disposed => doomed = {}
    /\ ~ early /\ ~ disposed =>
          /\ \A l \in live : l \in Recorded \/ OnItsWay(l)
          /\ \A p \in Proc : pc[p] = "starting" => NotActive(Head(todo[p]).key)

LEMMA InitKnown == Init => Known
BY DEF Init, Known

LEMMA OneSyncs ==
    ASSUME InOrder, Solo, ~ early, NEW p \in Proc, NEW q \in Proc,
           pc[p] \in {"removing", "syncing", "starting"}, pc[q] \in {"removing", "syncing", "starting"}
    PROVE  p = q
<1>1. pc[p] \in Active /\ pc[q] \in Active /\ Active \subseteq Running  BY DEF Active, Running
<1>2. p # Repaint /\ q # Repaint  BY DEF Solo, Apart
<1>3. CASE p \in Message /\ q \in Message
  <2>1. Head(chain).step = {p} /\ Head(chain).step = {q}  BY <1>1, <1>3 DEF InOrder, AtHead
  <2> QED  BY <2>1
<1>4. CASE p = Mount \/ q = Mount
  <2>1. p \notin Message /\ q \notin Message  BY <1>1, <1>4, Procs DEF Solo, Alone
  <2> QED  BY <1>2, <2>1, Procs
<1> QED  BY <1>2, <1>3, <1>4, Procs

\* Nothing about the subscriptions changes.
LEMMA KnownStays ==
    ASSUME Known, Typed, UNCHANGED subs, early => early', disposed => disposed',
           ~ disposed' => doomed' = doomed,
           \A q \in Proc : pc'[q] = "starting" <=> pc[q] = "starting",
           \A q \in Proc : pc[q] = "starting" => todo'[q] = todo[q]
    PROVE  Known'
<1>1. live' = live /\ active' = active /\ live \subseteq Listener  BY DEF subs, Typed, Listed
<1>2. ~ disposed' => doomed' = {}  BY DEF Known
<1>3. ASSUME ~ early', ~ disposed', NEW l \in live' PROVE l \in Recorded' \/ OnItsWay(l)'
  <2>1. l \in Recorded \/ OnItsWay(l)  BY <1>1, <1>3 DEF Known
  <2>2. l.by \in Proc  BY <1>1, <1>3 DEF Listener
  <2>3. CASE l \in Recorded
    <3>1. Recorded' = Recorded  BY <1>1 DEF Recorded
    <3> QED  BY <2>3, <3>1
  <2>4. CASE OnItsWay(l)  BY <2>2, <2>4 DEF OnItsWay, Mapper
  <2> QED  BY <2>1, <2>3, <2>4
<1>4. ASSUME ~ early', ~ disposed', NEW p \in Proc, pc'[p] = "starting"
      PROVE  NotActive(Head(todo[p]).key)'
  <2>1. pc[p] = "starting" /\ ~ early /\ ~ disposed /\ todo'[p] = todo[p]  BY <1>4
  <2>2. NotActive(Head(todo[p]).key)  BY <2>1 DEF Known
  <2> QED  BY <1>1, <2>1, <2>2 DEF NotActive
<1> QED  BY <1>2, <1>3, <1>4 DEF Known

\* p moves, but neither to the start of a subscription nor from there.
LEMMA KnownMoves ==
    ASSUME Known, Typed, Solo, NEW p \in Proc, NEW s, NEW M \in {{}, Fresh}, NEW h,
           Goto(p, s, M, h), s = "starting" <=> pc[p] = "starting",
           \A q \in Proc : q # p \/ s = "starting" => todo'[q] = todo[q],
           UNCHANGED subs, early => early', disposed => disposed', ~ disposed' => doomed' = doomed
    PROVE  Known'
<1>1. pc' = [q \in Proc |-> IF q \in M THEN "queued" ELSE IF q = p THEN s ELSE pc[q]]
  BY DEF Goto
<1>2. PICK n \in 0 .. MaxMessages : \A m \in Message : pc[m] = "new" <=> m > n
  BY DEF Solo, Numbered
<1>3. \A m \in M : m \in Message /\ pc[m] # "starting"  BY <1>2, FreshIsNew
<1>4. \A q \in Proc : pc'[q] = "starting" <=> pc[q] = "starting"  BY <1>1, <1>3
<1> QED  BY <1>4, KnownStays

\* A listener and its record go together.
LEMMA DisposeKnown ==
    ASSUME InOrder, Solo, Known, Typed, NEW p \in Proc, NEW s \in {"dropping", "replacing"},
           NEW r \in active, Dispose(p, r, s), pc[p] \in {"removing", "syncing"}
    PROVE  Known'
<1>1. /\ active' = active \ {r} /\ live' = {l \in live : <<l.key, l.by>> # <<r.key, r.by>>}
      /\ Goto(p, s, {}, {}) /\ todo' = todo
      /\ early' = early /\ disposed' = disposed /\ doomed' = doomed
  BY DEF Dispose, history, ending
<1>2. \A q \in Proc : pc'[q] = "starting" => pc[q] = "starting"  BY <1>1 DEF Goto
<1>3. ~ early => \A q \in Proc : pc[q] # "starting"  BY OneSyncs
<1>4. ASSUME ~ early', ~ disposed', NEW l \in live' PROVE l \in Recorded'
  <2>1. l \in live /\ l \in Listener /\ <<l.key, l.by>> # <<r.key, r.by>>
    BY <1>1, <1>4 DEF Typed, Listed
  <2>2. l \in Recorded  BY <1>1, <1>3, <1>4, <2>1 DEF Known, OnItsWay, Listener
  <2>3. PICK q \in active : l = [key |-> q.key, by |-> q.by, own |-> q.own]
    BY <2>2 DEF Recorded
  <2>4. q \in active'  BY <1>1, <2>1, <2>3
  <2> QED  BY <2>3, <2>4 DEF Recorded
<1>5. ~ early' => \A q \in Proc : pc'[q] # "starting"  BY <1>1, <1>2, <1>3
<1> QED  BY <1>1, <1>4, <1>5 DEF Known

LEMMA KeepKnown ==
    ASSUME InOrder, Solo, Known, Typed, NEW p \in Proc, Keep(p)
    PROVE  Known'
<1>1. PICK r \in active :
        /\ active' = (active \ {r}) \cup {[r EXCEPT !.own = Mapper(p)]}
        /\ live' = {IF <<l.key, l.by>> = <<r.key, r.by>> THEN [l EXCEPT !.own = Mapper(p)]
                                                        ELSE l : l \in live}
  BY DEF Keep
<1>2. /\ pc[p] = "syncing" /\ pc' = pc
      /\ early' = early /\ disposed' = disposed /\ doomed' = doomed
  BY DEF Keep, history, ending
<1>3. ~ early => \A q \in Proc : pc[q] # "starting"  BY <1>2, OneSyncs
<1>4. /\ r \in Record /\ \A q, t \in active : q.key = t.key => q = t
      /\ live \subseteq Listener
  BY DEF Typed, Listed
<1>5. ASSUME ~ early', ~ disposed', NEW l \in live' PROVE l \in Recorded'
  <2>1. PICK k \in live : l = IF <<k.key, k.by>> = <<r.key, r.by>>
                                THEN [k EXCEPT !.own = Mapper(p)] ELSE k
    BY <1>1, <1>5
  <2>2. k \in Listener /\ k \in Recorded
    BY <1>2, <1>3, <1>4, <1>5 DEF Known, OnItsWay, Listener
  <2>3. PICK q \in active : k = [key |-> q.key, by |-> q.by, own |-> q.own]
    BY <2>2 DEF Recorded
  <2>4. CASE <<k.key, k.by>> = <<r.key, r.by>>
    <3> DEFINE new == [r EXCEPT !.own = Mapper(p)]
    <3>1. new \in active' /\ new.key = r.key /\ new.by = r.by /\ new.own = Mapper(p)
      BY <1>1, <1>4 DEF Record
    <3>2. l = [key |-> r.key, by |-> r.by, own |-> Mapper(p)]
      BY <2>1, <2>2, <2>4 DEF Listener
    <3> HIDE DEF new
    <3>3. l = [key |-> new.key, by |-> new.by, own |-> new.own]  BY <3>1, <3>2
    <3> QED  BY <3>1, <3>3 DEF Recorded
  <2>5. CASE <<k.key, k.by>> # <<r.key, r.by>>
    <3>1. l = k /\ q # r  BY <2>1, <2>3, <2>5
    <3>2. q \in active'  BY <1>1, <3>1
    <3> QED  BY <2>3, <3>1, <3>2 DEF Recorded
  <2> QED  BY <2>4, <2>5
<1> QED  BY <1>2, <1>3, <1>5 DEF Known

LEMMA StartKnown ==
    ASSUME InOrder, Solo, Known, Typed, NEW p \in Proc, Start(p)
    PROVE  Known'
<1> DEFINE key == Head(todo[p]).key
           new == [key |-> key, by |-> p, own |-> Mapper(p)]
<1>1. /\ pc[p] = "syncing" /\ NotActive(key) /\ live' = live \cup {new} /\ todo' = todo
      /\ early' = early /\ disposed' = disposed /\ doomed' = doomed /\ active' = active
  BY DEF Start, step, history, ending
<1>2. PICK M \in {{}, Fresh}, h \in {{Mapper(p)}} : Goto(p, "starting", M, h)
  BY DEF Start
<1>3. PICK n \in 0 .. MaxMessages : \A m \in Message : pc[m] = "new" <=> m > n
  BY DEF Solo, Numbered
<1>4. p \notin M  BY <1>1, <1>3, FreshIsNew
<1>5. pc'[p] = "starting" /\ \A q \in Proc : pc'[q] = "starting" => q = p \/ pc[q] = "starting"
  BY <1>2, <1>4 DEF Goto
<1>6. ~ early => \A q \in Proc : pc[q] # "starting"  BY <1>1, OneSyncs
<1>7. Recorded' = Recorded  BY <1>1 DEF Recorded
<1>8. ASSUME ~ early', ~ disposed', NEW l \in live' PROVE l \in Recorded' \/ OnItsWay(l)'
  <2>1. CASE l = new
    <3>1. l.by = p /\ l.key = key /\ l.own = Mapper(p)  BY <2>1
    <3> QED  BY <1>1, <1>5, <3>1 DEF OnItsWay, Mapper
  <2>2. CASE l \in live
    <3>1. l.by \in Proc  BY <2>2 DEF Typed, Listed, Listener
    <3>2. l \in Recorded  BY <1>1, <1>6, <1>8, <2>2, <3>1 DEF Known, OnItsWay
    <3> QED  BY <1>7, <3>2
  <2> QED  BY <1>1, <1>8, <2>1, <2>2
<1>9. ASSUME ~ early', ~ disposed', NEW q \in Proc, pc'[q] = "starting"
      PROVE  NotActive(Head(todo[q]).key)'
  <2>1. q = p  BY <1>1, <1>5, <1>6, <1>9
  <2> QED  BY <1>1, <2>1 DEF NotActive
<1> QED  BY <1>1, <1>8, <1>9 DEF Known

LEMMA StartedKnown ==
    ASSUME InOrder, Solo, Known, Typed, NEW p \in Proc, Started(p)
    PROVE  Known'
<1> DEFINE w == Head(todo[p])
           new == [key |-> w.key, sig |-> w.sig, own |-> Mapper(p), by |-> p]
<1>1. /\ pc[p] = "starting" /\ active' = {r \in active : r.key # w.key} \cup {new}
      /\ live' = live /\ Goto(p, "syncing", {}, {})
      /\ early' = early /\ disposed' = disposed /\ doomed' = doomed
  BY DEF Started, history, ending
<1>2. ~ early => \A q \in Proc : pc[q] = "starting" => q = p  BY <1>1, OneSyncs
<1>3. \A q \in Proc : pc'[q] = "starting" => pc[q] = "starting" /\ q # p  BY <1>1 DEF Goto
<1>4. ASSUME ~ early', ~ disposed', NEW l \in live' PROVE l \in Recorded'
  <2>1. l \in live /\ l \in Listener /\ ~ early /\ ~ disposed  BY <1>1, <1>4 DEF Typed, Listed
  <2>2. CASE l \in Recorded
    <3>1. PICK q \in active : l = [key |-> q.key, by |-> q.by, own |-> q.own]
      BY <2>2 DEF Recorded
    <3>2. q.key # w.key  BY <1>1, <2>1 DEF Known, NotActive
    <3>3. q \in active'  BY <1>1, <3>2
    <3> QED  BY <3>1, <3>3 DEF Recorded
  <2>3. CASE OnItsWay(l)
    <3>1. l.by = p /\ l.key = w.key /\ l.own = Mapper(p)
      BY <1>2, <2>1, <2>3 DEF OnItsWay, Listener
    <3>2. new \in active' /\ new.key = w.key /\ new.by = p /\ new.own = Mapper(p)  BY <1>1
    <3>3. l = [key |-> new.key, by |-> new.by, own |-> new.own]
      BY <2>1, <3>1, <3>2 DEF Listener
    <3> HIDE DEF new
    <3> QED  BY <3>2, <3>3 DEF Recorded
  <2> QED  BY <2>1, <2>2, <2>3 DEF Known
<1>5. ~ early' => \A q \in Proc : pc'[q] # "starting"  BY <1>1, <1>2, <1>3
<1> QED  BY <1>1, <1>4, <1>5 DEF Known

LEMMA KnownKept == ASSUME InOrder, Solo, Known, Typed, [Next]_vars PROVE Known'
<1> USE DEF program, display, step, subs, commands, hooks, ending, history
<1>1. {} \in {{}, Fresh} /\ Fresh \in {{}, Fresh} /\ todo \in [Proc -> Seq(Wanted)]
  BY DEF Typed, Listed
<1>2. ASSUME pc' = pc, UNCHANGED <<todo, active, live, disposed, doomed, early>> PROVE Known'
  BY <1>2, KnownStays
\* p moves, and neither starts a subscription nor has started one.
<1>3. ASSUME NEW p \in Proc, NEW s, NEW M \in {{}, Fresh}, NEW h, Goto(p, s, M, h),
             s # "starting", pc[p] # "starting", \A q \in Proc \ {p} : todo'[q] = todo[q],
             UNCHANGED <<active, live, disposed, doomed>>, early => early'
      PROVE  Known'
  <2>1. s = "starting" <=> pc[p] = "starting"  BY <1>3
  <2>2. \A q \in Proc : q # p \/ s = "starting" => todo'[q] = todo[q]  BY <1>3
  <2>3. UNCHANGED subs /\ (disposed => disposed') /\ (~ disposed' => doomed' = doomed)  BY <1>3
  <2> QED  BY <1>3, <2>1, <2>2, <2>3, KnownMoves
<1>4. ASSUME NEW p \in Proc, NEW M \in {{}, Fresh}, NEW h, Goto(p, pc[p], M, h),
             UNCHANGED <<todo, active, live, disposed, doomed, early>>
      PROVE  Known'
  BY <1>4, KnownMoves
<1>5. ASSUME disposed', disposed \/ doomed' = doomed PROVE Known'  BY <1>5 DEF Known
<1>6. ASSUME NEW p \in Proc, Sync(p) PROVE Known'
  <2>1. CASE RemoveGone(p) \/ Replace(p)  BY <2>1, DisposeKnown DEF RemoveGone, Replace
  <2>2. CASE RemovedAll(p)  BY <1>1, <1>3, <2>2 DEF RemovedAll
  <2>3. CASE Dropped(p)
    <3>1. PICK s \in {"removing", "syncing"} : Goto(p, s, {}, {})  BY <2>3 DEF Dropped
    <3> QED  BY <1>1, <1>3, <2>3, <3>1 DEF Dropped
  <2>4. CASE Keep(p)  BY <2>4, KeepKnown
  <2>5. CASE Start(p)  BY <2>5, StartKnown
  <2>6. CASE Started(p)  BY <2>6, StartedKnown
  <2>7. CASE Synced(p)  BY <1>1, <1>3, <2>7 DEF Synced
  <2> QED  BY <1>6, <2>1, <2>2, <2>3, <2>4, <2>5, <2>6, <2>7 DEF Sync
<1>7. ASSUME NEW p \in Proc, Commands(p) PROVE Known'
  <2>1. CASE MessageCommand(p)  BY <1>1, <1>3, <2>1 DEF MessageCommand, Command
  <2>2. CASE MessageHandled(p)
    <3>1. PICK s \in {"failing", "commands"} : Goto(p, s, {}, {})  BY <2>2 DEF MessageHandled
    <3> QED  BY <1>1, <1>3, <2>2, <3>1 DEF MessageHandled
  <2>3. CASE DelayCommand(p) \/ ReleaseLift(p)  BY <1>2, <2>3 DEF DelayCommand, ReleaseLift
  <2>4. CASE DelayFires(p)
    <3>1. PICK M \in {{}, Fresh} : Goto(p, pc[p], M, {Lift(p)})  BY <2>4 DEF DelayFires
    <3> QED  BY <1>4, <2>4, <3>1 DEF DelayFires
  <2>5. CASE ExecuteCommand(p)  BY <1>1, <1>3, <2>5 DEF ExecuteCommand, Command
  <2>6. CASE Executed(p)
    <3>1. PICK M \in {{}, Fresh} : Goto(p, "commands", M, {Lift(p)})  BY <2>6 DEF Executed
    <3> QED  BY <1>1, <1>3, <2>6, <3>1 DEF Executed
  <2>7. CASE Finish(p)
    <3> DEFINE ready == {l \in live : <<l.key, l.by>> \in deferred[p] /\ ~ disposed}
               M == IF ready = {} THEN {} ELSE Fresh
               H == {l.own : l \in ready}
    <3>1. M \in {{}, Fresh} /\ Goto(p, "done", M, H)  BY <2>7 DEF Finish
    <3>2. /\ pc[p] = "commands" /\ todo' = todo
          /\ UNCHANGED <<active, live, disposed, doomed, early>>
      BY <2>7 DEF Finish
    <3> HIDE DEF M, H
    <3> QED  BY <1>3, <3>1, <3>2
  <2> QED  BY <1>7, <2>1, <2>2, <2>3, <2>4, <2>5, <2>6, <2>7 DEF Commands
<1>8. ASSUME NEW p \in Proc, Errors(p) PROVE Known'
  <2>1. /\ Goto(p, "failing", {}, {}) /\ pc[p] # "starting" /\ todo' = todo
        /\ UNCHANGED <<active, live, disposed, doomed, early>>
    BY <1>8 DEF Errors, FailStep, RenderThrows, StartThrows, ExecuteThrows
  <2> QED  BY <1>1, <1>3, <2>1
<1>9. ASSUME NEW p \in Proc, EndStep(p) \/ ApplyNothing(p) PROVE Known'
  <2>1. PICK s \in {"stepped", "done"} : Goto(p, s, {}, {})
    BY <1>9 DEF EndStep, ApplyNothing
  <2>2. pc[p] # "starting" /\ UNCHANGED <<active, live, disposed, doomed, early>>
    BY <1>9 DEF EndStep, ApplyNothing
  <2>3. \A q \in Proc \ {p} : todo'[q] = todo[q]  BY <1>1, <1>9 DEF EndStep, ApplyNothing
  <2> QED  BY <1>1, <1>3, <2>1, <2>2, <2>3
<1>10. ASSUME NEW p \in Proc, Apply(p) PROVE Known'
  <2>1. PICK s \in {"done", "removing"} : Goto(p, s, {}, {})  BY <1>10 DEF Apply
  <2> QED  BY <1>1, <1>3, <1>10, <2>1 DEF Apply
<1>11. ASSUME NEW p \in Proc, Reject(p) PROVE Known'
  <2>1. CASE p = Mount  BY <1>5, <1>11, <2>1 DEF Reject, TearDown, Known
  <2>2. CASE p # Mount  BY <1>1, <1>3, <1>11, <2>2 DEF Reject
  <2> QED  BY <2>1, <2>2
<1>12. ASSUME NEW m \in Message, BeginStep(m) PROVE Known'
  <2>1. pc[m] = "queued" /\ m \in Proc /\ todo' = todo
        /\ UNCHANGED <<active, live, disposed, doomed>>
    BY <1>12, Procs DEF BeginStep, Ready
  <2>3. early => early'  BY <1>12 DEF BeginStep
  <2>2. PICK s \in {"done", "failing", "stepping"} : Goto(m, s, {}, {})
    BY <1>12 DEF BeginStep
  <2> QED  BY <1>1, <1>3, <2>1, <2>2, <2>3
<1>13. CASE RunRelease \/ UNCHANGED vars  BY <1>2, <1>13 DEF RunRelease, vars
<1>14. CASE DisposeNext
  <2>1. disposed  BY <1>14 DEF DisposeNext, Known
  <2> QED  BY <1>5, <1>14, <2>1 DEF DisposeNext
<1>15. CASE DisposeApp  BY <1>15 DEF DisposeApp, TearDown, Known
<1>16. CASE Render  BY <1>1, <1>3, <1>16, Procs DEF Render
<1>17. CASE UserEvent  BY <1>1, <1>4, <1>17, Procs DEF UserEvent
<1>18. ASSUME NEW l \in live, Emit(l) PROVE Known'  BY <1>1, <1>4, <1>18, Procs DEF Emit
<1> QED
  BY <1>6, <1>7, <1>8, <1>9, <1>10, <1>11, <1>12, <1>13, <1>14, <1>15, <1>16, <1>17, <1>18
  DEF Next, Machine

LEMMA KnownImpliesOne ==
    ASSUME InOrder, Solo, Known, Typed
    PROVE  OneListenerPerKey
<1> SUFFICES ASSUME ~ early, ~ disposed
             PROVE  /\ \A l1, l2 \in live : l1.key = l2.key => l1 = l2
                    /\ \A l \in live :
                         \/ [key |-> l.key, by |-> l.by, own |-> l.own] \in Recorded
                         \/ pc[l.by] = "starting" /\ Head(todo[l.by]).key = l.key
  BY DEF OneListenerPerKey
<1>1. \A l \in live : /\ l = [key |-> l.key, by |-> l.by, own |-> l.own] /\ l.by \in Proc
                      /\ l \in Recorded \/ OnItsWay(l)
  BY DEF Typed, Listed, Listener, Known
<1>2. ASSUME NEW l1 \in live, NEW l2 \in live, l1.key = l2.key PROVE l1 = l2
  <2>1. CASE l1 \in Recorded /\ l2 \in Recorded
    <3>1. PICK r1 \in active : l1 = [key |-> r1.key, by |-> r1.by, own |-> r1.own]
      BY <2>1 DEF Recorded
    <3>2. PICK r2 \in active : l2 = [key |-> r2.key, by |-> r2.by, own |-> r2.own]
      BY <2>1 DEF Recorded
    <3>3. r1 = r2  BY <1>2, <3>1, <3>2 DEF Typed, Listed
    <3> QED  BY <3>1, <3>2, <3>3
  <2>2. ASSUME NEW a \in live, NEW b \in live, a.key = b.key, OnItsWay(a), b \in Recorded
        PROVE  FALSE
    <3>1. PICK r \in active : b = [key |-> r.key, by |-> r.by, own |-> r.own]
      BY <2>2 DEF Recorded
    <3>2. NotActive(a.key)  BY <1>1, <2>2 DEF Known, OnItsWay
    <3> QED  BY <2>2, <3>1, <3>2 DEF NotActive
  <2>3. CASE OnItsWay(l1) /\ OnItsWay(l2)
    <3>1. l1.by = l2.by  BY <1>1, <2>3, OneSyncs DEF OnItsWay
    <3>2. l1.own = l2.own  BY <2>3, <3>1 DEF OnItsWay
    <3> QED  BY <1>1, <1>2, <3>1, <3>2
  <2> QED  BY <1>1, <1>2, <2>1, <2>2, <2>3
<1> QED  BY <1>1, <1>2 DEF OnItsWay

\* Each key has one listener in the page, and the record that can dispose it is kept
\* or about to be (browser.ts:2987-3025).
THEOREM OneListenerAlways == Spec => []OneListenerPerKey
<1>1. Init => InOrder /\ Solo /\ Known /\ Typed
  BY InitInOrder, InitSolo, InitKnown, InitTyped
<1>2. InOrder /\ Solo /\ Known /\ Typed /\ [Next]_vars => (InOrder /\ Solo /\ Known /\ Typed)'
  BY OrderKept, SoloKept, KnownKept, PlacedKept, OwnedKept, ListedKept, BegunKept DEF Typed
<1> QED  BY <1>1, <1>2, KnownImpliesOne, PTL DEF Spec

-----------------------------------------------------------------------------
(* The callbacks that are retained.                                        *)

\* What the releases in a chain will release.
Dues(s)  == UNION {s[i].release : i \in DOMAIN s}
\* Nothing is to be released twice, and nothing by a step.
Clean(s) == /\ \A i \in DOMAIN s : s[i].step = {} \/ s[i].release = {}
            /\ \A i, j \in DOMAIN s : i # j => s[i].release \cap s[j].release = {}
\* The step of m comes before any release of a callback of V.
Waits(s, m, V) == \E i \in DOMAIN s : /\ s[i].step = {m}
                                      /\ \A j \in 1 .. i : s[j].release \cap V = {}

LEMMA OneMore ==
    ASSUME NEW s \in Seq(Item), NEW x \in Item, NEW t, t = s \o <<x>>
    PROVE  /\ t \in Seq(Item) /\ Dues(t) = Dues(s) \cup x.release
           /\ Clean(s) /\ (x.step = {} \/ x.release = {}) /\ x.release \cap Dues(s) = {} => Clean(t)
           /\ \A m, V : Waits(s, m, V) => Waits(t, m, V)
           /\ \A m, V : x.step = {m} /\ x.release = {} /\ V \cap Dues(s) = {} => Waits(t, m, V)
<1>1. PICK n \in Nat : n = Len(s)  OBVIOUS
<1>2. t \in Seq(Item) /\ Len(t) = n + 1  BY <1>1
<1>3. DOMAIN s = 1 .. n /\ DOMAIN t = 1 .. n + 1  BY <1>1, <1>2
<1>4. \A i \in 1 .. n : t[i] = s[i]  BY <1>1
<1>5. t[n + 1] = x  BY <1>1
<1>6. \A i \in 1 .. n + 1 : i \in 1 .. n \/ i = n + 1  BY <1>1
<1>7. 1 .. n \subseteq 1 .. n + 1 /\ n + 1 \in 1 .. n + 1 /\ n + 1 \notin 1 .. n
      /\ \A i \in 1 .. n : \A j \in 1 .. i : j \in 1 .. n
  BY <1>1
<1>8. Dues(t) = Dues(s) \cup x.release  BY <1>3, <1>4, <1>5, <1>6, <1>7 DEF Dues
<1>9. ASSUME Clean(s), x.step = {} \/ x.release = {}, x.release \cap Dues(s) = {}
      PROVE  Clean(t)
  <2>1. \A i \in 1 .. n : x.release \cap s[i].release = {}  BY <1>3, <1>9 DEF Dues
  <2>2. \A i \in 1 .. n + 1 : t[i].step = {} \/ t[i].release = {}
    BY <1>3, <1>4, <1>5, <1>6, <1>9 DEF Clean
  <2>3. ASSUME NEW i \in 1 .. n + 1, NEW j \in 1 .. n + 1, i # j
        PROVE  t[i].release \cap t[j].release = {}
    BY <1>3, <1>4, <1>5, <1>6, <1>9, <2>1, <2>3 DEF Clean
  <2> QED  BY <1>3, <2>2, <2>3 DEF Clean
<1>10. ASSUME NEW m, NEW V, Waits(s, m, V) PROVE Waits(t, m, V)
  <2>1. PICK i \in 1 .. n : s[i].step = {m} /\ \A j \in 1 .. i : s[j].release \cap V = {}
    BY <1>3, <1>10 DEF Waits
  <2>2. t[i].step = {m} /\ \A j \in 1 .. i : t[j].release \cap V = {}  BY <1>4, <1>7, <2>1
  <2>3. i \in DOMAIN t  BY <1>3, <1>7
  <2> QED  BY <2>2, <2>3 DEF Waits
<1>11. ASSUME NEW m, NEW V, x.step = {m}, x.release = {}, V \cap Dues(s) = {}
       PROVE  Waits(t, m, V)
  <2>1. \A j \in 1 .. n : s[j].release \cap V = {}  BY <1>3, <1>11 DEF Dues
  <2>2. \A j \in 1 .. n + 1 : t[j].release \cap V = {}  BY <1>4, <1>5, <1>6, <1>11, <2>1
  <2>3. n + 1 \in DOMAIN t  BY <1>3, <1>7
  <2> QED  BY <1>5, <1>11, <2>2, <2>3 DEF Waits
<1> QED  BY <1>2, <1>8, <1>9, <1>10, <1>11

LEMMA StepsAdded ==
    ASSUME NEW s \in Seq(Item), NEW M \in SUBSET Message, NEW t, t = s \o Steps(M)
    PROVE  /\ t \in Seq(Item) /\ Dues(t) = Dues(s) /\ (Clean(s) => Clean(t))
           /\ \A m, V : Waits(s, m, V) => Waits(t, m, V)
           /\ \A m, V : M = {m} /\ V \cap Dues(s) = {} => Waits(t, m, V)
<1>1. CASE M = {}
  <2>1. t = s  BY <1>1, NothingAdded DEF Steps
  <2> QED  BY <1>1, <2>1
<1>2. CASE M # {}
  <2> DEFINE x == [step |-> M, release |-> {}]
  <2>1. x \in Item /\ x.step = M /\ x.release = {}  BY DEF Item
  <2>2. t = s \o <<x>>  BY <1>2 DEF Steps
  <2> HIDE DEF x
  <2>3. Dues(t) = Dues(s) \cup x.release /\ x.release \cap Dues(s) = {}
    BY <2>1, <2>2, OneMore
  <2>5. t \in Seq(Item) /\ Dues(t) = Dues(s) /\ (Clean(s) => Clean(t))
    BY <2>1, <2>2, <2>3, OneMore
  <2>4. /\ \A m, V : Waits(s, m, V) => Waits(t, m, V)
        /\ \A m, V : M = {m} /\ V \cap Dues(s) = {} => Waits(t, m, V)
    BY <2>1, <2>2, OneMore
  <2> QED  BY <2>4, <2>5
<1> QED  BY <1>1, <1>2

LEMMA ReleasesAdded ==
    ASSUME NEW s \in Seq(Item), NEW H \in SUBSET Handler, NEW t, t = s \o Releases(H),
           H \cap Dues(s) = {}
    PROVE  /\ t \in Seq(Item) /\ Dues(t) = Dues(s) \cup H /\ (Clean(s) => Clean(t))
           /\ \A m, V : Waits(s, m, V) => Waits(t, m, V)
<1>1. CASE H = {}
  <2>1. t = s  BY <1>1, NothingAdded DEF Releases
  <2> QED  BY <1>1, <2>1
<1>2. CASE H # {}
  <2> DEFINE x == [step |-> {}, release |-> H]
  <2>1. x \in Item /\ x.step = {} /\ x.release = H  BY DEF Item
  <2>2. t = s \o <<x>>  BY <1>2 DEF Releases
  <2> HIDE DEF x
  <2> QED  BY <2>1, <2>2, OneMore
<1> QED  BY <1>1, <1>2

LEMMA HeadTaken ==
    ASSUME NEW s \in Seq(Item), s # <<>>, Clean(s), NEW t, t = Tail(s)
    PROVE  /\ t \in Seq(Item) /\ Clean(t) /\ Head(s) \in Item
           /\ Dues(s) = Dues(t) \cup Head(s).release /\ Dues(t) \cap Head(s).release = {}
           /\ Head(s).step # {} => Head(s).release = {}
           /\ \A m, V : Waits(s, m, V) => Head(s).release \cap V = {}
           /\ \A m, V : Waits(s, m, V) /\ Head(s).step # {m} => Waits(t, m, V)
<1>1. PICK n \in Nat : n = Len(s) /\ n > 0  BY EmptySeq
<1>2. t \in Seq(Item) /\ DOMAIN t = 1 .. n - 1 /\ DOMAIN s = 1 .. n  BY <1>1
<1>3. \A i \in 1 .. n - 1 : t[i] = s[i + 1]  BY <1>1
<1>4. Head(s) = s[1] /\ Head(s) \in Item  OBVIOUS
<1>5. \A i \in 1 .. n - 1 : i + 1 \in 1 .. n /\ i + 1 # 1  BY <1>1
<1>6. \A i \in 1 .. n : i = 1 \/ (i - 1 \in 1 .. n - 1 /\ (i - 1) + 1 = i)  BY <1>1
<1>7. 1 \in 1 .. n /\ \A i \in 1 .. n : 1 \in 1 .. i  BY <1>1
<1>8. \A i, j \in 1 .. n - 1 : i + 1 = j + 1 => i = j  BY <1>1
<1>9. Clean(t)
  <2>1. \A i \in 1 .. n - 1 : t[i].step = {} \/ t[i].release = {}
    BY <1>2, <1>3, <1>5 DEF Clean
  <2>2. ASSUME NEW i \in 1 .. n - 1, NEW j \in 1 .. n - 1, i # j
        PROVE  t[i].release \cap t[j].release = {}
    BY <1>2, <1>3, <1>5, <1>8, <2>2 DEF Clean
  <2> QED  BY <1>2, <2>1, <2>2 DEF Clean
<1>10. Dues(s) = Dues(t) \cup Head(s).release
  <2>1. Dues(s) \subseteq Dues(t) \cup Head(s).release
    <3>1. SUFFICES ASSUME NEW i \in 1 .. n, i # 1 PROVE s[i].release \subseteq Dues(t)
      BY <1>2, <1>4 DEF Dues
    <3>2. i - 1 \in 1 .. n - 1 /\ t[i - 1] = s[i]  BY <1>3, <1>6, <3>1
    <3> QED  BY <1>2, <3>2 DEF Dues
  <2>2. Head(s).release \subseteq Dues(s)  BY <1>2, <1>4, <1>7 DEF Dues
  <2>3. Dues(t) \subseteq Dues(s)
    <3>1. \A i \in 1 .. n - 1 : t[i].release \subseteq Dues(s)
      BY <1>2, <1>3, <1>5 DEF Dues
    <3> QED  BY <1>2, <3>1 DEF Dues
  <2> QED  BY <2>1, <2>2, <2>3
<1>11. Dues(t) \cap Head(s).release = {}
  <2>1. \A i \in 1 .. n - 1 : t[i].release \cap s[1].release = {}
    BY <1>2, <1>3, <1>5, <1>7 DEF Clean
  <2> QED  BY <1>2, <1>4, <2>1 DEF Dues
<1>12. Head(s).step # {} => Head(s).release = {}  BY <1>2, <1>4, <1>7 DEF Clean
<1>13. \A m, V : Waits(s, m, V) => Head(s).release \cap V = {}
  BY <1>2, <1>4, <1>7 DEF Waits
<1>14. ASSUME NEW m, NEW V, Waits(s, m, V), Head(s).step # {m} PROVE Waits(t, m, V)
  <2>1. PICK i \in 1 .. n : s[i].step = {m} /\ \A j \in 1 .. i : s[j].release \cap V = {}
    BY <1>2, <1>14 DEF Waits
  <2>2. i - 1 \in 1 .. n - 1 /\ (i - 1) + 1 = i  BY <1>4, <1>6, <1>14, <2>1
  <2>3. \A j \in 1 .. (i - 1) : j \in 1 .. n - 1 /\ j + 1 \in 1 .. i  BY <1>1
  <2>4. t[i - 1].step = {m} /\ \A j \in 1 .. (i - 1) : t[j].release \cap V = {}
    BY <1>3, <2>1, <2>2, <2>3
  <2> QED  BY <1>2, <2>2, <2>4 DEF Waits
<1> QED  BY <1>2, <1>4, <1>9, <1>10, <1>11, <1>12, <1>13, <1>14

Good == retained \ Dues(chain)

\* What is to be released is retained, and what a message that waits comes through is
\* not released before its turn.
Queue ==
    /\ Clean(chain) /\ Dues(chain) \subseteq retained
    /\ \A m \in Message : pc[m] = "queued" => via[m] \subseteq retained /\ Waits(chain, m, via[m])

LEMMA WithoutQueue ==
    ASSUME Shape, Queue, NEW p \in Proc, NEW C, C = chain \/ C = Without(p)
    PROVE  /\ C \in Seq(Item) /\ Clean(C) /\ Dues(C) = Dues(chain)
           /\ \A m \in Message : pc[m] = "queued" /\ (C = chain \/ m # p) => Waits(C, m, via[m])
<1>1. chain \in Seq(Item)  BY DEF Shape
<1>2. CASE C = chain  BY <1>1, <1>2 DEF Queue
<1>3. CASE chain # <<>> /\ Head(chain).step = {p} /\ C = Tail(chain)
  <2>1. /\ C \in Seq(Item) /\ Clean(C) /\ Head(chain).release = {}
        /\ Dues(chain) = Dues(C) \cup Head(chain).release
    BY <1>1, <1>3, HeadTaken DEF Queue
  <2>2. ASSUME NEW m \in Message, pc[m] = "queued", m # p PROVE Waits(C, m, via[m])
    <3>1. Waits(chain, m, via[m]) /\ Head(chain).step # {m}  BY <1>3, <2>2 DEF Queue
    <3> QED  BY <1>1, <1>3, <3>1, HeadTaken DEF Queue
  <2> QED  BY <1>3, <2>1, <2>2
<1> QED  BY <1>2, <1>3 DEF Without

\* p goes on, and the messages of M are dispatched through h.
LEMMA QueueSends ==
    ASSUME Shape, Queue, NEW p \in Proc, NEW s, NEW M \in {{}, Fresh}, NEW h, Goto(p, s, M, h),
           via \in [Message -> SUBSET Handler],
           NEW C, C = chain \/ (C = Without(p) /\ s \in Settled), chain' = C \o Steps(M),
           h \subseteq Good \/ M = {}, s # "queued" \/ s = pc[p], retained \subseteq retained'
    PROVE  Queue' /\ Dues(chain') = Dues(chain)
<1>1. /\ C \in Seq(Item) /\ Clean(C) /\ Dues(C) = Dues(chain)
      /\ \A m \in Message : pc[m] = "queued" /\ (C = chain \/ m # p) => Waits(C, m, via[m])
  BY WithoutQueue
<1>2. M \in SUBSET Message /\ (M # {} => \E n : M = {n})  BY DEF Fresh
<1>3. /\ Dues(chain') = Dues(C) /\ Clean(chain')
      /\ \A m, V : Waits(C, m, V) => Waits(chain', m, V)
      /\ \A m, V : M = {m} /\ V \cap Dues(C) = {} => Waits(chain', m, V)
  BY <1>1, <1>2, StepsAdded
<1>4. ASSUME NEW m \in Message, pc'[m] = "queued"
      PROVE  via'[m] \subseteq retained' /\ Waits(chain', m, via'[m])
  <2>1. CASE m \in M
    <3>1. via'[m] = h /\ M = {m}  BY <1>2, <2>1 DEF Goto
    <3>2. h \subseteq retained /\ h \cap Dues(C) = {}  BY <1>1, <2>1 DEF Good
    <3> QED  BY <1>3, <3>1, <3>2
  <2>2. CASE m \notin M
    <3>1. pc[m] = "queued" /\ (m = p => s = "queued")
      BY <1>4, <2>2, Procs DEF Goto
    <3>2. "queued" \notin Settled  BY DEF Settled
    <3>3. via'[m] = via[m] /\ (C = chain \/ m # p)  BY <2>2, <3>1, <3>2 DEF Goto
    <3>4. Waits(C, m, via[m]) /\ via[m] \subseteq retained  BY <1>1, <3>1, <3>3 DEF Queue
    <3> QED  BY <1>3, <3>3, <3>4
  <2> QED  BY <2>1, <2>2
<1>5. Dues(chain') \subseteq retained'  BY <1>1, <1>3 DEF Queue
<1> QED  BY <1>1, <1>3, <1>4, <1>5 DEF Queue

\* The callbacks of H, which nobody has released, are to be released.
LEMMA QueueReleases ==
    ASSUME Shape, Queue, NEW H \in SUBSET Handler, H \subseteq Good, chain' = chain \o Releases(H),
           via \in [Message -> SUBSET Handler], retained' = retained,
           \/ UNCHANGED <<pc, via>>
           \/ \E p \in Proc, s \in States : Goto(p, s, {}, {}) /\ s # "queued"
    PROVE  Queue' /\ Dues(chain') = Dues(chain) \cup H
<1>1. chain \in Seq(Item) /\ Clean(chain) /\ H \cap Dues(chain) = {}  BY DEF Shape, Queue, Good
<1>2. /\ Dues(chain') = Dues(chain) \cup H /\ Clean(chain')
      /\ \A m, V : Waits(chain, m, V) => Waits(chain', m, V)
  BY <1>1, ReleasesAdded
<1>3. ASSUME NEW m \in Message, pc'[m] = "queued" PROVE pc[m] = "queued" /\ via'[m] = via[m]
  <2>1. CASE UNCHANGED <<pc, via>>  BY <1>3, <2>1
  <2>2. ASSUME NEW p \in Proc, NEW s \in States, Goto(p, s, {}, {}), s # "queued"
        PROVE  pc[m] = "queued" /\ via'[m] = via[m]
    BY <1>3, <2>2, Procs DEF Goto
  <2> QED  BY <2>1, <2>2
<1>4. \A m \in Message : pc'[m] = "queued" => via'[m] \subseteq retained' /\ Waits(chain', m, via'[m])
  BY <1>2, <1>3 DEF Queue
<1>5. Dues(chain') \subseteq retained'  BY <1>2 DEF Queue, Good
<1> QED  BY <1>2, <1>4, <1>5 DEF Queue

LEMMA QueueRuns ==
    ASSUME Shape, Queue, RunRelease
    PROVE  Queue' /\ Good' = Good /\ retained' \subseteq retained /\ (stale' => stale)
<1>1. /\ chain \in Seq(Item) /\ chain # <<>> /\ Clean(chain) /\ Head(chain).step = {}
      /\ chain' = Tail(chain) /\ retained' = retained \ Head(chain).release
      /\ stale' = (stale \/ ~ Head(chain).release \subseteq retained) /\ pc' = pc /\ via' = via
  BY DEF RunRelease, Shape, Queue
<1>2. /\ Clean(chain') /\ Dues(chain) = Dues(chain') \cup Head(chain).release
      /\ Dues(chain') \cap Head(chain).release = {}
      /\ \A m, V : Waits(chain, m, V) => Head(chain).release \cap V = {}
      /\ \A m, V : Waits(chain, m, V) /\ Head(chain).step # {m} => Waits(chain', m, V)
  BY <1>1, HeadTaken
<1>3. Dues(chain) \subseteq retained /\ Head(chain).release \subseteq retained
      /\ Dues(chain') \subseteq retained'
  BY <1>1, <1>2 DEF Queue
<1>4. ASSUME NEW m \in Message, pc'[m] = "queued"
      PROVE  via'[m] \subseteq retained' /\ Waits(chain', m, via'[m])
  <2>1. via[m] \subseteq retained /\ Waits(chain, m, via[m])  BY <1>1, <1>4 DEF Queue
  <2>2. Head(chain).step # {m}  BY <1>1
  <2> QED  BY <1>1, <1>2, <2>1, <2>2
<1>5. Good' = Good  BY <1>1, <1>2, <1>3 DEF Good
<1>6. stale' => stale  BY <1>1, <1>3
<1> QED  BY <1>1, <1>2, <1>3, <1>4, <1>5, <1>6 DEF Queue

Syncing == {"removing", "dropping", "syncing", "replacing", "starting"}
Working == {"stepped", "commands", "executing", "awaiting"} \cup Syncing
Before  == {"new", "queued", "stepping"}

Entries(p) == {todo[p][i] : i \in DOMAIN todo[p]}
\* The mapper of p will map a subscription that p has still to bring in line.
Uses(p) == p # Repaint /\ pc[p] \in {"stepped"} \cup Syncing /\ todo[p] # <<>>

\* Callbacks are retained by the end of a step.
Unborn == \A p \in Proc : pc[p] \in Before => {View(p), Mapper(p), Lift(p)} \cap retained = {}

\* The frame in the page, and the one about to be.
Painted == /\ \A p \in Proc : pc[p] = "stepped" => View(p) \in Good /\ p \notin shown
           /\ \A p \in shown : View(p) \in Good /\ pc[p] \notin Before

Wished == \A p \in Proc : Uses(p) =>
              /\ Mapper(p) \in Good
              /\ Entries(p) \subseteq {want[p][i] : i \in DOMAIN want[p]}

\* The subscriptions on record.  One that p has brought in line is not to be replaced.
Fits(r, p) == \A w \in Entries(p) : w.key = r.key => w.sig = r.sig
Mapped == \A r \in active :
              /\ r.own \in Good
              /\ \E q \in Proc : /\ r.own = Mapper(q) /\ Fits(r, q)
                                /\ pc[q] \notin {"stepped", "removing", "dropping"}

\* What a disposal under way will let go.
Dropping == \A p \in Proc : \A h \in drop[p] :
                /\ h \in Good /\ pc[p] \in {"dropping", "replacing"}
                /\ \E q \in Proc : h = Mapper(q) /\ ~ Uses(q)

\* The mapper of the commands.
Lifted ==
    /\ DOMAIN cmds = Proc
    /\ \A p \in Proc :
          /\ pc[p] \in {"executing", "awaiting"} => Lift(p) \in Good
          /\ p # Repaint /\ pc[p] \in Working /\ cmds[p] # <<>> => Lift(p) \in Good
          /\ pc[p] \in Working => Lift(p) \notin retained \ Good /\ Lift(p) \notin owed
    /\ \A p \in timers : Lift(p) \in Good
    /\ \A h \in owed : h \in Good /\ \E p \in Proc : h = Lift(p)

Held == Queue /\ Unborn /\ Painted /\ Wished /\ Mapped /\ Dropping /\ Lifted

Sane == Typed /\ InOrder /\ Solo /\ Known /\ Held /\ ~ early /\ ~ disposed

LEMMA Distinct ==
    \A p, q \in Proc : /\ View(p) # Mapper(q) /\ View(p) # Lift(q) /\ Mapper(p) # Lift(q)
                       /\ (View(p) = View(q) \/ Mapper(p) = Mapper(q) \/ Lift(p) = Lift(q)) => p = q
BY DEF View, Mapper, Lift

\* One step is under way at a time, a call of render() apart.
LEMMA OneWorks ==
    ASSUME InOrder, Solo, ~ early, NEW p \in Proc, NEW q \in Proc,
           pc[p] \in Active, pc[q] \in Active, p # Repaint, q # Repaint
    PROVE  p = q
<1>1. Active \subseteq Running  BY DEF Active
<1>2. CASE p \in Message /\ q \in Message
  <2>1. Head(chain).step = {p} /\ Head(chain).step = {q}  BY <1>1, <1>2 DEF InOrder, AtHead
  <2> QED  BY <2>1
<1>3. CASE p = Mount \/ q = Mount
  <2>1. "done" \notin Active  BY DEF Active, Running
  <2>2. p \notin Message /\ q \notin Message  BY <1>3, <2>1, Procs DEF Solo, Alone
  <2> QED  BY <2>2, Procs
<1> QED  BY <1>2, <1>3, Procs

LEMMA NewOnes ==
    ASSUME Solo, NEW M \in {{}, Fresh}
    PROVE  M \subseteq {m \in Message : pc[m] = "new"}
<1>1. PICK n \in 0 .. MaxMessages : \A m \in Message : pc[m] = "new" <=> m > n
  BY DEF Solo, Numbered
<1> QED  BY <1>1, FreshIsNew

\* There is no way back from a to s.
Goes(a, s) ==
    /\ s \in Before => a \in Before
    /\ s = "stepped" => a = "stepped"
    /\ s \in {"stepped", "removing", "dropping"} => a \in {"stepped", "removing", "dropping"}
    /\ s \in {"stepped"} \cup Syncing => a \in {"stepped"} \cup Syncing

Kept == Unborn /\ Painted /\ Wished /\ Mapped /\ Dropping

\* p goes on to s, and the messages of M are dispatched.
Moved(p, s, M) ==
    /\ M \subseteq {m \in Message : pc[m] = "new"}
    /\ \A q \in Proc : pc'[q] = IF q \in M THEN "queued" ELSE IF q = p THEN s ELSE pc[q]
    /\ Goes(pc[p], s) /\ (s \in Working => pc[p] \in Working)
\* R is to be released: no subscription is mapped by what is in it, ...
Spared(R) == /\ \A q \in Proc : Uses(q)' => Mapper(q) \notin R
             /\ \A r \in active' : r.own \notin R
             /\ \A q \in Proc : drop'[q] \cap R = {}
\* ... and no frame in view.
Unseen(R) == \A q \in Proc : q \in shown' \/ pc'[q] = "stepped" => View(q) \notin R
\* A step brings the subscriptions of its list in line, until it is done with it.
Lists(p, s) ==
    \A q \in Proc :
        \/ todo'[q] = todo[q] /\ want'[q] = want[q]
        \/ /\ q = p /\ Entries(q)' \subseteq Entries(q)
           /\ s \in {"stepped"} \cup Syncing => want'[q] = want[q] /\ todo[q] # <<>>

LEMMA PaintedPasses ==
    ASSUME Typed, Painted, NEW p \in Proc, NEW s, NEW M, Moved(p, s, M),
           NEW R, Unseen(R), Good \ R \subseteq Good', shown' = shown
    PROVE  Painted'
<1>1. \A q \in M : q \in Proc /\ pc[q] \in Before  BY Procs DEF Moved, Before
<1>2. shown \subseteq Proc  BY DEF Typed, Placed, AtMostOne
<1>3. \A q \in shown : View(q) \in Good' /\ pc'[q] \notin Before
  BY <1>1, <1>2 DEF Painted, Moved, Goes, Unseen
<1>4. \A q \in Proc : pc'[q] = "stepped" => View(q) \in Good' /\ q \notin shown
  BY DEF Painted, Moved, Goes, Unseen
<1> QED  BY <1>3, <1>4 DEF Painted, Good, View

LEMMA OwnersPass ==
    ASSUME Typed, Kept, NEW p \in Proc, NEW s, NEW M, Moved(p, s, M), Lists(p, s),
           retained' \subseteq retained, NEW R, Spared(R), Good \ R \subseteq Good'
    PROVE  /\ Unborn' /\ Wished' /\ (active' \subseteq active => Mapped')
           /\ (\A q \in Proc : drop'[q] \subseteq drop[q])
              /\ (drop'[p] = {} \/ s \in {"dropping", "replacing"}) => Dropping'
<1> USE DEF Moved, Lists
<1>1. /\ Unborn /\ Painted /\ Wished /\ Mapped /\ Dropping
      /\ \A q \in M : q \in Proc /\ pc[q] = "new"
      /\ "queued" \in Before /\ "new" \in Before /\ "queued" \notin Syncing
  BY Procs DEF Kept, Before, Syncing
<1>2. Unborn'
  <2>1. \A q \in Proc : pc'[q] \in Before => pc[q] \in Before  BY <1>1 DEF Goes
  <2> QED  BY <1>1, <2>1 DEF Unborn
<1>3. \A q \in Proc : Entries(q)' \subseteq Entries(q)  BY DEF Entries
<1>4. ASSUME NEW q \in Proc, Uses(q)' PROVE Uses(q) /\ want'[q] = want[q]
  <2>1. q \notin M  BY <1>1, <1>4 DEF Uses
  <2>2. pc'[q] \in {"stepped"} \cup Syncing => pc[q] \in {"stepped"} \cup Syncing
    BY <2>1 DEF Goes
  <2>3. todo[q] # <<>> /\ want'[q] = want[q]  BY <1>4, <2>1 DEF Uses
  <2> QED  BY <1>4, <2>2, <2>3 DEF Uses
<1>5. Wished'
  <2>1. ASSUME NEW q \in Proc, Uses(q)'
        PROVE  /\ Mapper(q) \in Good'
               /\ Entries(q)' \subseteq {want'[q][i] : i \in DOMAIN want'[q]}
    <3>1. Uses(q) /\ want'[q] = want[q]  BY <1>4, <2>1
    <3>2. Mapper(q) \in Good /\ Mapper(q) \notin R  BY <1>1, <2>1, <3>1 DEF Wished, Spared
    <3>3. Entries(q)' \subseteq {want'[q][i] : i \in DOMAIN want'[q]}
      BY <1>1, <1>3, <3>1 DEF Wished
    <3> QED  BY <3>2, <3>3
  <2> QED  BY <2>1 DEF Wished, Good, Mapper
<1>6. ASSUME active' \subseteq active PROVE Mapped'
  <2>1. SUFFICES ASSUME NEW r \in active'
                 PROVE  /\ r.own \in Good'
                        /\ \E q \in Proc : /\ r.own = Mapper(q) /\ Fits(r, q)'
                                          /\ pc'[q] \notin {"stepped", "removing", "dropping"}
    BY DEF Mapped, Good, Mapper
  <2>2. r.own \in Good /\ r.own \notin R  BY <1>1, <1>6 DEF Mapped, Spared
  <2>3. PICK q \in Proc : /\ r.own = Mapper(q) /\ Fits(r, q)
                          /\ pc[q] \notin {"stepped", "removing", "dropping"}
    BY <1>1, <1>6 DEF Mapped
  <2>4. pc'[q] \notin {"stepped", "removing", "dropping"}  BY <2>3 DEF Goes
  <2>5. Fits(r, q)'  BY <1>3, <2>3 DEF Fits
  <2> QED  BY <2>2, <2>3, <2>4, <2>5
<1>7. ASSUME \A q \in Proc : drop'[q] \subseteq drop[q],
             drop'[p] = {} \/ s \in {"dropping", "replacing"}
      PROVE  Dropping'
  <2>1. SUFFICES ASSUME NEW q \in Proc, NEW h \in drop'[q]
                 PROVE  /\ h \in Good' /\ pc'[q] \in {"dropping", "replacing"}
                        /\ \E k \in Proc : h = Mapper(k) /\ ~ Uses(k)'
    BY DEF Dropping, Good, Mapper
  <2>2. h \in Good /\ pc[q] \in {"dropping", "replacing"}  BY <1>1, <1>7 DEF Dropping
  <2>3. PICK k \in Proc : h = Mapper(k) /\ ~ Uses(k)  BY <1>1, <1>7 DEF Dropping
  <2>4. q \notin M /\ h \notin R  BY <1>1, <2>2 DEF Spared
  <2>5. pc'[q] \in {"dropping", "replacing"}  BY <1>7, <2>2, <2>4
  <2> QED  BY <1>4, <2>2, <2>3, <2>4, <2>5
<1> QED  BY <1>2, <1>5, <1>6, <1>7

\* The commands and what is owed after them.  No command is under way whose mapper is in R.
Ordered(p, s) ==
    /\ DOMAIN cmds' = Proc /\ \A q \in Proc \ {p} : cmds'[q] = cmds[q]
    /\ s \in {"executing", "awaiting"} => Lift(p) \in Good
    /\ p # Repaint /\ s \in Working /\ cmds'[p] # <<>> => Lift(p) \in Good
    /\ timers' \subseteq Proc /\ \A q \in timers' : q \in timers \/ Lift(q) \in Good
    /\ \A h \in owed' : h \in owed \/ (h = Lift(p) /\ h \in Good /\ s \notin Working)
Over(R) == \A q \in Proc : Lift(q) \in R =>
              pc'[q] \notin Working /\ q \notin timers' /\ Lift(q) \notin owed'

LEMMA LiftsPass ==
    ASSUME Typed, Lifted, NEW p \in Proc, NEW s, NEW M, Moved(p, s, M), Ordered(p, s),
           retained' \subseteq retained, NEW R, Over(R), Good' = Good \ R
    PROVE  Lifted'
<1> USE DEF Moved, Ordered, Over
<1>1. /\ "queued" \notin Working /\ {"executing", "awaiting"} \subseteq Working
      /\ \A q \in Proc : pc'[q] \in Working => pc[q] \in Working
  BY DEF Working, Syncing
<1>2. ASSUME NEW q \in Proc, pc'[q] \in Working
      PROVE  /\ pc'[q] \in {"executing", "awaiting"} => Lift(q) \in Good'
             /\ q # Repaint /\ cmds'[q] # <<>> => Lift(q) \in Good'
             /\ Lift(q) \notin retained' \ Good' /\ Lift(q) \notin owed'
  <2>1. Lift(q) \notin R /\ pc[q] \in Working /\ q \notin M  BY <1>1, <1>2
  <2>2. Lift(q) \notin retained \ Good /\ Lift(q) \notin owed  BY <2>1 DEF Lifted
  <2>3. Lift(q) \notin owed'
    <3>1. CASE q = p  BY <1>2, <2>1, <2>2, <3>1
    <3>2. CASE q # p  BY <2>2, <3>2, Distinct
    <3> QED  BY <3>1, <3>2
  <2>4. pc'[q] \in {"executing", "awaiting"} => Lift(q) \in Good  BY <2>1 DEF Lifted
  <2>5. q # Repaint /\ cmds'[q] # <<>> => Lift(q) \in Good
    <3>1. CASE q = p  BY <1>2, <2>1, <3>1
    <3>2. CASE q # p  BY <2>1, <3>2 DEF Lifted
    <3> QED  BY <3>1, <3>2
  <2> QED  BY <2>1, <2>2, <2>3, <2>4, <2>5
<1>3. \A q \in timers' : Lift(q) \in Good'  BY DEF Lifted
<1>4. ASSUME NEW h \in owed' PROVE h \in Good' /\ \E q \in Proc : h = Lift(q)
  <2>1. PICK q \in Proc : h = Lift(q)  BY <1>4 DEF Lifted
  <2>2. h \in Good /\ h \notin R  BY <1>4, <2>1 DEF Lifted
  <2> QED  BY <2>1, <2>2
<1> QED  BY <1>1, <1>2, <1>3, <1>4 DEF Lifted, Lift, Good

\* p goes on or settles, the messages of M are dispatched, and what it is that keeps a
\* callback does not change, but for the commands.
LEMMA SendsHeld ==
    ASSUME Sane, NEW p \in Proc, NEW s, NEW M \in {{}, Fresh}, NEW h, Goto(p, s, M, h),
           NEW C, C = chain \/ (C = Without(p) /\ s \in Settled), chain' = C \o Steps(M),
           h \subseteq Good \/ M = {}, s # "queued" \/ s = pc[p],
           Goes(pc[p], s), s \in Working => pc[p] \in Working,
           pc[p] \in {"dropping", "replacing"} => s = pc[p],
           UNCHANGED <<retained, shown, active, drop>>, Lists(p, s), Ordered(p, s)
    PROVE  Held'
<1>1. /\ Typed /\ Shape /\ Queue /\ Kept /\ Lifted /\ via \in [Message -> SUBSET Handler]
      /\ M \subseteq {m \in Message : pc[m] = "new"}
  BY NewOnes DEF Sane, Held, Kept, InOrder, Typed, Owned
<1>2. Queue' /\ Dues(chain') = Dues(chain)  BY <1>1, QueueSends
<1>3. /\ Good' = Good /\ retained' \subseteq retained /\ UNCHANGED <<shown, active, drop>>
  BY <1>2 DEF Good
<1>4. Moved(p, s, M)  BY <1>1 DEF Goto, Moved
<1> DEFINE R == {}
<1>5. /\ Good \ R \subseteq Good' /\ Good' = Good \ R /\ Spared(R) /\ Unseen(R) /\ Over(R)
  BY <1>3 DEF Spared, Unseen, Over
<1> HIDE DEF R
<1>6. Kept'
  <2>1. Painted'  BY <1>1, <1>3, <1>4, <1>5, PaintedPasses DEF Kept
  <2>2. \A q \in Proc : drop'[q] \subseteq drop[q]  BY <1>3
  <2>3. drop'[p] = {} \/ s \in {"dropping", "replacing"}
    BY <1>1, <1>3 DEF Kept, Dropping
  <2>4. Unborn' /\ Wished' /\ Mapped' /\ Dropping'
    BY <1>1, <1>3, <1>4, <1>5, <2>2, <2>3, OwnersPass
  <2> QED  BY <2>1, <2>4 DEF Kept
<1>7. Lifted'  BY <1>1, <1>3, <1>4, <1>5, LiftsPass
<1> QED  BY <1>2, <1>6, <1>7 DEF Held, Kept

\* R is to be released, which nothing uses, and nobody moves but p, which fails.
LEMMA ReleasesHeld ==
    ASSUME Sane, NEW p \in Proc, NEW s \in States, NEW R \in SUBSET Handler, R \subseteq Good,
           chain' = chain \o Releases(R),
           \/ UNCHANGED <<pc, via>> /\ s = pc[p]
           \/ Goto(p, s, {}, {}) /\ s \notin {"queued"} \cup Working,
           Goes(pc[p], s), pc[p] \in {"dropping", "replacing"} => s = pc[p],
           UNCHANGED <<retained, shown, active, drop, todo, want, cmds, timers>>,
           owed' \subseteq owed, Spared(R), Unseen(R), Over(R)
    PROVE  Held'
<1>1. /\ Typed /\ Shape /\ Queue /\ Kept /\ Lifted /\ via \in [Message -> SUBSET Handler]
      /\ timers \subseteq Proc
  BY DEF Sane, Held, Kept, InOrder, Typed, Owned, Placed
<1>2. Queue' /\ Dues(chain') = Dues(chain) \cup R  BY <1>1, QueueReleases
<1>3. /\ Good' = Good \ R /\ Good \ R \subseteq Good' /\ retained' \subseteq retained
      /\ UNCHANGED <<shown, active, drop>>
  BY <1>2 DEF Good
<1>4. Moved(p, s, {})  BY DEF Goto, Moved
<1>5. Lists(p, s) /\ Ordered(p, s)
  BY <1>1 DEF Lists, Ordered, Lifted, Working
<1>6. Kept'
  <2>1. Painted'  BY <1>1, <1>3, <1>4, PaintedPasses DEF Kept
  <2>2. \A q \in Proc : drop'[q] \subseteq drop[q]  BY <1>3
  <2>3. drop'[p] = {} \/ s \in {"dropping", "replacing"}
    BY <1>1, <1>3 DEF Kept, Dropping
  <2>4. Unborn' /\ Wished' /\ Mapped' /\ Dropping'
    BY <1>1, <1>3, <1>4, <1>5, <2>2, <2>3, OwnersPass
  <2> QED  BY <2>1, <2>4 DEF Kept
<1>7. Lifted'  BY <1>1, <1>3, <1>4, <1>5, LiftsPass
<1> QED  BY <1>2, <1>6, <1>7 DEF Held, Kept

-----------------------------------------------------------------------------
(* The actions that change nothing of what keeps a callback.               *)

LEMMA SameLists == ASSUME UNCHANGED <<todo, want>>, NEW p, NEW s PROVE Lists(p, s)
BY DEF Lists

LEMMA SameOrders ==
    ASSUME Sane, UNCHANGED <<cmds, timers, owed>>, NEW p \in Proc, NEW s,
           s \in Working => pc[p] \in Working, s \notin {"executing", "awaiting"} \/ s = pc[p]
    PROVE  Ordered(p, s)
BY DEF Ordered, Sane, Held, Lifted, Typed, Placed

LEMMA NothingSent ==
    ASSUME Sane, NEW p \in Proc
    PROVE  /\ {} \in {{}, Fresh} /\ Fresh \in {{}, Fresh}
           /\ chain = chain \o Steps({}) /\ Without(p) = Without(p) \o Steps({})
<1>1. chain \in Seq(Item) /\ Without(p) \in Seq(Item)
  BY WithoutTyped DEF Sane, InOrder, Shape
<1> QED  BY <1>1, NothingAdded DEF Steps

LEMMA StaysPut ==
    ASSUME Sane, NEW p \in Proc, pc[p] \notin Settled, UNCHANGED <<pc, via>>
    PROVE  Goto(p, pc[p], {}, {})
<1>1. pc \in [Proc -> States] /\ via \in [Message -> SUBSET Handler]
  BY DEF Sane, InOrder, Shape, Typed, Owned
<1> QED  BY <1>1 DEF Goto

\* What a listener is mapped by is retained.
LEMMA LiveSafe == ASSUME Sane PROVE \A l \in live : l.own \in Good
<1> SUFFICES ASSUME NEW l \in live PROVE l.own \in Good  OBVIOUS
<1>1. Typed /\ Solo /\ Known /\ Mapped /\ Wished /\ ~ early /\ ~ disposed
  BY DEF Sane, Held
<1>2. CASE l \in Recorded
  <2>1. PICK r \in active : l = [key |-> r.key, by |-> r.by, own |-> r.own]
    BY <1>2 DEF Recorded
  <2> QED  BY <1>1, <2>1 DEF Mapped
<1>3. CASE OnItsWay(l)
  <2>1. l.by \in Proc /\ pc[l.by] = "starting" /\ l.own = Mapper(l.by)
    BY <1>1, <1>3 DEF OnItsWay, Typed, Listed, Listener
  <2>2. Uses(l.by)  BY <1>1, <2>1 DEF Uses, Syncing, Solo, Apart, Typed, Begun
  <2> QED  BY <1>1, <2>1, <2>2 DEF Wished
<1> QED  BY <1>1, <1>2, <1>3 DEF Known

LEMMA SyncHeld ==
    ASSUME Sane, NEW p \in Proc, RemovedAll(p) \/ Start(p) \/ Synced(p)
    PROVE  Held'
<1> USE DEF program, display, step, subs, commands, hooks, ending, history
<1>1. CASE RemovedAll(p)
  <2>1. /\ Goto(p, "syncing", {}, {}) /\ pc[p] = "removing" /\ chain' = chain
        /\ UNCHANGED <<retained, shown, active, drop, todo, want, cmds, timers, owed>>
    BY <1>1 DEF RemovedAll
  <2>2. /\ Goes(pc[p], "syncing") /\ "syncing" \in Working /\ pc[p] \in Working
        /\ Lists(p, "syncing") /\ Ordered(p, "syncing")
    BY <2>1, SameLists, SameOrders DEF Goes, Before, Syncing, Working
  <2> QED  BY <2>1, <2>2, NothingSent, SendsHeld
<1>2. CASE Synced(p)
  <2>1. /\ Goto(p, "commands", {}, {}) /\ pc[p] = "syncing" /\ chain' = chain
        /\ want' = [want EXCEPT ![p] = <<>>]
        /\ UNCHANGED <<retained, shown, active, drop, todo, cmds, timers, owed>>
    BY <1>2 DEF Synced
  <2>2. /\ Goes(pc[p], "commands") /\ pc[p] \in Working /\ Ordered(p, "commands")
    BY <2>1, SameOrders DEF Goes, Before, Syncing, Working
  <2>3. Lists(p, "commands")
    <3>1. want \in [Proc -> Configs \cup {<<>>}] /\ "commands" \notin {"stepped"} \cup Syncing
      BY DEF Sane, Typed, Listed, Syncing
    <3> QED  BY <2>1, <3>1 DEF Lists, Entries
  <2> QED  BY <2>1, <2>2, <2>3, NothingSent, SendsHeld
<1>3. CASE Start(p)
  <2>1. PICK M \in {{}, Fresh} : Goto(p, "starting", M, {Mapper(p)}) /\ chain' = chain \o Steps(M)
    BY <1>3 DEF Start
  <2>2. /\ pc[p] = "syncing" /\ todo[p] # <<>>
        /\ UNCHANGED <<retained, shown, active, drop, todo, want, cmds, timers, owed>>
    BY <1>3 DEF Start
  <2>3. /\ Goes(pc[p], "starting") /\ pc[p] \in Working
        /\ Lists(p, "starting") /\ Ordered(p, "starting")
    BY <2>2, SameLists, SameOrders DEF Goes, Before, Syncing, Working
  <2>4. {Mapper(p)} \subseteq Good
    BY <2>2 DEF Sane, Held, Wished, Uses, Syncing, Solo, Apart
  <2> QED  BY <2>1, <2>2, <2>3, <2>4, SendsHeld
<1> QED  BY <1>1, <1>2, <1>3

LEMMA CommandsHeld ==
    ASSUME Sane, NEW p \in Proc, Commands(p), ~ ReleaseLift(p)
    PROVE  Held'
<1> USE DEF program, display, step, subs, commands, hooks, ending, history
<1>1. /\ Lifted /\ DOMAIN cmds = Proc /\ timers \subseteq Proc
      /\ "awaiting" \in Working /\ "executing" \in Working /\ "commands" \in Working
      /\ \A a \in {"awaiting", "executing", "commands"}, s \in {"awaiting", "executing", "commands", "failing", "done"} :
            Goes(a, s)
      /\ "failing" \notin Working /\ "done" \notin Working
      /\ pc[p] \in {"awaiting", "executing", "commands"} => p # Repaint
  BY DEF Sane, Held, Lifted, Typed, Placed, Working, Goes, Before, Syncing, Solo, Apart
<1>2. \A q \in timers : Lift(q) \in Good  BY <1>1 DEF Lifted
\* One command less.
<1>3. ASSUME pc[p] = "commands", cmds[p] # <<>>, Advance(p), owed' = owed, timers' \subseteq timers \cup {p},
             NEW s \in {"awaiting", "executing", "commands"}
      PROVE  Ordered(p, s)
  <2>1. Lift(p) \in Good  BY <1>1, <1>3 DEF Lifted
  <2>2. DOMAIN cmds' = Proc /\ \A q \in Proc \ {p} : cmds'[q] = cmds[q]
    BY <1>1, <1>3 DEF Advance
  <2> QED  BY <1>1, <1>3, <2>1, <2>2 DEF Ordered
<1>4. CASE MessageCommand(p)
  <2>1. /\ Goto(p, "awaiting", Fresh, {Lift(p)}) /\ chain' = chain \o Steps(Fresh)
        /\ pc[p] = "commands" /\ cmds[p] # <<>> /\ Advance(p)
        /\ UNCHANGED <<retained, shown, active, drop, todo, want, timers, owed>>
    BY <1>4 DEF MessageCommand, Command
  <2>2. {Lift(p)} \subseteq Good  BY <1>1, <2>1 DEF Lifted
  <2>3. Ordered(p, "awaiting") /\ Lists(p, "awaiting") /\ Goes(pc[p], "awaiting")
    BY <1>1, <1>3, <2>1, SameLists
  <2> QED  BY <1>1, <2>1, <2>2, <2>3, NothingSent, SendsHeld
<1>5. CASE MessageHandled(p)
  <2>1. PICK s \in {"failing", "commands"} :
          /\ Goto(p, s, {}, {}) /\ (s = "commands" => owed' = owed)
          /\ owed' \subseteq owed \cup {Lift(p)}
    BY <1>5 DEF MessageHandled
  <2>2. /\ chain' = chain /\ pc[p] = "awaiting"
        /\ UNCHANGED <<retained, shown, active, drop, todo, want, cmds, timers>>
    BY <1>5 DEF MessageHandled
  <2>3. Lift(p) \in Good  BY <1>1, <2>2 DEF Lifted
  <2>4. Ordered(p, s) /\ Lists(p, s) /\ Goes(pc[p], s)
    BY <1>1, <2>1, <2>2, <2>3, SameLists DEF Ordered
  <2> QED  BY <1>1, <2>1, <2>2, <2>4, NothingSent, SendsHeld
<1>6. CASE DelayCommand(p)
  <2>1. /\ pc[p] = "commands" /\ cmds[p] # <<>> /\ Advance(p) /\ timers' = timers \cup {p}
        /\ UNCHANGED <<pc, via, chain, retained, shown, active, drop, todo, want, owed>>
    BY <1>6 DEF DelayCommand, Command
  <2>2. Goto(p, "commands", {}, {})  BY <2>1, StaysPut DEF Settled
  <2>3. Ordered(p, "commands") /\ Lists(p, "commands") /\ Goes(pc[p], "commands")
    BY <1>1, <1>3, <2>1, SameLists
  <2> QED  BY <1>1, <2>1, <2>2, <2>3, NothingSent, SendsHeld
<1>7. CASE DelayFires(p)
  <2>1. PICK M \in {{}, Fresh} : Goto(p, pc[p], M, {Lift(p)}) /\ chain' = chain \o Steps(M)
    BY <1>7 DEF DelayFires
  <2>2. /\ p \in timers /\ timers' = timers \ {p}
        /\ UNCHANGED <<retained, shown, active, drop, todo, want, cmds, owed>>
    BY <1>7 DEF DelayFires
  <2>3. {Lift(p)} \subseteq Good  BY <1>2, <2>2
  <2>4. Ordered(p, pc[p])  BY <1>1, <2>2 DEF Ordered, Lifted
  <2>5. Lists(p, pc[p]) /\ Goes(pc[p], pc[p])  BY <2>2, SameLists DEF Goes
  <2> QED  BY <2>1, <2>2, <2>3, <2>4, <2>5, SendsHeld
<1>8. CASE ExecuteCommand(p)
  <2>1. /\ Goto(p, "executing", {}, {}) /\ chain' = chain
        /\ pc[p] = "commands" /\ cmds[p] # <<>> /\ Advance(p)
        /\ UNCHANGED <<retained, shown, active, drop, todo, want, timers, owed>>
    BY <1>8 DEF ExecuteCommand, Command
  <2>3. Ordered(p, "executing") /\ Lists(p, "executing") /\ Goes(pc[p], "executing")
    BY <1>1, <1>3, <2>1, SameLists
  <2> QED  BY <1>1, <2>1, <2>3, NothingSent, SendsHeld
<1>9. CASE Executed(p)
  <2>1. PICK M \in {{}, Fresh} : Goto(p, "commands", M, {Lift(p)}) /\ chain' = chain \o Steps(M)
    BY <1>9 DEF Executed
  <2>2. /\ pc[p] = "executing"
        /\ UNCHANGED <<retained, shown, active, drop, todo, want, cmds, timers, owed>>
    BY <1>9 DEF Executed
  <2>3. {Lift(p)} \subseteq Good  BY <1>1, <2>2 DEF Lifted
  <2>4. Ordered(p, "commands") /\ Lists(p, "commands") /\ Goes(pc[p], "commands")
    BY <1>1, <2>2, SameLists, SameOrders
  <2> QED  BY <1>1, <2>1, <2>2, <2>3, <2>4, SendsHeld
<1>10. CASE Finish(p)
  <2> DEFINE ready == {l \in live : <<l.key, l.by>> \in deferred[p] /\ ~ disposed}
             M == IF ready = {} THEN {} ELSE Fresh
             H == {l.own : l \in ready}
  <2>1. M \in {{}, Fresh} /\ Goto(p, "done", M, H) /\ chain' = Without(p) \o Steps(M)
    BY <1>10 DEF Finish
  <2>2. /\ pc[p] = "commands" /\ owed' = owed \cup ({Lift(p)} \cap retained)
        /\ UNCHANGED <<retained, shown, active, drop, todo, want, cmds, timers>>
    BY <1>10 DEF Finish
  <2>3. H \subseteq Good  BY LiveSafe
  <2> HIDE DEF M, H
  <2>4. Lift(p) \in retained => Lift(p) \in Good  BY <1>1, <2>2 DEF Lifted
  <2>5. Ordered(p, "done") /\ Lists(p, "done") /\ Goes(pc[p], "done")
    BY <1>1, <2>2, <2>4, SameLists DEF Ordered
  <2>6. "done" \in Settled  BY DEF Settled
  <2> QED  BY <1>1, <2>1, <2>2, <2>3, <2>5, <2>6, SendsHeld
<1> QED
  BY <1>4, <1>5, <1>6, <1>7, <1>8, <1>9, <1>10 DEF Commands

LEMMA ReleaseLiftHeld == ASSUME Sane, NEW p \in Proc, ReleaseLift(p) PROVE Held'
<1>1. /\ Lift(p) \in owed /\ p \notin timers /\ owed' = owed \ {Lift(p)}
      /\ chain' = chain \o Releases({Lift(p)})
      /\ UNCHANGED <<pc, via, retained, shown, active, drop, todo, want, cmds, timers>>
  BY DEF ReleaseLift, LastUse, program, display, step, subs, hooks, ending, history
<1>2. {Lift(p)} \subseteq Good /\ {Lift(p)} \in SUBSET Handler /\ pc[p] \in States
  BY <1>1, Handlers DEF Sane, Held, Lifted, InOrder, Shape
<1>3. pc[p] \notin Working  BY <1>1 DEF Sane, Held, Lifted
<1>4. Spared({Lift(p)}) /\ Unseen({Lift(p)}) /\ Over({Lift(p)}) /\ Goes(pc[p], pc[p])
  <2>1. \A q \in Proc : Mapper(q) # Lift(p) /\ View(q) # Lift(p) /\ (Lift(q) = Lift(p) => q = p)
    BY Distinct
  <2>2. /\ \A r \in active' : \E q \in Proc : r.own = Mapper(q)
        /\ \A k \in Proc : \A h \in drop'[k] : \E q \in Proc : h = Mapper(q)
    BY <1>1 DEF Sane, Held, Mapped, Dropping
  <2> QED  BY <1>1, <1>3, <2>1, <2>2 DEF Spared, Unseen, Over, Goes
<1> QED  BY <1>1, <1>2, <1>4, ReleasesHeld

LEMMA ErrorsHeld == ASSUME Sane, NEW p \in Proc, Errors(p) PROVE Held'
<1> USE DEF program, display, step, subs, commands, hooks, ending, history
<1>1. /\ "failing" \notin Working /\ "failing" \in States /\ "failing" # "queued"
      /\ \A a \in {"stepping", "stepped", "syncing", "executing"} : Goes(a, "failing")
  BY DEF Working, Syncing, Goes, Before, States, Running
<1>2. CASE FailStep(p) \/ StartThrows(p)
  <2>1. /\ Goto(p, "failing", {}, {}) /\ pc[p] \in {"stepping", "syncing"} /\ chain' = chain
        /\ UNCHANGED <<retained, shown, active, drop, todo, want, cmds, timers, owed>>
    BY <1>2 DEF FailStep, StartThrows
  <2>2. Lists(p, "failing") /\ Ordered(p, "failing")  BY <1>1, <2>1, SameLists, SameOrders
  <2> QED  BY <1>1, <2>1, <2>2, NothingSent, SendsHeld
<1>3. CASE RenderThrows(p)
  <2>1. /\ Goto(p, "failing", {}, {}) /\ pc[p] = "stepped" /\ chain' = chain \o Releases({View(p)})
        /\ UNCHANGED <<retained, shown, active, drop, todo, want, cmds, timers, owed>>
    BY <1>3 DEF RenderThrows
  <2>2. View(p) \in Good /\ p \notin shown /\ {View(p)} \in SUBSET Handler
    BY <2>1, Handlers DEF Sane, Held, Painted
  <2>3. Spared({View(p)}) /\ Unseen({View(p)}) /\ Over({View(p)})
    <3>1. \A q \in Proc : Mapper(q) # View(p) /\ Lift(q) # View(p) /\ (View(q) = View(p) => q = p)
      BY Distinct
    <3>2. \A q \in Proc : pc'[q] = "stepped" => q # p  BY <2>1 DEF Goto
    <3>3. /\ \A r \in active' : \E q \in Proc : r.own = Mapper(q)
          /\ \A k \in Proc : \A h \in drop'[k] : \E q \in Proc : h = Mapper(q)
      BY <2>1 DEF Sane, Held, Mapped, Dropping
    <3> QED  BY <2>1, <2>2, <3>1, <3>2, <3>3 DEF Spared, Unseen, Over
  <2>4. {View(p)} \subseteq Good /\ owed' \subseteq owed  BY <2>1, <2>2
  <2> QED  BY <1>1, <2>1, <2>2, <2>3, <2>4, ReleasesHeld
<1>4. CASE ExecuteThrows(p)
  <2>1. /\ Goto(p, "failing", {}, {}) /\ pc[p] = "executing" /\ chain' = chain
        /\ owed' = owed \cup {Lift(p)}
        /\ UNCHANGED <<retained, shown, active, drop, todo, want, cmds, timers>>
    BY <1>4 DEF ExecuteThrows
  <2>2. Lift(p) \in Good /\ Lifted /\ timers \subseteq Proc
    BY <2>1 DEF Sane, Held, Lifted, Typed, Placed
  <2>3. Ordered(p, "failing")  BY <1>1, <2>1, <2>2 DEF Ordered, Lifted
  <2> QED  BY <1>1, <2>1, <2>3, SameLists, NothingSent, SendsHeld
<1> QED  BY <1>2, <1>3, <1>4 DEF Errors

LEMMA BeginStepHeld == ASSUME Sane, NEW m \in Message, BeginStep(m) PROVE Held'
<1>1. /\ pc[m] = "queued" /\ m \in Proc
      /\ UNCHANGED <<retained, shown, active, drop, todo, want, cmds, timers, owed>>
  BY Procs DEF BeginStep, Ready, display, step, subs, commands
<1>2. PICK s \in {"failing", "stepping"} : Goto(m, s, {}, {}) /\ chain' = chain
  BY DEF BeginStep, Sane
<1>3. Goes(pc[m], s) /\ s \notin Working  BY <1>1 DEF Goes, Before, Working, Syncing
<1>4. Lists(m, s) /\ Ordered(m, s)  BY <1>1, <1>2, <1>3, SameLists, SameOrders
<1> QED  BY <1>1, <1>2, <1>3, <1>4, NothingSent, SendsHeld

LEMMA RejectHeld == ASSUME Sane, NEW p \in Proc, Reject(p), ~ disposed' PROVE Held'
<1>1. p # Mount  BY DEF Reject, TearDown
<1>2. /\ pc[p] = "failing" /\ Goto(p, "failed", {}, {}) /\ chain' = Without(p)
      /\ UNCHANGED <<retained, shown, active, drop, timers, owed>>
      /\ todo' = [todo EXCEPT ![p] = <<>>] /\ want' = [want EXCEPT ![p] = <<>>]
      /\ cmds' = [cmds EXCEPT ![p] = <<>>]
  BY <1>1 DEF Reject, display
<1>3. Goes(pc[p], "failed") /\ "failed" \notin Working /\ "failed" \in Settled
      /\ "failed" \notin {"stepped"} \cup Syncing
  BY <1>2 DEF Goes, Before, Working, Syncing, Settled
<1>4. Lists(p, "failed")
  <2>1. todo \in [Proc -> Seq(Wanted)] /\ want \in [Proc -> Configs \cup {<<>>}]
    BY DEF Sane, Typed, Listed
  <2>2. \A q \in Proc \ {p} : todo'[q] = todo[q] /\ want'[q] = want[q]  BY <1>2, <2>1
  <2>3. todo'[p] = <<>>  BY <1>2, <2>1
  <2>4. Entries(p)' \subseteq Entries(p)  BY <2>3 DEF Entries
  <2> QED  BY <1>3, <2>2, <2>4 DEF Lists
<1>5. Ordered(p, "failed")
  <2>1. Lifted /\ timers \subseteq Proc  BY DEF Sane, Held, Typed, Placed
  <2> QED  BY <1>2, <1>3, <2>1 DEF Ordered, Lifted
<1> QED  BY <1>2, <1>3, <1>4, <1>5, NothingSent, SendsHeld

LEMMA InputHeld ==
    ASSUME Sane, UserEvent \/ \E l \in live : Emit(l)
    PROVE  Held'
<1>1. /\ chain' = chain \o Steps(Fresh)
      /\ UNCHANGED <<retained, shown, active, drop, todo, want, cmds, timers, owed>>
  BY DEF UserEvent, Emit, display, step, subs, commands
<1>2. PICK h \in SUBSET Good : Goto(Mount, pc[Mount], Fresh, h)
  <2>1. CASE UserEvent
    <3>1. PICK h \in {{View(p)} : p \in shown} \cup {{}} : Goto(Mount, pc[Mount], Fresh, h)
      BY <2>1 DEF UserEvent
    <3>2. h \in SUBSET Good  BY <3>1 DEF Sane, Held, Painted
    <3> QED  BY <3>1, <3>2
  <2>2. CASE \E l \in live : Emit(l)  BY <2>2, LiveSafe DEF Emit
  <2> QED  BY <2>1, <2>2
<1>3. /\ Goes(pc[Mount], pc[Mount]) /\ Lists(Mount, pc[Mount]) /\ Ordered(Mount, pc[Mount])
  BY <1>1, Procs, SameLists, SameOrders DEF Goes
<1> QED  BY <1>1, <1>2, <1>3, Procs, NothingSent, SendsHeld

LEMMA RunReleaseHeld == ASSUME Sane, RunRelease PROVE Held'
<1>1. /\ Shape /\ Queue /\ Kept /\ Lifted /\ Typed /\ Mount \in Proc
  BY Procs DEF Sane, Held, Kept, InOrder
<1>2. Queue' /\ Good' = Good /\ retained' \subseteq retained  BY <1>1, QueueRuns
<1>3. UNCHANGED <<pc, shown, active, drop, todo, want, cmds, timers, owed>>
  BY DEF RunRelease, display, step, subs, commands
<1>4. Moved(Mount, pc[Mount], {})  BY <1>3 DEF Moved, Goes
<1>5. Lists(Mount, pc[Mount]) /\ Ordered(Mount, pc[Mount])
  BY <1>1, <1>3, SameLists, SameOrders
<1> DEFINE R == {}
<1>6. Good \ R \subseteq Good' /\ Good' = Good \ R /\ Spared(R) /\ Unseen(R) /\ Over(R)
  BY <1>2 DEF Spared, Unseen, Over
<1> HIDE DEF R
<1>7. Kept'
  <2>1. Painted'  BY <1>1, <1>2, <1>3, <1>4, <1>6, PaintedPasses DEF Kept
  <2>2. \A q \in Proc : drop'[q] \subseteq drop[q]  BY <1>3
  <2>3. drop'[Mount] = {} \/ pc[Mount] \in {"dropping", "replacing"}
    BY <1>1, <1>3 DEF Kept, Dropping
  <2>4. Unborn' /\ Wished' /\ Mapped' /\ Dropping'
    BY <1>1, <1>2, <1>3, <1>4, <1>5, <1>6, <2>2, <2>3, OwnersPass
  <2> QED  BY <2>1, <2>4 DEF Kept
<1>8. Lifted'  BY <1>1, <1>2, <1>4, <1>5, <1>6, LiftsPass
<1> QED  BY <1>2, <1>7, <1>8 DEF Held, Kept

-----------------------------------------------------------------------------
(* The actions that retain or take over callbacks.                         *)

\* p goes on, and nothing is dispatched or released.
LEMMA QueueWaits ==
    ASSUME Queue, NEW p \in Proc, NEW s, s # "queued", Goto(p, s, {}, {}), chain' = chain,
           retained \subseteq retained', via \in [Message -> SUBSET Handler]
    PROVE  Queue' /\ Dues(chain') = Dues(chain)
<1>1. ASSUME NEW m \in Message, pc'[m] = "queued"
      PROVE  via'[m] \subseteq retained' /\ Waits(chain', m, via'[m])
  <2>1. m # p /\ pc[m] = "queued" /\ via'[m] = via[m]  BY <1>1, Procs DEF Goto
  <2> QED  BY <2>1 DEF Queue
<1> QED  BY <1>1 DEF Queue

\* The program's answer retains the callbacks of N, and nobody has had them before.
LEMMA BornHeld ==
    ASSUME Sane, NEW p \in Proc, pc[p] \in Before, Goto(p, "stepped", {}, {}), chain' = chain,
           NEW N \in SUBSET {View(p), Mapper(p), Lift(p)}, View(p) \in N,
           retained' = retained \cup N,
           UNCHANGED <<shown, active, drop, timers, owed>>, DOMAIN cmds' = Proc,
           \A q \in Proc \ {p} : todo'[q] = todo[q] /\ want'[q] = want[q] /\ cmds'[q] = cmds[q],
           p # Repaint /\ todo'[p] # <<>> => Mapper(p) \in N /\ todo'[p] = want'[p],
           p # Repaint /\ cmds'[p] # <<>> => Lift(p) \in N
    PROVE  Held'
<1>1. /\ Typed /\ Shape /\ Queue /\ Unborn /\ Painted /\ Wished /\ Mapped /\ Dropping /\ Lifted
      /\ via \in [Message -> SUBSET Handler] /\ pc \in [Proc -> States]
      /\ shown \subseteq Proc /\ timers \subseteq Proc
  BY DEF Sane, Held, InOrder, Typed, Owned, Shape, Placed, AtMostOne
<1>2. Queue' /\ Dues(chain') = Dues(chain)
  <2>1. retained \subseteq retained' /\ "stepped" # "queued"  OBVIOUS
  <2> QED  BY <1>1, <2>1, QueueWaits
<1>3. {View(p), Mapper(p), Lift(p)} \cap retained = {}  BY <1>1 DEF Unborn
<1>4. Good' = Good \cup N /\ Good \subseteq retained
  BY <1>1, <1>2, <1>3 DEF Good, Queue
<1>5. /\ pc'[p] = "stepped" /\ \A q \in Proc \ {p} : pc'[q] = pc[q]
      /\ "stepped" \notin Before
  BY <1>1 DEF Goto, Before
<1>6. Unborn'
  <2>1. ASSUME NEW q \in Proc, pc'[q] \in Before
        PROVE  {View(q), Mapper(q), Lift(q)} \cap retained' = {}
    <3>1. q # p /\ {View(q), Mapper(q), Lift(q)} \cap retained = {}
      BY <1>1, <1>5, <2>1 DEF Unborn
    <3>2. {View(q), Mapper(q), Lift(q)} \cap N = {}  BY <3>1, Distinct
    <3> QED  BY <3>1, <3>2
  <2> QED  BY <2>1 DEF Unborn, View, Mapper, Lift
<1>7. Painted'
  <2>1. p \notin shown  BY <1>1 DEF Painted
  <2>2. \A q \in Proc : pc'[q] = "stepped" => View(q) \in Good' /\ q \notin shown'
    BY <1>1, <1>4, <1>5, <2>1 DEF Painted
  <2>3. \A q \in shown' : View(q) \in Good' /\ pc'[q] \notin Before
    BY <1>1, <1>4, <1>5, <2>1 DEF Painted
  <2> QED  BY <2>2, <2>3 DEF Painted, Good, View
<1>8. Wished'
  <2>1. ASSUME NEW q \in Proc, Uses(q)'
        PROVE  /\ Mapper(q) \in Good'
               /\ Entries(q)' \subseteq {want'[q][i] : i \in DOMAIN want'[q]}
    <3>1. CASE q = p
      BY <1>4, <2>1, <3>1 DEF Uses, Entries
    <3>2. CASE q # p
      <4>1. Uses(q) /\ Entries(q)' = Entries(q) /\ want'[q] = want[q]
        BY <1>5, <2>1, <3>2 DEF Uses, Entries
      <4> QED  BY <1>1, <1>4, <4>1 DEF Wished
    <3> QED  BY <3>1, <3>2
  <2> QED  BY <2>1 DEF Wished, Good, Mapper
<1>9. Mapped'
  <2>1. ASSUME NEW r \in active
        PROVE  /\ r.own \in Good'
               /\ \E q \in Proc : /\ r.own = Mapper(q) /\ Fits(r, q)'
                                 /\ pc'[q] \notin {"stepped", "removing", "dropping"}
    <3>1. PICK q \in Proc : /\ r.own \in Good /\ r.own = Mapper(q) /\ Fits(r, q)
                            /\ pc[q] \notin {"stepped", "removing", "dropping"}
      BY <1>1 DEF Mapped
    <3>2. q # p  BY <1>3, <1>4, <3>1
    <3>3. Fits(r, q)'  BY <3>1, <3>2 DEF Fits, Entries
    <3> QED  BY <1>4, <1>5, <3>1, <3>2, <3>3
  <2> QED  BY <2>1 DEF Mapped, Good, Mapper
<1>10. Dropping'
  <2>1. ASSUME NEW k \in Proc, NEW h \in drop[k]
        PROVE  /\ h \in Good' /\ pc'[k] \in {"dropping", "replacing"}
               /\ \E q \in Proc : h = Mapper(q) /\ ~ Uses(q)'
    <3>1. PICK q \in Proc : h \in Good /\ h = Mapper(q) /\ ~ Uses(q)
      BY <1>1 DEF Dropping
    <3>2. pc[k] \in {"dropping", "replacing"}  BY <1>1 DEF Dropping
    <3>3. k # p /\ q # p  BY <1>3, <1>4, <3>1, <3>2 DEF Before
    <3>4. ~ Uses(q)'  BY <1>5, <3>1, <3>3 DEF Uses
    <3> QED  BY <1>4, <1>5, <3>1, <3>2, <3>3, <3>4
  <2> QED  BY <2>1 DEF Dropping, Good, Mapper
<1>11. Lifted'
  <2>1. ASSUME NEW q \in Proc
        PROVE  /\ pc'[q] \in {"executing", "awaiting"} => Lift(q) \in Good'
               /\ q # Repaint /\ pc'[q] \in Working /\ cmds'[q] # <<>> => Lift(q) \in Good'
               /\ pc'[q] \in Working => Lift(q) \notin retained' \ Good' /\ Lift(q) \notin owed'
    <3>1. CASE q = p
      <4>1. Lift(p) \notin owed  BY <1>1, <1>3, <1>4 DEF Lifted
      <4> QED  BY <1>3, <1>4, <1>5, <3>1, <4>1
    <3>2. CASE q # p
      <4>1. Lift(q) \notin N  BY <3>2, Distinct
      <4> QED  BY <1>1, <1>4, <1>5, <3>2, <4>1 DEF Lifted
    <3> QED  BY <3>1, <3>2
  <2>2. \A q \in timers' : Lift(q) \in Good'  BY <1>1, <1>4 DEF Lifted
  <2>3. \A h \in owed' : h \in Good' /\ \E q \in Proc : h = Lift(q)
    BY <1>1, <1>4 DEF Lifted
  <2> QED  BY <2>1, <2>2, <2>3 DEF Lifted, Lift, Good
<1> QED  BY <1>2, <1>6, <1>7, <1>8, <1>9, <1>10, <1>11 DEF Held

LEMMA EndStepHeld == ASSUME Sane, NEW p \in Proc, EndStep(p) PROVE Held'
<1>1. PICK config \in Configs, list \in Programs :
          /\ want' = [want EXCEPT ![p] = config] /\ todo' = [todo EXCEPT ![p] = config]
          /\ cmds' = [cmds EXCEPT ![p] = list]
          /\ retained' = retained \cup {View(p)}
                                  \cup (IF config = <<>> THEN {} ELSE {Mapper(p)})
                                  \cup (IF list = <<>> THEN {} ELSE {Lift(p)})
  BY DEF EndStep
<1>2. /\ Goto(p, "stepped", {}, {}) /\ chain' = chain /\ pc[p] \in Before
      /\ UNCHANGED <<shown, active, drop, timers, owed>>
  BY DEF EndStep, display, subs, commands, Before
<1>3. /\ want \in [Proc -> Configs \cup {<<>>}] /\ todo \in [Proc -> Seq(Wanted)]
      /\ DOMAIN cmds = Proc
  BY DEF Sane, Held, Lifted, Typed, Listed
<1> DEFINE N == {View(p)} \cup (IF config = <<>> THEN {} ELSE {Mapper(p)})
                          \cup (IF list = <<>> THEN {} ELSE {Lift(p)})
<1>4. N \in SUBSET {View(p), Mapper(p), Lift(p)} /\ View(p) \in N /\ retained' = retained \cup N
  BY <1>1
<1>5. (config # <<>> => Mapper(p) \in N) /\ (list # <<>> => Lift(p) \in N)  OBVIOUS
<1>6. /\ want'[p] = config /\ todo'[p] = config /\ cmds'[p] = list /\ DOMAIN cmds' = Proc
      /\ \A q \in Proc \ {p} : todo'[q] = todo[q] /\ want'[q] = want[q] /\ cmds'[q] = cmds[q]
  BY <1>1, <1>3
<1> HIDE DEF N
<1> QED  BY <1>2, <1>4, <1>5, <1>6, BornHeld

LEMMA RenderHeld == ASSUME Sane, Render PROVE Held'
<1>1. /\ Goto(Repaint, "stepped", {}, {}) /\ chain' = chain /\ pc[Repaint] \in Before
      /\ UNCHANGED <<shown, active, drop, timers, owed, todo, want, cmds>>
      /\ retained' = retained \cup {View(Repaint)} /\ DOMAIN cmds = Proc
  BY DEF Render, display, step, subs, commands, Before, Sane, Held, Lifted
<1> DEFINE N == {View(Repaint)}
<1>2. N \in SUBSET {View(Repaint), Mapper(Repaint), Lift(Repaint)} /\ View(Repaint) \in N
      /\ retained' = retained \cup N
  BY <1>1
<1> HIDE DEF N
<1> QED  BY <1>1, <1>2, Procs, BornHeld

\* The frame in view lets its handlers go.
LEMMA ApplyHeld == ASSUME Sane, NEW p \in Proc, Apply(p) PROVE Held'
<1> DEFINE R == {View(q) : q \in shown}
<1>1. PICK s \in {"done", "removing"} : Goto(p, s, {}, {})
  BY DEF Apply
<1>2. /\ pc[p] = "stepped" /\ shown' = {p} /\ chain' = chain \o Releases(R)
      /\ UNCHANGED <<retained, active, drop, todo, want, cmds, timers, owed>>
  BY DEF Apply, step, subs, commands
<1>3. /\ Typed /\ Shape /\ Queue /\ Kept /\ Lifted /\ via \in [Message -> SUBSET Handler]
      /\ shown \subseteq Proc
  BY DEF Sane, Held, Kept, InOrder, Typed, Owned, Placed, AtMostOne
<1>4. R \subseteq Good /\ R \in SUBSET Handler  BY <1>3, Handlers DEF Kept, Painted
<1> HIDE DEF R
<1>5. Queue' /\ Dues(chain') = Dues(chain) \cup R
  <2>1. s \in States /\ s # "queued"  BY <1>1 DEF States, Settled, Running
  <2> QED  BY <1>1, <1>2, <1>3, <1>4, <2>1, QueueReleases
<1>6. Good' = Good \ R /\ Good \ R \subseteq Good' /\ retained' \subseteq retained
  BY <1>2, <1>5 DEF Good
<1>7. /\ Moved(p, s, {}) /\ s \notin Before \cup {"stepped"} /\ (s \in Working => pc[p] \in Working)
      /\ s \notin {"executing", "awaiting"}
  BY <1>1, <1>2 DEF Goto, Moved, Goes, Before, Working, Syncing
<1>8. Lists(p, s) /\ Ordered(p, s)  BY <1>2, <1>7, SameLists, SameOrders
<1>9. Spared(R) /\ Over(R)
  <2>1. \A q \in Proc : Mapper(q) \notin R /\ Lift(q) \notin R  BY <1>3, Distinct DEF R
  <2>2. /\ \A r \in active' : \E q \in Proc : r.own = Mapper(q)
        /\ \A k \in Proc : \A h \in drop'[k] : \E q \in Proc : h = Mapper(q)
    BY <1>2, <1>3 DEF Kept, Mapped, Dropping
  <2> QED  BY <2>1, <2>2 DEF Spared, Over
<1>10. Unborn' /\ Wished' /\ Mapped' /\ Dropping'
  <2>1. drop'[p] = {} /\ (\A q \in Proc : drop'[q] \subseteq drop[q]) /\ active' \subseteq active
    BY <1>2, <1>3 DEF Kept, Dropping
  <2> QED  BY <1>3, <1>6, <1>7, <1>8, <1>9, <2>1, OwnersPass
<1>11. Painted'
  <2>1. \A q \in Proc \ shown : View(q) \in Good => View(q) \in Good'
    BY <1>3, <1>6, Distinct DEF R
  <2>2. \A q \in Proc : pc'[q] = "stepped" => View(q) \in Good' /\ q \notin shown'
    BY <1>2, <1>3, <1>7, <2>1 DEF Moved, Kept, Painted
  <2>3. \A q \in shown' : View(q) \in Good' /\ pc'[q] \notin Before
    BY <1>2, <1>3, <1>7, <2>1 DEF Moved, Kept, Painted
  <2> QED  BY <2>2, <2>3 DEF Painted, Good, View
<1>12. Lifted'  BY <1>3, <1>6, <1>7, <1>8, <1>9, LiftsPass
<1> QED  BY <1>5, <1>10, <1>11, <1>12 DEF Held

\* A step that is in line with nothing else under way.
LEMMA OneUses ==
    ASSUME Sane, NEW p \in Proc, pc[p] \in Syncing, NEW q \in Proc
    PROVE  (Uses(q) => q = p) /\ (pc[q] \in {"dropping", "replacing"} => q = p)
<1>1. InOrder /\ Solo /\ ~ early  BY DEF Sane
<1>2. \A k \in Proc : pc[k] \in Syncing => k # Repaint /\ pc[k] \in Active
  BY <1>1 DEF Solo, Apart, Syncing, Active, Running
<1>3. ASSUME Uses(q) PROVE q = p
  <2>1. q # Repaint /\ pc[q] \in Active  BY <1>2, <1>3 DEF Uses, Active, Running
  <2> QED  BY <1>1, <1>2, <2>1, OneWorks
<1>4. ASSUME pc[q] \in {"dropping", "replacing"} PROVE q = p
  <2>1. pc[q] \in Syncing  BY <1>4 DEF Syncing
  <2> QED  BY <1>1, <1>2, <2>1, OneWorks
<1> QED  BY <1>3, <1>4

LEMMA DisposeHeld ==
    ASSUME Sane, NEW p \in Proc, NEW r \in active, NEW s, Dispose(p, r, s),
           \/ pc[p] = "removing" /\ s = "dropping"
           \/ pc[p] = "syncing" /\ s = "replacing",
           NEW o \in Proc, r.own = Mapper(o), ~ Uses(o)
    PROVE  Held'
<1>1. /\ active' = active \ {r} /\ drop' = [drop EXCEPT ![p] = {r.own}]
      /\ Goto(p, s, {}, {}) /\ chain' = chain
      /\ UNCHANGED <<retained, shown, todo, want, cmds, timers, owed>>
  BY DEF Dispose, display, commands
<1>2. /\ Typed /\ Queue /\ Kept /\ Lifted /\ via \in [Message -> SUBSET Handler]
      /\ drop \in [Proc -> SUBSET Handler]
  BY DEF Sane, Held, Kept, Typed, Owned
<1>3. /\ Moved(p, s, {}) /\ (s \in Working => pc[p] \in Working) /\ s # "queued"
      /\ s \notin {"executing", "awaiting"} /\ s \in {"dropping", "replacing"}
      /\ \A q \in Proc : pc'[q] \in {"stepped"} \cup Syncing => pc[q] \in {"stepped"} \cup Syncing
  BY <1>1 DEF Goto, Moved, Goes, Before, Working, Syncing
<1>4. Queue' /\ Dues(chain') = Dues(chain)  BY <1>1, <1>2, <1>3, QueueWaits
<1> DEFINE R == {}
<1>5. /\ Good' = Good \ R /\ Good \ R \subseteq Good' /\ retained' \subseteq retained
      /\ Spared(R) /\ Unseen(R) /\ Over(R)
  BY <1>1, <1>4 DEF Good, Spared, Unseen, Over
<1>6. Good' = Good  BY <1>5
<1> HIDE DEF R
<1>7. Lists(p, s) /\ Ordered(p, s)  BY <1>1, <1>3, SameLists, SameOrders
<1>8. Unborn' /\ Wished' /\ Mapped'
  BY <1>1, <1>2, <1>3, <1>5, <1>7, OwnersPass
<1>9. Dropping'
  <2>1. \A q \in Proc : Uses(q)' => Uses(q)  BY <1>1, <1>3 DEF Uses
  <2>2. ASSUME NEW k \in Proc, NEW h \in drop'[k]
        PROVE  /\ h \in Good' /\ pc'[k] \in {"dropping", "replacing"}
               /\ \E q \in Proc : h = Mapper(q) /\ ~ Uses(q)'
    <3>1. CASE k = p
      <4>1. h = r.own /\ r.own \in Good  BY <1>1, <1>2, <2>2, <3>1 DEF Kept, Mapped
      <4> QED  BY <1>3, <1>6, <2>1, <3>1, <4>1 DEF Moved
    <3>2. CASE k # p
      <4>1. h \in drop[k] /\ pc'[k] = pc[k]  BY <1>1, <1>2, <1>3, <2>2, <3>2 DEF Moved
      <4> QED  BY <1>2, <1>6, <2>1, <4>1 DEF Kept, Dropping
    <3> QED  BY <3>1, <3>2
  <2> QED  BY <2>2 DEF Dropping, Good, Mapper
<1>10. Painted'  BY <1>1, <1>2, <1>3, <1>5, PaintedPasses DEF Kept
<1>11. Lifted'  BY <1>2, <1>3, <1>5, <1>7, LiftsPass
<1> QED  BY <1>4, <1>8, <1>9, <1>10, <1>11 DEF Held

LEMMA RemoveGoneHeld == ASSUME Sane, NEW p \in Proc, RemoveGone(p) PROVE Held'
<1>1. PICK r \in active : Dispose(p, r, "dropping")  BY DEF RemoveGone
<1>2. pc[p] = "removing" /\ pc[p] \in Syncing  BY DEF RemoveGone, Syncing
<1>3. PICK o \in Proc : r.own = Mapper(o) /\ pc[o] # "removing"
  BY DEF Sane, Held, Mapped
<1>4. ~ Uses(o)
  <2>1. \A q \in Proc : Uses(q) => q = p  BY <1>2, OneUses
  <2> QED  BY <1>2, <1>3, <2>1
<1> QED  BY <1>1, <1>2, <1>3, <1>4, DisposeHeld

LEMMA ReplaceHeld == ASSUME Sane, NEW p \in Proc, Replace(p) PROVE Held'
<1>1. PICK r \in active : /\ r.key = Head(todo[p]).key /\ r.sig # Head(todo[p]).sig
                          /\ Dispose(p, r, "replacing")
  BY DEF Replace
<1>2. pc[p] = "syncing" /\ pc[p] \in Syncing /\ todo[p] # <<>>  BY DEF Replace, Syncing
<1>3. PICK o \in Proc : r.own = Mapper(o) /\ Fits(r, o)
  BY DEF Sane, Held, Mapped
<1>4. Head(todo[p]) \in Entries(p)
  <2>1. todo[p] \in Seq(Wanted)  BY DEF Sane, Typed, Listed
  <2> QED  BY <1>2, <2>1 DEF Entries
<1>5. ~ Uses(o)
  <2>1. \A q \in Proc : Uses(q) => q = p  BY <1>2, OneUses
  <2> QED  BY <1>1, <1>3, <1>4, <2>1 DEF Fits
<1> QED  BY <1>1, <1>2, <1>3, <1>5, DisposeHeld

LEMMA DroppedHeld == ASSUME Sane, NEW p \in Proc, Dropped(p) PROVE Held'
<1> DEFINE R == Unused(drop[p], active)
<1>1. PICK s \in {"removing", "syncing"} : /\ Goto(p, s, {}, {})
                                           /\ pc[p] = "dropping" <=> s = "removing"
  BY DEF Dropped
<1>2. /\ pc[p] \in {"dropping", "replacing"} /\ chain' = chain \o Releases(R)
      /\ drop' = [drop EXCEPT ![p] = {}]
      /\ UNCHANGED <<retained, shown, active, todo, want, cmds, timers, owed>>
  BY DEF Dropped, display, subs, commands
<1>3. /\ Typed /\ Shape /\ Queue /\ Kept /\ Lifted /\ via \in [Message -> SUBSET Handler]
      /\ drop \in [Proc -> SUBSET Handler]
  BY DEF Sane, Held, Kept, InOrder, Typed, Owned
<1>4. R \subseteq drop[p] /\ R \in SUBSET Handler /\ \A r \in active : r.own \notin R
  BY <1>3 DEF Unused
<1> HIDE DEF R
<1>5. \A h \in R : h \in Good /\ \E q \in Proc : h = Mapper(q) /\ ~ Uses(q)
  BY <1>3, <1>4 DEF Kept, Dropping
<1>6. /\ s \in States /\ s # "queued" /\ Moved(p, s, {}) /\ (s \in Working => pc[p] \in Working)
      /\ s \notin {"executing", "awaiting"}
      /\ \A q \in Proc : pc'[q] \in {"stepped"} \cup Syncing => pc[q] \in {"stepped"} \cup Syncing
  BY <1>1, <1>2 DEF Goto, Moved, Goes, Before, Working, Syncing, States, Running, Settled
<1>7. Queue' /\ Dues(chain') = Dues(chain) \cup R
  <2>1. R \subseteq Good  BY <1>5
  <2> QED  BY <1>1, <1>2, <1>3, <1>4, <1>6, <2>1, QueueReleases
<1>8. Good' = Good \ R /\ Good \ R \subseteq Good' /\ retained' \subseteq retained
  BY <1>2, <1>7 DEF Good
<1>9. Lists(p, s) /\ Ordered(p, s)  BY <1>2, <1>6, SameLists, SameOrders
<1>10. \A q \in Proc : drop'[q] = {}
  <2>1. pc[p] \in Syncing  BY <1>2 DEF Syncing
  <2>2. \A q \in Proc : pc[q] \in {"dropping", "replacing"} => q = p  BY <2>1, OneUses
  <2>3. \A q \in Proc : q # p => drop[q] = {}  BY <1>3, <2>2 DEF Kept, Dropping
  <2> QED  BY <1>2, <1>3, <2>3
<1>11. Spared(R) /\ Unseen(R) /\ Over(R)
  <2>1. \A q \in Proc : Uses(q)' => Uses(q)  BY <1>2, <1>6 DEF Uses
  <2>2. \A q \in Proc : View(q) \notin R /\ Lift(q) \notin R /\ (Uses(q) => Mapper(q) \notin R)
    BY <1>5, Distinct
  <2> QED  BY <1>2, <1>4, <1>10, <2>1, <2>2 DEF Spared, Unseen, Over
<1>12. Unborn' /\ Wished' /\ Mapped' /\ Dropping'
  <2>1. drop'[p] = {} /\ (\A q \in Proc : drop'[q] \subseteq drop[q]) /\ active' \subseteq active
    BY <1>2, <1>10
  <2> QED  BY <1>3, <1>6, <1>8, <1>9, <1>11, <2>1, OwnersPass
<1>13. Painted'  BY <1>2, <1>3, <1>6, <1>8, <1>11, PaintedPasses DEF Kept
<1>14. Lifted'  BY <1>3, <1>6, <1>8, <1>9, <1>11, LiftsPass
<1> QED  BY <1>7, <1>12, <1>13, <1>14 DEF Held

\* A list describes each key once: what is left of it does too.
LEMMA Consistent ==
    ASSUME Sane, KeysAreIdentities, NEW p \in Proc, Uses(p),
           NEW v \in Entries(p), NEW w \in Entries(p), v.key = w.key
    PROVE  v.sig = w.sig
<1>1. Entries(p) \subseteq {want[p][i] : i \in DOMAIN want[p]} /\ want[p] \in Configs \cup {<<>>}
  BY DEF Sane, Held, Wished, Typed, Listed
<1>2. PICK i, j \in DOMAIN want[p] : v = want[p][i] /\ w = want[p][j]  BY <1>1
<1>3. want[p] \in Configs
  <2>1. DOMAIN <<>> = {}  OBVIOUS
  <2> QED  BY <1>1, <1>2, <2>1
<1> QED  BY <1>2, <1>3 DEF KeysAreIdentities

\* The head of the list of p is in line: p is mapped by its own mapper from now on.
LEMMA InLine ==
    ASSUME Sane, KeysAreIdentities, NEW p \in Proc, pc[p] \in {"syncing", "starting"},
           todo[p] # <<>>, todo' = [todo EXCEPT ![p] = Tail(@)], want' = want,
           NEW n, n.own = Mapper(p), n.key = Head(todo[p]).key, n.sig = Head(todo[p]).sig,
           active' \subseteq active \cup {n}, n \in active',
           \A q \in Proc : pc'[q] = IF q = p THEN "syncing" ELSE pc[q],
           NEW R, \A r \in active' : r.own \notin R, Good \ R \subseteq Good'
    PROVE  Lists(p, "syncing") /\ Mapped' /\ (drop' = drop => Spared(R)) /\ \A q \in Proc : drop[q] = {}
<1>1. /\ todo \in [Proc -> Seq(Wanted)] /\ active \in SUBSET Record
      /\ Wished /\ Mapped /\ Dropping
  BY DEF Sane, Held, Typed, Listed
<1>2. pc[p] \in Syncing  BY DEF Syncing
<1>3. p # Repaint  BY DEF Sane, Solo, Apart
<1>4. Uses(p)  BY <1>2, <1>3 DEF Uses
<1>5. \A q \in Proc : Uses(q) => q = p  BY <1>2, OneUses
<1>6. \A q \in Proc : drop[q] = {}
  <2>1. \A q \in Proc : pc[q] \in {"dropping", "replacing"} => q = p  BY <1>2, OneUses
  <2> QED  BY <1>1, <2>1 DEF Dropping
<1>7. Head(todo[p]) \in Entries(p) /\ Entries(p)' \subseteq Entries(p)
  <2>1. PICK k \in Nat : k = Len(todo[p]) /\ k > 0  BY <1>1, EmptySeq
  <2>2. DOMAIN todo[p] = 1 .. k /\ Head(todo[p]) = todo[p][1]  BY <1>1, <2>1
  <2>3. todo'[p] = Tail(todo[p])  BY <1>1
  <2>4. DOMAIN todo'[p] = 1 .. k - 1 /\ \A i \in 1 .. k - 1 : todo'[p][i] = todo[p][i + 1]
    BY <1>1, <2>1, <2>3
  <2>5. 1 \in 1 .. k /\ \A i \in 1 .. k - 1 : i + 1 \in 1 .. k  BY <2>1
  <2>6. Head(todo[p]) \in Entries(p)  BY <2>2, <2>5 DEF Entries
  <2>7. \A i \in 1 .. k - 1 : todo'[p][i] \in Entries(p)  BY <2>2, <2>4, <2>5 DEF Entries
  <2>8. Entries(p)' = {todo'[p][i] : i \in 1 .. k - 1}  BY <2>4 DEF Entries
  <2> QED  BY <2>6, <2>7, <2>8
<1>8. \A q \in Proc \ {p} : todo'[q] = todo[q]  BY <1>1
<1>9. \A q \in Proc : Entries(q)' \subseteq Entries(q)  BY <1>7, <1>8 DEF Entries
<1>10. Lists(p, "syncing")  BY <1>7, <1>8 DEF Lists
<1>11. Fits(n, p)'
  <2>1. ASSUME NEW w \in Entries(p), w.key = n.key PROVE w.sig = n.sig
    BY <1>4, <1>7, <2>1, Consistent
  <2> QED  BY <1>9, <2>1 DEF Fits
<1>12. Mapped'
  <2>1. ASSUME NEW r \in active'
        PROVE  /\ r.own \in Good'
               /\ \E q \in Proc : /\ r.own = Mapper(q) /\ Fits(r, q)'
                                 /\ pc'[q] \notin {"stepped", "removing", "dropping"}
    <3>1. CASE r = n
      <4>1. Mapper(p) \in Good  BY <1>1, <1>4 DEF Wished
      <4> QED  BY <1>11, <2>1, <3>1, <4>1
    <3>2. CASE r \in active
      <4>1. PICK q \in Proc : /\ r.own = Mapper(q) /\ Fits(r, q) /\ r.own \in Good
                              /\ pc[q] \notin {"stepped", "removing", "dropping"}
        BY <1>1, <3>2 DEF Mapped
      <4>2. Fits(r, q)'  BY <1>9, <4>1 DEF Fits
      <4> QED  BY <2>1, <4>1, <4>2
    <3> QED  BY <2>1, <3>1, <3>2
  <2> QED  BY <2>1 DEF Mapped, Good, Mapper
<1>13. ASSUME drop' = drop PROVE Spared(R)
  <2>1. \A q \in Proc : pc'[q] \in {"stepped"} \cup Syncing => pc[q] \in {"stepped"} \cup Syncing
    BY <1>2
  <2>2. ASSUME NEW q \in Proc, Uses(q)' PROVE Mapper(q) \notin R
    <3>1. Uses(q)  BY <1>4, <1>8, <2>1, <2>2 DEF Uses
    <3>2. q = p  BY <1>5, <3>1
    <3> QED  BY <3>2
  <2> QED  BY <1>6, <1>13, <2>2 DEF Spared
<1> QED  BY <1>6, <1>10, <1>12, <1>13

LEMMA KeepHeld == ASSUME Sane, KeysAreIdentities, NEW p \in Proc, Keep(p) PROVE Held'
<1>1. PICK r \in active :
          /\ r.key = Head(todo[p]).key /\ r.sig = Head(todo[p]).sig
          /\ active' = (active \ {r}) \cup {[r EXCEPT !.own = Mapper(p)]}
          /\ chain' = chain \o Releases(Unused({r.own}, active'))
  BY DEF Keep
<1>2. /\ pc[p] = "syncing" /\ todo[p] # <<>> /\ todo' = [todo EXCEPT ![p] = Tail(@)]
      /\ UNCHANGED <<pc, via, want, retained, shown, drop, cmds, timers, owed>>
  BY DEF Keep, display, commands
<1>3. /\ Typed /\ Shape /\ Queue /\ Kept /\ Lifted /\ via \in [Message -> SUBSET Handler]
      /\ r \in Record
  BY DEF Sane, Held, Kept, InOrder, Typed, Owned, Listed
<1> DEFINE R == Unused({r.own}, active')
           n == [r EXCEPT !.own = Mapper(p)]
<1>4. R \subseteq {r.own} /\ \A x \in active' : x.own \notin R  BY DEF Unused
<1>5. /\ n.own = Mapper(p) /\ n.key = Head(todo[p]).key /\ n.sig = Head(todo[p]).sig
      /\ active' \subseteq active \cup {n} /\ n \in active' /\ chain' = chain \o Releases(R)
  BY <1>1, <1>3 DEF Record
<1> HIDE DEF R, n
<1>6. \A h \in R : h \in Good /\ \E q \in Proc : h = Mapper(q)
  BY <1>3, <1>4 DEF Kept, Mapped
<1>7. R \in SUBSET Handler /\ R \subseteq Good  BY <1>3, <1>4, <1>6 DEF Record
<1>8. Queue' /\ Dues(chain') = Dues(chain) \cup R
  BY <1>2, <1>3, <1>5, <1>7, QueueReleases
<1>9. Good' = Good \ R /\ Good \ R \subseteq Good' /\ retained' \subseteq retained
  BY <1>2, <1>8 DEF Good
<1>10. \A q \in Proc : pc'[q] = IF q = p THEN "syncing" ELSE pc[q]  BY <1>2
<1>11. Lists(p, "syncing") /\ Mapped' /\ Spared(R) /\ \A q \in Proc : drop[q] = {}
  <2>1. pc[p] \in {"syncing", "starting"} /\ want' = want /\ drop' = drop  BY <1>2
  <2> QED  BY <1>2, <1>4, <1>5, <1>9, <1>10, <2>1, InLine
<1>12. Moved(p, "syncing", {})
  BY <1>2 DEF Moved, Goes
<1>13. Unseen(R) /\ Over(R) /\ Ordered(p, "syncing")
  <2>1. \A q \in Proc : View(q) \notin R /\ Lift(q) \notin R  BY <1>6, Distinct
  <2> QED  BY <1>2, <2>1, SameOrders DEF Unseen, Over
<1>14. Unborn' /\ Wished' /\ Dropping'
  <2>1. drop'[p] = {} /\ \A q \in Proc : drop'[q] \subseteq drop[q]  BY <1>2, <1>11
  <2> QED  BY <1>3, <1>9, <1>11, <1>12, <2>1, OwnersPass
<1>15. Painted'  BY <1>2, <1>3, <1>9, <1>12, <1>13, PaintedPasses DEF Kept
<1>16. Lifted'  BY <1>3, <1>9, <1>12, <1>13, LiftsPass
<1> QED  BY <1>8, <1>11, <1>14, <1>15, <1>16 DEF Held

LEMMA StartedHeld == ASSUME Sane, KeysAreIdentities, NEW p \in Proc, Started(p) PROVE Held'
<1> DEFINE n == [key |-> Head(todo[p]).key, sig |-> Head(todo[p]).sig,
                 own |-> Mapper(p), by |-> p]
           R == {}
<1>1. /\ pc[p] = "starting" /\ todo' = [todo EXCEPT ![p] = Tail(@)]
      /\ Goto(p, "syncing", {}, {}) /\ chain' = chain
      /\ UNCHANGED <<want, retained, shown, drop, cmds, timers, owed>>
      /\ active' \subseteq active \cup {n} /\ n \in active'
  BY DEF Started, display, commands
<1>2. /\ Typed /\ Queue /\ Kept /\ Lifted /\ via \in [Message -> SUBSET Handler]
      /\ todo[p] # <<>>
  BY <1>1 DEF Sane, Held, Kept, Typed, Owned, Begun
<1>3. n.own = Mapper(p) /\ n.key = Head(todo[p]).key /\ n.sig = Head(todo[p]).sig  OBVIOUS
<1> HIDE DEF n
<1>4. Queue' /\ Dues(chain') = Dues(chain)
  <2>1. "syncing" # "queued" /\ retained \subseteq retained'  BY <1>1
  <2> QED  BY <1>1, <1>2, <2>1, QueueWaits
<1>5. /\ Good' = Good \ R /\ Good \ R \subseteq Good' /\ retained' \subseteq retained
      /\ Unseen(R) /\ Over(R) /\ \A r \in active' : r.own \notin R
  BY <1>1, <1>4 DEF Good, Unseen, Over
<1> HIDE DEF R
<1>6. \A q \in Proc : pc'[q] = IF q = p THEN "syncing" ELSE pc[q]  BY <1>1 DEF Goto
<1>7. Lists(p, "syncing") /\ Mapped' /\ Spared(R) /\ \A q \in Proc : drop[q] = {}
  <2>1. pc[p] \in {"syncing", "starting"} /\ want' = want /\ drop' = drop  BY <1>1
  <2> QED  BY <1>1, <1>2, <1>3, <1>5, <1>6, <2>1, InLine
<1>8. Moved(p, "syncing", {}) /\ Ordered(p, "syncing")
  <2>1. pc[p] \in Working /\ "syncing" \notin {"executing", "awaiting"}
    BY <1>1 DEF Working, Syncing
  <2> QED  BY <1>1, <1>6, <2>1, SameOrders DEF Moved, Goes, Before, Syncing
<1>9. Unborn' /\ Wished' /\ Dropping'
  <2>1. drop'[p] = {} /\ \A q \in Proc : drop'[q] \subseteq drop[q]  BY <1>1, <1>7
  <2> QED  BY <1>2, <1>5, <1>7, <1>8, <2>1, OwnersPass
<1>10. Painted'  BY <1>1, <1>2, <1>5, <1>8, PaintedPasses DEF Kept
<1>11. Lifted'  BY <1>2, <1>5, <1>8, LiftsPass
<1> QED  BY <1>4, <1>7, <1>9, <1>10, <1>11 DEF Held

LEMMA InitHeld == Init => Held
<1> SUFFICES ASSUME Init PROVE Held  OBVIOUS
<1>1. /\ chain = <<>> /\ retained = {} /\ shown = {} /\ active = {} /\ timers = {} /\ owed = {}
      /\ \A p \in Proc : /\ pc[p] \in {"stepping", "new"} /\ drop[p] = {}
                         /\ todo[p] = <<>> /\ cmds[p] = <<>>
      /\ DOMAIN cmds = Proc
  BY Procs DEF Init
<1>2. Dues(chain) = {} /\ Clean(chain)
  <2>1. DOMAIN chain = {}  BY <1>1
  <2> QED  BY <2>1 DEF Dues, Clean
<1>3. Queue  BY <1>1, <1>2, Procs DEF Queue
<1>4. Unborn /\ Painted /\ Mapped /\ Dropping  BY <1>1 DEF Unborn, Painted, Mapped, Dropping
<1>5. Wished  BY <1>1 DEF Wished, Uses
<1>6. Lifted  BY <1>1 DEF Lifted, Working, Syncing
<1> QED  BY <1>3, <1>4, <1>5, <1>6 DEF Held

\* Only three actions end the application or begin a step early, and only two release.
LEMMA HistoryStays ==
    ASSUME Typed, [Next]_vars
    PROVE  /\ (early => early') /\ (disposed => disposed')
           /\ stale' = stale \/ RunRelease \/ DisposeNext
<1> USE DEF ending, history
<1>1. ASSUME NEW p \in Proc, Sync(p) PROVE UNCHANGED <<early, disposed, stale>>
  BY <1>1 DEF Sync, RemoveGone, RemovedAll, Replace, Dispose, Dropped, Keep, Start, Started, Synced
<1>2. ASSUME NEW p \in Proc, Commands(p) PROVE UNCHANGED <<early, disposed, stale>>
  BY <1>2 DEF Commands, MessageCommand, MessageHandled, DelayCommand, DelayFires, ExecuteCommand,
              Executed, Finish, ReleaseLift
<1>3. ASSUME NEW p \in Proc, Errors(p) PROVE UNCHANGED <<early, disposed, stale>>
  BY <1>3 DEF Errors, FailStep, RenderThrows, StartThrows, ExecuteThrows
<1>4. ASSUME NEW p \in Proc, EndStep(p) \/ Apply(p) \/ ApplyNothing(p)
      PROVE  UNCHANGED <<early, disposed, stale>>
  BY <1>4 DEF EndStep, Apply, ApplyNothing
<1>5. ASSUME NEW p \in Proc, Reject(p) PROVE early' = early /\ stale' = stale /\ (disposed => disposed')
  BY <1>5 DEF Reject, TearDown
<1>6. ASSUME NEW m \in Message, BeginStep(m)
      PROVE  (early => early') /\ stale' = stale /\ disposed' = disposed
  <2>1. stale' = stale /\ disposed' = disposed  BY <1>6 DEF BeginStep
  <2>2. early' = early \/ early' = (early \/ pc[Mount] # "done")  BY <1>6 DEF BeginStep
  <2>3. early => early'  BY <2>2, Zenon
  <2> QED  BY <2>1, <2>3
<1>7. ASSUME Render \/ UserEvent \/ \E l \in live : Emit(l)
      PROVE  UNCHANGED <<early, disposed, stale>>
  BY <1>7 DEF Render, UserEvent, Emit
<1>8. ASSUME DisposeApp PROVE early' = early /\ stale' = stale /\ disposed'
  BY <1>8 DEF DisposeApp, TearDown
<1>9. ASSUME RunRelease \/ DisposeNext PROVE early' = early /\ disposed' = disposed
  BY <1>9 DEF RunRelease, DisposeNext
<1>10. ASSUME UNCHANGED vars PROVE UNCHANGED <<early, disposed, stale>>  BY <1>10 DEF vars
<1> QED
  BY <1>1, <1>2, <1>3, <1>4, <1>5, <1>6, <1>7, <1>8, <1>9, <1>10 DEF Next, Machine

LEMMA HeldKept ==
    ASSUME KeysAreIdentities, Sane, [Next]_vars, ~ disposed'
    PROVE  Held'
<1>1. ASSUME NEW p \in Proc, Sync(p) PROVE Held'
  BY <1>1, RemoveGoneHeld, ReplaceHeld, DroppedHeld, KeepHeld, StartedHeld, SyncHeld DEF Sync
<1>2. ASSUME NEW p \in Proc, Commands(p) PROVE Held'
  BY <1>2, CommandsHeld, ReleaseLiftHeld
<1>3. ASSUME NEW p \in Proc, ApplyNothing(p) PROVE Held'  BY <1>3 DEF ApplyNothing, Sane
<1>4. ASSUME DisposeApp PROVE Held'  BY <1>4 DEF DisposeApp, TearDown
<1>5. ASSUME DisposeNext PROVE Held'  BY <1>5 DEF DisposeNext, Sane, Known
<1>6. ASSUME UNCHANGED vars PROVE Held'
  <2>1. Held  BY DEF Sane
  <2>2. UNCHANGED <<pc, chain, via, shown, want, todo, drop, cmds, active, timers, owed, retained>>
    BY <1>6 DEF vars
  <2>3. Good' = Good /\ \A p \in Proc : Entries(p)' = Entries(p) /\ Uses(p)' = Uses(p)
    BY <2>2 DEF Good, Entries, Uses
  <2>4. Queue'  BY <2>1, <2>2 DEF Held, Queue
  <2>5. Unborn' /\ Painted' /\ Wished' /\ Mapped' /\ Dropping' /\ Lifted'
    BY <2>1, <2>2, <2>3
    DEF Held, Unborn, Painted, Wished, Mapped, Dropping, Lifted, Fits, Uses, Good, Entries
  <2> QED  BY <2>4, <2>5 DEF Held
<1> QED
  BY <1>1, <1>2, <1>3, <1>4, <1>5, <1>6, RunReleaseHeld, BeginStepHeld, EndStepHeld, ApplyHeld,
     RejectHeld, ErrorsHeld, RenderHeld, InputHeld
  DEF Next, Machine

\* What keeps every callback that is in use, while the application lives.
Safely == /\ ~ early /\ ~ disposed => Held
          /\ ReleasedOnce

LEMMA SafelyKept ==
    ASSUME KeysAreIdentities, Typed, InOrder, Solo, Known, Safely, [Next]_vars
    PROVE  Safely'
<1>1. /\ (early => early') /\ (disposed => disposed')
      /\ stale' = stale \/ RunRelease \/ DisposeNext
  BY HistoryStays
<1>2. ASSUME ~ early', ~ disposed' PROVE Held' /\ ~ stale'
  <2>1. ~ early /\ ~ disposed /\ Held /\ ~ stale  BY <1>1, <1>2 DEF Safely, ReleasedOnce
  <2>2. Sane  BY <2>1 DEF Sane
  <2>3. Held'  BY <1>2, <2>2, HeldKept
  <2>4. ~ stale'
    <3>1. CASE RunRelease
      <4>1. Shape /\ Queue  BY <2>2 DEF Sane, InOrder, Held
      <4> QED  BY <2>1, <3>1, <4>1, QueueRuns
    <3>2. CASE DisposeNext  BY <2>1, <3>2 DEF DisposeNext, Known
    <3> QED  BY <1>1, <2>1, <3>1, <3>2
  <2> QED  BY <2>3, <2>4
<1> QED  BY <1>2 DEF Safely, ReleasedOnce

LEMMA SafelyImpliesOutlive ==
    ASSUME Typed, InOrder, Solo, Known, Safely
    PROVE  CallbacksOutliveUses
<1> SUFFICES ASSUME ~ early, ~ disposed
             PROVE  /\ \A m \in Message : pc[m] = "queued" => via[m] \subseteq retained
                    /\ \A p \in shown : View(p) \in retained
                    /\ \A p \in timers : Lift(p) \in retained
                    /\ \A l \in live : l.own \in retained
  BY DEF CallbacksOutliveUses
<1>1. Sane /\ Held  BY DEF Sane, Safely
<1>2. Good \subseteq retained  BY DEF Good
<1>3. \A m \in Message : pc[m] = "queued" => via[m] \subseteq retained  BY <1>1 DEF Held, Queue
<1>4. \A p \in shown : View(p) \in retained
  <2>1. shown \subseteq Proc  BY DEF Typed, Placed, AtMostOne
  <2> QED  BY <1>1, <1>2, <2>1 DEF Held, Painted
<1>5. \A p \in timers : Lift(p) \in retained  BY <1>1, <1>2 DEF Held, Lifted
<1>6. \A l \in live : l.own \in retained  BY <1>1, <1>2, LiveSafe
<1> QED  BY <1>3, <1>4, <1>5, <1>6

LEMMA AlwaysSafely ==
    ASSUME KeysAreIdentities
    PROVE  Spec => [](Typed /\ InOrder /\ Solo /\ Known /\ Safely)
<1>1. Init => Typed /\ InOrder /\ Solo /\ Known /\ Safely
  <2>1. Init => ReleasedOnce  BY DEF Init, ReleasedOnce
  <2> QED  BY <2>1, InitInOrder, InitSolo, InitKnown, InitTyped, InitHeld DEF Safely
<1>2. Typed /\ InOrder /\ Solo /\ Known /\ Safely /\ [Next]_vars
      => (Typed /\ InOrder /\ Solo /\ Known /\ Safely)'
  BY OrderKept, SoloKept, KnownKept, PlacedKept, OwnedKept, ListedKept, BegunKept, SafelyKept
  DEF Typed
<1> QED  BY <1>1, <1>2, PTL DEF Spec

\* Whatever can still call back into the program, the page, a listener, a delay or a
\* message on its way, finds its callback retained, although frames and subscriptions
\* change and let theirs go meanwhile (browser.ts:497-521, 3069-3085, 3965-4017).
THEOREM CallbacksAlwaysOutlive ==
    ASSUME KeysAreIdentities
    PROVE  Spec => []CallbacksOutliveUses
<1>1. Spec => [](Typed /\ InOrder /\ Solo /\ Known /\ Safely)  BY AlwaysSafely
<1>2. Typed /\ InOrder /\ Solo /\ Known /\ Safely => CallbacksOutliveUses
  BY SafelyImpliesOutlive
<1> QED  BY <1>1, <1>2, PTL

\* No callback is released twice while the application lives: the registry would throw
\* and leave the rest of the batch retained (retained-callbacks.ts:100-109).
THEOREM ReleasedOnceAlways ==
    ASSUME KeysAreIdentities
    PROVE  Spec => []ReleasedOnce
<1>1. Spec => [](Typed /\ InOrder /\ Solo /\ Known /\ Safely)  BY AlwaysSafely
<1>2. Typed /\ InOrder /\ Solo /\ Known /\ Safely => ReleasedOnce  BY DEF Safely
<1> QED  BY <1>1, <1>2, PTL

-----------------------------------------------------------------------------
(* What the last step has asked for.                                       *)

\* A step brings the whole of its list in line, one entry after the other.
Asking ==
    \A p \in Proc : p # Repaint =>
        /\ pc[p] \in {"stepped", "removing", "dropping"} => todo[p] = want[p]
        /\ pc[p] \in Syncing => asked = want[p]
        /\ pc[p] \in {"syncing", "replacing", "starting"} =>
              /\ \A r \in active : r.key \in KeysOf(asked)
              /\ \A w \in Range(asked) :
                    w \in Entries(p) \/ \E r \in active : r.key = w.key /\ r.sig = w.sig

\* When none is at it, the subscriptions are those of the last list.
Answered == (\A p \in Proc : pc[p] \notin Syncing) /\ Failures = {}
            => {[key |-> r.key, sig |-> r.sig] : r \in active} = Range(asked)

\* Whoever is on record, or about to be, listens.
Heard == /\ \A r \in active : \E l \in live : l.key = r.key /\ l.by = r.by
         /\ \A p \in Proc : pc[p] = "starting" =>
               \E l \in live : l.key = Head(todo[p]).key /\ l.by = p

\* What a callback is retained for.
Needs(h) ==
    \/ \E q \in shown : h = View(q)
    \/ \E q \in Proc : pc[q] = "stepped" /\ h = View(q)
    \/ \E q \in Proc : Uses(q) /\ h = Mapper(q)
    \/ \E r \in active : h = r.own
    \/ \E q \in Proc : h \in drop[q]
    \/ h \in owed
    \/ \E q \in Proc : q # Repaint /\ pc[q] \in Working /\ h = Lift(q)
Counted == Failures = {} => \A h \in Good : Needs(h)

Settling == Asking /\ Answered /\ Heard /\ Counted

\* p goes on to s, and the messages of M are dispatched.
Onward(p, s, M) ==
    /\ M \subseteq {m \in Message : pc[m] = "new"}
    /\ \A q \in Proc : pc'[q] = IF q \in M THEN "queued" ELSE IF q = p THEN s ELSE pc[q]
    /\ pc[p] \in {"failing", "failed"} => s \in {"failing", "failed"}
    /\ p \in M => s = pc[p]

LEMMA GoesOnward ==
    ASSUME Sane, NEW p \in Proc, NEW s, NEW M \in {{}, Fresh}, NEW h, Goto(p, s, M, h),
           pc[p] \in {"failing", "failed"} => s \in {"failing", "failed"},
           pc[p] # "new" \/ s = pc[p] \/ p = Repaint
    PROVE  Onward(p, s, M)
<1>1. M \subseteq {m \in Message : pc[m] = "new"}  BY NewOnes DEF Sane
<1>2. pc \in [Proc -> States]  BY DEF Sane, InOrder, Shape
<1> QED  BY <1>1, <1>2, Procs DEF Onward, Goto

LEMMA FailuresStay ==
    ASSUME NEW p \in Proc, NEW s, NEW M, Onward(p, s, M), Failures' = {}
    PROVE  Failures = {} /\ s \notin {"failing", "failed"}
BY Procs DEF Failures, Onward

\* The subscriptions stay as they are, and p neither begins nor ends to bring them in line.
LEMMA SameSubs ==
    ASSUME Asking, Answered, Heard, NEW p \in Proc, NEW s, NEW M, Onward(p, s, M),
           UNCHANGED <<active, live, asked>>,
           \A q \in Proc \ {p} : todo'[q] = todo[q] /\ want'[q] = want[q],
           \/ s = pc[p] /\ todo'[p] = todo[p] /\ want'[p] = want[p]
           \/ s = "stepped" /\ pc[p] \notin Syncing /\ (p = Repaint \/ todo'[p] = want'[p])
           \/ s \notin {"stepped"} \cup Syncing /\ pc[p] \notin Syncing
           \/ s \in {"failing", "failed"}
    PROVE  Asking' /\ Answered' /\ Heard'
<1>1. ASSUME NEW q \in Proc, pc'[q] \in {"stepped"} \cup Syncing
      PROVE  \/ pc'[q] = pc[q] /\ todo'[q] = todo[q] /\ want'[q] = want[q]
             \/ pc'[q] = "stepped" /\ (q = Repaint \/ todo'[q] = want'[q])
  BY <1>1 DEF Onward, Syncing
<1>2. Asking'
  <2>1. ASSUME NEW q \in Proc, q # Repaint, pc'[q] \in {"stepped"} \cup Syncing
        PROVE  /\ pc'[q] \in {"stepped", "removing", "dropping"} => todo'[q] = want'[q]
               /\ pc'[q] \in Syncing => asked' = want'[q]
               /\ pc'[q] \in {"syncing", "replacing", "starting"} =>
                     /\ \A r \in active' : r.key \in KeysOf(asked')
                     /\ \A w \in Range(asked') :
                          w \in Entries(q)' \/ \E r \in active' : r.key = w.key /\ r.sig = w.sig
    <3>1. CASE pc'[q] = pc[q] /\ todo'[q] = todo[q] /\ want'[q] = want[q]
      BY <2>1, <3>1 DEF Asking, Entries
    <3>2. CASE pc'[q] = "stepped" /\ (q = Repaint \/ todo'[q] = want'[q])
      BY <2>1, <3>2 DEF Syncing
    <3> QED  BY <1>1, <2>1, <3>1, <3>2
  <2> QED  BY <2>1 DEF Asking, KeysOf, Syncing
<1>3. Answered'
  <2>1. SUFFICES ASSUME \A q \in Proc : pc'[q] \notin Syncing, Failures' = {}
                 PROVE  {[key |-> r.key, sig |-> r.sig] : r \in active'} = Range(asked')
    BY DEF Answered
  <2>2. \A q \in M : q \in Proc /\ pc[q] \notin Syncing  BY Procs DEF Onward, Syncing
  <2>3. Failures = {} /\ s \notin {"failing", "failed"}  BY <2>1, FailuresStay
  <2>5. \A q \in Proc : pc[q] \notin Syncing
    BY <2>1, <2>2, <2>3 DEF Onward
  <2> QED  BY <2>3, <2>5 DEF Answered
<1>4. Heard'
  <2>1. \A q \in Proc : pc'[q] = "starting" => pc[q] = "starting" /\ todo'[q] = todo[q]
    BY <1>1 DEF Syncing
  <2> QED  BY <2>1 DEF Heard
<1> QED  BY <1>2, <1>3, <1>4

LEMMA FailedCounts == ASSUME NEW p \in Proc, pc'[p] \in {"failing", "failed"} PROVE Counted'
BY DEF Counted, Failures

\* The callback h is needed as it was, by whomever but p.
LEMMA StillNeeded ==
    ASSUME NEW p \in Proc, NEW s, NEW M, Onward(p, s, M),
           \A q \in Proc \ {p} : todo'[q] = todo[q],
           UNCHANGED <<shown, active, drop>>, NEW h, Needs(h),
           pc[p] = "stepped" => s = "stepped",
           Uses(p) => s \in {"stepped"} \cup Syncing /\ todo'[p] # <<>>,
           h \in owed => h \in owed',
           p # Repaint /\ pc[p] \in Working /\ h = Lift(p) => s \in Working \/ h \in owed'
    PROVE  Needs(h)'
<1>1. \A q \in M : q \in Proc /\ pc[q] = "new"  BY Procs DEF Onward
<1>2. \A q \in Proc : pc[q] = "stepped" => pc'[q] = "stepped"  BY <1>1 DEF Onward
<1>3. \A q \in Proc : Uses(q) => Uses(q)'  BY <1>1 DEF Onward, Uses, Syncing
<1>4. \A q \in Proc : q # Repaint /\ pc[q] \in Working /\ h = Lift(q) => pc'[q] \in Working \/ h \in owed'
  BY <1>1 DEF Onward, Working, Syncing
<1>5. Needs(h)' <=>
        \/ \E q \in shown' : h = View(q)
        \/ \E q \in Proc : pc'[q] = "stepped" /\ h = View(q)
        \/ \E q \in Proc : Uses(q)' /\ h = Mapper(q)
        \/ \E r \in active' : h = r.own
        \/ \E q \in Proc : h \in drop'[q]
        \/ h \in owed'
        \/ \E q \in Proc : q # Repaint /\ pc'[q] \in Working /\ h = Lift(q)
  BY DEF Needs, View, Mapper, Lift
<1> QED  BY <1>2, <1>3, <1>4, <1>5 DEF Needs

\* What is dispatched leaves the callbacks as they are; what is released is one less.
LEMMA SendsGood ==
    ASSUME Sane, NEW p \in Proc, NEW M \in {{}, Fresh}, NEW C, C = chain \/ C = Without(p),
           chain' = C \o Steps(M), retained' = retained
    PROVE  Good' = Good
<1>1. Shape /\ Queue /\ M \in SUBSET Message  BY FreshTyped DEF Sane, InOrder, Held
<1>2. C \in Seq(Item) /\ Dues(C) = Dues(chain)  BY <1>1, WithoutQueue
<1>3. Dues(chain') = Dues(C)  BY <1>1, <1>2, StepsAdded
<1> QED  BY <1>2, <1>3 DEF Good

LEMMA ReleasesGood ==
    ASSUME Sane, NEW R \in SUBSET Handler, R \subseteq Good, chain' = chain \o Releases(R),
           retained' = retained
    PROVE  Good' = Good \ R
<1>1. chain \in Seq(Item) /\ R \cap Dues(chain) = {}  BY DEF Sane, InOrder, Shape, Good
<1>2. Dues(chain') = Dues(chain) \cup R  BY <1>1, ReleasesAdded
<1> QED  BY <1>2 DEF Good

\* p goes on or settles; what it gives up it is owed.
LEMMA SendsSettle ==
    ASSUME Sane, Settling, NEW p \in Proc, NEW s, NEW M \in {{}, Fresh}, Onward(p, s, M),
           NEW C, C = chain \/ C = Without(p), chain' = C \o Steps(M),
           UNCHANGED <<retained, shown, active, live, drop, asked>>,
           \A q \in Proc \ {p} : todo'[q] = todo[q] /\ want'[q] = want[q],
           \/ s = pc[p] /\ todo'[p] = todo[p] /\ want'[p] = want[p]
           \/ s \notin {"stepped"} \cup Syncing /\ pc[p] \notin {"stepped"} \cup Syncing
           \/ s \in {"failing", "failed"} /\ M = {},
           owed \subseteq owed',
           pc[p] \in Working => s \in Working \cup {"failing", "failed"} \/ Lift(p) \in owed' \/ Lift(p) \notin Good
    PROVE  Settling'
<1>1. Asking' /\ Answered' /\ Heard'  BY SameSubs DEF Settling
<1>2. CASE s \in {"failing", "failed"}
  <2>1. pc'[p] \in {"failing", "failed"}  BY <1>2 DEF Onward
  <2> QED  BY <1>1, <2>1, FailedCounts DEF Settling
<1>3. CASE s \notin {"failing", "failed"}
  <2>1. Good' = Good  BY SendsGood
  <2>2. ASSUME NEW h \in Good, Needs(h) PROVE Needs(h)'
    <3>1. p # Repaint /\ pc[p] \in Working /\ h = Lift(p) => s \in Working \/ h \in owed'
      BY <1>3, <2>2
    <3>2. Uses(p) => s \in {"stepped"} \cup Syncing /\ todo'[p] # <<>>
      BY <1>3 DEF Uses
    <3>3. pc[p] = "stepped" => s = "stepped"  BY <1>3
    <3> QED  BY <2>2, <3>1, <3>2, <3>3, StillNeeded
  <2>3. Failures' = {} => Failures = {}  BY FailuresStay
  <2>4. Counted'
    <3>1. SUFFICES ASSUME Failures' = {}, NEW h \in Good' PROVE Needs(h)'
      BY DEF Counted, Needs, Good, View, Mapper, Lift
    <3> QED  BY <2>1, <2>2, <2>3, <3>1 DEF Settling, Counted
  <2> QED  BY <1>1, <2>4 DEF Settling
<1> QED  BY <1>2, <1>3

\* A step that fails asks for nothing more.
LEMMA ErrorsSettle ==
    ASSUME Sane, Settling, NEW p \in Proc, Errors(p) \/ Reject(p), ~ disposed'
    PROVE  Settling'
<1> USE DEF program, display, step, subs, commands, hooks, ending, history
<1>1. PICK s \in {"failing", "failed"} : Goto(p, s, {}, {})
  BY DEF Errors, FailStep, RenderThrows, StartThrows, ExecuteThrows, Reject
<1>2. pc[p] # "new"
  BY DEF Errors, FailStep, RenderThrows, StartThrows, ExecuteThrows, Reject
<1>3. /\ UNCHANGED <<active, live, asked>>
      /\ \A q \in Proc \ {p} : todo'[q] = todo[q] /\ want'[q] = want[q]
  <2>1. CASE Errors(p)
    BY <2>1 DEF Errors, FailStep, RenderThrows, StartThrows, ExecuteThrows
  <2>2. CASE Reject(p)
    <3>1. todo \in [Proc -> Seq(Wanted)] /\ want \in [Proc -> Configs \cup {<<>>}]
      BY DEF Sane, Typed, Listed
    <3> QED  BY <2>2, <3>1 DEF Reject, TearDown
  <2> QED  BY <2>1, <2>2
<1>4. Onward(p, s, {})
  <2>1. {} \in {{}, Fresh}  OBVIOUS
  <2> QED  BY <1>1, <1>2, <2>1, GoesOnward
<1>5. pc'[p] \in {"failing", "failed"}  BY <1>4 DEF Onward
<1> QED  BY <1>3, <1>4, <1>5, SameSubs, FailedCounts DEF Settling

LEMMA BeginStepSettles == ASSUME Sane, Settling, NEW m \in Message, BeginStep(m) PROVE Settling'
<1>1. /\ pc[m] = "queued" /\ m \in Proc
      /\ UNCHANGED <<retained, shown, active, live, drop, asked, todo, want, owed>>
  BY Procs DEF BeginStep, Ready, display, step, subs, commands
<1>2. PICK s \in {"failing", "stepping"} : Goto(m, s, {}, {}) /\ chain' = chain
  BY DEF BeginStep, Sane
<1>3. Onward(m, s, {})
  <2>1. {} \in {{}, Fresh} /\ pc[m] \notin {"failing", "failed", "new"}  BY <1>1
  <2> QED  BY <1>1, <1>2, <2>1, GoesOnward
<1>4. {s, pc[m]} \cap ({"stepped"} \cup Syncing) = {} /\ pc[m] \notin Working
  BY <1>1 DEF Working, Syncing
<1> QED  BY <1>1, <1>2, <1>3, <1>4, NothingSent, SendsSettle

LEMMA InputSettles ==
    ASSUME Sane, Settling, UserEvent \/ \E l \in live : Emit(l)
    PROVE  Settling'
<1>1. /\ chain' = chain \o Steps(Fresh)
      /\ UNCHANGED <<retained, shown, active, live, drop, asked, todo, want, owed>>
  BY DEF UserEvent, Emit, display, step, subs, commands
<1>2. PICK h : Goto(Mount, pc[Mount], Fresh, h)
  BY DEF UserEvent, Emit
<1>3. Onward(Mount, pc[Mount], Fresh)
  <2>1. Fresh \in {{}, Fresh} /\ Mount \in Proc  BY Procs
  <2> QED  BY <1>2, <2>1, GoesOnward
<1> QED  BY <1>1, <1>3, Procs, NothingSent, SendsSettle

LEMMA CommandsSettle ==
    ASSUME Sane, Settling, NEW p \in Proc, Commands(p), ~ ReleaseLift(p)
    PROVE  Settling'
<1> USE DEF program, display, step, subs, commands, hooks, ending, history
<1>1. /\ "awaiting" \in Working /\ "executing" \in Working /\ "commands" \in Working
      /\ {"awaiting", "executing", "commands", "done"} \cap ({"stepped"} \cup Syncing) = {}
      /\ {} \in {{}, Fresh} /\ Fresh \in {{}, Fresh} /\ Good \subseteq retained
  BY DEF Working, Syncing, Good
\* A command under way goes on, ends, or is the last.
<1>2. ASSUME NEW s \in {"awaiting", "executing", "commands", "done", "failing"}, NEW h,
             NEW M \in {{}, Fresh}, Goto(p, s, M, h), s = "failing" => M = {},
             pc[p] \in {"awaiting", "executing", "commands"},
             NEW C, C = chain \/ C = Without(p), chain' = C \o Steps(M),
             UNCHANGED <<retained, shown, active, live, drop, asked, todo, want>>,
             owed \subseteq owed', s = "done" => Lift(p) \in owed' \/ Lift(p) \notin retained
      PROVE  Settling'
  <2>1. pc[p] \notin {"failing", "failed", "new"}  BY <1>2
  <2>2. Onward(p, s, M)  BY <1>2, <2>1, GoesOnward
  <2>3. pc[p] \notin {"stepped"} \cup Syncing  BY <1>1, <1>2
  <2>4. \/ s \notin {"stepped"} \cup Syncing /\ pc[p] \notin {"stepped"} \cup Syncing
        \/ s \in {"failing", "failed"} /\ M = {}
    BY <1>1, <1>2, <2>3
  <2>5. s \in Working \cup {"failing", "failed"} \/ Lift(p) \in owed' \/ Lift(p) \notin Good
    BY <1>1, <1>2
  <2> QED  BY <1>2, <2>2, <2>4, <2>5, SendsSettle
<1>3. chain = chain \o Steps({})  BY NothingSent
<1>4. CASE MessageCommand(p)
  <2>1. /\ Goto(p, "awaiting", Fresh, {Lift(p)}) /\ chain' = chain \o Steps(Fresh)
        /\ pc[p] = "commands"
        /\ UNCHANGED <<retained, shown, active, live, drop, asked, todo, want, owed>>
    BY <1>4 DEF MessageCommand, Command
  <2> QED  BY <1>1, <1>2, <2>1
<1>5. CASE MessageHandled(p)
  <2>1. PICK s \in {"failing", "commands"} : Goto(p, s, {}, {}) /\ owed \subseteq owed'
    BY <1>5 DEF MessageHandled
  <2>2. /\ chain' = chain /\ pc[p] = "awaiting"
        /\ UNCHANGED <<retained, shown, active, live, drop, asked, todo, want>>
    BY <1>5 DEF MessageHandled
  <2> QED  BY <1>1, <1>2, <1>3, <2>1, <2>2
<1>6. CASE DelayCommand(p)
  <2>1. /\ pc[p] = "commands"
        /\ UNCHANGED <<pc, via, chain, retained, shown, active, live, drop, asked, todo, want, owed>>
    BY <1>6 DEF DelayCommand, Command
  <2>2. Goto(p, "commands", {}, {})  BY <2>1, StaysPut DEF Settled
  <2> QED  BY <1>1, <1>2, <1>3, <2>1, <2>2
<1>7. CASE DelayFires(p)
  <2>1. PICK M \in {{}, Fresh} : Goto(p, pc[p], M, {Lift(p)}) /\ chain' = chain \o Steps(M)
    BY <1>7 DEF DelayFires
  <2>2. UNCHANGED <<retained, shown, active, live, drop, asked, todo, want, owed>>
    BY <1>7 DEF DelayFires
  <2>3. Onward(p, pc[p], M)  BY <2>1, GoesOnward
  <2> QED  BY <2>1, <2>2, <2>3, SendsSettle
<1>8. CASE ExecuteCommand(p)
  <2>1. /\ Goto(p, "executing", {}, {}) /\ chain' = chain /\ pc[p] = "commands"
        /\ UNCHANGED <<retained, shown, active, live, drop, asked, todo, want, owed>>
    BY <1>8 DEF ExecuteCommand, Command
  <2> QED  BY <1>1, <1>2, <1>3, <2>1
<1>9. CASE Executed(p)
  <2>1. PICK M \in {{}, Fresh} : Goto(p, "commands", M, {Lift(p)}) /\ chain' = chain \o Steps(M)
    BY <1>9 DEF Executed
  <2>2. /\ pc[p] = "executing"
        /\ UNCHANGED <<retained, shown, active, live, drop, asked, todo, want, owed>>
    BY <1>9 DEF Executed
  <2> QED  BY <1>1, <1>2, <2>1, <2>2
<1>10. CASE Finish(p)
  <2>1. PICK M \in {{}, Fresh} : (\E h : Goto(p, "done", M, h)) /\ chain' = Without(p) \o Steps(M)
    BY <1>10 DEF Finish
  <2>3. PICK h : Goto(p, "done", M, h)  BY <2>1
  <2>2. /\ pc[p] = "commands" /\ owed' = owed \cup ({Lift(p)} \cap retained)
        /\ UNCHANGED <<retained, shown, active, live, drop, asked, todo, want>>
    BY <1>10 DEF Finish
  <2> QED  BY <1>1, <1>2, <2>1, <2>2, <2>3
<1> QED
  BY <1>4, <1>5, <1>6, <1>7, <1>8, <1>9, <1>10 DEF Commands

\* A release that has come to its turn was not counted, one that is to come no longer is.
LEMMA ReleasesSettle ==
    ASSUME Sane, Settling, NEW R, Good' = Good \ R, \A h \in owed : h \in owed' \/ h \in R,
           UNCHANGED <<pc, todo, want, shown, active, live, drop, asked>>
    PROVE  Settling'
<1>1. Onward(Mount, pc[Mount], {}) /\ Mount \in Proc  BY Procs DEF Onward
<1>2. Asking' /\ Answered' /\ Heard'  BY <1>1, SameSubs DEF Settling
<1>3. Counted'
  <2>1. SUFFICES ASSUME Failures' = {}, NEW h \in Good' PROVE Needs(h)'
    BY DEF Counted, Needs, Good, View, Mapper, Lift
  <2>2. Failures = {}  BY <1>1, <2>1, FailuresStay
  <2>3. Needs(h) /\ (h \in owed => h \in owed')  BY <2>1, <2>2 DEF Settling, Counted
  <2> QED  BY <1>1, <2>3, StillNeeded DEF Uses
<1> QED  BY <1>2, <1>3 DEF Settling

LEMMA RunsSettle ==
    ASSUME Sane, Settling, RunRelease \/ \E p \in Proc : ReleaseLift(p)
    PROVE  Settling'
<1> USE DEF program, display, step, subs, commands, hooks, ending, history
<1>1. CASE RunRelease
  <2>1. Good' = Good \ {}
    <3>1. Shape /\ Queue  BY DEF Sane, InOrder, Held
    <3> QED  BY <1>1, <3>1, QueueRuns
  <2> QED  BY <1>1, <2>1, ReleasesSettle DEF RunRelease
<1>2. ASSUME NEW p \in Proc, ReleaseLift(p) PROVE Settling'
  <2>1. /\ Lift(p) \in owed /\ owed' = owed \ {Lift(p)} /\ chain' = chain \o Releases({Lift(p)})
        /\ UNCHANGED <<pc, todo, want, retained, shown, active, live, drop, asked>>
    BY <1>2 DEF ReleaseLift, LastUse
  <2>2. {Lift(p)} \subseteq Good /\ {Lift(p)} \in SUBSET Handler
    BY <2>1, Handlers DEF Sane, Held, Lifted
  <2>3. Good' = Good \ {Lift(p)}  BY <2>1, <2>2, ReleasesGood
  <2> QED  BY <2>1, <2>3, ReleasesSettle
<1> QED  BY <1>1, <1>2

\* The program's answer: what it retains is needed at once.
LEMMA BornSettles ==
    ASSUME Sane, Settling, NEW p \in Proc, pc[p] \in Before, Goto(p, "stepped", {}, {}),
           chain' = chain, NEW N, retained' = retained \cup N,
           \A h \in N : \/ h = View(p)
                        \/ h = Mapper(p) /\ p # Repaint /\ todo'[p] # <<>>
                        \/ h = Lift(p) /\ p # Repaint,
           UNCHANGED <<shown, active, live, drop, owed, asked>>, p = Repaint \/ todo'[p] = want'[p],
           \A q \in Proc \ {p} : todo'[q] = todo[q] /\ want'[q] = want[q]
    PROVE  Settling'
<1>1. pc[p] \notin {"stepped"} \cup Syncing \cup Working /\ pc[p] \notin {"failing", "failed"}
  BY DEF Before, Syncing, Working
<1>2. Onward(p, "stepped", {})
  <2>1. \A q \in Proc : pc'[q] = IF q = p THEN "stepped" ELSE pc[q]
    BY DEF Goto, Sane, InOrder, Shape
  <2> QED  BY <1>1, <2>1 DEF Onward
<1>3. Asking' /\ Answered' /\ Heard'  BY <1>1, <1>2, SameSubs DEF Settling
<1>4. Counted'
  <2>1. SUFFICES ASSUME Failures' = {}, NEW h \in Good' PROVE Needs(h)'
    BY DEF Counted, Needs, Good, View, Mapper, Lift
  <2>2. h \in Good \/ h \in N  BY DEF Good
  <2>3. Failures = {}  BY <1>2, <2>1, FailuresStay
  <2>4. CASE h \in Good
    <3>1. Needs(h)  BY <2>3, <2>4 DEF Settling, Counted
    <3> QED  BY <1>1, <1>2, <3>1, StillNeeded DEF Uses
  <2>5. CASE h \in N
    <3>1. pc'[p] = "stepped" /\ "stepped" \in Working  BY <1>2 DEF Onward, Working
    <3>2. p # Repaint /\ todo'[p] # <<>> => Uses(p)'  BY <3>1 DEF Uses
    <3>3. CASE h = View(p)  BY <3>1, <3>3 DEF Needs, View
    <3>4. CASE h = Mapper(p) /\ p # Repaint /\ todo'[p] # <<>>
      BY <3>2, <3>4 DEF Needs, Mapper
    <3>5. CASE h = Lift(p) /\ p # Repaint  BY <3>1, <3>5 DEF Needs, Lift
    <3> QED  BY <2>5, <3>3, <3>4, <3>5
  <2> QED  BY <2>2, <2>4, <2>5
<1> QED  BY <1>3, <1>4 DEF Settling

LEMMA EndStepSettles == ASSUME Sane, Settling, NEW p \in Proc, EndStep(p) PROVE Settling'
<1>1. PICK config \in Configs, list \in Programs :
          /\ want' = [want EXCEPT ![p] = config] /\ todo' = [todo EXCEPT ![p] = config]
          /\ retained' = retained \cup {View(p)}
                                  \cup (IF config = <<>> THEN {} ELSE {Mapper(p)})
                                  \cup (IF list = <<>> THEN {} ELSE {Lift(p)})
  BY DEF EndStep
<1>2. /\ Goto(p, "stepped", {}, {}) /\ chain' = chain /\ pc[p] \in Before /\ p # Repaint
      /\ UNCHANGED <<shown, active, live, drop, owed, asked>>
  BY DEF EndStep, display, subs, commands, Before
<1>3. want \in [Proc -> Configs \cup {<<>>}] /\ todo \in [Proc -> Seq(Wanted)]
  BY DEF Sane, Typed, Listed
<1> DEFINE N == {View(p)} \cup (IF config = <<>> THEN {} ELSE {Mapper(p)})
                          \cup (IF list = <<>> THEN {} ELSE {Lift(p)})
<1>4. retained' = retained \cup N  BY <1>1
<1>5. /\ want'[p] = config /\ todo'[p] = config
      /\ \A q \in Proc \ {p} : todo'[q] = todo[q] /\ want'[q] = want[q]
  BY <1>1, <1>3
<1>6. \A h \in N : \/ h = View(p)
                   \/ h = Mapper(p) /\ p # Repaint /\ todo'[p] # <<>>
                   \/ h = Lift(p) /\ p # Repaint
  BY <1>2, <1>5
<1> HIDE DEF N
<1> QED  BY <1>2, <1>4, <1>5, <1>6, BornSettles

LEMMA RenderSettles == ASSUME Sane, Settling, Render PROVE Settling'
<1>1. /\ Goto(Repaint, "stepped", {}, {}) /\ chain' = chain /\ pc[Repaint] \in Before
      /\ UNCHANGED <<shown, active, live, drop, owed, todo, want, asked>>
      /\ retained' = retained \cup {View(Repaint)}
  BY DEF Render, display, step, subs, commands, Before
<1> DEFINE N == {View(Repaint)}
<1>2. retained' = retained \cup N /\ \A h \in N : h = View(Repaint)  BY <1>1
<1> HIDE DEF N
<1> QED  BY <1>1, <1>2, Procs, BornSettles

LEMMA ApplySettles == ASSUME Sane, Settling, NEW p \in Proc, Apply(p) PROVE Settling'
<1> DEFINE R == {View(q) : q \in shown}
<1>1. PICK s \in {"done", "removing"} : /\ Goto(p, s, {}, {}) /\ (p = Repaint <=> s = "done")
                                        /\ IF p = Repaint THEN asked' = asked ELSE asked' = want[p]
  BY DEF Apply
<1>2. /\ pc[p] = "stepped" /\ shown' = {p} /\ chain' = chain \o Releases(R)
      /\ UNCHANGED <<retained, active, live, drop, todo, want, owed>>
  BY DEF Apply, step, subs, commands
<1>3. /\ Asking /\ Answered /\ Heard /\ Counted /\ Painted /\ shown \subseteq Proc
      /\ InOrder /\ Solo /\ ~ early
  BY DEF Settling, Sane, Held, Typed, Placed, AtMostOne
<1>4. R \subseteq Good /\ R \in SUBSET Handler  BY <1>3, Handlers DEF Painted
<1> HIDE DEF R
<1>5. Good' = Good \ R  BY <1>2, <1>4, ReleasesGood
<1>6. Onward(p, s, {})
  <2>1. {} \in {{}, Fresh} /\ pc[p] \notin {"failing", "failed", "new"}  BY <1>2
  <2> QED  BY <1>1, <2>1, GoesOnward
<1>7. Asking' /\ Answered' /\ Heard'
  <2>1. CASE p = Repaint
    <3>1. "done" \notin {"stepped"} \cup Syncing /\ pc[p] \notin Syncing /\ s = "done"
      BY <1>1, <1>2, <2>1 DEF Syncing
    <3> QED  BY <1>1, <1>2, <1>3, <1>6, <2>1, <3>1, SameSubs
  <2>2. CASE p # Repaint
    <3>1. /\ pc'[p] = "removing" /\ asked' = want[p] /\ \A q \in Proc \ {p} : pc'[q] = pc[q]
      BY <1>1, <1>6, <2>2 DEF Onward
    <3>2. \A q \in Proc : pc'[q] \in Syncing => q = p
      <4>1. SUFFICES ASSUME NEW q \in Proc, pc[q] \in Syncing PROVE q = p  BY <3>1
      <4>2. q # Repaint /\ pc[q] \in Active /\ pc[p] \in Active
        BY <1>2, <1>3, <4>1 DEF Solo, Apart, Syncing, Active, Running
      <4> QED  BY <1>3, <2>2, <4>2, OneWorks
    <3>3. Asking'
      <4>1. todo[p] = want[p]  BY <1>2, <1>3, <2>2 DEF Asking
      <4>2. ASSUME NEW q \in Proc, q # Repaint
            PROVE  /\ pc'[q] \in {"stepped", "removing", "dropping"} => todo'[q] = want'[q]
                   /\ pc'[q] \in Syncing => asked' = want'[q]
                   /\ pc'[q] \notin {"syncing", "replacing", "starting"}
        BY <1>2, <1>3, <3>1, <3>2, <4>1, <4>2 DEF Asking, Syncing
      <4> QED  BY <4>2 DEF Asking
    <3>4. Answered'  BY <3>1 DEF Answered, Syncing
    <3>5. Heard'  BY <1>2, <1>3, <3>1 DEF Heard
    <3> QED  BY <3>3, <3>4, <3>5
  <2> QED  BY <2>1, <2>2
<1>8. Counted'
  <2>1. SUFFICES ASSUME Failures' = {}, NEW h \in Good' PROVE Needs(h)'
    BY DEF Counted, Needs, Good, View, Mapper, Lift
  <2>2. Failures = {}  BY <1>6, <2>1, FailuresStay
  <2>3. Needs(h) /\ h \notin R  BY <1>3, <1>5, <2>2 DEF Counted
  <2>4. pc'[p] = s /\ \A q \in Proc \ {p} : pc'[q] = pc[q]  BY <1>6 DEF Onward
  <2>5. CASE \E q \in shown : h = View(q)  BY <2>3, <2>5 DEF R
  <2>6. ASSUME NEW q \in Proc, pc[q] = "stepped", h = View(q) PROVE Needs(h)'
    <3>1. q \in shown' \/ pc'[q] = "stepped"  BY <1>2, <2>4, <2>6
    <3> QED  BY <2>6, <3>1 DEF Needs, View
  <2>7. ASSUME NEW q \in Proc, Uses(q), h = Mapper(q) PROVE Needs(h)'
    <3>1. Uses(q)'  BY <1>1, <1>2, <2>4, <2>7 DEF Uses, Syncing
    <3> QED  BY <2>7, <3>1 DEF Needs, Mapper
  <2>8. ASSUME NEW q \in Proc, q # Repaint, pc[q] \in Working, h = Lift(q) PROVE Needs(h)'
    <3>1. pc'[q] \in Working  BY <1>1, <2>4, <2>8 DEF Working, Syncing
    <3> QED  BY <2>8, <3>1 DEF Needs, Lift
  <2>9. CASE (\E r \in active : h = r.own) \/ (\E q \in Proc : h \in drop[q]) \/ h \in owed
    BY <1>2, <2>9 DEF Needs
  <2> QED  BY <2>3, <2>5, <2>6, <2>7, <2>8, <2>9 DEF Needs
<1> QED  BY <1>7, <1>8 DEF Settling

\* p is at its list and stays at it.
LEMMA StaysAtIt ==
    ASSUME Sane, Asking, NEW p \in Proc, pc[p] \in Syncing, NEW s \in Syncing, NEW M, Onward(p, s, M),
           UNCHANGED <<asked, want>>, \A q \in Proc \ {p} : todo'[q] = todo[q],
           s \in {"removing", "dropping"} => todo'[p] = want[p],
           s \in {"syncing", "replacing", "starting"} =>
               /\ \A r \in active' : r.key \in KeysOf(want[p])
               /\ \A w \in Range(want[p]) :
                     w \in Entries(p)' \/ \E r \in active' : r.key = w.key /\ r.sig = w.sig
    PROVE  /\ Asking' /\ Answered' /\ p # Repaint
           /\ pc'[p] = s /\ \A q \in Proc : pc'[q] \in Syncing => q = p
<1>1. p # Repaint  BY DEF Sane, Solo, Apart, Syncing
<1>2. \A q \in M : q \in Proc /\ pc[q] = "new"  BY Procs DEF Onward
<1>3. pc'[p] = s /\ \A q \in Proc \ {p} : pc'[q] \in {"stepped"} \cup Syncing => pc'[q] = pc[q]
  BY <1>2 DEF Onward, Syncing
<1>4. \A q \in Proc : pc'[q] \in Syncing => q = p
  <2>1. SUFFICES ASSUME NEW q \in Proc, pc[q] \in Syncing PROVE q = p  BY <1>3
  <2>2. q # Repaint /\ pc[q] \in Active /\ pc[p] \in Active
    BY <2>1 DEF Sane, Solo, Apart, Syncing, Active, Running
  <2> QED  BY <1>1, <2>2, OneWorks DEF Sane
<1>5. Asking'
  <2>1. ASSUME NEW q \in Proc, q # Repaint, q # p
        PROVE  /\ pc'[q] \in {"stepped", "removing", "dropping"} => todo'[q] = want'[q]
               /\ pc'[q] \notin Syncing
    BY <1>3, <1>4, <2>1 DEF Asking, Syncing
  <2>2. asked = want[p]  BY <1>1 DEF Asking
  <2>3. /\ pc'[p] \in {"stepped", "removing", "dropping"} => todo'[p] = want'[p]
        /\ asked' = want'[p]
        /\ pc'[p] \in {"syncing", "replacing", "starting"} =>
              /\ \A r \in active' : r.key \in KeysOf(asked')
              /\ \A w \in Range(asked') :
                    w \in Entries(p)' \/ \E r \in active' : r.key = w.key /\ r.sig = w.sig
    BY <1>3, <2>2 DEF Syncing
  <2> QED  BY <2>1, <2>3 DEF Asking, KeysOf, Syncing
<1>6. Answered'  BY <1>3 DEF Answered
<1> QED  BY <1>1, <1>3, <1>4, <1>5, <1>6

\* Nothing is released, and the records and what is to be dropped are as they were.
LEMMA StillCounted ==
    ASSUME Settling, NEW p \in Proc, NEW s \in Syncing \cup {"commands"}, NEW M, Onward(p, s, M),
           UNCHANGED <<shown, active, drop, owed, todo>>, Good' = Good, pc[p] \in Syncing,
           s = "commands" => todo[p] = <<>>
    PROVE  Counted'
<1>1. SUFFICES ASSUME Failures' = {}, NEW h \in Good' PROVE Needs(h)'
  BY DEF Counted, Needs, Good, View, Mapper, Lift
<1>2. Failures = {}  BY <1>1, FailuresStay
<1>3. Needs(h)  BY <1>1, <1>2 DEF Settling, Counted
<1>4. s \in Working /\ pc[p] # "stepped" /\ (Uses(p) => s \in {"stepped"} \cup Syncing /\ todo'[p] # <<>>)
  BY DEF Working, Syncing, Uses
<1> QED  BY <1>3, <1>4, StillNeeded

LEMMA ListsSettle ==
    ASSUME Sane, Settling, NEW p \in Proc, RemovedAll(p) \/ Start(p) \/ Synced(p)
    PROVE  Settling'
<1> USE DEF program, display, step, subs, commands, hooks, ending, history
<1>1. /\ Asking /\ Answered /\ Heard /\ Counted /\ {} \in {{}, Fresh} /\ Fresh \in {{}, Fresh}
      /\ {"removing", "syncing", "starting"} \subseteq Syncing
      /\ todo \in [Proc -> Seq(Wanted)] /\ want \in [Proc -> Configs \cup {<<>>}]
      /\ \A r1, r2 \in active : r1.key = r2.key => r1 = r2
  BY DEF Settling, Syncing, Sane, Typed, Listed
<1>2. pc[p] \in Syncing => p # Repaint  BY DEF Sane, Solo, Apart, Syncing
<1>3. CASE RemovedAll(p)
  <2>1. /\ Goto(p, "syncing", {}, {}) /\ pc[p] = "removing" /\ chain' = chain
        /\ \A r \in active : r.key \in KeysOf(want[p])
        /\ UNCHANGED <<retained, shown, active, live, drop, todo, want, asked, owed>>
    BY <1>3 DEF RemovedAll
  <2>2. Onward(p, "syncing", {})  BY <1>1, <2>1, GoesOnward
  <2>3. Range(want[p]) = Entries(p)'
    BY <1>1, <1>2, <2>1 DEF Asking, Entries, Range
  <2>4. Asking' /\ Answered' /\ pc'[p] = "syncing" /\ \A q \in Proc : pc'[q] \in Syncing => q = p
    BY <1>1, <2>1, <2>2, <2>3, StaysAtIt
  <2>5. Heard'  BY <1>1, <2>1, <2>4 DEF Heard
  <2>6. Counted'
    <3>1. Good' = Good  BY <2>1 DEF Good
    <3> QED  BY <1>1, <2>1, <2>2, <3>1, StillCounted
  <2> QED  BY <2>4, <2>5, <2>6 DEF Settling
<1>4. CASE Start(p)
  <2> DEFINE new == [key |-> Head(todo[p]).key, by |-> p, own |-> Mapper(p)]
  <2>1. PICK M \in {{}, Fresh} : Goto(p, "starting", M, {Mapper(p)}) /\ chain' = chain \o Steps(M)
    BY <1>4 DEF Start
  <2>2. /\ pc[p] = "syncing" /\ live' = live \cup {new}
        /\ UNCHANGED <<retained, shown, active, drop, todo, want, asked, owed>>
    BY <1>4 DEF Start
  <2>3. new \in live' /\ new.key = Head(todo[p]).key /\ new.by = p  BY <2>2
  <2>4. live \subseteq live'  BY <2>2
  <2> HIDE DEF new
  <2>5. Onward(p, "starting", M)  BY <2>1, <2>2, GoesOnward
  <2>6. /\ \A r \in active' : r.key \in KeysOf(want[p])
        /\ \A w \in Range(want[p]) :
              w \in Entries(p)' \/ \E r \in active' : r.key = w.key /\ r.sig = w.sig
    BY <1>1, <1>2, <2>2 DEF Asking, Entries
  <2>7. Asking' /\ Answered' /\ pc'[p] = "starting" /\ \A q \in Proc : pc'[q] \in Syncing => q = p
    BY <1>1, <2>2, <2>5, <2>6, StaysAtIt
  <2>8. Heard'
    <3>1. \A r \in active' : \E l \in live' : l.key = r.key /\ l.by = r.by
      BY <1>1, <2>2, <2>4 DEF Heard
    <3>2. \A q \in Proc : pc'[q] = "starting" => q = p  BY <1>1, <2>7
    <3> QED  BY <2>2, <2>3, <3>1, <3>2 DEF Heard
  <2>9. Counted'
    <3>1. Good' = Good  BY <2>1, <2>2, SendsGood
    <3> QED  BY <1>1, <2>2, <2>5, <3>1, StillCounted
  <2> QED  BY <2>7, <2>8, <2>9 DEF Settling
<1>5. CASE Synced(p)
  <2>1. /\ Goto(p, "commands", {}, {}) /\ pc[p] = "syncing" /\ todo[p] = <<>> /\ chain' = chain
        /\ want' = [want EXCEPT ![p] = <<>>]
        /\ UNCHANGED <<retained, shown, active, live, drop, todo, asked, owed>>
    BY <1>5 DEF Synced
  <2>2. Onward(p, "commands", {})  BY <1>1, <2>1, GoesOnward
  <2>3. pc'[p] = "commands" /\ \A q \in Proc \ {p} : pc'[q] = pc[q]  BY <2>2 DEF Onward
  <2>4. \A q \in Proc \ {p} : want'[q] = want[q]  BY <1>1, <2>1
  <2>5. Asking'
    <3>1. ASSUME NEW q \in Proc, q # Repaint, q # p
          PROVE  /\ pc'[q] \in {"stepped", "removing", "dropping"} => todo'[q] = want'[q]
                 /\ pc'[q] \in Syncing => asked' = want'[q]
                 /\ pc'[q] \in {"syncing", "replacing", "starting"} =>
                       /\ \A r \in active' : r.key \in KeysOf(asked')
                       /\ \A w \in Range(asked') :
                             w \in Entries(q)' \/ \E r \in active' : r.key = w.key /\ r.sig = w.sig
      <4>1. /\ pc'[q] = pc[q] /\ want'[q] = want[q] /\ UNCHANGED <<todo, asked, active>>
            /\ Entries(q)' = Entries(q)
        BY <2>1, <2>3, <2>4, <3>1 DEF Entries
      <4> HIDE DEF step, subs, display, program, commands, hooks, ending, history
      <4> QED  BY <1>1, <3>1, <4>1 DEF Asking
    <3> QED  BY <2>3, <3>1 DEF Asking, KeysOf, Syncing
  <2>6. {[key |-> r.key, sig |-> r.sig] : r \in active} = Range(asked)
    <3>1. Entries(p) = {}
      <4>1. DOMAIN <<>> = {}  OBVIOUS
      <4> QED  BY <2>1, <4>1 DEF Entries
    <3>2. asked = want[p] /\ \A r \in active : r.key \in KeysOf(asked)
      BY <1>1, <1>2, <2>1 DEF Asking
    <3>3. \A w \in Range(asked) : \E r \in active : r.key = w.key /\ r.sig = w.sig
      BY <1>1, <1>2, <2>1, <3>1 DEF Asking
    <3>4. \A w \in Range(asked) : w = [key |-> w.key, sig |-> w.sig]
      <4>1. asked = <<>> \/ asked \in Configs  BY <1>1, <3>2
      <4>2. DOMAIN <<>> = {}  OBVIOUS
      <4> QED  BY <4>1, <4>2, ConfigsAreLists DEF Range
    <3>5. ASSUME NEW r \in active PROVE [key |-> r.key, sig |-> r.sig] \in Range(asked)
      <4>1. PICK w \in Range(asked) : w.key = r.key  BY <3>2 DEF KeysOf, Range
      <4>2. PICK x \in active : x.key = w.key /\ x.sig = w.sig  BY <3>3
      <4>3. x = r  BY <1>1, <4>1, <4>2
      <4> QED  BY <3>4, <4>1, <4>2, <4>3
    <3>6. ASSUME NEW w \in Range(asked)
          PROVE  w \in {[key |-> r.key, sig |-> r.sig] : r \in active}
      <4>1. PICK x \in active : x.key = w.key /\ x.sig = w.sig  BY <3>3
      <4>2. w = [key |-> x.key, sig |-> x.sig]  BY <3>4, <4>1
      <4> QED  BY <4>2
    <3> QED  BY <3>5, <3>6
  <2>7. Answered'  BY <2>1, <2>6 DEF Answered
  <2>8. Heard'  BY <1>1, <2>1, <2>3 DEF Heard
  <2>9. Counted'
    <3>1. Good' = Good  BY <2>1 DEF Good
    <3> QED  BY <1>1, <2>1, <2>2, <3>1, StillCounted
  <2> QED  BY <2>5, <2>7, <2>8, <2>9 DEF Settling
<1> QED  BY <1>3, <1>4, <1>5

\* A record goes, and its listener with it: what it is mapped by is to be dropped.
LEMMA DisposeSettles ==
    ASSUME Sane, Settling, NEW p \in Proc, NEW r \in active, NEW s, Dispose(p, r, s),
           \/ pc[p] = "removing" /\ s = "dropping"
           \/ /\ pc[p] = "syncing" /\ s = "replacing"
              /\ \A w \in Range(want[p]) : w.key = r.key => w.sig # r.sig \/ w \in Entries(p)
    PROVE  Settling'
<1>1. /\ active' = active \ {r} /\ drop' = [drop EXCEPT ![p] = {r.own}]
      /\ live' = {l \in live : <<l.key, l.by>> # <<r.key, r.by>>}
      /\ Goto(p, s, {}, {}) /\ chain' = chain
      /\ UNCHANGED <<retained, shown, todo, want, asked, owed>>
  BY DEF Dispose, display, commands
<1>2. /\ Asking /\ Heard /\ Counted /\ Dropping /\ drop \in [Proc -> SUBSET Handler]
      /\ \A r1, r2 \in active : r1.key = r2.key => r1 = r2
  BY DEF Settling, Sane, Held, Typed, Owned, Listed
<1>3. /\ pc[p] \in Syncing /\ s \in Syncing /\ p # Repaint /\ {} \in {{}, Fresh}
      /\ pc[p] \notin {"failing", "failed", "new"} /\ s \in Working
  BY DEF Syncing, Working, Sane, Solo, Apart
<1>4. Onward(p, s, {})  BY <1>1, <1>3, GoesOnward
<1>5. Asking' /\ Answered' /\ pc'[p] = s /\ \A q \in Proc : pc'[q] \in Syncing => q = p
  <2>1. s \in {"removing", "dropping"} => todo'[p] = want[p]
    BY <1>1, <1>2, <1>3 DEF Asking
  <2>2. ASSUME s \in {"syncing", "replacing", "starting"}
        PROVE  /\ \A x \in active' : x.key \in KeysOf(want[p])
               /\ \A w \in Range(want[p]) :
                     w \in Entries(p)' \/ \E x \in active' : x.key = w.key /\ x.sig = w.sig
    <3>1. /\ asked = want[p] /\ \A x \in active : x.key \in KeysOf(asked)
          /\ \A w \in Range(asked) :
                w \in Entries(p) \/ \E x \in active : x.key = w.key /\ x.sig = w.sig
      BY <1>2, <1>3, <2>2 DEF Asking
    <3>2. Entries(p)' = Entries(p)  BY <1>1 DEF Entries
    <3> QED  BY <1>1, <2>2, <3>1, <3>2
  <2> QED  BY <1>1, <1>2, <1>3, <1>4, <2>1, <2>2, StaysAtIt
<1>6. Heard'
  <2>1. ASSUME NEW x \in active' PROVE \E l \in live' : l.key = x.key /\ l.by = x.by
    <3>1. x \in active /\ x.key # r.key  BY <1>1, <1>2, <2>1
    <3>2. PICK l \in live : l.key = x.key /\ l.by = x.by  BY <1>2, <3>1 DEF Heard
    <3> QED  BY <1>1, <3>1, <3>2
  <2>2. \A q \in Proc : pc'[q] # "starting"  BY <1>5 DEF Syncing
  <2> QED  BY <2>1, <2>2 DEF Heard
<1>7. Counted'
  <2>1. SUFFICES ASSUME Failures' = {}, NEW h \in Good' PROVE Needs(h)'
    BY DEF Counted, Needs, Good, View, Mapper, Lift
  <2>2. Failures = {} /\ h \in Good  BY <1>1, <1>4, <2>1, FailuresStay DEF Good
  <2>3. Needs(h)  BY <1>2, <2>2 DEF Counted
  <2>4. pc'[p] = s /\ \A q \in Proc \ {p} : pc'[q] = pc[q]  BY <1>4 DEF Onward
  <2>5. CASE (\E q \in shown : h = View(q)) \/ h \in owed  BY <1>1, <2>5 DEF Needs, View
  <2>6. ASSUME NEW q \in Proc, pc[q] = "stepped", h = View(q) PROVE Needs(h)'
    <3>1. pc'[q] = "stepped"  BY <1>3, <2>4, <2>6 DEF Syncing
    <3> QED  BY <2>6, <3>1 DEF Needs, View
  <2>7. ASSUME NEW q \in Proc, Uses(q), h = Mapper(q) PROVE Needs(h)'
    <3>1. Uses(q)'  BY <1>1, <1>3, <2>4, <2>7 DEF Uses
    <3> QED  BY <2>7, <3>1 DEF Needs, Mapper
  <2>8. ASSUME NEW q \in Proc, q # Repaint, pc[q] \in Working, h = Lift(q) PROVE Needs(h)'
    <3>1. pc'[q] \in Working  BY <1>3, <2>4, <2>8
    <3> QED  BY <2>8, <3>1 DEF Needs, Lift
  <2>9. ASSUME NEW x \in active, h = x.own PROVE Needs(h)'
    <3>1. x \in active' \/ h \in drop'[p]  BY <1>1, <1>2, <2>9
    <3> QED  BY <2>9, <3>1 DEF Needs
  <2>10. ASSUME NEW q \in Proc, h \in drop[q] PROVE Needs(h)'
    <3>1. q # p  BY <1>2, <2>10 DEF Dropping
    <3>2. h \in drop'[q]  BY <1>1, <1>2, <2>10, <3>1
    <3> QED  BY <3>2 DEF Needs
  <2> QED  BY <2>3, <2>5, <2>6, <2>7, <2>8, <2>9, <2>10 DEF Needs
<1> QED  BY <1>5, <1>6, <1>7 DEF Settling

\* What a list describes does not make way for another entry of the list.
LEMMA RemovesSettle ==
    ASSUME Sane, Settling, KeysAreIdentities, NEW p \in Proc, RemoveGone(p) \/ Replace(p)
    PROVE  Settling'
<1>1. CASE RemoveGone(p)
  <2>1. PICK r \in active : Dispose(p, r, "dropping")  BY <1>1 DEF RemoveGone
  <2>2. pc[p] = "removing"  BY <1>1 DEF RemoveGone
  <2> QED  BY <2>1, <2>2, DisposeSettles
<1>2. CASE Replace(p)
  <2>1. PICK r \in active : /\ r.key = Head(todo[p]).key /\ r.sig # Head(todo[p]).sig
                            /\ Dispose(p, r, "replacing")
    BY <1>2 DEF Replace
  <2>2. pc[p] = "syncing" /\ todo[p] # <<>> /\ p # Repaint /\ Uses(p)
    BY <1>2 DEF Replace, Sane, Solo, Apart, Uses, Syncing
  <2>3. Head(todo[p]) \in Range(want[p]) /\ want[p] \in Configs \cup {<<>>}
    <3>1. /\ todo[p] \in Seq(Wanted) /\ want[p] \in Configs \cup {<<>>}
          /\ Entries(p) \subseteq {want[p][i] : i \in DOMAIN want[p]}
      BY <2>2 DEF Sane, Held, Wished, Typed, Listed
    <3>2. Head(todo[p]) \in Entries(p)  BY <2>2, <3>1 DEF Entries
    <3> QED  BY <3>1, <3>2 DEF Range
  <2>4. \A w \in Range(want[p]) : w.key = r.key => w.sig # r.sig
    <3>1. want[p] \in Configs
      <4>1. DOMAIN <<>> = {}  OBVIOUS
      <4> QED  BY <2>3, <4>1 DEF Range
    <3>2. \A v, w \in Range(want[p]) : v.key = w.key => v.sig = w.sig
      BY <3>1 DEF KeysAreIdentities, Range
    <3> QED  BY <2>1, <2>3, <3>2
  <2> QED  BY <2>1, <2>2, <2>4, DisposeSettles
<1> QED  BY <1>1, <1>2

LEMMA DroppedSettles == ASSUME Sane, Settling, NEW p \in Proc, Dropped(p) PROVE Settling'
<1> DEFINE R == Unused(drop[p], active)
<1>1. PICK s \in {"removing", "syncing"} : /\ Goto(p, s, {}, {})
                                           /\ pc[p] = "dropping" <=> s = "removing"
  BY DEF Dropped
<1>2. /\ pc[p] \in {"dropping", "replacing"} /\ chain' = chain \o Releases(R)
      /\ drop' = [drop EXCEPT ![p] = {}]
      /\ UNCHANGED <<retained, shown, active, live, todo, want, asked, owed>>
  BY DEF Dropped, display, subs, commands
<1>3. /\ Asking /\ Heard /\ Counted /\ Dropping /\ drop \in [Proc -> SUBSET Handler]
  BY DEF Settling, Sane, Held, Typed, Owned
<1>4. R \subseteq drop[p] /\ R \in SUBSET Handler
      /\ \A h \in drop[p] \ R : \E r \in active : h = r.own
  BY <1>3 DEF Unused
<1> HIDE DEF R
<1>5. R \subseteq Good  BY <1>3, <1>4 DEF Dropping
<1>6. Good' = Good \ R  BY <1>2, <1>4, <1>5, ReleasesGood
<1>7. /\ pc[p] \in Syncing /\ s \in Syncing /\ p # Repaint /\ {} \in {{}, Fresh}
      /\ pc[p] \notin {"failing", "failed", "new"} /\ s \in Working
  BY <1>2 DEF Syncing, Working, Sane, Solo, Apart
<1>8. Onward(p, s, {})  BY <1>1, <1>7, GoesOnward
<1>9. Asking' /\ Answered' /\ pc'[p] = s /\ \A q \in Proc : pc'[q] \in Syncing => q = p
  <2>1. s \in {"removing", "dropping"} => todo'[p] = want[p]
    BY <1>1, <1>2, <1>3, <1>7 DEF Asking
  <2>2. ASSUME s \in {"syncing", "replacing", "starting"}
        PROVE  /\ \A x \in active' : x.key \in KeysOf(want[p])
               /\ \A w \in Range(want[p]) :
                     w \in Entries(p)' \/ \E x \in active' : x.key = w.key /\ x.sig = w.sig
    <3>1. pc[p] = "replacing"  BY <1>1, <1>2, <2>2
    <3>2. Entries(p)' = Entries(p) /\ active' = active  BY <1>2 DEF Entries
    <3> QED  BY <1>3, <1>7, <3>1, <3>2 DEF Asking
  <2> QED  BY <1>2, <1>3, <1>7, <1>8, <2>1, <2>2, StaysAtIt
<1>10. Heard'
  <2>1. \A q \in Proc : pc'[q] # "starting"  BY <1>9 DEF Syncing
  <2> QED  BY <1>2, <1>3, <2>1 DEF Heard
<1>11. Counted'
  <2>1. SUFFICES ASSUME Failures' = {}, NEW h \in Good' PROVE Needs(h)'
    BY DEF Counted, Needs, Good, View, Mapper, Lift
  <2>2. Failures = {} /\ h \in Good /\ h \notin R  BY <1>6, <1>8, <2>1, FailuresStay
  <2>3. Needs(h)  BY <1>3, <2>2 DEF Counted
  <2>4. pc'[p] = s /\ \A q \in Proc \ {p} : pc'[q] = pc[q]  BY <1>8 DEF Onward
  <2>5. CASE (\E q \in shown : h = View(q)) \/ (\E r \in active : h = r.own) \/ h \in owed
    BY <1>2, <2>5 DEF Needs, View
  <2>6. ASSUME NEW q \in Proc, pc[q] = "stepped", h = View(q) PROVE Needs(h)'
    <3>1. pc'[q] = "stepped"  BY <1>2, <2>4, <2>6
    <3> QED  BY <2>6, <3>1 DEF Needs, View
  <2>7. ASSUME NEW q \in Proc, Uses(q), h = Mapper(q) PROVE Needs(h)'
    <3>1. Uses(q)'  BY <1>2, <1>7, <2>4, <2>7 DEF Uses
    <3> QED  BY <2>7, <3>1 DEF Needs, Mapper
  <2>8. ASSUME NEW q \in Proc, q # Repaint, pc[q] \in Working, h = Lift(q) PROVE Needs(h)'
    <3>1. pc'[q] \in Working  BY <1>7, <2>4, <2>8
    <3> QED  BY <2>8, <3>1 DEF Needs, Lift
  <2>9. ASSUME NEW q \in Proc, h \in drop[q] PROVE Needs(h)'
    <3>1. CASE q = p
      <4>1. \E r \in active : h = r.own  BY <1>4, <2>2, <2>9, <3>1
      <4> QED  BY <2>5, <4>1
    <3>2. CASE q # p
      <4>1. h \in drop'[q]  BY <1>2, <1>3, <2>9, <3>2
      <4> QED  BY <4>1 DEF Needs
    <3> QED  BY <3>1, <3>2
  <2> QED  BY <2>3, <2>5, <2>6, <2>7, <2>8, <2>9 DEF Needs
<1> QED  BY <1>9, <1>10, <1>11 DEF Settling

\* The head of the list of p is in line, under the mapper of p.
LEMMA InLineSettles ==
    ASSUME Sane, Settling, NEW p \in Proc, pc[p] \in {"syncing", "starting"},
           todo[p] # <<>>, todo' = [todo EXCEPT ![p] = Tail(@)], Onward(p, "syncing", {}),
           NEW n, n.own = Mapper(p), n.key = Head(todo[p]).key, n.sig = Head(todo[p]).sig,
           active' \subseteq active \cup {n}, n \in active',
           \A x \in active : x \in active' \/ (x.key = n.key /\ x.sig = n.sig),
           NEW R, Good' = Good \ R,
           \A x \in active : x.own \in R \/ \E y \in active' : y.own = x.own,
           \A x \in active' : \E l \in live' : l.key = x.key /\ l.by = x.by,
           UNCHANGED <<shown, drop, want, asked, owed>>
    PROVE  Settling'
<1>1. /\ Asking /\ Counted /\ Wished /\ todo \in [Proc -> Seq(Wanted)]
  BY DEF Settling, Sane, Held, Typed, Listed
<1>2. /\ pc[p] \in Syncing /\ "syncing" \in Syncing /\ p # Repaint /\ Uses(p) /\ "syncing" \in Working
  BY DEF Syncing, Working, Sane, Solo, Apart, Uses
<1>3. asked = want[p]  BY <1>1, <1>2 DEF Asking
<1>4. /\ Head(todo[p]) \in Range(want[p])
      /\ Entries(p) \subseteq Entries(p)' \cup {Head(todo[p])}
  <2>1. PICK k \in Nat : k = Len(todo[p]) /\ k > 0  BY <1>1, EmptySeq
  <2>2. DOMAIN todo[p] = 1 .. k /\ Head(todo[p]) = todo[p][1]  BY <1>1, <2>1
  <2>3. todo'[p] = Tail(todo[p])  BY <1>1
  <2>4. DOMAIN todo'[p] = 1 .. k - 1 /\ \A i \in 1 .. k - 1 : todo'[p][i] = todo[p][i + 1]
    BY <1>1, <2>1, <2>3
  <2>5. 1 \in 1 .. k /\ \A i \in 1 .. k : i = 1 \/ (i - 1 \in 1 .. k - 1 /\ (i - 1) + 1 = i)
    BY <2>1
  <2>6. Head(todo[p]) \in Entries(p)  BY <2>2, <2>5 DEF Entries
  <2>7. Entries(p)' = {todo'[p][i] : i \in 1 .. k - 1}  BY <2>4 DEF Entries
  <2>8. ASSUME NEW i \in 1 .. k PROVE todo[p][i] \in Entries(p)' \cup {Head(todo[p])}
    <3>1. CASE i = 1  BY <2>2, <3>1
    <3>2. CASE i # 1
      <4>1. i - 1 \in 1 .. k - 1 /\ todo'[p][i - 1] = todo[p][i]  BY <2>4, <2>5, <3>2
      <4> QED  BY <2>7, <4>1
    <3> QED  BY <3>1, <3>2
  <2>9. Entries(p) \subseteq Range(want[p])  BY <1>1, <1>2 DEF Wished, Range
  <2>10. Entries(p) = {todo[p][i] : i \in 1 .. k}  BY <2>2 DEF Entries
  <2> QED  BY <2>6, <2>8, <2>9, <2>10
<1>5. Asking' /\ Answered' /\ pc'[p] = "syncing" /\ \A q \in Proc : pc'[q] \in Syncing => q = p
  <2>1. /\ \A x \in active : x.key \in KeysOf(want[p])
        /\ \A w \in Range(want[p]) :
              w \in Entries(p) \/ \E x \in active : x.key = w.key /\ x.sig = w.sig
    BY <1>1, <1>2, <1>3 DEF Asking
  <2>2. n.key \in KeysOf(want[p])  BY <1>4 DEF KeysOf, Range
  <2>3. \A x \in active' : x.key \in KeysOf(want[p])  BY <2>1, <2>2
  <2>4. ASSUME NEW w \in Range(want[p])
        PROVE  w \in Entries(p)' \/ \E x \in active' : x.key = w.key /\ x.sig = w.sig
    <3>1. CASE w \in Entries(p)  BY <1>4, <3>1
    <3>2. ASSUME NEW x \in active, x.key = w.key, x.sig = w.sig
          PROVE  \E y \in active' : y.key = w.key /\ y.sig = w.sig
      BY <3>2
    <3> QED  BY <2>1, <3>1, <3>2
  <2>5. \A q \in Proc \ {p} : todo'[q] = todo[q]  BY <1>1
  <2> QED  BY <1>1, <1>2, <2>3, <2>4, <2>5, StaysAtIt
<1>6. Heard'
  <2>1. \A q \in Proc : pc'[q] # "starting"  BY <1>5 DEF Syncing
  <2> QED  BY <2>1 DEF Heard
<1>7. Counted'
  <2>1. SUFFICES ASSUME Failures' = {}, NEW h \in Good' PROVE Needs(h)'
    BY DEF Counted, Needs, Good, View, Mapper, Lift
  <2>2. Failures = {} /\ h \in Good /\ h \notin R  BY <2>1, FailuresStay
  <2>3. Needs(h)  BY <1>1, <2>2 DEF Counted
  <2>4. pc'[p] = "syncing" /\ \A q \in Proc \ {p} : pc'[q] = pc[q]  BY DEF Onward
  <2>5. CASE (\E q \in shown : h = View(q)) \/ (\E q \in Proc : h \in drop[q]) \/ h \in owed
    BY <2>5 DEF Needs, View
  <2>6. ASSUME NEW q \in Proc, pc[q] = "stepped", h = View(q) PROVE Needs(h)'
    <3>1. pc'[q] = "stepped"  BY <2>4, <2>6
    <3> QED  BY <2>6, <3>1 DEF Needs, View
  <2>7. ASSUME NEW q \in Proc, Uses(q), h = Mapper(q) PROVE Needs(h)'
    <3>1. q = p  BY <1>2, <2>7, OneUses
    <3>2. h = n.own  BY <2>7, <3>1
    <3> QED  BY <3>2 DEF Needs
  <2>8. ASSUME NEW q \in Proc, q # Repaint, pc[q] \in Working, h = Lift(q) PROVE Needs(h)'
    <3>1. pc'[q] \in Working  BY <1>2, <2>4, <2>8
    <3> QED  BY <2>8, <3>1 DEF Needs, Lift
  <2>9. ASSUME NEW x \in active, h = x.own PROVE Needs(h)'
    <3>1. PICK y \in active' : y.own = x.own  BY <2>2, <2>9
    <3> QED  BY <2>9, <3>1 DEF Needs
  <2> QED  BY <2>3, <2>5, <2>6, <2>7, <2>8, <2>9 DEF Needs
<1> QED  BY <1>5, <1>6, <1>7 DEF Settling

LEMMA KeepSettles == ASSUME Sane, Settling, NEW p \in Proc, Keep(p) PROVE Settling'
<1>1. PICK r \in active :
          /\ r.key = Head(todo[p]).key /\ r.sig = Head(todo[p]).sig
          /\ active' = (active \ {r}) \cup {[r EXCEPT !.own = Mapper(p)]}
          /\ live' = {IF <<l.key, l.by>> = <<r.key, r.by>> THEN [l EXCEPT !.own = Mapper(p)]
                                                          ELSE l : l \in live}
          /\ chain' = chain \o Releases(Unused({r.own}, active'))
  BY DEF Keep
<1>2. /\ pc[p] = "syncing" /\ todo[p] # <<>> /\ todo' = [todo EXCEPT ![p] = Tail(@)]
      /\ UNCHANGED <<pc, via, want, retained, shown, drop, owed, asked>>
  BY DEF Keep, display, commands
<1>3. /\ r \in Record /\ r.own \in Good /\ live \subseteq Listener
  BY DEF Sane, Held, Mapped, Typed, Listed
<1> DEFINE R == Unused({r.own}, active')
           n == [r EXCEPT !.own = Mapper(p)]
<1>4. R \subseteq {r.own} /\ (r.own \in R \/ \E y \in active' : y.own = r.own)  BY DEF Unused
<1>5. /\ n.own = Mapper(p) /\ n.key = r.key /\ n.sig = r.sig /\ n.by = r.by
      /\ active' = (active \ {r}) \cup {n} /\ chain' = chain \o Releases(R)
  BY <1>1, <1>3 DEF Record
<1> HIDE DEF R, n
<1>6. Good' = Good \ R
  <2>1. R \subseteq Good /\ R \in SUBSET Handler  BY <1>3, <1>4 DEF Record
  <2> QED  BY <1>2, <1>5, <2>1, ReleasesGood
<1>7. Onward(p, "syncing", {})  BY <1>2 DEF Onward
<1>8. \A x \in active : x.own \in R \/ \E y \in active' : y.own = x.own  BY <1>4, <1>5
<1>9. \A x \in active' : \E l \in live' : l.key = x.key /\ l.by = x.by
  <2>1. SUFFICES ASSUME NEW x \in active PROVE \E l \in live' : l.key = x.key /\ l.by = x.by
    BY <1>5
  <2>2. PICK l \in live : l.key = x.key /\ l.by = x.by  BY DEF Settling, Heard
  <2> DEFINE k == IF <<l.key, l.by>> = <<r.key, r.by>> THEN [l EXCEPT !.own = Mapper(p)] ELSE l
  <2>3. k \in live'  BY <1>1
  <2>4. k.key = l.key /\ k.by = l.by  BY <1>3 DEF Listener
  <2> HIDE DEF k
  <2> QED  BY <2>2, <2>3, <2>4
<1>10. /\ n.key = Head(todo[p]).key /\ n.sig = Head(todo[p]).sig
       /\ active' \subseteq active \cup {n} /\ n \in active'
       /\ \A x \in active : x \in active' \/ (x.key = n.key /\ x.sig = n.sig)
  BY <1>1, <1>5
<1> QED  BY <1>2, <1>5, <1>6, <1>7, <1>8, <1>9, <1>10, InLineSettles

LEMMA StartedSettles == ASSUME Sane, Settling, NEW p \in Proc, Started(p) PROVE Settling'
<1> DEFINE n == [key |-> Head(todo[p]).key, sig |-> Head(todo[p]).sig,
                 own |-> Mapper(p), by |-> p]
           R == {}
<1>1. /\ pc[p] = "starting" /\ todo' = [todo EXCEPT ![p] = Tail(@)]
      /\ Goto(p, "syncing", {}, {}) /\ chain' = chain
      /\ UNCHANGED <<want, retained, shown, drop, owed, live, asked>>
      /\ active' = {x \in active : x.key # Head(todo[p]).key} \cup {n}
  BY DEF Started, display, commands
<1>2. n.own = Mapper(p) /\ n.key = Head(todo[p]).key /\ n.sig = Head(todo[p]).sig /\ n.by = p
  OBVIOUS
<1> HIDE DEF n
<1>3. todo[p] # <<>> /\ NotActive(Head(todo[p]).key) /\ Heard
  BY <1>1 DEF Sane, Typed, Begun, Known, Settling
<1>4. active' = active \cup {n}  BY <1>1, <1>3 DEF NotActive
<1>5. Good' = Good \ R  BY <1>1 DEF Good
<1> HIDE DEF R
<1>6. Onward(p, "syncing", {})
  <2>1. {} \in {{}, Fresh} /\ pc[p] \notin {"failing", "failed", "new"}  BY <1>1
  <2> QED  BY <1>1, <2>1, GoesOnward
<1>7. \A x \in active' : \E l \in live' : l.key = x.key /\ l.by = x.by
  BY <1>1, <1>2, <1>3, <1>4 DEF Heard
<1> QED  BY <1>1, <1>2, <1>3, <1>4, <1>5, <1>6, <1>7, InLineSettles

LEMMA InitSettling == Init => Settling
<1> SUFFICES ASSUME Init PROVE Settling  OBVIOUS
<1>1. /\ retained = {} /\ active = {} /\ asked = <<>>
      /\ \A p \in Proc : /\ pc[p] \in {"stepping", "new"} /\ todo[p] = <<>> /\ want[p] = <<>>
  BY Procs DEF Init
<1>2. Asking  BY <1>1 DEF Asking, Syncing
<1>3. Answered
  <2>1. DOMAIN <<>> = {}  OBVIOUS
  <2>2. Range(<<>>) = {}  BY <2>1 DEF Range
  <2> QED  BY <1>1, <2>2 DEF Answered
<1>4. Heard /\ Counted  BY <1>1 DEF Heard, Counted, Good
<1> QED  BY <1>2, <1>3, <1>4 DEF Settling

LEMMA SettlingKept ==
    ASSUME KeysAreIdentities, Sane, Settling, [Next]_vars, ~ disposed'
    PROVE  Settling'
<1>1. ASSUME NEW p \in Proc, Sync(p) PROVE Settling'
  BY <1>1, RemovesSettle, DroppedSettles, KeepSettles, StartedSettles, ListsSettle DEF Sync
<1>2. ASSUME NEW p \in Proc, Commands(p) PROVE Settling'
  BY <1>2, CommandsSettle, RunsSettle
<1>3. ASSUME NEW p \in Proc, ApplyNothing(p) PROVE Settling'  BY <1>3 DEF ApplyNothing, Sane
<1>4. ASSUME DisposeApp PROVE Settling'  BY <1>4 DEF DisposeApp, TearDown
<1>5. ASSUME DisposeNext PROVE Settling'  BY <1>5 DEF DisposeNext, Sane, Known
<1>6. ASSUME UNCHANGED vars PROVE Settling'
  <2>1. UNCHANGED <<pc, chain, shown, want, todo, drop, active, live, owed, asked, retained>>
    BY <1>6 DEF vars
  <2>2. Good' = Good \ {}  BY <2>1 DEF Good
  <2> QED  BY <2>1, <2>2, ReleasesSettle
<1> QED
  BY <1>1, <1>2, <1>3, <1>4, <1>5, <1>6, RunsSettle, BeginStepSettles, EndStepSettles,
     ApplySettles, ErrorsSettle, RenderSettles, InputSettles
  DEF Next, Machine

LEMMA SettlingImpliesAsked ==
    ASSUME Typed, InOrder, Solo, Known, Safely, ~ early /\ ~ disposed => Settling
    PROVE  SettledAsAsked
<1> SUFFICES ASSUME Calm
             PROVE  /\ {[key |-> r.key, sig |-> r.sig] : r \in active} = Range(asked)
                    /\ {<<l.key, l.by>> : l \in live} = {<<r.key, r.by>> : r \in active}
                    /\ retained = {View(p) : p \in shown} \cup {r.own : r \in active}
  BY DEF SettledAsAsked
<1>1. /\ Sane /\ Held /\ Settling /\ Failures = {} /\ chain = <<>> /\ owed = {}
      /\ \A p \in Proc : pc[p] \in {"new"} \cup Settled
  BY DEF Calm, Quiet, Sane, Safely
<1>2. \A p \in Proc : pc[p] \notin Working \cup {"stepped"} /\ ~ Uses(p)
  BY <1>1 DEF Working, Syncing, Settled, Uses
<1>3. {[key |-> r.key, sig |-> r.sig] : r \in active} = Range(asked)
  BY <1>1, <1>2 DEF Settling, Answered, Working
<1>4. {<<l.key, l.by>> : l \in live} = {<<r.key, r.by>> : r \in active}
  <2>1. ASSUME NEW l \in live PROVE \E r \in active : r.key = l.key /\ r.by = l.by
    <3>1. l \in Recorded \/ OnItsWay(l)  BY <1>1 DEF Sane, Known
    <3>2. ~ OnItsWay(l)
      <4>1. l.by \in Proc  BY DEF Typed, Listed, Listener
      <4> QED  BY <1>1, <4>1 DEF OnItsWay, Settled
    <3>3. PICK r \in active : l = [key |-> r.key, by |-> r.by, own |-> r.own]
      BY <3>1, <3>2 DEF Recorded
    <3> QED  BY <3>3
  <2>2. ASSUME NEW r \in active PROVE \E l \in live : r.key = l.key /\ r.by = l.by
    BY <1>1 DEF Settling, Heard
  <2> QED  BY <2>1, <2>2
<1>5. Good = retained
  <2>1. DOMAIN <<>> = {}  OBVIOUS
  <2> QED  BY <1>1, <2>1 DEF Good, Dues
<1>6. retained = {View(p) : p \in shown} \cup {r.own : r \in active}
  <2>1. ASSUME NEW h \in retained PROVE h \in {View(p) : p \in shown} \cup {r.own : r \in active}
    <3>1. Needs(h)  BY <1>1, <1>5 DEF Settling, Counted
    <3>2. \A q \in Proc : drop[q] = {}  BY <1>1 DEF Held, Dropping, Settled
    <3> QED  BY <1>1, <1>2, <3>1, <3>2 DEF Needs
  <2>2. \A r \in active : r.own \in retained  BY <1>1, <1>5 DEF Held, Mapped
  <2>3. \A p \in shown : View(p) \in retained
    <3>1. shown \subseteq Proc  BY DEF Typed, Placed, AtMostOne
    <3> QED  BY <1>1, <1>5, <3>1 DEF Held, Painted
  <2> QED  BY <2>1, <2>2, <2>3
<1> QED  BY <1>3, <1>4, <1>6

\* When everything has settled, the listeners are those the last step asked for, as it
\* described them, and nothing is retained but what they and the page need: nothing that
\* was retained leaks (browser.ts:2963-3045, 3965-4017).
THEOREM SettledAlwaysAsAsked ==
    ASSUME KeysAreIdentities
    PROVE  Spec => []SettledAsAsked
<1> DEFINE Inv == /\ Typed /\ InOrder /\ Solo /\ Known /\ Safely
                  /\ ~ early /\ ~ disposed => Settling
<1>1. Init => Inv
  <2>1. Init => ReleasedOnce  BY DEF Init, ReleasedOnce
  <2> QED
    BY <2>1, InitInOrder, InitSolo, InitKnown, InitTyped, InitHeld, InitSettling DEF Safely
<1>2. Inv /\ [Next]_vars => Inv'
  <2> SUFFICES ASSUME Inv, [Next]_vars PROVE Inv'  OBVIOUS
  <2>1. (Typed /\ InOrder /\ Solo /\ Known /\ Safely)'
    BY OrderKept, SoloKept, KnownKept, PlacedKept, OwnedKept, ListedKept, BegunKept, SafelyKept
    DEF Typed
  <2>2. ASSUME ~ early', ~ disposed' PROVE Settling'
    <3>1. ~ early /\ ~ disposed  BY <2>2, HistoryStays
    <3>2. Sane /\ Settling  BY <3>1 DEF Sane, Safely
    <3> QED  BY <2>2, <3>2, SettlingKept
  <2> QED  BY <2>1, <2>2
<1>3. Inv => SettledAsAsked  BY SettlingImpliesAsked
<1> QED  BY <1>1, <1>2, <1>3, PTL DEF Spec
=============================================================================
