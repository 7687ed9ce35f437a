----------------------------- MODULE VxDomProofs -----------------------------
(***************************************************************************)
(* What VxDom keeps for every set of children, frames of every length and  *)
(* every number of renders: the program holds the handlers of the frame    *)
(* that was applied last and no others; the page shows that frame; and a   *)
(* child keeps its node.                                                   *)
(*                                                                         *)
(* The last two are about what the loop of patchChildren leaves behind:    *)
(* Shaped, Shows and Keeps say what holds after each of its turns.         *)
(***************************************************************************)
EXTENDS VxDom, SequenceFacts

-----------------------------------------------------------------------------
(* Handlers.                                                               *)

\* The renderer and the program agree, and both have the handlers of the frame.
Agreed == retained = HandlersOf(frame) /\ registry = retained

LEMMA NothingListens == HandlersOf(<<>>) = {}
BY DEF HandlersOf

LEMMA InitAgreed == Init => Agreed
BY NothingListens DEF Init, Agreed

\* A frame that is applied: what only the old one had is released.
LEMMA AppliedAgrees ==
  ASSUME Agreed, NEW next, Applied(next)
  PROVE  Agreed'
<1>1. /\ registry' = (registry \cup HandlersOf(next)) \ (retained \ HandlersOf(next))
      /\ retained' = HandlersOf(next)
      /\ frame' = next
  BY DEF Applied, Released
<1>2. HandlersOf(frame)' = HandlersOf(next)
  BY <1>1 DEF HandlersOf
<1>3. registry' = HandlersOf(next)
  BY <1>1 DEF Agreed
<1> QED  BY <1>1, <1>2, <1>3 DEF Agreed

\* A frame that is refused: what the old one shares with it is kept.
LEMMA RefusedAgrees ==
  ASSUME Agreed, NEW next, Refused(next)
  PROVE  Agreed'
<1>1. /\ registry' = (registry \cup HandlersOf(next)) \ (HandlersOf(next) \ retained)
      /\ retained' = retained
      /\ frame' = frame
  BY DEF Refused, Introduced
<1>2. registry' = registry
  BY <1>1 DEF Agreed
<1> QED  BY <1>1, <1>2 DEF Agreed, HandlersOf

LEMMA RenderAgrees == ASSUME Agreed, Render PROVE Agreed'
<1>1. PICK next \in Frames : RenderFrame(next) \/ RenderThrows(next)
  BY DEF Render
<1>2. CASE RenderFrame(next)
  BY <1>2, AppliedAgrees DEF RenderFrame
<1>3. CASE RenderThrows(next)
  BY <1>3, RefusedAgrees DEF RenderThrows
<1> QED  BY <1>1, <1>2, <1>3

\* A failed hydration and dispose() leave nothing.
LEMMA DetachedAgrees ==
  ASSUME NEW page, Detach(page), registry' = {}
  PROVE  Agreed'
<1>1. retained' = {} /\ frame' = <<>>  BY DEF Detach
<1> QED  BY <1>1, NothingListens DEF Agreed, HandlersOf

LEMMA StepAgrees == Agreed /\ [Next]_vars => Agreed'
<1> SUFFICES ASSUME Agreed, [Next]_vars PROVE Agreed'  OBVIOUS
<1>1. CASE Render  BY <1>1, RenderAgrees
<1>2. CASE Hydrate  BY <1>2, AppliedAgrees DEF Hydrate
<1>3. CASE HydrateThrows
  <2>1. PICK next \in Frames : \E count \in 0 .. Len(next) - 1 :
          /\ Detach(Hydrated(dom, next, count) \o SubSeq(dom, count + 1, Len(dom)))
          /\ registry' = ((registry \cup HandlersOf(next)) \ Introduced(HandlersOf(next)))
                         \ retained
    BY <1>3 DEF HydrateThrows
  <2>2. PICK count \in 0 .. Len(next) - 1 :
          /\ Detach(Hydrated(dom, next, count) \o SubSeq(dom, count + 1, Len(dom)))
          /\ registry' = ((registry \cup HandlersOf(next)) \ (HandlersOf(next) \ retained))
                         \ retained
    BY <2>1 DEF Introduced
  <2>3. registry' = {}  BY <2>2 DEF Agreed
  <2> QED  BY <2>2, <2>3, DetachedAgrees
<1>4. CASE Dispose
  <2>1. Detach(<<>>) /\ registry' = registry \ retained  BY <1>4 DEF Dispose
  <2>2. registry' = {}  BY <2>1 DEF Agreed
  <2> QED  BY <2>1, <2>2, DetachedAgrees
<1>5. CASE UNCHANGED vars  BY <1>5 DEF vars, Agreed, HandlersOf
<1> QED  BY <1>1, <1>2, <1>3, <1>4, <1>5 DEF Next

\* The program holds the handlers of the frame and no others, however many frames
\* were applied, refused and hydrated before (applyFrame, releaseRemovedHandlers).
THEOREM HandlersAlwaysAccounted == Spec => []HandlersAccounted
<1>1. Agreed => HandlersAccounted  BY DEF Agreed, HandlersAccounted
<1> QED  BY InitAgreed, StepAgrees, <1>1, PTL DEF Spec


-----------------------------------------------------------------------------
(* Where things are.                                                       *)

IdNode == [id : Nat, tag : Tag, on : SUBSET Handler]
Distinct(nodes) == \A k, l \in DOMAIN nodes : nodes[k].id = nodes[l].id => k = l

\* The least number of a set is one of it.
LEMMA MinIs ==
  ASSUME NEW I, I \subseteq Nat, I # {}
  PROVE  Min(I) \in I
<1>1. \E x \in I : \A y \in I : x <= y  BY LeastNatural
<1> QED  BY <1>1 DEF Min

\* The place of a node, or 0 when it is not among the children.
LEMMA PlaceIs ==
  ASSUME NEW nodes \in Seq(IdNode), NEW id
  PROVE  \/ PlaceOf(nodes, id) = 0 /\ \A k \in DOMAIN nodes : nodes[k].id # id
         \/ PlaceOf(nodes, id) \in DOMAIN nodes /\ nodes[PlaceOf(nodes, id)].id = id
<1> DEFINE I == {k \in 1 .. Len(nodes) : nodes[k].id = id}
<1>1. PlaceOf(nodes, id) = IF I # {} THEN Min(I) ELSE 0  BY DEF PlaceOf, SelectInSeq
<1>2. DOMAIN nodes = 1 .. Len(nodes) /\ I \subseteq Nat  OBVIOUS
<1>3. CASE I = {}  BY <1>1, <1>2, <1>3
<1>4. CASE I # {}
  <2>1. Min(I) \in I  BY <1>2, <1>4, MinIs
  <2> QED  BY <1>1, <1>2, <1>4, <2>1
<1> QED  BY <1>3, <1>4

\* The place of the old child with the key of a new one, or 0.
LEMMA MatchIs ==
  ASSUME NEW old \in Seq(VNode), NEW v
  PROVE  \/ /\ Match(old, v) = 0
            /\ \A k \in DOMAIN old : v.key = NoKey \/ old[k].key # v.key
         \/ /\ Match(old, v) \in DOMAIN old
            /\ v.key # NoKey /\ old[Match(old, v)].key = v.key
<1> DEFINE I == {k \in 1 .. Len(old) : v.key # NoKey /\ old[k].key = v.key}
<1>1. Match(old, v) = IF I # {} THEN Min(I) ELSE 0  BY DEF Match, SelectInSeq
<1>2. DOMAIN old = 1 .. Len(old) /\ I \subseteq Nat  OBVIOUS
<1>3. CASE I = {}  BY <1>1, <1>2, <1>3
<1>4. CASE I # {}
  <2>1. Min(I) \in I  BY <1>2, <1>4, MinIs
  <2> QED  BY <1>1, <1>2, <1>4, <2>1
<1> QED  BY <1>3, <1>4

\* t are the nodes with w as the child i: those before it stay where they are, those
\* after it are what was there, but for the node at the place `at`.
Moved(t, nodes, w, i, at) ==
    /\ t \in Seq(IdNode) /\ Distinct(t) /\ i <= Len(t) /\ t[i] = w
    /\ \A k \in 1 .. i - 1 : t[k] = nodes[k]
    /\ \A k \in DOMAIN t : k > i =>
          \E x \in DOMAIN nodes : x >= i /\ x # at /\ t[k] = nodes[x]

LEMMA PlacedIs ==
  ASSUME NEW nodes \in Seq(IdNode), Distinct(nodes), NEW w \in IdNode,
         NEW i \in 1 .. Len(nodes) + 1,
         NEW at, at = PlaceOf(nodes, w.id), at = 0 \/ at >= i,
         NEW t, t = Placed(nodes, w, i)
  PROVE  Moved(t, nodes, w, i, at)
<1>1. PICK n \in Nat : n = Len(nodes) /\ DOMAIN nodes = 1 .. n  OBVIOUS
<1>2. \/ at = 0 /\ \A k \in DOMAIN nodes : nodes[k].id # w.id
      \/ at \in DOMAIN nodes /\ nodes[at].id = w.id
  BY PlaceIs
<1> DEFINE r == IF at = 0 THEN nodes ELSE RemoveAt(nodes, at)
           m == IF at = 0 THEN n ELSE n - 1
           from(k) == IF k < i \/ (at # 0 /\ k > at) THEN k ELSE k - 1
<1>3. /\ r \in Seq(IdNode) /\ Len(r) = m /\ m \in Nat /\ i \in 1 .. m + 1
      /\ \A k \in 1 .. m : r[k] = IF at = 0 \/ k < at THEN nodes[k] ELSE nodes[k + 1]
  <2>1. CASE at = 0  BY <1>1, <2>1
  <2>2. CASE at # 0
    <3>1. at \in 1 .. n  BY <1>1, <1>2, <2>2
    <3>3. /\ RemoveAt(nodes, at) \in Seq(IdNode) /\ Len(RemoveAt(nodes, at)) = n - 1
          /\ \A k \in 1 .. n - 1 :
                RemoveAt(nodes, at)[k] = IF k < at THEN nodes[k] ELSE nodes[k + 1]
      BY <1>1, <3>1, Removes
    <3>4. i \in 1 .. (n - 1) + 1 /\ n - 1 \in Nat  BY <1>1, <2>2, <3>1
    <3> QED  BY <2>2, <3>3, <3>4
  <2> QED  BY <2>1, <2>2
<1>4. t = InsertAt(r, i, w)  BY DEF Placed
<1>5. /\ t \in Seq(IdNode) /\ Len(t) = m + 1
      /\ \A k \in 1 .. m + 1 : t[k] = IF k < i THEN r[k] ELSE IF k = i THEN w ELSE r[k - 1]
  <2> HIDE DEF r, m, from
  <2>1. r \in Seq(IdNode) /\ i \in 1 .. Len(r) + 1 /\ Len(r) = m  BY <1>3
  <2>2. Insertion(InsertAt(r, i, w), IdNode, r, i, w)  BY <2>1, Inserts, Zenon
  <2> QED  BY <1>4, <2>1, <2>2 DEF Insertion
<1>6. DOMAIN t = 1 .. m + 1 /\ m \in Nat  BY <1>3, <1>5
<1>7. ASSUME NEW k \in 1 .. m + 1, k # i
      PROVE  /\ t[k] = nodes[from(k)] /\ from(k) \in DOMAIN nodes /\ from(k) # at
             /\ k < i => from(k) = k
             /\ k > i => from(k) >= i
  <2>1. CASE k < i
    <3>1. k \in 1 .. m /\ t[k] = r[k]  BY <1>3, <1>5, <2>1
    <3>2. r[k] = nodes[k]  BY <1>2, <1>3, <2>1, <3>1
    <3>3. k \in 1 .. n /\ k # at  BY <1>3, <2>1, <3>1
    <3> QED  BY <1>1, <2>1, <3>1, <3>2, <3>3
  <2>2. CASE k > i
    <3>1. k - 1 \in 1 .. m /\ t[k] = r[k - 1] /\ (k - 1) + 1 = k
      <4>1. m \in Nat /\ k \in i + 1 .. m + 1  BY <1>3, <2>2
      <4> HIDE DEF r, m, from
      <4> QED  BY <1>5, <2>2, <4>1
    <3>2. r[k - 1] = IF at = 0 \/ k - 1 < at THEN nodes[k - 1] ELSE nodes[k]  BY <1>3, <3>1
    <3>3. CASE at = 0
      <4>1. from(k) = k - 1 /\ k - 1 \in 1 .. n /\ k - 1 # 0 /\ k - 1 >= i  BY <2>2, <3>1, <3>3
      <4> QED  BY <1>1, <2>2, <3>1, <3>2, <3>3, <4>1
    <3>4. CASE at # 0
      <4>1. at \in 1 .. n  BY <1>1, <1>2, <3>4
      <4>2. CASE k > at
        <5>1. from(k) = k /\ k \in 1 .. n /\ ~(k - 1 < at)  BY <3>1, <3>4, <4>1, <4>2
        <5> QED  BY <1>1, <2>2, <3>1, <3>2, <3>4, <4>1, <4>2, <5>1
      <4>3. CASE ~(k > at)
        <5>1. from(k) = k - 1 /\ k - 1 \in 1 .. n /\ k - 1 < at  BY <2>2, <3>1, <4>1, <4>3
        <5> QED  BY <1>1, <2>2, <3>1, <3>2, <3>4, <4>1, <4>3, <5>1
      <4> QED  BY <4>2, <4>3
    <3> QED  BY <3>3, <3>4
  <2> QED  BY <1>7, <2>1, <2>2
<1>8. i <= Len(t) /\ t[i] = w  BY <1>3, <1>5
<1>9. ASSUME NEW k \in DOMAIN t, NEW l \in DOMAIN t, t[k].id = t[l].id PROVE k = l
  <2>1. \A x \in 1 .. m + 1 : x # i => t[x].id # w.id
    BY <1>1, <1>2, <1>7 DEF Distinct
  <2>2. CASE k # i /\ l # i
    <3>1. nodes[from(k)].id = nodes[from(l)].id 
          /\ from(k) \in DOMAIN nodes /\ from(l) \in DOMAIN nodes
      BY <1>6, <1>7, <1>9, <2>2
    <3>2. from(k) = from(l)  BY <3>1 DEF Distinct
    <3>3. at = 0 \/ at \in Nat  BY <1>1, <1>2
    <3>4. from(k) # at /\ from(l) # at  BY <1>6, <1>7, <2>2
    <3> QED  BY <1>6, <2>2, <3>2, <3>3, <3>4
  <2> QED  BY <1>6, <1>8, <1>9, <2>1, <2>2
<1>10. \A k \in 1 .. i - 1 : t[k] = nodes[k]
  <2> SUFFICES ASSUME NEW k \in 1 .. i - 1 PROVE t[k] = nodes[k]  OBVIOUS
  <2>1. k \in 1 .. m + 1 /\ k # i /\ k < i  BY <1>3
  <2> QED  BY <1>7, <2>1
<1>11. \A k \in DOMAIN t : k > i => \E x \in DOMAIN nodes : x >= i /\ x # at /\ t[k] = nodes[x]
  BY <1>6, <1>7
<1> QED  BY <1>5, <1>8, <1>9, <1>10, <1>11 DEF Distinct, Moved

-----------------------------------------------------------------------------
(* One turn of the loop.                                                   *)

State == [nodes : Seq(IdNode), used : SUBSET Nat, thrown : BOOLEAN, skew : BOOLEAN]

\* After i turns: the children 1 .. i are in their places and are what has been used,
\* and a node that has not is as it was.
Shaped(page, i, s) ==
    /\ s \in State
    /\ Distinct(s.nodes)
    /\ \A k \in DOMAIN s.nodes : s.nodes[k].id \in 1 .. Len(page) + i
    /\ \A k \in DOMAIN s.nodes : s.nodes[k].id \notin s.used =>
          s.nodes[k].id \in DOMAIN page /\ s.nodes[k] = Identified(page)[s.nodes[k].id]
    /\ ~ s.thrown => /\ i <= Len(s.nodes)
                     /\ s.used = {s.nodes[k].id : k \in 1 .. i}

\* The page is as the frame describes it, as far as both go.
Described(old, page) ==
    \A k \in DOMAIN old : k \in DOMAIN page =>
        page[k].tag = old[k].tag /\ page[k].on = old[k].on

\* The turn i has put the node w, which may stand in the place of another one, among
\* the nodes.
Put(old, page, v, i, s, t, nodes, w) ==
    /\ nodes \in Seq(IdNode) /\ Len(nodes) = Len(s.nodes) /\ Distinct(nodes)
    /\ \A k \in DOMAIN nodes : nodes[k] = s.nodes[k] \/ (nodes[k] = w /\ s.nodes[k].id \notin s.used)
    /\ w \in IdNode /\ w.id \notin s.used
    /\ w.id \in DOMAIN page \/ w.id = Len(page) + i
    /\ t = [nodes |-> Placed(nodes, w, i), used |-> s.used \cup {w.id},
            thrown |-> FALSE, skew |-> t.skew]
    /\ t.skew \in BOOLEAN /\ (s.skew => t.skew)
    /\ LET j == Match(old, v)
       IN  j \in DOMAIN page /\ j \notin s.used /\ SameKind(old[j], v) => w.id = j
    /\ Described(old, page) /\ ~ t.skew => w.tag = v.tag /\ w.on = v.on

\* What listened as the old description says, or not at all, listens as the new one does.
LEMMA PatchedEvents ==
  ASSUME NEW on, NEW old, NEW new, on = {} \/ on = old
  PROVE  PatchEvents(on, old, new) = new
BY DEF PatchEvents

LEMMA CreatedIs ==
  ASSUME NEW page \in Seq(Node), NEW v \in VNode, NEW i \in Nat
  PROVE  /\ Created(page, v, i) \in IdNode
         /\ Created(page, v, i).id = Len(page) + i
         /\ Created(page, v, i).tag = v.tag /\ Created(page, v, i).on = v.on
<1>1. Len(page) + i \in Nat  OBVIOUS
<1>2. v.tag \in Tag /\ v.on \in SUBSET Handler  BY DEF VNode
<1> QED  BY <1>1, <1>2 DEF Created, IdNode

\* A number of its own is nowhere.
LEMMA FreshIs ==
  ASSUME NEW page \in Seq(Node), NEW i \in Nat \ {0}, NEW s, Shaped(page, i - 1, s), ~ s.thrown
  PROVE  /\ Len(page) + i \notin s.used
         /\ \A k \in DOMAIN s.nodes : s.nodes[k].id # Len(page) + i
         /\ i \in 1 .. Len(s.nodes) + 1
<1>1. PICK n \in Nat, m \in Nat : n = Len(s.nodes) /\ DOMAIN s.nodes = 1 .. n /\ m = Len(page)
  BY DEF Shaped, State
<1>2. \A k \in 1 .. n : s.nodes[k].id \in 1 .. m + (i - 1)  BY <1>1 DEF Shaped
<1>3. i - 1 <= n /\ s.used = {s.nodes[k].id : k \in 1 .. i - 1}  BY <1>1 DEF Shaped
<1>4. \A k \in 1 .. n : s.nodes[k].id # m + i  BY <1>2
<1>5. \A k \in 1 .. i - 1 : k \in 1 .. n  BY <1>3
<1> QED  BY <1>1, <1>3, <1>4, <1>5

\* A child nobody stood for: a new node goes in front of those that are there.
Grown(page, v, i, s, t) ==
    t = [s EXCEPT !.nodes = InsertAt(s.nodes, i, Created(page, v, i)),
                  !.used = @ \cup {Len(page) + i}]

LEMMA CreatedPut ==
  ASSUME NEW old \in Seq(VNode), NEW page \in Seq(Node), NEW v \in VNode,
         NEW i \in Nat \ {0}, NEW s, Shaped(page, i - 1, s), ~ s.thrown,
         LET j == Match(old, v) IN ~ (j \in DOMAIN page /\ j \notin s.used),
         NEW t, Grown(page, v, i, s, t)
  PROVE  Put(old, page, v, i, s, t, s.nodes, Created(page, v, i))
<1>1. s \in State  BY DEF Shaped
<1>2. PlaceOf(s.nodes, Len(page) + i) = 0
  <2>1. s.nodes \in Seq(IdNode)  BY <1>1 DEF State
  <2>2. \A k \in DOMAIN s.nodes : s.nodes[k].id # Len(page) + i  BY FreshIs
  <2> QED  BY <2>1, <2>2, PlaceIs, Zenon
<1>3. /\ t.nodes = InsertAt(s.nodes, i, Created(page, v, i))
      /\ t.used = s.used \cup {Len(page) + i} /\ t.thrown = s.thrown /\ t.skew = s.skew
  BY <1>1 DEF State, Grown
<1>4. t.nodes = Placed(s.nodes, Created(page, v, i), i)
  BY <1>2, <1>3, CreatedIs DEF Placed
<1>5. s.nodes \in Seq(IdNode) /\ Distinct(s.nodes)  BY <1>1 DEF State, Shaped
<1>6. Created(page, v, i).id \notin s.used
  <2>1. Created(page, v, i).id = Len(page) + i  BY CreatedIs
  <2>2. Len(page) + i \notin s.used  BY FreshIs
  <2> QED  BY <2>1, <2>2
<1>7. t = [nodes |-> t.nodes, used |-> t.used, thrown |-> FALSE, skew |-> t.skew]
      /\ t.skew \in BOOLEAN
  BY <1>1 DEF State, Grown
<1> QED  BY <1>3, <1>4, <1>5, <1>6, <1>7, CreatedIs DEF Put

\* c is a node nobody has used, in the page or out of it.
Unused(page, s, c) ==
    /\ c \in IdNode /\ c.id \in DOMAIN page /\ c.id \notin s.used
    /\ c.tag = page[c.id].tag
    /\ c.on = {} \/ c.on = page[c.id].on

\* A child some node stands for: it is patched, or a new one takes its place.
LEMMA PatchedPut ==
  ASSUME NEW old \in Seq(VNode), NEW page \in Seq(Node), NEW v \in VNode,
         NEW i \in Nat \ {0}, NEW s, Shaped(page, i - 1, s), ~ s.thrown,
         NEW c, Unused(page, s, c), NEW o \in VNode, NEW skew \in BOOLEAN, s.skew => skew,
         LET j == Match(old, v)
         IN  j \in DOMAIN page /\ j \notin s.used => c.id = j /\ o = old[j],
         Described(old, page) /\ ~ skew => o.tag = c.tag /\ (c.on = {} \/ c.on = o.on),
         NEW t, t = PatchNode(page, [s EXCEPT !.skew = skew], c, o, v, i)
  PROVE  \/ t = [nodes |-> s.nodes, used |-> s.used, thrown |-> TRUE, skew |-> skew]
         \/ \E nodes, w : Put(old, page, v, i, s, t, nodes, w)
<1> DEFINE at == PlaceOf(s.nodes, c.id)
           u == [s EXCEPT !.skew = skew]
           patched == [c EXCEPT !.on = PatchEvents(c.on, o.on, v.on)]
           new == Created(page, v, i)
<1>1. s \in State /\ s.nodes \in Seq(IdNode) /\ Distinct(s.nodes)  BY DEF Shaped, State
<1>2. u = [nodes |-> s.nodes, used |-> s.used, thrown |-> FALSE, skew |-> skew]
  <2>1. u = [nodes |-> s.nodes, used |-> s.used, thrown |-> s.thrown, skew |-> skew]
    BY <1>1 DEF State
  <2>2. s.thrown = FALSE  BY <1>1 DEF State
  <2> QED  BY <2>1, <2>2
<1>3. t = IF SameKind(o, v)
            THEN [u EXCEPT !.nodes = Placed(u.nodes, patched, i), !.used = u.used \cup {c.id}]
          ELSE IF PlaceOf(u.nodes, c.id) = 0 THEN [u EXCEPT !.thrown = TRUE]
          ELSE [u EXCEPT !.nodes = Placed([u.nodes EXCEPT ![PlaceOf(u.nodes, c.id)] = new], new, i),
                         !.used = u.used \cup {new.id}]
  BY DEF PatchNode
<1> HIDE DEF u, patched, new, at
<1>4. /\ patched \in IdNode /\ patched.id = c.id /\ patched.tag = c.tag
      /\ patched.on = PatchEvents(c.on, o.on, v.on)
  <2>1. PatchEvents(c.on, o.on, v.on) \in SUBSET Handler
    BY DEF PatchEvents, VNode, Unused, IdNode
  <2> QED  BY <2>1 DEF patched, IdNode, Unused
<1>5. CASE SameKind(o, v)
  <2>1. t = [nodes |-> Placed(s.nodes, patched, i), used |-> s.used \cup {patched.id},
             thrown |-> FALSE, skew |-> t.skew] /\ t.skew = skew
    BY <1>2, <1>3, <1>4, <1>5
  <2>2. ASSUME Described(old, page), ~ t.skew PROVE patched.tag = v.tag /\ patched.on = v.on
    <3>1. o.tag = c.tag /\ (c.on = {} \/ c.on = o.on)  BY <2>1, <2>2
    <3>2. o.tag = v.tag  BY <1>5 DEF SameKind
    <3> QED  BY <1>4, <3>1, <3>2, PatchedEvents
  <2>3. Put(old, page, v, i, s, t, s.nodes, patched)
    <3>1. patched.id \notin s.used /\ patched.id \in DOMAIN page  BY <1>4 DEF Unused
    <3> QED  BY <1>1, <1>4, <2>1, <2>2, <3>1 DEF Put
  <2> QED  BY <2>3
<1>6. CASE ~ SameKind(o, v) /\ at = 0
  <2>1. t = [u EXCEPT !.thrown = TRUE]  BY <1>2, <1>3, <1>6 DEF at
  <2>2. t = [nodes |-> s.nodes, used |-> s.used, thrown |-> TRUE, skew |-> skew]
    BY <1>2, <2>1
  <2> QED  BY <2>2
<1>7. CASE ~ SameKind(o, v) /\ at # 0
  <2> DEFINE nodes == [s.nodes EXCEPT ![at] = new]
  <2>1. t = [nodes |-> Placed(nodes, new, i), used |-> s.used \cup {new.id},
             thrown |-> FALSE, skew |-> t.skew] /\ t.skew = skew
    BY <1>2, <1>3, <1>7 DEF at
  <2>2. at \in DOMAIN s.nodes /\ s.nodes[at].id = c.id  BY <1>1, <1>7, PlaceIs, Zenon DEF at
  <2>3. /\ new \in IdNode /\ new.id = Len(page) + i /\ new.tag = v.tag /\ new.on = v.on
    BY CreatedIs DEF new
  <2>4. new.id \notin s.used  BY <2>3, FreshIs
  <2>5. nodes \in Seq(IdNode) /\ Len(nodes) = Len(s.nodes) /\ Distinct(nodes)
    <3>1. nodes \in Seq(IdNode) /\ Len(nodes) = Len(s.nodes) /\ DOMAIN nodes = DOMAIN s.nodes
      BY <1>1, <2>2, <2>3
    <3>2. \A k \in DOMAIN s.nodes : s.nodes[k].id # new.id  BY <2>3, FreshIs
    <3>3. \A k \in DOMAIN s.nodes : nodes[k] = IF k = at THEN new ELSE s.nodes[k]
      BY <1>1, <2>2
    <3> HIDE DEF nodes
    <3> QED  BY <1>1, <3>1, <3>2, <3>3 DEF Distinct
  <2>6. \A k \in DOMAIN nodes :
           nodes[k] = s.nodes[k] \/ (nodes[k] = new /\ s.nodes[k].id \notin s.used)
    BY <1>1, <2>2 DEF Unused
  <2>7. LET j == Match(old, v)
        IN  j \in DOMAIN page /\ j \notin s.used /\ SameKind(old[j], v) => new.id = j
    BY <1>7
  <2> HIDE DEF nodes
  <2>8. Put(old, page, v, i, s, t, nodes, new)
    BY <2>1, <2>3, <2>4, <2>5, <2>6, <2>7 DEF Put
  <2> QED  BY <2>8
<1> QED  BY <1>5, <1>6, <1>7

\* What a turn comes to.
LEMMA TurnIs ==
  ASSUME NEW old \in Seq(VNode), NEW page \in Seq(Node), NEW v \in VNode,
         NEW i \in Nat \ {0}, NEW s, Shaped(page, i - 1, s), ~ s.thrown,
         NEW t, t = PatchChild(old, page, v, i, s)
  PROVE  \/ \E skew \in BOOLEAN :
               t = [nodes |-> s.nodes, used |-> s.used, thrown |-> TRUE, skew |-> skew]
         \/ \E nodes, w : Put(old, page, v, i, s, t, nodes, w)
<1> DEFINE j == IF Match(old, v) \in DOMAIN page THEN Match(old, v) ELSE 0
           here == IF i \in DOMAIN s.nodes THEN s.nodes[i].id ELSE 0
           id == IF j # 0 THEN j ELSE here
           c == IF PlaceOf(s.nodes, id) # 0 THEN s.nodes[PlaceOf(s.nodes, id)]
                ELSE [id |-> id, tag |-> page[id].tag, on |-> {}]
           x == IF j # 0 THEN j ELSE i
           o == old[x]
           known == id # 0 /\ (j # 0 \/ i \in DOMAIN old)
           skew == s.skew \/ (j = 0 /\ id # i)
<1>1. s \in State /\ s.nodes \in Seq(IdNode) /\ DOMAIN page = 1 .. Len(page)
  BY DEF Shaped, State
<1>2. t = IF ~ known \/ ~ Free(s, id)
            THEN [s EXCEPT !.nodes = InsertAt(s.nodes, i, Created(page, v, i)),
                           !.used = s.used \cup {Len(page) + i}]
          ELSE PatchNode(page, [s EXCEPT !.skew = skew], c, o, v, i)
  BY Zenon DEF PatchChild
<1>3. Match(old, v) = 0 \/ Match(old, v) \in DOMAIN old  BY MatchIs, Zenon
<1>4. /\ j # 0 => j \in DOMAIN page /\ j \in DOMAIN old
      /\ Match(old, v) \in DOMAIN page => j = Match(old, v) /\ j # 0
  BY <1>1, <1>3
<1> HIDE DEF j
<1>5. CASE ~ known \/ ~ Free(s, id)
  <2>1. ~ (Match(old, v) \in DOMAIN page /\ Match(old, v) \notin s.used)
    BY <1>4, <1>5 DEF Free
  <2>2. Grown(page, v, i, s, t)
    BY <1>2, <1>5 DEF Grown
  <2>3. Put(old, page, v, i, s, t, s.nodes, Created(page, v, i))
    BY <2>1, <2>2, CreatedPut
  <2> QED  BY <2>3
<1>6. CASE known /\ Free(s, id)
  <2>1. x \in DOMAIN old /\ o \in VNode  BY <1>4, <1>6
  <2>2. id \notin s.used  BY <1>6 DEF Free
  <2>3. Unused(page, s, c) /\ c.id = id
    <3> DEFINE at == PlaceOf(s.nodes, id)
    <3>1. CASE at = 0
      <4>1. j # 0
        <5> SUFFICES ASSUME j = 0 PROVE FALSE  OBVIOUS
        <5>1. id = here /\ here # 0  BY <1>6
        <5>2. i \in DOMAIN s.nodes /\ s.nodes[i].id = id  BY <5>1
        <5> HIDE DEF id, here
        <5>3. 0 \notin DOMAIN s.nodes  BY <1>1
        <5>4. \A k \in DOMAIN s.nodes : s.nodes[k].id # id
          BY <1>1, <3>1, <5>3, PlaceIs, Zenon
        <5> QED  BY <5>2, <5>4
      <4>2. id = j /\ id \in DOMAIN page  BY <1>4, <4>1
      <4>3. c = [id |-> id, tag |-> page[id].tag, on |-> {}]  BY <3>1
      <4> HIDE DEF id, c
      <4>4. page[id].tag \in Tag /\ id \in Nat
        <5>1. page[id] \in Node /\ id \in Nat  BY <4>2
        <5> QED  BY <5>1 DEF Node
      <4> QED  BY <2>2, <4>2, <4>3, <4>4 DEF Unused, IdNode
    <3>2. CASE at # 0
      <4>1. c = s.nodes[at]  BY <3>2
      <4> HIDE DEF id, c
      <4>2. at \in DOMAIN s.nodes /\ s.nodes[at].id = id  BY <1>1, <3>2, PlaceIs, Zenon
      <4> HIDE DEF at
      <4>3. id \in DOMAIN page /\ s.nodes[at] = Identified(page)[id]
        BY <2>2, <4>2 DEF Shaped
      <4>4. s.nodes[at] \in IdNode  BY <1>1, <4>2
      <4>5. Identified(page)[id] = [id |-> id, tag |-> page[id].tag, on |-> page[id].on]
        BY <4>3 DEF Identified
      <4> QED  BY <2>2, <4>1, <4>2, <4>3, <4>4, <4>5 DEF Unused
    <3> QED  BY <3>1, <3>2
  <2>4. t = PatchNode(page, [s EXCEPT !.skew = skew], c, o, v, i)  BY <1>2, <1>6
  <2>5. skew \in BOOLEAN /\ (s.skew => skew)  BY <1>1 DEF State
  <2>6. Match(old, v) \in DOMAIN page /\ Match(old, v) \notin s.used
          => c.id = Match(old, v) /\ o = old[Match(old, v)]
    BY <1>4, <2>3
  <2>7. ASSUME Described(old, page), ~ skew PROVE o.tag = c.tag /\ (c.on = {} \/ c.on = o.on)
    <3>1. id = x  BY <2>7
    <3>2. id \in DOMAIN page /\ c.tag = page[id].tag /\ (c.on = {} \/ c.on = page[id].on)
      BY <2>3 DEF Unused
    <3> HIDE DEF id, c, x
    <3> QED  BY <2>1, <2>7, <3>1, <3>2 DEF Described
  <2> HIDE DEF id, c, x, o, skew
  <2> QED  BY <2>1, <2>3, <2>4, <2>5, <2>6, <2>7, PatchedPut
<1> QED  BY <1>5, <1>6

\* The turn keeps what is known of the loop, and the places before its own.
LEMMA PutShaped ==
  ASSUME NEW old \in Seq(VNode), NEW page \in Seq(Node), NEW v \in VNode,
         NEW i \in Nat \ {0}, NEW s, Shaped(page, i - 1, s), ~ s.thrown,
         NEW t, NEW nodes, NEW w, Put(old, page, v, i, s, t, nodes, w)
  PROVE  /\ Shaped(page, i, t)
         /\ \A k \in 1 .. i - 1 : t.nodes[k] = s.nodes[k]
         /\ t.nodes[i] = w
<1> DEFINE m == Len(page)
           at == PlaceOf(nodes, w.id)
           placed == Placed(nodes, w, i)
<1>1. PICK n \in Nat : /\ n = Len(s.nodes) /\ DOMAIN s.nodes = 1 .. n /\ DOMAIN nodes = 1 .. n
                       /\ s.nodes \in Seq(IdNode) /\ nodes \in Seq(IdNode) /\ Len(nodes) = n
                       /\ s.used \in SUBSET Nat /\ m \in Nat /\ DOMAIN page = 1 .. m
  <2>1. s.nodes \in Seq(IdNode) /\ s.used \in SUBSET Nat  BY DEF Shaped, State
  <2>2. nodes \in Seq(IdNode) /\ Len(nodes) = Len(s.nodes)  BY Zenon DEF Put
  <2> QED  BY <2>1, <2>2
<1>2. /\ i - 1 <= n /\ s.used = {s.nodes[k].id : k \in 1 .. i - 1}
      /\ i \in 1 .. Len(nodes) + 1
  BY <1>1 DEF Shaped
<1>3. /\ \A k \in 1 .. n : nodes[k] = s.nodes[k] \/ (nodes[k] = w /\ s.nodes[k].id \notin s.used)
      /\ w \in IdNode /\ w.id \notin s.used
      /\ w.id \in 1 .. m \/ w.id = m + i
      /\ t = [nodes |-> placed, used |-> s.used \cup {w.id}, thrown |-> FALSE, skew |-> t.skew]
      /\ t.skew \in BOOLEAN
  <2>1. /\ \A k \in 1 .. n : nodes[k] = s.nodes[k] \/ (nodes[k] = w /\ s.nodes[k].id \notin s.used)
        /\ w \in IdNode /\ w.id \notin s.used
        /\ t = [nodes |-> placed, used |-> s.used \cup {w.id}, thrown |-> FALSE, skew |-> t.skew]
        /\ t.skew \in BOOLEAN
    BY <1>1, Zenon DEF Put
  <2>2. w.id \in DOMAIN page \/ w.id = m + i  BY Zenon DEF Put
  <2> QED  BY <1>1, <2>1, <2>2, Zenon
<1> HIDE DEF placed, at, m
<1>4. \A k \in 1 .. i - 1 : k \in 1 .. n /\ nodes[k] = s.nodes[k] /\ nodes[k].id # w.id
  <2> SUFFICES ASSUME NEW k \in 1 .. i - 1
               PROVE  k \in 1 .. n /\ nodes[k] = s.nodes[k] /\ nodes[k].id # w.id
    OBVIOUS
  <2>1. k \in 1 .. n  BY <1>2
  <2>2. s.nodes[k].id \in s.used  BY <1>2
  <2> QED  BY <1>3, <2>1, <2>2
<1>5. at = 0 \/ at >= i
  <2>1. at = 0 \/ (at \in 1 .. n /\ nodes[at].id = w.id)  BY <1>1, PlaceIs, Zenon DEF at
  <2> QED  BY <1>2, <1>4, <2>1
<1>6. /\ placed \in Seq(IdNode) /\ Distinct(placed) /\ i <= Len(placed) /\ placed[i] = w
      /\ \A k \in 1 .. i - 1 : placed[k] = nodes[k]
      /\ \A k \in DOMAIN placed : k > i =>
            \E x \in 1 .. n : x >= i /\ x # at /\ placed[k] = nodes[x]
  <2>1. Distinct(nodes)  BY DEF Put
  <2>2. Moved(placed, nodes, w, i, at)
    BY <1>1, <1>2, <1>3, <1>5, <2>1, PlacedIs, Zenon DEF at, placed
  <2> QED  BY <1>1, <2>2 DEF Moved
<1>7. t \in State
  <2>1. w.id \in Nat  BY <1>3 DEF IdNode
  <2>2. s.used \cup {w.id} \in SUBSET Nat  BY <1>1, <2>1
  <2>3. PICK skew \in BOOLEAN :
           t = [nodes |-> placed, used |-> s.used \cup {w.id}, thrown |-> FALSE, skew |-> skew]
    BY <1>3, Zenon
  <2> QED  BY <1>6, <2>2, <2>3 DEF State
<1>8. /\ t.nodes = placed /\ t.used = s.used \cup {w.id} /\ ~ t.thrown
      /\ DOMAIN placed = 1 .. Len(placed) /\ Len(placed) \in Nat
  BY <1>3, <1>6
<1>9. ASSUME NEW k \in DOMAIN placed
      PROVE  /\ placed[k].id \in 1 .. m + i
             /\ placed[k].id \notin s.used \cup {w.id} =>
                  placed[k].id \in DOMAIN page /\ placed[k] = Identified(page)[placed[k].id]
  <2>1. \A x \in 1 .. n : s.nodes[x].id \in 1 .. m + (i - 1)  BY <1>1 DEF Shaped, m
  <2>2. \A x \in 1 .. n : s.nodes[x].id \in 1 .. m + i  BY <1>1, <2>1
  <2>3. w.id \in 1 .. m + i  BY <1>1, <1>3
  <2>4. CASE k < i
    <3>1. k \in 1 .. i - 1 /\ k \in 1 .. n /\ placed[k] = s.nodes[k]  BY <1>4, <1>6, <1>8, <2>4
    <3> QED  BY <1>2, <2>2, <3>1
  <2>5. CASE k = i  BY <1>6, <2>3, <2>5
  <2>6. CASE k > i
    <3>1. PICK x \in 1 .. n : placed[k] = nodes[x]  BY <1>6, <2>6
    <3>2. CASE nodes[x] = w  BY <2>3, <3>1, <3>2
    <3>3. CASE nodes[x] = s.nodes[x]
      <4>1. s.nodes[x].id \notin s.used =>
              s.nodes[x].id \in DOMAIN page /\ s.nodes[x] = Identified(page)[s.nodes[x].id]
        BY <1>1 DEF Shaped
      <4> QED  BY <2>2, <3>1, <3>3, <4>1
    <3> QED  BY <1>3, <3>2, <3>3
  <2> QED  BY <1>8, <2>4, <2>5, <2>6
<1>10. s.used \cup {w.id} = {placed[k].id : k \in 1 .. i}
  <2>1. \A k \in 1 .. i : k = i \/ k \in 1 .. i - 1  OBVIOUS
  <2>2. i \in 1 .. i /\ \A k \in 1 .. i - 1 : k \in 1 .. i  OBVIOUS
  <2>3. \A k \in 1 .. i - 1 : placed[k].id = s.nodes[k].id  BY <1>4, <1>6
  <2>4. {placed[k].id : k \in 1 .. i} = {placed[k].id : k \in 1 .. i - 1} \cup {placed[i].id}
    BY <2>1, <2>2
  <2>5. {placed[k].id : k \in 1 .. i - 1} = {s.nodes[k].id : k \in 1 .. i - 1}  BY <2>3
  <2> QED  BY <1>2, <1>6, <2>4, <2>5
<1>11. Shaped(page, i, t)
  <2>1. \A k \in DOMAIN t.nodes :
           /\ t.nodes[k].id \in 1 .. m + i
           /\ t.nodes[k].id \notin t.used =>
                 t.nodes[k].id \in DOMAIN page /\ t.nodes[k] = Identified(page)[t.nodes[k].id]
    BY <1>8, <1>9
  <2>2. Distinct(t.nodes) /\ i <= Len(t.nodes) /\ t.used = {t.nodes[k].id : k \in 1 .. i}
    BY <1>6, <1>8, <1>10, SMTT(30)
  <2> QED  BY <1>7, <2>1, <2>2, Zenon DEF Shaped, m
<1>12. \A k \in 1 .. i - 1 : t.nodes[k] = s.nodes[k]  BY <1>4, <1>6, <1>8
<1> QED  BY <1>6, <1>8, <1>11, <1>12

-----------------------------------------------------------------------------
(* The loop.                                                               *)

\* The children after each turn are those before it, patched.
LEMMA TurnsAre ==
  ASSUME NEW old, NEW page, NEW new \in Seq(VNode)
  PROVE  /\ Turns(old, page, new)[0] = Start(page)
         /\ \A i \in 1 .. Len(new) :
               Turns(old, page, new)[i]
                  = PatchChild(old, page, new[i], i, Turns(old, page, new)[i - 1])
<1> DEFINE step(i, s) == PatchChild(old, page, new[i], i, s)
           Loop(n, h) == h = [i \in 0 .. n |-> IF i = 0 THEN Start(page) ELSE step(i, h[i - 1])]
           Ends == {n \in Nat : \E h : Loop(n, h)}
<1>1. Turns(old, page, new) = CHOOSE h : Loop(Len(new), h)  BY DEF Turns
<1> HIDE DEF step
<1>2. 0 \in Ends
  <2>1. Loop(0, [i \in 0 .. 0 |-> Start(page)])  OBVIOUS
  <2> QED  BY <2>1
<1>3. ASSUME NEW n \in Nat, n \in Ends PROVE n + 1 \in Ends
  <2>1. PICK h : Loop(n, h)  BY <1>3
  <2> DEFINE g == [i \in 0 .. n + 1 |-> IF i = n + 1 THEN step(n + 1, h[n]) ELSE h[i]]
  <2>2. /\ \A i \in 0 .. n : g[i] = h[i] /\ h[i] = IF i = 0 THEN Start(page) ELSE step(i, h[i - 1])
        /\ g[n + 1] = step(n + 1, h[n])
    BY <2>1
  <2>3. ASSUME NEW i \in 0 .. n + 1
        PROVE  g[i] = IF i = 0 THEN Start(page) ELSE step(i, g[i - 1])
    <3> HIDE DEF g, Loop
    <3>1. CASE i = n + 1
      <4>1. i # 0 /\ i - 1 = n /\ n \in 0 .. n  BY <3>1
      <4> QED  BY <2>2, <3>1, <4>1
    <3>2. CASE i # n + 1
      <4>1. i \in 0 .. n /\ (i # 0 => i - 1 \in 0 .. n)  BY <3>2
      <4> QED  BY <2>2, <4>1
    <3> QED  BY <3>1, <3>2
  <2>4. Loop(n + 1, g)  BY <2>3
  <2> HIDE DEF Loop, g
  <2> QED  BY <2>4
<1>4. Nat \subseteq Ends
  <2> HIDE DEF Ends
  <2> QED  BY <1>2, <1>3, SetInduction
<1>5. \E h : Loop(Len(new), h)
  <2>1. Len(new) \in Ends  BY <1>4
  <2> QED  BY <2>1
<1>6. Loop(Len(new), Turns(old, page, new))
  <2> HIDE DEF Loop
  <2> QED  BY <1>1, <1>5
<1> DEFINE g == Turns(old, page, new)
<1> HIDE DEF g
<1>7. Loop(Len(new), g)  BY <1>6 DEF g
<1>8. g[0] = Start(page) /\ \A i \in 1 .. Len(new) : g[i] = step(i, g[i - 1])
  BY <1>7
<1> QED  BY <1>8 DEF g, step

\* Before the loop every node has its own number.
LEMMA StartShaped ==
  ASSUME NEW page \in Seq(Node)
  PROVE  Shaped(page, 0, Start(page)) /\ ~ Start(page).thrown
<1>1. /\ Identified(page) \in Seq(IdNode) /\ DOMAIN Identified(page) = 1 .. Len(page)
      /\ Len(Identified(page)) = Len(page) /\ DOMAIN page = 1 .. Len(page)
      /\ \A k \in 1 .. Len(page) : Identified(page)[k].id = k
  <2>1. \A k \in 1 .. Len(page) :
           [id |-> k, tag |-> page[k].tag, on |-> page[k].on] \in IdNode
    <3> SUFFICES ASSUME NEW k \in 1 .. Len(page)
                 PROVE  [id |-> k, tag |-> page[k].tag, on |-> page[k].on] \in IdNode
      OBVIOUS
    <3>1. page[k] \in Node  OBVIOUS
    <3> QED  BY <3>1 DEF Node, IdNode
  <2> QED  BY <2>1 DEF Identified
<1>2. /\ Start(page).nodes = Identified(page) /\ Start(page).used = {}
      /\ ~ Start(page).thrown
  BY DEF Start
<1>3. Start(page) \in State  BY <1>1 DEF Start, State
<1>4. Distinct(Identified(page))  BY <1>1 DEF Distinct
<1>5. {Start(page).nodes[k].id : k \in 1 .. 0} = {}  OBVIOUS
<1>6. Len(page) \in Nat  OBVIOUS
<1> DEFINE nodes == Identified(page)
<1> HIDE DEF nodes
<1>7. \A k \in DOMAIN nodes : /\ nodes[k].id \in 1 .. Len(page) + 0
                              /\ nodes[k].id \in DOMAIN page
                              /\ nodes[k] = nodes[nodes[k].id]
  BY <1>1, <1>6 DEF nodes
<1>8. 0 <= Len(nodes)  BY <1>1, <1>6 DEF nodes
<1> QED  BY <1>2, <1>3, <1>4, <1>5, <1>7, <1>8 DEF Shaped, nodes

\* After i turns, unless one has thrown, the first i nodes show the first i children.
Shows(old, page, new, i, s) ==
    ~ s.thrown /\ ~ s.skew /\ Described(old, page) =>
        \A k \in 1 .. i : s.nodes[k].tag = new[k].tag /\ s.nodes[k].on = new[k].on

\* ... and are the nodes the children had, where children only come after them.
Steady(old, page, new) ==
    /\ DOMAIN page = DOMAIN old
    /\ \A i, j \in DOMAIN old : i # j => old[i].key # old[j].key
    /\ \A i, j \in DOMAIN new : i # j => new[i].key # new[j].key
    /\ Keyed(old) /\ Keyed(new) /\ AppendsOnly(old, new) /\ TagsKept(old, new)
Keeps(old, page, new, i, s) ==
    ~ s.thrown /\ Steady(old, page, new) =>
        \A k \in 1 .. i : new[k].key \in KeysOf(old) => s.nodes[k].id = Match(old, new[k])

\* What the loop leaves behind: by induction on its turns.
LEMMA LoopIs ==
  ASSUME NEW old \in Seq(VNode), NEW page \in Seq(Node), NEW new \in Seq(VNode)
  PROVE  LET s == PatchLoop(old, page, new)
         IN  /\ Shaped(page, Len(new), s)
             /\ Shows(old, page, new, Len(new), s)
             /\ Keeps(old, page, new, Len(new), s)
<1> DEFINE g == Turns(old, page, new)
           Good(i, s) == /\ Shaped(page, i, s)
                         /\ Shows(old, page, new, i, s)
                         /\ Keeps(old, page, new, i, s)
           S == {i \in Nat : Good(i, g[i])}
<1> HIDE DEF g
<1>1. /\ g[0] = Start(page)
      /\ \A i \in 1 .. Len(new) : g[i] = PatchChild(old, page, new[i], i, g[i - 1])
  BY TurnsAre DEF g
<1>2. 0 \in S  BY <1>1, StartShaped DEF Shows, Keeps
<1>3. ASSUME NEW i \in 1 .. Len(new), i - 1 \in S PROVE i \in S
  <2> DEFINE s == g[i - 1]
             t == g[i]
             v == new[i]
  <2>1. Good(i - 1, s)  BY <1>3
  <2>2. t = PatchChild(old, page, v, i, s) /\ i \in Nat \ {0} /\ v \in VNode  BY <1>1
  <2> HIDE DEF s, t, v
  <2>3. CASE s.thrown
    <3>1. t = s  BY <2>2, <2>3 DEF PatchChild
    <3>2. Shaped(page, i, s)
      <4>1. 1 .. Len(page) + (i - 1) \subseteq 1 .. Len(page) + i  OBVIOUS
      <4> QED  BY <2>1, <2>3, <4>1 DEF Shaped
    <3> QED  BY <2>3, <3>1, <3>2 DEF Shows, Keeps, t
  <2>4. CASE ~ s.thrown
    <3>1. CASE \E skew \in BOOLEAN :
                  t = [nodes |-> s.nodes, used |-> s.used, thrown |-> TRUE, skew |-> skew]
      <4>1. PICK skew \in BOOLEAN :
               t = [nodes |-> s.nodes, used |-> s.used, thrown |-> TRUE, skew |-> skew]
        BY <3>1
      <4>2. t.thrown /\ t.nodes = s.nodes /\ t.used = s.used  BY <4>1
      <4>3. t \in State  BY <2>1, <4>1 DEF Shaped, State
      <4>4. Shaped(page, i, t)
        <5>1. 1 .. Len(page) + (i - 1) \subseteq 1 .. Len(page) + i  OBVIOUS
        <5> QED  BY <2>1, <4>2, <4>3, <5>1 DEF Shaped
      <4> QED  BY <4>2, <4>4 DEF Shows, Keeps, t
    <3>2. CASE \E nodes, w : Put(old, page, v, i, s, t, nodes, w)
      <4>1. PICK nodes, w : Put(old, page, v, i, s, t, nodes, w)  BY <3>2
      <4>2. /\ Shaped(page, i, t)
            /\ \A k \in 1 .. i - 1 : t.nodes[k] = s.nodes[k]
            /\ t.nodes[i] = w
        <5>1. Shaped(page, i - 1, s) /\ i \in Nat \ {0}  BY <2>1, <2>2
        <5> QED  BY <2>2, <2>4, <4>1, <5>1, PutShaped
      <4>3. \A k \in 1 .. i : k = i \/ k \in 1 .. i - 1  OBVIOUS
      <4>4. Shows(old, page, new, i, t)
        <5> SUFFICES ASSUME ~ t.thrown, ~ t.skew, Described(old, page), NEW k \in 1 .. i
                     PROVE  t.nodes[k].tag = new[k].tag /\ t.nodes[k].on = new[k].on
          BY DEF Shows
        <5>1. (s.skew => t.skew) /\ w.tag = v.tag /\ w.on = v.on  BY <4>1, Zenon DEF Put
        <5>2. CASE k = i  BY <4>2, <5>1, <5>2 DEF v
        <5>3. CASE k \in 1 .. i - 1  BY <2>1, <2>4, <4>2, <5>1, <5>3 DEF Shows
        <5> QED  BY <4>3, <5>2, <5>3
      <4>5. Keeps(old, page, new, i, t)
        <5> SUFFICES ASSUME Steady(old, page, new), NEW k \in 1 .. i, new[k].key \in KeysOf(old)
                     PROVE  t.nodes[k].id = Match(old, new[k])
          BY DEF Keeps
        <5>1. CASE k \in 1 .. i - 1  BY <2>1, <2>4, <4>2, <5>1 DEF Keeps
        <5>2. CASE k = i
          <6>1. v.key \in KeysOf(old)  BY <5>2 DEF v
          <6>2. Match(old, v) \in DOMAIN old /\ old[Match(old, v)].key = v.key
            <7>1. \E x \in DOMAIN old : v.key # NoKey /\ old[x].key = v.key
              BY <6>1 DEF KeysOf
            <7> QED  BY <7>1, MatchIs, Zenon
          <6>3. SameKind(old[Match(old, v)], v)
            BY <6>2 DEF Steady, TagsKept, SameKind, v
          <6>4. Match(old, v) \notin s.used
            <7> SUFFICES ASSUME NEW l \in 1 .. i - 1, s.nodes[l].id = Match(old, v)
                         PROVE  FALSE
              BY <2>1, <2>4 DEF Shaped
            <7>1. l \in DOMAIN new /\ i \in DOMAIN new /\ l < i  OBVIOUS
            <7>2. new[l].key \in KeysOf(old)
              BY <6>1, <7>1 DEF Steady, AppendsOnly, v
            <7>3. s.nodes[l].id = Match(old, new[l])  BY <2>1, <2>4, <7>2 DEF Keeps
            <7>4. old[Match(old, new[l])].key = new[l].key
              <8>1. \E x \in DOMAIN old : new[l].key # NoKey /\ old[x].key = new[l].key
                BY <7>2 DEF KeysOf
              <8> QED  BY <8>1, MatchIs, Zenon
            <7>5. new[l].key = new[i].key  BY <6>2, <7>3, <7>4 DEF v
            <7> QED  BY <7>1, <7>5, SMTT(30) DEF Steady
          <6>5. w.id = Match(old, v)
            BY <4>1, <6>2, <6>3, <6>4, Zenon DEF Put, Steady
          <6> QED  BY <4>2, <5>2, <6>5 DEF v
        <5> QED  BY <4>3, <5>1, <5>2
      <4> QED  BY <4>2, <4>4, <4>5 DEF t
    <3> QED  BY <2>1, <2>2, <2>4, <3>1, <3>2, TurnIs
  <2> QED  BY <2>3, <2>4
<1>4. Len(new) \in S
  <2>1. Len(new) \in Nat /\ Len(new) \in 0 .. Len(new)  OBVIOUS
  <2> HIDE DEF S
  <2> QED  BY <1>2, <1>3, <2>1, UpTo
<1> QED  BY <1>4 DEF PatchLoop, g

\* The sweep looks at one node after the other.
LEMMA SweepAre ==
  ASSUME NEW nodes \in Seq(IdNode), NEW used
  PROVE  /\ Sweep(nodes, used)[0] = <<>>
         /\ \A i \in 1 .. Len(nodes) :
               Sweep(nodes, used)[i] = IF nodes[i].id \in used
                                         THEN Append(Sweep(nodes, used)[i - 1], nodes[i])
                                       ELSE Sweep(nodes, used)[i - 1]
<1> DEFINE step(i, s) == IF nodes[i].id \in used THEN Append(s, nodes[i]) ELSE s
           Loop(n, h) == h = [i \in 0 .. n |-> IF i = 0 THEN <<>> ELSE step(i, h[i - 1])]
           Ends == {n \in Nat : \E h : Loop(n, h)}
<1>1. Sweep(nodes, used) = CHOOSE h : Loop(Len(nodes), h)  BY DEF Sweep
<1> HIDE DEF step
<1>2. 0 \in Ends
  <2>1. Loop(0, [i \in 0 .. 0 |-> <<>>])  OBVIOUS
  <2> QED  BY <2>1
<1>3. ASSUME NEW n \in Nat, n \in Ends PROVE n + 1 \in Ends
  <2>1. PICK h : Loop(n, h)  BY <1>3
  <2> DEFINE g == [i \in 0 .. n + 1 |-> IF i = n + 1 THEN step(n + 1, h[n]) ELSE h[i]]
  <2>2. /\ \A i \in 0 .. n : g[i] = h[i] /\ h[i] = IF i = 0 THEN <<>> ELSE step(i, h[i - 1])
        /\ g[n + 1] = step(n + 1, h[n])
    BY <2>1
  <2>3. ASSUME NEW i \in 0 .. n + 1
        PROVE  g[i] = IF i = 0 THEN <<>> ELSE step(i, g[i - 1])
    <3> HIDE DEF g, Loop
    <3>1. CASE i = n + 1
      <4>1. i # 0 /\ i - 1 = n /\ n \in 0 .. n  BY <3>1
      <4> QED  BY <2>2, <3>1, <4>1
    <3>2. CASE i # n + 1
      <4>1. i \in 0 .. n /\ (i # 0 => i - 1 \in 0 .. n)  BY <3>2
      <4> QED  BY <2>2, <4>1
    <3> QED  BY <3>1, <3>2
  <2>4. Loop(n + 1, g)  BY <2>3
  <2> HIDE DEF Loop, g
  <2> QED  BY <2>4
<1>4. Nat \subseteq Ends
  <2> HIDE DEF Ends
  <2> QED  BY <1>2, <1>3, SetInduction
<1>5. \E h : Loop(Len(nodes), h)
  <2>1. Len(nodes) \in Ends  BY <1>4
  <2> QED  BY <2>1
<1>6. Loop(Len(nodes), Sweep(nodes, used))
  <2> HIDE DEF Loop
  <2> QED  BY <1>1, <1>5
<1> DEFINE g == Sweep(nodes, used)
<1> HIDE DEF g
<1>7. Loop(Len(nodes), g)  BY <1>6 DEF g
<1>8. g[0] = <<>> /\ \A i \in 1 .. Len(nodes) : g[i] = step(i, g[i - 1])
  BY <1>7
<1> QED  BY <1>8 DEF g, step

\* What the children have not used comes after them, and goes.
LEMMA SweptIs ==
  ASSUME NEW page, NEW n \in Nat, NEW s, Shaped(page, n, s), ~ s.thrown
  PROVE  /\ Swept(s) \in Seq(IdNode) /\ Len(Swept(s)) = n
         /\ \A k \in 1 .. n : Swept(s)[k] = s.nodes[k]
<1> DEFINE g == Sweep(s.nodes, s.used)
           least(i) == IF i <= n THEN i ELSE n
           Good(i) == /\ g[i] \in Seq(IdNode) /\ Len(g[i]) = least(i)
                      /\ \A k \in 1 .. least(i) : g[i][k] = s.nodes[k]
           S == {i \in Nat : Good(i)}
<1>1. PICK l \in Nat : /\ l = Len(s.nodes) /\ DOMAIN s.nodes = 1 .. l /\ n <= l
                       /\ s.nodes \in Seq(IdNode) /\ Distinct(s.nodes)
                       /\ s.used = {s.nodes[k].id : k \in 1 .. n}
  BY DEF Shaped, State
<1>2. /\ g[0] = <<>>
      /\ \A i \in 1 .. l : g[i] = IF s.nodes[i].id \in s.used
                                    THEN Append(g[i - 1], s.nodes[i]) ELSE g[i - 1]
  BY <1>1, SweepAre
<1> HIDE DEF g
<1>3. \A i \in 1 .. l : s.nodes[i].id \in s.used <=> i <= n
  <2> SUFFICES ASSUME NEW i \in 1 .. l PROVE s.nodes[i].id \in s.used <=> i <= n  OBVIOUS
  <2>1. ASSUME s.nodes[i].id \in s.used PROVE i <= n
    <3>1. PICK k \in 1 .. n : s.nodes[k].id = s.nodes[i].id  BY <1>1, <2>1
    <3>2. k \in 1 .. l  BY <1>1
    <3> QED  BY <1>1, <3>1, <3>2 DEF Distinct
  <2>2. ASSUME i <= n PROVE s.nodes[i].id \in s.used
    <3>1. i \in 1 .. n  BY <2>2
    <3> QED  BY <1>1, <3>1
  <2> QED  BY <2>1, <2>2
<1>4. 0 \in S
  <2>1. least(0) = 0 /\ 1 .. 0 = {}  OBVIOUS
  <2>2. g[0] \in Seq(IdNode) /\ Len(g[0]) = 0  BY <1>2
  <2> QED  BY <2>1, <2>2
<1>5. ASSUME NEW i \in 1 .. l, i - 1 \in S PROVE i \in S
  <2>1. Good(i - 1)  BY <1>5
  <2>2. CASE i <= n
    <3>1. least(i) = i /\ least(i - 1) = i - 1  BY <2>2
    <3>2. g[i] = Append(g[i - 1], s.nodes[i]) /\ s.nodes[i] \in IdNode
      <4>1. s.nodes[i].id \in s.used  BY <1>3, <2>2
      <4>2. g[i] = IF s.nodes[i].id \in s.used
                     THEN Append(g[i - 1], s.nodes[i]) ELSE g[i - 1]
        BY <1>2
      <4> HIDE DEF S
      <4>3. g[i] = Append(g[i - 1], s.nodes[i])  BY <4>1, <4>2
      <4>4. s.nodes[i] \in IdNode  BY <1>1
      <4> QED  BY <4>3, <4>4
    <3>3. /\ g[i] \in Seq(IdNode) /\ Len(g[i]) = (i - 1) + 1
          /\ \A k \in 1 .. i - 1 : g[i][k] = g[i - 1][k]
          /\ g[i][(i - 1) + 1] = s.nodes[i]
      BY <2>1, <3>1, <3>2, AppendProperties
    <3>4. \A k \in 1 .. i : k = i \/ k \in 1 .. i - 1  OBVIOUS
    <3>5. (i - 1) + 1 = i  OBVIOUS
    <3>6. \A k \in 1 .. i : g[i][k] = s.nodes[k]  BY <2>1, <3>1, <3>3, <3>4, <3>5
    <3> QED  BY <3>1, <3>3, <3>5, <3>6
  <2>3. CASE ~ (i <= n)
    <3>1. least(i) = n /\ least(i - 1) = n  BY <2>3
    <3>2. g[i] = g[i - 1]  BY <1>2, <1>3, <2>3
    <3> QED  BY <2>1, <3>1, <3>2
  <2> QED  BY <2>2, <2>3
<1>6. l \in S
  <2>1. l \in 0 .. l  OBVIOUS
  <2> HIDE DEF S
  <2> QED  BY <1>4, <1>5, <2>1, UpTo
<1>7. least(l) = n  BY <1>1
<1> QED  BY <1>1, <1>6, <1>7 DEF Swept, g

-----------------------------------------------------------------------------
(* The renderer.                                                           *)

\* Siblings with keys have different ones.
Unique(f) == \A i, j \in DOMAIN f : i # j /\ f[i].key = f[j].key => f[i].key = NoKey

\* A page that shows nothing yet is what the server rendered: nothing listens.
Fresh == phase = "new" => /\ frame = <<>>
                          /\ ~ broken => \A k \in DOMAIN dom : dom[k].on = {}

DomInv == TypeOK /\ FrameShown /\ Unique(frame) /\ Fresh

\* The frames of a render are sequences of children, with the handlers of the render.
LEMMA FramesAre ==
  ASSUME renders \in 0 .. MaxRenders, renders < MaxRenders, NEW next \in Frames
  PROVE  /\ next \in Seq(VNode) /\ Len(next) <= MaxChildren /\ Unique(next)
         /\ HandlersOf(next) \subseteq Handler
         /\ DOMAIN next = 1 .. Len(next) /\ Len(next) \in Nat
<1>1. PICK layout \in Layouts : next = FrameOf(layout, renders + 1)  BY DEF Frames
<1>2. PICK m \in 0 .. MaxChildren : layout \in [1 .. m -> Child]
  BY <1>1 DEF Layouts, BoundedSeq, SeqOf
<1>3. renders + 1 \in Handler  BY BoundsAreNatural DEF Handler
<1>4. m \in Nat /\ m <= MaxChildren  BY BoundsAreNatural
<1> DEFINE e(i) == [key |-> layout[i].key, tag |-> layout[i].tag,
                    on |-> IF layout[i].listens THEN {renders + 1} ELSE {}]
<1>5. next = [i \in 1 .. m |-> e(i)]  BY <1>1, <1>2 DEF FrameOf
<1>6. ASSUME NEW i \in 1 .. m PROVE e(i) \in VNode
  <2>1. layout[i] \in Child  BY <1>2
  <2>2. layout[i] \in [key : Key \cup {NoKey}, tag : Tag, listens : BOOLEAN]
    BY <2>1, ChildrenAreDescribed
  <2>3. (IF layout[i].listens THEN {renders + 1} ELSE {}) \in SUBSET Handler  BY <1>3
  <2> QED  BY <2>2, <2>3 DEF VNode
<1>7. \A i \in 1 .. m : e(i).key = layout[i].key  OBVIOUS
<1>8. \A i, j \in 1 .. m : i # j /\ layout[i].key = layout[j].key => layout[i].key = NoKey
  BY <1>1, <1>2 DEF Layouts
<1> HIDE DEF e
<1>9. next \in Seq(VNode) /\ Len(next) = m /\ DOMAIN next = 1 .. m  BY <1>4, <1>5, <1>6
<1>10. \A i \in 1 .. m : next[i] = e(i)  BY <1>5
<1>11. Unique(next)  BY <1>7, <1>8, <1>9, <1>10 DEF Unique
<1>12. HandlersOf(next) \subseteq Handler
  <2>1. \A i \in 1 .. m : next[i].on \subseteq Handler  BY <1>6, <1>10 DEF VNode
  <2> QED  BY <1>9, <2>1 DEF HandlersOf
<1> QED  BY <1>4, <1>9, <1>11, <1>12

LEMMA AnonymousIs ==
  ASSUME NEW nodes \in Seq(IdNode)
  PROVE  /\ Anonymous(nodes) \in Seq(Node) /\ Len(Anonymous(nodes)) = Len(nodes)
         /\ \A k \in DOMAIN nodes :
               Anonymous(nodes)[k].tag = nodes[k].tag /\ Anonymous(nodes)[k].on = nodes[k].on
<1> DEFINE e(k) == [tag |-> nodes[k].tag, on |-> nodes[k].on]
<1>1. \A k \in 1 .. Len(nodes) : e(k) \in Node
  <2> SUFFICES ASSUME NEW k \in 1 .. Len(nodes) PROVE e(k) \in Node  OBVIOUS
  <2>1. nodes[k] \in IdNode  OBVIOUS
  <2> QED  BY <2>1 DEF IdNode, Node
<1>2. Anonymous(nodes) = [k \in 1 .. Len(nodes) |-> e(k)] /\ Len(nodes) \in Nat
  BY DEF Anonymous
<1>3. \A k \in DOMAIN nodes : k \in 1 .. Len(nodes) /\ e(k).tag = nodes[k].tag /\ e(k).on = nodes[k].on
  OBVIOUS
<1> HIDE DEF e
<1> QED  BY <1>1, <1>2, <1>3

\* What the page shows, of a frame.
LEMMA ShownIs ==
  ASSUME NEW d, NEW f, NEW n \in Nat, d \in Seq(Node), f \in Seq(VNode), Len(d) = n, Len(f) = n,
         \A k \in 1 .. n : d[k].tag = f[k].tag /\ d[k].on = f[k].on
  PROVE  d = [i \in DOMAIN f |-> [tag |-> f[i].tag, on |-> f[i].on]]
<1>1. DOMAIN d = 1 .. n /\ DOMAIN f = 1 .. n /\ d = [i \in 1 .. n |-> d[i]]  OBVIOUS
<1>2. \A k \in 1 .. n : d[k] = [tag |-> f[k].tag, on |-> f[k].on]
  <2> SUFFICES ASSUME NEW k \in 1 .. n PROVE d[k] = [tag |-> f[k].tag, on |-> f[k].on]  OBVIOUS
  <2>1. d[k] \in Node  BY <1>1
  <2>2. d[k] = [tag |-> d[k].tag, on |-> d[k].on]  BY <2>1 DEF Node
  <2> QED  BY <2>2
<1> QED  BY <1>1, <1>2

\* Between two updates of a whole page each node is as the frame describes it.
LEMMA DescribedIs ==
  ASSUME DomInv, Whole, phase # "off"
  PROVE  Described(frame, dom)
<1>1. CASE phase = "new"
  <2>1. DOMAIN frame = {}  BY <1>1 DEF DomInv, Fresh
  <2> QED  BY <2>1 DEF Described
<1>2. CASE phase = "mounted"
  <2>1. dom = [i \in DOMAIN frame |-> [tag |-> frame[i].tag, on |-> frame[i].on]]
    BY <1>2 DEF DomInv, FrameShown
  <2> QED  BY <2>1 DEF Described
<1> QED  BY <1>1, <1>2 DEF DomInv, TypeOK

LEMMA InitDom == Init => DomInv
<1> SUFFICES ASSUME Init PROVE DomInv  OBVIOUS
<1>1. PICK m \in 0 .. MaxChildren : dom \in [1 .. m -> {[tag |-> t, on |-> {}] : t \in Tag}]
  BY DEF Init, ServerPages, BoundedSeq, SeqOf
<1>2. m \in Nat /\ m <= MaxChildren  BY BoundsAreNatural
<1>3. \A t \in Tag : [tag |-> t, on |-> {}] \in Node  BY DEF Node
<1>4. \A k \in 1 .. m : dom[k] \in Node /\ dom[k].on = {}
  <2> SUFFICES ASSUME NEW k \in 1 .. m PROVE dom[k] \in Node /\ dom[k].on = {}  OBVIOUS
  <2>1. PICK t \in Tag : dom[k] = [tag |-> t, on |-> {}]  BY <1>1
  <2> QED  BY <1>3, <2>1
<1>5. dom \in Seq(Node) /\ Len(dom) = m /\ DOMAIN dom = 1 .. m
  <2>1. dom = [k \in 1 .. m |-> dom[k]]  BY <1>1
  <2> QED  BY <1>2, <1>4, <2>1
<1>6. TypeOK
  <2>1. <<>> \in Seq(VNode) /\ Len(<<>>) = 0  OBVIOUS
  <2>2. /\ phase = "new" /\ frame = <<>> /\ retained = {} /\ registry = {}
        /\ renders = 0 /\ skewed = FALSE /\ broken = FALSE
    BY DEF Init
  <2>3. Len(frame) <= MaxChildren /\ renders \in 0 .. MaxRenders
    BY <2>1, <2>2, BoundsAreNatural
  <2> QED  BY <1>2, <1>5, <2>1, <2>2, <2>3 DEF TypeOK
<1>7. FrameShown /\ Unique(frame) /\ Fresh
  BY <1>4, <1>5 DEF Init, FrameShown, Unique, Fresh
<1> QED  BY <1>6, <1>7 DEF DomInv

LEMMA AppliedTypes ==
  ASSUME TypeOK, renders < MaxRenders, renders' = renders + 1, NEW next \in Frames, Applied(next),
         dom' \in Seq(Node), broken' \/ Len(dom') <= MaxChildren,
         skewed' \in BOOLEAN, broken' \in BOOLEAN
  PROVE  TypeOK' /\ Unique(frame)' /\ frame' = next /\ phase' = "mounted"
<1>1. /\ next \in Seq(VNode) /\ Len(next) <= MaxChildren /\ Unique(next)
      /\ HandlersOf(next) \subseteq Handler
  BY FramesAre DEF TypeOK
<1>2. /\ registry' = (registry \cup HandlersOf(next)) \ Released(HandlersOf(next))
      /\ retained' = HandlersOf(next) /\ frame' = next /\ phase' = "mounted"
  BY DEF Applied
<1>3. renders + 1 \in 0 .. MaxRenders  BY BoundsAreNatural DEF TypeOK
<1>4. registry' \subseteq Handler  BY <1>1, <1>2 DEF TypeOK
<1> QED  BY <1>1, <1>2, <1>3, <1>4 DEF TypeOK, Unique

\* render() and its failures.
LEMMA RenderDom == ASSUME DomInv, Render PROVE DomInv'
<1>1. PICK next \in Frames : RenderFrame(next) \/ RenderThrows(next)
  BY DEF Render
<1>2. /\ TypeOK /\ renders < MaxRenders /\ renders' = renders + 1 /\ phase # "off"
      /\ renders \in 0 .. MaxRenders /\ frame \in Seq(VNode) /\ dom \in Seq(Node)
      /\ skewed \in BOOLEAN /\ broken \in BOOLEAN
  BY DEF Render, DomInv, TypeOK
<1>3. /\ next \in Seq(VNode) /\ Len(next) <= MaxChildren /\ Len(next) \in Nat
      /\ HandlersOf(next) \subseteq Handler
  BY <1>2, FramesAre
<1>4. CASE RenderFrame(next)
  <2> DEFINE s == PatchLoop(frame, dom, next)
             n == Len(next)
             swept == Swept(s)
  <2>1. Shaped(dom, n, s) /\ Shows(frame, dom, next, n, s)  BY <1>2, <1>3, LoopIs
  <2>2. /\ ~ s.thrown /\ dom' = Anonymous(swept) /\ skewed' = (skewed \/ s.skew)
        /\ Applied(next) /\ broken' = broken
    BY <1>4 DEF RenderFrame
  <2> HIDE DEF s
  <2>3. swept \in Seq(IdNode) /\ Len(swept) = n /\ \A k \in 1 .. n : swept[k] = s.nodes[k]
    BY <1>3, <2>1, <2>2, SweptIs
  <2> HIDE DEF swept
  <2>4. /\ dom' \in Seq(Node) /\ Len(dom') = n
        /\ \A k \in 1 .. n : dom'[k].tag = s.nodes[k].tag /\ dom'[k].on = s.nodes[k].on
    <3>1. DOMAIN swept = 1 .. n  BY <2>3
    <3> QED  BY <2>2, <2>3, <3>1, AnonymousIs
  <2>5. s.skew \in BOOLEAN  BY <2>1 DEF Shaped, State
  <2>6. skewed' \in BOOLEAN /\ broken' \in BOOLEAN  BY <1>2, <2>2, <2>5
  <2>7. TypeOK' /\ Unique(frame)' /\ frame' = next /\ phase' = "mounted"
    BY <1>2, <1>3, <2>2, <2>4, <2>6, AppliedTypes
  <2>8. FrameShown'
    <3> SUFFICES ASSUME Whole'
                 PROVE  dom' = [i \in DOMAIN next |-> [tag |-> next[i].tag, on |-> next[i].on]]
      BY <2>7 DEF FrameShown
    <3>1. ~ s.skew /\ Whole  BY <2>2 DEF Whole
    <3>2. Described(frame, dom)  BY <1>2, <3>1, DescribedIs
    <3>3. \A k \in 1 .. n : dom'[k].tag = next[k].tag /\ dom'[k].on = next[k].on
      BY <2>1, <2>2, <2>4, <3>1, <3>2 DEF Shows
    <3> QED  BY <1>3, <2>4, <3>3, ShownIs
  <2> QED  BY <2>7, <2>8 DEF DomInv, Fresh
<1>5. CASE RenderThrows(next)
  <2>1. PICK count \in 0 .. Len(next) :
          LET s == PatchLoop(frame, dom, SubSeq(next, 1, count))
          IN  /\ dom' = Anonymous(s.nodes) /\ Refused(next)
              /\ phase' = phase /\ skewed' = skewed
    BY <1>5 DEF RenderThrows
  <2> DEFINE some == SubSeq(next, 1, count)
             s == PatchLoop(frame, dom, some)
  <2>2. some \in Seq(VNode)  BY <1>3
  <2> HIDE DEF some
  <2>3. Shaped(dom, Len(some), s)  BY <1>2, <2>2, LoopIs
  <2>4. s.nodes \in Seq(IdNode)  BY <2>3 DEF Shaped, State
  <2> HIDE DEF s
  <2>5. dom' \in Seq(Node)  BY <2>1, <2>4, AnonymousIs DEF s, some
  <2>6. /\ broken' = TRUE /\ retained' = retained /\ frame' = frame
        /\ registry' \subseteq Handler
    BY <1>2, <1>3, <2>1 DEF Refused, TypeOK
  <2>7. renders + 1 \in 0 .. MaxRenders  BY <1>2, BoundsAreNatural
  <2>8. TypeOK'  BY <1>2, <2>1, <2>5, <2>6, <2>7 DEF TypeOK
  <2> QED  BY <2>1, <2>6, <2>8 DEF DomInv, Unique, Fresh, FrameShown, Whole
<1> QED  BY <1>1, <1>4, <1>5

\* A hydrated page shows what it was hydrated with.
LEMMA HydratedIs ==
  ASSUME NEW page \in Seq(Node), NEW new \in Seq(VNode), NEW count \in 0 .. Len(new)
  PROVE  /\ Hydrated(page, new, count) \in Seq(Node) /\ Len(Hydrated(page, new, count)) = count
         /\ \A k \in 1 .. count : Hydrated(page, new, count)[k].tag = new[k].tag
         /\ (\A k \in DOMAIN page : page[k].on = {}) =>
               \A k \in 1 .. count : Hydrated(page, new, count)[k].on = new[k].on
<1> DEFINE e(k) == IF k \in DOMAIN page THEN HydrateNode(page[k], new[k])
                   ELSE [tag |-> new[k].tag, on |-> new[k].on]
<1>1. count \in Nat /\ \A k \in 1 .. count : new[k] \in VNode  OBVIOUS
<1>2. ASSUME NEW k \in 1 .. count
      PROVE  /\ e(k) \in Node /\ e(k).tag = new[k].tag
             /\ (\A l \in DOMAIN page : page[l].on = {}) => e(k).on = new[k].on
  <2>1. new[k].tag \in Tag /\ new[k].on \subseteq Handler  BY <1>1 DEF VNode
  <2>2. CASE k \notin DOMAIN page  BY <2>1, <2>2 DEF Node
  <2>3. CASE k \in DOMAIN page
    <3>1. page[k] \in Node  BY <2>3
    <3>2. page[k].on \subseteq Handler  BY <3>1 DEF Node
    <3>3. e(k) = [tag |-> new[k].tag,
                  on |-> IF page[k].tag = new[k].tag
                           THEN (page[k].on \ ({} \ new[k].on)) \cup new[k].on ELSE new[k].on]
      BY <2>3 DEF HydrateNode, PatchEvents
    <3> HIDE DEF e
    <3>4. e(k).tag = new[k].tag
          /\ e(k).on = IF page[k].tag = new[k].tag THEN page[k].on \cup new[k].on ELSE new[k].on
      BY <3>3
    <3>5. e(k) = [tag |-> e(k).tag, on |-> e(k).on]  BY <3>3
    <3>6. e(k).on \subseteq Handler  BY <2>1, <3>2, <3>4
    <3>7. e(k) \in Node  BY <2>1, <3>4, <3>5, <3>6 DEF Node
    <3> QED  BY <2>3, <3>4, <3>7
  <2> QED  BY <2>2, <2>3
<1>3. Hydrated(page, new, count) = [k \in 1 .. count |-> e(k)]  BY DEF Hydrated
<1> HIDE DEF e
<1>4. Hydrated(page, new, count) \in Seq(Node) /\ Len(Hydrated(page, new, count)) = count
  BY <1>1, <1>2, <1>3
<1>5. \A k \in 1 .. count : Hydrated(page, new, count)[k] = e(k)  BY <1>3
<1> QED  BY <1>2, <1>4, <1>5

LEMMA HydrateDom == ASSUME DomInv, Hydrate PROVE DomInv'
<1>1. PICK next \in Frames : dom' = Hydrated(dom, next, Len(next)) /\ Applied(next)
  BY DEF Hydrate
<1>2. /\ TypeOK /\ renders < MaxRenders /\ renders' = renders + 1 /\ phase = "new"
      /\ renders \in 0 .. MaxRenders /\ dom \in Seq(Node)
      /\ skewed' = skewed /\ broken' = broken /\ skewed' \in BOOLEAN /\ broken' \in BOOLEAN
  BY DEF Hydrate, DomInv, TypeOK
<1>3. /\ next \in Seq(VNode) /\ Len(next) <= MaxChildren /\ Len(next) \in Nat
      /\ Len(next) \in 0 .. Len(next)
  BY <1>2, FramesAre
<1>4. /\ dom' \in Seq(Node) /\ Len(dom') = Len(next)
      /\ \A k \in 1 .. Len(next) : dom'[k].tag = next[k].tag
      /\ (\A k \in DOMAIN dom : dom[k].on = {}) =>
            \A k \in 1 .. Len(next) : dom'[k].on = next[k].on
  BY <1>1, <1>2, <1>3, HydratedIs
<1>5. TypeOK' /\ Unique(frame)' /\ frame' = next /\ phase' = "mounted"
  BY <1>1, <1>2, <1>3, <1>4, AppliedTypes
<1>6. FrameShown'
  <2> SUFFICES ASSUME Whole'
               PROVE  dom' = [i \in DOMAIN next |-> [tag |-> next[i].tag, on |-> next[i].on]]
    BY <1>5 DEF FrameShown
  <2>1. \A k \in DOMAIN dom : dom[k].on = {}  BY <1>2 DEF Whole, DomInv, Fresh
  <2>2. \A k \in 1 .. Len(next) : dom'[k].tag = next[k].tag /\ dom'[k].on = next[k].on
    BY <1>4, <2>1
  <2> QED  BY <1>3, <1>4, <2>2, ShownIs
<1> QED  BY <1>5, <1>6 DEF DomInv, Fresh

\* Nothing is left but nodes that do not listen.
LEMMA DetachDom ==
  ASSUME TypeOK, NEW page \in Seq(Node), broken \/ Len(page) <= MaxChildren, Detach(page),
         registry' \subseteq Handler, renders' \in 0 .. MaxRenders
  PROVE  DomInv'
<1>1. /\ phase' = "off" /\ retained' = {} /\ frame' = <<>>
      /\ dom' = [i \in DOMAIN page |-> [page[i] EXCEPT !.on = {}]]
      /\ skewed' = skewed /\ broken' = broken
  BY DEF Detach
<1> DEFINE e(k) == [page[k] EXCEPT !.on = {}]
<1>2. ASSUME NEW k \in 1 .. Len(page) PROVE e(k) \in Node
  <2>1. page[k] \in Node  OBVIOUS
  <2> QED  BY <2>1 DEF Node
<1>3. dom' = [k \in 1 .. Len(page) |-> e(k)] /\ Len(page) \in Nat  BY <1>1
<1> HIDE DEF e
<1>4. dom' \in Seq(Node) /\ Len(dom') = Len(page)  BY <1>2, <1>3
<1>5. frame' \in Seq(VNode) /\ Len(frame') <= MaxChildren /\ DOMAIN frame' = {}
  BY <1>1, BoundsAreNatural
<1>6. TypeOK'  BY <1>1, <1>4, <1>5 DEF TypeOK
<1>7. Unique(frame)'  BY <1>5 DEF Unique
<1> QED  BY <1>1, <1>6, <1>7 DEF DomInv, Fresh, FrameShown

LEMMA HydrateThrowsDom == ASSUME DomInv, HydrateThrows PROVE DomInv'
<1>1. PICK next \in Frames : \E count \in 0 .. Len(next) - 1 :
          /\ Detach(Hydrated(dom, next, count) \o SubSeq(dom, count + 1, Len(dom)))
          /\ registry' = ((registry \cup HandlersOf(next)) \ Introduced(HandlersOf(next)))
                         \ retained
  BY DEF HydrateThrows
<1>2. /\ TypeOK /\ renders < MaxRenders /\ renders' = renders + 1
      /\ renders \in 0 .. MaxRenders /\ dom \in Seq(Node) /\ registry \subseteq Handler
      /\ broken \/ Len(dom) <= MaxChildren
  BY DEF HydrateThrows, DomInv, TypeOK
<1>3. /\ next \in Seq(VNode) /\ Len(next) <= MaxChildren /\ Len(next) \in Nat
      /\ HandlersOf(next) \subseteq Handler
  BY <1>2, FramesAre
<1>4. PICK count \in 0 .. Len(next) - 1 :
          /\ Detach(Hydrated(dom, next, count) \o SubSeq(dom, count + 1, Len(dom)))
          /\ registry' = ((registry \cup HandlersOf(next)) \ Introduced(HandlersOf(next)))
                         \ retained
  BY <1>1
<1> DEFINE a == Hydrated(dom, next, count)
           b == SubSeq(dom, count + 1, Len(dom))
<1>5. a \in Seq(Node) /\ Len(a) = count
  <2>1. count \in 0 .. Len(next)  BY <1>3
  <2> QED  BY <1>2, <1>3, <2>1, HydratedIs
<1>6. /\ b \in Seq(Node)
      /\ Len(b) = IF count + 1 <= Len(dom) THEN Len(dom) - (count + 1) + 1 ELSE 0
  <2>1. count + 1 \in Int /\ Len(dom) \in Int /\ \A k \in count + 1 .. Len(dom) : dom[k] \in Node
    BY <1>2
  <2> QED  BY <1>2, <2>1, SubSeqProperties
<1> HIDE DEF a, b
<1>7. a \o b \in Seq(Node) /\ Len(a \o b) = Len(a) + Len(b)  BY <1>5, <1>6, ConcatProperties
<1>8. broken \/ Len(a \o b) <= MaxChildren
  <2>1. Len(dom) \in Nat  BY <1>2
  <2> QED  BY <1>2, <1>3, <1>5, <1>6, <1>7, <2>1, BoundsAreNatural
<1>9. registry' \subseteq Handler  BY <1>2, <1>3, <1>4
<1>10. renders' \in 0 .. MaxRenders  BY <1>2, BoundsAreNatural
<1> QED  BY <1>2, <1>4, <1>7, <1>8, <1>9, <1>10, DetachDom DEF a, b

LEMMA DisposeDom == ASSUME DomInv, Dispose PROVE DomInv'
<1>1. TypeOK /\ Detach(<<>>) /\ registry' = registry \ retained /\ renders' = renders
  BY DEF Dispose, DomInv
<1>2. registry' \subseteq Handler /\ renders' \in 0 .. MaxRenders  BY <1>1 DEF TypeOK
<1>3. <<>> \in Seq(Node) /\ Len(<<>>) <= MaxChildren  BY BoundsAreNatural
<1> QED  BY <1>1, <1>2, <1>3, DetachDom

LEMMA StepDom == DomInv /\ [Next]_vars => DomInv'
<1> SUFFICES ASSUME DomInv, [Next]_vars PROVE DomInv'  OBVIOUS
<1>1. CASE Render  BY <1>1, RenderDom
<1>2. CASE Hydrate  BY <1>2, HydrateDom
<1>3. CASE HydrateThrows  BY <1>3, HydrateThrowsDom
<1>4. CASE Dispose  BY <1>4, DisposeDom
<1>5. CASE UNCHANGED vars
  BY <1>5 DEF vars, DomInv, TypeOK, FrameShown, Whole, Unique, Fresh
<1> QED  BY <1>1, <1>2, <1>3, <1>4, <1>5 DEF Next

\* Every frame, page and set of handlers is of its kind, and a page that has never
\* thrown half-way is no longer than a frame may be (patchChildren, applyFrame).
THEOREM DomTypesHold == Spec => []TypeOK
BY InitDom, StepDom, PTL DEF Spec, DomInv

\* The page shows the frame, whatever was inserted, removed, moved or had its tag
\* changed, for frames of any length and any keys (patchChildren, patchNode).
THEOREM FrameAlwaysShown == Spec => []FrameShown
BY InitDom, StepDom, PTL DEF Spec, DomInv

\* A frame that takes the place of another one keeps its nodes.
LEMMA StepKeeps ==
  ASSUME DomInv, [Next]_vars, Whole, phase = "mounted", frame' # frame, phase' = "mounted",
         Keyed(frame), Keyed(frame'), AppendsOnly(frame, frame'), TagsKept(frame, frame')
  PROVE  KeepsNodes(frame, dom, frame')
<1>1. Render
  <2>1. ~ Dispose /\ ~ HydrateThrows  BY DEF Dispose, HydrateThrows, Detach
  <2> QED  BY <2>1 DEF Next, vars, Hydrate
<1>2. PICK next \in Frames : RenderFrame(next)
  <2>1. PICK next \in Frames : RenderFrame(next) \/ RenderThrows(next)  BY <1>1 DEF Render
  <2>2. ~ RenderThrows(next)  BY DEF RenderThrows, Refused
  <2> QED  BY <2>1, <2>2
<1> DEFINE s == PatchLoop(frame, dom, next)
<1>3. frame' = next /\ ~ s.thrown  BY <1>2 DEF RenderFrame, Applied
<1>4. next \in Seq(VNode) /\ Unique(next) /\ DOMAIN next = 1 .. Len(next)
  BY <1>1, FramesAre DEF Render, DomInv, TypeOK
<1>5. frame \in Seq(VNode) /\ dom \in Seq(Node) /\ Unique(frame)  BY DEF DomInv, TypeOK
<1>6. Keeps(frame, dom, next, Len(next), s)  BY <1>4, <1>5, LoopIs
<1> HIDE DEF s
<1>7. DOMAIN dom = DOMAIN frame
  <2>1. dom = [i \in DOMAIN frame |-> [tag |-> frame[i].tag, on |-> frame[i].on]]
    BY DEF DomInv, FrameShown
  <2> QED  BY <2>1
<1>8. Steady(frame, dom, next)
  BY <1>3, <1>4, <1>5, <1>7 DEF Steady, Unique, Keyed
<1> SUFFICES ASSUME NEW i \in DOMAIN frame, NEW j \in DOMAIN next, frame[i].key = next[j].key
             PROVE  s.nodes[j].id = i
  BY <1>3 DEF KeepsNodes, s
<1>9. next[j].key \in KeysOf(frame) /\ next[j].key # NoKey  BY <1>3 DEF KeysOf, Keyed
<1>10. s.nodes[j].id = Match(frame, next[j])  BY <1>3, <1>4, <1>6, <1>8, <1>9 DEF Keeps
<1>11. Match(frame, next[j]) \in DOMAIN frame /\ frame[Match(frame, next[j])].key = next[j].key
  <2>1. ~ \A k \in DOMAIN frame : next[j].key = NoKey \/ frame[k].key # next[j].key
    BY <1>9
  <2> QED  BY <1>5, <2>1, MatchIs, Zenon
<1> QED  BY <1>8, <1>10, <1>11 DEF Steady

\* Children that keep their key and their tag keep their node when others are removed,
\* when they change places, and when new ones come after them (patchChildren).
THEOREM IdentityAlwaysKept == Spec => IdentityKept
<1>1. DomInv /\ [Next]_vars
      => [Whole /\ phase = "mounted" /\ frame' # frame /\ phase' = "mounted"
          /\ Keyed(frame) /\ Keyed(frame') /\ AppendsOnly(frame, frame')
          /\ TagsKept(frame, frame')
             => KeepsNodes(frame, dom, frame')]_vars
  BY StepKeeps
<1> QED  BY InitDom, StepDom, <1>1, PTL DEF Spec, IdentityKept
=============================================================================
