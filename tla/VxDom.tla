-------------------------------- MODULE VxDom --------------------------------
(***************************************************************************)
(* The renderer of vx-dom (createVxDomRenderer): it brings the children of *)
(* a page's element in line with the frame a program returns, reusing the  *)
(* nodes that are there, and releases the event handlers that no frame     *)
(* needs any more.                                                         *)
(*                                                                         *)
(* A child of a frame has a key or none, a tag, and the handlers that      *)
(* listen on it; attributes, properties and styles follow their diff as    *)
(* listeners do and are left out.  The children of a child are patched by  *)
(* the same functions, so one level stands for all.  A handler is the      *)
(* number of the render that introduced it.                                *)
(***************************************************************************)
EXTENDS Naturals, Sequences, FiniteSets, SequencesExt

CONSTANTS
    Key,            \* keys of children
    NoKey,          \* a child without one
    Tag,            \* tags of elements
    Child,          \* the children a frame may have: [key, tag, listens]
    MaxChildren,    \* children of a frame, nodes a server has rendered
    MaxRenders      \* frames ever returned

ASSUME NoKeyIsNone == NoKey \notin Key
ASSUME BoundsAreNatural == MaxChildren \in Nat /\ MaxRenders \in Nat
ASSUME ChildrenAreDescribed ==
    Child \subseteq [key : Key \cup {NoKey}, tag : Tag, listens : BOOLEAN]

VARIABLES
    phase,      \* "new", "mounted", or "off" after detach
    frame,      \* currentFrame: the children of the last frame that was applied
    dom,        \* the nodes in the page
    retained,   \* retainedHandlers of the renderer
    registry,   \* the handlers the program holds for the page
    renders,    \* frames returned so far
    skewed,     \* history: a node was diffed against the description of another one
    broken      \* history: an update of the page has thrown half-way

vars == <<phase, frame, dom, retained, registry, renders, skewed, broken>>

Handler == 1 .. MaxRenders
VNode == [key : Key \cup {NoKey}, tag : Tag, on : SUBSET Handler]
Node  == [tag : Tag, on : SUBSET Handler]

TypeOK ==
    /\ phase \in {"new", "mounted", "off"}
    /\ frame \in Seq(VNode) /\ Len(frame) <= MaxChildren
    /\ dom \in Seq(Node)
    /\ broken \/ Len(dom) <= MaxChildren
    /\ retained \subseteq Handler /\ registry \subseteq Handler
    /\ renders \in 0 .. MaxRenders
    /\ skewed \in BOOLEAN /\ broken \in BOOLEAN

\* collectHandlerIds.
HandlersOf(nodes) == UNION {nodes[i].on : i \in DOMAIN nodes}
KeysOf(nodes) == {nodes[i].key : i \in DOMAIN nodes} \ {NoKey}

\* The frames of one render: the keys of siblings differ.
Layouts == {s \in BoundedSeq(Child, MaxChildren) :
                \A i, j \in DOMAIN s : i # j /\ s[i].key = s[j].key => s[i].key = NoKey}
FrameOf(layout, handler) ==
    [i \in DOMAIN layout |-> [key |-> layout[i].key, tag |-> layout[i].tag,
                              on |-> IF layout[i].listens THEN {handler} ELSE {}]]

\* What the server has rendered; nothing listens.
ServerPages == BoundedSeq({[tag |-> t, on |-> {}] : t \in Tag}, MaxChildren)

Init ==
    /\ phase = "new" /\ frame = <<>> /\ dom \in ServerPages
    /\ retained = {} /\ registry = {} /\ renders = 0
    /\ skewed = FALSE /\ broken = FALSE

-----------------------------------------------------------------------------
(* patchChildren.  While it runs a node has an id: its place in the page    *)
(* before, or a number of its own above those.                             *)

Identified(page) == [i \in DOMAIN page |->
                        [id |-> i, tag |-> page[i].tag, on |-> page[i].on]]
Anonymous(nodes) == [i \in DOMAIN nodes |-> [tag |-> nodes[i].tag, on |-> nodes[i].on]]
PlaceOf(nodes, id) == SelectInSeq(nodes, LAMBDA n : n.id = id)

\* createDom
Created(page, v, i) == [id |-> Len(page) + i, tag |-> v.tag, on |-> v.on]

\* Mutant: listeners the new description lacks stay.
PatchEventsAdded(on, old, new) == on \cup new
\* patchEvents: those of the old description alone go, those of the new one come.
PatchEvents(on, old, new) == (on \ (old \ new)) \cup new

\* sameNodeKind
SameKind(o, v) == o.tag = v.tag

\* The patched node takes its place among the children.
Placed(nodes, node, i) ==
    LET at == PlaceOf(nodes, node.id)
    IN  InsertAt(IF at = 0 THEN nodes ELSE RemoveAt(nodes, at), i, node)

\* patchNode, on node c which the frame described by o: it is patched, or replaced by
\* a new one, for which it has to be in the page.
PatchNode(page, s, c, o, v, i) ==
    LET at == PlaceOf(s.nodes, c.id)
    IN  IF SameKind(o, v)
          THEN LET node == [c EXCEPT !.on = PatchEvents(c.on, o.on, v.on)]
               IN  [s EXCEPT !.nodes = Placed(s.nodes, node, i), !.used = @ \cup {c.id}]
        ELSE IF at = 0
          THEN [s EXCEPT !.thrown = TRUE]
        ELSE LET node == Created(page, v, i)
             IN  [s EXCEPT !.nodes = Placed([s.nodes EXCEPT ![at] = node], node, i),
                           !.used = @ \cup {node.id}]

Free(s, id) == id \notin s.used

\* Mutant: children are matched by their place alone.
MatchNone(old, v) == 0
\* oldKeyed: the place the child with this key had.
Match(old, v) ==
    SelectInSeq(old, LAMBDA o : v.key # NoKey /\ o.key = v.key)

\* One turn of the loop over the new children.
PatchChild(old, page, v, i, s) ==
    LET j == IF Match(old, v) \in DOMAIN page THEN Match(old, v) ELSE 0
        here == IF i \in DOMAIN s.nodes THEN s.nodes[i].id ELSE 0
        id == IF j # 0 THEN j ELSE here
        \* A node that has left the page listens to nothing.
        c == IF PlaceOf(s.nodes, id) # 0 THEN s.nodes[PlaceOf(s.nodes, id)]
             ELSE [id |-> id, tag |-> page[id].tag, on |-> {}]
        o == old[IF j # 0 THEN j ELSE i]
        known == id # 0 /\ (j # 0 \/ i \in DOMAIN old)
    IN  IF s.thrown THEN s
        ELSE IF ~ known \/ ~ Free(s, id)
          THEN [s EXCEPT !.nodes = InsertAt(s.nodes, i, Created(page, v, i)),
                         !.used = @ \cup {Len(page) + i}]
        ELSE PatchNode(page, [s EXCEPT !.skew = @ \/ (j = 0 /\ id # i)], c, o, v, i)

Start(page) == [nodes |-> Identified(page), used |-> {}, thrown |-> FALSE, skew |-> FALSE]

\* The children after each turn.
Turns(old, page, new) ==
    LET turn[i \in 0 .. Len(new)] ==
            IF i = 0 THEN Start(page) ELSE PatchChild(old, page, new[i], i, turn[i - 1])
    IN  turn
PatchLoop(old, page, new) == Turns(old, page, new)[Len(new)]

\* Mutant: nodes nobody has used stay.
SweptNot(s) == s.nodes
\* What no child has used is removed.
Sweep(nodes, used) ==
    LET kept[i \in 0 .. Len(nodes)] ==
            IF i = 0 THEN <<>>
            ELSE IF nodes[i].id \in used THEN Append(kept[i - 1], nodes[i])
            ELSE kept[i - 1]
    IN  kept
Swept(s) == Sweep(s.nodes, s.used)[Len(s.nodes)]

-----------------------------------------------------------------------------
(* applyFrame.                                                             *)

Whole == ~ skewed /\ ~ broken

\* releaseRemovedHandlers
Released(next) == retained \ next

\* Mutant: handlers of a frame that was refused are kept.
IntroducedNone(next) == {}
\* The handlers only the new frame has, released when it is refused.
Introduced(next) == next \ retained

Applied(next) ==
    /\ registry' = (registry \cup HandlersOf(next)) \ Released(HandlersOf(next))
    /\ retained' = HandlersOf(next)
    /\ frame' = next
    /\ phase' = "mounted"

Refused(next) ==
    /\ registry' = (registry \cup HandlersOf(next)) \ Introduced(HandlersOf(next))
    /\ broken' = TRUE
    /\ UNCHANGED <<retained, frame>>

\* render(): the page may refuse a child the loop comes to, after count others, and a
\* node that is no longer a child cannot be replaced.
RenderFrame(next) ==
    LET s == PatchLoop(frame, dom, next)
    IN  /\ ~ s.thrown
        /\ dom' = Anonymous(Swept(s))
        /\ skewed' = (skewed \/ s.skew)
        /\ Applied(next)
        /\ UNCHANGED broken

RenderThrows(next) ==
    \E count \in 0 .. Len(next) :
        LET s == PatchLoop(frame, dom, SubSeq(next, 1, count))
        IN  /\ count < Len(next) \/ s.thrown
            /\ dom' = Anonymous(s.nodes)
            /\ Refused(next)
            /\ UNCHANGED <<phase, skewed>>

Frames == {FrameOf(layout, renders + 1) : layout \in Layouts}

Render ==
    /\ phase # "off" /\ renders < MaxRenders
    /\ renders' = renders + 1
    /\ \E next \in Frames : RenderFrame(next) \/ RenderThrows(next)

\* hydrateContainer: nodes of the right tag are adopted, others replaced.
HydrateNode(node, v) == [tag |-> v.tag,
                         on |-> IF node.tag = v.tag THEN PatchEvents(node.on, {}, v.on) ELSE v.on]
Hydrated(page, new, count) ==
    [i \in 1 .. count |-> IF i \in DOMAIN page THEN HydrateNode(page[i], new[i])
                          ELSE [tag |-> new[i].tag, on |-> new[i].on]]

Hydrate ==
    /\ phase = "new" /\ renders < MaxRenders
    /\ renders' = renders + 1
    /\ \E next \in Frames :
          /\ dom' = Hydrated(dom, next, Len(next))
          /\ Applied(next)
    /\ UNCHANGED <<skewed, broken>>

\* detach: nothing listens any more, nothing is retained.
Detach(page) ==
    /\ phase' = "off"
    /\ dom' = [i \in DOMAIN page |-> [page[i] EXCEPT !.on = {}]]
    /\ retained' = {}
    /\ frame' = <<>>
    /\ UNCHANGED <<skewed, broken>>

\* hydrate() lets everything go when the page refuses the child after count others.
HydrateThrows ==
    /\ phase = "new" /\ renders < MaxRenders
    /\ renders' = renders + 1
    /\ \E next \in Frames : \E count \in 0 .. Len(next) - 1 :
          /\ Detach(Hydrated(dom, next, count)
                    \o SubSeq(dom, count + 1, Len(dom)))
          /\ registry' = ((registry \cup HandlersOf(next)) \ Introduced(HandlersOf(next)))
                         \ retained

\* dispose() empties the page as well.
Dispose ==
    /\ phase # "off"
    /\ Detach(<<>>)
    /\ registry' = registry \ retained
    /\ UNCHANGED renders

Next == Render \/ Hydrate \/ HydrateThrows \/ Dispose

Spec == Init /\ [][Next]_vars

-----------------------------------------------------------------------------
(* Properties.                                                             *)

\* The page shows the frame: as many nodes, in its order, each of its tag and
\* listening to its handlers and no others, whatever was inserted, removed, moved or
\* had its tag changed, unless a node has been diffed against the description of
\* another (browser.ts:881-908).
FrameShown ==
    phase = "mounted" /\ Whole =>
        dom = [i \in DOMAIN frame |-> [tag |-> frame[i].tag, on |-> frame[i].on]]

\* The program holds the handlers of the frame and no others, whichever frames the
\* page has refused on the way (browser.ts:322-345).
HandlersAccounted == registry = HandlersOf(frame)

\* Children that keep their key and their tag keep their node when others are removed,
\* when they change places, and when new ones come after them (browser.ts:873-903).
Keyed(nodes) == \A i \in DOMAIN nodes : nodes[i].key # NoKey
AppendsOnly(old, new) ==
    \A i, j \in DOMAIN new :
        new[i].key \notin KeysOf(old) /\ new[j].key \in KeysOf(old) => j < i
TagsKept(old, new) ==
    \A i \in DOMAIN old, j \in DOMAIN new : old[i].key = new[j].key => old[i].tag = new[j].tag
KeepsNodes(old, page, new) ==
    LET nodes == PatchLoop(old, page, new).nodes
    IN  \A i \in DOMAIN old, j \in DOMAIN new : old[i].key = new[j].key => nodes[j].id = i
IdentityKept ==
    [][Whole /\ phase = "mounted" /\ frame' # frame /\ phase' = "mounted"
       /\ Keyed(frame) /\ Keyed(frame') /\ AppendsOnly(frame, frame') /\ TagsKept(frame, frame')
          => KeepsNodes(frame, dom, frame')]_vars

-----------------------------------------------------------------------------
(* What the documentation says and the code does not keep.                 *)

\* "Keys preserve DOM and component identity when items are inserted, removed, or
\* reordered": a child that keeps its key and its tag keeps its node.
KeysKeepIdentity ==
    [][Whole /\ phase = "mounted" /\ frame' # frame /\ phase' = "mounted"
       /\ Keyed(frame) /\ Keyed(frame') /\ TagsKept(frame, frame')
          => KeepsNodes(frame, dom, frame')]_vars
=============================================================================
