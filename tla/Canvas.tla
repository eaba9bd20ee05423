------------------------------- MODULE Canvas -------------------------------
(***************************************************************************)
(* The canvas controller of the topology modeler (CanvasComponent in       *)
(* canvas/canvas.component.ts) together with the slice of the Redux store  *)
(* it subscribes to.                                                       *)
(*                                                                         *)
(* The store holds the node templates of the topology; the canvas keeps    *)
(* its own copy `allNodeTemplates` (here `local`) and reconciles it in     *)
(* updateNodes, which the store subscription calls synchronously inside    *)
(* every dispatch.  A store change and the canvas reaction to it are       *)
(* therefore one step.  After every handler Angular renders one            *)
(* NodeComponent per entry of `local` (`comps`); a freshly created         *)
(* component emits its id to activateNewNode during that render.           *)
(*                                                                         *)
(* Node templates are objects numbered 1..MaxObj; idOf gives their id.     *)
(* The undefined value JavaScript produces for a missing node is 0.        *)
(* Coordinates, names and properties are abstracted away: updating them    *)
(* never changes which objects a list holds.                               *)
(***************************************************************************)
EXTENDS Naturals, Sequences, SequencesExt, CanvasAlgorithms

CONSTANTS
    NodeIds,          \* ids node templates can carry
    InitialIds,       \* the ids of the topology loaded at start, in order
    MitigationIds,    \* ids `localName + '_' + random digit` of one mitigation
    MaxObj,           \* bound: node template objects ever created
    RandomSuffixCollides, \* may the random digit hit an id already in use?
    CapNodes,         \* ids of node templates whose type has capabilities
    MaxRels,          \* bound: relationship templates in the store
    InitialRels,      \* the relationship templates of the topology loaded at start
    YamlMode          \* configuration.isYaml()

ASSUME /\ InitialIds \in Seq(NodeIds)
       /\ MitigationIds \subseteq NodeIds
       /\ MaxObj \in Nat /\ MaxObj >= Len(InitialIds)
       /\ RandomSuffixCollides \in BOOLEAN
       /\ CapNodes \subseteq NodeIds
       /\ MaxRels \in Nat
       /\ YamlMode \in BOOLEAN
       /\ \A k \in DOMAIN InitialRels :
             /\ {InitialRels[k].src, InitialRels[k].tgt} \subseteq ToSet(InitialIds)
             /\ InitialRels[k].tk = "cap" => InitialRels[k].tgt \in CapNodes

NoId == "none"
Obj == 1..MaxObj
Undefined == 0

VARIABLES
    store,          \* state.wineryState.currentJsonTopology.nodeTemplates
    idOf,           \* idOf[o]: the id of node template object o
    nextObj,        \* objects 1..nextObj exist
    palette,        \* currentPaletteOpenedState (= paletteOpened)
    local,          \* allNodeTemplates
    comps,          \* nodeComponentChildren: [o, vis = makeSelectionVisible]
    pending,        \* components created whose activateNewNode is due
    selected,       \* selectedNodes
    newNode,        \* newNode (0 while unset)
    indexOfNewNode, \* indexOfNewNode, 1-based (0 while unset)
    mouse,          \* listeners in unbindMouseActions still attached
    longPress,      \* longPress: "undefined", "short" or "long"
    started,        \* startTime has been set by a mouse down
    dragSourceActive,      \* dragSourceActive
    dragSourceInfos,       \* dragSourceInfos: [node, kind] or NoSource
    jsPlumbBindConnection, \* jsPlumbBindConnection
    connListeners,  \* jsPlumb 'connection' listeners bound, in bind order
    jsSources,      \* elements jsPlumb has made connection sources
    jsTargets,      \* kinds of element jsPlumb has made targets
    relationships,  \* state.wineryState.currentJsonTopology.relationshipTemplates
    relTypeSelected, \* selectedRelationshipType is a known relationship type
    painted,        \* relationships jsPlumb draws as a connection (getAllConnections)
    paintTimers,    \* relationships whose setTimeout(paintRelationship) is due
    marked          \* drawn connections of type 'marked'

vars == <<store, idOf, nextObj, palette, local, comps, pending, selected,
          newNode, indexOfNewNode, mouse, longPress, started,
          dragSourceActive, dragSourceInfos, jsPlumbBindConnection,
          connListeners, jsSources, jsTargets, relationships, relTypeSelected,
          painted, paintTimers, marked>>

\* the part of the state the drag-source handlers and the relationship slice hold
connVars == <<dragSourceActive, dragSourceInfos, jsPlumbBindConnection,
              connListeners, jsSources, jsTargets, relationships,
              painted, paintTimers, marked>>

MouseHandlers == {"openSelector", "selectElements", "moveNewNode", "positionNewNode"}

IdsOf(s) == {idOf[s[i]] : i \in DOMAIN s}

(***************************************************************************)
(* The handlers work on a view record and are composed as the code calls   *)
(* them; Commit writes a view back and renders the components.             *)
(***************************************************************************)
View == [local |-> local, sel |-> selected, comps |-> comps,
         newNode |-> newNode, idx |-> indexOfNewNode,
         dsActive |-> dragSourceActive, dsInfo |-> dragSourceInfos,
         bound |-> jsPlumbBindConnection, ls |-> connListeners,
         sources |-> jsSources, targets |-> jsTargets, rels |-> relationships,
         painted |-> painted, timers |-> paintTimers, marked |-> marked]

\* a DragSource: the connector endpoint of a node, or a requirement of it
NoSource == [node |-> NoId, kind |-> "none"]
Endpoint(n) == <<"endpoint", n>>
NodeElement(n) == <<"node", n>>
\* targetNodes: the other nodes for an endpoint, capabilities for a requirement
TargetKind(info) == IF info.kind = "endpoint" THEN "node" ELSE "cap"

SelIds(sel, id) == {id[sel[i]] : i \in {j \in DOMAIN sel : sel[j] # Undefined}}

SetVis(cs, ids, b, id) ==
    [i \in DOMAIN cs |-> IF id[cs[i].o] \in ids THEN [cs[i] EXCEPT !.vis = b] ELSE cs[i]]

\* unbindDragSource: a requirement is never a jsPlumb source, so only an
\* endpoint is unmade
UnbindDragSource(v) ==
    IF v.dsInfo = NoSource
    THEN v
    ELSE [v EXCEPT !.sources = v.sources \ {Endpoint(v.dsInfo.node)},
                   !.dsActive = FALSE]

\* unbindConnection: unbind('connection') drops every connection listener,
\* but only when jsPlumbBindConnection says one is bound
UnbindConnection(v) ==
    IF v.bound
    THEN UnbindDragSource([v EXCEPT !.bound = FALSE, !.ls = <<>>])
    ELSE v

\* variant: resetDragSource forgets `this.dragSourceActive = false`
ResetDragSourceKeepActive(v, nid, id) ==
    IF v.dsInfo = NoSource
    THEN v
    ELSE LET n == v.dsInfo.node
             v1 == [v EXCEPT !.targets = v.targets \ {TargetKind(v.dsInfo)}]
             unmade == {NodeElement(n)} \cup
                       (IF v.dsInfo.kind = "endpoint" THEN {Endpoint(n)} ELSE {})
             c == SelectInSeq(v1.comps, LAMBDA r : id[r.o] = n)
         IN  IF n = nid
             THEN v1
             ELSE [v1 EXCEPT !.sources = v1.sources \ unmade,
                             !.comps = IF c = 0 THEN v1.comps
                                       ELSE [v1.comps EXCEPT ![c].ep = FALSE],
                             !.dsInfo = NoSource]

\* resetDragSource(nodeId); callers that pass '' or another non-node string
\* pass NoId
ResetDragSource(v, nid, id) ==
    IF v.dsInfo = NoSource
    THEN v
    ELSE LET n == v.dsInfo.node
             v1 == [v EXCEPT !.targets = v.targets \ {TargetKind(v.dsInfo)}]
             unmade == {NodeElement(n)} \cup
                       (IF v.dsInfo.kind = "endpoint" THEN {Endpoint(n)} ELSE {})
             c == SelectInSeq(v1.comps, LAMBDA r : id[r.o] = n)
         IN  IF n = nid
             THEN v1
             ELSE [v1 EXCEPT !.sources = v1.sources \ unmade,
                             !.comps = IF c = 0 THEN v1.comps
                                       ELSE [v1.comps EXCEPT ![c].ep = FALSE],
                             !.dsActive = FALSE,
                             !.dsInfo = NoSource]

\* removeDragSource: nodeComponentChildren.some(...) hides endpoints up to
\* and including the first node whose endpoint is a source, and unmakes it
RemoveDragSource(v, id) ==
    LET k == SelectInSeq(v.comps, LAMBDA r : Endpoint(id[r.o]) \in v.sources)
        last == IF k = 0 THEN Len(v.comps) ELSE k
    IN  [v EXCEPT !.comps = [i \in DOMAIN v.comps |->
                                IF i <= last THEN [v.comps[i] EXCEPT !.ep = FALSE]
                                ELSE v.comps[i]],
                  !.sources = IF k = 0 THEN v.sources
                              ELSE v.sources \ {Endpoint(id[v.comps[k].o])}]

\* a listener already bound once acts like a second copy of itself
ListenOnce(ls, l) == IF l \in ToSet(ls) THEN ls ELSE Append(ls, l)

\* bindConnection
BindConnection(v) ==
    IF v.bound THEN v ELSE [v EXCEPT !.bound = TRUE, !.ls = ListenOnce(v.ls, "plain")]

\* bindReqCapConnection: binds without setting jsPlumbBindConnection (the
\* selectedRelationshipType object is always truthy)
BindReqCapConnection(v) ==
    IF v.bound THEN v ELSE [v EXCEPT !.ls = ListenOnce(v.ls, "reqcap")]

\* variant: manageRelationships without the paint timer
ManageRelationshipsNoPaint(v, r, id) == ResetDragSource(v, NoId, id)

\* manageRelationships: sets a timer that paints the relationship and calls
\* resetDragSource('')
ManageRelationships(v, r, id) ==
    ResetDragSource([v EXCEPT !.timers = v.timers \cup {r}], NoId, id)

\* saveRelationship; the relationship subscription runs inside the dispatch:
\* updateRelationships manages the new relationship, through
\* handleNewRelationship or, from an empty list, the forEach
SaveRelationship(v, r, id) ==
    ManageRelationships([v EXCEPT !.rels = Append(v.rels, r)], r, id)

\* generateNewRelationship: saves unless source and target are one element
GenerateNewRelationship(v, r, id) ==
    IF r.tk = "node" /\ r.src = r.tgt THEN v ELSE SaveRelationship(v, r, id)

\* enhanceDragSelection
EnhanceDragSelection(v, nid, id) ==
    IF ArrayContainsNode(v.sel, nid, id)
    THEN v
    ELSE LET sel2 == Append(v.sel, GetNodeByID(v.local, nid, id))
         IN  [v EXCEPT !.sel = sel2, !.comps = SetVis(v.comps, SelIds(sel2, id), TRUE, id)]

\* clearSelectedNodes
ClearSelectedNodes(v, id) ==
    IF Len(v.sel) = 0
    THEN v
    ELSE [v EXCEPT !.comps = SetVis(v.comps, SelIds(v.sel, id), FALSE, id), !.sel = <<>>]

\* unmarkConnections, and select().removeType('marked') in the handlers
UnmarkConnections(v) == [v EXCEPT !.marked = {}]

\* variant: a click marks the connection without unmarking the others
OnClickJsPlumbConnectionKeepMarks(v, r, blocked, id) ==
    LET v1 == ClearSelectedNodes(v, id)
    IN  IF r \in ToSet(v1.rels) /\ ~blocked THEN [v1 EXCEPT !.marked = @ \cup {r}] ELSE v1

\* onClickJsPlumbConnection(conn): clears the selection and every mark; if
\* the connection is a relationship of allRelationshipTemplates it opens the
\* sidebar and marks the connection, unless live modeling is disabled and
\* both its nodes are working (`blocked`), which returns early
OnClickJsPlumbConnection(v, r, blocked, id) ==
    LET v1 == UnmarkConnections(ClearSelectedNodes(v, id))
    IN  IF r \in ToSet(v1.rels) /\ ~blocked THEN [v1 EXCEPT !.marked = @ \cup {r}] ELSE v1

\* handleNodePressActions: the forEach hides every other unselected node and
\* calls resetDragSource(nodeId) for it, then unbindConnection
HandleNodePressActions(v, nid, id) ==
    LET others == \E i \in DOMAIN v.comps : id[v.comps[i].o] # nid
                                          /\ ~ArrayContainsNode(v.sel, id[v.comps[i].o], id)
        mark(c) == IF id[c.o] = nid THEN [c EXCEPT !.vis = TRUE]
                   ELSE IF ArrayContainsNode(v.sel, id[c.o], id) THEN c
                   ELSE [c EXCEPT !.vis = FALSE]
        v0 == [v EXCEPT !.comps = [i \in DOMAIN v.comps |-> mark(v.comps[i])]]
        v1 == UnbindConnection(IF others THEN ResetDragSource(v0, nid, id) ELSE v0)
        v2 == IF Len(v1.sel) = 1 /\ \E i \in DOMAIN v1.sel : id[v1.sel[i]] # nid
              THEN ClearSelectedNodes(v1, id) ELSE v1
        v3 == IF Len(v2.sel) = 0 THEN EnhanceDragSelection(v2, nid, id) ELSE v2
    IN  IF ArrayContainsNode(v3.sel, nid, id) THEN v3 ELSE ClearSelectedNodes(v3, id)

\* handleCtrlKeyNodePress; a node not yet selected is added, every open
\* connector endpoint is closed with resetDragSource('reset previous drag
\* source'); a selected node is removed from the selection
HandleCtrlKeyNodePress(v, nid, id) ==
    LET v0 == UnbindConnection(v)
    IN  IF ~ArrayContainsNode(v0.sel, nid, id)
        THEN LET v1 == EnhanceDragSelection(v0, nid, id)
                 keep(c) == IF ArrayContainsNode(v1.sel, id[c.o], id) THEN c ELSE [c EXCEPT !.vis = FALSE]
                 v2 == [v1 EXCEPT !.comps = [i \in DOMAIN v1.comps |-> [keep(v1.comps[i]) EXCEPT !.ep = FALSE]]]
             IN  IF \E i \in DOMAIN v1.comps : v1.comps[i].ep
                 THEN ResetDragSource(v2, NoId, id)
                 ELSE v2
        ELSE LET c == SelectInSeq(v0.comps, LAMBDA r : id[r.o] = nid)
                 s == SelectInSeq(v0.sel, LAMBDA o : id[o] = nid)
             IN  [v0 EXCEPT !.comps = [v0.comps EXCEPT ![c].vis = FALSE],
                            !.sel = RemoveAt(v0.sel, s)]

\* handleNewNode: unbindConnection, clearSelectedNodes, resetDragSource for
\* the previous new node, then the last store node becomes newNode
HandleNewNode(v, st, id) ==
    LET v0 == ClearSelectedNodes(UnbindConnection(v), id)
        v1 == IF v0.newNode # 0 THEN ResetDragSource(v0, id[v0.newNode], id) ELSE v0
        nn == st[Len(st)]
        l2 == Append(v1.local, nn)
    IN  [v1 EXCEPT !.newNode = nn, !.local = l2,
                   !.idx = SelectInSeq(l2, LAMBDA o : id[o] = id[nn])]

\* updateNodes: chooses a handler from the length difference alone
UpdateNodes(v, st, pal, id) ==
    LET difference == Len(st) - Len(v.local)
    IN  CASE difference = 1 /\ pal  -> HandleNewNode(v, st, id)
          [] difference < 0         -> [v EXCEPT !.local = HandleDeletedNodes(v.local, {id[st[i]] : i \in DOMAIN st}, id)]
          [] difference = 1 /\ ~pal -> [v EXCEPT !.local = Append(v.local, st[Len(st)])]
          [] difference > 1         -> [v EXCEPT !.local = st]
          [] difference = 0         -> v   \* updateNodeAttributes copies attributes only

\* Angular re-renders one component per entry, keeping the component of an object
Render(v) ==
    LET old(o) == {j \in DOMAIN v.comps : v.comps[j].o = o}
    IN  [v EXCEPT !.comps = [i \in DOMAIN v.local |->
                                IF old(v.local[i]) # {}
                                THEN v.comps[CHOOSE j \in old(v.local[i]) : TRUE]
                                ELSE [o |-> v.local[i], vis |-> FALSE, ep |-> FALSE]]]

CommitFrom(v, due) ==
    LET r == Render(v)
    IN  /\ local' = r.local
        /\ selected' = r.sel
        /\ comps' = r.comps
        /\ newNode' = r.newNode
        /\ indexOfNewNode' = r.idx
        /\ pending' = due \cup (ToSet(r.local) \ {comps[j].o : j \in DOMAIN comps})
        /\ dragSourceActive' = r.dsActive
        /\ dragSourceInfos' = r.dsInfo
        /\ jsPlumbBindConnection' = r.bound
        /\ connListeners' = r.ls
        /\ jsSources' = r.sources
        /\ jsTargets' = r.targets
        /\ relationships' = r.rels
        /\ painted' = r.painted
        /\ paintTimers' = r.timers
        /\ marked' = r.marked

Commit(v) == CommitFrom(v, pending)

\* renderer.listen on top of the listeners still attached; a second copy of
\* an attached listener acts like the first, so only first copies are kept
Listen(hs) == mouse \o SelectSeq(hs, LAMBDA h : h \notin ToSet(mouse))

\* a user event is handled only once the render of the previous one is over
\* and the 1 ms paint timers it set have run
Idle == pending = {} /\ paintTimers = {}

(***************************************************************************)
(* The jsPlumb 'connection' event.  e.src is the source element (an       *)
(* endpoint or a node), e.tk the kind of target and e.t its node.  A       *)
(* listener works on [v, gone]; gone is set once unbind('connection') ran, *)
(* after which jsPlumb calls no further listener.  A listener that throws  *)
(* keeps what it did before the throw, and jsPlumb's fire catches the      *)
(* error and calls the next listener.                                      *)
(***************************************************************************)

\* variant: the listener saves without checking that sourceElement is a node
PlainListenerNoSourceCheck(st, e, relOk, id) ==
    LET sourceElement == IF e.src[1] = "endpoint" THEN e.src[2] ELSE NoId
        v1 == IF relOk
              THEN GenerateNewRelationship(st.v, [src |-> sourceElement, tgt |-> e.t, tk |-> e.tk], id)
              ELSE st.v
    IN  [v |-> UnbindConnection(v1), gone |-> v1.bound]

\* the listener of bindConnection; the source id of an endpoint ends in
\* '_Endpoint', and substring(0, lastIndexOf('_Endpoint')) of a node id is ''
PlainListener(st, e, relOk, id) ==
    LET sourceElement == IF e.src[1] = "endpoint" THEN e.src[2] ELSE NoId
        valid == sourceElement # NoId /\ relOk /\ sourceElement \in {id[st.v.local[i]] : i \in DOMAIN st.v.local}
        v1 == IF valid
              THEN GenerateNewRelationship(st.v, [src |-> sourceElement, tgt |-> e.t, tk |-> e.tk], id)
              ELSE st.v
    IN  [v |-> UnbindConnection(v1), gone |-> v1.bound]

\* the connections at node t that the listener's for-of over
\* getConnections() deletes: those whose targetId is t (paintRelationship
\* draws a connection to the node of its capability, so a capability
\* element is the target of no drawn connection)
UnDrawAt(v, t) ==
    [v EXCEPT !.painted = {r \in @ : r.tgt # t}, !.marked = {r \in @ : r.tgt # t}]

\* the listener of bindReqCapConnection; it sets jsPlumbBindConnection
\* itself.  A node target has no '.', so getCapability returns null and no
\* capability definition is found: outside YAML mode
\* searchTypeAndCheckForCompatibility throws at capability.type; in YAML
\* mode checkReqCapCompatibility throws at capDefinition.capabilityType when
\* its node-type test passes (the choice `compatible`) and returns false
\* otherwise.  For a capability target checkReqCapCompatibility is the
\* choice `compatible` and a compatible drop is saved.  A rejected node drop
\* deletes every connection drawn to the drop target (UnDrawAt).
ReqCapListener(st, e, relOk, compatible, id) ==
    LET v1 == [st.v EXCEPT !.bound = TRUE]
        valid == e.src[1] = "node" /\ relOk /\ e.src[2] \in {id[v1.local[i]] : i \in DOMAIN v1.local}
        throws == e.tk = "node" /\ (compatible \/ ~YamlMode)
        v2 == IF compatible /\ e.tk = "cap"
              THEN SaveRelationship(v1, [src |-> e.src[2], tgt |-> e.t, tk |-> "cap"], id)
              ELSE v1
        v3 == IF e.tk = "node" THEN UnDrawAt(v2, e.t) ELSE v2
    IN  CASE st.v.dsInfo = NoSource -> [v |-> v1, gone |-> FALSE]
          [] valid /\ throws         -> [v |-> v1, gone |-> FALSE]
          [] valid                  -> [v |-> UnbindConnection(ResetDragSource([v3 EXCEPT !.dsActive = FALSE], NoId, id)),
                                        gone |-> TRUE]
          [] OTHER                  -> [v |-> UnbindConnection(v1), gone |-> TRUE]

\* jsPlumb's EventGenerator.fire: the listeners in bind order until one
\* unbinds the event
RECURSIVE FireConnection(_, _, _, _, _, _)
FireConnection(st, ls, e, relOk, compatible, id) ==
    IF ls = <<>> \/ st.gone
    THEN st
    ELSE FireConnection(IF Head(ls) = "plain" THEN PlainListener(st, e, relOk, id)
                        ELSE ReqCapListener(st, e, relOk, compatible, id),
                        Tail(ls), e, relOk, compatible, id)

-----------------------------------------------------------------------------
(***************************************************************************)
(* Initial state: the topology is loaded and the constructor's store       *)
(* subscription has run updateNodes once with the palette closed.          *)
(***************************************************************************)
Init ==
    LET n == Len(InitialIds)
        ids0 == [o \in Obj |-> IF o <= n THEN InitialIds[o] ELSE NoId]
        st0 == [i \in 1..n |-> i]
        v0 == UpdateNodes([local |-> <<>>, sel |-> <<>>, comps |-> <<>>,
                           newNode |-> 0, idx |-> 0,
                           dsActive |-> FALSE, dsInfo |-> NoSource, bound |-> FALSE,
                           ls |-> <<>>, sources |-> {}, targets |-> {}, rels |-> <<>>,
                           painted |-> {}, timers |-> {}, marked |-> {}],
                          st0, FALSE, ids0)
        \* the relationship subscription then runs updateRelationships on the
        \* loaded list: from an empty local copy it assigns the list and
        \* manages every relationship
        v1 == FoldLeft(LAMBDA v, r : ManageRelationships(v, r, ids0),
                       [v0 EXCEPT !.rels = InitialRels], InitialRels)
    IN  /\ store = st0
        /\ idOf = ids0
        /\ nextObj = n
        /\ palette = FALSE
        /\ local = v0.local
        /\ comps = [i \in DOMAIN v0.local |-> [o |-> v0.local[i], vis |-> FALSE, ep |-> FALSE]]
        /\ pending = ToSet(v0.local)
        /\ selected = <<>>
        /\ newNode = 0
        /\ indexOfNewNode = 0
        /\ mouse = <<>>
        /\ longPress = "undefined"
        /\ started = FALSE
        /\ dragSourceActive = FALSE
        /\ dragSourceInfos = NoSource
        /\ jsPlumbBindConnection = FALSE
        /\ connListeners = <<>>
        /\ jsSources = {}
        /\ jsTargets = {}
        /\ relationships = v1.rels
        /\ painted = {}
        /\ paintTimers = v1.timers
        /\ marked = {}
        /\ relTypeSelected = FALSE

\* saveNodeTemplate of a fresh object with id nid: the store appends it and
\* the subscription runs updateNodes
AddNodeToStore(nid) ==
    LET o == nextObj + 1
        id2 == [idOf EXCEPT ![o] = nid]
        st2 == Append(store, o)
    IN  /\ nextObj < MaxObj
        /\ idOf' = id2
        /\ nextObj' = o
        /\ store' = st2
        /\ Commit(UpdateNodes(View, st2, palette, id2))

\* The palette drops a node type on the canvas (the palette component picks
\* an id not yet used)
PaletteDrop ==
    /\ Idle
    /\ palette
    /\ \E nid \in NodeIds \ IdsOf(store) : AddNodeToStore(nid)
    /\ UNCHANGED <<palette, mouse, longPress, started, relTypeSelected>>

\* addMitigationToTopology: closes the threat modal and saves a node whose id
\* ends in Math.floor(Math.random() * 10)
AddMitigationToTopology ==
    /\ Idle
    /\ \E nid \in MitigationIds :
          /\ RandomSuffixCollides \/ nid \notin IdsOf(store)
          /\ AddNodeToStore(nid)
    /\ UNCHANGED <<palette, mouse, longPress, started, relTypeSelected>>

\* setPaletteState, on a change of currentPaletteOpenedState made by the palette
SetPaletteState ==
    /\ Idle
    /\ palette' = ~palette
    /\ UNCHANGED <<store, idOf, nextObj, local, comps, pending, selected,
                   newNode, indexOfNewNode, mouse, longPress, started>>
    /\ UNCHANGED <<connVars, relTypeSelected>>

\* activateNewNode, emitted by a NodeComponent when it is created; with the
\* palette open it runs bindNewNode for the last palette node
ActivateNewNode ==
    \E o \in pending :
       IF palette /\ newNode # 0
       THEN /\ CommitFrom(HandleNodePressActions(View, idOf[newNode], idOf), pending \ {o})
            /\ mouse' = Listen(<<"moveNewNode", "positionNewNode">>)
            /\ UNCHANGED <<store, idOf, nextObj, palette, longPress, started, relTypeSelected>>
       ELSE /\ pending' = pending \ {o}
            /\ UNCHANGED <<store, idOf, nextObj, palette, local, comps, selected,
                           newNode, indexOfNewNode, mouse, longPress, started>>
            /\ UNCHANGED <<connVars, relTypeSelected>>

\* handleNodeClickedActions on a click on a node component
NodeClicked ==
    /\ Idle
    /\ \E c \in DOMAIN comps, ctrlKey \in BOOLEAN :
          LET nid == idOf[comps[c].o]
          IN  Commit(IF ctrlKey THEN HandleCtrlKeyNodePress(View, nid, idOf)
                                ELSE HandleNodePressActions(View, nid, idOf))
    /\ UNCHANGED <<store, idOf, nextObj, palette, mouse, longPress, started, relTypeSelected>>

\* the 'mod+a' hotkey: enhanceDragSelection for every node template
SelectAll ==
    /\ Idle
    /\ Commit(FoldLeft(LAMBDA v, o : EnhanceDragSelection(v, idOf[o], idOf), View, local))
    /\ UNCHANGED <<store, idOf, nextObj, palette, mouse, longPress, started, relTypeSelected>>

\* toggleMarkNode, on a change of currentNodeData made by a node or the sidebar
ToggleMarkNode ==
    /\ Idle
    /\ \E c \in DOMAIN comps, focus \in BOOLEAN :
          comps' = SetVis(comps, {idOf[comps[c].o]}, focus, idOf)
    /\ UNCHANGED <<store, idOf, nextObj, palette, local, pending, selected,
                   newNode, indexOfNewNode, mouse, longPress, started>>
    /\ UNCHANGED <<connVars, relTypeSelected>>

\* variant: updateNodes is handed the store as it was before the dispatch
DeleteNodeTemplateStale(acc, nid, id) ==
    LET st2 == SelectSeq(acc.st, LAMBDA o : id[o] # nid)
    IN  [acc EXCEPT !.st = st2, !.v = UpdateNodes(acc.v, acc.st, acc.pal, id)]

\* one deleteNodeTemplate dispatch: the store drops the id (filter by id),
\* and the subscription runs updateNodes
DeleteNodeTemplate(acc, nid, id) ==
    LET st2 == SelectSeq(acc.st, LAMBDA o : id[o] # nid)
    IN  [acc EXCEPT !.st = st2, !.v = UpdateNodes(acc.v, st2, acc.pal, id)]

\* variant: the connection is left drawn after its relationship is deleted
DeleteRelationshipTemplateKeepConnection(v, r, id) ==
    LET rest == SelectSeq(v.rels, LAMBDA x : x # r)
    IN  FoldLeft(LAMBDA w, x : ManageRelationships(w, x, id), [v EXCEPT !.rels = rest], rest)

\* deleteRelationshipTemplate(conn.id) and deleteConnection(conn): the store
\* filters the relationship out, and updateRelationships assigns the rest
\* and runs manageRelationships for each of them
DeleteRelationshipTemplate(v, r, id) ==
    LET rest == SelectSeq(v.rels, LAMBDA x : x # r)
    IN  FoldLeft(LAMBDA w, x : ManageRelationships(w, x, id),
                 [v EXCEPT !.rels = rest, !.painted = v.painted \ {r},
                           !.marked = v.marked \ {r}], rest)

\* variant: the connection filter matches every connection
TouchesAny(r, nid) == TRUE

\* variant: only connections that start at the node are found
TouchesSourceOnly(r, nid) == r.src = nid

\* a painted connection touches the node as source or as target (a
\* requirement or capability end is painted on its node)
Touches(r, nid) == r.src = nid \/ r.tgt = nid

\* the body of the loop for the i-th highlighted component: delete each
\* connection jsPlumb draws at the node, unmake its endpoint if it is
\* open, delete the node
DeleteHighlightedNode(acc, i, id) ==
    LET nid == id[acc.v.comps[i].o]
        toDelete == {r \in acc.v.painted : Touches(r, nid)}
        v1 == FoldSet(LAMBDA r, v : DeleteRelationshipTemplate(v, r, id), acc.v, toDelete)
        v2 == IF v1.comps[i].ep THEN [v1 EXCEPT !.sources = v1.sources \ {Endpoint(nid)}] ELSE v1
    IN  DeleteNodeTemplate([acc EXCEPT !.v = v2], nid, id)

\* variant: without `this.selectedNodes.length = 0`
EndDeleteKeepSelection(v) == v

\* `this.selectedNodes.length = 0` after the loop
EndDelete(v) == [v EXCEPT !.sel = <<>>]

\* variant: the loop deletes every connection, marked or not
DeleteAllConnections(v, id) ==
    FoldSet(LAMBDA r, w : DeleteRelationshipTemplate(w, r, id), v, v.painted)

\* the loop over getAllConnections() of the Del key with no node selected:
\* every connection of type 'marked' has its relationship deleted and is
\* deleted itself (hideSidebar only closes the sidebar)
DeleteMarkedConnections(v, id) ==
    FoldSet(LAMBDA r, w : DeleteRelationshipTemplate(w, r, id), v, v.marked)

\* handleDeleteKeyEvent (the 'del' hotkey, and ngOnChanges on the sidebar's
\* delete button): unbindConnection, then with nodes selected every
\* component marked visible is deleted, each dispatch running its
\* subscription, and the selection is emptied; with none selected the
\* marked connections are deleted
HandleDeleteKeyEvent ==
    /\ Idle
    /\ LET v0 == UnbindConnection(View)
           shown == SelectSeq([i \in DOMAIN comps |-> i], LAMBDA i : comps[i].vis)
           res == FoldLeft(LAMBDA acc, i : DeleteHighlightedNode(acc, i, idOf),
                           [st |-> store, v |-> v0, pal |-> palette], shown)
       IN  IF Len(selected) > 0
           THEN /\ store' = res.st
                /\ Commit(EndDelete(res.v))
           ELSE /\ Commit(DeleteMarkedConnections(v0, idOf))
                /\ UNCHANGED store
    /\ UNCHANGED <<idOf, nextObj, palette, mouse, longPress, started, relTypeSelected>>

\* showSelectionRange, on a mouse down on the empty canvas
ShowSelectionRange ==
    /\ Idle
    /\ palette' = FALSE
    /\ LET v1 == UnmarkConnections(ClearSelectedNodes(View, idOf))
       IN  Commit([v1 EXCEPT !.comps = [i \in DOMAIN v1.comps |-> [v1.comps[i] EXCEPT !.vis = FALSE]]])
    /\ mouse' = Listen(<<"openSelector", "selectElements">>)
    /\ UNCHANGED <<store, idOf, nextObj, longPress, started, relTypeSelected>>

\* trackTimeOfMouseDown
TrackTimeOfMouseDown ==
    /\ Idle
    /\ Commit(UnbindConnection(ClearSelectedNodes(RemoveDragSource(UnmarkConnections(View), idOf), idOf)))
    /\ started' = TRUE
    /\ UNCHANGED <<store, idOf, nextObj, palette, mouse, longPress, relTypeSelected>>

\* trackTimeOfMouseUp and determineDragOrClick: endTime - startTime against
\* draggingThreshold; before any mouse down startTime is undefined, both
\* comparisons with NaN are false and longPress keeps its value
TrackTimeOfMouseUp ==
    /\ Idle
    /\ IF started THEN \E kind \in {"short", "long"} : longPress' = kind
                  ELSE UNCHANGED longPress
    /\ UNCHANGED started
    /\ UNCHANGED <<store, idOf, nextObj, palette, local, comps, pending, selected,
                   newNode, indexOfNewNode, mouse>>
    /\ UNCHANGED <<connVars, relTypeSelected>>

\* positionNewNode: updateSelectedNodes dispatches updateNodeCoordinates for
\* every selected node (each dispatch runs updateNodes), then unbindAll
PositionNewNode ==
    LET moved == SelectSeq(comps, LAMBDA c : idOf[c.o] \in SelIds(selected, idOf))
        v1 == FoldLeft(LAMBDA v, c : UpdateNodes(v, store, palette, idOf), View, moved)
    IN  /\ Commit(v1)
        /\ mouse' = <<>>
        /\ UNCHANGED <<store, idOf, nextObj, palette, longPress, started, relTypeSelected>>

\* selectElements: selects the nodes inside the box, unbindAll, and on a
\* short press inside the canvas clears the selection again
SelectElements ==
    \E box \in SUBSET DOMAIN comps, inside \in BOOLEAN, farRight \in BOOLEAN :
       LET inBox == SelectSeq([i \in DOMAIN comps |-> i], LAMBDA i : i \in box)
           v1 == FoldLeft(LAMBDA v, i : EnhanceDragSelection(v, idOf[comps[i].o], idOf), View, inBox)
           hack == inside /\ longPress = "short"
       IN  /\ Commit(IF hack THEN ClearSelectedNodes(v1, idOf) ELSE v1)
           /\ palette' = IF hack /\ farRight THEN FALSE ELSE palette
           /\ mouse' = <<>>
           /\ UNCHANGED <<store, idOf, nextObj, longPress, started, relTypeSelected>>

\* a mouse up on the canvas: the first attached mouseup listener runs and its
\* unbindAll detaches the others before they run
MouseUp ==
    LET ups == SelectSeq(mouse, LAMBDA h : h \in {"selectElements", "positionNewNode"})
    IN  /\ Idle
        /\ ups # <<>>
        /\ IF Head(ups) = "positionNewNode" THEN PositionNewNode ELSE SelectElements

\* toggleClosedEndpoint, emitted by a node when its connector endpoint is
\* clicked: opening it resets the drag source and closes every other one
ToggleClosedEndpoint ==
    /\ Idle
    /\ \E nid \in IdsOf(local) :
          LET c == SelectInSeq(comps, LAMBDA r : idOf[r.o] = nid)
              v1 == [View EXCEPT !.comps[c].ep = ~comps[c].ep]
              v2 == ResetDragSource([v1 EXCEPT !.dsActive = FALSE], nid, idOf)
              closeOthers(r) == IF idOf[r.o] # nid THEN [r EXCEPT !.ep = FALSE] ELSE r
          IN  Commit(IF v1.comps[c].ep
                     THEN [v2 EXCEPT !.comps = [i \in DOMAIN v2.comps |-> closeOthers(v2.comps[i])]]
                     ELSE v1)
    /\ UNCHANGED <<store, idOf, nextObj, palette, mouse, longPress, started, relTypeSelected>>

\* setDragSource, emitted by a node when its open endpoint is pressed
SetDragSource ==
    /\ Idle
    /\ \E i \in DOMAIN comps :
          LET nid == idOf[comps[i].o]
              targetNodes == IdsOf(local) \ {nid}
              v1 == [View EXCEPT !.sources = jsSources \cup {Endpoint(nid)},
                                 !.dsInfo = [node |-> nid, kind |-> "endpoint"]]
          IN  /\ comps[i].ep
              /\ ~dragSourceActive /\ Endpoint(nid) \notin jsSources /\ Len(local) > 1
              /\ Commit(IF targetNodes # {}
                        THEN BindConnection([v1 EXCEPT !.targets = v1.targets \cup {"node"},
                                                       !.dsActive = TRUE])
                        ELSE v1)
    /\ UNCHANGED <<store, idOf, nextObj, palette, mouse, longPress, started, relTypeSelected>>

\* setSource, on sourceSelectedEvent of the requirement/capability service:
\* the node is made the source and every capability a target
SetSource ==
    /\ Idle
    /\ \E nid \in IdsOf(local) :
          LET capIds == IdsOf(local) \cap CapNodes
              v1 == [View EXCEPT !.sources = jsSources \cup {NodeElement(nid)},
                                 !.dsInfo = [node |-> nid, kind |-> "requirement"]]
          IN  /\ ~dragSourceActive /\ Len(local) > 1
              /\ Commit(IF capIds # {}
                        THEN BindReqCapConnection([v1 EXCEPT !.targets = v1.targets \cup {"cap"},
                                                             !.dsActive = TRUE])
                        ELSE v1)
    /\ UNCHANGED <<store, idOf, nextObj, palette, mouse, longPress, started, relTypeSelected>>

\* setSelectedRelationshipType, on sendSelectedRelationshipTypeEvent
SetSelectedRelationshipType ==
    /\ Idle
    /\ ~relTypeSelected
    /\ relTypeSelected' = TRUE
    /\ UNCHANGED <<store, idOf, nextObj, palette, local, comps, pending, selected,
                   newNode, indexOfNewNode, mouse, longPress, started, connVars>>

\* a connection dragged from a source element is dropped on a target and
\* jsPlumb fires 'connection' to the bound listeners
ConnectionDropped ==
    /\ Idle
    /\ connListeners # <<>>
    /\ \E src \in jsSources, tk \in jsTargets, t \in IdsOf(local), compatible \in BOOLEAN :
          LET e == [src |-> src, tk |-> tk, t |-> t]
              c == SelectInSeq(comps, LAMBDA r : idOf[r.o] = src[2])
              res == FireConnection([v |-> View, gone |-> FALSE], connListeners, e,
                                    relTypeSelected, compatible, idOf)
          IN  /\ c # 0
              /\ src[1] = "endpoint" => comps[c].ep
              /\ IF tk = "node" THEN t # src[2] ELSE t \in CapNodes
              /\ Len(res.v.rels) <= MaxRels
              /\ Commit(res.v)
    /\ UNCHANGED <<store, idOf, nextObj, palette, mouse, longPress, started, relTypeSelected>>

\* the 1 ms timer of manageRelationships runs paintRelationship with the
\* relationship it was set for, stored or not: a relationship jsPlumb does
\* not draw yet is connected between its nodes (createNewJsPlumbConnection;
\* the requirement and capability ends are resolved to their nodes, which a
\* relationship here already names).  jsPlumb's connect draws nothing when
\* an end element is not rendered, and handleRelSideBar skips a missing conn.
PaintRelationship ==
    /\ pending = {}
    /\ \E r \in paintTimers :
          /\ paintTimers' = paintTimers \ {r}
          /\ painted' = IF {r.src, r.tgt} \subseteq {idOf[comps[c].o] : c \in DOMAIN comps}
                        THEN painted \cup {r}
                        ELSE painted
    /\ UNCHANGED <<store, idOf, nextObj, palette, local, comps, pending, selected,
                   newNode, indexOfNewNode, mouse, longPress, started, relTypeSelected,
                   dragSourceActive, dragSourceInfos, jsPlumbBindConnection,
                   connListeners, jsSources, jsTargets, relationships, marked>>

\* a click on a drawn connection or its label (the click listener of
\* handleRelSideBar), or on its relationship's name
\* (onClickRelationshipTemplateName finds the drawn connection by id)
ClickConnection ==
    /\ Idle
    /\ \E r \in painted, blocked \in BOOLEAN :
          Commit(OnClickJsPlumbConnection(View, r, blocked, idOf))
    /\ UNCHANGED <<store, idOf, nextObj, palette, mouse, longPress, started, relTypeSelected>>

\* node sync, selection, palette drag and the delete key
NodeNext ==
    \/ PaletteDrop
    \/ AddMitigationToTopology
    \/ SetPaletteState
    \/ ActivateNewNode
    \/ NodeClicked
    \/ SelectAll
    \/ ToggleMarkNode
    \/ HandleDeleteKeyEvent
    \/ ShowSelectionRange
    \/ TrackTimeOfMouseDown
    \/ TrackTimeOfMouseUp
    \/ MouseUp

Next ==
    \/ NodeNext
    \/ ToggleClosedEndpoint
    \/ SetDragSource
    \/ SetSource
    \/ SetSelectedRelationshipType
    \/ ConnectionDropped
    \/ PaintRelationship
    \/ ClickConnection

\* the canvas without connection drags
NodeSpec == Init /\ [][NodeNext]_vars

\* connection drags among the displayed nodes, with the node clicks and the
\* Del key, which unbind or reset the drag source (no palette drop, mouse
\* down, box selection or mitigation)
ConnNext ==
    \/ ActivateNewNode
    \/ NodeClicked
    \/ HandleDeleteKeyEvent
    \/ ToggleClosedEndpoint
    \/ SetDragSource
    \/ SetSource
    \/ SetSelectedRelationshipType
    \/ ConnectionDropped
    \/ PaintRelationship

\* the topology loaded with its relationships: palette drops and
\* mitigations, clicks on nodes and on drawn connections, selections and the
\* delete key, without connection drags
MarkNext ==
    \/ PaletteDrop
    \/ AddMitigationToTopology
    \/ SetPaletteState
    \/ ActivateNewNode
    \/ NodeClicked
    \/ SelectAll
    \/ ToggleMarkNode
    \/ HandleDeleteKeyEvent
    \/ ShowSelectionRange
    \/ TrackTimeOfMouseDown
    \/ TrackTimeOfMouseUp
    \/ MouseUp
    \/ ClickConnection
    \/ PaintRelationship

MarkSpec == Init /\ [][MarkNext]_vars

\* Angular finishes every render it starts, so a created component emits
\* activateNewNode; the browser runs every due paint timer. Nothing the
\* user does is fair.
ConnSpec == Init /\ [][ConnNext]_vars /\ WF_vars(ActivateNewNode) /\ WF_vars(PaintRelationship)

Spec == Init /\ [][Next]_vars

-----------------------------------------------------------------------------
(***************************************************************************)
(* Properties                                                              *)
(***************************************************************************)

RelationshipRecords == [src : NodeIds, tgt : NodeIds, tk : {"node", "cap"}]

TypeOK ==
    /\ nextObj \in 0..MaxObj
    /\ idOf \in [Obj -> NodeIds \cup {NoId}]
    /\ store \in Seq(1..nextObj)
    /\ local \in Seq(1..nextObj)
    /\ comps \in Seq([o : 1..nextObj, vis : BOOLEAN, ep : BOOLEAN])
    /\ pending \subseteq 1..nextObj
    /\ selected \in Seq(0..nextObj)
    /\ newNode \in 0..nextObj
    /\ indexOfNewNode \in 0..MaxObj
    /\ palette \in BOOLEAN
    /\ mouse \in Seq(MouseHandlers)
    /\ longPress \in {"undefined", "short", "long"}
    /\ started \in BOOLEAN
    /\ dragSourceActive \in BOOLEAN
    /\ dragSourceInfos \in {NoSource} \cup [node : NodeIds, kind : {"endpoint", "requirement"}]
    /\ jsPlumbBindConnection \in BOOLEAN
    /\ connListeners \in Seq({"plain", "reqcap"})
    /\ jsSources \subseteq {Endpoint(n) : n \in NodeIds} \cup {NodeElement(n) : n \in NodeIds}
    /\ jsTargets \subseteq {"node", "cap"}
    /\ relationships \in Seq(RelationshipRecords)
    /\ relTypeSelected \in BOOLEAN
    /\ painted \subseteq RelationshipRecords
    /\ paintTimers \subseteq RelationshipRecords
    /\ marked \subseteq RelationshipRecords

\* After every store change, updateNodes leaves allNodeTemplates holding the
\* store's node templates in the store's order (the length-difference
\* dispatch in updateNodes and the splice loop of handleDeletedNodes).
LocalMirrorsStore ==
    [i \in DOMAIN local |-> idOf[local[i]]] = [i \in DOMAIN store |-> idOf[store[i]]]

\* selectedNodes only holds node templates the canvas displays: no undefined
\* from getNodeByID and no node deleted by handleDeleteKeyEvent or replaced
\* by handleNewNode.
SelectionRefersToDisplayedNodes ==
    \A i \in DOMAIN selected : selected[i] \in ToSet(local)

\* While moveNewNode is attached, allNodeTemplates[indexOfNewNode] is the
\* node dropped from the palette, so the mouse moves that node and no other
\* (bindNewNode, positionNewNode, handleNewNode).
NewNodeDragTargetsNewNode ==
    "moveNewNode" \in ToSet(mouse) =>
        /\ indexOfNewNode \in 1..Len(local)
        /\ local[indexOfNewNode] = newNode

\* Node template ids in the store are unique (addMitigationToTopology draws
\* the id suffix at random).
StoreIdsUnique ==
    \A i, j \in DOMAIN store : i # j => idOf[store[i]] # idOf[store[j]]

\* From every reachable state, a plain click on a displayed node
\* (handleNodePressActions) leaves that node in selectedNodes, as it leaves
\* it highlighted.
PlainClickSelectsNode ==
    \A c \in DOMAIN comps :
        LET nid == idOf[comps[c].o]
        IN  ArrayContainsNode(HandleNodePressActions(View, nid, idOf).sel, nid, idOf)

\* Relationship templates only connect node templates the store holds:
\* handleDeleteKeyEvent deletes every relationship painted on a deleted node
\* before it deletes the node, and the connection listeners save only
\* relationships whose ends are displayed nodes.
RelationshipsReferenceStoredNodes ==
    \A k \in DOMAIN relationships :
        {relationships[k].src, relationships[k].tgt} \subseteq IdsOf(store)

\* While a drag source is active, jsPlumb still makes its element a source:
\* every path that unmakes the source (unbindDragSource, resetDragSource,
\* removeDragSource, a delete) also ends the drag.
ActiveDragSourceIsSource ==
    dragSourceActive =>
        /\ dragSourceInfos # NoSource
        /\ (IF dragSourceInfos.kind = "endpoint" THEN Endpoint(dragSourceInfos.node)
            ELSE NodeElement(dragSourceInfos.node)) \in jsSources

\* From every reachable state where an open endpoint of a displayed node is
\* the active drag source and a relationship type is selected, dropping its
\* connection on another displayed node saves exactly one relationship
\* (setDragSource, bindConnection and its 'connection' listener).
EndpointDropSavesRelationship ==
    \A c \in DOMAIN comps, t \in IdsOf(local) :
        LET nid == idOf[comps[c].o]
            e == [src |-> Endpoint(nid), tk |-> "node", t |-> t]
            res == FireConnection([v |-> View, gone |-> FALSE], connListeners, e,
                                  TRUE, FALSE, idOf)
        IN  (/\ relTypeSelected /\ comps[c].ep /\ t # nid
             /\ dragSourceActive /\ dragSourceInfos = [node |-> nid, kind |-> "endpoint"])
            => Len(res.v.rels) = Len(relationships) + 1

\* Every connection jsPlumb draws stands for a relationship of the store:
\* deleting a node deletes, with its relationships, the connections drawn at
\* it, and a paint timer never outlives its relationship.
PaintedRelationshipsAreStored ==
    painted \subseteq ToSet(relationships)

\* Whenever a relationship of the store is not drawn, eventually every
\* relationship of the store is drawn: each save, delete and the initial
\* load run manageRelationships for the relationships they leave, and its
\* timer paints them.
StoredRelationshipsGetPainted ==
    ToSet(relationships) \ painted # {} ~> ToSet(relationships) \subseteq painted

\* ids of the node templates drawn highlighted (makeSelectionVisible)
Highlighted == {idOf[comps[c].o] : c \in {i \in DOMAIN comps : comps[i].vis}}

\* A Del press (handleDeleteKeyEvent) removes from the store only node
\* templates drawn highlighted, and only relationship templates whose
\* connection is marked or drawn at a highlighted node.
DeleteRemovesOnlyShownSelection ==
    [][/\ IdsOf(store) \ IdsOf(store') \subseteq Highlighted
       /\ \A r \in ToSet(relationships) \ ToSet(relationships') :
             r \in marked \/ \E n \in Highlighted : Touches(r, n)]_vars

=============================================================================
