----------------------------- MODULE ReqCapModal -----------------------------
(***************************************************************************)
(* The requirements and capabilities modals of the canvas                 *)
(* (toggleModalHandler and the handlers the modals call, in               *)
(* canvas/canvas.component.ts), with the node templates' requirement and   *)
(* capability lists in the store.                                         *)
(*                                                                         *)
(* A requirement or capability is its id; names, types and properties are  *)
(* copied along and left out.  `requirements` and `capabilities` are the   *)
(* modal records this.requirements and this.capabilities: the node, the   *)
(* list being edited, the typed id (reqId/capId) and the id the modal was *)
(* opened on (oldReqId/oldCapId).  A reset leaves an empty list where the *)
(* code leaves null: every reader treats both alike.                       *)
(*                                                                         *)
(* The modal template is not in the repository.  A modal covers the page, *)
(* so nothing else happens while one is shown, and its save buttons are   *)
(* taken to be disabled while duplicateId is set or no id was typed.       *)
(* InheritanceUtils is not in the repository either: whether its lookup   *)
(* of the node type's definitions throws is the choice `throws`.          *)
(***************************************************************************)
EXTENDS Naturals, Sequences, SequencesExt, Functions

CONSTANTS
    NodeOrder,       \* ids of allNodeTemplates, in order (fixed here)
    InitialReqs,     \* InitialReqs[n]: the requirement ids of node n
    InitialCaps,     \* InitialCaps[n]: the capability ids of node n
    Rels,            \* relationship templates [id, src (requirement), tgt (capability)]
    TypedIds,        \* ids the user may type into the id field
    MaxItems,        \* bound: requirements or capabilities per node
    LookupMayThrow   \* may getEffective...DefinitionsOfNodeType throw?

NodeSet == ToSet(NodeOrder)

ASSUME /\ InitialReqs \in [NodeSet -> Seq(TypedIds)]
       /\ InitialCaps \in [NodeSet -> Seq(TypedIds)]
       /\ MaxItems \in Nat
       /\ LookupMayThrow \in BOOLEAN

None == "none"
Empty == ""

VARIABLES
    reqs,          \* reqs[n]: node template n's requirements in the store
    caps,          \* caps[n]: its capabilities
    current,       \* currentModalData: [node, part, cur, items]
    allIds,        \* allIds
    duplicateId,   \* duplicateId
    requirements,  \* this.requirements: [node, list, id, old]
    capabilities,  \* this.capabilities: [node, list, id, old]
    shown          \* the modal shown: "none", "reqs" or "caps"

vars == <<reqs, caps, current, allIds, duplicateId, requirements, capabilities, shown>>

\* resetRequirements / resetCapabilities
ClosedModal == [node |-> Empty, list |-> <<>>, id |-> Empty, old |-> Empty]

\* setId: push the id unless allIds has it
SetId(ids, x) == ids \cup {x}

\* getAllIds: the first node contributes its id only, every later node its
\* id, requirements and capabilities; then every relationship id
GetAllIds(rq, cp) ==
    LET step(ids, n) ==
            IF ids = {} THEN {n}
            ELSE FoldLeft(SetId, SetId(ids, n), rq[n] \o cp[n])
    IN  FoldLeft(step, {}, NodeOrder) \cup {r.id : r \in Rels}

Init ==
    /\ reqs = InitialReqs
    /\ caps = InitialCaps
    /\ current = [node |-> Empty, part |-> None, cur |-> None, items |-> <<>>]
    /\ allIds = {}
    /\ duplicateId = FALSE
    /\ requirements = ClosedModal
    /\ capabilities = ClosedModal
    /\ shown = "none"

\* variant: the modal takes the node's id for the clicked entry's
OpenedOnNode(n, cur) == IF cur = None THEN Empty ELSE n

\* reqId and oldReqId (capId, oldCapId): the id of the entry clicked in
\* the table, empty for a new one
OpenedOn(n, cur) == IF cur = None THEN Empty ELSE cur

\* toggleModalHandler for node n: the requirements or capabilities case
\* resets its modal and fills it with the node's list; cur is the
\* requirement or capability clicked in the table, or None for a new one,
\* whose definition lookup clears the list when it throws.  The
\* DeploymentArtifacts and Policies cases ("other") only set the variant.
ToggleModalHandler ==
    /\ shown = "none"
    /\ \E n \in NodeSet, part \in {"reqs", "caps", "other"},
          throws \in IF LookupMayThrow THEN BOOLEAN ELSE {FALSE} :
        LET items == IF part = "caps" THEN caps[n] ELSE reqs[n]
        IN  \E cur \in IF part = "other" THEN {None} ELSE ToSet(items) \cup {None} :
            LET m == [node |-> n,
                      list |-> IF cur = None /\ throws THEN <<>> ELSE items,
                      id |-> OpenedOn(n, cur),
                      old |-> OpenedOn(n, cur)]
            IN  /\ current' = [node |-> n, part |-> part, cur |-> cur, items |-> items]
                /\ duplicateId' = FALSE
                /\ allIds' = GetAllIds(reqs, caps)
                /\ CASE part = "reqs" -> /\ requirements' = m /\ shown' = "reqs"
                                         /\ UNCHANGED capabilities
                     [] part = "caps" -> /\ capabilities' = m /\ shown' = "caps"
                                         /\ UNCHANGED requirements
                     [] OTHER         -> UNCHANGED <<requirements, capabilities, shown>>
    /\ UNCHANGED <<reqs, caps>>

\* onChangeReqId / onChangeCapId: a typed id is taken unless allIds has it
OnChangeId(m, x) ==
    IF x \notin allIds THEN [m EXCEPT !.id = x] ELSE m

OnChangeReqId ==
    /\ shown = "reqs"
    /\ \E x \in TypedIds :
        /\ requirements' = OnChangeId(requirements, x)
        /\ duplicateId' = (x \in allIds)
    /\ UNCHANGED <<reqs, caps, current, allIds, capabilities, shown>>

OnChangeCapId ==
    /\ shown = "caps"
    /\ \E x \in TypedIds :
        /\ capabilities' = OnChangeId(capabilities, x)
        /\ duplicateId' = (x \in allIds)
    /\ UNCHANGED <<reqs, caps, current, allIds, requirements, shown>>

\* saveRequirementsToStore: setRequirement replaces the node's list, then
\* the modal is reset and hidden
SaveRequirementsToStore(m) ==
    /\ reqs' = [reqs EXCEPT ![m.node] = m.list]
    /\ requirements' = ClosedModal
    /\ shown' = "none"
    /\ UNCHANGED <<caps, capabilities, current, allIds, duplicateId>>

SaveCapabilitiesToStore(m) ==
    /\ caps' = [caps EXCEPT ![m.node] = m.list]
    /\ capabilities' = ClosedModal
    /\ shown' = "none"
    /\ UNCHANGED <<reqs, requirements, current, allIds, duplicateId>>

\* the add buttons of a modal opened without a current item
CanAdd(m) == current.cur = None /\ ~duplicateId /\ m.id # Empty /\ Len(m.list) < MaxItems

\* saveRequirementsToModel: push a requirement with the typed id
SaveRequirementsToModel ==
    /\ shown = "reqs" /\ CanAdd(requirements)
    /\ SaveRequirementsToStore([requirements EXCEPT !.list = Append(@, requirements.id)])

SaveCapabilityToModel ==
    /\ shown = "caps" /\ CanAdd(capabilities)
    /\ SaveCapabilitiesToStore([capabilities EXCEPT !.list = Append(@, capabilities.id)])

\* variant: the index found is that of the last entry
EditedLast(m) == [m EXCEPT !.list[Len(m.list)] = m.id]

\* updateReqs / updateCaps: the first entry with the old id gets the typed id
Edited(m) == [m EXCEPT !.list[SelectInSeq(m.list, LAMBDA x : x = m.old)] = m.id]

UpdateReqs ==
    /\ shown = "reqs" /\ current.cur # None /\ ~duplicateId
    /\ SaveRequirementsToStore(Edited(requirements))

UpdateCaps ==
    /\ shown = "caps" /\ current.cur # None /\ ~duplicateId
    /\ SaveCapabilitiesToStore(Edited(capabilities))

\* deleteRequirement / deleteCapability: the node's list as the modal was
\* opened, without every entry of the clicked id
DeleteRequirement ==
    /\ shown = "reqs" /\ current.cur # None
    /\ SaveRequirementsToStore([requirements EXCEPT !.node = current.node,
                                   !.list = SelectSeq(current.items, LAMBDA x : x # current.cur)])

DeleteCapability ==
    /\ shown = "caps" /\ current.cur # None
    /\ SaveCapabilitiesToStore([capabilities EXCEPT !.node = current.node,
                                   !.list = SelectSeq(current.items, LAMBDA x : x # current.cur)])

\* closeAndResetRequirements / closeAndResetCapabilities
CloseAndResetRequirements ==
    /\ shown = "reqs"
    /\ shown' = "none" /\ requirements' = ClosedModal
    /\ UNCHANGED <<reqs, caps, current, allIds, duplicateId, capabilities>>

CloseAndResetCapabilities ==
    /\ shown = "caps"
    /\ shown' = "none" /\ capabilities' = ClosedModal
    /\ UNCHANGED <<reqs, caps, current, allIds, duplicateId, requirements>>

Next ==
    \/ ToggleModalHandler
    \/ OnChangeReqId \/ OnChangeCapId
    \/ SaveRequirementsToModel \/ SaveCapabilityToModel
    \/ UpdateReqs \/ UpdateCaps
    \/ DeleteRequirement \/ DeleteCapability
    \/ CloseAndResetRequirements \/ CloseAndResetCapabilities

Spec == Init /\ [][Next]_vars

-----------------------------------------------------------------------------
Modal == [node : NodeSet \cup {Empty}, list : Seq(TypedIds), id : TypedIds \cup {Empty},
          old : TypedIds \cup {Empty}]

TypeOK ==
    /\ reqs \in [NodeSet -> Seq(TypedIds)]
    /\ caps \in [NodeSet -> Seq(TypedIds)]
    /\ \A n \in NodeSet : Len(reqs[n]) <= MaxItems /\ Len(caps[n]) <= MaxItems
    /\ allIds \subseteq TypedIds \cup NodeSet \cup {r.id : r \in Rels}
    /\ duplicateId \in BOOLEAN
    /\ requirements \in Modal /\ capabilities \in Modal
    /\ shown \in {"none", "reqs", "caps"}

\* every id of the topology, nodes first, then each node's requirements and
\* capabilities, then the relationships
TopologyIds ==
    NodeOrder \o FlattenSeq([i \in DOMAIN NodeOrder |-> reqs[NodeOrder[i]] \o caps[NodeOrder[i]]])
              \o SetToSeq({r.id : r \in Rels})

\* No two elements of the topology share an id: onChangeReqId and
\* onChangeCapId refuse every id getAllIds collected when the modal opened.
UniqueIds == IsInjective(TopologyIds)

\* A save of a modal loses no requirement or capability of any node other
\* than the one the modal was opened on: an add keeps the list, an update
\* replaces the opened entry, a delete removes it (toggleModalHandler, the
\* save, update and delete handlers and setRequirement/setCapability).
SaveKeepsExistingItems ==
    [][\A n \in NodeSet :
          /\ ToSet(reqs[n]) \ ToSet(reqs'[n]) \subseteq {current.cur}
          /\ ToSet(caps[n]) \ ToSet(caps'[n]) \subseteq {current.cur}]_vars

=============================================================================
