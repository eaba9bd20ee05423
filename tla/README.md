# TLA+ models of the Winery topology modeler canvas

This directory holds TLA+ models of two parts of the Winery topology modeler:

- `CanvasComponent`, in
  `src/org.eclipse.winery.frontends/app/topologymodeler/src/app/canvas/canvas.component.ts`;
- `FaastenerService`, in `services/faastener.service.ts`.

TLC checks every model. `PROJECT.json` lists:

- the components;
- the runs and their mutants;
- the map from every definition to the source lines it models;
- the findings and the hazards.

## The system

`CanvasComponent` is an Angular component that draws a TOSCA topology with
jsPlumb. The Redux store (`@angular-redux/store`) holds the topology: node
templates, relationship templates and renderer state. The component subscribes
to slices of it in its constructor. NgRedux subscriptions run synchronously
inside `dispatch`. A handler that dispatches therefore re-enters the
subscription before its own next statement.

- **Node template sync.** `updateNodes` keeps a local copy, `allNodeTemplates`.
  It compares only the two lengths and picks a handler from that:
  - `handleNewNode` for one more node with the palette open;
  - a plain push with the palette closed;
  - `handleDeletedNodes` for fewer nodes;
  - a wholesale assign for other growth;
  - `updateNodeAttributes` for equal lengths.
- **Selection.** This covers `selectedNodes` and each `NodeComponent`'s
  `makeSelectionVisible`:
  - clicks (`handleNodePressActions`, `handleCtrlKeyNodePress`);
  - `mod+a`;
  - the selection box (`showSelectionRange`, `selectElements`, the mouse
    listeners);
  - `trackTimeOfMouseDown`/`Up`.
- **Palette drop.** A new node's component calls `activateNewNode` →
  `bindNewNode`. The node follows the mouse through
  `allNodeTemplates[indexOfNewNode]` until `positionNewNode` runs.
- **Delete key.** `handleDeleteKeyEvent` (also `ngOnChanges`) first calls
  `unbindConnection`. For every highlighted node, it dispatches one
  `deleteRelationshipTemplate` per jsPlumb connection of the node, then
  `deleteNodeTemplate`. Finally it empties the selection.
- **Connection marking.** A click on a drawn connection or its label, or on
  a relationship's name (`onClickRelationshipTemplateName`), runs
  `onClickJsPlumbConnection`. It clears the node selection, unmarks every
  connection and marks the clicked one. With no node selected, the Del key
  deletes each marked connection and its relationship. A mouse down on the
  canvas and a box selection unmark all connections.
- **Mitigations.** `addMitigationToTopology` saves a node with the id
  `localName_<random digit>`.
- **Drag sources and connections.** A connection is drawn from a connector
  endpoint (`toggleClosedEndpoint`, `setDragSource`) or from a requirement
  (`setSource`). A `connection` listener is bound: `bindConnection` or
  `bindReqCapConnection`. On a drop it dispatches `saveRelationship` and
  unbinds.
- **Relationship sync and painting.** `updateRelationships` runs inside every
  relationship dispatch. `manageRelationships` resets the drag source and
  sets a 1 ms timer. The timer's `paintRelationship` draws the jsPlumb
  connection, unless one with that id is already drawn.
- **Requirements and capabilities modals.** The sidebar's events reach
  `toggleModalHandler`. It collects `getAllIds` and fills `this.requirements`
  or `this.capabilities` with the node's list. The modal then edits, adds or
  deletes an entry and sends the node's new list with
  `setRequirement`/`setCapability`.
- **Renderer buttons.** The navbar toggles a flag of
  `topologyRendererState.buttonsState`. The subscription calls
  `setRendererState` inside that dispatch. It acts on the first flag set, in
  the order of its else-if chain:
  - a layout starts a `layoutNodes` promise;
  - an alignment starts an align promise;
  - import, threat modelling and YAML policies show a modal;
  - substitution starts the substitution.

  Each branch toggles its flag back by dispatching the same action again.
  This happens at once, or when the promise resolves. Every call also sets a
  1 ms timer. That timer saves the DOM coordinates to the store: all nodes,
  or only the selected ones after an alignment of a selection.
  `selectElements` and `handleNodePressActions` dispatch `setSelectedNodes`,
  which calls `setRendererState` again.
- **YAML policies.** The manage modal lists the topology's policies
  (`copyOfYamlPolicies`). A row can be removed (`handleRemoveYamlPolicyClick`)
  or selected (`handleYamlPolicySelected`), and the selected policy's
  properties are edited in textareas and saved in place
  (`savePolicyProperties`). The add modal appends a policy with a new name
  (`addNewYamlPolicy`). Each change is dispatched as `changeYamlPolicies`,
  and the store subscription rebuilds the table inside the dispatch.
- **FaaSTener.** `sendToscaModel` builds a simplified topology
  (`buildQueryGenerationRequest`). It posts it, gets the technologies from
  the URL in the answer, and opens the FaaSTener GUI with one `id=` per
  technology.

The store reducers, the palette, the component templates and
`InheritanceUtils` are not under `src/`. Their part is modelled from how the
code uses them: append on save, filter by id on delete, one component per
node, a save button disabled on a duplicate id, and a type lookup that may
throw. These definitions are marked `spec_modelled` in the map.

## Modules

| module | models |
|---|---|
| `CanvasAlgorithms` | `handleDeletedNodes` (forEach with an in-loop splice, RECURSIVE), `getNodeByID`, `arrayContainsNode`, and the reference filter `KeepStoredNodes` |
| `Canvas` | The canvas controller with the node and relationship slices of the store and jsPlumb's connections and paint timers: one action per event handler |
| `Topology` | The abstract specification: what the canvas may do to the store's topology |
| `MCCanvas` | Model values for node ids, the initial topology `<<a, b>>` with no relationship or with two (`MCInitialRels2`), and the refinement mapping onto `Topology` |
| `ReqCapModal` | The requirements and capabilities modals, with the node templates' requirement and capability lists |
| `MCReqCapModal` | Two nodes: `n1` with requirement `q1`, `n2` with capability `k1`, and relationship `r1` from `q1` to `k1` |
| `RendererState` | `setRendererState` as a RECURSIVE operator, with the layout and align promises and the 1 ms timers it leaves, and the handlers that call it |
| `MCRendererState` | Two nodes `a` and `b` |
| `YamlPolicies` | The YAML policies manage and add modals, with the store's policies as objects |
| `MCYamlPolicies` | A topology loaded with one policy `p` |
| `Faastener` | `buildQueryGenerationRequest` and `sendToscaModel` as operators |
| `MCOperators` | Every bounded input of the pure operators of `Faastener` and `CanvasAlgorithms`, as an initial state |

### How `Canvas` corresponds to the code

- **State.**
  - `store` is the node list of the store, and `local` is `allNodeTemplates`.
  - `comps` are the rendered `NodeComponent`s; `selected` is `selectedNodes`.
  - `newNode`, `indexOfNewNode`, `palette`, `longPress`, `dragSourceActive`,
    `dragSourceInfos` and `jsPlumbBindConnection` are the fields of the
    same names.
  - `mouse` holds the attached mouse listeners, and `pending` the components
    whose `activateNewNode` is due.
  - `connListeners` holds the `connection` listeners, in bind order.
  - `jsSources` and `jsTargets` are what jsPlumb has made sources and targets.
  - `relationships` is the store's relationship list. Each relationship is a
    source node, a target node and a target kind.
  - `painted` holds the relationships jsPlumb draws (`getAllConnections`),
    and `marked` those of its connections that have the type `marked`.
  - `paintTimers` holds the relationships whose `setTimeout(paintRelationship)`
    is due.
  - `InitialRels` are the relationships of the loaded topology. `Init` runs
    `manageRelationships` for each, as the first `updateRelationships` does.
  - Node templates are objects `1..MaxObj`, and `idOf` gives their id, so two
    nodes can share an id. JavaScript's `undefined` for a missing node is `0`.
- **Handlers as operators.** The handlers are operators over a view record,
  composed as the code calls them. `Commit` writes the record back and
  re-renders. Each action is one whole handler, with every dispatch and
  subscription callback it triggers.
  - `SaveRelationship` appends the relationship and runs
    `ManageRelationships`, which schedules the paint timer and resets the
    drag source.
  - `DeleteRelationshipTemplate` removes the relationship and its connection,
    and reschedules the paint of every remaining one, as the code's
    wholesale reassign does.
  - The delete loop reads `painted`, as the code reads
    `getConnections()`.
  - `ClickConnection` is a click on any drawn connection. `blocked` is the
    live-modelling early return, taken as a choice. With no node selected,
    the Del key deletes the marked connections one by one. The code walks
    the live array of `getAllConnections()` while deleting from it, which
    would skip the connection after each deleted one. Only
    `onClickJsPlumbConnection` marks a connection, and it unmarks all
    first, so at most one is marked and nothing is skipped; `marked` is
    deleted as a set.
- **`Idle`.** User events need `Idle`: no pending component and no due paint
  timer. Angular creates components in the change detection after a handler.
  A 1 ms `setTimeout` fires before the next human input.
- **`PaintRelationship`.** This is the timer callback. It runs with the
  relationship its timer was set for, whether or not the store still holds
  it, as `paintRelationship(newRelationship)` does. It adds the relationship
  to `painted` when both end nodes are rendered; adding one already drawn
  changes nothing, like the code's id check. jsPlumb's `connect` returns
  nothing for an end element that is not in the page, and
  `handleRelSideBar` skips a missing connection. The end resolution
  (requirement → node) is the identity here, because a relationship names
  nodes.
- **Connection listeners.** `ConnectionDropped` is one jsPlumb drop; a
  drop that would store more than `MaxRels` relationships is not taken.
  `FireConnection` runs the listeners in bind order and stops once one has
  called `unbind('connection')`. jsPlumb's `fire` catches an error a
  listener throws and calls the next listener, so a throwing listener keeps
  what it did before the throw and the dispatch goes on.
  - `ReqCapListener` models the whole listener of `bindReqCapConnection`.
    For a drop on a node element, `getCapability` returns null: outside
    YAML mode the compatibility check throws at `capability.type`; in YAML
    mode it throws or returns false (the choice `compatible`). A rejected
    drop then runs the for-of at lines 1947-1951 (`UnDrawAt`). That loop
    deletes every drawn connection whose target is the drop target, not
    only the one just dropped.
  - For a capability element the outcome of `checkReqCapCompatibility` is
    the choice `compatible`, because its helpers are not in the repository.
  - `YamlMode` is `configuration.isYaml()`.
- **Four next-state relations.** The node and connection state spaces are
  too large for one run, so each run uses one of these:
  - `NodeNext`: the node handlers.
  - `ConnNext`: the connection handlers, node rendering, single-node
    clicks, the Del key, and `PaintRelationship`. The mouse down on the
    canvas also unbinds the listeners and removes the drag source; it is
    left to `MarkNext`, and `ToggleClosedEndpoint` and the Del key reach
    the same resets.
  - `MarkNext`: the node handlers, `ClickConnection` and
    `PaintRelationship`, over a topology loaded with relationships, without
    connection drags.
  - `Next`: every handler.

### How `ReqCapModal` corresponds to the code

- **State.**
  - `reqs[n]` and `caps[n]` are the store's lists.
  - `current` is `currentModalData`: the node, the part, the clicked entry and
    the node's list at open time.
  - `allIds` and `duplicateId` are the fields of the same names.
  - `requirements` and `capabilities` are the modal records: node, list,
    `reqId`/`capId`, and `oldReqId`/`oldCapId`.
  - `shown` is the modal shown.
- **Actions.**
  - `ToggleModalHandler` covers every case of `toggleModalHandler`:
    requirements, capabilities, and the artifact or policy cases, which set
    only the variant.
  - The other actions are the modal's handlers: `onChangeReqId`,
    `saveRequirementsToModel`, `updateReqs`, `deleteRequirement`,
    `closeAndResetRequirements`, and their capability twins. Each ends in
    `saveRequirementsToStore` or `saveCapabilitiesToStore`.
  - The choice `throws` is the `catch` around the definition lookup when the
    modal opens for a new entry.
- **Abstracted away.** Names, types and KV/XML properties are copied field by
  field and left out.

### How `RendererState` corresponds to the code

- **State.**
  - `btn` is `buttonsState`.
  - `layouts` and `plainLayouts` count the running `layoutNodes` promises of
    `setRendererState` and of `layoutTopology`.
  - `aligns` is a bag of running align calls. Each record holds the mode,
    `nodesToBeAligned`, the call's `leaveNodesAsSelectedAfterLayouting`, and
    whether its promise and its timer are still to run. The align timer
    reads that flag, and the align promise's `then` clears it, so the two
    must stay together.
  - `timers` counts the other calls' 1 ms timers.
  - `dom` is where a node is drawn and `st` is what the store holds. Both
    are abstracted to the last operation that placed the node: `p0`,
    `layout`, `H` or `V`.
- **The nested dispatch.** `SetRendererState(w, sel)` recurses on the record
  `w` for the toggle-back dispatch, exactly as NgRedux re-enters the
  subscription.
- **Actions.**
  - `PressButton` is a navbar press.
  - `SelectElements` is a box selection.
  - `HandleNodePressActions` is a node click.
  - `LayoutDone`, `AlignDone` and `PlainLayoutDone` are promise
    resolutions.
  - `TimerFires` and `AlignTimerFires` are the timers.
  - `AfterViewInit` starts the diff-mode layout.
  - `CloseModal` closes a modal.
- **User events.** A user event happens only once the 1 ms timers have run
  and no modal covers the page (`UserIdle`). The navbar template is not in
  the repository, so `NavbarWhileRunning` says whether its buttons stay
  enabled while a promise runs.

### How `YamlPolicies` corresponds to the code

- **State.**
  - A policy is an object `1..MaxPol`, and `pols` is the store's array of
    them. `handleUpdatedYamlPolicies` assigns the same array to
    `entityTypes.yamlPolicies`, so one variable stands for both.
  - `name[o]` and `props[o]` are the object's fields. A properties map is
    abstracted to the value of one key, or `NoProps` for the empty map of a
    new policy.
  - `selected` is `selectedYamlPolicy`, a reference to an object.
  - `table` is the names of the rows of `copyOfYamlPolicies`.
  - `manageOpen` and `addOpen` say which modal is shown.
- **Actions.** There is one action per handler:
  - the `manageYamlPoliciesButton` branch of `setRendererState`;
  - `handleAddNewYamlPolicyClick`;
  - `addNewYamlPolicy`, whose duplicate check and missing type only warn;
  - `handleRemoveYamlPolicyClick`, a `filter` by name;
  - `handleYamlPolicySelected`, a `find` by name that also replaces the
    policy's properties in place by the effective ones;
  - `savePolicyProperties`, which writes into the selected object while its
    textareas are shown.

  Closing either modal is an action of its own.

### How `Faastener` corresponds to the code

- `RefMap` is `reqMap` and `capMap`. It is a fold over the node templates in
  order, so a later node overwrites an id.
- `Lookup` reads a missing key as `"undefined"`.
- `Query` is the `query +=` loop, with a string as the sequence of its
  pieces.
- `SendToscaModel` returns what is opened and whether the 500 toast shows. A
  response is `"ok"`, `"404"`, `"500"`, or `"null"` (a body whose field
  access throws).

## Runs

| run | expect | shows |
|---|---|---|
| `connect` | pass | Outside YAML mode, with up to two relationships, under `ConnSpec`, every interleaving of endpoint and requirement drags, drops, clicks, paint timers and deletes keeps these true: relationships join stored nodes (`RelationshipsReferenceStoredNodes`); an active drag source is a jsPlumb source (`ActiveDragSourceIsSource`); every drawn connection is a stored relationship (`PaintedRelationshipsAreStored`). The run also checks `CanvasRefinement`. Under fairness of rendering and of the paint timers, whenever a stored relationship is not drawn, eventually every stored one is (`StoredRelationshipsGetPainted`). About 153,000 states, under 2 minutes. |
| `mark` | pass | Under `MarkSpec`, the topology is loaded with two relationships between `a` and `b`. The run covers every interleaving of palette drops, a mitigation, node clicks, connection clicks, `mod+a`, box selections, mouse events, paint timers and Del presses. `LocalMirrorsStore` holds: `allNodeTemplates` has the store's ids in order. `SelectionRefersToDisplayedNodes` holds too. A Del removes only highlighted nodes, and only relationships that are marked or touch a highlighted node (`DeleteRemovesOnlyShownSelection`). The run also checks `CanvasRefinement`. About 81,000 states, just over 2 minutes. |
| `yaml_stale_selection` | violation | In four steps: open the manage modal, select `p`, remove `p`, and save a property. The save writes to the removed policy object, which the topology no longer holds (`EditsReachTopology`). |
| `operators` | pass | On every bounded input: `buildQueryGenerationRequest` sends each relationship with a holder of its requirement and of its capability, or undefined exactly when none holds the id. `sendToscaModel` opens a query naming the technologies, in order, exactly when both requests succeed with some. `handleDeletedNodes` is exact if and only if no two dropped nodes are adjacent. About 450,000 inputs. |
| `modal` | pass | When the type lookup succeeds, no sequence of modal opens, typed ids, adds, updates, deletes and closes loses a requirement or capability other than the one the modal was opened on (`SaveKeepsExistingItems`, an action property). About 408,000 states. |
| `renderer` | pass | Under `EditSpec` with the navbar enabled throughout, any order of button presses, box selections, clicks, promise resolutions and timers keeps `QuietMeansStored`: once nothing runs, the store holds the drawn positions. Every button that is on is eventually off again (`ButtonsEventuallyReset`). About 50,000 states, under 2 minutes. |
| `renderer_rerun` | violation | The navbar is disabled while a layout runs, but a box selection still dispatches `setSelectedNodes`. The subscription then finds `layoutButton` still on and starts a second layout (`AtMostOneRunning`). |
| `new_node_stale_index` | violation | The Del key deletes a palette node while its drag listeners are bound; `indexOfNewNode` then points past the end. |
| `orphan_reqcap_listener` | violation | A reqcap listener left from an unfinished requirement drag runs first on the next endpoint drop. It unbinds both listeners, and no relationship is saved. |
| `yaml_undrawn_relationship` | violation | In YAML mode, in 13 steps: a requirement drag saves `a`→`b` and it is drawn. A second requirement drag is left open when `a`'s endpoint is toggled, and the endpoint drag makes `b` a target. A drop from `a`'s element onto `b` is rejected by the reqcap listener, whose loop then deletes the drawn `a`→`b`. A Del of `a` finds no connection of `a` and leaves `a`→`b` stored with a deleted source (`RelationshipsReferenceStoredNodes`). |
| `modal_lost_items` | violation | When the definition lookup of the add path throws, the `catch` empties the modal's list, and the save replaces every requirement of the node with the new one. |
| `modal_duplicate_ids` | violation | `getAllIds` skips the first node's requirements and capabilities, so the modal accepts `q1` again. |

Every property of a passing run has a mutant in `PROJECT.json`. A mutant is
a plausible bug in mapped code that TLC then reports. The mutants are:

- the delete loop uses the store as it was before the loop;
- the delete forgets `selectedNodes.length = 0`;
- the endpoint listener skips its source check;
- the delete finds only connections starting at the node (`Touches`);
- the delete takes every relationship (which breaks `CanvasRefinement`);
- `resetDragSource` keeps `dragSourceActive`;
- a relationship delete keeps its drawn connection;
- `manageRelationships` sets no paint timer (which breaks the liveness property);
- the align timer always saves only the selected nodes;
- the align `then` always dispatches `executeAlignH` (which breaks
  `ButtonsEventuallyReset` after a vertical alignment);
- a connection click keeps the other marks (which, through the Del key,
  breaks `CanvasRefinement`);
- the Del key deletes every drawn connection, not the marked ones;
- the splice is one index off;
- `buildQueryGenerationRequest` looks the source up in `capMap`;
- the query loop assigns instead of appending;
- the modal takes the node id for the clicked entry's id;
- `updateReqs` edits the last entry.

## Refinement

`Topology` says what the canvas may do to the store's topology:

- append a node template with a fresh id;
- add a relationship between nodes of the topology, never an endpoint
  connection from a node to itself;
- delete a single relationship (the Del key on a marked connection);
- delete some nodes together with exactly the relationships that touch them.

`MCCanvas` maps `nodes` to the store's ids in order, and `rels` to the set of
store relationships. `connect` and `mark` check
`CanvasRefinement == Abstract!Spec` as a property. A Del press is one canvas
step, and one delete of `Topology`. With `RandomSuffixCollides = TRUE`, a
mitigation may break the fresh-id rule. `Canvas` states this as
`StoreIdsUnique`, but no run checks it.

## Fairness

`ConnSpec` makes two actions weakly fair, `PaintRelationship` and
`ActivateNewNode`:

- A due `setTimeout` callback is run by the browser's event loop.
  `manageRelationships` sets a new timer on every save and delete, so the
  timer stays enabled until it runs.
- Angular finishes the change detection it starts, so a created component
  emits `activateNewNode`. A paint timer waits for that render.

The user gets no fairness; the user may stop at any point. `MarkSpec` and
`NodeSpec` have no liveness property and no fairness.

`RendererState` makes fair the layout and align promise resolutions
(`LayoutDone`, `PlainLayoutDone`, `AlignDone`) and both timers. The layout
directive resolves every promise it returns. A due timer stays enabled until
the event loop runs it. The user's presses, selections, clicks and modal
closes are not fair.

## Bounds

- **`mark`.**
  - Two initial nodes with two relationships between them: a requirement
    of `a` to a capability of `b`, and a relationship from `b` to `a`.
  - At most 3 node objects, from a palette drop or the mitigation `m1`.
  - This gives two drawn connections, so a click moves the mark from one to
    the other, and a node delete takes both.
  - It also gives multi-selections, a new node beside a selection, and
    multi-node deletes.
- **`yaml_stale_selection`.**
  - One loaded policy `p`, names `{p, q}`, values `{v1, v2}`, and at most
    three policy objects, so a removed name can be added again.
- **`connect`, `orphan` and `yaml_undrawn_relationship`.**
  - Two nodes, `b` with a capability, and at most two relationships
    (one for the violation runs, which need only one).
  - This gives endpoint drags both ways, requirement drags to either node,
    both listeners bound in both orders, and every relationship kind saved,
    painted and deleted with either node.
  - With two relationships, a node delete removes one while the other's
    paint timer, set inside the same loop, is still due.
- **`renderer` and `renderer_rerun`.**
  - Two nodes, so a selection is empty, one node or both.
  - At most two promises running at a user event (`MaxPromises`).
  - This allows a layout and an alignment together, two alignments of
    different selections, and an align timer that runs before or after its
    promise.
- **`operators`.**
  - Up to two node templates, each with requirements from `{r1, r2}` and
    capabilities from `{c1, c2}`, and up to two relationships.
  - Every response pair and up to two technologies.
  - Every list of up to 4 distinct nodes with every kept subset.
  - This covers shared ids (last writer wins), missing ids, ends that are
    node ids, and adjacent and non-adjacent drops at every position.
- **`modal`.**
  - Two nodes and at most two entries per list (`MaxItems`).
  - Typed ids `{q1, k1, r1, x}`: the first node's requirement, the second
    node's capability, a relationship id, and a fresh id.
  - Edits of the first or second entry, deletes, and duplicate and fresh
    typing all occur.

## Not modelled, and why

- **YAML mode, partly.** `YamlMode` covers the reqcap listener's YAML
  branch, and `yaml_undrawn_relationship` runs it. The PRM-mapping branch
  of `generateNewRelationship` and the YAML requirement reset in
  `updateRelationships` are not modelled. `connect` runs outside YAML mode,
  where a drop on a node element always throws before the loop.
- **Painting details.** Relationship ids, names and policy icons are left
  out. So are the initial dummy connection in `ngAfterViewInit` and
  `hideDependsOnRelations`.
- **Renderer state, partly.**
  - The layout and align directives and the import, threat and YAML modals
    are outside `src/`. They appear only as promises that resolve and modals
    that close.
  - The topology substitution request is not modelled.
  - Diff mode is in `Spec` but not checked against `QuietMeansStored`.
    `layoutTopology`'s promise has no `then` and sets no timer, so when it
    resolves after a saved alignment, the store keeps the aligned positions
    while the nodes are drawn laid out. This is a hazard in `PROJECT.json`.
- **Drawing only.** `openSelector`, `moveNewNode`, `updateNodeAttributes`
  and imports write coordinates, attributes or form fields.
- **YAML policies, partly.** The store subscription fires in the
  constructor, before `entityTypes` is set, and `handleUpdatedYamlPolicies`
  then skips. The component that sets `entityTypes` is not under `src/`, so
  the model starts with `entityTypes.yamlPolicies` equal to the store's
  array. A policy's targets and its type link are left out.
- **Not run as checks.** Six defects seen in the code stay as hazards in
  `PROJECT.json` with a note. Each is plain from one reading of the code,
  so none has its own violation run:
  - `Query` keeps the trailing `&`, because the result of `query.substr` is
    dropped (`faastener.service.ts:125`).
  - A delete of a duplicated id leaves a node on the canvas. This follows
    from `DeletedNodesExactIffNoAdjacentDrops` and the id collision.
  - `deleteRequirement` leaves relationships that start at the requirement
    dangling.
  - A mitigation id may collide. `Canvas` states `StoreIdsUnique`, and TLC
    violates it with `RandomSuffixCollides = TRUE` and `MaxObj = 4`.
  - A plain click after `mod+a` clears `selectedNodes`.
    `PlainClickSelectsNode` is violated in four steps.
  - A relationship drawn from a connector endpoint joins two node
    templates. `buildQueryGenerationRequest` looks both ends up in `reqMap`
    and `capMap`, which hold only requirement and capability ids, so it
    sends such a relationship with undefined source and target
    (`faastener.service.ts:90`).
- **The FaaSTener HTTP calls.** Their lack of a timeout is a hazard with a
  note: an unanswered request is just a state with no next step.

## Plan

1. **Done.** Node sync, selection, palette drag, box selection, delete key,
   and `handleDeletedNodes`.
2. **Done.** Drag sources, both listeners, relationship save, delete and
   painting, with the paint-liveness property and the `Topology` refinement.
3. **Done.** The requirements/capabilities modals and FaaSTener.
4. **Done.** The renderer buttons (`RendererState`), with the
   toggle-back liveness property and the second-run finding.
5. **Done.** Connection marking and the Del key's branch for it, and the
   YAML policies modals with the stale-selection finding.
6. **Open.**
   - The rest of YAML mode: the requirement reset, which would let `RelationshipEndsExist`
     be stated for YAML mode.
   - Composing `ReqCapModal` with the relationship slice of `Canvas`.
   - PRM mapping, whose requests and forms hold no canvas state.
