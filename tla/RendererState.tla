---------------------------- MODULE RendererState ----------------------------
(***************************************************************************)
(* The renderer buttons of the canvas: setRendererState in                *)
(* canvas/canvas.component.ts, which the store subscription to             *)
(* topologyRendererState calls inside every dispatch that changes it,      *)
(* with the layout and align promises and the 1 ms timers it leaves.      *)
(*                                                                         *)
(* A navbar button press dispatches an action whose reducer toggles the    *)
(* button's flag; setRendererState acts on the first flag set, in the      *)
(* order of its else-if chain, and toggles it back by dispatching the     *)
(* same action again, at once or when the layout or align promise          *)
(* resolves.  A dispatch runs setRendererState synchronously, so the       *)
(* toggle back is a nested call.  The navbar and the reducers are not in  *)
(* the repository: the toggle is what the code's comments say of them.    *)
(*                                                                         *)
(* Node positions are abstracted to the last operation that placed a node: *)
(* "p0" (loaded), "layout", "H" or "V" (aligned).  `dom` is where a node   *)
(* is drawn, `st` the coordinates the store holds for it.                 *)
(***************************************************************************)
EXTENDS Naturals, FiniteSets, Bags, BagsExt

CONSTANTS
    Nodes,        \* ids of the node templates on the canvas
    DiffMode,     \* the diffMode input: the canvas compares two versions
    MaxPromises,  \* bound: layout and align promises running at a user event
    NavbarWhileRunning \* can a navbar button be pressed while a layout or align runs?

ASSUME /\ Nodes # {}
       /\ DiffMode \in BOOLEAN
       /\ MaxPromises \in Nat \ {0}
       /\ NavbarWhileRunning \in BOOLEAN

Buttons == {"layoutButton", "alignHButton", "alignVButton", "importTopologyButton",
            "threatModelingButton", "substituteTopologyButton", "manageYamlPoliciesButton"}
Modals == {"importTopologyModal", "threatModelingModal", "manageYamlPoliciesModal"}
Pos == {"p0", "layout", "H", "V"}

\* a running align call: its mode, nodesToBeAligned, its local
\* leaveNodesAsSelectedAfterLayouting, and whether its promise and its
\* 1 ms timer are still to run
AlignRecords == [mode : {"H", "V"}, nodes : SUBSET Nodes, leave : BOOLEAN,
                 promise : BOOLEAN, timer : BOOLEAN]

VARIABLES
    btn,          \* topologyRendererState.buttonsState
    layouts,      \* layoutNodes promises of setRendererState still running
    plainLayouts, \* layoutNodes promises of layoutTopology still running
    aligns,       \* bag of align calls with a promise or a timer to run
    timers,       \* 1 ms timers of the other setRendererState calls
    modals,       \* modals shown
    selected,     \* ids of selectedNodes
    dom,          \* dom[n]: where node n is drawn
    st,           \* st[n]: the coordinates of node n in the store
    viewInit      \* ngAfterViewInit has run

vars == <<btn, layouts, plainLayouts, aligns, timers, modals, selected, dom, st, viewInit>>

\* the part of the state a setRendererState call changes
Current == [btn |-> btn, layouts |-> layouts, aligns |-> aligns, timers |-> timers, modals |-> modals]

Return(w) ==
    /\ btn' = w.btn /\ layouts' = w.layouts /\ aligns' = w.aligns
    /\ timers' = w.timers /\ modals' = w.modals

\* modal.show()
Show(w, m) == [w EXCEPT !.modals = @ \cup {m}]

\* the trailing setTimeout(.., 1) of every call
Timer(w) == [w EXCEPT !.timers = @ + 1]

(***************************************************************************)
(* setRendererState(rendererState) for the selection `sel` it reads.  A   *)
(* branch that dispatches the toggle back runs the nested call before it   *)
(* goes on.  An align call keeps its timer in its record, as the timer    *)
(* reads the call's leaveNodesAsSelectedAfterLayouting.                   *)
(***************************************************************************)
RECURSIVE SetRendererState(_, _)
SetRendererState(w, sel) ==
    LET b == w.btn
        dispatchToggle(x) == SetRendererState([w EXCEPT !.btn[x] = ~@], sel)
    IN  CASE b["layoutButton"] ->
                Timer([w EXCEPT !.layouts = @ + 1])
          [] b["alignHButton"] \/ b["alignVButton"] ->
                [w EXCEPT !.aligns = BagAdd(@, [mode |-> IF b["alignHButton"] THEN "H" ELSE "V",
                                                nodes |-> IF sel # {} THEN sel ELSE Nodes,
                                                leave |-> sel # {},
                                                promise |-> TRUE, timer |-> TRUE])]
          [] b["importTopologyButton"] ->
                Timer(Show(dispatchToggle("importTopologyButton"), "importTopologyModal"))
          [] b["threatModelingButton"] ->
                Timer(Show(dispatchToggle("threatModelingButton"), "threatModelingModal"))
          [] b["substituteTopologyButton"] ->
                Timer(dispatchToggle("substituteTopologyButton"))
          [] b["manageYamlPoliciesButton"] ->
                Timer(Show(dispatchToggle("manageYamlPoliciesButton"), "manageYamlPoliciesModal"))
          [] OTHER -> Timer(w)

\* updateAllNodes: every node's DOM coordinates are dispatched to the store
UpdateAllNodes(s, d) == d

\* updateSelectedNodes: only the selected nodes'
UpdateSelectedNodes(s, d, sel) == [n \in Nodes |-> IF n \in sel THEN d[n] ELSE s[n]]

\* variant: the timer always updates the selected nodes only
AfterRenderSelectedOnly(leave, s, d, sel) == UpdateSelectedNodes(s, d, sel)

\* the timer's callback (revalidateContainer only repaints)
AfterRender(leave, s, d, sel) ==
    IF leave THEN UpdateSelectedNodes(s, d, sel) ELSE UpdateAllNodes(s, d)

\* the promises still running
Running == layouts + plainLayouts
           + BagCardinality([r \in {x \in DOMAIN aligns : x.promise} |-> aligns[r]])

\* a user event: the 1 ms timers of the last one have run and no modal
\* covers the page
UserIdle ==
    /\ viewInit
    /\ timers = 0 /\ \A r \in DOMAIN aligns : ~r.timer
    /\ modals = {}
    /\ Running < MaxPromises

Init ==
    /\ btn = [b \in Buttons |-> FALSE]
    /\ layouts = 0 /\ plainLayouts = 0
    /\ aligns = EmptyBag
    /\ timers = 0
    /\ modals = {}
    /\ selected = {}
    /\ dom = [n \in Nodes |-> "p0"]
    /\ st = dom
    /\ viewInit = FALSE

\* ngAfterViewInit; in diff mode layoutTopology starts layoutNodes, without a
\* then, and dispatches executeLayout, which toggles layoutButton on
AfterViewInit ==
    /\ ~viewInit
    /\ viewInit' = TRUE
    /\ IF DiffMode
       THEN /\ plainLayouts' = plainLayouts + 1
            /\ Return(SetRendererState([Current EXCEPT !.btn["layoutButton"] = ~@], selected))
       ELSE UNCHANGED <<btn, layouts, plainLayouts, aligns, timers, modals>>
    /\ UNCHANGED <<selected, dom, st>>

\* a navbar button (or showYamlPolicyManagementModal for the YAML policies
\* button) dispatches the action that toggles its flag; the navbar is not in
\* the repository, so whether it is enabled while a promise runs is a constant
PressButton ==
    /\ UserIdle
    /\ NavbarWhileRunning \/ Running = 0
    /\ \E b \in Buttons :
          Return(SetRendererState([Current EXCEPT !.btn[b] = ~@], selected))
    /\ UNCHANGED <<plainLayouts, selected, dom, st, viewInit>>

\* selectElements (a box selection) ends with setSelectedNodes of the nodes
\* it selected; which nodes the box holds is modelled in Canvas
SelectElements ==
    /\ UserIdle
    /\ \E box \in SUBSET Nodes :
          /\ selected' = box
          /\ Return(SetRendererState(Current, box))
    /\ UNCHANGED <<plainLayouts, dom, st, viewInit>>

\* handleNodePressActions on node n: with one other node selected it clears
\* the selection and dispatches setSelectedNodes([n.id]) before it selects n;
\* on an empty selection it selects n; a click outside a multi-selection
\* clears it
HandleNodePressActions ==
    /\ UserIdle
    /\ \E n \in Nodes :
          IF Cardinality(selected) = 1 /\ selected # {n}
          THEN /\ Return(SetRendererState(Current, {}))
               /\ selected' = {n}
          ELSE /\ selected' = IF selected = {} THEN {n}
                              ELSE IF n \in selected THEN selected ELSE {}
               /\ UNCHANGED <<btn, layouts, aligns, timers, modals>>
    /\ UNCHANGED <<plainLayouts, dom, st, viewInit>>

\* closeImportTopology, closeThreatModeling, the YAML policies modal's close
CloseModal ==
    /\ \E m \in modals : modals' = modals \ {m}
    /\ UNCHANGED <<btn, layouts, plainLayouts, aligns, timers, selected, dom, st, viewInit>>

\* the layoutNodes promise of setRendererState resolves with the nodes laid
\* out; its then dispatches executeLayout, toggling layoutButton back
LayoutDone ==
    /\ layouts > 0
    /\ dom' = [n \in Nodes |-> "layout"]
    /\ Return(SetRendererState([Current EXCEPT !.layouts = @ - 1,
                                               !.btn["layoutButton"] = ~@], selected))
    /\ UNCHANGED <<plainLayouts, selected, st, viewInit>>

\* the layoutNodes promise of layoutTopology resolves
PlainLayoutDone ==
    /\ plainLayouts > 0
    /\ plainLayouts' = plainLayouts - 1
    /\ dom' = [n \in Nodes |-> "layout"]
    /\ UNCHANGED <<btn, layouts, aligns, timers, modals, selected, st, viewInit>>

\* an align call's record after one of its two callbacks ran
Settle(b, old, new) ==
    IF new.promise \/ new.timer THEN BagAdd(BagRemove(b, old), new) ELSE BagRemove(b, old)

\* variant: the then callback dispatches executeAlignH whatever the mode
AlignDoneAlwaysH ==
    \E r \in DOMAIN aligns :
       /\ r.promise
       /\ dom' = [n \in Nodes |-> IF n \in r.nodes THEN r.mode ELSE dom[n]]
       /\ LET w == [Current EXCEPT !.aligns = Settle(@, r, [r EXCEPT !.promise = FALSE, !.leave = FALSE])]
          IN  Return(SetRendererState([w EXCEPT !.btn["alignHButton"] = ~@], selected))
       /\ UNCHANGED <<plainLayouts, selected, st, viewInit>>

\* the align promise resolves with its nodes aligned; its then clears
\* leaveNodesAsSelectedAfterLayouting and dispatches executeAlignH or
\* executeAlignV, toggling that button back
AlignDone ==
    \E r \in DOMAIN aligns :
       /\ r.promise
       /\ dom' = [n \in Nodes |-> IF n \in r.nodes THEN r.mode ELSE dom[n]]
       /\ LET w == [Current EXCEPT !.aligns = Settle(@, r, [r EXCEPT !.promise = FALSE, !.leave = FALSE])]
              x == IF r.mode = "H" THEN "alignHButton" ELSE "alignVButton"
          IN  Return(SetRendererState([w EXCEPT !.btn[x] = ~@], selected))
       /\ UNCHANGED <<plainLayouts, selected, st, viewInit>>

\* the 1 ms timer of a call other than align: updateAllNodes
TimerFires ==
    /\ timers > 0
    /\ timers' = timers - 1
    /\ st' = AfterRender(FALSE, st, dom, selected)
    /\ UNCHANGED <<btn, layouts, plainLayouts, aligns, modals, selected, dom, viewInit>>

\* the 1 ms timer of an align call reads its leaveNodesAsSelectedAfterLayouting
AlignTimerFires ==
    \E r \in DOMAIN aligns :
       /\ r.timer
       /\ st' = AfterRender(r.leave, st, dom, selected)
       /\ aligns' = Settle(aligns, r, [r EXCEPT !.timer = FALSE])
       /\ UNCHANGED <<btn, layouts, plainLayouts, timers, modals, selected, dom, viewInit>>

Next ==
    \/ AfterViewInit
    \/ PressButton
    \/ SelectElements
    \/ HandleNodePressActions
    \/ CloseModal
    \/ LayoutDone
    \/ PlainLayoutDone
    \/ AlignDone
    \/ TimerFires
    \/ AlignTimerFires

\* the browser runs due timers and the layout directive resolves its
\* promises; nothing the user does is fair
Fairness ==
    /\ WF_vars(LayoutDone) /\ WF_vars(PlainLayoutDone) /\ WF_vars(AlignDone)
    /\ WF_vars(TimerFires) /\ WF_vars(AlignTimerFires)

Spec == Init /\ [][Next]_vars /\ Fairness

\* the editing canvas: outside diff mode no layoutTopology promise runs
EditNext ==
    \/ AfterViewInit
    \/ PressButton
    \/ SelectElements
    \/ HandleNodePressActions
    \/ CloseModal
    \/ LayoutDone
    \/ AlignDone
    \/ TimerFires
    \/ AlignTimerFires

EditSpec == Init /\ [][EditNext]_vars /\ Fairness

-----------------------------------------------------------------------------
\* nothing of a setRendererState call is left to run
Quiet == Running = 0 /\ timers = 0 /\ aligns = EmptyBag

\* Once every layout and align promise has resolved and every 1 ms timer
\* has run, the store holds the coordinates the nodes are drawn at: the
\* timers of setRendererState save what layoutNodes and align moved, even
\* when an align's timer ran before its promise and saved the selection
\* only.
QuietMeansStored == Quiet => st = dom

\* A renderer button that is on is eventually off again: setRendererState
\* toggles every flag it acts on back, at once or when its promise resolves.
ButtonsEventuallyReset == \A b \in Buttons : btn[b] ~> ~btn[b]

\* While a layout or an alignment runs, setRendererState starts no second
\* one: the navbar's toggle-back comment takes one run per press.
AtMostOneRunning ==
    /\ layouts + plainLayouts <= 1
    /\ BagCardinality([r \in {x \in DOMAIN aligns : x.promise} |-> aligns[r]]) <= 1

=============================================================================
