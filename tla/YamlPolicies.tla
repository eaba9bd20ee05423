---------------------------- MODULE YamlPolicies ----------------------------
(***************************************************************************)
(* The YAML policies modals of the canvas (the YAML policy methods of     *)
(* canvas/canvas.component.ts and the manageYamlPoliciesButton branch of   *)
(* setRendererState): the topology's policies in the store, the table the *)
(* manage modal shows, the selected policy and the add-policy modal.      *)
(*                                                                         *)
(* A policy is an object: `pols` holds the object ids of the store array   *)
(* currentJsonTopology.policies, which handleUpdatedYamlPolicies also     *)
(* assigns to entityTypes.yamlPolicies, so both are one variable here.    *)
(* `name` and `props` are the fields of the objects.  The properties map  *)
(* of a policy is abstracted to the value of one key, or NoProps for the  *)
(* empty map ({ properties: {} } of a new policy).  selectedYamlPolicy is *)
(* a reference to an object, as in the code, so it may point to an object *)
(* the store no longer holds.                                             *)
(*                                                                         *)
(* The changeYamlPolicies reducer and the modal templates are not in the   *)
(* repository: the reducer replaces the policies array with the one it is *)
(* given, and a modal covers the page.  InheritanceUtils is not in the    *)
(* repository either: the effective properties of a policy are its own    *)
(* value, or the type's default when it has none and the type defines    *)
(* the key.                                                                *)
(***************************************************************************)
EXTENDS Naturals, Sequences, SequencesExt

CONSTANTS
    Names,                \* policy names the user may type
    Vals,                 \* values the user may type into a property textarea
    DefaultVal,           \* the policy type's default value of the key
    TypeDefinesProperty,  \* does the policy type define the key?
    InitialNames,         \* names of the topology's policies when loaded
    MaxPol                \* bound: policy objects created

ASSUME /\ InitialNames \in Seq(Names)
       /\ DefaultVal \in Vals
       /\ TypeDefinesProperty \in BOOLEAN
       /\ MaxPol \in Nat /\ MaxPol >= Len(InitialNames)

Obj == 1..MaxPol
NoObj == 0
NoProps == "noProps"
NoName == "noName"

VARIABLES
    pols,        \* object ids of the store's policies, in order
    name,        \* name[o]: policy o's name
    props,       \* props[o]: policy o's properties.properties
    nextPol,     \* policy objects created so far
    selected,    \* selectedYamlPolicy (NoObj for undefined)
    table,       \* copyOfYamlPolicies: the names of its rows
    manageOpen,  \* manageYamlPoliciesModal shown
    addOpen      \* addYamlPolicyModal shown

vars == <<pols, name, props, nextPol, selected, table, manageOpen, addOpen>>

TypeOK ==
    /\ pols \in Seq(Obj)
    /\ name \in [Obj -> Names \cup {NoName}]
    /\ props \in [Obj -> Vals \cup {NoProps}]
    /\ nextPol \in 0..MaxPol
    /\ selected \in Obj \cup {NoObj}
    /\ table \in Seq(Names)
    /\ manageOpen \in BOOLEAN /\ addOpen \in BOOLEAN

\* getYamlPoliciesTableData: one row per policy
GetYamlPoliciesTableData(nm, ps) == [i \in DOMAIN ps |-> nm[ps[i]]]

\* InheritanceUtils.getEffectivePropertiesOfTemplateElement
EffectiveProperties(p) ==
    IF p = NoProps /\ TypeDefinesProperty THEN DefaultVal ELSE p

\* the manage modal is in front and no add modal covers it
ManageInFront == manageOpen /\ ~addOpen

Init ==
    /\ pols = [i \in 1..Len(InitialNames) |-> i]
    /\ name = [o \in Obj |-> IF o <= Len(InitialNames) THEN InitialNames[o] ELSE NoName]
    /\ props = [o \in Obj |-> NoProps]
    /\ nextPol = Len(InitialNames)
    /\ selected = NoObj
    /\ table = <<>>
    /\ manageOpen = FALSE /\ addOpen = FALSE

\* setRendererState, called by the renderer-state subscription, with
\* manageYamlPoliciesButton set (pressed on the navbar or by
\* showYamlPolicyManagementModal): toggles the button off, rebuilds the
\* table and shows the modal
ShowManageYamlPolicies ==
    /\ ~manageOpen
    /\ table' = GetYamlPoliciesTableData(name, pols)
    /\ manageOpen' = TRUE
    /\ UNCHANGED <<pols, name, props, nextPol, selected, addOpen>>

\* the manage modal is closed; selectedYamlPolicy is kept
HideManageModal ==
    /\ ManageInFront
    /\ manageOpen' = FALSE
    /\ UNCHANGED <<pols, name, props, nextPol, selected, table, addOpen>>

\* handleAddNewYamlPolicyClick
HandleAddNewYamlPolicyClick ==
    /\ ManageInFront
    /\ addOpen' = TRUE
    /\ UNCHANGED <<pols, name, props, nextPol, selected, table, manageOpen>>

\* the add modal is closed without adding
HideAddModal ==
    /\ addOpen
    /\ addOpen' = FALSE
    /\ UNCHANGED <<pols, name, props, nextPol, selected, table, manageOpen>>

\* addNewYamlPolicy with a name and a policy type: a duplicate name or a
\* missing type only warns; otherwise a new policy with empty properties is
\* appended, changeYamlPolicies dispatched (handleUpdatedYamlPolicies runs in
\* the dispatch and rebuilds the table) and the add modal hidden
AddNewYamlPolicy ==
    /\ addOpen
    /\ nextPol < MaxPol
    /\ \E n \in Names \ {name[pols[i]] : i \in DOMAIN pols} :
          LET o == nextPol + 1
              ps == Append(pols, o)
          IN  /\ pols' = ps
              /\ name' = [name EXCEPT ![o] = n]
              /\ props' = [props EXCEPT ![o] = NoProps]
              /\ nextPol' = o
              /\ table' = GetYamlPoliciesTableData(name', ps)
              /\ addOpen' = FALSE
    /\ UNCHANGED <<selected, manageOpen>>

\* handleRemoveYamlPolicyClick on a row: the policies without that name are
\* dispatched; selectedYamlPolicy is left as it is
HandleRemoveYamlPolicyClick ==
    /\ ManageInFront
    /\ \E i \in DOMAIN table :
          LET ps == SelectSeq(pols, LAMBDA o : name[o] # table[i])
          IN  /\ pols' = ps
              /\ table' = GetYamlPoliciesTableData(name, ps)
    /\ UNCHANGED <<name, props, nextPol, selected, manageOpen, addOpen>>

\* handleYamlPolicySelected on a row: selects the first policy of that name
\* and replaces its properties, in place, by the effective ones (an unknown
\* name leaves undefined selected and throws)
HandleYamlPolicySelected ==
    /\ ManageInFront
    /\ \E i \in DOMAIN table :
          LET k == SelectInSeq(pols, LAMBDA o : name[o] = table[i])
          IN  IF k = 0
              THEN selected' = NoObj /\ UNCHANGED props
              ELSE /\ selected' = pols[k]
                   /\ props' = [props EXCEPT ![pols[k]] = EffectiveProperties(@)]
    /\ UNCHANGED <<pols, name, nextPol, table, manageOpen, addOpen>>

\* savePolicyProperties: the values of the textareas, shown while the
\* selected policy has properties, are written into that policy object
SavePolicyProperties ==
    /\ ManageInFront
    /\ selected # NoObj
    /\ props[selected] # NoProps
    /\ \E v \in Vals : props' = [props EXCEPT ![selected] = v]
    /\ UNCHANGED <<pols, name, nextPol, selected, table, manageOpen, addOpen>>

Next ==
    \/ ShowManageYamlPolicies
    \/ HideManageModal
    \/ HandleAddNewYamlPolicyClick
    \/ HideAddModal
    \/ AddNewYamlPolicy
    \/ HandleRemoveYamlPolicyClick
    \/ HandleYamlPolicySelected
    \/ SavePolicyProperties

Spec == Init /\ [][Next]_vars

-----------------------------------------------------------------------------
\* The properties typed into the manage modal are saved to the topology:
\* no step of savePolicyProperties (or of any handler) changes the
\* properties of a policy object the store no longer holds.
EditsReachTopology ==
    [][\A o \in Obj : props'[o] # props[o] => o \in ToSet(pols)]_vars

=============================================================================
