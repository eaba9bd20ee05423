------------------------------ MODULE Topology ------------------------------
(***************************************************************************)
(* What the topology modeler promises of the topology it edits, whatever  *)
(* the user does on the canvas: node templates with unique ids, added one *)
(* at a time; relationship templates between node templates of the       *)
(* topology, an endpoint connection never from a node to itself; and a    *)
(* delete that takes the relationships of the deleted node templates with *)
(* them and no other, or of a single relationship.  Canvas is shown to implement it (CanvasRefinement  *)
(* in MCCanvas).                                                          *)
(***************************************************************************)
EXTENDS Sequences, SequencesExt

CONSTANTS NodeIds, InitialIds, InitialRels

VARIABLES nodes, rels

vars == <<nodes, rels>>

NodeSet == ToSet(nodes)

Init ==
    /\ nodes = InitialIds
    /\ rels = ToSet(InitialRels)

\* a node template with a fresh id joins the end of the topology
AddNode ==
    \E n \in NodeIds \ NodeSet :
        /\ nodes' = Append(nodes, n)
        /\ UNCHANGED rels

\* a relationship between node templates of the topology, to another node
\* or to a capability
Connect ==
    \E r \in [src : NodeSet, tgt : NodeSet, tk : {"node", "cap"}] :
        /\ r.tk = "node" => r.src # r.tgt
        /\ rels' = rels \cup {r}
        /\ UNCHANGED nodes

\* some node templates leave, with exactly the relationships that touch them
DeleteNodes ==
    \E gone \in SUBSET NodeSet \ {{}} :
        /\ nodes' = SelectSeq(nodes, LAMBDA n : n \notin gone)
        /\ rels' = {r \in rels : {r.src, r.tgt} \cap gone = {}}

\* one relationship leaves, its node templates stay
DeleteRelationship ==
    \E r \in rels :
        /\ rels' = rels \ {r}
        /\ UNCHANGED nodes

Next == AddNode \/ Connect \/ DeleteNodes \/ DeleteRelationship

Spec == Init /\ [][Next]_vars

=============================================================================
