------------------------------ MODULE MCCanvas ------------------------------
(***************************************************************************)
(* Model-checking instance of Canvas: node ids are model values.           *)
(***************************************************************************)
EXTENDS Canvas

CONSTANTS a, b, c, m1, m2

\* the topology loaded at start has two nodes
MCInitialIds == <<a, b>>

\* ... and no relationship
MCNoRels == <<>>

\* the two nodes loaded with two relationships: a requirement of a to a
\* capability of b, and a relationship from b to a
MCInitialRels2 == <<[src |-> a, tgt |-> b, tk |-> "cap"], [src |-> b, tgt |-> a, tk |-> "node"]>>

\* the topology the store holds: the ids of its node templates, in order,
\* and its relationship templates
Abstract == INSTANCE Topology WITH
                nodes <- [i \in DOMAIN store |-> idOf[store[i]]],
                rels <- ToSet(relationships)

\* Every step of the canvas changes the store's topology the way Topology
\* allows: a fresh node appended, a relationship between stored nodes saved
\* by a connection listener, or a Del that removes the highlighted nodes
\* together with exactly the relationships drawn at them
\* (handleDeleteKeyEvent, the listeners, the palette and mitigation saves).
CanvasRefinement == Abstract!Spec

=============================================================================
