----------------------------- MODULE MCOperators -----------------------------
(***************************************************************************)
(* Bounded checks of the pure operators: FaastenerService's request and   *)
(* query, and the canvas' handleDeletedNodes.  Every input is an initial  *)
(* state: topologies of up to two node templates and two relationships,  *)
(* every pair of responses and technology list, and every displayed node  *)
(* list with every set of ids the store still holds.                      *)
(***************************************************************************)
EXTENDS Faastener, CanvasAlgorithms, FiniteSets

NodeIds == {"n1", "n2"}
ReqIds == {"r1", "r2"}
CapIds == {"c1", "c2"}
Techs == {"t1", "t2"}
Responses == {"ok", "404", "500", "null"}

\* bound: at most MaxLen node templates, relationships and technologies
MaxLen == 2

SeqsUpTo(S) == UNION {[1..n -> S] : n \in 0..MaxLen}
NodeTemplates == [id : NodeIds, reqs : SUBSET ReqIds, caps : SUBSET CapIds]
Topologies == {ns \in SeqsUpTo(NodeTemplates) :
                  \A i, j \in DOMAIN ns : i # j => ns[i].id # ns[j].id}
\* a relationship starts at a requirement or, drawn from a connector
\* endpoint, at a node template, and ends at a capability or a node template
Relationships == [src : ReqIds \cup NodeIds, tgt : CapIds \cup NodeIds]

\* handleDeletedNodes inputs: lists of distinct nodes of length at most
\* MaxNodes (ids are the objects themselves, as in a store with unique ids)
MaxNodes == 4
Objs == 1..MaxNodes
Ident == [o \in Objs |-> o]
NodeLists == UNION {[1..n -> Objs] : n \in 0..MaxNodes}
DistinctLists == {s \in NodeLists : Cardinality(ToSet(s)) = Len(s)}

VARIABLES
    nodes, rels, sel,    \* buildQueryGenerationRequest's topology and selection
    post, get, techs,    \* sendToscaModel's responses and technologies
    displayed, storeIds  \* handleDeletedNodes' allNodeTemplates and store ids

vars == <<nodes, rels, sel, post, get, techs, displayed, storeIds>>

NoRequest == nodes = <<>> /\ rels = <<>> /\ sel = <<>>
NoQuery == post = "ok" /\ get = "ok" /\ techs = <<>>
NoDeletion == displayed = <<>> /\ storeIds = {}

RequestInit ==
    /\ nodes \in Topologies
    /\ rels \in SeqsUpTo(Relationships)
    /\ sel \in SeqsUpTo(NodeIds) /\ Len(sel) <= 1
    /\ NoQuery /\ NoDeletion

QueryInit ==
    /\ post \in Responses
    /\ get \in Responses
    /\ techs \in SeqsUpTo(Techs)
    /\ NoRequest /\ NoDeletion

DeletedNodesInit ==
    /\ displayed \in DistinctLists
    /\ storeIds \in SUBSET Objs
    /\ NoRequest /\ NoQuery

\* every input is an initial state, and nothing changes it
Spec == (RequestInit \/ QueryInit \/ DeletedNodesInit) /\ [][UNCHANGED vars]_vars

Request == BuildQueryGenerationRequest(nodes, rels, sel)
Outcome == SendToscaModel(post, get, techs)

\* the node templates of the topology holding ref as a requirement or capability
Holders(ref, field) == {nodes[i].id : i \in {j \in DOMAIN nodes : ref \in nodes[j][field]}}

\* reading a query the way the GUI does: the value after every `id=`
IdsInQuery(q) ==
    LET at == SelectSeq([i \in DOMAIN q |-> i], LAMBDA i : i > 1 /\ q[i - 1] = "id=")
    IN  [j \in DOMAIN at |-> q[at[j]]]

\* Each relationship is sent with the node template that holds its source
\* requirement and the one that holds its target capability: one of the
\* holders, undefined exactly when no node holds the id, and the holder
\* itself when it is the only one (reqMap and capMap of
\* buildQueryGenerationRequest).
RelationshipEndsResolveToOwners ==
    \A k \in DOMAIN rels :
        LET sent == Request.relationshipTemplates[k]
            ok(v, hs) == /\ (v = Undefined) <=> (hs = {})
                         /\ hs # {} => v \in hs
        IN  /\ ok(sent.sourceElementRef, Holders(rels[k].src, "reqs"))
            /\ ok(sent.targetElementRef, Holders(rels[k].tgt, "caps"))

\* sendToscaModel opens the GUI exactly when both requests succeed and
\* technologies were found, and the query it opens names exactly those
\* technologies, in order (the `query +=` loop).
QueryNamesTechnologies ==
    /\ (Outcome.open # <<>>) <=> (post = "ok" /\ get = "ok" /\ techs # <<>>)
    /\ \A i \in DOMAIN Outcome.open : IdsInQuery(Outcome.open[i]) = techs

\* a node of the displayed list the store no longer holds
Missing(i) == displayed[i] \notin storeIds

\* handleDeletedNodes removes exactly the nodes the store dropped if and only
\* if no two dropped nodes are neighbours in allNodeTemplates: the splice
\* inside forEach shifts the next node onto the index just visited, so a
\* dropped node right after another dropped node is never looked at.
DeletedNodesExactIffNoAdjacentDrops ==
    (HandleDeletedNodes(displayed, storeIds, Ident) = KeepStoredNodes(displayed, storeIds, Ident))
        <=> ~\E i \in 1..(Len(displayed) - 1) : Missing(i) /\ Missing(i + 1)

=============================================================================
