----------------------------- MODULE Faastener -----------------------------
(***************************************************************************)
(* FaastenerService (services/faastener.service.ts): the request it posts *)
(* to the FaaSTener query generator, and the technology query it opens.    *)
(*                                                                         *)
(* A node template is [id, reqs, caps]: its id and the ids of its          *)
(* requirements and capabilities.  A relationship template is [src, tgt]: *)
(* sourceElement.ref and targetElement.ref, which name a requirement and a *)
(* capability, or two node templates for a connection drawn from a        *)
(* connector endpoint (generateNewRelationship in the canvas).  A string   *)
(* built by `+=` is the sequence of its pieces.  Names, types and         *)
(* properties are copied field by field and left out.                     *)
(***************************************************************************)
EXTENDS Naturals, Sequences, SequencesExt, Folds, TLC

Undefined == "undefined"

\* reqMap / capMap: nt.requirements.forEach(req => reqMap[req.id] = nt.id)
\* for every node template in order, so a later node overwrites an id
RefMap(nodes, field) ==
    FoldLeft(LAMBDA m, nt : [r \in nt[field] |-> nt.id] @@ m, <<>>, nodes)

\* reading a missing key of a plain object gives undefined
Lookup(m, k) == IF k \in DOMAIN m THEN m[k] ELSE Undefined

\* variant: the source end is looked up in the capability map
BuildQueryGenerationRequestSwapped(nodes, rels, selectedNodeTemplateIds) ==
    LET capMap == RefMap(nodes, "caps")
    IN  [nodeTemplates |-> [i \in DOMAIN nodes |-> nodes[i].id],
         relationshipTemplates |->
             [k \in DOMAIN rels |-> [sourceElementRef |-> Lookup(capMap, rels[k].src),
                                     targetElementRef |-> Lookup(capMap, rels[k].tgt)]],
         selectedNode |-> IF selectedNodeTemplateIds = <<>> THEN Undefined
                          ELSE selectedNodeTemplateIds[1]]

\* buildQueryGenerationRequest
BuildQueryGenerationRequest(nodes, rels, selectedNodeTemplateIds) ==
    LET reqMap == RefMap(nodes, "reqs")
        capMap == RefMap(nodes, "caps")
    IN  [nodeTemplates |-> [i \in DOMAIN nodes |-> nodes[i].id],
         relationshipTemplates |->
             [k \in DOMAIN rels |-> [sourceElementRef |-> Lookup(reqMap, rels[k].src),
                                     targetElementRef |-> Lookup(capMap, rels[k].tgt)]],
         selectedNode |-> IF selectedNodeTemplateIds = <<>> THEN Undefined
                          ELSE selectedNodeTemplateIds[1]]

(***************************************************************************)
(* sendToscaModel: post the request, get the technologies from the url    *)
(* the generator answers with, and open the GUI with one `id=` per        *)
(* technology.  A response is "ok", an HTTP error status ("404", "500"),  *)
(* or "null", a response without a body whose field access throws a       *)
(* TypeError.  Every error is caught; only an HttpErrorResponse with       *)
(* status 500 is shown to the user.                                       *)
(***************************************************************************)
\* variant: each technology replaces the query instead of extending it
QueryAssigned(techs) ==
    FoldLeft(LAMBDA q, t : <<"?", "id=", t, "&">>, <<"?">>, techs)

\* query += 'id=' + tech.id + '&' for every technology; the result of
\* query.substr(0, query.length - 1) is dropped
Query(techs) ==
    FoldLeft(LAMBDA q, t : q \o <<"id=", t, "&">>, <<"?">>, techs)

\* the first failing await ends the call in the catch block
SendToscaModel(post, get, techs) ==
    LET failed(r) == [open |-> <<>>, toast |-> r = "500"]
    IN  CASE post # "ok"   -> failed(post)
          [] get # "ok"    -> failed(get)
          [] techs = <<>>  -> [open |-> <<>>, toast |-> FALSE]
          [] OTHER         -> [open |-> <<Query(techs)>>, toast |-> FALSE]

=============================================================================
