-------------------------- MODULE CanvasAlgorithms --------------------------
(***************************************************************************)
(* Pure list algorithms of the topology modeler canvas                     *)
(* (canvas.component.ts), written as operators over sequences so that      *)
(* they can be compared with a reference definition on bounded inputs.     *)
(*                                                                         *)
(* A node template is an object; `id` maps an object to its template id.   *)
(* Two distinct objects may carry the same id.                             *)
(***************************************************************************)
EXTENDS Naturals, Sequences, SequencesExt

(***************************************************************************)
(* handleDeletedNodes: `allNodeTemplates.forEach(node => ...)` where the   *)
(* callback splices, out of the array being iterated, the first entry      *)
(* whose id equals that of a node the store no longer holds.               *)
(* Array.prototype.forEach fixes the length `len` when it starts, visits   *)
(* index k only while k is still inside the (shrinking) array, and does    *)
(* not revisit an element shifted down by a splice.                        *)
(***************************************************************************)
\* variant: splice(indexOfNode + 1, 1), one past the node found
RECURSIVE ForEachSpliceOnePast(_, _, _, _, _)
ForEachSpliceOnePast(arr, k, len, keep, id) ==
    IF k > len \/ k > Len(arr)
    THEN arr
    ELSE IF id[arr[k]] \in keep
         THEN ForEachSpliceOnePast(arr, k + 1, len, keep, id)
         ELSE LET indexOfNode == SelectInSeq(arr, LAMBDA o : id[o] = id[arr[k]])
              IN  ForEachSpliceOnePast(RemoveAt(arr, indexOfNode + 1), k + 1, len, keep, id)

RECURSIVE ForEachSpliceMissing(_, _, _, _, _)
ForEachSpliceMissing(arr, k, len, keep, id) ==
    IF k > len \/ k > Len(arr)
    THEN arr
    ELSE IF id[arr[k]] \in keep
         THEN ForEachSpliceMissing(arr, k + 1, len, keep, id)
         ELSE LET indexOfNode == SelectInSeq(arr, LAMBDA o : id[o] = id[arr[k]])
              IN  ForEachSpliceMissing(RemoveAt(arr, indexOfNode), k + 1, len, keep, id)

HandleDeletedNodes(nodes, storeIds, id) ==
    ForEachSpliceMissing(nodes, 1, Len(nodes), storeIds, id)

(***************************************************************************)
(* What handleDeletedNodes is for: keep exactly the nodes whose id the     *)
(* store still holds, in their order.                                      *)
(***************************************************************************)
KeepStoredNodes(nodes, storeIds, id) ==
    SelectSeq(nodes, LAMBDA o : id[o] \in storeIds)

(***************************************************************************)
(* getNodeByID: the first node with the id, or undefined (0).              *)
(***************************************************************************)
GetNodeByID(nodes, nid, id) ==
    LET i == SelectInSeq(nodes, LAMBDA o : id[o] = nid)
    IN  IF i = 0 THEN 0 ELSE nodes[i]

(***************************************************************************)
(* arrayContainsNode: `nodes.some(node => node && node.id === id)`; the    *)
(* undefined entry 0 never matches.                                        *)
(***************************************************************************)
ArrayContainsNode(nodes, nid, id) ==
    \E i \in DOMAIN nodes : nodes[i] # 0 /\ id[nodes[i]] = nid

=============================================================================
