---------------------------- MODULE MCReqCapModal ----------------------------
(***************************************************************************)
(* Model-checking instance of ReqCapModal: a topology of two node          *)
(* templates, the first with requirement q1, the second with capability   *)
(* k1, and relationship r1 from q1 to k1.  The user may type an id of the *)
(* topology or a fresh one.                                      *)
(***************************************************************************)
EXTENDS ReqCapModal

MCNodeOrder == <<"n1", "n2">>
MCInitialReqs == [n \in {"n1", "n2"} |-> IF n = "n1" THEN <<"q1">> ELSE <<>>]
MCInitialCaps == [n \in {"n1", "n2"} |-> IF n = "n2" THEN <<"k1">> ELSE <<>>]
MCRels == {[id |-> "r1", src |-> "q1", tgt |-> "k1"]}
MCTypedIds == {"q1", "k1", "r1", "x"}

=============================================================================
