--------------------------- MODULE MCYamlPolicies ---------------------------
(***************************************************************************)
(* Model-checking instance of YamlPolicies: a topology loaded with one     *)
(* policy p whose type defines a property with default v1; the user may   *)
(* add a policy named p or q and type v1 or v2.                           *)
(***************************************************************************)
EXTENDS YamlPolicies

MCInitialNames == <<"p">>

=============================================================================
