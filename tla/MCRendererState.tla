--------------------------- MODULE MCRendererState ---------------------------
(***************************************************************************)
(* Two node templates on the canvas, and at most two layout or align       *)
(* promises running when the user acts: enough for a second run to start   *)
(* while the first is running, and for an alignment of a selection next    *)
(* to a node outside it.                                                   *)
(***************************************************************************)
EXTENDS RendererState

MCNodes == {"a", "b"}

=============================================================================
