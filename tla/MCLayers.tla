------------------------------ MODULE MCLayers ------------------------------
(* A screen of a few rows: windows overlap, and are dragged over its edges. *)
EXTENDS Layers

Sizes == <<Height, 1, 2, 2, 2, 1>>
Places == <<0, 0, 1, 1, 0, 2>>
=============================================================================
