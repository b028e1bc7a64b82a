-------------------------- MODULE MCTopologyEditor --------------------------
(* TopologyEditor for TLC: the documents a client may send. *)
EXTENDS TopologyEditor, TLC

CONSTANTS a, b, d1, d2

\* The inventory starts with one device; the other id is left for a device
\* that is created later or recreated from a ghost.
MCInitialDevices == {d1}
MCDevices == {d1, d2}
MCCanvases == {{}, {d1}}
\* Where documents only have to tell "empty" from "not empty": a topology that
\* starts without a layout supplies the empty one.
MCOneCanvas == {{d1}}

MCSymmetry == Permutations({a, b})
=============================================================================
