---------------------------- MODULE MCDiagramApi ----------------------------
(* DiagramApi for TLC: tabs in the editor and a script on /api/diagrams, with *)
(* one device that the canvases show and that may be deleted.                 *)
EXTENDS DiagramApi, TLC

CONSTANTS a, b, d1

MCDevices == {d1}
MCCanvases == {{d1}}

MCSymmetry == Permutations({a, b})
=============================================================================
