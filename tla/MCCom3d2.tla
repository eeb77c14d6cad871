--------------------------- MODULE MCCom3d2 ---------------------------
(* The life of every document of COM3D2.  (The formats come first: TLC     *)
(* then knows their values before it looks at the state machine.)          *)
EXTENDS MCCom3d2Formats, Codec
=============================================================================
