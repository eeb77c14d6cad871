---------------------------- MODULE MCKces ----------------------------
(* The life of every document of KCES.  (The formats come first: TLC       *)
(* then knows their values before it looks at the state machine.)          *)
EXTENDS MCKcesFormats, Codec
=============================================================================
