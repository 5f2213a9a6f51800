--------------------------- MODULE MCSelectEngine ---------------------------
(* Instances of SelectEngine for TLC.                                      *)
EXTENDS SelectEngine, TLC
=============================================================================
