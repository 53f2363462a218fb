----------------------------- MODULE MCSqlText -----------------------------
(* The scanners on all texts over the alphabet of the configuration.         *)
EXTENDS SqlText
=============================================================================
