----------------------------- MODULE MCSession -----------------------------
(* Session.tla on small instances; the bounds are in the configurations.    *)
EXTENDS Session
=============================================================================
