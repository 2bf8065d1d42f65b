----------------------------- MODULE MCAuthBroker -----------------------------
(* Two pairing attempts after one another or at once, on every platform.      *)
EXTENDS AuthBroker
=============================================================================
