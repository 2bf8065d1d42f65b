-------------------------- MODULE MCDiscordPresence --------------------------
(* A small instance of the Discord presence service: the throttle takes two  *)
(* units, a health update three, the longest backoff two, a connect up to    *)
(* one.                                                                      *)
EXTENDS DiscordPresence
=============================================================================
