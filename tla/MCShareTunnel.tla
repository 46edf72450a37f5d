---------------------------- MODULE MCShareTunnel ----------------------------
(***************************************************************************)
(* The tunnel supervisor with small delays: three retries, after one, two    *)
(* and three ticks, and a budget that is new once a tunnel has run for three *)
(* ticks, so that the back-off, its cap, the spent budget and the reset all  *)
(* occur.                                                                    *)
(***************************************************************************)
EXTENDS ShareTunnel
================================================================================
