---------------------------- MODULE MCWebSession ----------------------------
(***************************************************************************)
(* WebSession for TLC: two users share the tab; two slots let an effect    *)
(* overlap another one or a login.                                         *)
(***************************************************************************)
EXTENDS WebSession

=============================================================================
