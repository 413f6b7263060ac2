---------------------------- MODULE MCAppSession ----------------------------
(* Instances of AppSession for TLC: an Android and an iOS app, with a few  *)
(* user and AppState events.                                               *)
EXTENDS AppSession
=============================================================================
