---------------------------- MODULE MCWebClient ----------------------------
(* Small instances of WebClient.                                           *)
EXTENDS WebClient
=============================================================================
