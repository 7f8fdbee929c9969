---------------------------- MODULE MCSessionStore ----------------------------
(* Instances of SessionStore for TLC.                                      *)
EXTENDS SessionStore

AnyOutput == {"plain", "exit", "unfinished"}
PlainNested == {"plain", "nested"}
==============================================================================
