---------------------------- MODULE MCSharedServer ----------------------------
(* Instances of SharedServer.                                                *)
EXTENDS SharedServer
===============================================================================
