---------------------------- MODULE MCMctpServer ----------------------------
(***************************************************************************)
(* Two clients, room for one request and one listener, two handles, so    *)
(* that handles are reused and the table of deferred calls gets full.      *)
(***************************************************************************)
EXTENDS MctpServer
====
