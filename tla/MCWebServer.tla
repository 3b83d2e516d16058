----------------------------- MODULE MCWebServer -----------------------------
(* The webserver example on a TLS build: two shell tasks, each of which   *)
(* may type "webserver start", "webserver stop", another word, or no       *)
(* argument, any number of times; three server objects, enough for one    *)
(* running pair and a third start.                                         *)
EXTENDS WebServer

MCOps == {"start", "stop", "restart", "none"}
=============================================================================
