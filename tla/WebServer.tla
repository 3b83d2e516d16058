------------------------------ MODULE WebServer ------------------------------
(***************************************************************************)
(* The webserver example, src/apps/examples/webserver/webserver_main.c.   *)
(* TASH runs "webserver" with TASH_EXECMD_ASYNC, so every command line is *)
(* a task of its own: webserver_main() creates the thread httptest_cb(),  *)
(* which starts or stops the servers through the two globals http_server  *)
(* and https_server, and joins it.  Commands run concurrently.            *)
(*                                                                         *)
(* The http_server library is not in the repository.  The model keeps     *)
(* what its calls do to the server objects the example holds:             *)
(* http_server_init() takes a free object (or fails) for a port,           *)
(* http_tls_init() may fail, http_server_start() runs an object unless    *)
(* a running one holds its port, http_server_stop() stops it, and         *)
(* http_server_release() frees *server and sets it to NULL.  The          *)
(* callback registrations change nothing the example reads again; what    *)
(* counts is the object they are made on.  A call on NULL or on a freed   *)
(* object is recorded in the ghost misuse.  The build has                 *)
(* CONFIG_NET_SECURITY_TLS when Tls is TRUE and no CONFIG_HW_RSA_SIGN.    *)
(***************************************************************************)
EXTENDS Integers, FiniteSets

CONSTANTS
  Cmds,           \* the shell tasks that may run a webserver command
  Servers,        \* the server objects the library can hand out
  Ops,            \* what argv[1] may say ("none": argc is not 2)
  Tls,            \* CONFIG_NET_SECURITY_TLS
  AllocMayFail,   \* whether http_server_init() or pthread_create() may fail
  TlsMayFail      \* whether http_tls_init() may fail

NULL == "NULL"
ASSUME NULL \notin Servers

VARIABLES
  srv,            \* server object -> "free", "ready", "running" or "stopped"
  port,           \* server object -> the port it was made for
  http_server,    \* the global struct http_server_t *http_server
  https_server,   \* the global struct http_server_t *https_server
  pc,             \* shell task -> where its command is
  misuse          \* (ghost) library calls made on NULL or on a freed object

vars == <<srv, port, http_server, https_server, pc, misuse>>

Idle == "idle"

-----------------------------------------------------------------------------
(* The library calls.  Use(p) is what a call on the pointer p may record. *)
Use(p) == IF p = NULL THEN {"null"} ELSE IF srv[p] = "free" THEN {"freed"} ELSE {}
Holds(s, prt) == srv[s] = "running" /\ port[s] = prt

(* p = http_server_init(prt): a free object, or NULL.                     *)
ServerInit(prt, Set(_)) ==
  \/ \E s \in Servers :
       /\ srv[s] = "free"
       /\ srv' = [srv EXCEPT ![s] = "ready"] /\ port' = [port EXCEPT ![s] = prt]
       /\ Set(s)
  \/ AllocMayFail /\ Set(NULL) /\ UNCHANGED <<srv, port>>

(* http_server_start(p): fails while another running object holds the    *)
(* port; the example prints the failure and goes on.                      *)
ServerStart(p) ==
  /\ misuse' = misuse \cup Use(p)
  /\ srv' = IF p # NULL /\ srv[p] # "free" /\ ~\E s \in Servers : Holds(s, port[p])
            THEN [srv EXCEPT ![p] = "running"] ELSE srv

ServerStop(p) ==
  /\ misuse' = misuse \cup Use(p)
  /\ srv' = IF p # NULL /\ srv[p] = "running" THEN [srv EXCEPT ![p] = "stopped"] ELSE srv

(* http_server_release(&p): frees *p and sets the global to NULL.         *)
ServerRelease(p) ==
  /\ misuse' = misuse \cup Use(p)
  /\ srv' = IF p # NULL THEN [srv EXCEPT ![p] = "free"] ELSE srv

Go(c, to) == pc' = [pc EXCEPT ![c] = to]
Return(c) == Go(c, Idle)

-----------------------------------------------------------------------------
(* httptest_cb's argument check: where a thread for argv[1] goes; "usage" *)
(* prints print_webserver_usage() and returns.                            *)
Entry(op) ==
  CASE op = "start" -> IF Tls THEN "https_init" ELSE "http_init"
    [] op = "stop"  -> "stop_http"
    [] OTHER        -> "usage"

(* webserver_main(): pthread_create() of httptest_cb (a failure prints    *)
(* "fail to start webserver"), which returns at once on a usage error; a  *)
(* thread that returns is joined and the task ends.                       *)
webserver_main(c) ==
  /\ pc[c] = Idle
  /\ \E op \in Ops :
       \/ AllocMayFail /\ UNCHANGED pc
       \/ Entry(op) = "usage" /\ UNCHANGED pc
       \/ Entry(op) # "usage" /\ Go(c, Entry(op))
  /\ UNCHANGED <<srv, port, http_server, https_server, misuse>>

(* start: https_server = http_server_init(443); NULL returns.             *)
StartHttpsInit(c) ==
  /\ pc[c] = "https_init"
  /\ ServerInit(443, LAMBDA p : https_server' = p /\ Go(c, IF p = NULL THEN Idle ELSE "tls_init"))
  /\ UNCHANGED <<http_server, misuse>>

(* http_tls_init(https_server, &ssl_config); a failure returns.           *)
StartTlsInit(c) ==
  /\ pc[c] = "tls_init"
  /\ misuse' = misuse \cup Use(https_server)
  /\ \/ Go(c, "http_init")
     \/ TlsMayFail /\ Return(c)
  /\ UNCHANGED <<srv, port, http_server, https_server>>

(* http_server = http_server_init(80); NULL returns.                      *)
StartHttpInit(c) ==
  /\ pc[c] = "http_init"
  /\ ServerInit(80, LAMBDA p : http_server' = p /\ Go(c, IF p = NULL THEN Idle ELSE "register"))
  /\ UNCHANGED <<https_server, misuse>>

(* The http_server_register_cb() calls and the websocket callbacks, on     *)
(* https_server and then http_server as the globals are now.              *)
StartRegister(c) ==
  /\ pc[c] = "register"
  /\ misuse' = misuse \cup (IF Tls THEN Use(https_server) ELSE {}) \cup Use(http_server)
  /\ Go(c, IF Tls THEN "start_https" ELSE "start_http")
  /\ UNCHANGED <<srv, port, http_server, https_server>>

StartHttps(c) ==
  /\ pc[c] = "start_https"
  /\ ServerStart(https_server) /\ Go(c, "start_http")
  /\ UNCHANGED <<port, http_server, https_server>>

StartHttp(c) ==
  /\ pc[c] = "start_http"
  /\ ServerStart(http_server) /\ Return(c)
  /\ UNCHANGED <<port, http_server, https_server>>

(* stop: http_server_stop(http_server), then https_server.                *)
StopHttp(c) ==
  /\ pc[c] = "stop_http"
  /\ ServerStop(http_server) /\ Go(c, IF Tls THEN "stop_https" ELSE "deregister")
  /\ UNCHANGED <<port, http_server, https_server>>

StopHttps(c) ==
  /\ pc[c] = "stop_https"
  /\ ServerStop(https_server) /\ Go(c, "deregister")
  /\ UNCHANGED <<port, http_server, https_server>>

(* The http_server_deregister_cb() calls on https_server and http_server. *)
StopDeregister(c) ==
  /\ pc[c] = "deregister"
  /\ misuse' = misuse \cup (IF Tls THEN Use(https_server) ELSE {}) \cup Use(http_server)
  /\ Go(c, "release_http")
  /\ UNCHANGED <<srv, port, http_server, https_server>>

ReleaseHttp(c) ==
  /\ pc[c] = "release_http"
  /\ ServerRelease(http_server) /\ http_server' = NULL
  /\ Go(c, IF Tls THEN "release_https" ELSE "sleep")
  /\ UNCHANGED <<port, https_server>>

ReleaseHttps(c) ==
  /\ pc[c] = "release_https"
  /\ ServerRelease(https_server) /\ https_server' = NULL
  /\ Go(c, "sleep")
  /\ UNCHANGED <<port, http_server>>

(* sleep(5) for the requests in progress, "webserver end", return.        *)
StopEnd(c) ==
  /\ pc[c] = "sleep"
  /\ Return(c)
  /\ UNCHANGED <<srv, port, http_server, https_server, misuse>>

Init ==
  /\ srv = [s \in Servers |-> "free"]
  /\ port = [s \in Servers |-> 0]
  /\ http_server = NULL /\ https_server = NULL
  /\ pc = [c \in Cmds |-> Idle]
  /\ misuse = {}

Next ==
  \E c \in Cmds :
    \/ webserver_main(c)
    \/ StartHttpsInit(c) \/ StartTlsInit(c) \/ StartHttpInit(c) \/ StartRegister(c)
    \/ StartHttps(c) \/ StartHttp(c)
    \/ StopHttp(c) \/ StopHttps(c) \/ StopDeregister(c)
    \/ ReleaseHttp(c) \/ ReleaseHttps(c) \/ StopEnd(c)

Spec == Init /\ [][Next]_vars

-----------------------------------------------------------------------------
TypeOK ==
  /\ srv \in [Servers -> {"free", "ready", "running", "stopped"}]
  /\ port \in [Servers -> {0, 80, 443}]
  /\ http_server \in Servers \cup {NULL} /\ https_server \in Servers \cup {NULL}
  /\ misuse \subseteq {"null", "freed"}

(* "webserver stop" can only stop and release what the two globals point  *)
(* to, so every server object the example holds, running or not, must be  *)
(* one of them; otherwise it runs, and keeps its port, for good.           *)
ServersReachable ==
  \A s \in Servers : srv[s] # "free" => s \in {http_server, https_server}

(* No library call of the example is made on NULL or on a server object    *)
(* another command has already released.                                   *)
NoStaleServerUse == misuse = {}
=============================================================================
