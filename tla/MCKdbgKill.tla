----------------------------- MODULE MCKdbgKill -----------------------------
(* Instances of KdbgKill: the idle task and two pids, names that agree in  *)
(* their first NameSize characters, and command lines that reach every    *)
(* branch of kdbg_kill() and kdbg_killall().                              *)
EXTENDS KdbgKill

MCPids == {0, 1, 2}
MCNames == {"worker1", "worker2"}
(* Well-formed command lines: lists, usage errors, signals by name and    *)
(* number, pids in decimal, killall by a name and by a prefix, and SIGKILL *)
(* to the idle kernel thread.                                              *)
MCCommands ==
  { <<"kill", "-l">>, <<"kill", "9">>, <<"kill", "-9">>, <<"kill", "-SIGFOO", "1">>,
    <<"kill", "-sigusr1", "1">>, <<"kill", "-9", "1">>, <<"kill", "-9", "2">>,
    <<"kill", "-9", "x">>, <<"kill", "-7", "1">>,
    <<"killall", "-l">>, <<"killall", "-9", "worker">>, <<"killall", "-SIGUSR2", "worker2">>,
    <<"killall", "-5", "nosuch">>, <<"kill", "-9", "0">>, <<"killall", "-9", "Idle">> }
(* A command line with no argument.                                       *)
MCBareCommands == MCCommands \cup {<<"kill">>}
(* A pid past the range of pid_t.                                         *)
MCWideCommands == MCCommands \cup {<<"kill", "-9", "65537">>}
=============================================================================
