------------------------------ MODULE KdbgKill ------------------------------
(***************************************************************************)
(* The shell commands kill and killall of                                 *)
(* src/apps/system/utils/kdbg_kill.c: argument checks, find_signal(),      *)
(* send_signal() and the killall handler run by sched_foreach().  The      *)
(* shell task runs a command without being preempted by the model's other *)
(* tasks, and sched_foreach() walks the task list with interrupts         *)
(* disabled, except where send_signal() blocks: SIGKILL to a pthread      *)
(* cancels it and pthread_join()s it, and while the shell waits the other *)
(* tasks run, exit and take free pids.  Arguments are strings; the numbers *)
(* in them are read with strtol(..., 0) as the code does.                  *)
(***************************************************************************)
EXTENDS Integers, SequencesExt

CONSTANTS
  Pids,         \* pids of the task table (all > 0)
  Names,        \* task names
  Commands,     \* command lines typed, argv[0] included
  PidBits,      \* width of pid_t
  NameSize      \* CONFIG_TASK_NAME_SIZE

TTypes == {"TASK", "PTHREAD", "KERNEL"}
OK == 0
ERROR == -1

(* kdbg_sig[]: the signals this build defines, in table order.            *)
kdbg_sig ==
  << [signame |-> "SIGUSR1", signo |-> 1], [signame |-> "SIGUSR2", signo |-> 2],
     [signame |-> "SIGALRM", signo |-> 3], [signame |-> "SIGCHLD", signo |-> 4],
     [signame |-> "SIGPOLL", signo |-> 5], [signame |-> "SIGKILL", signo |-> 9],
     [signame |-> "SIGCONDTIMEDOUT", signo |-> 16],
     [signame |-> "SIGWORK", signo |-> 17] >>
SIGKILL == 9

VARIABLES
  tcb,      \* the task table: alive, name (truncated to NameSize), type
  sig,      \* (ghost) signals delivered by the last command: <<pid, signo>>
  last,     \* (ghost) the last command line and what it returned
  fault,    \* (ghost) the last command dereferenced a NULL argument
  sh        \* the shell task: where its command is, and the command's locals

-----------------------------------------------------------------------------
(* Characters of a C string; past its end is the terminating NUL ("").    *)
Ch(s, i) == IF i <= Len(s) THEN SubSeq(s, i, i) ELSE ""
From(s, i) == IF i <= Len(s) THEN SubSeq(s, i, Len(s)) ELSE ""
DecDigits == {"0", "1", "2", "3", "4", "5", "6", "7", "8", "9"}
HexLow == "0123456789abcdef"
HexUp == "0123456789ABCDEF"
Lower == "abcdefghijklmnopqrstuvwxyz"
Upper == "ABCDEFGHIJKLMNOPQRSTUVWXYZ"
(* The value of character c as a digit, 99 if it is none.                 *)
DigitVal(c) ==
  LET k == {i \in 1 .. 16 : c # "" /\ (Ch(HexLow, i) = c \/ Ch(HexUp, i) = c)}
  IN  IF k = {} THEN 99 ELSE (CHOOSE i \in k : TRUE) - 1

(* strtol(s, &end, 0) for a string that starts with a digit: "0x" means   *)
(* hexadecimal, a leading "0" octal, anything else decimal; it stops at    *)
(* the first character that is not a digit of the base.                  *)
RECURSIVE Accum(_, _, _, _)
Accum(s, i, base, acc) ==
  IF DigitVal(Ch(s, i)) < base THEN Accum(s, i + 1, base, acc * base + DigitVal(Ch(s, i)))
  ELSE acc
strtol0(s) ==
  IF Ch(s, 1) = "0" /\ Ch(s, 2) \in {"x", "X"} /\ DigitVal(Ch(s, 3)) < 16
  THEN Accum(s, 3, 16, 0)
  ELSE IF Ch(s, 1) = "0" THEN Accum(s, 1, 8, 0) ELSE Accum(s, 1, 10, 0)

(* The conversion of a long to pid_t keeps the low PidBits bits.          *)
ToPid(v) == LET m == 2^PidBits IN ((v + m \div 2) % m) - m \div 2

(* strcasecmp(a, b) = 0.                                                  *)
UpCh(c) == IF \E i \in 1 .. 26 : Ch(Lower, i) = c
           THEN Ch(Upper, CHOOSE i \in 1 .. 26 : Ch(Lower, i) = c) ELSE c
SameNoCase(a, b) ==
  Len(a) = Len(b) /\ \A i \in 1 .. Len(a) : UpCh(Ch(a, i)) = UpCh(Ch(b, i))

(* Mutant: a signal number is taken without looking it up in kdbg_sig.   *)
find_signal_unchecked(ptr) ==
  IF Ch(ptr, 2) \in DecDigits THEN strtol0(From(ptr, 2))
  ELSE LET hits == {i \in 1 .. Len(kdbg_sig) : SameNoCase(From(ptr, 2), kdbg_sig[i].signame)}
       IN  IF hits = {} THEN ERROR ELSE kdbg_sig[CHOOSE i \in hits : \A j \in hits : i <= j].signo

(* find_signal(ptr): "-<number>" or "-<name>" of a kdbg_sig entry, else   *)
(* ERROR.                                                                 *)
find_signal(ptr) ==
  LET body == From(ptr, 2)
      hits == IF Ch(ptr, 2) \in DecDigits
              THEN {i \in 1 .. Len(kdbg_sig) : kdbg_sig[i].signo = strtol0(body)}
              ELSE {i \in 1 .. Len(kdbg_sig) : SameNoCase(body, kdbg_sig[i].signame)}
  IN  IF hits = {} THEN ERROR ELSE kdbg_sig[CHOOSE i \in hits : \A j \in hits : i <= j].signo

(* send_signal(pid, signo) on task table t: the possible results, the     *)
(* table after it, the signals delivered, and the pid pthread_join() then *)
(* waits for (NoJoin if it returns at once).  SIGKILL looks the task up    *)
(* (ESRCH if none): a task is deleted with task_delete(); a pthread is     *)
(* cancelled, which ends it at once (asynchronous cancel type) or leaves   *)
(* the cancel pending until its next cancellation point, and is joined;    *)
(* pthread_cancel() of a kernel thread fails with ESRCH and the join of a  *)
(* non-pthread returns at once.  Any other signal goes through kill(),     *)
(* which fails for a pid that is not a live task (ESRCH) or not positive.  *)
NoJoin == -1
Live(t, pid) == pid \in Pids /\ t[pid].alive
Dead(t, pid) == [t EXCEPT ![pid].alive = FALSE]
Pending(t, pid) == [t EXCEPT ![pid].cancel = TRUE]
Failed(t) == [ret |-> ERROR, tcb |-> t, sent |-> {}, join |-> NoJoin]
(* Mutant: the result of kill() is not looked at.                         *)
send_signal_kill_unchecked(t, pid, signo) ==
  IF signo = SIGKILL /\ Live(t, pid)
  THEN {[ret |-> OK, tcb |-> Dead(t, pid), sent |-> {<<pid, signo>>}, join |-> NoJoin]}
  ELSE IF signo = SIGKILL THEN {Failed(t)}
  ELSE {[ret |-> OK, tcb |-> t, join |-> NoJoin,
         sent |-> IF pid > 0 /\ Live(t, pid) THEN {<<pid, signo>>} ELSE {}]}
send_signal(t, pid, signo) ==
  LET Sent(u, j) == [ret |-> OK, tcb |-> u, sent |-> {<<pid, signo>>}, join |-> j] IN
  IF signo = SIGKILL
  THEN IF ~Live(t, pid) THEN {Failed(t)}
       ELSE CASE t[pid].ttype = "TASK"    -> {Sent(Dead(t, pid), NoJoin)}
              [] t[pid].ttype = "PTHREAD" -> {Sent(Dead(t, pid), NoJoin),
                                              Sent(Pending(t, pid), pid)}
              [] OTHER                    -> {Failed(t)}
  ELSE IF pid > 0 /\ Live(t, pid) THEN {Sent(t, NoJoin)} ELSE {Failed(t)}

(* args[i], NULL ("NULL" here, not a string) at and past argc.             *)
Arg(argv, i) == IF i < Len(argv) THEN argv[i + 1] ELSE "NULL"
Fail(t) == [ret |-> ERROR, tcb |-> t, sent |-> {}, join |-> NoJoin, fault |-> FALSE]
(* "-l": print kdbg_sig and return OK.                                   *)
IsList(p) == Ch(p, 2) = "l" /\ Ch(p, 3) = ""

(* The checks kdbg_kill() and kdbg_killall() share: args[1] is read       *)
(* before argc is looked at, so with argc 1 the NULL args[1] is           *)
(* dereferenced; then "-" (usage), "-l", argc == 3 and find_signal().     *)
(* The set of outcomes of the prefix, or {} when the command goes on.     *)
ArgChecks(t, argv) ==
  IF Len(argv) < 2 THEN {[Fail(t) EXCEPT !.fault = TRUE]}
  ELSE LET p == Arg(argv, 1) IN
       IF Ch(p, 1) # "-" THEN {Fail(t)}
       ELSE IF IsList(p) THEN {[Fail(t) EXCEPT !.ret = OK]}
       ELSE IF Len(argv) # 3 \/ find_signal(p) = ERROR THEN {Fail(t)}
       ELSE {}

(* kdbg_kill(): <pid> must start with a digit; it is read with strtol()   *)
(* and stored in a pid_t, then send_signal().                             *)
kdbg_kill(t, argv) ==
  IF ArgChecks(t, argv) # {} THEN ArgChecks(t, argv)
  ELSE IF Ch(Arg(argv, 2), 1) \notin DecDigits THEN {Fail(t)}
  ELSE {[ret |-> o.ret, tcb |-> o.tcb, sent |-> o.sent, join |-> o.join, fault |-> FALSE] :
          o \in send_signal(t, ToPid(strtol0(Arg(argv, 2))), find_signal(Arg(argv, 1)))}

Prefix(s, k) == IF Len(s) <= k THEN s ELSE SubSeq(s, 1, k)
NameMatch(n, arg) == Prefix(n, NameSize) = Prefix(arg, NameSize)

-----------------------------------------------------------------------------
NoTask == [alive |-> FALSE, name |-> "", ttype |-> "TASK", cancel |-> FALSE]
Idle == [alive |-> TRUE, name |-> "Idle", ttype |-> "KERNEL", cancel |-> FALSE]
Tcbs == [alive : BOOLEAN, name : {Prefix(n, NameSize) : n \in Names} \cup {"", "Idle"},
         ttype : TTypes, cancel : BOOLEAN]
(* The shell between commands.                                            *)
Ready == [pc |-> "idle", argv |-> <<>>, pid |-> NoJoin, signo |-> 0, rest |-> {},
          count |-> 0, ret |-> OK, sent |-> {}, matched |-> {}]

vars == <<tcb, sig, last, fault, sh>>

TypeOK ==
  /\ tcb \in [Pids -> Tcbs]
  /\ sig \subseteq Pids \X {e.signo : e \in Range(kdbg_sig)}
  /\ last.ret \in {OK, ERROR} /\ last.matched \subseteq Pids /\ last.left \subseteq Pids
  /\ fault \in BOOLEAN
  /\ sh.pc \in {"idle", "join", "walk", "walkjoin"}
  /\ sh.rest \subseteq Pids /\ sh.matched \subseteq Pids /\ sh.count \in Nat
  /\ sh.pid \in Pids \cup {NoJoin}

(* Pid 0 is the idle task, a kernel thread that never exits; the other    *)
(* pids are free at boot.                                                 *)
Init ==
  /\ tcb = [p \in Pids |-> IF p = 0 THEN Idle ELSE NoTask]
  /\ sig = {}
  /\ last = [argv |-> <<>>, ret |-> OK, matched |-> {}, left |-> {}]
  /\ fault = FALSE
  /\ sh = Ready

(* The command returns: its result, the signals it delivered, for killall *)
(* the tasks its handler matched, and the tasks sent SIGKILL that are      *)
(* still alive as it returns.                                             *)
Finish(argv, ret, sent, flt, matched) ==
  /\ sig' = sent
  /\ fault' = flt
  /\ last' = [argv |-> argv, ret |-> ret, matched |-> matched,
              left |-> {e[1] : e \in {x \in sent : x[2] = SIGKILL /\ tcb'[x[1]].alive}}]
  /\ sh' = Ready

(* kill: the whole of kdbg_kill(), up to the pthread_join() of a          *)
(* cancelled pthread, where the shell blocks.                             *)
Kill(argv) ==
  /\ sh.pc = "idle" /\ argv[1] = "kill"
  /\ \E o \in kdbg_kill(tcb, argv) :
       /\ tcb' = o.tcb
       /\ IF o.join = NoJoin
          THEN Finish(argv, o.ret, o.sent, o.fault, {})
          ELSE /\ sh' = [Ready EXCEPT !.pc = "join", !.argv = argv, !.pid = o.join,
                                      !.ret = o.ret, !.sent = o.sent]
               /\ UNCHANGED <<sig, last, fault>>

(* killall: the argument checks, then strncpy() of the name and           *)
(* sched_foreach() from the first pid.                                    *)
Killall(argv) ==
  /\ sh.pc = "idle" /\ argv[1] = "killall"
  /\ UNCHANGED tcb
  /\ IF ArgChecks(tcb, argv) # {}
     THEN \E o \in ArgChecks(tcb, argv) : Finish(argv, o.ret, {}, o.fault, {})
     ELSE /\ sh' = [Ready EXCEPT !.pc = "walk", !.argv = argv, !.rest = Pids,
                                 !.signo = find_signal(Arg(argv, 1))]
          /\ UNCHANGED <<sig, last, fault>>

(* Mutant: the handler does not count the tasks it matched.               *)
sched_foreach_nocount ==
  LET p == Min(sh.rest) IN
  /\ sh.pc = "walk" /\ sh.rest # {}
  /\ IF tcb[p].alive /\ NameMatch(tcb[p].name, Arg(sh.argv, 2))
     THEN \E o \in send_signal(tcb, p, sh.signo) :
            /\ tcb' = o.tcb
            /\ sh' = [sh EXCEPT !.rest = @ \ {p}, !.matched = @ \cup {p},
                        !.sent = @ \cup o.sent, !.ret = IF o.ret = ERROR THEN ERROR ELSE @,
                        !.pc = IF o.join = NoJoin THEN "walk" ELSE "walkjoin", !.pid = o.join]
     ELSE sh' = [sh EXCEPT !.rest = @ \ {p}] /\ UNCHANGED tcb
  /\ UNCHANGED <<sig, last, fault>>

(* sched_foreach() calls kdbg_killall_handler() for the live task of the  *)
(* next pid: if its name matches in the first NameSize characters, count  *)
(* it and send the signal; a failure makes the result ERROR.  A join      *)
(* blocks the walk until the cancelled pthread has exited.                *)
sched_foreach ==
  LET p == Min(sh.rest) IN
  /\ sh.pc = "walk" /\ sh.rest # {}
  /\ IF tcb[p].alive /\ NameMatch(tcb[p].name, Arg(sh.argv, 2))
     THEN \E o \in send_signal(tcb, p, sh.signo) :
            /\ tcb' = o.tcb
            /\ sh' = [sh EXCEPT !.rest = @ \ {p}, !.matched = @ \cup {p}, !.count = @ + 1,
                        !.sent = @ \cup o.sent, !.ret = IF o.ret = ERROR THEN ERROR ELSE @,
                        !.pc = IF o.join = NoJoin THEN "walk" ELSE "walkjoin", !.pid = o.join]
     ELSE sh' = [sh EXCEPT !.rest = @ \ {p}] /\ UNCHANGED tcb
  /\ UNCHANGED <<sig, last, fault>>

(* kdbg_killall() after sched_foreach(): ERROR if no task was counted.    *)
kdbg_killall ==
  /\ sh.pc = "walk" /\ sh.rest = {}
  /\ UNCHANGED tcb
  /\ Finish(sh.argv, IF sh.count = 0 THEN ERROR ELSE sh.ret, sh.sent, FALSE, sh.matched)

Join ==
  /\ sh.pc \in {"join", "walkjoin"} /\ ~tcb[sh.pid].alive
  /\ UNCHANGED tcb
  /\ IF sh.pc = "join"
     THEN Finish(sh.argv, sh.ret, sh.sent, FALSE, {})
     ELSE sh' = [sh EXCEPT !.pc = "walk", !.pid = NoJoin] /\ UNCHANGED <<sig, last, fault>>

(* The other tasks run while the shell waits for a command or in a join.  *)
(* A task exits (a pthread with a pending cancel does so at its next      *)
(* cancellation point, or never if it disabled cancellation);             *)
(* task_create()/pthread_create() takes a free pid (not  *)
(* the one a pthread_join() is waiting on) for a new task or thread.      *)
Others == sh.pc \in {"idle", "join", "walkjoin"}
Exit(p) == Others /\ p # 0 /\ tcb[p].alive /\ tcb' = [tcb EXCEPT ![p] = NoTask]
           /\ UNCHANGED <<sig, last, fault, sh>>
Spawn(p) ==
  /\ Others /\ ~tcb[p].alive /\ p # sh.pid
  /\ \E n \in Names, ty \in {"TASK", "PTHREAD"} :
       tcb' = [tcb EXCEPT ![p] = [alive |-> TRUE, name |-> Prefix(n, NameSize),
                                  ttype |-> ty, cancel |-> FALSE]]
  /\ UNCHANGED <<sig, last, fault, sh>>

Next ==
  \/ \E argv \in Commands : Kill(argv) \/ Killall(argv)
  \/ sched_foreach \/ kdbg_killall \/ Join
  \/ \E p \in Pids : Exit(p) \/ Spawn(p)

Spec == Init /\ [][Next]_vars

-----------------------------------------------------------------------------
Arg1 == Arg(last.argv, 1)
Ran(c) == last.argv # <<>> /\ last.argv[1] = c /\ ~fault
(* A command that got past the argument checks to sending signals.        *)
Sending == Len(last.argv) = 3 /\ ~IsList(Arg1) /\ Ch(Arg1, 1) = "-"
           /\ find_signal(Arg1) # ERROR
(* The tasks killall's handler found live with a matching name.          *)
Matched == last.matched
Signalled == {e[1] : e \in sig}

(* kill returns OK exactly when it listed the signals or delivered the    *)
(* signal (send_signal(): task_delete(), pthread_cancel() or kill()       *)
(* succeeded), and it delivers at most one.                               *)
KillReport ==
  Ran("kill") =>
    /\ last.ret = OK <=> (IsList(Arg1) \/ sig # {})
    /\ Cardinality(sig) <= 1

(* killall, walking the task list with sched_foreach() while the handler  *)
(* deletes tasks, signals exactly the live tasks whose name matched, and  *)
(* returns OK exactly when there was one and every send succeeded.        *)
KillallReport ==
  Ran("killall") /\ Sending =>
    /\ Signalled \subseteq Matched
    /\ last.ret = OK <=> (Matched # {} /\ Signalled = Matched)

NoNullDeref == ~fault

(* kill signals the task whose pid was typed: the number strtol() read.   *)
KillTargetsTypedPid ==
  Ran("kill") => \A p \in Signalled : p = strtol0(Arg(last.argv, 2))
=============================================================================
