------------------------------- MODULE TcTask -------------------------------
(***************************************************************************)
(* The task API test cases of                                              *)
(* src/apps/examples/testcase/le_tc/kernel/tc_task.c run by task_main():   *)
(* the test runner ("main") and every task it creates, under TinyAra's     *)
(* fixed-priority preemptive scheduler.  A task takes a step only when no  *)
(* ready task has a higher priority.  The tasks live in the pid table of   *)
(* CONFIG_MAX_TASKS slots; idle, the runner, blocked daemons and optional  *)
(* tasks that wake up once on an outside event and exit ("intruders")     *)
(* fill some of it.  Time is kept as relative wake-up delays; the clock   *)
(* moves (Tick) only when the CPU is idle: a burst of computation is far  *)
(* shorter than the 10 us and 1 s sleeps of the tests.  An intruder's     *)
(* event may come at any step.                                            *)
(* TC_ASSERT_* record the failed check and return from the test function.  *)
(***************************************************************************)
EXTENDS Integers, FiniteSets, Sequences

CONSTANTS
  MAX_TASKS,        \* CONFIG_MAX_TASKS
  MainPrio,         \* priority of the task running task_main()
  Daemons,          \* number of other tasks, blocked for good
  IntruderPrio,     \* priority of the tasks that wake up once and exit
  Intruders,        \* how many of those
  SleepUnit,        \* ticks in sleep(1); usleep(10) is one tick
  VforkFullErrno    \* errno of vfork() when the pid table is full

ASSUME MAX_TASKS > 2 + Daemons + Intruders

OK == 0
ERROR == -1
SCHED_PRIORITY_MAX == 255
ChildPrio == SCHED_PRIORITY_MAX - 1
TEST_STRING == "test"
ONEXIT_VAL == 123

Tids == 0 .. MAX_TASKS - 1                \* slots of the pid table
MainTid == 1
DaemonTids == 2 .. 1 + Daemons
IntruderTids == {2 + Daemons + k - 1 : k \in 1 .. Intruders}

VARIABLES
  tcb,          \* slot -> task: state, priority, pid, body, pc, wake, waitfor
  nextpid,      \* the pid the next created task gets
  mpc,          \* where task_main() is
  mpid,         \* tc_*'s pid = task_create(...)
  ret_chk,      \* tc_*'s ret_chk
  g_callback,
  vfork_val, task_cnt, existed_pid, vfork_cnt, ppid, existed_pid_idx,
  failed,       \* (ghost) TC_ASSERT checks that failed
  overrun       \* (ghost) existed_pid[] was indexed past its end

vars == <<tcb, nextpid, mpc, mpid, ret_chk, g_callback, vfork_val, task_cnt,
          existed_pid, vfork_cnt, ppid, existed_pid_idx, failed, overrun>>
vforkvars == <<vfork_val, task_cnt, existed_pid, vfork_cnt, ppid, existed_pid_idx>>

Free == [st |-> "free", prio |-> 0, pid |-> -1, body |-> "none", pc |-> "none",
         wake |-> 0, waitfor |-> -1]
Task(prio, pid, body, pc) == [Free EXCEPT !.st = "ready", !.prio = prio, !.pid = pid,
                                          !.body = body, !.pc = pc]
ChildBodies == {"create_task", "delete_task", "restart_task", "exit_task",
                "atexit_task", "onexit_task", "getpid_task", "vfork_task"}

-----------------------------------------------------------------------------
(* The scheduler: t runs when it is ready and no ready task outranks it.  *)
(* The runner is done once task_main() returned.                          *)
Ready(u) == tcb[u].st = "ready" /\ ~(u = MainTid /\ mpc = "done")
Running(t) == Ready(t) /\ \A u \in Tids : Ready(u) => tcb[u].prio <= tcb[t].prio
FreeTids == {s \in Tids : tcb[s].st = "free"}
Lowest(S) == CHOOSE s \in S : \A r \in S : s <= r

(* Task t ends (return from its entry point, exit() or task_delete()).    *)
(* The slot is released and a parent blocked in vfork()'s waitpid() on it *)
(* becomes ready.                                                         *)
Exited(tb, t) ==
  [s \in Tids |-> IF s = t THEN Free
                  ELSE IF tb[s].st = "wait" /\ tb[s].waitfor = tb[t].pid
                       THEN [tb[s] EXCEPT !.st = "ready", !.waitfor = -1]
                       ELSE tb[s]]
Exit(t) == tcb' = Exited(tcb, t)
Sleep(t, d, pc) == tcb' = [tcb EXCEPT ![t].st = "sleep", ![t].wake = d, ![t].pc = pc]
Goto(t, pc) == tcb' = [tcb EXCEPT ![t].pc = pc]

(* Time passes while only the idle task is ready: the sleepers with the   *)
(* shortest delay wake up.                                                *)
Tick ==
  LET S == {s \in Tids : tcb[s].st = "sleep"}
      m == CHOOSE d \in {tcb[s].wake : s \in S} : \A s \in S : d <= tcb[s].wake
  IN  /\ S # {} /\ Running(0)
      /\ tcb' = [s \in Tids |-> IF s \notin S THEN tcb[s]
                                ELSE IF tcb[s].wake = m THEN [tcb[s] EXCEPT !.st = "ready", !.wake = 0]
                                ELSE [tcb[s] EXCEPT !.wake = @ - m]]
      /\ UNCHANGED <<nextpid, mpc, mpid, ret_chk, g_callback, vforkvars, failed, overrun>>

(* An intruder's event comes; once awake, it runs and exits.             *)
IntruderWake(t) ==
  /\ tcb[t].body = "intruder" /\ tcb[t].st = "wait" /\ tcb' = [tcb EXCEPT ![t].st = "ready"]
  /\ UNCHANGED <<nextpid, mpc, mpid, ret_chk, g_callback, vforkvars, failed, overrun>>
IntruderExit(t) ==
  /\ tcb[t].body = "intruder" /\ Running(t) /\ Exit(t)
  /\ UNCHANGED <<nextpid, mpc, mpid, ret_chk, g_callback, vforkvars, failed, overrun>>

-----------------------------------------------------------------------------
(* task_main(): the tests in order, each a pc value of the runner.        *)
Order == <<"create", "delete", "restart", "exit", "atexit", "onexit", "prctl",
           "getpid", "vfork", "done">>
NextTest(x) == Order[1 + CHOOSE i \in 1 .. Len(Order) - 1 : Order[i] = x]

(* What a test sets g_callback to before task_create(), and the entry     *)
(* point it starts at priority SCHED_PRIORITY_MAX - 1.                    *)
Starts ==
  [create |-> [init |-> ERROR, body |-> "create_task"],
   delete |-> [init |-> ERROR, body |-> "delete_task"],
   restart |-> [init |-> 0, body |-> "restart_task"],
   exit |-> [init |-> ERROR, body |-> "exit_task"],
   atexit |-> [init |-> ERROR, body |-> "atexit_task"],
   onexit |-> [init |-> ERROR, body |-> "onexit_task"],
   getpid |-> [init |-> ERROR, body |-> "getpid_task"],
   vfork |-> [init |-> OK, body |-> "vfork_task"]]

(* A TC_ASSERT: record a failed check and leave the test function.       *)
Assert(cond, label, nxt) ==
  /\ failed' = IF cond THEN failed ELSE failed \cup {label}
  /\ mpc' = IF cond THEN nxt ELSE NextTest(label[1])

(* tc_task_*: g_callback = ...; pid = task_create(...);                   *)
(* TC_ASSERT_GT("task_create", pid, 0).  The new task outranks the runner *)
(* and runs before its next statement.                                    *)
tc_start(test) ==
  /\ mpc = test /\ test \in DOMAIN Starts /\ Running(MainTid)
  /\ g_callback' = Starts[test].init
  /\ IF FreeTids = {}
     THEN /\ mpid' = ERROR /\ Assert(FALSE, <<test, "task_create">>, test)
          /\ UNCHANGED <<tcb, nextpid>>
     ELSE /\ tcb' = [tcb EXCEPT ![Lowest(FreeTids)] =
                       Task(ChildPrio, nextpid, Starts[test].body, "start")]
          /\ nextpid' = nextpid + 1 /\ mpid' = nextpid
          /\ mpc' = test \o "_chk" /\ UNCHANGED failed
  /\ UNCHANGED <<ret_chk, vforkvars, overrun>>

(* TC_ASSERT_EQ(..., g_callback, OK) of create, exit, atexit, on_exit and *)
(* vfork.                                                                 *)
tc_check(test) ==
  /\ test \in {"create", "exit", "atexit", "onexit", "vfork"}
  /\ mpc = test \o "_chk" /\ Running(MainTid)
  /\ Assert(g_callback = OK, <<test, "g_callback">>, NextTest(test))
  /\ UNCHANGED <<tcb, nextpid, mpid, ret_chk, g_callback, vforkvars, overrun>>

PidTid(p) == {s \in Tids : tcb[s].st # "free" /\ tcb[s].pid = p}

(* tc_task_task_delete(): ret_chk = task_delete(pid), which fails when    *)
(* the task is gone; TC_ASSERT_LT(ret_chk, 0); TC_ASSERT_EQ(g_callback).  *)
tc_task_task_delete ==
  /\ mpc = "delete_chk" /\ Running(MainTid)
  /\ IF PidTid(mpid) # {} THEN Exit(CHOOSE s \in PidTid(mpid) : TRUE) /\ ret_chk' = OK
     ELSE UNCHANGED tcb /\ ret_chk' = ERROR
  /\ IF ret_chk' < 0 THEN Assert(g_callback = OK, <<"delete", "g_callback">>, "restart")
     ELSE Assert(FALSE, <<"delete", "task_delete">>, "restart")
  /\ UNCHANGED <<nextpid, mpid, g_callback, vforkvars, overrun>>

(* tc_task_task_restart(): ret_chk = task_restart(pid) terminates the     *)
(* task and starts it again from its entry point with the same pid; then  *)
(* sleep(2), then TC_ASSERT_EQ(ret_chk, 0) and TC_ASSERT_EQ(g_callback, 2).*)
tc_task_task_restart ==
  /\ Running(MainTid)
  /\ \/ /\ mpc = "restart_chk"
        /\ IF PidTid(mpid) # {}
           THEN LET s == CHOOSE s \in PidTid(mpid) : TRUE
                IN  tcb' = [tcb EXCEPT ![s] = Task(ChildPrio, mpid, "restart_task", "start")]
                    /\ ret_chk' = OK
           ELSE UNCHANGED tcb /\ ret_chk' = ERROR
        /\ mpc' = "restart_sleep" /\ UNCHANGED failed
     \/ /\ mpc = "restart_sleep"
        /\ Sleep(MainTid, 2 * SleepUnit, "main") /\ mpc' = "restart_wake"
        /\ UNCHANGED <<ret_chk, failed>>
     \/ /\ mpc = "restart_wake"
        /\ IF ret_chk = 0 THEN Assert(g_callback = 2, <<"restart", "g_callback">>, "exit")
           ELSE Assert(FALSE, <<"restart", "task_restart">>, "exit")
        /\ UNCHANGED <<tcb, ret_chk>>
  /\ UNCHANGED <<nextpid, mpid, g_callback, vforkvars, overrun>>

(* tc_task_prctl(): PR_GET_NAME, PR_SET_NAME "a Test program",           *)
(* PR_GET_NAME and strncmp over CONFIG_TASK_NAME_SIZE, then the old name  *)
(* back: only the runner's own name changes, and it is restored.         *)
tc_task_prctl ==
  /\ mpc = "prctl" /\ Running(MainTid) /\ mpc' = "getpid"
  /\ UNCHANGED <<tcb, nextpid, mpid, ret_chk, g_callback, vforkvars, failed, overrun>>

(* tc_task_getpid(): TC_ASSERT_EQ("getpid", pid, g_callback).            *)
tc_task_getpid ==
  /\ mpc = "getpid_chk" /\ Running(MainTid)
  /\ Assert(mpid = g_callback, <<"getpid", "g_callback">>, "vfork")
  /\ UNCHANGED <<tcb, nextpid, mpid, ret_chk, g_callback, vforkvars, overrun>>

-----------------------------------------------------------------------------
(* The entry points of the created tasks.  A step of task t happens when  *)
(* t is running; the statements up to the next blocking call are one     *)
(* step.                                                                  *)
Child(t, body, pc) == Running(t) /\ tcb[t].body = body /\ tcb[t].pc = pc
ChildUnchanged == UNCHANGED <<nextpid, mpc, mpid, ret_chk, vforkvars, failed, overrun>>

(* create_task(): argv[0] is the task name, argv[1] the first argument.  *)
CreateArgv == <<"tc_task_create", TEST_STRING>>
\* Mutant: the argument taken as argv[0], the task name.
create_task_argv0(t) ==
  /\ Child(t, "create_task", "start") /\ Exit(t) /\ ChildUnchanged
  /\ g_callback' = IF CreateArgv[1] = TEST_STRING THEN OK ELSE g_callback
create_task(t) ==
  /\ Child(t, "create_task", "start") /\ Exit(t) /\ ChildUnchanged
  /\ g_callback' = IF CreateArgv[2] = TEST_STRING THEN OK ELSE g_callback

(* delete_task(): g_callback = OK; task_delete(getpid()) of itself goes   *)
(* to exit(), so the lines after it never run.                            *)
delete_task(t) ==
  Child(t, "delete_task", "start") /\ g_callback' = OK /\ Exit(t) /\ ChildUnchanged

(* restart_task(): g_callback++; sleep(1); return OK.                     *)
restart_task(t) ==
  \/ /\ Child(t, "restart_task", "start") /\ g_callback' = g_callback + 1
     /\ Sleep(t, SleepUnit, "return") /\ ChildUnchanged
  \/ /\ Child(t, "restart_task", "return") /\ Exit(t)
     /\ UNCHANGED g_callback /\ ChildUnchanged

(* exit_task(): g_callback = OK; exit(OK).  atexit_task(): atexit(fn) and *)
(* return; exit runs fn_atexit(), which sets OK.  onexit_task():          *)
(* on_exit(fn_onexit, "test") and exit(123); fn_onexit(123, "test") sets  *)
(* OK.                                                                    *)
fn_onexit(status, arg) == IF status # ONEXIT_VAL \/ arg # TEST_STRING THEN g_callback ELSE OK
exit_task(t) == Child(t, "exit_task", "start") /\ g_callback' = OK /\ Exit(t) /\ ChildUnchanged
atexit_task(t) == Child(t, "atexit_task", "start") /\ g_callback' = OK /\ Exit(t) /\ ChildUnchanged
onexit_task(t) ==
  /\ Child(t, "onexit_task", "start") /\ g_callback' = fn_onexit(ONEXIT_VAL, TEST_STRING)
  /\ Exit(t) /\ ChildUnchanged

(* getpid_task(): g_callback = getpid().                                  *)
getpid_task(t) ==
  Child(t, "getpid_task", "start") /\ g_callback' = tcb[t].pid /\ Exit(t) /\ ChildUnchanged

-----------------------------------------------------------------------------
(* vfork_task() and the children vfork() makes, which run the same code  *)
(* on a copy of the stack (pid is local) and share the globals.           *)
VUnchanged == UNCHANGED <<nextpid, mpc, mpid, ret_chk, failed>>
Alive == {s \in Tids : tcb[s].st # "free"}
(* The i-th (from 0) live slot in pid-table order.                        *)
NthAlive(i) == CHOOSE s \in Alive : Cardinality({r \in Alive : r < s}) = i

(* Reset the counters and existed_pid[], ppid = getpid(), and             *)
(* sched_foreach(task_cnt_func): existed_pid[task_cnt++] = tcb->pid for   *)
(* every live task; existed_pid_idx = task_cnt.                           *)
\* Mutant: existed_pid_idx starts one past the entries sched_foreach wrote.
vfork_task_init_skip(t) ==
  /\ Child(t, "vfork_task", "start")
  /\ task_cnt' = Cardinality(Alive) /\ vfork_val' = 0
  /\ existed_pid' = [i \in 0 .. MAX_TASKS - 1 |->
                       IF i < Cardinality(Alive) THEN tcb[NthAlive(i)].pid ELSE -1]
  /\ existed_pid_idx' = Cardinality(Alive) + 1 /\ ppid' = tcb[t].pid /\ vfork_cnt' = 0
  /\ Goto(t, "loop") /\ UNCHANGED <<g_callback, overrun>> /\ VUnchanged
vfork_task_init(t) ==
  /\ Child(t, "vfork_task", "start")
  /\ task_cnt' = Cardinality(Alive) /\ vfork_val' = 0
  /\ existed_pid' = [i \in 0 .. MAX_TASKS - 1 |->
                       IF i < Cardinality(Alive) THEN tcb[NthAlive(i)].pid ELSE -1]
  /\ existed_pid_idx' = Cardinality(Alive) /\ ppid' = tcb[t].pid /\ vfork_cnt' = 0
  /\ Goto(t, "loop") /\ UNCHANGED <<g_callback, overrun>> /\ VUnchanged

\* Mutant: the loop runs while vfork_cnt <= CONFIG_MAX_TASKS - task_cnt + 1.
vfork_task_loop_le(t) ==
  /\ Child(t, "vfork_task", "loop")
  /\ IF vfork_cnt > MAX_TASKS - task_cnt + 1
     THEN Goto(t, "spin") /\ UNCHANGED <<nextpid, g_callback>>
     ELSE IF FreeTids # {}
     THEN /\ tcb' = [tcb EXCEPT ![t].st = "wait", ![t].waitfor = nextpid, ![t].pc = "inc",
                                ![Lowest(FreeTids)] = Task(tcb[t].prio, nextpid, "vfork_task", "child")]
          /\ nextpid' = nextpid + 1 /\ UNCHANGED g_callback
     ELSE IF vfork_val >= MAX_TASKS - task_cnt /\ VforkFullErrno = "EPERM"
     THEN Goto(t, "spin") /\ UNCHANGED <<nextpid, g_callback>>
     ELSE Goto(t, "inc") /\ g_callback' = ERROR /\ UNCHANGED nextpid
  /\ UNCHANGED <<vforkvars, overrun, mpc, mpid, ret_chk, failed>>

(* for (; vfork_cnt < CONFIG_MAX_TASKS - task_cnt + 1; ) pid = vfork():   *)
(* the child runs and the parent waits in waitpid() until it exits; when  *)
(* the table is full vfork() fails, and the loop ends if vfork_val        *)
(* reached the free slots and errno is EPERM, else g_callback = ERROR.    *)
vfork_task_loop(t) ==
  /\ Child(t, "vfork_task", "loop")
  /\ IF vfork_cnt >= MAX_TASKS - task_cnt + 1
     THEN Goto(t, "spin") /\ UNCHANGED <<nextpid, g_callback>>
     ELSE IF FreeTids # {}
     THEN /\ tcb' = [tcb EXCEPT ![t].st = "wait", ![t].waitfor = nextpid, ![t].pc = "inc",
                                ![Lowest(FreeTids)] = Task(tcb[t].prio, nextpid, "vfork_task", "child")]
          /\ nextpid' = nextpid + 1 /\ UNCHANGED g_callback
     ELSE IF vfork_val >= MAX_TASKS - task_cnt /\ VforkFullErrno = "EPERM"
     THEN Goto(t, "spin") /\ UNCHANGED <<nextpid, g_callback>>
     ELSE Goto(t, "inc") /\ g_callback' = ERROR /\ UNCHANGED nextpid
  /\ UNCHANGED <<vforkvars, overrun, mpc, mpid, ret_chk, failed>>

(* In the child (pid == 0): vfork_val++; if existed_pid[existed_pid_idx]  *)
(* is taken, g_callback = ERROR and exit; else existed_pid[idx++] =        *)
(* getpid().  An index past the array reads and writes whatever follows   *)
(* it: any value is read, and the write is not kept.                      *)
vfork_task_child(t) ==
  /\ Child(t, "vfork_task", "child")
  /\ vfork_val' = vfork_val + 1
  /\ overrun' = (overrun \/ existed_pid_idx >= MAX_TASKS)
  /\ \E v \in IF existed_pid_idx < MAX_TASKS THEN {existed_pid[existed_pid_idx]} ELSE {-1, 0} :
       IF v # -1
       THEN g_callback' = ERROR /\ Exit(t) /\ UNCHANGED <<existed_pid, existed_pid_idx>>
       ELSE /\ existed_pid' = IF existed_pid_idx < MAX_TASKS
                              THEN [existed_pid EXCEPT ![existed_pid_idx] = tcb[t].pid]
                              ELSE existed_pid
            /\ existed_pid_idx' = existed_pid_idx + 1
            /\ Goto(t, "inc") /\ UNCHANGED g_callback
  /\ UNCHANGED <<task_cnt, vfork_cnt, ppid>> /\ VUnchanged

(* vfork_cnt++ at the end of an iteration.                               *)
vfork_task_inc(t) ==
  /\ Child(t, "vfork_task", "inc")
  /\ vfork_cnt' = vfork_cnt + 1 /\ Goto(t, "loop")
  /\ UNCHANGED <<vfork_val, task_cnt, existed_pid, ppid, existed_pid_idx, g_callback, overrun>>
  /\ VUnchanged

(* while (vfork_val != CONFIG_MAX_TASKS - task_cnt) usleep(10); then a   *)
(* child exits, and vfork_task itself compares every pair of existed_pid  *)
(* entries, g_callback = ERROR on a repeat, and returns.                  *)
Repeated == \E i, j \in 0 .. MAX_TASKS - 1 : i < j /\ existed_pid[i] = existed_pid[j]
\* Mutant: the wait counts the creating task too.
vfork_task_end_all(t) ==
  /\ Child(t, "vfork_task", "spin")
  /\ IF vfork_val # MAX_TASKS - task_cnt + 1
     THEN Sleep(t, 1, "spin") /\ UNCHANGED g_callback
     ELSE IF tcb[t].pid # ppid THEN Exit(t) /\ UNCHANGED g_callback
     ELSE Exit(t) /\ g_callback' = IF Repeated THEN ERROR ELSE g_callback
  /\ UNCHANGED <<vforkvars, overrun>> /\ VUnchanged
vfork_task_end(t) ==
  /\ Child(t, "vfork_task", "spin")
  /\ IF vfork_val # MAX_TASKS - task_cnt
     THEN Sleep(t, 1, "spin") /\ UNCHANGED g_callback
     ELSE IF tcb[t].pid # ppid THEN Exit(t) /\ UNCHANGED g_callback
     ELSE Exit(t) /\ g_callback' = IF Repeated THEN ERROR ELSE g_callback
  /\ UNCHANGED <<vforkvars, overrun>> /\ VUnchanged

-----------------------------------------------------------------------------
Init ==
  /\ tcb = [s \in Tids |->
              IF s = 0 THEN Task(0, 0, "idle", "none")
              ELSE IF s = MainTid THEN Task(MainPrio, s, "main", "main")
              ELSE IF s \in DaemonTids THEN [Task(100, s, "daemon", "none") EXCEPT !.st = "wait"]
              ELSE IF s \in IntruderTids
              THEN [Task(IntruderPrio, s, "intruder", "none") EXCEPT !.st = "wait"]
              ELSE Free]
  /\ nextpid = MAX_TASKS
  /\ mpc = "create" /\ mpid = 0 /\ ret_chk = 0 /\ g_callback = 0
  /\ vfork_val = 0 /\ task_cnt = 0 /\ existed_pid = [i \in 0 .. MAX_TASKS - 1 |-> 0]
  /\ vfork_cnt = 0 /\ ppid = 0 /\ existed_pid_idx = 0
  /\ failed = {} /\ overrun = FALSE

(* Every step of task t.                                                  *)
Step(t) ==
  \/ t = MainTid /\ (\/ \E x \in DOMAIN Starts : tc_start(x) \/ tc_check(x)
                     \/ tc_task_task_delete \/ tc_task_task_restart
                     \/ tc_task_prctl \/ tc_task_getpid)
  \/ create_task(t) \/ delete_task(t) \/ restart_task(t) \/ exit_task(t)
  \/ atexit_task(t) \/ onexit_task(t) \/ getpid_task(t)
  \/ vfork_task_init(t) \/ vfork_task_loop(t) \/ vfork_task_child(t)
  \/ vfork_task_inc(t) \/ vfork_task_end(t)
  \/ IntruderWake(t) \/ IntruderExit(t)

Next == Tick \/ \E t \in Tids : Step(t)

(* The scheduler runs the highest-priority ready task, and time passes.  *)
Spec == Init /\ [][Next]_vars /\ WF_vars(Tick) /\ \A t \in Tids : WF_vars(Step(t))

-----------------------------------------------------------------------------
Pids == -1 .. nextpid
TypeOK ==
  /\ \A s \in Tids : tcb[s].st \in {"free", "ready", "sleep", "wait"} /\ tcb[s].pid \in Pids
  /\ nextpid \in Nat /\ mpid \in Pids /\ ret_chk \in {OK, ERROR}
  /\ mpc \in {Order[i] : i \in 1 .. Len(Order)} \cup {x \o "_chk" : x \in DOMAIN Starts}
             \cup {"restart_sleep", "restart_wake"}
  /\ g_callback \in {ERROR} \cup Pids \cup 0 .. 2
  /\ existed_pid \in [0 .. MAX_TASKS - 1 -> Pids]
  /\ existed_pid_idx \in 0 .. MAX_TASKS /\ vfork_cnt \in 0 .. MAX_TASKS
  /\ failed \subseteq (DOMAIN Starts \cup {"prctl"}) \X {"task_create", "g_callback", "task_delete", "task_restart"}
  /\ overrun \in BOOLEAN

(* The suite reports success: when task_main() returns, no TC_ASSERT of   *)
(* any test failed, whatever the order the tasks and ticks interleave in. *)
SuiteVerdict == mpc = "done" => failed = {}

(* vfork_task() and its children never index existed_pid[] past          *)
(* CONFIG_MAX_TASKS: the number of children vfork() can create is the     *)
(* number of free slots sched_foreach() saw.                              *)
NoOverrun == ~overrun

(* task_main() returns, and every task it created, the chain of vfork()   *)
(* children included, has ended: nobody spins in usleep() forever.        *)
SuiteEnds == <>(mpc = "done" /\ \A s \in Tids : tcb[s].body \notin ChildBodies)
=============================================================================
