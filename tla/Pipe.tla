-------------------------------- MODULE Pipe --------------------------------
(***************************************************************************)
(* The pipe driver of src/os/drivers/pipes/pipe.c: the minor-number       *)
(* allocator (g_pipeset, g_pipecreated under g_pipesem), pipe() with all   *)
(* of its error paths, and pipe_close().  The collaborators it calls are   *)
(* modelled from the spec (their code is not in the repository):          *)
(*   - the VFS driver registry: register_driver/unregister_driver and     *)
(*     open()/close() of "/dev/pipeN" through the group's file table;      *)
(*   - the pipecommon_* device layer: allocdev/freedev, open, close,       *)
(*     read and write of the ring buffer with blocking and EOF/EPIPE.      *)
(* Every task group has its own file table; task_create() gives the new  *)
(* group a duplicate of each descriptor of its parent's table, so tasks of *)
(* two groups can hold descriptors on one pipe.  The tasks of one group    *)
(* share its table, but the VFS close path holds the table's fl_sem around *)
(* the driver's close(), so closes within one group never overlap.         *)
(***************************************************************************)
EXTENDS Integers, FiniteSets, FiniteSetsExt

CONSTANTS
  Tasks,          \* the tasks that call pipe(), read, write and close
  GroupOf,        \* task -> its task group
  MaxPipes,       \* MAX_PIPES: number of minor numbers (32 in the code)
  Devs,           \* heap blocks pipecommon_allocdev() may return
  Files,          \* descriptors of a group's file table (numbers)
  PipeSize,       \* CONFIG_DEV_PIPE_SIZE: bytes in the ring buffer
  SemWaitCanFail, \* TRUE: a signal may interrupt a sem_wait() that blocks
  NoTask, NoDev, NoFile  \* sentinels: no holder, NULL device, no descriptor

ASSUME /\ MaxPipes \in Nat \ {0}
       /\ Files \subseteq Nat /\ Files # {}
       /\ PipeSize \in Nat \ {0}
       /\ SemWaitCanFail \in BOOLEAN
       /\ NoTask \notin Tasks /\ NoDev \notin Devs /\ NoFile \notin Files

Slots == 0 .. MaxPipes - 1
Groups == {GroupOf[t] : t \in Tasks}
FDs == Groups \X Files    \* descriptor f of group g is <<g, f>>

VARIABLES
  pipesem,      \* the task holding g_pipesem, or NoTask
  pipeset,      \* g_pipeset: minor numbers currently allocated
  pipecreated,  \* g_pipecreated: minor numbers whose device was registered
  inode,        \* VFS: device registered under "/dev/pipeN", or NoDev
  dev,          \* struct pipe_dev_s of every heap block
  file,         \* the groups' file tables: device and access mode
  pc,           \* where each task is in the call it is executing
  ctx           \* the locals of that call

vars == <<pipesem, pipeset, pipecreated, inode, dev, file, pc, ctx>>

Modes == {"R", "W"}
FreeFile == [dev |-> NoDev, mode |-> "R"]
Ctx0 == [slot |-> 0, dev |-> NoDev, wfd |-> NoFile,
         cdev |-> NoDev, cslot |-> 0, ret |-> "idle"]

(* A heap block as pipecommon_allocdev() hands it out: zeroed, alive. *)
NewDev(s) == [alive |-> TRUE, pipeno |-> s, nreaders |-> 0, nwriters |-> 0,
              nbytes |-> 0]

Refs(d) == dev[d].nreaders + dev[d].nwriters      \* d_refs
OpenFiles == {fd \in FDs : file[fd].dev # NoDev}
FreeFiles(g) == {f \in Files : file[<<g, f>>].dev = NoDev}
FreeDevs == {d \in Devs : ~dev[d].alive}
(* Descriptors still inside a pipe() call are not yet the caller's. *)
InFlight == {<<GroupOf[t], ctx[t].wfd>> : t \in {u \in Tasks : pc[u] \in {"openr", "closew"}}}
GroupFiles(g, m) == {f \in Files : <<g, f>> \in OpenFiles \ InFlight /\ file[<<g, f>>].mode = m}
(* fl_sem of group g is held by a task of g inside close().              *)
Closing(g) == \E u \in Tasks : GroupOf[u] = g /\ pc[u] \in {"closechk", "closefree"}

(* The counters of struct pipe_dev_s are uint8_t. *)
Dec(x) == (x - 1) % 256

Goto(t, l) == pc' = [pc EXCEPT ![t] = l]
(* The call returns to the application; its locals are gone. *)
Return(t) == Goto(t, "idle") /\ ctx' = [ctx EXCEPT ![t] = Ctx0]

TypeOK ==
  /\ pipesem \in Tasks \cup {NoTask}
  /\ pipeset \subseteq Slots /\ pipecreated \subseteq Slots
  /\ inode \in [Slots -> Devs \cup {NoDev}]
  /\ dev \in [Devs -> [alive : BOOLEAN, pipeno : Slots, nreaders : 0 .. 255,
                      nwriters : 0 .. 255, nbytes : 0 .. PipeSize]]
  /\ file \in [FDs -> [dev : Devs \cup {NoDev}, mode : Modes]]
  /\ pc \in [Tasks -> {"idle", "alloc", "openw", "openr", "closew", "closechk",
                       "closefree", "unreg", "free", "rdblk", "wrblk"}]
  /\ ctx \in [Tasks -> [slot : Slots, dev : Devs \cup {NoDev},
                        wfd : Files \cup {NoFile},
                        cdev : Devs \cup {NoDev}, cslot : Slots,
                        ret : {"idle", "unreg"}]]

Init ==
  /\ pipesem = NoTask
  /\ pipeset = {} /\ pipecreated = {}
  /\ inode = [s \in Slots |-> NoDev]
  /\ dev = [d \in Devs |-> [NewDev(0) EXCEPT !.alive = FALSE]]
  /\ file = [fd \in FDs |-> FreeFile]
  /\ pc = [t \in Tasks |-> "idle"]
  /\ ctx = [t \in Tasks |-> Ctx0]

-----------------------------------------------------------------------------
(* Mutant: the scan runs to pipeno <= MAX_PIPES; with every bit set it   *)
(* tests 1 << 32, which is 0 on ARM, and returns MAX_PIPES.               *)
pipe_allocate_past_end == IF pipeset = Slots THEN MaxPipes ELSE Min(Slots \ pipeset)

(* pipe_allocate(): the lowest clear bit of g_pipeset, -ENFILE if none.    *)
pipe_allocate == IF pipeset = Slots THEN -1 ELSE Min(Slots \ pipeset)

(* pipe_free() called by task t: sem_wait(&g_pipesem), clear the bit,     *)
(* sem_post().  The wait blocks while another task holds g_pipesem; a     *)
(* signal may then end it with EINTR, and the bit is left set with the    *)
(* failure swallowed.                                                      *)
pipe_free(t, s) ==
  \/ pipesem = NoTask /\ pipeset' = pipeset \ {s}
  \/ SemWaitCanFail /\ pipesem \notin {NoTask, t} /\ UNCHANGED pipeset

(* pipe(): sem_wait(&g_pipesem).  While another task holds it the caller  *)
(* blocks; an EINTR there returns ERROR and changes nothing.              *)
PipeLock(t) ==
  /\ pc[t] = "idle" /\ pipesem = NoTask
  /\ pipesem' = t
  /\ Goto(t, "alloc")
  /\ UNCHANGED <<pipeset, pipecreated, inode, dev, file, ctx>>

(* pipe(), the region under g_pipesem: allocate a minor number (ENFILE if *)
(* there is none) and, if it never had a device, allocate and register     *)
(* one (a failure of either goes to errout_with_pipe); every path posts    *)
(* g_pipesem.                                                              *)
PipeAlloc(t) ==
  /\ pc[t] = "alloc"
  /\ pipesem' = NoTask
  /\ LET s == pipe_allocate IN
     \/ /\ s < 0
        /\ Return(t)
        /\ UNCHANGED <<pipeset, pipecreated, inode, dev>>
     \/ /\ s >= 0
        /\ pipeset' = pipeset \cup {s}
        /\ \/ /\ s \in pipecreated
              /\ ctx' = [ctx EXCEPT ![t] = [Ctx0 EXCEPT !.slot = s]]
              /\ Goto(t, "openw")
              /\ UNCHANGED <<pipecreated, inode, dev>>
           \/ /\ s \notin pipecreated
              /\ \E d \in FreeDevs :
                   /\ dev' = [dev EXCEPT ![d] = NewDev(s)]
                   /\ inode' = [inode EXCEPT ![s] = d]
                   /\ pipecreated' = pipecreated \cup {s}
                   /\ ctx' = [ctx EXCEPT ![t] = [Ctx0 EXCEPT !.slot = s, !.dev = d]]
                   /\ Goto(t, "openw")
           \/ /\ s \notin pipecreated  \* allocdev or register_driver failed
              /\ ctx' = [ctx EXCEPT ![t] = [Ctx0 EXCEPT !.slot = s]]
              /\ Goto(t, "free")
              /\ UNCHANGED <<pipecreated, inode, dev>>
  /\ UNCHANGED file

(* open() of "/dev/pipeN" by a task of group g through the VFS: the       *)
(* registered device, the lowest free descriptor of g's table, then        *)
(* pipecommon_open() counts the new end.  ENOENT if the path is not        *)
(* registered, EMFILE if the table is full, and ENOMEM if this first open  *)
(* of the device (d_refs == 0) cannot allocate its ring buffer.            *)
CanOpen(g, s) == inode[s] # NoDev /\ FreeFiles(g) # {}
MayFailAlloc(s) == inode[s] # NoDev /\ Refs(inode[s]) = 0
OpenEnd(g, s, m) ==
  LET d == inode[s]
      f == Min(FreeFiles(g))
  IN  /\ file' = [file EXCEPT ![<<g, f>>] = [dev |-> d, mode |-> m]]
      /\ dev' = [dev EXCEPT ![d] = IF m = "W" THEN [@ EXCEPT !.nwriters = @ + 1]
                                              ELSE [@ EXCEPT !.nreaders = @ + 1]]

(* pipe(): fd[1] = open(devname, O_WRONLY); on failure goto               *)
(* errout_with_driver.                                                     *)
PipeOpenWrite(t) ==
  /\ pc[t] = "openw"
  /\ LET g == GroupOf[t]  s == ctx[t].slot IN
     \/ /\ CanOpen(g, s)
        /\ OpenEnd(g, s, "W")
        /\ ctx' = [ctx EXCEPT ![t].wfd = Min(FreeFiles(g))]
        /\ Goto(t, "openr")
     \/ /\ ~CanOpen(g, s) \/ MayFailAlloc(s)
        /\ Goto(t, "unreg")
        /\ UNCHANGED <<dev, file, ctx>>
  /\ UNCHANGED <<pipesem, pipeset, pipecreated, inode>>

(* pipe(): fd[0] = open(devname, O_RDONLY); success returns both          *)
(* descriptors to the group, failure goes to errout_with_wrfd.             *)
PipeOpenRead(t) ==
  /\ pc[t] = "openr"
  /\ LET g == GroupOf[t]  s == ctx[t].slot IN
     \/ /\ CanOpen(g, s)
        /\ OpenEnd(g, s, "R")
        /\ ctx' = [ctx EXCEPT ![t] = Ctx0]
        /\ Goto(t, "idle")
     \/ /\ ~CanOpen(g, s) \/ MayFailAlloc(s)
        /\ Goto(t, "closew")
        /\ UNCHANGED <<dev, file, ctx>>
  /\ UNCHANGED <<pipesem, pipeset, pipecreated, inode>>

(* Mutant: the last close leaves the ring buffer indices as they were.  *)
CloseFile_no_reset(t, f, ret) ==
  LET fd == <<GroupOf[t], f>>
      d == file[fd].dev
      m == file[fd].mode
  IN  /\ ~Closing(GroupOf[t])
      /\ dev' = [dev EXCEPT ![d] =
            IF Refs(d) > 1
            THEN IF m = "W" THEN [@ EXCEPT !.nwriters = Dec(@)]
                            ELSE [@ EXCEPT !.nreaders = Dec(@)]
            ELSE [@ EXCEPT !.nreaders = 0, !.nwriters = 0]]
      /\ file' = [file EXCEPT ![fd] = FreeFile]
      /\ ctx' = [ctx EXCEPT ![t].cdev = d, ![t].cslot = dev[d].pipeno,
                            ![t].ret = ret]
      /\ Goto(t, "closechk")
      /\ UNCHANGED <<pipesem, pipeset, pipecreated, inode>>

(* close() of descriptor f of t's group, under the group's fl_sem:        *)
(* pipe_close() takes d_pipeno, then pipecommon_close() drops one         *)
(* reference (the last one resets the buffer and the counts), and the     *)
(* descriptor is released.  pipe_close() continues at "closechk" and then *)
(* returns to ret.                                                        *)
CloseFile(t, f, ret) ==
  LET fd == <<GroupOf[t], f>>
      d == file[fd].dev
      m == file[fd].mode
  IN  /\ ~Closing(GroupOf[t])
      /\ dev' = [dev EXCEPT ![d] =
            IF Refs(d) > 1
            THEN IF m = "W" THEN [@ EXCEPT !.nwriters = Dec(@)]
                            ELSE [@ EXCEPT !.nreaders = Dec(@)]
            ELSE [@ EXCEPT !.nreaders = 0, !.nwriters = 0, !.nbytes = 0]]
      /\ file' = [file EXCEPT ![fd] = FreeFile]
      /\ ctx' = [ctx EXCEPT ![t].cdev = d, ![t].cslot = dev[d].pipeno,
                            ![t].ret = ret]
      /\ Goto(t, "closechk")
      /\ UNCHANGED <<pipesem, pipeset, pipecreated, inode>>

(* A task closes one of its group's descriptors.                          *)
Close(t) ==
  /\ pc[t] = "idle"
  /\ \E fd \in OpenFiles \ InFlight :
       fd[1] = GroupOf[t] /\ CloseFile(t, fd[2], "idle")

(* task_create() by t: the new task, the only one of group h, gets a      *)
(* duplicate of every descriptor of t's table, each opened again through  *)
(* pipecommon_open().                                                     *)
TaskCreate(t, h) ==
  LET g == GroupOf[t]
      Dups(d, m) == Cardinality({f \in Files : file[<<g, f>>] = [dev |-> d, mode |-> m]})
  IN  /\ pc[t] = "idle" /\ h # g
      /\ \A u \in Tasks : GroupOf[u] = h => pc[u] = "idle"
      /\ FreeFiles(h) = Files
      /\ file' = [fd \in FDs |-> IF fd[1] = h THEN file[<<g, fd[2]>>] ELSE file[fd]]
      /\ dev' = [d \in Devs |-> [dev[d] EXCEPT !.nreaders = @ + Dups(d, "R"),
                                               !.nwriters = @ + Dups(d, "W")]]
      /\ UNCHANGED <<pipesem, pipeset, pipecreated, inode, pc, ctx>>

(* pipe_close() returns: to the application, or back into pipe().        *)
CloseReturn(t) ==
  IF ctx[t].ret = "idle" THEN Return(t)
  ELSE /\ Goto(t, ctx[t].ret)
       /\ ctx' = [ctx EXCEPT ![t].cdev = NoDev, ![t].cslot = 0, ![t].ret = "idle"]

(* pipe(), errout_with_wrfd: close(fd[1]), then on to errout_with_driver. *)
PipeCloseWrite(t) ==
  /\ pc[t] = "closew"
  /\ CloseFile(t, ctx[t].wfd, "unreg")

(* Mutant: pipe_close() frees the minor number on every close.          *)
CloseCheck_no_guard(t) ==
  /\ pc[t] = "closechk"
  /\ Goto(t, "closefree") /\ UNCHANGED ctx
  /\ UNCHANGED <<pipesem, pipeset, pipecreated, inode, dev, file>>

(* Mutant: pipe_close() tests d_refs == 1, as if it read the count before *)
(* pipecommon_close() dropped its own reference.                          *)
CloseCheck_refs_one(t) ==
  /\ pc[t] = "closechk"
  /\ IF Refs(ctx[t].cdev) = 1
     THEN Goto(t, "closefree") /\ UNCHANGED ctx
     ELSE CloseReturn(t)
  /\ UNCHANGED <<pipesem, pipeset, pipecreated, inode, dev, file>>

(* pipe_close(): dev = inode->i_private, read after pipecommon_close()    *)
(* released the device; the minor number is released only if d_refs is 0. *)
CloseCheck(t) ==
  /\ pc[t] = "closechk"
  /\ IF Refs(ctx[t].cdev) = 0
     THEN Goto(t, "closefree") /\ UNCHANGED ctx
     ELSE CloseReturn(t)
  /\ UNCHANGED <<pipesem, pipeset, pipecreated, inode, dev, file>>

(* pipe_close(): pipe_free(pipeno).                                       *)
CloseFree(t) ==
  /\ pc[t] = "closefree"
  /\ pipe_free(t, ctx[t].cslot)
  /\ CloseReturn(t)
  /\ UNCHANGED <<pipesem, pipecreated, inode, dev, file>>

(* pipe(), errout_with_driver and errout_with_dev: unregister_driver()    *)
(* and, if this call allocated the device, pipecommon_freedev().  Neither *)
(* clears the g_pipecreated bit.                                          *)
PipeUnregister(t) ==
  /\ pc[t] = "unreg"
  /\ inode' = [inode EXCEPT ![ctx[t].slot] = NoDev]
  /\ dev' = IF ctx[t].dev # NoDev
            THEN [dev EXCEPT ![ctx[t].dev].alive = FALSE] ELSE dev
  /\ Goto(t, "free")
  /\ UNCHANGED <<pipesem, pipeset, pipecreated, file, ctx>>

(* pipe(), errout_with_pipe and errout: pipe_free(pipeno), set_errno()   *)
(* and return ERROR.                                                      *)
PipeFree(t) ==
  /\ pc[t] = "free"
  /\ pipe_free(t, ctx[t].slot)
  /\ Return(t)
  /\ UNCHANGED <<pipesem, pipecreated, inode, dev, file>>

-----------------------------------------------------------------------------
(* pipecommon_read() of one byte: a buffered byte if there is one; 0     *)
(* (EOF) if the buffer is empty and no writer is left; otherwise the task  *)
(* blocks on d_rdsem.                                                      *)
Read(t) ==
  /\ pc[t] = "idle"
  /\ \E f \in GroupFiles(GroupOf[t], "R") :
       LET d == file[<<GroupOf[t], f>>].dev IN
       \/ /\ dev[d].nbytes > 0
          /\ dev' = [dev EXCEPT ![d].nbytes = @ - 1]
          /\ UNCHANGED <<pc, ctx>>
       \/ /\ dev[d].nbytes = 0 /\ dev[d].nwriters = 0
          /\ UNCHANGED <<dev, pc, ctx>>
       \/ /\ dev[d].nbytes = 0 /\ dev[d].nwriters > 0
          /\ ctx' = [ctx EXCEPT ![t].cdev = d]
          /\ Goto(t, "rdblk")
          /\ UNCHANGED dev
  /\ UNCHANGED <<pipesem, pipeset, pipecreated, inode, file>>

(* A reader blocked on d_rdsem runs again once a byte arrived or the last *)
(* writer closed (then it returns 0).                                     *)
ReadWake(t) ==
  /\ pc[t] = "rdblk"
  /\ LET d == ctx[t].cdev IN
     \/ /\ dev[d].nbytes > 0
        /\ dev' = [dev EXCEPT ![d].nbytes = @ - 1]
     \/ /\ dev[d].nbytes = 0 /\ dev[d].nwriters = 0
        /\ UNCHANGED dev
  /\ Return(t)
  /\ UNCHANGED <<pipesem, pipeset, pipecreated, inode, file>>

(* pipecommon_write() of one byte: EPIPE with no reader; buffered if      *)
(* there is room; otherwise the task blocks on d_wrsem.                   *)
Write(t) ==
  /\ pc[t] = "idle"
  /\ \E f \in GroupFiles(GroupOf[t], "W") :
       LET d == file[<<GroupOf[t], f>>].dev IN
       \/ /\ dev[d].nreaders = 0
          /\ UNCHANGED <<dev, pc, ctx>>
       \/ /\ dev[d].nreaders > 0 /\ dev[d].nbytes < PipeSize
          /\ dev' = [dev EXCEPT ![d].nbytes = @ + 1]
          /\ UNCHANGED <<pc, ctx>>
       \/ /\ dev[d].nreaders > 0 /\ dev[d].nbytes = PipeSize
          /\ ctx' = [ctx EXCEPT ![t].cdev = d]
          /\ Goto(t, "wrblk")
          /\ UNCHANGED dev
  /\ UNCHANGED <<pipesem, pipeset, pipecreated, inode, file>>

(* A writer blocked on d_wrsem runs again once there is room or the last  *)
(* reader closed (then it fails with EPIPE).                              *)
WriteWake(t) ==
  /\ pc[t] = "wrblk"
  /\ LET d == ctx[t].cdev IN
     \/ /\ dev[d].nbytes < PipeSize /\ dev[d].nreaders > 0
        /\ dev' = [dev EXCEPT ![d].nbytes = @ + 1]
     \/ /\ dev[d].nreaders = 0
        /\ UNCHANGED dev
  /\ Return(t)
  /\ UNCHANGED <<pipesem, pipeset, pipecreated, inode, file>>

(* A signal delivered to a task blocked in read or write: EINTR.          *)
Interrupt(t) ==
  /\ pc[t] \in {"rdblk", "wrblk"}
  /\ Return(t)
  /\ UNCHANGED <<pipesem, pipeset, pipecreated, inode, dev, file>>

-----------------------------------------------------------------------------
(* The steps of a call in progress, which the scheduler keeps running.    *)
Progress(t) ==
  \/ PipeAlloc(t) \/ PipeOpenWrite(t) \/ PipeOpenRead(t) \/ PipeCloseWrite(t)
  \/ CloseCheck(t) \/ CloseFree(t) \/ PipeUnregister(t) \/ PipeFree(t)

Next ==
  \E t \in Tasks :
    \/ PipeLock(t) \/ Close(t) \/ Read(t) \/ Write(t)
    \/ \E h \in Groups : TaskCreate(t, h)
    \/ ReadWake(t) \/ WriteWake(t) \/ Interrupt(t)
    \/ Progress(t)

Spec == Init /\ [][Next]_vars

(* Every ready task is eventually scheduled: weak fairness on the steps of *)
(* a call already under way.  Starting a call is the application's choice. *)
(* A task blocked on g_pipesem in pipe_free() is not overtaken for ever:  *)
(* sem_post() gives the count to a waiting task, so the wait succeeds the  *)
(* next time g_pipesem is released (strong fairness).                      *)
FairSpec ==
  /\ Spec
  /\ \A t \in Tasks : WF_vars(Progress(t)) /\ SF_vars(CloseFree(t) \/ PipeFree(t))

-----------------------------------------------------------------------------
(* Tasks inside pipe() that own minor number s.                           *)
Owners(s) ==
  {t \in Tasks : (pc[t] \in {"openw", "openr", "closew", "unreg", "free"}
                  \/ ctx[t].ret = "unreg")
                 /\ ctx[t].slot = s}
(* Descriptors open on a device that carries minor number s.              *)
FilesOf(s) == {fd \in OpenFiles : dev[file[fd].dev].pipeno = s}

(* The spec's PipeSlotTable invariant: a minor number is released only    *)
(* when no open descriptor of any group refers to its device (pipe_close() *)
(* frees it only after pipecommon_close() dropped the last reference).    *)
SlotHeldWhileOpen == \A s \in Slots : FilesOf(s) # {} => s \in pipeset

(* No descriptor and no blocked task refers to a device whose memory      *)
(* pipecommon_freedev() released.                                         *)
NoUseAfterFree ==
  /\ \A fd \in OpenFiles : dev[file[fd].dev].alive
  /\ \A t \in Tasks : pc[t] \in {"rdblk", "wrblk"} => dev[ctx[t].cdev].alive

(* g_pipecreated says "/dev/pipeN already exists": pipe() skips          *)
(* register_driver() for such a minor number, so its device must still be *)
(* registered under that path.                                            *)
CreatedMeansRegistered ==
  \A s \in pipecreated : inode[s] # NoDev /\ dev[inode[s]].pipeno = s

(* When pipe() returns success, the device it opened has exactly the two  *)
(* new descriptors on it, one writer, one reader and no stale data: a     *)
(* reused minor number never hands out a pipe someone else still holds.   *)
FreshPipe ==
  [][\A t \in Tasks :
       (pc[t] = "openr" /\ pc'[t] = "idle") =>
         LET g == GroupOf[t]
             d == file[<<g, ctx[t].wfd>>].dev IN
         /\ {fd \in OpenFiles' : file'[fd].dev = d}
              = {<<g, ctx[t].wfd>>, <<g, Min(FreeFiles(g))>>}
         /\ dev'[d].nwriters = 1 /\ dev'[d].nreaders = 1
         /\ dev'[d].nbytes = 0]_vars

(* Once nothing refers to minor number s any more (no descriptor, no      *)
(* pipe() call owning it) it is eventually returned to the allocator,     *)
(* whatever pipe() calls of other tasks hold g_pipesem meanwhile.         *)
SlotEventuallyReclaimed ==
  \A s \in Slots :
    (s \in pipeset /\ FilesOf(s) = {} /\ Owners(s) = {}) ~> s \notin pipeset
=============================================================================
