------------------------------ MODULE ProcfsCm ------------------------------
(***************************************************************************)
(* The procfs "connectivity" directory of src/os/fs/procfs/fs_procfscm.c:  *)
(* path lookup (cm_findnode), the file operations cm_open, cm_close,       *)
(* cm_read and cm_dup, and the directory operations cm_opendir,            *)
(* cm_readdir, cm_rewinddir and cm_closedir.  Every read formats the       *)
(* node's value again into the line buffer and copies from the file's      *)
(* f_pos with procfs_memcpy(); the values come from the network drivers,   *)
(* which may change them between two reads.  The tasks of a group share    *)
(* the open files, so two tasks may read one descriptor at once.           *)
(***************************************************************************)
EXTENDS Integers, SequencesExt, Bitwise

CONSTANTS
  Tasks,          \* tasks of one group
  FileHandles,    \* descriptors of the group's file table
  DirHandles,     \* DIR streams
  Paths,          \* relpaths handed to the connectivity entry
  OFlags,         \* open() flags tried
  BufLens,        \* read() sizes tried
  IfaceName,      \* the string cm_get_interface() copies (per CONFIG_*)
  NwBearer,       \* CM_NWBEARER_* value selected by CONFIG_*
  RssiValues,     \* what the WiFi driver may report as RSSI
  BitrateValues,  \* what the WiFi driver may report as bit rate
  IpTexts,        \* what inet_ntop() may produce for the interface
  IpStrLen        \* INET_ADDRSTRLEN or INET6_ADDRSTRLEN passed to inet_ntop

CM_LINELEN == 32
CM_IPADDR_LEN == 32
(* Mutant: mac declared one byte short for "en1". *)
MacLen_short == 3
MacLen == 4                       \* char mac[4] in cm_ipaddr_read()
O_RDONLY == 1
O_WRONLY == 2
NULL == 0                         \* no node (indices start at 1)

(* g_cm_nodeinfo and g_cm_level0info. *)
Node(rel, nm, ty, dt) == [relpath |-> rel, name |-> nm, nodetype |-> ty, dtype |-> dt]
g_cm_nodeinfo ==
  << Node("", "connectivity", "LEVEL0", "DIR"),
     Node("nwbearer", "nwbearer", "NWBEARER", "FILE"),
     Node("available_bearer", "available_bearer", "AVAILABLE_BEARER", "FILE"),
     Node("rssi", "rssi", "RSSI", "FILE"),
     Node("ipaddr", "ipaddr", "IPADDR", "FILE"),
     Node("bitrate", "bitrate", "BITRATE", "FILE") >>
g_cm_level0info == Tail(g_cm_nodeinfo)

(* A relpath as cm_findnode() reads it: whether it starts with the 12     *)
(* characters "connectivity", whether a '/' follows, and the rest.        *)
RelPaths == [head : {"connectivity", "other"}, slash : BOOLEAN,
             rest : {g_cm_nodeinfo[i].relpath : i \in 1 .. 6} \cup {"junk"}]

VARIABLES
  rssi, bitrate, ipaddr,   \* the values the drivers report now
  file,       \* per descriptor: node, f_pos, and (ghost) the bytes read
  dir,        \* per DIR stream: index, nentries, and (ghost) names listed
  pc, ctx,    \* a task inside cm_read() between the copy and f_pos update
  fault       \* (ghost) buffers a step wrote or read past their end

vars == <<rssi, bitrate, ipaddr, file, dir, pc, ctx, fault>>

FileNodes == {i \in 1 .. 6 : g_cm_nodeinfo[i].dtype = "FILE"}
ClosedFile == [open |-> FALSE, node |-> 2, pos |-> 0, got |-> <<>>,
               path |-> CHOOSE p \in RelPaths : TRUE]
ClosedDir == [open |-> FALSE, index |-> 0, nentries |-> 0, listed |-> <<>>,
              ended |-> FALSE]
Idle == [h |-> CHOOSE h \in FileHandles : TRUE, bytes |-> <<>>]

(* snprintf("%d"): the decimal text of an integer, as characters.         *)
RECURSIVE Digits(_)
Digits(n) ==
  LET d == <<"0", "1", "2", "3", "4", "5", "6", "7", "8", "9">>[(n % 10) + 1]
  IN  IF n < 10 THEN <<d>> ELSE Digits(n \div 10) \o <<d>>
Decimal(v) == IF v < 0 THEN <<"-">> \o Digits(-v) ELSE Digits(v)

TypeOK ==
  /\ rssi \in RssiValues /\ bitrate \in BitrateValues /\ ipaddr \in IpTexts
  /\ \A h \in FileHandles :
       /\ file[h].open \in BOOLEAN /\ file[h].node \in FileNodes
       /\ file[h].pos \in Nat /\ file[h].got \in Seq(STRING)
       /\ file[h].path \in RelPaths
  /\ \A d \in DirHandles :
       dir[d].index \in Nat /\ dir[d].listed \in Seq(STRING)
  /\ pc \in [Tasks -> {"idle", "advance"}]
  /\ fault \subseteq {"mac", "ipaddr", "line"}

Init ==
  /\ rssi \in RssiValues /\ bitrate \in BitrateValues /\ ipaddr \in IpTexts
  /\ file = [h \in FileHandles |-> ClosedFile]
  /\ dir = [d \in DirHandles |-> ClosedDir]
  /\ pc = [t \in Tasks |-> "idle"]
  /\ ctx = [t \in Tasks |-> Idle]
  /\ fault = {}

-----------------------------------------------------------------------------
(* cm_findnode(): the index of the node named by relpath, or NULL.  The   *)
(* "connectivity" prefix is compared with strncmp(..., 12) and one '/'    *)
(* after it is skipped if present.                                        *)
cm_findnode(p) ==
  LET m == {i \in 1 .. 6 : g_cm_nodeinfo[i].relpath = p.rest}
  IN  IF p.head # "connectivity" \/ m = {} THEN NULL ELSE Min(m)

IsFile(i) == i # NULL /\ g_cm_nodeinfo[i].dtype = "FILE"
IsDir(i) == i # NULL /\ g_cm_nodeinfo[i].dtype = "DIR"

(* The drivers change the values they report at any time.                 *)
DriverUpdate ==
  /\ \/ rssi' \in RssiValues /\ UNCHANGED <<bitrate, ipaddr>>
     \/ bitrate' \in BitrateValues /\ UNCHANGED <<rssi, ipaddr>>
     \/ ipaddr' \in IpTexts /\ UNCHANGED <<rssi, bitrate>>
  /\ UNCHANGED <<file, dir, pc, ctx, fault>>

(* Mutant: cm_open() without the DIRENT_ISFILE() test.                   *)
cm_open_any_node(t) ==
  /\ pc[t] = "idle"
  /\ \E p \in Paths, fl \in OFlags :
       LET i == cm_findnode(p) IN
       \/ /\ (fl & O_WRONLY) = 0 /\ (fl & O_RDONLY) # 0
          /\ i # NULL
          /\ \E h \in FileHandles : ~file[h].open
          /\ LET h == Min({k \in FileHandles : ~file[k].open})
             IN  file' = [file EXCEPT ![h] = [ClosedFile EXCEPT !.open = TRUE,
                                                  !.node = i, !.path = p]]
       \/ UNCHANGED file
  /\ UNCHANGED <<rssi, bitrate, ipaddr, dir, pc, ctx, fault>>

(* cm_open(): read-only access only (EACCES), a known node (ENOENT) that  *)
(* is a file (EISDIR); kmm_zalloc() may fail (ENOMEM).  The VFS puts the  *)
(* container in the lowest free descriptor with f_pos 0.                  *)
cm_open(t) ==
  /\ pc[t] = "idle"
  /\ \E p \in Paths, fl \in OFlags :
       LET i == cm_findnode(p) IN
       \/ /\ (fl & O_WRONLY) = 0 /\ (fl & O_RDONLY) # 0
          /\ IsFile(i)
          /\ \E h \in FileHandles : ~file[h].open
          /\ LET h == Min({k \in FileHandles : ~file[k].open})
             IN  file' = [file EXCEPT ![h] = [ClosedFile EXCEPT !.open = TRUE,
                                                  !.node = i, !.path = p]]
       \/ UNCHANGED file   \* EACCES, ENOENT, EISDIR, ENOMEM or EMFILE
  /\ UNCHANGED <<rssi, bitrate, ipaddr, dir, pc, ctx, fault>>

(* cm_close(): kmm_free() of the container; the descriptor is released.  *)
cm_close(t) ==
  /\ pc[t] = "idle"
  /\ \E h \in FileHandles :
       file[h].open /\ file' = [file EXCEPT ![h] = ClosedFile]
  /\ UNCHANGED <<rssi, bitrate, ipaddr, dir, pc, ctx, fault>>

(* cm_dup(): a copy of the container in the lowest free descriptor; the  *)
(* VFS copies f_pos with it.  kmm_malloc() may fail (ENOMEM).             *)
cm_dup(t) ==
  /\ pc[t] = "idle"
  /\ \E h \in FileHandles :
       /\ file[h].open
       /\ \/ /\ \E k \in FileHandles : ~file[k].open
             /\ LET k == Min({j \in FileHandles : ~file[j].open})
                IN  file' = [file EXCEPT ![k] = file[h]]
          \/ UNCHANGED file   \* ENOMEM or EMFILE
  /\ UNCHANGED <<rssi, bitrate, ipaddr, dir, pc, ctx, fault>>

(* The line each node's read function formats with snprintf() into the   *)
(* CM_LINELEN buffer: the bearer number selected by CONFIG_*, the RSSI and *)
(* bit rate the driver reports, the address text inet_ntop() produced.    *)
cm_nwbearer_line == Decimal(NwBearer)
cm_available_bearer_line == Decimal(NwBearer)
cm_rssi_line(r) == Decimal(r)
cm_ipaddr_line(a) == a
cm_bitrate_line(b) == Decimal(b)

(* cm_read()'s switch on the node type, given the driver values.          *)
cm_line(i, r, b, a) ==
  CASE g_cm_nodeinfo[i].nodetype = "NWBEARER" -> cm_nwbearer_line
    [] g_cm_nodeinfo[i].nodetype = "AVAILABLE_BEARER" -> cm_available_bearer_line
    [] g_cm_nodeinfo[i].nodetype = "RSSI"    -> cm_rssi_line(r)
    [] g_cm_nodeinfo[i].nodetype = "IPADDR"  -> cm_ipaddr_line(a)
    [] g_cm_nodeinfo[i].nodetype = "BITRATE" -> cm_bitrate_line(b)

(* procfs_memcpy(line, linesize, buffer, buflen, &offset): nothing if     *)
(* offset >= linesize, else min(linesize - offset, buflen) bytes from     *)
(* line + offset.  linesize is what snprintf() returned, the untruncated  *)
(* length, while the buffer holds at most CM_LINELEN - 1 characters and a *)
(* NUL; bytes past the buffer are whatever follows it ("?").              *)
procfs_memcpy(text, buflen, off) ==
  IF off >= Len(text) THEN <<>>
  ELSE [k \in 1 .. Min({Len(text) - off, buflen}) |->
          LET j == off + k IN
          IF j < CM_LINELEN THEN text[j] ELSE IF j = CM_LINELEN THEN "NUL" ELSE "?"]

(* cm_get_interface(): the interface name CONFIG_* selects.              *)
cm_get_interface == IfaceName

(* cm_ipaddr_read(): strcpy() of the interface name into mac[4], then    *)
(* inet_ntop() of the address into ipaddr[CM_IPADDR_LEN] with the size   *)
(* IpStrLen; the buffers it overruns.                                    *)
cm_ipaddr_faults ==
  (IF Len(cm_get_interface) + 1 > MacLen THEN {"mac"} ELSE {})
  \cup (IF Len(ipaddr) + 1 > CM_IPADDR_LEN /\ Len(ipaddr) + 1 <= IpStrLen
        THEN {"ipaddr"} ELSE {})

(* cm_read(): the node's read function at the current f_pos, up to the   *)
(* copy; the f_pos update is a step of its own.                          *)
cm_read(t) ==
  /\ pc[t] = "idle"
  /\ \E h \in FileHandles, n \in BufLens :
       /\ file[h].open
       /\ LET i == file[h].node
              text == cm_line(i, rssi, bitrate, ipaddr)
              bytes == procfs_memcpy(text, n, file[h].pos)
          IN  /\ ctx' = [ctx EXCEPT ![t] = [h |-> h, bytes |-> bytes]]
              /\ fault' = fault
                   \cup (IF g_cm_nodeinfo[i].nodetype = "IPADDR" THEN cm_ipaddr_faults ELSE {})
                   \cup (IF file[h].pos + Len(bytes) > CM_LINELEN THEN {"line"} ELSE {})
  /\ pc' = [pc EXCEPT ![t] = "advance"]
  /\ UNCHANGED <<rssi, bitrate, ipaddr, file, dir>>

(* cm_read(): "if (ret > 0) filep->f_pos += ret", on the descriptor's    *)
(* struct file as it is now, and return.                                 *)
cm_read_advance(t) ==
  /\ pc[t] = "advance"
  /\ LET h == ctx[t].h
         b == ctx[t].bytes
     IN  file' = IF file[h].open /\ b # <<>>
                 THEN [file EXCEPT ![h].pos = @ + Len(b), ![h].got = @ \o b]
                 ELSE file
  /\ pc' = [pc EXCEPT ![t] = "idle"]
  /\ ctx' = [ctx EXCEPT ![t] = Idle]
  /\ UNCHANGED <<rssi, bitrate, ipaddr, dir, fault>>

-----------------------------------------------------------------------------
(* cm_opendir(): a known node (ENOENT) that is a directory (ENOTDIR);    *)
(* kmm_zalloc() may fail (ENOMEM).  For the top level: level 1,          *)
(* nentries CM_NLEVEL0NODES, index 0.                                    *)
cm_opendir(t) ==
  /\ pc[t] = "idle"
  /\ \E p \in Paths, d \in DirHandles :
       /\ ~dir[d].open
       /\ \/ /\ IsDir(cm_findnode(p))
             /\ dir' = [dir EXCEPT ![d] = [ClosedDir EXCEPT !.open = TRUE,
                                           !.nentries = Len(g_cm_level0info)]]
          \/ UNCHANGED dir   \* ENOENT, ENOTDIR or ENOMEM
  /\ UNCHANGED <<rssi, bitrate, ipaddr, file, pc, ctx, fault>>

(* cm_readdir(): -ENOENT once index reaches nentries, else the entry at  *)
(* index and index + 1.                                                  *)
cm_readdir(t) ==
  /\ pc[t] = "idle"
  /\ \E d \in DirHandles :
       /\ dir[d].open
       /\ LET index == dir[d].index IN
          dir' = [dir EXCEPT ![d] =
            IF index >= @.nentries THEN [@ EXCEPT !.ended = TRUE]
            ELSE [@ EXCEPT !.index = index + 1,
                           !.listed = Append(@, g_cm_level0info[index + 1].name)]]
  /\ UNCHANGED <<rssi, bitrate, ipaddr, file, pc, ctx, fault>>

(* Mutant: rewinddir() that forgets to reset the index.                  *)
cm_rewinddir_no_reset(t) ==
  /\ pc[t] = "idle"
  /\ \E d \in DirHandles :
       /\ dir[d].open
       /\ dir' = [dir EXCEPT ![d].listed = <<>>, ![d].ended = FALSE]
  /\ UNCHANGED <<rssi, bitrate, ipaddr, file, pc, ctx, fault>>

(* cm_rewinddir(): index 0 (a new listing starts).                       *)
cm_rewinddir(t) ==
  /\ pc[t] = "idle"
  /\ \E d \in DirHandles :
       /\ dir[d].open
       /\ dir' = [dir EXCEPT ![d].index = 0, ![d].listed = <<>>, ![d].ended = FALSE]
  /\ UNCHANGED <<rssi, bitrate, ipaddr, file, pc, ctx, fault>>

(* cm_closedir(): kmm_free() of the stream.                              *)
cm_closedir(t) ==
  /\ pc[t] = "idle"
  /\ \E d \in DirHandles : dir[d].open /\ dir' = [dir EXCEPT ![d] = ClosedDir]
  /\ UNCHANGED <<rssi, bitrate, ipaddr, file, pc, ctx, fault>>

-----------------------------------------------------------------------------
(* cm_operations: the calls the procfs layer dispatches.                 *)
Next ==
  \/ DriverUpdate
  \/ \E t \in Tasks :
       \/ cm_open(t) \/ cm_close(t) \/ cm_dup(t) \/ cm_read(t)
       \/ cm_read_advance(t) \/ cm_opendir(t) \/ cm_readdir(t)
       \/ cm_rewinddir(t) \/ cm_closedir(t)

Spec == Init /\ [][Next]_vars

-----------------------------------------------------------------------------
(* All texts node i may produce, for any driver values.                   *)
Texts(i) == {cm_line(i, r, b, a) : r \in RssiValues, b \in BitrateValues, a \in IpTexts}

(* What a program reads from a descriptor, from open() on, is the start  *)
(* of one value's line: cm_read() formats the line again on every call    *)
(* and continues at f_pos, and two tasks may share the descriptor.        *)
ReadSnapshot ==
  \A h \in FileHandles :
    file[h].open => \E x \in Texts(file[h].node) : IsPrefix(file[h].got, x)

(* readdir() from opendir() or rewinddir() up to -ENOENT lists every      *)
(* entry of g_cm_level0info once, in order.                               *)
DirListing ==
  \A d \in DirHandles :
    dir[d].open /\ dir[d].ended =>
      dir[d].listed = [k \in 1 .. Len(g_cm_level0info) |-> g_cm_level0info[k].name]

(* No read writes or reads past mac[4], ipaddr[CM_IPADDR_LEN] or the      *)
(* CM_LINELEN line buffer.                                                *)
BuffersRespected == fault = {}
=============================================================================
