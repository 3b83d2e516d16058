------------------------------- MODULE MCPipe -------------------------------
(* Model-checking instances of Pipe.  Tasks, groups and device blocks are *)
(* model values; descriptors are the numbers of a small file table.       *)
EXTENDS Pipe, TLC

CONSTANTS t1, t2, g1, g2, d1, d2

MCTasks == {t1, t2}
MCTasks1 == {t1}     \* a single-threaded program: calls never overlap
MCOneGroup == [t \in MCTasks |-> g1]         \* two threads of one program
MCTwoGroups == [t \in MCTasks |-> IF t = t1 THEN g1 ELSE g2]  \* two programs
MCDevs == {d1, d2}
MCDevs1 == {d1}
MCFiles1 == 0 .. 0   \* fd[0] of every pipe() fails with EMFILE
MCFiles2 == 0 .. 1   \* one whole pipe
MCFiles3 == 0 .. 2   \* a second pipe() runs out of descriptors at fd[0]
=============================================================================
