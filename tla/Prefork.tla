------------------------------ MODULE Prefork -------------------------------
(***************************************************************************)
(* The master process of main(): it forks one worker per slot of pid[],    *)
(* installs the two reboot handlers, and for every child wait() returns it *)
(* forks another one into the slot of the one that ended.  The workers are *)
(* seen from outside: they start, die, or leave their loop when asked to.  *)
(*                                                                         *)
(* A handler runs between any two steps of the master.  Bounds: MaxDeaths  *)
(* on the workers that die by themselves, MaxReboots on the signals sent,  *)
(* MaxForkFails on the forks that fail.                                    *)
(***************************************************************************)
EXTENDS Integers, FiniteSets

CONSTANTS WorkerNum,    \* cf.worker_num
          Pids,         \* the process identifiers the kernel gives out
          MaxDeaths, MaxReboots, MaxForkFails,
          None          \* pid -1: the initial value, a failed fork, a failed wait

ASSUME WorkerNumAssumption == WorkerNum \in Nat \ {0}
ASSUME PidsAssumption == IsFiniteSet(Pids) /\ Cardinality(Pids) > WorkerNum /\ None \notin Pids
ASSUME BoundsAssumption == MaxDeaths \in Nat /\ MaxReboots \in Nat /\ MaxForkFails \in Nat

VARIABLES mpc,          \* where the master is
          i,            \* its loop index
          pid,          \* the table of workers
          cpid,         \* what wait() returned
          born,         \* what fork() returned, before it is stored in pid[i]
          installed,    \* the reboot signals that have their handler
          proc,         \* the process table: what each pid stands for
          deaths, reboots, forkfails

vars == <<mpc, i, pid, cpid, born, installed, proc, deaths, reboots, forkfails>>

Slots   == 1..WorkerNum
REBOOT1 == 10
REBOOT2 == 12

\* A worker that has not ended; a child that wait() has yet to return
Running(p) == proc[p] \in {"starting", "serving", "leaving"}
Child(p)   == Running(p) \/ proc[p] = "zombie"

Master == mpc \notin {"returned", "killed"}

TypeOK ==
  /\ mpc \in {"fork", "store", "handle1", "handle2", "wait", "scan", "refork",
              "restore", "returned", "killed"}
  /\ i \in 1..(WorkerNum + 1)
  /\ pid \in [Slots -> Pids \cup {None}]
  /\ cpid \in Pids \cup {None} /\ born \in Pids \cup {None}
  /\ installed \subseteq {REBOOT1, REBOOT2}
  /\ proc \in [Pids -> {"free", "starting", "serving", "leaving", "zombie"}]
  /\ deaths \in 0..MaxDeaths /\ reboots \in 0..MaxReboots /\ forkfails \in 0..MaxForkFails

Init ==
  /\ mpc = "fork" /\ i = 1
  /\ pid = [s \in Slots |-> None]
  /\ cpid = None /\ born = None /\ installed = {}
  /\ proc = [p \in Pids |-> "free"]
  /\ deaths = 0 /\ reboots = 0 /\ forkfails = 0

-----------------------------------------------------------------------------
(* fork() *)

\* The kernel gives the child a pid that is not in use
ForkChild ==
  \E p \in Pids :
    /\ proc[p] = "free"
    /\ proc' = [proc EXCEPT ![p] = "starting"] /\ born' = p
    /\ UNCHANGED forkfails

ForkFails ==
  /\ forkfails < MaxForkFails /\ forkfails' = forkfails + 1
  /\ born' = None
  /\ UNCHANGED proc

-----------------------------------------------------------------------------
(* The first loop of main *)

Fork ==
  /\ mpc = "fork" /\ (ForkChild \/ ForkFails)
  /\ mpc' = "store"
  /\ UNCHANGED <<i, pid, cpid, installed, deaths, reboots>>

LastSlot == i = WorkerNum

\* pid[i] = fork(); the master returns from main when it is -1
Store ==
  /\ mpc = "store"
  /\ pid' = [pid EXCEPT ![i] = born]
  /\ i' = i + 1
  /\ mpc' = IF born = None THEN "returned" ELSE IF LastSlot THEN "handle1" ELSE "fork"
  /\ born' = None
  /\ UNCHANGED <<cpid, installed, proc, deaths, reboots, forkfails>>

-----------------------------------------------------------------------------
(* The second loop of main *)

Handle1 ==
  /\ mpc = "handle1" /\ mpc' = "handle2"
  /\ installed' = installed \cup {REBOOT1}
  /\ UNCHANGED <<i, pid, cpid, born, proc, deaths, reboots, forkfails>>

Handle2 ==
  /\ mpc = "handle2" /\ mpc' = "wait"
  /\ installed' = installed \cup {REBOOT2}
  /\ UNCHANGED <<i, pid, cpid, born, proc, deaths, reboots, forkfails>>

\* wait() returns a child that has ended, or -1 when there is no child at all
Wait ==
  /\ mpc = "wait" /\ mpc' = "scan"
  /\ \/ \E p \in Pids : /\ proc[p] = "zombie" /\ cpid' = p
                        /\ proc' = [proc EXCEPT ![p] = "free"]
     \/ (\A p \in Pids : ~Child(p)) /\ cpid' = None /\ UNCHANGED proc
  /\ UNCHANGED <<i, pid, born, installed, deaths, reboots, forkfails>>

\* Mutation: the slot after the one that was found
NextSlot(s) == IF s = WorkerNum THEN 1 ELSE s + 1

\* Where the new worker is to go
SlotOf(s) == s

\* The loop over pid[] looks for the first slot that holds cpid
Scan ==
  /\ mpc = "scan"
  /\ \/ \E s \in Slots :
          /\ pid[s] = cpid /\ \A r \in 1..(s - 1) : pid[r] # cpid
          /\ i' = SlotOf(s) /\ mpc' = "refork"
     \/ (\A s \in Slots : pid[s] # cpid) /\ mpc' = "handle1" /\ i' = WorkerNum + 1
  /\ UNCHANGED <<pid, cpid, born, installed, proc, deaths, reboots, forkfails>>

Refork ==
  /\ mpc = "refork" /\ (ForkChild \/ ForkFails)
  /\ mpc' = "restore"
  /\ UNCHANGED <<i, pid, cpid, installed, deaths, reboots>>

\* Mutation: the child is not entered into the table
OldEntry == pid[i]

NewEntry == born

\* pid[i] = fork(), then break
Restore ==
  /\ mpc = "restore" /\ mpc' = "handle1"
  /\ pid' = [pid EXCEPT ![i] = NewEntry]
  /\ born' = None
  /\ UNCHANGED <<i, cpid, installed, proc, deaths, reboots, forkfails>>

-----------------------------------------------------------------------------
(* The handlers *)

\* Mutation: the loop leaves out the last slot
ButLast == 1..(WorkerNum - 1)

\* The slots a handler goes through
AllSlots == 1..WorkerNum

\* kill(pid, ..) for every slot; kill(-1, ..) reaches every process there is
Targets == {p \in Pids : Running(p) /\ \E s \in AllSlots : pid[s] \in {p, None}}

\* What signal 9 does, and signal 16 before and after the worker handles it
Killed(p)   == "zombie"
Asked(p)    == IF proc[p] = "starting" THEN "zombie" ELSE "leaving"

\* The signal interrupts wait(), or comes at another moment.
Reboot(signal) ==
  /\ Master /\ reboots < MaxReboots /\ reboots' = reboots + 1
  /\ IF signal \in installed
     THEN /\ proc' = [p \in Pids |-> IF p \notin Targets THEN proc[p]
                                     ELSE IF signal = REBOOT1 THEN Killed(p) ELSE Asked(p)]
          /\ \/ mpc = "wait" /\ mpc' = "scan" /\ cpid' = None
             \/ UNCHANGED <<mpc, cpid>>
     ELSE mpc' = "killed" /\ UNCHANGED <<proc, cpid>>
  /\ UNCHANGED <<i, pid, born, installed, deaths, forkfails>>

-----------------------------------------------------------------------------
(* The workers *)

\* workerloop sets isexit to 0 and installs the handler of signal 16
Started(p) ==
  /\ proc[p] = "starting" /\ proc' = [proc EXCEPT ![p] = "serving"]
  /\ UNCHANGED <<mpc, i, pid, cpid, born, installed, deaths, reboots, forkfails>>

\* exit(0) in acceptfun, or a crash
Dies(p) ==
  /\ Running(p) /\ deaths < MaxDeaths /\ deaths' = deaths + 1
  /\ proc' = [proc EXCEPT ![p] = "zombie"]
  /\ UNCHANGED <<mpc, i, pid, cpid, born, installed, reboots, forkfails>>

\* A worker whose isexit is 1 leaves its loop once something wakes it
Leaves(p) ==
  /\ proc[p] = "leaving" /\ proc' = [proc EXCEPT ![p] = "zombie"]
  /\ UNCHANGED <<mpc, i, pid, cpid, born, installed, deaths, reboots, forkfails>>

MasterStep == Fork \/ Store \/ Handle1 \/ Handle2 \/ Wait \/ Scan \/ Refork \/ Restore

Next ==
  \/ MasterStep
  \/ Reboot(REBOOT1) \/ Reboot(REBOOT2)
  \/ \E p \in Pids : Started(p) \/ Dies(p) \/ Leaves(p)

Spec == Init /\ [][Next]_vars

\* The master and the starting workers run.  A worker that was asked to leave
\* need not: it may sleep for ever.
FairSpec == Spec /\ WF_vars(MasterStep) /\ \A p \in Pids : WF_vars(Started(p))
-----------------------------------------------------------------------------
(* Properties *)

\* The master keeps track of its workers through deaths, reboots and failed
\* forks: a child that has not been waited for is in the table once, or in the
\* master's hands between fork() and the assignment; and only the slot that is
\* being filled names a process that is gone.
Tracked ==
  Master =>
    /\ \A p \in Pids : Child(p) => p = born \/ \E s \in Slots : pid[s] = p
    /\ \A s, r \in Slots : pid[s] = pid[r] /\ pid[s] # None => s = r
    /\ \A s \in Slots :
         \/ pid[s] = None
         \/ Child(pid[s]) /\ pid[s] # born
         \/ mpc = "scan" /\ pid[s] = cpid
         \/ mpc \in {"refork", "restore"} /\ s = i

\* A reboot signal ends, or asks to leave, every worker there is when it comes,
\* whatever the master is at: it misses only the one that fork() has returned
\* and the table does not have yet.
RebootReaches ==
  [][\A p \in Pids : (reboots' # reboots /\ mpc' # "killed") /\ Running(p) /\ p # born
       => proc'[p] \in {"leaving", "zombie"}]_vars

\* Once the workers stop dying and the signals end, every slot has a worker that
\* serves, or goes on serving until something wakes it after it was asked to
\* leave; but after a failed fork a slot may stay empty until wait() fails.
Refilled ==
  \/ <>(~Master \/ forkfails > 0)
  \/ <>[](\A s \in Slots : pid[s] \in Pids /\ proc[pid[s]] \in {"serving", "leaving"})
=============================================================================
