--------------------------- MODULE PreforkProofs ----------------------------
(***************************************************************************)
(* The master never loses a worker, whatever the number of slots and of    *)
(* process identifiers, deaths, reboots and failed forks.                  *)
(***************************************************************************)
EXTENDS Prefork, TLAPS

\* Where the loop index points, and what the slots it leaves behind hold
IndexInv ==
  /\ mpc \in {"fork", "store"} => i \in Slots /\ \A s \in Slots : s >= i => pid[s] = None
  /\ mpc \in {"refork", "restore"} => i \in Slots

\* The child between fork() and the assignment: it has not been waited for,
\* and no slot but the one being filled has its pid
BornInv ==
  /\ mpc \notin {"store", "restore"} /\ Master => born = None
  /\ born # None /\ Master => Child(born) /\ \A s \in Slots : pid[s] = born => s = i

\* What wait() has returned is gone; its slot is the one being filled
GoneInv ==
  /\ mpc = "scan" /\ cpid # None => ~Child(cpid)
  /\ mpc = "refork" => pid[i] = None \/ ~Child(pid[i])
  /\ mpc = "restore" => pid[i] = None \/ ~Child(pid[i]) \/ pid[i] = born

IInv == TypeOK /\ Tracked /\ IndexInv /\ BornInv /\ GoneInv

\* Before the first fork the table is empty and no worker lives.
LEMMA InitIInv == Init => IInv
<1> SUFFICES ASSUME Init PROVE IInv  OBVIOUS
<1> USE WorkerNumAssumption, PidsAssumption, BoundsAssumption
<1>1. TypeOK
  BY DEF Init, TypeOK, Slots
<1>2. Tracked
  BY DEF Init, Tracked, Child, Running
<1>3. IndexInv /\ BornInv /\ GoneInv
  BY DEF Init, IndexInv, BornInv, GoneInv, Slots
<1> QED  BY <1>1, <1>2, <1>3 DEF IInv

\* The types
LEMMA NextTypeOK ==
  ASSUME IInv, [Next]_vars
  PROVE  TypeOK'
<1> USE WorkerNumAssumption, PidsAssumption, BoundsAssumption DEF IInv, TypeOK, Slots
<1>1. ASSUME ForkChild \/ ForkFails
      PROVE  /\ born' \in Pids \cup {None} /\ forkfails' \in 0..MaxForkFails
             /\ proc' \in [Pids -> {"free", "starting", "serving", "leaving", "zombie"}]
  BY <1>1 DEF ForkChild, ForkFails
<1>2. CASE Fork
  BY <1>1, <1>2 DEF Fork
<1>3. CASE Store
  BY <1>3 DEF Store, LastSlot, IndexInv
<1>4. CASE Handle1 \/ Handle2
  BY <1>4 DEF Handle1, Handle2
<1>5. CASE Wait
  BY <1>5 DEF Wait
<1>6. CASE Scan
  BY <1>6 DEF Scan, SlotOf
<1>7. CASE Refork
  BY <1>1, <1>7 DEF Refork
<1>8. CASE Restore
  BY <1>8 DEF Restore, NewEntry
<1>9. ASSUME NEW signal, Reboot(signal) PROVE TypeOK'
  <2>1. proc' \in [Pids -> {"free", "starting", "serving", "leaving", "zombie"}]
    BY <1>9 DEF Reboot, Killed, Asked
  <2>2. reboots' \in 0..MaxReboots
    BY <1>9 DEF Reboot
  <2> QED  BY <1>9, <2>1, <2>2 DEF Reboot
<1>10. ASSUME NEW p \in Pids, Started(p) \/ Dies(p) \/ Leaves(p) PROVE TypeOK'
  BY <1>10 DEF Started, Dies, Leaves
<1>11. CASE UNCHANGED vars
  BY <1>11 DEF vars
<1> QED
  BY <1>2, <1>3, <1>4, <1>5, <1>6, <1>7, <1>8, <1>9, <1>10, <1>11 DEF Next, MasterStep

\* What a step of somebody else than the master does to the processes: none
\* appears, and none is forgotten before the master waits for it
LEMMA OthersKeep ==
  ASSUME TypeOK, Reboot(REBOOT1) \/ Reboot(REBOOT2)
                   \/ \E p \in Pids : Started(p) \/ Dies(p) \/ Leaves(p)
  PROVE  /\ \A p \in Pids : Child(p)' <=> Child(p)
         /\ UNCHANGED <<i, pid, born>>
         /\ Master' => Master /\ \/ UNCHANGED <<mpc, cpid>>
                                 \/ mpc = "wait" /\ mpc' = "scan" /\ cpid' = None
<1>1. ASSUME NEW signal, Reboot(signal)
      PROVE  \A p \in Pids : Child(p)' <=> Child(p)
  BY <1>1 DEF Reboot, Targets, Killed, Asked, Child, Running, TypeOK
<1>2. ASSUME NEW p \in Pids, Started(p) \/ Dies(p) \/ Leaves(p)
      PROVE  \A q \in Pids : Child(q)' <=> Child(q)
  BY <1>2 DEF Started, Dies, Leaves, Child, Running, TypeOK
<1> QED  BY <1>1, <1>2 DEF Reboot, Started, Dies, Leaves, Master

\* The processes
LEMMA NextTracked ==
  ASSUME IInv, [Next]_vars
  PROVE  (Tracked /\ IndexInv /\ BornInv /\ GoneInv)'
<1> USE WorkerNumAssumption, PidsAssumption DEF IInv
<1>1. ASSUME ForkChild
      PROVE  \E p \in Pids : /\ born' = p /\ ~Child(p) /\ Child(p)'
                             /\ \A q \in Pids : q # p => (Child(q)' <=> Child(q))
  BY <1>1 DEF ForkChild, Child, Running, TypeOK
<1>2. CASE Fork
  <2>1. /\ mpc = "fork" /\ mpc' = "store" /\ UNCHANGED <<i, pid, cpid>> /\ born = None
        /\ i \in Slots /\ \A s \in Slots : s >= i => pid[s] = None
    BY <1>2 DEF Fork, IndexInv, BornInv, Master
  <2>2. \A s \in Slots : pid[s] = None \/ (pid[s] \in Pids /\ Child(pid[s]))
    BY <2>1 DEF Tracked, Master, TypeOK
  <2>3. CASE ForkChild
    <3>1. PICK p \in Pids : /\ born' = p /\ ~Child(p) /\ Child(p)'
                            /\ \A q \in Pids : q # p => (Child(q)' <=> Child(q))
      BY <1>1, <2>3
    <3>2. \A s \in Slots : pid[s] # p
      BY <2>2, <3>1
    <3> QED  BY <2>1, <2>2, <3>1, <3>2 DEF Tracked, IndexInv, BornInv, GoneInv, Master
  <2>4. CASE ForkFails
    BY <2>1, <2>2, <2>4 DEF ForkFails, Tracked, IndexInv, BornInv, GoneInv, Master, Child, Running
  <2> QED  BY <1>2, <2>3, <2>4 DEF Fork
<1>3. CASE Store
  <2>1. /\ mpc = "store" /\ i \in Slots /\ pid' = [pid EXCEPT ![i] = born] /\ born' = None
        /\ i' = i + 1 /\ UNCHANGED <<cpid, proc>>
        /\ mpc' \in {"returned", "fork", "handle1"} /\ (born = None => mpc' = "returned")
        /\ (mpc' = "fork" => i # WorkerNum)
    BY <1>3 DEF Store, IndexInv, LastSlot
  <2>2. \A s \in Slots : pid'[s] = IF s = i THEN born ELSE pid[s]
    BY <2>1 DEF TypeOK
  <2>3. \A p \in Pids : Child(p)' <=> Child(p)
    BY <2>1 DEF Child, Running
  <2>4. pid[i] = None /\ \A s \in Slots : s >= i => pid[s] = None
    BY <2>1 DEF IndexInv, Slots
  <2>5. Tracked'
    BY <2>1, <2>2, <2>3, <2>4 DEF Tracked, BornInv, Master, TypeOK
  <2>6. IndexInv'
    BY <2>1, <2>2, <2>4 DEF IndexInv, Slots
  <2>7. BornInv' /\ GoneInv'
    BY <2>1 DEF BornInv, GoneInv
  <2> QED  BY <2>5, <2>6, <2>7
<1>4. CASE Handle1 \/ Handle2
  BY <1>4 DEF Handle1, Handle2, Tracked, IndexInv, BornInv, GoneInv, Master, Child, Running
<1>5. CASE Wait
  <2>1. /\ mpc = "wait" /\ mpc' = "scan" /\ UNCHANGED <<i, pid, born>> /\ born = None
    BY <1>5 DEF Wait, BornInv, Master
  <2>2. \A s \in Slots : pid[s] = None \/ (pid[s] \in Pids /\ Child(pid[s]))
    BY <2>1 DEF Tracked, Master, TypeOK
  <2>3. ASSUME NEW p \in Pids, proc[p] = "zombie", cpid' = p, proc' = [proc EXCEPT ![p] = "free"]
        PROVE  (Tracked /\ GoneInv)'
    <3>1. Child(p) /\ ~Child(p)' /\ \A q \in Pids : q # p => (Child(q)' <=> Child(q))
      BY <2>3 DEF Child, Running, TypeOK
    <3>2. Tracked'
      BY <2>1, <2>2, <2>3, <3>1 DEF Tracked, Master
    <3>3. GoneInv'
      BY <2>1, <2>3, <3>1 DEF GoneInv
    <3> QED  BY <3>2, <3>3
  <2>4. ASSUME cpid' = None, UNCHANGED proc PROVE (Tracked /\ GoneInv)'
    <3>1. \A p \in Pids : Child(p)' <=> Child(p)
      BY <2>4 DEF Child, Running
    <3>2. Tracked'
      BY <2>1, <2>2, <3>1 DEF Tracked, Master
    <3> QED  BY <2>1, <2>4, <3>2 DEF GoneInv
  <2>5. (IndexInv /\ BornInv)'
    BY <2>1 DEF IndexInv, BornInv
  <2> QED  BY <1>5, <2>3, <2>4, <2>5 DEF Wait
<1>6. CASE Scan
  <2>1. /\ mpc = "scan" /\ UNCHANGED <<pid, cpid, born, proc>> /\ born = None
    BY <1>6 DEF Scan, BornInv, Master
  <2>2. ASSUME NEW s \in Slots, pid[s] = cpid, i' = s, mpc' = "refork"
        PROVE  (Tracked /\ IndexInv /\ BornInv /\ GoneInv)'
    BY <2>1, <2>2 DEF Tracked, IndexInv, BornInv, GoneInv, Master, Child, Running
  <2>3. CASE (\A s \in Slots : pid[s] # cpid) /\ mpc' = "handle1"
    BY <2>1, <2>3 DEF Tracked, IndexInv, BornInv, GoneInv, Master, Child, Running
  <2> QED  BY <1>6, <2>2, <2>3 DEF Scan, SlotOf
<1>7. CASE Refork
  <2>1. /\ mpc = "refork" /\ mpc' = "restore" /\ UNCHANGED <<i, pid, cpid>> /\ born = None
        /\ i \in Slots /\ (pid[i] = None \/ ~Child(pid[i]))
    BY <1>7 DEF Refork, IndexInv, BornInv, GoneInv, Master
  <2>2. \A s \in Slots : s = i \/ pid[s] = None \/ (pid[s] \in Pids /\ Child(pid[s]))
    BY <2>1 DEF Tracked, Master, TypeOK
  <2>3. CASE ForkChild
    <3>1. PICK p \in Pids : /\ born' = p /\ ~Child(p) /\ Child(p)'
                            /\ \A q \in Pids : q # p => (Child(q)' <=> Child(q))
      BY <1>1, <2>3
    <3>2. \A s \in Slots : pid[s] = p => s = i
      BY <2>2, <3>1
    <3>3. Tracked'
      BY <2>1, <2>2, <3>1, <3>2 DEF Tracked, Master
    <3>4. GoneInv'
      BY <2>1, <3>1 DEF GoneInv, TypeOK
    <3> QED  BY <2>1, <3>1, <3>2, <3>3, <3>4 DEF IndexInv, BornInv, Master
  <2>4. CASE ForkFails
    BY <2>1, <2>2, <2>4 DEF ForkFails, Tracked, IndexInv, BornInv, GoneInv, Master, Child, Running
  <2> QED  BY <1>7, <2>3, <2>4 DEF Refork
<1>8. CASE Restore
  <2>1. /\ mpc = "restore" /\ mpc' = "handle1" /\ i \in Slots /\ pid' = [pid EXCEPT ![i] = born]
        /\ born' = None /\ UNCHANGED <<i, cpid, proc>>
    BY <1>8 DEF Restore, IndexInv, NewEntry
  <2>2. \A s \in Slots : pid'[s] = IF s = i THEN born ELSE pid[s]
    BY <2>1 DEF TypeOK
  <2>3. \A p \in Pids : Child(p)' <=> Child(p)
    BY <2>1 DEF Child, Running
  <2>4. Tracked'
    BY <2>1, <2>2, <2>3 DEF Tracked, BornInv, GoneInv, Master, TypeOK
  <2> QED  BY <2>1, <2>4 DEF IndexInv, BornInv, GoneInv, Master
<1>9. CASE Reboot(REBOOT1) \/ Reboot(REBOOT2) \/ \E p \in Pids : Started(p) \/ Dies(p) \/ Leaves(p)
  <2>1. /\ \A p \in Pids : Child(p)' <=> Child(p)
        /\ UNCHANGED <<i, pid, born>>
        /\ Master' => Master /\ \/ UNCHANGED <<mpc, cpid>>
                                \/ mpc = "wait" /\ mpc' = "scan" /\ cpid' = None
    BY <1>9, OthersKeep
  <2>2. CASE ~Master'
    BY <2>1, <2>2 DEF Tracked, IndexInv, BornInv, GoneInv, Master
  <2>3. CASE Master'
    BY <2>1, <2>3 DEF Tracked, IndexInv, BornInv, GoneInv, Master, TypeOK
  <2> QED  BY <2>2, <2>3
<1>10. CASE UNCHANGED vars
  BY <1>10 DEF vars, Tracked, IndexInv, BornInv, GoneInv, Master, Child, Running
<1> QED
  BY <1>2, <1>3, <1>4, <1>5, <1>6, <1>7, <1>8, <1>9, <1>10 DEF Next, MasterStep

\* For any number of slots and pids: the master loses no worker and counts none
\* twice, through deaths, reboots, interrupted waits and failed forks.
THEOREM NoWorkerLost == Spec => [](TypeOK /\ Tracked)
<1>1. IInv /\ [Next]_vars => IInv'
  BY NextTypeOK, NextTracked DEF IInv
<1>2. IInv => TypeOK /\ Tracked
  BY DEF IInv
<1> QED  BY <1>1, <1>2, InitIInv, PTL DEF Spec

\* Whom the loop of a handler goes through: every running child but the newborn
LEMMA HandlerReaches ==
  ASSUME IInv, NEW signal, Reboot(signal), mpc' # "killed", NEW p \in Pids, Running(p), p # born
  PROVE  proc'[p] \in {"leaving", "zombie"}
<1>1. \E s \in Slots : pid[s] = p
  BY DEF IInv, Tracked, Child, Reboot
<1>2. p \in Targets
  BY <1>1 DEF Targets, AllSlots, Slots
<1> QED  BY <1>2 DEF Reboot, Killed, Asked

\* For any number of slots and pids, and at whatever step the master is: a reboot
\* signal reaches every worker but the one just forked (dlyhttpd.c:394-406).
THEOREM RebootsReach == Spec => RebootReaches
<1>1. IInv /\ [Next]_vars => IInv'
  BY NextTypeOK, NextTracked DEF IInv
<1>2. ASSUME IInv, [Next]_vars
      PROVE  [\A p \in Pids : (reboots' # reboots /\ mpc' # "killed") /\ Running(p) /\ p # born
                => proc'[p] \in {"leaving", "zombie"}]_vars
  <2>1. CASE reboots' = reboots
    BY <2>1
  <2>2. CASE \E signal \in {REBOOT1, REBOOT2} : Reboot(signal)
    BY <1>2, <2>2, HandlerReaches
  <2>3. CASE reboots' # reboots
    <3>1. \E signal \in {REBOOT1, REBOOT2} : Reboot(signal)
      BY <1>2, <2>3 DEF Next, MasterStep, Fork, Store, Handle1, Handle2, Wait, Scan, Refork, Restore,
         Started, Dies, Leaves, vars
    <3> QED  BY <2>2, <3>1
  <2> QED  BY <2>1, <2>3
<1> QED  BY <1>1, <1>2, InitIInv, PTL DEF Spec, RebootReaches
=============================================================================
