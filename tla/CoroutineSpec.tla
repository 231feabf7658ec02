--------------------------- MODULE CoroutineSpec ---------------------------
(***************************************************************************)
(* What the coroutine scheduler of coroutine.c promises its callers, with  *)
(* no slot array, no counter and no shared stack: every coroutine has an   *)
(* id that no other live coroutine has and a private frame (the locals of  *)
(* its function), at most one runs, and the frame a coroutine is resumed   *)
(* with is the one it yielded with.  Module Coroutine implements this      *)
(* contract; module Worker is built on it.                                 *)
(***************************************************************************)
EXTENDS Integers

CONSTANTS
    CoIds,      \* the ids coroutine_new may return
    Frames      \* the contents a coroutine's stack frame may have

NoCo == -1      \* schedule_t.running while the main context runs

Status == {"READY", "RUNNING", "SUSPEND"}

VARIABLES
    task,       \* live id -> [status, frame]
    current     \* the running coroutine, or NoCo

coVars == <<task, current>>

Live == DOMAIN task

CoTypeOK ==
    /\ Live \subseteq CoIds
    /\ \A id \in Live : task[id] \in [status : Status, frame : Frames]
    /\ current \in CoIds \cup {NoCo}

CoInit ==
    /\ task = [id \in {} |-> {}]
    /\ current = NoCo

----------------------------------------------------------------------------

\* coroutine_new, called by the main context or by the running coroutine.
New(id, f) ==
    /\ id \in CoIds \ Live
    /\ task' = [i \in Live \cup {id} |->
                  IF i = id THEN [status |-> "READY", frame |-> f] ELSE task[i]]
    /\ UNCHANGED current

\* coroutine_resume of a live coroutine, called by the main context.
Resume(id) ==
    /\ current = NoCo
    /\ id \in Live
    /\ task' = [task EXCEPT ![id] = [status |-> "RUNNING", frame |-> @.frame]]
    /\ current' = id

\* The running coroutine computes: only its own frame changes.
Step(f) ==
    /\ current # NoCo
    /\ task' = [task EXCEPT ![current] = [status |-> "RUNNING", frame |-> f]]
    /\ UNCHANGED current

\* coroutine_yield, the frame holding f when it is called.
Yield(f) ==
    /\ current # NoCo
    /\ task' = [task EXCEPT ![current] = [status |-> "SUSPEND", frame |-> f]]
    /\ current' = NoCo

\* The coroutine's function returns: mainfunc frees it and its id.
Return ==
    /\ current # NoCo
    /\ task' = [i \in Live \ {current} |-> task[i]]
    /\ current' = NoCo

CoNext ==
    \/ \E id \in CoIds, f \in Frames : New(id, f)
    \/ \E id \in Live : Resume(id)
    \/ \E f \in Frames : Step(f) \/ Yield(f)
    \/ Return

CoSpec == CoInit /\ [][CoNext]_coVars
=============================================================================
