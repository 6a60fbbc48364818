-------------------------- MODULE SingleUseExecution --------------------------
(***************************************************************************)
(* What the gateway promises of every decision it executes, without locks, *)
(* checkpoints, processes or authority: an execution starts once, ends     *)
(* once, and its recorded outcome says no less than what may have happened *)
(* (ARCHITECTURE.md, "Authority sequence" and "Failure semantics").        *)
(***************************************************************************)
CONSTANT Decision

VARIABLES
  execution,  \* the recorded state of each execution
  disclosed,  \* the decisions whose request may have left the machine
  done        \* the decisions whose result has been committed

Outcome == {"COMPLETED", "FAILED", "OUTCOME_UNKNOWN"}

AbsInit ==
  /\ execution = [d \in Decision |-> "NONE"]
  /\ disclosed = {}
  /\ done = {}

\* The intent is recorded.
Start(d) ==
  /\ execution[d] = "NONE"
  /\ execution' = [execution EXCEPT ![d] = "RUNNING"]
  /\ UNCHANGED <<disclosed, done>>

\* The request may leave the machine, once.
Disclose(d) ==
  /\ execution[d] = "RUNNING"
  /\ d \notin disclosed
  /\ disclosed' = disclosed \cup {d}
  /\ UNCHANGED <<execution, done>>

\* The result is committed together with the outcome.
Succeed(d) ==
  /\ execution[d] = "RUNNING"
  /\ execution' = [execution EXCEPT ![d] = "COMPLETED"]
  /\ done' = done \cup {d}
  /\ UNCHANGED disclosed

\* FAILED says that nothing left the machine and nothing was committed.
Fail(d) ==
  /\ execution[d] = "RUNNING"
  /\ d \notin disclosed
  /\ execution' = [execution EXCEPT ![d] = "FAILED"]
  /\ UNCHANGED <<disclosed, done>>

\* OUTCOME_UNKNOWN says that nobody can tell.
GiveUp(d) ==
  /\ execution[d] = "RUNNING"
  /\ execution' = [execution EXCEPT ![d] = "OUTCOME_UNKNOWN"]
  /\ UNCHANGED <<disclosed, done>>

AbsNext ==
  \E d \in Decision : Start(d) \/ Disclose(d) \/ Succeed(d) \/ Fail(d) \/ GiveUp(d)

AbsSpec == AbsInit /\ [][AbsNext]_<<execution, disclosed, done>>
=============================================================================
