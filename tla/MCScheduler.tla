------------------------------- MODULE MCScheduler -------------------------------
(***************************************************************************)
(* Small instances of RequestScheduler: what TLC is given for the GIDs,    *)
(* for what a caller may add, for the queue policies and for the state the *)
(* process starts from.                                                    *)
(***************************************************************************)
EXTENDS RequestScheduler

CONSTANTS g1, g2

OneTask  == {g1}
TwoTasks == {g1, g2}

\* Nothing was recovered.
NewSession == {EmptyBatch}

PlainAdd == {[paused |-> FALSE, credential |-> "none", noSpace |-> "none"]}
AnyAdd   == [paused: BOOLEAN, credential: Credentials, noSpace: {"none", "timed"}]

DefaultPolicy == {[holdsSlot |-> TRUE, slow |-> "OriginalPosition"]}

\* Every readmission policy, and retries with and without their slot.
SomePolicies ==
  DefaultPolicy \cup {[holdsSlot |-> FALSE, slow |-> p.slow] :
                     p \in {p \in Policies : p.slow # "OriginalPosition"}}

\* A task as startup recovery hands it to restore.
Found(g, id, state) ==
  [gid |-> g, id |-> id, state |-> state, generation |-> 0, started |-> TRUE,
   desiredPaused |-> FALSE, credential |-> "none", noSpace |-> "none",
   slowCount |-> IF state = "WaitingSlow" THEN 1 ELSE 0, slowSlot |-> state = "WaitingSlow",
   slowPos |-> 0, challenge |-> 0, error |-> FALSE,
   stoppedStatus |-> IF state = "StoppedResult" THEN "complete" ELSE "None"]

\* A restart with two waits whose deadlines were persisted.
WaitingBatch ==
  [tasks |-> <<Found(g1, 1, "RetryWait"), Found(g2, 2, "WaitingSlow")>>,
   queues |-> [EmptyBatch.queues EXCEPT !["Waiting"] = <<g1>>, !["Demoted"] = <<g2>>]]

\* A restart with a finished download and one that still waits.
StoppedBatch ==
  [tasks |-> <<Found(g1, 1, "StoppedResult"), Found(g2, 2, "Waiting")>>,
   queues |-> [EmptyBatch.queues EXCEPT !["Stopped"] = <<g1>>, !["Waiting"] = <<g2>>]]

Restarts == {WaitingBatch, StoppedBatch}

=============================================================================
