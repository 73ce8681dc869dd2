------------------------------- MODULE MCHost -------------------------------
(***************************************************************************)
(* Small instances of SchedulerHost: one or two downloads in a process     *)
(* that starts with an empty session.                                      *)
(***************************************************************************)
EXTENDS SchedulerHost

CONSTANTS g1, g2

OneTask  == {g1}
TwoTasks == {g1, g2}

NewSession == {EmptyBatch}

PlainAdd == {[paused |-> FALSE, credential |-> "none", noSpace |-> "none"]}

DefaultPolicy == {[holdsSlot |-> TRUE, slow |-> "OriginalPosition"]}

=============================================================================
