------------------------------- MODULE MCJournal -------------------------------
(***************************************************************************)
(* The journal of a task: its segments on disk (JournalLog) or the meaning *)
(* of its records (JournalReplay).                                         *)
(***************************************************************************)
EXTENDS JournalLog, JournalReplay

VARIABLE part

MCLayouts == {[total |-> 2, plen |-> 1, files |-> <<"a", "b">>, place |-> "p", root |-> r, ident |-> "i"] :
                r \in {"r1", "r2"}}
MCPermitted(options) == TRUE

MCInit == JournalInit /\ ReplayInit /\ part \in {"log", "replay"}
MCNext == \/ part = "log" /\ JournalNext /\ UNCHANGED <<part, replayed>>
          \/ part = "replay" /\ ReplayNext /\ UNCHANGED <<part, journalVars>>
MCSpec == MCInit /\ [][MCNext]_<<part, replayed, journalVars>>
=================================================================================
