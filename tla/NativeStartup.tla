------------------------------- MODULE NativeStartup -------------------------------
(***************************************************************************)
(* NativeStartupExecutor (ariax-engine/src/startup_native.rs): after the   *)
(* database repairs, the roots of the tasks are opened, interrupted        *)
(* journal replacements are finished or undone, the journals are opened    *)
(* for appending and given to the session owner.  The owner's commands are *)
(* durable one by one; a crash or a fault at any point ends the process    *)
(* and the next start begins again from the database.                      *)
(***************************************************************************)
EXTENDS Maps, FiniteSets, FiniteSetsExt

CONSTANTS StartTasks,       \* tasks, as numbers
          MaxStops          \* crashes the behaviour may still have
\* Gids are numbers, and the maps of the executor are ordered by them.
ASSUME NativeAssumption == StartTasks \subseteq Nat

VARIABLES intent,           \* the journal-install intents of the database: [phase, valid], by task
          pointer,          \* which journal the task row names, "old" or "new"
          native,           \* the executor: NativeExecutor, or None
          stops
nativeVars == <<intent, pointer, native, stops>>

NativePhases == {"Roots", "Installs", "Appenders", "OwnerInstall", "Complete", "Faulted"}
\* startup_reconcile builds the executor's lists from the database.
journal_install_recoveries == {g \in StartTasks : Is(intent[g])}
appender_recoveries == {g \in StartTasks : ~Is(intent[g]) \/ The(intent[g]).phase = "Installed"}
\* An intent must explain the journal its task row names.
validate_installs ==
  \A g \in journal_install_recoveries : pointer[g] = IF The(intent[g]).phase = "Installed" THEN "new" ELSE "old"
NativeExecutor ==
  [phase |-> "Roots", roots |-> {}, installs |-> journal_install_recoveries, appenders |-> appender_recoveries,
   prepared |-> EmptyMap, pending |-> None, offered |-> None, given |-> EmptyMap]

NativeInit ==
  /\ intent \in [StartTasks -> {None} \cup {Some([phase |-> p, valid |-> v]) : p \in {"Installing", "Installed"}, v \in BOOLEAN}]
  /\ \A g \in StartTasks : Is(intent[g]) /\ The(intent[g]).phase = "Installed" => The(intent[g]).valid
  /\ pointer = [g \in StartTasks |-> IF Is(intent[g]) /\ The(intent[g]).phase = "Installed" THEN "new" ELSE "old"]
  /\ native = None /\ stops = 0

Exec == The(native)
AtPhase(phase) == Is(native) /\ Exec.phase = phase /\ ~Is(Exec.offered)
ExecBecomes(n) == native' = Some(n) /\ UNCHANGED stops
BeginStart == ~Is(native) /\ validate_installs /\ native' = Some(NativeExecutor) /\ UNCHANGED <<intent, pointer, stops>>

poll_roots ==
  /\ AtPhase("Roots")
  /\ ExecBecomes(IF Exec.roots = StartTasks THEN [Exec EXCEPT !.phase = "Installs"]
             ELSE [Exec EXCEPT !.roots = @ \cup {Min(StartTasks \ Exec.roots)}])
  /\ UNCHANGED <<intent, pointer>>
\* The candidate on disk is validated: it is the new journal, or it is dropped.
poll_installs ==
  /\ AtPhase("Installs") /\ ~Is(Exec.pending)
  /\ IF Exec.installs = {} THEN ExecBecomes([Exec EXCEPT !.phase = "Appenders"])
     ELSE LET g == Min(Exec.installs)
              i == The(intent[g])
              action == IF i.phase = "Installed" THEN "Clear" ELSE IF i.valid THEN "Complete" ELSE "Abort"
          IN ExecBecomes([Exec EXCEPT !.pending = Some(IF action = "Abort" THEN "old" ELSE "new"), !.offered = Some([action |-> action, gid |-> g])])
  /\ UNCHANGED <<intent, pointer>>
poll_appenders ==
  /\ AtPhase("Appenders")
  /\ IF Exec.appenders = {} THEN ExecBecomes([Exec EXCEPT !.phase = "OwnerInstall"])
     ELSE LET g == Min(Exec.appenders)
          IN IF g \in DOMAIN Exec.prepared THEN ExecBecomes([Exec EXCEPT !.phase = "Faulted"])      \* DuplicateJournal
             ELSE ExecBecomes([Exec EXCEPT !.appenders = @ \ {g}, !.prepared = Put(@, g, pointer[g])])
  /\ UNCHANGED <<intent, pointer>>
poll_owner_install ==
  /\ AtPhase("OwnerInstall")
  /\ IF DOMAIN Exec.prepared = {} THEN ExecBecomes([Exec EXCEPT !.phase = "Complete"])
     ELSE LET g == Min(DOMAIN Exec.prepared)
          IN ExecBecomes([Exec EXCEPT !.prepared = Without(@, {g}),
                               !.offered = Some([action |-> "Install", gid |-> g, journal |-> Exec.prepared[g]])])
  /\ UNCHANGED <<intent, pointer>>

finish_pending_install(n, g) ==
  IF g \in DOMAIN n.prepared THEN [n EXCEPT !.phase = "Faulted"]
  ELSE [n EXCEPT !.prepared = Put(@, g, The(n.pending)), !.pending = None, !.installs = @ \ {g}]
\* The owner executes the offered command; complete_owner_action goes on.
complete_owner_action ==
  /\ Is(native) /\ Is(Exec.offered)
  /\ LET c == The(Exec.offered)
         n == [Exec EXCEPT !.offered = None]
     IN CASE c.action = "Abort" -> intent' = [intent EXCEPT ![c.gid] = None] /\ UNCHANGED pointer /\ ExecBecomes(finish_pending_install(n, c.gid))
          [] c.action = "Complete" -> /\ intent' = [intent EXCEPT ![c.gid] = Some([The(@) EXCEPT !.phase = "Installed"])]
                                      /\ pointer' = [pointer EXCEPT ![c.gid] = "new"]
                                      /\ ExecBecomes([Exec EXCEPT !.offered = Some([c EXCEPT !.action = "Clear"])])
          [] c.action = "Clear" -> intent' = [intent EXCEPT ![c.gid] = None] /\ UNCHANGED pointer /\ ExecBecomes(finish_pending_install(n, c.gid))
          [] OTHER -> /\ ExecBecomes(IF c.gid \in DOMAIN Exec.given THEN [Exec EXCEPT !.phase = "Faulted"]
                                 ELSE [n EXCEPT !.given = Put(@, c.gid, c.journal)])
                      /\ UNCHANGED <<intent, pointer>>
StartStops ==
  /\ Is(native) /\ Exec.phase # "Complete" /\ stops < MaxStops /\ Exec.phase # "Faulted"
  /\ native' = None /\ stops' = stops + 1 /\ UNCHANGED <<intent, pointer>>
\* A faulted start ends the process; it is started again.
EndFaulted == Is(native) /\ Exec.phase = "Faulted" /\ native' = None /\ UNCHANGED <<intent, pointer, stops>>
EngineRuns == Is(native) /\ Exec.phase = "Complete" /\ UNCHANGED nativeVars

NativeStep == BeginStart \/ poll_roots \/ poll_installs \/ poll_appenders \/ poll_owner_install \/ complete_owner_action \/ EndFaulted
NativeNext == NativeStep \/ StartStops \/ EngineRuns

---------------------------------------------------------------------------------
\* When the engine runs, every task has exactly one open journal, the one its
\* row names, and no replacement is left half done.
EveryJournalOpenOnce ==
  Is(native) /\ Exec.phase = "Complete" =>
    /\ DOMAIN Exec.given = StartTasks /\ \A g \in StartTasks : ~Is(intent[g]) /\ Exec.given[g] = pointer[g]

\* The row names the new journal only when the candidate is whole, and once it
\* does, it is never turned back.
PointerOnlyForward ==
  [][\A g \in StartTasks : pointer[g] # pointer'[g] => pointer'[g] = "new" /\ The(intent[g]).valid]_nativeVars

\* However often the process stops in between, replacements are finished and
\* the engine comes up (the executor is polled until it completes, and a
\* faulted start is repeated).
NativeComesUp == <>(Is(native) /\ Exec.phase = "Complete")

=================================================================================
