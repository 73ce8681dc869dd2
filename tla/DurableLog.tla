------------------------------- MODULE DurableLog -------------------------------
(***************************************************************************)
(* What the task journal promises the code that writes it, without         *)
(* segments, candidates or handles: records are appended in order, a flush *)
(* acknowledges all of them, a crash loses at most a suffix that was never *)
(* acknowledged, and the log that opens again acknowledges what it found.  *)
(* A crash while a new segment is being put in place may leave a directory *)
(* that no longer opens, and a log may have grown longer than its reader   *)
(* takes: those are the ways a log is lost.                                *)
(***************************************************************************)
EXTENDS Naturals, Sequences

CONSTANTS Record        \* what a caller can append

VARIABLES contents,     \* every record written since the log was created
          acknowledged, \* how many of them a flush has confirmed
          phase         \* "open", "faulted", "installing", "down" or "lost"

logVars == <<contents, acknowledged, phase>>

LogInit == contents = << >> /\ acknowledged = 0 /\ phase = "open"

LogAppend == /\ phase = "open"
             /\ \E r \in Record : contents' = Append(contents, r)
             /\ UNCHANGED <<acknowledged, phase>>

LogFlush == phase = "open" /\ acknowledged' = Len(contents) /\ UNCHANGED <<contents, phase>>

LogFault == /\ phase \in {"open", "installing"} /\ phase' = "faulted"
            /\ UNCHANGED <<contents, acknowledged>>

\* A new segment is begun only when nothing is waiting for a flush.
LogInstall == /\ phase \in {"open", "down"} /\ phase' = "installing"
              /\ phase = "open" => acknowledged = Len(contents)
              /\ UNCHANGED <<contents, acknowledged>>

LogInstalled == /\ phase = "installing" /\ phase' \in {"open", "down"}
                /\ acknowledged' \in {acknowledged, Len(contents)}
                /\ UNCHANGED contents

LogCrash == /\ phase # "lost"
            /\ \E kept \in acknowledged .. Len(contents) : contents' = SubSeq(contents, 1, kept)
            /\ phase' = "down" /\ UNCHANGED acknowledged

LogReopen == /\ phase = "down" /\ phase' = "open" /\ acknowledged' = Len(contents)
             /\ UNCHANGED contents

LogLost == phase = "down" /\ phase' = "lost" /\ UNCHANGED <<contents, acknowledged>>

LogNext == \/ LogAppend \/ LogFlush \/ LogFault \/ LogInstall \/ LogInstalled
           \/ LogCrash \/ LogReopen \/ LogLost

LogSpec == LogInit /\ [][LogNext]_logVars
=================================================================================
