---------------------------- MODULE Services_proofs ----------------------------
(***************************************************************************)
(* The services keep what they promise, for every number of processes,     *)
(* files, journals, commands, plans and tasks: the shutdown                *)
(* (RuntimeServices), the files of the session                             *)
(* (SessionFiles), its owner and the effect sink (SessionOwner), the       *)
(* recovery of the journals (NativeStartup) and the blocking disk lane     *)
(* (DiskLane).  Each has an inductive invariant of its own; the theorems   *)
(* at the end put them together for ServicesSpec.                          *)
(***************************************************************************)
EXTENDS MCServices, FiniteSetTheorems, SequenceTheorems, WellFoundedInduction, TLAPS

-----------------------------------------------------------------------------
(* Induction and recursion over the natural numbers, stated with sets and  *)
(* functions instead of operator parameters so that a proof can cite them. *)
(* They rest on the well-foundedness of < and serve what the code does in  *)
(* a loop: the scans of a log, the commands of a                           *)
(* plan.                                                                   *)

\* The order the induction is along.
Smaller == {ss \in Nat \X Nat : ss[1] < ss[2]}

\* No set of numbers goes down forever.
LEMMA SmallerWellFounded == IsWellFoundedOn(Smaller, Nat)
  BY NatLessThanWellFounded DEF OpToRel, Smaller

\* Which pairs the order holds.
LEMMA SmallerPair == \A x, y \in Nat : x < y => <<x, y>> \in Smaller
  BY DEF Smaller

\* A set of numbers has a least one.
LEMMA LeastNumber ==
  ASSUME NEW T \in SUBSET Nat, T # {}
  PROVE  \E x \in T : \A y \in T : x =< y
  <1>1. PICK x \in T : \A y \in T : ~ (<<y, x>> \in Smaller) BY SmallerWellFounded, WFMin, Zenon
  <1>2. ASSUME NEW y \in T PROVE x =< y
    <2>1. ~(y < x) BY <1>1, SmallerPair
    <2> QED BY <2>1
  <1> QED BY <1>2

\* A set with 0 and the successor of each of its members holds every number.
LEMMA Induction ==
  ASSUME NEW T \in SUBSET Nat, 0 \in T, \A n \in T : n + 1 \in T
  PROVE  T = Nat
  <1> SUFFICES ASSUME Nat \ T # {} PROVE FALSE OBVIOUS
  <1>1. PICK x \in Nat \ T : \A y \in Nat \ T : x =< y BY LeastNumber
  <1>2. x # 0 OBVIOUS
  <1>3. x - 1 \in Nat /\ ~(x =< x - 1) /\ (x - 1) + 1 = x BY <1>2
  <1>4. x - 1 \in T BY <1>1, <1>3
  <1> QED BY <1>4, <1>3

\* g is the sequence of values that a function F of the last value and the
\* position produces from a, n times.
Iterates(g, n, S, a, F) ==
  g \in [0 .. n -> S] /\ g[0] = a /\ \A i \in 1 .. n : g[i] = F[<<g[i - 1], i>>]

\* A step function can be iterated n times.
LEMMA Recursion ==
  ASSUME NEW n \in Nat, NEW S, NEW a \in S, NEW F \in [S \X (1 .. n) -> S]
  PROVE  \E g : Iterates(g, n, S, a, F)
  <1> DEFINE Runs(m, g) == g \in [0 .. m -> S] /\ g[0] = a /\ \A i \in 1 .. m : g[i] = F[<<g[i - 1], i>>]
             T == {m \in Nat : m =< n => \E g : Runs(m, g)}
  <1>1. 0 \in T
    <2>1. Runs(0, [i \in 0 .. 0 |-> a]) OBVIOUS
    <2> QED BY <2>1
  <1>2. ASSUME NEW m \in T PROVE m + 1 \in T
    <2> SUFFICES ASSUME m + 1 =< n PROVE \E g : Runs(m + 1, g) OBVIOUS
    <2>1. PICK g : Runs(m, g) OBVIOUS
    <2>2. m \in Nat OBVIOUS
    <2> DEFINE k == m + 1
               h == [i \in 0 .. k |-> IF i =< m THEN g[i] ELSE F[<<g[m], k>>]]
    <2>3. <<g[m], k>> \in S \X (1 .. n) BY <2>1, <2>2
    <2>4. F[<<g[m], k>>] \in S BY <2>3
    <2>5. h \in [0 .. k -> S] BY <2>1, <2>2, <2>4
    <2>6. h[0] = a BY <2>1, <2>2
    <2>7. ASSUME NEW i \in 1 .. k PROVE h[i] = F[<<h[i - 1], i>>]
      <3>1. CASE i =< m BY <3>1, <2>2, <2>1
      <3>2. CASE i = k
        <4>1. i - 1 = m /\ m \in 0 .. k /\ m =< m /\ k \in 0 .. k /\ ~(k =< m) BY <3>2, <2>2
        <4>2. h[k] = F[<<g[m], k>>] /\ h[m] = g[m] BY <4>1
        <4> QED BY <4>1, <4>2, <3>2
      <3> QED BY <3>1, <3>2, <2>2
    <2>8. Runs(k, h) BY <2>5, <2>6, <2>7
    <2> QED BY <2>8
  <1>3. T = Nat
    <2> HIDE DEF T
    <2>1. T \in SUBSET Nat BY DEF T
    <2> QED BY <1>1, <1>2, <2>1, Induction
  <1>4. \E g : Runs(n, g) BY <1>3
  <1> QED BY <1>4 DEF Iterates

-----------------------------------------------------------------------------
(* Optional values.                                                        *)

\* Options are sequences of at most one value.
LEMMA OptionFacts == /\ \A x : Some(x) # None /\ The(Some(x)) = x
                     /\ \A x, y : Some(x) = Some(y) => x = y
  BY DEF Some, None, The

-----------------------------------------------------------------------------
(* The shutdown.                                                           *)

\* The state of the shutdown.
StepNames == {"StopAdmission", "DrainDiskCpu", "FlushJournal", "PersistSession"}
StopPhases == {"running", "drain", "flush", "close", "owner", "record", "repair", "ended", "killed"}
Stops == [at : 0 .. 5, phase : StopPhases, failed : SUBSET StepNames, timed_out : SUBSET StepNames,
          first : {None} \cup {Some(s) : s \in StepNames}, journals : {"open", "flushed", "closed"},
          owner : {"running", "joined", "detached"}, db_clean : BOOLEAN, wanted : BOOLEAN, unrepaired : BOOLEAN]

\* The first failure is the earliest of the failed steps, all of them past.
FirstFits(z) ==
  /\ Is(z.first) <=> z.failed # {}
  /\ \A j \in 1 .. 4 : ShutdownSteps[j] \in z.failed => j < z.at
  /\ \A i, j \in 1 .. 4 : ShutdownSteps[j] \in z.failed /\ z.first = Some(ShutdownSteps[i]) => i =< j

\* What each phase of the shutdown has behind it.
PhaseFits(z) ==
  /\ z.phase = "running" => z.at = 0 /\ z.failed = {}
  /\ z.phase = "drain" => z.at = 2
  /\ z.phase \in {"flush", "close"} => z.at = 3
  /\ z.phase \in {"owner", "record"} => /\ z.at = 4
                                        /\ "FlushJournal" \notin z.failed => z.journals = "closed"
  /\ z.phase = "record" => z.owner = "joined" /\ (z.wanted <=> z.failed = {})
  /\ z.phase = "repair" => /\ z.wanted /\ z.owner = "joined" /\ z.journals = "closed"
                           /\ z.failed = {"PersistSession"} /\ z.at = 5
  /\ z.phase \in {"running", "drain", "flush", "close", "owner", "record"} => ~z.db_clean
  /\ z.db_clean => z.journals = "closed" /\ z.owner = "joined" /\ z.failed \subseteq {"PersistSession"}
  /\ z.phase = "ended" => /\ z.failed = {} => z.db_clean
                          /\ z.db_clean => z.failed = {} \/ z.unrepaired

\* The invariant of the shutdown.
StopInv == stop \in Stops /\ FirstFits(stop) /\ PhaseFits(stop)

\* An option with a value is not the empty one.
LEMMA SomeIsNotNone == \A x : Is(Some(x)) /\ ~Is(None)
  BY DEF Is, Some, None
\* An option has one value.
LEMMA SomeOne == \A x, y : Some(x) = Some(y) => x = y
  BY DEF Some

\* The four steps of the shutdown and their order.
LEMMA StepsApart ==
  /\ ShutdownSteps \in [1 .. 4 -> StepNames]
  /\ \A i, j \in 1 .. 4 : ShutdownSteps[i] = ShutdownSteps[j] => i = j
  /\ ShutdownSteps[1] = "StopAdmission" /\ ShutdownSteps[2] = "DrainDiskCpu"
  /\ ShutdownSteps[3] = "FlushJournal" /\ ShutdownSteps[4] = "PersistSession"
  <1>1. /\ ShutdownSteps[1] = "StopAdmission" /\ ShutdownSteps[2] = "DrainDiskCpu"
        /\ ShutdownSteps[3] = "FlushJournal" /\ ShutdownSteps[4] = "PersistSession"
        /\ ShutdownSteps = [i \in 1 .. 4 |-> ShutdownSteps[i]]
    BY DEF ShutdownSteps
  <1>2. \A i \in 1 .. 4 : i = 1 \/ i = 2 \/ i = 3 \/ i = 4 OBVIOUS
  <1>3. \A i, j \in 1 .. 4 : ShutdownSteps[i] = ShutdownSteps[j] => i = j BY <1>1, <1>2
  <1>4. \A i \in 1 .. 4 : ShutdownSteps[i] \in StepNames BY <1>1, <1>2 DEF StepNames
  <1> QED BY <1>1, <1>3, <1>4

\* What the end of a step records.
Ended(z, y, good) ==
  /\ y \in Stops /\ y.at = z.at + 1 /\ FirstFits(y)
  /\ y.failed = IF good THEN z.failed ELSE z.failed \cup {ShutdownSteps[z.at]}
  /\ y.phase = z.phase /\ y.journals = z.journals /\ y.owner = z.owner
  /\ y.db_clean = z.db_clean /\ y.wanted = z.wanted /\ y.unrepaired = z.unrepaired

\* Completing the current step, late or in time, moves on to the next one or ends.
LEMMA StepCompletes ==
  ASSUME NEW z \in Stops, z.at \in 1 .. 4, FirstFits(z),
         NEW r \in {"Succeeded", "Failed", "TimedOut"}, NEW late \in BOOLEAN
  PROVE  Ended(z, complete(z, r, late), r = "Succeeded" /\ ~late)
  <1> DEFINE s == ShutdownSteps[z.at]
             kind == IF late THEN "TimedOut" ELSE r
             f == IF kind = "Succeeded" THEN z.failed ELSE z.failed \cup {s}
             t == IF kind = "TimedOut" THEN z.timed_out \cup {s} ELSE z.timed_out
             p == IF kind # "Succeeded" /\ ~Is(z.first) THEN Some(s) ELSE z.first
             n == z.at + 1
             y == [z EXCEPT !.failed = f, !.timed_out = t, !.first = p, !.at = n]
  <1>1. complete(z, r, late) = y BY DEF complete
  <1>2. s \in StepNames /\ n \in 0 .. 5 BY StepsApart
  <1>3. f \in SUBSET StepNames /\ t \in SUBSET StepNames BY <1>2 DEF Stops
  <1>4. p \in {None} \cup {Some(x) : x \in StepNames} BY <1>2 DEF Stops
  <1>5. n = z.at + 1 /\ f = (IF r = "Succeeded" /\ ~late THEN z.failed ELSE z.failed \cup {s}) OBVIOUS
  <1>6. /\ Is(p) <=> f # {}
        /\ \A j \in 1 .. 4 : ShutdownSteps[j] \in f => j < n
        /\ \A i, j \in 1 .. 4 : ShutdownSteps[j] \in f /\ p = Some(ShutdownSteps[i]) => i =< j
    <2> z.at \in 1 .. 4 OBVIOUS
    <2> HIDE DEF s, n
    <2>1. \A j \in 1 .. 4 : ShutdownSteps[j] = s => j = z.at BY StepsApart DEF s
    <2>2. \A j \in 1 .. 4 : ShutdownSteps[j] \in f => ShutdownSteps[j] \in z.failed \/ j = z.at BY <2>1
    <2>3. \A j \in 1 .. 4 : ShutdownSteps[j] \in z.failed => j < z.at BY DEF FirstFits
    <2>4. \A j \in 1 .. 4 : ShutdownSteps[j] \in f => j < n BY <2>2, <2>3 DEF n
    <2>5. Is(p) <=> f # {} BY SomeIsNotNone DEF FirstFits
    <2>6. ASSUME NEW i \in 1 .. 4, NEW j \in 1 .. 4, ShutdownSteps[j] \in f, p = Some(ShutdownSteps[i])
          PROVE  i =< j
      <3>1. CASE p = z.first
        <4>1. CASE ShutdownSteps[j] \in z.failed BY <4>1, <3>1, <2>6 DEF FirstFits
        <4>2. CASE ShutdownSteps[j] \notin z.failed
          <5>1. j = z.at BY <4>2, <2>6, <2>2
          <5>2. Is(z.first) BY <3>1, <2>6, SomeIsNotNone
          <5>3. \A k \in 1 .. 4 : z.failed # {} /\ ShutdownSteps[k] \in z.failed => i =< k /\ k < z.at
            BY <3>1, <2>6 DEF FirstFits
          <5>4. PICK x \in StepNames : x \in z.failed BY <5>2 DEF FirstFits, Stops
          <5>5. \E k \in 1 .. 4 : x = ShutdownSteps[k] BY StepsApart DEF StepNames
          <5> QED BY <5>1, <5>3, <5>4, <5>5
        <4> QED BY <4>1, <4>2
      <3>2. CASE p # z.first BY <3>2, <2>6, SomeOne, <2>1, <2>2 DEF FirstFits
      <3> QED BY <3>1, <3>2
    <2> QED BY <2>4, <2>5, <2>6
  <1> HIDE DEF s, kind, f, t, p, n
  <1>7. /\ y \in Stops /\ y.at = n /\ y.failed = f /\ y.first = p
        /\ y.phase = z.phase /\ y.journals = z.journals /\ y.owner = z.owner
        /\ y.db_clean = z.db_clean /\ y.wanted = z.wanted /\ y.unrepaired = z.unrepaired
    BY <1>2, <1>3, <1>4 DEF Stops
  <1>8. FirstFits(y) BY <1>6, <1>7 DEF FirstFits
  <1> HIDE DEF y
  <1> QED BY <1>1, <1>5, <1>7, <1>8 DEF s, Ended

\* Every step of the shutdown keeps it; the process may be killed at any.
LEMMA StopNextInv == StopInv /\ [StopNext]_stop => StopInv'
  <1> SUFFICES ASSUME StopInv, StopNext PROVE StopInv' BY DEF StopInv
  <1> stop \in Stops /\ FirstFits(stop) /\ PhaseFits(stop) BY DEF StopInv
  <1> DEFINE z == stop
  <1>0. \A x \in Stops : \A q \in StopPhases :
          /\ [x EXCEPT !.phase = q] \in Stops /\ [x EXCEPT !.phase = q].phase = q
          /\ [x EXCEPT !.phase = q].at = x.at /\ [x EXCEPT !.phase = q].failed = x.failed
          /\ [x EXCEPT !.phase = q].first = x.first /\ [x EXCEPT !.phase = q].journals = x.journals
          /\ [x EXCEPT !.phase = q].owner = x.owner /\ [x EXCEPT !.phase = q].db_clean = x.db_clean
          /\ [x EXCEPT !.phase = q].wanted = x.wanted /\ [x EXCEPT !.phase = q].unrepaired = x.unrepaired
    BY DEF Stops
  <1>a. \A x \in Stops : \A q \in StopPhases : FirstFits(x) => FirstFits([x EXCEPT !.phase = q])
    BY <1>0 DEF FirstFits
  <1>1. CASE begin_process_shutdown
    <2>1. PICK late \in BOOLEAN : stop' = [complete([stop EXCEPT !.at = 1], "Succeeded", late) EXCEPT !.phase = "drain"]
      BY <1>1 DEF begin_process_shutdown
    <2> DEFINE x == [stop EXCEPT !.at = 1]
               y == complete(x, "Succeeded", late)
    <2>2. /\ x \in Stops /\ x.at = 1 /\ x.failed = {} /\ x.first = stop.first /\ ~x.db_clean
      BY <1>1 DEF begin_process_shutdown, Stops, PhaseFits
    <2>3. FirstFits(x) BY <2>2, <1>1 DEF FirstFits, begin_process_shutdown, PhaseFits
    <2> HIDE DEF x
    <2>4. /\ y \in Stops /\ y.at = 2 /\ FirstFits(y) /\ ~y.db_clean
      <3>1. x.at \in 1 .. 4 /\ "Succeeded" \in {"Succeeded", "Failed", "TimedOut"} BY <2>2
      <3>2. Ended(x, y, "Succeeded" = "Succeeded" /\ ~late) BY <2>2, <2>3, <3>1, StepCompletes, Zenon
      <3> HIDE DEF y
      <3> QED BY <2>2, <3>2 DEF Ended
    <2> HIDE DEF y
    <2>5. stop' = [y EXCEPT !.phase = "drain"] /\ "drain" \in StopPhases BY <2>1 DEF x, y, StopPhases
    <2>6. stop' \in Stops /\ FirstFits(stop') /\ stop'.phase = "drain" /\ stop'.at = 2 /\ ~stop'.db_clean
      BY <2>4, <2>5, <1>0, <1>a
    <2> QED BY <2>6 DEF StopInv, PhaseFits
  <1>2. CASE complete_drain
    <2>1. PICK outcome \in {"Succeeded", "Failed", "TimedOut"}, late \in BOOLEAN :
             stop' = [complete(stop, outcome, late \/ outcome = "TimedOut") EXCEPT !.phase = "flush"]
      BY <1>2 DEF complete_drain
    <2> DEFINE l == late \/ outcome = "TimedOut"
               y == complete(stop, outcome, l)
    <2>2. l \in BOOLEAN /\ stop.at = 2 /\ ~stop.db_clean BY <1>2 DEF complete_drain, PhaseFits
    <2> HIDE DEF l
    <2>4. /\ y \in Stops /\ y.at = 3 /\ FirstFits(y) /\ ~y.db_clean
      <3>1. stop.at \in 1 .. 4 BY <2>2
      <3>2. Ended(stop, y, outcome = "Succeeded" /\ ~l) BY <2>2, <3>1, StepCompletes, Zenon
      <3> HIDE DEF y
      <3> QED BY <2>2, <3>2 DEF Ended
    <2> HIDE DEF y
    <2>5. stop' = [y EXCEPT !.phase = "flush"] /\ "flush" \in StopPhases BY <2>1 DEF l, y, StopPhases
    <2>6. stop' \in Stops /\ FirstFits(stop') /\ stop'.phase = "flush" /\ stop'.at = 3 /\ ~stop'.db_clean
      BY <2>4, <2>5, <1>0, <1>a
    <2> QED BY <2>6 DEF StopInv, PhaseFits
  <1>3. CASE flush_journals
    <2>1. PICK answer \in Commands, done \in BOOLEAN :
       /\ answer = "Succeeded" => done
       /\ LET x == [stop EXCEPT !.journals = IF done THEN "flushed" ELSE @]
          IN stop' = IF answer = "Succeeded" THEN [x EXCEPT !.phase = "close"]
                     ELSE [complete(x, answer, answer = "TimedOut") EXCEPT !.phase = "owner"]
      BY <1>3 DEF flush_journals
    <2> DEFINE j == IF done THEN "flushed" ELSE stop.journals
               x == [stop EXCEPT !.journals = j]
    <2>2. j \in {"open", "flushed", "closed"} /\ stop.at = 3 /\ ~stop.db_clean
      BY <1>3 DEF flush_journals, PhaseFits, Stops
    <2> HIDE DEF j
    <2>3. /\ x \in Stops /\ x.at = 3 /\ x.failed = stop.failed /\ x.first = stop.first /\ ~x.db_clean
      BY <2>2 DEF Stops
    <2>4. FirstFits(x) BY <2>3, <2>2 DEF FirstFits
    <2>5. stop' = IF answer = "Succeeded" THEN [x EXCEPT !.phase = "close"]
                  ELSE [complete(x, answer, answer = "TimedOut") EXCEPT !.phase = "owner"]
      BY <2>1 DEF j
    <2> HIDE DEF x
    <2>6. CASE answer = "Succeeded"
      <3>1. stop' = [x EXCEPT !.phase = "close"] /\ "close" \in StopPhases BY <2>5, <2>6 DEF StopPhases
      <3>2. stop' \in Stops /\ FirstFits(stop') /\ stop'.phase = "close" /\ stop'.at = 3 /\ ~stop'.db_clean
        BY <2>3, <2>4, <3>1, <1>0, <1>a
      <3> QED BY <3>2 DEF StopInv, PhaseFits
    <2>7. CASE answer # "Succeeded"
      <3> DEFINE l == (answer = "TimedOut")
                 y == complete(x, answer, l)
      <3>1. l \in BOOLEAN /\ answer \in {"Succeeded", "Failed", "TimedOut"} BY DEF Commands
      <3> HIDE DEF l
      <3>2. /\ y \in Stops /\ y.at = 4 /\ FirstFits(y) /\ ~y.db_clean
            /\ y.failed = x.failed \cup {"FlushJournal"}
        <4>1. x.at \in 1 .. 4 BY <2>3
        <4>2. Ended(x, y, answer = "Succeeded" /\ ~l) BY <2>3, <2>4, <3>1, <4>1, StepCompletes, Zenon
        <4> HIDE DEF y
        <4> QED BY <2>3, <2>7, <3>1, StepsApart, <4>2 DEF Ended
      <3>3. stop' = [y EXCEPT !.phase = "owner"] /\ "owner" \in StopPhases BY <2>5, <2>7 DEF l, StopPhases
      <3> HIDE DEF y
      <3>4. /\ stop' \in Stops /\ FirstFits(stop') /\ stop'.phase = "owner" /\ stop'.at = 4 /\ ~stop'.db_clean
            /\ "FlushJournal" \in stop'.failed
        BY <3>2, <3>3, <1>0, <1>a
      <3> QED BY <3>4 DEF StopInv, PhaseFits
    <2> QED BY <2>6, <2>7
  <1>4. CASE close_journals
    <2>1. PICK answer \in Commands, done \in BOOLEAN, late \in BOOLEAN :
       /\ answer = "Succeeded" => done
       /\ stop' = [complete([stop EXCEPT !.journals = IF done THEN "closed" ELSE @], answer, late \/ answer = "TimedOut")
                     EXCEPT !.phase = "owner"]
      BY <1>4 DEF close_journals
    <2> DEFINE j == IF done THEN "closed" ELSE stop.journals
               x == [stop EXCEPT !.journals = j]
               l == late \/ answer = "TimedOut"
               y == complete(x, answer, l)
    <2>2. /\ j \in {"open", "flushed", "closed"} /\ stop.at = 3 /\ ~stop.db_clean
          /\ l \in BOOLEAN /\ answer \in {"Succeeded", "Failed", "TimedOut"}
          /\ answer = "Succeeded" => j = "closed"
      BY <1>4, <2>1 DEF close_journals, PhaseFits, Stops, Commands
    <2>a. stop' = [y EXCEPT !.phase = "owner"] /\ "owner" \in StopPhases BY <2>1 DEF StopPhases
    <2> HIDE DEF j, l
    <2>3. /\ x \in Stops /\ x.at = 3 /\ x.failed = stop.failed /\ x.first = stop.first /\ ~x.db_clean /\ x.journals = j
      BY <2>2 DEF Stops
    <2>4. FirstFits(x) BY <2>3, <2>2 DEF FirstFits
    <2> HIDE DEF x
    <2>5. /\ y \in Stops /\ y.at = 4 /\ FirstFits(y) /\ ~y.db_clean /\ y.journals = j
          /\ answer # "Succeeded" => "FlushJournal" \in y.failed
      <3>1. x.at \in 1 .. 4 BY <2>3
      <3>2. Ended(x, y, answer = "Succeeded" /\ ~l) BY <2>2, <2>3, <2>4, <3>1, StepCompletes, Zenon
      <3> HIDE DEF y
      <3> QED BY <2>2, <2>3, <3>2, StepsApart DEF Ended
    <2> HIDE DEF y
    <2>6. /\ stop' \in Stops /\ FirstFits(stop') /\ stop'.phase = "owner" /\ stop'.at = 4 /\ ~stop'.db_clean
          /\ stop'.failed = y.failed /\ stop'.journals = j
      BY <2>5, <2>a, <1>0, <1>a
    <2> QED BY <2>2, <2>5, <2>6 DEF StopInv, PhaseFits
  <1>5. CASE stop_owner
    <2>1. PICK answer \in Commands :
       LET x == [stop EXCEPT !.wanted = attempted_clean(stop)]
       IN stop' = IF answer = "Succeeded" THEN [x EXCEPT !.owner = "joined", !.phase = "record"]
                  ELSE [complete(x, answer, answer = "TimedOut") EXCEPT !.owner = "detached", !.phase = "ended"]
      BY <1>5 DEF stop_owner
    <2> DEFINE w == (stop.failed = {})
               x == [stop EXCEPT !.wanted = w]
    <2>2. w \in BOOLEAN /\ stop.at = 4 /\ ~stop.db_clean /\ ("FlushJournal" \notin stop.failed => stop.journals = "closed")
      BY <1>5 DEF stop_owner, PhaseFits
    <2>3. stop' = IF answer = "Succeeded" THEN [x EXCEPT !.owner = "joined", !.phase = "record"]
                  ELSE [complete(x, answer, answer = "TimedOut") EXCEPT !.owner = "detached", !.phase = "ended"]
      BY <2>1 DEF attempted_clean
    <2>4. w <=> stop.failed = {} OBVIOUS
    <2> HIDE DEF w
    <2>5. /\ x \in Stops /\ x.at = 4 /\ x.failed = stop.failed /\ x.first = stop.first /\ ~x.db_clean
          /\ x.journals = stop.journals /\ x.wanted = w
      BY <2>2 DEF Stops
    <2>6. FirstFits(x) BY <2>5, <2>2 DEF FirstFits
    <2> HIDE DEF x
    <2>7. CASE answer = "Succeeded"
      BY <2>3, <2>7, <2>5, <2>6, <2>2, <2>4 DEF Stops, StopPhases, FirstFits, StopInv, PhaseFits
    <2>8. CASE answer # "Succeeded"
      <3> DEFINE l == (answer = "TimedOut")
                 y == complete(x, answer, l)
      <3>1. l \in BOOLEAN /\ answer \in {"Succeeded", "Failed", "TimedOut"} BY DEF Commands
      <3> HIDE DEF l
      <3>2. /\ y \in Stops /\ y.at = 5 /\ FirstFits(y) /\ ~y.db_clean
            /\ y.failed # {}
        <4>1. x.at \in 1 .. 4 BY <2>5
        <4>2. Ended(x, y, answer = "Succeeded" /\ ~l) BY <2>5, <2>6, <3>1, <4>1, StepCompletes, Zenon
        <4> HIDE DEF y
        <4> QED BY <2>5, <2>8, <3>1, <4>2 DEF Ended
      <3>3. stop' = [y EXCEPT !.owner = "detached", !.phase = "ended"] BY <2>3, <2>8 DEF l
      <3> HIDE DEF y
      <3>4. /\ stop' \in Stops /\ stop'.at = y.at /\ stop'.failed = y.failed /\ stop'.first = y.first /\ ~stop'.db_clean
            /\ stop'.phase = "ended"
        BY <3>2, <3>3 DEF Stops, StopPhases
      <3>5. FirstFits(stop') BY <3>2, <3>4 DEF FirstFits
      <3> QED BY <3>2, <3>4, <3>5 DEF StopInv, PhaseFits
    <2> QED BY <2>7, <2>8
  <1>6. CASE put_session_record
    <2>1. PICK ok \in BOOLEAN, late \in BOOLEAN :
       LET y == complete([stop EXCEPT !.db_clean = IF ok THEN stop.wanted ELSE @], IF ok THEN "Succeeded" ELSE "Failed", late)
       IN stop' = [y EXCEPT !.phase = IF y.wanted /\ y.failed # {} THEN "repair" ELSE "ended"]
      BY <1>6 DEF put_session_record
    <2> DEFINE b == IF ok THEN stop.wanted ELSE stop.db_clean
               r == IF ok THEN "Succeeded" ELSE "Failed"
               x == [stop EXCEPT !.db_clean = b]
               y == complete(x, r, late)
               q == IF y.wanted /\ y.failed # {} THEN "repair" ELSE "ended"
    <2>2. /\ b \in BOOLEAN /\ stop.at = 4 /\ ("FlushJournal" \notin stop.failed => stop.journals = "closed")
          /\ r \in {"Succeeded", "Failed", "TimedOut"} /\ stop.owner = "joined" /\ (stop.wanted <=> stop.failed = {})
          /\ b => ok /\ stop.wanted
          /\ ok => b = stop.wanted
          /\ ok <=> r = "Succeeded"
      BY <1>6 DEF put_session_record, PhaseFits, Stops
    <2>a. stop' = [y EXCEPT !.phase = q] /\ q \in StopPhases BY <2>1 DEF StopPhases
    <2>b. q = IF y.wanted /\ y.failed # {} THEN "repair" ELSE "ended" OBVIOUS
    <2> HIDE DEF b, r, q
    <2>3. /\ x \in Stops /\ x.at = 4 /\ x.failed = stop.failed /\ x.first = stop.first /\ x.db_clean = b
          /\ x.journals = stop.journals /\ x.wanted = stop.wanted /\ x.owner = "joined"
      BY <2>2 DEF Stops
    <2>4. FirstFits(x) BY <2>3, <2>2 DEF FirstFits
    <2> HIDE DEF x
    <2>5. /\ y \in Stops /\ y.at = 5 /\ FirstFits(y) /\ y.db_clean = b /\ y.journals = x.journals
          /\ y.owner = "joined" /\ y.wanted = stop.wanted
          /\ y.failed = IF r = "Succeeded" /\ ~late THEN x.failed ELSE x.failed \cup {"PersistSession"}
      <3>1. x.at \in 1 .. 4 BY <2>3
      <3>2. Ended(x, y, r = "Succeeded" /\ ~late) BY <2>2, <2>3, <2>4, <3>1, StepCompletes, Zenon
      <3> HIDE DEF y
      <3> QED BY <2>2, <2>3, <3>2, StepsApart DEF Ended
    <2> HIDE DEF y
    <2>6. /\ stop' \in Stops /\ FirstFits(stop') /\ stop'.phase = q /\ stop'.at = 5 /\ stop'.db_clean = b
          /\ stop'.failed = y.failed /\ stop'.journals = x.journals /\ stop'.owner = "joined" /\ stop'.wanted = stop.wanted
      BY <2>5, <2>a, <1>0, <1>a
    <2>7. CASE q = "repair" BY <2>7, <2>b, <2>5, <2>2, <2>3, <2>6 DEF StopInv, PhaseFits
    <2>8. CASE q = "ended" BY <2>8, <2>b, <2>5, <2>2, <2>3, <2>6 DEF StopInv, PhaseFits
    <2> QED BY <2>7, <2>8 DEF q
  <1>7. CASE repair_record
    <2>1. PICK ok \in BOOLEAN : stop' = [stop EXCEPT !.db_clean = IF ok THEN FALSE ELSE @, !.unrepaired = ~ok, !.phase = "ended"]
      BY <1>7 DEF repair_record
    <2> DEFINE b == IF ok THEN FALSE ELSE stop.db_clean
               u == ~ok
    <2>2. b \in BOOLEAN /\ u \in BOOLEAN /\ (b => u) BY DEF Stops
    <2>3. stop' = [stop EXCEPT !.db_clean = b, !.unrepaired = u, !.phase = "ended"] BY <2>1
    <2>4. /\ stop.journals = "closed" /\ stop.owner = "joined" /\ stop.failed = {"PersistSession"}
      BY <1>7 DEF repair_record, PhaseFits
    <2> HIDE DEF b, u
    <2>5. /\ stop' \in Stops /\ stop'.at = stop.at /\ stop'.failed = stop.failed /\ stop'.first = stop.first
          /\ stop'.journals = stop.journals /\ stop'.owner = stop.owner /\ stop'.phase = "ended"
          /\ stop'.db_clean = b /\ stop'.unrepaired = u
      BY <2>2, <2>3 DEF Stops, StopPhases
    <2>6. FirstFits(stop') BY <2>5 DEF FirstFits
    <2> QED BY <2>2, <2>4, <2>5, <2>6 DEF StopInv, PhaseFits
  <1>8. CASE process_killed BY <1>8, <1>0, <1>a DEF process_killed, StopPhases, StopInv, PhaseFits
  <1> QED BY <1>1, <1>2, <1>3, <1>4, <1>5, <1>6, <1>7, <1>8 DEF StopNext

\* The invariant of the shutdown holds initially.
LEMMA InitStops == StopInit => StopInv
  <1> SUFFICES ASSUME StopInit PROVE StopInv OBVIOUS
  <1>1. stop \in Stops
    <2>1. 0 \in 0 .. 5 OBVIOUS
    <2>2. "running" \in StopPhases BY DEF StopPhases
    <2> QED BY <2>1, <2>2, Zenon DEF StopInit, Stops
  <1>2. /\ stop.at = 0 /\ stop.phase = "running" /\ stop.failed = {} /\ stop.first = None /\ ~stop.db_clean
    BY DEF StopInit
  <1> QED BY <1>1, <1>2, SomeIsNotNone DEF StopInv, FirstFits, PhaseFits

\* The invariant says that a session marked clean was closed cleanly.
LEMMA StopIsClean == StopInv => CleanMeansClosed
  <1> SUFFICES ASSUME StopInv PROVE CleanMeansClosed OBVIOUS
  <1>1. DOMAIN ShutdownSteps = 1 .. 4 BY StepsApart
  <1> QED BY <1>1 DEF StopInv, FirstFits, PhaseFits, CleanMeansClosed

-----------------------------------------------------------------------------
(* Opening the database.                                                   *)

\* What a page says the version is, if it says anything.
Headers == {None} \cup {Some(h) : h \in PageOne}
WalStates == [pending : Headers, committed : Headers, live : BOOLEAN]

\* One frame of the scan of the write-ahead log.
WalStep(s, f) ==
  LET pending == IF Is(f.header) THEN f.header ELSE s.pending
  IN IF ~s.live \/ ~f.good THEN [pending |-> s.pending, committed |-> s.committed, live |-> FALSE]
     ELSE [pending |-> pending, committed |-> IF f.commit THEN pending ELSE s.committed, live |-> TRUE]

\* The pass over the WAL takes the frames one after the other.
LEMMA WalScanned ==
  ASSUME NEW frames \in Seq(Frame), NEW header \in Headers
  PROVE  /\ ScanWal(frames, header) \in [0 .. Len(frames) -> WalStates]
         /\ ScanWal(frames, header)[0] = [pending |-> header, committed |-> header, live |-> TRUE]
         /\ \A i \in 1 .. Len(frames) :
              ScanWal(frames, header)[i] = WalStep(ScanWal(frames, header)[i - 1], frames[i])
  <1> DEFINE n == Len(frames)
             a == [pending |-> header, committed |-> header, live |-> TRUE]
             F == [q \in WalStates \X (1 .. n) |-> WalStep(q[1], frames[q[2]])]
  <1>1. n \in Nat OBVIOUS
  <1>2. a \in WalStates BY DEF WalStates
  <1>3. ASSUME NEW s \in WalStates, NEW f \in Frame PROVE WalStep(s, f) \in WalStates
    BY DEF WalStep, WalStates, Frame, Headers
  <1>4. F \in [WalStates \X (1 .. n) -> WalStates]
    <2>1. ASSUME NEW q \in WalStates \X (1 .. n) PROVE WalStep(q[1], frames[q[2]]) \in WalStates BY <1>3
    <2> QED BY <2>1
  <1>5. PICK g : Iterates(g, n, WalStates, a, F)
    <2> HIDE DEF n, F, a
    <2> QED BY <1>1, <1>2, <1>4, Recursion
  <1>6. ASSUME NEW i \in 1 .. n PROVE g[i] = WalStep(g[i - 1], frames[i])
    <2>0. i - 1 \in 0 .. n OBVIOUS
    <2>1. <<g[i - 1], i>> \in WalStates \X (1 .. n) BY <2>0, <1>5 DEF Iterates
    <2>2. g[i] = F[<<g[i - 1], i>>] BY <1>5 DEF Iterates
    <2> HIDE DEF n
    <2> QED BY <2>1, <2>2
  <1>7. g = [i \in 0 .. n |-> IF i = 0 THEN a ELSE WalStep(g[i - 1], frames[i])]
    <2>1. \A i \in 0 .. n : g[i] = IF i = 0 THEN a ELSE WalStep(g[i - 1], frames[i])
      <3> HIDE DEF a
      <3> QED BY <1>5, <1>6 DEF Iterates
    <2> HIDE DEF a
    <2> QED BY <2>1, <1>5 DEF Iterates
  <1>8. ScanWal(frames, header) = [i \in 0 .. n |-> IF i = 0 THEN a ELSE WalStep(ScanWal(frames, header)[i - 1], frames[i])]
    BY <1>7, Zenon DEF ScanWal, WalStep
  <1> DEFINE w == ScanWal(frames, header)
  <1> HIDE DEF a, w
  <1>9. /\ w[0] = a /\ \A i \in 1 .. n : w[i] = WalStep(w[i - 1], frames[i])
        /\ w = [i \in 0 .. n |-> w[i]]
    BY <1>8 DEF w
  <1>10. \A i \in 0 .. n : w[i] \in WalStates
    <2> DEFINE T == {m \in Nat : m =< n => w[m] \in WalStates}
    <2>1. 0 \in T BY <1>2, <1>9
    <2>2. ASSUME NEW m \in T PROVE m + 1 \in T
      <3> SUFFICES ASSUME m + 1 =< n PROVE w[m + 1] \in WalStates OBVIOUS
      <3>1. m \in Nat /\ m + 1 \in 1 .. n /\ (m + 1) - 1 = m OBVIOUS
      <3>2. w[m + 1] = WalStep(w[m], frames[m + 1]) BY <3>1, <1>9
      <3>3. w[m] \in WalStates /\ frames[m + 1] \in Frame BY <3>1
      <3> QED BY <3>2, <3>3, <1>3
    <2> HIDE DEF T
    <2>3. T \in SUBSET Nat BY DEF T
    <2>4. T = Nat BY <2>1, <2>2, <2>3, Induction
    <2> QED BY <2>4 DEF T
  <1> QED BY <1>9, <1>10 DEF w, a

\* Frame or record j is undamaged, and everything before it.
Whole(s, j) == \A k \in 1 .. j : s[k].good
\* The page-one frames up to i, and those of them a later commit covers.
Heads(s, i) == {j \in 1 .. i : Is(s[j].header) /\ Whole(s, j)}
WalCommitted(s, i) == {j \in Heads(s, i) : \E k \in j .. i : Whole(s, k) /\ s[k].commit}
\* h is the header of the last of them, or what it was before.
LastOf(s, S, h, otherwise) ==
  \/ S = {} /\ h = otherwise
  \/ \E m \in S : (\A j \in S : j =< m) /\ h = s[m].header

\* What the pass keeps after i frames.
LEMMA WalMeaning ==
  ASSUME NEW frames \in Seq(Frame), NEW header \in Headers, NEW i \in 0 .. Len(frames)
  PROVE  LET w == ScanWal(frames, header)[i]
         IN /\ w.live <=> Whole(frames, i)
            /\ LastOf(frames, Heads(frames, i), w.pending, header)
            /\ LastOf(frames, WalCommitted(frames, i), w.committed, header)
  <1> DEFINE n == Len(frames)
             W == ScanWal(frames, header)
             StateFits(m) == /\ W[m].live <=> Whole(frames, m)
                             /\ LastOf(frames, Heads(frames, m), W[m].pending, header)
                             /\ LastOf(frames, WalCommitted(frames, m), W[m].committed, header)
             T == {m \in Nat : m =< n => StateFits(m)}
  <1>0. /\ W \in [0 .. n -> WalStates] /\ W[0] = [pending |-> header, committed |-> header, live |-> TRUE]
        /\ \A k \in 1 .. n : W[k] = WalStep(W[k - 1], frames[k])
    BY WalScanned
  <1> HIDE DEF W
  <1>n. n \in Nat OBVIOUS
  <1>1. 0 \in T BY <1>0 DEF Whole, Heads, WalCommitted, LastOf
  <1>2. ASSUME NEW m \in T PROVE m + 1 \in T
    <2> SUFFICES ASSUME m + 1 =< n PROVE StateFits(m + 1) OBVIOUS
    <2> DEFINE k == m + 1
               f == frames[k]
               s == W[m]
    <2>1. m \in Nat /\ k \in 1 .. n /\ k - 1 = m /\ m \in 0 .. n /\ k \in Nat /\ k > m BY <1>n
    <2>2. StateFits(m) BY <2>1
    <2>3. W[k] = WalStep(s, f) /\ s \in WalStates /\ f \in Frame BY <2>1, <1>0
    <2>4. \A j \in Nat : j \in 1 .. k <=> j \in 1 .. m \/ j = k BY <2>1
    <2>5. Whole(frames, k) <=> Whole(frames, m) /\ f.good
      <3>1. \A j \in 1 .. k : j \in 1 .. m \/ j = k BY <2>1
      <3>2. \A j \in 1 .. m : j \in 1 .. k BY <2>1
      <3>3. k \in 1 .. k BY <2>1
      <3> HIDE DEF k
      <3> QED BY <3>1, <3>2, <3>3, Zenon DEF Whole
    <2>6. Heads(frames, k) = Heads(frames, m) \cup (IF Is(f.header) /\ Whole(frames, k) THEN {k} ELSE {})
      BY <2>1, <2>4 DEF Heads
    <2>7. \A j \in Heads(frames, m) : j \in 1 .. m BY DEF Heads
    <2>8. WalCommitted(frames, k) = IF Whole(frames, k) /\ f.commit THEN Heads(frames, k) ELSE WalCommitted(frames, m)
      <3>1. CASE Whole(frames, k) /\ f.commit BY <2>1, <3>1 DEF Heads, WalCommitted
      <3>2. CASE ~(Whole(frames, k) /\ f.commit) BY <3>2, <2>1, <2>6, <2>7 DEF WalCommitted
      <3> QED BY <3>1, <3>2
    <2> HIDE DEF k, f, s
    <2>9. CASE ~s.live \/ ~f.good
      <3>1. W[k].live = FALSE /\ W[k].pending = s.pending /\ W[k].committed = s.committed
        BY <2>3, <2>9 DEF WalStep
      <3>2. ~Whole(frames, k) BY <2>2, <2>5, <2>9 DEF s
      <3>3. Heads(frames, k) = Heads(frames, m) /\ WalCommitted(frames, k) = WalCommitted(frames, m)
        BY <3>2, <2>6, <2>8
      <3> QED BY <3>1, <3>2, <3>3, <2>2 DEF s, k
    <2>10. CASE s.live /\ f.good
      <3> DEFINE p == IF Is(f.header) THEN f.header ELSE s.pending
      <3>1. /\ W[k].live = TRUE /\ W[k].pending = p
            /\ W[k].committed = IF f.commit THEN p ELSE s.committed
        BY <2>3, <2>10 DEF WalStep
      <3>2. Whole(frames, k) BY <2>2, <2>5, <2>10 DEF s
      <3>3. LastOf(frames, Heads(frames, k), p, header)
        <4>1. CASE Is(f.header) BY <4>1, <3>2, <2>6, <2>7, <2>1 DEF LastOf, f
        <4>2. CASE ~Is(f.header) BY <4>2, <2>6, <2>2 DEF s
        <4> QED BY <4>1, <4>2
      <3> HIDE DEF p
      <3>4. LastOf(frames, WalCommitted(frames, k), W[k].committed, header)
        BY <3>1, <3>2, <3>3, <2>8, <2>2 DEF s
      <3> QED BY <3>1, <3>2, <3>3, <3>4 DEF k
    <2>11. s.live \in BOOLEAN /\ f.good \in BOOLEAN BY <2>3 DEF WalStates, Frame
    <2> QED BY <2>9, <2>10, <2>11
  <1> HIDE DEF T, StateFits
  <1>3. T \in SUBSET Nat BY DEF T
  <1>4. T = Nat BY <1>1, <1>2, <1>3, Induction
  <1>5. StateFits(i) BY <1>4, <1>n DEF T
  <1> QED BY <1>5 DEF StateFits, W

\* The state of the scan of a rollback journal.
PageStates == [page : Headers, live : BOOLEAN]
PageStep(s, f) == IF ~s.live \/ ~f.good THEN [page |-> s.page, live |-> FALSE]
                  ELSE [page |-> IF Is(f.header) THEN f.header ELSE s.page, live |-> TRUE]

\* The pass over a rollback journal takes its records one after the other.
LEMMA RollbackScanned ==
  ASSUME NEW records \in Seq(Record)
  PROVE  /\ ScanRollback(records) \in [0 .. Len(records) -> PageStates]
         /\ ScanRollback(records)[0] = [page |-> None, live |-> TRUE]
         /\ \A i \in 1 .. Len(records) :
              ScanRollback(records)[i] = PageStep(ScanRollback(records)[i - 1], records[i])
  <1> DEFINE n == Len(records)
             a == [page |-> None, live |-> TRUE]
             F == [q \in PageStates \X (1 .. n) |-> PageStep(q[1], records[q[2]])]
  <1>1. n \in Nat OBVIOUS
  <1>2. a \in PageStates BY DEF PageStates, Headers
  <1>3. ASSUME NEW s \in PageStates, NEW f \in Record PROVE PageStep(s, f) \in PageStates
    BY DEF PageStep, PageStates, Record, Headers
  <1>4. F \in [PageStates \X (1 .. n) -> PageStates]
    <2>1. ASSUME NEW q \in PageStates \X (1 .. n) PROVE PageStep(q[1], records[q[2]]) \in PageStates BY <1>3
    <2> QED BY <2>1
  <1>5. PICK g : Iterates(g, n, PageStates, a, F)
    <2> HIDE DEF n, F, a
    <2> QED BY <1>1, <1>2, <1>4, Recursion
  <1>6. ASSUME NEW i \in 1 .. n PROVE g[i] = PageStep(g[i - 1], records[i])
    <2>0. i - 1 \in 0 .. n OBVIOUS
    <2>1. <<g[i - 1], i>> \in PageStates \X (1 .. n) BY <2>0, <1>5 DEF Iterates
    <2>2. g[i] = F[<<g[i - 1], i>>] BY <1>5 DEF Iterates
    <2> HIDE DEF n
    <2> QED BY <2>1, <2>2
  <1>7. g = [i \in 0 .. n |-> IF i = 0 THEN a ELSE PageStep(g[i - 1], records[i])]
    <2>1. \A i \in 0 .. n : g[i] = IF i = 0 THEN a ELSE PageStep(g[i - 1], records[i])
      <3> HIDE DEF a
      <3> QED BY <1>5, <1>6 DEF Iterates
    <2> HIDE DEF a
    <2> QED BY <2>1, <1>5 DEF Iterates
  <1>8. ScanRollback(records) = [i \in 0 .. n |-> IF i = 0 THEN a ELSE PageStep(ScanRollback(records)[i - 1], records[i])]
    BY <1>7, Zenon DEF ScanRollback, PageStep
  <1> DEFINE w == ScanRollback(records)
  <1> HIDE DEF a, w
  <1>9. /\ w[0] = a /\ \A i \in 1 .. n : w[i] = PageStep(w[i - 1], records[i])
        /\ w = [i \in 0 .. n |-> w[i]]
    BY <1>8 DEF w
  <1>10. \A i \in 0 .. n : w[i] \in PageStates
    <2> DEFINE T == {m \in Nat : m =< n => w[m] \in PageStates}
    <2>1. 0 \in T BY <1>2, <1>9
    <2>2. ASSUME NEW m \in T PROVE m + 1 \in T
      <3> SUFFICES ASSUME m + 1 =< n PROVE w[m + 1] \in PageStates OBVIOUS
      <3>1. m \in Nat /\ m + 1 \in 1 .. n /\ (m + 1) - 1 = m OBVIOUS
      <3>2. w[m + 1] = PageStep(w[m], records[m + 1]) BY <3>1, <1>9
      <3>3. w[m] \in PageStates /\ records[m + 1] \in Record BY <3>1
      <3> QED BY <3>2, <3>3, <1>3
    <2> HIDE DEF T
    <2>3. T \in SUBSET Nat BY DEF T
    <2>4. T = Nat BY <2>1, <2>2, <2>3, Induction
    <2> QED BY <2>4 DEF T
  <1> QED BY <1>9, <1>10 DEF w, a

\* What it keeps after i records.
LEMMA RollbackMeaning ==
  ASSUME NEW records \in Seq(Record), NEW i \in 0 .. Len(records)
  PROVE  LET w == ScanRollback(records)[i]
         IN (w.live <=> Whole(records, i)) /\ LastOf(records, Heads(records, i), w.page, None)
  <1> DEFINE n == Len(records)
             W == ScanRollback(records)
             StateFits(m) == (W[m].live <=> Whole(records, m)) /\ LastOf(records, Heads(records, m), W[m].page, None)
             T == {m \in Nat : m =< n => StateFits(m)}
  <1>0. /\ W \in [0 .. n -> PageStates] /\ W[0] = [page |-> None, live |-> TRUE]
        /\ \A k \in 1 .. n : W[k] = PageStep(W[k - 1], records[k])
    BY RollbackScanned
  <1> HIDE DEF W
  <1>n. n \in Nat OBVIOUS
  <1>1. 0 \in T BY <1>0 DEF Whole, Heads, LastOf
  <1>2. ASSUME NEW m \in T PROVE m + 1 \in T
    <2> SUFFICES ASSUME m + 1 =< n PROVE StateFits(m + 1) OBVIOUS
    <2> DEFINE k == m + 1
               f == records[k]
               s == W[m]
    <2>1. m \in Nat /\ k \in 1 .. n /\ k - 1 = m /\ m \in 0 .. n /\ k \in Nat /\ k > m BY <1>n
    <2>2. StateFits(m) BY <2>1
    <2>3. W[k] = PageStep(s, f) /\ s \in PageStates /\ f \in Record BY <2>1, <1>0
    <2>4. \A j \in Nat : j \in 1 .. k <=> j \in 1 .. m \/ j = k BY <2>1
    <2>5. Whole(records, k) <=> Whole(records, m) /\ f.good BY <2>1, <2>4 DEF Whole
    <2>6. Heads(records, k) = Heads(records, m) \cup (IF Is(f.header) /\ Whole(records, k) THEN {k} ELSE {})
      BY <2>1, <2>4 DEF Heads
    <2>7. \A j \in Heads(records, m) : j \in 1 .. m BY DEF Heads
    <2> HIDE DEF k, f, s
    <2>9. CASE ~s.live \/ ~f.good
      <3>1. W[k].live = FALSE /\ W[k].page = s.page BY <2>3, <2>9 DEF PageStep
      <3>2. ~Whole(records, k) BY <2>2, <2>5, <2>9 DEF s
      <3>3. Heads(records, k) = Heads(records, m) BY <3>2, <2>6
      <3> QED BY <3>1, <3>2, <3>3, <2>2 DEF s, k
    <2>10. CASE s.live /\ f.good
      <3>1. W[k].live = TRUE /\ W[k].page = IF Is(f.header) THEN f.header ELSE s.page
        BY <2>3, <2>10 DEF PageStep
      <3>2. Whole(records, k) BY <2>2, <2>5, <2>10 DEF s
      <3>3. LastOf(records, Heads(records, k), W[k].page, None)
        <4>1. CASE Is(f.header) BY <4>1, <3>2, <2>6, <2>7, <2>1, <3>1 DEF LastOf, f
        <4>2. CASE ~Is(f.header) BY <4>2, <3>1, <2>6, <2>2 DEF s
        <4> QED BY <4>1, <4>2
      <3> QED BY <3>1, <3>2, <3>3 DEF k
    <2>11. s.live \in BOOLEAN /\ f.good \in BOOLEAN BY <2>3 DEF PageStates, Record
    <2> QED BY <2>9, <2>10, <2>11
  <1> HIDE DEF T, StateFits
  <1>3. T \in SUBSET Nat BY DEF T
  <1>4. T = Nat BY <1>1, <1>2, <1>3, Induction
  <1>5. StateFits(i) BY <1>4, <1>n DEF T
  <1> QED BY <1>5 DEF StateFits, W

\* The files as a last writer may have left them.
RollbackJournals == [hot : BOOLEAN, new : BOOLEAN, records : Seq(Record)]
FilesFit == main \in Headers \cup {Some(EmptyFile)} /\ wal \in Seq(Frame) /\ rollback \in RollbackJournals
\* There is a database: the file has pages and its journal does not take them back.
HasDatabase == ~The(main).empty /\ ~(rollback.hot /\ rollback.new)

\* The page one the files lead to is the one SQLite's recovery finds.
LEMMA FilesAgree ==
  ASSUME FilesFit, main # None
  PROVE  inspect_persisted_user_version = recovered.version /\ recovered \in PageOne \cup {EmptyFile}
  <1> DEFINE records == rollback.records
             u == inspect_rollback_journal(records)
             h == IF Is(u) THEN u ELSE main
             c == inspect_wal_database_header(wal, h)
             LastOne(S) == CHOOSE i \in S : \A j \in S : j <= i
             R == Heads(records, Len(records))
             P == WalCommitted(wal, Len(wal))
  <1>0. records \in Seq(Record) /\ wal \in Seq(Frame) BY DEF FilesFit, RollbackJournals
  <1>a. CASE ~HasDatabase
    <2>1. inspect_persisted_user_version = 0 /\ recovered = EmptyFile
      BY <1>a DEF HasDatabase, inspect_persisted_user_version, recovered
    <2> QED BY <2>1 DEF EmptyFile
  <1>b. CASE HasDatabase
    <2>0. main \in Headers
      <3>1. The(Some(EmptyFile)) = EmptyFile /\ EmptyFile.empty BY OptionFacts DEF EmptyFile
      <3> QED BY <1>b, <3>1 DEF FilesFit, HasDatabase
    <2>1. LastOf(records, R, u, None) BY <1>0, RollbackMeaning DEF inspect_rollback_journal
    <2>2. u \in Headers
      <3> HIDE DEF records
      <3>1. Len(records) \in 0..Len(records) BY <1>0
      <3>2. ScanRollback(records) \in [0..Len(records) -> PageStates] BY <1>0, RollbackScanned
      <3>3. ScanRollback(records)[Len(records)] \in PageStates BY <3>1, <3>2
      <3> QED BY <3>3 DEF inspect_rollback_journal, PageStates
    <2>3. h \in Headers BY <2>0, <2>2
    <2>4. LastOf(wal, P, c, h) BY <1>0, <2>3, WalMeaning DEF inspect_wal_database_header
    <2>5. \A S \in SUBSET Nat : \A m \in S : (\A j \in S : j =< m) => LastOne(S) = m
      <3> SUFFICES ASSUME NEW S \in SUBSET Nat, NEW m \in S, \A j \in S : j =< m PROVE LastOne(S) = m OBVIOUS
      <3>1. LastOne(S) \in S /\ \A j \in S : j =< LastOne(S) BY Zenon
      <3> DEFINE l == LastOne(S)
      <3> HIDE DEF l
      <3>2. l \in S /\ \A j \in S : j =< l BY <3>1 DEF l
      <3>3. l \in Nat /\ m \in Nat /\ l =< m /\ m =< l BY <3>2
      <3>4. l = m BY <3>3
      <3> QED BY <3>4 DEF l
    <2>6. P \in SUBSET Nat /\ R \in SUBSET Nat BY DEF WalCommitted, Heads
    <2>7. {i \in DOMAIN records : (\A j \in 1..i : records[j].good) /\ Is(records[i].header)} = R
      BY DEF Heads, Whole, FilesFit
    <2>8. {i \in CommittedFrames(wal) : Is(wal[i].header)} = P
      BY DEF CommittedFrames, ValidFrames, WalCommitted, Heads, Whole, FilesFit
    <2>9. recovered = IF P # {} THEN The(wal[LastOne(P)].header)
                      ELSE IF R # {} THEN The(records[LastOne(R)].header) ELSE The(main)
      <3> DEFINE R2 == {i \in DOMAIN records : (\A j \in 1..i : records[j].good) /\ Is(records[i].header)}
                 P2 == {i \in CommittedFrames(wal) : Is(wal[i].header)}
      <3>1. recovered = IF The(main).empty \/ (rollback.hot /\ rollback.new) THEN EmptyFile
                        ELSE IF P2 # {} THEN The(wal[LastOne(P2)].header)
                        ELSE IF R2 # {} THEN The(records[LastOne(R2)].header) ELSE The(main)
        BY Zenon DEF recovered
      <3>2. R2 = R /\ P2 = P BY <2>7, <2>8
      <3> HIDE DEF R2, P2, R, P, LastOne
      <3> QED BY <1>b, <3>1, <3>2 DEF HasDatabase
    <2>10. inspect_persisted_user_version = The(c).version
      BY <1>b DEF HasDatabase, inspect_persisted_user_version
    <2>11. \A m \in R : Is(records[m].header) BY DEF Heads
    <2>a. \A m \in P : wal[m].header \in Headers /\ Is(wal[m].header)
      BY <1>0 DEF WalCommitted, Heads, Frame, Headers
    <2>b. \A m \in R : records[m].header \in Headers BY <1>0 DEF Heads, Record, Headers
    <2>c. \A o \in Headers : Is(o) => The(o) \in PageOne BY OptionFacts DEF Headers, Is
    <2>d. Is(main) BY DEF Is
    <2> HIDE DEF u, c, R, P, LastOne, records
    <2>12. The(c) = recovered /\ c \in Headers /\ Is(c)
      <3>1. CASE P # {}
        <4>1. PICK m \in P : (\A j \in P : j =< m) /\ c = wal[m].header BY <3>1, <2>4 DEF LastOf
        <4> QED BY <3>1, <4>1, <2>5, <2>6, <2>9, <2>a
      <3>2. CASE P = {}
        <4>1. c = h BY <3>2, <2>4 DEF LastOf
        <4>2. CASE R # {}
          <5>1. PICK m \in R : (\A j \in R : j =< m) /\ u = records[m].header BY <4>2, <2>1 DEF LastOf
          <5>2. h = u BY <5>1, <2>11
          <5> QED BY <3>2, <4>1, <4>2, <5>1, <5>2, <2>5, <2>6, <2>9, <2>11, <2>b
        <4>3. CASE R = {}
          <5>1. h = main BY <4>3, <2>1 DEF LastOf, Is
          <5> QED BY <4>3, <3>2, <4>1, <5>1, <2>9, <2>0, <2>d
        <4> QED BY <4>2, <4>3
      <3> QED BY <3>1, <3>2
    <2> QED BY <2>10, <2>12, <2>c
  <1> QED BY <1>a, <1>b

-----------------------------------------------------------------------------
(* Opening the session: the invariant.                                     *)

\* Where an opener is.
OpenPlaces == {"start", "lock", "prepare", "connect", "open", "closed", "refused", "dead"}
\* Whoever is past the lock holds it, and who is about to hand the files to
\* SQLite has found a version it knows.
OpenInv ==
  /\ FilesFit
  /\ at \in [Openers -> OpenPlaces] /\ lock \in {None} \cup {Some(p) : p \in Openers}
  /\ \A p \in Openers : at[p] \in {"prepare", "connect", "open"} => lock = Some(p)
  /\ \A p \in Openers : at[p] = "connect" => main # None /\ Supported(p, inspect_persisted_user_version)


\* The invariant of the openers holds initially.
LEMMA InitOpen == OpenInit => OpenInv
  <1> SUFFICES ASSUME OpenInit PROVE OpenInv OBVIOUS
  <1>1. main \in Headers \cup {Some(EmptyFile)} BY DEF OpenInit, Headers
  <1>2. \A S, n : \A s \in SeqsUpTo(S, n) : \E k \in 0 .. n : s \in [1 .. k -> S] BY DEF SeqsUpTo
  <1>3. \A S : \A k \in Int : \A s \in [1 .. k -> S] : k >= 0 => s \in Seq(S) OBVIOUS
  <1>4. \A S, n : \A s \in SeqsUpTo(S, n) : s \in Seq(S) BY <1>2, <1>3
  <1>5. wal \in Seq(Frame) /\ rollback \in RollbackJournals
    <2>1. wal \in SeqsUpTo(Frame, MaxFrames) \/ wal = << >> BY Zenon DEF OpenInit
    <2>2. rollback \in [hot : {TRUE}, new : BOOLEAN, records : SeqsUpTo(Record, MaxFrames)] \/ rollback = Cold
      BY Zenon DEF OpenInit
    <2>3. << >> \in Seq(Frame) /\ Cold \in RollbackJournals BY DEF Cold, RollbackJournals
    <2>4. ASSUME rollback \in [hot : {TRUE}, new : BOOLEAN, records : SeqsUpTo(Record, MaxFrames)]
          PROVE  rollback \in RollbackJournals
      <3>1. rollback.records \in Seq(Record) BY <2>4, <1>4
      <3> QED BY <2>4, <3>1 DEF RollbackJournals
    <2> QED BY <1>4, <2>1, <2>2, <2>3, <2>4
  <1>7. at = [p \in Openers |-> "start"] /\ lock = None BY DEF OpenInit
  <1> QED BY <1>1, <1>5, <1>7 DEF OpenInv, FilesFit, OpenPlaces

\* Every step of an opener keeps it, and writes the files of a database that has
\* a version only with a build of that version.
LEMMA OpenNextInv ==
  OpenInv /\ [OpenNext]_openVars =>
    /\ OpenInv'
    /\ main # None /\ recovered.version # 0 =>
         \/ UNCHANGED <<main, wal, rollback>>
         \/ \E p \in Openers : at[p] = "connect" /\ Supports[p] = recovered.version /\ recovered'.version = recovered.version
  <1> DEFINE Kept == main # None /\ recovered.version # 0 =>
                       \/ UNCHANGED <<main, wal, rollback>>
                       \/ \E p \in Openers : at[p] = "connect" /\ Supports[p] = recovered.version
                                            /\ recovered'.version = recovered.version
  <1>0. OpenInv /\ UNCHANGED openVars => OpenInv' /\ Kept
    BY Zenon DEF OpenInv, openVars, FilesFit, inspect_persisted_user_version
  <1> SUFFICES ASSUME OpenInv, OpenNext PROVE OpenInv' /\ Kept BY <1>0
  <1> USE DEF OpenGo
  <1>1. PICK p \in Openers : \/ Preflight(p) \/ acquire_session_owner_lock(p) \/ prepare_database_path(p)
                             \/ Connect(p) \/ CreationDies(p) \/ CloseStore(p)
    BY DEF OpenNext
  <1>2. ASSUME UNCHANGED <<main, wal, rollback>>
        PROVE  FilesFit' /\ inspect_persisted_user_version' = inspect_persisted_user_version /\ Kept
    BY <1>2 DEF OpenInv, FilesFit, inspect_persisted_user_version
  <1> HIDE DEF Kept
  <1>3. CASE Preflight(p) BY <1>3, <1>2 DEF Preflight, Refuse, OpenInv, Supported, OpenPlaces
  <1>4. CASE acquire_session_owner_lock(p)
    BY <1>4, <1>2, OptionFacts DEF acquire_session_owner_lock, OpenInv, Supported, OpenPlaces
  <1>5. CASE prepare_database_path(p)
    <2>0. at[p] = "prepare" /\ lock = Some(p) /\ \A q \in Openers : at[q] \in {"prepare", "connect", "open"} => q = p
      BY <1>5, OptionFacts DEF prepare_database_path, OpenInv
    <2>1. CASE ~Orphans /\ ~Foreign(p) /\ main = None
      <3>1. /\ main' = Some(EmptyFile) /\ UNCHANGED <<wal, rollback, lock>> /\ at' = [at EXCEPT ![p] = "connect"]
        BY <1>5, <2>1 DEF prepare_database_path
      <3>2. The(main)'.empty /\ main' # None BY <3>1, OptionFacts DEF EmptyFile
      <3>3. inspect_persisted_user_version' = 0 BY <3>2 DEF inspect_persisted_user_version
      <3>4. FilesFit' BY <3>1 DEF OpenInv, FilesFit
      <3>5. Kept BY <2>1 DEF Kept
      <3> QED BY <2>0, <3>1, <3>2, <3>3, <3>4, <3>5 DEF OpenInv, OpenPlaces, Supported
    <2>2. CASE Orphans \/ Foreign(p)
      BY <1>5, <2>2, <1>2, <2>0 DEF prepare_database_path, Refuse, OpenInv, OpenPlaces
    <2>3. CASE ~Orphans /\ ~Foreign(p) /\ main # None
      <3>1. UNCHANGED <<main, wal, rollback, lock>> /\ at' = [at EXCEPT ![p] = "connect"]
        BY <1>5, <2>3 DEF prepare_database_path
      <3>2. Supported(p, inspect_persisted_user_version) BY <2>3 DEF Foreign
      <3> QED BY <3>1, <3>2, <2>3, <1>2, <2>0 DEF OpenInv, OpenPlaces, Supported
    <2> QED BY <2>1, <2>2, <2>3
  <1>6. ASSUME at[p] = "connect"
        PROVE  /\ main # None /\ recovered \in PageOne \cup {EmptyFile} /\ Supported(p, recovered.version)
               /\ lock = Some(p) /\ \A q \in Openers : at[q] \in {"prepare", "connect", "open"} => q = p
    <2>1. main # None /\ Supported(p, inspect_persisted_user_version) /\ FilesFit BY <1>6 DEF OpenInv
    <2> QED BY <1>6, <2>1, FilesAgree, OptionFacts DEF OpenInv
  <1>7. Supports[p] \in Versions /\ Current(p) \in PageOne /\ [Current(p) EXCEPT !.version = 0] \in PageOne
    BY DEF Versions, Current, PageOne
  <1>8. CASE Connect(p)
    <2>0. at[p] = "connect" /\ wal' = << >> /\ rollback' = Cold BY <1>8 DEF Connect
    <2>1. PICK h \in PageOne \cup {EmptyFile} : main' = Some(h) /\ (recovered.version # 0 => h.version = recovered.version)
      <3>1. CASE recovered.fit
        <4>1. main' = Some(Current(p)) BY <1>8, <3>1, <1>6, <2>0 DEF Connect
        <4>2. recovered.version # 0 => Current(p).version = recovered.version BY <1>6, <2>0 DEF Supported, Current
        <4> QED BY <4>1, <4>2, <1>7
      <3>2. CASE ~recovered.fit BY <1>8, <3>2, <1>6, <2>0 DEF Connect
      <3> QED BY <3>1, <3>2
    <2>2. recovered' = h
      <3>1. ASSUME main' = Some(h), wal' = << >>, rollback' = Cold PROVE recovered' = h
        <4>1. The(main)' = h /\ ~rollback'.hot /\ rollback'.records = << >> BY <3>1, OptionFacts DEF Cold
        <4>2. h.empty => h = EmptyFile BY DEF PageOne, EmptyFile
        <4>3. CommittedFrames(wal)' = {} BY <3>1 DEF CommittedFrames, ValidFrames
        <4>4. DOMAIN rollback'.records = {} BY <4>1
        <4> QED BY <4>1, <4>2, <4>3, <4>4 DEF recovered
      <3> QED BY <3>1, <2>0, <2>1
    <2>3. Kept BY <2>1, <2>2, <1>6, <2>0 DEF Kept, Supported
    <2>4. FilesFit' BY <2>0, <2>1 DEF FilesFit, Headers, Cold, RollbackJournals
    <2>5. at' \in [Openers -> OpenPlaces] /\ at'[p] \in {"open", "refused"} /\ (\A q \in Openers : q # p => at'[q] = at[q])
          /\ (at'[p] = "open" => lock' = lock) /\ lock' \in {None, lock}
      BY <1>8 DEF Connect, OpenInv, OpenPlaces
    <2> QED BY <2>3, <2>4, <2>5, <1>6, <2>0 DEF OpenInv
  <1>9. CASE CreationDies(p)
    <2>0. /\ at[p] = "connect" /\ recovered.version = 0 /\ lock' = None /\ at' = [at EXCEPT ![p] = "dead"]
      BY <1>9 DEF CreationDies
    <2>1. main' \in Headers \cup {Some(EmptyFile)} /\ wal' \in Seq(Frame) /\ rollback' \in RollbackJournals
      <3>1. ASSUME NEW b \in BOOLEAN PROVE <<[good |-> TRUE, header |-> Some(Current(p)), commit |-> b]>> \in Seq(Frame)
        BY <1>7 DEF Frame
      <3>2. << >> \in Seq(Frame) /\ Cold \in RollbackJournals
            /\ [hot |-> TRUE, new |-> TRUE, records |-> << >>] \in RollbackJournals
        BY DEF Cold, RollbackJournals
      <3> QED BY <1>9, <1>7, <3>1, <3>2 DEF CreationDies, Headers
    <2>2. Kept BY <2>0 DEF Kept
    <2> QED BY <2>0, <2>1, <2>2, <1>6 DEF OpenInv, OpenPlaces, FilesFit
  <1>10. CASE CloseStore(p) BY <1>10, OptionFacts, <1>2 DEF CloseStore, OpenInv, OpenPlaces
  <1> QED BY <1>1, <1>3, <1>4, <1>5, <1>8, <1>9, <1>10 DEF Kept

\* No two openers are past the lock.
LEMMA OpenIsSound == OpenInv => PreflightAgrees /\ OneOpener
  <1> SUFFICES ASSUME OpenInv PROVE OneOpener BY FilesAgree DEF OpenInv, PreflightAgrees
  <1> DEFINE S == {p \in Openers : at[p] = "open"}
  <1>1. \A p, q \in S : p = q BY OptionFacts DEF OpenInv
  <1>2. CASE S = {} BY <1>2, FS_EmptySet DEF OneOpener
  <1>3. CASE S # {}
    <2>1. PICK p : S = {p} BY <1>1, <1>3
    <2>2. Cardinality(S) = 1 BY <2>1, FS_Singleton
    <2> QED BY <2>2 DEF OneOpener
  <1> QED BY <1>2, <1>3

-----------------------------------------------------------------------------
(* The backup of the database.                                             *)

\* Where a backup is.
BackupSteps == {"idle", "copy", "sync", "link", "sync_link", "sync_rename", "unlink", "sync_unlink", "sync_reconciled"}
FileOption == {None} \cup {Some(f) : f \in Files}
Names == [dest : FileOption, temps : SUBSET Files]
\* A file that is whole is on the disk, only such a file is ever published, and
\* what was reported has its name on the disk.
BackupInv ==
  /\ seen \in Names /\ durable \in Names /\ body \in [Files -> {"absent", "partial", "whole"}]
  /\ synced \in SUBSET Files /\ step \in BackupSteps /\ temp \in FileOption /\ acked \in BOOLEAN
  /\ \A f \in Files : body[f] = "whole" <=> f \in synced
  /\ \A f \in Files : (seen.dest = Some(f) \/ durable.dest = Some(f)) => f \in synced
  /\ step \notin {"idle", "sync_reconciled"} => temp # None
  /\ step \in {"sync", "link"} => The(temp) \in synced
  /\ step \in {"sync_link", "sync_rename", "unlink", "sync_unlink", "sync_reconciled"} => seen.dest # None
  /\ acked => seen.dest # None /\ durable.dest # None

\* The invariant of the backup holds initially.
LEMMA InitBackup == BackupInit => BackupInv
  <1> SUFFICES ASSUME BackupInit PROVE BackupInv OBVIOUS
  <1>1. seen = NoNames /\ durable = NoNames /\ NoNames \in Names /\ NoNames.dest = None
    BY DEF BackupInit, NoNames, Names, FileOption
  <1>2. body = [f \in Files |-> "absent"] /\ synced = {} /\ step = "idle" /\ temp = None /\ acked = FALSE
    BY DEF BackupInit
  <1> QED BY <1>1, <1>2, OptionFacts DEF BackupInv, BackupSteps, FileOption

\* Every step of a backup, a power loss among them, keeps its invariant.
LEMMA BackupNextInv == BackupInv /\ [BackupNext]_backupVars => BackupInv'
  <1>0. BackupInv /\ UNCHANGED backupVars => BackupInv' BY DEF BackupInv, backupVars
  <1> SUFFICES ASSUME BackupInv, BackupNext PROVE BackupInv' BY <1>0
  <1>a. /\ seen \in Names /\ durable \in Names /\ body \in [Files -> {"absent", "partial", "whole"}]
        /\ synced \in SUBSET Files /\ step \in BackupSteps /\ temp \in FileOption /\ acked \in BOOLEAN
    BY DEF BackupInv
  <1>b. \A n \in Names : \A S \in SUBSET Files : \A o \in FileOption :
          /\ [n EXCEPT !.temps = S] \in Names /\ [n EXCEPT !.temps = S].dest = n.dest
          /\ [n EXCEPT !.dest = o] \in Names /\ [n EXCEPT !.dest = o].dest = o
          /\ [dest |-> o, temps |-> S] \in Names /\ [dest |-> o, temps |-> S].dest = o
    BY DEF Names
  <1>c. \A o \in FileOption : o # None => The(o) \in Files /\ o = Some(The(o)) BY OptionFacts DEF FileOption
  <1> {} \in SUBSET Files OBVIOUS
  <1>1. CASE ReconcilePublished BY <1>1, <1>a, <1>b DEF ReconcilePublished, Is, BackupInv, BackupSteps
  <1>14. CASE SyncReconciled BY <1>14 DEF SyncReconciled, BackupGo, SyncDirectory, BackupInv, BackupSteps
  <1>2. CASE ReconcileCandidate
    <2>1. PICK f \in seen.temps : body[f] = "whole" /\ temp' = Some(f)
      BY <1>2 DEF ReconcileCandidate, validate_backup_database
    <2>2. step' = "link" /\ UNCHANGED <<seen, durable, body, synced, acked>> BY <1>2 DEF ReconcileCandidate
    <2>3. f \in Files /\ f \in synced BY <2>1, <1>a DEF Names, BackupInv
    <2> QED BY <2>1, <2>2, <2>3, OptionFacts DEF BackupInv, BackupSteps, FileOption
  <1>3. CASE CreateTemporary
    <2>1. PICK f \in Files : /\ body[f] = "absent" /\ body' = [body EXCEPT ![f] = "partial"]
                             /\ seen' = [seen EXCEPT !.temps = {f}] /\ temp' = Some(f)
      BY <1>3 DEF CreateTemporary
    <2>2. step' = "copy" /\ UNCHANGED <<durable, synced, acked>> BY <1>3 DEF CreateTemporary
    <2>3. seen' \in Names /\ seen'.dest = seen.dest BY <2>1, <1>a, <1>b
    <2>4. \A g \in Files : body'[g] = "whole" <=> g \in synced BY <2>1 DEF BackupInv
    <2>5. body' \in [Files -> {"absent", "partial", "whole"}] BY <2>1, <1>a
    <2> QED BY <2>1, <2>2, <2>3, <2>4, <2>5, OptionFacts DEF BackupInv, BackupSteps, FileOption
  <1>4. CASE CopyDatabase BY <1>4, <1>c DEF CopyDatabase, BackupGo, BackupInv, BackupSteps
  <1>5. CASE SyncFile BY <1>5 DEF SyncFile, BackupGo, BackupInv, BackupSteps
  <1>6. CASE Link
    <2>0. step = "link" /\ seen.dest = None /\ UNCHANGED <<durable, body, synced, temp, acked>>
      BY <1>6 DEF Link, BackupGo, Is
    <2>1. \/ seen' = [seen EXCEPT !.dest = temp] /\ step' = "sync_link"
          \/ seen' = [dest |-> temp, temps |-> {}] /\ step' = "sync_rename"
      BY <1>6 DEF Link, BackupGo
    <2>2. seen' \in Names /\ seen'.dest = temp /\ step' \in {"sync_link", "sync_rename"}
      BY <1>a, <1>b, <2>1 DEF Names
    <2>3. temp # None /\ The(temp) \in synced /\ temp = Some(The(temp)) BY <2>0, <1>a, <1>c DEF BackupInv
    <2>4. \A f \in Files : seen'.dest = Some(f) => f \in synced BY <2>2, <2>3, OptionFacts
    <2>5. ~acked BY <2>0 DEF BackupInv
    <2> QED BY <2>0, <2>2, <2>3, <2>4, <2>5 DEF BackupInv, BackupSteps
  <1>7. CASE SyncLink BY <1>7 DEF SyncLink, BackupGo, SyncDirectory, BackupInv, BackupSteps
  <1>8. CASE SyncRename BY <1>8 DEF SyncRename, Report, SyncDirectory, BackupInv, BackupSteps, FileOption
  <1>9. CASE remove_backup_publication_candidates
    BY <1>9, <1>a, <1>b DEF remove_backup_publication_candidates, BackupGo, BackupInv, BackupSteps
  <1>10. CASE SyncUnlink BY <1>10 DEF SyncUnlink, Report, SyncDirectory, BackupInv, BackupSteps, FileOption
  <1>11. CASE BackupFails BY <1>11, <1>a, <1>b DEF BackupFails, BackupInv, BackupSteps, FileOption
  <1>12. CASE BackupDies BY <1>12 DEF BackupDies, BackupInv, BackupSteps, FileOption
  <1>13. CASE PowerLoss
    <2>1. PICK n \in AfterPowerLoss : seen' = n /\ durable' = n BY <1>13 DEF PowerLoss
    <2>2. n.dest \in {seen.dest, durable.dest} /\ n \in Names BY <1>a DEF AfterPowerLoss, Names
    <2>3. /\ step' = "idle" /\ temp' = None /\ UNCHANGED <<synced, acked>>
          /\ body' \in [Files -> {"absent", "partial", "whole"}]
          /\ \A f \in Files : \/ body'[f] = body[f]
                              \/ f \notin synced /\ body[f] = "whole" /\ body'[f] = "partial"
      BY <1>13 DEF PowerLoss
    <2>4. \A f \in Files : body'[f] = "whole" <=> f \in synced BY <2>3 DEF BackupInv
    <2>5. \A f \in Files : (seen'.dest = Some(f) \/ durable'.dest = Some(f)) => f \in synced
      BY <2>1, <2>2 DEF BackupInv
    <2> QED BY <2>1, <2>2, <2>3, <2>4, <2>5 DEF BackupInv, BackupSteps, FileOption
  <1> QED BY <1>1, <1>2, <1>3, <1>4, <1>5, <1>6, <1>7, <1>8, <1>9, <1>10, <1>11, <1>12, <1>13, <1>14 DEF BackupNext

\* The invariant says that a published backup is whole and a reported one durable.
LEMMA BackupIsSound == BackupInv => PublishedIsWhole /\ ReportedSurvives
  <1> SUFFICES ASSUME BackupInv PROVE PublishedIsWhole /\ ReportedSurvives OBVIOUS
  <1>1. \A o \in FileOption : o # None => The(o) \in Files /\ o = Some(The(o)) BY OptionFacts DEF FileOption
  <1>2. seen.dest \in FileOption /\ durable.dest \in FileOption BY DEF BackupInv, Names
  <1> QED BY <1>1, <1>2 DEF BackupInv, PublishedIsWhole, ReportedSurvives, Is

-----------------------------------------------------------------------------
(* The thread that owns the database and the journals.                     *)

\* What a caller of the owner has heard.
Replies == {"none", "waiting", "done", "failed", "lost", "refused"}
\* Once the thread has gone, admission is closed and nobody waits for it.
OwnerInv ==
  /\ reply \in [OwnerCommands -> Replies] /\ DOMAIN journals = OwnerTasks
  /\ requests \in Seq(OwnerCommands)
  /\ ownerThread = "gone" => ownerState = "Closed" /\ \A c \in OwnerCommands : reply[c] # "waiting"

\* The invariant of the owner holds initially.
LEMMA InitOwner == OwnerInit => OwnerInv
  BY DEF OwnerInit, OwnerInv, Replies

\* Closing everything closes all of it, or nothing.
LEMMA CloseAllWhole ==
  ASSUME NEW js, NEW r, r = close_all_flushed_journals(js)
  PROVE  /\ r.ok => \A g \in DOMAIN js : ~r.journals[g].open /\ (js[g].open => FullyFlushed(r.journals[g]))
         /\ ~r.ok => r.journals = js
  <1>1. CASE \A g \in OpenJournals(js) : FullyFlushed(js[g])
    <2>1. r = OwnerResult(Closed(js, OpenJournals(js)), TRUE) BY <1>1 DEF close_all_flushed_journals
    <2>2. r.ok = TRUE /\ r.journals = Closed(js, OpenJournals(js)) BY <2>1 DEF OwnerResult
    <2>3. ASSUME NEW g \in DOMAIN js PROVE ~Closed(js, OpenJournals(js))[g].open /\ (js[g].open => FullyFlushed(Closed(js, OpenJournals(js))[g]))
      BY <1>1 DEF Closed, OpenJournals, FullyFlushed
    <2> QED BY <2>2, <2>3
  <1>2. CASE ~(\A g \in OpenJournals(js) : FullyFlushed(js[g])) BY <1>2 DEF close_all_flushed_journals, OwnerResult
  <1> QED BY <1>1, <1>2

\* Every command leaves a journal, open or not, for every task.
LEMMA CommandsOnJournals ==
  ASSUME NEW js, NEW c, NEW r \in execute_command(js, c)
  PROVE  DOMAIN r.journals = DOMAIN js
  <1>2. \A S : DOMAIN Closed(js, S) = DOMAIN js BY DEF Closed
  <1>3. \A x, y : OwnerResult(x, y).journals = x BY DEF OwnerResult
  <1>1. \A g, j : DOMAIN WithJournal(js, g, j) = DOMAIN js BY DEF WithJournal
  <1>4. ASSUME NEW g, r \in install_journal(js, g) PROVE DOMAIN r.journals = DOMAIN js
    <2> DEFINE j == [js[g] EXCEPT !.open = TRUE, !.faulted = FALSE]
    <2>1. r = OwnerResult(js, FALSE) \/ r = OwnerResult(WithJournal(js, g, j), TRUE) BY <1>4 DEF install_journal
    <2> HIDE DEF j
    <2>2. PICK x, y : r = OwnerResult(x, y) /\ DOMAIN x = DOMAIN js BY <2>1, <1>1
    <2> QED BY <2>2, <1>3
  <1>5. ASSUME NEW g, r \in append_record(js, g) PROVE DOMAIN r.journals = DOMAIN js
    <2>1. \/ r = OwnerResult(js, FALSE)
          \/ r = OwnerResult(WithJournal(js, g, [js[g] EXCEPT !.appended = @ + 1]), TRUE)
          \/ r = OwnerResult(WithJournal(js, g, [js[g] EXCEPT !.faulted = TRUE]), FALSE)
      BY <1>5 DEF append_record
    <2>2. PICK x, y : r = OwnerResult(x, y) /\ DOMAIN x = DOMAIN js BY <2>1, <1>1
    <2> QED BY <2>2, <1>3
  <1>6. ASSUME r \in flush_all_journals(js) PROVE DOMAIN r.journals = DOMAIN js
    <2>1. \A bad : DOMAIN Flushed(js, bad) = DOMAIN js BY DEF Flushed
    <2>2. PICK bad \in SUBSET OpenJournals(js) :
            r = OwnerResult(Flushed(js, bad), \A g \in OpenJournals(js) : g \notin bad /\ ~js[g].faulted)
      BY <1>6 DEF flush_all_journals
    <2>3. PICK x, y : r = OwnerResult(x, y) /\ DOMAIN x = DOMAIN js BY <2>1, <2>2
    <2> QED BY <2>3, <1>3
  <1>7. ASSUME NEW g, r \in close_flushed(js, g) PROVE DOMAIN r.journals = DOMAIN js
    <2>1. PICK x, y : r = OwnerResult(x, y) /\ DOMAIN x = DOMAIN js BY <1>7, <1>2 DEF close_flushed
    <2> QED BY <2>1, <1>3
  <1>8. DOMAIN close_all_flushed_journals(js).journals = DOMAIN js
    <2>1. PICK x, y : close_all_flushed_journals(js) = OwnerResult(x, y) /\ DOMAIN x = DOMAIN js
      BY <1>2 DEF close_all_flushed_journals
    <2> QED BY <2>1, <1>3
  <1>9. \/ r \in install_journal(js, Of[c]) \/ r \in append_record(js, Of[c]) \/ r \in flush_all_journals(js)
        \/ r \in close_flushed(js, Of[c]) \/ r = close_all_flushed_journals(js) \/ r = OwnerResult(js, TRUE)
    BY DEF execute_command
  <1> QED BY <1>3, <1>4, <1>5, <1>6, <1>7, <1>8, <1>9

\* What a client that asked to close everything may rely on.
CloseHolds ==
  \A c \in OwnerCommands : Kind[c] = "close_all" /\ reply[c] = "waiting" =>
    /\ reply'[c] = "done" => \A g \in OwnerTasks : ~journals'[g].open /\ (journals[g].open => FullyFlushed(journals'[g]))
    /\ reply'[c] = "failed" => journals' = journals

\* Every step of the owner keeps its invariant, and closes all or nothing.
LEMMA OwnerNextInv ==
  OwnerInv /\ [OwnerNext]_ownerVars => OwnerInv' /\ CloseHolds
  <1>0. OwnerInv /\ UNCHANGED ownerVars => OwnerInv' /\ CloseHolds BY DEF OwnerInv, ownerVars, CloseHolds
  <1> SUFFICES ASSUME OwnerInv, OwnerNext PROVE OwnerInv' /\ CloseHolds BY <1>0
  <1> USE DEF Replies, CloseHolds
  <1>1. CASE \E c \in OwnerCommands : try_submit(c)
    <2>1. PICK c \in OwnerCommands : try_submit(c) BY <1>1
    <2>2. CASE ownerState = "Running" /\ Len(requests) < Capacity BY <2>1, <2>2 DEF OwnerInv, try_submit
    <2>3. CASE ~(ownerState = "Running" /\ Len(requests) < Capacity) BY <2>1, <2>3 DEF OwnerInv, try_submit
    <2> QED BY <2>2, <2>3
  <1>2. CASE owner_begin_shutdown BY <1>2 DEF OwnerInv, owner_begin_shutdown
  <1>3. CASE JoinOwner BY <1>3 DEF OwnerInv, JoinOwner
  <1>4. CASE OpenStore BY <1>4 DEF OpenStore, OwnerInv
  <1>5. CASE TakeRequest
    <2> DEFINE c == Head(requests)
    <2>1. c \in OwnerCommands /\ Tail(requests) \in Seq(OwnerCommands) BY <1>5 DEF TakeRequest, OwnerInv
    <2>2. PICK r \in execute_command(journals, c) :
            journals' = r.journals /\ reply' = [reply EXCEPT ![c] = IF r.ok THEN "done" ELSE "failed"]
      BY <1>5 DEF TakeRequest
    <2>3. UNCHANGED <<ownerState, ownerThread>> /\ requests' = Tail(requests) /\ ownerThread = "taking"
      BY <1>5 DEF TakeRequest
    <2> HIDE DEF c
    <2>4. DOMAIN journals' = OwnerTasks BY <2>2, CommandsOnJournals DEF OwnerInv
    <2>5. OwnerInv' BY <2>1, <2>2, <2>3, <2>4 DEF OwnerInv
    <2>6. ASSUME NEW d \in OwnerCommands, Kind[d] = "close_all", reply[d] = "waiting"
          PROVE  /\ reply'[d] = "done" => \A g \in OwnerTasks : ~journals'[g].open /\ (journals[g].open => FullyFlushed(journals'[g]))
                 /\ reply'[d] = "failed" => journals' = journals
      <3>1. CASE d # c BY <3>1, <2>1, <2>2, <2>6 DEF OwnerInv
      <3>2. CASE d = c
        <4>1. r = close_all_flushed_journals(journals) BY <3>2, <2>6 DEF execute_command
        <4>2. reply'[d] = IF r.ok THEN "done" ELSE "failed" BY <3>2, <2>2, <2>1 DEF OwnerInv
        <4> QED BY <4>1, <4>2, <2>2, CloseAllWhole DEF OwnerInv
      <3> QED BY <3>1, <3>2
    <2> QED BY <2>5, <2>6
  <1>6. CASE FoundEmpty BY <1>6 DEF OwnerInv, FoundEmpty
  <1>7. CASE Decide BY <1>7 DEF Decide, OwnerInv
  <1> QED BY <1>1, <1>2, <1>3, <1>4, <1>5, <1>6, <1>7 DEF OwnerNext

-----------------------------------------------------------------------------
(* The effect sink.                                                        *)
StoreCommands == {"append", "flush", "unit"}

\* A command put behind the two of an append.
LEMMA TwoAndOne ==
  ASSUME NEW S, NEW x \in Seq(S), NEW y \in Seq(S), Len(x) = 2, Len(y) = 1
  PROVE  Len(x \o y) = 3 /\ (x \o y)[2] = x[2] /\ (x \o y)[3] = y[1]
  <1> DEFINE z == x \o y
  <1>1. /\ Len(z) = Len(x) + Len(y)
        /\ \A i \in 1 .. Len(x) + Len(y) : z[i] = IF i <= Len(x) THEN x[i] ELSE y[i - Len(x)]
    BY ConcatProperties, Zenon
  <1> HIDE DEF z
  <1>2. Len(z) = 3 /\ z[2] = x[2] /\ z[3] = y[1] BY <1>1
  <1> QED BY <1>2 DEF z

\* The commands one persistence step stands for.
LEMMA StepsFit ==
  ASSUME NEW s \in {"unit", "append"}
  PROVE  /\ StepCommands(s) \in Seq(StoreCommands) /\ Len(StepCommands(s)) \in {1, 2}
         /\ s = "append" => Len(StepCommands(s)) = 2 /\ StepCommands(s)[1] = "append" /\ StepCommands(s)[2] = "flush"
         /\ s = "unit" => Len(StepCommands(s)) = 1 /\ StepCommands(s)[1] = "unit"
  <1>1. CASE s = "append"
    <2>1. StepCommands(s) = <<"append", "flush">> BY <1>1 DEF StepCommands
    <2>2. "append" \in StoreCommands /\ "flush" \in StoreCommands BY DEF StoreCommands
    <2> HIDE DEF StoreCommands
    <2>3. <<"append", "flush">> \in Seq(StoreCommands) BY <2>2
    <2>4. Len(<<"append", "flush">>) = 2 /\ <<"append", "flush">>[1] = "append" /\ <<"append", "flush">>[2] = "flush"
      OBVIOUS
    <2> QED BY <1>1, <2>1, <2>3, <2>4, Zenon
  <1>2. CASE s = "unit"
    <2>1. StepCommands(s) = <<"unit">> BY <1>2 DEF StepCommands
    <2>2. "unit" \in StoreCommands BY DEF StoreCommands
    <2> HIDE DEF StoreCommands
    <2>3. <<"unit">> \in Seq(StoreCommands) BY <2>2
    <2> QED BY <1>2, <2>1, <2>3
  <1> QED BY <1>1, <1>2

\* The commands of a plan are a sequence, one or two for every step.
LEMMA CommandsCounted ==
  ASSUME NEW steps \in Seq({"unit", "append"})
  PROVE  /\ CommandsUpTo(steps) \in [0 .. Len(steps) -> Seq(StoreCommands)]
         /\ CommandsUpTo(steps)[0] = << >>
         /\ \A i \in 1 .. Len(steps) : CommandsUpTo(steps)[i] = CommandsUpTo(steps)[i - 1] \o StepCommands(steps[i])
  <1> DEFINE n == Len(steps)
             S == Seq(StoreCommands)
             a == << >>
             F == [q \in S \X (1 .. n) |-> q[1] \o StepCommands(steps[q[2]])]
             Cs == CommandsUpTo(steps)
  <1>1. n \in Nat /\ a \in S OBVIOUS
  <1>2. ASSUME NEW x \in S, NEW s \in {"unit", "append"} PROVE x \o StepCommands(s) \in S
    BY StepsFit, ConcatProperties
  <1>3. F \in [S \X (1 .. n) -> S]
    <2>1. ASSUME NEW q \in S \X (1 .. n) PROVE q[1] \o StepCommands(steps[q[2]]) \in S
      <3>1. q[1] \in S /\ steps[q[2]] \in {"unit", "append"} OBVIOUS
      <3> HIDE DEF S
      <3> QED BY <3>1, <1>2
    <2> QED BY <2>1
  <1>4. PICK g : Iterates(g, n, S, a, F)
    <2> HIDE DEF n, S, a, F
    <2> QED BY <1>1, <1>3, Recursion
  <1> HIDE DEF S, a
  <1>5. ASSUME NEW i \in 1 .. n PROVE g[i] = g[i - 1] \o StepCommands(steps[i])
    <2>1. i - 1 \in 0 .. n OBVIOUS
    <2>2. <<g[i - 1], i>> \in S \X (1 .. n) /\ g[i] = F[<<g[i - 1], i>>] BY <2>1, <1>4 DEF Iterates
    <2> HIDE DEF n
    <2> QED BY <2>2
  <1>6. g = [i \in 0 .. n |-> IF i = 0 THEN a ELSE g[i - 1] \o StepCommands(steps[i])]
    BY <1>4, <1>5 DEF Iterates
  <1>7. Cs = [i \in 0 .. n |-> IF i = 0 THEN a ELSE Cs[i - 1] \o StepCommands(steps[i])]
    BY <1>6, Zenon DEF CommandsUpTo, a
  <1> HIDE DEF Cs
  <1>8. Cs[0] = a /\ (\A i \in 1 .. n : Cs[i] = Cs[i - 1] \o StepCommands(steps[i])) /\ Cs = [i \in 0 .. n |-> Cs[i]]
    <2>2. 0 \in 0 .. n /\ \A i \in 1 .. n : i \in 0 .. n /\ i # 0 BY <1>1
    <2> HIDE DEF n
    <2>1. \A i \in 0 .. n : Cs[i] = IF i = 0 THEN a ELSE Cs[i - 1] \o StepCommands(steps[i]) BY <1>7, Zenon
    <2>3. Cs = [i \in 0 .. n |-> Cs[i]] BY <1>7, Zenon
    <2> QED BY <2>1, <2>2, <2>3, Zenon
  <1>9. \A i \in 0 .. n : Cs[i] \in S
    <2> DEFINE T == {m \in Nat : m =< n => Cs[m] \in S}
    <2>1. 0 \in T BY <1>1, <1>8
    <2>2. ASSUME NEW m \in T PROVE m + 1 \in T
      <3> SUFFICES ASSUME m + 1 =< n PROVE Cs[m + 1] \in S OBVIOUS
      <3>1. m \in Nat /\ m + 1 \in 1 .. n /\ (m + 1) - 1 = m OBVIOUS
      <3>2. Cs[m + 1] = Cs[m] \o StepCommands(steps[m + 1]) BY <3>1, <1>8
      <3>3. Cs[m] \in S /\ steps[m + 1] \in {"unit", "append"} BY <3>1
      <3> QED BY <3>2, <3>3, <1>2
    <2> HIDE DEF T
    <2>3. T \in SUBSET Nat BY DEF T
    <2>4. T = Nat BY <2>1, <2>2, <2>3, Induction
    <2> QED BY <2>4 DEF T
  <1> QED BY <1>8, <1>9 DEF Cs, S, a

\* Every plan has a first command, and only the first command of a staged
\* patch is an append.
LEMMA PlansFit ==
  ASSUME NEW e \in PlanEffects
  PROVE  /\ PlanCommands(e) \in Seq(StoreCommands) /\ Len(PlanCommands(e)) >= 1
         /\ e \in Stages => \A i \in 1 .. Len(PlanCommands(e)) : PlanCommands(e)[i] = "append" => i = 1
  <1> DEFINE steps == PlanOf[e]
             n == Len(steps)
             Cs == CommandsUpTo(steps)
  <1>1. steps \in Seq({"unit", "append"}) /\ n \in Nat /\ n >= 1 BY SinkAssumption DEF PlanEffects
  <1>2. /\ Cs \in [0 .. n -> Seq(StoreCommands)] /\ Cs[0] = << >>
        /\ \A i \in 1 .. n : Cs[i] = Cs[i - 1] \o StepCommands(steps[i])
    BY <1>1, CommandsCounted
  <1>3. PlanCommands(e) = Cs[n] BY DEF PlanCommands
  <1>4. steps[n] \in {"unit", "append"} /\ n - 1 \in 0 .. n /\ n \in 1 .. n BY <1>1
  <1>s. e \in Stages => steps = <<"append", "unit">> BY SinkAssumption DEF PlanEffects
  <1> HIDE DEF Cs
  <1>5. Cs[n] = Cs[n - 1] \o StepCommands(steps[n]) /\ Cs[n - 1] \in Seq(StoreCommands) /\ Cs[n] \in Seq(StoreCommands)
    <2> DEFINE m == n - 1
    <2>1. m \in 0 .. n /\ n \in 0 .. n /\ n \in 1 .. n BY <1>4, <1>1
    <2>2. Cs[n] = Cs[m] \o StepCommands(steps[n]) BY <1>2, <2>1
    <2>3. Cs[m] \in Seq(StoreCommands) /\ Cs[n] \in Seq(StoreCommands)
      <3> HIDE DEF m, n
      <3> QED BY <1>2, <2>1
    <2> QED BY <2>2, <2>3
  <1>6. StepCommands(steps[n]) \in Seq(StoreCommands) /\ Len(StepCommands(steps[n])) >= 1 BY <1>4, StepsFit
  <1>7. Len(Cs[n]) >= 1
    <2> DEFINE x == Cs[n - 1]
               y == StepCommands(steps[n])
               z == Cs[n]
    <2>1. z = x \o y /\ x \in Seq(StoreCommands) /\ y \in Seq(StoreCommands) /\ Len(y) >= 1 BY <1>5, <1>6
    <2> HIDE DEF x, y, z
    <2> QED BY <2>1 DEF z
  <1>8. ASSUME e \in Stages, NEW i \in 1 .. Len(Cs[n]), Cs[n][i] = "append" PROVE i = 1
    <2>1. n = 2 /\ steps[1] = "append" /\ steps[2] = "unit"
      <3>1. steps = <<"append", "unit">> BY <1>8, <1>s
      <3>2. Len(<<"append", "unit">>) = 2 /\ <<"append", "unit">>[1] = "append" /\ <<"append", "unit">>[2] = "unit"
        OBVIOUS
      <3> HIDE DEF steps
      <3> QED BY <3>1, <3>2, Zenon
    <2> DEFINE x == Cs[1]
               y == StepCommands(steps[2])
               w == StepCommands(steps[1])
               z == Cs[2]
    <2> HIDE DEF steps
    <2>2. z = x \o y /\ x = Cs[0] \o w /\ Cs[0] = << >>
      <3>1. 1 \in 1 .. n /\ 2 \in 1 .. n /\ 2 - 1 = 1 /\ 1 - 1 = 0 BY <2>1
      <3> HIDE DEF n
      <3> QED BY <1>2, <3>1
    <2>3. /\ w \in Seq(StoreCommands) /\ Len(w) = 2 /\ w[2] = "flush"
          /\ y \in Seq(StoreCommands) /\ Len(y) = 1 /\ y[1] = "unit"
      BY <2>1, StepsFit
    <2>4. i \in 1 .. Len(z) /\ z[i] = "append" BY <1>8, <2>1
    <2> HIDE DEF x, y, w, z, n
    <2>5. x = w BY <2>2, <2>3
    <2>6. Len(z) = 3 /\ z[2] = "flush" /\ z[3] = "unit" BY <2>2, <2>5, <2>3, TwoAndOne
    <2> QED BY <2>4, <2>6
  <1> QED BY <1>3, <1>5, <1>7, <1>8

\* The first k commands of a plan.
Upto(P, k) == SubSeq(P, 1, k)

\* A prefix grows by the next command.
LEMMA PrefixGrows ==
  ASSUME NEW S, NEW P \in Seq(S), NEW k \in 1 .. Len(P)
  PROVE  Append(Upto(P, k - 1), P[k]) = Upto(P, k)
  <1> DEFINE j == k - 1
             x == Upto(P, j)
             y == Upto(P, k)
             z == Append(x, P[k])
  <1>1. j \in Nat /\ k = j + 1 /\ k \in Nat /\ k =< Len(P) /\ P[k] \in S OBVIOUS
  <1>2. x \in Seq(S) /\ Len(x) = j /\ \A i \in 1 .. j : x[i] = P[i]
    <2> HIDE DEF j
    <2> QED BY <1>1 DEF Upto
  <1>3. y \in Seq(S) /\ Len(y) = k /\ \A i \in 1 .. k : y[i] = P[i] BY <1>1 DEF Upto
  <1> HIDE DEF x, y, j
  <1>4. z \in Seq(S) /\ Len(z) = k /\ (\A i \in 1 .. j : z[i] = x[i]) /\ z[k] = P[k] BY <1>1, <1>2
  <1> HIDE DEF z
  <1>5. \A i \in 1 .. k : z[i] = y[i] BY <1>1, <1>2, <1>3, <1>4
  <1>6. z = y BY <1>3, <1>4, <1>5
  <1> QED BY <1>6 DEF z, x, y, j

\* The shortest and the longest prefix.
LEMMA PrefixEnds ==
  ASSUME NEW S, NEW P \in Seq(S)
  PROVE  Upto(P, 0) = << >> /\ Upto(P, Len(P)) = P
  BY DEF Upto

-----------------------------------------------------------------------------
AnswerNames == {"completed", "stage_failed", "unrepresentable", "closed"}
Outcomes == [effect : PlanEffects, answer : AnswerNames, executed : Seq(StoreCommands)]
Dispatches == [id : Nat, effect : PlanEffects, accepted : BOOLEAN]
InHand == {None} \cup {Some(c) : c \in StoreCommands \cup {"done"}}
Runs == [step : Nat, pending : InHand, inFlight : InHand]

\* The answers the driver can go on from.
GoodAnswer(o) == o.answer \in {"completed", "stage_failed"}
TrueAnswer(o) ==
  /\ o.answer = "completed" => o.executed = PlanCommands(o.effect)
  /\ o.answer = "stage_failed" => o.executed = << >> /\ o.effect \in Stages

\* How far the plan P of the effect dispatched has come.
RunFits(a, P, done) ==
  /\ a \in Runs /\ a.step \in 1 .. Len(P)
  /\ \/ a.pending = Some(P[a.step]) /\ a.inFlight = None /\ done = Upto(P, a.step - 1)
     \/ a.pending = None /\ a.inFlight = Some(P[a.step]) /\ done = Upto(P, a.step - 1)
     \/ a.pending = None /\ a.inFlight = Some("done") /\ done = Upto(P, a.step)

\* Every answer given was true.
Told == /\ outcomes \in Seq(Outcomes)
        /\ \A i \in 1 .. Len(outcomes) : TrueAnswer(outcomes[i])
        /\ \A i \in 1 .. Len(outcomes) : i < Len(outcomes) => GoodAnswer(outcomes[i])
Untroubled == \A i \in 1 .. Len(outcomes) : GoodAnswer(outcomes[i])

\* The state of the sink.
SinkTypes ==
  /\ plans \in Seq(PlanEffects)
  /\ dispatched = None \/ \E d \in Dispatches : dispatched = Some(d)
  /\ immediate \in {None, Some("unrepresentable")}
SinkRoles ==
  /\ Is(dispatched) => Untroubled
  /\ Is(dispatched) /\ ~Is(active) => executed = << >>
  /\ Is(offered) => /\ Is(dispatched) /\ ~The(dispatched).accepted /\ ~Is(active) /\ ~Is(immediate)
                    /\ The(offered) = The(dispatched).id /\ exact_plan(DispatchedEffect)
  /\ Is(immediate) => Is(dispatched) /\ The(dispatched).accepted /\ ~Is(active)
  /\ Is(active) => /\ Is(dispatched) /\ The(dispatched).accepted
                   /\ \E a : active = Some(a) /\ RunFits(a, PlanCommands(DispatchedEffect), executed)
SinkInv == Told /\ SinkTypes /\ SinkRoles

\* The invariant of the effect sink holds initially.
LEMMA InitSink == SinkInit => SinkInv
  BY DEF SinkInit, SinkInv, Told, SinkTypes, SinkRoles, Is

\* A true answer appended to true answers leaves true answers.
LEMMA AnswerTold ==
  ASSUME Told, Untroubled, NEW o \in Outcomes, TrueAnswer(o), outcomes' = Append(outcomes, o)
  PROVE  Told' 
  <1> DEFINE n == Len(outcomes)
             m == n + 1
  <1>1. outcomes \in Seq(Outcomes) /\ n \in Nat BY DEF Told
  <1>2. /\ outcomes' \in Seq(Outcomes) /\ Len(outcomes') = m /\ outcomes'[m] = o
        /\ \A i \in 1 .. n : outcomes'[i] = outcomes[i]
    <2> HIDE DEF Outcomes
    <2> QED BY <1>1
  <1>3. m \in Nat /\ \A i \in 1 .. m : i = m \/ i \in 1 .. n BY <1>1
  <1>4. /\ \A i \in 1 .. n : TrueAnswer(outcomes[i]) /\ GoodAnswer(outcomes[i])
        /\ \A i \in 1 .. m : i < m => i \in 1 .. n
    BY <1>1 DEF Told, Untroubled
  <1> HIDE DEF n, m
  <1>5. \A i \in 1 .. m : TrueAnswer(outcomes'[i]) BY <1>2, <1>3, <1>4, Zenon
  <1>6. \A i \in 1 .. m : i < m => GoodAnswer(outcomes'[i]) BY <1>2, <1>3, <1>4, Zenon
  <1>7. PlanEffects' = PlanEffects /\ Outcomes' = Outcomes BY DEF PlanEffects, Outcomes
  <1> QED BY <1>2, <1>5, <1>6, <1>7 DEF Told, TrueAnswer, GoodAnswer

\* Between dispatches the sink holds nothing.
LEMMA IdleSink ==
  ASSUME SinkInv, ~Is(dispatched)
  PROVE  dispatched = None /\ offered = None /\ active = None /\ immediate = None
  BY DEF SinkInv, SinkRoles, Is

\* What is known of the effect being dispatched.
LEMMA DispatchTyped ==
  ASSUME SinkInv, Is(dispatched)
  PROVE  /\ The(dispatched) \in Dispatches /\ dispatched = Some(The(dispatched))
         /\ DispatchedEffect \in PlanEffects /\ Untroubled
  <1>1. PICK d \in Dispatches : dispatched = Some(d) BY DEF SinkInv, SinkTypes, Is
  <1>2. The(dispatched) = d BY <1>1, OptionFacts
  <1> QED BY <1>1, <1>2 DEF DispatchedEffect, Dispatches, SinkInv, SinkRoles

\* Nothing but the plans prepared has changed, and nothing is dispatched.
LEMMA IdleKeeps ==
  ASSUME SinkInv, ~Is(dispatched), plans' \in Seq(PlanEffects),
         UNCHANGED <<offered, active, immediate, dispatched, executed, outcomes>>
  PROVE  SinkInv'
  <1>1. dispatched' = None /\ offered' = None /\ active' = None /\ immediate' = None BY IdleSink
  <1>2. Told' BY DEF SinkInv, Told, Outcomes, PlanEffects, TrueAnswer, GoodAnswer
  <1>3. SinkTypes' BY <1>1 DEF SinkTypes, PlanEffects
  <1>4. SinkRoles' BY <1>1 DEF SinkRoles, Is
  <1> QED BY <1>2, <1>3, <1>4 DEF SinkInv

\* An answer ends the dispatch.
LEMMA AnswerKeeps ==
  ASSUME SinkInv, Is(dispatched), NEW o \in Outcomes, TrueAnswer(o), outcomes' = Append(outcomes, o),
         dispatched' = None, offered' = None, active' = None, immediate' = None, plans' = plans
  PROVE  SinkInv'
  <1>1. Told' BY AnswerTold, DispatchTyped DEF SinkInv
  <1>2. SinkTypes' BY DEF SinkTypes, PlanEffects, SinkInv
  <1>3. SinkRoles' BY DEF SinkRoles, Is
  <1> QED BY <1>1, <1>2, <1>3 DEF SinkInv

\* The driver handing over an effect keeps the invariant.
LEMMA EmitKeeps ==
  ASSUME SinkInv, NEW e \in PlanEffects, DriverEmits(e)
  PROVE  SinkInv'
  <1>0. outcomes \in Seq(Outcomes) /\ Len(outcomes) \in Nat BY DEF SinkInv, Told
  <1> DEFINE d == [id |-> Len(outcomes) + 1, effect |-> e, accepted |-> FALSE]
  <1>1. /\ ~Is(dispatched) /\ ~DriverStopped /\ dispatched' = Some(d) /\ executed' = << >>
        /\ UNCHANGED <<plans, offered, active, immediate, outcomes>>
    BY DEF DriverEmits
  <1>2. d \in Dispatches BY <1>0 DEF Dispatches
  <1>3. Untroubled
    <2>1. ASSUME NEW i \in 1 .. Len(outcomes), ~(i < Len(outcomes)) PROVE GoodAnswer(outcomes[i])
      <3>1. i = Len(outcomes) /\ outcomes # << >> /\ outcomes[i] \in Outcomes BY <1>0, <2>1
      <3>2. outcomes[i].answer \notin {"unrepresentable", "closed"} BY <3>1, <1>1 DEF DriverStopped
      <3>3. outcomes[i].answer \in AnswerNames BY <3>1 DEF Outcomes
      <3> QED BY <3>2, <3>3 DEF AnswerNames, GoodAnswer
    <2> QED BY <2>1 DEF SinkInv, Told, Untroubled
  <1> HIDE DEF d
  <1>4. offered' = None /\ active' = None /\ immediate' = None BY IdleSink, <1>1
  <1>5. Told' BY <1>1 DEF SinkInv, Told, Outcomes, PlanEffects, TrueAnswer, GoodAnswer
  <1>6. SinkTypes' BY <1>1, <1>2, <1>4 DEF SinkInv, SinkTypes, PlanEffects, Dispatches
  <1>7. SinkRoles' BY <1>3, <1>1, <1>4 DEF Untroubled, GoodAnswer, SinkRoles, Is
  <1> QED BY <1>5, <1>6, <1>7 DEF SinkInv

\* Refusing an effect without a plan keeps the invariant.
LEMMA OfferUnknownKeeps ==
  ASSUME SinkInv, OfferUnknown
  PROVE  SinkInv'
  <1> DEFINE d == The(dispatched)
             e == [d EXCEPT !.accepted = TRUE]
  <1>1. /\ Is(dispatched) /\ ~d.accepted /\ ~Is(offered) /\ immediate' = Some("unrepresentable")
        /\ dispatched' = Some(e) /\ UNCHANGED <<plans, offered, active, executed, outcomes>>
    BY DEF OfferUnknown, Offering, SinkAccepts
  <1>2. d \in Dispatches /\ Untroubled BY <1>1, DispatchTyped
  <1>3. ~Is(active) /\ executed = << >> /\ active = None /\ offered = None BY <1>1 DEF SinkInv, SinkRoles, Is
  <1>4. e \in Dispatches /\ e.accepted
    <2> HIDE DEF d
    <2> QED BY <1>2 DEF Dispatches
  <1> HIDE DEF d, e
  <1>5. Told' BY <1>1 DEF SinkInv, Told, Outcomes, PlanEffects, TrueAnswer, GoodAnswer
  <1>6. SinkTypes' BY <1>1, <1>4 DEF SinkInv, SinkTypes, PlanEffects, Dispatches
  <1>7. SinkRoles' BY <1>2, <1>1, OptionFacts, <1>3, <1>4 DEF Untroubled, GoodAnswer, SinkRoles, Is
  <1> QED BY <1>5, <1>6, <1>7 DEF SinkInv

\* Refusing an effect because the owner is full keeps the invariant.
LEMMA OfferFullKeeps ==
  ASSUME SinkInv, OfferFull
  PROVE  SinkInv'
  <1>1. /\ Is(dispatched) /\ ~The(dispatched).accepted /\ offered' = Some(The(dispatched).id)
        /\ UNCHANGED <<plans, active, immediate, dispatched, executed, outcomes>>
        /\ exact_plan(DispatchedEffect)
    BY DEF OfferFull, Offering, SinkInv, SinkRoles
  <1>2. ~Is(active) /\ ~Is(immediate) /\ executed = << >> /\ Untroubled BY <1>1 DEF SinkInv, SinkRoles
  <1>3. Told' BY <1>1 DEF SinkInv, Told, Outcomes, PlanEffects, TrueAnswer, GoodAnswer
  <1>4. SinkTypes' BY <1>1 DEF SinkInv, SinkTypes, PlanEffects, Dispatches
  <1>5. SinkRoles'
    BY <1>2, <1>1, OptionFacts DEF Untroubled, GoodAnswer, exact_plan, DispatchedEffect, SinkRoles, Is
  <1> QED BY <1>3, <1>4, <1>5 DEF SinkInv

\* Consuming a plan leaves plans.
LEMMA ConsumeTyped ==
  ASSUME plans \in Seq(PlanEffects), NEW e, exact_plan(e)
  PROVE  consume_exact(e) \in Seq(PlanEffects)
  <1> DEFINE n == Len(plans) - 1
             first == CHOOSE i \in DOMAIN plans : plans[i] = e /\ \A k \in 1..(i - 1) : plans[k] # e
             c == [i \in 1 .. n |-> plans[IF i < first THEN i ELSE i + 1]]
  <1>1. consume_exact(e) = c BY DEF consume_exact
  <1>2. n \in Nat BY DEF exact_plan
  <1> HIDE DEF first
  <1>3. ASSUME NEW i \in 1 .. n PROVE plans[IF i < first THEN i ELSE i + 1] \in PlanEffects OBVIOUS
  <1>4. c \in [1 .. n -> PlanEffects] BY <1>3
  <1> HIDE DEF c, n
  <1> QED BY <1>1, <1>2, <1>4

\* Refusing a plan that does not fit its dispatch keeps the invariant.
LEMMA OfferRefusedKeeps ==
  ASSUME SinkInv, OfferRefused
  PROVE  SinkInv'
  <1> DEFINE d == The(dispatched)
             e == [d EXCEPT !.accepted = TRUE]
  <1>1. /\ Is(dispatched) /\ ~d.accepted /\ ~Is(offered) /\ immediate' = Some("unrepresentable")
        /\ exact_plan(d.effect) /\ plans' = consume_exact(d.effect)
        /\ dispatched' = Some(e) /\ UNCHANGED <<offered, active, executed, outcomes>>
    BY DEF OfferRefused, Offering, SinkAccepts, DispatchedEffect
  <1>2. d \in Dispatches /\ Untroubled BY <1>1, DispatchTyped
  <1>3. ~Is(active) /\ executed = << >> /\ active = None /\ offered = None BY <1>1 DEF SinkInv, SinkRoles, Is
  <1>4. e \in Dispatches /\ e.accepted
    <2> HIDE DEF d
    <2> QED BY <1>2 DEF Dispatches
  <1> HIDE DEF d, e
  <1>5. Told' BY <1>1 DEF SinkInv, Told, Outcomes, PlanEffects, TrueAnswer, GoodAnswer
  <1>6. SinkTypes' BY <1>1, <1>4, ConsumeTyped DEF SinkInv, SinkTypes, PlanEffects, Dispatches
  <1>7. SinkRoles' BY <1>2, <1>1, OptionFacts, <1>3, <1>4 DEF Untroubled, GoodAnswer, SinkRoles, Is
  <1> QED BY <1>5, <1>6, <1>7 DEF SinkInv

\* Accepting an effect with its first command submitted keeps the invariant.
LEMMA OfferSubmitKeeps ==
  ASSUME SinkInv, OfferSubmit
  PROVE  SinkInv'
  <1> DEFINE d == The(dispatched)
             e == [d EXCEPT !.accepted = TRUE]
             P == PlanCommands(d.effect)
             a == [step |-> 1, pending |-> None, inFlight |-> Some(P[1])]
  <1>1. /\ Is(dispatched) /\ ~d.accepted /\ exact_plan(d.effect)
        /\ offered' = None /\ plans' = consume_exact(d.effect) /\ active' = Some(a)
        /\ dispatched' = Some(e) /\ UNCHANGED <<immediate, executed, outcomes>>
    BY DEF OfferSubmit, Offering, SinkAccepts, DispatchedEffect, SinkInv, SinkRoles
  <1>2. d \in Dispatches /\ Untroubled /\ d.effect \in PlanEffects BY <1>1, DispatchTyped DEF DispatchedEffect
  <1>3. immediate = None /\ executed = << >> BY <1>1 DEF SinkInv, SinkRoles, Is
  <1>4. e \in Dispatches /\ e.accepted /\ e.effect = d.effect
    <2> HIDE DEF d
    <2> QED BY <1>2 DEF Dispatches
  <1>5. P \in Seq(StoreCommands) /\ Len(P) \in Nat /\ Len(P) >= 1 /\ P[1] \in StoreCommands /\ 1 \in 1 .. Len(P)
    <2>1. P \in Seq(StoreCommands) /\ Len(P) >= 1 BY <1>2, PlansFit
    <2> HIDE DEF P
    <2> QED BY <2>1
  <1> HIDE DEF P
  <1>6. RunFits(a, P, executed)
    <2>1. Some(P[1]) \in InHand /\ None \in InHand BY <1>5 DEF InHand
    <2>2. a \in Runs BY <2>1 DEF Runs
    <2>3. a.step = 1 /\ a.pending = None /\ a.inFlight = Some(P[1]) /\ 1 - 1 = 0 OBVIOUS
    <2>4. executed = Upto(P, 0) BY <1>3, <1>5, PrefixEnds
    <2> HIDE DEF a
    <2> QED BY <2>2, <2>3, <2>4, <1>5 DEF RunFits
  <1> HIDE DEF d, e, a
  <1>7. Told' BY <1>1 DEF SinkInv, Told, Outcomes, PlanEffects, TrueAnswer, GoodAnswer
  <1>8. SinkTypes' BY <1>1, ConsumeTyped, <1>3, <1>4 DEF SinkInv, SinkTypes, PlanEffects, Dispatches
  <1>9. SinkRoles'
    BY <1>2, <1>1, OptionFacts, <1>4, <1>6, <1>3 DEF Untroubled, GoodAnswer, Is, DispatchedEffect, P, SinkRoles, RunFits, Upto, Runs, InHand,
       StoreCommands, PlanCommands
  <1> QED BY <1>7, <1>8, <1>9 DEF SinkInv

\* An owner found closed when the effect is offered keeps the invariant.
LEMMA OfferClosedKeeps ==
  ASSUME SinkInv, OfferClosed
  PROVE  SinkInv'
  <1> DEFINE o == [effect |-> DispatchedEffect, answer |-> "closed", executed |-> executed]
  <1>1. /\ Is(dispatched) /\ ~The(dispatched).accepted /\ offered' = None
        /\ outcomes' = Append(outcomes, o) /\ dispatched' = None /\ UNCHANGED <<plans, active, immediate, executed>>
    BY DEF OfferClosed, Offering, SinkAnswers
  <1>2. active = None /\ immediate = None /\ executed = << >> BY <1>1 DEF SinkInv, SinkRoles, Is
  <1>3. DispatchedEffect \in PlanEffects BY <1>1, DispatchTyped
  <1>4. o \in Outcomes /\ TrueAnswer(o) BY <1>2, <1>3 DEF Outcomes, AnswerNames, TrueAnswer
  <1> HIDE DEF o
  <1> QED BY <1>1, <1>2, <1>4, AnswerKeeps

\* What is known while commands of a plan are with the owner.
LEMMA ActiveFacts ==
  ASSUME SinkInv, Is(active)
  PROVE  /\ Is(dispatched) /\ The(dispatched).accepted /\ offered = None /\ immediate = None
         /\ active = Some(The(active)) /\ RunFits(The(active), PlanCommands(DispatchedEffect), executed)
         /\ PlanCommands(DispatchedEffect) \in Seq(StoreCommands) /\ DispatchedEffect \in PlanEffects
  <1>1. /\ Is(dispatched) /\ The(dispatched).accepted
        /\ offered = None /\ immediate = None
    BY DEF SinkInv, SinkRoles, Is
  <1>2. PICK a : active = Some(a) /\ RunFits(a, PlanCommands(DispatchedEffect), executed)
    BY DEF SinkInv, SinkRoles
  <1>3. The(active) = a BY <1>2, OptionFacts
  <1>4. DispatchedEffect \in PlanEffects BY <1>1, DispatchTyped
  <1> QED BY <1>1, <1>2, <1>3, <1>4, PlansFit

\* What has been executed is a prefix of the plan.
LEMMA PrefixTyped ==
  ASSUME NEW P \in Seq(StoreCommands), NEW a, NEW done, RunFits(a, P, done)
  PROVE  /\ a \in Runs /\ a.step \in 1 .. Len(P) /\ P[a.step] \in StoreCommands /\ done \in Seq(StoreCommands)
         /\ \E k \in 0 .. Len(P) : done = Upto(P, k)
  <1>1. a \in Runs /\ a.step \in 1 .. Len(P) BY DEF RunFits
  <1> DEFINE j == a.step - 1
             k == a.step
  <1>2. j \in 0 .. Len(P) /\ k \in 0 .. Len(P) /\ P[k] \in StoreCommands BY <1>1
  <1>3. done = Upto(P, j) \/ done = Upto(P, k) BY DEF RunFits
  <1> HIDE DEF j
  <1>4. \A m \in 0 .. Len(P) : Upto(P, m) \in Seq(StoreCommands) BY DEF Upto
  <1> QED BY <1>1, <1>2, <1>3, <1>4

\* The plan goes on: only active and executed have changed.
LEMMA ActiveKeeps ==
  ASSUME SinkInv, Is(active), NEW b, active' = Some(b), RunFits(b, PlanCommands(DispatchedEffect), executed'),
         UNCHANGED <<plans, offered, immediate, dispatched, outcomes>>
  PROVE  SinkInv'
  <1>1. /\ Is(dispatched) /\ The(dispatched).accepted /\ offered = None /\ immediate = None BY ActiveFacts
  <1>2. Told' BY DEF SinkInv, Told, Outcomes, PlanEffects, TrueAnswer, GoodAnswer
  <1>3. SinkTypes' BY DEF SinkInv, SinkTypes, PlanEffects, Dispatches
  <1>4. SinkRoles'
    BY <1>1, DispatchTyped, OptionFacts DEF Untroubled, GoodAnswer, Is, DispatchedEffect, SinkRoles, RunFits, Upto, Runs, InHand, StoreCommands,
       PlanCommands
  <1> QED BY <1>2, <1>3, <1>4 DEF SinkInv

\* The owner executing the submitted command keeps the invariant.
LEMMA ExecutesKeeps ==
  ASSUME SinkInv, OwnerExecutes
  PROVE  SinkInv'
  <1> DEFINE a == The(active)
             P == PlanCommands(DispatchedEffect)
             b == [a EXCEPT !.inFlight = Some("done")]
             k == a.step
  <1>1. /\ Is(active) /\ Is(a.inFlight) /\ a.inFlight # Some("done")
        /\ executed' = Append(executed, The(a.inFlight)) /\ active' = Some(b)
        /\ UNCHANGED <<plans, offered, immediate, dispatched, outcomes>>
    BY DEF OwnerExecutes, OwnerHas
  <1>2. P \in Seq(StoreCommands) /\ RunFits(a, P, executed) BY <1>1, ActiveFacts
  <1> HIDE DEF P, a
  <1>3. a \in Runs /\ k \in 1 .. Len(P) /\ P[k] \in StoreCommands BY <1>2, PrefixTyped
  <1>4. a.inFlight = Some(P[k]) /\ a.pending = None /\ executed = Upto(P, k - 1) BY <1>1, <1>2 DEF RunFits, Is
  <1>5. The(a.inFlight) = P[k] BY <1>4, OptionFacts
  <1>6. executed' = Upto(P, k) BY <1>1, <1>4, <1>5, <1>3, <1>2, PrefixGrows
  <1>7. b \in Runs /\ b.step = k /\ b.pending = None /\ b.inFlight = Some("done")
    BY <1>3, <1>4 DEF InHand, Runs
  <1> HIDE DEF b
  <1>8. RunFits(b, P, executed') BY <1>6, <1>7, <1>3 DEF RunFits
  <1> QED BY <1>1, <1>8, ActiveKeeps DEF P

\* Submitting the next command of the plan keeps the invariant.
LEMMA SubmitNextKeeps ==
  ASSUME SinkInv, SubmitNext
  PROVE  SinkInv'
  <1> DEFINE a == The(active)
             P == PlanCommands(DispatchedEffect)
             b == [a EXCEPT !.pending = None, !.inFlight = a.pending]
             k == a.step
  <1>1. /\ Is(active) /\ Is(a.pending) /\ active' = Some(b)
        /\ UNCHANGED <<plans, offered, immediate, dispatched, executed, outcomes>>
    BY DEF SubmitNext
  <1>2. P \in Seq(StoreCommands) /\ RunFits(a, P, executed) BY <1>1, ActiveFacts
  <1> HIDE DEF P, a
  <1>3. a \in Runs /\ k \in 1 .. Len(P) /\ P[k] \in StoreCommands BY <1>2, PrefixTyped
  <1>4. a.pending = Some(P[k]) /\ executed = Upto(P, k - 1) BY <1>1, <1>2 DEF RunFits, Is
  <1>7. b \in Runs /\ b.step = k /\ b.pending = None /\ b.inFlight = Some(P[k]) BY <1>3, <1>4 DEF InHand, Runs
  <1> HIDE DEF b
  <1>8. RunFits(b, P, executed') BY <1>1, <1>4, <1>7, <1>3 DEF RunFits
  <1> QED BY <1>1, <1>8, ActiveKeeps DEF P

\* A command that failed, or may have, keeps the invariant.
LEMMA FailureKeeps ==
  ASSUME SinkInv, NEW definite \in BOOLEAN, owner_command_failure(definite)
  PROVE  SinkInv'
  <1> DEFINE a == The(active)
             P == PlanCommands(DispatchedEffect)
             k == a.step
             represented == DispatchedEffect \in Stages /\ a.inFlight = Some("append") /\ definite
             o(e) == [effect |-> DispatchedEffect, executed |-> e,
                      answer |-> IF represented THEN "stage_failed" ELSE "unrepresentable"]
  <1>1. /\ Is(active) /\ Is(a.inFlight) /\ a.inFlight # Some("done")
        /\ active' = None /\ UNCHANGED <<plans, offered, immediate>> /\ dispatched' = None
    BY DEF owner_command_failure, OwnerHas
  <1>2. PICK partial \in (IF definite THEN {FALSE} ELSE BOOLEAN) :
          outcomes' = Append(outcomes, o(IF partial THEN Append(executed, The(a.inFlight)) ELSE executed))
    BY DEF owner_command_failure
  <1> DEFINE e == IF partial THEN Append(executed, The(a.inFlight)) ELSE executed
  <1>3. /\ P \in Seq(StoreCommands) /\ RunFits(a, P, executed) /\ DispatchedEffect \in PlanEffects
        /\ offered = None /\ immediate = None /\ Is(dispatched)
    BY <1>1, ActiveFacts
  <1>p. DispatchedEffect \in Stages => \A i \in 1 .. Len(P) : P[i] = "append" => i = 1 BY <1>3, PlansFit
  <1> HIDE DEF P, a
  <1>4. a \in Runs /\ k \in 1 .. Len(P) /\ P[k] \in StoreCommands /\ executed \in Seq(StoreCommands)
    BY <1>3, PrefixTyped
  <1>5. a.inFlight = Some(P[k]) /\ executed = Upto(P, k - 1) BY <1>1, <1>3 DEF RunFits, Is
  <1>6. The(a.inFlight) = P[k] BY <1>5, OptionFacts
  <1>7. e \in Seq(StoreCommands) BY <1>4, <1>6
  <1>8. represented => e = << >>
    <2> SUFFICES ASSUME represented PROVE e = << >> OBVIOUS
    <2>1. P[k] = "append" /\ ~partial BY <1>5, OptionFacts
    <2>2. k = 1 /\ k - 1 = 0 BY <2>1, <1>p, <1>4
    <2> QED BY <2>1, <2>2, <1>5, <1>3, PrefixEnds
  <1> HIDE DEF e
  <1>9. o(e) \in Outcomes /\ TrueAnswer(o(e)) BY <1>3, <1>7, <1>8 DEF Outcomes, AnswerNames, TrueAnswer
  <1>10. outcomes' = Append(outcomes, o(e)) BY <1>2 DEF e
  <1> HIDE DEF o
  <1> QED BY <1>1, <1>3, <1>9, <1>10, AnswerKeeps

\* A command that succeeded keeps the invariant.
LEMMA ResultKeeps ==
  ASSUME SinkInv, apply_result
  PROVE  SinkInv'
  <1> DEFINE a == The(active)
             P == PlanCommands(DispatchedEffect)
             k == a.step
             next == k + 1
             o == [effect |-> DispatchedEffect, answer |-> "completed", executed |-> executed]
             b == [step |-> next, pending |-> Some(P[next]), inFlight |-> None]
  <1>1. /\ Is(active) /\ Is(a.inFlight) /\ a.inFlight = Some("done")
        /\ UNCHANGED <<plans, offered, immediate, executed>>
    BY DEF apply_result, OwnerHas
  <1>2. IF next > Len(P) THEN active' = None /\ outcomes' = Append(outcomes, o) /\ dispatched' = None
        ELSE active' = Some(b) /\ UNCHANGED <<dispatched, outcomes>>
    BY DEF apply_result, SinkAnswers
  <1>3. /\ P \in Seq(StoreCommands) /\ RunFits(a, P, executed) /\ DispatchedEffect \in PlanEffects
        /\ offered = None /\ immediate = None /\ Is(dispatched)
    BY <1>1, ActiveFacts
  <1>x. P = PlanCommands(DispatchedEffect) OBVIOUS
  <1> HIDE DEF P, a
  <1>4. a \in Runs /\ k \in 1 .. Len(P) /\ P[k] \in StoreCommands /\ executed \in Seq(StoreCommands)
    BY <1>3, PrefixTyped
  <1>5. executed = Upto(P, k) BY <1>4, OptionFacts, <1>1, <1>3 DEF StoreCommands, RunFits
  <1>6. CASE next > Len(P)
    <2>1. k = Len(P) BY <1>4, <1>6
    <2>2. executed = P BY <2>1, <1>5, <1>3, PrefixEnds
    <2>3. o \in Outcomes /\ TrueAnswer(o) BY <1>3, <1>4, <2>2, <1>x DEF Outcomes, AnswerNames, TrueAnswer
    <2> HIDE DEF o
    <2> QED BY <1>1, <1>2, <1>3, <1>6, <2>3, AnswerKeeps
  <1>7. CASE ~(next > Len(P))
    <2>1. next \in 1 .. Len(P) /\ next - 1 = k /\ next \in Nat BY <1>4, <1>7, <1>3
    <2>2. active' = Some(b) /\ UNCHANGED <<dispatched, outcomes>> BY <1>2, <1>7
    <2> HIDE DEF next
    <2>3. P[next] \in StoreCommands BY <2>1, <1>3
    <2>4. Some(P[next]) \in InHand /\ None \in InHand BY <2>3 DEF InHand
    <2>5. b \in Runs /\ b.step = next /\ b.pending = Some(P[next]) /\ b.inFlight = None BY <2>1, <2>4 DEF Runs
    <2> HIDE DEF b, k
    <2>6. RunFits(b, P, executed') BY <2>5, <2>1, <1>1, <1>5 DEF RunFits
    <2> QED BY <2>6, <2>2, <1>1, <1>x, ActiveKeeps
  <1> QED BY <1>6, <1>7

\* A later command the owner does not admit keeps the invariant.
LEMMA AdmissionFailureKeeps ==
  ASSUME SinkInv, post_acceptance_admission_failure
  PROVE  SinkInv'
  <1> DEFINE o == [effect |-> DispatchedEffect, answer |-> "unrepresentable", executed |-> executed]
             P == PlanCommands(DispatchedEffect)
  <1>1. /\ Is(active) /\ active' = None /\ outcomes' = Append(outcomes, o) /\ dispatched' = None
        /\ UNCHANGED <<plans, offered, immediate, executed>>
    BY DEF post_acceptance_admission_failure, SinkAnswers
  <1>2. /\ P \in Seq(StoreCommands) /\ RunFits(The(active), P, executed) /\ DispatchedEffect \in PlanEffects
        /\ offered = None /\ immediate = None /\ Is(dispatched)
    BY <1>1, ActiveFacts
  <1>3. executed \in Seq(StoreCommands) BY <1>2, PrefixTyped
  <1>4. o \in Outcomes /\ TrueAnswer(o) BY <1>2, <1>3 DEF Outcomes, AnswerNames, TrueAnswer
  <1> HIDE DEF o
  <1> QED BY <1>1, <1>2, <1>4, AnswerKeeps

\* Handing an answer to the driver keeps the invariant.
LEMMA PollKeeps ==
  ASSUME SinkInv, poll_completion
  PROVE  SinkInv'
  <1> DEFINE o == [effect |-> DispatchedEffect, answer |-> The(immediate), executed |-> executed]
  <1>1. /\ Is(immediate) /\ immediate' = None /\ outcomes' = Append(outcomes, o) /\ dispatched' = None
        /\ UNCHANGED <<plans, offered, active, executed>>
    BY DEF poll_completion, SinkAnswers
  <1>2. Is(dispatched) /\ active = None /\ offered = None /\ executed = << >> /\ The(immediate) = "unrepresentable"
    BY <1>1, OptionFacts DEF SinkInv, SinkRoles, SinkTypes, Is
  <1>3. DispatchedEffect \in PlanEffects BY <1>2, DispatchTyped
  <1>4. o \in Outcomes /\ TrueAnswer(o) BY <1>2, <1>3 DEF Outcomes, AnswerNames, TrueAnswer
  <1> HIDE DEF o
  <1> QED BY <1>1, <1>2, <1>4, AnswerKeeps

\* Every step of the sink keeps its invariant.
LEMMA SinkNextInv == SinkInv /\ [SinkNext]_sinkVars => SinkInv'
  <1>0. ASSUME SinkInv, UNCHANGED sinkVars PROVE SinkInv'
    BY <1>0 DEF SinkInv, Told, Outcomes, PlanEffects, TrueAnswer, GoodAnswer, SinkTypes, Dispatches, sinkVars, SinkRoles, Untroubled, exact_plan,
       DispatchedEffect, Is, The, RunFits, Upto, Runs, InHand, StoreCommands, PlanCommands
  <1> SUFFICES ASSUME SinkInv, SinkNext PROVE SinkInv' BY <1>0
  <1>1. CASE \E e \in PlanEffects : register(e)
    <2>1. PICK e \in PlanEffects : register(e) BY <1>1
    <2>2. plans' \in Seq(PlanEffects) BY <2>1 DEF register, SinkInv, SinkTypes
    <2> QED BY <2>1, <2>2, IdleKeeps DEF register
  <1>2. CASE DiscardPrepared BY <1>2, IdleKeeps DEF DiscardPrepared
  <1> QED
    BY <1>1, <1>2, EmitKeeps, OfferUnknownKeeps, OfferRefusedKeeps, OfferFullKeeps, OfferSubmitKeeps, OfferClosedKeeps,
       ExecutesKeeps, FailureKeeps, ResultKeeps, SubmitNextKeeps, AdmissionFailureKeeps, PollKeeps DEF SinkNext

\* The invariant says that the answers are true and no plan serves twice.
LEMMA SinkIsTrue == SinkInv => AnswersAreTrue /\ OnePlanPerEffect
  <1> SUFFICES ASSUME SinkInv PROVE AnswersAreTrue /\ OnePlanPerEffect OBVIOUS
  <1>1. AnswersAreTrue BY DEF SinkInv, Told, AnswersAreTrue, TrueAnswer, GoodAnswer
  <1>2. Is(dispatched) => \E n \in 0..Len(PlanCommands(DispatchedEffect)) : executed = SubSeq(PlanCommands(DispatchedEffect), 1, n)
    <2> SUFFICES ASSUME Is(dispatched)
                 PROVE \E n \in 0..Len(PlanCommands(DispatchedEffect)) : executed = Upto(PlanCommands(DispatchedEffect), n)
      BY DEF Upto
    <2>1. CASE Is(active) BY <2>1, ActiveFacts, PrefixTyped
    <2>2. CASE ~Is(active)
      <3>1. executed = << >> /\ DispatchedEffect \in PlanEffects BY <2>2, DispatchTyped DEF SinkInv, SinkRoles
      <3> DEFINE P == PlanCommands(DispatchedEffect)
      <3>2. P \in Seq(StoreCommands) /\ 0 \in 0 .. Len(P) BY <3>1, PlansFit
      <3> HIDE DEF P
      <3>3. executed = Upto(P, 0) BY <3>1, <3>2, PrefixEnds
      <3> QED BY <3>2, <3>3 DEF P
    <2> QED BY <2>1, <2>2
  <1> QED BY <1>1, <1>2 DEF OnePlanPerEffect, SinkInv, SinkRoles

-----------------------------------------------------------------------------
(* The recovery of interrupted journal replacements.                       *)

\* The state of a start.
Rows == {"old", "new"}
Intents == [phase : {"Installing", "Installed"}, valid : BOOLEAN]
MaybeIntent == {None} \cup {Some(i) : i \in Intents}
Opened == UNION {[D -> Rows] : D \in SUBSET StartTasks}
RepairCommands == [action : {"Abort", "Complete", "Clear"}, gid : StartTasks]
InstallCommands == [action : {"Install"}, gid : StartTasks, journal : Rows]
OwnerOffers == {None} \cup {Some(c) : c \in RepairCommands \cup InstallCommands}
Executors ==
  [phase : NativePhases, roots : SUBSET StartTasks, installs : SUBSET StartTasks, appenders : SUBSET StartTasks,
   prepared : Opened, pending : {None} \cup {Some(r) : r \in Rows}, offered : OwnerOffers, given : Opened]

\* An intent explains the journal its task row names, and only a whole
\* candidate is installed.
IntentsFit ==
  /\ intent \in [StartTasks -> MaybeIntent] /\ pointer \in [StartTasks -> Rows]
  /\ \A g \in StartTasks, i \in Intents :
       intent[g] = Some(i) => pointer[g] = IF i.phase = "Installed" THEN "new" ELSE "old"

\* A command offered to the owner fits the executor that offers it.
OfferFits(n, c) ==
  \/ /\ c.action = "Install" /\ n.phase \in {"OwnerInstall", "Faulted"}
     /\ c \in InstallCommands /\ c.journal = pointer[c.gid] /\ intent[c.gid] = None
  \/ /\ c.action = "Abort" /\ n.phase = "Installs" /\ c \in RepairCommands /\ c.gid \in n.installs
     /\ n.pending = Some("old") /\ pointer[c.gid] = "old" /\ intent[c.gid] # None
  \/ /\ c.action = "Complete" /\ n.phase = "Installs" /\ c \in RepairCommands /\ c.gid \in n.installs
     /\ n.pending = Some("new") /\ \E i \in Intents : intent[c.gid] = Some(i) /\ i.valid
  \/ /\ c.action = "Clear" /\ n.phase = "Installs" /\ c \in RepairCommands /\ c.gid \in n.installs
     /\ n.pending = Some("new") /\ pointer[c.gid] = "new" /\ intent[c.gid] # None

\* The journals opened so far are the ones the rows name, no task is forgotten,
\* and a phase ends with its list.
JournalsFit(n) ==
  /\ \A g \in DOMAIN n.prepared : n.prepared[g] = pointer[g] /\ intent[g] = None
  /\ \A g \in DOMAIN n.given : n.given[g] = pointer[g] /\ intent[g] = None
  /\ \A g \in StartTasks : intent[g] # None => g \in n.installs
  /\ n.phase # "Faulted" => \A g \in n.installs : intent[g] # None
TasksFit(n) ==
  n.phase # "Faulted" =>
    \A g \in StartTasks : \/ g \in n.installs \/ g \in n.appenders \/ g \in DOMAIN n.prepared \/ g \in DOMAIN n.given
                          \/ \E c \in InstallCommands : n.offered = Some(c) /\ c.gid = g
PhasesFit(n) ==
  /\ n.phase \in {"Appenders", "OwnerInstall", "Complete"} => n.installs = {}
  /\ n.phase \in {"OwnerInstall", "Complete"} => n.appenders = {}
  /\ n.phase = "Complete" => DOMAIN n.prepared = {} /\ n.offered = None
ExecutorFits(n) ==
  /\ n \in Executors /\ JournalsFit(n) /\ TasksFit(n) /\ PhasesFit(n)
  /\ \A c : n.offered = Some(c) => OfferFits(n, c)
NativeInv == IntentsFit /\ (native = None \/ \E n : native = Some(n) /\ ExecutorFits(n))

\* The least of some tasks is one of them.
LEMMA LeastTask == ASSUME NEW S \in SUBSET StartTasks, S # {} PROVE Min(S) \in S
  <1>1. S \in SUBSET Nat BY NativeAssumption
  <1>2. \E x \in S : \A y \in S : x =< y BY <1>1, LeastNumber
  <1> QED BY <1>2, Zenon DEF Min

\* Giving a task its journal.
LEMMA PutOpened ==
  ASSUME NEW f \in Opened, NEW g \in StartTasks, NEW r \in Rows
  PROVE  /\ Put(f, g, r) \in Opened /\ DOMAIN Put(f, g, r) = DOMAIN f \cup {g} /\ Put(f, g, r)[g] = r
         /\ \A h \in DOMAIN f \ {g} : Put(f, g, r)[h] = f[h]
  <1>1. PICK D \in SUBSET StartTasks : f \in [D -> Rows] BY DEF Opened
  <1>2. Put(f, g, r) \in [D \cup {g} -> Rows] /\ D \cup {g} \in SUBSET StartTasks BY <1>1 DEF Put
  <1>3. Put(f, g, r) \in Opened BY <1>2 DEF Opened
  <1> QED BY <1>1, <1>3 DEF Put

\* What a map of opened journals holds.
LEMMA OpenedTyped ==
  ASSUME NEW f \in Opened
  PROVE  DOMAIN f \in SUBSET StartTasks /\ \A g \in DOMAIN f : f[g] \in Rows
  BY DEF Opened

\* Taking journals out of the map.
LEMMA WithoutOpened ==
  ASSUME NEW f \in Opened, NEW S
  PROVE  /\ Without(f, S) \in Opened /\ DOMAIN Without(f, S) = DOMAIN f \ S
         /\ \A h \in DOMAIN f \ S : Without(f, S)[h] = f[h]
  <1>1. PICK D \in SUBSET StartTasks : f \in [D -> Rows] BY DEF Opened
  <1>2. Without(f, S) \in [D \ S -> Rows] /\ D \ S \in SUBSET StartTasks BY <1>1 DEF Without
  <1>3. Without(f, S) \in Opened BY <1>2 DEF Opened
  <1> QED BY <1>1, <1>3 DEF Without

\* A task may have no intent.
LEMMA NoIntentTyped == None \in MaybeIntent
  BY DEF MaybeIntent

\* The invariant of the recovery holds initially.
LEMMA NativeInitInv == NativeInit => NativeInv
  <1> SUFFICES ASSUME NativeInit PROVE NativeInv OBVIOUS
  <1> DEFINE opt == {None} \cup {Some([phase |-> p, valid |-> v]) : p \in {"Installing", "Installed"}, v \in BOOLEAN}
  <1>1. native = None /\ intent \in [StartTasks -> opt]
        /\ pointer = [g \in StartTasks |-> IF Is(intent[g]) /\ The(intent[g]).phase = "Installed" THEN "new" ELSE "old"]
    BY DEF NativeInit
  <1>2. \A x \in opt : x \in MaybeIntent
    <2> SUFFICES ASSUME NEW x \in opt PROVE x \in MaybeIntent OBVIOUS
    <2>1. x = None \/ \E p \in {"Installing", "Installed"}, v \in BOOLEAN : x = Some([phase |-> p, valid |-> v])
      OBVIOUS
    <2>2. ASSUME NEW p \in {"Installing", "Installed"}, NEW v \in BOOLEAN PROVE [phase |-> p, valid |-> v] \in Intents
      BY DEF Intents
    <2>3. ASSUME NEW i \in Intents, x = Some(i) PROVE x \in MaybeIntent BY <2>3 DEF MaybeIntent
    <2>4. x = None => x \in MaybeIntent BY NoIntentTyped
    <2> HIDE DEF opt
    <2> QED BY <2>1, <2>2, <2>3, <2>4
  <1> HIDE DEF opt
  <1>3. intent \in [StartTasks -> MaybeIntent] BY <1>1, <1>2
  <1>4. pointer \in [StartTasks -> Rows] BY <1>1 DEF Rows
  <1>5. ASSUME NEW g \in StartTasks, NEW i \in Intents, intent[g] = Some(i)
        PROVE  pointer[g] = IF i.phase = "Installed" THEN "new" ELSE "old"
    BY <1>1, <1>5, OptionFacts DEF Is
  <1> QED BY <1>1, <1>3, <1>4, <1>5 DEF NativeInv, IntentsFit

\* A step that leaves the database alone needs only a fitting executor.
LEMMA UnchangedKeeps ==
  ASSUME NativeInv, NEW n, native' = Some(n), UNCHANGED <<intent, pointer>>, ExecutorFits(n)
  PROVE  NativeInv'
  <1>1. IntentsFit' BY DEF NativeInv, IntentsFit, MaybeIntent, Intents, Rows
  <1>2. ExecutorFits(n)'
    BY DEF ExecutorFits, JournalsFit, TasksFit, PhasesFit, OfferFits, Executors, Opened, OwnerOffers, RepairCommands,
           InstallCommands, Rows, Intents, NativePhases
  <1> QED BY <1>1, <1>2 DEF NativeInv

\* What is known of a running start.
LEMMA ExecTyped ==
  ASSUME NativeInv, Is(native)
  PROVE  native = Some(Exec) /\ ExecutorFits(Exec)
  BY OptionFacts DEF NativeInv, Is, Exec

\* Beginning a start, after a crash too, keeps the invariant.
LEMMA BeginKeeps ==
  ASSUME NativeInv, BeginStart
  PROVE  NativeInv'
  <1> DEFINE n == NativeExecutor
  <1>1. native' = Some(n) /\ UNCHANGED <<intent, pointer>> BY DEF BeginStart
  <1>2. EmptyMap \in Opened /\ DOMAIN EmptyMap = {} BY DEF EmptyMap, Opened
  <1>3. /\ n.phase = "Roots" /\ n.roots = {} /\ n.installs = journal_install_recoveries
        /\ n.appenders = appender_recoveries /\ n.prepared = EmptyMap /\ n.pending = None /\ n.offered = None
        /\ n.given = EmptyMap
    BY DEF NativeExecutor
  <1>4. n \in Executors
    BY <1>2 DEF journal_install_recoveries, appender_recoveries, OwnerOffers, NativePhases, NativeExecutor, Executors
  <1>5. \A g \in StartTasks : intent[g] # None <=> g \in journal_install_recoveries
    BY DEF journal_install_recoveries, Is
  <1>6. \A g \in StartTasks : intent[g] = None => g \in appender_recoveries BY DEF appender_recoveries, Is
  <1> HIDE DEF n
  <1>7. JournalsFit(n) BY <1>2, <1>3, <1>5 DEF JournalsFit, journal_install_recoveries
  <1>8. TasksFit(n) BY <1>3, <1>5, <1>6 DEF TasksFit
  <1>9. PhasesFit(n) /\ \A c : n.offered = Some(c) => OfferFits(n, c) BY <1>3, OptionFacts DEF PhasesFit
  <1> QED BY <1>1, <1>4, <1>7, <1>8, <1>9, UnchangedKeeps DEF ExecutorFits

\* Opening the roots keeps the invariant.
LEMMA RootsKeep ==
  ASSUME NativeInv, poll_roots
  PROVE  NativeInv'
  <1> DEFINE e == Exec
             open == e.roots \cup {Min(StartTasks \ e.roots)}
             n == IF e.roots = StartTasks THEN [e EXCEPT !.phase = "Installs"] ELSE [e EXCEPT !.roots = open]
  <1>1. Is(native) /\ e.phase = "Roots" /\ e.offered = None /\ native' = Some(n) /\ UNCHANGED <<intent, pointer>>
    BY DEF poll_roots, AtPhase, ExecBecomes, Is
  <1>2. ExecutorFits(e) BY <1>1, ExecTyped
  <1> HIDE DEF e
  <1>3. e.roots # StartTasks => open \in SUBSET StartTasks BY <1>2, LeastTask DEF ExecutorFits, Executors
  <1>4. /\ n \in Executors /\ n.phase \in {"Roots", "Installs"} /\ n.installs = e.installs /\ n.appenders = e.appenders
        /\ n.prepared = e.prepared /\ n.offered = e.offered /\ n.given = e.given
    <2> HIDE DEF open
    <2> QED BY <1>1, <1>2, <1>3 DEF ExecutorFits, Executors, NativePhases
  <1> HIDE DEF n
  <1>5. ExecutorFits(n) BY <1>1, <1>2, <1>4, OptionFacts DEF ExecutorFits, JournalsFit, TasksFit, PhasesFit
  <1> QED BY <1>1, <1>5, UnchangedKeeps

\* Deciding one interrupted replacement keeps the invariant.
LEMMA InstallsKeep ==
  ASSUME NativeInv, poll_installs
  PROVE  NativeInv'
  <1> DEFINE e == Exec
             g == Min(e.installs)
             i == The(intent[g])
             action == IF i.phase = "Installed" THEN "Clear" ELSE IF i.valid THEN "Complete" ELSE "Abort"
             row == IF action = "Abort" THEN "old" ELSE "new"
             c == [action |-> action, gid |-> g]
             n == IF e.installs = {} THEN [e EXCEPT !.phase = "Appenders"]
                  ELSE [e EXCEPT !.pending = Some(row), !.offered = Some(c)]
  <1>1. Is(native) /\ e.phase = "Installs" /\ e.offered = None /\ native' = Some(n) /\ UNCHANGED <<intent, pointer>>
    BY DEF poll_installs, AtPhase, ExecBecomes, Is
  <1>2. ExecutorFits(e) BY <1>1, ExecTyped
  <1> HIDE DEF e
  <1>3. CASE e.installs = {}
    <2>1. /\ n \in Executors /\ n.phase = "Appenders" /\ n.installs = e.installs /\ n.appenders = e.appenders
          /\ n.prepared = e.prepared /\ n.offered = e.offered /\ n.given = e.given
      BY <1>2, <1>3 DEF ExecutorFits, Executors, NativePhases
    <2> HIDE DEF n
    <2>2. ExecutorFits(n)
      BY <1>1, <1>2, <1>3, <2>1, OptionFacts DEF ExecutorFits, JournalsFit, TasksFit, PhasesFit
    <2> QED BY <1>1, <2>2, UnchangedKeeps
  <1>4. CASE e.installs # {}
    <2>1. g \in e.installs /\ g \in StartTasks BY <1>2, <1>4, LeastTask DEF ExecutorFits, Executors
    <2>2. intent[g] # None /\ intent[g] \in MaybeIntent
      BY <2>1, <1>1, <1>2 DEF ExecutorFits, JournalsFit, NativeInv, IntentsFit
    <2>3. i \in Intents /\ intent[g] = Some(i)
      <3>1. PICK j \in Intents : intent[g] = Some(j) BY <2>2 DEF MaybeIntent
      <3> QED BY <3>1, OptionFacts
    <2>4. pointer[g] = IF i.phase = "Installed" THEN "new" ELSE "old" BY <2>1, <2>3 DEF NativeInv, IntentsFit
    <2> HIDE DEF g, i
    <2>5. \/ action = "Clear" /\ row = "new" /\ pointer[g] = "new"
          \/ action = "Complete" /\ row = "new" /\ i.valid
          \/ action = "Abort" /\ row = "old" /\ pointer[g] = "old"
      BY <2>4
    <2> HIDE DEF action, row
    <2>6. c \in RepairCommands /\ c.action = action /\ c.gid = g /\ row \in Rows
      BY <2>1, <2>5 DEF RepairCommands, Rows
    <2> HIDE DEF c
    <2>7. Some(c) \in OwnerOffers /\ Some(row) \in {None} \cup {Some(r) : r \in Rows} BY <2>6 DEF OwnerOffers
    <2>8. /\ n \in Executors /\ n.phase = "Installs" /\ n.installs = e.installs /\ n.appenders = e.appenders
          /\ n.prepared = e.prepared /\ n.given = e.given /\ n.offered = Some(c) /\ n.pending = Some(row)
      BY <1>1, <1>2, <1>4, <2>7 DEF ExecutorFits, Executors
    <2> HIDE DEF n
    <2>9. OfferFits(n, c) BY <2>1, <2>2, <2>3, <2>5, <2>6, <2>8 DEF OfferFits
    <2>10. JournalsFit(n) /\ TasksFit(n) /\ PhasesFit(n)
      BY <1>1, <1>2, <2>8, OptionFacts DEF ExecutorFits, JournalsFit, TasksFit, PhasesFit
    <2>11. ExecutorFits(n) BY <2>8, <2>9, <2>10, OptionFacts DEF ExecutorFits
    <2> QED BY <1>1, <2>11, UnchangedKeeps
  <1> QED BY <1>3, <1>4

\* Opening one journal keeps the invariant.
LEMMA AppendersKeep ==
  ASSUME NativeInv, poll_appenders
  PROVE  NativeInv'
  <1> DEFINE e == Exec
             g == Min(e.appenders)
             less == e.appenders \ {g}
             more == Put(e.prepared, g, pointer[g])
             n == IF e.appenders = {} THEN [e EXCEPT !.phase = "OwnerInstall"]
                  ELSE IF g \in DOMAIN e.prepared THEN [e EXCEPT !.phase = "Faulted"]
                  ELSE [e EXCEPT !.appenders = less, !.prepared = more]
  <1>1. Is(native) /\ e.phase = "Appenders" /\ e.offered = None /\ native' = Some(n) /\ UNCHANGED <<intent, pointer>>
    BY DEF poll_appenders, AtPhase, ExecBecomes, Is
  <1>2. ExecutorFits(e) BY <1>1, ExecTyped
  <1> HIDE DEF e
  <1>3. CASE e.appenders = {}
    <2>1. /\ n \in Executors /\ n.phase = "OwnerInstall" /\ n.installs = e.installs /\ n.appenders = e.appenders
          /\ n.prepared = e.prepared /\ n.offered = e.offered /\ n.given = e.given
      BY <1>2, <1>3 DEF ExecutorFits, Executors, NativePhases
    <2> HIDE DEF n
    <2>2. ExecutorFits(n)
      BY <1>1, <1>2, <1>3, <2>1, OptionFacts DEF ExecutorFits, JournalsFit, TasksFit, PhasesFit
    <2> QED BY <1>1, <2>2, UnchangedKeeps
  <1>4. CASE e.appenders # {} /\ g \in DOMAIN e.prepared
    <2>1. /\ n \in Executors /\ n.phase = "Faulted" /\ n.installs = e.installs /\ n.appenders = e.appenders
          /\ n.prepared = e.prepared /\ n.offered = e.offered /\ n.given = e.given
      BY <1>2, <1>4 DEF ExecutorFits, Executors, NativePhases
    <2> HIDE DEF n
    <2>2. ExecutorFits(n) BY <1>1, <1>2, <2>1, OptionFacts DEF ExecutorFits, JournalsFit, TasksFit, PhasesFit
    <2> QED BY <1>1, <2>2, UnchangedKeeps
  <1>5. CASE e.appenders # {} /\ g \notin DOMAIN e.prepared
    <2>0. e.appenders \in SUBSET StartTasks /\ e.prepared \in Opened /\ e.installs = {}
      BY <1>1, <1>2 DEF ExecutorFits, Executors, PhasesFit
    <2>1. g \in e.appenders /\ g \in StartTasks BY <2>0, <1>5, LeastTask
    <2>2. pointer[g] \in Rows /\ intent[g] = None
      BY <2>0, <2>1, <1>2 DEF ExecutorFits, JournalsFit, NativeInv, IntentsFit
    <2>3. /\ more \in Opened /\ DOMAIN more = DOMAIN e.prepared \cup {g} /\ more[g] = pointer[g]
          /\ \A h \in DOMAIN e.prepared \ {g} : more[h] = e.prepared[h]
      <3> HIDE DEF g
      <3> QED BY <2>0, <2>1, <2>2, PutOpened
    <2>4. less \in SUBSET StartTasks /\ \A h : h \in less <=> h \in e.appenders /\ h # g BY <2>0
    <2> HIDE DEF g, more, less
    <2>5. /\ n \in Executors /\ n.phase = "Appenders" /\ n.installs = e.installs /\ n.appenders = less
          /\ n.prepared = more /\ n.offered = e.offered /\ n.given = e.given
      BY <1>1, <1>2, <1>5, <2>3, <2>4 DEF ExecutorFits, Executors
    <2> HIDE DEF n
    <2>6. JournalsFit(n) BY <1>1, <1>2, <2>2, <2>3, <2>5 DEF ExecutorFits, JournalsFit
    <2>7. TasksFit(n) BY <1>1, <1>2, <2>3, <2>4, <2>5, OptionFacts DEF ExecutorFits, TasksFit
    <2>8. PhasesFit(n) BY <2>0, <2>5 DEF PhasesFit
    <2>9. ExecutorFits(n) BY <1>1, <2>5, <2>6, <2>7, <2>8, OptionFacts DEF ExecutorFits
    <2> QED BY <1>1, <2>9, UnchangedKeeps
  <1> QED BY <1>3, <1>4, <1>5

\* Offering one command to the owner keeps the invariant.
LEMMA OwnerInstallKeeps ==
  ASSUME NativeInv, poll_owner_install
  PROVE  NativeInv'
  <1> DEFINE e == Exec
             g == Min(DOMAIN e.prepared)
             less == Without(e.prepared, {g})
             c == [action |-> "Install", gid |-> g, journal |-> e.prepared[g]]
             n == IF DOMAIN e.prepared = {} THEN [e EXCEPT !.phase = "Complete"]
                  ELSE [e EXCEPT !.prepared = less, !.offered = Some(c)]
  <1>1. Is(native) /\ e.phase = "OwnerInstall" /\ e.offered = None /\ native' = Some(n) /\ UNCHANGED <<intent, pointer>>
    BY DEF poll_owner_install, AtPhase, ExecBecomes, Is
  <1>2. ExecutorFits(e) BY <1>1, ExecTyped
  <1> HIDE DEF e
  <1>3. CASE DOMAIN e.prepared = {}
    <2>1. /\ n \in Executors /\ n.phase = "Complete" /\ n.installs = e.installs /\ n.appenders = e.appenders
          /\ n.prepared = e.prepared /\ n.offered = e.offered /\ n.given = e.given
      BY <1>2, <1>3 DEF ExecutorFits, Executors, NativePhases
    <2> HIDE DEF n
    <2>2. ExecutorFits(n)
      BY <1>1, <1>2, <1>3, <2>1, OptionFacts DEF ExecutorFits, JournalsFit, TasksFit, PhasesFit
    <2> QED BY <1>1, <2>2, UnchangedKeeps
  <1>4. CASE DOMAIN e.prepared # {}
    <2>0. e.prepared \in Opened /\ DOMAIN e.prepared \in SUBSET StartTasks
      BY <1>2, OpenedTyped DEF ExecutorFits, Executors
    <2>1. g \in DOMAIN e.prepared /\ g \in StartTasks BY <2>0, <1>4, LeastTask
    <2>2. e.prepared[g] \in Rows /\ e.prepared[g] = pointer[g] /\ intent[g] = None
      BY <2>0, <2>1, <1>2, OpenedTyped DEF ExecutorFits, JournalsFit
    <2>3. /\ less \in Opened /\ DOMAIN less = DOMAIN e.prepared \ {g}
          /\ \A h \in DOMAIN e.prepared \ {g} : less[h] = e.prepared[h]
      BY <2>0, WithoutOpened
    <2> HIDE DEF g, less
    <2>4. c \in InstallCommands /\ c.action = "Install" /\ c.gid = g /\ c.journal = pointer[g]
      BY <2>1, <2>2 DEF InstallCommands
    <2> HIDE DEF c
    <2>5. Some(c) \in OwnerOffers BY <2>4 DEF OwnerOffers
    <2>6. /\ n \in Executors /\ n.phase = "OwnerInstall" /\ n.installs = e.installs /\ n.appenders = e.appenders
          /\ n.prepared = less /\ n.offered = Some(c) /\ n.given = e.given
      BY <1>1, <1>2, <1>4, <2>3, <2>5 DEF ExecutorFits, Executors
    <2> HIDE DEF n
    <2>7. JournalsFit(n) BY <1>1, <1>2, <2>3, <2>6 DEF ExecutorFits, JournalsFit
    <2>8. TasksFit(n) BY <1>1, <1>2, <2>3, <2>4, <2>6, OptionFacts DEF ExecutorFits, TasksFit
    <2>9. PhasesFit(n) BY <1>1, <1>2, <2>6 DEF ExecutorFits, PhasesFit
    <2>10. OfferFits(n, c) BY <2>2, <2>4, <2>6 DEF OfferFits
    <2>11. ExecutorFits(n) BY <2>6, <2>7, <2>8, <2>9, <2>10, OptionFacts DEF ExecutorFits
    <2> QED BY <1>1, <2>11, UnchangedKeeps
  <1> QED BY <1>3, <1>4

\* The row the intent x of a task explains.
Explains(x, p) == \A i \in Intents : x = Some(i) => p = IF i.phase = "Installed" THEN "new" ELSE "old"
Repaired(g, x, p) ==
  /\ intent'[g] = x /\ pointer'[g] = p
  /\ \A h \in StartTasks : h # g => intent'[h] = intent[h] /\ pointer'[h] = pointer[h]

\* Nothing but what an intent's repair did has changed: the intent and the row
\* of one task.
LEMMA RepairKeepsOthers ==
  ASSUME IntentsFit, NEW g \in StartTasks, NEW x \in MaybeIntent, NEW p \in Rows,
         intent' = [intent EXCEPT ![g] = x], pointer' = [pointer EXCEPT ![g] = p], Explains(x, p)
  PROVE  IntentsFit' /\ Repaired(g, x, p)
  <1>1. intent \in [StartTasks -> MaybeIntent] /\ pointer \in [StartTasks -> Rows] BY DEF IntentsFit
  <1>2. /\ intent'[g] = x /\ pointer'[g] = p
        /\ \A h \in StartTasks : h # g => intent'[h] = intent[h] /\ pointer'[h] = pointer[h]
    BY <1>1
  <1>3. intent' \in [StartTasks -> MaybeIntent] /\ pointer' \in [StartTasks -> Rows] BY <1>1
  <1>4. ASSUME NEW h \in StartTasks, NEW i \in Intents, intent'[h] = Some(i)
        PROVE  pointer'[h] = IF i.phase = "Installed" THEN "new" ELSE "old"
    BY <1>2, <1>4 DEF Explains, IntentsFit
  <1> QED BY <1>2, <1>3, <1>4 DEF IntentsFit, MaybeIntent, Intents, Rows, Repaired

\* The repair of a task's journal is finished: its intent is gone and its
\* journal is open.
LEMMA FinishKeeps ==
  ASSUME NativeInv, NEW e, ExecutorFits(e), NEW c, e.offered = Some(c), c \in RepairCommands, OfferFits(e, c),
         c.action \in {"Abort", "Clear"},
         intent' = [intent EXCEPT ![c.gid] = None], UNCHANGED pointer,
         native' = Some(finish_pending_install([e EXCEPT !.offered = None], c.gid))
  PROVE  NativeInv'
  <1> DEFINE m == [e EXCEPT !.offered = None]
             g == c.gid
             row == The(m.pending)
             more == Put(m.prepared, g, row)
             less == m.installs \ {g}
             n == IF g \in DOMAIN m.prepared THEN [m EXCEPT !.phase = "Faulted"]
                  ELSE [m EXCEPT !.prepared = more, !.pending = None, !.installs = less]
  <1>1. native' = Some(n) BY DEF finish_pending_install
  <1>2. /\ e.phase = "Installs" /\ g \in e.installs /\ g \in StartTasks /\ intent[g] # None
        /\ pointer[g] \in Rows /\ e.pending = Some(pointer[g])
    BY DEF OfferFits, RepairCommands, Rows
  <1>3. /\ m \in Executors /\ m.phase = "Installs" /\ m.installs = e.installs /\ m.appenders = e.appenders
        /\ m.prepared = e.prepared /\ m.offered = None /\ m.given = e.given /\ m.pending = e.pending
    BY <1>2 DEF OwnerOffers, ExecutorFits, Executors
  <1>4. row = pointer[g] BY <1>2, <1>3, OptionFacts
  <1>5. pointer' = [pointer EXCEPT ![g] = pointer[g]] BY <1>2 DEF NativeInv, IntentsFit
  <1>6. /\ IntentsFit' /\ intent'[g] = None /\ pointer'[g] = pointer[g]
        /\ \A h \in StartTasks : h # g => intent'[h] = intent[h] /\ pointer'[h] = pointer[h]
    <2> DEFINE x == None
               p == pointer[g]
    <2>1. Explains(x, p) /\ x \in MaybeIntent /\ p \in Rows /\ IntentsFit
      BY <1>2, OptionFacts, NoIntentTyped DEF Explains, NativeInv
    <2>2. intent' = [intent EXCEPT ![g] = x] /\ pointer' = [pointer EXCEPT ![g] = p] /\ g \in StartTasks
      BY <1>5, <1>2
    <2> HIDE DEF x, p, g
    <2>3. IntentsFit' /\ Repaired(g, x, p) BY <2>1, <2>2, RepairKeepsOthers
    <2> QED BY <2>3 DEF Repaired, x, p
  <1>7. m.prepared \in Opened /\ m.given \in Opened /\ DOMAIN m.prepared \in SUBSET StartTasks /\ DOMAIN m.given \in SUBSET StartTasks
    BY <1>3, OpenedTyped DEF Executors
  <1> HIDE DEF m, g, row
  <1>8. CASE g \in DOMAIN m.prepared BY <1>8, <1>2, <1>3 DEF ExecutorFits, JournalsFit
  <1>9. CASE g \notin DOMAIN m.prepared
    <2>1. /\ more \in Opened /\ DOMAIN more = DOMAIN m.prepared \cup {g} /\ more[g] = row
          /\ \A h \in DOMAIN m.prepared \ {g} : more[h] = m.prepared[h]
      <3>1. row \in Rows /\ g \in StartTasks /\ m.prepared \in Opened BY <1>2, <1>4, <1>7
      <3> QED BY <3>1, PutOpened
    <2>2. less \in SUBSET StartTasks /\ \A h : h \in less <=> h \in m.installs /\ h # g BY <1>3 DEF Executors
    <2> HIDE DEF more, less
    <2>3. /\ n \in Executors /\ n.phase = "Installs" /\ n.installs = less /\ n.appenders = e.appenders
          /\ n.prepared = more /\ n.offered = None /\ n.given = e.given
      BY <1>3, <1>9, <2>1, <2>2 DEF Executors
    <2> HIDE DEF n
    <2>4. JournalsFit(n)'
      <3>1. ASSUME NEW h \in DOMAIN more PROVE more[h] = pointer'[h] /\ intent'[h] = None
        <4>1. CASE h = g BY <4>1, <2>1, <1>4, <1>6
        <4>2. CASE h # g BY <4>2, <2>1, <1>7, <1>3, <1>6 DEF ExecutorFits, JournalsFit
        <4> QED BY <4>1, <4>2
      <3>2. ASSUME NEW h \in DOMAIN e.given PROVE e.given[h] = pointer'[h] /\ intent'[h] = None
        BY <1>6, <1>7, <1>3, <1>2 DEF ExecutorFits, JournalsFit
      <3>3. ASSUME NEW h \in StartTasks, intent'[h] # None PROVE h \in less
        BY <3>3, <1>6, <1>3, <2>2 DEF ExecutorFits, JournalsFit
      <3>4. ASSUME NEW h \in less PROVE intent'[h] # None
        BY <1>6, <1>3, <1>2, <2>2 DEF ExecutorFits, JournalsFit
      <3> QED BY <2>3, <3>1, <3>2, <3>3, <3>4 DEF JournalsFit
    <2>5. TasksFit(n)'
      <3>1. TasksFit(n)
        BY OptionFacts, <1>2, <1>3, <2>1, <2>2, <2>3 DEF InstallCommands, ExecutorFits, TasksFit
      <3> QED BY <3>1 DEF TasksFit, InstallCommands, Rows
    <2>6. PhasesFit(n)' /\ \A k : n.offered = Some(k) => OfferFits(n, k)' BY <2>3, OptionFacts DEF PhasesFit
    <2>7. ExecutorFits(n)'
      BY <2>3, <2>4, <2>5, <2>6 DEF ExecutorFits, Executors, Opened, OwnerOffers, RepairCommands, InstallCommands, Rows, NativePhases
    <2> QED BY <1>1, <1>6, <2>7 DEF NativeInv
  <1> QED BY <1>8, <1>9

\* The owner turning the pointer to a whole candidate keeps the invariant.
LEMMA InstallCompletes ==
  ASSUME NativeInv, NEW e, ExecutorFits(e), NEW c, e.offered = Some(c), c \in RepairCommands, OfferFits(e, c),
         c.action = "Complete",
         intent' = [intent EXCEPT ![c.gid] = Some([The(intent[c.gid]) EXCEPT !.phase = "Installed"])],
         pointer' = [pointer EXCEPT ![c.gid] = "new"],
         native' = Some([e EXCEPT !.offered = Some([c EXCEPT !.action = "Clear"])])
  PROVE  /\ NativeInv'
         /\ \A g \in StartTasks : pointer[g] # pointer'[g] => pointer'[g] = "new" /\ The(intent[g]).valid
  <1> DEFINE g == c.gid
             i == The(intent[g])
             j == [i EXCEPT !.phase = "Installed"]
             d == [c EXCEPT !.action = "Clear"]
             n == [e EXCEPT !.offered = Some(d)]
  <1>1. /\ e.phase = "Installs" /\ g \in e.installs /\ g \in StartTasks /\ e.pending = Some("new")
        /\ \E k \in Intents : intent[g] = Some(k) /\ k.valid
    BY DEF OfferFits, RepairCommands
  <1>2. i \in Intents /\ intent[g] = Some(i) /\ i.valid BY <1>1, OptionFacts
  <1> HIDE DEF i, g
  <1>3. j \in Intents /\ j.phase = "Installed" BY <1>2 DEF Intents
  <1> HIDE DEF j
  <1>4. Some(j) \in MaybeIntent /\ "new" \in Rows /\ Explains(Some(j), "new")
    BY <1>3, OptionFacts DEF MaybeIntent, Rows, Explains
  <1>5. intent' = [intent EXCEPT ![g] = Some(j)] /\ pointer' = [pointer EXCEPT ![g] = "new"] BY DEF g, j, i
  <1>6. /\ IntentsFit' /\ intent'[g] = Some(j) /\ pointer'[g] = "new"
        /\ \A h \in StartTasks : h # g => intent'[h] = intent[h] /\ pointer'[h] = pointer[h]
    <2> DEFINE x == Some(j)
               p == "new"
    <2>1. Explains(x, p) /\ x \in MaybeIntent /\ p \in Rows /\ IntentsFit BY <1>4 DEF NativeInv
    <2>2. intent' = [intent EXCEPT ![g] = x] /\ pointer' = [pointer EXCEPT ![g] = p] /\ g \in StartTasks
      BY <1>5, <1>1
    <2> HIDE DEF x, p
    <2>3. IntentsFit' /\ Repaired(g, x, p) BY <2>1, <2>2, RepairKeepsOthers
    <2> QED BY <2>3 DEF Repaired, x, p
  <1>7. d \in RepairCommands /\ d.action = "Clear" /\ d.gid = g BY DEF RepairCommands, g
  <1> HIDE DEF d
  <1>8. Some(d) \in OwnerOffers BY <1>7 DEF OwnerOffers
  <1>9. /\ n \in Executors /\ n.phase = "Installs" /\ n.installs = e.installs /\ n.appenders = e.appenders
        /\ n.prepared = e.prepared /\ n.offered = Some(d) /\ n.given = e.given /\ n.pending = Some("new")
    BY <1>1, <1>8 DEF ExecutorFits, Executors
  <1>10. native' = Some(n) BY DEF d
  <1> HIDE DEF n
  <1>11. Some(j) # None /\ intent[g] # None BY <1>2, OptionFacts
  <1>12. JournalsFit(n)' BY OpenedTyped, <1>6, <1>11, <1>1, <1>9 DEF ExecutorFits, Executors, JournalsFit
  <1>13. TasksFit(n)' BY OptionFacts, <1>1, <1>9 DEF InstallCommands, ExecutorFits, TasksFit, Rows
  <1>14. PhasesFit(n)' BY <1>9 DEF PhasesFit
  <1>15. OfferFits(n, d)' BY <1>1, <1>6, <1>7, <1>9, <1>11 DEF OfferFits, RepairCommands
  <1>16. ExecutorFits(n)'
    BY <1>9, OptionFacts, <1>12, <1>13, <1>14, <1>15 DEF ExecutorFits, Executors, Opened, OwnerOffers, RepairCommands, InstallCommands, Rows,
       NativePhases
  <1> QED BY <1>6, <1>2, <1>10, <1>16 DEF NativeInv, i

\* The owner being given an open journal keeps the invariant.
LEMMA GivenKeeps ==
  ASSUME NativeInv, NEW e, ExecutorFits(e), NEW c, e.offered = Some(c), c \in InstallCommands, OfferFits(e, c),
         UNCHANGED <<intent, pointer>>,
         native' = Some(IF c.gid \in DOMAIN e.given THEN [e EXCEPT !.phase = "Faulted"]
                        ELSE [[e EXCEPT !.offered = None] EXCEPT !.given = Put(@, c.gid, c.journal)])
  PROVE  NativeInv'
  <1> DEFINE g == c.gid
             m == [e EXCEPT !.offered = None]
             more == Put(m.given, g, c.journal)
             n == [m EXCEPT !.given = more]
             f == [e EXCEPT !.phase = "Faulted"]
  <1>1. /\ e.phase \in {"OwnerInstall", "Faulted"} /\ g \in StartTasks /\ c.journal = pointer[g] /\ intent[g] = None
        /\ c.journal \in Rows /\ c.action = "Install"
    BY DEF OfferFits, InstallCommands
  <1>2. CASE g \in DOMAIN e.given
    <2>1. /\ f \in Executors /\ f.phase = "Faulted" /\ f.installs = e.installs /\ f.appenders = e.appenders
          /\ f.prepared = e.prepared /\ f.offered = e.offered /\ f.given = e.given
      BY DEF ExecutorFits, Executors, NativePhases
    <2>2. native' = Some(f) BY <1>2
    <2> HIDE DEF f, g
    <2>3. JournalsFit(f) /\ TasksFit(f) /\ PhasesFit(f)
      BY <2>1 DEF ExecutorFits, JournalsFit, TasksFit, PhasesFit
    <2>4. ASSUME NEW k, f.offered = Some(k) PROVE OfferFits(f, k)
      BY <2>4, <2>1, OptionFacts, <1>1 DEF OfferFits, g
    <2>5. ExecutorFits(f) BY <2>1, <2>3, <2>4 DEF ExecutorFits
    <2> QED BY <2>2, <2>5, UnchangedKeeps
  <1>3. CASE g \notin DOMAIN e.given
    <2>0. native' = Some(n) BY <1>3
    <2>1. /\ m \in Executors /\ m.phase = e.phase /\ m.installs = e.installs /\ m.appenders = e.appenders
          /\ m.prepared = e.prepared /\ m.offered = None /\ m.given = e.given
      BY DEF OwnerOffers, ExecutorFits, Executors
    <2>2. m.given \in Opened /\ DOMAIN m.given \in SUBSET StartTasks BY <2>1, OpenedTyped DEF Executors
    <2> HIDE DEF m, g
    <2>3. /\ more \in Opened /\ DOMAIN more = DOMAIN m.given \cup {g} /\ more[g] = c.journal
          /\ \A h \in DOMAIN m.given \ {g} : more[h] = m.given[h]
      BY <1>1, <2>2, PutOpened
    <2> HIDE DEF more
    <2>4. /\ n \in Executors /\ n.phase = e.phase /\ n.installs = e.installs /\ n.appenders = e.appenders
          /\ n.prepared = e.prepared /\ n.offered = None /\ n.given = more
      BY <2>1, <2>3 DEF Executors
    <2> HIDE DEF n
    <2>5. JournalsFit(n) BY <1>1, <2>1, <2>3, <2>4 DEF ExecutorFits, JournalsFit
    <2>6. TasksFit(n) BY OptionFacts, <2>1, <2>3, <2>4 DEF g, ExecutorFits, TasksFit
    <2>7. PhasesFit(n) BY <1>1, <2>4 DEF ExecutorFits, PhasesFit
    <2>8. ExecutorFits(n) BY <2>4, <2>5, <2>6, <2>7, OptionFacts DEF ExecutorFits
    <2> QED BY <2>0, <2>8, UnchangedKeeps
  <1> QED BY <1>2, <1>3

\* Whatever the owner does with a command keeps the invariant, and turns a pointer only forward.
LEMMA OwnerActionKeeps ==
  ASSUME NativeInv, complete_owner_action
  PROVE  /\ NativeInv'
         /\ \A g \in StartTasks : pointer[g] # pointer'[g] => pointer'[g] = "new" /\ The(intent[g]).valid
  <1> DEFINE e == Exec
             c == The(e.offered)
  <1>1. Is(native) /\ Is(e.offered) BY DEF complete_owner_action
  <1>2. ExecutorFits(e) BY <1>1, ExecTyped
  <1>3. e.offered = Some(c) /\ c \in RepairCommands \cup InstallCommands
    <2>1. e.offered \in OwnerOffers BY <1>2 DEF ExecutorFits, Executors
    <2>2. PICK k \in RepairCommands \cup InstallCommands : e.offered = Some(k)
      BY <2>1, <1>1 DEF OwnerOffers, Is
    <2> QED BY <2>2, OptionFacts
  <1>4. OfferFits(e, c) BY <1>2, <1>3 DEF ExecutorFits
  <1>5. CASE c.action \in {"Abort", "Clear"}
    <2>1. /\ intent' = [intent EXCEPT ![c.gid] = None] /\ UNCHANGED pointer
          /\ native' = Some(finish_pending_install([e EXCEPT !.offered = None], c.gid))
      BY <1>5 DEF complete_owner_action, ExecBecomes
    <2>2. c \in RepairCommands BY <1>3, <1>5 DEF InstallCommands
    <2> HIDE DEF c, e
    <2>3. NativeInv' BY <1>2, <1>3, <1>4, <1>5, <2>1, <2>2, FinishKeeps
    <2> QED BY <2>1, <2>3
  <1>6. CASE c.action = "Complete"
    <2>1. /\ intent' = [intent EXCEPT ![c.gid] = Some([The(intent[c.gid]) EXCEPT !.phase = "Installed"])]
          /\ pointer' = [pointer EXCEPT ![c.gid] = "new"]
          /\ native' = Some([e EXCEPT !.offered = Some([c EXCEPT !.action = "Clear"])])
      BY <1>6 DEF complete_owner_action, ExecBecomes
    <2>2. c \in RepairCommands BY <1>3, <1>6 DEF InstallCommands
    <2> HIDE DEF c, e
    <2> QED BY <1>2, <1>3, <1>4, <1>6, <2>1, <2>2, InstallCompletes
  <1>7. CASE c.action = "Install"
    <2>1. /\ UNCHANGED <<intent, pointer>>
          /\ native' = Some(IF c.gid \in DOMAIN e.given THEN [e EXCEPT !.phase = "Faulted"]
                            ELSE [[e EXCEPT !.offered = None] EXCEPT !.given = Put(@, c.gid, c.journal)])
      BY <1>7 DEF complete_owner_action, ExecBecomes
    <2>2. c \in InstallCommands BY <1>3, <1>7 DEF RepairCommands
    <2> HIDE DEF c, e
    <2>3. NativeInv' BY <1>2, <1>3, <1>4, <2>1, <2>2, GivenKeeps
    <2> QED BY <2>1, <2>3
  <1> QED BY <1>4, <1>5, <1>6, <1>7 DEF OfferFits

\* Every step of the recovery, a crash among them, keeps its invariant.
LEMMA NativeNextInv ==
  NativeInv /\ [NativeNext]_nativeVars =>
    /\ NativeInv'
    /\ \A g \in StartTasks : pointer[g] # pointer'[g] => pointer'[g] = "new" /\ The(intent[g]).valid
  <1> DEFINE Forward == \A g \in StartTasks : pointer[g] # pointer'[g] => pointer'[g] = "new" /\ The(intent[g]).valid
  <1>0. ASSUME NativeInv, UNCHANGED <<intent, pointer>>, native' = native \/ native' = None PROVE NativeInv' /\ Forward
    <2>1. CASE native' = None BY <1>0, <2>1 DEF NativeInv, IntentsFit, MaybeIntent, Intents, Rows
    <2>2. CASE native' = native /\ native # None
      <3>1. PICK n : native = Some(n) /\ ExecutorFits(n) BY <1>0, <2>2 DEF NativeInv
      <3> QED BY <1>0, <2>2, <3>1, UnchangedKeeps
    <2> QED BY <1>0, <2>1, <2>2
  <1> SUFFICES ASSUME NativeInv, NativeNext PROVE NativeInv' /\ Forward BY <1>0 DEF nativeVars
  <1>1. CASE BeginStart \/ poll_roots \/ poll_installs \/ poll_appenders \/ poll_owner_install
    BY <1>1, BeginKeeps, RootsKeep, InstallsKeep, AppendersKeep, OwnerInstallKeeps DEF BeginStart, poll_roots, poll_installs, poll_appenders,
       poll_owner_install
  <1>2. CASE complete_owner_action BY <1>2, OwnerActionKeeps
  <1>3. CASE StartStops \/ EndFaulted \/ EngineRuns
    BY <1>3, <1>0 DEF StartStops, EndFaulted, EngineRuns, nativeVars
  <1> QED BY <1>1, <1>2, <1>3 DEF NativeNext, NativeStep

\* The invariant says that every task gets the one journal its row names.
LEMMA NativeIsSound == NativeInv => EveryJournalOpenOnce
  <1> SUFFICES ASSUME NativeInv, Is(native), Exec.phase = "Complete"
               PROVE  DOMAIN Exec.given = StartTasks /\ \A g \in StartTasks : ~Is(intent[g]) /\ Exec.given[g] = pointer[g]
    BY DEF EveryJournalOpenOnce
  <1>1. ExecutorFits(Exec) BY ExecTyped
  <1>2. /\ Exec.installs = {} /\ Exec.appenders = {} /\ DOMAIN Exec.prepared = {} /\ Exec.offered = None
        /\ DOMAIN Exec.given \in SUBSET StartTasks
    BY <1>1, OpenedTyped DEF ExecutorFits, PhasesFit, Executors
  <1>3. \A g \in StartTasks : g \in DOMAIN Exec.given BY <1>1, <1>2, OptionFacts DEF ExecutorFits, TasksFit
  <1> QED BY <1>1, <1>2, <1>3 DEF ExecutorFits, JournalsFit, Is

-----------------------------------------------------------------------------
(* The blocking disk lane: a buffer is in one place and every accepted     *)
(* write has its outcome.                                                  *)

WriteCells == [buf : Buffers \cup {NoBuffer},
          place : {"new", "filled", "reserved", "queued", "running", "written", "sent", "taken", "received", "over"},
          cancel : {"Queued", "Requested", "Running", "Complete"},
          told : SUBSET {"Requested", "AlreadyRequested", "TooLate", "Complete"},
          wrote : BOOLEAN, result : {"none", "Ok", "Err", "Cancelled", "Aborted"}]

PoolStates == {"None", "Free", "Filled", "DiskQueued", "DiskInFlight", "DiskDone", "Releasable",
               "Quarantined", "Retired"}
Pools == [state : [Buffers -> PoolStates], quarantined : Int, faulted : BOOLEAN]

LaneStates(Ids) ==
  [queue : Seq(Writes), aborting : Seq(Writes), accepted_operations : SUBSET Ids,
   accepting : BOOLEAN, stopping : BOOLEAN, reserved : Int, drain : Seq(Writes),
   admission_closed : BOOLEAN, receiver_closed : BOOLEAN, detached : BOOLEAN]

Identities == {OperationId[w] : w \in Writes}

-----------------------------------------------------------------------------
(* The invariant.                                                          *)

DiskTypes == work \in [Writes -> WriteCells] /\ pool \in Pools /\ lane \in LaneStates(Identities)

\* What the place of a write says of its buffer, and its cell of its answers.
CellOK(x, state) ==
  /\ x.place \in {"new", "over"} <=> x.buf = NoBuffer
  /\ x.place \in {"filled", "reserved"} => state[x.buf] = "Filled"
  /\ x.place \in {"queued", "running"} => state[x.buf] = "DiskQueued"
  /\ x.place = "written" => state[x.buf] = "DiskInFlight"
  /\ x.place \in {"sent", "taken", "received"} => state[x.buf] \in {"DiskDone", "Releasable"}
  /\ x.place \in {"new", "filled", "reserved", "queued", "running"} => x.cancel \in {"Queued", "Requested"}
  /\ x.place = "written" => x.cancel = "Running"
  /\ x.place \in {"sent", "taken", "received"} => x.cancel = "Complete"
  /\ x.wrote => x.cancel \in {"Running", "Complete"}
  /\ x.cancel # "Complete" => x.result = "none"
  /\ "Requested" \in x.told => ~x.wrote /\ x.cancel \in {"Requested", "Complete"}
  /\ "TooLate" \in x.told => x.result # "Cancelled" /\ x.cancel \in {"Running", "Complete"}

CellsOK == \A w \in Writes : CellOK(work[w], pool.state)

Apart == \A v, w \in Writes : v # w /\ work[v].buf # NoBuffer => work[v].buf # work[w].buf

\* A list holds writes in one place, each once.
Lists(s, wk, place) ==
  /\ \A i \in 1 .. Len(s) : wk[s[i]].place = place
  /\ \A i, j \in 1 .. Len(s) : i # j => s[i] # s[j]

Queues ==
  /\ Lists(lane.queue, work, "queued") /\ Lists(lane.aborting, work, "queued") /\ Lists(lane.drain, work, "sent")
  /\ \A w \in Writes : work[w].place = "sent" => \E i \in 1 .. Len(lane.drain) : lane.drain[i] = w

\* How far the lane has closed.
Closing ==
  /\ lane.stopping = ~lane.accepting
  /\ lane.stopping => lane.queue = << >>
  /\ lane.accepting => lane.aborting = << >>
  /\ lane.admission_closed => lane.stopping
  /\ lane.receiver_closed =>
       /\ lane.stopping
       /\ \A w \in Writes : work[w].place \notin {"reserved", "queued", "running", "written", "sent", "taken"}

\* The identity of an accepted write is taken, and by it alone.
Named ==
  /\ \A w \in Accepted : OperationId[w] \in lane.accepted_operations
  /\ \A v, w \in Accepted : v # w => OperationId[v] # OperationId[w]

Promised == {w \in Writes : work[w].place \in {"reserved", "queued", "running", "written"}}
Lost == {b \in Buffers : pool.state[b] = "Quarantined"}

Counted ==
  /\ lane.reserved = Cardinality(Promised)
  /\ Len(lane.drain) + lane.reserved <= CompletionCapacity
  /\ pool.quarantined = Cardinality(Lost)

DiskInv == DiskTypes /\ CellsOK /\ Apart /\ Queues /\ Closing /\ Named /\ Counted

-----------------------------------------------------------------------------
(* Lemmas.                                                                 *)

\* What the types say of one write, the pool and the lane.
LEMMA CellType ==
  ASSUME DiskTypes, NEW w \in Writes
  PROVE  /\ work[w] \in WriteCells /\ work[w].buf \in Buffers \cup {NoBuffer}
         /\ work[w].wrote \in BOOLEAN
         /\ work[w].place \in {"new", "filled", "reserved", "queued", "running", "written", "sent", "taken",
                               "received", "over"}
         /\ work[w].cancel \in {"Queued", "Requested", "Running", "Complete"}
  BY DEF DiskTypes, WriteCells

\* What the types say of the lane's fields.
LEMMA LaneType ==
  ASSUME DiskTypes
  PROVE  /\ lane.queue \in Seq(Writes) /\ lane.aborting \in Seq(Writes) /\ lane.drain \in Seq(Writes)
         /\ lane.accepted_operations \in SUBSET Identities /\ lane.reserved \in Int
         /\ lane.accepting \in BOOLEAN /\ lane.stopping \in BOOLEAN
         /\ lane.admission_closed \in BOOLEAN /\ lane.receiver_closed \in BOOLEAN
  BY DEF DiskTypes, LaneStates

\* What the types say of the pool's fields.
LEMMA PoolType ==
  ASSUME DiskTypes
  PROVE  pool.state \in [Buffers -> PoolStates] /\ pool.quarantined \in Int
  BY DEF DiskTypes, Pools

\* The sets that are counted are finite.
LEMMA CountedFinite ==
  /\ IsFiniteSet(Promised) /\ Cardinality(Promised) \in Nat
  /\ IsFiniteSet(Lost) /\ Cardinality(Lost) \in Nat
  <1>1. Promised \in SUBSET Writes /\ Lost \in SUBSET Buffers BY DEF Promised, Lost
  <1>2. IsFiniteSet(Promised) /\ IsFiniteSet(Lost) BY <1>1, FS_Subset, DiskAssumption
  <1> QED BY <1>2, FS_CardinalityType

Owed == {"reserved", "queued", "running", "written"}

\* Every action on a write leaves the others alone.
Others(w) == work' \in [Writes -> WriteCells] /\ \A v \in Writes : v # w => work'[v] = work[v]

\* How many outcomes are owed after one write has moved.
LEMMA PromisedMoves ==
  ASSUME DiskTypes, NEW w \in Writes, Others(w)
  PROVE  /\ (work[w].place \in Owed <=> work'[w].place \in Owed) => Cardinality(Promised') = Cardinality(Promised)
         /\ work[w].place \notin Owed /\ work'[w].place \in Owed =>
              Cardinality(Promised') = Cardinality(Promised) + 1
         /\ work[w].place \in Owed /\ work'[w].place \notin Owed =>
              Cardinality(Promised') = Cardinality(Promised) - 1
  <1>1. \A v \in Writes : v # w => (v \in Promised' <=> v \in Promised) BY DEF Promised, Others
  <1>2. (w \in Promised <=> work[w].place \in Owed) /\ (w \in Promised' <=> work'[w].place \in Owed)
    BY DEF Promised, Owed
  <1>3. Promised \subseteq Writes /\ Promised' \subseteq Writes BY DEF Promised
  <1>4. CASE work[w].place \in Owed <=> work'[w].place \in Owed BY <1>1, <1>2, <1>3, <1>4
  <1>5. CASE work[w].place \notin Owed /\ work'[w].place \in Owed
    <2>1. Promised' = Promised \cup {w} /\ w \notin Promised BY <1>1, <1>2, <1>3, <1>5
    <2>2. Cardinality(Promised \cup {w}) = Cardinality(Promised) + 1 BY <2>1, CountedFinite, FS_AddElement
    <2> QED BY <1>5, <2>1, <2>2
  <1>6. CASE work[w].place \in Owed /\ work'[w].place \notin Owed
    BY <1>1, <1>2, <1>3, <1>6, CountedFinite, FS_RemoveElement
  <1> QED BY <1>4, <1>5, <1>6

\* How many buffers are in quarantine after one has moved.
LEMMA LostMoves ==
  ASSUME DiskTypes, NEW b \in Buffers, pool'.state \in [Buffers -> PoolStates],
         \A c \in Buffers : c # b => pool'.state[c] = pool.state[c]
  PROVE  /\ (pool.state[b] = "Quarantined" <=> pool'.state[b] = "Quarantined") =>
              Cardinality(Lost') = Cardinality(Lost)
         /\ pool.state[b] # "Quarantined" /\ pool'.state[b] = "Quarantined" =>
              Cardinality(Lost') = Cardinality(Lost) + 1
         /\ pool.state[b] = "Quarantined" /\ pool'.state[b] # "Quarantined" =>
              Cardinality(Lost') = Cardinality(Lost) - 1
  <1>1. \A c \in Buffers : c # b => (c \in Lost' <=> c \in Lost) BY DEF Lost
  <1>2. (b \in Lost <=> pool.state[b] = "Quarantined") /\ (b \in Lost' <=> pool'.state[b] = "Quarantined")
    BY DEF Lost
  <1>3. Lost \subseteq Buffers /\ Lost' \subseteq Buffers BY DEF Lost
  <1>4. CASE pool.state[b] = "Quarantined" <=> pool'.state[b] = "Quarantined" BY <1>1, <1>2, <1>3, <1>4
  <1>5. CASE pool.state[b] # "Quarantined" /\ pool'.state[b] = "Quarantined"
    BY <1>1, <1>2, <1>3, <1>5, CountedFinite, FS_AddElement
  <1>6. CASE pool.state[b] = "Quarantined" /\ pool'.state[b] # "Quarantined"
    BY <1>1, <1>2, <1>3, <1>6, CountedFinite, FS_RemoveElement
  <1> QED BY <1>4, <1>5, <1>6

\* Initially no write holds anything.
LEMMA InitDisk == DiskInit => DiskInv
  <1> SUFFICES ASSUME DiskInit PROVE DiskInv OBVIOUS
  <1>1. \A w \in Writes : work[w] = Idle BY DEF DiskInit
  <1>2. /\ Idle \in WriteCells /\ Idle.place = "new" /\ Idle.buf = NoBuffer /\ Idle.cancel = "Queued"
        /\ Idle.told = {} /\ Idle.wrote = FALSE /\ Idle.result = "none"
    BY DEF Idle, WriteCells
  <1>3. /\ pool \in Pools /\ pool.quarantined = 0 /\ \A b \in Buffers : pool.state[b] = "None"
    BY DEF DiskInit, Pools, PoolStates
  <1>4. /\ lane \in LaneStates(Identities) /\ lane.queue = << >> /\ lane.aborting = << >> /\ lane.drain = << >>
        /\ lane.reserved = 0 /\ lane.accepting = TRUE /\ lane.stopping = FALSE
        /\ lane.admission_closed = FALSE /\ lane.receiver_closed = FALSE
    BY DEF DiskInit, LaneStates
  <1>5. DiskTypes
    <2>1. work \in [Writes -> WriteCells]
      <3> HIDE DEF Idle
      <3> QED BY <1>2 DEF DiskInit
    <2> QED BY <1>3, <1>4, <2>1 DEF DiskTypes
  <1>6. \A w \in Writes : work[w].place = "new" /\ work[w].buf = NoBuffer BY <1>1, <1>2
  <1>7. CellsOK BY <1>1, <1>2 DEF CellsOK, CellOK
  <1>8. Apart BY <1>6 DEF Apart
  <1>9. Queues BY <1>6, <1>4 DEF Queues, Lists
  <1>10. Closing BY <1>4 DEF Closing
  <1>11. Accepted = {} /\ Promised = {} /\ Lost = {} BY <1>3, <1>6 DEF Accepted, Promised, Lost
  <1>12. Named BY <1>11 DEF Named
  <1>13. Counted BY <1>11, FS_EmptySet, <1>3, <1>4, DiskAssumption DEF Counted
  <1> QED BY <1>5, <1>7, <1>8, <1>9, <1>10, <1>12, <1>13 DEF DiskInv

\* Another write's cell does not depend on what happens to a buffer it does not hold.
LEMMA CellsMove ==
  ASSUME DiskInv, NEW w \in Writes, Others(w), CellOK(work'[w], pool'.state),
         work'[w].buf \in {work[w].buf, NoBuffer} \/ \A v \in Writes : work[v].buf # work'[w].buf,
         \A b \in Buffers : b # work[w].buf /\ b # work'[w].buf => pool'.state[b] = pool.state[b]
  PROVE  CellsOK' /\ Apart'
  <1>1. \A v \in Writes : /\ v # w => work'[v] = work[v]
                          /\ work[v].buf \in Buffers \cup {NoBuffer} /\ CellOK(work[v], pool.state)
    BY CellType DEF DiskInv, CellsOK, Others
  <1>2. \A v \in Writes : v # w /\ work[v].buf # NoBuffer =>
                            work[v].buf # work[w].buf /\ work[v].buf # work'[w].buf
    BY DEF DiskInv, Apart
  <1>3. CellsOK'
    <2> SUFFICES ASSUME NEW v \in Writes PROVE CellOK(work'[v], pool'.state) BY DEF CellsOK
    <2>1. CASE v = w BY <2>1
    <2>2. CASE v # w /\ work[v].buf = NoBuffer BY <1>1, <2>2 DEF CellOK
    <2>3. CASE v # w /\ work[v].buf # NoBuffer BY <1>1, <2>3, <1>2 DEF CellOK
    <2> QED BY <2>1, <2>2, <2>3
  <1>4. Apart'
    <2> SUFFICES ASSUME NEW u \in Writes, NEW v \in Writes, u # v, work'[u].buf # NoBuffer
                 PROVE  work'[u].buf # work'[v].buf
      BY DEF Apart
    <2>1. CASE u = w BY <1>1, <2>1, <1>2
    <2>2. CASE v = w BY <1>1, <2>2, <1>2
    <2>3. CASE u # w /\ v # w BY <1>1, <2>3 DEF DiskInv, Apart
    <2> QED BY <2>1, <2>2, <2>3
  <1> QED BY <1>3, <1>4

\* A list stays as it is when a write that is not in it moves, grows by one that
\* comes to its place and loses its head.
LEMMA ListKept ==
  ASSUME NEW s \in Seq(Writes), NEW place, NEW w \in Writes, Others(w), Lists(s, work, place),
         work[w].place # place \/ work'[w].place = place
  PROVE  Lists(s, work', place)
  <1>1. \A i \in 1 .. Len(s) : s[i] \in Writes OBVIOUS
  <1> QED BY <1>1 DEF Lists, Others

\* A list stays one of writes in one place, each once, when a write moves
\* into that place and is appended (queue.push_back, completions.push_back).
LEMMA ListAppend ==
  ASSUME NEW s \in Seq(Writes), NEW place, NEW w \in Writes, Others(w), Lists(s, work, place),
         work[w].place # place, work'[w].place = place
  PROVE  /\ Append(s, w) \in Seq(Writes) /\ Len(Append(s, w)) = Len(s) + 1
         /\ Lists(Append(s, w), work', place)
         /\ Append(s, w)[Len(s) + 1] = w /\ \A i \in 1 .. Len(s) : Append(s, w)[i] = s[i]
  <1>1. \A i \in 1 .. Len(s) : s[i] \in Writes /\ s[i] # w BY DEF Lists
  <1>2. /\ Append(s, w) \in Seq(Writes) /\ Len(Append(s, w)) = Len(s) + 1 /\ Len(s) \in Nat
        /\ Append(s, w)[Len(s) + 1] = w /\ \A i \in 1 .. Len(s) : Append(s, w)[i] = s[i]
    OBVIOUS
  <1> DEFINE t == Append(s, w)
             m == Len(s) + 1
  <1>3. \A i \in 1 .. m : i = m \/ i \in 1 .. Len(s) BY <1>2
  <1>4. Lists(t, work', place) BY <1>1, <1>2, <1>3 DEF Lists, Others
  <1> QED BY <1>2, <1>4

\* And when its first write moves out of it (pop_front).
LEMMA ListTail ==
  ASSUME NEW s \in Seq(Writes), s # << >>, NEW place, Lists(s, work, place)
  PROVE  /\ Head(s) \in Writes /\ work[Head(s)].place = place
         /\ Tail(s) \in Seq(Writes) /\ Len(Tail(s)) = Len(s) - 1 /\ s[1] = Head(s)
         /\ \A i \in 1 .. (Len(s) - 1) : Tail(s)[i] = s[i + 1]
         /\ Others(Head(s)) => Lists(Tail(s), work', place)
  <1>1. Len(s) \in Nat /\ Len(s) >= 1 /\ Head(s) = s[1] /\ 1 \in 1 .. Len(s) OBVIOUS
  <1>2. Head(s) \in Writes /\ work[Head(s)].place = place BY <1>1 DEF Lists
  <1>3. /\ Tail(s) \in Seq(Writes) /\ Len(Tail(s)) = Len(s) - 1
        /\ \A i \in 1 .. (Len(s) - 1) : Tail(s)[i] = s[i + 1]
    OBVIOUS
  <1>4. ASSUME Others(Head(s)) PROVE Lists(Tail(s), work', place)
    <2>1. \A i \in 1 .. (Len(s) - 1) : i + 1 \in 1 .. Len(s) /\ i + 1 # 1 BY <1>1
    <2>2. \A i \in 1 .. (Len(s) - 1) : /\ Tail(s)[i] \in Writes /\ Tail(s)[i] # Head(s)
                                       /\ work[Tail(s)[i]].place = place
      <3> SUFFICES ASSUME NEW i \in 1 .. (Len(s) - 1)
                   PROVE  /\ Tail(s)[i] \in Writes /\ Tail(s)[i] # Head(s)
                          /\ work[Tail(s)[i]].place = place
        OBVIOUS
      <3> DEFINE k == i + 1
      <3>1. k \in 1 .. Len(s) /\ k # 1 /\ Tail(s)[i] = s[k] BY <1>3, <2>1
      <3> HIDE DEF k
      <3> QED BY <1>1, <3>1 DEF Lists
    <2>3. \A i, j \in 1 .. (Len(s) - 1) : i # j => Tail(s)[i] # Tail(s)[j]
      <3> SUFFICES ASSUME NEW i \in 1 .. (Len(s) - 1), NEW j \in 1 .. (Len(s) - 1), i # j
                   PROVE  Tail(s)[i] # Tail(s)[j]
        OBVIOUS
      <3> DEFINE k == i + 1
                 l == j + 1
      <3>1. k \in 1 .. Len(s) /\ l \in 1 .. Len(s) /\ k # l /\ Tail(s)[i] = s[k] /\ Tail(s)[j] = s[l]
        BY <1>3, <2>1
      <3> HIDE DEF k, l
      <3> QED BY <3>1 DEF Lists
    <2> QED BY <1>3, <1>4, <2>2, <2>3 DEF Lists, Others
  <1> QED BY <1>1, <1>2, <1>3, <1>4

Live == {"queued", "running", "written", "sent", "taken"}

\* Identities stay with their writes when no write becomes accepted.
LEMMA NamedKept ==
  ASSUME DiskInv, NEW w \in Writes, Others(w), work'[w].place \in Live => work[w].place \in Live,
         lane'.accepted_operations = lane.accepted_operations
  PROVE  Named'
  <1>1. \A v \in Writes : v \in Accepted' => v \in Accepted BY DEF Accepted, Live, Others
  <1>2. Accepted' \subseteq Writes BY DEF Accepted
  <1> QED BY <1>1, <1>2 DEF DiskInv, Named

-----------------------------------------------------------------------------
(* The actions.                                                            *)

\* What the invariant says of the write an action is about.
LEMMA InvFacts ==
  ASSUME DiskInv
  PROVE  /\ DiskTypes /\ work \in [Writes -> WriteCells] /\ pool \in Pools /\ lane \in LaneStates(Identities)
         /\ \A w \in Writes : CellOK(work[w], pool.state) /\ work[w] \in WriteCells
         /\ lane.reserved = Cardinality(Promised) /\ lane.reserved \in Nat
         /\ pool.quarantined = Cardinality(Lost) /\ pool.quarantined \in Nat
         /\ pool.state \in [Buffers -> PoolStates]
         /\ lane.queue \in Seq(Writes) /\ lane.aborting \in Seq(Writes) /\ lane.drain \in Seq(Writes)
         /\ Lists(lane.queue, work, "queued") /\ Lists(lane.aborting, work, "queued")
         /\ Lists(lane.drain, work, "sent")
         /\ Len(lane.drain) + lane.reserved <= CompletionCapacity
  <1>1. DiskTypes BY DEF DiskInv
  <1>2. \A w \in Writes : work[w] \in WriteCells BY <1>1 DEF DiskTypes
  <1> QED BY <1>1, <1>2, LaneType, PoolType, CountedFinite DEF DiskInv, CellsOK, Queues, Counted, DiskTypes

\* A step of a write that is neither accepted nor owed an outcome, or that keeps its place.
LEMMA QuietMove ==
  ASSUME DiskInv, NEW w \in Writes, Others(w), pool' \in Pools, lane' = lane, CellsOK', Apart',
         \/ work'[w].place = work[w].place
         \/ {work[w].place, work'[w].place} \subseteq {"new", "filled", "received", "over"},
         pool'.quarantined = Cardinality(Lost')
  PROVE  DiskInv'
  <1>1. DiskTypes' BY InvFacts DEF DiskTypes, Others
  <1>2. \A p \in {"queued", "sent"} : work[w].place # p \/ work'[w].place = p OBVIOUS
  <1>3. Queues' BY <1>2, InvFacts, ListKept DEF Others, DiskInv, Queues
  <1>4. Closing' BY DEF Others, DiskInv, Closing
  <1>5. Named' BY NamedKept DEF Live
  <1>6. Counted' BY InvFacts, PromisedMoves DEF Owed, DiskInv, Counted
  <1> QED BY <1>1, <1>3, <1>4, <1>5, <1>6 DEF DiskInv

\* buffer.rs try_reserve takes a free buffer for a write that holds none.
LEMMA ReserveKeeps == ASSUME DiskInv, NEW w \in Writes, try_reserve(w) PROVE DiskInv'
  <1>1. PICK b \in Buffers :
          /\ pool.state[b] \in {"Free", "None"}
          /\ pool' = [pool EXCEPT !.state[b] = "Filled"]
          /\ work' = [work EXCEPT ![w] = [@ EXCEPT !.buf = b, !.place = "filled"]]
    BY DEF try_reserve, transition
  <1>2. work[w].place = "new" /\ lane' = lane BY DEF try_reserve
  <1>3. /\ pool' \in Pools /\ pool'.quarantined = pool.quarantined /\ pool'.state[b] = "Filled"
        /\ pool'.state \in [Buffers -> PoolStates]
        /\ \A c \in Buffers : c # b => pool'.state[c] = pool.state[c]
    BY <1>1, InvFacts DEF Pools, PoolStates
  <1>4. work[w] \in WriteCells /\ CellOK(work[w], pool.state) BY InvFacts
  <1>5. /\ Others(w) /\ work'[w].buf = b /\ work'[w].place = "filled" /\ work'[w].cancel = work[w].cancel
        /\ work'[w].told = work[w].told /\ work'[w].wrote = work[w].wrote /\ work'[w].result = work[w].result
    BY <1>1, <1>4, InvFacts DEF Others, WriteCells
  <1>6. b # NoBuffer BY DiskAssumption DEF NoBuffer
  <1>7. CellOK(work'[w], pool'.state) BY <1>2, <1>3, <1>4, <1>5, <1>6 DEF CellOK
  <1>8. \A v \in Writes : work[v].buf # work'[w].buf BY <1>5, <1>6, InvFacts, CellType, <1>1 DEF CellOK
  <1>9. CellsOK' /\ Apart' BY <1>3, <1>5, <1>7, <1>8, CellsMove
  <1>10. pool'.quarantined = Cardinality(Lost') BY <1>1, <1>3, InvFacts, LostMoves
  <1> QED BY <1>2, <1>3, <1>5, <1>9, <1>10, QuietMove

\* A lease that its caller gives up leaves the write without a buffer.
LEMMA GivenUpKeeps ==
  ASSUME DiskInv, NEW w \in Writes, Mine(w), lane' = lane,
         work' = [work EXCEPT ![w].buf = NoBuffer, ![w].place = "over"], pool' \in Pools,
         \A c \in Buffers : c # work[w].buf => pool'.state[c] = pool.state[c],
         pool'.quarantined = Cardinality(Lost')
  PROVE  DiskInv'
  <1>1. work[w].place \in {"filled", "received"} BY DEF Mine
  <1>2. work[w] \in WriteCells /\ CellOK(work[w], pool.state) BY InvFacts
  <1>3. /\ Others(w) /\ work'[w].buf = NoBuffer /\ work'[w].place = "over" /\ work'[w].cancel = work[w].cancel
        /\ work'[w].told = work[w].told /\ work'[w].wrote = work[w].wrote /\ work'[w].result = work[w].result
    BY <1>2, InvFacts DEF Others, WriteCells
  <1>4. CellOK(work'[w], pool'.state) BY <1>2, <1>3 DEF CellOK
  <1>5. CellsOK' /\ Apart' BY <1>3, <1>4, CellsMove
  <1> QED BY <1>1, <1>3, <1>5, QuietMove

\* A lease dropped without release leaves its buffer quarantined, or retired
\* when the quarantine is full.
LEMMA DropKeeps == ASSUME DiskInv, NEW w \in Writes, drop_lease(w) PROVE DiskInv'
  <1> DEFINE b == work[w].buf
  <1>1. /\ Mine(w) /\ pool' = quarantine_storage(pool, b) /\ lane' = lane
        /\ work' = [work EXCEPT ![w].buf = NoBuffer, ![w].place = "over"]
    BY DEF drop_lease
  <1>2. b \in Buffers /\ pool.state[b] # "Quarantined" BY InvFacts, CellType, <1>1 DEF Mine, Holds, CellOK
  <1> HIDE DEF b
  <1>3. CASE pool.quarantined < QuarantineBytes
    <2>1. pool' = [pool EXCEPT !.state[b] = "Quarantined", !.quarantined = @ + 1]
      BY <1>1, <1>3 DEF quarantine_storage
    <2>2. /\ pool' \in Pools /\ pool'.quarantined = pool.quarantined + 1 /\ pool'.state[b] = "Quarantined"
          /\ pool'.state \in [Buffers -> PoolStates]
          /\ \A c \in Buffers : c # b => pool'.state[c] = pool.state[c]
      <3> DEFINE q == pool.quarantined + 1
      <3>1. q \in Int /\ pool' = [pool EXCEPT !.state[b] = "Quarantined", !.quarantined = q] BY <2>1, InvFacts
      <3> HIDE DEF q
      <3>2. /\ pool' \in Pools /\ pool'.quarantined = q /\ pool'.state[b] = "Quarantined"
            /\ pool'.state \in [Buffers -> PoolStates]
            /\ \A c \in Buffers : c # b => pool'.state[c] = pool.state[c]
        BY <1>2, <3>1, InvFacts DEF Pools, PoolStates
      <3> QED BY <3>2 DEF q
    <2>3. pool'.quarantined = Cardinality(Lost') BY <1>2, <2>2, InvFacts, LostMoves
    <2> QED BY <1>1, <2>2, <2>3, GivenUpKeeps DEF b
  <1>4. CASE ~(pool.quarantined < QuarantineBytes)
    BY <1>1, <1>4, <1>2, InvFacts, LostMoves, GivenUpKeeps DEF quarantine_storage, Pools, PoolStates, b
  <1> QED BY <1>3, <1>4

\* A lease its holder releases returns the buffer to the pool.
LEMMA ReleaseKeeps == ASSUME DiskInv, NEW w \in Writes, release(w) PROVE DiskInv'
  <1> DEFINE b == work[w].buf
  <1>1. /\ Mine(w) /\ pool' = [pool EXCEPT !.state[b] = "Free"] /\ lane' = lane
        /\ work' = [work EXCEPT ![w].buf = NoBuffer, ![w].place = "over"]
    BY DEF release, transition
  <1>2. b \in Buffers /\ pool.state[b] # "Quarantined" BY InvFacts, CellType, <1>1 DEF Mine, Holds, CellOK
  <1> HIDE DEF b
  <1>3. /\ pool' \in Pools /\ pool'.quarantined = pool.quarantined /\ pool'.state[b] = "Free"
        /\ pool'.state \in [Buffers -> PoolStates]
        /\ \A c \in Buffers : c # b => pool'.state[c] = pool.state[c]
    BY <1>1, <1>2, InvFacts DEF Pools, PoolStates
  <1>4. pool'.quarantined = Cardinality(Lost') BY <1>2, <1>3, InvFacts, LostMoves
  <1> QED BY <1>1, <1>3, <1>4, GivenUpKeeps DEF b

\* A buffer that leaves quarantine is held by no write.
LEMMA QuarantineKeeps ==
  ASSUME DiskInv, NEW b \in Buffers, resolve_quarantine(b) \/ reap_quarantine(b)
  PROVE  DiskInv'
  <1>1. PICK s \in {"Free", "Retired"} :
          pool' = [pool EXCEPT !.state[b] = s, !.quarantined = @ - 1]
    BY DEF resolve_quarantine, reap_quarantine
  <1>2. pool.state[b] = "Quarantined" /\ lane' = lane /\ work' = work
    BY DEF resolve_quarantine, reap_quarantine
  <1>3. /\ pool' \in Pools /\ pool'.quarantined = pool.quarantined - 1 /\ pool'.state[b] = s
        /\ pool'.state \in [Buffers -> PoolStates]
        /\ \A c \in Buffers : c # b => pool'.state[c] = pool.state[c]
    <2> DEFINE q == pool.quarantined - 1
    <2>1. q \in Int /\ pool' = [pool EXCEPT !.state[b] = s, !.quarantined = q] /\ s \in PoolStates
      BY <1>1, InvFacts DEF PoolStates
    <2> HIDE DEF q
    <2>2. /\ pool' \in Pools /\ pool'.quarantined = q /\ pool'.state[b] = s
          /\ pool'.state \in [Buffers -> PoolStates]
          /\ \A c \in Buffers : c # b => pool'.state[c] = pool.state[c]
      BY <2>1, InvFacts DEF Pools
    <2> QED BY <2>2 DEF q
  <1>4. pool'.quarantined = Cardinality(Lost') BY <1>2, <1>3, InvFacts, LostMoves
  <1>5. CellsOK'
    <2> SUFFICES ASSUME NEW v \in Writes PROVE CellOK(work[v], pool'.state) BY <1>2 DEF CellsOK
    <2>1. CellOK(work[v], pool.state) /\ work[v].buf \in Buffers \cup {NoBuffer} BY InvFacts, CellType
    <2>2. work[v].place \in {"new", "over"} \/ work[v].buf \in Buffers BY <2>1 DEF CellOK
    <2>3. CASE work[v].place \in {"new", "over"} BY <2>1, <2>3 DEF CellOK
    <2>4. CASE work[v].buf \in Buffers /\ work[v].place \notin {"new", "over"}
      BY <2>4, InvFacts, CellType, <1>2, <2>1, <1>3 DEF CellOK
    <2> QED BY <2>2, <2>3, <2>4
  <1>6. Apart' /\ Queues' /\ Closing' /\ Named' /\ Promised' = Promised
    BY <1>2 DEF DiskInv, Apart, Queues, Closing, Named, Accepted, Promised
  <1>7. DiskTypes' BY <1>2, <1>3, InvFacts DEF DiskTypes
  <1>8. Counted' BY <1>2, <1>4, <1>6 DEF DiskInv, Counted
  <1> QED BY <1>5, <1>6, <1>7, <1>8 DEF DiskInv

\* The caller's answer follows the cell.
LEMMA CancelWriteKeeps == ASSUME DiskInv, NEW w \in Writes, cancel(w) PROVE DiskInv'
  <1> DEFINE c == work[w].cancel
             answer == CASE c = "Queued" -> "Requested" [] c = "Requested" -> "AlreadyRequested"
                         [] c = "Running" -> "TooLate" [] c = "Complete" -> "Complete"
             next == IF c = "Queued" THEN "Requested" ELSE c
  <1>1. /\ work[w].told = {} /\ pool' = pool /\ lane' = lane
        /\ work' = [work EXCEPT ![w].told = @ \cup {answer}, ![w].cancel = next]
    BY DEF cancel
  <1>2. work[w] \in WriteCells /\ CellOK(work[w], pool.state) /\ c \in {"Queued", "Requested", "Running", "Complete"}
    BY InvFacts, CellType
  <1>3. /\ answer \in {"Requested", "AlreadyRequested", "TooLate", "Complete"}
        /\ next \in {"Requested", "Running", "Complete"}
        /\ answer = "Requested" => c = "Queued" /\ next = "Requested"
        /\ answer = "TooLate" => c = "Running" /\ next = "Running"
        /\ c # "Queued" => next = c
        /\ c = "Queued" => next = "Requested"
    BY <1>2, Zenon
  <1> HIDE DEF answer, next
  <1>4. /\ Others(w) /\ work'[w].buf = work[w].buf /\ work'[w].place = work[w].place /\ work'[w].cancel = next
        /\ work'[w].told = {answer} /\ work'[w].wrote = work[w].wrote /\ work'[w].result = work[w].result
    <2> DEFINE T == {answer}
               Answers == {"Requested", "AlreadyRequested", "TooLate", "Complete"}
    <2>1. T \in SUBSET Answers /\ work' = [work EXCEPT ![w].told = T, ![w].cancel = next] BY <1>1, <1>3
    <2> HIDE DEF T
    <2>2. next \in {"Queued", "Requested", "Running", "Complete"} BY <1>3
    <2>3. /\ Others(w) /\ work'[w].buf = work[w].buf /\ work'[w].place = work[w].place
          /\ work'[w].cancel = next /\ work'[w].told = T /\ work'[w].wrote = work[w].wrote
          /\ work'[w].result = work[w].result
      BY <1>2, <2>1, <2>2, InvFacts DEF Others, WriteCells
    <2> QED BY <2>3 DEF T
  <1>5. CellOK(work'[w], pool'.state) BY <1>1, <1>2, <1>3, <1>4 DEF CellOK
  <1>6. CellsOK' /\ Apart' BY <1>1, <1>4, <1>5, CellsMove
  <1>7. pool'.quarantined = Cardinality(Lost') BY <1>1, InvFacts DEF Lost
  <1> QED BY <1>1, <1>4, <1>6, <1>7, InvFacts, QuietMove

\* A write that is under way holds a buffer that is not in quarantine.
LEMMA HeldBuffer ==
  ASSUME DiskInv, NEW w \in Writes, work[w].place \notin {"new", "over"}
  PROVE  work[w].buf \in Buffers /\ work[w].buf # NoBuffer /\ pool.state[work[w].buf] # "Quarantined"
  <1>1. CellOK(work[w], pool.state) /\ work[w].buf \in Buffers \cup {NoBuffer} BY InvFacts, CellType
  <1>2. work[w].buf # NoBuffer /\ work[w].buf \in Buffers BY <1>1 DEF CellOK
  <1>3. work[w].place \in {"filled", "reserved", "queued", "running", "written", "sent", "taken", "received"}
    BY InvFacts, CellType
  <1> QED BY <1>1, <1>2, <1>3 DEF CellOK

\* A transition of a buffer's state that does not concern the quarantine.
LEMMA PoolMoves ==
  ASSUME DiskInv, NEW b \in Buffers, NEW s \in PoolStates \ {"Quarantined"}, pool.state[b] # "Quarantined",
         pool' = transition(pool, b, s)
  PROVE  /\ pool' \in Pools /\ pool'.state[b] = s
         /\ \A c \in Buffers : c # b => pool'.state[c] = pool.state[c]
         /\ pool'.quarantined = Cardinality(Lost')
  <1>1. pool' = [pool EXCEPT !.state[b] = s] BY DEF transition
  <1>2. /\ pool' \in Pools /\ pool'.state[b] = s /\ pool'.quarantined = pool.quarantined
        /\ pool'.state \in [Buffers -> PoolStates]
        /\ \A c \in Buffers : c # b => pool'.state[c] = pool.state[c]
    BY <1>1, InvFacts DEF Pools
  <1>3. pool'.quarantined = Cardinality(Lost') BY <1>2, InvFacts, LostMoves
  <1> QED BY <1>2, <1>3

\* The pool and its count when no buffer moves.
LEMMA PoolStays == ASSUME DiskInv, pool' = pool PROVE pool' \in Pools /\ pool'.quarantined = Cardinality(Lost')
  <1>1. Lost' = Lost BY DEF Lost
  <1> QED BY <1>1, InvFacts

\* try_submit before the lane's lock: a place for the outcome.
LEMMA SubmitReserveKeeps == ASSUME DiskInv, NEW w \in Writes, submit_reserve(w) PROVE DiskInv'
  <1> DEFINE r == lane.reserved + 1
  <1>1. /\ work[w].place = "filled" /\ lane.accepting /\ pool' = pool
        /\ Len(lane.drain) + lane.reserved < CompletionCapacity
        /\ lane' = [lane EXCEPT !.reserved = r] /\ work' = [work EXCEPT ![w].place = "reserved"]
    BY DEF submit_reserve, DrainHasRoom
  <1>2. r \in Int BY InvFacts
  <1> HIDE DEF r
  <1>3. /\ lane' \in LaneStates(Identities) /\ lane'.reserved = r /\ lane'.drain = lane.drain
        /\ lane'.queue = lane.queue /\ lane'.aborting = lane.aborting /\ lane'.accepting = lane.accepting
        /\ lane'.stopping = lane.stopping /\ lane'.admission_closed = lane.admission_closed
        /\ lane'.receiver_closed = lane.receiver_closed
        /\ lane'.accepted_operations = lane.accepted_operations
    BY <1>1, <1>2, InvFacts DEF LaneStates
  <1>4. work[w] \in WriteCells /\ CellOK(work[w], pool.state) BY InvFacts
  <1>5. /\ Others(w) /\ work'[w].buf = work[w].buf /\ work'[w].place = "reserved"
        /\ work'[w].cancel = work[w].cancel /\ work'[w].told = work[w].told
        /\ work'[w].wrote = work[w].wrote /\ work'[w].result = work[w].result
    BY <1>1, <1>4, InvFacts DEF Others, WriteCells
  <1>6. CellOK(work'[w], pool'.state) BY <1>1, <1>4, <1>5 DEF CellOK
  <1>7. CellsOK' /\ Apart' BY <1>1, <1>5, <1>6, CellsMove
  <1>8. Queues'
    <2>1. /\ Lists(lane.queue, work', "queued") /\ Lists(lane.aborting, work', "queued")
          /\ Lists(lane.drain, work', "sent")
      BY <1>1, <1>5, InvFacts, ListKept
    <2>2. \A v \in Writes : work'[v].place = "sent" => work[v].place = "sent" BY <1>5 DEF Others
    <2> QED BY <1>3, <2>1, <2>2 DEF DiskInv, Queues
  <1>9. Closing' BY <1>1, InvFacts, LaneType, <1>3 DEF DiskInv, Closing
  <1>10. Named' BY <1>5, <1>3, NamedKept DEF Live
  <1>11. Counted'
    <2>1. work[w].place \notin Owed /\ work'[w].place \in Owed BY <1>1, <1>5 DEF Owed
    <2>2. Cardinality(Promised') = Cardinality(Promised) + 1 BY <1>5, <2>1, InvFacts, PromisedMoves
    <2>3. lane'.reserved = Cardinality(Promised') BY <1>3, <2>2, InvFacts DEF r
    <2>4. Len(lane'.drain) + lane'.reserved <= CompletionCapacity
      BY <1>1, <1>3, InvFacts, DiskAssumption DEF r
    <2> QED BY <1>1, <2>3, <2>4, PoolStays DEF Counted
  <1>12. DiskTypes' BY <1>1, <1>3, <1>5, PoolStays DEF DiskTypes, Others
  <1> QED BY <1>7, <1>8, <1>9, <1>10, <1>11, <1>12 DEF DiskInv

\* Refused under the lock: the place for the outcome is given back.
LEMMA SubmitRefusedKeeps ==
  ASSUME DiskInv, NEW w \in Writes, work[w].place = "reserved", pool' = pool,
         lane' = [lane EXCEPT !.reserved = @ - 1], work' = [work EXCEPT ![w].place = "filled"]
  PROVE  DiskInv'
  <1> DEFINE r == lane.reserved - 1
  <1>1. r \in Int /\ lane' = [lane EXCEPT !.reserved = r] BY InvFacts
  <1> HIDE DEF r
  <1>2. /\ lane' \in LaneStates(Identities) /\ lane'.reserved = r /\ lane'.drain = lane.drain
        /\ lane'.queue = lane.queue /\ lane'.aborting = lane.aborting /\ lane'.accepting = lane.accepting
        /\ lane'.stopping = lane.stopping /\ lane'.admission_closed = lane.admission_closed
        /\ lane'.receiver_closed = lane.receiver_closed
        /\ lane'.accepted_operations = lane.accepted_operations
    BY <1>1, InvFacts DEF LaneStates
  <1>3. work[w] \in WriteCells /\ CellOK(work[w], pool.state) BY InvFacts
  <1>4. /\ Others(w) /\ work'[w].buf = work[w].buf /\ work'[w].place = "filled"
        /\ work'[w].cancel = work[w].cancel /\ work'[w].told = work[w].told
        /\ work'[w].wrote = work[w].wrote /\ work'[w].result = work[w].result
    BY <1>3, InvFacts DEF Others, WriteCells
  <1>5. CellOK(work'[w], pool'.state) BY <1>3, <1>4 DEF CellOK
  <1>6. CellsOK' /\ Apart' BY <1>4, <1>5, CellsMove
  <1>7. Queues'
    <2>1. /\ Lists(lane.queue, work', "queued") /\ Lists(lane.aborting, work', "queued")
          /\ Lists(lane.drain, work', "sent")
      BY <1>4, InvFacts, ListKept
    <2>2. \A v \in Writes : work'[v].place = "sent" => work[v].place = "sent" BY <1>4 DEF Others
    <2> QED BY <1>2, <2>1, <2>2 DEF DiskInv, Queues
  <1>8. Closing' BY LaneType, <1>2 DEF DiskInv, Closing
  <1>9. Named' BY <1>4, <1>2, NamedKept DEF Live
  <1>10. Counted' BY <1>4, InvFacts, PromisedMoves, <1>2, DiskAssumption, PoolStays DEF Owed, r, Counted
  <1>11. DiskTypes' BY <1>2, <1>4, PoolStays DEF DiskTypes, Others
  <1> QED BY <1>6, <1>7, <1>8, <1>9, <1>10, <1>11 DEF DiskInv

\* Accepted under the lock: the identity was free and is now this write's.
LEMMA SubmitAcceptedKeeps ==
  ASSUME DiskInv, NEW w \in Writes, work[w].place = "reserved", lane.accepting,
         OperationId[w] \notin lane.accepted_operations,
         lane' = [lane EXCEPT !.queue = Append(@, w), !.accepted_operations = @ \cup {OperationId[w]}],
         work' = [work EXCEPT ![w].place = "queued"], pool' = transition(pool, work[w].buf, "DiskQueued")
  PROVE  DiskInv'
  <1> DEFINE q == Append(lane.queue, w)
             ops == lane.accepted_operations \cup {OperationId[w]}
             b == work[w].buf
  <1>1. lane' = [lane EXCEPT !.queue = q, !.accepted_operations = ops] OBVIOUS
  <1>2. work[w] \in WriteCells /\ CellOK(work[w], pool.state) BY InvFacts
  <1>3. /\ Others(w) /\ work'[w].buf = b /\ work'[w].place = "queued"
        /\ work'[w].cancel = work[w].cancel /\ work'[w].told = work[w].told
        /\ work'[w].wrote = work[w].wrote /\ work'[w].result = work[w].result
    BY <1>2, InvFacts DEF Others, WriteCells
  <1>4. q \in Seq(Writes) /\ Lists(q, work', "queued") BY <1>3, InvFacts, ListAppend
  <1>5. ops \in SUBSET Identities BY InvFacts, LaneType DEF Identities
  <1> HIDE DEF q, ops
  <1>6. /\ lane' \in LaneStates(Identities) /\ lane'.reserved = lane.reserved /\ lane'.drain = lane.drain
        /\ lane'.queue = q /\ lane'.aborting = lane.aborting /\ lane'.accepting = lane.accepting
        /\ lane'.stopping = lane.stopping /\ lane'.admission_closed = lane.admission_closed
        /\ lane'.receiver_closed = lane.receiver_closed /\ lane'.accepted_operations = ops
    BY <1>1, <1>4, <1>5, InvFacts DEF LaneStates
  <1>7. b \in Buffers /\ b # NoBuffer /\ pool.state[b] # "Quarantined" BY HeldBuffer
  <1>8. /\ pool' \in Pools /\ pool'.state[b] = "DiskQueued"
        /\ \A c \in Buffers : c # b => pool'.state[c] = pool.state[c]
        /\ pool'.quarantined = Cardinality(Lost')
    BY <1>7, PoolMoves DEF PoolStates
  <1> HIDE DEF b
  <1>9. CellOK(work'[w], pool'.state) BY <1>2, <1>3, <1>7, <1>8 DEF CellOK
  <1>10. CellsOK' /\ Apart' BY <1>3, <1>8, <1>9, CellsMove DEF b
  <1>11. Queues'
    <2>1. Lists(lane.drain, work', "sent") BY <1>3, InvFacts, ListKept
    <2>2. lane.aborting = << >> BY DEF DiskInv, Closing
    <2>3. \A v \in Writes : work'[v].place = "sent" => work[v].place = "sent" BY <1>3 DEF Others
    <2>4. Lists(lane'.aborting, work', "queued") BY <1>6, <2>2 DEF Lists
    <2>5. \A v \in Writes : work'[v].place = "sent" => \E i \in 1 .. Len(lane'.drain) : lane'.drain[i] = v
      BY <1>6, <2>3 DEF DiskInv, Queues
    <2>6. Lists(lane'.queue, work', "queued") /\ Lists(lane'.drain, work', "sent") BY <1>4, <1>6, <2>1
    <2> QED BY <2>4, <2>5, <2>6, Zenon DEF Queues
  <1>12. Closing' BY InvFacts, LaneType, <1>6 DEF DiskInv, Closing
  <1>13. Named' BY <1>3, <1>6 DEF Accepted, Others, DiskInv, Named, ops
  <1>14. Counted' BY <1>3, InvFacts, PromisedMoves, <1>6, <1>8 DEF Owed, Counted
  <1>15. DiskTypes' BY <1>3, <1>6, <1>8 DEF DiskTypes, Others
  <1> QED BY <1>10, <1>11, <1>12, <1>13, <1>14, <1>15 DEF DiskInv

\* try_submit under the lane's lock: the write is queued under its identity, or
\* its reservation is undone because the lane closed or filled in between.
LEMMA SubmitEnqueueKeeps == ASSUME DiskInv, NEW w \in Writes, submit_enqueue(w) PROVE DiskInv'
  BY SubmitAcceptedKeeps, SubmitRefusedKeeps DEF submit_enqueue, Admissible

\* A step of a write that is under way, stays owed its outcome and is not sent yet.
LEMMA WorkerMove ==
  ASSUME DiskInv, NEW w \in Writes, Others(w), CellsOK', Apart', pool' \in Pools,
         pool'.quarantined = Cardinality(Lost'), work[w].place \in {"queued", "running"},
         work'[w].place \in {"running", "written"}, NEW q \in Seq(Writes), Lists(q, work', "queued"),
         lane.stopping => q = << >>, Lists(lane.aborting, work', "queued"), lane' = [lane EXCEPT !.queue = q]
  PROVE  DiskInv'
  <1>1. /\ lane' \in LaneStates(Identities) /\ lane'.reserved = lane.reserved /\ lane'.drain = lane.drain
        /\ lane'.queue = q /\ lane'.aborting = lane.aborting /\ lane'.accepting = lane.accepting
        /\ lane'.stopping = lane.stopping /\ lane'.admission_closed = lane.admission_closed
        /\ lane'.receiver_closed = lane.receiver_closed
        /\ lane'.accepted_operations = lane.accepted_operations
    BY InvFacts DEF LaneStates
  <1>2. Queues' BY InvFacts, ListKept, <1>1 DEF Others, DiskInv, Queues
  <1>3. Closing' BY LaneType, <1>1 DEF DiskInv, Closing
  <1>4. Named' BY <1>1, NamedKept DEF Live
  <1>5. Counted' BY InvFacts, PromisedMoves, <1>1 DEF Owed, Counted
  <1>6. DiskTypes' BY <1>1 DEF DiskTypes, Others
  <1> QED BY <1>2, <1>3, <1>4, <1>5, <1>6 DEF DiskInv

\* A worker takes the oldest queued write.
LEMMA NextWorkKeeps == DiskInv /\ next_work => DiskInv'
  <1> SUFFICES ASSUME DiskInv, next_work PROVE DiskInv' OBVIOUS
  <1> DEFINE w == Head(lane.queue)
             q == Tail(lane.queue)
  <1>1. /\ ~lane.stopping /\ lane.queue # << >> /\ pool' = pool
        /\ lane' = [lane EXCEPT !.queue = q] /\ work' = [work EXCEPT ![w].place = "running"]
    BY DEF next_work
  <1>2. w \in Writes /\ work[w].place = "queued" /\ q \in Seq(Writes) /\ (Others(w) => Lists(q, work', "queued"))
    BY <1>1, InvFacts, ListTail
  <1> HIDE DEF w, q
  <1>3. work[w] \in WriteCells /\ CellOK(work[w], pool.state) BY <1>2, InvFacts
  <1>4. /\ Others(w) /\ work'[w].buf = work[w].buf /\ work'[w].place = "running"
        /\ work'[w].cancel = work[w].cancel /\ work'[w].told = work[w].told
        /\ work'[w].wrote = work[w].wrote /\ work'[w].result = work[w].result
    BY <1>1, <1>2, <1>3, InvFacts DEF Others, WriteCells
  <1>5. CellOK(work'[w], pool'.state) BY <1>1, <1>2, <1>3, <1>4 DEF CellOK
  <1>6. CellsOK' /\ Apart' BY <1>1, <1>2, <1>4, <1>5, CellsMove
  <1>7. lane.aborting = << >> /\ Lists(lane.aborting, work', "queued")
    <2>1. lane.accepting BY <1>1, InvFacts, LaneType DEF DiskInv, Closing
    <2>2. lane.aborting = << >> BY <2>1 DEF DiskInv, Closing
    <2> QED BY <2>2 DEF Lists
  <1> QED BY <1>1, <1>2, <1>4, <1>6, <1>7, PoolStays, WorkerMove

\* The cell of a write that has its outcome.
LEMMA FinishedCell ==
  ASSUME DiskTypes, NEW w \in Writes, NEW result \in {"Ok", "Err", "Cancelled", "Aborted"},
         work' = [work EXCEPT ![w].cancel = "Complete", ![w].result = result, ![w].place = "sent"]
  PROVE  /\ Others(w) /\ work'[w].buf = work[w].buf /\ work'[w].place = "sent"
         /\ work'[w].cancel = "Complete" /\ work'[w].told = work[w].told
         /\ work'[w].wrote = work[w].wrote /\ work'[w].result = result
  <1>1. work \in [Writes -> WriteCells] /\ work[w] \in WriteCells BY DEF DiskTypes
  <1>2. result \in {"none", "Ok", "Err", "Cancelled", "Aborted"} OBVIOUS
  <1> QED BY <1>1, <1>2 DEF Others, WriteCells

\* The outcome of a write takes the place that was kept for it.
LEMMA FinishWriteKeeps ==
  ASSUME DiskInv, NEW w \in Writes, work[w].place \in {"queued", "running", "written"},
         NEW result \in {"Ok", "Err", "Cancelled", "Aborted"}, NEW s \in {"DiskDone", "Releasable"},
         result = "Cancelled" => work[w].cancel # "Running",
         work' = [work EXCEPT ![w].cancel = "Complete", ![w].result = result, ![w].place = "sent"],
         pool' = transition(pool, work[w].buf, s),
         lane' \in LaneStates(Identities), lane'.reserved = lane.reserved - 1, lane'.drain = Append(lane.drain, w),
         lane'.queue = lane.queue, lane'.accepting = lane.accepting, lane'.stopping = lane.stopping,
         lane'.admission_closed = lane.admission_closed, lane'.receiver_closed = lane.receiver_closed,
         lane'.accepted_operations = lane.accepted_operations,
         Others(w) => Lists(lane.queue, work', "queued") /\ Lists(lane'.aborting, work', "queued"),
         lane.accepting => lane'.aborting = << >>
  PROVE  DiskInv'
  <1> DEFINE b == work[w].buf
  <1>1. work[w] \in WriteCells /\ CellOK(work[w], pool.state) BY InvFacts
  <1>2. /\ Others(w) /\ work'[w].buf = b /\ work'[w].place = "sent"
        /\ work'[w].cancel = "Complete" /\ work'[w].told = work[w].told
        /\ work'[w].wrote = work[w].wrote /\ work'[w].result = result
    BY InvFacts, FinishedCell
  <1>3. b \in Buffers /\ b # NoBuffer /\ pool.state[b] # "Quarantined" BY HeldBuffer
  <1>4. /\ pool' \in Pools /\ pool'.state[b] = s
        /\ \A c \in Buffers : c # b => pool'.state[c] = pool.state[c]
        /\ pool'.quarantined = Cardinality(Lost')
    BY <1>3, PoolMoves DEF PoolStates
  <1> HIDE DEF b
  <1>5. result = "Cancelled" => "TooLate" \notin work[w].told BY <1>1 DEF CellOK
  <1>6. CellOK(work'[w], pool'.state) BY <1>1, <1>2, <1>3, <1>4, <1>5 DEF CellOK
  <1>7. CellsOK' /\ Apart' BY <1>2, <1>4, <1>6, CellsMove DEF b
  <1>8. /\ Len(lane'.drain) = Len(lane.drain) + 1 /\ Lists(lane'.drain, work', "sent")
        /\ lane'.drain[Len(lane.drain) + 1] = w
        /\ \A i \in 1 .. Len(lane.drain) : lane'.drain[i] = lane.drain[i]
    <2>1. work[w].place # "sent" OBVIOUS
    <2> DEFINE d == lane.drain
               t == Append(d, w)
    <2>2. d \in Seq(Writes) /\ Lists(d, work, "sent") /\ lane'.drain = t BY InvFacts
    <2> HIDE DEF d
    <2>3. /\ Len(t) = Len(d) + 1 /\ Lists(t, work', "sent") /\ t[Len(d) + 1] = w
          /\ \A i \in 1 .. Len(d) : t[i] = d[i]
      BY <1>2, <2>1, <2>2, ListAppend
    <2> HIDE DEF t
    <2> QED BY <2>2, <2>3 DEF d
  <1>9. Queues'
    <2>1. \A v \in Writes : work'[v].place = "sent" => \E i \in 1 .. Len(lane'.drain) : lane'.drain[i] = v
      <3> SUFFICES ASSUME NEW v \in Writes, work'[v].place = "sent"
                   PROVE  \E i \in 1 .. Len(lane'.drain) : lane'.drain[i] = v
        OBVIOUS
      <3>1. Len(lane.drain) \in Nat BY InvFacts
      <3>2. CASE v = w BY <1>8, <3>1, <3>2
      <3>3. CASE v # w
        <4>1. work[v].place = "sent" BY <1>2, <3>3 DEF Others
        <4>2. PICK i \in 1 .. Len(lane.drain) : lane.drain[i] = v BY <4>1 DEF DiskInv, Queues
        <4>3. i \in 1 .. Len(lane'.drain) /\ lane'.drain[i] = v BY <1>8, <3>1, <4>2
        <4> QED BY <4>3
      <3> QED BY <3>2, <3>3
    <2> QED BY <1>2, <1>8, <2>1 DEF Queues
  <1>10. Closing' BY LaneType DEF DiskInv, Closing
  <1>11. Named' BY <1>2, NamedKept DEF Live
  <1>12. Counted' BY <1>2, InvFacts, PromisedMoves, <1>8, <1>4 DEF Owed, Counted
  <1>13. DiskTypes' BY <1>2, <1>4 DEF DiskTypes, Others
  <1> QED BY <1>7, <1>9, <1>10, <1>11, <1>12, <1>13 DEF DiskInv

\* The lane after an outcome was sent.
LEMMA SentLane ==
  ASSUME DiskInv, NEW w \in Writes, NEW l, l = lane \/ \E q \in Seq(Writes) : l = [lane EXCEPT !.aborting = q],
         lane' = [l EXCEPT !.reserved = @ - 1, !.drain = Append(@, w)]
  PROVE  /\ lane' \in LaneStates(Identities) /\ lane'.reserved = lane.reserved - 1
         /\ lane'.drain = Append(lane.drain, w) /\ lane'.queue = lane.queue /\ lane'.aborting = l.aborting
         /\ lane'.accepting = lane.accepting /\ lane'.stopping = lane.stopping
         /\ lane'.admission_closed = lane.admission_closed /\ lane'.receiver_closed = lane.receiver_closed
         /\ lane'.accepted_operations = lane.accepted_operations
  <1>1. /\ l \in LaneStates(Identities) /\ l.reserved = lane.reserved /\ l.drain = lane.drain /\ l.queue = lane.queue
        /\ l.accepting = lane.accepting /\ l.stopping = lane.stopping
        /\ l.admission_closed = lane.admission_closed /\ l.receiver_closed = lane.receiver_closed
        /\ l.accepted_operations = lane.accepted_operations
    BY InvFacts DEF LaneStates
  <1> DEFINE r == lane.reserved - 1
             d == Append(lane.drain, w)
  <1>2. r \in Int /\ d \in Seq(Writes) /\ lane' = [l EXCEPT !.reserved = r, !.drain = d] BY <1>1, InvFacts
  <1> HIDE DEF r, d
  <1>3. /\ lane' \in LaneStates(Identities) /\ lane'.reserved = r
        /\ lane'.drain = d /\ lane'.queue = l.queue /\ lane'.aborting = l.aborting
        /\ lane'.accepting = l.accepting /\ lane'.stopping = l.stopping
        /\ lane'.admission_closed = l.admission_closed /\ lane'.receiver_closed = l.receiver_closed
        /\ lane'.accepted_operations = l.accepted_operations
    BY <1>1, <1>2 DEF LaneStates
  <1> QED BY <1>1, <1>3 DEF r, d

\* A worker that ends its write: claimed and returned, or cancelled before it began.
LEMMA WorkerFinishes ==
  ASSUME DiskInv, NEW w \in Writes, work[w].place \in {"running", "written"},
         NEW result \in {"Ok", "Err", "Cancelled"}, NEW s \in {"DiskDone", "Releasable"},
         result = "Cancelled" => work[w].cancel # "Running",
         pool' = transition(pool, work[w].buf, s),
         work' = finish(work, lane, w, result).work, lane' = finish(work, lane, w, result).lane
  PROVE  DiskInv'
  <1>1. /\ work' = [work EXCEPT ![w].cancel = "Complete", ![w].result = result, ![w].place = "sent"]
        /\ lane' = [lane EXCEPT !.reserved = @ - 1, !.drain = Append(@, w)]
    BY DEF finish
  <1>2. /\ lane' \in LaneStates(Identities) /\ lane'.reserved = lane.reserved - 1
        /\ lane'.drain = Append(lane.drain, w) /\ lane'.queue = lane.queue /\ lane'.aborting = lane.aborting
        /\ lane'.accepting = lane.accepting /\ lane'.stopping = lane.stopping
        /\ lane'.admission_closed = lane.admission_closed /\ lane'.receiver_closed = lane.receiver_closed
        /\ lane'.accepted_operations = lane.accepted_operations
    BY <1>1, SentLane
  <1>3. work[w].place # "queued" OBVIOUS
  <1>4. Others(w) => Lists(lane.queue, work', "queued") /\ Lists(lane'.aborting, work', "queued")
    BY <1>2, <1>3, InvFacts, ListKept
  <1>5. lane.accepting => lane'.aborting = << >> BY <1>2 DEF DiskInv, Closing
  <1>6. /\ work[w].place \in {"queued", "running", "written"}
        /\ result \in {"Ok", "Err", "Cancelled", "Aborted"}
    OBVIOUS
  <1> QED BY <1>1, <1>2, <1>4, <1>5, <1>6, FinishWriteKeeps

\* A worker claims the write's cell and starts, or finds it cancelled.
LEMMA ExecuteKeeps == ASSUME DiskInv, NEW w \in Writes, execute_work(w) PROVE DiskInv'
  <1> DEFINE b == work[w].buf
  <1>1. work[w].place = "running" BY DEF execute_work
  <1>2. work[w] \in WriteCells /\ CellOK(work[w], pool.state) BY InvFacts
  <1>3. work[w].cancel \in {"Queued", "Requested"} BY <1>1, <1>2 DEF CellOK
  <1>4. CASE claim_for_worker(w)
    <2>1. /\ work[w].cancel = "Queued" /\ lane' = lane /\ pool' = transition(pool, b, "DiskInFlight")
          /\ work' = [work EXCEPT ![w].cancel = "Running", ![w].place = "written", ![w].wrote = TRUE]
      BY <1>4 DEF execute_work, claim_for_worker
    <2>2. /\ Others(w) /\ work'[w].buf = b /\ work'[w].place = "written"
          /\ work'[w].cancel = "Running" /\ work'[w].told = work[w].told
          /\ work'[w].wrote = TRUE /\ work'[w].result = work[w].result
      BY <1>2, <2>1, InvFacts DEF Others, WriteCells
    <2>3. b \in Buffers /\ b # NoBuffer /\ pool.state[b] # "Quarantined" BY <1>1, HeldBuffer
    <2>4. /\ pool' \in Pools /\ pool'.state[b] = "DiskInFlight"
          /\ \A c \in Buffers : c # b => pool'.state[c] = pool.state[c]
          /\ pool'.quarantined = Cardinality(Lost')
      BY <2>1, <2>3, PoolMoves DEF PoolStates
    <2> HIDE DEF b
    <2>5. CellOK(work'[w], pool'.state) BY <1>2, <2>1, <2>2, <2>3, <2>4 DEF CellOK
    <2>6. CellsOK' /\ Apart' BY <2>2, <2>4, <2>5, CellsMove DEF b
    <2>7. Lists(lane.queue, work', "queued") /\ Lists(lane.aborting, work', "queued")
      BY <1>1, <2>2, InvFacts, ListKept
    <2>8. lane' = [lane EXCEPT !.queue = lane.queue] /\ (lane.stopping => lane.queue = << >>)
      BY InvFacts, <2>1 DEF LaneStates, DiskInv, Closing
    <2> QED BY <1>1, <2>2, <2>4, <2>6, <2>7, <2>8, InvFacts, WorkerMove
  <1>5. CASE ~claim_for_worker(w) BY <1>5, <1>1, <1>3, WorkerFinishes DEF execute_work
  <1> QED BY <1>4, <1>5

\* The system call returns; the outcome goes where the reservation was.
LEMMA WriteReturnsKeeps == ASSUME DiskInv, NEW w \in Writes, write_returns(w) PROVE DiskInv'
  <1>1. PICK result \in {"Ok", "Err"} :
          /\ pool' = transition(pool, work[w].buf, "DiskDone")
          /\ work' = finish(work, lane, w, result).work /\ lane' = finish(work, lane, w, result).lane
    BY DEF write_returns
  <1>2. work[w].place \in {"running", "written"} /\ result \in {"Ok", "Err", "Cancelled"} /\ result # "Cancelled"
    BY DEF write_returns
  <1> QED BY <1>1, <1>2, WorkerFinishes

\* What shutdown aborts was queued, and nothing else is any more.
LEMMA AbortKeeps == DiskInv /\ abort_queued => DiskInv'
  <1> SUFFICES ASSUME DiskInv, abort_queued PROVE DiskInv' OBVIOUS
  <1> DEFINE w == Head(lane.aborting)
             q == Tail(lane.aborting)
             l == [lane EXCEPT !.aborting = q]
  <1>1. /\ lane.admission_closed /\ lane.aborting # << >> /\ pool' = transition(pool, work[w].buf, "Releasable")
        /\ work' = [work EXCEPT ![w].cancel = "Complete", ![w].result = "Aborted", ![w].place = "sent"]
        /\ lane' = [l EXCEPT !.reserved = @ - 1, !.drain = Append(@, w)]
    BY DEF abort_queued, finish
  <1>2. w \in Writes /\ work[w].place = "queued" /\ q \in Seq(Writes) /\ (Others(w) => Lists(q, work', "queued"))
    BY <1>1, InvFacts, ListTail
  <1> HIDE DEF w, q
  <1>3. l.aborting = q BY InvFacts DEF LaneStates
  <1>4. l = lane \/ \E p \in Seq(Writes) : l = [lane EXCEPT !.aborting = p] BY <1>2
  <1> HIDE DEF l
  <1>5. /\ lane' \in LaneStates(Identities) /\ lane'.reserved = lane.reserved - 1
        /\ lane'.drain = Append(lane.drain, w) /\ lane'.queue = lane.queue /\ lane'.aborting = q
        /\ lane'.accepting = lane.accepting /\ lane'.stopping = lane.stopping
        /\ lane'.admission_closed = lane.admission_closed /\ lane'.receiver_closed = lane.receiver_closed
        /\ lane'.accepted_operations = lane.accepted_operations
    BY <1>1, <1>2, <1>3, <1>4, SentLane
  <1>6. lane.stopping /\ ~lane.accepting /\ lane.queue = << >>
    BY <1>1, InvFacts, LaneType DEF DiskInv, Closing
  <1>7. Others(w) => Lists(lane.queue, work', "queued") /\ Lists(lane'.aborting, work', "queued")
    BY <1>2, <1>5, <1>6 DEF Lists
  <1>8. /\ work[w].place \in {"queued", "running", "written"} /\ "Aborted" # "Cancelled"
        /\ "Aborted" \in {"Ok", "Err", "Cancelled", "Aborted"} /\ "Releasable" \in {"DiskDone", "Releasable"}
    BY <1>2
  <1> QED BY <1>1, <1>2, <1>5, <1>6, <1>7, <1>8, FinishWriteKeeps

\* try_recv: the oldest outcome is taken; its identity is forgotten later.
LEMMA RecvKeeps == DiskInv /\ try_recv => DiskInv'
  <1> SUFFICES ASSUME DiskInv, try_recv PROVE DiskInv' OBVIOUS
  <1> DEFINE d == lane.drain
             w == Head(d)
             t == Tail(d)
  <1>1. /\ d # << >> /\ pool' = pool /\ lane' = [lane EXCEPT !.drain = t]
        /\ work' = [work EXCEPT ![w].place = "taken"]
    BY DEF try_recv
  <1>2. d \in Seq(Writes) /\ Lists(d, work, "sent") BY InvFacts
  <1>3. /\ w \in Writes /\ work[w].place = "sent" /\ t \in Seq(Writes) /\ Len(t) = Len(d) - 1 /\ d[1] = w
        /\ \A i \in 1 .. (Len(d) - 1) : t[i] = d[i + 1]
        /\ Others(w) => Lists(t, work', "sent")
    <2> HIDE DEF d
    <2> QED BY <1>1, <1>2, ListTail
  <1> HIDE DEF w, t
  <1>4. /\ lane' \in LaneStates(Identities) /\ lane'.reserved = lane.reserved /\ lane'.drain = t
        /\ lane'.queue = lane.queue /\ lane'.aborting = lane.aborting /\ lane'.accepting = lane.accepting
        /\ lane'.stopping = lane.stopping /\ lane'.admission_closed = lane.admission_closed
        /\ lane'.receiver_closed = lane.receiver_closed
        /\ lane'.accepted_operations = lane.accepted_operations
    BY <1>1, <1>3, InvFacts DEF LaneStates
  <1>5. work[w] \in WriteCells /\ CellOK(work[w], pool.state) BY <1>3, InvFacts
  <1>6. /\ Others(w) /\ work'[w].buf = work[w].buf /\ work'[w].place = "taken"
        /\ work'[w].cancel = work[w].cancel /\ work'[w].told = work[w].told
        /\ work'[w].wrote = work[w].wrote /\ work'[w].result = work[w].result
    BY <1>1, <1>3, <1>5, InvFacts DEF Others, WriteCells
  <1>7. CellOK(work'[w], pool'.state) BY <1>1, <1>3, <1>5, <1>6 DEF CellOK
  <1>8. CellsOK' /\ Apart' BY <1>1, <1>3, <1>6, <1>7, CellsMove
  <1>9. Queues'
    <2>1. Lists(lane.queue, work', "queued") /\ Lists(lane.aborting, work', "queued") /\ Lists(t, work', "sent")
      BY <1>3, <1>6, InvFacts, ListKept
    <2>2. \A v \in Writes : work'[v].place = "sent" => \E i \in 1 .. Len(t) : t[i] = v
      <3> SUFFICES ASSUME NEW v \in Writes, work'[v].place = "sent" PROVE \E i \in 1 .. Len(t) : t[i] = v
        OBVIOUS
      <3>1. v # w /\ work[v].place = "sent" BY <1>6 DEF Others
      <3>2. PICK i \in 1 .. Len(d) : d[i] = v BY <3>1 DEF DiskInv, Queues
      <3> DEFINE j == i - 1
      <3>3. Len(d) \in Nat /\ i # 1 /\ j \in 1 .. (Len(d) - 1) /\ j + 1 = i
        <4>1. Len(d) \in Nat /\ i # 1 BY <1>2, <1>3, <3>1, <3>2
        <4> HIDE DEF d
        <4> QED BY <3>2, <4>1
      <3> HIDE DEF j, d
      <3>4. j \in 1 .. Len(t) /\ t[j] = v BY <1>3, <3>2, <3>3
      <3> QED BY <3>4
    <2> QED BY <1>4, <2>1, <2>2 DEF Queues
  <1>10. Closing' BY <1>3, LaneType, <1>4 DEF DiskInv, Closing
  <1>11. Named' BY <1>3, <1>4, <1>6, NamedKept DEF Live
  <1>12. Counted'
    <2>1. work[w].place \notin Owed /\ work'[w].place \notin Owed BY <1>3, <1>6 DEF Owed
    <2>2. Cardinality(Promised') = Cardinality(Promised) BY <1>3, <1>6, <2>1, InvFacts, PromisedMoves
    <2>3. Len(lane'.drain) + lane'.reserved <= CompletionCapacity
      <3>1. Len(d) + lane.reserved <= CompletionCapacity /\ Len(d) \in Nat /\ lane.reserved \in Nat
        BY InvFacts
      <3> HIDE DEF d
      <3> QED BY <1>3, <1>4, <3>1, DiskAssumption
    <2> QED BY <1>1, <1>4, <2>2, <2>3, InvFacts, PoolStays DEF Counted
  <1>13. DiskTypes' BY <1>1, <1>4, <1>6, PoolStays DEF DiskTypes, Others
  <1> QED BY <1>8, <1>9, <1>10, <1>11, <1>12, <1>13 DEF DiskInv

\* The identity of a received outcome is nobody else's.
LEMMA ForgetKeeps == ASSUME DiskInv, NEW w \in Writes, forget_operation(w) PROVE DiskInv'
  <1> DEFINE ops == lane.accepted_operations \ {OperationId[w]}
  <1>1. /\ work[w].place = "taken" /\ pool' = pool /\ lane' = [lane EXCEPT !.accepted_operations = ops]
        /\ work' = [work EXCEPT ![w].place = "received"]
    BY DEF forget_operation
  <1>2. ops \in SUBSET Identities BY InvFacts, LaneType
  <1> HIDE DEF ops
  <1>3. /\ lane' \in LaneStates(Identities) /\ lane'.reserved = lane.reserved /\ lane'.drain = lane.drain
        /\ lane'.queue = lane.queue /\ lane'.aborting = lane.aborting /\ lane'.accepting = lane.accepting
        /\ lane'.stopping = lane.stopping /\ lane'.admission_closed = lane.admission_closed
        /\ lane'.receiver_closed = lane.receiver_closed /\ lane'.accepted_operations = ops
    BY <1>1, <1>2, InvFacts DEF LaneStates
  <1>4. work[w] \in WriteCells /\ CellOK(work[w], pool.state) BY InvFacts
  <1>5. /\ Others(w) /\ work'[w].buf = work[w].buf /\ work'[w].place = "received"
        /\ work'[w].cancel = work[w].cancel /\ work'[w].told = work[w].told
        /\ work'[w].wrote = work[w].wrote /\ work'[w].result = work[w].result
    BY <1>1, <1>4, InvFacts DEF Others, WriteCells
  <1>6. CellOK(work'[w], pool'.state) BY <1>1, <1>4, <1>5 DEF CellOK
  <1>7. CellsOK' /\ Apart' BY <1>1, <1>5, <1>6, CellsMove
  <1>8. Queues'
    <2>1. /\ Lists(lane.queue, work', "queued") /\ Lists(lane.aborting, work', "queued")
          /\ Lists(lane.drain, work', "sent")
      BY <1>1, <1>5, InvFacts, ListKept
    <2>2. \A v \in Writes : work'[v].place = "sent" => work[v].place = "sent" BY <1>5 DEF Others
    <2> QED BY <1>3, <2>1, <2>2 DEF DiskInv, Queues
  <1>9. Closing' BY <1>1, LaneType, <1>3 DEF DiskInv, Closing
  <1>10. Named' BY <1>5, <1>1, <1>3 DEF Accepted, Others, DiskInv, Named, ops
  <1>11. Counted' BY <1>1, <1>5, InvFacts, PromisedMoves, <1>3, PoolStays DEF Owed, Counted
  <1>12. DiskTypes' BY <1>1, <1>3, <1>5, PoolStays DEF DiskTypes, Others
  <1> QED BY <1>7, <1>8, <1>9, <1>10, <1>11, <1>12 DEF DiskInv

\* The steps of a shutdown that move no write.
LEMMA ClosingKeeps ==
  ASSUME DiskInv, work' = work, pool' = pool, lane' \in LaneStates(Identities), lane'.reserved = lane.reserved,
         lane'.drain = lane.drain, lane'.accepted_operations = lane.accepted_operations,
         Lists(lane'.queue, work, "queued"), Lists(lane'.aborting, work, "queued"), Closing'
  PROVE  DiskInv'
  <1>1. CellsOK' /\ Apart' /\ Named' /\ Promised' = Promised
    BY DEF DiskInv, CellsOK, Apart, Named, Accepted, Promised
  <1>2. DiskTypes' BY InvFacts DEF DiskTypes
  <1>3. Queues' BY DEF DiskInv, Queues
  <1>4. Counted' BY <1>1, InvFacts, PoolStays DEF Counted
  <1> QED BY <1>1, <1>2, <1>3, <1>4 DEF DiskInv

\* begin_shutdown: nothing more is accepted and what is queued is to be aborted.
LEMMA BeginShutdownKeeps == DiskInv /\ begin_shutdown => DiskInv'
  <1> SUFFICES ASSUME DiskInv, begin_shutdown PROVE DiskInv' OBVIOUS
  <1>1. /\ ~lane.stopping /\ pool' = pool /\ work' = work
        /\ lane' = [lane EXCEPT !.accepting = FALSE, !.stopping = TRUE, !.queue = << >>, !.aborting = lane.queue]
    BY DEF begin_shutdown
  <1>2. << >> \in Seq(Writes) OBVIOUS
  <1>3. /\ lane' \in LaneStates(Identities) /\ lane'.reserved = lane.reserved /\ lane'.drain = lane.drain
        /\ lane'.queue = << >> /\ lane'.aborting = lane.queue /\ lane'.accepting = FALSE
        /\ lane'.stopping = TRUE /\ lane'.admission_closed = lane.admission_closed
        /\ lane'.receiver_closed = lane.receiver_closed
        /\ lane'.accepted_operations = lane.accepted_operations
    BY <1>1, <1>2, InvFacts DEF LaneStates
  <1>4. Closing' BY <1>1, <1>3 DEF DiskInv, Closing
  <1>5. Lists(lane'.queue, work, "queued") /\ Lists(lane'.aborting, work, "queued")
    BY <1>3, InvFacts DEF Lists
  <1> QED BY <1>1, <1>3, <1>4, <1>5, ClosingKeeps

\* begin_shutdown, next: the completion queue promises no more places.
LEMMA CloseAdmissionKeeps == DiskInv /\ close_admission => DiskInv'
  <1> SUFFICES ASSUME DiskInv, close_admission PROVE DiskInv' OBVIOUS
  <1>1. lane.stopping /\ pool' = pool /\ work' = work /\ lane' = [lane EXCEPT !.admission_closed = TRUE]
    BY DEF close_admission
  <1>2. /\ lane' \in LaneStates(Identities) /\ lane'.reserved = lane.reserved /\ lane'.drain = lane.drain
        /\ lane'.queue = lane.queue /\ lane'.aborting = lane.aborting /\ lane'.accepting = lane.accepting
        /\ lane'.stopping = lane.stopping /\ lane'.receiver_closed = lane.receiver_closed
        /\ lane'.accepted_operations = lane.accepted_operations
    BY <1>1, InvFacts DEF LaneStates
  <1>3. Closing' BY <1>1, <1>2 DEF DiskInv, Closing
  <1> QED BY <1>1, <1>2, <1>3, InvFacts, ClosingKeeps

\* The receiver closes only when no outcome can come any more.
LEMMA FinishCloseKeeps == DiskInv /\ finish_close => DiskInv'
  <1> SUFFICES ASSUME DiskInv, finish_close PROVE DiskInv' OBVIOUS
  <1>1. /\ lane.admission_closed /\ lane.drain = << >> /\ (\A w \in Writes : work[w].place # "taken")
        /\ ~lane.receiver_closed /\ pool' = pool /\ work' = work
        /\ lane' = IF lane.reserved = 0 /\ Running = {} THEN [lane EXCEPT !.receiver_closed = TRUE]
                   ELSE [lane EXCEPT !.detached = TRUE]
    BY DEF finish_close
  <1>2. /\ lane' \in LaneStates(Identities) /\ lane'.reserved = lane.reserved /\ lane'.drain = lane.drain
        /\ lane'.queue = lane.queue /\ lane'.aborting = lane.aborting /\ lane'.accepting = lane.accepting
        /\ lane'.stopping = lane.stopping /\ lane'.admission_closed = lane.admission_closed
        /\ lane'.accepted_operations = lane.accepted_operations
        /\ lane'.receiver_closed => lane.reserved = 0
    BY <1>1, InvFacts DEF LaneStates
  <1>3. Closing'
    <2>1. lane.stopping BY <1>1 DEF DiskInv, Closing
    <2>2. ASSUME lane'.receiver_closed
          PROVE  \A w \in Writes : work[w].place \notin {"reserved", "queued", "running", "written", "sent", "taken"}
      <3>1. Promised = {} BY <1>2, <2>2, InvFacts, CountedFinite, FS_EmptySet
      <3>2. \A w \in Writes : work[w].place \notin {"reserved", "queued", "running", "written"}
        BY <3>1 DEF Promised
      <3>3. \A w \in Writes : work[w].place # "sent" BY <1>1 DEF DiskInv, Queues
      <3> QED BY <1>1, <3>2, <3>3
    <2> QED BY <1>1, <1>2, <2>1, <2>2 DEF DiskInv, Closing
  <1> QED BY <1>1, <1>2, <1>3, InvFacts, ClosingKeeps

\* Every step of the lane keeps the invariant.
LEMMA DiskNextInv == DiskInv /\ [DiskNext]_diskVars => DiskInv'
  <1> SUFFICES ASSUME DiskInv, [DiskNext]_diskVars PROVE DiskInv' OBVIOUS
  <1>1. CASE UNCHANGED diskVars BY <1>1, InvFacts, ClosingKeeps DEF diskVars, DiskInv, Closing
  <1>2. ASSUME NEW w \in Writes,
               \/ try_reserve(w) \/ drop_lease(w) \/ release(w) \/ submit_reserve(w) \/ submit_enqueue(w)
               \/ cancel(w) \/ execute_work(w) \/ write_returns(w) \/ forget_operation(w)
        PROVE  DiskInv'
    BY <1>2, ReserveKeeps, DropKeeps, ReleaseKeeps, SubmitReserveKeeps, SubmitEnqueueKeeps, CancelWriteKeeps,
       ExecuteKeeps, WriteReturnsKeeps, ForgetKeeps, Zenon
  <1>3. ASSUME NEW b \in Buffers, resolve_quarantine(b) \/ reap_quarantine(b)
        PROVE  DiskInv'
    BY <1>3, QuarantineKeeps, Zenon
  <1> QED
    BY <1>1, <1>2, <1>3, NextWorkKeeps, RecvKeeps, BeginShutdownKeeps, CloseAdmissionKeeps, AbortKeeps,
       FinishCloseKeeps, Zenon DEF DiskNext

\* The invariant is inductive: it holds of every reachable state of the lane.
THEOREM DiskInvariance == DiskSpec => []DiskInv
  BY InitDisk, DiskNextInv, PTL DEF DiskSpec

\* The invariant implies what the run checks.
LEMMA InvIsSound == DiskInv => DiskSound
  <1> SUFFICES ASSUME DiskInv PROVE BuffersHeldOnce /\ OutcomesDelivered BY DEF DiskSound
  <1>1. \A w \in Writes : /\ CellOK(work[w], pool.state)
                          /\ Holds(w) <=> work[w].place \notin {"new", "over"}
    BY InvFacts DEF Holds, CellOK
  <1>2. BuffersHeldOnce
    <2>1. \A v, w \in Writes : v # w /\ Holds(v) => work[v].buf # work[w].buf BY DEF DiskInv, Apart, Holds
    <2>2. \A w \in Writes : Holds(w) => pool.state[work[w].buf] \notin {"None", "Free", "Quarantined", "Retired"}
      BY <1>1, InvFacts, CellType DEF CellOK
    <2>3. \A w \in Writes : work[w].place = "written" => Holds(w) /\ pool.state[work[w].buf] = "DiskInFlight"
      BY <1>1 DEF CellOK
    <2> QED BY <2>1, <2>2, <2>3, InvFacts DEF BuffersHeldOnce, Lost
  <1>3. OutcomesDelivered
    BY <1>1, InvFacts DEF CellOK, DiskInv, Named, Closing, Accepted, OutcomesDelivered, Promised
  <1> QED BY <1>2, <1>3

\* For any number of writes, buffers and workers and any capacities: whatever
\* order submissions, cancellations, workers, receivers and a shutdown take
\* the two locks in, a buffer is in one place, an answer to a cancellation is
\* true, and every accepted write has a place for its outcome.
THEOREM DiskLaneSound == DiskSpec => []DiskSound
  BY DiskInvariance, InvIsSound, PTL

-----------------------------------------------------------------------------
(* The services together: a behaviour is one of a single part.             *)

\* The inductive invariant of the part a behaviour is about.
ServicesInv ==
  /\ part = "stop" => StopInv
  /\ part = "open" => OpenInv
  /\ part = "backup" => BackupInv
  /\ part = "owner" => OwnerInv
  /\ part = "sink" => SinkInv
  /\ part = "native" => NativeInv

\* The invariants hold initially.
LEMMA InitServices == ServicesInit => ServicesInv
  <1> SUFFICES ASSUME ServicesInit PROVE ServicesInv OBVIOUS
  <1>1. /\ part = "stop" => StopInit
        /\ part = "open" => OpenInit
        /\ part = "backup" => BackupInit
        /\ part = "owner" => OwnerInit
        /\ part = "sink" => SinkInit
        /\ part = "native" => NativeInit
    BY Zenon DEF ServicesInit
  <1> QED
    BY <1>1, InitStops, InitOpen, InitBackup, InitOwner, InitSink, NativeInitInv, Zenon DEF ServicesInv

\* A step is one of the behaviour's part; the others stand still.
LEMMA PartSteps ==
  ASSUME [ServicesNext]_servicesVars
  PROVE  /\ part' = part
         /\ part = "stop" => [StopNext]_stop
         /\ IF part = "open" THEN [OpenNext]_openVars ELSE UNCHANGED openVars
         /\ part = "backup" => [BackupNext]_backupVars
         /\ IF part = "owner" THEN [OwnerNext]_ownerVars ELSE UNCHANGED ownerVars
         /\ part = "sink" => [SinkNext]_sinkVars
         /\ IF part = "native" THEN [NativeNext]_nativeVars ELSE UNCHANGED nativeVars
  <1>1. CASE ServicesNext BY <1>1, Zenon DEF ServicesNext
  <1>2. CASE UNCHANGED servicesVars BY <1>2 DEF servicesVars
  <1> QED BY <1>1, <1>2

\* Every step keeps the invariants.
LEMMA ServicesNextInv == ServicesInv /\ [ServicesNext]_servicesVars => ServicesInv'
  <1> SUFFICES ASSUME ServicesInv, [ServicesNext]_servicesVars PROVE ServicesInv' OBVIOUS
  <1>0. part' = part BY PartSteps
  <1>2. part = "stop" => StopInv' BY PartSteps, StopNextInv DEF ServicesInv
  <1>3. part = "open" => OpenInv' BY PartSteps, OpenNextInv DEF ServicesInv
  <1>4. part = "backup" => BackupInv' BY PartSteps, BackupNextInv DEF ServicesInv
  <1>5. part = "owner" => OwnerInv' BY PartSteps, OwnerNextInv DEF ServicesInv
  <1>6. part = "sink" => SinkInv' BY PartSteps, SinkNextInv DEF ServicesInv
  <1>7. part = "native" => NativeInv' BY PartSteps, NativeNextInv DEF ServicesInv
  <1> QED BY <1>0, <1>2, <1>3, <1>4, <1>5, <1>6, <1>7, Zenon DEF ServicesInv

\* Every reachable state of every service satisfies its inductive invariant.
THEOREM ServicesInvariance == ServicesSpec => []ServicesInv
  BY InitServices, ServicesNextInv, PTL DEF ServicesSpec

\* A session recorded as cleanly shut down was: every step before the record
\* succeeded in time, the journals are closed and the owner is gone, wherever the
\* process is killed and whatever fails or is late (process_bootstrap.rs).
THEOREM ShutdownIsClean == ServicesSpec => [](part = "stop" => CleanMeansClosed)
  <1>1. ServicesInv => (part = "stop" => CleanMeansClosed) BY StopIsClean DEF ServicesInv
  <1> QED BY <1>1, ServicesInvariance, PTL

\* What is found to be the version of the session database is what SQLite will
\* find when it replays the same files, one process has it open at a time, and a
\* published backup is whole and survives a power loss once reported
\* (session_store.rs).
THEOREM SessionFilesAreSound == ServicesSpec => []SessionFilesSound
  <1>1. ServicesInv => SessionFilesSound BY OpenIsSound, BackupIsSound DEF ServicesInv, SessionFilesSound
  <1> QED BY <1>1, ServicesInvariance, PTL

\* The effect sink tells the scheduler what the owner did and no plan serves two
\* effects, a start gives every task the one journal its row names, and nobody
\* waits for an owner that has gone (effect_sink.rs, startup_native.rs,
\* session_owner.rs).
THEOREM EffectsAreSound == ServicesSpec => []EffectsSound
  <1>1. ServicesInv => EffectsSound
    BY SinkIsTrue, NativeIsSound DEF ServicesInv, EffectsSound, OwnerInv, ClosedAcceptsNothing
  <1> QED BY <1>1, ServicesInvariance, PTL

\* Steps that never happen: a database of another build rewritten, journals
\* closed by halves, a journal pointer turned back or turned to a candidate that
\* is not whole (session_store.rs, session_owner.rs, startup_native.rs).
THEOREM StepsNeverTaken == ServicesSpec => NeverStepped
  <1>1. ServicesInv /\ [ServicesNext]_servicesVars =>
          [main # None /\ recovered.version # 0 =>
             \/ UNCHANGED <<main, wal, rollback>>
             \/ \E p \in Openers : at[p] = "connect" /\ Supports[p] = recovered.version
                                  /\ recovered'.version = recovered.version]_openVars
    BY PartSteps, OpenNextInv DEF ServicesInv
  <1>2. ServicesInv /\ [ServicesNext]_servicesVars => [CloseHolds]_ownerVars
    BY PartSteps, OwnerNextInv DEF ServicesInv
  <1>3. ServicesInv /\ [ServicesNext]_servicesVars =>
          [\A g \in StartTasks : pointer[g] # pointer'[g] => pointer'[g] = "new" /\ The(intent[g]).valid]_nativeVars
    BY PartSteps, NativeNextInv DEF ServicesInv
  <1>4. NeverStepped <=> ForeignUntouched /\ [][CloseHolds]_ownerVars /\ PointerOnlyForward
    BY DEF NeverStepped, CloseAnswersHold, CloseHolds
  <1> QED
    BY <1>1, <1>2, <1>3, <1>4, ServicesInvariance, PTL DEF ServicesSpec, ForeignUntouched, PointerOnlyForward

=============================================================================
