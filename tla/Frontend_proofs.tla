---------------------------- MODULE Frontend_proofs ----------------------------
(***************************************************************************)
(* The session database keeps what it promises, for every set of tasks,    *)
(* journals, keys and options (SessionStore, SessionDatabase).  A command  *)
(* is one transaction; the lemmas say what each leaves of the rows that    *)
(* were there, from the change of one row up to a whole command, and the   *)
(* theorems put them together for FrontendSpec.                            *)
(*                                                                         *)
(* The BitTorrent lane and its bandwidth shares follow (BtBridge): what    *)
(* holds of one torrent is an invariant of its records alone, each handler *)
(* keeps it, and a step of one torrent leaves the others as they are.      *)
(***************************************************************************)
EXTENDS MCFrontend, FiniteSetTheorems, TLAPS

\* Optional values.
LEMMA Options ==
  /\ ~Is(None)
  /\ \A x : Is(Some(x)) /\ The(Some(x)) = x /\ Some(x) # None
  /\ \A x, y : Some(x) = Some(y) => x = y
  BY DEF Is, None, Some, The

Maybe(S) == {None} \cup {Some(x) : x \in S}

\* A value that is there is one of its kind.
LEMMA MaybeFacts ==
  ASSUME NEW S, NEW o \in Maybe(S), Is(o)
  PROVE  The(o) \in S /\ o = Some(The(o))
  BY Options DEF Maybe, Is

---------------------------------------------------------------------------------
\* The rows of the database.

RowFields == {"kind", "queue", "pos", "paused", "slow", "demotions", "journal", "layout", "root", "noSpace",
              "created", "sources", "current", "staged", "challenge", "install", "result", "bt"}
IsRow(r) == r = [f \in RowFields |-> r[f]]
\* Rows r and s agree on every field outside F.
Agree(r, s, F) == \A f \in RowFields \ F : s[f] = r[f]

Intents == [old : Journals, new : Journals, phase : {"Installing", "Installed"}]
Asks == [gid : Gids, generation : 0..MaxGenerations, request : 1..2, setup : 0..1]
TorrentShapes == [generation : 0..MaxGenerations, saved : 0..MaxGenerations, request : {0, 1, 2, NoRequest},
              blob : Maybe(Asks), dirty : BOOLEAN, binding : BtBindings]
TorrentRecords == {t \in TorrentShapes : bt_row_valid(t)}

InstallOK(install, journal) ==
  /\ install \in Maybe(Intents)
  /\ Is(install) =>
       /\ The(install).old # The(install).new
       /\ journal = Some(IF The(install).phase = "Installing" THEN The(install).old ELSE The(install).new)
PlaceOK(r) ==
  /\ r.kind \in {"Transfer", "BitTorrent"}
  /\ r.queue \in Queues
  /\ r.slow \in {None, Some(0)}
  /\ r.created \in Times
ResultOK(r) ==
  /\ (r.queue = "Stopped") <=> Is(r.result)
  /\ Is(r.result) => validate_stopped_result(The(r.result))
RowOK(r) ==
  /\ IsRow(r)
  /\ PlaceOK(r)
  /\ TaskTable(r)
  /\ ResultOK(r)
  /\ Is(r.challenge) => r.queue = "Paused"
  /\ \A s \in r.sources : source_ok(s)
  /\ InstallOK(r.install, r.journal)
  /\ r.bt \in Maybe(TorrentRecords)
  /\ (r.kind = "BitTorrent") <=> Is(r.bt)

\* A row keeps its other fields when one of them is replaced.
LEMMA RowExcept ==
  ASSUME NEW r, IsRow(r), NEW f \in RowFields, NEW v
  PROVE  /\ IsRow([r EXCEPT ![f] = v])
         /\ [r EXCEPT ![f] = v][f] = v
         /\ Agree(r, [r EXCEPT ![f] = v], {f})
  BY DEF IsRow, Agree

\* Two changes of a row touch only what either touches.
LEMMA AgreeTwice ==
  ASSUME NEW r, NEW s, NEW t, NEW F, NEW G, NEW H, Agree(r, s, F), Agree(s, t, G), F \subseteq H, G \subseteq H
  PROVE  Agree(r, t, H)
  BY DEF Agree

\* What the commands on the queues and on a row's own columns may write.
PlaceFields == {"queue", "pos", "paused", "demotions", "slow", "challenge", "result", "noSpace", "layout", "root"}

\* A row stays sound when only its place and its own columns are written and the table's checks hold.
LEMMA RowPlaced ==
  ASSUME NEW r, RowOK(r), NEW s, IsRow(s), Agree(r, s, PlaceFields), PlaceOK(s), TaskTable(s), ResultOK(s),
         Is(s.challenge) => s.queue = "Paused"
  PROVE  RowOK(s)
  <1>1. s.kind = r.kind /\ s.sources = r.sources /\ s.journal = r.journal /\ s.install = r.install /\ s.bt = r.bt
    BY DEF Agree, RowFields, PlaceFields
  <1> QED BY <1>1 DEF RowOK

\* A row that only moves up or down in its queue.
LEMMA RowShifted ==
  ASSUME NEW r, RowOK(r), NEW s, IsRow(s), Agree(r, s, {"pos"})
  PROVE  RowOK(s)
  <1>1. /\ s.kind = r.kind /\ s.queue = r.queue /\ s.paused = r.paused /\ s.slow = r.slow
        /\ s.demotions = r.demotions /\ s.journal = r.journal /\ s.layout = r.layout /\ s.root = r.root
        /\ s.noSpace = r.noSpace /\ s.created = r.created /\ s.sources = r.sources
        /\ s.challenge = r.challenge /\ s.install = r.install /\ s.result = r.result /\ s.bt = r.bt
    BY DEF Agree, RowFields
  <1> QED BY <1>1 DEF RowOK, PlaceOK, TaskTable, ResultOK

---------------------------------------------------------------------------------
\* Databases.

DbShape(d) ==
  /\ d = [session |-> d.session, tasks |-> d.tasks]
  /\ Is(d.session)
  /\ d.tasks = [g \in DOMAIN d.tasks |-> d.tasks[g]]
  /\ DOMAIN d.tasks \subseteq Gids
  /\ \A g \in DOMAIN d.tasks : IsRow(d.tasks[g])
RowsOK(d) == DbShape(d) /\ \A g \in DOMAIN d.tasks : RowOK(d.tasks[g])
DbOK(d) == RowsOK(d) /\ validate_dense_queues(d)

\* d with the rows of its tasks replaced.
Holding(d, T) == [session |-> d.session, tasks |-> T]

\* What the database holds after its rows are replaced.
LEMMA HoldingFacts ==
  ASSUME NEW d, NEW T
  PROVE  Holding(d, T).tasks = T /\ Holding(d, T).session = d.session
  BY DEF Holding

\* Replacing the rows leaves the session.
LEMMA SetTasks ==
  ASSUME NEW d, DbShape(d), NEW T
  PROVE  [d EXCEPT !.tasks = T] = Holding(d, T)
  BY DEF DbShape, Holding

\* Replacing one column of one row.
LEMMA SetField ==
  ASSUME NEW d, DbShape(d), NEW g \in DOMAIN d.tasks, NEW f, NEW v
  PROVE  [d EXCEPT !.tasks[g][f] = v] = Holding(d, [d.tasks EXCEPT ![g] = [d.tasks[g] EXCEPT ![f] = v]])
  BY DEF DbShape, Holding

\* Rows of the right shape make a database of the right shape.
LEMMA HoldingShape ==
  ASSUME NEW d, DbShape(d), NEW T, T = [g \in DOMAIN T |-> T[g]], DOMAIN T \subseteq Gids,
         \A g \in DOMAIN T : IsRow(T[g])
  PROVE  DbShape(Holding(d, T))
  <1>1. Holding(d, T).tasks = T /\ Holding(d, T).session = d.session BY HoldingFacts
  <1> QED BY <1>1 DEF DbShape, Holding

\* e is d with rows at other places of their queues.
Repositioned(d, e) ==
  /\ DbShape(e)
  /\ e.session = d.session
  /\ DOMAIN e.tasks = DOMAIN d.tasks
  /\ \A h \in DOMAIN d.tasks : Agree(d.tasks[h], e.tasks[h], {"pos"})
Shifts(d, T) ==
  /\ T = [g \in DOMAIN d.tasks |-> T[g]]
  /\ \A g \in DOMAIN d.tasks : T[g] = d.tasks[g] \/ \E p : T[g] = [d.tasks[g] EXCEPT !.pos = p]

\* Writing places only, as the UPDATEs of position do, repositions the rows.
LEMMA RepositionedBy ==
  ASSUME NEW d, DbShape(d), NEW T, Shifts(d, T)
  PROVE  Repositioned(d, [d EXCEPT !.tasks = T])
  <1>1. ASSUME NEW g \in DOMAIN d.tasks PROVE IsRow(T[g]) /\ Agree(d.tasks[g], T[g], {"pos"})
    <2>1. IsRow(d.tasks[g]) BY DEF DbShape
    <2>2. CASE T[g] = d.tasks[g] BY <2>1, <2>2 DEF Agree
    <2>3. ASSUME NEW p, T[g] = [d.tasks[g] EXCEPT !.pos = p] PROVE IsRow(T[g]) /\ Agree(d.tasks[g], T[g], {"pos"})
      BY <2>1, RowExcept, <2>3 DEF RowFields
    <2> QED BY <2>2, <2>3 DEF Shifts
  <1>2. DOMAIN T = DOMAIN d.tasks /\ T = [g \in DOMAIN T |-> T[g]] BY DEF Shifts
  <1>3. DbShape(Holding(d, T)) BY <1>1, <1>2, HoldingShape DEF DbShape
  <1> QED BY <1>1, <1>2, <1>3, SetTasks, HoldingFacts DEF Repositioned

\* Opening and closing a gap in a queue repositions rows.
LEMMA GapsReposition ==
  ASSUME NEW d, DbShape(d), NEW q, NEW i
  PROVE  Repositioned(d, OpenGap(d, q, i)) /\ Repositioned(d, CloseGap(d, q, i))
  <1> DEFINE T == [g \in DOMAIN d.tasks |-> IF d.tasks[g].queue = q /\ d.tasks[g].pos >= i
                                            THEN [d.tasks[g] EXCEPT !.pos = @ + 1] ELSE d.tasks[g]]
             U == [g \in DOMAIN d.tasks |-> IF d.tasks[g].queue = q /\ d.tasks[g].pos > i
                                            THEN [d.tasks[g] EXCEPT !.pos = @ - 1] ELSE d.tasks[g]]
  <1>1. \A g \in DOMAIN d.tasks : T[g] = d.tasks[g] \/ \E p : T[g] = [d.tasks[g] EXCEPT !.pos = p] OBVIOUS
  <1>2. \A g \in DOMAIN d.tasks : U[g] = d.tasks[g] \/ \E p : U[g] = [d.tasks[g] EXCEPT !.pos = p] OBVIOUS
  <1>3. T = [g \in DOMAIN d.tasks |-> T[g]] /\ U = [g \in DOMAIN d.tasks |-> U[g]] OBVIOUS
  <1>4. OpenGap(d, q, i) = [d EXCEPT !.tasks = T] /\ CloseGap(d, q, i) = [d EXCEPT !.tasks = U]
    BY DEF OpenGap, CloseGap
  <1>5. Shifts(d, T) /\ Shifts(d, U) BY <1>1, <1>2, <1>3, Zenon DEF Shifts
  <1> HIDE DEF T, U
  <1> QED BY <1>4, <1>5, RepositionedBy

\* So does the shift of the neighbours inside one queue.
LEMMA ShiftRepositions ==
  ASSUME NEW d, DbShape(d), NEW q, NEW i, NEW j
  PROVE  Repositioned(d, ShiftWithin(d, q, i, j))
  <1> DEFINE T == [g \in DOMAIN d.tasks |-> LET row == d.tasks[g] IN
                     IF row.queue # q THEN row
                     ELSE IF j < i /\ row.pos >= j /\ row.pos < i THEN [row EXCEPT !.pos = @ + 1]
                     ELSE IF j > i /\ row.pos > i /\ row.pos <= j THEN [row EXCEPT !.pos = @ - 1]
                     ELSE row]
  <1>1. \A g \in DOMAIN d.tasks : T[g] = d.tasks[g] \/ \E p : T[g] = [d.tasks[g] EXCEPT !.pos = p] OBVIOUS
  <1>3. T = [g \in DOMAIN d.tasks |-> T[g]] OBVIOUS
  <1>4. ShiftWithin(d, q, i, j) = [d EXCEPT !.tasks = T] BY DEF ShiftWithin
  <1>5. Shifts(d, T) BY <1>1, <1>3, Zenon DEF Shifts
  <1> HIDE DEF T
  <1> QED BY <1>4, <1>5, RepositionedBy

\* Two repositionings are one.
LEMMA RepositionedTwice ==
  ASSUME NEW d, NEW e, NEW f, Repositioned(d, e), Repositioned(e, f)
  PROVE  Repositioned(d, f)
  BY DEF Repositioned, Agree

\* Nothing moved is a repositioning too.
LEMMA RepositionedSame ==
  ASSUME NEW d, DbShape(d)
  PROVE  Repositioned(d, d)
  BY DEF Repositioned, Agree

\* Repositioned rows stay sound.
LEMMA RepositionedRows ==
  ASSUME NEW d, NEW e, RowsOK(d), Repositioned(d, e)
  PROVE  RowsOK(e)
  BY RowShifted DEF RowsOK, Repositioned, DbShape

\* One row is written.
LEMMA RowWritten ==
  ASSUME NEW d, DbShape(d), NEW g \in Gids, NEW s, IsRow(s)
  PROVE  /\ DbShape(Row(d, g, s))
         /\ Row(d, g, s).session = d.session
         /\ DOMAIN Row(d, g, s).tasks = DOMAIN d.tasks \cup {g}
         /\ Row(d, g, s).tasks[g] = s
         /\ \A h \in DOMAIN d.tasks \ {g} : Row(d, g, s).tasks[h] = d.tasks[h]
  <1> DEFINE T == Put(d.tasks, g, s)
  <1>1. /\ T = [h \in DOMAIN T |-> T[h]] /\ DOMAIN T = DOMAIN d.tasks \cup {g}
        /\ T[g] = s /\ \A h \in DOMAIN d.tasks \ {g} : T[h] = d.tasks[h]
    BY DEF Put
  <1>2. Row(d, g, s) = Holding(d, T) BY SetTasks DEF Row
  <1> HIDE DEF T
  <1>3. DOMAIN T \subseteq Gids /\ \A h \in DOMAIN T : IsRow(T[h]) BY <1>1 DEF DbShape
  <1>4. DbShape(Holding(d, T)) BY <1>1, <1>3, HoldingShape
  <1> QED BY <1>1, <1>2, <1>4, HoldingFacts

\* A task moves: the new row is the old one at another place.
MoveFields == {"queue", "pos", "paused", "demotions", "slow"}

\* What transition_task_queue writes into the row of the task it moves.
LEMMA RowMoved ==
  ASSUME NEW r, IsRow(r), NEW to, NEW pos, NEW paused, NEW demotions, NEW slow
  PROVE  LET s == Moved(r, to, pos, paused, demotions, slow)
         IN IsRow(s) /\ Agree(r, s, MoveFields) /\ s.queue = to /\ s.pos = pos /\ s.slow = slow
            /\ s.paused = paused /\ s.demotions = demotions
  BY DEF Moved, IsRow, Agree, RowFields, MoveFields

\* The outcome of a move of g that the table's checks accepted.
Transits(d, e, g, from, to, slow) ==
  /\ g \in DOMAIN d.tasks
  /\ DbShape(e)
  /\ e.session = d.session
  /\ DOMAIN e.tasks = DOMAIN d.tasks
  /\ \A h \in DOMAIN d.tasks \ {g} : Agree(d.tasks[h], e.tasks[h], {"pos"})
  /\ Agree(d.tasks[g], e.tasks[g], MoveFields)
  /\ d.tasks[g].queue = from /\ e.tasks[g].queue = to /\ e.tasks[g].slow = slow
  /\ TaskTable(e.tasks[g])
  /\ Is(d.tasks[g].challenge) /\ from = "Paused" => to = "Paused"

\* What the CHECK clauses let through satisfies them.
LEMMA WrittenFacts ==
  ASSUME NEW d, NEW S, NEW now, NEW e \in Written(d, S, now)
  PROVE  e = d /\ \A g \in S : TaskTable(d.tasks[g])
  BY DEF Written

\* transition_task_queue_in_transaction moves the task and repositions the others.
LEMMA TransitionMoves ==
  ASSUME NEW d, DbShape(d), NEW g, NEW from, NEW to, NEW pos, NEW paused, NEW demotions, NEW slow, NEW now,
         NEW e \in transition_task_queue_in_transaction(d, g, from, to, pos, paused, demotions, slow, now)
  PROVE  Transits(d, e, g, from, to, slow)
  <1> DEFINE old == d.tasks[g]
             shifted == IF from = to THEN ShiftWithin(d, to, old.pos, pos)
                        ELSE OpenGap(CloseGap(d, from, old.pos), to, pos)
             touched == {h \in DOMAIN d.tasks : shifted.tasks[h] # d.tasks[h]} \cup {g}
             row == Moved(old, to, pos, paused, demotions, slow)
             f == Row(shifted, g, row)
  <1>1. /\ g \in DOMAIN d.tasks /\ old.queue = from /\ ~reject_retained_host_key_departure(d, g, from, to)
        /\ e \in Written(f, touched, now)
    BY DEF transition_task_queue_in_transaction
  <1>2. Repositioned(d, shifted)
    <2>1. CASE from = to BY <2>1, ShiftRepositions
    <2>2. CASE from # to
      <3>1. Repositioned(d, CloseGap(d, from, old.pos)) BY GapsReposition
      <3>2. DbShape(CloseGap(d, from, old.pos)) BY <3>1 DEF Repositioned
      <3>3. Repositioned(CloseGap(d, from, old.pos), OpenGap(CloseGap(d, from, old.pos), to, pos))
        BY <3>2, GapsReposition
      <3> QED BY <2>2, <3>1, <3>3, RepositionedTwice
    <2> QED BY <2>1, <2>2
  <1> HIDE DEF shifted
  <1>3. e = f /\ TaskTable(f.tasks[g]) BY <1>1, WrittenFacts
  <1>4. g \in Gids /\ DbShape(shifted) /\ DOMAIN shifted.tasks = DOMAIN d.tasks /\ shifted.session = d.session
    BY <1>1, <1>2 DEF Repositioned, DbShape
  <1>5. IsRow(row) /\ Agree(old, row, MoveFields) /\ row.queue = to /\ row.slow = slow
    BY <1>1, RowMoved DEF DbShape
  <1> HIDE DEF row
  <1>6. /\ DbShape(f) /\ f.session = shifted.session /\ DOMAIN f.tasks = DOMAIN shifted.tasks \cup {g} /\ f.tasks[g] = row
        /\ \A h \in DOMAIN shifted.tasks \ {g} : f.tasks[h] = shifted.tasks[h]
    BY <1>4, <1>5, RowWritten
  <1> HIDE DEF f
  <1>7. \A h \in DOMAIN d.tasks \ {g} : Agree(d.tasks[h], e.tasks[h], {"pos"})
    BY <1>2, <1>3, <1>4, <1>6 DEF Repositioned
  <1>8. Is(d.tasks[g].challenge) /\ from = "Paused" => to = "Paused"
    BY <1>1 DEF reject_retained_host_key_departure
  <1> QED BY <1>1, <1>3, <1>4, <1>5, <1>6, <1>7, <1>8 DEF Transits

\* So does apply_exact_queue_transition_in_transaction, by the orders the caller names.
LEMMA ExactMoves ==
  ASSUME NEW d, DbShape(d), NEW g, NEW from, NEW to, NEW paused, NEW demotions, NEW slow, NEW orders, NEW now,
         NEW e \in apply_exact_queue_transition(d, g, from, to, paused, demotions, slow, orders, now)
  PROVE  Transits(d, e, g, from, to, slow)
  <1> DEFINE row == Moved(d.tasks[g], to, 0, paused, demotions, slow)
             moved == Row(d, g, row)
             Placed(h) == (CHOOSE i \in DOMAIN orders[moved.tasks[h].queue] : orders[moved.tasks[h].queue][i] = h) - 1
             touched == Members(moved, from) \cup Members(moved, to)
             T == [h \in DOMAIN d.tasks |->
                     IF h \in touched THEN [moved.tasks[h] EXCEPT !.pos = Placed(h)] ELSE moved.tasks[h]]
             f == [moved EXCEPT !.tasks = T]
  <1>1. /\ g \in DOMAIN d.tasks /\ d.tasks[g].queue = from /\ ~reject_retained_host_key_departure(d, g, from, to)
        /\ e \in Written(f, touched, now)
    BY DEF apply_exact_queue_transition
  <1>2. g \in Gids /\ IsRow(d.tasks[g]) BY <1>1 DEF DbShape
  <1>3. IsRow(row) /\ Agree(d.tasks[g], row, MoveFields) /\ row.queue = to /\ row.slow = slow
    BY <1>2, RowMoved
  <1> HIDE DEF row
  <1>4. /\ DbShape(moved) /\ moved.session = d.session /\ DOMAIN moved.tasks = DOMAIN d.tasks /\ moved.tasks[g] = row
        /\ \A h \in DOMAIN d.tasks \ {g} : moved.tasks[h] = d.tasks[h]
    <2>1. DOMAIN d.tasks \cup {g} = DOMAIN d.tasks BY <1>1
    <2>2. /\ DbShape(moved) /\ moved.session = d.session /\ DOMAIN moved.tasks = DOMAIN d.tasks \cup {g}
          /\ moved.tasks[g] = row /\ \A h \in DOMAIN d.tasks \ {g} : moved.tasks[h] = d.tasks[h]
      BY <1>2, <1>3, RowWritten
    <2> QED BY <2>1, <2>2
  <1> HIDE DEF moved
  <1>5. Shifts(moved, T)
    <2> HIDE DEF Placed, touched
    <2>1. T = [h \in DOMAIN moved.tasks |-> T[h]] BY <1>4
    <2>2. \A h \in DOMAIN moved.tasks : T[h] = moved.tasks[h] \/ T[h] = [moved.tasks[h] EXCEPT !.pos = Placed(h)]
      BY <1>4
    <2> QED BY <2>1, <2>2, Zenon DEF Shifts
  <1>6. Repositioned(moved, f) BY <1>4, <1>5, RepositionedBy
  <1>7. g \in touched BY <1>1, <1>3, <1>4 DEF Members
  <1> HIDE DEF touched, f
  <1>8. e = f /\ TaskTable(f.tasks[g]) BY <1>1, <1>7, WrittenFacts
  <1>9. Agree(moved.tasks[g], f.tasks[g], {"pos"}) /\ f.tasks[g].queue = to /\ f.tasks[g].slow = slow
    BY <1>1, <1>3, <1>4, <1>6 DEF Repositioned, Agree, RowFields
  <1>10. Agree(d.tasks[g], f.tasks[g], MoveFields) BY <1>3, <1>4, <1>9, AgreeTwice DEF MoveFields
  <1>11. \A h \in DOMAIN d.tasks \ {g} : Agree(d.tasks[h], e.tasks[h], {"pos"})
    BY <1>4, <1>6, <1>8 DEF Repositioned
  <1>12. Is(d.tasks[g].challenge) /\ from = "Paused" => to = "Paused"
    BY <1>1 DEF reject_retained_host_key_departure
  <1> QED BY <1>1, <1>4, <1>6, <1>8, <1>9, <1>10, <1>11, <1>12 DEF Transits, Repositioned

---------------------------------------------------------------------------------
\* What a command may do to the rows that were there.

\* The journal pointer of a row changes as its install intent says.
RowFollows(r, s) ==
  /\ s.journal # r.journal =>
       /\ Is(r.install)
       /\ The(r.install).phase = "Installing"
       /\ r.journal = Some(The(r.install).old)
       /\ s.journal = Some(The(r.install).new)
\* No row's journal, options or torrent is touched, and a new row is no torrent.
Still(d, e) ==
  /\ DOMAIN d.tasks \subseteq DOMAIN e.tasks
  /\ \A g \in DOMAIN d.tasks : Agree(d.tasks[g], e.tasks[g], PlaceFields)
  /\ \A g \in DOMAIN e.tasks \ DOMAIN d.tasks : ~Is(e.tasks[g].bt)
\* The command leaves a sound database, follows its history and leaves the
\* torrents alone.
Kept(d, e) ==
  /\ DbOK(e)
  /\ DOMAIN d.tasks \subseteq DOMAIN e.tasks
  /\ \A g \in DOMAIN d.tasks : RowFollows(d.tasks[g], e.tasks[g]) /\ e.tasks[g].bt = d.tasks[g].bt
  /\ \A g \in DOMAIN e.tasks \ DOMAIN d.tasks : ~Is(e.tasks[g].bt)

\* A row whose journal, options and torrent stay follows its history.
LEMMA AgreeFollows ==
  ASSUME NEW r, NEW s, Agree(r, s, PlaceFields)
  PROVE  RowFollows(r, s) /\ s.bt = r.bt
  <1>1. s.journal = r.journal /\ s.current = r.current /\ s.staged = r.staged /\ s.bt = r.bt
    BY DEF Agree, RowFields, PlaceFields
  <1> QED BY <1>1, Zenon DEF RowFollows

\* A sound database whose rows were left still is kept.
LEMMA StillKept ==
  ASSUME NEW d, NEW e, Still(d, e), DbOK(e)
  PROVE  Kept(d, e)
  BY AgreeFollows, Zenon DEF Still, Kept

\* Leaving rows still twice leaves them still.
LEMMA StillTwice ==
  ASSUME NEW d, NEW e, NEW f, Still(d, e), Still(e, f)
  PROVE  Still(d, f)
  <1>1. \A g \in DOMAIN d.tasks : Agree(d.tasks[g], f.tasks[g], PlaceFields) BY AgreeTwice DEF Still
  <1>2. ASSUME NEW g \in DOMAIN f.tasks \ DOMAIN d.tasks PROVE ~Is(f.tasks[g].bt)
    <2>1. CASE g \in DOMAIN e.tasks BY <2>1 DEF Still, Agree, RowFields, PlaceFields
    <2> QED BY <2>1 DEF Still
  <1> QED BY <1>1, <1>2 DEF Still
\* A change of the rows followed by one that leaves them still.
LEMMA KeptThenStill ==
  ASSUME NEW d, NEW e, NEW f, Kept(d, e), Still(e, f), DbOK(f)
  PROVE  Kept(d, f)
  <1>1. ASSUME NEW g \in DOMAIN d.tasks PROVE RowFollows(d.tasks[g], f.tasks[g]) /\ f.tasks[g].bt = d.tasks[g].bt
    BY DEF Still, Kept, Agree, RowFields, PlaceFields, RowFollows
  <1>2. ASSUME NEW g \in DOMAIN f.tasks \ DOMAIN d.tasks PROVE ~Is(f.tasks[g].bt)
    <2>1. CASE g \in DOMAIN e.tasks BY <2>1 DEF Still, Agree, RowFields, PlaceFields, Kept
    <2> QED BY <2>1 DEF Still
  <1>3. DOMAIN d.tasks \subseteq DOMAIN f.tasks BY DEF Kept, Still
  <1> QED BY <1>1, <1>2, <1>3 DEF Kept

\* What validate_dense_queues and validate_stopped_result_pairing let through.
LEMMA QueuesValidFacts ==
  ASSUME NEW S, NEW e \in QueuesValid(S)
  PROVE  e \in S /\ validate_dense_queues(e) /\ validate_stopped_result_pairing(e)
  BY DEF QueuesValid

\* A move between the queues of unfinished tasks.
LEMMA MoveStill ==
  ASSUME NEW d, RowsOK(d), NEW e, NEW g, NEW from, NEW to \in Live, NEW slow \in {None, Some(0)}, from # "Stopped",
         Transits(d, e, g, from, to, slow)
  PROVE  RowsOK(e) /\ Still(d, e)
  <1>1. RowOK(d.tasks[g]) /\ IsRow(e.tasks[g]) /\ Agree(d.tasks[g], e.tasks[g], MoveFields) /\ DbShape(e)
    BY DEF Transits, RowsOK, DbShape
  <1>2. /\ e.tasks[g].kind = d.tasks[g].kind /\ e.tasks[g].created = d.tasks[g].created
        /\ e.tasks[g].result = d.tasks[g].result /\ e.tasks[g].challenge = d.tasks[g].challenge
        /\ e.tasks[g].queue = to /\ e.tasks[g].slow = slow
    BY <1>1 DEF Agree, RowFields, MoveFields, Transits
  <1>3. PlaceOK(e.tasks[g]) BY <1>1, <1>2 DEF RowOK, PlaceOK, Live
  <1>4. ResultOK(e.tasks[g]) BY <1>1, <1>2 DEF RowOK, ResultOK, Live, Transits
  <1>5. Is(e.tasks[g].challenge) => e.tasks[g].queue = "Paused" BY <1>1, <1>2 DEF RowOK, Transits
  <1>6. Agree(d.tasks[g], e.tasks[g], PlaceFields) BY <1>1 DEF Agree, RowFields, MoveFields, PlaceFields
  <1>7. RowOK(e.tasks[g]) BY <1>1, <1>3, <1>4, <1>5, <1>6, RowPlaced DEF Transits
  <1>8. ASSUME NEW h \in DOMAIN e.tasks, h # g PROVE RowOK(e.tasks[h]) /\ Agree(d.tasks[h], e.tasks[h], PlaceFields)
    BY <1>8, RowShifted DEF Transits, DbShape, RowsOK, Agree, PlaceFields
  <1>9. DOMAIN e.tasks = DOMAIN d.tasks BY DEF Transits
  <1> QED BY <1>1, <1>6, <1>7, <1>8, <1>9 DEF RowsOK, Still

\* A task ends: it leaves its queue and its result is recorded with it.
LEMMA StopStill ==
  ASSUME NEW d, RowsOK(d), NEW e, NEW g, NEW from, Transits(d, e, g, from, "Stopped", None),
         NEW result, validate_stopped_result(result), NEW f \in Recorded({e}, g, result)
  PROVE  RowsOK(f) /\ Still(d, f)
  <1>1. /\ RowOK(d.tasks[g]) /\ IsRow(e.tasks[g]) /\ Agree(d.tasks[g], e.tasks[g], MoveFields) /\ DbShape(e)
        /\ g \in DOMAIN e.tasks /\ DOMAIN e.tasks = DOMAIN d.tasks
    BY DEF Transits, RowsOK, DbShape
  <1> DEFINE s == [e.tasks[g] EXCEPT !.result = Some(result)]
             T == [e.tasks EXCEPT ![g] = s]
  <1>2. f = [e EXCEPT !.tasks[g].result = Some(result)] BY DEF Recorded
  <1>3. f = Holding(e, T) BY <1>1, <1>2 DEF DbShape, Holding
  <1>4. IsRow(s) /\ Agree(e.tasks[g], s, {"result"}) /\ s.result = Some(result)
    BY <1>1 DEF IsRow, Agree, RowFields
  <1> HIDE DEF s
  <1>5. f.tasks = T /\ f.session = e.session BY <1>3, HoldingFacts
  <1>6. DOMAIN T = DOMAIN d.tasks /\ T[g] = s /\ (\A h \in DOMAIN d.tasks \ {g} : T[h] = e.tasks[h])
        /\ T = [h \in DOMAIN T |-> T[h]]
    BY <1>1 DEF DbShape
  <1> HIDE DEF T
  <1>7. \A h \in DOMAIN T : IsRow(T[h]) BY <1>1, <1>4, <1>6 DEF DbShape
  <1>8. DbShape(f) BY <1>1, <1>3, <1>6, <1>7, HoldingShape DEF DbShape
  <1>9. /\ s.kind = d.tasks[g].kind /\ s.created = d.tasks[g].created /\ s.challenge = d.tasks[g].challenge
        /\ s.queue = "Stopped" /\ s.slow = None /\ s.paused = e.tasks[g].paused /\ s.demotions = e.tasks[g].demotions
        /\ s.journal = e.tasks[g].journal /\ s.layout = e.tasks[g].layout /\ s.root = e.tasks[g].root
        /\ s.noSpace = e.tasks[g].noSpace /\ s.kind = e.tasks[g].kind /\ s.queue = e.tasks[g].queue
        /\ s.slow = e.tasks[g].slow
    BY <1>1, <1>4 DEF Agree, RowFields, MoveFields, Transits
  <1>10. PlaceOK(s) BY <1>1, <1>9 DEF RowOK, PlaceOK, Queues
  <1>11. ResultOK(s) BY <1>4, <1>9, Options DEF ResultOK
  <1>12. TaskTable(s) BY <1>9 DEF TaskTable, Transits
  <1>13. Is(s.challenge) => s.queue = "Paused" BY <1>1, <1>9 DEF RowOK, Transits
  <1>14. Agree(d.tasks[g], s, PlaceFields) BY <1>1, <1>4 DEF Agree, RowFields, MoveFields, PlaceFields
  <1>15. RowOK(s) BY <1>1, <1>4, <1>10, <1>11, <1>12, <1>13, <1>14, RowPlaced
  <1>16. ASSUME NEW h \in DOMAIN d.tasks, h # g PROVE RowOK(T[h]) /\ Agree(d.tasks[h], T[h], PlaceFields)
    BY <1>16, RowShifted, <1>6 DEF Transits, DbShape, RowsOK, Agree, PlaceFields
  <1> QED BY <1>5, <1>6, <1>8, <1>14, <1>15, <1>16 DEF RowsOK, Still

---------------------------------------------------------------------------------
\* Commands that write one row.

Renewed(d, g, s) == Holding(d, [d.tasks EXCEPT ![g] = s])

\* Renewing one row by a sound one leaves the rows sound.
LEMMA OneRow ==
  ASSUME NEW d, RowsOK(d), NEW g \in DOMAIN d.tasks, NEW s, RowOK(s)
  PROVE  /\ RowsOK(Renewed(d, g, s))
         /\ DOMAIN Renewed(d, g, s).tasks = DOMAIN d.tasks
         /\ Renewed(d, g, s).tasks[g] = s
         /\ \A h \in DOMAIN d.tasks \ {g} : Renewed(d, g, s).tasks[h] = d.tasks[h]
  <1> DEFINE T == [d.tasks EXCEPT ![g] = s]
  <1>1. /\ T = [h \in DOMAIN T |-> T[h]] /\ DOMAIN T = DOMAIN d.tasks
        /\ T[g] = s /\ \A h \in DOMAIN d.tasks \ {g} : T[h] = d.tasks[h]
    BY DEF RowsOK, DbShape
  <1>2. Renewed(d, g, s) = Holding(d, T) BY DEF Renewed
  <1> HIDE DEF T
  <1>3. DOMAIN T \subseteq Gids /\ (\A h \in DOMAIN T : IsRow(T[h])) /\ \A h \in DOMAIN T : RowOK(T[h])
    BY <1>1 DEF RowsOK, DbShape, RowOK
  <1>4. DbShape(Holding(d, T)) BY <1>1, <1>3, HoldingShape DEF RowsOK
  <1> QED BY <1>1, <1>2, <1>3, <1>4, HoldingFacts DEF RowsOK

\* Queues stay dense when no place changes.
LEMMA SamePlaces ==
  ASSUME NEW d, NEW e, DOMAIN e.tasks = DOMAIN d.tasks, validate_dense_queues(d),
         \A g \in DOMAIN d.tasks : e.tasks[g].queue = d.tasks[g].queue /\ e.tasks[g].pos = d.tasks[g].pos
  PROVE  validate_dense_queues(e)
  <1>1. \A q : Members(e, q) = Members(d, q) BY DEF Members
  <1>2. \A q : {e.tasks[g].pos : g \in Members(e, q)} = {d.tasks[g].pos : g \in Members(d, q)}
    BY <1>1 DEF Members
  <1> QED BY <1>1, <1>2 DEF validate_dense_queues

\* A database stays sound when one row is renewed in its place.
LEMMA OneRowSound ==
  ASSUME NEW d, DbOK(d), NEW g \in DOMAIN d.tasks, NEW s, RowOK(s),
         s.queue = d.tasks[g].queue, s.pos = d.tasks[g].pos
  PROVE  DbOK(Renewed(d, g, s))
  <1>1. RowsOK(d) BY DEF DbOK
  <1> DEFINE e == Renewed(d, g, s)
  <1>2. /\ RowsOK(e) /\ DOMAIN e.tasks = DOMAIN d.tasks /\ e.tasks[g] = s
        /\ \A h \in DOMAIN d.tasks \ {g} : e.tasks[h] = d.tasks[h]
    BY <1>1, OneRow
  <1> HIDE DEF e
  <1>3. validate_dense_queues(e) BY <1>2, SamePlaces DEF DbOK
  <1> QED BY <1>2, <1>3 DEF DbOK, e

\* It is kept when the new row follows the old one.
LEMMA OneRowKept ==
  ASSUME NEW d, DbOK(d), NEW g \in DOMAIN d.tasks, NEW s, RowOK(s),
         s.queue = d.tasks[g].queue, s.pos = d.tasks[g].pos, RowFollows(d.tasks[g], s), s.bt = d.tasks[g].bt
  PROVE  Kept(d, Renewed(d, g, s))
  <1>1. RowsOK(d) BY DEF DbOK
  <1> DEFINE e == Renewed(d, g, s)
  <1>2. /\ DbOK(e) /\ DOMAIN e.tasks = DOMAIN d.tasks /\ e.tasks[g] = s
        /\ \A h \in DOMAIN d.tasks \ {g} : e.tasks[h] = d.tasks[h]
    BY <1>1, OneRow, OneRowSound
  <1> HIDE DEF e
  <1>3. \A h \in DOMAIN d.tasks : RowFollows(d.tasks[h], d.tasks[h]) BY DEF RowFollows
  <1>4. \A h \in DOMAIN d.tasks : RowFollows(d.tasks[h], e.tasks[h]) /\ e.tasks[h].bt = d.tasks[h].bt
    BY <1>2, <1>3
  <1> QED BY <1>2, <1>4 DEF Kept, e

\* Columns of a row that say nothing of its place, journal or torrent.
DataFields == {"sources", "current", "staged", "challenge"}

\* A row stays sound when its sources, options or challenge are replaced.
LEMMA RowData ==
  ASSUME NEW r, RowOK(r), NEW s, IsRow(s), Agree(r, s, DataFields),
         Is(s.challenge) => r.queue = "Paused", \A x \in s.sources : source_ok(x)
  PROVE  RowOK(s) /\ s.queue = r.queue /\ s.pos = r.pos /\ s.bt = r.bt /\ s.journal = r.journal
  <1>1. /\ s.kind = r.kind /\ s.queue = r.queue /\ s.paused = r.paused /\ s.slow = r.slow /\ s.pos = r.pos
        /\ s.demotions = r.demotions /\ s.journal = r.journal /\ s.layout = r.layout /\ s.root = r.root
        /\ s.noSpace = r.noSpace /\ s.created = r.created
        /\ s.install = r.install /\ s.result = r.result /\ s.bt = r.bt
    BY DEF Agree, RowFields, DataFields
  <1> QED BY <1>1 DEF RowOK, PlaceOK, TaskTable, ResultOK

\* A row that keeps its journal, whatever options it gets.
LEMMA OptionsFollow ==
  ASSUME NEW r, NEW s, s.journal = r.journal
  PROVE  RowFollows(r, s)
  BY DEF RowFollows

---------------------------------------------------------------------------------
\* The commands on the queues.

\* transition_task_queue keeps the database sound.
LEMMA MoveKept ==
  ASSUME NEW d, DbOK(d), NEW g, NEW from, NEW to, NEW pos, NEW paused, NEW demotions, NEW slow \in {None, Some(0)},
         NEW now, to \in Live, NEW e \in transition_task_queue(d, g, from, to, pos, paused, demotions, slow, now)
  PROVE  Kept(d, e)
  <1>1. /\ from # "Stopped"
        /\ e \in QueuesValid(transition_task_queue_in_transaction(d, g, from, to, pos, paused, demotions, slow, now))
    BY DEF transition_task_queue
  <1>2. /\ e \in transition_task_queue_in_transaction(d, g, from, to, pos, paused, demotions, slow, now)
        /\ validate_dense_queues(e)
    BY <1>1, QueuesValidFacts
  <1>3. Transits(d, e, g, from, to, slow) BY <1>2, TransitionMoves DEF DbOK, RowsOK
  <1>4. RowsOK(e) /\ Still(d, e) BY <1>1, <1>3, MoveStill DEF DbOK
  <1> QED BY <1>2, <1>4, StillKept DEF DbOK

\* transition_task_queue_exact keeps it sound.
LEMMA MoveExactKept ==
  ASSUME NEW d, DbOK(d), NEW g, NEW from, NEW to \in Live, NEW paused, NEW demotions, NEW slow \in {None, Some(0)},
         NEW orders, NEW now,
         NEW e \in transition_task_queue_exact(d, g, from, to, paused, demotions, slow, orders, now)
  PROVE  Kept(d, e)
  <1>1. /\ from # "Stopped"
        /\ e \in QueuesValid(apply_exact_queue_transition(d, g, from, to, paused, demotions, slow, orders, now))
    BY DEF transition_task_queue_exact
  <1>2. /\ e \in apply_exact_queue_transition(d, g, from, to, paused, demotions, slow, orders, now)
        /\ validate_dense_queues(e)
    BY <1>1, QueuesValidFacts
  <1>3. Transits(d, e, g, from, to, slow) BY <1>2, ExactMoves DEF DbOK, RowsOK
  <1>4. RowsOK(e) /\ Still(d, e) BY <1>1, <1>3, MoveStill DEF DbOK
  <1> QED BY <1>2, <1>4, StillKept DEF DbOK

\* Repositioning leaves rows sound and still.
LEMMA RepositionedStill ==
  ASSUME NEW d, NEW e, RowsOK(d), Repositioned(d, e)
  PROVE  RowsOK(e) /\ Still(d, e)
  <1>1. \A g \in DOMAIN d.tasks : Agree(d.tasks[g], e.tasks[g], PlaceFields)
    BY DEF Repositioned, Agree, PlaceFields
  <1> QED BY <1>1, RepositionedRows DEF Still, Repositioned

\* reorder_queue keeps it sound.
LEMMA ReorderKept ==
  ASSUME NEW d, DbOK(d), NEW q, NEW order, NEW now, NEW e \in reorder_queue(d, q, order, now)
  PROVE  Kept(d, e)
  <1> DEFINE Placed(g) == (CHOOSE i \in DOMAIN order : order[i] = g) - 1
             T == [g \in DOMAIN d.tasks |-> IF d.tasks[g].queue = q
                                            THEN [d.tasks[g] EXCEPT !.pos = Placed(g)] ELSE d.tasks[g]]
  <1>1. e \in QueuesValid(Written([d EXCEPT !.tasks = T], Members(d, q), now)) BY DEF reorder_queue
  <1>2. e = [d EXCEPT !.tasks = T] /\ validate_dense_queues(e) BY <1>1, QueuesValidFacts, WrittenFacts
  <1> HIDE DEF Placed
  <1>3. Shifts(d, T) BY DEF Shifts
  <1> HIDE DEF T
  <1>4. Repositioned(d, e) BY <1>2, <1>3, RepositionedBy DEF DbOK, RowsOK
  <1>5. RowsOK(e) /\ Still(d, e) BY <1>4, RepositionedStill DEF DbOK
  <1> QED BY <1>2, <1>5, StillKept DEF DbOK

\* Dropping the challenge of a task that ends leaves the rows sound.
LEMMA ChallengeDropped ==
  ASSUME NEW d, RowsOK(d), NEW g
  PROVE  RowsOK(DropChallenge(d, g)) /\ Still(d, DropChallenge(d, g))
  <1>1. CASE g \notin DOMAIN d.tasks BY <1>1 DEF DropChallenge, Still, Agree
  <1>2. CASE g \in DOMAIN d.tasks
    <2> DEFINE s == [d.tasks[g] EXCEPT !.challenge = None]
    <2>1. RowOK(d.tasks[g]) /\ IsRow(d.tasks[g]) /\ DbShape(d) BY <1>2 DEF RowsOK, RowOK
    <2>2. DropChallenge(d, g) = Renewed(d, g, s) BY <1>2, <2>1 DEF DropChallenge, Renewed, DbShape, Holding
    <2>3. IsRow(s) /\ Agree(d.tasks[g], s, {"challenge"}) /\ s.challenge = None
      BY <2>1 DEF IsRow, Agree, RowFields
    <2> HIDE DEF s
    <2>4. Agree(d.tasks[g], s, DataFields) /\ Agree(d.tasks[g], s, PlaceFields) /\ s.sources = d.tasks[g].sources
      BY <2>3 DEF Agree, DataFields, PlaceFields, RowFields
    <2>5. RowOK(s) BY <2>1, <2>3, <2>4, RowData, Options DEF RowOK
    <2>6. /\ RowsOK(Renewed(d, g, s)) /\ DOMAIN Renewed(d, g, s).tasks = DOMAIN d.tasks
          /\ Renewed(d, g, s).tasks[g] = s
          /\ \A h \in DOMAIN d.tasks \ {g} : Renewed(d, g, s).tasks[h] = d.tasks[h]
      BY <1>2, <2>5, OneRow
    <2>7. \A h \in DOMAIN d.tasks : Agree(d.tasks[h], d.tasks[h], PlaceFields) BY DEF Agree
    <2> QED BY <2>2, <2>4, <2>6, <2>7 DEF Still
  <1> QED BY <1>1, <1>2

\* A result is recorded in the outcome of one move.
LEMMA RecordedOne ==
  ASSUME NEW S, NEW g, NEW result, NEW f \in Recorded(S, g, result)
  PROVE  \E e \in S : f \in Recorded({e}, g, result)
  BY DEF Recorded

\* persist_stopped_result keeps it sound.
LEMMA StopKept ==
  ASSUME NEW d, DbOK(d), NEW g, NEW result, NEW from, NEW pos, NEW paused, NEW demotions, NEW now,
         NEW f \in persist_stopped_result(d, g, result, from, pos, paused, demotions, now)
  PROVE  Kept(d, f)
  <1> DEFINE c == DropChallenge(d, g)
             S == transition_task_queue_in_transaction(c, g, from, "Stopped", pos, paused, demotions, None, now)
  <1>1. validate_stopped_result(result) /\ f \in QueuesValid(Recorded(S, g, result))
    BY DEF persist_stopped_result
  <1>2. validate_dense_queues(f) /\ f \in Recorded(S, g, result) BY <1>1, QueuesValidFacts
  <1>3. RowsOK(c) /\ Still(d, c) BY ChallengeDropped DEF DbOK
  <1>4. PICK e \in S : f \in Recorded({e}, g, result) BY <1>2, RecordedOne
  <1> HIDE DEF c
  <1>5. Transits(c, e, g, from, "Stopped", None) BY <1>3, <1>4, TransitionMoves DEF RowsOK
  <1>6. RowsOK(f) /\ Still(c, f) BY <1>1, <1>3, <1>4, <1>5, StopStill
  <1> QED BY <1>2, <1>3, <1>6, StillTwice, StillKept DEF DbOK

\* persist_stopped_result_exact keeps it sound.
LEMMA StopExactKept ==
  ASSUME NEW d, DbOK(d), NEW g, NEW result, NEW from, NEW paused, NEW demotions, NEW orders, NEW now,
         NEW f \in persist_stopped_result_exact(d, g, result, from, paused, demotions, orders, now)
  PROVE  Kept(d, f)
  <1> DEFINE c == DropChallenge(d, g)
             S == apply_exact_queue_transition(c, g, from, "Stopped", paused, demotions, None, orders, now)
  <1>1. validate_stopped_result(result) /\ f \in QueuesValid(Recorded(S, g, result))
    BY DEF persist_stopped_result_exact
  <1>2. validate_dense_queues(f) /\ f \in Recorded(S, g, result) BY <1>1, QueuesValidFacts
  <1>3. RowsOK(c) /\ Still(d, c) BY ChallengeDropped DEF DbOK
  <1>4. PICK e \in S : f \in Recorded({e}, g, result) BY <1>2, RecordedOne
  <1> HIDE DEF c
  <1>5. Transits(c, e, g, from, "Stopped", None) BY <1>3, <1>4, ExactMoves DEF RowsOK
  <1>6. RowsOK(f) /\ Still(c, f) BY <1>1, <1>3, <1>4, <1>5, StopStill
  <1> QED BY <1>2, <1>3, <1>6, StillTwice, StillKept DEF DbOK

\* A stopped task is forgotten and the others of its queue move up.
Forgotten(d, e, g) ==
  /\ DOMAIN e.tasks = DOMAIN d.tasks \ {g}
  /\ \A h \in DOMAIN e.tasks : Agree(d.tasks[h], e.tasks[h], {"pos"})

\* delete_stopped_task_metadata removes one task and keeps the others.
LEMMA DeleteForgets ==
  ASSUME NEW d, DbOK(d), NEW g, NEW remaining, NEW now, NEW e \in delete_stopped_task_metadata(d, g, remaining, now)
  PROVE  DbOK(e) /\ Forgotten(d, e, g)
  <1> DEFINE kept == [d EXCEPT !.tasks = Without(@, {g})]
             Placed(h) == (CHOOSE i \in DOMAIN remaining : remaining[i] = h) - 1
             T == [h \in DOMAIN kept.tasks |-> IF kept.tasks[h].queue = "Stopped"
                                               THEN [kept.tasks[h] EXCEPT !.pos = Placed(h)] ELSE kept.tasks[h]]
  <1>1. e \in QueuesValid(Written([kept EXCEPT !.tasks = T], Members(kept, "Stopped"), now))
    BY DEF delete_stopped_task_metadata
  <1>2. e = [kept EXCEPT !.tasks = T] /\ validate_dense_queues(e) BY <1>1, QueuesValidFacts, WrittenFacts
  <1> HIDE DEF Placed
  <1> DEFINE W == Without(d.tasks, {g})
  <1>3. /\ DOMAIN W = DOMAIN d.tasks \ {g} /\ W = [h \in DOMAIN W |-> W[h]]
        /\ \A h \in DOMAIN W : W[h] = d.tasks[h]
    BY DEF Without
  <1>4. kept = Holding(d, W) BY SetTasks DEF DbOK, RowsOK
  <1> HIDE DEF W, kept
  <1>5. kept.tasks = W BY <1>4, HoldingFacts
  <1>6. DbShape(kept) /\ RowsOK(kept) BY <1>3, <1>4, HoldingShape, <1>5 DEF DbOK, RowsOK, DbShape
  <1>7. Shifts(kept, T) BY DEF Shifts
  <1> HIDE DEF T
  <1>8. Repositioned(kept, e) BY <1>2, <1>6, <1>7, RepositionedBy
  <1>9. RowsOK(e) BY <1>6, <1>8, RepositionedRows
  <1>10. DOMAIN e.tasks = DOMAIN d.tasks \ {g} /\ \A h \in DOMAIN e.tasks : Agree(d.tasks[h], e.tasks[h], {"pos"})
    BY <1>3, <1>5, <1>8 DEF Repositioned
  <1> QED BY <1>2, <1>9, <1>10 DEF DbOK, Forgotten

---------------------------------------------------------------------------------
\* Admission.

\* The row of a new transfer is sound.
LEMMA NewTransferOK ==
  ASSUME NEW q \in {"Waiting", "Active", "Paused"}, NEW pos, NEW paused, NEW j, NEW options, NEW now \in Times
  PROVE  LET s == [NewRow("Transfer", q, pos, paused, Some(j), options, now) EXCEPT !.sources = {Plain}]
         IN RowOK(s) /\ ~Is(s.bt)
  <1> DEFINE s == [NewRow("Transfer", q, pos, paused, Some(j), options, now) EXCEPT !.sources = {Plain}]
  <1>1. /\ IsRow(s) /\ s.kind = "Transfer" /\ s.queue = q /\ s.slow = None /\ s.demotions = 0 /\ s.journal = Some(j)
        /\ s.layout = FALSE /\ s.root = FALSE /\ s.noSpace = FALSE /\ s.created = now /\ s.sources = {Plain}
        /\ s.challenge = None /\ s.install = None /\ s.result = None /\ s.bt = None
    BY DEF NewRow, IsRow, RowFields
  <1> HIDE DEF s
  <1>2. PlaceOK(s) BY <1>1 DEF PlaceOK, Queues
  <1>3. TaskTable(s) BY <1>1, Options DEF TaskTable
  <1>4. ResultOK(s) /\ ~Is(s.challenge) /\ ~Is(s.bt) BY <1>1, Options DEF ResultOK
  <1>5. InstallOK(s.install, s.journal) /\ s.bt \in Maybe(TorrentRecords)
    BY <1>1, Options DEF InstallOK, Maybe
  <1>6. \A x \in s.sources : source_ok(x) BY <1>1 DEF Plain, source_ok
  <1>7. RowOK(s) BY <1>1, <1>2, <1>3, <1>4, <1>5, <1>6 DEF RowOK
  <1> QED BY <1>4, <1>7 DEF s

\* insert_admission_metadata adds a sound row and repositions the others.
LEMMA AdmissionStill ==
  ASSUME NEW d, RowsOK(d), NEW g \in Gids, NEW q \in Live, NEW pos, NEW paused, NEW j, NEW options, NEW now \in Times,
         NEW e \in insert_admission_metadata(d, g, q, pos, paused, Some(j), options, now)
  PROVE  RowsOK(e) /\ Still(d, e)
  <1> DEFINE s == [NewRow("Transfer", q, pos, paused, Some(j), options, now) EXCEPT !.sources = {Plain}]
             o == OpenGap(d, q, pos)
  <1>1. g \notin DOMAIN d.tasks /\ q # "Demoted" /\ e = Row(o, g, s) BY DEF insert_admission_metadata
  <1>2. Repositioned(d, o) /\ DbShape(o) /\ DOMAIN o.tasks = DOMAIN d.tasks
    BY GapsReposition DEF RowsOK, Repositioned
  <1>3. RowsOK(o) /\ Still(d, o) BY <1>2, RepositionedStill
  <1>4. q \in {"Waiting", "Active", "Paused"} BY <1>1 DEF Live, Queues
  <1>5. RowOK(s) /\ ~Is(s.bt) BY <1>4, NewTransferOK
  <1> HIDE DEF s, o
  <1>6. /\ DbShape(e) /\ DOMAIN e.tasks = DOMAIN o.tasks \cup {g} /\ e.tasks[g] = s
        /\ \A h \in DOMAIN o.tasks \ {g} : e.tasks[h] = o.tasks[h]
    BY <1>5, <1>1, <1>2, RowWritten DEF RowOK
  <1>7. RowsOK(e) BY <1>3, <1>5, <1>6 DEF RowsOK
  <1>8. Still(d, e) BY <1>1, <1>2, <1>3, <1>5, <1>6 DEF Still
  <1> QED BY <1>7, <1>8

\* create_task_with_metadata keeps the database sound.
LEMMA CreateKept ==
  ASSUME NEW d, DbOK(d), NEW g \in Gids, NEW q \in Live, NEW pos, NEW paused, NEW j, NEW options, NEW now \in Times,
         NEW e \in create_task_with_metadata(d, g, q, pos, paused, Some(j), options, now)
  PROVE  Kept(d, e)
  <1>1. validate_dense_queues(e) /\ e \in insert_admission_metadata(d, g, q, pos, paused, Some(j), options, now)
    BY QueuesValidFacts DEF create_task_with_metadata
  <1>2. RowsOK(e) /\ Still(d, e) BY <1>1, AdmissionStill DEF DbOK
  <1> QED BY <1>1, <1>2, StillKept DEF DbOK

\* persist_metadata_expansion marks the parent and keeps the database sound.
LEMMA ExpansionKept ==
  ASSUME NEW d, DbOK(d), NEW parent, NEW snapshot, NEW children,
         NEW e \in persist_metadata_expansion(d, parent, snapshot, children)
  PROVE  Kept(d, e)
  <1> DEFINE r == d.tasks[parent]
             s == [r EXCEPT !.current = r.current \cup {Expansion}]
  <1>1. parent \in DOMAIN d.tasks /\ e = [d EXCEPT !.tasks[parent].current = @ \cup {Expansion}]
    BY DEF persist_metadata_expansion
  <1>2. RowOK(r) /\ IsRow(r) /\ DbShape(d) BY <1>1 DEF DbOK, RowsOK, RowOK
  <1>3. e = Renewed(d, parent, s) BY <1>1, <1>2 DEF Renewed, DbShape, Holding
  <1>4. IsRow(s) /\ Agree(r, s, {"current"}) /\ s.current = r.current \cup {Expansion}
    BY <1>2 DEF IsRow, Agree, RowFields
  <1> HIDE DEF r, s
  <1>5. Agree(r, s, DataFields) /\ s.sources = r.sources /\ s.challenge = r.challenge /\ s.staged = r.staged
    BY <1>4 DEF Agree, DataFields, RowFields
  <1>6. RowOK(s) /\ s.queue = r.queue /\ s.pos = r.pos /\ s.bt = r.bt /\ s.journal = r.journal
    BY <1>2, <1>4, <1>5, RowData DEF RowOK
  <1>8. RowFollows(r, s) BY <1>6, OptionsFollow
  <1>9. r = d.tasks[parent] BY DEF r
  <1>10. /\ parent \in DOMAIN d.tasks /\ RowOK(s) /\ s.queue = d.tasks[parent].queue /\ s.pos = d.tasks[parent].pos
         /\ RowFollows(d.tasks[parent], s) /\ s.bt = d.tasks[parent].bt
    BY <1>1, <1>6, <1>8, <1>9, Zenon
  <1>11. Kept(d, Renewed(d, parent, s)) BY <1>10, OneRowKept, Zenon
  <1> QED BY <1>3, <1>11

\* create_task_batch_following keeps it sound: all the members, or none.
LEMMA BatchKept ==
  ASSUME NEW d, DbOK(d), NEW members \in SUBSET Gids, NEW parent, NEW snapshot, NEW j, NEW now \in Times,
         NEW e \in create_batch_following(d, members, parent, snapshot, "Waiting", Some(j), now)
  PROVE  Kept(d, e)
  <1> DEFINE Joined(X, S) == UNION {UNION {insert_admission_metadata(x, g, "Waiting", Cardinality(Members(x, "Waiting")), FALSE,
                                                                     Some(j), {}, now) : g \in S} : x \in X}
             Expanded == IF Is(parent) THEN persist_metadata_expansion(d, The(parent), snapshot, members) ELSE {d}
  <1>1. validate_dense_queues(e) /\ (e \in Joined(Expanded, members) \/ e \in Joined(Joined(Expanded, members), members))
    <2> DEFINE J == IF Cardinality(members) = 1 THEN Joined(Expanded, members)
                    ELSE Joined(Joined(Expanded, members), members)
    <2>1. e \in QueuesValid({x \in J : members \subseteq DOMAIN x.tasks}) BY Zenon DEF create_batch_following
    <2>2. validate_dense_queues(e) /\ e \in {x \in J : members \subseteq DOMAIN x.tasks}
      BY <2>1, QueuesValidFacts
    <2> HIDE DEF Joined, Expanded
    <2> QED BY <2>2
  <1>2. \A x \in Expanded : Kept(d, x) BY StillKept, ExpansionKept DEF Still, Agree
  <1> HIDE DEF Expanded
  <1>3. ASSUME NEW x, RowsOK(x), NEW f \in Joined({x}, members) PROVE RowsOK(f) /\ Still(x, f)
    <2>1. PICK g \in members : f \in insert_admission_metadata(x, g, "Waiting", Cardinality(Members(x, "Waiting")), FALSE,
                                                               Some(j), {}, now)
      <3> DEFINE I(y, g) == insert_admission_metadata(y, g, "Waiting", Cardinality(Members(y, "Waiting")), FALSE,
                                                      Some(j), {}, now)
      <3>1. f \in UNION {UNION {I(y, g) : g \in members} : y \in {x}} OBVIOUS
      <3> HIDE DEF I
      <3>2. \E g \in members : f \in I(x, g) BY <3>1
      <3> QED BY <3>2 DEF I
    <2>2. "Waiting" \in Live /\ g \in Gids BY DEF Live, Queues
    <2> QED BY <1>3, <2>1, <2>2, AdmissionStill
  <1>4. \A X : \A f \in Joined(X, members) : \E x \in X : f \in Joined({x}, members) OBVIOUS
  <1> HIDE DEF Joined
  <1>5. \E x \in Expanded : RowsOK(e) /\ Still(x, e)
    <2>1. \A x \in Expanded : RowsOK(x) BY <1>2 DEF Kept, DbOK
    <2>2. CASE e \in Joined(Expanded, members) BY <1>3, <1>4, <2>1, <2>2
    <2>3. CASE e \in Joined(Joined(Expanded, members), members)
      <3>1. PICK y \in Joined(Expanded, members) : e \in Joined({y}, members) BY <1>4, <2>3
      <3>2. PICK x \in Expanded : y \in Joined({x}, members) BY <1>4, <3>1
      <3>3. RowsOK(y) /\ Still(x, y) BY <1>3, <2>1, <3>2
      <3>4. RowsOK(e) /\ Still(y, e) BY <1>3, <3>1, <3>3
      <3> QED BY <3>3, <3>4, StillTwice
    <2> QED BY <1>1, <2>2, <2>3
  <1> QED BY <1>1, <1>2, <1>5, KeptThenStill DEF DbOK

---------------------------------------------------------------------------------
\* The commands on one row.

\* One row renewed, as an equation.
LEMMA KeptRow ==
  ASSUME NEW d, DbOK(d), NEW g \in DOMAIN d.tasks, NEW s, RowOK(s), s.queue = d.tasks[g].queue, s.pos = d.tasks[g].pos,
         RowFollows(d.tasks[g], s), s.bt = d.tasks[g].bt, NEW e, e = Renewed(d, g, s)
  PROVE  Kept(d, e)
  BY OneRowKept

\* A write of columns that the table's checks look at.
LEMMA ColumnKept ==
  ASSUME NEW d, DbOK(d), NEW g \in DOMAIN d.tasks, NEW s, IsRow(s), Agree(d.tasks[g], s, {"paused", "noSpace", "layout", "root"}),
         TaskTable(s), NEW e, e = Renewed(d, g, s)
  PROVE  Kept(d, e)
  <1>1. RowOK(d.tasks[g]) BY DEF DbOK, RowsOK
  <1>2. Agree(d.tasks[g], s, PlaceFields) BY DEF Agree, PlaceFields
  <1>3. /\ s.kind = d.tasks[g].kind /\ s.queue = d.tasks[g].queue /\ s.slow = d.tasks[g].slow
        /\ s.created = d.tasks[g].created /\ s.result = d.tasks[g].result /\ s.challenge = d.tasks[g].challenge
        /\ s.pos = d.tasks[g].pos
    BY DEF Agree, RowFields
  <1>4. PlaceOK(s) /\ ResultOK(s) /\ (Is(s.challenge) => s.queue = "Paused")
    BY <1>1, <1>3 DEF RowOK, PlaceOK, ResultOK
  <1>5. RowOK(s) BY <1>1, <1>2, <1>4, RowPlaced
  <1>6. RowFollows(d.tasks[g], s) /\ s.bt = d.tasks[g].bt BY <1>2, AgreeFollows
  <1> QED BY <1>3, <1>5, <1>6, KeptRow

\* A write of the options, the sources or the challenge of a row.
LEMMA DataKept ==
  ASSUME NEW d, DbOK(d), NEW g \in DOMAIN d.tasks, NEW s, IsRow(s), Agree(d.tasks[g], s, DataFields),
         Is(s.challenge) => d.tasks[g].queue = "Paused", \A x \in s.sources : source_ok(x),
         RowFollows(d.tasks[g], s), NEW e, e = Renewed(d, g, s)
  PROVE  Kept(d, e)
  <1>1. RowOK(d.tasks[g]) BY DEF DbOK, RowsOK
  <1>2. RowOK(s) /\ s.queue = d.tasks[g].queue /\ s.pos = d.tasks[g].pos /\ s.bt = d.tasks[g].bt
    BY <1>1, RowData
  <1> QED BY <1>2, KeptRow

\* Every row of a sound database.
LEMMA RowOf ==
  ASSUME NEW d, DbOK(d), NEW g \in DOMAIN d.tasks
  PROVE  /\ RowOK(d.tasks[g]) /\ IsRow(d.tasks[g]) /\ DbShape(d)
         /\ (\A x \in d.tasks[g].sources : source_ok(x)) /\ (Is(d.tasks[g].challenge) => d.tasks[g].queue = "Paused")
  BY DEF DbOK, RowsOK, RowOK

\* set_task_no_space_condition keeps it sound.
LEMMA NoSpaceKept ==
  ASSUME NEW d, DbOK(d), NEW g, NEW on, NEW now, NEW e \in set_task_no_space_condition(d, g, on, now)
  PROVE  Kept(d, e)
  <1> DEFINE s == [d.tasks[g] EXCEPT !.noSpace = on]
  <1>1. g \in DOMAIN d.tasks /\ e \in Written([d EXCEPT !.tasks[g].noSpace = on], {g}, now)
    BY DEF set_task_no_space_condition
  <1>2. IsRow(d.tasks[g]) /\ DbShape(d) BY <1>1, RowOf
  <1>3. e = [d EXCEPT !.tasks[g].noSpace = on] /\ TaskTable(e.tasks[g]) BY <1>1, WrittenFacts
  <1>4. e = Renewed(d, g, s) BY <1>1, <1>2, <1>3 DEF Renewed, DbShape, Holding
  <1>5. e.tasks[g] = s BY <1>1, <1>4 DEF Renewed, Holding
  <1>6. IsRow(s) /\ Agree(d.tasks[g], s, {"paused", "noSpace", "layout", "root"})
    BY <1>2 DEF IsRow, Agree, RowFields
  <1> HIDE DEF s
  <1> QED BY <1>1, <1>3, <1>4, <1>5, <1>6, ColumnKept

\* reconcile_journal_authority keeps it sound.
LEMMA ReconcileKept ==
  ASSUME NEW d, DbOK(d), NEW g, NEW journal, NEW layout, NEW root, NEW now,
         NEW e \in reconcile_journal_authority(d, g, journal, layout, root, now)
  PROVE  Kept(d, e)
  <1> DEFINE s == [d.tasks[g] EXCEPT !.layout = layout, !.root = root]
             f == [d EXCEPT !.tasks[g].layout = layout, !.tasks[g].root = root]
  <1>1. g \in DOMAIN d.tasks /\ e \in Written(f, {g}, now)
    BY DEF reconcile_journal_authority, reconcile_journal_cache
  <1>2. IsRow(d.tasks[g]) /\ DbShape(d) BY <1>1, RowOf
  <1>3. e = f /\ TaskTable(e.tasks[g]) BY <1>1, WrittenFacts
  <1>4. e = Renewed(d, g, s) BY <1>1, <1>2, <1>3 DEF Renewed, DbShape, Holding
  <1>5. e.tasks[g] = s BY <1>1, <1>4 DEF Renewed, Holding
  <1>6. IsRow(s) /\ Agree(d.tasks[g], s, {"paused", "noSpace", "layout", "root"})
    BY <1>2 DEF IsRow, Agree, RowFields
  <1> HIDE DEF s, f
  <1> QED BY <1>1, <1>3, <1>4, <1>5, <1>6, ColumnKept

\* put_task as the owner uses it on a task that is there.
LEMMA PutTaskKept ==
  ASSUME NEW d, DbOK(d), NEW g \in DOMAIN d.tasks, NEW q, NEW pos, NEW paused, NEW noSpace, NEW journal, NEW now,
         NEW e \in put_task(d, g, q, pos, paused, noSpace, journal, now)
  PROVE  Kept(d, e)
  <1> DEFINE s == [d.tasks[g] EXCEPT !.paused = paused, !.noSpace = noSpace]
  <1>1. e \in QueuesValid(Written(Row(d, g, s), {g}, now)) BY DEF put_task
  <1>2. IsRow(d.tasks[g]) /\ DbShape(d) /\ g \in Gids BY RowOf DEF DbShape
  <1>3. e = Row(d, g, s) /\ TaskTable(Row(d, g, s).tasks[g]) BY <1>1, QueuesValidFacts, WrittenFacts
  <1>4. IsRow(s) /\ Agree(d.tasks[g], s, {"paused", "noSpace", "layout", "root"})
    BY <1>2 DEF IsRow, Agree, RowFields
  <1> HIDE DEF s
  <1>5. Row(d, g, s).tasks[g] = s BY <1>2, <1>4, RowWritten
  <1>6. Put(d.tasks, g, s) = [d.tasks EXCEPT ![g] = s] BY <1>2 DEF Put, DbShape
  <1>7. e = Renewed(d, g, s) BY <1>2, <1>3, <1>6, SetTasks DEF Row, Renewed
  <1> QED BY <1>3, <1>4, <1>5, <1>7, ColumnKept

\* replace_task_options on the current generation keeps it sound.
LEMMA ReplaceCurrentKept ==
  ASSUME NEW d, DbOK(d), NEW g, NEW options,
         NEW e \in replace_task_options(d, g, "CurrentGeneration", options)
  PROVE  Kept(d, e)
  <1> DEFINE s == [d.tasks[g] EXCEPT !.current = options]
  <1>1. g \in DOMAIN d.tasks /\ e = [d EXCEPT !.tasks[g].current = options]
    BY DEF replace_task_options, replace_task_options_in_transaction
  <1>2. RowOK(d.tasks[g]) /\ IsRow(d.tasks[g]) /\ DbShape(d) BY <1>1, RowOf
  <1>3. e = Renewed(d, g, s) BY <1>1, <1>2 DEF Renewed, DbShape, Holding
  <1>4. IsRow(s) /\ Agree(d.tasks[g], s, DataFields) /\ s.current = options
    BY <1>2 DEF IsRow, Agree, RowFields, DataFields
  <1>5. s.sources = d.tasks[g].sources /\ s.challenge = d.tasks[g].challenge /\ s.staged = d.tasks[g].staged /\ s.journal = d.tasks[g].journal
    BY <1>2 DEF IsRow, RowFields
  <1> HIDE DEF s
  <1>7. RowFollows(d.tasks[g], s) /\ (Is(s.challenge) => d.tasks[g].queue = "Paused") /\ \A x \in s.sources : source_ok(x)
    BY <1>1, <1>2, <1>4, <1>5, OptionsFollow, Options DEF RowOK, validate_task_sources_for_write, require_paused_task, Members
  <1> QED BY <1>1, <1>2, <1>3, <1>4, <1>5, <1>7, DataKept DEF RowOK

\* replace_task_options for the next admission keeps it sound.
LEMMA ReplaceStagedKept ==
  ASSUME NEW d, DbOK(d), NEW g, NEW options,
         NEW e \in replace_task_options(d, g, "NextAdmission", options)
  PROVE  Kept(d, e)
  <1> DEFINE s == [d.tasks[g] EXCEPT !.staged = options]
  <1>1. g \in DOMAIN d.tasks /\ e = [d EXCEPT !.tasks[g].staged = options]
    BY DEF replace_task_options, replace_task_options_in_transaction
  <1>2. RowOK(d.tasks[g]) /\ IsRow(d.tasks[g]) /\ DbShape(d) BY <1>1, RowOf
  <1>3. e = Renewed(d, g, s) BY <1>1, <1>2 DEF Renewed, DbShape, Holding
  <1>4. IsRow(s) /\ Agree(d.tasks[g], s, DataFields) /\ s.staged = options
    BY <1>2 DEF IsRow, Agree, RowFields, DataFields
  <1>5. s.sources = d.tasks[g].sources /\ s.challenge = d.tasks[g].challenge /\ s.current = d.tasks[g].current /\ s.journal = d.tasks[g].journal
    BY <1>2 DEF IsRow, RowFields
  <1> HIDE DEF s
  <1>7. RowFollows(d.tasks[g], s) /\ (Is(s.challenge) => d.tasks[g].queue = "Paused") /\ \A x \in s.sources : source_ok(x)
    BY <1>1, <1>2, <1>4, <1>5, OptionsFollow, Options DEF RowOK, validate_task_sources_for_write, require_paused_task, Members
  <1> QED BY <1>1, <1>2, <1>3, <1>4, <1>5, <1>7, DataKept DEF RowOK

\* promote_task_options keeps it sound: a staged pin is already the row's.
LEMMA PromoteKept ==
  ASSUME NEW d, DbOK(d), NEW g, NEW options,
         NEW e \in promote_task_options(d, g, options)
  PROVE  Kept(d, e)
  <1> DEFINE s == [d.tasks[g] EXCEPT !.current = options, !.staged = {}]
  <1>1. g \in DOMAIN d.tasks /\ d.tasks[g].staged = options /\ e = [d EXCEPT !.tasks[g].current = options, !.tasks[g].staged = {}]
    BY DEF promote_task_options
  <1>2. RowOK(d.tasks[g]) /\ IsRow(d.tasks[g]) /\ DbShape(d) BY <1>1, RowOf
  <1>3. e = Renewed(d, g, s) BY <1>1, <1>2 DEF Renewed, DbShape, Holding
  <1>4. IsRow(s) /\ Agree(d.tasks[g], s, DataFields) /\ s.current = options /\ s.staged = {}
    BY <1>2 DEF IsRow, Agree, RowFields, DataFields
  <1>5. s.sources = d.tasks[g].sources /\ s.challenge = d.tasks[g].challenge /\ s.journal = d.tasks[g].journal
    BY <1>2 DEF IsRow, RowFields
  <1> HIDE DEF s
  <1>7. RowFollows(d.tasks[g], s) /\ (Is(s.challenge) => d.tasks[g].queue = "Paused") /\ \A x \in s.sources : source_ok(x)
    BY <1>1, <1>2, <1>4, <1>5, OptionsFollow, Options DEF RowOK, validate_task_sources_for_write, require_paused_task, Members
  <1> QED BY <1>1, <1>2, <1>3, <1>4, <1>5, <1>7, DataKept DEF RowOK

\* replace_task_sources keeps it sound.
LEMMA SourcesKept ==
  ASSUME NEW d, DbOK(d), NEW g, NEW sources,
         NEW e \in replace_task_sources(d, g, sources)
  PROVE  Kept(d, e)
  <1> DEFINE s == [d.tasks[g] EXCEPT !.sources = sources]
  <1>1. g \in DOMAIN d.tasks /\ validate_task_sources_for_write(sources) /\ e = [d EXCEPT !.tasks[g].sources = sources]
    BY DEF replace_task_sources, replace_task_sources_in_transaction
  <1>2. RowOK(d.tasks[g]) /\ IsRow(d.tasks[g]) /\ DbShape(d) BY <1>1, RowOf
  <1>3. e = Renewed(d, g, s) BY <1>1, <1>2 DEF Renewed, DbShape, Holding
  <1>4. IsRow(s) /\ Agree(d.tasks[g], s, DataFields) /\ s.sources = sources
    BY <1>2 DEF IsRow, Agree, RowFields, DataFields
  <1>5. s.challenge = d.tasks[g].challenge /\ s.current = d.tasks[g].current /\ s.staged = d.tasks[g].staged /\ s.journal = d.tasks[g].journal
    BY <1>2 DEF IsRow, RowFields
  <1> HIDE DEF s
  <1>7. RowFollows(d.tasks[g], s) /\ (Is(s.challenge) => d.tasks[g].queue = "Paused") /\ \A x \in s.sources : source_ok(x)
    BY <1>1, <1>2, <1>4, <1>5, OptionsFollow, Options DEF RowOK, validate_task_sources_for_write, require_paused_task, Members
  <1> QED BY <1>1, <1>2, <1>3, <1>4, <1>5, <1>7, DataKept DEF RowOK

\* put_host_key_challenge keeps it sound: only a paused task is challenged.
LEMMA ChallengeKept ==
  ASSUME NEW d, DbOK(d), NEW g, NEW id, NEW key,
         NEW e \in put_host_key_challenge(d, g, id, key)
  PROVE  Kept(d, e)
  <1> DEFINE s == [d.tasks[g] EXCEPT !.challenge = Some([id |-> id, key |-> key])]
  <1>1. g \in DOMAIN d.tasks /\ d.tasks[g].queue = "Paused" /\ e = [d EXCEPT !.tasks[g].challenge = Some([id |-> id, key |-> key])]
    BY DEF put_host_key_challenge, require_paused_task, Members
  <1>2. RowOK(d.tasks[g]) /\ IsRow(d.tasks[g]) /\ DbShape(d) BY <1>1, RowOf
  <1>3. e = Renewed(d, g, s) BY <1>1, <1>2 DEF Renewed, DbShape, Holding
  <1>4. IsRow(s) /\ Agree(d.tasks[g], s, DataFields) /\ s.challenge = Some([id |-> id, key |-> key])
    BY <1>2 DEF IsRow, Agree, RowFields, DataFields
  <1>5. s.sources = d.tasks[g].sources /\ s.current = d.tasks[g].current /\ s.staged = d.tasks[g].staged /\ s.journal = d.tasks[g].journal
    BY <1>2 DEF IsRow, RowFields
  <1> HIDE DEF s
  <1>7. RowFollows(d.tasks[g], s) /\ (Is(s.challenge) => d.tasks[g].queue = "Paused") /\ \A x \in s.sources : source_ok(x)
    BY <1>1, <1>2, <1>4, <1>5, OptionsFollow, Options DEF RowOK, validate_task_sources_for_write, require_paused_task, Members
  <1> QED BY <1>1, <1>2, <1>3, <1>4, <1>5, <1>7, DataKept DEF RowOK

\* reject_host_key_challenge keeps it sound.
LEMMA RejectKept ==
  ASSUME NEW d, DbOK(d), NEW g, NEW id,
         NEW e \in reject_host_key_challenge(d, g, id)
  PROVE  Kept(d, e)
  <1> DEFINE s == [d.tasks[g] EXCEPT !.challenge = None]
  <1>1. g \in DOMAIN d.tasks /\ e = [d EXCEPT !.tasks[g].challenge = None] BY DEF reject_host_key_challenge
  <1>2. RowOK(d.tasks[g]) /\ IsRow(d.tasks[g]) /\ DbShape(d) BY <1>1, RowOf
  <1>3. e = Renewed(d, g, s) BY <1>1, <1>2 DEF Renewed, DbShape, Holding
  <1>4. IsRow(s) /\ Agree(d.tasks[g], s, DataFields) /\ s.challenge = None
    BY <1>2 DEF IsRow, Agree, RowFields, DataFields
  <1>5. s.sources = d.tasks[g].sources /\ s.current = d.tasks[g].current /\ s.staged = d.tasks[g].staged /\ s.journal = d.tasks[g].journal
    BY <1>2 DEF IsRow, RowFields
  <1> HIDE DEF s
  <1>7. RowFollows(d.tasks[g], s) /\ (Is(s.challenge) => d.tasks[g].queue = "Paused") /\ \A x \in s.sources : source_ok(x)
    BY <1>1, <1>2, <1>4, <1>5, OptionsFollow, Options DEF RowOK, validate_task_sources_for_write, require_paused_task, Members
  <1> QED BY <1>1, <1>2, <1>3, <1>4, <1>5, <1>7, DataKept DEF RowOK

\* An answer to a challenge writes the pin of the key it was asked about.
LEMMA ResolveKept ==
  ASSUME NEW d, DbOK(d), NEW g, NEW id, NEW key, NEW scope \in {"CurrentGeneration", "NextAdmission"}, NEW k \in Keys,
         NEW e \in resolve_host_key_challenge(d, g, id, key, scope, {Pin(k)})
  PROVE  Kept(d, e)
  <1> DEFINE r == d.tasks[g]
             o == IF scope = "CurrentGeneration" THEN [r EXCEPT !.current = {Pin(k)}] ELSE [r EXCEPT !.staged = {Pin(k)}]
             s == [o EXCEPT !.challenge = None]
             f == IF scope = "CurrentGeneration" THEN [d EXCEPT !.tasks[g].current = {Pin(k)}]
                  ELSE [d EXCEPT !.tasks[g].staged = {Pin(k)}]
  <1>1. /\ g \in DOMAIN d.tasks /\ r.challenge = Some([id |-> id, key |-> key]) /\ Pin(key) \in {Pin(k)}
        /\ e \in {[x EXCEPT !.tasks[g].challenge = None] : x \in replace_task_options(d, g, scope, {Pin(k)})}
    BY DEF resolve_host_key_challenge, require_paused_task, Members
  <1>2. e = [f EXCEPT !.tasks[g].challenge = None]
    BY <1>1 DEF replace_task_options, replace_task_options_in_transaction
  <1>3. RowOK(r) /\ IsRow(r) /\ DbShape(d) BY <1>1, RowOf
  <1>4. f = Renewed(d, g, o) BY <1>1, <1>3 DEF Renewed, DbShape, Holding
  <1>5. e = Renewed(d, g, s)
    <2> HIDE DEF f, o
    <2>1. f.tasks = [d.tasks EXCEPT ![g] = o] /\ f = [session |-> d.session, tasks |-> f.tasks]
      BY <1>4 DEF Renewed, Holding
    <2>2. f.tasks[g] = o /\ g \in DOMAIN f.tasks BY <1>1, <2>1
    <2>3. e = [session |-> d.session, tasks |-> [f.tasks EXCEPT ![g] = s]] BY <1>2, <2>1, <2>2
    <2>4. [f.tasks EXCEPT ![g] = s] = [d.tasks EXCEPT ![g] = s] BY <2>1
    <2> QED BY <2>3, <2>4 DEF Renewed, Holding
  <1>6. IsRow(s) /\ Agree(r, s, DataFields) /\ s.challenge = None /\ s.sources = r.sources
        /\ s.journal = r.journal /\ s.current \in {r.current, {Pin(k)}} /\ s.staged \in {r.staged, {Pin(k)}}
    BY <1>3 DEF IsRow, Agree, RowFields, DataFields
  <1> HIDE DEF s, o, f
  <1>9. RowFollows(r, s) BY <1>6, OptionsFollow
  <1> QED BY <1>1, <1>3, <1>5, <1>6, <1>9, DataKept, Options DEF RowOK

\* Sources and queue are replaced in one transaction.
LEMMA SourcesStill ==
  ASSUME NEW d, RowsOK(d), NEW g, NEW sources, NEW e \in replace_task_sources(d, g, sources)
  PROVE  /\ RowsOK(e)
         /\ DOMAIN e.tasks = DOMAIN d.tasks
         /\ \A h \in DOMAIN d.tasks : Agree(d.tasks[h], e.tasks[h], {"sources"})
  <1> DEFINE s == [d.tasks[g] EXCEPT !.sources = sources]
  <1>1. g \in DOMAIN d.tasks /\ validate_task_sources_for_write(sources) /\ e = [d EXCEPT !.tasks[g].sources = sources]
    BY DEF replace_task_sources, replace_task_sources_in_transaction
  <1>2. RowOK(d.tasks[g]) /\ IsRow(d.tasks[g]) /\ DbShape(d) BY <1>1 DEF RowsOK, RowOK
  <1>3. e = Renewed(d, g, s) BY <1>1, <1>2 DEF Renewed, DbShape, Holding
  <1>4. IsRow(s) /\ Agree(d.tasks[g], s, {"sources"}) /\ s.sources = sources /\ s.challenge = d.tasks[g].challenge
    BY <1>2 DEF IsRow, Agree, RowFields
  <1> HIDE DEF s
  <1>5. Agree(d.tasks[g], s, DataFields) BY <1>4 DEF Agree, DataFields
  <1>6. RowOK(s) BY <1>1, <1>2, <1>4, <1>5, RowData DEF RowOK, validate_task_sources_for_write
  <1>7. \A h \in DOMAIN d.tasks : Agree(d.tasks[h], d.tasks[h], {"sources"}) BY DEF Agree
  <1>8. /\ RowsOK(Renewed(d, g, s)) /\ DOMAIN Renewed(d, g, s).tasks = DOMAIN d.tasks /\ Renewed(d, g, s).tasks[g] = s
        /\ \A h \in DOMAIN d.tasks \ {g} : Renewed(d, g, s).tasks[h] = d.tasks[h]
    BY <1>1, <1>6, OneRow
  <1> QED BY <1>3, <1>4, <1>7, <1>8

\* replace_task_sources_and_queue keeps it sound.
LEMMA SourcesAndQueueKept ==
  ASSUME NEW d, DbOK(d), NEW g, NEW from, NEW to \in Live, NEW paused, NEW demotions, NEW slow \in {None, Some(0)},
         NEW orders, NEW sources, NEW now,
         NEW e \in replace_task_sources_and_queue(d, g, from, to, paused, demotions, slow, orders, sources, now)
  PROVE  Kept(d, e)
  <1> DEFINE X == apply_exact_queue_transition(d, g, from, to, paused, demotions, slow, orders, now)
  <1>1. from # "Stopped" /\ e \in QueuesValid(UNION {replace_task_sources(x, g, sources) : x \in X})
    BY DEF replace_task_sources_and_queue
  <1> HIDE DEF X
  <1>2. validate_dense_queues(e) /\ e \in UNION {replace_task_sources(x, g, sources) : x \in X}
    BY <1>1, QueuesValidFacts
  <1>3. PICK x \in X : e \in replace_task_sources(x, g, sources) BY <1>2
  <1>4. Transits(d, x, g, from, to, slow) BY <1>3, ExactMoves DEF X, DbOK, RowsOK
  <1>5. RowsOK(x) /\ Still(d, x) BY <1>1, <1>4, MoveStill DEF DbOK
  <1>6. /\ RowsOK(e) /\ DOMAIN e.tasks = DOMAIN x.tasks
        /\ \A h \in DOMAIN x.tasks : Agree(x.tasks[h], e.tasks[h], {"sources"})
    BY <1>3, <1>5, SourcesStill
  <1>7. ASSUME NEW h \in DOMAIN d.tasks PROVE RowFollows(d.tasks[h], e.tasks[h]) /\ e.tasks[h].bt = d.tasks[h].bt
    BY <1>5, <1>6, OptionsFollow DEF Still, Agree, RowFields, PlaceFields
  <1>8. ASSUME NEW h \in DOMAIN e.tasks \ DOMAIN d.tasks PROVE ~Is(e.tasks[h].bt) BY <1>4, <1>6 DEF Transits
  <1>9. DOMAIN d.tasks \subseteq DOMAIN e.tasks BY <1>5, <1>6 DEF Still
  <1> QED BY <1>2, <1>6, <1>7, <1>8, <1>9 DEF Kept, DbOK

---------------------------------------------------------------------------------
\* The replacement of a task's journal.

\* A row stays sound when its install intent explains its journal.
LEMMA RowInstall ==
  ASSUME NEW r, RowOK(r), NEW s, IsRow(s), Agree(r, s, {"install", "journal"}), InstallOK(s.install, s.journal),
         Is(s.journal) <=> Is(r.journal)
  PROVE  RowOK(s) /\ s.queue = r.queue /\ s.pos = r.pos /\ s.bt = r.bt /\ s.current = r.current /\ s.staged = r.staged
  <1>1. /\ s.kind = r.kind /\ s.queue = r.queue /\ s.paused = r.paused /\ s.slow = r.slow /\ s.pos = r.pos
        /\ s.demotions = r.demotions /\ s.layout = r.layout /\ s.root = r.root /\ s.sources = r.sources
        /\ s.noSpace = r.noSpace /\ s.created = r.created /\ s.challenge = r.challenge
        /\ s.result = r.result /\ s.bt = r.bt /\ s.current = r.current /\ s.staged = r.staged
    BY DEF Agree, RowFields
  <1> QED BY <1>1 DEF RowOK, PlaceOK, TaskTable, ResultOK

\* begin_journal_install keeps it sound.
LEMMA BeginInstallKept ==
  ASSUME NEW d, DbOK(d), NEW g, NEW old \in Journals, NEW new \in Journals, NEW e \in begin_journal_install(d, g, old, new)
  PROVE  Kept(d, e)
  <1> DEFINE i == [old |-> old, new |-> new, phase |-> "Installing"]
             s == [d.tasks[g] EXCEPT !.install = Some(i)]
  <1>1. /\ old # new /\ g \in DOMAIN d.tasks /\ d.tasks[g].journal = Some(old) /\ e = [d EXCEPT !.tasks[g].install = Some(i)]
    BY DEF begin_journal_install
  <1>2. RowOK(d.tasks[g]) /\ IsRow(d.tasks[g]) /\ DbShape(d) BY <1>1, RowOf
  <1>3. e = Renewed(d, g, s) BY <1>1, <1>2 DEF Renewed, DbShape, Holding
  <1>4. IsRow(s) /\ Agree(d.tasks[g], s, {"install", "journal"}) /\ s.install = Some(i) /\ s.journal = d.tasks[g].journal
    BY <1>2 DEF IsRow, Agree, RowFields
  <1>5. i \in Intents /\ i.old = old /\ i.new = new /\ i.phase = "Installing" BY DEF Intents
  <1> HIDE DEF s, i
  <1>6. InstallOK(s.install, s.journal) BY <1>1, <1>4, <1>5, Options DEF InstallOK, Maybe
  <1>7. /\ RowOK(s) /\ s.queue = d.tasks[g].queue /\ s.pos = d.tasks[g].pos /\ s.bt = d.tasks[g].bt
        /\ s.current = d.tasks[g].current /\ s.staged = d.tasks[g].staged
    BY <1>2, <1>4, <1>6, RowInstall
  <1>8. RowFollows(d.tasks[g], s) BY <1>4, <1>7, OptionsFollow
  <1> QED BY <1>1, <1>3, <1>7, <1>8, KeptRow

\* abort_journal_install and clear_installed_journal keep it sound.
LEMMA EndInstallKept ==
  ASSUME NEW d, DbOK(d), NEW g, NEW new, NEW e \in abort_journal_install(d, g, new) \cup clear_installed_journal(d, g, new)
  PROVE  Kept(d, e)
  <1> DEFINE s == [d.tasks[g] EXCEPT !.install = None]
  <1>1. g \in DOMAIN d.tasks /\ e = [d EXCEPT !.tasks[g].install = None]
    BY DEF abort_journal_install, clear_installed_journal, Installing
  <1>2. RowOK(d.tasks[g]) /\ IsRow(d.tasks[g]) /\ DbShape(d) BY <1>1, RowOf
  <1>3. e = Renewed(d, g, s) BY <1>1, <1>2 DEF Renewed, DbShape, Holding
  <1>4. IsRow(s) /\ Agree(d.tasks[g], s, {"install", "journal"}) /\ s.install = None /\ s.journal = d.tasks[g].journal
    BY <1>2 DEF IsRow, Agree, RowFields
  <1> HIDE DEF s
  <1>6. InstallOK(s.install, s.journal) BY <1>4, Options DEF InstallOK, Maybe
  <1>7. /\ RowOK(s) /\ s.queue = d.tasks[g].queue /\ s.pos = d.tasks[g].pos /\ s.bt = d.tasks[g].bt
        /\ s.current = d.tasks[g].current /\ s.staged = d.tasks[g].staged
    BY <1>2, <1>4, <1>6, RowInstall
  <1>8. RowFollows(d.tasks[g], s) BY <1>4, <1>7, OptionsFollow
  <1> QED BY <1>1, <1>3, <1>7, <1>8, KeptRow

\* complete_journal_install swaps the pointer the intent names and keeps it sound.
LEMMA CompleteInstallKept ==
  ASSUME NEW d, DbOK(d), NEW g, NEW new, NEW now, NEW e \in complete_journal_install(d, g, new, now)
  PROVE  Kept(d, e)
  <1> DEFINE r == d.tasks[g]
             old == The(r.install)
             i == [old EXCEPT !.phase = "Installed"]
             s == [r EXCEPT !.journal = Some(new), !.install = Some(i)]
  <1>1. /\ g \in DOMAIN d.tasks /\ Is(r.install) /\ old.phase = "Installing" /\ old.new = new
        /\ r.journal = Some(old.old)
        /\ e \in Written([d EXCEPT !.tasks[g].journal = Some(new),
                                   !.tasks[g].install = Some([The(@) EXCEPT !.phase = "Installed"])], {g}, now)
    BY DEF complete_journal_install, Installing
  <1>2. RowOK(r) /\ IsRow(r) /\ DbShape(d) BY <1>1, RowOf
  <1>3. e = [d EXCEPT !.tasks[g].journal = Some(new), !.tasks[g].install = Some([The(@) EXCEPT !.phase = "Installed"])]
    BY <1>1, WrittenFacts
  <1>4. e = Renewed(d, g, s)
    <2>1. e = [d EXCEPT !.tasks[g].journal = Some(new), !.tasks[g].install = Some(i)]
      BY <1>1, <1>2, <1>3 DEF DbShape, IsRow, RowFields
    <2> HIDE DEF i
    <2> QED BY <1>1, <1>2, <2>1 DEF Renewed, DbShape, Holding
  <1>5. old \in Intents /\ old.old # old.new BY <1>1, <1>2, MaybeFacts DEF RowOK, InstallOK
  <1>6. i \in Intents /\ i.old = old.old /\ i.new = new /\ i.phase = "Installed" BY <1>1, <1>5 DEF Intents
  <1> HIDE DEF i
  <1>7. IsRow(s) /\ Agree(r, s, {"install", "journal"}) /\ s.install = Some(i) /\ s.journal = Some(new)
    BY <1>2 DEF IsRow, Agree, RowFields
  <1> HIDE DEF s
  <1>8. InstallOK(s.install, s.journal) /\ (Is(s.journal) <=> Is(r.journal))
    BY <1>1, <1>5, <1>6, <1>7, Options DEF InstallOK, Maybe
  <1>9. /\ RowOK(s) /\ s.queue = r.queue /\ s.pos = r.pos /\ s.bt = r.bt
        /\ s.current = r.current /\ s.staged = r.staged
    BY <1>2, <1>7, <1>8, RowInstall
  <1>10. RowFollows(r, s) BY <1>1, <1>7, <1>9 DEF RowFollows
  <1> QED BY <1>1, <1>4, <1>9, <1>10, KeptRow

---------------------------------------------------------------------------------
\* The commands on torrents.

\* The record of one torrent is replaced by b.
Retorrented(d, e, g, b) ==
  /\ DbOK(e)
  /\ DOMAIN e.tasks = DOMAIN d.tasks
  /\ \A h \in DOMAIN d.tasks : RowFollows(d.tasks[h], e.tasks[h])
  /\ e.tasks[g].bt = Some(b)
  /\ \A h \in DOMAIN d.tasks \ {g} : e.tasks[h].bt = d.tasks[h].bt

\* A row stays sound when its torrent record is replaced.
LEMMA RowTorrent ==
  ASSUME NEW r, RowOK(r), Is(r.bt), NEW s, IsRow(s), Agree(r, s, {"bt", "current"}), NEW b \in TorrentRecords, s.bt = Some(b)
  PROVE  RowOK(s) /\ s.queue = r.queue /\ s.pos = r.pos /\ s.journal = r.journal /\ s.staged = r.staged
  <1>1. /\ s.kind = r.kind /\ s.queue = r.queue /\ s.paused = r.paused /\ s.slow = r.slow /\ s.pos = r.pos
        /\ s.demotions = r.demotions /\ s.layout = r.layout /\ s.root = r.root /\ s.sources = r.sources
        /\ s.noSpace = r.noSpace /\ s.created = r.created /\ s.challenge = r.challenge
        /\ s.result = r.result /\ s.staged = r.staged /\ s.journal = r.journal /\ s.install = r.install
    BY DEF Agree, RowFields
  <1>2. s.bt \in Maybe(TorrentRecords) /\ Is(s.bt) BY Options DEF Maybe
  <1> QED BY <1>1, <1>2 DEF RowOK, PlaceOK, TaskTable, ResultOK

\* A database stays sound when one torrent record is replaced.
LEMMA TorrentRenewed ==
  ASSUME NEW d, DbOK(d), NEW g \in DOMAIN d.tasks, NEW s, IsRow(s), Agree(d.tasks[g], s, {"bt", "current"}),
         NEW b \in TorrentRecords, s.bt = Some(b), Is(d.tasks[g].bt),
         NEW e, e = Renewed(d, g, s)
  PROVE  Retorrented(d, e, g, b)
  <1>1. RowOK(d.tasks[g]) BY RowOf
  <1>2. RowOK(s) /\ s.queue = d.tasks[g].queue /\ s.pos = d.tasks[g].pos /\ s.journal = d.tasks[g].journal
        /\ s.staged = d.tasks[g].staged
    BY <1>1, RowTorrent
  <1>4. RowFollows(d.tasks[g], s) BY <1>2, OptionsFollow
  <1>5. DbOK(e) BY <1>2, OneRowSound
  <1>6. DOMAIN e.tasks = DOMAIN d.tasks /\ e.tasks[g] = s /\ \A h \in DOMAIN d.tasks \ {g} : e.tasks[h] = d.tasks[h]
    BY <1>2, OneRow DEF DbOK
  <1>7. \A h \in DOMAIN d.tasks : RowFollows(d.tasks[h], d.tasks[h]) BY DEF RowFollows
  <1> QED BY <1>4, <1>5, <1>6, <1>7 DEF Retorrented

\* Writing a torrent record replaces that one.
LEMMA TorrentSet ==
  ASSUME NEW d, DbOK(d), NEW g, IsTorrent(d, g), NEW b \in TorrentRecords, NEW e \in SetTorrent(d, g, b)
  PROVE  Retorrented(d, e, g, b)
  <1> DEFINE s == [d.tasks[g] EXCEPT !.bt = Some(b)]
  <1>1. IsRow(d.tasks[g]) /\ DbShape(d) /\ g \in DOMAIN d.tasks /\ Is(d.tasks[g].bt) BY RowOf DEF IsTorrent
  <1>2. e = Renewed(d, g, s) BY <1>1 DEF SetTorrent, Renewed, DbShape, Holding
  <1>3. IsRow(s) /\ Agree(d.tasks[g], s, {"bt", "current"}) /\ s.bt = Some(b) /\ s.current = d.tasks[g].current
    BY <1>1 DEF IsRow, Agree, RowFields
  <1> HIDE DEF s
  <1> QED BY <1>1, <1>2, <1>3, TorrentRenewed

\* The record of a torrent is one of its kind.
LEMMA TorrentOf ==
  ASSUME NEW d, DbOK(d), NEW g, IsTorrent(d, g)
  PROVE  g \in DOMAIN d.tasks /\ g \in Gids /\ Torrent(d, g) \in TorrentRecords /\ d.tasks[g].bt = Some(Torrent(d, g))
  BY MaybeFacts DEF IsTorrent, Torrent, DbOK, RowsOK, RowOK, DbShape

\* A new torrent has no resume data and no request behind it.
Admitted(d, e, g, binding) ==
  /\ DbOK(e)
  /\ g \notin DOMAIN d.tasks
  /\ DOMAIN e.tasks = DOMAIN d.tasks \cup {g}
  /\ \A h \in DOMAIN d.tasks : Agree(d.tasks[h], e.tasks[h], {"pos"})
  /\ e.tasks[g].bt = Some(NewTorrentRow(0, binding))
NewTorrent(q, pos, paused, options, now, b) ==
  [NewRow("BitTorrent", q, pos, paused, None, options, now) EXCEPT !.bt = Some(b)]

\* The row of a new torrent is sound.
LEMMA NewTorrentOK ==
  ASSUME NEW q \in {"Waiting", "Paused"}, NEW pos, NEW paused, NEW options, NEW now \in Times, NEW b \in TorrentRecords
  PROVE  RowOK(NewTorrent(q, pos, paused, options, now, b)) /\ NewTorrent(q, pos, paused, options, now, b).bt = Some(b)
  <1> DEFINE s == NewTorrent(q, pos, paused, options, now, b)
  <1>1. /\ IsRow(s) /\ s.kind = "BitTorrent" /\ s.queue = q /\ s.slow = None /\ s.demotions = 0 /\ s.journal = None
        /\ s.layout = FALSE /\ s.root = FALSE /\ s.noSpace = FALSE /\ s.created = now /\ s.sources = {}
        /\ s.challenge = None /\ s.install = None /\ s.result = None /\ s.bt = Some(b)
    BY DEF NewTorrent, NewRow, IsRow, RowFields
  <1> HIDE DEF s
  <1>2. PlaceOK(s) BY <1>1 DEF PlaceOK, Queues
  <1>3. TaskTable(s) BY <1>1, Options DEF TaskTable
  <1>4. ResultOK(s) /\ ~Is(s.challenge) /\ Is(s.bt) BY <1>1, Options DEF ResultOK
  <1>5. InstallOK(s.install, s.journal) /\ s.bt \in Maybe(TorrentRecords)
    BY <1>1, Options DEF InstallOK, Maybe
  <1>7. RowOK(s) BY <1>1, <1>2, <1>3, <1>4, <1>5 DEF RowOK
  <1> QED BY <1>1, <1>7 DEF s

\* create_bt_task adds a torrent that has no resume data yet.
LEMMA CreateTorrentAdmits ==
  ASSUME NEW d, DbOK(d), NEW g \in Gids, NEW q \in {"Waiting", "Paused"}, NEW pos, NEW paused, NEW options, NEW now \in Times,
         NEW binding \in BtBindings, NEW e \in create_bt_task(d, g, q, pos, paused, options, 0, binding, now)
  PROVE  Admitted(d, e, g, binding)
  <1> DEFINE b == NewTorrentRow(0, binding)
             s == NewTorrent(q, pos, paused, options, now, b)
             o == OpenGap(d, q, pos)
  <1>1. binding_validate(binding) /\ validate_dense_queues(e) /\ g \notin DOMAIN d.tasks /\ e = Row(o, g, s)
    BY DEF create_bt_task, bt_insert_admission, NewTorrent
  <1>2. Repositioned(d, o) /\ DbShape(o) /\ DOMAIN o.tasks = DOMAIN d.tasks
    BY GapsReposition DEF DbOK, RowsOK, Repositioned
  <1>3. RowsOK(o) BY <1>2, RepositionedRows DEF DbOK
  <1>4. b \in TorrentRecords
    <2>1. 0 \in 0..MaxGenerations BY StoreAssumption
    <2>2. 0 \in {0, 1, 2, NoRequest} /\ None \in Maybe(Asks) BY DEF Maybe
    <2>3. b \in TorrentShapes /\ b.saved = b.generation /\ b.dirty /\ b.binding = binding
      BY <2>1, <2>2 DEF TorrentShapes, NewTorrentRow
    <2> QED BY <1>1, <2>3 DEF TorrentRecords, bt_row_valid
  <1>5. RowOK(s) /\ s.bt = Some(b)
    <2> HIDE DEF b
    <2> QED BY <1>4, NewTorrentOK
  <1> HIDE DEF s, o, b
  <1>6. /\ DbShape(e) /\ DOMAIN e.tasks = DOMAIN o.tasks \cup {g} /\ e.tasks[g] = s
        /\ \A h \in DOMAIN o.tasks \ {g} : e.tasks[h] = o.tasks[h]
    BY <1>5, <1>1, <1>2, RowWritten DEF RowOK
  <1>7. RowsOK(e) BY <1>3, <1>5, <1>6 DEF RowsOK
  <1>8. \A h \in DOMAIN d.tasks : Agree(d.tasks[h], e.tasks[h], {"pos"}) BY <1>1, <1>2, <1>6 DEF Repositioned
  <1>9. e.tasks[g].bt = Some(b) BY <1>5, <1>6
  <1> QED BY <1>1, <1>2, <1>6, <1>7, <1>8, <1>9 DEF Admitted, DbOK, b

\* persist_bt_terminal keeps the database sound.
LEMMA TerminalKept ==
  ASSUME NEW d, DbOK(d), NEW g, NEW result, NEW from, NEW paused, NEW orders, NEW generation, NEW req, NEW now,
         NEW f \in persist_bt_terminal(d, g, result, from, "Stopped", paused, orders, generation, req, now)
  PROVE  Kept(d, f)
  <1> DEFINE S == apply_exact_queue_transition(d, g, from, "Stopped", paused, 0, None, orders, now)
  <1>1. validate_stopped_result(result) /\ f \in QueuesValid(Recorded(S, g, result))
    BY DEF persist_bt_terminal
  <1> HIDE DEF S
  <1>2. validate_dense_queues(f) /\ f \in Recorded(S, g, result) BY <1>1, QueuesValidFacts
  <1>4. PICK e \in S : f \in Recorded({e}, g, result) BY <1>2, RecordedOne
  <1>5. Transits(d, e, g, from, "Stopped", None) BY <1>4, ExactMoves DEF DbOK, RowsOK, S
  <1>6. RowsOK(f) /\ Still(d, f) BY <1>1, <1>4, <1>5, StopStill DEF DbOK
  <1> QED BY <1>2, <1>6, StillKept DEF DbOK

---------------------------------------------------------------------------------
\* Checkpoints: what was asked of the engine against what the rows say.

\* The resume data of torrent t of task g is an answer to a request that is
\* no newer than the one the row has recorded.
BlobOK(t, g, A, S) ==
  Is(t.blob) =>
    /\ The(t.blob) \in A /\ The(t.blob).gid = g /\ The(t.blob).setup = S[g]
    /\ \/ The(t.blob).generation < t.generation
       \/ The(t.blob).generation = t.generation /\ The(t.blob).request <= t.request
\* A request of the current generation that was made under other options
\* comes too late.
AskOK(a, t, S) ==
  /\ a.generation <= t.generation
  /\ a.generation = t.generation /\ a.setup # S[a.gid] => t.request = NoRequest
AskInv(d, A, S) ==
  /\ A \subseteq Asks
  /\ S \in [Gids -> 0..1]
  /\ \A a \in A : IsTorrent(d, a.gid) /\ AskOK(a, Torrent(d, a.gid), S)
  /\ \A g \in DOMAIN d.tasks : IsTorrent(d, g) => BlobOK(Torrent(d, g), g, A, S)

\* A newer answer replaces an older one, never the other way round.
BlobFollows(t, u) ==
  Is(t.blob) /\ Is(u.blob) =>
    \/ The(t.blob).generation < The(u.blob).generation
    \/ The(t.blob).generation = The(u.blob).generation /\ The(t.blob).request <= The(u.blob).request
BlobsFollow(d, e) ==
  \A g \in DOMAIN d.tasks \cap DOMAIN e.tasks :
    IsTorrent(d, g) /\ IsTorrent(e, g) => BlobFollows(Torrent(d, g), Torrent(e, g))
Follows(d, e) == \A g \in DOMAIN d.tasks \cap DOMAIN e.tasks : RowFollows(d.tasks[g], e.tasks[g])

\* Equal records are the same torrent.
LEMMA TorrentsEqual ==
  ASSUME NEW d, NEW e, NEW g, g \in DOMAIN d.tasks <=> g \in DOMAIN e.tasks, e.tasks[g].bt = d.tasks[g].bt
  PROVE  (IsTorrent(e, g) <=> IsTorrent(d, g)) /\ Torrent(e, g) = Torrent(d, g)
  BY DEF IsTorrent, Torrent

\* Resume data that stays is not replaced by older data.
LEMMA BlobStays ==
  ASSUME NEW d, DbOK(d), NEW g, IsTorrent(d, g)
  PROVE  BlobFollows(Torrent(d, g), Torrent(d, g))
  <1>1. Torrent(d, g) \in TorrentRecords BY TorrentOf
  <1>2. ASSUME Is(Torrent(d, g).blob) PROVE The(Torrent(d, g).blob) \in Asks
    BY <1>1, <1>2, MaybeFacts DEF TorrentRecords, TorrentShapes
  <1>3. ASSUME NEW a \in Asks PROVE a.request \in Nat BY <1>3 DEF Asks
  <1> QED BY <1>2, <1>3 DEF BlobFollows

\* A kept database keeps the invariant of the checkpoints.
LEMMA KeptAsks ==
  ASSUME NEW d, DbOK(d), NEW e, Kept(d, e), NEW A, NEW S, AskInv(d, A, S)
  PROVE  DbOK(e) /\ AskInv(e, A, S) /\ Follows(d, e) /\ BlobsFollow(d, e)
  <1>1. ASSUME NEW g \in DOMAIN d.tasks PROVE (IsTorrent(e, g) <=> IsTorrent(d, g)) /\ Torrent(e, g) = Torrent(d, g)
    BY TorrentsEqual DEF Kept
  <1>2. \A g \in DOMAIN e.tasks \ DOMAIN d.tasks : ~IsTorrent(e, g) BY DEF Kept, IsTorrent
  <1>3. \A g : IsTorrent(d, g) => g \in DOMAIN d.tasks BY DEF IsTorrent
  <1>4. \A a \in A : IsTorrent(e, a.gid) /\ AskOK(a, Torrent(e, a.gid), S) BY <1>1, <1>3 DEF AskInv
  <1>5. \A g \in DOMAIN e.tasks : IsTorrent(e, g) => BlobOK(Torrent(e, g), g, A, S) BY <1>1, <1>2 DEF AskInv
  <1>6. BlobsFollow(d, e) BY <1>1, BlobStays DEF BlobsFollow
  <1> QED BY <1>4, <1>5, <1>6 DEF AskInv, Kept, Follows

\* A deleted task takes its checkpoints with it.
LEMMA ForgottenAsks ==
  ASSUME NEW d, DbOK(d), NEW e, NEW g, DbOK(e), Forgotten(d, e, g), NEW A, NEW S, AskInv(d, A, S)
  PROVE  AskInv(e, {a \in A : a.gid # g}, S) /\ Follows(d, e) /\ BlobsFollow(d, e)
  <1> DEFINE B == {a \in A : a.gid # g}
  <1>1. \A h \in DOMAIN e.tasks : h \in DOMAIN d.tasks /\ h # g /\ RowFollows(d.tasks[h], e.tasks[h])
                                   /\ e.tasks[h].bt = d.tasks[h].bt
    BY AgreeFollows DEF Forgotten, Agree, PlaceFields
  <1>2. ASSUME NEW h \in DOMAIN e.tasks PROVE (IsTorrent(e, h) <=> IsTorrent(d, h)) /\ Torrent(e, h) = Torrent(d, h)
    BY <1>1, TorrentsEqual
  <1>3. ASSUME NEW a \in B PROVE a \in A /\ a.gid # g /\ a.gid \in DOMAIN e.tasks
    BY DEF AskInv, IsTorrent, Forgotten
  <1>4. \A a \in B : IsTorrent(e, a.gid) /\ AskOK(a, Torrent(e, a.gid), S) BY <1>2, <1>3 DEF AskInv
  <1>5. ASSUME NEW h \in DOMAIN e.tasks, IsTorrent(e, h) PROVE BlobOK(Torrent(e, h), h, B, S)
    BY <1>1, <1>2, <1>5 DEF AskInv, BlobOK
  <1>6. BlobsFollow(d, e) BY <1>1, <1>2, BlobStays DEF BlobsFollow
  <1>7. B \subseteq Asks BY DEF AskInv
  <1> HIDE DEF B
  <1>8. AskInv(e, B, S) BY <1>4, <1>5, <1>7 DEF AskInv
  <1> QED BY <1>1, <1>6, <1>8 DEF B, Follows

\* A new torrent has no checkpoints.
LEMMA AdmittedAsks ==
  ASSUME NEW d, DbOK(d), NEW e, NEW g, NEW binding, Admitted(d, e, g, binding), NEW A, NEW S, AskInv(d, A, S)
  PROVE  DbOK(e) /\ AskInv(e, A, S) /\ Follows(d, e) /\ BlobsFollow(d, e)
  <1>1. \A h \in DOMAIN d.tasks : RowFollows(d.tasks[h], e.tasks[h]) /\ e.tasks[h].bt = d.tasks[h].bt /\ h \in DOMAIN e.tasks
    BY AgreeFollows DEF Admitted, Agree, PlaceFields
  <1>2. ASSUME NEW h \in DOMAIN d.tasks PROVE (IsTorrent(e, h) <=> IsTorrent(d, h)) /\ Torrent(e, h) = Torrent(d, h)
    BY <1>1, TorrentsEqual
  <1>3. \A h : IsTorrent(d, h) => h \in DOMAIN d.tasks BY DEF IsTorrent
  <1>4. \A a \in A : IsTorrent(e, a.gid) /\ AskOK(a, Torrent(e, a.gid), S) BY <1>2, <1>3 DEF AskInv
  <1>5. ~Is(Torrent(e, g).blob)
    <2> DEFINE b == NewTorrentRow(0, binding)
    <2>1. b.blob = None BY DEF NewTorrentRow
    <2>2. e.tasks[g].bt = Some(b) BY DEF Admitted
    <2> HIDE DEF b
    <2> QED BY <2>1, <2>2, Options DEF Torrent
  <1>6. \A h \in DOMAIN e.tasks : IsTorrent(e, h) => BlobOK(Torrent(e, h), h, A, S)
    BY <1>5, <1>2 DEF BlobOK, AskInv, Admitted
  <1>7. BlobsFollow(d, e) BY <1>2, BlobStays DEF BlobsFollow
  <1> QED BY <1>1, <1>4, <1>6, <1>7 DEF AskInv, Follows, Admitted

\* W is S but for the count of g's option changes, and b answers for g.
Answers(b, g, A, S, W) ==
  /\ W \in [Gids -> 0..1]
  /\ \A h \in Gids \ {g} : W[h] = S[h]
  /\ \A a \in A : a.gid = g => AskOK(a, b, W)
  /\ BlobOK(b, g, A, W)
\* A torrent's record is replaced, and perhaps the count of its option changes.
LEMMA RetorrentedAsks ==
  ASSUME NEW d, DbOK(d), NEW e, NEW g, IsTorrent(d, g), NEW b \in TorrentRecords, Retorrented(d, e, g, b),
         NEW A, NEW S, AskInv(d, A, S), NEW W, Answers(b, g, A, S, W), BlobFollows(Torrent(d, g), b)
  PROVE  DbOK(e) /\ AskInv(e, A, W) /\ Follows(d, e) /\ BlobsFollow(d, e)
  <1>1. g \in DOMAIN d.tasks /\ Torrent(e, g) = b /\ IsTorrent(e, g)
    BY Options DEF Retorrented, Torrent, IsTorrent
  <1>2. ASSUME NEW h \in DOMAIN d.tasks, h # g PROVE (IsTorrent(e, h) <=> IsTorrent(d, h)) /\ Torrent(e, h) = Torrent(d, h)
    BY <1>2, TorrentsEqual DEF Retorrented
  <1>3. \A h : IsTorrent(d, h) => h \in DOMAIN d.tasks /\ h \in Gids BY TorrentOf
  <1>4. ASSUME NEW a \in A PROVE IsTorrent(e, a.gid) /\ AskOK(a, Torrent(e, a.gid), W)
    BY <1>1, <1>2, <1>3 DEF AskInv, Answers, AskOK
  <1>5. ASSUME NEW h \in DOMAIN e.tasks, IsTorrent(e, h) PROVE BlobOK(Torrent(e, h), h, A, W)
    <2>1. CASE h = g BY <1>1, <2>1 DEF Answers
    <2>2. CASE h # g BY <1>2, <1>3, <1>5, <2>2 DEF Retorrented, AskInv, Answers, BlobOK
    <2> QED BY <2>1, <2>2
  <1>6. BlobsFollow(d, e) BY <1>1, <1>2, BlobStays DEF BlobsFollow
  <1> QED BY <1>4, <1>5, <1>6 DEF AskInv, Follows, Retorrented, Answers

\* Fields of a torrent's record and of a request.
LEMMA TorrentFields ==
  ASSUME NEW t \in TorrentRecords
  PROVE  /\ t.generation \in 0..MaxGenerations /\ t.saved \in 0..MaxGenerations /\ t.request \in {0, 1, 2, NoRequest}
         /\ t.blob \in Maybe(Asks) /\ t.generation \in Nat /\ t.request \in Nat
         /\ (Is(t.blob) => The(t.blob) \in Asks)
  <1>1. /\ t.generation \in 0..MaxGenerations /\ t.saved \in 0..MaxGenerations /\ t.request \in {0, 1, 2, NoRequest}
        /\ t.blob \in Maybe(Asks)
    BY DEF TorrentRecords, TorrentShapes
  <1>2. t.generation \in Nat /\ t.request \in Nat BY <1>1 DEF NoRequest
  <1> QED BY <1>1, <1>2, MaybeFacts

\* A record like a torrent's that keeps its binding is one when its generations
\* agree and it is clean only with resume data.
LEMMA RecordLike ==
  ASSUME NEW t \in TorrentRecords, NEW b \in TorrentShapes, b.saved = b.generation, ~b.dirty => Is(b.blob),
         b.binding = t.binding \/ binding_validate(b.binding)
  PROVE  b \in TorrentRecords
  BY DEF TorrentRecords, bt_row_valid

\* The fields of a checkpoint a worker asked for.
LEMMA AskFields ==
  ASSUME NEW a \in Asks
  PROVE  /\ a.gid \in Gids /\ a.generation \in 0..MaxGenerations /\ a.request \in 1..2 /\ a.setup \in 0..1
         /\ a.generation \in Nat /\ a.request \in Nat
  BY DEF Asks

\* begin_bt_generation: the checkpoints asked for before it belong to an earlier generation.
LEMMA GenerationAsks ==
  ASSUME NEW d, DbOK(d), NEW g, NEW expected, NEW generation \in 0..MaxGenerations, NEW A, NEW S, AskInv(d, A, S),
         generation = expected => \A a \in A : a.gid # g, NEW e \in begin_bt_generation(d, g, expected, generation)
  PROVE  DbOK(e) /\ AskInv(e, A, S) /\ Follows(d, e) /\ BlobsFollow(d, e)
  <1> DEFINE t == Torrent(d, g)
             b == [t EXCEPT !.generation = generation, !.saved = generation, !.dirty = TRUE, !.request = 0]
  <1>1. /\ ~(generation < expected) /\ IsTorrent(d, g) /\ t.generation = expected
        /\ e \in SetTorrent(d, g, b)
    BY DEF begin_bt_generation
  <1>2. g \in DOMAIN d.tasks /\ g \in Gids /\ t \in TorrentRecords BY <1>1, TorrentOf
  <1>3. b \in TorrentRecords /\ b.generation = generation /\ b.request = 0 /\ b.blob = t.blob
    <2>1. t \in TorrentShapes BY <1>2 DEF TorrentRecords
    <2>2. /\ b \in TorrentShapes /\ b.generation = generation /\ b.saved = generation /\ b.request = 0 /\ b.blob = t.blob
          /\ b.dirty /\ b.binding = t.binding
      BY <2>1 DEF TorrentShapes
    <2> HIDE DEF b, t
    <2> QED BY <1>2, <2>2, RecordLike
  <1>4. t.generation \in Nat /\ generation \in Nat /\ (Is(t.blob) => The(t.blob) \in Asks)
    BY <1>2, TorrentFields
  <1>5. BlobOK(t, g, A, S) /\ \A a \in A : a.gid = g => AskOK(a, t, S) BY <1>1, <1>2 DEF AskInv
  <1> HIDE DEF t, b
  <1>6. Retorrented(d, e, g, b) BY <1>1, <1>2, <1>3, TorrentSet
  <1>7. \A a \in A : a \in Asks BY DEF AskInv
  <1>8. ASSUME NEW a \in A, a.gid = g PROVE AskOK(a, b, S)
    BY <1>5, <1>7, <1>8, AskFields, <1>1, <1>4, <1>3 DEF AskOK
  <1>9. BlobOK(b, g, A, S)
    <2>1. ASSUME Is(t.blob) PROVE expected < generation /\ The(t.blob).generation \in Nat
      BY <1>5, <2>1, <1>1, <1>4, <1>7, AskFields DEF BlobOK
    <2> QED BY <1>1, <1>3, <1>4, <1>5, <2>1 DEF BlobOK
  <1>10. BlobFollows(t, b) BY <1>4, AskFields, <1>3 DEF BlobFollows
  <1>11. S \in [Gids -> 0..1] BY DEF AskInv
  <1> QED BY <1>1, <1>3, <1>6, <1>8, <1>9, <1>10, <1>11, RetorrentedAsks DEF t, Answers

\* checkpoint_bt stores an answer only when it is newer, of the current setup and not empty.
LEMMA CheckpointAsks ==
  ASSUME NEW d, DbOK(d), NEW g, NEW A, NEW S, AskInv(d, A, S), NEW a \in A, a.gid = g,
         NEW resume \in {None, Some(None), Some(Some(a))}, NEW e \in checkpoint_bt(d, g, a.generation, a.request, resume)
  PROVE  DbOK(e) /\ AskInv(e, A, S) /\ Follows(d, e) /\ BlobsFollow(d, e)
  <1> DEFINE t == Torrent(d, g)
             b == Checkpointed(t, a.request, resume)
  <1>1. /\ IsTorrent(d, g) /\ t.generation = a.generation /\ ~(t.request >= a.request) /\ e \in SetTorrent(d, g, b)
        /\ resume \in {None, Some(Some(a))}
    BY DEF checkpoint_bt
  <1>2. g \in DOMAIN d.tasks /\ g \in Gids /\ t \in TorrentRecords BY <1>1, TorrentOf
  <1>3. a \in Asks /\ a.request \in 1..2 /\ a.request \in Nat /\ a.generation \in Nat BY AskFields DEF AskInv
  <1>4. b \in TorrentRecords /\ b.generation = t.generation /\ b.request = a.request /\ b.blob \in {t.blob, Some(a)}
    <2>1. Some(a) \in Maybe(Asks) /\ a.request \in {0, 1, 2, NoRequest} BY <1>3 DEF Maybe
    <2>2. t \in TorrentShapes /\ t.saved = t.generation BY <1>2 DEF TorrentRecords, bt_row_valid
    <2> DEFINE m == IF Is(resume) THEN The(resume) ELSE t.blob
               u == ~Is(resume)
    <2>3. m \in {t.blob, Some(a)} /\ (~u => m = Some(a)) /\ u \in BOOLEAN BY <1>1, Options
    <2>4. b = [t EXCEPT !.blob = m, !.dirty = u, !.request = a.request] BY DEF Checkpointed
    <2> HIDE DEF m, u, b, t
    <2>5. t.blob \in Maybe(Asks) BY <2>2 DEF TorrentShapes
    <2>6. m \in Maybe(Asks) BY <2>1, <2>3, <2>5
    <2>7. /\ b \in TorrentShapes /\ b.generation = t.generation /\ b.saved = t.saved /\ b.request = a.request /\ b.blob = m
          /\ b.dirty = u /\ b.binding = t.binding
      BY <2>1, <2>2, <2>3, <2>4, <2>6 DEF TorrentShapes
    <2>8. ~b.dirty => Is(b.blob) BY <2>3, <2>7, Options
    <2> QED BY <1>2, <2>2, <2>3, <2>7, <2>8, RecordLike
  <1>5. t.request \in Nat /\ t.request < a.request /\ t.request # NoRequest /\ (Is(t.blob) => The(t.blob) \in Asks)
    BY <1>1, <1>2, <1>3, TorrentFields DEF NoRequest
  <1>6. BlobOK(t, g, A, S) /\ \A x \in A : x.gid = g => AskOK(x, t, S) BY <1>1, <1>2 DEF AskInv
  <1>0. BlobFollows(t, t) BY <1>1, BlobStays
  <1> HIDE DEF t, b
  <1>7. Retorrented(d, e, g, b) BY <1>1, <1>2, <1>4, TorrentSet
  <1>8. a.setup = S[g] BY <1>1, <1>5, <1>6 DEF AskOK
  <1>9. \A x \in A : x.gid = g => AskOK(x, b, S) BY <1>4, <1>5, <1>6 DEF AskOK
  <1>10. BlobOK(b, g, A, S)
    <2>1. CASE b.blob = Some(a) BY <1>1, <1>3, <1>4, <1>8, <2>1, Options DEF BlobOK
    <2>2. CASE b.blob = t.blob
      <3>1. ASSUME Is(t.blob) PROVE The(t.blob).request \in Nat BY <1>5, <3>1, AskFields
      <3> QED BY <1>3, <1>4, <1>5, <1>6, <2>2, <3>1 DEF BlobOK
    <2> QED BY <1>4, <2>1, <2>2
  <1>11. BlobFollows(t, b)
    <2>1. ASSUME Is(t.blob)
          PROVE  \/ The(t.blob).generation < a.generation
                 \/ The(t.blob).generation = a.generation /\ The(t.blob).request <= a.request
      BY <1>5, <2>1, AskFields, <1>6, <1>1, <1>3 DEF BlobOK
    <2> QED BY <1>0, <1>4, <2>1, Options DEF BlobFollows
  <1>12. S \in [Gids -> 0..1] BY DEF AskInv
  <1> QED BY <1>1, <1>4, <1>7, <1>9, <1>10, <1>11, <1>12, RetorrentedAsks DEF t, Answers

\* A record that keeps generation, request and resume data keeps the checkpoints' invariant.
LEMMA SameResumeAsks ==
  ASSUME NEW d, DbOK(d), NEW g, IsTorrent(d, g), NEW A, NEW S, AskInv(d, A, S), NEW b \in TorrentRecords,
         b.generation = Torrent(d, g).generation, b.request = Torrent(d, g).request, b.blob = Torrent(d, g).blob,
         NEW e \in SetTorrent(d, g, b)
  PROVE  DbOK(e) /\ AskInv(e, A, S) /\ Follows(d, e) /\ BlobsFollow(d, e)
  <1> DEFINE t == Torrent(d, g)
  <1>3. g \in DOMAIN d.tasks /\ g \in Gids /\ t \in TorrentRecords BY TorrentOf
  <1>5. BlobOK(t, g, A, S) /\ (\A x \in A : x.gid = g => AskOK(x, t, S)) /\ BlobFollows(t, t)
    BY <1>3, BlobStays DEF AskInv
  <1>6. Retorrented(d, e, g, b) BY TorrentSet
  <1>4. b.generation = t.generation /\ b.request = t.request /\ b.blob = t.blob OBVIOUS
  <1> HIDE DEF t
  <1>7. (\A x \in A : x.gid = g => AskOK(x, b, S)) /\ BlobOK(b, g, A, S) /\ BlobFollows(t, b)
    BY <1>4, <1>5 DEF AskOK, BlobOK, BlobFollows
  <1>8. S \in [Gids -> 0..1] BY DEF AskInv
  <1> QED BY <1>6, <1>7, <1>8, RetorrentedAsks DEF t, Answers

\* mark_bt_dirty leaves the resume data.
LEMMA MarkAsks ==
  ASSUME NEW d, DbOK(d), NEW g, NEW A, NEW S, AskInv(d, A, S), NEW generation, NEW e \in mark_bt_dirty(d, g, generation)
  PROVE  DbOK(e) /\ AskInv(e, A, S) /\ Follows(d, e) /\ BlobsFollow(d, e)
  <1> DEFINE t == Torrent(d, g)
             b == [t EXCEPT !.dirty = TRUE]
  <1>1. IsTorrent(d, g) /\ e \in SetTorrent(d, g, b) BY DEF mark_bt_dirty
  <1>2. t \in TorrentRecords /\ t \in TorrentShapes /\ t.saved = t.generation
    BY <1>1, TorrentOf DEF TorrentRecords, bt_row_valid
  <1>3. /\ b \in TorrentShapes /\ b.saved = b.generation /\ b.dirty /\ b.binding = t.binding
        /\ b.generation = t.generation /\ b.request = t.request /\ b.blob = t.blob
    BY <1>2 DEF TorrentShapes
  <1> HIDE DEF b
  <1>4. b \in TorrentRecords
    <2> HIDE DEF t
    <2> QED BY <1>2, <1>3, RecordLike
  <1> QED BY <1>1, <1>3, <1>4, SameResumeAsks

\* bind_bt_metadata stores a valid binding and leaves the resume data.
LEMMA BindAsks ==
  ASSUME NEW d, DbOK(d), NEW g, NEW A, NEW S, AskInv(d, A, S), NEW generation, NEW binding \in BtBindings,
         NEW e \in bind_bt_metadata(d, g, generation, binding)
  PROVE  DbOK(e) /\ AskInv(e, A, S) /\ Follows(d, e) /\ BlobsFollow(d, e)
  <1> DEFINE t == Torrent(d, g)
             b == [t EXCEPT !.binding = binding]
  <1>1. binding_validate(binding) /\ IsTorrent(d, g) /\ e \in SetTorrent(d, g, b) BY DEF bind_bt_metadata
  <1>2. t \in TorrentRecords /\ t \in TorrentShapes /\ t.saved = t.generation /\ (~t.dirty => Is(t.blob))
    BY <1>1, TorrentOf DEF TorrentRecords, bt_row_valid
  <1>3. /\ b \in TorrentShapes /\ b.saved = t.saved /\ b.dirty = t.dirty /\ b.binding = binding
        /\ b.generation = t.generation /\ b.request = t.request /\ b.blob = t.blob
    BY <1>2 DEF TorrentShapes
  <1> HIDE DEF b
  <1>4. b \in TorrentRecords
    <2> HIDE DEF t
    <2> QED BY <1>1, <1>2, <1>3, RecordLike
  <1> QED BY <1>1, <1>3, <1>4, SameResumeAsks

\* replace_paused_bt_options drops the resume data and refuses what was asked for before.
LEMMA RestartOptionsAsks ==
  ASSUME NEW d, DbOK(d), NEW g, NEW A, NEW S, AskInv(d, A, S), NEW generation, NEW expected, NEW options,
         NEW binding \in BtBindings, NEW e \in replace_paused_bt_options(d, g, generation, expected, options, binding)
  PROVE  DbOK(e) /\ AskInv(e, A, [S EXCEPT ![g] = 1]) /\ Follows(d, e) /\ BlobsFollow(d, e)
  <1> DEFINE t == Torrent(d, g)
             f == [d EXCEPT !.tasks[g].current = options]
             o == [d.tasks[g] EXCEPT !.current = options]
             b == [t EXCEPT !.binding = binding, !.blob = None, !.dirty = TRUE, !.request = NoRequest]
             s == [o EXCEPT !.bt = Some(b)]
             W == [S EXCEPT ![g] = 1]
  <1>1. /\ IsTorrent(d, g) /\ binding_validate(binding)
        /\ e \in UNION {SetTorrent(x, g, [Torrent(x, g) EXCEPT !.binding = binding, !.blob = None, !.dirty = TRUE,
                                                               !.request = NoRequest]) :
                         x \in replace_task_options(d, g, "CurrentGeneration", options)}
    BY DEF replace_paused_bt_options, OptionsRefused
  <1>2. g \in DOMAIN d.tasks /\ g \in Gids /\ t \in TorrentRecords /\ RowOK(d.tasks[g]) /\ IsRow(d.tasks[g]) /\ DbShape(d)
    BY <1>1, TorrentOf, RowOf
  <1>3. replace_task_options(d, g, "CurrentGeneration", options) = {f}
    BY <1>2 DEF replace_task_options, replace_task_options_in_transaction
  <1>4. e \in SetTorrent(f, g, [Torrent(f, g) EXCEPT !.binding = binding, !.blob = None, !.dirty = TRUE, !.request = NoRequest])
    BY <1>1, <1>3
  <1>5. f = Renewed(d, g, o) BY <1>2 DEF Renewed, DbShape, Holding
  <1>6. IsRow(o) /\ Agree(d.tasks[g], o, {"current"}) /\ o.current = options /\ o.bt = d.tasks[g].bt
    BY <1>2 DEF IsRow, Agree, RowFields
  <1> HIDE DEF f, o
  <1>7. f.tasks = [d.tasks EXCEPT ![g] = o] /\ f = [session |-> d.session, tasks |-> f.tasks]
    BY <1>5 DEF Renewed, Holding
  <1>8. f.tasks[g] = o /\ g \in DOMAIN f.tasks BY <1>2, <1>7
  <1>9. Torrent(f, g) = t BY <1>6, <1>8 DEF Torrent
  <1>10. e = [f EXCEPT !.tasks[g].bt = Some(b)] BY <1>4, <1>9 DEF SetTorrent
  <1>11. b \in TorrentRecords /\ b.generation = t.generation /\ b.request = NoRequest /\ b.blob = None
    <2>1. t \in TorrentShapes /\ t.saved = t.generation BY <1>2 DEF TorrentRecords, bt_row_valid
    <2>2. None \in Maybe(Asks) BY DEF Maybe
    <2>3. /\ b \in TorrentShapes /\ b.saved = t.saved /\ b.dirty /\ b.binding = binding
          /\ b.generation = t.generation /\ b.request = NoRequest /\ b.blob = None
      BY <2>1, <2>2 DEF TorrentShapes
    <2> HIDE DEF b, t
    <2> QED BY <1>1, <1>2, <2>1, <2>3, RecordLike
  <1> HIDE DEF b
  <1>12. e = Renewed(d, g, s) BY <1>7, <1>8, <1>10 DEF Renewed, Holding
  <1>13. IsRow(s) /\ Agree(d.tasks[g], s, {"bt", "current"}) /\ s.bt = Some(b) /\ s.current = options
    BY <1>6 DEF IsRow, Agree, RowFields
  <1> HIDE DEF s
  <1>14. Retorrented(d, e, g, b) BY <1>1, <1>2, <1>11, <1>12, <1>13, TorrentRenewed DEF IsTorrent
  <1>15. S \in [Gids -> 0..1] /\ \A x \in A : x.gid = g => AskOK(x, t, S) BY <1>1, <1>2 DEF AskInv
  <1>16. W \in [Gids -> 0..1] /\ W[g] = 1 /\ \A h \in Gids \ {g} : W[h] = S[h] BY <1>2, <1>15
  <1> HIDE DEF W
  <1>17. \A x \in A : x.gid = g => AskOK(x, b, W) BY <1>11, <1>15 DEF AskOK
  <1>18. BlobOK(b, g, A, W) /\ BlobFollows(t, b) BY <1>11, Options DEF BlobOK, BlobFollows
  <1>19. DbOK(e) /\ AskInv(e, A, W) /\ Follows(d, e) /\ BlobsFollow(d, e)
    <2>1. BlobFollows(Torrent(d, g), b) BY <1>18 DEF t
    <2>2. Answers(b, g, A, S, W) BY <1>16, <1>17, <1>18 DEF Answers
    <2> QED BY <1>1, <1>11, <1>14, <2>1, <2>2, RetorrentedAsks
  <1> QED BY <1>19 DEF W

\* A worker asks for a checkpoint of its current generation.
LEMMA AskedAsks ==
  ASSUME NEW d, DbOK(d), NEW g, IsTorrent(d, g), NEW A, NEW S, AskInv(d, A, S), NEW r \in 1..2
  PROVE  AskInv(d, A \cup {[gid |-> g, generation |-> Torrent(d, g).generation, request |-> r, setup |-> S[g]]}, S)
  <1> DEFINE a == [gid |-> g, generation |-> Torrent(d, g).generation, request |-> r, setup |-> S[g]]
  <1>1. g \in Gids /\ Torrent(d, g).generation \in 0..MaxGenerations /\ S[g] \in 0..1
    BY TorrentOf, TorrentFields DEF AskInv
  <1>2. a \in Asks /\ a.gid = g /\ a.generation = Torrent(d, g).generation /\ a.setup = S[g] BY <1>1 DEF Asks
  <1> HIDE DEF a
  <1>3. AskOK(a, Torrent(d, g), S) BY <1>1, <1>2 DEF AskOK
  <1>4. A \cup {a} \subseteq Asks BY <1>2 DEF AskInv
  <1>5. \A x \in A \cup {a} : IsTorrent(d, x.gid) /\ AskOK(x, Torrent(d, x.gid), S) BY <1>2, <1>3 DEF AskInv
  <1>6. \A h \in DOMAIN d.tasks : IsTorrent(d, h) => BlobOK(Torrent(d, h), h, A \cup {a}, S)
    BY DEF AskInv, BlobOK
  <1>7. AskInv(d, A \cup {a}, S) BY <1>4, <1>5, <1>6 DEF AskInv
  <1> QED BY <1>7 DEF a

---------------------------------------------------------------------------------
\* A move never leaves a gap.

\* The places of a queue are its numbers, each taken once.
LEMMA PlacesOf ==
  ASSUME NEW d, DbOK(d), NEW q \in Queues
  PROVE  LET M == Members(d, q)  n == Cardinality(M)
         IN /\ IsFiniteSet(M) /\ n \in Nat /\ M \subseteq DOMAIN d.tasks
            /\ \A h \in M : d.tasks[h].pos \in 0..(n - 1)
            /\ \A i \in 0..(n - 1) : \E h \in M : d.tasks[h].pos = i
            /\ \A h, k \in M : d.tasks[h].pos = d.tasks[k].pos => h = k
  <1> DEFINE M == Members(d, q)
             n == Cardinality(M)
             f == [h \in M |-> d.tasks[h].pos]
  <1>1. M \subseteq DOMAIN d.tasks /\ M \in SUBSET Gids BY DEF Members, DbOK, RowsOK, DbShape
  <1>2. IsFiniteSet(M) /\ n \in Nat BY <1>1, FS_Subset, FS_CardinalityType, StoreAssumption
  <1>3. {d.tasks[h].pos : h \in M} = 0..(n - 1) BY DEF DbOK, validate_dense_queues
  <1> HIDE DEF M, n
  <1>4. (\A h \in M : d.tasks[h].pos \in 0..(n - 1)) /\ \A i \in 0..(n - 1) : \E h \in M : d.tasks[h].pos = i
    BY <1>3
  <1>5. f \in Surjection(M, 0..(n - 1)) BY <1>4 DEF Surjection
  <1>6. Cardinality(0..(n - 1)) = n BY <1>2, FS_Interval
  <1>7. f \in Injection(M, 0..(n - 1)) BY <1>2, <1>5, <1>6, FS_SurjSameCardinalityImpliesInj DEF n
  <1>8. \A h, k \in M : d.tasks[h].pos = d.tasks[k].pos => h = k BY <1>7 DEF Injection, IsInjective
  <1> QED BY <1>1, <1>2, <1>4, <1>8 DEF M, n

\* Writing the position of a row.
LEMMA PosSet ==
  ASSUME NEW r, IsRow(r), NEW p
  PROVE  [r EXCEPT !.pos = p].pos = p /\ [r EXCEPT !.pos = p].queue = r.queue
  BY DEF IsRow, RowFields

\* Where the other tasks stand after the shifts.
LEMMA ShiftedPlaces ==
  ASSUME NEW d, DbShape(d), NEW q, NEW i, NEW j, NEW h \in DOMAIN d.tasks
  PROVE  LET p == d.tasks[h].pos
         IN ShiftWithin(d, q, i, j).tasks[h].pos =
              IF d.tasks[h].queue # q THEN p
              ELSE IF j < i /\ p >= j /\ p < i THEN p + 1
              ELSE IF j > i /\ p > i /\ p <= j THEN p - 1 ELSE p
  <1> DEFINE T == [g \in DOMAIN d.tasks |-> LET row == d.tasks[g] IN
                     IF row.queue # q THEN row
                     ELSE IF j < i /\ row.pos >= j /\ row.pos < i THEN [row EXCEPT !.pos = @ + 1]
                     ELSE IF j > i /\ row.pos > i /\ row.pos <= j THEN [row EXCEPT !.pos = @ - 1]
                     ELSE row]
  <1>1. ShiftWithin(d, q, i, j).tasks = T BY SetTasks, HoldingFacts DEF ShiftWithin
  <1>2. IsRow(d.tasks[h]) BY DEF DbShape
  <1>3. \A v : [d.tasks[h] EXCEPT !.pos = v].pos = v BY <1>2, PosSet
  <1> QED BY <1>1, <1>3

\* The places after a gap was opened or closed.
LEMMA GapPlaces ==
  ASSUME NEW d, DbShape(d), NEW q, NEW i, NEW h \in DOMAIN d.tasks
  PROVE  /\ OpenGap(d, q, i).tasks[h].pos =
              IF d.tasks[h].queue = q /\ d.tasks[h].pos >= i THEN d.tasks[h].pos + 1 ELSE d.tasks[h].pos
         /\ CloseGap(d, q, i).tasks[h].pos =
              IF d.tasks[h].queue = q /\ d.tasks[h].pos > i THEN d.tasks[h].pos - 1 ELSE d.tasks[h].pos
  <1> DEFINE T == [g \in DOMAIN d.tasks |-> IF d.tasks[g].queue = q /\ d.tasks[g].pos >= i
                                            THEN [d.tasks[g] EXCEPT !.pos = @ + 1] ELSE d.tasks[g]]
             U == [g \in DOMAIN d.tasks |-> IF d.tasks[g].queue = q /\ d.tasks[g].pos > i
                                            THEN [d.tasks[g] EXCEPT !.pos = @ - 1] ELSE d.tasks[g]]
  <1>1. OpenGap(d, q, i).tasks = T /\ CloseGap(d, q, i).tasks = U
    BY SetTasks, HoldingFacts DEF OpenGap, CloseGap
  <1>2. IsRow(d.tasks[h]) BY DEF DbShape
  <1>3. \A v : [d.tasks[h] EXCEPT !.pos = v].pos = v BY <1>2, PosSet
  <1> QED BY <1>1, <1>3

\* The places of the queue a task leaves, enters or moves in: P before, Q after.
Places(Q, S) == {Q[h] : h \in S}
Packed(P, M, n) ==
  /\ \A h \in M : P[h] \in 0..(n - 1)
  /\ \A i \in 0..(n - 1) : \E h \in M : P[h] = i
  /\ \A h, k \in M : P[h] = P[k] => h = k
Leaves(P, Q, M, g) == \A h \in M \ {g} : Q[h] = IF P[h] > P[g] THEN P[h] - 1 ELSE P[h]
Enters(P, Q, M, p) == \A h \in M : Q[h] = IF P[h] >= p THEN P[h] + 1 ELSE P[h]
Slides(P, Q, M, g, p) ==
  \A h \in M \ {g} : Q[h] = IF p < P[g] /\ P[h] >= p /\ P[h] < P[g] THEN P[h] + 1
                            ELSE IF p > P[g] /\ P[h] > P[g] /\ P[h] <= p THEN P[h] - 1 ELSE P[h]

\* A queue one task left, its followers moved up, is dense.
LEMMA LeaveDense ==
  ASSUME NEW M, NEW n \in Nat, NEW P, NEW g \in M, NEW Q,
         Packed(P, M, n), Leaves(P, Q, M, g)
  PROVE  Places(Q, M \ {g}) = 0..((n - 1) - 1)
  <1> USE DEF Packed, Leaves, Places
  <1>1. ASSUME NEW h \in M \ {g} PROVE Q[h] \in 0..((n - 1) - 1) OBVIOUS
  <1>2. ASSUME NEW i \in 0..((n - 1) - 1) PROVE \E h \in M \ {g} : Q[h] = i
    <2>1. P[g] \in 0..(n - 1) OBVIOUS
    <2>2. CASE i < P[g]
      <3>1. i \in 0..(n - 1) OBVIOUS
      <3>2. PICK h \in M : P[h] = i BY <3>1
      <3>3. h # g /\ Q[h] = i BY <2>1, <2>2, <3>1, <3>2
      <3> QED BY <3>2, <3>3
    <2>3. CASE ~(i < P[g])
      <3>1. i + 1 \in 0..(n - 1) OBVIOUS
      <3>2. PICK h \in M : P[h] = i + 1 BY <3>1
      <3>3. h # g /\ Q[h] = i BY <2>1, <2>3, <3>1, <3>2
      <3> QED BY <3>2, <3>3
    <2> QED BY <2>2, <2>3
  <1> QED BY <1>1, <1>2

\* A queue one task entered, the tasks from its place on moved down, is dense.
LEMMA EnterDense ==
  ASSUME NEW M, NEW n \in Nat, NEW P, NEW g, g \notin M, NEW Q, NEW p \in 0..n,
         Packed(P, M, n), Enters(P, Q, M, p), Q[g] = p
  PROVE  Places(Q, M \cup {g}) = 0..((n + 1) - 1)
  <1> USE DEF Packed, Enters, Places
  <1>1. ASSUME NEW h \in M \cup {g} PROVE Q[h] \in 0..((n + 1) - 1)
    <2>1. CASE h = g BY <2>1
    <2>2. CASE h \in M BY <2>2
    <2> QED BY <2>1, <2>2
  <1>2. ASSUME NEW i \in 0..((n + 1) - 1) PROVE \E h \in M \cup {g} : Q[h] = i
    <2>1. CASE i = p BY <2>1
    <2>2. CASE i < p
      <3>1. i \in 0..(n - 1) BY <2>2
      <3>2. PICK h \in M : P[h] = i BY <3>1
      <3>3. Q[h] = i BY <2>2, <3>1, <3>2
      <3> QED BY <3>2, <3>3
    <2>3. CASE i > p
      <3>1. i - 1 \in 0..(n - 1) BY <2>3
      <3>2. PICK h \in M : P[h] = i - 1 BY <3>1
      <3>3. Q[h] = i BY <2>3, <3>1, <3>2
      <3> QED BY <3>2, <3>3
    <2> QED BY <2>1, <2>2, <2>3
  <1> QED BY <1>1, <1>2

\* A queue inside which one task moved, those between shifted, is dense.
LEMMA ShiftDense ==
  ASSUME NEW M, NEW n \in Nat, NEW P, NEW g \in M, NEW Q, NEW p \in 0..(n - 1),
         Packed(P, M, n), Q[g] = p, Slides(P, Q, M, g, p)
  PROVE  Places(Q, M) = 0..(n - 1)
  <1> USE DEF Packed, Slides, Places
  <1>0. P[g] \in 0..(n - 1) OBVIOUS
  <1>1. ASSUME NEW h \in M PROVE Q[h] \in 0..(n - 1)
    <2>1. CASE h = g BY <2>1
    <2>2. CASE h # g BY <2>2, <1>0
    <2> QED BY <2>1, <2>2
  <1>2. ASSUME NEW i \in 0..(n - 1) PROVE \E h \in M : Q[h] = i
    <2> DEFINE j == IF p < P[g] /\ i > p /\ i <= P[g] THEN i - 1
                    ELSE IF p > P[g] /\ i >= P[g] /\ i < p THEN i + 1 ELSE i
    <2>1. CASE i = p BY <2>1
    <2>2. CASE i # p
      <3>1. j \in 0..(n - 1) /\ j # P[g] BY <1>0, <2>2
      <3>2. PICK h \in M : P[h] = j BY <3>1
      <3>3. h # g BY <3>1, <3>2
      <3>4. Q[h] = IF p < P[g] /\ P[h] >= p /\ P[h] < P[g] THEN P[h] + 1
                   ELSE IF p > P[g] /\ P[h] > P[g] /\ P[h] <= p THEN P[h] - 1 ELSE P[h]
        BY <3>3
      <3>5. Q[h] = i BY <1>0, <2>2, <3>2, <3>4
      <3> QED BY <3>2, <3>5
    <2> QED BY <2>1, <2>2
  <1> QED BY <1>1, <1>2

\* A queue is dense when its places are its first numbers.
Dense(d, q) == {d.tasks[h].pos : h \in Members(d, q)} = 0..(Cardinality(Members(d, q)) - 1)
PosIn(d) == [h \in DOMAIN d.tasks |-> d.tasks[h].pos]

\* A queue is dense when its places are.
LEMMA DenseBy ==
  ASSUME NEW e, NEW q, NEW M, Members(e, q) = M, M \subseteq DOMAIN e.tasks, NEW n, Cardinality(M) = n,
         Places(PosIn(e), M) = 0..(n - 1)
  PROVE  Dense(e, q)
  <1>1. Places(PosIn(e), M) = {e.tasks[h].pos : h \in M} BY DEF PosIn, Places
  <1> QED BY <1>1 DEF Dense

\* The task that moves and the rows beside it after the move.
Shuffled(d, g, from, to, pos) ==
  IF from = to THEN ShiftWithin(d, to, d.tasks[g].pos, pos)
  ELSE OpenGap(CloseGap(d, from, d.tasks[g].pos), to, pos)

\* The places of all tasks after the neighbours of a move shifted.
LEMMA ShuffledFacts ==
  ASSUME NEW d, DbShape(d), NEW g \in DOMAIN d.tasks, NEW from, NEW to, NEW pos
  PROVE  /\ Repositioned(d, Shuffled(d, g, from, to, pos))
         /\ \A h \in DOMAIN d.tasks :
              LET p == d.tasks[h].pos  o == d.tasks[g].pos
                  r == IF d.tasks[h].queue = from /\ p > o THEN p - 1 ELSE p
              IN Shuffled(d, g, from, to, pos).tasks[h].pos =
                   IF from = to
                   THEN IF d.tasks[h].queue # to THEN p
                        ELSE IF pos < o /\ p >= pos /\ p < o THEN p + 1
                        ELSE IF pos > o /\ p > o /\ p <= pos THEN p - 1 ELSE p
                   ELSE IF d.tasks[h].queue = to /\ r >= pos THEN r + 1 ELSE r
  <1> DEFINE o == d.tasks[g].pos
             c == CloseGap(d, from, o)
  <1>1. Repositioned(d, ShiftWithin(d, to, o, pos)) /\ Repositioned(d, c) BY ShiftRepositions, GapsReposition
  <1>2. DbShape(c) /\ DOMAIN c.tasks = DOMAIN d.tasks BY <1>1 DEF Repositioned
  <1>3. Repositioned(c, OpenGap(c, to, pos)) BY <1>2, GapsReposition
  <1>4. Repositioned(d, OpenGap(c, to, pos)) BY <1>1, <1>3, RepositionedTwice
  <1>5. Repositioned(d, Shuffled(d, g, from, to, pos)) BY <1>1, <1>4 DEF Shuffled
  <1>6. \A h \in DOMAIN d.tasks : c.tasks[h].queue = d.tasks[h].queue
    BY <1>1 DEF Repositioned, Agree, RowFields
  <1>7. \A h \in DOMAIN d.tasks : c.tasks[h].pos = IF d.tasks[h].queue = from /\ d.tasks[h].pos > o
                                                   THEN d.tasks[h].pos - 1 ELSE d.tasks[h].pos
    BY GapPlaces
  <1>8. \A h \in DOMAIN d.tasks : OpenGap(c, to, pos).tasks[h].pos =
          IF c.tasks[h].queue = to /\ c.tasks[h].pos >= pos THEN c.tasks[h].pos + 1 ELSE c.tasks[h].pos
    BY <1>2, GapPlaces
  <1> HIDE DEF c
  <1>9. ASSUME NEW h \in DOMAIN d.tasks, from # to
        PROVE  LET p == d.tasks[h].pos
                   r == IF d.tasks[h].queue = from /\ p > o THEN p - 1 ELSE p
               IN Shuffled(d, g, from, to, pos).tasks[h].pos = IF d.tasks[h].queue = to /\ r >= pos THEN r + 1 ELSE r
    BY <1>6, <1>7, <1>8, <1>9 DEF Shuffled, c
  <1>10. ASSUME NEW h \in DOMAIN d.tasks, from = to
         PROVE  LET p == d.tasks[h].pos
                IN Shuffled(d, g, from, to, pos).tasks[h].pos =
                     IF d.tasks[h].queue # to THEN p
                        ELSE IF pos < o /\ p >= pos /\ p < o THEN p + 1
                        ELSE IF pos > o /\ p > o /\ p <= pos THEN p - 1 ELSE p
    BY <1>10, ShiftedPlaces DEF Shuffled
  <1> QED BY <1>5, <1>9, <1>10

\* How the move of g leaves the places of all tasks.
Arranged(d, e, g, from, to, pos) ==
  /\ DOMAIN e.tasks = DOMAIN d.tasks
  /\ e.tasks[g].queue = to /\ e.tasks[g].pos = pos
  /\ \A h \in DOMAIN d.tasks \ {g} :
       /\ e.tasks[h].queue = d.tasks[h].queue
       /\ LET p == d.tasks[h].pos  o == d.tasks[g].pos
              r == IF d.tasks[h].queue = from /\ p > o THEN p - 1 ELSE p
          IN e.tasks[h].pos =
               IF from = to
               THEN IF d.tasks[h].queue # to THEN p
                    ELSE IF pos < o /\ p >= pos /\ p < o THEN p + 1
                    ELSE IF pos > o /\ p > o /\ p <= pos THEN p - 1 ELSE p
               ELSE IF d.tasks[h].queue = to /\ r >= pos THEN r + 1 ELSE r

\* The shifts of transition_task_queue_in_transaction keep every queue dense.
LEMMA ArrangedDense ==
  ASSUME NEW d, DbOK(d), NEW e, NEW g \in DOMAIN d.tasks, NEW from \in Queues, NEW to \in Queues, NEW pos \in Nat,
         d.tasks[g].queue = from, Arranged(d, e, g, from, to, pos),
         pos <= Cardinality(Members(d, to)) - (IF from = to THEN 1 ELSE 0), NEW q \in Queues
  PROVE  Dense(e, q)
  <1> DEFINE M == Members(d, q)
             n == Cardinality(M)
             P == PosIn(d)
             Q == PosIn(e)
  <1>1. /\ IsFiniteSet(M) /\ n \in Nat /\ M \subseteq DOMAIN d.tasks
        /\ \A h \in M : d.tasks[h].pos \in 0..(n - 1)
        /\ \A i \in 0..(n - 1) : \E h \in M : d.tasks[h].pos = i
        /\ \A h, k \in M : d.tasks[h].pos = d.tasks[k].pos => h = k
    BY PlacesOf
  <1>2. /\ Packed(P, M, n)
        /\ \A h \in DOMAIN d.tasks : P[h] = d.tasks[h].pos /\ Q[h] = e.tasks[h].pos
    BY <1>1 DEF PosIn, Arranged, Packed
  <1>3. DOMAIN e.tasks = DOMAIN d.tasks /\ Q[g] = pos BY <1>2 DEF Arranged
  <1>4. g \in M <=> q = from BY DEF Members
  <1>5. \A h \in M : d.tasks[h].queue = q BY DEF Members
  <1>6. Members(e, q) = IF q = to THEN M \cup {g} ELSE M \ {g} BY DEF Members, Arranged
  <1> HIDE DEF M, n, P, Q
  <1>7. CASE q # from /\ q # to
    <2>1. Members(e, q) = M BY <1>4, <1>6, <1>7
    <2>2. \A h \in M : Q[h] = P[h] BY <1>1, <1>2, <1>4, <1>5, <1>7 DEF Arranged
    <2>3. Places(Q, M) = 0..(n - 1) BY <1>2, <2>2 DEF Packed, Places
    <2> QED BY <1>1, <1>3, <2>1, <2>3, DenseBy DEF n, Q
  <1>8. CASE q = from /\ q # to
    <2>1. Members(e, q) = M \ {g} /\ g \in M BY <1>4, <1>6, <1>8
    <2>2. Leaves(P, Q, M, g) BY <1>1, <1>2, <1>5, <1>8 DEF Arranged, Leaves
    <2>3. Places(Q, M \ {g}) = 0..((n - 1) - 1) BY <1>1, <1>2, <2>1, <2>2, LeaveDense
    <2>4. Cardinality(M \ {g}) = n - 1 BY <1>1, <2>1, FS_RemoveElement DEF n
    <2>5. M \ {g} \subseteq DOMAIN e.tasks /\ Places(PosIn(e), M \ {g}) = 0..((n - 1) - 1)
      BY <1>1, <1>3, <2>3 DEF Q
    <2> QED BY <2>1, <2>4, <2>5, DenseBy
  <1>9. CASE q = to /\ q # from
    <2>1. Members(e, q) = M \cup {g} /\ g \notin M BY <1>4, <1>6, <1>9
    <2>2. Enters(P, Q, M, pos) BY <1>1, <1>2, <1>5, <1>9, <2>1 DEF Arranged, Enters
    <2>3. pos \in 0..n BY <1>1, <1>9 DEF n, M
    <2>4. Places(Q, M \cup {g}) = 0..((n + 1) - 1) BY <1>1, <1>2, <1>3, <2>1, <2>2, <2>3, EnterDense
    <2>5. Cardinality(M \cup {g}) = n + 1 BY <1>1, <2>1, FS_AddElement DEF n
    <2>6. M \cup {g} \subseteq DOMAIN e.tasks /\ Places(PosIn(e), M \cup {g}) = 0..((n + 1) - 1)
      BY <1>1, <1>3, <2>4 DEF Q
    <2> QED BY <2>1, <2>5, <2>6, DenseBy
  <1>10. CASE q = to /\ q = from
    <2>1. Members(e, q) = M /\ g \in M BY <1>4, <1>6, <1>10
    <2>2. Slides(P, Q, M, g, pos) BY <1>1, <1>2, <1>5, <1>10 DEF Arranged, Slides
    <2>3. pos \in 0..(n - 1) BY <1>1, <1>10 DEF n, M
    <2>4. Places(Q, M) = 0..(n - 1)
      <3>1. n \in Nat /\ g \in M /\ pos \in 0..(n - 1) /\ Packed(P, M, n) /\ Slides(P, Q, M, g, pos) /\ Q[g] = pos
        BY <1>1, <1>2, <1>3, <2>1, <2>2, <2>3, Zenon
      <3> QED BY <3>1, ShiftDense, Zenon
    <2> QED BY <1>1, <1>3, <2>1, <2>4, DenseBy DEF n, Q
  <1> QED BY <1>7, <1>8, <1>9, <1>10

\* The row of a transfer that moves is one the table's checks accept.
LEMMA MovedTransfer ==
  ASSUME NEW r, RowOK(r), r.kind = "Transfer", r.queue # "Stopped", NEW to \in Live, NEW pos
  PROVE  LET s == Moved(r, to, pos, FALSE, 1, SlowOf(to))
         IN TaskTable(s) /\ s.created = r.created /\ ~Is(s.result)
  <1> DEFINE s == Moved(r, to, pos, FALSE, 1, SlowOf(to))
  <1>1. IsRow(r) BY DEF RowOK
  <1>2. IsRow(s) /\ Agree(r, s, MoveFields) /\ s.queue = to /\ s.slow = SlowOf(to) /\ s.paused = FALSE /\ s.demotions = 1
    BY <1>1 DEF Moved, IsRow, Agree, RowFields, MoveFields
  <1> HIDE DEF s
  <1>3. s.kind = r.kind /\ s.journal = r.journal /\ s.layout = r.layout /\ s.root = r.root /\ s.created = r.created
        /\ s.result = r.result
    BY <1>2 DEF Agree, RowFields, MoveFields
  <1>4. (to = "Demoted") <=> Is(SlowOf(to)) BY Options DEF SlowOf
  <1>5. TaskTable(r) /\ ~Is(r.result) BY DEF RowOK, ResultOK
  <1>6. TaskTable(s) BY <1>2, <1>3, <1>4, <1>5 DEF TaskTable
  <1> QED BY <1>3, <1>5, <1>6 DEF s

\* What the checks of a transaction let through.
LEMMA WrittenWhole ==
  ASSUME NEW d, NEW S, NEW now, \A g \in S : TaskTable(d.tasks[g]) /\ d.tasks[g].created <= now,
         validate_dense_queues(d), validate_stopped_result_pairing(d)
  PROVE  d \in QueuesValid(Written(d, S, now))
  BY DEF Written, QueuesValid

\* A move of an unfinished transfer to a place inside the target queue commits.
LEMMA MoveCommits ==
  ASSUME NEW d, DbOK(d), NEW g \in DOMAIN d.tasks, NEW from, d.tasks[g].queue = from, NEW to \in Live, NEW pos \in Nat,
         from # "Stopped", d.tasks[g].kind = "Transfer", ~reject_retained_host_key_departure(d, g, from, to),
         pos <= Cardinality(Members(d, to)) - (IF from = to THEN 1 ELSE 0)
  PROVE  transition_task_queue(d, g, from, to, pos, FALSE, 1, SlowOf(to), MaxTime) # {}
  <1> DEFINE shifted == Shuffled(d, g, from, to, pos)
             row == Moved(d.tasks[g], to, pos, FALSE, 1, SlowOf(to))
             f == Row(shifted, g, row)
             touched == {h \in DOMAIN d.tasks : shifted.tasks[h] # d.tasks[h]} \cup {g}
  <1>1. DbShape(d) /\ RowsOK(d) /\ RowOK(d.tasks[g]) /\ IsRow(d.tasks[g]) /\ g \in Gids /\ from \in Queues /\ to \in Queues
    BY DEF DbOK, RowsOK, DbShape, RowOK, PlaceOK, Live
  <1>2. /\ Repositioned(d, shifted)
        /\ \A h \in DOMAIN d.tasks :
              LET p == d.tasks[h].pos  o == d.tasks[g].pos
                  r == IF d.tasks[h].queue = from /\ p > o THEN p - 1 ELSE p
              IN shifted.tasks[h].pos =
                   IF from = to
                   THEN IF d.tasks[h].queue # to THEN p
                        ELSE IF pos < o /\ p >= pos /\ p < o THEN p + 1
                        ELSE IF pos > o /\ p > o /\ p <= pos THEN p - 1 ELSE p
                   ELSE IF d.tasks[h].queue = to /\ r >= pos THEN r + 1 ELSE r
    BY <1>1, ShuffledFacts
  <1>3. shifted = IF from = to THEN ShiftWithin(d, to, d.tasks[g].pos, pos)
                  ELSE OpenGap(CloseGap(d, from, d.tasks[g].pos), to, pos)
    BY DEF Shuffled
  <1> HIDE DEF shifted
  <1>4. DbShape(shifted) /\ DOMAIN shifted.tasks = DOMAIN d.tasks /\ RowsOK(shifted)
    BY <1>1, <1>2, RepositionedRows DEF Repositioned
  <1>5. IsRow(row) /\ row.queue = to /\ row.pos = pos BY <1>1 DEF Moved, IsRow, Agree, RowFields, MoveFields
  <1>6. TaskTable(row) /\ row.created = d.tasks[g].created /\ ~Is(row.result) BY <1>1, MovedTransfer
  <1>7. validate_slow_slot_state(to, FALSE, 1, SlowOf(to)) BY Options DEF validate_slow_slot_state, SlowOf
  <1> HIDE DEF row
  <1>8. /\ DbShape(f) /\ DOMAIN f.tasks = DOMAIN d.tasks \cup {g} /\ f.tasks[g] = row
        /\ \A h \in DOMAIN d.tasks \ {g} : f.tasks[h] = shifted.tasks[h]
    BY <1>1, <1>4, <1>5, RowWritten
  <1>9. DOMAIN f.tasks = DOMAIN d.tasks BY <1>8
  <1> HIDE DEF f
  <1>10. \A h \in DOMAIN d.tasks : shifted.tasks[h].queue = d.tasks[h].queue /\ shifted.tasks[h].created = d.tasks[h].created
    BY <1>2 DEF Repositioned, Agree, RowFields
  <1>11. Arranged(d, f, g, from, to, pos) BY <1>2, <1>5, <1>8, <1>9, <1>10 DEF Arranged
  <1>12. \A q \in Queues : Dense(f, q) BY <1>1, <1>11, ArrangedDense
  <1>13. validate_dense_queues(f) BY <1>9, <1>12 DEF validate_dense_queues, Dense, DbOK
  <1>14. \A h \in DOMAIN d.tasks : d.tasks[h].created \in Times BY <1>1 DEF RowsOK, RowOK, PlaceOK
  <1>15. \A h \in DOMAIN d.tasks : TaskTable(f.tasks[h]) /\ f.tasks[h].created = d.tasks[h].created
    BY <1>4, <1>6, <1>8, <1>10 DEF RowsOK, RowOK
  <1>16. \A h \in touched : TaskTable(f.tasks[h]) /\ f.tasks[h].created <= MaxTime
    BY <1>14, <1>15, StoreAssumption DEF Times
  <1>17. validate_stopped_result_pairing(f)
    BY <1>4, <1>5, <1>6, <1>8, <1>9 DEF validate_stopped_result_pairing, RowsOK, RowOK, ResultOK, Live
  <1>18. f \in QueuesValid(Written(f, touched, MaxTime)) BY <1>13, <1>16, <1>17, WrittenWhole
  <1>19. ~(pos > (IF from = to THEN Cardinality(Members(d, to)) - 1 ELSE Cardinality(Members(d, to))))
    BY <1>1, PlacesOf
  <1>20. transition_task_queue_in_transaction(d, g, from, to, pos, FALSE, 1, SlowOf(to), MaxTime) = Written(f, touched, MaxTime)
    BY <1>3, <1>7, <1>19 DEF transition_task_queue_in_transaction, f, row
  <1>21. from # "Stopped" /\ to # "Stopped" BY DEF Live
  <1>22. transition_task_queue(d, g, from, to, pos, FALSE, 1, SlowOf(to), MaxTime) = QueuesValid(Written(f, touched, MaxTime))
    BY <1>20, <1>21, Zenon DEF transition_task_queue
  <1> QED BY <1>18, <1>22

\* No queue is longer than the database may hold tasks.
LEMMA PlacesBounded ==
  ASSUME NEW d, DbOK(d), NEW g \in DOMAIN d.tasks
  PROVE  d.tasks[g].queue \in Queues /\ d.tasks[g].pos \in 0..(MaxTasks - 1)
  <1> DEFINE q == d.tasks[g].queue
             n == Cardinality(Members(d, q))
  <1>1. q \in Queues /\ DOMAIN d.tasks \subseteq Gids BY DEF DbOK, RowsOK, DbShape, RowOK, PlaceOK
  <1>2. g \in Members(d, q) BY DEF Members
  <1>3. n \in Nat /\ d.tasks[g].pos \in 0..(n - 1) /\ Members(d, q) \subseteq DOMAIN d.tasks
    BY <1>1, <1>2, PlacesOf
  <1>4. IsFiniteSet(DOMAIN d.tasks) BY <1>1, StoreAssumption, FS_Subset
  <1>5. Cardinality(DOMAIN d.tasks) \in Nat /\ n <= Cardinality(DOMAIN d.tasks)
    BY <1>3, <1>4, FS_Subset, FS_CardinalityType
  <1>6. Cardinality(DOMAIN d.tasks) <= MaxTasks BY DEF DbOK, validate_dense_queues
  <1> QED BY <1>1, <1>3, <1>5, <1>6, StoreAssumption

\* A sound database passes every check of validate_persisted_semantics.
LEMMA SoundOpens ==
  ASSUME NEW d, DbOK(d)
  PROVE  validate_persisted_semantics(d)
  <1>1. validate_dense_queues(d) /\ Is(d.session) /\ \A g \in DOMAIN d.tasks : RowOK(d.tasks[g])
    BY DEF DbOK, RowsOK, DbShape
  <1>2. ASSUME NEW g \in DOMAIN d.tasks
        PROVE  /\ TaskTable(d.tasks[g])
               /\ d.tasks[g].kind = "Transfer" => decode_task(d.tasks[g])
               /\ (d.tasks[g].kind = "BitTorrent") <=> Is(d.tasks[g].bt)
               /\ \A s \in d.tasks[g].sources : source_ok(s)
               /\ (d.tasks[g].queue = "Stopped") <=> Is(d.tasks[g].result)
               /\ Is(d.tasks[g].result) => validate_stopped_result(The(d.tasks[g].result))
               /\ Is(d.tasks[g].challenge) => d.tasks[g].queue = "Paused"
    BY <1>1, Options, StoreAssumption DEF RowOK, PlaceOK, TaskTable, decode_task, ResultOK
  <1>3. ASSUME NEW g \in DOMAIN d.tasks, Is(d.tasks[g].install)
        PROVE  /\ validate_install_values(The(d.tasks[g].install))
               /\ LET intent == The(d.tasks[g].install)
                  IN d.tasks[g].journal = Some(IF intent.phase = "Installing" THEN intent.old ELSE intent.new)
    BY <1>1, <1>3 DEF RowOK, InstallOK, validate_install_values
  <1>4. ASSUME NEW g \in DOMAIN d.tasks, Is(d.tasks[g].bt)
        PROVE  d.tasks[g].queue # "Demoted" /\ bt_row_valid(The(d.tasks[g].bt))
    <2>1. RowOK(d.tasks[g]) BY <1>1
    <2>2. The(d.tasks[g].bt) \in TorrentRecords BY <1>4, <2>1, MaybeFacts DEF RowOK
    <2>3. d.tasks[g].queue # "Demoted" BY <1>4, <2>1 DEF RowOK, TaskTable
    <2> QED BY <2>2, <2>3 DEF TorrentRecords
  <1>5. bt_validate_rows(d) BY <1>2, <1>4, Zenon DEF bt_validate_rows
  <1> QED
    BY <1>1, <1>2, <1>3, <1>5, Zenon DEF validate_persisted_semantics, read_task_records, validate_task_sources,
       validate_stopped_result_pairing, read_stopped_results, validate_host_key_challenges, read_journal_installs

---------------------------------------------------------------------------------
\* The invariant.

DatabaseInv == DbOK(db) /\ AskInv(db, asked, setup)
\* A step keeps the invariant and the history.
DatabaseSteps ==
  /\ DbOK(db') /\ AskInv(db', asked', setup')
  /\ Follows(db, db') /\ BlobsFollow(db, db')

\* The database of a new session is sound.
LEMMA EmptySound ==
  ASSUME NEW d \in put_session(EmptyDatabase, "session"), NEW S, S = SetupOf
  PROVE  DbOK(d) /\ AskInv(d, {}, S)
  <1>1. d = [session |-> Some("session"), tasks |-> EmptyMap] BY Options DEF put_session, EmptyDatabase
  <1>2. d.tasks = EmptyMap /\ d.session = Some("session") /\ d = [session |-> d.session, tasks |-> d.tasks]
    BY <1>1
  <1>3. DOMAIN d.tasks = {} /\ d.tasks = [g \in DOMAIN d.tasks |-> d.tasks[g]] BY <1>2 DEF EmptyMap
  <1>4. RowsOK(d) BY <1>2, <1>3, Options DEF RowsOK, DbShape
  <1>5. \A q : Members(d, q) = {} BY <1>3 DEF Members
  <1>6. Cardinality({}) = 0 BY FS_EmptySet
  <1>7. validate_dense_queues(d)
    <2>1. 0..(0 - 1) = {} /\ 0 <= MaxTasks BY StoreAssumption
    <2>2. \A q : {d.tasks[g].pos : g \in Members(d, q)} = {} BY <1>5
    <2> QED BY <1>3, <1>5, <1>6, <2>1, <2>2 DEF validate_dense_queues
  <1>8. S \in [Gids -> 0..1] BY DEF SetupOf
  <1> QED BY <1>3, <1>4, <1>7, <1>8 DEF DbOK, AskInv

\* A command that keeps the database is a step of the invariant.
LEMMA KeptSteps ==
  ASSUME DatabaseInv, Kept(db, db'), UNCHANGED <<asked, setup>>
  PROVE  DatabaseSteps
  BY KeptAsks DEF DatabaseInv, DatabaseSteps

\* A commit leaves one of the outcomes of its transaction.
LEMMA CommitFacts ==
  ASSUME NEW S, Commit(S)
  PROVE  db' \in S
  BY DEF Commit

\* Commands are stamped inside the clock's range; a demoted task waits for slot 0.
LEMMA ClockFacts == Clock \subseteq Times /\ \A to : SlowOf(to) \in {None, Some(0)}
  BY StoreAssumption DEF Clock, Times, SlowOf

\* The commands on the queues.
LEMMA QueueSteps ==
  ASSUME DatabaseInv, Create \/ Move \/ MoveExact \/ Reorder \/ Stop \/ StopExact
  PROVE  DatabaseSteps
  <1>0. DbOK(db) BY DEF DatabaseInv
  <1>1. ASSUME Create PROVE Kept(db, db') /\ Keep
    <2>1. PICK g \in Gids, q \in Live, pos \in 0..(MaxTasks - 1), now \in Clock :
             Commit(create_task_with_metadata(db, g, q, pos, q = "Paused", Some(CHOOSE j \in Journals : TRUE), {}, now))
      BY <1>1 DEF Create
    <2> DEFINE paused == q = "Paused"
               j == CHOOSE i \in Journals : TRUE
    <2>2. db' \in create_task_with_metadata(db, g, q, pos, paused, Some(j), {}, now) BY <2>1, CommitFacts
    <2>3. now \in Times BY ClockFacts
    <2> HIDE DEF paused, j
    <2> QED BY <1>0, <1>1, <2>2, <2>3, CreateKept DEF Create
  <1>2. ASSUME Move PROVE Kept(db, db') /\ Keep
    <2>1. PICK g \in DOMAIN db.tasks, to \in Live, pos \in 0..(MaxTasks - 1), now \in Clock :
             Commit(transition_task_queue(db, g, db.tasks[g].queue, to, pos, to = "Paused",
                                  IF to = "Demoted" THEN 1 ELSE db.tasks[g].demotions, SlowOf(to), now))
      BY <1>2 DEF Move
    <2> DEFINE paused == to = "Paused"
               demotions == IF to = "Demoted" THEN 1 ELSE db.tasks[g].demotions
               slow == SlowOf(to)
               from == db.tasks[g].queue
    <2>2. db' \in transition_task_queue(db, g, from, to, pos, paused, demotions, slow, now) /\ slow \in {None, Some(0)}
      BY <2>1, CommitFacts, ClockFacts
    <2> HIDE DEF paused, demotions, slow, from
    <2> QED BY <1>0, <1>2, <2>2, MoveKept DEF Move
  <1>3. ASSUME MoveExact PROVE Kept(db, db') /\ Keep
    <2>1. PICK g \in DOMAIN db.tasks, to \in Live, now \in Clock : \E orders \in Orders(g, db.tasks[g].queue, to) :
             Commit(transition_task_queue_exact(db, g, db.tasks[g].queue, to, to = "Paused",
                                          IF to = "Demoted" THEN 1 ELSE db.tasks[g].demotions, SlowOf(to), orders, now))
      BY <1>3, Zenon DEF MoveExact
    <2> DEFINE paused == to = "Paused"
               demotions == IF to = "Demoted" THEN 1 ELSE db.tasks[g].demotions
               slow == SlowOf(to)
               from == db.tasks[g].queue
    <2>2. PICK orders : Commit(transition_task_queue_exact(db, g, from, to, paused, demotions, slow, orders, now))
      BY <2>1, Zenon
    <2>3. db' \in transition_task_queue_exact(db, g, from, to, paused, demotions, slow, orders, now)
      BY <2>2, CommitFacts
    <2>4. slow \in {None, Some(0)} BY ClockFacts
    <2> HIDE DEF paused, demotions, slow, from
    <2> QED BY <1>0, <1>3, <2>3, <2>4, MoveExactKept DEF MoveExact
  <1>4. ASSUME Reorder PROVE Kept(db, db') /\ Keep
    <2>1. PICK q, now, order : Commit(reorder_queue(db, q, order, now)) BY <1>4, Zenon DEF Reorder
    <2>2. db' \in reorder_queue(db, q, order, now) BY <2>1, CommitFacts
    <2> QED BY <1>0, <1>4, <2>2, ReorderKept DEF Reorder
  <1>5. ASSUME Stop PROVE Kept(db, db') /\ Keep
    <2>1. PICK g, result, from, pos, paused, demotions, now :
             Commit(persist_stopped_result(db, g, result, from, pos, paused, demotions, now))
      BY <1>5, Zenon DEF Stop
    <2>2. db' \in persist_stopped_result(db, g, result, from, pos, paused, demotions, now)
      BY <2>1, CommitFacts
    <2> QED BY <1>0, <1>5, <2>2, StopKept DEF Stop
  <1>6. ASSUME StopExact PROVE Kept(db, db') /\ Keep
    <2>1. PICK g, result, from, paused, demotions, orders, now :
             Commit(persist_stopped_result_exact(db, g, result, from, paused, demotions, orders, now))
      BY <1>6, Zenon DEF StopExact
    <2>2. db' \in persist_stopped_result_exact(db, g, result, from, paused, demotions, orders, now)
      BY <2>1, CommitFacts
    <2> QED BY <1>0, <1>6, <2>2, StopExactKept DEF StopExact
  <1> QED BY <1>1, <1>2, <1>3, <1>4, <1>5, <1>6, KeptSteps DEF Keep

\* The deletion of a stopped task.
LEMMA DeleteSteps ==
  ASSUME DatabaseInv, Delete
  PROVE  DatabaseSteps
  <1>0. DbOK(db) /\ AskInv(db, asked, setup) BY DEF DatabaseInv
  <1>1. PICK g, remaining, now : /\ Commit(delete_stopped_task_metadata(db, g, remaining, now))
                                 /\ asked' = {a \in asked : a.gid # g}
    BY Zenon DEF Delete
  <1>2. db' \in delete_stopped_task_metadata(db, g, remaining, now) BY <1>1, CommitFacts
  <1>3. DbOK(db') /\ Forgotten(db, db', g) BY <1>0, <1>2, DeleteForgets
  <1>4. setup' = setup BY DEF Delete
  <1> QED BY <1>0, <1>1, <1>3, <1>4, ForgottenAsks DEF DatabaseSteps

\* The commands on host keys.
LEMMA KeySteps ==
  ASSUME DatabaseInv, KeyStep
  PROVE  DatabaseSteps
  <1>0. DbOK(db) BY DEF DatabaseInv
  <1>1. PICK g \in Marked \cap DOMAIN db.tasks, id \in {"c1", "c2"}, key \in Keys :
       \/ Commit(put_host_key_challenge(db, g, id, key))
       \/ Commit(reject_host_key_challenge(db, g, id))
       \/ \E scope \in {"CurrentGeneration", "NextAdmission"}, k \in Keys :
            Commit(resolve_host_key_challenge(db, g, id, key, scope, {Pin(k)}))
       \/ \E staged \in SUBSET {Pin(key)} : Commit(promote_task_options(db, g, staged))
       \/ Commit(replace_task_options(db, g, "NextAdmission", {Pin(key)}))
    BY Zenon DEF KeyStep
  <1>2. CASE Commit(put_host_key_challenge(db, g, id, key))
    BY <1>0, <1>2, CommitFacts, ChallengeKept, KeptSteps DEF KeyStep, Keep
  <1>3. CASE Commit(reject_host_key_challenge(db, g, id))
    BY <1>0, <1>3, CommitFacts, RejectKept, KeptSteps DEF KeyStep, Keep
  <1>4. ASSUME NEW scope \in {"CurrentGeneration", "NextAdmission"}, NEW k \in Keys,
               Commit(resolve_host_key_challenge(db, g, id, key, scope, {Pin(k)}))
        PROVE  DatabaseSteps
    BY <1>4, CommitFacts, <1>0, ResolveKept, KeptSteps DEF KeyStep, Keep
  <1>5. ASSUME NEW staged, Commit(promote_task_options(db, g, staged)) PROVE DatabaseSteps
    BY <1>0, <1>5, CommitFacts, PromoteKept, KeptSteps DEF KeyStep, Keep
  <1>6. CASE Commit(replace_task_options(db, g, "NextAdmission", {Pin(key)}))
    BY <1>0, <1>6, CommitFacts, ReplaceStagedKept, KeptSteps DEF KeyStep, Keep
  <1> QED BY <1>1, <1>2, <1>3, <1>4, <1>5, <1>6, Zenon

\* The commands of journal compaction and reconciliation.
LEMMA InstallSteps ==
  ASSUME DatabaseInv, InstallStep
  PROVE  DatabaseSteps
  <1>0. DbOK(db) /\ Keep BY DEF DatabaseInv, InstallStep
  <1>1. PICK g \in Marked \cap DOMAIN db.tasks, old \in Journals, new \in Journals, now \in Clock :
       \/ Commit(begin_journal_install(db, g, old, new))
       \/ Commit(complete_journal_install(db, g, new, now))
       \/ Commit(abort_journal_install(db, g, new))
       \/ Commit(clear_installed_journal(db, g, new))
       \/ \E layout, root \in BOOLEAN : Commit(reconcile_journal_authority(db, g, old, layout, root, now))
       \/ \E noSpace \in BOOLEAN :
            Commit(put_task(db, g, db.tasks[g].queue, db.tasks[g].pos, db.tasks[g].paused, noSpace, Some(new), now))
    BY Zenon DEF InstallStep
  <1>2. CASE Commit(begin_journal_install(db, g, old, new))
    BY <1>0, <1>2, CommitFacts, BeginInstallKept, KeptSteps DEF Keep
  <1>3. CASE Commit(complete_journal_install(db, g, new, now))
    BY <1>0, <1>3, CommitFacts, CompleteInstallKept, KeptSteps DEF Keep
  <1>4. CASE Commit(abort_journal_install(db, g, new)) \/ Commit(clear_installed_journal(db, g, new))
    BY <1>0, <1>4, CommitFacts, EndInstallKept, KeptSteps DEF Keep
  <1>5. ASSUME NEW layout, NEW root, Commit(reconcile_journal_authority(db, g, old, layout, root, now)) PROVE DatabaseSteps
    BY <1>0, <1>5, CommitFacts, ReconcileKept, KeptSteps DEF Keep
  <1>6. ASSUME NEW q, NEW pos, NEW paused, NEW noSpace, NEW journal,
               Commit(put_task(db, g, q, pos, paused, noSpace, journal, now))
        PROVE  DatabaseSteps
    BY <1>6, CommitFacts, <1>0, PutTaskKept, KeptSteps DEF Keep
  <1> QED BY <1>1, <1>2, <1>3, <1>4, <1>5, <1>6, Zenon

\* A database follows itself.
LEMMA SameFollows ==
  ASSUME NEW d, DbOK(d)
  PROVE  Follows(d, d) /\ BlobsFollow(d, d)
  <1>1. Follows(d, d) BY DEF Follows, RowFollows
  <1>2. BlobsFollow(d, d) BY BlobStays DEF BlobsFollow
  <1> QED BY <1>1, <1>2

\* The commands on options, sources and expansions.
LEMMA OptionSteps ==
  ASSUME DatabaseInv, OptionStep
  PROVE  DatabaseSteps
  <1>0. DbOK(db) /\ Keep BY DEF DatabaseInv, OptionStep
  <1> DEFINE j == CHOOSE i \in Journals : TRUE
  <1>1. PICK g \in Marked \cap DOMAIN db.tasks, options \in SUBSET Entries, now \in Clock :
       \/ \E scope \in {"CurrentGeneration", "NextAdmission"} : Commit(replace_task_options(db, g, scope, options))
       \/ Commit(promote_task_options(db, g, options))
       \/ \E sources \in {{[uri |-> FALSE, credentials |-> c]} : c \in BOOLEAN} : Commit(replace_task_sources(db, g, sources))
       \/ \E to \in {"Waiting", "Paused"} : \E orders \in Orders(g, db.tasks[g].queue, to) :
            Commit(replace_task_sources_and_queue(db, g, db.tasks[g].queue, to, FALSE, db.tasks[g].demotions, None,
                                                  orders, {Plain}, now))
       \/ \E members \in {m \in SUBSET Gids : Cardinality(m) \in 1..2} :
            Commit(create_batch_following(db, members, Some(g), options, "Waiting", Some(j), now))
       \/ \E on \in BOOLEAN : Commit(set_task_no_space_condition(db, g, on, now))
    BY Zenon DEF OptionStep
  <1> HIDE DEF j
  <1>2. ASSUME NEW scope \in {"CurrentGeneration", "NextAdmission"}, Commit(replace_task_options(db, g, scope, options))
        PROVE  DatabaseSteps
    BY <1>2, CommitFacts, <1>0, ReplaceCurrentKept, KeptSteps, ReplaceStagedKept DEF Keep
  <1>3. CASE Commit(promote_task_options(db, g, options))
    BY <1>0, <1>3, CommitFacts, PromoteKept, KeptSteps DEF Keep
  <1>4. ASSUME NEW sources, Commit(replace_task_sources(db, g, sources)) PROVE DatabaseSteps
    BY <1>0, <1>4, CommitFacts, SourcesKept, KeptSteps DEF Keep
  <1>5. ASSUME NEW from, NEW to \in {"Waiting", "Paused"}, NEW paused, NEW demotions, NEW orders, NEW sources,
               Commit(replace_task_sources_and_queue(db, g, from, to, paused, demotions, None, orders, sources, now))
        PROVE  DatabaseSteps
    BY <1>5, CommitFacts, <1>0, SourcesAndQueueKept, KeptSteps DEF Live, Queues, Keep
  <1>6. ASSUME NEW members \in SUBSET Gids, NEW parent,
               Commit(create_batch_following(db, members, parent, options, "Waiting", Some(j), now))
        PROVE  DatabaseSteps
    BY <1>6, CommitFacts, ClockFacts, <1>0, BatchKept, KeptSteps DEF Keep
  <1>7. ASSUME NEW on, Commit(set_task_no_space_condition(db, g, on, now)) PROVE DatabaseSteps
    BY <1>0, <1>7, CommitFacts, NoSpaceKept, KeptSteps DEF Keep
  <1>8. \A m \in {m \in SUBSET Gids : Cardinality(m) \in 1..2} : m \in SUBSET Gids OBVIOUS
  <1> QED BY <1>1, <1>2, <1>3, <1>4, <1>5, <1>6, <1>7, <1>8, Zenon

\* The commands on torrents, and a worker that asks for a checkpoint.
LEMMA TorrentSteps ==
  ASSUME DatabaseInv, TorrentStep
  PROVE  DatabaseSteps
  <1>0. DbOK(db) /\ AskInv(db, asked, setup) BY DEF DatabaseInv
  <1>1. ASSUME NEW g \in Gids, NEW q \in {"Waiting", "Paused"}, NEW paused, NEW now \in Clock,
               NEW binding \in Bindings, Commit(create_bt_task(db, g, q, 0, paused, {}, 0, binding, now)), UNCHANGED <<asked, setup>>
        PROVE  DatabaseSteps
    BY <1>1, CommitFacts, ClockFacts, <1>0, MarkedAssumption, CreateTorrentAdmits, AdmittedAsks DEF DatabaseSteps
  <1>2. ASSUME NEW g, IsTorrent(db, g), Torrent(db, g).generation < MaxGenerations, UNCHANGED <<asked, setup>>,
               Commit(begin_bt_generation(db, g, Torrent(db, g).generation, Torrent(db, g).generation + 1))
        PROVE  DatabaseSteps
    <2> DEFINE i == Torrent(db, g).generation
               k == i + 1
    <2>1. i \in 0..MaxGenerations BY <1>0, <1>2, TorrentOf, TorrentFields
    <2>2. k \in 0..MaxGenerations /\ k # i BY <1>2, <2>1, StoreAssumption
    <2>3. db' \in begin_bt_generation(db, g, i, k) BY <1>2, CommitFacts
    <2> HIDE DEF i, k
    <2>4. DbOK(db') /\ AskInv(db', asked, setup) /\ Follows(db, db') /\ BlobsFollow(db, db')
      BY <1>0, <2>2, <2>3, GenerationAsks
    <2> QED BY <1>2, <2>4 DEF DatabaseSteps
  <1>3. ASSUME NEW g, \A a \in asked : a.gid # g, UNCHANGED <<asked, setup>>, Commit(begin_bt_generation(db, g, 0, 0))
        PROVE  DatabaseSteps
    BY <1>3, CommitFacts, StoreAssumption, <1>0, GenerationAsks DEF DatabaseSteps
  <1>4. ASSUME NEW g, IsTorrent(db, g), NEW r \in 1..2, UNCHANGED <<db, setup>>,
               asked' = asked \cup {[gid |-> g, generation |-> Torrent(db, g).generation, request |-> r, setup |-> setup[g]]}
        PROVE  DatabaseSteps
    BY <1>0, <1>4, AskedAsks, SameFollows DEF DatabaseSteps
  <1>5. ASSUME NEW g, NEW a \in asked, a.gid = g, NEW resume \in {None, Some(None), Some(Some(a))},
               Commit(checkpoint_bt(db, g, a.generation, a.request, resume)),
               UNCHANGED <<asked, setup>>
        PROVE  DatabaseSteps
    BY <1>5, CommitFacts, <1>0, CheckpointAsks DEF DatabaseSteps
  <1>6. ASSUME NEW g, NEW k, UNCHANGED <<asked, setup>>, Commit(mark_bt_dirty(db, g, k))
        PROVE  DatabaseSteps
    BY <1>6, CommitFacts, <1>0, MarkAsks DEF DatabaseSteps
  <1>b. ASSUME NEW g, NEW k, UNCHANGED <<asked, setup>>, NEW binding \in Bindings, Commit(bind_bt_metadata(db, g, k, binding))
        PROVE  DatabaseSteps
    BY <1>b, CommitFacts, <1>0, MarkedAssumption, BindAsks DEF DatabaseSteps
  <1>7. ASSUME NEW g, NEW k, NEW expected, NEW options, NEW binding \in Bindings,
               Commit(replace_paused_bt_options(db, g, k, expected, options, binding)),
               setup' = [setup EXCEPT ![g] = 1], UNCHANGED asked
        PROVE  DatabaseSteps
    BY <1>7, CommitFacts, <1>0, MarkedAssumption, RestartOptionsAsks DEF DatabaseSteps
  <1>8. ASSUME NEW g, NEW result, NEW from, NEW paused, NEW orders, NEW k, NEW req, NEW now, UNCHANGED <<asked, setup>>,
               Commit(persist_bt_terminal(db, g, result, from, "Stopped", paused, orders, k, req, now))
        PROVE  DatabaseSteps
    BY <1>8, CommitFacts, <1>0, TerminalKept, KeptSteps
  <1>9. CASE \E g \in Marked, q \in {"Waiting", "Paused"}, binding \in Bindings, now \in Clock :
               Commit(create_bt_task(db, g, q, 0, q = "Paused", {}, 0, binding, now)) /\ UNCHANGED <<asked, setup>>
    BY <1>1, <1>9, MarkedAssumption, Zenon
  <1>10. CASE \E g \in DOMAIN db.tasks : IsTorrent(db, g) /\
          \/ /\ Commit(begin_bt_generation(db, g, Torrent(db, g).generation, Torrent(db, g).generation + 1))
             /\ Torrent(db, g).generation < MaxGenerations
             /\ UNCHANGED <<asked, setup>>
          \/ /\ \A a \in asked : a.gid # g
             /\ Commit(begin_bt_generation(db, g, 0, 0))
             /\ UNCHANGED <<asked, setup>>
          \/ /\ \E r \in 1..2 :
                  /\ asked' = asked \cup {[gid |-> g, generation |-> Torrent(db, g).generation, request |-> r, setup |-> setup[g]]}
             /\ UNCHANGED <<db, setup>>
          \/ /\ \E a \in asked : \E resume \in {None, Some(None), Some(Some(a))} :
                  a.gid = g /\ Commit(checkpoint_bt(db, g, a.generation, a.request, resume))
             /\ UNCHANGED <<asked, setup>>
          \/ /\ \/ Commit(mark_bt_dirty(db, g, Torrent(db, g).generation))
                \/ \E binding \in Bindings : Commit(bind_bt_metadata(db, g, Torrent(db, g).generation, binding))
             /\ UNCHANGED <<asked, setup>>
          \/ /\ \E options \in SUBSET Entries, binding \in Bindings :
                  Commit(replace_paused_bt_options(db, g, Torrent(db, g).generation, db.tasks[g].current, options, binding))
             /\ setup' = [setup EXCEPT ![g] = 1]
             /\ UNCHANGED asked
          \/ /\ \E now \in Clock, orders \in Orders(g, db.tasks[g].queue, "Stopped") :
                  Commit(persist_bt_terminal(db, g, CompleteResult, db.tasks[g].queue, "Stopped", db.tasks[g].paused, orders,
                                             Torrent(db, g).saved, Torrent(db, g).request, now))
             /\ UNCHANGED <<asked, setup>>
    BY <1>2, <1>3, <1>4, <1>5, <1>6, <1>b, <1>7, <1>8, <1>10, Zenon
  <1> QED BY <1>9, <1>10, Zenon DEF TorrentStep

\* Every step keeps the invariant and the history.
LEMMA DatabaseStep ==
  ASSUME DatabaseInv, [FrontendNext]_frontendVars
  PROVE  DatabaseSteps
  <1>1. CASE DatabaseNext
    BY <1>1, QueueSteps, DeleteSteps, KeySteps, InstallSteps, OptionSteps, TorrentSteps, Zenon DEF DatabaseNext
  <1>2. CASE UNCHANGED databaseVars BY <1>2, SameFollows DEF databaseVars, DatabaseInv, DatabaseSteps
  <1>3. DatabaseNext \/ UNCHANGED databaseVars BY DEF FrontendNext, frontendVars
  <1> QED BY <1>1, <1>2, <1>3

\* The invariant holds at the start.
LEMMA DatabaseStart ==
  ASSUME FrontendInit
  PROVE  DatabaseInv
  <1>1. db \in put_session(EmptyDatabase, "session") /\ asked = {} /\ setup = SetupOf
    BY DEF FrontendInit, DatabaseInit, NoDatabase
  <1> QED BY <1>1, EmptySound DEF DatabaseInv

\* Every row the owner thread commits satisfies the table's checks, the queues
\* are dense, and the checkpoints still to come cannot pass for newer ones:
\* the inductive invariant of the session database, for every number of
\* tasks, journals, keys, options and generations.
THEOREM DatabaseInvariance == FrontendSpec => []DatabaseInv
  <1>1. FrontendInit => DatabaseInv BY DatabaseStart
  <1>2. DatabaseInv /\ [FrontendNext]_frontendVars => DatabaseInv'
    BY DatabaseStep DEF DatabaseInv, DatabaseSteps
  <1> QED BY <1>1, <1>2, PTL DEF FrontendSpec

\* The invariant implies what a start and a move need.
LEMMA InvSound ==
  ASSUME DatabaseInv
  PROVE  StoreSound
  <1>0. DbOK(db) /\ AskInv(db, asked, setup) BY DEF DatabaseInv
  <1>1. DatabaseTypeOK BY <1>0, PlacesBounded DEF DbOK, RowsOK, DbShape, AskInv, Asks, DatabaseTypeOK
  <1>2. NextStartOpens BY <1>0, SoundOpens DEF NextStartOpens
  <1>3. MovesCommit
    <2> SUFFICES ASSUME NEW g \in DOMAIN db.tasks, NEW to \in Live, db.tasks[g].queue # "Stopped", db.tasks[g].kind = "Transfer",
                        ~reject_retained_host_key_departure(db, g, db.tasks[g].queue, to),
                        NEW pos \in 0..(Cardinality(Members(db, to)) - (IF db.tasks[g].queue = to THEN 1 ELSE 0))
                 PROVE  transition_task_queue(db, g, db.tasks[g].queue, to, pos, FALSE, 1, SlowOf(to), MaxTime) # {}
      BY DEF MovesCommit
    <2> DEFINE from == db.tasks[g].queue
    <2>1. Cardinality(Members(db, to)) \in Nat BY <1>0, PlacesOf DEF Live
    <2>2. pos \in Nat /\ pos <= Cardinality(Members(db, to)) - (IF from = to THEN 1 ELSE 0) BY <2>1
    <2>3. from # "Stopped" /\ ~reject_retained_host_key_departure(db, g, from, to) OBVIOUS
    <2>4. db.tasks[g].queue = from OBVIOUS
    <2> HIDE DEF from
    <2>5. transition_task_queue(db, g, from, to, pos, FALSE, 1, SlowOf(to), MaxTime) # {}
      BY <1>0, <2>2, <2>3, <2>4, MoveCommits, Zenon
    <2> QED BY <2>4, <2>5
  <1> QED BY <1>1, <1>2, <1>3 DEF StoreSound

\* Whatever commands committed, SessionStore::open accepts the database and a
\* move of an unfinished transfer to any place of its queue commits.
THEOREM StoreStaysSound == FrontendSpec => []StoreSound
  <1>1. DatabaseInv => StoreSound BY InvSound
  <1> QED BY <1>1, DatabaseInvariance, PTL

\* Resume data kept for a torrent was saved under the options it will be
\* resumed with (replace_paused_bt_options, checkpoint_bt).
THEOREM ResumeMatches == FrontendSpec => []ResumeMatchesSetup
  <1>1. DatabaseInv => ResumeMatchesSetup BY DEF DatabaseInv, AskInv, BlobOK, ResumeMatchesSetup
  <1> QED BY <1>1, DatabaseInvariance, PTL

\* What a step may never do, spelled out.
LEMMA StepsHistory ==
  ASSUME DatabaseSteps
  PROVE  /\ \A g \in DOMAIN db.tasks \cap DOMAIN db'.tasks : db'.tasks[g].journal # db.tasks[g].journal =>
              /\ Is(db.tasks[g].install)
              /\ The(db.tasks[g].install).phase = "Installing"
              /\ db.tasks[g].journal = Some(The(db.tasks[g].install).old)
              /\ db'.tasks[g].journal = Some(The(db.tasks[g].install).new)
         /\ \A g \in DOMAIN db.tasks \cap DOMAIN db'.tasks :
              IsTorrent(db, g) /\ Is(Torrent(db, g).blob) /\ IsTorrent(db', g) /\ Is(Torrent(db', g).blob) =>
                LET old == The(Torrent(db, g).blob)  new == The(Torrent(db', g).blob)
                IN \/ old.generation < new.generation
                   \/ old.generation = new.generation /\ old.request <= new.request
  <1>1. Follows(db, db') /\ BlobsFollow(db, db') BY DEF DatabaseSteps
  <1>2. \A g \in DOMAIN db.tasks \cap DOMAIN db'.tasks : RowFollows(db.tasks[g], db'.tasks[g])
    BY <1>1 DEF Follows
  <1>3. \A g \in DOMAIN db.tasks \cap DOMAIN db'.tasks :
          IsTorrent(db, g) /\ IsTorrent(db', g) => BlobFollows(Torrent(db, g), Torrent(db', g))
    BY <1>1 DEF BlobsFollow
  <1> QED BY <1>2, <1>3, Zenon DEF RowFollows, BlobFollows

\* No transaction moves a journal pointer its install intent does not
\* explain, or replaces resume data by older data.
THEOREM HistoryStays == FrontendSpec => HistoryKept
  <1>1. DatabaseInv /\ [FrontendNext]_frontendVars => [\A g \in DOMAIN db.tasks \cap DOMAIN db'.tasks : db'.tasks[g].journal # db.tasks[g].journal =>
              /\ Is(db.tasks[g].install)
              /\ The(db.tasks[g].install).phase = "Installing"
              /\ db.tasks[g].journal = Some(The(db.tasks[g].install).old)
              /\ db'.tasks[g].journal = Some(The(db.tasks[g].install).new)]_databaseVars
    BY DatabaseStep, StepsHistory
  <1>3. DatabaseInv /\ [FrontendNext]_frontendVars => [\A g \in DOMAIN db.tasks \cap DOMAIN db'.tasks :
              IsTorrent(db, g) /\ Is(Torrent(db, g).blob) /\ IsTorrent(db', g) /\ Is(Torrent(db', g).blob) =>
                LET old == The(Torrent(db, g).blob)  new == The(Torrent(db', g).blob)
                IN \/ old.generation < new.generation
                   \/ old.generation = new.generation /\ old.request <= new.request]_databaseVars
    BY DatabaseStep, StepsHistory
  <1> QED
    BY <1>1, <1>3, DatabaseInvariance, PTL DEF FrontendSpec, HistoryKept, PointerFollowsIntent, CheckpointsMoveForward

---------------------------------------------------------------------------------
\* The bandwidth shares.

RateFields == {"total", "before", "bt", "transfer", "updates", "pending", "adapter", "applied", "session", "arbiter"}
Shares(bt, http) == [bt |-> bt, transfer |-> http]
\* The shares once update u is through.
Updated(p, u) == Shares(IF u.group = "bt" THEN u.limit ELSE p.bt, IF u.group = "transfer" THEN u.limit ELSE p.transfer)
Within(p, limit) == limit # Unlimited => p.bt + p.transfer <= limit
Larger(b, c) == IF b > c THEN b ELSE c
RateUpdates == [group : {"bt", "transfer"}, limit : 0..Unlimited]
\* While updates are under way the shares are within the larger total after
\* each of them, and within the new one after the last.
Planned(us, p, before, total) ==
  \/ us = <<>> /\ Within(p, total)
  \/ \E u \in RateUpdates :
       /\ us = <<u>>
       /\ Within(p, Larger(before, total)) /\ Within(Updated(p, u), total)
  \/ \E u, v \in RateUpdates :
       /\ us = <<u, v>>
       /\ Within(p, Larger(before, total)) /\ Within(Updated(p, u), Larger(before, total))
       /\ Within(Updated(Updated(p, u), v), total)
\* What the session and the arbiter have been told, and what is still to be.
RatesOK(x) ==
  /\ x = [f \in RateFields |-> x[f]]
  /\ x.total \in 0..Unlimited /\ x.before \in 0..Unlimited
  /\ x.bt \in 0..Unlimited /\ x.transfer \in 0..Unlimited /\ x.session \in 0..Unlimited
  /\ x.pending \in BOOLEAN /\ x.adapter \in BOOLEAN /\ x.applied \in BOOLEAN
  /\ x.arbiter = x.transfer
  /\ x.applied \/ x.pending => x.adapter
  /\ x.applied /\ ~x.pending => x.session = x.bt
  /\ x.pending => x.updates # <<>> /\ x.updates[1].group = "bt" /\ x.session = x.updates[1].limit
  /\ Planned(x.updates, Shares(x.bt, x.transfer), x.before, x.total)
RatesInv == part = "rates" => RatesOK(rates)

\* Before anything is configured nothing is limited.
LEMMA RatesStart == RatesOK(NewRates)
  <1> DEFINE x == NewRates
  <1>1. x = [f \in RateFields |-> x[f]] BY DEF NewRates, RateFields
  <1>2. /\ x.total = Unlimited /\ x.before = Unlimited /\ x.bt = Unlimited /\ x.transfer = Unlimited /\ x.session = Unlimited
        /\ x.arbiter = Unlimited /\ x.updates = <<>> /\ x.pending = FALSE /\ x.adapter = FALSE /\ x.applied = FALSE
    BY DEF NewRates
  <1> HIDE DEF x
  <1>3. Planned(x.updates, Shares(x.bt, x.transfer), x.before, x.total) BY <1>2 DEF Planned, Within
  <1>4. Unlimited \in 0..Unlimited BY BtAssumption
  <1>5. ~x.pending /\ ~x.applied /\ x.pending \in BOOLEAN /\ x.adapter \in BOOLEAN /\ x.applied \in BOOLEAN
    BY <1>2
  <1>6. RatesOK(x) BY <1>1, <1>2, <1>3, <1>4, <1>5 DEF RatesOK
  <1> QED BY <1>6 DEF x

\* What a plan says of the present and of its first update.
LEMMA PlanFacts ==
  ASSUME NEW us, NEW p, NEW b \in 0..Unlimited, NEW c \in 0..Unlimited, p.bt \in 0..Unlimited, p.transfer \in 0..Unlimited,
         Planned(us, p, b, c)
  PROVE  /\ us = <<>> => Within(p, c)
         /\ us # <<>> => /\ Within(p, Larger(b, c)) /\ us[1] \in RateUpdates /\ Head(us) = us[1]
                         /\ Planned(Tail(us), Updated(p, us[1]), b, c)
                         /\ Within(Updated(p, us[1]), Larger(b, c))
  <1>1. CASE us = <<>> BY <1>1 DEF Planned
  <1>2. CASE \E u \in RateUpdates : us = <<u>> /\ Within(p, Larger(b, c)) /\ Within(Updated(p, u), c)
    <2>1. PICK u \in RateUpdates : us = <<u>> /\ Within(p, Larger(b, c)) /\ Within(Updated(p, u), c) BY <1>2
    <2>2. us # <<>> /\ us[1] = u /\ Head(us) = u /\ Tail(us) = <<>> BY <2>1
    <2>3. Planned(<<>>, Updated(p, u), b, c) BY <2>1 DEF Planned
    <2>4. Updated(p, u).bt \in Nat /\ Updated(p, u).transfer \in Nat
      BY BtAssumption DEF Updated, Shares, RateUpdates
    <2>5. Within(Updated(p, u), Larger(b, c)) BY <2>1, <2>4, BtAssumption DEF Within, Larger
    <2> QED BY <2>1, <2>2, <2>3, <2>5
  <1>3. CASE \E u, v \in RateUpdates : us = <<u, v>> /\ Within(p, Larger(b, c)) /\ Within(Updated(p, u), Larger(b, c)) /\ Within(Updated(Updated(p, u), v), c)
    <2>1. PICK u \in RateUpdates, v \in RateUpdates :
            us = <<u, v>> /\ Within(p, Larger(b, c)) /\ Within(Updated(p, u), Larger(b, c)) /\ Within(Updated(Updated(p, u), v), c)
      BY <1>3
    <2>2. us # <<>> /\ us[1] = u /\ Head(us) = u /\ Tail(us) = <<v>> BY <2>1
    <2>3. Planned(<<v>>, Updated(p, u), b, c) BY <2>1 DEF Planned
    <2> QED BY <2>1, <2>2, <2>3
  <1> QED BY <1>1, <1>2, <1>3, Zenon DEF Planned

\* A change of the record that leaves the fields it does not name.
SameRates(x, y, F) == y = [f \in RateFields |-> y[f]] /\ \A f \in RateFields \ F : y[f] = x[f]

\* The plan's first update is applied by the arbiter.
LEMMA ArbiterTakes ==
  ASSUME NEW x, RatesOK(x), NEW y, x.updates # <<>>, x.updates[1].group = "transfer", SameRates(x, y, {"arbiter", "transfer", "updates"}),
         y.arbiter = x.updates[1].limit, y.transfer = x.updates[1].limit, y.updates = Tail(x.updates)
  PROVE  RatesOK(y)
  <1> DEFINE p == Shares(x.bt, x.transfer)
  <1>1. p.bt = x.bt /\ p.transfer = x.transfer BY DEF Shares
  <1>2. x.updates[1] \in RateUpdates /\ Planned(Tail(x.updates), Updated(p, x.updates[1]), x.before, x.total)
    BY <1>1, PlanFacts DEF RatesOK
  <1>3. Updated(p, x.updates[1]) = Shares(y.bt, y.transfer) BY <1>1 DEF Updated, SameRates, RateFields
  <1>4. y.total = x.total /\ y.before = x.before /\ y.bt = x.bt /\ y.session = x.session /\ y.pending = x.pending /\ y.adapter = x.adapter
        /\ y.applied = x.applied
    BY DEF SameRates, RateFields
  <1>5. ~x.pending BY DEF RatesOK
  <1>6. x.updates[1].limit \in 0..Unlimited BY <1>2 DEF RateUpdates
  <1> HIDE DEF p
  <1> QED BY <1>2, <1>3, <1>4, <1>5, <1>6 DEF RatesOK, SameRates

\* It is taken by the lane, when nothing is sent or once the session has
\* acknowledged it.
LEMMA LaneTakes ==
  ASSUME NEW x, RatesOK(x), NEW y, NEW us, Planned(us, Shares(x.bt, x.transfer), x.before, x.total), us # <<>>, us[1].group = "bt",
         SameRates(x, y, {"bt", "updates", "pending", "applied"}), y.bt = us[1].limit, y.updates = Tail(us), y.pending = FALSE,
         y.applied \in BOOLEAN, y.applied => x.adapter /\ x.session = us[1].limit
  PROVE  RatesOK(y)
  <1> DEFINE p == Shares(x.bt, x.transfer)
  <1>1. p.bt = x.bt /\ p.transfer = x.transfer BY DEF Shares
  <1>2. us[1] \in RateUpdates /\ Planned(Tail(us), Updated(p, us[1]), x.before, x.total)
    BY <1>1, PlanFacts DEF RatesOK
  <1>4. y.total = x.total /\ y.before = x.before /\ y.transfer = x.transfer /\ y.session = x.session /\ y.adapter = x.adapter
        /\ y.arbiter = x.arbiter
    BY DEF SameRates, RateFields
  <1>3. Updated(p, us[1]) = Shares(y.bt, y.transfer) BY <1>1, <1>4 DEF Updated
  <1>6. us[1].limit \in 0..Unlimited BY <1>2 DEF RateUpdates
  <1> HIDE DEF p
  <1> QED BY <1>2, <1>3, <1>4, <1>6 DEF RatesOK, SameRates

\* It is sent to the session, which may apply it before it is acknowledged.
LEMMA SessionTold ==
  ASSUME NEW x, RatesOK(x), NEW y, NEW us, Planned(us, Shares(x.bt, x.transfer), x.before, x.total), us # <<>>, us[1].group = "bt",
         SameRates(x, y, {"pending", "updates", "session"}), y.pending = TRUE, x.adapter, y.updates = us, y.session = us[1].limit
  PROVE  RatesOK(y)
  <1> DEFINE p == Shares(x.bt, x.transfer)
  <1>1. p.bt = x.bt /\ p.transfer = x.transfer BY DEF Shares
  <1>2. us[1] \in RateUpdates BY <1>1, PlanFacts DEF RatesOK
  <1>4. y.total = x.total /\ y.before = x.before /\ y.transfer = x.transfer /\ y.bt = x.bt /\ y.adapter = x.adapter
        /\ y.arbiter = x.arbiter /\ y.applied = x.applied
    BY DEF SameRates, RateFields
  <1>6. us[1].limit \in 0..Unlimited BY <1>2 DEF RateUpdates
  <1> QED BY <1>4, <1>6 DEF RatesOK, SameRates

\* The update poll_rates looks at first is part of a plan.
LEMMA PollPlan ==
  ASSUME NEW x, RatesOK(x), NEW us,
         us = IF x.adapter /\ ~x.applied /\ x.updates = <<>> THEN <<[group |-> "bt", limit |-> x.bt]>> ELSE x.updates
  PROVE  Planned(us, Shares(x.bt, x.transfer), x.before, x.total)
  <1>1. CASE x.adapter /\ ~x.applied /\ x.updates = <<>>
    <2> DEFINE u == [group |-> "bt", limit |-> x.bt]
               p == Shares(x.bt, x.transfer)
    <2>1. u \in RateUpdates /\ us = <<u>> BY <1>1 DEF RateUpdates, RatesOK
    <2>2. Updated(p, u) = p /\ p.bt = x.bt /\ p.transfer = x.transfer BY DEF Updated, Shares
    <2>3. Within(p, x.total) BY <1>1, <2>2, PlanFacts DEF RatesOK
    <2>4. Within(p, Larger(x.before, x.total)) BY <2>2, <2>3, BtAssumption DEF RatesOK, Within, Larger
    <2> HIDE DEF u, p
    <2>5. Planned(us, p, x.before, x.total) BY <2>1, <2>2, <2>3, <2>4 DEF Planned
    <2> QED BY <2>5 DEF p
  <1>2. CASE ~(x.adapter /\ ~x.applied /\ x.updates = <<>>) BY <1>2 DEF RatesOK
  <1> QED BY <1>1, <1>2

\* poll_rates keeps the shares within the totals.
LEMMA PollRatesKept ==
  ASSUME RatesOK(rates), poll_rates
  PROVE  RatesOK(rates')
  <1> DEFINE us == IF rates.adapter /\ ~rates.applied /\ rates.updates = <<>> THEN <<[group |-> "bt", limit |-> rates.bt]>> ELSE rates.updates
             u == us[1]
  <1>1. us # <<>> BY DEF poll_rates
  <1>2. Planned(us, Shares(rates.bt, rates.transfer), rates.before, rates.total) BY PollPlan
  <1>3. u \in RateUpdates /\ Head(us) = u
    <2>1. Shares(rates.bt, rates.transfer).bt = rates.bt /\ Shares(rates.bt, rates.transfer).transfer = rates.transfer
      BY DEF Shares
    <2> HIDE DEF us
    <2> QED BY <1>1, <1>2, <2>1, PlanFacts DEF RatesOK
  <1>4. rates = [f \in RateFields |-> rates[f]] /\ rates.pending \in BOOLEAN BY DEF RatesOK
  <1>5. rates' = CASE u.group = "transfer" ->
                      [rates EXCEPT !.arbiter = u.limit, !.transfer = u.limit, !.updates = Tail(us)]
                 [] u.group = "bt" /\ ~rates.adapter ->
                      [rates EXCEPT !.bt = u.limit, !.updates = Tail(us)]
                 [] u.group = "bt" /\ rates.adapter /\ ~rates.pending ->
                      [rates EXCEPT !.pending = TRUE, !.updates = us, !.session = u.limit]
                 [] OTHER ->
                      [rates EXCEPT !.pending = FALSE, !.bt = u.limit, !.applied = TRUE, !.updates = Tail(us)]
    BY <1>1, <1>3 DEF poll_rates
  <1>6. rates.pending => us = rates.updates BY DEF RatesOK
  <1>7. u.group # "bt" => us = rates.updates OBVIOUS
  <1> HIDE DEF us
  <1>8. CASE u.group = "transfer"
    <2> DEFINE y == [rates EXCEPT !.arbiter = u.limit, !.transfer = u.limit, !.updates = Tail(us)]
    <2>1. rates' = y BY <1>5, <1>8
    <2>2. SameRates(rates, y, {"arbiter", "transfer", "updates"}) /\ y.arbiter = u.limit /\ y.transfer = u.limit /\ y.updates = Tail(us)
      BY <1>4 DEF SameRates, RateFields
    <2> HIDE DEF y
    <2> QED BY <1>1, <1>7, <1>8, <2>1, <2>2, ArbiterTakes
  <1>9. CASE u.group = "bt" /\ ~rates.adapter
    <2> DEFINE y == [rates EXCEPT !.bt = u.limit, !.updates = Tail(us)]
    <2>1. rates' = y BY <1>5, <1>9
    <2>2. SameRates(rates, y, {"bt", "updates", "pending", "applied"}) /\ y.bt = u.limit /\ y.updates = Tail(us) /\ y.pending = rates.pending
          /\ y.applied = rates.applied
      BY <1>4 DEF SameRates, RateFields
    <2> HIDE DEF y
    <2>3. rates.pending = FALSE /\ rates.applied = FALSE BY <1>9 DEF RatesOK
    <2> QED BY <1>1, <1>2, <1>9, <2>1, <2>2, <2>3, LaneTakes
  <1>10. CASE u.group = "bt" /\ rates.adapter /\ ~rates.pending
    <2> DEFINE y == [rates EXCEPT !.pending = TRUE, !.updates = us, !.session = u.limit]
    <2>1. rates' = y BY <1>5, <1>10
    <2>2. SameRates(rates, y, {"pending", "updates", "session"}) /\ y.pending = TRUE /\ y.updates = us /\ y.session = u.limit
      BY <1>4 DEF SameRates, RateFields
    <2> HIDE DEF y
    <2> QED BY <1>1, <1>2, <1>10, <2>1, <2>2, SessionTold
  <1>11. CASE u.group = "bt" /\ rates.adapter /\ rates.pending
    <2> DEFINE y == [rates EXCEPT !.pending = FALSE, !.bt = u.limit, !.applied = TRUE, !.updates = Tail(us)]
    <2>1. rates' = y BY <1>5, <1>11
    <2>2. SameRates(rates, y, {"bt", "updates", "pending", "applied"}) /\ y.bt = u.limit /\ y.updates = Tail(us) /\ y.pending = FALSE
          /\ y.applied = TRUE
      BY <1>4 DEF SameRates, RateFields
    <2> HIDE DEF y
    <2>3. rates.session = u.limit BY <1>6, <1>11 DEF RatesOK
    <2> QED BY <1>1, <1>2, <1>11, <2>1, <2>2, <2>3, LaneTakes
  <1> HIDE DEF u
  <1>12. u.group \in {"bt", "transfer"} BY <1>3 DEF RateUpdates
  <1> QED BY <1>4, <1>8, <1>9, <1>10, <1>11, <1>12

\* A new adapter knows no limit yet and none is counted on it.
LEMMA AdapterKept ==
  ASSUME RatesOK(rates), AdapterStarted
  PROVE  RatesOK(rates')
  <1> DEFINE y == [rates EXCEPT !.adapter = TRUE, !.applied = FALSE, !.session = Unlimited]
  <1>1. rates' = y /\ ~rates.adapter BY DEF AdapterStarted
  <1>2. SameRates(rates, y, {"adapter", "applied", "session"}) /\ y.adapter = TRUE /\ y.applied = FALSE /\ y.session = Unlimited
    BY DEF SameRates, RateFields, RatesOK
  <1> HIDE DEF y
  <1>3. y.total = rates.total /\ y.before = rates.before /\ y.transfer = rates.transfer /\ y.bt = rates.bt /\ y.updates = rates.updates
        /\ y.arbiter = rates.arbiter /\ y.pending = rates.pending
    BY <1>2 DEF SameRates, RateFields
  <1>4. ~rates.pending BY <1>1 DEF RatesOK
  <1>5. ~y.applied /\ ~y.pending /\ y.adapter \in BOOLEAN /\ y.applied \in BOOLEAN /\ y.pending \in BOOLEAN
    BY <1>2, <1>3, <1>4 DEF RatesOK
  <1>6. Unlimited \in 0..Unlimited BY BtAssumption
  <1>7. Planned(y.updates, Shares(y.bt, y.transfer), y.before, y.total) BY <1>3 DEF RatesOK
  <1> QED BY <1>1, <1>2, <1>3, <1>5, <1>6, <1>7 DEF RatesOK, SameRates

\* A split is within the total it splits.
LEMMA SplitWithin ==
  ASSUME NEW total \in 0..Unlimited, NEW b \in BOOLEAN, NEW h \in BOOLEAN
  PROVE  LET s == split_bandwidth(total, b, h)
         IN s = Shares(s.bt, s.transfer) /\ s.bt \in 0..Unlimited /\ s.transfer \in 0..Unlimited /\ Within(s, total)
  <1>1. CASE total = Unlimited BY <1>1, BtAssumption DEF split_bandwidth, Shares, Within
  <1>2. CASE total # Unlimited /\ b /\ h
    <2>1. total \in Nat /\ total \div 2 \in Nat /\ total \div 2 <= total BY BtAssumption
    <2>2. split_bandwidth(total, b, h) = Shares(total \div 2, total - total \div 2)
      BY <1>2 DEF split_bandwidth, Shares
    <2> DEFINE half == total \div 2
    <2> HIDE DEF half
    <2>3. half \in Nat /\ half <= total /\ split_bandwidth(total, b, h) = Shares(half, total - half)
      BY <2>1, <2>2 DEF half
    <2> QED BY <2>1, <2>3, BtAssumption DEF Shares, Within
  <1>3. CASE total # Unlimited /\ ~(b /\ h) BY <1>3, BtAssumption DEF split_bandwidth, Shares, Within
  <1> QED BY <1>1, <1>2, <1>3

\* Two updates after one another.
LEMMA TwoUpdates ==
  ASSUME NEW u, NEW v
  PROVE  <<u>> \o <<v>> = <<u, v>>
  <1> DEFINE s == <<u>> \o <<v>>
             t == <<u, v>>
  <1>1. <<u>> \in Seq({u, v}) /\ <<v>> \in Seq({u, v}) /\ Len(<<u>>) = 1 /\ Len(<<v>>) = 1 OBVIOUS
  <1>2. Len(s) = 2 /\ s \in Seq({u, v}) BY <1>1
  <1>3. s[1] = u /\ s[2] = v BY <1>1
  <1>4. t \in Seq({u, v}) /\ Len(t) = 2 /\ t[1] = u /\ t[2] = v OBVIOUS
  <1> HIDE DEF s, t
  <1>5. \A i \in 1..2 : s[i] = t[i] BY <1>3, <1>4
  <1>6. s = [i \in 1..2 |-> s[i]] /\ t = [i \in 1..2 |-> t[i]] BY <1>2, <1>4
  <1>7. s = t BY <1>5, <1>6
  <1> QED BY <1>7 DEF s, t

\* Reductions before increases: the updates from one split to the next stay
\* within the larger of their totals.
LEMMA UpdatesPlanned ==
  ASSUME NEW p, NEW q, NEW b \in 0..Unlimited, NEW c \in 0..Unlimited,
         p = Shares(p.bt, p.transfer), q = Shares(q.bt, q.transfer),
         p.bt \in 0..Unlimited, p.transfer \in 0..Unlimited, q.bt \in 0..Unlimited, q.transfer \in 0..Unlimited,
         Within(p, b), Within(q, c)
  PROVE  Planned(bandwidth_updates(p, q), p, b, c)
  <1> DEFINE u == [group |-> "bt", limit |-> q.bt]
             v == [group |-> "transfer", limit |-> q.transfer]
             us == bandwidth_updates(p, q)
             L == Larger(b, c)
  <1>1. u \in RateUpdates /\ v \in RateUpdates BY DEF RateUpdates
  <1>2. p.bt = q.bt \/ p.bt < q.bt \/ q.bt < p.bt BY BtAssumption
  <1>3. p.transfer = q.transfer \/ p.transfer < q.transfer \/ q.transfer < p.transfer BY BtAssumption
  <1>4. us = (IF q.bt < p.bt THEN <<u>> ELSE <<>>) \o (IF q.transfer < p.transfer THEN <<v>> ELSE <<>>)
             \o (IF q.bt > p.bt THEN <<u>> ELSE <<>>) \o (IF q.transfer > p.transfer THEN <<v>> ELSE <<>>)
    BY DEF bandwidth_updates
  <1>5. Updated(p, u) = Shares(q.bt, p.transfer) /\ Updated(p, v) = Shares(p.bt, q.transfer)
    BY DEF Updated, Shares
  <1>6. Updated(Updated(p, u), v) = q /\ Updated(Updated(p, v), u) = q BY DEF Updated, Shares
  <1>7. Within(p, L) BY BtAssumption DEF Within, Larger
  <1> HIDE DEF u, v, us
  <1>8. CASE p.bt = q.bt /\ p.transfer = q.transfer BY <1>4, <1>8, BtAssumption DEF us, Planned
  <1>9. CASE p.bt # q.bt /\ p.transfer = q.transfer
    <2>1. ASSUME q.bt < p.bt PROVE us = <<u>>
      <3>2. ~(q.transfer < p.transfer) /\ ~(q.transfer > p.transfer) /\ q.bt < p.bt /\ ~(q.bt > p.bt)
        BY <1>9, <2>1, BtAssumption
      <3>1. us = <<u>> \o <<>> \o <<>> \o <<>> BY <1>4, <3>2, Zenon
      <3> QED BY <3>1
    <2>4. ASSUME p.bt < q.bt PROVE us = <<u>>
      <3>2. ~(q.transfer < p.transfer) /\ ~(q.transfer > p.transfer) /\ ~(q.bt < p.bt) /\ q.bt > p.bt
        BY <1>9, <2>4, BtAssumption
      <3>1. us = <<>> \o <<>> \o <<u>> \o <<>> BY <1>4, <3>2, Zenon
      <3> QED BY <3>1
    <2>2. us = <<u>> BY <1>2, <1>9, <2>1, <2>4
    <2>3. Updated(p, u) = q BY <1>5, <1>9
    <2> QED BY <1>1, <1>7, <2>2, <2>3 DEF us, Planned
  <1>10. CASE p.bt = q.bt /\ p.transfer # q.transfer
    <2>1. ASSUME q.transfer < p.transfer PROVE us = <<v>>
      <3>2. ~(q.bt < p.bt) /\ ~(q.bt > p.bt) /\ q.transfer < p.transfer /\ ~(q.transfer > p.transfer)
        BY <1>10, <2>1, BtAssumption
      <3>1. us = <<>> \o <<v>> \o <<>> \o <<>> BY <1>4, <3>2, Zenon
      <3> QED BY <3>1
    <2>4. ASSUME p.transfer < q.transfer PROVE us = <<v>>
      <3>2. ~(q.bt < p.bt) /\ ~(q.bt > p.bt) /\ ~(q.transfer < p.transfer) /\ q.transfer > p.transfer
        BY <1>10, <2>4, BtAssumption
      <3>1. us = <<>> \o <<>> \o <<>> \o <<v>> BY <1>4, <3>2, Zenon
      <3> QED BY <3>1
    <2>2. us = <<v>> BY <1>3, <1>10, <2>1, <2>4
    <2>3. Updated(p, v) = q BY <1>5, <1>10
    <2> QED BY <1>1, <1>7, <2>2, <2>3 DEF us, Planned
  <1>11. CASE q.bt > p.bt /\ q.transfer < p.transfer
    <2>1. us = <<>> \o <<v>> \o <<u>> \o <<>> BY <1>4, <1>11, BtAssumption
    <2>2. us = <<v, u>>
      <3>1. <<>> \o <<v>> = <<v>> /\ <<v>> \o <<u>> = <<v, u>> /\ <<v, u>> \o <<>> = <<v, u>> BY TwoUpdates
      <3> QED BY <2>1, <3>1
    <2>3. Within(Updated(p, v), L) BY <1>5, <1>11, BtAssumption DEF Within, Larger, Shares
    <2> QED BY <1>1, <1>6, <1>7, <2>2, <2>3 DEF us, Planned
  <1>12. CASE p.bt # q.bt /\ p.transfer # q.transfer /\ ~(q.bt > p.bt /\ q.transfer < p.transfer)
    <2>1. \/ us = <<u>> \o <<v>> \o <<>> \o <<>> \/ us = <<u>> \o <<>> \o <<>> \o <<v>>
          \/ us = <<>> \o <<>> \o <<u>> \o <<v>>
      BY <1>2, <1>3, <1>4, <1>12, BtAssumption
    <2>2. us = <<u, v>>
      <3>1. <<u>> \o <<v>> = <<u, v>> /\ <<u, v>> \o <<>> = <<u, v>> /\ <<u>> \o <<>> = <<u>> /\ <<>> \o <<u>> = <<u>> /\ <<>> \o <<>> = <<>>
        BY TwoUpdates
      <3> QED BY <2>1, <3>1
    <2>3. Within(Updated(p, u), L) BY <1>2, <1>3, <1>5, <1>12, BtAssumption DEF Within, Larger, Shares
    <2> QED BY <1>1, <1>6, <1>7, <2>2, <2>3 DEF us, Planned
  <1> QED BY <1>8, <1>9, <1>10, <1>11, <1>12

\* require_bandwidth plans the next split only once the last is through.
LEMMA RequireKept ==
  ASSUME RatesOK(rates), require_bandwidth
  PROVE  RatesOK(rates')
  <1>1. PICK total \in RateTotals, b \in BOOLEAN, h \in BOOLEAN :
          rates' = [rates EXCEPT !.before = rates.total, !.total = total,
                      !.updates = bandwidth_updates([bt |-> rates.bt, transfer |-> rates.transfer], split_bandwidth(total, b, h))]
    BY DEF require_bandwidth
  <1> DEFINE p == Shares(rates.bt, rates.transfer)
             q == split_bandwidth(total, b, h)
             us == bandwidth_updates(p, q)
             y == [rates EXCEPT !.before = rates.total, !.total = total, !.updates = us]
  <1>2. rates' = y BY <1>1 DEF Shares
  <1>3. rates.updates = <<>> BY DEF require_bandwidth
  <1>4. total \in 0..Unlimited BY BtAssumption
  <1>5. p = Shares(p.bt, p.transfer) /\ p.bt = rates.bt /\ p.transfer = rates.transfer BY DEF Shares
  <1> HIDE DEF p
  <1>6. Within(p, rates.total) BY <1>3, <1>5, PlanFacts DEF p, RatesOK
  <1>7. q = Shares(q.bt, q.transfer) /\ q.bt \in 0..Unlimited /\ q.transfer \in 0..Unlimited /\ Within(q, total)
    BY <1>4, SplitWithin
  <1> HIDE DEF q
  <1>8. Planned(us, p, rates.total, total) BY <1>4, <1>5, <1>6, <1>7, UpdatesPlanned DEF RatesOK
  <1> HIDE DEF us
  <1>9. SameRates(rates, y, {"before", "total", "updates"}) /\ y.before = rates.total /\ y.total = total /\ y.updates = us
    BY DEF SameRates, RateFields, RatesOK
  <1> HIDE DEF y
  <1>10. y.bt = rates.bt /\ y.transfer = rates.transfer /\ y.session = rates.session /\ y.arbiter = rates.arbiter
         /\ y.pending = rates.pending /\ y.adapter = rates.adapter /\ y.applied = rates.applied
    BY <1>9 DEF SameRates, RateFields
  <1>11. ~rates.pending BY <1>3 DEF RatesOK
  <1>12. Planned(y.updates, Shares(y.bt, y.transfer), y.before, y.total) BY <1>8, <1>9, <1>10 DEF p
  <1> QED BY <1>2, <1>4, <1>9, <1>10, <1>11, <1>12 DEF RatesOK, SameRates

\* What the session and the arbiter have been told is within the total.
LEMMA RatesBound ==
  ASSUME RatesOK(rates)
  PROVE  RatesWithin
  <1> DEFINE p == Shares(rates.bt, rates.transfer)
             u == rates.updates[1]
  <1>1. p.bt = rates.bt /\ p.transfer = rates.transfer BY DEF Shares
  <1>2. /\ rates.updates = <<>> => Within(p, rates.total)
        /\ rates.updates # <<>> => /\ Within(p, Larger(rates.before, rates.total)) /\ u \in RateUpdates
                                   /\ Within(Updated(p, u), Larger(rates.before, rates.total))
    BY <1>1, PlanFacts DEF RatesOK
  <1>3. rates.pending => rates.updates # <<>> /\ Updated(p, u).bt = rates.session /\ Updated(p, u).transfer = rates.transfer
    BY <1>1 DEF RatesOK, Updated, Shares
  <1> HIDE DEF p, u
  <1>4. CASE rates.pending BY <1>2, <1>3, <1>4, BtAssumption DEF RatesWithin, RatesOK, Within, Larger
  <1>5. CASE ~rates.pending BY <1>1, <1>2, <1>5, BtAssumption DEF RatesWithin, RatesOK, Within, Larger
  <1> QED BY <1>4, <1>5

---------------------------------------------------------------------------------
\* One torrent: its task, its rows, the native torrent, the payload on disk,
\* the scheduler's view and the requests on their way.

TaskFields == {"phase", "boundary", "gen", "request", "dirty", "owed", "cancel", "shutdown", "event", "failure", "added",
               "taken", "reply", "failed", "bound", "check", "version"}
BtRowFields == {"gen", "request", "dirty", "resume", "bound"}
NativeFields == {"added", "held", "paused", "pending", "waited", "saved", "approved", "version"}
IsTask(r) == r = [f \in TaskFields |-> r[f]]
IsBtRow(w) == w = [f \in BtRowFields |-> w[f]]
IsNative(n) == n = [f \in NativeFields |-> n[f]]

Rest == {"idle", "finished"}
Owes(r, e) == r.event # <<>> /\ r.event[1] = e
\* The phases in which the torrent is in the session.
Inside == {"metadata", "bind", "approve", "dirty", "resume", "running", "checkpoint"}

TaskTyped(r, w, n, D) ==
  /\ IsTask(r) /\ IsBtRow(w) /\ IsNative(n)
  /\ r.phase \in Cycle \cup Rest
  /\ r.owed \in {"none", "allocation", "active", "seeding"}
  /\ r.gen \in Nat /\ r.request \in Nat /\ r.version \in Nat
  /\ w.gen \in 0..MaxGeneration /\ w.request \in Nat
  /\ n.version \in Nat
  /\ D \in 0..MaxProgress
\* The task and the session agree on whether the torrent is there.
SessionAgrees(r, n) ==
  /\ n.added <=> r.added
  /\ ~n.added => n = NoNative
  /\ n.version <= r.version
  /\ n.waited => r.phase = "checkpoint" /\ r.reply = "waiting" /\ n.paused
  /\ n.approved => r.bound
  /\ r.phase = "approve" => r.bound
  /\ r.phase \in Inside => r.added
\* A clean row describes the disk, and only a paused torrent is recorded.
RowTrue(r, w, n, D) ==
  /\ ~w.dirty => w.resume = D
  /\ n.added /\ ~n.held /\ ~n.paused => w.dirty
  /\ r.phase = "resume" => w.dirty
  /\ r.taken # <<>> => r.taken = <<D>> /\ n.paused /\ r.phase \in {"checkpoint", "persist"}
  /\ r.phase # "checkpoint" => r.reply = "none"
  /\ r.reply = "data" => r.taken # <<>>
\* What a boundary leaves behind.
BoundaryTrue(r, w) ==
  /\ r.phase = "persist" /\ r.boundary \in {"complete", "periodic"} => r.taken # <<>>
  /\ r.phase = "persist" /\ r.boundary # "failure" => r.added
  /\ r.phase = "persist" /\ r.boundary # "failure" /\ ~r.failed => r.taken # <<>>
  /\ r.phase = "remove" /\ r.boundary = "complete" => ~w.dirty
  /\ r.phase \in {"remove", "finished"} /\ r.boundary # "failure" /\ ~r.failed /\ r.gen = w.gen /\ r.request # Ended => ~w.dirty
\* The task's generation and request are the row's, but for a checkpoint or
\* an allocation on its way.
RowsAgree(r, w, s, mb) ==
  /\ mb \subseteq {"allocate", "cancel"}
  /\ "allocate" \notin mb =>
       /\ r.gen = w.gen
       /\ IF r.phase \in {"checkpoint", "persist"} THEN w.request < r.request ELSE w.request = r.request
  /\ "allocate" \in mb =>
       /\ r.phase \in Rest /\ ~r.added /\ r.event = <<>> /\ ~r.cancel
       /\ w.request = 0 /\ s \in {"allocating", "draining"}
\* A task is asked to drain once, answers once, and is at rest while its
\* scheduler has it waiting or paused.
AnswersOnce(r, w, s, mb) ==
  /\ "cancel" \in mb => s = "draining" /\ ~r.cancel /\ ~Owes(r, "drained")
  /\ r.cancel => s = "draining" /\ mb = {} /\ ~Owes(r, "drained")
  /\ Owes(r, "drained") => s = "draining" /\ mb = {} /\ r.phase \in Rest /\ ~r.added
  /\ s \in {"absent", "waiting", "paused"} => mb = {} /\ ~r.cancel /\ r.event = <<>> /\ r.phase \in Rest /\ ~r.added
  /\ Owes(r, "failed") \/ Owes(r, "complete") => r.phase = "finished" /\ ~r.added
  /\ Owes(r, "complete") => ~w.dirty
  /\ r.event # <<>> => r.event[1] \in {"drained", "active", "seeding", "failed", "complete"}
Checked(t, r) == r.check # <<>> => ~collision(t, r.check[1])
TorrentOK(t, r, w, n, D, s, mb) ==
  /\ TaskTyped(r, w, n, D)
  /\ SessionAgrees(r, n)
  /\ RowTrue(r, w, n, D)
  /\ BoundaryTrue(r, w)
  /\ RowsAgree(r, w, s, mb)
  /\ AnswersOnce(r, w, s, mb)
  /\ Checked(t, r)

\* All torrents.
BtShape ==
  /\ task = [t \in Torrents |-> task[t]] /\ store = [t \in Torrents |-> store[t]] /\ native = [t \in Torrents |-> native[t]]
  /\ disk = [t \in Torrents |-> disk[t]] /\ sched = [t \in Torrents |-> sched[t]] /\ mailbox = [t \in Torrents |-> mailbox[t]]
AdmissionOK == admission # <<>> => admission[1] \in Torrents /\ sched[admission[1]] = "absent"
BtInv ==
  /\ BtShape
  /\ \A t \in Torrents : TorrentOK(t, task[t], store[t], native[t], disk[t], sched[t], mailbox[t])
  /\ OutputsDisjoint
  /\ AdmissionOK
  /\ plane # "faulted"
  /\ plane = "stopped" => \A t \in Torrents : ~task[t].added

\* begin_generation: a new generation of the row, and the allocation of it on its way.
LEMMA GenerationOK ==
  ASSUME NEW t, NEW r, NEW w, NEW n, NEW D, NEW s, NEW mb, TorrentOK(t, r, w, n, D, s, mb),
         s = "waiting",
         w.gen < MaxGeneration
  PROVE  TorrentOK(t, r, [w EXCEPT !.gen = @ + 1, !.dirty = TRUE, !.request = 0], n, D, "allocating", mb \cup {"allocate"})
  <1> DEFINE y == [w EXCEPT !.gen = @ + 1, !.dirty = TRUE, !.request = 0]
  <1>1. /\ IsBtRow(y) /\ y.gen = w.gen + 1 /\ y.request = 0 /\ y.dirty = TRUE /\ y.resume = w.resume
        /\ y.bound = w.bound
    BY DEF TorrentOK, TaskTyped, IsBtRow, BtRowFields
  <1> HIDE DEF y
  <1>2. TaskTyped(r, y, n, D)
    BY <1>1, BtAssumption DEF TorrentOK, TaskTyped, SessionAgrees, RowTrue, BoundaryTrue, RowsAgree, AnswersOnce, Owes, Inside, Rest, Cycle
  <1>3. SessionAgrees(r, n)
    BY <1>1 DEF TorrentOK, TaskTyped, SessionAgrees, RowTrue, BoundaryTrue, RowsAgree, AnswersOnce, Owes, Inside, Rest, Cycle
  <1>4. RowTrue(r, y, n, D)
    BY <1>1 DEF TorrentOK, TaskTyped, SessionAgrees, RowTrue, BoundaryTrue, RowsAgree, AnswersOnce, Owes, Inside, Rest, Cycle
  <1>5. BoundaryTrue(r, y)
    BY <1>1 DEF TorrentOK, TaskTyped, SessionAgrees, RowTrue, BoundaryTrue, RowsAgree, AnswersOnce, Owes, Inside, Rest, Cycle
  <1>6. RowsAgree(r, y, "allocating", mb \cup {"allocate"})
    BY <1>1 DEF TorrentOK, TaskTyped, SessionAgrees, RowTrue, BoundaryTrue, RowsAgree, AnswersOnce, Owes, Inside, Rest, Cycle
  <1>7. AnswersOnce(r, y, "allocating", mb \cup {"allocate"})
    BY <1>1 DEF TorrentOK, TaskTyped, SessionAgrees, RowTrue, BoundaryTrue, RowsAgree, AnswersOnce, Owes, Inside, Rest, Cycle
  <1>8. Checked(t, r) BY <1>1 DEF TorrentOK, Checked
  <1>9. TorrentOK(t, r, y, n, D, "allocating", mb \cup {"allocate"})
    BY <1>2, <1>3, <1>4, <1>5, <1>6, <1>7, <1>8 DEF TorrentOK
  <1> QED BY <1>9 DEF y

\* Pause: the cancellation is on its way.
LEMMA PauseOK ==
  ASSUME NEW t, NEW r, NEW w, NEW n, NEW D, NEW s, NEW mb, TorrentOK(t, r, w, n, D, s, mb),
         s \in {"allocating", "active", "seeding"}
  PROVE  TorrentOK(t, r, w, n, D, "draining", mb \cup {"cancel"})
  <1>1. TaskTyped(r, w, n, D)
    BY DEF TorrentOK, TaskTyped, SessionAgrees, RowTrue, BoundaryTrue, RowsAgree, AnswersOnce, Owes, Inside, Rest, Cycle
  <1>2. SessionAgrees(r, n)
    BY DEF TorrentOK, TaskTyped, SessionAgrees, RowTrue, BoundaryTrue, RowsAgree, AnswersOnce, Owes, Inside, Rest, Cycle
  <1>3. RowTrue(r, w, n, D)
    BY DEF TorrentOK, TaskTyped, SessionAgrees, RowTrue, BoundaryTrue, RowsAgree, AnswersOnce, Owes, Inside, Rest, Cycle
  <1>4. BoundaryTrue(r, w)
    BY DEF TorrentOK, TaskTyped, SessionAgrees, RowTrue, BoundaryTrue, RowsAgree, AnswersOnce, Owes, Inside, Rest, Cycle
  <1>5. RowsAgree(r, w, "draining", mb \cup {"cancel"})
    BY DEF TorrentOK, TaskTyped, SessionAgrees, RowTrue, BoundaryTrue, RowsAgree, AnswersOnce, Owes, Inside, Rest, Cycle
  <1>6. AnswersOnce(r, w, "draining", mb \cup {"cancel"})
    BY DEF TorrentOK, TaskTyped, SessionAgrees, RowTrue, BoundaryTrue, RowsAgree, AnswersOnce, Owes, Inside, Rest, Cycle
  <1>7. Checked(t, r) BY DEF TorrentOK, Checked
  <1> QED BY <1>1, <1>2, <1>3, <1>4, <1>5, <1>6, <1>7 DEF TorrentOK

\* Unpause.
LEMMA UnpauseOK ==
  ASSUME NEW t, NEW r, NEW w, NEW n, NEW D, NEW s, NEW mb, TorrentOK(t, r, w, n, D, s, mb),
         s = "paused"
  PROVE  TorrentOK(t, r, w, n, D, "waiting", mb)
  <1>1. TaskTyped(r, w, n, D)
    BY DEF TorrentOK, TaskTyped, SessionAgrees, RowTrue, BoundaryTrue, RowsAgree, AnswersOnce, Owes, Inside, Rest, Cycle
  <1>2. SessionAgrees(r, n)
    BY DEF TorrentOK, TaskTyped, SessionAgrees, RowTrue, BoundaryTrue, RowsAgree, AnswersOnce, Owes, Inside, Rest, Cycle
  <1>3. RowTrue(r, w, n, D)
    BY DEF TorrentOK, TaskTyped, SessionAgrees, RowTrue, BoundaryTrue, RowsAgree, AnswersOnce, Owes, Inside, Rest, Cycle
  <1>4. BoundaryTrue(r, w)
    BY DEF TorrentOK, TaskTyped, SessionAgrees, RowTrue, BoundaryTrue, RowsAgree, AnswersOnce, Owes, Inside, Rest, Cycle
  <1>5. RowsAgree(r, w, "waiting", mb)
    BY DEF TorrentOK, TaskTyped, SessionAgrees, RowTrue, BoundaryTrue, RowsAgree, AnswersOnce, Owes, Inside, Rest, Cycle
  <1>6. AnswersOnce(r, w, "waiting", mb)
    BY DEF TorrentOK, TaskTyped, SessionAgrees, RowTrue, BoundaryTrue, RowsAgree, AnswersOnce, Owes, Inside, Rest, Cycle
  <1>7. Checked(t, r) BY DEF TorrentOK, Checked
  <1> QED BY <1>1, <1>2, <1>3, <1>4, <1>5, <1>6, <1>7 DEF TorrentOK

\* take_allocation finds the task at rest.
LEMMA AllocationOK ==
  ASSUME NEW t, NEW r, NEW w, NEW n, NEW D, NEW s, NEW mb, TorrentOK(t, r, w, n, D, s, mb),
         "allocate" \in mb
  PROVE  TorrentOK(t, [r EXCEPT !.gen = w.gen, !.request = 0, !.dirty = TRUE, !.owed = "allocation", !.phase = "load_resume"], w, n, D, s, mb \ {"allocate"})
  <1> DEFINE x == [r EXCEPT !.gen = w.gen, !.request = 0, !.dirty = TRUE, !.owed = "allocation", !.phase = "load_resume"]
  <1>1. /\ IsTask(x) /\ x.phase = "load_resume" /\ x.boundary = r.boundary /\ x.gen = w.gen /\ x.request = 0
        /\ x.dirty = TRUE /\ x.owed = "allocation" /\ x.cancel = r.cancel /\ x.shutdown = r.shutdown
        /\ x.event = r.event /\ x.failure = r.failure /\ x.added = r.added /\ x.taken = r.taken /\ x.reply = r.reply
        /\ x.failed = r.failed /\ x.bound = r.bound /\ x.check = r.check /\ x.version = r.version
    BY DEF TorrentOK, TaskTyped, IsTask, TaskFields
  <1> HIDE DEF x
  <1>2. TaskTyped(x, w, n, D)
    BY <1>1, BtAssumption DEF TorrentOK, TaskTyped, SessionAgrees, RowTrue, BoundaryTrue, RowsAgree, AnswersOnce, Owes, Inside, Rest, Cycle
  <1>3. SessionAgrees(x, n)
    BY <1>1 DEF TorrentOK, TaskTyped, SessionAgrees, RowTrue, BoundaryTrue, RowsAgree, AnswersOnce, Owes, Inside, Rest, Cycle
  <1>4. RowTrue(x, w, n, D)
    BY <1>1 DEF TorrentOK, TaskTyped, SessionAgrees, RowTrue, BoundaryTrue, RowsAgree, AnswersOnce, Owes, Inside, Rest, Cycle
  <1>5. BoundaryTrue(x, w)
    BY <1>1 DEF TorrentOK, TaskTyped, SessionAgrees, RowTrue, BoundaryTrue, RowsAgree, AnswersOnce, Owes, Inside, Rest, Cycle
  <1>6. RowsAgree(x, w, s, mb \ {"allocate"})
    BY <1>1 DEF TorrentOK, TaskTyped, SessionAgrees, RowTrue, BoundaryTrue, RowsAgree, AnswersOnce, Owes, Inside, Rest, Cycle
  <1>7. AnswersOnce(x, w, s, mb \ {"allocate"})
    BY <1>1 DEF TorrentOK, TaskTyped, SessionAgrees, RowTrue, BoundaryTrue, RowsAgree, AnswersOnce, Owes, Inside, Rest, Cycle
  <1>8. Checked(t, x) BY <1>1 DEF TorrentOK, Checked
  <1>9. TorrentOK(t, x, w, n, D, s, mb \ {"allocate"})
    BY <1>2, <1>3, <1>4, <1>5, <1>6, <1>7, <1>8 DEF TorrentOK
  <1> QED BY <1>9 DEF x

\* take_cancellation: the task is to drain.
LEMMA CancellationOK ==
  ASSUME NEW t, NEW r, NEW w, NEW n, NEW D, NEW s, NEW mb, TorrentOK(t, r, w, n, D, s, mb),
         "allocate" \notin mb,
         "cancel" \in mb
  PROVE  TorrentOK(t, [r EXCEPT !.cancel = TRUE], w, n, D, s, mb \ {"cancel"})
  <1> DEFINE x == [r EXCEPT !.cancel = TRUE]
  <1>1. /\ IsTask(x) /\ x.phase = r.phase /\ x.boundary = r.boundary /\ x.gen = r.gen /\ x.request = r.request
        /\ x.dirty = r.dirty /\ x.owed = r.owed /\ x.cancel = TRUE /\ x.shutdown = r.shutdown /\ x.event = r.event
        /\ x.failure = r.failure /\ x.added = r.added /\ x.taken = r.taken /\ x.reply = r.reply /\ x.failed = r.failed
        /\ x.bound = r.bound /\ x.check = r.check /\ x.version = r.version
    BY DEF TorrentOK, TaskTyped, IsTask, TaskFields
  <1> HIDE DEF x
  <1>2. TaskTyped(x, w, n, D)
    BY <1>1 DEF TorrentOK, TaskTyped, SessionAgrees, RowTrue, BoundaryTrue, RowsAgree, AnswersOnce, Owes, Inside, Rest, Cycle
  <1>3. SessionAgrees(x, n)
    BY <1>1 DEF TorrentOK, TaskTyped, SessionAgrees, RowTrue, BoundaryTrue, RowsAgree, AnswersOnce, Owes, Inside, Rest, Cycle
  <1>4. RowTrue(x, w, n, D)
    BY <1>1 DEF TorrentOK, TaskTyped, SessionAgrees, RowTrue, BoundaryTrue, RowsAgree, AnswersOnce, Owes, Inside, Rest, Cycle
  <1>5. BoundaryTrue(x, w)
    BY <1>1 DEF TorrentOK, TaskTyped, SessionAgrees, RowTrue, BoundaryTrue, RowsAgree, AnswersOnce, Owes, Inside, Rest, Cycle
  <1>6. RowsAgree(x, w, s, mb \ {"cancel"})
    BY <1>1 DEF TorrentOK, TaskTyped, SessionAgrees, RowTrue, BoundaryTrue, RowsAgree, AnswersOnce, Owes, Inside, Rest, Cycle
  <1>7. AnswersOnce(x, w, s, mb \ {"cancel"})
    BY <1>1 DEF TorrentOK, TaskTyped, SessionAgrees, RowTrue, BoundaryTrue, RowsAgree, AnswersOnce, Owes, Inside, Rest, Cycle
  <1>8. Checked(t, x) BY <1>1 DEF TorrentOK, Checked
  <1>9. TorrentOK(t, x, w, n, D, s, mb \ {"cancel"}) BY <1>2, <1>3, <1>4, <1>5, <1>6, <1>7, <1>8 DEF TorrentOK
  <1> QED BY <1>9 DEF x

\* A torrent outside the session.
LEMMA NoNativeFacts ==
  /\ IsNative(NoNative) /\ NoNative.added = FALSE /\ NoNative.held = FALSE /\ NoNative.paused = FALSE /\ NoNative.pending = 0
  /\ NoNative.waited = FALSE /\ NoNative.saved = FALSE /\ NoNative.approved = FALSE /\ NoNative.version = 0
  BY DEF NoNative, IsNative, NativeFields

\* submit_event: the scheduler has the answer.
LEMMA SubmitOK ==
  ASSUME NEW t, NEW r, NEW w, NEW n, NEW D, NEW s, NEW mb, TorrentOK(t, r, w, n, D, s, mb),
         r.event # <<>>
  PROVE  TorrentOK(t, [r EXCEPT !.event = <<>>], w, n, D, After(s, r.event[1]), mb)
  <1> DEFINE x == [r EXCEPT !.event = <<>>]
  <1>1. /\ IsTask(x) /\ x.phase = r.phase /\ x.boundary = r.boundary /\ x.gen = r.gen /\ x.request = r.request
        /\ x.dirty = r.dirty /\ x.owed = r.owed /\ x.cancel = r.cancel /\ x.shutdown = r.shutdown /\ x.event = <<>>
        /\ x.failure = r.failure /\ x.added = r.added /\ x.taken = r.taken /\ x.reply = r.reply /\ x.failed = r.failed
        /\ x.bound = r.bound /\ x.check = r.check /\ x.version = r.version
    BY DEF TorrentOK, TaskTyped, IsTask, TaskFields
  <1> HIDE DEF x
  <1>2. /\ r.event[1] = "drained" => After(s, r.event[1]) = "paused"
        /\ r.event[1] # "drained" /\ s = "draining" => After(s, r.event[1]) = s
        /\ r.event[1] # "drained" /\ s # "draining" => After(s, r.event[1]) \in {"active", "seeding", "stopped"}
    BY DEF After
  <1>3. TaskTyped(x, w, n, D)
    BY <1>1, <1>2 DEF TorrentOK, TaskTyped, SessionAgrees, RowTrue, BoundaryTrue, RowsAgree, AnswersOnce, Owes, Inside, Rest, Cycle
  <1>4. SessionAgrees(x, n)
    BY <1>1, <1>2 DEF TorrentOK, TaskTyped, SessionAgrees, RowTrue, BoundaryTrue, RowsAgree, AnswersOnce, Owes, Inside, Rest, Cycle
  <1>5. RowTrue(x, w, n, D)
    BY <1>1, <1>2 DEF TorrentOK, TaskTyped, SessionAgrees, RowTrue, BoundaryTrue, RowsAgree, AnswersOnce, Owes, Inside, Rest, Cycle
  <1>6. BoundaryTrue(x, w)
    BY <1>1, <1>2 DEF TorrentOK, TaskTyped, SessionAgrees, RowTrue, BoundaryTrue, RowsAgree, AnswersOnce, Owes, Inside, Rest, Cycle
  <1>7. RowsAgree(x, w, After(s, r.event[1]), mb)
    BY <1>1, <1>2 DEF TorrentOK, TaskTyped, SessionAgrees, RowTrue, BoundaryTrue, RowsAgree, AnswersOnce, Owes, Inside, Rest, Cycle
  <1>8. AnswersOnce(x, w, After(s, r.event[1]), mb)
    BY <1>1, <1>2 DEF TorrentOK, TaskTyped, SessionAgrees, RowTrue, BoundaryTrue, RowsAgree, AnswersOnce, Owes, Inside, Rest, Cycle
  <1>9. Checked(t, x) BY <1>1, <1>2 DEF TorrentOK, Checked
  <1>10. TorrentOK(t, x, w, n, D, After(s, r.event[1]), mb)
    BY <1>3, <1>4, <1>5, <1>6, <1>7, <1>8, <1>9 DEF TorrentOK
  <1> QED BY <1>10 DEF x

\* What the invariant does not look at may change, and a check be dropped.
LEMMA IrrelevantOK ==
  ASSUME NEW t, NEW r, NEW w, NEW n, NEW D, NEW s, NEW mb, TorrentOK(t, r, w, n, D, s, mb),
         NEW x, IsTask(x), \A f \in TaskFields \ {"failure", "shutdown", "dirty", "check"} : x[f] = r[f],
         x.check = r.check \/ x.check = <<>>
  PROVE  TorrentOK(t, x, w, n, D, s, mb)
  <1>1. /\ x.phase = r.phase /\ x.boundary = r.boundary /\ x.gen = r.gen /\ x.request = r.request /\ x.owed = r.owed
        /\ x.cancel = r.cancel /\ x.event = r.event /\ x.added = r.added /\ x.taken = r.taken /\ x.reply = r.reply
        /\ x.failed = r.failed /\ x.bound = r.bound /\ x.version = r.version
    BY DEF TaskFields
  <1>2. TaskTyped(x, w, n, D)
    BY <1>1 DEF TorrentOK, TaskTyped, SessionAgrees, RowTrue, BoundaryTrue, RowsAgree, AnswersOnce, Owes, Inside, Rest, Cycle
  <1>3. SessionAgrees(x, n)
    BY <1>1 DEF TorrentOK, TaskTyped, SessionAgrees, RowTrue, BoundaryTrue, RowsAgree, AnswersOnce, Owes, Inside, Rest, Cycle
  <1>4. RowTrue(x, w, n, D)
    BY <1>1 DEF TorrentOK, TaskTyped, SessionAgrees, RowTrue, BoundaryTrue, RowsAgree, AnswersOnce, Owes, Inside, Rest, Cycle
  <1>5. BoundaryTrue(x, w)
    BY <1>1 DEF TorrentOK, TaskTyped, SessionAgrees, RowTrue, BoundaryTrue, RowsAgree, AnswersOnce, Owes, Inside, Rest, Cycle
  <1>6. RowsAgree(x, w, s, mb)
    BY <1>1 DEF TorrentOK, TaskTyped, SessionAgrees, RowTrue, BoundaryTrue, RowsAgree, AnswersOnce, Owes, Inside, Rest, Cycle
  <1>7. AnswersOnce(x, w, s, mb)
    BY <1>1 DEF TorrentOK, TaskTyped, SessionAgrees, RowTrue, BoundaryTrue, RowsAgree, AnswersOnce, Owes, Inside, Rest, Cycle
  <1>8. Checked(t, x) BY <1>1 DEF TorrentOK, Checked
  <1> QED BY <1>2, <1>3, <1>4, <1>5, <1>6, <1>7, <1>8 DEF TorrentOK

\* begin_boundary asks for a checkpoint under the next request, or records that there is none.
LEMMA BoundaryOK ==
  ASSUME NEW t, NEW r, NEW w, NEW n, NEW D, NEW s, NEW mb, TorrentOK(t, r, w, n, D, s, mb),
         NEW b,
         mb = {},
         r.event = <<>>,
         r.phase \notin {"checkpoint", "persist"},
         r.added \/ r.phase \notin Rest,
         r.added \/ b = "failure"
  PROVE  TorrentOK(t, begin_boundary(r, b), w, n, D, s, mb)
  <1> DEFINE x == begin_boundary(r, b)
  <1>1. /\ IsTask(x) /\ (x.phase = IF r.added THEN "checkpoint" ELSE "persist") /\ x.boundary = b /\ x.gen = r.gen
        /\ x.request = r.request + 1 /\ x.dirty = r.dirty /\ x.owed = r.owed /\ x.cancel = r.cancel
        /\ x.shutdown = r.shutdown /\ x.event = r.event /\ x.failure = r.failure /\ x.added = r.added /\ x.taken = <<>>
        /\ x.reply = r.reply /\ x.failed = r.failed /\ x.bound = r.bound /\ x.check = r.check /\ x.version = r.version
    BY DEF TorrentOK, TaskTyped, IsTask, TaskFields, begin_boundary
  <1> HIDE DEF x
  <1>2. TaskTyped(x, w, n, D)
    BY <1>1 DEF TorrentOK, TaskTyped, SessionAgrees, RowTrue, BoundaryTrue, RowsAgree, AnswersOnce, Owes, Inside, Rest, Cycle
  <1>3. SessionAgrees(x, n)
    BY <1>1 DEF TorrentOK, TaskTyped, SessionAgrees, RowTrue, BoundaryTrue, RowsAgree, AnswersOnce, Owes, Inside, Rest, Cycle
  <1>4. RowTrue(x, w, n, D)
    BY <1>1 DEF TorrentOK, TaskTyped, SessionAgrees, RowTrue, BoundaryTrue, RowsAgree, AnswersOnce, Owes, Inside, Rest, Cycle
  <1>5. BoundaryTrue(x, w)
    BY <1>1 DEF TorrentOK, TaskTyped, SessionAgrees, RowTrue, BoundaryTrue, RowsAgree, AnswersOnce, Owes, Inside, Rest, Cycle
  <1>6. RowsAgree(x, w, s, mb)
    BY <1>1 DEF TorrentOK, TaskTyped, SessionAgrees, RowTrue, BoundaryTrue, RowsAgree, AnswersOnce, Owes, Inside, Rest, Cycle
  <1>7. AnswersOnce(x, w, s, mb)
    BY <1>1 DEF TorrentOK, TaskTyped, SessionAgrees, RowTrue, BoundaryTrue, RowsAgree, AnswersOnce, Owes, Inside, Rest, Cycle
  <1>8. Checked(t, x) BY <1>1 DEF TorrentOK, Checked
  <1>9. TorrentOK(t, x, w, n, D, s, mb) BY <1>2, <1>3, <1>4, <1>5, <1>6, <1>7, <1>8 DEF TorrentOK
  <1> QED BY <1>9 DEF x

\* Interrupt of a torrent outside the session: it is drained at once.
LEMMA QuietInterruptOK ==
  ASSUME NEW t, NEW r, NEW w, NEW n, NEW D, NEW s, NEW mb, TorrentOK(t, r, w, n, D, s, mb),
         mb = {},
         r.event = <<>>,
         ~r.added,
         r.phase \in Interruptible,
         NEW e,
         e = IF r.cancel THEN <<"drained">> ELSE <<>>
  PROVE  TorrentOK(t, [r EXCEPT !.owed = "none", !.cancel = FALSE, !.phase = "idle", !.event = e], w, n, D, s, mb)
  <1> DEFINE x == [r EXCEPT !.owed = "none", !.cancel = FALSE, !.phase = "idle", !.event = e]
  <1>1. /\ IsTask(x) /\ x.phase = "idle" /\ x.boundary = r.boundary /\ x.gen = r.gen /\ x.request = r.request
        /\ x.dirty = r.dirty /\ x.owed = "none" /\ x.cancel = FALSE /\ x.shutdown = r.shutdown /\ x.event = e
        /\ x.failure = r.failure /\ x.added = r.added /\ x.taken = r.taken /\ x.reply = r.reply /\ x.failed = r.failed
        /\ x.bound = r.bound /\ x.check = r.check /\ x.version = r.version
    BY DEF TorrentOK, TaskTyped, IsTask, TaskFields
  <1> HIDE DEF x
  <1>2. r.phase \notin {"checkpoint", "persist"} /\ (~r.cancel => e = <<>>) /\ (r.cancel => e[1] = "drained")
    BY DEF Interruptible
  <1>3. TaskTyped(x, w, n, D)
    BY <1>1, <1>2 DEF TorrentOK, TaskTyped, SessionAgrees, RowTrue, BoundaryTrue, RowsAgree, AnswersOnce, Owes, Inside, Rest, Cycle
  <1>4. SessionAgrees(x, n)
    BY <1>1, <1>2 DEF TorrentOK, TaskTyped, SessionAgrees, RowTrue, BoundaryTrue, RowsAgree, AnswersOnce, Owes, Inside, Rest, Cycle
  <1>5. RowTrue(x, w, n, D)
    BY <1>1, <1>2 DEF TorrentOK, TaskTyped, SessionAgrees, RowTrue, BoundaryTrue, RowsAgree, AnswersOnce, Owes, Inside, Rest, Cycle
  <1>6. BoundaryTrue(x, w)
    BY <1>1, <1>2 DEF TorrentOK, TaskTyped, SessionAgrees, RowTrue, BoundaryTrue, RowsAgree, AnswersOnce, Owes, Inside, Rest, Cycle
  <1>7. RowsAgree(x, w, s, mb)
    BY <1>1, <1>2 DEF TorrentOK, TaskTyped, SessionAgrees, RowTrue, BoundaryTrue, RowsAgree, AnswersOnce, Owes, Inside, Rest, Cycle
  <1>8. AnswersOnce(x, w, s, mb)
    BY <1>1, <1>2 DEF TorrentOK, TaskTyped, SessionAgrees, RowTrue, BoundaryTrue, RowsAgree, AnswersOnce, Owes, Inside, Rest, Cycle
  <1>9. Checked(t, x) BY <1>1, <1>2 DEF TorrentOK, Checked
  <1>10. TorrentOK(t, x, w, n, D, s, mb) BY <1>3, <1>4, <1>5, <1>6, <1>7, <1>8, <1>9 DEF TorrentOK
  <1> QED BY <1>10 DEF x

\* LoadResume.
LEMMA LoadResumeOK ==
  ASSUME NEW t, NEW r, NEW w, NEW n, NEW D, NEW s, NEW mb, TorrentOK(t, r, w, n, D, s, mb),
         mb = {},
         r.event = <<>>,
         r.phase = "load_resume"
  PROVE  TorrentOK(t, [r EXCEPT !.phase = "add"], w, n, D, s, mb)
  <1> DEFINE x == [r EXCEPT !.phase = "add"]
  <1>1. /\ IsTask(x) /\ x.phase = "add" /\ x.boundary = r.boundary /\ x.gen = r.gen /\ x.request = r.request
        /\ x.dirty = r.dirty /\ x.owed = r.owed /\ x.cancel = r.cancel /\ x.shutdown = r.shutdown /\ x.event = r.event
        /\ x.failure = r.failure /\ x.added = r.added /\ x.taken = r.taken /\ x.reply = r.reply /\ x.failed = r.failed
        /\ x.bound = r.bound /\ x.check = r.check /\ x.version = r.version
    BY DEF TorrentOK, TaskTyped, IsTask, TaskFields
  <1> HIDE DEF x
  <1>2. TaskTyped(x, w, n, D)
    BY <1>1 DEF TorrentOK, TaskTyped, SessionAgrees, RowTrue, BoundaryTrue, RowsAgree, AnswersOnce, Owes, Inside, Rest, Cycle
  <1>3. SessionAgrees(x, n)
    BY <1>1 DEF TorrentOK, TaskTyped, SessionAgrees, RowTrue, BoundaryTrue, RowsAgree, AnswersOnce, Owes, Inside, Rest, Cycle
  <1>4. RowTrue(x, w, n, D)
    BY <1>1 DEF TorrentOK, TaskTyped, SessionAgrees, RowTrue, BoundaryTrue, RowsAgree, AnswersOnce, Owes, Inside, Rest, Cycle
  <1>5. BoundaryTrue(x, w)
    BY <1>1 DEF TorrentOK, TaskTyped, SessionAgrees, RowTrue, BoundaryTrue, RowsAgree, AnswersOnce, Owes, Inside, Rest, Cycle
  <1>6. RowsAgree(x, w, s, mb)
    BY <1>1 DEF TorrentOK, TaskTyped, SessionAgrees, RowTrue, BoundaryTrue, RowsAgree, AnswersOnce, Owes, Inside, Rest, Cycle
  <1>7. AnswersOnce(x, w, s, mb)
    BY <1>1 DEF TorrentOK, TaskTyped, SessionAgrees, RowTrue, BoundaryTrue, RowsAgree, AnswersOnce, Owes, Inside, Rest, Cycle
  <1>8. Checked(t, x) BY <1>1 DEF TorrentOK, Checked
  <1>9. TorrentOK(t, x, w, n, D, s, mb) BY <1>2, <1>3, <1>4, <1>5, <1>6, <1>7, <1>8 DEF TorrentOK
  <1> QED BY <1>9 DEF x

\* Add: the torrent enters the session held back.
LEMMA AddOK ==
  ASSUME NEW t, NEW r, NEW w, NEW n, NEW D, NEW s, NEW mb, TorrentOK(t, r, w, n, D, s, mb),
         mb = {},
         r.event = <<>>,
         r.phase = "add"
  PROVE  TorrentOK(t, [r EXCEPT !.added = TRUE, !.phase = "metadata"], w, native_add(r.bound), D, s, mb)
  <1> DEFINE x == [r EXCEPT !.added = TRUE, !.phase = "metadata"]
             m == native_add(r.bound)
  <1>1. /\ IsTask(x) /\ x.phase = "metadata" /\ x.boundary = r.boundary /\ x.gen = r.gen /\ x.request = r.request
        /\ x.dirty = r.dirty /\ x.owed = r.owed /\ x.cancel = r.cancel /\ x.shutdown = r.shutdown /\ x.event = r.event
        /\ x.failure = r.failure /\ x.added = TRUE /\ x.taken = r.taken /\ x.reply = r.reply /\ x.failed = r.failed
        /\ x.bound = r.bound /\ x.check = r.check /\ x.version = r.version
    BY DEF TorrentOK, TaskTyped, IsTask, TaskFields, IsNative, NativeFields, native_add, NoNative
  <1>2. /\ IsNative(m) /\ m.added = TRUE /\ m.held = TRUE /\ m.paused = r.bound /\ m.pending = 0 /\ m.waited = FALSE
        /\ m.saved = FALSE /\ m.approved = FALSE /\ m.version = 0
    BY DEF TorrentOK, TaskTyped, IsTask, TaskFields, IsNative, NativeFields, native_add, NoNative
  <1> HIDE DEF x, m
  <1>3. TaskTyped(x, w, m, D)
    BY <1>1, <1>2 DEF TorrentOK, TaskTyped, SessionAgrees, RowTrue, BoundaryTrue, RowsAgree, AnswersOnce, Owes, Inside, Rest, Cycle
  <1>4. SessionAgrees(x, m)
    BY <1>1, <1>2 DEF TorrentOK, TaskTyped, SessionAgrees, RowTrue, BoundaryTrue, RowsAgree, AnswersOnce, Owes, Inside, Rest, Cycle
  <1>5. RowTrue(x, w, m, D)
    BY <1>1, <1>2 DEF TorrentOK, TaskTyped, SessionAgrees, RowTrue, BoundaryTrue, RowsAgree, AnswersOnce, Owes, Inside, Rest, Cycle
  <1>6. BoundaryTrue(x, w)
    BY <1>1, <1>2 DEF TorrentOK, TaskTyped, SessionAgrees, RowTrue, BoundaryTrue, RowsAgree, AnswersOnce, Owes, Inside, Rest, Cycle
  <1>7. RowsAgree(x, w, s, mb)
    BY <1>1, <1>2 DEF TorrentOK, TaskTyped, SessionAgrees, RowTrue, BoundaryTrue, RowsAgree, AnswersOnce, Owes, Inside, Rest, Cycle
  <1>8. AnswersOnce(x, w, s, mb)
    BY <1>1, <1>2 DEF TorrentOK, TaskTyped, SessionAgrees, RowTrue, BoundaryTrue, RowsAgree, AnswersOnce, Owes, Inside, Rest, Cycle
  <1>9. Checked(t, x) BY <1>1, <1>2 DEF TorrentOK, Checked
  <1>10. TorrentOK(t, x, w, m, D, s, mb) BY <1>3, <1>4, <1>5, <1>6, <1>7, <1>8, <1>9 DEF TorrentOK
  <1> QED BY <1>10 DEF x, m

\* Metadata without a collision.
LEMMA MetadataOK ==
  ASSUME NEW t, NEW r, NEW w, NEW n, NEW D, NEW s, NEW mb, TorrentOK(t, r, w, n, D, s, mb),
         mb = {},
         r.event = <<>>,
         r.phase = "metadata"
  PROVE  TorrentOK(t, [r EXCEPT !.phase = "bind"], w, n, D, s, mb)
  <1> DEFINE x == [r EXCEPT !.phase = "bind"]
  <1>1. /\ IsTask(x) /\ x.phase = "bind" /\ x.boundary = r.boundary /\ x.gen = r.gen /\ x.request = r.request
        /\ x.dirty = r.dirty /\ x.owed = r.owed /\ x.cancel = r.cancel /\ x.shutdown = r.shutdown /\ x.event = r.event
        /\ x.failure = r.failure /\ x.added = r.added /\ x.taken = r.taken /\ x.reply = r.reply /\ x.failed = r.failed
        /\ x.bound = r.bound /\ x.check = r.check /\ x.version = r.version
    BY DEF TorrentOK, TaskTyped, IsTask, TaskFields
  <1> HIDE DEF x
  <1>2. TaskTyped(x, w, n, D)
    BY <1>1 DEF TorrentOK, TaskTyped, SessionAgrees, RowTrue, BoundaryTrue, RowsAgree, AnswersOnce, Owes, Inside, Rest, Cycle
  <1>3. SessionAgrees(x, n)
    BY <1>1 DEF TorrentOK, TaskTyped, SessionAgrees, RowTrue, BoundaryTrue, RowsAgree, AnswersOnce, Owes, Inside, Rest, Cycle
  <1>4. RowTrue(x, w, n, D)
    BY <1>1 DEF TorrentOK, TaskTyped, SessionAgrees, RowTrue, BoundaryTrue, RowsAgree, AnswersOnce, Owes, Inside, Rest, Cycle
  <1>5. BoundaryTrue(x, w)
    BY <1>1 DEF TorrentOK, TaskTyped, SessionAgrees, RowTrue, BoundaryTrue, RowsAgree, AnswersOnce, Owes, Inside, Rest, Cycle
  <1>6. RowsAgree(x, w, s, mb)
    BY <1>1 DEF TorrentOK, TaskTyped, SessionAgrees, RowTrue, BoundaryTrue, RowsAgree, AnswersOnce, Owes, Inside, Rest, Cycle
  <1>7. AnswersOnce(x, w, s, mb)
    BY <1>1 DEF TorrentOK, TaskTyped, SessionAgrees, RowTrue, BoundaryTrue, RowsAgree, AnswersOnce, Owes, Inside, Rest, Cycle
  <1>8. Checked(t, x) BY <1>1 DEF TorrentOK, Checked
  <1>9. TorrentOK(t, x, w, n, D, s, mb) BY <1>2, <1>3, <1>4, <1>5, <1>6, <1>7, <1>8 DEF TorrentOK
  <1> QED BY <1>9 DEF x

\* BindBtMetadata.
LEMMA BindOK ==
  ASSUME NEW t, NEW r, NEW w, NEW n, NEW D, NEW s, NEW mb, TorrentOK(t, r, w, n, D, s, mb),
         mb = {},
         r.event = <<>>,
         r.phase = "bind"
  PROVE  TorrentOK(t, [r EXCEPT !.bound = TRUE, !.phase = "approve"], [w EXCEPT !.bound = TRUE], n, D, s, mb)
  <1> DEFINE x == [r EXCEPT !.bound = TRUE, !.phase = "approve"]
             y == [w EXCEPT !.bound = TRUE]
  <1>1. /\ IsTask(x) /\ x.phase = "approve" /\ x.boundary = r.boundary /\ x.gen = r.gen /\ x.request = r.request
        /\ x.dirty = r.dirty /\ x.owed = r.owed /\ x.cancel = r.cancel /\ x.shutdown = r.shutdown /\ x.event = r.event
        /\ x.failure = r.failure /\ x.added = r.added /\ x.taken = r.taken /\ x.reply = r.reply /\ x.failed = r.failed
        /\ x.bound = TRUE /\ x.check = r.check /\ x.version = r.version
    BY DEF TorrentOK, TaskTyped, IsTask, TaskFields, IsBtRow, BtRowFields
  <1>2. /\ IsBtRow(y) /\ y.gen = w.gen /\ y.request = w.request /\ y.dirty = w.dirty /\ y.resume = w.resume
        /\ y.bound = TRUE
    BY DEF TorrentOK, TaskTyped, IsTask, TaskFields, IsBtRow, BtRowFields
  <1> HIDE DEF x, y
  <1>3. TaskTyped(x, y, n, D)
    BY <1>1, <1>2 DEF TorrentOK, TaskTyped, SessionAgrees, RowTrue, BoundaryTrue, RowsAgree, AnswersOnce, Owes, Inside, Rest, Cycle
  <1>4. SessionAgrees(x, n)
    BY <1>1, <1>2 DEF TorrentOK, TaskTyped, SessionAgrees, RowTrue, BoundaryTrue, RowsAgree, AnswersOnce, Owes, Inside, Rest, Cycle
  <1>5. RowTrue(x, y, n, D)
    BY <1>1, <1>2 DEF TorrentOK, TaskTyped, SessionAgrees, RowTrue, BoundaryTrue, RowsAgree, AnswersOnce, Owes, Inside, Rest, Cycle
  <1>6. BoundaryTrue(x, y)
    BY <1>1, <1>2 DEF TorrentOK, TaskTyped, SessionAgrees, RowTrue, BoundaryTrue, RowsAgree, AnswersOnce, Owes, Inside, Rest, Cycle
  <1>7. RowsAgree(x, y, s, mb)
    BY <1>1, <1>2 DEF TorrentOK, TaskTyped, SessionAgrees, RowTrue, BoundaryTrue, RowsAgree, AnswersOnce, Owes, Inside, Rest, Cycle
  <1>8. AnswersOnce(x, y, s, mb)
    BY <1>1, <1>2 DEF TorrentOK, TaskTyped, SessionAgrees, RowTrue, BoundaryTrue, RowsAgree, AnswersOnce, Owes, Inside, Rest, Cycle
  <1>9. Checked(t, x) BY <1>1, <1>2 DEF TorrentOK, Checked
  <1>10. TorrentOK(t, x, y, n, D, s, mb) BY <1>3, <1>4, <1>5, <1>6, <1>7, <1>8, <1>9 DEF TorrentOK
  <1> QED BY <1>10 DEF x, y

\* The check of a mapping that collides with nothing in the catalog.
LEMMA CheckOK ==
  ASSUME NEW t, NEW r, NEW w, NEW n, NEW D, NEW s, NEW mb, TorrentOK(t, r, w, n, D, s, mb),
         NEW C,
         ~collision(t, C)
  PROVE  TorrentOK(t, [r EXCEPT !.check = <<C>>], w, n, D, s, mb)
  <1> DEFINE x == [r EXCEPT !.check = <<C>>]
  <1>1. /\ IsTask(x) /\ x.phase = r.phase /\ x.boundary = r.boundary /\ x.gen = r.gen /\ x.request = r.request
        /\ x.dirty = r.dirty /\ x.owed = r.owed /\ x.cancel = r.cancel /\ x.shutdown = r.shutdown /\ x.event = r.event
        /\ x.failure = r.failure /\ x.added = r.added /\ x.taken = r.taken /\ x.reply = r.reply /\ x.failed = r.failed
        /\ x.bound = r.bound /\ x.check = <<C>> /\ x.version = r.version
    BY DEF TorrentOK, TaskTyped, IsTask, TaskFields
  <1> HIDE DEF x
  <1>2. TaskTyped(x, w, n, D)
    BY <1>1 DEF TorrentOK, TaskTyped, SessionAgrees, RowTrue, BoundaryTrue, RowsAgree, AnswersOnce, Owes, Inside, Rest, Cycle
  <1>3. SessionAgrees(x, n)
    BY <1>1 DEF TorrentOK, TaskTyped, SessionAgrees, RowTrue, BoundaryTrue, RowsAgree, AnswersOnce, Owes, Inside, Rest, Cycle
  <1>4. RowTrue(x, w, n, D)
    BY <1>1 DEF TorrentOK, TaskTyped, SessionAgrees, RowTrue, BoundaryTrue, RowsAgree, AnswersOnce, Owes, Inside, Rest, Cycle
  <1>5. BoundaryTrue(x, w)
    BY <1>1 DEF TorrentOK, TaskTyped, SessionAgrees, RowTrue, BoundaryTrue, RowsAgree, AnswersOnce, Owes, Inside, Rest, Cycle
  <1>6. RowsAgree(x, w, s, mb)
    BY <1>1 DEF TorrentOK, TaskTyped, SessionAgrees, RowTrue, BoundaryTrue, RowsAgree, AnswersOnce, Owes, Inside, Rest, Cycle
  <1>7. AnswersOnce(x, w, s, mb)
    BY <1>1 DEF TorrentOK, TaskTyped, SessionAgrees, RowTrue, BoundaryTrue, RowsAgree, AnswersOnce, Owes, Inside, Rest, Cycle
  <1>8. Checked(t, x) BY <1>1 DEF TorrentOK, Checked
  <1>9. TorrentOK(t, x, w, n, D, s, mb) BY <1>2, <1>3, <1>4, <1>5, <1>6, <1>7, <1>8 DEF TorrentOK
  <1> QED BY <1>9 DEF x

\* Approve: the torrent may write once it is resumed.
LEMMA ApproveOK ==
  ASSUME NEW t, NEW r, NEW w, NEW n, NEW D, NEW s, NEW mb, TorrentOK(t, r, w, n, D, s, mb),
         mb = {},
         r.event = <<>>,
         r.phase = "approve"
  PROVE  TorrentOK(t, [r EXCEPT !.check = <<>>, !.phase = "dirty"], w, native_approve(n), D, s, mb)
  <1> DEFINE x == [r EXCEPT !.check = <<>>, !.phase = "dirty"]
             m == native_approve(n)
  <1>1. /\ IsTask(x) /\ x.phase = "dirty" /\ x.boundary = r.boundary /\ x.gen = r.gen /\ x.request = r.request
        /\ x.dirty = r.dirty /\ x.owed = r.owed /\ x.cancel = r.cancel /\ x.shutdown = r.shutdown /\ x.event = r.event
        /\ x.failure = r.failure /\ x.added = r.added /\ x.taken = r.taken /\ x.reply = r.reply /\ x.failed = r.failed
        /\ x.bound = r.bound /\ x.check = <<>> /\ x.version = r.version
    BY DEF TorrentOK, TaskTyped, IsTask, TaskFields, IsNative, NativeFields, native_approve
  <1>2. /\ IsNative(m) /\ m.added = n.added /\ m.held = FALSE /\ m.paused = TRUE /\ m.pending = n.pending
        /\ m.waited = n.waited /\ m.saved = n.saved /\ m.approved = TRUE /\ m.version = n.version
    BY DEF TorrentOK, TaskTyped, IsTask, TaskFields, IsNative, NativeFields, native_approve
  <1> HIDE DEF x, m
  <1>3. TaskTyped(x, w, m, D)
    BY <1>1, <1>2 DEF TorrentOK, TaskTyped, SessionAgrees, RowTrue, BoundaryTrue, RowsAgree, AnswersOnce, Owes, Inside, Rest, Cycle
  <1>4. SessionAgrees(x, m)
    BY <1>1, <1>2 DEF TorrentOK, TaskTyped, SessionAgrees, RowTrue, BoundaryTrue, RowsAgree, AnswersOnce, Owes, Inside, Rest, Cycle
  <1>5. RowTrue(x, w, m, D)
    BY <1>1, <1>2 DEF TorrentOK, TaskTyped, SessionAgrees, RowTrue, BoundaryTrue, RowsAgree, AnswersOnce, Owes, Inside, Rest, Cycle
  <1>6. BoundaryTrue(x, w)
    BY <1>1, <1>2 DEF TorrentOK, TaskTyped, SessionAgrees, RowTrue, BoundaryTrue, RowsAgree, AnswersOnce, Owes, Inside, Rest, Cycle
  <1>7. RowsAgree(x, w, s, mb)
    BY <1>1, <1>2 DEF TorrentOK, TaskTyped, SessionAgrees, RowTrue, BoundaryTrue, RowsAgree, AnswersOnce, Owes, Inside, Rest, Cycle
  <1>8. AnswersOnce(x, w, s, mb)
    BY <1>1, <1>2 DEF TorrentOK, TaskTyped, SessionAgrees, RowTrue, BoundaryTrue, RowsAgree, AnswersOnce, Owes, Inside, Rest, Cycle
  <1>9. Checked(t, x) BY <1>1, <1>2 DEF TorrentOK, Checked
  <1>10. TorrentOK(t, x, w, m, D, s, mb) BY <1>3, <1>4, <1>5, <1>6, <1>7, <1>8, <1>9 DEF TorrentOK
  <1> QED BY <1>10 DEF x, m

\* With bt-metadata-only the task is active while its torrent is held back.
LEMMA ActivatedOK ==
  ASSUME NEW t, NEW r, NEW w, NEW n, NEW D, NEW s, NEW mb, TorrentOK(t, r, w, n, D, s, mb),
         mb = {},
         r.event = <<>>,
         r.phase = "approve"
  PROVE  TorrentOK(t, Activated(r), w, n, D, s, mb)
  <1> DEFINE x == Activated(r)
  <1>1. /\ IsTask(x) /\ x.phase = "running" /\ x.boundary = r.boundary /\ x.gen = r.gen /\ x.request = r.request
        /\ x.dirty = r.dirty /\ x.owed = "active" /\ x.cancel = r.cancel /\ x.shutdown = r.shutdown
        /\ x.event = <<"active">> /\ x.failure = r.failure /\ x.added = r.added /\ x.taken = r.taken
        /\ x.reply = r.reply /\ x.failed = r.failed /\ x.bound = r.bound /\ x.check = <<>> /\ x.version = r.version
    BY DEF TorrentOK, TaskTyped, IsTask, TaskFields, Activated
  <1> HIDE DEF x
  <1>2. TaskTyped(x, w, n, D)
    BY <1>1 DEF TorrentOK, TaskTyped, SessionAgrees, RowTrue, BoundaryTrue, RowsAgree, AnswersOnce, Owes, Inside, Rest, Cycle
  <1>3. SessionAgrees(x, n)
    BY <1>1 DEF TorrentOK, TaskTyped, SessionAgrees, RowTrue, BoundaryTrue, RowsAgree, AnswersOnce, Owes, Inside, Rest, Cycle
  <1>4. RowTrue(x, w, n, D)
    BY <1>1 DEF TorrentOK, TaskTyped, SessionAgrees, RowTrue, BoundaryTrue, RowsAgree, AnswersOnce, Owes, Inside, Rest, Cycle
  <1>5. BoundaryTrue(x, w)
    BY <1>1 DEF TorrentOK, TaskTyped, SessionAgrees, RowTrue, BoundaryTrue, RowsAgree, AnswersOnce, Owes, Inside, Rest, Cycle
  <1>6. RowsAgree(x, w, s, mb)
    BY <1>1 DEF TorrentOK, TaskTyped, SessionAgrees, RowTrue, BoundaryTrue, RowsAgree, AnswersOnce, Owes, Inside, Rest, Cycle
  <1>7. AnswersOnce(x, w, s, mb)
    BY <1>1 DEF TorrentOK, TaskTyped, SessionAgrees, RowTrue, BoundaryTrue, RowsAgree, AnswersOnce, Owes, Inside, Rest, Cycle
  <1>8. Checked(t, x) BY <1>1 DEF Checked
  <1>9. TorrentOK(t, x, w, n, D, s, mb) BY <1>2, <1>3, <1>4, <1>5, <1>6, <1>7, <1>8 DEF TorrentOK
  <1> QED BY <1>9 DEF x

\* MarkBtDirty comes before the torrent may write.
LEMMA MarkDirtyOK ==
  ASSUME NEW t, NEW r, NEW w, NEW n, NEW D, NEW s, NEW mb, TorrentOK(t, r, w, n, D, s, mb),
         mb = {},
         r.event = <<>>,
         r.phase = "dirty"
  PROVE  TorrentOK(t, [r EXCEPT !.dirty = TRUE, !.phase = "resume"], [w EXCEPT !.dirty = TRUE], n, D, s, mb)
  <1> DEFINE x == [r EXCEPT !.dirty = TRUE, !.phase = "resume"]
             y == [w EXCEPT !.dirty = TRUE]
  <1>1. /\ IsTask(x) /\ x.phase = "resume" /\ x.boundary = r.boundary /\ x.gen = r.gen /\ x.request = r.request
        /\ x.dirty = TRUE /\ x.owed = r.owed /\ x.cancel = r.cancel /\ x.shutdown = r.shutdown /\ x.event = r.event
        /\ x.failure = r.failure /\ x.added = r.added /\ x.taken = r.taken /\ x.reply = r.reply /\ x.failed = r.failed
        /\ x.bound = r.bound /\ x.check = r.check /\ x.version = r.version
    BY DEF TorrentOK, TaskTyped, IsTask, TaskFields, IsBtRow, BtRowFields
  <1>2. /\ IsBtRow(y) /\ y.gen = w.gen /\ y.request = w.request /\ y.dirty = TRUE /\ y.resume = w.resume
        /\ y.bound = w.bound
    BY DEF TorrentOK, TaskTyped, IsTask, TaskFields, IsBtRow, BtRowFields
  <1> HIDE DEF x, y
  <1>3. TaskTyped(x, y, n, D)
    BY <1>1, <1>2 DEF TorrentOK, TaskTyped, SessionAgrees, RowTrue, BoundaryTrue, RowsAgree, AnswersOnce, Owes, Inside, Rest, Cycle
  <1>4. SessionAgrees(x, n)
    BY <1>1, <1>2 DEF TorrentOK, TaskTyped, SessionAgrees, RowTrue, BoundaryTrue, RowsAgree, AnswersOnce, Owes, Inside, Rest, Cycle
  <1>5. RowTrue(x, y, n, D)
    BY <1>1, <1>2 DEF TorrentOK, TaskTyped, SessionAgrees, RowTrue, BoundaryTrue, RowsAgree, AnswersOnce, Owes, Inside, Rest, Cycle
  <1>6. BoundaryTrue(x, y)
    BY <1>1, <1>2 DEF TorrentOK, TaskTyped, SessionAgrees, RowTrue, BoundaryTrue, RowsAgree, AnswersOnce, Owes, Inside, Rest, Cycle
  <1>7. RowsAgree(x, y, s, mb)
    BY <1>1, <1>2 DEF TorrentOK, TaskTyped, SessionAgrees, RowTrue, BoundaryTrue, RowsAgree, AnswersOnce, Owes, Inside, Rest, Cycle
  <1>8. AnswersOnce(x, y, s, mb)
    BY <1>1, <1>2 DEF TorrentOK, TaskTyped, SessionAgrees, RowTrue, BoundaryTrue, RowsAgree, AnswersOnce, Owes, Inside, Rest, Cycle
  <1>9. Checked(t, x) BY <1>1, <1>2 DEF TorrentOK, Checked
  <1>10. TorrentOK(t, x, y, n, D, s, mb) BY <1>3, <1>4, <1>5, <1>6, <1>7, <1>8, <1>9 DEF TorrentOK
  <1> QED BY <1>10 DEF x, y

\* Resume: the torrent writes, its row is dirty.
LEMMA ResumeOK ==
  ASSUME NEW t, NEW r, NEW w, NEW n, NEW D, NEW s, NEW mb, TorrentOK(t, r, w, n, D, s, mb),
         mb = {},
         r.event = <<>>,
         r.phase = "resume",
         NEW o,
         o \in {"none", "allocation", "active", "seeding"},
         NEW e,
         e \in {<<>>, <<"active">>}
  PROVE  TorrentOK(t, [r EXCEPT !.phase = "running", !.owed = o, !.event = e], w, native_resume(n), D, s, mb)
  <1> DEFINE x == [r EXCEPT !.phase = "running", !.owed = o, !.event = e]
             m == native_resume(n)
  <1>1. /\ IsTask(x) /\ x.phase = "running" /\ x.boundary = r.boundary /\ x.gen = r.gen /\ x.request = r.request
        /\ x.dirty = r.dirty /\ x.owed = o /\ x.cancel = r.cancel /\ x.shutdown = r.shutdown /\ x.event = e
        /\ x.failure = r.failure /\ x.added = r.added /\ x.taken = r.taken /\ x.reply = r.reply /\ x.failed = r.failed
        /\ x.bound = r.bound /\ x.check = r.check /\ x.version = r.version
    BY DEF TorrentOK, TaskTyped, IsTask, TaskFields, IsNative, NativeFields, native_resume
  <1>2. /\ IsNative(m) /\ m.added = n.added /\ m.held = n.held /\ m.paused = FALSE /\ m.pending = n.pending
        /\ m.waited = n.waited /\ m.saved = FALSE /\ m.approved = n.approved /\ m.version = n.version
    BY DEF TorrentOK, TaskTyped, IsTask, TaskFields, IsNative, NativeFields, native_resume
  <1> HIDE DEF x, m
  <1>3. e # <<>> => e[1] = "active" OBVIOUS
  <1>4. TaskTyped(x, w, m, D)
    BY <1>1, <1>2, <1>3 DEF TorrentOK, TaskTyped, SessionAgrees, RowTrue, BoundaryTrue, RowsAgree, AnswersOnce, Owes, Inside, Rest, Cycle
  <1>5. SessionAgrees(x, m)
    BY <1>1, <1>2, <1>3 DEF TorrentOK, TaskTyped, SessionAgrees, RowTrue, BoundaryTrue, RowsAgree, AnswersOnce, Owes, Inside, Rest, Cycle
  <1>6. RowTrue(x, w, m, D)
    BY <1>1, <1>2, <1>3 DEF TorrentOK, TaskTyped, SessionAgrees, RowTrue, BoundaryTrue, RowsAgree, AnswersOnce, Owes, Inside, Rest, Cycle
  <1>7. BoundaryTrue(x, w)
    BY <1>1, <1>2, <1>3 DEF TorrentOK, TaskTyped, SessionAgrees, RowTrue, BoundaryTrue, RowsAgree, AnswersOnce, Owes, Inside, Rest, Cycle
  <1>8. RowsAgree(x, w, s, mb)
    BY <1>1, <1>2, <1>3 DEF TorrentOK, TaskTyped, SessionAgrees, RowTrue, BoundaryTrue, RowsAgree, AnswersOnce, Owes, Inside, Rest, Cycle
  <1>9. AnswersOnce(x, w, s, mb)
    BY <1>1, <1>2, <1>3 DEF TorrentOK, TaskTyped, SessionAgrees, RowTrue, BoundaryTrue, RowsAgree, AnswersOnce, Owes, Inside, Rest, Cycle
  <1>10. Checked(t, x) BY <1>1, <1>2, <1>3 DEF TorrentOK, Checked
  <1>11. TorrentOK(t, x, w, m, D, s, mb) BY <1>4, <1>5, <1>6, <1>7, <1>8, <1>9, <1>10 DEF TorrentOK
  <1> QED BY <1>11 DEF x, m

\* Running: everything is there and the task tells so.
LEMMA SeedingOK ==
  ASSUME NEW t, NEW r, NEW w, NEW n, NEW D, NEW s, NEW mb, TorrentOK(t, r, w, n, D, s, mb),
         mb = {},
         r.event = <<>>,
         r.phase = "running"
  PROVE  TorrentOK(t, [r EXCEPT !.owed = "seeding", !.event = <<"seeding">>], w, n, D, s, mb)
  <1> DEFINE x == [r EXCEPT !.owed = "seeding", !.event = <<"seeding">>]
  <1>1. /\ IsTask(x) /\ x.phase = r.phase /\ x.boundary = r.boundary /\ x.gen = r.gen /\ x.request = r.request
        /\ x.dirty = r.dirty /\ x.owed = "seeding" /\ x.cancel = r.cancel /\ x.shutdown = r.shutdown
        /\ x.event = <<"seeding">> /\ x.failure = r.failure /\ x.added = r.added /\ x.taken = r.taken
        /\ x.reply = r.reply /\ x.failed = r.failed /\ x.bound = r.bound /\ x.check = r.check /\ x.version = r.version
    BY DEF TorrentOK, TaskTyped, IsTask, TaskFields
  <1> HIDE DEF x
  <1>2. TaskTyped(x, w, n, D)
    BY <1>1 DEF TorrentOK, TaskTyped, SessionAgrees, RowTrue, BoundaryTrue, RowsAgree, AnswersOnce, Owes, Inside, Rest, Cycle
  <1>3. SessionAgrees(x, n)
    BY <1>1 DEF TorrentOK, TaskTyped, SessionAgrees, RowTrue, BoundaryTrue, RowsAgree, AnswersOnce, Owes, Inside, Rest, Cycle
  <1>4. RowTrue(x, w, n, D)
    BY <1>1 DEF TorrentOK, TaskTyped, SessionAgrees, RowTrue, BoundaryTrue, RowsAgree, AnswersOnce, Owes, Inside, Rest, Cycle
  <1>5. BoundaryTrue(x, w)
    BY <1>1 DEF TorrentOK, TaskTyped, SessionAgrees, RowTrue, BoundaryTrue, RowsAgree, AnswersOnce, Owes, Inside, Rest, Cycle
  <1>6. RowsAgree(x, w, s, mb)
    BY <1>1 DEF TorrentOK, TaskTyped, SessionAgrees, RowTrue, BoundaryTrue, RowsAgree, AnswersOnce, Owes, Inside, Rest, Cycle
  <1>7. AnswersOnce(x, w, s, mb)
    BY <1>1 DEF TorrentOK, TaskTyped, SessionAgrees, RowTrue, BoundaryTrue, RowsAgree, AnswersOnce, Owes, Inside, Rest, Cycle
  <1>8. Checked(t, x) BY <1>1 DEF TorrentOK, Checked
  <1>9. TorrentOK(t, x, w, n, D, s, mb) BY <1>2, <1>3, <1>4, <1>5, <1>6, <1>7, <1>8 DEF TorrentOK
  <1> QED BY <1>9 DEF x

\* Checkpoint: taken in hand by the session, which pauses the torrent.
LEMMA CheckpointOK ==
  ASSUME NEW t, NEW r, NEW w, NEW n, NEW D, NEW s, NEW mb, TorrentOK(t, r, w, n, D, s, mb),
         mb = {},
         r.event = <<>>,
         r.phase = "checkpoint",
         r.reply = "none"
  PROVE  TorrentOK(t, [r EXCEPT !.reply = "waiting"], w, native_checkpoint(n, r.request), D, s, mb)
  <1> DEFINE x == [r EXCEPT !.reply = "waiting"]
             m == native_checkpoint(n, r.request)
  <1>1. /\ IsTask(x) /\ x.phase = r.phase /\ x.boundary = r.boundary /\ x.gen = r.gen /\ x.request = r.request
        /\ x.dirty = r.dirty /\ x.owed = r.owed /\ x.cancel = r.cancel /\ x.shutdown = r.shutdown /\ x.event = r.event
        /\ x.failure = r.failure /\ x.added = r.added /\ x.taken = r.taken /\ x.reply = "waiting" /\ x.failed = r.failed
        /\ x.bound = r.bound /\ x.check = r.check /\ x.version = r.version
    BY DEF TorrentOK, TaskTyped, IsTask, TaskFields, IsNative, NativeFields, native_checkpoint
  <1>2. /\ IsNative(m) /\ m.added = n.added /\ m.held = n.held /\ m.paused = TRUE /\ m.pending = r.request
        /\ m.waited = TRUE /\ m.saved = n.saved /\ m.approved = n.approved /\ m.version = n.version
    BY DEF TorrentOK, TaskTyped, IsTask, TaskFields, IsNative, NativeFields, native_checkpoint
  <1> HIDE DEF x, m
  <1>3. TaskTyped(x, w, m, D)
    BY <1>1, <1>2 DEF TorrentOK, TaskTyped, SessionAgrees, RowTrue, BoundaryTrue, RowsAgree, AnswersOnce, Owes, Inside, Rest, Cycle
  <1>4. SessionAgrees(x, m)
    BY <1>1, <1>2 DEF TorrentOK, TaskTyped, SessionAgrees, RowTrue, BoundaryTrue, RowsAgree, AnswersOnce, Owes, Inside, Rest, Cycle
  <1>5. RowTrue(x, w, m, D)
    BY <1>1, <1>2 DEF TorrentOK, TaskTyped, SessionAgrees, RowTrue, BoundaryTrue, RowsAgree, AnswersOnce, Owes, Inside, Rest, Cycle
  <1>6. BoundaryTrue(x, w)
    BY <1>1, <1>2 DEF TorrentOK, TaskTyped, SessionAgrees, RowTrue, BoundaryTrue, RowsAgree, AnswersOnce, Owes, Inside, Rest, Cycle
  <1>7. RowsAgree(x, w, s, mb)
    BY <1>1, <1>2 DEF TorrentOK, TaskTyped, SessionAgrees, RowTrue, BoundaryTrue, RowsAgree, AnswersOnce, Owes, Inside, Rest, Cycle
  <1>8. AnswersOnce(x, w, s, mb)
    BY <1>1, <1>2 DEF TorrentOK, TaskTyped, SessionAgrees, RowTrue, BoundaryTrue, RowsAgree, AnswersOnce, Owes, Inside, Rest, Cycle
  <1>9. Checked(t, x) BY <1>1, <1>2 DEF TorrentOK, Checked
  <1>10. TorrentOK(t, x, w, m, D, s, mb) BY <1>3, <1>4, <1>5, <1>6, <1>7, <1>8, <1>9 DEF TorrentOK
  <1> QED BY <1>10 DEF x, m

\* Checkpoint refused by the worker.
LEMMA RefusedOK ==
  ASSUME NEW t, NEW r, NEW w, NEW n, NEW D, NEW s, NEW mb, TorrentOK(t, r, w, n, D, s, mb),
         mb = {},
         r.event = <<>>,
         r.phase = "checkpoint",
         r.reply = "none"
  PROVE  TorrentOK(t, [r EXCEPT !.reply = "error"], w, n, D, s, mb)
  <1> DEFINE x == [r EXCEPT !.reply = "error"]
  <1>1. /\ IsTask(x) /\ x.phase = r.phase /\ x.boundary = r.boundary /\ x.gen = r.gen /\ x.request = r.request
        /\ x.dirty = r.dirty /\ x.owed = r.owed /\ x.cancel = r.cancel /\ x.shutdown = r.shutdown /\ x.event = r.event
        /\ x.failure = r.failure /\ x.added = r.added /\ x.taken = r.taken /\ x.reply = "error" /\ x.failed = r.failed
        /\ x.bound = r.bound /\ x.check = r.check /\ x.version = r.version
    BY DEF TorrentOK, TaskTyped, IsTask, TaskFields
  <1> HIDE DEF x
  <1>2. TaskTyped(x, w, n, D)
    BY <1>1 DEF TorrentOK, TaskTyped, SessionAgrees, RowTrue, BoundaryTrue, RowsAgree, AnswersOnce, Owes, Inside, Rest, Cycle
  <1>3. SessionAgrees(x, n)
    BY <1>1 DEF TorrentOK, TaskTyped, SessionAgrees, RowTrue, BoundaryTrue, RowsAgree, AnswersOnce, Owes, Inside, Rest, Cycle
  <1>4. RowTrue(x, w, n, D)
    BY <1>1 DEF TorrentOK, TaskTyped, SessionAgrees, RowTrue, BoundaryTrue, RowsAgree, AnswersOnce, Owes, Inside, Rest, Cycle
  <1>5. BoundaryTrue(x, w)
    BY <1>1 DEF TorrentOK, TaskTyped, SessionAgrees, RowTrue, BoundaryTrue, RowsAgree, AnswersOnce, Owes, Inside, Rest, Cycle
  <1>6. RowsAgree(x, w, s, mb)
    BY <1>1 DEF TorrentOK, TaskTyped, SessionAgrees, RowTrue, BoundaryTrue, RowsAgree, AnswersOnce, Owes, Inside, Rest, Cycle
  <1>7. AnswersOnce(x, w, s, mb)
    BY <1>1 DEF TorrentOK, TaskTyped, SessionAgrees, RowTrue, BoundaryTrue, RowsAgree, AnswersOnce, Owes, Inside, Rest, Cycle
  <1>8. Checked(t, x) BY <1>1 DEF TorrentOK, Checked
  <1>9. TorrentOK(t, x, w, n, D, s, mb) BY <1>2, <1>3, <1>4, <1>5, <1>6, <1>7, <1>8 DEF TorrentOK
  <1> QED BY <1>9 DEF x

\* A checkpoint that nobody waits for any more settles.
LEMMA SettleLateOK ==
  ASSUME NEW t, NEW r, NEW w, NEW n, NEW D, NEW s, NEW mb, TorrentOK(t, r, w, n, D, s, mb),
         n.pending # 0,
         ~n.waited,
         NEW v
  PROVE  TorrentOK(t, r, w, [n EXCEPT !.pending = 0, !.waited = FALSE, !.saved = v], D, s, mb)
  <1> DEFINE m == [n EXCEPT !.pending = 0, !.waited = FALSE, !.saved = v]
  <1>1. /\ IsNative(m) /\ m.added = n.added /\ m.held = n.held /\ m.paused = n.paused /\ m.pending = 0
        /\ m.waited = FALSE /\ m.saved = v /\ m.approved = n.approved /\ m.version = n.version
    BY DEF TorrentOK, TaskTyped, IsNative, NativeFields
  <1> HIDE DEF m
  <1>2. TaskTyped(r, w, m, D)
    BY <1>1, NoNativeFacts DEF TorrentOK, TaskTyped, SessionAgrees, RowTrue, BoundaryTrue, RowsAgree, AnswersOnce, Owes, Inside, Rest, Cycle
  <1>3. SessionAgrees(r, m)
    BY <1>1, NoNativeFacts DEF TorrentOK, TaskTyped, SessionAgrees, RowTrue, BoundaryTrue, RowsAgree, AnswersOnce, Owes, Inside, Rest, Cycle
  <1>4. RowTrue(r, w, m, D)
    BY <1>1, NoNativeFacts DEF TorrentOK, TaskTyped, SessionAgrees, RowTrue, BoundaryTrue, RowsAgree, AnswersOnce, Owes, Inside, Rest, Cycle
  <1>5. BoundaryTrue(r, w)
    BY <1>1, NoNativeFacts DEF TorrentOK, TaskTyped, SessionAgrees, RowTrue, BoundaryTrue, RowsAgree, AnswersOnce, Owes, Inside, Rest, Cycle
  <1>6. RowsAgree(r, w, s, mb)
    BY <1>1, NoNativeFacts DEF TorrentOK, TaskTyped, SessionAgrees, RowTrue, BoundaryTrue, RowsAgree, AnswersOnce, Owes, Inside, Rest, Cycle
  <1>7. AnswersOnce(r, w, s, mb)
    BY <1>1, NoNativeFacts DEF TorrentOK, TaskTyped, SessionAgrees, RowTrue, BoundaryTrue, RowsAgree, AnswersOnce, Owes, Inside, Rest, Cycle
  <1>8. Checked(t, r) BY <1>1, NoNativeFacts DEF TorrentOK, Checked
  <1>9. TorrentOK(t, r, w, m, D, s, mb) BY <1>2, <1>3, <1>4, <1>5, <1>6, <1>7, <1>8 DEF TorrentOK
  <1> QED BY <1>9 DEF m

\* A checkpoint settles and its caller is answered.
LEMMA SettleOK ==
  ASSUME NEW t, NEW r, NEW w, NEW n, NEW D, NEW s, NEW mb, TorrentOK(t, r, w, n, D, s, mb),
         n.pending # 0,
         n.waited,
         NEW v,
         NEW a,
         NEW b,
         (a = "data" /\ b = <<D>>) \/ (a = "error" /\ b = <<>>)
  PROVE  TorrentOK(t, [r EXCEPT !.reply = a, !.taken = b], w, [n EXCEPT !.pending = 0, !.waited = FALSE, !.saved = v], D, s, mb)
  <1> DEFINE x == [r EXCEPT !.reply = a, !.taken = b]
             m == [n EXCEPT !.pending = 0, !.waited = FALSE, !.saved = v]
  <1>1. /\ IsTask(x) /\ x.phase = r.phase /\ x.boundary = r.boundary /\ x.gen = r.gen /\ x.request = r.request
        /\ x.dirty = r.dirty /\ x.owed = r.owed /\ x.cancel = r.cancel /\ x.shutdown = r.shutdown /\ x.event = r.event
        /\ x.failure = r.failure /\ x.added = r.added /\ x.taken = b /\ x.reply = a /\ x.failed = r.failed
        /\ x.bound = r.bound /\ x.check = r.check /\ x.version = r.version
    BY DEF TorrentOK, TaskTyped, IsTask, TaskFields, IsNative, NativeFields
  <1>2. /\ IsNative(m) /\ m.added = n.added /\ m.held = n.held /\ m.paused = n.paused /\ m.pending = 0
        /\ m.waited = FALSE /\ m.saved = v /\ m.approved = n.approved /\ m.version = n.version
    BY DEF TorrentOK, TaskTyped, IsTask, TaskFields, IsNative, NativeFields
  <1> HIDE DEF x, m
  <1>3. (b # <<>> => b = <<D>>) /\ (a = "data" => b # <<>>) /\ a # "waiting" /\ n.paused /\ r.phase = "checkpoint"
    BY DEF TorrentOK, SessionAgrees
  <1>4. TaskTyped(x, w, m, D)
    BY <1>1, <1>2, <1>3 DEF TorrentOK, TaskTyped, SessionAgrees, RowTrue, BoundaryTrue, RowsAgree, AnswersOnce, Owes, Inside, Rest, Cycle
  <1>5. SessionAgrees(x, m) BY NoNativeFacts, <1>2, <1>1 DEF TorrentOK, SessionAgrees, Inside
  <1>6. RowTrue(x, w, m, D)
    BY <1>1, <1>2, <1>3 DEF TorrentOK, TaskTyped, SessionAgrees, RowTrue, BoundaryTrue, RowsAgree, AnswersOnce, Owes, Inside, Rest, Cycle
  <1>7. BoundaryTrue(x, w)
    BY <1>1, <1>2, <1>3 DEF TorrentOK, TaskTyped, SessionAgrees, RowTrue, BoundaryTrue, RowsAgree, AnswersOnce, Owes, Inside, Rest, Cycle
  <1>8. RowsAgree(x, w, s, mb)
    BY <1>1, <1>2, <1>3 DEF TorrentOK, TaskTyped, SessionAgrees, RowTrue, BoundaryTrue, RowsAgree, AnswersOnce, Owes, Inside, Rest, Cycle
  <1>9. AnswersOnce(x, w, s, mb)
    BY <1>1, <1>2, <1>3 DEF TorrentOK, TaskTyped, SessionAgrees, RowTrue, BoundaryTrue, RowsAgree, AnswersOnce, Owes, Inside, Rest, Cycle
  <1>10. Checked(t, x) BY <1>1, <1>2, <1>3 DEF TorrentOK, Checked
  <1>11. TorrentOK(t, x, w, m, D, s, mb) BY <1>4, <1>5, <1>6, <1>7, <1>8, <1>9, <1>10 DEF TorrentOK
  <1> QED BY <1>11 DEF x, m

\* A checkpoint times out and is still pending in the session.
LEMMA TimeoutOK ==
  ASSUME NEW t, NEW r, NEW w, NEW n, NEW D, NEW s, NEW mb, TorrentOK(t, r, w, n, D, s, mb),
         n.pending # 0,
         n.waited
  PROVE  TorrentOK(t, [r EXCEPT !.reply = "error"], w, [n EXCEPT !.waited = FALSE], D, s, mb)
  <1> DEFINE x == [r EXCEPT !.reply = "error"]
             m == [n EXCEPT !.waited = FALSE]
  <1>1. /\ IsTask(x) /\ x.phase = r.phase /\ x.boundary = r.boundary /\ x.gen = r.gen /\ x.request = r.request
        /\ x.dirty = r.dirty /\ x.owed = r.owed /\ x.cancel = r.cancel /\ x.shutdown = r.shutdown /\ x.event = r.event
        /\ x.failure = r.failure /\ x.added = r.added /\ x.taken = r.taken /\ x.reply = "error" /\ x.failed = r.failed
        /\ x.bound = r.bound /\ x.check = r.check /\ x.version = r.version
    BY DEF TorrentOK, TaskTyped, IsTask, TaskFields, IsNative, NativeFields
  <1>2. /\ IsNative(m) /\ m.added = n.added /\ m.held = n.held /\ m.paused = n.paused /\ m.pending = n.pending
        /\ m.waited = FALSE /\ m.saved = n.saved /\ m.approved = n.approved /\ m.version = n.version
    BY DEF TorrentOK, TaskTyped, IsTask, TaskFields, IsNative, NativeFields
  <1> HIDE DEF x, m
  <1>3. TaskTyped(x, w, m, D)
    BY <1>1, <1>2 DEF TorrentOK, TaskTyped, SessionAgrees, RowTrue, BoundaryTrue, RowsAgree, AnswersOnce, Owes, Inside, Rest, Cycle
  <1>4. SessionAgrees(x, m)
    BY <1>1, <1>2 DEF TorrentOK, TaskTyped, SessionAgrees, RowTrue, BoundaryTrue, RowsAgree, AnswersOnce, Owes, Inside, Rest, Cycle
  <1>5. RowTrue(x, w, m, D)
    BY <1>1, <1>2 DEF TorrentOK, TaskTyped, SessionAgrees, RowTrue, BoundaryTrue, RowsAgree, AnswersOnce, Owes, Inside, Rest, Cycle
  <1>6. BoundaryTrue(x, w)
    BY <1>1, <1>2 DEF TorrentOK, TaskTyped, SessionAgrees, RowTrue, BoundaryTrue, RowsAgree, AnswersOnce, Owes, Inside, Rest, Cycle
  <1>7. RowsAgree(x, w, s, mb)
    BY <1>1, <1>2 DEF TorrentOK, TaskTyped, SessionAgrees, RowTrue, BoundaryTrue, RowsAgree, AnswersOnce, Owes, Inside, Rest, Cycle
  <1>8. AnswersOnce(x, w, s, mb)
    BY <1>1, <1>2 DEF TorrentOK, TaskTyped, SessionAgrees, RowTrue, BoundaryTrue, RowsAgree, AnswersOnce, Owes, Inside, Rest, Cycle
  <1>9. Checked(t, x) BY <1>1, <1>2 DEF TorrentOK, Checked
  <1>10. TorrentOK(t, x, w, m, D, s, mb) BY <1>3, <1>4, <1>5, <1>6, <1>7, <1>8, <1>9 DEF TorrentOK
  <1> QED BY <1>10 DEF x, m

\* The answer to a checkpoint: a failed periodic or completing one fails the task.
LEMMA AnswerOK ==
  ASSUME NEW t, NEW r, NEW w, NEW n, NEW D, NEW s, NEW mb, TorrentOK(t, r, w, n, D, s, mb),
         mb = {},
         r.event = <<>>,
         r.phase = "checkpoint",
         r.reply \in {"data", "error"},
         NEW ok,
         ok <=> r.reply = "data",
         NEW bd,
         bd = IF ~ok /\ r.boundary \in {"complete", "periodic"} THEN "failure" ELSE r.boundary,
         NEW fl,
         NEW bad,
         bad <=> ~ok
  PROVE  TorrentOK(t, [r EXCEPT !.reply = "none", !.phase = "persist", !.failed = bad, !.boundary = bd, !.failure = fl], w, n, D, s, mb)
  <1> DEFINE x == [r EXCEPT !.reply = "none", !.phase = "persist", !.failed = bad, !.boundary = bd, !.failure = fl]
  <1>1. /\ IsTask(x) /\ x.phase = "persist" /\ x.boundary = bd /\ x.gen = r.gen /\ x.request = r.request
        /\ x.dirty = r.dirty /\ x.owed = r.owed /\ x.cancel = r.cancel /\ x.shutdown = r.shutdown /\ x.event = r.event
        /\ x.failure = fl /\ x.added = r.added /\ x.taken = r.taken /\ x.reply = "none" /\ x.failed = bad
        /\ x.bound = r.bound /\ x.check = r.check /\ x.version = r.version
    BY DEF TorrentOK, TaskTyped, IsTask, TaskFields
  <1> HIDE DEF x
  <1>2. TaskTyped(x, w, n, D)
    BY <1>1 DEF TorrentOK, TaskTyped, SessionAgrees, RowTrue, BoundaryTrue, RowsAgree, AnswersOnce, Owes, Inside, Rest, Cycle
  <1>3. SessionAgrees(x, n)
    BY <1>1 DEF TorrentOK, TaskTyped, SessionAgrees, RowTrue, BoundaryTrue, RowsAgree, AnswersOnce, Owes, Inside, Rest, Cycle
  <1>4. RowTrue(x, w, n, D)
    BY <1>1 DEF TorrentOK, TaskTyped, SessionAgrees, RowTrue, BoundaryTrue, RowsAgree, AnswersOnce, Owes, Inside, Rest, Cycle
  <1>5. BoundaryTrue(x, w)
    BY <1>1 DEF TorrentOK, TaskTyped, SessionAgrees, RowTrue, BoundaryTrue, RowsAgree, AnswersOnce, Owes, Inside, Rest, Cycle
  <1>6. RowsAgree(x, w, s, mb)
    BY <1>1 DEF TorrentOK, TaskTyped, SessionAgrees, RowTrue, BoundaryTrue, RowsAgree, AnswersOnce, Owes, Inside, Rest, Cycle
  <1>7. AnswersOnce(x, w, s, mb)
    BY <1>1 DEF TorrentOK, TaskTyped, SessionAgrees, RowTrue, BoundaryTrue, RowsAgree, AnswersOnce, Owes, Inside, Rest, Cycle
  <1>8. Checked(t, x) BY <1>1 DEF TorrentOK, Checked
  <1>9. TorrentOK(t, x, w, n, D, s, mb) BY <1>2, <1>3, <1>4, <1>5, <1>6, <1>7, <1>8 DEF TorrentOK
  <1> QED BY <1>9 DEF x

\* checkpoint_bt: the row takes the request and what the checkpoint brought.
LEMMA PersistOK ==
  ASSUME NEW t, NEW r, NEW w, NEW n, NEW D, NEW s, NEW mb, TorrentOK(t, r, w, n, D, s, mb),
         mb = {},
         r.event = <<>>,
         r.phase = "persist",
         NEW v
  PROVE  TorrentOK(t, [r EXCEPT !.dirty = v, !.taken = <<>>, !.phase = AfterPersist(r)], checkpointed_row(w, r), n, D, s, mb)
  <1> DEFINE x == [r EXCEPT !.dirty = v, !.taken = <<>>, !.phase = AfterPersist(r)]
             y == checkpointed_row(w, r)
  <1>1. /\ IsTask(x) /\ x.phase = AfterPersist(r) /\ x.boundary = r.boundary /\ x.gen = r.gen /\ x.request = r.request
        /\ x.dirty = v /\ x.owed = r.owed /\ x.cancel = r.cancel /\ x.shutdown = r.shutdown /\ x.event = r.event
        /\ x.failure = r.failure /\ x.added = r.added /\ x.taken = <<>> /\ x.reply = r.reply /\ x.failed = r.failed
        /\ x.bound = r.bound /\ x.check = r.check /\ x.version = r.version
    BY DEF TorrentOK, TaskTyped, IsTask, TaskFields, IsBtRow, BtRowFields, checkpointed_row
  <1>2. /\ IsBtRow(y) /\ y.gen = w.gen /\ y.request = r.request /\ (y.dirty <=> r.taken = <<>>)
        /\ (y.resume = IF r.taken = <<>> THEN w.resume ELSE r.taken[1]) /\ y.bound = w.bound
    BY DEF TorrentOK, TaskTyped, IsTask, TaskFields, IsBtRow, BtRowFields, checkpointed_row
  <1> HIDE DEF x, y
  <1>3. AfterPersist(r) \in {"dirty", "remove"} /\ (AfterPersist(r) = "dirty" => r.boundary = "periodic")
    BY DEF AfterPersist
  <1>4. TaskTyped(x, y, n, D)
    BY <1>1, <1>2, <1>3 DEF TorrentOK, TaskTyped, SessionAgrees, RowTrue, BoundaryTrue, RowsAgree, AnswersOnce, Owes, Inside, Rest, Cycle
  <1>5. SessionAgrees(x, n)
    BY <1>1, <1>2, <1>3 DEF TorrentOK, TaskTyped, SessionAgrees, RowTrue, BoundaryTrue, RowsAgree, AnswersOnce, Owes, Inside, Rest, Cycle
  <1>6. RowTrue(x, y, n, D)
    BY <1>1, <1>2, <1>3 DEF TorrentOK, TaskTyped, SessionAgrees, RowTrue, BoundaryTrue, RowsAgree, AnswersOnce, Owes, Inside, Rest, Cycle
  <1>7. BoundaryTrue(x, y)
    BY <1>1, <1>2, <1>3 DEF TorrentOK, TaskTyped, SessionAgrees, RowTrue, BoundaryTrue, RowsAgree, AnswersOnce, Owes, Inside, Rest, Cycle
  <1>8. RowsAgree(x, y, s, mb)
    BY <1>1, <1>2, <1>3 DEF TorrentOK, TaskTyped, SessionAgrees, RowTrue, BoundaryTrue, RowsAgree, AnswersOnce, Owes, Inside, Rest, Cycle
  <1>9. AnswersOnce(x, y, s, mb)
    BY <1>1, <1>2, <1>3 DEF TorrentOK, TaskTyped, SessionAgrees, RowTrue, BoundaryTrue, RowsAgree, AnswersOnce, Owes, Inside, Rest, Cycle
  <1>10. Checked(t, x) BY <1>1, <1>2, <1>3 DEF TorrentOK, Checked
  <1>11. TorrentOK(t, x, y, n, D, s, mb) BY <1>4, <1>5, <1>6, <1>7, <1>8, <1>9, <1>10 DEF TorrentOK
  <1> QED BY <1>11 DEF x, y

\* Remove: the torrent has left the session and the task answers what it owes.
LEMMA RemovedOK ==
  ASSUME NEW t, NEW r, NEW w, NEW n, NEW D, NEW s, NEW mb, TorrentOK(t, r, w, n, D, s, mb),
         mb = {},
         r.event = <<>>,
         r.phase = "remove"
  PROVE  TorrentOK(t, Removed(r), w, NoNative, D, s, mb)
  <1> DEFINE x == Removed(r)
             m == NoNative
  <1>1. /\ IsTask(x) /\ x.phase = "finished" /\ x.boundary = r.boundary /\ x.gen = r.gen /\ x.request = r.request
        /\ x.dirty = r.dirty
        /\ (x.owed = IF r.cancel \/ r.failure # 0 \/ r.boundary = "complete" THEN "none" ELSE r.owed)
        /\ x.cancel = FALSE /\ x.shutdown = r.shutdown
        /\ (x.event = CASE r.cancel -> <<"drained">> [] ~r.cancel /\ r.failure # 0 /\ r.owed # "none" -> <<"failed", r.failure>> [] ~r.cancel /\ r.failure = 0 /\ r.boundary = "complete" -> <<"complete">> [] OTHER -> <<>>)
        /\ (x.failure = IF r.cancel THEN r.failure ELSE 0) /\ x.added = FALSE /\ x.taken = r.taken /\ x.reply = r.reply
        /\ x.failed = r.failed /\ x.bound = r.bound /\ x.check = r.check /\ x.version = r.version
    BY DEF TorrentOK, TaskTyped, IsTask, TaskFields, IsNative, NativeFields, Removed, NoNative
  <1>2. /\ IsNative(m) /\ m.added = FALSE /\ m.held = FALSE /\ m.paused = FALSE /\ m.pending = 0 /\ m.waited = FALSE
        /\ m.saved = FALSE /\ m.approved = FALSE /\ m.version = 0
    BY DEF TorrentOK, TaskTyped, IsTask, TaskFields, IsNative, NativeFields, Removed, NoNative
  <1> HIDE DEF x, m
  <1>3. m = NoNative /\ x = Removed(r) BY DEF m, x
  <1>4. /\ r.cancel => x.event = <<"drained">>
        /\ ~r.cancel => x.event = <<>> \/ x.event = <<"failed", r.failure>> \/ (x.event = <<"complete">> /\ r.boundary = "complete")
    BY <1>1
  <1>5. TaskTyped(x, w, m, D)
    BY <1>1, <1>2, <1>3, <1>4 DEF TorrentOK, TaskTyped, SessionAgrees, RowTrue, BoundaryTrue, RowsAgree, AnswersOnce, Owes, Inside, Rest, Cycle
  <1>6. SessionAgrees(x, m)
    BY <1>1, <1>2, <1>3, <1>4 DEF TorrentOK, TaskTyped, SessionAgrees, RowTrue, BoundaryTrue, RowsAgree, AnswersOnce, Owes, Inside, Rest, Cycle
  <1>7. RowTrue(x, w, m, D)
    BY <1>1, <1>2, <1>3, <1>4 DEF TorrentOK, TaskTyped, SessionAgrees, RowTrue, BoundaryTrue, RowsAgree, AnswersOnce, Owes, Inside, Rest, Cycle
  <1>8. BoundaryTrue(x, w)
    BY <1>1, <1>2, <1>3, <1>4 DEF TorrentOK, TaskTyped, SessionAgrees, RowTrue, BoundaryTrue, RowsAgree, AnswersOnce, Owes, Inside, Rest, Cycle
  <1>9. RowsAgree(x, w, s, mb)
    BY <1>1, <1>2, <1>3, <1>4 DEF TorrentOK, TaskTyped, SessionAgrees, RowTrue, BoundaryTrue, RowsAgree, AnswersOnce, Owes, Inside, Rest, Cycle
  <1>10. AnswersOnce(x, w, s, mb)
    BY <1>1, <1>2, <1>3, <1>4 DEF TorrentOK, TaskTyped, SessionAgrees, RowTrue, BoundaryTrue, RowsAgree, AnswersOnce, Owes, Inside, Rest, Cycle
  <1>11. Checked(t, x) BY <1>1, <1>2, <1>3, <1>4 DEF TorrentOK, Checked
  <1>12. TorrentOK(t, x, w, m, D, s, mb) BY <1>5, <1>6, <1>7, <1>8, <1>9, <1>10, <1>11 DEF TorrentOK
  <1> QED BY <1>12 DEF x, m

\* The session writes a block.
LEMMA DownloadOK ==
  ASSUME NEW t, NEW r, NEW w, NEW n, NEW D, NEW s, NEW mb, TorrentOK(t, r, w, n, D, s, mb),
         n.added,
         ~n.held,
         ~n.paused,
         D < MaxProgress
  PROVE  TorrentOK(t, r, w, n, D + 1, s, mb)
  <1>1. TaskTyped(r, w, n, D + 1)
    BY BtAssumption DEF TorrentOK, TaskTyped, SessionAgrees, RowTrue, BoundaryTrue, RowsAgree, AnswersOnce, Owes, Inside, Rest, Cycle
  <1>2. SessionAgrees(r, n)
    BY DEF TorrentOK, TaskTyped, SessionAgrees, RowTrue, BoundaryTrue, RowsAgree, AnswersOnce, Owes, Inside, Rest, Cycle
  <1>3. RowTrue(r, w, n, D + 1)
    BY DEF TorrentOK, TaskTyped, SessionAgrees, RowTrue, BoundaryTrue, RowsAgree, AnswersOnce, Owes, Inside, Rest, Cycle
  <1>4. BoundaryTrue(r, w)
    BY DEF TorrentOK, TaskTyped, SessionAgrees, RowTrue, BoundaryTrue, RowsAgree, AnswersOnce, Owes, Inside, Rest, Cycle
  <1>5. RowsAgree(r, w, s, mb)
    BY DEF TorrentOK, TaskTyped, SessionAgrees, RowTrue, BoundaryTrue, RowsAgree, AnswersOnce, Owes, Inside, Rest, Cycle
  <1>6. AnswersOnce(r, w, s, mb)
    BY DEF TorrentOK, TaskTyped, SessionAgrees, RowTrue, BoundaryTrue, RowsAgree, AnswersOnce, Owes, Inside, Rest, Cycle
  <1>7. Checked(t, r) BY DEF TorrentOK, Checked
  <1> QED BY <1>1, <1>2, <1>3, <1>4, <1>5, <1>6, <1>7 DEF TorrentOK

\* ChangeLive: the settings reach the session under the next version.
LEMMA SettingsOK ==
  ASSUME NEW t, NEW r, NEW w, NEW n, NEW D, NEW s, NEW mb, TorrentOK(t, r, w, n, D, s, mb),
         r.phase = "running",
         r.event = <<>>
  PROVE  TorrentOK(t, [r EXCEPT !.version = @ + 1], w, native_settings(n, r.version + 1), D, s, mb)
  <1> DEFINE x == [r EXCEPT !.version = @ + 1]
             m == native_settings(n, r.version + 1)
  <1>1. /\ IsTask(x) /\ x.phase = r.phase /\ x.boundary = r.boundary /\ x.gen = r.gen /\ x.request = r.request
        /\ x.dirty = r.dirty /\ x.owed = r.owed /\ x.cancel = r.cancel /\ x.shutdown = r.shutdown /\ x.event = r.event
        /\ x.failure = r.failure /\ x.added = r.added /\ x.taken = r.taken /\ x.reply = r.reply /\ x.failed = r.failed
        /\ x.bound = r.bound /\ x.check = r.check /\ x.version = r.version + 1
    BY DEF TorrentOK, TaskTyped, IsTask, TaskFields, IsNative, NativeFields, native_settings
  <1>2. /\ IsNative(m) /\ m.added = n.added /\ m.held = n.held /\ m.paused = n.paused /\ m.pending = n.pending
        /\ m.waited = n.waited /\ m.saved = n.saved /\ m.approved = n.approved /\ m.version = r.version + 1
    BY DEF TorrentOK, TaskTyped, IsTask, TaskFields, IsNative, NativeFields, native_settings
  <1> HIDE DEF x, m
  <1>3. TaskTyped(x, w, m, D)
    BY <1>1, <1>2 DEF TorrentOK, TaskTyped, SessionAgrees, RowTrue, BoundaryTrue, RowsAgree, AnswersOnce, Owes, Inside, Rest, Cycle
  <1>4. SessionAgrees(x, m)
    BY <1>1, <1>2 DEF TorrentOK, TaskTyped, SessionAgrees, RowTrue, BoundaryTrue, RowsAgree, AnswersOnce, Owes, Inside, Rest, Cycle
  <1>5. RowTrue(x, w, m, D)
    BY <1>1, <1>2 DEF TorrentOK, TaskTyped, SessionAgrees, RowTrue, BoundaryTrue, RowsAgree, AnswersOnce, Owes, Inside, Rest, Cycle
  <1>6. BoundaryTrue(x, w)
    BY <1>1, <1>2 DEF TorrentOK, TaskTyped, SessionAgrees, RowTrue, BoundaryTrue, RowsAgree, AnswersOnce, Owes, Inside, Rest, Cycle
  <1>7. RowsAgree(x, w, s, mb)
    BY <1>1, <1>2 DEF TorrentOK, TaskTyped, SessionAgrees, RowTrue, BoundaryTrue, RowsAgree, AnswersOnce, Owes, Inside, Rest, Cycle
  <1>8. AnswersOnce(x, w, s, mb)
    BY <1>1, <1>2 DEF TorrentOK, TaskTyped, SessionAgrees, RowTrue, BoundaryTrue, RowsAgree, AnswersOnce, Owes, Inside, Rest, Cycle
  <1>9. Checked(t, x) BY <1>1, <1>2 DEF TorrentOK, Checked
  <1>10. TorrentOK(t, x, w, m, D, s, mb) BY <1>3, <1>4, <1>5, <1>6, <1>7, <1>8, <1>9 DEF TorrentOK
  <1> QED BY <1>10 DEF x, m

\* ReplacePausedBtOptions: the resume data and the requests of the row end.
LEMMA ReplacedOK ==
  ASSUME NEW t, NEW r, NEW w, NEW n, NEW D, NEW s, NEW mb, TorrentOK(t, r, w, n, D, s, mb),
         s = "paused"
  PROVE  TorrentOK(t, [r EXCEPT !.dirty = TRUE, !.request = Ended], [w EXCEPT !.resume = 0, !.dirty = TRUE, !.request = Ended], n, D, s, mb)
  <1> DEFINE x == [r EXCEPT !.dirty = TRUE, !.request = Ended]
             y == [w EXCEPT !.resume = 0, !.dirty = TRUE, !.request = Ended]
  <1>1. /\ IsTask(x) /\ x.phase = r.phase /\ x.boundary = r.boundary /\ x.gen = r.gen /\ x.request = Ended
        /\ x.dirty = TRUE /\ x.owed = r.owed /\ x.cancel = r.cancel /\ x.shutdown = r.shutdown /\ x.event = r.event
        /\ x.failure = r.failure /\ x.added = r.added /\ x.taken = r.taken /\ x.reply = r.reply /\ x.failed = r.failed
        /\ x.bound = r.bound /\ x.check = r.check /\ x.version = r.version
    BY DEF TorrentOK, TaskTyped, IsTask, TaskFields, IsBtRow, BtRowFields
  <1>2. /\ IsBtRow(y) /\ y.gen = w.gen /\ y.request = Ended /\ y.dirty = TRUE /\ y.resume = 0 /\ y.bound = w.bound
    BY DEF TorrentOK, TaskTyped, IsTask, TaskFields, IsBtRow, BtRowFields
  <1> HIDE DEF x, y
  <1>3. Ended \in Nat BY DEF Ended
  <1>4. TaskTyped(x, y, n, D)
    BY <1>1, <1>2, <1>3 DEF TorrentOK, TaskTyped, SessionAgrees, RowTrue, BoundaryTrue, RowsAgree, AnswersOnce, Owes, Inside, Rest, Cycle
  <1>5. SessionAgrees(x, n)
    BY <1>1, <1>2, <1>3 DEF TorrentOK, TaskTyped, SessionAgrees, RowTrue, BoundaryTrue, RowsAgree, AnswersOnce, Owes, Inside, Rest, Cycle
  <1>6. RowTrue(x, y, n, D)
    BY <1>1, <1>2, <1>3 DEF TorrentOK, TaskTyped, SessionAgrees, RowTrue, BoundaryTrue, RowsAgree, AnswersOnce, Owes, Inside, Rest, Cycle
  <1>7. BoundaryTrue(x, y)
    BY <1>1, <1>2, <1>3 DEF TorrentOK, TaskTyped, SessionAgrees, RowTrue, BoundaryTrue, RowsAgree, AnswersOnce, Owes, Inside, Rest, Cycle
  <1>8. RowsAgree(x, y, s, mb)
    BY <1>1, <1>2, <1>3 DEF TorrentOK, TaskTyped, SessionAgrees, RowTrue, BoundaryTrue, RowsAgree, AnswersOnce, Owes, Inside, Rest, Cycle
  <1>9. AnswersOnce(x, y, s, mb)
    BY <1>1, <1>2, <1>3 DEF TorrentOK, TaskTyped, SessionAgrees, RowTrue, BoundaryTrue, RowsAgree, AnswersOnce, Owes, Inside, Rest, Cycle
  <1>10. Checked(t, x) BY <1>1, <1>2, <1>3 DEF TorrentOK, Checked
  <1>11. TorrentOK(t, x, y, n, D, s, mb) BY <1>4, <1>5, <1>6, <1>7, <1>8, <1>9, <1>10 DEF TorrentOK
  <1> QED BY <1>11 DEF x, y

\* poll_bt_admission installs a task for the new row.
LEMMA InstalledOK ==
  ASSUME NEW t, NEW r, NEW w, NEW n, NEW D, NEW s, NEW mb, TorrentOK(t, r, w, n, D, s, mb),
         s = "absent",
         NEW b,
         NEW v
  PROVE  TorrentOK(t, [NewTask(NewBtRow(b), b) EXCEPT !.shutdown = v], NewBtRow(b), n, D, "waiting", mb)
  <1> DEFINE x == [NewTask(NewBtRow(b), b) EXCEPT !.shutdown = v]
             y == NewBtRow(b)
  <1>1. /\ IsTask(x) /\ x.phase = "idle" /\ x.boundary = "periodic" /\ x.gen = 0 /\ x.request = 0 /\ x.dirty = TRUE
        /\ x.owed = "none" /\ x.cancel = FALSE /\ x.shutdown = v /\ x.event = <<>> /\ x.failure = 0 /\ x.added = FALSE
        /\ x.taken = <<>> /\ x.reply = "none" /\ x.failed = FALSE /\ x.bound = b /\ x.check = <<>> /\ x.version = 0
    BY DEF TorrentOK, TaskTyped, IsTask, TaskFields, IsBtRow, BtRowFields, NewTask, NewBtRow
  <1>2. /\ IsBtRow(y) /\ y.gen = 0 /\ y.request = 0 /\ y.dirty = TRUE /\ y.resume = 0 /\ y.bound = b
    BY DEF TorrentOK, TaskTyped, IsTask, TaskFields, IsBtRow, BtRowFields, NewTask, NewBtRow
  <1> HIDE DEF x, y
  <1>3. TaskTyped(x, y, n, D)
    BY <1>1, <1>2, NoNativeFacts, BtAssumption DEF TorrentOK, TaskTyped, SessionAgrees, RowTrue, BoundaryTrue, RowsAgree, AnswersOnce, Owes, Inside, Rest, Cycle
  <1>4. SessionAgrees(x, n)
    BY <1>1, <1>2, NoNativeFacts DEF TorrentOK, TaskTyped, SessionAgrees, RowTrue, BoundaryTrue, RowsAgree, AnswersOnce, Owes, Inside, Rest, Cycle
  <1>5. RowTrue(x, y, n, D)
    BY <1>1, <1>2, NoNativeFacts DEF TorrentOK, TaskTyped, SessionAgrees, RowTrue, BoundaryTrue, RowsAgree, AnswersOnce, Owes, Inside, Rest, Cycle
  <1>6. BoundaryTrue(x, y)
    BY <1>1, <1>2, NoNativeFacts DEF TorrentOK, TaskTyped, SessionAgrees, RowTrue, BoundaryTrue, RowsAgree, AnswersOnce, Owes, Inside, Rest, Cycle
  <1>7. RowsAgree(x, y, "waiting", mb)
    BY <1>1, <1>2, NoNativeFacts DEF TorrentOK, TaskTyped, SessionAgrees, RowTrue, BoundaryTrue, RowsAgree, AnswersOnce, Owes, Inside, Rest, Cycle
  <1>8. AnswersOnce(x, y, "waiting", mb)
    BY <1>1, <1>2, NoNativeFacts DEF TorrentOK, TaskTyped, SessionAgrees, RowTrue, BoundaryTrue, RowsAgree, AnswersOnce, Owes, Inside, Rest, Cycle
  <1>9. Checked(t, x) BY <1>1, <1>2, NoNativeFacts DEF TorrentOK, Checked
  <1>10. TorrentOK(t, x, y, n, D, "waiting", mb) BY <1>3, <1>4, <1>5, <1>6, <1>7, <1>8, <1>9 DEF TorrentOK
  <1> QED BY <1>10 DEF x, y

\* A start reads the task back from its row; nothing is in the session.
LEMMA RestartOK ==
  ASSUME NEW t, NEW r, NEW w, NEW n, NEW D, NEW s, NEW mb, TorrentOK(t, r, w, n, D, s, mb),
         NEW u,
         u = Recovered(s)
  PROVE  TorrentOK(t, NewTask(w, w.bound), w, NoNative, D, u, {})
  <1> DEFINE x == NewTask(w, w.bound)
             m == NoNative
  <1>1. /\ IsTask(x) /\ x.phase = "idle" /\ x.boundary = "periodic" /\ x.gen = w.gen /\ x.request = w.request
        /\ x.dirty = w.dirty /\ x.owed = "none" /\ x.cancel = FALSE /\ x.shutdown = FALSE /\ x.event = <<>>
        /\ x.failure = 0 /\ x.added = FALSE /\ x.taken = <<>> /\ x.reply = "none" /\ x.failed = FALSE
        /\ x.bound = w.bound /\ x.check = <<>> /\ x.version = 0
    BY DEF TorrentOK, TaskTyped, IsTask, TaskFields, IsNative, NativeFields, NewTask, NoNative
  <1>2. /\ IsNative(m) /\ m.added = FALSE /\ m.held = FALSE /\ m.paused = FALSE /\ m.pending = 0 /\ m.waited = FALSE
        /\ m.saved = FALSE /\ m.approved = FALSE /\ m.version = 0
    BY DEF TorrentOK, TaskTyped, IsTask, TaskFields, IsNative, NativeFields, NewTask, NoNative
  <1> HIDE DEF x, m
  <1>3. m = NoNative BY DEF m
  <1>4. TaskTyped(x, w, m, D)
    BY <1>1, <1>2, <1>3, BtAssumption DEF TorrentOK, TaskTyped, SessionAgrees, RowTrue, BoundaryTrue, RowsAgree, AnswersOnce, Owes, Inside, Rest, Cycle
  <1>5. SessionAgrees(x, m)
    BY <1>1, <1>2, <1>3 DEF TorrentOK, TaskTyped, SessionAgrees, RowTrue, BoundaryTrue, RowsAgree, AnswersOnce, Owes, Inside, Rest, Cycle
  <1>6. RowTrue(x, w, m, D)
    BY <1>1, <1>2, <1>3 DEF TorrentOK, TaskTyped, SessionAgrees, RowTrue, BoundaryTrue, RowsAgree, AnswersOnce, Owes, Inside, Rest, Cycle
  <1>7. BoundaryTrue(x, w)
    BY <1>1, <1>2, <1>3 DEF TorrentOK, TaskTyped, SessionAgrees, RowTrue, BoundaryTrue, RowsAgree, AnswersOnce, Owes, Inside, Rest, Cycle
  <1>8. RowsAgree(x, w, u, {})
    BY <1>1, <1>2, <1>3 DEF TorrentOK, TaskTyped, SessionAgrees, RowTrue, BoundaryTrue, RowsAgree, AnswersOnce, Owes, Inside, Rest, Cycle
  <1>9. AnswersOnce(x, w, u, {})
    BY <1>1, <1>2, <1>3 DEF TorrentOK, TaskTyped, SessionAgrees, RowTrue, BoundaryTrue, RowsAgree, AnswersOnce, Owes, Inside, Rest, Cycle
  <1>10. Checked(t, x) BY <1>1, <1>2, <1>3 DEF TorrentOK, Checked
  <1>11. TorrentOK(t, x, w, m, D, u, {}) BY <1>4, <1>5, <1>6, <1>7, <1>8, <1>9, <1>10 DEF TorrentOK
  <1> QED BY <1>11 DEF x, m

---------------------------------------------------------------------------------
\* Steps of one torrent among the others.

TorrentAt(t) == TorrentOK(t, task[t], store[t], native[t], disk[t], sched[t], mailbox[t])
Becomes(t, r, w, n, D, s, mb) ==
  /\ task' = [task EXCEPT ![t] = r] /\ store' = [store EXCEPT ![t] = w] /\ native' = [native EXCEPT ![t] = n]
  /\ disk' = [disk EXCEPT ![t] = D] /\ sched' = [sched EXCEPT ![t] = s] /\ mailbox' = [mailbox EXCEPT ![t] = mb]
Writes(n) == n.added /\ n.approved
AllOK == \A t \in Torrents : TorrentAt(t)

\* A variable that does not change keeps the value of every torrent.
LEMMA SameAt ==
  ASSUME BtShape, NEW t \in Torrents
  PROVE  /\ task = [task EXCEPT ![t] = task[t]] /\ store = [store EXCEPT ![t] = store[t]] /\ native = [native EXCEPT ![t] = native[t]]
         /\ disk = [disk EXCEPT ![t] = disk[t]] /\ sched = [sched EXCEPT ![t] = sched[t]] /\ mailbox = [mailbox EXCEPT ![t] = mailbox[t]]
  BY DEF BtShape

\* The new value at one place of a function.
LEMMA PutAt ==
  ASSUME NEW S, NEW f, f = [a \in S |-> f[a]], NEW t \in S, NEW v, NEW g, g = [f EXCEPT ![t] = v]
  PROVE  g = [a \in S |-> g[a]] /\ g[t] = v /\ \A u \in S \ {t} : g[u] = f[u]
  OBVIOUS

\* A step of one torrent leaves the others as they are.
LEMMA TorrentsKept ==
  ASSUME BtShape, AllOK, NEW t \in Torrents, NEW r, NEW w, NEW n, NEW D, NEW s, NEW mb,
         Becomes(t, r, w, n, D, s, mb), TorrentOK(t, r, w, n, D, s, mb)
  PROVE  /\ BtShape' /\ AllOK'
         /\ task'[t] = r /\ store'[t] = w /\ native'[t] = n /\ disk'[t] = D /\ sched'[t] = s /\ mailbox'[t] = mb
         /\ \A u \in Torrents \ {t} : /\ task'[u] = task[u] /\ store'[u] = store[u] /\ native'[u] = native[u]
                                      /\ disk'[u] = disk[u] /\ sched'[u] = sched[u] /\ mailbox'[u] = mailbox[u]
  <1>1. task' = [a \in Torrents |-> task'[a]] /\ task'[t] = r /\ \A u \in Torrents \ {t} : task'[u] = task[u]
    BY PutAt DEF BtShape, Becomes
  <1>2. store' = [a \in Torrents |-> store'[a]] /\ store'[t] = w /\ \A u \in Torrents \ {t} : store'[u] = store[u]
    BY PutAt DEF BtShape, Becomes
  <1>3. native' = [a \in Torrents |-> native'[a]] /\ native'[t] = n /\ \A u \in Torrents \ {t} : native'[u] = native[u]
    BY PutAt DEF BtShape, Becomes
  <1>4. disk' = [a \in Torrents |-> disk'[a]] /\ disk'[t] = D /\ \A u \in Torrents \ {t} : disk'[u] = disk[u]
    BY PutAt DEF BtShape, Becomes
  <1>5. sched' = [a \in Torrents |-> sched'[a]] /\ sched'[t] = s /\ \A u \in Torrents \ {t} : sched'[u] = sched[u]
    BY PutAt DEF BtShape, Becomes
  <1>6. mailbox' = [a \in Torrents |-> mailbox'[a]] /\ mailbox'[t] = mb /\ \A u \in Torrents \ {t} : mailbox'[u] = mailbox[u]
    BY PutAt DEF BtShape, Becomes
  <1>7. BtShape' BY <1>1, <1>2, <1>3, <1>4, <1>5, <1>6 DEF BtShape
  <1>8. ASSUME NEW u \in Torrents
        PROVE  TorrentOK(u, task'[u], store'[u], native'[u], disk'[u], sched'[u], mailbox'[u])
    <2>1. CASE u = t BY <1>1, <1>2, <1>3, <1>4, <1>5, <1>6, <2>1, Zenon
    <2>2. CASE u # t BY <1>1, <1>2, <1>3, <1>4, <1>5, <1>6, <2>2 DEF AllOK, TorrentAt
    <2> QED BY <2>1, <2>2
  <1>9. AllOK' BY <1>8 DEF AllOK, TorrentAt
  <1> QED BY <1>1, <1>2, <1>3, <1>4, <1>5, <1>6, <1>7, <1>9

\* Who cannot write more than before shares no more than before.
LEMMA DisjointKept ==
  ASSUME OutputsDisjoint, \A u \in Torrents : Writes(native'[u]) => Writes(native[u]), transfer' = transfer
  PROVE  OutputsDisjoint'
  BY DEF OutputsDisjoint, Writes, Claimed

\* The rest of the state, with the step of one torrent.
LEMMA StepKept ==
  ASSUME BtInv, NEW t \in Torrents, NEW r, NEW w, NEW n, NEW D, NEW s, NEW mb,
         Becomes(t, r, w, n, D, s, mb), TorrentOK(t, r, w, n, D, s, mb),
         Writes(n) => Writes(native[t]), sched[t] = "absent" => s = "absent",
         transfer' = transfer, admission' = admission, plane' # "faulted", plane' = "stopped" => plane = "stopped" /\ ~r.added
  PROVE  BtInv'
  <1>1. BtShape /\ AllOK BY DEF BtInv, AllOK, TorrentAt
  <1>2. /\ BtShape' /\ AllOK'
        /\ task'[t] = r /\ native'[t] = n /\ sched'[t] = s
        /\ \A u \in Torrents \ {t} : task'[u] = task[u] /\ native'[u] = native[u] /\ sched'[u] = sched[u]
    BY <1>1, TorrentsKept
  <1>3. OutputsDisjoint' BY <1>2, DisjointKept DEF BtInv
  <1>4. AdmissionOK' BY <1>2 DEF BtInv, AdmissionOK
  <1>5. plane' = "stopped" => \A u \in Torrents : ~task'[u].added BY <1>2, Zenon DEF BtInv
  <1> QED BY <1>2, <1>3, <1>4, <1>5 DEF BtInv, AllOK, TorrentAt

\* A turn of a torrent in a plane that goes on.
LEMMA TurnKept ==
  ASSUME BtInv, NEW t \in Torrents, NEW r, NEW w, NEW n, NEW D, NEW s, NEW mb,
         Becomes(t, r, w, n, D, s, mb), TorrentOK(t, r, w, n, D, s, mb),
         Writes(n) => Writes(native[t]), sched[t] = "absent" => s = "absent",
         transfer' = transfer, admission' = admission, plane' = plane, plane # "stopped"
  PROVE  BtInv'
  <1>1. plane' # "faulted" /\ (plane' = "stopped" => plane = "stopped" /\ ~r.added) BY DEF BtInv
  <1> QED BY <1>1, StepKept

\* begin_generation keeps the invariant.
LEMMA GenerationKept ==
  ASSUME BtInv, NEW t \in Torrents, begin_generation(t)
  PROVE  BtInv'
  <1>1. BtShape /\ TorrentAt(t) BY DEF BtInv, TorrentAt
  <1>2. sched[t] = "waiting" /\ store[t].gen < MaxGeneration /\ plane # "stopped"
    BY BtAssumption DEF begin_generation, Generations, BtInv, TorrentOK, TaskTyped
  <1>3. Becomes(t, task[t], [store[t] EXCEPT !.gen = @ + 1, !.dirty = TRUE, !.request = 0], native[t], disk[t], "allocating", mailbox[t] \cup {"allocate"})
    BY <1>1, <1>2, SameAt DEF begin_generation, Moves, Sets, Becomes
  <1>4. TorrentOK(t, task[t], [store[t] EXCEPT !.gen = @ + 1, !.dirty = TRUE, !.request = 0], native[t], disk[t], "allocating", mailbox[t] \cup {"allocate"})
    BY <1>1, <1>2, GenerationOK DEF TorrentAt
  <1>5. transfer' = transfer /\ admission' = admission /\ plane' = plane
    BY <1>2 DEF begin_generation, Moves, Sets
  <1>6. (Writes(native[t]) => Writes(native[t])) /\ (sched[t] = "absent" => "allocating" = "absent") BY <1>2
  <1> QED BY <1>2, <1>3, <1>4, <1>5, <1>6, TurnKept

\* Pause keeps it.
LEMMA PauseKept ==
  ASSUME BtInv, NEW t \in Torrents, Pause(t)
  PROVE  BtInv'
  <1>1. BtShape /\ TorrentAt(t) BY DEF BtInv, TorrentAt
  <1>2. sched[t] \in {"allocating", "active", "seeding"} /\ plane # "stopped" BY DEF Pause
  <1>3. Becomes(t, task[t], store[t], native[t], disk[t], "draining", mailbox[t] \cup {"cancel"})
    BY <1>1, <1>2, SameAt DEF Pause, Moves, Sets, Becomes
  <1>4. TorrentOK(t, task[t], store[t], native[t], disk[t], "draining", mailbox[t] \cup {"cancel"})
    BY <1>1, <1>2, PauseOK DEF TorrentAt
  <1>5. transfer' = transfer /\ admission' = admission /\ plane' = plane BY <1>2 DEF Pause, Moves, Sets
  <1>6. (Writes(native[t]) => Writes(native[t])) /\ (sched[t] = "absent" => "draining" = "absent") BY <1>2
  <1> QED BY <1>2, <1>3, <1>4, <1>5, <1>6, TurnKept

\* Unpause keeps it.
LEMMA UnpauseKept ==
  ASSUME BtInv, NEW t \in Torrents, Unpause(t)
  PROVE  BtInv'
  <1>1. BtShape /\ TorrentAt(t) BY DEF BtInv, TorrentAt
  <1>2. sched[t] = "paused" /\ plane # "stopped" BY DEF Unpause
  <1>3. Becomes(t, task[t], store[t], native[t], disk[t], "waiting", mailbox[t])
    BY <1>1, <1>2, SameAt DEF Unpause, Moves, Sets, Becomes
  <1>4. TorrentOK(t, task[t], store[t], native[t], disk[t], "waiting", mailbox[t])
    BY <1>1, <1>2, UnpauseOK DEF TorrentAt
  <1>5. transfer' = transfer /\ admission' = admission /\ plane' = plane BY <1>2 DEF Unpause, Moves, Sets
  <1>6. (Writes(native[t]) => Writes(native[t])) /\ (sched[t] = "absent" => "waiting" = "absent") BY <1>2
  <1> QED BY <1>2, <1>3, <1>4, <1>5, <1>6, TurnKept

\* take_allocation keeps it: the allocation never meets a task under way.
LEMMA AllocationKept ==
  ASSUME BtInv, NEW t \in Torrents, take_allocation(t)
  PROVE  BtInv'
  <1>1. BtShape /\ TorrentAt(t) BY DEF BtInv, TorrentAt
  <1>2. "allocate" \in mailbox[t] /\ task[t].phase \in {"idle", "finished"} /\ plane # "stopped"
    BY DEF take_allocation, Running, BtInv, TorrentOK, RowsAgree, Rest
  <1>3. Becomes(t, [task[t] EXCEPT !.gen = store[t].gen, !.request = 0, !.dirty = TRUE, !.owed = "allocation", !.phase = "load_resume"], store[t], native[t], disk[t], sched[t], mailbox[t] \ {"allocate"})
    BY <1>1, <1>2, SameAt DEF take_allocation, Moves, Sets, Becomes
  <1>4. TorrentOK(t, [task[t] EXCEPT !.gen = store[t].gen, !.request = 0, !.dirty = TRUE, !.owed = "allocation", !.phase = "load_resume"], store[t], native[t], disk[t], sched[t], mailbox[t] \ {"allocate"})
    BY <1>1, <1>2, AllocationOK DEF TorrentAt
  <1>5. transfer' = transfer /\ admission' = admission /\ plane' = plane
    BY <1>2 DEF take_allocation, Moves, Sets
  <1>6. (Writes(native[t]) => Writes(native[t])) /\ (sched[t] = "absent" => sched[t] = "absent") BY <1>2
  <1> QED BY <1>2, <1>3, <1>4, <1>5, <1>6, TurnKept

\* take_cancellation keeps it.
LEMMA CancellationKept ==
  ASSUME BtInv, NEW t \in Torrents, take_cancellation(t)
  PROVE  BtInv'
  <1>1. BtShape /\ TorrentAt(t) BY DEF BtInv, TorrentAt
  <1>2. "allocate" \notin mailbox[t] /\ "cancel" \in mailbox[t] /\ plane # "stopped"
    BY DEF take_cancellation, Running
  <1>3. Becomes(t, [task[t] EXCEPT !.cancel = TRUE], store[t], native[t], disk[t], sched[t], mailbox[t] \ {"cancel"})
    BY <1>1, <1>2, SameAt DEF take_cancellation, Moves, Sets, Becomes
  <1>4. TorrentOK(t, [task[t] EXCEPT !.cancel = TRUE], store[t], native[t], disk[t], sched[t], mailbox[t] \ {"cancel"})
    BY <1>1, <1>2, CancellationOK DEF TorrentAt
  <1>5. transfer' = transfer /\ admission' = admission /\ plane' = plane
    BY <1>2 DEF take_cancellation, Moves, Sets
  <1>6. (Writes(native[t]) => Writes(native[t])) /\ (sched[t] = "absent" => sched[t] = "absent") BY <1>2
  <1> QED BY <1>2, <1>3, <1>4, <1>5, <1>6, TurnKept

\* LoadResume keeps it.
LEMMA LoadResumeKept ==
  ASSUME BtInv, NEW t \in Torrents, LoadResume(t)
  PROVE  BtInv'
  <1>1. BtShape /\ TorrentAt(t) BY DEF BtInv, TorrentAt
  <1>2. mailbox[t] = {} /\ task[t].event = <<>> /\ task[t].phase = "load_resume" /\ plane # "stopped"
    BY DEF LoadResume, Steps, Polled, Running
  <1>3. Becomes(t, [task[t] EXCEPT !.phase = "add"], store[t], native[t], disk[t], sched[t], mailbox[t])
    BY <1>1, <1>2, SameAt DEF LoadResume, Moves, Sets, Becomes
  <1>4. TorrentOK(t, [task[t] EXCEPT !.phase = "add"], store[t], native[t], disk[t], sched[t], mailbox[t])
    BY <1>1, <1>2, LoadResumeOK DEF TorrentAt
  <1>5. transfer' = transfer /\ admission' = admission /\ plane' = plane BY <1>2 DEF LoadResume, Moves, Sets
  <1>6. (Writes(native[t]) => Writes(native[t])) /\ (sched[t] = "absent" => sched[t] = "absent") BY <1>2
  <1> QED BY <1>2, <1>3, <1>4, <1>5, <1>6, TurnKept

\* Bind keeps it.
LEMMA BindKept ==
  ASSUME BtInv, NEW t \in Torrents, Bind(t)
  PROVE  BtInv'
  <1>1. BtShape /\ TorrentAt(t) BY DEF BtInv, TorrentAt
  <1>2. mailbox[t] = {} /\ task[t].event = <<>> /\ task[t].phase = "bind" /\ plane # "stopped"
    BY DEF Bind, Steps, Polled, Running
  <1>3. Becomes(t, [task[t] EXCEPT !.bound = TRUE, !.phase = "approve"], [store[t] EXCEPT !.bound = TRUE], native[t], disk[t], sched[t], mailbox[t])
    BY <1>1, <1>2, SameAt DEF Bind, Moves, Sets, Becomes
  <1>4. TorrentOK(t, [task[t] EXCEPT !.bound = TRUE, !.phase = "approve"], [store[t] EXCEPT !.bound = TRUE], native[t], disk[t], sched[t], mailbox[t])
    BY <1>1, <1>2, BindOK DEF TorrentAt
  <1>5. transfer' = transfer /\ admission' = admission /\ plane' = plane BY <1>2 DEF Bind, Moves, Sets
  <1>6. (Writes(native[t]) => Writes(native[t])) /\ (sched[t] = "absent" => sched[t] = "absent") BY <1>2
  <1> QED BY <1>2, <1>3, <1>4, <1>5, <1>6, TurnKept

\* MarkDirty keeps it.
LEMMA MarkDirtyKept ==
  ASSUME BtInv, NEW t \in Torrents, MarkDirty(t)
  PROVE  BtInv'
  <1>1. BtShape /\ TorrentAt(t) BY DEF BtInv, TorrentAt
  <1>2. mailbox[t] = {} /\ task[t].event = <<>> /\ task[t].phase = "dirty" /\ plane # "stopped"
    BY DEF MarkDirty, Steps, Polled, Running
  <1>3. Becomes(t, [task[t] EXCEPT !.dirty = TRUE, !.phase = "resume"], [store[t] EXCEPT !.dirty = TRUE], native[t], disk[t], sched[t], mailbox[t])
    BY <1>1, <1>2, SameAt DEF MarkDirty, Moves, Sets, Becomes
  <1>4. TorrentOK(t, [task[t] EXCEPT !.dirty = TRUE, !.phase = "resume"], [store[t] EXCEPT !.dirty = TRUE], native[t], disk[t], sched[t], mailbox[t])
    BY <1>1, <1>2, MarkDirtyOK DEF TorrentAt
  <1>5. transfer' = transfer /\ admission' = admission /\ plane' = plane BY <1>2 DEF MarkDirty, Moves, Sets
  <1>6. (Writes(native[t]) => Writes(native[t])) /\ (sched[t] = "absent" => sched[t] = "absent") BY <1>2
  <1> QED BY <1>2, <1>3, <1>4, <1>5, <1>6, TurnKept

\* A step that changes the record of one task and nothing else of a torrent.
OnlyTask(t, r) == Sets(t, r) /\ UNCHANGED <<store, native, disk, sched, mailbox, admission, transfer, plane>>

\* It keeps the invariant when the new record fits.
LEMMA OnlyTaskKept ==
  ASSUME BtInv, NEW t \in Torrents, NEW r, OnlyTask(t, r), plane # "stopped",
         TorrentOK(t, r, store[t], native[t], disk[t], sched[t], mailbox[t])
  PROVE  BtInv'
  <1>1. BtShape BY DEF BtInv
  <1>2. Becomes(t, r, store[t], native[t], disk[t], sched[t], mailbox[t])
    BY <1>1, SameAt DEF OnlyTask, Sets, Becomes
  <1>3. transfer' = transfer /\ admission' = admission /\ plane' = plane BY DEF OnlyTask
  <1> QED BY <1>2, <1>3, TurnKept

\* Failed: the boundary of a failure.
LEMMA FailedOK ==
  ASSUME NEW t, NEW r, NEW w, NEW n, NEW D, NEW s, NEW mb, TorrentOK(t, r, w, n, D, s, mb),
         mb = {}, r.event = <<>>, r.phase \notin {"checkpoint", "persist"}, r.phase \notin Rest
  PROVE  TorrentOK(t, Failed(r), w, n, D, s, mb)
  <1> DEFINE x == [r EXCEPT !.failure = r.gen, !.check = <<>>]
             b == "failure"
  <1>1. /\ IsTask(x) /\ (\A f \in TaskFields \ {"failure", "shutdown", "dirty", "check"} : x[f] = r[f]) /\ x.check = <<>>
        /\ x.event = r.event /\ x.phase = r.phase
    BY DEF TorrentOK, TaskTyped, IsTask, TaskFields
  <1> HIDE DEF x, b
  <1>2. TorrentOK(t, x, w, n, D, s, mb) BY <1>1, IrrelevantOK
  <1>3. x.added \/ b = "failure" BY DEF b
  <1>4. TorrentOK(t, begin_boundary(x, b), w, n, D, s, mb) BY <1>1, <1>2, <1>3, BoundaryOK
  <1> QED BY <1>4 DEF Failed, x, b

\* EndBoundary: the boundary of a cancellation or of the shutdown.
LEMMA EndOK ==
  ASSUME NEW t, NEW r, NEW w, NEW n, NEW D, NEW s, NEW mb, TorrentOK(t, r, w, n, D, s, mb),
         mb = {}, r.event = <<>>, r.phase \notin {"checkpoint", "persist"}, r.added
  PROVE  TorrentOK(t, EndBoundary(r), w, n, D, s, mb)
  <1> DEFINE b == IF r.shutdown THEN "shutdown" ELSE "cancel"
  <1> HIDE DEF b
  <1>1. TorrentOK(t, begin_boundary(r, b), w, n, D, s, mb) BY BoundaryOK
  <1> QED BY <1>1 DEF EndBoundary, b

\* A check that is dropped.
LEMMA DroppedOK ==
  ASSUME NEW t, NEW r, NEW w, NEW n, NEW D, NEW s, NEW mb, TorrentOK(t, r, w, n, D, s, mb)
  PROVE  LET x == [r EXCEPT !.check = <<>>]
         IN TorrentOK(t, x, w, n, D, s, mb) /\ x.event = r.event /\ x.phase = r.phase /\ x.added = r.added
  <1> DEFINE x == [r EXCEPT !.check = <<>>]
  <1>1. /\ IsTask(x) /\ (\A f \in TaskFields \ {"failure", "shutdown", "dirty", "check"} : x[f] = r[f]) /\ x.check = <<>>
        /\ x.event = r.event /\ x.phase = r.phase /\ x.added = r.added
    BY DEF TorrentOK, TaskTyped, IsTask, TaskFields
  <1> HIDE DEF x
  <1>2. TorrentOK(t, x, w, n, D, s, mb) BY <1>1, IrrelevantOK
  <1> QED BY <1>1, <1>2 DEF x

\* Interrupt keeps the invariant.
LEMMA InterruptKept ==
  ASSUME BtInv, NEW t \in Torrents, Interrupt(t)
  PROVE  BtInv'
  <1>1. TorrentAt(t) BY DEF BtInv, TorrentAt
  <1>2. mailbox[t] = {} /\ task[t].event = <<>> /\ task[t].phase \in Interruptible /\ plane # "stopped"
    BY DEF Interrupt, Polled, Interrupted, Running
  <1>3. task[t].phase \notin {"checkpoint", "persist"} BY <1>2 DEF Interruptible
  <1>4. CASE task[t].added
    BY <1>4, <1>1, <1>2, <1>3, EndOK, OnlyTaskKept DEF Interrupt, Moves, OnlyTask, TorrentAt
  <1>5. CASE ~task[t].added
    <2> DEFINE e == IF task[t].cancel THEN <<"drained">> ELSE <<>>
               x == [task[t] EXCEPT !.owed = "none", !.cancel = FALSE, !.phase = "idle", !.event = e]
    <2>1. OnlyTask(t, x) BY <1>5 DEF Interrupt, Moves, OnlyTask
    <2> HIDE DEF e
    <2>2. TorrentOK(t, x, store[t], native[t], disk[t], sched[t], mailbox[t])
      BY <1>1, <1>2, <1>5, QuietInterruptOK DEF e, TorrentAt
    <2> HIDE DEF x
    <2> QED BY <1>2, <2>1, <2>2, OnlyTaskKept
  <1> QED BY <1>4, <1>5

\* Metadata keeps it.
LEMMA MetadataKept ==
  ASSUME BtInv, NEW t \in Torrents, Metadata(t)
  PROVE  BtInv'
  <1>1. TorrentAt(t) BY DEF BtInv, TorrentAt
  <1>2. mailbox[t] = {} /\ task[t].event = <<>> /\ task[t].phase = "metadata" /\ plane # "stopped"
    BY DEF Metadata, Steps, Polled, Running
  <1>3. CASE Moves(t, [task[t] EXCEPT !.phase = "bind"])
    <2> DEFINE x == [task[t] EXCEPT !.phase = "bind"]
    <2>1. OnlyTask(t, x) BY <1>3 DEF Moves, OnlyTask
    <2>2. TorrentOK(t, x, store[t], native[t], disk[t], sched[t], mailbox[t])
      BY <1>1, <1>2, MetadataOK DEF TorrentAt
    <2> HIDE DEF x
    <2> QED BY <1>2, <2>1, <2>2, OnlyTaskKept
  <1>4. CASE Moves(t, Failed(task[t]))
    BY <1>4, <1>1, <1>2, FailedOK, OnlyTaskKept DEF Moves, OnlyTask, TorrentAt, Rest
  <1> QED BY <1>3, <1>4 DEF Metadata

\* Add keeps it.
LEMMA AddKept ==
  ASSUME BtInv, NEW t \in Torrents, Add(t)
  PROVE  BtInv'
  <1>1. BtShape /\ TorrentAt(t) BY DEF BtInv, TorrentAt
  <1>2. mailbox[t] = {} /\ task[t].event = <<>> /\ task[t].phase = "add" /\ plane # "stopped"
    BY DEF Add, Steps, Polled, Running
  <1>3. CASE native' = [native EXCEPT ![t] = native_add(task[t].bound)] /\ Sets(t, [task[t] EXCEPT !.added = TRUE, !.phase = "metadata"])
    <2> DEFINE x == [task[t] EXCEPT !.added = TRUE, !.phase = "metadata"]
               m == native_add(task[t].bound)
    <2>1. Becomes(t, x, store[t], m, disk[t], sched[t], mailbox[t])
      BY <1>1, <1>3, SameAt DEF Add, Sets, Becomes
    <2>2. TorrentOK(t, x, store[t], m, disk[t], sched[t], mailbox[t]) BY <1>1, <1>2, AddOK DEF TorrentAt
    <2>3. transfer' = transfer /\ admission' = admission /\ plane' = plane BY DEF Add
    <2>4. Writes(m) => Writes(native[t]) BY DEF Writes, native_add, NoNative
    <2> HIDE DEF x, m
    <2> QED BY <1>2, <2>1, <2>2, <2>3, <2>4, TurnKept
  <1>4. CASE Sets(t, Failed(task[t])) /\ native' = native
    BY <1>4, <1>1, <1>2, FailedOK, OnlyTaskKept DEF Add, OnlyTask, TorrentAt, Rest
  <1> QED BY <1>3, <1>4 DEF Add

\* Who may write is bound and known to the scheduler, so it is in the
\* catalog.
LEMMA WritersBound ==
  ASSUME BtInv, NEW u \in Torrents, Writes(native[u])
  PROVE  u \in Catalog.bound
  <1>1. TorrentOK(u, task[u], store[u], native[u], disk[u], sched[u], mailbox[u]) BY DEF BtInv
  <1>2. task[u].bound /\ sched[u] # "absent" BY <1>1 DEF TorrentOK, SessionAgrees, AnswersOnce, Writes
  <1> QED BY <1>2 DEF Catalog

\* An approval under a current check shares no output.
LEMMA ApprovedDisjoint ==
  ASSUME BtInv, NEW t \in Torrents, ~collision(t, Catalog), transfer' = transfer,
         \A u \in Torrents \ {t} : native'[u] = native[u]
  PROVE  OutputsDisjoint'
  <1>1. \A u \in Torrents \ {t} : Writes(native[u]) => ~Claimed(t, u) /\ ~Claimed(u, t)
    BY WritersBound DEF collision, Claimed
  <1>2. transfer => TransferOutput \notin Outputs[t] BY DEF collision, Catalog
  <1>3. OutputsDisjoint BY DEF BtInv
  <1>4. ASSUME NEW a \in Torrents, Writes(native'[a])
        PROVE  (transfer' => TransferOutput \notin Outputs[a]) /\ \A u \in Torrents \ {a} : Writes(native'[u]) => ~Claimed(a, u)
    <2>1. CASE a = t BY <1>1, <1>2, <2>1, Zenon
    <2>2. CASE a # t
      <3>1. native'[a] = native[a] /\ Writes(native[a]) BY <1>4, <2>2
      <3>2. transfer' => TransferOutput \notin Outputs[a] BY <1>3, <3>1 DEF OutputsDisjoint, Writes
      <3>3. ASSUME NEW u \in Torrents \ {a}, Writes(native'[u]) PROVE ~Claimed(a, u)
        BY <1>1, <2>2, <3>1, <1>3, <3>3 DEF OutputsDisjoint, Writes
      <3> QED BY <3>2, <3>3
    <2> QED BY <2>1, <2>2
  <1>5. \A a \in Torrents : Writes(native'[a]) =>
          (transfer' => TransferOutput \notin Outputs[a]) /\ \A u \in Torrents \ {a} : Writes(native'[u]) => ~Claimed(a, u)
    BY <1>4
  <1> QED BY <1>5 DEF OutputsDisjoint, Writes, Claimed

\* Approve keeps it: the check is of the catalog as it is.
LEMMA ApproveKept ==
  ASSUME BtInv, NEW t \in Torrents, Approve(t)
  PROVE  BtInv'
  <1>1. BtShape /\ TorrentAt(t) /\ AllOK BY DEF BtInv, TorrentAt, AllOK
  <1>2. mailbox[t] = {} /\ task[t].event = <<>> /\ task[t].phase = "approve" /\ plane # "stopped"
    BY DEF Approve, Steps, Polled, Running
  <1>3. CASE Moves(t, Failed(task[t]))
    BY <1>3, <1>1, <1>2, FailedOK, OnlyTaskKept DEF Moves, OnlyTask, TorrentAt, Rest
  <1>4. CASE ~collision(t, Catalog) /\ Moves(t, [task[t] EXCEPT !.check = <<Catalog>>])
    <2> DEFINE x == [task[t] EXCEPT !.check = <<Catalog>>]
    <2>1. OnlyTask(t, x) BY <1>4 DEF Moves, OnlyTask
    <2>2. TorrentOK(t, x, store[t], native[t], disk[t], sched[t], mailbox[t])
      BY <1>1, <1>4, CheckOK DEF TorrentAt
    <2> HIDE DEF x
    <2> QED BY <1>2, <2>1, <2>2, OnlyTaskKept
  <1>5. CASE Moves(t, EndBoundary([task[t] EXCEPT !.check = <<>>]))
    <2> DEFINE x == [task[t] EXCEPT !.check = <<>>]
    <2>1. TorrentOK(t, x, store[t], native[t], disk[t], sched[t], mailbox[t]) /\ x.event = task[t].event /\ x.phase = task[t].phase
          /\ x.added = task[t].added
      BY <1>1, DroppedOK DEF TorrentAt
    <2>2. task[t].added BY <1>1, <1>2 DEF TorrentAt, TorrentOK, SessionAgrees, Inside
    <2>3. OnlyTask(t, EndBoundary(x)) BY <1>5 DEF Moves, OnlyTask
    <2> HIDE DEF x
    <2>4. TorrentOK(t, EndBoundary(x), store[t], native[t], disk[t], sched[t], mailbox[t])
      BY <1>2, <2>1, <2>2, EndOK
    <2> QED BY <1>2, <2>3, <2>4, OnlyTaskKept
  <1>6. CASE /\ Current(task[t].check) /\ native' = [native EXCEPT ![t] = native_approve(@)]
             /\ Sets(t, [task[t] EXCEPT !.check = <<>>, !.phase = "dirty"])
             /\ UNCHANGED <<store, disk, sched, mailbox, admission, transfer, plane, trouble>>
    <2> DEFINE x == [task[t] EXCEPT !.check = <<>>, !.phase = "dirty"]
               m == native_approve(native[t])
    <2>1. Becomes(t, x, store[t], m, disk[t], sched[t], mailbox[t]) BY <1>1, <1>6, SameAt DEF Sets, Becomes
    <2>2. TorrentOK(t, x, store[t], m, disk[t], sched[t], mailbox[t]) BY <1>1, <1>2, ApproveOK DEF TorrentAt
    <2>3. ~collision(t, Catalog) BY <1>1, <1>6 DEF TorrentAt, TorrentOK, Checked, Current
    <2> HIDE DEF x, m
    <2>4. /\ BtShape' /\ AllOK' /\ task'[t] = x /\ native'[t] = m /\ sched'[t] = sched[t]
          /\ \A u \in Torrents \ {t} : task'[u] = task[u] /\ native'[u] = native[u] /\ sched'[u] = sched[u]
      BY <1>1, <2>1, <2>2, TorrentsKept
    <2>5. OutputsDisjoint' BY <1>6, <2>3, <2>4, ApprovedDisjoint
    <2>6. AdmissionOK' BY <1>6 DEF BtInv, AdmissionOK
    <2>7. plane' # "faulted" /\ plane' # "stopped" BY <1>2, <1>6 DEF BtInv
    <2> QED BY <2>4, <2>5, <2>6, <2>7 DEF BtInv, AllOK, TorrentAt
  <1>7. CASE \E r \in {Failed(task[t]), Activated(task[t])} : OnlyTask(t, r)
    <2>1. PICK r \in {Failed(task[t]), Activated(task[t])} : OnlyTask(t, r) BY <1>7
    <2>2. TorrentOK(t, Failed(task[t]), store[t], native[t], disk[t], sched[t], mailbox[t])
      BY <1>1, <1>2, FailedOK DEF TorrentAt, Rest
    <2>3. TorrentOK(t, Activated(task[t]), store[t], native[t], disk[t], sched[t], mailbox[t])
      BY <1>1, <1>2, ActivatedOK DEF TorrentAt
    <2>4. TorrentOK(t, r, store[t], native[t], disk[t], sched[t], mailbox[t]) BY <2>1, <2>2, <2>3, Zenon
    <2> QED BY <1>2, <2>1, <2>4, OnlyTaskKept
  <1> QED BY <1>3, <1>4, <1>5, <1>6, <1>7 DEF Approve, OnlyTask

\* submit_event keeps it: a terminal record finds the rows it names.
LEMMA SubmitKept ==
  ASSUME BtInv, NEW t \in Torrents, submit_event(t)
  PROVE  BtInv'
  <1> DEFINE e == task[t].event[1]
             next == After(sched[t], e)
             x == [task[t] EXCEPT !.event = <<>>]
  <1>1. BtShape /\ TorrentAt(t) BY DEF BtInv, TorrentAt
  <1>2. task[t].event # <<>> /\ plane # "stopped" BY DEF submit_event, Running
  <1>3. Becomes(t, x, store[t], native[t], disk[t], next, mailbox[t])
    BY <1>1, SameAt DEF submit_event, Becomes
  <1>4. TorrentOK(t, x, store[t], native[t], disk[t], next, mailbox[t]) BY <1>1, <1>2, SubmitOK DEF TorrentAt
  <1>5. next = "stopped" => TerminalAccepted(t, e = "complete")
    BY <1>1, <1>2 DEF TorrentAt, TorrentOK, AnswersOnce, After, Owes, RowsAgree, TerminalAccepted
  <1>6. transfer' = transfer /\ admission' = admission /\ plane' = plane BY <1>5 DEF submit_event
  <1>7. sched[t] # "absent" BY <1>1, <1>2 DEF TorrentAt, TorrentOK, AnswersOnce
  <1> HIDE DEF x, next, e
  <1> QED BY <1>2, <1>3, <1>4, <1>6, <1>7, TurnKept

\* Resume keeps it.
LEMMA ResumeKept ==
  ASSUME BtInv, NEW t \in Torrents, Resume(t)
  PROVE  BtInv'
  <1> DEFINE o == IF task[t].owed = "allocation" THEN "active" ELSE task[t].owed
             e == IF task[t].owed = "allocation" THEN <<"active">> ELSE <<>>
             x == [task[t] EXCEPT !.phase = "running", !.owed = o, !.event = e]
             m == native_resume(native[t])
  <1>1. BtShape /\ TorrentAt(t) BY DEF BtInv, TorrentAt
  <1>2. mailbox[t] = {} /\ task[t].event = <<>> /\ task[t].phase = "resume" /\ plane # "stopped"
    BY DEF Resume, Steps, Polled, Running
  <1>3. CASE native' = [native EXCEPT ![t] = m] /\ Sets(t, x)
    <2>1. Becomes(t, x, store[t], m, disk[t], sched[t], mailbox[t]) BY <1>1, <1>3, SameAt DEF Resume, Sets, Becomes
    <2>2. o \in {"none", "allocation", "active", "seeding"} /\ e \in {<<>>, <<"active">>}
      BY <1>1 DEF TorrentAt, TorrentOK, TaskTyped
    <2> HIDE DEF o, e
    <2>3. TorrentOK(t, x, store[t], m, disk[t], sched[t], mailbox[t])
      BY <1>1, <1>2, <2>2, ResumeOK DEF TorrentAt
    <2>4. transfer' = transfer /\ admission' = admission /\ plane' = plane BY DEF Resume
    <2>5. Writes(m) => Writes(native[t])
      BY <1>1 DEF Writes, native_resume, TorrentAt, TorrentOK, TaskTyped, IsNative, NativeFields
    <2> HIDE DEF x, m
    <2> QED BY <1>2, <2>1, <2>3, <2>4, <2>5, TurnKept
  <1>4. CASE Sets(t, Failed(task[t])) /\ native' = native
    BY <1>4, <1>1, <1>2, FailedOK, OnlyTaskKept DEF Resume, OnlyTask, TorrentAt, Rest
  <1> QED BY <1>3, <1>4 DEF Resume

\* RunningStep keeps it.
LEMMA RunningKept ==
  ASSUME BtInv, NEW t \in Torrents, RunningStep(t)
  PROVE  BtInv'
  <1>1. TorrentAt(t) BY DEF BtInv, TorrentAt
  <1>2. mailbox[t] = {} /\ task[t].event = <<>> /\ task[t].phase = "running" /\ plane # "stopped"
    BY DEF RunningStep, Steps, Polled, Running
  <1>3. task[t].added BY <1>1, <1>2 DEF TorrentAt, TorrentOK, SessionAgrees, Inside
  <1> DEFINE x == [task[t] EXCEPT !.owed = "seeding", !.event = <<"seeding">>]
  <1>4. PICK r \in {Failed(task[t]), begin_boundary(task[t], "periodic"), begin_boundary(task[t], "complete"), x} : OnlyTask(t, r)
    BY DEF RunningStep, OnlyTask
  <1>5. ASSUME NEW b PROVE TorrentOK(t, begin_boundary(task[t], b), store[t], native[t], disk[t], sched[t], mailbox[t])
    BY <1>2, <1>1, <1>3, BoundaryOK DEF TorrentAt
  <1>6. TorrentOK(t, Failed(task[t]), store[t], native[t], disk[t], sched[t], mailbox[t])
    BY <1>1, <1>2, FailedOK DEF TorrentAt, Rest
  <1>7. TorrentOK(t, x, store[t], native[t], disk[t], sched[t], mailbox[t])
    BY <1>1, <1>2, SeedingOK DEF TorrentAt
  <1> HIDE DEF x
  <1>8. TorrentOK(t, r, store[t], native[t], disk[t], sched[t], mailbox[t]) BY <1>4, <1>5, <1>6, <1>7, Zenon
  <1> QED BY <1>2, <1>4, <1>8, OnlyTaskKept

\* Checkpoint keeps it.
LEMMA CheckpointKept ==
  ASSUME BtInv, NEW t \in Torrents, Checkpoint(t)
  PROVE  BtInv'
  <1>1. BtShape /\ TorrentAt(t) BY DEF BtInv, TorrentAt
  <1>2. mailbox[t] = {} /\ task[t].event = <<>> /\ task[t].phase = "checkpoint" /\ task[t].reply = "none" /\ plane # "stopped"
    BY DEF Checkpoint, Steps, Polled, Running
  <1>3. CASE native' = [native EXCEPT ![t] = native_checkpoint(@, task[t].request)] /\ Sets(t, [task[t] EXCEPT !.reply = "waiting"])
    <2> DEFINE x == [task[t] EXCEPT !.reply = "waiting"]
               m == native_checkpoint(native[t], task[t].request)
    <2>1. Becomes(t, x, store[t], m, disk[t], sched[t], mailbox[t])
      BY <1>1, <1>3, SameAt DEF Checkpoint, Sets, Becomes
    <2>2. TorrentOK(t, x, store[t], m, disk[t], sched[t], mailbox[t])
      BY <1>1, <1>2, CheckpointOK DEF TorrentAt
    <2>3. transfer' = transfer /\ admission' = admission /\ plane' = plane BY DEF Checkpoint
    <2>4. Writes(m) => Writes(native[t])
      BY <1>1 DEF Writes, native_checkpoint, TorrentAt, TorrentOK, TaskTyped, IsNative, NativeFields
    <2> HIDE DEF x, m
    <2> QED BY <1>2, <2>1, <2>2, <2>3, <2>4, TurnKept
  <1>4. CASE Sets(t, [task[t] EXCEPT !.reply = "error"]) /\ native' = native
    <2> DEFINE x == [task[t] EXCEPT !.reply = "error"]
    <2>1. OnlyTask(t, x) BY <1>4 DEF Checkpoint, OnlyTask
    <2>2. TorrentOK(t, x, store[t], native[t], disk[t], sched[t], mailbox[t])
      BY <1>1, <1>2, RefusedOK DEF TorrentAt
    <2> HIDE DEF x
    <2> QED BY <1>2, <2>1, <2>2, OnlyTaskKept
  <1> QED BY <1>3, <1>4 DEF Checkpoint

\* SettleCheckpoint keeps it, whether or not its caller still waits.
LEMMA SettleKept ==
  ASSUME BtInv, NEW t \in Torrents, SettleCheckpoint(t)
  PROVE  BtInv'
  <1>1. BtShape /\ TorrentAt(t) BY DEF BtInv, TorrentAt
  <1>2. native[t].pending # 0 BY DEF SettleCheckpoint
  <1>3. plane # "stopped" BY <1>1, <1>2, NoNativeFacts DEF TorrentAt, TorrentOK, SessionAgrees, BtInv
  <1>4. PICK saved \in BOOLEAN :
          /\ native' = [native EXCEPT ![t].pending = 0, ![t].waited = FALSE, ![t].saved = saved \/ @]
          /\ Sets(t, IF ~native[t].waited THEN task[t]
                     ELSE [task[t] EXCEPT !.reply = IF saved THEN "data" ELSE "error", !.taken = IF saved THEN <<disk[t]>> ELSE <<>>])
    BY DEF SettleCheckpoint
  <1> DEFINE v == saved \/ native[t].saved
             a == IF saved THEN "data" ELSE "error"
             b == IF saved THEN <<disk[t]>> ELSE <<>>
             m == [native[t] EXCEPT !.pending = 0, !.waited = FALSE, !.saved = v]
             x == [task[t] EXCEPT !.reply = a, !.taken = b]
  <1>5. native' = [native EXCEPT ![t] = m] BY <1>1, <1>4 DEF BtShape
  <1>6. UNCHANGED <<store, disk, sched, mailbox, admission, transfer, plane>> BY DEF SettleCheckpoint
  <1>7. (a = "data" /\ b = <<disk[t]>>) \/ (a = "error" /\ b = <<>>) OBVIOUS
  <1>8. native[t].waited => task' = [task EXCEPT ![t] = x] BY <1>4 DEF Sets
  <1>9. ~native[t].waited => task' = [task EXCEPT ![t] = task[t]] BY <1>4 DEF Sets
  <1> HIDE DEF v, a, b
  <1>10. Writes(m) => Writes(native[t])
    BY <1>1 DEF Writes, TorrentAt, TorrentOK, TaskTyped, IsNative, NativeFields
  <1>11. CASE native[t].waited
    <2>1. Becomes(t, x, store[t], m, disk[t], sched[t], mailbox[t])
      BY <1>1, <1>5, <1>6, <1>8, <1>11, SameAt DEF Becomes
    <2>2. TorrentOK(t, x, store[t], m, disk[t], sched[t], mailbox[t])
      BY <1>1, <1>2, <1>7, <1>11, SettleOK DEF TorrentAt
    <2> HIDE DEF x, m
    <2> QED BY <1>3, <1>6, <1>10, <2>1, <2>2, TurnKept
  <1>12. CASE ~native[t].waited
    <2>1. Becomes(t, task[t], store[t], m, disk[t], sched[t], mailbox[t])
      BY <1>1, <1>5, <1>6, <1>9, <1>12, SameAt DEF Becomes
    <2>2. TorrentOK(t, task[t], store[t], m, disk[t], sched[t], mailbox[t])
      BY <1>1, <1>2, <1>12, SettleLateOK DEF TorrentAt
    <2> HIDE DEF m
    <2> QED BY <1>3, <1>6, <1>10, <2>1, <2>2, TurnKept
  <1> QED BY <1>11, <1>12

\* CheckpointTimeout keeps it.
LEMMA TimeoutKept ==
  ASSUME BtInv, NEW t \in Torrents, CheckpointTimeout(t)
  PROVE  BtInv'
  <1> DEFINE x == [task[t] EXCEPT !.reply = "error"]
             m == [native[t] EXCEPT !.waited = FALSE]
  <1>1. BtShape /\ TorrentAt(t) BY DEF BtInv, TorrentAt
  <1>2. native[t].pending # 0 /\ native[t].waited /\ plane # "stopped" BY DEF CheckpointTimeout, Running
  <1>3. native' = [native EXCEPT ![t] = m] BY <1>1 DEF CheckpointTimeout, BtShape
  <1>4. Becomes(t, x, store[t], m, disk[t], sched[t], mailbox[t])
    BY <1>1, <1>3, SameAt DEF CheckpointTimeout, Sets, Becomes
  <1>5. TorrentOK(t, x, store[t], m, disk[t], sched[t], mailbox[t]) BY <1>1, <1>2, TimeoutOK DEF TorrentAt
  <1>6. transfer' = transfer /\ admission' = admission /\ plane' = plane BY DEF CheckpointTimeout
  <1>7. Writes(m) => Writes(native[t])
    BY <1>1 DEF Writes, TorrentAt, TorrentOK, TaskTyped, IsNative, NativeFields
  <1> HIDE DEF x, m
  <1> QED BY <1>2, <1>4, <1>5, <1>6, <1>7, TurnKept

\* CheckpointAnswer keeps it.
LEMMA AnswerKept ==
  ASSUME BtInv, NEW t \in Torrents, CheckpointAnswer(t)
  PROVE  BtInv'
  <1> DEFINE ok == task[t].reply = "data"
             fails == ~ok /\ task[t].boundary \in {"complete", "periodic"}
             bd == IF fails THEN "failure" ELSE task[t].boundary
             fl == IF fails THEN task[t].gen ELSE task[t].failure
             bad == ~ok
             x == [task[t] EXCEPT !.reply = "none", !.phase = "persist", !.failed = bad, !.boundary = bd, !.failure = fl]
  <1>1. TorrentAt(t) BY DEF BtInv, TorrentAt
  <1>2. mailbox[t] = {} /\ task[t].event = <<>> /\ task[t].phase = "checkpoint" /\ task[t].reply \in {"data", "error"} /\ plane # "stopped"
    BY DEF CheckpointAnswer, Steps, Polled, Running
  <1>3. OnlyTask(t, x) BY DEF CheckpointAnswer, Moves, OnlyTask
  <1>4. /\ ok <=> task[t].reply = "data"
        /\ bd = IF ~ok /\ task[t].boundary \in {"complete", "periodic"} THEN "failure" ELSE task[t].boundary
        /\ bad <=> ~ok
    OBVIOUS
  <1> HIDE DEF ok, bd, fl, bad
  <1>5. TorrentOK(t, x, store[t], native[t], disk[t], sched[t], mailbox[t])
    BY <1>1, <1>2, <1>4, AnswerOK DEF TorrentAt
  <1> HIDE DEF x
  <1> QED BY <1>2, <1>3, <1>5, OnlyTaskKept

\* PersistCheckpoint keeps it: the row is of this generation and waits for
\* this request.
LEMMA PersistKept ==
  ASSUME BtInv, NEW t \in Torrents, PersistCheckpoint(t)
  PROVE  BtInv'
  <1> DEFINE v == task[t].taken = <<>>
             x == [task[t] EXCEPT !.dirty = v, !.taken = <<>>, !.phase = AfterPersist(task[t])]
             y == checkpointed_row(store[t], task[t])
  <1>1. BtShape /\ TorrentAt(t) BY DEF BtInv, TorrentAt
  <1>2. mailbox[t] = {} /\ task[t].event = <<>> /\ task[t].phase = "persist" /\ plane # "stopped"
    BY DEF PersistCheckpoint, Steps, Polled, Running
  <1>3. store[t].gen = task[t].gen /\ store[t].request < task[t].request
    BY <1>1, <1>2 DEF TorrentAt, TorrentOK, RowsAgree
  <1>4. Becomes(t, x, y, native[t], disk[t], sched[t], mailbox[t])
    BY <1>1, <1>3, SameAt DEF PersistCheckpoint, Sets, Becomes
  <1> HIDE DEF v
  <1>5. TorrentOK(t, x, y, native[t], disk[t], sched[t], mailbox[t]) BY <1>1, <1>2, PersistOK DEF TorrentAt
  <1>6. transfer' = transfer /\ admission' = admission /\ plane' = plane BY <1>3 DEF PersistCheckpoint
  <1> HIDE DEF x, y
  <1> QED BY <1>2, <1>4, <1>5, <1>6, TurnKept

\* RemoveTorrent keeps it.
LEMMA RemoveKept ==
  ASSUME BtInv, NEW t \in Torrents, RemoveTorrent(t)
  PROVE  BtInv'
  <1> DEFINE x == Removed(task[t])
  <1>1. BtShape /\ TorrentAt(t) BY DEF BtInv, TorrentAt
  <1>2. mailbox[t] = {} /\ task[t].event = <<>> /\ task[t].phase = "remove" /\ plane # "stopped"
    BY DEF RemoveTorrent, Steps, Polled, Running
  <1>3. TorrentOK(t, x, store[t], NoNative, disk[t], sched[t], mailbox[t])
    BY <1>1, <1>2, RemovedOK DEF TorrentAt
  <1>4. transfer' = transfer /\ admission' = admission BY DEF RemoveTorrent
  <1>5. Writes(NoNative) => Writes(native[t]) BY NoNativeFacts DEF Writes
  <1>6. CASE ~task[t].added
    <2>1. native[t] = NoNative BY <1>1, <1>6 DEF TorrentAt, TorrentOK, SessionAgrees
    <2>2. Becomes(t, x, store[t], NoNative, disk[t], sched[t], mailbox[t]) /\ plane' = plane
      BY <1>1, <1>6, <2>1, SameAt DEF RemoveTorrent, Sets, Becomes
    <2> HIDE DEF x
    <2> QED BY <1>2, <1>3, <1>4, <1>5, <2>2, TurnKept
  <1>7. CASE task[t].added /\ Removable(t)
    <2>1. Becomes(t, x, store[t], NoNative, disk[t], sched[t], mailbox[t]) /\ plane' = plane
      BY <1>1, <1>7, SameAt DEF RemoveTorrent, Sets, Becomes
    <2> HIDE DEF x
    <2> QED BY <1>2, <1>3, <1>4, <1>5, <2>1, TurnKept
  <1>8. CASE task[t].added /\ ~Removable(t)
    BY <1>1, <1>8, SameAt, <1>4, StepKept DEF RemoveTorrent, Becomes, TorrentAt
  <1> QED BY <1>6, <1>7, <1>8

\* Download keeps it: the row of a torrent that writes is dirty.
LEMMA DownloadKept ==
  ASSUME BtInv, NEW t \in Torrents, Download(t)
  PROVE  BtInv'
  <1>1. BtShape /\ TorrentAt(t) BY DEF BtInv, TorrentAt
  <1>2. native[t].added /\ ~native[t].held /\ ~native[t].paused /\ disk[t] < MaxProgress BY DEF Download
  <1>3. plane # "stopped" BY <1>1, <1>2 DEF BtInv, TorrentAt, TorrentOK, SessionAgrees
  <1>4. Becomes(t, task[t], store[t], native[t], disk[t] + 1, sched[t], mailbox[t])
    BY <1>1, SameAt DEF Download, Becomes
  <1>5. TorrentOK(t, task[t], store[t], native[t], disk[t] + 1, sched[t], mailbox[t])
    BY <1>1, <1>2, DownloadOK DEF TorrentAt
  <1>6. transfer' = transfer /\ admission' = admission /\ plane' = plane BY DEF Download
  <1> QED BY <1>3, <1>4, <1>5, <1>6, TurnKept

\* ChangeLive keeps it: the version it sends is newer than the session's.
LEMMA ChangeLiveKept ==
  ASSUME BtInv, NEW t \in Torrents, ChangeLive(t)
  PROVE  BtInv'
  <1> DEFINE x == [task[t] EXCEPT !.version = @ + 1]
             m == native_settings(native[t], task[t].version + 1)
  <1>1. BtShape /\ TorrentAt(t) BY DEF BtInv, TorrentAt
  <1>2. task[t].phase = "running" /\ task[t].event = <<>> /\ plane # "stopped" BY DEF ChangeLive
  <1>3. task[t].version + 1 > native[t].version BY <1>1 DEF TorrentAt, TorrentOK, TaskTyped, SessionAgrees
  <1>4. /\ task' = [task EXCEPT ![t].version = @ + 1] /\ native' = [native EXCEPT ![t] = m] /\ plane' = plane
        /\ UNCHANGED <<store, disk, sched, mailbox, admission, transfer>>
    BY <1>3 DEF ChangeLive
  <1>5. task' = [task EXCEPT ![t] = x] BY <1>1, <1>4 DEF BtShape
  <1>6. Becomes(t, x, store[t], m, disk[t], sched[t], mailbox[t]) BY <1>1, <1>4, <1>5, SameAt DEF Becomes
  <1>7. TorrentOK(t, x, store[t], m, disk[t], sched[t], mailbox[t]) BY <1>1, <1>2, SettingsOK DEF TorrentAt
  <1>8. Writes(m) => Writes(native[t])
    BY <1>1 DEF Writes, native_settings, TorrentAt, TorrentOK, TaskTyped, IsNative, NativeFields
  <1> HIDE DEF x, m
  <1> QED BY <1>2, <1>4, <1>6, <1>7, <1>8, TurnKept

\* replace_paused_options keeps it.
LEMMA ReplaceKept ==
  ASSUME BtInv, NEW t \in Torrents, replace_paused_options(t)
  PROVE  BtInv'
  <1> DEFINE x == [task[t] EXCEPT !.dirty = TRUE, !.request = Ended]
             y == [store[t] EXCEPT !.resume = 0, !.dirty = TRUE, !.request = Ended]
  <1>1. BtShape /\ TorrentAt(t) BY DEF BtInv, TorrentAt
  <1>2. sched[t] = "paused" /\ plane # "stopped" BY DEF replace_paused_options
  <1>3. task' = [task EXCEPT ![t] = x] /\ store' = [store EXCEPT ![t] = y]
    BY <1>1 DEF replace_paused_options, BtShape
  <1>4. Becomes(t, x, y, native[t], disk[t], sched[t], mailbox[t])
    BY <1>1, <1>3, SameAt DEF replace_paused_options, Becomes
  <1>5. TorrentOK(t, x, y, native[t], disk[t], sched[t], mailbox[t]) BY <1>1, <1>2, ReplacedOK DEF TorrentAt
  <1>6. transfer' = transfer /\ admission' = admission /\ plane' = plane BY DEF replace_paused_options
  <1> HIDE DEF x, y
  <1> QED BY <1>2, <1>4, <1>5, <1>6, TurnKept

\* Steps that leave every torrent as it is.
LEMMA QuietKept ==
  ASSUME BtInv, UNCHANGED <<task, store, native, disk, sched, mailbox>>, OutputsDisjoint', AdmissionOK', plane' # "faulted",
         plane' = "stopped" => \A t \in Torrents : ~task[t].added
  PROVE  BtInv'
  <1>1. BtShape' BY DEF BtInv, BtShape
  <1>2. ASSUME NEW t \in Torrents
        PROVE  TorrentOK(t, task'[t], store'[t], native'[t], disk'[t], sched'[t], mailbox'[t])
    BY Zenon DEF BtInv
  <1>3. plane' = "stopped" => \A t \in Torrents : ~task'[t].added OBVIOUS
  <1> QED BY <1>1, <1>2, <1>3 DEF BtInv

\* begin_bt_admission keeps it.
LEMMA BeginAdmissionKept ==
  ASSUME BtInv, NEW t \in Torrents, begin_bt_admission(t)
  PROVE  BtInv'
  <1>1. UNCHANGED <<task, store, native, disk, sched, mailbox>> /\ transfer' = transfer /\ plane' = plane /\ sched[t] = "absent"
    BY DEF begin_bt_admission
  <1>2. OutputsDisjoint' BY <1>1 DEF BtInv, OutputsDisjoint
  <1>3. AdmissionOK' BY <1>1 DEF begin_bt_admission, AdmissionOK
  <1>4. plane' # "faulted" /\ (plane' = "stopped" => \A u \in Torrents : ~task[u].added) BY <1>1 DEF BtInv
  <1> QED BY <1>1, <1>2, <1>3, <1>4, QuietKept

\* poll_bt_admission keeps it.
LEMMA PollAdmissionKept ==
  ASSUME BtInv, poll_bt_admission
  PROVE  BtInv'
  <1>1. UNCHANGED <<native, disk, mailbox, transfer, plane>> /\ plane # "stopped" /\ admission # <<>> /\ plane # "faulted"
    BY DEF poll_bt_admission, Running, BtInv
  <1>2. admission[1] \in Torrents /\ sched[admission[1]] = "absent" BY <1>1 DEF BtInv, AdmissionOK
  <1>3. CASE UNCHANGED <<task, store, sched>> /\ (admission' = <<>> \/ admission' = <<admission[1], admission[2], <<Catalog>> >>)
    BY <1>1, <1>2, <1>3, QuietKept DEF BtInv, OutputsDisjoint, AdmissionOK
  <1>4. CASE /\ admission' = <<>>
             /\ store' = [store EXCEPT ![admission[1]] = NewBtRow(admission[2])]
             /\ task' = [task EXCEPT ![admission[1]] = [NewTask(NewBtRow(admission[2]), admission[2]) EXCEPT !.shutdown = plane = "stopping"]]
             /\ sched' = [sched EXCEPT ![admission[1]] = "waiting"]
    <2> DEFINE t == admission[1]
               b == admission[2]
               v == plane = "stopping"
               x == [NewTask(NewBtRow(b), b) EXCEPT !.shutdown = v]
               y == NewBtRow(b)
    <2>1. BtShape /\ AllOK /\ TorrentAt(t) /\ t \in Torrents BY <1>2 DEF BtInv, AllOK, TorrentAt
    <2>2. Becomes(t, x, y, native[t], disk[t], "waiting", mailbox[t]) BY <1>1, <1>4, <2>1, SameAt DEF Becomes
    <2> HIDE DEF v, b
    <2>3. TorrentOK(t, x, y, native[t], disk[t], "waiting", mailbox[t])
      BY <1>2, <2>1, InstalledOK DEF TorrentAt
    <2> HIDE DEF x, y, t
    <2>4. BtShape' /\ AllOK' BY <2>1, <2>2, <2>3, TorrentsKept
    <2>5. OutputsDisjoint' BY <1>1 DEF BtInv, OutputsDisjoint
    <2>6. AdmissionOK' BY <1>4 DEF AdmissionOK
    <2> QED BY <1>1, <2>4, <2>5, <2>6 DEF BtInv, AllOK, TorrentAt
  <1> QED BY <1>3, <1>4 DEF poll_bt_admission

\* AdmitTransfer keeps it: nobody who may write claims the output.
LEMMA AdmitKept ==
  ASSUME BtInv, AdmitTransfer
  PROVE  BtInv'
  <1>1. UNCHANGED <<task, store, native, disk, sched, mailbox>> /\ admission' = admission /\ plane' = plane
        /\ \A t \in Catalog.bound : TransferOutput \notin Outputs[t]
    BY DEF AdmitTransfer
  <1>2. \A t \in Torrents : Writes(native[t]) => TransferOutput \notin Outputs[t] BY <1>1, WritersBound
  <1>3. OutputsDisjoint' BY <1>1, <1>2 DEF BtInv, OutputsDisjoint, Writes, Claimed
  <1>4. AdmissionOK' BY <1>1 DEF BtInv, AdmissionOK
  <1>5. plane' # "faulted" /\ (plane' = "stopped" => \A u \in Torrents : ~task[u].added) BY <1>1 DEF BtInv
  <1> QED BY <1>1, <1>3, <1>4, <1>5, QuietKept

\* poll_stopped keeps it: nothing is left in the session.
LEMMA StoppedKept ==
  ASSUME BtInv, poll_stopped
  PROVE  BtInv'
  <1>1. UNCHANGED <<task, store, native, disk, sched, mailbox>> /\ admission' = admission /\ plane' = "stopped" /\ transfer' = transfer
        /\ \A t \in Torrents : ~task[t].added
    BY DEF poll_stopped, owns_work
  <1>2. OutputsDisjoint' /\ AdmissionOK' BY <1>1 DEF BtInv, OutputsDisjoint, AdmissionOK
  <1>3. plane' # "faulted" BY <1>1
  <1> QED BY <1>1, <1>2, <1>3, QuietKept

\* begin_shutdown keeps it.
LEMMA ShutdownKept ==
  ASSUME BtInv, begin_shutdown
  PROVE  BtInv'
  <1>1. /\ UNCHANGED <<store, native, disk, sched, mailbox, admission, transfer>> /\ plane' = "stopping"
        /\ task' = [t \in Torrents |-> [task[t] EXCEPT !.shutdown = TRUE]]
    BY DEF begin_shutdown
  <1>2. BtShape' BY <1>1 DEF BtInv, BtShape
  <1>3. ASSUME NEW t \in Torrents
        PROVE  TorrentOK(t, task'[t], store'[t], native'[t], disk'[t], sched'[t], mailbox'[t])
    <2> DEFINE x == [task[t] EXCEPT !.shutdown = TRUE]
    <2>1. TorrentOK(t, task[t], store[t], native[t], disk[t], sched[t], mailbox[t]) BY DEF BtInv
    <2>2. /\ IsTask(x) /\ (\A f \in TaskFields \ {"failure", "shutdown", "dirty", "check"} : x[f] = task[t][f])
          /\ x.check = task[t].check
      BY <2>1 DEF TorrentOK, TaskTyped, IsTask, TaskFields
    <2>3. task'[t] = x BY <1>1
    <2> HIDE DEF x
    <2>4. TorrentOK(t, x, store[t], native[t], disk[t], sched[t], mailbox[t]) BY <2>1, <2>2, IrrelevantOK
    <2> QED BY <1>1, <2>3, <2>4
  <1>4. OutputsDisjoint' /\ AdmissionOK' BY <1>1 DEF BtInv, OutputsDisjoint, AdmissionOK
  <1>5. plane' # "faulted" /\ plane' # "stopped" BY <1>1
  <1> QED BY <1>2, <1>3, <1>4, <1>5 DEF BtInv

\* A crash or an orderly restart keeps it, from any state.
LEMMA CrashKept ==
  ASSUME BtInv, CrashOrRestart
  PROVE  BtInv'
  <1>1. /\ native' = [t \in Torrents |-> NoNative] /\ task' = [t \in Torrents |-> NewTask(store[t], store[t].bound)]
        /\ sched' = [t \in Torrents |-> Recovered(sched[t])] /\ mailbox' = [t \in Torrents |-> {}] /\ admission' = <<>>
        /\ UNCHANGED <<store, disk, transfer>> /\ plane' \in {"refused", "open"}
    BY DEF CrashOrRestart
  <1>2. BtShape' BY <1>1 DEF BtInv, BtShape
  <1>3. ASSUME NEW t \in Torrents
        PROVE  TorrentOK(t, task'[t], store'[t], native'[t], disk'[t], sched'[t], mailbox'[t])
    <2> DEFINE u == Recovered(sched[t])
               x == NewTask(store[t], store[t].bound)
    <2>1. TorrentOK(t, task[t], store[t], native[t], disk[t], sched[t], mailbox[t]) BY DEF BtInv
    <2>2. task'[t] = x /\ native'[t] = NoNative /\ sched'[t] = u /\ mailbox'[t] = {} /\ store'[t] = store[t] /\ disk'[t] = disk[t]
      BY <1>1
    <2>3. TorrentOK(t, x, store[t], NoNative, disk[t], u, {}) BY <2>1, RestartOK
    <2> HIDE DEF x, u
    <2> QED BY <2>2, <2>3
  <1>4. OutputsDisjoint' /\ AdmissionOK' BY <1>1, NoNativeFacts DEF OutputsDisjoint, AdmissionOK
  <1>5. plane' # "faulted" /\ plane' # "stopped" BY <1>1
  <1> QED BY <1>2, <1>3, <1>4, <1>5 DEF BtInv

\* Every step of Task::poll keeps it.
LEMMA PollKept ==
  ASSUME BtInv, NEW t \in Torrents, Poll(t)
  PROVE  BtInv'
  BY InterruptKept, LoadResumeKept, AddKept, MetadataKept, BindKept, ApproveKept, MarkDirtyKept, ResumeKept, RunningKept,
     CheckpointKept, AnswerKept, PersistKept, RemoveKept, Zenon DEF Poll

\* Every step of the lane keeps it.
LEMMA LaneKept ==
  ASSUME BtInv, BtNext
  PROVE  BtInv'
  <1>1. ASSUME NEW t \in Torrents,
               \/ begin_bt_admission(t) \/ begin_generation(t) \/ Pause(t) \/ Unpause(t) \/ take_allocation(t)
               \/ take_cancellation(t) \/ submit_event(t) \/ Poll(t) \/ SettleCheckpoint(t) \/ CheckpointTimeout(t)
               \/ Download(t) \/ ChangeLive(t) \/ replace_paused_options(t)
        PROVE  BtInv'
    BY <1>1, BeginAdmissionKept, GenerationKept, PauseKept, UnpauseKept, AllocationKept, CancellationKept, SubmitKept, PollKept,
       SettleKept, TimeoutKept, DownloadKept, ChangeLiveKept, ReplaceKept, Zenon
  <1>2. ASSUME poll_bt_admission \/ AdmitTransfer \/ begin_shutdown \/ poll_stopped \/ CrashOrRestart
        PROVE  BtInv'
    BY <1>2, PollAdmissionKept, AdmitKept, ShutdownKept, StoppedKept, CrashKept, Zenon
  <1> QED BY <1>1, <1>2, Zenon DEF BtNext

\* The lane starts with no torrent.
LEMMA LaneStart ==
  ASSUME BtInit
  PROVE  BtInv
  <1>1. BtShape BY DEF BtInit, BtShape
  <1>2. ASSUME NEW t \in Torrents
        PROVE  TorrentOK(t, task[t], store[t], native[t], disk[t], sched[t], mailbox[t])
    <2> DEFINE y == NewBtRow(FALSE)
               x == NewTask(y, FALSE)
               m == NoNative
    <2>1. task[t] = x /\ store[t] = y /\ native[t] = m /\ disk[t] = 0 /\ sched[t] = "absent" /\ mailbox[t] = {}
      BY <1>1 DEF BtInit
    <2>2. IsBtRow(y) /\ y.gen = 0 /\ y.request = 0 /\ y.dirty = TRUE BY DEF NewBtRow, IsBtRow, BtRowFields
    <2>3. /\ IsTask(x) /\ x.phase = "idle" /\ x.gen = 0 /\ x.request = 0 /\ x.owed = "none" /\ x.cancel = FALSE /\ x.event = <<>>
          /\ x.added = FALSE /\ x.taken = <<>> /\ x.reply = "none" /\ x.check = <<>> /\ x.version = 0
      BY <2>2 DEF NewTask, NewBtRow, IsTask, TaskFields
    <2>4. IsNative(m) /\ m.added = FALSE /\ m.waited = FALSE /\ m.approved = FALSE /\ m.version = 0 /\ m = NoNative
      BY NoNativeFacts
    <2> HIDE DEF x, y, m
    <2>5. TaskTyped(x, y, m, 0) BY <2>2, <2>3, <2>4, BtAssumption DEF TaskTyped, Rest
    <2>6. SessionAgrees(x, m) /\ RowTrue(x, y, m, 0) /\ BoundaryTrue(x, y)
      BY <2>2, <2>3, <2>4 DEF SessionAgrees, RowTrue, BoundaryTrue, Inside
    <2>7. RowsAgree(x, y, "absent", {}) /\ AnswersOnce(x, y, "absent", {}) /\ Checked(t, x)
      BY <2>2, <2>3, <2>4 DEF RowsAgree, AnswersOnce, Checked, Owes, Rest
    <2>8. TorrentOK(t, x, y, m, 0, "absent", {}) BY <2>5, <2>6, <2>7 DEF TorrentOK
    <2> QED BY <2>1, <2>8
  <1>3. OutputsDisjoint BY NoNativeFacts DEF BtInit, OutputsDisjoint
  <1>4. AdmissionOK /\ plane # "faulted" /\ plane # "stopped" BY DEF BtInit, AdmissionOK
  <1> QED BY <1>1, <1>2, <1>3, <1>4 DEF BtInv

\* What the invariant says of the lane.
LEMMA LaneSound ==
  ASSUME BtInv
  PROVE  /\ BtTypeOK /\ CleanMeansWhole /\ DrainedAfterRemoval /\ OutputsDisjoint /\ TerminalHasRows /\ StoppedWhole
         /\ NeverStale
  <1>1. \A t \in Torrents : TorrentOK(t, task[t], store[t], native[t], disk[t], sched[t], mailbox[t])
    BY DEF BtInv
  <1>2. BtTypeOK BY <1>1 DEF BtTypeOK, TorrentOK, TaskTyped, Rest
  <1>3. CleanMeansWhole BY <1>1 DEF CleanMeansWhole, TorrentOK, RowTrue
  <1>4. DrainedAfterRemoval
    <2>1. ASSUME NEW t \in Torrents, task[t].event # <<>>, task[t].event[1] \in {"drained", "failed", "complete"}
          PROVE  ~native[t].added /\ native[t].pending = 0 /\ ~task[t].added
      BY <1>1, <2>1, NoNativeFacts DEF TorrentOK, AnswersOnce, Owes, SessionAgrees
    <2> QED BY <2>1 DEF DrainedAfterRemoval
  <1>5. TerminalHasRows
    <2>1. ASSUME NEW t \in Torrents, sched[t] \in {"waiting", "paused"}
          PROVE  task[t].gen = store[t].gen /\ task[t].request = store[t].request /\ ~task[t].added
      BY <1>1, <2>1 DEF TorrentOK, AnswersOnce, RowsAgree, Rest
    <2>2. ASSUME NEW t \in Torrents, task[t].event = <<"complete">>
          PROVE  task[t].gen = store[t].gen /\ task[t].request = store[t].request /\ ~task[t].added /\ ~store[t].dirty
      <3>1. task[t].event # <<>> /\ Owes(task[t], "complete") BY <2>2 DEF Owes
      <3>2. task[t].phase = "finished" /\ ~task[t].added /\ ~store[t].dirty
        BY <1>1, <3>1 DEF TorrentOK, AnswersOnce
      <3> QED BY <1>1, <3>1, <3>2 DEF TorrentOK, RowsAgree
    <2> QED BY <2>1, <2>2 DEF TerminalHasRows, TerminalAccepted
  <1>6. StoppedWhole
    <2>1. ASSUME plane = "stopped", NEW t \in Torrents PROVE ~native[t].added
      BY <1>1, <2>1 DEF BtInv, TorrentOK, SessionAgrees
    <2>2. ASSUME NEW t \in Torrents, task[t].phase = "finished", task[t].boundary # "failure", task[t].gen = store[t].gen,
                 task[t].request # Ended, clean
          PROVE  ~store[t].dirty
      BY <2>2, <1>1 DEF clean, TorrentOK, BoundaryTrue
    <2> QED BY <2>1, <2>2 DEF StoppedWhole
  <1>7. OutputsDisjoint /\ NeverStale BY DEF BtInv, NeverStale
  <1> QED BY <1>2, <1>3, <1>4, <1>5, <1>6, <1>7

\* The invariant of the lane and of its bandwidth.
LaneInv == (part = "bt" => BtInv) /\ RatesInv

\* The lane and its bandwidth keep their invariant, for any torrents,
\* outputs, bounds and limits (FrontendSpec; http_control/bittorrent.rs).
THEOREM LaneInvariance == FrontendSpec => []LaneInv
  <1>1. FrontendInit => LaneInv BY LaneStart, RatesStart DEF FrontendInit, RatesInit, LaneInv, RatesInv
  <1>2. LaneInv /\ [FrontendNext]_frontendVars => LaneInv'
    <2>1. SUFFICES ASSUME LaneInv, [FrontendNext]_frontendVars PROVE LaneInv' OBVIOUS
    <2>2. part' = part BY <2>1 DEF FrontendNext, frontendVars
    <2>3. ASSUME part = "bt" PROVE BtInv'
      <3>1. BtInv BY <2>1, <2>3 DEF LaneInv
      <3>2. BtNext \/ UNCHANGED btVars BY <2>1, <2>3 DEF FrontendNext, frontendVars
      <3>3. CASE UNCHANGED btVars BY <3>3, <3>1, QuietKept DEF btVars, BtInv, OutputsDisjoint, AdmissionOK
      <3> QED BY <3>1, <3>2, <3>3, LaneKept
    <2>4. ASSUME part = "rates" PROVE RatesOK(rates')
      BY <2>1, <2>4, PollRatesKept, RequireKept, AdapterKept DEF LaneInv, RatesInv, FrontendNext, frontendVars, RatesNext
    <2> QED BY <2>2, <2>3, <2>4 DEF LaneInv, RatesInv
  <1> QED BY <1>1, <1>2, PTL DEF FrontendSpec

\* The BitTorrent lane is sound: a clean row describes the disk, an answer
\* comes after the torrent is gone, outputs stay apart, rows match terminal
\* records, a stop is whole, nothing is stale and the bandwidth total holds,
\* however the lane, its torrents, the session and crashes interleave.
THEOREM LaneStaysSound == FrontendSpec => []BtSound
  <1>1. LaneInv => BtSound BY RatesBound, LaneSound DEF LaneInv, RatesInv, BtSound
  <1> QED BY <1>1, LaneInvariance, PTL
================================================================================
