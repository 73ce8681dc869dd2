------------------------- MODULE ControlPlane_proofs -------------------------
(***************************************************************************)
(* The control plane answers every call it accepts, once, keeps its        *)
(* catalogue the same as the database, and never lets a bulk control undo  *)
(* a later control of one task, for every set of calls, of tasks and of    *)
(* clients and every capacity of the mailboxes.                            *)
(***************************************************************************)
EXTENDS MCServices, FiniteSetTheorems, SequenceTheorems, WellFoundedInduction, TLAPS

-----------------------------------------------------------------------------
(* Optional values.                                                        *)

\* Options are sequences of at most one value.
LEMMA OptionFacts == /\ \A x : Some(x) # None /\ The(Some(x)) = x
                     /\ \A x, y : Some(x) = Some(y) => x = y
  BY DEF Some, None, The

-----------------------------------------------------------------------------
(* The control plane.                                                      *)

\* What the order of two controls rests on: the owner's record and its
\* continuations, the commands of the two lanes and the cells.
OwnerFields == {"input", "mutation", "bulk", "sources", "restarts", "admission", "configuration", "generation",
                "export", "streak", "closing", "shutdown", "phase"}
Envelopes == [method : Methods, gid : Nat, seq : Nat, callers : Seq(DOMAIN Calls), target : Seq(Gids), captured : Seq(Gids)]
Bulks == [token : DOMAIN Calls, what : {"pause", "unpause", "removeDownloadResult"}, seq : Nat, targets : Seq(Gids), member : Seq({"ok", "err", "waiting"})]
Continues(o) ==
  /\ DOMAIN o = OwnerFields
  /\ Is(o.bulk) => \E b \in Bulks : o.bulk = Some(b)
  /\ Is(o.mutation) => /\ "token" \in DOMAIN The(o.mutation)
                       /\ Is(o.bulk) \/ The(o.mutation).token \in DOMAIN Calls
  /\ Is(o.admission) => "token" \in DOMAIN The(o.admission) /\ The(o.admission).token \in DOMAIN Calls

\* An accepted command has a sequence of its own; those of the bulk lane are in
\* its order, after the bulk control under way.
Lane(q, n) == /\ q \in Seq(Envelopes)
              /\ \A i \in 1 .. Len(q) : q[i].callers # << >> /\ q[i].seq >= 1 /\ q[i].seq =< n
Lanes(u, b, n) ==
  /\ Lane(u, n) /\ \A i \in 1 .. Len(u) : is_task_control(u[i].method)
  /\ Lane(b, n) /\ \A i \in 1 .. Len(b) : ~is_task_control(b[i].method) /\ b[i].method # "shutdown"
  /\ \A i \in 1 .. Len(u), j \in 1 .. Len(b) : u[i].seq # b[j].seq
  /\ \A i, j \in 1 .. Len(b) : i < j => b[i].seq < b[j].seq
Follows(k, u, b, n) ==
  Is(k) => /\ The(k).seq >= 1 /\ The(k).seq =< n
           /\ \A i \in 1 .. Len(u) : u[i].seq # The(k).seq
           /\ \A j \in 1 .. Len(b) : The(k).seq < b[j].seq
Cells == UNION {[D -> Nat] : D \in SUBSET Gids}
\* A captured task was last acted on before the capture, or by it, or its cell knows better.
Held(cells, done, s, targets) ==
  \A i \in 1 .. Len(targets) :
    /\ targets[i] \in DOMAIN cells
    /\ \/ done[targets[i]].seq < s \/ cells[targets[i]] > s
       \/ done[targets[i]] = [seq |-> s, bulk |-> TRUE]
Acts == [Gids -> [seq : Nat, bulk : BOOLEAN]]
Consistent(ord, m, o, a) ==
  /\ ord \in [sequence : Nat, cells : Cells]
  /\ m \in [urgent : Seq(Envelopes), bulk : Seq(Envelopes)]
  /\ a \in Acts /\ \A g \in Gids : a[g].seq =< ord.sequence
  /\ Continues(o)
  /\ Lanes(m.urgent, m.bulk, ord.sequence)
  /\ Follows(o.bulk, m.urgent, m.bulk, ord.sequence)
  /\ \A j \in 1 .. Len(m.bulk) : Held(ord.cells, a, m.bulk[j].seq, m.bulk[j].captured)
  /\ Is(o.bulk) => Held(ord.cells, a, The(o.bulk).seq, The(o.bulk).targets)
ControlInv == Consistent(order, mailbox, owner, acted)

\* What a dispatched command starts: a bulk control takes the captured tasks
\* with it, everything else leaves the bulk control under way alone; only an
\* explicit control that was begun marks its task.
LEMMA BeginCallFacts ==
  ASSUME NEW o, Continues(o), NEW env \in Envelopes, env.callers # << >>, env.method # "shutdown"
  PROVE  LET r == begin_call(o, env)
         IN /\ Continues(r.owner)
            /\ \/ r.owner.bulk = o.bulk
               \/ /\ is_bulk_control(env.method) /\ ~Is(o.bulk) /\ Is(r.owner.bulk)
                  /\ The(r.owner.bulk).seq = env.seq /\ The(r.owner.bulk).targets = env.captured
            /\ r.order = IF marks(env.method) /\ ~Is(r.ready) THEN mark(order, env.gid, env.seq) ELSE order
  <1> DEFINE m == env.method
             token == env.callers[1]
             r == begin_call(o, env)
  <1>0. /\ m \in Methods /\ token \in DOMAIN Calls /\ env.seq \in Nat /\ env.captured \in Seq(Gids)
        /\ DOMAIN o = OwnerFields
    BY DEF Envelopes, Continues
  <1> HIDE DEF token
  <1>1. CASE is_bulk_control(m)
    <2> DEFINE b == [token |-> token, what |-> bulk_member(m), seq |-> env.seq, targets |-> env.captured, member |-> None]
    <2>1. ~is_task_control(m) /\ ~marks(m) BY <1>1 DEF is_bulk_control, is_task_control, marks
    <2>2. CASE Is(o.bulk) BY <1>1, <2>1, <2>2 DEF begin_call, is_bulk_control, is_task_control, Refused
    <2>3. CASE ~Is(o.bulk)
      <3>1. r = Started([o EXCEPT !.bulk = Some(b)])
        BY <1>1, <2>1, <2>3 DEF begin_call, token, is_bulk_control, is_task_control
      <3>2. b \in Bulks BY <1>1, <1>0 DEF is_bulk_control, bulk_member, None, Bulks
      <3>3. r.owner = [o EXCEPT !.bulk = Some(b)] /\ r.order = order BY <3>1 DEF Started
      <3>4. b.seq = env.seq /\ b.targets = env.captured OBVIOUS
      <3> HIDE DEF b, r
      <3>5. /\ DOMAIN r.owner = OwnerFields /\ r.owner.bulk = Some(b)
            /\ r.owner.mutation = o.mutation /\ r.owner.admission = o.admission
        BY <3>3, <1>0 DEF OwnerFields
      <3>6. Is(Some(b)) /\ The(Some(b)) = b BY OptionFacts DEF Is
      <3>7. Continues(r.owner) BY <3>5, <3>6, <3>2, Zenon DEF Continues
      <3> QED BY <3>7, <3>5, <3>6, <3>4, <3>3, <2>1, <1>1, <2>3 DEF r
    <2> QED BY <2>2, <2>3
  <1>2. CASE is_task_control(m)
    <2> DEFINE t == begin_task_control(o, order, token, m, env.gid, env.seq, TRUE)
    <2>1. ~is_bulk_control(m) BY <1>2 DEF is_bulk_control, is_task_control
    <2>2. r = [owner |-> t.owner, order |-> t.order, ready |-> IF t.err THEN Some("err") ELSE None]
      BY <1>2, <2>1 DEF begin_call, token, is_bulk_control, is_task_control
    <2> HIDE DEF r
    <2>3. r.owner = t.owner /\ r.order = t.order /\ r.ready = IF t.err THEN Some("err") ELSE None BY <2>2
    <2>4. Is(r.ready) <=> t.err BY <2>3, OptionFacts DEF Is
    <2> DEFINE o1 == IF marks(m) THEN mark(order, env.gid, env.seq) ELSE order
    <2>5. CASE ~Free(o) \/ ~Accepts(m, env.gid)
      <3>1. t = [owner |-> o, order |-> order, err |-> TRUE] BY <2>5 DEF begin_task_control
      <3> QED
        <4> HIDE DEF t
        <4>1. t.owner = o /\ t.order = order /\ t.err BY <3>1
        <4> QED BY <4>1, <2>3, <2>4 DEF r
    <2>6. CASE Free(o) /\ Accepts(m, env.gid)
      <3> DEFINE u == [kind |-> "Control", token |-> token, gid |-> env.gid, readmit |-> m \in {"unpause", "approveHostKey"},
                       replacement |-> IF m = "approveHostKey" THEN Some([catalog[env.gid] EXCEPT !.opts = @ \cup {token}]) ELSE None]
                 spec == IF m = "approveHostKey" THEN [catalog[env.gid] EXCEPT !.opts = @ \cup {token}] ELSE catalog[env.gid]
      <3>1. t = [owner |-> [Begin(o, m, env.gid, spec) EXCEPT !.mutation = Some(u)],
                 order |-> o1, err |-> FALSE]
        BY <2>6 DEF begin_task_control
      <3>2. "token" \in DOMAIN u /\ u.token = token OBVIOUS
      <3> HIDE DEF u, spec, t, o1
      <3>3. t.owner = [Begin(o, m, env.gid, spec) EXCEPT !.mutation = Some(u)] /\ t.order = o1 /\ ~t.err
        BY <3>1
      <3>4. /\ DOMAIN t.owner = OwnerFields /\ t.owner.bulk = o.bulk /\ t.owner.mutation = Some(u)
            /\ t.owner.admission = o.admission
        BY <3>3, <1>0 DEF OwnerFields, Begin
      <3>5. Continues(t.owner) BY <3>4, <3>2, <1>0, OptionFacts, Zenon DEF Continues
      <3> QED BY <3>5, <3>4, <3>3, <2>3, <2>4, <1>2 DEF r, o1
    <2> QED BY <2>5, <2>6
  <1>3. CASE ~is_bulk_control(m) /\ ~is_task_control(m)
    <2>0. ~marks(m) BY <1>3 DEF marks
    <2>1. m \in {"changeOption", "changeUri", "addUri", "importSession", "changeGlobalOption", "saveSession"}
      BY <1>0, <1>3 DEF Methods, is_bulk_control, is_task_control
    <2> DEFINE refused(o2) == /\ o2.owner = o /\ o2.order = order
               Keeps(o2) == /\ DOMAIN o2 = OwnerFields /\ o2.bulk = o.bulk
                            /\ o2.mutation = o.mutation \/ (o2.mutation # None /\ "token" \in DOMAIN The(o2.mutation) /\ The(o2.mutation).token = token)
                            /\ o2.admission = o.admission \/ (o2.admission # None /\ "token" \in DOMAIN The(o2.admission) /\ The(o2.admission).token = token)
    <2>2. \A why : Refused(o, why).owner = o /\ Refused(o, why).order = order BY DEF Refused
    <2>3. \A o2 : Started(o2).owner = o2 /\ Started(o2).order = order BY DEF Started
    <2>4. Keeps(o) BY <1>0
    <2>5. Keeps(begin_change_option(o, token, env.gid))
      <3> DEFINE spec == [catalog[env.gid] EXCEPT !.opts = @ \cup {token}]
                 what == IF tasks[env.gid] = "active" THEN "restart" ELSE "patch"
                 rs == IF tasks[env.gid] = "active" THEN o.restarts \cup {env.gid} ELSE o.restarts
                 u == [kind |-> "Options", token |-> token, gid |-> env.gid, readmit |-> FALSE, replacement |-> Some(spec)]
      <3>1. begin_change_option(o, token, env.gid) = [Begin(o, what, env.gid, spec) EXCEPT !.restarts = rs, !.mutation = Some(u)]
        BY <1>0 DEF begin_change_option, Begin, OwnerFields
      <3>2. "token" \in DOMAIN u /\ u.token = token OBVIOUS
      <3> HIDE DEF u, rs, what, spec
      <3> DEFINE q == [Begin(o, what, env.gid, spec) EXCEPT !.restarts = rs, !.mutation = Some(u)]
      <3>3. DOMAIN q = OwnerFields /\ q.bulk = o.bulk /\ q.mutation = Some(u) /\ q.admission = o.admission
        BY <1>0 DEF Begin, OwnerFields
      <3> DEFINE p == begin_change_option(o, token, env.gid)
      <3>4. p = q BY <3>1
      <3> HIDE DEF q, p
      <3>5. Some(u) # None /\ The(Some(u)) = u BY OptionFacts
      <3>6. Keeps(p) BY <3>4, <3>2, <3>3, <3>5, Zenon
      <3> QED BY <3>6 DEF p
    <2>6. Keeps(begin_source_plan(o, token, env.gid))
      <3> DEFINE ss == Put(o.sources, env.gid, [token |-> token, committing |-> FALSE, replacement |-> [catalog[env.gid] EXCEPT !.srcs = {token}]])
                 q == [Begin(o, "begin_sources", env.gid, catalog[env.gid]) EXCEPT !.sources = ss]
      <3>1. begin_source_plan(o, token, env.gid) = q BY <1>0 DEF begin_source_plan, Begin, OwnerFields
      <3> HIDE DEF ss
      <3>2. DOMAIN q = OwnerFields /\ q.bulk = o.bulk /\ q.mutation = o.mutation /\ q.admission = o.admission
        BY <1>0 DEF Begin, OwnerFields
      <3> QED BY <3>1, <3>2, Zenon
    <2>7. \A x : Keeps([o EXCEPT !.configuration = x]) /\ Keeps([o EXCEPT !.export = x])
      BY <1>0 DEF OwnerFields
    <2>8. \A i : Keeps([o EXCEPT !.admission = Some([stage |-> "Preparing", token |-> token, import |-> i])])
      <3> TAKE i
      <3> DEFINE u == [stage |-> "Preparing", token |-> token, import |-> i]
      <3>1. "token" \in DOMAIN u /\ u.token = token OBVIOUS
      <3> HIDE DEF u
      <3> DEFINE q == [o EXCEPT !.admission = Some(u)]
      <3>2. DOMAIN q = OwnerFields /\ q.bulk = o.bulk /\ q.mutation = o.mutation /\ q.admission = Some(u)
        BY <1>0 DEF OwnerFields
      <3>3. Keeps(q) BY <3>1, <3>2, OptionFacts, Zenon
      <3> QED BY <3>3 DEF u
    <2>9. Keeps(r.owner) /\ r.order = order
      <3> HIDE DEF Keeps
      <3>1. CASE m = "changeOption"
        BY <3>1, <2>2, <2>3, <2>4, <2>5 DEF begin_call, is_bulk_control, is_task_control, token
      <3>2. CASE m = "changeUri"
        BY <3>2, <2>2, <2>3, <2>4, <2>6 DEF begin_call, is_bulk_control, is_task_control, token
      <3>3. CASE m \in {"addUri", "importSession"}
        BY <3>3, <2>2, <2>3, <2>4, <2>8 DEF begin_call, is_bulk_control, is_task_control, token
      <3>4. CASE m = "changeGlobalOption"
        <4> DEFINE x == Some([token |-> token, previous |-> o.generation])
        <4>1. r = IF Is(o.admission) \/ Is(o.configuration) THEN Refused(o, "Busy")
                  ELSE Started([o EXCEPT !.configuration = x])
          BY <3>4 DEF begin_call, is_bulk_control, is_task_control, token
        <4> HIDE DEF x, r
        <4> QED
          <5> DEFINE a == Refused(o, "Busy")
                     k == [o EXCEPT !.configuration = x]
                     c == Started(k)
          <5>0. Keeps(k) BY <2>7
          <5> HIDE DEF k
          <5>1. Keeps(a.owner) /\ a.order = order /\ Keeps(c.owner) /\ c.order = order
            BY <2>2, <2>3, <2>4, <5>0
          <5>2. r = a \/ r = c BY <4>1 DEF k
          <5> HIDE DEF a, c
          <5>3. Keeps(r.owner) /\ r.order = order BY <5>1, <5>2
          <5> QED BY <5>3 DEF r
      <3>5. CASE m = "saveSession"
        <4> DEFINE x == Some([token |-> token, captured |-> catalog, stored |-> store])
        <4>1. r = IF Is(o.export) \/ o.sources # EmptyMap THEN Refused(o, "Busy")
                  ELSE Started([o EXCEPT !.export = x])
          BY <3>5 DEF begin_call, is_bulk_control, is_task_control, token
        <4> HIDE DEF x, r
        <4> QED
          <5> DEFINE a == Refused(o, "Busy")
                     k == [o EXCEPT !.export = x]
                     c == Started(k)
          <5>0. Keeps(k) BY <2>7
          <5> HIDE DEF k
          <5>1. Keeps(a.owner) /\ a.order = order /\ Keeps(c.owner) /\ c.order = order
            BY <2>2, <2>3, <2>4, <5>0
          <5>2. r = a \/ r = c BY <4>1 DEF k
          <5> HIDE DEF a, c
          <5>3. Keeps(r.owner) /\ r.order = order BY <5>1, <5>2
          <5> QED BY <5>3 DEF r
      <3> QED BY <2>1, <3>1, <3>2, <3>3, <3>4, <3>5
    <2> HIDE DEF r
    <2>10. Continues(r.owner) BY <2>9, <1>0, Zenon DEF Continues, Is
    <2> QED BY <2>0, <2>9, <2>10, <1>3 DEF r
  <1> QED BY <1>1, <1>2, <1>3

-----------------------------------------------------------------------------
\* Each thing a step does to the cells, the lanes and the owner keeps them consistent.

\* The fields of a consistent state, as the provers want them.
LEMMA ConsistentTypes ==
  ASSUME NEW ord, NEW m, NEW o, NEW a, Consistent(ord, m, o, a)
  PROVE  /\ ord.sequence \in Nat /\ ord.cells \in Cells /\ ord = [sequence |-> ord.sequence, cells |-> ord.cells]
         /\ m.urgent \in Seq(Envelopes) /\ m.bulk \in Seq(Envelopes) /\ m = [urgent |-> m.urgent, bulk |-> m.bulk]
         /\ \A g \in Gids : a[g].seq \in Nat /\ a[g].bulk \in BOOLEAN /\ a[g] = [seq |-> a[g].seq, bulk |-> a[g].bulk]
         /\ \A i \in 1 .. Len(m.urgent) : m.urgent[i] \in Envelopes /\ m.urgent[i].seq \in Nat
         /\ \A j \in 1 .. Len(m.bulk) : /\ m.bulk[j] \in Envelopes /\ m.bulk[j].seq \in Nat
                                        /\ m.bulk[j].captured \in Seq(Gids)
         /\ Is(o.bulk) => The(o.bulk) \in Bulks /\ The(o.bulk).seq \in Nat /\ The(o.bulk).targets \in Seq(Gids)
  <1>1. /\ ord.sequence \in Nat /\ ord.cells \in Cells /\ ord = [sequence |-> ord.sequence, cells |-> ord.cells]
        /\ m.urgent \in Seq(Envelopes) /\ m.bulk \in Seq(Envelopes) /\ m = [urgent |-> m.urgent, bulk |-> m.bulk]
    BY DEF Consistent
  <1>2. \A g \in Gids : a[g].seq \in Nat /\ a[g].bulk \in BOOLEAN /\ a[g] = [seq |-> a[g].seq, bulk |-> a[g].bulk]
    BY DEF Consistent, Acts
  <1>3. \A i \in 1 .. Len(m.urgent) : m.urgent[i] \in Envelopes BY <1>1
  <1>4. \A i \in 1 .. Len(m.bulk) : m.bulk[i] \in Envelopes BY <1>1
  <1>5. \A e \in Envelopes : e.seq \in Nat /\ e.captured \in Seq(Gids) BY DEF Envelopes
  <1>6. Is(o.bulk) => The(o.bulk) \in Bulks BY OptionFacts, Zenon DEF Consistent, Continues
  <1>7. \A b \in Bulks : b.seq \in Nat /\ b.targets \in Seq(Gids) BY DEF Bulks
  <1> QED BY <1>1, <1>2, <1>3, <1>4, <1>5, <1>6, <1>7

\* Cells may grow and new ones appear.
LEMMA HeldGrows ==
  ASSUME NEW cells, NEW more, NEW a, NEW s \in Nat, NEW ts \in Seq(Gids), Held(cells, a, s, ts),
         \A g \in DOMAIN cells : cells[g] \in Nat,
         \A i \in 1 .. Len(ts) : ts[i] \in DOMAIN more /\ more[ts[i]] \in Nat /\ more[ts[i]] >= cells[ts[i]]
  PROVE  Held(more, a, s, ts)
  <1>1. \A i \in 1 .. Len(ts) : ts[i] \in DOMAIN cells BY Zenon DEF Held
  <1>2. \A i \in 1 .. Len(ts) : cells[ts[i]] > s => more[ts[i]] > s BY <1>1
  <1> QED BY <1>2, Zenon DEF Held

\* The owner may change anything but its bulk control.
LEMMA OwnerKept ==
  ASSUME NEW ord, NEW m, NEW o, NEW a, Consistent(ord, m, o, a), NEW o2, Continues(o2), o2.bulk = o.bulk
  PROVE  Consistent(ord, m, o2, a)
  BY Zenon DEF Consistent

\* A bulk control goes on to its next member, or ends.
LEMMA BulkAdvanced ==
  ASSUME NEW ord, NEW m, NEW o, NEW a, Consistent(ord, m, o, a), NEW o2, Continues(o2), Is(o.bulk),
         \/ ~Is(o2.bulk)
         \/ /\ The(o2.bulk).seq = The(o.bulk).seq
            /\ \/ The(o2.bulk).targets = The(o.bulk).targets
               \/ The(o.bulk).targets # << >> /\ The(o2.bulk).targets = Tail(The(o.bulk).targets)
  PROVE  Consistent(ord, m, o2, a)
  <1>1. Follows(o2.bulk, m.urgent, m.bulk, ord.sequence) BY DEF Consistent, Follows
  <1>2. Is(o2.bulk) => Held(ord.cells, a, The(o2.bulk).seq, The(o2.bulk).targets)
    <2> SUFFICES ASSUME Is(o2.bulk) PROVE Held(ord.cells, a, The(o2.bulk).seq, The(o2.bulk).targets) OBVIOUS
    <2> DEFINE ts == The(o.bulk).targets
               s == The(o.bulk).seq
    <2>1. ts \in Seq(Gids) /\ Held(ord.cells, a, s, ts) BY ConsistentTypes DEF Consistent
    <2> HIDE DEF ts, s
    <2>2. ts # << >> => Held(ord.cells, a, s, Tail(ts))
      <3>1. ts # << >> => \A i \in 1 .. Len(Tail(ts)) : \E k \in 1 .. Len(ts) : Tail(ts)[i] = ts[k] BY <2>1
      <3> QED BY <2>1, <3>1, Zenon DEF Held
    <2> QED BY <2>1, <2>2 DEF ts, s
  <1> QED BY <1>1, <1>2, Zenon DEF Consistent

\* A command leaves its lane.
LEMMA LanePopped ==
  ASSUME NEW ord, NEW m, NEW o, NEW a, Consistent(ord, m, o, a), NEW u, NEW b,
         u = m.urgent \/ u = << >> \/ (m.urgent # << >> /\ u = Tail(m.urgent)),
         b = m.bulk \/ b = << >> \/ (m.bulk # << >> /\ b = Tail(m.bulk))
  PROVE  Consistent(ord, [urgent |-> u, bulk |-> b], o, a)
  <1> DEFINE m2 == [urgent |-> u, bulk |-> b]
  <1>0. /\ m.urgent \in Seq(Envelopes) /\ m.bulk \in Seq(Envelopes)
        /\ m2.urgent = u /\ m2.bulk = b
    BY ConsistentTypes
  <1>1. u \in Seq(Envelopes) /\ b \in Seq(Envelopes) /\ m2 \in [urgent : Seq(Envelopes), bulk : Seq(Envelopes)]
    <2>1. u \in Seq(Envelopes) /\ b \in Seq(Envelopes)
      <3>1. \A s \in Seq(Envelopes) : s # << >> => Tail(s) \in Seq(Envelopes) OBVIOUS
      <3>2. << >> \in Seq(Envelopes) OBVIOUS
      <3> QED BY <1>0, <3>1, <3>2, Zenon
    <2> QED BY <2>1
  <1>2. \A i \in 1 .. Len(u) : \E k \in 1 .. Len(m.urgent) : u[i] = m.urgent[k] BY <1>0
  <1>3. \/ Len(b) = 0
        \/ Len(b) = Len(m.bulk) /\ \A i \in 1 .. Len(b) : b[i] = m.bulk[i]
        \/ Len(b) = Len(m.bulk) - 1 /\ \A i \in 1 .. Len(b) : b[i] = m.bulk[i + 1]
    BY <1>0
  <1>4. \E d \in {0, 1} : \A i \in 1 .. Len(b) : b[i] = m.bulk[i + d] /\ i + d \in 1 .. Len(m.bulk)
    <2>1. Len(b) \in Nat /\ Len(m.bulk) \in Nat BY <1>0, <1>1
    <2>2. CASE Len(b) = Len(m.bulk) - 1 /\ \A i \in 1 .. Len(b) : b[i] = m.bulk[i + 1]
      <3>1. \A i \in 1 .. Len(b) : b[i] = m.bulk[i + 1] /\ i + 1 \in 1 .. Len(m.bulk) BY <2>1, <2>2
      <3> QED BY <3>1
    <2>3. CASE Len(b) = Len(m.bulk) /\ \A i \in 1 .. Len(b) : b[i] = m.bulk[i]
      <3>1. \A i \in 1 .. Len(b) : b[i] = m.bulk[i + 0] /\ i + 0 \in 1 .. Len(m.bulk) BY <2>1, <2>3
      <3> QED BY <3>1
    <2>4. CASE Len(b) = 0 BY <2>4
    <2> QED BY <1>3, <2>2, <2>3, <2>4
  <1>5. PICK d \in {0, 1} : \A i \in 1 .. Len(b) : b[i] = m.bulk[i + d] /\ i + d \in 1 .. Len(m.bulk) BY <1>4
  <1>6. Lanes(u, b, ord.sequence)
    <2>1. Lanes(m.urgent, m.bulk, ord.sequence) BY DEF Consistent
    <2>2. Lane(u, ord.sequence) /\ \A i \in 1 .. Len(u) : is_task_control(u[i].method)
      BY <2>1, <1>1, <1>2 DEF Lanes, Lane
    <2>3. Lane(b, ord.sequence) /\ \A i \in 1 .. Len(b) : ~is_task_control(b[i].method) /\ b[i].method # "shutdown"
      BY <2>1, <1>1, <1>5 DEF Lanes, Lane
    <2>4. \A i \in 1 .. Len(u), j \in 1 .. Len(b) : u[i].seq # b[j].seq
      <3> TAKE i \in 1 .. Len(u), j \in 1 .. Len(b)
      <3>1. PICK k \in 1 .. Len(m.urgent) : u[i] = m.urgent[k] BY <1>2
      <3>2. b[j] = m.bulk[j + d] /\ j + d \in 1 .. Len(m.bulk) BY <1>5
      <3>3. m.urgent[k].seq # m.bulk[j + d].seq BY <3>2, <2>1, Zenon DEF Lanes
      <3> QED BY <3>1, <3>2, <3>3
    <2>5. \A i, j \in 1 .. Len(b) : i < j => b[i].seq < b[j].seq
      <3> SUFFICES ASSUME NEW i \in 1 .. Len(b), NEW j \in 1 .. Len(b), i < j PROVE b[i].seq < b[j].seq
        OBVIOUS
      <3>1. /\ b[i] = m.bulk[i + d] /\ i + d \in 1 .. Len(m.bulk)
            /\ b[j] = m.bulk[j + d] /\ j + d \in 1 .. Len(m.bulk)
        BY <1>5
      <3>2. i + d < j + d BY <1>1
      <3>3. m.bulk[i + d].seq < m.bulk[j + d].seq BY <3>1, <3>2, <2>1, Zenon DEF Lanes
      <3> QED BY <3>1, <3>3
    <2> QED BY <2>2, <2>3, <2>4, <2>5 DEF Lanes
  <1>7. Follows(o.bulk, u, b, ord.sequence) BY <1>2, <1>5 DEF Consistent, Follows
  <1>8. \A j \in 1 .. Len(b) : Held(ord.cells, a, b[j].seq, b[j].captured) BY <1>5 DEF Consistent
  <1> HIDE DEF m2
  <1>9. Consistent(ord, m2, o, a) BY <1>0, <1>1, <1>6, <1>7, <1>8, Zenon DEF Consistent
  <1> QED BY <1>9 DEF m2

\* The bulk control under way is the first of its lane.
LEMMA BulkStarted ==
  ASSUME NEW ord, NEW m, NEW o, NEW a, Consistent(ord, m, o, a), ~Is(o.bulk), m.bulk # << >>,
         NEW o2, Continues(o2), Is(o2.bulk), The(o2.bulk).seq = Head(m.bulk).seq, The(o2.bulk).targets = Head(m.bulk).captured
  PROVE  Consistent(ord, [urgent |-> m.urgent, bulk |-> Tail(m.bulk)], o2, a)
  <1> DEFINE m2 == [urgent |-> m.urgent, bulk |-> Tail(m.bulk)]
  <1>1. Consistent(ord, m2, o, a) BY LanePopped
  <1>2. m2.urgent = m.urgent /\ m2.bulk = Tail(m.bulk) OBVIOUS
  <1>3. /\ m.urgent \in Seq(Envelopes) /\ m.bulk \in Seq(Envelopes) /\ Head(m.bulk) = m.bulk[1] /\ Len(m.bulk) \in Nat
        /\ 1 \in 1 .. Len(m.bulk) /\ Len(Tail(m.bulk)) = Len(m.bulk) - 1
        /\ \A j \in 1 .. Len(Tail(m.bulk)) : Tail(m.bulk)[j] = m.bulk[j + 1]
    BY ConsistentTypes
  <1>4. Lanes(m.urgent, m.bulk, ord.sequence) BY DEF Consistent
  <1>5. Follows(o2.bulk, m.urgent, Tail(m.bulk), ord.sequence) BY <1>3, <1>4 DEF Lanes, Lane, Follows
  <1>6. Held(ord.cells, a, m.bulk[1].seq, m.bulk[1].captured) BY <1>3 DEF Consistent
  <1> HIDE DEF m2
  <1>7. Consistent(ord, m2, o2, a) BY <1>1, <1>2, <1>5, <1>6, <1>3 DEF Consistent
  <1> QED BY <1>7 DEF m2

\* Who is held by a queued capture or by the bulk control under way.
LEMMA CapturesFacts ==
  ASSUME NEW m, NEW o, m.bulk \in Seq(Envelopes)
  PROVE  /\ \A j \in 1 .. Len(m.bulk) : m.bulk[j].captured \in Seq(Gids) =>
              \A i \in 1 .. Len(m.bulk[j].captured) : m.bulk[j].captured[i] \in Captures(m, o)
         /\ Is(o.bulk) /\ The(o.bulk).targets \in Seq(Gids) =>
              \A i \in 1 .. Len(The(o.bulk).targets) : The(o.bulk).targets[i] \in Captures(m, o)
  <1> DEFINE Q == UNION {ToSet(m.bulk[i].captured) : i \in DOMAIN m.bulk}
             B == IF Is(o.bulk) THEN ToSet(The(o.bulk).targets) ELSE {}
  <1>1. Captures(m, o) = Q \cup B BY DEF Captures
  <1>2. \A s \in Seq(Gids) : \A i \in 1 .. Len(s) : s[i] \in ToSet(s) BY DEF ToSet
  <1>3. \A j \in DOMAIN m.bulk : ToSet(m.bulk[j].captured) \subseteq Q BY Zenon
  <1>4. DOMAIN m.bulk = 1 .. Len(m.bulk) OBVIOUS
  <1>5. Is(o.bulk) => ToSet(The(o.bulk).targets) \subseteq B OBVIOUS
  <1> HIDE DEF Q, B
  <1>6. \A j \in 1 .. Len(m.bulk) : m.bulk[j].captured \in Seq(Gids) =>
          \A i \in 1 .. Len(m.bulk[j].captured) : m.bulk[j].captured[i] \in Captures(m, o)
    BY <1>1, <1>2, <1>3, <1>4, Zenon
  <1>7. Is(o.bulk) /\ The(o.bulk).targets \in Seq(Gids) =>
          \A i \in 1 .. Len(The(o.bulk).targets) : The(o.bulk).targets[i] \in Captures(m, o)
    BY <1>1, <1>2, <1>5, Zenon
  <1> QED BY <1>6, <1>7

\* Cells nobody holds are forgotten.
LEMMA PruneFacts ==
  ASSUME NEW ord \in [sequence : Nat, cells : Cells], NEW m, NEW o
  PROVE  LET p == prune(ord, m, o)
         IN /\ p \in [sequence : Nat, cells : Cells] /\ p.sequence = ord.sequence
            /\ DOMAIN p.cells = DOMAIN ord.cells \cap Captures(m, o)
            /\ \A g \in DOMAIN p.cells : p.cells[g] = ord.cells[g]
  <1> DEFINE c == Without(ord.cells, DOMAIN ord.cells \ Captures(m, o))
             p == prune(ord, m, o)
  <1>1. PICK D \in SUBSET Gids : ord.cells \in [D -> Nat] BY DEF Cells
  <1>2. /\ DOMAIN c = DOMAIN ord.cells \cap Captures(m, o)
        /\ \A g \in DOMAIN c : c[g] = ord.cells[g]
        /\ c \in [D \cap Captures(m, o) -> Nat]
    BY <1>1 DEF Without
  <1>3. c \in Cells BY <1>2 DEF Cells
  <1>4. p = [ord EXCEPT !.cells = c] BY DEF prune
  <1> HIDE DEF c
  <1>5. p.cells = c /\ p.sequence = ord.sequence /\ p \in [sequence : Nat, cells : Cells] BY <1>3, <1>4
  <1> QED BY <1>2, <1>5

\* Pruning the cells of tasks nobody holds changes nothing for the captures.
LEMMA Pruned ==
  ASSUME NEW ord, NEW m, NEW o, NEW a, Consistent(ord, m, o, a)
  PROVE  Consistent(prune(ord, m, o), m, o, a)
  <1> DEFINE p == prune(ord, m, o)
  <1>0. ord \in [sequence : Nat, cells : Cells] BY DEF Consistent
  <1>1. /\ p \in [sequence : Nat, cells : Cells] /\ p.sequence = ord.sequence
        /\ DOMAIN p.cells = DOMAIN ord.cells \cap Captures(m, o)
        /\ \A g \in DOMAIN p.cells : p.cells[g] = ord.cells[g]
    BY <1>0, PruneFacts
  <1> HIDE DEF p
  <1>2. \A g \in DOMAIN ord.cells : ord.cells[g] \in Nat BY <1>0 DEF Cells
  <1>3. \A j \in 1 .. Len(m.bulk) : Held(p.cells, a, m.bulk[j].seq, m.bulk[j].captured)
    <2> TAKE j \in 1 .. Len(m.bulk)
    <2> DEFINE ts == m.bulk[j].captured
               s == m.bulk[j].seq
    <2>1. ts \in Seq(Gids) /\ s \in Nat /\ Held(ord.cells, a, s, ts) /\ m.bulk \in Seq(Envelopes)
      BY ConsistentTypes DEF Consistent
    <2>2. \A i \in 1 .. Len(ts) : ts[i] \in Captures(m, o) BY <2>1, CapturesFacts
    <2> HIDE DEF ts, s
    <2>3. \A i \in 1 .. Len(ts) : ts[i] \in DOMAIN p.cells /\ p.cells[ts[i]] = ord.cells[ts[i]]
      BY <2>1, <2>2, <1>1 DEF Held
    <2>4. Held(p.cells, a, s, ts) BY <2>1, <2>3 DEF Held
    <2> QED BY <2>4 DEF ts, s
  <1>4. Is(o.bulk) => Held(p.cells, a, The(o.bulk).seq, The(o.bulk).targets)
    <2> SUFFICES ASSUME Is(o.bulk) PROVE Held(p.cells, a, The(o.bulk).seq, The(o.bulk).targets) OBVIOUS
    <2> DEFINE ts == The(o.bulk).targets
               s == The(o.bulk).seq
    <2>1. ts \in Seq(Gids) /\ s \in Nat /\ Held(ord.cells, a, s, ts) BY ConsistentTypes DEF Consistent
    <2>2. \A i \in 1 .. Len(ts) : ts[i] \in Captures(m, o) BY <2>1, CapturesFacts DEF Consistent
    <2> HIDE DEF ts, s
    <2>3. \A i \in 1 .. Len(ts) : ts[i] \in DOMAIN p.cells /\ p.cells[ts[i]] = ord.cells[ts[i]]
      BY <2>1, <2>2, <1>1 DEF Held
    <2>4. Held(p.cells, a, s, ts) BY <2>1, <2>3 DEF Held
    <2> QED BY <2>4 DEF ts, s
  <1>5. Consistent(p, m, o, a) BY <1>1, <1>3, <1>4, Zenon DEF Consistent
  <1> QED BY <1>5 DEF p

\* mark: the cell of a captured task is at least the sequence of the control.
LEMMA MarkFacts ==
  ASSUME NEW ord \in [sequence : Nat, cells : Cells], NEW g, NEW s \in Nat
  PROVE  LET r == mark(ord, g, s)
         IN /\ r \in [sequence : Nat, cells : Cells] /\ r.sequence = ord.sequence
            /\ DOMAIN r.cells = DOMAIN ord.cells
            /\ \A h \in DOMAIN r.cells : r.cells[h] \in Nat /\ ord.cells[h] \in Nat /\ r.cells[h] >= ord.cells[h]
            /\ g \in DOMAIN r.cells => r.cells[g] >= s
  <1> DEFINE r == mark(ord, g, s)
             c == [ord.cells EXCEPT ![g] = s]
  <1>1. PICK D \in SUBSET Gids : ord.cells \in [D -> Nat] BY DEF Cells
  <1>2. CASE g \in DOMAIN ord.cells /\ ord.cells[g] < s
    <2>1. r = [ord EXCEPT !.cells = c] BY <1>2 DEF mark
    <2>2. c \in [D -> Nat] /\ DOMAIN c = D BY <1>1
    <2>3. c \in Cells BY <2>2 DEF Cells
    <2>4. \A h \in D : c[h] >= ord.cells[h] /\ c[h] \in Nat /\ ord.cells[h] \in Nat BY <1>1, <1>2
    <2>5. g \in D => c[g] >= s BY <1>1
    <2> HIDE DEF c, r
    <2>6. r.cells = c /\ r.sequence = ord.sequence /\ r \in [sequence : Nat, cells : Cells] BY <2>1, <2>3
    <2> QED BY <1>1, <2>2, <2>4, <2>5, <2>6 DEF r
  <1>3. CASE ~(g \in DOMAIN ord.cells /\ ord.cells[g] < s)
    <2>1. r = ord BY <1>3 DEF mark
    <2> HIDE DEF r
    <2>2. \A h \in DOMAIN ord.cells : ord.cells[h] \in Nat BY <1>1
    <2> QED BY <2>1, <2>2, <1>3 DEF r
  <1> QED BY <1>2, <1>3

\* An explicit control of another sequence acts on a task and marks it.
LEMMA HeldMarked ==
  ASSUME NEW cells, NEW more, NEW a \in Acts, NEW t \in Nat, NEW ts \in Seq(Gids), Held(cells, a, t, ts),
         NEW s \in Nat, s # t, NEW g, DOMAIN more = DOMAIN cells,
         \A h \in DOMAIN more : more[h] \in Nat /\ cells[h] \in Nat /\ more[h] >= cells[h],
         g \in DOMAIN more => more[g] >= s
  PROVE  Held(more, [a EXCEPT ![g] = [seq |-> s, bulk |-> FALSE]], t, ts)
  <1> DEFINE a2 == [a EXCEPT ![g] = [seq |-> s, bulk |-> FALSE]]
  <1> SUFFICES ASSUME NEW i \in 1 .. Len(ts)
               PROVE  /\ ts[i] \in DOMAIN more
                      /\ a2[ts[i]].seq < t \/ more[ts[i]] > t \/ a2[ts[i]] = [seq |-> t, bulk |-> TRUE]
    BY Zenon DEF Held
  <1> DEFINE x == ts[i]
  <1>0. x \in Gids OBVIOUS
  <1>1. x \in DOMAIN more /\ (a[x].seq < t \/ cells[x] > t \/ a[x] = [seq |-> t, bulk |-> TRUE])
    BY Zenon DEF Held
  <1>2. cells[x] > t => more[x] > t BY <1>1
  <1>3. CASE x = g
    <2>1. a2[x] = [seq |-> s, bulk |-> FALSE] BY <1>0, <1>3 DEF Acts
    <2>2. a2[x].seq = s BY <2>1
    <2>3. more[x] >= s /\ more[x] \in Nat BY <1>1, <1>3
    <2>4. s < t \/ more[x] > t BY <2>3
    <2> HIDE DEF a2, x
    <2> QED BY <1>1, <2>2, <2>4 DEF x
  <1>4. CASE x # g
    <2>1. a2[x] = a[x] BY <1>0, <1>4 DEF Acts
    <2> HIDE DEF a2, x
    <2> QED BY <1>1, <1>2, <2>1, Zenon DEF x
  <1> QED BY <1>3, <1>4

\* acted stays a record of acts, none of a sequence not given out.
LEMMA ActedTyped ==
  ASSUME NEW a \in Acts, NEW n \in Nat, \A h \in Gids : a[h].seq =< n, NEW g, NEW s \in Nat, s =< n, NEW b \in BOOLEAN
  PROVE  LET a2 == [a EXCEPT ![g] = [seq |-> s, bulk |-> b]]
         IN a2 \in Acts /\ \A h \in Gids : a2[h].seq =< n
  <1> DEFINE v == [seq |-> s, bulk |-> b]
             a2 == [a EXCEPT ![g] = v]
  <1>1. v \in [seq : Nat, bulk : BOOLEAN] /\ v.seq =< n OBVIOUS
  <1> HIDE DEF v
  <1>2. a2 \in Acts BY <1>1 DEF Acts
  <1>3. \A h \in Gids : a2[h] = v \/ a2[h] = a[h] BY DEF Acts
  <1> HIDE DEF a2
  <1>4. \A h \in Gids : a2[h].seq =< n BY <1>1, <1>3
  <1> QED BY <1>2, <1>4 DEF a2, v

\* Carrying out an explicit control keeps the captures informed.
LEMMA Marked ==
  ASSUME NEW ord, NEW m, NEW o, NEW a, Consistent(ord, m, o, a), NEW g, NEW s \in Nat, s =< ord.sequence,
         \A j \in 1 .. Len(m.bulk) : s # m.bulk[j].seq, Is(o.bulk) => s # The(o.bulk).seq
  PROVE  Consistent(mark(ord, g, s), m, o, [a EXCEPT ![g] = [seq |-> s, bulk |-> FALSE]])
  <1> DEFINE r == mark(ord, g, s)
             a2 == [a EXCEPT ![g] = [seq |-> s, bulk |-> FALSE]]
  <1>0. ord \in [sequence : Nat, cells : Cells] /\ a \in Acts BY DEF Consistent
  <1>1. /\ r \in [sequence : Nat, cells : Cells] /\ r.sequence = ord.sequence
        /\ DOMAIN r.cells = DOMAIN ord.cells
        /\ \A h \in DOMAIN r.cells : r.cells[h] \in Nat /\ ord.cells[h] \in Nat /\ r.cells[h] >= ord.cells[h]
        /\ g \in DOMAIN r.cells => r.cells[g] >= s
    BY <1>0, MarkFacts
  <1>2. a2 \in Acts /\ \A h \in Gids : a2[h].seq =< ord.sequence BY <1>0, ActedTyped DEF Consistent
  <1>3. \A j \in 1 .. Len(m.bulk) : Held(r.cells, a2, m.bulk[j].seq, m.bulk[j].captured)
    <2> TAKE j \in 1 .. Len(m.bulk)
    <2>1. /\ m.bulk[j].captured \in Seq(Gids) /\ m.bulk[j].seq \in Nat
          /\ Held(ord.cells, a, m.bulk[j].seq, m.bulk[j].captured)
      BY ConsistentTypes DEF Consistent
    <2> HIDE DEF r
    <2> QED BY <2>1, <1>0, <1>1, HeldMarked
  <1>4. Is(o.bulk) => Held(r.cells, a2, The(o.bulk).seq, The(o.bulk).targets)
    <2> SUFFICES ASSUME Is(o.bulk) PROVE Held(r.cells, a2, The(o.bulk).seq, The(o.bulk).targets) OBVIOUS
    <2>1. /\ The(o.bulk).targets \in Seq(Gids) /\ The(o.bulk).seq \in Nat
          /\ Held(ord.cells, a, The(o.bulk).seq, The(o.bulk).targets)
      BY ConsistentTypes DEF Consistent
    <2> HIDE DEF r
    <2> QED BY <2>1, <1>0, <1>1, HeldMarked
  <1> HIDE DEF r, a2
  <1>5. Consistent(r, m, o, a2) BY <1>1, <1>2, <1>3, <1>4, Zenon DEF Consistent
  <1> QED BY <1>5 DEF r, a2

\* The bulk control under way acts on one of its tasks.
LEMMA BulkActed ==
  ASSUME NEW ord, NEW m, NEW o, NEW a, Consistent(ord, m, o, a), Is(o.bulk), NEW g
  PROVE  Consistent(ord, m, o, [a EXCEPT ![g] = [seq |-> The(o.bulk).seq, bulk |-> TRUE]])
  <1> DEFINE s == The(o.bulk).seq
             v == [seq |-> s, bulk |-> TRUE]
             a2 == [a EXCEPT ![g] = v]
  <1>0. ord.sequence \in Nat /\ a \in Acts /\ s \in Nat BY ConsistentTypes DEF Consistent
  <1>1. s =< ord.sequence /\ \A j \in 1 .. Len(m.bulk) : s < m.bulk[j].seq BY DEF Consistent, Follows
  <1>2. a2 \in Acts /\ \A h \in Gids : a2[h].seq =< ord.sequence BY <1>0, <1>1, ActedTyped DEF Consistent
  <1>3. v.seq = s OBVIOUS
  <1>4. \A h \in Gids : a2[h] = v \/ a2[h] = a[h] BY <1>0 DEF Acts
  <1> HIDE DEF a2, s
  <1>5. \A j \in 1 .. Len(m.bulk) : Held(ord.cells, a2, m.bulk[j].seq, m.bulk[j].captured)
    <2> TAKE j \in 1 .. Len(m.bulk)
    <2> DEFINE t == m.bulk[j].seq
               ts == m.bulk[j].captured
    <2>1. ts \in Seq(Gids) /\ t \in Nat /\ Held(ord.cells, a, t, ts) BY ConsistentTypes DEF Consistent
    <2>2. \A i \in 1 .. Len(ts) : ts[i] \in Gids BY <2>1
    <2>3. v.seq < t BY <1>1, <1>3
    <2> HIDE DEF v, t, ts
    <2>4. Held(ord.cells, a2, t, ts) BY <2>1, <2>2, <2>3, <1>4, Zenon DEF Held
    <2> QED BY <2>4 DEF t, ts
  <1>6. Held(ord.cells, a2, The(o.bulk).seq, The(o.bulk).targets)
    <2> DEFINE ts == The(o.bulk).targets
    <2>1. ts \in Seq(Gids) /\ Held(ord.cells, a, s, ts) BY ConsistentTypes DEF Consistent, s
    <2>2. \A i \in 1 .. Len(ts) : ts[i] \in Gids BY <2>1
    <2> HIDE DEF ts
    <2>3. Held(ord.cells, a2, s, ts) BY <2>1, <2>2, <1>4, Zenon DEF Held
    <2> QED BY <2>3 DEF ts, s
  <1>7. Consistent(ord, m, o, a2) BY <1>2, <1>5, <1>6, Zenon DEF Consistent
  <1> QED BY <1>7 DEF a2, s

-----------------------------------------------------------------------------
\* What admitting a command does: every one takes the next sequence.
LEMMA SequenceNext ==
  ASSUME NEW ord, NEW m, NEW o, NEW a, Consistent(ord, m, o, a)
  PROVE  LET ord2 == [ord EXCEPT !.sequence = ord.sequence + 1]
         IN Consistent(ord2, m, o, a) /\ ord2.sequence = ord.sequence + 1 /\ ord2.cells = ord.cells
  <1> DEFINE n == ord.sequence
             ord2 == [ord EXCEPT !.sequence = n + 1]
  <1>1. n \in Nat /\ ord2 \in [sequence : Nat, cells : Cells] /\ ord2.sequence = n + 1 /\ ord2.cells = ord.cells
    BY DEF Consistent
  <1> HIDE DEF ord2
  <1>2. \A g \in Gids : a[g].seq =< ord2.sequence
    <2>1. \A g \in Gids : a[g].seq =< n BY Zenon DEF Consistent
    <2>2. \A g \in Gids : a[g].seq \in Nat BY ConsistentTypes
    <2> HIDE DEF n
    <2> QED BY <1>1, <2>1, <2>2
  <1>3. Lanes(m.urgent, m.bulk, ord2.sequence)
    <2>1. Lanes(m.urgent, m.bulk, n) BY DEF Consistent
    <2>2. /\ \A i \in 1 .. Len(m.urgent) : m.urgent[i].seq =< n + 1
          /\ \A i \in 1 .. Len(m.bulk) : m.bulk[i].seq =< n + 1
      BY <1>1, <2>1, ConsistentTypes DEF Lanes, Lane
    <2> HIDE DEF n
    <2> QED BY <1>1, <2>1, <2>2, Zenon DEF Lanes, Lane
  <1>4. Follows(o.bulk, m.urgent, m.bulk, ord2.sequence)
    <2>1. Follows(o.bulk, m.urgent, m.bulk, n) BY DEF Consistent
    <2>2. Is(o.bulk) => The(o.bulk).seq \in Nat BY ConsistentTypes
    <2> HIDE DEF n
    <2>3. Is(o.bulk) => The(o.bulk).seq =< n + 1 BY <1>1, <2>1, <2>2 DEF Follows
    <2> QED BY <1>1, <2>1, <2>3, Zenon DEF Follows
  <1>5. Consistent(ord2, m, o, a) BY <1>1, <1>2, <1>3, <1>4, Zenon DEF Consistent
  <1> QED BY <1>1, <1>5 DEF ord2

\* Facts about the newest sequence: no one else has it.
LEMMA Newest ==
  ASSUME NEW ord, NEW m, NEW o, NEW a, Consistent(ord, m, o, a)
  PROVE  /\ \A i \in 1 .. Len(m.urgent) : m.urgent[i].seq < ord.sequence + 1
         /\ \A j \in 1 .. Len(m.bulk) : m.bulk[j].seq < ord.sequence + 1
         /\ Is(o.bulk) => The(o.bulk).seq < ord.sequence + 1
         /\ \A g \in Gids : a[g].seq < ord.sequence + 1
  <1> DEFINE n == ord.sequence
  <1>1. /\ n \in Nat /\ \A g \in Gids : a[g].seq \in Nat
        /\ \A i \in 1 .. Len(m.urgent) : m.urgent[i].seq \in Nat
        /\ \A j \in 1 .. Len(m.bulk) : m.bulk[j].seq \in Nat
        /\ Is(o.bulk) => The(o.bulk).seq \in Nat
    BY ConsistentTypes
  <1>2. /\ \A i \in 1 .. Len(m.urgent) : m.urgent[i].seq =< n
        /\ \A j \in 1 .. Len(m.bulk) : m.bulk[j].seq =< n
        /\ Is(o.bulk) => The(o.bulk).seq =< n
        /\ \A g \in Gids : a[g].seq =< n
    BY Zenon DEF Consistent, Lanes, Lane, Follows
  <1> HIDE DEF n
  <1>3. /\ \A i \in 1 .. Len(m.urgent) : m.urgent[i].seq < n + 1
        /\ \A j \in 1 .. Len(m.bulk) : m.bulk[j].seq < n + 1
        /\ Is(o.bulk) => The(o.bulk).seq < n + 1
        /\ \A g \in Gids : a[g].seq < n + 1
    BY <1>1, <1>2
  <1> QED BY <1>3 DEF n

\* Every command of a lane is new or was there.
Renewed(u, q, n) == \A i \in 1 .. Len(u) : u[i].seq = n \/ \E k \in 1 .. Len(q) : u[i].seq = q[k].seq

\* A task control takes the end of the urgent lane, or the place of one it is merged with.
LEMMA UrgentQueued ==
  ASSUME NEW ord, NEW m, NEW o, NEW a, Consistent(ord, m, o, a), NEW n, n = ord.sequence + 1,
         NEW u \in Seq(Envelopes), Lane(u, n), \A i \in 1 .. Len(u) : is_task_control(u[i].method),
         Renewed(u, m.urgent, n)
  PROVE  Consistent([ord EXCEPT !.sequence = n], [urgent |-> u, bulk |-> m.bulk], o, a)
  <1> DEFINE ord2 == [ord EXCEPT !.sequence = n]
             m2 == [urgent |-> u, bulk |-> m.bulk]
  <1>1. Consistent(ord2, m, o, a) /\ ord2.sequence = n /\ ord2.cells = ord.cells BY SequenceNext
  <1>2. m2.urgent = u /\ m2.bulk = m.bulk /\ m2 \in [urgent : Seq(Envelopes), bulk : Seq(Envelopes)]
    BY ConsistentTypes
  <1> HIDE DEF ord2, m2
  <1>3. ord.sequence \in Nat /\ \A j \in 1 .. Len(m.bulk) : m.bulk[j].seq \in Nat BY ConsistentTypes
  <1>4. \A i \in 1 .. Len(u), j \in 1 .. Len(m.bulk) : u[i].seq # m.bulk[j].seq
    <2> TAKE i \in 1 .. Len(u), j \in 1 .. Len(m.bulk)
    <2>1. m.bulk[j].seq # n BY <1>3, Newest
    <2>2. \A k \in 1 .. Len(m.urgent) : m.urgent[k].seq # m.bulk[j].seq BY Zenon DEF Consistent, Lanes
    <2> QED BY <2>1, <2>2, Zenon DEF Renewed
  <1>5. Is(o.bulk) => \A i \in 1 .. Len(u) : u[i].seq # The(o.bulk).seq
    <2> SUFFICES ASSUME Is(o.bulk), NEW i \in 1 .. Len(u) PROVE u[i].seq # The(o.bulk).seq OBVIOUS
    <2>1. The(o.bulk).seq # n BY <1>3, Newest, ConsistentTypes
    <2>2. \A k \in 1 .. Len(m.urgent) : m.urgent[k].seq # The(o.bulk).seq BY Zenon DEF Consistent, Follows
    <2> QED BY <2>1, <2>2, Zenon DEF Renewed
  <1>6. Lanes(u, m.bulk, n) BY <1>1, <1>4, Zenon DEF Consistent, Lanes
  <1>7. Follows(o.bulk, u, m.bulk, n) BY <1>1, <1>5, Zenon DEF Consistent, Follows
  <1>8. Consistent(ord2, m2, o, a) BY <1>1, <1>2, <1>6, <1>7, Zenon DEF Consistent
  <1> QED BY <1>8 DEF ord2, m2

\* Everything else takes the end of the bulk lane, with the tasks it captured.
LEMMA BulkQueued ==
  ASSUME NEW ord, NEW m, NEW o, NEW a, Consistent(ord, m, o, a), NEW n, n = ord.sequence + 1,
         NEW env \in Envelopes, env.seq = n, env.callers # << >>, ~is_task_control(env.method), env.method # "shutdown",
         \A i \in 1 .. Len(env.captured) : env.captured[i] \in DOMAIN ord.cells
  PROVE  Consistent([ord EXCEPT !.sequence = n], [urgent |-> m.urgent, bulk |-> Append(m.bulk, env)], o, a)
  <1> DEFINE ord2 == [ord EXCEPT !.sequence = n]
             b == Append(m.bulk, env)
             m2 == [urgent |-> m.urgent, bulk |-> b]
  <1>1. Consistent(ord2, m, o, a) /\ ord2.sequence = n /\ ord2.cells = ord.cells BY SequenceNext
  <1>2. ord.sequence \in Nat /\ m.urgent \in Seq(Envelopes) /\ m.bulk \in Seq(Envelopes) /\ env.captured \in Seq(Gids)
    BY ConsistentTypes DEF Envelopes
  <1>3. /\ b \in Seq(Envelopes) /\ Len(b) = Len(m.bulk) + 1 /\ Len(m.bulk) \in Nat /\ b[Len(m.bulk) + 1] = env
        /\ \A j \in 1 .. Len(m.bulk) : b[j] = m.bulk[j]
        /\ \A j \in 1 .. Len(b) : j = Len(m.bulk) + 1 \/ j \in 1 .. Len(m.bulk)
    BY <1>2
  <1>4. m2.urgent = m.urgent /\ m2.bulk = b /\ m2 \in [urgent : Seq(Envelopes), bulk : Seq(Envelopes)]
    BY <1>2, <1>3
  <1> HIDE DEF ord2, m2, b
  <1>5. Lanes(m.urgent, b, n)
    <2>1. Lanes(m.urgent, m.bulk, n) BY <1>1 DEF Consistent
    <2>2. Lane(b, n)
      <3>1. n >= 1 /\ n =< n BY <1>2
      <3>2. \A j \in 1 .. Len(m.bulk) : m.bulk[j].callers # << >> /\ m.bulk[j].seq >= 1 /\ m.bulk[j].seq =< n
        BY <2>1, Zenon DEF Lanes, Lane
      <3>3. \A j \in 1 .. Len(b) : b[j].callers # << >> /\ b[j].seq >= 1 /\ b[j].seq =< n
        <4> TAKE j \in 1 .. Len(b)
        <4>1. b[j] = env \/ (j \in 1 .. Len(m.bulk) /\ b[j] = m.bulk[j]) BY <1>3
        <4> QED BY <4>1, <3>1, <3>2, Zenon
      <3> QED BY <3>3, <1>3, Zenon DEF Lane
    <2>3. \A i \in 1 .. Len(b) : ~is_task_control(b[i].method) /\ b[i].method # "shutdown"
      BY <2>1, <1>3 DEF Lanes
    <2>4. \A i \in 1 .. Len(m.urgent) : m.urgent[i].seq # n BY <1>2, Newest, ConsistentTypes
    <2>5. \A i \in 1 .. Len(m.urgent), j \in 1 .. Len(b) : m.urgent[i].seq # b[j].seq
      BY <2>1, <2>4, <1>3 DEF Lanes
    <2>6. \A j \in 1 .. Len(m.bulk) : m.bulk[j].seq < n BY Newest
    <2>7. \A i, j \in 1 .. Len(b) : i < j => b[i].seq < b[j].seq
      <3> SUFFICES ASSUME NEW i \in 1 .. Len(b), NEW j \in 1 .. Len(b), i < j PROVE b[i].seq < b[j].seq
        OBVIOUS
      <3>1. i \in 1 .. Len(m.bulk) BY <1>3
      <3>2. CASE j = Len(m.bulk) + 1 BY <3>1, <3>2, <2>6, <1>3
      <3>3. CASE j \in 1 .. Len(m.bulk) BY <3>1, <3>3, <2>1, <1>3 DEF Lanes
      <3> QED BY <3>2, <3>3, <1>3
    <2> QED BY <2>1, <2>2, <2>3, <2>5, <2>7, Zenon DEF Lanes
  <1>6. Follows(o.bulk, m.urgent, b, n)
    <2>1. Follows(o.bulk, m.urgent, m.bulk, n) BY <1>1 DEF Consistent
    <2>2. Is(o.bulk) => The(o.bulk).seq < n BY Newest
    <2> QED BY <2>1, <2>2, <1>3 DEF Follows
  <1>7. \A j \in 1 .. Len(b) : Held(ord.cells, a, b[j].seq, b[j].captured)
    <2> TAKE j \in 1 .. Len(b)
    <2>1. CASE j = Len(m.bulk) + 1 BY <1>2, Newest, <2>1, <1>3 DEF Held
    <2>2. CASE j \in 1 .. Len(m.bulk) BY <2>2, <1>3 DEF Consistent
    <2> QED BY <2>1, <2>2, <1>3
  <1>8. Consistent(ord2, m2, o, a) BY <1>1, <1>4, <1>5, <1>6, <1>7, Zenon DEF Consistent
  <1> QED BY <1>8 DEF ord2, m2, b

\* A capture gives every task it holds a cell and keeps those of the earlier ones.
LEMMA CaptureMade ==
  ASSUME ControlInv, NEW held \in Seq(Gids)
  PROVE  LET c == capture(order, held)
         IN /\ Consistent(c, mailbox, owner, acted) /\ c.sequence = order.sequence
            /\ \A i \in 1 .. Len(held) : held[i] \in DOMAIN c.cells
  <1> DEFINE live == prune(order, mailbox, owner)
             cells == [g \in DOMAIN live.cells \cup ToSet(held) |-> IF g \in DOMAIN live.cells THEN live.cells[g] ELSE 0]
             c == capture(order, held)
  <1>1. Consistent(live, mailbox, owner, acted) BY Pruned DEF ControlInv
  <1>2. /\ order \in [sequence : Nat, cells : Cells] /\ live \in [sequence : Nat, cells : Cells]
        /\ live.sequence = order.sequence
    BY PruneFacts DEF ControlInv, Consistent
  <1>3. c = [live EXCEPT !.cells = cells] BY <1>2 DEF capture
  <1> HIDE DEF live
  <1>4. PICK D \in SUBSET Gids : live.cells \in [D -> Nat] BY <1>2 DEF Cells
  <1>5. ToSet(held) \subseteq Gids /\ \A i \in 1 .. Len(held) : held[i] \in ToSet(held) BY DEF ToSet
  <1>6. /\ cells \in [D \cup ToSet(held) -> Nat] /\ DOMAIN cells = DOMAIN live.cells \cup ToSet(held)
        /\ \A g \in DOMAIN live.cells : cells[g] = live.cells[g] /\ live.cells[g] \in Nat
    BY <1>4
  <1>7. cells \in Cells BY <1>5, <1>6 DEF Cells
  <1> HIDE DEF cells, c
  <1>8. c.cells = cells /\ c.sequence = live.sequence /\ c \in [sequence : Nat, cells : Cells]
    BY <1>2, <1>3, <1>7
  <1>9. \A s \in Nat, ts \in Seq(Gids) : Held(live.cells, acted, s, ts) => Held(cells, acted, s, ts)
    BY <1>6 DEF Held
  <1>10. \A j \in 1 .. Len(mailbox.bulk) : Held(cells, acted, mailbox.bulk[j].seq, mailbox.bulk[j].captured)
    BY <1>1, <1>9, ConsistentTypes DEF Consistent
  <1>11. Is(owner.bulk) => Held(cells, acted, The(owner.bulk).seq, The(owner.bulk).targets)
    BY <1>1, <1>9, ConsistentTypes DEF Consistent
  <1>12. Consistent(c, mailbox, owner, acted) BY <1>1, <1>8, <1>10, <1>11, Zenon DEF Consistent
  <1> QED BY <1>2, <1>5, <1>6, <1>8, <1>12 DEF c

\* The tasks of a bulk control, in some order.
LEMMA BulkedFacts ==
  ASSUME NEW m, NEW held \in Bulked(m)
  PROVE  held \in Seq(Gids)
  <1> DEFINE S == {g \in Gids : tasks[g] \in bulk_classes(m)}
  <1>1. IsFiniteSet(Gids) BY TasksAssumption, FS_AddElement DEF Gids
  <1>2. S \subseteq Gids OBVIOUS
  <1>3. held \in [1 .. Cardinality(S) -> S] BY DEF Bulked, SetToSeqs
  <1> HIDE DEF S
  <1>4. Cardinality(S) \in Nat BY <1>1, <1>2, FS_Subset, FS_CardinalityType
  <1> QED BY <1>2, <1>3, <1>4

\* Two controls become one: a pause or a removal.
Coalesces(e, what) == The(coalesced_method(e.method, what)) \in {"pause", "remove"}

\* A queued control takes in a later one: the lane stays one of task controls.
LEMMA MergedTyped ==
  ASSUME NEW ord, NEW m, NEW o, NEW a, Consistent(ord, m, o, a), NEW n, n = ord.sequence + 1, NEW c \in DOMAIN Calls,
         NEW k, NEW what, Coalesces(m.urgent[k], what),
         NEW u, u = [m.urgent EXCEPT ![k] = Merged(m.urgent[k], what, n, c)]
  PROVE  Consistent([ord EXCEPT !.sequence = n], [urgent |-> u, bulk |-> m.bulk], o, a)
  <1> DEFINE e == m.urgent[k]
             now == The(coalesced_method(e.method, what))
             e2 == Merged(e, what, n, c)
  <1>0. ord.sequence \in Nat /\ n \in Nat /\ n >= 1 /\ m.urgent \in Seq(Envelopes) BY ConsistentTypes
  <1>1. Lanes(m.urgent, m.bulk, ord.sequence) BY DEF Consistent
  <1>2. /\ \A i \in 1 .. Len(m.urgent) : m.urgent[i].callers # << >> /\ m.urgent[i].seq >= 1 /\ is_task_control(m.urgent[i].method)
        /\ \A i \in 1 .. Len(m.urgent) : m.urgent[i] \in Envelopes /\ m.urgent[i].seq \in Nat /\ m.urgent[i].seq =< n
    BY ConsistentTypes, Newest, <1>0, <1>1 DEF Lanes, Lane
  <1>3. CASE k \in DOMAIN m.urgent
    <2>1. k \in 1 .. Len(m.urgent) /\ e \in Envelopes BY <1>0, <1>2, <1>3
    <2>0. now \in {"pause", "remove"} BY DEF Coalesces
    <2> HIDE DEF e, now
    <2>2. Append(e.callers, c) \in Seq(DOMAIN Calls) /\ Append(e.callers, c) # << >>
      BY <2>1, AppendProperties DEF Envelopes
    <2>10. e2 = [e EXCEPT !.method = now, !.seq = n, !.callers = Append(e.callers, c)] BY DEF Merged, now
    <2> HIDE DEF e2
    <2>3. e2 \in Envelopes BY <2>0, <2>1, <2>2, <2>10, <1>0 DEF Envelopes, Methods
    <2>4. e2.callers # << >> /\ e2.seq = n /\ e2.method = now BY <2>1, <2>2, <2>10 DEF Envelopes
    <2>5. is_task_control(e2.method) BY <2>0, <2>4 DEF is_task_control
    <2>6. u = [m.urgent EXCEPT ![k] = e2] BY DEF e2, e
    <2>7. u \in Seq(Envelopes) /\ Len(u) = Len(m.urgent) /\ \A i \in 1 .. Len(u) : u[i] = e2 \/ u[i] = m.urgent[i]
      BY <2>1, <2>3, <2>6, <1>0
    <2>8. Lane(u, n) /\ \A i \in 1 .. Len(u) : is_task_control(u[i].method)
      BY <1>0, <2>4, <2>5, <2>7, <1>2 DEF Lane
    <2>9. Renewed(u, m.urgent, n) BY <2>4, <2>7, Zenon DEF Renewed
    <2> QED BY <2>7, <2>8, <2>9, UrgentQueued
  <1>4. CASE k \notin DOMAIN m.urgent
    <2>1. u = m.urgent BY <1>0, <1>4
    <2>2. Lane(u, n) BY <2>1, <1>0, <1>2, Zenon DEF Lane
    <2>3. Renewed(u, m.urgent, n) BY <2>1, Zenon DEF Renewed
    <2>4. u \in Seq(Envelopes) /\ \A i \in 1 .. Len(u) : is_task_control(u[i].method) BY <2>1, <1>0, <1>2
    <2> QED BY <2>2, <2>3, <2>4, UrgentQueued
  <1> QED BY <1>3, <1>4

\* A client's call is refused, merged or queued.
LEMMA AdmitKeeps ==
  ASSUME ControlInv, NEW c \in DOMAIN Calls, admit(c)
  PROVE  ControlInv' /\ acted' = acted
  <1> DEFINE call == Calls[c]
             n == order.sequence + 1
             urgent == is_task_control(call.method)
             target == IF urgent /\ call.gid \in Gids THEN Some(call.gid) ELSE None
             last == LastFor(mailbox.urgent, call.gid)
             merges == /\ call.method \in {"pause", "remove"} /\ last # 0
                       /\ mailbox.urgent[last].target = target
                       /\ Is(coalesced_method(mailbox.urgent[last].method, call.method))
             full == IF urgent THEN slots(TRUE) >= UrgentCapacity ELSE slots(FALSE) >= BulkCapacity
             env(held) == [method |-> call.method, gid |-> call.gid, seq |-> n, callers |-> <<c>>,
                           target |-> target, captured |-> held]
             ord(held) == IF is_bulk_control(call.method) THEN capture(order, held) ELSE order
             what == The(coalesced_method(mailbox.urgent[last].method, call.method))
  <1>1. PICK held \in IF is_bulk_control(call.method) THEN Bulked(call.method) ELSE {<< >>} :
          /\ IF call.method = "shutdown"
             THEN owner' = [owner EXCEPT !.closing = TRUE] /\ UNCHANGED <<mailbox, order>>
             ELSE IF owner.closing THEN UNCHANGED <<mailbox, order, owner>>
             ELSE /\ UNCHANGED owner
                  /\ order' = [ord(held) EXCEPT !.sequence = n]
                  /\ IF merges
                     THEN mailbox' = [mailbox EXCEPT !.urgent[last] = Merged(mailbox.urgent[last], call.method, n, c)]
                     ELSE IF full THEN UNCHANGED mailbox
                     ELSE mailbox' = IF urgent THEN [mailbox EXCEPT !.urgent = Append(@, env(held))]
                                     ELSE [mailbox EXCEPT !.bulk = Append(@, env(held))]
          /\ UNCHANGED acted
    BY Zenon DEF admit
  <1>2. /\ call.method \in Methods /\ call.gid \in Nat
        /\ order.sequence \in Nat /\ n \in Nat /\ n >= 1 /\ mailbox.urgent \in Seq(Envelopes) /\ mailbox.bulk \in Seq(Envelopes)
        /\ mailbox = [urgent |-> mailbox.urgent, bulk |-> mailbox.bulk]
    BY CallsAssumption, ConsistentTypes DEF ControlInv
  <1>3. held \in Seq(Gids) /\ (~is_bulk_control(call.method) => held = << >>)
    <2>1. CASE is_bulk_control(call.method) BY <2>1, BulkedFacts
    <2>2. CASE ~is_bulk_control(call.method) BY <2>2
    <2> QED BY <2>1, <2>2
  <1>4. acted' = acted BY <1>1
  <1>5. env(held) \in Envelopes /\ env(held).seq = n /\ env(held).callers # << >> /\ env(held).method = call.method /\ env(held).captured = held
    <2>1. target \in Seq(Gids) BY DEF Some, None
    <2>2. <<c>> \in Seq(DOMAIN Calls) /\ <<c>> # << >> OBVIOUS
    <2> HIDE DEF target, n, call
    <2> QED BY <2>1, <2>2, <1>2, <1>3 DEF Envelopes
  <1>6. Consistent(ord(held), mailbox, owner, acted) /\ ord(held).sequence = order.sequence
        /\ \A i \in 1 .. Len(held) : held[i] \in DOMAIN ord(held).cells
    BY <1>3, CaptureMade DEF ControlInv
  <1> DEFINE x == ord(held)
             e == env(held)
  <1>7. CASE call.method = "shutdown"
    <2>1. owner' = [owner EXCEPT !.closing = TRUE] /\ mailbox' = mailbox /\ order' = order BY <1>1, <1>7
    <2>2. DOMAIN owner = OwnerFields BY DEF ControlInv, Consistent, Continues
    <2>3. /\ DOMAIN owner' = OwnerFields /\ owner'.bulk = owner.bulk /\ owner'.mutation = owner.mutation
          /\ owner'.admission = owner.admission
      BY <2>1, <2>2 DEF OwnerFields
    <2>4. Continues(owner') BY <2>3, Zenon DEF ControlInv, Consistent, Continues
    <2> QED BY <2>1, <2>3, <2>4, <1>4, OwnerKept DEF ControlInv
  <1>8. CASE call.method # "shutdown" /\ owner.closing BY <1>1, <1>4, <1>8 DEF ControlInv
  <1>9. CASE call.method # "shutdown" /\ ~owner.closing
    <2> HIDE DEF merges, full, x, e, n
    <2>0. /\ UNCHANGED owner /\ order' = [x EXCEPT !.sequence = n]
          /\ IF merges
             THEN mailbox' = [mailbox EXCEPT !.urgent[last] = Merged(mailbox.urgent[last], call.method, n, c)]
             ELSE IF full THEN UNCHANGED mailbox
             ELSE mailbox' = IF urgent THEN [mailbox EXCEPT !.urgent = Append(@, e)]
                             ELSE [mailbox EXCEPT !.bulk = Append(@, e)]
      BY <1>1, <1>9, Zenon DEF x, e
    <2>00. /\ Consistent(x, mailbox, owner, acted) /\ n = x.sequence + 1
           /\ \A i \in 1 .. Len(held) : held[i] \in DOMAIN x.cells
           /\ e \in Envelopes /\ e.seq = n /\ e.callers # << >> /\ e.method = call.method /\ e.captured = held
      BY <1>5, <1>6 DEF x, e, n
    <2> HIDE DEF ord, env, call, last
    <2>1. CASE merges
      <3> DEFINE v == Merged(mailbox.urgent[last], call.method, n, c)
                 u == [mailbox.urgent EXCEPT ![last] = v]
      <3>1. what \in {"pause", "remove"}
        <4> DEFINE q == mailbox.urgent[last].method
        <4>1. call.method \in {"pause", "remove"} /\ Is(coalesced_method(q, call.method)) BY <2>1 DEF merges
        <4> HIDE DEF q, what
        <4>2. coalesced_method(q, call.method) \in {Some("pause"), Some("remove"), None}
          BY <4>1 DEF coalesced_method
        <4> QED BY <4>1, <4>2, OptionFacts DEF Is, what, q
      <3>2. mailbox' = [mailbox EXCEPT !.urgent[last] = Merged(mailbox.urgent[last], call.method, n, c)]
        BY <2>0, <2>1
      <3> HIDE DEF what
      <3>3. mailbox' = [urgent |-> u, bulk |-> mailbox.bulk]
        <4>0. mailbox' = [mailbox EXCEPT !.urgent[last] = v] BY <3>2
        <4> HIDE DEF v
        <4>1. mailbox' = [mailbox EXCEPT !.urgent = u] BY <4>0
        <4> HIDE DEF u
        <4> QED BY <4>1, <1>2
      <3> HIDE DEF u
      <3>4. Consistent([x EXCEPT !.sequence = n], [urgent |-> u, bulk |-> mailbox.bulk], owner, acted)
        <4>1. Coalesces(mailbox.urgent[last], call.method) BY <3>1 DEF what, Coalesces
        <4>2. u = [mailbox.urgent EXCEPT ![last] = Merged(mailbox.urgent[last], call.method, n, c)] BY DEF u
        <4> QED BY <4>1, <4>2, <2>00, MergedTyped
      <3> QED BY <3>3, <3>4, <2>0, <1>4 DEF ControlInv
    <2>2. CASE ~merges /\ full BY <2>00, SequenceNext, <2>0, <2>2, <1>4 DEF ControlInv
    <2>3. CASE ~merges /\ ~full /\ urgent
      <3> DEFINE u == Append(mailbox.urgent, e)
      <3>1. mailbox' = [mailbox EXCEPT !.urgent = u] BY <2>0, <2>3
      <3>2. /\ u \in Seq(Envelopes) /\ Len(u) = Len(mailbox.urgent) + 1 /\ Len(mailbox.urgent) \in Nat
            /\ u[Len(mailbox.urgent) + 1] = e /\ \A i \in 1 .. Len(mailbox.urgent) : u[i] = mailbox.urgent[i]
        BY <1>2, <2>00
      <3>3. \A i \in 1 .. Len(u) : u[i] = e \/ (i \in 1 .. Len(mailbox.urgent) /\ u[i] = mailbox.urgent[i])
        BY <3>2
      <3> HIDE DEF u
      <3>4. mailbox' = [urgent |-> u, bulk |-> mailbox.bulk] BY <3>1, <1>2
      <3>5. \A i \in 1 .. Len(mailbox.urgent) : /\ mailbox.urgent[i].callers # << >> /\ mailbox.urgent[i].seq >= 1
                                                /\ is_task_control(mailbox.urgent[i].method)
        BY Zenon DEF ControlInv, Consistent, Lanes, Lane
      <3>6. \A i \in 1 .. Len(mailbox.urgent) : mailbox.urgent[i].seq =< n
        BY Newest, ConsistentTypes, <1>2 DEF ControlInv, n
      <3>7. Lane(u, n) /\ \A i \in 1 .. Len(u) : is_task_control(u[i].method)
        <4>1. n =< n BY <1>2
        <4> QED BY <4>1, <1>2, <2>00, <2>3, <3>2, <3>3, <3>5, <3>6, Zenon DEF Lane
      <3>8. Renewed(u, mailbox.urgent, n) BY <2>00, <3>3, Zenon DEF Renewed
      <3>9. Consistent([x EXCEPT !.sequence = n], [urgent |-> u, bulk |-> mailbox.bulk], owner, acted)
        BY <2>00, <3>2, <3>7, <3>8, UrgentQueued
      <3> QED BY <3>4, <3>9, <2>0, <1>4 DEF ControlInv
    <2>4. CASE ~merges /\ ~full /\ ~urgent
      <3>1. mailbox' = [urgent |-> mailbox.urgent, bulk |-> Append(mailbox.bulk, e)] BY <2>0, <2>4, <1>2
      <3>2. Consistent([x EXCEPT !.sequence = n], [urgent |-> mailbox.urgent, bulk |-> Append(mailbox.bulk, e)], owner, acted)
        BY <2>00, <2>4, <1>9, BulkQueued
      <3> QED BY <3>1, <3>2, <2>0, <1>4 DEF ControlInv
    <2> QED BY <2>1, <2>2, <2>3, <2>4
  <1> QED BY <1>4, <1>7, <1>8, <1>9

-----------------------------------------------------------------------------
(* The steps of the owner.                                                *)

\* What the continuations of the owner must keep.
LEMMA ContinuesKept ==
  ASSUME NEW o, Continues(o), NEW o2, DOMAIN o2 = OwnerFields, o2.bulk = o.bulk,
         \/ o2.mutation = o.mutation \/ ~Is(o2.mutation)
         \/ "token" \in DOMAIN The(o2.mutation) /\ The(o2.mutation).token \in DOMAIN Calls,
         \/ o2.admission = o.admission \/ ~Is(o2.admission)
         \/ "token" \in DOMAIN The(o2.admission) /\ The(o2.admission).token \in DOMAIN Calls
  PROVE  Continues(o2)
  BY Zenon DEF Continues

\* An input for the engine is all that Begin changes.
LEMMA BeginFacts ==
  ASSUME NEW o, DOMAIN o = OwnerFields, NEW what, NEW g, NEW spec
  PROVE  LET o2 == Begin(o, what, g, spec)
         IN /\ DOMAIN o2 = OwnerFields /\ o2.bulk = o.bulk /\ o2.mutation = o.mutation /\ o2.admission = o.admission
            /\ o2.sources = o.sources
  <1> DEFINE i == Some([what |-> what, gid |-> g, spec |-> spec])
             o2 == [o EXCEPT !.input = i]
  <1>1. Begin(o, what, g, spec) = o2 BY DEF Begin
  <1> HIDE DEF i
  <1>2. /\ DOMAIN o2 = OwnerFields /\ o2.bulk = o.bulk /\ o2.mutation = o.mutation /\ o2.admission = o.admission
        /\ o2.sources = o.sources
    BY DEF OwnerFields
  <1> QED BY <1>1, <1>2

\* A step that leaves the lanes, the cells and the bulk control alone.
LEMMA QuietStep ==
  ASSUME ControlInv, UNCHANGED <<mailbox, order, acted>>, DOMAIN owner' = OwnerFields, owner'.bulk = owner.bulk,
         \/ owner'.mutation = owner.mutation \/ ~Is(owner'.mutation)
         \/ "token" \in DOMAIN The(owner'.mutation) /\ The(owner'.mutation).token \in DOMAIN Calls,
         \/ owner'.admission = owner.admission \/ ~Is(owner'.admission)
         \/ "token" \in DOMAIN The(owner'.admission) /\ The(owner'.admission).token \in DOMAIN Calls
  PROVE  ControlInv' /\ acted' = acted
  <1>1. Continues(owner) BY DEF ControlInv, Consistent
  <1> DEFINE o2 == owner'
  <1>2. Continues(o2) BY <1>1, ContinuesKept
  <1>3. o2.bulk = owner.bulk OBVIOUS
  <1> HIDE DEF o2
  <1>4. Consistent(order, mailbox, o2, acted) BY <1>2, <1>3, OwnerKept DEF ControlInv
  <1> QED BY <1>4 DEF o2, ControlInv

\* The owner is a record of its fields.
LEMMA OwnerDomain == ControlInv => DOMAIN owner = OwnerFields
  BY DEF ControlInv, Consistent, Continues

\* The steps that are none of the mailboxes and none of a bulk control.
LEMMA QuietSteps ==
  ASSUME ControlInv,
         \/ deliver \/ complete_source_replacements \/ try_admit_one \/ poll_event \/ poll_admission \/ poll_configuration
         \/ poll_session_export \/ observe_closing \/ engine_fails \/ admission_fails
  PROVE  ControlInv' /\ acted' = acted
  <1>0. DOMAIN owner = OwnerFields BY OwnerDomain
  <1>1. CASE deliver BY <1>1 DEF deliver, ControlInv
  <1>2. CASE complete_source_replacements
    <2>1. PICK g \in ReadySources(owner) :
            \/ owner' = [owner EXCEPT !.sources = Without(@, {g})]
            \/ owner' = [Begin(owner, "commit_sources", g, owner.sources[g].replacement) EXCEPT !.sources[g].committing = TRUE]
      BY <1>2, Zenon DEF complete_source_replacements
    <2>2. UNCHANGED <<mailbox, order, acted>> BY <1>2 DEF complete_source_replacements
    <2> DEFINE o2 == Begin(owner, "commit_sources", g, owner.sources[g].replacement)
               s1 == Without(owner.sources, {g})
               s2 == [owner.sources EXCEPT ![g].committing = TRUE]
    <2>3. DOMAIN o2 = OwnerFields /\ o2.bulk = owner.bulk /\ o2.mutation = owner.mutation /\ o2.admission = owner.admission
          /\ o2.sources = owner.sources
      BY <1>0, BeginFacts
    <2>4. owner' = [owner EXCEPT !.sources = s1] \/ owner' = [o2 EXCEPT !.sources = s2] BY <2>1, <2>3
    <2> HIDE DEF s1, s2, o2
    <2>5. /\ DOMAIN owner' = OwnerFields /\ owner'.bulk = owner.bulk /\ owner'.mutation = owner.mutation
          /\ owner'.admission = owner.admission
      BY <1>0, <2>3, <2>4 DEF OwnerFields
    <2> QED BY <2>2, <2>5, QuietStep
  <1>3. CASE try_admit_one \/ poll_event
    <2>1. PICK what, g, spec : owner' = Begin(owner, what, g, spec)
      BY <1>3, Zenon DEF try_admit_one, poll_event, AdmitInput
    <2>2. UNCHANGED <<mailbox, order, acted>> BY <1>3 DEF try_admit_one, poll_event
    <2> QED BY <1>0, <2>1, <2>2, BeginFacts, QuietStep
  <1>4. CASE poll_admission
    <2> DEFINE a == The(owner.admission)
    <2>0. Is(owner.admission) /\ UNCHANGED <<mailbox, order, acted>> BY <1>4 DEF poll_admission
    <2>1. "token" \in DOMAIN a /\ a.token \in DOMAIN Calls BY <2>0 DEF ControlInv, Consistent, Continues
    <2>2. CASE a.stage = "Installing"
      <3> DEFINE u == [kind |-> IF a.import THEN "Import" ELSE "Admission", token |-> a.token,
                       gid |-> New, readmit |-> ~a.import, replacement |-> None]
                 o2 == Begin(owner, "add", New, catalog[New])
      <3>1. owner' = [o2 EXCEPT !.admission = None, !.mutation = Some(u)] BY <1>4, <2>2 DEF poll_admission
      <3>2. "token" \in DOMAIN u /\ u.token = a.token OBVIOUS
      <3>3. DOMAIN o2 = OwnerFields /\ o2.bulk = owner.bulk BY <1>0, BeginFacts
      <3> HIDE DEF u, o2
      <3>4. /\ DOMAIN owner' = OwnerFields /\ owner'.bulk = owner.bulk /\ owner'.mutation = Some(u) /\ owner'.admission = None
        BY <3>1, <3>3 DEF OwnerFields
      <3>5. "token" \in DOMAIN The(owner'.mutation) /\ The(owner'.mutation).token \in DOMAIN Calls
        BY <3>2, <3>4, <2>1, OptionFacts, Zenon
      <3>6. ~Is(owner'.admission) BY <3>4 DEF Is
      <3> QED BY <3>4, <3>5, <3>6, <2>0, QuietStep
    <2>3. CASE a.stage # "Installing"
      <3> DEFINE u == [a EXCEPT !.stage = NextStage[a.stage]]
      <3>1. owner' = [owner EXCEPT !.admission = None] \/ owner' = [owner EXCEPT !.admission = Some(u)]
        BY <1>4, <2>3, Zenon DEF poll_admission
      <3>2. "token" \in DOMAIN u /\ u.token = a.token BY <2>1
      <3> HIDE DEF u
      <3>3. /\ DOMAIN owner' = OwnerFields /\ owner'.bulk = owner.bulk /\ owner'.mutation = owner.mutation
            /\ owner'.admission = None \/ owner'.admission = Some(u)
        BY <3>1, <1>0 DEF OwnerFields
      <3>4. ~Is(owner'.admission) \/ ("token" \in DOMAIN The(owner'.admission) /\ The(owner'.admission).token \in DOMAIN Calls)
        BY <3>2, <3>3, <2>1, OptionFacts, Zenon DEF Is
      <3> QED BY <3>3, <3>4, <2>0, QuietStep
    <2> QED BY <2>2, <2>3
  <1>5. CASE poll_configuration
    <2>1. PICK x : owner' = [owner EXCEPT !.configuration = None, !.generation = x]
      BY <1>5 DEF poll_configuration
    <2>2. /\ DOMAIN owner' = OwnerFields /\ owner'.bulk = owner.bulk /\ owner'.mutation = owner.mutation
          /\ owner'.admission = owner.admission
      BY <1>0, <2>1 DEF OwnerFields
    <2>3. UNCHANGED <<mailbox, order, acted>> BY <1>5 DEF poll_configuration
    <2> QED BY <2>2, <2>3, QuietStep
  <1>6. CASE poll_session_export BY <1>6, <1>0, QuietStep DEF poll_session_export, OwnerFields
  <1>7. CASE observe_closing BY <1>7, <1>0, QuietStep DEF observe_closing, OwnerFields
  <1>8. CASE engine_fails BY <1>8, <1>0, QuietStep DEF engine_fails, OwnerFields, Is
  <1>9. CASE admission_fails
    <2>1. PICK x, y : owner' = [owner EXCEPT !.admission = None, !.phase = x, !.closing = y]
      BY <1>9 DEF admission_fails
    <2>2. /\ DOMAIN owner' = OwnerFields /\ owner'.bulk = owner.bulk /\ owner'.mutation = owner.mutation
          /\ owner'.admission = None
      BY <1>0, <2>1 DEF OwnerFields
    <2>3. ~Is(owner'.admission) /\ UNCHANGED <<mailbox, order, acted>> BY <1>9, <2>2 DEF Is, admission_fails
    <2> QED BY <2>2, <2>3, QuietStep
  <1> QED BY <1>1, <1>2, <1>3, <1>4, <1>5, <1>6, <1>7, <1>8, <1>9

\* A queued command is answered with the failure, or all of them are dropped.
LEMMA LanesDropped ==
  ASSUME ControlInv, reject_queued \/ drain
  PROVE  ControlInv' /\ acted' = acted
  <1> DEFINE U == mailbox.urgent
             B == mailbox.bulk
  <1>0. /\ DOMAIN owner = OwnerFields /\ mailbox = [urgent |-> U, bulk |-> B] /\ U \in Seq(Envelopes) /\ B \in Seq(Envelopes)
    BY OwnerDomain, ConsistentTypes DEF ControlInv
  <1>1. UNCHANGED <<order, acted>> BY DEF reject_queued, drain
  <1>2. PICK x : owner' = owner \/ owner' = [owner EXCEPT !.phase = x] BY Zenon DEF reject_queued, drain
  <1>3. /\ DOMAIN owner' = OwnerFields /\ owner'.bulk = owner.bulk /\ owner'.mutation = owner.mutation
        /\ owner'.admission = owner.admission
    BY <1>0, <1>2 DEF OwnerFields
  <1>4. PICK u, b : /\ mailbox' = [urgent |-> u, bulk |-> b]
                    /\ u = U \/ u = << >> \/ (U # << >> /\ u = Tail(U))
                    /\ b = B \/ b = << >> \/ (B # << >> /\ b = Tail(B))
    <2>1. CASE drain BY <2>1 DEF drain
    <2>2. CASE reject_queued
      <3>1. \/ mailbox' = mailbox
            \/ U # << >> /\ mailbox' = [mailbox EXCEPT !.urgent = Tail(@)]
            \/ U = << >> /\ U \o B # << >> /\ mailbox' = [mailbox EXCEPT !.bulk = Tail(@)]
        BY <2>2, Zenon DEF reject_queued
      <3>2. CASE mailbox' = mailbox BY <3>2, <1>0
      <3>3. CASE U # << >> /\ mailbox' = [mailbox EXCEPT !.urgent = Tail(@)] BY <3>3, <1>0
      <3>4. CASE U = << >> /\ U \o B # << >> /\ mailbox' = [mailbox EXCEPT !.bulk = Tail(@)]
        <4>1. mailbox' = [urgent |-> U, bulk |-> Tail(B)] BY <3>4, <1>0
        <4>2. B # << >> BY <3>4, <1>0
        <4> QED BY <4>1, <4>2
      <3> QED BY <3>1, <3>2, <3>3, <3>4
    <2> QED BY <2>1, <2>2
  <1>5. Consistent(order, [urgent |-> u, bulk |-> b], owner, acted) BY <1>4, LanePopped DEF ControlInv
  <1>6. Continues(owner') BY <1>3, ContinuesKept DEF ControlInv, Consistent
  <1>7. Consistent(order, [urgent |-> u, bulk |-> b], owner', acted) BY <1>3, <1>5, <1>6, OwnerKept
  <1> QED BY <1>1, <1>4, <1>7 DEF ControlInv

\* The engine has carried out its input: a member of a bulk control is answered.
LEMMA InputFinished ==
  ASSUME ControlInv, finish_input
  PROVE  ControlInv' /\ acted' = acted
  <1> DEFINE in == The(owner.input)
             retired == IF in.what \in {"admit", "finished"} \/ Moved(in) \in {"stopped", "absent"} THEN {in.gid} ELSE {}
             done == [owner EXCEPT !.input = None, !.restarts = @ \ retired]
             m == The(owner.mutation)
             cat == IF Is(owner.mutation) THEN Published(catalog, m) ELSE catalog
             r == IF Is(owner.mutation) THEN Replied(done, waiting, m) ELSE [owner |-> done, waiting |-> waiting]
             p == publish_committed_sources(r.owner, cat, r.waiting)
             again == [m EXCEPT !.readmit = FALSE, !.replacement = None]
  <1>0. DOMAIN owner = OwnerFields /\ Continues(owner) BY OwnerDomain DEF ControlInv, Consistent
  <1>1. /\ DOMAIN done = OwnerFields /\ done.bulk = owner.bulk /\ done.mutation = owner.mutation
        /\ done.admission = owner.admission
    <2> HIDE DEF retired
    <2> QED BY <1>0 DEF OwnerFields
  <1>2. UNCHANGED <<mailbox, order, acted>> BY DEF finish_input
  <1>3. \/ /\ Is(owner.mutation)
           /\ owner' = Begin([done EXCEPT !.mutation = Some(again)], "admit", m.gid, cat[m.gid])
        \/ owner' = p.owner
    BY Zenon DEF finish_input
  <1>4. Is(owner.mutation) => "token" \in DOMAIN m /\ (Is(owner.bulk) \/ m.token \in DOMAIN Calls)
    BY <1>0 DEF Continues
  <1> HIDE DEF done, m, cat
  <1>5. CASE Is(owner.mutation) /\ owner' = Begin([done EXCEPT !.mutation = Some(again)], "admit", m.gid, cat[m.gid])
    <2> DEFINE o2 == [done EXCEPT !.mutation = Some(again)]
    <2>1. "token" \in DOMAIN again /\ again.token = m.token BY <1>4, <1>5
    <2> HIDE DEF again
    <2>2. /\ DOMAIN o2 = OwnerFields /\ o2.bulk = owner.bulk /\ o2.mutation = Some(again) /\ o2.admission = owner.admission
      BY <1>1 DEF OwnerFields
    <2> HIDE DEF o2
    <2>3. /\ DOMAIN owner' = OwnerFields /\ owner'.bulk = owner.bulk /\ owner'.mutation = Some(again)
          /\ owner'.admission = owner.admission
      <3>1. owner' = Begin(o2, "admit", m.gid, cat[m.gid]) BY <1>5 DEF o2
      <3> QED BY <3>1, <2>2, BeginFacts
    <2>4. Continues(owner') BY <2>1, <2>3, <1>0, <1>4, <1>5, OptionFacts, Zenon DEF Continues
    <2>5. Consistent(order, mailbox, owner', acted) BY <2>3, <2>4, OwnerKept DEF ControlInv
    <2> QED BY <2>5, <1>2 DEF ControlInv
  <1>6. CASE owner' = p.owner
    <2> DEFINE q == r.owner
    <2>1. PICK s : owner' = q \/ owner' = [q EXCEPT !.sources = s]
      <3> HIDE DEF r
      <3> QED BY <1>6 DEF publish_committed_sources
    <2>2. /\ DOMAIN q = OwnerFields /\ q.admission = owner.admission
          /\ \/ q.bulk = owner.bulk /\ q.mutation = owner.mutation
             \/ q.bulk = owner.bulk /\ ~Is(q.mutation)
             \/ /\ Is(owner.bulk) /\ q.bulk = Some([The(owner.bulk) EXCEPT !.member = Some("ok")])
                /\ ~Is(q.mutation)
      <3>1. CASE ~Is(owner.mutation)
        <4>1. q = done BY <3>1
        <4> HIDE DEF q
        <4> QED BY <4>1, <1>1
      <3>2. CASE Is(owner.mutation) /\ m.token \in DOMAIN Calls
        <4>1. q = [done EXCEPT !.mutation = None] BY <3>2 DEF Replied
        <4> HIDE DEF q
        <4> QED BY <4>1, <1>1 DEF OwnerFields, Is
      <3>3. CASE Is(owner.mutation) /\ m.token \notin DOMAIN Calls
        <4> DEFINE b2 == Some([The(owner.bulk) EXCEPT !.member = Some("ok")])
        <4>1. q = [done EXCEPT !.mutation = None, !.bulk = b2] BY <3>3, <1>1 DEF Replied
        <4> HIDE DEF q, b2
        <4>2. DOMAIN q = OwnerFields /\ q.admission = owner.admission /\ q.bulk = b2 /\ q.mutation = None
          BY <4>1, <1>1 DEF OwnerFields
        <4>3. Is(owner.bulk) /\ ~Is(q.mutation) BY <4>2, <3>3, <1>4 DEF Is
        <4> QED BY <4>2, <4>3 DEF b2
      <3> QED BY <3>1, <3>2, <3>3
    <2> HIDE DEF q
    <2>3. DOMAIN owner' = OwnerFields /\ owner'.bulk = q.bulk /\ owner'.mutation = q.mutation /\ owner'.admission = q.admission
      BY <2>1, <2>2 DEF OwnerFields
    <2>4. CASE q.bulk = owner.bulk /\ (q.mutation = owner.mutation \/ ~Is(q.mutation))
      BY <1>2, <2>2, <2>3, <2>4, QuietStep
    <2>5. CASE Is(owner.bulk) /\ q.bulk = Some([The(owner.bulk) EXCEPT !.member = Some("ok")]) /\ ~Is(q.mutation)
      <3> DEFINE b == The(owner.bulk)
                 b2 == [b EXCEPT !.member = Some("ok")]
      <3>1. b \in Bulks BY <2>5, ConsistentTypes DEF ControlInv
      <3>2. Some("ok") \in Seq({"ok", "err", "waiting"}) BY DEF Some
      <3> HIDE DEF b
      <3>3. b2 \in Bulks /\ b2.seq = b.seq /\ b2.targets = b.targets BY <3>1, <3>2 DEF Bulks
      <3>4. owner'.bulk = Some(b2) BY <2>3, <2>5 DEF b
      <3> HIDE DEF b2
      <3>5. Is(owner'.bulk) /\ The(owner'.bulk) = b2 BY <3>4, OptionFacts DEF Is
      <3>6. Continues(owner') BY <2>2, <2>3, <2>5, <3>3, <3>4, <1>0, Zenon DEF Continues
      <3>7. Consistent(order, mailbox, owner', acted)
        BY <2>5, <3>3, <3>5, <3>6, BulkAdvanced DEF ControlInv, b
      <3> QED BY <3>7, <1>2 DEF ControlInv
    <2> QED BY <2>2, <2>4, <2>5
  <1> QED BY <1>3, <1>5, <1>6

\* What a step may do to the tasks that were acted on.
OnlyEarlier == \A g \in Gids : acted'[g] # acted[g] /\ acted'[g].bulk => acted[g].seq < acted'[g].seq

\* The owner takes a command from a lane.
LEMMA Dispatched ==
  ASSUME ControlInv, dispatch
  PROVE  ControlInv' /\ OnlyEarlier
  <1> DEFINE U == mailbox.urgent
             B == mailbox.bulk
             env == IF TakesUrgent THEN Head(U) ELSE Head(B)
             rest == IF TakesUrgent THEN [mailbox EXCEPT !.urgent = Tail(@)] ELSE [mailbox EXCEPT !.bulk = Tail(@)]
             r == begin_call(owner, env)
             begun == marks(env.method) /\ ~Is(r.ready)
             act == IF begun THEN [acted EXCEPT ![env.gid] = [seq |-> env.seq, bulk |-> FALSE]] ELSE acted
  <1>0. /\ DOMAIN owner = OwnerFields /\ mailbox = [urgent |-> U, bulk |-> B] /\ U \in Seq(Envelopes) /\ B \in Seq(Envelopes)
        /\ Continues(owner) /\ order.sequence \in Nat
    BY OwnerDomain, ConsistentTypes DEF ControlInv, Consistent
  <1>1. Lanes(U, B, order.sequence) BY DEF ControlInv, Consistent
  <1>2. TakesUrgent \/ TakesBulk BY Zenon DEF dispatch
  <1>3. /\ mailbox' = rest /\ order' = prune(r.order, rest, r.owner) /\ acted' = act
        /\ owner' = [r.owner EXCEPT !.streak = IF TakesUrgent THEN (IF @ < UrgentBurst THEN @ + 1 ELSE @) ELSE 0]
    BY DEF dispatch
  <1>4. PICK x : owner' = [r.owner EXCEPT !.streak = x]
    <2> HIDE DEF r
    <2> QED BY <1>3
  <1>5. /\ env \in Envelopes /\ env.callers # << >> /\ env.method # "shutdown" /\ env.seq \in Nat
        /\ TakesUrgent => U # << >> /\ is_task_control(env.method) /\ env = U[1] /\ 1 \in 1 .. Len(U)
        /\ ~TakesUrgent => B # << >> /\ ~is_task_control(env.method) /\ env = B[1] /\ 1 \in 1 .. Len(B) /\ ~Is(owner.bulk)
    <2>0. \A e \in Envelopes : e.seq \in Nat BY DEF Envelopes
    <2>1. CASE TakesUrgent
      <3>1. U # << >> BY <2>1 DEF TakesUrgent
      <3>2. env = U[1] /\ 1 \in 1 .. Len(U) /\ U[1] \in Envelopes BY <1>0, <2>1, <3>1
      <3>3. U[1].callers # << >> /\ is_task_control(U[1].method) BY <3>2, <1>1, Zenon DEF Lanes, Lane
      <3> HIDE DEF env
      <3> QED BY <2>0, <2>1, <3>1, <3>2, <3>3 DEF is_task_control
    <2>2. CASE ~TakesUrgent
      <3>1. B # << >> /\ ~Is(owner.bulk) BY <2>2, <1>2 DEF TakesBulk
      <3>2. env = B[1] /\ 1 \in 1 .. Len(B) /\ B[1] \in Envelopes BY <1>0, <2>2, <3>1
      <3>3. B[1].callers # << >> /\ ~is_task_control(B[1].method) /\ B[1].method # "shutdown"
        BY <3>2, <1>1, Zenon DEF Lanes, Lane
      <3> HIDE DEF env
      <3> QED BY <2>0, <2>2, <3>1, <3>2, <3>3
    <2> QED BY <2>1, <2>2
  <1> HIDE DEF env
  <1>6. /\ Continues(r.owner)
        /\ \/ r.owner.bulk = owner.bulk
           \/ /\ is_bulk_control(env.method) /\ ~Is(owner.bulk) /\ Is(r.owner.bulk)
              /\ The(r.owner.bulk).seq = env.seq /\ The(r.owner.bulk).targets = env.captured
        /\ r.order = IF begun THEN mark(order, env.gid, env.seq) ELSE order
    BY <1>0, <1>5, BeginCallFacts
  <1> HIDE DEF r
  <1>7. Consistent(r.order, mailbox, owner, act)
    <2>1. CASE begun
      <3>1. TakesUrgent BY <2>1, <1>5 DEF marks
      <3>2. /\ env.seq =< order.sequence
            /\ \A j \in 1 .. Len(B) : env.seq # B[j].seq
        BY <3>1, <1>1, <1>5, Zenon DEF Lanes, Lane
      <3>3. Is(owner.bulk) => env.seq # The(owner.bulk).seq
        BY <3>1, <1>5, Zenon DEF ControlInv, Consistent, Follows
      <3>4. Consistent(mark(order, env.gid, env.seq), mailbox, owner, [acted EXCEPT ![env.gid] = [seq |-> env.seq, bulk |-> FALSE]])
        BY <3>2, <3>3, <1>5, Marked DEF ControlInv
      <3> HIDE DEF begun
      <3> QED BY <3>4, <2>1, <1>6
    <2>2. CASE ~begun
      <3> HIDE DEF begun
      <3> QED BY <2>2, <1>6 DEF ControlInv
    <2> QED BY <2>1, <2>2
  <1> HIDE DEF act
  <1>8. Consistent(r.order, rest, r.owner, act)
    <2>1. CASE TakesUrgent
      BY <2>1, <1>0, <1>5, <1>7, LanePopped, <1>6, OwnerKept DEF is_bulk_control, is_task_control
    <2>2. CASE ~TakesUrgent
      <3>1. rest = [urgent |-> U, bulk |-> Tail(B)] BY <2>2, <1>0
      <3>2. Head(B) = env BY <2>2 DEF env
      <3>3. CASE r.owner.bulk = owner.bulk
        <4>1. Consistent(r.order, [urgent |-> U, bulk |-> Tail(B)], owner, act)
          BY <1>5, <1>7, <2>2, LanePopped
        <4> QED BY <3>1, <3>3, <4>1, <1>6, OwnerKept
      <3>4. CASE r.owner.bulk # owner.bulk
        <4>1. Is(r.owner.bulk) /\ The(r.owner.bulk).seq = Head(B).seq /\ The(r.owner.bulk).targets = Head(B).captured
          BY <3>2, <3>4, <1>6
        <4>2. Consistent(r.order, [urgent |-> U, bulk |-> Tail(B)], r.owner, act)
          BY <4>1, <1>5, <1>6, <1>7, <2>2, BulkStarted
        <4> QED BY <3>1, <4>2
      <3> QED BY <3>3, <3>4
    <2> QED BY <2>1, <2>2
  <1> HIDE DEF rest
  <1>9. Consistent(prune(r.order, rest, r.owner), rest, r.owner, act) BY <1>8, Pruned
  <1>10. Continues(owner') /\ owner'.bulk = r.owner.bulk
    BY <1>6, <1>4, ContinuesKept DEF Continues, OwnerFields
  <1>11. Consistent(prune(r.order, rest, r.owner), rest, owner', act) BY <1>9, <1>10, OwnerKept
  <1>12. ControlInv' BY <1>3, <1>11 DEF ControlInv
  <1>13. OnlyEarlier
    <2> DEFINE v == [seq |-> env.seq, bulk |-> FALSE]
    <2>1. ~v.bulk OBVIOUS
    <2>2. acted \in Acts BY DEF ControlInv, Consistent
    <2> HIDE DEF v
    <2>3. \A g \in Gids : act[g] = acted[g] \/ act[g] = v BY <2>2 DEF act, Acts, v
    <2> QED BY <1>3, <2>1, <2>3, Zenon DEF OnlyEarlier
  <1> QED BY <1>12, <1>13

\* The next member of the bulk control under way, or its end.
LEMMA BulkPolled ==
  ASSUME ControlInv, poll_bulk_control
  PROVE  ControlInv' /\ OnlyEarlier
  <1> DEFINE b == The(owner.bulk)
             g == Head(b.targets)
             r == begin_task_control(owner, order, BulkMember, b.what, g, b.seq, FALSE)
             Adv(o, member) == [o EXCEPT !.bulk = Some([b EXCEPT !.targets = Tail(@), !.member = member]), !.streak = 0]
             Acting == /\ b.targets # << >> /\ ~Superseded(b) /\ ~r.err
                       /\ owner' = Adv(r.owner, Some("waiting"))
                       /\ acted' = [acted EXCEPT ![g] = [seq |-> b.seq, bulk |-> TRUE]]
  <1>0. /\ DOMAIN owner = OwnerFields /\ Continues(owner) /\ Is(owner.bulk) /\ b \in Bulks
        /\ b.seq \in Nat /\ b.targets \in Seq(Gids) /\ ~Is(owner.mutation)
    BY OwnerDomain, ConsistentTypes DEF ControlInv, Consistent, poll_bulk_control, Turn, Free
  <1>1. /\ order' = prune(order, mailbox, owner') /\ UNCHANGED mailbox
        /\ \/ UNCHANGED acted /\ owner' = [owner EXCEPT !.bulk = Some([b EXCEPT !.member = None])]
           \/ UNCHANGED acted /\ owner' = [owner EXCEPT !.bulk = None, !.streak = 0]
           \/ UNCHANGED acted /\ b.targets # << >> /\ owner' = Adv(owner, None)
           \/ Acting
    <2> HIDE DEF r
    <2>1. order' = prune(order, mailbox, owner') /\ UNCHANGED mailbox BY DEF poll_bulk_control
    <2>2. CASE b.member = Some("ok") BY OptionFacts, <2>2, <2>1 DEF poll_bulk_control
    <2>3. CASE b.member = Some("err") BY OptionFacts, <2>3, <2>1 DEF poll_bulk_control
    <2>4. CASE b.member # Some("ok") /\ b.member # Some("err") BY <2>4, <2>1 DEF poll_bulk_control, r
    <2> QED BY <2>2, <2>3, <2>4
  <1>2. ASSUME NEW act, Consistent(order, mailbox, owner, act), acted' = act,
               Continues(owner'),
               \/ ~Is(owner'.bulk)
               \/ /\ The(owner'.bulk).seq = b.seq
                  /\ The(owner'.bulk).targets = b.targets \/ (b.targets # << >> /\ The(owner'.bulk).targets = Tail(b.targets))
        PROVE  ControlInv'
    BY <1>0, <1>2, BulkAdvanced, Pruned, <1>1 DEF ControlInv
  <1> HIDE DEF b
  <1>4. ASSUME NEW o, DOMAIN o = OwnerFields, o.admission = owner.admission, NEW k \in Bulks, owner' = [o EXCEPT !.bulk = Some(k)]
                      \/ owner' = [o EXCEPT !.bulk = Some(k), !.streak = 0],
               o.mutation = owner.mutation \/ "token" \in DOMAIN The(o.mutation)
        PROVE  Continues(owner') /\ Is(owner'.bulk) /\ The(owner'.bulk) = k
    <2>1. DOMAIN owner' = OwnerFields /\ owner'.bulk = Some(k) /\ owner'.mutation = o.mutation /\ owner'.admission = owner.admission
      BY <1>4 DEF OwnerFields
    <2>2. Is(owner'.bulk) /\ The(owner'.bulk) = k BY <2>1, OptionFacts DEF Is
    <2>3. Continues(owner') BY <2>1, <2>2, <1>0, <1>4, Zenon DEF Continues
    <2> QED BY <2>2, <2>3
  <1>5. ASSUME UNCHANGED acted PROVE OnlyEarlier /\ Consistent(order, mailbox, owner, acted)
    BY <1>5 DEF OnlyEarlier, ControlInv
  <1>6. CASE UNCHANGED acted /\ owner' = [owner EXCEPT !.bulk = Some([b EXCEPT !.member = None])]
    <2> DEFINE k == [b EXCEPT !.member = None]
    <2>1. k \in Bulks /\ k.seq = b.seq /\ k.targets = b.targets
      <3>1. None \in Seq({"ok", "err", "waiting"}) BY DEF None
      <3> QED BY <1>0, <3>1 DEF Bulks
    <2> HIDE DEF k
    <2>2. owner' = [owner EXCEPT !.bulk = Some(k)] BY <1>6 DEF k
    <2>3. Continues(owner') /\ The(owner'.bulk) = k BY <2>1, <2>2, <1>0, <1>4
    <2> QED BY <2>1, <2>3, <1>2, <1>5, <1>6
  <1>7. CASE UNCHANGED acted /\ owner' = [owner EXCEPT !.bulk = None, !.streak = 0]
    BY <1>7, <1>0, <1>2, <1>5 DEF OwnerFields, Is, Continues
  <1>8. CASE UNCHANGED acted /\ b.targets # << >> /\ owner' = Adv(owner, None)
    <2> DEFINE k == [b EXCEPT !.targets = Tail(@), !.member = None]
    <2>1. k \in Bulks /\ k.seq = b.seq /\ k.targets = Tail(b.targets)
      <3>1. None \in Seq({"ok", "err", "waiting"}) BY DEF None
      <3>2. Tail(b.targets) \in Seq(Gids) BY <1>0, <1>8
      <3> QED BY <1>0, <3>1, <3>2 DEF Bulks
    <2> HIDE DEF k
    <2>2. owner' = [owner EXCEPT !.bulk = Some(k), !.streak = 0] BY <1>8 DEF k
    <2>3. Continues(owner') /\ The(owner'.bulk) = k BY <2>1, <2>2, <1>0, <1>4
    <2> QED BY <2>1, <2>3, <1>2, <1>5, <1>8
  <1>9. CASE Acting
    <2> DEFINE k == [b EXCEPT !.targets = Tail(@), !.member = Some("waiting")]
               act == [acted EXCEPT ![g] = [seq |-> b.seq, bulk |-> TRUE]]
    <2>1. k \in Bulks /\ k.seq = b.seq /\ k.targets = Tail(b.targets)
      <3>1. Some("waiting") \in Seq({"ok", "err", "waiting"}) BY DEF Some
      <3>2. Tail(b.targets) \in Seq(Gids) BY <1>0, <1>9
      <3> QED BY <1>0, <3>1, <3>2 DEF Bulks
    <2> HIDE DEF k
    <2>2. owner' = [r.owner EXCEPT !.bulk = Some(k), !.streak = 0] BY <1>9 DEF k
    <2>3. /\ DOMAIN r.owner = OwnerFields /\ r.owner.admission = owner.admission
          /\ "token" \in DOMAIN The(r.owner.mutation)
      <3> DEFINE spec == IF b.what = "approveHostKey" THEN [catalog[g] EXCEPT !.opts = @ \cup {BulkMember}] ELSE catalog[g]
                 o2 == Begin(owner, b.what, g, spec)
                 u == [kind |-> "Control", token |-> BulkMember, gid |-> g, readmit |-> b.what \in {"unpause", "approveHostKey"},
                       replacement |-> IF b.what = "approveHostKey" THEN Some([catalog[g] EXCEPT !.opts = @ \cup {BulkMember}]) ELSE None]
      <3>1. ~r.err BY <1>9
      <3>2. r = [owner |-> [o2 EXCEPT !.mutation = Some(u)], order |-> order, err |-> FALSE]
        BY <3>1 DEF begin_task_control
      <3>3. "token" \in DOMAIN u OBVIOUS
      <3>4. DOMAIN o2 = OwnerFields /\ o2.admission = owner.admission BY <1>0, BeginFacts
      <3> HIDE DEF r, o2, u
      <3>5. r.owner = [o2 EXCEPT !.mutation = Some(u)] BY <3>2
      <3>6. DOMAIN r.owner = OwnerFields /\ r.owner.admission = owner.admission /\ r.owner.mutation = Some(u)
        BY <3>4, <3>5 DEF OwnerFields
      <3> QED BY <3>3, <3>6, OptionFacts, Zenon DEF r
    <2>4. g \in Gids /\ g = b.targets[1] /\ 1 \in 1 .. Len(b.targets) BY <1>0, <1>9
    <2> HIDE DEF r, g
    <2>5. Continues(owner') /\ The(owner'.bulk) = k BY <2>1, <2>2, <2>3, <1>4
    <2>6. Consistent(order, mailbox, owner, act) /\ acted' = act BY <1>0, <1>9, BulkActed DEF ControlInv, b
    <2> HIDE DEF act
    <2>7. ControlInv' BY <2>1, <2>5, <2>6, <1>2, <1>9
    <2>8. ~(order.cells[g] > b.seq) BY <1>9 DEF Superseded, g
    <2>9. acted[g].seq < b.seq \/ acted[g] = [seq |-> b.seq, bulk |-> TRUE]
      BY <1>0, <2>4, <2>8, Zenon DEF ControlInv, Consistent, b, Held
    <2>10. acted \in Acts BY DEF ControlInv, Consistent
    <2>11. \A h \in Gids : act[h] = IF h = g THEN [seq |-> b.seq, bulk |-> TRUE] ELSE acted[h]
      BY <2>10 DEF act, Acts
    <2>12. \A h \in Gids : act[h] # acted[h] /\ act[h].bulk => acted[h].seq < act[h].seq
      <3> DEFINE v == [seq |-> b.seq, bulk |-> TRUE]
      <3>1. v.seq = b.seq OBVIOUS
      <3> HIDE DEF v
      <3>2. \A h \in Gids : act[h] = IF h = g THEN v ELSE acted[h] BY <2>11 DEF v
      <3>3. acted[g].seq < b.seq \/ acted[g] = v BY <2>9 DEF v
      <3> QED BY <3>1, <3>2, <3>3
    <2> QED BY <2>6, <2>7, <2>12 DEF OnlyEarlier
  <1> HIDE DEF Acting, Adv
  <1> QED BY <1>1, <1>6, <1>7, <1>8, <1>9, Zenon

-----------------------------------------------------------------------------
\* The invariant holds initially.
LEMMA InitControl == ControlInit => ControlInv
  <1> SUFFICES ASSUME ControlInit PROVE ControlInv OBVIOUS
  <1>1. /\ mailbox = [urgent |-> << >>, bulk |-> << >>] /\ order = [sequence |-> 0, cells |-> EmptyMap] /\ owner = NewOwner
        /\ acted = [g \in Gids |-> [seq |-> 0, bulk |-> FALSE]]
    BY DEF ControlInit
  <1>2. order \in [sequence : Nat, cells : Cells] /\ order.sequence = 0
    <2>1. EmptyMap \in [{} -> Nat] BY DEF EmptyMap
    <2>2. EmptyMap \in Cells BY <2>1 DEF Cells
    <2> QED BY <1>1, <2>2
  <1>3. mailbox \in [urgent : Seq(Envelopes), bulk : Seq(Envelopes)] /\ mailbox.urgent = << >> /\ mailbox.bulk = << >>
    BY <1>1
  <1>4. acted \in Acts /\ \A g \in Gids : acted[g].seq =< order.sequence BY <1>1, <1>2 DEF Acts
  <1>5. DOMAIN owner = OwnerFields /\ ~Is(owner.bulk) /\ ~Is(owner.mutation) /\ ~Is(owner.admission)
    BY <1>1 DEF NewOwner, OwnerFields, Is
  <1>6. Continues(owner) BY <1>5, Zenon DEF Continues
  <1>7. Lanes(mailbox.urgent, mailbox.bulk, order.sequence) BY <1>3 DEF Lanes, Lane
  <1>8. Follows(owner.bulk, mailbox.urgent, mailbox.bulk, order.sequence) BY <1>5 DEF Follows
  <1>9. \A j \in 1 .. Len(mailbox.bulk) : Held(order.cells, acted, mailbox.bulk[j].seq, mailbox.bulk[j].captured)
    BY <1>3
  <1> QED BY <1>2, <1>3, <1>4, <1>5, <1>6, <1>7, <1>8, <1>9, Zenon DEF ControlInv, Consistent

\* Every step keeps the invariant and lets later controls win.
LEMMA ControlNextInv ==
  ASSUME ControlInv, [ControlNext]_controlVars
  PROVE  ControlInv' /\ OnlyEarlier
  <1>1. ASSUME acted' = acted PROVE OnlyEarlier BY <1>1 DEF OnlyEarlier
  <1>2. CASE UNCHANGED controlVars BY <1>1, <1>2 DEF controlVars, ControlInv
  <1>3. ASSUME NEW c \in DOMAIN Calls, admit(c) PROVE ControlInv' /\ OnlyEarlier BY <1>1, <1>3, AdmitKeeps
  <1>4. CASE dispatch BY <1>4, Dispatched
  <1>5. CASE poll_bulk_control BY <1>5, BulkPolled
  <1>6. CASE finish_input BY <1>1, <1>6, InputFinished
  <1>7. CASE reject_queued \/ drain BY <1>1, <1>7, LanesDropped
  <1>8. CASE \/ deliver \/ complete_source_replacements \/ try_admit_one \/ poll_event \/ poll_admission \/ poll_configuration
             \/ poll_session_export \/ observe_closing \/ engine_fails \/ admission_fails
    BY <1>1, <1>8, QuietSteps
  <1> QED BY <1>2, <1>3, <1>4, <1>5, <1>6, <1>7, <1>8, Zenon DEF ControlNext, OwnerSteps

-----------------------------------------------------------------------------
(* Every accepted call is answered.                                        *)

\* A queue of commands that share no caller, and the callers it holds.
CallersOf(q) == UNION {ToSet(q[i].callers) : i \in 1 .. Len(q)}
Separate(q) ==
  /\ \A i \in 1 .. Len(q) :
       /\ q[i].callers \in Seq(DOMAIN Calls) /\ q[i].callers # << >>
       /\ \A j, k \in 1 .. Len(q[i].callers) : q[i].callers[j] = q[i].callers[k] => j = k
  /\ \A i, j \in 1 .. Len(q) : \A c \in ToSet(q[i].callers) : c \in ToSet(q[j].callers) => i = j
Waits == [token : DOMAIN Calls, result : {None, Some("ok"), Some("err"), Some("Busy")}, callers : Seq(DOMAIN Calls), urgent : BOOLEAN]

\* An accepted call that has no answer is in one place of one queue.
OnePlace(w, u, b, a) ==
  /\ w \in Seq(Waits) /\ Separate(w) /\ Separate(u) /\ Separate(b)
  /\ \A c \in CallersOf(w) : c \notin CallersOf(u) /\ c \notin CallersOf(b)
  /\ \A c \in CallersOf(u) : c \notin CallersOf(b)
  /\ DOMAIN a = DOMAIN Calls
  /\ \A c \in DOMAIN Calls : a[c] = Some("open") <=> c \in CallersOf(w) \cup CallersOf(u) \cup CallersOf(b)
Unmade(td, a) == td \subseteq DOMAIN Calls /\ \A c \in td : a[c] = None

\* The continuations of the owner that carry a token.
Kinds == {"mutation", "bulk", "admission", "configuration", "export"}
Carries(o, t) == {k \in Kinds : Is(o[k]) /\ The(o[k]).token = t}
Sourced(o, t) == {g \in DOMAIN o.sources : o.sources[g].token = t}
Never(o, t) == Carries(o, t) = {} /\ Sourced(o, t) = {}
Once(o, t) == \/ Sourced(o, t) = {} /\ \E k \in Kinds : Carries(o, t) = {k}
              \/ Carries(o, t) = {} /\ \E g \in DOMAIN o.sources : Sourced(o, t) = {g}
\* A dispatched command without a result is carried by one of them, one with a
\* result by none, and neither is one of the commands still to come.
Pledges(w, o, F) ==
  /\ \A i, j \in 1 .. Len(w) : w[i].token = w[j].token => i = j
  /\ \A i \in 1 .. Len(w) : IF Is(w[i].result) THEN Never(o, w[i].token) ELSE Once(o, w[i].token)
  /\ \A t \in F : Never(o, t) /\ \A i \in 1 .. Len(w) : w[i].token # t
Unspent(td, u, b) == td \cup CallersOf(u) \cup CallersOf(b)

\* A mutation is published by the input it came with; from the revalidation of
\* an admission on there is neither.
AdmissionStages == {"Preparing", "Ready", "Revalidating", "Finalizing", "Installing"}
Exclusive(o) ==
  /\ Is(o.mutation) => Is(o.input) /\ DOMAIN The(o.mutation) = {"kind", "token", "gid", "readmit", "replacement"}
  /\ Is(o.admission) => /\ DOMAIN The(o.admission) = {"stage", "token", "import"} /\ The(o.admission).stage \in AdmissionStages
                        /\ The(o.admission).stage \in {"Preparing", "Ready"} \/ (~Is(o.input) /\ ~Is(o.mutation))
  /\ \A g \in DOMAIN o.sources : DOMAIN o.sources[g] = {"token", "committing", "replacement"}

\* The catalogue and the database hold the same, and what an input will write
\* to the one is what its mutation or replacement will put into the other.
Shaped(s) == s = [srcs |-> s.srcs, opts |-> s.opts]
SameSpecs(o, cat, st) ==
  /\ cat = st /\ cat = [g \in Gids |-> cat[g]] /\ \A g \in Gids : Shaped(cat[g])
  /\ Is(o.export) => The(o.export).captured = The(o.export).stored
WritesOptions == {"patch", "restart", "approveHostKey"}
Planned(o, cat) ==
  /\ \A g \in DOMAIN o.sources :
       /\ g \in Gids => Shaped(o.sources[g].replacement) /\ o.sources[g].replacement.opts = cat[g].opts
       /\ o.sources[g].committing => Is(o.input) /\ The(o.input).what = "commit_sources" /\ The(o.input).gid = g
  /\ Is(o.input) =>
       LET in == The(o.input) IN
       /\ DOMAIN in = {"what", "gid", "spec"}
       /\ in.what \in WritesOptions =>
            /\ Is(o.mutation) /\ The(o.mutation).gid = in.gid /\ The(o.mutation).replacement = Some(in.spec)
            /\ in.gid \notin DOMAIN o.sources
            /\ in.gid \in Gids => Shaped(in.spec) /\ in.spec.srcs = cat[in.gid].srcs
       /\ in.what = "commit_sources" =>
            /\ ~Is(o.mutation) /\ in.gid \in DOMAIN o.sources /\ o.sources[in.gid].committing
            /\ in.spec = o.sources[in.gid].replacement
       /\ in.what \notin WritesOptions => (Is(o.mutation) => The(o.mutation).replacement = None)

AnswersInv ==
  /\ OnePlace(waiting, mailbox.urgent, mailbox.bulk, answers)
  /\ Unmade(todo, answers)
  /\ SameSpecs(owner, catalog, store)
  /\ owner.phase = "running" =>
       /\ Pledges(waiting, owner, Unspent(todo, mailbox.urgent, mailbox.bulk))
       /\ Exclusive(owner)
       /\ Planned(owner, catalog)

\* Who is in a queue.
LEMMA InQueue ==
  /\ \A q, c : c \in CallersOf(q) <=> \E i \in 1 .. Len(q) : c \in ToSet(q[i].callers)
  /\ \A S : \A s \in Seq(S) : \A c : c \in ToSet(s) <=> \E k \in 1 .. Len(s) : s[k] = c
  BY DEF CallersOf, ToSet

\* A queue whose commands are those of another, each at most once.
LEMMA QueueThinned ==
  ASSUME NEW q, NEW q2, Separate(q), NEW f,
         \A i \in 1 .. Len(q2) : f[i] \in 1 .. Len(q) /\ q2[i].callers = q[f[i]].callers,
         \A i, j \in 1 .. Len(q2) : f[i] = f[j] => i = j
  PROVE  /\ Separate(q2)
         /\ \A c : c \in CallersOf(q2) <=> \E i \in 1 .. Len(q2) : c \in ToSet(q[f[i]].callers)
  <1>0. \A i \in 1 .. Len(q2) :
          /\ q2[i].callers \in Seq(DOMAIN Calls) /\ q2[i].callers # << >>
          /\ \A j, k \in 1 .. Len(q2[i].callers) : q2[i].callers[j] = q2[i].callers[k] => j = k
    <2> SUFFICES ASSUME NEW i \in 1 .. Len(q2)
                 PROVE  /\ q2[i].callers \in Seq(DOMAIN Calls) /\ q2[i].callers # << >>
                        /\ \A j, k \in 1 .. Len(q2[i].callers) : q2[i].callers[j] = q2[i].callers[k] => j = k
      OBVIOUS
    <2> DEFINE s == q[f[i]].callers
    <2>1. s \in Seq(DOMAIN Calls) /\ s # << >> /\ \A j, k \in 1 .. Len(s) : s[j] = s[k] => j = k
      BY Zenon DEF Separate
    <2>2. q2[i].callers = s OBVIOUS
    <2> HIDE DEF s
    <2> QED BY <2>1, <2>2
  <1>1. Separate(q2) BY <1>0, Zenon DEF Separate
  <1> QED BY <1>1, InQueue, Zenon

\* The commands are the same.
LEMMA QueueKept ==
  ASSUME NEW q, NEW q2, Separate(q), Len(q2) = Len(q), \A i \in 1 .. Len(q) : q2[i].callers = q[i].callers
  PROVE  Separate(q2) /\ CallersOf(q2) = CallersOf(q)
  <1>1. Separate(q2) BY Zenon DEF Separate
  <1>2. \A i \in 1 .. Len(q) : ToSet(q2[i].callers) = ToSet(q[i].callers) OBVIOUS
  <1>3. \A c : c \in CallersOf(q2) <=> c \in CallersOf(q) BY <1>2, InQueue
  <1> QED BY <1>1, <1>3

\* Commands leave a queue with their callers: all but the one at i stay.
LEMMA QueueWithout ==
  ASSUME NEW E, NEW q \in Seq(E), Separate(q), NEW i \in 1 .. Len(q), NEW q2 \in Seq(E), Len(q2) = Len(q) - 1,
         \A j \in 1 .. Len(q2) : q2[j] = IF j < i THEN q[j] ELSE q[j + 1]
  PROVE  /\ Separate(q2)
         /\ \A c : c \in CallersOf(q2) <=> c \in CallersOf(q) /\ c \notin ToSet(q[i].callers)
         /\ \A c \in ToSet(q[i].callers) : c \in CallersOf(q)
  <1> DEFINE f == [j \in 1 .. Len(q2) |-> IF j < i THEN j ELSE j + 1]
  <1>0. Len(q) \in Nat /\ Len(q2) \in Nat OBVIOUS
  <1>1. \A j \in 1 .. Len(q2) : f[j] \in 1 .. Len(q) /\ f[j] # i /\ q2[j] = q[f[j]] BY <1>0
  <1>2. \A j, k \in 1 .. Len(q2) : f[j] = f[k] => j = k BY <1>0
  <1>3. \A k \in 1 .. Len(q) : k # i => \E j \in 1 .. Len(q2) : f[j] = k
    <2> SUFFICES ASSUME NEW k \in 1 .. Len(q), k # i PROVE \E j \in 1 .. Len(q2) : f[j] = k OBVIOUS
    <2>1. CASE k < i BY <2>1, <1>0
    <2>2. CASE k > i
      <3>1. k - 1 \in 1 .. Len(q2) /\ f[k - 1] = k BY <2>2, <1>0
      <3> QED BY <3>1
    <2> QED BY <2>1, <2>2
  <1> HIDE DEF f
  <1>4. /\ Separate(q2)
        /\ \A c : c \in CallersOf(q2) <=> \E j \in 1 .. Len(q2) : c \in ToSet(q[f[j]].callers)
    BY <1>1, <1>2, QueueThinned
  <1>5. \A k, j \in 1 .. Len(q) : \A c \in ToSet(q[k].callers) : c \in ToSet(q[j].callers) => k = j
    BY DEF Separate
  <1>6. \A c : c \in CallersOf(q2) <=> c \in CallersOf(q) /\ c \notin ToSet(q[i].callers)
    <2> SUFFICES ASSUME NEW c PROVE c \in CallersOf(q2) <=> c \in CallersOf(q) /\ c \notin ToSet(q[i].callers)
      OBVIOUS
    <2>1. ASSUME c \in CallersOf(q2) PROVE c \in CallersOf(q) /\ c \notin ToSet(q[i].callers)
      <3>1. PICK j \in 1 .. Len(q2) : c \in ToSet(q[f[j]].callers) BY <2>1, <1>4
      <3> QED BY <3>1, <1>1, <1>5, InQueue, Zenon
    <2>2. ASSUME c \in CallersOf(q), c \notin ToSet(q[i].callers) PROVE c \in CallersOf(q2)
      <3>1. PICK k \in 1 .. Len(q) : c \in ToSet(q[k].callers) BY <2>2, InQueue, Zenon
      <3>2. PICK j \in 1 .. Len(q2) : f[j] = k BY <2>2, <3>1, <1>3
      <3> QED BY <3>1, <3>2, <1>4
    <2> QED BY <2>1, <2>2
  <1> QED BY <1>4, <1>6, InQueue, Zenon

\* The first command leaves.
LEMMA QueueTail ==
  ASSUME NEW E, NEW q \in Seq(E), Separate(q), q # << >>
  PROVE  /\ Tail(q) \in Seq(E) /\ Separate(Tail(q)) /\ Head(q) = q[1] /\ 1 \in 1 .. Len(q) /\ q[1] \in E
         /\ \A c : c \in CallersOf(Tail(q)) <=> c \in CallersOf(q) /\ c \notin ToSet(Head(q).callers)
         /\ \A c \in ToSet(Head(q).callers) : c \in CallersOf(q)
         /\ Head(q).callers \in Seq(DOMAIN Calls) /\ Head(q).callers # << >>
         /\ \A j, k \in 1 .. Len(Head(q).callers) : Head(q).callers[j] = Head(q).callers[k] => j = k
  <1>1. /\ Tail(q) \in Seq(E) /\ Len(Tail(q)) = Len(q) - 1 /\ Head(q) = q[1] /\ 1 \in 1 .. Len(q) /\ q[1] \in E
        /\ \A j \in 1 .. Len(Tail(q)) : Tail(q)[j] = IF j < 1 THEN q[j] ELSE q[j + 1]
    OBVIOUS
  <1> DEFINE q2 == Tail(q)
  <1> HIDE DEF q2
  <1>2. /\ q2 \in Seq(E) /\ Len(q2) = Len(q) - 1 /\ \A j \in 1 .. Len(q2) : q2[j] = IF j < 1 THEN q[j] ELSE q[j + 1]
    BY <1>1 DEF q2
  <1>3. /\ Separate(q2)
        /\ \A c : c \in CallersOf(q2) <=> c \in CallersOf(q) /\ c \notin ToSet(q[1].callers)
        /\ \A c \in ToSet(q[1].callers) : c \in CallersOf(q)
    BY <1>1, <1>2, QueueWithout
  <1>4. /\ q[1].callers \in Seq(DOMAIN Calls) /\ q[1].callers # << >>
        /\ \A j, k \in 1 .. Len(q[1].callers) : q[1].callers[j] = q[1].callers[k] => j = k
    BY <1>1 DEF Separate
  <1> QED
    <2> DEFINE h == Head(q)
    <2>1. h = q[1] BY <1>1
    <2> HIDE DEF h
    <2>2. /\ q2 \in Seq(E) /\ Separate(q2) /\ h = q[1] /\ 1 \in 1 .. Len(q) /\ q[1] \in E
          /\ \A c : c \in CallersOf(q2) <=> c \in CallersOf(q) /\ c \notin ToSet(h.callers)
          /\ \A c \in ToSet(h.callers) : c \in CallersOf(q)
          /\ h.callers \in Seq(DOMAIN Calls) /\ h.callers # << >>
          /\ \A j, k \in 1 .. Len(h.callers) : h.callers[j] = h.callers[k] => j = k
      BY <1>4, <2>1, <1>3, <1>1, <1>2
    <2> QED BY <2>2 DEF q2, h

\* Any command leaves.
LEMMA QueueRemoved ==
  ASSUME NEW E, NEW q \in Seq(E), Separate(q), NEW i \in 1 .. Len(q)
  PROVE  /\ RemoveAt(q, i) \in Seq(E) /\ Separate(RemoveAt(q, i)) /\ Len(RemoveAt(q, i)) = Len(q) - 1
         /\ \A j \in 1 .. Len(RemoveAt(q, i)) : RemoveAt(q, i)[j] = IF j < i THEN q[j] ELSE q[j + 1]
         /\ \A c : c \in CallersOf(RemoveAt(q, i)) <=> c \in CallersOf(q) /\ c \notin ToSet(q[i].callers)
  <1> DEFINE a == SubSeq(q, 1, i - 1)
             b == SubSeq(q, i + 1, Len(q))
             q2 == RemoveAt(q, i)
  <1>0. Len(q) \in Nat /\ i \in Nat /\ 1 <= i /\ i <= Len(q) /\ \A j \in 1 .. Len(q) : q[j] \in E OBVIOUS
  <1>1. a \in Seq(E) /\ Len(a) = i - 1 /\ \A j \in 1 .. i - 1 : a[j] = q[j] BY <1>0
  <1>2. b \in Seq(E) /\ Len(b) = Len(q) - i /\ \A j \in 1 .. Len(q) - i : b[j] = q[j + i] BY <1>0
  <1> HIDE DEF a, b
  <1>3. q2 = a \o b BY DEF RemoveAt, a, b
  <1> HIDE DEF q2
  <1>4. q2 \in Seq(E) /\ Len(q2) = Len(q) - 1 BY <1>1, <1>2, <1>3, ConcatProperties, <1>0
  <1>5. \A j \in 1 .. Len(q2) : q2[j] = IF j < i THEN q[j] ELSE q[j + 1]
    <2> SUFFICES ASSUME NEW j \in 1 .. Len(q2) PROVE q2[j] = IF j < i THEN q[j] ELSE q[j + 1] OBVIOUS
    <2>1. CASE j < i BY <1>0, <1>1, <1>2, <1>3, <1>4, <2>1
    <2>2. CASE ~(j < i)
      <3>1. q2[j] = b[j - (i - 1)] /\ j - (i - 1) \in 1 .. Len(q) - i BY <1>0, <1>1, <1>2, <1>3, <1>4, <2>2
      <3>2. b[j - (i - 1)] = q[(j - (i - 1)) + i] /\ (j - (i - 1)) + i = j + 1 BY <1>0, <1>2, <3>1
      <3> QED BY <3>1, <3>2, <2>2
    <2> QED BY <2>1, <2>2
  <1>6. /\ Separate(q2)
        /\ \A c : c \in CallersOf(q2) <=> c \in CallersOf(q) /\ c \notin ToSet(q[i].callers)
    BY <1>4, <1>5, QueueWithout
  <1> QED BY <1>4, <1>5, <1>6 DEF q2

\* A command joins at the end, with callers of its own.
LEMMA QueueAppended ==
  ASSUME NEW E, NEW q \in Seq(E), Separate(q), NEW e \in E, e.callers \in Seq(DOMAIN Calls), e.callers # << >>,
         \A j, k \in 1 .. Len(e.callers) : e.callers[j] = e.callers[k] => j = k,
         \A c \in ToSet(e.callers) : c \notin CallersOf(q)
  PROVE  /\ Append(q, e) \in Seq(E) /\ Separate(Append(q, e)) /\ Len(Append(q, e)) = Len(q) + 1
         /\ Append(q, e)[Len(q) + 1] = e /\ \A j \in 1 .. Len(q) : Append(q, e)[j] = q[j]
         /\ \A c : c \in CallersOf(Append(q, e)) <=> c \in CallersOf(q) \/ c \in ToSet(e.callers)
  <1> DEFINE q2 == Append(q, e)
             n == Len(q) + 1
  <1>1. /\ q2 \in Seq(E) /\ Len(q2) = n /\ q2[n] = e /\ \A j \in 1 .. Len(q) : q2[j] = q[j] OBVIOUS
  <1>2. \A j \in 1 .. n : j \in 1 .. Len(q) \/ j = n OBVIOUS
  <1>3. n \in 1 .. n /\ \A j \in 1 .. Len(q) : j \in 1 .. n OBVIOUS
  <1> HIDE DEF q2, n
  <1>4. \A c : c \in CallersOf(q2) <=> c \in CallersOf(q) \/ c \in ToSet(e.callers)
    <2>1. \A c : c \in CallersOf(q2) => c \in CallersOf(q) \/ c \in ToSet(e.callers)
      <3> SUFFICES ASSUME NEW c \in CallersOf(q2) PROVE c \in CallersOf(q) \/ c \in ToSet(e.callers) OBVIOUS
      <3>1. PICK j \in 1 .. n : c \in ToSet(q2[j].callers) BY <1>1, InQueue
      <3>2. CASE j = n BY <3>1, <3>2, <1>1
      <3>3. CASE j \in 1 .. Len(q) BY <3>1, <3>3, <1>1, InQueue
      <3> QED BY <3>2, <3>3, <1>2
    <2>2. \A c : c \in ToSet(e.callers) => c \in CallersOf(q2) BY <1>1, <1>3, InQueue
    <2>3. \A c : c \in CallersOf(q) => c \in CallersOf(q2)
      <3> SUFFICES ASSUME NEW c \in CallersOf(q) PROVE c \in CallersOf(q2) OBVIOUS
      <3>1. PICK j \in 1 .. Len(q) : c \in ToSet(q[j].callers) BY InQueue, Zenon
      <3>2. c \in ToSet(q2[j].callers) /\ j \in 1 .. Len(q2) BY <3>1, <1>1, <1>3
      <3> QED BY <3>2, InQueue, Zenon
    <2> QED BY <2>1, <2>2, <2>3
  <1>5. \A j \in 1 .. Len(q) : \A c \in ToSet(q[j].callers) : c \notin ToSet(e.callers) BY InQueue, Zenon
  <1>6. \A j \in 1 .. Len(q2) :
          /\ q2[j].callers \in Seq(DOMAIN Calls) /\ q2[j].callers # << >>
          /\ \A i, k \in 1 .. Len(q2[j].callers) : q2[j].callers[i] = q2[j].callers[k] => i = k
    BY <1>1, <1>2, Zenon DEF Separate
  <1>7. \A i, j \in 1 .. Len(q2) : \A c \in ToSet(q2[i].callers) : c \in ToSet(q2[j].callers) => i = j
    BY <1>1, <1>2, <1>5, Zenon DEF Separate
  <1> QED BY <1>1, <1>4, <1>6, <1>7 DEF Separate, q2, n

\* The callers of one command change, to ones that no other has.
LEMMA QueueUpdated ==
  ASSUME NEW q, NEW q2, Separate(q), NEW i \in 1 .. Len(q), Len(q2) = Len(q),
         \A j \in 1 .. Len(q) : j # i => q2[j].callers = q[j].callers,
         q2[i].callers \in Seq(DOMAIN Calls), q2[i].callers # << >>,
         \A j, k \in 1 .. Len(q2[i].callers) : q2[i].callers[j] = q2[i].callers[k] => j = k,
         \A c \in ToSet(q2[i].callers) : c \in ToSet(q[i].callers) \/ c \notin CallersOf(q)
  PROVE  /\ Separate(q2)
         /\ \A c : c \in CallersOf(q2) <=> (c \in CallersOf(q) /\ c \notin ToSet(q[i].callers)) \/ c \in ToSet(q2[i].callers)
  <1>1. \A k, j \in 1 .. Len(q) : \A c \in ToSet(q[k].callers) : c \in ToSet(q[j].callers) => k = j
    BY DEF Separate
  <1>2. \A j \in 1 .. Len(q) : j # i => \A c \in ToSet(q2[j].callers) : c \notin ToSet(q2[i].callers)
    BY <1>1, InQueue, Zenon
  <1>3. \A c : c \in CallersOf(q2) <=> (c \in CallersOf(q) /\ c \notin ToSet(q[i].callers)) \/ c \in ToSet(q2[i].callers)
    <2>1. \A c : c \in CallersOf(q2) => (c \in CallersOf(q) /\ c \notin ToSet(q[i].callers)) \/ c \in ToSet(q2[i].callers)
      <3> SUFFICES ASSUME NEW c \in CallersOf(q2), c \notin ToSet(q2[i].callers)
                   PROVE  c \in CallersOf(q) /\ c \notin ToSet(q[i].callers)
        OBVIOUS
      <3>1. PICK j \in 1 .. Len(q) : c \in ToSet(q2[j].callers) BY InQueue, Zenon
      <3>2. j # i /\ c \in ToSet(q[j].callers) BY <3>1
      <3> QED BY <3>2, <1>1, InQueue, Zenon
    <2>2. \A c : c \in ToSet(q2[i].callers) => c \in CallersOf(q2) BY InQueue, Zenon
    <2>3. \A c : c \in CallersOf(q) /\ c \notin ToSet(q[i].callers) => c \in CallersOf(q2)
      <3> SUFFICES ASSUME NEW c \in CallersOf(q), c \notin ToSet(q[i].callers) PROVE c \in CallersOf(q2)
        OBVIOUS
      <3>1. PICK j \in 1 .. Len(q) : c \in ToSet(q[j].callers) BY InQueue, Zenon
      <3>2. c \in ToSet(q2[j].callers) /\ j \in 1 .. Len(q2) BY <3>1
      <3> QED BY <3>2, InQueue, Zenon
    <2> QED BY <2>1, <2>2, <2>3, Zenon
  <1>4. \A j \in 1 .. Len(q2) :
          /\ q2[j].callers \in Seq(DOMAIN Calls) /\ q2[j].callers # << >>
          /\ \A l, k \in 1 .. Len(q2[j].callers) : q2[j].callers[l] = q2[j].callers[k] => l = k
    BY Zenon DEF Separate
  <1>5. \A l, j \in 1 .. Len(q2) : \A c \in ToSet(q2[l].callers) : c \in ToSet(q2[j].callers) => l = j
    BY <1>1, <1>2, Zenon
  <1> QED BY <1>3, <1>4, <1>5 DEF Separate

\* A caller is in one command of a queue that holds it.
LEMMA QueueCount ==
  ASSUME NEW E, NEW q \in Seq(E), Separate(q), NEW c
  PROVE  Cardinality({i \in DOMAIN q : c \in ToSet(q[i].callers)}) = IF c \in CallersOf(q) THEN 1 ELSE 0
  <1> DEFINE H == {i \in DOMAIN q : c \in ToSet(q[i].callers)}
  <1>0. DOMAIN q = 1 .. Len(q) OBVIOUS
  <1>1. CASE c \in CallersOf(q)
    <2>1. PICK i \in 1 .. Len(q) : c \in ToSet(q[i].callers) BY <1>1, InQueue, Zenon
    <2>2. \A j \in 1 .. Len(q) : c \in ToSet(q[j].callers) => j = i BY <2>1, Zenon DEF Separate
    <2>3. H = {i} BY <1>0, <2>1, <2>2
    <2>4. Cardinality({i}) = 1 BY FS_Singleton
    <2> QED BY <1>1, <2>3, <2>4
  <1>2. CASE c \notin CallersOf(q)
    <2>1. H = {} BY <1>0, <1>2, InQueue, Zenon
    <2>2. Cardinality({}) = 0 BY FS_EmptySet
    <2> QED BY <1>2, <2>1, <2>2
  <1> QED BY <1>1, <1>2

\* The token of a command that waits is a call.
LEMMA WaitTokens ==
  ASSUME NEW w \in Seq(Waits)
  PROVE  \A i \in 1 .. Len(w) : w[i] \in Waits /\ w[i].token \in DOMAIN Calls /\ w[i].callers \in Seq(DOMAIN Calls)
  <1>1. \A i \in 1 .. Len(w) : w[i] \in Waits OBVIOUS
  <1>2. \A e \in Waits : e.token \in DOMAIN Calls /\ e.callers \in Seq(DOMAIN Calls) BY DEF Waits
  <1> QED BY <1>1, <1>2

\* What resolving a token changes: the result of its command.
Results == {"ok", "err", "Busy"}
\* The command of the token gets the result; no other command changes.
LEMMA ResolveFacts ==
  ASSUME NEW w \in Seq(Waits), NEW t, NEW r \in Results
  PROVE  /\ Resolve(w, t, r) \in Seq(Waits) /\ Len(Resolve(w, t, r)) = Len(w)
         /\ \A i \in 1 .. Len(w) : /\ Resolve(w, t, r)[i].token = w[i].token /\ Resolve(w, t, r)[i].callers = w[i].callers
                                   /\ Resolve(w, t, r)[i].result = IF w[i].token = t THEN Some(r) ELSE w[i].result
  <1> DEFINE x == Some(r)
             v(i) == [w[i] EXCEPT !.result = x]
             w2 == [i \in DOMAIN w |-> IF w[i].token = t THEN v(i) ELSE w[i]]
  <1>0. x \in {None, Some("ok"), Some("err"), Some("Busy")} BY DEF Results
  <1>1. DOMAIN w = 1 .. Len(w) /\ Len(w) \in Nat /\ \A i \in 1 .. Len(w) : w[i] \in Waits OBVIOUS
  <1> HIDE DEF x
  <1>2. \A i \in 1 .. Len(w) : v(i) \in Waits /\ v(i).token = w[i].token /\ v(i).callers = w[i].callers /\ v(i).result = x
    BY <1>0, <1>1 DEF Waits
  <1> HIDE DEF v
  <1>3. w2 \in [1 .. Len(w) -> Waits] BY <1>1, <1>2
  <1>4. w2 \in Seq(Waits) /\ Len(w2) = Len(w) BY <1>1, <1>3, SMT
  <1>5. \A i \in 1 .. Len(w) : w2[i] = IF w[i].token = t THEN v(i) ELSE w[i] BY <1>1
  <1>6. Resolve(w, t, r) = w2 BY DEF Resolve, v, x
  <1> HIDE DEF w2
  <1>7. \A i \in 1 .. Len(w) : /\ w2[i].token = w[i].token /\ w2[i].callers = w[i].callers
                               /\ w2[i].result = IF w[i].token = t THEN x ELSE w[i].result
    BY <1>2, <1>5
  <1> QED BY <1>4, <1>6, <1>7 DEF x

\* The commands that wait change, their callers do not.
LEMMA PlacesResolved ==
  ASSUME NEW w, NEW u, NEW b, NEW a, OnePlace(w, u, b, a), NEW t, NEW r \in Results
  PROVE  OnePlace(Resolve(w, t, r), u, b, a)
  <1>1. w \in Seq(Waits) /\ Separate(w) BY DEF OnePlace
  <1> DEFINE w2 == Resolve(w, t, r)
  <1>2. w2 \in Seq(Waits) /\ Len(w2) = Len(w) /\ \A i \in 1 .. Len(w) : w2[i].callers = w[i].callers
    BY <1>1, ResolveFacts
  <1> HIDE DEF w2
  <1>3. Separate(w2) /\ CallersOf(w2) = CallersOf(w) BY <1>1, <1>2, QueueKept
  <1>4. OnePlace(w2, u, b, a) BY <1>2, <1>3, Zenon DEF OnePlace
  <1> QED BY <1>4 DEF w2

\* Three queues that hold the open calls: the callers that change the queue
\* and those that get an answer.
LEMMA PlacesMoved ==
  ASSUME NEW w, NEW u, NEW b, NEW a, OnePlace(w, u, b, a),
         NEW w2 \in Seq(Waits), NEW u2, NEW b2, NEW a2, Separate(w2), Separate(u2), Separate(b2), DOMAIN a2 = DOMAIN Calls,
         \A c \in CallersOf(w2) : c \notin CallersOf(u2) /\ c \notin CallersOf(b2),
         \A c \in CallersOf(u2) : c \notin CallersOf(b2),
         \A c \in DOMAIN Calls :
           IF a2[c] = a[c]
           THEN c \in CallersOf(w2) \cup CallersOf(u2) \cup CallersOf(b2) <=> c \in CallersOf(w) \cup CallersOf(u) \cup CallersOf(b)
           ELSE a2[c] = Some("open") <=> c \in CallersOf(w2) \cup CallersOf(u2) \cup CallersOf(b2)
  PROVE  OnePlace(w2, u2, b2, a2)
  <1>1. \A c \in DOMAIN Calls : a2[c] = Some("open") <=> c \in CallersOf(w2) \cup CallersOf(u2) \cup CallersOf(b2)
    BY DEF OnePlace
  <1> QED BY <1>1, Zenon DEF OnePlace

\* The continuations of every call stay.
SameTokens(o, o2) == \A t \in DOMAIN Calls : Carries(o2, t) = Carries(o, t) /\ Sourced(o2, t) = Sourced(o, t)
\* The continuation of one call ends.
EndsOne(o, o2, t) ==
  /\ \A s \in DOMAIN Calls : s # t => Carries(o2, s) = Carries(o, s) /\ Sourced(o2, s) = Sourced(o, s)
  /\ \/ \E k \in Carries(o, t) : Carries(o2, t) = Carries(o, t) \ {k} /\ Sourced(o2, t) = Sourced(o, t)
     \/ \E g \in Sourced(o, t) : Sourced(o2, t) = Sourced(o, t) \ {g} /\ Carries(o2, t) = Carries(o, t)
\* One begins.
StartsOne(o, o2, t) ==
  /\ \A s \in DOMAIN Calls : s # t => Carries(o2, s) = Carries(o, s) /\ Sourced(o2, s) = Sourced(o, s)
  /\ Once(o2, t)

\* A token that is carried as before is carried once, or never, as before.
LEMMA OnceSame ==
  ASSUME NEW o, NEW o2, NEW t, Carries(o2, t) = Carries(o, t), Sourced(o2, t) = Sourced(o, t)
  PROVE  (Once(o, t) => Once(o2, t)) /\ (Never(o, t) => Never(o2, t))
  <1>1. ASSUME NEW g, Sourced(o, t) = {g} PROVE g \in DOMAIN o2.sources BY <1>1 DEF Sourced
  <1> QED BY <1>1, Zenon DEF Once, Never

\* Commands that wait, with the tokens they had.
LEMMA PledgesKept ==
  ASSUME NEW w \in Seq(Waits), NEW o, NEW F \in SUBSET (DOMAIN Calls), Pledges(w, o, F),
         NEW o2, SameTokens(o, o2), NEW F2 \in SUBSET F
  PROVE  Pledges(w, o2, F2)
  <1>1. \A t \in DOMAIN Calls : (Once(o, t) => Once(o2, t)) /\ (Never(o, t) => Never(o2, t))
    BY OnceSame DEF SameTokens
  <1>2. \A i \in 1 .. Len(w) : w[i].token \in DOMAIN Calls BY WaitTokens
  <1>3. \A i \in 1 .. Len(w) : IF Is(w[i].result) THEN Never(o2, w[i].token) ELSE Once(o2, w[i].token)
    BY <1>1, <1>2, Zenon DEF Pledges
  <1>4. \A t \in F2 : Never(o2, t) /\ \A i \in 1 .. Len(w) : w[i].token # t BY <1>1 DEF Pledges
  <1> QED BY <1>3, <1>4, Zenon DEF Pledges

\* A continuation that ends resolves the command it was for.
LEMMA PledgesResolved ==
  ASSUME NEW w \in Seq(Waits), NEW o, NEW F \in SUBSET (DOMAIN Calls), Pledges(w, o, F),
         NEW o2, NEW t, EndsOne(o, o2, t), NEW r \in Results
  PROVE  Pledges(Resolve(w, t, r), o2, F)
  <1> DEFINE w2 == Resolve(w, t, r)
  <1>1. /\ w2 \in Seq(Waits) /\ Len(w2) = Len(w)
        /\ \A i \in 1 .. Len(w) : w2[i].token = w[i].token /\ w2[i].result = IF w[i].token = t THEN Some(r) ELSE w[i].result
    BY ResolveFacts
  <1> HIDE DEF w2
  <1>2. \A i \in 1 .. Len(w) : w[i].token \in DOMAIN Calls BY WaitTokens
  <1>3. \A s \in DOMAIN Calls : s # t => (Once(o, s) => Once(o2, s)) /\ (Never(o, s) => Never(o2, s))
    BY OnceSame DEF EndsOne
  <1>4. ~Never(o, t) BY DEF EndsOne, Never
  <1>5. Once(o, t) => Never(o2, t)
    <2> SUFFICES ASSUME Once(o, t) PROVE Never(o2, t) OBVIOUS
    <2>1. CASE Sourced(o, t) = {} /\ \E k \in Kinds : Carries(o, t) = {k}
      <3>1. PICK k \in Kinds : Carries(o, t) = {k} BY <2>1
      <3>2. Carries(o2, t) = Carries(o, t) \ {k} /\ Sourced(o2, t) = {} BY <2>1, <3>1 DEF EndsOne
      <3> QED BY <3>1, <3>2 DEF Never
    <2>2. CASE Carries(o, t) = {} /\ \E g \in DOMAIN o.sources : Sourced(o, t) = {g}
      <3>1. PICK k \in DOMAIN o.sources : Sourced(o, t) = {k} BY <2>2
      <3>2. Sourced(o2, t) = Sourced(o, t) \ {k} /\ Carries(o2, t) = {} BY <2>2, <3>1 DEF EndsOne
      <3> QED BY <3>1, <3>2 DEF Never
    <2> QED BY <2>1, <2>2 DEF Once
  <1>6. \A i \in 1 .. Len(w2) : IF Is(w2[i].result) THEN Never(o2, w2[i].token) ELSE Once(o2, w2[i].token)
    BY <1>1, OptionFacts, <1>4, <1>5, <1>2, <1>3 DEF Pledges, Is
  <1>7. \A s \in F : Never(o2, s) /\ \A i \in 1 .. Len(w2) : w2[i].token # s BY <1>1, <1>3, <1>4 DEF Pledges
  <1>8. \A i, j \in 1 .. Len(w2) : w2[i].token = w2[j].token => i = j BY <1>1, Zenon DEF Pledges
  <1> QED BY <1>6, <1>7, <1>8 DEF Pledges, w2

\* Commands that leave, or lose callers, once they have a result.
LEMMA PledgesThinned ==
  ASSUME NEW w \in Seq(Waits), NEW o, NEW F, Pledges(w, o, F), NEW w2, NEW f,
         \A i \in 1 .. Len(w2) : f[i] \in 1 .. Len(w) /\ w2[i].token = w[f[i]].token /\ w2[i].result = w[f[i]].result,
         \A i, j \in 1 .. Len(w2) : f[i] = f[j] => i = j
  PROVE  Pledges(w2, o, F)
  <1>1. \A i, j \in 1 .. Len(w2) : w2[i].token = w2[j].token => i = j BY DEF Pledges
  <1>2. \A i \in 1 .. Len(w2) : IF Is(w2[i].result) THEN Never(o, w2[i].token) ELSE Once(o, w2[i].token)
    BY DEF Pledges
  <1>3. \A s \in F : Never(o, s) /\ \A i \in 1 .. Len(w2) : w2[i].token # s BY DEF Pledges
  <1> QED BY <1>1, <1>2, <1>3 DEF Pledges

\* A command is dispatched: its continuation begins, or it has its result at once.
LEMMA PledgesBegun ==
  ASSUME NEW w \in Seq(Waits), NEW o, NEW F \in SUBSET (DOMAIN Calls), Pledges(w, o, F), NEW e \in Waits, e.token \in F,
         NEW o2, NEW F2 \in SUBSET F, e.token \notin F2,
         IF Is(e.result) THEN SameTokens(o, o2) ELSE StartsOne(o, o2, e.token)
  PROVE  Pledges(Append(w, e), o2, F2)
  <1> DEFINE w2 == Append(w, e)
             n == Len(w) + 1
  <1>1. /\ Len(w2) = n /\ w2[n] = e /\ \A j \in 1 .. Len(w) : w2[j] = w[j] OBVIOUS
  <1>2. \A j \in 1 .. n : j \in 1 .. Len(w) \/ j = n OBVIOUS
  <1> HIDE DEF w2, n
  <1>3. \A i \in 1 .. Len(w) : w[i].token \in DOMAIN Calls /\ w[i].token # e.token BY WaitTokens DEF Pledges
  <1>4. \A s \in DOMAIN Calls : s # e.token => (Once(o, s) => Once(o2, s)) /\ (Never(o, s) => Never(o2, s))
    BY OnceSame DEF SameTokens, StartsOne
  <1>5. IF Is(e.result) THEN Never(o2, e.token) ELSE Once(o2, e.token)
    BY OnceSame DEF Pledges, SameTokens, StartsOne
  <1>6. \A i \in 1 .. Len(w2) : IF Is(w2[i].result) THEN Never(o2, w2[i].token) ELSE Once(o2, w2[i].token)
    BY <1>1, <1>5, <1>3, <1>4, <1>2 DEF Pledges
  <1>7. \A s \in F2 : Never(o2, s) /\ \A i \in 1 .. Len(w2) : w2[i].token # s BY <1>1, <1>2, <1>4 DEF Pledges
  <1>8. \A i, j \in 1 .. Len(w2) : w2[i].token = w2[j].token => i = j BY <1>1, <1>2, <1>3, Zenon DEF Pledges
  <1> QED BY <1>6, <1>7, <1>8 DEF Pledges, w2

\* The installation of an admitted task takes over from its admission.
LEMMA PledgesMoved ==
  ASSUME NEW w \in Seq(Waits), NEW o, NEW F \in SUBSET (DOMAIN Calls), Pledges(w, o, F), NEW o2, NEW t, NEW k, NEW k2 \in Kinds,
         \A s \in DOMAIN Calls : s # t => Carries(o2, s) = Carries(o, s) /\ Sourced(o2, s) = Sourced(o, s),
         k \in Carries(o, t), Carries(o2, t) = (Carries(o, t) \ {k}) \cup {k2}, Sourced(o2, t) = Sourced(o, t)
  PROVE  Pledges(w, o2, F)
  <1>1. Once(o, t) => Once(o2, t) BY DEF Once
  <1>2. ~Never(o, t) BY DEF Never
  <1>3. \A s \in DOMAIN Calls : (Once(o, s) => Once(o2, s)) /\ (Never(o, s) => Never(o2, s))
    BY <1>1, <1>2, OnceSame
  <1>4. \A i \in 1 .. Len(w) : w[i].token \in DOMAIN Calls BY WaitTokens
  <1> QED BY <1>3, <1>4, Zenon DEF Pledges

-----------------------------------------------------------------------------
(* What the fields of the owner carry.                                     *)

\* A continuation carries the tokens it carried.
KeepsToken(x, x2) == \A t \in DOMAIN Calls : (Is(x2) /\ The(x2).token = t) <=> (Is(x) /\ The(x).token = t)

\* Sources with the same tokens.
SameSources(s, s2) == DOMAIN s2 = DOMAIN s /\ \A g \in DOMAIN s : s2[g].token = s[g].token

\* No continuation changes its caller.
LEMMA FieldsKeep ==
  ASSUME NEW o, NEW o2, \A k \in Kinds : KeepsToken(o[k], o2[k]), SameSources(o.sources, o2.sources)
  PROVE  SameTokens(o, o2)
  <1> SUFFICES ASSUME NEW t \in DOMAIN Calls PROVE Carries(o2, t) = Carries(o, t) /\ Sourced(o2, t) = Sourced(o, t)
    BY DEF SameTokens
  <1>1. Carries(o2, t) = Carries(o, t) BY DEF Carries, KeepsToken
  <1>2. Sourced(o2, t) = Sourced(o, t) BY DEF Sourced, SameSources
  <1> QED BY <1>1, <1>2

\* A continuation is done.
LEMMA FieldEnds ==
  ASSUME NEW o, NEW o2, NEW k \in Kinds, Is(o[k]), ~Is(o2[k]), \A j \in Kinds : j # k => o2[j] = o[j], o2.sources = o.sources
  PROVE  EndsOne(o, o2, The(o[k]).token)
  <1> DEFINE t == The(o[k]).token
  <1>1. \A s : Sourced(o2, s) = Sourced(o, s) BY DEF Sourced
  <1>2. \A s : s # t => Carries(o2, s) = Carries(o, s) BY DEF Carries
  <1>3. k \in Carries(o, t) /\ Carries(o2, t) = Carries(o, t) \ {k} BY DEF Carries
  <1> QED BY <1>1, <1>2, <1>3, Zenon DEF EndsOne

\* A replacement is done.
LEMMA SourceEnds ==
  ASSUME NEW o, NEW o2, NEW g \in DOMAIN o.sources, \A j \in Kinds : o2[j] = o[j],
         DOMAIN o2.sources = DOMAIN o.sources \ {g}, \A h \in DOMAIN o2.sources : o2.sources[h].token = o.sources[h].token
  PROVE  EndsOne(o, o2, o.sources[g].token)
  <1> DEFINE t == o.sources[g].token
  <1>1. \A s : Carries(o2, s) = Carries(o, s) BY DEF Carries
  <1>2. \A s : s # t => Sourced(o2, s) = Sourced(o, s) BY DEF Sourced
  <1>3. g \in Sourced(o, t) /\ Sourced(o2, t) = Sourced(o, t) \ {g} BY DEF Sourced
  <1> QED BY <1>1, <1>2, <1>3, Zenon DEF EndsOne

\* A continuation begins.
LEMMA FieldStarts ==
  ASSUME NEW o, NEW o2, NEW t, Never(o, t), NEW k \in Kinds, ~Is(o[k]), Is(o2[k]), The(o2[k]).token = t,
         \A j \in Kinds : j # k => o2[j] = o[j], o2.sources = o.sources
  PROVE  StartsOne(o, o2, t)
  <1>1. \A s : Sourced(o2, s) = Sourced(o, s) BY DEF Sourced
  <1>2. \A s : s # t => Carries(o2, s) = Carries(o, s) BY DEF Carries
  <1>3. Carries(o2, t) = {k} /\ Sourced(o2, t) = {} BY <1>1 DEF Never, Carries
  <1> QED BY <1>1, <1>2, <1>3, Zenon DEF StartsOne, Once

\* A replacement begins.
LEMMA SourceStarts ==
  ASSUME NEW o, NEW o2, NEW t, Never(o, t), NEW g, g \notin DOMAIN o.sources, \A j \in Kinds : o2[j] = o[j],
         DOMAIN o2.sources = DOMAIN o.sources \cup {g}, o2.sources[g].token = t,
         \A h \in DOMAIN o.sources : o2.sources[h] = o.sources[h]
  PROVE  StartsOne(o, o2, t)
  <1>1. \A s : Carries(o2, s) = Carries(o, s) BY DEF Carries
  <1>2. \A s : s # t => Sourced(o2, s) = Sourced(o, s) BY DEF Sourced
  <1>3. Carries(o2, t) = {} /\ Sourced(o2, t) = {g} /\ g \in DOMAIN o2.sources BY <1>1 DEF Never, Sourced
  <1> QED BY <1>1, <1>2, <1>3, Zenon DEF StartsOne, Once

-----------------------------------------------------------------------------
(* The input, its mutation and what they will write.                       *)

\* Fields that nothing here depends on change.
LEMMA WorkKept ==
  ASSUME NEW o, NEW o2, NEW cat, Exclusive(o), Planned(o, cat), o2.input = o.input, o2.mutation = o.mutation,
         o2.sources = o.sources,
         \/ o2.admission = o.admission \/ ~Is(o2.admission)
         \/ /\ DOMAIN The(o2.admission) = {"stage", "token", "import"} /\ The(o2.admission).stage \in AdmissionStages
            /\ The(o2.admission).stage \in {"Preparing", "Ready"} \/ (~Is(o2.input) /\ ~Is(o2.mutation))
  PROVE  Exclusive(o2) /\ Planned(o2, cat)
  <1>1. Exclusive(o2) BY Zenon DEF Exclusive
  <1>2. Planned(o2, cat) BY Zenon DEF Planned
  <1> QED BY <1>1, <1>2

\* The engine is free for an input.
Ready(o) == ~Is(o.input) /\ ~Is(o.mutation) /\ (Is(o.admission) => The(o.admission).stage \in {"Preparing", "Ready"})
MutationFields == {"kind", "token", "gid", "readmit", "replacement"}

\* An input that writes nothing of a specification.
LEMMA WorkBegun ==
  ASSUME NEW o, NEW o2, NEW cat, Exclusive(o), Planned(o, cat), ~Is(o.input), ~Is(o.mutation),
         Is(o2.input), NEW in, The(o2.input) = in, DOMAIN in = {"what", "gid", "spec"},
         in.what \notin WritesOptions, in.what # "commit_sources",
         ~Is(o2.mutation) \/ (DOMAIN The(o2.mutation) = MutationFields /\ The(o2.mutation).replacement = None),
         ~Is(o2.admission) \/ (o2.admission = o.admission /\ The(o.admission).stage \in {"Preparing", "Ready"}),
         o2.sources = o.sources
  PROVE  Exclusive(o2) /\ Planned(o2, cat)
  <1>1. Exclusive(o2) BY Zenon DEF Exclusive, MutationFields
  <1>2. \A g \in DOMAIN o.sources : ~o.sources[g].committing BY DEF Planned
  <1>3. \A g \in DOMAIN o.sources : g \in Gids => Shaped(o.sources[g].replacement) /\ o.sources[g].replacement.opts = cat[g].opts
    BY DEF Planned
  <1>4. Planned(o2, cat) BY <1>2, <1>3, Zenon DEF Planned
  <1> QED BY <1>1, <1>4

\* An input that writes the options of a task that no replacement is under way for.
LEMMA WorkOnOptions ==
  ASSUME NEW o, NEW o2, NEW cat, Exclusive(o), Planned(o, cat), Ready(o),
         Is(o2.input), NEW in, The(o2.input) = in, DOMAIN in = {"what", "gid", "spec"}, in.what \in WritesOptions,
         Is(o2.mutation), NEW m, The(o2.mutation) = m, DOMAIN m = MutationFields, m.gid = in.gid, m.replacement = Some(in.spec),
         in.gid \notin DOMAIN o.sources, in.gid \in Gids => Shaped(in.spec) /\ in.spec.srcs = cat[in.gid].srcs,
         o2.admission = o.admission, o2.sources = o.sources
  PROVE  Exclusive(o2) /\ Planned(o2, cat)
  <1>0. in.what # "commit_sources" BY DEF WritesOptions
  <1>1. Exclusive(o2) BY Zenon DEF Exclusive, MutationFields, Ready
  <1>2. \A g \in DOMAIN o.sources : ~o.sources[g].committing BY DEF Planned, Ready
  <1>3. \A g \in DOMAIN o.sources : g \in Gids => Shaped(o.sources[g].replacement) /\ o.sources[g].replacement.opts = cat[g].opts
    BY DEF Planned
  <1>4. Planned(o2, cat) BY <1>0, <1>2, <1>3, Zenon DEF Planned
  <1> QED BY <1>1, <1>4

\* A replacement of the sources is asked for.
LEMMA WorkOnSources ==
  ASSUME NEW o, NEW o2, NEW cat, Exclusive(o), Planned(o, cat), Ready(o), NEW g, g \notin DOMAIN o.sources,
         Is(o2.input), NEW in, The(o2.input) = in, DOMAIN in = {"what", "gid", "spec"}, in.what = "begin_sources",
         o2.mutation = o.mutation, o2.admission = o.admission,
         DOMAIN o2.sources = DOMAIN o.sources \cup {g}, \A h \in DOMAIN o.sources : o2.sources[h] = o.sources[h],
         NEW x, o2.sources[g] = x, DOMAIN x = {"token", "committing", "replacement"}, ~x.committing,
         g \in Gids => Shaped(x.replacement) /\ x.replacement.opts = cat[g].opts
  PROVE  Exclusive(o2) /\ Planned(o2, cat)
  <1>0. in.what # "commit_sources" /\ in.what \notin WritesOptions BY DEF WritesOptions
  <1>1. \A h \in DOMAIN o2.sources : DOMAIN o2.sources[h] = {"token", "committing", "replacement"}
    BY DEF Exclusive
  <1>2. Exclusive(o2) BY <1>1, Zenon DEF Exclusive, Ready
  <1>3. \A h \in DOMAIN o2.sources : ~o2.sources[h].committing BY DEF Planned, Ready
  <1>4. \A h \in DOMAIN o2.sources : h \in Gids => Shaped(o2.sources[h].replacement) /\ o2.sources[h].replacement.opts = cat[h].opts
    BY Zenon DEF Planned
  <1>5. Planned(o2, cat) BY <1>0, <1>3, <1>4, Zenon DEF Planned, Ready
  <1> QED BY <1>2, <1>5

\* A replacement is committed.
LEMMA WorkCommits ==
  ASSUME NEW o, NEW o2, NEW cat, Exclusive(o), Planned(o, cat), Ready(o), NEW g \in DOMAIN o.sources,
         Is(o2.input), NEW in, The(o2.input) = in, DOMAIN in = {"what", "gid", "spec"}, in.what = "commit_sources",
         in.gid = g, in.spec = o.sources[g].replacement,
         o2.mutation = o.mutation, o2.admission = o.admission,
         DOMAIN o2.sources = DOMAIN o.sources, \A h \in DOMAIN o.sources : h # g => o2.sources[h] = o.sources[h],
         NEW x, o2.sources[g] = x, DOMAIN x = {"token", "committing", "replacement"}, x.committing,
         x.replacement = o.sources[g].replacement
  PROVE  Exclusive(o2) /\ Planned(o2, cat)
  <1>0. in.what \notin WritesOptions BY DEF WritesOptions
  <1>1. \A h \in DOMAIN o2.sources : DOMAIN o2.sources[h] = {"token", "committing", "replacement"}
    BY DEF Exclusive
  <1>2. Exclusive(o2) BY <1>1, Zenon DEF Exclusive, Ready
  <1>3. \A h \in DOMAIN o2.sources : h # g => ~o2.sources[h].committing BY DEF Planned, Ready
  <1>4. \A h \in DOMAIN o2.sources : h \in Gids => Shaped(o2.sources[h].replacement) /\ o2.sources[h].replacement.opts = cat[h].opts
    BY DEF Planned
  <1>5. Planned(o2, cat) BY <1>0, <1>3, <1>4, Zenon DEF Planned, Ready
  <1> QED BY <1>2, <1>5

-----------------------------------------------------------------------------
(* The steps of the owner.                                                 *)

\* The commands still to come are calls, and they are fewer when queues are.
LEMMA UnspentCalls ==
  ASSUME NEW td, NEW w, NEW u, NEW b, NEW a, OnePlace(w, u, b, a), Unmade(td, a)
  PROVE  /\ Unspent(td, u, b) \in SUBSET (DOMAIN Calls)
         /\ \A c \in CallersOf(w) \cup CallersOf(u) \cup CallersOf(b) : c \in DOMAIN Calls /\ a[c] = Some("open") /\ c \notin td
  <1>1. \A q : Separate(q) => CallersOf(q) \subseteq DOMAIN Calls
    <2> SUFFICES ASSUME NEW q, Separate(q), NEW c \in CallersOf(q) PROVE c \in DOMAIN Calls OBVIOUS
    <2>1. PICK i \in 1 .. Len(q) : c \in ToSet(q[i].callers) BY InQueue, Zenon
    <2> DEFINE s == q[i].callers
    <2>2. s \in Seq(DOMAIN Calls) BY DEF Separate
    <2> HIDE DEF s
    <2>3. \E k \in 1 .. Len(s) : s[k] = c BY <2>1, <2>2, InQueue DEF s
    <2> QED BY <2>2, <2>3
  <1>2. CallersOf(w) \subseteq DOMAIN Calls /\ CallersOf(u) \subseteq DOMAIN Calls /\ CallersOf(b) \subseteq DOMAIN Calls /\ td \subseteq DOMAIN Calls
    BY <1>1 DEF OnePlace, Unmade
  <1>3. \A c \in CallersOf(w) \cup CallersOf(u) \cup CallersOf(b) : c \in DOMAIN Calls /\ a[c] = Some("open") /\ c \notin td
    BY <1>2, OptionFacts DEF OnePlace, Unmade
  <1> QED BY <1>2, <1>3 DEF Unspent

\* What a step relies on while the owner runs.
LEMMA AnswersFacts ==
  ASSUME ControlInv, AnswersInv
  PROVE  LET F == Unspent(todo, mailbox.urgent, mailbox.bulk)
         IN /\ F \in SUBSET (DOMAIN Calls) /\ waiting \in Seq(Waits)
            /\ OnePlace(waiting, mailbox.urgent, mailbox.bulk, answers) /\ Unmade(todo, answers)
            /\ SameSpecs(owner, catalog, store) /\ DOMAIN owner = OwnerFields
            /\ owner.phase = "running" => Pledges(waiting, owner, F) /\ Exclusive(owner) /\ Planned(owner, catalog)
  BY UnspentCalls, OwnerDomain DEF AnswersInv, OnePlace

\* A step of the owner that takes no command and publishes nothing.
LEMMA QuietAnswers ==
  ASSUME AnswersInv, UNCHANGED <<todo, mailbox, answers, catalog, store>>,
         OnePlace(waiting', mailbox.urgent, mailbox.bulk, answers),
         owner'.export = owner.export \/ ~Is(owner'.export),
         owner'.phase # "running" \/ (/\ Pledges(waiting', owner', Unspent(todo, mailbox.urgent, mailbox.bulk))
                                      /\ Exclusive(owner') /\ Planned(owner', catalog))
  PROVE  AnswersInv'
  <1>1. SameSpecs(owner', catalog, store) BY Zenon DEF AnswersInv, SameSpecs
  <1> QED BY <1>1, Zenon DEF AnswersInv

\* The engine is free when the owner takes a turn.
LEMMA TurnReady == Turn => Ready(owner) /\ owner.phase = "running"
  BY DEF Turn, Free, engine_idle, fenced, Ready

\* What an input for the engine leaves alone.
LEMMA BegunFields ==
  ASSUME NEW o, DOMAIN o = OwnerFields, NEW what, NEW g, NEW spec
  PROVE  LET o2 == Begin(o, what, g, spec)
             in == [what |-> what, gid |-> g, spec |-> spec]
         IN /\ o2.input = Some(in) /\ Is(o2.input) /\ The(o2.input) = in /\ DOMAIN in = {"what", "gid", "spec"}
            /\ DOMAIN o2 = OwnerFields /\ \A f \in OwnerFields : f # "input" => o2[f] = o[f]
  <1> DEFINE in == [what |-> what, gid |-> g, spec |-> spec]
             o2 == Begin(o, what, g, spec)
  <1>1. o2 = [o EXCEPT !.input = Some(in)] BY DEF Begin
  <1>2. DOMAIN in = {"what", "gid", "spec"} OBVIOUS
  <1> HIDE DEF in, o2
  <1>3. o2.input = Some(in) /\ DOMAIN o2 = OwnerFields /\ \A f \in OwnerFields : f # "input" => o2[f] = o[f]
    BY <1>1 DEF OwnerFields
  <1>4. Is(o2.input) /\ The(o2.input) = in BY <1>3, OptionFacts DEF Is
  <1> QED BY <1>2, <1>3, <1>4 DEF in, o2

\* The same continuations.
LEMMA FieldsSame ==
  ASSUME NEW o, NEW o2, \A k \in Kinds : o2[k] = o[k], o2.sources = o.sources
  PROVE  SameTokens(o, o2)
  <1>1. \A k \in Kinds : KeepsToken(o[k], o2[k]) BY DEF KeepsToken
  <1> QED BY <1>1, FieldsKeep DEF SameSources

\* An admitted task, or an event of a worker, is an input that nobody waits for.
LEMMA InputAnswers ==
  ASSUME ControlInv, AnswersInv, try_admit_one \/ poll_event
  PROVE  AnswersInv'
  <1> DEFINE F == Unspent(todo, mailbox.urgent, mailbox.bulk)
  <1>0. PICK what \in {"admit", "drained", "finished"} : \E g, spec : owner' = Begin(owner, what, g, spec)
    BY Zenon DEF try_admit_one, poll_event, AdmitInput
  <1>1. PICK g, spec : owner' = Begin(owner, what, g, spec) BY <1>0, Zenon
  <1>2. UNCHANGED <<todo, mailbox, answers, catalog, store, waiting>> /\ Turn BY DEF try_admit_one, poll_event
  <1>3. Ready(owner) /\ owner.phase = "running" BY <1>2, TurnReady
  <1> DEFINE in == [what |-> what, gid |-> g, spec |-> spec]
             o2 == Begin(owner, what, g, spec)
  <1>4. in.what = what OBVIOUS
  <1>5. /\ o2.input = Some(in) /\ Is(o2.input) /\ The(o2.input) = in /\ DOMAIN in = {"what", "gid", "spec"}
        /\ DOMAIN o2 = OwnerFields /\ \A f \in OwnerFields : f # "input" => o2[f] = owner[f]
    BY AnswersFacts, BegunFields
  <1> HIDE DEF in, o2
  <1>6. /\ o2.mutation = owner.mutation /\ o2.admission = owner.admission /\ o2.sources = owner.sources
        /\ o2.export = owner.export /\ \A k \in Kinds : o2[k] = owner[k]
    BY <1>5 DEF OwnerFields, Kinds
  <1>7. in.what \notin WritesOptions /\ in.what # "commit_sources" BY <1>0, <1>4 DEF WritesOptions
  <1>8. Exclusive(o2) /\ Planned(o2, catalog) BY <1>3, <1>6, <1>5, <1>7, AnswersFacts, WorkBegun DEF Ready
  <1>9. Pledges(waiting, o2, F)
    <2>1. SameTokens(owner, o2) BY <1>6, FieldsSame
    <2>2. F \in SUBSET (DOMAIN Calls) /\ F \in SUBSET F /\ waiting \in Seq(Waits) /\ Pledges(waiting, owner, F)
      BY <1>3, AnswersFacts
    <2> HIDE DEF F
    <2> QED BY <2>1, <2>2, PledgesKept
  <1>10. owner' = o2 BY <1>1 DEF o2
  <1> QED BY <1>2, <1>6, <1>8, <1>9, <1>10, AnswersFacts, QuietAnswers

\* One continuation, done, answers its command.
LEMMA ContinuationEnds ==
  ASSUME ControlInv, AnswersInv, owner.phase = "running", UNCHANGED <<todo, mailbox, answers, catalog, store>>,
         NEW k \in {"bulk", "admission", "configuration", "export"}, Is(owner[k]), ~Is(owner'[k]), NEW r \in Results,
         waiting' = Resolve(waiting, The(owner[k]).token, r),
         \A f \in {"input", "mutation", "sources", "bulk", "admission", "configuration", "export"} \ {k} : owner'[f] = owner[f]
  PROVE  AnswersInv'
  <1> DEFINE F == Unspent(todo, mailbox.urgent, mailbox.bulk)
             o2 == owner'
  <1>1. k \in Kinds /\ \A j \in Kinds : j # k => o2[j] = owner[j] BY DEF Kinds
  <1>2. /\ o2.sources = owner.sources /\ o2.input = owner.input /\ o2.mutation = owner.mutation
        /\ o2.admission = owner.admission \/ ~Is(o2.admission)
        /\ o2.export = owner.export \/ ~Is(o2.export)
    OBVIOUS
  <1>3. ~Is(o2[k]) OBVIOUS
  <1> HIDE DEF o2
  <1>4. EndsOne(owner, o2, The(owner[k]).token) BY <1>1, <1>2, <1>3, FieldEnds
  <1>5. Pledges(waiting', o2, F) BY <1>4, AnswersFacts, PledgesResolved
  <1>6. OnePlace(waiting', mailbox.urgent, mailbox.bulk, answers) BY AnswersFacts, PlacesResolved
  <1>7. Exclusive(o2) /\ Planned(o2, catalog) BY <1>2, AnswersFacts, WorkKept
  <1> QED BY <1>2, <1>5, <1>6, <1>7, QuietAnswers DEF o2

\* The configuration is taken or refused, the export is done or has failed.
LEMMA SettledAnswers ==
  ASSUME ControlInv, AnswersInv, poll_configuration \/ poll_session_export
  PROVE  AnswersInv'
  <1>0. DOMAIN owner = OwnerFields BY OwnerDomain
  <1>1. CASE poll_configuration
    <2>1. PICK r, x : /\ r \in {"ok", "err"} /\ waiting' = Resolve(waiting, The(owner.configuration).token, r)
                      /\ owner' = [owner EXCEPT !.configuration = None, !.generation = x]
      BY <1>1, Zenon DEF poll_configuration
    <2>2. /\ UNCHANGED <<todo, mailbox, answers, catalog, store>> /\ Is(owner.configuration) /\ owner.phase = "running" /\ r \in Results
      BY <1>1, <2>1, TurnReady DEF poll_configuration, Results
    <2>3. ~Is(owner'.configuration) BY <1>0, <2>1 DEF OwnerFields, Is
    <2>4. \A f \in {"input", "mutation", "sources", "bulk", "admission", "configuration", "export"} \ {"configuration"} : owner'[f] = owner[f]
      BY <1>0, <2>1 DEF OwnerFields
    <2> QED BY <2>1, <2>2, <2>3, <2>4, ContinuationEnds
  <1>2. CASE poll_session_export
    <2>1. PICK r \in {"ok", "err"} : /\ waiting' = Resolve(waiting, The(owner.export).token, r)
                                     /\ owner' = [owner EXCEPT !.export = None]
      BY <1>2, Zenon DEF poll_session_export
    <2>2. /\ UNCHANGED <<todo, mailbox, answers, catalog, store>> /\ Is(owner.export) /\ owner.phase = "running" /\ r \in Results
      BY <1>2 DEF poll_session_export, Results
    <2>3. ~Is(owner'.export) BY <1>0, <2>1 DEF OwnerFields, Is
    <2>4. \A f \in {"input", "mutation", "sources", "bulk", "admission", "configuration", "export"} \ {"export"} : owner'[f] = owner[f]
      BY <1>0, <2>1 DEF OwnerFields
    <2> QED BY <2>1, <2>2, <2>3, <2>4, ContinuationEnds
  <1> QED BY <1>1, <1>2

\* The owner learns of a shutdown.
LEMMA ClosingAnswers ==
  ASSUME ControlInv, AnswersInv, observe_closing
  PROVE  AnswersInv'
  <1> DEFINE F == Unspent(todo, mailbox.urgent, mailbox.bulk)
             o2 == owner'
  <1>0. DOMAIN owner = OwnerFields BY OwnerDomain
  <1>1. owner' = [owner EXCEPT !.shutdown = TRUE] /\ UNCHANGED <<todo, mailbox, answers, catalog, store, waiting>> /\ owner.phase = "running"
    BY DEF observe_closing
  <1>2. /\ o2.input = owner.input /\ o2.mutation = owner.mutation /\ o2.admission = owner.admission /\ o2.sources = owner.sources
        /\ o2.export = owner.export /\ \A k \in Kinds : o2[k] = owner[k]
    BY <1>0, <1>1 DEF OwnerFields, Kinds
  <1> HIDE DEF o2
  <1>3. SameTokens(owner, o2) BY <1>2, FieldsSame
  <1>4. F \in SUBSET (DOMAIN Calls) /\ F \in SUBSET F /\ waiting \in Seq(Waits) /\ Pledges(waiting, owner, F)
    BY <1>1, AnswersFacts
  <1>5. Exclusive(o2) /\ Planned(o2, catalog) BY <1>1, <1>2, AnswersFacts, WorkKept
  <1> HIDE DEF F
  <1>6. Pledges(waiting, o2, F) BY <1>3, <1>4, PledgesKept
  <1> QED BY <1>1, <1>2, <1>5, <1>6, AnswersFacts, QuietAnswers DEF o2, F

\* The engine fails with its input.
LEMMA FaultAnswers ==
  ASSUME ControlInv, AnswersInv, engine_fails
  PROVE  AnswersInv'
  <1>0. DOMAIN owner = OwnerFields BY OwnerDomain
  <1>1. /\ owner' = [owner EXCEPT !.phase = "failed", !.closing = TRUE, !.mutation = None]
        /\ UNCHANGED <<todo, mailbox, answers, catalog, store>>
        /\ waiting' = waiting \/ waiting' = Resolve(waiting, The(owner.mutation).token, "err")
    BY DEF engine_fails
  <1>2. owner'.phase = "failed" /\ owner'.export = owner.export BY <1>0, <1>1 DEF OwnerFields
  <1>3. OnePlace(waiting', mailbox.urgent, mailbox.bulk, answers)
    BY <1>1, AnswersFacts, PlacesResolved DEF Results
  <1> QED BY <1>1, <1>2, <1>3, QuietAnswers

\* An admission fails, and the owner with it once a journal is being installed.
LEMMA AdmissionFailAnswers ==
  ASSUME ControlInv, AnswersInv, admission_fails
  PROVE  AnswersInv'
  <1>0. DOMAIN owner = OwnerFields BY OwnerDomain
  <1>1. PICK x, y : owner' = [owner EXCEPT !.admission = None, !.phase = x, !.closing = y]
    BY DEF admission_fails
  <1>2. /\ UNCHANGED <<todo, mailbox, answers, catalog, store>> /\ Is(owner.admission) /\ owner.phase = "running"
        /\ waiting' = Resolve(waiting, The(owner.admission).token, "err")
    BY DEF admission_fails
  <1>3. ~Is(owner'.admission) BY <1>0, <1>1 DEF OwnerFields, Is
  <1>4. \A f \in {"input", "mutation", "sources", "bulk", "admission", "configuration", "export"} \ {"admission"} : owner'[f] = owner[f]
    BY <1>0, <1>1 DEF OwnerFields
  <1>5. "err" \in Results BY DEF Results
  <1> QED BY <1>2, <1>3, <1>4, <1>5, ContinuationEnds

\* An admission goes on to its next stage, is refused, or is installed.
LEMMA AdmissionAnswers ==
  ASSUME ControlInv, AnswersInv, poll_admission
  PROVE  AnswersInv'
  <1> DEFINE F == Unspent(todo, mailbox.urgent, mailbox.bulk)
             a == The(owner.admission)
             o2 == owner'
  <1>0. DOMAIN owner = OwnerFields BY OwnerDomain
  <1>1. /\ Is(owner.admission) /\ owner.phase = "running" /\ ~Is(owner.input) /\ UNCHANGED <<todo, mailbox, answers, catalog, store>>
        /\ a.stage = "Ready" => ~Is(owner.mutation)
    BY DEF poll_admission, engine_idle
  <1>2. /\ DOMAIN a = {"stage", "token", "import"} /\ a.stage \in AdmissionStages /\ Exclusive(owner) /\ Planned(owner, catalog)
        /\ a.stage \in {"Preparing", "Ready"} \/ ~Is(owner.mutation)
    BY <1>1, AnswersFacts DEF Exclusive
  <1>3. F \in SUBSET (DOMAIN Calls) /\ F \in SUBSET F /\ waiting \in Seq(Waits) /\ Pledges(waiting, owner, F)
    BY <1>1, AnswersFacts
  <1>4. a.token \in DOMAIN Calls BY <1>1 DEF ControlInv, Consistent, Continues
  <1>5. CASE a.stage = "Installing"
    <2> DEFINE m == [kind |-> IF a.import THEN "Import" ELSE "Admission", token |-> a.token,
                     gid |-> New, readmit |-> ~a.import, replacement |-> None]
               o1 == Begin(owner, "add", New, catalog[New])
               in == [what |-> "add", gid |-> New, spec |-> catalog[New]]
    <2>1. owner' = [o1 EXCEPT !.admission = None, !.mutation = Some(m)] /\ waiting' = waiting
      BY <1>5 DEF poll_admission
    <2>2. DOMAIN m = MutationFields /\ m.token = a.token /\ m.replacement = None BY DEF MutationFields
    <2>3. /\ o1.input = Some(in) /\ Is(o1.input) /\ The(o1.input) = in /\ DOMAIN in = {"what", "gid", "spec"}
          /\ DOMAIN o1 = OwnerFields /\ \A f \in OwnerFields : f # "input" => o1[f] = owner[f]
      BY <1>0, BegunFields
    <2>4. in.what \notin WritesOptions /\ in.what # "commit_sources" BY DEF WritesOptions
    <2> HIDE DEF m, o1, in
    <2>5. /\ o2.input = o1.input /\ o2.mutation = Some(m) /\ o2.admission = None /\ o2.sources = owner.sources
          /\ o2.export = owner.export /\ o2.bulk = owner.bulk /\ o2.configuration = owner.configuration
      BY <2>1, <2>3 DEF OwnerFields
    <2>6. Is(o2.input) /\ The(o2.input) = in /\ Is(o2.mutation) /\ The(o2.mutation) = m /\ ~Is(o2.admission)
      BY <2>3, <2>5, OptionFacts DEF Is
    <2>7. ~Is(owner.mutation) BY <1>2, <1>5
    <2> HIDE DEF o2
    <2>8. Exclusive(o2) /\ Planned(o2, catalog) BY <1>1, <1>2, <2>2, <2>3, <2>4, <2>5, <2>6, <2>7, WorkBegun
    <2>9. /\ \A s : Sourced(o2, s) = Sourced(owner, s)
          /\ \A s : s # a.token => Carries(o2, s) = Carries(owner, s)
          /\ "admission" \in Carries(owner, a.token)
          /\ Carries(o2, a.token) = (Carries(owner, a.token) \ {"admission"}) \cup {"mutation"}
      BY <2>5, <1>1, <2>2, <2>6, <2>7 DEF Sourced, Carries, Kinds
    <2> HIDE DEF F, a
    <2>10. Pledges(waiting, o2, F) BY <1>3, <2>9, PledgesMoved DEF Kinds
    <2> QED BY <1>1, <2>1, <2>5, <2>8, <2>10, AnswersFacts, QuietAnswers DEF o2, F
  <1>6. CASE a.stage = "Ready" /\ tasks[New] # "absent"
    BY <1>6, <1>0, <1>1, ContinuationEnds DEF poll_admission, OwnerFields, Is, Results
  <1>7. CASE a.stage # "Installing" /\ ~(a.stage = "Ready" /\ tasks[New] # "absent")
    <2> DEFINE a2 == [a EXCEPT !.stage = NextStage[a.stage]]
    <2>1. owner' = [owner EXCEPT !.admission = Some(a2)] /\ waiting' = waiting BY <1>7 DEF poll_admission
    <2>2. DOMAIN a2 = {"stage", "token", "import"} /\ a2.token = a.token /\ a2.stage = NextStage[a.stage]
      BY <1>2
    <2>3. NextStage[a.stage] \in AdmissionStages /\ (a.stage = "Preparing" => NextStage[a.stage] = "Ready")
      BY <1>2, <1>7 DEF AdmissionStages, NextStage
    <2> HIDE DEF a2
    <2>4. /\ o2.input = owner.input /\ o2.mutation = owner.mutation /\ o2.admission = Some(a2) /\ o2.sources = owner.sources
          /\ o2.export = owner.export /\ \A k \in Kinds : k # "admission" => o2[k] = owner[k]
      BY <1>0, <2>1 DEF OwnerFields, Kinds
    <2>5. Is(o2.admission) /\ The(o2.admission) = a2 BY <2>4, OptionFacts DEF Is
    <2> HIDE DEF o2
    <2>6. a2.stage \in {"Preparing", "Ready"} \/ (~Is(o2.input) /\ ~Is(o2.mutation))
      BY <2>2, <2>3, <1>1, <1>2, <2>4
    <2>7. Exclusive(o2) /\ Planned(o2, catalog) BY <1>2, <2>2, <2>3, <2>4, <2>5, <2>6, WorkKept
    <2>8. \A k \in Kinds : KeepsToken(owner[k], o2[k]) BY <1>1, <2>2, <2>5, <2>4 DEF KeepsToken
    <2>9. SameTokens(owner, o2) BY <2>4, <2>8, FieldsKeep DEF SameSources
    <2> HIDE DEF F
    <2>10. Pledges(waiting, o2, F) BY <1>3, <2>9, PledgesKept
    <2> QED BY <1>1, <2>1, <2>4, <2>7, <2>10, AnswersFacts, QuietAnswers DEF o2, F
  <1> QED BY <1>5, <1>6, <1>7

\* A replacement of sources is given up, or committed.
LEMMA SourcesAnswers ==
  ASSUME ControlInv, AnswersInv, complete_source_replacements
  PROVE  AnswersInv'
  <1> DEFINE F == Unspent(todo, mailbox.urgent, mailbox.bulk)
             o2 == owner'
  <1>0. DOMAIN owner = OwnerFields BY OwnerDomain
  <1>1. PICK g \in ReadySources(owner) :
          \/ /\ waiting' = Resolve(waiting, owner.sources[g].token, "err")
             /\ owner' = [owner EXCEPT !.sources = Without(@, {g})]
          \/ /\ owner' = [Begin(owner, "commit_sources", g, owner.sources[g].replacement) EXCEPT !.sources[g].committing = TRUE]
             /\ UNCHANGED waiting
    BY Zenon DEF complete_source_replacements
  <1>2. UNCHANGED <<todo, mailbox, answers, catalog, store>> /\ Turn BY DEF complete_source_replacements
  <1>3. Ready(owner) /\ owner.phase = "running" BY <1>2, TurnReady
  <1>4. g \in DOMAIN owner.sources BY DEF ReadySources
  <1>5. F \in SUBSET (DOMAIN Calls) /\ F \in SUBSET F /\ waiting \in Seq(Waits) /\ Pledges(waiting, owner, F) /\ Exclusive(owner) /\ Planned(owner, catalog)
    BY <1>3, AnswersFacts
  <1>6. CASE /\ waiting' = Resolve(waiting, owner.sources[g].token, "err")
             /\ owner' = [owner EXCEPT !.sources = Without(@, {g})]
    <2> DEFINE s == Without(owner.sources, {g})
    <2>1. DOMAIN s = DOMAIN owner.sources \ {g} /\ \A h \in DOMAIN s : s[h] = owner.sources[h] BY DEF Without
    <2>2. owner' = [owner EXCEPT !.sources = s] BY <1>6
    <2> HIDE DEF s
    <2>3. /\ o2.input = owner.input /\ o2.mutation = owner.mutation /\ o2.admission = owner.admission /\ o2.sources = s
          /\ o2.export = owner.export /\ \A k \in Kinds : o2[k] = owner[k]
      BY <1>0, <2>2 DEF OwnerFields, Kinds
    <2> HIDE DEF o2
    <2>4. EndsOne(owner, o2, owner.sources[g].token) BY <1>4, <2>1, <2>3, SourceEnds
    <2>5. Exclusive(o2) BY <1>5, <2>1, <2>3, Zenon DEF Exclusive
    <2>6. Planned(o2, catalog) BY <1>3, <2>3, <1>5, <2>1 DEF Ready, Planned
    <2>7. "err" \in Results BY DEF Results
    <2> HIDE DEF F
    <2>8. Pledges(waiting', o2, F) BY <1>5, <1>6, <2>4, <2>7, PledgesResolved
    <2>9. OnePlace(waiting', mailbox.urgent, mailbox.bulk, answers)
      BY <1>6, <2>7, AnswersFacts, PlacesResolved
    <2> QED BY <1>2, <2>3, <2>5, <2>6, <2>8, <2>9, QuietAnswers DEF o2, F
  <1>7. CASE /\ owner' = [Begin(owner, "commit_sources", g, owner.sources[g].replacement) EXCEPT !.sources[g].committing = TRUE]
             /\ UNCHANGED waiting
    <2> DEFINE spec == owner.sources[g].replacement
               in == [what |-> "commit_sources", gid |-> g, spec |-> spec]
               o1 == Begin(owner, "commit_sources", g, spec)
               x == [owner.sources[g] EXCEPT !.committing = TRUE]
               s == [owner.sources EXCEPT ![g] = x]
    <2>1. /\ o1.input = Some(in) /\ Is(o1.input) /\ The(o1.input) = in /\ DOMAIN in = {"what", "gid", "spec"}
          /\ DOMAIN o1 = OwnerFields /\ \A f \in OwnerFields : f # "input" => o1[f] = owner[f]
      BY <1>0, BegunFields
    <2>2. in.what = "commit_sources" /\ in.gid = g /\ in.spec = spec OBVIOUS
    <2>3. DOMAIN x = {"token", "committing", "replacement"} /\ x.committing /\ x.replacement = spec /\ x.token = owner.sources[g].token
      BY <1>4, <1>5 DEF Exclusive
    <2>4. DOMAIN s = DOMAIN owner.sources /\ s[g] = x /\ \A h \in DOMAIN owner.sources : h # g => s[h] = owner.sources[h]
      BY <1>4
    <2>5. o1.sources = owner.sources BY <2>1 DEF OwnerFields
    <2> HIDE DEF in, o1
    <2>6. owner' = [o1 EXCEPT !.sources = s] BY <1>7, <2>5 DEF o1
    <2> HIDE DEF x, s
    <2>7. /\ o2.input = o1.input /\ o2.mutation = owner.mutation /\ o2.admission = owner.admission /\ o2.sources = s
          /\ o2.export = owner.export /\ \A k \in Kinds : o2[k] = owner[k]
      BY <2>1, <2>6 DEF OwnerFields, Kinds
    <2> HIDE DEF o2
    <2>8. Exclusive(o2) /\ Planned(o2, catalog)
      <3>1. Is(o2.input) /\ The(o2.input) = in /\ DOMAIN in = {"what", "gid", "spec"} BY <2>1, <2>7
      <3>2. /\ DOMAIN o2.sources = DOMAIN owner.sources /\ \A h \in DOMAIN owner.sources : h # g => o2.sources[h] = owner.sources[h]
            /\ o2.sources[g] = x
        BY <2>4, <2>7
      <3>3. in.spec = owner.sources[g].replacement /\ x.replacement = owner.sources[g].replacement
        BY <2>2, <2>3
      <3> HIDE DEF spec
      <3> QED BY <1>3, <1>4, <1>5, <2>2, <2>7, <2>3, <3>1, <3>2, <3>3, WorkCommits
    <2>9. SameTokens(owner, o2) BY <2>7, <2>3, <2>4, FieldsKeep DEF KeepsToken, SameSources
    <2> HIDE DEF F
    <2>10. Pledges(waiting, o2, F) BY <1>5, <2>9, PledgesKept
    <2> QED BY <1>2, <1>7, <2>7, <2>8, <2>10, AnswersFacts, QuietAnswers DEF o2, F
  <1> QED BY <1>1, <1>6, <1>7

\* The first caller and the others.
LEMMA CallersTail ==
  ASSUME NEW s \in Seq(DOMAIN Calls), s # << >>
  PROVE  /\ Head(s) = s[1] /\ s[1] \in DOMAIN Calls /\ 1 \in 1 .. Len(s) /\ s[1] \in ToSet(s) /\ Len(s) \in Nat \ {0}
         /\ Tail(s) \in Seq(DOMAIN Calls) /\ Len(Tail(s)) = Len(s) - 1 /\ \A j \in 1 .. Len(Tail(s)) : Tail(s)[j] = s[j + 1]
         /\ Tail(s) = << >> <=> Len(s) = 1
  <1>1. Len(s) \in Nat /\ Len(s) # 0 OBVIOUS
  <1>2. Head(s) = s[1] /\ s[1] \in DOMAIN Calls /\ 1 \in 1 .. Len(s) BY <1>1
  <1>3. Tail(s) \in Seq(DOMAIN Calls) /\ Len(Tail(s)) = Len(s) - 1 /\ \A j \in 1 .. Len(Tail(s)) : Tail(s)[j] = s[j + 1]
    BY <1>1
  <1>4. s[1] \in ToSet(s) BY <1>2, InQueue
  <1>5. Tail(s) = << >> <=> Len(s) = 1
    <2> DEFINE r == Tail(s)
    <2> HIDE DEF r
    <2>1. r \in Seq(DOMAIN Calls) /\ Len(r) = Len(s) - 1 BY <1>3 DEF r
    <2>2. r = << >> <=> Len(r) = 0 BY <2>1, EmptySeq
    <2> QED BY <1>1, <2>1, <2>2 DEF r
  <1> QED BY <1>1, <1>2, <1>3, <1>4, <1>5

\* One caller of a finished command is told.
LEMMA DeliverAnswers ==
  ASSUME ControlInv, AnswersInv, deliver
  PROVE  AnswersInv'
  <1> DEFINE F == Unspent(todo, mailbox.urgent, mailbox.bulk)
             U == mailbox.urgent
             B == mailbox.bulk
  <1>1. /\ owner.phase = "running" /\ UNCHANGED <<todo, mailbox, owner, catalog, store>> BY DEF deliver
  <1>2. PICK i \in DOMAIN waiting :
          /\ Is(waiting[i].result)
          /\ answers' = [answers EXCEPT ![Head(waiting[i].callers)] = Some(The(waiting[i].result))]
          /\ waiting' = IF Len(waiting[i].callers) = 1 THEN RemoveAt(waiting, i)
                        ELSE [waiting EXCEPT ![i].callers = Tail(@)]
    BY DEF deliver, Answer
  <1>3. /\ waiting \in Seq(Waits) /\ OnePlace(waiting, U, B, answers) /\ Unmade(todo, answers) /\ Pledges(waiting, owner, F)
        /\ Exclusive(owner) /\ Planned(owner, catalog) /\ SameSpecs(owner, catalog, store)
    BY <1>1, AnswersFacts
  <1>4. /\ Separate(waiting) /\ Separate(U) /\ Separate(B) /\ DOMAIN answers = DOMAIN Calls
        /\ \A c \in CallersOf(waiting) : c \notin CallersOf(U) /\ c \notin CallersOf(B)
        /\ \A c \in CallersOf(U) : c \notin CallersOf(B)
    BY <1>3 DEF OnePlace
  <1>5. i \in 1 .. Len(waiting) /\ waiting[i] \in Waits BY <1>3
  <1> DEFINE s == waiting[i].callers
             h == Head(s)
             x == Some(The(waiting[i].result))
  <1>6. s \in Seq(DOMAIN Calls) /\ s # << >> /\ \A j, k \in 1 .. Len(s) : s[j] = s[k] => j = k
    BY <1>4, <1>5 DEF Separate
  <1>7. x # Some("open")
    <2>1. waiting[i].result \in {None, Some("ok"), Some("err"), Some("Busy")} BY <1>5 DEF Waits
    <2>2. waiting[i].result # None BY <1>2 DEF Is
    <2> DEFINE y == waiting[i].result
    <2> HIDE DEF y
    <2>3. y \in {Some("ok"), Some("err"), Some("Busy")} BY <2>1, <2>2 DEF y
    <2>4. The(y) \in {"ok", "err", "Busy"} BY <2>3, OptionFacts, Zenon
    <2> QED BY <2>4, OptionFacts DEF y
  <1>8. /\ h \in DOMAIN Calls /\ h \in ToSet(s) /\ Len(s) \in Nat \ {0}
        /\ Tail(s) \in Seq(DOMAIN Calls) /\ Len(Tail(s)) = Len(s) - 1 /\ \A j \in 1 .. Len(Tail(s)) : Tail(s)[j] = s[j + 1]
        /\ h = s[1]
    <2> HIDE DEF s
    <2> QED BY <1>6, CallersTail
  <1>9. \A c : c \in ToSet(s) <=> c = h \/ c \in ToSet(Tail(s))
    <2> DEFINE r == Tail(s)
    <2> HIDE DEF r, s, h
    <2>1. r \in Seq(DOMAIN Calls) /\ Len(r) = Len(s) - 1 /\ \A j \in 1 .. Len(r) : r[j] = s[j + 1]
      BY <1>8 DEF r
    <2>2. \A c : c \in ToSet(r) <=> \E k \in 1 .. Len(r) : r[k] = c BY <2>1, InQueue
    <2>3. \A c : c \in ToSet(s) <=> \E k \in 1 .. Len(s) : s[k] = c BY <1>6, InQueue
    <2>4. \A k \in 1 .. Len(s) : k = 1 \/ (k - 1 \in 1 .. Len(r) /\ s[k] = r[k - 1]) BY <1>8, <2>1
    <2>5. \A k \in 1 .. Len(r) : k + 1 \in 1 .. Len(s) BY <1>8, <2>1
    <2>6. 1 \in 1 .. Len(s) /\ s[1] = h BY <1>8
    <2>7. \A c : c \in ToSet(s) => c = h \/ c \in ToSet(r) BY <2>2, <2>3, <2>4, <2>6
    <2>8. \A c : c \in ToSet(r) => c \in ToSet(s) BY <2>1, <2>2, <2>3, <2>5
    <2> QED BY <2>3, <2>6, <2>7, <2>8 DEF r
  <1>10. h \notin ToSet(Tail(s))
    <2> SUFFICES ASSUME h \in ToSet(Tail(s)) PROVE FALSE OBVIOUS
    <2> DEFINE r == Tail(s)
    <2>0. r \in Seq(DOMAIN Calls) /\ h \in ToSet(r) BY <1>8
    <2> HIDE DEF r
    <2>00. \E k \in 1 .. Len(r) : r[k] = h BY <2>0, InQueue
    <2>1. PICK k \in 1 .. Len(Tail(s)) : Tail(s)[k] = h BY <2>00 DEF r
    <2>2. s[k + 1] = s[1] /\ k + 1 \in 1 .. Len(s) /\ 1 \in 1 .. Len(s) BY <1>8, <2>1
    <2>3. k + 1 = 1 BY <1>6, <2>2
    <2> QED BY <2>1, <2>3
  <1>11. h \in CallersOf(waiting) /\ \A c \in ToSet(s) : c \in CallersOf(waiting) BY <1>5, <1>8, InQueue
  <1>12. /\ waiting' \in Seq(Waits) /\ Separate(waiting')
         /\ \A c : c \in CallersOf(waiting') <=> c \in CallersOf(waiting) /\ c # h
         /\ Pledges(waiting', owner, F)
    <2>1. CASE Len(s) = 1
      <3> DEFINE w2 == RemoveAt(waiting, i)
                 f == [j \in 1 .. Len(w2) |-> IF j < i THEN j ELSE j + 1]
      <3>1. waiting' = w2 BY <1>2, <2>1
      <3>2. /\ w2 \in Seq(Waits) /\ Separate(w2) /\ Len(w2) = Len(waiting) - 1
            /\ \A j \in 1 .. Len(w2) : w2[j] = IF j < i THEN waiting[j] ELSE waiting[j + 1]
            /\ \A c : c \in CallersOf(w2) <=> c \in CallersOf(waiting) /\ c \notin ToSet(s)
        BY <1>3, <1>4, <1>5, QueueRemoved
      <3>3. \A c : c \in ToSet(s) <=> c = h
        <4>1. Tail(s) = << >> BY <1>6, <2>1, CallersTail
        <4>2. ToSet(Tail(s)) = {} BY <4>1 DEF ToSet
        <4> HIDE DEF s, h
        <4> QED BY <4>2, <1>9
      <3> HIDE DEF w2, s, h
      <3>4. \A j \in 1 .. Len(w2) : f[j] \in 1 .. Len(waiting) /\ w2[j].token = waiting[f[j]].token /\ w2[j].result = waiting[f[j]].result
        BY <1>3, <1>5, <3>2
      <3>5. \A j, k \in 1 .. Len(w2) : f[j] = f[k] => j = k BY <1>5, <3>2
      <3> HIDE DEF f, F
      <3>6. Pledges(w2, owner, F) BY <1>3, <3>4, <3>5, PledgesThinned
      <3> QED BY <3>1, <3>2, <3>3, <3>6
    <2>2. CASE Len(s) # 1
      <3> DEFINE e == [waiting[i] EXCEPT !.callers = Tail(s)]
                 w2 == [waiting EXCEPT ![i] = e]
                 f == [j \in 1 .. Len(waiting) |-> j]
      <3>1. waiting' = w2 BY <1>2, <2>2
      <3>2. e \in Waits /\ e.token = waiting[i].token /\ e.result = waiting[i].result /\ e.callers = Tail(s)
        BY <1>5, <1>8 DEF Waits
      <3> HIDE DEF e
      <3>3. w2 \in Seq(Waits) /\ Len(w2) = Len(waiting) /\ w2[i] = e /\ \A j \in 1 .. Len(waiting) : j # i => w2[j] = waiting[j]
        BY <1>3, <1>5, <3>2
      <3>4. \A j \in 1 .. Len(waiting) : f[j] = j OBVIOUS
      <3> HIDE DEF w2, f
      <3>5. \A j \in 1 .. Len(w2) : f[j] \in 1 .. Len(waiting) /\ w2[j].token = waiting[f[j]].token /\ w2[j].result = waiting[f[j]].result
        BY <3>2, <3>3, <3>4
      <3>6. \A j, k \in 1 .. Len(w2) : f[j] = f[k] => j = k BY <3>3, <3>4
      <3>7. Pledges(w2, owner, F)
        <4> HIDE DEF F
        <4> QED BY <1>3, <3>5, <3>6, PledgesThinned
      <3>8. w2[i].callers \in Seq(DOMAIN Calls) /\ w2[i].callers # << >> /\ w2[i].callers = Tail(s)
        BY <1>6, <2>2, CallersTail, <3>2, <3>3, <1>8
      <3>9. \A j, k \in 1 .. Len(w2[i].callers) : w2[i].callers[j] = w2[i].callers[k] => j = k
        <4> DEFINE r == Tail(s)
        <4>1. Len(r) = Len(s) - 1 /\ (\A j \in 1 .. Len(r) : r[j] = s[j + 1]) /\ Len(s) \in Nat BY <1>8
        <4> HIDE DEF r, s
        <4>2. \A j, k \in 1 .. Len(r) : r[j] = r[k] => j = k BY <4>1, <1>6
        <4> QED BY <4>2, <3>8 DEF r
      <3>10. ToSet(w2[i].callers) = ToSet(Tail(s)) /\ \A c \in ToSet(w2[i].callers) : c \in ToSet(s)
        BY <3>8, <1>9
      <3>11. /\ Separate(w2)
             /\ \A c : c \in CallersOf(w2) <=> (c \in CallersOf(waiting) /\ c \notin ToSet(s)) \/ c \in ToSet(w2[i].callers)
        BY <1>4, <1>5, <3>3, <3>8, <3>9, <3>10, QueueUpdated
      <3>12. \A c : c \in CallersOf(w2) <=> c \in CallersOf(waiting) /\ c # h
        <4> DEFINE R == ToSet(Tail(s))
                   T == ToSet(s)
        <4>1. /\ \A c : c \in T <=> c = h \/ c \in R
              /\ h \notin R /\ \A c \in T : c \in CallersOf(waiting)
          BY <1>9, <1>10, <1>11
        <4>2. \A c : c \in CallersOf(w2) <=> (c \in CallersOf(waiting) /\ c \notin T) \/ c \in R
          BY <3>10, <3>11
        <4> HIDE DEF R, T, h
        <4> QED BY <4>1, <4>2
      <3> QED BY <3>1, <3>3, <3>7, <3>11, <3>12
    <2> QED BY <2>1, <2>2
  <1> HIDE DEF x, h, F, s, U, B
  <1>13. answers' = [answers EXCEPT ![h] = x] /\ DOMAIN answers' = DOMAIN Calls BY <1>2, <1>4 DEF x, h, s
  <1>14. \A c \in DOMAIN Calls : answers'[c] = IF c = h THEN x ELSE answers[c] BY <1>13, <1>4
  <1>15. OnePlace(waiting', U, B, answers')
    <2> DEFINE w2 == waiting'
               a2 == answers'
    <2>1. \A c \in CallersOf(w2) : c \notin CallersOf(U) /\ c \notin CallersOf(B) BY <1>4, <1>12
    <2>2. \A c \in DOMAIN Calls :
           IF a2[c] = answers[c]
           THEN c \in CallersOf(w2) \cup CallersOf(U) \cup CallersOf(B) <=> c \in CallersOf(waiting) \cup CallersOf(U) \cup CallersOf(B)
           ELSE a2[c] = Some("open") <=> c \in CallersOf(w2) \cup CallersOf(U) \cup CallersOf(B)
      BY <1>12, <1>14, <1>11, <1>3, <1>8, <1>4, <1>7 DEF OnePlace
    <2>3. w2 \in Seq(Waits) /\ Separate(w2) /\ DOMAIN a2 = DOMAIN Calls BY <1>12, <1>13
    <2> HIDE DEF w2, a2
    <2>4. OnePlace(w2, U, B, a2) BY <1>3, <1>4, <2>1, <2>2, <2>3, PlacesMoved
    <2> QED BY <2>4 DEF w2, a2
  <1>16. Unmade(todo, answers')
    <2>1. h \notin todo BY <1>3, <1>11, UnspentCalls
    <2> QED BY <1>3, <1>14, <2>1 DEF Unmade
  <1> QED BY <1>1, <1>3, <1>12, <1>15, <1>16 DEF AnswersInv, U, B, F

\* Queued commands are rejected one after another when the owner has failed.
LEMMA RejectAnswers ==
  ASSUME ControlInv, AnswersInv, reject_queued
  PROVE  AnswersInv'
  <1> DEFINE U == mailbox.urgent
             B == mailbox.bulk
             q == U \o B
             w2 == waiting'
             a2 == answers'
  <1>0. DOMAIN owner = OwnerFields /\ U \in Seq(Envelopes) /\ B \in Seq(Envelopes) /\ mailbox = [urgent |-> U, bulk |-> B]
    BY OwnerDomain, ConsistentTypes DEF ControlInv
  <1>1. owner.phase = "failed" /\ UNCHANGED <<todo, catalog, store>> BY DEF reject_queued
  <1>2. /\ waiting \in Seq(Waits) /\ OnePlace(waiting, U, B, answers) /\ Unmade(todo, answers) /\ SameSpecs(owner, catalog, store)
    BY AnswersFacts
  <1>3. /\ Separate(waiting) /\ Separate(U) /\ Separate(B) /\ DOMAIN answers = DOMAIN Calls
        /\ \A c \in CallersOf(waiting) : c \notin CallersOf(U) /\ c \notin CallersOf(B)
        /\ \A c \in CallersOf(U) : c \notin CallersOf(B)
        /\ \A c \in DOMAIN Calls : answers[c] = Some("open") <=> c \in CallersOf(waiting) \cup CallersOf(U) \cup CallersOf(B)
    BY <1>2 DEF OnePlace
  <1>4. CASE waiting # << >>
    <2> DEFINE H == ToSet(Head(waiting).callers)
    <2>1. /\ answers' = [c \in DOMAIN Calls |-> IF c \in H THEN Some("err") ELSE answers[c]]
          /\ waiting' = Tail(waiting) /\ UNCHANGED <<mailbox, owner>>
      BY <1>4 DEF reject_queued
    <2>2. /\ w2 \in Seq(Waits) /\ Separate(w2)
          /\ \A c : c \in CallersOf(w2) <=> c \in CallersOf(waiting) /\ c \notin H
          /\ \A c \in H : c \in CallersOf(waiting)
      BY <1>2, <1>3, <1>4, <2>1, QueueTail
    <2>3. DOMAIN a2 = DOMAIN Calls /\ \A c \in DOMAIN Calls : a2[c] = IF c \in H THEN Some("err") ELSE answers[c]
      BY <2>1
    <2>4. Some("err") # Some("open") BY OptionFacts
    <2>5. \A c \in todo : c \notin H BY <1>2, <2>2, UnspentCalls
    <2> HIDE DEF H, w2, a2
    <2>6. \A c \in DOMAIN Calls :
           IF a2[c] = answers[c]
           THEN c \in CallersOf(w2) \cup CallersOf(U) \cup CallersOf(B) <=> c \in CallersOf(waiting) \cup CallersOf(U) \cup CallersOf(B)
           ELSE a2[c] = Some("open") <=> c \in CallersOf(w2) \cup CallersOf(U) \cup CallersOf(B)
      BY <1>3, <2>2, <2>3, <2>4
    <2>7. \A c \in CallersOf(w2) : c \notin CallersOf(U) /\ c \notin CallersOf(B) BY <1>3, <2>2
    <2> HIDE DEF U, B
    <2>8. OnePlace(w2, U, B, a2) BY <1>2, <1>3, <2>2, <2>3, <2>6, <2>7, PlacesMoved
    <2>9. Unmade(todo, a2) BY <1>2, <2>3, <2>5 DEF Unmade
    <2> QED BY <1>1, <1>2, <2>1, <2>8, <2>9 DEF AnswersInv, U, B, w2, a2
  <1>5. CASE waiting = << >> /\ q = << >>
    BY <1>5, <1>0, <1>1, <1>2, QuietAnswers DEF reject_queued, OwnerFields
  <1>6. CASE waiting = << >> /\ q # << >>
    <2> DEFINE h == IF U # << >> THEN Head(U) ELSE Head(B)
               e == [token |-> h.callers[1], result |-> Some("err"), callers |-> h.callers, urgent |-> FALSE]
               U2 == IF U # << >> THEN Tail(U) ELSE U
               B2 == IF U # << >> THEN B ELSE Tail(B)
    <2>1. q # << >> => U # << >> \/ B # << >> BY <1>0
    <2>2. Head(q) = h
      <3>1. CASE U # << >> BY <1>0, <3>1
      <3>2. CASE U = << >> BY <1>0, <3>2
      <3> QED BY <3>1, <3>2
    <2>3. /\ waiting' = <<[token |-> Head(q).callers[1], result |-> Some("err"), callers |-> Head(q).callers, urgent |-> FALSE]>>
          /\ mailbox' = IF U # << >> THEN [mailbox EXCEPT !.urgent = Tail(@)] ELSE [mailbox EXCEPT !.bulk = Tail(@)]
          /\ UNCHANGED <<answers, owner>>
      BY <1>6 DEF reject_queued
    <2>4. waiting' = <<e>> BY <2>2, <2>3
    <2>5. mailbox'.urgent = U2 /\ mailbox'.bulk = B2 BY <1>0, <2>3
    <2>6. /\ h.callers \in Seq(DOMAIN Calls) /\ h.callers # << >>
          /\ \A j, k \in 1 .. Len(h.callers) : h.callers[j] = h.callers[k] => j = k
          /\ Separate(U2) /\ Separate(B2)
          /\ \A c : c \in CallersOf(U2) \cup CallersOf(B2) <=> c \in CallersOf(U) \cup CallersOf(B) /\ c \notin ToSet(h.callers)
          /\ \A c \in ToSet(h.callers) : c \in CallersOf(U) \cup CallersOf(B)
          /\ \A c \in CallersOf(U2) : c \notin CallersOf(B2)
      <3>1. CASE U # << >>
        <4> DEFINE T == Tail(U)
        <4>0. h = Head(U) /\ U2 = T /\ B2 = B BY <3>1
        <4> HIDE DEF h, U2, B2
        <4>1. /\ h.callers \in Seq(DOMAIN Calls) /\ h.callers # << >>
              /\ \A j, k \in 1 .. Len(h.callers) : h.callers[j] = h.callers[k] => j = k
              /\ Separate(T) /\ \A c : c \in CallersOf(T) <=> c \in CallersOf(U) /\ c \notin ToSet(h.callers)
              /\ \A c \in ToSet(h.callers) : c \in CallersOf(U)
          BY <1>0, <1>3, <3>1, <4>0, QueueTail
        <4> HIDE DEF T
        <4> QED BY <1>3, <4>0, <4>1
      <3>2. CASE U = << >>
        <4> DEFINE T == Tail(B)
        <4>0. h = Head(B) /\ U2 = U /\ B2 = T BY <3>2
        <4> HIDE DEF h, U2, B2
        <4>1. /\ h.callers \in Seq(DOMAIN Calls) /\ h.callers # << >>
              /\ \A j, k \in 1 .. Len(h.callers) : h.callers[j] = h.callers[k] => j = k
              /\ Separate(T) /\ \A c : c \in CallersOf(T) <=> c \in CallersOf(B) /\ c \notin ToSet(h.callers)
              /\ \A c \in ToSet(h.callers) : c \in CallersOf(B)
          BY <1>0, <1>3, <1>6, <2>1, <3>2, <4>0, QueueTail
        <4> HIDE DEF T
        <4> QED BY <1>3, <4>0, <4>1
      <3> QED BY <3>1, <3>2
    <2> HIDE DEF h, U2, B2
    <2>7. e \in Waits /\ e.callers = h.callers BY <2>6, CallersTail DEF Waits
    <2> HIDE DEF e
    <2>8. /\ <<e>> \in Seq(Waits) /\ Len(<<e>>) = 1 /\ <<e>>[1] = e BY <2>7
    <2>9. w2 \in Seq(Waits) /\ Len(w2) = 1 /\ w2[1] = e BY <2>4, <2>8
    <2> HIDE DEF w2
    <2>10. Separate(w2) /\ \A c : c \in CallersOf(w2) <=> c \in ToSet(h.callers)
      <3>1. \A i \in 1 .. Len(w2) : i = 1 /\ w2[i].callers = h.callers BY <2>7, <2>9
      <3>2. 1 \in 1 .. Len(w2) BY <2>9
      <3>3. Separate(w2) BY <2>6, <3>1 DEF Separate
      <3> QED BY <3>1, <3>2, <3>3, InQueue
    <2>11. OnePlace(w2, U2, B2, answers)
      <3>1. CallersOf(waiting) = {} BY <1>6, InQueue DEF CallersOf
      <3> DEFINE H == ToSet(h.callers)
      <3> HIDE DEF H
      <3>2. /\ \A c : c \in CallersOf(w2) <=> c \in H
            /\ \A c : c \in CallersOf(U2) \cup CallersOf(B2) <=> c \in CallersOf(U) \cup CallersOf(B) /\ c \notin H
            /\ \A c \in H : c \in CallersOf(U) \cup CallersOf(B)
        BY <2>6, <2>10 DEF H
      <3>3. \A c \in CallersOf(w2) : c \notin CallersOf(U2) /\ c \notin CallersOf(B2) BY <3>2
      <3>4. \A c \in DOMAIN Calls : c \in CallersOf(w2) \cup CallersOf(U2) \cup CallersOf(B2) <=> c \in CallersOf(waiting) \cup CallersOf(U) \cup CallersOf(B)
        BY <3>1, <3>2
      <3> HIDE DEF U, B
      <3> QED BY <1>2, <1>3, <2>6, <2>9, <2>10, <3>3, <3>4, PlacesMoved
    <2> QED BY <1>1, <1>2, <2>3, <2>5, <2>11 DEF AnswersInv, w2
  <1> QED BY <1>4, <1>5, <1>6

\* The runtime ends and drops every reply it holds.
LEMMA DrainAnswers ==
  ASSUME ControlInv, AnswersInv, drain
  PROVE  AnswersInv'
  <1> DEFINE U == mailbox.urgent
             B == mailbox.bulk
             q == U \o B
             S == (UNION {ToSet(waiting[i].callers) : i \in DOMAIN waiting}) \cup (UNION {ToSet(q[i].callers) : i \in DOMAIN q})
             a2 == answers'
  <1>0. DOMAIN owner = OwnerFields /\ U \in Seq(Envelopes) /\ B \in Seq(Envelopes)
    BY OwnerDomain, ConsistentTypes DEF ControlInv
  <1>1. /\ answers' = [c \in DOMAIN Calls |-> IF c \in S THEN Some("err") ELSE answers[c]]
        /\ owner' = [owner EXCEPT !.phase = "dropped"] /\ waiting' = << >> /\ mailbox' = [urgent |-> << >>, bulk |-> << >>]
        /\ UNCHANGED <<todo, catalog, store>>
    BY DEF drain
  <1>2. /\ waiting \in Seq(Waits) /\ OnePlace(waiting, U, B, answers) /\ Unmade(todo, answers) /\ SameSpecs(owner, catalog, store)
    BY AnswersFacts
  <1>3. owner'.phase = "dropped" /\ owner'.export = owner.export BY <1>0, <1>1 DEF OwnerFields
  <1>4. SameSpecs(owner', catalog, store) BY <1>2, <1>3, Zenon DEF SameSpecs
  <1>5. CallersOf(waiting) \cup CallersOf(U) \cup CallersOf(B) \subseteq S /\ S \subseteq CallersOf(waiting) \cup CallersOf(U) \cup CallersOf(B)
    <2>1. DOMAIN waiting = 1 .. Len(waiting) BY <1>2
    <2>2. \A c : c \in CallersOf(waiting) <=> c \in UNION {ToSet(waiting[i].callers) : i \in DOMAIN waiting}
      BY <2>1 DEF CallersOf
    <2>3. /\ DOMAIN q = 1 .. Len(U) + Len(B) /\ Len(U) \in Nat /\ Len(B) \in Nat
          /\ \A i \in 1 .. Len(U) : q[i] = U[i] /\ i \in DOMAIN q
          /\ \A i \in 1 .. Len(B) : q[i + Len(U)] = B[i] /\ i + Len(U) \in DOMAIN q
          /\ \A i \in DOMAIN q : q[i] = IF i <= Len(U) THEN U[i] ELSE B[i - Len(U)]
      <3> HIDE DEF U, B
      <3>1. /\ q \in Seq(Envelopes) /\ Len(q) = Len(U) + Len(B) /\ Len(U) \in Nat /\ Len(B) \in Nat
            /\ \A i \in 1 .. Len(U) + Len(B) : q[i] = IF i <= Len(U) THEN U[i] ELSE B[i - Len(U)]
        BY <1>0, ConcatProperties
      <3> HIDE DEF q
      <3>2. DOMAIN q = 1 .. Len(U) + Len(B) BY <3>1
      <3>3. \A i \in 1 .. Len(B) : q[i + Len(U)] = B[i] /\ i + Len(U) \in 1 .. Len(U) + Len(B) BY <3>1
      <3> QED BY <3>1, <3>2, <3>3
    <2>4. \A i \in DOMAIN q : i \in 1 .. Len(U) \/ (i - Len(U) \in 1 .. Len(B) /\ q[i] = B[i - Len(U)])
      <3> HIDE DEF U, B, q
      <3> SUFFICES ASSUME NEW i \in DOMAIN q, ~(i \in 1 .. Len(U)) PROVE i - Len(U) \in 1 .. Len(B) /\ q[i] = B[i - Len(U)]
        OBVIOUS
      <3>1. i \in 1 .. Len(U) + Len(B) /\ ~(i <= Len(U)) /\ i - Len(U) \in 1 .. Len(B) BY <2>3
      <3> QED BY <2>3, <3>1
    <2> HIDE DEF q
    <2>5. \A c : c \in UNION {ToSet(q[i].callers) : i \in DOMAIN q} <=> \E i \in DOMAIN q : c \in ToSet(q[i].callers)
      OBVIOUS
    <2>6. \A c : c \in CallersOf(U) \/ c \in CallersOf(B) => \E i \in DOMAIN q : c \in ToSet(q[i].callers)
      <3> SUFFICES ASSUME NEW c, c \in CallersOf(U) \/ c \in CallersOf(B) PROVE \E i \in DOMAIN q : c \in ToSet(q[i].callers)
        OBVIOUS
      <3>1. CASE c \in CallersOf(U)
        <4>1. PICK i \in 1 .. Len(U) : c \in ToSet(U[i].callers) BY <3>1, InQueue
        <4> QED BY <4>1, <2>3
      <3>2. CASE c \in CallersOf(B)
        <4>1. PICK i \in 1 .. Len(B) : c \in ToSet(B[i].callers) BY <3>2, InQueue
        <4>2. i + Len(U) \in DOMAIN q /\ c \in ToSet(q[i + Len(U)].callers) BY <4>1, <2>3
        <4> QED BY <4>2
      <3> QED BY <3>1, <3>2
    <2>7. \A c : (\E i \in DOMAIN q : c \in ToSet(q[i].callers)) => c \in CallersOf(U) \/ c \in CallersOf(B)
      <3> SUFFICES ASSUME NEW c, NEW i \in DOMAIN q, c \in ToSet(q[i].callers) PROVE c \in CallersOf(U) \/ c \in CallersOf(B)
        OBVIOUS
      <3>1. CASE i \in 1 .. Len(U) BY <3>1, <2>3, InQueue
      <3>2. CASE i - Len(U) \in 1 .. Len(B) /\ q[i] = B[i - Len(U)] BY <3>2, InQueue
      <3> QED BY <3>1, <3>2, <2>4
    <2> QED BY <2>2, <2>5, <2>6, <2>7
  <1> HIDE DEF S, U, B
  <1>6. DOMAIN a2 = DOMAIN Calls /\ \A c \in DOMAIN Calls : a2[c] = IF c \in S THEN Some("err") ELSE answers[c]
    BY <1>1
  <1> HIDE DEF a2
  <1>7. \A c \in DOMAIN Calls : a2[c] # Some("open") BY OptionFacts, <1>2, <1>5, <1>6 DEF OnePlace
  <1>8. Unmade(todo, a2)
    <2>1. \A c \in todo : c \notin S BY <1>2, <1>5, UnspentCalls
    <2> QED BY <1>2, <1>6, <2>1 DEF Unmade
  <1>9. Separate(<< >>) /\ CallersOf(<< >>) = {} /\ << >> \in Seq(Waits) BY DEF Separate, CallersOf
  <1>10. OnePlace(<< >>, << >>, << >>, a2) BY <1>6, <1>7, <1>9 DEF OnePlace
  <1>11. mailbox'.urgent = << >> /\ mailbox'.bulk = << >> BY <1>1
  <1> QED BY <1>1, <1>3, <1>4, <1>8, <1>10, <1>11 DEF AnswersInv, a2

\* A control that is begun: its input, its mutation and nothing else.
ControlOf(o, r, in, m, token, what, g) ==
  /\ ~r.err /\ DOMAIN r.owner = OwnerFields
  /\ r.owner.input = Some(in) /\ DOMAIN in = {"what", "gid", "spec"} /\ in.what = what /\ in.gid = g
  /\ r.owner.mutation = Some(m) /\ DOMAIN m = MutationFields /\ m.token = token /\ m.gid = g
  /\ m.replacement = IF what = "approveHostKey" THEN Some(in.spec) ELSE None
  /\ what = "approveHostKey" => in.spec = [catalog[g] EXCEPT !.opts = @ \cup {token}]
  /\ \A f \in OwnerFields \ {"input", "mutation"} : r.owner[f] = o[f]
\* begin_task_control begins a control so, or refuses.
LEMMA ControlBegun ==
  ASSUME NEW o, DOMAIN o = OwnerFields, NEW ord, NEW token, NEW what, NEW g, NEW seq, NEW explicit,
         Free(o), Accepts(what, g)
  PROVE  \E in, m : ControlOf(o, begin_task_control(o, ord, token, what, g, seq, explicit), in, m, token, what, g)
  <1> DEFINE r == begin_task_control(o, ord, token, what, g, seq, explicit)
             pinned == [catalog[g] EXCEPT !.opts = @ \cup {token}]
             spec == IF what = "approveHostKey" THEN pinned ELSE catalog[g]
             in == [what |-> what, gid |-> g, spec |-> spec]
             m == [kind |-> "Control", token |-> token, gid |-> g, readmit |-> what \in {"unpause", "approveHostKey"},
                   replacement |-> IF what = "approveHostKey" THEN Some(pinned) ELSE None]
             o1 == Begin(o, what, g, spec)
             o2 == [o1 EXCEPT !.mutation = Some(m)]
  <1>1. r = [owner |-> o2, order |-> IF explicit /\ marks(what) THEN mark(ord, g, seq) ELSE ord, err |-> FALSE]
    BY DEF begin_task_control
  <1>2. o1.input = Some(in) /\ DOMAIN o1 = OwnerFields /\ \A f \in OwnerFields : f # "input" => o1[f] = o[f]
    BY BegunFields
  <1>0. /\ DOMAIN in = {"what", "gid", "spec"} /\ in.what = what /\ in.gid = g /\ in.spec = spec
        /\ DOMAIN m = MutationFields /\ m.token = token /\ m.gid = g
        /\ m.replacement = IF what = "approveHostKey" THEN Some(pinned) ELSE None
    <2> HIDE DEF pinned, spec
    <2> QED BY DEF MutationFields
  <1> HIDE DEF m, in, o1
  <1>3. DOMAIN o2 = OwnerFields /\ o2.input = Some(in) /\ o2.mutation = Some(m) /\ \A f \in OwnerFields \ {"input", "mutation"} : o2[f] = o[f]
    BY <1>2 DEF OwnerFields
  <1> HIDE DEF o2
  <1>4. r.owner = o2 /\ ~r.err BY <1>1
  <1> HIDE DEF r
  <1> HIDE DEF pinned
  <1>5. m.replacement = IF what = "approveHostKey" THEN Some(in.spec) ELSE None BY <1>0
  <1>6. what = "approveHostKey" => in.spec = pinned BY <1>0
  <1>7. ControlOf(o, r, in, m, token, what, g) BY <1>0, <1>3, <1>4, <1>5, <1>6 DEF ControlOf, pinned
  <1> QED BY <1>7 DEF r

\* A bulk control that goes on.
LEMMA BulkGoesOn ==
  ASSUME NEW x, NEW b \in Bulks, x = Some(b), NEW b2, b2.token = b.token, NEW x2, x2 = Some(b2)
  PROVE  KeepsToken(x, x2)
  BY OptionFacts DEF KeepsToken, Is

\* A bulk control goes on to its next member, or ends.
LEMMA BulkAnswers ==
  ASSUME ControlInv, AnswersInv, poll_bulk_control
  PROVE  AnswersInv'
  <1> DEFINE F == Unspent(todo, mailbox.urgent, mailbox.bulk)
             b == The(owner.bulk)
             o2 == owner'
             g == Head(b.targets)
             r == begin_task_control(owner, order, BulkMember, b.what, g, b.seq, FALSE)
             Adv(o, member) == [o EXCEPT !.bulk = Some([b EXCEPT !.targets = Tail(@), !.member = member]), !.streak = 0]
             Acts2 == owner' = Adv(r.owner, Some("waiting")) /\ waiting' = waiting
             Ends(x) == waiting' = Resolve(waiting, b.token, x) /\ owner' = [owner EXCEPT !.bulk = None, !.streak = 0]
  <1>0. DOMAIN owner = OwnerFields BY OwnerDomain
  <1>1. Turn /\ Is(owner.bulk) /\ UNCHANGED <<todo, mailbox, answers, catalog, store>>
    BY DEF poll_bulk_control
  <1>2. Ready(owner) /\ owner.phase = "running" BY <1>1, TurnReady
  <1>3. F \in SUBSET (DOMAIN Calls) /\ F \in SUBSET F /\ waiting \in Seq(Waits) /\ Pledges(waiting, owner, F) /\ Exclusive(owner) /\ Planned(owner, catalog)
    BY <1>2, AnswersFacts
  <1>4. b \in Bulks /\ owner.bulk = Some(b)
    <2>1. PICK x \in Bulks : owner.bulk = Some(x) BY <1>1 DEF ControlInv, Consistent, Continues
    <2> QED BY <2>1, OptionFacts
  <1>5. \/ \E b2 \in {[b EXCEPT !.member = None], [b EXCEPT !.targets = Tail(@), !.member = None]} :
             \E x : owner' = [owner EXCEPT !.bulk = Some(b2), !.streak = x] /\ waiting' = waiting
        \/ \E x \in Results : Ends(x)
        \/ ~r.err /\ Acts2
    <2> DEFINE b3 == [b EXCEPT !.member = None]
    <2>1. CASE b.member = Some("ok")
      <3>9. ~(Some("ok") = Some("err")) BY OptionFacts, "ok" # "err"
      <3>0. owner' = [owner EXCEPT !.bulk = Some(b3)] /\ UNCHANGED <<waiting, acted>>
        BY <2>1, <3>9, Zenon DEF poll_bulk_control
      <3>1. owner' = [owner EXCEPT !.bulk = Some(b3)] /\ waiting' = waiting BY <3>0
      <3>2. [owner EXCEPT !.bulk = Some(b3)] = [owner EXCEPT !.bulk = Some(b3), !.streak = owner.streak]
        <4> HIDE DEF b3
        <4> QED BY <1>0 DEF OwnerFields
      <3> QED BY <3>1, <3>2
    <2>2. CASE b.member # Some("ok") /\ b.member = Some("err") BY <2>2 DEF poll_bulk_control, Results
    <2>3. CASE b.member # Some("ok") /\ b.member # Some("err")
      <3>1. IF b.targets = << >> THEN Ends("ok")
            ELSE IF Superseded(b) THEN owner' = Adv(owner, None) /\ waiting' = waiting
            ELSE IF r.err THEN Ends("err") ELSE Acts2
        BY <2>3, Zenon DEF poll_bulk_control
      <3>2. "ok" \in Results /\ "err" \in Results BY DEF Results
      <3> HIDE DEF r, Acts2, Ends
      <3> QED BY <3>1, <3>2
    <2> QED BY <2>1, <2>2, <2>3
  <1>6. ASSUME NEW b2, b2.token = b.token, NEW x, owner' = [owner EXCEPT !.bulk = Some(b2), !.streak = x], waiting' = waiting
        PROVE  AnswersInv'
    <2>1. /\ o2.input = owner.input /\ o2.mutation = owner.mutation /\ o2.admission = owner.admission /\ o2.sources = owner.sources
          /\ o2.export = owner.export /\ o2.bulk = Some(b2) /\ \A k \in Kinds : k # "bulk" => o2[k] = owner[k]
      BY <1>0, <1>6 DEF OwnerFields, Kinds
    <2> HIDE DEF o2, b
    <2>2. \A k \in Kinds : KeepsToken(owner[k], o2[k]) BY <1>4, <1>6, <2>1, BulkGoesOn DEF KeepsToken
    <2>3. SameTokens(owner, o2) BY <2>1, <2>2, FieldsKeep DEF SameSources
    <2>4. Exclusive(o2) /\ Planned(o2, catalog) BY <1>3, <2>1, WorkKept
    <2> HIDE DEF F
    <2>5. Pledges(waiting, o2, F) BY <1>3, <2>3, PledgesKept
    <2> QED BY <1>1, <1>6, <2>1, <2>4, <2>5, AnswersFacts, QuietAnswers DEF o2, F
  <1>7. CASE \E b2 \in {[b EXCEPT !.member = None], [b EXCEPT !.targets = Tail(@), !.member = None]} :
               \E x : owner' = [owner EXCEPT !.bulk = Some(b2), !.streak = x] /\ waiting' = waiting
    <2>1. PICK b2 \in {[b EXCEPT !.member = None], [b EXCEPT !.targets = Tail(@), !.member = None]} :
               \E x : owner' = [owner EXCEPT !.bulk = Some(b2), !.streak = x] /\ waiting' = waiting
      BY <1>7
    <2>2. b2.token = b.token
      <3> HIDE DEF b
      <3> QED BY <1>4, <2>1 DEF Bulks
    <2> QED BY <2>1, <2>2, <1>6
  <1>8. ASSUME NEW x \in Results, Ends(x) PROVE AnswersInv'
    BY <1>0, <1>8, <1>1, <1>2, ContinuationEnds DEF OwnerFields, Is
  <1>9. CASE ~r.err /\ Acts2
    <2> DEFINE o1 == r.owner
               b2 == [b EXCEPT !.targets = Tail(@), !.member = Some("waiting")]
    <2>1. Free(owner) /\ Accepts(b.what, g)
      <3> SUFFICES ASSUME ~Free(owner) \/ ~Accepts(b.what, g) PROVE r.err BY <1>9
      <3>1. r = [owner |-> owner, order |-> order, err |-> TRUE] BY DEF begin_task_control
      <3> HIDE DEF r
      <3> QED BY <3>1
    <2>0. PICK in, m : ControlOf(owner, r, in, m, BulkMember, b.what, g) BY <1>0, <2>1, ControlBegun
    <2>2. /\ DOMAIN o1 = OwnerFields /\ o1.input = Some(in) /\ o1.mutation = Some(m)
          /\ \A f \in OwnerFields \ {"input", "mutation"} : o1[f] = owner[f]
      BY <2>0 DEF ControlOf
    <2>3. b.what \in {"pause", "unpause", "removeDownloadResult"} /\ b2.token = b.token BY <1>4 DEF Bulks
    <2>4. /\ DOMAIN in = {"what", "gid", "spec"} /\ in.what = b.what
          /\ DOMAIN m = MutationFields /\ m.replacement = None /\ m.token = BulkMember
      BY <2>0, <2>3 DEF ControlOf
    <2>5. owner' = [o1 EXCEPT !.bulk = Some(b2), !.streak = 0] /\ waiting' = waiting BY <1>9
    <2> HIDE DEF o1, b2, r, g
    <2>6. /\ o2.input = Some(in) /\ o2.mutation = Some(m) /\ o2.admission = owner.admission /\ o2.sources = owner.sources
          /\ o2.export = owner.export /\ o2.bulk = Some(b2) /\ o2.configuration = owner.configuration
      BY <2>2, <2>5 DEF OwnerFields
    <2> HIDE DEF o2
    <2>7. Is(o2.input) /\ The(o2.input) = in /\ Is(o2.mutation) /\ The(o2.mutation) = m
      BY <2>6, OptionFacts DEF Is
    <2>8. in.what \notin WritesOptions /\ in.what # "commit_sources" BY <2>3, <2>4 DEF WritesOptions
    <2>9. Exclusive(o2) /\ Planned(o2, catalog) BY <1>2, <2>6, <1>3, <2>4, <2>7, <2>8, WorkBegun DEF Ready
    <2> HIDE DEF b
    <2>10. \A k \in Kinds : KeepsToken(owner[k], o2[k])
      BY <1>4, <2>3, <2>6, BulkGoesOn, <1>2, <2>4, <2>7, TokensAssumption DEF KeepsToken, Ready, Kinds
    <2>11. SameTokens(owner, o2) BY <2>6, <2>10, FieldsKeep DEF SameSources
    <2> HIDE DEF F
    <2>12. Pledges(waiting, o2, F) BY <1>3, <2>11, PledgesKept
    <2> QED BY <1>1, <2>5, <2>6, <2>9, <2>12, AnswersFacts, QuietAnswers DEF o2, F
  <1> QED BY <1>5, <1>7, <1>8, <1>9

-----------------------------------------------------------------------------
(* The end of an input.                                                    *)

\* A specification for every task.
SpecsWhole(cat) == cat = [h \in Gids |-> cat[h]] /\ \A h \in Gids : Shaped(cat[h])

\* The specification of a task is replaced, its options, or its sources.
SetSpec(cat, g, spec) == [cat EXCEPT ![g] = spec]
SetOptions(cat, g, spec) == [cat EXCEPT ![g] = [cat[g] EXCEPT !.opts = spec.opts]]
SetSources(cat, g, spec) == [cat EXCEPT ![g] = [cat[g] EXCEPT !.srcs = spec.srcs]]

\* What an input writes to the options of a task is what its mutation puts into the catalogue.
LEMMA OptionsWritten ==
  ASSUME NEW cat, SpecsWhole(cat), NEW g, NEW spec,
         g \in Gids => Shaped(spec) /\ spec.srcs = cat[g].srcs
  PROVE  /\ SetOptions(cat, g, spec) = SetSpec(cat, g, spec) /\ SpecsWhole(SetSpec(cat, g, spec))
         /\ \A h \in Gids : h # g => SetSpec(cat, g, spec)[h] = cat[h]
  <1>0. cat = [h \in Gids |-> cat[h]] /\ \A h \in Gids : Shaped(cat[h]) BY DEF SpecsWhole
  <1> DEFINE cat2 == [cat EXCEPT ![g] = spec]
             spec2 == [cat[g] EXCEPT !.opts = spec.opts]
  <1>1. CASE g \in Gids
    <2>1. spec2 = spec BY <1>0, <1>1 DEF Shaped
    <2> HIDE DEF spec2
    <2>2. cat2 = [h \in Gids |-> IF h = g THEN spec ELSE cat[h]] BY <1>0, <1>1
    <2>3. \A h \in Gids : cat2[h] = IF h = g THEN spec ELSE cat[h] BY <2>2
    <2>4. cat2 = [h \in Gids |-> cat2[h]] BY <2>2
    <2>5. [cat EXCEPT ![g] = spec2] = cat2 BY <2>1
    <2> HIDE DEF cat2
    <2>6. \A h \in Gids : Shaped(cat2[h]) BY <1>0, <1>1, <2>3
    <2> QED BY <2>3, <2>4, <2>5, <2>6 DEF SpecsWhole, SetSpec, SetOptions, cat2, spec2
  <1>2. CASE g \notin Gids
    <2>1. cat2 = cat BY <1>0, <1>2
    <2>2. [cat EXCEPT ![g] = spec2] = cat
      <3> HIDE DEF spec2
      <3> QED BY <1>0, <1>2
    <2> HIDE DEF cat2
    <2> QED BY <1>0, <2>1, <2>2 DEF SpecsWhole, SetSpec, SetOptions, cat2, spec2
  <1> QED BY <1>1, <1>2

\* And so is what it writes to the sources.
LEMMA SourcesWritten ==
  ASSUME NEW cat, SpecsWhole(cat), NEW g, NEW spec,
         g \in Gids => Shaped(spec) /\ spec.opts = cat[g].opts
  PROVE  /\ SetSources(cat, g, spec) = SetSpec(cat, g, spec) /\ SpecsWhole(SetSpec(cat, g, spec))
         /\ \A h \in Gids : h # g => SetSpec(cat, g, spec)[h] = cat[h]
  <1>0. cat = [h \in Gids |-> cat[h]] /\ \A h \in Gids : Shaped(cat[h]) BY DEF SpecsWhole
  <1> DEFINE cat2 == [cat EXCEPT ![g] = spec]
             spec2 == [cat[g] EXCEPT !.srcs = spec.srcs]
  <1>1. CASE g \in Gids
    <2>1. spec2 = spec BY <1>0, <1>1 DEF Shaped
    <2> HIDE DEF spec2
    <2>2. cat2 = [h \in Gids |-> IF h = g THEN spec ELSE cat[h]] BY <1>0, <1>1
    <2>3. \A h \in Gids : cat2[h] = IF h = g THEN spec ELSE cat[h] BY <2>2
    <2>4. cat2 = [h \in Gids |-> cat2[h]] BY <2>2
    <2>5. [cat EXCEPT ![g] = spec2] = cat2 BY <2>1
    <2> HIDE DEF cat2
    <2>6. \A h \in Gids : Shaped(cat2[h]) BY <1>0, <1>1, <2>3
    <2> QED BY <2>3, <2>4, <2>5, <2>6 DEF SpecsWhole, SetSpec, SetSources, cat2, spec2
  <1>2. CASE g \notin Gids
    <2>1. cat2 = cat BY <1>0, <1>2
    <2>2. [cat EXCEPT ![g] = spec2] = cat
      <3> HIDE DEF spec2
      <3> QED BY <1>0, <1>2
    <2> HIDE DEF cat2
    <2> QED BY <1>0, <2>1, <2>2 DEF SpecsWhole, SetSpec, SetSources, cat2, spec2
  <1> QED BY <1>1, <1>2

\* The input is done; no replacement was committed by it.
LEMMA WorkDone ==
  ASSUME NEW o, NEW o2, NEW cat, NEW cat2, Exclusive(o), Planned(o, cat), Is(o.input), The(o.input).what # "commit_sources",
         o2.admission = o.admission, o2.sources = o.sources, \A h \in DOMAIN o.sources : h \in Gids => cat2[h] = cat[h],
         \/ ~Is(o2.input) /\ ~Is(o2.mutation)
         \/ /\ Is(o2.input) /\ DOMAIN The(o2.input) = {"what", "gid", "spec"} /\ The(o2.input).what = "admit"
            /\ Is(o2.mutation) => DOMAIN The(o2.mutation) = MutationFields /\ The(o2.mutation).replacement = None
  PROVE  Exclusive(o2) /\ Planned(o2, cat2)
  <1>0. "admit" # "commit_sources" /\ "admit" \notin WritesOptions BY DEF WritesOptions
  <1>1. Is(o.admission) => /\ DOMAIN The(o.admission) = {"stage", "token", "import"} /\ The(o.admission).stage \in AdmissionStages
                           /\ The(o.admission).stage \in {"Preparing", "Ready"}
    BY DEF Exclusive
  <1>2. Exclusive(o2) BY <1>1, Zenon DEF Exclusive, MutationFields
  <1>3. \A g \in DOMAIN o.sources : ~o.sources[g].committing BY DEF Planned
  <1>4. \A g \in DOMAIN o.sources : g \in Gids => Shaped(o.sources[g].replacement) /\ o.sources[g].replacement.opts = cat2[g].opts
    BY DEF Planned
  <1>5. CASE ~Is(o2.input) /\ ~Is(o2.mutation) BY <1>2, <1>3, <1>4, <1>5, Zenon DEF Planned
  <1>6. CASE /\ Is(o2.input) /\ DOMAIN The(o2.input) = {"what", "gid", "spec"} /\ The(o2.input).what = "admit"
             /\ Is(o2.mutation) => DOMAIN The(o2.mutation) = MutationFields /\ The(o2.mutation).replacement = None
    BY <1>0, <1>2, <1>3, <1>4, <1>6, Zenon DEF Planned
  <1> QED BY <1>2, <1>5, <1>6

\* A replacement that is published leaves the others as they are.
LEMMA WorkPublished ==
  ASSUME NEW o, NEW o2, NEW cat, NEW cat2, Exclusive(o), Planned(o, cat), Is(o.input), The(o.input).what = "commit_sources",
         ~Is(o2.input), ~Is(o2.mutation), o2.admission = o.admission, NEW g, g = The(o.input).gid,
         DOMAIN o2.sources = DOMAIN o.sources \ {g}, \A h \in DOMAIN o2.sources : o2.sources[h] = o.sources[h],
         \A h \in Gids : h # g => cat2[h] = cat[h]
  PROVE  Exclusive(o2) /\ Planned(o2, cat2)
  <1>1. Is(o.admission) => /\ DOMAIN The(o.admission) = {"stage", "token", "import"} /\ The(o.admission).stage \in AdmissionStages
                           /\ The(o.admission).stage \in {"Preparing", "Ready"}
    BY DEF Exclusive
  <1>2. \A h \in DOMAIN o2.sources : DOMAIN o2.sources[h] = {"token", "committing", "replacement"}
    BY DEF Exclusive
  <1>3. Exclusive(o2) BY <1>1, <1>2, Zenon DEF Exclusive
  <1>4. \A h \in DOMAIN o2.sources : /\ h \in Gids => Shaped(o2.sources[h].replacement) /\ o2.sources[h].replacement.opts = cat2[h].opts
                                     /\ ~o2.sources[h].committing
    BY DEF Planned
  <1>5. Planned(o2, cat2) BY <1>4, Zenon DEF Planned
  <1> QED BY <1>3, <1>5

\* What becomes of the catalogue, the owner and the replies when an input is
\* done: d is the owner without it.
PublishedCatalog == IF Is(owner.mutation) THEN Published(catalog, The(owner.mutation)) ELSE catalog
Replying(d) == IF Is(owner.mutation) THEN Replied(d, waiting, The(owner.mutation)) ELSE [owner |-> d, waiting |-> waiting]
Readmits(d) ==
  /\ Is(owner.mutation) /\ catalog' = PublishedCatalog /\ waiting' = waiting
  /\ owner' = Begin([d EXCEPT !.mutation = Some([The(owner.mutation) EXCEPT !.readmit = FALSE, !.replacement = None])],
                    "admit", The(owner.mutation).gid, PublishedCatalog[The(owner.mutation).gid])
Settles(d) ==
  /\ owner' = publish_committed_sources(Replying(d).owner, PublishedCatalog, Replying(d).waiting).owner
  /\ catalog' = publish_committed_sources(Replying(d).owner, PublishedCatalog, Replying(d).waiting).catalog
  /\ waiting' = publish_committed_sources(Replying(d).owner, PublishedCatalog, Replying(d).waiting).waiting
Without_input(d) == DOMAIN d = OwnerFields /\ ~Is(d.input) /\ \A f \in OwnerFields \ {"input", "restarts"} : d[f] = owner[f]

\* How an input ends.
LEMMA FinishCases ==
  ASSUME ControlInv, finish_input
  PROVE  \E d : Without_input(d) /\ (Readmits(d) \/ Settles(d))
  <1>0. DOMAIN owner = OwnerFields BY OwnerDomain
  <1> DEFINE in == The(owner.input)
             retired == IF in.what \in {"admit", "finished"} \/ Moved(in) \in {"stopped", "absent"} THEN {in.gid} ELSE {}
             d == [owner EXCEPT !.input = None, !.restarts = @ \ retired]
             m == The(owner.mutation)
             c == /\ Is(owner.mutation) /\ m.readmit /\ tasks'[m.gid] = "waiting"
                  /\ m.gid \notin DOMAIN d.sources /\ ~d.shutdown /\ ~Is(d.configuration)
  <1>1. IF c THEN Is(owner.mutation) /\ Readmits(d) ELSE Settles(d)
    BY Zenon DEF finish_input, Readmits, Settles, PublishedCatalog, Replying
  <1>2. Without_input(d)
    <2> HIDE DEF retired
    <2> QED BY <1>0 DEF Without_input, OwnerFields, Is
  <1> HIDE DEF c
  <1> QED BY <1>1, <1>2

\* The database after an input that publishes no replacement.
LEMMA FinishSpecs ==
  ASSUME ControlInv, AnswersInv, finish_input, The(owner.input).what # "commit_sources"
  PROVE  /\ store' = PublishedCatalog /\ SpecsWhole(PublishedCatalog) /\ Committed(owner) = {}
         /\ \A h \in DOMAIN owner.sources : h \in Gids => PublishedCatalog[h] = catalog[h]
  <1> DEFINE in == The(owner.input)
             m == The(owner.mutation)
  <1>1. owner.phase = "running" /\ Is(owner.input) /\ store' = [store EXCEPT ![in.gid] = Stored(in)]
    BY DEF finish_input
  <1>2. catalog = store /\ SpecsWhole(catalog) /\ Planned(owner, catalog)
    BY <1>1, AnswersFacts DEF SameSpecs, SpecsWhole
  <1>3. Committed(owner) = {} BY <1>2 DEF Planned, Committed
  <1>4. CASE in.what \in WritesOptions
    <2>1. /\ Is(owner.mutation) /\ m.gid = in.gid /\ m.replacement = Some(in.spec) /\ in.gid \notin DOMAIN owner.sources
          /\ in.gid \in Gids => Shaped(in.spec) /\ in.spec.srcs = catalog[in.gid].srcs
      BY <1>1, <1>2, <1>4, Zenon DEF Planned
    <2>2. Is(m.replacement) /\ The(m.replacement) = in.spec BY <2>1, OptionFacts DEF Is
    <2>3. PublishedCatalog = SetSpec(catalog, in.gid, in.spec)
      BY <2>1, <2>2 DEF PublishedCatalog, Published, SetSpec
    <2>4. Stored(in) = [store[in.gid] EXCEPT !.opts = in.spec.opts] BY <1>4 DEF Stored, WritesOptions
    <2>5. store' = SetOptions(catalog, in.gid, in.spec) BY <1>1, <1>2, <2>4 DEF SetOptions
    <2> HIDE DEF in, m
    <2> QED BY <1>2, <1>3, <2>1, <2>3, <2>5, OptionsWritten
  <1>5. CASE in.what \notin WritesOptions
    BY <1>1, <1>2, <1>5, <1>3 DEF Planned, PublishedCatalog, Published, Is, Stored, WritesOptions, SpecsWhole
  <1> QED BY <1>4, <1>5

\* The database after an input that commits a replacement.
LEMMA CommitSpecs ==
  ASSUME ControlInv, AnswersInv, finish_input, The(owner.input).what = "commit_sources", NEW g, g = The(owner.input).gid
  PROVE  /\ ~Is(owner.mutation) /\ g \in DOMAIN owner.sources /\ Committed(owner) = {g}
         /\ store' = [catalog EXCEPT ![g] = owner.sources[g].replacement] /\ SpecsWhole(store')
         /\ \A h \in Gids : h # g => store'[h] = catalog[h]
  <1> DEFINE in == The(owner.input)
             spec == owner.sources[g].replacement
  <1>1. owner.phase = "running" /\ Is(owner.input) /\ store' = [store EXCEPT ![g] = Stored(in)]
    BY DEF finish_input
  <1>2. catalog = store /\ SpecsWhole(catalog) /\ Planned(owner, catalog)
    BY <1>1, AnswersFacts DEF SameSpecs, SpecsWhole
  <1>3. ~Is(owner.mutation) /\ g \in DOMAIN owner.sources /\ owner.sources[g].committing /\ in.spec = spec
    BY <1>1, <1>2, Zenon DEF Planned
  <1>4. Committed(owner) = {g} BY <1>2, <1>3 DEF Planned, Committed
  <1>5. g \in Gids => Shaped(spec) /\ spec.opts = catalog[g].opts BY <1>2, <1>3 DEF Planned
  <1>6. Stored(in) = [store[g] EXCEPT !.srcs = spec.srcs] BY <1>3 DEF Stored
  <1> HIDE DEF spec, in
  <1>7. store' = SetSources(catalog, g, spec) BY <1>1, <1>2, <1>6 DEF SetSources
  <1>8. store' = SetSpec(catalog, g, spec) /\ SpecsWhole(store') /\ \A h \in Gids : h # g => store'[h] = catalog[h]
    BY <1>2, <1>5, <1>7, SourcesWritten
  <1> QED BY <1>3, <1>4, <1>8 DEF SetSpec, spec

\* A step that publishes, with the queues and the answers as they are.
LEMMA PublishedAnswers ==
  ASSUME ControlInv, AnswersInv, UNCHANGED <<todo, mailbox, answers>>, OnePlace(waiting', mailbox.urgent, mailbox.bulk, answers),
         catalog' = store', SpecsWhole(store'), owner'.export = owner.export,
         Pledges(waiting', owner', Unspent(todo, mailbox.urgent, mailbox.bulk)), Exclusive(owner'), Planned(owner', catalog')
  PROVE  AnswersInv'
  <1>1. SameSpecs(owner', catalog', store') BY AnswersFacts, Zenon DEF SameSpecs, SpecsWhole
  <1> QED BY <1>1, Zenon DEF AnswersInv

\* An input has been carried out.
LEMMA FinishAnswers ==
  ASSUME ControlInv, AnswersInv, finish_input
  PROVE  AnswersInv'
  <1> DEFINE F == Unspent(todo, mailbox.urgent, mailbox.bulk)
             in == The(owner.input)
             m == The(owner.mutation)
             P == PublishedCatalog
             o2 == owner'
  <1>0. DOMAIN owner = OwnerFields BY OwnerDomain
  <1>1. owner.phase = "running" /\ Is(owner.input) /\ UNCHANGED <<todo, mailbox, answers>> BY DEF finish_input
  <1>2. PICK d : Without_input(d) /\ (Readmits(d) \/ Settles(d)) BY FinishCases
  <1>3. /\ F \in SUBSET (DOMAIN Calls) /\ F \in SUBSET F /\ waiting \in Seq(Waits) /\ Pledges(waiting, owner, F) /\ Exclusive(owner) /\ Planned(owner, catalog)
        /\ OnePlace(waiting, mailbox.urgent, mailbox.bulk, answers)
    BY <1>1, AnswersFacts
  <1>4. Is(owner.mutation) => in.what # "commit_sources" /\ DOMAIN m = MutationFields
    BY <1>1, <1>3, Zenon DEF Exclusive, Planned, MutationFields
  <1>5. /\ DOMAIN d = OwnerFields /\ ~Is(d.input) /\ d.mutation = owner.mutation /\ d.admission = owner.admission /\ d.sources = owner.sources
        /\ d.export = owner.export /\ d.bulk = owner.bulk /\ d.configuration = owner.configuration
    BY <1>2 DEF Without_input, OwnerFields
  <1>6. \A k \in Kinds : d[k] = owner[k] BY <1>5 DEF Kinds
  <1>7. "ok" \in Results BY DEF Results
  <1>8. CASE Readmits(d)
    <2> DEFINE m2 == [m EXCEPT !.readmit = FALSE, !.replacement = None]
               d2 == [d EXCEPT !.mutation = Some(m2)]
               in2 == [what |-> "admit", gid |-> m.gid, spec |-> P[m.gid]]
    <2>1. Is(owner.mutation) /\ catalog' = P /\ waiting' = waiting /\ owner' = Begin(d2, "admit", m.gid, P[m.gid])
      BY <1>8 DEF Readmits
    <2>2. DOMAIN m2 = MutationFields /\ m2.token = m.token /\ m2.replacement = None
      BY <1>4, <2>1 DEF MutationFields
    <2> HIDE DEF m2
    <2>3. DOMAIN d2 = OwnerFields /\ d2.mutation = Some(m2) /\ \A f \in OwnerFields : f # "mutation" => d2[f] = d[f]
      BY <1>5 DEF OwnerFields
    <2> HIDE DEF d2
    <2>4. /\ o2.input = Some(in2) /\ Is(o2.input) /\ The(o2.input) = in2 /\ DOMAIN in2 = {"what", "gid", "spec"}
          /\ DOMAIN o2 = OwnerFields /\ \A f \in OwnerFields : f # "input" => o2[f] = d2[f]
      BY <2>1, <2>3, BegunFields
    <2>5. in2.what = "admit" OBVIOUS
    <2> HIDE DEF o2, in2
    <2>6. /\ o2.mutation = Some(m2) /\ o2.admission = owner.admission /\ o2.sources = owner.sources /\ o2.export = owner.export
          /\ o2.bulk = owner.bulk /\ o2.configuration = owner.configuration
      BY <1>5, <2>3, <2>4 DEF OwnerFields
    <2>7. Is(o2.mutation) /\ The(o2.mutation) = m2 BY <2>6, OptionFacts DEF Is
    <2>8. store' = P /\ SpecsWhole(P) /\ \A h \in DOMAIN owner.sources : h \in Gids => P[h] = catalog[h]
      BY <1>4, <2>1, FinishSpecs
    <2>9. Exclusive(o2) /\ Planned(o2, P)
      <3>1. /\ Is(o2.input) /\ DOMAIN The(o2.input) = {"what", "gid", "spec"} /\ The(o2.input).what = "admit"
            /\ Is(o2.mutation) => DOMAIN The(o2.mutation) = MutationFields /\ The(o2.mutation).replacement = None
        BY <2>2, <2>4, <2>5, <2>7
      <3>2. The(owner.input).what # "commit_sources" BY <1>4, <2>1
      <3> HIDE DEF P
      <3> QED BY <1>1, <1>3, <2>6, <2>8, <3>1, <3>2, WorkDone
    <2>10. \A k \in Kinds : KeepsToken(owner[k], o2[k]) BY <2>1, <2>2, <2>7, <2>6 DEF KeepsToken, Kinds
    <2>11. SameTokens(owner, o2) BY <2>6, <2>10, FieldsKeep DEF SameSources
    <2> HIDE DEF F
    <2>12. Pledges(waiting, o2, F) BY <1>3, <2>11, PledgesKept
    <2> QED BY <1>1, <1>3, <2>1, <2>6, <2>8, <2>9, <2>12, PublishedAnswers DEF o2, F
  <1>9. CASE Settles(d) /\ in.what = "commit_sources"
    <2> DEFINE g == in.gid
               s == Without(owner.sources, {g})
    <2>1. /\ ~Is(owner.mutation) /\ g \in DOMAIN owner.sources /\ Committed(owner) = {g}
          /\ store' = [catalog EXCEPT ![g] = owner.sources[g].replacement] /\ SpecsWhole(store')
          /\ \A h \in Gids : h # g => store'[h] = catalog[h]
      BY <1>9, CommitSpecs
    <2>2. P = catalog /\ Replying(d).owner = d /\ Replying(d).waiting = waiting
      BY <2>1 DEF PublishedCatalog, Replying
    <2>3. Committed(d) = {g} BY <1>5, <2>1 DEF Committed
    <2>4. (CHOOSE x \in Committed(d) : TRUE) = g BY <2>3
    <2>5. publish_committed_sources(d, catalog, waiting) =
            [owner |-> [d EXCEPT !.sources = Without(@, {g})], catalog |-> [catalog EXCEPT ![g] = d.sources[g].replacement],
             waiting |-> Resolve(waiting, d.sources[g].token, "ok")]
      BY <2>3, <2>4 DEF publish_committed_sources
    <2> HIDE DEF g
    <2>6. /\ owner' = [d EXCEPT !.sources = s] /\ catalog' = store' /\ waiting' = Resolve(waiting, owner.sources[g].token, "ok")
      BY <1>9, <2>2, <2>5, <1>5, <2>1 DEF Settles
    <2>7. DOMAIN s = DOMAIN owner.sources \ {g} /\ \A h \in DOMAIN s : s[h] = owner.sources[h] BY DEF Without
    <2> HIDE DEF s
    <2>8. /\ o2.sources = s /\ o2.input = d.input /\ o2.mutation = owner.mutation /\ o2.admission = owner.admission /\ o2.export = owner.export
          /\ o2.bulk = owner.bulk /\ o2.configuration = owner.configuration
      BY <1>5, <2>6 DEF OwnerFields
    <2> HIDE DEF o2
    <2>9. Exclusive(o2) /\ Planned(o2, catalog')
      <3>1. ~Is(o2.input) /\ ~Is(o2.mutation) BY <1>5, <2>1, <2>8
      <3>2. \A h \in Gids : h # g => catalog'[h] = catalog[h] BY <2>1, <2>6
      <3>3. The(owner.input).what = "commit_sources" /\ g = The(owner.input).gid BY <1>9 DEF g
      <3> DEFINE cat2 == catalog'
      <3> HIDE DEF cat2
      <3>4. \A h \in Gids : h # g => cat2[h] = catalog[h] BY <3>2 DEF cat2
      <3>5. Exclusive(o2) /\ Planned(o2, cat2) BY <1>1, <1>3, <2>7, <2>8, <3>1, <3>3, <3>4, WorkPublished
      <3> QED BY <3>5 DEF cat2
    <2>10. EndsOne(owner, o2, owner.sources[g].token) BY <2>8, <2>1, <2>7, SourceEnds DEF Kinds
    <2> HIDE DEF F
    <2>11. Pledges(waiting', o2, F) BY <1>3, <1>7, <2>6, <2>10, PledgesResolved
    <2>12. OnePlace(waiting', mailbox.urgent, mailbox.bulk, answers) BY <1>3, <1>7, <2>6, PlacesResolved
    <2> QED BY <1>1, <2>1, <2>6, <2>8, <2>9, <2>11, <2>12, PublishedAnswers DEF o2, F
  <1>10. CASE Settles(d) /\ in.what # "commit_sources"
    <2>1. store' = P /\ SpecsWhole(P) /\ Committed(owner) = {} /\ \A h \in DOMAIN owner.sources : h \in Gids => P[h] = catalog[h]
      BY <1>10, FinishSpecs
    <2> DEFINE o1 == Replying(d).owner
               w1 == Replying(d).waiting
    <2>2. /\ o1.sources = owner.sources /\ o1.admission = owner.admission /\ o1.export = owner.export
          /\ ~Is(o1.input) /\ ~Is(o1.mutation) /\ Pledges(w1, o1, F) /\ OnePlace(w1, mailbox.urgent, mailbox.bulk, answers)
      <3>1. CASE ~Is(owner.mutation)
        <4>1. o1 = d /\ w1 = waiting BY <3>1 DEF Replying
        <4>2. SameTokens(owner, d) BY <1>5, <1>6, FieldsSame
        <4> HIDE DEF F, o1, w1
        <4>3. Pledges(waiting, d, F) BY <1>3, <4>2, PledgesKept
        <4> QED BY <1>3, <1>5, <3>1, <4>1, <4>3
      <3>2. CASE Is(owner.mutation) /\ m.token \in DOMAIN Calls
        <4>1. o1 = [d EXCEPT !.mutation = None] /\ w1 = Resolve(waiting, m.token, "ok")
          BY <3>2 DEF Replying, Replied
        <4> HIDE DEF o1, w1
        <4>2. /\ o1.sources = owner.sources /\ o1.admission = owner.admission /\ o1.export = owner.export /\ o1.input = d.input
              /\ ~Is(o1.mutation) /\ o1.bulk = owner.bulk /\ o1.configuration = owner.configuration
          BY <1>5, <4>1 DEF OwnerFields, Is
        <4>3. EndsOne(owner, o1, m.token) BY <4>2, <3>2, FieldEnds DEF Kinds
        <4> HIDE DEF F
        <4>4. Pledges(w1, o1, F) BY <1>3, <1>7, <4>1, <4>3, PledgesResolved
        <4>5. OnePlace(w1, mailbox.urgent, mailbox.bulk, answers) BY <1>3, <1>7, <4>1, PlacesResolved
        <4> QED BY <1>5, <4>2, <4>4, <4>5
      <3>3. CASE Is(owner.mutation) /\ m.token \notin DOMAIN Calls
        <4> DEFINE b2 == [The(d.bulk) EXCEPT !.member = Some("ok")]
        <4>1. o1 = [d EXCEPT !.mutation = None, !.bulk = Some(b2)] /\ w1 = waiting
          BY <3>3 DEF Replying, Replied
        <4>2. PICK b \in Bulks : owner.bulk = Some(b) BY <3>3 DEF ControlInv, Consistent, Continues
        <4>3. The(d.bulk) = b BY <1>5, <4>2, OptionFacts
        <4>4. b2.token = b.token BY <4>3 DEF Bulks
        <4> HIDE DEF o1, w1, b2
        <4>5. /\ o1.sources = owner.sources /\ o1.admission = owner.admission /\ o1.export = owner.export /\ o1.input = d.input
              /\ ~Is(o1.mutation) /\ o1.bulk = Some(b2) /\ o1.configuration = owner.configuration
          BY <1>5, <4>1 DEF OwnerFields, Is
        <4>6. SameTokens(owner, o1)
          BY <4>2, <4>4, <4>5, BulkGoesOn, <3>3, FieldsKeep DEF KeepsToken, Kinds, SameSources
        <4> HIDE DEF F
        <4>7. Pledges(waiting, o1, F) BY <1>3, <4>6, PledgesKept
        <4> QED BY <1>3, <1>5, <4>1, <4>5, <4>7
      <3> QED BY <3>1, <3>2, <3>3
    <2>3. Committed(o1) = {}
      <3> HIDE DEF o1
      <3> QED BY <2>1, <2>2 DEF Committed
    <2>4. publish_committed_sources(o1, P, w1) = [owner |-> o1, catalog |-> P, waiting |-> w1]
      BY <2>3, Zenon DEF publish_committed_sources
    <2>5. owner' = o1 /\ catalog' = P /\ waiting' = w1 BY <1>10, <2>4 DEF Settles
    <2> HIDE DEF o1, w1, P, in, F
    <2>6. Exclusive(o1) /\ Planned(o1, P) BY <1>10, <1>1, <1>3, <2>1, <2>2, WorkDone DEF in
    <2> QED BY <1>1, <2>1, <2>2, <2>5, <2>6, PublishedAnswers DEF F
  <1> QED BY <1>2, <1>8, <1>9, <1>10
-----------------------------------------------------------------------------
(* What a dispatched command starts.                                       *)

\* A call is begun, or refused with a result.
CallBegun(o, r, t) ==
  /\ r.ready \in {None, Some("err"), Some("Busy")}
  /\ IF Is(r.ready) THEN SameTokens(o, r.owner) ELSE StartsOne(o, r.owner, t)
  /\ DOMAIN r.owner = OwnerFields /\ Exclusive(r.owner) /\ Planned(r.owner, catalog)
  /\ r.owner.export = o.export \/ The(r.owner.export).captured = The(r.owner.export).stored
\* The owner is about to dispatch a call of token t.
Dispatchable(t) == DOMAIN owner = OwnerFields /\ Exclusive(owner) /\ Planned(owner, catalog) /\ Ready(owner) /\ Never(owner, t)

\* A refusal starts nothing.
LEMMA RefusedCall ==
  ASSUME NEW t, Dispatchable(t), NEW r, r.owner = owner, r.ready \in {Some("err"), Some("Busy")}
  PROVE  CallBegun(owner, r, t)
  <1>1. Is(r.ready) BY OptionFacts DEF Is
  <1>2. SameTokens(owner, r.owner) BY DEF SameTokens
  <1> QED BY <1>1, <1>2 DEF CallBegun, Dispatchable

\* A continuation that the engine has no part in.
LEMMA FieldCall ==
  ASSUME NEW t, Dispatchable(t), NEW k \in {"bulk", "admission", "configuration", "export"}, ~Is(owner[k]),
         NEW x, x.token = t, NEW r, r.ready = None, DOMAIN r.owner = OwnerFields, r.owner[k] = Some(x),
         \A f \in OwnerFields : f # k => r.owner[f] = owner[f],
         k = "admission" => DOMAIN x = {"stage", "token", "import"} /\ x.stage = "Preparing",
         k = "export" => x.captured = x.stored
  PROVE  CallBegun(owner, r, t)
  <1> DEFINE o2 == r.owner
  <1>0. Is(o2[k]) /\ The(o2[k]) = x /\ ~Is(r.ready) /\ k \in Kinds BY OptionFacts DEF Is, Kinds
  <1>1. /\ o2.sources = owner.sources /\ o2.input = owner.input /\ o2.mutation = owner.mutation
        /\ k # "admission" => o2.admission = owner.admission
        /\ k # "export" => o2.export = owner.export
    BY DEF OwnerFields
  <1>2. \A j \in Kinds : j # k => o2[j] = owner[j] BY DEF OwnerFields, Kinds
  <1> HIDE DEF o2
  <1>3. StartsOne(owner, o2, t) BY <1>0, <1>1, <1>2, FieldStarts DEF Dispatchable
  <1>4. \/ o2.admission = owner.admission
        \/ /\ DOMAIN The(o2.admission) = {"stage", "token", "import"} /\ The(o2.admission).stage \in AdmissionStages
           /\ The(o2.admission).stage \in {"Preparing", "Ready"} \/ (~Is(o2.input) /\ ~Is(o2.mutation))
    BY <1>0, <1>1 DEF AdmissionStages
  <1>5. Exclusive(o2) /\ Planned(o2, catalog) BY <1>1, <1>4, WorkKept DEF Dispatchable
  <1>6. o2.export = owner.export \/ The(o2.export).captured = The(o2.export).stored BY <1>0, <1>1
  <1> QED BY <1>0, <1>3, <1>5, <1>6 DEF CallBegun, o2

\* An explicit control of a task.
LEMMA ControlCall ==
  ASSUME NEW t, Dispatchable(t), SpecsWhole(catalog), NEW what, is_task_control(what), NEW g, NEW seq,
         NEW r, LET c == begin_task_control(owner, order, t, what, g, seq, TRUE)
                IN r.owner = c.owner /\ r.ready = IF c.err THEN Some("err") ELSE None
  PROVE  CallBegun(owner, r, t)
  <1> DEFINE c == begin_task_control(owner, order, t, what, g, seq, TRUE)
             o2 == r.owner
  <1>0. r.owner = c.owner /\ r.ready = IF c.err THEN Some("err") ELSE None OBVIOUS
  <1>1. CASE ~Free(owner) \/ ~Accepts(what, g)
    <2>1. c = [owner |-> owner, order |-> order, err |-> TRUE] BY <1>1 DEF begin_task_control
    <2> HIDE DEF c
    <2>2. c.owner = owner /\ c.err BY <2>1
    <2> QED BY <1>0, <2>2, RefusedCall
  <1>2. CASE Free(owner) /\ Accepts(what, g)
    <2>1. PICK in, m : ControlOf(owner, c, in, m, t, what, g) BY <1>2, ControlBegun DEF Dispatchable
    <2> HIDE DEF c
    <2>2. /\ ~c.err /\ DOMAIN o2 = OwnerFields
          /\ o2.input = Some(in) /\ DOMAIN in = {"what", "gid", "spec"} /\ in.what = what /\ in.gid = g
          /\ o2.mutation = Some(m) /\ DOMAIN m = MutationFields /\ m.token = t /\ m.gid = g
          /\ m.replacement = IF what = "approveHostKey" THEN Some(in.spec) ELSE None
          /\ what = "approveHostKey" => in.spec = [catalog[g] EXCEPT !.opts = @ \cup {t}]
          /\ \A f \in OwnerFields \ {"input", "mutation"} : o2[f] = owner[f]
      BY <1>0, <2>1 DEF ControlOf
    <2> HIDE DEF o2
    <2>3. /\ o2.admission = owner.admission /\ o2.sources = owner.sources /\ o2.export = owner.export
          /\ o2.bulk = owner.bulk /\ o2.configuration = owner.configuration
      BY <2>2 DEF OwnerFields
    <2>4. Is(o2.input) /\ The(o2.input) = in /\ Is(o2.mutation) /\ The(o2.mutation) = m
      BY <2>2, OptionFacts DEF Is
    <2>5. ~Is(r.ready) /\ r.ready = None BY <1>0, <2>2 DEF Is
    <2>6. StartsOne(owner, o2, t) BY <2>3, <2>2, <2>4, FieldStarts DEF Kinds, Dispatchable, Ready
    <2>7. Exclusive(o2) /\ Planned(o2, catalog)
      <3>1. CASE what = "approveHostKey"
        <4>2. g \notin DOMAIN owner.sources BY <1>2, <3>1 DEF Accepts
        <4>3. g \in Gids => Shaped(in.spec) /\ in.spec.srcs = catalog[g].srcs
          BY <2>2, <3>1 DEF SpecsWhole, Shaped
        <4>4. in.what \in WritesOptions /\ m.gid = in.gid /\ m.replacement = Some(in.spec)
          BY <2>2, <3>1 DEF WritesOptions
        <4> QED BY <2>2, <2>3, <2>4, <4>2, <4>3, <4>4, WorkOnOptions DEF Dispatchable
      <3>2. CASE what # "approveHostKey"
        BY <2>2, <3>2, <2>3, <2>4, WorkBegun DEF WritesOptions, is_task_control, Dispatchable, Ready
      <3> QED BY <3>1, <3>2
    <2> QED BY <2>2, <2>3, <2>5, <2>6, <2>7 DEF CallBegun, o2
  <1> QED BY <1>1, <1>2

\* A change of the options of a task.
LEMMA OptionCall ==
  ASSUME NEW t, Dispatchable(t), SpecsWhole(catalog), NEW g, g \notin DOMAIN owner.sources,
         NEW r, r.owner = begin_change_option(owner, t, g), r.ready = None
  PROVE  CallBegun(owner, r, t)
  <1> DEFINE spec == [catalog[g] EXCEPT !.opts = @ \cup {t}]
             what == IF tasks[g] = "active" THEN "restart" ELSE "patch"
             rs == IF tasks[g] = "active" THEN owner.restarts \cup {g} ELSE owner.restarts
             m == [kind |-> "Options", token |-> t, gid |-> g, readmit |-> FALSE, replacement |-> Some(spec)]
             in == [what |-> what, gid |-> g, spec |-> spec]
             o1 == Begin(owner, what, g, spec)
             o2 == r.owner
  <1>0. DOMAIN owner = OwnerFields BY DEF Dispatchable
  <1>1. /\ o1.input = Some(in) /\ Is(o1.input) /\ The(o1.input) = in /\ DOMAIN in = {"what", "gid", "spec"}
        /\ DOMAIN o1 = OwnerFields /\ \A f \in OwnerFields : f # "input" => o1[f] = owner[f]
    BY <1>0, BegunFields
  <1>2. in.what \in WritesOptions /\ in.gid = g /\ in.spec = spec
    <2>1. what \in WritesOptions BY DEF WritesOptions
    <2> HIDE DEF what, spec
    <2> QED BY <2>1
  <1>3. DOMAIN m = MutationFields /\ m.token = t /\ m.gid = g /\ m.replacement = Some(spec)
    <2> HIDE DEF spec
    <2> QED BY DEF MutationFields
  <1>4. g \in Gids => Shaped(spec) /\ spec.srcs = catalog[g].srcs BY DEF SpecsWhole, Shaped
  <1>5. o2 = [o1 EXCEPT !.restarts = rs, !.mutation = Some(m)]
    <2>1. o1.restarts = owner.restarts BY <1>1 DEF OwnerFields
    <2>2. o2 = [o1 EXCEPT !.restarts = IF tasks[g] = "active" THEN @ \cup {g} ELSE @, !.mutation = Some(m)]
      BY Zenon DEF begin_change_option
    <2> HIDE DEF o1, o2, m
    <2> QED BY <2>1, <2>2
  <1> HIDE DEF o1, m, in, rs, what, spec
  <1>6. /\ DOMAIN o2 = OwnerFields /\ o2.input = o1.input /\ o2.mutation = Some(m)
        /\ o2.admission = owner.admission /\ o2.sources = owner.sources /\ o2.export = owner.export
        /\ o2.bulk = owner.bulk /\ o2.configuration = owner.configuration
    <2> HIDE DEF o2
    <2> QED BY <1>1, <1>5 DEF OwnerFields
  <1> HIDE DEF o2
  <1>7. Is(o2.input) /\ The(o2.input) = in /\ Is(o2.mutation) /\ The(o2.mutation) = m /\ ~Is(r.ready)
    BY <1>1, <1>6, OptionFacts DEF Is
  <1>8. StartsOne(owner, o2, t) BY <1>6, <1>3, <1>7, FieldStarts DEF Kinds, Dispatchable, Ready
  <1>9. Exclusive(o2) /\ Planned(o2, catalog)
    BY <1>2, <1>3, <1>4, <1>1, <1>6, <1>7, WorkOnOptions DEF Dispatchable
  <1> QED BY <1>6, <1>7, <1>8, <1>9 DEF CallBegun, o2

\* A replacement of the sources of a task.
LEMMA SourceCall ==
  ASSUME NEW t, Dispatchable(t), SpecsWhole(catalog), NEW g, g \notin DOMAIN owner.sources,
         NEW r, r.owner = begin_source_plan(owner, t, g), r.ready = None
  PROVE  CallBegun(owner, r, t)
  <1> DEFINE spec == [catalog[g] EXCEPT !.srcs = {t}]
             in == [what |-> "begin_sources", gid |-> g, spec |-> catalog[g]]
             o1 == Begin(owner, "begin_sources", g, catalog[g])
             x == [token |-> t, committing |-> FALSE, replacement |-> spec]
             s == Put(owner.sources, g, x)
             o2 == r.owner
  <1>0. DOMAIN owner = OwnerFields BY DEF Dispatchable
  <1>1. /\ o1.input = Some(in) /\ Is(o1.input) /\ The(o1.input) = in /\ DOMAIN in = {"what", "gid", "spec"}
        /\ DOMAIN o1 = OwnerFields /\ \A f \in OwnerFields : f # "input" => o1[f] = owner[f]
    BY <1>0, BegunFields
  <1>2. in.what = "begin_sources" OBVIOUS
  <1>3. g \in Gids => Shaped(spec) /\ spec.opts = catalog[g].opts BY DEF SpecsWhole, Shaped
  <1>4. o2 = [o1 EXCEPT !.sources = s]
    <2>1. o1.sources = owner.sources BY <1>1 DEF OwnerFields
    <2>2. o2 = [o1 EXCEPT !.sources = Put(@, g, x)] BY Zenon DEF begin_source_plan
    <2> HIDE DEF o1, o2, x
    <2> QED BY <2>1, <2>2
  <1> HIDE DEF spec
  <1>5. x.token = t /\ DOMAIN x = {"token", "committing", "replacement"} /\ ~x.committing /\ x.replacement = spec
    OBVIOUS
  <1> HIDE DEF x
  <1>6. DOMAIN s = DOMAIN owner.sources \cup {g} /\ s[g] = x /\ \A h \in DOMAIN owner.sources : s[h] = owner.sources[h]
    BY DEF Put
  <1> HIDE DEF o1, in, s
  <1>7. /\ DOMAIN o2 = OwnerFields /\ o2.input = o1.input /\ o2.mutation = owner.mutation
        /\ o2.admission = owner.admission /\ o2.sources = s /\ o2.export = owner.export
        /\ o2.bulk = owner.bulk /\ o2.configuration = owner.configuration
    <2> HIDE DEF o2
    <2> QED BY <1>1, <1>4 DEF OwnerFields
  <1> HIDE DEF o2
  <1>8. ~Is(r.ready) BY DEF Is
  <1>9. StartsOne(owner, o2, t) BY <1>7, <1>5, <1>6, SourceStarts DEF Kinds, Dispatchable
  <1>10. Exclusive(o2) /\ Planned(o2, catalog)
    <2>1. g \in Gids => Shaped(x.replacement) /\ x.replacement.opts = catalog[g].opts BY <1>3, <1>5
    <2> QED BY <1>1, <1>2, <1>5, <1>6, <1>7, <2>1, WorkOnSources DEF Dispatchable
  <1> QED BY <1>7, <1>8, <1>9, <1>10 DEF CallBegun, o2

\* What a call starts, whatever its method.
LEMMA CallStarts ==
  ASSUME NEW env \in Envelopes, NEW t, t = env.callers[1], env.method # "shutdown", Dispatchable(t),
         SpecsWhole(catalog), catalog = store
  PROVE  CallBegun(owner, begin_call(owner, env), t)
  <1> DEFINE m == env.method
             g == env.gid
             r == begin_call(owner, env)
  <1>0. m \in Methods /\ DOMAIN owner = OwnerFields BY DEF Envelopes, Dispatchable
  <1>1. \A why \in {"err", "Busy"} : CallBegun(owner, Refused(owner, why), t)
    <2> SUFFICES ASSUME NEW why \in {"err", "Busy"} PROVE CallBegun(owner, Refused(owner, why), t) OBVIOUS
    <2> DEFINE q == Refused(owner, why)
    <2>1. q.owner = owner /\ q.ready = Some(why) BY DEF Refused
    <2>2. q.ready \in {Some("err"), Some("Busy")} BY <2>1
    <2> HIDE DEF q
    <2> QED BY <2>1, <2>2, RefusedCall DEF q
  <1>2. \A o2 : Started(o2).owner = o2 /\ Started(o2).ready = None BY DEF Started
  <1>3. CASE is_bulk_control(m)
    <2> DEFINE b == [token |-> t, what |-> bulk_member(m), seq |-> env.seq, targets |-> env.captured, member |-> None]
               o2 == [owner EXCEPT !.bulk = Some(b)]
    <2>1. r = IF Is(owner.bulk) THEN Refused(owner, "Busy") ELSE Started(o2)
      BY <1>3 DEF begin_call, is_bulk_control, is_task_control
    <2>2. b.token = t OBVIOUS
    <2> HIDE DEF b
    <2>3. DOMAIN o2 = OwnerFields /\ o2.bulk = Some(b) /\ \A f \in OwnerFields : f # "bulk" => o2[f] = owner[f]
      BY <1>0 DEF OwnerFields
    <2> HIDE DEF o2, r
    <2>4. CASE Is(owner.bulk) BY <1>1, <2>1, <2>4 DEF r
    <2>5. CASE ~Is(owner.bulk) BY <1>2, <2>1, <2>5, <2>2, <2>3, FieldCall DEF r
    <2> QED BY <2>4, <2>5
  <1>4. CASE is_task_control(m)
    <2> DEFINE c == begin_task_control(owner, order, t, m, g, env.seq, TRUE)
    <2>1. r = [owner |-> c.owner, order |-> c.order, ready |-> IF c.err THEN Some("err") ELSE None]
      BY <1>4 DEF begin_call, is_bulk_control, is_task_control
    <2> HIDE DEF c, r
    <2>2. r.owner = c.owner /\ r.ready = IF c.err THEN Some("err") ELSE None BY <2>1
    <2>3. LET x == begin_task_control(owner, order, t, m, g, env.seq, TRUE)
          IN r.owner = x.owner /\ r.ready = IF x.err THEN Some("err") ELSE None
      BY <2>2 DEF c
    <2>4. CallBegun(owner, r, t) BY <1>4, <2>3, ControlCall
    <2> QED BY <2>4 DEF r
  <1>5. CASE m = "changeOption"
    <2> DEFINE o2 == begin_change_option(owner, t, g)
    <2>1. r = IF ~Unchanged(owner, g) THEN Refused(owner, "Busy")
              ELSE IF ~Accepts(m, g) THEN Refused(owner, "err") ELSE Started(o2)
      BY <1>5 DEF begin_call, is_bulk_control, is_task_control
    <2> HIDE DEF r
    <2>2. CASE Unchanged(owner, g) /\ Accepts(m, g) BY <2>1, <2>2, <1>2, OptionCall DEF Unchanged, r
    <2>3. CASE ~(Unchanged(owner, g) /\ Accepts(m, g)) BY <1>1, <2>1, <2>3 DEF r
    <2> QED BY <2>2, <2>3
  <1>6. CASE m = "changeUri"
    <2> DEFINE o2 == begin_source_plan(owner, t, g)
    <2>1. r = IF ~Unchanged(owner, g) THEN Refused(owner, "Busy")
              ELSE IF ~Accepts(m, g) THEN Refused(owner, "err") ELSE Started(o2)
      BY <1>6 DEF begin_call, is_bulk_control, is_task_control
    <2> HIDE DEF r
    <2>2. CASE Unchanged(owner, g) /\ Accepts(m, g) BY <2>1, <2>2, <1>2, SourceCall DEF Unchanged, r
    <2>3. CASE ~(Unchanged(owner, g) /\ Accepts(m, g)) BY <1>1, <2>1, <2>3 DEF r
    <2> QED BY <2>2, <2>3
  <1>7. CASE m \in {"addUri", "importSession"}
    <2> DEFINE x == [stage |-> "Preparing", token |-> t, import |-> m = "importSession"]
               o2 == [owner EXCEPT !.admission = Some(x)]
               busy == Is(owner.admission) \/ Is(owner.configuration) \/ (m = "importSession" /\ owner.sources # EmptyMap)
    <2>1. r = IF busy THEN Refused(owner, "Busy") ELSE Started(o2)
      BY <1>7 DEF begin_call, is_bulk_control, is_task_control
    <2>2. x.token = t /\ DOMAIN x = {"stage", "token", "import"} /\ x.stage = "Preparing" OBVIOUS
    <2> HIDE DEF x
    <2>3. DOMAIN o2 = OwnerFields /\ o2.admission = Some(x) /\ \A f \in OwnerFields : f # "admission" => o2[f] = owner[f]
      BY <1>0 DEF OwnerFields
    <2>4. busy \/ ~Is(owner.admission) OBVIOUS
    <2> HIDE DEF o2, r, busy
    <2>5. CASE busy BY <1>1, <2>1, <2>5 DEF r
    <2>6. CASE ~busy BY <1>2, <2>1, <2>6, <2>2, <2>3, <2>4, FieldCall DEF r
    <2> QED BY <2>5, <2>6
  <1>8. CASE m = "changeGlobalOption"
    <2> DEFINE x == [token |-> t, previous |-> owner.generation]
               o2 == [owner EXCEPT !.configuration = Some(x)]
               busy == Is(owner.admission) \/ Is(owner.configuration)
    <2>1. r = IF busy THEN Refused(owner, "Busy") ELSE Started(o2)
      BY <1>8 DEF begin_call, is_bulk_control, is_task_control
    <2>2. x.token = t OBVIOUS
    <2> HIDE DEF x
    <2>3. DOMAIN o2 = OwnerFields /\ o2.configuration = Some(x) /\ \A f \in OwnerFields : f # "configuration" => o2[f] = owner[f]
      BY <1>0 DEF OwnerFields
    <2>4. busy \/ ~Is(owner.configuration) OBVIOUS
    <2> HIDE DEF o2, r, busy
    <2>5. CASE busy BY <1>1, <2>1, <2>5 DEF r
    <2>6. CASE ~busy BY <1>2, <2>1, <2>6, <2>2, <2>3, <2>4, FieldCall DEF r
    <2> QED BY <2>5, <2>6
  <1>9. CASE m = "saveSession"
    <2> DEFINE x == [token |-> t, captured |-> catalog, stored |-> store]
               o2 == [owner EXCEPT !.export = Some(x)]
               busy == Is(owner.export) \/ owner.sources # EmptyMap
    <2>1. r = IF busy THEN Refused(owner, "Busy") ELSE Started(o2)
      BY <1>9 DEF begin_call, is_bulk_control, is_task_control
    <2>2. x.token = t /\ x.captured = x.stored OBVIOUS
    <2> HIDE DEF x
    <2>3. DOMAIN o2 = OwnerFields /\ o2.export = Some(x) /\ \A f \in OwnerFields : f # "export" => o2[f] = owner[f]
      BY <1>0 DEF OwnerFields
    <2>4. busy \/ ~Is(owner.export) OBVIOUS
    <2> HIDE DEF o2, r, busy
    <2>5. CASE busy BY <1>1, <2>1, <2>5 DEF r
    <2>6. CASE ~busy BY <1>2, <2>1, <2>6, <2>2, <2>3, <2>4, FieldCall DEF r
    <2> QED BY <2>5, <2>6
  <1> QED BY <1>0, <1>3, <1>4, <1>5, <1>6, <1>7, <1>8, <1>9 DEF Methods, is_bulk_control, is_task_control

\* The streak of urgent commands is counted.
LEMMA StreakCounted ==
  ASSUME NEW o, NEW r, NEW t, CallBegun(o, r, t), NEW x, NEW r2, r2.owner = [r.owner EXCEPT !.streak = x], r2.ready = r.ready
  PROVE  CallBegun(o, r2, t)
  <1> DEFINE o1 == r.owner
             o2 == r2.owner
  <1>1. DOMAIN o1 = OwnerFields /\ Exclusive(o1) /\ Planned(o1, catalog) BY DEF CallBegun
  <1>2. o2 = [o1 EXCEPT !.streak = x] OBVIOUS
  <1> HIDE DEF o1, o2
  <1>3. /\ DOMAIN o2 = OwnerFields /\ o2.input = o1.input /\ o2.mutation = o1.mutation /\ o2.admission = o1.admission
        /\ o2.sources = o1.sources /\ o2.export = o1.export /\ o2.bulk = o1.bulk /\ o2.configuration = o1.configuration
    BY <1>1, <1>2 DEF OwnerFields
  <1>4. Exclusive(o2) /\ Planned(o2, catalog) BY <1>1, <1>3, WorkKept
  <1>5. \A s : Carries(o2, s) = Carries(o1, s) /\ Sourced(o2, s) = Sourced(o1, s)
    BY <1>3 DEF Kinds, Carries, Sourced
  <1>6. Once(o1, t) => Once(o2, t) BY <1>5, OnceSame
  <1>7. SameTokens(o, o1) => SameTokens(o, o2) BY <1>5 DEF SameTokens
  <1>8. StartsOne(o, o1, t) => StartsOne(o, o2, t) BY <1>5, <1>6 DEF StartsOne
  <1> QED BY <1>3, <1>4, <1>7, <1>8, Zenon DEF CallBegun, o1, o2

\* The first command of one of the two mailboxes leaves it.
LaneTaken(U, B, h, U2, B2) == \/ U # << >> /\ h = Head(U) /\ U2 = Tail(U) /\ B2 = B
                              \/ B # << >> /\ h = Head(B) /\ U2 = U /\ B2 = Tail(B)
Left(U, B, h, U2, B2) ==
  /\ h.callers \in Seq(DOMAIN Calls) /\ h.callers # << >>
  /\ \A j, k \in 1 .. Len(h.callers) : h.callers[j] = h.callers[k] => j = k
  /\ Separate(U2) /\ Separate(B2)
  /\ \A c : c \in CallersOf(U2) \cup CallersOf(B2) <=> c \in CallersOf(U) \cup CallersOf(B) /\ c \notin ToSet(h.callers)
  /\ \A c \in ToSet(h.callers) : c \in CallersOf(U) \cup CallersOf(B)
  /\ \A c \in CallersOf(U2) : c \notin CallersOf(B2)

\* What its mailbox holds then.
LEMMA MailTaken ==
  ASSUME NEW U \in Seq(Envelopes), NEW B \in Seq(Envelopes), Separate(U), Separate(B), \A c \in CallersOf(U) : c \notin CallersOf(B),
         NEW U2, NEW B2, NEW h, LaneTaken(U, B, h, U2, B2)
  PROVE  Left(U, B, h, U2, B2)
  <1>1. CASE U # << >> /\ h = Head(U) /\ U2 = Tail(U) /\ B2 = B
    <2> DEFINE T == Tail(U)
    <2>1. /\ h.callers \in Seq(DOMAIN Calls) /\ h.callers # << >>
          /\ \A j, k \in 1 .. Len(h.callers) : h.callers[j] = h.callers[k] => j = k
          /\ Separate(T) /\ \A c : c \in CallersOf(T) <=> c \in CallersOf(U) /\ c \notin ToSet(h.callers)
          /\ \A c \in ToSet(h.callers) : c \in CallersOf(U)
      BY <1>1, QueueTail
    <2>2. U2 = T /\ B2 = B BY <1>1
    <2> HIDE DEF T
    <2> QED BY <2>1, <2>2 DEF Left
  <1>2. CASE B # << >> /\ h = Head(B) /\ U2 = U /\ B2 = Tail(B)
    <2> DEFINE T == Tail(B)
    <2>1. /\ h.callers \in Seq(DOMAIN Calls) /\ h.callers # << >>
          /\ \A j, k \in 1 .. Len(h.callers) : h.callers[j] = h.callers[k] => j = k
          /\ Separate(T) /\ \A c : c \in CallersOf(T) <=> c \in CallersOf(B) /\ c \notin ToSet(h.callers)
          /\ \A c \in ToSet(h.callers) : c \in CallersOf(B)
      BY <1>2, QueueTail
    <2>2. U2 = U /\ B2 = T BY <1>2
    <2> HIDE DEF T
    <2> QED BY <2>1, <2>2 DEF Left
  <1> QED BY <1>1, <1>2 DEF LaneTaken

\* The owner takes one command.
LEMMA DispatchAnswers ==
  ASSUME ControlInv, AnswersInv, dispatch
  PROVE  AnswersInv'
  <1> DEFINE U == mailbox.urgent
             B == mailbox.bulk
             F == Unspent(todo, U, B)
             env == IF TakesUrgent THEN Head(U) ELSE Head(B)
             U2 == IF TakesUrgent THEN Tail(U) ELSE U
             B2 == IF TakesUrgent THEN B ELSE Tail(B)
             F2 == Unspent(todo, U2, B2)
             t == env.callers[1]
             H == ToSet(env.callers)
             r == begin_call(owner, env)
             e == [token |-> t, result |-> r.ready, callers |-> env.callers, urgent |-> is_task_control(env.method)]
             o2 == owner'
             w2 == Append(waiting, e)
  <1>0. DOMAIN owner = OwnerFields /\ mailbox = [urgent |-> U, bulk |-> B] /\ U \in Seq(Envelopes) /\ B \in Seq(Envelopes)
    BY OwnerDomain, ConsistentTypes DEF ControlInv
  <1>1. Turn /\ (TakesUrgent \/ TakesBulk) /\ UNCHANGED <<todo, answers, catalog, store>> /\ waiting' = w2
    BY Zenon DEF dispatch
  <1>2. PICK x : owner' = [r.owner EXCEPT !.streak = x]
    <2>1. owner' = [r.owner EXCEPT !.streak = IF TakesUrgent THEN (IF @ < UrgentBurst THEN @ + 1 ELSE @) ELSE 0]
      BY Zenon DEF dispatch
    <2> HIDE DEF r
    <2> QED BY <2>1
  <1>3. mailbox'.urgent = U2 /\ mailbox'.bulk = B2 BY <1>0 DEF dispatch
  <1>4. Ready(owner) /\ owner.phase = "running" BY <1>1, TurnReady
  <1>5. /\ F \in SUBSET (DOMAIN Calls) /\ waiting \in Seq(Waits) /\ Pledges(waiting, owner, F) /\ Exclusive(owner) /\ Planned(owner, catalog)
        /\ OnePlace(waiting, U, B, answers) /\ Unmade(todo, answers) /\ SameSpecs(owner, catalog, store)
    BY <1>4, AnswersFacts
  <1>6. /\ Separate(waiting) /\ Separate(U) /\ Separate(B) /\ DOMAIN answers = DOMAIN Calls
        /\ \A c \in CallersOf(waiting) : c \notin CallersOf(U) /\ c \notin CallersOf(B)
        /\ \A c \in CallersOf(U) : c \notin CallersOf(B)
        /\ \A c \in DOMAIN Calls : answers[c] = Some("open") <=> c \in CallersOf(waiting) \cup CallersOf(U) \cup CallersOf(B)
    BY <1>5 DEF OnePlace
  <1>7. /\ \/ U # << >> /\ env = Head(U) /\ U2 = Tail(U) /\ B2 = B
           \/ B # << >> /\ env = Head(B) /\ U2 = U /\ B2 = Tail(B)
        /\ env \in Envelopes /\ env.method # "shutdown"
    <2>0. Lanes(U, B, order.sequence) BY DEF ControlInv, Consistent
    <2>1. CASE TakesUrgent
      <3>1. U # << >> BY <2>1 DEF TakesUrgent
      <3>2. env = U[1] /\ 1 \in 1 .. Len(U) /\ U[1] \in Envelopes /\ env = Head(U) BY <1>0, <2>1, <3>1
      <3>3. is_task_control(U[1].method) BY <3>2, <2>0, Zenon DEF Lanes, Lane
      <3>4. U2 = Tail(U) /\ B2 = B BY <2>1
      <3> HIDE DEF env, U2, B2
      <3> QED BY <3>1, <3>2, <3>3, <3>4 DEF is_task_control
    <2>2. CASE ~TakesUrgent
      <3>1. B # << >> BY <2>2, <1>1 DEF TakesBulk
      <3>2. env = B[1] /\ 1 \in 1 .. Len(B) /\ B[1] \in Envelopes /\ env = Head(B) BY <1>0, <2>2, <3>1
      <3>3. B[1].method # "shutdown" BY <3>2, <2>0, Zenon DEF Lanes, Lane
      <3>4. U2 = U /\ B2 = Tail(B) BY <2>2
      <3> HIDE DEF env, U2, B2
      <3> QED BY <3>1, <3>2, <3>3, <3>4
    <2> QED BY <2>1, <2>2
  <1> HIDE DEF env, U2, B2
  <1>8. /\ env.callers \in Seq(DOMAIN Calls) /\ env.callers # << >>
        /\ \A j, k \in 1 .. Len(env.callers) : env.callers[j] = env.callers[k] => j = k
        /\ Separate(U2) /\ Separate(B2)
        /\ \A c : c \in CallersOf(U2) \cup CallersOf(B2) <=> c \in CallersOf(U) \cup CallersOf(B) /\ c \notin H
        /\ \A c \in H : c \in CallersOf(U) \cup CallersOf(B)
        /\ \A c \in CallersOf(U2) : c \notin CallersOf(B2)
    <2>1. U \in Seq(Envelopes) /\ B \in Seq(Envelopes) /\ Separate(U) /\ Separate(B) /\ \A c \in CallersOf(U) : c \notin CallersOf(B)
      BY <1>0, <1>6
    <2>2. LaneTaken(U, B, env, U2, B2) BY <1>7 DEF LaneTaken
    <2> HIDE DEF U, B
    <2>3. Left(U, B, env, U2, B2) BY <2>1, <2>2, MailTaken
    <2> QED BY <2>3 DEF Left
  <1>9. t \in DOMAIN Calls /\ t \in H BY <1>8, CallersTail
  <1> HIDE DEF H
  <1>10. t \in F /\ F2 \in SUBSET F /\ \A c \in H : c \notin F2
    <2>1. \A c \in H : c \notin todo BY <1>5, <1>8, UnspentCalls
    <2> HIDE DEF U, B, t
    <2> QED BY <1>8, <1>9, <2>1 DEF Unspent
  <1>11. CallBegun(owner, r, t)
    BY <1>0, <1>4, <1>5, <1>10, <1>1, <1>7, CallStarts DEF Dispatchable, Pledges, SpecsWhole, SameSpecs
  <1> HIDE DEF r, t
  <1>12. CallBegun(owner, [owner |-> o2, ready |-> r.ready], t)
    <2> DEFINE r2 == [owner |-> o2, ready |-> r.ready]
    <2>1. r2.owner = [r.owner EXCEPT !.streak = x] /\ r2.ready = r.ready BY <1>2
    <2> HIDE DEF r2
    <2>2. CallBegun(owner, r2, t) BY <1>11, <2>1, StreakCounted
    <2> QED BY <2>2 DEF r2
  <1> HIDE DEF o2
  <1>13. /\ r.ready \in {None, Some("err"), Some("Busy")}
         /\ IF Is(r.ready) THEN SameTokens(owner, o2) ELSE StartsOne(owner, o2, t)
         /\ Exclusive(o2) /\ Planned(o2, catalog)
         /\ o2.export = owner.export \/ The(o2.export).captured = The(o2.export).stored
    BY <1>12 DEF CallBegun
  <1>14. e \in Waits /\ e.token = t /\ e.result = r.ready /\ e.callers = env.callers
    BY <1>8, <1>9, <1>13 DEF Waits, is_task_control
  <1> HIDE DEF e
  <1>15. Pledges(w2, o2, F2)
    <2> HIDE DEF F, F2
    <2>1. e.token \in F /\ e.token \notin F2 BY <1>9, <1>10, <1>14
    <2>2. IF Is(e.result) THEN SameTokens(owner, o2) ELSE StartsOne(owner, o2, e.token) BY <1>13, <1>14
    <2> QED BY <1>5, <1>10, <1>14, <2>1, <2>2, PledgesBegun
  <1>16. /\ w2 \in Seq(Waits) /\ Separate(w2)
         /\ \A c : c \in CallersOf(w2) <=> c \in CallersOf(waiting) \/ c \in H
    BY <1>8, <1>14, <1>6, <1>5, QueueAppended DEF H
  <1> HIDE DEF w2
  <1>17. OnePlace(w2, U2, B2, answers)
    <2>1. \A c \in CallersOf(w2) : c \notin CallersOf(U2) /\ c \notin CallersOf(B2) BY <1>6, <1>8, <1>16
    <2>2. \A c \in DOMAIN Calls :
            c \in CallersOf(w2) \cup CallersOf(U2) \cup CallersOf(B2) <=> c \in CallersOf(waiting) \cup CallersOf(U) \cup CallersOf(B)
      BY <1>8, <1>16
    <2> HIDE DEF U, B
    <2> QED BY <1>5, <1>6, <1>8, <1>16, <2>1, <2>2, PlacesMoved
  <1>18. SameSpecs(o2, catalog, store) BY <1>5, <1>13, Zenon DEF SameSpecs
  <1> QED BY <1>1, <1>3, <1>5, <1>13, <1>15, <1>17, <1>18, Zenon DEF AnswersInv, o2, F2, w2
-----------------------------------------------------------------------------
(* A call is made.                                                         *)

\* A call is answered at once: it was not accepted, or it was a shutdown.
LEMMA AnsweredAtOnce ==
  ASSUME NEW w, NEW u, NEW b, NEW a, OnePlace(w, u, b, a), NEW td, Unmade(td, a), NEW c \in td, NEW x, x # "open",
         NEW a2, a2 = [a EXCEPT ![c] = Some(x)]
  PROVE  OnePlace(w, u, b, a2) /\ Unmade(td \ {c}, a2)
  <1>1. DOMAIN a = DOMAIN Calls /\ c \in DOMAIN Calls BY DEF OnePlace, Unmade
  <1>2. DOMAIN a2 = DOMAIN Calls /\ \A d \in DOMAIN Calls : a2[d] = IF d = c THEN Some(x) ELSE a[d] BY <1>1
  <1>3. Unmade(td \ {c}, a2) BY <1>2 DEF Unmade
  <1>4. Some(x) # Some("open") /\ a[c] # Some("open") BY OptionFacts DEF Unmade
  <1> QED BY <1>1, <1>2, <1>3, <1>4 DEF OnePlace

\* A call is accepted: it joins one of the mailboxes.
AnswerSet(a, c, x) == [a EXCEPT ![c] = Some(x)]
JoinsOne(u, b, u2, b2, c) ==
  \/ CallersOf(b2) = CallersOf(b) /\ \A d : d \in CallersOf(u2) <=> d \in CallersOf(u) \/ d = c
  \/ CallersOf(u2) = CallersOf(u) /\ \A d : d \in CallersOf(b2) <=> d \in CallersOf(b) \/ d = c
\* The call is open then, in the queue it joined and no other.
LEMMA AcceptedCall ==
  ASSUME NEW w, NEW u, NEW b, NEW a, OnePlace(w, u, b, a), NEW td, Unmade(td, a), NEW c \in td,
         NEW a2, a2 = AnswerSet(a, c, "open"), NEW u2, NEW b2, Separate(u2), Separate(b2),
         JoinsOne(u, b, u2, b2, c), NEW td2, td2 = td \ {c}
  PROVE  OnePlace(w, u2, b2, a2) /\ Unmade(td2, a2) /\ Unspent(td2, u2, b2) = Unspent(td, u, b)
  <1>1. DOMAIN a = DOMAIN Calls /\ c \in DOMAIN Calls BY DEF OnePlace, Unmade
  <1>2. DOMAIN a2 = DOMAIN Calls /\ \A d \in DOMAIN Calls : a2[d] = IF d = c THEN Some("open") ELSE a[d]
    BY <1>1 DEF AnswerSet
  <1>3. Unmade(td2, a2) BY <1>2 DEF Unmade
  <1>4. c \notin CallersOf(w) /\ c \notin CallersOf(u) /\ c \notin CallersOf(b) BY UnspentCalls
  <1>5. OnePlace(w, u2, b2, a2) BY <1>1, <1>2, <1>4 DEF OnePlace, JoinsOne
  <1>6. Unspent(td2, u2, b2) = Unspent(td, u, b) BY DEF Unspent, JoinsOne
  <1> QED BY <1>3, <1>5, <1>6

\* Queues that hold fewer calls to come, or the same, keep the pledges.
LEMMA AdmittedAnswers ==
  ASSUME ControlInv, AnswersInv, UNCHANGED <<waiting, catalog, store>>, NEW o2, owner' = o2, o2.phase = owner.phase,
         \A f \in OwnerFields \ {"closing"} : o2[f] = owner[f],
         OnePlace(waiting, mailbox'.urgent, mailbox'.bulk, answers'), Unmade(todo', answers'),
         Unspent(todo', mailbox'.urgent, mailbox'.bulk) \in SUBSET Unspent(todo, mailbox.urgent, mailbox.bulk)
  PROVE  AnswersInv'
  <1> DEFINE F == Unspent(todo, mailbox.urgent, mailbox.bulk)
             F2 == Unspent(todo', mailbox'.urgent, mailbox'.bulk)
  <1>1. /\ o2.input = owner.input /\ o2.mutation = owner.mutation /\ o2.admission = owner.admission /\ o2.sources = owner.sources
        /\ o2.export = owner.export /\ \A k \in Kinds : o2[k] = owner[k]
    BY DEF OwnerFields, Kinds
  <1>2. SameSpecs(o2, catalog, store) BY <1>1, AnswersFacts, Zenon DEF SameSpecs
  <1>3. ASSUME owner.phase = "running" PROVE Pledges(waiting, o2, F2) /\ Exclusive(o2) /\ Planned(o2, catalog)
    <2>1. /\ F \in SUBSET (DOMAIN Calls) /\ waiting \in Seq(Waits) /\ Pledges(waiting, owner, F) /\ Exclusive(owner) /\ Planned(owner, catalog)
      BY <1>3, AnswersFacts
    <2>2. SameTokens(owner, o2) BY <1>1, FieldsSame
    <2>3. Exclusive(o2) /\ Planned(o2, catalog) BY <1>1, <2>1, WorkKept
    <2>4. F2 \in SUBSET F OBVIOUS
    <2> HIDE DEF F, F2
    <2>5. Pledges(waiting, o2, F2) BY <2>1, <2>2, <2>4, PledgesKept
    <2> QED BY <2>3, <2>5
  <1> QED BY <1>2, <1>3, Zenon DEF AnswersInv, F2

\* A set of numbers has a least one.
LEMMA LeastSequence ==
  ASSUME NEW T \in SUBSET Nat, T # {}
  PROVE  \E x \in T : \A y \in T : x =< y
  <1> DEFINE Below == {ss \in Nat \X Nat : ss[1] < ss[2]}
  <1>1. IsWellFoundedOn(Below, Nat) BY NatLessThanWellFounded DEF OpToRel
  <1>2. \A x, y \in Nat : x < y => <<x, y>> \in Below OBVIOUS
  <1> HIDE DEF Below
  <1>3. PICK x \in T : \A y \in T : ~ (<<y, x>> \in Below) BY <1>1, WFMin, Zenon
  <1>4. ASSUME NEW y \in T PROVE x =< y
    <2>1. ~(y < x) BY <1>2, <1>3
    <2> QED BY <2>1
  <1> QED BY <1>4

\* The last command of a queue that a later one may join is in the queue.
LEMMA LastIsQueued ==
  ASSUME NEW E, NEW q \in Seq(E), NEW g, LastFor(q, g) # 0
  PROVE  LastFor(q, g) \in 1 .. Len(q)
  <1> DEFINE joinable == {i \in DOMAIN q : q[i].target \in {None, Some(g)}}
             T == {x \in Nat : \A y \in joinable : y =< x}
  <1>1. Len(q) \in Nat /\ joinable \in SUBSET (1 .. Len(q)) OBVIOUS
  <1>2. joinable # {} /\ LastFor(q, g) = Max(joinable) BY DEF LastFor
  <1> HIDE DEF joinable
  <1>3. T \in SUBSET Nat /\ Len(q) \in T BY <1>1
  <1>4. PICK x \in T : \A y \in T : x =< y BY <1>3, LeastSequence
  <1>5. x \in joinable
    <2> SUFFICES ASSUME x \notin joinable PROVE FALSE OBVIOUS
    <2>1. PICK z \in joinable : TRUE BY <1>2
    <2>2. x \in Nat /\ z \in Nat /\ z =< x /\ z >= 1 /\ x - 1 \in Nat BY <1>1, <1>4, <2>1
    <2>3. \A y \in joinable : y =< x - 1 BY <1>1, <1>4, <2>2
    <2>4. x - 1 \in T BY <2>2, <2>3
    <2> QED BY <1>4, <2>2, <2>4
  <1>6. \A y \in joinable : x >= y BY <1>1, <1>4
  <1>7. \E m \in joinable : \A y \in joinable : m >= y BY <1>5, <1>6
  <1>8. Max(joinable) \in joinable BY <1>7, Zenon DEF Max
  <1> QED BY <1>1, <1>2, <1>8

\* A caller joins a queued command.
WithCaller(q, i, what, n, c) == [q EXCEPT ![i] = Merged(q[i], what, n, c)]
\* The queue has its callers and the new one.
LEMMA CallerJoins ==
  ASSUME NEW q \in Seq(Envelopes), Separate(q), NEW i \in 1 .. Len(q), NEW c \in DOMAIN Calls, c \notin CallersOf(q), NEW what, NEW n,
         NEW q2, q2 = WithCaller(q, i, what, n, c)
  PROVE  Separate(q2) /\ \A d : d \in CallersOf(q2) <=> d \in CallersOf(q) \/ d = c
  <1> DEFINE e2 == Merged(q[i], what, n, c)
             s == q[i].callers
             s2 == Append(s, c)
  <1>1. q[i] \in Envelopes /\ s \in Seq(DOMAIN Calls) /\ \A j, k \in 1 .. Len(s) : s[j] = s[k] => j = k
    BY DEF Separate
  <1>2. e2.callers = s2
    <2> DEFINE now == The(coalesced_method(q[i].method, what))
    <2>1. e2 = [q[i] EXCEPT !.method = now, !.seq = n, !.callers = Append(@, c)] BY DEF Merged
    <2> HIDE DEF e2, now
    <2> QED BY <1>1, <2>1 DEF Envelopes
  <1> HIDE DEF e2, s
  <1>3. /\ s2 \in Seq(DOMAIN Calls) /\ Len(s2) = Len(s) + 1 /\ Len(s) \in Nat
        /\ s2[Len(s) + 1] = c /\ \A j \in 1 .. Len(s) : s2[j] = s[j]
    BY <1>1
  <1>4. s2 # << >> BY <1>3, EmptySeq
  <1> HIDE DEF s2
  <1>5. \A d : d \in ToSet(s2) <=> d \in ToSet(s) \/ d = c
    <2>1. \A d : d \in ToSet(s2) <=> \E k \in 1 .. Len(s2) : s2[k] = d BY <1>3, InQueue
    <2>2. \A d : d \in ToSet(s) <=> \E k \in 1 .. Len(s) : s[k] = d BY <1>1, InQueue
    <2>3. \A k \in 1 .. Len(s2) : k = Len(s) + 1 \/ k \in 1 .. Len(s) BY <1>3
    <2>4. Len(s) + 1 \in 1 .. Len(s2) /\ \A k \in 1 .. Len(s) : k \in 1 .. Len(s2) BY <1>3
    <2>5. \A d : d \in ToSet(s2) => d \in ToSet(s) \/ d = c BY <1>3, <2>1, <2>2, <2>3
    <2>6. \A d : d \in ToSet(s) \/ d = c => d \in ToSet(s2) BY <1>3, <2>1, <2>2, <2>4
    <2> QED BY <2>5, <2>6
  <1>6. \A d \in ToSet(s) : d \in CallersOf(q) BY InQueue DEF s
  <1>7. \A j, k \in 1 .. Len(s2) : s2[j] = s2[k] => j = k BY <1>1, InQueue, <1>6, <1>3
  <1>8. q2[i].callers = s2 /\ Len(q2) = Len(q) /\ \A j \in 1 .. Len(q) : j # i => q2[j].callers = q[j].callers
    BY <1>2 DEF e2, WithCaller
  <1>9. /\ Separate(q2)
        /\ \A d : d \in CallersOf(q2) <=> (d \in CallersOf(q) /\ d \notin ToSet(q[i].callers)) \/ d \in ToSet(q2[i].callers)
    <2>1. q2[i].callers \in Seq(DOMAIN Calls) /\ q2[i].callers # << >> /\ \A j, k \in 1 .. Len(q2[i].callers) : q2[i].callers[j] = q2[i].callers[k] => j = k
      BY <1>3, <1>4, <1>7, <1>8
    <2>2. \A d \in ToSet(q2[i].callers) : d \in ToSet(q[i].callers) \/ d \notin CallersOf(q)
      BY <1>5, <1>8 DEF s
    <2> QED BY <1>8, <2>1, <2>2, QueueUpdated, Zenon
  <1>10. ToSet(q2[i].callers) = ToSet(s2) /\ ToSet(q[i].callers) = ToSet(s) BY <1>8 DEF s
  <1> QED BY <1>5, <1>6, <1>9, <1>10

\* A command with one caller joins a queue.
LEMMA CommandJoins ==
  ASSUME NEW q \in Seq(Envelopes), Separate(q), NEW e \in Envelopes, NEW c \in DOMAIN Calls, c \notin CallersOf(q), e.callers = <<c>>
  PROVE  Separate(Append(q, e)) /\ \A d : d \in CallersOf(Append(q, e)) <=> d \in CallersOf(q) \/ d = c
  <1> DEFINE s == <<c>>
  <1>1. s \in Seq(DOMAIN Calls) /\ s # << >> /\ Len(s) = 1 /\ s[1] = c OBVIOUS
  <1>2. e.callers = s OBVIOUS
  <1> HIDE DEF s
  <1>3. \A d : d \in ToSet(s) <=> d = c BY <1>1, InQueue
  <1>4. \A j, k \in 1 .. Len(s) : s[j] = s[k] => j = k BY <1>1
  <1>5. /\ Separate(Append(q, e))
        /\ \A d : d \in CallersOf(Append(q, e)) <=> d \in CallersOf(q) \/ d \in ToSet(e.callers)
    BY <1>1, <1>2, <1>3, <1>4, QueueAppended
  <1> QED BY <1>2, <1>3, <1>5

\* A client makes a call.
LEMMA AdmitAnswers ==
  ASSUME ControlInv, AnswersInv, NEW c \in DOMAIN Calls, admit(c)
  PROVE  AnswersInv'
  <1> DEFINE call == Calls[c]
             U == mailbox.urgent
             B == mailbox.bulk
             n == order.sequence + 1
             urgent == is_task_control(call.method)
             target == IF urgent /\ call.gid \in Gids THEN Some(call.gid) ELSE None
             last == LastFor(mailbox.urgent, call.gid)
             merges == /\ call.method \in {"pause", "remove"} /\ last # 0
                       /\ mailbox.urgent[last].target = target
                       /\ Is(coalesced_method(mailbox.urgent[last].method, call.method))
             full == IF urgent THEN slots(TRUE) >= UrgentCapacity ELSE slots(FALSE) >= BulkCapacity
             env(held) == [method |-> call.method, gid |-> call.gid, seq |-> n, callers |-> <<c>>,
                           target |-> target, captured |-> held]
             told(x) == answers' = [answers EXCEPT ![c] = Some(x)]
  <1>1. PICK held \in IF is_bulk_control(call.method) THEN Bulked(call.method) ELSE {<< >>} :
          /\ IF call.method = "shutdown"
             THEN owner' = [owner EXCEPT !.closing = TRUE] /\ told("ok") /\ UNCHANGED mailbox
             ELSE IF owner.closing THEN told("Busy") /\ UNCHANGED <<mailbox, owner>>
             ELSE /\ UNCHANGED owner
                  /\ IF merges
                     THEN /\ mailbox' = [mailbox EXCEPT !.urgent[last] = Merged(mailbox.urgent[last], call.method, n, c)]
                          /\ told("open")
                     ELSE IF full THEN told("Busy") /\ UNCHANGED mailbox
                     ELSE /\ mailbox' = IF urgent THEN [mailbox EXCEPT !.urgent = Append(@, env(held))]
                                        ELSE [mailbox EXCEPT !.bulk = Append(@, env(held))]
                          /\ told("open")
    BY Zenon DEF admit, Answer
  <1>2. c \in todo /\ todo' = todo \ {c} /\ UNCHANGED <<waiting, catalog, store>> BY Zenon DEF admit
  <1>3. /\ call.method \in Methods /\ call.gid \in Nat /\ n \in Nat /\ U \in Seq(Envelopes) /\ B \in Seq(Envelopes)
        /\ mailbox = [urgent |-> U, bulk |-> B] /\ DOMAIN owner = OwnerFields
    BY CallsAssumption, ConsistentTypes, OwnerDomain DEF ControlInv
  <1>4. /\ OnePlace(waiting, U, B, answers) /\ Unmade(todo, answers) BY AnswersFacts
  <1>5. c \notin CallersOf(waiting) /\ c \notin CallersOf(U) /\ c \notin CallersOf(B) /\ Separate(U) /\ Separate(B)
    <2>1. \A d \in CallersOf(waiting) \cup CallersOf(U) \cup CallersOf(B) : d \notin todo
      BY <1>4, UnspentCalls
    <2>2. Separate(U) /\ Separate(B) BY <1>4 DEF OnePlace
    <2> HIDE DEF U, B
    <2> QED BY <1>2, <2>1, <2>2
  <1>6. held \in Seq(Gids)
    <2>1. CASE is_bulk_control(call.method) BY <2>1, BulkedFacts
    <2>2. CASE ~is_bulk_control(call.method) BY <2>2
    <2> QED BY <2>1, <2>2
  <1> DEFINE e == env(held)
  <1>7. e \in Envelopes /\ e.callers = <<c>>
    <2>1. target \in Seq(Gids) BY DEF Some, None
    <2>2. <<c>> \in Seq(DOMAIN Calls) OBVIOUS
    <2> HIDE DEF target, n, call
    <2> QED BY <2>1, <2>2, <1>3, <1>6 DEF Envelopes
  <1> HIDE DEF e
  <1>8. ASSUME NEW x, x # "open", told(x), mailbox' = mailbox, NEW o2, owner' = o2, o2.phase = owner.phase,
               \A f \in OwnerFields \ {"closing"} : o2[f] = owner[f]
        PROVE  AnswersInv'
    BY <1>2, <1>4, <1>8, AnsweredAtOnce, AdmittedAnswers DEF Unspent
  <1>9. ASSUME NEW u2, NEW b2, mailbox'.urgent = u2, mailbox'.bulk = b2, told("open"), owner' = owner, Separate(u2), Separate(b2),
               \/ CallersOf(b2) = CallersOf(B) /\ \A d : d \in CallersOf(u2) <=> d \in CallersOf(U) \/ d = c
               \/ CallersOf(u2) = CallersOf(U) /\ \A d : d \in CallersOf(b2) <=> d \in CallersOf(B) \/ d = c
        PROVE  AnswersInv'
    <2> HIDE DEF U, B
    <2>1. OnePlace(waiting, u2, b2, answers') /\ Unmade(todo', answers') /\ Unspent(todo', u2, b2) = Unspent(todo, U, B)
      <3>1. JoinsOne(U, B, u2, b2, c) BY <1>9 DEF JoinsOne
      <3>2. answers' = AnswerSet(answers, c, "open") BY <1>9 DEF AnswerSet
      <3>3. c \in todo /\ todo' = todo \ {c} BY <1>2
      <3>4. OnePlace(waiting, U, B, answers) /\ Unmade(todo, answers) /\ Separate(u2) /\ Separate(b2)
        BY <1>4, <1>9
      <3> QED BY <3>1, <3>2, <3>3, <3>4, AcceptedCall
    <2>2. Unspent(todo', u2, b2) \in SUBSET Unspent(todo, U, B) BY <2>1
    <2> QED BY <1>2, <1>9, <2>1, <2>2, AdmittedAnswers DEF U, B
  <1>10. CASE call.method = "shutdown" BY <1>1, <1>10, <1>3, <1>8 DEF OwnerFields
  <1>11. CASE call.method # "shutdown" /\ owner.closing BY <1>1, <1>8, <1>11
  <1>12. CASE call.method # "shutdown" /\ ~owner.closing
    <2> HIDE DEF merges, full, n, told
    <2>0. /\ owner' = owner
          /\ IF merges
             THEN /\ mailbox' = [mailbox EXCEPT !.urgent[last] = Merged(mailbox.urgent[last], call.method, n, c)]
                  /\ told("open")
             ELSE IF full THEN told("Busy") /\ mailbox' = mailbox
             ELSE /\ mailbox' = IF urgent THEN [mailbox EXCEPT !.urgent = Append(@, e)]
                                ELSE [mailbox EXCEPT !.bulk = Append(@, e)]
                  /\ told("open")
      BY <1>1, <1>12, Zenon DEF e
    <2>1. CASE merges
      <3> DEFINE v == Merged(U[last], call.method, n, c)
                 u2 == WithCaller(U, last, call.method, n, c)
      <3>1. last \in 1 .. Len(U) BY <2>1, <1>3, LastIsQueued DEF merges
      <3>2. mailbox' = [mailbox EXCEPT !.urgent[last] = v] /\ told("open") BY <2>0, <2>1
      <3>3. Separate(u2) /\ \A d : d \in CallersOf(u2) <=> d \in CallersOf(U) \/ d = c
        <4> DEFINE k == last
                   what == call.method
        <4>1. U \in Seq(Envelopes) /\ Separate(U) /\ c \notin CallersOf(U) /\ k \in 1 .. Len(U)
          BY <1>3, <1>5, <3>1
        <4> HIDE DEF U, k, what, n
        <4>2. \A q2 : q2 = WithCaller(U, k, what, n, c) =>
                 Separate(q2) /\ \A d : d \in CallersOf(q2) <=> d \in CallersOf(U) \/ d = c
          BY <4>1, CallerJoins
        <4>3. u2 = WithCaller(U, k, what, n, c) BY DEF k, what
        <4> HIDE DEF u2
        <4> QED BY <4>2, <4>3
      <3>4. mailbox' = [mailbox EXCEPT !.urgent = u2]
        <4>1. u2 = [U EXCEPT ![last] = v] BY DEF WithCaller
        <4> HIDE DEF v, last, u2
        <4> QED BY <3>2, <4>1
      <3> HIDE DEF u2
      <3>5. mailbox'.urgent = u2 /\ mailbox'.bulk = B BY <1>3, <3>4
      <3> QED BY <1>5, <1>9, <2>0, <3>2, <3>3, <3>5
    <2>2. CASE ~merges /\ full BY <1>8, <2>0, <2>2
    <2>3. CASE ~merges /\ ~full /\ urgent
      <3> DEFINE u2 == Append(U, e)
      <3>1. mailbox' = [mailbox EXCEPT !.urgent = u2] /\ told("open") BY <2>0, <2>3
      <3>2. Separate(u2) /\ \A d : d \in CallersOf(u2) <=> d \in CallersOf(U) \/ d = c
        BY <1>3, <1>5, <1>7, CommandJoins
      <3> HIDE DEF u2
      <3>3. mailbox'.urgent = u2 /\ mailbox'.bulk = B BY <1>3, <3>1
      <3> QED BY <1>5, <1>9, <2>0, <3>1, <3>2, <3>3
    <2>4. CASE ~merges /\ ~full /\ ~urgent
      <3> DEFINE b2 == Append(B, e)
      <3>1. mailbox' = [mailbox EXCEPT !.bulk = b2] /\ told("open") BY <2>0, <2>4
      <3>2. Separate(b2) /\ \A d : d \in CallersOf(b2) <=> d \in CallersOf(B) \/ d = c
        BY <1>3, <1>5, <1>7, CommandJoins
      <3> HIDE DEF b2
      <3>3. mailbox'.urgent = U /\ mailbox'.bulk = b2 BY <1>3, <3>1
      <3> QED BY <1>5, <1>9, <2>0, <3>1, <3>2, <3>3
    <2> QED BY <2>1, <2>2, <2>3, <2>4
  <1> QED BY <1>10, <1>11, <1>12
-----------------------------------------------------------------------------
(* The invariant and what it says of the replies and of the catalogue.     *)

\* Nothing is queued, under way or answered, and the two tables are the same.
LEMMA AnswersInit == ControlInit => AnswersInv
  <1> SUFFICES ASSUME ControlInit PROVE AnswersInv OBVIOUS
  <1>1. /\ todo \in SUBSET (DOMAIN Calls) /\ mailbox = [urgent |-> << >>, bulk |-> << >>] /\ owner = NewOwner /\ waiting = << >>
        /\ answers = [c \in DOMAIN Calls |-> None] /\ catalog = [g \in Gids |-> Spec0] /\ store = catalog
    BY TokensAssumption DEF ControlInit
  <1>2. \A q : q = << >> => Separate(q) /\ \A c : c \notin CallersOf(q) BY DEF Separate, CallersOf
  <1>3. mailbox.urgent = << >> /\ mailbox.bulk = << >> BY <1>1
  <1>4. DOMAIN answers = DOMAIN Calls /\ \A c \in DOMAIN Calls : answers[c] = None BY <1>1
  <1>5. waiting \in Seq(Waits) /\ Len(waiting) = 0 BY <1>1
  <1>6. OnePlace(waiting, mailbox.urgent, mailbox.bulk, answers)
    BY <1>1, <1>2, <1>3, <1>4, <1>5, OptionFacts DEF OnePlace
  <1>7. Unmade(todo, answers) BY <1>1, <1>4 DEF Unmade
  <1>8. /\ ~Is(owner.input) /\ ~Is(owner.mutation) /\ ~Is(owner.bulk) /\ ~Is(owner.admission) /\ ~Is(owner.configuration) /\ ~Is(owner.export)
        /\ DOMAIN owner.sources = {}
    BY <1>1 DEF NewOwner, Is, None, EmptyMap
  <1>9. SameSpecs(owner, catalog, store) BY <1>1, <1>8 DEF Shaped, Spec0, SameSpecs
  <1>10. \A t : Never(owner, t) BY <1>8 DEF Kinds, Never, Carries, Sourced
  <1>11. Pledges(waiting, owner, Unspent(todo, mailbox.urgent, mailbox.bulk)) BY <1>5, <1>10 DEF Pledges
  <1>12. Exclusive(owner) BY <1>8, Zenon DEF Exclusive
  <1>13. Planned(owner, catalog) BY <1>8, Zenon DEF Planned
  <1> QED BY <1>6, <1>7, <1>9, <1>11, <1>12, <1>13, Zenon DEF AnswersInv

\* Every step of a client or of the owner keeps it.
LEMMA AnswersNextInv ==
  ASSUME ControlInv, AnswersInv, [ControlNext]_controlVars
  PROVE  AnswersInv'
  <1>1. CASE \E c \in DOMAIN Calls : admit(c) BY <1>1, AdmitAnswers, Zenon
  <1>2. CASE dispatch BY <1>2, DispatchAnswers
  <1>3. CASE deliver BY <1>3, DeliverAnswers
  <1>4. CASE poll_bulk_control BY <1>4, BulkAnswers
  <1>5. CASE complete_source_replacements BY <1>5, SourcesAnswers
  <1>6. CASE try_admit_one \/ poll_event BY <1>6, InputAnswers
  <1>7. CASE finish_input BY <1>7, FinishAnswers
  <1>8. CASE poll_admission BY <1>8, AdmissionAnswers
  <1>9. CASE poll_configuration \/ poll_session_export BY <1>9, SettledAnswers
  <1>10. CASE observe_closing BY <1>10, ClosingAnswers
  <1>11. CASE engine_fails BY <1>11, FaultAnswers
  <1>12. CASE reject_queued BY <1>12, RejectAnswers
  <1>13. CASE admission_fails BY <1>13, AdmissionFailAnswers
  <1>14. CASE drain BY <1>14, DrainAnswers
  <1>15. CASE UNCHANGED controlVars BY <1>15, Zenon DEF controlVars, AnswersInv
  <1> QED
    BY <1>1, <1>2, <1>3, <1>4, <1>5, <1>6, <1>7, <1>8, <1>9, <1>10, <1>11, <1>12, <1>13, <1>14, <1>15, Zenon DEF ControlNext, OwnerSteps

\* One place of one queue for an open call, one continuation for an open
\* command, and a catalogue that is the database.
LEMMA AnswersSound ==
  ASSUME ControlInv, AnswersInv
  PROVE  RepliesHeld /\ CatalogMatchesStore
  <1>1. /\ waiting \in Seq(Waits) /\ OnePlace(waiting, mailbox.urgent, mailbox.bulk, answers)
        /\ mailbox.urgent \in Seq(Envelopes) /\ mailbox.bulk \in Seq(Envelopes)
        /\ SameSpecs(owner, catalog, store)
        /\ owner.phase = "running" => Pledges(waiting, owner, Unspent(todo, mailbox.urgent, mailbox.bulk))
    BY AnswersFacts, ConsistentTypes DEF ControlInv
  <1>2. CatalogMatchesStore BY <1>1, Zenon DEF SameSpecs, CatalogMatchesStore
  <1>3. ASSUME NEW c \in DOMAIN Calls
        PROVE  Places(c) = (IF answers[c] = Some("open") THEN 1 ELSE 0)
    <2> DEFINE In(q) == Cardinality({i \in DOMAIN q : c \in ToSet(q[i].callers)})
               Has(q) == IF c \in CallersOf(q) THEN 1 ELSE 0
               W == waiting
               U == mailbox.urgent
               B == mailbox.bulk
    <2>1. Separate(W) /\ Separate(U) /\ Separate(B) BY <1>1 DEF OnePlace
    <2>2. In(W) = Has(W) /\ In(U) = Has(U) /\ In(B) = Has(B) BY <1>1, <2>1, QueueCount
    <2>3. Places(c) = In(W) + In(U) + In(B) BY DEF Places
    <2>4. /\ answers[c] = Some("open") <=> c \in CallersOf(W) \/ c \in CallersOf(U) \/ c \in CallersOf(B)
          /\ c \in CallersOf(W) => c \notin CallersOf(U) /\ c \notin CallersOf(B)
          /\ c \in CallersOf(U) => c \notin CallersOf(B)
      BY <1>1 DEF OnePlace
    <2> HIDE DEF In, W, U, B
    <2> QED BY <2>2, <2>3, <2>4
  <1>4. ASSUME owner.phase = "running", NEW i \in DOMAIN waiting
        PROVE  Carriers(waiting[i].token) = (IF Is(waiting[i].result) THEN 0 ELSE 1)
    <2> DEFINE t == waiting[i].token
    <2>1. i \in 1 .. Len(waiting) BY <1>1, <1>4
    <2>2. IF Is(waiting[i].result) THEN Never(owner, t) ELSE Once(owner, t) BY <1>1, <1>4, <2>1 DEF Pledges
    <2>3. Carriers(t) = Cardinality(Carries(owner, t) \cup Sourced(owner, t))
      BY Zenon DEF Carriers, Carries, Sourced, Kinds
    <2> HIDE DEF t
    <2>4. CASE Is(waiting[i].result) BY <2>2, <2>4, <2>3, FS_EmptySet DEF Never, t
    <2>5. CASE ~Is(waiting[i].result)
      <3>1. PICK x : Carries(owner, t) \cup Sourced(owner, t) = {x} BY <2>2, <2>5 DEF Once
      <3> QED BY <2>3, <2>5, <3>1, FS_Singleton DEF t
    <2> QED BY <2>4, <2>5
  <1> QED BY <1>2, <1>3, <1>4 DEF RepliesHeld

-----------------------------------------------------------------------------
(* The control plane among the services: a behaviour is one of a single    *)
(* part.                                                                   *)

\* What holds of the control plane in every state of a behaviour about it.
PlaneInv == part = "control" => ControlInv /\ AnswersInv

\* A step is one of the control plane, or leaves it alone.
LEMMA PlaneSteps ==
  ASSUME [ServicesNext]_servicesVars
  PROVE  part' = part /\ IF part = "control" THEN [ControlNext]_controlVars ELSE UNCHANGED controlVars
  <1>1. CASE ServicesNext BY <1>1, Zenon DEF ServicesNext
  <1>2. CASE UNCHANGED servicesVars BY <1>2 DEF servicesVars
  <1> QED BY <1>1, <1>2

\* Every reachable state of the control plane satisfies both invariants.
THEOREM ControlInvariance == ServicesSpec => []PlaneInv
  <1>1. ServicesInit => PlaneInv BY InitControl, AnswersInit, Zenon DEF ServicesInit, PlaneInv
  <1>2. PlaneInv /\ [ServicesNext]_servicesVars => PlaneInv'
    BY PlaneSteps, ControlNextInv, AnswersNextInv DEF PlaneInv
  <1> QED BY <1>1, <1>2, PTL DEF ServicesSpec

\* A bulk control never undoes a control of one of its tasks that was accepted
\* after it and carried out before it, whatever was queued, merged, captured
\* again, refused or dropped in between (control_ops.rs, control_runtime.rs).
THEOREM LaterControlsAlwaysWin == ServicesSpec => LaterControlsWin
  <1>1. PlaneInv /\ [ServicesNext]_servicesVars =>
          [\A g \in Gids : acted'[g] # acted[g] /\ acted'[g].bulk => acted[g].seq < acted'[g].seq]_controlVars
    BY PlaneSteps, ControlNextInv DEF PlaneInv, OnlyEarlier
  <1> QED BY <1>1, ControlInvariance, PTL DEF ServicesSpec, LaterControlsWin

\* Every accepted call is in exactly one place until it is answered, and one
\* continuation carries every dispatched command to its result, whatever is
\* merged, refused, failed or shut down; and the catalogue the workers start
\* from is what the database holds, in a session export too (control_runtime.rs,
\* http_control.rs).
THEOREM ControlIsSound == ServicesSpec => []ControlSound
  <1>1. PlaneInv => ControlSound BY AnswersSound, Zenon DEF PlaneInv, ControlSound
  <1> QED BY <1>1, ControlInvariance, PTL
==============================================================================
