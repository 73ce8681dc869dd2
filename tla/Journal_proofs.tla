-------------------------------- MODULE Journal_proofs --------------------------------
(***************************************************************************)
(* Theorems about the journal of a task for every number of generations,   *)
(* records and segments: what is on disk always replays, the segmented     *)
(* journal implements DurableLog, and what the replayed records say is     *)
(* consistent after each of them.                                          *)
(***************************************************************************)
EXTENDS JournalLog, JournalReplay, TLAPS

Entries == [seq : 1 .. MaxSequence, gen : 0 .. MaxGeneration, payload : Payloads]

Segments(H) == [header : H, end : Nat, torn : BOOLEAN]

Appenders == [at : {"open", "temporary", "published", "linked", "down", "lost"}, flushed : Nat,
              fault : BOOLEAN, handle : BOOLEAN, recovering : BOOLEAN]

Installing == appender.at \in {"temporary", "published", "linked"}

-----------------------------------------------------------------------------
(* The invariant.                                                          *)

JournalTypes ==
  /\ written \in Seq(Entries) /\ Len(written) <= MaxSequence
  /\ \E H : segments \in Seq(Segments(H))
  /\ Len(segments) \in 1 .. MaxSegments
  /\ appender \in Appenders
  /\ synced \in Nat

\* Every segment but the last is whole, and a sync has reached all of it.
Settled ==
  /\ Active.end = Len(written)
  /\ \A i \in 1 .. (Len(segments) - 1) : segments[i].end <= synced /\ ~segments[i].torn

\* Every header follows from the segment before it, every record from the
\* record before it.
Chained ==
  \A i \in 1 .. Len(segments) : /\ header_ok(written, segments, i)
                                /\ records_ok(written, segments, i)
                                /\ segments[i].header.start \in 0 .. MaxGeneration

\* What was acknowledged was synced; a segment is installed when everything is.
Acknowledged ==
  /\ appender.flushed <= synced /\ synced <= Len(written)
  /\ Installing => synced = Len(written) /\ ~Active.torn
  /\ Healthy => ~Active.torn

\* The header of a segment that is not yet published follows from the last one.
Prepared ==
  LET h == The(candidate).header
      n == Len(segments)
  IN appender.at = "temporary" =>
       /\ n < MaxSegments
       /\ h.index = n /\ h.first = Len(written) + 1 /\ h.prevLast = Len(written)
       /\ h.prevHash = hash_segment(written, segments, n)
       /\ h.start \in 0 .. MaxGeneration

\* A segment whose name may still be lost has no records.
Published ==
  appender.at = "published" =>
    Len(segments) > 1 /\ segments[Len(segments) - 1].end = Len(written)

JournalInv ==
  JournalTypes /\ Settled /\ Chained /\ Acknowledged /\ Prepared /\ Published

-----------------------------------------------------------------------------
(* Lemmas.                                                                 *)

\* The first k records of r and q are the same.
Agree(r, q, k) == k <= Len(r) /\ k <= Len(q) /\ \A j \in 1 .. k : r[j] = q[j]

\* A segment's share of the records depends on no more than where it ends.
LEMMA ShareKept ==
  ASSUME NEW R, NEW r \in Seq(R), NEW q \in Seq(R), NEW m \in Nat \ {0}, NEW k \in Nat, Agree(r, q, k)
  PROVE  SubSeq(r, m, k) = SubSeq(q, m, k)
  BY DEF Agree

\* Where the segments before i end.
LEMMA BeforeType ==
  ASSUME NEW H, NEW s \in Seq(Segments(H)), NEW i \in 1 .. Len(s)
  PROVE  /\ Before(s, i) \in Nat /\ s[i].end \in Nat /\ s[i].torn \in BOOLEAN
         /\ DOMAIN s[i] = {"header", "end", "torn"}
  <1>1. \A j \in 1 .. Len(s) : s[j] \in Segments(H) OBVIOUS
  <1>2. \A x \in Segments(H) : /\ x.end \in Nat /\ x.torn \in BOOLEAN
                               /\ DOMAIN x = {"header", "end", "torn"}
    BY DEF Segments
  <1>3. i > 1 => i - 1 \in 1 .. Len(s) OBVIOUS
  <1>4. Before(s, i) \in Nat BY <1>1, <1>2, <1>3 DEF Before
  <1> QED BY <1>1, <1>2, <1>4

\* A step that leaves all segments before the m-th alone, and the records they
\* hold, leaves the chain intact if the records of the m-th decode.
LEMMA ChainKept ==
  ASSUME JournalTypes, Settled, Chained, NEW q \in Seq(Entries), NEW t,
         NEW m \in 1 .. Len(segments),
         \A j \in 1 .. (m - 1) : t[j] = segments[j],
         t[m].header = segments[m].header,
         \A j \in 1 .. (m - 1) : Agree(written, q, segments[j].end),
         \A k \in (Before(segments, m) + 1) .. t[m].end :
           decode_record(q[k], k, segments[m].header.start)
  PROVE  \A i \in 1 .. m : /\ header_ok(q, t, i) /\ records_ok(q, t, i)
                           /\ t[i].header.start \in 0 .. MaxGeneration
  <1> SUFFICES ASSUME NEW i \in 1 .. m
               PROVE  /\ header_ok(q, t, i) /\ records_ok(q, t, i)
                      /\ t[i].header.start \in 0 .. MaxGeneration
    OBVIOUS
  <1>1. PICK H : segments \in Seq(Segments(H)) BY DEF JournalTypes
  <1>2. i \in 1 .. Len(segments) /\ Len(segments) \in Nat BY <1>1
  <1>3. Before(segments, i) \in Nat /\ segments[i].end \in Nat BY <1>1, <1>2, BeforeType
  <1>4. /\ header_ok(written, segments, i) /\ records_ok(written, segments, i)
        /\ segments[i].header.start \in 0 .. MaxGeneration
    BY <1>2 DEF Chained
  <1>5. t[i].header = segments[i].header /\ Before(t, i) = Before(segments, i) BY <1>2 DEF Before
  <1>6. i > 1 => hash_segment(q, t, i - 1) = hash_segment(written, segments, i - 1)
    <2> SUFFICES ASSUME i > 1
                 PROVE  hash_segment(q, t, i - 1) = hash_segment(written, segments, i - 1)
      OBVIOUS
    <2> DEFINE p == i - 1
    <2>1. /\ p \in 1 .. Len(segments) /\ p \in 1 .. (m - 1) /\ p \in Nat
          /\ t[p] = segments[p] /\ Before(t, p) = Before(segments, p)
      BY <1>2 DEF Before
    <2> HIDE DEF p
    <2>2. Before(segments, p) \in Nat /\ segments[p].end \in Nat BY <1>1, <2>1, BeforeType
    <2>3. Agree(written, q, segments[p].end) /\ written \in Seq(Entries) BY <2>1 DEF JournalTypes
    <2> DEFINE b == Before(segments, p) + 1
               e == segments[p].end
    <2>4. b \in Nat \ {0} /\ e \in Nat /\ Agree(written, q, e) BY <2>2, <2>3
    <2>5. SubSeq(written, b, e) = SubSeq(q, b, e)
      <3> HIDE DEF b, e
      <3> QED BY <2>3, <2>4, ShareKept
    <2>6. hash_segment(q, t, p) = hash_segment(written, segments, p) BY <2>1, <2>5 DEF hash_segment, Records
    <2> QED BY <2>6 DEF p
  <1>7. header_ok(q, t, i) BY <1>2, <1>4, <1>5, <1>6 DEF header_ok
  <1>8. records_ok(q, t, i)
    <2>1. CASE i = m BY <1>5, <2>1 DEF records_ok
    <2>2. CASE i # m BY <1>2, <2>2, <1>3, <1>4, <1>5 DEF Agree, records_ok
    <2> QED BY <2>1, <2>2
  <1> QED BY <1>4, <1>5, <1>7, <1>8

\* A function on 1 .. n is a sequence.
LEMMA FunctionIsSeq ==
  ASSUME NEW S, NEW n \in Nat, NEW f \in [1 .. n -> S]
  PROVE  f \in Seq(S)
  OBVIOUS

\* What the actions rely on.
LEMMA InvFacts ==
  ASSUME JournalInv
  PROVE  /\ Len(segments) \in Nat /\ Len(segments) >= 1 /\ Len(segments) <= MaxSegments
         /\ written \in Seq(Entries) /\ Len(written) \in Nat /\ Len(written) <= MaxSequence
         /\ synced \in Nat /\ appender \in Appenders
         /\ appender.flushed \in Nat /\ appender.flushed <= synced /\ synced <= Len(written)
         /\ Active.end = Len(written) /\ Active.torn \in BOOLEAN
         /\ Active.header.start \in 0 .. MaxGeneration
         /\ Before(segments, Len(segments)) \in Nat
  <1>1. PICK H : segments \in Seq(Segments(H)) BY DEF JournalInv, JournalTypes
  <1>2. /\ Len(segments) \in Nat /\ Len(segments) >= 1 /\ Len(segments) <= MaxSegments
        /\ written \in Seq(Entries) /\ Len(written) \in Nat /\ Len(written) <= MaxSequence
        /\ synced \in Nat /\ appender \in Appenders
    BY <1>1, JournalBounds DEF JournalInv, JournalTypes
  <1>3. Len(segments) \in 1 .. Len(segments) BY <1>2
  <1>4. Active.torn \in BOOLEAN /\ Before(segments, Len(segments)) \in Nat
    BY <1>1, <1>3, BeforeType DEF Active
  <1>5. Active.header.start \in 0 .. MaxGeneration BY <1>3 DEF JournalInv, Chained, Active
  <1>6. appender.flushed \in Nat BY <1>2 DEF Appenders
  <1>7. Active.end = Len(written) /\ appender.flushed <= synced /\ synced <= Len(written)
    BY DEF JournalInv, Settled, Acknowledged
  <1> QED BY <1>2, <1>4, <1>5, <1>6, <1>7

\* A step that writes to the last segment only, or cuts it.
LEMMA LastEdited ==
  ASSUME JournalInv, NEW e \in Nat, NEW b \in BOOLEAN,
         segments' = [segments EXCEPT ![Len(segments)] = Segment(Active.header, e, b)],
         written' \in Seq(Entries), Len(written') = e, e <= MaxSequence, Agree(written, written', synced),
         \A k \in (Before(segments, Len(segments)) + 1) .. e :
           decode_record(written'[k], k, Active.header.start)
  PROVE  /\ \E H : segments' \in Seq(Segments(H))
         /\ Len(segments') = Len(segments)
         /\ Active'.end = Len(written') /\ Active'.torn = b /\ Active'.header = Active.header
         /\ \A i \in 1 .. (Len(segments) - 1) : segments'[i] = segments[i]
         /\ Chained'
  <1> DEFINE n == Len(segments)
             x == Segment(Active.header, e, b)
  <1>1. PICK H : segments \in Seq(Segments(H)) BY DEF JournalInv, JournalTypes
  <1>2. n \in Nat /\ n \in 1 .. n /\ n >= 1 BY InvFacts
  <1>3. x \in Segments({Active.header}) BY DEF Segment, Segments
  <1>4. x.header = Active.header /\ x.end = e /\ x.torn = b BY DEF Segment
  <1> HIDE DEF x
  <1>5. \A s \in Segments(H) \cup {x} : s \in Segments(H \cup {Active.header}) BY <1>3 DEF Segments
  <1>6. segments' = [segments EXCEPT ![n] = x] BY DEF x
  <1>7. segments' \in Seq(Segments(H \cup {Active.header}))
    <2>1. \A i \in 1 .. n : segments[i] \in Segments(H) BY <1>1
    <2>2. segments' = [i \in 1 .. n |-> IF i = n THEN x ELSE segments[i]]
      <3>1. DOMAIN segments = 1 .. n BY <1>1
      <3> HIDE DEF n
      <3>2. segments' = [i \in DOMAIN segments |-> IF i = n THEN x ELSE segments[i]] BY <1>6, Zenon
      <3> QED BY <3>1, <3>2
    <2>3. \A i \in 1 .. n : (IF i = n THEN x ELSE segments[i]) \in Segments(H \cup {Active.header})
      BY <1>5, <2>1
    <2> DEFINE T == Segments(H \cup {Active.header})
    <2>4. segments' \in [1 .. n -> T]
      <3>1. \A i \in 1 .. n : (IF i = n THEN x ELSE segments[i]) \in T BY <2>3
      <3> HIDE DEF n, T
      <3> QED BY <2>2, <3>1
    <2> HIDE DEF n, T
    <2> QED BY <1>2, <2>4, FunctionIsSeq DEF T
  <1>8. Len(segments') = n /\ segments'[n] = x /\ \A i \in 1 .. (n - 1) : segments'[i] = segments[i]
    BY <1>1, <1>2, <1>6
  <1>9. Active'.end = Len(written') /\ Active'.torn = b /\ Active'.header = Active.header
    BY <1>4, <1>8 DEF Active
  <1>10. \A j \in 1 .. (n - 1) : Agree(written, written', segments[j].end)
    BY <1>2, <1>1, BeforeType, InvFacts DEF JournalInv, Settled, Agree
  <1>11. Chained'
    <2>1. segments'[n].header = segments[n].header /\ segments'[n].end = e BY <1>4, <1>8 DEF Active
    <2>2. Active.header.start = segments[n].header.start BY DEF Active
    <2>3. \A i \in 1 .. n : /\ header_ok(written', segments', i) /\ records_ok(written', segments', i)
                            /\ segments'[i].header.start \in 0 .. MaxGeneration
      <3> DEFINE t == segments'
                 q == written'
      <3>1. /\ q \in Seq(Entries) /\ \A j \in 1 .. (n - 1) : t[j] = segments[j]
            /\ t[n].header = segments[n].header
            /\ \A j \in 1 .. (n - 1) : Agree(written, q, segments[j].end)
            /\ \A k \in (Before(segments, n) + 1) .. t[n].end :
                 decode_record(q[k], k, segments[n].header.start)
        BY <1>8, <1>10, <2>1, <2>2
      <3> HIDE DEF t, q
      <3>2. \A i \in 1 .. n : /\ header_ok(q, t, i) /\ records_ok(q, t, i)
                              /\ t[i].header.start \in 0 .. MaxGeneration
        BY <1>2, <3>1, ChainKept DEF JournalInv
      <3> QED BY <3>2 DEF t, q
    <2> QED BY <1>8, <2>3 DEF Chained
  <1> QED BY <1>7, <1>8, <1>9, <1>11

\* Initially there is one segment without records.
LEMMA InitJournal == JournalInit => JournalInv
  <1> SUFFICES ASSUME JournalInit PROVE JournalInv OBVIOUS
  <1> DEFINE x == Segment(first(0), 0, FALSE)
  <1>1. /\ written = << >> /\ segments = <<x>> /\ synced = 0 /\ appender = Open(0) /\ Len(written) = 0
    BY DEF JournalInit
  <1>2. x.end = 0 /\ x.torn = FALSE /\ x.header = first(0) /\ x \in Segments({first(0)})
    BY DEF Segment, Segments
  <1>3. /\ first(0).index = 0 /\ first(0).first = 1 /\ first(0).start = 0 BY DEF first, Header
  <1> HIDE DEF x
  <1>4. Len(segments) = 1 /\ segments[1] = x /\ Active = x /\ segments \in Seq(Segments({first(0)}))
    BY <1>1, <1>2 DEF Active
  <1>5. appender.at = "open" /\ appender.flushed = 0 /\ appender \in Appenders BY <1>1 DEF Open, Appenders
  <1>6. JournalTypes BY <1>1, <1>4, JournalBounds, <1>5 DEF JournalTypes
  <1>7. Settled BY <1>1, <1>2, <1>4 DEF Settled
  <1>8. Chained BY <1>2, <1>3, <1>4, JournalBounds DEF Before, header_ok, records_ok, Chained
  <1>9. Acknowledged BY <1>1, <1>2, <1>4, <1>5 DEF Acknowledged, Installing
  <1> QED BY <1>5, <1>6, <1>7, <1>8, <1>9 DEF JournalInv, Prepared, Published

\* The segments before the last one stay settled when a sync reaches further.
LEMMA StaysSettled ==
  ASSUME JournalInv, synced' \in Nat, synced <= synced',
         NEW i \in 1 .. (Len(segments) - 1), segments'[i] = segments[i]
  PROVE  segments'[i].end <= synced' /\ ~segments'[i].torn
  <1>1. PICK H : segments \in Seq(Segments(H)) BY DEF JournalInv, JournalTypes
  <1>2. i \in 1 .. Len(segments) BY InvFacts
  <1>3. segments[i].end \in Nat BY <1>1, <1>2, BeforeType
  <1>4. segments[i].end <= synced /\ ~segments[i].torn BY DEF JournalInv, Settled
  <1> QED BY <1>3, <1>4, InvFacts

\* A step that writes nothing.
LEMMA QuietStep ==
  ASSUME JournalInv, UNCHANGED <<written, segments>>, appender' \in Appenders,
         synced' \in Nat, synced <= synced', Acknowledged', Prepared', Published'
  PROVE  JournalInv'
  <1>1. written' = written /\ segments' = segments OBVIOUS
  <1>2. JournalTypes' BY <1>1 DEF JournalInv, JournalTypes
  <1>3. Settled' BY <1>1, InvFacts, StaysSettled DEF Active, Settled
  <1>4. Chained' BY <1>1 DEF JournalInv, Chained, header_ok, records_ok, hash_segment, Records, Before
  <1> QED BY <1>2, <1>3, <1>4 DEF JournalInv

\* A step that writes to the last segment only, or cuts it.
LEMMA EditStep ==
  ASSUME JournalInv, NEW e \in Nat, NEW b \in BOOLEAN,
         segments' = [segments EXCEPT ![Len(segments)] = Segment(Active.header, e, b)],
         written' \in Seq(Entries), Len(written') = e, e <= MaxSequence, Agree(written, written', synced),
         \A k \in (Before(segments, Len(segments)) + 1) .. e :
           decode_record(written'[k], k, Active.header.start),
         appender' \in Appenders, synced' \in Nat, synced <= synced',
         Active'.torn = b => Acknowledged',
         Len(segments') = Len(segments) => Prepared', Published'
  PROVE  JournalInv'
  <1>1. /\ \E H : segments' \in Seq(Segments(H))
        /\ Len(segments') = Len(segments)
        /\ Active'.end = Len(written') /\ Active'.torn = b
        /\ \A i \in 1 .. (Len(segments) - 1) : segments'[i] = segments[i]
        /\ Chained'
    BY LastEdited, Zenon
  <1>2. JournalTypes' BY <1>1 DEF JournalInv, JournalTypes
  <1>3. Settled' BY <1>1, StaysSettled DEF Settled
  <1> QED BY <1>1, <1>2, <1>3 DEF JournalInv

-----------------------------------------------------------------------------
(* One lemma per kind of step: the appender's own, those of an             *)
(* installation, crashes and recovery.                                     *)

\* What a healthy appender says of the last segment.
LEMMA HealthyFacts ==
  ASSUME JournalInv, Healthy
  PROVE  appender.at = "open" /\ appender.fault = FALSE /\ ~Active.torn /\ ~Installing
  BY InvFacts DEF JournalInv, Acknowledged, Healthy, Installing, Appenders

\* A sync that succeeds acknowledges what was written.
LEMMA FlushKeeps == JournalInv /\ flush => JournalInv'
  <1> SUFFICES ASSUME JournalInv, flush PROVE JournalInv' OBVIOUS
  <1>1. /\ Healthy /\ synced' = Len(written) /\ UNCHANGED <<written, segments, candidate>>
        /\ appender' = [appender EXCEPT !.flushed = Len(written), !.handle = TRUE]
    BY DEF flush, Appended
  <1>2. appender' \in Appenders /\ appender'.at = "open" /\ appender'.flushed = Len(written)
    BY <1>1, InvFacts, HealthyFacts DEF Appenders
  <1>3. Acknowledged' BY <1>1, <1>2, InvFacts, HealthyFacts DEF Acknowledged, Installing, Active
  <1> QED BY <1>1, <1>2, <1>3, InvFacts, QuietStep DEF Prepared, Published

\* A sync that fails acknowledges nothing and poisons the appender.
LEMMA FlushFailsKeeps == JournalInv /\ flush_fails => JournalInv'
  <1> SUFFICES ASSUME JournalInv, flush_fails PROVE JournalInv' OBVIOUS
  <1>1. /\ Healthy /\ synced' \in synced .. Len(written) /\ UNCHANGED <<written, segments, candidate>>
        /\ appender' = [appender EXCEPT !.fault = TRUE]
    BY DEF flush_fails, Appended
  <1>2. /\ appender' \in Appenders /\ appender'.at = "open" /\ appender'.flushed = appender.flushed
        /\ appender'.fault = TRUE
    BY <1>1, InvFacts, HealthyFacts DEF Appenders
  <1>3. synced' \in Nat /\ synced <= synced' /\ synced' <= Len(written) BY <1>1, InvFacts
  <1>4. Acknowledged' BY <1>1, <1>2, <1>3, InvFacts DEF Acknowledged, Installing, Healthy
  <1> QED BY <1>1, <1>2, <1>3, <1>4, QuietStep DEF Prepared, Published

\* close_flushed leaves the segments as they are.
LEMMA CloseKeeps == JournalInv /\ close_flushed => JournalInv'
  <1> SUFFICES ASSUME JournalInv, close_flushed PROVE JournalInv' OBVIOUS
  <1>1. /\ Healthy /\ UNCHANGED <<written, segments, candidate, synced>>
        /\ appender' = [appender EXCEPT !.handle = FALSE]
    BY DEF close_flushed
  <1>2. appender' \in Appenders /\ appender'.at = "open" /\ appender'.flushed = appender.flushed
    BY <1>1, InvFacts, HealthyFacts DEF Appenders
  <1>3. Acknowledged' BY <1>1, <1>2, InvFacts, HealthyFacts DEF Acknowledged, Installing, Active
  <1> QED BY <1>1, <1>2, <1>3, InvFacts, QuietStep DEF Prepared, Published

\* One more record: it follows the last one and the segment's generation.
LEMMA AppendKeeps == JournalInv /\ append => JournalInv'
  <1> SUFFICES ASSUME JournalInv, append PROVE JournalInv' OBVIOUS
  <1> DEFINE n == Len(segments)
             e == Len(written) + 1
  <1>1. PICK g \in Active.header.start .. MaxGeneration, p \in Payloads :
          written' = Append(written, [seq |-> e, gen |-> g, payload |-> p])
    BY DEF append, Appended
  <1>2. /\ Healthy /\ Len(written) < MaxSequence /\ UNCHANGED <<candidate, synced>>
        /\ segments' = [segments EXCEPT ![n] = Segment(Active.header, e, Active.torn)]
        /\ appender' = [appender EXCEPT !.handle = TRUE]
    BY DEF append, Appended, Active
  <1> DEFINE r == [seq |-> e, gen |-> g, payload |-> p]
  <1>3. r \in Entries /\ r.seq = e /\ r.gen = g
    <2>1. e \in 1 .. MaxSequence /\ g \in 0 .. MaxGeneration BY <1>2, InvFacts, JournalBounds
    <2> HIDE DEF e
    <2> QED BY <2>1 DEF Entries
  <1> HIDE DEF r
  <1>4. /\ written' \in Seq(Entries) /\ Len(written') = e /\ e \in Nat /\ e <= MaxSequence
        /\ written'[e] = r /\ \A k \in 1 .. Len(written) : written'[k] = written[k]
    BY <1>1, <1>2, <1>3, InvFacts, JournalBounds DEF r
  <1>5. Agree(written, written', synced) BY <1>4, InvFacts DEF Agree
  <1>6. \A k \in (Before(segments, n) + 1) .. e : decode_record(written'[k], k, Active.header.start)
    <2> SUFFICES ASSUME NEW k \in (Before(segments, n) + 1) .. e
                 PROVE  decode_record(written'[k], k, Active.header.start)
      OBVIOUS
    <2>1. CASE k = e BY <1>3, <1>4, <2>1, InvFacts, JournalBounds DEF decode_record
    <2>2. CASE k # e
      <3>1. k \in (Before(segments, n) + 1) .. Len(written) /\ k \in 1 .. Len(written) BY <2>2, InvFacts
      <3>2. n \in 1 .. n BY InvFacts
      <3>3. decode_record(written[k], k, Active.header.start)
        BY <3>1, <3>2, InvFacts DEF JournalInv, Chained, records_ok, Active
      <3> QED BY <1>4, <3>1, <3>3
    <2> QED BY <2>1, <2>2
  <1>7. segments' = [segments EXCEPT ![n] = Segment(Active.header, e, FALSE)] BY <1>2, HealthyFacts, InvFacts
  <1>8. /\ appender' \in Appenders /\ appender'.at = "open" /\ appender'.flushed = appender.flushed
    BY <1>2, InvFacts, HealthyFacts DEF Appenders
  <1>9. Active'.torn = FALSE => Acknowledged' BY <1>2, <1>4, <1>8, InvFacts DEF Acknowledged, Installing
  <1>10. Prepared' /\ Published' BY <1>8 DEF Prepared, Published
  <1>11. FALSE \in BOOLEAN /\ synced' \in Nat /\ synced <= synced' BY <1>2, InvFacts
  <1> HIDE DEF n, e
  <1> QED BY <1>4, <1>5, <1>6, <1>7, <1>8, <1>9, <1>10, <1>11, EditStep DEF n

\* The records of the last segment decode.
LEMMA LastDecodes ==
  ASSUME JournalInv
  PROVE  \A k \in (Before(segments, Len(segments)) + 1) .. Len(written) :
           decode_record(written[k], k, Active.header.start)
  <1>1. Len(segments) \in 1 .. Len(segments) BY InvFacts
  <1> QED BY <1>1, InvFacts DEF JournalInv, Chained, records_ok, Active

\* A write that fails part way damages no more than the tail.
LEMMA AppendFailsKeeps == JournalInv /\ append_fails => JournalInv'
  <1> SUFFICES ASSUME JournalInv, append_fails PROVE JournalInv' OBVIOUS
  <1> DEFINE n == Len(segments)
             e == Len(written)
  <1>1. PICK torn \in BOOLEAN : segments' = [segments EXCEPT ![n] = Segment(@.header, @.end, @.torn \/ torn)]
    BY DEF append_fails
  <1>2. /\ Healthy /\ written' = written /\ UNCHANGED <<candidate, synced>>
        /\ appender' = [appender EXCEPT !.fault = TRUE]
    BY DEF append_fails
  <1> DEFINE b == Active.torn \/ torn
  <1>3. b \in BOOLEAN BY InvFacts
  <1>4. segments' = [segments EXCEPT ![n] = Segment(Active.header, e, b)] BY <1>1, InvFacts DEF Active
  <1>5. /\ appender' \in Appenders /\ appender'.at = "open" /\ appender'.flushed = appender.flushed
        /\ appender'.fault = TRUE
    BY <1>2, InvFacts, HealthyFacts DEF Appenders
  <1>6. Acknowledged' /\ Prepared' /\ Published'
    BY <1>2, <1>5, InvFacts DEF Acknowledged, Installing, Healthy, Prepared, Published
  <1>7. \A k \in (Before(segments, n) + 1) .. e : decode_record(written'[k], k, Active.header.start)
    BY <1>2, LastDecodes
  <1>8. /\ e \in Nat /\ written' \in Seq(Entries) /\ Len(written') = e /\ e <= MaxSequence
        /\ Agree(written, written', synced) /\ synced' \in Nat /\ synced <= synced'
    BY <1>2, InvFacts DEF Agree
  <1> HIDE DEF n, e, b
  <1> QED BY <1>3, <1>4, <1>5, <1>6, <1>7, <1>8, EditStep DEF n

\* The header a rotation or a repair prepares follows from the last segment.
LEMMA SuccessorFollows ==
  ASSUME JournalInv, NEW hash, NEW g \in 0 .. MaxGeneration
  PROVE  LET h == successor(Active.header, Len(written), hash, g)
         IN /\ h.index = Len(segments) /\ h.first = Len(written) + 1 /\ h.prevLast = Len(written)
            /\ h.prevHash = hash /\ h.start = g
  <1>1. Len(segments) \in 1 .. Len(segments) /\ Len(segments) \in Nat BY InvFacts
  <1>2. Active.header.index = Len(segments) - 1 BY <1>1 DEF JournalInv, Chained, header_ok, Active
  <1>3. Active.header.index + 1 = Len(segments) BY <1>1, <1>2
  <1> QED BY <1>3 DEF successor, Header

\* A rotation prepares a header that follows from the last segment.
LEMMA RotateKeeps == JournalInv /\ rotate => JournalInv'
  <1> SUFFICES ASSUME JournalInv, rotate PROVE JournalInv' OBVIOUS
  <1> DEFINE n == Len(segments)
             hash == hash_segment(written, segments, n)
             header(g) == successor(Active.header, Len(written), hash, g)
  <1>1. PICK g \in 0 .. MaxGeneration :
          /\ candidate' = Some([header |-> header(g), linked |-> FALSE])
          /\ appender' = [[appender EXCEPT !.handle = FALSE] EXCEPT !.at = "temporary"]
    BY DEF rotate, StartInstall, Appended
  <1>2. /\ Healthy /\ appender.flushed = Len(written) /\ n < MaxSegments
        /\ synced' = Len(written) /\ written' = written /\ segments' = segments
    BY DEF rotate, Appended
  <1>3. appender' \in Appenders /\ appender'.at = "temporary" /\ appender'.flushed = appender.flushed
    BY <1>1, <1>2, InvFacts DEF Appenders
  <1>4. Acknowledged'
    <2>1. Active' = Active /\ ~Active.torn BY <1>2, HealthyFacts DEF Active
    <2> QED BY <1>2, <1>3, <2>1, InvFacts DEF Acknowledged, Healthy
  <1>5. Prepared'
    <2>1. The(candidate)'.header = header(g) BY <1>1 DEF The, Some
    <2>2. /\ header(g).index = n /\ header(g).first = Len(written) + 1
          /\ header(g).prevLast = Len(written) /\ header(g).prevHash = hash
          /\ header(g).start \in 0 .. MaxGeneration
      BY SuccessorFollows
    <2>3. hash' = hash /\ n' = n BY <1>2 DEF hash_segment, Records, Before
    <2> HIDE DEF header, hash, n
    <2> QED BY <1>2, <2>1, <2>2, <2>3 DEF Prepared, n, hash
  <1>6. Published' BY <1>3 DEF Published
  <1> QED BY <1>2, <1>3, <1>4, <1>5, <1>6, InvFacts, QuietStep

\* Steps of an installation after which only its progress is different.
LEMMA InstallSyncedKeeps == JournalInv /\ install_synced => JournalInv'
  <1> SUFFICES ASSUME JournalInv, install_synced PROVE JournalInv' OBVIOUS
  <1>1. /\ appender.at = "published" /\ appender' = [appender EXCEPT !.at = "linked"]
        /\ UNCHANGED <<written, segments, candidate, synced>>
    BY DEF install_synced
  <1>2. appender' \in Appenders /\ appender'.at = "linked" /\ appender'.flushed = appender.flushed
    BY <1>1, InvFacts DEF Appenders
  <1>3. Acknowledged' BY <1>1, <1>2, InvFacts DEF JournalInv, Acknowledged, Installing, Healthy, Active
  <1> QED BY <1>1, <1>2, <1>3, InvFacts, QuietStep DEF Prepared, Published

\* The installation ends when the temporary name is gone.
LEMMA InstallUnlinkedKeeps == JournalInv /\ install_unlinked => JournalInv'
  <1> SUFFICES ASSUME JournalInv, install_unlinked PROVE JournalInv' OBVIOUS
  <1>1. /\ appender.at = "linked" /\ appender' = Open(Len(written))
        /\ UNCHANGED <<written, segments, synced>>
    BY DEF install_unlinked, Appended
  <1>2. appender' \in Appenders /\ appender'.at = "open" /\ appender'.flushed = Len(written)
    BY <1>1, InvFacts DEF Appenders, Open
  <1>3. Acknowledged' BY <1>1, <1>2, InvFacts DEF JournalInv, Acknowledged, Installing, Active
  <1> QED BY <1>1, <1>2, <1>3, InvFacts, QuietStep DEF Prepared, Published

\* An installation may fail at each of its steps and leaves what it had done.
LEMMA InstallFailsKeeps == JournalInv /\ install_fails => JournalInv'
  <1> SUFFICES ASSUME JournalInv, install_fails PROVE JournalInv' OBVIOUS
  <1>1. /\ appender.at \in {"temporary", "published", "linked"}
        /\ appender' = IF appender.recovering THEN [appender EXCEPT !.at = "down"]
                       ELSE [appender EXCEPT !.at = "open", !.fault = TRUE]
        /\ UNCHANGED <<written, segments, synced>>
    BY DEF install_fails
  <1>2. /\ appender' \in Appenders /\ appender'.at \in {"open", "down"}
        /\ appender'.flushed = appender.flushed /\ (appender'.at = "open" => appender'.fault = TRUE)
    BY <1>1, InvFacts DEF Appenders
  <1>3. Acknowledged' BY <1>1, <1>2, InvFacts DEF JournalInv, Acknowledged, Installing, Healthy
  <1> QED BY <1>1, <1>2, <1>3, InvFacts, QuietStep DEF Prepared, Published

\* A refused recovery changes no segment.
LEMMA RefusedKeeps == JournalInv /\ recover_refused => JournalInv'
  <1> SUFFICES ASSUME JournalInv, recover_refused PROVE JournalInv' OBVIOUS
  <1>1. /\ appender' = [appender EXCEPT !.at = "lost"]
        /\ UNCHANGED <<written, segments, candidate, synced>>
    BY DEF recover_refused
  <1>2. appender' \in Appenders /\ appender'.at = "lost" /\ appender'.flushed = appender.flushed
    BY <1>1, InvFacts DEF Appenders
  <1>3. Acknowledged' BY <1>1, <1>2, InvFacts DEF JournalInv, Acknowledged, Installing, Healthy
  <1> QED BY <1>1, <1>2, <1>3, InvFacts, QuietStep DEF Prepared, Published

\* All segments end where a sync has reached, or where the records do.
LEMMA EndsWithin ==
  ASSUME JournalInv, NEW j \in 1 .. Len(segments)
  PROVE  segments[j].end \in Nat /\ Agree(written, written, segments[j].end)
  <1>1. PICK H : segments \in Seq(Segments(H)) BY DEF JournalInv, JournalTypes
  <1>2. segments[j].end \in Nat BY <1>1, BeforeType
  <1>3. segments[j].end <= Len(written)
    <2>1. CASE j = Len(segments) BY <2>1, InvFacts DEF Active
    <2>2. CASE j # Len(segments) BY <2>2, InvFacts, <1>2 DEF JournalInv, Settled
    <2> QED BY <2>1, <2>2
  <1> QED BY <1>2, <1>3 DEF Agree

\* The chain up to the m-th segment does not depend on those behind it.
LEMMA PrefixChained ==
  ASSUME JournalInv, NEW t, NEW m \in 1 .. Len(segments), \A j \in 1 .. m : t[j] = segments[j]
  PROVE  \A i \in 1 .. m : /\ header_ok(written, t, i) /\ records_ok(written, t, i)
                           /\ t[i].header.start \in 0 .. MaxGeneration
  <1>1. m \in 1 .. m /\ m \in Nat /\ Len(segments) \in Nat BY InvFacts
  <1>2. \A j \in 1 .. (m - 1) : j \in 1 .. m /\ j \in 1 .. Len(segments) BY <1>1
  <1>3. /\ \A j \in 1 .. (m - 1) : t[j] = segments[j] /\ Agree(written, written, segments[j].end)
        /\ t[m].header = segments[m].header /\ t[m].end = segments[m].end
    BY <1>1, <1>2, EndsWithin
  <1>4. \A k \in (Before(segments, m) + 1) .. t[m].end :
          decode_record(written[k], k, segments[m].header.start)
    BY <1>3 DEF JournalInv, Chained, records_ok
  <1>5. written \in Seq(Entries) /\ JournalTypes /\ Settled /\ Chained BY InvFacts DEF JournalInv
  <1> QED BY <1>3, <1>4, <1>5, ChainKept

\* A published segment follows from the one before it and has no records yet.
LEMMA InstallPublishedKeeps == JournalInv /\ install_published => JournalInv'
  <1> SUFFICES ASSUME JournalInv, install_published PROVE JournalInv' OBVIOUS
  <1> DEFINE n == Len(segments)
             h == The(candidate).header
             x == Segment(h, Len(written), FALSE)
             p == n + 1
  <1>1. /\ appender.at = "temporary" /\ segments' = Append(segments, x)
        /\ appender' = [appender EXCEPT !.at = "published"] /\ UNCHANGED <<written, synced>>
    BY DEF install_published, Appended
  <1>2. /\ n < MaxSegments /\ h.index = n /\ h.first = Len(written) + 1 /\ h.prevLast = Len(written)
        /\ h.prevHash = hash_segment(written, segments, n) /\ h.start \in 0 .. MaxGeneration
    BY <1>1 DEF JournalInv, Prepared
  <1>3. x.header = h /\ x.end = Len(written) /\ x.torn = FALSE /\ x \in Segments({h})
    BY InvFacts DEF Segment, Segments
  <1>4. PICK H : segments \in Seq(Segments(H)) BY DEF JournalInv, JournalTypes
  <1> HIDE DEF x, h
  <1>5. n \in Nat /\ p \in Nat /\ n \in 1 .. n /\ p # 1 /\ p - 1 = n BY InvFacts
  <1>6. /\ Len(segments') = p /\ segments'[p] = x /\ \A i \in 1 .. n : segments'[i] = segments[i]
    BY <1>1, <1>4, <1>5
  <1>7. \E G : segments' \in Seq(Segments(G))
    <2>1. \A s \in Segments(H) \cup {x} : s \in Segments(H \cup {h}) BY <1>3 DEF Segments
    <2> DEFINE T == Segments(H \cup {h})
    <2>2. \A i \in 1 .. n : segments[i] \in Segments(H) BY <1>4
    <2>3. \A i \in 1 .. p : segments'[i] = IF i = p THEN x ELSE segments[i] BY <1>5, <1>6
    <2>4. segments' \in Seq(Segments(H) \cup {x}) BY <1>1, <1>4
    <2>5. \A i \in 1 .. p : (IF i = p THEN x ELSE segments[i]) \in T
      <3>1. \A i \in 1 .. p : i # p => i \in 1 .. n BY <1>5
      <3> HIDE DEF n, p
      <3> QED BY <2>1, <2>2, <3>1
    <2> HIDE DEF p, T, n
    <2>6. segments' \in [1 .. p -> T] BY <1>6, <2>3, <2>4, <2>5
    <2>7. segments' \in Seq(T) BY <1>5, <2>6, FunctionIsSeq
    <2> QED BY <2>7 DEF T
  <1>8. appender' \in Appenders /\ appender'.at = "published" /\ appender'.flushed = appender.flushed
    BY <1>1, InvFacts DEF Appenders
  <1>9. synced = Len(written) /\ ~Active.torn BY <1>1 DEF JournalInv, Acknowledged, Installing
  <1>10. JournalTypes' BY <1>2, <1>5, <1>6, JournalBounds, <1>1, <1>7, <1>8, InvFacts DEF JournalTypes
  <1>11. Active' = x BY <1>6 DEF Active
  <1>12. Settled'
    <2>1. \A i \in 1 .. n : segments[i].end <= synced /\ ~segments[i].torn
      <3> SUFFICES ASSUME NEW i \in 1 .. n PROVE segments[i].end <= synced /\ ~segments[i].torn OBVIOUS
      <3>1. CASE i = n BY <1>9, <3>1, InvFacts DEF Active
      <3>2. CASE i # n
        <4>1. n \in Nat /\ i \in 1 .. (n - 1)
          <5> HIDE DEF n
          <5> QED BY <1>5, <3>2
        <4>2. \A k \in 1 .. (Len(segments) - 1) : segments[k].end <= synced /\ ~segments[k].torn
          BY DEF JournalInv, Settled
        <4> QED BY <4>1, <4>2
      <3> QED BY <3>1, <3>2
    <2>2. \A i \in 1 .. n : segments'[i].end <= synced' /\ ~segments'[i].torn BY <1>1, <1>6, <2>1
    <2>3. Active'.end = Len(written') BY <1>1, <1>3, <1>11
    <2> QED BY <1>5, <1>6, <2>2, <2>3 DEF Settled
  <1>13. Chained'
    <2> DEFINE t == segments'
    <2>1. \A j \in 1 .. n : t[j] = segments[j] BY <1>6
    <2>2. t[p] = x BY <1>6
    <2> HIDE DEF t
    <2>3. \A i \in 1 .. n : /\ header_ok(written, t, i) /\ records_ok(written, t, i)
                            /\ t[i].header.start \in 0 .. MaxGeneration
      <3> HIDE DEF n
      <3> QED BY <1>5, <2>1, PrefixChained DEF n
    <2>4. Before(t, p) = Len(written) BY <1>5, <2>1, InvFacts DEF Before, Active
    <2>5. hash_segment(written, t, n) = hash_segment(written, segments, n)
      <3>1. n > 1 => n - 1 \in 1 .. n BY <1>5
      <3>2. t[n] = segments[n] /\ Before(t, n) = Before(segments, n) BY <1>5, <2>1, <3>1 DEF Before
      <3> QED BY <3>2 DEF hash_segment, Records
    <2>6. header_ok(written, t, p) BY <1>2, <1>3, <1>5, <2>2, <2>4, <2>5 DEF header_ok
    <2>7. records_ok(written, t, p) BY <1>3, <2>2, <2>4, InvFacts DEF records_ok
    <2>8. t[p].header.start \in 0 .. MaxGeneration BY <1>2, <1>3, <2>2
    <2>9. \A i \in 1 .. p : i \in 1 .. n \/ i = p BY <1>5
    <2>10. \A i \in 1 .. p : /\ header_ok(written, t, i) /\ records_ok(written, t, i)
                             /\ t[i].header.start \in 0 .. MaxGeneration
      <3> HIDE DEF n, p
      <3> QED BY <2>3, <2>6, <2>7, <2>8, <2>9, Zenon
    <2> QED BY <1>1, <1>6, <2>10 DEF Chained, t
  <1>14. Acknowledged' BY <1>1, <1>3, <1>8, <1>9, <1>11, InvFacts DEF Acknowledged, Installing, Healthy
  <1>15. Prepared' BY <1>8 DEF Prepared
  <1>16. Published' BY <1>5, <1>6, <1>1, InvFacts DEF Published, Active
  <1> QED BY <1>10, <1>12, <1>13, <1>14, <1>15, <1>16 DEF JournalInv

\* A crash keeps what a sync has reached; the tail may be cut or damaged, and
\* a segment whose name is lost had no records.
LEMMA CrashKeeps == JournalInv /\ crash => JournalInv'
  <1> SUFFICES ASSUME JournalInv, crash PROVE JournalInv' OBVIOUS
  <1> DEFINE n == Len(segments)
  <1>1. PICK kept \in synced .. Len(written), torn \in BOOLEAN, entry \in BOOLEAN :
          /\ written' = SubSeq(written, 1, kept) /\ synced' = kept
          /\ segments' = IF appender.at = "published" /\ ~entry THEN SubSeq(segments, 1, n - 1)
                         ELSE [segments EXCEPT ![n] = Segment(Active.header, kept, torn)]
    BY DEF crash, Appended, Active
  <1>2. appender' = [at |-> "down", flushed |-> appender.flushed, fault |-> FALSE,
                     handle |-> FALSE, recovering |-> FALSE]
    BY DEF crash
  <1>3. /\ appender' \in Appenders /\ appender'.at = "down" /\ appender'.flushed = appender.flushed
    BY <1>2, InvFacts DEF Appenders
  <1>4. kept \in Nat /\ kept <= Len(written) /\ synced <= kept /\ synced' \in Nat BY <1>1, InvFacts
  <1>5. /\ written' \in Seq(Entries) /\ Len(written') = kept /\ kept <= MaxSequence
        /\ \A k \in 1 .. kept : written'[k] = written[k]
    BY <1>1, <1>4, InvFacts, JournalBounds
  <1>6. Acknowledged' /\ Prepared' /\ Published'
    BY <1>1, <1>3, <1>4, <1>5, InvFacts DEF Acknowledged, Installing, Healthy, Prepared, Published
  <1>7. CASE appender.at = "published" /\ ~entry
    <2> DEFINE m == n - 1
    <2>1. synced = Len(written) /\ n > 1 /\ segments[m].end = Len(written)
      BY <1>7 DEF JournalInv, Acknowledged, Installing, Published
    <2>2. kept = Len(written) /\ written' = written BY <1>1, <1>4, <2>1, InvFacts
    <2>3. m \in Nat /\ m >= 1 /\ m \in 1 .. n /\ n \in Nat /\ m <= MaxSegments
      BY <2>1, InvFacts, JournalBounds
    <2>4. PICK H : segments \in Seq(Segments(H)) BY DEF JournalInv, JournalTypes
    <2>5. /\ segments' \in Seq(Segments(H)) /\ Len(segments') = m
          /\ \A i \in 1 .. m : segments'[i] = segments[i]
      <3>1. segments' = SubSeq(segments, 1, m) /\ m <= Len(segments) BY <1>1, <1>7, <2>3
      <3> HIDE DEF m
      <3> QED BY <2>3, <2>4, <3>1
    <2>6. JournalTypes' BY <1>1, <1>3, <1>4, <1>5, <2>3, <2>5 DEF JournalTypes
    <2>7. Settled' BY <2>1, <2>2, <2>3, <2>5, <1>1, <1>4, StaysSettled DEF Active, Settled
    <2>8. Chained'
      <3> DEFINE t == segments'
      <3>1. \A j \in 1 .. m : t[j] = segments[j] BY <2>5
      <3> HIDE DEF t
      <3>2. \A i \in 1 .. m : /\ header_ok(written, t, i) /\ records_ok(written, t, i)
                              /\ t[i].header.start \in 0 .. MaxGeneration
        <4> HIDE DEF m
        <4> QED BY <2>3, <3>1, PrefixChained
      <3> QED BY <2>2, <2>5, <3>2 DEF Chained, t
    <2> QED BY <1>6, <2>6, <2>7, <2>8 DEF JournalInv
  <1>8. CASE ~(appender.at = "published" /\ ~entry)
    <2>1. segments' = [segments EXCEPT ![n] = Segment(Active.header, kept, torn)] BY <1>1, <1>8
    <2>2. Agree(written, written', synced) BY <1>4, <1>5, InvFacts DEF Agree
    <2>3. \A k \in (Before(segments, n) + 1) .. kept :
            k \in (Before(segments, n) + 1) .. Len(written) /\ k \in 1 .. kept
      BY <1>4, InvFacts
    <2>4. \A k \in (Before(segments, n) + 1) .. kept :
            decode_record(written'[k], k, Active.header.start)
      BY <1>5, <2>3, LastDecodes
    <2>5. synced <= synced' BY <1>1, <1>4
    <2> QED BY <1>3, <1>4, <1>5, <1>6, <2>1, <2>2, <2>4, <2>5, EditStep
  <1> QED BY <1>7, <1>8

\* A recovery that finds whole segments goes on appending to the last.
LEMMA RecoverCleanKeeps == JournalInv /\ recover_clean => JournalInv'
  <1> SUFFICES ASSUME JournalInv, recover_clean PROVE JournalInv' OBVIOUS
  <1> DEFINE n == Len(segments)
             e == Len(written)
  <1>1. /\ segments' = [segments EXCEPT ![n] = Segment(Active.header, Active.end, FALSE)]
        /\ synced' = e /\ appender' = Open(e) /\ written' = written
    BY DEF recover_clean, Repaired, Active, Appended
  <1>2. segments' = [segments EXCEPT ![n] = Segment(Active.header, e, FALSE)] BY <1>1, InvFacts
  <1>3. appender' \in Appenders /\ appender'.at = "open" /\ appender'.flushed = e
    BY <1>1, InvFacts DEF Appenders, Open
  <1>4. Active'.torn = FALSE => Acknowledged' BY <1>1, <1>3, InvFacts DEF Acknowledged, Installing
  <1>5. Prepared' /\ Published' BY <1>3 DEF Prepared, Published
  <1>6. \A k \in (Before(segments, n) + 1) .. e : decode_record(written'[k], k, Active.header.start)
    BY <1>1, LastDecodes
  <1>7. /\ e \in Nat /\ written' \in Seq(Entries) /\ Len(written') = e /\ e <= MaxSequence
        /\ Agree(written, written', synced) /\ synced' \in Nat /\ synced <= synced' /\ FALSE \in BOOLEAN
    BY <1>1, InvFacts DEF Agree
  <1> HIDE DEF n, e
  <1> QED BY <1>2, <1>3, <1>4, <1>5, <1>6, <1>7, EditStep DEF n

\* A repair takes the damaged tail away before the hash of the segment is taken.
LEMMA RecoverRepairKeeps == JournalInv /\ recover_repair => JournalInv'
  <1> SUFFICES ASSUME JournalInv, recover_repair PROVE JournalInv' OBVIOUS
  <1> DEFINE n == Len(segments)
             e == Len(written)
             hash == hash_segment(written, Repaired, n)
             header(g) == successor(Active.header, e, hash, g)
  <1>1. /\ segments' = Repaired /\ n < MaxSegments /\ synced' = e /\ written' = written
    BY DEF recover_repair, Appended
  <1>2. PICK g \in 0 .. MaxGeneration :
          /\ candidate' = Some([header |-> header(g), linked |-> FALSE])
          /\ appender' = [at |-> "temporary", flushed |-> appender.flushed, fault |-> FALSE,
                          handle |-> FALSE, recovering |-> TRUE]
    BY DEF recover_repair, recovery_successor, Appended
  <1>3. segments' = [segments EXCEPT ![n] = Segment(Active.header, e, FALSE)]
    BY <1>1, InvFacts DEF Repaired, Active
  <1>4. appender' \in Appenders /\ appender'.at = "temporary" /\ appender'.flushed = appender.flushed
    BY <1>2, InvFacts DEF Appenders
  <1>5. Active'.torn = FALSE => Acknowledged' BY <1>1, <1>4, InvFacts DEF Acknowledged, Installing
  <1>6. Len(segments') = Len(segments) => Prepared'
    <2> SUFFICES ASSUME Len(segments') = Len(segments) PROVE Prepared' OBVIOUS
    <2>1. The(candidate)'.header = header(g) BY <1>2 DEF The, Some
    <2>2. /\ header(g).index = n /\ header(g).first = e + 1
          /\ header(g).prevLast = e /\ header(g).prevHash = hash
          /\ header(g).start \in 0 .. MaxGeneration
      BY SuccessorFollows
    <2>3. hash_segment(written, segments, n)' = hash BY <1>1 DEF hash_segment, Records, Before
    <2> HIDE DEF header, hash
    <2> QED BY <1>1, <2>1, <2>2, <2>3 DEF Prepared
  <1>7. Published' BY <1>4 DEF Published
  <1>8. \A k \in (Before(segments, n) + 1) .. e : decode_record(written'[k], k, Active.header.start)
    BY <1>1, LastDecodes
  <1>9. /\ e \in Nat /\ written' \in Seq(Entries) /\ Len(written') = e /\ e <= MaxSequence
        /\ Agree(written, written', synced) /\ synced' \in Nat /\ synced <= synced' /\ FALSE \in BOOLEAN
    BY <1>1, InvFacts DEF Agree
  <1> HIDE DEF n, e
  <1> QED BY <1>3, <1>4, <1>5, <1>6, <1>7, <1>8, <1>9, EditStep DEF n

\* Every step of the journal keeps the invariant.
LEMMA JournalNextInv == JournalInv /\ [JournalNext]_journalVars => JournalInv'
  <1> SUFFICES ASSUME JournalInv, [JournalNext]_journalVars PROVE JournalInv' OBVIOUS
  <1>1. CASE UNCHANGED journalVars
    BY <1>1, InvFacts, QuietStep DEF journalVars, JournalInv, Acknowledged, Installing, Healthy, Active, Prepared, Published, hash_segment, Records,
       Before, The
  <1> QED
    BY <1>1, AppendKeeps, AppendFailsKeeps, FlushKeeps, FlushFailsKeeps, CloseKeeps, RotateKeeps,
       InstallPublishedKeeps, InstallSyncedKeeps, InstallUnlinkedKeeps, InstallFailsKeeps, CrashKeeps,
       RefusedKeeps, RecoverCleanKeeps, RecoverRepairKeeps, Zenon DEF JournalNext

\* The invariant is inductive: it holds of every reachable state of the journal.
THEOREM JournalInvariance == JournalSpec => []JournalInv
  BY InitJournal, JournalNextInv, PTL DEF JournalSpec

\* What is on disk replays, up to a torn tail of the last segment.
LEMMA InvReplays == JournalInv => LogSound
  <1> SUFFICES ASSUME JournalInv PROVE JournalTypeOK /\ ChainReplays BY DEF LogSound
  <1>1. JournalTypeOK BY InvFacts, JournalBounds DEF Appenders, JournalTypeOK, Appended
  <1>2. ChainReplays
    <2> DEFINE n == Len(segments)
               torn == {i \in DOMAIN segments : segments[i].torn}
    <2>1. PICK H : segments \in Seq(Segments(H)) BY DEF JournalInv, JournalTypes
    <2>2. DOMAIN segments = 1 .. n /\ n \in 1 .. n /\ n \in Nat /\ segments # << >> BY <2>1, InvFacts
    <2>3. ~\E i \in DOMAIN segments : ~header_ok(written, segments, i) \/ ~records_ok(written, segments, i)
      BY <2>2 DEF JournalInv, Chained
    <2>4. \A i \in 1 .. n : i # n => ~segments[i].torn
      <3>1. \A i \in 1 .. n : i # n => i \in 1 .. (n - 1)
        <4> HIDE DEF n
        <4> QED BY <2>2
      <3>2. \A i \in 1 .. (n - 1) : ~segments[i].torn BY DEF JournalInv, Settled
      <3> HIDE DEF n
      <3> QED BY <3>1, <3>2
    <2>5. torn = {} \/ torn = {n} BY <2>2, <2>4
    <2> HIDE DEF torn
    <2> SUFFICES ASSUME ~OverBudget(written, segments)
                 PROVE  replay_ordered_segments(written, segments) \in {"CleanEnd", "RepairableTail"}
      BY DEF ChainReplays
    <2>6. replay_ordered_segments(written, segments) =
            CASE segments = << >> -> "NoSegments"
              [] \E i \in DOMAIN segments : ~header_ok(written, segments, i) \/ ~records_ok(written, segments, i)
                 -> "Stopped"
              [] torn = {} -> "CleanEnd"
              [] torn = {n} -> "RepairableTail"
              [] OTHER -> "Stopped"
      BY DEF replay_ordered_segments, torn
    <2>7. {n} # {} OBVIOUS
    <2> QED BY <2>2, <2>3, <2>5, <2>6, <2>7, Zenon
  <1> QED BY <1>1, <1>2

\* For every number of generations, records and segments: no rotation, repair,
\* failed write or sync and no crash at any step of an installation leaves a
\* chain of segments that replay_ordered_segments, within its budget, would
\* stop at.
THEOREM JournalReplays == JournalSpec => []LogSound
  BY JournalInvariance, InvReplays, PTL

-----------------------------------------------------------------------------
(* The refinement.                                                         *)

\* What a caller sees of the appender's progress, before and after a step.
LEMMA PhaseBefore ==
  /\ Healthy => Phase = "open"
  /\ Installing => Phase = "installing"
  /\ appender.at \in {"down", "lost"} => Phase = appender.at
  /\ appender.at = "open" /\ appender.fault => Phase = "faulted"
  BY Zenon DEF Phase, Healthy, Installing

\* The same of the state after a step.
LEMMA PhaseAfter ==
  /\ Healthy' => Phase' = "open"
  /\ Installing' => Phase' = "installing"
  /\ appender'.at \in {"down", "lost"} => Phase' = appender'.at
  /\ appender'.at = "open" /\ appender'.fault => Phase' = "faulted"
  BY Zenon DEF Phase, Healthy, Installing

\* An append is an append of the log.
LEMMA AppendRefines == JournalInv /\ append => Abstract!LogAppend
  <1> SUFFICES ASSUME JournalInv, append PROVE Abstract!LogAppend OBVIOUS
  <1> DEFINE e == Len(written) + 1
  <1>1. PICK g \in Active.header.start .. MaxGeneration, p \in Payloads :
          written' = Append(written, [seq |-> e, gen |-> g, payload |-> p])
    BY DEF append, Appended
  <1>2. Healthy /\ Len(written) < MaxSequence /\ appender' = [appender EXCEPT !.handle = TRUE]
    BY DEF append, Appended
  <1>3. [seq |-> e, gen |-> g, payload |-> p] \in [seq : 1 .. MaxSequence, gen : 0 .. MaxGeneration, payload : Payloads]
    <2>1. e \in 1 .. MaxSequence /\ g \in 0 .. MaxGeneration BY <1>2, InvFacts, JournalBounds
    <2> HIDE DEF e
    <2> QED BY <2>1
  <1>4. appender'.flushed = appender.flushed /\ appender'.at = appender.at /\ appender'.fault = appender.fault
    BY <1>2, InvFacts DEF Appenders
  <1>5. Phase = "open" /\ Phase' = "open" BY <1>2, <1>4, PhaseBefore, PhaseAfter DEF Healthy
  <1> QED BY <1>1, <1>3, <1>4, <1>5 DEF Abstract!LogAppend

\* A flush acknowledges exactly the records written so far.
LEMMA FlushRefines == JournalInv /\ flush => Abstract!LogFlush
  <1> SUFFICES ASSUME JournalInv, flush PROVE Abstract!LogFlush OBVIOUS
  <1>1. /\ Healthy /\ appender' = [appender EXCEPT !.flushed = Len(written), !.handle = TRUE]
        /\ written' = written
    BY DEF flush, Appended
  <1>2. appender'.flushed = Len(written) /\ appender'.at = appender.at /\ appender'.fault = appender.fault
    BY <1>1, InvFacts DEF Appenders
  <1>3. Phase = "open" /\ Phase' = "open" BY <1>1, <1>2, PhaseBefore, PhaseAfter DEF Healthy
  <1> QED BY <1>1, <1>2, <1>3 DEF Abstract!LogFlush

\* A failed append or flush stops the log's writer and loses nothing acknowledged.
LEMMA FaultRefines == JournalInv /\ (append_fails \/ flush_fails) => Abstract!LogFault
  <1> SUFFICES ASSUME JournalInv, append_fails \/ flush_fails PROVE Abstract!LogFault OBVIOUS
  <1>1. Healthy /\ appender' = [appender EXCEPT !.fault = TRUE] /\ written' = written
    BY DEF append_fails, flush_fails
  <1>2. appender'.flushed = appender.flushed /\ appender'.at = appender.at /\ appender'.fault = TRUE
    BY <1>1, InvFacts DEF Appenders
  <1>3. Phase = "open" /\ Phase' = "faulted" BY <1>1, <1>2, PhaseBefore, PhaseAfter DEF Healthy
  <1> QED BY <1>1, <1>2, <1>3 DEF Abstract!LogFault

\* Steps a caller does not see.
LEMMA HiddenSteps ==
  JournalInv /\ (close_flushed \/ install_published \/ install_synced) => UNCHANGED Abstract!logVars
  <1> SUFFICES ASSUME JournalInv, close_flushed \/ install_published \/ install_synced
               PROVE  UNCHANGED Abstract!logVars
    OBVIOUS
  <1>1. CASE close_flushed
    BY <1>1, InvFacts, PhaseBefore, PhaseAfter DEF close_flushed, Appenders, Healthy, Abstract!logVars
  <1>2. CASE install_published \/ install_synced
    BY <1>2, InvFacts, PhaseBefore, PhaseAfter DEF install_published, install_synced, Appenders, Installing, Abstract!logVars
  <1> QED BY <1>1, <1>2

\* A rotation and a repair keep the log while the installation lasts.
LEMMA InstallRefines == JournalInv /\ (rotate \/ recover_repair) => Abstract!LogInstall
  <1> SUFFICES ASSUME JournalInv, rotate \/ recover_repair PROVE Abstract!LogInstall OBVIOUS
  <1>1. CASE rotate
    BY <1>1, InvFacts, PhaseBefore, PhaseAfter DEF rotate, StartInstall, Appended, Appenders, Installing, Abstract!LogInstall
  <1>2. CASE recover_repair
    BY <1>2, PhaseBefore, PhaseAfter DEF recover_repair, Installing, Abstract!LogInstall
  <1> QED BY <1>1, <1>2

\* The end of an installation is invisible but for the phase.
LEMMA InstalledRefines == JournalInv /\ install_unlinked => Abstract!LogInstalled
  <1> SUFFICES ASSUME JournalInv, install_unlinked PROVE Abstract!LogInstalled OBVIOUS
  <1>1. appender.at = "linked" /\ appender' = Open(Len(written)) /\ written' = written
    BY DEF install_unlinked, Appended
  <1>2. appender'.flushed = Len(written) /\ appender'.at = "open" /\ appender'.fault = FALSE BY <1>1 DEF Open
  <1>3. Phase = "installing" /\ Phase' = "open" BY <1>1, <1>2, PhaseBefore, PhaseAfter DEF Installing, Healthy
  <1> QED BY <1>1, <1>2, <1>3 DEF Abstract!LogInstalled

\* A failed installation leaves the log open on the new segment or stops its writer.
LEMMA InstallFailsRefines == JournalInv /\ install_fails => Abstract!LogInstalled \/ Abstract!LogFault
  <1> SUFFICES ASSUME JournalInv, install_fails PROVE Abstract!LogInstalled \/ Abstract!LogFault OBVIOUS
  <1>1. /\ appender.at \in {"temporary", "published", "linked"} /\ written' = written
        /\ appender' = IF appender.recovering THEN [appender EXCEPT !.at = "down"]
                       ELSE [appender EXCEPT !.at = "open", !.fault = TRUE]
    BY DEF install_fails
  <1>2. Phase = "installing" BY <1>1, PhaseBefore DEF Installing
  <1>3. CASE appender.recovering
    BY <1>1, <1>3, InvFacts, PhaseAfter, <1>2 DEF Appenders, Abstract!LogInstalled
  <1>4. CASE ~appender.recovering BY <1>1, <1>4, InvFacts, PhaseAfter, <1>2 DEF Appenders, Abstract!LogFault
  <1> QED BY <1>3, <1>4

\* What a crash keeps reaches at least to what was acknowledged.
LEMMA CrashRefines == JournalInv /\ crash => Abstract!LogCrash
  <1> SUFFICES ASSUME JournalInv, crash PROVE Abstract!LogCrash OBVIOUS
  <1>1. PICK kept \in synced .. Len(written) : written' = SubSeq(written, 1, kept) BY DEF crash, Appended
  <1>2. /\ appender.at # "lost"
        /\ appender' = [at |-> "down", flushed |-> appender.flushed, fault |-> FALSE,
                        handle |-> FALSE, recovering |-> FALSE]
    BY DEF crash
  <1>3. appender'.flushed = appender.flushed /\ appender'.at = "down" BY <1>2
  <1>4. Phase' = "down" BY <1>3, PhaseAfter
  <1>5. Phase # "lost" BY InvFacts, <1>2, PhaseBefore DEF Appenders, Healthy, Installing
  <1>6. kept \in appender.flushed .. Len(written) BY <1>1, InvFacts
  <1> QED BY <1>1, <1>3, <1>4, <1>5, <1>6 DEF Abstract!LogCrash

\* A refused recovery is the log being lost to the caller, not changed.
LEMMA RefusedRefines == JournalInv /\ recover_refused => Abstract!LogLost
  <1> SUFFICES ASSUME JournalInv, recover_refused PROVE Abstract!LogLost OBVIOUS
  <1>1. appender.at = "down" /\ appender' = [appender EXCEPT !.at = "lost"] /\ written' = written
    BY DEF recover_refused
  <1>2. appender'.flushed = appender.flushed /\ appender'.at = "lost" BY <1>1, InvFacts DEF Appenders
  <1>3. Phase = "down" /\ Phase' = "lost" BY <1>1, <1>2, PhaseBefore, PhaseAfter
  <1> QED BY <1>1, <1>2, <1>3 DEF Abstract!LogLost

\* A clean recovery reopens the log with everything acknowledged.
LEMMA ReopenRefines == JournalInv /\ recover_clean => Abstract!LogReopen
  <1> SUFFICES ASSUME JournalInv, recover_clean PROVE Abstract!LogReopen OBVIOUS
  <1>1. appender.at = "down" /\ appender' = Open(Len(written)) /\ written' = written
    BY DEF recover_clean, Appended
  <1>2. appender'.flushed = Len(written) /\ appender'.at = "open" /\ appender'.fault = FALSE BY <1>1 DEF Open
  <1>3. Phase = "down" /\ Phase' = "open" BY <1>1, <1>2, PhaseBefore, PhaseAfter DEF Healthy
  <1> QED BY <1>1, <1>2, <1>3 DEF Abstract!LogReopen

\* A created journal is an empty log.
LEMMA LogInitRefines == JournalInit => Abstract!LogInit
  <1> SUFFICES ASSUME JournalInit PROVE Abstract!LogInit OBVIOUS
  <1>1. written = << >> /\ appender = Open(0) BY DEF JournalInit
  <1>2. appender.flushed = 0 /\ appender.at = "open" /\ appender.fault = FALSE BY <1>1 DEF Open
  <1>3. Phase = "open" BY <1>2, PhaseBefore DEF Healthy
  <1> QED BY <1>1, <1>2, <1>3 DEF Abstract!LogInit

\* Every step of the journal is a step of the log, or one its callers do not see.
LEMMA LogStepRefines ==
  JournalInv /\ [JournalNext]_journalVars => [Abstract!LogNext]_(Abstract!logVars)
  <1> SUFFICES ASSUME JournalInv, [JournalNext]_journalVars PROVE Abstract!LogNext \/ UNCHANGED Abstract!logVars
    OBVIOUS
  <1>1. CASE UNCHANGED journalVars BY <1>1 DEF journalVars, Abstract!logVars, Phase
  <1> QED
    BY <1>1, AppendRefines, FlushRefines, FaultRefines, HiddenSteps, InstallRefines, InstalledRefines,
       InstallFailsRefines, CrashRefines, RefusedRefines, ReopenRefines, Zenon
       DEF JournalNext, Abstract!LogNext

\* The segmented journal implements the log its callers rely on: through
\* rotation, torn writes, failed syncs, crashes at any step of a segment's
\* installation and repair, nothing a flush acknowledged is lost or changed.
THEOREM JournalImplementsLog == JournalSpec => ImplementsDurableLog
  <1>1. JournalInit => Abstract!LogInit BY LogInitRefines
  <1>2. JournalInv /\ [JournalNext]_journalVars => [Abstract!LogNext]_(Abstract!logVars) BY LogStepRefines
  <1> QED BY <1>1, <1>2, JournalInvariance, PTL DEF JournalSpec, ImplementsDurableLog, Abstract!LogSpec

-----------------------------------------------------------------------------
(* The invariant of the replay, over the machine m.                        *)

Fields == DOMAIN NewMachine(FALSE, None)

\* The finalize log, entry by entry.
FinalEntry(e) == /\ e = [file |-> e.file, hash |-> e.hash, rootHash |-> e.rootHash, path |-> e.path, done |-> e.done]
                 /\ e.file \in Nat /\ e.done \in BOOLEAN
FinalsFit(m) ==
  /\ \E S : m.finals \in Seq(S)
  /\ \A i \in DOMAIN m.finals : 
       /\ FinalEntry(m.finals[i])
       /\ Is(m.layout) /\ m.finals[i].rootHash = RootHash(The(m.layout))
       /\ i < Len(m.finals) => m.finals[i].done /\ m.finals[i].file < m.finals[i + 1].file

LeasesFit(m) == \A x \in m.pieceLeases : x[1] \in DOMAIN m.active \cup DOMAIN m.committed

\* What is durable has a layout; a checkpoint starts with nothing durable.
PiecesFit(m) ==
  /\ ~Is(m.layout) => DOMAIN m.durable = {}
  /\ Is(m.pendPieces) =>
       /\ The(m.pendPieces).covered \in Nat
       /\ \A p \in DOMAIN m.durable : p \in Nat /\ p < The(m.pendPieces).covered
  /\ m.ckpt /\ ~m.seenPieces => DOMAIN m.durable = {}

\* A layout that arrives in parts has taken the place of the one before it.
LayoutParts == {"gen", "hash", "rootHash", "layout", "fileCount", "chunks", "next", "previous", "durable"}
LayoutFits(m) ==
  Is(m.pendLayout) =>
    /\ m.layout = None
    /\ DOMAIN The(m.pendLayout) = LayoutParts
    /\ m.ckpt /\ ~m.seenPieces => DOMAIN The(m.pendLayout).durable = {}

Shaped(m) == DOMAIN m = Fields
ReplayFits(m) == /\ FinalsFit(m) /\ LeasesFit(m) /\ PiecesFit(m) /\ LayoutFits(m)

\* What the record r keeps of the durable pieces and of the options.
Kept(m, r, n) == /\ \A p \in HeldPieces(m) \ HeldPieces(n) : TakesBack(m, r, p)
                 /\ OptionsStand(m, n)

Core == {"durable", "finals", "layout", "current", "pending", "hostKey", "pieceLeases", "active",
         "committed", "pendPieces", "pendLayout", "seenPieces", "ckpt"}
SameCore(m, n) == \A f \in Core : n[f] = m[f]

\* What is known of a record before it is applied.
RecordFits(r) ==
  /\ r.type = "FinalizeIntent" => r.file \in Nat
  /\ r.type = "PieceStateChunk" =>
       /\ r.first \in Nat /\ r.count \in Nat /\ r.count > 0
       /\ r.pieces \subseteq r.first .. r.first + r.count - 1
Gate(m, r) ==
  /\ Is(m.pendLayout) => r.type = "LayoutChunk"
  /\ Is(m.pendPieces) => r.type = "PieceStateChunk"
  /\ m.ckpt => Rank(r) # 0

Step(m, r, n) == Shaped(n) /\ ReplayFits(n) /\ Kept(m, r, n)
Sound(m, r, n) == Shaped(m) /\ ReplayFits(m) /\ RecordFits(r) /\ Gate(m, r) /\ ~n.bad => Step(m, r, n)

-----------------------------------------------------------------------------
\* The fields of the machine.
LEMMA FieldNames ==
  Fields = {"bad", "last", "count", "ckpt", "ckptGen", "rank", "retryKey", "created", "gen", "durability",
            "current", "pending", "layout", "strong", "identity", "manifest", "validators", "whole", "spans",
            "durable", "retries", "paused", "hostKey", "finals", "terminal", "checkpoint", "rebind", "clean",
            "pendManifest", "pendLayout", "pendPieces", "seenPieces", "layoutGen", "active", "committed",
            "seen", "pieceLeases", "verified", "network"}
  BY DEF Fields, NewMachine

\* An optional value is there or it is not.
LEMMA Options == /\ ~Is(None) /\ \A x : Is(Some(x)) /\ The(Some(x)) = x
  BY DEF Is, None, Some, The

\* What touches no field of the core keeps everything.
LEMMA CoreStands ==
  ASSUME NEW m, NEW r, NEW n, Shaped(m), Shaped(n), ReplayFits(m), SameCore(m, n)
  PROVE  Step(m, r, n)
  <1>1. /\ n.durable = m.durable /\ n.finals = m.finals /\ n.layout = m.layout /\ n.current = m.current
        /\ n.pending = m.pending /\ n.hostKey = m.hostKey /\ n.pieceLeases = m.pieceLeases
        /\ n.active = m.active /\ n.committed = m.committed /\ n.pendPieces = m.pendPieces
        /\ n.pendLayout = m.pendLayout /\ n.seenPieces = m.seenPieces /\ n.ckpt = m.ckpt
    BY DEF SameCore, Core
  <1>2. ReplayFits(n) BY <1>1, Zenon DEF ReplayFits, FinalsFit, LeasesFit, PiecesFit, LayoutFits
  <1>3. Kept(m, r, n) BY <1>1, Zenon DEF Kept, HeldPieces, OptionsStand
  <1> QED BY <1>2, <1>3 DEF Step

\* A refused record is seen in the machine.
LEMMA Refused ==
  ASSUME NEW m, Shaped(m) PROVE Refuse(m).bad = TRUE
  BY FieldNames DEF Shaped, Refuse

-----------------------------------------------------------------------------
\* A record that says nothing of layouts, options, leases and pieces.
Quiet(m, n) == n.bad \/ (Shaped(n) /\ SameCore(m, n))

\* A quiet record keeps everything.
LEMMA QuietSound ==
  ASSUME NEW m, NEW r, NEW n, Shaped(m) => Quiet(m, n) PROVE Sound(m, r, n)
  BY CoreStands, Zenon DEF Quiet, Sound

\* Fifteen of the records are quiet.
LEMMA QuietRecords ==
  ASSUME NEW m, NEW r, Shaped(m)
  PROVE  /\ Quiet(m, apply_task_created(m, r)) /\ Quiet(m, apply_http_strong_validator(m, r))
         /\ Quiet(m, apply_http_range_identity(m, r)) /\ Quiet(m, apply_piece_written(m, r))
         /\ Quiet(m, apply_piece_verified(m, r)) /\ Quiet(m, apply_retry(m, r))
         /\ Quiet(m, apply_metadata_complete(m, r)) /\ Quiet(m, apply_paused(m, r))
         /\ (\A t : Quiet(m, apply_terminal(m, r, t))) /\ Quiet(m, apply_complete(m, r))
         /\ Quiet(m, apply_clean_shutdown(m, r)) /\ Quiet(m, apply_manifest(m, r))
         /\ Quiet(m, apply_manifest_chunk(m, r)) /\ Quiet(m, apply_protocol_validator(m, r))
         /\ Quiet(m, apply_whole_verified(m, r))
  <1> USE FieldNames DEF Quiet, Shaped, SameCore, Core, Refuse
  <1>1. Quiet(m, apply_task_created(m, r)) BY DEF apply_task_created
  <1>2. Quiet(m, apply_http_strong_validator(m, r)) BY DEF apply_http_strong_validator
  <1>3. Quiet(m, apply_http_range_identity(m, r)) BY DEF apply_http_range_identity
  <1>4. Quiet(m, apply_piece_written(m, r)) BY DEF apply_piece_written
  <1>5. Quiet(m, apply_piece_verified(m, r)) BY DEF apply_piece_verified
  <1>6. Quiet(m, apply_retry(m, r)) BY DEF apply_retry
  <1>7. Quiet(m, apply_metadata_complete(m, r)) BY DEF apply_metadata_complete
  <1>8. Quiet(m, apply_paused(m, r)) BY DEF apply_paused
  <1>9. \A t : Quiet(m, apply_terminal(m, r, t)) BY DEF apply_terminal
  <1>10. Quiet(m, apply_complete(m, r))
    <2>1. Quiet(m, Refuse(m)) OBVIOUS
    <2> QED BY <1>9, <2>1, Zenon DEF apply_complete
  <1>11. Quiet(m, apply_clean_shutdown(m, r)) BY DEF apply_clean_shutdown
  <1>12. \A p : Quiet(m, finish_manifest(m, p)) BY DEF finish_manifest
  <1>13. Quiet(m, apply_manifest(m, r)) BY <1>12 DEF apply_manifest
  <1>14. Quiet(m, apply_manifest_chunk(m, r)) BY <1>12 DEF apply_manifest_chunk
  <1>15. Quiet(m, apply_protocol_validator(m, r)) BY DEF apply_protocol_validator
  <1>16. Quiet(m, apply_whole_verified(m, r)) BY DEF apply_whole_verified
  <1> QED BY <1>1, <1>2, <1>3, <1>4, <1>5, <1>6, <1>7, <1>8, <1>9, <1>10, <1>11, <1>13, <1>14, <1>15, <1>16

-----------------------------------------------------------------------------
(* Leases: a piece is attributed to one that is open or committed.         *)

\* A new lease takes none away.
LEMMA LeaseStartedSound ==
  ASSUME NEW m, NEW r, r.type = "LeaseStarted" PROVE Sound(m, r, apply_lease_started(m, r))
  <1> DEFINE n == apply_lease_started(m, r)
  <1> SUFFICES ASSUME Shaped(m), ReplayFits(m), RecordFits(r), Gate(m, r), ~n.bad PROVE Step(m, r, n)
    BY DEF Sound
  <1>1. n = [m EXCEPT !.seen = @ \cup {r.lease}, !.network = TRUE,
                      !.active = Put(@, r.lease, [span |-> r.span, validator |-> r.validator])]
    BY Refused, Zenon DEF apply_lease_started
  <1>2. /\ n.finals = m.finals /\ n.layout = m.layout /\ n.current = m.current
        /\ n.pending = m.pending /\ n.hostKey = m.hostKey /\ n.committed = m.committed
        /\ n.pendPieces = m.pendPieces /\ n.pendLayout = m.pendLayout
        /\ n.seenPieces = m.seenPieces /\ n.ckpt = m.ckpt /\ n.pieceLeases = m.pieceLeases
        /\ n.durable = m.durable
        /\ n.active = Put(m.active, r.lease, [span |-> r.span, validator |-> r.validator])
        /\ Shaped(n)
    BY <1>1, FieldNames DEF Shaped
  <1> HIDE DEF n
  <1>3. DOMAIN n.active = DOMAIN m.active \cup {r.lease} BY <1>2 DEF Put
  <1>4. LeasesFit(n) BY <1>2, <1>3 DEF ReplayFits, LeasesFit
  <1>5. FinalsFit(n) /\ LayoutFits(n) /\ PiecesFit(n) /\ Kept(m, r, n)
    BY <1>2, Zenon DEF ReplayFits, FinalsFit, LayoutFits, PiecesFit, Kept, HeldPieces, OptionsStand
  <1> QED BY <1>2, <1>4, <1>5 DEF Step, ReplayFits

\* A piece is started by a lease that is open.
LEMMA PieceStartedSound ==
  ASSUME NEW m, NEW r, r.type = "PieceStarted" PROVE Sound(m, r, apply_piece_started(m, r))
  <1> DEFINE n == apply_piece_started(m, r)
  <1> SUFFICES ASSUME Shaped(m), ReplayFits(m), RecordFits(r), Gate(m, r), ~n.bad PROVE Step(m, r, n)
    BY DEF Sound
  <1>1. /\ n = [m EXCEPT !.pieceLeases = @ \cup {<<r.lease, r.piece>>}]
        /\ r.lease \in DOMAIN m.active
    BY Refused, Zenon DEF apply_piece_started
  <1>2. /\ n.finals = m.finals /\ n.layout = m.layout /\ n.current = m.current
        /\ n.pending = m.pending /\ n.hostKey = m.hostKey /\ n.active = m.active
        /\ n.committed = m.committed /\ n.pendPieces = m.pendPieces
        /\ n.pendLayout = m.pendLayout /\ n.seenPieces = m.seenPieces /\ n.ckpt = m.ckpt
        /\ n.durable = m.durable /\ n.pieceLeases = m.pieceLeases \cup {<<r.lease, r.piece>>}
        /\ Shaped(n)
    BY <1>1, FieldNames DEF Shaped
  <1> HIDE DEF n
  <1>3. LeasesFit(n) BY <1>1, <1>2 DEF ReplayFits, LeasesFit
  <1>4. FinalsFit(n) /\ LayoutFits(n) /\ PiecesFit(n) /\ Kept(m, r, n)
    BY <1>2, Zenon DEF ReplayFits, FinalsFit, LayoutFits, PiecesFit, Kept, HeldPieces, OptionsStand
  <1> QED BY <1>2, <1>3, <1>4 DEF Step, ReplayFits

\* A lease that was open is committed.
LEMMA LeaseCommittedSound ==
  ASSUME NEW m, NEW r, r.type = "LeaseCommitted" PROVE Sound(m, r, apply_lease_committed(m, r))
  <1> DEFINE n == apply_lease_committed(m, r)
  <1> SUFFICES ASSUME Shaped(m), ReplayFits(m), RecordFits(r), Gate(m, r), ~n.bad PROVE Step(m, r, n)
    BY DEF Sound
  <1> DEFINE lease == [span |-> r.span, validator |-> r.validator]
  <1>1. n = [m EXCEPT !.active = Without(@, {r.lease}), !.committed = Put(@, r.lease, lease),
                      !.spans = Put(@, r.lease, lease)]
    BY Refused, Zenon DEF apply_lease_committed
  <1>2. /\ n.finals = m.finals /\ n.layout = m.layout /\ n.current = m.current
        /\ n.pending = m.pending /\ n.hostKey = m.hostKey /\ n.pendPieces = m.pendPieces
        /\ n.pendLayout = m.pendLayout /\ n.seenPieces = m.seenPieces /\ n.ckpt = m.ckpt
        /\ n.pieceLeases = m.pieceLeases /\ n.durable = m.durable
        /\ n.active = Without(m.active, {r.lease})
        /\ n.committed = Put(m.committed, r.lease, lease) /\ Shaped(n)
    BY <1>1, FieldNames DEF Shaped
  <1> HIDE DEF n
  <1>3. DOMAIN n.active \cup DOMAIN n.committed = DOMAIN m.active \cup DOMAIN m.committed \cup {r.lease}
    BY <1>2 DEF Put, Without
  <1>4. LeasesFit(n) BY <1>2, <1>3 DEF ReplayFits, LeasesFit
  <1>5. FinalsFit(n) /\ LayoutFits(n) /\ PiecesFit(n) /\ Kept(m, r, n)
    BY <1>2, Zenon DEF ReplayFits, FinalsFit, LayoutFits, PiecesFit, Kept, HeldPieces, OptionsStand
  <1> QED BY <1>2, <1>4, <1>5 DEF Step, ReplayFits

\* What an aborted lease wrote is attributed to nobody.
LEMMA LeaseAbortedSound ==
  ASSUME NEW m, NEW r, r.type = "LeaseAborted" PROVE Sound(m, r, apply_lease_aborted(m, r))
  <1> DEFINE n == apply_lease_aborted(m, r)
  <1> SUFFICES ASSUME Shaped(m), ReplayFits(m), RecordFits(r), Gate(m, r), ~n.bad PROVE Step(m, r, n)
    BY DEF Sound
  <1>1. n = [m EXCEPT !.active = Without(@, {r.lease}), !.pieceLeases = {x \in @ : x[1] # r.lease}]
    BY Refused, Zenon DEF apply_lease_aborted
  <1>2. /\ n.finals = m.finals /\ n.layout = m.layout /\ n.current = m.current
        /\ n.pending = m.pending /\ n.hostKey = m.hostKey /\ n.committed = m.committed
        /\ n.pendPieces = m.pendPieces /\ n.pendLayout = m.pendLayout
        /\ n.seenPieces = m.seenPieces /\ n.ckpt = m.ckpt /\ n.durable = m.durable
        /\ n.active = Without(m.active, {r.lease})
        /\ n.pieceLeases = {x \in m.pieceLeases : x[1] # r.lease} /\ Shaped(n)
    BY <1>1, FieldNames DEF Shaped
  <1> HIDE DEF n
  <1>3. DOMAIN n.active = DOMAIN m.active \ {r.lease} BY <1>2 DEF Without
  <1>4. LeasesFit(n) BY <1>2, <1>3 DEF ReplayFits, LeasesFit
  <1>5. FinalsFit(n) /\ LayoutFits(n) /\ PiecesFit(n) /\ Kept(m, r, n)
    BY <1>2, Zenon DEF ReplayFits, FinalsFit, LayoutFits, PiecesFit, Kept, HeldPieces, OptionsStand
  <1> QED BY <1>2, <1>4, <1>5 DEF Step, ReplayFits

-----------------------------------------------------------------------------
(* Pieces: a live record adds one, a checkpoint lists them upwards.        *)

\* A failed piece is given up, and with it what is attributed to its leases.
LEMMA PieceFailedSound ==
  ASSUME NEW m, NEW r, r.type = "PieceFailed" PROVE Sound(m, r, apply_piece_failed(m, r))
  <1> DEFINE n == apply_piece_failed(m, r)
  <1> SUFFICES ASSUME Shaped(m), ReplayFits(m), RecordFits(r), Gate(m, r), ~n.bad PROVE Step(m, r, n)
    BY DEF Sound
  <1>1. n = [m EXCEPT !.verified = Without(@, {r.piece}),
                 !.pieceLeases = {x \in @ : x[2] # r.piece},
                 !.durable = Without(@, {r.piece}),
                 !.spans = Without(@, {l \in DOMAIN @ : spans_intersect(@[l].span, r.span)}),
                 !.whole = FALSE]
    BY Refused, Zenon DEF apply_piece_failed
  <1>2. /\ n.finals = m.finals /\ n.layout = m.layout /\ n.current = m.current
        /\ n.pending = m.pending /\ n.hostKey = m.hostKey
        /\ n.active = m.active /\ n.committed = m.committed /\ n.pendPieces = m.pendPieces
        /\ n.pendLayout = m.pendLayout /\ n.seenPieces = m.seenPieces /\ n.ckpt = m.ckpt /\ n.gen = m.gen
        /\ n.pieceLeases = {x \in m.pieceLeases : x[2] # r.piece}
        /\ n.durable = Without(m.durable, {r.piece})
        /\ Shaped(n)
    BY <1>1, FieldNames DEF Shaped
  <1> HIDE DEF n
  <1>3. DOMAIN n.durable = DOMAIN m.durable \ {r.piece} BY <1>2 DEF Without
  <1>4. FinalsFit(n) /\ LayoutFits(n)
    BY <1>2, Zenon DEF ReplayFits, FinalsFit, LayoutFits
  <1>5. LeasesFit(n) BY <1>2, Zenon DEF ReplayFits, LeasesFit
  <1>6. PiecesFit(n) BY <1>2, <1>3, Zenon DEF ReplayFits, PiecesFit
  <1>7. Kept(m, r, n) BY <1>2, <1>3, Zenon DEF Kept, HeldPieces, OptionsStand, TakesBack
  <1> QED BY <1>2, <1>4, <1>5, <1>6, <1>7 DEF Step, ReplayFits

\* No piece becomes durable inside a checkpoint or without a layout.
LEMMA PieceDurableSound ==
  ASSUME NEW m, NEW r, r.type = "PieceDurable" PROVE Sound(m, r, apply_piece_durable(m, r))
  <1> DEFINE n == apply_piece_durable(m, r)
  <1> SUFFICES ASSUME Shaped(m), ReplayFits(m), RecordFits(r), Gate(m, r), ~n.bad PROVE Step(m, r, n)
    BY DEF Sound
  <1>1. /\ n = [m EXCEPT !.durable = Put(@, r.piece, [digest |-> r.digest, origin |-> r.barrier])]
        /\ Is(m.layout)
    BY Refused, Zenon DEF apply_piece_durable, ExpectedSpan
  <1>2. /\ n.finals = m.finals /\ n.layout = m.layout /\ n.current = m.current
        /\ n.pending = m.pending /\ n.hostKey = m.hostKey /\ n.active = m.active
        /\ n.committed = m.committed /\ n.pendPieces = m.pendPieces
        /\ n.pendLayout = m.pendLayout /\ n.seenPieces = m.seenPieces /\ n.ckpt = m.ckpt
        /\ n.pieceLeases = m.pieceLeases
        /\ n.durable = Put(m.durable, r.piece, [digest |-> r.digest, origin |-> r.barrier])
        /\ Shaped(n)
    BY <1>1, FieldNames DEF Shaped
  <1> HIDE DEF n
  <1>3. ~m.ckpt /\ ~Is(m.pendPieces) BY DEF Gate, Rank
  <1>4. DOMAIN m.durable \subseteq DOMAIN n.durable BY <1>2 DEF Put
  <1>5. PiecesFit(n) /\ Kept(m, r, n) BY <1>1, <1>2, <1>3, <1>4, Zenon DEF PiecesFit, Kept, HeldPieces, OptionsStand
  <1>6. FinalsFit(n) /\ LayoutFits(n) /\ LeasesFit(n)
    BY <1>2, Zenon DEF ReplayFits, FinalsFit, LayoutFits, LeasesFit
  <1> QED BY <1>2, <1>5, <1>6 DEF Step, ReplayFits

\* The first chunk finds nothing durable; the next ones go on above the last.
LEMMA PieceStateChunkSound ==
  ASSUME NEW m, NEW r, r.type = "PieceStateChunk" PROVE Sound(m, r, apply_piece_state_chunk(m, r))
  <1> DEFINE n == apply_piece_state_chunk(m, r)
  <1> SUFFICES ASSUME Shaped(m), ReplayFits(m), RecordFits(r), Gate(m, r), ~n.bad PROVE Step(m, r, n)
    BY DEF Sound
  <1> DEFINE held == IF r.index = 0 THEN EmptyMap ELSE m.durable
             listed == [q \in DOMAIN held \cup r.pieces |->
                          IF q \in r.pieces THEN [digest |-> None, origin |-> "Checkpoint"] ELSE held[q]]
             open == IF r.index + 1 = r.chunks THEN None
                     ELSE Some([chunks |-> r.chunks, next |-> r.index + 1, covered |-> r.first + r.count])
  <1>0. n = [m EXCEPT !.seenPieces = TRUE, !.durable = listed, !.pendPieces = open]
    BY Refused, Zenon DEF apply_piece_state_chunk
  <1>1. /\ m.ckpt /\ Is(m.layout)
        /\ r.index = 0 => ~m.seenPieces /\ ~Is(m.pendPieces)
        /\ r.index # 0 => Is(m.pendPieces) /\ ~(r.first < The(m.pendPieces).covered)
    BY Refused, Zenon DEF apply_piece_state_chunk
  <1> HIDE DEF open, listed
  <1>2. /\ n.finals = m.finals /\ n.layout = m.layout /\ n.current = m.current
        /\ n.pending = m.pending /\ n.hostKey = m.hostKey /\ n.active = m.active
        /\ n.committed = m.committed /\ n.pendLayout = m.pendLayout /\ n.ckpt = m.ckpt
        /\ n.pieceLeases = m.pieceLeases /\ n.seenPieces = TRUE /\ n.durable = listed
        /\ n.pendPieces = open /\ Shaped(n)
    BY <1>0, FieldNames DEF Shaped
  <1> HIDE DEF n
  <1>3. DOMAIN n.durable = DOMAIN held \cup r.pieces BY <1>2 DEF listed
  <1>4. DOMAIN m.durable \subseteq DOMAIN n.durable
    <2>1. CASE r.index = 0 BY <2>1, <1>1 DEF ReplayFits, PiecesFit
    <2>2. CASE r.index # 0 BY <2>2, <1>3
    <2> QED BY <2>1, <2>2
  <1>5. /\ r.first \in Nat /\ r.count \in Nat /\ r.count > 0
        /\ \A p \in r.pieces : p \in Nat /\ p < r.first + r.count
    BY DEF RecordFits
  <1>6. \A p \in DOMAIN held : p \in Nat /\ p < r.first + r.count
    <2>1. CASE r.index = 0 BY <2>1 DEF EmptyMap
    <2>2. CASE r.index # 0
      <3>1. /\ The(m.pendPieces).covered \in Nat /\ The(m.pendPieces).covered <= r.first
            /\ \A p \in DOMAIN m.durable : p \in Nat /\ p < The(m.pendPieces).covered
        BY <1>1, <1>5, <2>2 DEF ReplayFits, PiecesFit
      <3> QED BY <1>5, <2>2, <3>1
    <2> QED BY <2>1, <2>2
  <1>7. Is(n.pendPieces) => The(n.pendPieces).covered = r.first + r.count BY <1>2, Options DEF open
  <1>8. PiecesFit(n) BY <1>1, <1>2, <1>3, <1>5, <1>6, <1>7 DEF PiecesFit
  <1>9. ~Is(m.pendLayout) BY DEF Gate
  <1>10. FinalsFit(n) /\ LayoutFits(n) /\ LeasesFit(n)
    BY <1>2, <1>9, Zenon DEF ReplayFits, FinalsFit, LayoutFits, LeasesFit
  <1>11. Kept(m, r, n) BY <1>2, <1>4, Zenon DEF Kept, HeldPieces, OptionsStand
  <1> QED BY <1>2, <1>8, <1>10, <1>11 DEF Step, ReplayFits

-----------------------------------------------------------------------------
(* Options and generations.                                                *)

\* New options are the first ones, or wait for a generation.
LEMMA OptionsSound ==
  ASSUME NEW m, NEW r, r.type = "OptionsSnapshot" PROVE Sound(m, r, apply_options(m, r))
  <1> DEFINE n == apply_options(m, r)
  <1> SUFFICES ASSUME Shaped(m), ReplayFits(m), RecordFits(r), Gate(m, r), ~n.bad PROVE Step(m, r, n)
    BY DEF Sound
  <1> DEFINE snapshot == [patch |-> r.patch, options |-> r.options]
  <1> HIDE DEF snapshot
  <1>1. \/ n = [m EXCEPT !.current = Some(snapshot)] /\ ~Is(m.current)
        \/ n = [m EXCEPT !.pending = Some(snapshot)]
    BY Refused DEF apply_options, snapshot
  <1>2. /\ n.finals = m.finals /\ n.layout = m.layout
        /\ n.hostKey = m.hostKey /\ n.active = m.active /\ n.committed = m.committed
        /\ n.pendPieces = m.pendPieces /\ n.pendLayout = m.pendLayout
        /\ n.seenPieces = m.seenPieces /\ n.ckpt = m.ckpt /\ n.pieceLeases = m.pieceLeases
        /\ n.durable = m.durable /\ Shaped(n) /\ (n.current = m.current \/ ~Is(m.current))
    BY <1>1, FieldNames DEF Shaped
  <1> HIDE DEF n
  <1>3. FinalsFit(n) /\ LayoutFits(n) /\ LeasesFit(n) /\ PiecesFit(n) /\ Kept(m, r, n)
    BY <1>2, Zenon DEF ReplayFits, FinalsFit, LayoutFits, LeasesFit, PiecesFit, Kept, HeldPieces, OptionsStand
  <1> QED BY <1>2, <1>3 DEF Step, ReplayFits

\* A generation starts with the waiting options and without leases.
LEMMA GenerationStartedSound ==
  ASSUME NEW m, NEW r, r.type = "GenerationStarted" PROVE Sound(m, r, apply_generation_started(m, r))
  <1> DEFINE n == apply_generation_started(m, r)
  <1> SUFFICES ASSUME Shaped(m), ReplayFits(m), RecordFits(r), Gate(m, r), ~n.bad PROVE Step(m, r, n)
    BY DEF Sound
  <1> DEFINE next == The(m.pending)
             keepsRanges == /\ r.reason \in {"RetryReadmission", "RecoveryRepair"}
                            /\ Is(m.current) /\ The(m.current).options = next.options
             staleManifest == Is(m.manifest) /\ m.manifest # next.options.manifest
             restart == r.reason = "RepresentationRestart"
             retries == IF keepsRanges
                        THEN Without(m.retries, {k \in DOMAIN m.retries : k[1] \notin {"Piece", "Span"}})
                        ELSE EmptyMap
             manifest == IF staleManifest THEN None ELSE m.manifest
             durable == IF staleManifest \/ restart THEN EmptyMap ELSE m.durable
             finals == IF restart THEN << >> ELSE m.finals
  <1>0. n = [m EXCEPT
             !.gen = r.gen, !.current = m.pending, !.pending = None,
             !.retries = retries,
             !.paused = None, !.hostKey = None, !.strong = None, !.identity = None,
             !.validators = EmptyMap, !.spans = EmptyMap, !.whole = FALSE,
             !.manifest = manifest, !.durable = durable, !.finals = finals,
             !.rebind = None, !.clean = FALSE, !.committed = EmptyMap, !.seen = {},
             !.pieceLeases = {}, !.verified = EmptyMap, !.network = FALSE, !.layoutGen = None]
    BY Refused, Zenon DEF apply_generation_started
  <1>1. Is(m.pending) /\ ~m.ckpt /\ r.gen = m.gen + 1 BY Refused, Zenon DEF apply_generation_started
  <1> HIDE DEF retries, manifest, durable, finals
  <1>2. /\ n.layout = m.layout /\ n.active = m.active /\ n.pendPieces = m.pendPieces
        /\ n.pendLayout = m.pendLayout /\ n.seenPieces = m.seenPieces /\ n.ckpt = m.ckpt
        /\ n.gen = r.gen /\ n.current = m.pending /\ n.pending = None /\ n.pieceLeases = {}
        /\ n.durable = durable /\ n.finals = finals
        /\ Shaped(n)
    <2>1. /\ n.layout = m.layout /\ n.active = m.active /\ n.pendPieces = m.pendPieces
          /\ n.pendLayout = m.pendLayout /\ n.seenPieces = m.seenPieces /\ n.ckpt = m.ckpt
      BY <1>0, FieldNames DEF Shaped
    <2>2. /\ n.gen = r.gen /\ n.current = m.pending /\ n.pending = None /\ n.pieceLeases = {}
          /\ n.durable = durable /\ n.finals = finals
      BY <1>0, FieldNames DEF Shaped
    <2>3. Shaped(n) BY <1>0, FieldNames DEF Shaped
    <2> QED BY <2>1, <2>2, <2>3
  <1> HIDE DEF n
  <1>3. durable = m.durable \/ (DOMAIN durable = {} /\ (staleManifest \/ restart)) BY DEF durable, EmptyMap
  <1>4. finals = m.finals \/ finals = << >> BY DEF finals
  <1>5. FinalsFit(n)
    <2>1. CASE finals = << >> BY <1>2, <2>1 DEF FinalsFit
    <2>2. CASE finals = m.finals BY <1>2, <2>2, Zenon DEF ReplayFits, FinalsFit
    <2> QED BY <1>4, <2>1, <2>2
  <1>7. LeasesFit(n) BY <1>2 DEF LeasesFit
  <1>8. ~Is(m.pendPieces) /\ ~Is(m.pendLayout) BY DEF Gate
  <1>9. PiecesFit(n) /\ LayoutFits(n) BY <1>1, <1>2, <1>3, <1>8, Zenon DEF ReplayFits, PiecesFit, LayoutFits
  <1>10. Kept(m, r, n)
    <2>1. HeldPieces(m) = DOMAIN m.durable /\ HeldPieces(n) = DOMAIN durable BY <1>2, <1>8, Zenon DEF HeldPieces
    <2>2. \A q \in HeldPieces(m) \ HeldPieces(n) : TakesBack(m, r, q) BY <1>3, <2>1, Zenon DEF TakesBack
    <2> QED BY <1>1, <1>2, <2>2, Zenon DEF Kept, OptionsStand
  <1> QED BY <1>2, <1>5, <1>7, <1>9, <1>10 DEF Step, ReplayFits

\* A key is pinned when the challenge that offered it is approved.
LEMMA HostKeySound ==
  ASSUME NEW m, NEW r, r.type = "HostKeyState" PROVE Sound(m, r, apply_host_key_state(m, r))
  <1> DEFINE n == apply_host_key_state(m, r)
  <1> SUFFICES ASSUME Shaped(m), ReplayFits(m), RecordFits(r), Gate(m, r), ~n.bad PROVE Step(m, r, n)
    BY DEF Sound
  <1> DEFINE park == [Pending |-> Some("HostKeyApproval"), Approved |-> None, Rejected |-> Some("RecoveryHold")]
             key == [decision |-> r.decision, challenge |-> r.challenge]
             pinned == [The(m.current) EXCEPT !.options.pin = Some(r.challenge)]
             current == IF r.decision = "Approved" THEN Some(pinned) ELSE m.current
             paused == park[r.decision]
  <1>1. /\ n = [m EXCEPT !.paused = paused, !.hostKey = Some(key), !.current = current]
        /\ DOMAIN m.active = {}
        /\ r.decision = "Approved" /\ ~m.ckpt =>
             Is(m.hostKey) /\ The(m.hostKey).decision = "Pending" /\ The(m.hostKey).challenge = r.challenge
    <2>1. "Approved" # "Pending" OBVIOUS
    <2> QED BY <2>1, Refused, Zenon DEF apply_host_key_state
  <1>4. key.decision = r.decision /\ key.challenge = r.challenge OBVIOUS
  <1> HIDE DEF paused, key, pinned, current
  <1>5. /\ n.finals = m.finals /\ n.layout = m.layout /\ n.pending = m.pending
        /\ n.active = m.active /\ n.committed = m.committed /\ n.pendPieces = m.pendPieces
        /\ n.pendLayout = m.pendLayout /\ n.seenPieces = m.seenPieces /\ n.ckpt = m.ckpt
        /\ n.pieceLeases = m.pieceLeases /\ n.durable = m.durable /\ n.current = current
        /\ n.hostKey = Some(key) /\ n.gen = m.gen /\ Shaped(n)
    BY <1>1, FieldNames DEF Shaped
  <1> HIDE DEF n
  <1>6. OptionsStand(m, n)
    <2>1. CASE r.decision = "Approved"
      <3>1. n.current = Some(pinned) /\ The(n.hostKey) = key /\ Is(n.hostKey)
        BY <1>5, <2>1, Options, Zenon DEF current
      <3> QED BY <1>1, <1>4, <1>5, <2>1, <3>1, Zenon DEF OptionsStand, pinned
    <2>2. CASE r.decision # "Approved" BY <1>5, <2>2, Zenon DEF current, OptionsStand
    <2> QED BY <2>1, <2>2
  <1>7. Kept(m, r, n) BY <1>5, <1>6, Zenon DEF Kept, HeldPieces
  <1>8. FinalsFit(n) /\ LayoutFits(n) /\ LeasesFit(n) /\ PiecesFit(n)
    BY <1>5, Zenon DEF ReplayFits, FinalsFit, LayoutFits, LeasesFit, PiecesFit
  <1> QED BY <1>5, <1>7, <1>8 DEF Step, ReplayFits

-----------------------------------------------------------------------------
(* Files are finalized in order.                                           *)

\* The next file is intended when all the ones before it are done.
LEMMA FinalizeIntentSound ==
  ASSUME NEW m, NEW r, r.type = "FinalizeIntent" PROVE Sound(m, r, apply_finalize_intent(m, r))
  <1> DEFINE n == apply_finalize_intent(m, r)
  <1> SUFFICES ASSUME Shaped(m), ReplayFits(m), RecordFits(r), Gate(m, r), ~n.bad PROVE Step(m, r, n)
    BY DEF Sound
  <1> DEFINE e == [file |-> r.file, hash |-> r.hash, rootHash |-> r.rootHash, path |-> r.path, done |-> FALSE]
             longer == Append(m.finals, e)
  <1>1. /\ n = [m EXCEPT !.finals = longer]
        /\ Is(m.layout) /\ RootHash(The(m.layout)) = r.rootHash
        /\ \A i \in DOMAIN m.finals : m.finals[i].done /\ ~(m.finals[i].file >= r.file)
    BY Refused, Zenon DEF apply_finalize_intent, AllFinalized
  <1>2. FinalEntry(e) /\ e.rootHash = r.rootHash /\ e.file = r.file /\ r.file \in Nat
    BY DEF RecordFits, FinalEntry
  <1> HIDE DEF e, longer
  <1>3. /\ n.layout = m.layout /\ n.current = m.current /\ n.pending = m.pending
        /\ n.hostKey = m.hostKey /\ n.active = m.active /\ n.committed = m.committed
        /\ n.pendPieces = m.pendPieces /\ n.pendLayout = m.pendLayout
        /\ n.seenPieces = m.seenPieces /\ n.ckpt = m.ckpt /\ n.pieceLeases = m.pieceLeases
        /\ n.durable = m.durable /\ n.finals = longer /\ Shaped(n)
    BY <1>1, FieldNames DEF Shaped
  <1> HIDE DEF n
  <1>4. FinalsFit(n)
    <2>1. PICK S : m.finals \in Seq(S) BY Zenon DEF ReplayFits, FinalsFit
    <2>2. m.finals \in Seq(S \cup {e}) /\ e \in S \cup {e} BY <2>1
    <2>3. /\ longer \in Seq(S \cup {e}) /\ Len(longer) = Len(m.finals) + 1 /\ Len(m.finals) \in Nat
          /\ \A i \in 1 .. Len(m.finals) : longer[i] = m.finals[i]
          /\ longer[Len(m.finals) + 1] = e
          /\ DOMAIN longer = 1 .. Len(m.finals) + 1 /\ DOMAIN m.finals = 1 .. Len(m.finals)
      BY <2>2 DEF longer
    <2>4. \A i \in DOMAIN m.finals : FinalEntry(m.finals[i]) /\ m.finals[i].file < r.file
      <3>1. \A i \in DOMAIN m.finals : FinalEntry(m.finals[i]) BY Zenon DEF ReplayFits, FinalsFit
      <3> QED BY <1>1, <1>2, <3>1 DEF FinalEntry
    <2>5. \A i \in 1 .. Len(m.finals) : 
            /\ m.finals[i].rootHash = r.rootHash
            /\ i < Len(m.finals) => m.finals[i].file < m.finals[i + 1].file
      BY <1>1, <2>3, Zenon DEF ReplayFits, FinalsFit
    <2>6. ASSUME NEW i \in DOMAIN longer
          PROVE  /\ FinalEntry(longer[i]) /\ longer[i].rootHash = r.rootHash
                 /\ i < Len(longer) => longer[i].done /\ longer[i].file < longer[i + 1].file
      <3>1. CASE i = Len(m.finals) + 1 BY <1>2, <2>3, <3>1
      <3>2. CASE i = Len(m.finals) BY <1>1, <1>2, <2>3, <2>4, <2>5, <3>2
      <3>3. CASE i < Len(m.finals) BY <1>1, <2>3, <2>4, <2>5, <3>3
      <3> QED BY <2>3, <2>6, <3>1, <3>2, <3>3
    <2>7. n.layout = m.layout /\ Is(n.layout) /\ RootHash(The(n.layout)) = r.rootHash BY <1>1, <1>3, Zenon
    <2>8. \E T : longer \in Seq(T) BY <2>3
    <2> HIDE DEF longer
    <2> QED BY <1>3, <2>6, <2>7, <2>8, Zenon DEF FinalsFit
  <1>5. LayoutFits(n) /\ LeasesFit(n) /\ PiecesFit(n) /\ Kept(m, r, n)
    BY <1>3, Zenon DEF ReplayFits, LayoutFits, LeasesFit, PiecesFit, Kept, HeldPieces, OptionsStand
  <1> QED BY <1>3, <1>4, <1>5 DEF Step, ReplayFits

\* A file that is done keeps its place.
LEMMA FinalizeDoneSound ==
  ASSUME NEW m, NEW r, r.type = "FinalizeDone" PROVE Sound(m, r, apply_finalize_done(m, r))
  <1> DEFINE n == apply_finalize_done(m, r)
  <1> SUFFICES ASSUME Shaped(m), ReplayFits(m), RecordFits(r), Gate(m, r), ~n.bad PROVE Step(m, r, n)
    BY DEF Sound
  <1> DEFINE f == m.finals
             marked == [i \in DOMAIN f |-> IF f[i].file = r.file THEN [f[i] EXCEPT !.done = TRUE] ELSE f[i]]
  <1>1. n = [m EXCEPT !.finals = marked] BY Refused, Zenon DEF apply_finalize_done
  <1> HIDE DEF marked
  <1>2. /\ n.layout = m.layout /\ n.current = m.current /\ n.pending = m.pending
        /\ n.hostKey = m.hostKey /\ n.active = m.active /\ n.committed = m.committed
        /\ n.pendPieces = m.pendPieces /\ n.pendLayout = m.pendLayout
        /\ n.seenPieces = m.seenPieces /\ n.ckpt = m.ckpt /\ n.pieceLeases = m.pieceLeases
        /\ n.durable = m.durable /\ n.finals = marked /\ Shaped(n)
    BY <1>1, FieldNames DEF Shaped
  <1> HIDE DEF n
  <1>3. FinalsFit(n)
    <2>1. PICK S : f \in Seq(S) BY Zenon DEF ReplayFits, FinalsFit
    <2>2. Len(f) \in Nat /\ DOMAIN f = 1 .. Len(f) BY <2>1
    <2>3. \A i \in DOMAIN f : FinalEntry(f[i]) BY Zenon DEF ReplayFits, FinalsFit
    <2>4. \A i \in DOMAIN f : /\ FinalEntry(marked[i]) /\ marked[i].file = f[i].file
                              /\ marked[i].rootHash = f[i].rootHash /\ (f[i].done => marked[i].done)
      <3> SUFFICES ASSUME NEW i \in DOMAIN f
                   PROVE  /\ FinalEntry(marked[i]) /\ marked[i].file = f[i].file
                          /\ marked[i].rootHash = f[i].rootHash /\ (f[i].done => marked[i].done)
        OBVIOUS
      <3>1. FinalEntry(f[i]) BY <2>3
      <3>2. CASE f[i].file = r.file
        <4>1. marked[i] = [f[i] EXCEPT !.done = TRUE] BY <3>2 DEF marked
        <4> QED BY <3>1, <4>1 DEF FinalEntry
      <3>3. CASE f[i].file # r.file BY <3>1, <3>3 DEF marked
      <3> QED BY <3>2, <3>3
    <2>5. DOMAIN marked = DOMAIN f /\ Len(marked) = Len(f) /\ \E T : marked \in Seq(T)
      <3> DEFINE T == {marked[i] : i \in DOMAIN f}
      <3>1. marked = [i \in 1 .. Len(f) |-> marked[i]] /\ \A i \in 1 .. Len(f) : marked[i] \in T
        BY <2>2 DEF marked
      <3> HIDE DEF T
      <3>2. marked \in Seq(T)
        <4>1. marked \in [1 .. Len(f) -> T] BY <3>1, Zenon
        <4> HIDE DEF f
        <4> QED BY <2>2, <4>1
      <3>3. Len(marked) = Len(f) /\ DOMAIN marked = DOMAIN f BY <2>2, <3>1, <3>2
      <3> QED BY <3>2, <3>3
    <2>6. \A i \in DOMAIN f : i < Len(f) => i + 1 \in DOMAIN f BY <2>2
    <2>7. \A i \in DOMAIN f : /\ Is(m.layout) /\ f[i].rootHash = RootHash(The(m.layout))
                              /\ i < Len(f) => f[i].done /\ f[i].file < f[i + 1].file
      BY Zenon DEF ReplayFits, FinalsFit
    <2> HIDE DEF f
    <2>8. \A i \in DOMAIN marked :
            /\ FinalEntry(marked[i])
            /\ Is(m.layout) /\ marked[i].rootHash = RootHash(The(m.layout))
            /\ i < Len(marked) => marked[i].done /\ marked[i].file < marked[i + 1].file
      BY <2>4, <2>5, <2>6, <2>7, Zenon
    <2> QED BY <1>2, <2>5, <2>8, Zenon DEF FinalsFit
  <1>4. LayoutFits(n) /\ LeasesFit(n) /\ PiecesFit(n) /\ Kept(m, r, n)
    BY <1>2, Zenon DEF ReplayFits, LayoutFits, LeasesFit, PiecesFit, Kept, HeldPieces, OptionsStand
  <1> QED BY <1>2, <1>3, <1>4 DEF Step, ReplayFits

-----------------------------------------------------------------------------
(* Layouts: the same file in the same place keeps its pieces.              *)

\* What finish_layout installs of the parts p.
LEMMA FinishLayout ==
  ASSUME NEW m, NEW r, NEW p, Shaped(m), ReplayFits(m), ~Is(m.pendPieces),
         m.ckpt /\ ~m.seenPieces => DOMAIN p.durable = {},
         HeldPieces(m) = DOMAIN p.durable,
         OtherFile(p.previous, p.layout) => \A q : TakesBack(m, r, q),
         ~finish_layout(m, p).bad
  PROVE  Step(m, r, finish_layout(m, p))
  <1> DEFINE n == finish_layout(m, p)
             b == [m EXCEPT !.pendLayout = None]
             retain == Is(p.previous) /\ has_same_identity_evidence(The(p.previous), p.layout)
             durable == IF retain THEN p.durable ELSE EmptyMap
             rebind == IF Is(p.previous) /\ ~retain THEN Some(RootHash(The(p.previous))) ELSE None
  <1>1. n = [b EXCEPT !.durable = durable, !.finals = << >>, !.strong = None, !.identity = None,
                      !.rebind = rebind, !.layout = Some(p.layout), !.layoutGen = Some(b.gen)]
    BY Refused, Zenon DEF finish_layout, install_layout
  <1> HIDE DEF rebind, durable
  <1>2. /\ n.current = m.current /\ n.pending = m.pending /\ n.hostKey = m.hostKey
        /\ n.active = m.active /\ n.committed = m.committed /\ n.pendPieces = m.pendPieces
        /\ n.seenPieces = m.seenPieces /\ n.ckpt = m.ckpt /\ n.pieceLeases = m.pieceLeases
        /\ n.durable = durable /\ n.finals = << >> /\ n.layout = Some(p.layout)
        /\ n.pendLayout = None /\ Shaped(n)
    BY <1>1, FieldNames DEF Shaped
  <1> HIDE DEF n
  <1>3. FinalsFit(n) BY <1>2 DEF FinalsFit
  <1>4. durable = p.durable \/ DOMAIN durable = {} BY DEF durable, EmptyMap
  <1>5. PiecesFit(n) BY <1>2, <1>4, Options, Zenon DEF PiecesFit
  <1>6. LayoutFits(n) BY <1>2, Options, Zenon DEF LayoutFits
  <1>7. LeasesFit(n) BY <1>2, Zenon DEF ReplayFits, LeasesFit
  <1>8. Kept(m, r, n)
    <2>1. HeldPieces(n) = DOMAIN durable BY <1>2, Options, Zenon DEF HeldPieces
    <2>2. CASE retain BY <1>2, <2>1, <2>2, Zenon DEF Kept, OptionsStand, durable
    <2>3. CASE ~retain BY <1>2, <2>3, Zenon DEF Kept, OptionsStand, OtherFile
    <2> QED BY <2>2, <2>3
  <1>9. Step(m, r, n) BY <1>2, <1>3, <1>5, <1>6, <1>7, <1>8 DEF Step, ReplayFits
  <1> QED BY <1>9 DEF n

\* A layout in one record is installed, one in parts waits for them.
LEMMA LayoutCommittedSound ==
  ASSUME NEW m, NEW r, r.type = "LayoutCommitted" PROVE Sound(m, r, apply_layout_committed(m, r))
  <1> DEFINE n == apply_layout_committed(m, r)
  <1> SUFFICES ASSUME Shaped(m), ReplayFits(m), RecordFits(r), Gate(m, r), ~n.bad PROVE Step(m, r, n)
    BY DEF Sound
  <1> DEFINE p == [gen |-> r.gen, hash |-> r.hash, rootHash |-> r.rootHash, layout |-> r.layout,
                   fileCount |-> r.fileCount, chunks |-> r.chunks, next |-> 1,
                   previous |-> m.layout, durable |-> m.durable]
  <1>1. p.previous = m.layout /\ p.layout = r.layout /\ p.durable = m.durable /\ DOMAIN p = LayoutParts
    BY DEF LayoutParts
  <1>2. ~Is(m.pendPieces) /\ ~Is(m.pendLayout) BY DEF Gate
  <1>3. m.ckpt /\ ~m.seenPieces => DOMAIN m.durable = {} BY Zenon DEF ReplayFits, PiecesFit
  <1>4. \/ n = finish_layout(m, p)
        \/ n = [m EXCEPT !.layout = None, !.durable = EmptyMap, !.finals = << >>, !.pendLayout = Some(p)]
    BY Refused, Zenon DEF apply_layout_committed
  <1> HIDE DEF p
  <1>5. CASE n = finish_layout(m, p)
    <2>1. HeldPieces(m) = DOMAIN p.durable BY <1>1, <1>2, Zenon DEF HeldPieces
    <2>2. OtherFile(p.previous, p.layout) => \A q : TakesBack(m, r, q) BY <1>1, Zenon DEF TakesBack
    <2> QED BY <1>1, <1>2, <1>3, <1>5, <2>1, <2>2, FinishLayout, Zenon
  <1>6. CASE n = [m EXCEPT !.layout = None, !.durable = EmptyMap, !.finals = << >>, !.pendLayout = Some(p)]
    <2>1. /\ n.current = m.current /\ n.pending = m.pending /\ n.hostKey = m.hostKey
        /\ n.active = m.active /\ n.committed = m.committed /\ n.pendPieces = m.pendPieces
        /\ n.seenPieces = m.seenPieces /\ n.ckpt = m.ckpt /\ n.pieceLeases = m.pieceLeases
        /\ n.layout = None /\ n.durable = EmptyMap /\ n.finals = << >>
        /\ n.pendLayout = Some(p) /\ Shaped(n)
      BY <1>6, FieldNames DEF Shaped
    <2> HIDE DEF n
    <2>2. DOMAIN n.durable = {} BY <2>1 DEF EmptyMap
    <2>3. FinalsFit(n) BY <2>1 DEF FinalsFit
    <2>4. PiecesFit(n) BY <1>2, <2>1, <2>2, Zenon DEF PiecesFit
    <2>5. LayoutFits(n) BY <1>1, <1>3, <2>1, Options, Zenon DEF LayoutFits
    <2>6. LeasesFit(n) BY <2>1, Zenon DEF ReplayFits, LeasesFit
    <2>7. Kept(m, r, n)
      <3>1. HeldPieces(m) \subseteq HeldPieces(n) BY <1>1, <1>2, <2>1, Options, Zenon DEF HeldPieces
      <3> QED BY <2>1, <3>1, Zenon DEF Kept, OptionsStand
    <2> QED BY <2>1, <2>3, <2>4, <2>5, <2>6, <2>7 DEF Step, ReplayFits
  <1> QED BY <1>4, <1>5, <1>6

\* The last part installs the layout.
LEMMA LayoutChunkSound ==
  ASSUME NEW m, NEW r, r.type = "LayoutChunk" PROVE Sound(m, r, apply_layout_chunk(m, r))
  <1> DEFINE n == apply_layout_chunk(m, r)
  <1> SUFFICES ASSUME Shaped(m), ReplayFits(m), RecordFits(r), Gate(m, r), ~n.bad PROVE Step(m, r, n)
    BY DEF Sound
  <1> DEFINE p == The(m.pendLayout)
             grown == [p EXCEPT !.layout.files = @ \o r.files, !.next = @ + 1]
             dropped == Refuse([m EXCEPT !.pendLayout = None])
  <1>1. dropped.bad = TRUE BY FieldNames DEF Shaped, Refuse
  <1>2. Is(m.pendLayout) /\ (n = finish_layout(m, grown) \/ n = [m EXCEPT !.pendLayout = Some(grown)])
    BY <1>1, Zenon DEF apply_layout_chunk
  <1>3. /\ m.layout = None /\ DOMAIN p = LayoutParts
        /\ m.ckpt /\ ~m.seenPieces => DOMAIN p.durable = {}
    BY <1>2, Zenon DEF ReplayFits, LayoutFits
  <1> HIDE DEF p
  <1>4. DOMAIN grown = LayoutParts /\ grown.durable = p.durable BY <1>3 DEF LayoutParts
  <1>10. grown.previous = p.previous /\ grown.layout = [p.layout EXCEPT !.files = @ \o r.files]
    BY <1>3 DEF LayoutParts
  <1>8. HeldPieces(m) = DOMAIN p.durable
    <2>1. DOMAIN m.durable = {} BY <1>3, Options, Zenon DEF ReplayFits, PiecesFit
    <2> QED BY <1>2, <2>1, Zenon DEF HeldPieces, p
  <1>9. OtherFile(grown.previous, grown.layout) => \A q : TakesBack(m, r, q) BY <1>10, Zenon DEF TakesBack, p
  <1>5. ~Is(m.pendPieces) BY DEF Gate
  <1> HIDE DEF grown
  <1>6. CASE n = finish_layout(m, grown)
    <2>1. m.ckpt /\ ~m.seenPieces => DOMAIN grown.durable = {} BY <1>3, <1>4, Zenon
    <2>2. HeldPieces(m) = DOMAIN grown.durable BY <1>4, <1>8, Zenon
    <2> QED BY <1>5, <1>6, <1>9, <2>1, <2>2, FinishLayout, Zenon
  <1>7. CASE n = [m EXCEPT !.pendLayout = Some(grown)]
    <2>1. /\ n.finals = m.finals /\ n.layout = m.layout /\ n.current = m.current
        /\ n.pending = m.pending /\ n.hostKey = m.hostKey /\ n.active = m.active
        /\ n.committed = m.committed /\ n.pendPieces = m.pendPieces
        /\ n.seenPieces = m.seenPieces /\ n.ckpt = m.ckpt /\ n.pieceLeases = m.pieceLeases
        /\ n.durable = m.durable /\ n.pendLayout = Some(grown) /\ Shaped(n)
      BY <1>7, FieldNames DEF Shaped
    <2> HIDE DEF n
    <2>2. LayoutFits(n) BY <1>3, <1>4, <2>1, Options, Zenon DEF LayoutFits
    <2>3. FinalsFit(n) /\ LeasesFit(n) /\ PiecesFit(n)
      BY <2>1, Zenon DEF ReplayFits, FinalsFit, LeasesFit, PiecesFit
    <2>4. HeldPieces(m) \subseteq HeldPieces(n) BY <1>4, <1>8, <2>1, Options, Zenon DEF HeldPieces
    <2>5. Kept(m, r, n) BY <2>1, <2>4, Zenon DEF Kept, OptionsStand
    <2> QED BY <2>1, <2>2, <2>3, <2>5 DEF Step, ReplayFits
  <1> QED BY <1>2, <1>6, <1>7

-----------------------------------------------------------------------------
(* One record.                                                             *)

\* Whatever the type of the record, what is applied is sound.
LEMMA AppliedSound ==
  ASSUME NEW m, NEW r, Shaped(m) PROVE Sound(m, r, Applied(m, r))
  <1>1. Sound(m, r, Refuse(m)) BY Refused, Zenon DEF Sound
  <1>2. /\ Sound(m, r, apply_task_created(m, r)) /\ Sound(m, r, apply_http_strong_validator(m, r))
        /\ Sound(m, r, apply_http_range_identity(m, r)) /\ Sound(m, r, apply_piece_written(m, r))
        /\ Sound(m, r, apply_piece_verified(m, r)) /\ Sound(m, r, apply_retry(m, r))
        /\ Sound(m, r, apply_metadata_complete(m, r)) /\ Sound(m, r, apply_paused(m, r))
        /\ Sound(m, r, apply_terminal(m, r, r.type)) /\ Sound(m, r, apply_complete(m, r))
        /\ Sound(m, r, apply_clean_shutdown(m, r)) /\ Sound(m, r, apply_manifest(m, r))
        /\ Sound(m, r, apply_manifest_chunk(m, r)) /\ Sound(m, r, apply_protocol_validator(m, r))
        /\ Sound(m, r, apply_whole_verified(m, r))
    BY QuietRecords, QuietSound, Zenon
  <1>3. /\ r.type = "OptionsSnapshot" => Sound(m, r, apply_options(m, r))
        /\ r.type = "GenerationStarted" => Sound(m, r, apply_generation_started(m, r))
        /\ r.type = "LayoutCommitted" => Sound(m, r, apply_layout_committed(m, r))
        /\ r.type = "LayoutChunk" => Sound(m, r, apply_layout_chunk(m, r))
        /\ r.type = "HostKeyState" => Sound(m, r, apply_host_key_state(m, r))
        /\ r.type = "FinalizeIntent" => Sound(m, r, apply_finalize_intent(m, r))
        /\ r.type = "FinalizeDone" => Sound(m, r, apply_finalize_done(m, r))
    BY OptionsSound, GenerationStartedSound, LayoutCommittedSound, LayoutChunkSound, HostKeySound,
       FinalizeIntentSound, FinalizeDoneSound, Zenon
  <1>4. /\ r.type = "LeaseStarted" => Sound(m, r, apply_lease_started(m, r))
        /\ r.type = "PieceStarted" => Sound(m, r, apply_piece_started(m, r))
        /\ r.type = "LeaseCommitted" => Sound(m, r, apply_lease_committed(m, r))
        /\ r.type = "LeaseAborted" => Sound(m, r, apply_lease_aborted(m, r))
        /\ r.type = "PieceFailed" => Sound(m, r, apply_piece_failed(m, r))
        /\ r.type = "PieceDurable" => Sound(m, r, apply_piece_durable(m, r))
        /\ r.type = "PieceStateChunk" => Sound(m, r, apply_piece_state_chunk(m, r))
    BY LeaseStartedSound, PieceStartedSound, LeaseCommittedSound, LeaseAbortedSound, PieceFailedSound,
       PieceDurableSound, PieceStateChunkSound, Zenon
  <1> QED BY <1>1, <1>2, <1>3, <1>4 DEF Applied

\* One record of any type and content that fits, applied to any state that
\* satisfies the invariant: either it is refused, or the state that replay goes
\* on with satisfies it too, has given up durable pieces only if the record says
\* so, and has the options it had unless a generation started or the pending
\* challenge was approved (SemanticMachine::process_records, validate_checkpoint_order, apply).
THEOREM EveryRecordSound ==
  ASSUME NEW m, NEW r, Shaped(m), ReplayFits(m), RecordFits(r), ~m.bad, ~Process(m, r).bad
  PROVE  Step(m, r, Process(m, r))
  <1> DEFINE a == Ordered(m, r)
             b == Applied(a, r)
             c == Unclean(b, r)
             n == Counted(c, r)
  <1>1. /\ Process(m, r) = n
        /\ Is(m.pendLayout) => r.type = "LayoutChunk"
        /\ Is(m.pendPieces) => r.type = "PieceStateChunk"
        /\ m.ckpt => Rank(r) # 0
    BY Refused, Zenon DEF Process, Apply, Counted, validate_checkpoint_order
  <1>2. Shaped(a) /\ SameCore(m, a) BY FieldNames DEF Ordered, Shaped, SameCore, Core
  <1> HIDE DEF a
  <1>3. Step(m, r, a) /\ Shaped(a) /\ ReplayFits(a)
    <2>1. Step(m, r, a) BY <1>2, CoreStands, Zenon
    <2> QED BY <2>1, Zenon DEF Step
  <1>4. Gate(a, r)
    <2>1. a.pendLayout = m.pendLayout /\ a.pendPieces = m.pendPieces /\ a.ckpt = m.ckpt
      BY <1>2 DEF SameCore, Core
    <2> QED BY <1>1, <2>1, Zenon DEF Gate
  <1>5. ~n.bad BY <1>1, Zenon
  <1> HIDE DEF b
  <1> HIDE DEF c
  <1>6. ~c.bad BY <1>5, Zenon DEF Counted
  <1>7. ~b.bad BY <1>6, Zenon DEF Unclean, c
  <1>8. Step(a, r, b) BY <1>3, <1>4, <1>7, AppliedSound, Zenon DEF Sound, b
  <1>9. Shaped(b) /\ ReplayFits(b) BY <1>8, Zenon DEF Step
  <1>10. Shaped(c) /\ SameCore(b, c) BY <1>9, FieldNames DEF c, Unclean, Shaped, SameCore, Core
  <1>11. Shaped(n) /\ SameCore(b, n) BY <1>10, FieldNames DEF Counted, Shaped, SameCore, Core
  <1> HIDE DEF n
  <1>12. Step(b, r, n) BY <1>9, <1>11, CoreStands, Zenon
  <1>13. /\ a.durable = m.durable /\ a.layout = m.layout /\ a.pendLayout = m.pendLayout
         /\ a.current = m.current /\ a.pending = m.pending /\ a.hostKey = m.hostKey
         /\ a.active = m.active /\ a.ckpt = m.ckpt
         /\ n.durable = b.durable /\ n.pendLayout = b.pendLayout /\ n.current = b.current
         /\ n.hostKey = b.hostKey
    BY <1>2, <1>11 DEF SameCore, Core
  <1>14. a.gen = m.gen /\ a.manifest = m.manifest /\ n.gen = b.gen
    <2>1. a.gen = m.gen /\ a.manifest = m.manifest BY FieldNames DEF a, Ordered, Shaped
    <2>2. c.gen = b.gen BY <1>9, FieldNames DEF c, Unclean, Shaped
    <2>3. n.gen = c.gen BY <1>10, FieldNames DEF n, Counted, Shaped
    <2> QED BY <2>1, <2>2, <2>3
  <1>15. Kept(a, r, b) BY <1>8, Zenon DEF Step
  <1>16. Kept(m, r, n)
    <2>1. HeldPieces(a) = HeldPieces(m) /\ HeldPieces(b) = HeldPieces(n) BY <1>13, Zenon DEF HeldPieces
    <2>2. \A q : TakesBack(a, r, q) => TakesBack(m, r, q) BY <1>13, <1>14, Zenon DEF TakesBack
    <2>3. OptionsStand(a, b) BY <1>15, Zenon DEF Kept
    <2>4. OptionsStand(m, n) BY <1>13, <1>14, <2>3, Zenon DEF OptionsStand
    <2> QED BY <1>15, <2>1, <2>2, <2>4, Zenon DEF Kept
  <1>17. Step(m, r, n) BY <1>12, <1>16, Zenon DEF Step
  <1> QED BY <1>1, <1>17, Zenon

-----------------------------------------------------------------------------
(* The records that may come.                                              *)

\* A record has the type it was made with.
LEMMA RecType ==
  ASSUME NEW m, NEW t, NEW f PROVE Rec(m, t, f).type = t /\ "type" \in DOMAIN Rec(m, t, f)
  BY DEF Rec

\* The types of which nothing is asked.
PlainTypes == {"TaskCreated", "OptionsSnapshot", "GenerationStarted", "LayoutCommitted", "LayoutChunk", "LeaseStarted",
               "PieceStarted", "LeaseCommitted", "LeaseAborted", "PieceFailed", "PieceVerified", "PieceDurable",
               "RetryState", "TaskPaused", "TaskRemoved", "CleanShutdown", "HostKeyState", "FinalizeDone",
               "TaskComplete"}

\* Of these types nothing is asked,
LEMMA PlainType ==
  ASSUME NEW r, r.type \in PlainTypes PROVE RecordFits(r)
  BY DEF RecordFits, PlainTypes

\* nor of a record made with one of them,
LEMMA PlainRecord ==
  ASSUME NEW m, NEW t \in PlainTypes, NEW f PROVE RecordFits(Rec(m, t, f))
  <1> DEFINE r == Rec(m, t, f)
  <1>1. r.type \in PlainTypes BY RecType, Zenon
  <1> HIDE DEF r
  <1>2. RecordFits(r) BY <1>1, PlainType
  <1> QED BY <1>2 DEF r

\* nor of a set of such records.
LEMMA PlainRecords ==
  ASSUME NEW m, NEW t \in PlainTypes, NEW S, NEW r \in RecordsOf(m, t, S) PROVE RecordFits(r)
  BY PlainRecord DEF RecordsOf

\* The records of an admission fit.
LEMMA AdmissionFits ==
  ASSUME NEW m, NEW r \in AdmissionRecords(m) PROVE RecordFits(r)
  <1> DEFINE Plain == {"TaskCreated", "OptionsSnapshot", "LayoutCommitted", "LayoutChunk"}
  <1>1. \/ \E t \in Plain : \E S : r \in RecordsOf(m, t, S)
        \/ \E S : r \in {[x EXCEPT !.gen = m.gen + 1] : x \in RecordsOf(m, "GenerationStarted", S)}
    BY Zenon DEF AdmissionRecords
  <1>2. CASE \E t \in Plain : \E S : r \in RecordsOf(m, t, S)
    <2>1. Plain \subseteq PlainTypes BY DEF PlainTypes
    <2> QED BY <1>2, <2>1, PlainRecords, Zenon
  <1>4. ASSUME NEW S, r \in {[x EXCEPT !.gen = m.gen + 1] : x \in RecordsOf(m, "GenerationStarted", S)}
        PROVE  RecordFits(r)
    <2>1. PICK x \in RecordsOf(m, "GenerationStarted", S) : r = [x EXCEPT !.gen = m.gen + 1] BY <1>4
    <2>2. x.type = "GenerationStarted" /\ "type" \in DOMAIN x BY RecType DEF RecordsOf
    <2>3. r.type = "GenerationStarted" BY <2>1, <2>2
    <2> QED BY <2>3, PlainType DEF PlainTypes
  <1> QED BY <1>1, <1>2, <1>4, Zenon

\* The records of a transfer fit.
LEMMA TransferFits ==
  ASSUME NEW m, NEW r \in TransferRecords(m) PROVE RecordFits(r)
  <1> DEFINE Plain == {"LeaseStarted", "PieceStarted", "LeaseCommitted", "LeaseAborted", "PieceFailed",
                       "PieceVerified", "PieceDurable", "RetryState"}
  <1>1. Plain \subseteq PlainTypes BY DEF PlainTypes
  <1>2. \A t \in Plain : \A S : r \in RecordsOf(m, t, S) => RecordFits(r) BY <1>1, PlainRecords, Zenon
  <1> QED BY <1>2, Zenon DEF TransferRecords

\* The records that end or check a task fit, once their payload is validated.
LEMMA EndFits ==
  ASSUME NEW m, NEW r \in EndRecords(m), validate_payload(r) PROVE RecordFits(r)
  <1> DEFINE Plain == {"TaskPaused", "TaskRemoved", "CleanShutdown", "HostKeyState", "FinalizeDone", "TaskComplete"}
  <1>1. \/ \E t \in Plain : \E S : r \in RecordsOf(m, t, S)
        \/ r \in RecordsOf(m, "FinalizeIntent", FinalizeFields)
        \/ r \in RecordsOf(m, "PieceStateChunk", PieceStateFields)
    BY Zenon DEF EndRecords
  <1>2. CASE \E t \in Plain : \E S : r \in RecordsOf(m, t, S)
    <2>1. Plain \subseteq PlainTypes BY DEF PlainTypes
    <2> QED BY <1>2, <2>1, PlainRecords, Zenon
  <1>3. CASE r \in RecordsOf(m, "FinalizeIntent", FinalizeFields)
    <2>1. PICK f \in FinalizeFields : r = Rec(m, "FinalizeIntent", f) BY <1>3 DEF RecordsOf
    <2>2. "file" \in DOMAIN f /\ "file" \notin {"type", "gen", "seq"} /\ f.file \in Nat BY DEF FinalizeFields
    <2>3. r.type = "FinalizeIntent" /\ r.file = f.file BY <2>1, <2>2 DEF Rec
    <2> QED BY <2>2, <2>3 DEF RecordFits
  <1>4. CASE r \in RecordsOf(m, "PieceStateChunk", PieceStateFields)
    <2>1. PICK f \in PieceStateFields : r = Rec(m, "PieceStateChunk", f) BY <1>4 DEF RecordsOf
    <2>2. /\ "first" \in DOMAIN f /\ "first" \notin {"type", "gen", "seq"} /\ f.first \in Nat
          /\ "count" \in DOMAIN f /\ "count" \notin {"type", "gen", "seq"} /\ f.count \in Nat
      BY DEF PieceStateFields, Pieces
    <2>3. r.type = "PieceStateChunk" /\ r.first = f.first /\ r.count = f.count BY <2>1, <2>2 DEF Rec
    <2> QED BY <2>2, <2>3 DEF RecordFits, validate_payload, validate_piece_state_chunk
  <1> QED BY <1>1, <1>2, <1>3, <1>4

-----------------------------------------------------------------------------
(* The theorems.                                                           *)

ReplayInv == Shaped(replayed) /\ ReplayFits(replayed) /\ ~replayed.bad

\* A new machine satisfies the invariant.
LEMMA ReplayStarts == ReplayInit => ReplayInv
  <1> SUFFICES ASSUME NEW ckpt \in BOOLEAN, NEW g, replayed = NewMachine(ckpt, g) PROVE ReplayInv
    BY Zenon DEF ReplayInit
  <1>1. /\ replayed.finals = << >> /\ replayed.pending = None /\ replayed.current = None
        /\ replayed.layout = None /\ replayed.pendLayout = None /\ replayed.pendPieces = None
        /\ replayed.pieceLeases = {} /\ replayed.durable = EmptyMap /\ replayed.bad = FALSE
        /\ Shaped(replayed)
    BY DEF NewMachine, Shaped, Fields
  <1>2. DOMAIN replayed.durable = {} BY <1>1 DEF EmptyMap
  <1>3. FinalsFit(replayed) /\ LeasesFit(replayed) BY <1>1 DEF FinalsFit, LeasesFit
  <1>4. PiecesFit(replayed) /\ LayoutFits(replayed)
    BY <1>1, <1>2, Zenon DEF PiecesFit, LayoutFits, Is
  <1> QED BY <1>1, <1>3, <1>4, Zenon DEF ReplayInv, ReplayFits

\* What a step keeps, the record unnamed.
Keeps(m, n) == DurableStands(m, n) /\ OptionsStand(m, n)

\* Every step keeps the invariant, and what it should of the pieces and the options.
LEMMA ReplaySteps ==
  ASSUME ReplayInv, ReplayNext PROVE ReplayInv' /\ Keeps(replayed, replayed')
  <1>1. ASSUME NEW r \in ReplayRecords(replayed), RecordFits(r), ~Process(replayed, r).bad, replayed' = Process(replayed, r)
        PROVE  ReplayInv' /\ Keeps(replayed, replayed')
    <2>1. Step(replayed, r, replayed') BY <1>1, EveryRecordSound, Zenon DEF ReplayInv
    <2>2. Shaped(replayed') /\ ReplayFits(replayed') /\ ~replayed'.bad /\ Kept(replayed, r, replayed')
      BY <1>1, <2>1, Zenon DEF Step
    <2>3. Keeps(replayed, replayed') BY <1>1, <2>2, Zenon DEF Kept, Keeps, DurableStands
    <2> QED BY <2>2, <2>3 DEF ReplayInv
  <1>2. CASE ReplayAdmission BY <1>1, <1>2, AdmissionFits, Zenon DEF ReplayAdmission, Accept, ReplayRecords
  <1>3. CASE ReplayTransfer BY <1>1, <1>3, TransferFits, Zenon DEF ReplayTransfer, Accept, ReplayRecords
  <1>4. CASE ReplayEnd BY <1>1, <1>4, EndFits, Zenon DEF ReplayEnd, Accept, ReplayRecords
  <1>5. CASE ReplayCheckpointEnd
    <2> DEFINE m == replayed
               n == replayed'
    <2>1. n = [m EXCEPT !.ckpt = FALSE, !.ckptGen = None] BY <1>5 DEF ReplayCheckpointEnd
    <2>2. /\ n.finals = m.finals /\ n.layout = m.layout /\ n.current = m.current
        /\ n.pending = m.pending /\ n.hostKey = m.hostKey /\ n.active = m.active
        /\ n.committed = m.committed /\ n.pendPieces = m.pendPieces
        /\ n.pendLayout = m.pendLayout /\ n.seenPieces = m.seenPieces
        /\ n.pieceLeases = m.pieceLeases /\ n.durable = m.durable /\ n.ckpt = FALSE
        /\ n.bad = m.bad /\ Shaped(n)
      BY <2>1, FieldNames DEF ReplayInv, Shaped
    <2> HIDE DEF m, n
    <2>3. ReplayFits(m) /\ ~m.bad BY DEF ReplayInv, m
    <2>4. ReplayFits(n) /\ Keeps(m, n)
      BY <2>2, <2>3, Zenon DEF ReplayFits, FinalsFit, LayoutFits, LeasesFit, PiecesFit, Keeps, DurableStands, HeldPieces, OptionsStand
    <2> QED BY <2>2, <2>3, <2>4 DEF ReplayInv, m, n
  <1> QED BY <1>2, <1>3, <1>4, <1>5 DEF ReplayNext

\* The inductive invariant of the replay, for all layouts and limits.
THEOREM ReplayInvariance == ReplaySpec => []ReplayInv
  <1>1. ReplayInv /\ [ReplayNext]_replayed => ReplayInv'
    <2>1. CASE UNCHANGED replayed BY <2>1 DEF ReplayInv
    <2> QED BY <2>1, ReplaySteps
  <1> QED BY <1>1, ReplayStarts, PTL DEF ReplaySpec

\* However the records of a journal follow one another, live or inside a
\* checkpoint: files are finalized in order and under the layout the task is
\* bound to, what an aborted lease wrote counts for nothing, and the chunks of a checkpoint climb (ReplaySound).
THEOREM ReplayIsSound == ReplaySpec => []ReplaySound
  <1>1. ReplayInv => ReplaySound
    BY Zenon DEF ReplayInv, ReplayFits, FinalsFit, LeasesFit, PiecesFit, ReplaySound,
       FinalizedInOrder, AbortedContributeNothing, ChunksClimb
  <1> QED BY <1>1, ReplayInvariance, PTL

\* No record takes back a durable piece but a failure of that very piece, a
\* layout that is another file, or a generation that starts over or under another
\* manifest; and within a generation the options change by nothing but the
\* approval of the pending challenge (ReplayKeeps).
THEOREM ReplayKeepsAll == ReplaySpec => ReplayKeeps
  <1>1. ReplayInv /\ [ReplayNext]_replayed =>
          [DurableStands(replayed, replayed') /\ OptionsStand(replayed, replayed')]_replayed
    BY ReplaySteps, Zenon DEF Keeps
  <1> QED BY <1>1, ReplayInvariance, PTL DEF ReplaySpec, ReplayKeeps

=================================================================================
