----------------------------- MODULE RealtimeProofs -----------------------------
(* Both ends of the realtime channel.  The server's replay journal: a cursor that
   it accepts has missed nothing, for any writers, readers, budgets, clocks and
   restored backups.  The Python client: it has one socket, on which it is served
   under the identity its store holds and gets every key it holds for live, for
   any callers, keys, topics and disturbances.                                   *)
EXTENDS ReplayJournal, RealtimeClient, WellFoundedInduction, FiniteSetTheorems, TLAPS

\* What the journal j retains is the end of the history l, without a gap.
Holds(j, l) ==
  /\ j \in [secret : Nat, sequence : Nat, floor : Nat, rows : {j.rows}]
  /\ j.sequence = Len(l) /\ j.floor <= Len(l)
  /\ DOMAIN j.rows = (j.floor + 1)..Len(l)
  /\ \A s \in DOMAIN j.rows : j.rows[s].collection = l[s]

Shapes ==
  /\ tx = [w \in Writers |-> tx[w]] /\ cursor = [r \in Readers |-> cursor[r]]
  /\ got = [r \in Readers |-> got[r]] /\ since \in [Readers -> Nat]

\* The database and its copy.
Stored ==
  /\ log \in Seq(Collections) /\ Holds(journal, log)
  /\ backup.log \in Seq(Collections) /\ Holds(backup.journal, backup.log)

\* At most one transaction appends, to the present journal.
Pending ==
  /\ \A v, w \in Writers : tx[v] # NoTx /\ tx[w] # NoTx => v = w
  /\ \A w \in Writers : tx[w] # NoTx =>
       /\ tx[w].added \in Seq(Collections) /\ Holds(tx[w].state, log \o tx[w].added)
       /\ tx[w].state.secret = journal.secret

\* No cursor is sealed with a secret that is still to come.
Sealed ==
  \A r \in Readers : cursor[r] # NoCursor =>
    /\ cursor[r] \in [secret : Nat, after : Nat] /\ cursor[r].secret <= journal.secret

\* What is retained keeps to the budgets, committed, in a transaction and in the copy.
Within(j) == InBudget(j.rows, DOMAIN j.rows)
Frugal == Within(journal) /\ Within(backup.journal) /\ \A w \in Writers : tx[w] # NoTx => Within(tx[w].state)

JournalInv == Shapes /\ Stored /\ Pending /\ Sealed /\ GapFree

\* Every nonempty set of numbers has a least one.
LEMMA Least ==
  ASSUME NEW S, S \subseteq Nat, S # {}
  PROVE  \E x \in S : \A y \in S : x <= y
<1>1. \E x \in S : \A y \in S : <<y, x>> \notin OpToRel(<, Nat)
  BY WFMin, NatLessThanWellFounded, Zenon
<1>2. \E x \in S : \A y \in S : ~(y < x)
  BY <1>1, Zenon DEF OpToRel
<1>. QED BY <1>2

\* The largest number of a bounded set is the Max of it.
LEMMA Greatest ==
  ASSUME NEW n \in Nat, NEW S, S \subseteq 0..n, S # {}
  PROVE  Max(S) \in S /\ \A y \in S : y <= Max(S)
<1>. DEFINE Bounds == {k \in Nat : \A y \in S : y <= k}
<1>1. n \in Bounds OBVIOUS
<1>2. PICK m \in Bounds : \A k \in Bounds : m <= k
  <2>1. Bounds \subseteq Nat /\ Bounds # {} BY <1>1
  <2>. HIDE DEF Bounds
  <2>. QED BY <2>1, Least
<1>3. m \in S
  <2>1. SUFFICES ASSUME m \notin S PROVE FALSE OBVIOUS
  <2>2. m \in Nat /\ \A y \in S : y \in Nat /\ y < m BY <2>1
  <2>3. m - 1 \in Nat
    <3>1. PICK y \in S : y \in Nat /\ y < m BY <2>2
    <3>. QED BY <2>2, <3>1
  <2>4. m - 1 \in Bounds BY <2>2, <2>3
  <2>5. m <= m - 1 BY <1>2, <2>4
  <2>. QED BY <2>3, <2>5
<1>. QED BY <1>3 DEF Max

\* Discarding a prefix leaves the end of the history.
LEMMA DiscardHolds ==
  ASSUME NEW j, NEW l \in Seq(Collections), Holds(j, l), NEW S, S \subseteq DOMAIN j.rows
  PROVE  Holds(Discard(j, S), l) /\ Discard(j, S).secret = j.secret
<1>1. CASE S = {} BY <1>1 DEF Discard
<1>2. CASE S # {}
  <2>1. Len(l) \in Nat OBVIOUS
  <2>2. S \subseteq 0..Len(l) BY <2>1 DEF Holds
  <2>3. Max(S) \in S BY <1>2, <2>1, <2>2, Greatest
  <2>. DEFINE m == Max(S)
  <2>4. m \in (j.floor + 1)..Len(l) BY <2>3 DEF Holds
  <2>. HIDE DEF m
  <2>. DEFINE kept == {t \in DOMAIN j.rows : t > m}
              less == [s \in kept |-> j.rows[s]]
              d == [j EXCEPT !.floor = m, !.rows = less]
  <2>5. Discard(j, S) = d BY <1>2 DEF Discard, m
  <2>6. kept = (m + 1)..Len(l) /\ DOMAIN less = kept BY <2>4 DEF Holds
  <2>7. \A s \in kept : less[s].collection = l[s] BY DEF Holds
  <2>8. j \in [secret : Nat, sequence : Nat, floor : Nat, rows : {j.rows}] /\ j.sequence = Len(l)
        /\ m \in Nat /\ m <= Len(l)
    BY <2>1, <2>4 DEF Holds
  <2>. HIDE DEF less
  <2>9. /\ d \in [secret : Nat, sequence : Nat, floor : Nat, rows : {less}]
        /\ d.secret = j.secret /\ d.sequence = j.sequence /\ d.floor = m /\ d.rows = less
    BY <2>8
  <2>. HIDE DEF d
  <2>. QED BY <2>5, <2>6, <2>7, <2>8, <2>9 DEF Holds
<1>. QED BY <1>1, <1>2

\* The second eviction makes everything fit.
LEMMA EvictionFits ==
  ASSUME JournalAssumption, NEW j, NEW l \in Seq(Collections), Holds(j, l)
  PROVE  Within(Discard(j, OverBudget(j)))
<1>. DEFINE over == OverBudget(j)
            d == Discard(j, over)
<1>0. Len(l) \in Nat /\ DOMAIN j.rows \subseteq 0..Len(l) /\ DOMAIN j.rows \subseteq Nat
  BY DEF Holds
<1>1. over \subseteq DOMAIN j.rows BY DEF OverBudget
<1>2. /\ DOMAIN d.rows \subseteq DOMAIN j.rows
      /\ \A s \in DOMAIN d.rows : d.rows[s] = j.rows[s] /\ s \notin over
      /\ \A s \in DOMAIN d.rows : \A t \in DOMAIN j.rows : t >= s => t \in DOMAIN d.rows
  <2>1. CASE over = {} BY <2>1 DEF Discard
  <2>2. CASE over # {}
    <3>. DEFINE m == Max(over)
                kept == {t \in DOMAIN j.rows : t > m}
                less == [s \in kept |-> j.rows[s]]
    <3>1. m \in over /\ \A y \in over : y <= m BY <1>0, <1>1, <2>2, Greatest
    <3>2. m \in Nat BY <1>0, <1>1, <3>1
    <3>. HIDE DEF m
    <3>3. d = [j EXCEPT !.floor = m, !.rows = less] BY <2>2 DEF Discard, m
    <3>. HIDE DEF less
    <3>4. d.rows = less BY <3>3 DEF Holds
    <3>. HIDE DEF d
    <3>5. DOMAIN less = kept /\ \A s \in kept : less[s] = j.rows[s] BY DEF less
    <3>6. \A s \in kept : s \notin over BY <1>0, <3>1, <3>2
    <3>7. \A s \in kept : \A t \in DOMAIN j.rows : t >= s => t \in kept BY <1>0, <3>2
    <3>. QED BY <3>4, <3>5, <3>6, <3>7
  <2>. QED BY <2>1, <2>2
<1>. HIDE DEF d
<1>. SUFFICES Within(d) BY DEF d
<1>. HIDE DEF over
<1>3. CASE DOMAIN d.rows = {}
  <2>1. Payload(d.rows, DOMAIN d.rows) = {} BY <1>3 DEF Payload
  <2>2. Bytes(d.rows, DOMAIN d.rows) = 0 /\ Cardinality(DOMAIN d.rows) = 0
    BY <1>3, <2>1, FS_EmptySet DEF Bytes
  <2>. QED BY <2>2, JournalAssumption DEF JournalAssumption, Within, InBudget
<1>4. CASE DOMAIN d.rows # {}
  <2>1. PICK m \in DOMAIN d.rows : \A s \in DOMAIN d.rows : m <= s
    BY <1>0, <1>2, <1>4, Least
  <2>. DEFINE newest == {t \in DOMAIN j.rows : t >= m}
  <2>2. newest = DOMAIN d.rows
    BY <1>0, <1>2, <2>1
  <2>3. InBudget(j.rows, newest)
    BY <1>2, <2>1 DEF OverBudget, over
  <2>. HIDE DEF newest
  <2>4. Payload(d.rows, newest) = Payload(j.rows, newest)
    <3>1. \A s \in newest : d.rows[s] = j.rows[s] BY <1>2, <2>2
    <3>. QED BY <3>1 DEF Payload
  <2>. QED BY <2>2, <2>3, <2>4 DEF Within, InBudget, Bytes
<1>. QED BY <1>3, <1>4

\* An entry takes the next position, whatever is evicted after it.
LEMMA AppendedHolds ==
  ASSUME NEW j, NEW l \in Seq(Collections), Holds(j, l), NEW e, e.collection \in Collections, NEW instant
  PROVE  /\ Holds(Appended(j, e, instant), Append(l, e.collection))
         /\ Appended(j, e, instant).secret = j.secret
         /\ Within(Appended(j, e, instant))
<1>. DEFINE i == Inserted(j, e)
            f == Discard(i, Outdated(i, instant))
            longer == Append(l, e.collection)
<1>1. longer \in Seq(Collections) /\ Len(longer) = Len(l) + 1 /\ Len(l) \in Nat OBVIOUS
<1>2. Holds(i, longer) /\ i.secret = j.secret
  <2>. DEFINE n == j.sequence + 1
              new == [s \in DOMAIN j.rows \cup {n} |-> IF s = n THEN e ELSE j.rows[s]]
  <2>1. n = Len(longer) /\ n \in Nat BY <1>1 DEF Holds
  <2>2. DOMAIN new = (j.floor + 1)..Len(longer) BY <1>1, <2>1 DEF Holds
  <2>3. \A s \in DOMAIN new : new[s].collection = longer[s] BY <1>1, <2>1, <2>2 DEF Holds
  <2>4. j \in [secret : Nat, sequence : Nat, floor : Nat, rows : {j.rows}] /\ j.floor <= Len(longer)
    BY <1>1 DEF Holds
  <2>5. i = [j EXCEPT !.sequence = n, !.rows = new] BY DEF Inserted
  <2>. HIDE DEF new, n, i
  <2>6. /\ i \in [secret : Nat, sequence : Nat, floor : Nat, rows : {new}]
        /\ i.secret = j.secret /\ i.sequence = n /\ i.floor = j.floor /\ i.rows = new
    BY <2>1, <2>4, <2>5
  <2>. QED BY <2>1, <2>2, <2>3, <2>4, <2>6 DEF Holds
<1>. HIDE DEF i, longer
<1>3. Outdated(i, instant) \subseteq DOMAIN i.rows BY DEF Outdated
<1>4. Holds(f, longer) /\ f.secret = j.secret BY <1>1, <1>2, <1>3, DiscardHolds
<1>. HIDE DEF f
<1>5. OverBudget(f) \subseteq DOMAIN f.rows BY DEF OverBudget
<1>6. Holds(Discard(f, OverBudget(f)), longer) /\ Discard(f, OverBudget(f)).secret = j.secret
  BY <1>1, <1>4, <1>5, DiscardHolds
<1>7. Within(Discard(f, OverBudget(f))) BY <1>1, <1>4, JournalAssumption, EvictionFits
<1>. QED BY <1>6, <1>7 DEF Appended, i, f, longer

\* JournalInit establishes the invariant.
LEMMA JournalInitial == JournalInit => JournalInv
<1>. SUFFICES ASSUME JournalInit PROVE JournalInv OBVIOUS
<1>1. Holds(journal, log) BY DEF JournalInit, Holds
<1>. QED BY <1>1 DEF JournalInit, JournalInv, Shapes, Stored, Pending, Sealed, GapFree

\* The first entry of a transaction, or a further one.
LEMMA AppendEntryKeeps ==
  ASSUME JournalAssumption, JournalInv, NEW w \in Writers, AppendEntry(w)
  PROVE  JournalInv' /\ (Frugal => Frugal')
<1>1. PICK c \in Collections, size \in FrameSizes, instant \in Times :
        tx' = [tx EXCEPT ![w] =
          [state |-> Appended(Open(w).state,
                              [collection |-> c, bytes |-> size, expires |-> instant + retention_seconds], instant),
           added |-> Append(Open(w).added, c)]]
  BY DEF AppendEntry
<1>. DEFINE e == [collection |-> c, bytes |-> size, expires |-> instant + retention_seconds]
            s == Open(w).state
            a == Open(w).added
            l == log \o a
<1>2. /\ a \in Seq(Collections) /\ l \in Seq(Collections)
      /\ Holds(s, l) /\ s.secret = journal.secret
  <2>1. CASE tx[w] = NoTx
    <3>1. s = journal /\ a = <<>> BY <2>1 DEF Open
    <3>2. l = log BY <3>1 DEF JournalInv, Stored
    <3>. QED BY <3>1, <3>2 DEF JournalInv, Stored
  <2>2. CASE tx[w] # NoTx
    <3>1. s = tx[w].state /\ a = tx[w].added BY <2>2 DEF Open
    <3>. QED BY <2>2, <3>1 DEF JournalInv, Stored, Pending
  <2>. QED BY <2>1, <2>2
<1>. HIDE DEF s, a
<1>3. e.collection = c OBVIOUS
<1>. HIDE DEF e
<1>4. /\ Holds(Appended(s, e, instant), Append(l, c)) /\ Appended(s, e, instant).secret = journal.secret
      /\ Within(Appended(s, e, instant))
  BY <1>2, <1>3, AppendedHolds
<1>5. Append(l, c) = log \o Append(a, c)
  <2>1. log \in Seq(Collections) /\ a \in Seq(Collections) BY <1>2 DEF JournalInv, Stored
  <2>2. \A q, r \in Seq(Collections) : Append(q \o r, c) = q \o Append(r, c)
    <3>. TAKE q, r \in Seq(Collections)
    <3>1. c \in Collections OBVIOUS
    <3>. QED BY <3>1
  <2>3. Append(log \o a, c) = log \o Append(a, c)
    BY <2>1, <2>2, Zenon
  <2>. QED BY <2>3
<1>6. Append(a, c) \in Seq(Collections) BY <1>2
<1>. DEFINE new == [state |-> Appended(s, e, instant), added |-> Append(a, c)]
<1>7. tx' = [tx EXCEPT ![w] = new] BY <1>1 DEF s, a, e
<1>8. new.state = Appended(s, e, instant) /\ new.added = Append(a, c) OBVIOUS
<1>. HIDE DEF new
<1>9. \A v \in Writers : tx'[v] = IF v = w THEN new ELSE NoTx
  BY <1>7 DEF JournalInv, Shapes, AppendEntry, RowFree
<1>10. UNCHANGED <<journal, cursor, since, got, log, backup>> BY DEF AppendEntry
<1>11. Pending' BY <1>4, <1>5, <1>6, <1>8, <1>9, <1>10 DEF Pending
<1>12. Shapes' BY <1>7, <1>10 DEF JournalInv, Shapes
<1>13. Frugal => Frugal' BY <1>4, <1>8, <1>9, <1>10 DEF Frugal, Within
<1>. QED BY <1>10, <1>11, <1>12, <1>13 DEF JournalInv, Stored, Sealed, GapFree

\* What was pending becomes the history; no position a cursor is at changes.
LEMMA CommitKeeps ==
  ASSUME JournalAssumption, JournalInv, NEW w \in Writers, Commit(w)
  PROVE  JournalInv'
<1>. DEFINE a == tx[w].added
<1>1. /\ a \in Seq(Collections) /\ Holds(tx[w].state, log \o a)
      /\ tx[w].state.secret = journal.secret /\ log \in Seq(Collections)
  BY DEF Commit, JournalInv, Pending, Stored
<1>2. journal' = tx[w].state /\ log' = log \o a /\ UNCHANGED <<cursor, since, got, backup>>
  BY DEF Commit
<1>. HIDE DEF a
<1>3. \A v \in Writers : tx'[v] = NoTx BY DEF Commit, JournalInv, Shapes, Pending
<1>4. Shapes' BY <1>2 DEF JournalInv, Shapes, Commit
<1>5. Stored' BY <1>1, <1>2 DEF JournalInv, Stored
<1>6. Pending' BY <1>3 DEF Pending
<1>7. Sealed' BY <1>1, <1>2 DEF JournalInv, Sealed
<1>8. GapFree'
  <2>. SUFFICES ASSUME NEW r \in Readers, cursor[r] # NoCursor, cursor[r].secret = journal.secret
                PROVE  /\ cursor[r].after \in since[r]..Len(log')
                       /\ got[r] = {s \in (since[r] + 1)..cursor[r].after : log'[s] = Watches[r]}
    BY <1>1, <1>2 DEF GapFree
  <2>1. /\ cursor[r].after \in since[r]..Len(log)
        /\ got[r] = {s \in (since[r] + 1)..cursor[r].after : log[s] = Watches[r]}
    BY DEF JournalInv, GapFree
  <2>2. since[r] \in Nat BY DEF JournalInv, Shapes
  <2>3. /\ Len(log) \in Nat /\ Len(log') \in Nat /\ Len(log) <= Len(log')
        /\ \A s \in 1..Len(log) : log'[s] = log[s]
    BY <1>1, <1>2
  <2>4. \A s \in (since[r] + 1)..cursor[r].after : log'[s] = log[s] BY <2>1, <2>2, <2>3
  <2>. QED BY <2>1, <2>2, <2>3, <2>4
<1>. QED BY <1>4, <1>5, <1>6, <1>7, <1>8 DEF JournalInv

\* What is rolled back was seen by nobody.
LEMMA RollbackKeeps ==
  ASSUME JournalInv, NEW w \in Writers, Rollback(w)
  PROVE  JournalInv'
<1>1. UNCHANGED <<journal, cursor, since, got, log, backup>> BY DEF Rollback
<1>2. Shapes' /\ Pending' BY DEF Rollback, JournalInv, Shapes, Pending
<1>. QED BY <1>1, <1>2 DEF JournalInv, Stored, Sealed, GapFree

\* A checkpoint is at the head, where nothing is owed.
LEMMA CheckpointKeeps ==
  ASSUME JournalInv, NEW r \in Readers, Checkpoint(r)
  PROVE  JournalInv'
<1>. DEFINE c == [secret |-> journal.secret, after |-> journal.sequence]
<1>1. /\ cursor' = [cursor EXCEPT ![r] = c]
      /\ since' = [since EXCEPT ![r] = journal.sequence] /\ got' = [got EXCEPT ![r] = {}]
      /\ UNCHANGED <<journal, tx, log, backup>>
  BY DEF Checkpoint
<1>2. journal.sequence = Len(log) /\ Len(log) \in Nat /\ journal.secret \in Nat
  BY DEF JournalInv, Stored, Holds
<1>3. Shapes' BY <1>1, <1>2 DEF JournalInv, Shapes
<1>4. Sealed' BY <1>1, <1>2 DEF JournalInv, Shapes, Sealed
<1>5. GapFree' BY <1>1, <1>2 DEF JournalInv, Shapes, GapFree
<1>. QED BY <1>1, <1>3, <1>4, <1>5 DEF JournalInv, Stored, Pending

\* A page of a reader whose cursor is good begins where the cursor is, and its
\* position leaves nothing of the reader's collection between it and the page.
LEMMA PageHasNoGap ==
  ASSUME JournalInv, NEW r \in Readers, cursor[r] # NoCursor, NEW limit \in Nat \ {0}, NEW instant,
         Readable(cursor[r], instant)
  PROVE  /\ Position(r, limit) \in cursor[r].after..Len(log)
         /\ Page(r, limit) = {s \in (cursor[r].after + 1)..Position(r, limit) : log[s] = Watches[r]}
<1>. DEFINE c == cursor[r].after
            F == Following(r)
            P == Page(r, limit)
            upTo(s) == {t \in F : t <= s}
<1>1. c \in Nat /\ Len(log) \in Nat /\ c <= Len(log) /\ journal.floor <= c
      /\ journal.sequence = Len(log) /\ journal.floor \in Nat
  BY DEF JournalInv, Sealed, Stored, Holds, Readable
<1>2. F = {s \in (c + 1)..Len(log) : log[s] = Watches[r]}
  BY <1>1 DEF JournalInv, Stored, Holds, Following
<1>3. P \subseteq F BY DEF Page
<1>4. CASE P = F
  BY <1>1, <1>2, <1>4 DEF Position
<1>5. CASE P # F
  <2>1. F \subseteq 1..Len(log) /\ F \subseteq Nat BY <1>1, <1>2
  <2>2. IsFiniteSet(F)
    <3>1. IsFiniteSet(1..Len(log)) BY <1>1, FS_Interval
    <3>. QED BY <2>1, <3>1, FS_Subset
  <2>3. \A s \in F : IsFiniteSet(upTo(s)) /\ Cardinality(upTo(s)) \in Nat
    BY <2>2, FS_Subset, FS_CardinalityType
  <2>4. \A s, t \in F : t <= s => Cardinality(upTo(t)) <= Cardinality(upTo(s))
    <3>. TAKE s, t \in F
    <3>. HAVE t <= s
    <3>1. upTo(t) \subseteq upTo(s) BY <2>1
    <3>2. IsFiniteSet(upTo(s)) BY <2>3
    <3>. HIDE DEF upTo, F
    <3>. QED BY <3>1, <3>2, FS_Subset
  <2>5. \A s \in F : s \in P <=> Cardinality(upTo(s)) <= limit BY DEF Page
  <2>6. P # {}
    <3>1. F # {} BY <1>3, <1>5
    <3>2. PICK m \in F : \A s \in F : m <= s
      <4>. HIDE DEF F
      <4>. QED BY <2>1, <3>1, Least
    <3>3. upTo(m) = {m} BY <2>1, <3>2
    <3>4. Cardinality(upTo(m)) = 1 BY <3>3, FS_Singleton
    <3>. QED BY <2>5, <3>4
  <2>7. Max(P) \in P /\ \A s \in P : s <= Max(P)
    <3>1. P \subseteq 0..Len(log) BY <1>3, <2>1
    <3>. HIDE DEF P
    <3>. QED BY <1>1, <2>6, <3>1, Greatest
  <2>. DEFINE last == Max(P)
  <2>8. Position(r, limit) = last BY <1>5 DEF Position
  <2>9. last \in F /\ last \in (c + 1)..Len(log) BY <1>2, <1>3, <2>7
  <2>10. \A s \in F : s \in P <=> s <= last
    <3>. HIDE DEF F, P, upTo, last
    <3>1. \A s \in F : s \in P => s <= last BY <2>7 DEF last
    <3>2. ASSUME NEW s \in F, s <= last PROVE s \in P
      <4>1. Cardinality(upTo(s)) <= Cardinality(upTo(last)) BY <2>4, <2>9, <3>2
      <4>2. Cardinality(upTo(last)) <= limit BY <2>5, <2>7, <2>9 DEF last
      <4>3. Cardinality(upTo(s)) \in Nat /\ Cardinality(upTo(last)) \in Nat BY <2>3, <2>9
      <4>. QED BY <2>5, <4>1, <4>2, <4>3
    <3>. QED BY <3>1, <3>2
  <2>. HIDE DEF last, P
  <2>. QED BY <1>1, <1>2, <1>3, <2>8, <2>9, <2>10 DEF P
<1>. QED BY <1>4, <1>5

\* A page brings what follows the cursor, or the cursor is given up.
LEMMA ReadPageKeeps ==
  ASSUME JournalAssumption, JournalInv, NEW r \in Readers, ReadPage(r)
  PROVE  JournalInv'
<1>1. cursor[r] # NoCursor /\ UNCHANGED <<journal, tx, since, log, backup>> BY DEF ReadPage
<1>2. PICK instant \in Times, limit \in Limits :
        IF Readable(cursor[r], instant)
        THEN /\ cursor' = [cursor EXCEPT ![r].after = Position(r, limit)]
             /\ got' = [got EXCEPT ![r] = @ \cup Page(r, limit)]
        ELSE cursor' = [cursor EXCEPT ![r] = NoCursor] /\ UNCHANGED got
  BY DEF ReadPage
<1>3. CASE ~Readable(cursor[r], instant)
  <2>1. cursor' = [cursor EXCEPT ![r] = NoCursor] /\ UNCHANGED got BY <1>2, <1>3
  <2>2. Shapes' /\ Sealed' /\ GapFree' BY <1>1, <2>1 DEF JournalInv, Shapes, Sealed, GapFree
  <2>. QED BY <1>1, <2>2 DEF JournalInv, Stored, Pending
<1>4. CASE Readable(cursor[r], instant)
  <2>. DEFINE p == Position(r, limit)
              g == Page(r, limit)
              c == cursor[r]
  <2>1. cursor' = [cursor EXCEPT ![r].after = p] /\ got' = [got EXCEPT ![r] = @ \cup g] BY <1>2, <1>4
  <2>2. limit \in Nat \ {0} BY DEF JournalAssumption
  <2>3. p \in c.after..Len(log) /\ g = {s \in (c.after + 1)..p : log[s] = Watches[r]}
    BY <1>1, <1>4, <2>2, PageHasNoGap
  <2>. HIDE DEF p, g
  <2>4. /\ c \in [secret : Nat, after : Nat] /\ c.secret <= journal.secret /\ c.secret = journal.secret
        /\ since[r] \in Nat /\ Len(log) \in Nat
    BY <1>1, <1>4 DEF JournalInv, Sealed, Shapes, Stored, Readable
  <2>5. c.after \in since[r]..Len(log) /\ got[r] = {s \in (since[r] + 1)..c.after : log[s] = Watches[r]}
    BY <1>1, <2>4 DEF JournalInv, GapFree
  <2>6. /\ \A q \in Readers \ {r} : cursor'[q] = cursor[q] /\ got'[q] = got[q]
        /\ cursor'[r] = [secret |-> c.secret, after |-> p] /\ got'[r] = got[r] \cup g
    <3>1. cursor'[r] = [c EXCEPT !.after = p] BY <2>1 DEF JournalInv, Shapes
    <3>2. [c EXCEPT !.after = p] = [secret |-> c.secret, after |-> p] BY <2>4
    <3>3. got'[r] = got[r] \cup g BY <2>1 DEF JournalInv, Shapes
    <3>4. \A q \in Readers \ {r} : cursor'[q] = cursor[q] /\ got'[q] = got[q]
      BY <2>1 DEF JournalInv, Shapes
    <3>. QED BY <3>1, <3>2, <3>3, <3>4
  <2>7. Shapes' BY <1>1, <2>1 DEF JournalInv, Shapes
  <2>8. p \in Nat /\ p \in since[r]..Len(log) BY <2>3, <2>4, <2>5
  <2>9. Sealed' BY <1>1, <2>4, <2>6, <2>8 DEF JournalInv, Sealed
  <2>10. got'[r] = {s \in (since[r] + 1)..p : log[s] = Watches[r]}
    BY <2>3, <2>4, <2>5, <2>6, <2>8
  <2>11. GapFree' BY <1>1, <2>6, <2>8, <2>10 DEF JournalInv, GapFree
  <2>. QED BY <1>1, <2>7, <2>9, <2>11 DEF JournalInv, Stored, Pending
<1>. QED BY <1>3, <1>4

\* The copy is what was stored.
LEMMA TakeBackupKeeps ==
  ASSUME JournalInv, TakeBackup
  PROVE  JournalInv'
<1>1. backup' = [journal |-> journal, log |-> log] /\ UNCHANGED <<journal, tx, cursor, since, got, log>>
  BY DEF TakeBackup
<1>2. Stored' BY <1>1 DEF JournalInv, Stored
<1>. QED BY <1>1, <1>2 DEF JournalInv, Shapes, Pending, Sealed, GapFree

\* The new secret makes every cursor unreadable.
LEMMA RestoreKeeps ==
  ASSUME JournalInv, Restore
  PROVE  JournalInv'
<1>. DEFINE b == backup.journal
            n == journal.secret + 1
<1>1. /\ journal' = [b EXCEPT !.secret = n] /\ log' = backup.log
      /\ UNCHANGED <<tx, cursor, since, got, backup>> /\ \A w \in Writers : tx[w] = NoTx
  BY DEF Restore
<1>2. Holds(b, backup.log) /\ backup.log \in Seq(Collections) /\ journal.secret \in Nat
  BY DEF JournalInv, Stored, Holds
<1>3. /\ journal' \in [secret : Nat, sequence : Nat, floor : Nat, rows : {b.rows}]
      /\ journal'.secret = n /\ journal'.sequence = b.sequence /\ journal'.floor = b.floor
      /\ journal'.rows = b.rows
  <2>1. b \in [secret : Nat, sequence : Nat, floor : Nat, rows : {b.rows}] /\ n \in Nat BY <1>2 DEF Holds
  <2>2. journal' = [b EXCEPT !.secret = n] BY <1>1
  <2>. HIDE DEF b, n
  <2>. QED BY <2>1, <2>2
<1>4. Stored'
  <2>. HIDE DEF b, n
  <2>1. Holds(journal', backup.log) BY <1>2, <1>3 DEF Holds
  <2>. QED BY <1>1, <1>2, <2>1 DEF JournalInv, Stored, b
<1>5. Sealed' /\ GapFree' BY <1>1, <1>2, <1>3 DEF JournalInv, Sealed, GapFree
<1>. QED BY <1>1, <1>4, <1>5 DEF JournalInv, Shapes, Pending

\* Every step preserves the invariant.
LEMMA JournalInductive ==
  ASSUME JournalAssumption, JournalInv, [JournalNext]_journalVars
  PROVE  JournalInv'
<1>1. ASSUME NEW w \in Writers, AppendEntry(w) PROVE JournalInv' BY <1>1, AppendEntryKeeps
<1>2. ASSUME NEW w \in Writers, Commit(w) PROVE JournalInv' BY <1>2, CommitKeeps
<1>3. ASSUME NEW w \in Writers, Rollback(w) PROVE JournalInv' BY <1>3, RollbackKeeps
<1>4. ASSUME NEW r \in Readers, Checkpoint(r) PROVE JournalInv' BY <1>4, CheckpointKeeps
<1>5. ASSUME NEW r \in Readers, ReadPage(r) PROVE JournalInv' BY <1>5, ReadPageKeeps
<1>6. CASE TakeBackup BY <1>6, TakeBackupKeeps
<1>7. CASE Restore BY <1>7, RestoreKeeps
<1>8. CASE UNCHANGED journalVars
  BY <1>8 DEF journalVars, JournalInv, Shapes, Stored, Pending, Sealed, GapFree
<1>. QED BY <1>1, <1>2, <1>3, <1>4, <1>5, <1>6, <1>7, <1>8 DEF JournalNext

\* What was retained within the budgets stays so, wherever it goes.
LEMMA FrugalKeeps ==
  ASSUME JournalAssumption, JournalInv, Frugal, [JournalNext]_journalVars
  PROVE  Frugal'
<1>1. ASSUME NEW w \in Writers, AppendEntry(w) PROVE Frugal' BY <1>1, AppendEntryKeeps
<1>2. ASSUME NEW w \in Writers, Commit(w) PROVE Frugal'
  BY <1>2 DEF Commit, Frugal, Within, JournalInv, Shapes
<1>3. ASSUME NEW w \in Writers, Rollback(w) PROVE Frugal'
  BY <1>3 DEF Rollback, Frugal, Within, JournalInv, Shapes
<1>4. ASSUME NEW r \in Readers, Checkpoint(r) \/ ReadPage(r) PROVE Frugal'
  BY <1>4 DEF Checkpoint, ReadPage, Frugal, Within
<1>5. CASE TakeBackup BY <1>5 DEF TakeBackup, Frugal, Within
<1>6. CASE Restore
  <2>. DEFINE b == backup.journal
              n == journal.secret + 1
  <2>1. journal' = [b EXCEPT !.secret = n] /\ UNCHANGED <<tx, backup>> /\ \A w \in Writers : tx[w] = NoTx
    BY <1>6 DEF Restore
  <2>2. b \in [secret : Nat, sequence : Nat, floor : Nat, rows : {b.rows}]
    BY DEF JournalInv, Stored, Holds
  <2>. HIDE DEF b, n
  <2>3. journal'.rows = b.rows BY <2>1, <2>2
  <2>. QED BY <2>1, <2>3 DEF Frugal, Within, b
<1>7. CASE UNCHANGED journalVars BY <1>7 DEF journalVars, Frugal, Within
<1>. QED BY <1>1, <1>2, <1>3, <1>4, <1>5, <1>6, <1>7 DEF JournalNext

\* A client whose cursor the journal accepts was given every entry of its collection
\* since its checkpoint, and nothing else: no late commit, rollback, eviction, expiry
\* or restored backup opens a gap.
THEOREM NoGap == JournalSpec => []GapFree
<1>1. JournalInv => GapFree BY DEF JournalInv
<1>2. JournalInv /\ [JournalNext]_journalVars => JournalInv' BY JournalAssumption, JournalInductive
<1>. QED BY JournalInitial, <1>1, <1>2, PTL DEF JournalSpec

\* Retained entries never exceed either budget, the byte budget that bounds the sum
\* of a table included, whatever the transaction that appends writes.
THEOREM BudgetsKept == JournalSpec => []Budgeted
<1>1. JournalInit => JournalInv /\ Frugal
  <2>. SUFFICES ASSUME JournalInit PROVE Frugal BY JournalInitial
  <2>1. DOMAIN journal.rows = {} /\ backup.journal = journal /\ \A w \in Writers : tx[w] = NoTx
    BY DEF JournalInit
  <2>2. Payload(journal.rows, {}) = {} BY DEF Payload
  <2>3. Cardinality({}) = 0 BY FS_EmptySet
  <2>4. max_entries \in Nat /\ max_bytes \in Nat BY JournalAssumption DEF JournalAssumption
  <2>5. Within(journal) BY <2>1, <2>2, <2>3, <2>4 DEF Within, InBudget, Bytes
  <2>. QED BY <2>1, <2>5 DEF Frugal
<1>2. JournalInv /\ Frugal /\ [JournalNext]_journalVars => JournalInv' /\ Frugal'
  BY JournalAssumption, JournalInductive, FrugalKeeps
<1>3. Frugal => Budgeted BY DEF Frugal, Within, Budgeted
<1>. QED BY <1>1, <1>2, <1>3, PTL DEF JournalSpec

\* No client is sent back to a snapshot that the journal could have spared it: some
\* entry after its cursor is gone or has expired, or the database was restored.
THEOREM ResetsAreJustified == JournalSpec => ResetsJustified
<1>. DEFINE Justified ==
       \A r \in Readers :
         cursor[r] # NoCursor /\ cursor'[r] = NoCursor =>
           \/ cursor[r].secret # journal.secret
           \/ \E s \in (cursor[r].after + 1)..journal.sequence :
                s \in DOMAIN journal.rows => \E instant \in Times : journal.rows[s].expires <= instant
<1>1. ASSUME JournalInv, [JournalNext]_journalVars PROVE Justified
  <2>. SUFFICES ASSUME NEW r \in Readers, cursor[r] # NoCursor, cursor'[r] = NoCursor,
                       cursor[r].secret = journal.secret
       PROVE \E s \in (cursor[r].after + 1)..journal.sequence :
               s \in DOMAIN journal.rows => \E instant \in Times : journal.rows[s].expires <= instant
    OBVIOUS
  <2>0. JournalInv /\ [JournalNext]_journalVars BY <1>1
  <2>1. Holds(journal, log) /\ cursor[r].after \in Nat /\ cursor[r].after <= Len(log) /\ Len(log) \in Nat
    <3>1. Holds(journal, log) /\ log \in Seq(Collections) BY <2>0 DEF JournalInv, Stored
    <3>2. cursor[r].after \in Nat BY <2>0 DEF JournalInv, Sealed
    <3>3. cursor[r].after \in since[r]..Len(log) /\ since[r] \in Nat BY <2>0 DEF JournalInv, GapFree, Shapes
    <3>. QED BY <3>1, <3>2, <3>3
  <2>2. PICK instant \in Times : ~Readable(cursor[r], instant)
    <3>1. cursor = [q \in Readers |-> cursor[q]] /\ cursor[r] \in [secret : Nat, after : Nat]
      BY <2>0 DEF JournalInv, Shapes, Sealed
    <3>2. PICK q \in Readers : Checkpoint(q) \/ ReadPage(q)
      BY <2>0 DEF JournalNext, journalVars, AppendEntry, Commit, Rollback, TakeBackup, Restore
    <3>3. q = r
      <4>1. Checkpoint(q) => \A o \in Readers : o # q => cursor'[o] = cursor[o] BY <3>1 DEF Checkpoint
      <4>2. ReadPage(q) => \A o \in Readers : o # q => cursor'[o] = cursor[o] BY <3>1 DEF ReadPage
      <4>. QED BY <3>2, <4>1, <4>2
    <3>4. ReadPage(r) BY <3>2, <3>3 DEF Checkpoint
    <3>5. PICK instant \in Times, limit \in Limits :
            IF Readable(cursor[r], instant)
            THEN cursor' = [cursor EXCEPT ![r].after = Position(r, limit)]
            ELSE cursor' = [cursor EXCEPT ![r] = NoCursor]
      BY <3>4 DEF ReadPage
    <3>6. ASSUME Readable(cursor[r], instant) PROVE FALSE
      <4>. DEFINE p == Position(r, limit)
                  c == cursor[r]
      <4>1. limit \in Nat \ {0} BY JournalAssumption DEF JournalAssumption
      <4>2. p \in c.after..Len(log) BY <2>0, <3>6, <4>1, PageHasNoGap
      <4>3. p \in Nat BY <2>1, <4>2
      <4>4. cursor' = [cursor EXCEPT ![r].after = p] BY <3>5, <3>6
      <4>. HIDE DEF p
      <4>5. cursor'[r] = [c EXCEPT !.after = p] BY <3>1, <4>4
      <4>6. [c EXCEPT !.after = p] \in [secret : Nat, after : Nat] BY <3>1, <4>3
      <4>. QED BY <4>5, <4>6, JournalAssumption DEF JournalAssumption
    <3>. QED BY <3>6
  <2>3. PICK s \in {journal.floor} \cup Outdated(journal, instant) : ~(s <= cursor[r].after)
    BY <2>1, <2>2 DEF Readable, Holds
  <2>4. s \in Nat /\ s <= journal.sequence /\ s > cursor[r].after
    BY <2>1, <2>3 DEF Outdated, Holds
  <2>5. s \in DOMAIN journal.rows => journal.rows[s].expires <= instant
    BY <2>1, <2>3 DEF Outdated, Holds
  <2>. QED BY <2>1, <2>4, <2>5 DEF Holds
<1>2. JournalInv /\ [JournalNext]_journalVars => JournalInv' BY JournalAssumption, JournalInductive
<1>3. JournalInv /\ [JournalNext]_journalVars => [Justified]_journalVars BY <1>1
<1>4. JournalSpec => [][Justified]_journalVars BY JournalInitial, <1>2, <1>3, PTL DEF JournalSpec
<1>. QED BY <1>4 DEF ResetsJustified

-----------------------------------------------------------------------------
(* RealtimeService *)

\* Attempts are numbered in order; the socket in use is conn, and it is the only one.
Linked ==
  /\ \E n \in 0..MaxConn : \A k \in Conns : wire[k].link # "none" <=> k <= n
  /\ \A k \in Conns : wire[k].link = "none" => wire[k] = Socket("none")
  /\ \A k \in Conns : wire[k].link \in {"up", "down"} => k = conn
  /\ conn # 0 => wire[conn].link \in {"up", "down"}

\* One of conn, the connector's task and the backoff has the connection in hand.
Handed ==
  /\ \A t, u \in Tasks : at[t] = "connector" /\ at[u] = "connector" => t = u
  /\ \A t \in Tasks : at[t] = "connector" => conn = 0 /\ ~sleeping
  /\ \A t \in Tasks : at[t] = "auth" => conn # 0
  /\ sleeping => conn = 0

\* A task in _connect_once has its object, and its caller awaits it.
Opening == \A c \in Callers : at[c] # "off" => ref[c] # None /\ pc[c] = "subscribing"

Stages == {"idle", "subscribing", "waiting", "live", "failed", "cancelled", "left"}
Steps == {"off", "connector", "auth", "snap", "resub", "back"}
Subs == [cbs : SUBSET Callers, pending : SUBSET Callers, acked : BOOLEAN, inflight : BOOLEAN]

SocketInv == TypeOK /\ Linked /\ Handed /\ Opening

\* The first frame of a connection with a token is its auth frame.
Speaks ==
  \A k \in Conns : wire[k].link \in {"up", "down"} /\ wire[k].first # 0 /\ wire[k].who = Unset
    => wire[k].up # <<>> /\ wire[k].up[1][1] = "auth"

\* What the server knows once it has read the frames in flight.
WillKnow(up, who, t) ==
  \/ (who = t \/ (t = 0 /\ who = Unset)) /\ \A i \in DOMAIN up : up[i][1] # "auth"
  \/ \E i \in DOMAIN up : up[i] = <<"auth", t>> /\ \A j \in DOMAIN up : j > i => up[j][1] # "auth"

\* ... is the stored token, unless a change is still to be sent.
Known ==
  ~Closed /\ Up(conn) =>
    /\ spawned = <<>> => WillKnow(wire[conn].up, wire[conn].who, token)
    /\ spawned # <<>> => spawned[Len(spawned)] = token

\* What it serves by then.
WillServe(up, served, k) ==
  \/ k \in served /\ \A i \in DOMAIN up : up[i] # <<"unsub", TopicOf[k]>>
  \/ \E i \in DOMAIN up : up[i] = <<"sub", k>> /\ \A j \in DOMAIN up : j > i => up[j] # <<"unsub", TopicOf[k]>>

\* An object is of the key it is registered for, and new while its caller is idle.
Named ==
  /\ \A k \in Keys : reg[k] # None => key[reg[k]] = k /\ pc[reg[k]] # "idle"
  /\ \A t \in Tasks : \A o \in todo[t] : pc[o] # "idle"
  /\ \A c \in Callers : ref[c] # None => pc[ref[c]] # "idle"
  /\ \A c \in Callers : pc[c] = "idle" => ~sub[c].acked /\ ~sub[c].inflight
  /\ \A c \in Callers : sub[c].acked => TopicOf[key[c]] \notin Rejected

\* A registered key is served, or a task is about to send it.
Served ==
  ~Closed /\ Up(conn) => \A k \in Keys : reg[k] # None /\ TopicOf[k] \notin Rejected =>
    \/ WillServe(wire[conn].up, wire[conn].served, k)
    \/ \E t \in Tasks : at[t] \in {"auth", "snap"} \/ (at[t] = "resub" /\ reg[k] \in todo[t])

ConnectionInv == SocketInv /\ Speaks /\ Known /\ Named

-----------------------------------------------------------------------------
\* The frames are of three kinds, told apart by their first component.
LEMMA FrameKinds ==
  ASSUME NEW f \in Frames
  PROVE  \/ f[1] = "auth" /\ f[2] \in Tokens /\ f = <<"auth", f[2]>>
         \/ f[1] = "sub" /\ f[2] \in Keys /\ f = <<"sub", f[2]>>
         \/ f[1] = "unsub" /\ f = <<"unsub", f[2]>>
BY DEF Frames

\* A frame is one more on the socket in use, if that is up, and nothing else.
LEMMA SentIs ==
  ASSUME TypeOK, NEW f \in Frames
  PROVE  /\ Sent(conn, f) \in [Conns -> Sockets]
         /\ \A k \in Conns : /\ Sent(conn, f)[k].link = wire[k].link
                             /\ Sent(conn, f)[k].who = wire[k].who
                             /\ Sent(conn, f)[k].first = wire[k].first
                             /\ Sent(conn, f)[k].served = wire[k].served
                             /\ ~(k = conn /\ Up(conn)) => Sent(conn, f)[k] = wire[k]
         /\ Up(conn) => conn \in Conns /\ Sent(conn, f)[conn].up = Append(wire[conn].up, f)
         /\ ~Up(conn) => Sent(conn, f) = wire
<1>1. wire \in [Conns -> Sockets] /\ conn \in 0..MaxConn /\ MaxConn \in Nat
  BY ConstantsOK DEF TypeOK
<1>2. CASE ~Up(conn)
  BY <1>1, <1>2 DEF Sent
<1>3. CASE Up(conn)
  <2>1. conn \in Conns
    BY <1>1, <1>3 DEF Up, Conns
  <2>2. wire[conn] \in Sockets /\ wire[conn].up \in Seq(Frames)
    BY <1>1, <2>1 DEF Sockets
  <2> DEFINE s == [wire[conn] EXCEPT !.up = Append(wire[conn].up, f)]
  <2>3. Append(wire[conn].up, f) \in Seq(Frames)
    BY <2>2
  <2>4. s \in Sockets /\ s.up = Append(wire[conn].up, f) /\ s.link = wire[conn].link
        /\ s.who = wire[conn].who /\ s.first = wire[conn].first /\ s.served = wire[conn].served
    BY <2>2, <2>3 DEF Sockets
  <2>5. Sent(conn, f) = [wire EXCEPT ![conn] = s]
    BY <1>3 DEF Sent
  <2> HIDE DEF s
  <2>6. QED
    BY <1>1, <1>3, <2>1, <2>4, <2>5
<1>4. QED
  BY <1>2, <1>3

\* What is known, and served, with one more frame behind.
LEMMA OneMore ==
  ASSUME NEW up \in Seq(Frames), NEW f \in Frames
  PROVE  /\ \A who, t : WillKnow(up, who, t) /\ f[1] # "auth" => WillKnow(Append(up, f), who, t)
         /\ \A who, t : f = <<"auth", t>> => WillKnow(Append(up, f), who, t)
         /\ \A served, k : WillServe(up, served, k) /\ f # <<"unsub", TopicOf[k]>> => WillServe(Append(up, f), served, k)
         /\ \A served, k : f = <<"sub", k>> => WillServe(Append(up, f), served, k)
<1> DEFINE more == Append(up, f)
           n == Len(up)
<1>1. /\ n \in Nat /\ DOMAIN up = 1..n /\ DOMAIN more = 1..(n + 1)
      /\ \A i \in 1..n : more[i] = up[i]
      /\ more[n + 1] = f
  OBVIOUS
<1>2. \A i \in DOMAIN more : (i \in DOMAIN up /\ more[i] = up[i]) \/ (i = n + 1 /\ more[i] = f)
  BY <1>1
<1>3. \A i \in DOMAIN up : i \in DOMAIN more /\ more[i] = up[i]
  BY <1>1
<1>4. n + 1 \in DOMAIN more /\ \A j \in DOMAIN more : ~(j > n + 1)
  BY <1>1
<1> HIDE DEF more, n
<1>5. \A who, t : WillKnow(up, who, t) /\ f[1] # "auth" => WillKnow(more, who, t)
  BY <1>2, <1>3 DEF WillKnow
<1>6. \A who, t : f = <<"auth", t>> => WillKnow(more, who, t)
  BY <1>1, <1>4 DEF WillKnow
<1>7. \A served, k : WillServe(up, served, k) /\ f # <<"unsub", TopicOf[k]>> => WillServe(more, served, k)
  BY <1>2, <1>3 DEF WillServe
<1>8. \A served, k : f = <<"sub", k>> => WillServe(more, served, k)
  BY <1>1, <1>4 DEF WillServe
<1>9. QED
  BY <1>5, <1>6, <1>7, <1>8 DEF more

\* ... and with the first one answered.
LEMMA OneLess ==
  ASSUME NEW up \in Seq(Frames), up # <<>>
  PROVE  /\ Tail(up) \in Seq(Frames) /\ Head(up) \in Frames /\ Head(up) = up[1]
         /\ \A who, t : WillKnow(up, who, t) =>
              WillKnow(Tail(up), IF Head(up)[1] = "auth" THEN Head(up)[2] ELSE who, t)
         /\ \A served, k, now : WillServe(up, served, k)
              /\ (Head(up) = <<"sub", k>> \/ (k \in served /\ Head(up) # <<"unsub", TopicOf[k]>>) => k \in now)
              => WillServe(Tail(up), now, k)
<1> DEFINE rest == Tail(up)
           n == Len(up)
<1>1. /\ n \in Nat /\ n >= 1 /\ DOMAIN up = 1..n /\ DOMAIN rest = 1..(n - 1)
      /\ \A i \in 1..(n - 1) : rest[i] = up[i + 1]
      /\ Head(up) = up[1] /\ up[1] \in Frames /\ rest \in Seq(Frames)
  OBVIOUS
<1>2. \A i \in DOMAIN rest : i + 1 \in DOMAIN up /\ rest[i] = up[i + 1]
  BY <1>1
<1>3. \A i \in DOMAIN up : i = 1 \/ (i - 1 \in DOMAIN rest /\ rest[i - 1] = up[i])
  <2>1. SUFFICES ASSUME NEW i \in 1..n, i # 1 PROVE i - 1 \in DOMAIN rest /\ rest[i - 1] = up[i]
    BY <1>1
  <2>2. i - 1 \in 1..(n - 1) /\ (i - 1) + 1 = i
    BY <1>1, <2>1
  <2>3. QED
    BY <1>1, <2>2
<1>4. \A i, j : i \in DOMAIN up /\ j \in DOMAIN rest /\ j > i - 1 => j + 1 > i
  BY <1>1
<1>5. \A j \in DOMAIN rest : j + 1 > 1
  BY <1>1
<1>6. 1 \in DOMAIN up
  BY <1>1
<1> HIDE DEF rest, n
<1>7. \A who, t : WillKnow(up, who, t) =>
        WillKnow(rest, IF up[1][1] = "auth" THEN up[1][2] ELSE who, t)
  <2>1. SUFFICES ASSUME NEW who, NEW t, WillKnow(up, who, t)
        PROVE WillKnow(rest, IF up[1][1] = "auth" THEN up[1][2] ELSE who, t)
    OBVIOUS
  <2>2. CASE (who = t \/ (t = 0 /\ who = Unset)) /\ \A i \in DOMAIN up : up[i][1] # "auth"
    BY <1>2, <1>6, <2>2 DEF WillKnow
  <2>3. CASE \E i \in DOMAIN up : up[i] = <<"auth", t>> /\ \A j \in DOMAIN up : j > i => up[j][1] # "auth"
    <3>1. PICK i \in DOMAIN up : up[i] = <<"auth", t>> /\ \A j \in DOMAIN up : j > i => up[j][1] # "auth"
      BY <2>3
    <3>2. CASE i = 1
      <4>1. \A j \in DOMAIN rest : rest[j][1] # "auth"
        BY <1>2, <1>5, <3>1, <3>2
      <4>2. up[1][1] = "auth" /\ up[1][2] = t
        BY <3>1, <3>2
      <4>3. QED
        BY <4>1, <4>2 DEF WillKnow
    <3>3. CASE i # 1
      <4>1. i - 1 \in DOMAIN rest /\ rest[i - 1] = <<"auth", t>>
        BY <1>3, <3>1, <3>3
      <4>2. \A j \in DOMAIN rest : j > i - 1 => rest[j][1] # "auth"
        BY <1>2, <1>4, <3>1
      <4>3. QED
        BY <4>1, <4>2 DEF WillKnow
    <3>4. QED
      BY <3>2, <3>3
  <2>4. QED
    BY <2>1, <2>2, <2>3 DEF WillKnow
<1>8. \A served, k, now : WillServe(up, served, k)
        /\ (up[1] = <<"sub", k>> \/ (k \in served /\ up[1] # <<"unsub", TopicOf[k]>>) => k \in now)
        => WillServe(rest, now, k)
  <2>1. SUFFICES ASSUME NEW served, NEW k, NEW now, WillServe(up, served, k),
                 up[1] = <<"sub", k>> \/ (k \in served /\ up[1] # <<"unsub", TopicOf[k]>>) => k \in now
        PROVE WillServe(rest, now, k)
    OBVIOUS
  <2>2. CASE k \in served /\ \A i \in DOMAIN up : up[i] # <<"unsub", TopicOf[k]>>
    BY <1>2, <1>6, <2>1, <2>2 DEF WillServe
  <2>3. CASE \E i \in DOMAIN up : up[i] = <<"sub", k>> /\ \A j \in DOMAIN up : j > i => up[j] # <<"unsub", TopicOf[k]>>
    <3>1. PICK i \in DOMAIN up : up[i] = <<"sub", k>> /\ \A j \in DOMAIN up : j > i => up[j] # <<"unsub", TopicOf[k]>>
      BY <2>3
    <3>2. CASE i = 1
      <4>1. \A j \in DOMAIN rest : rest[j] # <<"unsub", TopicOf[k]>>
        BY <1>2, <1>5, <3>1, <3>2
      <4>2. k \in now
        BY <2>1, <3>1, <3>2
      <4>3. QED
        BY <4>1, <4>2 DEF WillServe
    <3>3. CASE i # 1
      <4>1. i - 1 \in DOMAIN rest /\ rest[i - 1] = <<"sub", k>>
        BY <1>3, <3>1, <3>3
      <4>2. \A j \in DOMAIN rest : j > i - 1 => rest[j] # <<"unsub", TopicOf[k]>>
        BY <1>2, <1>4, <3>1
      <4>3. QED
        BY <4>1, <4>2 DEF WillServe
    <3>4. QED
      BY <3>2, <3>3
  <2>4. QED
    BY <2>1, <2>2, <2>3 DEF WillServe
<1>9. QED
  BY <1>1, <1>7, <1>8 DEF rest

\* What a task says on the socket in use, identities apart, disturbs nothing.
LEMMA SayKeeps ==
  ASSUME TypeOK, Linked, Speaks, Known, NEW f \in Frames, f[1] # "auth",
         wire' = wire \/ wire' = Sent(conn, f), UNCHANGED <<conn, token, spawned, closing>>
  PROVE  wire' \in [Conns -> Sockets] /\ Linked' /\ Speaks' /\ Known'
<1>1. CASE wire' = wire
  BY <1>1 DEF TypeOK, Linked, Speaks, Known, Up, Closed
<1>2. CASE wire' = Sent(conn, f) /\ ~Up(conn)
  <2>1. wire' = wire
    BY <1>2, SentIs
  <2>2. QED
    BY <2>1 DEF TypeOK, Linked, Speaks, Known, Up, Closed
<1>3. CASE wire' = Sent(conn, f) /\ Up(conn)
  <2>1. /\ wire' \in [Conns -> Sockets]
        /\ \A k \in Conns : /\ wire'[k].link = wire[k].link /\ wire'[k].who = wire[k].who
                            /\ wire'[k].first = wire[k].first /\ wire'[k].served = wire[k].served
                            /\ k # conn => wire'[k] = wire[k]
        /\ conn \in Conns /\ wire'[conn].up = Append(wire[conn].up, f)
    BY <1>3, SentIs
  <2>2. wire[conn].link = "up" /\ wire[conn].up \in Seq(Frames)
    BY <1>3, <2>1 DEF Up, TypeOK, Sockets
  <2>3. Linked'
    BY <2>1, <2>2 DEF Linked
  <2>4. Speaks'
    <3>1. wire'[conn].up # <<>> /\ (wire[conn].up # <<>> => wire'[conn].up[1] = wire[conn].up[1])
      BY <2>1, <2>2
    <3>2. QED
      BY <2>1, <3>1 DEF Speaks
  <2>5. Known'
    <3>1. Up(conn)' <=> Up(conn)
      BY <2>1 DEF Up
    <3>2. WillKnow(wire[conn].up, wire[conn].who, token) => WillKnow(wire'[conn].up, wire[conn].who, token)
      BY <2>1, <2>2, OneMore
    <3>3. wire'[conn].who = wire[conn].who
      BY <2>1
    <3>4. QED
      BY <3>1, <3>2, <3>3 DEF Known, Closed
  <2>6. QED
    BY <2>1, <2>3, <2>4, <2>5
<1>4. QED
  BY <1>1, <1>2, <1>3

\* The types, by their names.
LEMMA Types ==
  TypeOK <=> /\ key \in [Callers -> Keys] /\ pc \in [Callers -> Stages]
             /\ ref \in [Callers -> Callers \cup {None}] /\ sub \in [Callers -> Subs]
             /\ reg \in [Keys -> Callers \cup {None}] /\ at \in [Tasks -> Steps]
             /\ todo \in [Tasks -> SUBSET Callers] /\ sleeping \in BOOLEAN /\ conn \in 0..MaxConn
             /\ wire \in [Conns -> Sockets] /\ token \in Tokens /\ spawned \in Seq(Tokens)
             /\ faults \in 0..MaxFaults /\ removed \subseteq Callers
             /\ closing \in {"no", "begun", "done"} /\ slow \in BOOLEAN
BY DEF TypeOK, Stages, Steps, Subs

\* The next attempt has the number that follows.
LEMMA NextAttempt ==
  ASSUME Linked
  PROVE  Attempts \in 0..MaxConn /\ \A k \in Conns : wire[k].link # "none" <=> k <= Attempts
<1>1. PICK n \in 0..MaxConn : \A k \in Conns : wire[k].link # "none" <=> k <= n
  BY DEF Linked
<1>2. MaxConn \in Nat
  BY ConstantsOK
<1>3. {k \in Conns : wire[k].link # "none"} = 1..n
  BY <1>1, <1>2 DEF Conns
<1>4. Cardinality(1..n) = n
  BY <1>1, <1>2, 1 \in Int, n \in Int, FS_Interval
<1>5. Attempts = n
  BY <1>3, <1>4 DEF Attempts
<1>6. QED
  BY <1>1, <1>5

\* A settled acknowledgement only moves the tasks that awaited it.
LEMMA SettledIs ==
  ASSUME TypeOK
  PROVE  /\ AuthSettled \in [Tasks -> Steps]
         /\ \A t \in Tasks : AuthSettled[t] = IF at[t] = "auth" THEN "snap" ELSE at[t]
BY Types DEF AuthSettled, Steps

\* An object that is marked in flight keeps all else.
LEMMA MarkedIs ==
  ASSUME TypeOK, NEW o \in Callers
  PROVE  /\ Marked(o, conn) \in [Callers -> Subs]
         /\ \A x \in Callers : /\ Marked(o, conn)[x].cbs = sub[x].cbs
                               /\ Marked(o, conn)[x].pending = sub[x].pending
                               /\ Marked(o, conn)[x].acked = sub[x].acked
                               /\ x # o => Marked(o, conn)[x] = sub[x]
<1> DEFINE b == Up(conn) \/ (conn = 0 /\ sub[o].inflight)
<1>1. sub \in [Callers -> Subs]
  BY Types
<1>2. b \in BOOLEAN
  OBVIOUS
<1>3. Marked(o, conn) = [sub EXCEPT ![o].inflight = b]
  BY DEF Marked
<1> HIDE DEF b
<1>4. QED
  BY <1>1, <1>2, <1>3 DEF Subs

\* The rest of subscribe(): at most one frame, and the caller has an outcome or
\* waits; a new object is sent for if a socket is open.
LEMMA AfterConnectIs ==
  ASSUME TypeOK, NEW c \in Callers, NEW o \in Callers, NEW mine \in SUBSET Callers,
         AfterConnect(c, o, mine)
  PROVE  /\ pc' \in [Callers -> Stages] /\ pc'[c] \in {"failed", "live", "waiting"}
         /\ \A x \in Callers : x # c => pc'[x] = pc[x]
         /\ sub' \in [Callers -> Subs]
         /\ \A x \in Callers : sub'[x].acked = sub[x].acked /\ (x # o => sub'[x].inflight = sub[x].inflight)
         /\ <<"sub", key[c]>> \in Frames
         /\ wire' = wire \/ wire' = Sent(conn, <<"sub", key[c]>>)
         /\ ~Closed /\ ~sub[o].acked /\ ~sub[o].inflight /\ conn # 0 => wire' = Sent(conn, <<"sub", key[c]>>)
<1>1. pc \in [Callers -> Stages] /\ sub \in [Callers -> Subs] /\ key[c] \in Keys
  BY Types
<1>2. /\ pc' \in [Callers -> Stages] /\ pc'[c] \in {"failed", "live", "waiting"}
      /\ \A x \in Callers : x # c => pc'[x] = pc[x]
  <2>1. PICK p \in {"failed", "live", "waiting"} : pc' = [pc EXCEPT ![c] = p]
    BY DEF AfterConnect
  <2>2. QED
    BY <1>1, <2>1 DEF Stages
<1>3. <<"sub", key[c]>> \in Frames
  BY <1>1 DEF Frames
<1>4. wire' = wire \/ wire' = Sent(conn, <<"sub", key[c]>>)
  BY DEF AfterConnect
<1>5. ~Closed /\ ~sub[o].acked /\ ~sub[o].inflight /\ conn # 0 => wire' = Sent(conn, <<"sub", key[c]>>)
  BY DEF AfterConnect
<1>6. /\ sub' \in [Callers -> Subs]
      /\ \A x \in Callers : sub'[x].acked = sub[x].acked /\ (x # o => sub'[x].inflight = sub[x].inflight)
  <2>1. CASE sub' = sub
    BY <1>1, <2>1
  <2>2. CASE sub' = [sub EXCEPT ![o].cbs = @ \cup mine]
    BY <1>1, <2>2 DEF Subs
  <2>3. ASSUME NEW m \in [Callers -> Subs],
               \A x \in Callers : m[x].acked = sub[x].acked /\ (x # o => m[x].inflight = sub[x].inflight),
               sub' = [m EXCEPT ![o].cbs = @ \cup mine, ![o].pending = @ \cup {c}]
        PROVE  /\ sub' \in [Callers -> Subs]
               /\ \A x \in Callers : sub'[x].acked = sub[x].acked /\ (x # o => sub'[x].inflight = sub[x].inflight)
    <3> DEFINE more == m[o].cbs \cup mine
               waits == m[o].pending \cup {c}
               u == [m[o] EXCEPT !.cbs = more]
               v == [u EXCEPT !.pending = waits]
    <3>1. m[o] \in Subs /\ more \subseteq Callers /\ waits \subseteq Callers
      BY <2>3 DEF Subs
    <3>2. u \in Subs /\ u.acked = m[o].acked /\ u.inflight = m[o].inflight /\ u.pending = m[o].pending
      BY <3>1 DEF Subs
    <3> HIDE DEF u
    <3>3. v \in Subs /\ v.acked = m[o].acked /\ v.inflight = m[o].inflight
      BY <3>1, <3>2 DEF Subs
    <3>4. sub' = [[m EXCEPT ![o] = u] EXCEPT ![o].pending = waits]
      BY <2>3, <3>2 DEF u
    <3>5. sub' = [m EXCEPT ![o] = v]
      BY <2>3, <3>2, <3>4
    <3> HIDE DEF v
    <3>6. QED
      BY <2>3, <3>3, <3>5
  <2>4. CASE sub' = [sub EXCEPT ![o].cbs = @ \cup mine, ![o].pending = @ \cup {c}]
    BY <1>1, <2>3, <2>4
  <2>5. CASE sub' = [Marked(o, conn) EXCEPT ![o].cbs = @ \cup mine, ![o].pending = @ \cup {c}]
    <3>1. Marked(o, conn) \in [Callers -> Subs] /\ \A x \in Callers :
            Marked(o, conn)[x].acked = sub[x].acked /\ (x # o => Marked(o, conn)[x].inflight = sub[x].inflight)
      BY MarkedIs
    <3>2. QED
      BY <2>3, <2>5, <3>1
  <2>6. QED
    BY <2>1, <2>2, <2>4, <2>5 DEF AfterConnect
<1>7. QED
  BY <1>2, <1>3, <1>4, <1>5, <1>6

\* A key that will be served still will be after another frame, unless that ends its topic.
LEMMA SayServes ==
  ASSUME TypeOK, NEW f \in Frames, wire' = wire \/ wire' = Sent(conn, f), conn' = conn, NEW k \in Keys, Up(conn)
  PROVE  /\ WillServe(wire[conn].up, wire[conn].served, k) /\ f # <<"unsub", TopicOf[k]>>
              => WillServe(wire'[conn].up, wire'[conn].served, k)
         /\ wire' = Sent(conn, f) /\ f = <<"sub", k>> => WillServe(wire'[conn].up, wire'[conn].served, k)
<1>1. conn \in Conns /\ wire[conn].up \in Seq(Frames)
  BY SentIs DEF TypeOK, Sockets
<1>2. CASE wire' = Sent(conn, f)
  <2>1. wire'[conn].up = Append(wire[conn].up, f) /\ wire'[conn].served = wire[conn].served
    BY <1>1, <1>2, SentIs
  <2>2. QED
    BY <1>1, <2>1, OneMore
<1>3. CASE wire' = wire /\ wire' # Sent(conn, f)
  BY <1>3
<1>4. QED
  BY <1>2, <1>3

\* When it is up in a step that opens no socket, it was before.
LEMMA SayUp ==
  ASSUME TypeOK, NEW f \in Frames, wire' = wire \/ wire' = Sent(conn, f), conn' = conn
  PROVE  Up(conn)' <=> Up(conn)
<1>1. CASE conn = 0
  BY <1>1 DEF Up
<1>2. CASE conn # 0
  <2>1. conn \in Conns
    BY <1>2, ConstantsOK DEF TypeOK, Conns
  <2>2. wire'[conn].link = wire[conn].link
    BY <2>1, SentIs
  <2>3. QED
    BY <2>2 DEF Up
<1>3. QED
  BY <1>1, <1>2

\* A caller that subscribes sends for a new object, or opens the socket.
LEMMA SubscribeKeeps ==
  ASSUME ConnectionInv, NEW c \in Callers, Subscribe(c)
  PROVE  ConnectionInv' /\ (Served => Served')
<1> DEFINE o == IF reg[key[c]] = None THEN c ELSE reg[key[c]]
           f == <<"sub", key[c]>>
<1>0. TypeOK /\ Linked /\ Handed /\ Opening /\ Speaks /\ Known /\ Named
  BY DEF ConnectionInv, SocketInv
<1>1. /\ pc[c] = "idle" /\ ~Closed /\ reg' = [reg EXCEPT ![key[c]] = o]
      /\ UNCHANGED <<key, todo, sleeping, conn, token, spawned, faults, removed, closing, slow>>
  BY DEF Subscribe
<1>2. /\ key \in [Callers -> Keys] /\ pc \in [Callers -> Stages]
      /\ ref \in [Callers -> Callers \cup {None}] /\ sub \in [Callers -> Subs]
      /\ reg \in [Keys -> Callers \cup {None}] /\ at \in [Tasks -> Steps]
      /\ todo \in [Tasks -> SUBSET Callers]
  BY <1>0, Types
<1>3. o \in Callers /\ o # None /\ key[o] = key[c] /\ f \in Frames /\ f[1] # "auth"
      /\ (o = c \/ pc[o] # "idle")
  BY <1>0, <1>2, ConstantsOK DEF Named, Frames
<1>4. at[c] = "off" /\ \A t \in Tasks : c \notin todo[t]
  <2>1. c \in Tasks
    BY DEF Tasks
  <2>2. QED
    BY <1>0, <1>1, <1>2, <2>1 DEF Opening, Named
<1>5. /\ pc' \in [Callers -> Stages] /\ pc'[c] # "idle" /\ \A x \in Callers : x # c => pc'[x] = pc[x]
      /\ sub' \in [Callers -> Subs]
      /\ \A x \in Callers : sub'[x].acked = sub[x].acked /\ (x # o => sub'[x].inflight = sub[x].inflight)
      /\ wire' = wire \/ wire' = Sent(conn, f)
      /\ conn # 0 /\ o = c => wire' = Sent(conn, f)
  <2>1. CASE Deferred
    <3>1. AfterConnect(c, o, {c})
      BY <2>1 DEF Subscribe
    <3>2. o = c => ~sub[o].acked /\ ~sub[o].inflight
      BY <1>0, <1>1 DEF Named
    <3> HIDE DEF o
    <3>3. QED
      BY <1>0, <1>1, <1>3, <3>1, <3>2, AfterConnectIs
  <2>2. CASE ~Deferred
    <3>1. conn = 0 /\ wire' = wire /\ pc' = [pc EXCEPT ![c] = "subscribing"]
          /\ sub' = [sub EXCEPT ![o].cbs = @ \cup {c}]
      BY <2>2 DEF Subscribe, Deferred
    <3>2. "subscribing" \in Stages
      BY DEF Stages
    <3> HIDE DEF o
    <3>3. /\ sub' \in [Callers -> Subs]
          /\ \A x \in Callers : sub'[x].acked = sub[x].acked /\ (x # o => sub'[x].inflight = sub[x].inflight)
      <4> DEFINE v == [sub[o] EXCEPT !.cbs = sub[o].cbs \cup {c}]
      <4>1. sub[o] \in Subs
        BY <1>2, <1>3
      <4>2. v \in Subs /\ v.acked = sub[o].acked
        BY <4>1 DEF Subs
      <4>3. sub' = [sub EXCEPT ![o] = v]
        BY <3>1
      <4> HIDE DEF v
      <4>4. QED
        BY <1>2, <1>3, <4>2, <4>3
    <3>4. QED
      BY <1>2, <3>1, <3>2, <3>3
  <2>3. QED
    BY <2>1, <2>2
<1>6. \/ ref' = ref /\ at' = at
      \/ /\ conn = 0 /\ ~sleeping /\ \A t \in Tasks : at[t] # "connector"
         /\ ref' = [ref EXCEPT ![c] = o] /\ at' = [at EXCEPT ![c] = "connector"] /\ pc'[c] = "subscribing"
  <2>1. CASE Deferred
    BY <2>1 DEF Subscribe
  <2>2. CASE ~Deferred
    BY <1>2, <2>2 DEF Subscribe, Deferred, Connecting
  <2>3. QED
    BY <2>1, <2>2
<1>7. reg'[key[c]] = o /\ \A k \in Keys : k # key[c] => reg'[k] = reg[k]
  BY <1>1, <1>2
<1>8. /\ ref[c] = None \/ ref[c] \in Callers
      /\ reg[key[c]] = None => o = c
      /\ reg[key[c]] # None => reg'[key[c]] = reg[key[c]]
  BY <1>2, <1>7
<1> HIDE DEF o, f
<1>9. wire' \in [Conns -> Sockets] /\ Linked' /\ Speaks' /\ Known'
  BY <1>0, <1>1, <1>3, <1>5, SayKeeps
<1>10. TypeOK'
  <2>1. ref' \in [Callers -> Callers \cup {None}] /\ at' \in [Tasks -> Steps]
    BY <1>2, <1>3, <1>6 DEF Steps
  <2>2. reg' \in [Keys -> Callers \cup {None}]
    BY <1>1, <1>2, <1>3
  <2>3. QED
    BY <1>0, <1>1, <1>5, <1>9, <2>1, <2>2 DEF TypeOK, Stages, Steps, Subs
<1>11. Handed'
  <2>1. CASE at' = at
    BY <1>0, <1>1, <2>1 DEF Handed
  <2>2. CASE conn = 0 /\ ~sleeping /\ (\A t \in Tasks : at[t] # "connector") /\ at' = [at EXCEPT ![c] = "connector"]
    <3>1. \A t \in Tasks : (t = c /\ at'[t] = "connector") \/ (t # c /\ at'[t] = at[t])
      BY <1>2, <2>2 DEF Tasks
    <3>2. QED
      BY <1>0, <1>1, <2>2, <3>1 DEF Handed
  <2>3. QED
    BY <1>6, <2>1, <2>2
<1>12. Opening'
  <2>1. c \in Tasks /\ Callers \subseteq Tasks
    BY DEF Tasks
  <2>2. QED
    BY <1>0, <1>2, <1>3, <1>4, <1>5, <1>6, <2>1 DEF Opening
<1>13. \A x \in Callers : pc[x] # "idle" \/ x = c => pc'[x] # "idle"
  BY <1>5
<1>14. Named'
  <2>1. \A k \in Keys : reg'[k] # None => key'[reg'[k]] = k /\ pc'[reg'[k]] # "idle"
    BY <1>0, <1>1, <1>2, <1>3, <1>7, <1>13 DEF Named
  <2>2. \A t \in Tasks : \A x \in todo'[t] : pc'[x] # "idle"
    BY <1>0, <1>1, <1>2, <1>13 DEF Named
  <2>3. \A x \in Callers : ref'[x] # None => pc'[ref'[x]] # "idle"
    BY <1>0, <1>2, <1>3, <1>6, <1>13 DEF Named
  <2>4. \A x \in Callers : pc'[x] = "idle" => ~sub'[x].acked /\ ~sub'[x].inflight
    <3>1. SUFFICES ASSUME NEW x \in Callers, pc'[x] = "idle" PROVE ~sub'[x].acked /\ ~sub'[x].inflight
      OBVIOUS
    <3>2. x # c /\ pc[x] = "idle" /\ x # o
      BY <1>3, <1>5, <1>13, <3>1
    <3>3. QED
      BY <1>0, <1>5, <3>2 DEF Named
  <2>5. \A x \in Callers : sub'[x].acked => TopicOf[key'[x]] \notin Rejected
    BY <1>0, <1>1, <1>5 DEF Named
  <2>6. QED
    BY <2>1, <2>2, <2>3, <2>4, <2>5 DEF Named
<1>15. ASSUME Served PROVE Served'
  <2>1. Up(conn)' <=> Up(conn)
    BY <1>0, <1>1, <1>3, <1>5, SayUp
  <2>2. SUFFICES ASSUME Up(conn), NEW k \in Keys, reg'[k] # None, TopicOf[k] \notin Rejected
        PROVE  \/ WillServe(wire'[conn].up, wire'[conn].served, k)
               \/ \E t \in Tasks : at'[t] \in {"auth", "snap"} \/ (at'[t] = "resub" /\ reg'[k] \in todo'[t])
    BY <1>1, <2>1 DEF Served, Closed
  <2>3. conn # 0 /\ at' = at
    BY <1>6, <2>2 DEF Up
  <2>4. f # <<"unsub", TopicOf[k]>>
    BY DEF f
  <2>5. CASE k = key[c] /\ o = c
    <3>1. wire' = Sent(conn, f) /\ f = <<"sub", k>>
      BY <1>5, <2>3, <2>5 DEF f
    <3>2. QED
      BY <1>0, <1>1, <1>3, <2>2, <3>1, SayServes
  <2>6. CASE k # key[c] \/ o # c
    <3>1. reg'[k] = reg[k]
      BY <1>7, <1>8, <2>6
    <3>2. \/ WillServe(wire[conn].up, wire[conn].served, k)
          \/ \E t \in Tasks : at[t] \in {"auth", "snap"} \/ (at[t] = "resub" /\ reg[k] \in todo[t])
      BY <1>1, <1>15, <2>2, <3>1 DEF Served
    <3>3. CASE WillServe(wire[conn].up, wire[conn].served, k)
      BY <1>0, <1>1, <1>3, <1>5, <2>2, <2>4, <3>3, SayServes
    <3>4. CASE \E t \in Tasks : at[t] \in {"auth", "snap"} \/ (at[t] = "resub" /\ reg[k] \in todo[t])
      BY <1>1, <2>3, <3>1, <3>4
    <3>5. QED
      BY <3>2, <3>3, <3>4
  <2>7. QED
    BY <2>5, <2>6
<1>16. QED
  BY <1>9, <1>10, <1>11, <1>12, <1>14, <1>15 DEF ConnectionInv, SocketInv

\* A new socket speaks first to say who it is for, and its task resubscribes.
LEMMA ConnectorOkKeeps ==
  ASSUME ConnectionInv, NEW t \in Tasks, ConnectorOk(t)
  PROVE  ConnectionInv' /\ (Served => Served')
<1> DEFINE k == Attempts + 1
<1>0. TypeOK /\ Linked /\ Handed /\ Opening /\ Speaks /\ Known /\ Named
  BY DEF ConnectionInv, SocketInv
<1>1. /\ at[t] = "connector" /\ Attempts < MaxConn /\ spawned = <<>>
      /\ UNCHANGED <<key, pc, ref, sub, reg, sleeping, token, spawned, faults, removed, closing, slow>>
  BY DEF ConnectorOk
<1>2. at \in [Tasks -> Steps] /\ todo \in [Tasks -> SUBSET Callers] /\ wire \in [Conns -> Sockets]
      /\ token \in Tokens /\ conn \in 0..MaxConn /\ pc \in [Callers -> Stages]
  BY <1>0, Types
<1>3. conn = 0 /\ ~sleeping /\ \A u \in Tasks : u # t => at[u] # "connector"
  BY <1>0, <1>1 DEF Handed
<1>4. CASE Closed
  <2>1. at' = [at EXCEPT ![t] = "back"] /\ UNCHANGED <<todo, conn, wire>>
    BY <1>4 DEF ConnectorOk, TooLate
  <2>2. at' \in [Tasks -> Steps]
    BY <1>2, <2>1 DEF Steps
  <2>3. TypeOK'
    BY <1>0, <1>1, <2>1, <2>2, Types DEF TypeOK, Steps
  <2>4. Linked' /\ Speaks'
    BY <1>0, <2>1 DEF Linked, Speaks
  <2>5. Handed'
    BY <1>0, <1>1, <1>2, <2>1 DEF Handed
  <2>6. Opening'
    BY <1>0, <1>1, <1>2, <2>1 DEF Opening, Tasks
  <2>7. Known' /\ Served'
    BY <1>1, <1>4 DEF Known, Served, Closed
  <2>8. Named'
    BY <1>0, <1>1, <2>1 DEF Named
  <2>9. QED
    BY <2>3, <2>4, <2>5, <2>6, <2>7, <2>8 DEF ConnectionInv, SocketInv
<1>5. CASE ~Closed
  <2>1. /\ conn' = k
        /\ at' = [at EXCEPT ![t] = IF token # 0 THEN "auth" ELSE "resub"]
        /\ todo' = [todo EXCEPT ![t] = IF token # 0 THEN {} ELSE Registered]
    BY <1>5 DEF ConnectorOk, TooLate
  <2>2. Attempts \in 0..MaxConn /\ \A m \in Conns : wire[m].link # "none" <=> m <= Attempts
    BY <1>0, NextAttempt
  <2>3. k \in Conns /\ k # 0 /\ k \in 0..MaxConn /\ wire[k] = Socket("none")
        /\ \A m \in Conns : m <= k <=> m = k \/ m <= Attempts
    <3>1. MaxConn \in Nat
      BY ConstantsOK
    <3>2. k \in Conns /\ k # 0 /\ k \in 0..MaxConn /\ \A m \in Conns : m <= k <=> m = k \/ m <= Attempts
      BY <1>1, <2>2, <3>1 DEF Conns
    <3>3. ~(k <= Attempts)
      BY <2>2, <3>1
    <3>4. wire[k].link = "none"
      BY <2>2, <3>2, <3>3
    <3>5. QED
      BY <1>0, <3>2, <3>4 DEF Linked
  <2> DEFINE s == [link |-> "up", up |-> FirstFrames, who |-> Unset, first |-> token, served |-> {}]
  <2>4. s \in Sockets
    <3>1. FirstFrames \in Seq(Frames)
      <4>1. CASE token = 0
        BY <4>1 DEF FirstFrames
      <4>2. CASE token # 0
        <5>1. <<"auth", token>> \in Frames
          BY <1>2 DEF Frames
        <5>2. QED
          BY <4>2, <5>1 DEF FirstFrames
      <4>3. QED
        BY <4>1, <4>2
    <3>2. QED
      BY <1>2, <3>1 DEF Sockets
  <2>5. wire' = [wire EXCEPT ![k] = s]
    BY <1>5 DEF ConnectorOk, TooLate
  <2>6. /\ s.link = "up" /\ s.up = FirstFrames /\ s.who = Unset /\ s.first = token /\ s.served = {}
        /\ token # 0 => FirstFrames = <<<<"auth", token>>>>
        /\ token = 0 => FirstFrames = <<>>
    BY DEF FirstFrames
  <2> HIDE DEF s, k
  <2>7. wire' \in [Conns -> Sockets] /\ wire'[k] = s /\ \A m \in Conns : m # k => wire'[m] = wire[m]
    BY <1>2, <2>3, <2>4, <2>5
  <2>8. at' \in [Tasks -> Steps] /\ todo' \in [Tasks -> SUBSET Callers]
    BY <1>2, <2>1 DEF Steps, Registered
  <2>9. TypeOK'
    BY <1>0, <1>1, <2>1, <2>3, <2>7, <2>8, Types DEF TypeOK, Steps
  <2>10. Linked'
    <3>1. \A m \in Conns : wire[m].link \in {"up", "down"} => m = 0
      BY <1>0, <1>3 DEF Linked
    <3>2. \A m \in Conns : m # 0
      BY ConstantsOK DEF Conns
    <3>3. \A m \in Conns : wire'[m].link # "none" <=> m <= k
      BY <2>2, <2>3, <2>6, <2>7
    <3>4. \A m \in Conns : wire'[m].link = "none" => wire'[m] = Socket("none")
      BY <1>0, <2>6, <2>7 DEF Linked
    <3>5. \A m \in Conns : wire'[m].link \in {"up", "down"} => m = conn'
      BY <2>1, <2>7, <3>1, <3>2
    <3>6. wire'[conn'].link \in {"up", "down"}
      BY <2>1, <2>6, <2>7
    <3>7. QED
      BY <2>3, <3>3, <3>4, <3>5, <3>6 DEF Linked
  <2>11. Handed'
    BY <1>0, <1>1, <1>2, <1>3, <2>1, <2>3 DEF Handed
  <2>12. Opening'
    BY <1>0, <1>1, <1>2, <2>1 DEF Opening, Tasks
  <2>13. Speaks'
    <3>1. token # 0 => s.up # <<>> /\ s.up[1][1] = "auth"
      <4>1. <<<<"auth", token>>>> # <<>> /\ <<<<"auth", token>>>>[1] = <<"auth", token>> /\ <<"auth", token>>[1] = "auth"
        OBVIOUS
      <4>2. QED
        BY <2>6, <4>1
    <3>2. QED
      BY <1>0, <2>6, <2>7, <3>1 DEF Speaks
  <2>14. Known'
    <3>1. CASE token = 0
      <4>1. WillKnow(<<>>, Unset, 0)
        BY DEF WillKnow
      <4>2. QED
        BY <1>1, <2>1, <2>6, <2>7, <3>1, <4>1 DEF Known
    <3>2. CASE token # 0
      <4>1. WillKnow(<<<<"auth", token>>>>, Unset, token)
        BY DEF WillKnow
      <4>2. QED
        BY <1>1, <2>1, <2>6, <2>7, <3>2, <4>1 DEF Known
    <3>3. QED
      BY <3>1, <3>2
  <2>15. Named'
    <3>1. \A o \in Registered : pc[o] # "idle"
      BY <1>0, ConstantsOK DEF Named, Registered
    <3>2. \A u \in Tasks : \A o \in todo'[u] : pc[o] # "idle"
      BY <1>0, <1>2, <2>1, <3>1 DEF Named
    <3>3. QED
      BY <1>0, <1>1, <3>2 DEF Named
  <2>16. Served'
    <3>1. at'[t] = "auth" \/ (at'[t] = "resub" /\ todo'[t] = Registered)
      BY <1>2, <2>1
    <3>2. \A x \in Keys : reg'[x] # None => reg'[x] \in Registered
      BY <1>0, <1>1, Types DEF Registered
    <3>3. QED
      BY <3>1, <3>2 DEF Served
  <2>17. QED
    BY <2>9, <2>10, <2>11, <2>12, <2>13, <2>14, <2>15, <2>16 DEF ConnectionInv, SocketInv
<1>6. QED
  BY <1>4, <1>5

\* A failed attempt uses up its number.
LEMMA ConnectorFailsKeeps ==
  ASSUME ConnectionInv, NEW t \in Tasks, ConnectorFails(t)
  PROVE  ConnectionInv' /\ (Served => Served')
<1> DEFINE k == Attempts + 1
<1>0. TypeOK /\ Linked /\ Handed /\ Opening /\ Speaks /\ Known /\ Named
  BY DEF ConnectionInv, SocketInv
<1>1. /\ at[t] = "connector" /\ k < MaxConn /\ faults < MaxFaults /\ faults' = faults + 1
      /\ wire' = [wire EXCEPT ![k].link = "done"] /\ sleeping' = WillReconnect
      /\ at' = [at EXCEPT ![t] = "back"]
      /\ UNCHANGED <<key, pc, ref, sub, reg, todo, conn, token, spawned, removed, closing, slow>>
  BY DEF ConnectorFails, Disturbance
<1>2. at \in [Tasks -> Steps] /\ wire \in [Conns -> Sockets] /\ faults \in 0..MaxFaults /\ MaxFaults \in Nat
  BY <1>0, Types, ConstantsOK
<1>3. conn = 0 /\ ~sleeping /\ \A u \in Tasks : u # t => at[u] # "connector"
  BY <1>0, <1>1 DEF Handed
<1>4. Attempts \in 0..MaxConn /\ MaxConn \in Nat /\ \A m \in Conns : wire[m].link # "none" <=> m <= Attempts
  BY <1>0, NextAttempt, ConstantsOK
<1>5. k \in Conns /\ k \in 0..MaxConn /\ \A m \in Conns : m <= k <=> m = k \/ m <= Attempts
  BY <1>1, <1>4 DEF Conns
<1>6. \A m \in Conns : wire[m].link \notin {"up", "down"}
  BY <1>0, <1>3, <1>4 DEF Linked, Conns
<1> HIDE DEF k
<1>7. /\ wire' \in [Conns -> Sockets] /\ wire'[k].link = "done"
      /\ \A m \in Conns : m # k => wire'[m] = wire[m]
  <2> DEFINE s == [wire[k] EXCEPT !.link = "done"]
  <2>1. s \in Sockets /\ s.link = "done"
    BY <1>2, <1>5 DEF Sockets
  <2>2. wire' = [wire EXCEPT ![k] = s]
    BY <1>1
  <2> HIDE DEF s
  <2>3. QED
    BY <1>2, <1>5, <2>1, <2>2
<1>8. TypeOK'
  <2>1. at' \in [Tasks -> Steps]
    BY <1>1, <1>2 DEF Steps
  <2>2. faults' \in 0..MaxFaults
    BY <1>1, <1>2
  <2>3. sleeping' \in BOOLEAN
    BY <1>1, <1>3 DEF WillReconnect
  <2>4. QED
    BY <1>0, <1>1, <1>7, <2>1, <2>2, <2>3 DEF TypeOK, Steps
<1>9. Linked'
  <2>1. \A m \in Conns : wire'[m].link # "none" <=> m <= k
    BY <1>4, <1>5, <1>7
  <2>2. \A m \in Conns : wire'[m].link = "none" => wire'[m] = Socket("none")
    BY <1>0, <1>7 DEF Linked
  <2>3. \A m \in Conns : wire'[m].link \notin {"up", "down"}
    BY <1>6, <1>7
  <2>4. QED
    BY <1>1, <1>3, <1>5, <2>1, <2>2, <2>3 DEF Linked
<1>10. Handed'
  BY <1>0, <1>1, <1>2, <1>3 DEF Handed
<1>11. Opening'
  BY <1>0, <1>1, <1>2 DEF Opening, Tasks
<1>12. Speaks'
  BY <1>6, <1>7 DEF Speaks
<1>13. Known' /\ Served'
  BY <1>1, <1>3 DEF Known, Served, Up
<1>14. Named'
  BY <1>0, <1>1 DEF Named
<1>15. QED
  BY <1>8, <1>9, <1>10, <1>11, <1>12, <1>13, <1>14 DEF ConnectionInv, SocketInv

\* The snapshot is of all that is registered.
LEMMA ResubscribeStartKeeps ==
  ASSUME ConnectionInv, NEW t \in Tasks, ResubscribeStart(t)
  PROVE  ConnectionInv' /\ (Served => Served')
<1>0. TypeOK /\ Linked /\ Handed /\ Opening /\ Speaks /\ Known /\ Named
  BY DEF ConnectionInv, SocketInv
<1>1. /\ at[t] = "snap"
      /\ at' = [at EXCEPT ![t] = IF conn = 0 THEN "back" ELSE "resub"]
      /\ todo' = [todo EXCEPT ![t] = IF conn = 0 THEN {} ELSE Registered]
      /\ UNCHANGED <<key, pc, ref, sub, reg, sleeping, conn, wire, token, spawned, faults, removed, closing, slow>>
  BY DEF ResubscribeStart
<1>2. at \in [Tasks -> Steps] /\ todo \in [Tasks -> SUBSET Callers] /\ reg \in [Keys -> Callers \cup {None}]
  BY <1>0, Types
<1>3. at' \in [Tasks -> Steps] /\ todo' \in [Tasks -> SUBSET Callers]
  BY <1>1, <1>2 DEF Steps, Registered
<1>4. TypeOK'
  BY <1>0, <1>1, <1>3 DEF TypeOK, Steps
<1>5. Linked' /\ Speaks' /\ Known'
  BY <1>0, <1>1 DEF Linked, Speaks, Known, Up, Closed
<1>6. Handed'
  BY <1>0, <1>1, <1>2 DEF Handed
<1>7. Opening'
  BY <1>0, <1>1, <1>2 DEF Opening, Tasks
<1>8. Named'
  <2>1. \A o \in Registered : pc[o] # "idle"
    BY <1>0, ConstantsOK DEF Named, Registered
  <2>2. \A u \in Tasks : \A o \in todo'[u] : pc[o] # "idle"
    BY <1>0, <1>1, <1>2, <2>1 DEF Named
  <2>3. QED
    BY <1>0, <1>1, <2>2 DEF Named
<1>9. Served'
  <2>1. conn # 0 => at'[t] = "resub" /\ todo'[t] = Registered
    BY <1>1, <1>2
  <2>2. \A x \in Keys : reg[x] # None => reg[x] \in Registered
    BY <1>2 DEF Registered
  <2>3. QED
    BY <1>1, <2>1, <2>2 DEF Served, Up
<1>10. QED
  BY <1>4, <1>5, <1>6, <1>7, <1>8, <1>9 DEF ConnectionInv, SocketInv

\* An object leaves the snapshot with its frame.
LEMMA ResubscribeNextKeeps ==
  ASSUME ConnectionInv, NEW t \in Tasks, ResubscribeNext(t)
  PROVE  ConnectionInv' /\ (Served => Served')
<1>0. TypeOK /\ Linked /\ Handed /\ Opening /\ Speaks /\ Known /\ Named
  BY DEF ConnectionInv, SocketInv
<1>1. /\ at[t] = "resub"
      /\ UNCHANGED <<key, pc, ref, reg, sleeping, conn, token, spawned, faults, removed, closing, slow>>
  BY DEF ResubscribeNext
<1>2. /\ at \in [Tasks -> Steps] /\ todo \in [Tasks -> SUBSET Callers]
      /\ reg \in [Keys -> Callers \cup {None}] /\ key \in [Callers -> Keys]
  BY <1>0, Types
<1>3. CASE todo[t] = {} /\ at' = [at EXCEPT ![t] = "back"] /\ UNCHANGED <<sub, wire, todo>>
  <2>1. TypeOK'
    BY <1>0, <1>1, <1>2, <1>3 DEF TypeOK, Steps
  <2>2. Linked' /\ Speaks' /\ Known'
    BY <1>0, <1>1, <1>3 DEF Linked, Speaks, Known, Up, Closed
  <2>3. Handed'
    BY <1>0, <1>1, <1>2, <1>3 DEF Handed
  <2>4. Opening'
    BY <1>0, <1>1, <1>2, <1>3 DEF Opening, Tasks
  <2>5. Named'
    BY <1>0, <1>1, <1>3 DEF Named
  <2>6. ASSUME Served PROVE Served'
    <3>1. \A k \in Keys :
            (\E u \in Tasks : at[u] \in {"auth", "snap"} \/ (at[u] = "resub" /\ reg[k] \in todo[u]))
            => \E u \in Tasks : at'[u] \in {"auth", "snap"} \/ (at'[u] = "resub" /\ reg'[k] \in todo'[u])
      BY <1>1, <1>2, <1>3
    <3>2. QED
      BY <1>1, <1>3, <2>6, <3>1 DEF Served, Up, Closed
  <2>7. QED
    BY <2>1, <2>2, <2>3, <2>4, <2>5, <2>6 DEF ConnectionInv, SocketInv
<1>4. ASSUME NEW o \in todo[t], todo' = [todo EXCEPT ![t] = @ \ {o}],
             sub' = [Marked(o, conn) EXCEPT ![o].acked = FALSE],
             wire' = Sent(conn, <<"sub", key[o]>>), at' = at
      PROVE  ConnectionInv' /\ (Served => Served')
  <2> DEFINE f == <<"sub", key[o]>>
  <2>1. o \in Callers /\ f \in Frames /\ f[1] # "auth" /\ wire' = Sent(conn, f) /\ pc[o] # "idle"
    BY <1>0, <1>2, <1>4 DEF Frames, Named
  <2>2. /\ sub' \in [Callers -> Subs]
        /\ \A x \in Callers : x # o => sub'[x] = sub[x]
        /\ ~sub'[o].acked
    <3> DEFINE m == Marked(o, conn)
               v == [m[o] EXCEPT !.acked = FALSE]
    <3>1. m \in [Callers -> Subs] /\ \A x \in Callers : x # o => m[x] = sub[x]
      BY <1>0, <2>1, MarkedIs
    <3>2. sub' = [m EXCEPT ![o] = v]
      BY <1>4
    <3> HIDE DEF m
    <3>3. v \in Subs /\ ~v.acked
      <4>1. m[o] \in Subs
        BY <2>1, <3>1
      <4>2. v \in Subs
        BY <4>1 DEF Subs
      <4>3. v.acked = FALSE
        BY <4>1 DEF Subs
      <4>4. QED
        BY <4>2, <4>3
    <3> HIDE DEF v
    <3>4. QED
      BY <2>1, <3>1, <3>2, <3>3
  <2>3. todo' \in [Tasks -> SUBSET Callers] /\ \A u \in Tasks : todo'[u] \subseteq todo[u]
    BY <1>2, <1>4
  <2> HIDE DEF f
  <2>4. wire' \in [Conns -> Sockets] /\ Linked' /\ Speaks' /\ Known'
    BY <1>0, <1>1, <2>1, SayKeeps
  <2>5. TypeOK'
    BY <1>0, <1>1, <1>4, <2>2, <2>3, <2>4 DEF TypeOK, Subs
  <2>6. Handed' /\ Opening'
    BY <1>0, <1>1, <1>4 DEF Handed, Opening
  <2>7. Named'
    <3>1. \A u \in Tasks : \A x \in todo'[u] : pc[x] # "idle"
      BY <1>0, <2>3 DEF Named
    <3>2. \A c \in Callers : pc[c] = "idle" => ~sub'[c].acked /\ ~sub'[c].inflight
      BY <1>0, <2>1, <2>2 DEF Named
    <3>3. \A c \in Callers : sub'[c].acked => TopicOf[key[c]] \notin Rejected
      BY <1>0, <2>2 DEF Named
    <3>4. QED
      BY <1>0, <1>1, <3>1, <3>2, <3>3 DEF Named
  <2>8. ASSUME Served PROVE Served'
    <3>1. Up(conn)' <=> Up(conn)
      BY <1>0, <1>1, <2>1, SayUp
    <3>2. SUFFICES ASSUME Up(conn), ~Closed, NEW k \in Keys, reg[k] # None, TopicOf[k] \notin Rejected
          PROVE  \/ WillServe(wire'[conn].up, wire'[conn].served, k)
                 \/ \E u \in Tasks : at[u] \in {"auth", "snap"} \/ (at[u] = "resub" /\ reg[k] \in todo'[u])
      BY <1>1, <1>4, <3>1 DEF Served, Closed
    <3>3. f # <<"unsub", TopicOf[k]>>
      BY DEF f
    <3>4. CASE reg[k] = o
      <4>1. f = <<"sub", k>>
        BY <1>0, <3>2, <3>4 DEF f, Named
      <4>2. QED
        BY <1>0, <1>1, <2>1, <3>2, <4>1, SayServes
    <3>5. CASE WillServe(wire[conn].up, wire[conn].served, k)
      BY <1>0, <1>1, <2>1, <3>2, <3>3, <3>5, SayServes
    <3>6. CASE \E u \in Tasks : at[u] \in {"auth", "snap"} \/ (at[u] = "resub" /\ reg[k] \in todo[u] /\ reg[k] # o)
      BY <1>2, <1>4, <3>6
    <3>7. QED
      BY <2>8, <3>2, <3>4, <3>5, <3>6 DEF Served
  <2>9. QED
    BY <2>4, <2>5, <2>6, <2>7, <2>8 DEF ConnectionInv, SocketInv
<1>5. QED
  BY <1>3, <1>4 DEF ResubscribeNext

\* The caller goes on with the object it connected for.
LEMMA ConnectReturnsKeeps ==
  ASSUME ConnectionInv, NEW c \in Callers, ConnectReturns(c)
  PROVE  ConnectionInv' /\ (Served => Served')
<1> DEFINE f == <<"sub", key[c]>>
           o == ref[c]
<1>0. TypeOK /\ Linked /\ Handed /\ Opening /\ Speaks /\ Known /\ Named
  BY DEF ConnectionInv, SocketInv
<1>1. /\ at[c] = "back" /\ at' = [at EXCEPT ![c] = "off"] /\ AfterConnect(c, o, {})
      /\ ref' = [ref EXCEPT ![c] = None]
      /\ UNCHANGED <<key, reg, todo, sleeping, conn, token, spawned, faults, removed, closing, slow>>
  BY DEF ConnectReturns
<1>2. at \in [Tasks -> Steps] /\ ref \in [Callers -> Callers \cup {None}] /\ c \in Tasks /\ Callers \subseteq Tasks
  BY <1>0, Types DEF Tasks
<1>3. o \in Callers /\ pc[o] # "idle" /\ pc[c] = "subscribing"
  BY <1>0, <1>1, <1>2 DEF Opening, Named
<1> HIDE DEF o
<1>4. /\ pc' \in [Callers -> Stages] /\ pc'[c] # "idle" /\ \A x \in Callers : x # c => pc'[x] = pc[x]
      /\ sub' \in [Callers -> Subs]
      /\ \A x \in Callers : sub'[x].acked = sub[x].acked /\ (x # o => sub'[x].inflight = sub[x].inflight)
      /\ f \in Frames /\ f[1] # "auth" /\ (wire' = wire \/ wire' = Sent(conn, f))
  BY <1>0, <1>1, <1>3, AfterConnectIs
<1>5. wire' \in [Conns -> Sockets] /\ Linked' /\ Speaks' /\ Known'
  BY <1>0, <1>1, <1>4, SayKeeps
<1>6. /\ at' \in [Tasks -> Steps] /\ ref' \in [Callers -> Callers \cup {None}]
      /\ at'[c] = "off" /\ \A u \in Tasks : u # c => at'[u] = at[u]
      /\ \A x \in Callers : x # c => ref'[x] = ref[x]
      /\ ref'[c] = None
  BY <1>1, <1>2 DEF Steps
<1>7. TypeOK'
  BY <1>0, <1>1, <1>4, <1>5, <1>6 DEF TypeOK, Stages, Steps, Subs
<1>8. Handed'
  BY <1>0, <1>1, <1>6 DEF Handed
<1>9. Opening'
  BY <1>0, <1>2, <1>4, <1>6 DEF Opening
<1>10. \A x \in Callers : pc[x] # "idle" => pc'[x] # "idle"
  BY <1>4
<1>11. Named'
  <2>1. reg \in [Keys -> Callers \cup {None}] /\ todo \in [Tasks -> SUBSET Callers]
    BY <1>0, Types
  <2>2. \A k \in Keys : reg[k] # None => key[reg[k]] = k /\ pc'[reg[k]] # "idle"
    BY <1>0, <1>10, <2>1 DEF Named
  <2>3. \A u \in Tasks : \A x \in todo[u] : pc'[x] # "idle"
    BY <1>0, <1>10, <2>1 DEF Named
  <2>4. \A x \in Callers : ref'[x] # None => pc'[ref'[x]] # "idle"
    <3>1. \A x \in Callers : ref[x] # None => ref[x] \in Callers /\ pc[ref[x]] # "idle"
      BY <1>0, <1>2 DEF Named
    <3>2. ASSUME NEW x \in Callers, ref'[x] # None PROVE ref'[x] = ref[x]
      <4>1. x # c
        BY <1>6, <3>2
      <4>2. QED
        BY <1>6, <4>1
    <3>3. QED
      BY <1>10, <3>1, <3>2
  <2>5. \A x \in Callers : pc'[x] = "idle" => ~sub'[x].acked /\ ~sub'[x].inflight
    BY <1>0, <1>3, <1>4, <1>10 DEF Named
  <2>6. \A x \in Callers : sub'[x].acked => TopicOf[key[x]] \notin Rejected
    BY <1>0, <1>4 DEF Named
  <2>7. QED
    BY <1>1, <2>2, <2>3, <2>4, <2>5, <2>6 DEF Named
<1>12. ASSUME Served PROVE Served'
  <2>1. Up(conn)' <=> Up(conn)
    BY <1>0, <1>1, <1>4, SayUp
  <2>2. SUFFICES ASSUME Up(conn), ~Closed, NEW k \in Keys, reg[k] # None, TopicOf[k] \notin Rejected
        PROVE  \/ WillServe(wire'[conn].up, wire'[conn].served, k)
               \/ \E u \in Tasks : at'[u] \in {"auth", "snap"} \/ (at'[u] = "resub" /\ reg[k] \in todo[u])
    BY <1>1, <2>1 DEF Served, Closed
  <2>3. f # <<"unsub", TopicOf[k]>>
    OBVIOUS
  <2>4. CASE WillServe(wire[conn].up, wire[conn].served, k)
    BY <1>0, <1>1, <1>4, <2>2, <2>3, <2>4, SayServes
  <2>5. CASE \E u \in Tasks : at[u] \in {"auth", "snap"} \/ (at[u] = "resub" /\ reg[k] \in todo[u])
    BY <1>1, <1>6, <2>5
  <2>6. QED
    BY <1>12, <2>2, <2>4, <2>5 DEF Served
<1>13. QED
  BY <1>5, <1>7, <1>8, <1>9, <1>11, <1>12 DEF ConnectionInv, SocketInv

\* The reconnect task comes back, or begins after its backoff.
LEMMA ReconnectKeeps ==
  ASSUME ConnectionInv, ReconnectReturns \/ ReconnectWakes
  PROVE  ConnectionInv' /\ (Served => Served')
<1>0. TypeOK /\ Linked /\ Handed /\ Opening /\ Speaks /\ Known /\ Named
  BY DEF ConnectionInv, SocketInv
<1>1. UNCHANGED <<key, pc, ref, sub, reg, todo, conn, wire, token, spawned, faults, removed, closing, slow>>
  BY DEF ReconnectReturns, ReconnectWakes
<1>2. at \in [Tasks -> Steps] /\ Reconnector \in Tasks /\ Reconnector \notin Callers /\ Callers \subseteq Tasks
  BY <1>0, Types, ConstantsOK DEF Tasks
<1>3. Linked' /\ Speaks' /\ Known' /\ Named'
  BY <1>0, <1>1 DEF Linked, Speaks, Known, Up, Closed, Named
<1>4. /\ at' \in [Tasks -> Steps] /\ \A u \in Tasks : u # Reconnector => at'[u] = at[u]
      /\ sleeping' \in BOOLEAN
  BY <1>0, <1>2 DEF ReconnectReturns, ReconnectWakes, Steps, TypeOK
<1>5. TypeOK'
  BY <1>0, <1>1, <1>4 DEF TypeOK, Steps
<1>6. Opening'
  BY <1>0, <1>1, <1>2, <1>4 DEF Opening
<1>7. CASE ReconnectReturns
  <2>1. at[Reconnector] = "back" /\ at'[Reconnector] = "off" /\ sleeping' = sleeping
    BY <1>2, <1>7 DEF ReconnectReturns
  <2>2. Handed'
    BY <1>0, <1>1, <1>4, <2>1 DEF Handed
  <2>3. ASSUME Served PROVE Served'
    <3>1. \A u \in Tasks : \A o : at[u] \in {"auth", "snap"} \/ (at[u] = "resub" /\ o \in todo[u])
            => at'[u] \in {"auth", "snap"} \/ (at'[u] = "resub" /\ o \in todo[u])
      BY <1>4, <2>1
    <3>2. QED
      BY <1>1, <2>3, <3>1 DEF Served, Up, Closed
  <2>4. QED
    BY <1>3, <1>5, <1>6, <2>2, <2>3 DEF ConnectionInv, SocketInv
<1>8. CASE ReconnectWakes
  <2>1. conn = 0 /\ \A u \in Tasks : at[u] # "connector"
    BY <1>0, <1>8 DEF ReconnectWakes, Handed
  <2>2. sleeping' = FALSE /\ (at' = at \/ at' = [at EXCEPT ![Reconnector] = "connector"])
    BY <1>8 DEF ReconnectWakes
  <2>3. Handed'
    <3>1. \A u \in Tasks : at'[u] = at[u] \/ (u = Reconnector /\ at'[u] = "connector")
      BY <1>2, <2>2
    <3>2. QED
      BY <1>0, <1>1, <2>1, <2>2, <3>1 DEF Handed
  <2>4. Served'
    BY <1>1, <2>1 DEF Served, Up
  <2>5. QED
    BY <1>3, <1>5, <1>6, <2>3, <2>4 DEF ConnectionInv, SocketInv
<1>9. QED
  BY <1>7, <1>8

\* A lost socket stays the one in use until its receive loop ends.
LEMMA DropKeeps ==
  ASSUME ConnectionInv, NEW k \in Conns, Drop(k)
  PROVE  ConnectionInv' /\ (Served => Served')
<1>0. TypeOK /\ Linked /\ Handed /\ Opening /\ Speaks /\ Known /\ Named
  BY DEF ConnectionInv, SocketInv
<1>1. /\ Up(k) /\ faults < MaxFaults /\ faults' = faults + 1
      /\ wire' = [wire EXCEPT ![k].link = "down"]
      /\ UNCHANGED <<key, pc, ref, sub, reg, at, todo, sleeping, conn, token, spawned, removed, closing, slow>>
  BY DEF Drop, Disturbance
<1>2. wire \in [Conns -> Sockets] /\ faults \in 0..MaxFaults /\ MaxFaults \in Nat
  BY <1>0, Types, ConstantsOK
<1>3. k = conn
  BY <1>0, <1>1 DEF Linked, Up
<1>4. /\ wire' \in [Conns -> Sockets] /\ wire[k].link = "up" /\ wire'[k].link = "down"
      /\ wire'[k].up = wire[k].up /\ wire'[k].who = wire[k].who /\ wire'[k].first = wire[k].first
      /\ \A m \in Conns : m # k => wire'[m] = wire[m]
  <2> DEFINE s == [wire[k] EXCEPT !.link = "down"]
  <2>1. s \in Sockets /\ s.link = "down" /\ s.up = wire[k].up /\ s.who = wire[k].who /\ s.first = wire[k].first
    BY <1>2 DEF Sockets
  <2>2. wire' = [wire EXCEPT ![k] = s]
    BY <1>1
  <2> HIDE DEF s
  <2>3. QED
    BY <1>1, <1>2, <2>1, <2>2 DEF Up
<1>5. TypeOK'
  <2>1. faults' \in 0..MaxFaults
    BY <1>1, <1>2
  <2>2. QED
    BY <1>0, <1>1, <1>4, <2>1 DEF TypeOK
<1>6. Linked'
  <2>1. \A m \in Conns : wire'[m].link = "none" <=> wire[m].link = "none"
    BY <1>4
  <2>2. QED
    BY <1>0, <1>1, <1>3, <1>4, <2>1 DEF Linked
<1>7. Handed' /\ Opening' /\ Named'
  BY <1>0, <1>1 DEF Handed, Opening, Named
<1>8. Speaks'
  BY <1>0, <1>4 DEF Speaks
<1>9. Known' /\ Served'
  BY <1>1, <1>3, <1>4 DEF Known, Served, Up
<1>10. QED
  BY <1>5, <1>6, <1>7, <1>8, <1>9 DEF ConnectionInv, SocketInv

\* A socket is given up, by its receive loop or by close(): whoever awaited its
\* identity goes on.
LEMMA SocketGone ==
  ASSUME ConnectionInv, conn \in Conns, wire' = [wire EXCEPT ![conn] = Socket("done")], conn' = 0,
         at' = AuthSettled, sleeping' \in BOOLEAN, closing' \in {"no", "begun", "done"},
         UNCHANGED <<key, pc, ref, sub, reg, todo, token, spawned, faults, removed, slow>>
  PROVE  ConnectionInv' /\ Served'
<1>0. TypeOK /\ Linked /\ Handed /\ Opening /\ Speaks /\ Known /\ Named
  BY DEF ConnectionInv, SocketInv
<1>1. wire \in [Conns -> Sockets] /\ at \in [Tasks -> Steps]
  BY <1>0, Types
<1>2. Socket("done") \in Sockets /\ Socket("done").link = "done"
  BY DEF Socket, Sockets, Tokens
<1>3. wire' \in [Conns -> Sockets] /\ wire'[conn] = Socket("done") /\ \A m \in Conns : m # conn => wire'[m] = wire[m]
  BY <1>1, <1>2
<1>4. at' \in [Tasks -> Steps] /\ \A t \in Tasks : at'[t] = IF at[t] = "auth" THEN "snap" ELSE at[t]
  BY <1>0, SettledIs
<1>5. TypeOK'
  <2>1. conn' \in 0..MaxConn
    BY ConstantsOK
  <2>2. QED
    BY <1>0, <1>3, <1>4, <2>1 DEF TypeOK, Steps
<1>6. wire[conn].link \in {"up", "down"} /\ \A m \in Conns : m # 0
  BY <1>0, ConstantsOK DEF Linked, Conns
<1>7. Linked'
  <2>1. \A m \in Conns : wire'[m].link = "none" <=> wire[m].link = "none"
    BY <1>2, <1>3, <1>6
  <2>2. \A m \in Conns : wire'[m].link \notin {"up", "down"}
    BY <1>0, <1>2, <1>3 DEF Linked
  <2>3. \A m \in Conns : wire'[m].link = "none" => wire'[m] = Socket("none")
    BY <1>0, <1>2, <1>3 DEF Linked
  <2>4. QED
    BY <1>0, <2>1, <2>2, <2>3 DEF Linked
<1>8. Handed'
  <2>1. \A t \in Tasks : at'[t] # "auth" /\ (at'[t] = "connector" => at[t] = "connector")
    BY <1>4
  <2>2. \A t \in Tasks : at[t] # "connector"
    BY <1>0, <1>6 DEF Handed
  <2>3. QED
    BY <2>1, <2>2 DEF Handed
<1>9. Opening'
  BY <1>0, <1>4 DEF Opening, Tasks
<1>10. Speaks'
  BY <1>0, <1>2, <1>3 DEF Speaks
<1>11. Known' /\ Served'
  BY DEF Known, Served, Up
<1>12. Named'
  BY <1>0 DEF Named
<1>13. QED
  BY <1>5, <1>7, <1>8, <1>9, <1>10, <1>11, <1>12 DEF ConnectionInv, SocketInv

\* The receive loop ends.
LEMMA LoopEndsKeeps ==
  ASSUME ConnectionInv, NEW k \in Conns, LoopEnds(k)
  PROVE  ConnectionInv' /\ (Served => Served')
<1>1. k = conn /\ sleeping' = WillReconnect
  BY DEF LoopEnds
<1>2. WillReconnect \in BOOLEAN
  BY DEF WillReconnect, ConnectionInv, SocketInv, TypeOK
<1>3. closing' \in {"no", "begun", "done"}
  BY DEF LoopEnds, ConnectionInv, SocketInv, TypeOK
<1>4. QED
  BY <1>1, <1>2, <1>3, SocketGone DEF LoopEnds

\* What an answer, or close(), may do to the callers and their objects.
Tells ==
  /\ pc' \in [Callers -> Stages] /\ sub' \in [Callers -> Subs] /\ reg' \in [Keys -> Callers \cup {None}]
  /\ \A c \in Callers : pc'[c] = pc[c] \/ (pc[c] = "waiting" /\ pc'[c] \in {"live", "failed"})
  /\ \A c \in Callers : sub'[c].acked => sub[c].acked \/ (pc[c] # "idle" /\ TopicOf[key[c]] \notin Rejected)
  /\ \A c \in Callers : sub'[c].inflight => sub[c].inflight
  /\ \A k \in Keys : reg'[k] = reg[k] \/ reg'[k] = None

\* A settled outcome reaches only callers that wait.
LEMMA ToldIs ==
  ASSUME TypeOK, NEW objs, NEW outcome \in {"live", "failed"}
  PROVE  /\ Told(objs, outcome) \in [Callers -> Stages]
         /\ \A c \in Callers : Told(objs, outcome)[c] = pc[c] \/ (pc[c] = "waiting" /\ Told(objs, outcome)[c] = outcome)
<1>1. pc \in [Callers -> Stages]
  BY Types
<1>2. outcome \in Stages
  BY DEF Stages
<1> DEFINE P(c) == pc[c] = "waiting" /\ \E o \in objs : c \in sub[o].pending
<1>3. Told(objs, outcome) = [c \in Callers |-> IF P(c) THEN outcome ELSE pc[c]]
  BY DEF Told
<1>4. \A c \in Callers : P(c) => pc[c] = "waiting"
  OBVIOUS
<1> HIDE DEF P
<1>5. QED
  BY <1>1, <1>2, <1>3, <1>4

\* Such a change leaves names and openers as they are.
LEMMA TellsKeeps ==
  ASSUME TypeOK, Opening, Named, Tells, UNCHANGED <<key, ref, todo>>,
         \A t \in Tasks : at'[t] # "off" => at[t] # "off"
  PROVE  Opening' /\ Named'
<1>1. ref \in [Callers -> Callers \cup {None}] /\ reg \in [Keys -> Callers \cup {None}]
      /\ todo \in [Tasks -> SUBSET Callers]
  BY Types
<1>2. \A c \in Callers : (pc'[c] = "idle" <=> pc[c] = "idle") /\ (pc[c] = "subscribing" => pc'[c] = "subscribing")
  BY DEF Tells
<1>3. Opening'
  BY <1>2 DEF Opening, Tasks
<1>4. \A k \in Keys : reg'[k] # None => key'[reg'[k]] = k /\ pc'[reg'[k]] # "idle"
  BY <1>1, <1>2 DEF Named, Tells
<1>5. \A t \in Tasks : \A o \in todo'[t] : pc'[o] # "idle"
  BY <1>1, <1>2 DEF Named
<1>6. \A c \in Callers : ref'[c] # None => pc'[ref'[c]] # "idle"
  BY <1>1, <1>2 DEF Named
<1>7. \A c \in Callers : pc'[c] = "idle" => ~sub'[c].acked /\ ~sub'[c].inflight
  BY <1>2 DEF Named, Tells
<1>8. \A c \in Callers : sub'[c].acked => TopicOf[key'[c]] \notin Rejected
  BY DEF Named, Tells
<1>9. QED
  BY <1>3, <1>4, <1>5, <1>6, <1>7, <1>8 DEF Named

\* The server's answer takes the frame off, and only adds to what it knows and serves.
LEMMA AnsweredIs ==
  ASSUME TypeOK, NEW k \in Conns, wire[k].up # <<>>, NEW f, f = Head(wire[k].up)
  PROVE  /\ Answered(k, f) \in [Conns -> Sockets]
         /\ \A m \in Conns : m # k => Answered(k, f)[m] = wire[m]
         /\ Answered(k, f)[k].link = wire[k].link /\ Answered(k, f)[k].first = wire[k].first
         /\ Answered(k, f)[k].up = Tail(wire[k].up)
         /\ Answered(k, f)[k].who = IF f[1] = "auth" THEN f[2] ELSE wire[k].who
         /\ \A x \in Keys : TopicOf[x] \notin Rejected
              /\ (f = <<"sub", x>> \/ (x \in wire[k].served /\ f # <<"unsub", TopicOf[x]>>))
              => x \in Answered(k, f)[k].served
<1> DEFINE rest == Tail(wire[k].up)
           who == IF f[1] = "auth" THEN f[2] ELSE wire[k].who
           served == CASE f[1] = "sub" /\ TopicOf[f[2]] \notin Rejected -> wire[k].served \cup {f[2]}
                       [] f[1] = "unsub" -> {x \in wire[k].served : TopicOf[x] # f[2]}
                       [] OTHER -> wire[k].served
           u == [wire[k] EXCEPT !.up = rest]
           v == [u EXCEPT !.who = who]
           w == [v EXCEPT !.served = served]
<1>1. wire \in [Conns -> Sockets] /\ wire[k] \in Sockets /\ wire[k].up \in Seq(Frames)
      /\ wire[k].served \subseteq Keys /\ wire[k].who \in Tokens \cup {Unset}
  BY Types DEF Sockets
<1>2. rest \in Seq(Frames) /\ f \in Frames
  BY <1>1
<1>3. \/ f[1] = "auth" /\ f[2] \in Tokens /\ f = <<"auth", f[2]>>
      \/ f[1] = "sub" /\ f[2] \in Keys /\ f = <<"sub", f[2]>>
      \/ f[1] = "unsub" /\ f = <<"unsub", f[2]>>
  BY <1>2, FrameKinds
<1>4. who \in Tokens \cup {Unset}
  BY <1>1, <1>3
<1>5. served \subseteq Keys
  <2>1. CASE f[1] = "sub" /\ TopicOf[f[2]] \notin Rejected
    BY <1>1, <1>3, <2>1
  <2>2. CASE f[1] = "unsub"
    BY <1>1, <2>2
  <2>3. CASE ~(f[1] = "sub" /\ TopicOf[f[2]] \notin Rejected) /\ f[1] # "unsub"
    BY <1>1, <2>3
  <2>4. QED
    BY <2>1, <2>2, <2>3
<1>6. ASSUME NEW x \in Keys, TopicOf[x] \notin Rejected,
             f = <<"sub", x>> \/ (x \in wire[k].served /\ f # <<"unsub", TopicOf[x]>>)
      PROVE  x \in served
  <2>1. CASE f = <<"sub", x>>
    <3>1. f[1] = "sub" /\ f[2] = x
      BY <2>1
    <3>2. QED
      BY <1>6, <3>1
  <2>2. CASE f[1] = "unsub" /\ x \in wire[k].served /\ f # <<"unsub", TopicOf[x]>>
    BY <1>3, <2>2
  <2>3. CASE f[1] # "unsub" /\ x \in wire[k].served
    BY <2>3
  <2>4. QED
    BY <1>6, <2>1, <2>2, <2>3
<1>7. Answered(k, f) = [[[wire EXCEPT ![k].up = rest] EXCEPT ![k].who = who] EXCEPT ![k].served = served]
  <2>1. [wire EXCEPT ![k].up = Tail(@)] = [wire EXCEPT ![k].up = rest]
    BY <1>1
  <2>2. [wire EXCEPT ![k].up = rest][k] = u /\ u.who = wire[k].who /\ u.served = wire[k].served
    BY <1>1 DEF Sockets
  <2> HIDE DEF rest
  <2>3. QED
    BY <1>1, <2>1, <2>2 DEF Answered, Sockets
<1> HIDE DEF rest, who, served
<1>8. u \in Sockets /\ u.link = wire[k].link /\ u.first = wire[k].first /\ u.up = rest
  BY <1>1, <1>2 DEF Sockets
<1>9. [wire EXCEPT ![k].up = rest] = [wire EXCEPT ![k] = u]
  BY <1>1
<1> HIDE DEF u
<1>10. v \in Sockets /\ v.link = u.link /\ v.first = u.first /\ v.up = u.up /\ v.who = who
  BY <1>4, <1>8 DEF Sockets
<1>11. [[wire EXCEPT ![k] = u] EXCEPT ![k].who = who] = [wire EXCEPT ![k] = v]
  BY <1>1, <1>8
<1> HIDE DEF v
<1>12. w \in Sockets /\ w.link = v.link /\ w.first = v.first /\ w.up = v.up /\ w.who = v.who /\ w.served = served
  BY <1>5, <1>10 DEF Sockets
<1>13. [[wire EXCEPT ![k] = v] EXCEPT ![k].served = served] = [wire EXCEPT ![k] = w]
  BY <1>1, <1>10
<1> HIDE DEF w
<1>14. Answered(k, f) = [wire EXCEPT ![k] = w]
  BY <1>7, <1>9, <1>11, <1>13
<1>15. Answered(k, f) \in [Conns -> Sockets] /\ Answered(k, f)[k] = w
       /\ \A m \in Conns : m # k => Answered(k, f)[m] = wire[m]
  BY <1>1, <1>12, <1>14
<1>16. QED
  BY <1>6, <1>8, <1>10, <1>12, <1>15 DEF rest, who

\* What a dispatched frame tells.
LEMMA DispatchTells ==
  ASSUME ConnectionInv, NEW k \in Conns, Dispatch(k)
  PROVE  Tells /\ at' \in [Tasks -> Steps] /\ (at' = at \/ at' = AuthSettled)
<1> DEFINE f == Head(wire[k].up)
<1>0. TypeOK /\ Named
  BY DEF ConnectionInv, SocketInv
<1>1. /\ pc \in [Callers -> Stages] /\ sub \in [Callers -> Subs]
      /\ reg \in [Keys -> Callers \cup {None}] /\ at \in [Tasks -> Steps]
  BY <1>0, Types
<1>2. CASE UNCHANGED <<pc, sub, reg, at>>
  BY <1>1, <1>2 DEF Tells
<1>3. CASE OnAuthFrame
  BY <1>0, <1>1, <1>3, SettledIs DEF OnAuthFrame, Tells
<1>4. ASSUME NEW topic, topic \notin Rejected, OnAck(topic)
      PROVE  Tells /\ at' = at
  <2> DEFINE objs == {o \in Registered : TopicOf[key[o]] = topic}
  <2>1. /\ pc' = Told(objs, "live") /\ UNCHANGED <<reg, at>>
        /\ sub' = [o \in Callers |-> IF o \in objs
                     THEN [sub[o] EXCEPT !.acked = TRUE, !.inflight = FALSE, !.pending = {}] ELSE sub[o]]
    BY <1>4 DEF OnAck
  <2>2. \A o \in objs : o \in Callers /\ pc[o] # "idle" /\ TopicOf[key[o]] \notin Rejected
    BY <1>0, <1>4, ConstantsOK DEF Registered, Named
  <2>3. ASSUME NEW o \in Callers
        PROVE  /\ sub'[o] \in Subs /\ (sub'[o].acked => sub[o].acked \/ o \in objs)
               /\ (sub'[o].inflight => sub[o].inflight)
    <3>1. CASE o \in objs
      <4> DEFINE u == [sub[o] EXCEPT !.acked = TRUE]
                 v == [u EXCEPT !.inflight = FALSE]
                 w == [v EXCEPT !.pending = {}]
      <4>1. sub[o] \in Subs
        BY <1>1
      <4>2. u \in Subs
        BY <4>1 DEF Subs
      <4> HIDE DEF u
      <4>3. v \in Subs /\ v.inflight = FALSE
        BY <4>2 DEF Subs
      <4> HIDE DEF v
      <4>4. w \in Subs /\ w.inflight = FALSE
        BY <4>3 DEF Subs
      <4>5. sub'[o] = w
        BY <2>1, <3>1 DEF u, v
      <4>6. QED
        BY <3>1, <4>4, <4>5
    <3>2. CASE o \notin objs
      BY <1>1, <2>1, <3>2
    <3>3. QED
      BY <3>1, <3>2
  <2>4. sub' \in [Callers -> Subs]
    <3>1. sub' = [o \in Callers |-> sub'[o]]
      BY <2>1
    <3>2. QED
      BY <2>3, <3>1
  <2>5. /\ pc' \in [Callers -> Stages]
        /\ \A c \in Callers : pc'[c] = pc[c] \/ (pc[c] = "waiting" /\ pc'[c] = "live")
    BY <1>0, <2>1, ToldIs
  <2> HIDE DEF objs
  <2>6. QED
    BY <1>1, <2>1, <2>2, <2>3, <2>4, <2>5 DEF Tells
<1>5. ASSUME OnErrorFrame PROVE Tells /\ at' = at
  <2> DEFINE objs == {o \in Registered : ~sub[o].acked /\ sub[o].pending # {}}
  <2>1. /\ pc' = Told(objs, "failed") /\ UNCHANGED at
        /\ sub' = [o \in Callers |-> IF o \in objs THEN [sub[o] EXCEPT !.pending = {}] ELSE sub[o]]
        /\ reg' = [x \in Keys |-> IF reg[x] \in objs THEN None ELSE reg[x]]
    BY <1>5 DEF OnErrorFrame
  <2>2. /\ pc' \in [Callers -> Stages]
        /\ \A c \in Callers : pc'[c] = pc[c] \/ (pc[c] = "waiting" /\ pc'[c] = "failed")
    BY <1>0, <2>1, ToldIs
  <2> HIDE DEF objs
  <2>3. ASSUME NEW o \in Callers
        PROVE  sub'[o] \in Subs /\ sub'[o].acked = sub[o].acked /\ sub'[o].inflight = sub[o].inflight
    <3>1. sub[o] \in Subs
      BY <1>1
    <3>2. CASE sub'[o] = [sub[o] EXCEPT !.pending = {}]
      BY <3>1, <3>2 DEF Subs
    <3>3. CASE sub'[o] = sub[o]
      BY <3>1, <3>3
    <3>4. QED
      BY <2>1, <3>2, <3>3
  <2>4. sub' \in [Callers -> Subs]
    <3>1. sub' = [o \in Callers |-> sub'[o]]
      BY <2>1
    <3>2. QED
      BY <2>3, <3>1
  <2>5. reg' \in [Keys -> Callers \cup {None}] /\ \A x \in Keys : reg'[x] = reg[x] \/ reg'[x] = None
    BY <1>1, <2>1
  <2>6. QED
    BY <2>1, <2>2, <2>3, <2>4, <2>5 DEF Tells
<1>6. \/ OnAuthFrame
      \/ TopicOf[f[2]] \notin Rejected /\ OnAck(TopicOf[f[2]])
      \/ OnErrorFrame
      \/ UNCHANGED <<pc, sub, reg, at>>
  BY DEF Dispatch
<1> HIDE DEF f
<1>7. QED
  BY <1>1, <1>2, <1>3, <1>4, <1>5, <1>6 DEF OnAuthFrame, Tells

\* The answer of the server is taken.
LEMMA DispatchKeeps ==
  ASSUME ConnectionInv, NEW k \in Conns, Dispatch(k)
  PROVE  ConnectionInv' /\ (Served => Served')
<1> DEFINE f == Head(wire[k].up)
<1>0. TypeOK /\ Linked /\ Handed /\ Opening /\ Speaks /\ Known /\ Named
  BY DEF ConnectionInv, SocketInv
<1>1. /\ wire[k].link \in {"up", "down"} /\ wire[k].up # <<>> /\ wire' = Answered(k, f)
      /\ UNCHANGED <<key, ref, todo, sleeping, conn, token, spawned, faults, removed, closing, slow>>
  BY DEF Dispatch
<1>2. k = conn /\ conn # 0 /\ wire[k].up \in Seq(Frames)
  BY <1>0, <1>1, ConstantsOK DEF Linked, TypeOK, Sockets, Conns
<1>3. Tells /\ at' \in [Tasks -> Steps] /\ (at' = at \/ at' = AuthSettled)
  BY DispatchTells
<1>4. /\ wire' \in [Conns -> Sockets] /\ \A m \in Conns : m # k => wire'[m] = wire[m]
      /\ wire'[k].link = wire[k].link /\ wire'[k].first = wire[k].first
      /\ wire'[k].up = Tail(wire[k].up)
      /\ wire'[k].who = IF f[1] = "auth" THEN f[2] ELSE wire[k].who
      /\ \A x \in Keys : TopicOf[x] \notin Rejected
           /\ (f = <<"sub", x>> \/ (x \in wire[k].served /\ f # <<"unsub", TopicOf[x]>>)) => x \in wire'[k].served
  BY <1>0, <1>1, AnsweredIs
<1>5. /\ f \in Frames /\ f = wire[k].up[1]
      /\ \A t : WillKnow(wire[k].up, wire[k].who, t) => WillKnow(wire'[k].up, wire'[k].who, t)
      /\ \A x \in Keys : TopicOf[x] \notin Rejected /\ WillServe(wire[k].up, wire[k].served, x)
           => WillServe(wire'[k].up, wire'[k].served, x)
  <2>1. f \in Frames /\ f = wire[k].up[1]
    BY <1>1, <1>2, OneLess
  <2>2. \A t : WillKnow(wire[k].up, wire[k].who, t)
           => WillKnow(Tail(wire[k].up), IF f[1] = "auth" THEN f[2] ELSE wire[k].who, t)
    BY <1>1, <1>2, OneLess
  <2>3. \A x, now : WillServe(wire[k].up, wire[k].served, x)
           /\ (f = <<"sub", x>> \/ (x \in wire[k].served /\ f # <<"unsub", TopicOf[x]>>) => x \in now)
           => WillServe(Tail(wire[k].up), now, x)
    BY <1>1, <1>2, OneLess
  <2>4. \A t : WillKnow(wire[k].up, wire[k].who, t) => WillKnow(wire'[k].up, wire'[k].who, t)
    BY <1>4, <2>2
  <2>5. \A x \in Keys : TopicOf[x] \notin Rejected /\ WillServe(wire[k].up, wire[k].served, x)
           => WillServe(wire'[k].up, wire'[k].served, x)
    BY <1>4, <2>3
  <2>6. QED
    BY <2>1, <2>4, <2>5
<1>6. f[1] = "auth" => f[2] \in Tokens
  BY <1>5, FrameKinds
<1> HIDE DEF f
<1>7. \A t \in Tasks : /\ at'[t] # "off" => at[t] # "off"
                       /\ at'[t] = "connector" <=> at[t] = "connector"
                       /\ at'[t] = "auth" => at[t] = "auth"
                       /\ at[t] \in {"auth", "snap"} => at'[t] \in {"auth", "snap"}
                       /\ at[t] = "resub" => at'[t] = "resub"
  <2>1. CASE at' = at
    BY <2>1
  <2>2. CASE at' = AuthSettled
    <3>1. \A t \in Tasks : at'[t] = IF at[t] = "auth" THEN "snap" ELSE at[t]
      BY <1>0, <2>2, SettledIs
    <3>2. QED
      BY <3>1
  <2>3. QED
    BY <1>3, <2>1, <2>2
<1>8. TypeOK'
  BY <1>0, <1>1, <1>3, <1>4 DEF TypeOK, Tells, Stages, Steps, Subs
<1>9. Linked'
  <2>1. wire[k].link # "none" /\ \A m \in Conns : wire'[m].link = wire[m].link
    BY <1>1, <1>4
  <2>2. \A m \in Conns : wire'[m].link = "none" => wire'[m] = Socket("none")
    BY <1>0, <1>4, <2>1 DEF Linked
  <2>3. conn \in Conns
    BY <1>2
  <2>4. QED
    BY <1>0, <1>1, <2>1, <2>2, <2>3 DEF Linked
<1>10. Handed'
  BY <1>0, <1>1, <1>7 DEF Handed
<1>11. Opening' /\ Named'
  BY <1>0, <1>1, <1>3, <1>7, TellsKeeps
<1>12. Speaks'
  <2>1. ~(wire'[k].first # 0 /\ wire'[k].who = Unset)
    <3>1. SUFFICES ASSUME wire[k].first # 0, wire'[k].who = Unset PROVE FALSE
      BY <1>4
    <3>2. Unset \notin Tokens
      BY DEF Unset, Tokens
    <3>3. f[1] # "auth" /\ wire[k].who = Unset
      BY <1>4, <1>6, <3>1, <3>2
    <3>4. wire[k].up[1][1] = "auth"
      BY <1>0, <1>1, <3>1, <3>3 DEF Speaks
    <3>5. QED
      BY <1>5, <3>3, <3>4
  <2>2. QED
    BY <1>0, <1>4, <2>1 DEF Speaks
<1>13. Up(conn)' <=> Up(conn)
  BY <1>1, <1>2, <1>4 DEF Up
<1>14. Known'
  <2>1. WillKnow(wire[conn].up, wire[conn].who, token) => WillKnow(wire'[conn].up, wire'[conn].who, token)
    BY <1>2, <1>5
  <2>2. QED
    BY <1>0, <1>1, <1>13, <2>1 DEF Known, Closed
<1>15. ASSUME Served PROVE Served'
  <2>1. SUFFICES ASSUME Up(conn), ~Closed, NEW x \in Keys, reg'[x] # None, TopicOf[x] \notin Rejected
        PROVE  \/ WillServe(wire'[conn].up, wire'[conn].served, x)
               \/ \E t \in Tasks : at'[t] \in {"auth", "snap"} \/ (at'[t] = "resub" /\ reg'[x] \in todo[t])
    BY <1>1, <1>13 DEF Served, Closed
  <2>2. reg'[x] = reg[x]
    BY <1>3, <2>1 DEF Tells
  <2>3. CASE WillServe(wire[conn].up, wire[conn].served, x)
    BY <1>2, <1>5, <2>1, <2>3
  <2>4. CASE \E t \in Tasks : at[t] \in {"auth", "snap"} \/ (at[t] = "resub" /\ reg[x] \in todo[t])
    BY <1>7, <2>2, <2>4
  <2>5. QED
    BY <1>15, <2>1, <2>2, <2>3, <2>4 DEF Served
<1>16. QED
  BY <1>8, <1>9, <1>10, <1>11, <1>12, <1>14, <1>15 DEF ConnectionInv, SocketInv

\* The stored token changes, and the listener schedules a frame.
LEMMA TokenChangesKeeps ==
  ASSUME ConnectionInv, NEW t \in Tokens, TokenChanges(t)
  PROVE  ConnectionInv' /\ (Served => Served')
<1>0. TypeOK /\ Linked /\ Handed /\ Opening /\ Speaks /\ Known /\ Named
  BY DEF ConnectionInv, SocketInv
<1>1. /\ faults < MaxFaults /\ faults' = faults + 1 /\ token' = t
      /\ spawned' = IF conn # 0 THEN Append(spawned, t) ELSE spawned
      /\ UNCHANGED <<key, pc, ref, sub, reg, at, todo, sleeping, conn, wire, removed, closing, slow>>
  BY DEF TokenChanges, Disturbance, Notified
<1>2. spawned \in Seq(Tokens) /\ faults \in 0..MaxFaults /\ MaxFaults \in Nat
  BY <1>0, ConstantsOK DEF TypeOK
<1>3. /\ spawned' \in Seq(Tokens) /\ faults' \in 0..MaxFaults
      /\ conn # 0 => spawned' # <<>> /\ spawned'[Len(spawned')] = t
  BY <1>1, <1>2
<1>4. TypeOK'
  BY <1>0, <1>1, <1>3 DEF TypeOK
<1>5. Linked' /\ Handed' /\ Opening' /\ Named' /\ Speaks'
  BY <1>0, <1>1 DEF Linked, Handed, Opening, Named, Speaks
<1>6. Known'
  BY <1>1, <1>3 DEF Known, Up
<1>7. Served => Served'
  BY <1>1 DEF Served, Up, Closed
<1>8. QED
  BY <1>4, <1>5, <1>6, <1>7 DEF ConnectionInv, SocketInv

\* A scheduled frame is sent, or finds no socket to be sent on.
LEMMA ReauthKeeps ==
  ASSUME ConnectionInv, Reauth
  PROVE  ConnectionInv' /\ (Served => Served')
<1> DEFINE f == <<"auth", Head(spawned)>>
<1>0. TypeOK /\ Linked /\ Handed /\ Opening /\ Speaks /\ Known /\ Named
  BY DEF ConnectionInv, SocketInv
<1>1. /\ spawned # <<>> /\ spawned' = Tail(spawned)
      /\ wire' = IF conn # 0 THEN Sent(conn, f) ELSE wire
      /\ at' = IF conn # 0 /\ ~Up(conn) THEN AuthSettled ELSE at
      /\ UNCHANGED <<key, pc, ref, sub, reg, todo, sleeping, conn, token, faults, removed, closing, slow>>
  BY DEF Reauth
<1>2. /\ spawned \in Seq(Tokens) /\ Head(spawned) \in Tokens /\ Tail(spawned) \in Seq(Tokens)
      /\ Tail(spawned) = <<>> => Head(spawned) = spawned[Len(spawned)]
      /\ Tail(spawned) # <<>> => Tail(spawned)[Len(Tail(spawned))] = spawned[Len(spawned)]
  <2>1. spawned \in Seq(Tokens)
    BY <1>0 DEF TypeOK
  <2>2. Len(spawned) \in Nat /\ Len(spawned) >= 1
    BY <1>1, <2>1
  <2>3. CASE Len(spawned) = 1
    BY <1>1, <2>1, <2>3
  <2>4. CASE Len(spawned) > 1
    <3>1. Len(Tail(spawned)) = Len(spawned) - 1
      BY <1>1, <2>1
    <3>2. Tail(spawned)[Len(spawned) - 1] = spawned[Len(spawned)]
      BY <1>1, <2>1, <2>4
    <3>3. Tail(spawned) # <<>>
      <4>1. Len(Tail(spawned)) > 0
        BY <2>2, <2>4, <3>1
      <4>2. QED
        BY <4>1
    <3>4. QED
      BY <1>1, <2>1, <3>1, <3>2, <3>3
  <2>5. Len(spawned) = 1 \/ Len(spawned) > 1
    <3>1. \A n \in Nat : n >= 1 => n = 1 \/ n > 1
      OBVIOUS
    <3>2. QED
      BY <2>2, <3>1
  <2>6. QED
    BY <2>3, <2>4, <2>5
<1>3. f \in Frames /\ f[1] = "auth" /\ f[2] = Head(spawned) /\ \A x : f # <<"unsub", x>>
  BY <1>2 DEF Frames
<1> HIDE DEF f
<1>4. conn \in 0..MaxConn /\ MaxConn \in Nat
  BY <1>0, ConstantsOK DEF TypeOK
<1>5. wire' = Sent(conn, f)
  <2>1. conn = 0 => Sent(conn, f) = wire
    BY DEF Sent, Up
  <2>2. QED
    BY <1>1, <2>1
<1>6. /\ wire' \in [Conns -> Sockets]
      /\ \A k \in Conns : /\ wire'[k].link = wire[k].link /\ wire'[k].who = wire[k].who
                          /\ wire'[k].first = wire[k].first
                          /\ ~(k = conn /\ Up(conn)) => wire'[k] = wire[k]
      /\ Up(conn) => conn \in Conns /\ wire'[conn].up = Append(wire[conn].up, f)
      /\ ~Up(conn) => wire' = wire
  BY <1>0, <1>3, <1>5, SentIs
<1>7. at' \in [Tasks -> Steps] /\ \A t \in Tasks :
        at'[t] = at[t] \/ (at[t] = "auth" /\ at'[t] = "snap")
  <2>1. at \in [Tasks -> Steps]
    BY <1>0, Types
  <2>2. QED
    BY <1>0, <1>1, <2>1, SettledIs
<1>8. TypeOK'
  BY <1>0, <1>1, <1>2, <1>6, <1>7 DEF TypeOK, Steps
<1>9. Linked'
  <2>1. \A k \in Conns : wire'[k].link = "none" => wire'[k] = Socket("none")
    <3>1. SUFFICES ASSUME NEW k \in Conns, wire'[k].link = "none" PROVE wire'[k] = Socket("none")
      OBVIOUS
    <3>2. wire[k].link = "none" /\ ~(k = conn /\ Up(conn))
      BY <1>6, <3>1 DEF Up
    <3>3. QED
      BY <1>0, <1>6, <3>2 DEF Linked
  <2>2. conn # 0 => conn \in Conns
    BY <1>4 DEF Conns
  <2>3. QED
    BY <1>0, <1>1, <1>6, <2>1, <2>2 DEF Linked
<1>10. Handed' /\ Opening' /\ Named'
  <2>1. Handed'
    BY <1>0, <1>1, <1>7 DEF Handed
  <2>2. Opening'
    BY <1>0, <1>1, <1>7 DEF Opening, Tasks
  <2>3. Named'
    BY <1>0, <1>1 DEF Named
  <2>4. QED
    BY <2>1, <2>2, <2>3
<1>11. Speaks'
  <2>1. SUFFICES ASSUME NEW k \in Conns, wire'[k].link \in {"up", "down"}, wire'[k].first # 0, wire'[k].who = Unset
        PROVE  wire'[k].up # <<>> /\ wire'[k].up[1][1] = "auth"
    BY DEF Speaks
  <2>2. wire[k].up # <<>> /\ wire[k].up[1][1] = "auth"
    BY <1>0, <1>6, <2>1 DEF Speaks
  <2>3. CASE k = conn /\ Up(conn)
    <3>1. wire[k].up \in Seq(Frames)
      BY <1>0 DEF TypeOK, Sockets
    <3>2. wire'[k].up = Append(wire[k].up, f)
      BY <1>6, <2>3
    <3>3. wire'[k].up # <<>> /\ wire'[k].up[1] = wire[k].up[1]
      BY <1>3, <2>2, <3>1, <3>2
    <3>4. QED
      BY <2>2, <3>3
  <2>4. QED
    BY <1>6, <2>2, <2>3
<1>12. Up(conn)' <=> Up(conn)
  BY <1>0, <1>3, <1>1, <1>5, SayUp
<1>13. Known'
  <2>1. SUFFICES ASSUME ~Closed, Up(conn)
        PROVE  /\ spawned' = <<>> => WillKnow(wire'[conn].up, wire'[conn].who, token)
               /\ spawned' # <<>> => spawned'[Len(spawned')] = token
    BY <1>1, <1>12 DEF Known, Closed
  <2>2. spawned[Len(spawned)] = token
    BY <1>0, <1>1, <2>1 DEF Known
  <2>3. spawned' = <<>> => f = <<"auth", token>>
    BY <1>1, <1>2, <2>2 DEF f
  <2>4. wire[conn].up \in Seq(Frames) /\ wire'[conn].up = Append(wire[conn].up, f)
    BY <1>0, <1>6, <2>1 DEF TypeOK, Sockets
  <2>5. f = <<"auth", token>> => WillKnow(wire'[conn].up, wire'[conn].who, token)
    BY <1>3, <2>4, OneMore
  <2>6. QED
    BY <1>1, <1>2, <2>2, <2>3, <2>5
<1>14. ASSUME Served PROVE Served'
  <2>1. SUFFICES ASSUME Up(conn), ~Closed, NEW x \in Keys, reg[x] # None, TopicOf[x] \notin Rejected
        PROVE  \/ WillServe(wire'[conn].up, wire'[conn].served, x)
               \/ \E t \in Tasks : at'[t] \in {"auth", "snap"} \/ (at'[t] = "resub" /\ reg[x] \in todo[t])
    BY <1>1, <1>12 DEF Served, Closed
  <2>2. CASE WillServe(wire[conn].up, wire[conn].served, x)
    BY <1>0, <1>1, <1>3, <1>5, <2>1, <2>2, SayServes
  <2>3. CASE \E t \in Tasks : at[t] \in {"auth", "snap"} \/ (at[t] = "resub" /\ reg[x] \in todo[t])
    <3>1. PICK t \in Tasks : at[t] \in {"auth", "snap"} \/ (at[t] = "resub" /\ reg[x] \in todo[t])
      BY <2>3
    <3>2. at'[t] \in {"auth", "snap"} \/ (at'[t] = "resub" /\ reg[x] \in todo[t])
      BY <1>7, <3>1
    <3>3. QED
      BY <3>2
  <2>4. QED
    BY <1>14, <2>1, <2>2, <2>3 DEF Served
<1>15. QED
  BY <1>8, <1>9, <1>10, <1>11, <1>13, <1>14 DEF ConnectionInv, SocketInv

\* Callbacks leave their objects, and objects without one leave the map; only the
\* last of a topic ends it.
LEMMA LeaveKeeps ==
  ASSUME ConnectionInv, NEW k \in Keys, NEW ks \in SUBSET Keys, NEW callbacks \in SUBSET Callers,
         \A x \in ks : TopicOf[x] = TopicOf[k], Leave(TopicOf[k], ks, callbacks), faults' \in 0..MaxFaults
  PROVE  ConnectionInv' /\ (Served => Served')
<1> DEFINE gone  == {x \in ks : reg[x] # None /\ sub[reg[x]].cbs \subseteq callbacks}
           found == {reg[x] : x \in ks}
           f     == <<"unsub", TopicOf[k]>>
           B(c)  == c \in callbacks /\ key[c] \in ks /\ pc[c] \in {"live", "cancelled"}
<1>0. TypeOK /\ Linked /\ Handed /\ Opening /\ Speaks /\ Known /\ Named
  BY DEF ConnectionInv, SocketInv
<1>1. /\ sub' = [o \in Callers |-> IF o \in found THEN [sub[o] EXCEPT !.cbs = @ \ callbacks] ELSE sub[o]]
      /\ reg' = [x \in Keys |-> IF x \in gone THEN None ELSE reg[x]]
      /\ wire' = IF gone # {} /\ LastOfTopic(TopicOf[k], gone) THEN Sent(conn, f) ELSE wire
      /\ removed' \subseteq removed \cup Callers
      /\ pc' = [c \in Callers |-> IF B(c) THEN "left" ELSE pc[c]]
      /\ UNCHANGED <<key, ref, at, todo, sleeping, conn, token, spawned, closing, slow>>
  BY DEF Leave
<1>2. /\ key \in [Callers -> Keys] /\ pc \in [Callers -> Stages]
      /\ ref \in [Callers -> Callers \cup {None}] /\ sub \in [Callers -> Subs]
      /\ reg \in [Keys -> Callers \cup {None}] /\ at \in [Tasks -> Steps]
      /\ todo \in [Tasks -> SUBSET Callers] /\ removed \subseteq Callers
  BY <1>0, Types
<1>3. f \in Frames /\ f[1] # "auth" /\ \A x : f = <<"unsub", x>> => x = TopicOf[k]
  BY DEF Frames
<1>4. /\ pc' \in [Callers -> Stages]
      /\ \A x \in Callers : pc'[x] = pc[x] \/ (pc[x] \in {"live", "cancelled"} /\ pc'[x] = "left")
  <2>1. "left" \in Stages /\ \A x \in Callers : B(x) => pc[x] \in {"live", "cancelled"}
    BY DEF Stages
  <2> HIDE DEF B
  <2>2. QED
    BY <1>1, <1>2, <2>1
<1>5. sub' \in [Callers -> Subs] /\ \A x \in Callers : sub'[x].acked = sub[x].acked /\ sub'[x].inflight = sub[x].inflight
  <2>1. ASSUME NEW x \in Callers
        PROVE  sub'[x] \in Subs /\ sub'[x].acked = sub[x].acked /\ sub'[x].inflight = sub[x].inflight
    <3> DEFINE less == sub[x].cbs \ callbacks
               u == [sub[x] EXCEPT !.cbs = less]
    <3>1. sub[x] \in Subs /\ less \subseteq Callers
      BY <1>2 DEF Subs
    <3>2. u \in Subs /\ u.acked = sub[x].acked /\ u.inflight = sub[x].inflight
      BY <3>1 DEF Subs
    <3>3. sub'[x] = u \/ sub'[x] = sub[x]
      BY <1>1
    <3> HIDE DEF u
    <3>4. QED
      BY <3>1, <3>2, <3>3
  <2>2. sub' = [x \in Callers |-> sub'[x]]
    BY <1>1
  <2>3. QED
    BY <2>1, <2>2
<1>6. /\ reg' \in [Keys -> Callers \cup {None}]
      /\ \A x \in Keys : reg'[x] = reg[x] \/ reg'[x] = None
      /\ \A x \in gone : x \in Keys /\ reg'[x] = None
  BY <1>1, <1>2
<1>7. /\ wire' = wire \/ wire' = Sent(conn, f)
      /\ wire' = wire \/ LastOfTopic(TopicOf[k], gone)
  BY <1>1
<1> HIDE DEF f, gone, found, B
<1>8. wire' \in [Conns -> Sockets] /\ Linked' /\ Speaks' /\ Known'
  BY <1>0, <1>1, <1>3, <1>7, SayKeeps
<1>9. TypeOK'
  BY <1>0, <1>1, <1>2, <1>4, <1>5, <1>6, <1>8 DEF TypeOK, Stages, Subs
<1>10. Handed'
  BY <1>0, <1>1 DEF Handed
<1>11. Opening'
  BY <1>0, <1>1, <1>4 DEF Opening
<1>12. Named'
  <2>1. \A x \in Callers : (pc'[x] = "idle" <=> pc[x] = "idle")
    BY <1>4
  <2>2. \A x \in Keys : reg'[x] # None => key[reg'[x]] = x /\ pc'[reg'[x]] # "idle"
    BY <1>0, <1>2, <1>6, <2>1 DEF Named
  <2>3. \A t \in Tasks : \A x \in todo[t] : pc'[x] # "idle"
    BY <1>0, <1>2, <2>1 DEF Named
  <2>4. \A x \in Callers : ref[x] # None => pc'[ref[x]] # "idle"
    BY <1>0, <1>2, <2>1 DEF Named
  <2>5. \A x \in Callers : pc'[x] = "idle" => ~sub'[x].acked /\ ~sub'[x].inflight
    BY <1>0, <1>5, <2>1 DEF Named
  <2>6. \A x \in Callers : sub'[x].acked => TopicOf[key[x]] \notin Rejected
    BY <1>0, <1>5 DEF Named
  <2>7. QED
    BY <1>1, <2>2, <2>3, <2>4, <2>5, <2>6 DEF Named
<1>13. ASSUME Served PROVE Served'
  <2>1. Up(conn)' <=> Up(conn)
    BY <1>0, <1>1, <1>3, <1>7, SayUp
  <2>2. SUFFICES ASSUME Up(conn), ~Closed, NEW x \in Keys, reg'[x] # None, TopicOf[x] \notin Rejected
        PROVE  \/ WillServe(wire'[conn].up, wire'[conn].served, x)
               \/ \E t \in Tasks : at[t] \in {"auth", "snap"} \/ (at[t] = "resub" /\ reg'[x] \in todo[t])
    BY <1>1, <2>1 DEF Served, Closed
  <2>3. reg'[x] = reg[x] /\ x \notin gone
    BY <1>6, <2>2
  <2>4. CASE WillServe(wire[conn].up, wire[conn].served, x)
    <3>1. CASE wire' = wire
      BY <1>1, <2>4, <3>1
    <3>2. CASE LastOfTopic(TopicOf[k], gone)
      <4>1. TopicOf[x] # TopicOf[k]
        BY <2>2, <2>3, <3>2 DEF LastOfTopic
      <4>2. f # <<"unsub", TopicOf[x]>>
        BY <1>3, <4>1
      <4>3. QED
        BY <1>0, <1>1, <1>3, <1>7, <2>2, <2>4, <4>2, SayServes
    <3>3. QED
      BY <1>7, <3>1, <3>2
  <2>5. QED
    BY <1>13, <2>2, <2>3, <2>4 DEF Served
<1>14. QED
  BY <1>8, <1>9, <1>10, <1>11, <1>12, <1>13 DEF ConnectionInv, SocketInv

\* One subscriber leaves, settled or still waiting.
LEMMA UnsubscribeKeeps ==
  ASSUME ConnectionInv, NEW c \in Callers, Unsubscribe(c) \/ UnsubscribeEarly(c)
  PROVE  ConnectionInv' /\ (Served => Served')
<1> DEFINE k == key[c]
           ks == {k}
           callbacks == {c}
<1>1. key \in [Callers -> Keys] /\ faults \in 0..MaxFaults /\ MaxFaults \in Nat
  BY ConstantsOK, Types DEF ConnectionInv, SocketInv
<1>2. Leave(TopicOf[k], ks, callbacks)
  BY DEF Unsubscribe, UnsubscribeEarly
<1>3. faults' \in 0..MaxFaults
  BY <1>1 DEF Unsubscribe, UnsubscribeEarly, Disturbance
<1>4. k \in Keys
  BY <1>1
<1>5. ks \in SUBSET Keys /\ callbacks \in SUBSET Callers /\ \A x \in ks : TopicOf[x] = TopicOf[k]
  BY <1>4
<1> HIDE DEF k, ks, callbacks
<1>6. QED
  BY <1>2, <1>3, <1>4, <1>5, LeaveKeeps, ZenonT(30)

\* ... or everybody, of one variant or of the topic.
LEMMA UnsubscribeTopicKeeps ==
  ASSUME ConnectionInv, NEW k \in Keys, UnsubscribeTopic(k)
  PROVE  ConnectionInv' /\ (Served => Served')
<1>1. faults \in 0..MaxFaults /\ MaxFaults \in Nat
  BY ConstantsOK, Types DEF ConnectionInv, SocketInv
<1>2. PICK ks \in {{k}, {x \in Keys : TopicOf[x] = TopicOf[k]}} : Leave(TopicOf[k], ks, Callers)
  BY DEF UnsubscribeTopic
<1>3. faults' \in 0..MaxFaults
  BY <1>1 DEF UnsubscribeTopic, Disturbance
<1>4. ks \in SUBSET Keys /\ \A x \in ks : TopicOf[x] = TopicOf[k]
  OBVIOUS
<1>5. Callers \in SUBSET Callers
  OBVIOUS
<1>6. QED
  BY <1>2, <1>3, <1>4, <1>5, LeaveKeeps, ZenonT(30)

\* A caller is cancelled.
LEMMA CancelKeeps ==
  ASSUME ConnectionInv, NEW c \in Callers, Cancel(c)
  PROVE  ConnectionInv' /\ (~CancelConnect /\ Served => Served')
<1>0. TypeOK /\ Linked /\ Handed /\ Opening /\ Speaks /\ Known /\ Named
  BY DEF ConnectionInv, SocketInv
<1>1. /\ faults < MaxFaults /\ faults' = faults + 1
      /\ pc[c] = "waiting" \/ (CancelConnect /\ at[c] \in {"connector", "auth"})
      /\ pc' = [pc EXCEPT ![c] = "cancelled"] /\ at' = [at EXCEPT ![c] = "off"]
      /\ UNCHANGED <<key, ref, sub, reg, todo, sleeping, conn, wire, token, spawned, removed, closing, slow>>
  BY DEF Cancel, Disturbance
<1>2. /\ faults \in 0..MaxFaults /\ MaxFaults \in Nat /\ pc \in [Callers -> Stages] /\ at \in [Tasks -> Steps]
      /\ ref \in [Callers -> Callers \cup {None}] /\ reg \in [Keys -> Callers \cup {None}]
      /\ todo \in [Tasks -> SUBSET Callers] /\ c \in Tasks
  BY <1>0, ConstantsOK, Types DEF Tasks
<1>3. /\ faults' \in 0..MaxFaults /\ pc' \in [Callers -> Stages] /\ at' \in [Tasks -> Steps]
      /\ pc'[c] = "cancelled" /\ \A x \in Callers : x # c => pc'[x] = pc[x]
      /\ at'[c] = "off" /\ \A t \in Tasks : t # c => at'[t] = at[t]
  <2>1. faults' \in 0..MaxFaults
    BY <1>1, <1>2
  <2>2. "cancelled" \in Stages /\ "off" \in Steps
    BY DEF Stages, Steps
  <2>3. QED
    BY <1>1, <1>2, <2>1, <2>2
<1>4. pc[c] # "idle"
  BY <1>0, <1>1 DEF Opening
<1>5. TypeOK'
  BY <1>0, <1>1, <1>3 DEF TypeOK, Stages, Steps
<1>6. Linked' /\ Speaks' /\ Known'
  BY <1>0, <1>1 DEF Linked, Speaks, Known, Up, Closed
<1>7. Handed'
  BY <1>0, <1>1, <1>3 DEF Handed
<1>8. Opening'
  BY <1>0, <1>1, <1>3 DEF Opening, Tasks
<1>9. Named'
  <2>1. \A x \in Callers : (pc'[x] = "idle" <=> pc[x] = "idle")
    BY <1>3, <1>4
  <2>2. \A x \in Keys : reg[x] # None => key[reg[x]] = x /\ pc'[reg[x]] # "idle"
    BY <1>0, <1>2, <2>1 DEF Named
  <2>3. \A t \in Tasks : \A x \in todo[t] : pc'[x] # "idle"
    BY <1>0, <1>2, <2>1 DEF Named
  <2>4. \A x \in Callers : ref[x] # None => pc'[ref[x]] # "idle"
    BY <1>0, <1>2, <2>1 DEF Named
  <2>5. \A x \in Callers : pc'[x] = "idle" => ~sub[x].acked /\ ~sub[x].inflight
    BY <1>0, <2>1 DEF Named
  <2>6. \A x \in Callers : sub[x].acked => TopicOf[key[x]] \notin Rejected
    BY <1>0 DEF Named
  <2>7. QED
    BY <1>1, <2>2, <2>3, <2>4, <2>5, <2>6 DEF Named
<1>10. ASSUME ~CancelConnect, Served PROVE Served'
  <2>1. at[c] = "off"
    BY <1>0, <1>1, <1>10 DEF Opening
  <2>2. at' = at
    BY <1>1, <1>2, <2>1
  <2>3. QED
    BY <1>1, <1>10, <2>2 DEF Served, Up, Closed
<1>11. QED
  BY <1>5, <1>6, <1>7, <1>8, <1>9, <1>10 DEF ConnectionInv, SocketInv

\* close() begins.
LEMMA CloseKeeps ==
  ASSUME ConnectionInv, Close
  PROVE  ConnectionInv' /\ (Served => Served')
<1>0. TypeOK /\ Linked /\ Handed /\ Opening /\ Speaks /\ Known /\ Named
  BY DEF ConnectionInv, SocketInv
<1>1. /\ closing' = "begun" /\ pc' = Told(Registered, "failed")
      /\ sub' = [o \in Callers |-> Fresh]
      /\ reg' = [k \in Keys |-> None]
      /\ at' = (IF sleeping THEN AuthSettled ELSE [AuthSettled EXCEPT ![Reconnector] = "off"])
      /\ sleeping' = FALSE /\ spawned' = <<>>
      /\ UNCHANGED <<key, ref, todo, conn, wire, token, faults, removed, slow>>
  BY DEF Close
<1>2. Closed'
  BY <1>1 DEF Closed
<1>3. /\ at' \in [Tasks -> Steps]
      /\ \A t \in Tasks : at'[t] = "off" \/ at'[t] = (IF at[t] = "auth" THEN "snap" ELSE at[t])
  <2>1. "off" \in Steps /\ Reconnector \in Tasks
    BY DEF Steps, Tasks
  <2>2. QED
    BY <1>0, <1>1, <2>1, SettledIs
<1>4. Tells
  <2>1. sub' \in [Callers -> Subs] /\ \A x \in Callers : ~sub'[x].acked /\ ~sub'[x].inflight
    BY <1>1 DEF Fresh, Subs
  <2>2. /\ pc' \in [Callers -> Stages]
        /\ \A c \in Callers : pc'[c] = pc[c] \/ (pc[c] = "waiting" /\ pc'[c] = "failed")
    BY <1>0, <1>1, ToldIs
  <2>3. reg' \in [Keys -> Callers \cup {None}] /\ \A k \in Keys : reg'[k] = None
    BY <1>1
  <2>4. QED
    BY <2>1, <2>2, <2>3 DEF Tells
<1>5. Opening' /\ Named'
  BY <1>0, <1>1, <1>3, <1>4, TellsKeeps
<1>6. TypeOK'
  <2>1. spawned' \in Seq(Tokens)
    BY <1>1
  <2>2. QED
    BY <1>0, <1>1, <1>3, <1>4, <2>1 DEF TypeOK, Tells, Stages, Steps, Subs
<1>7. Linked' /\ Speaks'
  BY <1>0, <1>1 DEF Linked, Speaks
<1>8. Handed'
  <2>1. \A t \in Tasks : at'[t] # "auth" /\ (at'[t] = "connector" => at[t] = "connector")
    BY <1>3
  <2>2. QED
    BY <1>0, <1>1, <2>1 DEF Handed
<1>9. Known' /\ Served'
  BY <1>2 DEF Known, Served
<1>10. QED
  BY <1>5, <1>6, <1>7, <1>8, <1>9 DEF ConnectionInv, SocketInv

\* ... and ends.
LEMMA CloseFinishKeeps ==
  ASSUME ConnectionInv, CloseFinish
  PROVE  ConnectionInv' /\ (Served => Served')
<1>0. TypeOK /\ Linked /\ Handed /\ Opening /\ Speaks /\ Known /\ Named
  BY DEF ConnectionInv, SocketInv
<1>1. /\ closing' = "done" /\ conn' = 0 /\ at' = AuthSettled
      /\ wire' = IF conn = 0 THEN wire ELSE [wire EXCEPT ![conn] = Socket("done")]
      /\ UNCHANGED <<key, pc, ref, sub, reg, todo, sleeping, token, spawned, faults, removed, slow>>
  BY DEF CloseFinish
<1>2. CASE conn # 0
  <2>1. conn \in Conns /\ sleeping' \in BOOLEAN
    BY <1>0, <1>1, <1>2, ConstantsOK DEF TypeOK, Conns
  <2>2. QED
    BY <1>1, <1>2, <2>1, SocketGone
<1>3. CASE conn = 0
  <2>1. at \in [Tasks -> Steps]
    BY <1>0, Types
  <2>2. at' = at
    <3>1. \A t \in Tasks : at[t] # "auth"
      BY <1>0, <1>3 DEF Handed
    <3>2. AuthSettled \in [Tasks -> Steps] /\ \A t \in Tasks : AuthSettled[t] = at[t]
      BY <1>0, <3>1, SettledIs
    <3>3. QED
      BY <1>1, <2>1, <3>2
  <2>3. UNCHANGED <<conn, wire>>
    BY <1>1, <1>3
  <2>4. TypeOK' /\ Linked' /\ Handed' /\ Opening' /\ Speaks' /\ Named'
    BY <1>0, <1>1, <2>2, <2>3 DEF TypeOK, Linked, Handed, Opening, Speaks, Named
  <2>5. Known' /\ Served'
    BY <1>1 DEF Known, Served, Closed
  <2>6. QED
    BY <2>4, <2>5 DEF ConnectionInv, SocketInv
<1>4. QED
  BY <1>2, <1>3

-----------------------------------------------------------------------------
\* Nothing is open at first.
LEMMA StartsUnopened ==
  Init => ConnectionInv /\ Served
<1> SUFFICES ASSUME Init PROVE ConnectionInv /\ Served
  OBVIOUS
<1>1. MaxConn \in Nat /\ MaxFaults \in Nat /\ Wants \subseteq [Callers -> Keys]
  BY ConstantsOK
<1>2. Socket("none") \in Sockets /\ Socket("none").link = "none"
  BY DEF Socket, Sockets, Tokens
<1>3. TypeOK
  <2>1. key \in [Callers -> Keys] /\ pc \in [Callers -> Stages] /\ ref \in [Callers -> Callers \cup {None}]
    BY <1>1 DEF Init, Stages
  <2>2. sub \in [Callers -> Subs]
    BY DEF Init, Fresh, Subs
  <2>3. /\ reg \in [Keys -> Callers \cup {None}] /\ at \in [Tasks -> Steps]
        /\ todo \in [Tasks -> SUBSET Callers] /\ wire \in [Conns -> Sockets]
    BY <1>2 DEF Init, Steps
  <2>4. /\ sleeping \in BOOLEAN /\ conn \in 0..MaxConn /\ token \in Tokens /\ spawned \in Seq(Tokens)
        /\ faults \in 0..MaxFaults /\ removed \subseteq Callers
        /\ closing \in {"no", "begun", "done"} /\ slow \in BOOLEAN
    <3>1. conn = 0 /\ faults = 0 /\ token \in {0, 1} /\ spawned = <<>>
      BY DEF Init
    <3>2. conn \in 0..MaxConn /\ faults \in 0..MaxFaults /\ token \in Tokens
      BY <1>1, <3>1 DEF Tokens
    <3>3. spawned \in Seq(Tokens)
      BY <3>1
    <3>4. sleeping \in BOOLEAN /\ removed \subseteq Callers /\ closing \in {"no", "begun", "done"} /\ slow \in BOOLEAN
      BY DEF Init
    <3>5. QED
      BY <3>2, <3>3, <3>4
  <2>5. QED
    BY <2>1, <2>2, <2>3, <2>4, Types
<1>4. Linked
  <2>1. 0 \in 0..MaxConn /\ \A k \in Conns : ~(k <= 0)
    BY <1>1 DEF Conns
  <2>2. \A k \in Conns : wire[k] = Socket("none")
    BY DEF Init
  <2>3. conn = 0
    BY DEF Init
  <2>4. QED
    BY <1>2, <2>1, <2>2, <2>3 DEF Linked
<1>5. Handed
  BY DEF Init, Handed
<1>6. Opening
  BY DEF Init, Opening, Tasks
<1>7. Speaks
  BY <1>2 DEF Init, Speaks
<1>8. Known /\ Served
  BY DEF Init, Known, Served, Up
<1>9. Named
  BY DEF Init, Fresh, Named
<1>10. QED
  BY <1>3, <1>4, <1>5, <1>6, <1>7, <1>8, <1>9 DEF ConnectionInv, SocketInv

\* Every step keeps the invariant; what is served is lost only when a caller is
\* cancelled while it opens the connection.
LEMMA ConnectionKeeps ==
  ConnectionInv /\ [Next]_vars => ConnectionInv' /\ (~CancelConnect /\ Served => Served')
<1> SUFFICES ASSUME ConnectionInv, [Next]_vars
             PROVE  ConnectionInv' /\ (~CancelConnect /\ Served => Served')
  OBVIOUS
<1>1. CASE UNCHANGED vars
  BY <1>1 DEF vars, ConnectionInv, SocketInv, TypeOK, Linked, Handed, Opening, Speaks, Known, Named,
              Served, Up, Closed
<1>2. CASE \E t \in Tasks : ConnectorOk(t) \/ ResubscribeStart(t) \/ ResubscribeNext(t) \/ ConnectorFails(t)
  BY <1>2, ConnectorOkKeeps, ResubscribeStartKeeps, ResubscribeNextKeeps, ConnectorFailsKeeps
<1>3. CASE \E c \in Callers : \/ ConnectReturns(c) \/ Subscribe(c) \/ Cancel(c)
                                \/ Unsubscribe(c) \/ UnsubscribeEarly(c)
  BY <1>3, ConnectReturnsKeeps, SubscribeKeeps, UnsubscribeKeeps, CancelKeeps
<1>4. CASE \E k \in Conns : Dispatch(k) \/ LoopEnds(k) \/ Drop(k)
  BY <1>4, DispatchKeeps, LoopEndsKeeps, DropKeeps
<1>5. CASE ReconnectReturns \/ ReconnectWakes \/ Reauth \/ CloseFinish \/ Close
  BY <1>5, ReconnectKeeps, ReauthKeeps, CloseFinishKeeps, CloseKeeps
<1>6. CASE \E t \in Tokens : TokenChanges(t)
  BY <1>6, TokenChangesKeeps
<1>7. CASE \E k \in Keys : UnsubscribeTopic(k)
  BY <1>7, UnsubscribeTopicKeeps
<1>8. QED
  BY <1>1, <1>2, <1>3, <1>4, <1>5, <1>6, <1>7 DEF Next, Progress, Environment

\* A set without two elements counts at most one.
LEMMA OneAtMost ==
  ASSUME NEW S, \A x, y \in S : x = y
  PROVE  Cardinality(S) \in 0..1 /\ (S = {} => Cardinality(S) = 0)
<1>1. CASE S = {}
  BY <1>1, FS_EmptySet
<1>2. CASE S # {}
  <2>1. PICK x : x \in S
    BY <1>2
  <2>2. S = {x}
    BY <2>1
  <2>3. QED
    BY <1>2, <2>2, FS_Singleton
<1>3. QED
  BY <1>1, <1>2

\* The socket in use is the only one, and a connector works only without one.
LEMMA NoSecondSocket ==
  ASSUME SocketInv PROVE OneSocket
<1> DEFINE open == {k \in Conns : wire[k].link = "up"}
           opening == {t \in Tasks : at[t] = "connector"}
<1>0. Linked /\ Handed
  BY DEF SocketInv
<1>1. Cardinality(open) \in 0..1 /\ (open = {} => Cardinality(open) = 0)
  <2>1. \A x, y \in open : x = y
    BY <1>0 DEF Linked
  <2>2. QED
    BY <2>1, OneAtMost
<1>2. Cardinality(opening) \in 0..1 /\ (opening = {} => Cardinality(opening) = 0)
  <2>1. \A x, y \in opening : x = y
    BY <1>0 DEF Handed
  <2>2. QED
    BY <2>1, OneAtMost
<1>3. open = {} \/ opening = {}
  <2>1. \A k \in Conns : k # 0
    BY ConstantsOK DEF Conns
  <2>2. QED
    BY <1>0, <2>1 DEF Linked, Handed
<1> HIDE DEF open, opening
<1>4. Cardinality(open) + Cardinality(opening) <= 1
  <2>1. CASE open = {}
    BY <1>1, <1>2, <2>1
  <2>2. CASE opening = {}
    BY <1>1, <1>2, <2>2
  <2>3. QED
    BY <1>3, <2>1, <2>2
<1>5. QED
  BY <1>4 DEF OneSocket, open, opening

\* The identity of a connection.
LEMMA NoOtherIdentity ==
  ASSUME ConnectionInv PROVE IdentityKnown
<1>0. Speaks /\ Known
  BY DEF ConnectionInv
<1>1. AuthFirst
  <2>1. SUFFICES ASSUME NEW k \in Conns, Up(k), wire[k].up # <<>>, Head(wire[k].up)[1] = "sub",
                        wire[k].first # 0, wire[k].who = Unset
        PROVE  FALSE
    BY DEF AuthFirst
  <2>2. wire[k].up[1][1] = "auth"
    BY <1>0, <2>1 DEF Speaks, Up
  <2>3. Head(wire[k].up) = wire[k].up[1]
    <3>1. wire[k].up \in Seq(Frames)
      BY DEF ConnectionInv, SocketInv, TypeOK, Sockets
    <3>2. QED
      BY <2>1, <3>1
  <2>4. QED
    BY <2>1, <2>2, <2>3
<1>2. IdentityFollows
  <2>1. SUFFICES ASSUME Quiet PROVE wire[conn].who = token \/ (token = 0 /\ wire[conn].who = Unset)
    BY DEF IdentityFollows
  <2>2. WillKnow(<<>>, wire[conn].who, token)
    BY <1>0, <2>1 DEF Known, Quiet
  <2>3. DOMAIN <<>> = {}
    OBVIOUS
  <2>4. QED
    BY <2>2, <2>3 DEF WillKnow
<1>3. QED
  BY <1>1, <1>2 DEF IdentityKnown

\* An acknowledged key is served.
LEMMA NoKeyForgotten ==
  ASSUME ConnectionInv, Served PROVE AckedIsServed
<1>0. TypeOK /\ Named
  BY DEF ConnectionInv, SocketInv
<1>1. SUFFICES ASSUME Quiet, NEW k \in Keys, reg[k] # None, sub[reg[k]].acked PROVE k \in wire[conn].served
  BY DEF AckedIsServed
<1>2. reg[k] \in Callers
  BY <1>0, <1>1 DEF TypeOK
<1>3. TopicOf[k] \notin Rejected
  BY <1>0, <1>1, <1>2 DEF Named
<1>4. WillServe(<<>>, wire[conn].served, k)
  BY <1>1, <1>3 DEF Served, Quiet
<1>5. DOMAIN <<>> = {}
  OBVIOUS
<1>6. QED
  BY <1>4, <1>5 DEF WillServe

\* RealtimeService has one socket at most, and serves nothing on it under another
\* identity than the auth store's, whatever is cancelled when.
THEOREM IdentityIsKnown ==
  Spec => [](TypeOK /\ OneSocket /\ IdentityKnown)
<1>1. Init => ConnectionInv
  BY StartsUnopened
<1>2. ConnectionInv /\ [Next]_vars => ConnectionInv'
  BY ConnectionKeeps
<1>3. ConnectionInv => TypeOK /\ OneSocket /\ IdentityKnown
  BY NoSecondSocket, NoOtherIdentity DEF ConnectionInv, SocketInv
<1>4. QED
  BY <1>1, <1>2, <1>3, PTL DEF Spec

\* ... and the server serves every key the client holds for acknowledged, when no
\* caller is cancelled while it opens the connection (the resubscription of
\* _on_open is then cut off: RealtimeService._connect_once).
THEOREM ConnectionIsSound ==
  ASSUME ~CancelConnect
  PROVE  Spec => []ConnectionSound
<1>1. Init => ConnectionInv /\ Served
  BY StartsUnopened
<1>2. ConnectionInv /\ Served /\ [Next]_vars => ConnectionInv' /\ Served'
  BY ConnectionKeeps
<1>3. ConnectionInv /\ Served => ConnectionSound
  BY NoSecondSocket, NoOtherIdentity, NoKeyForgotten DEF ConnectionInv, SocketInv, ConnectionSound
<1>4. QED
  BY <1>1, <1>2, <1>3, PTL DEF Spec
=================================================================================
