---------------------------- MODULE ReplayJournal ----------------------------
(***************************************************************************)
(* The replay journal (src/realtime/durable.zig): record transactions      *)
(* append invalidations of their collections, old ones are discarded by    *)
(* age and by two budgets, and clients follow with cursors.                *)
(*                                                                         *)
(* A page is read in one consistent transaction, so it is one step; of an  *)
(* append only the commit is seen by others.  Nothing is assumed of the    *)
(* clocks of the instances.  Encryption binds a cursor to the journal's    *)
(* secret and the reader's collection.                                     *)
(***************************************************************************)
EXTENDS Integers, Sequences, FiniteSets, FiniteSetsExt

CONSTANTS
  Writers, Readers, Collections,
  Watches,           \* [Readers -> Collections]
  FrameSizes,        \* bytes of an encoded frame
  Times,             \* what a clock may show
  Limits,            \* entries a page may have
  max_entries, max_bytes, retention_seconds,
  MaxSequence,       \* 2^63 - 1 in the code
  MaxSecret,         \* bounds the restored backups
  NoTx, NoCursor

ASSUME JournalAssumption ==
  /\ Watches \in [Readers -> Collections]
  /\ FrameSizes \subseteq Nat /\ Times \subseteq Nat /\ Limits \subseteq Nat \ {0}
  /\ max_entries \in Nat \ {0} /\ max_bytes \in Nat \ {0} /\ retention_seconds \in Nat \ {0}
  /\ MaxSequence \in Nat /\ MaxSecret \in Nat
  /\ NoCursor \notin [secret : Nat, after : Nat]

VARIABLES
  journal,  \* committed: the row of _replay_state, and _replay_events as rows
  tx,       \* [Writers -> what an open transaction wrote, or NoTx]
  cursor,   \* [Readers -> the position a client holds, or NoCursor]
  since,    \* [Readers -> where its last checkpoint was]
  got,      \* [Readers -> the entries it was given since]
  log,      \* history: the collection of every committed entry
  backup    \* a copy of the database

journalVars == <<journal, tx, cursor, since, got, log, backup>>

Entry == [collection : Collections, bytes : FrameSizes, expires : Nat]

JournalInit ==
  /\ journal = [secret |-> 0, sequence |-> 0, floor |-> 0, rows |-> <<>>]
  /\ tx = [w \in Writers |-> NoTx]
  /\ cursor = [r \in Readers |-> NoCursor]
  /\ since = [r \in Readers |-> 0] /\ got = [r \in Readers |-> {}]
  /\ log = <<>> /\ backup = [journal |-> journal, log |-> log]

-----------------------------------------------------------------------------
\* The floor moves to the last entry of S, and everything up to it is deleted.
Discard(j, S) ==
  IF S = {} THEN j
  ELSE [j EXCEPT !.floor = Max(S),
                 !.rows = [s \in {t \in DOMAIN j.rows : t > Max(S)} |-> j.rows[s]]]

Outdated(j, instant) == {s \in DOMAIN j.rows : j.rows[s].expires <= instant}

\* The bytes of the rows S, one by one, and whether their number and sum keep to the budgets.
Payload(kept, S) == UNION {{s} \X (1..kept[s].bytes) : s \in S}
Bytes(kept, S) == Cardinality(Payload(kept, S))
InBudget(kept, S) == Cardinality(S) <= max_entries /\ Bytes(kept, S) <= max_bytes

\* The entries that do not fit together with all those after them.
OverBudget(j) == {s \in DOMAIN j.rows : ~InBudget(j.rows, {t \in DOMAIN j.rows : t >= s})}

Inserted(j, e) ==
  LET n == j.sequence + 1
  IN [j EXCEPT !.sequence = n,
               !.rows = [s \in DOMAIN j.rows \cup {n} |-> IF s = n THEN e ELSE j.rows[s]]]

Appended(j, e, instant) ==
  LET added == Inserted(j, e)
      fresh == Discard(added, Outdated(added, instant))
  IN Discard(fresh, OverBudget(fresh))

\* Mutant: positions are handed out without a lock.
RowFreeAlways(w) == TRUE

\* The first append locks the metadata row, until the transaction ends.
RowFree(w) == \A v \in Writers \ {w} : tx[v] = NoTx

Open(w) == IF tx[w] = NoTx THEN [state |-> journal, added |-> <<>>] ELSE tx[w]

AppendEntry(w) ==
  /\ RowFree(w) /\ Open(w).state.sequence < MaxSequence
  /\ \E c \in Collections, size \in FrameSizes, instant \in Times :
       tx' = [tx EXCEPT ![w] =
         [state |-> Appended(Open(w).state,
                             [collection |-> c, bytes |-> size, expires |-> instant + retention_seconds], instant),
          added |-> Append(Open(w).added, c)]]
  /\ UNCHANGED <<journal, cursor, since, got, log, backup>>

Commit(w) ==
  /\ tx[w] # NoTx
  /\ journal' = tx[w].state /\ log' = log \o tx[w].added
  /\ tx' = [tx EXCEPT ![w] = NoTx]
  /\ UNCHANGED <<cursor, since, got, backup>>

\* The record operation fails, or its process dies.
Rollback(w) ==
  /\ tx[w] # NoTx
  /\ tx' = [tx EXCEPT ![w] = NoTx]
  /\ UNCHANGED <<journal, cursor, since, got, log, backup>>

-----------------------------------------------------------------------------
\* A request without a cursor: nothing but the head.
Checkpoint(r) ==
  /\ cursor[r] = NoCursor
  /\ cursor' = [cursor EXCEPT ![r] = [secret |-> journal.secret, after |-> journal.sequence]]
  /\ since' = [since EXCEPT ![r] = journal.sequence]
  /\ got' = [got EXCEPT ![r] = {}]
  /\ UNCHANGED <<journal, tx, log, backup>>

\* Mutant: a cursor at the floor is taken for a lost one.
ReadableAbove(c, instant) ==
  /\ c.secret = journal.secret /\ c.after <= journal.sequence
  /\ \A s \in {journal.floor} \cup Outdated(journal, instant) : s < c.after

\* It opens under the present secret, and misses nothing discarded or expired.
Readable(c, instant) ==
  /\ c.secret = journal.secret /\ c.after <= journal.sequence
  /\ \A s \in {journal.floor} \cup Outdated(journal, instant) : s <= c.after

\* What follows the cursor in the reader's collection, and the first of it.
Following(r) ==
  {s \in DOMAIN journal.rows : s > cursor[r].after /\ journal.rows[s].collection = Watches[r]}
Page(r, limit) ==
  {s \in Following(r) : Cardinality({t \in Following(r) : t <= s}) <= limit}

\* A full page ends with its last entry, any other one at the head.
Position(r, limit) ==
  IF Page(r, limit) = Following(r) THEN journal.sequence ELSE Max(Page(r, limit))

ReadPage(r) ==
  /\ cursor[r] # NoCursor
  /\ \E instant \in Times, limit \in Limits :
       IF Readable(cursor[r], instant)
       THEN /\ cursor' = [cursor EXCEPT ![r].after = Position(r, limit)]
            /\ got' = [got EXCEPT ![r] = @ \cup Page(r, limit)]
       ELSE cursor' = [cursor EXCEPT ![r] = NoCursor] /\ UNCHANGED got
  /\ UNCHANGED <<journal, tx, since, log, backup>>

-----------------------------------------------------------------------------
\* The operator copies the database (while the bound lets the copy be put back), or
\* stops all instances, puts the copy back and replaces the secret.
TakeBackup ==
  /\ journal.secret < MaxSecret
  /\ backup' = [journal |-> journal, log |-> log]
  /\ UNCHANGED <<journal, tx, cursor, since, got, log>>

Restore ==
  /\ \A w \in Writers : tx[w] = NoTx
  /\ journal.secret < MaxSecret
  /\ journal' = [backup.journal EXCEPT !.secret = journal.secret + 1]
  /\ log' = backup.log
  /\ UNCHANGED <<tx, cursor, since, got, backup>>

JournalNext ==
  \/ \E w \in Writers : AppendEntry(w) \/ Commit(w) \/ Rollback(w)
  \/ \E r \in Readers : Checkpoint(r) \/ ReadPage(r)
  \/ TakeBackup \/ Restore

JournalSpec == JournalInit /\ [][JournalNext]_journalVars

\* Clients keep asking.
JournalFairSpec == JournalSpec /\ \A r \in Readers : WF_journalVars(ReadPage(r))

-----------------------------------------------------------------------------
\* A client whose cursor the journal still accepts was given every entry of its
\* collection from its checkpoint to its cursor, and nothing else: what became
\* visible late, was rolled back or was discarded never opens a gap.
GapFree ==
  \A r \in Readers :
    cursor[r] # NoCursor /\ cursor[r].secret = journal.secret =>
      /\ cursor[r].after \in since[r]..Len(log)
      /\ got[r] = {s \in (since[r] + 1)..cursor[r].after : log[s] = Watches[r]}

\* Retained entries keep to both budgets.
Budgeted == InBudget(journal.rows, DOMAIN journal.rows)

\* Nobody is sent back to a snapshot who missed nothing: some entry beyond the
\* cursor is gone or has expired, or the database was restored.
ResetsJustified ==
  [][\A r \in Readers :
       cursor[r] # NoCursor /\ cursor'[r] = NoCursor =>
         \/ cursor[r].secret # journal.secret
         \/ \E s \in (cursor[r].after + 1)..journal.sequence :
              s \in DOMAIN journal.rows => \E instant \in Times : journal.rows[s].expires <= instant]_journalVars

\* A client that keeps asking gets to the head or is told to start again, also
\* when all that is written belongs to other collections.
CatchesUp ==
  \A r \in Readers :
    cursor[r] # NoCursor ~>
      \/ cursor[r] = NoCursor
      \/ cursor[r].secret = journal.secret /\ cursor[r].after = journal.sequence

\* The promise to clients beside GapFree.
ReplayAnswers == []Budgeted /\ ResetsJustified /\ CatchesUp
=============================================================================
