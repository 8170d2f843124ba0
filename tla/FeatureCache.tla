---------------------------- MODULE FeatureCache ----------------------------
(***************************************************************************)
(* The cache of feature overrides (src/feature_cache.zig), and those who   *)
(* write them: the settings API, transactions and hooks (src/ctx.zig).     *)
(*                                                                         *)
(* A critical section of the spinlock is one step, and so are the reading  *)
(* of the clock before it and the scan of _kv after it; version is bumped  *)
(* without the lock.  The version is read twice in the first section: if   *)
(* it moves in between, the second reading decides.  Overrides are         *)
(* represented by the number of writes committed so far.                   *)
(***************************************************************************)
EXTENDS Integers, FiniteSets

CONSTANTS
  Callers,     \* threads that resolve a flag
  Setters,     \* threads that write one
  InTx,        \* those of them that write inside ctx.tx
  InHook,      \* those that write in a before-hook, in the record's transaction
  ttl_ms,
  Slots,       \* memory for entries
  MaxWrites, MaxVersion, MaxTime,   \* bounds
  Null

Entries == [map : Nat, loaded_version : Nat, loaded_at_ms : Nat, refs : Nat]

ASSUME CacheAssumption ==
  /\ IsFiniteSet(Callers) /\ Null \notin Slots \cup Entries
  /\ InTx \subseteq Setters /\ InHook \subseteq Setters \ InTx
  /\ {ttl_ms, MaxWrites, MaxVersion, MaxTime} \subseteq Nat

VARIABLES
  kv,       \* override writes committed so far
  kvAt,     \* history: their number when each instant ended
  millis,
  version,
  entry,    \* [Slots -> the entry there, or Null where the memory is free]
  current,  \* the published entry, or Null
  call,     \* [Callers -> the call of snapshot(), with its locals]
  setter,   \* [Setters -> "idle", "written", "noted" or "committed"]
  due       \* history: what was committed as the last of the setters returned

cacheVars == <<kv, kvAt, millis, version, current, entry, call, setter, due>>

(* began: now_ms; gen: the version it scans for; using: the entry it borrows; old:
   the one it replaced; owed: the overrides it must see; stale: it did not *)
Idle == [pc |-> "idle", began |-> 0, gen |-> 0, using |-> Null, old |-> Null, owed |-> 0, stale |-> FALSE]

CacheInit ==
  /\ kv = 0 /\ kvAt = [t \in 0..MaxTime |-> 0] /\ millis = 0 /\ version = 0
  /\ current = Null /\ entry = [s \in Slots |-> Null]
  /\ call = [c \in Callers |-> Idle]
  /\ setter = [w \in Setters |-> "idle"] /\ due = 0

-----------------------------------------------------------------------------
Becomes(c, with) == call' = [call EXCEPT ![c] = with]
Rest == <<kv, kvAt, millis, version, setter, due>>

\* unref: the last holder frees the entry.
Unref(s) ==
  entry' = [entry EXCEPT ![s] = IF @.refs = 1 THEN Null ELSE [@ EXCEPT !.refs = entry[s].refs - 1]]

\* What was due, and what was committed ttl_ms ago.
Owed == IF millis >= ttl_ms /\ kvAt[millis - ttl_ms] > due THEN kvAt[millis - ttl_ms] ELSE due

Begin(c) ==
  /\ call[c].pc = "idle"
  /\ Becomes(c, [Idle EXCEPT !.pc = "timed", !.began = millis, !.owed = Owed])
  /\ UNCHANGED <<Rest, current, entry>>

\* Call c has the overrides of entry s, or those it read itself.
Borrows(c, s, saw) == [Idle EXCEPT !.pc = "using", !.using = s, !.stale = saw < call[c].owed]

Fresh(c) ==
  /\ current # Null
  /\ entry[current].loaded_version = version
  /\ call[c].began - entry[current].loaded_at_ms < ttl_ms

Look(c) ==
  /\ call[c].pc = "timed"
  /\ IF Fresh(c)
     THEN /\ entry' = [entry EXCEPT ![current].refs = @ + 1]
          /\ Becomes(c, Borrows(c, current, entry[current].map))
     ELSE Becomes(c, [call[c] EXCEPT !.pc = "missed", !.gen = version]) /\ UNCHANGED entry
  /\ UNCHANGED <<Rest, current>>

Allocated == CHOOSE s \in Slots : entry[s] = Null

\* The scan fails and the caller reads the overrides itself, or it succeeds.
Scan(c) ==
  /\ call[c].pc = "missed"
  /\ \/ Becomes(c, Borrows(c, Null, kv)) /\ UNCHANGED entry
     \/ /\ \E s \in Slots : entry[s] = Null
        /\ entry' = [entry EXCEPT ![Allocated] = [map |-> kv, loaded_version |-> call[c].gen,
                                                 loaded_at_ms |-> call[c].began, refs |-> 1]]
        /\ Becomes(c, [Borrows(c, Allocated, kv) EXCEPT !.pc = "scanned", !.gen = call[c].gen])
  /\ UNCHANGED <<Rest, current>>

Undisturbed(c) == version = call[c].gen

Publish(c) ==
  /\ call[c].pc = "scanned"
  /\ IF Undisturbed(c)
     THEN /\ current' = call[c].using
          /\ entry' = [entry EXCEPT ![call[c].using].refs = @ + 1]
          /\ Becomes(c, [call[c] EXCEPT !.pc = IF current = Null THEN "using" ELSE "detached",
                                     !.old = current, !.gen = 0])
     ELSE Becomes(c, [call[c] EXCEPT !.pc = "using", !.gen = 0]) /\ UNCHANGED <<current, entry>>
  /\ UNCHANGED Rest

\* The replaced entry is given up outside the lock.
Detach(c) ==
  /\ call[c].pc = "detached"
  /\ Unref(call[c].old)
  /\ Becomes(c, [call[c] EXCEPT !.pc = "using", !.old = Null])
  /\ UNCHANGED <<Rest, current>>

Finish(c) ==
  /\ call[c].pc = "using"
  /\ IF call[c].using = Null THEN UNCHANGED entry ELSE Unref(call[c].using)
  /\ Becomes(c, Idle)
  /\ UNCHANGED <<Rest, current>>

-----------------------------------------------------------------------------
Steps(w, to) == setter' = [setter EXCEPT ![w] = to]
Cached == <<current, entry, call, millis>>
Bound(w) == w \in InTx \cup InHook
Committed == kv' = kv + 1 /\ kvAt' = [kvAt EXCEPT ![millis] = kv + 1]

\* The one writer connection is taken by an open transaction.
WriterFree == \A w \in Setters : Bound(w) => setter[w] = "idle"

\* Outside a transaction the write is committed at once.
Write(w) ==
  /\ setter[w] = "idle" /\ WriterFree /\ kv < MaxWrites /\ version < MaxVersion
  /\ Steps(w, "written")
  /\ IF Bound(w) THEN UNCHANGED <<kv, kvAt>> ELSE Committed
  /\ UNCHANGED <<Cached, version, due>>

\* writeFlagOverride and the settings API bump the version after the write.
Invalidate(w) ==
  /\ setter[w] = "written"
  /\ version' = version + 1
  /\ IF Bound(w) THEN Steps(w, "noted") /\ UNCHANGED due
     ELSE Steps(w, "idle") /\ due' = kv
  /\ UNCHANGED <<Cached, kv, kvAt>>

CommitTx(w) ==
  /\ setter[w] = "noted"
  /\ Committed /\ Steps(w, "committed")
  /\ UNCHANGED <<Cached, version, due>>

\* Mutant: ctx.tx does not bump the version again.
Once(w) == FALSE

\* ctx.tx has one more thing to do after the commit, a record operation has not.
Again(w) == w \in InTx

Returns(w) ==
  /\ setter[w] = "committed"
  /\ version' = IF Again(w) THEN version + 1 ELSE version
  /\ Steps(w, "idle") /\ due' = kv
  /\ UNCHANGED <<Cached, kv, kvAt>>

RollbackTx(w) ==
  /\ setter[w] \in {"written", "noted"} /\ Bound(w)
  /\ Steps(w, "idle")
  /\ UNCHANGED <<Cached, kv, kvAt, version, due>>

\* Another instance writes an override.
RemoteWrite ==
  /\ WriterFree /\ kv < MaxWrites
  /\ Committed
  /\ UNCHANGED <<Cached, version, setter, due>>

Passes ==
  /\ millis < MaxTime
  /\ millis' = millis + 1 /\ kvAt' = [kvAt EXCEPT ![millis + 1] = kv]
  /\ UNCHANGED <<kv, version, current, entry, call, setter, due>>

CacheNext ==
  \/ \E c \in Callers : Begin(c) \/ Look(c) \/ Scan(c) \/ Publish(c) \/ Detach(c) \/ Finish(c)
  \/ \E w \in Setters : Write(w) \/ Invalidate(w) \/ CommitTx(w) \/ Returns(w) \/ RollbackTx(w)
  \/ RemoteWrite \/ Passes

CacheSpec == CacheInit /\ [][CacheNext]_cacheVars

-----------------------------------------------------------------------------
\* A call that begins after the writer of an override returned sees the override,
\* whoever publishes and invalidates meanwhile ("a kill-switch flip takes effect on
\* the next request"); one of another instance is seen ttl_ms after its commit.
NeverStale == \A c \in Callers : ~call[c].stale

\* Every entry is counted by exactly those who hold it: none is freed under a reader
\* or while it is published, and none is forgotten.
Holders(s) == Cardinality({c \in Callers : call[c].using = s})
              + Cardinality({c \in Callers : call[c].old = s})
              + (IF current = s THEN 1 ELSE 0)
RefsExact == \A s \in Slots : Holders(s) = IF entry[s] = Null THEN 0 ELSE entry[s].refs

\* No scan replaces one that saw more: the comment above Publish in the code says
\* that the loser of two concurrent scans is not cached.
NewerStays ==
  [][current # Null /\ current' # current => entry'[current'].map >= entry[current].map]_cacheVars

\* Where no hook writes overrides, callers never see less than they must, and the
\* memory of the entries is safe.
CacheSound == NeverStale /\ RefsExact
=============================================================================
