---------------------------- MODULE UsageRollup ----------------------------
(***************************************************************************)
(* The table usage_aggregates and its two writers: the container           *)
(* analysis-rollup, which rebuilds the recent buckets every few minutes    *)
(* (rebuild_usage_aggregates_recent), and analysis-batch, which once a day *)
(* rebuilds all of them (rebuild_usage_aggregates_full) and records when.  *)
(*                                                                         *)
(* Both run at READ COMMITTED: each statement has its own snapshot of      *)
(* trace_usage_facts, a row written by an open transaction blocks the      *)
(* other writer, now() is the start of the transaction.  An aggregate row  *)
(* is reduced to its request_count, an absent row to 0, and the facts to   *)
(* one group (token, user, model, route, protocol).                        *)
(***************************************************************************)
EXTENDS Naturals, FiniteSets

CONSTANTS Traces,
          HourWidth, DayWidth,  \* the widths of the buckets, in ticks
          RollupWindow,   \* ROLLUP_WINDOW_HOURS, in ticks
          FullInterval,   \* FULL_RECONCILE_INTERVAL_SECONDS, in ticks
          TxLimit,        \* bound: how long a transaction stays open
          LastTick        \* bound: the last tick

ASSUME WidthsAssumption == /\ HourWidth \in Nat \ {0}
                           /\ DayWidth \in Nat \ {0}
                           /\ DayWidth % HourWidth = 0
ASSUME TimesAssumption == {RollupWindow, FullInterval, TxLimit, LastTick} \subseteq Nat

VARIABLES
    clock,      \* the time, in ticks
    facts,      \* trace_usage_facts: the rows recorded so far
    agg,        \* request_count of each row of usage_aggregates
    tx,         \* the open transaction of each writer
    last_full   \* batch_runtime_state: last_full_rebuild_at

rollupVars == <<clock, facts, agg, tx, last_full>>

Writers == {"rollup", "full"}
Ticks == 0 .. LastTick
Never == LastTick + 1

Width(size) == IF size = "hour" THEN HourWidth ELSE DayWidth
Bucket(size, s) == <<size, (s \div Width(size)) * Width(size)>>
Buckets == {Bucket(size, s) : size \in {"hour", "day"}, s \in Ticks}
Start(b) == b[2]
End(b) == b[2] + Width(b[1])

\* started is request_started_at; recorded is when the worker committed the row.
Fact == [trace : Traces, started : Ticks, recorded : Ticks]
FactsIn(b) == {f \in facts : Bucket(b[1], f.started) = b}

\* A writer's statement, its private copy of the rows it has written, and the
\* result of the SELECT it is about to upsert.
Transaction == [pc     : {"idle", "delete", "select", "write", "commit", "record"},
                size   : {"hour", "day"},
                began  : Ticks,
                locked : SUBSET Buckets,
                value  : [Buckets -> Nat],
                rows   : [Buckets -> Nat]]

NoRows == [b \in Buckets |-> 0]
Idle == [pc |-> "idle", size |-> "hour", began |-> 0, locked |-> {},
         value |-> NoRows, rows |-> NoRows]

RollupTypeOK ==
    /\ clock \in Ticks
    /\ facts \subseteq Fact
    /\ agg \in [Buckets -> Nat]
    /\ tx \in [Writers -> Transaction]
    /\ last_full \in Ticks \cup {Never}

Other(x) == IF x = "rollup" THEN "full" ELSE "rollup"

\* x >= now() - window, with now() the start of the transaction.
InWindow(x, time) == time + RollupWindow >= tx[x].began

\* A row an open transaction has written makes the other writer wait.
Free(x, rows) == rows \cap tx[Other(x)].locked = {}
-----------------------------------------------------------------------------
(* The workers: one row per trace, sooner or later after the request. *)

RecordFact(t, s) ==
    /\ \A f \in facts : f.trace # t
    /\ s <= clock
    /\ facts' = facts \cup {[trace |-> t, started |-> s, recorded |-> clock]}
    /\ UNCHANGED <<clock, agg, tx, last_full>>
-----------------------------------------------------------------------------
(* The writers *)

\* The rollup runs on every wake; the batch rebuilds when none was recorded, or
\* the last one is FullInterval old.
Begin(x) ==
    /\ tx[x].pc = "idle"
    /\ x = "full" => last_full = Never \/ clock >= last_full + FullInterval
    /\ tx' = [tx EXCEPT ![x] = [Idle EXCEPT !.pc = "delete", !.began = clock]]
    /\ UNCHANGED <<clock, facts, agg, last_full>>

\* The buckets a rebuild is about.
InScope(x, b) == x = "full" \/ InWindow(x, Start(b))

Delete(x) ==
    LET rows == {b \in Buckets : agg[b] > 0 /\ InScope(x, b)}
    IN  /\ tx[x].pc = "delete"
        /\ Free(x, rows)
        /\ tx' = [tx EXCEPT ![x].pc = "select", ![x].locked = rows]
        /\ UNCHANGED <<clock, facts, agg, last_full>>

\* Mutant: the oldest tick of the window is deleted but not summed up again.
Summed_strictly(x, f) == x = "full" \/ f.started + RollupWindow > tx[x].began

\* The facts a rebuild sums up.
Summed(x, f) == x = "full" \/ InWindow(x, f.started)

\* The SELECT of ROLLUP_USAGE_FACTS and ROLLUP_USAGE_FACTS_WINDOWED.
SelectFacts(x) ==
    /\ tx[x].pc = "select"
    /\ tx' = [tx EXCEPT
          ![x].pc = "write",
          ![x].rows = [b \in Buckets |->
              IF b[1] = tx[x].size
              THEN Cardinality({f \in FactsIn(b) : Summed(x, f)}) ELSE 0]]
    /\ UNCHANGED <<clock, facts, agg, last_full>>

\* Mutant: the upsert adds to the row it finds.
Upserted_adding(old, excluded) == old + excluded

\* What ON CONFLICT DO UPDATE makes of a row.
Upserted(old, excluded) == excluded

\* Their INSERT ... ON CONFLICT DO UPDATE, first for hours, then for days.
UpsertRows(x) ==
    LET rows == {b \in Buckets : tx[x].rows[b] > 0}
        Old(b) == IF b \in tx[x].locked THEN tx[x].value[b] ELSE agg[b]
    IN  /\ tx[x].pc = "write"
        /\ Free(x, rows)
        /\ tx' = [tx EXCEPT
              ![x].pc = IF tx[x].size = "hour" THEN "select" ELSE "commit",
              ![x].size = "day",
              ![x].locked = tx[x].locked \cup rows,
              ![x].value = [b \in Buckets |->
                  IF b \in rows THEN Upserted(Old(b), tx[x].rows[b]) ELSE tx[x].value[b]]]
        /\ UNCHANGED <<clock, facts, agg, last_full>>

Commit(x) ==
    /\ tx[x].pc = "commit"
    /\ agg' = [b \in Buckets |-> IF b \in tx[x].locked THEN tx[x].value[b] ELSE agg[b]]
    /\ tx' = [tx EXCEPT ![x] = IF x = "rollup" THEN Idle
                               ELSE [Idle EXCEPT !.pc = "record", !.began = tx[x].began]]
    /\ UNCHANGED <<clock, facts, last_full>>

\* Mutant: the end of the run is noted, not its start.
WriteLastFullRebuild_at_end ==
    /\ tx["full"].pc = "record"
    /\ last_full' = clock
    /\ tx' = [tx EXCEPT !["full"] = Idle]
    /\ UNCHANGED <<clock, facts, agg>>

\* After baselines and model training the batch notes when it had started.
WriteLastFullRebuild ==
    /\ tx["full"].pc = "record"
    /\ last_full' = tx["full"].began
    /\ tx' = [tx EXCEPT !["full"] = Idle]
    /\ UNCHANGED <<clock, facts, agg>>

\* A crash, a lost connection, the victim of a deadlock, or a failing baseline or
\* training step: the scheduler logs it and waits for its next wake.
Fail(x) ==
    /\ tx[x].pc # "idle"
    /\ tx' = [tx EXCEPT ![x] = Idle]
    /\ UNCHANGED <<clock, facts, agg, last_full>>

ClockTick ==
    /\ clock < LastTick
    /\ \A x \in Writers : tx[x].pc # "idle" => clock < tx[x].began + TxLimit
    /\ clock' = clock + 1
    /\ UNCHANGED <<facts, agg, tx, last_full>>
-----------------------------------------------------------------------------
RollupInit ==
    /\ clock = 0
    /\ facts = {}
    /\ agg = NoRows
    /\ tx = [x \in Writers |-> Idle]
    /\ last_full = Never

RollupNext ==
    \/ \E t \in Traces, s \in Ticks : RecordFact(t, s)
    \/ \E x \in Writers : \/ Begin(x) \/ Delete(x) \/ SelectFacts(x) \/ UpsertRows(x)
                          \/ Commit(x) \/ Fail(x)
    \/ WriteLastFullRebuild
    \/ ClockTick

RollupSpec == RollupInit /\ [][RollupNext]_rollupVars
-----------------------------------------------------------------------------
\* Rebuilding replaces: however the two writers overlap, no request is counted
\* twice in a bucket.
NeverOvercounts == \A b \in Buckets : agg[b] <= Cardinality(FactsIn(b))

\* A rebuild that commits has counted, in every bucket it is about, every request
\* recorded before its transaction began.
CommitsAreCurrent ==
    [][\A x \in Writers :
          tx[x].pc = "commit" /\ tx'[x].pc # "commit" /\ agg' # agg =>
          \A b \in Buckets : InScope(x, b) =>
              agg'[b] >= Cardinality({f \in FactsIn(b) : f.recorded < tx[x].began})]_rollupVars

\* Once the daily reconciliation is recorded, the buckets that had left the
\* rollup's window by then are complete for the requests recorded before it, and
\* stay so.
ReconciledStays ==
    last_full # Never =>
        \A b \in Buckets :
            End(b) + RollupWindow + TxLimit <= last_full =>
                agg[b] >= Cardinality({f \in FactsIn(b) : f.recorded < last_full})

\* The docstring of rebuild_usage_aggregates_recent: only the buckets of the last
\* window_hours are rebuilt.
OnlyRecentBucketsChange ==
    [][\A b \in Buckets :
          tx["rollup"].pc = "commit" /\ tx'["rollup"].pc = "idle" /\ agg'[b] # agg[b] =>
              InWindow("rollup", Start(b))]_rollupVars
=============================================================================
