----------------------------- MODULE UsageTrend -----------------------------
(***************************************************************************)
(* The usage page and the overview of the admin interface: sums over       *)
(* usage_aggregates, in windows of days or of hours.  A page is put        *)
(* together from several statements, with a snapshot each, while rebuilds  *)
(* commit and the clock goes on; the now of a page is that of its request. *)
(*                                                                         *)
(* The counters of a row are reduced to its tokens, and a request has one. *)
(***************************************************************************)
EXTENDS Integers, Sequences, FiniteSets, FiniteSetsExt

CONSTANTS Usernames, Models,  \* of the rows: "" where a request had none
          Hour, HoursADay,    \* ticks of an hour, hours of a day
          Week, Month,        \* the days of the ranges 7d and 30d
          LastTime,           \* bound: the last tick
          MaxRequests         \* bound: the requests that are counted

ASSUME TrendAssumption ==
    /\ {Hour, HoursADay, Week, Month} \subseteq Nat \ {0}
    /\ Week <= Month
    /\ {LastTime, MaxRequests} \subseteq Nat
    /\ IsFiniteSet(Usernames) /\ IsFiniteSet(Models)

VARIABLES
    time,
    table,    \* total_tokens by bucket_size, bucket_start, model and username
    view,     \* the page that is being put together
    changed   \* a rebuild has committed since it was asked for

trendVars == <<time, table, view, changed>>

Sizes == {"hour", "day"}
UsageBucketStep(size) == IF size = "hour" THEN Hour ELSE Hour * HoursADay
NormalizeUsageBucketStart(t, size) == (t \div UsageBucketStep(size)) * UsageBucketStep(size)

Starts(size) == {NormalizeUsageBucketStart(t, size) : t \in 0 .. LastTime}
RowKeys == {k \in Sizes \X (0 .. LastTime) \X Models \X Usernames : k[2] \in Starts(k[1])}
Total(keys, rows) == MapThenSumSet(LAMBDA k : rows[k], keys)
-----------------------------------------------------------------------------
Ranges == {"1d", "7d", "30d"}
DaysOf(range) == IF range = "7d" THEN Week ELSE Month

\* Mutant: the day that has begun is not in the window.
UsageTrendWindow_ended(range, now) ==
    IF range = "1d"
    THEN [start |-> now - Hour * HoursADay, end |-> now, size |-> "hour", buckets |-> HoursADay]
    ELSE LET end == NormalizeUsageBucketStart(now, "day")
         IN  [start |-> end - DaysOf(range) * UsageBucketStep("day"), end |-> end,
              size |-> "day", buckets |-> DaysOf(range)]

\* 1d: the last 24 hours, to the second; otherwise whole days up to tonight.
UsageTrendWindow(range, now) ==
    IF range = "1d"
    THEN [start |-> now - Hour * HoursADay, end |-> now, size |-> "hour", buckets |-> HoursADay]
    ELSE LET end == NormalizeUsageBucketStart(now, "day") + UsageBucketStep("day")
         IN  [start |-> end - DaysOf(range) * UsageBucketStep("day"), end |-> end,
              size |-> "day", buckets |-> DaysOf(range)]

\* The rows of the three statements of EmployeeUsageTrend.
RowsOf(w, username, model) ==
    {k \in RowKeys : /\ k[1] = w.size /\ w.start <= k[2] /\ k[2] < w.end
                     /\ k[4] = username
                     /\ model # "" => k[3] = model
                     /\ table[k] > 0}

\* GROUP BY bucket_start.
RawPoints(keys) ==
    [t \in {k[2] : k \in keys} |-> Total({k \in keys : k[2] = t}, table)]

\* Mutant: the points begin with the bucket after the start.
FillUsageTrendPoints_next(w, raw) ==
    LET start == NormalizeUsageBucketStart(w.start, w.size) + UsageBucketStep(w.size)
    IN  [i \in 1 .. w.buckets |->
            LET t == start + (i - 1) * UsageBucketStep(w.size)
            IN  IF t \in DOMAIN raw THEN raw[t] ELSE 0]

\* The points of w.buckets buckets, from the one the window starts in.
FillUsageTrendPoints(w, raw) ==
    LET start == NormalizeUsageBucketStart(w.start, w.size)
    IN  [i \in 1 .. w.buckets |->
            LET t == start + (i - 1) * UsageBucketStep(w.size)
            IN  IF t \in DOMAIN raw THEN raw[t] ELSE 0]

\* SUM(total_tokens) of the last 30 days, of all rows.
GlobalUsageSummary(now) ==
    LET end == NormalizeUsageBucketStart(now, "day") + UsageBucketStep("day")
        start == end - Month * UsageBucketStep("day")
    IN  Total({k \in RowKeys : k[1] = "day" /\ start <= k[2] /\ k[2] < end}, table)

\* The daily totals of the overview, 30 of them, the newest first.
DailyTokenUsage(now) ==
    LET endDay == NormalizeUsageBucketStart(now, "day")
    IN  [i \in 1 .. Month |->
            Total({k \in RowKeys :
                     k[1] = "day" /\ k[2] = endDay - (i - 1) * UsageBucketStep("day")}, table)]

SumOf(f) == MapThenSumSet(LAMBDA i : f[i], DOMAIN f)
-----------------------------------------------------------------------------
NoView == [at |-> "none", range |-> "", username |-> "", model |-> "", now |-> 0,
           global |-> 0, models |-> {}, points |-> <<>>, summary |-> 0, active |-> 0,
           by_model |-> <<>>]

TrendTypeOK ==
    /\ time \in 0 .. LastTime
    /\ table \in [RowKeys -> Nat]
    /\ view.at \in {"none", "global", "models", "points", "by_model", "done"}
    /\ view.now \in 0 .. time
    /\ view.models \subseteq Models \ {""}
    /\ \/ view.points = <<>>
       \/ view.points \in
            [1 .. (IF view.range = "1d" THEN HoursADay ELSE DaysOf(view.range)) -> Nat]
    /\ {view.global, view.summary, view.active} \subseteq Nat
    /\ changed \in BOOLEAN
-----------------------------------------------------------------------------
(* listUsage: the window of a page is that of its now.  Without a username the page has *)
(* the totals only.                                                                     *)

ListUsage(range, username, model) ==
    /\ view.at = "none"
    /\ view' = [NoView EXCEPT !.at = "global", !.range = range, !.username = username,
                              !.model = model, !.now = time]
    /\ changed' = FALSE
    /\ UNCHANGED <<time, table>>

ShownWindow == UsageTrendWindow(view.range, view.now)

QueryGlobal ==
    /\ view.at = "global"
    /\ view' = [view EXCEPT !.at = "models", !.global = GlobalUsageSummary(view.now)]
    /\ UNCHANGED <<time, table, changed>>

\* SELECT DISTINCT model ... model <> '', whatever model is selected.
QueryModels ==
    /\ view.at = "models" /\ view.username # ""
    /\ view' = [view EXCEPT !.at = "points",
                !.models = {k[3] : k \in RowsOf(ShownWindow, view.username, "")} \ {""}]
    /\ UNCHANGED <<time, table, changed>>

\* The rows by bucket, their sum, and the points made of them.
QueryPoints ==
    LET raw == RawPoints(RowsOf(ShownWindow, view.username, view.model))
    IN  /\ view.at = "points"
        /\ view' = [view EXCEPT !.at = "by_model",
                                !.points = FillUsageTrendPoints(ShownWindow, raw),
                                !.summary = SumOf(raw),
                                !.active = Cardinality(DOMAIN raw)]
        /\ UNCHANGED <<time, table, changed>>

\* The rows by model.
QueryModelSummary ==
    LET keys == RowsOf(ShownWindow, view.username, view.model)
    IN  /\ view.at = "by_model"
        /\ view' = [view EXCEPT !.at = "done", !.by_model =
               [m \in {k[3] : k \in keys} |-> Total({k \in keys : k[3] = m}, table)]]
        /\ UNCHANGED <<time, table, changed>>

SendTrend ==
    /\ view.at = "done" \/ (view.at = "models" /\ view.username = "")
    /\ view' = NoView
    /\ UNCHANGED <<time, table, changed>>

\* A rebuild commits, and has counted one more request of the hour of t.
Rebuild(t, m, u) ==
    LET Key(size) == <<size, NormalizeUsageBucketStart(t, size), m, u>>
    IN  /\ t <= time
        /\ table' = [table EXCEPT ![Key("hour")] = @ + 1, ![Key("day")] = @ + 1]
        /\ changed' = TRUE
        /\ UNCHANGED <<time, view>>

Elapse ==
    /\ time < LastTime
    /\ time' = time + 1
    /\ UNCHANGED <<table, view, changed>>

TrendInit ==
    /\ time = 0
    /\ table = [k \in RowKeys |-> 0]
    /\ view = NoView
    /\ changed = FALSE

TrendNext ==
    \/ \E range \in Ranges, username \in {""} \cup Usernames, model \in {""} \cup Models :
           ListUsage(range, username, model)
    \/ QueryGlobal \/ QueryModels \/ QueryPoints \/ QueryModelSummary \/ SendTrend
    \/ /\ Total({k \in RowKeys : k[1] = "day"}, table) < MaxRequests
       /\ \E t \in Starts("hour"), m \in Models, u \in Usernames : Rebuild(t, m, u)
    \/ Elapse

TrendSpec == TrendInit /\ [][TrendNext]_trendVars
-----------------------------------------------------------------------------
\* The points of a trend of days add up to its summary, and its active days are those
\* with a point above zero: no row that the summary counts is lost between the window of
\* the query and the places of the points.
PointsAddUp ==
    view.at \in {"by_model", "done"} /\ view.range # "1d" =>
        /\ view.summary = SumOf(view.points)
        /\ view.active = Cardinality({i \in DOMAIN view.points : view.points[i] > 0})

\* The same of a trend of the last 24 hours, as the design of the usage page has it.  It
\* is not so in the code: the window ends now, while the points begin with the hour that
\* the window starts in, so that there is none for the hour that has begun.
LastDayIsShown ==
    view.at = "done" /\ view.range = "1d" => view.summary = SumOf(view.points)

NoOtherRows(username, model) ==
    \A k \in RowKeys : table[k] > 0 => k[4] = username /\ model \in {"", k[3]}

\* When no rebuild commits between the statements of a page, they tell the same: the
\* total of everyone is the sum of the days the overview shows; the sums by model and by
\* bucket are equal; the models offered are those summed up, but for the rows without a
\* model, which are summed up and not offered; and a trend of days is within the total of
\* everyone, and is all of it when the range is 30d and there are no other rows.
QuietPagesAgree ==
    ~changed =>
        /\ view.at \notin {"none", "global"} => view.global = SumOf(DailyTokenUsage(view.now))
        /\ view.at = "done" =>
               /\ SumOf(view.by_model) = view.summary
               /\ view.model = "" => DOMAIN view.by_model \ {""} = view.models
               /\ view.range # "1d" => view.summary <= view.global
               /\ view.range = "30d" /\ NoOtherRows(view.username, view.model)
                      => view.summary = view.global
=============================================================================
