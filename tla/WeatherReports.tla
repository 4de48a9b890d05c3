---------------------------- MODULE WeatherReports ----------------------------
(***************************************************************************)
(* The reports on rain: aggregations over MongoDB collections another      *)
(* program writes.  A request reads, computes and answers; what it         *)
(* computes is written here as operators and asked for by one action per   *)
(* repository method, on every collection of a small set.                  *)
(*                                                                         *)
(* Stored rain is a whole number of small units, so that sums are exact;   *)
(* Fine of them are a tenth of a millimetre, which is what answers are     *)
(* rounded to.                                                             *)
(***************************************************************************)
EXTENDS Integers, Sequences, SequencesExt, QueryOrder

CONSTANTS
    HoursPerDay,    \* 24
    LongDays,       \* days of the long window of getRainInsights: 4
    Volumes,        \* rain of an hour or of a reading
    Fine,           \* units of stored rain in a tenth of a millimetre
    Instants,       \* times of readings and bounds of windows, hours since a Monday
    MonthStarts, YearStarts,    \* hours at which a month, a year begins (UTC)
    Spans,          \* lengths of windows, in hours
    Null

ASSUME CalendarAssumption ==
    /\ HoursPerDay \in Nat \ {0} /\ LongDays \in Nat \ {0}
    /\ Volumes \subseteq Nat /\ Null \notin Volumes /\ Fine \in Nat \ {0}
    /\ Spans \subseteq Nat
    /\ Instants \subseteq Int /\ IsFiniteSet(Instants)
    /\ MonthStarts \subseteq Int /\ IsFiniteSet(MonthStarts)
    /\ YearStarts \subseteq Int /\ IsFiniteSet(YearStarts)
    /\ \A t \in Instants : (\E s \in MonthStarts : s <= t) /\ (\E s \in YearStarts : s <= t)
    /\ \A s, t \in MonthStarts : s < t => t - s >= 28 * 24
    /\ \A s, t \in YearStarts : s < t => t - s >= 365 * 24

VARIABLE report     \* the last request, what it read and its answer

Sum(f, S) == SumFunctionOnSet(f, S)

\* parseFloat(rain.toFixed(1)): to the nearest tenth, up when there are two.
ToFixed(rain) == (2 * rain + Fine) \div (2 * Fine)

\* $round: [rain, 1]: to the nearest tenth, to the even one when there are two.
Rounded(rain) ==
    IF (2 * rain) % (2 * Fine) = Fine /\ ToFixed(rain) % 2 = 1
    THEN ToFixed(rain) - 1 ELSE ToFixed(rain)

-----------------------------------------------------------------------------
(***************************************************************************)
(* getRainInsights.  A document of a station's day has the rain of each    *)
(* hour; docDate is the start of its day.  A moment is a number of half    *)
(* hours, so that a request may come on the hour and after it.             *)
(***************************************************************************)
HalfHours == 2
Hours == 0 .. HoursPerDay - 1
Day == HoursPerDay * HalfHours
Long == LongDays * Day
DayOf(t) == t \div Day
HourOf(t) == (t \div HalfHours) % HoursPerDay
DocDate(doc) == doc.day * Day

RainFrom(doc, h) == Sum(doc.perHour, {k \in Hours : k >= h})

\* doc.rainVolumeAcc ?? 0
RainOf(doc) == IF doc.acc = Null THEN 0 ELSE doc.acc

\* The documents since the start of the day of the long cutoff, in the order
\* $push meets them: the pipeline does not sort.
Matched(docs, now) ==
    LET places == Ascending({i \in DOMAIN docs : docs[i].day >= DayOf(now - Long)})
    IN  [j \in DOMAIN places |-> docs[places[j]]]

LastHour(records, now) ==
    Sum([i \in DOMAIN records |->
            IF records[i].day = DayOf(now) THEN records[i].perHour[HourOf(now)] ELSE 0],
        DOMAIN records)

\* Mutant of SecondToLast: the last record, which is today's.
LastRecord(records, i) == i = Len(records)

SecondToLast(records, i) == i = Len(records) - 1

LastDay(records, now) ==
    Sum([i \in DOMAIN records |->
            IF SecondToLast(records, i) /\ DocDate(records[i]) < now - Day
            THEN RainFrom(records[i], HourOf(now - Day))
            ELSE IF DocDate(records[i]) >= now - Day THEN RainOf(records[i]) ELSE 0],
        DOMAIN records)

\* Mutant of LastDays: the hour of the cutoff is left out.
LastDaysAfter(records, now) ==
    Sum([i \in DOMAIN records |->
            IF i = 1 /\ DocDate(records[i]) < now - Long
            THEN RainFrom(records[i], HourOf(now - Long) + 1)
            ELSE RainOf(records[i])],
        DOMAIN records)

LastDays(records, now) ==
    Sum([i \in DOMAIN records |->
            IF i = 1 /\ DocDate(records[i]) < now - Long
            THEN RainFrom(records[i], HourOf(now - Long))
            ELSE RainOf(records[i])],
        DOMAIN records)

RainInsights(docs, now) ==
    LET records == Matched(docs, now)
    IN  [last96h |-> ToFixed(LastDays(records, now)), last24h |-> ToFixed(LastDay(records, now)),
         last1h |-> ToFixed(LastHour(records, now))]

-----------------------------------------------------------------------------
(***************************************************************************)
(* Time series.  determineGranularity, $dateTrunc (weeks begin on Monday), *)
(* the grouping by interval, and the points in the order of time.          *)
(***************************************************************************)
\* Mutant of Granularity: a quarter in days.
GranularityFine(span) ==
    CASE span <= 7 * 24   -> "hour"
      [] span > 7 * 24  /\ span <= 365 * 24 -> "day"
      [] OTHER            -> "year"

Granularity(span) ==
    CASE span <= 7 * 24   -> "hour"
      [] span > 7 * 24  /\ span <= 30 * 24  -> "day"
      [] span > 30 * 24 /\ span <= 90 * 24  -> "week"
      [] span > 90 * 24 /\ span <= 365 * 24 -> "month"
      [] OTHER            -> "year"

IntervalStart(unit, t) ==
    CASE unit = "hour"  -> t
      [] unit = "day"   -> t - (t % 24)
      [] unit = "week"  -> t - (t % (7 * 24))
      [] unit = "month" -> Max({s \in MonthStarts : s <= t})
      [] unit = "year"  -> Max({s \in YearStarts : s <= t})

\* Mutant of MatchStage: $lte.
MatchClosed(readings, start, end) == {r \in readings : start <= r.at /\ r.at <= end}

MatchStage(readings, start, end) == {r \in readings : start <= r.at /\ r.at < end}

\* $sum takes null for 0.
Volume(r) == IF r.rain = Null THEN 0 ELSE r.rain

\* Of the metrics of an interval, the rain and the number of readings.
Point(timestamp, rs) ==
    [timestamp |-> timestamp, rain |-> Rounded(Sum([r \in rs |-> Volume(r)], rs)),
     count |-> Cardinality(rs)]

\* Readings grouped by interval, $sort: { intervalStart: 1 }.
Series(readings, start, end) ==
    LET unit == Granularity(end - start)
        rs == MatchStage(readings, start, end)
        timestamps == Ascending({IntervalStart(unit, r.at) : r \in rs})
    IN  [i \in DOMAIN timestamps |->
            Point(timestamps[i], {r \in rs : IntervalStart(unit, r.at) = timestamps[i]})]

\* getAggregatedRainMetrics: the rain of the window, in one sum, rounded once.
AggregatedRain(readings, start, end) ==
    Rounded(Sum([r \in readings |-> Volume(r)], MatchStage(readings, start, end)))

\* The intervals of a station with a reading every hour.
Intervals(start, span) ==
    {IntervalStart(Granularity(span), t) : t \in start .. start + span - 1}

-----------------------------------------------------------------------------
(***************************************************************************)
(* The requests.  The collections hold at most one document of a station   *)
(* and day, and one reading of a time.                                     *)
(***************************************************************************)
Answer(kind, read, answer) == report' = [kind |-> kind, read |-> read, answer |-> answer]

RainDays == 0 .. LongDays

\* Some days' documents, in any order; rainVolumeAcc is null or the sum of the hours.
RainCollections ==
    UNION {{[i \in 1 .. Cardinality(D) |->
                [day |-> order[i], perHour |-> rain[order[i]],
                 acc |-> IF order[i] \in silent THEN Null ELSE Sum(rain[order[i]], Hours)]] :
               order \in SetToSeqs(D), rain \in [D -> [Hours -> Volumes]], silent \in SUBSET D} :
               D \in SUBSET RainDays \ {{}}}

GetRainInsights ==
    \E docs \in RainCollections, now \in Long .. Long + Day - 1 :
        Answer("rain", [docs |-> docs, now |-> now], RainInsights(docs, now))

Readings == [at : Instants, rain : Volumes \union {Null}]
DistinctTimes(rs) == \A r, q \in rs : r.at = q.at => r = q

FindMetricByStations ==
    \E readings \in {rs \in SUBSET Readings : DistinctTimes(rs)} :
    \E start, middle, end \in Instants :
        /\ start < middle /\ middle < end
        /\ Answer("series",
                  [readings |-> readings, start |-> start, middle |-> middle, end |-> end],
                  Series(readings, start, end))

FindMetricsOfFullStation ==
    \E start \in Instants, span \in Spans :
        Answer("full", [start |-> start, span |-> span], Intervals(start, span))

ReportsInit == report = [kind |-> "none", read |-> Null, answer |-> Null]

ReportsNext ==
    /\ report.kind = "none"
    /\ GetRainInsights \/ FindMetricByStations \/ FindMetricsOfFullStation

ReportsSpec == ReportsInit /\ [][ReportsNext]_report

-----------------------------------------------------------------------------
\* What the other program is taken to do: it adds up the hours of a document.
Accumulated(docs) ==
    \A i \in DOMAIN docs : docs[i].acc # Null /\ docs[i].acc = RainFrom(docs[i], 0)

(***************************************************************************)
(* The rain of the last hour is part of that of the last day, and this of  *)
(* that of the last four days, whatever days have documents and in         *)
(* whatever order they come, when each holds the sum of its hours.         *)
(***************************************************************************)
RainWindowsNest ==
    report.kind = "rain" /\ Accumulated(report.read.docs) =>
        /\ report.answer.last1h <= report.answer.last24h
        /\ report.answer.last24h <= report.answer.last96h

(***************************************************************************)
(* When a station's documents hold the sum of their hours and come in the  *)
(* order of days, the rain of four days is that of the hours since the     *)
(* cutoff's, rounded once; and when there is one of yesterday and one of   *)
(* today, so is the rain of a day.                                         *)
(***************************************************************************)
RainSince(docs, t) ==
    Sum([i \in DOMAIN docs |->
            Sum(docs[i].perHour, {h \in Hours : docs[i].day * HoursPerDay + h >= t \div HalfHours})],
        DOMAIN docs)

RainIsExact ==
    report.kind = "rain" /\ Accumulated(report.read.docs) =>
        LET docs == report.read.docs
            now == report.read.now
            Has(day) == \E i \in DOMAIN docs : docs[i].day = day
        IN  (\A i, j \in DOMAIN docs : i < j => docs[i].day < docs[j].day) =>
                /\ report.answer.last96h = ToFixed(RainSince(docs, now - Long))
                /\ Has(DayOf(now)) /\ Has(DayOf(now) - 1) =>
                      report.answer.last24h = ToFixed(RainSince(docs, now - Day))

(***************************************************************************)
(* Windows that meet share no reading and miss none, although they and     *)
(* their union are cut into intervals of different lengths: the readings   *)
(* of a window are those of its two halves together, and so is its rain,   *)
(* but for half a tenth for each point that is rounded.  The aggregate of  *)
(* the same window is rounded once.  Where all readings are whole tenths   *)
(* the three agree.                                                        *)
(***************************************************************************)
Apart(a, b, roundings) == 2 * (a - b) <= roundings /\ 2 * (b - a) <= roundings

SeriesAddUp ==
    report.kind = "series" =>
        LET q == report.read
            Total(points) == Sum([i \in DOMAIN points |-> points[i].rain], DOMAIN points)
            Number(points) == Sum([i \in DOMAIN points |-> points[i].count], DOMAIN points)
            left == Series(q.readings, q.start, q.middle)
            right == Series(q.readings, q.middle, q.end)
            rain == AggregatedRain(q.readings, q.start, q.end)
        IN  /\ Number(report.answer) = Number(left) + Number(right)
            /\ Apart(Total(report.answer), Total(left) + Total(right),
                     Len(report.answer) + Len(left) + Len(right))
            /\ Apart(Total(report.answer), rain, Len(report.answer) + 1)
            /\ (\A r \in q.readings : Volume(r) % Fine = 0) =>
                  Total(report.answer) = Total(left) + Total(right) /\ Total(report.answer) = rain

(***************************************************************************)
(* No window of up to a year and an hour is answered with more points than *)
(* a week of hours has.                                                    *)
(***************************************************************************)
PointsAreBounded ==
    report.kind = "full" /\ report.read.span <= 365 * 24 + 1 =>
        Cardinality(report.answer) <= 7 * 24 + 1
=============================================================================
