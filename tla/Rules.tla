--------------------------------- MODULE Rules ---------------------------------
(***************************************************************************)
(* The rules that compute: months of a paid period, a page's statistics,   *)
(* the days of a recurring booking, prices and penalties, the week of a    *)
(* business, and the order of the directory.  Each is the code's own way   *)
(* of getting there, checked below against what it is to arrive at.        *)
(*                                                                         *)
(* A date is a record in UTC; a day alone is a number, and day % 7 its     *)
(* weekday (0 = Sunday).  Money is in cents of one currency.               *)
(***************************************************************************)
EXTENDS Lists

CONSTANT Guard      \* how many days expandOccurrences looks at: 400

ASSUME RuleConstants == Guard \in Nat

--------------------------------------------------------------------------------
(***************************************************************************)
(* billing.ts: months.                                                     *)
(***************************************************************************)

Leap(y) == y % 4 = 0 /\ (y % 100 # 0 \/ y % 400 = 0)

DaysIn(y, m) == <<31, IF Leap(y) THEN 29 ELSE 28, 31, 30, 31, 30, 31, 31, 30, 31, 30, 31>>[m]

Date(y, m, d) == [year |-> y, month |-> m, day |-> d]

\* Months since the year 0, and back.
MonthNumber(date) == 12 * date.year + date.month - 1
YearOf(n)  == n \div 12
MonthOf(n) == (n % 12) + 1

\* Date.setUTCMonth: a day the month lacks runs on into the next one.
setUTCMonth(date, n) ==
    LET over == date.day - DaysIn(YearOf(n), MonthOf(n)) IN
    IF over <= 0 THEN Date(YearOf(n), MonthOf(n), date.day)
                 ELSE Date(YearOf(n + 1), MonthOf(n + 1), over)

\* Date.setUTCDate(0): the last day of the month before.
lastOfPrevious(date) ==
    LET n == MonthNumber(date) - 1
    IN  Date(YearOf(n), MonthOf(n), DaysIn(YearOf(n), MonthOf(n)))

\* Mutant: the naive setMonth.
AddOverflowing(from, months) == setUTCMonth(from, MonthNumber(from) + months)

addMonths(from, months) ==
    LET result == setUTCMonth(from, MonthNumber(from) + months)
    IN  IF result.day # from.day THEN lastOfPrevious(result) ELSE result

BILLING_PERIOD_MONTHS == [monthly |-> 1, annual |-> 12]

periodEnd(from, period) == addMonths(from, BILLING_PERIOD_MONTHS[period])

--------------------------------------------------------------------------------
(***************************************************************************)
(* page-stats.ts and PageStatsController.mine.                             *)
(***************************************************************************)

PAGE_STAT_KINDS == {"view", "whatsapp", "directions"}

\* The month a day is in, and the one before, as <<year, month>>.
statMonths(day) ==
    [thisMonth |-> <<day.year, day.month>>,
     lastMonth |-> IF day.month = 1 THEN <<day.year - 1, 12>> ELSE <<day.year, day.month - 1>>]

\* found: the rows the query answered.  A row of a kind that is no longer known, or of
\* neither month, is passed over.
totalsByMonth(rows, found, months) ==
    LET Total(month) ==
            [k \in PAGE_STAT_KINDS |->
                SumOf([i \in DOMAIN rows |-> rows[i].count],
                      {i \in found : rows[i].kind = k /\ <<rows[i].day.year, rows[i].day.month>> = month})]
    IN  [thisMonth |-> Total(months.thisMonth), lastMonth |-> Total(months.lastMonth)]

\* The query takes every row from the first of last month on; a free page past its
\* trial gets this month's visits.
mineStats(rows, today, unlocked) ==
    LET months == statMonths(today)
        since  == 12 * months.lastMonth[1] + months.lastMonth[2] - 1
        totals == totalsByMonth(rows, {i \in DOMAIN rows : MonthNumber(rows[i].day) >= since}, months)
    IN  IF unlocked THEN [unlocked |-> TRUE, totals |-> totals]
        ELSE [unlocked |-> FALSE, totals |-> [thisMonth |-> totals.thisMonth.view]]

--------------------------------------------------------------------------------
(***************************************************************************)
(* recurrence-rule.ts.                                                     *)
(***************************************************************************)

\* An instant is a day and a time of it.
NotBefore(x, y) == x.day > y.day \/ (x.day = y.day /\ x.time >= y.time)

\* rule: the weekdays, the time of day, how many, and the last day; a rule has a count
\* or a last day, and the other is more than the loop can reach.  The cursor starts on
\* the first day at the rule's time, which may be over.
Occur(rule, from, maxOccurrences, results, i) ==
    LET cursor == [day |-> from.day + i, time |-> rule.time] IN
    IF /\ Len(results) < Min({rule.count, maxOccurrences})
       /\ cursor.day % 7 \in rule.weekdays
       /\ NotBefore(cursor, from)
       /\ cursor.day <= rule.until
    THEN Append(results, cursor.day) ELSE results

expandOccurrences(rule, from, maxOccurrences) ==
    FoldLeft(LAMBDA results, i : Occur(rule, from, maxOccurrences, results, i),
             <<>>, [i \in 1..Guard |-> i - 1])

--------------------------------------------------------------------------------
(***************************************************************************)
(* Prices: ProviderMarketplaceAdapter, createBooking, CancellationPolicy.  *)
(***************************************************************************)

UNIT_TO_MINUTES == [min |-> 1, hour |-> 60, day |-> 1440]

longestDurationMinutes(lines) ==
    Max({lines[i].value * UNIT_TO_MINUTES[lines[i].unit] : i \in DOMAIN lines})

Refused == [available |-> FALSE]

\* profile: its own rate and its services, each with a price and a duration, 0 for none
\* ("por acordar").  serviceId is 0 when no service was picked; visible is PUBLICLY_VISIBLE.
checkAvailability(profile, serviceId) ==
    LET service == IF serviceId \in DOMAIN profile.services THEN profile.services[serviceId]
                   ELSE [price |-> 0, minutes |-> 0]
        rate    == IF service.price # 0 THEN service.price ELSE profile.rate
    IN  IF ~profile.visible \/ rate = 0 \/ serviceId \notin DOMAIN profile.services \cup {0}
        THEN Refused
        ELSE [available |-> TRUE, rate |-> rate, commission |-> 0, tax |-> 0,
              service |-> serviceId, minutes |-> service.minutes]

\* The first line that names a service names the booking's.
pickedService(lines) ==
    LET named == {i \in DOMAIN lines : lines[i].service # 0}
    IN  IF named = {} THEN 0 ELSE lines[Min(named)].service

\* A line of the picked service lasts what the business says; the others name none.
bookedLines(lines, availability) ==
    [i \in DOMAIN lines |->
        IF lines[i].service # 0 /\ lines[i].service = availability.service
        THEN IF availability.minutes = 0 THEN lines[i]
             ELSE [lines[i] EXCEPT !.value = availability.minutes, !.unit = "min"]
        ELSE [lines[i] EXCEPT !.service = 0]]

\* What createBooking stores for the lines a client sends, or Refused.
quote(profile, lines) ==
    LET availability == checkAvailability(profile, pickedService(lines))
        meetGreet    == \E i \in DOMAIN lines : lines[i].meetGreet
        free(amount) == IF meetGreet THEN 0 ELSE amount
        rate         == free(availability.rate)
        commission   == free(availability.commission)
        tax          == free(availability.tax)
        booked       == bookedLines(lines, availability)
    IN  IF ~availability.available THEN Refused
        ELSE [available |-> TRUE, rate |-> rate, commission |-> commission, tax |-> tax,
              tip |-> 0, total |-> rate + commission + tax, lines |-> booked,
              minutes |-> longestDurationMinutes(booked)]

\* Money.multiply by one half: Math.round.
half(amount) == (amount + 1) \div 2

FreeWindow == 120

\* calculatePenalty, with the minutes that are left until the service.
calculatePenalty(minutesLeft, rate) == IF minutesLeft >= FreeWindow THEN 0 ELSE half(rate)

--------------------------------------------------------------------------------
(***************************************************************************)
(* BookingController.summary.                                              *)
(***************************************************************************)

startOfWeekUTC(day) == day - (IF day % 7 = 0 THEN 6 ELSE (day % 7) - 1)

\* walks: [status, at (when it is scheduled), done (when it was completed), rate], instants
\* in half days, the even ones midnights; Between includes both ends.  What a business
\* keeps is its rate; the strip counts what is on the calendar.
summary(walks, today) ==
    LET start     == startOfWeekUTC(today)
        inWeek(t) == 2 * start <= t /\ t <= 2 * (start + 7)
        dayOf(w)  == (w.at \div 2) - start
        completed == {i \in DOMAIN walks : walks[i].status = "completed" /\ inWeek(walks[i].done)}
        scheduled == {i \in DOMAIN walks :
                        /\ walks[i].status \in {"confirmed", "in_progress", "completed"}
                        /\ inWeek(walks[i].at)}
    IN  [earnings  |-> SumOf([i \in DOMAIN walks |-> walks[i].rate], completed),
         completed |-> Cardinality(completed),
         days      |-> [d \in 0..6 |-> Cardinality({i \in scheduled : dayOf(walks[i]) = d})]]

--------------------------------------------------------------------------------
(***************************************************************************)
(* ratings.ts and review-ranking.ts.                                       *)
(***************************************************************************)

PRIOR_MEAN   == 3
PRIOR_WEIGHT == 3

\* AVG and COUNT of a business's reviews; the average stays a fraction.
loadRatings(ratings) == [sum |-> SumOf(ratings, DOMAIN ratings), count |-> Len(ratings)]

\* Tenths of a bone, rounded: what the app shows.
publicRating(r) == [tenths |-> (20 * r.sum + r.count) \div (2 * r.count), count |-> r.count]

\* rankingScore as a fraction.
Score(r)     == [num |-> PRIOR_MEAN * PRIOR_WEIGHT + r.sum, den |-> PRIOR_WEIGHT + r.count]

\* Mutant: by the plain average.
AbovePlain(a, b) == a.sum * b.count > b.sum * a.count

Above(a, b)  == Score(a).num * Score(b).den > Score(b).num * Score(a).den
Level(a, b)  == Score(a).num * Score(b).den = Score(b).num * Score(a).den

\* The comparator, of the businesses in the order they came.
Sooner(items, i, j) ==
    LET a == items[i] b == items[j] IN
    \/ Above(a, b)
    \/ Level(a, b) /\ (a.count > b.count \/ (a.count = b.count /\ i < j))

\* items[i] is the rating of the i-th business, newest first; the answer is their order.
rankByRating(items) ==
    LET reviewed == {i \in DOMAIN items : items[i].count > 0}
    IN  Listed(reviewed, {p \in reviewed \X reviewed : Sooner(items, p[1], p[2])})
          \o Ascending(DOMAIN items \ reviewed)

--------------------------------------------------------------------------------
(***************************************************************************)
(* What the rules are to arrive at, for one input each; MCRules has the    *)
(* inputs.                                                                 *)
(***************************************************************************)

\* billing.ts: "clamping instead of overflowing".  A period ends in the month it is to
\* end in, on the same day or the last one that month has.
MonthsClamp(from) ==
    \A period \in DOMAIN BILLING_PERIOD_MONTHS :
        LET n == MonthNumber(from) + BILLING_PERIOD_MONTHS[period]
        IN  periodEnd(from, period)
              = Date(YearOf(n), MonthOf(n), Min({from.day, DaysIn(YearOf(n), MonthOf(n))}))

\* page-stats.ts: a month's totals are the counts of its days, also across a new year,
\* and nothing is counted in two months or in none of them.
StatsAddUp(rows, today) ==
    LET totals == mineStats(rows, today, TRUE).totals
        Of(k, ago) == SumOf([i \in DOMAIN rows |-> rows[i].count],
                            {i \in DOMAIN rows : /\ rows[i].kind = k
                                                 /\ MonthNumber(rows[i].day) = MonthNumber(today) - ago})
    IN  /\ \A k \in PAGE_STAT_KINDS : /\ totals.thisMonth[k] = Of(k, 0)
                                      /\ totals.lastMonth[k] = Of(k, 1)
        /\ mineStats(rows, today, FALSE).totals.thisMonth = Of("view", 0)

\* recurrence-rule.ts: an expansion is the earliest days the rule asks for, today's only
\* when its hour is still to come, the last day included, and no more than were asked.
OccurrencesAsAsked(rule, from, most) ==
    LET days  == expandOccurrences(rule, from, most)
        asked == Min({rule.count, most})
        Fits(d) == /\ d % 7 \in rule.weekdays /\ d <= rule.until
                   /\ d = from.day => from.time <= rule.time
    IN  /\ \A i \in DOMAIN days : Fits(days[i]) /\ from.day <= days[i]
        /\ \A i, j \in DOMAIN days : i < j => days[i] < days[j]
        /\ Len(days) <= asked
        /\ \A d \in from.day..(from.day + Guard - 1) :
              Fits(d) => \/ \E i \in DOMAIN days : days[i] = d
                         \/ Len(days) = asked /\ \A i \in DOMAIN days : days[i] < d

\* BookingController.summary: every walk of three weeks is on its own day of its own week
\* only, and the earnings of the weeks are all there is; a walk that ends as one week ends,
\* on the instant, is in both.
WeekIsWhole(walks) ==
    LET week(d)   == summary(walks, d)
        rates     == [i \in DOMAIN walks |-> walks[i].rate]
        completed == {i \in DOMAIN walks : walks[i].status = "completed"}
    IN  /\ week(3).earnings + week(10).earnings + week(17).earnings
             = SumOf(rates, completed) + SumOf(rates, {i \in completed : walks[i].done \in {16, 30}})
        /\ \A d \in 1..21 :
             /\ startOfWeekUTC(d) % 7 = 1 /\ d - startOfWeekUTC(d) \in 0..6
             /\ week(d).days[d - startOfWeekUTC(d)]
                  = Cardinality({i \in DOMAIN walks : walks[i].at \div 2 = d /\ walks[i].status # "cancelled"})

\* service-catalog.ts: "the booking is priced and timed from the entry, never from what
\* the app sends"; and nothing is added to the business's rate.
PricedFromEntry(profile, lines) ==
    LET q == quote(profile, lines)
        s == pickedService(lines)
    IN  q.available =>
          /\ profile.visible /\ s \in DOMAIN profile.services \cup {0}
          /\ q.total = IF \E i \in DOMAIN lines : lines[i].meetGreet THEN 0
                       ELSE IF s # 0 /\ profile.services[s].price # 0 THEN profile.services[s].price
                       ELSE profile.rate
          /\ q.total = q.rate
          /\ \A i \in DOMAIN q.lines : q.lines[i].service # 0 =>
                /\ q.lines[i].service = s
                /\ profile.services[s].minutes # 0 => q.minutes >= profile.services[s].minutes
          /\ s # 0 /\ (\A i \in DOMAIN lines : lines[i].service = s) /\ profile.services[s].minutes # 0
               => q.minutes = profile.services[s].minutes

\* cancellation-policy.ts, P-18: cancelling later is never cheaper, free up to and
\* including the end of the window, and half the rate to the cent after it.
PenaltyGrows(rate, lefts) ==
    \A left \in lefts :
        LET penalty == calculatePenalty(left, rate) IN
        /\ \A later \in lefts : later < left => calculatePenalty(later, rate) >= penalty
        /\ rate > 0 => (left >= 120 <=> penalty = 0)
        /\ penalty \in {0, rate \div 2, rate - (rate \div 2)}

\* review-ranking.ts: everybody is listed once, the reviewed first; as many reviews and a
\* better average go higher, and so do more reviews of the same average, when it is
\* better than the prior; what is shown is the average to the nearest tenth; and an old
\* hand at 4.8 is not beaten by a newcomer at 5.
RankingRewards(given) ==
    LET items == [i \in DOMAIN given |-> loadRatings(given[i])]
        order == rankByRating(items)
        place(i) == CHOOSE k \in DOMAIN order : order[k] = i
        Before(i, j) ==
            LET a == items[i] b == items[j] IN
            \/ a.count = 0 /\ b.count = 0 /\ i < j
            \/ a.count > 0 /\ b.count = 0
            \/ a.count = b.count /\ a.sum > b.sum
            \/ a.sum * b.count = b.sum * a.count /\ a.count > b.count /\ b.sum > PRIOR_MEAN * b.count
            \/ a = b /\ i < j
    IN  /\ Len(order) = Len(items) /\ ToSet(order) = DOMAIN items
        /\ \A i, j \in DOMAIN items : Before(i, j) => place(i) < place(j)
        /\ \A i \in DOMAIN items : items[i].count > 0 =>
              LET off == publicRating(items[i]).tenths * items[i].count - 10 * items[i].sum
              IN  2 * off \in (-items[i].count)..items[i].count
        /\ Above([sum |-> 192, count |-> 40], [sum |-> 5, count |-> 1])
================================================================================
