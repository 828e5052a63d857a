------------------------------- MODULE Analytics -------------------------------
(***************************************************************************)
(* The panel's report of visits: four statements and a reading of Go's     *)
(* clock, between which visitors go on and midnight may pass.  The         *)
(* database and Go share one clock, counted in ticks; days are UTC.  A     *)
(* number of the report is the set of the rows that it counts.             *)
(***************************************************************************)
EXTENDS Integers

CONSTANTS
  Event,    \* ids that rows of company_events may take
  Quote,    \* ids that rows of quote_requests may take
  Day,      \* ticks in a day
  Ranges,   \* the lengths a report may have, in days
  Horizon,  \* bound: the clock stops here
  None      \* no time: no such row

ASSUME AnalyticsAssumption ==
  /\ Event \cap Quote = {}
  /\ Day \in Nat \ {0} /\ Ranges \subseteq Nat \ {0} /\ Horizon \in Nat /\ None \notin Nat

(* An event is a profile view or a contact click, which have a total and a *)
(* bar, each by a FILTER of its own.  Those of the quote form, which have  *)
(* totals only, and service views, which have neither, are left out.       *)
Row == Event \cup Quote
DayOf(t) == t \div Day

VARIABLES
  clock,
  stamp,    \* created_at by row, from when its INSERT begins
  stored,   \* rows that are committed
  at,       \* the statement the report comes to next
  days,     \* its length
  totals,   \* result.Totals
  rows,     \* rows and rfqRows
  chart,    \* result.Trend: the bars of each day
  begun,    \* history: what was stored when the report was asked for
  counted,  \* history: the clock of the first statement
  silent    \* history: a statement failed and the report went on

tables == <<stamp, stored>>
report == <<at, days, totals, rows, chart, begun, counted, silent>>
vars == <<clock, tables, report>>

On(S, d) == {x \in S : DayOf(stamp[x]) = d}

Init ==
  /\ clock = 0 /\ stamp = [x \in Row |-> None] /\ stored = {}
  /\ at = "idle" /\ days = 0 /\ totals = {} /\ rows = {} /\ chart = <<>>
  /\ begun = {} /\ counted = 0 /\ silent = FALSE

Tick == clock < Horizon /\ clock' = clock + 1 /\ UNCHANGED <<tables, report>>

(* TrackEvent, and a quote for the company: one INSERT, stamped when it    *)
(* begins and seen by others when it ends.                                 *)
Track(x) ==
  /\ stamp[x] = None
  /\ stamp' = [stamp EXCEPT ![x] = clock]
  /\ UNCHANGED <<clock, stored, report>>

Store(x) ==
  /\ stamp[x] # None /\ x \notin stored
  /\ stored' = stored \cup {x}
  /\ UNCHANGED <<clock, stamp, report>>

-----------------------------------------------------------------------------
(* Mutant: the first day shown is left out.                                *)
SinceNext(S) == {x \in S : stamp[x] >= clock - (days - 1) * Day}

(* created_at >= NOW() - days * INTERVAL '1 day'.                          *)
Since(S) == {x \in S : stamp[x] >= clock - days * Day}

Ask(n) ==
  /\ at \in {"idle", "done", "error"}
  /\ at' = "events" /\ days' = n
  /\ totals' = {} /\ rows' = {} /\ chart' = <<>>
  /\ begun' = stored /\ counted' = 0 /\ silent' = FALSE
  /\ UNCHANGED <<clock, tables>>

(* The only statement whose failure reaches the caller.                    *)
CountEvents ==
  /\ at = "events" /\ counted' = clock
  /\ \/ at' = "quotes" /\ totals' = Since(stored \cap Event)
     \/ at' = "error" /\ UNCHANGED totals
  /\ UNCHANGED <<clock, tables, days, rows, chart, begun, silent>>

CountQuotes ==
  /\ at = "quotes" /\ at' = "eventsByDay"
  /\ \/ totals' = totals \cup Since(stored \cap Quote) /\ UNCHANGED silent
     \/ silent' = TRUE /\ UNCHANGED totals
  /\ UNCHANGED <<clock, tables, days, rows, chart, begun, counted>>

(* GROUP BY day.                                                           *)
EventsByDay ==
  /\ at = "eventsByDay" /\ at' = "quotesByDay"
  /\ \/ rows' = Since(stored \cap Event) /\ UNCHANGED silent
     \/ silent' = TRUE /\ UNCHANGED rows
  /\ UNCHANGED <<clock, tables, days, totals, chart, begun, counted>>

(* A failure on the way keeps the days read before it.                     *)
QuotesByDay ==
  /\ at = "quotesByDay" /\ at' = "chart"
  /\ LET quotes == Since(stored \cap Quote) IN
       \/ rows' = rows \cup quotes /\ UNCHANGED silent
       \/ \E read \in SUBSET {DayOf(stamp[x]) : x \in quotes} :
            rows' = rows \cup {x \in quotes : DayOf(stamp[x]) \in read} /\ silent' = TRUE
  /\ UNCHANGED <<clock, tables, days, totals, chart, begun, counted>>

(* Mutant: up to yesterday.                                                *)
ShownUntilYesterday == (DayOf(clock) - days)..(DayOf(clock) - 1)

(* The days up to today by Go's clock, which is read last.                 *)
Shown == (DayOf(clock) - days + 1)..DayOf(clock)

Chart ==
  /\ at = "chart" /\ at' = "done"
  /\ chart' = [d \in Shown |-> On(rows, d)]
  /\ UNCHANGED <<clock, tables, days, totals, rows, begun, counted, silent>>

Next ==
  \/ Tick
  \/ \E x \in Row : Track(x) \/ Store(x)
  \/ \E n \in Ranges : Ask(n)
  \/ CountEvents \/ CountQuotes \/ EventsByDay \/ QuotesByDay \/ Chart

Spec == Init /\ [][Next]_vars

-----------------------------------------------------------------------------
Steps == {"idle", "events", "quotes", "eventsByDay", "quotesByDay", "chart", "done", "error"}

TypeOK ==
  /\ clock \in Nat /\ stamp \in [Row -> Nat \cup {None}] /\ stored \subseteq Row
  /\ at \in Steps /\ days \in Nat /\ (at \notin {"idle", "error"} => days > 0)
  /\ totals \subseteq Row /\ rows \subseteq Row
  /\ (at = "done" => DOMAIN chart \subseteq Int /\ chart \in [DOMAIN chart -> SUBSET Row])
  /\ begun \subseteq Row /\ counted \in Nat /\ silent \in BOOLEAN

(* A bar never shows more than there is, and no less than there was when   *)
(* the report was asked for, the day at the edge of the window included.   *)
BarsAreComplete ==
  at = "done" =>
    \A d \in DOMAIN chart :
      /\ chart[d] \subseteq On(stored, d)
      /\ silent \/ On(begun, d) \subseteq chart[d]

(* The totals of what has bars differ from them by no more than what       *)
(* arrived in between and what the window holds of days before the first   *)
(* bar, which the totals count and no bar shows.                           *)
TotalsAgree ==
  at = "done" /\ ~silent =>
    LET shown == UNION {chart[d] : d \in DOMAIN chart} IN
    /\ shown \ totals \subseteq stored \ begun
    /\ \A x \in totals \ shown :
         /\ stamp[x] >= counted - days * Day
         /\ \A d \in DOMAIN chart : DayOf(stamp[x]) < d

-----------------------------------------------------------------------------
(* The inductive invariant.  A row can show as long as the window reaches  *)
(* back to it; no statement but one that failed has left out a row that    *)
(* was there before and can show.                                          *)
InWindow(x) == stamp[x] >= counted - days * Day
CanShow(x) == stamp[x] >= clock - days * Day

Stamped ==
  /\ \A x \in stored : stamp[x] # None
  /\ \A x \in Row : stamp[x] # None => stamp[x] <= clock
  /\ begun \subseteq stored

EventsCounted  == at \in {"quotes", "eventsByDay", "quotesByDay", "chart"}
QuotesCounted  == at \in {"eventsByDay", "quotesByDay", "chart"} /\ ~ silent
EventsGrouped  == at \in {"quotesByDay", "chart"} /\ ~ silent
QuotesGrouped  == at = "chart" /\ ~ silent

Totalled ==
  /\ totals \subseteq stored
  /\ IF at \in {"idle", "events", "error"} THEN totals = {} ELSE counted <= clock
  /\ \A x \in totals : InWindow(x)
  /\ \A x \in begun : CanShow(x) =>
       (EventsCounted => x \in totals \cup Quote) /\ (QuotesCounted => x \in totals \cup Event)

Grouped ==
  /\ rows \subseteq stored
  /\ at \in {"idle", "events", "quotes", "eventsByDay"} => rows = {}
  /\ ~ silent => rows \cap begun \subseteq totals
  /\ \A x \in begun \cup totals : CanShow(x) =>
       (EventsGrouped => x \in rows \cup Quote) /\ (QuotesGrouped => x \in rows \cup Event)

AnalyticsInv ==
  TypeOK /\ Stamped /\ Totalled /\ Grouped /\ BarsAreComplete /\ TotalsAgree
=============================================================================
