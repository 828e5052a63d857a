--------------------- MODULE DeliveryAndAnalyticsProofs ---------------------
(***************************************************************************)
(* TLAPS proofs about two components that share nothing: the deliveries of *)
(* initial passwords, for any number of resends, and the report of visits, *)
(* for any rows, any length of a day and any lengths of reports.           *)
(***************************************************************************)
EXTENDS CredentialDelivery, Analytics, TLAPS

-----------------------------------------------------------------------------
(* CredentialDelivery.                                                     *)

LEMMA DeliveryInitially == DeliveryInit => DeliveryInv
BY DeliveryAssumption DEF DeliveryInit, DeliveryInv, DeliveryTypeOK, SentIsTrue,
  AnswerIsRecorded, Underway, Delivery, Results

LEMMA DeliveryStep == ASSUME DeliveryInv, [DeliveryNext]_deliveryVars PROVE DeliveryInv'
<1> USE DeliveryAssumption
    DEF DeliveryInv, DeliveryTypeOK, SentIsTrue, AnswerIsRecorded, Underway, Results,
        row, log
<1>1. ASSUME NEW d \in Delivery, Issue(d) PROVE DeliveryInv'
  <2>1. d \in 0..MaxDelivery
    BY DEF Delivery
  <2> QED
    BY <1>1, <2>1 DEF Issue
<1>2. ASSUME NEW d \in Delivery, Receive(d) PROVE DeliveryInv'
  BY <1>2 DEF Receive
<1>3. ASSUME NEW d \in Delivery, Timeout(d) PROVE DeliveryInv'
  BY <1>3 DEF Timeout
<1>4. ASSUME NEW d \in Delivery, Log(d) \/ SendFails(d) PROVE DeliveryInv'
  BY <1>4 DEF Log, SendFails, Finish
<1>5. ASSUME NEW d \in Delivery, Accept(d) PROVE DeliveryInv'
  BY <1>5 DEF Accept
<1>6. ASSUME NEW d \in Delivery, Confirm(d) PROVE DeliveryInv'
  BY <1>6 DEF Confirm, Finish
<1>7. ASSUME NEW d \in Delivery, Save(d) PROVE DeliveryInv'
  <2>1. d \in 0..MaxDelivery
    BY DEF Delivery
  <2> QED
    BY <1>7, <2>1 DEF Save
<1>8. ASSUME NEW d \in Delivery, Report(d) PROVE DeliveryInv'
  BY <1>8 DEF Report
<1>9. CASE DeleteAccount
  BY <1>9 DEF DeleteAccount
<1>10. CASE Crash
  BY <1>10 DEF Crash
<1>11. CASE UNCHANGED deliveryVars
  BY <1>11 DEF deliveryVars
<1> QED
  BY <1>1, <1>2, <1>3, <1>4, <1>5, <1>6, <1>7, <1>8, <1>9, <1>10, <1>11
    DEF DeliveryNext, Answer, Work

(* The inductive invariant of the deliveries.                              *)
THEOREM DeliveryInvariant == DeliverySpec => []DeliveryInv
<1>1. DeliveryInv /\ [DeliveryNext]_deliveryVars => DeliveryInv'
  BY DeliveryStep
<1> QED
  BY <1>1, DeliveryInitially, PTL DEF DeliverySpec

(* Neither email_status nor an answer says "sent" of a message that no     *)
(* mail server took.                                                       *)
THEOREM Sent == DeliverySpec => []SentIsTrue
<1>1. DeliveryInv => SentIsTrue
  BY DEF DeliveryInv
<1> QED
  BY <1>1, DeliveryInvariant, PTL

(* deliverBounded answers with a result only once the goroutine has        *)
(* written it to the application.                                          *)
THEOREM Recorded == DeliverySpec => []AnswerIsRecorded
<1>1. DeliveryInv => AnswerIsRecorded
  BY DEF DeliveryInv
<1> QED
  BY <1>1, DeliveryInvariant, PTL

-----------------------------------------------------------------------------
(* Analytics.                                                              *)
(* A day is an interval of Day ticks.                                      *)
LEMMA DayBounds ==
  ASSUME NEW t \in Int
  PROVE  DayOf(t) \in Int /\ DayOf(t) * Day <= t /\ t < (DayOf(t) + 1) * Day
BY AnalyticsAssumption DEF DayOf

LEMMA DayIsMonotone ==
  ASSUME NEW t \in Int, NEW u \in Int, t <= u
  PROVE  DayOf(t) <= DayOf(u)
BY AnalyticsAssumption DEF DayOf

(* A row of a day that has a bar is in the window of that moment.          *)
LEMMA ShownIsInWindow ==
  ASSUME NEW t \in Int, NEW u \in Int, NEW n \in Nat, DayOf(u) - n + 1 <= DayOf(t)
  PROVE  t >= u - n * Day
<1>1. /\ DayOf(t) \in Int /\ DayOf(t) * Day <= t
      /\ DayOf(u) \in Int /\ u < (DayOf(u) + 1) * Day
  BY DayBounds
<1>2. ASSUME NEW i \in Int, NEW j \in Int, i <= j PROVE i * Day <= j * Day
  BY <1>2, AnalyticsAssumption
<1>3. (DayOf(u) - n + 1) * Day <= DayOf(t) * Day
  BY <1>1, <1>2
<1>4. (DayOf(u) - n + 1) * Day = (DayOf(u) + 1) * Day - n * Day
  BY <1>1, AnalyticsAssumption
<1>5. /\ (DayOf(u) + 1) * Day \in Int /\ n * Day \in Int
      /\ DayOf(t) * Day \in Int /\ (DayOf(u) - n + 1) * Day \in Int
  BY <1>1, AnalyticsAssumption
<1> QED
  BY <1>1, <1>3, <1>4, <1>5

(* The window only moves on.                                               *)
LEMMA WindowMoves ==
  ASSUME NEW t \in Int, NEW u \in Int, NEW n \in Int, t <= u
  PROVE  t - n * Day <= u - n * Day /\ t - n * Day \in Int /\ u - n * Day \in Int
<1>1. n * Day \in Int
  BY AnalyticsAssumption
<1> QED
  BY <1>1

-----------------------------------------------------------------------------
LEMMA AnalyticsInitially == Init => AnalyticsInv
<1> SUFFICES ASSUME Init PROVE AnalyticsInv
  OBVIOUS
<1>1. TypeOK
  BY DEF Init, TypeOK, Steps
<1>2. Stamped /\ Totalled /\ Grouped
  BY DEF Init, Stamped, Totalled, Grouped
<1>3. BarsAreComplete /\ TotalsAgree
  BY DEF Init, BarsAreComplete, TotalsAgree
<1> QED
  BY <1>1, <1>2, <1>3 DEF AnalyticsInv

(* Of a stored row, the stamp and whether it can show are known.           *)
LEMMA StampOfStored ==
  ASSUME TypeOK, Stamped, NEW x \in stored
  PROVE  stamp[x] \in Nat /\ stamp[x] <= clock
BY DEF TypeOK, Stamped

(* While the clock goes on, a row may stop showing and none starts.        *)
LEMMA TickStep == AnalyticsInv /\ Tick => AnalyticsInv'
<1> SUFFICES ASSUME AnalyticsInv, Tick PROVE AnalyticsInv'
  OBVIOUS
<1> USE DEF tables, report
<1>0. TypeOK /\ Stamped /\ Totalled /\ Grouped /\ BarsAreComplete /\ TotalsAgree
  BY DEF AnalyticsInv
<1>1. TypeOK'
  BY <1>0 DEF Tick, TypeOK
<1>2. Stamped'
  BY <1>0 DEF Tick, Stamped, TypeOK
<1>3. \A x \in stored : CanShow(x)' => CanShow(x)
  BY <1>0, StampOfStored, WindowMoves, AnalyticsAssumption DEF Tick, CanShow, TypeOK
<1>4. Totalled'
  BY <1>0, <1>3 DEF Tick, Totalled, Stamped, TypeOK, InWindow, EventsCounted, QuotesCounted
<1>5. Grouped'
  BY <1>0, <1>3 DEF Tick, Grouped, Totalled, Stamped, EventsGrouped, QuotesGrouped
<1>6. BarsAreComplete' /\ TotalsAgree'
  BY <1>0 DEF Tick, BarsAreComplete, TotalsAgree, On
<1> QED
  BY <1>1, <1>2, <1>4, <1>5, <1>6 DEF AnalyticsInv

(* A row that is being inserted is not in the report.                      *)
LEMMA TrackStep ==
  ASSUME AnalyticsInv, NEW x \in Row, Track(x) PROVE AnalyticsInv'
<1> USE DEF tables, report
<1>0. TypeOK /\ Stamped /\ Totalled /\ Grouped /\ BarsAreComplete /\ TotalsAgree
  BY DEF AnalyticsInv
<1>1. TypeOK'
  BY <1>0 DEF Track, TypeOK
<1>2. \A y \in stored : stamp'[y] = stamp[y]
  BY <1>0 DEF Track, Stamped, TypeOK
<1>3. Stamped'
  BY <1>0, AnalyticsAssumption DEF Track, Stamped, TypeOK
<1>4. Totalled'
  BY <1>0, <1>2 DEF Track, Totalled, Stamped, InWindow, CanShow, EventsCounted, QuotesCounted
<1>5. Grouped'
  BY <1>0, <1>2 DEF Track, Grouped, Totalled, Stamped, CanShow, EventsGrouped, QuotesGrouped
<1>6. BarsAreComplete'
  BY <1>0, <1>2 DEF Track, BarsAreComplete, Stamped, On
<1>7. TotalsAgree'
  BY <1>0, <1>2 DEF Track, TotalsAgree, Totalled
<1> QED
  BY <1>1, <1>3, <1>4, <1>5, <1>6, <1>7 DEF AnalyticsInv

LEMMA StoreStep ==
  ASSUME AnalyticsInv, NEW x \in Row, Store(x) PROVE AnalyticsInv'
<1> USE DEF tables, report
<1>0. TypeOK /\ Stamped /\ Totalled /\ Grouped /\ BarsAreComplete /\ TotalsAgree
  BY DEF AnalyticsInv
<1>1. TypeOK' /\ Stamped'
  BY <1>0 DEF Store, TypeOK, Stamped
<1>2. Totalled'
  BY <1>0 DEF Store, Totalled, InWindow, CanShow, EventsCounted, QuotesCounted
<1>3. Grouped'
  BY <1>0 DEF Store, Grouped, CanShow, EventsGrouped, QuotesGrouped
<1>4. BarsAreComplete'
  BY <1>0 DEF Store, BarsAreComplete, On
<1>5. TotalsAgree'
  BY <1>0 DEF Store, TotalsAgree
<1> QED
  BY <1>1, <1>2, <1>3, <1>4, <1>5 DEF AnalyticsInv

LEMMA AskStep ==
  ASSUME AnalyticsInv, NEW n \in Ranges, Ask(n) PROVE AnalyticsInv'
<1> USE DEF tables, report
<1>0. TypeOK /\ Stamped
  BY DEF AnalyticsInv
<1>a. n \in Nat /\ n > 0
  BY AnalyticsAssumption
<1>1. TypeOK'
  BY <1>0, <1>a DEF Ask, TypeOK, Steps
<1>2. Stamped' /\ Totalled' /\ Grouped'
  BY <1>0 DEF Ask, Stamped, Totalled, Grouped, EventsCounted, QuotesCounted,
              EventsGrouped, QuotesGrouped
<1>3. BarsAreComplete' /\ TotalsAgree'
  BY DEF Ask, BarsAreComplete, TotalsAgree
<1> QED
  BY <1>1, <1>2, <1>3 DEF AnalyticsInv

LEMMA CountEventsStep == AnalyticsInv /\ CountEvents => AnalyticsInv'
<1> SUFFICES ASSUME AnalyticsInv, CountEvents PROVE AnalyticsInv'
  OBVIOUS
<1> USE DEF tables, report
<1>0. TypeOK /\ Stamped /\ Totalled /\ Grouped
  BY DEF AnalyticsInv
<1>1. TypeOK'
  BY <1>0 DEF CountEvents, TypeOK, Steps, Since
<1>2. Stamped'
  BY <1>0 DEF CountEvents, Stamped
<1>3. Totalled'
  <2>1. counted' <= clock' /\ ~ QuotesCounted'
    BY <1>0 DEF CountEvents, TypeOK, QuotesCounted
  <2>2. CASE at' = "quotes"
    <3>1. totals' = Since(stored \cap Event)
      BY <2>2 DEF CountEvents
    <3>2. \A x \in stored : CanShow(x)' <=> CanShow(x)
      BY DEF CountEvents, CanShow
    <3>3. \A x \in totals' : InWindow(x)'
      BY <3>1 DEF CountEvents, Since, InWindow
    <3>4. \A x \in begun' : CanShow(x)' => x \in totals' \cup Quote
      BY <1>0, <3>1, <3>2 DEF CountEvents, Since, CanShow, Stamped, TypeOK, Row
    <3> QED
      BY <2>1, <2>2, <3>1, <3>3, <3>4 DEF CountEvents, Since, Totalled
  <2>3. CASE at' = "error"
    <3>1. totals' = {}
      BY <1>0, <2>3 DEF CountEvents, TypeOK, Totalled
    <3> QED
      BY <2>1, <2>3, <3>1 DEF CountEvents, Totalled, EventsCounted
  <2> QED
    BY <2>2, <2>3 DEF CountEvents
<1>4. Grouped'
  BY <1>0 DEF CountEvents, Grouped, EventsGrouped, QuotesGrouped
<1>5. BarsAreComplete' /\ TotalsAgree'
  BY DEF CountEvents, BarsAreComplete, TotalsAgree
<1> QED
  BY <1>1, <1>2, <1>3, <1>4, <1>5 DEF AnalyticsInv

LEMMA CountQuotesStep == AnalyticsInv /\ CountQuotes => AnalyticsInv'
<1> SUFFICES ASSUME AnalyticsInv, CountQuotes PROVE AnalyticsInv'
  OBVIOUS
<1> USE DEF tables, report
<1>0. TypeOK /\ Stamped /\ Totalled /\ Grouped
  BY DEF AnalyticsInv
<1>1. TypeOK'
  BY <1>0 DEF CountQuotes, TypeOK, Steps, Since
<1>2. Stamped'
  BY <1>0 DEF CountQuotes, Stamped
<1>3. Totalled'
  <2>1. totals \subseteq totals' /\ totals' \subseteq totals \cup Since(stored \cap Quote)
    BY DEF CountQuotes
  <2>2. counted <= clock /\ EventsCounted
    BY <1>0 DEF CountQuotes, Totalled, EventsCounted
  <2>3. \A x \in Since(stored \cap Quote) : InWindow(x)
    BY <1>0, <2>2, StampOfStored, WindowMoves DEF Since, InWindow, TypeOK
  <2>4. \A x \in begun : CanShow(x) => x \in totals \cup Quote
    BY <1>0, <2>2 DEF Totalled
  <2>5. \A x \in begun : QuotesCounted' /\ CanShow(x) => x \in totals' \cup Event
    BY <1>0 DEF CountQuotes, QuotesCounted, Since, CanShow, Stamped, TypeOK, Row
  <2>6. \A x \in Row : (InWindow(x)' <=> InWindow(x)) /\ (CanShow(x)' <=> CanShow(x))
    BY DEF CountQuotes, InWindow, CanShow
  <2>7. totals' \subseteq stored' /\ \A x \in totals' : InWindow(x)'
    BY <1>0, <2>1, <2>3, <2>6 DEF CountQuotes, Totalled, Since, TypeOK
  <2>8. \A x \in begun' : CanShow(x)' => x \in totals' \cup Quote
    BY <1>0, <2>1, <2>4, <2>6 DEF CountQuotes, TypeOK
  <2>9. \A x \in begun' : CanShow(x)' /\ QuotesCounted' => x \in totals' \cup Event
    BY <1>0, <2>5, <2>6 DEF CountQuotes, TypeOK
  <2> QED
    BY <2>2, <2>7, <2>8, <2>9 DEF CountQuotes, Totalled
<1>4. Grouped'
  BY <1>0 DEF CountQuotes, Grouped, EventsGrouped, QuotesGrouped
<1>5. BarsAreComplete' /\ TotalsAgree'
  BY DEF CountQuotes, BarsAreComplete, TotalsAgree
<1> QED
  BY <1>1, <1>2, <1>3, <1>4, <1>5 DEF AnalyticsInv

LEMMA EventsByDayStep == AnalyticsInv /\ EventsByDay => AnalyticsInv'
<1> SUFFICES ASSUME AnalyticsInv, EventsByDay PROVE AnalyticsInv'
  OBVIOUS
<1> USE DEF tables, report
<1>0. TypeOK /\ Stamped /\ Totalled /\ Grouped
  BY DEF AnalyticsInv
<1>1. TypeOK'
  BY <1>0 DEF EventsByDay, TypeOK, Steps, Since
<1>2. Stamped'
  BY <1>0 DEF EventsByDay, Stamped
<1>3. Totalled'
  BY <1>0 DEF EventsByDay, Totalled, InWindow, CanShow, EventsCounted, QuotesCounted
<1>4. Grouped'
  <2>1. /\ rows = {} /\ EventsCounted /\ ~ QuotesGrouped'
        /\ at' = "quotesByDay"
    BY <1>0 DEF EventsByDay, Grouped, EventsCounted, QuotesGrouped
  <2>2. \A x \in Row : CanShow(x)' <=> CanShow(x)
    BY DEF EventsByDay, CanShow
  <2>3. rows' \subseteq Since(stored \cap Event)
    BY <2>1 DEF EventsByDay
  <2>4. \A x \in rows' \cap begun : x \in totals
    BY <1>0, <2>1, <2>3, AnalyticsAssumption DEF Since, CanShow, Totalled
  <2>5. EventsGrouped' => rows' = Since(stored \cap Event)
    BY DEF EventsByDay, EventsGrouped
  <2>6. \A x \in begun \cup totals : CanShow(x) /\ EventsGrouped' => x \in rows' \cup Quote
    BY <1>0, <2>5 DEF Since, CanShow, Stamped, Totalled, TypeOK, Row
  <2>7. \A x \in begun' \cup totals' : CanShow(x)' /\ EventsGrouped' => x \in rows' \cup Quote
    BY <1>0, <2>2, <2>6 DEF EventsByDay, TypeOK
  <2> QED
    BY <2>1, <2>3, <2>4, <2>7 DEF EventsByDay, Grouped, Since
<1>5. BarsAreComplete' /\ TotalsAgree'
  BY DEF EventsByDay, BarsAreComplete, TotalsAgree
<1> QED
  BY <1>1, <1>2, <1>3, <1>4, <1>5 DEF AnalyticsInv

LEMMA QuotesByDayStep == AnalyticsInv /\ QuotesByDay => AnalyticsInv'
<1> SUFFICES ASSUME AnalyticsInv, QuotesByDay PROVE AnalyticsInv'
  OBVIOUS
<1> USE DEF tables, report
<1>0. TypeOK /\ Stamped /\ Totalled /\ Grouped
  BY DEF AnalyticsInv
<1>a. /\ rows \subseteq rows' /\ rows' \subseteq rows \cup Since(stored \cap Quote)
      /\ silent' \in BOOLEAN /\ (silent => silent')
      /\ ~ silent' => rows' = rows \cup Since(stored \cap Quote)
  BY <1>0 DEF QuotesByDay, TypeOK
<1>b. at = "quotesByDay" /\ at' = "chart"
      /\ UNCHANGED <<clock, tables, days, totals, chart, begun, counted>>
  BY DEF QuotesByDay
<1>1. TypeOK'
  BY <1>0, <1>a, <1>b DEF TypeOK, Steps, Since
<1>2. Stamped'
  BY <1>0, <1>b DEF Stamped
<1>3. Totalled'
  BY <1>0, <1>a, <1>b DEF Totalled, TypeOK, InWindow, CanShow, EventsCounted, QuotesCounted
<1>4. Grouped'
  <2>1. ~ silent' => QuotesCounted /\ EventsGrouped
    BY <1>0, <1>a, <1>b DEF QuotesCounted, EventsGrouped, TypeOK
  <2>2. \A x \in Row : CanShow(x)' <=> CanShow(x)
    BY <1>b DEF CanShow
  <2>3. ~ silent' => \A x \in Since(stored \cap Quote) \cap begun : x \in totals
    BY <1>0, <2>1, AnalyticsAssumption DEF Since, CanShow, Totalled
  <2>4. ~ silent' => rows' \cap begun \subseteq totals
    BY <1>0, <1>a, <2>3 DEF Grouped, TypeOK
  <2>5. \A x \in begun \cup totals : CanShow(x) /\ ~ silent' => x \in rows' \cup Quote
    BY <1>0, <1>a, <2>1 DEF Grouped
  <2>6. \A x \in begun \cup totals : CanShow(x) /\ ~ silent' => x \in rows' \cup Event
    BY <1>0, <1>a DEF Since, CanShow, Stamped, Totalled, TypeOK, Row
  <2>7. \A x \in begun' \cup totals' : CanShow(x)' =>
          /\ EventsGrouped' => x \in rows' \cup Quote
          /\ QuotesGrouped' => x \in rows' \cup Event
    BY <1>0, <1>b, <2>2, <2>5, <2>6 DEF TypeOK, EventsGrouped, QuotesGrouped
  <2>8. rows' \subseteq stored'
    BY <1>0, <1>a, <1>b DEF Grouped, Since
  <2> QED
    BY <1>b, <2>4, <2>7, <2>8 DEF Grouped
<1>5. BarsAreComplete' /\ TotalsAgree'
  BY <1>b DEF BarsAreComplete, TotalsAgree
<1> QED
  BY <1>1, <1>2, <1>3, <1>4, <1>5 DEF AnalyticsInv

(* The bars: a row that was read and has a bar is in the window, and what  *)
(* the window has read and no bar shows is of an earlier day.              *)
LEMMA ChartStep == AnalyticsInv /\ Chart => AnalyticsInv'
<1> SUFFICES ASSUME AnalyticsInv, Chart PROVE AnalyticsInv'
  OBVIOUS
<1> USE DEF tables, report
<1>0. TypeOK /\ Stamped /\ Totalled /\ Grouped
  BY DEF AnalyticsInv
<1>a. /\ at = "chart" /\ at' = "done"
      /\ UNCHANGED <<clock, tables, days, totals, rows, begun, counted, silent>>
  BY DEF Chart
<1>b. /\ DOMAIN chart' = Shown
      /\ \A d \in Shown : chart'[d] = On(rows, d)
  BY DEF Chart
<1>c. DayOf(clock) \in Int /\ Shown \subseteq Int
  BY <1>0, DayBounds DEF Shown, TypeOK
<1>d. \A x \in stored : stamp[x] \in Nat /\ DayOf(stamp[x]) \in Int
                        /\ DayOf(stamp[x]) <= DayOf(clock)
  BY <1>0, StampOfStored, DayBounds, DayIsMonotone DEF TypeOK
<1>e. \A x \in stored : DayOf(stamp[x]) \in Shown => CanShow(x)
  BY <1>0, <1>c, <1>d, ShownIsInWindow DEF Shown, CanShow, TypeOK
<1>f. \A x \in begun \cup totals : ~ silent /\ CanShow(x) => x \in rows
  <2>1. ~ silent => EventsGrouped /\ QuotesGrouped
    BY <1>a DEF EventsGrouped, QuotesGrouped
  <2> QED
    BY <1>0, <2>1, AnalyticsAssumption DEF Grouped
<1>1. TypeOK'
  BY <1>0, <1>a, <1>c DEF Chart, TypeOK, Steps, On
<1>2. Stamped' /\ Totalled' /\ Grouped'
  BY <1>0, <1>a DEF Stamped, Totalled, Grouped, InWindow, CanShow, EventsCounted, QuotesCounted,
                    EventsGrouped, QuotesGrouped
<1>3. BarsAreComplete'
  BY <1>0, <1>a, <1>b, <1>e, <1>f DEF BarsAreComplete, On, Grouped, Stamped, TypeOK
<1>4. TotalsAgree'
  <2> SUFFICES ASSUME ~ silent
               PROVE  LET shown == UNION {chart'[d] : d \in DOMAIN chart'} IN
                      /\ shown \ totals \subseteq stored \ begun
                      /\ \A x \in totals \ shown :
                           /\ stamp[x] >= counted - days * Day
                           /\ \A d \in DOMAIN chart' : DayOf(stamp[x]) < d
    BY <1>a DEF TotalsAgree
  <2>1. \A d \in Shown : chart'[d] \subseteq rows
    BY <1>b DEF On
  <2>2. (UNION {chart'[d] : d \in DOMAIN chart'}) \ totals \subseteq stored \ begun
    BY <1>0, <1>b, <2>1 DEF Grouped
  <2>3. ASSUME NEW x \in totals, x \notin UNION {chart'[d] : d \in DOMAIN chart'}
        PROVE  /\ stamp[x] >= counted - days * Day
               /\ \A d \in DOMAIN chart' : DayOf(stamp[x]) < d
    <3>1. x \in stored /\ InWindow(x)
      BY <1>0 DEF Totalled
    <3>2. DayOf(stamp[x]) \notin Shown
      BY <1>b, <1>e, <1>f, <2>3, <3>1 DEF On
    <3>3. \A d \in Shown : DayOf(stamp[x]) < d
      BY <1>0, <1>c, <1>d, <3>1, <3>2 DEF Shown, TypeOK
    <3> QED
      BY <1>b, <3>1, <3>3 DEF InWindow
  <2> QED
    BY <2>2, <2>3
<1> QED
  BY <1>1, <1>2, <1>3, <1>4 DEF AnalyticsInv

(* No statement of the report or of a visitor breaks what the report       *)
(* relies on: any number of rows and reports, any midnight in between.     *)
THEOREM AnalyticsInvariant == Spec => []AnalyticsInv
<1>1. AnalyticsInv /\ [Next]_vars => AnalyticsInv'
  <2> SUFFICES ASSUME AnalyticsInv, [Next]_vars PROVE AnalyticsInv'
    OBVIOUS
  <2>1. CASE UNCHANGED vars
    BY <2>1 DEF vars, tables, report, AnalyticsInv, TypeOK, Stamped, Totalled, Grouped,
         BarsAreComplete, TotalsAgree, InWindow, CanShow, On,
         EventsCounted, QuotesCounted, EventsGrouped, QuotesGrouped
  <2>2. CASE Next
    BY <2>2, TickStep, TrackStep, StoreStep, AskStep, CountEventsStep, CountQuotesStep,
       EventsByDayStep, QuotesByDayStep, ChartStep DEF Next
  <2> QED
    BY <2>1, <2>2
<1> QED
  BY <1>1, AnalyticsInitially, PTL DEF Spec

(* A bar misses nothing that was there when the report was asked for, and  *)
(* shows nothing that is not there (EventRepo.GetAnalytics, the series).   *)
THEOREM Bars == Spec => []BarsAreComplete
<1>1. AnalyticsInv => BarsAreComplete
  BY DEF AnalyticsInv
<1> QED
  BY <1>1, AnalyticsInvariant, PTL

(* Totals and bars differ by what arrived meanwhile and by the edge of the *)
(* window only (NOW() of four statements and time.Now of the series).      *)
THEOREM Totals == Spec => []TotalsAgree
<1>1. AnalyticsInv => TotalsAgree
  BY DEF AnalyticsInv
<1> QED
  BY <1>1, AnalyticsInvariant, PTL
=============================================================================
