------------------------------ MODULE InboxProofs ------------------------------
(***************************************************************************)
(* TLAPS proofs about Inbox, for any companies, ids, texts and requests    *)
(* and a clock of any length.                                              *)
(***************************************************************************)
EXTENDS Inbox, TLAPS

Requests == [step : {"idle", "insert", "confirm", "reply", "mail"},
             company : Company \cup {None}, quote : Quote \cup {None},
             note : Note \cup {None}, start : Time \cup {Null}]

LEMMA IdleRequest == Idle \in Requests
BY DEF Idle, Requests

LEMMA NewRow ==
  ASSUME NEW state \in {"unused", "stored", "deleted"}, NEW c \in Company \cup {None}
  PROVE  New(state, c) \in Row
BY DEF New, Row, Status

LEMMA NewFields ==
  ASSUME NEW state, NEW c
  PROVE  /\ New(state, c).state = state /\ New(state, c).target = c
         /\ New(state, c).reply = None /\ New(state, c).first = Null
BY DEF New

LEMMA AnswerStep ==
  ASSUME TypeOK, NEW r \in Request, Answer(r)
  PROVE  /\ request'[r] = Idle /\ request' \in [Request -> Requests]
         /\ \A s \in Request : s # r => request'[s] = request[s]
BY IdleRequest DEF TypeOK, Answer, Requests

(* The disjuncts of Next, with the columns of a quote taken together.      *)
LEMMA Steps ==
  ASSUME TypeOK, [Next]_vars
  PROVE  \/ \E r \in Request, c \in Company \cup {None} : Submit(r, c)
         \/ \E r \in Request, q \in Quote : InsertQuote(r, q)
         \/ \E r \in Request, c \in Company, q \in Quote, n \in Note : StartReply(r, c, q, n)
         \/ \E r \in Request : InsertFails(r) \/ ReplyFails(r)
         \/ \E r \in Request : Confirm(r)
         \/ \E r \in Request : SetReply(r)
         \/ \E r \in Request : MailReply(r)
         \/ \E c \in Company, q \in Quote, row \in Row :
              /\ SetColumn(c, q, row)
              /\ row.state = quotes[q].state /\ row.target = quotes[q].target
              /\ row.reply = quotes[q].reply /\ row.first = quotes[q].first
         \/ \E c \in Company : DeleteQuotes(c)
         \/ DeleteCompany
         \/ DeleteFails
         \/ Crash
         \/ Tick
         \/ UNCHANGED vars
<1>a. \A q \in Quote : quotes[q] \in Row
  BY DEF TypeOK
<1>1. ASSUME NEW c \in Company, NEW q \in Quote, NEW s \in Status, UpdateStatus(c, q, s)
      PROVE  \E row \in Row :
               /\ SetColumn(c, q, row)
               /\ row.state = quotes[q].state /\ row.target = quotes[q].target
               /\ row.reply = quotes[q].reply /\ row.first = quotes[q].first
  <2> DEFINE row == [quotes[q] EXCEPT !.status = s]
  <2>1. row \in Row
    BY <1>a DEF Row
  <2>2. /\ row.state = quotes[q].state /\ row.target = quotes[q].target
        /\ row.reply = quotes[q].reply /\ row.first = quotes[q].first
    BY <1>a DEF Row
  <2> QED
    BY <1>1, <2>1, <2>2 DEF UpdateStatus
<1>2. ASSUME NEW c \in Company, NEW q \in Quote, Close(c, q)
      PROVE  \E row \in Row :
               /\ SetColumn(c, q, row)
               /\ row.state = quotes[q].state /\ row.target = quotes[q].target
               /\ row.reply = quotes[q].reply /\ row.first = quotes[q].first
  <2> DEFINE row == [quotes[q] EXCEPT !.closed = TRUE]
  <2>1. row \in Row
    BY <1>a DEF Row
  <2>2. /\ row.state = quotes[q].state /\ row.target = quotes[q].target
        /\ row.reply = quotes[q].reply /\ row.first = quotes[q].first
    BY <1>a DEF Row
  <2> QED
    BY <1>2, <2>1, <2>2 DEF Close
<1>3. ASSUME NEW c \in Company, NEW q \in Quote, NEW some \in BOOLEAN, SetTags(c, q, some)
      PROVE  \E row \in Row :
               /\ SetColumn(c, q, row)
               /\ row.state = quotes[q].state /\ row.target = quotes[q].target
               /\ row.reply = quotes[q].reply /\ row.first = quotes[q].first
  <2> DEFINE row == [quotes[q] EXCEPT !.tagged = some]
  <2>1. row \in Row
    BY <1>a DEF Row
  <2>2. /\ row.state = quotes[q].state /\ row.target = quotes[q].target
        /\ row.reply = quotes[q].reply /\ row.first = quotes[q].first
    BY <1>a DEF Row
  <2> QED
    BY <1>3, <2>1, <2>2 DEF SetTags
<1>4. ASSUME NEW c \in Company, NEW q \in Quote, NEW some \in BOOLEAN, SetFollowUp(c, q, some)
      PROVE  \E row \in Row :
               /\ SetColumn(c, q, row)
               /\ row.state = quotes[q].state /\ row.target = quotes[q].target
               /\ row.reply = quotes[q].reply /\ row.first = quotes[q].first
  <2> DEFINE row == [quotes[q] EXCEPT !.followed = some]
  <2>1. row \in Row
    BY <1>a DEF Row
  <2>2. /\ row.state = quotes[q].state /\ row.target = quotes[q].target
        /\ row.reply = quotes[q].reply /\ row.first = quotes[q].first
    BY <1>a DEF Row
  <2> QED
    BY <1>4, <2>1, <2>2 DEF SetFollowUp
<1> QED
  BY <1>1, <1>2, <1>3, <1>4 DEF Next

-----------------------------------------------------------------------------
LEMMA InitInv == Init => InboxInv
<1> SUFFICES ASSUME Init PROVE InboxInv
  OBVIOUS
<1> USE InboxAssumption
<1>1. TypeOK
  <2>1. 1 \in Time
    <3>1. MaxTime \in Nat
      OBVIOUS
    <3> QED
      BY <3>1 DEF Time
  <2>2. New("unused", None) \in Row
    BY NewRow
  <2> QED
    BY <2>1, <2>2, IdleRequest DEF Init, TypeOK, Requests, NoDelete
<1>2. ConfirmedIsKept /\ OnlyTargetReplies /\ NothingUnused
  BY DEF Init, ConfirmedIsKept, OnlyTargetReplies, NothingUnused
<1>3. ReplyIsMailed
  BY DEF Init, ReplyIsMailed, Rows, New
<1>4. Underway /\ DeletionIsWhole
  BY DEF Init, Underway, DeletionIsWhole, At, Idle, NoDelete
<1> QED
  BY <1>1, <1>2, <1>3, <1>4 DEF InboxInv

-----------------------------------------------------------------------------
(* What the statements leave in the rows.                                  *)
LEMMA DeleteStep ==
  ASSUME TypeOK, NEW rows \in SUBSET Quote, Delete(rows)
  PROVE  /\ quotes' \in [Quote -> Row]
         /\ \A q \in Quote \ rows : quotes'[q] = quotes[q]
         /\ \A q \in rows : quotes'[q] = New("deleted", quotes[q].target)
<1>1. \A q \in Quote : quotes[q] \in Row /\ quotes[q].target \in Company \cup {None}
  BY DEF TypeOK, Row
<1>2. \A q \in Quote : New("deleted", quotes[q].target) \in Row
  BY <1>1, NewRow
<1> QED
  BY <1>1, <1>2 DEF Delete

LEMMA ReplyStep ==
  ASSUME InboxInv, NEW r \in Request, SetReply(r), NEW q, q = request[r].quote
  PROVE  /\ quotes' \in [Quote -> Row] /\ q \in Rows /\ q \in Quote
         /\ \A p \in Quote : p # q => quotes'[p] = quotes[p]
         /\ quotes'[q].state = quotes[q].state /\ quotes'[q].target = quotes[q].target
         /\ quotes'[q].reply = request[r].note
         /\ quotes[q].first # Null => quotes'[q].first = quotes[q].first
         /\ quotes[q].target = request[r].company
<1>1. /\ q \in Quote /\ request[r].note \in Note /\ request[r].start \in Time
      /\ quotes \in [Quote -> Row] /\ quotes[q] \in Row
  BY DEF SetReply, InboxInv, Underway, TypeOK
<1> DEFINE f == FirstResponse(quotes[q], request[r].start)
<1>2. f \in Time \cup {Null} /\ (quotes[q].first # Null => f = quotes[q].first)
  BY <1>1 DEF FirstResponse, Row
<1>3. quotes' = [quotes EXCEPT ![q].reply = request[r].note,
                               ![q].status = "responded", ![q].first = f]
  BY DEF SetReply
<1> HIDE DEF f
<1>4. /\ quotes'[q] \in Row
      /\ quotes'[q].state = quotes[q].state /\ quotes'[q].target = quotes[q].target
      /\ quotes'[q].reply = request[r].note /\ quotes'[q].first = f
  BY <1>1, <1>2, <1>3 DEF Row, Status
<1>5. quotes' \in [Quote -> Row] /\ \A p \in Quote : p # q => quotes'[p] = quotes[p]
  BY <1>1, <1>3, <1>4
<1>6. q \in Rows /\ quotes[q].target = request[r].company
  BY DEF SetReply, Owns, OfCompany
<1> QED
  BY <1>1, <1>2, <1>4, <1>5, <1>6

(* What the handlers learn of their statements.                            *)
LEMMA InsertOutcome ==
  ASSUME TypeOK, NEW r \in Request, NEW q \in Quote, InsertQuote(r, q)
  PROVE  /\ request' \in [Request -> Requests]
         /\ \A s \in Request : s # r => request'[s] = request[s]
         /\ \/ request'[r].step = "confirm" /\ request'[r].quote = q
            \/ request'[r] = Idle
<1>0. request \in [Request -> Requests]
  BY DEF TypeOK, Requests
<1>1. CASE request' = [request EXCEPT ![r].step = "confirm", ![r].quote = q]
  <2> DEFINE after == [request[r] EXCEPT !.step = "confirm", !.quote = q]
  <2>1. after \in Requests /\ after.step = "confirm" /\ after.quote = q
    BY <1>0 DEF Requests
  <2>2. request' = [request EXCEPT ![r] = after]
    BY <1>0, <1>1 DEF Requests
  <2> QED
    BY <1>0, <2>1, <2>2
<1>2. CASE Answer(r)
  BY <1>2, AnswerStep
<1> QED
  BY <1>1, <1>2 DEF InsertQuote

LEMMA ReplyOutcome ==
  ASSUME TypeOK, NEW r \in Request, SetReply(r)
  PROVE  /\ request' \in [Request -> Requests]
         /\ \A s \in Request : s # r => request'[s] = request[s]
         /\ \/ /\ lost' = lost /\ request'[r].step = "mail"
               /\ request'[r].quote = request[r].quote /\ request'[r].note = request[r].note
               /\ request'[r].company = request[r].company
            \/ /\ lost' = lost \cup {<<request[r].quote, request[r].note>>}
               /\ request'[r] = Idle
<1>0. request \in [Request -> Requests]
  BY DEF TypeOK, Requests
<1>1. CASE Move(r, "mail") /\ UNCHANGED lost
  BY <1>0, <1>1 DEF Move, Requests
<1>2. CASE Answer(r) /\ lost' = lost \cup {<<request[r].quote, request[r].note>>}
  BY <1>2, AnswerStep
<1> QED
  BY <1>1, <1>2 DEF SetReply

-----------------------------------------------------------------------------
(* Types.                                                                  *)
LEMMA TypeStep == InboxInv /\ [Next]_vars => TypeOK'
<1> SUFFICES ASSUME InboxInv, [Next]_vars PROVE TypeOK'
  OBVIOUS
<1>0. TypeOK
  BY DEF InboxInv
<1> USE InboxAssumption
<1>1. ASSUME NEW r \in Request, NEW c \in Company \cup {None}, Submit(r, c) PROVE TypeOK'
  BY <1>0, <1>1 DEF TypeOK, Submit, Idle, history
<1>2. ASSUME NEW r \in Request, NEW q \in Quote, InsertQuote(r, q) PROVE TypeOK'
  <2>1. request[r].company \in Company \cup {None}
    BY <1>0 DEF TypeOK
  <2>2. New("stored", request[r].company) \in Row
    BY <2>1, NewRow
  <2>3. quotes' \in [Quote -> Row]
    BY <1>0, <1>2, <2>2 DEF TypeOK, InsertQuote
  <2>4. request' \in [Request -> Requests]
    BY <1>0, <1>2, InsertOutcome
  <2> QED
    BY <1>0, <1>2, <2>3, <2>4 DEF TypeOK, InsertQuote, history, Requests
<1>3. ASSUME NEW r \in Request, NEW c \in Company, NEW q \in Quote, NEW n \in Note,
             StartReply(r, c, q, n)
      PROVE  TypeOK'
  BY <1>0, <1>3 DEF TypeOK, StartReply, history
<1>4. ASSUME NEW r \in Request, InsertFails(r) \/ ReplyFails(r) PROVE TypeOK'
  BY <1>0, <1>4, AnswerStep DEF TypeOK, InsertFails, ReplyFails, history, Requests
<1>5. ASSUME NEW r \in Request, Confirm(r) PROVE TypeOK'
  BY <1>0, <1>5, AnswerStep DEF TypeOK, Confirm, Requests, InboxInv, Underway, Used
<1>6. ASSUME NEW r \in Request, SetReply(r) PROVE TypeOK'
  <2>1. quotes' \in [Quote -> Row]
    BY <1>6, ReplyStep
  <2>2. request' \in [Request -> Requests]
    BY <1>0, <1>6, ReplyOutcome
  <2>3. lost' \subseteq Quote \X Note
    <3>1. request[r].quote \in Quote /\ request[r].note \in Note
      BY <1>6 DEF SetReply, InboxInv, Underway
    <3> QED
      BY <1>0, <1>6, <3>1, ReplyOutcome DEF TypeOK
  <2> QED
    BY <1>0, <1>6, <2>1, <2>2, <2>3 DEF TypeOK, SetReply, Requests
<1>7. ASSUME NEW r \in Request, MailReply(r) PROVE TypeOK'
  <2>1. mailed' \subseteq Quote \X Note \X Company
    BY <1>0, <1>7 DEF TypeOK, MailReply, InboxInv, Underway, Used
  <2> QED
    BY <1>0, <1>7, <2>1, AnswerStep DEF TypeOK, MailReply, Requests
<1>8. ASSUME NEW c \in Company, NEW q \in Quote, NEW row \in Row, SetColumn(c, q, row) PROVE TypeOK'
  <2>1. quotes' \in [Quote -> Row]
    BY <1>0, <1>8 DEF TypeOK, SetColumn
  <2> QED
    BY <1>0, <1>8, <2>1 DEF TypeOK, SetColumn, history
<1>9. ASSUME NEW c \in Company, DeleteQuotes(c) PROVE TypeOK'
  BY <1>0, <1>9 DEF TypeOK, DeleteQuotes, OfCompany, Rows, history
<1>10. CASE DeleteCompany
  <2>1. quotes' \in [Quote -> Row]
    BY <1>0, <1>10, DeleteStep DEF DeleteCompany, TypeOK
  <2> QED
    BY <1>0, <1>10, <2>1 DEF TypeOK, DeleteCompany, NoDelete, history
<1>11. CASE DeleteFails
  BY <1>0, <1>11 DEF TypeOK, DeleteFails, NoDelete, history
<1>12. CASE Crash
  <2>1. lost' \subseteq Quote \X Note
    BY <1>0, <1>12 DEF TypeOK, Crash, InboxInv, Underway, Used
  <2> QED
    BY <1>0, <1>12, <2>1, IdleRequest DEF TypeOK, Crash, NoDelete, Requests
<1>13. CASE Tick
  <2>1. now' \in Time
    BY <1>0, <1>13 DEF TypeOK, Tick, Time
  <2> QED
    BY <1>0, <1>13, <2>1 DEF TypeOK, Tick, history
<1>14. CASE UNCHANGED vars
  BY <1>0, <1>14 DEF TypeOK, vars, history
<1> QED
  BY <1>0, <1>1, <1>2, <1>3, <1>4, <1>5, <1>6, <1>7, <1>8, <1>9, <1>10, <1>11, <1>12, <1>13, <1>14, Steps

-----------------------------------------------------------------------------
(* The rest of the invariant but ReplyIsMailed: a step keeps it if it      *)
(* keeps what is known of rows in use.                                     *)
Aware(r) ==
  /\ At(r, "confirm") => Used(request[r].quote) /\ Kept(request[r].quote)
  /\ At(r, "reply") => /\ request[r].company \in Company /\ request[r].quote \in Quote
                       /\ request[r].note \in Note /\ request[r].start \in Time
  /\ At(r, "mail") => /\ request[r].company \in Company /\ request[r].note \in Note
                      /\ Used(request[r].quote)
                      /\ quotes[request[r].quote].target = request[r].company

Aware0 == ConfirmedIsKept /\ OnlyTargetReplies /\ Underway /\ NothingUnused /\ DeletionIsWhole

Stable == \A q \in Quote : Used(q) =>
            Used(q)' /\ quotes'[q].target = quotes[q].target /\ (Kept(q) => Kept(q)')

LEMMA StableStep ==
  ASSUME InboxInv, Stable,
         \A r \in Request : request'[r] = request[r] \/ Aware(r)',
         \A q \in confirmed' : q \in confirmed \/ \E r \in Request : At(r, "confirm") /\ q = request[r].quote,
         \A m \in mailed' : m \in mailed \/ (Used(m[1]) /\ quotes[m[1]].target = m[3]),
         deletion' \in {deletion, NoDelete} \/ DeletionIsWhole'
  PROVE  Aware0'
<1>0. \A r \in Request : Aware(r)
  BY DEF InboxInv, Underway, Aware
<1>1. \A r \in Request : Aware(r)'
  BY <1>0 DEF Stable, Aware, Used, At
<1>2. \A q \in confirmed' : Used(q) /\ Kept(q)
  BY <1>0 DEF InboxInv, NothingUnused, ConfirmedIsKept, Kept, Aware
<1>3. \A q \in confirmed' : Used(q)' /\ Kept(q)'
  BY <1>2 DEF Stable, Used
<1>4. \A m \in mailed' : Used(m[1]) /\ quotes[m[1]].target = m[3]
  BY DEF InboxInv, NothingUnused, OnlyTargetReplies
<1>5. \A m \in mailed' : Used(m[1])' /\ quotes'[m[1]].target = m[3]
  BY <1>4 DEF Stable, Used
<1>6. DeletionIsWhole'
  <2>1. \A q : Used(q) => Used(q)' /\ quotes'[q].target = quotes[q].target
    BY DEF Stable, Used
  <2> QED
    BY <2>1 DEF InboxInv, DeletionIsWhole, NoDelete
<1>7. Underway'
  BY <1>1 DEF Underway, Aware
<1>8. ConfirmedIsKept'
  BY <1>3 DEF ConfirmedIsKept, Kept
<1>9. OnlyTargetReplies' /\ NothingUnused'
  BY <1>3, <1>5 DEF OnlyTargetReplies, NothingUnused
<1> QED
  BY <1>6, <1>7, <1>8, <1>9 DEF Aware0

LEMMA SameIsStable == quotes' = quotes /\ companies' = companies => Stable
BY DEF Stable, Used, Kept, Rows

LEMMA AwareStep == InboxInv /\ TypeOK' /\ [Next]_vars => Aware0'
<1> SUFFICES ASSUME InboxInv, TypeOK', [Next]_vars PROVE Aware0'
  OBVIOUS
<1>0. TypeOK /\ DeletionIsWhole
  BY DEF InboxInv
<1> USE InboxAssumption
<1>1. ASSUME NEW r \in Request, NEW c \in Company \cup {None}, Submit(r, c) PROVE Aware0'
  <2>1. \A s \in Request : request'[s] = request[s] \/ request'[s].step = "insert"
    BY <1>0, <1>1 DEF Submit, Idle, TypeOK
  <2> QED
    BY <1>1, <2>1, SameIsStable, StableStep DEF Submit, Aware, At, history
<1>2. ASSUME NEW r \in Request, NEW q \in Quote, InsertQuote(r, q) PROVE Aware0'
  <2>1. /\ request[r].company \in companies \cup {None} /\ request[r].company \in Company \cup {None}
        /\ quotes[q].state = "unused"
    BY <1>0, <1>2 DEF InsertQuote, Referenced, TypeOK
  <2>2. /\ quotes'[q].state = "stored" /\ \A p \in Quote : p # q => quotes'[p] = quotes[p]
    BY <1>0, <1>2 DEF InsertQuote, New, TypeOK
  <2>3. Stable
    BY <1>2, <2>1, <2>2 DEF Stable, Used, Kept, Rows, InsertQuote
  <2>4. /\ request'[r] = Idle \/ (request'[r].step = "confirm" /\ request'[r].quote = q)
        /\ \A s \in Request : s # r => request'[s] = request[s]
    BY <1>0, <1>2, InsertOutcome
  <2>5. Aware(r)'
    BY <2>2, <2>4 DEF Aware, At, Used, Kept, Rows, Idle
  <2> QED
    BY <1>2, <2>3, <2>4, <2>5, StableStep DEF InsertQuote, history
<1>3. ASSUME NEW r \in Request, NEW c \in Company, NEW q \in Quote, NEW n \in Note,
             StartReply(r, c, q, n)
      PROVE  Aware0'
  <2>1. /\ request'[r] = [step |-> "reply", company |-> c, quote |-> q, note |-> n, start |-> now]
        /\ \A s \in Request : s # r => request'[s] = request[s]
    BY <1>0, <1>3 DEF StartReply, TypeOK
  <2>2. Aware(r)'
    BY <1>0, <2>1 DEF Aware, At, TypeOK
  <2> QED
    BY <1>3, <2>1, <2>2, SameIsStable, StableStep DEF StartReply, history
<1>4. ASSUME NEW r \in Request, InsertFails(r) \/ ReplyFails(r) PROVE Aware0'
  <2>1. \A s \in Request : request'[s] = request[s] \/ request'[s].step = "idle"
    BY <1>0, <1>4, AnswerStep DEF InsertFails, ReplyFails, Idle
  <2> QED
    BY <1>4, <2>1, SameIsStable, StableStep DEF InsertFails, ReplyFails, Aware, At, history
<1>5. ASSUME NEW r \in Request, Confirm(r) PROVE Aware0'
  <2>1. \A s \in Request : request'[s] = request[s] \/ request'[s].step = "idle"
    BY <1>0, <1>5, AnswerStep DEF Confirm, Idle
  <2> QED
    BY <1>5, <2>1, SameIsStable, StableStep DEF Confirm, Aware, At
<1>6. ASSUME NEW r \in Request, SetReply(r) PROVE Aware0'
  <2> DEFINE q == request[r].quote
  <2>1. /\ q \in Rows /\ q \in Quote /\ quotes[q].target = request[r].company
        /\ \A p \in Quote : p # q => quotes'[p] = quotes[p]
        /\ quotes'[q].state = quotes[q].state /\ quotes'[q].target = quotes[q].target
    BY <1>6, ReplyStep
  <2>2. Stable
    BY <1>6, <2>1 DEF Stable, Used, Kept, Rows, SetReply
  <2>3. /\ \/ /\ request'[r].step = "mail" /\ request'[r].company = request[r].company
              /\ request'[r].quote = q /\ request'[r].note = request[r].note
           \/ request'[r] = Idle
        /\ \A s \in Request : s # r => request'[s] = request[s]
    BY <1>0, <1>6, ReplyOutcome
  <2>4. request[r].company \in Company /\ request[r].note \in Note
    BY <1>6 DEF SetReply, InboxInv, Underway
  <2>5. Aware(r)'
    BY <2>1, <2>3, <2>4 DEF Aware, At, Used, Rows, Idle
  <2> QED
    BY <1>6, <2>2, <2>3, <2>5, StableStep DEF SetReply
<1>7. ASSUME NEW r \in Request, MailReply(r) PROVE Aware0'
  <2>1. \A s \in Request : request'[s] = request[s] \/ request'[s].step = "idle"
    BY <1>0, <1>7, AnswerStep DEF MailReply, Idle
  <2>2. Used(request[r].quote) /\ quotes[request[r].quote].target = request[r].company
    BY <1>7 DEF MailReply, InboxInv, Underway
  <2>3. \A m \in mailed' : m \in mailed \/ (Used(m[1]) /\ quotes[m[1]].target = m[3])
    BY <1>7, <2>2 DEF MailReply
  <2> QED
    BY <1>7, <2>1, <2>3, SameIsStable, StableStep DEF MailReply, Aware, At
<1>8. ASSUME NEW c \in Company, NEW q \in Quote, NEW row \in Row, SetColumn(c, q, row),
             row.state = quotes[q].state, row.target = quotes[q].target
      PROVE  Aware0'
  <2>1. \A p \in Quote : quotes'[p].state = quotes[p].state /\ quotes'[p].target = quotes[p].target
    BY <1>0, <1>8 DEF SetColumn, TypeOK
  <2>2. Stable
    BY <1>8, <2>1 DEF Stable, Used, Kept, Rows, SetColumn
  <2> QED
    BY <1>8, <2>2, StableStep DEF SetColumn, history
<1>9. ASSUME NEW c \in Company, DeleteQuotes(c) PROVE Aware0'
  <2>1. DeletionIsWhole'
    BY <1>9 DEF DeletionIsWhole, DeleteQuotes, OfCompany, Rows, Used
  <2> QED
    BY <1>9, <2>1, SameIsStable, StableStep DEF DeleteQuotes, history
<1>10. CASE DeleteCompany
  <2>1. deletion.company \in Company
    BY <1>0, <1>10 DEF DeleteCompany, DeletionIsWhole
  <2>2. /\ \A q \in Quote \ deletion.rows : quotes'[q] = quotes[q]
        /\ \A q \in deletion.rows : quotes'[q] = New("deleted", quotes[q].target)
    BY <1>0, <1>10, DeleteStep DEF DeleteCompany, TypeOK
  <2>3. \A q \in deletion.rows : quotes[q].target = deletion.company
    BY <1>0 DEF DeletionIsWhole
  <2>4. \A q \in deletion.rows : quotes'[q].state = "deleted" /\ quotes'[q].target = quotes[q].target
    BY <2>2, NewFields
  <2>5. companies' = companies \ {deletion.company}
    BY <1>10 DEF DeleteCompany
  <2>6. Stable
    BY <2>1, <2>2, <2>3, <2>4, <2>5 DEF Stable, Used, Kept, Rows
  <2> QED
    BY <1>10, <2>6, StableStep DEF DeleteCompany, history
<1>11. CASE DeleteFails
  BY <1>11, SameIsStable, StableStep DEF DeleteFails, history
<1>12. CASE Crash
  <2>1. \A r \in Request : Aware(r)'
    BY <1>12 DEF Crash, Idle, Aware, At
  <2> QED
    BY <1>12, <2>1, SameIsStable, StableStep DEF Crash
<1>13. CASE Tick
  BY <1>13, SameIsStable, StableStep DEF Tick, history
<1>14. CASE UNCHANGED vars
  BY <1>14, SameIsStable, StableStep DEF vars, history
<1> QED
  BY <1>0, <1>1, <1>2, <1>3, <1>4, <1>5, <1>6, <1>7, <1>8, <1>9, <1>10, <1>11, <1>12, <1>13, <1>14, Steps

-----------------------------------------------------------------------------
(* A reply on record and its mail.                                         *)
Sent(q, n) ==
  \/ \E c \in Company : <<q, n, c>> \in mailed
  \/ \E r \in Request : At(r, "mail") /\ request[r].quote = q /\ request[r].note = n
  \/ <<q, n>> \in lost

LEMMA MailedIsSent == ReplyIsMailed <=> \A q \in Rows : quotes[q].reply # None => Sent(q, quotes[q].reply)
BY DEF ReplyIsMailed, Sent

LEMMA MailStep == InboxInv /\ TypeOK' /\ [Next]_vars => ReplyIsMailed'
<1> SUFFICES ASSUME InboxInv, TypeOK', [Next]_vars,
                    NEW q \in Quote, NEW n, quotes'[q].state = "stored",
                    quotes'[q].reply = n, n # None
             PROVE  Sent(q, n)'
  <2> SUFFICES ASSUME InboxInv, TypeOK', [Next]_vars,
                      NEW q \in Quote, quotes'[q].state = "stored", quotes'[q].reply # None
               PROVE  \/ \E c \in Company : <<q, quotes'[q].reply, c>> \in mailed'
                      \/ \E r \in Request : /\ At(r, "mail")' /\ request'[r].quote = q
                                           /\ request'[r].note = quotes'[q].reply
                      \/ <<q, quotes'[q].reply>> \in lost'
    BY DEF ReplyIsMailed, Rows
  <2>1. PICK n : n = quotes'[q].reply
    OBVIOUS
  <2>2. Sent(q, n)'
    BY <2>1
  <2> QED
    BY <2>1, <2>2 DEF Sent
<1>0. TypeOK /\ (q \in Rows /\ quotes[q].reply # None => Sent(q, quotes[q].reply))
  BY DEF InboxInv, ReplyIsMailed, Sent
<1> USE InboxAssumption
<1> DEFINE Old == q \in Rows /\ quotes[q].reply = n
<1>a. ASSUME Old, mailed \subseteq mailed', lost \subseteq lost',
             \A r \in Request : At(r, "mail") => request'[r] = request[r]
      PROVE  Sent(q, n)'
  BY <1>0, <1>a DEF Sent, At
<1>1. ASSUME NEW r \in Request, NEW c \in Company \cup {None}, Submit(r, c)
      PROVE  Sent(q, n)'
  BY <1>0, <1>1, <1>a DEF Submit, At, TypeOK, Rows, history
<1>2. ASSUME NEW r \in Request, NEW p \in Quote, InsertQuote(r, p)
      PROVE  Sent(q, n)'
  <2>1. Old
    BY <1>0, <1>2, NewFields DEF InsertQuote, TypeOK, Rows
  <2>2. \A s \in Request : At(s, "mail") => request'[s] = request[s]
    BY <1>0, <1>2, InsertOutcome DEF InsertQuote, At
  <2> QED
    BY <1>2, <1>a, <2>1, <2>2 DEF InsertQuote, history
<1>3. ASSUME NEW r \in Request, NEW c \in Company, NEW p \in Quote, NEW t \in Note,
             StartReply(r, c, p, t)
      PROVE  Sent(q, n)'
  BY <1>0, <1>3, <1>a DEF StartReply, At, TypeOK, Rows, history
<1>4. ASSUME NEW r \in Request, InsertFails(r) \/ ReplyFails(r)
      PROVE  Sent(q, n)'
  <2>1. \A s \in Request : At(s, "mail") => request'[s] = request[s]
    BY <1>0, <1>4, AnswerStep DEF InsertFails, ReplyFails, At
  <2> QED
    BY <1>4, <1>a, <2>1 DEF InsertFails, ReplyFails, Rows, history
<1>5. ASSUME NEW r \in Request, Confirm(r) PROVE Sent(q, n)'
  <2>1. \A s \in Request : At(s, "mail") => request'[s] = request[s]
    BY <1>0, <1>5, AnswerStep DEF Confirm, At
  <2> QED
    BY <1>5, <1>a, <2>1 DEF Confirm, Rows
<1>6. ASSUME NEW r \in Request, SetReply(r) PROVE Sent(q, n)'
  <2>1. /\ \A p \in Quote : p # request[r].quote => quotes'[p] = quotes[p]
        /\ quotes'[request[r].quote].reply = request[r].note
    BY <1>6, ReplyStep
  <2>2. /\ \/ /\ request'[r].step = "mail" /\ request'[r].quote = request[r].quote
              /\ request'[r].note = request[r].note
           \/ <<request[r].quote, request[r].note>> \in lost'
        /\ lost \subseteq lost'
        /\ \A s \in Request : s # r => request'[s] = request[s]
    BY <1>0, <1>6, ReplyOutcome
  <2>3. CASE q = request[r].quote
    BY <2>1, <2>2, <2>3 DEF Sent, At
  <2>4. CASE q # request[r].quote
    <3>1. \A s \in Request : At(s, "mail") => request'[s] = request[s]
      BY <1>6, <2>2 DEF SetReply, At
    <3> QED
      BY <1>6, <1>a, <2>1, <2>2, <2>4, <3>1 DEF SetReply, Rows
  <2> QED
    BY <2>3, <2>4
<1>7. ASSUME NEW r \in Request, MailReply(r) PROVE Sent(q, n)'
  <2>1. \A s \in Request : s # r => request'[s] = request[s]
    BY <1>0, <1>7, AnswerStep DEF MailReply
  <2>2. request[r].company \in Company
    BY <1>7 DEF MailReply, InboxInv, Underway
  <2>3. quotes' = quotes /\ lost' = lost
        /\ mailed' = mailed \cup {<<request[r].quote, request[r].note, request[r].company>>}
    BY <1>7 DEF MailReply
  <2>4. q \in Rows /\ Sent(q, n)
    BY <1>0, <2>3 DEF Rows
  <2>5. ASSUME NEW s \in Request, At(s, "mail"), request[s].quote = q, request[s].note = n
        PROVE  Sent(q, n)'
    <3>1. CASE s = r
      BY <2>2, <2>3, <2>5, <3>1 DEF Sent
    <3>2. CASE s # r
      BY <2>1, <2>3, <2>5, <3>2 DEF Sent, At
    <3> QED
      BY <3>1, <3>2
  <2> QED
    BY <2>3, <2>4, <2>5 DEF Sent
<1>8. ASSUME NEW c \in Company, NEW p \in Quote, NEW row \in Row, SetColumn(c, p, row),
             row.state = quotes[p].state, row.reply = quotes[p].reply
      PROVE  Sent(q, n)'
  <2>1. quotes'[q].state = quotes[q].state /\ quotes[q].reply = n
    BY <1>0, <1>8 DEF SetColumn, TypeOK
  <2> QED
    BY <1>8, <1>a, <2>1 DEF SetColumn, Rows, history
<1>9. ASSUME NEW c \in Company, DeleteQuotes(c) PROVE Sent(q, n)'
  BY <1>9, <1>a DEF DeleteQuotes, Rows, history
<1>10. CASE DeleteCompany
  <2>1. /\ \A p \in Quote \ deletion.rows : quotes'[p] = quotes[p]
        /\ \A p \in deletion.rows : quotes'[p] = New("deleted", quotes[p].target)
    BY <1>0, <1>10, DeleteStep DEF DeleteCompany, TypeOK
  <2>2. quotes'[q] = quotes[q]
    BY <2>1, NewFields
  <2> QED
    BY <1>10, <1>a, <2>2 DEF DeleteCompany, Rows, history
<1>11. CASE DeleteFails
  BY <1>11, <1>a DEF DeleteFails, Rows, history
<1>12. CASE Crash
  <2>1. quotes' = quotes /\ mailed' = mailed /\ lost \subseteq lost'
    BY <1>12 DEF Crash
  <2>2. ASSUME NEW r \in Request, At(r, "mail"), request[r].quote = q, request[r].note = n
        PROVE  <<q, n>> \in lost'
    BY <1>12, <2>2 DEF Crash
  <2>3. q \in Rows /\ Sent(q, n)
    BY <1>0, <2>1 DEF Rows
  <2> QED
    BY <2>1, <2>2, <2>3 DEF Sent
<1>13. CASE Tick
  BY <1>13, <1>a DEF Tick, Rows, history
<1>14. CASE UNCHANGED vars
  BY <1>14, <1>a DEF vars, Rows, history
<1> QED
  BY <1>0, <1>1, <1>2, <1>3, <1>4, <1>5, <1>6, <1>7, <1>8, <1>9, <1>10, <1>11, <1>12, <1>13, <1>14, Steps

-----------------------------------------------------------------------------
(* The invariant: the types, and what requests and deletes know of rows.   *)
THEOREM Invariant == Spec => []InboxInv
<1>1. ASSUME InboxInv, [Next]_vars PROVE InboxInv'
  <2>1. TypeOK'
    BY <1>1, TypeStep
  <2>2. Aware0' /\ ReplyIsMailed'
    BY <1>1, <2>1, AwareStep, MailStep
  <2> QED
    BY <2>1, <2>2 DEF InboxInv, Aware0
<1> QED
  BY InitInv, <1>1, PTL DEF Spec

(* What a requester was told has arrived stays as long as its company.     *)
THEOREM Confirmed == Spec => []ConfirmedIsKept
BY Invariant, PTL DEF InboxInv

(* Only the company that was asked has its answers mailed.                 *)
THEOREM Target == Spec => []OnlyTargetReplies
BY Invariant, PTL DEF InboxInv

(* A reply on record is mailed unless a crash comes between.               *)
THEOREM Mailed == Spec => []ReplyIsMailed
BY Invariant, PTL DEF InboxInv

-----------------------------------------------------------------------------
First ==
  \A q \in Rows : q \in Rows' /\ quotes[q].first # Null => quotes'[q].first = quotes[q].first

LEMMA FirstStep == InboxInv /\ [Next]_vars => First
<1> SUFFICES ASSUME InboxInv, [Next]_vars, NEW q \in Rows,
                    q \in Rows', quotes[q].first # Null
             PROVE  quotes'[q].first = quotes[q].first
  BY DEF First
<1>0. TypeOK /\ q \in Quote /\ quotes[q].state = "stored" /\ quotes'[q].state = "stored"
  BY DEF InboxInv, Rows
<1>1. ASSUME quotes'[q] = quotes[q] PROVE quotes'[q].first = quotes[q].first
  BY <1>1
<1>2. ASSUME NEW r \in Request, NEW p \in Quote, InsertQuote(r, p)
      PROVE  quotes'[q] = quotes[q]
  BY <1>0, <1>2 DEF InsertQuote, TypeOK
<1>3. ASSUME NEW r \in Request, SetReply(r) PROVE quotes'[q].first = quotes[q].first
  BY <1>0, <1>3, ReplyStep
<1>4. ASSUME NEW c \in Company, NEW p \in Quote, NEW row \in Row, SetColumn(c, p, row),
             row.first = quotes[p].first
      PROVE  quotes'[q].first = quotes[q].first
  BY <1>0, <1>4 DEF SetColumn, TypeOK
<1>5. CASE DeleteCompany
  <2>1. /\ \A p \in Quote \ deletion.rows : quotes'[p] = quotes[p]
        /\ \A p \in deletion.rows : quotes'[p] = New("deleted", quotes[p].target)
    BY <1>0, <1>5, DeleteStep DEF DeleteCompany, TypeOK
  <2> QED
    BY <1>0, <2>1, NewFields
<1>6. ASSUME quotes' = quotes PROVE quotes'[q].first = quotes[q].first
  BY <1>6
<1> QED
  BY <1>0, <1>1, <1>2, <1>3, <1>4, <1>5, <1>6, Steps
     DEF Submit, StartReply, InsertFails, ReplyFails, Confirm, MailReply, DeleteQuotes,
         DeleteFails, Crash, Tick, vars

(* The time of the first response never changes while its row is there.    *)
THEOREM FirstTime == Spec => FirstResponseStays
<1>1. InboxInv /\ [Next]_vars => [First]_vars
  BY FirstStep
<1> QED
  BY <1>1, Invariant, PTL DEF Spec, FirstResponseStays, First

-----------------------------------------------------------------------------
(* The refinement of Correspondence.  A quote on record has its company,   *)
(* because the foreign key refuses to let one go that a quote refers to.   *)
LEMMA FoundedStep == InboxInv /\ Founded /\ [Next]_vars => Founded'
<1> SUFFICES ASSUME InboxInv, Founded, [Next]_vars PROVE Founded'
  OBVIOUS
<1>0. TypeOK
  BY DEF InboxInv
<1>1. ASSUME UNCHANGED <<companies, quotes, deletion>> PROVE Founded'
  BY <1>1 DEF Founded, Rows
<1>2. ASSUME NEW r \in Request, NEW q \in Quote, InsertQuote(r, q) PROVE Founded'
  <2>1. /\ quotes'[q].target \in companies \cup {None}
        /\ \A p \in Quote : p # q => quotes'[p] = quotes[p]
    BY <1>0, <1>2, NewFields DEF InsertQuote, Referenced, TypeOK
  <2> QED
    BY <1>2, <2>1 DEF InsertQuote, Founded, Rows
<1>3. ASSUME NEW r \in Request, SetReply(r) PROVE Founded'
  <2>1. \A p \in Quote : quotes'[p].state = quotes[p].state /\ quotes'[p].target = quotes[p].target
    BY <1>3, ReplyStep
  <2> QED
    BY <1>3, <2>1 DEF SetReply, Founded, Rows
<1>4. ASSUME NEW c \in Company, NEW q \in Quote, NEW row \in Row, SetColumn(c, q, row),
             row.state = quotes[q].state, row.target = quotes[q].target
      PROVE  Founded'
  <2>1. \A p \in Quote : quotes'[p].state = quotes[p].state /\ quotes'[p].target = quotes[p].target
    BY <1>0, <1>4 DEF SetColumn, TypeOK
  <2> QED
    BY <1>4, <2>1 DEF SetColumn, Founded, Rows
<1>5. ASSUME NEW c \in Company, DeleteQuotes(c) PROVE Founded'
  BY <1>5 DEF DeleteQuotes, Founded, Rows
<1>6. CASE DeleteCompany
  <2>1. /\ \A q \in Quote \ deletion.rows : quotes'[q] = quotes[q]
        /\ \A q \in deletion.rows : quotes'[q] = New("deleted", quotes[q].target)
    BY <1>0, <1>6, DeleteStep DEF DeleteCompany, TypeOK
  <2>2. \A q \in Quote : quotes'[q].state = "stored" =>
          q \notin deletion.rows /\ quotes'[q] = quotes[q]
    BY <2>1, NewFields
  <2>3. OfCompany(deletion.company) \subseteq deletion.rows
        /\ companies' = companies \ {deletion.company} /\ deletion' = NoDelete
    BY <1>6 DEF DeleteCompany
  <2> QED
    BY <2>2, <2>3 DEF Founded, Rows, OfCompany, NoDelete
<1>7. CASE DeleteFails
  BY <1>7 DEF DeleteFails, Founded, Rows, NoDelete
<1>8. CASE Crash
  BY <1>8 DEF Crash, Founded, Rows, NoDelete
<1> QED
  BY <1>0, <1>1, <1>2, <1>3, <1>4, <1>5, <1>6, <1>7, <1>8, Steps
     DEF Submit, StartReply, InsertFails, ReplyFails, Confirm, MailReply, Tick, vars, history

(* What the variables of Correspondence are here.                          *)
Filed   == {q \in Quote : quotes[q].state # "unused"}
Targets == [q \in Quote |-> quotes[q].target]
Replies == [q \in Quote |-> IF q \in Rows THEN quotes[q].reply ELSE None]
Record == <<companies, Filed, Targets, Rows, Replies>>

LEMMA StutterMaps ==
  ASSUME UNCHANGED <<Record, confirmed, Due, mailed, lost>>
  PROVE  UNCHANGED Promise!vars
BY DEF Promise!vars, Record, Filed, Targets, Replies

LEMMA FileMaps ==
  ASSUME NEW q \in Quote, NEW c, q \notin Filed, c \in companies \cup {None},
         Filed' = Filed \cup {q}, Targets' = [Targets EXCEPT ![q] = c],
         Rows' = Rows \cup {q}, UNCHANGED <<companies, Replies, confirmed, Due, mailed, lost>>
  PROVE  Promise!File(q, c)
BY DEF Promise!File, Filed, Targets, Replies

LEMMA TellMaps ==
  ASSUME NEW q \in Quote, q \in Filed, q \in Rows \/ Targets[q] \notin companies \cup {None},
         confirmed' = confirmed \cup {q}, UNCHANGED <<Record, Due, mailed, lost>>
  PROVE  Promise!Tell(q)
BY DEF Promise!Tell, Record, Filed, Targets, Replies

LEMMA AnswerMaps ==
  ASSUME NEW q \in Quote, NEW n, q \in Rows, Targets[q] \in companies,
         Replies' = [Replies EXCEPT ![q] = n],
         \/ Due' = Due \cup {<<q, n, Targets[q]>>} /\ UNCHANGED lost
         \/ lost' = lost \cup {<<q, n>>} /\ UNCHANGED Due,
         UNCHANGED <<companies, Filed, Targets, Rows, confirmed, mailed>>
  PROVE  Promise!Answer(q, n)
BY DEF Promise!Answer, Filed, Targets, Replies

LEMMA MailMaps ==
  ASSUME NEW m \in Due, Due' \in {Due, Due \ {m}}, mailed' = mailed \cup {m},
         UNCHANGED <<Record, confirmed, lost>>
  PROVE  Promise!Mail(m)
BY DEF Promise!Mail, Record, Filed, Targets, Replies

LEMMA LeaveMaps ==
  ASSUME NEW c \in companies, companies' = companies \ {c},
         Rows' = {q \in Rows : Targets[q] # c},
         Replies' = [q \in Quote |-> IF q \in Rows' THEN Replies[q] ELSE None],
         UNCHANGED <<Filed, Targets, confirmed, Due, mailed, lost>>
  PROVE  Promise!Leave(c)
<1>1. \A q \in Rows : Targets[q] = quotes[q].target
  BY DEF Rows, Targets
<1> QED
  BY <1>1 DEF Promise!Leave, Filed, Targets, Replies

LEMMA DieMaps ==
  ASSUME lost' = lost \cup {<<m[1], m[2]>> : m \in Due}, Due' = {},
         UNCHANGED <<Record, confirmed, mailed>>
  PROVE  Promise!Die
BY DEF Promise!Die, Record, Filed, Targets, Replies

(* The record and the due mails of a step that touches neither.            *)
LEMMA SameRecord ==
  ASSUME UNCHANGED <<companies, quotes>> PROVE UNCHANGED Record
BY DEF Record, Filed, Targets, Replies, Rows

LEMMA SameDue ==
  ASSUME \A r \in Request : /\ At(r, "mail")' <=> At(r, "mail")
                            /\ At(r, "mail") => request'[r] = request[r]
  PROVE  UNCHANGED Due
BY DEF Due, At

LEMMA FileImplements ==
  ASSUME InboxInv, NEW r \in Request, NEW q \in Quote, InsertQuote(r, q)
  PROVE  \E c \in Company \cup {None} : Promise!File(q, c)
<1>0. TypeOK
  BY DEF InboxInv
<1>1. PICK c \in Company \cup {None} : c = request[r].company
  BY <1>0 DEF TypeOK
<1>2. /\ quotes[q].state = "unused" /\ c \in companies \cup {None}
      /\ quotes' = [quotes EXCEPT ![q] = New("stored", c)]
      /\ UNCHANGED <<companies, confirmed, mailed, lost>>
  BY <1>1 DEF InsertQuote, Referenced, history
<1>3. /\ quotes'[q].state = "stored" /\ quotes'[q].target = c /\ quotes'[q].reply = None
      /\ \A p \in Quote : p # q => quotes'[p] = quotes[p]
  BY <1>0, <1>2, NewFields DEF TypeOK
<1>4. q \notin Filed /\ Filed' = Filed \cup {q}
  BY <1>2, <1>3 DEF Filed
<1>5. Targets' = [Targets EXCEPT ![q] = c]
  BY <1>3 DEF Targets
<1>6. Rows' = Rows \cup {q} /\ UNCHANGED Replies
  BY <1>2, <1>3 DEF Rows, Replies
<1>7. UNCHANGED Due
  <2>1. \A s \in Request : s # r => request'[s] = request[s]
    BY <1>0, InsertOutcome
  <2>2. ~ At(r, "mail")
    BY DEF InsertQuote, At
  <2>3. request'[r].step \in {"confirm", "idle"}
    BY <1>0, InsertOutcome DEF Idle
  <2> QED
    BY <2>1, <2>2, <2>3, SameDue DEF At
<1> QED
  BY <1>2, <1>4, <1>5, <1>6, <1>7, FileMaps

LEMMA TellImplements ==
  ASSUME InboxInv, NEW r \in Request, Confirm(r)
  PROVE  (\E q \in Quote : Promise!Tell(q)) \/ UNCHANGED Promise!vars
<1>0. TypeOK
  BY DEF InboxInv
<1>1. UNCHANGED <<companies, quotes, mailed, lost>>
  BY DEF Confirm
<1>2. UNCHANGED Record
  BY <1>1, SameRecord
<1>3. UNCHANGED Due
  BY <1>0, AnswerStep, SameDue DEF Confirm, At, Idle
<1>4. PICK q \in Quote : q = request[r].quote /\ Used(q) /\ Kept(q)
  BY DEF Confirm, InboxInv, Underway, Used
<1>5. q \in Filed /\ (q \in Rows \/ Targets[q] \notin companies \cup {None})
  BY <1>4 DEF Filed, Targets, Used, Kept
<1>6. CASE confirmed' = confirmed
  BY <1>1, <1>2, <1>3, <1>6, StutterMaps
<1>7. CASE confirmed' = confirmed \cup {q}
  BY <1>1, <1>2, <1>3, <1>5, <1>7, TellMaps
<1> QED
  BY <1>4, <1>6, <1>7 DEF Confirm

LEMMA AnswerImplements ==
  ASSUME InboxInv, Founded, NEW r \in Request, SetReply(r)
  PROVE  \E q \in Quote, n \in Note : Promise!Answer(q, n)
<1>0. TypeOK
  BY DEF InboxInv
<1>1. PICK q \in Quote, n \in Note : q = request[r].quote /\ n = request[r].note
  BY DEF SetReply, InboxInv, Underway
<1>2. /\ q \in Rows /\ \A p \in Quote : p # q => quotes'[p] = quotes[p]
      /\ quotes'[q].state = quotes[q].state /\ quotes'[q].target = quotes[q].target
      /\ quotes'[q].reply = n /\ quotes[q].target = request[r].company
  BY <1>1, ReplyStep
<1>3. Targets[q] = request[r].company /\ Targets[q] \in companies
  <2>1. request[r].company \in Company
    BY DEF SetReply, InboxInv, Underway
  <2> QED
    BY <1>2, <2>1, InboxAssumption DEF Founded, Targets
<1>4. UNCHANGED <<Filed, Targets, Rows>>
  BY <1>2 DEF Filed, Targets, Rows
<1>5. Replies' = [Replies EXCEPT ![q] = n]
  BY <1>2, <1>4 DEF Replies
<1>6. /\ ~ At(r, "mail") /\ \A s \in Request : s # r => request'[s] = request[s]
      /\ UNCHANGED <<companies, confirmed, mailed>>
  BY <1>0, ReplyOutcome DEF SetReply, At
<1>7. CASE request'[r] = Idle /\ lost' = lost \cup {<<q, n>>}
  <2>1. UNCHANGED Due
    BY <1>6, <1>7, SameDue DEF At, Idle
  <2> QED
    BY <1>2, <1>3, <1>4, <1>5, <1>6, <1>7, <2>1, AnswerMaps
<1>8. CASE /\ request'[r].step = "mail" /\ request'[r].quote = q /\ request'[r].note = n
           /\ request'[r].company = request[r].company /\ lost' = lost
  <2>1. Due' = Due \cup {<<q, n, Targets[q]>>}
    BY <1>3, <1>6, <1>8 DEF Due, At
  <2> QED
    BY <1>2, <1>3, <1>4, <1>5, <1>6, <1>8, <2>1, AnswerMaps
<1> QED
  BY <1>0, <1>1, <1>7, <1>8, ReplyOutcome

LEMMA MailImplements ==
  ASSUME InboxInv, NEW r \in Request, MailReply(r)
  PROVE  \E m \in Due : Promise!Mail(m)
<1>0. TypeOK
  BY DEF InboxInv
<1> DEFINE Carried(s) == <<request[s].quote, request[s].note, request[s].company>>
           m == Carried(r)
<1>1. /\ UNCHANGED <<companies, quotes, confirmed, lost>>
      /\ mailed' = mailed \cup {m} /\ At(r, "mail")
  BY DEF MailReply
<1>2. m \in Due
  BY <1>1 DEF Due
<1>3. /\ ~ At(r, "mail")'
      /\ \A s \in Request : s # r => request'[s] = request[s]
  BY <1>0, AnswerStep DEF MailReply, At, Idle
<1>4. Due' \subseteq Due /\ Due \ {m} \subseteq Due'
  BY <1>3 DEF Due, At
<1>5. Due' \in {Due, Due \ {m}}
  BY <1>4
<1>6. UNCHANGED Record
  BY <1>1, SameRecord
<1> HIDE DEF m
<1> QED
  BY <1>1, <1>2, <1>5, <1>6, MailMaps

LEMMA LeaveImplements ==
  ASSUME InboxInv, Founded, DeleteCompany
  PROVE  \E c \in Company : Promise!Leave(c)
<1>0. TypeOK /\ DeletionIsWhole
  BY DEF InboxInv
<1>1. PICK c \in Company : c = deletion.company
  BY <1>0 DEF DeleteCompany, DeletionIsWhole
<1>2. /\ c \in companies /\ companies' = companies \ {c}
      /\ OfCompany(c) \subseteq deletion.rows
      /\ \A q \in deletion.rows : Used(q) /\ quotes[q].target = c
      /\ UNCHANGED <<request, confirmed, mailed, lost>>
  BY <1>0, <1>1, InboxAssumption DEF DeleteCompany, DeletionIsWhole, Founded, history
<1>3. /\ \A q \in Quote \ deletion.rows : quotes'[q] = quotes[q]
      /\ \A q \in deletion.rows : quotes'[q] = New("deleted", quotes[q].target)
  BY <1>0, DeleteStep DEF DeleteCompany, TypeOK
<1>4. \A q \in deletion.rows : quotes'[q].state = "deleted" /\ quotes'[q].target = quotes[q].target
  BY <1>3, NewFields
<1>5. UNCHANGED <<Filed, Targets>>
  <2>1. \A q \in Quote : /\ quotes'[q].state # "unused" <=> quotes[q].state # "unused"
                         /\ quotes'[q].target = quotes[q].target
    BY <1>2, <1>3, <1>4 DEF Used
  <2> QED
    BY <2>1 DEF Filed, Targets
<1>6. Rows' = {q \in Rows : Targets[q] # c}
  <2>1. \A q \in Quote : quotes'[q].state = "stored" <=>
                           quotes[q].state = "stored" /\ q \notin deletion.rows
    BY <1>3, <1>4
  <2>2. \A q \in Rows : q \in deletion.rows <=> Targets[q] = c
    BY <1>2 DEF OfCompany, Rows, Targets
  <2> QED
    BY <2>1, <2>2 DEF Rows
<1>7. Replies' = [q \in Quote |-> IF q \in Rows' THEN Replies[q] ELSE None]
  <2>1. \A q \in Rows' : q \in Rows /\ quotes'[q] = quotes[q]
    BY <1>3, <1>4, <1>6 DEF Rows
  <2> QED
    BY <2>1 DEF Replies
<1>8. UNCHANGED Due
  BY <1>2, SameDue DEF At
<1> QED
  BY <1>2, <1>5, <1>6, <1>7, <1>8, LeaveMaps

LEMMA DieImplements == ASSUME Crash PROVE Promise!Die
<1>1. UNCHANGED <<companies, quotes, confirmed, mailed>>
  BY DEF Crash
<1>2. Due' = {}
  BY DEF Crash, Due, At, Idle
<1> DEFINE Mailing == {r \in Request : At(r, "mail")}
           Carried(r) == <<request[r].quote, request[r].note, request[r].company>>
           Lost(r) == <<request[r].quote, request[r].note>>
<1>3. Due = {Carried(r) : r \in Mailing} /\ lost' = lost \cup {Lost(r) : r \in Mailing}
  BY DEF Crash, Due
<1>4. \A r \in Mailing : <<Carried(r)[1], Carried(r)[2]>> = Lost(r)
  OBVIOUS
<1> HIDE DEF Mailing, Carried, Lost
<1>5. {<<m[1], m[2]>> : m \in Due} = {Lost(r) : r \in Mailing}
  <2>1. \A m \in Due : <<m[1], m[2]>> \in {Lost(r) : r \in Mailing}
    BY <1>3, <1>4
  <2>2. \A r \in Mailing : \E m \in Due : Lost(r) = <<m[1], m[2]>>
    BY <1>3, <1>4
  <2> QED
    BY <2>1, <2>2
<1> QED
  BY <1>1, <1>2, <1>3, <1>5, SameRecord, DieMaps

LEMMA CorrespondenceStep ==
  ASSUME InboxInv, Founded, [Next]_vars
  PROVE  [Promise!Next]_(Promise!vars)
<1>0. TypeOK
  BY DEF InboxInv
<1>1. ASSUME UNCHANGED <<companies, quotes, confirmed, mailed, lost, Due>>
      PROVE  UNCHANGED Promise!vars
  BY <1>1, SameRecord, StutterMaps
<1>2. ASSUME NEW r \in Request, NEW c \in Company \cup {None}, Submit(r, c)
      PROVE  UNCHANGED Promise!vars
  <2>1. UNCHANGED Due
    BY <1>0, <1>2, SameDue DEF Submit, Idle, TypeOK, At
  <2> QED
    BY <1>1, <1>2, <2>1 DEF Submit, history
<1>3. ASSUME NEW r \in Request, NEW c \in Company, NEW q \in Quote, NEW n \in Note,
             StartReply(r, c, q, n)
      PROVE  UNCHANGED Promise!vars
  <2>1. UNCHANGED Due
    BY <1>0, <1>3, SameDue DEF StartReply, TypeOK, At
  <2> QED
    BY <1>1, <1>3, <2>1 DEF StartReply, history
<1>4. ASSUME NEW r \in Request, InsertFails(r) \/ ReplyFails(r)
      PROVE  UNCHANGED Promise!vars
  <2>1. UNCHANGED Due
    BY <1>0, <1>4, AnswerStep, SameDue DEF InsertFails, ReplyFails, At, Idle
  <2> QED
    BY <1>1, <1>4, <2>1 DEF InsertFails, ReplyFails, history
<1>5. ASSUME NEW c \in Company, NEW q \in Quote, NEW row \in Row, SetColumn(c, q, row),
             row.state = quotes[q].state, row.target = quotes[q].target,
             row.reply = quotes[q].reply
      PROVE  UNCHANGED Promise!vars
  <2>1. \A p \in Quote : /\ quotes'[p].state = quotes[p].state
                         /\ quotes'[p].target = quotes[p].target
                         /\ quotes'[p].reply = quotes[p].reply
    BY <1>0, <1>5 DEF SetColumn, TypeOK
  <2>2. UNCHANGED <<Filed, Targets, Rows>>
    BY <2>1 DEF Filed, Targets, Rows
  <2>3. UNCHANGED Replies
    BY <2>1, <2>2 DEF Replies
  <2>4. UNCHANGED <<companies, confirmed, mailed, lost, request>>
    BY <1>5 DEF SetColumn, history
  <2>5. UNCHANGED Due
    BY <2>4, SameDue DEF At
  <2> QED
    BY <2>2, <2>3, <2>4, <2>5, StutterMaps DEF Record
<1>6. ASSUME UNCHANGED <<companies, quotes, request, confirmed, mailed, lost>>
      PROVE  UNCHANGED Promise!vars
  BY <1>1, <1>6, SameDue DEF At
<1>7. CASE Tick \/ DeleteFails \/ UNCHANGED vars \/ \E c \in Company : DeleteQuotes(c)
  BY <1>6, <1>7 DEF Tick, DeleteFails, DeleteQuotes, vars, history
<1>8. ASSUME NEW r \in Request, NEW q \in Quote, InsertQuote(r, q)
      PROVE  Promise!Next
  BY <1>8, FileImplements DEF Promise!Next
<1>9. ASSUME NEW r \in Request, Confirm(r)
      PROVE  [Promise!Next]_(Promise!vars)
  BY <1>9, TellImplements DEF Promise!Next
<1>10. ASSUME NEW r \in Request, SetReply(r) PROVE Promise!Next
  BY <1>10, AnswerImplements DEF Promise!Next
<1>11. ASSUME NEW r \in Request, MailReply(r) PROVE Promise!Next
  BY <1>11, MailImplements DEF Promise!Next
<1>12. CASE DeleteCompany
  BY <1>12, LeaveImplements DEF Promise!Next
<1>13. CASE Crash
  BY <1>13, DieImplements DEF Promise!Next
<1> QED
  BY <1>0, <1>2, <1>3, <1>4, <1>5, <1>7, <1>8, <1>9, <1>10, <1>11, <1>12, <1>13, Steps

(* The handlers of quotes, statement by statement, with mails after the    *)
(* commits, deletes in transactions and crashes, do what Correspondence    *)
(* promises in single steps.                                               *)
THEOREM Implements == Spec => ImplementsCorrespondence
<1>1. Init => Promise!Init
  BY NewFields DEF Init, Promise!Init, Rows, Due, At, Idle
<1>2. Init => Founded
  BY NewFields DEF Init, Founded, Rows, NoDelete
<1>3. InboxInv /\ Founded /\ [Next]_vars => Founded'
  BY FoundedStep
<1>4. InboxInv /\ Founded /\ [Next]_vars => [Promise!Next]_(Promise!vars)
  BY CorrespondenceStep
<1> QED
  BY <1>1, <1>2, <1>3, <1>4, Invariant, PTL DEF Spec, ImplementsCorrespondence, Promise!Spec
=============================================================================
