-------------------------------- MODULE Inbox --------------------------------
(***************************************************************************)
(* Requests for a quote (QuoteHandler, QuoteRepo): visitors submit them,   *)
(* the users of the companies reply, classify and close them, and an       *)
(* administrator deletes a company in a transaction that other statements  *)
(* overlap.  Each UPDATE is one statement; the mails follow the commit.    *)
(***************************************************************************)
EXTENDS Naturals

CONSTANTS
  Company,  \* companies.id
  Quote,    \* ids that quote_requests may take; none is used twice
  Note,     \* texts of replies
  Request,  \* submissions and replies in progress at a time
  None,     \* NULL, and no company, row or text
  MaxTime   \* bound: the clock stops there

ASSUME InboxAssumption == MaxTime \in Nat \ {0} /\ None \notin Company \cup Quote \cup Note

VARIABLES
  now,
  companies,  \* rows of companies
  quotes,     \* rows of quote_requests, or why there is none
  request,    \* for each request: its step and what it carries
  deletion,   \* the company of the delete in progress and the rows it has deleted
  confirmed,  \* history: quotes whose requester was sent the confirmation
  mailed,     \* history: replies given to the mailer, each with its company
  lost        \* history: replies written whose mail a crash, or a lost answer to the UPDATE, prevented

vars == <<now, companies, quotes, request, deletion, confirmed, mailed, lost>>
history == <<confirmed, mailed, lost>>

Status == {"new", "read", "responded"}
Time == 1..MaxTime
Null == 0  \* no time
Row == [state : {"unused", "stored", "deleted"}, target : Company \cup {None}, status : Status,
        reply : Note \cup {None}, first : Time \cup {Null},
        closed : BOOLEAN, tagged : BOOLEAN, followed : BOOLEAN]

(* The defaults of the columns.                                            *)
New(state, c) == [state |-> state, target |-> c, status |-> "new", reply |-> None,
                  first |-> Null, closed |-> FALSE, tagged |-> FALSE, followed |-> FALSE]

Rows == {q \in Quote : quotes[q].state = "stored"}
OfCompany(c) == {q \in Rows : quotes[q].target = c}
NoDelete == [company |-> None, rows |-> {}]
Idle == [step |-> "idle", company |-> None, quote |-> None, note |-> None, start |-> Null]

Init ==
  /\ now = 1
  /\ companies = Company
  /\ quotes = [q \in Quote |-> New("unused", None)]
  /\ request = [r \in Request |-> Idle]
  /\ deletion = NoDelete
  /\ confirmed = {} /\ mailed = {} /\ lost = {}

At(r, step) == request[r].step = step
Move(r, step) == request' = [request EXCEPT ![r].step = step]
Answer(r) == request' = [request EXCEPT ![r] = Idle]

-----------------------------------------------------------------------------
(* Create: the body is bound; a quote may be for no company.               *)
Submit(r, c) ==
  /\ At(r, "idle")
  /\ request' = [request EXCEPT ![r] = [Idle EXCEPT !.step = "insert", !.company = c]]
  /\ UNCHANGED <<now, companies, quotes, deletion, history>>

(* target_company_id UUID REFERENCES companies(id).                        *)
Referenced(c) == c \in companies \cup {None}

(* The row is written; the handler learns of it, or gets an error instead. *)
InsertQuote(r, q) ==
  /\ At(r, "insert") /\ quotes[q].state = "unused" /\ Referenced(request[r].company)
  /\ quotes' = [quotes EXCEPT ![q] = New("stored", request[r].company)]
  /\ \/ request' = [request EXCEPT ![r].step = "confirm", ![r].quote = q]
     \/ Answer(r)
  /\ UNCHANGED <<now, companies, deletion, history>>

InsertFails(r) ==
  /\ At(r, "insert")
  /\ Answer(r)
  /\ UNCHANGED <<now, companies, quotes, deletion, history>>

(* SendNewQuoteNotification if the company is there with an address, then  *)
(* SendQuoteSubmitConfirmation; how they ended is only logged.             *)
Confirm(r) ==
  /\ At(r, "confirm")
  /\ confirmed' \in {confirmed, confirmed \cup {request[r].quote}}
  /\ Answer(r)
  /\ UNCHANGED <<now, companies, quotes, deletion, mailed, lost>>

-----------------------------------------------------------------------------
(* Mutant: WHERE id = $2, without the company.                             *)
OwnsAny(c, q) == q \in Rows

(* WHERE id = $2 AND target_company_id = $3.                               *)
Owns(c, q) == q \in OfCompany(c)

(* A row that the delete in progress has deleted is locked until its end.  *)
Locked(q) == q \in deletion.rows

(* Reply: the statement starts, which sets the NOW() it will write.        *)
StartReply(r, c, q, n) ==
  /\ At(r, "idle")
  /\ request' = [request EXCEPT ![r] =
       [step |-> "reply", company |-> c, quote |-> q, note |-> n, start |-> now]]
  /\ UNCHANGED <<now, companies, quotes, deletion, history>>

(* Mutant: first_response_at = NOW().                                      *)
FirstResponseNow(row, start) == start

(* COALESCE(first_response_at, NOW()).                                     *)
FirstResponse(row, start) == IF row.first = Null THEN start ELSE row.first

(* SetReply, when it gets the row; replied_at, which is only shown, is     *)
(* left out.  The UPDATE commits by itself; when its answer is lost or     *)
(* cannot be scanned, the handler returns as if there were no such row.    *)
SetReply(r) ==
  LET q == request[r].quote IN
  /\ At(r, "reply") /\ Owns(request[r].company, q) /\ ~ Locked(q)
  /\ quotes' = [quotes EXCEPT ![q].reply = request[r].note, ![q].status = "responded",
                              ![q].first = FirstResponse(quotes[q], request[r].start)]
  /\ \/ Move(r, "mail") /\ UNCHANGED lost
     \/ Answer(r) /\ lost' = lost \cup {<<q, request[r].note>>}
  /\ UNCHANGED <<now, companies, deletion, confirmed, mailed>>

(* No row, or an error and nothing written.                                *)
ReplyFails(r) ==
  /\ At(r, "reply")
  /\ Answer(r)
  /\ UNCHANGED <<now, companies, quotes, deletion, history>>

(* Mutant: an error in reading the company's name ends the handler.        *)
MailReplyNamed(r) ==
  /\ At(r, "mail")
  /\ mailed' \in {mailed, mailed \cup {<<request[r].quote, request[r].note, request[r].company>>}}
  /\ Answer(r)
  /\ UNCHANGED <<now, companies, quotes, deletion, confirmed, lost>>

(* SendQuoteReply; how it ended is only logged.                            *)
MailReply(r) ==
  /\ At(r, "mail")
  /\ mailed' = mailed \cup {<<request[r].quote, request[r].note, request[r].company>>}
  /\ Answer(r)
  /\ UNCHANGED <<now, companies, quotes, deletion, confirmed, lost>>

(* The columns that one statement sets and no other one reads.             *)
SetColumn(c, q, row) ==
  /\ Owns(c, q) /\ ~ Locked(q)
  /\ quotes' = [quotes EXCEPT ![q] = row]
  /\ UNCHANGED <<now, companies, request, deletion, history>>

(* To any of the three, whatever it was; first_response_at is left alone.  *)
UpdateStatus(c, q, s) == SetColumn(c, q, [quotes[q] EXCEPT !.status = s])

(* SetOutcome: a closed quote can be answered, and closed again.           *)
Close(c, q) == SetColumn(c, q, [quotes[q] EXCEPT !.closed = TRUE])

SetTags(c, q, some) == SetColumn(c, q, [quotes[q] EXCEPT !.tagged = some])
SetFollowUp(c, q, some) == SetColumn(c, q, [quotes[q] EXCEPT !.followed = some])

-----------------------------------------------------------------------------
Delete(rows) ==
  quotes' = [q \in Quote |-> IF q \in rows THEN New("deleted", quotes[q].target) ELSE quotes[q]]

(* Mutant: the quotes are deleted outside the transaction.                 *)
DeleteQuotesAtOnce(c) ==
  /\ deletion = NoDelete /\ c \in companies
  /\ deletion' = [company |-> c, rows |-> {}]
  /\ Delete(OfCompany(c))
  /\ UNCHANGED <<now, companies, request, history>>

(* DELETE FROM quote_requests, in the transaction.                         *)
DeleteQuotes(c) ==
  /\ deletion = NoDelete /\ c \in companies
  /\ deletion' = [company |-> c, rows |-> OfCompany(c)]
  /\ UNCHANGED <<now, companies, quotes, request, history>>

(* DELETE FROM companies and COMMIT, if no quote came in between.          *)
DeleteCompany ==
  /\ deletion # NoDelete /\ OfCompany(deletion.company) \subseteq deletion.rows
  /\ companies' = companies \ {deletion.company}
  /\ Delete(deletion.rows)
  /\ deletion' = NoDelete
  /\ UNCHANGED <<now, request, history>>

(* The foreign key refuses, or an error: the deferred Rollback.            *)
DeleteFails ==
  /\ deletion # NoDelete /\ deletion' = NoDelete
  /\ UNCHANGED <<now, companies, quotes, request, history>>

Crash ==
  /\ lost' = lost \cup {<<request[r].quote, request[r].note>> : r \in {r \in Request : At(r, "mail")}}
  /\ request' = [r \in Request |-> Idle]
  /\ deletion' = NoDelete
  /\ UNCHANGED <<now, companies, quotes, confirmed, mailed>>

Tick ==
  /\ now < MaxTime /\ now' = now + 1
  /\ UNCHANGED <<companies, quotes, request, deletion, history>>

Next ==
  \/ \E r \in Request :
       \/ \E c \in Company \cup {None} : Submit(r, c)
       \/ \E q \in Quote : InsertQuote(r, q)
       \/ \E c \in Company, q \in Quote, n \in Note : StartReply(r, c, q, n)
       \/ InsertFails(r) \/ Confirm(r) \/ SetReply(r) \/ ReplyFails(r) \/ MailReply(r)
  \/ \E c \in Company, q \in Quote :
       \/ \E s \in Status : UpdateStatus(c, q, s)
       \/ Close(c, q)
       \/ \E some \in BOOLEAN : SetTags(c, q, some) \/ SetFollowUp(c, q, some)
  \/ \E c \in Company : DeleteQuotes(c)
  \/ DeleteCompany
  \/ DeleteFails
  \/ Crash
  \/ Tick

Spec == Init /\ [][Next]_vars

-----------------------------------------------------------------------------
TypeOK ==
  /\ now \in Time /\ companies \subseteq Company
  /\ quotes \in [Quote -> Row]
  /\ request \in [Request -> [step : {"idle", "insert", "confirm", "reply", "mail"},
                              company : Company \cup {None}, quote : Quote \cup {None},
                              note : Note \cup {None}, start : Time \cup {Null}]]
  /\ deletion \in [company : Company \cup {None}, rows : SUBSET Quote]
  /\ confirmed \subseteq Quote
  /\ mailed \subseteq Quote \X Note \X Company /\ lost \subseteq Quote \X Note

(* The time of the first response, from which response times are read, is  *)
(* the one of the reply that was first written, whatever later replies,    *)
(* status changes or earlier statements that waited for the row do to it.  *)
FirstResponseStays ==
  [][\A q \in Rows : q \in Rows' /\ quotes[q].first # Null => quotes'[q].first = quotes[q].first]_vars

(* What a requester was told has arrived is in the table as long as its    *)
(* company: a delete that a new quote makes fail takes none with it.       *)
ConfirmedIsKept ==
  \A q \in confirmed : q \in Rows \/ quotes[q].target \notin companies \cup {None}

(* A requester hears from the company that was asked, and from no other,   *)
(* even through tokens that outlive their company.                         *)
OnlyTargetReplies == \A m \in mailed : quotes[m[1]].target = m[3]

(* A reply on record is mailed or being mailed, unless a crash prevented   *)
(* its mail or the answer to the UPDATE that wrote it was lost: nothing    *)
(* that follows a written reply in the handler drops it.                   *)
ReplyIsMailed ==
  \A q \in Rows : LET n == quotes[q].reply IN n # None =>
    \/ \E c \in Company : <<q, n, c>> \in mailed
    \/ \E r \in Request : At(r, "mail") /\ request[r].quote = q /\ request[r].note = n
    \/ <<q, n>> \in lost

-----------------------------------------------------------------------------
(* The handlers implement the one-step operations of Correspondence: what  *)
(* is on record, what is due and what goes with a company never differ,    *)
(* whatever statements, mails, deletes, lost answers and crashes come      *)
(* between.                                                                *)
Due == {<<request[r].quote, request[r].note, request[r].company>> :
          r \in {r \in Request : At(r, "mail")}}

Promise == INSTANCE Correspondence WITH
  open   <- companies,
  filed  <- {q \in Quote : quotes[q].state # "unused"},
  target <- [q \in Quote |-> quotes[q].target],
  kept   <- Rows,
  reply  <- [q \in Quote |-> IF q \in Rows THEN quotes[q].reply ELSE None],
  told   <- confirmed,
  due    <- Due,
  heard  <- mailed
ImplementsCorrespondence == Promise!Spec

-----------------------------------------------------------------------------
(* The inductive invariant: what requests and the delete in progress know  *)
(* of rows stays so between their steps.                                   *)
Kept(q) == q \in Rows \/ quotes[q].target \notin companies \cup {None}
Used(q) == q \in Quote /\ quotes[q].state # "unused"

Underway ==
  \A r \in Request :
    /\ At(r, "confirm") => Used(request[r].quote) /\ Kept(request[r].quote)
    /\ At(r, "reply") => /\ request[r].company \in Company /\ request[r].quote \in Quote
                         /\ request[r].note \in Note /\ request[r].start \in Time
    /\ At(r, "mail") => /\ request[r].company \in Company /\ request[r].note \in Note
                        /\ Used(request[r].quote)
                        /\ quotes[request[r].quote].target = request[r].company

NothingUnused == (\A q \in confirmed : Used(q)) /\ (\A m \in mailed : Used(m[1]))

DeletionIsWhole ==
  /\ deletion = NoDelete \/ deletion.company \in Company
  /\ \A q \in deletion.rows : Used(q) /\ quotes[q].target = deletion.company

(* A quote on record has its company; so has the delete in progress.       *)
Founded ==
  /\ \A q \in Rows : quotes[q].target \in companies \cup {None}
  /\ deletion.company \in companies \cup {None}

InboxInv ==
  /\ TypeOK /\ ConfirmedIsKept /\ OnlyTargetReplies /\ ReplyIsMailed
  /\ Underway /\ NothingUnused /\ DeletionIsWhole
=============================================================================
