------------------------------ MODULE Approval ------------------------------
(***************************************************************************)
(* The registration -> approval flow: the public registration form and the *)
(* four administrator operations on an application, each the sequence of   *)
(* SQL statements its handler runs, interleaved statement by statement.    *)
(*                                                                         *)
(* The tables hold committed rows only.  What a transaction has written    *)
(* and not committed is in op[w], the local state of the worker (the       *)
(* goroutine of one HTTP request), so a rollback just forgets it.          *)
(* PostgreSQL, at READ COMMITTED, is modelled by what the statements rely  *)
(* on: FOR UPDATE row locks, unique indexes (an insert waits for an        *)
(* uncommitted row with the same key, and fails on a committed one), and   *)
(* foreign keys.  A row id that no row uses may be drawn for a new row.    *)
(***************************************************************************)
EXTENDS Naturals, FiniteSets

CONSTANTS
  Worker,         \* goroutines serving requests
  Registration,   \* ids of provider_registrations rows
  Company,        \* ids of companies rows
  User,           \* ids of users rows that belong to providers
  Email,          \* normalised addresses
  AdminEmail,     \* addresses of the administrators' users rows
  Name,           \* company names
  Slug,           \* companies.slug values
  MaxAttempt,     \* bound: slug candidates tried for one name
  SlugFor,        \* SlugFor[n, i]: the i-th candidate slug of name n
  PendingIndex,   \* migration 011 found no duplicates and made its index
  MaxQuotes,      \* bound: quotes waiting for one company
  None            \* SQL NULL, or no row

ASSUME ConstantsAssumption ==
  /\ AdminEmail \subseteq Email
  /\ MaxAttempt \in Nat \ {0} /\ MaxQuotes \in Nat
  /\ PendingIndex \in BOOLEAN
  /\ SlugFor \in [Name \X (1..MaxAttempt) -> Slug]
  /\ None \notin Worker \cup Registration \cup Company \cup User
  /\ None \notin Email \cup Name \cup Slug

VARIABLES
  registration,   \* provider_registrations
  company,        \* companies: the slug of each row, None where there is none
  user,           \* users of providers
  quotes,         \* number of quote_requests rows that target each company
  lock,           \* the worker that holds a registration row FOR UPDATE
  pc,             \* the next statement of each worker, or the answer it gives
  op              \* each worker's request, and what it wrote uncommitted

vars == <<registration, company, user, quotes, lock, pc, op>>

Row(s, e, n, c, u) ==
  [status |-> s, email |-> e, name |-> n, company |-> c, user |-> u]
NoRegistration == Row("absent", None, None, None, None)
NoUser == [email |-> None, company |-> None, mustChange |-> FALSE]
Request(r, e, n) ==
  [reg |-> r, email |-> e, name |-> n, attempt |-> 1, company |-> None,
   user |-> None, quotes |-> 0, users |-> {}]
NoOp == Request(None, None, None)

(* Where a worker is.  Lock: about to run SELECT ... FOR UPDATE.  Holding: *)
(* in a transaction that has the registration row.  Answers: done.         *)
Filing     == {"pending_exists", "insert_registration"}
Rejecting  == {"reject", "reject_check"}
Lock       == {"approve_lock", "delete_lock", "resend_lock"}
Approving  == {"email_in_use", "next_slug", "insert_company", "insert_user",
               "approve_commit"}
Deleting   == {"delete_quotes", "delete_users", "delete_company",
               "delete_commit"}
Resending  == {"reset_password", "resend_commit"}
Holding    == Approving \cup Deleting \cup Resending
Answers    == {"created", "duplicate", "approved", "rejected", "deleted",
               "resent", "not_found", "already_done", "email_taken",
               "no_company", "failed"}
InFlight   == Filing \cup Rejecting \cup Lock \cup Holding

Init ==
  /\ registration = [r \in Registration |-> NoRegistration]
  /\ company = [c \in Company |-> None]
  /\ user    = [u \in User |-> NoUser]
  /\ quotes  = [c \in Company |-> 0]
  /\ lock    = [r \in Registration |-> None]
  /\ pc      = [w \in Worker |-> "idle"]
  /\ op      = [w \in Worker |-> NoOp]

-----------------------------------------------------------------------------
tables == <<registration, company, user, quotes>>

Goto(w, label) == pc' = [pc EXCEPT ![w] = label]
At(w, label) == pc[w] = label

(* The end of a transaction: a commit or the deferred Rollback.            *)
Unlock(w) == lock' = [r \in Registration |->
                        IF lock[r] = w THEN None ELSE lock[r]]
(* Mutant: an error path that forgets the deferred Rollback.               *)
RefuseNoRollback(w, answer) == Goto(w, answer) /\ UNCHANGED <<tables, lock, op>>

Refuse(w, answer) == Goto(w, answer) /\ Unlock(w) /\ UNCHANGED <<tables, op>>
Continue(w, label) == Goto(w, label) /\ UNCHANGED <<tables, lock, op>>

Pending(e) == {r \in Registration : /\ registration[r].status = "pending"
                                    /\ registration[r].email = e}
Reg(w) == registration[op[w].reg]
EmailInUse(e) == e \in AdminEmail \/ \E u \in User : user[u].email = e
SlugInUse(s) == \E c \in Company : company[c] = s
Candidate(w) == SlugFor[Reg(w).name, op[w].attempt]

(* Keys of rows that a transaction has inserted, or deleted, without       *)
(* having committed: an insert of the same key waits for its outcome.      *)
HoldsSlug(v, s) ==
  \/ pc[v] \in {"insert_user", "approve_commit"} /\ Candidate(v) = s
  \/ At(v, "delete_commit") /\ company[op[v].company] = s
HoldsEmail(v, e) ==
  \/ At(v, "approve_commit") /\ Reg(v).email = e
  \/ /\ pc[v] \in {"delete_company", "delete_commit"}
     /\ \E u \in op[v].users : user[u].email = e

SlugHeld(s, w)  == \E v \in Worker \ {w} : HoldsSlug(v, s)
EmailHeld(e, w) == \E v \in Worker \ {w} : HoldsEmail(v, e)

-----------------------------------------------------------------------------
(* Bound: forms are taken while an unused row id is left for each of them. *)
IdLeft == Cardinality({w \in Worker : pc[w] \in Filing})
            < Cardinality({r \in Registration : registration[r].status = "absent"})

(* RegistrationHandler.Create, once the form is valid and normalised.      *)
StartRegister(w, e, n) ==
  /\ At(w, "idle") /\ IdLeft
  /\ Goto(w, "pending_exists")
  /\ op' = [op EXCEPT ![w] = Request(None, e, n)]
  /\ UNCHANGED <<tables, lock>>

(* The handler goes on to the insert when this query fails.                *)
PendingExists(w) ==
  /\ At(w, "pending_exists")
  /\ \/ Pending(op[w].email) # {} /\ Continue(w, "duplicate")
     \/ Continue(w, "insert_registration") /\ Pending(op[w].email) = {}

PendingExistsFails(w) ==
  /\ At(w, "pending_exists")
  /\ Continue(w, "insert_registration")

(* Mutant: the insert relies on the query before it.                       *)
InsertRegistrationUnchecked(w) ==
  /\ At(w, "insert_registration")
  /\ \E r \in Registration, answer \in {"created", "failed"} :
       /\ registration[r].status = "absent"
       /\ registration' = [registration EXCEPT ![r] =
            Row("pending", op[w].email, op[w].name, None, None)]
       /\ Goto(w, answer)
  /\ UNCHANGED <<company, user, quotes, lock, op>>

(* The partial unique index of migration 011 has the last word, where the  *)
(* migration could create it: it leaves it out of a database that already  *)
(* has two pending applications of one address.                            *)
InsertRegistration(w) ==
  /\ At(w, "insert_registration")
  /\ UNCHANGED <<company, user, quotes, lock, op>>
  /\ \/ /\ PendingIndex /\ Pending(op[w].email) # {}
        /\ Goto(w, "duplicate")
        /\ UNCHANGED registration
     \/ /\ PendingIndex => Pending(op[w].email) = {}
        /\ \E r \in Registration, answer \in {"created", "failed"} :
             /\ registration[r].status = "absent"
             /\ registration' = [registration EXCEPT ![r] =
                  Row("pending", op[w].email, op[w].name, None, None)]
             /\ Goto(w, answer)

-----------------------------------------------------------------------------
(* An administrator acts on an application that was listed at some time.   *)
StartAdmin(w, r, label) ==
  /\ At(w, "idle")
  /\ registration[r].status # "absent"
  /\ Goto(w, label)
  /\ op' = [op EXCEPT ![w] = Request(r, None, None)]
  /\ UNCHANGED <<tables, lock>>

(* Mutant: SELECT without FOR UPDATE.                                      *)
LockRowUnlocked(w, from, wanted, next, refusal) ==
  /\ At(w, from)
  /\ \/ Reg(w).status = "deleted" /\ Continue(w, "not_found")
     \/ Reg(w).status \notin {"deleted", wanted} /\ Continue(w, refusal)
     \/ Reg(w).status = wanted /\ Continue(w, next)

(* BEGIN; SELECT ... FOR UPDATE, and the test of the status it returns.    *)
LockRow(w, from, wanted, next, refusal) ==
  /\ At(w, from)
  /\ lock[op[w].reg] = None
  /\ \/ Reg(w).status = "deleted" /\ Continue(w, "not_found")
     \/ Reg(w).status \notin {"deleted", wanted} /\ Continue(w, refusal)
     \/ /\ Reg(w).status = wanted
        /\ lock' = [lock EXCEPT ![op[w].reg] = w]
        /\ Goto(w, next)
        /\ UNCHANGED <<tables, op>>

ApproveLock(w) ==
  LockRow(w, "approve_lock", "pending", "email_in_use", "already_done")

CheckEmail(w) ==
  /\ At(w, "email_in_use")
  /\ IF EmailInUse(Reg(w).email)
     THEN Refuse(w, "email_taken")
     ELSE Continue(w, "next_slug")

(* One round of nextCompanySlug's loop.                                    *)
NextSlug(w) ==
  /\ At(w, "next_slug")
  /\ UNCHANGED <<tables, lock>>
  /\ \/ ~ SlugInUse(Candidate(w)) /\ Goto(w, "insert_company") /\ UNCHANGED op
     \/ /\ SlugInUse(Candidate(w)) /\ op[w].attempt < MaxAttempt
        /\ op' = [op EXCEPT ![w].attempt = @ + 1]
        /\ UNCHANGED pc

(* Mutant: the company is inserted on the pool, not in the transaction.    *)
InsertCompanyOutside(w) ==
  /\ At(w, "insert_company")
  /\ ~ SlugHeld(Candidate(w), w) /\ ~ SlugInUse(Candidate(w))
  /\ \E c \in Company :
       /\ company[c] = None
       /\ company' = [company EXCEPT ![c] = Candidate(w)]
       /\ op' = [op EXCEPT ![w].company = c]
  /\ Goto(w, "insert_user")
  /\ UNCHANGED <<registration, user, quotes, lock>>

InsertCompany(w) ==
  /\ At(w, "insert_company")
  /\ ~ SlugHeld(Candidate(w), w)
  /\ \/ SlugInUse(Candidate(w)) /\ Refuse(w, "failed")
     \/ /\ ~ SlugInUse(Candidate(w))
        /\ \E c \in Company :
             /\ company[c] = None
             /\ \A v \in Worker : op[v].company # c
             /\ op' = [op EXCEPT ![w].company = c]
        /\ Goto(w, "insert_user")
        /\ UNCHANGED <<tables, lock>>

(* Mutant: no UNIQUE constraint on the address.                            *)
InsertUserUnchecked(w) ==
  /\ At(w, "insert_user")
  /\ \E u \in User : /\ user[u] = NoUser
                     /\ op' = [op EXCEPT ![w].user = u]
  /\ Goto(w, "approve_commit")
  /\ UNCHANGED <<tables, lock>>

InsertUser(w) ==
  /\ At(w, "insert_user")
  /\ ~ EmailHeld(Reg(w).email, w)
  /\ \/ EmailInUse(Reg(w).email) /\ Refuse(w, "failed")
     \/ /\ ~ EmailInUse(Reg(w).email)
        /\ \E u \in User :
             /\ user[u] = NoUser
             /\ \A v \in Worker : op[v].user # u
             /\ op' = [op EXCEPT ![w].user = u]
        /\ Goto(w, "approve_commit")
        /\ UNCHANGED <<tables, lock>>

(* UPDATE provider_registrations and COMMIT.  The acknowledgement of a     *)
(* commit may be lost: the handler then answers 500 for work that is done. *)
ApproveCommit(w) ==
  /\ At(w, "approve_commit")
  /\ registration' = [registration EXCEPT ![op[w].reg] =
       Row("approved", Reg(w).email, Reg(w).name, op[w].company, op[w].user)]
  /\ company' = [company EXCEPT ![op[w].company] = Candidate(w)]
  /\ user' = [user EXCEPT ![op[w].user] =
                [email |-> Reg(w).email, company |-> op[w].company,
                 mustChange |-> TRUE]]
  /\ \E answer \in {"approved", "failed"} : Goto(w, answer)
  /\ Unlock(w)
  /\ UNCHANGED <<quotes, op>>

-----------------------------------------------------------------------------
(* Mutant: UPDATE ... WHERE id, without the status.                        *)
RejectAnyStatus(w) ==
  /\ At(w, "reject") /\ lock[op[w].reg] = None
  /\ registration' = [registration EXCEPT ![op[w].reg].status = "rejected"]
  /\ Goto(w, "rejected")
  /\ UNCHANGED <<company, user, quotes, lock, op>>

(* UPDATE ... WHERE status = 'pending': waits for a lock on a pending row  *)
(* and looks at the status again when it gets the row.                     *)
Reject(w) ==
  /\ At(w, "reject")
  /\ \/ Reg(w).status # "pending" /\ Continue(w, "reject_check")
     \/ /\ Reg(w).status = "pending" /\ lock[op[w].reg] = None
        /\ registration' =
             [registration EXCEPT ![op[w].reg].status = "rejected"]
        /\ \E answer \in {"rejected", "failed"} : Goto(w, answer)
        /\ UNCHANGED <<company, user, quotes, lock, op>>

(* Mutant: no row updated is taken for no row there.                       *)
RejectCheckMissing(w) == At(w, "reject_check") /\ Continue(w, "not_found")

(* No row updated: a second statement tells 404 from 409.                  *)
RejectCheck(w) ==
  /\ At(w, "reject_check")
  /\ Continue(w, IF Reg(w).status = "deleted" THEN "not_found"
                                              ELSE "already_done")

-----------------------------------------------------------------------------
(* DeleteApprovedCompanyByRegistration, for a registration whose           *)
(* company_id is set (every approval since migration 011 sets it).         *)
DeleteLock(w) ==
  LockRow(w, "delete_lock", "approved", "delete_quotes", "no_company")

(* The company exists (a SELECT); DELETE FROM quote_requests.              *)
DeleteQuotes(w) ==
  /\ At(w, "delete_quotes")
  /\ LET c == Reg(w).company IN
     IF c = None \/ company[c] = None
     THEN Refuse(w, "no_company")
     ELSE /\ op' = [op EXCEPT ![w].company = c, ![w].quotes = quotes[c]]
          /\ Goto(w, "delete_users")
          /\ UNCHANGED <<tables, lock>>

DeleteUsers(w) ==
  /\ At(w, "delete_users")
  /\ op' = [op EXCEPT ![w].users =
              {u \in User : user[u].company = op[w].company}]
  /\ Goto(w, "delete_company")
  /\ UNCHANGED <<tables, lock>>

(* Mutant: no foreign key on quote_requests.                               *)
DeleteCompanyUnchecked(w) ==
  At(w, "delete_company") /\ Continue(w, "delete_commit")

(* The foreign keys of users and quote_requests refuse to let a company go *)
(* while a row that this transaction did not delete refers to it.          *)
DeleteCompany(w) ==
  /\ At(w, "delete_company")
  /\ IF /\ quotes[op[w].company] = op[w].quotes
        /\ \A u \in User :
             user[u].company = op[w].company => u \in op[w].users
     THEN Continue(w, "delete_commit")
     ELSE Refuse(w, "failed")

DeleteCommit(w) ==
  /\ At(w, "delete_commit")
  /\ registration' = [registration EXCEPT ![op[w].reg] =
                        Row("deleted", None, None, None, None)]
  /\ company' = [company EXCEPT ![op[w].company] = None]
  /\ user' = [u \in User |-> IF u \in op[w].users THEN NoUser ELSE user[u]]
  /\ quotes' = [quotes EXCEPT ![op[w].company] = @ - op[w].quotes]
  /\ \E answer \in {"deleted", "failed"} : Goto(w, answer)
  /\ Unlock(w)
  /\ UNCHANGED op

-----------------------------------------------------------------------------
(* ResetInitialPassword, for a registration whose user_id is set.          *)
ResendLock(w) ==
  LockRow(w, "resend_lock", "approved", "reset_password", "no_company")

ResetPassword(w) ==
  /\ At(w, "reset_password")
  /\ IF Reg(w).user = None \/ user[Reg(w).user] = NoUser
     THEN Refuse(w, "no_company")
     ELSE Continue(w, "resend_commit")

(* SELECT of the user's company (its absence is a 500) and COMMIT.         *)
ResendCommit(w) ==
  /\ At(w, "resend_commit")
  /\ LET u == Reg(w).user IN
     IF company[user[u].company] = None
     THEN Refuse(w, "failed")
     ELSE /\ user' = [user EXCEPT ![u].mustChange = TRUE]
          /\ \E answer \in {"resent", "failed"} : Goto(w, answer)
          /\ Unlock(w)
          /\ UNCHANGED <<registration, company, quotes, op>>

-----------------------------------------------------------------------------
(* A public quote for a company.  The foreign key waits for a transaction  *)
(* that has deleted the company and not committed.                         *)
PostQuote(c) ==
  /\ company[c] # None
  /\ quotes[c] < MaxQuotes
  /\ ~ \E w \in Worker : At(w, "delete_commit") /\ op[w].company = c
  /\ quotes' = [quotes EXCEPT ![c] = @ + 1]
  /\ UNCHANGED <<registration, company, user, lock, pc, op>>

(* AuthHandler.ChangePassword of the provider: one UPDATE by user id, which *)
(* waits for a transaction that has written the row.                       *)
ChangePassword(u) ==
  /\ user[u].mustChange
  /\ ~ \E w \in Worker :
       \/ At(w, "resend_commit") /\ Reg(w).user = u
       \/ pc[w] \in {"delete_company", "delete_commit"} /\ u \in op[w].users
  /\ user' = [user EXCEPT ![u].mustChange = FALSE]
  /\ UNCHANGED <<registration, company, quotes, lock, pc, op>>

(* A statement fails (connection lost, timeout): the transaction rolls     *)
(* back and the handler answers 500.                                       *)
Fail(w) == pc[w] \in InFlight /\ Refuse(w, "failed")

(* The response is written and the goroutine ends.                         *)
Return(w) ==
  /\ pc[w] \in Answers
  /\ Goto(w, "idle")
  /\ op' = [op EXCEPT ![w] = NoOp]
  /\ UNCHANGED <<tables, lock>>

(* The process dies; the database rolls its open transactions back.        *)
Crash ==
  /\ lock' = [r \in Registration |-> None]
  /\ pc' = [w \in Worker |-> "idle"]
  /\ op' = [w \in Worker |-> NoOp]
  /\ UNCHANGED tables

Start(w) ==
  \/ \E e \in Email, n \in Name : StartRegister(w, e, n)
  \/ \E r \in Registration, label \in Lock \cup {"reject"} :
       StartAdmin(w, r, label)

Progress(w) ==
  \/ PendingExists(w) \/ InsertRegistration(w)
  \/ ApproveLock(w) \/ CheckEmail(w) \/ NextSlug(w)
  \/ InsertCompany(w) \/ InsertUser(w) \/ ApproveCommit(w)
  \/ Reject(w) \/ RejectCheck(w)
  \/ DeleteLock(w) \/ DeleteQuotes(w) \/ DeleteUsers(w)
  \/ DeleteCompany(w) \/ DeleteCommit(w)
  \/ ResendLock(w) \/ ResetPassword(w) \/ ResendCommit(w)
  \/ Return(w)

Next ==
  \/ \E w \in Worker : Start(w) \/ Progress(w) \/ PendingExistsFails(w) \/ Fail(w)
  \/ \E c \in Company : PostQuote(c)
  \/ \E u \in User : ChangePassword(u)
  \/ Crash

Spec == Init /\ [][Next]_vars

(* PostgreSQL queues the waiters of a lock, so a statement that is able to *)
(* run again and again does run: strong fairness of each request.          *)
FairSpec == Spec /\ \A w \in Worker : SF_vars(Progress(w))
=============================================================================
