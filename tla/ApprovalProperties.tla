------------------------- MODULE ApprovalProperties -------------------------
(***************************************************************************)
(* What the registration -> approval flow guarantees.                      *)
(***************************************************************************)
EXTENDS Approval

Statuses == {"absent", "pending", "approved", "rejected", "deleted"}
RegistrationRow ==
  [status : Statuses, email : Email \cup {None}, name : Name \cup {None},
   company : Company \cup {None}, user : User \cup {None}]
UserRow == [email : Email \cup {None}, company : Company \cup {None},
            mustChange : BOOLEAN]
Op == [reg : Registration \cup {None}, email : Email \cup {None},
       name : Name \cup {None}, attempt : 1..MaxAttempt,
       company : Company \cup {None}, user : User \cup {None},
       quotes : Nat, users : SUBSET User]

(* Every table and every worker holds values of its kind: admin_repo.go    *)
(* never writes a status outside the five, nor a slug candidate that       *)
(* nextCompanySlug did not produce.                                        *)
TypeOK ==
  /\ registration \in [Registration -> RegistrationRow]
  /\ company \in [Company -> Slug \cup {None}]
  /\ user \in [User -> UserRow]
  /\ quotes \in [Company -> Nat]
  /\ lock \in [Registration -> Worker \cup {None}]
  /\ pc \in [Worker -> {"idle"} \cup InFlight \cup Answers]
  /\ op \in [Worker -> Op]

Approved == {r \in Registration : registration[r].status = "approved"}

(* However two submissions of the form interleave, an address has one      *)
(* application in review at most (RegistrationHandler.Create checks, then  *)
(* inserts).                                                               *)
OnePendingPerEmail ==
  \A q, r \in Registration :
    /\ registration[q].status = "pending"
    /\ registration[r].status = "pending"
    /\ registration[q].email = registration[r].email
    => q = r

(* ApproveRegistration and DeleteApprovedCompanyByRegistration are all or  *)
(* nothing: every approved application has its own company and its own     *)
(* login in that company, and there is no company and no provider login    *)
(* that an approved application does not account for -- after any mix of   *)
(* concurrent approvals, deletions, failures and crashes.                  *)
AccountsMatchApprovals ==
  /\ \A r \in Approved :
       LET c == registration[r].company  u == registration[r].user IN
       /\ c \in Company /\ company[c] # None
       /\ u \in User /\ user[u].company = c
       /\ user[u].email = registration[r].email
  /\ \A c \in Company : company[c] # None =>
       \E r \in Approved : registration[r].company = c
  /\ \A u \in User : user[u] # NoUser =>
       \E r \in Approved : registration[r].user = u
  /\ \A q, r \in Approved :
       registration[q].company = registration[r].company => q = r

(* Two approvals that chose the same slug, or the same address, in         *)
(* nextCompanySlug and the COUNT on users before either committed do not   *)
(* both get it.                                                            *)
KeysAreUnique ==
  /\ \A c, d \in Company : company[c] = company[d] /\ company[c] # None => c = d
  /\ \A u, v \in User : user[u].email = user[v].email /\ user[u] # NoUser => u = v
  /\ \A u \in User : user[u].email \notin AdminEmail

(* What a handler tells the administrator is so, and stays so while the    *)
(* response travels, whatever the other requests do: 200 from approve      *)
(* means approved (or deleted since); 409 "ya fue procesado" means decided;*)
(* 404 of a row once listed means deleted.                                 *)
AnswersAreTrue ==
  \A w \in Worker :
    LET s == registration[op[w].reg].status IN
    /\ At(w, "approved") =>
         s = "deleted" \/ (s = "approved" /\ Reg(w).company = op[w].company)
    /\ At(w, "rejected") => s = "rejected"
    /\ At(w, "deleted") => s = "deleted"
    /\ At(w, "resent") => s \in {"approved", "deleted"}
    /\ At(w, "already_done") => s \in {"approved", "rejected", "deleted"}
    /\ At(w, "not_found") => s = "deleted"

(* A quote request always has a company behind it (DELETE FROM companies   *)
(* races the public quote form).                                           *)
QuotesHaveCompany == \A c \in Company : quotes[c] > 0 => company[c] # None

(* Whoever holds the row of an approved application -- a delete halfway    *)
(* through its statements, a resend -- has a whole account in front of it: *)
(* no other request takes the company or the login away under the lock.    *)
NoHalfAccount ==
  \A w \in Worker : pc[w] \in Deleting \cup Resending =>
    /\ Reg(w).company \in Company /\ company[Reg(w).company] # None
    /\ Reg(w).user \in User /\ user[Reg(w).user] # NoUser

(* A decision is final.  Whatever approve, reject, delete and resend do to *)
(* one application at once, it moves pending -> approved -> deleted or     *)
(* pending -> rejected, one way.                                           *)
DecisionsAreFinal ==
  [][\A r \in Registration :
       LET s == registration[r].status  t == registration'[r].status IN
       s # t => <<s, t>> \in {<<"absent", "pending">>, <<"pending", "approved">>,
                              <<"pending", "rejected">>, <<"approved", "deleted">>}]_vars

(* A request that the database keeps waiting at its next statement, and    *)
(* the request it waits for: SELECT ... FOR UPDATE and reject's UPDATE on  *)
(* a locked row, the INSERTs on a key that is not settled.                 *)
WaitsFor(w, v) ==
  \/ /\ pc[w] \in Lock \/ (At(w, "reject") /\ Reg(w).status = "pending")
     /\ lock[op[w].reg] = v
  \/ At(w, "insert_company") /\ v # w /\ HoldsSlug(v, Candidate(w))
  \/ At(w, "insert_user") /\ v # w /\ HoldsEmail(v, Reg(w).email)

(* No request waits for ever, as far as the locks go: a locked row belongs *)
(* to a transaction that is under way on it, never to one that has         *)
(* answered, crashed or failed, and no requests wait for one another, with *)
(* row locks, slugs and addresses held together.                           *)
RowsAreFreed ==
  \A r \in Registration : lock[r] # None =>
    pc[lock[r]] \in Holding /\ op[lock[r]].reg = r
NoDeadlock ==
  /\ RowsAreFreed
  /\ \A W \in SUBSET Worker :
       W # {} => \E w \in W : \A v \in W : ~ WaitsFor(w, v)

(* A request never hangs on a row lock or on an index another request      *)
(* holds: it is answered, or lost with the process.                        *)
EveryRequestEnds == \A w \in Worker : pc[w] # "idle" ~> pc[w] = "idle"

-----------------------------------------------------------------------------
(* The handlers implement the one-step operations of Onboarding.           *)
Abstract == INSTANCE Onboarding WITH
  status  <- [r \in Registration |-> registration[r].status],
  contact <- [r \in Registration |-> registration[r].email],
  page    <- [r \in Registration |-> IF r \in Approved
                THEN company[registration[r].company] ELSE None],
  login   <- [r \in Registration |-> IF r \in Approved
                THEN user[registration[r].user].email ELSE None],
  initial <- [r \in Registration |-> IF r \in Approved
                THEN user[registration[r].user].mustChange ELSE FALSE],
  inbox   <- [r \in Registration |-> IF r \in Approved
                THEN quotes[registration[r].company] ELSE 0]
ImplementsOnboarding == Abstract!Spec

-----------------------------------------------------------------------------
(* The parts of the inductive invariant beyond the properties above.       *)

Deciding == Rejecting \cup Lock \cup Holding
Decided  == {"approved", "rejected", "deleted", "resent", "already_done",
             "not_found"}
Inserted == {"insert_user", "approve_commit"}   \* has an uncommitted company

(* A request keeps the data it came with.                                  *)
RequestInv == \A w \in Worker :
  /\ pc[w] \in Filing => op[w].email \in Email /\ op[w].name \in Name
  /\ pc[w] \in Deciding \cup Decided =>
       op[w].reg \in Registration /\ Reg(w).status # "absent"

(* Rows that stand for something are complete.                             *)
RowInv ==
  /\ \A r \in Registration : registration[r].status \in {"pending", "approved"} =>
       registration[r].email \in Email /\ registration[r].name \in Name
  /\ \A u \in User : user[u] # NoUser =>
       user[u].email \in Email /\ user[u].company \in Company

(* A transaction past its locking read holds the row, in the status it     *)
(* read there.                                                             *)
LockInv == \A w \in Worker : pc[w] \in Holding =>
  /\ lock[op[w].reg] = w
  /\ Reg(w).status = IF pc[w] \in Approving THEN "pending" ELSE "approved"

(* A reject that found no pending row does not find one later.             *)
RejectingInv == \A w \in Worker : At(w, "reject_check") => Reg(w).status # "pending"

(* What an approval has inserted is in nobody else's way.                  *)
ApprovingInv ==
  /\ \A w \in Worker : pc[w] \in Inserted =>
       /\ op[w].company \in Company /\ company[op[w].company] = None
       /\ ~ SlugInUse(Candidate(w))
  /\ \A w \in Worker : At(w, "approve_commit") =>
       /\ op[w].user \in User /\ user[op[w].user] = NoUser
       /\ ~ EmailInUse(Reg(w).email)
  /\ \A v, w \in Worker : v # w /\ pc[v] \in Inserted /\ pc[w] \in Inserted =>
       op[v].company # op[w].company /\ Candidate(v) # Candidate(w)
  /\ \A v, w \in Worker : v # w /\ At(v, "approve_commit") /\ At(w, "approve_commit") =>
       op[v].user # op[w].user /\ Reg(v).email # Reg(w).email

(* What a delete has removed so far is all there is.                       *)
DeletingInv == \A w \in Worker :
  /\ pc[w] \in Deleting \ {"delete_quotes"} => op[w].company = Reg(w).company
  /\ pc[w] \in {"delete_company", "delete_commit"} =>
       op[w].users = {u \in User : user[u].company = op[w].company}
  /\ At(w, "delete_commit") => quotes[op[w].company] = op[w].quotes

IInv == /\ TypeOK /\ RequestInv /\ RowInv /\ LockInv /\ RejectingInv
        /\ ApprovingInv /\ DeletingInv /\ AccountsMatchApprovals /\ KeysAreUnique
        /\ QuotesHaveCompany /\ AnswersAreTrue
        /\ (PendingIndex => OnePendingPerEmail)
=============================================================================
