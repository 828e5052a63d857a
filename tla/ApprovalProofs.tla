--------------------------- MODULE ApprovalProofs ---------------------------
(***************************************************************************)
(* TLAPS proofs about Approval, for any number of workers, applications,   *)
(* companies and users.                                                    *)
(***************************************************************************)
EXTENDS ApprovalProperties, TLAPS

(* Steps that change no table.                                             *)
Quiet(w) ==
  \/ Start(w) \/ PendingExists(w) \/ PendingExistsFails(w)
  \/ ApproveLock(w) \/ CheckEmail(w) \/ NextSlug(w)
  \/ InsertCompany(w) \/ InsertUser(w)
  \/ RejectCheck(w)
  \/ DeleteLock(w) \/ DeleteQuotes(w) \/ DeleteUsers(w) \/ DeleteCompany(w)
  \/ ResendLock(w) \/ ResetPassword(w)
  \/ Return(w) \/ Fail(w)

LEMMA QuietStep ==
  ASSUME NEW w \in Worker, Quiet(w)
  PROVE  UNCHANGED <<registration, company, user, quotes>>
BY DEF Quiet, Start, StartRegister, StartAdmin, PendingExists,
  PendingExistsFails, ApproveLock, CheckEmail, NextSlug, InsertCompany,
  InsertUser, RejectCheck, DeleteLock, DeleteQuotes, DeleteUsers,
  DeleteCompany, ResendLock, ResetPassword, Return, Fail, LockRow, Refuse,
  Continue, tables

(* The initial state satisfies the inductive invariant.                    *)
LEMMA InitIInv == Init => IInv
<1> SUFFICES ASSUME Init PROVE IInv
  OBVIOUS
<1> USE ConstantsAssumption
<1>1. TypeOK
  BY DEF Init, TypeOK, NoRegistration, NoUser, NoOp, RegistrationRow, UserRow,
    Op, Statuses, Row, Request
<1>2. RequestInv /\ LockInv /\ RejectingInv /\ ApprovingInv /\ DeletingInv /\ AnswersAreTrue
  BY DEF Init, RequestInv, LockInv, RejectingInv, ApprovingInv, DeletingInv, AnswersAreTrue,
    At, Filing, Deciding, Decided, Rejecting, Lock, Holding, Approving,
    Deleting, Resending, Inserted
<1>3. RowInv /\ AccountsMatchApprovals /\ KeysAreUnique /\ QuotesHaveCompany
  BY DEF Init, RowInv, AccountsMatchApprovals, KeysAreUnique,
    QuotesHaveCompany, Approved, NoRegistration, NoUser, Row
<1>4. OnePendingPerEmail
  BY DEF Init, OnePendingPerEmail, NoRegistration, Row
<1> QED
  BY <1>1, <1>2, <1>3, <1>4 DEF IInv

-----------------------------------------------------------------------------
(* Where every action is: a quiet step, or one of the steps that commit.   *)
LEMMA Cases ==
  ASSUME Next
  PROVE  \/ \E w \in Worker : Quiet(w)
         \/ \E w \in Worker : \/ InsertRegistration(w) \/ ApproveCommit(w)
                              \/ Reject(w) \/ DeleteCommit(w)
                              \/ ResendCommit(w)
         \/ \E c \in Company : PostQuote(c)
         \/ \E u \in User : ChangePassword(u)
         \/ Crash
BY DEF Next, Progress, Quiet

(* The labels of pc, for the provers to tell apart.                        *)
USE DEF At, Goto, Filing, Rejecting, Lock, Approving, Deleting, Resending,
        Holding, Answers, InFlight, Inserted, Deciding, Decided, tables

(* Every step keeps pc, lock and op of the right kind.                     *)
PcType   == pc \in [Worker -> {"idle"} \cup InFlight \cup Answers]
LockType == lock \in [Registration -> Worker \cup {None}]
OpType   == op \in [Worker -> Op]

LEMMA RefuseType ==
  ASSUME NEW w \in Worker, NEW answer \in Answers, TypeOK, Refuse(w, answer)
  PROVE  PcType' /\ LockType' /\ OpType'
BY DEF TypeOK, Refuse, Unlock, PcType, LockType, OpType

LEMMA ContinueType ==
  ASSUME NEW w \in Worker, NEW label \in InFlight \cup Answers, TypeOK,
         Continue(w, label)
  PROVE  PcType' /\ LockType' /\ OpType'
BY DEF TypeOK, Continue, PcType, LockType, OpType

LEMMA LockRowType ==
  ASSUME NEW w \in Worker, NEW from, NEW wanted, NEW next \in Holding,
         NEW refusal \in Answers, TypeOK, LockRow(w, from, wanted, next, refusal)
  PROVE  PcType' /\ LockType' /\ OpType'
<1>1. CASE Continue(w, "not_found") \/ Continue(w, refusal)
  BY <1>1, ContinueType
<1>2. CASE ~ (Continue(w, "not_found") \/ Continue(w, refusal))
  BY <1>2 DEF LockRow, TypeOK, PcType, LockType, OpType
<1> QED
  BY <1>1, <1>2

(* Changing one component of a request leaves a request.                   *)
LEMMA OpRows ==
  ASSUME NEW o \in Op
  PROVE  /\ o.attempt < MaxAttempt => [o EXCEPT !.attempt = @ + 1] \in Op
         /\ \A c \in Company : [o EXCEPT !.company = c] \in Op
         /\ \A u \in User : [o EXCEPT !.user = u] \in Op
         /\ \A S \in SUBSET User : [o EXCEPT !.users = S] \in Op
<1>1. o.attempt < MaxAttempt => [o EXCEPT !.attempt = @ + 1] \in Op
  BY ConstantsAssumption DEF Op
<1>2. \A c \in Company : [o EXCEPT !.company = c] \in Op
  BY DEF Op
<1>3. \A u \in User : [o EXCEPT !.user = u] \in Op
  BY DEF Op
<1>4. \A S \in SUBSET User : [o EXCEPT !.users = S] \in Op
  BY DEF Op
<1> QED
  BY <1>1, <1>2, <1>3, <1>4

LEMMA RequestType ==
  ASSUME NEW r \in Registration \cup {None}, NEW e \in Email \cup {None},
         NEW n \in Name \cup {None}
  PROVE  Request(r, e, n) \in Op
BY ConstantsAssumption DEF Op, Request

LEMMA QuietType ==
  ASSUME NEW w \in Worker, TypeOK, RequestInv, Quiet(w)
  PROVE  PcType' /\ LockType' /\ OpType'
<1> USE DEF TypeOK, PcType, LockType, OpType
<1>1. ASSUME NEW e \in Email, NEW n \in Name, StartRegister(w, e, n)
      PROVE  PcType' /\ LockType' /\ OpType'
  BY <1>1, RequestType DEF StartRegister
<1>2. ASSUME NEW r \in Registration, NEW label \in Lock \cup {"reject"},
             StartAdmin(w, r, label)
      PROVE  PcType' /\ LockType' /\ OpType'
  BY <1>2, RequestType DEF StartAdmin
<1>3. CASE PendingExists(w) \/ PendingExistsFails(w) \/ RejectCheck(w)
  BY <1>3, ContinueType DEF PendingExists, PendingExistsFails, RejectCheck
<1>4. CASE ApproveLock(w) \/ DeleteLock(w) \/ ResendLock(w)
  BY <1>4, LockRowType DEF ApproveLock, DeleteLock, ResendLock
<1>5. CASE CheckEmail(w) \/ DeleteCompany(w) \/ ResetPassword(w) \/ Fail(w)
  BY <1>5, ContinueType, RefuseType
    DEF CheckEmail, DeleteCompany, ResetPassword, Fail
<1>6. CASE NextSlug(w)
  BY <1>6, OpRows DEF NextSlug
<1>7. CASE InsertCompany(w)
  <2>1. CASE Refuse(w, "failed")
    BY <2>1, RefuseType
  <2>2. CASE ~ Refuse(w, "failed")
    <3>1. PICK c \in Company : op' = [op EXCEPT ![w].company = c]
      BY <1>7, <2>2 DEF InsertCompany
    <3>2. [op[w] EXCEPT !.company = c] \in Op
      BY OpRows
    <3> QED
      BY <1>7, <2>2, <3>1, <3>2 DEF InsertCompany
  <2> QED
    BY <2>1, <2>2
<1>8. CASE InsertUser(w)
  <2>1. CASE Refuse(w, "failed")
    BY <2>1, RefuseType
  <2>2. CASE ~ Refuse(w, "failed")
    <3>1. PICK u \in User : op' = [op EXCEPT ![w].user = u]
      BY <1>8, <2>2 DEF InsertUser
    <3>2. [op[w] EXCEPT !.user = u] \in Op
      BY OpRows
    <3> QED
      BY <1>8, <2>2, <3>1, <3>2 DEF InsertUser
  <2> QED
    BY <2>1, <2>2
<1>9. CASE DeleteQuotes(w)
  <2> DEFINE c == Reg(w).company
  <2>1. CASE Refuse(w, "no_company")
    BY <2>1, RefuseType
  <2>2. CASE ~ Refuse(w, "no_company")
    <3>1. c # None /\ c \in Company \cup {None} /\ company[c] # None
      BY <1>9, <2>2 DEF DeleteQuotes, Reg, RegistrationRow, RequestInv
    <3>2. [op[w] EXCEPT !.company = c, !.quotes = quotes[c]] \in Op
      BY <3>1 DEF Op
    <3> QED
      BY <1>9, <2>2, <3>2 DEF DeleteQuotes
  <2> QED
    BY <2>1, <2>2
<1>10. CASE DeleteUsers(w)
  BY <1>10, OpRows DEF DeleteUsers
<1>11. CASE Return(w)
  BY <1>11, RequestType DEF Return, NoOp
<1> QED
  BY <1>1, <1>2, <1>3, <1>4, <1>5, <1>6, <1>7, <1>8, <1>9, <1>10, <1>11
    DEF Quiet, Start

-----------------------------------------------------------------------------
(* What the steps that write the tables write.                             *)
TablesType == /\ registration \in [Registration -> RegistrationRow]
              /\ company \in [Company -> Slug \cup {None}]
              /\ user \in [User -> UserRow]
              /\ quotes \in [Company -> Nat]

Login(e, c, m) == [email |-> e, company |-> c, mustChange |-> m]

LEMMA Excepts ==
  /\ \A x \in RegistrationRow, s \in Statuses :
       [x EXCEPT !.status = s] = Row(s, x.email, x.name, x.company, x.user)
  /\ \A x \in UserRow, b \in BOOLEAN :
       [x EXCEPT !.mustChange = b] = Login(x.email, x.company, b)
<1>1. \A x \in RegistrationRow, s \in Statuses :
        [x EXCEPT !.status = s] = Row(s, x.email, x.name, x.company, x.user)
  BY DEF RegistrationRow, Row
<1>2. \A x \in UserRow, b \in BOOLEAN :
        [x EXCEPT !.mustChange = b] = Login(x.email, x.company, b)
  BY DEF UserRow, Login
<1> QED
  BY <1>1, <1>2

InsertRegistrationEffect(w) ==
  LET e == op[w].email  n == op[w].name IN
  /\ e \in Email /\ n \in Name
  /\ UNCHANGED <<company, user, quotes, lock, op>>
  /\ \/ UNCHANGED registration /\ pc' = [pc EXCEPT ![w] = "duplicate"]
     \/ /\ PendingIndex => Pending(e) = {}
        /\ \E r \in Registration, answer \in {"created", "failed"} :
             /\ registration[r].status = "absent"
             /\ registration' =
                  [registration EXCEPT ![r] = Row("pending", e, n, None, None)]
             /\ pc' = [pc EXCEPT ![w] = answer]

LEMMA InsertRegistrationFacts ==
  ASSUME NEW w \in Worker, IInv, InsertRegistration(w)
  PROVE  InsertRegistrationEffect(w)
<1>1. op[w].email \in Email /\ op[w].name \in Name
  BY DEF IInv, RequestInv, InsertRegistration
<1> QED
  BY <1>1 DEF InsertRegistration, InsertRegistrationEffect

ApproveCommitEffect(w) ==
  LET r == op[w].reg  c == op[w].company  u == op[w].user IN
  /\ r \in Registration /\ registration[r].status = "pending"
  /\ lock[r] = w
  /\ registration[r].email \in Email /\ registration[r].name \in Name
  /\ c \in Company /\ company[c] = None
  /\ Candidate(w) \in Slug /\ ~ SlugInUse(Candidate(w))
  /\ u \in User /\ user[u] = NoUser
  /\ ~ EmailInUse(registration[r].email)
  /\ registration' = [registration EXCEPT ![r] =
       Row("approved", registration[r].email, registration[r].name, c, u)]
  /\ company' = [company EXCEPT ![c] = Candidate(w)]
  /\ user' = [user EXCEPT ![u] = Login(registration[r].email, c, TRUE)]
  /\ \E answer \in {"approved", "failed"} : pc' = [pc EXCEPT ![w] = answer]
  /\ Unlock(w) /\ UNCHANGED <<quotes, op>>

LEMMA ApproveCommitFacts ==
  ASSUME NEW w \in Worker, IInv, ApproveCommit(w)
  PROVE  ApproveCommitEffect(w)
<1> DEFINE r == op[w].reg  c == op[w].company  u == op[w].user
<1>1. r \in Registration /\ registration[r].status = "pending" /\ lock[r] = w
  BY DEF IInv, RequestInv, LockInv, ApproveCommit, Reg
<1>2. registration[r].email \in Email /\ registration[r].name \in Name
  BY <1>1 DEF IInv, RowInv
<1>3. /\ c \in Company /\ company[c] = None /\ ~ SlugInUse(Candidate(w))
      /\ u \in User /\ user[u] = NoUser /\ ~ EmailInUse(registration[r].email)
  BY DEF IInv, ApprovingInv, ApproveCommit, Reg
<1>4. Candidate(w) \in Slug
  <2>1. op[w].attempt \in 1..MaxAttempt
    BY DEF IInv, TypeOK, Op
  <2> QED
    BY <1>2, <2>1, ConstantsAssumption DEF Candidate, Reg
<1> QED
  BY <1>1, <1>2, <1>3, <1>4
    DEF ApproveCommitEffect, ApproveCommit, Reg, Login

RejectEffect(w) ==
  LET r == op[w].reg  x == registration[r] IN
  /\ r \in Registration
  /\ UNCHANGED <<company, user, quotes, lock, op>>
  /\ \/ /\ UNCHANGED registration /\ x.status # "pending"
        /\ pc' = [pc EXCEPT ![w] = "reject_check"]
     \/ /\ x.status = "pending" /\ lock[r] = None
        /\ registration' = [registration EXCEPT ![r] =
             Row("rejected", x.email, x.name, x.company, x.user)]
        /\ \E answer \in {"rejected", "failed"} :
             pc' = [pc EXCEPT ![w] = answer]

LEMMA RejectFacts ==
  ASSUME NEW w \in Worker, IInv, Reject(w)
  PROVE  RejectEffect(w)
<1> DEFINE r == op[w].reg  x == registration[r]
<1>1. r \in Registration /\ x \in RegistrationRow
  BY DEF IInv, RequestInv, Reject, TypeOK
<1>2. DOMAIN registration = Registration
  BY DEF IInv, TypeOK
<1>3. CASE Reg(w).status # "pending" /\ Continue(w, "reject_check")
  BY <1>1, <1>3 DEF Continue, Reg, RejectEffect
<1>4. CASE ~ (Reg(w).status # "pending" /\ Continue(w, "reject_check"))
  <2>1. [x EXCEPT !.status = "rejected"]
          = Row("rejected", x.email, x.name, x.company, x.user)
    BY <1>1, Excepts DEF Statuses
  <2>2. /\ x.status = "pending" /\ lock[r] = None
        /\ registration' = [registration EXCEPT ![r] = [x EXCEPT !.status = "rejected"]]
        /\ \E answer \in {"rejected", "failed"} : Goto(w, answer)
        /\ UNCHANGED <<company, user, quotes, lock, op>>
    BY <1>1, <1>2, <1>4 DEF Reject, Reg
  <2> QED
    BY <1>1, <2>1, <2>2 DEF RejectEffect
<1> QED
  BY <1>3, <1>4

DeleteCommitEffect(w) ==
  LET r == op[w].reg  c == op[w].company IN
  /\ r \in Registration /\ registration[r].status = "approved"
  /\ lock[r] = w
  /\ c \in Company /\ c = registration[r].company /\ company[c] # None
  /\ user' = [u \in User |->
                IF user[u].company = c THEN NoUser ELSE user[u]]
  /\ quotes' = [quotes EXCEPT ![c] = 0]
  /\ registration' =
       [registration EXCEPT ![r] = Row("deleted", None, None, None, None)]
  /\ company' = [company EXCEPT ![c] = None]
  /\ \E answer \in {"deleted", "failed"} : pc' = [pc EXCEPT ![w] = answer]
  /\ Unlock(w) /\ UNCHANGED op

LEMMA DeleteCommitFacts ==
  ASSUME NEW w \in Worker, IInv, DeleteCommit(w)
  PROVE  DeleteCommitEffect(w)
<1> DEFINE r == op[w].reg  c == op[w].company
<1>1. r \in Registration /\ registration[r].status = "approved" /\ lock[r] = w
  BY DEF IInv, RequestInv, LockInv, DeleteCommit, Reg
<1>2. c = registration[r].company /\ quotes[c] = op[w].quotes
      /\ op[w].users = {u \in User : user[u].company = c}
  BY DEF IInv, DeletingInv, DeleteCommit, Reg
<1>3. c \in Company /\ company[c] # None
  BY <1>1, <1>2 DEF IInv, AccountsMatchApprovals, Approved
<1>4. quotes' = [quotes EXCEPT ![c] = 0]
  <2>1. quotes[c] \in Nat /\ quotes' = [quotes EXCEPT ![c] = quotes[c] - quotes[c]]
    BY <1>2, <1>3 DEF IInv, TypeOK, DeleteCommit
  <2>2. quotes[c] - quotes[c] = 0
    BY <2>1
  <2> QED
    BY <2>1, <2>2
<1>5. user' = [u \in User |-> IF user[u].company = c THEN NoUser ELSE user[u]]
  BY <1>2 DEF DeleteCommit
<1> QED
  BY <1>1, <1>2, <1>3, <1>4, <1>5 DEF DeleteCommitEffect, DeleteCommit

ResendCommitEffect(w) ==
  LET r == op[w].reg  u == registration[r].user IN
  /\ r \in Registration /\ registration[r].status = "approved"
  /\ lock[r] = w
  /\ u \in User /\ user[u] # NoUser
  /\ user' = [user EXCEPT ![u] = Login(user[u].email, user[u].company, TRUE)]
  /\ UNCHANGED <<registration, company, quotes, op>>
  /\ \E answer \in {"resent", "failed"} : pc' = [pc EXCEPT ![w] = answer]
  /\ Unlock(w)

LEMMA ResendCommitFacts ==
  ASSUME NEW w \in Worker, IInv, ResendCommit(w)
  PROVE  ResendCommitEffect(w)
<1> DEFINE r == op[w].reg  u == registration[r].user
<1>1. r \in Registration /\ registration[r].status = "approved" /\ lock[r] = w
  BY DEF IInv, RequestInv, LockInv, ResendCommit, Reg
<1>2. /\ u \in User /\ user[u].company \in Company /\ user[u] \in UserRow
      /\ company[user[u].company] # None /\ user[u].email = registration[r].email
  BY <1>1 DEF IInv, AccountsMatchApprovals, Approved, TypeOK
<1>3. user[u] # NoUser
  BY <1>2, ConstantsAssumption DEF NoUser
<1>4. registration[r].user = Reg(w).user
  BY DEF Reg
<1>5. user' = [user EXCEPT ![u] = [user[u] EXCEPT !.mustChange = TRUE]]
  BY <1>2, <1>4 DEF ResendCommit, IInv, TypeOK
<1>6. [user[u] EXCEPT !.mustChange = TRUE] = Login(user[u].email, user[u].company, TRUE)
  BY <1>2, Excepts
<1> QED
  BY <1>1, <1>2, <1>3, <1>4, <1>5, <1>6 DEF ResendCommit, ResendCommitEffect

ChangePasswordEffect(u) ==
  /\ user[u] # NoUser
  /\ user' = [user EXCEPT ![u] = Login(user[u].email, user[u].company, FALSE)]
  /\ UNCHANGED <<registration, company, quotes, lock, pc, op>>

LEMMA ChangePasswordFacts ==
  ASSUME NEW u \in User, IInv, ChangePassword(u)
  PROVE  ChangePasswordEffect(u)
<1>1. user[u] \in UserRow
  BY DEF IInv, TypeOK
<1>2. user' = [user EXCEPT ![u] = [user[u] EXCEPT !.mustChange = FALSE]]
  BY DEF ChangePassword, IInv, TypeOK
<1>3. [user[u] EXCEPT !.mustChange = FALSE] = Login(user[u].email, user[u].company, FALSE)
  BY <1>1, Excepts
<1>4. user[u] # NoUser
  BY DEF ChangePassword, NoUser
<1> QED
  BY <1>2, <1>3, <1>4 DEF ChangePassword, ChangePasswordEffect

-----------------------------------------------------------------------------
LEMMA Rows ==
  /\ \A s \in Statuses, e \in Email \cup {None}, n \in Name \cup {None},
        c \in Company \cup {None}, u \in User \cup {None} :
       Row(s, e, n, c, u) \in RegistrationRow
  /\ NoUser \in UserRow
  /\ \A e \in Email \cup {None}, c \in Company \cup {None}, b \in BOOLEAN :
       Login(e, c, b) \in UserRow
BY DEF RegistrationRow, UserRow, Row, NoUser, Login

(* The steps that write the tables write rows.                             *)
LEMMA TablesTypeStep ==
  ASSUME IInv, NEW w \in Worker,
         \/ InsertRegistration(w) \/ ApproveCommit(w) \/ Reject(w)
         \/ DeleteCommit(w) \/ ResendCommit(w)
  PROVE  TablesType'
<1>0. TablesType
  BY DEF IInv, TypeOK, TablesType
<1> USE Rows DEF TablesType
<1>1. CASE InsertRegistration(w)
  <2>1. InsertRegistrationEffect(w)
    BY <1>1, InsertRegistrationFacts
  <2>2. Row("pending", op[w].email, op[w].name, None, None) \in RegistrationRow
    BY <2>1 DEF InsertRegistrationEffect, Statuses
  <2> QED
    BY <1>0, <2>1, <2>2 DEF InsertRegistrationEffect
<1>2. CASE ApproveCommit(w)
  <2> DEFINE r == op[w].reg
  <2>1. ApproveCommitEffect(w)
    BY <1>2, ApproveCommitFacts
  <2>2. /\ Row("approved", registration[r].email, registration[r].name,
               op[w].company, op[w].user) \in RegistrationRow
        /\ Login(registration[r].email, op[w].company, TRUE) \in UserRow
    BY <2>1 DEF ApproveCommitEffect, Statuses
  <2> QED
    BY <1>0, <2>1, <2>2 DEF ApproveCommitEffect
<1>3. CASE Reject(w)
  <2> DEFINE x == registration[op[w].reg]
  <2>1. RejectEffect(w)
    BY <1>3, RejectFacts
  <2>2. Row("rejected", x.email, x.name, x.company, x.user) \in RegistrationRow
    BY <1>0, <2>1 DEF RejectEffect, RegistrationRow, Statuses
  <2> QED
    BY <1>0, <2>1, <2>2 DEF RejectEffect
<1>4. CASE DeleteCommit(w)
  <2>1. DeleteCommitEffect(w)
    BY <1>4, DeleteCommitFacts
  <2>2. Row("deleted", None, None, None, None) \in RegistrationRow
    BY DEF Statuses
  <2>3. registration' \in [Registration -> RegistrationRow]
        /\ company' \in [Company -> Slug \cup {None}]
    BY <1>0, <2>1, <2>2 DEF DeleteCommitEffect
  <2>4. user' \in [User -> UserRow] /\ quotes' \in [Company -> Nat]
    BY <1>0, <2>1 DEF DeleteCommitEffect
  <2> QED
    BY <2>3, <2>4
<1>5. CASE ResendCommit(w)
  <2> DEFINE u == registration[op[w].reg].user
  <2>1. ResendCommitEffect(w)
    BY <1>5, ResendCommitFacts
  <2>2. Login(user[u].email, user[u].company, TRUE) \in UserRow
    BY <1>0, <2>1 DEF ResendCommitEffect, UserRow
  <2> QED
    BY <1>0, <2>1, <2>2 DEF ResendCommitEffect
<1> QED
  BY <1>1, <1>2, <1>3, <1>4, <1>5

(* What the commits do to the other variables.                             *)
LEMMA CommitLocal ==
  ASSUME IInv, NEW w \in Worker,
         \/ InsertRegistration(w) \/ ApproveCommit(w) \/ Reject(w)
         \/ DeleteCommit(w) \/ ResendCommit(w)
  PROVE  /\ op' = op /\ (Unlock(w) \/ UNCHANGED lock)
         /\ \E label \in Answers \cup {"reject_check"} : pc' = [pc EXCEPT ![w] = label]
<1>1. CASE InsertRegistration(w)
  BY <1>1, InsertRegistrationFacts DEF InsertRegistrationEffect
<1>2. CASE ApproveCommit(w)
  BY <1>2, ApproveCommitFacts DEF ApproveCommitEffect
<1>3. CASE Reject(w)
  BY <1>3, RejectFacts DEF RejectEffect
<1>4. CASE DeleteCommit(w)
  BY <1>4, DeleteCommitFacts DEF DeleteCommitEffect
<1>5. CASE ResendCommit(w)
  BY <1>5, ResendCommitFacts DEF ResendCommitEffect
<1> QED
  BY <1>1, <1>2, <1>3, <1>4, <1>5

LEMMA TypeStep == ASSUME IInv, Next PROVE TypeOK'
<1> USE DEF PcType, LockType, OpType, TablesType
<1>0. TypeOK /\ RequestInv
  BY DEF IInv
<1>1. ASSUME NEW w \in Worker, Quiet(w) PROVE TypeOK'
  BY <1>0, <1>1, QuietStep, QuietType DEF TypeOK
<1>2. ASSUME NEW w \in Worker,
             \/ InsertRegistration(w) \/ ApproveCommit(w) \/ Reject(w)
             \/ DeleteCommit(w) \/ ResendCommit(w)
      PROVE  TypeOK'
  <2>1. TablesType'
    BY <1>2, TablesTypeStep
  <2>2. /\ op' = op /\ (Unlock(w) \/ UNCHANGED lock)
        /\ \E label \in Answers \cup {"reject_check"} : pc' = [pc EXCEPT ![w] = label]
    BY <1>2, CommitLocal
  <2>3. PcType' /\ LockType' /\ OpType'
    BY <1>0, <2>2 DEF Unlock, TypeOK
  <2> QED
    BY <2>1, <2>3 DEF TypeOK
<1>3. ASSUME NEW c \in Company, PostQuote(c) PROVE TypeOK'
  BY <1>0, <1>3 DEF PostQuote, TypeOK
<1>4. ASSUME NEW u \in User, ChangePassword(u) PROVE TypeOK'
  <2>1. ChangePasswordEffect(u)
    BY <1>4, ChangePasswordFacts
  <2>2. Login(user[u].email, user[u].company, FALSE) \in UserRow
    BY <1>0, Rows DEF UserRow, TypeOK
  <2> QED
    BY <1>0, <2>1, <2>2 DEF ChangePasswordEffect, TypeOK
<1>5. CASE Crash
  BY <1>0, <1>5, RequestType DEF Crash, NoOp, TypeOK
<1> QED
  BY Cases, <1>1, <1>2, <1>3, <1>4, <1>5

-----------------------------------------------------------------------------
(* A status moves along the arrows of the life cycle only, and the row of  *)
(* an application changes only with its status.                            *)
Moves == {<<"absent", "pending">>, <<"pending", "approved">>,
          <<"pending", "rejected">>, <<"approved", "deleted">>}

LEMMA StatusStep ==
  ASSUME IInv, Next, NEW r \in Registration,
         registration'[r] # registration[r]
  PROVE  <<registration[r].status, registration'[r].status>> \in Moves
<1> DEFINE Goal == <<registration[r].status, registration'[r].status>> \in Moves
<1>0. DOMAIN registration = Registration
  BY DEF IInv, TypeOK
<1>1. ASSUME NEW w \in Worker, Quiet(w) PROVE FALSE
  BY <1>1, QuietStep
<1>2. ASSUME NEW w \in Worker, InsertRegistration(w) PROVE Goal
  <2>1. InsertRegistrationEffect(w)
    BY <1>2, InsertRegistrationFacts
  <2> QED
    BY <1>0, <2>1 DEF InsertRegistrationEffect, Moves, Row
<1>3. ASSUME NEW w \in Worker, ApproveCommit(w) PROVE Goal
  <2>1. ApproveCommitEffect(w)
    BY <1>3, ApproveCommitFacts
  <2> QED
    BY <1>0, <2>1 DEF ApproveCommitEffect, Moves, Row
<1>4. ASSUME NEW w \in Worker, Reject(w) PROVE Goal
  <2>1. RejectEffect(w)
    BY <1>4, RejectFacts
  <2> QED
    BY <1>0, <2>1 DEF RejectEffect, Moves, Row
<1>5. ASSUME NEW w \in Worker, DeleteCommit(w) PROVE Goal
  <2>1. DeleteCommitEffect(w)
    BY <1>5, DeleteCommitFacts
  <2> QED
    BY <1>0, <2>1 DEF DeleteCommitEffect, Moves, Row
<1>6. ASSUME NEW w \in Worker, ResendCommit(w) PROVE FALSE
  BY <1>6, ResendCommitFacts DEF ResendCommitEffect
<1>7. CASE (\E c \in Company : PostQuote(c)) \/ (\E u \in User : ChangePassword(u)) \/ Crash
  BY <1>7 DEF PostQuote, ChangePassword, Crash
<1> QED
  BY Cases, <1>1, <1>2, <1>3, <1>4, <1>5, <1>6, <1>7

(* A step of one worker leaves the others where they are, with what they   *)
(* wrote and what they locked, and the rows they locked as they read them. *)
WorkerStep(w) == \/ Quiet(w) \/ InsertRegistration(w) \/ ApproveCommit(w)
                 \/ Reject(w) \/ DeleteCommit(w) \/ ResendCommit(w)

LEMMA QuietLocal ==
  ASSUME NEW w \in Worker, TypeOK, Quiet(w), NEW v \in Worker, v # w
  PROVE  /\ pc'[v] = pc[v] /\ op'[v] = op[v]
         /\ \A r \in Registration : lock[r] = v => lock'[r] = v
<1> USE ConstantsAssumption
<1>1. CASE Start(w) \/ Return(w) \/ DeleteUsers(w) \/ NextSlug(w)
  BY <1>1 DEF TypeOK, Start, StartRegister, StartAdmin, Return, DeleteUsers,
    NextSlug
<1>2. CASE \/ PendingExists(w) \/ PendingExistsFails(w) \/ RejectCheck(w)
           \/ CheckEmail(w) \/ DeleteCompany(w) \/ ResetPassword(w) \/ Fail(w)
  BY <1>2 DEF TypeOK, PendingExists, PendingExistsFails, RejectCheck, Refuse,
    CheckEmail, DeleteCompany, ResetPassword, Fail, Continue, Unlock
<1>3. CASE InsertCompany(w) \/ InsertUser(w) \/ DeleteQuotes(w)
  BY <1>3 DEF TypeOK, InsertCompany, InsertUser, DeleteQuotes, Refuse, Unlock
<1>4. CASE ApproveLock(w) \/ DeleteLock(w) \/ ResendLock(w)
  BY <1>4 DEF TypeOK, ApproveLock, DeleteLock, ResendLock, LockRow, Continue
<1> QED
  BY <1>1, <1>2, <1>3, <1>4 DEF Quiet

LEMMA Local ==
  ASSUME IInv, NEW w \in Worker, WorkerStep(w), NEW v \in Worker, v # w
  PROVE  /\ pc'[v] = pc[v] /\ op'[v] = op[v]
         /\ pc[v] \in Holding =>
              /\ lock'[op[v].reg] = v
              /\ registration'[op[v].reg] = registration[op[v].reg]
<1> USE ConstantsAssumption
<1>0. TypeOK
  BY DEF IInv
<1>1. /\ pc'[v] = pc[v] /\ op'[v] = op[v]
      /\ \A r \in Registration : lock[r] = v => lock'[r] = v
  <2>1. CASE Quiet(w)
    BY <1>0, <2>1, QuietLocal
  <2>2. CASE ~ Quiet(w)
    <3>1. /\ op' = op /\ (Unlock(w) \/ UNCHANGED lock)
          /\ \E label \in Answers \cup {"reject_check"} : pc' = [pc EXCEPT ![w] = label]
      BY <2>2, CommitLocal DEF WorkerStep
    <3> QED
      BY <1>0, <3>1 DEF TypeOK, Unlock
  <2> QED
    BY <2>1, <2>2
<1>2. ASSUME pc[v] \in Holding
      PROVE  registration'[op[v].reg] = registration[op[v].reg]
  <2> DEFINE r == op[v].reg
  <2>1. /\ r \in Registration /\ lock[r] = v
        /\ registration[r].status \in {"pending", "approved"}
    BY <1>2 DEF IInv, RequestInv, LockInv, Reg
  <2>2. CASE Quiet(w) \/ ResendCommit(w)
    BY <2>2, QuietStep, ResendCommitFacts DEF ResendCommitEffect
  <2>3. CASE InsertRegistration(w)
    BY <1>0, <2>1, <2>3, InsertRegistrationFacts DEF InsertRegistrationEffect, TypeOK
  <2>4. CASE ApproveCommit(w)
    <3>1. ApproveCommitEffect(w)
      BY <2>4, ApproveCommitFacts
    <3>2. op[w].reg # r
      BY <2>1, <3>1 DEF ApproveCommitEffect
    <3> QED
      BY <1>0, <2>1, <3>1, <3>2 DEF ApproveCommitEffect, TypeOK
  <2>5. CASE Reject(w)
    BY <1>0, <2>1, <2>5, RejectFacts DEF RejectEffect, TypeOK
  <2>6. CASE DeleteCommit(w)
    BY <1>0, <2>1, <2>6, DeleteCommitFacts DEF DeleteCommitEffect, TypeOK
  <2> QED
    BY <2>2, <2>3, <2>4, <2>5, <2>6 DEF WorkerStep
<1>3. pc[v] \in Holding => op[v].reg \in Registration /\ lock[op[v].reg] = v
  BY DEF IInv, RequestInv, LockInv
<1> QED
  BY <1>1, <1>2, <1>3

LEMMA Steps ==
  ASSUME Next
  PROVE  \/ \E w \in Worker : WorkerStep(w)
         \/ \E c \in Company : PostQuote(c)
         \/ \E u \in User : ChangePassword(u)
         \/ Crash
BY Cases DEF WorkerStep

-----------------------------------------------------------------------------
(* A request keeps its data.                                               *)
RequestOf(w) ==
  /\ pc[w] \in Filing => op[w].email \in Email /\ op[w].name \in Name
  /\ pc[w] \in Deciding \cup Decided =>
       op[w].reg \in Registration /\ registration[op[w].reg].status # "absent"

LEMMA RequestQuiet ==
  ASSUME TypeOK, RequestInv, NEW w \in Worker, Quiet(w)
  PROVE  RequestOf(w)'
<1> USE DEF TypeOK
<1>0. RequestOf(w) /\ UNCHANGED registration
  BY QuietStep DEF RequestInv, RequestOf, Reg
<1> USE DEF RequestOf
<1>1. CASE Start(w)
  BY <1>0, <1>1 DEF Start, StartRegister, StartAdmin, Request
<1>2. CASE PendingExists(w) \/ PendingExistsFails(w) \/ RejectCheck(w)
  BY <1>0, <1>2 DEF PendingExists, PendingExistsFails, RejectCheck, Continue
<1>3. CASE CheckEmail(w) \/ DeleteCompany(w) \/ ResetPassword(w) \/ Fail(w)
  BY <1>0, <1>3 DEF CheckEmail, DeleteCompany, ResetPassword, Fail, Refuse, Continue
<1>4. CASE ApproveLock(w) \/ DeleteLock(w) \/ ResendLock(w)
  BY <1>0, <1>4 DEF ApproveLock, DeleteLock, ResendLock, LockRow, Continue
<1>5. CASE NextSlug(w) \/ DeleteUsers(w)
  BY <1>0, <1>5 DEF NextSlug, DeleteUsers, Op
<1>6. CASE InsertCompany(w) \/ InsertUser(w)
  BY <1>0, <1>6 DEF InsertCompany, InsertUser, Refuse, Op
<1>7. CASE DeleteQuotes(w)
  BY <1>0, <1>7 DEF DeleteQuotes, Refuse, Op
<1>8. CASE Return(w)
  BY <1>8 DEF Return
<1> QED
  BY <1>1, <1>2, <1>3, <1>4, <1>5, <1>6, <1>7, <1>8 DEF Quiet

LEMMA RequestStep == ASSUME IInv, Next PROVE RequestInv'
<1>0. TypeOK /\ RequestInv
  BY DEF IInv
<1>1. ASSUME NEW r \in Registration, registration[r].status # "absent"
      PROVE  registration'[r].status # "absent"
  BY <1>1, StatusStep DEF Moves
<1>2. ASSUME NEW w \in Worker, WorkerStep(w), NEW v \in Worker
      PROVE  RequestOf(v)'
  <2>1. RequestOf(v)
    BY <1>0 DEF RequestInv, RequestOf, Reg
  <2>2. CASE v # w
    BY <1>1, <1>2, <2>1, <2>2, Local DEF RequestOf
  <2>3. CASE v = w /\ Quiet(w)
    BY <1>0, <2>3, RequestQuiet
  <2>4. CASE v = w /\ ~ Quiet(w)
    <3>1. /\ op' = op
          /\ \E label \in Answers \cup {"reject_check"} : pc' = [pc EXCEPT ![w] = label]
      BY <1>2, <2>4, CommitLocal DEF WorkerStep
    <3>2. pc[w] \in Deciding \/ InsertRegistration(w)
      BY <1>2, <2>4 DEF WorkerStep, ApproveCommit, Reject, DeleteCommit, ResendCommit
    <3>3. CASE InsertRegistration(w)
      BY <1>0, <2>4, <3>3, InsertRegistrationFacts
        DEF InsertRegistrationEffect, RequestOf, TypeOK
    <3> QED
      BY <1>0, <1>1, <2>1, <2>4, <3>1, <3>2, <3>3 DEF RequestOf, TypeOK
  <2> QED
    BY <2>2, <2>3, <2>4
<1>3. CASE \E c \in Company : PostQuote(c)
  BY <1>0, <1>3 DEF PostQuote, RequestInv, Reg
<1>4. CASE \E u \in User : ChangePassword(u)
  BY <1>0, <1>4 DEF ChangePassword, RequestInv, Reg
<1>5. CASE Crash
  BY <1>5 DEF Crash, RequestInv
<1>6. CASE \E w \in Worker : WorkerStep(w)
  BY <1>2, <1>6 DEF RequestInv, RequestOf, Reg
<1> QED
  BY <1>3, <1>4, <1>5, <1>6, Steps

(* Rows that stand for something stay complete.                            *)
LEMMA RowStep == ASSUME IInv, Next PROVE RowInv'
<1>0. TypeOK /\ RowInv
  BY DEF IInv
<1> USE <1>0 DEF TypeOK, RowInv
<1>1. ASSUME NEW w \in Worker, Quiet(w) PROVE RowInv'
  BY <1>1, QuietStep
<1>2. ASSUME NEW w \in Worker, InsertRegistration(w) PROVE RowInv'
  BY <1>2, InsertRegistrationFacts DEF InsertRegistrationEffect, Row
<1>3. ASSUME NEW w \in Worker, ApproveCommit(w) PROVE RowInv'
  <2>1. ApproveCommitEffect(w)
    BY <1>3, ApproveCommitFacts
  <2> QED
    BY <2>1 DEF ApproveCommitEffect, Row, Login
<1>4. ASSUME NEW w \in Worker, Reject(w) PROVE RowInv'
  <2>1. RejectEffect(w)
    BY <1>4, RejectFacts
  <2> QED
    BY <2>1 DEF RejectEffect, Row
<1>5. ASSUME NEW w \in Worker, DeleteCommit(w) PROVE RowInv'
  <2>1. DeleteCommitEffect(w)
    BY <1>5, DeleteCommitFacts
  <2> QED
    BY <2>1 DEF DeleteCommitEffect, Row
<1>6. ASSUME NEW w \in Worker, ResendCommit(w) PROVE RowInv'
  <2>1. ResendCommitEffect(w)
    BY <1>6, ResendCommitFacts
  <2> QED
    BY <2>1 DEF ResendCommitEffect, Login
<1>7. CASE \E c \in Company : PostQuote(c)
  BY <1>7 DEF PostQuote
<1>8. ASSUME NEW u \in User, ChangePassword(u) PROVE RowInv'
  BY <1>8, ChangePasswordFacts DEF ChangePasswordEffect, Login
<1>9. CASE Crash
  BY <1>9 DEF Crash, tables
<1> QED
  BY Cases, <1>1, <1>2, <1>3, <1>4, <1>5, <1>6, <1>7, <1>8, <1>9

-----------------------------------------------------------------------------
(* A transaction past its locking read keeps the row as it read it.        *)
HeldBy(w) == pc[w] \in Holding =>
  /\ lock[op[w].reg] = w
  /\ registration[op[w].reg].status =
       IF pc[w] \in Approving THEN "pending" ELSE "approved"

LEMMA LockQuiet ==
  ASSUME TypeOK, RequestInv, LockInv, NEW w \in Worker, Quiet(w)
  PROVE  HeldBy(w)'
<1> USE DEF TypeOK
<1>0. HeldBy(w) /\ UNCHANGED registration /\ RequestOf(w)
  BY QuietStep DEF LockInv, HeldBy, Reg, RequestInv, RequestOf
<1> USE DEF HeldBy
<1>1. CASE Start(w) \/ Return(w)
  BY <1>1 DEF Start, StartRegister, StartAdmin, Return
<1>2. CASE PendingExists(w) \/ PendingExistsFails(w) \/ RejectCheck(w)
  BY <1>2 DEF PendingExists, PendingExistsFails, RejectCheck, Continue
<1>3. CASE CheckEmail(w) \/ DeleteCompany(w) \/ ResetPassword(w) \/ Fail(w)
  BY <1>0, <1>3 DEF CheckEmail, DeleteCompany, ResetPassword, Fail, Refuse, Continue
<1>4. CASE ApproveLock(w) \/ DeleteLock(w) \/ ResendLock(w)
  BY <1>0, <1>4 DEF ApproveLock, DeleteLock, ResendLock, LockRow, Continue, Reg, RequestOf
<1>5. CASE NextSlug(w) \/ DeleteUsers(w)
  BY <1>0, <1>5 DEF NextSlug, DeleteUsers, Op
<1>6. CASE InsertCompany(w) \/ InsertUser(w)
  BY <1>0, <1>6 DEF InsertCompany, InsertUser, Refuse, Op
<1>7. CASE DeleteQuotes(w)
  BY <1>0, <1>7 DEF DeleteQuotes, Refuse, Op
<1> QED
  BY <1>1, <1>2, <1>3, <1>4, <1>5, <1>6, <1>7 DEF Quiet

LEMMA LockStep == ASSUME IInv, Next PROVE LockInv'
<1>0. TypeOK /\ RequestInv /\ LockInv
  BY DEF IInv
<1>1. ASSUME NEW w \in Worker, WorkerStep(w), NEW v \in Worker
      PROVE  HeldBy(v)'
  <2>1. HeldBy(v)
    BY <1>0 DEF LockInv, HeldBy, Reg
  <2>2. CASE v # w
    BY <1>1, <2>1, <2>2, Local DEF HeldBy
  <2>3. CASE v = w /\ Quiet(w)
    BY <1>0, <2>3, LockQuiet
  <2>4. CASE v = w /\ ~ Quiet(w)
    BY <1>0, <1>1, <2>4, CommitLocal DEF WorkerStep, HeldBy, TypeOK
  <2> QED
    BY <2>2, <2>3, <2>4
<1>2. CASE \E c \in Company : PostQuote(c)
  BY <1>0, <1>2 DEF PostQuote, LockInv, Reg
<1>3. CASE \E u \in User : ChangePassword(u)
  BY <1>0, <1>3 DEF ChangePassword, LockInv, Reg
<1>4. CASE Crash
  BY <1>4 DEF Crash, LockInv
<1>5. CASE \E w \in Worker : WorkerStep(w)
  BY <1>1, <1>5 DEF LockInv, HeldBy, Reg
<1> QED
  BY <1>2, <1>3, <1>4, <1>5, Steps

-----------------------------------------------------------------------------
(* What a handler has answered, or is about to, stays so.                  *)
AnswerOf(w) ==
  LET x == registration[op[w].reg] IN
  /\ At(w, "approved") =>
       x.status = "deleted" \/ (x.status = "approved" /\ x.company = op[w].company)
  /\ At(w, "rejected") => x.status = "rejected"
  /\ At(w, "deleted") => x.status = "deleted"
  /\ At(w, "resent") => x.status \in {"approved", "deleted"}
  /\ At(w, "already_done") => x.status \in {"approved", "rejected", "deleted"}
  /\ At(w, "not_found") => x.status = "deleted"
  /\ At(w, "reject_check") => x.status # "pending"

LEMMA AnswerQuiet ==
  ASSUME TypeOK, RequestInv, NEW w \in Worker, AnswerOf(w), Quiet(w)
  PROVE  AnswerOf(w)'
<1> USE DEF TypeOK
<1>0. UNCHANGED registration /\ RequestOf(w)
  BY QuietStep DEF Reg, RequestInv, RequestOf
<1>s. pc[w] \in Deciding => registration[op[w].reg].status \in Statuses \ {"absent"}
  BY <1>0 DEF RequestOf, RegistrationRow
<1> USE DEF AnswerOf
<1>1. CASE Start(w) \/ Return(w)
  BY <1>1 DEF Start, StartRegister, StartAdmin, Return
<1>2. CASE PendingExists(w) \/ PendingExistsFails(w) \/ RejectCheck(w)
  BY <1>0, <1>s, <1>2 DEF PendingExists, PendingExistsFails, RejectCheck, Continue, Reg, Statuses
<1>3. CASE CheckEmail(w) \/ DeleteCompany(w) \/ ResetPassword(w) \/ Fail(w)
  BY <1>0, <1>3 DEF CheckEmail, DeleteCompany, ResetPassword, Fail, Refuse, Continue
<1>4. CASE ApproveLock(w) \/ DeleteLock(w) \/ ResendLock(w)
  BY <1>0, <1>s, <1>4 DEF ApproveLock, DeleteLock, ResendLock, LockRow, Continue, Reg, Statuses
<1>5. CASE NextSlug(w) \/ DeleteUsers(w)
  BY <1>0, <1>5 DEF NextSlug, DeleteUsers
<1>6. CASE InsertCompany(w) \/ InsertUser(w)
  BY <1>0, <1>6 DEF InsertCompany, InsertUser, Refuse
<1>7. CASE DeleteQuotes(w)
  BY <1>0, <1>7 DEF DeleteQuotes, Refuse
<1> QED
  BY <1>1, <1>2, <1>3, <1>4, <1>5, <1>6, <1>7 DEF Quiet

LEMMA AnswerCommit ==
  ASSUME IInv, NEW w \in Worker,
         \/ InsertRegistration(w) \/ ApproveCommit(w) \/ Reject(w)
         \/ DeleteCommit(w) \/ ResendCommit(w)
  PROVE  AnswerOf(w)'
<1>0. TypeOK
  BY DEF IInv
<1> USE <1>0 DEF AnswerOf, TypeOK
<1>1. CASE InsertRegistration(w)
  <2>1. InsertRegistrationEffect(w)
    BY <1>1, InsertRegistrationFacts
  <2> QED
    BY <2>1 DEF InsertRegistrationEffect
<1>2. CASE ApproveCommit(w)
  <2>1. ApproveCommitEffect(w)
    BY <1>2, ApproveCommitFacts
  <2>2. /\ registration'[op[w].reg].status = "approved"
        /\ registration'[op[w].reg].company = op[w].company
        /\ op' = op /\ pc'[w] \in {"approved", "failed"}
    BY <2>1 DEF ApproveCommitEffect, Row
  <2> QED
    BY <2>2
<1>3. CASE Reject(w)
  <2>1. RejectEffect(w)
    BY <1>3, RejectFacts
  <2>2. /\ op' = op
        /\ \/ /\ registration'[op[w].reg].status = "rejected"
              /\ pc'[w] \in {"rejected", "failed"}
           \/ /\ registration'[op[w].reg].status # "pending"
              /\ pc'[w] = "reject_check"
    BY <2>1 DEF RejectEffect, Row
  <2> QED
    BY <2>2
<1>4. CASE DeleteCommit(w)
  <2>1. DeleteCommitEffect(w)
    BY <1>4, DeleteCommitFacts
  <2>2. /\ registration'[op[w].reg].status = "deleted"
        /\ op' = op /\ pc'[w] \in {"deleted", "failed"}
    BY <2>1 DEF DeleteCommitEffect, Row
  <2> QED
    BY <2>2
<1>5. CASE ResendCommit(w)
  <2>1. ResendCommitEffect(w)
    BY <1>5, ResendCommitFacts
  <2>2. /\ registration'[op[w].reg].status = "approved"
        /\ op' = op /\ pc'[w] \in {"resent", "failed"}
    BY <2>1 DEF ResendCommitEffect
  <2> QED
    BY <2>2
<1> QED
  BY <1>1, <1>2, <1>3, <1>4, <1>5

LEMMA AnswersStep ==
  ASSUME IInv, Next PROVE AnswersAreTrue' /\ RejectingInv'
<1>0. TypeOK /\ RequestInv /\ AnswersAreTrue /\ RejectingInv
  BY DEF IInv
<1>1. ASSUME NEW w \in Worker, WorkerStep(w), NEW v \in Worker
      PROVE  AnswerOf(v)'
  <2>1. AnswerOf(v) /\ RequestOf(v)
    BY <1>0 DEF AnswersAreTrue, RejectingInv, AnswerOf, RequestInv, RequestOf, Reg
  <2>2. CASE v # w
    <3>1. pc'[v] = pc[v] /\ op'[v] = op[v]
      BY <1>1, <2>2, Local
    <3>2. CASE pc[v] \in Deciding \cup Decided
      <4>1. \/ registration'[op[v].reg] = registration[op[v].reg]
            \/ <<registration[op[v].reg].status, registration'[op[v].reg].status>> \in Moves
        BY <2>1, <3>2, StatusStep DEF RequestOf
      <4>2. CASE registration'[op[v].reg] = registration[op[v].reg]
        BY <2>1, <3>1, <4>2 DEF AnswerOf
      <4>3. CASE <<registration[op[v].reg].status, registration'[op[v].reg].status>> \in Moves
        <5>1. \/ registration[op[v].reg].status = "absent"
              \/ registration[op[v].reg].status = "pending"
              \/ /\ registration[op[v].reg].status = "approved"
                 /\ registration'[op[v].reg].status = "deleted"
          BY <4>3 DEF Moves
        <5> QED
          BY <2>1, <3>1, <3>2, <5>1 DEF AnswerOf, RequestOf
      <4> QED
        BY <4>1, <4>2, <4>3
    <3>3. CASE pc[v] \notin Deciding \cup Decided
      BY <3>1, <3>3 DEF AnswerOf
    <3> QED
      BY <3>2, <3>3
  <2>3. CASE v = w /\ Quiet(w)
    BY <1>0, <2>1, <2>3, AnswerQuiet
  <2>4. CASE v = w /\ ~ Quiet(w)
    BY <1>1, <2>4, AnswerCommit DEF WorkerStep
  <2> QED
    BY <2>2, <2>3, <2>4
<1> USE DEF AnswersAreTrue, RejectingInv
<1>2. CASE \E c \in Company : PostQuote(c)
  BY <1>0, <1>2 DEF PostQuote, Reg
<1>3. CASE \E u \in User : ChangePassword(u)
  BY <1>0, <1>3 DEF ChangePassword, Reg
<1>4. CASE Crash
  BY <1>4 DEF Crash
<1>5. CASE \E w \in Worker : WorkerStep(w)
  BY <1>1, <1>5 DEF AnswerOf, Reg
<1> QED
  BY <1>2, <1>3, <1>4, <1>5, Steps

-----------------------------------------------------------------------------
(* Accounts and approvals come and go together.                            *)
LEMMA AccountsStep == ASSUME IInv, Next PROVE AccountsMatchApprovals'
<1>0. TypeOK /\ RowInv /\ AccountsMatchApprovals
  BY DEF IInv
<1> USE DEF TypeOK, Approved
<1>1. ASSUME NEW w \in Worker, Quiet(w) PROVE AccountsMatchApprovals'
  BY <1>0, <1>1, QuietStep DEF AccountsMatchApprovals
<1>2. ASSUME NEW w \in Worker, InsertRegistration(w)
      PROVE  AccountsMatchApprovals'
  <2>1. InsertRegistrationEffect(w)
    BY <1>2, InsertRegistrationFacts
  <2>2. /\ Approved' = Approved /\ UNCHANGED <<company, user>>
        /\ \A r \in Approved : registration'[r] = registration[r]
    BY <1>0, <2>1 DEF InsertRegistrationEffect, Row
  <2> QED
    BY <1>0, <2>2 DEF AccountsMatchApprovals
<1>3. ASSUME NEW w \in Worker, ApproveCommit(w)
      PROVE  AccountsMatchApprovals'
  <2> DEFINE r == op[w].reg  c == op[w].company  u == op[w].user
  <2>1. ApproveCommitEffect(w)
    BY <1>3, ApproveCommitFacts
  <2>2. /\ r \in Registration /\ c \in Company /\ u \in User
        /\ r \notin Approved /\ company[c] = None /\ user[u] = NoUser
        /\ Approved' = Approved \cup {r}
        /\ \A q \in Approved : registration'[q] = registration[q]
        /\ registration'[r].company = c /\ registration'[r].user = u
        /\ registration'[r].email = registration[r].email
        /\ registration[r].email \in Email
    BY <1>0, <2>1 DEF ApproveCommitEffect, Row
  <2>3. /\ \A d \in Company \ {c} : company'[d] = company[d]
        /\ \A v \in User \ {u} : user'[v] = user[v]
        /\ company'[c] # None
        /\ user'[u].email = registration[r].email /\ user'[u].company = c
    BY <1>0, <2>1, ConstantsAssumption DEF ApproveCommitEffect, Login
  <2>4. \A q \in Approved : registration[q].company # c /\ registration[q].user # u
    BY <1>0, <2>2, ConstantsAssumption DEF AccountsMatchApprovals, NoUser
  <2> QED
    BY <1>0, <2>2, <2>3, <2>4 DEF AccountsMatchApprovals
<1>4. ASSUME NEW w \in Worker, Reject(w) PROVE AccountsMatchApprovals'
  <2>1. RejectEffect(w)
    BY <1>4, RejectFacts
  <2>2. /\ Approved' = Approved /\ UNCHANGED <<company, user>>
        /\ \A r \in Approved : registration'[r] = registration[r]
    BY <1>0, <2>1 DEF RejectEffect, Row
  <2> QED
    BY <1>0, <2>2 DEF AccountsMatchApprovals
<1>5. ASSUME NEW w \in Worker, DeleteCommit(w)
      PROVE  AccountsMatchApprovals'
  <2> DEFINE r == op[w].reg  c == op[w].company
  <2>1. DeleteCommitEffect(w)
    BY <1>5, DeleteCommitFacts
  <2>2. /\ r \in Approved /\ registration[r].company = c
        /\ Approved' = Approved \ {r}
        /\ \A q \in Approved \ {r} : registration'[q] = registration[q]
    BY <1>0, <2>1 DEF DeleteCommitEffect, Row
  <2>3. /\ \A d \in Company \ {c} : company'[d] = company[d]
        /\ company'[c] = None
        /\ \A v \in User : user'[v] = IF user[v].company = c THEN NoUser ELSE user[v]
    BY <1>0, <2>1 DEF DeleteCommitEffect
  <2>4. \A q \in Approved \ {r} :
          registration[q].company # c /\ user[registration[q].user].company # c
    BY <1>0, <2>2 DEF AccountsMatchApprovals
  <2>5. \A v \in User : user'[v] # NoUser =>
          \E q \in Approved \ {r} : registration[q].user = v
    BY <1>0, <2>2, <2>3 DEF AccountsMatchApprovals
  <2> QED
    BY <1>0, <2>2, <2>3, <2>4, <2>5 DEF AccountsMatchApprovals
<1>6. ASSUME UNCHANGED <<registration, company>>, NEW u \in User, NEW b \in BOOLEAN,
             user[u] # NoUser,
             user' = [user EXCEPT ![u] = Login(user[u].email, user[u].company, b)]
      PROVE  AccountsMatchApprovals'
  <2>1. /\ Approved' = Approved
        /\ \A v \in User : /\ user'[v].email = user[v].email
                           /\ user'[v].company = user[v].company
                           /\ user'[v] # NoUser => user[v] # NoUser
    BY <1>0, <1>6 DEF Login
  <2> QED
    BY <1>0, <1>6, <2>1 DEF AccountsMatchApprovals
<1>7. ASSUME NEW w \in Worker, ResendCommit(w) PROVE AccountsMatchApprovals'
  <2>1. ResendCommitEffect(w)
    BY <1>7, ResendCommitFacts
  <2> QED
    BY <1>6, <2>1 DEF ResendCommitEffect
<1>8. ASSUME NEW u \in User, ChangePassword(u) PROVE AccountsMatchApprovals'
  <2>1. ChangePasswordEffect(u)
    BY <1>8, ChangePasswordFacts
  <2> QED
    BY <1>6, <2>1 DEF ChangePasswordEffect
<1>9. CASE (\E c \in Company : PostQuote(c)) \/ Crash
  BY <1>0, <1>9 DEF PostQuote, Crash, AccountsMatchApprovals
<1> QED
  BY Cases, <1>1, <1>2, <1>3, <1>4, <1>5, <1>7, <1>8, <1>9

(* No slug and no address is given twice.                                  *)
LEMMA KeysStep == ASSUME IInv, Next PROVE KeysAreUnique'
<1>0. TypeOK /\ RowInv /\ KeysAreUnique
  BY DEF IInv
<1> USE DEF TypeOK
<1>1. ASSUME NEW w \in Worker, ApproveCommit(w) PROVE KeysAreUnique'
  <2> DEFINE e == registration[op[w].reg].email
             c == op[w].company  u == op[w].user
  <2>1. ApproveCommitEffect(w)
    BY <1>1, ApproveCommitFacts
  <2>2. /\ c \in Company /\ \A d \in Company : company[d] # Candidate(w)
        /\ u \in User /\ user[u] = NoUser
        /\ e \in Email /\ e \notin AdminEmail /\ \A v \in User : user[v].email # e
    BY <2>1 DEF ApproveCommitEffect, SlugInUse, EmailInUse
  <2>3. /\ \A d \in Company : company'[d] = IF d = c THEN Candidate(w) ELSE company[d]
        /\ \A v \in User : user'[v] = IF v = u THEN Login(e, c, TRUE) ELSE user[v]
    BY <1>0, <2>1 DEF ApproveCommitEffect
  <2>4. \A v \in User : user'[v].email = IF v = u THEN e ELSE user[v].email
    BY <2>3 DEF Login
  <2>5. \A d1, d2 \in Company :
          company'[d1] = company'[d2] /\ company'[d1] # None => d1 = d2
    BY <1>0, <2>2, <2>3 DEF KeysAreUnique
  <2>6. \A v1, v2 \in User :
          user'[v1].email = user'[v2].email /\ user'[v1] # NoUser => v1 = v2
    <3> SUFFICES ASSUME NEW v1 \in User, NEW v2 \in User,
                        user'[v1].email = user'[v2].email, user'[v1] # NoUser
                 PROVE  v1 = v2
      OBVIOUS
    <3>1. CASE v1 = u \/ v2 = u
      BY <2>2, <2>4, <3>1
    <3>2. CASE v1 # u /\ v2 # u
      <4>1. user[v1].email = user[v2].email /\ user[v1] # NoUser
        BY <2>3, <2>4, <3>2
      <4> QED
        BY <1>0, <4>1 DEF KeysAreUnique
    <3> QED
      BY <3>1, <3>2
  <2>7. \A v \in User : user'[v].email \notin AdminEmail
    BY <1>0, <2>2, <2>4 DEF KeysAreUnique
  <2> QED
    BY <2>5, <2>6, <2>7 DEF KeysAreUnique
<1>2. ASSUME NEW w \in Worker, DeleteCommit(w) PROVE KeysAreUnique'
  <2> DEFINE c == op[w].company
  <2>1. DeleteCommitEffect(w)
    BY <1>2, DeleteCommitFacts
  <2>2. /\ \A d \in Company : company'[d] = IF d = c THEN None ELSE company[d]
        /\ \A v \in User : user'[v] = NoUser \/ user'[v] = user[v]
    BY <1>0, <2>1 DEF DeleteCommitEffect
  <2>3. \A v \in User : user[v] # NoUser => user[v].email # None
    BY <1>0, ConstantsAssumption DEF RowInv
  <2>4. NoUser.email = None /\ None \notin AdminEmail
    BY ConstantsAssumption DEF NoUser
  <2> QED
    BY <1>0, <2>2, <2>3, <2>4 DEF KeysAreUnique
<1>3. ASSUME UNCHANGED company, NEW u \in User, NEW b \in BOOLEAN, user[u] # NoUser,
             user' = [user EXCEPT ![u] = Login(user[u].email, user[u].company, b)]
      PROVE  KeysAreUnique'
  <2>1. \A v \in User : /\ user'[v].email = user[v].email
                        /\ user'[v] # NoUser => user[v] # NoUser
    BY <1>0, <1>3 DEF Login
  <2> QED
    BY <1>0, <1>3, <2>1 DEF KeysAreUnique
<1>4. ASSUME NEW w \in Worker, ResendCommit(w) PROVE KeysAreUnique'
  <2>1. ResendCommitEffect(w)
    BY <1>4, ResendCommitFacts
  <2> QED
    BY <1>3, <2>1 DEF ResendCommitEffect
<1>5. ASSUME NEW u \in User, ChangePassword(u) PROVE KeysAreUnique'
  <2>1. ChangePasswordEffect(u)
    BY <1>5, ChangePasswordFacts
  <2> QED
    BY <1>3, <2>1 DEF ChangePasswordEffect
<1>6. ASSUME UNCHANGED <<company, user>> PROVE KeysAreUnique'
  BY <1>0, <1>6 DEF KeysAreUnique
<1>7. ASSUME NEW w \in Worker, Quiet(w) PROVE KeysAreUnique'
  BY <1>6, <1>7, QuietStep
<1>8. ASSUME NEW w \in Worker, InsertRegistration(w) PROVE KeysAreUnique'
  BY <1>6, <1>8 DEF InsertRegistration
<1>9. ASSUME NEW w \in Worker, Reject(w) PROVE KeysAreUnique'
  BY <1>6, <1>9, RejectFacts DEF RejectEffect
<1>10. CASE (\E c \in Company : PostQuote(c)) \/ Crash
  BY <1>6, <1>10 DEF PostQuote, Crash
<1> QED
  BY Cases, <1>1, <1>2, <1>4, <1>5, <1>7, <1>8, <1>9, <1>10

(* A company never goes while a quote refers to it.                        *)
LEMMA QuotesStep == ASSUME IInv, Next PROVE QuotesHaveCompany'
<1>0. TypeOK /\ QuotesHaveCompany
  BY DEF IInv
<1> USE DEF TypeOK, QuotesHaveCompany
<1>1. ASSUME NEW w \in Worker, ApproveCommit(w) PROVE QuotesHaveCompany'
  <2>1. ApproveCommitEffect(w)
    BY <1>1, ApproveCommitFacts
  <2> QED
    BY <1>0, <2>1, ConstantsAssumption DEF ApproveCommitEffect
<1>2. ASSUME NEW w \in Worker, DeleteCommit(w) PROVE QuotesHaveCompany'
  <2>1. DeleteCommitEffect(w)
    BY <1>2, DeleteCommitFacts
  <2> QED
    BY <1>0, <2>1 DEF DeleteCommitEffect
<1>3. ASSUME NEW c \in Company, PostQuote(c) PROVE QuotesHaveCompany'
  BY <1>0, <1>3 DEF PostQuote
<1>4. ASSUME UNCHANGED <<company, quotes>> PROVE QuotesHaveCompany'
  BY <1>0, <1>4
<1>5. ASSUME NEW w \in Worker, Quiet(w) \/ InsertRegistration(w) PROVE QuotesHaveCompany'
  BY <1>4, <1>5, QuietStep DEF InsertRegistration
<1>6. ASSUME NEW w \in Worker, Reject(w) \/ ResendCommit(w) PROVE QuotesHaveCompany'
  BY <1>4, <1>6, RejectFacts, ResendCommitFacts DEF RejectEffect, ResendCommitEffect
<1>7. CASE (\E u \in User : ChangePassword(u)) \/ Crash
  BY <1>4, <1>7 DEF ChangePassword, Crash
<1> QED
  BY Cases, <1>1, <1>2, <1>3, <1>5, <1>6, <1>7

(* With the partial unique index, an address has one pending application.  *)
LEMMA PendingStep ==
  ASSUME IInv, PendingIndex, Next PROVE OnePendingPerEmail'
<1>0. TypeOK /\ OnePendingPerEmail
  BY DEF IInv
<1> DEFINE IsPending(r) == registration[r].status = "pending"
<1>1. ASSUME NEW w \in Worker, InsertRegistration(w) PROVE OnePendingPerEmail'
  <2>1. InsertRegistrationEffect(w)
    BY <1>1, InsertRegistrationFacts
  <2>2. CASE UNCHANGED registration
    BY <1>0, <2>2 DEF OnePendingPerEmail
  <2>3. CASE ~ UNCHANGED registration
    <3>1. PICK r \in Registration :
            registration' = [registration EXCEPT ![r] =
              Row("pending", op[w].email, op[w].name, None, None)]
      BY <2>1, <2>3 DEF InsertRegistrationEffect
    <3>2. \A q \in Registration : ~ (registration[q].status = "pending"
                                     /\ registration[q].email = op[w].email)
      BY <2>1, <2>3 DEF InsertRegistrationEffect, Pending
    <3>3. /\ registration'[r].email = op[w].email
          /\ \A q \in Registration : q # r => registration'[q] = registration[q]
      BY <1>0, <3>1 DEF TypeOK, Row
    <3> QED
      BY <1>0, <3>2, <3>3 DEF OnePendingPerEmail
  <2> QED
    BY <2>2, <2>3
<1>2. ASSUME \A r \in Registration : registration'[r].status = "pending" =>
               registration'[r] = registration[r]
      PROVE  OnePendingPerEmail'
  BY <1>0, <1>2 DEF OnePendingPerEmail
<1>3. ASSUME ~ \E w \in Worker : InsertRegistration(w)
      PROVE  \A r \in Registration : registration'[r].status = "pending" =>
               registration'[r] = registration[r]
  <2>1. ASSUME NEW w \in Worker, ApproveCommit(w) \/ Reject(w) \/ DeleteCommit(w),
               NEW r \in Registration, registration'[r].status = "pending"
        PROVE  registration'[r] = registration[r]
    <3>1. CASE ApproveCommit(w)
      <4>1. ApproveCommitEffect(w)
        BY <3>1, ApproveCommitFacts
      <4> QED
        BY <1>0, <2>1, <4>1 DEF ApproveCommitEffect, Row, TypeOK
    <3>2. CASE Reject(w)
      <4>1. RejectEffect(w)
        BY <3>2, RejectFacts
      <4> QED
        BY <1>0, <2>1, <4>1 DEF RejectEffect, Row, TypeOK
    <3>3. CASE DeleteCommit(w)
      <4>1. DeleteCommitEffect(w)
        BY <3>3, DeleteCommitFacts
      <4> QED
        BY <1>0, <2>1, <4>1 DEF DeleteCommitEffect, Row, TypeOK
    <3> QED
      BY <2>1, <3>1, <3>2, <3>3
  <2>2. ASSUME NEW w \in Worker, Quiet(w) \/ ResendCommit(w)
        PROVE  UNCHANGED registration
    BY <2>2, QuietStep, ResendCommitFacts DEF ResendCommitEffect
  <2>3. CASE (\E c \in Company : PostQuote(c)) \/ (\E u \in User : ChangePassword(u)) \/ Crash
    BY <2>3 DEF PostQuote, ChangePassword, Crash
  <2> QED
    BY Cases, <1>3, <2>1, <2>2, <2>3
<1> QED
  BY <1>1, <1>2, <1>3

-----------------------------------------------------------------------------
(* What an approval has inserted stays out of everyone's way.              *)
CandidateOf(w) == SlugFor[registration[op[w].reg].name, op[w].attempt]
Own(w) ==
  /\ pc[w] \in Inserted =>
       /\ op[w].company \in Company /\ company[op[w].company] = None
       /\ \A c \in Company : company[c] # CandidateOf(w)
  /\ pc[w] = "approve_commit" =>
       /\ op[w].user \in User /\ user[op[w].user] = NoUser
       /\ registration[op[w].reg].email \notin AdminEmail
       /\ \A u \in User : user[u].email # registration[op[w].reg].email
Apart(v, w) ==
  /\ pc[v] \in Inserted /\ pc[w] \in Inserted =>
       op[v].company # op[w].company /\ CandidateOf(v) # CandidateOf(w)
  /\ pc[v] = "approve_commit" /\ pc[w] = "approve_commit" =>
       /\ op[v].user # op[w].user
       /\ registration[op[v].reg].email # registration[op[w].reg].email

LEMMA OwnApart ==
  ApprovingInv <=> /\ \A w \in Worker : Own(w)
                   /\ \A v, w \in Worker : v # w => Apart(v, w)
BY DEF ApprovingInv, Own, Apart, CandidateOf, Candidate, Reg, SlugInUse, EmailInUse

LEMMA OwnApartNext ==
  ApprovingInv' <=> /\ \A w \in Worker : Own(w)'
                    /\ \A v, w \in Worker : v # w => Apart(v, w)'
BY DEF ApprovingInv, Own, Apart, CandidateOf, Candidate, Reg, SlugInUse, EmailInUse

(* How a worker comes to have, or keeps, uncommitted rows.                 *)
Same(w) == /\ op'[w].reg = op[w].reg /\ op'[w].attempt = op[w].attempt
           /\ registration'[op[w].reg] = registration[op[w].reg]
Inserts(w) ==
  \/ /\ pc[w] = "insert_company" /\ pc'[w] = "insert_user"
     /\ \A c \in Company : company[c] # CandidateOf(w)
     /\ \A v \in Worker \ {w} : pc[v] \in Inserted => CandidateOf(v) # CandidateOf(w)
     /\ op'[w].company \in Company /\ company[op'[w].company] = None
     /\ \A v \in Worker : op[v].company # op'[w].company
  \/ /\ pc[w] = "insert_user" /\ pc'[w] = "approve_commit"
     /\ registration[op[w].reg].email \notin AdminEmail
     /\ \A u \in User : user[u].email # registration[op[w].reg].email
     /\ \A v \in Worker \ {w} : pc[v] = "approve_commit" =>
          registration[op[v].reg].email # registration[op[w].reg].email
     /\ op'[w].user \in User /\ user[op'[w].user] = NoUser
     /\ \A v \in Worker : op[v].user # op'[w].user
     /\ op'[w].company = op[w].company

LEMMA InsertsQuiet ==
  ASSUME TypeOK, NEW w \in Worker, Quiet(w), pc'[w] \in Inserted
  PROVE  Inserts(w) /\ Same(w)
<1> USE DEF TypeOK
<1>0. UNCHANGED registration
  BY QuietStep
<1>1. InsertCompany(w) \/ InsertUser(w)
  BY DEF Quiet, Start, StartRegister, StartAdmin, PendingExists,
    PendingExistsFails, ApproveLock, CheckEmail, NextSlug, RejectCheck,
    DeleteLock, DeleteQuotes, DeleteUsers, DeleteCompany, ResendLock,
    ResetPassword, Return, Fail, LockRow, Refuse, Continue
<1>2. CASE InsertCompany(w)
  <2>1. PICK c \in Company : /\ company[c] = None
                             /\ \A v \in Worker : op[v].company # c
                             /\ op' = [op EXCEPT ![w].company = c]
    BY <1>2 DEF InsertCompany, Refuse
  <2>2. /\ op'[w].company = c /\ op'[w].reg = op[w].reg
        /\ op'[w].attempt = op[w].attempt
    BY <2>1 DEF Op
  <2>3. /\ pc[w] = "insert_company" /\ pc'[w] = "insert_user"
        /\ ~ SlugInUse(Candidate(w)) /\ ~ SlugHeld(Candidate(w), w)
    BY <1>2 DEF InsertCompany, Refuse
  <2> QED
    BY <1>0, <2>1, <2>2, <2>3
      DEF Inserts, Same, SlugInUse, SlugHeld, HoldsSlug, Candidate, CandidateOf, Reg
<1>3. CASE InsertUser(w)
  <2>1. PICK u \in User : /\ user[u] = NoUser
                          /\ \A v \in Worker : op[v].user # u
                          /\ op' = [op EXCEPT ![w].user = u]
    BY <1>3 DEF InsertUser, Refuse
  <2>2. /\ op'[w].user = u /\ op'[w].reg = op[w].reg
        /\ op'[w].attempt = op[w].attempt /\ op'[w].company = op[w].company
    BY <2>1 DEF Op
  <2>3. /\ pc[w] = "insert_user" /\ pc'[w] = "approve_commit"
        /\ ~ EmailInUse(Reg(w).email) /\ ~ EmailHeld(Reg(w).email, w)
    BY <1>3 DEF InsertUser, Refuse
  <2> QED
    BY <1>0, <2>1, <2>2, <2>3 DEF Inserts, Same, EmailInUse, EmailHeld, HoldsEmail, Reg
<1> QED
  BY <1>1, <1>2, <1>3

(* The tables, as far as an approval in progress looks at them, after a    *)
(* step of another worker.                                                 *)
LEMMA OwnOther ==
  ASSUME IInv, NEW w \in Worker, WorkerStep(w), NEW v \in Worker, v # w
  PROVE  Own(v)'
<1>0. TypeOK /\ Own(v) /\ Apart(v, w)
  BY OwnApart DEF IInv
<1>1. /\ pc'[v] = pc[v] /\ op'[v] = op[v]
      /\ pc[v] \in Holding => registration'[op[v].reg] = registration[op[v].reg]
  BY Local
<1>2. pc[v] \in Holding => CandidateOf(v)' = CandidateOf(v)
  BY <1>1 DEF CandidateOf
<1>3. ASSUME UNCHANGED <<company, user>> PROVE Own(v)'
  BY <1>0, <1>1, <1>2, <1>3 DEF Own
<1>4. CASE Quiet(w)
  BY <1>3, <1>4, QuietStep
<1>5. CASE InsertRegistration(w)
  BY <1>3, <1>5 DEF InsertRegistration
<1>6. CASE Reject(w)
  <2>1. RejectEffect(w)
    BY <1>6, RejectFacts
  <2> QED
    BY <1>3, <2>1 DEF RejectEffect
<1>7. CASE ResendCommit(w)
  <2> DEFINE u == registration[op[w].reg].user
  <2>1. ResendCommitEffect(w)
    BY <1>7, ResendCommitFacts
  <2>2. /\ company' = company /\ u \in User /\ user[u] # NoUser
        /\ \A x \in User : user'[x].email = user[x].email
        /\ \A x \in User : x # u => user'[x] = user[x]
    BY <1>0, <2>1 DEF ResendCommitEffect, TypeOK, Login
  <2> QED
    BY <1>0, <1>1, <1>2, <2>2 DEF Own
<1>8. CASE ApproveCommit(w)
  <2> DEFINE c == op[w].company  u == op[w].user
             e == registration[op[w].reg].email
  <2>1. ApproveCommitEffect(w)
    BY <1>8, ApproveCommitFacts
  <2>2. pc[w] = "approve_commit"
    BY <1>8 DEF ApproveCommit
  <2>3. /\ \A d \in Company : company'[d] = IF d = c THEN CandidateOf(w) ELSE company[d]
        /\ \A x \in User : x # u => user'[x] = user[x]
        /\ user'[u].email = e
    BY <1>0, <2>1 DEF ApproveCommitEffect, TypeOK, Login, Candidate, CandidateOf, Reg
  <2> QED
    BY <1>0, <1>1, <1>2, <2>2, <2>3 DEF Own, Apart
<1>9. CASE DeleteCommit(w)
  <2> DEFINE c == op[w].company
  <2>1. DeleteCommitEffect(w)
    BY <1>9, DeleteCommitFacts
  <2>2. /\ \A d \in Company : company'[d] = None \/ company'[d] = company[d]
        /\ \A x \in User : user'[x] = NoUser \/ user'[x] = user[x]
    BY <1>0, <2>1 DEF DeleteCommitEffect, TypeOK
  <2>3. pc[v] \in Inserted =>
          CandidateOf(v) \in Slug /\ registration[op[v].reg].email \in Email
    <3>1. pc[v] \in Inserted =>
            /\ op[v].reg \in Registration
            /\ registration[op[v].reg].status = "pending"
      BY DEF IInv, RequestInv, LockInv, Reg
    <3>2. op[v].attempt \in 1..MaxAttempt
      BY <1>0 DEF TypeOK, Op
    <3>3. pc[v] \in Inserted =>
            /\ registration[op[v].reg].email \in Email
            /\ registration[op[v].reg].name \in Name
      BY <3>1 DEF IInv, RowInv
    <3> QED
      BY <3>2, <3>3, ConstantsAssumption DEF CandidateOf
  <2>4. /\ NoUser.email = None /\ None \notin Email /\ None \notin Slug
    BY ConstantsAssumption DEF NoUser
  <2>5. pc[v] \in Inserted =>
          \A d \in Company : company'[d] # CandidateOf(v)
    BY <1>0, <2>2, <2>3, <2>4 DEF Own
  <2>6. pc[v] = "approve_commit" =>
          \A x \in User : user'[x].email # registration[op[v].reg].email
    BY <1>0, <2>2, <2>3, <2>4 DEF Own
  <2> QED
    BY <1>0, <1>1, <1>2, <2>2, <2>5, <2>6 DEF Own
<1> QED
  BY <1>4, <1>5, <1>6, <1>7, <1>8, <1>9 DEF WorkerStep

LEMMA ApprovingWorker ==
  ASSUME IInv, NEW w \in Worker, WorkerStep(w)
  PROVE  /\ \A v \in Worker : Own(v)'
         /\ \A v1, v2 \in Worker : v1 # v2 => Apart(v1, v2)'
<1>0. /\ TypeOK /\ \A v \in Worker : Own(v)
      /\ \A v1, v2 \in Worker : v1 # v2 => Apart(v1, v2)
  BY OwnApart DEF IInv
<1>1. pc'[w] \in Inserted => Quiet(w) /\ Inserts(w) /\ Same(w)
  <2>1. CASE Quiet(w)
    BY <1>0, <2>1, InsertsQuiet
  <2>2. CASE ~ Quiet(w)
    <3>1. \E label \in Answers \cup {"reject_check"} : pc' = [pc EXCEPT ![w] = label]
      BY <2>2, CommitLocal DEF WorkerStep
    <3> QED
      BY <1>0, <3>1 DEF TypeOK
  <2> QED
    BY <2>1, <2>2
<1>2. pc'[w] \in Inserted => CandidateOf(w)' = CandidateOf(w)
  BY <1>1 DEF Same, CandidateOf
<1>3. Own(w)'
  <2> SUFFICES ASSUME pc'[w] \in Inserted PROVE Own(w)'
    BY DEF Own
  <2>1. UNCHANGED <<registration, company, user>>
    BY <1>1, QuietStep
  <2> QED
    BY <1>0, <1>1, <1>2, <2>1 DEF Own, Inserts, Same
<1>4. ASSUME NEW v \in Worker, v # w
      PROVE  /\ pc'[v] = pc[v] /\ op'[v] = op[v]
             /\ pc[v] \in Inserted =>
                  /\ registration'[op[v].reg] = registration[op[v].reg]
                  /\ CandidateOf(v)' = CandidateOf(v)
  <2>1. /\ pc'[v] = pc[v] /\ op'[v] = op[v]
        /\ pc[v] \in Holding => registration'[op[v].reg] = registration[op[v].reg]
    BY <1>4, Local
  <2> QED
    BY <2>1 DEF CandidateOf
<1>5. ASSUME NEW v \in Worker, v # w PROVE Apart(v, w)' /\ Apart(w, v)'
  <2> SUFFICES ASSUME pc'[v] \in Inserted, pc'[w] \in Inserted
               PROVE  Apart(v, w)' /\ Apart(w, v)'
    BY DEF Apart
  <2>1. Apart(v, w)
    BY <1>0, <1>5
  <2>2. Inserts(w) /\ Same(w)
    BY <1>1
  <2>3. /\ pc'[v] = pc[v] /\ op'[v] = op[v]
        /\ registration'[op[v].reg] = registration[op[v].reg]
        /\ CandidateOf(v)' = CandidateOf(v)
    BY <1>4, <1>5
  <2> QED
    BY <1>2, <1>5, <2>1, <2>2, <2>3 DEF Apart, Inserts, Same
<1>6. ASSUME NEW v1 \in Worker, NEW v2 \in Worker, v1 # v2, v1 # w, v2 # w
      PROVE  Apart(v1, v2)'
  BY <1>0, <1>4, <1>6 DEF Apart
<1> QED
  BY <1>3, <1>5, <1>6, OwnOther

LEMMA ApprovingStep == ASSUME IInv, Next PROVE ApprovingInv'
<1>0. TypeOK /\ ApprovingInv
  BY DEF IInv
<1>1. CASE \E w \in Worker : WorkerStep(w)
  <2>1. PICK w \in Worker : WorkerStep(w)
    BY <1>1
  <2>2. /\ \A v \in Worker : Own(v)'
        /\ \A v1, v2 \in Worker : v1 # v2 => Apart(v1, v2)'
    BY <2>1, ApprovingWorker
  <2> QED
    BY <2>2, OwnApartNext
<1>2. CASE \E c \in Company : PostQuote(c)
  <2>1. UNCHANGED <<registration, company, user, pc, op>>
    BY <1>2 DEF PostQuote
  <2>2. \A w \in Worker : Candidate(w)' = Candidate(w)
    BY <2>1 DEF Candidate, Reg
  <2> QED
    BY <1>0, <2>1, <2>2 DEF ApprovingInv, Reg, SlugInUse, EmailInUse
<1>3. ASSUME NEW u \in User, ChangePassword(u) PROVE ApprovingInv'
  <2>1. ChangePasswordEffect(u)
    BY <1>3, ChangePasswordFacts
  <2>2. /\ UNCHANGED <<registration, company, pc, op>> /\ user[u] # NoUser
        /\ \A x \in User : user'[x].email = user[x].email
        /\ \A x \in User : x # u => user'[x] = user[x]
    BY <1>0, <2>1 DEF ChangePasswordEffect, TypeOK, Login
  <2>3. /\ \A w \in Worker : Own(w)
        /\ \A v, w \in Worker : v # w => Apart(v, w)
    BY <1>0, OwnApart
  <2>4. \A w \in Worker : CandidateOf(w)' = CandidateOf(w)
    BY <2>2 DEF CandidateOf
  <2>5. \A w \in Worker : Own(w)'
    BY <2>2, <2>3, <2>4 DEF Own
  <2>6. \A v, w \in Worker : v # w => Apart(v, w)'
    BY <2>2, <2>3, <2>4 DEF Apart
  <2> QED
    BY <2>5, <2>6, OwnApartNext
<1>4. CASE Crash
  BY <1>4 DEF Crash, ApprovingInv
<1> QED
  BY <1>1, <1>2, <1>3, <1>4, Steps

-----------------------------------------------------------------------------
(* What a delete has removed so far stays all there is.                    *)
Employees(c) == {u \in User : user[u].company = c}
Removed(w) ==
  /\ pc[w] \in Deleting \ {"delete_quotes"} =>
       op[w].company = registration[op[w].reg].company
  /\ pc[w] \in {"delete_company", "delete_commit"} =>
       op[w].users = Employees(op[w].company)
  /\ pc[w] = "delete_commit" => quotes[op[w].company] = op[w].quotes

LEMMA RemovedQuiet ==
  ASSUME TypeOK, NEW w \in Worker, Removed(w), Quiet(w)
  PROVE  Removed(w)'
<1> USE DEF TypeOK, Removed
<1>0. UNCHANGED <<registration, company, user, quotes>>
  BY QuietStep
<1>e. \A c : Employees(c)' = Employees(c)
  BY <1>0 DEF Employees
<1>1. CASE Start(w) \/ Return(w)
  BY <1>1 DEF Start, StartRegister, StartAdmin, Return
<1>2. CASE PendingExists(w) \/ PendingExistsFails(w) \/ RejectCheck(w)
  BY <1>2 DEF PendingExists, PendingExistsFails, RejectCheck, Continue
<1>3. CASE CheckEmail(w) \/ ResetPassword(w) \/ Fail(w)
  BY <1>3 DEF CheckEmail, ResetPassword, Fail, Refuse, Continue
<1>4. CASE ApproveLock(w) \/ DeleteLock(w) \/ ResendLock(w)
  BY <1>4 DEF ApproveLock, DeleteLock, ResendLock, LockRow, Continue
<1>5. CASE NextSlug(w) \/ InsertCompany(w) \/ InsertUser(w)
  BY <1>5 DEF NextSlug, InsertCompany, InsertUser, Refuse
<1>6. CASE DeleteQuotes(w)
  <2>1. CASE Refuse(w, "no_company")
    BY <2>1 DEF Refuse
  <2>2. CASE ~ Refuse(w, "no_company")
    <3> DEFINE c == registration[op[w].reg].company
    <3>1. /\ op' = [op EXCEPT ![w] = [op[w] EXCEPT !.company = c, !.quotes = quotes[c]]]
          /\ pc'[w] = "delete_users"
      BY <1>6, <2>2 DEF DeleteQuotes, Reg
    <3>2. op'[w].company = c /\ op'[w].reg = op[w].reg
      BY <3>1 DEF Op
    <3> QED
      BY <1>0, <3>1, <3>2
  <2> QED
    BY <2>1, <2>2
<1>7. CASE DeleteUsers(w)
  <2>1. /\ op'[w].company = op[w].company /\ op'[w].reg = op[w].reg
        /\ op'[w].users = Employees(op[w].company)
        /\ pc[w] = "delete_users" /\ pc'[w] = "delete_company"
    BY <1>7 DEF DeleteUsers, Op, Employees
  <2> QED
    BY <1>0, <1>e, <2>1
<1>8. CASE DeleteCompany(w)
  <2>1. /\ pc[w] = "delete_company" /\ op' = op
        /\ \/ pc'[w] = "failed"
           \/ pc'[w] = "delete_commit" /\ quotes[op[w].company] = op[w].quotes
    BY <1>8 DEF DeleteCompany, Refuse, Continue
  <2> QED
    BY <1>0, <1>e, <2>1
<1> QED
  BY <1>1, <1>2, <1>3, <1>4, <1>5, <1>6, <1>7, <1>8 DEF Quiet

(* The company that a delete takes away is there, and only its own.        *)
LEMMA OwnCompany ==
  ASSUME IInv, NEW v \in Worker, pc[v] \in Deleting \ {"delete_quotes"}
  PROVE  /\ op[v].reg \in Registration
         /\ registration[op[v].reg].status = "approved"
         /\ op[v].company = registration[op[v].reg].company
         /\ op[v].company \in Company /\ company[op[v].company] # None
<1>1. /\ op[v].reg \in Registration
      /\ registration[op[v].reg].status = "approved"
      /\ op[v].company = registration[op[v].reg].company
  BY DEF IInv, RequestInv, LockInv, DeletingInv, Reg
<1>2. AccountsMatchApprovals
  BY DEF IInv
<1> QED
  BY <1>1, <1>2 DEF AccountsMatchApprovals, Approved

LEMMA RemovedOther ==
  ASSUME IInv, NEW w \in Worker, WorkerStep(w), NEW v \in Worker, v # w
  PROVE  Removed(v)'
<1>0. TypeOK /\ Removed(v) /\ AccountsMatchApprovals
  BY DEF IInv, DeletingInv, Removed, Employees, Reg
<1>1. /\ pc'[v] = pc[v] /\ op'[v] = op[v]
      /\ pc[v] \in Holding => registration'[op[v].reg] = registration[op[v].reg]
  BY Local
<1> DEFINE c == op[v].company
<1> SUFFICES ASSUME pc[v] \in Deleting \ {"delete_quotes"} PROVE Removed(v)'
  BY <1>1 DEF Removed
<1>2. /\ c \in Company /\ company[c] # None /\ op[v].reg \in Registration
      /\ registration[op[v].reg].status = "approved"
      /\ c = registration[op[v].reg].company
  BY OwnCompany
<1>3. ASSUME \A u \in User : user'[u].company = c <=> user[u].company = c,
             quotes'[c] = quotes[c]
      PROVE  Removed(v)'
  <2>1. Employees(c)' = Employees(c)
    BY <1>1, <1>3 DEF Employees
  <2> QED
    BY <1>0, <1>1, <1>3, <2>1 DEF Removed
<1>4. CASE Quiet(w)
  BY <1>3, <1>4, QuietStep
<1>5. CASE InsertRegistration(w)
  BY <1>3, <1>5 DEF InsertRegistration
<1>6. CASE Reject(w)
  <2>1. RejectEffect(w)
    BY <1>6, RejectFacts
  <2> QED
    BY <1>3, <2>1 DEF RejectEffect
<1>7. CASE ResendCommit(w)
  <2>1. ResendCommitEffect(w)
    BY <1>7, ResendCommitFacts
  <2>2. quotes' = quotes /\ \A u \in User : user'[u].company = user[u].company
    BY <1>0, <2>1 DEF ResendCommitEffect, TypeOK, Login
  <2> QED
    BY <1>3, <2>2
<1>8. CASE ApproveCommit(w)
  <2>1. ApproveCommitEffect(w)
    BY <1>8, ApproveCommitFacts
  <2>2. /\ quotes' = quotes /\ company[op[w].company] = None
        /\ user[op[w].user] = NoUser /\ user'[op[w].user].company = op[w].company
        /\ \A u \in User : u # op[w].user => user'[u] = user[u]
    BY <1>0, <2>1 DEF ApproveCommitEffect, TypeOK, Login
  <2>3. NoUser.company = None /\ c # None /\ c # op[w].company
    BY <1>2, <2>2, ConstantsAssumption DEF NoUser
  <2> QED
    BY <1>3, <2>2, <2>3
<1>9. CASE DeleteCommit(w)
  <2>1. DeleteCommitEffect(w)
    BY <1>9, DeleteCommitFacts
  <2>2. op[w].reg # op[v].reg
    <3>1. lock[op[v].reg] = v
      BY DEF IInv, LockInv
    <3> QED
      BY <2>1, <3>1 DEF DeleteCommitEffect
  <2>3. op[w].company # c
    BY <1>0, <1>2, <2>1, <2>2
      DEF DeleteCommitEffect, AccountsMatchApprovals, Approved
  <2>4. /\ quotes'[c] = quotes[c]
        /\ \A u \in User :
             user'[u] = IF user[u].company = op[w].company THEN NoUser ELSE user[u]
    BY <1>0, <1>2, <2>1, <2>3 DEF DeleteCommitEffect, TypeOK
  <2>5. NoUser.company = None /\ c # None
    BY <1>2, ConstantsAssumption DEF NoUser
  <2> QED
    BY <1>3, <2>3, <2>4, <2>5
<1> QED
  BY <1>4, <1>5, <1>6, <1>7, <1>8, <1>9 DEF WorkerStep

LEMMA DeletingStep == ASSUME IInv, Next PROVE DeletingInv'
<1>0. TypeOK /\ \A w \in Worker : Removed(w)
  BY DEF IInv, DeletingInv, Removed, Employees, Reg
<1>1. ASSUME \A w \in Worker : Removed(w)' PROVE DeletingInv'
  BY <1>1 DEF DeletingInv, Removed, Employees, Reg
<1>2. ASSUME NEW w \in Worker, WorkerStep(w), NEW v \in Worker
      PROVE  Removed(v)'
  <2>1. CASE v # w
    BY <1>2, <2>1, RemovedOther
  <2>2. CASE v = w /\ Quiet(w)
    BY <1>0, <2>2, RemovedQuiet
  <2>3. CASE v = w /\ ~ Quiet(w)
    <3>1. \E label \in Answers \cup {"reject_check"} : pc' = [pc EXCEPT ![w] = label]
      BY <1>2, <2>3, CommitLocal DEF WorkerStep
    <3> QED
      BY <1>0, <2>3, <3>1 DEF TypeOK, Removed
  <2> QED
    BY <2>1, <2>2, <2>3
<1>3. CASE \E w \in Worker : WorkerStep(w)
  BY <1>1, <1>2, <1>3
<1>4. ASSUME NEW c \in Company, PostQuote(c), NEW w \in Worker PROVE Removed(w)'
  <2>1. Removed(w) /\ UNCHANGED <<registration, user, pc, op>>
    BY <1>0, <1>4 DEF PostQuote
  <2>2. Employees(op[w].company)' = Employees(op[w].company)
    BY <2>1 DEF Employees
  <2>3. pc[w] = "delete_commit" => quotes'[op[w].company] = quotes[op[w].company]
    BY <1>0, <1>4 DEF PostQuote, TypeOK
  <2> QED
    BY <2>1, <2>2, <2>3 DEF Removed
<1>5. ASSUME NEW u \in User, ChangePassword(u), NEW w \in Worker PROVE Removed(w)'
  <2>1. ChangePasswordEffect(u)
    BY <1>5, ChangePasswordFacts
  <2>2. /\ UNCHANGED <<registration, quotes, pc, op>>
        /\ \A x \in User : user'[x].company = user[x].company
    BY <1>0, <2>1 DEF ChangePasswordEffect, TypeOK, Login
  <2>3. Employees(op[w].company)' = Employees(op[w].company)
    BY <2>2 DEF Employees
  <2> QED
    BY <1>0, <2>2, <2>3 DEF Removed
<1>6. CASE Crash
  BY <1>6 DEF Crash, DeletingInv
<1> QED
  BY <1>1, <1>3, <1>4, <1>5, <1>6, Steps

-----------------------------------------------------------------------------
(* Every step preserves the inductive invariant.                           *)
LEMMA StepIInv == ASSUME IInv, [Next]_vars PROVE IInv'
<1>1. CASE Next
  <2>1. TypeOK' /\ RequestInv' /\ RowInv' /\ LockInv'
    BY <1>1, TypeStep, RequestStep, RowStep, LockStep
  <2>2. RejectingInv' /\ AnswersAreTrue' /\ ApprovingInv' /\ DeletingInv'
    BY <1>1, AnswersStep, ApprovingStep, DeletingStep
  <2>3. AccountsMatchApprovals' /\ KeysAreUnique' /\ QuotesHaveCompany'
    BY <1>1, AccountsStep, KeysStep, QuotesStep
  <2>4. PendingIndex => OnePendingPerEmail'
    BY <1>1, PendingStep
  <2> QED
    BY <2>1, <2>2, <2>3, <2>4 DEF IInv
<1>2. CASE UNCHANGED vars
  <2> USE <1>2 DEF vars
  <2>0. IInv
    OBVIOUS
  <2>1. TypeOK' /\ RequestInv' /\ RowInv' /\ LockInv' /\ RejectingInv'
    BY <2>0 DEF IInv, TypeOK, RequestInv, RowInv, LockInv, RejectingInv, Reg
  <2>2. AnswersAreTrue' /\ DeletingInv'
    BY <2>0 DEF IInv, AnswersAreTrue, DeletingInv, Reg
  <2>3. \A w \in Worker : Candidate(w)' = Candidate(w)
    BY DEF Candidate, Reg
  <2>4. ApprovingInv'
    BY <2>0, <2>3 DEF IInv, ApprovingInv, Reg, SlugInUse, EmailInUse
  <2>5. AccountsMatchApprovals' /\ KeysAreUnique' /\ QuotesHaveCompany'
    BY <2>0 DEF IInv, AccountsMatchApprovals, KeysAreUnique, QuotesHaveCompany, Approved
  <2>6. PendingIndex => OnePendingPerEmail'
    BY <2>0 DEF IInv, OnePendingPerEmail
  <2> QED
    BY <2>1, <2>2, <2>4, <2>5, <2>6 DEF IInv
<1> QED
  BY <1>1, <1>2

(* The inductive invariant holds in every state the handlers reach.        *)
THEOREM Invariant == Spec => []IInv
<1>1. Init => IInv
  BY InitIInv
<1>2. IInv /\ [Next]_vars => IInv'
  BY StepIInv
<1> QED
  BY <1>1, <1>2, PTL DEF Spec

(* Type correctness: every table and worker holds values of its kind.      *)
THEOREM TypeCorrect == Spec => []TypeOK
<1>1. IInv => TypeOK
  BY DEF IInv
<1> QED
  BY <1>1, Invariant, PTL

(* However approvals, deletes, failures and crashes interleave             *)
(* (admin_repo.go ApproveRegistration, DeleteApprovedCompanyByRegistration) *)
(* approved applications and accounts correspond one to one.               *)
THEOREM Accounts == Spec => []AccountsMatchApprovals
<1>1. IInv => AccountsMatchApprovals
  BY DEF IInv
<1> QED
  BY <1>1, Invariant, PTL

(* No two companies share a slug and no two accounts an address, although  *)
(* approvals choose both before they commit.                               *)
THEOREM Keys == Spec => []KeysAreUnique
<1>1. IInv => KeysAreUnique
  BY DEF IInv
<1> QED
  BY <1>1, Invariant, PTL

(* A quote always has its company, although the public form and the delete *)
(* of a company write in transactions of their own.                        *)
THEOREM Quotes == Spec => []QuotesHaveCompany
<1>1. IInv => QuotesHaveCompany
  BY DEF IInv
<1> QED
  BY <1>1, Invariant, PTL

(* With the partial unique index of migration 011, two submissions of the  *)
(* form never leave two applications in review for an address, although    *)
(* RegistrationHandler.Create checks and inserts in two statements.        *)
THEOREM Pendings == PendingIndex /\ Spec => []OnePendingPerEmail
<1>1. PendingIndex /\ IInv => OnePendingPerEmail
  BY DEF IInv
<1>2. CASE PendingIndex
  <2>1. IInv => OnePendingPerEmail
    BY <1>1, <1>2
  <2> QED
    BY <2>1, Invariant, PTL
<1> QED
  BY <1>2

(* Whatever the handlers tell the administrator stays so while the answer  *)
(* travels.                                                                *)
THEOREM Truthful == Spec => []AnswersAreTrue
<1>1. IInv => AnswersAreTrue
  BY DEF IInv
<1> QED
  BY <1>1, Invariant, PTL

(* Whoever holds the row of an approved application has a whole account in *)
(* front of it.                                                            *)
THEOREM WholeAccounts == Spec => []NoHalfAccount
<1>1. IInv => NoHalfAccount
  <2> SUFFICES ASSUME IInv, NEW w \in Worker, pc[w] \in Deleting \cup Resending
               PROVE  /\ Reg(w).company \in Company /\ company[Reg(w).company] # None
                      /\ Reg(w).user \in User /\ user[Reg(w).user] # NoUser
    BY DEF NoHalfAccount
  <2>1. op[w].reg \in Registration /\ Reg(w).status = "approved"
    BY DEF IInv, RequestInv, LockInv, Reg
  <2>2. /\ Reg(w).company \in Company /\ company[Reg(w).company] # None
        /\ Reg(w).user \in User /\ user[Reg(w).user].company \in Company
    BY <2>1 DEF IInv, AccountsMatchApprovals, Approved, Reg
  <2> QED
    BY <2>2, ConstantsAssumption DEF NoUser
<1> QED
  BY <1>1, Invariant, PTL

(* A decision is final: an application moves along the arrows of its life  *)
(* cycle only, whoever acts on it at once.                                 *)
THEOREM Final == Spec => DecisionsAreFinal
<1> DEFINE OneWay == \A r \in Registration :
       registration[r].status # registration'[r].status =>
         <<registration[r].status, registration'[r].status>> \in Moves
<1>1. IInv /\ [Next]_vars => [OneWay]_vars
  <2> SUFFICES ASSUME IInv, Next, NEW r \in Registration,
                      registration[r].status # registration'[r].status
               PROVE  <<registration[r].status, registration'[r].status>> \in Moves
    BY DEF vars
  <2> QED
    BY StatusStep
<1>2. DecisionsAreFinal <=> [][OneWay]_vars
  BY DEF DecisionsAreFinal, Moves
<1> QED
  BY <1>1, <1>2, Invariant, PTL DEF Spec

-----------------------------------------------------------------------------
(* Row locks: what a step of w does to them is its own.                    *)
LEMMA LocksOfOthers ==
  ASSUME IInv, NEW w \in Worker, WorkerStep(w), NEW r \in Registration,
         lock'[r] # None, lock'[r] # w
  PROVE  lock[r] = lock'[r]
<1>0. TypeOK
  BY DEF IInv
<1> USE <1>0 DEF TypeOK
<1>1. CASE Quiet(w)
  <2>1. CASE Start(w) \/ Return(w)
    BY <2>1 DEF Start, StartRegister, StartAdmin, Return
  <2>2. CASE PendingExists(w) \/ PendingExistsFails(w) \/ RejectCheck(w)
    BY <2>2 DEF PendingExists, PendingExistsFails, RejectCheck, Continue
  <2>3. CASE CheckEmail(w) \/ DeleteCompany(w) \/ ResetPassword(w) \/ Fail(w)
    BY <2>3 DEF CheckEmail, DeleteCompany, ResetPassword, Fail, Refuse, Continue, Unlock
  <2>4. CASE ApproveLock(w) \/ DeleteLock(w) \/ ResendLock(w)
    BY <2>4 DEF ApproveLock, DeleteLock, ResendLock, LockRow, Continue
  <2>5. CASE NextSlug(w) \/ DeleteUsers(w)
    BY <2>5 DEF NextSlug, DeleteUsers
  <2>6. CASE InsertCompany(w) \/ InsertUser(w) \/ DeleteQuotes(w)
    BY <2>6 DEF InsertCompany, InsertUser, DeleteQuotes, Refuse, Unlock
  <2> QED
    BY <1>1, <2>1, <2>2, <2>3, <2>4, <2>5, <2>6 DEF Quiet
<1>2. CASE ~ Quiet(w)
  <2>1. Unlock(w) \/ UNCHANGED lock
    BY <1>2, CommitLocal DEF WorkerStep
  <2> QED
    BY <2>1 DEF Unlock
<1> QED
  BY <1>1, <1>2

LEMMA LocksOfOwn ==
  ASSUME IInv, RowsAreFreed, NEW w \in Worker, WorkerStep(w),
         NEW r \in Registration, lock'[r] = w
  PROVE  pc'[w] \in Holding /\ op'[w].reg = r
<1>0. TypeOK /\ op[w] \in Op
  BY DEF IInv, TypeOK
<1>a. lock[r] = w => pc[w] \in Holding /\ op[w].reg = r
  BY ConstantsAssumption DEF RowsAreFreed
<1> USE <1>0, <1>a, ConstantsAssumption DEF TypeOK
<1>1. CASE Start(w) \/ Return(w)
  BY <1>1 DEF Start, StartRegister, StartAdmin, Return
<1>2. CASE PendingExists(w) \/ PendingExistsFails(w) \/ RejectCheck(w)
  BY <1>2 DEF PendingExists, PendingExistsFails, RejectCheck, Continue
<1>3. CASE CheckEmail(w) \/ DeleteCompany(w) \/ ResetPassword(w) \/ Fail(w)
  BY <1>3 DEF CheckEmail, DeleteCompany, ResetPassword, Fail, Refuse, Continue, Unlock
<1>4. CASE ApproveLock(w) \/ DeleteLock(w) \/ ResendLock(w)
  BY <1>4 DEF ApproveLock, DeleteLock, ResendLock, LockRow, Continue
<1>5. CASE NextSlug(w) \/ DeleteUsers(w)
  BY <1>5 DEF NextSlug, DeleteUsers, Op
<1>6. CASE InsertCompany(w) \/ InsertUser(w)
  BY <1>6 DEF InsertCompany, InsertUser, Refuse, Unlock, Op
<1>7. CASE DeleteQuotes(w)
  BY <1>7 DEF DeleteQuotes, Refuse, Unlock, Op
<1>8. CASE InsertRegistration(w) \/ Reject(w)
  BY <1>8 DEF InsertRegistration, Reject, Continue
<1>9. CASE ApproveCommit(w) \/ DeleteCommit(w) \/ ResendCommit(w)
  BY <1>9 DEF ApproveCommit, DeleteCommit, ResendCommit, Refuse, Unlock
<1> QED
  BY <1>1, <1>2, <1>3, <1>4, <1>5, <1>6, <1>7, <1>8, <1>9 DEF WorkerStep, Quiet

LEMMA FreedStep == ASSUME IInv, RowsAreFreed, [Next]_vars PROVE RowsAreFreed'
<1>0. TypeOK
  BY DEF IInv
<1>1. ASSUME NEW w \in Worker, WorkerStep(w), NEW r \in Registration, lock'[r] # None
      PROVE  pc'[lock'[r]] \in Holding /\ op'[lock'[r]].reg = r
  <2>1. CASE lock'[r] = w
    BY <1>1, <2>1, LocksOfOwn
  <2>2. CASE lock'[r] # w
    <3>1. lock[r] = lock'[r] /\ lock[r] \in Worker
      BY <1>0, <1>1, <2>2, LocksOfOthers DEF TypeOK
    <3> QED
      BY <1>1, <2>2, <3>1, Local DEF RowsAreFreed
  <2> QED
    BY <2>1, <2>2
<1>2. CASE \E c \in Company : PostQuote(c)
  BY <1>2 DEF PostQuote, RowsAreFreed
<1>3. CASE \E u \in User : ChangePassword(u)
  BY <1>3 DEF ChangePassword, RowsAreFreed
<1>4. CASE Crash
  BY <1>4 DEF Crash, RowsAreFreed
<1>5. CASE UNCHANGED vars
  BY <1>5 DEF vars, RowsAreFreed
<1> QED
  BY <1>1, <1>2, <1>3, <1>4, <1>5, Steps DEF RowsAreFreed

(* Whom a request waits for has come further: row locks are held by        *)
(* transactions, slugs by those past INSERT INTO companies, addresses by   *)
(* those about to commit or to delete the company.                         *)
LEMMA WaitsForFurther ==
  ASSUME IInv, RowsAreFreed, NEW w \in Worker, NEW v \in Worker, WaitsFor(w, v)
  PROVE  \/ pc[w] \in Lock \cup {"reject"} /\ pc[v] \in Holding
         \/ At(w, "insert_company") /\ pc[v] \in {"insert_user", "approve_commit", "delete_commit"}
         \/ At(w, "insert_user") /\ pc[v] \in {"approve_commit", "delete_company", "delete_commit"}
<1>1. CASE pc[w] \in Lock \cup {"reject"}
  <2>1. op[w].reg \in Registration
    BY <1>1 DEF IInv, RequestInv
  <2>2. lock[op[w].reg] = v
    BY <1>1 DEF WaitsFor
  <2> QED
    BY <1>1, <2>1, <2>2, ConstantsAssumption DEF RowsAreFreed
<1>2. CASE pc[w] \notin Lock \cup {"reject"}
  BY <1>2 DEF WaitsFor, HoldsSlug, HoldsEmail
<1> QED
  BY <1>1, <1>2

LEMMA NoCircle ==
  ASSUME IInv, RowsAreFreed, NEW W \in SUBSET Worker, W # {}
  PROVE  \E w \in W : \A v \in W : ~ WaitsFor(w, v)
<1> SUFFICES ASSUME \A w \in W : \E v \in W : WaitsFor(w, v) PROVE FALSE
  OBVIOUS
<1>1. \A w \in W : pc[w] \notin {"insert_user"}
  BY WaitsForFurther
<1>2. \A w \in W : pc[w] \notin {"insert_company"}
  BY <1>1, WaitsForFurther
<1>3. \A w \in W : pc[w] \notin Lock \cup {"reject"}
  BY <1>1, <1>2, WaitsForFurther
<1> QED
  BY <1>1, <1>2, <1>3, WaitsForFurther

(* No request waits for ever for a lock: rows are freed by whoever ends    *)
(* (defer tx.Rollback), and no requests wait for one another, however many *)
(* approve, reject, delete and resend at once.                             *)
THEOREM Deadlocks == Spec => []NoDeadlock
<1>1. Init => RowsAreFreed
  BY DEF Init, RowsAreFreed
<1>2. IInv /\ RowsAreFreed /\ [Next]_vars => RowsAreFreed'
  BY FreedStep
<1>3. IInv /\ RowsAreFreed => NoDeadlock
  BY NoCircle DEF NoDeadlock
<1> QED
  BY <1>1, <1>2, <1>3, Invariant, PTL DEF Spec

-----------------------------------------------------------------------------
(* The refinement of Onboarding.  What its variables say of one            *)
(* application:                                                            *)
Status(r)  == registration[r].status
Contact(r) == registration[r].email
Page(r)    == IF r \in Approved THEN company[registration[r].company] ELSE None
Address(r) == IF r \in Approved THEN user[registration[r].user].email ELSE None
Initial(r) == IF r \in Approved THEN user[registration[r].user].mustChange ELSE FALSE
InboxOf(r) == IF r \in Approved THEN quotes[registration[r].company] ELSE 0

Unchanging(q) ==
  /\ Status(q)' = Status(q) /\ Contact(q)' = Contact(q)
  /\ Page(q)' = Page(q) /\ Address(q)' = Address(q)
  /\ Initial(q)' = Initial(q) /\ InboxOf(q)' = InboxOf(q)

OthersUnchanging(r) == \A q \in Registration \ {r} : Unchanging(q)

(* The abstract variables, and those of the next state when one            *)
(* application has changed.                                                *)
LEMMA Stutter ==
  ASSUME \A q \in Registration : Unchanging(q)
  PROVE  UNCHANGED Abstract!vars
BY DEF Abstract!vars, Unchanging, Status, Contact, Page, Address, Initial, InboxOf

LEMMA RegisterMaps ==
  ASSUME NEW r \in Registration, NEW e, OthersUnchanging(r),
         Status(r) = "absent",
         \A q \in Registration : Status(q) = "pending" => Contact(q) # e,
         Status(r)' = "pending", Contact(r)' = e, Page(r)' = Page(r),
         Address(r)' = Address(r), Initial(r)' = Initial(r), InboxOf(r)' = InboxOf(r)
  PROVE  Abstract!Register(r, e)
BY DEF Abstract!Register, OthersUnchanging, Unchanging, Status, Contact, Page, Address, Initial, InboxOf

LEMMA ApproveMaps ==
  ASSUME NEW r \in Registration, NEW s, OthersUnchanging(r),
         Status(r) = "pending", Contact(r) \notin AdminEmail,
         \A q \in Registration : Page(q) # s /\ Address(q) # Contact(r),
         Status(r)' = "approved", Contact(r)' = Contact(r), Page(r)' = s,
         Address(r)' = Contact(r), Initial(r)' = TRUE, InboxOf(r)' = InboxOf(r)
  PROVE  Abstract!Approve(r, s)
BY DEF Abstract!Approve, OthersUnchanging, Unchanging, Status, Contact, Page, Address, Initial, InboxOf

LEMMA RejectMaps ==
  ASSUME NEW r \in Registration, OthersUnchanging(r),
         Status(r) = "pending", Status(r)' = "rejected",
         Contact(r)' = Contact(r), Page(r)' = Page(r),
         Address(r)' = Address(r), Initial(r)' = Initial(r), InboxOf(r)' = InboxOf(r)
  PROVE  Abstract!Reject(r)
BY DEF Abstract!Reject, OthersUnchanging, Unchanging, Status, Contact, Page, Address, Initial, InboxOf

LEMMA InitialMaps ==
  ASSUME NEW r \in Registration, OthersUnchanging(r),
         Status(r)' = Status(r), Contact(r)' = Contact(r), Page(r)' = Page(r),
         Address(r)' = Address(r), InboxOf(r)' = InboxOf(r)
  PROVE  /\ Status(r) = "approved" /\ Initial(r)' = TRUE => Abstract!Reissue(r)
         /\ Initial(r) /\ Initial(r)' = FALSE => Abstract!ChangePassword(r)
BY DEF Abstract!Reissue, Abstract!ChangePassword, OthersUnchanging, Unchanging, Status,
  Contact, Page, Address, Initial, InboxOf

LEMMA DeleteMaps ==
  ASSUME NEW r \in Registration, OthersUnchanging(r),
         Status(r) = "approved", Status(r)' = "deleted", Contact(r)' = None,
         Page(r)' = None, Address(r)' = None, Initial(r)' = FALSE, InboxOf(r)' = 0
  PROVE  Abstract!Delete(r)
BY DEF Abstract!Delete, OthersUnchanging, Unchanging, Status, Contact, Page, Address, Initial, InboxOf

LEMMA QuoteMaps ==
  ASSUME NEW r \in Registration, OthersUnchanging(r),
         Status(r) = "approved", InboxOf(r)' = InboxOf(r) + 1,
         Status(r)' = Status(r), Contact(r)' = Contact(r), Page(r)' = Page(r),
         Address(r)' = Address(r), Initial(r)' = Initial(r)
  PROVE  Abstract!Quote(r)
BY DEF Abstract!Quote, OthersUnchanging, Unchanging, Status, Contact, Page, Address, Initial, InboxOf

(* Each commit of Approval is one step of Onboarding.                      *)
LEMMA RegisterImplements ==
  ASSUME IInv, PendingIndex, NEW w \in Worker, InsertRegistration(w)
  PROVE  \/ \A q \in Registration : Unchanging(q)
         \/ \E r \in Registration, e \in Email : Abstract!Register(r, e)
<1>e. PICK e \in Email : e = op[w].email
  BY InsertRegistrationFacts DEF InsertRegistrationEffect
<1> USE DEF Unchanging, Status, Contact, Page, Address, Initial, InboxOf
<1>1. InsertRegistrationEffect(w)
  BY InsertRegistrationFacts
<1>2. CASE UNCHANGED registration
  BY <1>1, <1>2 DEF InsertRegistrationEffect, Approved
<1>3. ASSUME NEW r \in Registration, registration[r].status = "absent",
             Pending(e) = {},
             registration' = [registration EXCEPT ![r] =
                                Row("pending", e, op[w].name, None, None)]
      PROVE  Abstract!Register(r, e)
  <2>1. registration'[r] = Row("pending", e, op[w].name, None, None)
    BY <1>3 DEF IInv, TypeOK
  <2>2. \A q \in Registration \ {r} : registration'[q] = registration[q]
    BY <1>3 DEF IInv, TypeOK
  <2>3. r \notin Approved /\ r \notin Approved'
    BY <1>3, <2>1 DEF Approved, Row
  <2>4. \A q \in Registration \ {r} : Unchanging(q)
    BY <1>1, <2>2 DEF InsertRegistrationEffect, Approved
  <2>5. \A q \in Registration : Status(q) = "pending" => Contact(q) # e
    BY <1>3 DEF Pending
  <2>6. /\ Status(r) = "absent" /\ Status(r)' = "pending" /\ Contact(r)' = e
        /\ Page(r)' = Page(r) /\ Address(r)' = Address(r)
        /\ Initial(r)' = Initial(r) /\ InboxOf(r)' = InboxOf(r)
    BY <1>3, <2>1, <2>3 DEF Row
  <2> HIDE DEF Unchanging, Status, Contact, Page, Address, Initial, InboxOf
  <2> QED
    BY <2>4, <2>5, <2>6, RegisterMaps DEF OthersUnchanging
<1> HIDE DEF Unchanging, Status, Contact, Page, Address, Initial, InboxOf
<1> QED
  BY <1>e, <1>1, <1>2, <1>3 DEF InsertRegistrationEffect

LEMMA ApproveImplements ==
  ASSUME IInv, NEW w \in Worker, ApproveCommit(w)
  PROVE  \E r \in Registration, s \in Slug : Abstract!Approve(r, s)
<1>1. ApproveCommitEffect(w)
  BY ApproveCommitFacts
<1>r. PICK r \in Registration, c \in Company, u \in User, s \in Slug :
        r = op[w].reg /\ c = op[w].company /\ u = op[w].user /\ s = Candidate(w)
  BY <1>1 DEF ApproveCommitEffect
<1> USE DEF Unchanging, Status, Contact, Page, Address, Initial, InboxOf
<1>2. /\ r \in Registration /\ registration[r].status = "pending"
      /\ c \in Company /\ company[c] = None /\ u \in User /\ user[u] = NoUser
      /\ s \in Slug /\ ~ SlugInUse(s) /\ ~ EmailInUse(registration[r].email)
      /\ registration[r].email \in Email
  BY <1>1, <1>r DEF ApproveCommitEffect
<1>3. /\ registration'[r] = Row("approved", registration[r].email,
                                registration[r].name, c, u)
      /\ company'[c] = s /\ user'[u] = Login(registration[r].email, c, TRUE)
      /\ \A q \in Registration \ {r} : registration'[q] = registration[q]
      /\ \A d \in Company \ {c} : company'[d] = company[d]
      /\ \A v \in User \ {u} : user'[v] = user[v]
      /\ quotes' = quotes
  BY <1>1, <1>r, <1>2 DEF ApproveCommitEffect, IInv, TypeOK
<1>4. r \notin Approved /\ r \in Approved' /\ Approved' = Approved \cup {r}
  BY <1>2, <1>3 DEF Approved, Row
<1>5. \A q \in Approved : /\ registration[q].company \in Company \ {c}
                          /\ registration[q].user \in User \ {u}
  <2> SUFFICES ASSUME NEW q \in Approved
               PROVE  /\ registration[q].company \in Company \ {c}
                      /\ registration[q].user \in User \ {u}
    OBVIOUS
  <2>1. /\ registration[q].company \in Company
        /\ company[registration[q].company] # None
        /\ registration[q].user \in User
        /\ user[registration[q].user].company = registration[q].company
    BY DEF IInv, AccountsMatchApprovals
  <2> QED
    BY <1>2, <2>1, ConstantsAssumption DEF NoUser
<1>6. \A q \in Registration \ {r} : Unchanging(q)
  BY <1>3, <1>4, <1>5
<1>7. \A q \in Registration : Page(q) # s /\ Address(q) # Contact(r)
  <2>1. \A q \in Approved : Page(q) # s /\ Address(q) # Contact(r)
    BY <1>2, <1>5 DEF SlugInUse, EmailInUse
  <2>2. None # s /\ None # registration[r].email
    BY <1>2, ConstantsAssumption
  <2> QED
    BY <2>1, <2>2
<1>8. Contact(r) \notin AdminEmail
  BY <1>2 DEF EmailInUse
<1>9. quotes[c] = 0
  BY <1>2 DEF IInv, QuotesHaveCompany, TypeOK
<1>10. /\ Status(r) = "pending" /\ Status(r)' = "approved"
       /\ Contact(r)' = Contact(r) /\ Page(r)' = s
       /\ Address(r)' = Contact(r) /\ Initial(r)' = TRUE
       /\ InboxOf(r)' = InboxOf(r)
  BY <1>2, <1>3, <1>4, <1>9 DEF Row, Login
<1> HIDE DEF Unchanging, Status, Contact, Page, Address, Initial, InboxOf
<1>11. Abstract!Approve(r, s)
  BY <1>2, <1>6, <1>7, <1>8, <1>10, ApproveMaps DEF OthersUnchanging
<1> QED
  BY <1>2, <1>11

LEMMA RejectImplements ==
  ASSUME IInv, NEW w \in Worker, Reject(w)
  PROVE  \/ \A q \in Registration : Unchanging(q)
         \/ \E r \in Registration : Abstract!Reject(r)
<1>1. RejectEffect(w)
  BY RejectFacts
<1>r. PICK r \in Registration : r = op[w].reg
  BY <1>1 DEF RejectEffect
<1> DEFINE x == registration[r]
<1> USE DEF Unchanging, Status, Contact, Page, Address, Initial, InboxOf
<1>2. CASE UNCHANGED registration
  BY <1>1, <1>2 DEF RejectEffect, Approved
<1>3. CASE ~ UNCHANGED registration
  <2>1. /\ r \in Registration /\ x.status = "pending"
        /\ registration'[r] = Row("rejected", x.email, x.name, x.company, x.user)
        /\ \A q \in Registration \ {r} : registration'[q] = registration[q]
        /\ UNCHANGED <<company, user, quotes>>
    BY <1>1, <1>r, <1>3 DEF RejectEffect, IInv, TypeOK
  <2>2. r \notin Approved /\ Approved' = Approved
    BY <2>1 DEF Approved, Row
  <2>3. \A q \in Registration \ {r} : Unchanging(q)
    BY <2>1, <2>2
  <2>4. /\ Status(r) = "pending" /\ Status(r)' = "rejected"
        /\ Contact(r)' = Contact(r) /\ Page(r)' = Page(r)
        /\ Address(r)' = Address(r) /\ Initial(r)' = Initial(r)
        /\ InboxOf(r)' = InboxOf(r)
    BY <2>1, <2>2 DEF Row
  <2> HIDE DEF Unchanging, Status, Contact, Page, Address, Initial, InboxOf
  <2> QED
    BY <2>1, <2>3, <2>4, RejectMaps DEF OthersUnchanging
<1> QED
  BY <1>2, <1>3

LEMMA DeleteImplements ==
  ASSUME IInv, NEW w \in Worker, DeleteCommit(w)
  PROVE  \E r \in Registration : Abstract!Delete(r)
<1>1. DeleteCommitEffect(w)
  BY DeleteCommitFacts
<1>r. PICK r \in Registration, c \in Company : r = op[w].reg /\ c = op[w].company
  BY <1>1 DEF DeleteCommitEffect
<1> USE DEF Unchanging, Status, Contact, Page, Address, Initial, InboxOf
<1>2. /\ r \in Registration /\ registration[r].status = "approved"
      /\ c \in Company /\ c = registration[r].company /\ r \in Approved
  BY <1>1, <1>r DEF DeleteCommitEffect, Approved
<1>3. /\ registration'[r] = Row("deleted", None, None, None, None)
      /\ \A q \in Registration \ {r} : registration'[q] = registration[q]
      /\ \A d \in Company \ {c} : company'[d] = company[d] /\ quotes'[d] = quotes[d]
      /\ \A v \in User : user[v].company # c => user'[v] = user[v]
  BY <1>1, <1>r, <1>2 DEF DeleteCommitEffect, IInv, TypeOK
<1>4. r \notin Approved' /\ Approved' = Approved \ {r}
  BY <1>2, <1>3 DEF Approved, Row
<1>5. \A q \in Approved \ {r} :
        /\ registration[q].company \in Company \ {c}
        /\ registration[q].user \in User
        /\ user[registration[q].user].company # c
  BY <1>2 DEF IInv, AccountsMatchApprovals
<1>6. \A q \in Registration \ {r} : Unchanging(q)
  BY <1>3, <1>4, <1>5
<1>7. /\ Status(r) = "approved" /\ Status(r)' = "deleted" /\ Contact(r)' = None
      /\ Page(r)' = None /\ Address(r)' = None /\ Initial(r)' = FALSE
      /\ InboxOf(r)' = 0
  BY <1>2, <1>3, <1>4 DEF Row
<1> HIDE DEF Unchanging, Status, Contact, Page, Address, Initial, InboxOf
<1> QED
  BY <1>2, <1>6, <1>7, DeleteMaps DEF OthersUnchanging

(* The one approved application behind a login or a company.               *)
LEMMA UserOfOne ==
  ASSUME IInv, NEW r \in Approved, NEW q \in Approved, q # r
  PROVE  /\ registration[q].user \in User /\ registration[q].company \in Company
         /\ registration[q].user # registration[r].user
         /\ registration[q].company # registration[r].company
BY DEF IInv, AccountsMatchApprovals

(* A new value of the flag of an application's login.                      *)
LEMMA InitialChanges ==
  ASSUME IInv, NEW r \in Approved, NEW b \in BOOLEAN,
         user' = [user EXCEPT ![registration[r].user] =
           Login(user[registration[r].user].email, user[registration[r].user].company, b)],
         UNCHANGED <<registration, company, quotes>>
  PROVE  /\ OthersUnchanging(r) /\ Status(r)' = Status(r) /\ Contact(r)' = Contact(r)
         /\ Page(r)' = Page(r) /\ Address(r)' = Address(r)
         /\ InboxOf(r)' = InboxOf(r) /\ Initial(r)' = b
<1> USE DEF Unchanging, Status, Contact, Page, Address, Initial, InboxOf
<1>u. PICK u \in User : u = registration[r].user
  BY DEF IInv, AccountsMatchApprovals
<1>1. r \in Registration
  BY DEF Approved
<1>2. user'[u] = Login(user[u].email, user[u].company, b)
  BY <1>u DEF IInv, TypeOK
<1>3. \A v \in User \ {u} : user'[v] = user[v]
  BY <1>u DEF IInv, TypeOK
<1>4. Approved' = Approved
  BY DEF Approved
<1>5. \A q \in Approved : q # r => registration[q].user \in User \ {u}
  BY <1>u, UserOfOne
<1>6. OthersUnchanging(r)
  <2> SUFFICES ASSUME NEW q \in Registration \ {r} PROVE Unchanging(q)
    BY DEF OthersUnchanging
  <2>1. q \in Approved => user'[registration[q].user] = user[registration[q].user]
    BY <1>3, <1>5
  <2>2. UNCHANGED <<registration, company, quotes>>
    OBVIOUS
  <2>3. CASE q \in Approved
    BY <1>4, <2>1, <2>2, <2>3
  <2>4. CASE q \notin Approved
    BY <1>4, <2>2, <2>4
  <2> QED
    BY <2>3, <2>4
<1> QED
  BY <1>u, <1>2, <1>4, <1>6 DEF Login

LEMMA ResendImplements ==
  ASSUME IInv, NEW w \in Worker, ResendCommit(w)
  PROVE  \E r \in Registration : Abstract!Reissue(r)
<1>1. ResendCommitEffect(w)
  BY ResendCommitFacts
<1>r. PICK r \in Registration : r = op[w].reg
  BY <1>1 DEF ResendCommitEffect
<1>2. r \in Registration /\ r \in Approved /\ Status(r) = "approved"
  BY <1>1, <1>r DEF ResendCommitEffect, Approved, Status
<1>3. /\ OthersUnchanging(r) /\ Status(r)' = Status(r) /\ Contact(r)' = Contact(r)
      /\ Page(r)' = Page(r) /\ Address(r)' = Address(r)
      /\ InboxOf(r)' = InboxOf(r) /\ Initial(r)' = TRUE
  BY <1>1, <1>r, <1>2, InitialChanges DEF ResendCommitEffect
<1> QED
  BY <1>2, <1>3, InitialMaps

LEMMA ChangeImplements ==
  ASSUME IInv, NEW u \in User, ChangePassword(u)
  PROVE  \E r \in Registration : Abstract!ChangePassword(r)
<1>1. ChangePasswordEffect(u)
  BY ChangePasswordFacts
<1>2. PICK r \in Approved : registration[r].user = u
  BY <1>1 DEF ChangePasswordEffect, IInv, AccountsMatchApprovals
<1>3. r \in Registration /\ Initial(r)
  BY <1>2 DEF Approved, Initial, ChangePassword
<1>4. /\ OthersUnchanging(r) /\ Status(r)' = Status(r) /\ Contact(r)' = Contact(r)
      /\ Page(r)' = Page(r) /\ Address(r)' = Address(r)
      /\ InboxOf(r)' = InboxOf(r) /\ Initial(r)' = FALSE
  BY <1>1, <1>2, InitialChanges DEF ChangePasswordEffect
<1> QED
  BY <1>3, <1>4, InitialMaps

LEMMA QuoteImplements ==
  ASSUME IInv, NEW c \in Company, PostQuote(c)
  PROVE  \E r \in Registration : Abstract!Quote(r)
<1> USE DEF Unchanging, Status, Contact, Page, Address, Initial, InboxOf
<1>1. PICK r \in Approved : registration[r].company = c
  BY DEF PostQuote, IInv, AccountsMatchApprovals
<1>2. /\ UNCHANGED <<registration, company, user>>
      /\ quotes'[c] = quotes[c] + 1
      /\ \A d \in Company \ {c} : quotes'[d] = quotes[d]
  BY DEF PostQuote, IInv, TypeOK
<1>3. Approved' = Approved
  BY <1>2 DEF Approved
<1>4. r \in Registration /\ Status(r) = "approved"
  BY DEF Approved
<1>5. \A q \in Approved : q # r => registration[q].company \in Company \ {c}
  BY <1>1, UserOfOne
<1>6. OthersUnchanging(r)
  BY <1>2, <1>3, <1>5 DEF OthersUnchanging
<1>7. /\ InboxOf(r)' = InboxOf(r) + 1
      /\ Status(r)' = Status(r) /\ Contact(r)' = Contact(r) /\ Page(r)' = Page(r)
      /\ Address(r)' = Address(r) /\ Initial(r)' = Initial(r)
  BY <1>1, <1>2, <1>3
<1> HIDE DEF Unchanging, Status, Contact, Page, Address, Initial, InboxOf
<1> QED
  BY <1>4, <1>6, <1>7, QuoteMaps

LEMMA StepImplements ==
  ASSUME IInv, PendingIndex, Next
  PROVE  [Abstract!Next]_(Abstract!vars)
<1>1. ASSUME UNCHANGED <<registration, company, user, quotes>>
      PROVE  \A q \in Registration : Unchanging(q)
  BY <1>1 DEF Unchanging, Status, Contact, Page, Address, Initial, InboxOf, Approved
<1>2. ASSUME NEW w \in Worker, Quiet(w)
      PROVE  UNCHANGED Abstract!vars
  BY <1>1, <1>2, QuietStep, Stutter
<1>3. ASSUME NEW w \in Worker, InsertRegistration(w)
      PROVE  [Abstract!Next]_(Abstract!vars)
  BY <1>3, RegisterImplements, Stutter DEF Abstract!Next
<1>4. ASSUME NEW w \in Worker, ApproveCommit(w)
      PROVE  Abstract!Next
  BY <1>4, ApproveImplements DEF Abstract!Next
<1>5. ASSUME NEW w \in Worker, Reject(w)
      PROVE  [Abstract!Next]_(Abstract!vars)
  BY <1>5, RejectImplements, Stutter DEF Abstract!Next
<1>6. ASSUME NEW w \in Worker, DeleteCommit(w)
      PROVE  Abstract!Next
  BY <1>6, DeleteImplements DEF Abstract!Next
<1>7. ASSUME NEW w \in Worker, ResendCommit(w)
      PROVE  Abstract!Next
  BY <1>7, ResendImplements DEF Abstract!Next
<1>8. ASSUME NEW c \in Company, PostQuote(c)
      PROVE  Abstract!Next
  BY <1>8, QuoteImplements DEF Abstract!Next
<1>9. ASSUME NEW u \in User, ChangePassword(u)
      PROVE  Abstract!Next
  BY <1>9, ChangeImplements DEF Abstract!Next
<1>10. CASE Crash
  BY <1>1, <1>10, Stutter DEF Crash
<1> QED
  BY Cases, <1>2, <1>3, <1>4, <1>5, <1>6, <1>7, <1>8, <1>9, <1>10

(* The handlers of registration and administration, statement by statement *)
(* and with failures, lost acknowledgements and crashes, do what Onboarding *)
(* promises in single steps, on a database with the index of migration 011. *)
THEOREM Implements == PendingIndex /\ Spec => ImplementsOnboarding
<1>1. Init => Abstract!Init
  BY DEF Init, Abstract!Init, NoRegistration, Row, Approved
<1>2. CASE PendingIndex
  <2>1. IInv /\ [Next]_vars => [Abstract!Next]_(Abstract!vars)
    <3>1. CASE UNCHANGED vars
      <4>1. \A q \in Registration : Unchanging(q)
        BY <3>1 DEF vars, Unchanging, Status, Contact, Page, Address, Initial,
          InboxOf, Approved
      <4> QED
        BY <4>1, Stutter
    <3> QED
      BY <1>2, <3>1, StepImplements
  <2> QED
    BY <1>1, <2>1, Invariant, PTL DEF Spec, ImplementsOnboarding, Abstract!Spec
<1> QED
  BY <1>2
=============================================================================
