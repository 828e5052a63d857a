------------------------- MODULE CredentialDelivery -------------------------
(***************************************************************************)
(* What happens after an approval or a resend has committed: the handler   *)
(* starts a goroutine that mails the initial password, waits for it twelve *)
(* seconds at most, and the goroutine writes the outcome to the            *)
(* application's email_status (AdminHandler.deliverBounded, Mailer.send,   *)
(* AdminRepo.SetEmailStatus).  Deliveries of one application are numbered  *)
(* in the order in which their passwords were committed.                   *)
(***************************************************************************)
EXTENDS Naturals

CONSTANTS
  MaxDelivery,  \* bound: approval and resends of one application
  Providers     \* the mail configurations a process may start with

ASSUME DeliveryAssumption ==
  MaxDelivery \in Nat /\ Providers \subseteq {"resend", "smtp", "none"}

Delivery == 1..MaxDelivery
Results  == {"sent", "failed", "logged"}

VARIABLES
  provider,   \* the configuration of the running process
  account,    \* the application is still there
  issued,     \* the number of the password in users.password_hash
  handler,    \* where each request is, or what it answered
  goroutine,  \* where each sending goroutine is
  result,     \* what Mailer.send returned to it
  done,       \* its channel, of capacity one, holds the result
  status,     \* provider_registrations.email_status
  by,         \* history: the delivery that wrote status
  saved,      \* history: the deliveries that tried to write it
  unsaved,    \* history: those of them whose write failed
  accepted    \* deliveries whose message the mail server took

deliveryVars == <<provider, account, issued, handler, goroutine, result, done,
          status, by, saved, unsaved, accepted>>
row == <<account, issued>>
log == <<status, by, saved, unsaved>>

DeliveryInit ==
  /\ provider \in Providers
  /\ account = TRUE
  /\ issued = 0
  /\ handler   = [d \in Delivery |-> "none"]
  /\ goroutine = [d \in Delivery |-> "none"]
  /\ result    = [d \in Delivery |-> "none"]
  /\ done      = [d \in Delivery |-> FALSE]
  /\ status = "none" /\ by = 0
  /\ saved = {} /\ unsaved = {} /\ accepted = {}

-----------------------------------------------------------------------------
(* The handler: a password is committed, then its delivery starts.         *)
Issue(d) ==
  /\ account /\ d = issued + 1
  /\ issued' = d
  /\ handler' = [handler EXCEPT ![d] = "waiting"]
  /\ goroutine' = [goroutine EXCEPT ![d] = "sending"]
  /\ UNCHANGED <<provider, account, result, done, log, accepted>>

Receive(d) ==
  /\ handler[d] = "waiting" /\ done[d]
  /\ handler' = [handler EXCEPT ![d] = result[d]]
  /\ done' = [done EXCEPT ![d] = FALSE]
  /\ UNCHANGED <<provider, row, goroutine, result, log, accepted>>

(* Mutant: <-done without the time.After of emailWaitTimeout.              *)
TimeoutMissing(d) == FALSE /\ UNCHANGED deliveryVars

Timeout(d) ==
  /\ handler[d] = "waiting"
  /\ handler' = [handler EXCEPT ![d] = "pending"]
  /\ UNCHANGED <<provider, row, goroutine, result, done, log, accepted>>

-----------------------------------------------------------------------------
(* The goroutine.  Mailer.send and smtpSend up to the end of DATA.         *)
Finish(d, r) ==
  /\ goroutine' = [goroutine EXCEPT ![d] = "saving"]
  /\ result' = [result EXCEPT ![d] = r]

(* Mutant: a mail that nothing sent counts as sent.                        *)
LogAsSent(d) ==
  /\ goroutine[d] = "sending" /\ provider = "none"
  /\ Finish(d, "sent")
  /\ UNCHANGED <<provider, row, handler, done, log, accepted>>

Log(d) ==
  /\ goroutine[d] = "sending" /\ provider = "none"
  /\ Finish(d, "logged")
  /\ UNCHANGED <<provider, row, handler, done, log, accepted>>

SendFails(d) ==
  /\ goroutine[d] = "sending" /\ provider # "none"
  /\ Finish(d, "failed")
  /\ UNCHANGED <<provider, row, handler, done, log, accepted>>

Accept(d) ==
  /\ goroutine[d] = "sending" /\ provider # "none"
  /\ goroutine' = [goroutine EXCEPT ![d] = "accepted"]
  /\ accepted' = accepted \cup {d}
  /\ UNCHANGED <<provider, row, handler, result, done, log>>

(* Mutant: the result goes to the channel before it goes to the table.     *)
ConfirmReports(d) ==
  /\ goroutine[d] = "accepted"
  /\ Finish(d, "sent")
  /\ done' = [done EXCEPT ![d] = TRUE]
  /\ UNCHANGED <<provider, row, handler, log, accepted>>

(* The server has the message; its reply, or the QUIT, may still fail, and *)
(* the delivery is then reported as failed.                                *)
Confirm(d) ==
  /\ goroutine[d] = "accepted"
  /\ \E r \in {"sent", "failed"} : Finish(d, r)
  /\ UNCHANGED <<provider, row, handler, done, log, accepted>>

(* SetEmailStatus: an UPDATE by id, whose failure is only logged.          *)
Save(d) ==
  /\ goroutine[d] = "saving"
  /\ goroutine' = [goroutine EXCEPT ![d] = "reporting"]
  /\ saved' = saved \cup {d}
  /\ \/ account /\ status' = result[d] /\ by' = d /\ UNCHANGED unsaved
     \/ ~ account /\ UNCHANGED <<status, by, unsaved>>
     \/ UNCHANGED <<status, by>> /\ unsaved' = unsaved \cup {d}
  /\ UNCHANGED <<provider, row, handler, result, done, accepted>>

(* Mutant: a channel without a buffer.                                     *)
ReportUnbuffered(d) ==
  /\ goroutine[d] = "reporting" /\ handler[d] = "waiting"
  /\ goroutine' = [goroutine EXCEPT ![d] = "ended"]
  /\ done' = [done EXCEPT ![d] = TRUE]
  /\ UNCHANGED <<provider, row, handler, result, log, accepted>>

Report(d) ==
  /\ goroutine[d] = "reporting" /\ ~ done[d]
  /\ goroutine' = [goroutine EXCEPT ![d] = "ended"]
  /\ done' = [done EXCEPT ![d] = TRUE]
  /\ UNCHANGED <<provider, row, handler, result, log, accepted>>

-----------------------------------------------------------------------------
(* DeleteApprovedCompanyByRegistration removes the row the status is in.   *)
DeleteAccount ==
  /\ account /\ issued > 0
  /\ account' = FALSE
  /\ UNCHANGED <<provider, issued, handler, goroutine, result, done, log,
                 accepted>>

(* The process dies and starts again, reading its configuration.           *)
Crash ==
  /\ handler' = [d \in Delivery |->
                   IF handler[d] = "waiting" THEN "lost" ELSE handler[d]]
  /\ goroutine' = [d \in Delivery |->
                     IF goroutine[d] \in {"none", "ended"} THEN goroutine[d]
                                                           ELSE "lost"]
  /\ done' = [d \in Delivery |-> FALSE]
  /\ provider' \in Providers
  /\ UNCHANGED <<row, result, log, accepted>>

Answer(d) == Receive(d) \/ Timeout(d)
Work(d) == Log(d) \/ SendFails(d) \/ Accept(d) \/ Confirm(d) \/ Save(d) \/ Report(d)

DeliveryNext ==
  \/ \E d \in Delivery : Issue(d) \/ Answer(d) \/ Work(d)
  \/ DeleteAccount
  \/ Crash

DeliverySpec == DeliveryInit /\ [][DeliveryNext]_deliveryVars

(* A goroutine that can run does run; time.After fires.  Nothing is said   *)
(* of the goroutine that sends: a mail server may take it any time.        *)
DeliveryFairSpec == DeliverySpec /\ \A d \in Delivery : WF_deliveryVars(Answer(d))

-----------------------------------------------------------------------------
DeliveryTypeOK ==
  /\ provider \in Providers /\ account \in BOOLEAN /\ issued \in 0..MaxDelivery
  /\ handler \in [Delivery -> {"none", "waiting", "pending", "lost"} \cup Results]
  /\ goroutine \in [Delivery -> {"none", "sending", "accepted", "saving",
                                 "reporting", "ended", "lost"}]
  /\ result \in [Delivery -> {"none"} \cup Results]
  /\ done \in [Delivery -> BOOLEAN]
  /\ status \in {"none"} \cup Results /\ by \in 0..MaxDelivery
  /\ saved \subseteq Delivery /\ unsaved \subseteq Delivery
  /\ accepted \subseteq Delivery

(* "sent", in the table or in an answer, is never said of a message that   *)
(* no mail server took, whatever crashes, deletes and timeouts come first. *)
SentIsTrue ==
  /\ status = "sent" => by \in accepted
  /\ \A d \in Delivery : handler[d] = "sent" => d \in accepted

(* An answer that gives a result is never ahead of the list of             *)
(* applications: the goroutine has written the result, or failed to.       *)
AnswerIsRecorded ==
  \A d \in Delivery : handler[d] \in Results => d \in saved

(* The inductive invariant of the proofs: what is on its way is as true.   *)
Underway ==
  \A d \in Delivery :
    /\ goroutine[d] = "accepted" => d \in accepted
    /\ result[d] = "sent" => d \in accepted
    /\ done[d] => d \in saved /\ result[d] \in Results
    /\ goroutine[d] = "reporting" => d \in saved
    /\ goroutine[d] \in {"saving", "reporting"} => result[d] \in Results
DeliveryInv == DeliveryTypeOK /\ SentIsTrue /\ AnswerIsRecorded /\ Underway

(* The administrator gets the initial password of a company that was       *)
(* created even if the mail server never answers.                          *)
AdminIsAnswered ==
  \A d \in Delivery : handler[d] = "waiting" ~> handler[d] # "waiting"

(* A sending goroutine ends even when its handler has left at the timeout, *)
(* as long as the mail server's calls end (they all have deadlines).       *)
NoGoroutineLeaks ==
  (\A d \in Delivery : WF_deliveryVars(Work(d))) =>
    \A d \in Delivery :
      goroutine[d] # "none" ~> goroutine[d] \in {"ended", "lost"}

(* SetEmailStatus persists the outcome "de acceso" so that it can be seen  *)
(* later "si llego o no" (admin_repo.go 299-301): with every goroutine     *)
(* ended, every write made, "sent" says that the password that is valid    *)
(* now was mailed.                                                         *)
SentIsCurrent ==
  /\ \A d \in Delivery : goroutine[d] \in {"none", "ended"}
  /\ unsaved = {} /\ account /\ status = "sent"
  => issued \in accepted
=============================================================================
