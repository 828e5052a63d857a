----------------------------- MODULE Onboarding -----------------------------
(***************************************************************************)
(* What the platform promises about a provider's application: a request   *)
(* is filed, an administrator decides it once, and an approval opens an    *)
(* account -- a public page, a login and an inbox -- that appears and      *)
(* disappears as one thing.  Every operation is one step here; module      *)
(* Approval shows how the handlers and their transactions implement it.    *)
(***************************************************************************)
EXTENDS Naturals

CONSTANTS
  Registration,   \* ids of provider_registrations rows
  Email,          \* normalised addresses
  AdminEmail,     \* addresses that already log in as administrators
  Slug,           \* public addresses of company pages
  None            \* no value

VARIABLES
  status,   \* the state of each application
  contact,  \* the address each application was filed with
  page,     \* the public page an approved application owns
  login,    \* the address its provider logs in with
  initial,  \* that login still has the initial password the platform issued
  inbox     \* quotes waiting in the page's inbox

vars == <<status, contact, page, login, initial, inbox>>

Init ==
  /\ status  = [r \in Registration |-> "absent"]
  /\ contact = [r \in Registration |-> None]
  /\ page    = [r \in Registration |-> None]
  /\ login   = [r \in Registration |-> None]
  /\ initial = [r \in Registration |-> FALSE]
  /\ inbox   = [r \in Registration |-> 0]

(* A provider applies; an address has at most one application in review.   *)
Register(r, e) ==
  /\ status[r] = "absent"
  /\ \A q \in Registration : status[q] = "pending" => contact[q] # e
  /\ status' = [status EXCEPT ![r] = "pending"]
  /\ contact' = [contact EXCEPT ![r] = e]
  /\ UNCHANGED <<page, login, initial, inbox>>

(* Approval opens page, login and inbox together, under unused keys.       *)
Approve(r, s) ==
  /\ status[r] = "pending"
  /\ \A q \in Registration : page[q] # s /\ login[q] # contact[r]
  /\ contact[r] \notin AdminEmail
  /\ status' = [status EXCEPT ![r] = "approved"]
  /\ page'   = [page EXCEPT ![r] = s]
  /\ login'  = [login EXCEPT ![r] = contact[r]]
  /\ initial' = [initial EXCEPT ![r] = TRUE]
  /\ UNCHANGED <<contact, inbox>>

Reject(r) ==
  /\ status[r] = "pending"
  /\ status' = [status EXCEPT ![r] = "rejected"]
  /\ UNCHANGED <<contact, page, login, initial, inbox>>

(* A new initial password for a provider whose first one was lost.         *)
Reissue(r) ==
  /\ status[r] = "approved"
  /\ initial' = [initial EXCEPT ![r] = TRUE]
  /\ UNCHANGED <<status, contact, page, login, inbox>>

ChangePassword(r) ==
  /\ initial[r]
  /\ initial' = [initial EXCEPT ![r] = FALSE]
  /\ UNCHANGED <<status, contact, page, login, inbox>>

(* Removing an approved company removes everything approval opened.        *)
Delete(r) ==
  /\ status[r] = "approved"
  /\ status' = [status EXCEPT ![r] = "deleted"]
  /\ page'   = [page EXCEPT ![r] = None]
  /\ login'  = [login EXCEPT ![r] = None]
  /\ initial' = [initial EXCEPT ![r] = FALSE]
  /\ inbox'  = [inbox EXCEPT ![r] = 0]
  /\ contact' = [contact EXCEPT ![r] = None]

Quote(r) ==
  /\ status[r] = "approved"
  /\ inbox' = [inbox EXCEPT ![r] = @ + 1]
  /\ UNCHANGED <<status, contact, page, login, initial>>

Next ==
  \E r \in Registration :
    \/ \E e \in Email : Register(r, e)
    \/ \E s \in Slug : Approve(r, s)
    \/ Reject(r)
    \/ Reissue(r)
    \/ ChangePassword(r)
    \/ Delete(r)
    \/ Quote(r)

Spec == Init /\ [][Next]_vars
=============================================================================
