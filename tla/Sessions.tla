------------------------------- MODULE Sessions -------------------------------
(***************************************************************************)
(* Logins, tokens and passwords of one account (AuthHandler, AuthRepo,     *)
(* middleware.Auth), while an administrator may issue a new initial        *)
(* password or delete the company.  A token is signed from a row read      *)
(* earlier, and is believed until it expires: nothing revokes it.          *)
(***************************************************************************)
EXTENDS Naturals

CONSTANTS
  Chosen,    \* passwords that the user may choose; initial ones are numbers
  Request,   \* logins and changes of password in progress at a time
  Lifetime,  \* of a token: 72 hours
  MaxReset,  \* bound: initial passwords issued after the first
  MaxTime    \* bound: the clock stops there

Initial  == 0..MaxReset
Password == Initial \cup Chosen
None == "none"

ASSUME SessionsAssumption ==
  /\ Lifetime \in Nat \ {0} /\ MaxReset \in Nat /\ MaxTime \in Nat
  /\ Chosen \cap Initial = {} /\ None \notin Request

VARIABLES
  now,
  account,   \* the row of users is there
  password,  \* users.password_hash
  must,      \* users.must_change_password
  issued,    \* the initial password that the administrator was last given
  tokens,    \* the tokens signed and not expired
  request,   \* for each request: its step and the claims it will sign
  writer,    \* history: the request that wrote password_hash last, or none
  own        \* history: a change of password has been written

vars == <<now, account, password, must, issued, tokens, request, writer, own>>
user == <<account, password, must, issued, writer, own>>

Token(flag) == [must |-> flag, exp |-> now + Lifetime]

(* Mutant: the routes of the admin and of the account are not exempt.      *)
ExemptNone == {}

(* passwordChangeExemptRoutes, those of "me" left out.                     *)
Exempt == {"change-password"}

(* middleware.Auth, for a token in tokens: the account is not looked up.   *)
Admits(t, route) == t.must => route \in Exempt
Idle == [step |-> "idle", must |-> TRUE, new |-> 0, made |-> FALSE]

Init ==
  /\ now = 0
  /\ account = TRUE /\ password = 0 /\ must = TRUE /\ issued = 0
  /\ tokens = {}
  /\ request = [r \in Request |-> Idle]
  /\ writer = None /\ own = FALSE

At(r, step) == request[r].step = step
Set(r, step, flag, new, made) ==
  request' = [request EXCEPT ![r] = [step |-> step, must |-> flag, new |-> new, made |-> made]]
Answer(r) == request' = [request EXCEPT ![r] = Idle]

-----------------------------------------------------------------------------
(* Mutant: the claim mustChangePassword is left out of the login's token.  *)
LoginUnflagged(r) ==
  /\ At(r, "idle") /\ account
  /\ Set(r, "login", FALSE, 0, FALSE)
  /\ UNCHANGED <<now, user, tokens>>

(* login: the row is read and the password given is the right one (another *)
(* changes nothing).                                                       *)
Login(r) ==
  /\ At(r, "idle") /\ account
  /\ Set(r, "login", must, 0, FALSE)
  /\ UNCHANGED <<now, user, tokens>>

(* SignedString: of a login with the flag that was read, of a change with  *)
(* none; 72 hours from here.                                               *)
Sign(r) ==
  /\ At(r, "login") \/ At(r, "changed")
  /\ tokens' = tokens \cup {Token(request[r].must)}
  /\ Answer(r)
  /\ UNCHANGED <<now, user>>

(* ChangePassword: the current password is checked; the new one may be any *)
(* of eight characters, the current one too.                               *)
CheckPassword(r, new) ==
  /\ At(r, "idle") /\ account /\ \E t \in tokens : Admits(t, "change-password")
  /\ Set(r, "change", FALSE, new, FALSE)
  /\ UNCHANGED <<now, user, tokens>>

(* Mutant: SET password_hash = $1, and the flag stays.                     *)
WriteHashOnly(r) ==
  /\ At(r, "change")
  /\ IF account
     THEN password' = request[r].new /\ writer' = r /\ own' = TRUE
     ELSE UNCHANGED <<password, writer, own>>
  /\ Set(r, "changed", FALSE, request[r].new, account)
  /\ UNCHANGED <<now, account, must, issued, tokens>>

(* UPDATE users ... WHERE id: no row is no error.                          *)
WritePassword(r) ==
  /\ At(r, "change")
  /\ IF account
     THEN password' = request[r].new /\ must' = FALSE /\ writer' = r /\ own' = TRUE
     ELSE UNCHANGED <<password, must, writer, own>>
  /\ Set(r, "changed", FALSE, request[r].new, account)
  /\ UNCHANGED <<now, account, issued, tokens>>

(* Mutant: the error of the UPDATE is only logged.                         *)
WriteFailsUnseen(r) ==
  /\ At(r, "change")
  /\ Set(r, "changed", FALSE, request[r].new, FALSE)
  /\ UNCHANGED <<now, user, tokens>>

WriteFails(r) ==
  /\ At(r, "change")
  /\ Answer(r)
  /\ UNCHANGED <<now, user, tokens>>

-----------------------------------------------------------------------------
(* ResetInitialPassword, as it commits.                                    *)
Reset ==
  /\ account /\ issued < MaxReset
  /\ issued' = issued + 1 /\ password' = issued' /\ must' = TRUE
  /\ writer' = None
  /\ UNCHANGED <<now, account, tokens, request, own>>

DeleteAccount ==
  /\ account /\ account' = FALSE
  /\ UNCHANGED <<now, password, must, issued, tokens, request, writer, own>>

Crash ==
  /\ request' = [r \in Request |-> Idle]
  /\ UNCHANGED <<now, user, tokens>>

Tick ==
  /\ now < MaxTime /\ now' = now + 1
  /\ tokens' = {t \in tokens : t.exp > now'}
  /\ UNCHANGED <<user, request>>

Change(r) == \E new \in Password : CheckPassword(r, new)

Next == \/ \E r \in Request : Login(r) \/ Sign(r) \/ Change(r) \/ WritePassword(r) \/ WriteFails(r)
        \/ Reset
        \/ DeleteAccount
        \/ Crash
        \/ Tick

Spec == Init /\ [][Next]_vars

(* A user who keeps trying, on a server that does not fail each time.      *)
FairSpec == /\ Spec
            /\ SF_vars(\E r \in Request : Login(r))
            /\ SF_vars(\E r \in Request : Change(r))
            /\ \A r \in Request : SF_vars(Sign(r)) /\ SF_vars(WritePassword(r))

-----------------------------------------------------------------------------
TypeOK ==
  /\ now \in 0..MaxTime /\ account \in BOOLEAN
  /\ password \in Password /\ must \in BOOLEAN /\ issued \in Initial
  /\ tokens \subseteq [must : BOOLEAN, exp : (now + 1)..(now + Lifetime)]
  /\ request \in [Request -> [step : {"idle", "login", "change", "changed"},
                              must : BOOLEAN, new : Password, made : BOOLEAN]]
  /\ writer \in Request \cup {None} /\ own \in BOOLEAN

(* The panel of an account opens only after its password was changed once  *)
(* (README 98), whatever resets and changes come between the reading of a  *)
(* row and the signing of a token.  Not so without the account: a change   *)
(* whose UPDATE finds no row is answered with a token for the panel.       *)
PanelAfterChange == account /\ (\E t \in tokens : Admits(t, "panel")) => own

(* While the flag is up, the initial password that the administrator was   *)
(* last given opens the account: no change in progress leaves its password *)
(* under a flag, or the flag under its password.                           *)
FlagGoesWithPassword == must => password = issued

(* A change of password that is answered was made: only a later write, or  *)
(* the end of the account, can have undone it.                             *)
AnsweredChangeWasMade ==
  \A r \in Request : At(r, "changed") /\ account =>
    /\ request[r].made
    /\ writer = r => password = request[r].new /\ ~ must

(* A user whose flag is up can always put it down (auth.go 11-14): no      *)
(* token, reset or crash shuts the user out for good.                      *)
NoLockout == must ~> ~ must \/ ~ account

(* The inductive invariant of the proofs: what a request has read, and may *)
(* sign, opens the panel no sooner than the tokens there are.              *)
ChangedOnce ==
  account => /\ ~ must => own
             /\ \A r \in Request : At(r, "login") /\ ~ request[r].must => own
             /\ \A r \in Request : At(r, "changed") => own
Underway == \A r \in Request : At(r, "change") \/ At(r, "changed") => ~ request[r].must
SessionsInv == /\ TypeOK /\ PanelAfterChange /\ FlagGoesWithPassword
               /\ AnsweredChangeWasMade /\ ChangedOnce /\ Underway
=============================================================================
