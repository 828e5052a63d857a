---------------------------- MODULE SessionsProofs ----------------------------
(***************************************************************************)
(* TLAPS proofs about Sessions, for any number of requests, passwords and  *)
(* resets and any lifetime of tokens.                                      *)
(***************************************************************************)
EXTENDS Sessions, TLAPS

Requests == [step : {"idle", "login", "change", "changed"},
             must : BOOLEAN, new : Password, made : BOOLEAN]

(* Only a record of the four fields is ever written.                       *)
LEMMA SetStep ==
  ASSUME TypeOK, NEW r \in Request, NEW step, NEW flag, NEW new, NEW made,
         Set(r, step, flag, new, made)
  PROVE  /\ request'[r] = [step |-> step, must |-> flag, new |-> new, made |-> made]
         /\ \A q \in Request : q # r => request'[q] = request[q]
BY DEF TypeOK, Set

LEMMA AnswerStep ==
  ASSUME TypeOK, NEW r \in Request, Answer(r)
  PROVE  /\ request'[r].step = "idle"
         /\ \A q \in Request : q # r => request'[q] = request[q]
BY DEF TypeOK, Answer, Idle

LEMMA InitialPasswords == Initial \subseteq Password /\ 0 \in Password
BY SessionsAssumption DEF Initial, Password

LEMMA InitInv == Init => SessionsInv
<1> SUFFICES ASSUME Init PROVE SessionsInv
  OBVIOUS
<1>1. TypeOK
  <2>1. 0 \in Initial /\ 0 \in 0..MaxTime
    BY SessionsAssumption DEF Initial
  <2>2. Idle \in Requests
    BY InitialPasswords DEF Idle, Requests
  <2> QED
    BY <2>1, <2>2, InitialPasswords DEF Init, TypeOK, Requests
<1>2. PanelAfterChange /\ FlagGoesWithPassword /\ AnsweredChangeWasMade /\ ChangedOnce /\ Underway
  BY DEF Init, PanelAfterChange, FlagGoesWithPassword, AnsweredChangeWasMade, ChangedOnce,
    Underway, At, Idle
<1> QED
  BY <1>1, <1>2 DEF SessionsInv

-----------------------------------------------------------------------------
(* Types.                                                                  *)
LEMMA TypeStep == TypeOK /\ [Next]_vars => TypeOK'
<1> SUFFICES ASSUME TypeOK, [Next]_vars PROVE TypeOK'
  OBVIOUS
<1> USE SessionsAssumption, InitialPasswords
<1>1. ASSUME NEW r \in Request, Login(r) PROVE TypeOK'
  BY <1>1 DEF TypeOK, Login, Set, user
<1>2. ASSUME NEW r \in Request, Sign(r) PROVE TypeOK'
  <2>1. Token(request[r].must) \in [must : BOOLEAN, exp : (now + 1)..(now + Lifetime)]
    BY DEF TypeOK, Token
  <2>2. tokens' \subseteq [must : BOOLEAN, exp : (now + 1)..(now + Lifetime)]
    BY <1>2, <2>1 DEF TypeOK, Sign
  <2>3. request' \in [Request -> Requests]
    BY <1>2 DEF TypeOK, Sign, Answer, Idle, Requests
  <2> QED
    BY <1>2, <2>2, <2>3 DEF TypeOK, Sign, user, Requests
<1>3. ASSUME NEW r \in Request, Change(r) PROVE TypeOK'
  BY <1>3 DEF TypeOK, Change, CheckPassword, Set, user
<1>4. ASSUME NEW r \in Request, WritePassword(r) PROVE TypeOK'
  BY <1>4 DEF TypeOK, WritePassword, Set
<1>5. ASSUME NEW r \in Request, WriteFails(r) PROVE TypeOK'
  BY <1>5 DEF TypeOK, WriteFails, Answer, Idle, user
<1>6. CASE Reset
  BY <1>6 DEF TypeOK, Reset, Initial, Password
<1>7. CASE DeleteAccount
  BY <1>7 DEF TypeOK, DeleteAccount
<1>8. CASE Crash
  BY <1>8 DEF TypeOK, Crash, Idle, user
<1>9. CASE Tick
  <2>1. ASSUME NEW t \in tokens' PROVE t \in [must : BOOLEAN, exp : (now' + 1)..(now' + Lifetime)]
    BY <1>9, <2>1 DEF TypeOK, Tick
  <2> QED
    BY <1>9, <2>1 DEF TypeOK, Tick, user
<1>10. CASE UNCHANGED vars
  BY <1>10 DEF TypeOK, vars
<1> QED
  BY <1>1, <1>2, <1>3, <1>4, <1>5, <1>6, <1>7, <1>8, <1>9, <1>10 DEF Next

-----------------------------------------------------------------------------
(* The rest of the invariant, action by action.                            *)
Rest == PanelAfterChange /\ FlagGoesWithPassword /\ AnsweredChangeWasMade /\ ChangedOnce /\ Underway

LEMMA RestStep == SessionsInv /\ TypeOK' /\ [Next]_vars => Rest'
<1> SUFFICES ASSUME SessionsInv, TypeOK', [Next]_vars PROVE Rest'
  OBVIOUS
<1> USE SessionsAssumption DEF SessionsInv, Rest
<1>1. ASSUME NEW r \in Request, Login(r) PROVE Rest'
  <2>1. /\ request'[r] = [step |-> "login", must |-> must, new |-> 0, made |-> FALSE]
        /\ \A q \in Request : q # r => request'[q] = request[q]
    BY <1>1, SetStep DEF Login
  <2> QED
    BY <1>1, <2>1 DEF Login, user, PanelAfterChange, FlagGoesWithPassword, AnsweredChangeWasMade,
      ChangedOnce, Underway, At, Admits
<1>2. ASSUME NEW r \in Request, Sign(r) PROVE Rest'
  <2>1. /\ request'[r].step = "idle"
        /\ \A q \in Request : q # r => request'[q] = request[q]
    BY <1>2, AnswerStep DEF Sign
  <2>2. PanelAfterChange'
    <3>1. account /\ ~ request[r].must => own
      BY <1>2 DEF Sign, ChangedOnce
    <3> QED
      BY <1>2, <3>1 DEF Sign, user, PanelAfterChange, Admits, Exempt, Token
  <2>3. (FlagGoesWithPassword /\ AnsweredChangeWasMade /\ ChangedOnce /\ Underway)'
    BY <1>2, <2>1 DEF Sign, user, FlagGoesWithPassword, AnsweredChangeWasMade, ChangedOnce,
      Underway, At
  <2> QED
    BY <2>2, <2>3
<1>3. ASSUME NEW r \in Request, Change(r) PROVE Rest'
  <2>1. PICK new \in Password : CheckPassword(r, new)
    BY <1>3 DEF Change
  <2>2. /\ request'[r] = [step |-> "change", must |-> FALSE, new |-> new, made |-> FALSE]
        /\ \A q \in Request : q # r => request'[q] = request[q]
    BY <2>1, SetStep DEF CheckPassword
  <2> QED
    BY <2>1, <2>2 DEF CheckPassword, user, PanelAfterChange, FlagGoesWithPassword,
      AnsweredChangeWasMade, ChangedOnce, Underway, At, Admits
<1>4. ASSUME NEW r \in Request, WritePassword(r) PROVE Rest'
  <2>1. /\ request'[r] = [step |-> "changed", must |-> FALSE, new |-> request[r].new, made |-> account]
        /\ \A q \in Request : q # r => request'[q] = request[q]
    BY <1>4, SetStep DEF WritePassword
  <2>2. CASE account
    <3>1. password' = request[r].new /\ ~ must' /\ writer' = r /\ own'
      BY <1>4, <2>2 DEF WritePassword
    <3> QED
      BY <1>4, <2>1, <2>2, <3>1 DEF WritePassword, PanelAfterChange, FlagGoesWithPassword,
        AnsweredChangeWasMade, ChangedOnce, Underway, At
  <2>3. CASE ~ account
    BY <1>4, <2>1, <2>3 DEF WritePassword, PanelAfterChange, FlagGoesWithPassword,
      AnsweredChangeWasMade, ChangedOnce, Underway, At
  <2> QED
    BY <2>2, <2>3
<1>5. ASSUME NEW r \in Request, WriteFails(r) PROVE Rest'
  <2>1. /\ request'[r].step = "idle"
        /\ \A q \in Request : q # r => request'[q] = request[q]
    BY <1>5, AnswerStep DEF WriteFails
  <2> QED
    BY <1>5, <2>1 DEF WriteFails, user, PanelAfterChange, FlagGoesWithPassword,
      AnsweredChangeWasMade, ChangedOnce, Underway, At, Admits
<1>6. CASE Reset
  BY <1>6 DEF Reset, PanelAfterChange, FlagGoesWithPassword, AnsweredChangeWasMade, ChangedOnce,
    Underway, At, Admits
<1>7. CASE DeleteAccount
  BY <1>7 DEF DeleteAccount, PanelAfterChange, FlagGoesWithPassword, AnsweredChangeWasMade,
    ChangedOnce, Underway, At
<1>8. CASE Crash
  <2>1. \A q \in Request : request'[q].step = "idle"
    BY <1>8 DEF Crash, Idle
  <2> QED
    BY <1>8, <2>1 DEF Crash, user, PanelAfterChange, FlagGoesWithPassword, AnsweredChangeWasMade,
      ChangedOnce, Underway, At, Admits
<1>9. CASE Tick
  BY <1>9 DEF Tick, user, PanelAfterChange, FlagGoesWithPassword, AnsweredChangeWasMade,
    ChangedOnce, Underway, At, Admits
<1>10. CASE UNCHANGED vars
  BY <1>10 DEF vars, PanelAfterChange, FlagGoesWithPassword, AnsweredChangeWasMade,
    ChangedOnce, Underway, At, Admits
<1> QED
  BY <1>1, <1>2, <1>3, <1>4, <1>5, <1>6, <1>7, <1>8, <1>9, <1>10 DEF Next

-----------------------------------------------------------------------------
(* The inductive invariant holds in every reachable state, whatever        *)
(* logins, changes, resets, deletes and crashes overlap.                   *)
THEOREM Invariant == Spec => []SessionsInv
<1>1. SessionsInv /\ [Next]_vars => SessionsInv'
  BY TypeStep, RestStep DEF SessionsInv, Rest
<1> QED
  BY InitInv, <1>1, PTL DEF Spec

(* The panel opens only after a change of password (auth.go 81-87 and the  *)
(* middleware): no overlap of logins and resets signs a token before.      *)
THEOREM Panel == Spec => []PanelAfterChange
<1>1. SessionsInv => PanelAfterChange
  BY DEF SessionsInv
<1> QED
  BY Invariant, <1>1, PTL

(* Flag and password are written together (auth_repo.go 64, admin_repo.go  *)
(* 330): under the flag the password is the one issued last.               *)
THEOREM Flag == Spec => []FlagGoesWithPassword
<1>1. SessionsInv => FlagGoesWithPassword
  BY DEF SessionsInv
<1> QED
  BY Invariant, <1>1, PTL

(* ChangePassword answers ok only for a change that it made, as long as    *)
(* the account is there.                                                   *)
THEOREM Answered == Spec => []AnsweredChangeWasMade
<1>1. SessionsInv => AnsweredChangeWasMade
  BY DEF SessionsInv
<1> QED
  BY Invariant, <1>1, PTL
=============================================================================
