------------------------------ MODULE UpgradeProofs ------------------------------
(***************************************************************************)
(* TLAPS proofs about Upgrade, for any applications and addresses, and     *)
(* whatever the older version has left in the tables.                      *)
(***************************************************************************)
EXTENDS Upgrade, FiniteSetTheorems, TLAPS

Emails == [Application -> Email \cup {None}]
LoginTables == [Login -> Email \cup {None}]
Links == [Application -> Application \cup {None}]
LoginLinks == [Application -> Login \cup {None}]

LEMMA Constants ==
  /\ IsFiniteSet(Login) /\ Application \subseteq Login /\ Admin \subseteq Login
  /\ \A u \in Login : u \in Application <=> u \notin Admin
  /\ None \notin Login /\ None \notin Email
<1>1. IsFiniteSet(Login)
  BY UpgradeAssumption, FS_Union DEF Login
<1> QED
  BY <1>1, UpgradeAssumption DEF Login

(* The three writings of an address.                                       *)
LEMMA Writings ==
  ASSUME NEW e \in Email
  PROVE  /\ Plain(e) \in Email /\ Plain(e)[1] = e[1] /\ Plain(e)[2] = "plain"
         /\ Plain(Plain(e)) = Plain(e) /\ Lower(Plain(e)) = Plain(e)
         /\ Lower(e) \in Email /\ Lower(e)[1] = e[1]
         /\ (e[2] = "plain" => Plain(e) = e /\ Lower(e) = e)
         /\ (Lower(e)[2] = "plain" => Lower(e) = Plain(e))
         /\ e # None /\ Plain(e) # None
BY UpgradeAssumption DEF Email, Form, Plain, Lower

LEMMA SamePlain ==
  ASSUME NEW e \in Email, NEW f \in Email
  PROVE  Plain(e) = Plain(f) <=> e[1] = f[1]
BY DEF Email, Plain

(* A set with one element, as CHOOSE finds it.                             *)
LEMMA Single ==
  ASSUME NEW S \in SUBSET Login
  PROVE  /\ Cardinality(S) = 1 => (CHOOSE x \in S : TRUE) \in S
                                 /\ S = {CHOOSE x \in S : TRUE}
         /\ \A x : S = {x} => Cardinality(S) = 1
<1>1. IsFiniteSet(S)
  BY Constants, FS_Subset
<1>2. ASSUME Cardinality(S) = 1
      PROVE  (CHOOSE x \in S : TRUE) \in S /\ S = {CHOOSE x \in S : TRUE}
  <2>1. PICK x : S = {x}
    BY <1>1, <1>2, FS_Singleton
  <2>2. (CHOOSE y \in S : TRUE) \in S
    BY <2>1
  <2> QED
    BY <2>1, <2>2
<1> QED
  BY <1>2, FS_Singleton

(* All that a resend leaves as it was.                                     *)
others == <<start, rows, since, moved, taken>>

LEMMA Steps ==
  ASSUME [Next]_vars
  PROVE  \/ Start \/ Mark \/ Run011 \/ Run012 \/ Clean \/ Crash \/ Repair
         \/ \E a \in Application : Approve(a)
         \/ \E a \in Application : Delete(a)
         \/ \E a \in Application, e \in Email : UpdateProfile(a, e)
         \/ UNCHANGED others
BY DEF Next, Resend, others, vars, decisions

(* What a resend changes.                                                  *)
LEMMA ResetSteps ==
  ASSUME [Next]_vars
  PROVE  reset' = reset \/ \E a \in Application : Resend(a)
BY DEF Next, vars, decisions, Start, Mark, Run011, Run012, Clean, Crash, Repair, Approve, Delete, UpdateProfile

-----------------------------------------------------------------------------
(* What 011 does to the tables, when it is committed.                      *)
LEMMA MatchesType ==
  ASSUME NEW table, NEW e PROVE Matches(table, e) \subseteq DOMAIN table
BY DEF Matches, Rows

LEMMA NormalisedUsers ==
  ASSUME user \in LoginTables, NEW x \in Login
  PROVE  /\ user[x] = None => NormaliseFree(user)[x] = None
         /\ user[x] # None =>
              /\ user[x] \in Email
              /\ \/ NormaliseFree(user)[x] = Plain(user[x])
                 \/ /\ NormaliseFree(user)[x] = user[x]
                    /\ \E y \in Rows(user) \ {x} : user[y] = Plain(user[x])
<1>1. user[x] \in Email \cup {None}
  BY DEF LoginTables
<1> QED
  BY <1>1 DEF NormaliseFree, LoginTables

LEMMA Committed ==
  ASSUME TypeOK, Run011, Unique(NormaliseFree(user))
  PROVE  /\ user' = NormaliseFree(user) /\ company' = Normalise(company)
         /\ user' \in LoginTables /\ company' \in Emails
         /\ \A a \in Application : company[a] = None => company'[a] = None
         /\ \A a \in Application : company[a] # None => company'[a] = Plain(company[a])
         /\ \A a \in Application : email'[a] = Plain(email[a])
         /\ email' \in [Application -> Email]
         /\ toCompany' = Backfill(toCompany, company) /\ toUser' = Backfill(toUser, user)
         /\ server' = "clean" /\ applied' = IF applied < 11 THEN 11 ELSE applied
         /\ status' = status /\ long' = long
<1>1. /\ user' = NormaliseFree(user) /\ company' = Normalise(company) /\ email' = Normalise(email)
      /\ toCompany' = Backfill(toCompany, company) /\ toUser' = Backfill(toUser, user)
      /\ server' = "clean" /\ applied' = IF applied < 11 THEN 11 ELSE applied
      /\ status' = status /\ long' = long
  BY DEF Run011
<1>2. user \in LoginTables /\ company \in Emails /\ email \in [Application -> Email]
  BY DEF TypeOK, Emails, LoginTables
<1>3. user' \in LoginTables
  <2>1. \A x \in Login : NormaliseFree(user)[x] \in Email \cup {None}
    BY <1>2, NormalisedUsers, Writings
  <2>2. DOMAIN user = Login
    BY <1>2 DEF LoginTables
  <2> QED
    BY <1>1, <2>1, <2>2 DEF LoginTables, NormaliseFree
<1>4. /\ \A a \in Application : company[a] = None => company'[a] = None
      /\ \A a \in Application : company[a] # None => company'[a] = Plain(company[a])
  BY <1>1, <1>2 DEF Normalise, Emails
<1>5. company' \in Emails
  <2>1. \A a \in Application : Normalise(company)[a] \in Email \cup {None}
    BY <1>2, Writings DEF Normalise, Emails
  <2>2. DOMAIN company = Application
    BY <1>2 DEF Emails
  <2> QED
    BY <1>1, <2>1, <2>2 DEF Normalise, Emails
<1>6. \A a \in Application : email'[a] = Plain(email[a])
  BY <1>1, <1>2, Writings DEF Normalise
<1>7. email' \in [Application -> Email]
  BY <1>1, <1>2, <1>6, Writings DEF Normalise
<1> QED
  BY <1>1, <1>3, <1>4, <1>5, <1>6, <1>7

LEMMA CompanyLinks ==
  ASSUME TypeOK, Run011, Unique(NormaliseFree(user))
  PROVE  /\ toCompany' \in Links
         /\ \A a \in Application :
              \/ toCompany'[a] = toCompany[a]
              \/ Matches(company, email[a])' = {toCompany'[a]}
         /\ \A a \in Application : status[a] = "approved" /\ toCompany'[a] = None =>
              Cardinality(Matches(company, email[a])') # 1
<1>1. toCompany \in Links
  BY DEF TypeOK, Links
<1>2. ASSUME NEW a \in Application
      PROVE  LET m == Matches(company, email[a])' IN
             /\ toCompany'[a] = IF status[a] = "approved" /\ toCompany[a] = None /\ Cardinality(m) = 1
                                THEN CHOOSE x \in m : TRUE ELSE toCompany[a]
             /\ m \in SUBSET Application
  BY Committed, MatchesType DEF Backfill, Emails
<1>3. ASSUME NEW a \in Application
      PROVE  /\ toCompany'[a] \in Application \cup {None}
             /\ toCompany'[a] = toCompany[a] \/ Matches(company, email[a])' = {toCompany'[a]}
             /\ status[a] = "approved" /\ toCompany'[a] = None =>
                  Cardinality(Matches(company, email[a])') # 1
  <2> DEFINE m == Matches(company, email[a])'
  <2>1. m \in SUBSET Application
    BY <1>2
  <2>2. /\ toCompany'[a] = IF status[a] = "approved" /\ toCompany[a] = None /\ Cardinality(m) = 1
                           THEN CHOOSE x \in m : TRUE ELSE toCompany[a]
        /\ toCompany[a] \in Application \cup {None}
    BY <1>1, <1>2 DEF Links
  <2> HIDE DEF m
  <2>3. Cardinality(m) = 1 => (CHOOSE x \in m : TRUE) \in m /\ m = {CHOOSE x \in m : TRUE}
    BY <2>1, Single, Constants
  <2> QED
    BY <2>1, <2>2, <2>3, Constants DEF m
<1>4. toCompany' = [a \in Application |-> toCompany'[a]]
  BY Committed DEF Backfill
<1> QED
  BY <1>3, <1>4 DEF Links

LEMMA UserLinks ==
  ASSUME TypeOK, Run011, Unique(NormaliseFree(user))
  PROVE  /\ toUser' \in LoginLinks
         /\ \A a \in Application :
              \/ toUser'[a] = toUser[a]
              \/ Matches(user, email[a])' = {toUser'[a]}
         /\ \A a \in Application : status[a] = "approved" /\ toUser'[a] = None =>
              Cardinality(Matches(user, email[a])') # 1
<1>1. toUser \in LoginLinks
  BY DEF TypeOK, LoginLinks
<1>2. ASSUME NEW a \in Application
      PROVE  LET m == Matches(user, email[a])' IN
             /\ toUser'[a] = IF status[a] = "approved" /\ toUser[a] = None /\ Cardinality(m) = 1
                             THEN CHOOSE x \in m : TRUE ELSE toUser[a]
             /\ m \in SUBSET Login
  BY Committed, MatchesType DEF Backfill, LoginTables
<1>3. ASSUME NEW a \in Application
      PROVE  /\ toUser'[a] \in Login \cup {None}
             /\ toUser'[a] = toUser[a] \/ Matches(user, email[a])' = {toUser'[a]}
             /\ status[a] = "approved" /\ toUser'[a] = None =>
                  Cardinality(Matches(user, email[a])') # 1
  <2> DEFINE m == Matches(user, email[a])'
  <2>1. m \in SUBSET Login
    BY <1>2
  <2>2. /\ toUser'[a] = IF status[a] = "approved" /\ toUser[a] = None /\ Cardinality(m) = 1
                        THEN CHOOSE x \in m : TRUE ELSE toUser[a]
        /\ toUser[a] \in Login \cup {None}
    BY <1>1, <1>2 DEF LoginLinks
  <2> HIDE DEF m
  <2>3. Cardinality(m) = 1 => (CHOOSE x \in m : TRUE) \in m /\ m = {CHOOSE x \in m : TRUE}
    BY <2>1, Single
  <2> QED
    BY <2>1, <2>2, <2>3, Constants DEF m
<1>4. toUser' = [a \in Application |-> toUser'[a]]
  BY Committed DEF Backfill
<1> QED
  BY <1>3, <1>4 DEF LoginLinks

-----------------------------------------------------------------------------
(* Types.                                                                  *)
Resets == [by : Application, user : Login, own : BOOLEAN]

LEMMA ResetType ==
  ASSUME TypeOK, [Next]_vars
  PROVE  reset' \subseteq Resets
<1>1. CASE reset' = reset
  BY <1>1 DEF TypeOK, Resets
<1>2. ASSUME NEW a \in Application, Resend(a) PROVE reset' \subseteq Resets
  <2> DEFINE own == a \in Matches(user, email[a])
  <2>1. own \in BOOLEAN /\ UsersOf(a) \subseteq Login
    BY MatchesType DEF UsersOf, Rows, TypeOK
  <2>2. reset' = reset \cup {[by |-> a, user |-> u, own |-> own] : u \in UsersOf(a)}
    BY <1>2 DEF Resend
  <2> HIDE DEF own
  <2>3. {[by |-> a, user |-> u, own |-> own] : u \in UsersOf(a)} \subseteq Resets
    BY <2>1 DEF Resets
  <2> QED
    BY <2>2, <2>3 DEF TypeOK, Resets
<1> QED
  BY <1>1, <1>2, ResetSteps

LEMMA TypeStep == TypeOK /\ Versioned /\ [Next]_vars => TypeOK'
<1> SUFFICES ASSUME TypeOK, Versioned, [Next]_vars PROVE TypeOK'
  OBVIOUS
<1>0. reset' \subseteq [by : Application, user : Login, own : BOOLEAN]
  BY ResetType DEF Resets
<1> USE DEF start, rows, decisions, Latest
<1>1. CASE Start
  BY <1>1 DEF Start, TypeOK
<1>2. CASE Mark
  <2>1. version + 1 \in 10..12
    BY <1>2 DEF Mark, TypeOK, Versioned
  <2> QED
    BY <1>2, <2>1 DEF Mark, TypeOK
<1>3. CASE Run011
  <2>1. CASE Unique(NormaliseFree(user))
    <3>1. /\ user' \in LoginTables /\ company' \in Emails /\ email' \in [Application -> Email]
          /\ toCompany' \in Links /\ toUser' \in LoginLinks
          /\ server' = "clean" /\ applied' \in 10..12 /\ status' = status /\ long' = long
      BY <1>3, <2>1, Committed, CompanyLinks, UserLinks DEF TypeOK
    <3>2. version' = version /\ dirty' = dirty /\ crashed' = crashed /\ since' = since
          /\ moved' = moved /\ taken' = taken
      BY <1>3 DEF Run011
    <3> QED
      BY <1>0, <3>1, <3>2 DEF TypeOK, Emails, LoginTables, Links, LoginLinks
  <2>2. CASE ~ Unique(NormaliseFree(user))
    BY <1>3, <2>2 DEF Run011, TypeOK
  <2> QED
    BY <2>1, <2>2
<1>4. CASE Run012
  BY <1>4 DEF Run012, TypeOK
<1>5. CASE Clean
  BY <1>5 DEF Clean, TypeOK
<1>6. CASE Crash
  BY <1>6 DEF Crash, TypeOK
<1>8. ASSUME NEW a \in Application, Approve(a) PROVE TypeOK'
  <2>1. email[a] \in Email /\ Plain(email[a]) \in Email
    BY Writings DEF TypeOK
  <2>2. /\ email' = [email EXCEPT ![a] = Plain(email[a])]
        /\ company' = [company EXCEPT ![a] = Plain(email[a])]
        /\ user' = [user EXCEPT ![a] = Plain(email[a])]
    BY <1>8 DEF Approve
  <2>3. email' \in [Application -> Email] /\ company' \in Emails /\ user' \in LoginTables
    BY <2>1, <2>2, Constants DEF TypeOK, Emails, LoginTables
  <2>4. toCompany' \in Links /\ toUser' \in LoginLinks /\ status' \in [Application -> {"pending", "approved", "deleted"}]
    BY <1>8, Constants DEF Approve, TypeOK, Links, LoginLinks
  <2> QED
    BY <1>8, <2>3, <2>4 DEF Approve, TypeOK, Emails, LoginTables, Links, LoginLinks
<1>9. ASSUME NEW a \in Application, Delete(a) PROVE TypeOK'
  <2>1. PICK c \in Application :
          /\ company' = [company EXCEPT ![c] = None] /\ user' = [user EXCEPT ![c] = None]
          /\ toCompany' = [x \in Application |-> IF toCompany[x] = c \/ x = a THEN None ELSE toCompany[x]]
          /\ toUser' = [x \in Application |-> IF toUser[x] = c \/ x = a THEN None ELSE toUser[x]]
          /\ taken' = taken \cup {[by |-> a, company |-> c, own |-> company[a] # None]}
    BY <1>9 DEF Delete, Rows, TypeOK
  <2>2. company' \in Emails /\ user' \in LoginTables /\ toCompany' \in Links /\ toUser' \in LoginLinks
    BY <2>1 DEF TypeOK, Emails, LoginTables, Links, LoginLinks
  <2>3. taken' \subseteq [by : Application, company : Application, own : BOOLEAN]
    <3> DEFINE own == company[a] # None
    <3>1. own \in BOOLEAN
      OBVIOUS
    <3> HIDE DEF own
    <3>2. [by |-> a, company |-> c, own |-> own] \in [by : Application, company : Application, own : BOOLEAN]
      BY <3>1
    <3> QED
      BY <2>1, <3>2 DEF TypeOK, own
  <2> QED
    BY <1>9, <2>2, <2>3 DEF Delete, TypeOK, Emails, LoginTables, Links, LoginLinks
<1>10. ASSUME NEW a \in Application, NEW e \in Email, UpdateProfile(a, e) PROVE TypeOK'
  BY <1>10 DEF UpdateProfile, TypeOK
<1>7. CASE Repair
  <2>1. version - 1 \in 10..12
    BY <1>7 DEF TypeOK, Versioned, Repair
  <2> QED
    BY <1>7, <2>1 DEF Repair, TypeOK
<1>11. CASE UNCHANGED others
  BY <1>0, <1>11 DEF others, TypeOK
<1> QED
  BY <1>1, <1>2, <1>3, <1>4, <1>5, <1>6, <1>7, <1>8, <1>9, <1>10, <1>11, Steps

-----------------------------------------------------------------------------
(* The account of versions.                                                *)
LEMMA VersionStep == TypeOK /\ Versioned /\ Failed /\ [Next]_vars => Versioned' /\ Failed'
<1> SUFFICES ASSUME TypeOK, Versioned, Failed, [Next]_vars PROVE Versioned' /\ Failed'
  OBVIOUS
<1>0. version \in 10..12 /\ applied \in 10..12
  BY DEF TypeOK
<1> USE <1>0 DEF start, rows, decisions, Latest
<1>1. CASE Start
  BY <1>1 DEF Start, Versioned, Failed
<1>2. CASE Mark
  BY <1>2 DEF Mark, Versioned, Failed
<1>3. CASE Run011
  <2>1. /\ version' = version /\ dirty' = dirty /\ crashed' = crashed /\ long' = long
        /\ server = "run" /\ version = 11
        /\ \/ server' = "clean" /\ applied' = IF applied < 11 THEN 11 ELSE applied
           \/ server' = "failed" /\ applied' = applied
    BY <1>3 DEF Run011
  <2> QED
    BY <2>1 DEF Versioned, Failed
<1>4. CASE Run012
  BY <1>4 DEF Run012, Versioned, Failed
<1>5. CASE Clean
  BY <1>5 DEF Clean, Versioned, Failed
<1>6. CASE Crash
  BY <1>6 DEF Crash, Versioned, Failed
<1>7. CASE Repair
  BY <1>7 DEF Repair, Versioned, Failed
<1>8. ASSUME NEW a \in Application, Approve(a) PROVE Versioned' /\ Failed'
  BY <1>8 DEF Approve, Versioned, Failed
<1>9. ASSUME NEW a \in Application, Delete(a) PROVE Versioned' /\ Failed'
  BY <1>9 DEF Delete, Versioned, Failed
<1>10. ASSUME NEW a \in Application, NEW e \in Email, UpdateProfile(a, e) PROVE Versioned' /\ Failed'
  BY <1>10 DEF UpdateProfile, Versioned, Failed
<1>11. CASE UNCHANGED others
  BY <1>11 DEF others, Versioned, Failed
<1> QED
  BY <1>1, <1>2, <1>3, <1>4, <1>5, <1>6, <1>7, <1>8, <1>9, <1>10, <1>11, Steps

LEMMA Decidable == TypeOK /\ Versioned => AllDecidable
<1> SUFFICES ASSUME TypeOK, Versioned, server = "up" PROVE \A a \in Application : Writable(a)
  BY DEF AllDecidable
<1>1. long = {}
  <2>1. version = Latest /\ version <= applied
    BY DEF Versioned
  <2>2. applied \in 10..12
    BY DEF TypeOK
  <2> QED
    BY <2>1, <2>2 DEF Versioned, Latest
<1> QED
  BY <1>1 DEF Writable

-----------------------------------------------------------------------------
(* 011 rewrites two users to one address only if none has it already.      *)
LEMMA Collision ==
  ASSUME user \in LoginTables, Unique(user), ~ Unique(NormaliseFree(user))
  PROVE  \E x, y \in Rows(user) :
           x # y /\ user[x][1] = user[y][1] /\ \A z \in Rows(user) : user[z] # Plain(user[x])
<1> DEFINE free == NormaliseFree(user)
<1>1. PICK x \in Rows(free), y \in Rows(free) : free[x] = free[y] /\ x # y
  BY DEF Unique
<1>2. /\ x \in Login /\ y \in Login
      /\ x \in Rows(user) /\ y \in Rows(user) /\ user[x] \in Email /\ user[y] \in Email
  <2>1. DOMAIN free = Login /\ DOMAIN user = Login
    BY DEF NormaliseFree, LoginTables
  <2> QED
    BY <2>1, NormalisedUsers DEF Rows
<1>3. user[x] # user[y]
  BY <1>1, <1>2 DEF Unique
<1>4. free[x] = Plain(user[x]) /\ free[y] = Plain(user[y])
  <2>1. free[x] \in {user[x], Plain(user[x])} /\ free[y] \in {user[y], Plain(user[y])}
    BY <1>2, NormalisedUsers DEF Rows
  <2>2. Plain(Plain(user[x])) = Plain(user[x]) /\ Plain(Plain(user[y])) = Plain(user[y])
    BY <1>2, Writings
  <2> HIDE DEF free
  <2> QED
    BY <1>1, <1>3, <2>1, <2>2
<1>5. ASSUME NEW u \in Rows(user), NEW z \in Rows(user), free[u] = Plain(user[u]), user[z] = Plain(user[u])
      PROVE  z = u
  <2>1. CASE z # u
    <3>1. free[u] = user[u]
      BY <1>5, <2>1 DEF NormaliseFree, Rows
    <3> QED
      BY <1>5, <2>1, <3>1 DEF Unique
  <2> QED
    BY <2>1
<1>6. \A z \in Rows(user) : user[z] # Plain(user[x])
  BY <1>1, <1>2, <1>4, <1>5
<1>7. user[x][1] = user[y][1]
  BY <1>1, <1>2, <1>4, SamePlain
<1> QED
  BY <1>1, <1>2, <1>6, <1>7

LEMMA BlockedStep ==
  TypeOK /\ Versioned /\ Addressed /\ BlockedByCollisionOnly /\ [Next]_vars => BlockedByCollisionOnly'
<1> SUFFICES ASSUME TypeOK, Versioned, Addressed, BlockedByCollisionOnly, [Next]_vars, server' = "failed"
             PROVE  \/ crashed'
                    \/ \E x, y \in Rows(user') : x # y /\ user'[x][1] = user'[y][1]
                         /\ \A z \in Rows(user') : user'[z] # Plain(user'[x])
  BY DEF BlockedByCollisionOnly
<1> USE DEF start, rows, decisions, Latest
<1>1. CASE Start
  BY <1>1 DEF Start, Versioned
<1>2. CASE Run011
  <2>1. ~ Unique(NormaliseFree(user)) /\ user' = user
    BY <1>2, Committed DEF Run011
  <2>2. user \in LoginTables /\ Unique(user)
    BY DEF TypeOK, LoginTables, Addressed
  <2> QED
    BY <2>1, <2>2, Collision
<1>3. CASE UNCHANGED others
  BY <1>3 DEF others, BlockedByCollisionOnly
<1>4. ASSUME NEW a \in Application, Approve(a) \/ Delete(a) PROVE FALSE
  BY <1>4 DEF Approve, Delete
<1>5. ASSUME NEW a \in Application, NEW e \in Email, UpdateProfile(a, e) PROVE FALSE
  BY <1>5 DEF UpdateProfile
<1> QED
  BY <1>1, <1>2, <1>3, <1>4, <1>5, Steps DEF Mark, Run012, Clean, Crash, Repair

-----------------------------------------------------------------------------
(* What a server that is up knows, and what a delete does.                 *)
LEMMA WhenUp ==
  ASSUME TypeOK, Versioned, server = "up"
  PROVE  applied = Latest /\ applied > 10 /\ version = Latest /\ ~ dirty /\ ~ Pending
BY DEF TypeOK, Versioned, Pending, Latest

LEMMA DeleteStep ==
  ASSUME TypeOK, NEW a \in Application, Delete(a)
  PROVE  \E c \in CompanyOf(a) \cap Rows(company) :
           /\ c \in Application
           /\ company'[c] = None /\ user'[c] = None
           /\ DOMAIN user' = Login /\ DOMAIN company' = Application
           /\ \A x \in Application : x # c => company'[x] = company[x]
           /\ \A x \in Login : x # c => user'[x] = user[x]
           /\ \A x \in Application :
                toCompany'[x] = IF toCompany[x] = c \/ x = a THEN None ELSE toCompany[x]
           /\ \A x \in Application :
                toUser'[x] = IF toUser[x] = c \/ x = a THEN None ELSE toUser[x]
           /\ taken' = taken \cup {[by |-> a, company |-> c, own |-> company[a] # None]}
BY Constants DEF Delete, TypeOK, Rows

LEMMA AddressStep == TypeOK /\ Versioned /\ Addressed /\ [Next]_vars => Addressed'
<1> SUFFICES ASSUME TypeOK, Versioned, Addressed, [Next]_vars PROVE Addressed'
  OBVIOUS
<1>0. /\ \A a \in Application : email[a] \in Email /\ company[a] \in Email \cup {None}
      /\ \A u \in Login : user[u] \in Email \cup {None}
      /\ DOMAIN user = Login /\ applied \in 10..12
  BY DEF TypeOK
<1> USE DEF start, rows, decisions
<1>a. ASSUME UNCHANGED <<user, company, email, moved>>, applied' = applied \/ applied > 10
      PROVE  Addressed'
  BY <1>a DEF Addressed, Unique, Rows
<1>1. CASE Run011
  <2>1. CASE Unique(NormaliseFree(user))
    <3>1. Unique(user)' /\ moved' = moved
      BY <1>1, <2>1, Committed DEF Unique, Rows, Run011
    <3>2. ASSUME NEW a \in Application
          PROVE  /\ email'[a][2] = "plain"
                 /\ a \notin moved /\ company'[a] # None =>
                      company'[a][1] = email'[a][1] /\ Lower(company'[a]) = email'[a]
      <4>1. email'[a] = Plain(email[a]) /\ Plain(email[a])[1] = email[a][1] /\ Plain(email[a])[2] = "plain"
        BY <1>0, <1>1, <2>1, Committed, Writings
      <4>2. CASE a \notin moved /\ company'[a] # None
        <5>1. company[a] \in Email /\ company[a][1] = email[a][1] /\ company'[a] = Plain(company[a])
          BY <1>0, <1>1, <2>1, <4>2, Committed DEF Addressed
        <5>2. Plain(company[a]) = Plain(email[a]) /\ Lower(Plain(company[a])) = Plain(company[a])
          BY <1>0, <5>1, SamePlain, Writings
        <5> QED
          BY <4>1, <5>1, <5>2
      <4> QED
        BY <4>1, <4>2
    <3> QED
      BY <3>1, <3>2 DEF Addressed
  <2>2. CASE ~ Unique(NormaliseFree(user))
    BY <1>1, <1>a, <2>2 DEF Run011
  <2> QED
    BY <2>1, <2>2
<1>2. CASE Run012
  <2>1. applied > 10
    BY <1>0, <1>2 DEF Run012, Versioned
  <2> QED
    BY <1>2, <1>a, <2>1 DEF Run012
<1>3. ASSUME NEW a \in Application, Approve(a) PROVE Addressed'
  <2> DEFINE e == Plain(email[a])
  <2>1. e \in Email /\ e[2] = "plain" /\ Lower(e) = e /\ e # None
    <3>1. email[a] \in Email
      BY <1>0
    <3> QED
      BY <3>1, Writings
  <2> HIDE DEF e
  <2>2. /\ company'[a] = e /\ user'[a] = e /\ email'[a] = e
        /\ \A x \in Application : x # a =>
             company'[x] = company[x] /\ email'[x] = email[x]
        /\ DOMAIN user' = Login /\ \A x \in Login : x # a => user'[x] = user[x]
        /\ moved' = moved /\ applied' = applied /\ applied > 10
    BY <1>3, WhenUp, Constants DEF Approve, TypeOK, e
  <2>3. \A z \in Rows(user) : user[z] # e
    <3>1. Matches(user, e) = {}
      BY <1>3 DEF Approve, e
    <3> QED
      BY <3>1 DEF Matches
  <2>4. Unique(user)'
    <3>1. ASSUME NEW x \in Rows(user'), NEW y \in Rows(user'), user'[x] = user'[y], x # y PROVE FALSE
      <4>1. x \in Login /\ y \in Login /\ user'[x] # None /\ user'[y] # None
        BY <2>2 DEF Rows
      <4>2. (x # a => x \in Rows(user)) /\ (y # a => y \in Rows(user))
        BY <1>0, <2>2, <4>1 DEF Rows
      <4>3. \A u, v \in Rows(user) : user[u] = user[v] => u = v
        BY DEF Addressed, Unique
      <4> QED
        BY <2>2, <2>3, <3>1, <4>1, <4>2, <4>3
    <3> QED
      BY <3>1 DEF Unique
  <2>5. ASSUME NEW x \in Application
        PROVE  /\ email'[x][2] = "plain"
               /\ x \notin moved /\ company'[x] # None =>
                    company'[x][1] = email'[x][1] /\ Lower(company'[x]) = email'[x]
    BY <2>1, <2>2 DEF Addressed
  <2> QED
    BY <2>2, <2>4, <2>5 DEF Addressed
<1>4. ASSUME NEW a \in Application, Delete(a) PROVE Addressed'
  <2>1. /\ email' = email /\ moved' = moved /\ applied' = applied
        /\ \A x \in Application : company'[x] # None => company'[x] = company[x]
        /\ DOMAIN user' = Login /\ \A x \in Login : user'[x] # None => user'[x] = user[x]
    BY <1>4, DeleteStep DEF Delete
  <2>2. Unique(user)'
    <3>1. \A x \in Rows(user') : x \in Rows(user) /\ user'[x] = user[x]
      BY <1>0, <2>1 DEF Rows
    <3>2. \A x, y \in Rows(user) : user[x] = user[y] => x = y
      BY DEF Addressed, Unique
    <3> QED
      BY <3>1, <3>2 DEF Unique
  <2>3. ASSUME NEW x \in Application \ moved', company'[x] # None
        PROVE  /\ company'[x][1] = email'[x][1]
               /\ applied' > 10 => Lower(company'[x]) = email'[x]
    BY <2>1, <2>3 DEF Addressed
  <2>4. applied' > 10 => \A x \in Application : email'[x][2] = "plain"
    BY <2>1 DEF Addressed
  <2> QED
    BY <2>2, <2>3, <2>4 DEF Addressed
<1>5. ASSUME NEW c \in Application, NEW e \in Email, UpdateProfile(c, e) PROVE Addressed'
  <2>1. /\ company'[c] = e /\ \A x \in Application : x # c => company'[x] = company[x]
        /\ email' = email /\ user' = user /\ applied' = applied /\ applied > 10
        /\ moved' = IF Lower(e) = email[c] THEN moved ELSE moved \cup {c}
    BY <1>5, WhenUp DEF UpdateProfile, TypeOK
  <2>2. Lower(e)[1] = e[1]
    BY Writings
  <2>3. ASSUME NEW x \in Application
        PROVE  /\ email'[x][2] = "plain"
               /\ x \notin moved' /\ company'[x] # None =>
                    company'[x][1] = email'[x][1] /\ Lower(company'[x]) = email'[x]
    BY <2>1, <2>2 DEF Addressed
  <2> QED
    BY <2>1, <2>3 DEF Addressed, Unique, Rows
<1> QED
  BY <1>1, <1>2, <1>3, <1>4, <1>5, <1>a, Steps DEF Start, Mark, Clean, Crash, Repair, others

-----------------------------------------------------------------------------
(* Once committed, 011 has nothing left to do.                             *)
LEMMA FreeTwice ==
  ASSUME TypeOK, NEW free, free = NormaliseFree(user), free \in LoginTables
  PROVE  NormaliseFree(free) = free
<1>0. user \in LoginTables /\ DOMAIN user = Login /\ DOMAIN free = Login
  BY DEF TypeOK, LoginTables
<1>1. ASSUME NEW x \in Login, free[x] # None, Plain(free[x]) # free[x]
      PROVE  \E y \in Rows(free) \ {x} : free[y] = Plain(free[x])
  <2>1. user[x] # None /\ user[x] \in Email
    BY <1>0, <1>1, NormalisedUsers
  <2>2. Plain(Plain(user[x])) = Plain(user[x])
    BY <2>1, Writings
  <2>3. free[x] = user[x] /\ \E y \in Rows(user) \ {x} : user[y] = Plain(user[x])
    BY <1>0, <1>1, <2>1, <2>2, NormalisedUsers
  <2>4. PICK y \in Rows(user) \ {x} : user[y] = Plain(user[x])
    BY <2>3
  <2>5. y \in Login /\ user[y] # None
    BY <1>0 DEF Rows
  <2>6. free[y] \in {user[y], Plain(user[y])}
    BY <1>0, <2>5, NormalisedUsers
  <2>7. free[y] = Plain(free[x]) /\ free[y] # None
    BY <2>2, <2>3, <2>4, <2>5, <2>6
  <2> QED
    BY <1>0, <2>4, <2>5, <2>7 DEF Rows
<1>2. ASSUME NEW x \in Login PROVE NormaliseFree(free)[x] = free[x]
  BY <1>0, <1>1 DEF NormaliseFree
<1>3. NormaliseFree(free) = [x \in Login |-> NormaliseFree(free)[x]]
  BY <1>0 DEF NormaliseFree
<1> QED
  BY <1>2, <1>3 DEF LoginTables

LEMMA UpgradedStep == TypeOK /\ Versioned /\ Upgraded /\ [Next]_vars => Upgraded'
<1> SUFFICES ASSUME TypeOK, Versioned, Upgraded, [Next]_vars, applied' > 10, Pending'
             PROVE  /\ NormaliseFree(user') = user' /\ Normalise(company') = company'
                    /\ \A a \in Application : status'[a] = "approved" =>
                         /\ toCompany'[a] = None => Cardinality(Matches(company', email'[a])) # 1
                         /\ toUser'[a] = None => Cardinality(Matches(user', email'[a])) # 1
  BY DEF Upgraded
<1>0. applied \in 10..12 /\ version \in 10..12
  BY DEF TypeOK
<1> USE DEF start, rows, decisions, Latest
<1>a. ASSUME UNCHANGED <<user, company, email, status, toCompany, toUser>>, applied > 10, Pending
      PROVE  /\ NormaliseFree(user') = user' /\ Normalise(company') = company'
             /\ \A a \in Application : status'[a] = "approved" =>
                  /\ toCompany'[a] = None => Cardinality(Matches(company', email'[a])) # 1
                  /\ toUser'[a] = None => Cardinality(Matches(user', email'[a])) # 1
  BY <1>a DEF Upgraded
<1>1. CASE Run011
  <2>1. CASE Unique(NormaliseFree(user))
    <3>1. NormaliseFree(user') = user'
      BY <1>1, <2>1, Committed, FreeTwice
    <3>2. Normalise(company') = company'
      <4>0. DOMAIN company' = Application
        BY <1>1, <2>1, Committed DEF Emails
      <4>1. ASSUME NEW a \in Application PROVE Normalise(company')[a] = company'[a]
        <5>1. company[a] \in Email \cup {None}
          BY DEF TypeOK
        <5>2. CASE company[a] = None
          BY <1>1, <2>1, <4>0, <5>2, Committed DEF Normalise
        <5>3. CASE company[a] \in Email
          <6>1. company'[a] = Plain(company[a])
            BY <1>1, <2>1, <5>3, Committed, Writings
          <6> QED
            BY <4>0, <5>3, <6>1, Writings DEF Normalise
        <5> QED
          BY <5>1, <5>2, <5>3
      <4>2. company' \in Emails
        BY <1>1, <2>1, Committed
      <4>3. Normalise(company') = [a \in Application |-> Normalise(company')[a]]
        BY <4>0 DEF Normalise
      <4> QED
        BY <4>1, <4>2, <4>3 DEF Emails
    <3>3. status' = status
      BY <1>1, <2>1, Committed
    <3>4. \A a \in Application : status[a] = "approved" =>
            /\ toCompany'[a] = None => Cardinality(Matches(company', email'[a])) # 1
            /\ toUser'[a] = None => Cardinality(Matches(user', email'[a])) # 1
      BY <1>1, <2>1, CompanyLinks, UserLinks
    <3> QED
      BY <3>1, <3>2, <3>3, <3>4
  <2>2. CASE ~ Unique(NormaliseFree(user))
    <3>1. UNCHANGED <<rows, applied, version, dirty>>
      BY <1>1, <2>2 DEF Run011
    <3> QED
      BY <1>a, <3>1 DEF Pending
  <2> QED
    BY <2>1, <2>2
<1>2. CASE Run012
  BY <1>0, <1>2, <1>a DEF Run012, Versioned, Pending
<1>3. CASE Start
  BY <1>3, <1>a DEF Start, Pending
<1>4. CASE Mark
  BY <1>0, <1>4, <1>a DEF Mark, Pending, Versioned
<1>5. CASE Clean
  BY <1>5, <1>a DEF Clean, Pending, Versioned
<1>6. CASE Crash
  BY <1>6, <1>a DEF Crash, Pending
<1>7. CASE Repair
  BY <1>7, <1>a DEF Repair, Pending
<1>8. ASSUME NEW a \in Application, Approve(a) \/ Delete(a) PROVE FALSE
  BY <1>8, WhenUp DEF Approve, Delete, Pending
<1>9. ASSUME NEW a \in Application, NEW e \in Email, UpdateProfile(a, e) PROVE FALSE
  BY <1>9, WhenUp DEF UpdateProfile, Pending
<1>10. CASE UNCHANGED others
  BY <1>10, <1>a DEF others, Pending
<1> QED
  BY <1>1, <1>2, <1>3, <1>4, <1>5, <1>6, <1>7, <1>8, <1>9, <1>10, Steps

-----------------------------------------------------------------------------
(* Links and deletes.                                                      *)

(* The company a delete finds, and whose it may be.                        *)
LEMMA Finds ==
  ASSUME TypeOK, Versioned, Addressed, Linked, server = "up",
         NEW a \in Application, NEW c \in CompanyOf(a), company[a] # None, c # a
  PROVE  a \notin since /\ {a, c} \cap moved # {}
<1>1. CASE toCompany[a] # None
  BY <1>1 DEF CompanyOf, Linked
<1>2. CASE toCompany[a] = None
  <2>1. a \notin since
    BY <1>2, UpgradeAssumption DEF Linked
  <2>2. Cardinality(Matches(company, email[a])) = 1 /\ c \in Matches(company, email[a])
    BY <1>2 DEF CompanyOf
  <2>3. a \notin Matches(company, email[a])
    <3> DEFINE S == Matches(company, email[a])
    <3>1. S \in SUBSET Login
      BY MatchesType, Constants DEF TypeOK
    <3> HIDE DEF S
    <3>2. \E x : S = {x}
      BY <2>2, <3>1, Single DEF S
    <3> QED
      BY <2>2, <3>2 DEF S
  <2>4. Lower(company[a]) # Lower(email[a])
    BY <2>3 DEF Matches, Rows, TypeOK
  <2>5. email[a] \in Email /\ email[a][2] = "plain" /\ Lower(email[a]) = email[a]
    BY WhenUp, Writings DEF TypeOK, Addressed
  <2>6. a \in moved
    BY <2>4, <2>5, WhenUp DEF Addressed
  <2> QED
    BY <2>1, <2>6
<1> QED
  BY <1>1, <1>2

LEMMA DeletesStep ==
  TypeOK /\ Versioned /\ Addressed /\ Linked /\ DeletesOwnUnlessMoved /\ [Next]_vars
    => DeletesOwnUnlessMoved'
<1> SUFFICES ASSUME TypeOK, Versioned, Addressed, Linked, DeletesOwnUnlessMoved, [Next]_vars,
                    NEW d \in taken', d.own, d.company # d.by
             PROVE  d.by \notin since' /\ {d.by, d.company} \cap moved' # {}
  BY DEF DeletesOwnUnlessMoved
<1>a. /\ \A b \in taken : b.own /\ b.company # b.by => b.by \notin since /\ {b.by, b.company} \cap moved # {}
      /\ taken \subseteq [by : Application, company : Application, own : BOOLEAN]
  BY DEF DeletesOwnUnlessMoved, TypeOK
<1> USE DEF start, rows, decisions
<1>b. ASSUME taken' = taken, since' = since, moved \subseteq moved'
      PROVE  d.by \notin since' /\ {d.by, d.company} \cap moved' # {}
  BY <1>a, <1>b
<1>1. ASSUME NEW a \in Application, Approve(a)
      PROVE  d.by \notin since' /\ {d.by, d.company} \cap moved' # {}
  <2>1. status[d.by] = "deleted" /\ status[a] = "pending" /\ d \in taken
    BY <1>1 DEF Approve, Linked
  <2> QED
    BY <1>a, <1>1, <2>1 DEF Approve
<1>2. ASSUME NEW a \in Application, Delete(a)
      PROVE  d.by \notin since' /\ {d.by, d.company} \cap moved' # {}
  <2>1. PICK c \in CompanyOf(a) :
          taken' = taken \cup {[by |-> a, company |-> c, own |-> company[a] # None]}
    BY <1>2, DeleteStep
  <2>2. since' = since /\ moved' = moved /\ server = "up"
    BY <1>2 DEF Delete
  <2>3. CASE d \in taken
    BY <1>a, <2>2, <2>3
  <2>4. CASE d = [by |-> a, company |-> c, own |-> company[a] # None]
    <3>1. company[a] # None /\ c # a /\ d.by = a /\ d.company = c
      BY <2>4
    <3> QED
      BY <2>2, <3>1, Finds
  <2> QED
    BY <2>1, <2>3, <2>4
<1>3. ASSUME NEW a \in Application, NEW e \in Email, UpdateProfile(a, e)
      PROVE  d.by \notin since' /\ {d.by, d.company} \cap moved' # {}
  BY <1>3, <1>b DEF UpdateProfile
<1>4. CASE Run011
  BY <1>4, <1>b DEF Run011
<1> QED
  BY <1>1, <1>2, <1>3, <1>4, <1>b, Steps DEF Start, Mark, Run012, Clean, Crash, Repair, others

LEMMA LinkedStep == TypeOK /\ Versioned /\ Addressed /\ Linked /\ [Next]_vars => Linked'
<1> SUFFICES ASSUME TypeOK, Versioned, Addressed, Linked, [Next]_vars PROVE Linked'
  OBVIOUS
<1>0. /\ version \in 10..12 /\ toCompany \in Links /\ since \subseteq Application
      /\ \A d \in taken : d.by \in Application
  BY DEF TypeOK, Links
<1> USE DEF start, rows, decisions, Latest
<1>a. ASSUME UNCHANGED <<status, company, toCompany, since, moved, taken>>, ~ Pending => ~ Pending'
      PROVE  Linked'
  BY <1>a DEF Linked
<1>1. CASE Run011
  <2>1. since = {} /\ since' = since /\ moved' = moved /\ taken' = taken /\ version' = version /\ dirty' = dirty
    BY <1>1 DEF Run011, Linked, Pending
  <2>2. CASE Unique(NormaliseFree(user))
    <3>1. status' = status
      BY <1>1, <2>2, Committed
    <3>2. ASSUME NEW a \in Application, toCompany'[a] \notin {a, None}, company'[a] # None
          PROVE  {a, toCompany'[a]} \cap moved # {}
      <4>1. company[a] # None /\ company[a] \in Email /\ company'[a] = Plain(company[a])
            /\ email'[a] = Plain(email[a]) /\ email[a] \in Email
        BY <1>1, <2>2, <3>2, Committed DEF TypeOK
      <4>2. CASE toCompany'[a] = toCompany[a]
        BY <3>2, <4>1, <4>2 DEF Linked
      <4>3. CASE Matches(company, email[a])' = {toCompany'[a]}
        <5>1. a \notin Matches(company, email[a])'
          BY <3>2, <4>3
        <5>2. Lower(company'[a]) # Lower(email'[a])
          <6>1. DOMAIN company' = Application
            BY <1>1, <2>2, Committed DEF Emails
          <6> QED
            BY <3>2, <5>1, <6>1 DEF Matches, Rows
        <5>3. Plain(company[a]) # Plain(email[a])
          BY <4>1, <5>2
        <5>4. company[a][1] # email[a][1]
          BY <4>1, <5>3, SamePlain
        <5> QED
          BY <4>1, <5>4 DEF Addressed
      <4> QED
        BY <1>1, <2>2, <4>2, <4>3, CompanyLinks
    <3> QED
      BY <2>1, <3>1, <3>2 DEF Linked
  <2>3. CASE ~ Unique(NormaliseFree(user))
    BY <1>1, <1>a, <2>1, <2>3 DEF Run011, Pending
  <2> QED
    BY <2>2, <2>3
<1>2. CASE Run012
  BY <1>2, <1>a DEF Run012, Pending
<1>3. CASE Start
  BY <1>3, <1>a DEF Start, Pending
<1>4. CASE Mark
  BY <1>0, <1>4, <1>a DEF Mark, Pending, Versioned
<1>5. CASE Clean
  <2>1. since = {}
    BY <1>5 DEF Clean, Linked, Pending, Versioned
  <2> QED
    BY <1>5, <2>1 DEF Clean, Linked
<1>6. CASE Crash
  BY <1>6, <1>a DEF Crash, Pending
<1>7. CASE Repair
  BY <1>7, <1>a DEF Repair, Pending
<1>8. ASSUME NEW a \in Application, Approve(a) PROVE Linked'
  <2>1. /\ toCompany'[a] = a /\ status[a] = "pending" /\ since' = since \cup {a}
        /\ \A x \in Application : x # a =>
             toCompany'[x] = toCompany[x] /\ company'[x] = company[x] /\ status'[x] = status[x]
        /\ moved' = moved /\ taken' = taken /\ server = "up" /\ version' = version /\ dirty' = dirty
    BY <1>8 DEF Approve, TypeOK
  <2>2. ~ Pending /\ ~ Pending'
    BY <2>1, WhenUp DEF Pending
  <2>3. \A d \in taken : status'[d.by] = "deleted"
    BY <1>0, <2>1 DEF Linked
  <2>4. \A x \in since' : company'[x] # None => toCompany'[x] = x
    BY <1>0, <2>1 DEF Linked
  <2>5. ASSUME NEW x \in Application, toCompany'[x] \notin {x, None}, company'[x] # None
        PROVE  {x, toCompany'[x]} \cap moved' # {}
    BY <2>1, <2>5 DEF Linked
  <2> QED
    BY <2>1, <2>2, <2>3, <2>4, <2>5 DEF Linked
<1>9. ASSUME NEW a \in Application, Delete(a) PROVE Linked'
  <2>1. PICK c \in CompanyOf(a) \cap Rows(company) :
           /\ c \in Application /\ company'[c] = None
           /\ \A x \in Application : x # c => company'[x] = company[x]
           /\ \A x \in Application :
                toCompany'[x] = IF toCompany[x] = c \/ x = a THEN None ELSE toCompany[x]
           /\ taken' = taken \cup {[by |-> a, company |-> c, own |-> company[a] # None]}
    BY <1>9, DeleteStep
  <2>2. /\ server = "up" /\ since' = since /\ moved' = moved /\ version' = version /\ dirty' = dirty
        /\ status'[a] = "deleted"
        /\ \A x \in Application : x # a => status'[x] = status[x]
    BY <1>9 DEF Delete, TypeOK
  <2>3. \A d \in taken' : d.by = a \/ (d \in taken /\ d.by \in Application)
    BY <1>0, <2>1
  <2>4. \A d \in taken' : status'[d.by] = "deleted"
    BY <2>2, <2>3 DEF Linked
  <2>5. ASSUME NEW x \in since, company'[x] # None PROVE toCompany'[x] = x
    <3>1. x # c /\ company[x] # None /\ toCompany[x] = x /\ x \in Application
      BY <1>0, <2>1, <2>5 DEF Linked
    <3>2. x # a
      <4> SUFFICES ASSUME x = a PROVE FALSE
        OBVIOUS
      <4> QED
        BY <2>1, <2>2, <2>5, <3>1, Finds
    <3> QED
      BY <2>1, <3>1, <3>2
  <2>6. ASSUME NEW x \in Application, toCompany'[x] \notin {x, None}, company'[x] # None
        PROVE  {x, toCompany'[x]} \cap moved' # {}
    <3>1. toCompany'[x] = toCompany[x] /\ company[x] # None
      BY <2>1, <2>6
    <3> QED
      BY <2>2, <2>6, <3>1 DEF Linked
  <2>7. ~ Pending'
    BY <2>2, WhenUp DEF Pending
  <2> QED
    BY <2>2, <2>4, <2>5, <2>6, <2>7 DEF Linked
<1>10. ASSUME NEW c \in Application, NEW e \in Email, UpdateProfile(c, e) PROVE Linked'
  <2>1. /\ company[c] # None /\ \A x \in Application : x # c => company'[x] = company[x]
        /\ moved \subseteq moved' /\ since' = since /\ taken' = taken /\ status' = status
        /\ toCompany' = toCompany /\ version' = version /\ dirty' = dirty
    BY <1>10 DEF UpdateProfile, TypeOK
  <2>2. \A x \in since : company'[x] # None => toCompany[x] = x
    BY <1>0, <2>1 DEF Linked
  <2>3. ASSUME NEW x \in Application, toCompany[x] \notin {x, None}, company'[x] # None
        PROVE  {x, toCompany[x]} \cap moved' # {}
    BY <2>1, <2>3 DEF Linked
  <2> QED
    BY <2>1, <2>2, <2>3 DEF Linked, Pending
<1>11. CASE UNCHANGED others
  BY <1>11, <1>a DEF others, Pending
<1> QED
  BY <1>1, <1>2, <1>3, <1>4, <1>5, <1>6, <1>7, <1>8, <1>9, <1>10, <1>11, Steps

-----------------------------------------------------------------------------
(* Logins, and those that a resend finds.                                  *)

LEMMA SameAddress ==
  ASSUME NEW e \in Email, NEW f \in Email, Lower(e) = Lower(f)
  PROVE  e[1] = f[1]
<1>1. Lower(e)[1] = e[1] /\ Lower(f)[1] = f[1]
  BY Writings
<1> QED
  BY <1>1

(* A login in use has the address it was opened with.                      *)
LEMMA OpenedAt ==
  ASSUME TypeOK, Owned, NEW u \in Rows(user)
  PROVE  u \in Login /\ user[u] \in Email /\ user[u][1] = Opened(u)
<1>1. u \in Login /\ user[u] \in Email
  BY DEF Rows, TypeOK
<1> QED
  BY <1>1, Constants DEF Owned, Opened

LEMMA SameOpened ==
  ASSUME \A x \in Application : email'[x][1] = email[x][1],
         \A x \in Admin : user'[x][1] = user[x][1]
  PROVE  \A u \in Login : Opened(u)' = Opened(u)
BY Constants DEF Opened

(* 011 rewrites addresses; a login keeps its own, and a link finds it.     *)
LEMMA OwnedCommitted ==
  ASSUME TypeOK, Owned, Administered, since = {}, Run011, Unique(NormaliseFree(user))
  PROVE  /\ Owned' /\ Administered'
         /\ \A x \in Application : email'[x][1] = email[x][1]
         /\ \A u \in Login : Opened(u)' = Opened(u)
<1>1. /\ user \in LoginTables /\ user' = NormaliseFree(user) /\ user' \in LoginTables /\ status' = status
      /\ email \in [Application -> Email] /\ email' \in [Application -> Email]
      /\ DOMAIN user = Login /\ DOMAIN user' = Login
  BY Committed DEF TypeOK, LoginTables
<1>2. reset' = reset /\ since' = {}
  BY DEF Run011, decisions
<1>3. \A x \in Application : email'[x][1] = email[x][1]
  BY <1>1, Committed, Writings
<1>4. ASSUME NEW x \in Login
      PROVE  /\ user[x] = None <=> user'[x] = None
             /\ user[x] # None => user[x] \in Email /\ user'[x] \in Email /\ user'[x][1] = user[x][1]
  <2>1. CASE user[x] = None
    BY <1>1, <2>1, NormalisedUsers
  <2>2. CASE user[x] # None
    <3>1. user[x] \in Email /\ user'[x] \in {user[x], Plain(user[x])}
      BY <1>1, <2>2, NormalisedUsers
    <3> QED
      BY <2>2, <3>1, Writings
  <2> QED
    BY <2>1, <2>2
<1>5. ASSUME NEW u \in Rows(user') \cap Application
      PROVE  company'[u] # None /\ status'[u] # "pending" /\ user'[u][1] = email'[u][1]
  <2>1. u \in Login /\ u \in Rows(user) /\ u \in Rows(user) \cap Application /\ user[u] # None
    BY <1>1, <1>4, Constants DEF Rows
  <2>2. company[u] # None /\ company[u] \in Email
    BY <2>1 DEF Owned, TypeOK
  <2>3. company'[u] = Plain(company[u]) /\ Plain(company[u]) # None
    BY <2>2, Committed, Writings
  <2>4. user[u][1] = email[u][1] /\ status[u] # "pending"
    BY <2>1 DEF Owned
  <2> QED
    BY <1>1, <1>3, <1>4, <2>1, <2>3, <2>4
<1>6. ASSUME NEW a \in Application, toUser'[a] # None
      PROVE  user'[toUser'[a]] # None /\ user'[toUser'[a]][1] = email'[a][1]
  <2> DEFINE u == toUser'[a]
  <2>1. u \in Login /\ (u = toUser[a] \/ Matches(user, email[a])' = {u})
    BY <1>6, UserLinks DEF LoginLinks
  <2>2. CASE u = toUser[a]
    <3>1. user[u] # None /\ user[u][1] = email[a][1]
      BY <1>6, <2>2 DEF Owned
    <3> QED
      BY <1>3, <1>4, <2>1, <3>1
  <2>3. CASE Matches(user, email[a])' = {u}
    <3>1. u \in Rows(user') /\ Lower(user'[u]) = Lower(email'[a])
      BY <2>3 DEF Matches
    <3>2. user'[u] # None /\ user'[u] \in Email /\ email'[a] \in Email
      BY <1>1, <2>1, <3>1 DEF Rows, LoginTables
    <3> QED
      BY <3>1, <3>2, SameAddress
  <2> QED
    BY <2>1, <2>2, <2>3
<1>7. \A d \in reset' : status'[d.by] # "pending" /\ (d.user \in Application => status'[d.user] # "pending")
  BY <1>1, <1>2 DEF Owned
<1>8. Administered'
  BY <1>1, <1>2, <1>4, Constants DEF Administered, Rows
<1>9. \A x \in Admin : user'[x][1] = user[x][1]
  BY <1>1, <1>4, Constants DEF Administered, Rows
<1> QED
  BY <1>2, <1>3, <1>5, <1>6, <1>7, <1>8, <1>9, SameOpened DEF Owned

(* The users that a resend finds.                                          *)
LEMMA FindsUsers ==
  ASSUME TypeOK, Owned, Administered, NEW a \in Application, NEW u \in UsersOf(a),
         UsersOf(a) \cap Rows(company) # {}
  PROVE  /\ u \in Rows(user) /\ Opened(u) = email[a][1]
         /\ u \in Application => status[u] # "pending"
         /\ u \in Admin => a \notin since
         /\ u # a /\ a \in Matches(user, email[a]) => u \notin since /\ a \notin since
<1>0. /\ \A x \in Application : email[x] \in Email
      /\ \A x \in Rows(user) : x \in Login /\ user[x] \in Email
      /\ Rows(company) \subseteq Application
      /\ since \subseteq Application
  BY DEF TypeOK, Rows
<1>1. CASE toUser[a] # None
  <2>1. u = toUser[a] /\ u \in Rows(user) /\ UsersOf(a) = {u}
    BY <1>1 DEF UsersOf
  <2>2. user[u][1] = email[a][1] /\ (u \in since => u = a)
    BY <1>1, <2>1 DEF Owned
  <2>3. a \in Matches(user, email[a]) /\ a \in since => u = a
    BY <2>1 DEF Owned, Matches
  <2>4. u \in Application /\ u \notin Admin
    BY <1>0, <2>1, UpgradeAssumption
  <2>5. status[u] # "pending"
    BY <2>1, <2>4 DEF Owned
  <2> QED
    BY <2>1, <2>2, <2>3, <2>4, <2>5, OpenedAt
<1>2. CASE toUser[a] = None
  <2>1. u \in Matches(user, email[a]) /\ u \in Rows(user) /\ Lower(user[u]) = Lower(email[a])
    BY <1>2 DEF UsersOf, Matches
  <2>2. user[u] \in Email /\ email[a] \in Email
    BY <1>0, <2>1
  <2>3. Opened(u) = email[a][1]
    BY <2>1, <2>2, SameAddress, OpenedAt
  <2>4. ASSUME a \in Matches(user, email[a]), u \in since PROVE u = a
    <3>1. Matches(user, email[u]) = {u}
      BY <2>1, <2>4 DEF Owned
    <3>2. a \in Rows(user) /\ Lower(user[a]) = Lower(email[a])
      BY <2>4 DEF Matches
    <3>3. Lower(user[u]) = Lower(email[u])
      BY <3>1 DEF Matches
    <3>4. a \in Matches(user, email[u])
      BY <2>1, <3>2, <3>3 DEF Matches
    <3> QED
      BY <3>1, <3>4
  <2>5. a \in Matches(user, email[a]) => a \notin since
    BY <1>2, UpgradeAssumption DEF Owned, Matches
  <2>6. u \in Admin => a \notin since
    BY <2>1 DEF Administered
  <2>7. u \in Application => status[u] # "pending"
    BY <2>1 DEF Owned
  <2> QED
    BY <2>1, <2>3, <2>4, <2>5, <2>6, <2>7
<1> QED
  BY <1>1, <1>2

Accounted == Owned /\ Administered /\ ResetsOwnUnlessShared

LEMMA OwnedStep == TypeOK /\ Versioned /\ Linked /\ Accounted /\ [Next]_vars => Accounted'
<1> SUFFICES ASSUME TypeOK, Versioned, Linked, Owned, Administered, ResetsOwnUnlessShared, [Next]_vars
             PROVE  Accounted'
  BY DEF Accounted
<1>0. /\ \A x \in Application : email[x] \in Email
      /\ \A x \in Login : user[x] \in Email \cup {None}
      /\ \A x \in Application : toUser[x] \in Login \cup {None}
      /\ \A d \in reset : d.by \in Application /\ d.user \in Login
      /\ since \subseteq Application /\ DOMAIN user = Login
      /\ \A x \in Rows(user) : x \in Login /\ user[x] # None
  BY DEF TypeOK, Rows
<1> USE DEF start, rows, decisions
<1>a. ASSUME UNCHANGED <<status, email, company, user, toUser, since, reset>>
      PROVE  Accounted'
  BY <1>a DEF Accounted, Owned, Administered, ResetsOwnUnlessShared, Opened, Rows, Matches
<1>1. CASE Run011
  <2>1. since = {} /\ since' = since /\ reset' = reset
    BY <1>1 DEF Run011, Linked, Pending, Versioned
  <2>2. CASE Unique(NormaliseFree(user))
    <3>1. /\ Owned' /\ Administered'
          /\ \A x \in Application : email'[x][1] = email[x][1]
          /\ \A u \in Login : Opened(u)' = Opened(u)
      BY <1>1, <2>1, <2>2, OwnedCommitted
    <3>2. ResetsOwnUnlessShared'
      BY <1>0, <2>1, <3>1 DEF ResetsOwnUnlessShared
    <3> QED
      BY <3>1, <3>2 DEF Accounted
  <2>3. CASE ~ Unique(NormaliseFree(user))
    BY <1>1, <1>a, <2>3 DEF Run011
  <2> QED
    BY <2>2, <2>3
<1>2. ASSUME NEW a \in Application, Approve(a) PROVE Accounted'
  <2> DEFINE e == Plain(email[a])
  <2>1. e \in Email /\ e[1] = email[a][1] /\ e # None
    BY <1>0, Writings
  <2>2. /\ company'[a] = e /\ user'[a] = e /\ email'[a] = e /\ toUser'[a] = a /\ status'[a] = "approved"
        /\ DOMAIN user' = Login /\ \A x \in Login : x # a => user'[x] = user[x]
        /\ \A x \in Application : x # a =>
             /\ company'[x] = company[x] /\ email'[x] = email[x]
             /\ toUser'[x] = toUser[x] /\ status'[x] = status[x]
        /\ since' = since \cup {a} /\ reset' = reset /\ status[a] = "pending"
        /\ Matches(user, e) = {}
    BY <1>2, Constants DEF Approve, TypeOK
  <2> HIDE DEF e
  <2>a. a \in Login /\ a \notin Admin
    BY Constants
  <2>3. user[a] = None
    BY <1>0, <2>2, <2>a DEF Owned, Rows
  <2>4. \A x \in Application : email'[x][1] = email[x][1]
    BY <2>1, <2>2
  <2>b. \A u \in Login : Opened(u)' = Opened(u)
    <3>1. \A x \in Admin : user'[x][1] = user[x][1]
      BY <2>2, <2>a, Constants
    <3> QED
      BY <2>4, <3>1, SameOpened
  <2>5. ASSUME NEW u \in Rows(user') \cap Application
        PROVE  company'[u] # None /\ status'[u] # "pending" /\ user'[u][1] = email'[u][1]
    <3>1. u \in Login /\ (u # a => u \in Rows(user) \cap Application)
      BY <1>0, <2>2 DEF Rows
    <3> QED
      BY <2>1, <2>2, <3>1 DEF Owned
  <2>6. ASSUME NEW x \in Application, toUser'[x] # None
        PROVE  /\ user'[toUser'[x]] # None /\ user'[toUser'[x]][1] = email'[x][1]
               /\ (toUser'[x] \in since' => toUser'[x] = x)
    <3>1. CASE x = a
      BY <2>1, <2>2, <3>1
    <3>2. CASE x # a
      <4>1. /\ toUser'[x] = toUser[x] /\ toUser[x] \in Login /\ user[toUser[x]] # None
            /\ user[toUser[x]][1] = email[x][1] /\ (toUser[x] \in since => toUser[x] = x)
        BY <1>0, <2>2, <2>6, <3>2 DEF Owned
      <4>2. toUser[x] # a
        BY <2>3, <4>1
      <4> QED
        BY <2>2, <2>4, <4>1, <4>2
    <3> QED
      BY <3>1, <3>2
  <2>c. \A z : z \in Rows(user') <=> z \in Rows(user) \/ z = a
    BY <1>0, <2>1, <2>2, <2>a DEF Rows
  <2>d. \A z \in Rows(user) : Lower(user[z]) # Lower(e) /\ z # a
    BY <2>2, <2>3 DEF Matches, Rows
  <2>e. ASSUME NEW u \in since, u # a
        PROVE  Matches(user', email'[u]) = Matches(user, email[u]) \cup (IF Lower(email[u]) = Lower(e) THEN {a} ELSE {})
    <3> DEFINE p == Lower(email[u])
    <3>1. u \in Application /\ Lower(email'[u]) = p
      BY <1>0, <2>2, <2>e
    <3>2. \A z \in Rows(user) : user'[z] = user[z]
      BY <1>0, <2>2, <2>d
    <3>3. Lower(user'[a]) = Lower(e)
      BY <2>2
    <3> HIDE DEF p
    <3>4. /\ \A z : z \in Matches(user', email'[u]) <=> z \in Rows(user') /\ Lower(user'[z]) = p
          /\ \A z : z \in Matches(user, email[u]) <=> z \in Rows(user) /\ Lower(user[z]) = p
      BY <3>1 DEF Matches, p
    <3> QED
      BY <2>c, <2>d, <3>2, <3>3, <3>4 DEF p
  <2>7. ASSUME NEW u \in since' \cap Rows(user')
        PROVE  toUser'[u] = u /\ Matches(user', email'[u]) = {u}
    <3>1. u \in Application
      BY <1>0, <2>2
    <3>4. CASE u = a
      BY <2>2, <2>c, <2>d, <3>4, <1>0 DEF Matches
    <3>5. CASE u # a
      <4>1. /\ u \in since /\ u \in Rows(user) /\ toUser[u] = u /\ Matches(user, email[u]) = {u}
        BY <2>2, <2>c, <3>5 DEF Owned
      <4>2. Lower(user[u]) = Lower(email[u]) /\ Lower(user[u]) # Lower(e)
        BY <2>d, <4>1 DEF Matches
      <4>3. Matches(user', email'[u]) = {u}
        BY <2>e, <3>5, <4>1, <4>2
      <4> QED
        BY <2>2, <3>1, <3>5, <4>1, <4>3
    <3> QED
      BY <3>4, <3>5
  <2>8. \A d \in reset : /\ d.by # a /\ d.user # a /\ status'[d.by] # "pending"
                         /\ (d.user \in Application => status'[d.user] # "pending")
    BY <1>0, <2>2 DEF Owned
  <2>9. ResetsOwnUnlessShared'
    BY <1>0, <2>2, <2>4, <2>8, <2>b DEF ResetsOwnUnlessShared
  <2>10. Administered'
    <3>1. Admin \subseteq Rows(user')
      BY <2>c DEF Administered
    <3>2. ASSUME NEW x \in since' PROVE Matches(user', email'[x]) \cap Admin = {}
      <4>1. CASE x = a
        BY <2>2, <2>a, <2>c, <2>d, <4>1, <1>0 DEF Matches
      <4>2. CASE x # a
        BY <2>2, <2>a, <2>e, <4>2 DEF Administered
      <4> QED
        BY <4>1, <4>2
    <3> QED
      BY <3>1, <3>2 DEF Administered
  <2>11. Owned'
    BY <2>2, <2>5, <2>6, <2>7, <2>8 DEF Owned
  <2> QED
    BY <2>9, <2>10, <2>11 DEF Accounted
<1>3. ASSUME NEW a \in Application, Resend(a) PROVE Accounted'
  <2> DEFINE own == a \in Matches(user, email[a])
  <2>1. /\ UNCHANGED <<status, email, company, user, toUser, since>>
        /\ status[a] = "approved" /\ UsersOf(a) \cap Rows(company) # {}
        /\ reset' = reset \cup {[by |-> a, user |-> u, own |-> own] : u \in UsersOf(a)}
    BY <1>3 DEF Resend
  <2> HIDE DEF own
  <2>2. ASSUME NEW d \in reset', d \notin reset
        PROVE  d.by = a /\ d.user \in UsersOf(a) /\ d.own = own
    BY <2>1, <2>2
  <2>3. ASSUME NEW d \in reset', d \notin reset
        PROVE  /\ status[d.by] # "pending" /\ (d.user \in Application => status[d.user] # "pending")
               /\ d.user # d.by =>
                    /\ Opened(d.user) = email[d.by][1]
                    /\ d.user \in Admin => d.by \notin since
                    /\ d.own => {d.by, d.user} \cap since = {}
    <3>1. /\ Opened(d.user) = email[a][1]
          /\ d.user \in Application => status[d.user] # "pending"
          /\ d.user \in Admin => a \notin since
          /\ d.user # a /\ a \in Matches(user, email[a]) => d.user \notin since /\ a \notin since
      BY <2>1, <2>2, <2>3, FindsUsers
    <3>2. d.own => a \in Matches(user, email[a])
      BY <2>2, <2>3 DEF own
    <3> QED
      BY <2>1, <2>2, <2>3, <3>1, <3>2
  <2>4. \A u : Opened(u)' = Opened(u)
    BY <2>1 DEF Opened
  <2>5. ResetsOwnUnlessShared'
    BY <2>1, <2>3, <2>4 DEF ResetsOwnUnlessShared
  <2>6. /\ Rows(user') = Rows(user)
        /\ \A x \in Application : Matches(user', email'[x]) = Matches(user, email[x])
    BY <2>1 DEF Rows, Matches
  <2>7. \A d \in reset' : /\ status'[d.by] # "pending"
                          /\ (d.user \in Application => status'[d.user] # "pending")
    BY <2>1, <2>3 DEF Owned
  <2>8. Owned'
    BY <1>0, <2>1, <2>6, <2>7 DEF Owned
  <2>9. Administered'
    BY <1>0, <2>1, <2>6 DEF Administered
  <2> QED
    BY <2>5, <2>8, <2>9 DEF Accounted
<1>4. ASSUME NEW a \in Application, Delete(a) PROVE Accounted'
  <2>1. PICK c \in CompanyOf(a) \cap Rows(company) :
           /\ c \in Application /\ company'[c] = None /\ user'[c] = None /\ DOMAIN user' = Login
           /\ \A x \in Application : x # c => company'[x] = company[x]
           /\ \A x \in Login : x # c => user'[x] = user[x]
           /\ \A x \in Application : toUser'[x] = IF toUser[x] = c \/ x = a THEN None ELSE toUser[x]
    BY <1>4, DeleteStep
  <2>2. /\ UNCHANGED <<email, since, reset>> /\ server = "up"
        /\ status'[a] = "deleted" /\ \A x \in Application : x # a => status'[x] = status[x]
    BY <1>4 DEF Delete, TypeOK
  <2>3. ASSUME NEW u \in Rows(user')
        PROVE  u \in Rows(user) /\ u # c /\ user'[u] = user[u]
    BY <1>0, <2>1 DEF Rows
  <2>a. \A x \in Admin : x # c /\ x \in Login /\ user'[x] = user[x]
    BY <2>1, Constants
  <2>b. \A x \in Application : \A z \in Matches(user', email[x]) : z \in Matches(user, email[x])
    BY <2>3 DEF Matches
  <2>4. ASSUME NEW u \in Rows(user') \cap Application
        PROVE  company'[u] # None /\ status'[u] # "pending" /\ user'[u][1] = email'[u][1]
    BY <1>0, <2>1, <2>2, <2>3 DEF Owned
  <2>5. ASSUME NEW x \in Application, toUser'[x] # None
        PROVE  /\ user'[toUser'[x]] # None /\ user'[toUser'[x]][1] = email'[x][1]
               /\ (toUser'[x] \in since' => toUser'[x] = x)
    BY <1>0, <2>1, <2>2, <2>5 DEF Owned
  <2>6. ASSUME NEW u \in since' \cap Rows(user')
        PROVE  toUser'[u] = u /\ Matches(user', email'[u]) = {u}
    <3>1. u \in since /\ u \in Application /\ u \in Rows(user) /\ u # c /\ toUser[u] = u /\ company[u] # None
      BY <1>0, <2>2, <2>3 DEF Owned
    <3>2. u # a
      <4> SUFFICES ASSUME u = a PROVE FALSE
        OBVIOUS
      <4>1. toCompany[a] = a
        BY <3>1 DEF Linked
      <4>2. c = a
        BY <1>0, <2>1, <4>1, UpgradeAssumption DEF CompanyOf
      <4> QED
        BY <3>1, <4>2
    <3>4. u \in Matches(user', email[u])
      <4>1. Matches(user, email[u]) = {u}
        BY <3>1 DEF Owned
      <4> QED
        BY <2>3, <4>1 DEF Matches
    <3>5. Matches(user, email[u]) = {u} /\ toUser'[u] = u
      BY <1>0, <2>1, <3>1, <3>2 DEF Owned
    <3>6. Matches(user', email[u]) = {u}
      BY <2>b, <3>1, <3>4, <3>5
    <3> QED
      BY <2>2, <3>5, <3>6
  <2>7. \A d \in reset' : /\ status'[d.by] # "pending"
                          /\ (d.user \in Application => status'[d.user] # "pending")
    BY <1>0, <2>2 DEF Owned
  <2>8. ResetsOwnUnlessShared'
    <3>1. \A u \in Login : Opened(u)' = Opened(u)
      BY <2>2, <2>a, SameOpened
    <3> QED
      BY <1>0, <2>2, <3>1 DEF ResetsOwnUnlessShared
  <2>9. Administered'
    <3>1. Admin \subseteq Rows(user')
      BY <2>1, <2>a DEF Administered, Rows
    <3>2. \A x \in since : Matches(user', email[x]) \cap Admin = {}
      BY <1>0, <2>b DEF Administered
    <3> QED
      BY <2>2, <3>1, <3>2 DEF Administered
  <2>10. Owned'
    BY <2>2, <2>4, <2>5, <2>6, <2>7 DEF Owned
  <2> QED
    BY <2>8, <2>9, <2>10 DEF Accounted
<1>5. ASSUME NEW c \in Application, NEW e \in Email, UpdateProfile(c, e) PROVE Accounted'
  <2>1. /\ UNCHANGED <<status, email, user, toUser, since, reset>>
        /\ \A x \in Application : company[x] # None => company'[x] # None
    BY <1>5, UpgradeAssumption DEF UpdateProfile, TypeOK
  <2>2. Administered' /\ ResetsOwnUnlessShared'
    BY <2>1 DEF Administered, ResetsOwnUnlessShared, Opened, Rows, Matches
  <2>3. Owned'
    BY <1>0, <2>1 DEF Owned, Rows, Matches
  <2> QED
    BY <2>2, <2>3 DEF Accounted
<1>6. CASE ~ \E a \in Application : Resend(a)
  BY <1>6, <1>1, <1>2, <1>4, <1>5, <1>a, Steps, ResetSteps
     DEF Start, Mark, Run012, Clean, Crash, Repair, others
<1> QED
  BY <1>3, <1>6

-----------------------------------------------------------------------------
LEMMA InitInv == Init => UpgradeInv
<1> SUFFICES ASSUME Init PROVE UpgradeInv
  OBVIOUS
<1>1. TypeOK
  <2>1. /\ status \in [Application -> {"pending", "approved", "deleted"}]
        /\ email \in [Application -> Email] /\ long \subseteq Application /\ company \in Emails
    BY DEF Init, Emails
  <2>2. user \in LoginTables
    BY <2>1, Constants, UpgradeAssumption DEF Init, LoginTables
  <2>3. toCompany \in Links /\ toUser \in LoginLinks
    BY DEF Init, Links, LoginLinks
  <2>4. moved \subseteq Application /\ since = {} /\ taken = {} /\ reset = {}
    BY DEF Init, Rows
  <2>5. server = "down" /\ version = 10 /\ dirty = FALSE /\ crashed = FALSE /\ applied = 10
    BY DEF Init
  <2>6. dirty \in BOOLEAN /\ crashed \in BOOLEAN
    BY <2>5, Zenon
  <2>8. /\ server \in {"down", "mark", "run", "clean", "up", "failed"}
        /\ version \in 10..12 /\ applied \in 10..12
    BY <2>5
  <2>7. /\ since \subseteq Application /\ taken \subseteq [by : Application, company : Application, own : BOOLEAN]
        /\ reset \subseteq [by : Application, user : Login, own : BOOLEAN]
    BY <2>4
  <2> QED
    BY <2>1, <2>2, <2>3, <2>4, <2>6, <2>7, <2>8 DEF TypeOK, Emails, LoginTables, Links, LoginLinks
<1>2. Versioned /\ Failed /\ BlockedByCollisionOnly /\ AllDecidable
  BY DEF Init, Versioned, Failed, BlockedByCollisionOnly, AllDecidable, Latest
<1>3. Addressed /\ Upgraded /\ DeletesOwnUnlessMoved
  BY DEF Init, Addressed, Upgraded, DeletesOwnUnlessMoved, Rows
<1>4. Linked
  BY DEF Init, Linked
<1>5. Owned /\ Administered /\ ResetsOwnUnlessShared
  BY Constants, UpgradeAssumption DEF Init, Owned, Administered, ResetsOwnUnlessShared, Rows
<1> QED
  BY <1>1, <1>2, <1>3, <1>4, <1>5 DEF UpgradeInv

(* The invariant of upgrades, and of the decisions that follow them.       *)
THEOREM Invariant == Spec => []UpgradeInv
<1>1. UpgradeInv /\ [Next]_vars => UpgradeInv'
  <2> SUFFICES ASSUME UpgradeInv, [Next]_vars PROVE UpgradeInv'
    OBVIOUS
  <2>1. TypeOK' /\ Versioned' /\ Failed'
    BY TypeStep, VersionStep DEF UpgradeInv
  <2>2. (TypeOK /\ Versioned => AllDecidable)'
    BY Decidable, PTL
  <2>3. BlockedByCollisionOnly' /\ Addressed' /\ Upgraded'
    BY BlockedStep, AddressStep, UpgradedStep DEF UpgradeInv
  <2>4. Linked' /\ DeletesOwnUnlessMoved'
    BY LinkedStep, DeletesStep DEF UpgradeInv
  <2>5. Owned' /\ Administered' /\ ResetsOwnUnlessShared'
    BY OwnedStep DEF UpgradeInv, Accounted
  <2> QED
    BY <2>1, <2>2, <2>3, <2>4, <2>5 DEF UpgradeInv
<1> QED
  BY InitInv, <1>1, PTL DEF Spec

(* A start fails after a crash, or over two users whose addresses are      *)
(* rewritten to the same one.                                              *)
THEOREM Blocked == Spec => []BlockedByCollisionOnly
BY Invariant, PTL DEF UpgradeInv

(* No row that 011's CHECK refuses is left when the server answers.        *)
THEOREM DecidableAll == Spec => []AllDecidable
BY Invariant, PTL DEF UpgradeInv

(* A delete takes another company than the application's own only if one   *)
(* of the two has changed its address and the link is an older one.        *)
THEOREM Deletes == Spec => []DeletesOwnUnlessMoved
BY Invariant, PTL DEF UpgradeInv

(* A resend replaces another's password only among logins opened with one  *)
(* address, an administrator's only for an application that an older       *)
(* version approved, and, while its own user has the address, another      *)
(* application's only if an older version approved both.                   *)
THEOREM ResendsOwn == Spec => []ResetsOwnUnlessShared
BY Invariant, PTL DEF UpgradeInv

-----------------------------------------------------------------------------
Again == server = "run" /\ server' = "clean" /\ applied >= version => UNCHANGED rows

LEMMA AgainStep == UpgradeInv /\ [Next]_vars => Again
<1> SUFFICES ASSUME UpgradeInv, [Next]_vars, server = "run", server' = "clean", applied >= version
             PROVE  UNCHANGED rows
  BY DEF Again
<1>0. /\ TypeOK /\ Versioned /\ Addressed /\ Upgraded /\ Pending
      /\ version \in 10..12 /\ applied \in 10..12
  BY DEF UpgradeInv, TypeOK, Versioned, Pending
<1>1. CASE Run011
  <2>1. /\ version = 11 /\ applied > 10 /\ Unique(NormaliseFree(user))
        /\ NormaliseFree(user) = user /\ Normalise(company) = company
    BY <1>0, <1>1 DEF Run011, Upgraded
  <2>2. user' = user /\ company' = company /\ status' = status /\ long' = long
    BY <1>0, <1>1, <2>1, Committed
  <2>3. email' = email
    <3>1. ASSUME NEW a \in Application PROVE email'[a] = email[a]
      <4>1. email[a] \in Email /\ email[a][2] = "plain" /\ email'[a] = Plain(email[a])
        BY <1>0, <1>1, <2>1, Committed DEF TypeOK, Addressed
      <4> QED
        BY <4>1, Writings
    <3>2. email \in [Application -> Email] /\ email' \in [Application -> Email]
      BY <1>0, <1>1, <2>1, Committed DEF TypeOK
    <3> QED
      BY <3>1, <3>2
  <2>4. ASSUME NEW a \in Application
        PROVE  /\ status[a] = "approved" /\ toCompany[a] = None => Cardinality(Matches(company', email'[a])) # 1
               /\ status[a] = "approved" /\ toUser[a] = None => Cardinality(Matches(user', email'[a])) # 1
    BY <1>0, <2>1, <2>2, <2>3 DEF Upgraded
  <2>5. toCompany' = Backfill(toCompany, company) /\ toUser' = Backfill(toUser, user)
    BY <1>0, <1>1, <2>1, Committed
  <2>6. \A a \in Application : toCompany'[a] = toCompany[a]
    BY <2>4, <2>5 DEF Backfill
  <2>7. \A a \in Application : toUser'[a] = toUser[a]
    BY <2>4, <2>5 DEF Backfill
  <2>8. toCompany \in Links /\ toUser \in LoginLinks /\ toCompany' \in Links /\ toUser' \in LoginLinks
    BY <1>0, <1>1, <2>1, CompanyLinks, UserLinks DEF TypeOK, Links, LoginLinks
  <2>9. toCompany' = toCompany /\ toUser' = toUser
    BY <2>6, <2>7, <2>8 DEF Links, LoginLinks
  <2> QED
    BY <2>2, <2>3, <2>9 DEF rows
<1>2. CASE Run012
  <2>1. long = {}
    BY <1>0, <1>2 DEF Run012, Versioned, Latest
  <2> QED
    BY <1>2, <2>1 DEF Run012, rows
<1>3. ASSUME NEW a \in Application, Approve(a) \/ Delete(a) PROVE FALSE
  BY <1>3 DEF Approve, Delete
<1>4. ASSUME NEW a \in Application, NEW e \in Email, UpdateProfile(a, e) PROVE FALSE
  BY <1>4 DEF UpdateProfile
<1> QED
  BY <1>1, <1>2, <1>3, <1>4, Steps DEF Start, Mark, Clean, Crash, Repair, others, start

(* A file that runs a second time changes nothing.                         *)
THEOREM InVain == Spec => RunsAgainInVain
<1>1. UpgradeInv /\ [Next]_vars => [Again]_vars
  BY AgainStep
<1> QED
  BY <1>1, Invariant, PTL DEF Spec, RunsAgainInVain, Again

-----------------------------------------------------------------------------
Survive == \A u \in Rows(user) : server # "up" /\ Found(u) => Found(u)'

LEMMA SurviveStep == UpgradeInv /\ [Next]_vars => Survive
<1> SUFFICES ASSUME UpgradeInv, [Next]_vars, NEW u \in Rows(user), server # "up", Found(u)
             PROVE  Found(u)'
  BY DEF Survive
<1>0. TypeOK /\ user \in LoginTables /\ DOMAIN user = Login
  BY DEF UpgradeInv, TypeOK, LoginTables
<1>1. CASE user' = user
  BY <1>1 DEF Found
<1>2. CASE Run011 /\ Unique(NormaliseFree(user))
  <2> DEFINE p == Plain(user[u])
  <2>1. /\ user' = NormaliseFree(user) /\ user' \in LoginTables /\ DOMAIN user' = Login /\ Unique(user')
    BY <1>0, <1>2, Committed DEF LoginTables
  <2>2. u \in Login /\ user[u] \in Email /\ p \in Email /\ Plain(p) = p /\ Lower(p) = p
    BY <1>0, Writings DEF Rows, LoginTables
  <2>3. /\ Lower(user[u]) = p
        /\ \A z \in Rows(user) : Lower(user[z]) = p => z = u
    BY <2>2 DEF Found, Matches
  <2>4. /\ user'[u] \in {p, user[u]}
        /\ user'[u] = p \/ \E y \in Rows(user) \ {u} : user[y] = p
    BY <1>0, <2>1, <2>2, NormalisedUsers DEF Rows
  <2>5. user'[u] = p
    BY <2>2, <2>3, <2>4
  <2>6. Plain(user'[u]) = p /\ Lower(user'[u]) = p /\ user'[u] # None
    BY <2>2, <2>5, Writings
  <2>7. ASSUME NEW z \in Rows(user'), Lower(user'[z]) = p PROVE z = u
    <3>1. z \in Login /\ user'[z] # None
      BY <2>1 DEF Rows
    <3>2. z \in Rows(user) /\ user[z] \in Email
      BY <1>0, <2>1, <3>1, NormalisedUsers DEF Rows, LoginTables
    <3>3. CASE user'[z] = user[z]
      BY <2>3, <2>7, <3>2, <3>3
    <3>4. CASE user'[z] = Plain(user[z])
      <4>1. user'[z] = p
        BY <2>7, <3>2, <3>4, Writings
      <4>2. u \in Rows(user')
        BY <2>1, <2>2, <2>6 DEF Rows
      <4> QED
        BY <2>1, <2>5, <4>1, <4>2 DEF Unique
    <3> QED
      BY <1>0, <2>1, <3>1, <3>2, <3>3, <3>4, NormalisedUsers DEF Rows
  <2>8. u \in Rows(user')
    BY <2>1, <2>2, <2>6 DEF Rows
  <2>9. Matches(user', p) = {u}
    <3> HIDE DEF p
    <3>1. \A z : z \in Matches(user', p) <=> z \in Rows(user') /\ Lower(user'[z]) = p
      BY <2>2 DEF Matches
    <3> QED
      BY <2>6, <2>7, <2>8, <3>1
  <2> QED
    BY <2>6, <2>9 DEF Found
<1>3. CASE Run011 /\ ~ Unique(NormaliseFree(user))
  BY <1>1, <1>3 DEF Run011, rows
<1>4. ASSUME NEW a \in Application, Approve(a) \/ Delete(a) PROVE FALSE
  BY <1>4 DEF Approve, Delete
<1>5. ASSUME NEW a \in Application, NEW e \in Email, UpdateProfile(a, e) PROVE FALSE
  BY <1>5 DEF UpdateProfile
<1> QED
  BY <1>1, <1>2, <1>3, <1>4, <1>5, Steps DEF Start, Mark, Run012, Clean, Crash, Repair, others, rows

(* Whoever was found by the address of a login still is after an upgrade.  *)
THEOREM Logins == Spec => LoginsSurvive
<1>1. UpgradeInv /\ [Next]_vars => [Survive]_vars
  BY SurviveStep
<1> QED
  BY <1>1, Invariant, PTL DEF Spec, LoginsSurvive, Survive
=============================================================================
