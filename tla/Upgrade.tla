-------------------------------- MODULE Upgrade --------------------------------
(***************************************************************************)
(* The start of this version over a database of an older one: migrations   *)
(* 011 and 012 (RunMigrations), and what the administrator's approve,      *)
(* resend and delete do afterwards with accounts older than the links that *)
(* 011 adds.                                                               *)
(* Application a, once approved, has company a and user a: that identity   *)
(* is what the links try to recover.  Administrators have logins of their  *)
(* own, with no company, in the same table.                                *)
(***************************************************************************)
EXTENDS Naturals, FiniteSets

CONSTANTS
  Application,  \* provider_registrations.id, and of the company and user it opened
  Admin,        \* users.id of the administrators
  Address,      \* addresses in small letters and without spaces around them
  AdminEmail,   \* administrators' addresses as they may have been written
  None          \* NULL, and no row

(* How an address is written: as lower(btrim(.)) leaves it, with capitals, *)
(* or with spaces around it, which lower(.) alone does not remove.         *)
Form == {"plain", "capital", "padded"}
Email == Address \X Form

ASSUME UpgradeAssumption ==
  /\ IsFiniteSet(Application) /\ IsFiniteSet(Admin) /\ Application \cap Admin = {}
  /\ AdminEmail \subseteq Email
  /\ None \notin Application \cup Admin \cup Email

Login == Application \cup Admin  \* users.id

VARIABLES
  server,   \* where the start is
  version,  \* schema_migrations.version
  dirty,    \* schema_migrations.dirty
  status,   \* provider_registrations.status
  email,    \* provider_registrations.email
  long,     \* rows of provider_registrations over the limit of a description
  company,  \* companies.email by id, None when there is no such company
  user,     \* users.email by id, of the applications' users and of administrators
  toCompany, toUser,  \* the links, provider_registrations.company_id and user_id
  crashed,  \* history: the process died during a start
  applied,  \* history: the last migration whose file was committed
  since,    \* history: the applications approved by this version
  moved,    \* history: the companies that have changed their address
  taken,    \* history: deletes: by which application, of which company,
            \* and whether the application's own company was there
  reset     \* history: resends: by which application, of which user's login,
            \* and whether the application's own user had its address

start == <<server, version, dirty, crashed, applied>>
rows == <<status, email, long, company, user, toCompany, toUser>>
decisions == <<since, moved, taken, reset>>
vars == <<start, rows, decisions>>

Plain(e) == <<e[1], "plain">>
Lower(e) == IF e[2] = "capital" THEN Plain(e) ELSE e
Rows(table) == {x \in DOMAIN table : table[x] # None}

(* lower(email) = lower($1).                                               *)
Matches(table, e) == {x \in Rows(table) : Lower(table[x]) = Lower(e)}

(* users.email is UNIQUE as it is written.                                 *)
Unique(table) == \A x, y \in Rows(table) : table[x] = table[y] => x = y

(* What the older version may have left.                                   *)
Init ==
  /\ server = "down" /\ version = 10 /\ dirty = FALSE /\ crashed = FALSE /\ applied = 10
  /\ status \in [Application -> {"pending", "approved"}]
  /\ email \in [Application -> Email]
  /\ long \in SUBSET Application
  /\ \E written \in [Admin -> AdminEmail] :
       user = [u \in Login |-> IF u \in Admin THEN written[u]
                               ELSE IF status[u] = "approved" THEN email[u] ELSE None]
  /\ Unique(user)
  /\ company \in [Application -> Email \cup {None}]
  /\ \A a \in Application : company[a] # None <=> status[a] = "approved"
  /\ toCompany = [a \in Application |-> None] /\ toUser = [a \in Application |-> None]
  /\ since = {} /\ taken = {} /\ reset = {}
  /\ moved = {a \in Rows(company) : company[a][1] # email[a][1]}

-----------------------------------------------------------------------------
(* RunMigrations at each start, and the library's account of versions.     *)
Latest == 12

Start ==
  /\ server = "down"
  /\ server' = IF dirty THEN "failed" ELSE IF version < Latest THEN "mark" ELSE "up"
  /\ UNCHANGED <<version, dirty, crashed, applied, rows, decisions>>

Mark ==
  /\ server = "mark"
  /\ server' = "run" /\ version' = version + 1 /\ dirty' = TRUE
  /\ UNCHANGED <<crashed, applied, rows, decisions>>

(* Mutant: every user's address is rewritten.                              *)
NormaliseAll(table) == [x \in DOMAIN table |-> IF table[x] = None THEN None ELSE Plain(table[x])]

(* Mutant: spaces go, capitals stay.                                       *)
NormaliseTrim(table) ==
  [x \in DOMAIN table |->
    IF table[x] # None /\ table[x][2] = "padded" THEN <<table[x][1], "capital">> ELSE table[x]]

(* UPDATE users: not where another row is written so already.              *)
NormaliseFree(table) ==
  [x \in DOMAIN table |->
    IF table[x] # None /\ \A y \in Rows(table) \ {x} : table[y] # Plain(table[x])
    THEN Plain(table[x]) ELSE table[x]]

(* UPDATE companies: no index holds their addresses.                       *)
Normalise(table) == [x \in DOMAIN table |-> IF table[x] = None THEN None ELSE Plain(table[x])]

(* Mutant: whichever matches, if several do.                               *)
BackfillAny(link, table) ==
  [a \in Application |->
    LET m == Matches(table', email'[a])
    IN IF status[a] = "approved" /\ link[a] = None /\ m # {} THEN CHOOSE x \in m : TRUE ELSE link[a]]

(* Mutant: the links are filled before the addresses are rewritten.        *)
BackfillBefore(link, table) ==
  [a \in Application |->
    LET m == Matches(table, email[a])
    IN IF status[a] = "approved" /\ link[a] = None /\ Cardinality(m) = 1
       THEN CHOOSE x \in m : TRUE ELSE link[a]]

(* UPDATE provider_registrations SET company_id, user_id.                  *)
Backfill(link, table) ==
  [a \in Application |->
    LET m == Matches(table', email'[a])
    IN IF status[a] = "approved" /\ link[a] = None /\ Cardinality(m) = 1
       THEN CHOOSE x \in m : TRUE ELSE link[a]]

(* 011: one Exec of the whole file, and so one transaction.                *)
Run011 ==
  /\ server = "run" /\ version = 11
  /\ IF Unique(NormaliseFree(user))
     THEN /\ user' = NormaliseFree(user)
          /\ company' = Normalise(company) /\ email' = Normalise(email)
          /\ toCompany' = Backfill(toCompany, company)
          /\ toUser' = Backfill(toUser, user)
          /\ server' = "clean" /\ applied' = IF applied < 11 THEN 11 ELSE applied
          /\ UNCHANGED <<status, long>>
     ELSE server' = "failed" /\ UNCHANGED <<rows, applied>>
  /\ UNCHANGED <<version, dirty, crashed, decisions>>

(* Mutant: the WHERE of another table.                                     *)
Run012None ==
  /\ server = "run" /\ version = 12
  /\ server' = "clean" /\ applied' = 12
  /\ UNCHANGED <<version, dirty, crashed, rows, decisions>>

(* 012 cuts the descriptions that 011's CHECK would refuse.                *)
Run012 ==
  /\ server = "run" /\ version = 12
  /\ long' = {}
  /\ server' = "clean" /\ applied' = 12
  /\ UNCHANGED <<version, dirty, crashed, status, email, company, user, toCompany, toUser, decisions>>

Clean ==
  /\ server = "clean"
  /\ dirty' = FALSE /\ server' = IF version < Latest THEN "mark" ELSE "up"
  /\ UNCHANGED <<version, crashed, applied, rows, decisions>>

Crash ==
  /\ server \notin {"down", "failed"}
  /\ server' = "down" /\ crashed' = (crashed \/ server # "up")
  /\ UNCHANGED <<version, dirty, applied, rows, decisions>>

(* An operator forces the version before the one that is dirty, and so has *)
(* its file run again, whether it was committed or not.                    *)
Repair ==
  /\ server = "failed" /\ dirty
  /\ server' = "down" /\ version' = version - 1 /\ dirty' = FALSE
  /\ UNCHANGED <<crashed, applied, rows, decisions>>

-----------------------------------------------------------------------------
(* A description over the limit fails the CHECK of 011 at any UPDATE.      *)
Writable(a) == a \notin long

(* Mutant: the address of a login is compared as it is written.            *)
ApproveExact(a) ==
  /\ server = "up" /\ status[a] = "pending" /\ Writable(a)
  /\ \A u \in Rows(user) : user[u] # Plain(email[a])
  /\ status' = [status EXCEPT ![a] = "approved"] /\ email' = [email EXCEPT ![a] = Plain(@)]
  /\ company' = [company EXCEPT ![a] = Plain(email[a])]
  /\ user' = [user EXCEPT ![a] = Plain(email[a])]
  /\ toCompany' = [toCompany EXCEPT ![a] = a] /\ toUser' = [toUser EXCEPT ![a] = a]
  /\ since' = since \cup {a}
  /\ UNCHANGED <<start, long, moved, taken, reset>>

Approve(a) ==
  /\ server = "up" /\ status[a] = "pending" /\ Matches(user, Plain(email[a])) = {} /\ Writable(a)
  /\ status' = [status EXCEPT ![a] = "approved"] /\ email' = [email EXCEPT ![a] = Plain(@)]
  /\ company' = [company EXCEPT ![a] = Plain(email[a])]
  /\ user' = [user EXCEPT ![a] = Plain(email[a])]
  /\ toCompany' = [toCompany EXCEPT ![a] = a] /\ toUser' = [toUser EXCEPT ![a] = a]
  /\ since' = since \cup {a}
  /\ UNCHANGED <<start, long, moved, taken, reset>>

(* The address a company shows is any it likes, in any writing.            *)
UpdateProfile(c, e) ==
  /\ server = "up" /\ company[c] # None
  /\ company' = [company EXCEPT ![c] = e]
  /\ moved' = IF Lower(e) = email[c] THEN moved ELSE moved \cup {c}
  /\ UNCHANGED <<start, status, email, long, user, toCompany, toUser, since, taken, reset>>

(* The users whose password a resend replaces: the one linked, or all with *)
(* the address of an application without a link, administrators too.       *)
UsersOf(a) ==
  IF toUser[a] # None THEN {toUser[a]} \cap Rows(user) ELSE Matches(user, email[a])

(* ResetInitialPassword.  It reads the company of the first row returned,  *)
(* whichever that is, and rolls back if it is an administrator's.          *)
Resend(a) ==
  /\ server = "up" /\ status[a] = "approved" /\ UsersOf(a) \cap Rows(company) # {}
  /\ reset' = reset \cup
       {[by |-> a, user |-> u, own |-> a \in Matches(user, email[a])] : u \in UsersOf(a)}
  /\ UNCHANGED <<start, rows, since, moved, taken>>

(* The company to delete: the link, or the only one that shows the address *)
(* of an application without a link.                                       *)
CompanyOf(a) ==
  IF toCompany[a] # None THEN {toCompany[a]}
  ELSE IF Cardinality(Matches(company, email[a])) = 1 THEN Matches(company, email[a]) ELSE {}

(* The users of the company go with it; links to either become NULL.       *)
Delete(a) ==
  /\ server = "up" /\ status[a] = "approved"
  /\ \E c \in CompanyOf(a) \cap Rows(company) :
       /\ company' = [company EXCEPT ![c] = None] /\ user' = [user EXCEPT ![c] = None]
       /\ toCompany' = [x \in Application |-> IF toCompany[x] = c \/ x = a THEN None ELSE toCompany[x]]
       /\ toUser' = [x \in Application |-> IF toUser[x] = c \/ x = a THEN None ELSE toUser[x]]
       /\ taken' = taken \cup {[by |-> a, company |-> c, own |-> company[a] # None]}
  /\ status' = [status EXCEPT ![a] = "deleted"]
  /\ UNCHANGED <<start, email, long, since, moved, reset>>

Next ==
  \/ Start \/ Mark \/ Run011 \/ Run012 \/ Clean \/ Crash \/ Repair
  \/ \E a \in Application :
       \/ Approve(a) \/ Resend(a) \/ Delete(a)
       \/ \E e \in Email : UpdateProfile(a, e)

Spec == Init /\ [][Next]_vars

-----------------------------------------------------------------------------
TypeOK ==
  /\ server \in {"down", "mark", "run", "clean", "up", "failed"}
  /\ version \in 10..12 /\ applied \in 10..12 /\ dirty \in BOOLEAN /\ crashed \in BOOLEAN
  /\ status \in [Application -> {"pending", "approved", "deleted"}]
  /\ email \in [Application -> Email] /\ long \subseteq Application
  /\ company \in [Application -> Email \cup {None}] /\ user \in [Login -> Email \cup {None}]
  /\ toCompany \in [Application -> Application \cup {None}]
  /\ toUser \in [Application -> Login \cup {None}]
  /\ since \subseteq Application /\ moved \subseteq Application
  /\ taken \subseteq [by : Application, company : Application, own : BOOLEAN]
  /\ reset \subseteq [by : Application, user : Login, own : BOOLEAN]

(* A start fails only after a crash, or over two users of one address of   *)
(* whom none has it in its plain writing: the guard of 011 sees no row to  *)
(* yield to, and both are rewritten.                                       *)
BlockedByCollisionOnly ==
  server = "failed" =>
    \/ crashed
    \/ \E x, y \in Rows(user) : x # y /\ user[x][1] = user[y][1]
         /\ \A z \in Rows(user) : user[z] # Plain(user[x])

(* Who was found by the address typed at a login is found after a start.   *)
Found(u) == Matches(user, Plain(user[u])) = {u}
LoginsSurvive == [][\A u \in Rows(user) : server # "up" /\ Found(u) => Found(u)']_vars

(* A file that is run again, after a crash that came between its commit    *)
(* and the note of it, changes nothing.                                    *)
RunsAgainInVain == [][server = "run" /\ server' = "clean" /\ applied >= version => UNCHANGED rows]_vars

(* When the server answers, each application can be decided.               *)
AllDecidable == server = "up" => \A a \in Application : Writable(a)

(* As long as its own company exists, an application approved by this      *)
(* version deletes no other; an older one, linked or not, only if one of   *)
(* the two companies has changed its address.                              *)
DeletesOwnUnlessMoved ==
  \A d \in taken :
    d.own /\ d.company # d.by => d.by \notin since /\ {d.by, d.company} \cap moved # {}

(* A resend replaces the password of another's login only if the two were  *)
(* opened with one address: an administrator's only for an application     *)
(* that an older version approved, and while its own user still has that   *)
(* address, any other's only if an older version approved both.            *)
Opened(u) == IF u \in Admin THEN user[u][1] ELSE email[u][1]
ResetsOwnUnlessShared ==
  \A d \in reset : d.user # d.by =>
    /\ Opened(d.user) = email[d.by][1]
    /\ d.user \in Admin => d.by \notin since
    /\ d.own => {d.by, d.user} \cap since = {}

-----------------------------------------------------------------------------
(* The inductive invariant.  The account of versions: what is marked and   *)
(* not dirty has been committed.                                           *)
Versioned ==
  /\ version - 1 <= applied /\ (~ dirty => version <= applied)
  /\ dirty => version > 10 /\ (crashed \/ server \in {"run", "clean", "failed"})
  /\ server = "mark" => ~ dirty /\ version < Latest
  /\ server \in {"run", "clean"} => dirty
  /\ server = "clean" => version <= applied
  /\ server = "up" => ~ dirty /\ version = Latest
  /\ applied = Latest => long = {}

(* A start that failed, failed as BlockedByCollisionOnly says, and leaves  *)
(* the version dirty.                                                      *)
Failed == server = "failed" => dirty

(* Addresses: as 011 leaves them, and those of companies that never moved. *)
Addressed ==
  /\ Unique(user)
  /\ \A a \in Application \ moved : company[a] # None => company[a][1] = email[a][1]
  /\ applied > 10 => \A a \in Application :
       /\ email[a][2] = "plain"
       /\ a \notin moved /\ company[a] # None => Lower(company[a]) = email[a]

(* What is left to upgrade when 011 has been committed: nothing of 011.    *)
Pending == version < Latest \/ dirty
Upgraded ==
  applied > 10 /\ Pending =>
    /\ NormaliseFree(user) = user /\ Normalise(company) = company
    /\ \A a \in Application : status[a] = "approved" =>
         /\ toCompany[a] = None => Cardinality(Matches(company, email[a])) # 1
         /\ toUser[a] = None => Cardinality(Matches(user, email[a])) # 1

(* Links of this version are right, older ones but for companies that      *)
(* moved or are gone.                                                      *)
Linked ==
  /\ since # {} => ~ Pending
  /\ \A a \in since : company[a] # None => toCompany[a] = a
  /\ \A a \in Application : LET c == toCompany[a] IN
       c \notin {a, None} /\ company[a] # None => {a, c} \cap moved # {}
  /\ \A d \in taken : status[d.by] = "deleted"

(* A provider's login has a company and the address of its application,    *)
(* and so has what is linked to it.  One that this version opened is       *)
(* linked to its own application only, and no other login has its address. *)
Owned ==
  /\ \A u \in Rows(user) \cap Application :
       company[u] # None /\ status[u] # "pending" /\ user[u][1] = email[u][1]
  /\ \A a \in Application : LET u == toUser[a] IN
       u # None => user[u] # None /\ user[u][1] = email[a][1] /\ (u \in since => u = a)
  /\ \A u \in since \cap Rows(user) : toUser[u] = u /\ Matches(user, email[u]) = {u}
  /\ \A d \in reset : status[d.by] # "pending"
                     /\ (d.user \in Application => status[d.user] # "pending")

(* Administrators' logins stay, and none has the address of an application *)
(* that this version approved.                                             *)
Administered ==
  /\ Admin \subseteq Rows(user)
  /\ \A a \in since : Matches(user, email[a]) \cap Admin = {}

UpgradeInv ==
  /\ TypeOK /\ Versioned /\ Failed /\ BlockedByCollisionOnly /\ AllDecidable
  /\ Addressed /\ Upgraded /\ Linked /\ DeletesOwnUnlessMoved
  /\ Owned /\ Administered /\ ResetsOwnUnlessShared
=============================================================================
