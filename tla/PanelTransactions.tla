-------------------------- MODULE PanelTransactions --------------------------
(***************************************************************************)
(* The two transactions of the panel that touch several rows: the order of *)
(* the pictures of a service (ReorderServiceImages) and the regions of a   *)
(* company (SetServiceRegions), with the additions and deletes of pictures *)
(* that cross them.  Each statement is one action; it waits for rows and   *)
(* index entries that another transaction has written and not committed.   *)
(***************************************************************************)
EXTENDS Naturals, Sequences, FiniteSets

CONSTANTS
  Picture,   \* ids that service_images of the service may take; none is used twice
  Region,    \* names of regions
  Request,   \* requests of the company in progress at a time
  Orders,    \* bodies of a reorder: the pictures in their new order
  Lists,     \* bodies of a replacement: names of regions, or Blank
  Blank,     \* the empty name
  None       \* no row, no holder

Distinct(s) == \A i, j \in DOMAIN s : s[i] = s[j] => i = j

ASSUME PanelAssumption ==
  /\ IsFiniteSet(Picture) /\ IsFiniteSet(Region) /\ IsFiniteSet(Request)
  /\ Orders \subseteq Seq(Picture) /\ (\A b \in Orders : Distinct(b))
  /\ Lists \subseteq Seq(Region \cup {Blank})
  /\ None \notin Request \cup Nat /\ Blank \notin Region

VARIABLES
  order,    \* sort_order of the committed rows of service_images
  known,    \* ids given out
  lock,     \* the transaction that has written a picture's row
  regions,  \* committed rows of company_service_regions
  request   \* for each request: its step and its transaction's writes

vars == <<order, known, lock, regions, request>>
pictures == <<order, known, lock>>

Idle ==
  [step |-> "idle", body |-> <<>>, next |-> 1,
   place |-> 0, during |-> {},                  \* an addition: what it read, and history: what
                                                \* was inserted or placed meanwhile
   seen |-> {}, gone |-> {}, inserted |-> {},   \* a replacement: DELETE's snapshot, its writes
   added |-> {}, removed |-> {}]                \* history: what others committed since it began

Stored == {p \in Picture : order[p] # None}

Init ==
  /\ order = [p \in Picture |-> None] /\ known = {}
  /\ lock = [p \in Picture |-> None]
  /\ regions = {}
  /\ request = [r \in Request |-> Idle]

At(r, step) == request[r].step = step
Current(r) == request[r].body[request[r].next]
More(r) == request[r].next <= Len(request[r].body)
Unlock(r) == lock' = [p \in Picture |-> IF lock[p] = r THEN None ELSE lock[p]]
Others(r) == Request \ {r}

(* The end of a request that has inserted or placed these pictures.        *)
End(r, changed) ==
  request' = [x \in Request |->
    IF x = r THEN Idle
    ELSE IF At(x, "add") THEN [request[x] EXCEPT !.during = @ \cup changed] ELSE request[x]]

-----------------------------------------------------------------------------
(* AddServiceImage: one INSERT whose subquery sees what was committed when *)
(* it began; DeleteServiceImage waits for a reorder that wrote the row.    *)

(* Mutant: MAX(sort_order), without the increment.                         *)
NextPlaceSame ==
  IF Stored = {} THEN 0
  ELSE CHOOSE n \in {order[p] : p \in Stored} : \A p \in Stored : order[p] <= n

(* COALESCE(MAX(sort_order)+1, 0).                                         *)
NextPlace ==
  IF Stored = {} THEN 0
  ELSE 1 + CHOOSE n \in {order[p] : p \in Stored} : \A p \in Stored : order[p] <= n

(* Bound: an insert in progress has an id to take.                         *)
StartAdd(r) ==
  /\ At(r, "idle") /\ Cardinality({x \in Request : At(x, "add")}) < Cardinality(Picture \ known)
  /\ request' = [request EXCEPT ![r] = [Idle EXCEPT !.step = "add", !.place = NextPlace]]
  /\ UNCHANGED <<pictures, regions>>

InsertImage(r, p) ==
  /\ At(r, "add") /\ p \notin known
  /\ order' = [order EXCEPT ![p] = request[r].place] /\ known' = known \cup {p}
  /\ End(r, {p})
  /\ UNCHANGED <<lock, regions>>

DeleteImage(p) ==
  /\ p \in Stored /\ lock[p] = None
  /\ order' = [order EXCEPT ![p] = None]
  /\ UNCHANGED <<known, lock, regions, request>>

-----------------------------------------------------------------------------
(* ReorderServiceImages: the body lists pictures that the panel has shown, *)
(* each once and with its place in the list as its sort_order.             *)
StartReorder(r, b) ==
  /\ At(r, "idle") /\ \A i \in DOMAIN b : b[i] \in known
  /\ request' = [request EXCEPT ![r] = [Idle EXCEPT !.step = "update", !.body = b]]
  /\ UNCHANGED <<pictures, regions>>

Place(b, p) == (CHOOSE i \in DOMAIN b : b[i] = p) - 1

(* Mutant: db.Exec in place of tx.Exec.                                    *)
UpdateImageAtOnce(r) ==
  /\ At(r, "update") /\ More(r)
  /\ LET p == Current(r) IN
       IF p \in Stored
       THEN /\ lock[p] = None /\ order' = [order EXCEPT ![p] = Place(request[r].body, p)]
       ELSE UNCHANGED order
  /\ request' = [request EXCEPT ![r].next = @ + 1]
  /\ UNCHANGED <<known, lock, regions>>

(* A picture that is gone matches no row and is no error.                  *)
UpdateImage(r) ==
  /\ At(r, "update") /\ More(r)
  /\ \/ Current(r) \notin Stored /\ UNCHANGED lock
     \/ /\ Current(r) \in Stored /\ lock[Current(r)] \in {None, r}
        /\ lock' = [lock EXCEPT ![Current(r)] = r]
  /\ request' = [request EXCEPT ![r].next = @ + 1]
  /\ UNCHANGED <<order, known, regions>>

CommitOrder(r) ==
  /\ At(r, "update") /\ ~ More(r)
  /\ order' = [p \in Picture |-> IF lock[p] = r THEN Place(request[r].body, p) ELSE order[p]]
  /\ Unlock(r)
  /\ End(r, {p \in Picture : lock[p] = r})
  /\ UNCHANGED <<known, regions>>

-----------------------------------------------------------------------------
(* SetServiceRegions.                                                      *)
StartReplace(r, b) ==
  /\ At(r, "idle")
  /\ request' = [request EXCEPT ![r] = [Idle EXCEPT !.step = "delete", !.body = b, !.seen = regions]]
  /\ UNCHANGED <<pictures, regions>>

(* Mutant: only the regions that are asked for again are deleted.          *)
DeleteRegionsAsked(r) ==
  /\ At(r, "delete")
  /\ request' = [request EXCEPT ![r].step = "insert",
       ![r].gone = request[r].seen \cap {request[r].body[i] : i \in DOMAIN request[r].body}]
  /\ UNCHANGED <<pictures, regions>>

(* DELETE waits for rows that another transaction has deleted.             *)
DeleteRegions(r) ==
  /\ At(r, "delete")
  /\ \A x \in Others(r) : request[r].seen \cap request[x].gone = {}
  /\ request' = [request EXCEPT ![r].step = "insert", ![r].gone = request[r].seen]
  /\ UNCHANGED <<pictures, regions>>

(* Uncommitted inserts and deletes of the region's index entry.            *)
Pending(x, g) == g \in request[x].inserted \cup request[x].gone

(* INSERT ... ON CONFLICT DO NOTHING; the empty name is passed over.       *)
InsertRegion(r) ==
  LET g == Current(r)
      present == (regions \ request[r].gone) \cup request[r].inserted
  IN
  /\ At(r, "insert") /\ More(r)
  /\ g = Blank \/ \A x \in Others(r) : ~ Pending(x, g)
  /\ request' = [request EXCEPT ![r].next = @ + 1,
                                ![r].inserted = @ \cup ({g} \ (present \cup {Blank}))]
  /\ UNCHANGED <<pictures, regions>>

(* A DELETE that waited passes over the rows that are gone by then.        *)
CommitRegions(r) ==
  /\ At(r, "insert") /\ ~ More(r)
  /\ regions' = (regions \ request[r].gone) \cup request[r].inserted
  /\ request' = [x \in Request |->
       IF x = r THEN Idle
       ELSE IF At(x, "delete") \/ At(x, "insert")
       THEN [request[x] EXCEPT !.seen = @ \ request[r].gone,
                               !.added = @ \cup request[r].inserted,
                               !.removed = @ \cup request[r].gone]
       ELSE request[x]]
  /\ UNCHANGED pictures

-----------------------------------------------------------------------------
(* Whom a statement waits for.                                             *)
Waits(r) ==
  {x \in Others(r) :
     \/ At(r, "update") /\ More(r) /\ lock[Current(r)] = x
     \/ At(r, "delete") /\ request[r].seen \cap request[x].gone # {}
     \/ At(r, "insert") /\ More(r) /\ Current(r) # Blank /\ Pending(x, Current(r))}

Deadlocked(r) ==
  \E n \in 1..Cardinality(Request) : \E path \in [1..n -> Request] :
    /\ path[1] = r /\ r \in Waits(path[n])
    /\ \A i \in 1..(n - 1) : path[i + 1] \in Waits(path[i])

(* Mutant: no deferred Rollback.                                           *)
RollbackMissing(r) ==
  /\ ~ At(r, "idle")
  /\ request' = [request EXCEPT ![r] = Idle]
  /\ UNCHANGED <<pictures, regions>>

(* The deferred Rollback, after a statement that failed.                   *)
Rollback(r) ==
  /\ ~ At(r, "idle")
  /\ Unlock(r)
  /\ request' = [request EXCEPT ![r] = Idle]
  /\ UNCHANGED <<order, known, regions>>

(* The database ends one of those who wait for each other.                 *)
Victim(r) == Deadlocked(r) /\ Rollback(r)

Crash ==
  /\ \E r \in Request : ~ At(r, "idle")
  /\ lock' = [p \in Picture |-> None] /\ request' = [r \in Request |-> Idle]
  /\ UNCHANGED <<order, known, regions>>

Progress(r) ==
  \/ \E p \in Picture : InsertImage(r, p)
  \/ UpdateImage(r) \/ CommitOrder(r)
  \/ DeleteRegions(r) \/ InsertRegion(r) \/ CommitRegions(r)
  \/ Victim(r)

Next ==
  \/ \E r \in Request :
       \/ StartAdd(r)
       \/ \E b \in Orders : StartReorder(r, b)
       \/ \E b \in Lists : StartReplace(r, b)
       \/ Progress(r)
       \/ Rollback(r)
  \/ \E p \in Picture : DeleteImage(p)
  \/ Crash

Spec == Init /\ [][Next]_vars
FairSpec == Spec /\ \A r \in Request : SF_vars(Progress(r))

-----------------------------------------------------------------------------
TypeOK ==
  /\ order \in [Picture -> Nat \cup {None}] /\ Stored \subseteq known /\ known \subseteq Picture
  /\ lock \in [Picture -> Request \cup {None}]
  /\ regions \subseteq Region
  /\ request \in [Request ->
       [step : {"idle", "add", "update", "delete", "insert"},
        body : Seq(Picture) \cup Seq(Region \cup {Blank}), next : Nat \ {0},
        place : Nat, during : SUBSET Picture,
        seen : SUBSET Region, gone : SUBSET Region, inserted : SUBSET Region,
        added : SUBSET Region, removed : SUBSET Region]]

(* A picture changes its place only by a reorder that names it, and then   *)
(* all that are left of those it names take theirs with it: the order a    *)
(* visitor sees is not half of one request's and half of another's, in     *)
(* whatever order rows are locked and whoever a deadlock ends.             *)
OrderOfOneRequest ==
  [][\A p \in Stored \cap Stored' : order'[p] # order[p] =>
       \E r \in Request : LET b == request[r].body IN
         /\ At(r, "update") /\ \E i \in DOMAIN b : b[i] = p
         /\ \A i \in DOMAIN b : b[i] \in Stored' => order'[b[i]] = i - 1]_vars

(* A replacement of the regions leaves what it was asked, but for what     *)
(* others committed since it began: nothing it could see when it began     *)
(* survives it, and it loses nothing by itself.                            *)
Asked(r) == {request[r].body[i] : i \in DOMAIN request[r].body} \ {Blank}
ReplacedButForOthers ==
  [][\A r \in Request : CommitRegions(r) =>
       /\ regions' \subseteq Asked(r) \cup request[r].added
       /\ Asked(r) \subseteq regions' \cup request[r].removed]_vars

(* A new picture comes after every other, but for those that were inserted *)
(* or placed while its own INSERT ran, whatever was deleted before.        *)
NewPictureComesLast ==
  [][\A r \in Request, p \in Picture : InsertImage(r, p) =>
       \A q \in Stored \ request[r].during : order[q] < order'[p]]_vars

(* Every request ends, in whatever order two of them lock their rows.      *)
EveryRequestEnds == \A r \in Request : ~ At(r, "idle") ~> At(r, "idle")

-----------------------------------------------------------------------------
(* The inductive invariant: the pictures that a reorder has passed are its *)
(* own until it ends, an addition knows a place after all it could see, a  *)
(* replacement has taken or deleted all that nobody else did.              *)
Sorting(r) ==
  At(r, "update") =>
    /\ request[r].body \in Orders
    /\ \A i \in DOMAIN request[r].body : LET p == request[r].body[i] IN
         p \in known /\ (i < request[r].next /\ p \in Stored => lock[p] = r)

LockHeld(p) ==
  lock[p] # None =>
    /\ p \in Stored /\ At(lock[p], "update")
    /\ \E i \in DOMAIN request[lock[p]].body : request[lock[p]].body[i] = p

Bounded == \E n \in Nat : \A p \in Stored : order[p] <= n

Adding(r) == At(r, "add") => \A q \in Stored \ request[r].during : order[q] < request[r].place

Replacing(r) ==
  /\ At(r, "delete") => request[r].next = 1 /\ request[r].gone = {} /\ request[r].inserted = {}
                        /\ regions \ request[r].seen \subseteq request[r].added
  /\ At(r, "delete") \/ At(r, "insert") => request[r].body \in Seq(Region \cup {Blank})
  /\ At(r, "insert") =>
       /\ regions \ request[r].gone \subseteq request[r].added
       /\ request[r].inserted \subseteq Asked(r)
       /\ \A i \in DOMAIN request[r].body :
            i < request[r].next /\ request[r].body[i] # Blank =>
              request[r].body[i] \in (regions \ request[r].gone) \cup request[r].inserted
                                    \cup request[r].removed

PanelInv ==
  /\ TypeOK /\ Bounded /\ \A p \in Picture : LockHeld(p)
  /\ \A r \in Request : Sorting(r) /\ Adding(r) /\ Replacing(r)
=============================================================================
