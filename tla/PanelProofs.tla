------------------------------ MODULE PanelProofs ------------------------------
(***************************************************************************)
(* TLAPS proofs about PanelTransactions, for any pictures, regions,        *)
(* requests and bodies.                                                    *)
(***************************************************************************)
EXTENDS PanelTransactions, WellFoundedInduction, TLAPS

Bodies == Seq(Picture) \cup Seq(Region \cup {Blank})
Requests ==
  [step : {"idle", "add", "update", "delete", "insert"}, body : Bodies, next : Nat \ {0},
   place : Nat, during : SUBSET Picture,
   seen : SUBSET Region, gone : SUBSET Region, inserted : SUBSET Region,
   added : SUBSET Region, removed : SUBSET Region]

LEMMA IdleRequest == Idle \in Requests /\ Idle.step = "idle"
<1>1. <<>> \in Seq(Picture)
  OBVIOUS
<1> QED
  BY <1>1 DEF Idle, Requests, Bodies

(* The disjuncts of Next; a victim is rolled back like any other.          *)
LEMMA Steps ==
  ASSUME [Next]_vars
  PROVE  \/ \E r \in Request : StartAdd(r)
         \/ \E r \in Request, p \in Picture : InsertImage(r, p)
         \/ \E p \in Picture : DeleteImage(p)
         \/ \E r \in Request, b \in Orders : StartReorder(r, b)
         \/ \E r \in Request : UpdateImage(r)
         \/ \E r \in Request : CommitOrder(r)
         \/ \E r \in Request, b \in Lists : StartReplace(r, b)
         \/ \E r \in Request : DeleteRegions(r)
         \/ \E r \in Request : InsertRegion(r)
         \/ \E r \in Request : CommitRegions(r)
         \/ \E r \in Request : Rollback(r)
         \/ Crash
         \/ UNCHANGED vars
BY DEF Next, Progress, Victim

(* What End leaves of the requests.                                        *)
LEMMA EndStep ==
  ASSUME TypeOK, NEW r \in Request, NEW changed \in SUBSET Picture, End(r, changed)
  PROVE  /\ request' \in [Request -> Requests]
         /\ request'[r] = Idle
         /\ \A x \in Request : x # r =>
              /\ ~ At(x, "add") => request'[x] = request[x]
              /\ At(x, "add") => /\ request'[x].step = "add"
                                 /\ request'[x].place = request[x].place
                                 /\ request'[x].during = request[x].during \cup changed
<1>1. \A x \in Request : request[x] \in Requests
  BY DEF TypeOK, Requests, Bodies
<1> DEFINE after(x) == [request[x] EXCEPT !.during = @ \cup changed]
<1>2. ASSUME NEW x \in Request
      PROVE  /\ after(x) \in Requests /\ after(x).step = request[x].step
             /\ after(x).place = request[x].place
             /\ after(x).during = request[x].during \cup changed
  <2>1. request[x] \in Requests
    BY <1>1
  <2> QED
    BY <2>1 DEF Requests
<1>3. request' = [x \in Request |->
        IF x = r THEN Idle ELSE IF At(x, "add") THEN after(x) ELSE request[x]]
  BY DEF End
<1> HIDE DEF after
<1> QED
  BY <1>1, <1>2, <1>3, IdleRequest DEF At

-----------------------------------------------------------------------------
(* A set of numbers with an upper bound has a least one.                   *)
LEMMA LeastBound ==
  ASSUME NEW Bounds \in SUBSET Nat, Bounds # {}
  PROVE  \E m \in Bounds : \A n \in Bounds : m <= n
<1> DEFINE Less == OpToRel(<, Nat)
<1> HIDE DEF Less
<1>1. \E m \in Bounds : \A n \in Bounds : ~ (<<n, m>> \in Less)
  <2>1. IsWellFoundedOn(Less, Nat)
    BY NatLessThanWellFounded DEF Less
  <2> QED
    BY <2>1, WFMin
<1>2. PICK m \in Bounds : \A n \in Bounds : ~ (<<n, m>> \in Less)
  BY <1>1
<1>3. ASSUME NEW n \in Bounds PROVE m <= n
  <2>1. m \in Nat /\ n \in Nat
    OBVIOUS
  <2>2. n < m => <<n, m>> \in Less
    BY <2>1 DEF Less, OpToRel
  <2> QED
    BY <1>2, <2>1, <2>2
<1> QED
  BY <1>3

LEMMA PlaceIsLast ==
  ASSUME TypeOK, Bounded
  PROVE  NextPlace \in Nat /\ \A q \in Stored : order[q] < NextPlace
<1>0. \A p \in Stored : order[p] \in Nat
  BY DEF TypeOK, Stored
<1>1. CASE Stored = {}
  BY <1>1 DEF NextPlace
<1>2. CASE Stored # {}
  <2> DEFINE Places == {order[p] : p \in Stored}
             Bounds == {n \in Nat : \A p \in Stored : order[p] <= n}
  <2>1. PICK m \in Bounds : \A n \in Bounds : m <= n
    <3>1. Bounds \in SUBSET Nat /\ Bounds # {}
      BY DEF Bounded
    <3> HIDE DEF Bounds
    <3> QED
      BY <3>1, LeastBound
  <2>2. m \in Nat /\ \A p \in Stored : order[p] <= m
    OBVIOUS
  <2>3. m \in Places
    <3> SUFFICES ASSUME \A p \in Stored : order[p] # m PROVE FALSE
      OBVIOUS
    <3>1. \A p \in Stored : order[p] <= m - 1
      BY <1>0, <2>2
    <3>2. m - 1 \in Nat
      BY <1>0, <1>2, <2>2, <3>1
    <3> QED
      BY <2>1, <2>2, <3>1, <3>2
  <2>4. \E n \in Places : \A p \in Stored : order[p] <= n
    BY <2>2, <2>3
  <2> DEFINE top == CHOOSE n \in Places : \A p \in Stored : order[p] <= n
  <2>5. top \in Places /\ \A p \in Stored : order[p] <= top
    BY <2>4
  <2>6. NextPlace = 1 + top
    BY <1>2 DEF NextPlace
  <2> HIDE DEF top
  <2>7. top \in Nat
    BY <1>0, <2>5
  <2> QED
    BY <1>0, <2>5, <2>6, <2>7
<1> QED
  BY <1>1, <1>2

LEMMA PlaceInBody ==
  ASSUME NEW b \in Orders, NEW i \in DOMAIN b
  PROVE  Place(b, b[i]) = i - 1 /\ i - 1 \in Nat /\ i <= Len(b)
<1>1. Distinct(b) /\ b \in Seq(Picture)
  BY PanelAssumption
<1>2. i \in Nat \ {0} /\ i <= Len(b) /\ Len(b) \in Nat
  BY <1>1
<1>3. (CHOOSE j \in DOMAIN b : b[j] = b[i]) = i
  <2>1. \A j \in DOMAIN b : b[j] = b[i] => j = i
    BY <1>1 DEF Distinct
  <2> DEFINE c == CHOOSE j \in DOMAIN b : b[j] = b[i]
  <2>2. c \in DOMAIN b /\ b[c] = b[i]
    <3>1. \E j \in DOMAIN b : b[j] = b[i]
      OBVIOUS
    <3> QED
      BY <3>1
  <2> HIDE DEF c
  <2>3. c = i
    BY <2>1, <2>2
  <2> QED
    BY <2>3 DEF c
<1>4. Place(b, b[i]) = i - 1
  BY <1>3 DEF Place
<1> QED
  BY <1>2, <1>4

-----------------------------------------------------------------------------
(* What each statement does to its request and to the others.              *)
LEMMA Element ==
  ASSUME TypeOK PROVE request \in [Request -> Requests] /\ \A r \in Request : request[r] \in Requests
BY DEF TypeOK, Requests, Bodies

LEMMA UpdateStep ==
  ASSUME PanelInv, NEW r \in Request, UpdateImage(r)
  PROVE  /\ request[r].body \in Orders /\ request[r].next \in DOMAIN request[r].body
         /\ Current(r) \in Picture
         /\ request' \in [Request -> Requests]
         /\ request'[r].step = "update" /\ request'[r].body = request[r].body
         /\ request'[r].next = request[r].next + 1
         /\ \A x \in Request : x # r => request'[x] = request[x]
<1>1. request[r] \in Requests /\ request \in [Request -> Requests]
  BY Element DEF PanelInv
<1>2. request[r].body \in Orders /\ request[r].step = "update"
  BY DEF PanelInv, Sorting, UpdateImage, At
<1>3. request[r].body \in Seq(Picture)
  BY <1>2, PanelAssumption
<1>4. request[r].next \in DOMAIN request[r].body
  BY <1>1, <1>3 DEF UpdateImage, More, Requests
<1> DEFINE after == [request[r] EXCEPT !.next = @ + 1]
<1>5. after \in Requests /\ after.step = "update" /\ after.body = request[r].body
      /\ after.next = request[r].next + 1
  BY <1>1, <1>2 DEF Requests
<1>6. request' = [request EXCEPT ![r] = after]
  BY <1>1 DEF UpdateImage
<1> HIDE DEF after
<1> QED
  BY <1>1, <1>2, <1>3, <1>4, <1>5, <1>6 DEF Current

LEMMA DeleteRegionsStep ==
  ASSUME TypeOK, NEW r \in Request, DeleteRegions(r)
  PROVE  /\ request[r].step = "delete"
         /\ request' \in [Request -> Requests]
         /\ request'[r].step = "insert" /\ request'[r].gone = request[r].seen
         /\ request'[r].body = request[r].body /\ request'[r].next = request[r].next
         /\ request'[r].inserted = request[r].inserted /\ request'[r].added = request[r].added
         /\ request'[r].removed = request[r].removed
         /\ \A x \in Request : x # r => request'[x] = request[x]
<1>1. request[r] \in Requests /\ request \in [Request -> Requests]
  BY Element
<1> DEFINE after == [request[r] EXCEPT !.step = "insert", !.gone = request[r].seen]
<1>2. /\ after \in Requests /\ after.step = "insert" /\ after.gone = request[r].seen
      /\ after.body = request[r].body /\ after.next = request[r].next
      /\ after.inserted = request[r].inserted /\ after.added = request[r].added
      /\ after.removed = request[r].removed
  BY <1>1 DEF Requests
<1>3. request' = [request EXCEPT ![r] = after]
  BY <1>1 DEF DeleteRegions, Requests
<1> HIDE DEF after
<1> QED
  BY <1>1, <1>2, <1>3 DEF DeleteRegions, At

LEMMA InsertRegionStep ==
  ASSUME PanelInv, NEW r \in Request, InsertRegion(r)
  PROVE  LET g == Current(r)
             present == (regions \ request[r].gone) \cup request[r].inserted
         IN
         /\ request[r].step = "insert" /\ request[r].body \in Seq(Region \cup {Blank})
         /\ request[r].next \in DOMAIN request[r].body /\ g \in Region \cup {Blank}
         /\ request' \in [Request -> Requests]
         /\ request'[r].step = "insert" /\ request'[r].gone = request[r].gone
         /\ request'[r].body = request[r].body /\ request'[r].next = request[r].next + 1
         /\ request'[r].inserted = request[r].inserted \cup ({g} \ (present \cup {Blank}))
         /\ request'[r].added = request[r].added /\ request'[r].removed = request[r].removed
         /\ \A x \in Request : x # r => request'[x] = request[x]
<1> DEFINE g == Current(r)
           present == (regions \ request[r].gone) \cup request[r].inserted
           more == request[r].inserted \cup ({g} \ (present \cup {Blank}))
<1>1. request[r] \in Requests /\ request \in [Request -> Requests]
  BY Element DEF PanelInv
<1>2. request[r].step = "insert" /\ request[r].body \in Seq(Region \cup {Blank})
  BY DEF PanelInv, Replacing, InsertRegion, At
<1>3. request[r].next \in DOMAIN request[r].body /\ g \in Region \cup {Blank}
  BY <1>1, <1>2 DEF InsertRegion, More, Requests, Current
<1>4. request' = [request EXCEPT ![r].next = @ + 1,
                                 ![r].inserted = @ \cup ({g} \ (present \cup {Blank}))]
  BY DEF InsertRegion
<1>5. request[r].inserted \subseteq Region /\ more \subseteq Region
  BY <1>1, <1>3 DEF Requests
<1> HIDE DEF g, present
<1> DEFINE after == [request[r] EXCEPT !.next = @ + 1, !.inserted = more]
<1>6. /\ after \in Requests /\ after.step = request[r].step /\ after.gone = request[r].gone
      /\ after.body = request[r].body /\ after.next = request[r].next + 1
      /\ after.inserted = more /\ after.added = request[r].added
      /\ after.removed = request[r].removed
  <2> HIDE DEF more
  <2>1. after.step = request[r].step /\ after.gone = request[r].gone /\ after.inserted = more
    BY <1>1 DEF Requests
  <2>2. after.body = request[r].body /\ after.next = request[r].next + 1
    BY <1>1 DEF Requests
  <2>3. after.added = request[r].added /\ after.removed = request[r].removed
    BY <1>1 DEF Requests
  <2>4. request[r].next + 1 \in Nat \ {0}
    BY <1>1 DEF Requests
  <2>5. after \in Requests
    BY <1>1, <1>5, <2>4 DEF Requests
  <2> QED
    BY <2>1, <2>2, <2>3, <2>5
<1>7. request' = [request EXCEPT ![r] = after]
  BY <1>1, <1>4 DEF Requests
<1>8. \A x \in Request : x # r => request'[x] = request[x]
  BY <1>1, <1>7
<1>9. request'[r] = after /\ request' \in [Request -> Requests]
  BY <1>1, <1>6, <1>7
<1> HIDE DEF after
<1> QED
  BY <1>2, <1>3, <1>6, <1>8, <1>9 DEF g, present

LEMMA CommitRegionsStep ==
  ASSUME TypeOK, NEW r \in Request, CommitRegions(r)
  PROVE  /\ regions' \subseteq Region
         /\ request' \in [Request -> Requests] /\ request'[r] = Idle
         /\ \A x \in Request : x # r =>
              /\ request'[x].step = request[x].step /\ request'[x].body = request[x].body
              /\ request'[x].next = request[x].next /\ request'[x].place = request[x].place
              /\ request'[x].during = request[x].during
              /\ request'[x].gone = request[x].gone /\ request'[x].inserted = request[x].inserted
              /\ At(x, "delete") \/ At(x, "insert") =>
                   /\ request'[x].seen = request[x].seen \ request[r].gone
                   /\ request'[x].added = request[x].added \cup request[r].inserted
                   /\ request'[x].removed = request[x].removed \cup request[r].gone
<1>1. request[r] \in Requests /\ request \in [Request -> Requests]
  BY Element
<1> DEFINE after(x) == [request[x] EXCEPT !.seen = @ \ request[r].gone,
                                          !.added = @ \cup request[r].inserted,
                                          !.removed = @ \cup request[r].gone]
<1>2. ASSUME NEW x \in Request
      PROVE  /\ after(x) \in Requests
             /\ after(x).step = request[x].step /\ after(x).body = request[x].body
             /\ after(x).next = request[x].next /\ after(x).place = request[x].place
             /\ after(x).during = request[x].during
             /\ after(x).gone = request[x].gone /\ after(x).inserted = request[x].inserted
             /\ after(x).seen = request[x].seen \ request[r].gone
             /\ after(x).added = request[x].added \cup request[r].inserted
             /\ after(x).removed = request[x].removed \cup request[r].gone
  <2>1. request[x] \in Requests
    BY <1>1
  <2>2. request[r].gone \subseteq Region /\ request[r].inserted \subseteq Region
    BY <1>1 DEF Requests
  <2> QED
    BY <2>1, <2>2 DEF Requests
<1>3. request' = [x \in Request |->
        IF x = r THEN Idle ELSE IF At(x, "delete") \/ At(x, "insert") THEN after(x) ELSE request[x]]
  BY DEF CommitRegions
<1> HIDE DEF after
<1>4. regions' \subseteq Region
  BY <1>1 DEF CommitRegions, TypeOK, Requests
<1>5. request' \in [Request -> Requests] /\ request'[r] = Idle
  BY <1>1, <1>2, <1>3, IdleRequest
<1>6. ASSUME NEW x \in Request, x # r
      PROVE  request'[x] = IF At(x, "delete") \/ At(x, "insert") THEN after(x) ELSE request[x]
  BY <1>3, <1>6
<1> QED
  BY <1>2, <1>4, <1>5, <1>6

LEMMA CommitOrderStep ==
  ASSUME PanelInv, NEW r \in Request, CommitOrder(r)
  PROVE  /\ request[r].step = "update" /\ request[r].body \in Orders
         /\ \A p \in Picture : lock[p] = r =>
              p \in Stored /\ order'[p] \in Nat /\ order'[p] + 1 <= Len(request[r].body)
         /\ \A p \in Picture : lock[p] # r => order'[p] = order[p]
         /\ \A p \in Picture : lock'[p] = IF lock[p] = r THEN None ELSE lock[p]
         /\ Stored' = Stored /\ known' = known /\ regions' = regions
         /\ request' \in [Request -> Requests] /\ request'[r] = Idle
         /\ \A x \in Request : x # r =>
              /\ ~ At(x, "add") => request'[x] = request[x]
              /\ At(x, "add") => /\ request'[x].step = "add"
                                 /\ request'[x].place = request[x].place
                                 /\ request'[x].during = request[x].during \cup {p \in Picture : lock[p] = r}
<1>1. request[r].step = "update" /\ request[r].body \in Orders
  BY DEF PanelInv, Sorting, CommitOrder, At
<1>2. order' = [p \in Picture |-> IF lock[p] = r THEN Place(request[r].body, p) ELSE order[p]]
  BY DEF CommitOrder
<1>3. ASSUME NEW p \in Picture, lock[p] = r
      PROVE  p \in Stored /\ order'[p] \in Nat /\ order'[p] + 1 <= Len(request[r].body)
  <2>1. lock[p] # None
    BY <1>3, PanelAssumption
  <2>2. /\ p \in Stored
        /\ \E i \in DOMAIN request[r].body : request[r].body[i] = p
    BY <1>3, <2>1 DEF PanelInv, LockHeld
  <2>3. PICK i \in DOMAIN request[r].body : request[r].body[i] = p
    BY <2>2
  <2>4. Place(request[r].body, p) = i - 1 /\ i - 1 \in Nat /\ i <= Len(request[r].body)
    BY <1>1, <2>3, PlaceInBody
  <2>5. order'[p] = i - 1
    BY <1>2, <1>3, <2>4
  <2>6. i \in Nat
    BY <1>1, PanelAssumption
  <2> QED
    BY <2>2, <2>4, <2>5, <2>6
<1>4. \A p \in Picture : lock[p] # r => order'[p] = order[p]
  BY <1>2
<1>5. Stored' = Stored
  BY <1>3, <1>4, PanelAssumption DEF Stored
<1>6. \A p \in Picture : lock'[p] = IF lock[p] = r THEN None ELSE lock[p]
  BY DEF CommitOrder, Unlock
<1>7. End(r, {p \in Picture : lock[p] = r}) /\ TypeOK
  BY DEF CommitOrder, PanelInv
<1>8. known' = known /\ regions' = regions
  BY DEF CommitOrder
<1> QED
  BY <1>1, <1>3, <1>4, <1>5, <1>6, <1>7, <1>8, EndStep

LEMMA InsertImageStep ==
  ASSUME PanelInv, NEW r \in Request, NEW p \in Picture, InsertImage(r, p)
  PROVE  /\ request[r].step = "add" /\ p \notin known /\ p \notin Stored
         /\ order'[p] = request[r].place /\ request[r].place \in Nat
         /\ \A q \in Picture : q # p => order'[q] = order[q]
         /\ order' \in [Picture -> Nat \cup {None}] /\ Stored' = Stored \cup {p}
         /\ known' = known \cup {p} /\ lock' = lock /\ regions' = regions
         /\ request' \in [Request -> Requests] /\ request'[r] = Idle
         /\ \A x \in Request : x # r =>
              /\ ~ At(x, "add") => request'[x] = request[x]
              /\ At(x, "add") => /\ request'[x].step = "add"
                                 /\ request'[x].place = request[x].place
                                 /\ request'[x].during = request[x].during \cup {p}
<1>0. TypeOK /\ request[r] \in Requests
  BY Element DEF PanelInv
<1>1. request[r].place \in Nat
  BY <1>0 DEF Requests
<1>2. /\ order'[p] = request[r].place /\ \A q \in Picture : q # p => order'[q] = order[q]
      /\ order' \in [Picture -> Nat \cup {None}]
  BY <1>0, <1>1 DEF InsertImage, TypeOK
<1>3. p \notin known /\ p \notin Stored
  BY <1>0 DEF InsertImage, TypeOK
<1>4. Stored' = Stored \cup {p}
  BY <1>1, <1>2, PanelAssumption DEF Stored
<1>5. End(r, {p}) /\ known' = known \cup {p} /\ lock' = lock /\ regions' = regions
      /\ request[r].step = "add"
  BY DEF InsertImage, At
<1> QED
  BY <1>0, <1>1, <1>2, <1>3, <1>4, <1>5, EndStep

-----------------------------------------------------------------------------
(* Types.                                                                  *)
LEMMA TypeStep == PanelInv /\ [Next]_vars => TypeOK'
<1> SUFFICES ASSUME PanelInv, [Next]_vars PROVE TypeOK'
  OBVIOUS
<1>0. TypeOK /\ request \in [Request -> Requests] /\ Bounded
  BY Element DEF PanelInv
<1>a. ASSUME order' = order, known' = known, lock' = lock, regions' = regions,
             request' \in [Request -> Requests]
      PROVE  TypeOK'
  BY <1>0, <1>a DEF TypeOK, Requests, Bodies, Stored
<1>1. ASSUME NEW r \in Request, StartAdd(r) PROVE TypeOK'
  <2>1. [Idle EXCEPT !.step = "add", !.place = NextPlace] \in Requests
    BY <1>0, PlaceIsLast, IdleRequest DEF Requests
  <2> QED
    BY <1>0, <1>1, <1>a, <2>1 DEF StartAdd, pictures
<1>2. ASSUME NEW r \in Request, NEW p \in Picture, InsertImage(r, p) PROVE TypeOK'
  BY <1>0, <1>2, InsertImageStep DEF TypeOK, Requests, Bodies
<1>3. ASSUME NEW p \in Picture, DeleteImage(p) PROVE TypeOK'
  BY <1>0, <1>3 DEF DeleteImage, TypeOK, Stored
<1>4. ASSUME NEW r \in Request, NEW b \in Orders, StartReorder(r, b) PROVE TypeOK'
  <2>1. [Idle EXCEPT !.step = "update", !.body = b] \in Requests
    BY PanelAssumption, IdleRequest DEF Requests, Bodies
  <2> QED
    BY <1>0, <1>4, <1>a, <2>1 DEF StartReorder, pictures
<1>5. ASSUME NEW r \in Request, UpdateImage(r) PROVE TypeOK'
  <2>1. lock' \in [Picture -> Request \cup {None}]
    BY <1>0, <1>5 DEF UpdateImage, TypeOK
  <2>2. request' \in [Request -> Requests]
    BY <1>5, UpdateStep
  <2> QED
    BY <1>0, <1>5, <2>1, <2>2 DEF UpdateImage, TypeOK, Requests, Bodies, Stored
<1>6. ASSUME NEW r \in Request, CommitOrder(r) PROVE TypeOK'
  <2>1. order' \in [Picture -> Nat \cup {None}]
    <3>1. \A p \in Picture : order'[p] \in Nat \cup {None}
      BY <1>0, <1>6, CommitOrderStep DEF TypeOK
    <3>2. order' = [p \in Picture |-> order'[p]]
      BY <1>6 DEF CommitOrder
    <3> QED
      BY <3>1, <3>2
  <2>2. lock' \in [Picture -> Request \cup {None}]
    BY <1>0, <1>6 DEF CommitOrder, Unlock, TypeOK
  <2>3. Stored' = Stored /\ known' = known /\ regions' = regions /\ request' \in [Request -> Requests]
    BY <1>6, CommitOrderStep
  <2> QED
    BY <1>0, <2>1, <2>2, <2>3 DEF TypeOK, Requests, Bodies
<1>7. ASSUME NEW r \in Request, NEW b \in Lists, StartReplace(r, b) PROVE TypeOK'
  <2>1. regions \subseteq Region
    BY <1>0 DEF TypeOK
  <2>2. [Idle EXCEPT !.step = "delete", !.body = b, !.seen = regions] \in Requests
    BY <2>1, PanelAssumption, IdleRequest DEF Requests, Bodies
  <2> QED
    BY <1>0, <1>7, <1>a, <2>2 DEF StartReplace, pictures
<1>8. ASSUME NEW r \in Request, DeleteRegions(r) PROVE TypeOK'
  BY <1>0, <1>8, <1>a, DeleteRegionsStep DEF DeleteRegions, pictures
<1>9. ASSUME NEW r \in Request, InsertRegion(r) PROVE TypeOK'
  BY <1>9, <1>a, InsertRegionStep DEF InsertRegion, pictures
<1>10. ASSUME NEW r \in Request, CommitRegions(r) PROVE TypeOK'
  <2>1. regions' \subseteq Region /\ request' \in [Request -> Requests]
    BY <1>0, <1>10, CommitRegionsStep
  <2>2. order' = order /\ known' = known /\ lock' = lock
    BY <1>10 DEF CommitRegions, pictures
  <2> QED
    BY <1>0, <2>1, <2>2 DEF TypeOK, Requests, Bodies, Stored
<1>11. ASSUME NEW r \in Request, Rollback(r) PROVE TypeOK'
  <2>1. lock' \in [Picture -> Request \cup {None}]
    BY <1>0, <1>11 DEF Rollback, Unlock, TypeOK
  <2>2. request' \in [Request -> Requests]
    BY <1>0, <1>11, IdleRequest DEF Rollback
  <2> QED
    BY <1>0, <1>11, <2>1, <2>2 DEF Rollback, TypeOK, Requests, Bodies, Stored
<1>12. CASE Crash
  <2>1. lock' \in [Picture -> Request \cup {None}] /\ request' \in [Request -> Requests]
    BY <1>12, IdleRequest DEF Crash
  <2> QED
    BY <1>0, <1>12, <2>1 DEF Crash, TypeOK, Requests, Bodies, Stored
<1>13. CASE UNCHANGED vars
  BY <1>0, <1>13, <1>a DEF vars
<1> QED
  BY <1>1, <1>2, <1>3, <1>4, <1>5, <1>6, <1>7, <1>8, <1>9, <1>10, <1>11, <1>12, <1>13, Steps

-----------------------------------------------------------------------------
(* Reorders and the rows they hold.                                        *)
Sorts == (\A p \in Picture : LockHeld(p)) /\ \A r \in Request : Sorting(r)

(* Nothing of it changes when no picture does and no reorder.              *)
LEMMA SameSorts ==
  ASSUME PanelInv, order' = order, known' = known, lock' = lock,
         \A x \in Request : request'[x] = request[x] \/ (~ At(x, "update") /\ ~ At(x, "update")')
  PROVE  Sorts'
<1>1. ASSUME NEW p \in Picture PROVE LockHeld(p)'
  <2>1. LockHeld(p) /\ lock[p] \in Request \cup {None}
    BY DEF PanelInv, TypeOK
  <2> QED
    BY <2>1 DEF LockHeld, Stored, At
<1>2. ASSUME NEW x \in Request PROVE Sorting(x)'
  <2>1. Sorting(x)
    BY DEF PanelInv
  <2> QED
    BY <2>1 DEF Sorting, Stored, At
<1> QED
  BY <1>1, <1>2 DEF Sorts

(* A request that leaves gives its rows back.                              *)
LEMMA LeaveSorts ==
  ASSUME PanelInv, NEW r \in Request, request'[r] = Idle, known' = known, Stored' = Stored,
         \A p \in Picture : lock'[p] = IF lock[p] = r THEN None ELSE lock[p],
         \A x \in Request : x # r =>
            request'[x] = request[x] \/ (~ At(x, "update") /\ ~ At(x, "update")')
  PROVE  Sorts'
<1>1. ASSUME NEW p \in Picture PROVE LockHeld(p)'
  <2>1. LockHeld(p) /\ lock[p] \in Request \cup {None}
    BY DEF PanelInv, TypeOK
  <2> QED
    BY <2>1 DEF LockHeld, At
<1>2. ASSUME NEW x \in Request PROVE Sorting(x)'
  <2>1. Sorting(x) /\ (At(x, "update") => request[x].body \in Seq(Picture))
    BY PanelAssumption DEF PanelInv, Sorting
  <2>2. CASE x = r
    BY <2>2 DEF Sorting, At, Idle
  <2>3. CASE x # r
    BY <2>1, <2>3, PanelAssumption DEF Sorting, At
  <2> QED
    BY <2>2, <2>3
<1> QED
  BY <1>1, <1>2 DEF Sorts

LEMMA SortStep == PanelInv /\ [Next]_vars => Sorts'
<1> SUFFICES ASSUME PanelInv, [Next]_vars PROVE Sorts'
  OBVIOUS
<1>0. /\ TypeOK /\ Sorts /\ request \in [Request -> Requests]
      /\ \A x \in Request : At(x, "update") => request[x].body \in Seq(Picture)
  BY Element, PanelAssumption DEF PanelInv, Sorts, Sorting
<1>1. ASSUME NEW r \in Request, StartAdd(r) PROVE Sorts'
  BY <1>0, <1>1, SameSorts DEF StartAdd, pictures, At, Idle
<1>2. ASSUME NEW r \in Request, NEW p \in Picture, InsertImage(r, p) PROVE Sorts'
  <2>1. /\ p \notin known /\ p \notin Stored /\ Stored' = Stored \cup {p} /\ known' = known \cup {p}
        /\ lock' = lock
        /\ \A x \in Request : request'[x] = request[x]
             \/ (~ At(x, "update") /\ ~ At(x, "update")')
    BY <1>2, InsertImageStep DEF At, Idle
  <2>2. ASSUME NEW q \in Picture PROVE LockHeld(q)'
    <3>1. LockHeld(q) /\ lock[q] \in Request \cup {None}
      BY <1>0 DEF Sorts, TypeOK
    <3> QED
      BY <2>1, <3>1 DEF LockHeld, At
  <2>3. ASSUME NEW x \in Request PROVE Sorting(x)'
    <3>1. Sorting(x)
      BY <1>0 DEF Sorts
    <3> QED
      BY <2>1, <3>1 DEF Sorting, At
  <2> QED
    BY <2>2, <2>3 DEF Sorts
<1>3. ASSUME NEW p \in Picture, DeleteImage(p) PROVE Sorts'
  <2>1. /\ lock[p] = None /\ Stored' \subseteq Stored /\ lock' = lock /\ request' = request
        /\ known' = known /\ \A q \in Stored : q # p => q \in Stored'
    BY <1>0, <1>3 DEF DeleteImage, Stored, TypeOK
  <2>2. ASSUME NEW q \in Picture PROVE LockHeld(q)'
    <3>1. LockHeld(q)
      BY <1>0 DEF Sorts
    <3> QED
      BY <2>1, <3>1 DEF LockHeld, At
  <2>3. ASSUME NEW x \in Request PROVE Sorting(x)'
    <3>1. Sorting(x)
      BY <1>0 DEF Sorts
    <3> QED
      BY <2>1, <3>1 DEF Sorting, At
  <2> QED
    BY <2>2, <2>3 DEF Sorts
<1>4. ASSUME NEW r \in Request, NEW b \in Orders, StartReorder(r, b) PROVE Sorts'
  <2>1. /\ request'[r].step = "update" /\ request'[r].body = b /\ request'[r].next = 1
        /\ \A x \in Request : x # r => request'[x] = request[x]
    BY <1>0, <1>4 DEF StartReorder, Idle
  <2>2. /\ order' = order /\ known' = known /\ lock' = lock /\ Stored' = Stored
        /\ ~ At(r, "update") /\ \A i \in DOMAIN b : b[i] \in known
    BY <1>4 DEF StartReorder, pictures, Stored, At
  <2>3. ASSUME NEW p \in Picture PROVE LockHeld(p)'
    <3>1. LockHeld(p) /\ lock[p] \in Request \cup {None}
      BY <1>0 DEF Sorts, TypeOK
    <3> QED
      BY <2>1, <2>2, <3>1 DEF LockHeld, At
  <2>4. Sorting(r)'
    <3>1. \A i \in DOMAIN b : i \in Nat \ {0}
      BY PanelAssumption
    <3> QED
      BY <2>1, <2>2, <3>1 DEF Sorting
  <2>5. ASSUME NEW x \in Request, x # r PROVE Sorting(x)'
    <3>1. Sorting(x)
      BY <1>0 DEF Sorts
    <3> QED
      BY <2>1, <2>2, <2>5, <3>1 DEF Sorting, At
  <2> QED
    BY <2>3, <2>4, <2>5 DEF Sorts
<1>5. ASSUME NEW r \in Request, UpdateImage(r) PROVE Sorts'
  <2> DEFINE b == request[r].body
             n == request[r].next
             p == Current(r)
  <2>1. /\ b \in Orders /\ n \in DOMAIN b /\ p = b[n] /\ p \in Picture
        /\ request'[r].step = "update" /\ request'[r].body = b /\ request'[r].next = n + 1
        /\ \A x \in Request : x # r => request'[x] = request[x]
    BY <1>5, UpdateStep DEF Current
  <2>2. At(r, "update") /\ order' = order /\ known' = known /\ Stored' = Stored
    BY <1>5 DEF UpdateImage, Stored
  <2>3. /\ \A q \in Picture : q # p => lock'[q] = lock[q]
        /\ p \in Stored => lock[p] \in {None, r} /\ lock'[p] = r
        /\ p \notin Stored => lock'[p] = lock[p]
    BY <1>0, <1>5, <2>1 DEF UpdateImage, TypeOK
  <2>4. ASSUME NEW q \in Picture PROVE LockHeld(q)'
    <3>1. LockHeld(q) /\ lock[q] \in Request \cup {None}
      BY <1>0 DEF Sorts, TypeOK
    <3>2. CASE lock'[q] = lock[q]
      BY <2>1, <2>2, <3>1, <3>2 DEF LockHeld, At
    <3>3. CASE q = p /\ p \in Stored
      BY <2>1, <2>2, <2>3, <3>3 DEF LockHeld, At
    <3> QED
      BY <2>3, <3>2, <3>3
  <2>5. Sorting(r)'
    <3>1. Sorting(r) /\ \A i \in DOMAIN b : i \in Nat /\ n \in Nat /\ b[i] \in Picture
      BY <1>0, <2>1, PanelAssumption DEF Sorts
    <3>2. ASSUME NEW i \in DOMAIN b, i < n + 1, b[i] \in Stored PROVE lock'[b[i]] = r
      <4>1. CASE i = n
        BY <2>1, <2>3, <3>2, <4>1
      <4>2. CASE i < n
        BY <2>2, <2>3, <3>1, <3>2, <4>2 DEF Sorting
      <4> QED
        BY <3>1, <3>2, <4>1, <4>2
    <3>3. b \in Orders /\ \A i \in DOMAIN b : b[i] \in known
      BY <2>2, <3>1 DEF Sorting
    <3> HIDE DEF b, n, p
    <3> QED
      BY <2>1, <2>2, <3>2, <3>3 DEF Sorting
  <2>6. ASSUME NEW x \in Request, x # r PROVE Sorting(x)'
    <3>1. Sorting(x)
      BY <1>0 DEF Sorts
    <3>2. At(x, "update") => request[x].body \in Seq(Picture)
      BY <1>0
    <3>3. \A q \in Picture : q \in Stored /\ lock[q] = x => lock'[q] = x
      BY <2>3, <2>6, PanelAssumption
    <3>4. At(x, "update") => \A i \in DOMAIN request[x].body : request[x].body[i] \in Picture
      BY <3>2
    <3> QED
      BY <2>1, <2>2, <2>6, <3>1, <3>3, <3>4 DEF Sorting, At
  <2> QED
    BY <2>4, <2>5, <2>6 DEF Sorts
<1>6. ASSUME NEW r \in Request, CommitOrder(r) PROVE Sorts'
  <2>1. \A x \in Request : x # r =>
          request'[x] = request[x] \/ (~ At(x, "update") /\ ~ At(x, "update")')
    BY <1>6, CommitOrderStep DEF At
  <2> QED
    BY <1>6, <2>1, CommitOrderStep, LeaveSorts
<1>7. ASSUME NEW r \in Request, NEW b \in Lists, StartReplace(r, b) PROVE Sorts'
  BY <1>0, <1>7, SameSorts DEF StartReplace, pictures, At, Idle
<1>8. ASSUME NEW r \in Request, DeleteRegions(r) PROVE Sorts'
  BY <1>0, <1>8, DeleteRegionsStep, SameSorts DEF DeleteRegions, pictures, At
<1>9. ASSUME NEW r \in Request, InsertRegion(r) PROVE Sorts'
  <2>1. /\ request[r].step = "insert" /\ request'[r].step = "insert"
        /\ \A x \in Request : x # r => request'[x] = request[x]
    BY <1>9, InsertRegionStep
  <2> QED
    BY <1>9, <2>1, SameSorts DEF InsertRegion, pictures, At
<1>10. ASSUME NEW r \in Request, CommitRegions(r) PROVE Sorts'
  <2>1. \A x \in Request : request'[x] = request[x] \/ (~ At(x, "update") /\ ~ At(x, "update")')
    <3>1. ASSUME NEW x \in Request, x # r
          PROVE  request'[x] = request[x] \/ (~ At(x, "update") /\ ~ At(x, "update")')
      <4>1. request'[x].step = request[x].step
        BY <1>0, <1>10, <3>1, CommitRegionsStep
      <4>2. At(x, "delete") \/ At(x, "insert") \/ request'[x] = request[x]
        BY <1>10, <3>1 DEF CommitRegions
      <4> QED
        BY <4>1, <4>2 DEF At
    <3>2. ~ At(r, "update") /\ ~ At(r, "update")'
      BY <1>10 DEF CommitRegions, Idle, At
    <3> QED
      BY <3>1, <3>2
  <2> QED
    BY <1>10, <2>1, SameSorts DEF CommitRegions, pictures
<1>11. ASSUME NEW r \in Request, Rollback(r) PROVE Sorts'
  <2>1. /\ request'[r] = Idle /\ \A x \in Request : x # r => request'[x] = request[x]
        /\ known' = known /\ Stored' = Stored
        /\ \A p \in Picture : lock'[p] = IF lock[p] = r THEN None ELSE lock[p]
    BY <1>0, <1>11 DEF Rollback, Unlock, Stored
  <2> QED
    BY <2>1, LeaveSorts
<1>12. CASE Crash
  BY <1>12 DEF Crash, Sorts, Sorting, LockHeld, At, Idle
<1>13. CASE UNCHANGED vars
  BY <1>13, SameSorts DEF vars
<1> QED
  BY <1>1, <1>2, <1>3, <1>4, <1>5, <1>6, <1>7, <1>8, <1>9, <1>10, <1>11, <1>12, <1>13, Steps

-----------------------------------------------------------------------------
(* Additions and the places they have read.                                *)
Adds == Bounded /\ \A r \in Request : Adding(r)

LEMMA SameAdds ==
  ASSUME PanelInv, \A q \in Stored' : q \in Stored /\ order'[q] = order[q],
         \A x \in Request : request'[x].step = "add" =>
           /\ request[x].step = "add" /\ request'[x].place = request[x].place
           /\ request'[x].during = request[x].during
  PROVE  Adds'
<1>1. Bounded'
  BY DEF PanelInv, Bounded
<1>2. ASSUME NEW x \in Request PROVE Adding(x)'
  <2>1. Adding(x)
    BY DEF PanelInv
  <2> QED
    BY <2>1 DEF Adding, At
<1> QED
  BY <1>1, <1>2 DEF Adds

LEMMA AddStep == PanelInv /\ [Next]_vars => Adds'
<1> SUFFICES ASSUME PanelInv, [Next]_vars PROVE Adds'
  OBVIOUS
<1>0. /\ TypeOK /\ Adds /\ request \in [Request -> Requests]
      /\ \A p \in Stored : p \in Picture /\ order[p] \in Nat
      /\ \A x \in Request : request[x] \in Requests
  BY Element DEF PanelInv, Adds, TypeOK, Stored
<1>a. ASSUME order' = order, \A x \in Request : request'[x] = request[x] \/ request'[x].step # "add"
      PROVE  Adds'
  BY <1>a, SameAdds DEF Stored
<1>1. ASSUME NEW r \in Request, StartAdd(r) PROVE Adds'
  <2>1. order' = order /\ Stored' = Stored
    BY <1>1 DEF StartAdd, pictures, Stored
  <2>2. /\ request'[r].place = NextPlace
        /\ \A x \in Request : x # r => request'[x] = request[x]
    BY <1>0, <1>1 DEF StartAdd, Idle
  <2>3. \A q \in Stored : order[q] < NextPlace
    BY <1>0, PlaceIsLast DEF Adds
  <2>4. ASSUME NEW x \in Request PROVE Adding(x)'
    <3>1. Adding(x)
      BY <1>0 DEF Adds
    <3> QED
      BY <2>1, <2>2, <2>3, <3>1 DEF Adding, At
  <2> QED
    BY <1>0, <2>1, <2>4 DEF Adds, Bounded
<1>2. ASSUME NEW r \in Request, NEW p \in Picture, InsertImage(r, p) PROVE Adds'
  <2>1. /\ p \notin Stored /\ Stored' = Stored \cup {p}
        /\ order'[p] = request[r].place /\ request[r].place \in Nat
        /\ \A q \in Stored : order'[q] = order[q]
    BY <1>0, <1>2, InsertImageStep
  <2>2. Bounded'
    <3>1. PICK n \in Nat : \A q \in Stored : order[q] <= n
      BY <1>0 DEF Adds, Bounded
    <3>2. PICK m \in Nat : n <= m /\ request[r].place <= m
      BY <2>1
    <3>3. \A q \in Stored' : order'[q] <= m
      BY <1>0, <2>1, <3>1, <3>2
    <3> QED
      BY <3>3 DEF Bounded
  <2>3. ASSUME NEW x \in Request PROVE Adding(x)'
    <3>1. Adding(x)
      BY <1>0 DEF Adds
    <3>2. CASE x = r
      BY <1>2, <3>2, InsertImageStep DEF Adding, At, Idle
    <3>3. CASE x # r
      <4>1. At(x, "add")' =>
              /\ At(x, "add") /\ request'[x].place = request[x].place
              /\ request'[x].during = request[x].during \cup {p}
        BY <1>2, <3>3, InsertImageStep DEF At
      <4> QED
        BY <2>1, <3>1, <4>1 DEF Adding
    <3> QED
      BY <3>2, <3>3
  <2> QED
    BY <2>2, <2>3 DEF Adds
<1>3. ASSUME NEW p \in Picture, DeleteImage(p) PROVE Adds'
  <2>1. \A q \in Stored' : q \in Stored /\ order'[q] = order[q]
    BY <1>0, <1>3 DEF DeleteImage, Stored, TypeOK
  <2> QED
    BY <1>3, <2>1, SameAdds DEF DeleteImage
<1>4. ASSUME NEW r \in Request, NEW b \in Orders, StartReorder(r, b) PROVE Adds'
  BY <1>0, <1>4, <1>a DEF StartReorder, pictures, Idle
<1>5. ASSUME NEW r \in Request, UpdateImage(r) PROVE Adds'
  <2>1. \A x \in Request : request'[x] = request[x] \/ request'[x].step # "add"
    BY <1>5, UpdateStep
  <2> QED
    BY <1>5, <1>a, <2>1 DEF UpdateImage
<1>6. ASSUME NEW r \in Request, CommitOrder(r) PROVE Adds'
  <2> DEFINE mine == {p \in Picture : lock[p] = r}
             top == Len(request[r].body)
  <2>1. /\ Stored' = Stored
        /\ \A p \in mine : order'[p] \in Nat /\ order'[p] + 1 <= top
        /\ \A p \in Picture \ mine : order'[p] = order[p]
    BY <1>6, CommitOrderStep
  <2>2. top \in Nat
    BY <1>6, CommitOrderStep, PanelAssumption
  <2> HIDE DEF top
  <2>3. Bounded'
    <3>1. PICK n \in Nat : \A q \in Stored : order[q] <= n
      BY <1>0 DEF Adds, Bounded
    <3>2. PICK m \in Nat : n <= m /\ top <= m
      BY <2>2
    <3>3. ASSUME NEW q \in Stored PROVE order'[q] <= m
      <4>1. CASE q \in mine
        BY <2>1, <2>2, <3>2, <4>1
      <4>2. CASE q \notin mine
        BY <1>0, <2>1, <3>1, <3>2, <4>2
      <4> QED
        BY <4>1, <4>2
    <3> QED
      BY <2>1, <3>3 DEF Bounded
  <2>4. ASSUME NEW x \in Request PROVE Adding(x)'
    <3>1. Adding(x)
      BY <1>0 DEF Adds
    <3>2. CASE x = r
      BY <1>6, <3>2, CommitOrderStep DEF Adding, At, Idle
    <3>3. CASE x # r
      <4>1. At(x, "add")' =>
              /\ At(x, "add") /\ request'[x].place = request[x].place
              /\ request'[x].during = request[x].during \cup mine
        BY <1>6, <3>3, CommitOrderStep DEF At
      <4>2. \A q \in Stored : q \in Picture
        BY <1>0
      <4> HIDE DEF mine
      <4> QED
        BY <2>1, <3>1, <4>1, <4>2 DEF Adding
    <3> QED
      BY <3>2, <3>3
  <2> QED
    BY <2>3, <2>4 DEF Adds
<1>7. ASSUME NEW r \in Request, NEW b \in Lists, StartReplace(r, b) PROVE Adds'
  BY <1>0, <1>7, <1>a DEF StartReplace, pictures, Idle
<1>8. ASSUME NEW r \in Request, DeleteRegions(r) PROVE Adds'
  <2>1. \A x \in Request : request'[x] = request[x] \/ request'[x].step # "add"
    BY <1>0, <1>8, DeleteRegionsStep
  <2> QED
    BY <1>8, <1>a, <2>1 DEF DeleteRegions, pictures
<1>9. ASSUME NEW r \in Request, InsertRegion(r) PROVE Adds'
  <2>1. request'[r].step = "insert" /\ \A x \in Request : x # r => request'[x] = request[x]
    BY <1>9, InsertRegionStep
  <2> QED
    BY <1>9, <1>a, <2>1 DEF InsertRegion, pictures
<1>10. ASSUME NEW r \in Request, CommitRegions(r) PROVE Adds'
  <2>1. \A x \in Request : request'[x] = request[x] \/ request'[x].step # "add"
    <3>1. ASSUME NEW x \in Request, x # r
          PROVE  request'[x] = request[x] \/ request'[x].step # "add"
      <4>1. request'[x].step = request[x].step
        BY <1>0, <1>10, <3>1, CommitRegionsStep
      <4>2. At(x, "delete") \/ At(x, "insert") \/ request'[x] = request[x]
        BY <1>10, <3>1 DEF CommitRegions
      <4> QED
        BY <4>1, <4>2 DEF At
    <3>2. request'[r].step = "idle"
      BY <1>10 DEF CommitRegions, Idle
    <3> QED
      BY <3>1, <3>2
  <2> QED
    BY <1>10, <1>a, <2>1 DEF CommitRegions, pictures
<1>11. ASSUME NEW r \in Request, Rollback(r) PROVE Adds'
  BY <1>0, <1>11, <1>a DEF Rollback, Idle
<1>12. CASE Crash
  BY <1>12, <1>a DEF Crash, Idle
<1>13. CASE UNCHANGED vars
  BY <1>13, <1>a DEF vars
<1> QED
  BY <1>1, <1>2, <1>3, <1>4, <1>5, <1>6, <1>7, <1>8, <1>9, <1>10, <1>11, <1>12, <1>13, Steps

-----------------------------------------------------------------------------
(* Replacements, and what others have committed since they began.          *)
Replaces == \A r \in Request : Replacing(r)

LEMMA SameReplaces ==
  ASSUME PanelInv, regions' = regions,
         \A x \in Request : request'[x] = request[x] \/ request'[x].step \notin {"delete", "insert"}
  PROVE  Replaces'
<1>1. ASSUME NEW x \in Request PROVE Replacing(x)'
  <2>1. Replacing(x)
    BY DEF PanelInv
  <2> QED
    BY <2>1 DEF Replacing, At, Asked
<1> QED
  BY <1>1 DEF Replaces

LEMMA ReplaceStep == PanelInv /\ [Next]_vars => Replaces'
<1> SUFFICES ASSUME PanelInv, [Next]_vars PROVE Replaces'
  OBVIOUS
<1>0. /\ TypeOK /\ Replaces /\ request \in [Request -> Requests]
  BY Element DEF PanelInv, Replaces
<1>1. ASSUME NEW r \in Request, StartAdd(r) PROVE Replaces'
  BY <1>0, <1>1, SameReplaces DEF StartAdd, Idle
<1>2. ASSUME NEW r \in Request, NEW p \in Picture, InsertImage(r, p) PROVE Replaces'
  <2>1. \A x \in Request : request'[x] = request[x] \/ request'[x].step \notin {"delete", "insert"}
    BY <1>2, InsertImageStep DEF Idle
  <2> QED
    BY <1>2, <2>1, SameReplaces DEF InsertImage
<1>3. ASSUME NEW p \in Picture, DeleteImage(p) PROVE Replaces'
  BY <1>3, SameReplaces DEF DeleteImage
<1>4. ASSUME NEW r \in Request, NEW b \in Orders, StartReorder(r, b) PROVE Replaces'
  BY <1>0, <1>4, SameReplaces DEF StartReorder, Idle
<1>5. ASSUME NEW r \in Request, UpdateImage(r) PROVE Replaces'
  <2>1. \A x \in Request : request'[x] = request[x] \/ request'[x].step \notin {"delete", "insert"}
    BY <1>5, UpdateStep
  <2> QED
    BY <1>5, <2>1, SameReplaces DEF UpdateImage
<1>6. ASSUME NEW r \in Request, CommitOrder(r) PROVE Replaces'
  <2>1. \A x \in Request : request'[x] = request[x] \/ request'[x].step \notin {"delete", "insert"}
    BY <1>6, CommitOrderStep DEF Idle
  <2> QED
    BY <1>6, <2>1, SameReplaces DEF CommitOrder
<1>7. ASSUME NEW r \in Request, NEW b \in Lists, StartReplace(r, b) PROVE Replaces'
  <2>1. /\ request'[r].step = "delete" /\ request'[r].body = b /\ request'[r].next = 1
        /\ request'[r].gone = {} /\ request'[r].inserted = {} /\ request'[r].seen = regions
        /\ \A x \in Request : x # r => request'[x] = request[x]
    BY <1>0, <1>7 DEF StartReplace, Idle
  <2>2. regions' = regions
    BY <1>7 DEF StartReplace
  <2>3. b \in Seq(Region \cup {Blank})
    BY PanelAssumption
  <2>4. Replacing(r)'
    BY <2>1, <2>2, <2>3 DEF Replacing, At
  <2>5. ASSUME NEW x \in Request, x # r PROVE Replacing(x)'
    <3>1. Replacing(x)
      BY <1>0 DEF Replaces
    <3> QED
      BY <2>1, <2>2, <2>5, <3>1 DEF Replacing, At, Asked
  <2> QED
    BY <2>4, <2>5 DEF Replaces
<1>8. ASSUME NEW r \in Request, DeleteRegions(r) PROVE Replaces'
  <2>1. /\ request[r].step = "delete" /\ request'[r].step = "insert"
        /\ request'[r].gone = request[r].seen
        /\ request'[r].body = request[r].body /\ request'[r].next = request[r].next
        /\ request'[r].inserted = request[r].inserted /\ request'[r].added = request[r].added
        /\ \A x \in Request : x # r => request'[x] = request[x]
    BY <1>0, <1>8, DeleteRegionsStep
  <2>2. regions' = regions
    BY <1>8 DEF DeleteRegions
  <2>3. Replacing(r)'
    <3>1. /\ request[r].next = 1 /\ request[r].inserted = {}
          /\ regions \ request[r].seen \subseteq request[r].added
          /\ request[r].body \in Seq(Region \cup {Blank})
      BY <1>0, <2>1 DEF Replaces, Replacing, At
    <3>2. \A i \in DOMAIN request[r].body : ~ (i < 1)
      BY <3>1
    <3> QED
      BY <2>1, <2>2, <3>1, <3>2 DEF Replacing, At
  <2>4. ASSUME NEW x \in Request, x # r PROVE Replacing(x)'
    <3>1. Replacing(x)
      BY <1>0 DEF Replaces
    <3> QED
      BY <2>1, <2>2, <2>4, <3>1 DEF Replacing, At, Asked
  <2> QED
    BY <2>3, <2>4 DEF Replaces
<1>9. ASSUME NEW r \in Request, InsertRegion(r) PROVE Replaces'
  <2> DEFINE b == request[r].body
             n == request[r].next
             g == Current(r)
             gone == request[r].gone
             ins == request[r].inserted
             ins2 == ins \cup ({g} \ (((regions \ gone) \cup ins) \cup {Blank}))
  <2>1. /\ request[r].step = "insert" /\ b \in Seq(Region \cup {Blank}) /\ n \in DOMAIN b /\ g = b[n]
        /\ request'[r].step = "insert" /\ request'[r].gone = gone
        /\ request'[r].body = b /\ request'[r].next = n + 1
        /\ request'[r].inserted = ins2
        /\ request'[r].added = request[r].added /\ request'[r].removed = request[r].removed
        /\ \A x \in Request : x # r => request'[x] = request[x]
    BY <1>9, InsertRegionStep DEF Current
  <2>2. regions' = regions
    BY <1>9 DEF InsertRegion
  <2>3. /\ regions \ gone \subseteq request[r].added /\ ins \subseteq Asked(r)
        /\ \A i \in DOMAIN b : i < n /\ b[i] # Blank =>
             b[i] \in (regions \ gone) \cup ins \cup request[r].removed
    BY <1>0, <2>1 DEF Replaces, Replacing, At
  <2>4. Asked(r)' = Asked(r) /\ (g # Blank => g \in Asked(r))
    BY <2>1 DEF Asked
  <2>5. ins2 \subseteq Asked(r)
    BY <2>3, <2>4
  <2>6. ASSUME NEW i \in DOMAIN b, i < n + 1, b[i] # Blank
        PROVE  b[i] \in (regions \ gone) \cup ins2 \cup request[r].removed
    <3>1. i \in Nat /\ n \in Nat
      BY <2>1
    <3>2. CASE i = n
      BY <2>1, <2>6, <3>2
    <3>3. CASE i < n
      BY <2>3, <2>6, <3>3
    <3> QED
      BY <2>6, <3>1, <3>2, <3>3
  <2>7. Replacing(r)'
    <3> HIDE DEF b, n, g, gone, ins, ins2
    <3> QED
      BY <2>1, <2>2, <2>3, <2>4, <2>5, <2>6 DEF Replacing, At
  <2>8. ASSUME NEW x \in Request, x # r PROVE Replacing(x)'
    <3>1. Replacing(x) /\ request'[x] = request[x]
      BY <1>0, <2>1, <2>8 DEF Replaces
    <3> QED
      BY <2>2, <3>1 DEF Replacing, At, Asked
  <2> QED
    BY <2>7, <2>8 DEF Replaces
<1>10. ASSUME NEW r \in Request, CommitRegions(r) PROVE Replaces'
  <2> DEFINE gone == request[r].gone
             ins == request[r].inserted
  <2>1. regions' = (regions \ gone) \cup ins
    BY <1>10 DEF CommitRegions
  <2>2. Replacing(r)'
    BY <1>0, <1>10, CommitRegionsStep DEF Replacing, At, Idle
  <2>3. ASSUME NEW x \in Request, x # r PROVE Replacing(x)'
    <3>1. Replacing(x)
      BY <1>0 DEF Replaces
    <3>2. /\ request'[x].step = request[x].step /\ request'[x].body = request[x].body
          /\ request'[x].next = request[x].next
          /\ request'[x].gone = request[x].gone /\ request'[x].inserted = request[x].inserted
          /\ At(x, "delete") \/ At(x, "insert") =>
               /\ request'[x].seen = request[x].seen \ gone
               /\ request'[x].added = request[x].added \cup ins
               /\ request'[x].removed = request[x].removed \cup gone
      BY <1>0, <1>10, <2>3, CommitRegionsStep
    <3> HIDE DEF gone, ins
    <3>3. CASE At(x, "delete")
      BY <2>1, <3>1, <3>2, <3>3 DEF Replacing, At
    <3>4. CASE At(x, "insert")
      <4>1. /\ At(x, "insert")' /\ ~ At(x, "delete")' /\ request[x].body \in Seq(Region \cup {Blank})
            /\ Asked(x)' = Asked(x)
        BY <3>1, <3>2, <3>4 DEF Replacing, At, Asked
      <4>2. regions' \ request[x].gone \subseteq request[x].added \cup ins
        BY <2>1, <3>1, <3>4 DEF Replacing
      <4>3. ASSUME NEW i \in DOMAIN request[x].body, i < request[x].next, request[x].body[i] # Blank
            PROVE  request[x].body[i] \in (regions' \ request[x].gone) \cup request[x].inserted
                                          \cup (request[x].removed \cup gone)
        <5>1. request[x].body[i] \in (regions \ request[x].gone) \cup request[x].inserted
                                     \cup request[x].removed
          BY <3>1, <3>4, <4>3 DEF Replacing
        <5> QED
          BY <2>1, <5>1
      <4>4. request[x].inserted \subseteq Asked(x)
        BY <3>1, <3>4 DEF Replacing
      <4> QED
        BY <3>2, <3>4, <4>1, <4>2, <4>3, <4>4 DEF Replacing
    <3>5. CASE ~ At(x, "delete") /\ ~ At(x, "insert")
      BY <3>2, <3>5 DEF Replacing, At
    <3> QED
      BY <3>3, <3>4, <3>5
  <2> QED
    BY <2>2, <2>3 DEF Replaces
<1>11. ASSUME NEW r \in Request, Rollback(r) PROVE Replaces'
  BY <1>0, <1>11, SameReplaces DEF Rollback, Idle
<1>12. CASE Crash
  BY <1>12, SameReplaces DEF Crash, Idle
<1>13. CASE UNCHANGED vars
  BY <1>13, SameReplaces DEF vars
<1> QED
  BY <1>1, <1>2, <1>3, <1>4, <1>5, <1>6, <1>7, <1>8, <1>9, <1>10, <1>11, <1>12, <1>13, Steps

-----------------------------------------------------------------------------
LEMMA InitInv == Init => PanelInv
<1> SUFFICES ASSUME Init PROVE PanelInv
  OBVIOUS
<1>1. TypeOK
  BY IdleRequest DEF Init, TypeOK, Requests, Bodies, Stored
<1>2. Bounded /\ \A p \in Picture : LockHeld(p)
  BY DEF Init, Bounded, LockHeld, Stored
<1>3. \A r \in Request : Sorting(r) /\ Adding(r) /\ Replacing(r)
  BY DEF Init, Sorting, Adding, Replacing, At, Idle
<1> QED
  BY <1>1, <1>2, <1>3 DEF PanelInv

(* The invariant: what each transaction has written or read stays true     *)
(* while others run.                                                       *)
THEOREM Invariant == Spec => []PanelInv
<1>1. PanelInv /\ [Next]_vars => PanelInv'
  BY TypeStep, SortStep, AddStep, ReplaceStep DEF PanelInv, Sorts, Adds, Replaces
<1> QED
  BY InitInv, <1>1, PTL DEF Spec

-----------------------------------------------------------------------------
OfOneRequest ==
  \A p \in Stored \cap Stored' : order'[p] # order[p] =>
    \E r \in Request : LET b == request[r].body IN
      /\ At(r, "update") /\ \E i \in DOMAIN b : b[i] = p
      /\ \A i \in DOMAIN b : b[i] \in Stored' => order'[b[i]] = i - 1

LEMMA OrderStep == PanelInv /\ [Next]_vars => OfOneRequest
<1> SUFFICES ASSUME PanelInv, [Next]_vars,
                    NEW p \in Stored \cap Stored', order'[p] # order[p]
             PROVE  \E r \in Request : LET b == request[r].body IN
                      /\ At(r, "update") /\ \E i \in DOMAIN b : b[i] = p
                      /\ \A i \in DOMAIN b : b[i] \in Stored' => order'[b[i]] = i - 1
  BY DEF OfOneRequest
<1>1. PICK r \in Request : CommitOrder(r)
  <2>1. p \in Picture
    BY DEF Stored
  <2>2. ASSUME NEW r \in Request, NEW q \in Picture, InsertImage(r, q) PROVE FALSE
    <3>1. q # p
      BY <2>2, InsertImageStep
    <3> QED
      BY <2>1, <2>2, <3>1, InsertImageStep
  <2>3. ASSUME NEW q \in Picture, DeleteImage(q) PROVE FALSE
    BY <2>1, <2>3 DEF DeleteImage, PanelInv, TypeOK, Stored
  <2>4. order' # order
    OBVIOUS
  <2> QED
    BY <2>2, <2>3, <2>4, Steps
       DEF StartAdd, StartReorder, UpdateImage, StartReplace, DeleteRegions, InsertRegion,
           CommitRegions, Rollback, Crash, vars, pictures
<1> DEFINE b == request[r].body
<1>2. /\ b \in Orders /\ Stored' = Stored
      /\ \A q \in Picture : lock[q] # r => order'[q] = order[q]
      /\ order' = [q \in Picture |-> IF lock[q] = r THEN Place(b, q) ELSE order[q]]
  BY <1>1, CommitOrderStep DEF CommitOrder
<1>3. ASSUME NEW i \in DOMAIN b, b[i] \in Stored PROVE order'[b[i]] = i - 1
  <2>1. i \in Nat /\ request[r].next \in Nat /\ i < request[r].next /\ b[i] \in Picture
    <3>1. b \in Seq(Picture)
      BY <1>2, PanelAssumption
    <3>2. request[r].next \in Nat \ {0} /\ ~ (request[r].next <= Len(b))
      BY <1>1 DEF PanelInv, TypeOK, CommitOrder, More
    <3> QED
      BY <3>1, <3>2
  <2>2. lock[b[i]] = r
    BY <1>1, <1>3, <2>1 DEF PanelInv, Sorting, CommitOrder
  <2>3. Place(b, b[i]) = i - 1
    BY <1>2, PlaceInBody
  <2> QED
    BY <1>2, <2>1, <2>2, <2>3
<1>4. At(r, "update") /\ \E i \in DOMAIN b : b[i] = p
  <2>1. lock[p] = r
    BY <1>2 DEF Stored
  <2>2. r # None
    BY PanelAssumption
  <2> QED
    BY <2>1, <2>2 DEF PanelInv, LockHeld, Stored
<1> QED
  BY <1>2, <1>3, <1>4

(* The order of the pictures is never half of one request's and half of    *)
(* another's: who moves a picture names it, and moves all it names.        *)
THEOREM Order == Spec => OrderOfOneRequest
<1>1. PanelInv /\ [Next]_vars => [OfOneRequest]_vars
  BY OrderStep
<1> QED
  BY <1>1, Invariant, PTL DEF Spec, OrderOfOneRequest, OfOneRequest

-----------------------------------------------------------------------------
Last ==
  \A r \in Request, p \in Picture : InsertImage(r, p) =>
    \A q \in Stored \ request[r].during : order[q] < order'[p]

LEMMA LastStep == PanelInv => Last
<1> SUFFICES ASSUME PanelInv, NEW r \in Request, NEW p \in Picture, InsertImage(r, p)
             PROVE  \A q \in Stored \ request[r].during : order[q] < order'[p]
  BY DEF Last
<1>1. order'[p] = request[r].place /\ At(r, "add")
  BY InsertImageStep DEF At
<1> QED
  BY <1>1 DEF PanelInv, Adding

(* A new picture comes after all that its INSERT could see.                *)
THEOREM ComesLast == Spec => NewPictureComesLast
<1>1. PanelInv => [Last]_vars
  BY LastStep
<1> QED
  BY <1>1, Invariant, PTL DEF Spec, NewPictureComesLast, Last

-----------------------------------------------------------------------------
Replaced ==
  \A r \in Request : CommitRegions(r) =>
    /\ regions' \subseteq Asked(r) \cup request[r].added
    /\ Asked(r) \subseteq regions' \cup request[r].removed

LEMMA ReplacedStep == PanelInv => Replaced
<1> SUFFICES ASSUME PanelInv, NEW r \in Request, CommitRegions(r)
             PROVE  /\ regions' \subseteq Asked(r) \cup request[r].added
                    /\ Asked(r) \subseteq regions' \cup request[r].removed
  BY DEF Replaced
<1>1. /\ At(r, "insert") /\ ~ More(r)
      /\ regions' = (regions \ request[r].gone) \cup request[r].inserted
  BY DEF CommitRegions
<1>2. Replacing(r) /\ request[r].next \in Nat
  BY DEF PanelInv, TypeOK
<1>3. regions' \subseteq Asked(r) \cup request[r].added
  BY <1>1, <1>2 DEF Replacing
<1>4. ASSUME NEW g \in Asked(r) PROVE g \in regions' \cup request[r].removed
  <2>1. PICK i \in DOMAIN request[r].body : request[r].body[i] = g /\ g # Blank
    BY DEF Asked
  <2>2. i < request[r].next
    <3>1. request[r].body \in Seq(Region \cup {Blank})
      BY <1>1, <1>2 DEF Replacing
    <3>2. i \in Nat /\ i <= Len(request[r].body) /\ Len(request[r].body) \in Nat
      BY <3>1
    <3> QED
      BY <1>1, <1>2, <3>2 DEF More
  <2> QED
    BY <1>1, <1>2, <2>1, <2>2 DEF Replacing
<1> QED
  BY <1>3, <1>4

(* A replacement of the regions differs from what it was asked only by     *)
(* what others have committed since it began.                              *)
THEOREM Regions == Spec => ReplacedButForOthers
<1>1. PanelInv => [Replaced]_vars
  BY ReplacedStep
<1> QED
  BY <1>1, Invariant, PTL DEF Spec, ReplacedButForOthers, Replaced
=============================================================================
