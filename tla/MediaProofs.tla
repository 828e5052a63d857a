------------------------------ MODULE MediaProofs ------------------------------
(***************************************************************************)
(* TLAPS proofs about Media, for any companies, rows, requests and files.  *)
(***************************************************************************)
EXTENDS Media, FiniteSetTheorems, TLAPS

Requests == [step : {"idle", "upload", "write", "insert"}, company : Company \cup {None},
             row : Row \cup {None}, url : Url \cup {None}]

(* What each way to write a request leaves in it.                          *)
LEMMA AnswerStep ==
  ASSUME TypeOK, NEW r \in Request, Answer(r)
  PROVE  /\ request'[r] = Idle /\ request' \in [Request -> Requests]
         /\ \A q \in Request : q # r => request'[q] = request[q]
BY DEF TypeOK, Answer, Idle, Requests

LEMMA GotoStep ==
  ASSUME TypeOK, NEW r \in Request, Goto(r, "insert")
  PROVE  /\ request'[r] = [step |-> "insert", company |-> request[r].company,
                           row |-> request[r].row, url |-> request[r].url]
         /\ request' \in [Request -> Requests]
         /\ \A q \in Request : q # r => request'[q] = request[q]
BY DEF TypeOK, Goto, Requests

LEMMA HoldStep ==
  ASSUME TypeOK, NEW r \in Request, NEW u \in Url, Hold(r, u)
  PROVE  /\ request'[r] = [step |-> "write", company |-> request[r].company,
                           row |-> request[r].row, url |-> u]
         /\ request' \in [Request -> Requests]
         /\ \A q \in Request : q # r => request'[q] = request[q]
BY DEF TypeOK, Hold, Requests

LEMMA StartStep ==
  ASSUME TypeOK, NEW r \in Request, NEW c \in Company, NEW x \in Row \cup {None}, Start(r, c, x)
  PROVE  /\ request'[r] = [step |-> "upload", company |-> c, row |-> x, url |-> None]
         /\ request' \in [Request -> Requests]
         /\ \A q \in Request : q # r => request'[q] = request[q]
BY DEF TypeOK, Start, Requests

(* The file an upload would write is new.                                  *)
LEMMA NewUrl == Url \ stored # {} => (CHOOSE v \in Url : v \notin stored) \in Url \ stored
OBVIOUS

LEMMA Upload1 ==
  ASSUME TypeOK, NEW r \in Request, Upload(r)
  PROVE  /\ At(r, "upload") /\ actor' = request[r].company /\ UNCHANGED tables
         /\ \E u \in Url \ stored :
              \/ stored' = stored \cup {u} /\ Hold(r, u)
              \/ stored' \in {stored, stored \cup {u}} /\ Answer(r)
BY NewUrl DEF Upload

(* The disjuncts of Next, with the same steps of different handlers taken  *)
(* together.                                                               *)
Write(r) == CheckOwner(r) \/ InsertImage(r) \/ WriteLogo(r) \/ WriteDocument(r)

LEMMA Steps ==
  ASSUME [Next]_vars
  PROVE  \/ \E c \in Company, x \in Row : Create(c, x) \/ Delete(c, x) \/ EditCertification(c, x)
         \/ \E c \in Company, u \in Url : DeleteImage(c, u)
         \/ \E c \in Company : DeleteCompany(c)
         \/ \E r \in Request, c \in Company, x \in Row \cup {None} :
              Start(r, c, x) /\ (x \in Service => CountServiceImages(r, c, x))
         \/ \E r \in Request : Upload(r)
         \/ \E r \in Request : CheckOwner(r)
         \/ \E r \in Request : InsertImage(r)
         \/ \E r \in Request : WriteLogo(r)
         \/ \E r \in Request : WriteDocument(r)
         \/ Crash
         \/ UNCHANGED vars
<1> USE MediaAssumption DEF Row
<1>1. CASE \E c \in Company, x \in Row :
             \/ CreateService(c, x) \/ CreateProject(c, x) \/ CreateCertification(c, x)
             \/ DeleteService(c, x) \/ DeleteProject(c, x) \/ DeleteCertification(c, x)
             \/ EditCertification(c, x)
  BY <1>1 DEF CreateService, CreateProject, CreateCertification,
    DeleteService, DeleteProject, DeleteCertification
<1>2. CASE \E c \in Company, x \in Row, r \in Request : x \in Service /\ CountServiceImages(r, c, x)
  BY <1>2 DEF CountServiceImages
<1>3. CASE \E c \in Company, x \in Row, r \in Request : AddProjectImage(r, c, x)
  BY <1>3 DEF AddProjectImage
<1>4. CASE \E c \in Company, x \in Row, r \in Request : UploadCertificationDoc(r, c, x)
  BY <1>4 DEF UploadCertificationDoc
<1>5. CASE \E c \in Company, r \in Request : UploadLogo(r, c)
  BY <1>5 DEF UploadLogo
<1> QED
  BY <1>1, <1>2, <1>3, <1>4, <1>5 DEF Next

-----------------------------------------------------------------------------
LEMMA InitInv == Init => MediaInv
<1> SUFFICES ASSUME Init PROVE MediaInv
  OBVIOUS
<1> USE MediaAssumption
<1>1. TypeOK
  <2>1. request \in [Request -> Requests]
    BY DEF Init, Idle, Requests
  <2>2. \A r \in Request : request[r] = Idle
    BY DEF Init
  <2>3. /\ company \subseteq Company /\ rows \subseteq known /\ known \subseteq Row
        /\ images \in [Row -> SUBSET Url] /\ named \subseteq Certification
        /\ doc \in [Certification -> Url \cup {None}]
        /\ logo \in [Company -> Url \cup {None}] /\ stored \subseteq Url
        /\ actor \in Company \cup {None}
    BY DEF Init
  <2>4. \A r \in Request :
          /\ request[r].company = None <=> At(r, "idle")
          /\ request[r].url # None <=> At(r, "write") \/ At(r, "insert")
          /\ At(r, "insert") => request[r].row \in Service \cup Project
    BY <2>2 DEF Idle, At
  <2> QED
    BY <2>1, <2>3, <2>4 DEF TypeOK, Requests
<1>2. LinksAreStored /\ NothingOrphaned
  BY DEF Init, LinksAreStored, NothingOrphaned, Linked
<1>3. HeldOnce /\ InsertsAreOwn
  BY DEF Init, HeldOnce, InsertsAreOwn, Holds, At, Idle
<1>4. CountedInTime
  <2> SUFFICES ASSUME NEW x \in Service
      PROVE  /\ IsFiniteSet(images[x])
             /\ Cardinality(images[x]) + Cardinality({r \in Request : Adds(r, x)})
                  <= MaxImages + Cardinality(Request) - 1
    BY DEF CountedInTime
  <2>1. images[x] = {}
    BY DEF Init, Row
  <2>2. {r \in Request : Adds(r, x)} = {}
    BY DEF Init, Adds, At, Idle
  <2>3. Cardinality(Request) \in Nat
    BY FS_CardinalityType
  <2>4. IsFiniteSet({}) /\ Cardinality({}) = 0
    BY FS_EmptySet
  <2>5. Cardinality(images[x]) = 0 /\ Cardinality({r \in Request : Adds(r, x)}) = 0
    BY <2>1, <2>2, <2>4
  <2>6. IsFiniteSet(images[x])
    BY <2>1, <2>4
  <2> QED
    BY <2>3, <2>5, <2>6
<1> QED
  BY <1>1, <1>2, <1>3, <1>4 DEF MediaInv
-----------------------------------------------------------------------------
(* Types.                                                                  *)
Sound(q) ==
  /\ q.company = None <=> q.step = "idle"
  /\ q.url # None <=> q.step \in {"write", "insert"}
  /\ q.step = "insert" => q.row \in Service \cup Project

LEMMA TypeOfRequest ==
  ASSUME TypeOK, NEW r \in Request, UNCHANGED tables, stored' \subseteq Url,
         actor' \in Company \cup {None}, request' \in [Request -> Requests],
         \A q \in Request : q # r => request'[q] = request[q], Sound(request'[r])
  PROVE  TypeOK'
<1>1. \A q \in Request : Sound(request'[q])
  BY DEF TypeOK, Sound, At
<1>2. \A q \in Request :
        /\ request'[q].company = None <=> At(q, "idle")'
        /\ request'[q].url # None <=> At(q, "write")' \/ At(q, "insert")'
        /\ At(q, "insert")' => request'[q].row \in Service \cup Project
  BY <1>1 DEF Sound, At
<1>3. /\ company' \subseteq Company /\ rows' \subseteq known' /\ known' \subseteq Row
      /\ images' \in [Row -> SUBSET Url] /\ named' \subseteq Certification
      /\ doc' \in [Certification -> Url \cup {None}] /\ logo' \in [Company -> Url \cup {None}]
  BY DEF TypeOK, tables
<1> QED
  BY <1>2, <1>3 DEF TypeOK, Requests

LEMMA TypeStep == TypeOK /\ [Next]_vars => TypeOK'
<1> SUFFICES ASSUME TypeOK, [Next]_vars PROVE TypeOK'
  OBVIOUS
<1> USE MediaAssumption
<1>1. ASSUME NEW c \in Company, NEW x \in Row, Create(c, x) PROVE TypeOK'
  BY <1>1 DEF TypeOK, Create, At
<1>2. ASSUME NEW c \in Company, NEW x \in Row, Delete(c, x) PROVE TypeOK'
  BY <1>2 DEF TypeOK, Delete, Erase, At
<1>3. ASSUME NEW c \in Company, NEW x \in Row, EditCertification(c, x) PROVE TypeOK'
  BY <1>3 DEF TypeOK, EditCertification, At
<1>4. ASSUME NEW c \in Company, NEW u \in Url, DeleteImage(c, u) PROVE TypeOK'
  BY <1>4 DEF TypeOK, DeleteImage, At
<1>5. ASSUME NEW c \in Company, DeleteCompany(c) PROVE TypeOK'
  BY <1>5 DEF TypeOK, DeleteCompany, Erase, At
<1>6. ASSUME NEW r \in Request, NEW c \in Company, NEW x \in Row \cup {None}, Start(r, c, x)
      PROVE TypeOK'
  <2>1. UNCHANGED <<tables, stored>> /\ actor' = c
    BY <1>6 DEF Start
  <2> QED
    <3>1. /\ request'[r] = [step |-> "upload", company |-> c, row |-> x, url |-> None]
          /\ request' \in [Request -> Requests]
          /\ \A q \in Request : q # r => request'[q] = request[q]
      BY <1>6, StartStep
    <3>2. Sound(request'[r])
      BY <3>1 DEF Sound
    <3>3. UNCHANGED tables /\ stored' \subseteq Url /\ actor' \in Company \cup {None}
      BY <2>1 DEF TypeOK
    <3> QED
      BY <3>1, <3>2, <3>3, TypeOfRequest
<1>7. ASSUME NEW r \in Request, Upload(r) PROVE TypeOK'
  <2>1. PICK u \in Url \ stored :
          \/ stored' = stored \cup {u} /\ Hold(r, u)
          \/ stored' \in {stored, stored \cup {u}} /\ Answer(r)
    BY <1>7, Upload1
  <2>2. At(r, "upload") /\ actor' = request[r].company /\ UNCHANGED tables /\ stored' \subseteq Url
    BY <1>7, <2>1, Upload1 DEF TypeOK
  <2>3. request[r].company \in Company \cup {None}
    BY DEF TypeOK
  <2>4. CASE Hold(r, u)
    <3>1. /\ request'[r] = [step |-> "write", company |-> request[r].company,
                            row |-> request[r].row, url |-> u]
          /\ request' \in [Request -> Requests]
          /\ \A q \in Request : q # r => request'[q] = request[q]
      BY <2>4, HoldStep
    <3>2. request[r].company # None
      BY <2>2 DEF TypeOK, At
    <3>3. Sound(request'[r])
      BY <3>1, <3>2 DEF Sound
    <3> QED
      BY <2>2, <2>3, <3>1, <3>3, TypeOfRequest
  <2>5. CASE Answer(r)
    BY <2>2, <2>3, <2>5, AnswerStep DEF TypeOK, tables, At, Requests, Idle
  <2> QED
    BY <2>1, <2>4, <2>5
<1>8. ASSUME NEW r \in Request, CheckOwner(r) PROVE TypeOK'
  <2>1. UNCHANGED <<tables, stored>> /\ actor' \in Company \cup {None}
    BY <1>8 DEF CheckOwner, TypeOK
  <2>2. CASE Goto(r, "insert")
    <3>1. At(r, "write") /\ request[r].row \in Service \cup Project /\ stored' \subseteq Url
      BY <1>8, <2>1 DEF CheckOwner, TypeOK
    <3>2. /\ request'[r] = [step |-> "insert", company |-> request[r].company,
                            row |-> request[r].row, url |-> request[r].url]
          /\ request' \in [Request -> Requests]
          /\ \A q \in Request : q # r => request'[q] = request[q]
      BY <2>2, GotoStep
    <3>3. request[r].company # None /\ request[r].url # None
      BY <3>1 DEF TypeOK, At
    <3>4. Sound(request'[r])
      BY <3>1, <3>2, <3>3 DEF Sound
    <3> QED
      BY <2>1, <3>1, <3>2, <3>4, TypeOfRequest
  <2>3. CASE Answer(r)
    BY <2>1, <2>3, AnswerStep DEF TypeOK, tables, At, Requests, Idle
  <2> QED
    BY <1>8, <2>2, <2>3 DEF CheckOwner
<1>9. ASSUME NEW r \in Request, InsertImage(r) PROVE TypeOK'
  <2>1. /\ UNCHANGED <<company, rows, known, named, doc, logo, stored>>
        /\ actor' \in Company \cup {None}
    BY <1>9 DEF InsertImage, TypeOK
  <2>2. request[r].url \in Url
    BY <1>9 DEF InsertImage, TypeOK
  <2>3. images' \in [Row -> SUBSET Url]
    BY <1>9, <2>2 DEF InsertImage, TypeOK
  <2> QED
    BY <1>9, <2>1, <2>3, AnswerStep DEF InsertImage, TypeOK, At, Requests, Idle
<1>10. ASSUME NEW r \in Request, WriteLogo(r) PROVE TypeOK'
  <2>1. /\ UNCHANGED <<company, rows, known, images, named, doc, stored>>
        /\ actor' \in Company \cup {None}
    BY <1>10 DEF WriteLogo, TypeOK
  <2>2. logo' \in [Company -> Url \cup {None}]
    BY <1>10 DEF WriteLogo, TypeOK
  <2> QED
    BY <1>10, <2>1, <2>2, AnswerStep DEF WriteLogo, TypeOK, At, Requests, Idle
<1>11. ASSUME NEW r \in Request, WriteDocument(r) PROVE TypeOK'
  <2>1. /\ UNCHANGED <<company, rows, known, images, logo, stored>>
        /\ actor' \in Company \cup {None}
    BY <1>11 DEF WriteDocument, TypeOK
  <2>2. doc' \in [Certification -> Url \cup {None}] /\ named' \subseteq Certification
    BY <1>11 DEF WriteDocument, TypeOK
  <2> QED
    BY <1>11, <2>1, <2>2, AnswerStep DEF WriteDocument, TypeOK, At, Requests, Idle
<1>12. CASE Crash
  <2>1. UNCHANGED <<tables, stored>> /\ actor' = None /\ request' = [r \in Request |-> Idle]
    BY <1>12 DEF Crash
  <2> QED
    BY <2>1 DEF TypeOK, tables, At, Idle
<1>13. CASE UNCHANGED vars
  BY <1>13 DEF TypeOK, vars, At
<1> QED
  BY <1>1, <1>2, <1>3, <1>4, <1>5, <1>6, <1>7, <1>8, <1>9, <1>10, <1>11, <1>12, <1>13, Steps

-----------------------------------------------------------------------------
(* Links, and what the requests hold.                                      *)
Links == LinksAreStored /\ HeldOnce /\ InsertsAreOwn

LEMMA LinksEach ==
  LinksAreStored <=>
    /\ \A x \in Row : images[x] \subseteq stored \cup {None}
    /\ \A x \in Certification : doc[x] \in stored \cup {None}
    /\ \A c \in Company : logo[c] \in stored \cup {None}
BY DEF LinksAreStored, Linked

LEMMA LinksEachNext ==
  LinksAreStored' <=>
    /\ \A x \in Row : images'[x] \subseteq stored' \cup {None}
    /\ \A x \in Certification : doc'[x] \in stored' \cup {None}
    /\ \A c \in Company : logo'[c] \in stored' \cup {None}
BY DEF LinksAreStored, Linked

(* Steps that add no picture, and in which no request comes to hold a      *)
(* file: the links of a document or a logo are to files that are there.    *)
LEMMA LinksKept ==
  ASSUME MediaInv, stored \subseteq stored',
         \A x \in Row : images'[x] \subseteq images[x],
         \A x \in Certification : doc'[x] \in stored \cup {None, doc[x]},
         \A c \in Company : logo'[c] \in stored \cup {None, logo[c]},
         \A q \in Request : request'[q] = request[q] \/ request'[q].step \in {"idle", "upload"}
  PROVE  Links'
<1>1. LinksAreStored'
  BY LinksEach, LinksEachNext DEF MediaInv
<1>2. \A q \in Request : Holds(q)' => request'[q] = request[q] /\ Holds(q)
  BY DEF Holds, At
<1>3. HeldOnce'
  BY <1>2 DEF MediaInv, HeldOnce
<1>4. InsertsAreOwn'
  BY DEF MediaInv, InsertsAreOwn, At
<1> QED
  BY <1>1, <1>3, <1>4 DEF Links

LEMMA LinksStep == MediaInv /\ TypeOK' /\ [Next]_vars => Links'
<1> SUFFICES ASSUME MediaInv, TypeOK', [Next]_vars PROVE Links'
  OBVIOUS
<1>0. TypeOK /\ Links
  BY DEF MediaInv, Links
<1> USE MediaAssumption
<1>1. ASSUME NEW c \in Company, NEW x \in Row, Create(c, x) PROVE Links'
  BY <1>1, LinksKept DEF Create
<1>2. ASSUME NEW c \in Company, NEW x \in Row, Delete(c, x) PROVE Links'
  BY <1>2, LinksKept DEF Delete, Erase
<1>3. ASSUME NEW c \in Company, NEW x \in Row, EditCertification(c, x) PROVE Links'
  BY <1>0, <1>3, LinksKept DEF EditCertification, TypeOK
<1>4. ASSUME NEW c \in Company, NEW u \in Url, DeleteImage(c, u) PROVE Links'
  BY <1>4, LinksKept DEF DeleteImage
<1>5. ASSUME NEW c \in Company, DeleteCompany(c) PROVE Links'
  BY <1>0, <1>5, LinksKept DEF DeleteCompany, Erase, TypeOK
<1>6. ASSUME NEW r \in Request, NEW c \in Company, NEW x \in Row \cup {None}, Start(r, c, x)
      PROVE Links'
  <2>1. \A q \in Request : request'[q] = request[q] \/ request'[q].step = "upload"
    <3>1. /\ request'[r] = [step |-> "upload", company |-> c, row |-> x, url |-> None]
          /\ \A q \in Request : q # r => request'[q] = request[q]
      BY <1>0, <1>6, StartStep
    <3> QED
      BY <3>1
  <2> QED
    BY <1>6, <2>1, LinksKept DEF Start, tables
<1>7. ASSUME NEW r \in Request, Upload(r) PROVE Links'
  <2>1. PICK u \in Url \ stored :
          \/ stored' = stored \cup {u} /\ Hold(r, u)
          \/ stored' \in {stored, stored \cup {u}} /\ Answer(r)
    BY <1>0, <1>7, Upload1
  <2>2. At(r, "upload") /\ UNCHANGED tables
    BY <1>0, <1>7, Upload1
  <2>3. CASE Answer(r)
    <3>1. \A q \in Request : request'[q] = request[q] \/ request'[q].step = "idle"
      BY <1>0, <2>3, AnswerStep DEF Idle
    <3> QED
      BY <2>1, <2>2, <3>1, LinksKept DEF tables
  <2>4. CASE Hold(r, u) /\ stored' = stored \cup {u}
    <3>1. /\ request'[r] = [step |-> "write", company |-> request[r].company,
                            row |-> request[r].row, url |-> u]
          /\ \A q \in Request : q # r => request'[q] = request[q]
      BY <1>0, <2>4, HoldStep
    <3>2. LinksAreStored'
      BY <1>0, <2>2, <2>4, LinksEach, LinksEachNext DEF Links, tables
    <3>3. \A x \in Row : u \notin images[x]
      BY <1>0, LinksEach DEF Links
    <3>4. \A q \in Request : q # r /\ Holds(q)' => Holds(q) /\ request'[q].url # u
      BY <1>0, <3>1 DEF Links, HeldOnce, Holds, At
    <3>5. request'[r].url = u /\ images' = images
      BY <2>2, <3>1 DEF tables
    <3>6. HeldOnce'
      <4>1. \A q \in Request : Holds(q)' => request'[q].url \in stored'
        BY <1>0, <2>4, <3>1, <3>4, <3>5 DEF Links, HeldOnce
      <4>2. \A q \in Request : Holds(q)' => \A x \in Row : request'[q].url \notin images'[x]
        BY <1>0, <3>1, <3>3, <3>4, <3>5 DEF Links, HeldOnce
      <4>3. \A q, p \in Request : Holds(q)' /\ Holds(p)' /\ request'[q].url = request'[p].url => q = p
        BY <1>0, <3>1, <3>4, <3>5 DEF Links, HeldOnce
      <4> QED
        BY <1>0, <3>5, <4>1, <4>2, <4>3 DEF Links, HeldOnce
    <3>7. InsertsAreOwn'
      BY <1>0, <3>1 DEF Links, InsertsAreOwn, At
    <3> QED
      BY <3>2, <3>6, <3>7 DEF Links
  <2> QED
    BY <2>1, <2>3, <2>4
<1>8. ASSUME NEW r \in Request, CheckOwner(r) PROVE Links'
  <2>1. UNCHANGED <<tables, stored>>
    BY <1>8 DEF CheckOwner
  <2>2. CASE Answer(r)
    <3>1. \A q \in Request : request'[q] = request[q] \/ request'[q].step = "idle"
      BY <1>0, <2>2, AnswerStep DEF Idle
    <3> QED
      BY <2>1, <3>1, LinksKept DEF tables
  <2>3. CASE Goto(r, "insert") /\ request[r].row \in Owned(request[r].company)
    <3>1. /\ request'[r] = [step |-> "insert", company |-> request[r].company,
                            row |-> request[r].row, url |-> request[r].url]
          /\ \A q \in Request : q # r => request'[q] = request[q]
      BY <1>0, <2>3, GotoStep
    <3>2. LinksAreStored'
      BY <1>0, <2>1, LinksEach, LinksEachNext DEF Links, tables
    <3>3. \A q \in Request : Holds(q)' => Holds(q) /\ request'[q].url = request[q].url
      BY <1>8, <3>1 DEF CheckOwner, Holds, At
    <3>4. HeldOnce'
      BY <1>0, <2>1, <3>3 DEF Links, HeldOnce, tables
    <3>5. InsertsAreOwn'
      BY <1>0, <2>3, <3>1 DEF Links, InsertsAreOwn, At, Owned
    <3> QED
      BY <3>2, <3>4, <3>5 DEF Links
  <2> QED
    BY <1>8, <2>2, <2>3 DEF CheckOwner
<1>9. ASSUME NEW r \in Request, InsertImage(r) PROVE Links'
  <2>1. /\ At(r, "insert") /\ UNCHANGED <<company, rows, known, named, doc, logo, stored>>
        /\ Answer(r)
    BY <1>9 DEF InsertImage
  <2>2. request'[r] = Idle /\ \A q \in Request : q # r => request'[q] = request[q]
    BY <1>0, <2>1, AnswerStep
  <2>3. CASE UNCHANGED images
    BY <2>1, <2>2, <2>3, LinksKept DEF Idle
  <2>4. CASE images' = [images EXCEPT ![request[r].row] = @ \cup {request[r].url}]
    <3>1. request[r].row \in Row /\ request[r].url \in stored
      BY <1>0, <2>1 DEF TypeOK, At, Row, Links, HeldOnce, Holds
    <3>2. \A x \in Row : images'[x] = IF x = request[r].row THEN images[x] \cup {request[r].url}
                                      ELSE images[x]
      BY <1>0, <2>4 DEF TypeOK
    <3>3. LinksAreStored'
      <4>1. \A x \in Row : images[x] \subseteq stored \cup {None}
        BY <1>0, LinksEach DEF Links
      <4>2. \A x \in Row : images'[x] \subseteq stored' \cup {None}
        <5> SUFFICES ASSUME NEW x \in Row, NEW v \in images'[x] PROVE v \in stored \cup {None}
          BY <2>1
        <5>1. v \in images[x] \/ v = request[r].url
          BY <3>2
        <5> QED
          BY <3>1, <4>1, <5>1
      <4> QED
        BY <1>0, <2>1, <4>2, LinksEach, LinksEachNext DEF Links
    <3>4. \A q \in Request : Holds(q)' => Holds(q) /\ q # r /\ request'[q] = request[q]
      BY <2>2 DEF Holds, At, Idle
    <3>5. Holds(r)
      BY <2>1 DEF Holds
    <3>6. HeldOnce'
      <4>1. \A q \in Request : Holds(q)' => request'[q].url \in stored'
        BY <1>0, <2>1, <3>4 DEF Links, HeldOnce
      <4>2. \A q \in Request : Holds(q)' => \A x \in Row : request'[q].url \notin images'[x]
        <5> SUFFICES ASSUME NEW q \in Request, Holds(q)', NEW x \in Row
                     PROVE  request'[q].url \notin images'[x]
          OBVIOUS
        <5>1. request'[q] = request[q] /\ q # r /\ Holds(q)
          BY <3>4
        <5>2. request[q].url \notin images[x] /\ request[q].url # request[r].url
          BY <1>0, <3>5, <5>1 DEF Links, HeldOnce
        <5> QED
          BY <3>2, <5>1, <5>2
      <4>3. \A q, p \in Request : Holds(q)' /\ Holds(p)' /\ request'[q].url = request'[p].url => q = p
        BY <1>0, <3>4 DEF Links, HeldOnce
      <4>4. ASSUME NEW x \in Row, NEW y \in Row, images'[x] \cap images'[y] # {} PROVE x = y
        <5>1. PICK u : u \in images'[x] /\ u \in images'[y]
          BY <4>4
        <5>2. \A z \in Row : request[r].url \notin images[z]
          BY <1>0, <3>5 DEF Links, HeldOnce
        <5>3. u \in images[x] \cap images[y] \/ x = y
          BY <3>2, <5>1, <5>2
        <5> QED
          BY <1>0, <5>3 DEF Links, HeldOnce
      <4> QED
        BY <4>1, <4>2, <4>3, <4>4 DEF HeldOnce
    <3>7. InsertsAreOwn'
      BY <1>0, <2>2 DEF Links, InsertsAreOwn, At, Idle
    <3> QED
      BY <3>3, <3>6, <3>7 DEF Links
  <2> QED
    BY <1>9, <2>3, <2>4 DEF InsertImage
<1>10. ASSUME NEW r \in Request, WriteLogo(r) PROVE Links'
  <2>1. request[r].url \in stored
    BY <1>0, <1>10 DEF WriteLogo, Links, HeldOnce, Holds
  <2>2. request'[r] = Idle /\ \A q \in Request : q # r => request'[q] = request[q]
    BY <1>0, <1>10, AnswerStep DEF WriteLogo
  <2>3. \A c \in Company : logo'[c] \in stored \cup {None, logo[c]}
    BY <1>0, <1>10, <2>1 DEF WriteLogo, TypeOK
  <2> QED
    BY <1>10, <2>2, <2>3, LinksKept DEF WriteLogo, Idle
<1>11. ASSUME NEW r \in Request, WriteDocument(r) PROVE Links'
  <2>1. request[r].url \in stored
    BY <1>0, <1>11 DEF WriteDocument, Links, HeldOnce, Holds
  <2>2. request'[r] = Idle /\ \A q \in Request : q # r => request'[q] = request[q]
    BY <1>0, <1>11, AnswerStep DEF WriteDocument
  <2>3. \A x \in Certification : doc'[x] \in stored \cup {None, doc[x]}
    BY <1>0, <1>11, <2>1 DEF WriteDocument, TypeOK
  <2> QED
    BY <1>11, <2>2, <2>3, LinksKept DEF WriteDocument, Idle
<1>12. CASE Crash
  <2>1. UNCHANGED <<tables, stored>> /\ \A q \in Request : request'[q] = Idle
    BY <1>12 DEF Crash
  <2> QED
    BY <2>1, LinksKept DEF tables, Idle
<1>13. CASE UNCHANGED vars
  BY <1>13, LinksKept DEF vars
<1> QED
  BY <1>1, <1>2, <1>3, <1>4, <1>5, <1>6, <1>7, <1>8, <1>9, <1>10, <1>11, <1>12, <1>13, Steps

-----------------------------------------------------------------------------
(* Rows and what hangs from them.                                          *)
LEMMA OrphanStep == MediaInv /\ TypeOK' /\ [Next]_vars => NothingOrphaned'
<1> SUFFICES ASSUME MediaInv, TypeOK', [Next]_vars PROVE NothingOrphaned'
  OBVIOUS
<1>0. TypeOK /\ NothingOrphaned
  BY DEF MediaInv
<1> USE MediaAssumption
<1>1. ASSUME NEW c \in Company, NEW x \in Row, Create(c, x) PROVE NothingOrphaned'
  BY <1>0, <1>1 DEF TypeOK, NothingOrphaned, Create
<1>2. ASSUME NEW c \in Company, NEW x \in Row, Delete(c, x) PROVE NothingOrphaned'
  BY <1>0, <1>2 DEF TypeOK, NothingOrphaned, Delete, Erase
<1>3. ASSUME NEW c \in Company, NEW x \in Row, EditCertification(c, x) PROVE NothingOrphaned'
  BY <1>0, <1>3 DEF TypeOK, NothingOrphaned, EditCertification, Owned
<1>4. ASSUME NEW c \in Company, NEW u \in Url, DeleteImage(c, u) PROVE NothingOrphaned'
  BY <1>0, <1>4 DEF TypeOK, NothingOrphaned, DeleteImage
<1>5. ASSUME NEW c \in Company, DeleteCompany(c) PROVE NothingOrphaned'
  BY <1>0, <1>5 DEF TypeOK, NothingOrphaned, DeleteCompany, Erase, Owned
<1>6. ASSUME NEW r \in Request, NEW c \in Company, NEW x \in Row \cup {None}, Start(r, c, x)
      PROVE NothingOrphaned'
  BY <1>0, <1>6 DEF NothingOrphaned, Start, tables
<1>7. ASSUME NEW r \in Request, Upload(r) PROVE NothingOrphaned'
  BY <1>0, <1>7 DEF NothingOrphaned, Upload, tables
<1>8. ASSUME NEW r \in Request, CheckOwner(r) PROVE NothingOrphaned'
  BY <1>0, <1>8 DEF NothingOrphaned, CheckOwner, tables
<1>9. ASSUME NEW r \in Request, InsertImage(r) PROVE NothingOrphaned'
  BY <1>0, <1>9 DEF TypeOK, NothingOrphaned, InsertImage
<1>10. ASSUME NEW r \in Request, WriteLogo(r) PROVE NothingOrphaned'
  BY <1>0, <1>10 DEF TypeOK, NothingOrphaned, WriteLogo
<1>11. ASSUME NEW r \in Request, WriteDocument(r) PROVE NothingOrphaned'
  BY <1>0, <1>11 DEF TypeOK, NothingOrphaned, WriteDocument, Owned
<1>12. CASE Crash
  BY <1>0, <1>12 DEF NothingOrphaned, Crash, tables
<1>13. CASE UNCHANGED vars
  BY <1>0, <1>13 DEF NothingOrphaned, vars
<1> QED
  BY <1>1, <1>2, <1>3, <1>4, <1>5, <1>6, <1>7, <1>8, <1>9, <1>10, <1>11, <1>12, <1>13, Steps

-----------------------------------------------------------------------------
(* The limit of pictures.                                                  *)
Adding(x) == {r \in Request : Adds(r, x)}
Within(x) == /\ IsFiniteSet(images[x])
             /\ Cardinality(images[x]) + Cardinality(Adding(x))
                  <= MaxImages + Cardinality(Request) - 1

LEMMA CountedIsWithin == CountedInTime <=> \A x \in Service : Within(x)
BY DEF CountedInTime, Within, Adding

(* Pictures that go and requests that end stay within the limit.           *)
LEMMA FewerIsWithin ==
  ASSUME NEW x \in Service, Within(x), images'[x] \subseteq images[x],
         Adding(x)' \subseteq Adding(x)
  PROVE  Within(x)'
<1>1. IsFiniteSet(Adding(x)) /\ Adding(x) \subseteq Request
  BY MediaAssumption, FS_Subset DEF Adding
<1>2. IsFiniteSet(images'[x]) /\ Cardinality(images'[x]) <= Cardinality(images[x])
  BY FS_Subset DEF Within
<1>3. IsFiniteSet(Adding(x)') /\ Cardinality(Adding(x)') <= Cardinality(Adding(x))
  BY <1>1, FS_Subset
<1>4. /\ Cardinality(images[x]) \in Nat /\ Cardinality(images'[x]) \in Nat
      /\ Cardinality(Adding(x)) \in Nat /\ Cardinality(Adding(x)') \in Nat
      /\ Cardinality(Request) \in Nat
  BY <1>1, <1>2, <1>3, MediaAssumption, FS_CardinalityType DEF Within
<1> QED
  BY <1>2, <1>3, <1>4, MediaAssumption DEF Within

(* A request that has counted fewer than the limit.                        *)
LEMMA CountedIsLess ==
  ASSUME MediaInv, NEW r \in Request, NEW c \in Company, NEW x \in Service,
         CountServiceImages(r, c, x)
  PROVE  Within(x)'
<1>0. TypeOK /\ NothingOrphaned /\ Within(x) /\ x \in Row
  BY CountedIsWithin DEF MediaInv, Row
<1>1. /\ request'[r] = [step |-> "upload", company |-> c, row |-> x, url |-> None]
      /\ \A q \in Request : q # r => request'[q] = request[q]
      /\ At(r, "idle") /\ images' = images
  BY <1>0, StartStep DEF CountServiceImages, Start, tables, Row
<1>2. CASE c # Owner[x]
  <2>1. Adding(x)' \subseteq Adding(x)
    BY <1>1, <1>2 DEF Adding, Adds, At
  <2> QED
    BY <1>0, <1>1, <2>1, FewerIsWithin
<1>3. CASE c = Owner[x]
  <2>1. x \notin Owned(c) => images[x] = {}
    BY <1>0, <1>3 DEF Owned, NothingOrphaned
  <2>2. Cardinality(images[x]) < MaxImages
    BY <2>1, FS_EmptySet DEF CountServiceImages
  <2>3. Cardinality(Adding(x)') <= Cardinality(Request) /\ IsFiniteSet(Adding(x)')
    <3>1. Adding(x)' \subseteq Request
      BY DEF Adding
    <3> QED
      BY <3>1, MediaAssumption, FS_Subset
  <2>4. /\ Cardinality(images[x]) \in Nat /\ Cardinality(Adding(x)') \in Nat
        /\ Cardinality(Request) \in Nat
    BY <1>0, <2>3, MediaAssumption, FS_CardinalityType DEF Within
  <2>5. Cardinality(images'[x]) = Cardinality(images[x]) /\ IsFiniteSet(images'[x])
    BY <1>0, <1>1 DEF Within
  <2> QED
    BY <2>2, <2>3, <2>4, <2>5, MediaAssumption DEF Within
<1> QED
  BY <1>2, <1>3

LEMMA CountStep == MediaInv /\ TypeOK' /\ [Next]_vars => CountedInTime'
<1> SUFFICES ASSUME MediaInv, TypeOK', [Next]_vars PROVE CountedInTime'
  OBVIOUS
<1> SUFFICES ASSUME NEW x \in Service PROVE Within(x)'
  BY DEF CountedInTime, Within, Adding
<1>0. TypeOK /\ InsertsAreOwn /\ Within(x) /\ x \in Row
  BY CountedIsWithin DEF MediaInv, Row
<1> USE MediaAssumption
<1> DEFINE Fewer == images'[x] \subseteq images[x] /\ Adding(x)' \subseteq Adding(x)
<1>a. Fewer => Within(x)'
  BY <1>0, FewerIsWithin
<1>1. ASSUME NEW c \in Company, NEW y \in Row, Create(c, y) PROVE Fewer
  BY <1>1 DEF Create, Adding, Adds, At
<1>2. ASSUME NEW c \in Company, NEW y \in Row, Delete(c, y) PROVE Fewer
  BY <1>0, <1>2 DEF Delete, Erase, Adding, Adds, At
<1>3. ASSUME NEW c \in Company, NEW y \in Row, EditCertification(c, y) PROVE Fewer
  BY <1>3 DEF EditCertification, Adding, Adds, At
<1>4. ASSUME NEW c \in Company, NEW u \in Url, DeleteImage(c, u) PROVE Fewer
  BY <1>0, <1>4 DEF DeleteImage, Adding, Adds, At
<1>5. ASSUME NEW c \in Company, DeleteCompany(c) PROVE Fewer
  BY <1>0, <1>5 DEF DeleteCompany, Erase, Adding, Adds, At
<1>6. ASSUME NEW r \in Request, NEW c \in Company, NEW y \in Row \cup {None}, Start(r, c, y),
             y \in Service => CountServiceImages(r, c, y)
      PROVE  Within(x)'
  <2>1. CASE y = x
    BY <1>6, <2>1, CountedIsLess
  <2>2. CASE y # x
    <3>1. /\ request'[r] = [step |-> "upload", company |-> c, row |-> y, url |-> None]
          /\ \A q \in Request : q # r => request'[q] = request[q]
      BY <1>0, <1>6, StartStep
    <3>2. Adding(x)' \subseteq Adding(x)
      BY <2>2, <3>1 DEF Adding, Adds, At
    <3> QED
      BY <1>a, <1>6, <3>2 DEF Start, tables
  <2> QED
    BY <2>1, <2>2
<1>7. ASSUME NEW r \in Request, Upload(r) PROVE Fewer
  <2>1. PICK u \in Url \ stored :
          \/ stored' = stored \cup {u} /\ Hold(r, u)
          \/ stored' \in {stored, stored \cup {u}} /\ Answer(r)
    BY <1>0, <1>7, Upload1
  <2>2. At(r, "upload") /\ UNCHANGED tables
    BY <1>0, <1>7, Upload1
  <2>3. \A q \in Request : q # r => request'[q] = request[q]
    BY <1>0, <2>1, HoldStep, AnswerStep
  <2>4. \/ request'[r] = Idle
        \/ request'[r].row = request[r].row /\ request'[r].company = request[r].company
    <3>1. CASE Answer(r)
      BY <1>0, <3>1, AnswerStep
    <3>2. ASSUME NEW v \in Url, Hold(r, v)
          PROVE  request'[r].row = request[r].row /\ request'[r].company = request[r].company
      <4>1. request'[r] = [step |-> "write", company |-> request[r].company,
                           row |-> request[r].row, url |-> v]
        BY <1>0, <3>2, HoldStep
      <4> QED
        BY <4>1
    <3> QED
      BY <2>1, <3>1, <3>2
  <2> QED
    BY <2>2, <2>3, <2>4 DEF Adding, Adds, At, tables, Idle
<1>8. ASSUME NEW r \in Request, CheckOwner(r) PROVE Fewer
  <2>1. At(r, "write") /\ UNCHANGED tables
    BY <1>8 DEF CheckOwner
  <2>2. \A q \in Request : q # r => request'[q] = request[q]
    BY <1>0, <1>8, GotoStep, AnswerStep DEF CheckOwner
  <2>3. \/ request'[r] = Idle
        \/ request'[r].row = request[r].row /\ request'[r].company = request[r].company
    <3>1. CASE Answer(r)
      BY <1>0, <3>1, AnswerStep
    <3>2. CASE Goto(r, "insert")
      <4>1. request'[r] = [step |-> "insert", company |-> request[r].company,
                           row |-> request[r].row, url |-> request[r].url]
        BY <1>0, <3>2, GotoStep
      <4> QED
        BY <4>1
    <3> QED
      BY <1>8, <3>1, <3>2 DEF CheckOwner
  <2> QED
    BY <2>1, <2>2, <2>3 DEF Adding, Adds, At, tables, Idle
<1>9. ASSUME NEW r \in Request, InsertImage(r) PROVE Within(x)'
  <2>1. request'[r] = Idle /\ \A q \in Request : q # r => request'[q] = request[q]
    BY <1>0, <1>9, AnswerStep DEF InsertImage
  <2>2. Adding(x)' \subseteq Adding(x) \ {r}
    BY <2>1 DEF Adding, Adds, At, Idle
  <2>3. CASE request[r].row # x \/ UNCHANGED images
    <3>1. images'[x] \subseteq images[x]
      BY <1>0, <1>9, <2>3 DEF InsertImage, TypeOK
    <3> QED
      BY <1>a, <2>2, <3>1
  <2>4. CASE request[r].row = x /\ images' = [images EXCEPT ![request[r].row] = @ \cup {request[r].url}]
    <3>1. r \in Adding(x)
      BY <1>0, <1>9, <2>4 DEF InsertImage, InsertsAreOwn, Adding, Adds, At
    <3>2. images'[x] = images[x] \cup {request[r].url}
      BY <1>0, <2>4 DEF TypeOK
    <3>3. IsFiniteSet(Adding(x))
      BY FS_Subset DEF Adding
    <3>4. /\ IsFiniteSet(Adding(x) \ {r})
          /\ Cardinality(Adding(x) \ {r}) = Cardinality(Adding(x)) - 1
      BY <3>1, <3>3, FS_RemoveElement
    <3>5. IsFiniteSet(Adding(x)') /\ Cardinality(Adding(x)') <= Cardinality(Adding(x)) - 1
      BY <2>2, <3>4, FS_Subset
    <3>6. /\ IsFiniteSet(images[x] \cup {request[r].url})
          /\ \/ Cardinality(images[x] \cup {request[r].url}) = Cardinality(images[x])
             \/ Cardinality(images[x] \cup {request[r].url}) = Cardinality(images[x]) + 1
      BY <1>0, FS_AddElement DEF Within
    <3>7. /\ Cardinality(images[x]) \in Nat /\ Cardinality(Adding(x)) \in Nat
          /\ Cardinality(Adding(x)') \in Nat /\ Cardinality(Request) \in Nat
      BY <1>0, <3>3, <3>5, FS_CardinalityType DEF Within
    <3>8. IsFiniteSet(images'[x]) /\ Cardinality(images'[x]) <= Cardinality(images[x]) + 1
      BY <3>2, <3>6, <3>7
    <3>9. Cardinality(images'[x]) \in Nat
      BY <3>8, FS_CardinalityType
    <3> QED
      BY <1>0, <3>5, <3>7, <3>8, <3>9 DEF Within
  <2> QED
    BY <1>9, <2>3, <2>4 DEF InsertImage
<1>10. ASSUME NEW r \in Request, WriteLogo(r) PROVE Fewer
  <2>1. request'[r] = Idle /\ \A q \in Request : q # r => request'[q] = request[q]
    BY <1>0, <1>10, AnswerStep DEF WriteLogo
  <2> QED
    BY <1>10, <2>1 DEF WriteLogo, Adding, Adds, At, Idle
<1>11. ASSUME NEW r \in Request, WriteDocument(r) PROVE Fewer
  <2>1. request'[r] = Idle /\ \A q \in Request : q # r => request'[q] = request[q]
    BY <1>0, <1>11, AnswerStep DEF WriteDocument
  <2> QED
    BY <1>11, <2>1 DEF WriteDocument, Adding, Adds, At, Idle
<1>12. CASE Crash
  BY <1>12, <1>a DEF Crash, tables, Adding, Adds, At, Idle
<1>13. CASE UNCHANGED vars
  BY <1>13, <1>a DEF vars, Adding, Adds, At
<1> QED
  BY <1>a, <1>1, <1>2, <1>3, <1>4, <1>5, <1>6, <1>7, <1>8, <1>9, <1>10, <1>11, <1>12, <1>13, Steps

-----------------------------------------------------------------------------
(* A company's rows change by its own requests only.                       *)
LEMMA OwnStep ==
  MediaInv /\ TypeOK' /\ [Next]_vars => (\A c \in Company : Shown(c)' # Shown(c) => actor' = c)
<1> SUFFICES ASSUME MediaInv, TypeOK', [Next]_vars, NEW c \in Company, actor' # c
             PROVE  Shown(c)' = Shown(c)
  OBVIOUS
<1>0. TypeOK /\ HeldOnce /\ InsertsAreOwn /\ rows \subseteq Row /\ rows' \subseteq Row
  BY DEF MediaInv, TypeOK
<1> DEFINE Same == /\ \A x \in Row : Owner[x] = c =>
                        /\ x \in rows' <=> x \in rows
                        /\ x \in named' <=> x \in named
                        /\ images'[x] = images[x]
                        /\ x \in Certification => doc'[x] = doc[x]
                   /\ logo'[c] = logo[c]
<1> USE MediaAssumption
<1>a. ASSUME Same PROVE Shown(c)' = Shown(c)
  <2>1. Owned(c)' = Owned(c)
    BY <1>0, <1>a DEF Owned
  <2>2. {x \in named' : Owner[x] = c} = {x \in named : Owner[x] = c}
    BY <1>0, <1>a DEF TypeOK, Row
  <2>3. [x \in Row |-> IF Owner[x] = c THEN images'[x] ELSE {}]
          = [x \in Row |-> IF Owner[x] = c THEN images[x] ELSE {}]
    BY <1>a
  <2>4. [x \in Certification |-> IF Owner[x] = c THEN doc'[x] ELSE None]
          = [x \in Certification |-> IF Owner[x] = c THEN doc[x] ELSE None]
    BY <1>a DEF Row
  <2> QED
    BY <1>a, <2>1, <2>2, <2>3, <2>4 DEF Shown
<1>1. ASSUME NEW b \in Company, NEW y \in Row, Create(b, y) PROVE Same
  BY <1>1 DEF Create
<1>2. ASSUME NEW b \in Company, NEW y \in Row, Delete(b, y) PROVE Same
  BY <1>0, <1>2 DEF Delete, Erase, Owned
<1>3. ASSUME NEW b \in Company, NEW y \in Row, EditCertification(b, y) PROVE Same
  BY <1>0, <1>3 DEF EditCertification, Owned, TypeOK
<1>4. ASSUME NEW b \in Company, NEW u \in Url, DeleteImage(b, u) PROVE Same
  <2>1. PICK y \in Row : Owner[y] = b /\ u \in images[y]
    BY <1>0, <1>4 DEF DeleteImage, Owned
  <2>2. \A x \in Row : Owner[x] = c => u \notin images[x]
    BY <1>0, <1>4, <2>1 DEF HeldOnce, DeleteImage
  <2>3. \A x \in Row : Owner[x] = c => images'[x] = images[x]
    BY <1>4, <2>2 DEF DeleteImage
  <2> QED
    BY <1>4, <2>3 DEF DeleteImage
<1>5. ASSUME NEW b \in Company, DeleteCompany(b) PROVE Same
  BY <1>0, <1>5 DEF DeleteCompany, Erase, Owned, TypeOK
<1>6. ASSUME NEW r \in Request, NEW b \in Company, NEW y \in Row \cup {None}, Start(r, b, y)
      PROVE Same
  BY <1>6 DEF Start, tables
<1>7. ASSUME NEW r \in Request, Upload(r) PROVE Same
  BY <1>7 DEF Upload, tables
<1>8. ASSUME NEW r \in Request, CheckOwner(r) PROVE Same
  BY <1>8 DEF CheckOwner, tables
<1>9. ASSUME NEW r \in Request, InsertImage(r) PROVE Same
  <2>1. Owner[request[r].row] # c
    BY <1>0, <1>9 DEF InsertImage, InsertsAreOwn
  <2>2. \A x \in Row : Owner[x] = c => images'[x] = images[x]
    BY <1>0, <1>9, <2>1 DEF InsertImage, TypeOK
  <2> QED
    BY <1>9, <2>2 DEF InsertImage
<1>10. ASSUME NEW r \in Request, WriteLogo(r) PROVE Same
  BY <1>0, <1>10 DEF WriteLogo, TypeOK
<1>11. ASSUME NEW r \in Request, WriteDocument(r) PROVE Same
  <2>1. request[r].row \in rows => Owner[request[r].row] = request[r].company \/ UNCHANGED <<doc, named>>
    BY <1>11 DEF WriteDocument, Owned
  <2>2. \A x \in Certification : Owner[x] = c => doc'[x] = doc[x] /\ (x \in named' <=> x \in named)
    BY <1>0, <1>11, <2>1 DEF WriteDocument, TypeOK, Owned
  <2> QED
    BY <1>0, <1>11, <2>2 DEF WriteDocument, TypeOK
<1>12. CASE Crash
  BY <1>12, <1>a DEF Crash, tables
<1>13. CASE UNCHANGED vars
  BY <1>13, <1>a DEF vars
<1> QED
  BY <1>a, <1>1, <1>2, <1>3, <1>4, <1>5, <1>6, <1>7, <1>8, <1>9, <1>10, <1>11, <1>12, <1>13, Steps

-----------------------------------------------------------------------------
(* The inductive invariant holds in every reachable state.                 *)
THEOREM Invariant == Spec => []MediaInv
<1>1. MediaInv /\ [Next]_vars => MediaInv'
  BY TypeStep, LinksStep, OrphanStep, CountStep DEF MediaInv, Links
<1> QED
  BY InitInv, <1>1, PTL DEF Spec

(* Every link that a page shows leads to a file that was stored whole.     *)
THEOREM Stored == Spec => []LinksAreStored
<1>1. MediaInv => LinksAreStored
  BY DEF MediaInv
<1> QED
  BY Invariant, <1>1, PTL

(* Nothing hangs from a row or a company that is gone.                     *)
THEOREM Orphans == Spec => []NothingOrphaned
<1>1. MediaInv => NothingOrphaned
  BY DEF MediaInv
<1> QED
  BY Invariant, <1>1, PTL

(* The limit is passed by fewer pictures than there are requests at a      *)
(* time, for any limit.                                                    *)
THEOREM Limit == Spec => []OverLimitByRacersOnly
<1>1. MediaInv => OverLimitByRacersOnly
  <2> SUFFICES ASSUME MediaInv, NEW x \in Service
               PROVE  Cardinality(images[x]) <= MaxImages + Cardinality(Request) - 1
    BY DEF OverLimitByRacersOnly
  <2>1. Within(x)
    BY CountedIsWithin DEF MediaInv
  <2>2. IsFiniteSet(Adding(x))
    BY MediaAssumption, FS_Subset DEF Adding
  <2>3. /\ Cardinality(Adding(x)) \in Nat /\ Cardinality(images[x]) \in Nat
        /\ Cardinality(Request) \in Nat
    BY <2>1, <2>2, MediaAssumption, FS_CardinalityType DEF Within
  <2> QED
    BY <2>1, <2>3, MediaAssumption DEF Within
<1> QED
  BY Invariant, <1>1, PTL

(* No request of one company changes what another one shows.               *)
THEOREM Own == Spec => OnlyOwnRows
<1>1. MediaInv /\ MediaInv' /\ [Next]_vars => [\A c \in Company : Shown(c)' # Shown(c) => actor' = c]_vars
  BY OwnStep DEF MediaInv
<1> QED
  BY Invariant, <1>1, PTL DEF Spec, OnlyOwnRows
=============================================================================
