-------------------------------- MODULE Media --------------------------------
(***************************************************************************)
(* The pictures and documents of the panel: a request puts a file in the   *)
(* object store and then its URL in the database (MediaHandler, MediaRepo, *)
(* storage).  Services, projects and certifications are rows of a company; *)
(* services and projects have picture rows, a certification has a name and *)
(* a document, a company has a logo (its cover is alike).  Requests act    *)
(* for the company of their token, which may be gone.                      *)
(***************************************************************************)
EXTENDS Naturals, FiniteSets

CONSTANTS
  Company, Service, Project, Certification,
  Owner,      \* the company that creates a row, from the row
  Request,    \* requests in progress at a time
  Url,        \* bound: the files stored in a behaviour
  MaxImages   \* maxImages, 8 in the code

Row  == Service \cup Project \cup Certification
None == "none"
Idle == [step |-> "idle", company |-> None, row |-> None, url |-> None]

ASSUME MediaAssumption ==
  /\ Owner \in [Row -> Company]
  /\ Service \cap (Project \cup Certification) = {} /\ Project \cap Certification = {}
  /\ IsFiniteSet(Request) /\ MaxImages \in Nat \ {0}
  /\ None \notin Company \cup Row \cup Url

VARIABLES
  company,  \* the companies there are
  rows,     \* the rows of company_services, company_projects, ..._certifications
  known,    \* ids given out: a UUID is never given twice
  images,   \* service_images and company_project_images: the URLs of a row
  named,    \* the certifications whose name is not empty
  doc,      \* document_url of a certification
  logo,     \* logo_url of a company
  stored,   \* files that are complete in the object store
  request,  \* for each request: its step, company, row and URL
  actor     \* history: the company whose request made the last step

vars == <<company, rows, known, images, named, doc, logo, stored, request, actor>>
tables == <<company, rows, known, images, named, doc, logo>>

Init ==
  /\ company = Company /\ rows = {} /\ known = {}
  /\ images = [x \in Row |-> {}]
  /\ named = {}
  /\ doc = [x \in Certification |-> None]
  /\ logo = [c \in Company |-> None]
  /\ stored = {}
  /\ request = [r \in Request |-> Idle]
  /\ actor = None

-----------------------------------------------------------------------------
(* Statements that are whole requests.  A statement that fails changes     *)
(* nothing, and needs no step.                                             *)
Owned(c) == {x \in rows : Owner[x] = c}

(* INSERT INTO company_services, _projects or _certifications.             *)
Create(c, x) ==
  /\ x \notin known /\ c \in company /\ Owner[x] = c
  /\ known' = known \cup {x} /\ rows' = rows \cup {x}
  /\ named' = named \cup ({x} \cap Certification)
  /\ actor' = c
  /\ UNCHANGED <<company, images, doc, logo, stored, request>>

CreateService(c, x) == x \in Service /\ Create(c, x)
CreateProject(c, x) == x \in Project /\ Create(c, x)
CreateCertification(c, x) == x \in Certification /\ Create(c, x)

(* Foreign keys: the pictures of a row go with it.                         *)
Erase(gone) ==
  /\ rows' = rows \ gone
  /\ named' = named \ gone
  /\ images' = [x \in Row |-> IF x \in gone THEN {} ELSE images[x]]
  /\ doc' = [x \in Certification |-> IF x \in gone THEN None ELSE doc[x]]

Delete(c, x) ==
  /\ x \in Owned(c)
  /\ Erase({x}) /\ actor' = c
  /\ UNCHANGED <<company, known, logo, stored, request>>

DeleteService(c, x) == x \in Service /\ Delete(c, x)
DeleteProject(c, x) == x \in Project /\ Delete(c, x)
DeleteCertification(c, x) == x \in Certification /\ Delete(c, x)

(* Mutant: DELETE ... WHERE id = $1, without the join to the owner.        *)
DeleteAnyImage(c, u) ==
  /\ \E x \in rows : u \in images[x]
  /\ images' = [x \in Row |-> images[x] \ {u}] /\ actor' = c
  /\ UNCHANGED <<company, rows, known, named, doc, logo, stored, request>>

DeleteImage(c, u) ==
  /\ \E x \in Owned(c) : u \in images[x]
  /\ images' = [x \in Row |-> images[x] \ {u}] /\ actor' = c
  /\ UNCHANGED <<company, rows, known, named, doc, logo, stored, request>>

(* UpdateCertification with the fields of a form: no document among them.  *)
EditCertification(c, x) ==
  /\ x \in Owned(c) \cap Certification
  /\ named' = named \cup {x} /\ doc' = [doc EXCEPT ![x] = None] /\ actor' = c
  /\ UNCHANGED <<company, rows, known, images, logo, stored, request>>

(* An administrator deletes the company.                                   *)
DeleteCompany(c) ==
  /\ c \in company
  /\ company' = company \ {c}
  /\ logo' = [logo EXCEPT ![c] = None]
  /\ Erase(Owned(c)) /\ actor' = c
  /\ UNCHANGED <<known, stored, request>>

-----------------------------------------------------------------------------
(* Requests with a file.                                                   *)
Goto(r, step) == request' = [request EXCEPT ![r].step = step]
Answer(r) == request' = [request EXCEPT ![r] = Idle]
At(r, step) == request[r].step = step

Start(r, c, x) ==
  /\ At(r, "idle")
  /\ request' = [request EXCEPT ![r] = [step |-> "upload", company |-> c, row |-> x, url |-> None]]
  /\ actor' = c
  /\ UNCHANGED <<tables, stored>>

(* Mutant: if count > maxImages.                                           *)
CountOneMore(r, c, x) ==
  /\ Cardinality(IF x \in Owned(c) THEN images[x] ELSE {}) <= MaxImages
  /\ Start(r, c, x)

(* AddServiceImage begins with a count that joins the owner: it is zero    *)
(* for a service that is not the company's, and the request goes on.       *)
CountServiceImages(r, c, x) ==
  /\ Cardinality(IF x \in Owned(c) THEN images[x] ELSE {}) < MaxImages
  /\ Start(r, c, x)

(* The handler goes on with the URL that uploadFile returned.              *)
Hold(r, u) ==
  request' = [request EXCEPT ![r] =
    [step |-> "write", company |-> request[r].company, row |-> request[r].row, url |-> u]]

(* Mutant: the error of storage.Upload is only logged.                     *)
UploadUnchecked(r) ==
  /\ At(r, "upload") /\ Url \ stored # {}
  /\ LET u == CHOOSE v \in Url : v \notin stored
     IN \/ stored' = stored \cup {u} /\ Hold(r, u)
        \/ UNCHANGED stored /\ Hold(r, u)
  /\ actor' = request[r].company
  /\ UNCHANGED tables

(* uploadFile: a new key each time; an error may come after the last byte. *)
Upload(r) ==
  /\ At(r, "upload") /\ Url \ stored # {}
  /\ LET u == CHOOSE v \in Url : v \notin stored
     IN \/ stored' = stored \cup {u} /\ Hold(r, u)
        \/ stored' \in {stored, stored \cup {u}} /\ Answer(r)
  /\ actor' = request[r].company
  /\ UNCHANGED tables

(* AddServiceImage and AddProjectImage look for the row first.             *)
CheckOwner(r) ==
  /\ At(r, "write") /\ request[r].row \in Service \cup Project
  /\ IF request[r].row \in Owned(request[r].company) THEN Goto(r, "insert") ELSE Answer(r)
  /\ actor' = request[r].company
  /\ UNCHANGED <<tables, stored>>

(* Mutant: no REFERENCES ... ON DELETE CASCADE on the picture's row.       *)
InsertUnreferenced(r) ==
  /\ At(r, "insert")
  /\ images' = [images EXCEPT ![request[r].row] = @ \cup {request[r].url}]
  /\ Answer(r) /\ actor' = request[r].company
  /\ UNCHANGED <<company, rows, known, named, doc, logo, stored>>

(* The foreign key refuses a picture whose row has gone in between.        *)
InsertImage(r) ==
  /\ At(r, "insert")
  /\ \/ /\ request[r].row \in rows
        /\ images' = [images EXCEPT ![request[r].row] = @ \cup {request[r].url}]
     \/ UNCHANGED images
  /\ Answer(r) /\ actor' = request[r].company
  /\ UNCHANGED <<company, rows, known, named, doc, logo, stored>>

(* UpdateLogo, and UpdateCover as well: no row is no error.                *)
WriteLogo(r) ==
  /\ At(r, "write") /\ request[r].row = None
  /\ \/ request[r].company \in company /\ logo' = [logo EXCEPT ![request[r].company] = request[r].url]
     \/ UNCHANGED logo
  /\ Answer(r) /\ actor' = request[r].company
  /\ UNCHANGED <<company, rows, known, images, named, doc, stored>>

(* UploadCertificationDoc calls UpdateCertification with the document and  *)
(* no other field: name, issuer and dates become empty.                    *)
WriteDocument(r) ==
  /\ At(r, "write") /\ request[r].row \in Certification
  /\ \/ /\ request[r].row \in Owned(request[r].company)
        /\ doc' = [doc EXCEPT ![request[r].row] = request[r].url]
        /\ named' = named \ {request[r].row}
     \/ UNCHANGED <<doc, named>>
  /\ Answer(r) /\ actor' = request[r].company
  /\ UNCHANGED <<company, rows, known, images, logo, stored>>

Crash == /\ \E r \in Request : ~ At(r, "idle")
         /\ request' = [r \in Request |-> Idle] /\ actor' = None
         /\ UNCHANGED <<tables, stored>>

UploadLogo(r, c) == Start(r, c, None)
AddProjectImage(r, c, x) == x \in Project /\ Start(r, c, x)
UploadCertificationDoc(r, c, x) == x \in Certification /\ Start(r, c, x)

Next == \/ \E c \in Company :
             \/ \E x \in Row :
                  \/ CreateService(c, x) \/ CreateProject(c, x) \/ CreateCertification(c, x)
                  \/ DeleteService(c, x) \/ DeleteProject(c, x) \/ DeleteCertification(c, x)
                  \/ EditCertification(c, x)
                  \/ \E r \in Request : \/ x \in Service /\ CountServiceImages(r, c, x)
                                        \/ AddProjectImage(r, c, x)
                                        \/ UploadCertificationDoc(r, c, x)
             \/ \E u \in Url : DeleteImage(c, u)
             \/ DeleteCompany(c)
             \/ \E r \in Request : UploadLogo(r, c)
        \/ \E r \in Request : Upload(r) \/ CheckOwner(r) \/ InsertImage(r)
                                \/ WriteLogo(r) \/ WriteDocument(r)
        \/ Crash

Spec == Init /\ [][Next]_vars

-----------------------------------------------------------------------------
TypeOK ==
  /\ company \subseteq Company /\ rows \subseteq known /\ known \subseteq Row
  /\ images \in [Row -> SUBSET Url]
  /\ named \subseteq Certification
  /\ doc \in [Certification -> Url \cup {None}]
  /\ logo \in [Company -> Url \cup {None}]
  /\ stored \subseteq Url
  /\ request \in [Request -> [step : {"idle", "upload", "write", "insert"},
                              company : Company \cup {None},
                              row : Row \cup {None}, url : Url \cup {None}]]
  /\ \A r \in Request :
       /\ request[r].company = None <=> At(r, "idle")
       /\ request[r].url # None <=> At(r, "write") \/ At(r, "insert")
       /\ At(r, "insert") => request[r].row \in Service \cup Project
  /\ actor \in Company \cup {None}

Linked == (UNION {images[x] : x \in Row})
            \cup {doc[x] : x \in Certification} \cup {logo[c] : c \in Company}

(* A link that a page shows leads to a complete file, whatever fails or    *)
(* crashes between the object store and the database.                      *)
LinksAreStored == Linked \subseteq stored \cup {None}

(* Nothing hangs from a row that is gone, though the row may go between    *)
(* any two steps of a request that adds to it.                             *)
NothingOrphaned ==
  /\ \A x \in Row \ rows : images[x] = {}
  /\ \A x \in Certification \ rows : doc[x] = None /\ x \notin named
  /\ \A x \in rows : Owner[x] \in company
  /\ \A c \in Company \ company : logo[c] = None

(* Requests that count at once may all add: the pictures of a service pass *)
(* the limit by those requests and no more, however often they come.       *)
OverLimitByRacersOnly ==
  \A x \in Service : Cardinality(images[x]) <= MaxImages + Cardinality(Request) - 1

(* CreateCertification and UpdateCertification require a name: "nombre de  *)
(* certificacion requerido" (media.go 214).                                *)
CertificationsAreNamed == rows \cap Certification \subseteq named

(* What a company shows changes only by its own requests, or with its end: *)
(* an id of another company in the path changes nothing.                   *)
Shown(c) ==
  <<Owned(c), [x \in Row |-> IF Owner[x] = c THEN images[x] ELSE {}],
    {x \in named : Owner[x] = c},
    [x \in Certification |-> IF Owner[x] = c THEN doc[x] ELSE None], logo[c]>>
OnlyOwnRows == [][\A c \in Company : Shown(c)' # Shown(c) => actor' = c]_vars

-----------------------------------------------------------------------------
(* The inductive invariant: what a request holds between its steps is as   *)
(* good as when it was looked up.                                          *)
Holds(r) == At(r, "write") \/ At(r, "insert")
Adds(r, x) == request[r].row = x /\ request[r].company = Owner[x] /\ ~ At(r, "idle")

HeldOnce ==
  /\ \A r \in Request : Holds(r) => request[r].url \in stored
  /\ \A r \in Request : Holds(r) => \A x \in Row : request[r].url \notin images[x]
  /\ \A r, s \in Request : Holds(r) /\ Holds(s) /\ request[r].url = request[s].url => r = s
  /\ \A x, y \in Row : images[x] \cap images[y] # {} => x = y

InsertsAreOwn == \A r \in Request : At(r, "insert") => Owner[request[r].row] = request[r].company

(* The limit is counted over the pictures and the requests about to add.   *)
CountedInTime ==
  \A x \in Service :
    /\ IsFiniteSet(images[x])
    /\ Cardinality(images[x]) + Cardinality({r \in Request : Adds(r, x)})
         <= MaxImages + Cardinality(Request) - 1

MediaInv ==
  /\ TypeOK /\ LinksAreStored /\ NothingOrphaned
  /\ HeldOnce /\ InsertsAreOwn /\ CountedInTime
=============================================================================
