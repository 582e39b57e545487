----------------------- MODULE FaceRegistrationProof -----------------------
(***************************************************************************)
(* Proofs about FaceRegistration, for any users, pictures, distances,      *)
(* thresholds and number of workers.  No face stands for two users when    *)
(* requests come one at a time; a user has one face, and its picture is in *)
(* the bucket, already when no two requests for one user run at a time.    *)
(***************************************************************************)
EXTENDS FaceRegistration, FiniteSetTheorems, SequenceTheorems,
        WellFoundedInduction, TLAPS

-----------------------------------------------------------------------------
(* The inductive invariant. *)

\* What must be said of the clients for "one face per user": no user has two
\* requests running.  The code does not see to it, nor does the database.
OneRequestEach ==
    \A v, w \in Workers : v # w => Clients[v] \intersect Clients[w] \intersect Users = {}

\* Requests do not meet another request of the same user.
Apart == serial \/ OneRequestEach

\* Rows are counted before they are inserted, so the table never outgrows its bound.
RoomForFaces == Len(faces) + Cardinality(Registering) <= MaxFaces

\* An update or deletion works on a row of its own user that is in the table.
RowsAreLoaded ==
    \A w \in Workers : work[w] # None /\ work[w].op # "register" =>
        /\ work[w].id \in DOMAIN faces
        /\ work[w].loaded \in FaceRow
        /\ work[w].loaded.user = work[w].row.user

\* Who asks for what: one request alone, or each worker for its own clients.
RequestsHaveClients ==
    \A w \in Workers : work[w] # None =>
        IF serial THEN \A v \in Workers : work[v] # None => v = w
                  ELSE work[w].row.user \in Clients[w]

\* A registration that runs is the user's first; an update or deletion has loaded
\* the row as it still is.
RequestsAreFresh ==
    \A w \in Workers : work[w] # None =>
        IF work[w].op = "register" THEN FacesOf(work[w].row.user) = {}
                                   ELSE faces[work[w].id] = work[w].loaded

\* The picture a request has stored stays until its commit.
PhotoOfEveryRequest ==
    \A w \in Workers :
        work[w] # None /\ work[w].pc = "stored" /\ work[w].op # "delete"
            => photos[Key(work[w].row)] = work[w].row.face

ApartInv ==
    /\ OneFacePerUser
    /\ RequestsAreFresh
    /\ PhotoOfEveryRequest
    /\ PhotoOfEveryFace

\* A face that has been checked is still far from those of other users.
CheckedFaceIsFar ==
    \A w \in Workers :
        work[w] # None /\ work[w].op # "delete" /\ work[w].pc # "validated" =>
            \A i \in Live : faces[i].user # work[w].row.user =>
                Distance[faces[i].face][work[w].row.face] > ConflictThreshold

FaceTypeInv ==
    /\ TypeOK
    /\ RoomForFaces
    /\ RowsAreLoaded
    /\ RequestsHaveClients

FaceInv ==
    /\ FaceTypeInv
    /\ Apart => ApartInv
    /\ serial => CheckedFaceIsFar
    /\ NoSharedFace

-----------------------------------------------------------------------------
(* The shapes of what the state holds. *)

LEMMA RequestShape ==
    ASSUME TypeOK, NEW w \in Workers, work[w] # None
    PROVE  /\ work[w] \in Requests
           /\ work[w].pc \in {"validated", "checked", "stored"}
           /\ work[w].op \in {"register", "update", "delete"}
           /\ work[w].id \in 0..MaxFaces
           /\ work[w].row \in FaceRow
           /\ work[w].row.user \in Users
           /\ work[w].row.face \in Faces
           /\ work[w].row.extension \in Extensions
           /\ Key(work[w].row) \in Keys
  BY DEF TypeOK, Requests, FaceRow, Key, Keys

LEMMA RowShape ==
    ASSUME TypeOK
    PROVE  /\ Len(faces) \in Nat /\ DOMAIN faces = 1..Len(faces)
           /\ \A i \in DOMAIN faces : faces[i] \in FaceRow \union {Deleted}
           /\ \A i \in Live : /\ i \in DOMAIN faces
                              /\ faces[i] \in FaceRow
                              /\ faces[i].user \in Users /\ faces[i].face \in Faces
                              /\ Key(faces[i]) \in Keys
  BY DEF TypeOK, Live, FaceRow, Key, Keys

LEMMA RegisteringIsFinite ==
    ASSUME TypeOK
    PROVE  IsFiniteSet(Registering) /\ Cardinality(Registering) \in Nat
<1>1. Registering \subseteq Workers
  BY DEF Registering
<1> QED
  BY <1>1, WorkerAssumption, FS_Subset, FS_CardinalityType

LEMMA IsUnsettled ==
    ASSUME NEW user
    PROVE  user \in Unsettled <=>
               \E v \in Workers : work[v] # None /\ work[v].pc = "stored"
                                  /\ work[v].row.user = user
  BY DEF Unsettled

\* Two requests that do not meet are of different users.
LEMMA UsersDiffer ==
    ASSUME FaceTypeInv, Apart, NEW v \in Workers, NEW w \in Workers, v # w,
           work[v] # None, work[w] # None
    PROVE  work[v].row.user # work[w].row.user
<1>1. work[v].row.user \in Users
  BY RequestShape DEF FaceTypeInv
<1>2. CASE serial
  BY <1>2 DEF FaceTypeInv, RequestsHaveClients
<1>3. CASE ~serial /\ OneRequestEach
  <2>1. work[v].row.user \in Clients[v] /\ work[w].row.user \in Clients[w]
    BY <1>3 DEF FaceTypeInv, RequestsHaveClients
  <2> QED
    BY <1>1, <1>3, <2>1 DEF OneRequestEach
<1> QED
  BY <1>2, <1>3 DEF Apart

\* Among any rows there are nearest ones: a distance is a natural number.
LEMMA NearestExists ==
    ASSUME TypeOK, NEW face \in Faces, NEW among \in SUBSET Live, NEW k \in among
    PROVE  \E i \in Nearest(face, among) :
               Distance[faces[i].face][face] <= Distance[faces[k].face][face]
<1> DEFINE D == {Distance[faces[i].face][face] : i \in among}
<1>1. \A i \in among : Distance[faces[i].face][face] \in Nat
  BY RowShape, FaceAssumption
<1>2. D \subseteq Nat /\ D # {}
  BY <1>1
<1>3. PICK d \in D : \A e \in D : <<e, d>> \notin OpToRel(<, Nat)
  BY <1>2, WFMin, NatLessThanWellFounded, Zenon
<1>4. \A e \in D : ~(e < d)
  BY <1>2, <1>3, Zenon DEF OpToRel
<1>5. \A e \in D : d <= e
  <2>1. \A x, y \in Nat : ~(y < x) => x <= y
    OBVIOUS
  <2> QED
    BY <1>2, <1>4, <2>1, Zenon
<1>6. PICK i \in among : d = Distance[faces[i].face][face]
  BY <1>3
<1>7. i \in Nearest(face, among)
  BY <1>5, <1>6 DEF Nearest
<1>8. d <= Distance[faces[k].face][face]
  BY <1>5
<1> QED
  BY <1>6, <1>7, <1>8

-----------------------------------------------------------------------------
(* What the steps do.  A request begins, goes on, stores or removes a picture, *)
(* settles its row, or ends without.                                           *)

\* A request begins: its row's user is found, and so is the row it works on.
Begins(w, request) ==
    /\ work[w] = None /\ work' = [work EXCEPT ![w] = request]
    /\ request \in Requests
    /\ IF serial THEN \A v \in Workers : work[v] = None
                 ELSE request.row.user \in Clients[w]
    /\ request.pc # "stored"
    /\ request.op # "delete" => request.pc = "validated"
    /\ IF request.op = "register"
       THEN /\ FacesOf(request.row.user) = {}
            /\ Len(faces) + Cardinality(Registering) < MaxFaces
       ELSE /\ request.id \in FacesOf(request.row.user)
            /\ request.loaded = faces[request.id]
    /\ UNCHANGED <<faces, photos, serial, torn>>

LEMMA RegisterBegins ==
    ASSUME FaceTypeInv, NEW w \in Workers,
           NEW user \in IF serial THEN Users \union Strangers ELSE Clients[w],
           NEW face \in Faces, NEW extension \in Extensions,
           RegisterFace(w, user, face, extension)
    PROVE  \E request \in Requests : Begins(w, request)
<1> DEFINE row == [user |-> user, face |-> face, extension |-> extension]
           request == Request("validated", "register", 0, row, None)
<1>1. user \in Users /\ row \in FaceRow
  BY DEF RegisterFace, FaceRow
<1>2. request \in Requests
  BY <1>1, FaceAssumption DEF Request, Requests
<1>3. /\ request.op = "register" /\ request.row = row /\ request.pc = "validated"
      /\ row.user = user
  BY DEF Request
<1>4. Begins(w, request)
  BY <1>2, <1>3 DEF RegisterFace, Start, Begins
<1> QED
  BY <1>2, <1>4

LEMMA UpdateBegins ==
    ASSUME FaceTypeInv, NEW w \in Workers,
           NEW user \in IF serial THEN Users \union Strangers ELSE Clients[w],
           NEW face \in Faces, NEW extension \in Extensions,
           UpdateFace(w, user, face, extension)
    PROVE  \E request \in Requests : Begins(w, request)
<1> DEFINE row == [user |-> user, face |-> face, extension |-> extension]
<1>1. PICK i \in FacesOf(user) :
          Start(w, Request("validated", "update", i, row, faces[i]))
  BY DEF UpdateFace
<1> DEFINE request == Request("validated", "update", i, row, faces[i])
<1>2. user \in Users /\ row \in FaceRow
  BY DEF UpdateFace, FaceRow
<1>3. i \in Live /\ faces[i] \in FaceRow /\ i \in 0..MaxFaces
  BY <1>1, RowShape, FaceAssumption DEF FacesOf, FaceTypeInv, TypeOK
<1>4. request \in Requests
  BY <1>2, <1>3 DEF Request, Requests
<1>5. /\ request.op = "update" /\ request.row = row /\ request.pc = "validated"
      /\ request.id = i /\ request.loaded = faces[i] /\ row.user = user
  BY DEF Request
<1>6. Begins(w, request)
  BY <1>1, <1>4, <1>5 DEF Start, Begins
<1> QED
  BY <1>4, <1>6

LEMMA DeleteBegins ==
    ASSUME FaceTypeInv, NEW w \in Workers,
           NEW user \in IF serial THEN Users \union Strangers ELSE Clients[w],
           DeleteFace(w, user)
    PROVE  \E request \in Requests : Begins(w, request)
<1>1. PICK i \in FacesOf(user) :
          Start(w, Request("checked", "delete", i, faces[i], faces[i]))
  BY DEF DeleteFace
<1> DEFINE request == Request("checked", "delete", i, faces[i], faces[i])
<1>3. /\ i \in Live /\ faces[i] \in FaceRow /\ i \in 0..MaxFaces
      /\ faces[i].user = user
  BY <1>1, RowShape, FaceAssumption DEF FacesOf, FaceTypeInv, TypeOK
<1>4. request \in Requests
  BY <1>3 DEF Request, Requests
<1>5. /\ request.op = "delete" /\ request.row = faces[i] /\ request.pc = "checked"
      /\ request.id = i /\ request.loaded = faces[i]
  BY DEF Request
<1>6. Begins(w, request)
  BY <1>1, <1>3, <1>4, <1>5 DEF Start, Begins
<1> QED
  BY <1>4, <1>6

\* A request goes on: all of it but its place stays.
GoesOn(w, from, to) ==
    /\ work' \in [Workers -> Requests \union {None}]
    /\ work[w] # None /\ work[w].pc = from
    /\ work'[w] # None /\ work'[w].pc = to
    /\ work'[w].op = work[w].op /\ work'[w].id = work[w].id
    /\ work'[w].row = work[w].row /\ work'[w].loaded = work[w].loaded
    /\ \A v \in Workers \ {w} : work'[v] = work[v]

LEMMA AdvanceGoesOn ==
    ASSUME TypeOK, NEW w \in Workers,
           NEW from, NEW to \in {"validated", "checked", "stored"},
           Advance(w, from, to)
    PROVE  GoesOn(w, from, to)
<1>1. work[w] \in Requests /\ work[w].pc = from
  BY RequestShape DEF Advance
<1> DEFINE new == [work[w] EXCEPT !.pc = to]
<1>2. /\ new \in Requests /\ new.pc = to /\ new.op = work[w].op /\ new.id = work[w].id
      /\ new.row = work[w].row /\ new.loaded = work[w].loaded
  BY <1>1 DEF Requests
<1>3. work' = [work EXCEPT ![w] = new]
  BY DEF Advance
<1>4. new # None
  BY <1>2, MarkerAssumption
<1> HIDE DEF new
<1>5. work' \in [Workers -> Requests \union {None}] /\ work'[w] = new
  BY <1>2, <1>3 DEF TypeOK
<1>6. \A v \in Workers \ {w} : work'[v] = work[v]
  BY <1>3 DEF TypeOK
<1> QED
  BY <1>1, <1>2, <1>4, <1>5, <1>6 DEF GoesOn, Advance

\* A request stores its picture or removes one, both under its own row's name.
Stores(w, picture) ==
    /\ GoesOn(w, "checked", "stored")
    /\ photos' = [photos EXCEPT ![Key(work[w].row)] = picture]
    /\ work[w].op # "delete" => picture = work[w].row.face
    /\ UNCHANGED <<faces, serial, torn>>

LEMMA PictureStores ==
    ASSUME TypeOK, NEW w \in Workers, UploadObject(w) \/ DeleteObject(w)
    PROVE  \E picture \in Faces \union {None} : Stores(w, picture)
<1>1. GoesOn(w, "checked", "stored")
  BY AdvanceGoesOn DEF UploadObject, DeleteObject
<1>2. work[w].row.face \in Faces
  BY <1>1, RequestShape DEF GoesOn
<1>3. CASE UploadObject(w)
  <2>1. Stores(w, work[w].row.face)
    BY <1>1, <1>3 DEF UploadObject, Stores
  <2> QED
    BY <1>2, <2>1
<1>4. CASE DeleteObject(w)
  <2>1. Stores(w, None)
    BY <1>1, <1>4 DEF DeleteObject, Stores
  <2> QED
    BY <2>1
<1> QED
  BY <1>3, <1>4

\* A request ends.
Ends(w) ==
    /\ work' \in [Workers -> Requests \union {None}]
    /\ work[w] # None
    /\ work'[w] = None
    /\ \A v \in Workers \ {w} : work'[v] = work[v]

LEMMA FinishEnds ==
    ASSUME TypeOK, NEW w \in Workers, work[w] # None, Finish(w)
    PROVE  Ends(w)
  BY DEF TypeOK, Finish, Ends

Commits(w) == CommitRegister(w) \/ CommitUpdate(w) \/ CommitDelete(w)

LEMMA CommitEnds ==
    ASSUME TypeOK, NEW w \in Workers, Commits(w)
    PROVE  /\ Ends(w) /\ work[w].pc = "stored"
           /\ torn' = torn \ {work[w].row.user}
           /\ UNCHANGED <<photos, serial>>
  BY FinishEnds DEF Commits, CommitRegister, CommitUpdate, CommitDelete

\* What a commit leaves in the table when nobody else has touched the user's row:
\* row k, the only one of the user, is the request's row or deleted.
Settles(w, k) ==
    /\ DOMAIN faces' = DOMAIN faces \union {k}
    /\ \A i \in DOMAIN faces \ {k} : faces'[i] = faces[i]
    /\ faces'[k] = IF work[w].op = "delete" THEN Deleted ELSE work[w].row
    /\ k \in DOMAIN faces => faces[k] # Deleted /\ faces[k].user = work[w].row.user
    /\ \A i \in Live \ {k} : faces[i].user # work[w].row.user

LEMMA RegisterSettles ==
    ASSUME FaceInv, Apart, NEW w \in Workers, CommitRegister(w)
    PROVE  \E k \in Nat : Settles(w, k)
<1>1. TypeOK /\ work[w] # None /\ work[w].op = "register"
  BY DEF FaceInv, FaceTypeInv, CommitRegister
<1>2. FacesOf(work[w].row.user) = {}
  BY <1>1 DEF FaceInv, ApartInv, RequestsAreFresh
<1> DEFINE row == work[w].row
           k == Len(faces) + 1
<1>3. faces' = Append(faces, row) /\ row \in FaceRow
  BY <1>1, RequestShape DEF CommitRegister
<1>4. k \in Nat /\ DOMAIN faces = 1..Len(faces) /\ faces \in Seq(FaceRow \union {Deleted})
  BY <1>1, RowShape DEF TypeOK
<1> HIDE DEF row
<1>5. /\ DOMAIN faces' = DOMAIN faces \union {k}
      /\ \A i \in DOMAIN faces \ {k} : faces'[i] = faces[i]
      /\ faces'[k] = row
      /\ k \notin DOMAIN faces
  BY <1>3, <1>4, AppendProperties
<1>6. \A i \in Live : faces[i].user # work[w].row.user
  BY <1>2 DEF FacesOf
<1> QED
  BY <1>1, <1>4, <1>5, <1>6 DEF Settles, row

\* Nobody else has touched the row an update has loaded, so all of it is written.
LEMMA UpdateSettles ==
    ASSUME FaceInv, Apart, NEW w \in Workers, CommitUpdate(w)
    PROVE  \E k \in Nat : Settles(w, k)
<1>1. TypeOK /\ work[w] # None /\ work[w].op = "update"
  BY DEF FaceInv, FaceTypeInv, CommitUpdate
<1> DEFINE row == work[w].row
           loaded == work[w].loaded
           k == work[w].id
<1>2. k \in DOMAIN faces /\ loaded \in FaceRow /\ loaded.user = row.user
  BY <1>1 DEF FaceInv, FaceTypeInv, RowsAreLoaded
<1>3. faces[k] = loaded
  BY <1>1 DEF FaceInv, ApartInv, RequestsAreFresh
<1>4. k \in Live /\ k \in Nat /\ row \in FaceRow
  BY <1>1, <1>2, <1>3, RequestShape, MarkerAssumption DEF Live
<1> DEFINE new == [loaded EXCEPT
                    !.face = IF row.face = loaded.face THEN @ ELSE row.face,
                    !.extension = IF row.extension = loaded.extension
                                  THEN @ ELSE row.extension]
<1>5. faces' = [faces EXCEPT ![k] = new]
  BY <1>3 DEF CommitUpdate
<1>6. new = row
  BY <1>2, <1>4 DEF FaceRow
<1> HIDE DEF row, loaded, k, new
<1>7. /\ DOMAIN faces' = DOMAIN faces \union {k}
      /\ \A i \in DOMAIN faces \ {k} : faces'[i] = faces[i]
      /\ faces'[k] = row
  BY <1>1, <1>2, <1>5, <1>6 DEF TypeOK
<1>8. /\ faces[k] # Deleted /\ faces[k].user = work[w].row.user
      /\ \A i \in Live \ {k} : faces[i].user # work[w].row.user
  BY <1>1, <1>2, <1>3, <1>4 DEF FaceInv, ApartInv, OneFacePerUser, Live, row
<1> QED
  BY <1>1, <1>4, <1>7, <1>8 DEF Settles, row

LEMMA DeleteSettles ==
    ASSUME FaceInv, Apart, NEW w \in Workers, CommitDelete(w)
    PROVE  \E k \in Nat : Settles(w, k)
<1>1. TypeOK /\ work[w] # None /\ work[w].op = "delete"
  BY DEF FaceInv, FaceTypeInv, CommitDelete
<1> DEFINE loaded == work[w].loaded
           k == work[w].id
<1>2. k \in DOMAIN faces /\ loaded \in FaceRow /\ loaded.user = work[w].row.user
  BY <1>1 DEF FaceInv, FaceTypeInv, RowsAreLoaded
<1>3. faces[k] = loaded
  BY <1>1 DEF FaceInv, ApartInv, RequestsAreFresh
<1>4. k \in Live /\ k \in Nat
  BY <1>1, <1>2, <1>3, RequestShape, MarkerAssumption DEF Live
<1>5. faces' = [faces EXCEPT ![k] = Deleted]
  BY DEF CommitDelete
<1> HIDE DEF loaded, k
<1>6. /\ DOMAIN faces' = DOMAIN faces \union {k}
      /\ \A i \in DOMAIN faces \ {k} : faces'[i] = faces[i]
      /\ faces'[k] = Deleted
  BY <1>1, <1>2, <1>5 DEF TypeOK
<1>7. /\ faces[k] # Deleted /\ faces[k].user = work[w].row.user
      /\ \A i \in Live \ {k} : faces[i].user # work[w].row.user
  BY <1>1, <1>2, <1>3, <1>4 DEF FaceInv, ApartInv, OneFacePerUser, Live
<1> QED
  BY <1>1, <1>4, <1>6, <1>7 DEF Settles

LEMMA CommitSettles ==
    ASSUME FaceInv, Apart, NEW w \in Workers, Commits(w)
    PROVE  \E k \in Nat : Settles(w, k)
  BY RegisterSettles, UpdateSettles, DeleteSettles DEF Commits

-----------------------------------------------------------------------------
(* Shapes, room, loaded rows and clients are kept by every step. *)

LEMMA BeginKeepsTypes ==
    ASSUME FaceTypeInv, NEW w \in Workers, NEW request \in Requests,
           Begins(w, request)
    PROVE  FaceTypeInv'
<1>1. /\ work' \in [Workers -> Requests \union {None}]
      /\ work'[w] = request /\ \A v \in Workers \ {w} : work'[v] = work[v]
      /\ request # None
      /\ UNCHANGED <<faces, photos, serial, torn>>
  BY MarkerAssumption DEF Begins, FaceTypeInv, TypeOK
<1>2. TypeOK'
  BY <1>1 DEF FaceTypeInv, TypeOK
<1>3. RoomForFaces'
  <2>1. /\ IsFiniteSet(Registering) /\ Cardinality(Registering) \in Nat
        /\ Len(faces) \in Nat /\ MaxFaces \in Nat /\ w \notin Registering
    BY RegisteringIsFinite, RowShape, FaceAssumption
       DEF FaceTypeInv, Begins, Registering
  <2>2. CASE request.op = "register"
    <3>1. Registering' = Registering \union {w}
      BY <1>1, <2>2 DEF Registering, Begins
    <3>2. Cardinality(Registering \union {w}) = Cardinality(Registering) + 1
      BY <2>1, FS_AddElement
    <3> QED
      BY <1>1, <2>1, <2>2, <3>1, <3>2 DEF RoomForFaces, Begins
  <2>3. CASE request.op # "register"
    <3>1. Registering' = Registering
      BY <1>1, <2>3 DEF Registering, Begins
    <3> QED
      BY <1>1, <3>1 DEF RoomForFaces, FaceTypeInv
  <2> QED
    BY <2>2, <2>3
<1>4. RowsAreLoaded'
  <2>1. request.op # "register" =>
            /\ request.id \in DOMAIN faces /\ request.loaded \in FaceRow
            /\ request.loaded.user = request.row.user
    BY RowShape DEF Begins, FacesOf, FaceTypeInv
  <2> QED
    BY <1>1, <2>1 DEF RowsAreLoaded, FaceTypeInv
<1>5. RequestsHaveClients'
  BY <1>1 DEF RequestsHaveClients, FaceTypeInv, Begins
<1> QED
  BY <1>2, <1>3, <1>4, <1>5 DEF FaceTypeInv

LEMMA GoOnKeepsTypes ==
    ASSUME FaceTypeInv, NEW w \in Workers, NEW from, NEW to,
           GoesOn(w, from, to), photos' \in [Keys -> Faces \union {None}],
           UNCHANGED <<faces, serial, torn>>
    PROVE  FaceTypeInv'
<1>1. TypeOK'
  BY DEF FaceTypeInv, TypeOK, GoesOn
<1>2. RoomForFaces'
  <2>1. Registering' = Registering
    BY DEF Registering, GoesOn
  <2> QED
    BY <2>1 DEF RoomForFaces, FaceTypeInv
<1>3. RowsAreLoaded'
  BY DEF RowsAreLoaded, FaceTypeInv, GoesOn
<1>4. RequestsHaveClients'
  BY DEF RequestsHaveClients, FaceTypeInv, GoesOn
<1> QED
  BY <1>1, <1>2, <1>3, <1>4 DEF FaceTypeInv

LEMMA EndKeepsTypes ==
    ASSUME FaceTypeInv, NEW w \in Workers, Ends(w),
           faces' \in Seq(FaceRow \union {Deleted}),
           IF work[w].op = "register" THEN Len(faces') <= Len(faces) + 1
                                      ELSE Len(faces') = Len(faces),
           DOMAIN faces \subseteq DOMAIN faces',
           torn' \subseteq Users, UNCHANGED <<photos, serial>>
    PROVE  FaceTypeInv'
<1>1. RoomForFaces' /\ Len(faces') <= MaxFaces
  <2>1. /\ IsFiniteSet(Registering) /\ Cardinality(Registering) \in Nat
        /\ Len(faces) \in Nat /\ MaxFaces \in Nat /\ Len(faces') \in Nat
    BY RegisteringIsFinite, RowShape, FaceAssumption, LenProperties DEF FaceTypeInv
  <2>2. Registering' = Registering \ {w}
    BY DEF Registering, Ends
  <2>3. /\ IsFiniteSet(Registering \ {w}) /\ Cardinality(Registering \ {w}) \in Nat
        /\ Cardinality(Registering \ {w}) =
               IF w \in Registering THEN Cardinality(Registering) - 1
                                    ELSE Cardinality(Registering)
    BY <2>1, FS_RemoveElement, FS_CardinalityType
  <2>4. w \in Registering <=> work[w].op = "register"
    BY DEF Registering, Ends
  <2> QED
    BY <2>1, <2>2, <2>3, <2>4 DEF RoomForFaces, FaceTypeInv
<1>2. TypeOK'
  BY <1>1 DEF FaceTypeInv, TypeOK, Ends
<1>3. RowsAreLoaded'
  BY DEF RowsAreLoaded, FaceTypeInv, Ends
<1>4. RequestsHaveClients'
  BY DEF RequestsHaveClients, FaceTypeInv, Ends
<1> QED
  BY <1>1, <1>2, <1>3, <1>4 DEF FaceTypeInv

LEMMA CommitKeepsTypes ==
    ASSUME FaceTypeInv, NEW w \in Workers, Commits(w)
    PROVE  FaceTypeInv'
<1>1. /\ TypeOK /\ Ends(w) /\ torn' = torn \ {work[w].row.user}
      /\ UNCHANGED <<photos, serial>>
  BY CommitEnds DEF FaceTypeInv
<1>2. /\ faces \in Seq(FaceRow \union {Deleted}) /\ torn' \subseteq Users
      /\ DOMAIN faces = 1..Len(faces) /\ Len(faces) \in Nat
      /\ work[w] # None /\ work[w].row \in FaceRow
  BY <1>1, RequestShape, RowShape DEF TypeOK, Ends
<1>3. CASE CommitRegister(w)
  <2> DEFINE row == work[w].row
  <2>1. faces' = Append(faces, row) /\ work[w].op = "register"
    BY <1>3 DEF CommitRegister
  <2>2. row \in FaceRow \union {Deleted}
    BY <1>2
  <2> HIDE DEF row
  <2>3. /\ faces' \in Seq(FaceRow \union {Deleted}) /\ Len(faces') = Len(faces) + 1
        /\ DOMAIN faces \subseteq DOMAIN faces'
    BY <1>2, <2>1, <2>2, AppendProperties
  <2>4. Len(faces') <= Len(faces) + 1
    BY <1>2, <2>3
  <2> QED
    BY <1>1, <1>2, <2>1, <2>3, <2>4, EndKeepsTypes, Zenon
<1>4. CASE CommitUpdate(w) \/ CommitDelete(w)
  <2>1. work[w].op # "register" /\ work[w].id \in DOMAIN faces
    BY <1>2, <1>4 DEF CommitUpdate, CommitDelete, RowsAreLoaded, FaceTypeInv
  <2>2. PICK new \in FaceRow \union {Deleted} :
            faces' = [faces EXCEPT ![work[w].id] = new]
    <3>1. CASE CommitUpdate(w)
      <4> DEFINE row == work[w].row
                 current == faces[work[w].id]
                 new == [current EXCEPT
                    !.face = IF row.face = work[w].loaded.face THEN @ ELSE row.face,
                    !.extension = IF row.extension = work[w].loaded.extension
                                  THEN @ ELSE row.extension]
      <4>1. faces' = [faces EXCEPT ![work[w].id] = new] /\ current # Deleted
        BY <3>1 DEF CommitUpdate
      <4>2. current \in FaceRow
        BY <1>1, <2>1, <4>1, RowShape
      <4>3. new \in FaceRow
        BY <1>2, <4>2 DEF FaceRow
      <4> QED
        BY <4>1, <4>3
    <3>2. CASE CommitDelete(w)
      BY <3>2 DEF CommitDelete
    <3> QED
      BY <1>4, <3>1, <3>2
  <2>3. /\ faces' \in Seq(FaceRow \union {Deleted}) /\ Len(faces') = Len(faces)
        /\ DOMAIN faces \subseteq DOMAIN faces'
    BY <1>2, <2>1, <2>2, ExceptSeq
  <2> QED
    BY <1>1, <1>2, <2>1, <2>3, EndKeepsTypes
<1> QED
  BY <1>3, <1>4 DEF Commits

LEMMA RollbackKeepsTypes ==
    ASSUME FaceTypeInv, NEW w \in Workers, Rollback(w)
    PROVE  FaceTypeInv' /\ Ends(w)
<1>1. Ends(w) /\ work[w].row.user \in Users
  BY FinishEnds, RequestShape DEF FaceTypeInv, Rollback
<1>2. /\ faces' \in Seq(FaceRow \union {Deleted}) /\ Len(faces') = Len(faces)
      /\ DOMAIN faces \subseteq DOMAIN faces'
      /\ torn' \subseteq Users /\ Len(faces) \in Nat /\ UNCHANGED <<photos, serial>>
  BY <1>1, RowShape DEF FaceTypeInv, TypeOK, Rollback
<1> QED
  BY <1>1, <1>2, EndKeepsTypes

-----------------------------------------------------------------------------
(* One face for a user, and its picture, where requests of a user do not meet. *)

LEMMA BeginKeepsApart ==
    ASSUME FaceTypeInv, ApartInv, NEW w \in Workers, NEW request \in Requests,
           Begins(w, request)
    PROVE  ApartInv'
<1>1. /\ work[w] = None /\ request # None /\ request.pc # "stored"
      /\ work'[w] = request /\ \A v \in Workers \ {w} : work'[v] = work[v]
      /\ UNCHANGED <<faces, photos, serial, torn>>
  BY MarkerAssumption DEF Begins, FaceTypeInv, TypeOK
<1>2. OneFacePerUser'
  BY <1>1 DEF ApartInv, OneFacePerUser, Live
<1>3. RequestsAreFresh'
  BY <1>1 DEF ApartInv, RequestsAreFresh, Begins, FacesOf, Live
<1>4. PhotoOfEveryRequest'
  BY <1>1 DEF ApartInv, PhotoOfEveryRequest, Key
<1>5. PhotoOfEveryFace'
  <2>1. Unsettled \subseteq Unsettled'
    BY <1>1 DEF Unsettled
  <2> QED
    BY <1>1, <2>1 DEF ApartInv, PhotoOfEveryFace, Live, Key
<1> QED
  BY <1>2, <1>3, <1>4, <1>5 DEF ApartInv

LEMMA ValidateKeepsApart ==
    ASSUME FaceTypeInv, ApartInv, NEW w \in Workers,
           GoesOn(w, "validated", "checked"), UNCHANGED <<faces, photos, serial, torn>>
    PROVE  ApartInv'
<1>1. OneFacePerUser'
  BY DEF ApartInv, OneFacePerUser, Live
<1>2. RequestsAreFresh'
  BY DEF ApartInv, RequestsAreFresh, GoesOn, FacesOf, Live
<1>3. PhotoOfEveryRequest'
  BY DEF ApartInv, PhotoOfEveryRequest, GoesOn, Key
<1>4. PhotoOfEveryFace'
  <2>1. Unsettled \subseteq Unsettled'
    BY DEF Unsettled, GoesOn
  <2> QED
    BY <2>1 DEF ApartInv, PhotoOfEveryFace, Live, Key
<1> QED
  BY <1>1, <1>2, <1>3, <1>4 DEF ApartInv

\* The picture written is nobody else's.
LEMMA StoreKeepsApart ==
    ASSUME FaceTypeInv, Apart, ApartInv, NEW w \in Workers,
           NEW picture \in Faces \union {None}, Stores(w, picture)
    PROVE  ApartInv' /\ photos' \in [Keys -> Faces \union {None}]
<1>1. /\ TypeOK /\ GoesOn(w, "checked", "stored") /\ work[w] # None
      /\ UNCHANGED <<faces, serial, torn>>
  BY DEF FaceTypeInv, Stores, GoesOn
<1> DEFINE own == Key(work[w].row)
<1>2. /\ photos' \in [Keys -> Faces \union {None}] /\ own \in Keys
      /\ photos'[own] = picture
      /\ \A key \in Keys : key # own => photos'[key] = photos[key]
  BY <1>1, RequestShape DEF TypeOK, Stores
<1>3. \A row \in FaceRow : row.user # work[w].row.user => Key(row) # own
  BY DEF Key
<1> HIDE DEF own
<1>4. OneFacePerUser'
  BY <1>1 DEF ApartInv, OneFacePerUser, Live
<1>5. RequestsAreFresh'
  BY <1>1 DEF ApartInv, RequestsAreFresh, GoesOn, FacesOf, Live
<1>6. PhotoOfEveryRequest'
  <2> SUFFICES ASSUME NEW v \in Workers, work'[v] # None, work'[v].pc = "stored",
                      work'[v].op # "delete"
               PROVE  photos'[Key(work'[v].row)] = work'[v].row.face
    BY DEF PhotoOfEveryRequest, Key
  <2>1. CASE v = w
    BY <1>1, <1>2, <2>1 DEF Stores, GoesOn, own
  <2>2. CASE v # w
    <3>1. work'[v] = work[v] /\ work[v] # None
      BY <1>1, <2>2 DEF GoesOn
    <3>2. /\ work[v].row \in FaceRow /\ Key(work[v].row) \in Keys
          /\ work[v].row.user # work[w].row.user
      BY <1>1, <2>2, <3>1, RequestShape, UsersDiffer
    <3>3. photos'[Key(work[v].row)] = photos[Key(work[v].row)]
      BY <1>2, <1>3, <3>2
    <3> QED
      BY <3>1, <3>3 DEF ApartInv, PhotoOfEveryRequest
  <2> QED
    BY <2>1, <2>2
<1>7. PhotoOfEveryFace'
  <2> SUFFICES ASSUME NEW i \in Live, faces[i].user \notin Unsettled',
                      faces[i].user \notin torn
               PROVE  photos'[Key(faces[i])] = faces[i].face
    BY <1>1 DEF PhotoOfEveryFace, Live, Key
  <2>1. Unsettled \subseteq Unsettled' /\ work[w].row.user \in Unsettled'
    BY <1>1 DEF Unsettled, GoesOn
  <2>2. /\ faces[i] \in FaceRow /\ Key(faces[i]) \in Keys
        /\ faces[i].user # work[w].row.user
    BY <1>1, <2>1, RowShape
  <2>3. photos'[Key(faces[i])] = photos[Key(faces[i])]
    BY <1>2, <1>3, <2>2
  <2> QED
    BY <2>1, <2>3 DEF ApartInv, PhotoOfEveryFace
<1> QED
  BY <1>2, <1>4, <1>5, <1>6, <1>7 DEF ApartInv

LEMMA CommitKeepsApart ==
    ASSUME FaceInv, Apart, NEW w \in Workers, Commits(w)
    PROVE  ApartInv'
<1>1. /\ TypeOK /\ FaceTypeInv /\ ApartInv
      /\ Ends(w) /\ work[w].pc = "stored" /\ torn' = torn \ {work[w].row.user}
      /\ UNCHANGED <<photos, serial>>
  BY CommitEnds DEF FaceInv, FaceTypeInv
<1>2. PICK k \in Nat : Settles(w, k)
  BY CommitSettles
<1> DEFINE row == work[w].row
<1>3. row \in FaceRow /\ row # Deleted /\ work[w] # None
  BY <1>1, RequestShape, MarkerAssumption DEF Ends
<1>4. /\ Live' = IF work[w].op = "delete" THEN Live \ {k} ELSE Live \union {k}
      /\ \A i \in Live \ {k} : faces'[i] = faces[i] /\ faces[i].user # row.user
  BY <1>2, <1>3 DEF Live, Settles
<1>5. \A i \in Live' : IF i = k THEN work[w].op # "delete" /\ faces'[i] = row
                                ELSE i \in Live /\ faces'[i] = faces[i]
                                     /\ faces[i].user # row.user
  BY <1>2, <1>4 DEF Settles
<1>6. OneFacePerUser'
  <2> SUFFICES ASSUME NEW i \in Live', NEW j \in Live',
                      faces'[i].user = faces'[j].user
               PROVE  i = j
    BY DEF OneFacePerUser
  <2> QED
    BY <1>1, <1>5 DEF ApartInv, OneFacePerUser
<1>7. \A v \in Workers : work'[v] # None =>
          v # w /\ work'[v] = work[v] /\ work[v].row.user # row.user
  BY <1>1, <1>3, UsersDiffer DEF Ends
<1>8. RequestsAreFresh'
  <2> SUFFICES ASSUME NEW v \in Workers, work'[v] # None
               PROVE  IF work'[v].op = "register"
                      THEN \A i \in Live' : faces'[i].user # work'[v].row.user
                      ELSE faces'[work'[v].id] = work'[v].loaded
    BY DEF RequestsAreFresh, FacesOf
  <2>1. work'[v] = work[v] /\ work[v].row.user # row.user
    BY <1>7
  <2>2. CASE work[v].op = "register"
    <3>1. \A i \in Live' : faces'[i].user # work[v].row.user
      BY <1>1, <1>5, <2>1, <2>2 DEF ApartInv, RequestsAreFresh, FacesOf
    <3> QED
      BY <2>1, <2>2, <3>1
  <2>3. CASE work[v].op # "register"
    <3>1. /\ work[v].id \in DOMAIN faces /\ faces[work[v].id] = work[v].loaded
          /\ faces[work[v].id].user # row.user
      BY <1>1, <2>1, <2>3 DEF FaceTypeInv, RowsAreLoaded, ApartInv, RequestsAreFresh
    <3> QED
      BY <1>2, <2>1, <2>3, <3>1 DEF Settles
  <2> QED
    BY <2>2, <2>3
<1>9. PhotoOfEveryRequest'
  BY <1>1, <1>7 DEF ApartInv, PhotoOfEveryRequest, Key
<1>10. PhotoOfEveryFace'
  <2> SUFFICES ASSUME NEW i \in Live', faces'[i].user \notin (Unsettled \union torn)'
               PROVE  photos'[Key(faces'[i])] = faces'[i].face
    BY DEF PhotoOfEveryFace, Key
  <2>1. CASE i = k
    BY <1>1, <1>3, <1>5, <2>1 DEF ApartInv, PhotoOfEveryRequest
  <2>2. CASE i # k
    <3>1. i \in Live /\ faces'[i] = faces[i] /\ faces[i].user # row.user
      BY <1>5, <2>2
    <3>2. \A user \in Unsettled : user # row.user => user \in Unsettled'
      BY <1>1 DEF Unsettled, Ends
    <3>3. faces[i].user \notin Unsettled \union torn
      BY <1>1, <3>1, <3>2
    <3> QED
      BY <1>1, <3>1, <3>3 DEF ApartInv, PhotoOfEveryFace
  <2> QED
    BY <2>1, <2>2
<1> QED
  BY <1>6, <1>8, <1>9, <1>10 DEF ApartInv

LEMMA RollbackKeepsApart ==
    ASSUME FaceTypeInv, ApartInv, NEW w \in Workers, Rollback(w)
    PROVE  ApartInv'
<1>1. Ends(w) /\ UNCHANGED <<faces, photos, serial>>
  BY RollbackKeepsTypes DEF Rollback
<1>2. OneFacePerUser'
  BY <1>1 DEF ApartInv, OneFacePerUser, Live
<1>3. RequestsAreFresh'
  BY <1>1 DEF ApartInv, RequestsAreFresh, Ends, FacesOf, Live
<1>4. PhotoOfEveryRequest'
  BY <1>1 DEF ApartInv, PhotoOfEveryRequest, Ends, Key
<1>5. PhotoOfEveryFace'
  <2>1. \A user \in Unsettled \union torn : user \in Unsettled' \union torn'
    BY <1>1 DEF Unsettled, Ends, Rollback
  <2> QED
    BY <1>1, <2>1 DEF ApartInv, PhotoOfEveryFace, Live, Key
<1> QED
  BY <1>2, <1>3, <1>4, <1>5 DEF ApartInv

-----------------------------------------------------------------------------
(* No face for two users, where requests come one at a time. *)

LEMMA BeginKeepsFar ==
    ASSUME FaceTypeInv, CheckedFaceIsFar, NEW w \in Workers, NEW request \in Requests,
           Begins(w, request)
    PROVE  CheckedFaceIsFar'
<1>1. /\ work'[w] = request /\ \A v \in Workers \ {w} : work'[v] = work[v]
      /\ request.op # "delete" => request.pc = "validated"
      /\ UNCHANGED <<faces, photos, serial, torn>>
  BY DEF Begins, FaceTypeInv, TypeOK
<1> QED
  BY <1>1 DEF CheckedFaceIsFar, Live

\* The nearest face of another user being far enough, they all are.
LEMMA ValidateKeepsFar ==
    ASSUME FaceTypeInv, CheckedFaceIsFar, NEW w \in Workers,
           ValidateFaceEmbedding(w), GoesOn(w, "validated", "checked")
    PROVE  CheckedFaceIsFar'
<1>1. TypeOK /\ UNCHANGED faces /\ work[w].row.face \in Faces
  BY RequestShape DEF FaceTypeInv, ValidateFaceEmbedding, GoesOn
<1> DEFINE others == Live \ FacesOf(work[w].row.user)
<1>2. ASSUME NEW i \in Live, faces[i].user # work[w].row.user
      PROVE  Distance[faces[i].face][work[w].row.face] > ConflictThreshold
  <2>1. i \in others /\ others \in SUBSET Live
    BY <1>2 DEF FacesOf
  <2>2. PICK j \in Nearest(work[w].row.face, others) :
            Distance[faces[j].face][work[w].row.face]
                <= Distance[faces[i].face][work[w].row.face]
    BY <1>1, <2>1, NearestExists
  <2>3. Distance[faces[j].face][work[w].row.face] > ConflictThreshold
    BY <2>2 DEF ValidateFaceEmbedding
  <2>4. j \in Live
    BY <2>2 DEF Nearest
  <2>5. /\ Distance[faces[i].face][work[w].row.face] \in Nat
        /\ Distance[faces[j].face][work[w].row.face] \in Nat
        /\ ConflictThreshold \in Nat
    BY <1>1, <2>4, RowShape, FaceAssumption
  <2> QED
    BY <2>2, <2>3, <2>5
<1>3. \A v \in Workers \ {w} : work'[v] = work[v]
  BY DEF GoesOn
<1>4. work'[w].row = work[w].row
  BY DEF GoesOn
<1> QED
  BY <1>1, <1>2, <1>3, <1>4 DEF CheckedFaceIsFar, Live

LEMMA StoreKeepsFar ==
    ASSUME FaceTypeInv, CheckedFaceIsFar, NEW w \in Workers, NEW picture,
           Stores(w, picture)
    PROVE  CheckedFaceIsFar'
  BY DEF CheckedFaceIsFar, Stores, GoesOn, Live

\* Nobody else is under way when a request ends.
LEMMA EndKeepsFar ==
    ASSUME FaceTypeInv, serial, NEW w \in Workers, Ends(w)
    PROVE  CheckedFaceIsFar'
<1>1. \A v \in Workers : work'[v] = None
  BY DEF FaceTypeInv, RequestsHaveClients, Ends
<1> QED
  BY <1>1 DEF CheckedFaceIsFar

LEMMA CommitKeepsFaces ==
    ASSUME FaceInv, serial, NEW w \in Workers, Commits(w)
    PROVE  NoSharedFace'
<1>1. TypeOK /\ Apart /\ Ends(w) /\ work[w].pc = "stored"
  BY CommitEnds DEF FaceInv, FaceTypeInv, Apart
<1>2. PICK k \in Nat : Settles(w, k)
  BY <1>1, CommitSettles
<1> DEFINE row == work[w].row
<1>3. row \in FaceRow /\ row # Deleted /\ work[w] # None /\ row.face \in Faces
  BY <1>1, RequestShape, MarkerAssumption DEF Ends
<1>4. \A i \in Live' : IF i = k THEN work[w].op # "delete" /\ faces'[i] = row
                                ELSE i \in Live /\ faces'[i] = faces[i]
                                     /\ faces[i].user # row.user
  BY <1>2, <1>3 DEF Live, Settles
<1>5. work[w].op # "delete" =>
          \A i \in Live : faces[i].user # row.user =>
              /\ Distance[faces[i].face][row.face] > ConflictThreshold
              /\ Distance[row.face][faces[i].face] > ConflictThreshold
  BY <1>1, <1>3, RowShape, FaceAssumption DEF FaceInv, CheckedFaceIsFar
<1> SUFFICES ASSUME NEW i \in Live', NEW j \in Live', faces'[i].user # faces'[j].user
             PROVE  Distance[faces'[i].face][faces'[j].face] > ConflictThreshold
  BY DEF NoSharedFace
<1> HIDE DEF row
<1>6. CASE i = k /\ j = k
  BY <1>6
<1>7. CASE i = k /\ j # k
  BY <1>4, <1>5, <1>7
<1>8. CASE i # k /\ j = k
  BY <1>4, <1>5, <1>8
<1>9. CASE i # k /\ j # k
  BY <1>4, <1>9 DEF FaceInv, NoSharedFace
<1> QED
  BY <1>6, <1>7, <1>8, <1>9

-----------------------------------------------------------------------------
(* The invariant. *)

LEMMA FaceInit == Init => FaceInv
<1> SUFFICES ASSUME Init PROVE FaceInv
  OBVIOUS
<1>1. TypeOK
  BY FaceAssumption DEF Init, TypeOK
<1>2. Live = {} /\ Registering = {} /\ \A w \in Workers : work[w] = None
  BY DEF Init, Live, Registering
<1>3. RoomForFaces
  BY <1>2, FS_EmptySet, FaceAssumption DEF RoomForFaces, Init
<1>4. RowsAreLoaded /\ RequestsHaveClients
  BY <1>2 DEF RowsAreLoaded, RequestsHaveClients
<1>5. ApartInv
  BY <1>2 DEF ApartInv, OneFacePerUser, RequestsAreFresh, PhotoOfEveryRequest,
              PhotoOfEveryFace
<1>6. CheckedFaceIsFar /\ NoSharedFace
  BY <1>2 DEF CheckedFaceIsFar, NoSharedFace
<1> QED
  BY <1>1, <1>3, <1>4, <1>5, <1>6 DEF FaceInv, FaceTypeInv

\* The steps by what they do.
LEMMA StepKinds ==
    ASSUME FaceInv, NEW w \in Workers, WorkerStep(w)
    PROVE  \/ \E request \in Requests : Begins(w, request)
           \/ ValidateFaceEmbedding(w)
           \/ \E picture \in Faces \union {None} : Stores(w, picture)
           \/ Commits(w)
           \/ Rollback(w)
<1> USE DEF FaceInv
<1>1. CASE \E user \in IF serial THEN Users \union Strangers ELSE Clients[w] :
               DeleteFace(w, user)
  BY <1>1, DeleteBegins
<1>2. CASE \E user \in IF serial THEN Users \union Strangers ELSE Clients[w],
              face \in Faces, extension \in Extensions :
               RegisterFace(w, user, face, extension)
  BY <1>2, RegisterBegins
<1>3. CASE \E user \in IF serial THEN Users \union Strangers ELSE Clients[w],
              face \in Faces, extension \in Extensions :
               UpdateFace(w, user, face, extension)
  BY <1>3, UpdateBegins
<1>4. CASE UploadObject(w) \/ DeleteObject(w)
  BY <1>4, PictureStores DEF FaceTypeInv
<1> QED
  BY <1>1, <1>2, <1>3, <1>4 DEF WorkerStep, Commits

LEMMA ValidateGoesOn ==
    ASSUME TypeOK, NEW w \in Workers, ValidateFaceEmbedding(w)
    PROVE  /\ GoesOn(w, "validated", "checked")
           /\ UNCHANGED <<faces, photos, serial, torn>>
  BY AdvanceGoesOn DEF ValidateFaceEmbedding

LEMMA FaceStep == FaceInv /\ [Next]_vars => FaceInv'
<1> SUFFICES ASSUME FaceInv, [Next]_vars PROVE FaceInv'
  OBVIOUS
<1>1. FaceTypeInv /\ TypeOK
  BY DEF FaceInv, FaceTypeInv
<1>2. CASE UNCHANGED vars
  <2>1. FaceTypeInv'
    BY <1>1, <1>2 DEF vars, FaceTypeInv, TypeOK, RoomForFaces, Registering,
                      RowsAreLoaded, RequestsHaveClients
  <2>2. ApartInv => ApartInv'
    BY <1>2 DEF vars, ApartInv, OneFacePerUser, RequestsAreFresh, PhotoOfEveryRequest,
                PhotoOfEveryFace, Live, FacesOf, Key, Unsettled
  <2>3. Apart' = Apart /\ serial' = serial
    BY <1>2 DEF vars, Apart
  <2>4. (CheckedFaceIsFar => CheckedFaceIsFar') /\ (NoSharedFace => NoSharedFace')
    BY <1>2 DEF vars, CheckedFaceIsFar, NoSharedFace, Live
  <2> QED
    BY <2>1, <2>2, <2>3, <2>4 DEF FaceInv
<1>3. ASSUME NEW w \in Workers, NEW request \in Requests, Begins(w, request)
      PROVE  FaceInv'
  <2>1. UNCHANGED <<faces, serial>>
    BY <1>3 DEF Begins
  <2>2. FaceTypeInv'
    BY <1>1, <1>3, BeginKeepsTypes
  <2>3. Apart' => ApartInv'
    BY <1>1, <1>3, <2>1, BeginKeepsApart DEF FaceInv, Apart
  <2>4. serial' => CheckedFaceIsFar'
    BY <1>1, <1>3, <2>1, BeginKeepsFar DEF FaceInv
  <2>5. NoSharedFace'
    BY <2>1 DEF FaceInv, NoSharedFace, Live
  <2> QED
    BY <2>2, <2>3, <2>4, <2>5 DEF FaceInv
<1>4. ASSUME NEW w \in Workers, ValidateFaceEmbedding(w)
      PROVE  FaceInv'
  <2>1. /\ GoesOn(w, "validated", "checked")
        /\ UNCHANGED <<faces, photos, serial, torn>>
    BY <1>1, <1>4, ValidateGoesOn
  <2>2. FaceTypeInv'
    BY <1>1, <2>1, GoOnKeepsTypes DEF TypeOK
  <2>3. Apart' => ApartInv'
    BY <1>1, <2>1, ValidateKeepsApart DEF FaceInv, Apart
  <2>4. serial' => CheckedFaceIsFar'
    BY <1>1, <1>4, <2>1, ValidateKeepsFar DEF FaceInv
  <2>5. NoSharedFace'
    BY <2>1 DEF FaceInv, NoSharedFace, Live
  <2> QED
    BY <2>2, <2>3, <2>4, <2>5 DEF FaceInv
<1>5. ASSUME NEW w \in Workers, NEW picture \in Faces \union {None}, Stores(w, picture)
      PROVE  FaceInv'
  <2>1. GoesOn(w, "checked", "stored") /\ UNCHANGED <<faces, serial, torn>>
    BY <1>5 DEF Stores
  <2>2. photos' \in [Keys -> Faces \union {None}]
    BY <1>1, <1>5 DEF TypeOK, Stores
  <2>3. FaceTypeInv'
    BY <1>1, <2>1, <2>2, GoOnKeepsTypes
  <2>4. Apart' => ApartInv'
    BY <1>1, <1>5, <2>1, StoreKeepsApart DEF FaceInv, Apart
  <2>5. serial' => CheckedFaceIsFar'
    BY <1>1, <1>5, <2>1, StoreKeepsFar DEF FaceInv
  <2>6. NoSharedFace'
    BY <2>1 DEF FaceInv, NoSharedFace, Live
  <2> QED
    BY <2>3, <2>4, <2>5, <2>6 DEF FaceInv
<1>6. ASSUME NEW w \in Workers, Commits(w)
      PROVE  FaceInv'
  <2>1. Ends(w) /\ UNCHANGED <<photos, serial>>
    BY <1>1, <1>6, CommitEnds
  <2>2. FaceTypeInv'
    BY <1>1, <1>6, CommitKeepsTypes
  <2>3. Apart' => ApartInv'
    BY <1>6, <2>1, CommitKeepsApart DEF Apart
  <2>4. serial' => CheckedFaceIsFar'
    BY <1>1, <2>1, EndKeepsFar
  <2>5. NoSharedFace'
    <3>1. CASE serial
      BY <1>6, <3>1, CommitKeepsFaces
    <3>2. CASE ~serial
      BY <2>1, <3>2 DEF NoSharedFace
    <3> QED
      BY <3>1, <3>2
  <2> QED
    BY <2>2, <2>3, <2>4, <2>5 DEF FaceInv
<1>7. ASSUME NEW w \in Workers, Rollback(w)
      PROVE  FaceInv'
  <2>1. Ends(w) /\ FaceTypeInv' /\ UNCHANGED <<faces, photos, serial>>
    BY <1>1, <1>7, RollbackKeepsTypes DEF Rollback
  <2>2. Apart' => ApartInv'
    BY <1>1, <1>7, <2>1, RollbackKeepsApart DEF FaceInv, Apart
  <2>3. serial' => CheckedFaceIsFar'
    BY <1>1, <2>1, EndKeepsFar
  <2>4. NoSharedFace'
    BY <2>1 DEF FaceInv, NoSharedFace, Live
  <2> QED
    BY <2>1, <2>2, <2>3, <2>4 DEF FaceInv
<1>8. CASE Next
  <2>1. PICK w \in Workers : WorkerStep(w)
    BY <1>8 DEF Next
  <2> QED
    BY <2>1, StepKinds, <1>3, <1>4, <1>5, <1>6, <1>7
<1> QED
  BY <1>2, <1>8

\* What the steps of the face endpoints keep up, whatever the interleaving.
THEOREM FaceInvariant == Spec => []FaceInv
<1>1. Init => FaceInv
  BY FaceInit
<1>2. FaceInv /\ [Next]_vars => FaceInv'
  BY FaceStep
<1> QED
  BY <1>1, <1>2, PTL DEF Spec

-----------------------------------------------------------------------------
(* Theorems *)

\* The rows, the pictures and the requests have their shapes, and the registrations
\* that run fit the table.
THEOREM TypeCorrect == Spec => []TypeOK
<1>1. FaceInv => TypeOK
  BY DEF FaceInv, FaceTypeInv
<1> QED
  BY <1>1, FaceInvariant, PTL

\* While requests come one at a time, no face is registered for two users: not by a
\* registration, not by an update, and not after requests that failed half way.
THEOREM NoFaceShared == Spec => []NoSharedFace
<1>1. FaceInv => NoSharedFace
  BY DEF FaceInv
<1> QED
  BY <1>1, FaceInvariant, PTL

\* Then a payment with a registered picture finds its user, whatever the thresholds:
\* only a face at no distance is as near as the picture itself, and no other user
\* has one.
THEOREM PaymentFindsTheUser == Spec => []PaymentFindsItsUser
<1>1. FaceInv => PaymentFindsItsUser
  <2> SUFFICES ASSUME FaceInv, serial, NEW i \in Live,
                      NEW j \in FoundByFace(faces[i].face)
               PROVE  faces[j].user = faces[i].user
    BY DEF PaymentFindsItsUser
  <2>1. TypeOK
    BY DEF FaceInv, FaceTypeInv
  <2>2. j \in Live /\ Distance[faces[j].face][faces[i].face]
                          <= Distance[faces[i].face][faces[i].face]
    BY DEF FoundByFace, Nearest
  <2>3. /\ Distance[faces[j].face][faces[i].face] \in Nat
        /\ Distance[faces[i].face][faces[i].face] = 0
        /\ ConflictThreshold \in Nat
    BY <2>1, <2>2, RowShape, FaceAssumption
  <2>4. ~(Distance[faces[j].face][faces[i].face] > ConflictThreshold)
    BY <2>2, <2>3
  <2> QED
    BY <2>2, <2>4 DEF FaceInv, NoSharedFace
<1> QED
  BY <1>1, FaceInvariant, PTL

\* A user has one face at most, although the table has no unique key, as long as no
\* two requests of a user run at a time.
THEOREM OneFaceEach == ASSUME OneRequestEach PROVE Spec => []OneFacePerUser
<1>1. FaceInv => OneFacePerUser
  BY DEF FaceInv, Apart, ApartInv
<1> QED
  BY <1>1, FaceInvariant, PTL

\* On the same terms the bucket holds the picture each row was computed from, under
\* the name the row gives, except while a request is between the two writes or has
\* failed there.
THEOREM PhotosKept == ASSUME OneRequestEach PROVE Spec => []PhotoOfEveryFace
<1>1. FaceInv => PhotoOfEveryFace
  BY DEF FaceInv, Apart, ApartInv
<1> QED
  BY <1>1, FaceInvariant, PTL
=============================================================================
