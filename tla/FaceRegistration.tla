-------------------------- MODULE FaceRegistration --------------------------
(***************************************************************************)
(* The face endpoints (register, update, delete) and the lookup by which   *)
(* a payment with a face finds its user.  A request reads the users of     *)
(* MySQL, reads and writes face_embeddings in a PostgreSQL transaction and *)
(* writes the picture to S3, which is in no transaction: the picture is    *)
(* there, or gone, before the row is committed and stays so if it is not.  *)
(*                                                                         *)
(* PostgreSQL runs at READ COMMITTED: every query sees what is committed   *)
(* when it runs, so each of them is a step.  Definitions marked "Variant"  *)
(* are what a plausible bug would make of the definition that follows.     *)
(***************************************************************************)
EXTENDS Integers, Sequences, FiniteSets

CONSTANTS
    Users,              \* the users of MySQL; these endpoints do not change them
    Strangers,          \* ids a request may name that are not users
    Faces,              \* pictures, as the embeddings computed from them
    Distance,           \* L2 distance of two embeddings, in tenths
    ConflictThreshold,  \* up to this distance two pictures show one face
    PaymentThreshold,   \* up to this distance a payment takes a user for found
    Extensions,         \* the values of ExtensionType
    Savable,            \* those of them that Pillow knows as a format
    Workers,            \* the requests that run at a time
    Clients,            \* per worker, the user ids its requests name
    Faults,             \* "commit": a commit fails after the picture was written
    MaxFaces,           \* bound: rows face_embeddings gives out
    None, Deleted

ASSUME FaceAssumption ==
    /\ Users \intersect Strangers = {}
    /\ Distance \in [Faces -> [Faces -> Nat]]
    /\ \A f, g \in Faces : Distance[f][f] = 0 /\ Distance[f][g] = Distance[g][f]
    /\ {ConflictThreshold, PaymentThreshold, MaxFaces} \subseteq Nat
    /\ Clients \in [Workers -> SUBSET (Users \union Strangers)]

VARIABLES
    faces,     \* face_embeddings by id: a committed row, or Deleted
    photos,    \* the bucket: per user and extension, the picture or None
    work,      \* per worker: the request it runs and how far it is
    serial,    \* requests come one at a time; chosen at the start, never changed
    torn       \* history: users whose last request failed after writing to S3

vars == <<faces, photos, work, serial, torn>>

FaceRow == [user : Users, face : Faces, extension : Extensions]

Keys == Users \X Extensions

Requests == [pc : {"validated", "checked", "stored"},
             op : {"register", "update", "delete"}, id : 0..MaxFaces,
             row : FaceRow, loaded : FaceRow \union {None}]

ASSUME WorkerAssumption == IsFiniteSet(Workers)

ASSUME MarkerAssumption == Deleted \notin FaceRow /\ None \notin Requests

Init ==
    /\ faces = <<>>
    /\ photos = [key \in Keys |-> None]
    /\ work = [w \in Workers |-> None]
    /\ serial \in BOOLEAN
    /\ torn = {}

Live == {i \in DOMAIN faces : faces[i] # Deleted}
FacesOf(user) == {i \in Live : faces[i].user = user}

Request(pc, op, id, row, loaded) ==
    [pc |-> pc, op |-> op, id |-> id, row |-> row, loaded |-> loaded]

Start(w, request) ==
    /\ work[w] = None
    /\ serial => \A v \in Workers : work[v] = None
    /\ work' = [work EXCEPT ![w] = request]
    /\ UNCHANGED <<faces, photos, serial, torn>>

Advance(w, from, to) ==
    /\ work[w] # None
    /\ work[w].pc = from
    /\ work' = [work EXCEPT ![w].pc = to]

-----------------------------------------------------------------------------
(* What the three endpoints check first. *)

Registering == {w \in Workers : work[w] # None /\ work[w].op = "register"}

\* Variant: the user is not looked up.
RegisterFaceUnchecked(w, user, face, extension) ==
    /\ Len(faces) + Cardinality(Registering) < MaxFaces
    /\ FacesOf(user) = {}
    /\ Start(w, Request("validated", "register", 0,
                 [user |-> user, face |-> face, extension |-> extension], None))

\* Variant: a second row for a user is not refused.
RegisterFaceAgain(w, user, face, extension) ==
    /\ user \in Users
    /\ Len(faces) + Cardinality(Registering) < MaxFaces
    /\ Start(w, Request("validated", "register", 0,
                 [user |-> user, face |-> face, extension |-> extension], None))

\* register_face: the user exists and has no face yet.
RegisterFace(w, user, face, extension) ==
    /\ user \in Users
    /\ Len(faces) + Cardinality(Registering) < MaxFaces
    /\ FacesOf(user) = {}
    /\ Start(w, Request("validated", "register", 0,
                 [user |-> user, face |-> face, extension |-> extension], None))

\* update_face: the user exists and has a face; one of its rows is loaded.
UpdateFace(w, user, face, extension) ==
    /\ user \in Users
    /\ \E i \in FacesOf(user) :
        Start(w, Request("validated", "update", i,
                 [user |-> user, face |-> face, extension |-> extension], faces[i]))

\* delete_face: the same.  There is nothing to compare with other users.
DeleteFace(w, user) ==
    /\ user \in Users
    /\ \E i \in FacesOf(user) :
        Start(w, Request("checked", "delete", i, faces[i], faces[i]))

-----------------------------------------------------------------------------
(* The face, the picture, the commit. *)

\* Variant: the rows are not ordered by their distance.
NearestUnordered(face, among) == among

\* get_nearest_face_embedding: the closest rows.
Nearest(face, among) ==
    {i \in among : \A j \in among :
        Distance[faces[i].face][face] <= Distance[faces[j].face][face]}

\* Variant: the user's own row is not left out, and a close face of another user
\* hides behind it.
ValidateFaceEmbeddingOwnRow(w) ==
    /\ Advance(w, "validated", "checked")
    /\ \A i \in Nearest(work[w].row.face, Live) :
        \/ faces[i].user = work[w].row.user
        \/ Distance[faces[i].face][work[w].row.face] > ConflictThreshold
    /\ UNCHANGED <<faces, photos, serial, torn>>

\* _validate_face_embedding: the closest face of another user is far enough.
ValidateFaceEmbedding(w) ==
    /\ Advance(w, "validated", "checked")
    /\ \A i \in Nearest(work[w].row.face, Live \ FacesOf(work[w].row.user)) :
        Distance[faces[i].face][work[w].row.face] > ConflictThreshold
    /\ UNCHANGED <<faces, photos, serial, torn>>

Key(row) == <<row.user, row.extension>>

\* Variant: the picture goes where the loaded row's picture is.
UploadObjectOldKey(w) ==
    /\ Advance(w, "checked", "stored")
    /\ work[w].op # "delete"
    /\ work[w].row.extension \in Savable
    /\ LET old == IF work[w].loaded = None THEN work[w].row ELSE work[w].loaded
       IN  photos' = [photos EXCEPT ![Key(old)] = work[w].row.face]
    /\ UNCHANGED <<faces, serial, torn>>

\* The picture is encoded, which fails for a format Pillow does not know, and
\* uploaded as "<user_id>.<extension>".
UploadObject(w) ==
    /\ Advance(w, "checked", "stored")
    /\ work[w].op # "delete"
    /\ work[w].row.extension \in Savable
    /\ photos' = [photos EXCEPT ![Key(work[w].row)] = work[w].row.face]
    /\ UNCHANGED <<faces, serial, torn>>

\* delete_face deletes the object of the row it loaded.
DeleteObject(w) ==
    /\ Advance(w, "checked", "stored")
    /\ work[w].op = "delete"
    /\ photos' = [photos EXCEPT ![Key(work[w].row)] = None]
    /\ UNCHANGED <<faces, serial, torn>>

Finish(w) == work' = [work EXCEPT ![w] = None]

CommitRegister(w) ==
    /\ work[w] # None
    /\ work[w].pc = "stored" /\ work[w].op = "register"
    /\ faces' = Append(faces, work[w].row)
    /\ Finish(w)
    /\ torn' = torn \ {work[w].row.user}
    /\ UNCHANGED <<photos, serial>>

\* SQLAlchemy updates the columns that differ from what was loaded, and raises if
\* the row is gone.
CommitUpdate(w) ==
    LET request == work[w]
        current == faces[request.id]
    IN  /\ request # None
        /\ request.pc = "stored" /\ request.op = "update"
        /\ current # Deleted
        /\ faces' = [faces EXCEPT ![request.id] =
                [current EXCEPT
                    !.face = IF request.row.face = request.loaded.face
                             THEN @ ELSE request.row.face,
                    !.extension = IF request.row.extension = request.loaded.extension
                                  THEN @ ELSE request.row.extension]]
        /\ Finish(w)
        /\ torn' = torn \ {work[w].row.user}
        /\ UNCHANGED <<photos, serial>>

\* Deleting a row that is gone is only a warning.
CommitDelete(w) ==
    /\ work[w] # None
    /\ work[w].pc = "stored" /\ work[w].op = "delete"
    /\ faces' = [faces EXCEPT ![work[w].id] = Deleted]
    /\ Finish(w)
    /\ torn' = torn \ {work[w].row.user}
    /\ UNCHANGED <<photos, serial>>

RowGone(request) == request.op = "update" /\ faces[request.id] = Deleted

\* An exception ends the request: no face in the picture, another user's face, a
\* format that cannot be saved, a call that fails; or the commit itself fails.
\* What was written to S3 stays.
Rollback(w) ==
    /\ work[w] # None
    /\ work[w].pc = "stored" => "commit" \in Faults \/ RowGone(work[w])
    /\ Finish(w)
    /\ torn' = IF work[w].pc = "stored" THEN torn \union {work[w].row.user} ELSE torn
    /\ UNCHANGED <<faces, photos, serial>>

\* get_user_id_from_face_image: the closest face, if close enough and a user's.
\* It changes nothing; the payment that follows is in Payment.
FoundByFace(face) ==
    {i \in Nearest(face, Live) :
        /\ Distance[faces[i].face][face] <= PaymentThreshold
        /\ faces[i].user \in Users}

WorkerStep(w) ==
    \/ \E user \in IF serial THEN Users \union Strangers ELSE Clients[w] :
        \/ DeleteFace(w, user)
        \/ \E face \in Faces, extension \in Extensions :
            \/ RegisterFace(w, user, face, extension)
            \/ UpdateFace(w, user, face, extension)
    \/ ValidateFaceEmbedding(w)
    \/ UploadObject(w) \/ DeleteObject(w)
    \/ CommitRegister(w) \/ CommitUpdate(w) \/ CommitDelete(w) \/ Rollback(w)

Next == \E w \in Workers : WorkerStep(w)

Spec == Init /\ [][Next]_vars

-----------------------------------------------------------------------------
(* Properties *)

\* The table, the bucket and the requests have the shape of the models.
TypeOK ==
    /\ faces \in Seq(FaceRow \union {Deleted})
    /\ Len(faces) <= MaxFaces
    /\ photos \in [Keys -> Faces \union {None}]
    /\ work \in [Workers -> Requests \union {None}]
    /\ serial \in BOOLEAN
    /\ torn \subseteq Users

\* A user has one face at most: a second registration is answered 409, although
\* user_id has no unique key and the row is committed long after the check.
OneFacePerUser ==
    \A i, j \in Live : faces[i].user = faces[j].user => i = j

\* One face never stands for two users, as long as requests come one at a time: a
\* picture as close as the threshold to another user's is refused, at registration
\* and at every later update, also after requests that failed half way.
NoSharedFace ==
    serial => \A i, j \in Live :
        faces[i].user # faces[j].user =>
            Distance[faces[i].face][faces[j].face] > ConflictThreshold

\* Users whose picture was written and whose row is not committed yet.
Unsettled == {work[w].row.user : w \in {v \in Workers :
                    work[v] # None /\ work[v].pc = "stored"}}

\* The bucket holds, under the name the row gives, the very picture the row's
\* embedding was computed from, whatever updates and deletions went before; the
\* only exception is a request that failed between the picture and the commit, and
\* the next success repairs it.
PhotoOfEveryFace ==
    \A i \in Live :
        faces[i].user \notin Unsettled \union torn
            => photos[Key(faces[i])] = faces[i].face

\* Once a user's face is deleted, no picture of it is kept.
DeletedFaceLeavesNoPhoto ==
    \A user \in Users :
        (FacesOf(user) = {} /\ user \notin Unsettled)
            => \A extension \in Extensions : photos[<<user, extension>>] = None

\* Somebody who pays with the picture a user has registered pays as that user, if
\* registrations came one at a time, although payments accept faces that
\* registration takes for other people's.
PaymentFindsItsUser ==
    serial => \A i \in Live : \A j \in FoundByFace(faces[i].face) :
        faces[j].user = faces[i].user
=============================================================================
