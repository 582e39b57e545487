------------------------- MODULE MCFaceRegistration -------------------------
(* Small instances of FaceRegistration: pictures of two persons, whom the laxer *)
(* threshold of a payment does not tell apart, and one between them that       *)
(* registration takes for either.                                              *)
EXTENDS FaceRegistration, TLC

CONSTANTS alice, between, bob,   \* the pictures
          jpeg, png, jpg,        \* the extensions
          u1, u2, u9, w1, w2

MCDistance ==
    [f \in Faces |-> [g \in Faces |->
        IF f = g THEN 0
        ELSE IF {f, g} = {alice, between} THEN 5
        ELSE IF {f, g} = {between, bob} THEN 4
        ELSE 9]]

\* Every user asks for himself and has one request at a time.
MCOwnClient == [w \in Workers |-> IF w = w1 THEN {u1, u9} ELSE {u2, u9}]

\* The users with their workers, and the extensions that can be saved, are
\* interchangeable.
MCSymmetry ==
    {swap @@ sort :
        swap \in {u1 :> u1 @@ u2 :> u2 @@ w1 :> w1 @@ w2 :> w2,
                  u1 :> u2 @@ u2 :> u1 @@ w1 :> w2 @@ w2 :> w1},
        sort \in Permutations(Savable)}
=============================================================================
