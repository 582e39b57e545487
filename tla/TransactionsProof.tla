------------------------- MODULE TransactionsProof -------------------------
(***************************************************************************)
(* Proofs about Transactions, for any number of threads, any size of the   *)
(* pools and any of the faults: the answer of a request tells what it has  *)
(* committed, every connection goes back to the pool it is from, and no    *)
(* session is opened without a factory however the first requests meet in  *)
(* the initialization, which takes no lock.                                *)
(***************************************************************************)
EXTENDS Transactions, FiniteSetTheorems, TLAPS

-----------------------------------------------------------------------------
(* The inductive invariant. *)

\* Where a request is still opening its sessions.
Entering == {"enter", "construct", "get_session", "initialize", "bind", "open"}

HereOf(r) == Nesting(r.endpoint)[r.level]

\* The wrappers a request is inside of, and has a session of.
Depth(r) == IF r.pc \in Entering THEN r.level - 1 ELSE r.level

InSession(r, db) == \E k \in 1..Depth(r) : Nesting(r.endpoint)[k] = db

\* A request has an object and an engine for each of its sessions, and holds a
\* connection of a session only; in the handler, of those it has queried.
Placed(r) ==
    /\ r.level \in 0..Len(Nesting(r.endpoint))
    /\ r.level = 0 <=> r.pc = "answered"
    /\ r.pc = "handler" => r.level = Len(Nesting(r.endpoint))
    /\ \A db \in Databases : InSession(r, db) =>
            r.object[db] \in Workers /\ r.engine[db] \in Workers
    /\ r.pc \in Entering \ {"enter", "construct"} => r.object[HereOf(r)] \in Workers
    /\ \A db \in r.held : InSession(r, db)
    /\ r.pc \in Entering => r.held = {} /\ r.queries = 0
    /\ r.pc = "handler" =>
            \A db \in r.held : \E k \in 1..r.queries : QueryOrder(r.endpoint)[k] = db

\* Nothing is committed before the outermost session, the only one that writes.
Tells(r) ==
    IF r.pc = "answered" /\ ~r.raised THEN r.committed = Writes(r.endpoint)
    ELSE /\ r.committed = {} \/ (r.raised /\ r.inDoubt)
         /\ r.raised <=> r.pc \in {"unwind", "answered"}

\* An object is the cached one or the request's own; who is to bind a factory finds
\* an engine, who is to open a session finds a factory.
ObjectsAreFound ==
    /\ \A db \in Databases : \A o \in Workers :
            factory[db][o] # None => engine[db][o] # None
    /\ \A w \in Workers : work[w] # None =>
        /\ \A db \in Databases : work[w].object[db] \in {None, cache[db], w}
        /\ work[w].pc = "bind" => engine[Here(w)][Object(w)] # None
        /\ work[w].pc = "open" => factory[Here(w)][Object(w)] # None

RequestsInv ==
    \A w \in Workers : work[w] # None => Placed(work[w]) /\ Tells(work[w])

\* Who holds a connection of a pool.
Holds(w, pool) == work[w] # None /\ \E db \in work[w].held : PoolOf(w, db) = pool

Holders(pool) == {w \in Workers : Holds(w, pool)}

\* A pool lacks the connections that are held, and no other.
Counted == \A pool \in Pools : free[pool] + Cardinality(Holders(pool)) = PoolSize

TransactionsInv ==
    /\ TypeOK
    /\ RequestsInv
    /\ ObjectsAreFound
    /\ Counted

-----------------------------------------------------------------------------
(* The endpoints and the shapes of the requests. *)

LEMMA EndpointShape ==
    ASSUME NEW e \in Endpoints
    PROVE  /\ Len(Nesting(e)) \in 1..2
           /\ \A k \in 1..Len(Nesting(e)) : Nesting(e)[k] \in Databases
           /\ \A j, k \in 1..Len(Nesting(e)) : Nesting(e)[j] = Nesting(e)[k] => j = k
           /\ Len(QueryOrder(e)) = Len(Nesting(e))
           /\ \A k \in 1..Len(QueryOrder(e)) :
                  /\ QueryOrder(e)[k] \in Databases
                  /\ \E j \in 1..Len(Nesting(e)) : Nesting(e)[j] = QueryOrder(e)[k]
           /\ \A j, k \in 1..Len(QueryOrder(e)) : QueryOrder(e)[j] = QueryOrder(e)[k] => j = k
           /\ Writes(e) = {Nesting(e)[1]}
<1>1. CASE e = "face"
  BY <1>1 DEF Nesting, QueryOrder, Writes, Databases
<1>2. CASE e = "payment_from_face"
  BY <1>2 DEF Nesting, QueryOrder, Writes, Databases
<1>3. CASE e = "mysql_only"
  BY <1>3 DEF Nesting, QueryOrder, Writes, Databases
<1> QED
  BY <1>1, <1>2, <1>3 DEF Endpoints

LEMMA RequestShape ==
    ASSUME TypeOK, NEW w \in Workers, work[w] # None
    PROVE  /\ work[w] \in Request
           /\ work[w].endpoint \in Endpoints
           /\ work[w].level \in 0..2
           /\ work[w].object \in [Databases -> Workers \union {None}]
           /\ work[w].engine \in [Databases -> Workers \union {None}]
           /\ work[w].held \in SUBSET Databases /\ work[w].queries \in 0..2
           /\ work[w].committed \in SUBSET Databases
           /\ work[w].raised \in BOOLEAN /\ work[w].inDoubt \in BOOLEAN
  BY DEF TypeOK, Request

\* A request under way is in a wrapper of one of the databases.
LEMMA RunningShape ==
    ASSUME TypeOK, RequestsInv, NEW w \in Workers, Running(w)
    PROVE  /\ work[w] \in Request /\ work[w].endpoint \in Endpoints
           /\ Placed(work[w]) /\ Tells(work[w])
           /\ work[w].level \in 1..Len(Nesting(work[w].endpoint))
           /\ Here(w) = HereOf(work[w])
           /\ Here(w) \in Databases
<1>1. /\ work[w] \in Request /\ Placed(work[w]) /\ Tells(work[w])
      /\ work[w].endpoint \in Endpoints
  BY RequestShape DEF RequestsInv, Running
<1>2. work[w].level \in 1..Len(Nesting(work[w].endpoint))
  BY <1>1, EndpointShape DEF Placed, Running
<1> QED
  BY <1>1, <1>2, EndpointShape DEF Here, HereOf

\* A request of the right form takes the place of the one there was.
Becomes(w, r) ==
    /\ r \in Request /\ Placed(r) /\ Tells(r)
    /\ work' \in [Workers -> Request \union {None}]
    /\ work'[w] = r
    /\ \A v \in Workers \ {w} : work'[v] = work[v]

LEMMA BecomesKeepsRequests ==
    ASSUME TypeOK, RequestsInv, NEW w \in Workers, NEW r, Becomes(w, r)
    PROVE  RequestsInv'
  BY DEF RequestsInv, Becomes

-----------------------------------------------------------------------------
(* What the steps make of a request. *)

LEMMA StartBecomes ==
    ASSUME TransactionsInv, NEW w \in Workers, NEW endpoint \in Endpoints,
           StartRequest(w, endpoint)
    PROVE  \E r \in Request :
               /\ Becomes(w, r) /\ r.pc = "enter" /\ r.held = {}
               /\ \A db \in Databases : r.object[db] = None
<1> DEFINE r == [endpoint |-> endpoint, pc |-> "enter", level |-> 1,
                 object |-> [db \in Databases |-> None],
                 engine |-> [db \in Databases |-> None],
                 held |-> {}, queries |-> 0, committed |-> {},
                 raised |-> FALSE, inDoubt |-> FALSE]
<1>1. r \in Request
  BY DEF Request
<1>2. Placed(r)
  BY EndpointShape DEF Placed, InSession, Depth, Entering
<1>3. Tells(r)
  BY DEF Tells
<1>4. work' = [work EXCEPT ![w] = r]
  BY DEF StartRequest
<1>5. Becomes(w, r)
  <2> HIDE DEF r
  <2> QED
    BY <1>1, <1>2, <1>3, <1>4 DEF Becomes, TransactionsInv, TypeOK
<1>6. r.pc = "enter" /\ r.held = {} /\ \A db \in Databases : r.object[db] = None
  OBVIOUS
<1> QED
  BY <1>1, <1>5, <1>6

\* Getting the object, whether it is the cached one or not.
LEMMA ObjectBecomes ==
    ASSUME TransactionsInv, NEW w \in Workers, At(w, "enter") \/ At(w, "construct"),
           NEW o \in Workers,
           work' = [work EXCEPT ![w].object[Here(w)] = o, ![w].pc = "get_session"]
    PROVE  \E r \in Request :
               /\ Becomes(w, r) /\ r.pc = "get_session" /\ r.held = {}
               /\ r.object = [work[w].object EXCEPT ![Here(w)] = o]
<1>1. Running(w) /\ TypeOK /\ RequestsInv
  BY DEF TransactionsInv, Running, At
<1>2. /\ work[w] \in Request /\ Placed(work[w]) /\ Tells(work[w])
      /\ Here(w) = HereOf(work[w]) /\ Here(w) \in Databases
      /\ work[w].endpoint \in Endpoints
      /\ work[w].level \in 1..Len(Nesting(work[w].endpoint))
  BY <1>1, RunningShape
<1> DEFINE r == [work[w] EXCEPT !.object = [@ EXCEPT ![Here(w)] = o],
                                !.pc = "get_session"]
<1>3. /\ r \in Request /\ r.pc = "get_session" /\ r.held = work[w].held
      /\ r.object = [work[w].object EXCEPT ![Here(w)] = o]
      /\ r.endpoint = work[w].endpoint /\ r.level = work[w].level
      /\ r.engine = work[w].engine /\ r.queries = work[w].queries
      /\ r.committed = work[w].committed /\ r.raised = work[w].raised
      /\ r.inDoubt = work[w].inDoubt
  BY <1>2 DEF Request
<1>4. work' = [work EXCEPT ![w] = r]
  BY <1>1, <1>2 DEF TypeOK, Request
<1> HIDE DEF r
<1>5. Placed(r) /\ r.held = {}
  BY <1>2, <1>3, EndpointShape DEF Placed, InSession, Depth, Entering, HereOf, At, Request
<1>6. Tells(r)
  BY <1>2, <1>3 DEF Tells, At
<1>7. Becomes(w, r)
  BY <1>1, <1>3, <1>4, <1>5, <1>6 DEF Becomes, TypeOK
<1> QED
  BY <1>3, <1>5, <1>7

\* Going on within a wrapper.
LEMMA PlaceBecomes ==
    ASSUME TransactionsInv, NEW w \in Workers, NEW from \in Entering, At(w, from),
           NEW to \in Entering,
           from \in {"enter", "construct"} => to \in {"enter", "construct"},
           work' = [work EXCEPT ![w].pc = to]
    PROVE  \E r \in Request :
               /\ Becomes(w, r) /\ r.pc = to /\ r.held = {}
               /\ HereOf(r) = Here(w) /\ r.object = work[w].object
<1>1. Running(w) /\ TypeOK /\ RequestsInv
  BY DEF TransactionsInv, Running, At, Entering
<1>2. /\ work[w] \in Request /\ Placed(work[w]) /\ Tells(work[w])
      /\ Here(w) = HereOf(work[w])
      /\ work[w].level \in 1..Len(Nesting(work[w].endpoint))
  BY <1>1, RunningShape
<1> DEFINE r == [work[w] EXCEPT !.pc = to]
<1>3. /\ r \in Request /\ r.pc = to /\ r.held = work[w].held
      /\ r.object = work[w].object
      /\ r.endpoint = work[w].endpoint /\ r.level = work[w].level
      /\ r.engine = work[w].engine /\ r.queries = work[w].queries
      /\ r.committed = work[w].committed /\ r.raised = work[w].raised
      /\ r.inDoubt = work[w].inDoubt
  BY <1>2 DEF Request, Entering
<1>4. work' = [work EXCEPT ![w] = r]
  BY <1>1, <1>2 DEF TypeOK, Request
<1> HIDE DEF r
<1>5. Placed(r) /\ r.held = {}
  BY <1>2, <1>3 DEF Placed, InSession, Depth, Entering, HereOf, At
<1>6. Tells(r)
  BY <1>2, <1>3 DEF Tells, At, Entering
<1>7. Becomes(w, r)
  BY <1>1, <1>3, <1>4, <1>5, <1>6 DEF Becomes, TypeOK
<1> QED
  BY <1>2, <1>3, <1>5, <1>7 DEF HereOf

LEMMA OpenBecomes ==
    ASSUME TransactionsInv, NEW w \in Workers, OpenSession(w)
    PROVE  \E r \in Request :
               /\ Becomes(w, r) /\ r.pc \in {"enter", "handler"} /\ r.held = {}
               /\ r.object = work[w].object
<1>1. Running(w) /\ TypeOK /\ RequestsInv /\ At(w, "open")
  BY DEF TransactionsInv, Running, At, OpenSession
<1>2. /\ work[w] \in Request /\ Placed(work[w]) /\ Tells(work[w])
      /\ Here(w) = HereOf(work[w]) /\ Here(w) \in Databases
      /\ work[w].endpoint \in Endpoints
      /\ work[w].level \in 1..Len(Nesting(work[w].endpoint))
      /\ Len(Nesting(work[w].endpoint)) \in 1..2
  BY <1>1, RunningShape, EndpointShape
<1> DEFINE inner == work[w].level < Len(Nesting(work[w].endpoint))
           e == factory[Here(w)][Object(w)]
           n == IF inner THEN work[w].level + 1 ELSE work[w].level
           place == IF inner THEN "enter" ELSE "handler"
           engines == [work[w].engine EXCEPT ![Here(w)] = e]
           r == [work[w] EXCEPT !.engine = engines, !.level = n, !.pc = place]
<1>3. Object(w) \in Workers
  BY <1>1, <1>2 DEF Placed, Entering, Object, At
<1>4. e \in Workers
  BY <1>1, <1>2, <1>3 DEF OpenSession, TypeOK
<1>5. /\ n \in 0..2 /\ n # 0 /\ n <= Len(Nesting(work[w].endpoint))
      /\ place \in {"enter", "handler"}
      /\ place = "handler" => n = Len(Nesting(work[w].endpoint))
  <2> DEFINE l == work[w].level
             len == Len(Nesting(work[w].endpoint))
  <2>1. l \in 1..len /\ len \in 1..2
    BY <1>2
  <2> HIDE DEF l, len
  <2>2. IF l < len THEN l + 1 \in 1..2 /\ l + 1 <= len ELSE l \in 1..2 /\ l = len
    BY <2>1
  <2>3. inner <=> l < len
    BY DEF l, len
  <2> QED
    BY <2>2, <2>3 DEF l, len
<1>6. engines \in [Databases -> Workers \union {None}]
  BY <1>2, <1>4 DEF Request
<1>7. work' = [work EXCEPT ![w].engine[Here(w)] = e, ![w].level = n, ![w].pc = place]
  BY <1>1, <1>2 DEF OpenSession, TypeOK, Request
<1>8. work' = [work EXCEPT ![w] = r]
  <2> HIDE DEF e, n, place
  <2> QED
    BY <1>1, <1>2, <1>7 DEF TypeOK, Request
<1>9. /\ r \in Request /\ r.pc = place /\ r.held = work[w].held
      /\ r.object = work[w].object
      /\ r.endpoint = work[w].endpoint /\ r.level = n
      /\ r.engine = engines /\ r.queries = work[w].queries
      /\ r.committed = work[w].committed /\ r.raised = work[w].raised
      /\ r.inDoubt = work[w].inDoubt
  <2> HIDE DEF n, place, engines
  <2> QED
    BY <1>2, <1>5, <1>6 DEF Request
<1>10. \A db \in Databases : engines[db] = IF db = Here(w) THEN e ELSE work[w].engine[db]
  BY <1>2 DEF Request
<1> HIDE DEF r, e, engines
<1>11. r.held = {} /\ r.queries = 0
  BY <1>1, <1>2, <1>9 DEF Placed, Entering, At
<1>12. \A db \in Databases : InSession(r, db) =>
           InSession(work[w], db) \/ db = Here(w)
  <2>1. Depth(r) = work[w].level /\ Depth(work[w]) = work[w].level - 1
    BY <1>1, <1>2, <1>9 DEF Depth, Entering, At
  <2> QED
    BY <1>2, <1>9, <2>1 DEF InSession, HereOf
<1>13. Placed(r)
  <2>1. \A db \in Databases : InSession(r, db) =>
            r.object[db] \in Workers /\ r.engine[db] \in Workers
    BY <1>2, <1>3, <1>4, <1>9, <1>10, <1>12 DEF Placed, Object
  <2>2. /\ r.level \in 0..Len(Nesting(r.endpoint)) /\ r.level # 0
        /\ r.pc = "handler" => r.level = Len(Nesting(r.endpoint))
        /\ r.pc \in {"enter", "handler"}
    BY <1>2, <1>5, <1>9
  <2> QED
    BY <1>11, <2>1, <2>2 DEF Placed, Entering
<1>14. Tells(r)
  BY <1>1, <1>2, <1>5, <1>9 DEF Tells, At
<1>15. Becomes(w, r)
  BY <1>1, <1>8, <1>9, <1>13, <1>14 DEF Becomes, TypeOK
<1> QED
  BY <1>5, <1>9, <1>11, <1>15

LEMMA InitializeFailsBecomes ==
    ASSUME TransactionsInv, NEW w \in Workers, InitializeFails(w)
    PROVE  \E r \in Request :
               /\ Becomes(w, r) /\ r.pc \in {"unwind", "answered"} /\ r.held = {}
               /\ r.object = [work[w].object EXCEPT ![Here(w)] = None]
<1>1. Running(w) /\ TypeOK /\ RequestsInv /\ At(w, "initialize")
  BY DEF TransactionsInv, Running, At, InitializeFails
<1>2. /\ work[w] \in Request /\ Placed(work[w]) /\ Tells(work[w])
      /\ Here(w) = HereOf(work[w]) /\ Here(w) \in Databases
      /\ work[w].endpoint \in Endpoints
      /\ work[w].level \in 1..Len(Nesting(work[w].endpoint))
      /\ Len(Nesting(work[w].endpoint)) \in 1..2
  BY <1>1, RunningShape, EndpointShape
<1> DEFINE place == IF work[w].level = 1 THEN "answered" ELSE "unwind"
           objects == [work[w].object EXCEPT ![Here(w)] = None]
           n == work[w].level - 1
           r == [work[w] EXCEPT !.object = objects, !.level = n, !.raised = TRUE,
                                !.pc = place]
<1>3. /\ n \in 0..2 /\ n <= Len(Nesting(work[w].endpoint))
      /\ place \in {"unwind", "answered"}
      /\ n = 0 <=> place = "answered"
  <2> DEFINE l == work[w].level
             len == Len(Nesting(work[w].endpoint))
  <2>1. l \in 1..len /\ len \in 1..2
    BY <1>2
  <2> HIDE DEF l, len
  <2>2. l - 1 \in 0..2 /\ l - 1 <= len /\ (l - 1 = 0 <=> l = 1)
    BY <2>1
  <2> QED
    BY <2>2 DEF l, len
<1>4. objects \in [Databases -> Workers \union {None}]
  BY <1>2 DEF Request
<1>5. work' = [work EXCEPT ![w].object[Here(w)] = None, ![w].level = n,
                          ![w].raised = TRUE, ![w].pc = place]
  BY <1>1, <1>2 DEF InitializeFails, TypeOK, Request
<1>6. work' = [work EXCEPT ![w] = r]
  <2> HIDE DEF n, place
  <2> QED
    BY <1>1, <1>2, <1>5 DEF TypeOK, Request
<1>7. /\ r \in Request /\ r.pc = place /\ r.held = work[w].held
      /\ r.object = objects
      /\ r.endpoint = work[w].endpoint /\ r.level = n
      /\ r.engine = work[w].engine /\ r.queries = work[w].queries
      /\ r.committed = work[w].committed /\ r.raised = TRUE
      /\ r.inDoubt = work[w].inDoubt
  <2>1. place \in {"unwind", "answered"} /\ n \in 0..2
    BY <1>3
  <2> HIDE DEF n, place, objects
  <2> QED
    BY <1>2, <2>1, <1>4 DEF Request
<1>8. \A db \in Databases : db # Here(w) => objects[db] = work[w].object[db]
  BY <1>2 DEF Request
<1> HIDE DEF r, objects
<1>9. r.held = {} /\ r.queries = 0
  BY <1>1, <1>2, <1>7 DEF Placed, Entering, At
<1>10. \A db \in Databases : InSession(r, db) =>
           InSession(work[w], db) /\ db # Here(w)
  <2>1. Depth(r) = n /\ Depth(work[w]) = n
    BY <1>1, <1>2, <1>3, <1>7 DEF Depth, Entering, At
  <2>2. n + 1 = work[w].level /\ n \in Nat
    BY <1>2, <1>3
  <2>3. \A k \in 1..n : Nesting(work[w].endpoint)[k] # HereOf(work[w])
    <3>1. \A k \in 1..n : k \in 1..Len(Nesting(work[w].endpoint)) /\ k # work[w].level
      BY <1>2, <2>2
    <3> QED
      BY <1>2, <3>1, EndpointShape DEF HereOf
  <2> QED
    BY <1>2, <1>7, <2>1, <2>3 DEF InSession
<1>11. Placed(r)
  <2>1. \A db \in Databases : InSession(r, db) =>
            r.object[db] \in Workers /\ r.engine[db] \in Workers
    BY <1>2, <1>7, <1>8, <1>10 DEF Placed
  <2>2. /\ r.level \in 0..Len(Nesting(r.endpoint))
        /\ r.level = 0 <=> r.pc = "answered"
        /\ r.pc \in {"unwind", "answered"}
    BY <1>2, <1>3, <1>7
  <2> QED
    BY <1>9, <2>1, <2>2 DEF Placed, Entering
<1>12. Tells(r)
  BY <1>1, <1>2, <1>3, <1>7 DEF Tells, At
<1>13. Becomes(w, r)
  BY <1>1, <1>6, <1>7, <1>11, <1>12 DEF Becomes, TypeOK
<1> QED
  BY <1>3, <1>7, <1>9, <1>13 DEF objects

\* The next query is of a session that has no connection yet.
LEMMA NextIsFresh ==
    ASSUME TransactionsInv, NEW w \in Workers, At(w, "handler"), MoreQueries(w)
    PROVE  /\ NextDatabase(w) \in Databases
           /\ NextDatabase(w) \notin work[w].held
           /\ InSession(work[w], NextDatabase(w))
           /\ work[w].object[NextDatabase(w)] \in Workers
           /\ work[w].engine[NextDatabase(w)] \in Workers
           /\ work[w].queries + 1 \in 0..2
<1>1. Running(w) /\ TypeOK /\ RequestsInv
  BY DEF TransactionsInv, Running, At
<1>2. /\ work[w] \in Request /\ Placed(work[w]) /\ work[w].endpoint \in Endpoints
      /\ work[w].queries \in Nat
  BY <1>1, RunningShape, RequestShape DEF Running
<1> DEFINE order == QueryOrder(work[w].endpoint)
           nesting == Nesting(work[w].endpoint)
           q == work[w].queries + 1
<1>3. /\ Len(nesting) \in 1..2 /\ Len(order) = Len(nesting)
      /\ \A k \in 1..Len(order) :
             order[k] \in Databases /\ \E j \in 1..Len(nesting) : nesting[j] = order[k]
      /\ \A j, k \in 1..Len(order) : order[j] = order[k] => j = k
  BY <1>2, EndpointShape
<1>4. q \in 1..Len(order) /\ q \in 0..2
  <2>1. work[w].queries < Len(order)
    BY DEF MoreQueries
  <2> HIDE DEF order
  <2> QED
    BY <1>2, <1>3, <2>1
<1>5. NextDatabase(w) = order[q] /\ order[q] \in Databases
  BY <1>3, <1>4 DEF NextDatabase
<1>6. InSession(work[w], order[q])
  <2>1. Depth(work[w]) = Len(nesting)
    BY <1>2 DEF Placed, At, Depth, Entering
  <2> QED
    BY <1>3, <1>4, <2>1 DEF InSession
<1>7. order[q] \notin work[w].held
  <2>1. \A k \in 1..work[w].queries : k \in 1..Len(order) /\ k # q
    <3> HIDE DEF order
    <3> QED
      BY <1>2, <1>4
  <2>2. \A k \in 1..work[w].queries : order[k] # order[q]
    BY <1>3, <1>4, <2>1
  <2> QED
    BY <1>2, <2>2 DEF Placed, At
<1> QED
  BY <1>2, <1>4, <1>5, <1>6, <1>7 DEF Placed

LEMMA ConnectBecomes ==
    ASSUME TransactionsInv, NEW w \in Workers, Connect(w)
    PROVE  \E r \in Request :
               /\ Becomes(w, r) /\ r.pc = "handler"
               /\ r.held = work[w].held \union {NextDatabase(w)}
               /\ r.object = work[w].object /\ r.engine = work[w].engine
<1>1. Running(w) /\ TypeOK /\ RequestsInv /\ At(w, "handler") /\ MoreQueries(w)
  BY DEF TransactionsInv, Running, At, Connect
<1>2. /\ work[w] \in Request /\ Placed(work[w]) /\ Tells(work[w])
  BY <1>1, RunningShape
<1> DEFINE next == NextDatabase(w)
           r == [work[w] EXCEPT !.held = @ \union {next}, !.queries = @ + 1]
<1>3. /\ next \in Databases /\ InSession(work[w], next) /\ work[w].queries + 1 \in 0..2
  BY <1>1, NextIsFresh
<1> HIDE DEF next
<1>4. work' = [work EXCEPT ![w] = r]
  BY <1>1, <1>2 DEF Connect, TypeOK, Request, next
<1>5. /\ r \in Request /\ r.pc = work[w].pc /\ r.held = work[w].held \union {next}
      /\ r.object = work[w].object
      /\ r.endpoint = work[w].endpoint /\ r.level = work[w].level
      /\ r.engine = work[w].engine /\ r.queries = work[w].queries + 1
      /\ r.committed = work[w].committed /\ r.raised = work[w].raised
      /\ r.inDoubt = work[w].inDoubt
  BY <1>2, <1>3 DEF Request
<1> HIDE DEF r
<1>6. Placed(r)
  <2>1. \A db : InSession(r, db) <=> InSession(work[w], db)
    BY <1>5 DEF InSession, Depth
  <2>2. work[w].queries \in Nat /\ r.pc = "handler" /\ work[w].pc = "handler"
    BY <1>1, <1>2, <1>5 DEF At, Request
  <2>3. \A db \in r.held : \E k \in 1..r.queries : QueryOrder(r.endpoint)[k] = db
    <3>1. ASSUME NEW db \in work[w].held
          PROVE  \E k \in 1..r.queries : QueryOrder(r.endpoint)[k] = db
      <4>1. PICK k \in 1..work[w].queries : QueryOrder(work[w].endpoint)[k] = db
        BY <1>2, <2>2 DEF Placed
      <4>2. k \in 1..r.queries
        BY <1>5, <2>2
      <4> QED
        BY <1>5, <4>1, <4>2
    <3>2. work[w].queries + 1 \in 1..r.queries
      BY <1>5, <2>2
    <3> QED
      BY <1>5, <3>1, <3>2 DEF next, NextDatabase
  <2>4. \A db \in r.held : InSession(r, db)
    BY <1>2, <1>3, <1>5, <2>1 DEF Placed
  <2> QED
    BY <1>2, <1>5, <2>1, <2>2, <2>3, <2>4 DEF Placed, Entering
<1>7. Tells(r)
  BY <1>2, <1>5 DEF Tells
<1>8. Becomes(w, r)
  BY <1>1, <1>4, <1>5, <1>6, <1>7 DEF Becomes, TypeOK
<1> QED
  BY <1>1, <1>5, <1>8 DEF At, next

\* The handler raises or returns, or a commit fails: the sessions stay as they are.
LEMMA HandlerBecomes ==
    ASSUME TransactionsInv, NEW w \in Workers,
           PoolTimeout(w) \/ HandlerRaises(w) \/ HandlerReturns(w) \/ CommitFails(w)
    PROVE  \E r \in Request :
               /\ Becomes(w, r) /\ r.pc \in {"commit", "unwind"}
               /\ r.held = work[w].held
               /\ r.object = work[w].object /\ r.engine = work[w].engine
<1>1. /\ Running(w) /\ TypeOK /\ RequestsInv /\ work[w].pc \in {"handler", "commit"}
  BY DEF TransactionsInv, Running, At, PoolTimeout, HandlerRaises, HandlerReturns,
         CommitFails
<1>2. /\ work[w] \in Request /\ Placed(work[w]) /\ Tells(work[w])
      /\ work[w].endpoint \in Endpoints /\ Here(w) \in Databases
      /\ work[w].level \in 1..Len(Nesting(work[w].endpoint))
  BY <1>1, RunningShape
<1>3. ASSUME NEW place \in {"commit", "unwind"}, NEW committed \in SUBSET Databases,
             NEW raised \in BOOLEAN, NEW inDoubt \in BOOLEAN,
             committed = {} \/ (raised /\ inDoubt), raised <=> place = "unwind",
             work' = [work EXCEPT ![w] = [work[w] EXCEPT !.committed = committed,
                          !.inDoubt = inDoubt, !.raised = raised, !.pc = place]]
      PROVE  \E r \in Request :
               /\ Becomes(w, r) /\ r.pc \in {"commit", "unwind"}
               /\ r.held = work[w].held
               /\ r.object = work[w].object /\ r.engine = work[w].engine
  <2> DEFINE r == [work[w] EXCEPT !.committed = committed, !.inDoubt = inDoubt,
                                  !.raised = raised, !.pc = place]
  <2>1. /\ r \in Request /\ r.pc = place /\ r.held = work[w].held
        /\ r.object = work[w].object
        /\ r.endpoint = work[w].endpoint /\ r.level = work[w].level
        /\ r.engine = work[w].engine /\ r.queries = work[w].queries
        /\ r.committed = committed /\ r.raised = raised /\ r.inDoubt = inDoubt
    BY <1>2 DEF Request
  <2>2. work' = [work EXCEPT ![w] = r]
    BY <1>3
  <2> HIDE DEF r
  <2>3. Placed(r)
    <3>1. Depth(r) = Depth(work[w]) /\ place \notin Entering
      BY <1>1, <2>1 DEF Depth, Entering
    <3>2. \A db : InSession(r, db) <=> InSession(work[w], db)
      BY <2>1, <3>1 DEF InSession
    <3> QED
      BY <1>1, <1>2, <2>1, <3>1, <3>2 DEF Placed, Entering
  <2>4. Tells(r)
    BY <1>3, <2>1 DEF Tells
  <2>5. Becomes(w, r)
    BY <1>1, <2>1, <2>2, <2>3, <2>4 DEF Becomes, TypeOK
  <2> QED
    BY <2>1, <2>5
<1>4. work[w].committed = {} /\ work[w].raised = FALSE
  BY <1>1, <1>2 DEF Tells, Request
<1>5. CASE PoolTimeout(w) \/ HandlerRaises(w)
  <2>1. work' = [work EXCEPT ![w] = [work[w] EXCEPT !.committed = {},
                     !.inDoubt = work[w].inDoubt, !.raised = TRUE, !.pc = "unwind"]]
    BY <1>1, <1>2, <1>4, <1>5 DEF PoolTimeout, HandlerRaises, Raise, TypeOK, Request
  <2> QED
    BY <1>2, <1>3, <2>1 DEF Request
<1>6. CASE HandlerReturns(w)
  <2>1. work' = [work EXCEPT ![w] = [work[w] EXCEPT !.committed = {},
                     !.inDoubt = work[w].inDoubt, !.raised = FALSE, !.pc = "commit"]]
    BY <1>1, <1>2, <1>4, <1>6 DEF HandlerReturns, TypeOK, Request
  <2> QED
    BY <1>2, <1>3, <2>1 DEF Request
<1>7. CASE CommitFails(w)
  <2>1. PICK done \in BOOLEAN :
            work' = [work EXCEPT
                    ![w].committed = IF done THEN Committed(w) ELSE @,
                    ![w].inDoubt = done,
                    ![w].raised = TRUE,
                    ![w].pc = "unwind"]
    BY <1>7 DEF CommitFails
  <2> DEFINE committed == IF done THEN Committed(w) ELSE {}
  <2>2. committed \in SUBSET Databases
    BY <1>2, <1>4 DEF Committed
  <2>3. work' = [work EXCEPT ![w] = [work[w] EXCEPT !.committed = committed,
                     !.inDoubt = done, !.raised = TRUE, !.pc = "unwind"]]
    BY <1>1, <1>2, <1>4, <2>1 DEF TypeOK, Request
  <2> HIDE DEF committed
  <2>4. committed = {} \/ done
    BY DEF committed
  <2> QED
    BY <1>3, <2>2, <2>3, <2>4
<1> QED
  BY <1>5, <1>6, <1>7

LEMMA StrippedIsRequest ==
    ASSUME NEW q \in Request, NEW committed \in SUBSET Databases,
           NEW held \in SUBSET Databases,
           NEW objects \in [Databases -> Workers \union {None}],
           NEW engines \in [Databases -> Workers \union {None}],
           NEW n \in 0..2, NEW place \in {"commit", "unwind", "answered"}
    PROVE  [q EXCEPT !.committed = committed, !.held = held, !.object = objects,
                     !.engine = engines, !.level = n, !.queries = 0, !.pc = place]
               \in Request
<1> DEFINE r == [q EXCEPT !.committed = committed, !.held = held, !.object = objects,
                     !.engine = engines, !.level = n, !.queries = 0, !.pc = place]
<1> DEFINE r1 == [q EXCEPT !.committed = committed, !.held = held, !.object = objects]
           r2 == [r1 EXCEPT !.engine = engines, !.level = n]
           r3 == [r2 EXCEPT !.queries = 0, !.pc = place]
<1>1. r1 \in Request
  BY DEF Request
<1>2. r2 \in Request
  <2> HIDE DEF r1
  <2> QED
    BY <1>1 DEF Request
<1>3. r3 \in Request
  <2>1. 0 \in 0..2 /\ place \in {"enter", "construct", "get_session", "initialize",
                             "bind", "open", "handler", "commit", "unwind", "answered"}
    OBVIOUS
  <2> HIDE DEF r2
  <2> QED
    BY <1>2, <2>1 DEF Request
<1>4. r3 = r
  BY DEF Request
<1> QED
  BY <1>3, <1>4

\* Leaving a wrapper, by its commit or by its rollback.
LEMMA LeaveBecomes ==
    ASSUME TransactionsInv, NEW w \in Workers, Commit(w) \/ Unwind(w)
    PROVE  \E r \in Request :
               /\ Becomes(w, r) /\ r.pc \in {"commit", "unwind", "answered"}
               /\ r.held = work[w].held \ {Here(w)}
               /\ r.object = [work[w].object EXCEPT ![Here(w)] = None]
               /\ r.engine = [work[w].engine EXCEPT ![Here(w)] = None]
<1>1. /\ Running(w) /\ TypeOK /\ RequestsInv /\ work[w].pc \in {"commit", "unwind"}
      /\ Commit(w) => At(w, "commit")
      /\ Unwind(w) => At(w, "unwind")
  BY DEF TransactionsInv, Running, At, Commit, Unwind
<1>2. /\ work[w] \in Request /\ Placed(work[w]) /\ Tells(work[w])
      /\ work[w].endpoint \in Endpoints
      /\ Here(w) = HereOf(work[w]) /\ Here(w) \in Databases
      /\ work[w].level \in 1..Len(Nesting(work[w].endpoint))
      /\ Len(Nesting(work[w].endpoint)) \in 1..2
  BY <1>1, RunningShape, EndpointShape
<1> DEFINE committed == IF At(w, "commit") THEN Committed(w) ELSE work[w].committed
           place == IF work[w].level = 1 THEN "answered" ELSE work[w].pc
           objects == [work[w].object EXCEPT ![Here(w)] = None]
           engines == [work[w].engine EXCEPT ![Here(w)] = None]
           held == work[w].held \ {Here(w)}
           n == work[w].level - 1
           r == [work[w] EXCEPT !.committed = committed, !.held = held,
                                !.object = objects, !.engine = engines,
                                !.level = n, !.queries = 0, !.pc = place]
<1>3. /\ n \in 0..2 /\ n <= Len(Nesting(work[w].endpoint)) /\ n + 1 = work[w].level
      /\ n = 0 <=> work[w].level = 1
  <2> DEFINE l == work[w].level
             len == Len(Nesting(work[w].endpoint))
  <2>1. l \in 1..len /\ len \in 1..2
    BY <1>2
  <2> HIDE DEF l, len
  <2>2. l - 1 \in 0..2 /\ l - 1 <= len /\ (l - 1) + 1 = l /\ (l - 1 = 0 <=> l = 1)
    BY <2>1
  <2> QED
    BY <2>2 DEF l, len
<1>4. /\ place \in {"commit", "unwind", "answered"}
      /\ n = 0 <=> place = "answered"
      /\ n # 0 => place = work[w].pc
  BY <1>1, <1>3
<1>5. /\ objects \in [Databases -> Workers \union {None}]
      /\ engines \in [Databases -> Workers \union {None}]
      /\ \A db \in Databases : db # Here(w) => /\ objects[db] = work[w].object[db]
                                               /\ engines[db] = work[w].engine[db]
  BY <1>2 DEF Request
<1>6. committed \in SUBSET Databases /\ held \in SUBSET Databases
  BY <1>2 DEF Request, Committed
<1>7. Leave(w, committed)
  BY <1>1 DEF Commit, Unwind, At
<1>8. work' = [work EXCEPT ![w] = r]
  <2> HIDE DEF committed
  <2> QED
    BY <1>1, <1>2, <1>7 DEF Leave, TypeOK, Request
<1>9. /\ r \in Request /\ r.pc = place /\ r.held = held
      /\ r.object = objects
      /\ r.endpoint = work[w].endpoint /\ r.level = n
      /\ r.engine = engines /\ r.queries = 0
      /\ r.committed = committed /\ r.raised = work[w].raised
      /\ r.inDoubt = work[w].inDoubt
  <2>1. place \in {"commit", "unwind", "answered"} /\ n \in 0..2
    BY <1>3, <1>4
  <2> HIDE DEF committed, place, objects, engines, held, n
  <2>2. r \in Request
    BY <1>2, <1>5, <1>6, <2>1, StrippedIsRequest
  <2>3. /\ r.pc = place /\ r.held = held /\ r.object = objects /\ r.level = n
        /\ r.engine = engines /\ r.queries = 0 /\ r.committed = committed
    BY <1>2 DEF Request
  <2>4. /\ r.endpoint = work[w].endpoint /\ r.raised = work[w].raised
        /\ r.inDoubt = work[w].inDoubt
    BY <1>2 DEF Request
  <2> QED
    BY <2>2, <2>3, <2>4
<1> HIDE DEF r, objects, engines
<1>10. \A db : InSession(r, db) <=> InSession(work[w], db) /\ db # Here(w)
  <2>1. Depth(r) = n /\ Depth(work[w]) = work[w].level
    BY <1>1, <1>4, <1>9 DEF Depth, Entering
  <2>2. \A k \in 1..work[w].level :
            Nesting(work[w].endpoint)[k] = HereOf(work[w]) <=> k = work[w].level
    <3>1. \A k \in 1..work[w].level : k \in 1..Len(Nesting(work[w].endpoint))
      BY <1>2
    <3> QED
      BY <1>2, <3>1, EndpointShape DEF HereOf
  <2>3. 1..n = {k \in 1..work[w].level : k # work[w].level}
    BY <1>2, <1>3
  <2> HIDE DEF n
  <2> QED
    BY <1>2, <1>9, <2>1, <2>2, <2>3 DEF InSession
<1>11. Placed(r)
  <2>1. \A db \in Databases : InSession(r, db) =>
            r.object[db] \in Workers /\ r.engine[db] \in Workers
    BY <1>2, <1>5, <1>9, <1>10 DEF Placed
  <2>2. \A db \in r.held : InSession(r, db)
    BY <1>2, <1>9, <1>10 DEF Placed
  <2>3. /\ r.level \in 0..Len(Nesting(r.endpoint))
        /\ r.level = 0 <=> r.pc = "answered"
        /\ r.pc \in {"commit", "unwind", "answered"}
    BY <1>3, <1>4, <1>9
  <2> QED
    BY <2>1, <2>2, <2>3 DEF Placed, Entering
<1>12. Tells(r)
  <2>1. Writes(work[w].endpoint) = {Nesting(work[w].endpoint)[1]}
    BY <1>2, EndpointShape
  <2>2. CASE work[w].pc = "commit"
    <3>1. work[w].committed = {} /\ work[w].raised = FALSE
      BY <1>2, <2>2 DEF Tells, Request
    <3>2. committed = {Here(w)} \intersect Writes(work[w].endpoint)
      BY <1>1, <2>2, <3>1 DEF Committed, At, Running
    <3>3. CASE n = 0
      <4>1. Here(w) = Nesting(work[w].endpoint)[1]
        BY <1>2, <1>3, <3>3 DEF HereOf
      <4> QED
        BY <1>4, <1>9, <2>1, <3>1, <3>2, <3>3, <4>1 DEF Tells
    <3>4. CASE n # 0
      <4>1. Here(w) # Nesting(work[w].endpoint)[1]
        <5>1. work[w].level # 1 /\ 1 \in 1..Len(Nesting(work[w].endpoint))
          BY <1>2, <1>3, <3>4
        <5> QED
          BY <1>2, <5>1, EndpointShape DEF HereOf
      <4> QED
        BY <1>4, <1>9, <2>1, <2>2, <3>1, <3>2, <3>4, <4>1 DEF Tells
    <3> QED
      BY <3>3, <3>4
  <2>3. CASE work[w].pc = "unwind"
    <3>1. committed = work[w].committed /\ work[w].raised = TRUE
      BY <1>2, <2>3 DEF Tells, At, Request
    <3> QED
      BY <1>2, <1>4, <1>9, <2>3, <3>1 DEF Tells
  <2> QED
    BY <1>1, <2>2, <2>3
<1>13. Becomes(w, r)
  BY <1>1, <1>8, <1>9, <1>11, <1>12 DEF Becomes, TypeOK
<1>14. r.pc \in {"commit", "unwind", "answered"}
  BY <1>4, <1>9
<1> QED
  BY <1>9, <1>13, <1>14 DEF objects, engines

-----------------------------------------------------------------------------
(* The connections of a pool, counted. *)

\* Who has answered holds nothing, so the holders are the ones of the property.
LEMMA CountedIsReturned ==
    ASSUME TypeOK, RequestsInv
    PROVE  Counted <=> ConnectionsAreReturned
<1>1. ASSUME NEW w \in Workers, work[w] # None, work[w].held # {}
      PROVE  Running(w)
  <2>1. Placed(work[w]) /\ work[w].held \in SUBSET Databases
    BY <1>1, RequestShape DEF RequestsInv
  <2>2. PICK db \in work[w].held : InSession(work[w], db)
    BY <1>1, <2>1 DEF Placed
  <2>3. ASSUME work[w].pc = "answered" PROVE FALSE
    BY <2>1, <2>2, <2>3 DEF Placed, InSession, Depth, Entering
  <2> QED
    BY <1>1, <2>3 DEF Running
<1>2. ASSUME NEW pool \in Pools
      PROVE  Holders(pool) = {w \in Workers : \E db \in Databases :
                 Running(w) /\ db \in work[w].held /\ PoolOf(w, db) = pool}
  <2>1. ASSUME NEW w \in Workers
        PROVE  Holds(w, pool) <=> \E db \in Databases :
                   Running(w) /\ db \in work[w].held /\ PoolOf(w, db) = pool
    <3>1. work[w] # None => work[w].held \in SUBSET Databases
      BY RequestShape
    <3> QED
      BY <1>1, <3>1 DEF Holds, Running
  <2> QED
    BY <2>1 DEF Holders
<1> QED
  BY <1>2 DEF Counted, ConnectionsAreReturned

LEMMA HoldersAreFinite ==
    ASSUME NEW pool
    PROVE  IsFiniteSet(Holders(pool)) /\ Cardinality(Holders(pool)) \in Nat
<1>1. Holders(pool) \subseteq Workers
  BY DEF Holders
<1> QED
  BY <1>1, WorkerAssumption, FS_Subset, FS_CardinalityType

\* A step that neither takes nor gives back a connection.
LEMMA QuietKeepsCount ==
    ASSUME TypeOK, Counted, NEW w \in Workers, UNCHANGED free,
           \A v \in Workers \ {w} : work'[v] = work[v],
           \A pool \in Pools : Holds(w, pool)' <=> Holds(w, pool)
    PROVE  Counted'
<1>1. ASSUME NEW pool \in Pools PROVE Holders(pool)' = Holders(pool)
  BY <1>1 DEF Holders, Holds, PoolOf
<1> QED
  BY <1>1 DEF Counted

\* A step that takes a connection.
LEMMA TakeKeepsCount ==
    ASSUME TypeOK, Counted, NEW w \in Workers, NEW p \in Pools, free[p] > 0,
           free' = [free EXCEPT ![p] = @ - 1],
           \A v \in Workers \ {w} : work'[v] = work[v],
           ~Holds(w, p), Holds(w, p)',
           \A pool \in Pools \ {p} : Holds(w, pool)' <=> Holds(w, pool)
    PROVE  Counted' /\ free' \in [Pools -> 0..PoolSize]
<1>1. Holders(p)' = Holders(p) \union {w} /\ w \notin Holders(p)
  BY DEF Holders, Holds, PoolOf
<1>2. Cardinality(Holders(p)') = Cardinality(Holders(p)) + 1
  BY <1>1, HoldersAreFinite, FS_AddElement
<1>3. \A pool \in Pools \ {p} : Holders(pool)' = Holders(pool)
  BY DEF Holders, Holds, PoolOf
<1>4. \A pool \in Pools : free[pool] \in 0..PoolSize /\ PoolSize \in Nat
  BY PoolAssumption DEF TypeOK
<1>5. free'[p] = free[p] - 1 /\ \A pool \in Pools \ {p} : free'[pool] = free[pool]
  BY DEF TypeOK
<1>6. ASSUME NEW pool \in Pools
      PROVE  free'[pool] + Cardinality(Holders(pool)') = PoolSize
  <2>1. CASE pool = p
    BY <1>2, <1>4, <1>5, <2>1, HoldersAreFinite DEF Counted
  <2>2. CASE pool # p
    BY <1>3, <1>5, <2>2 DEF Counted
  <2> QED
    BY <2>1, <2>2
<1>7. free' \in [Pools -> 0..PoolSize]
  <2>1. free[p] - 1 \in 0..PoolSize
    BY <1>4
  <2> QED
    BY <2>1 DEF TypeOK
<1> QED
  BY <1>6, <1>7 DEF Counted

\* A step that gives one back: there is room for it, as its holder was counted.
LEMMA GiveKeepsCount ==
    ASSUME TypeOK, Counted, NEW w \in Workers, NEW p \in Pools,
           free' = [free EXCEPT ![p] = @ + 1],
           \A v \in Workers \ {w} : work'[v] = work[v],
           Holds(w, p), ~Holds(w, p)',
           \A pool \in Pools \ {p} : Holds(w, pool)' <=> Holds(w, pool)
    PROVE  Counted' /\ free' \in [Pools -> 0..PoolSize]
<1>1. Holders(p)' = Holders(p) \ {w} /\ w \in Holders(p)
  BY DEF Holders, Holds, PoolOf
<1>2. /\ Cardinality(Holders(p)') = Cardinality(Holders(p)) - 1
      /\ Cardinality(Holders(p)') \in Nat /\ Cardinality(Holders(p)) \in Nat
  BY <1>1, HoldersAreFinite, FS_RemoveElement, FS_CardinalityType
<1>3. \A pool \in Pools \ {p} : Holders(pool)' = Holders(pool)
  BY DEF Holders, Holds, PoolOf
<1>4. \A pool \in Pools : free[pool] \in 0..PoolSize /\ PoolSize \in Nat
  BY PoolAssumption DEF TypeOK
<1>5. free'[p] = free[p] + 1 /\ \A pool \in Pools \ {p} : free'[pool] = free[pool]
  BY DEF TypeOK
<1>6. ASSUME NEW pool \in Pools
      PROVE  free'[pool] + Cardinality(Holders(pool)') = PoolSize
  <2>1. CASE pool = p
    BY <1>2, <1>4, <1>5, <2>1 DEF Counted
  <2>2. CASE pool # p
    BY <1>3, <1>5, <2>2 DEF Counted
  <2> QED
    BY <2>1, <2>2
<1>7. free' \in [Pools -> 0..PoolSize]
  <2>1. free[p] + 1 \in 0..PoolSize
    BY <1>2, <1>4, <1>5, <1>6
  <2> QED
    BY <2>1 DEF TypeOK
<1> QED
  BY <1>6, <1>7 DEF Counted

-----------------------------------------------------------------------------
(* The steps and the connections. *)

\* Before a request has a connection, and while it keeps what it has.
LEMMA HoldsAsBefore ==
    ASSUME TypeOK, NEW w \in Workers, NEW r \in Request, Becomes(w, r),
           \/ r.held = {} /\ (work[w] = None \/ work[w].held = {})
           \/ /\ work[w] # None /\ r.held = work[w].held
              /\ r.object = work[w].object /\ r.engine = work[w].engine
    PROVE  \A pool \in Pools : Holds(w, pool)' <=> Holds(w, pool)
<1>1. work'[w] = r /\ r # None
  BY NoneAssumption DEF Becomes
<1> QED
  BY <1>1 DEF Holds, PoolOf

LEMMA ConnectKeepsCount ==
    ASSUME TransactionsInv, NEW w \in Workers, Connect(w)
    PROVE  Counted' /\ free' \in [Pools -> 0..PoolSize]
<1> DEFINE next == NextDatabase(w)
           p == PoolOf(w, next)
<1>1. PICK r \in Request :
          /\ Becomes(w, r)
          /\ r.held = work[w].held \union {NextDatabase(w)}
          /\ r.object = work[w].object /\ r.engine = work[w].engine
  BY ConnectBecomes
<1>2. work'[w] = r /\ r # None /\ \A v \in Workers \ {w} : work'[v] = work[v]
  BY <1>1, NoneAssumption DEF Becomes
<1>3. /\ next \in Databases /\ next \notin work[w].held
      /\ work[w].object[next] \in Workers /\ work[w].engine[next] \in Workers
  BY NextIsFresh DEF Connect
<1>4. p \in Pools /\ p.db = next
  BY <1>3 DEF PoolOf, Pools
<1>5. free[p] > 0 /\ free' = [free EXCEPT ![p] = @ - 1] /\ work[w] # None
  BY DEF Connect, At
<1> HIDE DEF next
<1>6. \A db : PoolOf(w, db)' = PoolOf(w, db) /\ PoolOf(w, db).db = db
  BY <1>1, <1>2 DEF PoolOf
<1>7. \A pool : Holds(w, pool)' <=> Holds(w, pool) \/ pool = p
  <2>1. \A pool : Holds(w, pool)' <=> \E db \in r.held : PoolOf(w, db) = pool
    BY <1>2, <1>6 DEF Holds
  <2> QED
    BY <1>1, <1>5, <2>1 DEF Holds, next
<1>8. ~Holds(w, p)
  BY <1>3, <1>4, <1>6 DEF Holds
<1> QED
  BY <1>2, <1>4, <1>5, <1>7, <1>8, TakeKeepsCount DEF TransactionsInv

LEMMA LeaveKeepsCount ==
    ASSUME TransactionsInv, NEW w \in Workers, Commit(w) \/ Unwind(w)
    PROVE  Counted' /\ free' \in [Pools -> 0..PoolSize]
<1> DEFINE here == Here(w)
           p == PoolOf(w, here)
<1>1. PICK r \in Request :
          /\ Becomes(w, r)
          /\ r.held = work[w].held \ {Here(w)}
          /\ r.object = [work[w].object EXCEPT ![Here(w)] = None]
          /\ r.engine = [work[w].engine EXCEPT ![Here(w)] = None]
  BY LeaveBecomes
<1>2. work'[w] = r /\ r # None /\ \A v \in Workers \ {w} : work'[v] = work[v]
  BY <1>1, NoneAssumption DEF Becomes
<1>3. /\ Running(w) /\ work[w] # None /\ TypeOK /\ RequestsInv /\ Counted
      /\ free' = IF here \in work[w].held THEN [free EXCEPT ![p] = @ + 1] ELSE free
  BY DEF Commit, Unwind, At, Running, GiveBack, TransactionsInv
<1>4. /\ here \in Databases /\ Placed(work[w])
      /\ work[w].object \in [Databases -> Workers \union {None}]
      /\ work[w].engine \in [Databases -> Workers \union {None}]
      /\ work[w].held \in SUBSET Databases
  BY <1>3, RunningShape, RequestShape
<1> HIDE DEF here
<1>5. \A db \in Databases \ {here} : PoolOf(w, db)' = PoolOf(w, db)
  BY <1>1, <1>2, <1>4 DEF PoolOf, here
<1>6. \A db : PoolOf(w, db).db = db
  BY DEF PoolOf
<1>7. \A pool : Holds(w, pool)' <=> \E db \in work[w].held \ {here} : PoolOf(w, db) = pool
  <2>1. \A pool : Holds(w, pool)' <=> \E db \in r.held : PoolOf(w, db)' = pool
    BY <1>2 DEF Holds, PoolOf
  <2> QED
    BY <1>1, <1>4, <1>5, <2>1 DEF here
<1>8. CASE here \in work[w].held
  <2>1. PICK q \in Pools : q = p
    <3>1. work[w].object[here] \in Workers /\ work[w].engine[here] \in Workers
      BY <1>4, <1>8 DEF Placed
    <3> QED
      BY <1>4, <3>1 DEF PoolOf, Pools
  <2>2. Holds(w, q) /\ ~Holds(w, q)'
    BY <1>3, <1>6, <1>7, <1>8, <2>1 DEF Holds
  <2>3. \A pool \in Pools \ {q} : Holds(w, pool)' <=> Holds(w, pool)
    BY <1>3, <1>7, <2>1 DEF Holds
  <2>4. free' = [free EXCEPT ![q] = @ + 1]
    BY <1>3, <1>8, <2>1
  <2> QED
    BY <1>2, <1>3, <2>1, <2>2, <2>3, <2>4, GiveKeepsCount
<1>9. CASE here \notin work[w].held
  <2>1. \A pool \in Pools : Holds(w, pool)' <=> Holds(w, pool)
    BY <1>3, <1>7, <1>9 DEF Holds
  <2> QED
    BY <1>2, <1>3, <1>9, <2>1, QuietKeepsCount DEF TypeOK
<1> QED
  BY <1>8, <1>9

-----------------------------------------------------------------------------
(* The objects, their engines and their factories. *)

\* What a step has to keep for the other requests, and to provide for its own.
LEMMA ObjectsAreKept ==
    ASSUME ObjectsAreFound, NEW w \in Workers, NEW r \in Request, Becomes(w, r),
           \A db \in Databases : cache[db] \in {None, cache'[db]},
           \A db \in Databases : \A o \in Workers :
               factory'[db][o] # None => engine'[db][o] # None,
           \A v \in Workers \ {w} :
               /\ At(v, "bind") => engine'[Here(v)][Object(v)] # None
               /\ At(v, "open") => factory'[Here(v)][Object(v)] # None,
           \A db \in Databases : r.object[db] \in {None, cache'[db], w},
           r.pc = "bind" => engine'[HereOf(r)][r.object[HereOf(r)]] # None,
           r.pc = "open" => factory'[HereOf(r)][r.object[HereOf(r)]] # None
    PROVE  ObjectsAreFound'
<1>1. work'[w] = r /\ \A v \in Workers \ {w} : work'[v] = work[v]
  BY DEF Becomes
<1> SUFFICES ASSUME NEW v \in Workers, work'[v] # None
             PROVE  /\ \A db \in Databases : work'[v].object[db] \in {None, cache'[db], v}
                    /\ work'[v].pc = "bind" => engine'[Here(v)'][Object(v)'] # None
                    /\ work'[v].pc = "open" => factory'[Here(v)'][Object(v)'] # None
  BY DEF ObjectsAreFound, Here, Object
<1>2. CASE v = w
  <2>1. Here(v)' = HereOf(r) /\ Object(v)' = r.object[HereOf(r)]
    BY <1>1, <1>2 DEF Here, HereOf, Object
  <2> QED
    BY <1>1, <1>2, <2>1
<1>3. CASE v # w
  <2>1. work'[v] = work[v]
    BY <1>1, <1>3
  <2>2. Here(v)' = Here(v) /\ Object(v)' = Object(v)
    BY <2>1 DEF Here, Object
  <2>3. \A db \in Databases : work[v].object[db] \in {None, cache[db], v}
    BY <2>1 DEF ObjectsAreFound
  <2>4. \A db \in Databases : work'[v].object[db] \in {None, cache'[db], v}
    BY <2>1, <2>3
  <2>5. /\ work[v].pc = "bind" => engine'[Here(v)][Object(v)] # None
        /\ work[v].pc = "open" => factory'[Here(v)][Object(v)] # None
    BY <1>3, <2>1 DEF At
  <2> QED
    BY <2>1, <2>2, <2>4, <2>5
<1> QED
  BY <1>2, <1>3

\* Most steps touch no object.
LEMMA ObjectsAreLeft ==
    ASSUME ObjectsAreFound, NEW w \in Workers, NEW r \in Request, Becomes(w, r),
           UNCHANGED <<cache, engine, factory>>,
           \A db \in Databases : r.object[db] \in {None, cache[db], w},
           r.pc = "bind" => engine[HereOf(r)][r.object[HereOf(r)]] # None,
           r.pc = "open" => factory[HereOf(r)][r.object[HereOf(r)]] # None
    PROVE  ObjectsAreFound'
<1>1. \A v \in Workers : /\ At(v, "bind") => engine[Here(v)][Object(v)] # None
                         /\ At(v, "open") => factory[Here(v)][Object(v)] # None
  BY DEF ObjectsAreFound, At
<1>2. \A db \in Databases : \A o \in Workers :
          factory[db][o] # None => engine[db][o] # None
  BY DEF ObjectsAreFound
<1>3. engine' = engine /\ factory' = factory /\ cache' = cache
  OBVIOUS
<1>4. \A db \in Databases : cache[db] \in {None, cache'[db]}
  BY <1>3
<1> QED
  BY <1>1, <1>2, <1>3, <1>4, ObjectsAreKept

\* The objects of a request, before the step.
LEMMA OwnObjects ==
    ASSUME ObjectsAreFound, NEW w \in Workers, work[w] # None
    PROVE  \A db \in Databases : work[w].object[db] \in {None, cache[db], w}
  BY DEF ObjectsAreFound

LEMMA ConstructKeepsObjects ==
    ASSUME TransactionsInv, NEW w \in Workers, NEW r \in Request, Construct(w),
           Becomes(w, r), r.pc = "get_session",
           r.object = [work[w].object EXCEPT ![Here(w)] = w]
    PROVE  /\ ObjectsAreFound'
           /\ cache' \in [Databases -> Workers \union {None}]
<1>1. /\ TypeOK /\ RequestsInv /\ ObjectsAreFound /\ Running(w) /\ work[w] # None
      /\ cache' = [cache EXCEPT ![Here(w)] = IF @ = None THEN w ELSE @]
      /\ UNCHANGED <<engine, factory>>
  BY DEF TransactionsInv, Construct, At, Running
<1>2. /\ Here(w) \in Databases
      /\ work[w].object \in [Databases -> Workers \union {None}]
      /\ cache \in [Databases -> Workers \union {None}]
  BY <1>1, RunningShape, RequestShape DEF TypeOK
<1>3. /\ \A db \in Databases : cache[db] \in {None, cache'[db]}
      /\ cache' \in [Databases -> Workers \union {None}]
  BY <1>1, <1>2
<1>4. \A db \in Databases : r.object[db] \in {None, cache'[db], w}
  <2>1. \A db \in Databases : r.object[db] = IF db = Here(w) THEN w ELSE work[w].object[db]
    BY <1>2
  <2> QED
    BY <1>1, <1>3, <2>1, OwnObjects
<1>5. \A v \in Workers : /\ At(v, "bind") => engine[Here(v)][Object(v)] # None
                         /\ At(v, "open") => factory[Here(v)][Object(v)] # None
  BY <1>1 DEF ObjectsAreFound, At
<1>6. \A db \in Databases : \A o \in Workers :
          factory[db][o] # None => engine[db][o] # None
  BY <1>1 DEF ObjectsAreFound
<1>7. \A v \in Workers : /\ At(v, "bind") => engine'[Here(v)][Object(v)] # None
                         /\ At(v, "open") => factory'[Here(v)][Object(v)] # None
  BY <1>1, <1>5
<1>8. \A db \in Databases : \A o \in Workers :
          factory'[db][o] # None => engine'[db][o] # None
  BY <1>1, <1>6
<1>9. r.pc # "bind" /\ r.pc # "open"
  OBVIOUS
<1> QED
  BY <1>1, <1>3, <1>4, <1>7, <1>8, <1>9, ObjectsAreKept

\* initialize makes engine and factory of the object the request has, whoever else
\* is at it.
LEMMA InitializeKeepsObjects ==
    ASSUME TransactionsInv, NEW w \in Workers, NEW r \in Request,
           Becomes(w, r), HereOf(r) = Here(w), r.object = work[w].object,
           \/ CreateEngine(w) /\ r.pc = "bind"
           \/ CreateFactory(w) /\ r.pc = "open"
    PROVE  /\ ObjectsAreFound'
           /\ engine' \in [Databases -> [Workers -> Workers \union {None}]]
           /\ factory' \in [Databases -> [Workers -> Workers \union {None}]]
<1>1. /\ TypeOK /\ RequestsInv /\ ObjectsAreFound /\ Running(w) /\ work[w] # None
      /\ UNCHANGED cache
      /\ CreateEngine(w) => At(w, "initialize")
      /\ CreateFactory(w) => At(w, "bind")
  BY DEF TransactionsInv, CreateEngine, CreateFactory, At, Running
<1> DEFINE here == Here(w)
           o == Object(w)
<1>2. /\ here \in Databases /\ o \in Workers /\ w # None
      /\ o = r.object[HereOf(r)]
  <2>1. w # None
    BY WorkerAssumption
  <2>2. here \in Databases /\ here = HereOf(work[w]) /\ Placed(work[w])
    BY <1>1, RunningShape
  <2>3. work[w].pc \in Entering \ {"enter", "construct"}
    BY <1>1 DEF At, Entering
  <2>4. o \in Workers
    BY <2>2, <2>3 DEF Placed, Object
  <2> QED
    BY <2>1, <2>2, <2>4 DEF Object
<1>3. /\ engine \in [Databases -> [Workers -> Workers \union {None}]]
      /\ factory \in [Databases -> [Workers -> Workers \union {None}]]
  BY <1>1 DEF TypeOK
<1>4. \A v \in Workers : /\ At(v, "bind") => engine[Here(v)][Object(v)] # None
                         /\ At(v, "open") => factory[Here(v)][Object(v)] # None
  BY <1>1 DEF ObjectsAreFound, At
<1>5. \A db \in Databases, x \in Workers : factory[db][x] # None => engine[db][x] # None
  BY <1>1 DEF ObjectsAreFound
<1>6. \A v \in Workers : At(v, "bind") \/ At(v, "open") =>
          Here(v) \in Databases /\ Object(v) \in Workers
  <2> SUFFICES ASSUME NEW v \in Workers, At(v, "bind") \/ At(v, "open")
               PROVE  Here(v) \in Databases /\ Object(v) \in Workers
    OBVIOUS
  <2>1. Running(v)
    BY DEF At, Running
  <2> QED
    BY <1>1, <2>1, RunningShape DEF Placed, Entering, Object, At
<1>7. CASE CreateEngine(w) /\ r.pc = "bind"
  <2>1. engine' = [engine EXCEPT ![here][o] = w] /\ factory' = factory
    BY <1>7 DEF CreateEngine
  <2> HIDE DEF here, o
  <2>2. /\ engine' \in [Databases -> [Workers -> Workers \union {None}]]
        /\ engine'[here][o] = w
        /\ \A db \in Databases, x \in Workers :
               engine'[db][x] = w \/ engine'[db][x] = engine[db][x]
    BY <1>2, <1>3, <2>1
  <2>3. \A db \in Databases : \A x \in Workers :
            factory'[db][x] # None => engine'[db][x] # None
    BY <1>2, <1>5, <2>1, <2>2
  <2>4. \A v \in Workers \ {w} :
            /\ At(v, "bind") => engine'[Here(v)][Object(v)] # None
            /\ At(v, "open") => factory'[Here(v)][Object(v)] # None
    BY <1>2, <1>4, <1>6, <2>1, <2>2
  <2>5. /\ r.pc = "bind" => engine'[HereOf(r)][r.object[HereOf(r)]] # None
        /\ r.pc # "open"
    BY <1>2, <1>7, <2>2 DEF here
  <2>6. \A db \in Databases : r.object[db] \in {None, cache'[db], w}
    BY <1>1, OwnObjects
  <2>7. ObjectsAreFound'
    BY <1>1, <2>3, <2>4, <2>5, <2>6, ObjectsAreKept
  <2> QED
    BY <1>3, <2>1, <2>2, <2>7
<1>8. CASE CreateFactory(w) /\ r.pc = "open"
  <2>1. engine' = engine /\ factory' = [factory EXCEPT ![here][o] = engine[here][o]]
    BY <1>8 DEF CreateFactory
  <2>2. engine[here][o] # None
    BY <1>1, <1>4, <1>8
  <2> HIDE DEF here, o
  <2>3. /\ factory' \in [Databases -> [Workers -> Workers \union {None}]]
        /\ factory'[here][o] = engine[here][o]
        /\ \A db \in Databases, x \in Workers :
               factory'[db][x] = engine[db][x] \/ factory'[db][x] = factory[db][x]
        /\ \A db \in Databases, x \in Workers :
               db # here \/ x # o => factory'[db][x] = factory[db][x]
    BY <1>2, <1>3, <2>1
  <2>4. \A db \in Databases : \A x \in Workers :
            factory'[db][x] # None => engine'[db][x] # None
    BY <1>5, <2>1, <2>3
  <2>5. \A v \in Workers \ {w} :
            /\ At(v, "bind") => engine'[Here(v)][Object(v)] # None
            /\ At(v, "open") => factory'[Here(v)][Object(v)] # None
    BY <1>4, <1>6, <2>1, <2>2, <2>3
  <2>6. /\ r.pc = "open" => factory'[HereOf(r)][r.object[HereOf(r)]] # None
        /\ r.pc # "bind"
    BY <1>2, <1>8, <2>2, <2>3 DEF here
  <2>7. \A db \in Databases : r.object[db] \in {None, cache'[db], w}
    BY <1>1, OwnObjects
  <2>8. ObjectsAreFound'
    BY <1>1, <2>4, <2>5, <2>6, <2>7, ObjectsAreKept
  <2> QED
    BY <1>3, <2>1, <2>3, <2>8
<1> QED
  BY <1>7, <1>8

\* An object that is dropped is nobody's but the request's that leaves.
LEMMA LeaveKeepsObjects ==
    ASSUME TransactionsInv, NEW w \in Workers, NEW r \in Request,
           Commit(w) \/ Unwind(w),
           Becomes(w, r), r.pc \in {"commit", "unwind", "answered"},
           r.object = [work[w].object EXCEPT ![Here(w)] = None]
    PROVE  /\ ObjectsAreFound'
           /\ engine' \in [Databases -> [Workers -> Workers \union {None}]]
           /\ factory' \in [Databases -> [Workers -> Workers \union {None}]]
<1>1. /\ TypeOK /\ RequestsInv /\ ObjectsAreFound /\ Running(w) /\ work[w] # None
      /\ UNCHANGED cache /\ DropPrivateObject(w)
      /\ work[w].pc \in {"commit", "unwind"}
  BY DEF TransactionsInv, Commit, Unwind, At, Running
<1> DEFINE here == Here(w)
           o == Object(w)
<1>2. /\ here \in Databases /\ here = HereOf(work[w])
      /\ work[w].object \in [Databases -> Workers \union {None}]
      /\ Placed(work[w]) /\ work[w].level \in 1..Len(Nesting(work[w].endpoint))
  BY <1>1, RunningShape, RequestShape
<1>3. /\ engine \in [Databases -> [Workers -> Workers \union {None}]]
      /\ factory \in [Databases -> [Workers -> Workers \union {None}]]
      /\ cache \in [Databases -> Workers \union {None}]
  BY <1>1 DEF TypeOK
<1>4. \A v \in Workers : /\ At(v, "bind") => engine[Here(v)][Object(v)] # None
                         /\ At(v, "open") => factory[Here(v)][Object(v)] # None
  BY <1>1 DEF ObjectsAreFound, At
<1>5. \A db \in Databases, x \in Workers : factory[db][x] # None => engine[db][x] # None
  BY <1>1 DEF ObjectsAreFound
<1>6. \A db \in Databases : r.object[db] \in {None, cache[db], w}
  <2>1. \A db \in Databases : r.object[db] = IF db = Here(w) THEN None ELSE work[w].object[db]
    BY <1>2
  <2> QED
    BY <1>1, <2>1, OwnObjects
<1>7. CASE o = cache[here]
  <2>1. UNCHANGED <<cache, engine, factory>>
    BY <1>1, <1>7 DEF DropPrivateObject
  <2>2. ObjectsAreFound'
    BY <1>1, <1>6, <2>1, ObjectsAreLeft
  <2> QED
    BY <1>3, <2>1, <2>2
<1>8. CASE o # cache[here]
  <2>1. o = w
    <3>1. InSession(work[w], here)
      <4>1. Depth(work[w]) = work[w].level
        BY <1>1 DEF Depth, Entering
      <4> QED
        BY <1>2, <4>1 DEF InSession, HereOf
    <3>2. o \in Workers
      BY <1>2, <3>1 DEF Placed, Object
    <3> QED
      BY <1>1, <1>2, <1>8, <3>2, OwnObjects, WorkerAssumption DEF Object
  <2>2. /\ engine' = [engine EXCEPT ![here][w] = None]
        /\ factory' = [factory EXCEPT ![here][w] = None]
    BY <1>1, <1>8, <2>1 DEF DropPrivateObject
  <2>3. \A v \in Workers \ {w} : At(v, "bind") \/ At(v, "open") =>
            /\ Here(v) \in Databases /\ Object(v) \in Workers
            /\ Here(v) # here \/ Object(v) # w
    <3> SUFFICES ASSUME NEW v \in Workers \ {w}, At(v, "bind") \/ At(v, "open")
                 PROVE  /\ Here(v) \in Databases /\ Object(v) \in Workers
                        /\ Here(v) # here \/ Object(v) # w
      OBVIOUS
    <3>1. Running(v)
      BY DEF At, Running
    <3>2. Here(v) \in Databases /\ Object(v) \in Workers
      BY <1>1, <3>1, RunningShape DEF Placed, Entering, Object, At
    <3>3. Object(v) \in {None, cache[Here(v)], v}
      BY <1>1, <3>1, <3>2, OwnObjects DEF Object, Running
    <3>4. ASSUME Here(v) = here, Object(v) = w PROVE FALSE
      BY <1>8, <2>1, <3>3, <3>4, WorkerAssumption
    <3> QED
      BY <3>2, <3>4
  <2> HIDE DEF here, o
  <2>4. /\ engine' \in [Databases -> [Workers -> Workers \union {None}]]
        /\ factory' \in [Databases -> [Workers -> Workers \union {None}]]
        /\ \A db \in Databases, x \in Workers :
               IF db = here /\ x = w
               THEN factory'[db][x] = None
               ELSE engine'[db][x] = engine[db][x] /\ factory'[db][x] = factory[db][x]
    BY <1>2, <1>3, <2>2
  <2>5. \A db \in Databases : \A x \in Workers :
            factory'[db][x] # None => engine'[db][x] # None
    BY <1>5, <2>4
  <2>6. \A v \in Workers \ {w} :
            /\ At(v, "bind") => engine'[Here(v)][Object(v)] # None
            /\ At(v, "open") => factory'[Here(v)][Object(v)] # None
    BY <1>4, <2>3, <2>4
  <2>7. ObjectsAreFound'
    BY <1>1, <1>6, <2>5, <2>6, ObjectsAreKept
  <2> QED
    BY <2>4, <2>7
<1> QED
  BY <1>7, <1>8

-----------------------------------------------------------------------------
(* The invariant. *)

LEMMA TransactionsInit == Init => TransactionsInv
<1> SUFFICES ASSUME Init PROVE TransactionsInv
  OBVIOUS
<1>1. TypeOK
  BY PoolAssumption DEF Init, TypeOK
<1>2. \A w \in Workers : work[w] = None
  BY DEF Init
<1>3. RequestsInv
  BY <1>2 DEF RequestsInv
<1>4. ObjectsAreFound
  BY <1>2 DEF ObjectsAreFound, Init
<1>5. Counted
  <2>1. \A pool \in Pools : Holders(pool) = {} /\ free[pool] = PoolSize
    BY <1>2 DEF Holders, Holds, Init
  <2> QED
    BY <2>1, FS_EmptySet, PoolAssumption DEF Counted
<1> QED
  BY <1>1, <1>3, <1>4, <1>5 DEF TransactionsInv

\* The steps that leave the connections and the objects alone.
LEMMA QuietStep ==
    ASSUME TransactionsInv, NEW w \in Workers, NEW r \in Request, Becomes(w, r),
           UNCHANGED free, cache' \in [Databases -> Workers \union {None}],
           engine' \in [Databases -> [Workers -> Workers \union {None}]],
           factory' \in [Databases -> [Workers -> Workers \union {None}]],
           ObjectsAreFound',
           \/ r.held = {} /\ (work[w] = None \/ work[w].held = {})
           \/ /\ work[w] # None /\ r.held = work[w].held
              /\ r.object = work[w].object /\ r.engine = work[w].engine
    PROVE  TransactionsInv'
<1>1. TypeOK /\ Counted /\ RequestsInv
  BY DEF TransactionsInv
<1>2. TypeOK'
  BY <1>1 DEF TypeOK, Becomes
<1>3. RequestsInv'
  BY <1>1, BecomesKeepsRequests
<1>4. Counted'
  <2>1. \A pool \in Pools : Holds(w, pool)' <=> Holds(w, pool)
    BY <1>1, HoldsAsBefore
  <2>2. \A v \in Workers \ {w} : work'[v] = work[v]
    BY DEF Becomes
  <2> QED
    BY <1>1, <2>1, <2>2, QuietKeepsCount
<1> QED
  BY <1>2, <1>3, <1>4 DEF TransactionsInv

\* The same, of a request that is not in the initialization.
LEMMA QuietStepWithObjects ==
    ASSUME TransactionsInv, NEW w \in Workers, NEW r \in Request, Becomes(w, r),
           UNCHANGED <<cache, engine, factory, free>>,
           \A db \in Databases : r.object[db] \in {None, cache[db], w},
           r.pc = "bind" => engine[HereOf(r)][r.object[HereOf(r)]] # None,
           r.pc = "open" => factory[HereOf(r)][r.object[HereOf(r)]] # None,
           \/ r.held = {} /\ (work[w] = None \/ work[w].held = {})
           \/ /\ work[w] # None /\ r.held = work[w].held
              /\ r.object = work[w].object /\ r.engine = work[w].engine
    PROVE  TransactionsInv'
<1>1. ObjectsAreFound /\ TypeOK
  BY DEF TransactionsInv
<1>2. ObjectsAreFound'
  BY <1>1, ObjectsAreLeft
<1>3. /\ cache' \in [Databases -> Workers \union {None}]
      /\ engine' \in [Databases -> [Workers -> Workers \union {None}]]
      /\ factory' \in [Databases -> [Workers -> Workers \union {None}]]
      /\ UNCHANGED free
  BY <1>1 DEF TypeOK
<1> QED
  BY <1>2, <1>3, QuietStep

LEMMA EnteringHoldsNothing ==
    ASSUME TransactionsInv, NEW w \in Workers, NEW place \in Entering, At(w, place)
    PROVE  /\ work[w] # None /\ work[w].held = {}
           /\ \A db \in Databases : work[w].object[db] \in {None, cache[db], w}
<1>1. work[w] # None /\ work[w].pc \in Entering
  BY DEF At
<1>2. Placed(work[w])
  BY <1>1 DEF TransactionsInv, RequestsInv
<1> QED
  BY <1>1, <1>2, OwnObjects DEF Placed, TransactionsInv

LEMMA StartStep ==
    ASSUME TransactionsInv, NEW w \in Workers, NEW endpoint \in Endpoints,
           StartRequest(w, endpoint)
    PROVE  TransactionsInv'
<1>1. PICK r \in Request :
          /\ Becomes(w, r) /\ r.pc = "enter" /\ r.held = {}
          /\ \A db \in Databases : r.object[db] = None
  BY StartBecomes
<1>2. work[w] = None \/ work[w].held = {}
  <2> SUFFICES ASSUME work[w] # None PROVE work[w].held = {}
    OBVIOUS
  <2>1. Placed(work[w]) /\ work[w].pc = "answered" /\ work[w].held \in SUBSET Databases
    BY RequestShape DEF TransactionsInv, RequestsInv, StartRequest, Running
  <2>2. \A db : ~InSession(work[w], db)
    BY <2>1 DEF Placed, InSession, Depth, Entering
  <2> QED
    BY <2>1, <2>2 DEF Placed
<1>3. UNCHANGED <<cache, engine, factory, free>>
  BY DEF StartRequest
<1>4. r.pc # "bind" /\ r.pc # "open"
  BY <1>1
<1> QED
  BY <1>1, <1>2, <1>3, <1>4, QuietStepWithObjects

LEMMA ObjectStep ==
    ASSUME TransactionsInv, NEW w \in Workers, CacheHit(w) \/ Construct(w)
    PROVE  TransactionsInv'
<1>1. /\ TypeOK /\ RequestsInv /\ ObjectsAreFound /\ Running(w) /\ work[w] # None
      /\ work[w].held = {} /\ UNCHANGED <<engine, factory, free>>
      /\ At(w, "enter") \/ At(w, "construct")
  BY EnteringHoldsNothing
     DEF TransactionsInv, Running, At, Entering, CacheHit, Construct
<1>2. /\ Here(w) \in Databases /\ cache \in [Databases -> Workers \union {None}]
      /\ work[w].object \in [Databases -> Workers \union {None}]
  BY <1>1, RunningShape, RequestShape DEF TypeOK
<1>3. CASE CacheHit(w)
  <2>1. PICK o \in Workers : o = cache[Here(w)]
    BY <1>2, <1>3 DEF CacheHit
  <2>2. work' = [work EXCEPT ![w].object[Here(w)] = o, ![w].pc = "get_session"]
    BY <1>3, <2>1 DEF CacheHit
  <2>3. PICK r \in Request :
            /\ Becomes(w, r) /\ r.pc = "get_session" /\ r.held = {}
            /\ r.object = [work[w].object EXCEPT ![Here(w)] = o]
    BY <1>1, <2>2, ObjectBecomes
  <2>4. \A db \in Databases : r.object[db] \in {None, cache[db], w}
    <3>1. \A db \in Databases : r.object[db] = IF db = Here(w) THEN o ELSE work[w].object[db]
      BY <1>2, <2>3
    <3> QED
      BY <1>1, <2>1, <3>1, OwnObjects
  <2>5. UNCHANGED <<cache, engine, factory, free>> /\ r.pc # "bind" /\ r.pc # "open"
    BY <1>3, <2>3 DEF CacheHit
  <2> QED
    BY <1>1, <2>3, <2>4, <2>5, QuietStepWithObjects
<1>4. CASE Construct(w)
  <2>1. PICK r \in Request :
            /\ Becomes(w, r) /\ r.pc = "get_session" /\ r.held = {}
            /\ r.object = [work[w].object EXCEPT ![Here(w)] = w]
    BY <1>1, <1>4, ObjectBecomes DEF Construct
  <2>2. ObjectsAreFound' /\ cache' \in [Databases -> Workers \union {None}]
    BY <1>4, <2>1, ConstructKeepsObjects
  <2>3. /\ engine' \in [Databases -> [Workers -> Workers \union {None}]]
        /\ factory' \in [Databases -> [Workers -> Workers \union {None}]]
    BY <1>1 DEF TypeOK
  <2> QED
    BY <1>1, <2>1, <2>2, <2>3, QuietStep
<1> QED
  BY <1>3, <1>4

LEMMA GetStep ==
    ASSUME TransactionsInv, NEW w \in Workers, CacheMiss(w) \/ GetSession(w)
    PROVE  TransactionsInv'
<1>1. UNCHANGED <<cache, engine, factory, free>>
  BY DEF CacheMiss, GetSession
<1>2. CASE CacheMiss(w)
  <2>1. At(w, "enter") /\ work' = [work EXCEPT ![w].pc = "construct"]
    BY <1>2 DEF CacheMiss
  <2>2. PICK r \in Request :
            /\ Becomes(w, r) /\ r.pc = "construct" /\ r.held = {}
            /\ r.object = work[w].object
    BY <2>1, PlaceBecomes DEF Entering
  <2>3. r.pc # "bind" /\ r.pc # "open"
    BY <2>2
  <2>4. /\ work[w] # None /\ work[w].held = {}
        /\ \A db \in Databases : r.object[db] \in {None, cache[db], w}
    BY <2>1, <2>2, EnteringHoldsNothing DEF Entering
  <2> QED
    BY <1>1, <2>2, <2>3, <2>4, QuietStepWithObjects
<1>3. CASE GetSession(w)
  <2> DEFINE to == IF factory[Here(w)][Object(w)] = None THEN "initialize" ELSE "open"
  <2>1. At(w, "get_session") /\ work' = [work EXCEPT ![w].pc = to]
    BY <1>3 DEF GetSession
  <2>2. PICK place \in Entering : place = to
    BY DEF Entering
  <2>3. place \in {"initialize", "open"}
    BY <2>2
  <2>4. PICK r \in Request :
            /\ Becomes(w, r) /\ r.pc = place /\ r.held = {}
            /\ HereOf(r) = Here(w) /\ r.object = work[w].object
    BY <2>1, <2>2, <2>3, PlaceBecomes DEF Entering
  <2>5. /\ r.pc # "bind"
        /\ r.pc = "open" => factory[HereOf(r)][r.object[HereOf(r)]] # None
    BY <2>2, <2>3, <2>4 DEF Object
  <2>6. /\ work[w] # None /\ work[w].held = {}
        /\ \A db \in Databases : r.object[db] \in {None, cache[db], w}
    BY <2>1, <2>4, EnteringHoldsNothing DEF Entering
  <2> QED
    BY <1>1, <2>4, <2>5, <2>6, QuietStepWithObjects
<1> QED
  BY <1>2, <1>3

LEMMA InitializeStep ==
    ASSUME TransactionsInv, NEW w \in Workers, CreateEngine(w) \/ CreateFactory(w)
    PROVE  TransactionsInv'
<1>1. UNCHANGED <<cache, free>> /\ TypeOK
  BY DEF CreateEngine, CreateFactory, TransactionsInv
<1>2. PICK r \in Request :
          /\ Becomes(w, r) /\ r.held = {}
          /\ HereOf(r) = Here(w) /\ r.object = work[w].object
          /\ \/ CreateEngine(w) /\ r.pc = "bind"
             \/ CreateFactory(w) /\ r.pc = "open"
  <2>1. CASE CreateEngine(w)
    <3>1. At(w, "initialize") /\ work' = [work EXCEPT ![w].pc = "bind"]
      BY <2>1 DEF CreateEngine
    <3> QED
      BY <2>1, <3>1, PlaceBecomes DEF Entering
  <2>2. CASE CreateFactory(w)
    <3>1. At(w, "bind") /\ work' = [work EXCEPT ![w].pc = "open"]
      BY <2>2 DEF CreateFactory
    <3> QED
      BY <2>2, <3>1, PlaceBecomes DEF Entering
  <2> QED
    BY <2>1, <2>2
<1>3. /\ ObjectsAreFound'
      /\ engine' \in [Databases -> [Workers -> Workers \union {None}]]
      /\ factory' \in [Databases -> [Workers -> Workers \union {None}]]
  BY <1>2, InitializeKeepsObjects
<1>4. work[w] # None /\ work[w].held = {}
  BY EnteringHoldsNothing DEF CreateEngine, CreateFactory, Entering
<1>5. cache' \in [Databases -> Workers \union {None}]
  BY <1>1 DEF TypeOK
<1> QED
  BY <1>1, <1>2, <1>3, <1>4, <1>5, QuietStep

LEMMA SessionStep ==
    ASSUME TransactionsInv, NEW w \in Workers, OpenSession(w) \/ InitializeFails(w)
    PROVE  TransactionsInv'
<1>1. /\ UNCHANGED <<cache, engine, factory, free>>
      /\ Running(w) /\ TypeOK /\ RequestsInv
  BY DEF OpenSession, InitializeFails, TransactionsInv, Running, At
<1>2. /\ work[w] # None /\ work[w].held = {}
      /\ \A db \in Databases : work[w].object[db] \in {None, cache[db], w}
  BY EnteringHoldsNothing DEF OpenSession, InitializeFails, Entering
<1>3. /\ Here(w) \in Databases
      /\ work[w].object \in [Databases -> Workers \union {None}]
  BY <1>1, <1>2, RunningShape, RequestShape
<1>4. PICK r \in Request :
          /\ Becomes(w, r) /\ r.pc \in {"enter", "handler", "unwind", "answered"}
          /\ r.held = {}
          /\ \/ r.object = work[w].object
             \/ r.object = [work[w].object EXCEPT ![Here(w)] = None]
  <2>1. CASE OpenSession(w)
    BY <2>1, OpenBecomes
  <2>2. CASE InitializeFails(w)
    BY <2>2, InitializeFailsBecomes
  <2> QED
    BY <2>1, <2>2
<1>5. \A db \in Databases : r.object[db] \in {None, cache[db], w}
  BY <1>2, <1>3, <1>4
<1>6. r.pc # "bind" /\ r.pc # "open"
  BY <1>4
<1> QED
  BY <1>1, <1>2, <1>4, <1>5, <1>6, QuietStepWithObjects

LEMMA HandlerStep ==
    ASSUME TransactionsInv, NEW w \in Workers,
           PoolTimeout(w) \/ HandlerRaises(w) \/ HandlerReturns(w) \/ CommitFails(w)
    PROVE  TransactionsInv'
<1>1. PICK r \in Request :
          /\ Becomes(w, r) /\ r.pc \in {"commit", "unwind"} /\ r.held = work[w].held
          /\ r.object = work[w].object /\ r.engine = work[w].engine
  BY HandlerBecomes
<1>2. /\ UNCHANGED <<cache, engine, factory, free>> /\ work[w] # None
      /\ ObjectsAreFound
  BY DEF PoolTimeout, HandlerRaises, HandlerReturns, CommitFails, At, TransactionsInv
<1>3. \A db \in Databases : r.object[db] \in {None, cache[db], w}
  BY <1>1, <1>2, OwnObjects
<1>4. r.pc # "bind" /\ r.pc # "open"
  BY <1>1
<1> QED
  BY <1>1, <1>2, <1>3, <1>4, QuietStepWithObjects

LEMMA ConnectStep ==
    ASSUME TransactionsInv, NEW w \in Workers, Connect(w)
    PROVE  TransactionsInv'
<1>1. PICK r \in Request :
          Becomes(w, r) /\ r.pc = "handler" /\ r.object = work[w].object
  BY ConnectBecomes
<1>2. /\ UNCHANGED <<cache, engine, factory>> /\ work[w] # None
      /\ ObjectsAreFound /\ TypeOK /\ RequestsInv
  BY DEF Connect, At, TransactionsInv
<1>3. Counted' /\ free' \in [Pools -> 0..PoolSize]
  BY ConnectKeepsCount
<1>4. ObjectsAreFound'
  <2>1. \A db \in Databases : r.object[db] \in {None, cache[db], w}
    BY <1>1, <1>2, OwnObjects
  <2>2. r.pc # "bind" /\ r.pc # "open"
    BY <1>1
  <2> QED
    BY <1>1, <1>2, <2>1, <2>2, ObjectsAreLeft
<1>5. TypeOK'
  BY <1>1, <1>2, <1>3 DEF TypeOK, Becomes
<1>6. RequestsInv'
  BY <1>1, <1>2, BecomesKeepsRequests
<1> QED
  BY <1>3, <1>4, <1>5, <1>6 DEF TransactionsInv

LEMMA LeaveStep ==
    ASSUME TransactionsInv, NEW w \in Workers, Commit(w) \/ Unwind(w)
    PROVE  TransactionsInv'
<1>1. PICK r \in Request :
          /\ Becomes(w, r) /\ r.pc \in {"commit", "unwind", "answered"}
          /\ r.object = [work[w].object EXCEPT ![Here(w)] = None]
  BY LeaveBecomes
<1>2. UNCHANGED cache /\ TypeOK /\ RequestsInv
  BY DEF Commit, Unwind, TransactionsInv
<1>3. Counted' /\ free' \in [Pools -> 0..PoolSize]
  BY LeaveKeepsCount
<1>4. /\ ObjectsAreFound'
      /\ engine' \in [Databases -> [Workers -> Workers \union {None}]]
      /\ factory' \in [Databases -> [Workers -> Workers \union {None}]]
  BY <1>1, LeaveKeepsObjects
<1>5. TypeOK'
  BY <1>1, <1>2, <1>3, <1>4 DEF TypeOK, Becomes
<1>6. RequestsInv'
  BY <1>1, <1>2, BecomesKeepsRequests
<1> QED
  BY <1>3, <1>4, <1>5, <1>6 DEF TransactionsInv

LEMMA TransactionsStep == TransactionsInv /\ [Next]_vars => TransactionsInv'
<1> SUFFICES ASSUME TransactionsInv, [Next]_vars PROVE TransactionsInv'
  OBVIOUS
<1>1. CASE UNCHANGED vars
  <2>1. TypeOK' /\ RequestsInv'
    BY <1>1 DEF vars, TransactionsInv, TypeOK, RequestsInv
  <2>2. ObjectsAreFound' /\ Counted'
    BY <1>1 DEF vars, TransactionsInv, ObjectsAreFound, Counted, Holders, Holds,
                PoolOf, Here, Object
  <2> QED
    BY <2>1, <2>2 DEF TransactionsInv
<1>2. ASSUME NEW w \in Workers, NEW endpoint \in Endpoints, StartRequest(w, endpoint)
      PROVE  TransactionsInv'
  BY <1>2, StartStep
<1>3. ASSUME NEW w \in Workers, Proceed(w) PROVE TransactionsInv'
  BY <1>3, ObjectStep, GetStep, InitializeStep, SessionStep, HandlerStep, ConnectStep,
     LeaveStep DEF Proceed
<1>4. ASSUME NEW w \in Workers, Fail(w) PROVE TransactionsInv'
  BY <1>4, SessionStep, HandlerStep DEF Fail
<1> QED
  BY <1>1, <1>2, <1>3, <1>4 DEF Next

\* What the wrappers keep up, whatever the interleaving of the threads.
THEOREM TransactionsInvariant == Spec => []TransactionsInv
<1>1. Init => TransactionsInv
  BY TransactionsInit
<1>2. TransactionsInv /\ [Next]_vars => TransactionsInv'
  BY TransactionsStep
<1> QED
  BY <1>1, <1>2, PTL DEF Spec

-----------------------------------------------------------------------------
(* Theorems *)

\* Objects, pools and requests have their shapes; a pool never has more connections
\* than it may give out.
THEOREM TypeCorrect == Spec => []TypeOK
<1>1. TransactionsInv => TypeOK
  BY DEF TransactionsInv
<1> QED
  BY <1>1, TransactionsInvariant, PTL

\* A success is answered when all that was written is committed, an error when
\* nothing is, or when the answer to the commit itself was lost.
THEOREM AnswersTell == Spec => []AnswerTellsOutcome
<1>1. TransactionsInv => AnswerTellsOutcome
  BY DEF TransactionsInv, RequestsInv, Tells, AnswerTellsOutcome, At
<1> QED
  BY <1>1, TransactionsInvariant, PTL

\* Every connection a request does not hold is in the pool it was taken from, for
\* any number of threads, engines and connections.
THEOREM ConnectionsReturn == Spec => []ConnectionsAreReturned
<1>1. TransactionsInv => ConnectionsAreReturned
  BY CountedIsReturned DEF TransactionsInv
<1> QED
  BY <1>1, TransactionsInvariant, PTL

\* No session is opened without a factory that is bound to an engine, although
\* get_session and initialize are run by several threads without a lock.
THEOREM FactoriesComeFirst == Spec => []FactoryBeforeSession
<1>1. TransactionsInv => FactoryBeforeSession
  <2> SUFFICES ASSUME TransactionsInv, NEW w \in Workers, At(w, "open")
               PROVE  /\ factory[Here(w)][Object(w)] # None
                      /\ engine[Here(w)][Object(w)] # None
    BY DEF FactoryBeforeSession
  <2>1. Running(w) /\ TypeOK /\ RequestsInv /\ ObjectsAreFound
    BY DEF TransactionsInv, Running, At
  <2>2. Here(w) \in Databases /\ Object(w) \in Workers
    BY <2>1, RunningShape DEF Placed, Entering, Object, At
  <2> QED
    BY <2>1, <2>2 DEF ObjectsAreFound, At
<1> QED
  BY <1>1, TransactionsInvariant, PTL
=============================================================================
