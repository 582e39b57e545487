---------------------------- MODULE Transactions ----------------------------
(***************************************************************************)
(* The database sessions around the handlers: every request runs in a      *)
(* thread, inside the wrappers mysql_transaction and postgres_transaction, *)
(* which nest where a handler needs both databases.  A wrapper opens a     *)
(* session, creating the database object and its engine when they are not  *)
(* there yet, commits when the handler returns and rolls back when it      *)
(* raises; nothing is locked and there is no commit over both databases.   *)
(*                                                                         *)
(* A session takes a connection from the pool of its engine at its first   *)
(* query and keeps it until the commit or the rollback, whatever the       *)
(* handler waits for in between.  A pool that has no connection left lets  *)
(* a thread wait and raises after thirty seconds.                          *)
(*                                                                         *)
(* Definitions marked "Variant" are what a plausible bug would make of the  *)
(* definition that follows; they are kept to show which property notices.   *)
(***************************************************************************)
EXTENDS Integers, Sequences, FiniteSets

CONSTANTS
    Workers,     \* the threads that run requests
    PoolSize,    \* connections an engine's pool gives out at a time
    Faults,      \* "secret": Secrets Manager fails;  "commit": a commit raises
    None

ASSUME PoolAssumption == PoolSize \in Nat \ {0}

ASSUME FaultAssumption == Faults \subseteq {"secret", "commit"}

ASSUME WorkerAssumption == IsFiniteSet(Workers) /\ None \notin Workers

Databases == {"mysql", "postgres"}

VARIABLES
    cache,     \* lru_cache: per database its object, named by who constructed it
    engine,    \* _engine of the object, named by the worker that created it
    factory,   \* _session_local of the object: the engine it is bound to
    free,      \* per pool, the connections it has to give
    work       \* per worker: the request it runs, or has answered last

vars == <<cache, engine, factory, free, work>>

\* A pool belongs to an engine, an engine to an object of a database.
Pools == [db : Databases, object : Workers, engine : Workers]

(***************************************************************************)
(* The three kinds of endpoints: those of faces, the payment with a face,  *)
(* and all others, which use MySQL only.  What matters of an endpoint is   *)
(* how its wrappers nest (the outermost first), in which order its handler *)
(* turns to the databases, and which of them it writes.                    *)
(***************************************************************************)
Endpoints == {"face", "payment_from_face", "mysql_only"}

\* Variant: the wrappers of the payment with a face the other way round.
NestingUniform(endpoint) ==
    IF endpoint = "mysql_only" THEN <<"mysql">> ELSE <<"postgres", "mysql">>

Nesting(endpoint) ==
    CASE endpoint = "face" -> <<"postgres", "mysql">>
      [] endpoint = "payment_from_face" -> <<"mysql", "postgres">>
      [] endpoint = "mysql_only" -> <<"mysql">>

\* A face endpoint looks up the user first, a payment the nearest face.
QueryOrder(endpoint) ==
    CASE endpoint = "face" -> <<"mysql", "postgres">>
      [] endpoint = "payment_from_face" -> <<"postgres", "mysql">>
      [] endpoint = "mysql_only" -> <<"mysql">>

Writes(endpoint) == IF endpoint = "face" THEN {"postgres"} ELSE {"mysql"}

Init ==
    /\ cache = [db \in Databases |-> None]
    /\ engine = [db \in Databases |-> [object \in Workers |-> None]]
    /\ factory = [db \in Databases |-> [object \in Workers |-> None]]
    /\ free = [pool \in Pools |-> PoolSize]
    /\ work = [w \in Workers |-> None]

-----------------------------------------------------------------------------
(* A request and its way through the wrappers. *)

Running(w) == work[w] # None /\ work[w].pc # "answered"
At(w, pc) == work[w] # None /\ work[w].pc = pc

\* The database of the wrapper the request is in, and the object it has got.
Here(w) == Nesting(work[w].endpoint)[work[w].level]
Object(w) == work[w].object[Here(w)]

\* The pool of the session the request has opened on a database.
PoolOf(w, db) ==
    [db |-> db, object |-> work[w].object[db], engine |-> work[w].engine[db]]

StartRequest(w, endpoint) ==
    /\ ~Running(w)
    /\ work' = [work EXCEPT ![w] =
            [endpoint |-> endpoint, pc |-> "enter", level |-> 1,
             object |-> [db \in Databases |-> None],
             engine |-> [db \in Databases |-> None],
             held |-> {}, queries |-> 0, committed |-> {},
             raised |-> FALSE, inDoubt |-> FALSE]]
    /\ UNCHANGED <<cache, engine, factory, free>>

-----------------------------------------------------------------------------
(* get_mysql_db, get_postgres_db: lru_cache does not hold its lock while the *)
(* object is constructed.  Whoever comes second keeps its own object for     *)
(* this request; the cache keeps the first.                                  *)

CacheHit(w) ==
    /\ At(w, "enter")
    /\ cache[Here(w)] # None
    /\ work' = [work EXCEPT ![w].object[Here(w)] = cache[Here(w)],
                            ![w].pc = "get_session"]
    /\ UNCHANGED <<cache, engine, factory, free>>

CacheMiss(w) ==
    /\ At(w, "enter")
    /\ cache[Here(w)] = None
    /\ work' = [work EXCEPT ![w].pc = "construct"]
    /\ UNCHANGED <<cache, engine, factory, free>>

Construct(w) ==
    /\ At(w, "construct")
    /\ cache' = [cache EXCEPT ![Here(w)] = IF @ = None THEN w ELSE @]
    /\ work' = [work EXCEPT ![w].object[Here(w)] = w, ![w].pc = "get_session"]
    /\ UNCHANGED <<engine, factory, free>>

-----------------------------------------------------------------------------
(* get_session and initialize, which several threads may run at a time. *)

\* Variant: whether to initialize is read off the engine.
GetSessionByEngine(w) ==
    /\ At(w, "get_session")
    /\ work' = [work EXCEPT ![w].pc =
            IF engine[Here(w)][Object(w)] = None THEN "initialize" ELSE "open"]
    /\ UNCHANGED <<cache, engine, factory, free>>

\* Variant: every session initializes.
GetSessionAlways(w) ==
    /\ At(w, "get_session")
    /\ work' = [work EXCEPT ![w].pc = "initialize"]
    /\ UNCHANGED <<cache, engine, factory, free>>

GetSession(w) ==
    /\ At(w, "get_session")
    /\ work' = [work EXCEPT ![w].pc =
            IF factory[Here(w)][Object(w)] = None THEN "initialize" ELSE "open"]
    /\ UNCHANGED <<cache, engine, factory, free>>

CreateEngine(w) ==
    /\ At(w, "initialize")
    /\ engine' = [engine EXCEPT ![Here(w)][Object(w)] = w]
    /\ work' = [work EXCEPT ![w].pc = "bind"]
    /\ UNCHANGED <<cache, factory, free>>

\* sessionmaker(bind=self._engine): the engine that is there now, which another
\* thread may have created.
CreateFactory(w) ==
    /\ At(w, "bind")
    /\ factory' = [factory EXCEPT ![Here(w)][Object(w)] = engine[Here(w)][Object(w)]]
    /\ work' = [work EXCEPT ![w].pc = "open"]
    /\ UNCHANGED <<cache, engine, free>>

\* The request goes on to the next wrapper, from the innermost to the handler.
OpenSession(w) ==
    LET inner == work[w].level < Len(Nesting(work[w].endpoint))
    IN  /\ At(w, "open")
        /\ factory[Here(w)][Object(w)] # None
        /\ work' = [work EXCEPT
                ![w].engine[Here(w)] = factory[Here(w)][Object(w)],
                ![w].level = IF inner THEN @ + 1 ELSE @,
                ![w].pc = IF inner THEN "enter" ELSE "handler"]
        /\ UNCHANGED <<cache, engine, factory, free>>

\* get_secret raises inside get_session: this wrapper has no session to roll
\* back, the exception goes on to the one around it.
InitializeFails(w) ==
    /\ "secret" \in Faults
    /\ At(w, "initialize")
    /\ work' = [work EXCEPT
            ![w].object[Here(w)] = None, ![w].level = @ - 1, ![w].raised = TRUE,
            ![w].pc = IF work[w].level = 1 THEN "answered" ELSE "unwind"]
    /\ UNCHANGED <<cache, engine, factory, free>>

-----------------------------------------------------------------------------
(* The handler. *)

MoreQueries(w) == work[w].queries < Len(QueryOrder(work[w].endpoint))
NextDatabase(w) == QueryOrder(work[w].endpoint)[work[w].queries + 1]

Raise(w) == work' = [work EXCEPT ![w].raised = TRUE, ![w].pc = "unwind"]

\* The first query of a session takes a connection.
Connect(w) ==
    /\ At(w, "handler") /\ MoreQueries(w)
    /\ free[PoolOf(w, NextDatabase(w))] > 0
    /\ free' = [free EXCEPT ![PoolOf(w, NextDatabase(w))] = @ - 1]
    /\ work' = [work EXCEPT ![w].held = @ \union {NextDatabase(w)},
                            ![w].queries = @ + 1]
    /\ UNCHANGED <<cache, engine, factory>>

\* Variant: a thread waits for a connection without a limit.
PoolTimeoutNever(w) == FALSE /\ UNCHANGED vars

PoolTimeout(w) ==
    /\ At(w, "handler") /\ MoreQueries(w)
    /\ free[PoolOf(w, NextDatabase(w))] = 0
    /\ Raise(w)
    /\ UNCHANGED <<cache, engine, factory, free>>

\* Anything the handler refuses or fails at, which its controller turns into an
\* HTTP exception.
HandlerRaises(w) ==
    /\ At(w, "handler")
    /\ Raise(w)
    /\ UNCHANGED <<cache, engine, factory, free>>

HandlerReturns(w) ==
    /\ At(w, "handler") /\ ~MoreQueries(w)
    /\ work' = [work EXCEPT ![w].pc = "commit"]
    /\ UNCHANGED <<cache, engine, factory, free>>

-----------------------------------------------------------------------------
(* The way back through the wrappers, from the innermost one outwards. *)

\* Variant: a connection is given back whether or not the session had one.
GiveBackAlways(w) == free' = [free EXCEPT ![PoolOf(w, Here(w))] = @ + 1]

\* close, and before it commit or rollback, give the session's connection back.
GiveBack(w) ==
    free' = IF Here(w) \in work[w].held
            THEN [free EXCEPT ![PoolOf(w, Here(w))] = @ + 1]
            ELSE free

\* An object that lost the race for the cache goes with the request it served, and
\* its engine with it.
DropPrivateObject(w) ==
    IF Object(w) = cache[Here(w)]
    THEN UNCHANGED <<engine, factory>>
    ELSE /\ engine' = [engine EXCEPT ![Here(w)][Object(w)] = None]
         /\ factory' = [factory EXCEPT ![Here(w)][Object(w)] = None]

\* The session is gone, and the thread goes on in the wrapper around this one.
Leave(w, committed) ==
    work' = [work EXCEPT
            ![w].committed = committed,
            ![w].held = @ \ {Here(w)},
            ![w].object[Here(w)] = None,
            ![w].engine[Here(w)] = None,
            ![w].level = @ - 1,
            ![w].queries = 0,
            ![w].pc = IF work[w].level = 1 THEN "answered" ELSE @]

Committed(w) == work[w].committed \union ({Here(w)} \intersect Writes(work[w].endpoint))

Commit(w) ==
    /\ At(w, "commit")
    /\ GiveBack(w)
    /\ Leave(w, Committed(w))
    /\ DropPrivateObject(w)
    /\ UNCHANGED cache

\* The connection breaks at the commit, before or after the database has done it.
CommitFails(w) ==
    /\ "commit" \in Faults
    /\ At(w, "commit")
    /\ Here(w) \in work[w].held
    /\ \E done \in BOOLEAN :
            work' = [work EXCEPT
                    ![w].committed = IF done THEN Committed(w) ELSE @,
                    ![w].inDoubt = done,
                    ![w].raised = TRUE,
                    ![w].pc = "unwind"]
    /\ UNCHANGED <<cache, engine, factory, free>>

\* Variant: an exception passes through a wrapper that neither rolls back nor
\* closes.
UnwindOnly(w) ==
    /\ At(w, "unwind")
    /\ Leave(w, work[w].committed)
    /\ DropPrivateObject(w)
    /\ UNCHANGED <<cache, free>>

\* rollback, close, raise.
Unwind(w) ==
    /\ At(w, "unwind")
    /\ GiveBack(w)
    /\ Leave(w, work[w].committed)
    /\ DropPrivateObject(w)
    /\ UNCHANGED cache

-----------------------------------------------------------------------------

\* What a thread does as long as nothing fails; waiting for a connection ends
\* with the connection or with the pool's timeout.
Proceed(w) ==
    \/ CacheHit(w) \/ CacheMiss(w) \/ Construct(w)
    \/ GetSession(w) \/ CreateEngine(w) \/ CreateFactory(w) \/ OpenSession(w)
    \/ Connect(w) \/ PoolTimeout(w) \/ HandlerReturns(w)
    \/ Commit(w) \/ Unwind(w)

Fail(w) == InitializeFails(w) \/ HandlerRaises(w) \/ CommitFails(w)

Next ==
    \E w \in Workers :
        \/ \E endpoint \in Endpoints : StartRequest(w, endpoint)
        \/ Proceed(w)
        \/ Fail(w)

Spec == Init /\ [][Next]_vars

\* A thread that has something to do is scheduled again.  Nobody has to send a
\* request and nothing has to fail.
FairSpec == Spec /\ \A w \in Workers : WF_vars(Proceed(w))

-----------------------------------------------------------------------------
(* Properties *)

Request == [endpoint : Endpoints,
            pc : {"enter", "construct", "get_session", "initialize", "bind",
                  "open", "handler", "commit", "unwind", "answered"},
            level : 0..2,
            object : [Databases -> Workers \union {None}],
            engine : [Databases -> Workers \union {None}],
            held : SUBSET Databases, queries : 0..2,
            committed : SUBSET Databases, raised : BOOLEAN, inDoubt : BOOLEAN]

ASSUME NoneAssumption == None \notin Request

\* Database objects, pools and requests have their shapes; a pool never has more
\* connections than it may give out.
TypeOK ==
    /\ cache \in [Databases -> Workers \union {None}]
    /\ engine \in [Databases -> [Workers -> Workers \union {None}]]
    /\ factory \in [Databases -> [Workers -> Workers \union {None}]]
    /\ free \in [Pools -> 0..PoolSize]
    /\ work \in [Workers -> Request \union {None}]

\* A success is only answered when everything the handler wrote is committed, and
\* an error only when nothing is (unless the very answer to the commit was lost):
\* the wrappers nest so that the only database written commits last.
AnswerTellsOutcome ==
    \A w \in Workers : At(w, "answered") =>
        LET request == work[w]
        IN  IF request.raised
            THEN request.committed = {} \/ request.inDoubt
            ELSE request.committed = Writes(request.endpoint)

\* However a request ends, and whichever of several engines its sessions were
\* opened on during start-up, the connections come back to the pool they are from.
ConnectionsAreReturned ==
    \A pool \in Pools :
        free[pool] + Cardinality({w \in Workers : \E db \in Databases :
            Running(w) /\ db \in work[w].held /\ PoolOf(w, db) = pool}) = PoolSize

\* However the first requests interleave in initialize, none of them opens a
\* session before there is a factory, and it is bound to an engine.
FactoryBeforeSession ==
    \A w \in Workers : At(w, "open") =>
        /\ factory[Here(w)][Object(w)] # None
        /\ engine[Here(w)][Object(w)] # None

\* Every request is answered, also when two of them hold the last connections of
\* MySQL and of PostgreSQL and each waits for the other's.
EveryRequestEnds == \A w \in Workers : Running(w) ~> At(w, "answered")

\* Start-up ends: from some time on all sessions are opened on the same engines,
\* so that the limit of the pool is a limit at all.
EnginesSettle == <>[][UNCHANGED <<cache, engine, factory>>]_vars
=============================================================================
