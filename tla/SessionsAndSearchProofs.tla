--------------------------- MODULE SessionsAndSearchProofs ---------------------------
(***************************************************************************)
(* Proofs about the two modules of what a transaction of _with_rls runs    *)
(* under: about Sessions, the pool and the grants of its caller, for       *)
(* pools, databases, grants and numbers of requests of any size; and about *)
(* VectorSearch, the indexes and hnsw.ef_search of a search, for any       *)
(* collections and finite table, any query bodies, any indexes and any     *)
(* configuration of pools.                                                 *)
(***************************************************************************)
EXTENDS Sessions, VectorSearch, FiniteSetTheorems, WellFoundedInduction, TLAPS

-----------------------------------------------------------------------------
(* Sessions.                                                               *)

\* A connection's state between the steps of a transaction.
LEMMA SettingsAreSet ==
    ASSUME NEW a \in SUBSET Grants
    PROVE  SettingsOf(a) # None /\ SettingsOf(a) \in [authz : SUBSET Grants, names : SUBSET Grants, timeout : {TRUE}]
BY NoneAssumption DEF SettingsOf

LEMMA BlankConnections == Absent \in ConnType /\ Opened \in ConnType /\ ClosePool \in [Conns -> ConnType]
BY DEF Absent, Opened, ConnType, ClosePool

LEMMA IdleIsTyped == Idle \in RequestType
BY MaxTxAssumption DEF Idle, Handler, RequestType

\* A handler's record stays one when it takes a connection, runs a statement, has
\* an outcome or goes on waiting.
LEMMA Taking ==
    \A q \in RequestType, c \in Conns \cup {None} : [q EXCEPT !.pc = "begun", !.conn = c] \in RequestType
<1> SUFFICES ASSUME NEW q \in RequestType, NEW c \in Conns \cup {None}
             PROVE  [q EXCEPT !.pc = "begun", !.conn = c] \in RequestType
  OBVIOUS
<1> DEFINE y == [q EXCEPT !.pc = "begun"]
<1>1. y \in RequestType
  BY DEF RequestType
<1> HIDE DEF y
<1>2. [y EXCEPT !.conn = c] \in RequestType
  BY <1>1 DEF RequestType
<1> QED BY <1>2 DEF y

LEMMA Running ==
    \A q \in RequestType, t \in Tables \cup {None}, w \in Grants \cup {None} :
        [q EXCEPT !.pc = "running", !.table = t, !.write = w] \in RequestType
<1> SUFFICES ASSUME NEW q \in RequestType, NEW t \in Tables \cup {None}, NEW w \in Grants \cup {None}
             PROVE  [q EXCEPT !.pc = "running", !.table = t, !.write = w] \in RequestType
  OBVIOUS
<1> DEFINE y == [q EXCEPT !.pc = "running"]
<1> DEFINE z == [y EXCEPT !.table = t]
<1>1. y \in RequestType
  BY DEF RequestType
<1> HIDE DEF y
<1>2. z \in RequestType
  BY <1>1 DEF RequestType
<1> HIDE DEF z
<1>3. [z EXCEPT !.write = w] \in RequestType
  BY <1>2 DEF RequestType
<1> QED BY <1>3 DEF y, z

LEMMA Ending ==
    \A q \in RequestType, s \in {"ok", "denied", "fault"} : [q EXCEPT !.pc = "ran", !.status = s] \in RequestType
<1> SUFFICES ASSUME NEW q \in RequestType, NEW s \in {"ok", "denied", "fault"}
             PROVE  [q EXCEPT !.pc = "ran", !.status = s] \in RequestType
  OBVIOUS
<1> DEFINE y == [q EXCEPT !.pc = "ran"]
<1>1. y \in RequestType
  BY DEF RequestType
<1> HIDE DEF y
<1>2. [y EXCEPT !.status = s] \in RequestType
  BY <1>1 DEF RequestType
<1> QED BY <1>2 DEF y

LEMMA Waiting == \A a \in SUBSET Grants, n \in 0..MaxTx : Handler("wait", a, n) \in RequestType
BY DEF Handler, RequestType

\* A statement ends well, refused or at fault.
LEMMA ResultIsTyped == \A r, timedOut : Result(r, timedOut) \in {"ok", "denied", "fault"}
BY DEF Result, Outcome, DenialStatus

-----------------------------------------------------------------------------
LEMMA InitTyped == Init => TypeOK
BY DatabasesAssumption, BlankConnections, IdleIsTyped DEF Init, TypeOK

LEMMA StepTyped ==
    ASSUME TypeOK, [Next]_vars
    PROVE  TypeOK'
<1>1. CASE Lifespan
  <2>1. CASE CreatePool
    BY <2>1, BlankConnections DEF TypeOK, CreatePool
  <2>2. CASE CheckDbConnection
    BY <2>2, BlankConnections DEF TypeOK, CheckDbConnection, Down
  <2>3. CASE StartServing
    BY <2>3 DEF TypeOK, StartServing
  <2>4. CASE StartupFails
    BY <2>4, BlankConnections DEF TypeOK, StartupFails, Down
  <2>5. CASE Stop
    BY <2>5, BlankConnections DEF TypeOK, Stop, Down
  <2>6. ASSUME NEW d \in Databases, Migrate(d) PROVE TypeOK'
    BY <2>6, DatabasesAssumption DEF TypeOK, Migrate
  <2> QED BY <1>1, <2>1, <2>2, <2>3, <2>4, <2>5, <2>6 DEF Lifespan
<1>2. ASSUME NEW r \in Requests, NEW allowed \in SUBSET Grants, NEW n \in 1..MaxTx, Arrive(r, allowed, n)
      PROVE  TypeOK'
  <2>1. Handler("wait", allowed, n) \in RequestType
    <3>1. n \in 0..MaxTx
      BY MaxTxAssumption
    <3> QED BY <3>1, Waiting
  <2> QED BY <1>2, <2>1 DEF TypeOK, Arrive
<1>3. ASSUME NEW r \in Requests, NEW c \in Conns, Acquire(r, c) PROVE TypeOK'
  <2>1. [conn[c] EXCEPT !.state = "held"] \in ConnType
    BY DEF TypeOK, ConnType
  <2>2. [req[r] EXCEPT !.pc = "begun", !.conn = c] \in RequestType
    <3>1. req[r] \in RequestType
      BY DEF TypeOK
    <3>2. c \in Conns \cup {None}
      OBVIOUS
    <3> QED BY <3>1, <3>2, Taking
  <2> QED BY <1>3, <2>1, <2>2 DEF TypeOK, Acquire
<1>4. ASSUME NEW r \in Requests, SetConfig(r) PROVE TypeOK'
  <2>1. req[r] \in RequestType
    BY DEF TypeOK
  <2>2. [req[r] EXCEPT !.pc = "set"] \in RequestType /\ req[r].allowed \in SUBSET Grants
    BY <2>1 DEF RequestType
  <2>3. ASSUME req[r].conn \in Conns
        PROVE  [conn[req[r].conn] EXCEPT !.local = SettingsOf(req[r].allowed)] \in ConnType
    <3>1. conn[req[r].conn] \in ConnType
      BY <2>3 DEF TypeOK
    <3>2. SettingsOf(req[r].allowed) \in [authz : SUBSET Grants, names : SUBSET Grants, timeout : {TRUE}]
      BY <2>2, SettingsAreSet
    <3> QED BY <3>1, <3>2 DEF ConnType
  <2>4. conn' \in [Conns -> ConnType]
    BY <1>4, <2>3 DEF TypeOK, SetConfig, SetLocal
  <2> QED BY <1>4, <2>2, <2>4 DEF TypeOK, SetConfig
<1>5. ASSUME NEW r \in Requests, NEW t \in Tables, NEW w \in Grants \cup {None}, Run(r, t, w)
      PROVE  TypeOK'
  <2>1. [req[r] EXCEPT !.pc = "running", !.table = t, !.write = w] \in RequestType
    <3>1. req[r] \in RequestType
      BY DEF TypeOK
    <3>2. t \in Tables \cup {None}
      OBVIOUS
    <3> QED BY <3>1, <3>2, Running
  <2> QED BY <1>5, <2>1 DEF TypeOK, Run
<1>6. ASSUME NEW r \in Requests, EndTransaction(r) PROVE TypeOK'
  <2>1. [req[r] EXCEPT !.pc = "ended"] \in RequestType
    <3>1. req[r] \in RequestType
      BY DEF TypeOK
    <3> QED BY <3>1 DEF RequestType
  <2>2. ASSUME req[r].conn \in Conns PROVE [conn[req[r].conn] EXCEPT !.local = None] \in ConnType
    BY <2>2 DEF TypeOK, ConnType
  <2> QED BY <1>6, <2>1, <2>2 DEF TypeOK, EndTransaction
<1>7. ASSUME NEW r \in Requests, Release(r) PROVE TypeOK'
  <2>1. req[r] \in RequestType
    BY DEF TypeOK
  <2>2. req[r].left > 1 =>
            Handler("wait", req[r].allowed, req[r].left - 1) \in RequestType
    <3>1. req[r].allowed \in SUBSET Grants /\ (req[r].left > 1 => req[r].left - 1 \in 0..MaxTx)
      BY <2>1, MaxTxAssumption DEF RequestType
    <3> QED BY <3>1, Waiting
  <2>3. conn' \in [Conns -> ConnType]
    BY <1>7, BlankConnections DEF TypeOK, Release, Released
  <2>4. req' \in [Requests -> RequestType] /\ queue' \in Seq(Requests)
    BY <1>7, <2>2, IdleIsTyped DEF TypeOK, Release
  <2> QED BY <1>7, <2>3, <2>4 DEF TypeOK, Release
<1>8. ASSUME NEW r \in Requests, NEW timedOut \in BOOLEAN, QueryEnds(r, timedOut) PROVE TypeOK'
  <2>1. [req[r] EXCEPT !.pc = "ran", !.status = Result(r, timedOut)] \in RequestType
    <3>1. req[r] \in RequestType
      BY DEF TypeOK
    <3> QED BY <3>1, ResultIsTyped, Ending
  <2> QED BY <1>8, <2>1 DEF TypeOK, QueryEnds
<1>9. ASSUME NEW r \in Requests, ConnectionLost(r) PROVE TypeOK'
  BY <1>9, BlankConnections, IdleIsTyped DEF TypeOK, ConnectionLost
<1>10. CASE UNCHANGED vars
  BY <1>10 DEF TypeOK, vars
<1> QED BY <1>1, <1>2, <1>3, <1>4, <1>5, <1>6, <1>7, <1>8, <1>9, <1>10 DEF Next, Transaction

\* The pool's connections, their settings and the handlers stay well-typed; every
\* setting that is in force inside a transaction brings its timeout.
THEOREM TypeCorrect == Spec => []TypeOK
BY InitTyped, StepTyped, PTL DEF Spec

-----------------------------------------------------------------------------
\* What holds between the steps.  A connection belongs to one request, carries that
\* request's settings from SetConfig to the end of the transaction and nobody's at
\* any other time; requests run only on a database that passed the checks.
Holding == {"begun", "set", "running", "ran", "ended"}
InTransaction == {"set", "running", "ran"}

Checked == phase \in {"discover", "serving"} => RoleIsRight /\ (SkipAuth \/ RlsIsInForce)
OnlyServed == \A r \in Requests : req[r].pc # "idle" => phase = "serving"
Held ==
    \A r \in Requests :
        IF req[r].pc \in Holding THEN req[r].conn \in Conns /\ conn[req[r].conn].state = "held"
        ELSE req[r].conn = None
Apart == \A r, q \in Requests : req[r].conn # None /\ req[r].conn = req[q].conn => r = q
Carried ==
    \A r \in Requests : req[r].pc \in InTransaction => conn[req[r].conn].local = SettingsOf(req[r].allowed)
Blank ==
    \A c \in Conns : conn[c].local # None => \E r \in Requests : req[r].conn = c /\ req[r].pc \in InTransaction
Owned == \A c \in Conns : conn[c].state = "held" => \E r \in Requests : req[r].conn = c
Closed == phase = "down" => \A c \in Conns : conn[c].state = "absent"
Skipping == SkipAuth => \A r \in Requests : req[r].allowed = {}
Named == \A r \in Requests : req[r].pc = "running" => req[r].table \in Tables

Pooled == Held /\ Apart /\ Carried /\ Blank /\ Owned
IInv ==
    TypeOK /\ Checked /\ OnlyServed /\ Pooled /\ Closed /\ Skipping /\ Named /\ DenialsAreTheCallers

\* A step of one request that leaves the other requests and their connections alone
\* keeps the pool in order if it does so for its own.
LEMMA PoolIsKept ==
    ASSUME TypeOK, Pooled, NEW r \in Requests, NEW c \in Conns,
           conn' \in [Conns -> ConnType],
           \A q \in Requests \ {r} : req'[q] = req[q] /\ req[q].conn # c,
           \A d \in Conns \ {c} : conn'[d] = conn[d],
           req[r].conn \in {None, c}, req'[r].conn \in {None, c},
           IF req'[r].pc \in Holding THEN req'[r].conn = c /\ conn'[c].state = "held"
           ELSE req'[r].conn = None /\ conn'[c].state # "held",
           IF req'[r].pc \in InTransaction THEN conn'[c].local = SettingsOf(req'[r].allowed)
           ELSE conn'[c].local = None
    PROVE  Pooled'
<1>1. Held'
  BY NoneAssumption DEF Pooled, Held
<1>2. Apart'
  BY NoneAssumption DEF Pooled, Apart
<1>3. Carried'
  <2> SUFFICES ASSUME NEW q \in Requests, req'[q].pc \in InTransaction
               PROVE  conn'[req'[q].conn].local = SettingsOf(req'[q].allowed)
    BY DEF Carried
  <2>1. CASE q = r
    BY <2>1 DEF Holding, InTransaction
  <2>2. CASE q # r
    BY <2>2 DEF Pooled, Held, Carried, Holding, InTransaction
  <2> QED BY <2>1, <2>2
<1>4. Blank'
  <2> SUFFICES ASSUME NEW d \in Conns, conn'[d].local # None
               PROVE  \E q \in Requests : req'[q].conn = d /\ req'[q].pc \in InTransaction
    BY DEF Blank
  <2>1. CASE d = c
    BY <2>1 DEF Holding, InTransaction
  <2>2. CASE d # c
    BY <2>2, NoneAssumption DEF Pooled, Blank
  <2> QED BY <2>1, <2>2
<1>5. Owned'
  <2> SUFFICES ASSUME NEW d \in Conns, conn'[d].state = "held"
               PROVE  \E q \in Requests : req'[q].conn = d
    BY DEF Owned
  <2>1. CASE d = c
    BY <2>1
  <2>2. CASE d # c
    BY <2>2, NoneAssumption DEF Pooled, Owned
  <2> QED BY <2>1, <2>2
<1> QED BY <1>1, <1>2, <1>3, <1>4, <1>5 DEF Pooled

\* A request that has no connection and takes none leaves the pool as it is.
LEMMA PoolIsLeft ==
    ASSUME TypeOK, Pooled, NEW r \in Requests, UNCHANGED conn,
           \A q \in Requests \ {r} : req'[q] = req[q],
           req[r].conn = None, req'[r].conn = None, req'[r].pc \notin Holding
    PROVE  Pooled'
<1>1. Held'
  BY DEF Pooled, Held
<1>2. Apart'
  BY DEF Pooled, Apart
<1>3. Carried'
  BY DEF Pooled, Carried, Holding, InTransaction
<1>4. Blank'
  BY NoneAssumption DEF Pooled, Blank
<1>5. Owned'
  BY NoneAssumption DEF Pooled, Owned
<1> QED BY <1>1, <1>2, <1>3, <1>4, <1>5 DEF Pooled

\* Nothing is held while no request is served.
LEMMA NothingHeld ==
    ASSUME TypeOK, Pooled, OnlyServed, phase # "serving"
    PROVE  \A r \in Requests : req[r].pc = "idle" /\ req[r].conn = None
BY DEF OnlyServed, Pooled, Held, Holding

\* Opening or closing connections nobody holds leaves the pool in order.
LEMMA PoolOfNobody ==
    ASSUME Pooled, NEW f \in [Conns -> ConnType], conn' = f, UNCHANGED req,
           \A r \in Requests : req[r].pc = "idle" /\ req[r].conn = None,
           \A c \in Conns : f[c] = conn[c] \/ f[c] = Absent \/ f[c] = Opened
    PROVE  Pooled'
<1>1. Held' /\ Apart'
  BY DEF Held, Apart, Holding
<1>2. Carried'
  BY DEF Carried, InTransaction
<1>3. Blank' /\ Owned'
  BY NoneAssumption DEF Blank, Owned, Absent, Opened, Pooled, InTransaction
<1> QED BY <1>1, <1>2, <1>3 DEF Pooled

LEMMA LifespanKeepsIInv ==
    ASSUME IInv, TypeOK', Lifespan
    PROVE  IInv'
<1>1. Skipping' /\ Named' /\ DenialsAreTheCallers' /\ UNCHANGED req
  BY DEF IInv, Skipping, Named, DenialsAreTheCallers, Lifespan, CreatePool, CheckDbConnection, StartServing, StartupFails, Stop,
         Migrate, Down
<1>2. CASE CreatePool \/ CheckDbConnection \/ StartServing \/ StartupFails \/ Stop
  <2>1. UNCHANGED db
    BY <1>2 DEF CreatePool, CheckDbConnection, StartServing, StartupFails, Stop
  <2>2. Checked'
    BY <1>2, <2>1
    DEF IInv, Checked, RoleIsRight, Bypasses, RlsIsInForce, CreatePool, CheckDbConnection, StartServing,
        StartupFails, Stop, Down
  <2>3. \A r \in Requests : req[r].pc = "idle" /\ req[r].conn = None
    BY <1>2, NothingHeld DEF IInv, CreatePool, CheckDbConnection, StartServing, StartupFails, Stop, Idle, Handler
  <2>4. OnlyServed'
    BY <1>1, <2>3 DEF OnlyServed
  <2>5. \A c \in Conns : conn'[c] = conn[c] \/ conn'[c] = Absent \/ conn'[c] = Opened
    BY <1>2
    DEF IInv, TypeOK, CreatePool, CheckDbConnection, StartServing, StartupFails, Stop, Down, ClosePool
  <2>6. Pooled'
    BY <1>1, <2>3, <2>5, PoolOfNobody DEF IInv, TypeOK
  <2>7. Closed'
    BY <1>2
    DEF IInv, Closed, CreatePool, CheckDbConnection, StartServing, StartupFails, Stop, Down, ClosePool, Absent
  <2> QED BY <1>1, <2>2, <2>4, <2>6, <2>7 DEF IInv
<1>3. ASSUME NEW d \in Databases, Migrate(d) PROVE IInv'
  BY <1>1, <1>3
  DEF IInv, Migrate, Checked, OnlyServed, Pooled, Held, Apart, Carried, Blank, Owned, Closed
<1> QED BY <1>2, <1>3 DEF Lifespan

\* The settings of the transaction and the checks of the startup together: a
\* statement sees its caller's rows.
LEMMA VisibleRows == IInv => QueriesSeeTheirRows
<1> SUFFICES ASSUME IInv, NEW r \in Requests, req[r].pc = "running"
             PROVE  Visible(req[r].table, Effective(req[r].conn)) = IF SkipAuth THEN Grants ELSE req[r].allowed
  BY DEF QueriesSeeTheirRows
<1>1. /\ req[r].table \in Tables /\ req[r].conn \in Conns /\ req[r].allowed \in SUBSET Grants
      /\ RoleIsRight /\ (SkipAuth \/ RlsIsInForce)
      /\ conn[req[r].conn].local = SettingsOf(req[r].allowed)
  BY DEF IInv, Named, OnlyServed, Checked, Pooled, Held, Carried, Holding, InTransaction, TypeOK, RequestType
<1>2. Effective(req[r].conn) = SettingsOf(req[r].allowed)
  BY <1>1, SettingsAreSet DEF Effective
<1>3. PolicyRows(req[r].table, SettingsOf(req[r].allowed)) = req[r].allowed
  BY <1>1, NoneAssumption DEF PolicyRows, SettingsOf
<1> QED BY <1>1, <1>2, <1>3 DEF Visible, RoleIsRight, RlsIsInForce

\* Only the pool is at stake in the steps of a served request.
LEMMA ServedStep ==
    ASSUME IInv, TypeOK', Pooled', phase = "serving", UNCHANGED <<phase, db>>, NEW r \in Requests,
           \A q \in Requests \ {r} : req'[q] = req[q],
           SkipAuth => req'[r].allowed = {},
           req'[r].pc = "running" => req'[r].table \in Tables,
           req'[r].pc = "ran" =>
               /\ req'[r].status = "denied" => req'[r].write \notin req'[r].allowed
               /\ req'[r].status = "ok" /\ ~SkipAuth => req'[r].write \in req'[r].allowed \cup {None}
    PROVE  IInv'
<1>1. Checked' /\ OnlyServed' /\ Closed'
  BY DEF IInv, Checked, OnlyServed, Closed, RoleIsRight, Bypasses, RlsIsInForce
<1>2. Skipping' /\ Named' /\ DenialsAreTheCallers'
  BY DEF IInv, Skipping, Named, DenialsAreTheCallers
<1> QED BY <1>1, <1>2 DEF IInv

LEMMA RequestKeepsIInv ==
    ASSUME IInv, TypeOK', NEW r \in Requests,
           \/ \E allowed \in SUBSET Grants, n \in 1..MaxTx : Arrive(r, allowed, n)
           \/ Transaction(r)
           \/ \E timedOut \in BOOLEAN : QueryEnds(r, timedOut)
           \/ ConnectionLost(r)
    PROVE  IInv'
<1>1. TypeOK /\ Pooled /\ req[r] \in RequestType /\ req \in [Requests -> RequestType]
      /\ conn \in [Conns -> ConnType] /\ conn' \in [Conns -> ConnType]
  BY DEF IInv, TypeOK
<1>2. req[r].pc # "idle" => phase = "serving"
  BY DEF IInv, OnlyServed
<1>3. SkipAuth => req[r].allowed = {}
  BY DEF IInv, Skipping
<1>4. ASSUME NEW c \in Conns, req[r].conn = c
      PROVE  \A q \in Requests \ {r} : req[q].conn # c
  BY <1>1, <1>4, NoneAssumption DEF Pooled, Apart
<1>5. ASSUME NEW allowed \in SUBSET Grants, NEW n \in 1..MaxTx, Arrive(r, allowed, n)
      PROVE  IInv'
  <2>1. /\ req[r].conn = None /\ req'[r].conn = None /\ req'[r].pc = "wait" /\ req'[r].allowed = allowed
        /\ \A q \in Requests \ {r} : req'[q] = req[q]
        /\ UNCHANGED <<phase, db, conn>> /\ phase = "serving" /\ (SkipAuth => allowed = {})
    BY <1>1, <1>5 DEF Arrive, Idle, Handler
  <2>2. Pooled'
    BY <1>1, <2>1, PoolIsLeft DEF Holding
  <2> QED BY <2>1, <2>2, ServedStep
<1>6. ASSUME NEW c \in Conns, Acquire(r, c)
      PROVE  IInv'
  <2>1. /\ req'[r].conn = c /\ req'[r].pc = "begun" /\ req'[r].allowed = req[r].allowed /\ req[r].pc = "wait"
        /\ \A q \in Requests \ {r} : req'[q] = req[q]
        /\ UNCHANGED <<phase, db>>
    BY <1>1, <1>6 DEF Acquire, RequestType
  <2>2. /\ conn'[c].state = "held" /\ conn'[c].local = conn[c].local /\ conn[c].state # "held"
        /\ \A d \in Conns \ {c} : conn'[d] = conn[d]
    BY <1>1, <1>6 DEF Acquire, ConnType
  <2>3. req[r].conn = None /\ \A q \in Requests : req[q].conn # c
    BY <1>1, <2>1, <2>2, NoneAssumption DEF Pooled, Held, Holding
  <2>4. conn[c].local = None
    BY <1>1, <2>3 DEF Pooled, Blank
  <2>5. Pooled'
    BY <1>1, <2>1, <2>2, <2>3, <2>4, PoolIsKept DEF Holding, InTransaction
  <2> QED BY <1>2, <1>3, <2>1, <2>5, ServedStep
<1>7. CASE SetConfig(r)
  <2>1. /\ req'[r].conn = req[r].conn /\ req'[r].pc = "set" /\ req'[r].allowed = req[r].allowed
        /\ req[r].pc = "begun"
        /\ \A q \in Requests \ {r} : req'[q] = req[q]
        /\ UNCHANGED <<phase, db>>
    BY <1>1, <1>7 DEF SetConfig, RequestType
  <2>2. req[r].conn \in Conns /\ conn[req[r].conn].state = "held"
    BY <1>1, <2>1 DEF Pooled, Held, Holding
  <2>3. /\ conn'[req[r].conn].state = "held"
        /\ conn'[req[r].conn].local = SettingsOf(req[r].allowed)
        /\ \A d \in Conns \ {req[r].conn} : conn'[d] = conn[d]
    BY <1>1, <1>7, <2>2 DEF SetConfig, SetLocal, ConnType
  <2>4. Pooled'
    BY <1>1, <1>4, <2>1, <2>2, <2>3, PoolIsKept DEF Holding, InTransaction
  <2> QED BY <1>2, <1>3, <2>1, <2>4, ServedStep
<1>8. ASSUME NEW t \in Tables, NEW w \in Grants \cup {None}, Run(r, t, w)
      PROVE  IInv'
  <2>1. /\ req'[r].conn = req[r].conn /\ req'[r].pc = "running" /\ req'[r].allowed = req[r].allowed
        /\ req[r].pc = "set" /\ req'[r].table \in Tables
        /\ \A q \in Requests \ {r} : req'[q] = req[q]
        /\ UNCHANGED <<phase, db, conn>>
    BY <1>1, <1>8 DEF Run, RequestType
  <2>2. req[r].conn \in Conns /\ conn[req[r].conn].state = "held"
        /\ conn[req[r].conn].local = SettingsOf(req[r].allowed)
    BY <1>1, <2>1 DEF Pooled, Held, Carried, Holding, InTransaction
  <2>3. Pooled'
    BY <1>1, <1>4, <2>1, <2>2, PoolIsKept DEF Holding, InTransaction
  <2> QED BY <1>2, <1>3, <2>1, <2>3, ServedStep
<1>9. ASSUME NEW timedOut \in BOOLEAN, QueryEnds(r, timedOut)
      PROVE  IInv'
  <2>1. /\ req'[r].conn = req[r].conn /\ req'[r].pc = "ran" /\ req'[r].allowed = req[r].allowed
        /\ req[r].pc = "running"
        /\ \A q \in Requests \ {r} : req'[q] = req[q]
        /\ UNCHANGED <<phase, db, conn>>
    BY <1>1, <1>9 DEF QueryEnds, RequestType
  <2>4. req'[r].write = req[r].write /\ req'[r].status = Result(r, timedOut)
    BY <1>1, <1>9 DEF QueryEnds, RequestType
  <2>5. Visible(req[r].table, Effective(req[r].conn)) = IF SkipAuth THEN Grants ELSE req[r].allowed
    BY <2>1, VisibleRows DEF QueriesSeeTheirRows
  <2>6. /\ req'[r].status = "denied" => req'[r].write \notin req'[r].allowed
        /\ req'[r].status = "ok" /\ ~SkipAuth => req'[r].write \in req'[r].allowed \cup {None}
    BY <1>3, <2>1, <2>4, <2>5 DEF Result, Outcome, DenialStatus
  <2>2. req[r].conn \in Conns /\ conn[req[r].conn].state = "held"
        /\ conn[req[r].conn].local = SettingsOf(req[r].allowed)
    BY <1>1, <2>1 DEF Pooled, Held, Carried, Holding, InTransaction
  <2>3. Pooled'
    BY <1>1, <1>4, <2>1, <2>2, PoolIsKept DEF Holding, InTransaction
  <2> QED BY <1>2, <1>3, <2>1, <2>3, <2>6, ServedStep
<1>10. CASE EndTransaction(r)
  <2>1. /\ req'[r].conn = req[r].conn /\ req'[r].pc = "ended" /\ req'[r].allowed = req[r].allowed
        /\ req[r].pc = "ran"
        /\ \A q \in Requests \ {r} : req'[q] = req[q]
        /\ UNCHANGED <<phase, db>>
    BY <1>1, <1>10 DEF EndTransaction, RequestType
  <2>2. req[r].conn \in Conns /\ conn[req[r].conn].state = "held"
    BY <1>1, <2>1 DEF Pooled, Held, Holding
  <2>3. /\ conn'[req[r].conn].state = "held" /\ conn'[req[r].conn].local = None
        /\ \A d \in Conns \ {req[r].conn} : conn'[d] = conn[d]
    BY <1>1, <1>10, <2>2 DEF EndTransaction, ConnType
  <2>4. Pooled'
    BY <1>1, <1>4, <2>1, <2>2, <2>3, PoolIsKept DEF Holding, InTransaction
  <2> QED BY <1>2, <1>3, <2>1, <2>4, ServedStep
<1>11. CASE Release(r)
  <2>1. /\ req'[r].conn = None /\ req'[r].pc \in {"wait", "idle"} /\ req'[r].allowed \in {req[r].allowed, {}}
        /\ req[r].pc = "ended"
        /\ \A q \in Requests \ {r} : req'[q] = req[q]
        /\ UNCHANGED <<phase, db>>
    BY <1>1, <1>11 DEF Release, Idle, Handler
  <2>2. req[r].conn \in Conns
    BY <1>1, <2>1 DEF Pooled, Held, Holding
  <2>3. /\ conn'[req[r].conn].state = "free" /\ conn'[req[r].conn].local = None
        /\ \A d \in Conns \ {req[r].conn} : conn'[d] = conn[d]
    BY <1>1, <1>11, <2>2 DEF Release, Released, Opened
  <2>4. Pooled'
    BY <1>1, <1>4, <2>1, <2>2, <2>3, PoolIsKept DEF Holding, InTransaction
  <2> QED BY <1>2, <1>3, <2>1, <2>4, ServedStep
<1>12. CASE ConnectionLost(r)
  <2>1. /\ req'[r].conn = None /\ req'[r].pc = "idle" /\ req'[r].allowed = {}
        /\ req[r].conn # None
        /\ \A q \in Requests \ {r} : req'[q] = req[q]
        /\ UNCHANGED <<phase, db>>
    BY <1>1, <1>12 DEF ConnectionLost, Idle, Handler
  <2>2. req[r].conn \in Conns /\ phase = "serving"
    BY <1>1, <1>2, <2>1 DEF Pooled, Held, Holding
  <2>3. /\ conn'[req[r].conn].state = "absent" /\ conn'[req[r].conn].local = None
        /\ \A d \in Conns \ {req[r].conn} : conn'[d] = conn[d]
    BY <1>1, <1>12, <2>2 DEF ConnectionLost, Absent
  <2>4. Pooled'
    BY <1>1, <1>4, <2>1, <2>2, <2>3, PoolIsKept DEF Holding, InTransaction
  <2> QED BY <1>3, <2>1, <2>2, <2>4, ServedStep
<1> QED BY <1>5, <1>6, <1>7, <1>8, <1>9, <1>10, <1>11, <1>12 DEF Transaction

LEMMA Inductive == Spec => []IInv
<1>1. Init => IInv
  <2>1. Init => Pooled
    BY NoneAssumption DEF Init, Pooled, Held, Apart, Carried, Blank, Owned, Absent, Idle, Handler, Holding, InTransaction
  <2> QED BY <2>1, InitTyped DEF Init, IInv, Checked, OnlyServed, Closed, Skipping, Named, Absent, Idle, Handler,
        DenialsAreTheCallers
<1>2. ASSUME IInv, [Next]_vars
      PROVE  IInv'
  <2>1. TypeOK'
    BY <1>2, StepTyped DEF IInv
  <2>2. CASE Lifespan
    BY <1>2, <2>1, <2>2, LifespanKeepsIInv
  <2>3. CASE UNCHANGED vars
    BY <1>2, <2>1, <2>3
    DEF vars, IInv, Checked, RoleIsRight, Bypasses, RlsIsInForce, OnlyServed, Pooled, Held, Apart, Carried,
        Blank, Owned, Closed, Skipping, Named, DenialsAreTheCallers
  <2> QED BY <1>2, <2>1, <2>2, <2>3, RequestKeepsIInv DEF Next
<1> QED BY <1>1, <1>2, PTL DEF Spec

\* Whatever role and tables the service was started on, and whoever had the
\* connection before, a statement sees exactly the rows of its own caller.
THEOREM CallersAreApart == Spec => []QueriesSeeTheirRows
BY Inductive, VisibleRows, PTL

\* The database refuses with a 403 only what the caller was not granted, and lets
\* through only what it was.
THEOREM DenialsAreTrue == Spec => []DenialsAreTheCallers
<1>1. IInv => DenialsAreTheCallers
  BY DEF IInv
<1> QED BY <1>1, Inductive, PTL

\* No setting outlives its transaction.
THEOREM SettingsAreLocal == Spec => []SettingsEndWithTheTransaction
<1>1. IInv => SettingsEndWithTheTransaction
  <2> SUFFICES ASSUME IInv, NEW c \in Conns,
                      \A r \in Requests : req[r].conn = c => req[r].pc \in {"begun", "ended"}
               PROVE  Effective(c) = Defaults
    BY DEF SettingsEndWithTheTransaction
  <2>1. conn[c].local = None
    BY DEF IInv, Pooled, Blank, InTransaction
  <2>2. conn[c].session = Defaults
    BY DEF IInv, TypeOK, ConnType
  <2> QED BY <2>1, <2>2 DEF Effective
<1> QED BY <1>1, Inductive, PTL

\* Connections are held one request each and closed with the service.
THEOREM ConnectionsAreReturned == Spec => []NoConnectionLeaks
<1>1. IInv => NoConnectionLeaks
  BY DEF IInv, NoConnectionLeaks, Pooled, Closed, Owned, Apart
<1> QED BY <1>1, Inductive, PTL

-----------------------------------------------------------------------------
(* VectorSearch.                                                           *)

-----------------------------------------------------------------------------
(* Rankings.  Of the rows of a set some k come first by a key; which of the *)
(* rows at one distance are among them is open, so there is a set of such   *)
(* choices.                                                                 *)

IsKey(d) == d \in [Embeddings -> Int]

Smaller(a, b) == IF a <= b THEN a ELSE b

\* The ways to take the k rows of S that d puts first, or all of S.
First(S, d, k) ==
    {T \in SUBSET S : /\ Cardinality(T) = Smaller(k, Cardinality(S))
                      /\ \A e \in T, f \in S \ T : d[e] <= d[f]}

LEMMA Sizes ==
    ASSUME NEW S \in SUBSET Embeddings
    PROVE  /\ IsFiniteSet(S) /\ Cardinality(S) \in Nat
           /\ \A T \in SUBSET S : /\ T \in SUBSET Embeddings /\ IsFiniteSet(T) /\ Cardinality(T) \in Nat
                                  /\ Cardinality(T) <= Cardinality(S)
                                  /\ Cardinality(T) = Cardinality(S) => T = S
  <1>1. IsFiniteSet(S)
    BY EmbeddingsAssumption, FS_Subset
  <1>2. ASSUME NEW T \in SUBSET S
        PROVE  /\ IsFiniteSet(T) /\ Cardinality(T) <= Cardinality(S)
               /\ Cardinality(T) = Cardinality(S) => T = S
    BY <1>1, FS_Subset
  <1> QED
    BY <1>1, <1>2, FS_CardinalityType

\* What is taken is k rows or all, none after one that is left.
LEMMA FirstAre ==
    ASSUME NEW d, NEW S \in SUBSET Embeddings, NEW k \in Nat, NEW T \in First(S, d, k)
    PROVE  /\ T \in SUBSET S /\ IsFiniteSet(T) /\ Cardinality(T) \in Nat /\ Cardinality(S) \in Nat
           /\ Cardinality(T) = Smaller(k, Cardinality(S))
           /\ Cardinality(T) <= k /\ Cardinality(T) <= Cardinality(S)
           /\ T # S => Cardinality(T) = k
           /\ \A e \in T, f \in S \ T : d[e] <= d[f]
  <1>1. /\ T \in SUBSET S /\ Cardinality(T) = Smaller(k, Cardinality(S))
        /\ \A e \in T, f \in S \ T : d[e] <= d[f]
    BY DEF First
  <1>2. /\ IsFiniteSet(T) /\ Cardinality(T) \in Nat /\ Cardinality(S) \in Nat
        /\ Cardinality(T) = Cardinality(S) => T = S
    BY <1>1, Sizes
  <1> QED
    BY <1>1, <1>2 DEF Smaller

\* A set of naturals has a smallest member.
LEMMA SmallestIs ==
    ASSUME NEW S \in SUBSET Nat, S # {}
    PROVE  \E n \in S : \A m \in S : n <= m
  <1> DEFINE less == {pair \in Nat \X Nat : pair[1] < pair[2]}
  <1>1. IsWellFoundedOn(less, Nat)
    BY NatLessThanWellFounded DEF OpToRel
  <1>2. PICK n \in S : \A m \in S : <<m, n>> \notin less
    <2> HIDE DEF less
    <2> QED
      BY <1>1, WFMin
  <1>3. ASSUME NEW m \in S PROVE n <= m
    <2>1. n \in Nat /\ m \in Nat /\ ~(m < n)
      BY <1>2
    <2> QED
      BY <2>1
  <1> QED
    BY <1>3

\* Some row of a set is before or beside all others: one with the fewest before it.
LEMMA NearestExists ==
    ASSUME NEW d, IsKey(d), NEW S \in SUBSET Embeddings, S # {}
    PROVE  \E e \in S : \A f \in S : d[e] <= d[f]
  <1> DEFINE Before(e) == {f \in S : d[f] < d[e]}
             counts == {Cardinality(Before(e)) : e \in S}
  <1>1. \A e \in S : d[e] \in Int
    BY DEF IsKey
  <1>2. \A e \in S : Before(e) \in SUBSET S /\ Before(e) \in SUBSET Embeddings
                     /\ IsFiniteSet(Before(e)) /\ Cardinality(Before(e)) \in Nat
    BY Sizes
  <1>3. PICK n \in counts : \A m \in counts : n <= m
    <2>1. counts \in SUBSET Nat /\ counts # {}
      BY <1>2
    <2> HIDE DEF counts
    <2> QED
      BY <2>1, SmallestIs
  <1>4. PICK e \in S : n = Cardinality(Before(e))
    BY <1>3
  <1>5. ASSUME NEW f \in S
        PROVE  d[e] <= d[f]
    <2> SUFFICES ASSUME d[f] < d[e]
                 PROVE  FALSE
      BY <1>1
    <2>1. Before(f) \in SUBSET Before(e) /\ f \in Before(e) /\ f \notin Before(f)
      BY <1>1
    <2>2. Cardinality(Before(e)) <= Cardinality(Before(f))
      BY <1>3, <1>4
    <2> DEFINE E == Before(e)
               F == Before(f)
    <2>3. E \in SUBSET Embeddings /\ F \in SUBSET E /\ E # F /\ Cardinality(E) <= Cardinality(F)
      BY <1>2, <2>1, <2>2
    <2> HIDE DEF E, F
    <2>4. /\ Cardinality(E) \in Nat /\ Cardinality(F) \in Nat /\ Cardinality(F) <= Cardinality(E)
          /\ Cardinality(F) = Cardinality(E) => F = E
      BY <2>3, Sizes
    <2> QED
      BY <2>3, <2>4
  <1> QED
    BY <1>5

\* There always is a way: one row more of those that are left, until all are taken.
LEMMA FirstExists ==
    ASSUME NEW d, IsKey(d), NEW S \in SUBSET Embeddings, NEW k \in Nat
    PROVE  First(S, d, k) # {}
  <1> DEFINE never == {n \in Nat : First(S, d, n) = {}}
  <1>1. SUFFICES ASSUME never # {}
                 PROVE  FALSE
    OBVIOUS
  <1>2. PICK n \in never : \A m \in never : n <= m
    <2>1. never \in SUBSET Nat
      OBVIOUS
    <2> HIDE DEF never
    <2> QED
      BY <1>1, <2>1, SmallestIs
  <1>3. n \in Nat /\ First(S, d, n) = {} /\ Cardinality(S) \in Nat
    BY <1>2, Sizes
  <1>4. n # 0
    <2>1. {} \in First(S, d, 0)
      BY <1>3, FS_EmptySet DEF First, Smaller
    <2> QED
      BY <1>3, <2>1
  <1>5. PICK T : T \in First(S, d, n - 1)
    <2>1. n - 1 \in Nat /\ n - 1 \notin never
      BY <1>2, <1>3, <1>4
    <2> QED
      BY <2>1
  <1>6. /\ T \in SUBSET S /\ IsFiniteSet(T) /\ Cardinality(T) = Smaller(n - 1, Cardinality(S))
        /\ \A e \in T, f \in S \ T : d[e] <= d[f]
    <2>1. n - 1 \in Nat
      BY <1>3, <1>4
    <2> QED
      BY <1>5, <2>1, FirstAre
  <1>7. CASE T = S
    <2>1. Cardinality(T) = Smaller(n, Cardinality(S))
      BY <1>3, <1>4, <1>6, <1>7 DEF Smaller
    <2>2. T \in First(S, d, n)
      BY <1>7, <2>1 DEF First
    <2> QED
      BY <1>3, <2>2
  <1>8. CASE T # S
    <2>1. S \ T \in SUBSET Embeddings /\ S \ T # {}
      BY <1>6, <1>8
    <2>2. PICK e \in S \ T : \A f \in S \ T : d[e] <= d[f]
      BY <2>1, NearestExists
    <2>3. Cardinality(T) = n - 1 /\ n - 1 < Cardinality(S)
      <3>1. Cardinality(T) # Cardinality(S) /\ Cardinality(T) <= Cardinality(S) /\ Cardinality(T) \in Nat
        BY <1>6, <1>8, Sizes
      <3> QED
        BY <1>3, <1>6, <3>1 DEF Smaller
    <2>4. Cardinality(T \cup {e}) = n
      <3>1. Cardinality(T \cup {e}) = Cardinality(T) + 1
        BY <1>6, <2>2, FS_AddElement
      <3> QED
        BY <1>3, <2>3, <3>1
    <2>5. Smaller(n, Cardinality(S)) = n
      BY <1>3, <2>3 DEF Smaller
    <2>6. \A g \in T \cup {e}, f \in S \ (T \cup {e}) : d[g] <= d[f]
      BY <1>6, <2>2
    <2>7. T \cup {e} \in First(S, d, n)
      BY <1>6, <2>2, <2>4, <2>5, <2>6 DEF First
    <2> QED
      BY <1>3, <2>7
  <1> QED
    BY <1>7, <1>8

\* What comes first anyway can be among what is taken.
LEMMA FirstExtends ==
    ASSUME NEW d, IsKey(d), NEW S \in SUBSET Embeddings, NEW k \in Nat,
           NEW R \in SUBSET S, Cardinality(R) <= k, \A e \in R, f \in S \ R : d[e] <= d[f]
    PROVE  \E T \in First(S, d, k) : R \in SUBSET T
  <1> DEFINE l == k - Cardinality(R)
             rest == S \ R
  <1>1. /\ IsFiniteSet(S) /\ IsFiniteSet(R) /\ rest \in SUBSET Embeddings
        /\ Cardinality(S) \in Nat /\ Cardinality(R) \in Nat /\ l \in Nat
    BY Sizes
  <1>2. Cardinality(rest) = Cardinality(S) - Cardinality(R)
    <2>1. S \cap R = R
      OBVIOUS
    <2> QED
      BY <1>1, <2>1, FS_Difference
  <1> HIDE DEF l
  <1>3. PICK X : X \in First(rest, d, l)
    BY <1>1, FirstExists
  <1>4. /\ X \in SUBSET rest /\ IsFiniteSet(X) /\ Cardinality(X) \in Nat
        /\ Cardinality(X) = Smaller(l, Cardinality(rest))
        /\ \A e \in X, f \in rest \ X : d[e] <= d[f]
    <2> HIDE DEF rest
    <2>1. /\ X \in SUBSET rest /\ Cardinality(X) = Smaller(l, Cardinality(rest))
          /\ \A e \in X, f \in rest \ X : d[e] <= d[f]
      BY <1>3 DEF First
    <2>2. IsFiniteSet(X) /\ Cardinality(X) \in Nat
      BY <1>1, <2>1, Sizes
    <2> QED
      BY <2>1, <2>2
  <1>5. Cardinality(R \cup X) = Cardinality(R) + Cardinality(X)
    <2>1. R \cap X = {}
      BY <1>4
    <2>2. Cardinality(R \cup X) = Cardinality(R) + Cardinality(X) - Cardinality(R \cap X)
      BY <1>1, <1>4, FS_Union
    <2>3. Cardinality(R \cap X) = 0
      BY <2>1, FS_EmptySet
    <2> QED
      BY <1>1, <1>4, <2>2, <2>3
  <1>6. Cardinality(R \cup X) = Smaller(k, Cardinality(S))
    BY <1>1, <1>2, <1>4, <1>5 DEF Smaller, l
  <1>7. \A e \in R \cup X, f \in S \ (R \cup X) : d[e] <= d[f]
    BY <1>4
  <1>8. R \cup X \in First(S, d, k)
    BY <1>4, <1>6, <1>7 DEF First
  <1> QED
    BY <1>8

\* The rows of several sets.
Together(C, r) == UNION {r[c] : c \in C}

\* To take the first k of each of several sets and of these the first k gives
\* first k of all:
LEMMA MergesToFirst ==
    ASSUME NEW d, IsKey(d), NEW C, NEW P \in [C -> SUBSET Embeddings], NEW k \in Nat,
           NEW t, \A c \in C : t[c] \in First(P[c], d, k),
           NEW R \in First(Together(C, t), d, k)
    PROVE  R \in First(Together(C, P), d, k)
  <1> DEFINE U == Together(C, P)
             A == Together(C, t)
  <1>1. \A c \in C : P[c] \in SUBSET Embeddings /\ P[c] \in SUBSET U /\ t[c] \in SUBSET A
    BY DEF Together
  <1>2. ASSUME NEW c \in C
        PROVE  /\ t[c] \in SUBSET P[c] /\ IsFiniteSet(t[c])
               /\ t[c] # P[c] => Cardinality(t[c]) = k
               /\ \A e \in t[c], f \in P[c] \ t[c] : d[e] <= d[f]
    <2>1. P[c] \in SUBSET Embeddings /\ t[c] \in First(P[c], d, k)
      OBVIOUS
    <2>2. /\ t[c] \in SUBSET P[c] /\ Cardinality(t[c]) = Smaller(k, Cardinality(P[c]))
          /\ \A e \in t[c], f \in P[c] \ t[c] : d[e] <= d[f]
      BY <2>1 DEF First
    <2>3. /\ IsFiniteSet(t[c]) /\ Cardinality(t[c]) \in Nat /\ Cardinality(P[c]) \in Nat
          /\ Cardinality(t[c]) = Cardinality(P[c]) => t[c] = P[c]
      BY <2>1, <2>2, Sizes
    <2> QED
      BY <2>2, <2>3 DEF Smaller
  <1>3. U \in SUBSET Embeddings /\ A \in SUBSET U
    BY <1>1, <1>2 DEF Together
  <1>4. \A e \in U : \E c \in C : e \in P[c]
    BY DEF Together
  <1>5. R \in First(A, d, k)
    OBVIOUS
  <1> HIDE DEF U, A
  <1>6. A \in SUBSET Embeddings
    BY <1>3
  <1>7. /\ R \in SUBSET A /\ Cardinality(R) = Smaller(k, Cardinality(A)) /\ Cardinality(R) \in Nat
        /\ Cardinality(A) \in Nat /\ IsFiniteSet(R)
        /\ \A e \in R, f \in A \ R : d[e] <= d[f]
    BY <1>5, <1>6, FirstAre
  <1>8. Cardinality(U) \in Nat /\ Cardinality(A) <= Cardinality(U)
    BY <1>3, Sizes
  <1>9. ASSUME NEW f \in U, f \notin A
        PROVE  \E c \in C : f \in P[c] \ t[c] /\ Cardinality(t[c]) = k
    <2>1. PICK c \in C : f \in P[c]
      BY <1>4
    <2>2. f \notin t[c] /\ t[c] # P[c]
      BY <1>1, <1>9, <2>1
    <2> QED
      BY <1>2, <2>1, <2>2
  <1>10. Cardinality(R) = k \/ A = U
    <2> SUFFICES ASSUME A # U
                 PROVE  Cardinality(R) = k
      OBVIOUS
    <2>1. PICK f \in U : f \notin A
      BY <1>3
    <2>2. PICK c \in C : Cardinality(t[c]) = k
      BY <1>9, <2>1
    <2>3. k <= Cardinality(A)
      BY <1>1, <1>6, <2>2, Sizes
    <2> QED
      BY <1>7, <2>3 DEF Smaller
  <1>11. Cardinality(R) = Smaller(k, Cardinality(U))
    BY <1>7, <1>8, <1>10 DEF Smaller
  <1>12. ASSUME NEW e \in R, NEW f \in U \ R
         PROVE  d[e] <= d[f]
    <2>1. CASE f \in A
      BY <1>7, <2>1
    <2>2. CASE f \notin A
      <3>1. PICK c \in C : f \in P[c] \ t[c] /\ Cardinality(t[c]) = k
        BY <1>9, <2>2
      <3>2. Cardinality(R) = k
        BY <1>3, <1>10, <2>2
      <3>3. CASE t[c] \in SUBSET R
        <4>1. t[c] = R
          <5>1. R \in SUBSET Embeddings
            BY <1>6, <1>7
          <5> QED
            BY <3>1, <3>2, <3>3, <5>1, Sizes
        <4> QED
          BY <1>2, <3>1, <4>1
      <3>4. CASE t[c] \notin SUBSET R
        <4>1. PICK g \in t[c] : g \notin R
          BY <3>4
        <4>2. d[e] <= d[g] /\ d[g] <= d[f]
          BY <1>1, <1>2, <1>7, <3>1, <4>1
        <4>3. d[e] \in Int /\ d[g] \in Int /\ d[f] \in Int
          BY <1>1, <1>3, <1>6, <1>7, <4>1 DEF IsKey
        <4> QED
          BY <4>2, <4>3
      <3> QED
        BY <3>3, <3>4
    <2> QED
      BY <2>1, <2>2
  <1>13. R \in First(U, d, k)
    BY <1>3, <1>7, <1>11, <1>12 DEF First
  <1> QED
    BY <1>13 DEF U

\* and any of them.
LEMMA MergesToAnyFirst ==
    ASSUME NEW d, IsKey(d), NEW C, NEW P \in [C -> SUBSET Embeddings], NEW k \in Nat,
           NEW R \in First(Together(C, P), d, k)
    PROVE  \E t \in [C -> SUBSET Embeddings] :
              (\A c \in C : t[c] \in First(P[c], d, k)) /\ R \in First(Together(C, t), d, k)
  <1> DEFINE U == Together(C, P)
             t == [c \in C |-> CHOOSE T \in First(P[c], d, k) : R \cap P[c] \in SUBSET T]
             A == Together(C, t)
  <1>1. /\ U \in SUBSET Embeddings
        /\ \A c \in C : P[c] \in SUBSET U /\ P[c] \in SUBSET Embeddings
        /\ \A e \in U : \E c \in C : e \in P[c]
    BY DEF Together
  <1>2. R \in First(U, d, k)
    OBVIOUS
  <1> HIDE DEF U
  <1>3. /\ R \in SUBSET U /\ IsFiniteSet(R) /\ Cardinality(R) \in Nat /\ Cardinality(U) \in Nat
        /\ Cardinality(R) = Smaller(k, Cardinality(U)) /\ Cardinality(R) <= k
        /\ \A e \in R, f \in U \ R : d[e] <= d[f]
    BY <1>1, <1>2, FirstAre
  <1>4. ASSUME NEW c \in C
        PROVE  t[c] \in First(P[c], d, k) /\ R \cap P[c] \in SUBSET t[c] /\ t[c] \in SUBSET P[c]
    <2>1. Cardinality(R \cap P[c]) <= k
      <3>1. Cardinality(R \cap P[c]) <= Cardinality(R) /\ Cardinality(R \cap P[c]) \in Nat
        <4>1. R \in SUBSET Embeddings /\ R \cap P[c] \in SUBSET R
          BY <1>1, <1>3
        <4> QED
          BY <4>1, Sizes
      <3> QED
        BY <1>3, <3>1
    <2>2. \A e \in R \cap P[c], f \in P[c] \ (R \cap P[c]) : d[e] <= d[f]
      BY <1>1, <1>3
    <2>3. R \cap P[c] \in SUBSET P[c] /\ P[c] \in SUBSET Embeddings
      BY <1>1
    <2>4. \E T \in First(P[c], d, k) : R \cap P[c] \in SUBSET T
      BY <2>1, <2>2, <2>3, FirstExtends
    <2>5. t[c] \in First(P[c], d, k) /\ R \cap P[c] \in SUBSET t[c]
      BY <2>4
    <2> QED
      BY <2>5 DEF First
  <1>5. A = Together(C, t) /\ \A c \in C : t[c] \in SUBSET A
    BY DEF Together
  <1>6. t \in [C -> SUBSET Embeddings]
    <2>1. \A c \in C : t[c] \in SUBSET Embeddings
      BY <1>1, <1>4
    <2>2. t = [c \in C |-> t[c]]
      OBVIOUS
    <2> HIDE DEF t
    <2> QED
      BY <2>1, <2>2
  <1>7. A \in SUBSET U
    BY <1>1, <1>4 DEF Together
  <1> HIDE DEF t, A
  <1>8. R \in SUBSET A
    <2>1. ASSUME NEW e \in R
          PROVE  e \in A
      <3>1. PICK c \in C : e \in P[c]
        BY <1>1, <1>3
      <3> QED
        BY <1>4, <1>5, <3>1
    <2> QED
      BY <2>1
  <1>9. Cardinality(R) = Smaller(k, Cardinality(A))
    <2>1. A \in SUBSET Embeddings
      BY <1>1, <1>7
    <2>2. Cardinality(A) \in Nat /\ Cardinality(R) <= Cardinality(A) /\ Cardinality(A) <= Cardinality(U)
      BY <1>1, <1>7, <1>8, <2>1, Sizes
    <2> QED
      BY <1>3, <2>2 DEF Smaller
  <1>10. R \in First(A, d, k)
    BY <1>3, <1>7, <1>8, <1>9 DEF First
  <1> QED
    BY <1>4, <1>5, <1>6, <1>10

\* With a row of S, all that are before or beside it are in W.
ReachesUpTo(W, S, d) == \A e \in S \cap W, f \in S : d[f] <= d[e] => f \in W

\* To drop the rows beyond a bound before or after the first k are taken is the
\* same: what is left of a choice is one of the rows within,
LEMMA CutIsFirst ==
    ASSUME NEW d, NEW S \in SUBSET Embeddings, NEW k \in Nat,
           NEW W, ReachesUpTo(W, S, d),
           NEW T \in First(S, d, k)
    PROVE  T \cap W \in First(S \cap W, d, k)
  <1> DEFINE V == S \cap W
  <1>1. /\ T \in SUBSET S /\ Cardinality(T) <= k /\ (T # S => Cardinality(T) = k)
        /\ \A e \in T, f \in S \ T : d[e] <= d[f]
    <2>1. /\ T \in SUBSET S /\ Cardinality(T) = Smaller(k, Cardinality(S))
          /\ \A e \in T, f \in S \ T : d[e] <= d[f]
      BY DEF First
    <2>2. /\ Cardinality(T) \in Nat /\ Cardinality(S) \in Nat
          /\ Cardinality(T) = Cardinality(S) => T = S
      BY <2>1, Sizes
    <2> QED
      BY <2>1, <2>2 DEF Smaller
  <1>2. V \in SUBSET Embeddings /\ T \in SUBSET Embeddings /\ T \cap W \in SUBSET V /\ T \cap W \in SUBSET T
    BY <1>1
  <1>3. \A e \in T \cap W, f \in V \ (T \cap W) : d[e] <= d[f]
    BY <1>1
  <1>4. Cardinality(T \cap W) = Smaller(k, Cardinality(V))
    <2>1. /\ Cardinality(V) \in Nat /\ Cardinality(T \cap W) \in Nat /\ Cardinality(T) \in Nat
          /\ Cardinality(T \cap W) <= Cardinality(V) /\ Cardinality(T \cap W) <= Cardinality(T)
      BY <1>2, Sizes
    <2>2. CASE T \cap W = V
      <3>1. Cardinality(V) <= k
        BY <1>1, <2>1, <2>2
      <3> HIDE DEF V
      <3> QED
        BY <2>1, <2>2, <3>1 DEF Smaller
    <2>3. CASE T \cap W # V
      <3>1. PICK f \in V : f \notin T
        BY <1>2, <2>3
      <3>2. \A e \in T : e \in W
        BY <1>1, <3>1 DEF ReachesUpTo
      <3>3. T \cap W = T /\ Cardinality(T) = k
        BY <1>1, <3>1, <3>2
      <3> HIDE DEF V
      <3> QED
        BY <2>1, <3>3 DEF Smaller
    <2> QED
      BY <2>2, <2>3
  <1> QED
    BY <1>2, <1>3, <1>4 DEF First

\* and any of those.
LEMMA CutIsAnyFirst ==
    ASSUME NEW d, IsKey(d), NEW S \in SUBSET Embeddings, NEW k \in Nat,
           NEW W, ReachesUpTo(W, S, d),
           NEW R \in First(S \cap W, d, k)
    PROVE  \E T \in First(S, d, k) : R = T \cap W
  <1> DEFINE V == S \cap W
  <1>1. V \in SUBSET Embeddings
    OBVIOUS
  <1>2. /\ R \in SUBSET V /\ Cardinality(R) <= k
        /\ Cardinality(R) = Smaller(k, Cardinality(V))
        /\ \A e \in R, f \in V \ R : d[e] <= d[f]
    <2>1. R \in First(V, d, k)
      OBVIOUS
    <2> HIDE DEF V
    <2>2. /\ R \in SUBSET V /\ Cardinality(R) = Smaller(k, Cardinality(V))
          /\ \A e \in R, f \in V \ R : d[e] <= d[f]
      BY <2>1 DEF First
    <2>3. Cardinality(R) <= k
      BY <1>1, <2>1, FirstAre
    <2> QED
      BY <2>2, <2>3
  <1>3. \A e \in R, f \in S \ R : d[e] <= d[f]
    <2>1. \A e \in S : d[e] \in Int
      BY DEF IsKey
    <2> QED
      BY <1>2, <2>1 DEF ReachesUpTo
  <1>4. PICK T \in First(S, d, k) : R \in SUBSET T
    BY <1>2, <1>3, FirstExtends
  <1>5. T \cap W \in First(V, d, k)
    BY CutIsFirst
  <1>6. T \cap W \in SUBSET V /\ Cardinality(T \cap W) = Smaller(k, Cardinality(V))
    BY <1>5 DEF First
  <1>7. R \in SUBSET (T \cap W)
    BY <1>2, <1>4
  <1> DEFINE X == T \cap W
  <1>8. X \in SUBSET Embeddings /\ R \in SUBSET X /\ Cardinality(R) = Cardinality(X)
    BY <1>2, <1>6, <1>7
  <1> HIDE DEF X
  <1>9. R = X
    BY <1>8, Sizes
  <1> QED
    BY <1>4, <1>9 DEF X

-----------------------------------------------------------------------------
(* What a search computes, in these terms.                                  *)

\* Only what was embedded is stored.
RowsStored == rows \in SUBSET Embeddings

LEMMA RowsInvariant == SearchSpec => []RowsStored
  <1>1. SearchInit => RowsStored
    BY DEF SearchInit, RowsStored
  <1>2. RowsStored /\ [SearchNext]_searchVars => RowsStored'
    BY DEF RowsStored, SearchNext, searchVars, CreateIndex, IndexBuilt, DropIndex, Restart, Write, Delete
  <1> QED
    BY <1>1, <1>2, PTL DEF SearchSpec

ByDistance(q) == [e \in Embeddings |-> Dist(q, e)]
ByHamming == [e \in Embeddings |-> e.hamming]

LEMMA KeysAre ==
    ASSUME NEW q \in Query
    PROVE  IsKey(ByDistance(q)) /\ IsKey(ByHamming)
BY EmbeddingsAssumption DEF IsKey, ByDistance, ByHamming, Dist, Query

\* The rank of a hit, whichever way its value counts, is its distance.
LEMMA RankIsDistance ==
    ASSUME NEW q \in Query, NEW e \in Embeddings, NEW f \in Embeddings
    PROVE  Rank(q, e) <= Rank(q, f) <=> ByDistance(q)[e] <= ByDistance(q)[f]
  <1>1. Dist(q, e) \in Int /\ Dist(q, f) \in Int
    BY EmbeddingsAssumption DEF Dist, Query
  <1> QED
    BY <1>1 DEF ByDistance, Rank, Value

\* The number of candidates of the binary form does not depend on the
\* collection, and is never below what is asked for.
Pool(q) == Max({Min({q.top_k * RescoreMultiplier, RescoreMax}), RescoreMin, q.top_k})

LEMMA MaxIs ==
    ASSUME NEW S \in SUBSET Int, NEW m \in S, \A x \in S : x <= m
    PROVE  Max(S) = m
  <1>1. \A y \in S : m >= y
    OBVIOUS
  <1>2. ASSUME NEW x \in S, \A y \in S : x >= y
        PROVE  x = m
    <2>1. x \in Int /\ m \in Int /\ x >= m /\ m >= x
      BY <1>1, <1>2
    <2> QED
      BY <2>1
  <1>3. Max(S) \in S /\ \A y \in S : Max(S) >= y
    BY <1>1 DEF Max
  <1> QED
    BY <1>2, <1>3

LEMMA MinIs ==
    ASSUME NEW S \in SUBSET Int, NEW m \in S, \A x \in S : m <= x
    PROVE  Min(S) = m
  <1>1. \A y \in S : m =< y
    OBVIOUS
  <1>2. ASSUME NEW x \in S, \A y \in S : x =< y
        PROVE  x = m
    <2>1. x \in Int /\ m \in Int /\ x =< m /\ m =< x
      BY <1>1, <1>2
    <2> QED
      BY <2>1
  <1>3. Min(S) \in S /\ \A y \in S : Min(S) =< y
    BY <1>1 DEF Min
  <1> QED
    BY <1>2, <1>3

LEMMA MinOfTwo ==
    ASSUME NEW a \in Int, NEW b \in Int
    PROVE  Min({a, b}) = IF a <= b THEN a ELSE b
  <1>1. CASE a <= b
    BY <1>1, MinIs
  <1>2. CASE ~(a <= b)
    BY <1>2, MinIs
  <1> QED
    BY <1>1, <1>2

LEMMA PoolIs ==
    ASSUME NEW q \in Query
    PROVE  /\ Pool(q) \in Nat /\ q.top_k \in Nat /\ q.top_k <= Pool(q)
           /\ \A c : BinaryRescoreLimit(c, q) = IF Form(c, q) # "binary" THEN Nothing ELSE Pool(q)
  <1> DEFINE a == Min({q.top_k * RescoreMultiplier, RescoreMax})
             k == q.top_k
  <1>1. k \in Nat /\ RescoreMultiplier \in Nat /\ RescoreMax \in Nat /\ RescoreMin \in Nat
    BY NumbersAssumption DEF Query
  <1>2. k * RescoreMultiplier \in Nat
    BY <1>1
  <1>3. a \in Nat
    BY <1>1, <1>2, MinOfTwo
  <1>4. \A c : BinaryRescoreLimit(c, q) = IF Form(c, q) # "binary" THEN Nothing ELSE Pool(q)
    BY DEF BinaryRescoreLimit, Pool
  <1>5. Pool(q) = Max({a, RescoreMin, k})
    BY DEF Pool
  <1> HIDE DEF a, k
  <1>6. PICK m \in {a, RescoreMin, k} : \A x \in {a, RescoreMin, k} : x <= m
    <2>1. CASE a >= RescoreMin /\ a >= k
      BY <1>1, <1>3, <2>1
    <2>2. CASE RescoreMin >= a /\ RescoreMin >= k
      BY <1>1, <1>3, <2>2
    <2>3. CASE k >= a /\ k >= RescoreMin
      BY <1>1, <1>3, <2>3
    <2> QED
      BY <1>1, <1>3, <2>1, <2>2, <2>3
  <1>7. Pool(q) = m
    BY <1>1, <1>3, <1>5, <1>6, MaxIs
  <1> QED
    BY <1>1, <1>3, <1>4, <1>6, <1>7 DEF k

LEMMA FormIsOne ==
    ASSUME NEW q \in Query, NEW c
    PROVE  BinaryRescoreLimit(c, q) = Nothing <=> Form(c, q) # "binary"
BY PoolIs, NumbersAssumption

\* What ORDER BY and LIMIT may give, by a key and by the rank of a hit.
LEMMA LimitIs ==
    ASSUME NEW S \in SUBSET Embeddings, NEW k \in Nat
    PROVE  kSubset(Min({k, Cardinality(S)}), S) = {T \in SUBSET S : Cardinality(T) = Smaller(k, Cardinality(S))}
  <1>1. Cardinality(S) \in Nat
    BY Sizes
  <1>2. Min({k, Cardinality(S)}) = Smaller(k, Cardinality(S))
    BY <1>1, MinOfTwo DEF Smaller
  <1> QED
    BY <1>2 DEF kSubset

LEMMA NearestIs ==
    ASSUME NEW q \in Query, NEW S \in SUBSET Embeddings, NEW k \in Nat
    PROVE  {T \in kSubset(Min({k, Cardinality(S)}), S) : \A e \in T, f \in S \ T : Rank(q, e) <= Rank(q, f)}
             = First(S, ByDistance(q), k)
  <1>1. \A e \in S, f \in S : Rank(q, e) <= Rank(q, f) <=> ByDistance(q)[e] <= ByDistance(q)[f]
    BY RankIsDistance
  <1> QED
    BY <1>1, LimitIs DEF First

\* The k rows of S that a scan of the form may yield.
Scanned(S, q, form, k) ==
    {T \in kSubset(Min({k, Cardinality(S)}), S) :
        \A e \in T, f \in S \ T : ScanKey(q, form, e) <= ScanKey(q, form, f)}

LEMMA ScannedIs ==
    ASSUME NEW q \in Query, NEW form, NEW S \in SUBSET Embeddings, NEW k \in Nat
    PROVE  Scanned(S, q, form, k) = First(S, IF form = "binary" THEN ByHamming ELSE ByDistance(q), k)
  <1> DEFINE d == IF form = "binary" THEN ByHamming ELSE ByDistance(q)
  <1>1. \A e \in S : ScanKey(q, form, e) = d[e]
    BY DEF ScanKey, ByHamming, ByDistance
  <1> HIDE DEF d
  <1>2. Scanned(S, q, form, k) = First(S, d, k)
    BY <1>1, LimitIs DEF First, Scanned
  <1> QED
    BY <1>2 DEF d

LEMMA ScanScans ==
    ASSUME NEW c, NEW q, NEW form, NEW k, NEW ef
    PROVE  Scan(c, q, form, k, ef)
             = UNION {Scanned({e \in S : q.filtered => e.passes}, q, form, k) :
                         S \in Reached(c, q, form, ef, IterativeScan)}
BY DEF Scan, Nearest, Scanned

\* With iterative scans a scan reaches all rows that pass its filters.
LEMMA ScanIs ==
    ASSUME RowsStored, IterativeScan, NEW c, NEW q \in Query, NEW form, NEW k \in Nat, NEW ef
    PROVE  /\ Own(c, q) \in SUBSET Embeddings
           /\ Scan(c, q, form, k, ef)
                = First(Own(c, q), IF form = "binary" THEN ByHamming ELSE ByDistance(q), k)
  <1> DEFINE own == Own(c, q)
             all == {e \in rows : e.collection = c.id}
  <1>1. own \in SUBSET Embeddings
    BY DEF RowsStored, Own
  <1>2. Reached(c, q, form, ef, IterativeScan) = {all}
    BY DEF Reached
  <1>3. {e \in all : q.filtered => e.passes} = own
    BY DEF Own
  <1> DEFINE Ways(S) == Scanned(S, q, form, k)
             reached == Reached(c, q, form, ef, IterativeScan)
  <1>4. Scan(c, q, form, k, ef) = UNION {Ways({e \in S : q.filtered => e.passes}) : S \in reached}
    BY ScanScans
  <1>5. Ways(own) = First(own, IF form = "binary" THEN ByHamming ELSE ByDistance(q), k)
    BY <1>1, ScannedIs
  <1> HIDE DEF all, Ways, reached
  <1>6. Scan(c, q, form, k, ef) = Ways(own)
    <2>1. reached = {all}
      BY <1>2 DEF reached
    <2> HIDE DEF own
    <2> QED
      BY <1>3, <1>4, <2>1
  <1> QED
    BY <1>1, <1>5, <1>6

\* A search finds what is stored.
LEMMA ScansFindRows ==
    ASSUME RowsStored, NEW c, NEW q \in Query, NEW form, NEW k, NEW ef
    PROVE  Scan(c, q, form, k, ef) \in SUBSET (SUBSET Embeddings)
  <1>1. \A S \in Reached(c, q, form, ef, IterativeScan) : S \in SUBSET Embeddings
    BY DEF RowsStored, Reached, Nearest, kSubset
  <1>2. ASSUME NEW T \in Scan(c, q, form, k, ef)
        PROVE  T \in SUBSET Embeddings
    <2>1. PICK S \in Reached(c, q, form, ef, IterativeScan) :
                 T \in SUBSET {e \in S : q.filtered => e.passes}
      BY DEF Scan, Nearest, kSubset
    <2> QED
      BY <1>1, <2>1
  <1> QED
    BY <1>2

\* What passes a threshold, of these rows.
Kept(S, q) == {e \in S : Within(q, e)}

\* What the first k of each of these sets may be.
FirstOf(results, q) == UNION {First(hits, ByDistance(q), q.top_k) : hits \in results}

LEMMA SearchInCollectionIs ==
    ASSUME RowsStored, NEW c, NEW q \in Query
    PROVE  LET ef == Ef({BinaryRescoreLimit(c, q)}) IN
           /\ Form(c, q) # "binary" =>
                 SearchInCollection(c, q) = {Kept(hits, q) : hits \in Scan(c, q, "direct", q.top_k, ef)}
           /\ Form(c, q) = "binary" =>
                 SearchInCollection(c, q)
                   = FirstOf({Kept(hits, q) : hits \in Scan(c, q, "binary", Pool(q), ef)}, q)
  <1> DEFINE ef == Ef({BinaryRescoreLimit(c, q)})
             R == Scan(c, q, "binary", Pool(q), ef)
             Ranked(S) == {T \in kSubset(Min({q.top_k, Cardinality(S)}), S) :
                              \A e \in T, f \in S \ T : Rank(q, e) <= Rank(q, f)}
  <1>1. Form(c, q) # "binary" =>
           SearchInCollection(c, q) = {Kept(hits, q) : hits \in Scan(c, q, "direct", q.top_k, ef)}
    BY FormIsOne DEF SearchInCollection, Kept
  <1>2. ASSUME Form(c, q) = "binary"
        PROVE  SearchInCollection(c, q) = FirstOf({Kept(hits, q) : hits \in R}, q)
    <2>1. BinaryRescoreLimit(c, q) = Pool(q) /\ Pool(q) # Nothing
      BY <1>2, PoolIs, FormIsOne
    <2>2. SearchInCollection(c, q) = UNION {Ranked(Kept(hits, q)) : hits \in R}
      BY <2>1 DEF SearchInCollection, Nearest, Kept
    <2>3. ASSUME NEW hits \in R
          PROVE  Ranked(Kept(hits, q)) = First(Kept(hits, q), ByDistance(q), q.top_k)
      <3>1. Kept(hits, q) \in SUBSET Embeddings
        BY ScansFindRows DEF Kept
      <3>2. q.top_k \in Nat
        BY PoolIs
      <3> HIDE DEF R
      <3> QED
        BY <3>1, <3>2, NearestIs
    <2> HIDE DEF R, Ranked
    <2> QED
      BY <2>2, <2>3 DEF FirstOf
  <1> QED
    BY <1>1, <1>2

LEMMA ArmIs ==
    ASSUME RowsStored, NEW c, NEW q \in Query, NEW ef
    PROVE  /\ Form(c, q) # "binary" => Arm(c, q, ef) = Scan(c, q, "direct", q.top_k, ef)
           /\ Form(c, q) = "binary" => Arm(c, q, ef) = FirstOf(Scan(c, q, "binary", Pool(q), ef), q)
           /\ Arm(c, q, ef) \in SUBSET (SUBSET Embeddings)
  <1> DEFINE R == Scan(c, q, "binary", Pool(q), ef)
             Ranked(S) == {T \in kSubset(Min({q.top_k, Cardinality(S)}), S) :
                              \A e \in T, f \in S \ T : Rank(q, e) <= Rank(q, f)}
  <1>1. Form(c, q) # "binary" => Arm(c, q, ef) = Scan(c, q, "direct", q.top_k, ef)
    BY FormIsOne DEF Arm
  <1>2. ASSUME Form(c, q) = "binary"
        PROVE  Arm(c, q, ef) = FirstOf(R, q)
    <2>1. BinaryRescoreLimit(c, q) = Pool(q) /\ Pool(q) # Nothing
      BY <1>2, PoolIs, FormIsOne
    <2>2. Arm(c, q, ef) = UNION {Ranked(hits) : hits \in R}
      BY <2>1 DEF Arm, Nearest
    <2>3. ASSUME NEW hits \in R
          PROVE  Ranked(hits) = First(hits, ByDistance(q), q.top_k)
      <3>1. hits \in SUBSET Embeddings
        BY ScansFindRows
      <3>2. q.top_k \in Nat
        BY PoolIs
      <3> HIDE DEF R
      <3> QED
        BY <3>1, <3>2, NearestIs
    <2> HIDE DEF R, Ranked
    <2> QED
      BY <2>2, <2>3 DEF FirstOf
  <1>3. R \in SUBSET (SUBSET Embeddings) /\ Scan(c, q, "direct", q.top_k, ef) \in SUBSET (SUBSET Embeddings)
    BY ScansFindRows
  <1>4. FirstOf(R, q) \in SUBSET (SUBSET Embeddings)
    <2> HIDE DEF R
    <2> QED
      BY <1>3 DEF FirstOf, First
  <1> QED
    BY <1>1, <1>2, <1>3, <1>4

\* The arms of a search and the ef of their transaction: what the arms may give.
EfOf(cs, q) == Ef({BinaryRescoreLimit(c, q) : c \in Targets(cs, q)})
ArmHits(cs, q) ==
    {hits \in [Targets(cs, q) -> SUBSET Embeddings] :
        \A c \in Targets(cs, q) : hits[c] \in Arm(c, q, EfOf(cs, q))}
AllOf(cs, q, hits) == Together(Targets(cs, q), hits)

\* To choose one of the possible results for each is to choose a set of rows.
LEMMA OneOfEachIs ==
    ASSUME NEW C, NEW results, \A c \in C : results[c] \in SUBSET (SUBSET Embeddings)
    PROVE  {r \in [C -> UNION {results[c] : c \in C}] : \A c \in C : r[c] \in results[c]}
             = {r \in [C -> SUBSET Embeddings] : \A c \in C : r[c] \in results[c]}
  <1>1. ASSUME NEW r \in [C -> UNION {results[c] : c \in C}], \A c \in C : r[c] \in results[c]
        PROVE  r \in [C -> SUBSET Embeddings]
    BY <1>1
  <1>2. ASSUME NEW r \in [C -> SUBSET Embeddings], \A c \in C : r[c] \in results[c]
        PROVE  r \in [C -> UNION {results[c] : c \in C}]
    BY <1>2
  <1> QED
    BY <1>1, <1>2

LEMMA AcrossIs ==
    ASSUME RowsStored, NEW cs, NEW q \in Query
    PROVE  SearchAcrossCollections(cs, q)
             = FirstOf({Kept(AllOf(cs, q, hits), q) : hits \in ArmHits(cs, q)}, q)
  <1> DEFINE C == Targets(cs, q)
             results == [c \in C |-> Arm(c, q, EfOf(cs, q))]
             ways == {r \in [C -> UNION {results[c] : c \in C}] : \A c \in C : r[c] \in results[c]}
             Ranked(S) == {T \in kSubset(Min({q.top_k, Cardinality(S)}), S) :
                              \A e \in T, f \in S \ T : Rank(q, e) <= Rank(q, f)}
  <1>1. \A c \in C : results[c] \in SUBSET (SUBSET Embeddings)
    <2>1. \A c : Arm(c, q, EfOf(cs, q)) \in SUBSET (SUBSET Embeddings)
      BY ArmIs
    <2> QED
      BY <2>1
  <1>2. ways = {r \in [C -> SUBSET Embeddings] : \A c \in C : r[c] \in results[c]}
    <2> HIDE DEF C, results
    <2> QED
      BY <1>1, OneOfEachIs
  <1>3. ways = ArmHits(cs, q)
    BY <1>2 DEF ArmHits
  <1>4. SearchAcrossCollections(cs, q) = UNION {Ranked(Kept(AllOf(cs, q, hits), q)) : hits \in ways}
    <2>1. \A c \in C : results[c] = Arm(c, q, EfOf(cs, q))
      OBVIOUS
    <2>2. ways = {r \in [C -> UNION {Arm(c, q, EfOf(cs, q)) : c \in C}] :
                     \A c \in C : r[c] \in Arm(c, q, EfOf(cs, q))}
      <3> HIDE DEF results
      <3> QED
        BY <2>1
    <2> HIDE DEF ways
    <2> QED
      BY <2>2 DEF SearchAcrossCollections, OneOfEach, Nearest, Kept, AllOf, Together, EfOf
  <1>5. ASSUME NEW hits \in ArmHits(cs, q)
        PROVE  Ranked(Kept(AllOf(cs, q, hits), q))
                 = First(Kept(AllOf(cs, q, hits), q), ByDistance(q), q.top_k)
    <2>1. Kept(AllOf(cs, q, hits), q) \in SUBSET Embeddings
      BY DEF ArmHits, AllOf, Together, Kept
    <2>2. q.top_k \in Nat
      BY PoolIs
    <2> QED
      BY <2>1, <2>2, NearestIs
  <1> HIDE DEF ways, Ranked
  <1> QED
    BY <1>3, <1>4, <1>5 DEF FirstOf

-----------------------------------------------------------------------------
(* SearchesFill and MergeIsGlobalTopK: with iterative scans.                *)

\* What a search of c may rank: its rows, or candidates of the binary form.
Candidates(c, q) ==
    IF Form(c, q) = "binary" THEN First(Own(c, q), ByHamming, Pool(q)) ELSE {Own(c, q)}

LEMMA CandidatesAre ==
    ASSUME RowsStored, IterativeScan, NEW c, NEW q \in Query
    PROVE  /\ Own(c, q) \in SUBSET Embeddings
           /\ Candidates(c, q) \in SUBSET (SUBSET Own(c, q))
           /\ \A ef : Arm(c, q, ef) = FirstOf(Candidates(c, q), q)
           /\ (\A e : Within(q, e)) => SearchInCollection(c, q) = FirstOf(Candidates(c, q), q)
           /\ \A ef : Candidates(c, q) = IF BinaryRescoreLimit(c, q) = Nothing THEN {Own(c, q)}
                                         ELSE Scan(c, q, "binary", BinaryRescoreLimit(c, q), ef)
  <1> DEFINE own == Own(c, q)
             best == First(own, ByHamming, Pool(q))
             nearest == First(own, ByDistance(q), q.top_k)
  <1>1. own \in SUBSET Embeddings /\ q.top_k \in Nat /\ Pool(q) \in Nat
    BY ScanIs, PoolIs
  <1>2. \A ef : Scan(c, q, "direct", q.top_k, ef) = nearest
    BY <1>1, ScanIs
  <1>3. \A ef : Scan(c, q, "binary", Pool(q), ef) = best
    BY <1>1, ScanIs
  <1>4. Candidates(c, q) = (IF Form(c, q) = "binary" THEN best ELSE {own})
        /\ best \in SUBSET (SUBSET own)
    BY DEF Candidates, First
  <1>5. FirstOf({own}, q) = nearest
    BY DEF FirstOf
  <1> HIDE DEF own, best, nearest
  <1>6. \A ef : Arm(c, q, ef) = FirstOf(Candidates(c, q), q)
    BY <1>2, <1>3, <1>4, <1>5, ArmIs
  <1>7. ASSUME \A e : Within(q, e)
        PROVE  SearchInCollection(c, q) = FirstOf(Candidates(c, q), q)
    <2>1. \A S : Kept(S, q) = S
      BY <1>7 DEF Kept
    <2>2. \A R : {Kept(hits, q) : hits \in R} = R
      BY <2>1
    <2> DEFINE ef == Ef({BinaryRescoreLimit(c, q)})
    <2>3. Form(c, q) # "binary" => SearchInCollection(c, q) = Scan(c, q, "direct", q.top_k, ef)
      BY <2>2, SearchInCollectionIs
    <2>4. Form(c, q) = "binary" => SearchInCollection(c, q) = FirstOf(Scan(c, q, "binary", Pool(q), ef), q)
      BY <2>2, SearchInCollectionIs
    <2> HIDE DEF ef
    <2> QED
      BY <1>2, <1>3, <1>4, <1>5, <2>3, <2>4
  <1>8. \A ef : Candidates(c, q) = IF BinaryRescoreLimit(c, q) = Nothing THEN {own}
                                   ELSE Scan(c, q, "binary", BinaryRescoreLimit(c, q), ef)
    BY <1>3, <1>4, PoolIs, FormIsOne
  <1>9. Candidates(c, q) \in SUBSET (SUBSET own)
    BY <1>4
  <1> QED
    BY <1>1, <1>6, <1>7, <1>8, <1>9 DEF own

\* Enough candidates for a full answer, or all there are; and some answer.
LEMMA FirstOfCandidates ==
    ASSUME RowsStored, IterativeScan, NEW c, NEW q \in Query
    PROVE  LET n == Cardinality(Own(c, q)) IN
           /\ n \in Nat /\ FirstOf(Candidates(c, q), q) # {}
           /\ \A hits \in FirstOf(Candidates(c, q), q) :
                 hits \in SUBSET Own(c, q) /\ Cardinality(hits) = Smaller(q.top_k, n)
  <1> DEFINE own == Own(c, q)
             k == q.top_k
             d == ByDistance(q)
             some == Candidates(c, q)
  <1>1. own \in SUBSET Embeddings /\ k \in Nat /\ Pool(q) \in Nat /\ k <= Pool(q)
    BY CandidatesAre, PoolIs
  <1>2. IsKey(ByHamming) /\ IsKey(d)
    BY KeysAre
  <1>3. Cardinality(own) \in Nat
    BY <1>1, Sizes
  <1>4. some # {} /\ some \in SUBSET (SUBSET own)
    <2>1. First(own, ByHamming, Pool(q)) # {}
      BY <1>1, <1>2, FirstExists
    <2>2. some # {}
      BY <2>1 DEF Candidates
    <2> QED
      BY <2>2, CandidatesAre
  <1>5. ASSUME NEW S \in some
        PROVE  /\ S \in SUBSET Embeddings /\ Cardinality(S) \in Nat
               /\ Cardinality(S) = Cardinality(own) \/ Cardinality(S) = Smaller(Pool(q), Cardinality(own))
    <2>1. S \in SUBSET Embeddings
      BY <1>1, <1>4
    <2>2. Cardinality(S) \in Nat
      BY <2>1, Sizes
    <2>3. Cardinality(S) = Cardinality(own) \/ Cardinality(S) = Smaller(Pool(q), Cardinality(own))
      BY DEF Candidates, First
    <2> QED
      BY <2>1, <2>2, <2>3
  <1> HIDE DEF own, k, d, some
  <1>6. \E S \in some : First(S, d, k) # {}
    <2>1. PICK S : S \in some
      BY <1>4
    <2> QED
      BY <1>1, <1>2, <1>5, <2>1, FirstExists
  <1>7. ASSUME NEW S \in some, NEW hits \in First(S, d, k)
        PROVE  hits \in SUBSET own /\ Cardinality(hits) = Smaller(k, Cardinality(own))
    <2>1. hits \in SUBSET S /\ Cardinality(hits) = Smaller(k, Cardinality(S))
      BY DEF First
    <2>2. Cardinality(hits) = Smaller(k, Cardinality(own))
      BY <1>1, <1>3, <1>5, <2>1 DEF Smaller
    <2> QED
      BY <1>4, <2>1, <2>2
  <1>8. FirstOf(some, q) = UNION {First(S, d, k) : S \in some}
    BY DEF FirstOf, d, k
  <1>9. FirstOf(some, q) # {}
    BY <1>6, <1>8
  <1>10. \A hits \in FirstOf(some, q) : hits \in SUBSET own /\ Cardinality(hits) = Smaller(k, Cardinality(own))
    BY <1>7, <1>8
  <1> QED
    BY <1>3, <1>9, <1>10 DEF own, k, some

LEMMA NoThreshold ==
    ASSUME NEW q \in Query, q.min_value = Nothing, q.max_value = Nothing
    PROVE  (\A e : Within(q, e)) /\ \A S : Kept(S, q) = S
BY DEF Within, Kept

\* A search across collections takes the first of what its arms give.
LEMMA AcrossIsFirst ==
    ASSUME RowsStored, NEW cs, NEW q \in Query, q.min_value = Nothing, q.max_value = Nothing
    PROVE  SearchAcrossCollections(cs, q) = FirstOf({AllOf(cs, q, hits) : hits \in ArmHits(cs, q)}, q)
  <1>1. \A hits : Kept(AllOf(cs, q, hits), q) = AllOf(cs, q, hits)
    BY NoThreshold
  <1>2. SearchAcrossCollections(cs, q)
          = FirstOf({Kept(AllOf(cs, q, hits), q) : hits \in ArmHits(cs, q)}, q)
    BY AcrossIs
  <1> QED
    BY <1>1, <1>2

\* An answer is full unless the rows are fewer, although hits are taken from
\* candidates per arm: an arm that leaves out a row is full itself.
LEMMA AcrossFills ==
    ASSUME RowsStored, IterativeScan, NEW cs, NEW q \in Query, q.min_value = Nothing, q.max_value = Nothing
    PROVE  LET n == Cardinality(UNION {Own(c, q) : c \in Targets(cs, q)}) IN
           /\ n \in Nat /\ SearchAcrossCollections(cs, q) # {}
           /\ \A answer \in SearchAcrossCollections(cs, q) : Cardinality(answer) = Smaller(q.top_k, n)
  <1> DEFINE C == Targets(cs, q)
             all == UNION {Own(c, q) : c \in C}
             k == q.top_k
             d == ByDistance(q)
             ways == ArmHits(cs, q)
             Some(hits) == UNION {hits[c] : c \in C}
  <1>1. all \in SUBSET Embeddings
    BY CandidatesAre
  <1>2. k \in Nat /\ IsKey(d) /\ Cardinality(all) \in Nat
    BY <1>1, KeysAre, PoolIs, Sizes
  <1>3. SearchAcrossCollections(cs, q) = UNION {First(Some(hits), d, k) : hits \in ways}
    <2>1. \A hits : AllOf(cs, q, hits) = Some(hits)
      BY DEF AllOf, Together
    <2> HIDE DEF Some, ways
    <2>2. SearchAcrossCollections(cs, q) = FirstOf({Some(hits) : hits \in ways}, q)
      BY <2>1, AcrossIsFirst DEF ways
    <2>3. FirstOf({Some(hits) : hits \in ways}, q) = UNION {First(Some(hits), d, k) : hits \in ways}
      BY DEF FirstOf
    <2> QED
      BY <2>2, <2>3
  <1>4. ASSUME NEW c \in C
        PROVE  /\ Cardinality(Own(c, q)) \in Nat /\ Arm(c, q, EfOf(cs, q)) # {}
               /\ \A h \in Arm(c, q, EfOf(cs, q)) :
                     h \in SUBSET Own(c, q) /\ Cardinality(h) = Smaller(k, Cardinality(Own(c, q)))
    <2>1. Arm(c, q, EfOf(cs, q)) = FirstOf(Candidates(c, q), q)
      BY CandidatesAre
    <2> QED
      BY <2>1, FirstOfCandidates
  <1>5. ways # {}
    <2> DEFINE hits == [c \in C |-> CHOOSE h \in Arm(c, q, EfOf(cs, q)) : TRUE]
    <2>1. \A c \in C : hits[c] \in Arm(c, q, EfOf(cs, q))
      BY <1>4
    <2>2. \A c \in C : Own(c, q) \in SUBSET Embeddings
      BY CandidatesAre
    <2>3. \A c \in C : hits[c] \in SUBSET Embeddings
      BY <1>4, <2>1, <2>2
    <2>4. hits = [c \in C |-> hits[c]]
      OBVIOUS
    <2> HIDE DEF hits, C
    <2>5. hits \in [C -> SUBSET Embeddings]
      BY <2>3, <2>4
    <2> QED
      BY <2>1, <2>5 DEF ArmHits, C
  <1>6. ASSUME NEW hits \in ways
        PROVE  /\ \A c \in C : hits[c] \in Arm(c, q, EfOf(cs, q)) /\ hits[c] \in SUBSET Own(c, q)
               /\ Some(hits) \in SUBSET all
    <2>1. \A c \in C : hits[c] \in Arm(c, q, EfOf(cs, q))
      BY DEF ArmHits
    <2>2. \A c \in C : hits[c] \in SUBSET Own(c, q)
      BY <1>4, <2>1
    <2> QED
      BY <2>1, <2>2
  <1>7. ASSUME NEW hits \in ways, NEW answer \in First(Some(hits), d, k)
        PROVE  Cardinality(answer) = Smaller(k, Cardinality(all))
    <2> DEFINE some == Some(hits)
    <2>1. some \in SUBSET all /\ \A c \in C : hits[c] \in SUBSET some
      BY <1>6
    <2>2. \A e \in all : \E c \in C : e \in Own(c, q)
      OBVIOUS
    <2>3. Cardinality(answer) = Smaller(k, Cardinality(some))
      BY DEF First
    <2> HIDE DEF C, all, some, k, ways
    <2>4. some \in SUBSET Embeddings
      BY <1>1, <2>1
    <2>5. Cardinality(some) \in Nat /\ Cardinality(some) <= Cardinality(all)
      BY <1>1, <2>1, Sizes
    <2>6. CASE some = all
      BY <2>3, <2>6
    <2>7. CASE some # all
      <3>1. PICK e \in all : e \notin some
        BY <2>1, <2>7
      <3>2. PICK c \in C : e \in Own(c, q)
        BY <2>2, <3>1
      <3>3. /\ hits[c] \in SUBSET Own(c, q) /\ Cardinality(hits[c]) = Smaller(k, Cardinality(Own(c, q)))
            /\ Cardinality(Own(c, q)) \in Nat /\ hits[c] # Own(c, q)
        BY <1>4, <1>6, <2>1, <3>1, <3>2
      <3>4. Own(c, q) \in SUBSET Embeddings
        BY CandidatesAre
      <3>5. Cardinality(hits[c]) # Cardinality(Own(c, q))
        BY <3>3, <3>4, Sizes
      <3>6. Cardinality(hits[c]) = k
        BY <3>3, <3>5 DEF Smaller
      <3>7. k <= Cardinality(some)
        BY <2>1, <2>4, <3>6, Sizes
      <3> QED
        BY <1>2, <2>3, <2>5, <3>7 DEF Smaller
    <2> QED
      BY <2>6, <2>7
  <1>8. \E hits \in ways : First(Some(hits), d, k) # {}
    <2>1. PICK hits : hits \in ways
      BY <1>5
    <2>2. Some(hits) \in SUBSET Embeddings
      BY <1>1, <1>6, <2>1
    <2> HIDE DEF Some, ways, d, k
    <2>3. First(Some(hits), d, k) # {}
      BY <1>2, <2>2, FirstExists
    <2> QED
      BY <2>1, <2>3
  <1> HIDE DEF Some, ways, d, k, all
  <1>9. SearchAcrossCollections(cs, q) # {}
    BY <1>3, <1>8
  <1>10. \A answer \in SearchAcrossCollections(cs, q) : Cardinality(answer) = Smaller(k, Cardinality(all))
    BY <1>3, <1>7
  <1> QED
    BY <1>2, <1>9, <1>10 DEF k, all

\* SearchMixin: a search without thresholds is short of top_k only where the
\* rows are, by any index known, of any quality, for any number of collections.
THEOREM AnswersAreFull == ASSUME IterativeScan PROVE SearchSpec => []SearchesFill
  <1>1. ASSUME RowsStored
        PROVE  SearchesFill
    <2> SUFFICES ASSUME NEW q \in Queries, q.min_value = Nothing, q.max_value = Nothing
                 PROVE  /\ \A c \in Targets(Collections, q) :
                              {Cardinality(hits) : hits \in SearchInCollection(c, q)}
                                = {Min({q.top_k, Cardinality(Own(c, q))})}
                        /\ {Cardinality(hits) : hits \in SearchAcrossCollections(Collections, q)}
                             = {Min({q.top_k, Cardinality(UNION {Own(c, q) : c \in Targets(Collections, q)})})}
      BY DEF SearchesFill
    <2>1. q \in Query /\ q.top_k \in Nat
      BY QueriesAssumption, PoolIs
    <2>2. ASSUME NEW R, R # {}, NEW n \in Nat, \A hits \in R : Cardinality(hits) = Smaller(q.top_k, n)
          PROVE  {Cardinality(hits) : hits \in R} = {Min({q.top_k, n})}
      <3>1. Min({q.top_k, n}) = Smaller(q.top_k, n)
        BY <2>1, MinOfTwo DEF Smaller
      <3> QED
        BY <2>2, <3>1
    <2>3. ASSUME NEW c
          PROVE  {Cardinality(hits) : hits \in SearchInCollection(c, q)}
                   = {Min({q.top_k, Cardinality(Own(c, q))})}
      <3>1. SearchInCollection(c, q) = FirstOf(Candidates(c, q), q)
        BY <1>1, <2>1, CandidatesAre, NoThreshold
      <3>2. /\ Cardinality(Own(c, q)) \in Nat /\ SearchInCollection(c, q) # {}
            /\ \A hits \in SearchInCollection(c, q) :
                  Cardinality(hits) = Smaller(q.top_k, Cardinality(Own(c, q)))
        BY <1>1, <2>1, <3>1, FirstOfCandidates
      <3> QED
        BY <2>2, <3>2
    <2>4. {Cardinality(hits) : hits \in SearchAcrossCollections(Collections, q)}
            = {Min({q.top_k, Cardinality(UNION {Own(c, q) : c \in Targets(Collections, q)})})}
      <3> DEFINE n == Cardinality(UNION {Own(c, q) : c \in Targets(Collections, q)})
      <3>1. /\ n \in Nat /\ SearchAcrossCollections(Collections, q) # {}
            /\ \A hits \in SearchAcrossCollections(Collections, q) : Cardinality(hits) = Smaller(q.top_k, n)
        BY <1>1, <2>1, AcrossFills
      <3> HIDE DEF n
      <3>2. {Cardinality(hits) : hits \in SearchAcrossCollections(Collections, q)} = {Min({q.top_k, n})}
        BY <2>2, <3>1
      <3> QED
        BY <3>2 DEF n
    <2> QED
      BY <2>3, <2>4
  <1> QED
    BY <1>1, RowsInvariant, PTL

LEMMA DistanceIs ==
    ASSUME NEW q \in Query, NEW S \in SUBSET Embeddings, NEW k \in Nat
    PROVE  {T \in kSubset(Min({k, Cardinality(S)}), S) : \A e \in T, f \in S \ T : Dist(q, e) <= Dist(q, f)}
             = First(S, ByDistance(q), k)
  <1>1. \A e \in S : ByDistance(q)[e] = Dist(q, e)
    BY DEF ByDistance
  <1> QED
    BY <1>1, LimitIs DEF First

\* One of the possible candidates of each collection.
PoolsOf(cs, q) ==
    {pool \in [Targets(cs, q) -> SUBSET Embeddings] : \A c \in Targets(cs, q) : pool[c] \in Candidates(c, q)}

\* What a search across collections gives is the first of the candidates.
LEMMA ArmsGiveFirst ==
    ASSUME RowsStored, IterativeScan, NEW cs, NEW q \in Query, NEW hits \in ArmHits(cs, q),
           NEW R \in First(AllOf(cs, q, hits), ByDistance(q), q.top_k)
    PROVE  \E pool \in PoolsOf(cs, q) : R \in First(AllOf(cs, q, pool), ByDistance(q), q.top_k)
  <1> DEFINE C == Targets(cs, q)
             d == ByDistance(q)
             k == q.top_k
             pool == [c \in C |-> CHOOSE S \in Candidates(c, q) : hits[c] \in First(S, d, k)]
  <1>1. IsKey(d) /\ k \in Nat
    BY KeysAre, PoolIs
  <1>2. ASSUME NEW c \in C
        PROVE  pool[c] \in Candidates(c, q) /\ hits[c] \in First(pool[c], d, k) /\ pool[c] \in SUBSET Embeddings
    <2>1. hits[c] \in FirstOf(Candidates(c, q), q)
      BY CandidatesAre DEF ArmHits
    <2>2. \E S \in Candidates(c, q) : hits[c] \in First(S, d, k)
      BY <2>1 DEF FirstOf
    <2>3. pool[c] \in Candidates(c, q) /\ hits[c] \in First(pool[c], d, k)
      BY <2>2
    <2> HIDE DEF pool
    <2> QED
      BY <2>3, CandidatesAre
  <1>3. pool = [c \in C |-> pool[c]]
    OBVIOUS
  <1>4. R \in First(Together(C, hits), d, k)
    BY DEF AllOf
  <1> HIDE DEF pool, d, k, C
  <1>5. pool \in [C -> SUBSET Embeddings]
    BY <1>2, <1>3
  <1>6. R \in First(Together(C, pool), d, k)
    BY <1>1, <1>2, <1>4, <1>5, MergesToFirst
  <1>7. pool \in PoolsOf(cs, q)
    BY <1>2, <1>5 DEF PoolsOf, C
  <1> QED
    BY <1>6, <1>7 DEF AllOf, C, d, k

LEMMA ArmsGiveAnyFirst ==
    ASSUME RowsStored, IterativeScan, NEW cs, NEW q \in Query, NEW pool \in PoolsOf(cs, q),
           NEW R \in First(AllOf(cs, q, pool), ByDistance(q), q.top_k)
    PROVE  \E hits \in ArmHits(cs, q) : R \in First(AllOf(cs, q, hits), ByDistance(q), q.top_k)
  <1> DEFINE C == Targets(cs, q)
             d == ByDistance(q)
             k == q.top_k
  <1>1. IsKey(d) /\ k \in Nat
    BY KeysAre, PoolIs
  <1>2. pool \in [C -> SUBSET Embeddings] /\ \A c \in C : pool[c] \in Candidates(c, q)
    BY DEF PoolsOf
  <1>3. R \in First(Together(C, pool), d, k)
    BY DEF AllOf
  <1>4. \A c \in C : \A S \in Candidates(c, q) : First(S, d, k) \in SUBSET FirstOf(Candidates(c, q), q)
    BY DEF FirstOf
  <1>5. \A c \in C : Arm(c, q, EfOf(cs, q)) = FirstOf(Candidates(c, q), q)
    BY CandidatesAre
  <1> HIDE DEF d, k, C
  <1>6. PICK hits \in [C -> SUBSET Embeddings] :
               (\A c \in C : hits[c] \in First(pool[c], d, k)) /\ R \in First(Together(C, hits), d, k)
    BY <1>1, <1>2, <1>3, MergesToAnyFirst
  <1>7. \A c \in C : hits[c] \in Arm(c, q, EfOf(cs, q))
    BY <1>2, <1>4, <1>5, <1>6
  <1>8. hits \in ArmHits(cs, q)
    BY <1>6, <1>7 DEF ArmHits, C
  <1> QED
    BY <1>6, <1>8 DEF AllOf, C, d, k

\* build_multi_collection_search_sql: top_k of each arm and top_k of those are
\* the top_k of everything the arms rank, for rows at one distance in any order.
THEOREM ArmsMerge == ASSUME IterativeScan PROVE SearchSpec => []MergeIsGlobalTopK
  <1>1. ASSUME RowsStored
        PROVE  MergeIsGlobalTopK
    <2> SUFFICES ASSUME NEW q \in Queries, q.min_value = Nothing, q.max_value = Nothing
                 PROVE  LET targets == Targets(Collections, q)
                            ef == Ef({BinaryRescoreLimit(c, q) : c \in targets})
                            Key(e) == Dist(q, e)
                            Pools(c) == IF BinaryRescoreLimit(c, q) = Nothing THEN {Own(c, q)}
                                        ELSE Scan(c, q, "binary", BinaryRescoreLimit(c, q), ef)
                        IN  SearchAcrossCollections(Collections, q)
                              = UNION {Nearest(UNION {pool[c] : c \in targets}, Key, q.top_k) :
                                          pool \in OneOfEach(targets, Pools)}
      BY DEF MergeIsGlobalTopK
    <2> DEFINE C == Targets(Collections, q)
               d == ByDistance(q)
               k == q.top_k
               results == [c \in C |-> Candidates(c, q)]
               ways == {r \in [C -> UNION {results[c] : c \in C}] : \A c \in C : r[c] \in results[c]}
               Pools(c) == IF BinaryRescoreLimit(c, q) = Nothing THEN {Own(c, q)}
                           ELSE Scan(c, q, "binary", BinaryRescoreLimit(c, q), EfOf(Collections, q))
               Ranked(S) == {T \in kSubset(Min({k, Cardinality(S)}), S) :
                                \A e \in T, f \in S \ T : Dist(q, e) <= Dist(q, f)}
               All(r) == Together(C, r)
               merged == UNION {Ranked(All(r)) : r \in {r \in [C -> UNION {Pools(c) : c \in C}] :
                                                           \A c \in C : r[c] \in Pools(c)}}
    <2>1. q \in Query /\ k \in Nat
      BY QueriesAssumption, PoolIs
    <2>2. \A c \in C : results[c] = Pools(c) /\ results[c] \in SUBSET (SUBSET Embeddings)
      <3>1. \A c : Candidates(c, q) = Pools(c) /\ Candidates(c, q) \in SUBSET (SUBSET Embeddings)
        <4>1. \A c : /\ Own(c, q) \in SUBSET Embeddings
                     /\ Candidates(c, q) \in SUBSET (SUBSET Own(c, q))
                     /\ Candidates(c, q) = Pools(c)
          BY <1>1, <2>1, CandidatesAre
        <4> HIDE DEF Pools
        <4> QED
          BY <4>1
      <3> HIDE DEF Pools
      <3> QED
        BY <3>1
    <2>3. ways = PoolsOf(Collections, q)
      <3>1. ways = {r \in [C -> SUBSET Embeddings] : \A c \in C : r[c] \in results[c]}
        <4> HIDE DEF C, results
        <4> QED
          BY <2>2, OneOfEachIs
      <3> QED
        BY <3>1 DEF PoolsOf
    <2>4. merged = UNION {Ranked(All(r)) : r \in ways}
      <3> HIDE DEF results, Pools, Ranked, All, C
      <3> QED
        BY <2>2
    <2>5. ASSUME NEW pool \in PoolsOf(Collections, q)
          PROVE  Ranked(All(pool)) = First(AllOf(Collections, q, pool), d, k)
      <3>1. All(pool) \in SUBSET Embeddings /\ All(pool) = AllOf(Collections, q, pool)
        BY DEF PoolsOf, AllOf, Together
      <3> HIDE DEF All, k
      <3> QED
        BY <2>1, <3>1, DistanceIs
    <2>6. SearchAcrossCollections(Collections, q)
            = UNION {First(AllOf(Collections, q, hits), d, k) : hits \in ArmHits(Collections, q)}
      <3>1. SearchAcrossCollections(Collections, q)
              = FirstOf({AllOf(Collections, q, hits) : hits \in ArmHits(Collections, q)}, q)
        BY <1>1, <2>1, AcrossIsFirst
      <3> QED
        BY <3>1 DEF FirstOf
    <2>7. /\ \A hits \in ArmHits(Collections, q) : \A R \in First(AllOf(Collections, q, hits), d, k) :
                \E pool \in PoolsOf(Collections, q) : R \in First(AllOf(Collections, q, pool), d, k)
          /\ \A pool \in PoolsOf(Collections, q) : \A R \in First(AllOf(Collections, q, pool), d, k) :
                \E hits \in ArmHits(Collections, q) : R \in First(AllOf(Collections, q, hits), d, k)
      BY <1>1, <2>1, ArmsGiveFirst, ArmsGiveAnyFirst
    <2>8. SearchAcrossCollections(Collections, q) = merged
      <3> HIDE DEF d, k, ways, merged, Ranked, All
      <3> QED
        BY <2>3, <2>4, <2>5, <2>6, <2>7
    <2> QED
      BY <2>8 DEF OneOfEach, Nearest, EfOf, Together
  <1> QED
    BY <1>1, RowsInvariant, PTL

-----------------------------------------------------------------------------
(* FarBoundOnlyCuts.                                                        *)

\* Two searches that differ in their thresholds only scan and rank alike.
Alike(p, q) ==
    /\ p.metric = q.metric /\ p.top_k = q.top_k /\ p.filtered = q.filtered
    /\ p.vector_type = q.vector_type /\ p.dimensions = q.dimensions

LEMMA AlikeSearches ==
    ASSUME NEW p \in Query, NEW q \in Query, Alike(p, q)
    PROVE  /\ \A c : Form(c, p) = Form(c, q) /\ BinaryRescoreLimit(c, p) = BinaryRescoreLimit(c, q)
           /\ Pool(p) = Pool(q) /\ ByDistance(p) = ByDistance(q)
           /\ \A c, form, k, ef : Scan(c, p, form, k, ef) = Scan(c, q, form, k, ef)
           /\ \A cs : Targets(cs, p) = Targets(cs, q) /\ EfOf(cs, p) = EfOf(cs, q)
  <1>1. \A c : Form(c, p) = Form(c, q)
    BY DEF Alike, Form, ChooseIndex
  <1>2. Pool(p) = Pool(q)
    BY DEF Alike, Pool
  <1>3. \A c : BinaryRescoreLimit(c, p) = BinaryRescoreLimit(c, q)
    BY <1>1, <1>2, PoolIs
  <1>4. \A e : Dist(p, e) = Dist(q, e)
    BY DEF Alike, Dist
  <1>5. ByDistance(p) = ByDistance(q)
    BY <1>4 DEF ByDistance
  <1>6. \A form, e : ScanKey(p, form, e) = ScanKey(q, form, e)
    BY <1>4 DEF ScanKey
  <1>7. \A e, c, form : Serves(e, c, form, p) = Serves(e, c, form, q)
    BY DEF Alike, Serves
  <1>8. ASSUME NEW c, NEW form, NEW ef
        PROVE  Reached(c, p, form, ef, IterativeScan) = Reached(c, q, form, ef, IterativeScan)
    <2> DEFINE own == {e \in rows : e.collection = c.id}
    <2>1. Scanned(own, p, form, ef) = Scanned(own, q, form, ef)
      BY <1>6 DEF Scanned
    <2>2. \A r : Reached(c, r, form, ef, IterativeScan)
                  = IF ~IterativeScan /\ \E i \in catalog : Serves(i, c, form, r)
                      THEN Scanned(own, r, form, ef) ELSE {own}
      BY DEF Reached, Nearest, Scanned
    <2> HIDE DEF own
    <2> QED
      BY <1>7, <2>1, <2>2
  <1>9. ASSUME NEW c, NEW form, NEW k, NEW ef
        PROVE  Scan(c, p, form, k, ef) = Scan(c, q, form, k, ef)
    <2>1. \A S : Scanned({e \in S : p.filtered => e.passes}, p, form, k)
                  = Scanned({e \in S : q.filtered => e.passes}, q, form, k)
      BY <1>6 DEF Scanned, Alike
    <2> QED
      BY <1>8, <2>1, ScanScans
  <1>10. \A cs : Targets(cs, p) = Targets(cs, q)
    BY DEF Alike, Targets
  <1>11. \A cs : EfOf(cs, p) = EfOf(cs, q)
    BY <1>3, <1>10 DEF EfOf
  <1> QED
    BY <1>1, <1>2, <1>3, <1>5, <1>9, <1>10, <1>11

\* The bound on the far side keeps everything before what it keeps.
LEMMA BoundKeepsNearer ==
    ASSUME NEW q \in Query, NEW e \in Embeddings, NEW f \in Embeddings,
           IF q.metric = "cosine_similarity" THEN q.max_value = Nothing ELSE q.min_value = Nothing,
           Within(q, e), ByDistance(q)[f] <= ByDistance(q)[e]
    PROVE  Within(q, f)
  <1>1. Dist(q, e) \in Int /\ Dist(q, f) \in Int /\ Dist(q, f) <= Dist(q, e)
    BY EmbeddingsAssumption DEF Dist, Query, ByDistance
  <1>2. q.min_value \in Int \cup {Nothing} /\ q.max_value \in Int \cup {Nothing}
    BY DEF Query
  <1> QED
    BY <1>1, <1>2 DEF Within, Value

\* So the first k of what it keeps are what it keeps of the first k.
LEMMA FirstOfKept ==
    ASSUME NEW q \in Query, NEW S \in SUBSET Embeddings,
           IF q.metric = "cosine_similarity" THEN q.max_value = Nothing ELSE q.min_value = Nothing
    PROVE  First(Kept(S, q), ByDistance(q), q.top_k)
             = {Kept(T, q) : T \in First(S, ByDistance(q), q.top_k)}
  <1> DEFINE d == ByDistance(q)
             k == q.top_k
             W == {e \in Embeddings : Within(q, e)}
  <1>1. IsKey(d) /\ k \in Nat
    BY KeysAre, PoolIs
  <1>2. Kept(S, q) = S \cap W
    BY DEF Kept
  <1>3. ReachesUpTo(W, S, d)
    BY BoundKeepsNearer DEF ReachesUpTo
  <1>4. \A T \in First(S, d, k) : Kept(T, q) = T \cap W
    BY DEF Kept, First
  <1> HIDE DEF W, d, k
  <1>5. \A T \in First(S, d, k) : T \cap W \in First(S \cap W, d, k)
    BY <1>1, <1>3, CutIsFirst
  <1>6. ASSUME NEW R \in First(S \cap W, d, k)
        PROVE  \E T \in First(S, d, k) : R = T \cap W
    BY <1>1, <1>3, <1>6, CutIsAnyFirst
  <1>7. First(S \cap W, d, k) = {Kept(T, q) : T \in First(S, d, k)}
    <2> DEFINE G == First(S, d, k)
               V == First(S \cap W, d, k)
    <2>1. /\ \A T \in G : Kept(T, q) \in V
          /\ \A R \in V : \E T \in G : R = Kept(T, q)
      BY <1>4, <1>5, <1>6
    <2> HIDE DEF G, V
    <2>2. V = {Kept(T, q) : T \in G}
      BY <2>1
    <2> QED
      BY <2>2 DEF G, V
  <1> QED
    BY <1>2, <1>7 DEF d, k

LEMMA FirstOfAllKept ==
    ASSUME NEW q \in Query, NEW results \in SUBSET (SUBSET Embeddings),
           IF q.metric = "cosine_similarity" THEN q.max_value = Nothing ELSE q.min_value = Nothing
    PROVE  FirstOf({Kept(S, q) : S \in results}, q) = {Kept(T, q) : T \in FirstOf(results, q)}
  <1> DEFINE Ways(S) == First(S, ByDistance(q), q.top_k)
  <1>1. \A S \in results : Ways(Kept(S, q)) = {Kept(T, q) : T \in Ways(S)}
    BY FirstOfKept
  <1>2. /\ FirstOf({Kept(S, q) : S \in results}, q) = UNION {Ways(Kept(S, q)) : S \in results}
        /\ FirstOf(results, q) = UNION {Ways(S) : S \in results}
    BY DEF FirstOf
  <1> HIDE DEF Ways
  <1> QED
    BY <1>1, <1>2

\* _threshold_clauses: the bound that drops distant hits changes nothing of the
\* others, for any scans, with and without iterative ones, and rows at one
\* distance in any order.
THEOREM FarBoundsOnlyCut == SearchSpec => []FarBoundOnlyCuts
  <1>1. ASSUME RowsStored
        PROVE  FarBoundOnlyCuts
    <2> SUFFICES ASSUME NEW q \in Queries,
                        IF q.metric = "cosine_similarity" THEN q.max_value = Nothing ELSE q.min_value = Nothing
                 PROVE  LET open == [q EXCEPT !.min_value = Nothing, !.max_value = Nothing] IN
                        /\ SearchAcrossCollections(Collections, q)
                             = {Kept(hits, q) : hits \in SearchAcrossCollections(Collections, open)}
                        /\ \A c \in Targets(Collections, q) :
                              SearchInCollection(c, q) = {Kept(hits, q) : hits \in SearchInCollection(c, open)}
      BY DEF FarBoundOnlyCuts, Kept
    <2> DEFINE open == [q EXCEPT !.min_value = Nothing, !.max_value = Nothing]
    <2>1. q \in Query
      BY QueriesAssumption
    <2>2. open \in Query /\ Alike(open, q) /\ open.min_value = Nothing /\ open.max_value = Nothing
      BY <2>1 DEF Query, Alike
    <2> HIDE DEF open
    <2>3. \A R : {Kept(S, open) : S \in R} = R
      <3>1. \A S : Kept(S, open) = S
        BY <2>2, NoThreshold
      <3> QED
        BY <3>1
    <2>4. /\ open.top_k = q.top_k /\ Pool(open) = Pool(q)
          /\ \A R : FirstOf(R, open) = FirstOf(R, q)
      <3>1. ByDistance(open) = ByDistance(q) /\ Pool(open) = Pool(q)
        BY <2>1, <2>2, AlikeSearches
      <3> QED
        BY <2>2, <3>1 DEF FirstOf, Alike
    <2>5. /\ \A c : Form(c, open) = Form(c, q) /\ BinaryRescoreLimit(c, open) = BinaryRescoreLimit(c, q)
          /\ \A c, form, l, ef : Scan(c, open, form, l, ef) = Scan(c, q, form, l, ef)
          /\ Targets(Collections, open) = Targets(Collections, q)
          /\ EfOf(Collections, open) = EfOf(Collections, q)
      BY <2>1, <2>2, AlikeSearches
    <2>6. SearchAcrossCollections(Collections, q)
            = {Kept(hits, q) : hits \in SearchAcrossCollections(Collections, open)}
      <3> DEFINE all == {AllOf(Collections, q, hits) : hits \in ArmHits(Collections, q)}
      <3>1. \A c, ef : Arm(c, open, ef) = Arm(c, q, ef)
        BY <1>1, <2>1, <2>2, <2>4, <2>5, ArmIs
      <3>2. ArmHits(Collections, open) = ArmHits(Collections, q)
        BY <2>5, <3>1 DEF ArmHits
      <3>3. \A hits : AllOf(Collections, open, hits) = AllOf(Collections, q, hits)
        BY <2>5 DEF AllOf
      <3>4. SearchAcrossCollections(Collections, open) = FirstOf(all, q)
        <4>1. SearchAcrossCollections(Collections, open)
                = FirstOf({AllOf(Collections, open, hits) : hits \in ArmHits(Collections, open)}, open)
          BY <1>1, <2>2, AcrossIsFirst
        <4> QED
          BY <2>4, <3>2, <3>3, <4>1
      <3>5. SearchAcrossCollections(Collections, q) = FirstOf({Kept(S, q) : S \in all}, q)
        <4>1. SearchAcrossCollections(Collections, q)
                = FirstOf({Kept(AllOf(Collections, q, hits), q) : hits \in ArmHits(Collections, q)}, q)
          BY <1>1, <2>1, AcrossIs
        <4>2. {Kept(S, q) : S \in all}
                = {Kept(AllOf(Collections, q, hits), q) : hits \in ArmHits(Collections, q)}
          OBVIOUS
        <4> QED
          BY <4>1, <4>2
      <3>6. all \in SUBSET (SUBSET Embeddings)
        BY DEF ArmHits, AllOf, Together
      <3> HIDE DEF all
      <3> QED
        BY <2>1, <3>4, <3>5, <3>6, FirstOfAllKept
    <2>7. ASSUME NEW c
          PROVE  SearchInCollection(c, q) = {Kept(hits, q) : hits \in SearchInCollection(c, open)}
      <3> DEFINE ef == Ef({BinaryRescoreLimit(c, q)})
                 R == Scan(c, q, "binary", Pool(q), ef)
                 D == Scan(c, q, "direct", q.top_k, ef)
      <3>1. Ef({BinaryRescoreLimit(c, open)}) = ef
        BY <2>5
      <3>2. R \in SUBSET (SUBSET Embeddings) /\ Form(c, open) = Form(c, q)
        BY <1>1, <2>1, <2>5, ScansFindRows
      <3>3. Scan(c, open, "binary", Pool(open), ef) = R /\ Scan(c, open, "direct", open.top_k, ef) = D
        BY <2>4, <2>5
      <3>4. CASE Form(c, q) = "binary"
        <4>1. SearchInCollection(c, q) = FirstOf({Kept(hits, q) : hits \in R}, q)
          BY <1>1, <2>1, <3>4, SearchInCollectionIs
        <4> HIDE DEF R, ef
        <4>2. SearchInCollection(c, open) = FirstOf(R, q)
          <5>1. SearchInCollection(c, open) = FirstOf({Kept(hits, open) : hits \in R}, open)
            BY <1>1, <2>2, <3>1, <3>2, <3>3, <3>4, SearchInCollectionIs
          <5> QED
            BY <2>3, <2>4, <5>1
        <4> QED
          BY <2>1, <3>2, <4>1, <4>2, FirstOfAllKept
      <3>5. CASE Form(c, q) # "binary"
        <4>1. SearchInCollection(c, q) = {Kept(hits, q) : hits \in D}
          BY <1>1, <2>1, <3>5, SearchInCollectionIs
        <4> HIDE DEF D, ef
        <4>2. SearchInCollection(c, open) = D
          <5>1. SearchInCollection(c, open) = {Kept(hits, open) : hits \in D}
            BY <1>1, <2>2, <3>1, <3>2, <3>3, <3>5, SearchInCollectionIs
          <5> QED
            BY <2>3, <5>1
        <4> QED
          BY <4>1, <4>2
      <3> QED
        BY <3>4, <3>5
    <2> QED
      BY <2>6, <2>7 DEF open
  <1> QED
    BY <1>1, RowsInvariant, PTL

-----------------------------------------------------------------------------
(* EmittedFormIsServed.                                                     *)

\* The catalog has what operators build.
CatalogInv == catalog \in SUBSET [shape : Shapes, valid : BOOLEAN]

LEMMA CatalogInvariant == SearchSpec => []CatalogInv
  <1>1. SearchInit => CatalogInv
    BY DEF SearchInit, CatalogInv
  <1>2. CatalogInv /\ [SearchNext]_searchVars => CatalogInv'
    <2> SUFFICES ASSUME CatalogInv, [SearchNext]_searchVars
                 PROVE  CatalogInv'
      OBVIOUS
    <2>1. ASSUME NEW s \in Shapes, CreateIndex(s)
          PROVE  CatalogInv'
      <3>1. [shape |-> s, valid |-> FALSE] \in [shape : Shapes, valid : BOOLEAN]
        OBVIOUS
      <3> QED
        BY <2>1, <3>1 DEF CatalogInv, CreateIndex
    <2>2. ASSUME NEW e \in catalog, IndexBuilt(e)
          PROVE  CatalogInv'
      BY <2>2 DEF CatalogInv, IndexBuilt
    <2>3. ASSUME NEW e \in catalog, DropIndex(e)
          PROVE  CatalogInv'
      BY <2>3 DEF CatalogInv, DropIndex
    <2>4. CASE UNCHANGED catalog
      BY <2>4 DEF CatalogInv
    <2> QED
      BY <2>1, <2>2, <2>3, <2>4 DEF SearchNext, searchVars, Restart, Write, Delete
  <1> QED
    BY <1>1, <1>2, PTL DEF SearchSpec

\* What was discovered is an index of the catalog that says the same.
LEMMA DiscoveredIs ==
    ASSUME NEW c \in Collections, NEW i \in Discovered[c]
    PROVE  \E e \in catalog :
              e.valid /\ Usable(e.shape) /\ e.shape.predicate = c.id /\ i = Parse(e.shape)
BY DEF Discovered

LEMMA IsDiscovered ==
    ASSUME NEW c \in Collections, NEW e \in catalog, e.valid, Usable(e.shape), e.shape.predicate = c.id
    PROVE  Parse(e.shape) \in Discovered[c]
BY DEF Discovered

\* An index that was discovered for the table and dimensions of a collection
\* serves the form of its strategy.
LEMMA ParsedServes ==
    ASSUME NEW c \in Collections, NEW q \in Query, NEW e \in catalog, e.valid, Usable(e.shape),
           e.shape.predicate = c.id, e.shape.table = TableOf(c.vector_type),
           e.shape.dimensions = c.dimensions,
           Parse(e.shape).strategy = "direct" => Parse(e.shape).metric = Ordering(q.metric)
    PROVE  Serves(e, c, Parse(e.shape).strategy, q)
  <1>1. c.vector_type \in Types
    BY CollectionsAssumption
  <1>2. CASE e.shape.expression = "bit"
    <2>1. Parse(e.shape).strategy = "binary"
      BY <1>2 DEF Parse
    <2>2. e.shape.opclass = "bit_hamming_ops"
      BY <1>2 DEF Usable, Types
    <2> QED
      BY <1>2, <2>1, <2>2 DEF Serves
  <1>3. CASE e.shape.expression # "bit"
    <2>1. Parse(e.shape).strategy = "direct" /\ Parse(e.shape).metric = OpclassMetric[e.shape.opclass]
      BY <1>3 DEF Parse
    <2>2. /\ e.shape.opclass \in DOMAIN OpclassMetric /\ e.shape.expression \in Types
          /\ TableOf(e.shape.expression) = e.shape.table
      BY <1>3 DEF Usable
    <2>3. e.shape.expression = c.vector_type
      BY <1>1, <2>2 DEF TableOf, Types
    <2> QED
      BY <2>1, <2>2, <2>3 DEF Serves
  <1> QED
    BY <1>2, <1>3

\* choose_index with what discover_vector_indexes found, and _parse: a search
\* asks for a form some index serves, if one serves either form.
THEOREM FormsAreServed == SearchSpec => []EmittedFormIsServed
  <1>1. ASSUME CatalogInv
        PROVE  EmittedFormIsServed
    <2> SUFFICES ASSUME known = Discovered, NEW c \in Collections, NEW q \in Queries,
                        \/ Form(c, q) = "binary"
                        \/ \E e \in catalog : /\ e.shape.predicate = c.id
                                              /\ Serves(e, c, "direct", q) \/ Serves(e, c, "binary", q)
                 PROVE  \E e \in catalog : Serves(e, c, Form(c, q), q)
      BY DEF EmittedFormIsServed
    <2> DEFINE usable == {i \in known[c] : i.table = TableOf(c.vector_type) /\ i.dimensions = c.dimensions}
               direct == {i \in usable : i.strategy = "direct" /\ i.metric = Ordering(q.metric)}
               binary == {i \in usable : i.strategy = "binary"}
    <2>1. ChooseIndex(c, q) = IF direct # {} THEN CHOOSE i \in direct : TRUE
                              ELSE IF binary # {} THEN CHOOSE i \in binary : TRUE ELSE Nothing
      BY DEF ChooseIndex
    <2>2. c.vector_type \in Types /\ c.id \in Nat /\ c.id # Nothing /\ q \in Query
      BY CollectionsAssumption, NumbersAssumption, QueriesAssumption
    <2>3. ASSUME NEW i \in direct \cup binary
          PROVE  \E e \in catalog : Serves(e, c, i.strategy, q)
      <3>1. PICK e \in catalog :
                   e.valid /\ Usable(e.shape) /\ e.shape.predicate = c.id /\ i = Parse(e.shape)
        BY DiscoveredIs
      <3>2. i.table = TableOf(c.vector_type) /\ i.dimensions = c.dimensions
            /\ (i.strategy = "direct" => i.metric = Ordering(q.metric))
        OBVIOUS
      <3>3. i.table = e.shape.table /\ i.dimensions = e.shape.dimensions
        BY <3>1 DEF Parse
      <3> QED
        BY <2>2, <3>1, <3>2, <3>3, ParsedServes
    <2>4. ASSUME NEW e \in catalog, e.shape.predicate = c.id,
                 Serves(e, c, "direct", q) \/ Serves(e, c, "binary", q)
          PROVE  Parse(e.shape) \in direct \cup binary
      <3>1. e.valid /\ e.shape.table = TableOf(c.vector_type) /\ e.shape.dimensions = c.dimensions
        BY <2>4 DEF Serves
      <3>2. \/ e.shape.expression = "bit" /\ e.shape.opclass = "bit_hamming_ops"
            \/ /\ e.shape.expression = c.vector_type /\ e.shape.opclass \in DOMAIN OpclassMetric
               /\ OpclassMetric[e.shape.opclass] = Ordering(q.metric)
        BY <2>4 DEF Serves
      <3>3. Usable(e.shape)
        BY <2>2, <2>4, <3>1, <3>2 DEF Usable
      <3>4. Parse(e.shape) \in known[c]
        BY <2>4, <3>1, <3>3, IsDiscovered
      <3>5. Parse(e.shape).table = TableOf(c.vector_type) /\ Parse(e.shape).dimensions = c.dimensions
        BY <3>1 DEF Parse
      <3>6. \/ Parse(e.shape).strategy = "binary"
            \/ Parse(e.shape).strategy = "direct" /\ Parse(e.shape).metric = Ordering(q.metric)
        BY <2>2, <3>2 DEF Parse, Types
      <3> QED
        BY <3>4, <3>5, <3>6
    <2>5. CASE direct = {} /\ binary = {}
      <3>1. Form(c, q) = "direct"
        BY <2>1, <2>5 DEF Form
      <3> QED
        BY <2>4, <2>5, <3>1
    <2>6. CASE direct # {} \/ binary # {}
      <3>1. ChooseIndex(c, q) \in direct \cup binary
        <4> HIDE DEF direct, binary
        <4> QED
          BY <2>1, <2>6
      <3>2. ChooseIndex(c, q) # Nothing => Form(c, q) = ChooseIndex(c, q).strategy
        BY DEF Form
      <3>3. ChooseIndex(c, q) # Nothing
        <4>1. PICK e \in catalog : ChooseIndex(c, q) = Parse(e.shape)
          BY <3>1, DiscoveredIs
        <4> QED
          BY <1>1, <4>1, NothingAssumption DEF CatalogInv
      <3> QED
        BY <2>3, <3>1, <3>2, <3>3
    <2> QED
      BY <2>5, <2>6
  <1> QED
    BY <1>1, CatalogInvariant, PTL

-----------------------------------------------------------------------------
(* PoolsNotTruncated.                                                       *)

\* hnsw.ef_search is the pool, if an arm has one, within its bounds.
LEMMA EfCoversPool ==
    ASSUME NEW q \in Query, NEW pools \in SUBSET {Nothing, Pool(q)}, Pool(q) \in pools
    PROVE  /\ Ef(pools) \in Nat
           /\ Ef(pools) >= Pool(q) \/ Ef(pools) >= MaxEfSearch
  <1> DEFINE wanted == {EfSearch} \cup (pools \ {Nothing})
  <1>1. Pool(q) \in Nat /\ EfSearch \in Nat /\ MaxEfSearch \in Nat /\ Nothing \notin Int
    BY PoolIs, NumbersAssumption
  <1>2. wanted = {EfSearch, Pool(q)}
    BY <1>1
  <1>3. PICK m \in Nat : Max(wanted) = m /\ m >= Pool(q)
    <2>1. CASE EfSearch <= Pool(q)
      BY <1>1, <1>2, <2>1, MaxIs
    <2>2. CASE ~(EfSearch <= Pool(q))
      BY <1>1, <1>2, <2>2, MaxIs
    <2> QED
      BY <2>1, <2>2
  <1>4. Ef(pools) = Min({m, MaxEfSearch})
    BY <1>3 DEF Ef
  <1> QED
    BY <1>1, <1>3, <1>4, MinOfTwo

\* _with_rls: ef_search is set so that even a scan that stops at it fills the
\* pool of every arm of the transaction, for rows at one distance in any order.
THEOREM PoolsAreWhole == SearchSpec => []PoolsNotTruncated
  <1>1. ASSUME RowsStored
        PROVE  PoolsNotTruncated
    <2> SUFFICES ASSUME NEW q \in Queries, ~q.filtered, NEW cs \in SUBSET Collections,
                        NEW c \in Targets(cs, q), BinaryRescoreLimit(c, q) # Nothing,
                        NEW reached \in Reached(c, q, "binary", EfOf(cs, q), FALSE)
                 PROVE  Cardinality(reached)
                          >= Min({BinaryRescoreLimit(c, q), Cardinality(Own(c, q)), MaxEfSearch})
      BY DEF PoolsNotTruncated, EfOf
    <2> DEFINE ef == EfOf(cs, q)
               own == Own(c, q)
               n == Cardinality(own)
    <2>1. q \in Query /\ BinaryRescoreLimit(c, q) = Pool(q) /\ Pool(q) \in Nat /\ MaxEfSearch \in Nat
      BY QueriesAssumption, PoolIs, FormIsOne, NumbersAssumption
    <2>2. ef \in Nat /\ (ef >= Pool(q) \/ ef >= MaxEfSearch)
      <3> DEFINE pools == {BinaryRescoreLimit(b, q) : b \in Targets(cs, q)}
      <3>1. pools \in SUBSET {Nothing, Pool(q)} /\ Pool(q) \in pools
        BY <2>1, PoolIs
      <3>2. ef = Ef(pools)
        BY DEF EfOf
      <3> HIDE DEF pools, ef
      <3> QED
        BY <2>1, <3>1, <3>2, EfCoversPool
    <2>3. own = {e \in rows : e.collection = c.id} /\ own \in SUBSET Embeddings
      BY <1>1 DEF Own, RowsStored
    <2>4. n \in Nat
      BY <2>3, Sizes
    <2>5. reached = own \/ reached \in Scanned(own, q, "binary", ef)
      <3> HIDE DEF own, ef
      <3>1. reached = own \/ reached \in Scanned(own, q, "binary", EfOf(cs, q))
        BY <2>3 DEF Reached, Nearest, Scanned
      <3> QED
        BY <3>1 DEF ef
    <2>6. Cardinality(reached) = n \/ Cardinality(reached) = Smaller(ef, n)
      <3> HIDE DEF own, ef
      <3>1. Scanned(own, q, "binary", ef) = First(own, ByHamming, ef)
        BY <2>1, <2>2, <2>3, ScannedIs
      <3> QED
        BY <2>5, <3>1 DEF First
    <2> HIDE DEF own, ef
    <2>7. PICK m \in {Pool(q), n, MaxEfSearch} : \A x \in {Pool(q), n, MaxEfSearch} : m <= x
      <3>1. CASE Pool(q) <= n /\ Pool(q) <= MaxEfSearch
        BY <2>1, <2>4, <3>1
      <3>2. CASE n <= Pool(q) /\ n <= MaxEfSearch
        BY <2>1, <2>4, <3>2
      <3>3. CASE MaxEfSearch <= n /\ MaxEfSearch <= Pool(q)
        BY <2>1, <2>4, <3>3
      <3> QED
        BY <2>1, <2>4, <3>1, <3>2, <3>3
    <2>8. Min({Pool(q), n, MaxEfSearch}) = m
      <3> DEFINE S == {Pool(q), n, MaxEfSearch}
      <3>1. S \in SUBSET Int /\ m \in S /\ \A x \in S : m <= x
        BY <2>1, <2>4, <2>7
      <3> HIDE DEF S
      <3>2. Min(S) = m
        BY <3>1, MinIs
      <3> QED
        BY <3>2 DEF S
    <2>9. Cardinality(reached) >= m
      BY <2>1, <2>2, <2>4, <2>6, <2>7 DEF Smaller
    <2> QED
      BY <2>1, <2>8, <2>9 DEF own
  <1> QED
    BY <1>1, RowsInvariant, PTL
=============================================================================
