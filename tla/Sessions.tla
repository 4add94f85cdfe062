------------------------------- MODULE Sessions -------------------------------
(***************************************************************************)
(* gen3_embeddings and its database, from startup to shutdown: the checks  *)
(* of the lifespan, the asyncpg pool, and the transactions of _with_rls,   *)
(* each of which hands Postgres the settings of its caller.  What a query  *)
(* sees follows from the role, the tables and the settings in force.       *)
(***************************************************************************)
EXTENDS Naturals, Sequences

CONSTANTS
    Conns,     \* the connections the pool may hold, PGPOOL_MAX_SIZE of them
    Requests,
    Grants,    \* authz values of rows, of callers and of collection names
    Tables,    \* RLS_PROTECTED_TABLES
    Databases, \* the databases a run may meet
    SkipAuth,  \* DEBUG_SKIP_AUTH
    MaxTx,     \* bound: transactions of one request
    None

\* Facts of the database: the role, whether it owns the tables and may use them,
\* which tables exist, and where row-level security is enabled and forced.
Database ==
    [role : {"plain", "super", "bypassrls"}, owner : BOOLEAN, granted : BOOLEAN,
     tables : SUBSET Tables, enabled : SUBSET Tables, forced : SUBSET Tables]

ASSUME DatabasesAssumption == Databases \subseteq Database

ASSUME NoneAssumption ==
    /\ None \notin Conns /\ None \notin Grants
    /\ \A a \in SUBSET Grants : None # a /\ None # [authz |-> a, names |-> a, timeout |-> TRUE]

ASSUME MaxTxAssumption == MaxTx \in Nat

VARIABLES
    phase, \* of the lifespan
    db,
    conn,  \* the pool: state, and Postgres settings of session and transaction
    req,   \* the handlers
    queue  \* requests that wait for a connection

vars == <<phase, db, conn, req, queue>>

\* app.allowed_authz, app.allowed_collection_names and the search settings, of
\* which statement_timeout is kept.
Defaults == [authz |-> None, names |-> None, timeout |-> FALSE]

Absent == [state |-> "absent", session |-> Defaults, local |-> None]
Opened == [state |-> "free", session |-> Defaults, local |-> None]

\* A handler between its transactions, with n of them to go.
Handler(p, allowed, n) ==
    [pc |-> p, allowed |-> allowed, conn |-> None, left |-> n, table |-> None, write |-> None,
     status |-> "none"]
Idle == Handler("idle", {}, 0)

Effective(c) == IF conn[c].local = None THEN conn[c].session ELSE conn[c].local

-----------------------------------------------------------------------------
Bypasses == db.role # "plain"

\* check_db_connection: DEBUG_SKIP_AUTH needs a role that bypasses the policies,
\* everything else one that does not.
RoleIsRight == Bypasses = SkipAuth

\* Seeded fault: it is enough that policies are enabled.
OnlyEnabled == Tables \subseteq db.tables /\ Tables \subseteq db.enabled

\* check_rls_is_enabled
RlsIsInForce == Tables \subseteq db.tables /\ Tables \subseteq db.enabled /\ Tables \subseteq db.forced

\* Seeded fault: a startup that fails does not reach the close.
CloseIfServing == IF phase = "serving" THEN [c \in Conns |-> Absent] ELSE conn

\* The finally of the lifespan.
ClosePool == [c \in Conns |-> Absent]

Down == phase' = "down" /\ conn' = ClosePool

CreatePool ==
    /\ phase = "down"
    /\ \E c \in Conns : conn' = [conn EXCEPT ![c] = Opened]
    /\ phase' = "check"
    /\ UNCHANGED <<db, req, queue>>

CheckDbConnection ==
    /\ phase = "check"
    /\ IF RoleIsRight /\ (SkipAuth \/ RlsIsInForce) THEN phase' = "discover" /\ UNCHANGED conn ELSE Down
    /\ UNCHANGED <<db, req, queue>>

\* discover_vector_indexes and, unless auth is skipped, the health of Arborist.
StartServing ==
    /\ phase = "discover"
    /\ phase' = "serving"
    /\ UNCHANGED <<db, conn, req, queue>>

StartupFails ==
    /\ phase \in {"check", "discover"}
    /\ Down
    /\ UNCHANGED <<db, req, queue>>

\* The server stops once its requests have ended.
Stop ==
    /\ phase = "serving"
    /\ \A r \in Requests : req[r] = Idle
    /\ Down
    /\ UNCHANGED <<db, req, queue>>

\* Migrations and operators change the database while the service is down.
Migrate(d) ==
    /\ phase = "down"
    /\ db' = d
    /\ UNCHANGED <<phase, conn, req, queue>>

-----------------------------------------------------------------------------
\* Seeded fault: the search settings are left to the pool's init.
GrantsOnly(allowed) == [authz |-> allowed, names |-> allowed, timeout |-> FALSE]

\* The one statement that writes all of them.
SettingsOf(allowed) == [authz |-> allowed, names |-> allowed, timeout |-> TRUE]

\* Seeded fault: is_local is false.
SetForSession(c, s) == [conn EXCEPT ![c] = [@ EXCEPT !.session = s]]

\* set_config(..., is_local => true)
SetLocal(c, s) == [conn EXCEPT ![c] = [@ EXCEPT !.local = s]]

\* RESET ALL
Released(c) == [conn EXCEPT ![c] = Opened]

\* The policies of collections read the names, those of embeddings the authz; an
\* unset setting matches no row.
PolicyRows(t, s) ==
    LET allowed == IF t = "collections" THEN s.names ELSE s.authz
    IN  IF allowed = None THEN {} ELSE allowed

\* The authz of the rows a statement sees, and may write.
Visible(t, s) ==
    IF Bypasses \/ t \notin db.enabled \/ (db.owner /\ t \notin db.forced) THEN Grants
    ELSE PolicyRows(t, s)

\* Seeded fault: every privilege error is the caller's.
AnyDenial(policy) == "denied"

\* _rls_denial_or_reraise: only a policy's refusal is the caller's, a 403; the rest
\* are faults, 500.
DenialStatus(policy) == IF policy THEN "denied" ELSE "fault"

\* fn: what a statement on table t comes to, a write naming the authz of its row.
Outcome(t, w, s) ==
    IF t \notin db.tables THEN "fault"
    ELSE IF ~(db.granted \/ db.owner \/ db.role = "super") THEN DenialStatus(FALSE)
    ELSE IF w # None /\ w \notin Visible(t, s) THEN DenialStatus(TRUE)
    ELSE "ok"

\* statement_timeout is a fault, too.
Result(r, timedOut) ==
    IF timedOut THEN "fault" ELSE Outcome(req[r].table, req[r].write, Effective(req[r].conn))

-----------------------------------------------------------------------------
\* The dependency has resolved what the caller holds; under DEBUG_SKIP_AUTH nothing.
Arrive(r, allowed, n) ==
    /\ phase = "serving"
    /\ req[r] = Idle
    /\ SkipAuth => allowed = {}
    /\ req' = [req EXCEPT ![r] = Handler("wait", allowed, n)]
    /\ queue' = Append(queue, r)
    /\ UNCHANGED <<phase, db, conn>>

\* pool.acquire, which opens a connection where it needs one, and BEGIN.
Acquire(r, c) ==
    /\ req[r].pc = "wait" /\ queue # <<>> /\ Head(queue) = r
    /\ conn[c].state # "held"
    /\ conn' = [conn EXCEPT ![c] = [@ EXCEPT !.state = "held"]]
    /\ req' = [req EXCEPT ![r] = [@ EXCEPT !.pc = "begun", !.conn = c]]
    /\ queue' = Tail(queue)
    /\ UNCHANGED <<phase, db>>

SetConfig(r) ==
    /\ req[r].pc = "begun"
    /\ conn' = SetLocal(req[r].conn, SettingsOf(req[r].allowed))
    /\ req' = [req EXCEPT ![r] = [@ EXCEPT !.pc = "set"]]
    /\ UNCHANGED <<phase, db, queue>>

Run(r, t, w) ==
    /\ req[r].pc = "set"
    /\ req' = [req EXCEPT ![r] = [@ EXCEPT !.pc = "running", !.table = t, !.write = w]]
    /\ UNCHANGED <<phase, db, conn, queue>>

\* The statement ends, or its timeout ends it.
QueryEnds(r, timedOut) ==
    /\ req[r].pc = "running"
    /\ timedOut => Effective(req[r].conn).timeout
    /\ req' = [req EXCEPT ![r] = [@ EXCEPT !.pc = "ran", !.status = Result(r, timedOut)]]
    /\ UNCHANGED <<phase, db, conn, queue>>

\* COMMIT or ROLLBACK, which ends the transaction's settings.
EndTransaction(r) ==
    /\ req[r].pc = "ran"
    /\ conn' = [conn EXCEPT ![req[r].conn] = [@ EXCEPT !.local = None]]
    /\ req' = [req EXCEPT ![r] = [@ EXCEPT !.pc = "ended"]]
    /\ UNCHANGED <<phase, db, queue>>

\* Back to the pool, and on to the handler's next transaction if this one went well.
Release(r) ==
    /\ req[r].pc = "ended"
    /\ conn' = Released(req[r].conn)
    /\ IF req[r].status = "ok" /\ req[r].left > 1
       THEN /\ req' = [req EXCEPT ![r] = Handler("wait", req[r].allowed, req[r].left - 1)]
            /\ queue' = Append(queue, r)
       ELSE req' = [req EXCEPT ![r] = Idle] /\ UNCHANGED queue
    /\ UNCHANGED <<phase, db>>

\* The connection breaks: the pool drops it, the request fails.
ConnectionLost(r) ==
    /\ req[r].conn # None
    /\ conn' = [conn EXCEPT ![req[r].conn] = Absent]
    /\ req' = [req EXCEPT ![r] = Idle]
    /\ UNCHANGED <<phase, db, queue>>

-----------------------------------------------------------------------------
Init ==
    /\ phase = "down"
    /\ db \in Databases
    /\ conn = [c \in Conns |-> Absent]
    /\ req = [r \in Requests |-> Idle]
    /\ queue = <<>>

Lifespan ==
    \/ CreatePool \/ CheckDbConnection \/ StartServing \/ StartupFails \/ Stop
    \/ \E d \in Databases : Migrate(d)

Transaction(r) ==
    \/ \E c \in Conns : Acquire(r, c)
    \/ SetConfig(r)
    \/ \E t \in Tables, w \in Grants \cup {None} : Run(r, t, w)
    \/ EndTransaction(r)
    \/ Release(r)

Next ==
    \/ Lifespan
    \/ \E r \in Requests :
          \/ \E allowed \in SUBSET Grants, n \in 1..MaxTx : Arrive(r, allowed, n)
          \/ Transaction(r)
          \/ \E timedOut \in BOOLEAN : QueryEnds(r, timedOut)
          \/ ConnectionLost(r)

\* A handler's task goes on, and a statement under a timeout ends; one without may
\* run for ever.
Fairness ==
    \A r \in Requests : WF_vars(Transaction(r)) /\ WF_vars(QueryEnds(r, TRUE))

Spec == Init /\ [][Next]_vars
FairSpec == Spec /\ Fairness

-----------------------------------------------------------------------------
ConnType == [state : {"absent", "free", "held"},
             session : {Defaults},
             local : {None} \cup
                 [authz : SUBSET Grants, names : SUBSET Grants, timeout : {TRUE}]]

RequestType ==
    [pc : {"idle", "wait", "begun", "set", "running", "ran", "ended"}, allowed : SUBSET Grants,
     conn : Conns \cup {None}, left : 0..MaxTx, table : Tables \cup {None},
     write : Grants \cup {None}, status : {"none", "ok", "denied", "fault"}]

TypeOK ==
    /\ phase \in {"down", "check", "discover", "serving"}
    /\ db \in Database
    /\ conn \in [Conns -> ConnType]
    /\ req \in [Requests -> RequestType]
    /\ queue \in Seq(Requests)

\* A statement sees the rows its own caller is granted, all of them and no others,
\* whatever role and tables the service was started on and whoever had the
\* connection before; with DEBUG_SKIP_AUTH it sees every row.
QueriesSeeTheirRows ==
    \A r \in Requests : req[r].pc = "running" =>
        Visible(req[r].table, Effective(req[r].conn)) = IF SkipAuth THEN Grants ELSE req[r].allowed

\* A 403 of the database is the caller's fault, and what is written was granted.
DenialsAreTheCallers ==
    \A r \in Requests : req[r].pc = "ran" =>
        /\ req[r].status = "denied" => req[r].write \notin req[r].allowed
        /\ req[r].status = "ok" /\ ~SkipAuth => req[r].write \in req[r].allowed \cup {None}

\* Outside of a transaction no connection carries anybody's settings.
SettingsEndWithTheTransaction ==
    \A c \in Conns :
        (\A r \in Requests : req[r].conn = c => req[r].pc \in {"begun", "ended"}) => Effective(c) = Defaults

\* A service that has stopped, or failed to start, holds no connection; otherwise a
\* connection is held for exactly one request.
NoConnectionLeaks ==
    /\ phase = "down" => \A c \in Conns : conn[c].state = "absent"
    /\ \A c \in Conns : conn[c].state = "held" => \E r \in Requests : req[r].conn = c
    /\ \A r, q \in Requests : req[r].conn # None /\ req[r].conn = req[q].conn => r = q

\* Every request gets its connections and ends, however few there are.
EveryRequestEnds == \A r \in Requests : req[r].pc = "wait" ~> req[r] = Idle
=============================================================================
