----------------------------- MODULE AuthzRequest -----------------------------
(***************************************************************************)
(* One request of gen3_embeddings on its way through common.auth: the      *)
(* caller's mapping, which scopes row-level security, the check of the     *)
(* collection in the path, the check of a resource in the body, and the    *)
(* queries.  Each question is a call of the policy engine, which may fail, *)
(* and policies may change between two of them.  What is asked once is     *)
(* kept on the request.                                                    *)
(***************************************************************************)
EXTENDS Integers

CONSTANTS
    Resources,  \* authz resource paths
    Base,       \* /vectorstore/collections
    Collections,\* the paths below it that name a stored collection
    Names,      \* collection names as a path may spell them
    ResourceOf, \* name to the path of the name as it stands
    NormalOf,   \* name to its canonical spelling
    Actions,
    Ours,       \* config.AUTHZ_SERVICE_NAME
    Any,        \* "*" in a grant, for a service or a method
    Entries,    \* the grants policies may give: [resource, service, method]
    Requests,   \* what callers ask: the requests of a run
    SkipAuth,   \* DEBUG_SKIP_AUTH
    Anonymous,  \* ALLOW_ANONYMOUS_ACCESS
    MaxChanges, \* bound: changes of policy during one request
    None

\* What a route declares and a request names; `one` is the PUT of one row.
Request == [token : {"none", "bad", "good"}, name : Names \cup {None}, action : Actions,
            also : SUBSET Actions, body : Resources \cup {None}, one : BOOLEAN]

NoRequest ==
    [token |-> "none", name |-> None, action |-> None, also |-> {}, body |-> None, one |-> FALSE]

ASSUME RequestsAssumption == Requests \subseteq Request

ASSUME EntriesAssumption == \A e \in Entries : e.resource \in Resources

VARIABLES
    grants,  \* the caller's, at the policy engine
    pc, req,
    cache,   \* allowed_authz on request.state, or None
    scope,   \* allowed_authz of the DAL
    touched, \* what rows the queries reached, by their authz
    asked,   \* questions put to the policy engine
    again,   \* one of them was put twice
    status,
    failed,  \* the policy engine failed
    ever,    \* grants held at some moment since the request began
    always,  \* grants held at every moment since
    changes

vars == <<grants, pc, req, cache, scope, touched, asked, again, status, failed, ever, always, changes>>
policy == <<grants, ever, always, changes>>

-----------------------------------------------------------------------------
\* Seeded fault: a grant of another action will do.
MatchesAnyMethod(e, action) == e.service \in {Ours, Any}

\* An entry of the mapping that gives `action` in this service.
Matches(e, action) == e.service \in {Ours, Any} /\ e.method \in {action, Any}

\* get_allowed_authz_from_mapping
AllowedAuthz(es, action) == {e.resource : e \in {x \in es : Matches(x, action)}}

\* get_allowed_collection_names_from_authz: grants on the base, and on what
\* cannot name a stored collection, name none.
AllowedNames(allowed) == allowed \cap Collections

\* The engine's own rule: a grant covers what lies below its resource.
Gives(e, action) == e.service \in {Ours, Any} /\ e.method \in {action, Any}
Covers(resource, r) == resource = r \/ (resource = Base /\ r \in {ResourceOf[n] : n \in Names})
Holds(es, r, action) ==
    \E e \in es : Covers(e.resource, r) /\ Gives(e, action)

\* Seeded fault: the path is checked as it was spelled.
AsSpelled(name) == ResourceOf[name]

\* The resource of the name the database knows.
PathResource(name) == ResourceOf[NormalOf[name]]

Demanded(r) == {r.action} \cup r.also

-----------------------------------------------------------------------------
\* Seeded fault: what was cached for one request is there for the next.
KeptCache == cache

\* request.state is new with every request.
FreshCache == None

Begin(r) ==
    /\ pc = "idle"
    /\ pc' = "mapping" /\ req' = r
    /\ ever' = grants /\ always' = grants
    /\ UNCHANGED <<grants, cache, scope, touched, asked, again, status, failed, changes>>

Answer(s) == pc' = "done" /\ status' = s

\* A question is a resource with actions; the mapping is asked for with neither.
Ask(q) == asked' = asked \cup {q} /\ again' = (again \/ q \in asked)
TheMapping == <<None, {}>>

\* The engine gives no answer: an ArboristError, which a bad token also gets, is
\* 401, anything else 500.
EngineFails(q) ==
    /\ Ask(q)
    /\ failed' = (failed \/ req.token = "good")
    /\ \E s \in {401, 500} : Answer(s)

\* get_allowed_authz_for_request; no token is passed, so with DEBUG_SKIP_AUTH the
\* mapping is empty whatever the header has.
Mapping ==
    LET Go(allowed) == /\ pc' = "check" /\ scope' = allowed /\ cache' = allowed
                       /\ UNCHANGED <<failed, status>>
    IN
    /\ pc = "mapping"
    /\ IF cache # None THEN Go(cache) /\ UNCHANGED <<asked, again>>
       ELSE IF SkipAuth THEN Go({}) /\ UNCHANGED <<asked, again>>
       ELSE IF req.token = "none" THEN Answer(401) /\ UNCHANGED <<scope, cache, asked, again, failed>>
       ELSE \/ req.token = "good" /\ Ask(TheMapping) /\ Go(AllowedAuthz(grants, req.action))
            \/ EngineFails(TheMapping) /\ UNCHANGED <<scope, cache>>
    /\ UNCHANGED <<req, touched, policy>>

\* authorize_request, which keeps no answers: on to `next` where all actions are
\* granted on the resource.
Authorize(resource, actions, next) ==
    LET q == <<resource, actions>>
        pass == pc' = next /\ UNCHANGED status
    IN
    IF Anonymous \/ SkipAuth THEN pass /\ UNCHANGED <<asked, again, failed>>
    ELSE IF req.token = "none" THEN Answer(401) /\ UNCHANGED <<asked, again, failed>>
    ELSE \/ /\ req.token = "good" /\ Ask(q) /\ UNCHANGED failed
            /\ IF \A a \in actions : Holds(grants, resource, a) THEN pass ELSE Answer(403)
         \/ EngineFails(q)

\* AuthzDependency: the collection in the path, with every action the route names.
CheckPath ==
    /\ pc = "check"
    /\ IF req.name = None THEN pc' = "require" /\ UNCHANGED <<asked, again, status, failed>>
       ELSE Authorize(PathResource(req.name), Demanded(req), "require")
    /\ UNCHANGED <<req, cache, scope, touched, policy>>

\* The authz of the body asks for a check of its own unless it is the collection's;
\* a PUT of one row asks regardless.
NeedsCheck == req.body # None /\ (req.one \/ req.name = None \/ req.body # PathResource(req.name))

\* AuthzContext.require
CheckBody ==
    /\ pc = "require"
    /\ IF NeedsCheck THEN Authorize(req.body, Demanded(req), "handle")
       ELSE pc' = "handle" /\ UNCHANGED <<asked, again, status, failed>>
    /\ UNCHANGED <<req, cache, scope, touched, policy>>

\* A query of the handler reaches rows of the scope, in collections of the scope.
Query(r) ==
    /\ pc = "handle"
    /\ r \in scope \ touched
    /\ req.name # None => PathResource(req.name) \in AllowedNames(scope)
    /\ touched' = touched \cup {r}
    /\ UNCHANGED <<pc, req, cache, scope, asked, again, status, failed, policy>>

Respond ==
    /\ pc = "handle"
    /\ Answer(200)
    /\ UNCHANGED <<req, cache, scope, touched, asked, again, failed, policy>>

Return ==
    /\ pc = "done"
    /\ pc' = "idle" /\ req' = NoRequest
    /\ cache' = FreshCache
    /\ scope' = {} /\ touched' = {} /\ asked' = {} /\ again' = FALSE
    /\ status' = 0 /\ failed' = FALSE
    /\ ever' = {} /\ always' = {} /\ changes' = 0
    /\ UNCHANGED grants

\* A policy changes.
Change(e) ==
    /\ pc = "idle" \/ changes < MaxChanges
    /\ pc # "done"
    /\ grants' = IF e \in grants THEN grants \ {e} ELSE grants \cup {e}
    /\ IF pc = "idle" THEN UNCHANGED <<ever, always, changes>>
       ELSE ever' = ever \cup grants' /\ always' = always \cap grants' /\ changes' = changes + 1
    /\ UNCHANGED <<pc, req, cache, scope, touched, asked, again, status, failed>>

Init ==
    /\ grants = {} /\ pc = "idle" /\ cache = None /\ scope = {} /\ touched = {}
    /\ req = NoRequest
    /\ asked = {} /\ again = FALSE /\ status = 0 /\ failed = FALSE
    /\ ever = {} /\ always = {} /\ changes = 0

Next ==
    \/ \E r \in Requests : Begin(r)
    \/ Mapping \/ CheckPath \/ CheckBody
    \/ \E r \in Resources : Query(r)
    \/ Respond \/ Return
    \/ \E e \in Entries : Change(e)

Spec == Init /\ [][Next]_vars

-----------------------------------------------------------------------------
HeldAtSomeMoment(r, action) == \E e \in ever : e.resource = r /\ Gives(e, action)

TypeOK ==
    /\ ever \subseteq Entries /\ always \subseteq ever
    /\ grants \subseteq Entries /\ (pc # "idle" => always \subseteq grants /\ grants \subseteq ever)
    /\ pc \in {"idle", "mapping", "check", "require", "handle", "done"}
    /\ req \in Request \cup {NoRequest}
    /\ cache \in {None} \cup SUBSET Resources /\ (pc \in {"idle", "mapping"} => cache = None)
    /\ scope \subseteq Resources /\ touched \subseteq scope
    /\ pc \in {"idle", "mapping", "check", "require"} => touched = {}
    /\ status \in {0, 200, 401, 403, 500}

\* A row is reached only where, at some moment of this very request, the caller
\* held the declared action on the row's authz, and every action the route
\* demands on the collection of the path and on the resource of the body:
\* whatever policies change between the questions, and whatever earlier requests
\* were allowed.
TouchedWasGranted ==
    touched # {} =>
        /\ \A r \in touched : HeldAtSomeMoment(r, req.action)
        /\ req.name # None => \A a \in Demanded(req) : Holds(ever, PathResource(req.name), a)
        /\ req.body # None => \A a \in Demanded(req) : Holds(ever, req.body, a)

\* A refusal is true: a 403 answers a caller who lacked something demanded at some
\* moment, and a caller with a good token is told otherwise only by a failed engine.
RefusalsAreTrue ==
    pc = "done" =>
        /\ status = 403 =>
              \/ req.name # None /\ \E a \in Demanded(req) : ~Holds(always, ResourceOf[NormalOf[req.name]], a)
              \/ req.body # None /\ \E a \in Demanded(req) : ~Holds(always, req.body, a)
        /\ status \in {401, 500} => req.token # "good" \/ failed

\* What the caller holds throughout is in the scope of its queries.
HeldThroughoutIsInScope ==
    pc = "handle" => \A e \in always : Gives(e, req.action) => e.resource \in scope

-----------------------------------------------------------------------------
(* What the documents say and the code does not do; README, "Deviations".   *)

\* common/auth.py:15: "a request that needs several of these costs at most one
\* policy-engine round trip per distinct question".
AskedOnce == ~again

\* common/config.py:60 of DEBUG_SKIP_AUTH: "note that if a token is provided, then
\* auth will still occur".
TokenIsChecked == pc = "done" /\ req.token = "bad" => status # 200

\* common/config.py:64 of ALLOW_ANONYMOUS_ACCESS: "this will effectively turn off
\* authorization checking, allowing for anyone to use the AI functionality".
AnyoneIsServed == pc = "done" => status = 200
=============================================================================
