-------------------------- MODULE AuthzRequestProofs --------------------------
(***************************************************************************)
(* Proofs about AuthzRequest, for any resources, grants, requests and any  *)
(* number of policy changes during a request.                              *)
(***************************************************************************)
EXTENDS AuthzRequest, TLAPS

-----------------------------------------------------------------------------
\* More grants give no less.
LEMMA HoldsMonotone ==
    ASSUME NEW es, NEW fs, es \subseteq fs, NEW r, NEW a, Holds(es, r, a)
    PROVE  Holds(fs, r, a)
BY DEF Holds

\* The mapping reduced to a method names exactly the resources of grants that
\* give it.
LEMMA AllowedAuthzIsHeld ==
    ASSUME NEW es, NEW action, NEW r
    PROVE  r \in AllowedAuthz(es, action) <=> \E e \in es : e.resource = r /\ Gives(e, action)
BY DEF AllowedAuthz, Matches, Gives

\* The mapping is answered with a scope, empty or what the grants give, or with a
\* refusal that only a failed engine or a bad token explains.
LEMMA MappingAnswers ==
    ASSUME Mapping, cache = None
    PROVE  /\ UNCHANGED <<req, touched, grants, ever, always, changes>>
           /\ \/ /\ pc' = "check" /\ cache' = scope' /\ status' = status
                 /\ scope' = AllowedAuthz(grants, req.action) \/ (SkipAuth /\ scope' = {})
              \/ /\ pc' = "done" /\ status' \in {401, 500} /\ UNCHANGED <<cache, scope>>
                 /\ req.token # "good" \/ failed'
<1>1. UNCHANGED <<req, touched, grants, ever, always, changes>>
  BY DEF Mapping, policy
<1>2. CASE SkipAuth
  BY <1>1, <1>2 DEF Mapping
<1>3. CASE ~SkipAuth /\ req.token = "none"
  BY <1>1, <1>3 DEF Mapping, Answer
<1>4. CASE ~SkipAuth /\ req.token # "none"
  <2>1. CASE req.token = "good" /\ pc' = "check" /\ scope' = AllowedAuthz(grants, req.action)
             /\ cache' = AllowedAuthz(grants, req.action) /\ UNCHANGED <<failed, status>>
    BY <1>1, <2>1
  <2>2. CASE EngineFails(TheMapping) /\ UNCHANGED <<scope, cache>>
    <3>1. req.token # "good" \/ failed'
      BY <2>2, Zenon DEF EngineFails
    <3> QED BY <1>1, <2>2, <3>1 DEF EngineFails, Answer
  <2> QED BY <1>4, <2>1, <2>2 DEF Mapping
<1> QED BY <1>2, <1>3, <1>4

-----------------------------------------------------------------------------
\* Requests, scopes and answers stay well-typed, and nothing is cached when a
\* request begins.
THEOREM TypeCorrect == Spec => []TypeOK
<1>1. Init => TypeOK
  BY DEF Init, TypeOK
<1>2. ASSUME TypeOK, [Next]_vars
      PROVE  TypeOK'
  <2>1. ASSUME NEW r \in Requests, Begin(r) PROVE TypeOK'
    BY <1>2, <2>1, RequestsAssumption DEF TypeOK, Begin
  <2>2. CASE Mapping
    <3>1. AllowedAuthz(grants, req.action) \subseteq Resources
      BY <1>2, EntriesAssumption, AllowedAuthzIsHeld DEF TypeOK
    <3>2. cache = None /\ pc = "mapping" /\ touched = {}
      BY <1>2, <2>2 DEF TypeOK, Mapping
    <3> QED BY <1>2, <2>2, <3>1, <3>2, MappingAnswers DEF TypeOK
  <2>3. CASE CheckPath
    BY <1>2, <2>3 DEF TypeOK, CheckPath, Authorize, Answer, EngineFails, policy
  <2>4. CASE CheckBody
    BY <1>2, <2>4 DEF TypeOK, CheckBody, Authorize, Answer, EngineFails, policy
  <2>5. ASSUME NEW r \in Resources, Query(r) PROVE TypeOK'
    BY <1>2, <2>5 DEF TypeOK, Query, policy
  <2>6. CASE Respond
    BY <1>2, <2>6 DEF TypeOK, Respond, Answer, policy
  <2>7. CASE Return
    BY <1>2, <2>7 DEF TypeOK, Return, FreshCache
  <2>8. ASSUME NEW e \in Entries, Change(e) PROVE TypeOK'
    BY <1>2, <2>8 DEF TypeOK, Change
  <2>9. CASE UNCHANGED vars
    BY <1>2, <2>9 DEF TypeOK, vars
  <2> QED BY <1>2, <2>1, <2>2, <2>3, <2>4, <2>5, <2>6, <2>7, <2>8, <2>9 DEF Next
<1> QED BY <1>1, <1>2, PTL DEF Spec

-----------------------------------------------------------------------------
\* What is known at each step of a request.  A check that has passed was answered
\* from grants of this request, and those stay in `ever` whatever changes later.
ScopeIsHeld == \A r \in scope : HeldAtSomeMoment(r, req.action)
HeldIsInScope == \A e \in always : Gives(e, req.action) => e.resource \in scope
PathIsGranted == req.name # None => \A a \in Demanded(req) : Holds(ever, PathResource(req.name), a)
BodyIsGranted == req.body # None => \A a \in Demanded(req) : Holds(ever, req.body, a)

IInv ==
    /\ pc # "idle" => always \subseteq grants /\ grants \subseteq ever
    /\ pc \in {"idle", "mapping"} => cache = None
    /\ pc \in {"idle", "mapping", "check", "require"} => touched = {}
    /\ pc \in {"check", "require", "handle"} => ScopeIsHeld /\ HeldIsInScope
    /\ pc \in {"require", "handle"} => PathIsGranted
    /\ pc = "handle" => BodyIsGranted
    /\ TouchedWasGranted
    /\ RefusalsAreTrue

\* A check that passes leaves the demanded actions among the grants, one that is
\* refused names a missing one, and only a failed engine or a bad token is told
\* otherwise.
LEMMA AuthorizeAnswers ==
    ASSUME ~Anonymous, ~SkipAuth, NEW resource, NEW actions, NEW next, next # "done",
           Authorize(resource, actions, next), pc # "done"
    PROVE  \/ pc' = next /\ \A a \in actions : Holds(grants, resource, a)
           \/ /\ pc' = "done"
              /\ \/ status' = 403 /\ \E a \in actions : ~Holds(grants, resource, a)
                 \/ status' \in {401, 500} /\ (req.token # "good" \/ failed')
BY DEF Authorize, Answer, EngineFails

LEMMA Inductive ==
    ASSUME ~Anonymous, ~SkipAuth
    PROVE  Spec => []IInv
<1>1. Init => IInv
  BY DEF Init, IInv, TouchedWasGranted, RefusalsAreTrue
<1>2. ASSUME IInv, [Next]_vars
      PROVE  IInv'
  <2>1. ASSUME NEW r \in Requests, Begin(r) PROVE IInv'
    BY <1>2, <2>1 DEF IInv, Begin, TouchedWasGranted, RefusalsAreTrue
  <2>2. CASE Mapping
    <3>1. cache = None /\ pc = "mapping" /\ always \subseteq grants /\ grants \subseteq ever /\ touched = {}
      BY <1>2, <2>2 DEF IInv, Mapping
    <3>2. pc' = "check" => ScopeIsHeld' /\ HeldIsInScope'
      BY <2>2, <3>1, MappingAnswers, AllowedAuthzIsHeld
      DEF ScopeIsHeld, HeldIsInScope, HeldAtSomeMoment
    <3> QED BY <2>2, <3>1, <3>2, MappingAnswers DEF IInv, TouchedWasGranted, RefusalsAreTrue
  <2>3. CASE CheckPath
    <3>1. pc = "check" /\ touched = {} /\ always \subseteq grants /\ grants \subseteq ever
          /\ UNCHANGED <<req, cache, scope, touched, grants, ever, always, changes>>
      BY <1>2, <2>3 DEF IInv, CheckPath, policy
    <3>2. \/ pc' = "require" /\ PathIsGranted
          \/ /\ pc' = "done"
             /\ status' = 403 => req.name # None /\ \E a \in Demanded(req) : ~Holds(always, PathResource(req.name), a)
             /\ status' \in {401, 500} => req.token # "good" \/ failed'
      <4>1. CASE req.name = None
        BY <2>3, <4>1 DEF CheckPath, PathIsGranted
      <4>2. CASE req.name # None
        <5>1. Authorize(PathResource(req.name), Demanded(req), "require")
          BY <2>3, <4>2 DEF CheckPath
        <5> QED BY <3>1, <4>2, <5>1, AuthorizeAnswers, HoldsMonotone DEF PathIsGranted
      <4> QED BY <4>1, <4>2
    <3>3. ScopeIsHeld' /\ HeldIsInScope' /\ (PathIsGranted => PathIsGranted')
      BY <1>2, <3>1
      DEF IInv, ScopeIsHeld, HeldIsInScope, HeldAtSomeMoment, PathIsGranted, Holds, Demanded
    <3>4. RefusalsAreTrue'
      BY <3>1, <3>2 DEF RefusalsAreTrue, PathResource, Demanded, Holds
    <3> QED BY <3>1, <3>2, <3>3, <3>4 DEF IInv, TouchedWasGranted
  <2>4. CASE CheckBody
    <3>1. pc = "require" /\ touched = {} /\ always \subseteq grants /\ grants \subseteq ever
          /\ UNCHANGED <<req, cache, scope, touched, grants, ever, always, changes>>
      BY <1>2, <2>4 DEF IInv, CheckBody, policy
    <3>2. \/ pc' = "handle" /\ BodyIsGranted
          \/ /\ pc' = "done"
             /\ status' = 403 => req.body # None /\ \E a \in Demanded(req) : ~Holds(always, req.body, a)
             /\ status' \in {401, 500} => req.token # "good" \/ failed'
      <4>1. CASE ~NeedsCheck
        BY <1>2, <2>4, <3>1, <4>1 DEF CheckBody, NeedsCheck, BodyIsGranted, IInv, PathIsGranted
      <4>2. CASE NeedsCheck
        <5>1. Authorize(req.body, Demanded(req), "handle") /\ req.body # None
          BY <2>4, <4>2 DEF CheckBody, NeedsCheck
        <5> QED BY <3>1, <4>2, <5>1, AuthorizeAnswers, HoldsMonotone DEF BodyIsGranted
      <4> QED BY <4>1, <4>2
    <3>3. ScopeIsHeld' /\ HeldIsInScope' /\ PathIsGranted' /\ (BodyIsGranted => BodyIsGranted')
      BY <1>2, <3>1
      DEF IInv, ScopeIsHeld, HeldIsInScope, HeldAtSomeMoment, PathIsGranted, BodyIsGranted, Holds, Demanded
    <3>4. RefusalsAreTrue'
      BY <3>1, <3>2 DEF RefusalsAreTrue, Demanded, Holds
    <3> QED BY <3>1, <3>2, <3>3, <3>4 DEF IInv, TouchedWasGranted
  <2>5. ASSUME NEW r \in Resources, Query(r) PROVE IInv'
    <3>1. ScopeIsHeld /\ HeldIsInScope /\ PathIsGranted /\ BodyIsGranted /\ touched' = touched \cup {r}
          /\ r \in scope /\ UNCHANGED <<pc, req, cache, scope, grants, ever, always, status, failed>>
          /\ pc = "handle"
      BY <1>2, <2>5 DEF IInv, Query, policy
    <3>2. ScopeIsHeld' /\ HeldIsInScope' /\ PathIsGranted' /\ BodyIsGranted'
      BY <3>1
      DEF ScopeIsHeld, HeldIsInScope, HeldAtSomeMoment, PathIsGranted, BodyIsGranted, Holds, Demanded
    <3>3. TouchedWasGranted'
      BY <1>2, <3>1, <3>2
      DEF IInv, TouchedWasGranted, ScopeIsHeld, PathIsGranted, BodyIsGranted, HeldAtSomeMoment
    <3> QED BY <1>2, <3>1, <3>2, <3>3 DEF IInv, RefusalsAreTrue
  <2>6. CASE Respond
    <3>1. UNCHANGED <<req, cache, scope, touched, grants, ever, always>> /\ pc' = "done" /\ status' = 200
          /\ pc = "handle"
      BY <2>6 DEF Respond, Answer, policy
    <3>2. TouchedWasGranted'
      BY <1>2, <3>1 DEF IInv, TouchedWasGranted, HeldAtSomeMoment, Holds, Demanded
    <3> QED BY <1>2, <3>1, <3>2 DEF IInv, RefusalsAreTrue
  <2>7. CASE Return
    BY <1>2, <2>7 DEF IInv, Return, FreshCache, TouchedWasGranted, RefusalsAreTrue
  <2>8. ASSUME NEW e \in Entries, Change(e) PROVE IInv'
    <3>1. UNCHANGED <<pc, req, cache, scope, touched, status, failed>> /\ pc # "done"
      BY <2>8 DEF Change
    <3>2. CASE pc = "idle"
      BY <1>2, <3>1, <3>2 DEF IInv, TouchedWasGranted, RefusalsAreTrue
    <3>3. CASE pc # "idle"
      <4>1. ever \subseteq ever' /\ always' \subseteq always /\ always' \subseteq grants' /\ grants' \subseteq ever'
        BY <2>8, <3>3 DEF Change
      <4>2. ScopeIsHeld => ScopeIsHeld'
        BY <3>1, <4>1 DEF ScopeIsHeld, HeldAtSomeMoment
      <4>3. HeldIsInScope => HeldIsInScope'
        BY <3>1, <4>1 DEF HeldIsInScope
      <4>4. (PathIsGranted => PathIsGranted') /\ (BodyIsGranted => BodyIsGranted')
        BY <3>1, <4>1 DEF PathIsGranted, BodyIsGranted, Holds, Demanded
      <4>5. TouchedWasGranted'
        BY <1>2, <3>1, <4>1 DEF IInv, TouchedWasGranted, HeldAtSomeMoment, Holds, Demanded
      <4> QED BY <1>2, <3>1, <3>3, <4>1, <4>2, <4>3, <4>4, <4>5 DEF IInv, RefusalsAreTrue
    <3> QED BY <3>2, <3>3
  <2>9. CASE UNCHANGED vars
    BY <1>2, <2>9
    DEF IInv, vars, TouchedWasGranted, RefusalsAreTrue, ScopeIsHeld, HeldIsInScope, HeldAtSomeMoment,
        PathIsGranted, BodyIsGranted, Holds, Demanded
  <2> QED BY <1>2, <2>1, <2>2, <2>3, <2>4, <2>5, <2>6, <2>7, <2>8, <2>9 DEF Next
<1> QED BY <1>1, <1>2, PTL DEF Spec

\* Whatever policies change between the questions, a row is reached only where
\* this very request's grants covered the row, the path and the body.
THEOREM RowsWereGranted ==
    ASSUME ~Anonymous, ~SkipAuth
    PROVE  Spec => []TouchedWasGranted
<1>1. IInv => TouchedWasGranted
  BY DEF IInv
<1> QED BY <1>1, Inductive, PTL

\* A 403 answers a caller who lacked something demanded at some moment of the
\* request, and a good token is refused otherwise only by a failed engine.
THEOREM RefusalsAreExplained ==
    ASSUME ~Anonymous, ~SkipAuth
    PROVE  Spec => []RefusalsAreTrue
<1>1. IInv => RefusalsAreTrue
  BY DEF IInv
<1> QED BY <1>1, Inductive, PTL

\* The queries of a handler see every row whose authz the caller holds throughout.
THEOREM ScopeIsComplete ==
    ASSUME ~Anonymous, ~SkipAuth
    PROVE  Spec => []HeldThroughoutIsInScope
<1>1. IInv => HeldThroughoutIsInScope
  BY DEF IInv, HeldIsInScope, HeldThroughoutIsInScope
<1> QED BY <1>1, Inductive, PTL
=============================================================================
