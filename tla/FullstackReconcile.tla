-------------------------- MODULE FullstackReconcile --------------------------
(* tools/rails/fullstack.py: the coordinator that accepts a full-stack migration
   from the artifacts of its two halves (`docs`) and a decision for every route.
   It loads the artifacts, pairs the handoff with the presentation, takes the
   routes one by one and covers the blockers; the first failure ends it, with
   exit 2 where the migration is incomplete and exit 1 where it is inconsistent.

   A path is a sequence of segments.  A verb expression is the set of its methods,
   a finding id or blocker a record of a code and a number (0: the code itself).
   What a JSON schema or a type test alone decides is left out.               *)
EXTENDS Integers, Sequences, FiniteSets, SequencesExt

CONSTANTS
  Migrations,    \* the sets of artifacts it may be run on
  Decisions,     \* the decisions an operator may make, by the name of the route
  CaptureSegs,   \* ":id", "{id}": segments that capture
  Placeholders,  \* "{{id}}": segments that a replay substitutes
  Uncanonical,   \* segments no router would route as they are written
  Words          \* every other segment

VARIABLES
  docs,         \* the artifacts it is run on
  gateStage,    \* what it does next
  gateTodo,     \* the routes it has not come to
  gateDecided,  \* what it reconciled
  exit          \* its exit code; 9 while it runs

fvars == <<docs, gateStage, gateTodo, gateDecided, exit>>

KNOWN_ENDPOINT_ACCESS == {"public", "conditional", "authenticated", "superuser", "path-secret", "locked"}
HTTP_VERBS == {"GET", "HEAD", "POST", "PUT", "PATCH", "DELETE", "OPTIONS"}
MUTATING_VERBS == {"POST", "PUT", "PATCH", "DELETE"}
NoOp == [id |-> "none", verb |-> "none", path |-> <<>>, collection |-> "none", access |-> "not-applicable"]
BadOp == [NoOp EXCEPT !.id = "bad"]

BROWSER_CONTROLS ==
  [navigate |-> "journey", asset |-> "journey", signup |-> "allowed", signin |-> "allowed",
   submit_allowed |-> "allowed", submit_denied |-> "denied", validation_error |-> "validation"]

(* the dispositions a handoff status admits *)
EXPECTED_DISPOSITIONS ==
  [blocked |-> {"blocked"}, retained |-> {"retained", "retired"}, migrated |-> {"migrated"},
   backend |-> {"migrated"}, redirect |-> {"migrated", "retained"}]

(* the schemes of paths: one operator per question the coordinator asks of them *)
path_matches_template(template, path, placeholders) ==
  /\ Len(template) = Len(path)
  /\ \A i \in DOMAIN path :
       IF template[i] \in CaptureSegs
       THEN (placeholders /\ path[i] \in Placeholders) \/ path[i] \in Words
       ELSE template[i] = path[i]

(* Mutant: only the first of the two patterns may capture. *)
OverlapOneSided(left, right) ==
  /\ Len(left) = Len(right)
  /\ \A i \in DOMAIN left : left[i] \in CaptureSegs \/ left[i] = right[i]

route_patterns_overlap(left, right) ==
  /\ Len(left) = Len(right)
  /\ \A i \in DOMAIN left : left[i] \in CaptureSegs \/ right[i] \in CaptureSegs \/ left[i] = right[i]

path_matches_reserved_prefix(path, prefix) ==
  /\ Len(path) >= Len(prefix)
  /\ \A i \in DOMAIN prefix : path[i] \in CaptureSegs \/ path[i] = prefix[i]

(* a path with its captures made anonymous *)
Shape(path) == [i \in DOMAIN path |-> IF path[i] \in CaptureSegs THEN "{}" ELSE path[i]]

(* What the schemas of the artifacts, the tests of a path and the keys of the
   dictionaries they are loaded into leave possible: exported paths are canonical;
   "custom" is no exported id; a route, a case and a check are found by one key; a
   submission of a form names its operation; evidence is of one of two kinds. *)
Canonical == Seq(CaptureSegs \cup Words) \ {<<>>}

ContractFormed(c) ==
  /\ \A i \in DOMAIN c.reserved : c.reserved[i].path \in Canonical
  /\ c.feature \in Canonical \cup {<<>>}
  /\ \A o \in c.operations \cup c.builtins :
       o.path \in Canonical /\ o.access \in KNOWN_ENDPOINT_ACCESS /\ o.id # "custom"

RoutesFormed(m) ==
  /\ IsFiniteSet(m.backend) /\ IsFiniteSet(DOMAIN m.presentation)
  /\ \A r \in m.backend : r.name \in DOMAIN Decisions
  /\ \A i \in DOMAIN m.presentation : m.presentation[i].route.name \in DOMAIN Decisions
  /\ \A i, j \in DOMAIN m.presentation : m.presentation[i].route = m.presentation[j].route => i = j
  /\ \A row \in m.handoff :
       /\ row.status \in DOMAIN EXPECTED_DISPOSITIONS \cup {"open"}
       /\ row.endpoint.id # "none" => row.endpoint.path \in Seq(CaptureSegs \cup Uncanonical \cup Words) \ {<<>>}

EvidenceFormed(m) ==
  /\ \A b, c \in m.replay.capture : b.id = c.id => b = c
  /\ \A b, c \in m.browser : b.id = c.id => b = c
  /\ \A c \in m.browser :
       /\ c.kind \in DOMAIN BROWSER_CONTROLS
       /\ c.kind \in {"submit_allowed", "submit_denied"} => c.operation # "none"

ASSUME ReconcileConstants ==
  /\ "{}" \notin CaptureSegs \cup Words
  /\ \A name \in DOMAIN Decisions : \A d \in Decisions[name] : \A e \in d.parity : e.kind \in {"backend", "browser"}
  /\ \A m \in Migrations : ContractFormed(m.contract) /\ RoutesFormed(m) /\ EvidenceFormed(m)

-------------------------------------------------------------------------------
(* load_operations: what the exporter says it owns, and the operations it exports *)
Shapes(c) == {<<c.reserved[i].method, Shape(c.reserved[i].path)>> : i \in DOMAIN c.reserved}

ReservedOnce(c) == Cardinality(Shapes(c)) = Len(c.reserved)

PrefixesMatchGates(c) == c.admin = (<<"_">> \in c.prefixes)

FeatureReserved(c) == c.feature # <<>> => {<<m, c.feature>> : m \in {"GET", "HEAD"}} \subseteq Shapes(c)

BuiltinsReserved(c) ==
  \A b \in c.builtins :
    <<b.verb, Shape(b.path)>> \in Shapes(c) /\ Cardinality({i \in DOMAIN b.path : b.path[i] \in CaptureSegs}) = 1

(* a resource operation lives in the namespace of its collection, which has one
   type; an authentication collection gates consumer operations only *)
OperationsCoherent(c) ==
  /\ \A o \in c.operations :
       /\ \A other \in c.operations \ {o} : other.id # o.id /\ <<other.verb, other.path>> # <<o.verb, o.path>>
       /\ \A b \in c.builtins : b.id # o.id
       /\ (o.collection = "none") = (o.ctype = "none")
       /\ o.collection # "none" =>
            Len(o.path) > 3 /\ SubSeq(o.path, 1, 3) = <<"api", "collections", o.collection>>
       /\ o.gated => o.collection = "none" /\ o.access = "authenticated"
  /\ \A o, other \in c.operations :
       o.collection = other.collection /\ o.collection # "none" => o.ctype = other.ctype
  /\ c.consumerRoutes = \E o \in c.operations : o.collection = "none"

load_operations(c) ==
  ReservedOnce(c) /\ PrefixesMatchGates(c) /\ FeatureReserved(c) /\ BuiltinsReserved(c) /\ OperationsCoherent(c)

auth_collections == {o.collection : o \in {p \in docs.contract.operations : p.ctype = "auth"}}

ReconcileInit == /\ docs \in Migrations /\ gateStage = "load" /\ gateTodo = <<>> /\ gateDecided = <<>> /\ exit = 9

Fail(code) == gateStage' = "done" /\ exit' = code /\ UNCHANGED <<docs, gateTodo, gateDecided>>

Presented == {docs.presentation[i].route : i \in DOMAIN docs.presentation}
Identities == Presented \cup docs.backend
PresentationId(route) ==
  LET ids == {docs.presentation[i].id : i \in {j \in DOMAIN docs.presentation : docs.presentation[j].route = route}}
  IN IF ids = {} THEN "none" ELSE CHOOSE id \in ids : TRUE
HandoffRows(id) == {row \in docs.handoff : row.id = id}
Converted(route) == HandoffRows(PresentationId(route))

(* load_backend_evidence: every finding passes, and the capture is of those cases *)
ReplayPassed == docs.replay.findings # {} /\ \A f \in docs.replay.findings : f.result = "pass"
CaptureBound == {c.id : c \in docs.replay.capture} = {f.id : f \in docs.replay.findings}

(* decisions not made are an incomplete migration, decisions on nothing an error *)
Load ==
  /\ gateStage = "load"
  /\ IF ~docs.complete THEN Fail(2)
     ELSE IF ~load_operations(docs.contract) THEN Fail(1)
     ELSE IF ~ReplayPassed THEN Fail(2)
     ELSE IF ~CaptureBound THEN Fail(1)
     ELSE IF Identities \ docs.answered # {} THEN Fail(2)
     ELSE IF docs.answered \ Identities # {} THEN Fail(1)
     ELSE gateStage' = "pair" /\ UNCHANGED <<docs, gateTodo, gateDecided, exit>>

(* _handoff_routes and _pair_handoff_routes: a row is attributed only where its
   route id names one route, and a page without a row was not converted *)
Attributable ==
  /\ \A row \in docs.handoff : row.status # "open" /\ \E i \in DOMAIN docs.presentation : docs.presentation[i].id = row.id
  /\ \A i \in DOMAIN docs.presentation :
       LET id == docs.presentation[i].id
       IN IF HandoffRows(id) = {} THEN docs.presentation[i].route.methods \cap {"GET", "HEAD"} = {}
          ELSE \A j \in DOMAIN docs.presentation : docs.presentation[j].id = id => j = i

Pair ==
  /\ gateStage = "pair"
  /\ IF ~Attributable THEN Fail(1)
     ELSE gateStage' = "decide" /\ gateTodo' = SetToSeq(Identities) /\ UNCHANGED <<docs, gateDecided, exit>>

-------------------------------------------------------------------------------
(* a custom endpoint, which must shadow nothing of the engine's *)
custom_operation(e, access) ==
  LET c == docs.contract
  IN IF /\ e.named = e.path /\ e.verb \in HTTP_VERBS /\ \A i \in DOMAIN e.path : e.path[i] \notin Uncanonical
        /\ access \in KNOWN_ENDPOINT_ACCESS \ {"locked"}
        /\ ~\E p \in c.prefixes : path_matches_reserved_prefix(e.path, p)
        /\ ~\E i \in DOMAIN c.reserved :
              c.reserved[i].method = e.verb /\ route_patterns_overlap(c.reserved[i].path, e.path)
        /\ ~\E o \in c.operations : o.verb = e.verb /\ route_patterns_overlap(o.path, e.path)
     THEN [id |-> "custom", verb |-> e.verb, path |-> e.path, collection |-> "none", access |-> access]
     ELSE BadOp

(* a builtin of the engine, under an exported auth collection *)
builtin_operation(e, access) ==
  LET fits == {b \in docs.contract.builtins :
                 /\ b.id = e.id /\ b.verb = e.verb /\ Len(b.path) = Len(e.path)
                 /\ \A i \in DOMAIN b.path : IF b.path[i] \in CaptureSegs THEN e.path[i] \in auth_collections
                                             ELSE b.path[i] = e.path[i]}
  IN IF access # "none" \/ fits = {} THEN BadOp
     ELSE LET b == CHOOSE b \in fits : TRUE
              at == CHOOSE i \in DOMAIN b.path : b.path[i] \in CaptureSegs
          IN [id |-> b.id, verb |-> b.verb, path |-> e.path, collection |-> e.path[at], access |-> b.access]

Selected(o) == [id |-> o.id, verb |-> o.verb, path |-> o.path, collection |-> o.collection, access |-> o.access]

endpoint_operation(e, access) ==
  LET exported == {o \in docs.contract.operations : o.id = e.id}
  IN IF exported # {}
     THEN LET o == CHOOSE o \in exported : TRUE
          IN IF access = "none" /\ o.verb = e.verb /\ o.path = e.path THEN Selected(o) ELSE BadOp
     ELSE IF e.id = "custom" THEN custom_operation(e, access) ELSE builtin_operation(e, access)

(* the operation a route becomes: the one its handoff rows agree on, or the one the
   decision names; BadOp where either is refused *)
Operation(route, d) ==
  LET ops == {endpoint_operation(row.endpoint, d.access) : row \in {r \in Converted(route) : r.endpoint.id # "none"}}
      named == {o \in docs.contract.operations : o.id = d.operation}
  IN IF ops # {} THEN IF d.operation = "none" /\ Cardinality(ops) = 1 THEN CHOOSE o \in ops : TRUE ELSE BadOp
     ELSE IF d.access # "none" THEN BadOp
     ELSE IF d.operation = "none" THEN NoOp
     ELSE IF named = {} THEN BadOp ELSE Selected(CHOOSE o \in named : TRUE)

(* a changed method is explained, and only a changed method is *)
MethodExplained(route, d, op) == d.methodRationale = (op # NoOp /\ op.verb \notin route.methods)

(* _validate_evidence for a replayed case and for a browser check *)
BackendFits(e, route, op) ==
  \E case \in docs.replay.capture :
    /\ case.id = e.id /\ case.control # "none"
    /\ IF op # NoOp THEN case.method = op.verb /\ path_matches_template(op.path, case.path, TRUE)
       ELSE case.method \in route.methods /\ path_matches_template(route.path, case.path, TRUE)

BrowserFits(e, route, op) ==
  \E check \in docs.browser :
    /\ check.id = e.id /\ check.kind # "asset"
    /\ check.operation # "none" =>
         op # NoOp /\ check.operation = op.id /\ path_matches_template(op.path, check.url, FALSE)
    /\ check.method # "none" => op # NoOp /\ check.method = op.verb
    /\ check.collection # "none" => op # NoOp /\ check.collection = op.collection
    /\ check.kind = "navigate" => path_matches_template(route.path, check.url, FALSE)
    /\ check.kind \in {"signup", "signin"} =>
         op # NoOp /\ path_matches_template(op.path, check.url, FALSE)

EvidenceFits(route, d, op) ==
  \A e \in d.parity : IF e.kind = "backend" THEN BackendFits(e, route, op) ELSE BrowserFits(e, route, op)

Control(e) ==
  IF e.kind = "backend" THEN (CHOOSE c \in docs.replay.capture : c.id = e.id).control
  ELSE BROWSER_CONTROLS[(CHOOSE b \in docs.browser : b.id = e.id).kind]

Protected(route, op) ==
  /\ route.methods \cap MUTATING_VERBS # {} \/ op.verb \in MUTATING_VERBS
  /\ op.access \notin {"public", "not-applicable"}

(* a migrated route has a replacement and the evidence its surface asks for *)
MigrationProven(route, d, op) ==
  /\ op # NoOp \/ \E row \in Converted(route) : row.status \in {"migrated", "backend", "redirect"}
  /\ d.parity # {}
  /\ d.surface = "browser" => \E e \in d.parity : e.kind = "browser"
  /\ d.surface = "api" => \E e \in d.parity : e.kind = "backend"
  /\ Protected(route, op) => {"allowed", "denied"} \subseteq {Control(e) : e \in d.parity}
  /\ Cardinality(route.methods) = 1

(* what a blocked route may name: the blockers of the page, or of the whole
   application, and the findings of its own handoff rows *)
DirectCodes(id) == {[code |-> b.code, n |-> 0] : b \in {b \in docs.blockers : b.route \in {"none", id}}}
RowFindings(route) == UNION {row.findings : row \in Converted(route)}
RowDecisions(route) == UNION {row.decisions : row \in Converted(route)}
FindingIds == {f.id : f \in docs.findings}

(* a finding that is attached to this route *)
Own(route, blocker) ==
  /\ blocker \in RowFindings(route)
  /\ \A f \in docs.findings : f.id = blocker => f.route \in {"none", PresentationId(route)}

BlockedOutcome(route, d) ==
  LET direct == DirectCodes(PresentationId(route))
  IN IF d.operation # "none" THEN 1
     ELSE IF d.blockers = {} \/ route \notin Presented THEN 2
     ELSE IF ~(d.blockers \subseteq FindingIds \cup direct) THEN 1
     ELSE IF ~(RowDecisions(route) \subseteq d.blockers) THEN 2
     ELSE IF ~(RowDecisions(route) \subseteq RowFindings(route)) THEN 1
     ELSE IF \E b \in d.blockers \ direct : ~Own(route, b) THEN 1 ELSE 0

StatusAgrees(route, d) == \A row \in Converted(route) : d.disposition \in EXPECTED_DISPOSITIONS[row.status]

SurfaceTrue(route, d) ==
  /\ d.surface = "browser" => route \in Presented
  /\ d.surface = "internal" /\ route \in docs.backend => route.internal

(* 0 where the route is reconciled, the exit code of its first failure otherwise *)
RouteOutcome(route, d, op) ==
  IF \/ d.disposition # "blocked" /\ d.blockers # {}
     \/ op = BadOp \/ op.access = "locked" \/ ~MethodExplained(route, d, op) \/ ~EvidenceFits(route, d, op) THEN 1
  ELSE LET outcome == CASE d.disposition = "migrated" -> IF MigrationProven(route, d, op) THEN 0 ELSE 2
                        [] d.disposition = "blocked" -> BlockedOutcome(route, d)
                        [] OTHER -> IF d.operation # "none" THEN 1 ELSE 0
       IN IF outcome # 0 THEN outcome
          ELSE IF StatusAgrees(route, d) /\ SurfaceTrue(route, d) THEN 0 ELSE 1

Outcome(route, d) == RouteOutcome(route, d, Operation(route, d))

Decide ==
  /\ gateStage = "decide" /\ gateTodo # <<>>
  /\ LET route == Head(gateTodo)
         choices == Decisions[route.name]
     IN \/ \E code \in {Outcome(route, d) : d \in choices} \ {0} : Fail(code)
        \/ \E d \in {c \in choices : Outcome(route, c) = 0} :
             /\ gateTodo' = Tail(gateTodo)
             /\ gateDecided' = Append(gateDecided, [route |-> route, d |-> d, op |-> Operation(route, d),
                                           presentation |-> Converted(route)])
             /\ UNCHANGED <<docs, gateStage, exit>>

Covers(b, r) ==
  /\ r.d.disposition = "blocked" /\ b.route \in {"none", PresentationId(r.route)}
  /\ \E blocker \in r.d.blockers : blocker.code = b.code

(* every blocker of the presentation is represented, or the migration is incomplete *)
Cover ==
  /\ gateStage = "decide" /\ gateTodo = <<>>
  /\ IF \A b \in docs.blockers : \E i \in DOMAIN gateDecided : Covers(b, gateDecided[i])
     THEN gateStage' = "done" /\ exit' = 0 /\ UNCHANGED <<docs, gateTodo, gateDecided>>
     ELSE Fail(2)

ReconcileNext == Load \/ Pair \/ Decide \/ Cover

ReconcileSpec == ReconcileInit /\ [][ReconcileNext]_fvars

-------------------------------------------------------------------------------
Accepted == exit = 0
Routes == {gateDecided[i] : i \in DOMAIN gateDecided}

(* the requests a pattern serves *)
Concrete(path) ==
  {p \in [DOMAIN path -> Words \cup {path[i] : i \in DOMAIN path}] :
     \A i \in DOMAIN path : IF path[i] \in CaptureSegs THEN p[i] \in Words ELSE p[i] = path[i]}

(* The coordinator says that a custom endpoint "aliases" nothing: in an accepted
   migration no request reaches a custom endpoint that the engine would answer
   itself, whether by an exported operation, a builtin of a collection, the public
   feature route or anything under the admin prefix. *)
NoShadow ==
  Accepted => \A r \in Routes : r.op.id = "custom" =>
    \A p \in Concrete(r.op.path) :
      /\ \A o \in docs.contract.operations \cup docs.contract.builtins :
           o.verb = r.op.verb => p \notin Concrete(o.path)
      /\ r.op.verb \in {"GET", "HEAD"} => p # docs.contract.feature
      /\ docs.contract.admin => p[1] # "_"

(* A route that is accepted as migrated is proven by evidence of its own: every
   check that counts sends the method of the operation (or of the source route) to
   a path it serves, and a protected mutation was seen to be both allowed and
   refused.  Nothing of another operation is taken for it. *)
Reaches(r, method, path) ==
  IF r.op # NoOp THEN method = r.op.verb /\ path_matches_template(r.op.path, path, TRUE)
  ELSE method \in r.route.methods /\ path_matches_template(r.route.path, path, TRUE)

Shown(r, control) ==
  \E e \in r.d.parity :
    \/ e.kind = "backend" /\ \E c \in docs.replay.capture :
         c.id = e.id /\ c.control = control /\ Reaches(r, c.method, c.path)
    \/ e.kind = "browser" /\ \E b \in docs.browser :
         /\ b.id = e.id /\ BROWSER_CONTROLS[b.kind] = control
         /\ Reaches(r, IF b.method = "none" THEN r.op.verb ELSE b.method, b.url)

MutationsProven ==
  Accepted => \A r \in Routes :
    r.d.disposition = "migrated" /\ r.op # NoOp /\ r.op.verb \in MUTATING_VERBS /\ r.op.access # "public" =>
      Shown(r, "allowed") /\ Shown(r, "denied") /\ \A f \in docs.replay.findings : f.result = "pass"

(* Nothing open is lost on the way to an accepted map: it holds every route of
   either inventory, each blocker of the presentation is named by a blocked route
   of its page, and each finding a blocked route names belongs to that route. *)
BlockersVisible ==
  Accepted =>
    /\ {r.route : r \in Routes} = Presented \cup docs.backend
    /\ \A b \in docs.blockers : \E r \in Routes :
         /\ r.d.disposition = "blocked" /\ \E x \in r.d.blockers : x.code = b.code
         /\ b.route # "none" =>
              \E i \in DOMAIN docs.presentation : docs.presentation[i].id = b.route /\ docs.presentation[i].route = r.route
    /\ \A r \in Routes : \A x \in r.d.blockers :
         /\ r.d.disposition = "blocked"
         /\ \A f \in docs.findings : f.id = x /\ x.n # 0 /\ f.route # "none" =>
              f.route = PresentationId(r.route)

(* The map and the converter agree: a page the converter left blocked is not
   migrated, one it converted is not given up, and a question an operator answered
   in the handoff stays among the blockers of the route. *)
HandoffKept ==
  Accepted => \A row \in docs.handoff : \E r \in Routes :
    /\ PresentationId(r.route) = row.id
    /\ row.status = "blocked" <=> r.d.disposition = "blocked"
    /\ row.status \in {"migrated", "backend"} => r.d.disposition = "migrated"
    /\ r.d.disposition = "blocked" => row.decisions \subseteq r.d.blockers

(* Exit 0 of fullstack.py says that nothing is shadowed, unproven or left open. *)
CompletionProven == NoShadow /\ MutationsProven /\ BlockersVisible /\ HandoffKept

(* docs/migrate-rails-fullstack.md: a route classified `backend` "must resolve to an
   implemented operation and executed backend evidence". *)
BackendResolved ==
  Accepted => \A r \in Routes :
    (\E row \in r.presentation : row.status = "backend") =>
      r.op # NoOp /\ \E e \in r.d.parity : e.kind = "backend"

===============================================================================
