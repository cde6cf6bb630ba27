------------------------------ MODULE Coverage ------------------------------
(***************************************************************************)
(* The judgement of a tree (records/consent.go, records/clause.go,          *)
(* verify/hygiene.go, verify/verify.go, coverage/coverage.go,               *)
(* check/check.go), as operators over a corpus, a store of records and      *)
(* what the code and its tests answer.                                      *)
(*                                                                          *)
(* A corpus maps the identities it declares to                              *)
(*   [kind, keyword, clauses, pointers, content, source]: the clauses are   *)
(*   their ordinals, the pointers the member names it mentions, content     *)
(*   and source the two digests consent is judged by.                       *)
(* A store is [claims, gaps, atts]: a set of claims                         *)
(*   [file, req, sym, role, clause, pin, src, shape] (clause 0 is the whole *)
(*   requirement, shape 0 an unset pin), and for each identity a gap        *)
(*   [lands, excuses, pin, src] or None, an attestation [pin, src] or None. *)
(* The code maps a symbol to [shape, class, outcome]: shape 0 is a symbol   *)
(*   that is not found, the class is its witness class, and the outcome is  *)
(*   "passed", "failed", "none", "outside" (the policy's selection),        *)
(*   "skipped" (the caller's scope) or "silent" (the test skipped itself,   *)
(*   or no test was run).                                                   *)
(***************************************************************************)
EXTENDS Naturals, FiniteSets

CONSTANTS
  Reqs,        \* identities
  Syms,        \* symbols of the one loaded backend
  None,        \* an unset pin, an absent record
  MemberOf,    \* symbol -> the member name its last segment spells
  Override,    \* the manifest's policy: some cells <<kind, keyword>> -> minimum
  AllowWhole   \* the manifest's allow_whole_clause_claims

ASSUME CoverageAssumption ==
  /\ AllowWhole \in BOOLEAN
  /\ MemberOf \in [Syms -> {MemberOf[s] : s \in Syms}]

-----------------------------------------------------------------------------
(* Consent (records/consent.go). *)

\* Mutant of JudgeConsent: any source pin rescues a content pin that differs.
JudgeConsent_AnySource(pin, src, content, source) ==
  IF pin = None THEN "stale"
  ELSE IF pin = content THEN "current"
  ELSE IF src # None THEN "rehash" ELSE "stale"

JudgeConsent(pin, src, content, source) ==
  IF pin = None THEN "stale"
  ELSE IF pin = content THEN "current"
  ELSE IF src # None /\ src = source THEN "rehash" ELSE "stale"

Judge(spec, id, rec) ==
  JudgeConsent(rec.pin, rec.src, spec[id].content, spec[id].source)

Holds(spec, id, rec) == id \in DOMAIN spec /\ Judge(spec, id, rec) # "stale"

-----------------------------------------------------------------------------
(* Record hygiene (records/clause.go, verify/hygiene.go). *)

WitnessRole(role) == role \in {"tests", "proves"}

Identity(c) == <<c.req, c.sym, c.role, c.clause>>

RequiresClauseScope(r, role) ==
  ~AllowWhole /\ WitnessRole(role) /\ r.clauses # {}

ResolvesClause(r, clause) == clause = 0 \/ clause \in r.clauses

\* A claim the corpus and the scope rule accept: the ones verification resolves.
WellFormed(spec, c) ==
  /\ c.req \in DOMAIN spec
  /\ ResolvesClause(spec[c.req], c.clause)
  /\ c.clause # 0 \/ ~RequiresClauseScope(spec[c.req], c.role)

Gapped(store) == {id \in Reqs : store.gaps[id] # None}
Attested(store) == {id \in Reqs : store.atts[id] # None}

\* An attestation enters the judgement only where no gap contradicts it.
Stands(spec, store, id) ==
  id \in (Attested(store) \ Gapped(store)) \cap DOMAIN spec

\* Mutant of HygieneClean: deferred and vouched for may stand together.
HygieneClean_BothStand(spec, store) ==
  /\ \A c, d \in store.claims : Identity(c) = Identity(d) => c = d
  /\ \A c \in store.claims : WellFormed(spec, c)
  /\ Gapped(store) \cup Attested(store) \subseteq DOMAIN spec

HygieneClean(spec, store) ==
  /\ \A c, d \in store.claims : Identity(c) = Identity(d) => c = d
  /\ \A c \in store.claims : WellFormed(spec, c)
  /\ Gapped(store) \cup Attested(store) \subseteq DOMAIN spec
  /\ Gapped(store) \cap Attested(store) = {}

-----------------------------------------------------------------------------
(* The policy (coverage.go, satisfied and admitsAttestation). Each minimum  *)
(* is the set of evidence that meets it; "must" and "should" stand for      *)
(* their negated forms too.                                                 *)

AnyEvidence == {"static", "example", "property", "proof"}

Meets == [analyzer_proof |-> {"proof"},
          property |-> {"property", "proof"},
          witness |-> {"example", "property"},
          proof_or_witness |-> {"example", "property", "proof"},
          static |-> AnyEvidence,
          attestation |-> AnyEvidence]

DefaultMinimum(kind, keyword) ==
  IF keyword # "must" THEN "static"
  ELSE [behavior |-> "witness", invariant |-> "property",
        structural |-> "analyzer_proof", wire |-> "proof_or_witness"][kind]

Cell(r) == <<r.kind, r.keyword>>
Overridden(r) == Cell(r) \in DOMAIN Override
Minimum(r) ==
  IF Overridden(r) THEN Override[Cell(r)] ELSE DefaultMinimum(r.kind, r.keyword)

Satisfied(r, evidence) ==
  Minimum(r) = "exempt" \/ evidence \cap Meets[Minimum(r)] # {}

AdmitsAttestation(r) ==
  IF Overridden(r) THEN Override[Cell(r)] = "attestation" ELSE r.keyword = "should"

\* A cell that asks nothing of a requirement no record speaks for.
AsksNothing(r) ==
  IF Overridden(r) THEN Override[Cell(r)] = "exempt" ELSE r.keyword = "may"

-----------------------------------------------------------------------------
(* The facts of one requirement (verify.go Resolve and Correlate, and the   *)
(* first half of Evaluate).                                                 *)

ClaimsOf(spec, store, id) == {c \in store.claims : c.req = id /\ WellFormed(spec, c)}

\* Some pointer of the requirement names no witness claimed for it.
DanglingPointer(spec, store, id) ==
  \E p \in spec[id].pointers : \A c \in store.claims :
    ~(c.req = id /\ WitnessRole(c.role) /\ MemberOf[c.sym] = p)

WitnessGrant(role, class) ==
  IF class = "proof" THEN {"proof"}
  ELSE IF role = "proves" THEN {} ELSE {class}

Grant(spec, code, c) ==
  LET s == code[c.sym] IN
  IF s.shape = 0 \/ ~Holds(spec, c.req, c) THEN {}
  ELSE (IF c.shape = s.shape THEN {"static"} ELSE {})
         \cup (IF WitnessRole(c.role) /\ s.outcome = "passed"
                 THEN WitnessGrant(c.role, s.class) ELSE {})

\* A proves claim whose passing symbol is no analyzer proof any more.
DriftedProof(spec, code, c) ==
  /\ c.role = "proves" /\ Holds(spec, c.req, c)
  /\ code[c.sym].shape # 0 /\ code[c.sym].outcome = "passed"
  /\ code[c.sym].class # "proof"

Unrun(code, c, outcome) == WitnessRole(c.role) /\ code[c.sym].outcome = outcome

Facts(spec, code, store, id) ==
  LET cs == ClaimsOf(spec, store, id)
      otherRed == \/ DanglingPointer(spec, store, id)
                  \/ \E c \in cs : \/ code[c.sym].shape = 0
                                   \/ c.shape \notin {0, code[c.sym].shape}
                                   \/ Unrun(code, c, "failed")
                                   \/ Unrun(code, c, "none")
      skipped == \E c \in cs : Unrun(code, c, "skipped")
      outside == \E c \in cs : Unrun(code, c, "outside")
      stands == Stands(spec, store, id)
      current == stands /\ Holds(spec, id, store.atts[id])
  IN  [broken |-> otherRed \/ skipped \/ outside,
       skipped |-> skipped,
       outside |-> outside,
       otherRed |-> otherRed \/ \E c \in cs : DriftedProof(spec, code, c),
       stale |-> \/ stands /\ ~current
                 \/ \E c \in cs : \/ ~Holds(spec, id, c)
                                  \/ code[c.sym].shape # 0 /\ c.shape = 0,
       attested |-> current,
       bound |-> cs # {} \/ stands \/ DanglingPointer(spec, store, id)]

\* Policy is judged per clause, or once on a requirement without clauses.
Units(r) == IF r.clauses = {} THEN {0} ELSE r.clauses

EvidenceAt(spec, code, store, id, unit) ==
  UNION {Grant(spec, code, c) : c \in {d \in ClaimsOf(spec, store, id) : d.clause \in {0, unit}}}

MetUnits(spec, code, store, id) ==
  {u \in Units(spec[id]) : Satisfied(spec[id], EvidenceAt(spec, code, store, id, u))}

Bucket(spec, code, store, id) ==
  LET f == Facts(spec, code, store, id)
      met == MetUnits(spec, code, store, id)
  IN  IF AsksNothing(spec[id]) /\ ~f.bound THEN "exempt"
      ELSE IF f.broken THEN "broken"
      ELSE IF f.stale THEN "stale"
      ELSE IF met = Units(spec[id]) THEN "covered"
      ELSE IF f.attested /\ AdmitsAttestation(spec[id]) THEN "attested"
      ELSE IF met # {} THEN "partial" ELSE "uncovered"

Red == {"uncovered", "partial", "stale", "broken"}

-----------------------------------------------------------------------------
(* Gaps and the gate (the second half of Evaluate). *)

\* A condition names a requirement to be covered or to exist, or is a manual
\* judgement somebody fires.
LandsHolds(spec, buckets, lands) ==
  \/ /\ lands.form = "covered" /\ lands.target \in DOMAIN spec
     /\ buckets[lands.target] = "covered"
  \/ lands.form = "exists" /\ lands.target \in DOMAIN spec
  \/ lands.form = "manual" /\ lands.fired

ManualUnfired(lands) == lands.form = "manual" /\ ~lands.fired

Buckets(spec, code, store) == [id \in DOMAIN spec |-> Bucket(spec, code, store, id)]

GapState(spec, buckets, id, gap) ==
  LET bucket == IF id \in DOMAIN spec THEN buckets[id] ELSE None
      holds == LandsHolds(spec, buckets, gap.lands)
  IN  IF \/ bucket = "covered" /\ ~ManualUnfired(gap.lands)
         \/ bucket = "exempt" /\ holds
      THEN "resolved"
      ELSE IF holds THEN "due" ELSE "open"

\* A drifted gap excuses nothing; one never stamped excuses as declared.
Drifted(spec, id, gap) == gap.pin # None /\ ~Holds(spec, id, gap)

\* Mutant of Excused: a drifted gap still excuses.
Excused_Drifted(spec, store, id) ==
  IF store.gaps[id] = None THEN {}
  ELSE IF store.gaps[id].excuses = {} THEN {"uncovered"}
  ELSE store.gaps[id].excuses

Excused(spec, store, id) ==
  IF store.gaps[id] = None \/ Drifted(spec, id, store.gaps[id]) THEN {}
  ELSE IF store.gaps[id].excuses = {} THEN {"uncovered"}
  ELSE store.gaps[id].excuses

RedClasses(bucket, facts) ==
  CASE bucket = "broken" -> {"broken"} \cup (IF facts.stale THEN {"stale"} ELSE {})
    [] bucket = "stale" -> {"stale"}
    [] OTHER -> {"uncovered"}

Violation(spec, code, store, id) ==
  LET b == Bucket(spec, code, store, id) IN
  /\ b \in Red
  /\ \/ DanglingPointer(spec, store, id)
     \/ store.gaps[id] = None
     \/ ~(RedClasses(b, Facts(spec, code, store, id)) \subseteq Excused(spec, store, id))

Violations(spec, code, store) == {id \in DOMAIN spec : Violation(spec, code, store, id)}

\* Mutant of ScopeBlocked: the boundary forgives what stands beside it.
ScopeBlocked_Besides(spec, code, store, id) ==
  /\ Bucket(spec, code, store, id) = "broken"
  /\ Facts(spec, code, store, id).skipped

\* A row that is red on the caller's id scope alone.
ScopeBlocked(spec, code, store, id) ==
  LET f == Facts(spec, code, store, id) IN
  /\ Bucket(spec, code, store, id) = "broken"
  /\ f.skipped /\ ~f.outside /\ ~f.otherRed
  /\ f.stale => "stale" \in Excused(spec, store, id)

-----------------------------------------------------------------------------
(* The check (check/check.go). *)

ResolvedGaps(spec, code, store) ==
  LET buckets == Buckets(spec, code, store) IN
  {id \in Gapped(store) : GapState(spec, buckets, id, store.gaps[id]) = "resolved"}

\* The witnesses the requirements of an id scope claim: what it may run.
ScopeSubjects(store, ids) ==
  {c.sym : c \in {d \in store.claims : d.req \in ids /\ WitnessRole(d.role)}}

\* Mutant of Seen: a stored pass is served whatever the test says now.
Seen_Stale(code, scope, served) ==
  [s \in Syms |->
     IF s \in scope \/ code[s].outcome = "outside" THEN code[s]
     ELSE [code[s] EXCEPT !.outcome = IF s \in served THEN "passed" ELSE "skipped"]]

\* The cache serves what stands as it was stored: passes and tests that skip
\* themselves.
Servable(answer) == answer.outcome \in {"passed", "silent"}

\* What a run sees that executes a scope: outside it what the cache serves, and
\* otherwise that the scope left it out, unless the policy's selection had.
Seen(code, scope, served) ==
  [s \in Syms |->
     IF \/ s \in scope \/ code[s].outcome = "outside"
        \/ s \in served /\ Servable(code[s])
     THEN code[s] ELSE [code[s] EXCEPT !.outcome = "skipped"]]

\* A test the run executed or was served, and watched fail.
ObservedRed(seen, store) ==
  \E s \in ScopeSubjects(store, Reqs) : seen[s].outcome = "failed"

CheckPasses(spec, code, store) ==
  /\ HygieneClean(spec, store)
  /\ ~ObservedRed(code, store)
  /\ Violations(spec, code, store) = {}
  /\ ResolvedGaps(spec, code, store) = {}

\* A scoped pass leaves out the rows its own boundary left red, and the residue.
ScopedCheckPasses(spec, code, store, ids, served) ==
  LET seen == Seen(code, ScopeSubjects(store, ids), served) IN
  /\ HygieneClean(spec, store)
  /\ ~ObservedRed(seen, store)
  /\ \A id \in Violations(spec, seen, store) : ScopeBlocked(spec, seen, store, id)

\* The requirements a gap evaluation reads (GapScope).
GapReads(spec, store) ==
  LET onCovered == {id \in Gapped(store) : store.gaps[id].lands.form = "covered"} IN
  (Gapped(store) \cup {store.gaps[id].lands.target : id \in onCovered}) \cap DOMAIN spec

=============================================================================
