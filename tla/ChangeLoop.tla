----------------------------- MODULE ChangeLoop -----------------------------
(***************************************************************************)
(* The change loop: people edit the documents and the code, and the verbs   *)
(* of package author and the blanket pin (records/pin.go) move the records  *)
(* that speak for them.  A verb reads the tree, computes its writes, and    *)
(* applies them later under the record applier's precondition: every file   *)
(* it writes is still what it read.  What it only read may have moved.      *)
(* Two verbs run at once, and edits fall between a verb's reading and its   *)
(* writing.  The judgement of the tree is module Coverage's.                *)
(*                                                                          *)
(* Left out: the one apply of several files, which RecordApply models, is   *)
(* one step; comments, reasons, notes and rendering; clause labels (claims  *)
(* name ordinals); other backends; hand-edited records.                     *)
(***************************************************************************)
EXTENDS Coverage

CONSTANTS
  Procs,       \* concurrent verbs
  Files,       \* binding files
  FileOf,      \* identity -> the binding file its layout derives
  Docs,        \* documents
  DocOf,       \* identity -> its document
  Texts,       \* candidate requirement texts
  CodeStates,  \* candidate [shape, class, outcome] of a symbol
  Moves,       \* renames: functions from some symbols to symbols
  Claimable,   \* claims a bind may ask for: sets of [file, req, sym, role, clause]
  GapTerms,    \* [lands, excuses] a gap may be declared with
  Trees,       \* trees to start from: [docs, claims, gaps, atts, tombs]
  Codes,       \* code to start from
  MaxCanon,    \* bound: changes of the canonical form
  MaxEdits,    \* bound: edits of documents and code
  MaxVerbs     \* bound: verbs begun

VARIABLES
  tree,        \* [docs, claims, gaps, atts, tombs]: the working tree
  code,        \* symbol -> what the backend and its test answer
  canon,       \* the tool's canonical form
  running,     \* process -> the verb it runs, or None
  edits, verbs \* counters of the bounds

vars == <<tree, code, canon, running, edits, verbs>>

-----------------------------------------------------------------------------
(* A text is [words, keyword, clauses, kind, pointers, layout, supersedes]. *)
(* Its digest covers what the canonical form keeps: not the header's kind   *)
(* and edges, not the layout; the consent source covers all of it.          *)

Says(t) == <<t.words, t.keyword, t.clauses, t.pointers>>

Content(t, form) == [says |-> Says(t), form |-> form]

Declared(docs) == {id \in Reqs : docs[id] # None}

SpecOf(docs, form) ==
  [id \in Declared(docs) |->
     [kind |-> docs[id].kind, keyword |-> docs[id].keyword, clauses |-> docs[id].clauses,
      pointers |-> docs[id].pointers, supersedes |-> docs[id].supersedes \ {id},
      content |-> Content(docs[id], form), source |-> docs[id]]]

\* compile.go: no tombstoned identity declared, no supersedes edge to nowhere.
Compiles(docs, tombs) ==
  /\ Declared(docs) \cap tombs = {}
  /\ \A id \in Declared(docs) : docs[id].supersedes \subseteq Declared(docs) \cup tombs

Compiled == SpecOf(tree.docs, canon)
Clean == Compiles(tree.docs, tree.tombs)

-----------------------------------------------------------------------------
(* What a tree can hold, and the constants with it. *)

IsText(t) ==
  /\ t = [words |-> t.words, keyword |-> t.keyword, clauses |-> t.clauses, kind |-> t.kind,
          pointers |-> t.pointers, layout |-> t.layout, supersedes |-> t.supersedes]
  /\ t.kind \in {"behavior", "invariant", "structural", "wire"}

\* Both pins of a record are the tool's, of one text.
OneText(rec) == rec.pin # None /\ rec.src # None => rec.pin.says = Says(rec.src)

IsClaim(c) ==
  /\ c = [file |-> c.file, req |-> c.req, sym |-> c.sym, role |-> c.role, clause |-> c.clause,
          pin |-> c.pin, src |-> c.src, shape |-> c.shape]
  /\ c.file \in Files /\ c.sym \in Syms /\ OneText(c)

IsGap(g) ==
  g = [lands |-> g.lands, excuses |-> g.excuses, pin |-> g.pin, src |-> g.src] /\ OneText(g)

IsAttestation(a) == a = [pin |-> a.pin, src |-> a.src] /\ OneText(a)

\* No file claims one thing twice.
ClaimedOnce(claims) ==
  \A c, d \in claims : Identity(c) = Identity(d) /\ c.file = d.file => c = d

IsTree(t) ==
  /\ t = [docs |-> t.docs, claims |-> t.claims, gaps |-> t.gaps, atts |-> t.atts,
          tombs |-> t.tombs]
  /\ t.docs = [id \in Reqs |-> t.docs[id]]
  /\ t.gaps = [id \in Reqs |-> t.gaps[id]]
  /\ t.atts = [id \in Reqs |-> t.atts[id]]
  /\ \A id \in Reqs : /\ t.docs[id] # None => IsText(t.docs[id])
                      /\ t.gaps[id] # None => IsGap(t.gaps[id])
                      /\ t.atts[id] # None => IsAttestation(t.atts[id])
  /\ \A c \in t.claims : IsClaim(c)
  /\ ClaimedOnce(t.claims)

\* What a run says of a symbol's test before any scope.
IsAnswer(s) ==
  /\ s = [shape |-> s.shape, class |-> s.class, outcome |-> s.outcome]
  /\ s.outcome \in {"passed", "failed", "none", "outside"}

ASSUME LoopAssumption ==
  /\ FileOf \in [Reqs -> Files] /\ DocOf \in [Reqs -> Docs]
  /\ \A t \in Texts : IsText(t)
  /\ \A s \in CodeStates : IsAnswer(s)
  /\ \A c \in Codes : c = [s \in Syms |-> c[s]] /\ \A s \in Syms : IsAnswer(c[s])
  /\ \A batch \in Claimable : \A b \in batch : b.file \in Files /\ b.sym \in Syms
  /\ \A t \in Trees : IsTree(t)

\* A rename puts one prefix for another at a boundary, so it moves no members
\* round in a circle.
ASSUME MovesAssumption ==
  \A move \in Moves :
    /\ \A s \in DOMAIN move : move[s] \in Syms
    /\ \A S \in SUBSET {s \in DOMAIN move : MemberOf[s] # MemberOf[move[s]]} :
         S # {} => \E s \in S : \A u \in S : MemberOf[move[u]] # MemberOf[s]

-----------------------------------------------------------------------------
(* Files: what a path of the tree holds, and the writes of a plan. *)

Paths == ({"doc"} \X Docs) \cup ({"bindings"} \X Files)
           \cup ({"gap", "att"} \X Reqs) \cup {<<"tombs", None>>}

At(t, path) ==
  CASE path[1] = "doc" -> [id \in {r \in Reqs : DocOf[r] = path[2]} |-> t.docs[id]]
    [] path[1] = "bindings" -> {c \in t.claims : c.file = path[2]}
    [] path[1] = "gap" -> t.gaps[path[2]]
    [] path[1] = "att" -> t.atts[path[2]]
    [] OTHER -> t.tombs

\* author.Update: the content to write and the content it replaces.
Writes(plan) ==
  [path \in {q \in Paths : At(plan, q) # At(tree, q)} |->
     [prior |-> At(tree, path), next |-> At(plan, path)]]

Written(t, writes) ==
  LET P == DOMAIN writes
      bound == {f \in Files : <<"bindings", f>> \in P}
  IN  [docs |-> [id \in Reqs |-> IF <<"doc", DocOf[id]>> \in P
                                 THEN writes[<<"doc", DocOf[id]>>].next[id] ELSE t.docs[id]],
       claims |-> {c \in t.claims : c.file \notin bound}
                    \cup UNION {writes[<<"bindings", f>>].next : f \in bound},
       gaps |-> [id \in Reqs |-> IF <<"gap", id>> \in P
                                 THEN writes[<<"gap", id>>].next ELSE t.gaps[id]],
       atts |-> [id \in Reqs |-> IF <<"att", id>> \in P
                                 THEN writes[<<"att", id>>].next ELSE t.atts[id]],
       tombs |-> IF <<"tombs", None>> \in P THEN writes[<<"tombs", None>>].next ELSE t.tombs]

\* A verb that has read the tree and computed its writes.
Plan(p, verb, named, plan) ==
  /\ running[p] = None /\ verbs < MaxVerbs
  /\ plan # tree
  /\ running' = [running EXCEPT ![p] =
       [verb |-> verb, named |-> named, writes |-> Writes(plan), spec |-> None, left |-> {}]]
  /\ verbs' = verbs + 1
  /\ UNCHANGED <<tree, code, canon, edits>>

Roles == {"implements", "tests", "proves"}

Stamp(spec, id, rec) == [rec EXCEPT !.pin = spec[id].content, !.src = spec[id].source]
Cleared(rec) == [rec EXCEPT !.pin = None, !.src = None]

Init ==
  /\ tree \in Trees
  /\ code \in Codes
  /\ canon = 0
  /\ running = [p \in Procs |-> None]
  /\ edits = 0 /\ verbs = 0

-----------------------------------------------------------------------------
(* Claims (author.go). *)

\* A batch is bound whole or not at all.
Bind(p) == \E batch \in Claimable :
  LET spec == Compiled
      claim(b) == Stamp(spec, b.req,
        [file |-> b.file, req |-> b.req, sym |-> b.sym, role |-> b.role, clause |-> b.clause,
         pin |-> None, src |-> None, shape |-> code[b.sym].shape])
  IN  /\ Clean
      /\ \A b \in batch :
           /\ WellFormed(spec, b)
           /\ code[b.sym].shape # 0
           /\ b.role = "proves" => code[b.sym].class = "proof"
           /\ \A c \in tree.claims \cup (batch \ {b}) : Identity(c) # Identity(b)
      /\ Plan(p, "bind", {b.req : b \in batch},
              [tree EXCEPT !.claims = @ \cup {claim(b) : b \in batch}])

\* Every claim of a requirement that the given symbol, role and clause match.
Unbind(p) == \E id \in Reqs, sym \in Syms \cup {None}, role \in Roles \cup {None},
                clause \in {c.clause : c \in tree.claims} \cup {0} :
  LET matched == {c \in tree.claims : /\ c.req = id
                                      /\ sym # None => c.sym = sym
                                      /\ role # None => c.role = role
                                      /\ clause # 0 => c.clause = clause}
  IN  matched # {} /\ Plan(p, "unbind", {id}, [tree EXCEPT !.claims = @ \ matched])

-----------------------------------------------------------------------------
(* Gaps (gap.go) and attestations (attest_requirement.go). *)

\* A redeclaration that keeps a manual condition keeps its firing.
Gap(p) == \E ids \in SUBSET Reqs \ {{}}, terms \in GapTerms :
  LET spec == Compiled
      refired(id) == /\ terms.lands.form = "manual" /\ tree.gaps[id] # None
                     /\ tree.gaps[id].lands.form = "manual" /\ tree.gaps[id].lands.fired
      gap(id) == Stamp(spec, id,
        [lands |-> [terms.lands EXCEPT !.fired = @ \/ refired(id)],
         excuses |-> terms.excuses, pin |-> None, src |-> None])
  IN  /\ Clean /\ ids \subseteq DOMAIN spec
      /\ Plan(p, "gap", ids,
              [tree EXCEPT !.gaps = [id \in Reqs |-> IF id \in ids THEN gap(id) ELSE @[id]]])

RetractGaps(p) == \E ids \in SUBSET Gapped(tree) \ {{}} :
  Plan(p, "retract", ids,
       [tree EXCEPT !.gaps = [id \in Reqs |-> IF id \in ids THEN None ELSE @[id]]])

FireGaps(p) == \E ids \in SUBSET (Gapped(tree) \cap Declared(tree.docs)) \ {{}} :
  /\ Clean
  /\ \A id \in ids : tree.gaps[id].lands.form = "manual"
  /\ Plan(p, "fire", ids,
          [tree EXCEPT !.gaps = [id \in Reqs |-> IF id \in ids
                                                 THEN [@[id] EXCEPT !.lands.fired = TRUE]
                                                 ELSE @[id]]])

Attest(p) == \E id \in Declared(tree.docs) :
  /\ Clean /\ AdmitsAttestation(Compiled[id])
  /\ Plan(p, "attest", {id},
          [tree EXCEPT !.atts[id] = Stamp(Compiled, id, [pin |-> None, src |-> None])])

RetractAttestation(p) == \E id \in Attested(tree) :
  Plan(p, "retract", {id}, [tree EXCEPT !.atts[id] = None])

-----------------------------------------------------------------------------
(* Pins: the blanket form (records/pin.go) and the ids form (dispose.go). *)

\* Mutant of Settle: the blanket form answers the consent question too.
Settle_Consents(spec, id, rec) ==
  IF id \in DOMAIN spec THEN Stamp(spec, id, rec) ELSE rec

\* What the blanket form does to one record: it stamps a pin that was never
\* set or that holds, and leaves one that differs to a named ceremony.
Settle(spec, id, rec) ==
  IF id \in DOMAIN spec /\ (rec.pin = None \/ Holds(spec, id, rec))
  THEN Stamp(spec, id, rec) ELSE rec

Reshape(c) ==
  IF code[c.sym].shape # 0 THEN [c EXCEPT !.shape = code[c.sym].shape] ELSE c

PinAll(p) ==
  LET spec == Compiled
      settle(id, rec) == IF rec = None THEN None ELSE Settle(spec, id, rec)
  IN  /\ Clean
      /\ Plan(p, "pin", {},
              [tree EXCEPT !.claims = {Reshape(Settle(spec, c.req, c)) : c \in @},
                           !.gaps = [id \in Reqs |-> settle(id, @[id])],
                           !.atts = [id \in Reqs |-> settle(id, @[id])]])

\* The editorial re-consent of one requirement over the records of a tree.
Behind(spec, t, id) == {c \in t.claims : c.req = id /\ c.pin # spec[id].content}
GapBehind(spec, t, id) == t.gaps[id] # None /\ t.gaps[id].pin # spec[id].content

Consentable(spec, t, id) ==
  id \in DOMAIN spec /\ \A c \in Behind(spec, t, id) : WellFormed(spec, c)

NothingStale(spec, t, id) == Behind(spec, t, id) = {} /\ ~GapBehind(spec, t, id)

Reconsented(spec, t, id) ==
  LET behind == Behind(spec, t, id) IN
  [t EXCEPT !.claims = (@ \ behind) \cup {Stamp(spec, id, c) : c \in behind},
            !.gaps[id] = IF GapBehind(spec, t, id) THEN Stamp(spec, id, @) ELSE @]

\* Every id is judged over one compilation before the first is written.
JudgeEditorial(p) == \E ids \in SUBSET Reqs \ {{}} :
  /\ running[p] = None /\ verbs < MaxVerbs
  /\ Clean /\ \A id \in ids : Consentable(Compiled, tree, id)
  /\ \E id \in ids : ~NothingStale(Compiled, tree, id)
  /\ running' = [running EXCEPT ![p] =
       [verb |-> "editorial", named |-> ids, writes |-> <<>>, spec |-> Compiled, left |-> ids]]
  /\ verbs' = verbs + 1
  /\ UNCHANGED <<tree, code, canon, edits>>

\* The next id over the store as it now is.  A refusal ends the batch, and what
\* earlier ids wrote stands: a claim that cannot be consented any more, or a
\* file another verb wrote between this id's load and its apply.
Editorial(p) ==
  /\ running[p] # None
  /\ \E id \in running[p].left :
       LET spec == running[p].spec
           left == running[p].left \ {id}
       IN  \/ /\ Consentable(spec, tree, id)
              /\ tree' = Reconsented(spec, tree, id)
              /\ running' = [running EXCEPT ![p] =
                   IF left = {} THEN None ELSE [@ EXCEPT !.left = left]]
           \/ /\ \/ ~Consentable(spec, tree, id)
                 \/ \E q \in Procs \ {p} : running[q] # None
              /\ running' = [running EXCEPT ![p] = None]
              /\ UNCHANGED tree
  /\ UNCHANGED <<code, canon, edits, verbs>>

-----------------------------------------------------------------------------
(* Retirement and supersession (dispose.go). *)

\* A claim carried to a successor: its consent is not.
Carried(c, succ) == [Cleared(c) EXCEPT !.req = succ, !.file = FileOf[succ]]

\* Retired identities are tombstoned with their claims and gaps gone; a
\* successor that declares the edge takes their claims over, one that its own
\* file already holds left as it is.  An identity no record names is retired
\* with force only, which the caller is free to give.
Retire(p) == \E ids \in SUBSET Reqs \ {{}}, successors \in SUBSET Reqs :
  LET tombs == tree.tombs \cup ids
      spec == Compiled
      gone == {c \in tree.claims : c.req \in ids}
      kept == tree.claims \ gone
      takes == {cs \in gone \X successors : cs[1].req \in spec[cs[2]].supersedes}
      carried == {Carried(cs[1], cs[2]) : cs \in takes}
      once == {CHOOSE c \in carried : Identity(c) = i : i \in {Identity(c) : c \in carried}}
      held(c) == \E d \in kept : d.file = c.file /\ Identity(d) = Identity(c)
  IN  /\ ids \cap tree.tombs = {}
      /\ Compiles(tree.docs, tombs)
      /\ successors \subseteq DOMAIN spec
      /\ successors # {} =>
           /\ \A s \in successors : spec[s].supersedes \cap ids # {}
           /\ \A id \in ids : \E s \in successors : id \in spec[s].supersedes
      /\ \A c \in carried : WellFormed(spec, c)
      /\ Plan(p, "retire", ids \cup successors,
              [tree EXCEPT !.tombs = tombs,
                           !.claims = kept \cup {c \in once : ~held(c)},
                           !.gaps = [id \in Reqs |-> IF id \in ids THEN None ELSE @[id]]])

-----------------------------------------------------------------------------
(* Retargeting renamed symbols (retarget.go). *)

MovedClaim(move, c) ==
  IF c.sym \notin DOMAIN move THEN c
  ELSE [c EXCEPT !.sym = move[c.sym],
                 !.shape = IF @ = 0 THEN 0 ELSE code[move[c.sym]].shape]

\* The pointers of a requirement that name the member of a claim that moves.
PointersMoved(move, id) ==
  {<<MemberOf[c.sym], MemberOf[move[c.sym]]>> : c \in
     {d \in tree.claims : /\ d.req = id /\ d.sym \in DOMAIN move
                          /\ MemberOf[d.sym] # MemberOf[move[d.sym]]
                          /\ MemberOf[d.sym] \in tree.docs[id].pointers}}

Repointed(text, moved) ==
  [text EXCEPT !.pointers = {n \in @ : \A m \in moved : m[1] # n} \cup {m[2] : m \in moved}]

\* The document is rewritten with its pointers, and what the rewrite makes
\* stale is consented to again: claims and gap editorially, the attestation too.
Retarget(p) == \E move \in Moves :
  LET moves == {c \in tree.claims : c.sym \in DOMAIN move}
      claims == {MovedClaim(move, c) : c \in tree.claims}
      memberMoves == \E c \in moves : MemberOf[c.sym] # MemberOf[move[c.sym]]
      affected == {id \in Declared(tree.docs) : PointersMoved(move, id) # {}}
      docs == [id \in Reqs |-> IF id \in affected
                 THEN Repointed(tree.docs[id], PointersMoved(move, id)) ELSE tree.docs[id]]
      spec == SpecOf(docs, canon)
      over == [tree EXCEPT !.docs = docs, !.claims = claims]
      behind == {c \in claims : c.req \in affected /\ c.pin # spec[c.req].content}
      repin(id, rec) == IF id \in affected /\ rec # None /\ rec.pin # spec[id].content
                        THEN Stamp(spec, id, rec) ELSE rec
  IN  /\ moves # {}
      /\ \A c, d \in tree.claims :
           Identity(MovedClaim(move, c)) = Identity(MovedClaim(move, d)) => c = d
      /\ \A c \in moves : code[move[c.sym]].shape # 0
      /\ memberMoves => Clean
      /\ \A id \in affected : Consentable(spec, over, id) /\ ~NothingStale(spec, over, id)
      /\ Plan(p, "retarget", {},
              [over EXCEPT !.claims = (claims \ behind)
                                        \cup {Stamp(spec, c.req, c) : c \in behind},
                           !.gaps = [id \in Reqs |-> repin(id, @[id])],
                           !.atts = [id \in Reqs |-> repin(id, @[id])]])

-----------------------------------------------------------------------------
(* Pruning gap records (prune.go). *)

PruneDangling(p) ==
  /\ Clean
  /\ Plan(p, "prune", {},
          [tree EXCEPT !.gaps = [id \in Reqs |-> IF id \in Declared(tree.docs)
                                                 THEN @[id] ELSE None]])

\* The gaps a run over the gap-relevant witnesses finds resolved.
PruneResolved(p) == \E served \in SUBSET Syms :
  LET spec == Compiled
      seen == Seen(code, ScopeSubjects(tree, GapReads(spec, tree)), served)
      resolved == ResolvedGaps(spec, seen, tree)
  IN  /\ Clean /\ HygieneClean(spec, tree)
      /\ Plan(p, "prune", {},
              [tree EXCEPT !.gaps = [id \in Reqs |-> IF id \in resolved THEN None ELSE @[id]]])

-----------------------------------------------------------------------------
(* The apply, and what people do to the tree meanwhile. *)

Applying(p) == running[p] # None /\ running[p].left = {}
Unmoved(p) == \A path \in DOMAIN running[p].writes :
  At(tree, path) = running[p].writes[path].prior

\* Mutant of Commit: the files are written whatever they hold now.
Commit_Blind(p) ==
  /\ Applying(p)
  /\ tree' = Written(tree, running[p].writes)
  /\ running' = [running EXCEPT ![p] = None]
  /\ UNCHANGED <<code, canon, edits, verbs>>

Commit(p) ==
  /\ Applying(p) /\ Unmoved(p)
  /\ tree' = Written(tree, running[p].writes)
  /\ running' = [running EXCEPT ![p] = None]
  /\ UNCHANGED <<code, canon, edits, verbs>>

Refuse(p) ==
  /\ Applying(p) /\ ~Unmoved(p)
  /\ running' = [running EXCEPT ![p] = None]
  /\ UNCHANGED <<tree, code, canon, edits, verbs>>

Edit == edits < MaxEdits /\ edits' = edits + 1 /\ UNCHANGED <<running, verbs>>

EditDocument == \E id \in Reqs, t \in Texts \cup {None} :
  /\ Edit /\ t # tree.docs[id]
  /\ tree' = [tree EXCEPT !.docs[id] = t]
  /\ UNCHANGED <<code, canon>>

EditCode == \E sym \in Syms, s \in CodeStates :
  /\ Edit /\ s # code[sym]
  /\ code' = [code EXCEPT ![sym] = s]
  /\ UNCHANGED <<tree, canon>>

\* A new version of the tool canonicalizes texts differently.
Upgrade ==
  /\ Edit /\ canon < MaxCanon
  /\ canon' = canon + 1
  /\ UNCHANGED <<tree, code>>

Verb(p) ==
  \/ Bind(p) \/ Unbind(p)
  \/ Gap(p) \/ RetractGaps(p) \/ FireGaps(p)
  \/ Attest(p) \/ RetractAttestation(p)
  \/ PinAll(p) \/ JudgeEditorial(p) \/ Editorial(p)
  \/ Retire(p) \/ Retarget(p)
  \/ PruneDangling(p) \/ PruneResolved(p)
  \/ Commit(p) \/ Refuse(p)

Next == \/ \E p \in Procs : Verb(p)
        \/ EditDocument \/ EditCode \/ Upgrade

Spec == Init /\ [][Next]_vars

-----------------------------------------------------------------------------
(* Properties. *)

\* Consented to the words that stand now, whatever the canonical form.
Present(id, rec) == rec.pin # None /\ rec.pin.says = Says(tree.docs[id])

\* A claim that needs no excuse: consented, found in its pinned shape, passing.
Sound(c) ==
  /\ Present(c.req, c)
  /\ code[c.sym].shape # 0 /\ c.shape = code[c.sym].shape
  /\ WitnessRole(c.role) => code[c.sym].outcome = "passed"

\* A sound claim that is evidence enough by the default policy.
Enough(t, c) ==
  /\ Sound(c)
  /\ t.keyword = "must" =>
       /\ WitnessRole(c.role)
       /\ CASE t.kind = "behavior" -> code[c.sym].class \in {"example", "property"}
            [] t.kind = "invariant" -> code[c.sym].class \in {"property", "proof"}
            [] t.kind = "structural" -> code[c.sym].class = "proof"
            [] OTHER -> TRUE

\* What a passing check promises of one requirement, said of the tree itself.
Answered(id) ==
  LET t == tree.docs[id]
      own == {c \in tree.claims : c.req = id}
      att == tree.atts[id]
      evidenced == \A u \in Units(t) : \E c \in own : c.clause \in {0, u} /\ Enough(t, c)
  IN  /\ \A c \in own : Sound(c)
      /\ att # None => Present(id, att)
      /\ \A n \in t.pointers : \E c \in own : WitnessRole(c.role) /\ MemberOf[c.sym] = n
      /\ \/ evidenced
         \/ t.keyword = "should" /\ att # None
         \/ t.keyword = "may" /\ own = {} /\ att = None

\* When the check passes, every requirement is answered for the words it has
\* now by what the code does now, or carries a gap nobody has to renew; no test
\* claimed fails; and no record speaks of a requirement that is not there, or
\* both defers and vouches.  The verbs each judge another reading of the tree,
\* so records that cannot stand together do get written.
GateSound == Clean /\ CheckPasses(Compiled, code, tree) =>
  /\ \A id \in Declared(tree.docs) :
       \/ Answered(id)
       \/ tree.gaps[id] # None /\ (tree.gaps[id].pin = None \/ Present(id, tree.gaps[id]))
  /\ {c.req : c \in tree.claims} \cup Gapped(tree) \cup Attested(tree)
       \subseteq Declared(tree.docs) \ tree.tombs
  /\ \A id \in Reqs : tree.gaps[id] = None \/ tree.atts[id] = None
  /\ \A c \in tree.claims : WitnessRole(c.role) => code[c.sym].outcome # "failed"

\* The step is a verb of the process writing.
Wrote(p) == running[p] # None /\ running'[p] # running[p]

Reworded(a, b) == a # None /\ b # None /\ a.pin # None /\ b.pin # None
                    /\ a.pin.says # b.pin.says

Survives(c, d, retargeted) ==
  /\ <<c.file, c.req, c.role, c.clause>> = <<d.file, d.req, d.role, d.clause>>
  /\ c.sym = d.sym \/ retargeted

\* d is a claim that stood, under the name it had before a retarget, and its
\* consent came with it.
Kept(d) == \E c \in tree.claims, p \in Procs :
  Wrote(p) /\ Survives(c, d, running[p].verb = "retarget") /\ c.pin = d.pin

\* Consent moves to other words only by a verb that names the requirement, or
\* by the retarget that rewrites those words: never by a verb about something
\* else whose file happens to hold the record, however the two interleave.
ConsentMovesByName == [][\A id \in Reqs :
  \/ \E c \in tree.claims, d \in tree'.claims :
       /\ c.req = id /\ Identity(c) = Identity(d) /\ c.file = d.file
       /\ Reworded(c, d) /\ ~Kept(d)
  \/ Reworded(tree.gaps[id], tree'.gaps[id])
  \/ Reworded(tree.atts[id], tree'.atts[id])
  => \E p \in Procs :
       /\ Wrote(p)
       /\ \/ id \in running[p].named
          \/ running[p].verb = "retarget" /\ tree'.docs[id] # tree.docs[id]]_vars

\* A record goes only when a verb names its requirement, or when it is a gap
\* and the verb prunes; a tombstone never goes.
NothingDropped == [][
  /\ tree.tombs \subseteq tree'.tombs
  /\ \A id \in Reqs, p \in Procs : Wrote(p) /\ id \notin running[p].named =>
       /\ \A c \in tree.claims : c.req = id =>
            \E d \in tree'.claims : Survives(c, d, running[p].verb = "retarget")
       /\ tree.gaps[id] # None => tree'.gaps[id] # None \/ running[p].verb = "prune"
       /\ tree.atts[id] # None => tree'.atts[id] # None]_vars

\* What a run saw, had the tests it left out passed.
Granted(seen) ==
  [s \in Syms |-> IF seen[s].outcome = "skipped"
                  THEN [seen[s] EXCEPT !.outcome = "passed"] ELSE seen[s]]

\* A pass over some requirements says of them what the whole check says, and
\* forgives elsewhere only what running the tests it left out could put right:
\* no pin, shape or pointer.  And whatever part of the tests a pass executed,
\* pruning's own part, all or none, it resolves no gap that the whole check would
\* not: evidence that is missing or stale, the target's of a condition included,
\* deletes no record.  All this whatever the cache served.  (A verb changes
\* nothing before it applies: every tree is reached with none running.)
ScopesAgree ==
  (\A p \in Procs : running[p] = None) /\ Clean /\ HygieneClean(Compiled, tree) =>
  LET spec == Compiled
      violations == Violations(spec, code, tree)
      resolved == ResolvedGaps(spec, code, tree)
  IN  \A served \in SUBSET Syms :
        /\ \A ids \in SUBSET Declared(tree.docs) :
             ScopedCheckPasses(spec, code, tree, ids, served) =>
               LET granted == Granted(Seen(code, ScopeSubjects(tree, ids), served)) IN
               /\ ids \cap violations = {}
               /\ \A id \in Violations(spec, granted, tree) :
                    Bucket(spec, granted, tree, id) \in {"uncovered", "partial"}
        /\ \A executed \in SUBSET Syms :
             ResolvedGaps(spec, Seen(code, executed, served), tree) \subseteq resolved

\* evidence.md (REQ-evidence-consent-current): a pin that differs is stale
\* until a re-consent that names the requirement.
StaleGap(id) == tree.gaps[id] # None /\ Drifted(Compiled, id, tree.gaps[id])
StaleUntilNamed == [][\A id \in Declared(tree.docs), p \in Procs :
  Wrote(p) /\ id \notin running[p].named /\ StaleGap(id) =>
    tree'.gaps[id] = None \/ StaleGap(id)']_vars

=============================================================================
