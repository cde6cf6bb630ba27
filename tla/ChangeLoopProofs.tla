-------------------------- MODULE ChangeLoopProofs --------------------------
(***************************************************************************)
(* Theorems about the change loop, for any requirements, symbols, texts,    *)
(* files, verbs and edits.                                                  *)
(***************************************************************************)
EXTENDS ChangeLoop, TLAPS

-----------------------------------------------------------------------------
(* Paths, and what an apply lands at each. *)

\* The writes that turn one tree into another.
Diff(from, plan) ==
  [path \in {q \in Paths : At(plan, q) # At(from, q)} |->
     [prior |-> At(from, path), next |-> At(plan, path)]]

In(t, f) == {c \in t.claims : c.file = f}

LEMMA AtEach ==
  ASSUME NEW t
  PROVE  /\ \A id \in Reqs : At(t, <<"doc", DocOf[id]>>)[id] = t.docs[id]
         /\ \A f \in Files : At(t, <<"bindings", f>>) = In(t, f)
         /\ \A id \in Reqs : At(t, <<"gap", id>>) = t.gaps[id]
         /\ \A id \in Reqs : At(t, <<"att", id>>) = t.atts[id]
         /\ At(t, <<"tombs", None>>) = t.tombs
BY DEF At, In

LEMMA PathEach ==
  /\ \A id \in Reqs : <<"doc", DocOf[id]>> \in Paths
  /\ \A f \in Files : <<"bindings", f>> \in Paths
  /\ \A id \in Reqs : <<"gap", id>> \in Paths /\ <<"att", id>> \in Paths
  /\ <<"tombs", None>> \in Paths
BY LoopAssumption DEF Paths

\* A piece of the tree moved from x to y: as the plan has it, from the state
\* the plan was made in, or not at all, and the plan had nothing for it.
AsPlanned(x, y, from, plan) == (x = from /\ y = plan) \/ (y = x /\ plan = from)

\* An apply whose preconditions hold moves each piece as planned.
LEMMA Landed ==
  ASSUME NEW t, NEW from, NEW plan, NEW w, w = Diff(from, plan),
         \A path \in DOMAIN w : At(t, path) = w[path].prior,
         \A c \in t.claims : c.file \in Files,
         NEW u, u = Written(t, w)
  PROVE  /\ \A id \in Reqs : AsPlanned(t.docs[id], u.docs[id], from.docs[id], plan.docs[id])
         /\ \A f \in Files : AsPlanned(In(t, f), In(u, f), In(from, f), In(plan, f))
         /\ \A c \in u.claims : c.file \in Files
         /\ \A id \in Reqs : AsPlanned(t.gaps[id], u.gaps[id], from.gaps[id], plan.gaps[id])
         /\ \A id \in Reqs : AsPlanned(t.atts[id], u.atts[id], from.atts[id], plan.atts[id])
         /\ AsPlanned(t.tombs, u.tombs, from.tombs, plan.tombs)
<1> DEFINE P == DOMAIN w
           bound == {f \in Files : <<"bindings", f>> \in P}
<1>1. \A path \in Paths : \/ /\ path \in P
                             /\ w[path].next = At(plan, path)
                             /\ At(t, path) = At(from, path)
                          \/ path \notin P /\ At(plan, path) = At(from, path)
  BY DEF Diff
<1>2. /\ u.docs = [id \in Reqs |-> IF <<"doc", DocOf[id]>> \in P
                                   THEN w[<<"doc", DocOf[id]>>].next[id] ELSE t.docs[id]]
      /\ u.gaps = [id \in Reqs |-> IF <<"gap", id>> \in P
                                   THEN w[<<"gap", id>>].next ELSE t.gaps[id]]
      /\ u.atts = [id \in Reqs |-> IF <<"att", id>> \in P
                                   THEN w[<<"att", id>>].next ELSE t.atts[id]]
  BY DEF Written
<1>8. u.tombs = IF <<"tombs", None>> \in P THEN w[<<"tombs", None>>].next ELSE t.tombs
  BY DEF Written
<1>9. u.claims = {c \in t.claims : c.file \notin bound}
                   \cup UNION {w[<<"bindings", f>>].next : f \in bound}
  BY DEF Written
<1>0. \A g \in bound : w[<<"bindings", g>>].next = In(plan, g)
  BY <1>1, AtEach, PathEach
<1>c. \A c : c \in u.claims <=> \/ c \in t.claims /\ c.file \notin bound
                               \/ \E g \in bound : c \in In(plan, g)
  <2> SUFFICES ASSUME NEW c
               PROVE  c \in UNION {w[<<"bindings", f>>].next : f \in bound}
                        <=> \E g \in bound : c \in In(plan, g)
    BY <1>9
  <2> QED BY <1>0
<1> HIDE DEF P
<1>3. ASSUME NEW id \in Reqs
      PROVE  AsPlanned(t.docs[id], u.docs[id], from.docs[id], plan.docs[id])
  <2> DEFINE q == <<"doc", DocOf[id]>>
  <2>1. q \in Paths /\ \A x : At(x, q)[id] = x.docs[id]
    BY AtEach, PathEach
  <2>2. u.docs[id] = IF q \in P THEN w[q].next[id] ELSE t.docs[id]
    BY <1>2
  <2> HIDE DEF q
  <2>3. CASE q \in P
    <3>1. w[q].next = At(plan, q) /\ At(t, q) = At(from, q)
      BY <1>1, <2>1, <2>3
    <3> QED BY <3>1, <2>1, <2>2, <2>3 DEF AsPlanned
  <2>4. CASE q \notin P
    <3>1. At(plan, q) = At(from, q)
      BY <1>1, <2>1, <2>4
    <3> QED BY <3>1, <2>1, <2>2, <2>4 DEF AsPlanned
  <2> QED BY <2>3, <2>4
<1>4. ASSUME NEW f \in Files
      PROVE  AsPlanned(In(t, f), In(u, f), In(from, f), In(plan, f))
  <2>1. <<"bindings", f>> \in Paths /\ \A x : At(x, <<"bindings", f>>) = In(x, f)
    BY AtEach, PathEach
  <2>2. CASE f \in bound
    <3>1. In(t, f) = In(from, f)
      BY <1>1, <2>1, <2>2
    <3>2. In(u, f) = In(plan, f)
      BY <1>c, <2>2 DEF In
    <3> QED BY <3>1, <3>2 DEF AsPlanned
  <2>3. CASE f \notin bound
    <3>1. In(plan, f) = In(from, f)
      BY <1>1, <2>1, <2>3
    <3>2. In(u, f) = In(t, f)
      BY <1>c, <2>3 DEF In
    <3> QED BY <3>1, <3>2 DEF AsPlanned
  <2> QED BY <2>2, <2>3
<1>5. ASSUME NEW c \in u.claims PROVE c.file \in Files
  BY <1>c, <1>5 DEF In
<1>6. ASSUME NEW id \in Reqs
      PROVE  /\ AsPlanned(t.gaps[id], u.gaps[id], from.gaps[id], plan.gaps[id])
             /\ AsPlanned(t.atts[id], u.atts[id], from.atts[id], plan.atts[id])
  <2>1. /\ <<"gap", id>> \in Paths /\ \A x : At(x, <<"gap", id>>) = x.gaps[id]
        /\ <<"att", id>> \in Paths /\ \A x : At(x, <<"att", id>>) = x.atts[id]
    BY AtEach, PathEach
  <2>2. /\ u.gaps[id] = IF <<"gap", id>> \in P THEN w[<<"gap", id>>].next ELSE t.gaps[id]
        /\ u.atts[id] = IF <<"att", id>> \in P THEN w[<<"att", id>>].next ELSE t.atts[id]
    BY <1>2
  <2> QED BY <1>1, <2>1, <2>2 DEF AsPlanned
<1>7. AsPlanned(t.tombs, u.tombs, from.tombs, plan.tombs)
  <2>1. <<"tombs", None>> \in Paths /\ \A x : At(x, <<"tombs", None>>) = x.tombs
    BY AtEach, PathEach
  <2> QED BY <1>1, <1>8, <2>1 DEF AsPlanned
<1> QED BY <1>3, <1>4, <1>5, <1>6, <1>7

-----------------------------------------------------------------------------
(* What a verb's plan keeps of the tree it read. *)

\* The verb may move the consent of a requirement to other words.
Licensed(from, verb, named, plan, id) ==
  id \in named \/ (verb = "retarget" /\ plan.docs[id] # from.docs[id])

ClaimsKept(from, verb, named, plan) ==
  \A c \in from.claims : c.req \in Reqs /\ c.req \notin named =>
    \E d \in plan.claims : Survives(c, d, verb = "retarget")

ClaimsTrue(from, verb, named, plan) ==
  \A c \in from.claims, d \in plan.claims :
    c.req \in Reqs /\ Identity(c) = Identity(d) /\ c.file = d.file /\ Reworded(c, d) =>
      \/ Licensed(from, verb, named, plan, c.req)
      \/ \E e \in from.claims : Survives(e, d, verb = "retarget") /\ e.pin = d.pin

\* None is told from every record.
NoneIsNoRecord ==
  /\ \A l, e, p, s : [lands |-> l, excuses |-> e, pin |-> p, src |-> s] # None
  /\ \A p, s : [pin |-> p, src |-> s] # None

RecordsTrue(from, verb, named, plan) ==
  \A id \in Reqs :
    /\ \/ Reworded(from.gaps[id], plan.gaps[id])
       \/ Reworded(from.atts[id], plan.atts[id])
       => Licensed(from, verb, named, plan, id)
    /\ NoneIsNoRecord /\ id \notin named =>
         /\ from.gaps[id] # None => plan.gaps[id] # None \/ verb = "prune"
         /\ from.atts[id] # None => plan.atts[id] # None

Mindful(from, verb, named, plan) ==
  /\ IsTree(from) /\ IsTree(plan)
  /\ from.tombs \subseteq plan.tombs
  /\ ClaimsKept(from, verb, named, plan)
  /\ ClaimsTrue(from, verb, named, plan)
  /\ RecordsTrue(from, verb, named, plan)

\* A verb under way: the editorial form holds a compilation and the ids it has
\* left to consent, any other the writes between a tree and a mindful plan.
UnderWay(r) ==
  /\ r = [verb |-> r.verb, named |-> r.named, writes |-> r.writes, spec |-> r.spec,
          left |-> r.left]
  /\ r.left \subseteq r.named \cap Reqs
  /\ IF r.left = {}
     THEN \E from, plan : Mindful(from, r.verb, r.named, plan) /\ r.writes = Diff(from, plan)
     ELSE \A id \in DOMAIN r.spec : r.spec[id].content.says = Says(r.spec[id].source)

LoopInv ==
  /\ IsTree(tree)
  /\ code = [s \in Syms |-> code[s]] /\ \A s \in Syms : IsAnswer(code[s])
  /\ running = [p \in Procs |-> running[p]]
  /\ \A p \in Procs : running[p] # None => UnderWay(running[p])

\* What the verb of p plans.
Planned(p) == \E verb, named, plan :
  Plan(p, verb, named, plan) /\ Mindful(tree, verb, named, plan)

LEMMA InitLoop == Init => LoopInv
BY LoopAssumption DEF Init, LoopInv

LEMMA PlannedKeeps ==
  ASSUME LoopInv, NEW p \in Procs, Planned(p)
  PROVE  LoopInv' /\ tree' = tree /\ \A q \in Procs : ~Wrote(q)
<1>1. PICK verb, named, plan : Plan(p, verb, named, plan) /\ Mindful(tree, verb, named, plan)
  BY DEF Planned
<1> DEFINE r == [verb |-> verb, named |-> named, writes |-> Writes(plan), spec |-> None,
                 left |-> {}]
<1>2. /\ running[p] = None /\ running' = [running EXCEPT ![p] = r]
      /\ UNCHANGED <<tree, code>>
  BY <1>1 DEF Plan
<1>3. Writes(plan) = Diff(tree, plan)
  BY DEF Writes, Diff
<1>4. UnderWay(r)
  BY <1>1, <1>3 DEF UnderWay
<1> HIDE DEF r
<1>5. /\ running' = [q \in Procs |-> running'[q]]
      /\ \A q \in Procs : running'[q] = IF q = p THEN r ELSE running[q]
  BY <1>2 DEF LoopInv
<1>6. \A q \in Procs : ~Wrote(q)
  BY <1>2, <1>5 DEF Wrote
<1>7. \A q \in Procs : running'[q] # None => UnderWay(running'[q])
  BY <1>4, <1>5 DEF LoopInv
<1>8. IsTree(tree)' /\ (code = [s \in Syms |-> code[s]] /\ \A s \in Syms : IsAnswer(code[s]))'
  BY <1>2 DEF LoopInv
<1> QED BY <1>2, <1>5, <1>6, <1>7, <1>8 DEF LoopInv

-----------------------------------------------------------------------------
(* The apply. *)

\* A step that leaves every record alone.
Quiet == UNCHANGED <<tree.claims, tree.gaps, tree.atts, tree.tombs>>

\* A step of one process that writes what a verb may write.
Done(p) == Wrote(p) /\ (\A q \in Procs : Wrote(q) => q = p)
             /\ Mindful(tree, running[p].verb, running[p].named, tree')

LEMMA CommitMindful ==
  ASSUME LoopInv, NEW p \in Procs, Commit(p)
  PROVE  Mindful(tree, running[p].verb, running[p].named, tree')
<1> DEFINE u == tree'
           verb == running[p].verb
           named == running[p].named
           w == running[p].writes
<1>1. UnderWay(running[p]) /\ running[p].left = {} /\ IsTree(tree)
  BY DEF LoopInv, Commit, Applying
<1>2. PICK from, plan : Mindful(from, verb, named, plan) /\ w = Diff(from, plan)
  BY <1>1 DEF UnderWay
<1>3. /\ \A path \in DOMAIN w : At(tree, path) = w[path].prior
      /\ u = Written(tree, w)
  BY DEF Commit, Unmoved
<1>4. \A c \in tree.claims : c.file \in Files
  BY <1>1 DEF IsTree, IsClaim
<1>5. /\ \A id \in Reqs : AsPlanned(tree.docs[id], u.docs[id], from.docs[id], plan.docs[id])
      /\ \A f \in Files : AsPlanned(In(tree, f), In(u, f), In(from, f), In(plan, f))
      /\ \A c \in u.claims : c.file \in Files
      /\ \A id \in Reqs : AsPlanned(tree.gaps[id], u.gaps[id], from.gaps[id], plan.gaps[id])
      /\ \A id \in Reqs : AsPlanned(tree.atts[id], u.atts[id], from.atts[id], plan.atts[id])
      /\ AsPlanned(tree.tombs, u.tombs, from.tombs, plan.tombs)
  <2> HIDE DEF u, w
  <2> QED BY <1>2, <1>3, <1>4, Landed
<1>6. /\ u = [docs |-> u.docs, claims |-> u.claims, gaps |-> u.gaps, atts |-> u.atts,
              tombs |-> u.tombs]
      /\ u.docs = [id \in Reqs |-> u.docs[id]]
      /\ u.gaps = [id \in Reqs |-> u.gaps[id]]
      /\ u.atts = [id \in Reqs |-> u.atts[id]]
  <2> DEFINE v == Written(tree, w)
  <2>1. /\ v = [docs |-> v.docs, claims |-> v.claims, gaps |-> v.gaps, atts |-> v.atts,
                tombs |-> v.tombs]
        /\ v.docs = [id \in Reqs |-> v.docs[id]]
        /\ v.gaps = [id \in Reqs |-> v.gaps[id]]
        /\ v.atts = [id \in Reqs |-> v.atts[id]]
    BY DEF Written
  <2> QED BY <1>3, <2>1
<1> HIDE DEF u, w, verb, named
<1>a. IsTree(from) /\ IsTree(plan)
  BY <1>2 DEF Mindful
<1>7. IsTree(u)
  <2>1. \A id \in Reqs : /\ u.docs[id] # None => IsText(u.docs[id])
                         /\ u.gaps[id] # None => IsGap(u.gaps[id])
                         /\ u.atts[id] # None => IsAttestation(u.atts[id])
    BY <1>1, <1>5, <1>a DEF AsPlanned, IsTree
  <2>2. \A c \in u.claims : \/ In(u, c.file) = In(tree, c.file)
                            \/ In(u, c.file) = In(plan, c.file)
    BY <1>5 DEF AsPlanned
  <2>3. \A c \in u.claims : IsClaim(c)
    BY <2>2, <1>1, <1>a DEF In, IsTree
  <2>4. ClaimedOnce(u.claims)
    <3> SUFFICES ASSUME NEW c \in u.claims, NEW d \in u.claims, Identity(c) = Identity(d),
                        c.file = d.file
                 PROVE  c = d
      BY DEF ClaimedOnce
    <3>1. c \in In(u, c.file) /\ d \in In(u, c.file)
      BY DEF In
    <3>2. (c \in tree.claims /\ d \in tree.claims) \/ (c \in plan.claims /\ d \in plan.claims)
      BY <2>2, <3>1 DEF In
    <3> QED BY <3>2, <1>1, <1>a DEF IsTree, ClaimedOnce
  <2> QED BY <1>6, <2>1, <2>3, <2>4 DEF IsTree
<1>8. tree.tombs \subseteq u.tombs
  BY <1>2, <1>5 DEF Mindful, AsPlanned
<1>9. ClaimsKept(tree, verb, named, u)
  <2> SUFFICES ASSUME NEW c \in tree.claims, c.req \in Reqs, c.req \notin named
               PROVE  \E d \in u.claims : Survives(c, d, verb = "retarget")
    BY DEF ClaimsKept
  <2>1. c.file \in Files /\ c \in In(tree, c.file)
    BY <1>4 DEF In
  <2>2. CASE In(tree, c.file) = In(from, c.file) /\ In(u, c.file) = In(plan, c.file)
    <3>1. c \in from.claims
      BY <2>1, <2>2 DEF In
    <3>2. PICK d \in plan.claims : Survives(c, d, verb = "retarget")
      BY <1>2, <3>1 DEF Mindful, ClaimsKept
    <3>3. d \in In(plan, c.file)
      BY <3>2 DEF In, Survives
    <3> QED BY <2>2, <3>2, <3>3 DEF In
  <2>3. CASE In(u, c.file) = In(tree, c.file)
    <3>1. c \in u.claims
      BY <2>1, <2>3 DEF In
    <3> QED BY <3>1 DEF Survives
  <2> QED BY <1>5, <2>1, <2>2, <2>3 DEF AsPlanned
<1>10. \A id \in Reqs : Licensed(from, verb, named, plan, id)
                          => Licensed(tree, verb, named, u, id)
  BY <1>5 DEF Licensed, AsPlanned
<1>11. ClaimsTrue(tree, verb, named, u)
  <2> SUFFICES ASSUME NEW c \in tree.claims, NEW d \in u.claims, c.req \in Reqs,
                      Identity(c) = Identity(d), c.file = d.file, Reworded(c, d)
               PROVE  \/ Licensed(tree, verb, named, u, c.req)
                      \/ \E e \in tree.claims : Survives(e, d, verb = "retarget") /\ e.pin = d.pin
    BY DEF ClaimsTrue
  <2>1. c.file \in Files /\ c \in In(tree, c.file) /\ d \in In(u, c.file)
    BY <1>4 DEF In
  <2>2. CASE In(tree, c.file) = In(from, c.file) /\ In(u, c.file) = In(plan, c.file)
    <3>1. c \in from.claims /\ d \in plan.claims
      BY <2>1, <2>2 DEF In
    <3>2. \/ Licensed(from, verb, named, plan, c.req)
          \/ \E e \in from.claims : Survives(e, d, verb = "retarget") /\ e.pin = d.pin
      BY <1>2, <3>1 DEF Mindful, ClaimsTrue
    <3>3. ASSUME NEW e \in from.claims, Survives(e, d, verb = "retarget")
          PROVE  e \in tree.claims
      <4>1. e \in In(from, c.file)
        BY <3>3 DEF In, Survives
      <4> QED BY <4>1, <2>2 DEF In
    <3> QED BY <1>10, <3>2, <3>3
  <2>3. CASE In(u, c.file) = In(tree, c.file)
    <3>1. d \in tree.claims
      BY <2>1, <2>3 DEF In
    <3>2. c = d
      BY <1>1, <3>1 DEF IsTree, ClaimedOnce
    <3> QED BY <3>2 DEF Reworded
  <2> QED BY <1>5, <2>1, <2>2, <2>3 DEF AsPlanned
<1>12. RecordsTrue(tree, verb, named, u)
  <2> SUFFICES ASSUME NEW id \in Reqs
               PROVE  /\ \/ Reworded(tree.gaps[id], u.gaps[id])
                         \/ Reworded(tree.atts[id], u.atts[id])
                         => Licensed(tree, verb, named, u, id)
                      /\ NoneIsNoRecord /\ id \notin named =>
                           /\ tree.gaps[id] # None => u.gaps[id] # None \/ verb = "prune"
                           /\ tree.atts[id] # None => u.atts[id] # None
    BY DEF RecordsTrue
  <2>1. /\ \/ Reworded(from.gaps[id], plan.gaps[id])
           \/ Reworded(from.atts[id], plan.atts[id])
           => Licensed(from, verb, named, plan, id)
        /\ NoneIsNoRecord /\ id \notin named =>
             /\ from.gaps[id] # None => plan.gaps[id] # None \/ verb = "prune"
             /\ from.atts[id] # None => plan.atts[id] # None
    BY <1>2 DEF Mindful, RecordsTrue
  <2>2. \A x : ~Reworded(x, x)
    BY DEF Reworded
  <2>3. /\ AsPlanned(tree.gaps[id], u.gaps[id], from.gaps[id], plan.gaps[id])
        /\ AsPlanned(tree.atts[id], u.atts[id], from.atts[id], plan.atts[id])
    BY <1>5
  <2> QED BY <1>10, <2>1, <2>2, <2>3 DEF AsPlanned
<1>13. Mindful(tree, verb, named, u)
  BY <1>1, <1>7, <1>8, <1>9, <1>11, <1>12 DEF Mindful
<1> QED BY <1>13 DEF u, verb, named

LEMMA CommitKeeps ==
  ASSUME LoopInv, NEW p \in Procs, Commit(p)
  PROVE  LoopInv' /\ Done(p)
<1>1. Mindful(tree, running[p].verb, running[p].named, tree')
  BY CommitMindful
<1>2. IsTree(tree')
  BY <1>1 DEF Mindful
<1>3. running[p] # None /\ running' = [running EXCEPT ![p] = None] /\ UNCHANGED code
  BY DEF Commit, Applying
<1>4. /\ running' = [q \in Procs |-> running'[q]]
      /\ \A q \in Procs : running'[q] = IF q = p THEN None ELSE running[q]
  BY <1>3 DEF LoopInv
<1>5. Wrote(p) /\ \A q \in Procs : Wrote(q) => q = p
  BY <1>3, <1>4 DEF Wrote
<1>6. (code = [s \in Syms |-> code[s]] /\ \A s \in Syms : IsAnswer(code[s]))'
  BY <1>3 DEF LoopInv
<1>7. \A q \in Procs : running'[q] # None => UnderWay(running'[q])
  BY <1>4 DEF LoopInv
<1> QED BY <1>1, <1>2, <1>4, <1>5, <1>6, <1>7 DEF LoopInv, Done

LEMMA RefuseKeeps ==
  ASSUME LoopInv, NEW p \in Procs, Refuse(p)
  PROVE  LoopInv' /\ Quiet
<1>3. running' = [running EXCEPT ![p] = None] /\ UNCHANGED <<tree, code>>
  BY DEF Refuse
<1>4. /\ running' = [q \in Procs |-> running'[q]]
      /\ \A q \in Procs : running'[q] = IF q = p THEN None ELSE running[q]
  BY <1>3 DEF LoopInv
<1>6. IsTree(tree)' /\ (code = [s \in Syms |-> code[s]] /\ \A s \in Syms : IsAnswer(code[s]))'
  BY <1>3 DEF LoopInv
<1>7. \A q \in Procs : running'[q] # None => UnderWay(running'[q])
  BY <1>4 DEF LoopInv
<1> QED BY <1>3, <1>4, <1>6, <1>7 DEF LoopInv, Quiet

-----------------------------------------------------------------------------
(* Stamps. *)

Told(spec) == \A id \in DOMAIN spec : spec[id].content.says = Says(spec[id].source)

LEMMA SpecTold ==
  ASSUME NEW docs, NEW form
  PROVE  LET spec == SpecOf(docs, form) IN
         /\ DOMAIN spec = Declared(docs) /\ Told(spec)
         /\ \A id \in Declared(docs) :
              /\ id \in Reqs /\ docs[id] # None
              /\ spec[id].source = docs[id] /\ spec[id].content.says = Says(docs[id])
BY DEF SpecOf, Declared, Content, Told

LEMMA StampFields ==
  ASSUME NEW spec, NEW id, NEW rec
  PROVE  Stamp(spec, id, rec)
           = [[rec EXCEPT !.pin = spec[id].content] EXCEPT !.src = spec[id].source]
BY DEF Stamp

LEMMA StampClaim ==
  ASSUME NEW spec, Told(spec), NEW id \in DOMAIN spec, NEW c, IsClaim(c)
  PROVE  LET d == Stamp(spec, id, c) IN
         /\ IsClaim(d) /\ d.file = c.file /\ d.req = c.req /\ d.sym = c.sym
         /\ d.role = c.role /\ d.clause = c.clause
         /\ d.pin = spec[id].content /\ d.src = spec[id].source
<1> DEFINE e == [c EXCEPT !.pin = spec[id].content]
           d == [e EXCEPT !.src = spec[id].source]
<1>1. e = [file |-> c.file, req |-> c.req, sym |-> c.sym, role |-> c.role, clause |-> c.clause,
           pin |-> spec[id].content, src |-> c.src, shape |-> c.shape]
  BY DEF IsClaim
<1> HIDE DEF e
<1>2. e = [file |-> e.file, req |-> e.req, sym |-> e.sym, role |-> e.role, clause |-> e.clause,
           pin |-> e.pin, src |-> e.src, shape |-> e.shape]
  BY <1>1
<1>3. d = [file |-> e.file, req |-> e.req, sym |-> e.sym, role |-> e.role, clause |-> e.clause,
           pin |-> e.pin, src |-> spec[id].source, shape |-> e.shape]
  BY <1>2
<1> HIDE DEF d
<1>4. spec[id].content.says = Says(spec[id].source)
  BY DEF Told
<1>5. /\ d.file = c.file /\ d.req = c.req /\ d.sym = c.sym
      /\ d.role = c.role /\ d.clause = c.clause /\ d.shape = c.shape
      /\ d.pin = spec[id].content /\ d.src = spec[id].source
  BY <1>1, <1>3
<1>6. d = [file |-> d.file, req |-> d.req, sym |-> d.sym, role |-> d.role, clause |-> d.clause,
           pin |-> d.pin, src |-> d.src, shape |-> d.shape]
  BY <1>3
<1>7. IsClaim(d)
  BY <1>4, <1>5, <1>6 DEF IsClaim, OneText
<1>8. d = Stamp(spec, id, c)
  BY StampFields DEF d, e
<1> QED BY <1>5, <1>7, <1>8

LEMMA StampGap ==
  ASSUME NEW spec, Told(spec), NEW id \in DOMAIN spec, NEW g, IsGap(g)
  PROVE  LET d == Stamp(spec, id, g) IN
         /\ IsGap(d) /\ d.pin = spec[id].content /\ (NoneIsNoRecord => d # None)
<1> DEFINE e == [g EXCEPT !.pin = spec[id].content]
           d == [e EXCEPT !.src = spec[id].source]
<1>1. e = [lands |-> g.lands, excuses |-> g.excuses, pin |-> spec[id].content, src |-> g.src]
  BY DEF IsGap
<1> HIDE DEF e
<1>2. e = [lands |-> e.lands, excuses |-> e.excuses, pin |-> e.pin, src |-> e.src]
  BY <1>1
<1>3. d = [lands |-> e.lands, excuses |-> e.excuses, pin |-> e.pin, src |-> spec[id].source]
  BY <1>2
<1> HIDE DEF d
<1>4. spec[id].content.says = Says(spec[id].source)
  BY DEF Told
<1>5. d.pin = spec[id].content /\ d.src = spec[id].source
  BY <1>1, <1>3
<1>6. d = [lands |-> d.lands, excuses |-> d.excuses, pin |-> d.pin, src |-> d.src]
  BY <1>3
<1>7. IsGap(d)
  BY <1>4, <1>5, <1>6 DEF IsGap, OneText
<1>8. d = Stamp(spec, id, g)
  BY StampFields DEF d, e
<1>9. NoneIsNoRecord => d # None
  BY <1>3 DEF NoneIsNoRecord
<1> QED BY <1>5, <1>7, <1>8, <1>9

LEMMA StampAttestation ==
  ASSUME NEW spec, Told(spec), NEW id \in DOMAIN spec, NEW a, IsAttestation(a)
  PROVE  LET d == Stamp(spec, id, a) IN
         /\ IsAttestation(d) /\ d.pin = spec[id].content /\ (NoneIsNoRecord => d # None)
<1> DEFINE e == [a EXCEPT !.pin = spec[id].content]
           d == [e EXCEPT !.src = spec[id].source]
<1>1. e = [pin |-> spec[id].content, src |-> a.src]
  BY DEF IsAttestation
<1> HIDE DEF e
<1>2. e = [pin |-> e.pin, src |-> e.src]
  BY <1>1
<1>3. d = [pin |-> e.pin, src |-> spec[id].source]
  BY <1>2
<1> HIDE DEF d
<1>4. spec[id].content.says = Says(spec[id].source)
  BY DEF Told
<1>5. d.pin = spec[id].content /\ d.src = spec[id].source
  BY <1>1, <1>3
<1>6. d = [pin |-> d.pin, src |-> d.src]
  BY <1>3
<1>7. IsAttestation(d)
  BY <1>4, <1>5, <1>6 DEF IsAttestation, OneText
<1>8. d = Stamp(spec, id, a)
  BY StampFields DEF d, e
<1>9. NoneIsNoRecord => d # None
  BY <1>3 DEF NoneIsNoRecord
<1> QED BY <1>5, <1>7, <1>8, <1>9

\* A record whose consent holds is stamped with the words it already had.
LEMMA HeldSays ==
  ASSUME NEW spec, Told(spec), NEW id, NEW rec, OneText(rec), Holds(spec, id, rec)
  PROVE  rec.pin # None /\ rec.pin.says = spec[id].content.says
<1>1. /\ id \in DOMAIN spec /\ rec.pin # None
      /\ rec.pin = spec[id].content \/ (rec.src # None /\ rec.src = spec[id].source)
  BY DEF Holds, Judge, JudgeConsent
<1> QED BY <1>1 DEF OneText, Told

-----------------------------------------------------------------------------
(* The plans. *)

AreClaims(X) == (\A c \in X : IsClaim(c)) /\ ClaimedOnce(X)
AreGaps(G) ==
  G = [id \in Reqs |-> G[id]] /\ \A id \in Reqs : G[id] # None => IsGap(G[id])
AreAttestations(A) ==
  A = [id \in Reqs |-> A[id]] /\ \A id \in Reqs : A[id] # None => IsAttestation(A[id])

LEMMA WithClaims ==
  ASSUME NEW t, IsTree(t), NEW X, NEW plan, plan = [t EXCEPT !.claims = X],
         AreClaims(X)
  PROVE  /\ IsTree(plan) /\ plan.docs = t.docs /\ plan.claims = X
         /\ plan.gaps = t.gaps /\ plan.atts = t.atts /\ plan.tombs = t.tombs
<1>1. plan = [docs |-> t.docs, claims |-> X, gaps |-> t.gaps, atts |-> t.atts,
              tombs |-> t.tombs]
  BY DEF IsTree
<1>2. /\ plan.docs = t.docs /\ plan.claims = X
      /\ plan.gaps = t.gaps /\ plan.atts = t.atts /\ plan.tombs = t.tombs
  BY <1>1
<1> QED BY <1>1, <1>2 DEF IsTree, AreClaims, AreGaps, AreAttestations

LEMMA WithGaps ==
  ASSUME NEW t, IsTree(t), NEW G, NEW plan, plan = [t EXCEPT !.gaps = G],
         AreGaps(G)
  PROVE  /\ IsTree(plan) /\ plan.docs = t.docs /\ plan.claims = t.claims
         /\ plan.gaps = G /\ plan.atts = t.atts /\ plan.tombs = t.tombs
<1>1. plan = [docs |-> t.docs, claims |-> t.claims, gaps |-> G, atts |-> t.atts,
              tombs |-> t.tombs]
  BY DEF IsTree
<1>2. /\ plan.docs = t.docs /\ plan.claims = t.claims
      /\ plan.gaps = G /\ plan.atts = t.atts /\ plan.tombs = t.tombs
  BY <1>1
<1> QED BY <1>1, <1>2 DEF IsTree, AreClaims, AreGaps, AreAttestations

LEMMA WithAttestations ==
  ASSUME NEW t, IsTree(t), NEW A, NEW plan, plan = [t EXCEPT !.atts = A],
         AreAttestations(A)
  PROVE  /\ IsTree(plan) /\ plan.docs = t.docs /\ plan.claims = t.claims
         /\ plan.gaps = t.gaps /\ plan.atts = A /\ plan.tombs = t.tombs
<1>1. plan = [docs |-> t.docs, claims |-> t.claims, gaps |-> t.gaps, atts |-> A,
              tombs |-> t.tombs]
  BY DEF IsTree
<1>2. /\ plan.docs = t.docs /\ plan.claims = t.claims
      /\ plan.gaps = t.gaps /\ plan.atts = A /\ plan.tombs = t.tombs
  BY <1>1
<1> QED BY <1>1, <1>2 DEF IsTree, AreClaims, AreGaps, AreAttestations

LEMMA WithTombs ==
  ASSUME NEW t, IsTree(t), NEW T, NEW plan, plan = [t EXCEPT !.tombs = T]
  PROVE  /\ IsTree(plan) /\ plan.docs = t.docs /\ plan.claims = t.claims
         /\ plan.gaps = t.gaps /\ plan.atts = t.atts /\ plan.tombs = T
<1>1. plan = [docs |-> t.docs, claims |-> t.claims, gaps |-> t.gaps, atts |-> t.atts,
              tombs |-> T]
  BY DEF IsTree
<1>2. /\ plan.docs = t.docs /\ plan.claims = t.claims
      /\ plan.gaps = t.gaps /\ plan.atts = t.atts /\ plan.tombs = T
  BY <1>1
<1> QED BY <1>1, <1>2 DEF IsTree

LEMMA WithDocs ==
  ASSUME NEW t, IsTree(t), NEW D, NEW plan, plan = [t EXCEPT !.docs = D],
         D = [id \in Reqs |-> D[id]], \A id \in Reqs : D[id] # None => IsText(D[id])
  PROVE  /\ IsTree(plan) /\ plan.docs = D /\ plan.claims = t.claims
         /\ plan.gaps = t.gaps /\ plan.atts = t.atts /\ plan.tombs = t.tombs
<1>1. plan = [docs |-> D, claims |-> t.claims, gaps |-> t.gaps, atts |-> t.atts,
              tombs |-> t.tombs]
  BY DEF IsTree
<1>2. /\ plan.docs = D /\ plan.claims = t.claims
      /\ plan.gaps = t.gaps /\ plan.atts = t.atts /\ plan.tombs = t.tombs
  BY <1>1
<1> QED BY <1>1, <1>2 DEF IsTree

LEMMA ClaimsAlone ==
  ASSUME IsTree(tree), NEW plan, NEW verb, NEW named, plan.claims \subseteq tree.claims,
         \A c \in tree.claims : c.req \notin named => c \in plan.claims
  PROVE  /\ ClaimsKept(tree, verb, named, plan) /\ ClaimsTrue(tree, verb, named, plan)
<1>1. \A c \in tree.claims : Survives(c, c, verb = "retarget")
  BY DEF Survives
<1>2. \A c, d \in tree.claims : Identity(c) = Identity(d) /\ c.file = d.file => c = d
  BY DEF IsTree, ClaimedOnce
<1>3. \A x : ~Reworded(x, x)
  BY DEF Reworded
<1>4. ClaimsTrue(tree, verb, named, plan)
  BY <1>2, <1>3 DEF ClaimsTrue
<1>5. ClaimsKept(tree, verb, named, plan)
  BY <1>1 DEF ClaimsKept
<1> QED BY <1>4, <1>5

LEMMA RecordsAlone ==
  ASSUME NEW plan, NEW verb, NEW named, plan.gaps = tree.gaps, plan.atts = tree.atts
  PROVE  RecordsTrue(tree, verb, named, plan)
BY DEF RecordsTrue, Reworded

LEMMA BindPlanned ==
  ASSUME LoopInv, NEW p \in Procs, Bind(p)
  PROVE  Planned(p)
<1> DEFINE spec == Compiled
           claim(b) == Stamp(spec, b.req,
             [file |-> b.file, req |-> b.req, sym |-> b.sym, role |-> b.role,
              clause |-> b.clause, pin |-> None, src |-> None, shape |-> code[b.sym].shape])
<1>1. PICK batch \in Claimable :
        /\ \A b \in batch : /\ WellFormed(spec, b)
                            /\ \A c \in tree.claims \cup (batch \ {b}) : Identity(c) # Identity(b)
        /\ Plan(p, "bind", {b.req : b \in batch},
                [tree EXCEPT !.claims = @ \cup {claim(b) : b \in batch}])
  BY DEF Bind
<1> DEFINE new == {claim(b) : b \in batch}
           plan == [tree EXCEPT !.claims = @ \cup new]
           named == {b.req : b \in batch}
<1>2. IsTree(tree) /\ Told(spec)
  BY SpecTold DEF LoopInv, Compiled
<1>4. ASSUME NEW b \in batch
      PROVE  IsClaim(claim(b)) /\ Identity(claim(b)) = Identity(b)
  <2>1. b.file \in Files /\ b.sym \in Syms /\ b.req \in DOMAIN spec
    BY <1>1, LoopAssumption DEF WellFormed
  <2> HIDE DEF spec
  <2> DEFINE bare == [file |-> b.file, req |-> b.req, sym |-> b.sym, role |-> b.role,
                      clause |-> b.clause, pin |-> None, src |-> None,
                      shape |-> code[b.sym].shape]
  <2>3. IsClaim(bare)
    BY <2>1 DEF IsClaim, OneText
  <2>4. claim(b) = Stamp(spec, b.req, bare)
    OBVIOUS
  <2>5. /\ bare.req = b.req /\ bare.sym = b.sym /\ bare.role = b.role
        /\ bare.clause = b.clause
    OBVIOUS
  <2> HIDE DEF claim, bare
  <2>6. /\ IsClaim(claim(b)) /\ claim(b).req = b.req /\ claim(b).sym = b.sym
        /\ claim(b).role = b.role /\ claim(b).clause = b.clause
    BY <1>2, <2>1, <2>3, <2>4, <2>5, StampClaim
  <2> QED BY <2>6 DEF Identity
<1> HIDE DEF claim, spec
<1>5. \A d \in new : IsClaim(d) /\ \A c \in tree.claims : Identity(c) # Identity(d)
  BY <1>1, <1>4
<1>6. \A c, d \in new : Identity(c) = Identity(d) => c = d
  <2> SUFFICES ASSUME NEW a \in batch, NEW b \in batch, Identity(claim(a)) = Identity(claim(b))
               PROVE  a = b
    OBVIOUS
  <2> QED BY <1>1, <1>4
<1> HIDE DEF new
<1>8. AreClaims(tree.claims \cup new)
  BY <1>2, <1>5, <1>6 DEF IsTree, ClaimedOnce, AreClaims
<1>9. /\ IsTree(plan) /\ plan.docs = tree.docs /\ plan.claims = tree.claims \cup new
      /\ plan.gaps = tree.gaps /\ plan.atts = tree.atts /\ plan.tombs = tree.tombs
  BY <1>2, <1>8, WithClaims
<1> HIDE DEF plan
<1>10. ClaimsKept(tree, "bind", named, plan)
  BY <1>9 DEF ClaimsKept, Survives
<1>11. ClaimsTrue(tree, "bind", named, plan)
  <2>1. \A x : ~Reworded(x, x)
    BY DEF Reworded
  <2>2. \A c \in tree.claims, d \in plan.claims :
          Identity(c) = Identity(d) /\ c.file = d.file => c = d
    BY <1>2, <1>5, <1>9 DEF IsTree, ClaimedOnce
  <2> QED BY <2>1, <2>2 DEF ClaimsTrue
<1>12. Mindful(tree, "bind", named, plan)
  BY <1>2, <1>9, <1>10, <1>11, RecordsAlone DEF Mindful
<1>13. Plan(p, "bind", named, plan)
  BY <1>1 DEF plan, new
<1> QED BY <1>12, <1>13 DEF Planned

LEMMA UnbindPlanned ==
  ASSUME LoopInv, NEW p \in Procs, Unbind(p)
  PROVE  Planned(p)
<1>0. PICK id \in Reqs :
        \E X : /\ X \subseteq {c \in tree.claims : c.req = id}
              /\ Plan(p, "unbind", {id}, [tree EXCEPT !.claims = @ \ X])
  BY DEF Unbind
<1>1. PICK X : /\ X \subseteq {c \in tree.claims : c.req = id}
               /\ Plan(p, "unbind", {id}, [tree EXCEPT !.claims = @ \ X])
  BY <1>0
<1> DEFINE plan == [tree EXCEPT !.claims = @ \ X]
<1>2. IsTree(tree)
  BY DEF LoopInv
<1>3. AreClaims(tree.claims \ X)
  BY <1>2 DEF IsTree, ClaimedOnce, AreClaims
<1>4. Plan(p, "unbind", {id}, plan)
  BY <1>1
<1>5. /\ IsTree(plan) /\ plan.docs = tree.docs /\ plan.claims = tree.claims \ X
      /\ plan.gaps = tree.gaps /\ plan.atts = tree.atts /\ plan.tombs = tree.tombs
  BY <1>2, <1>3, WithClaims
<1> HIDE DEF plan
<1>6. ClaimsKept(tree, "unbind", {id}, plan) /\ ClaimsTrue(tree, "unbind", {id}, plan)
  BY <1>1, <1>2, <1>5, ClaimsAlone
<1>8. Mindful(tree, "unbind", {id}, plan)
  BY <1>2, <1>5, <1>6, RecordsAlone DEF Mindful
<1> QED BY <1>4, <1>8 DEF Planned

LEMMA GapsMindful ==
  ASSUME IsTree(tree), NEW verb, NEW named, NEW G, NEW plan, plan = [tree EXCEPT !.gaps = G],
         AreGaps(G),
         \A id \in Reqs : \/ id \in named \/ G[id] = tree.gaps[id]
                          \/ verb = "prune" /\ G[id] = None
  PROVE  Mindful(tree, verb, named, plan)
<1>1. /\ IsTree(plan) /\ plan.docs = tree.docs /\ plan.claims = tree.claims
      /\ plan.gaps = G /\ plan.atts = tree.atts /\ plan.tombs = tree.tombs
  BY WithGaps
<1>2. ClaimsKept(tree, verb, named, plan) /\ ClaimsTrue(tree, verb, named, plan)
  BY <1>1, ClaimsAlone
<1>3. RecordsTrue(tree, verb, named, plan)
  <2>1. \A x : ~Reworded(x, x) /\ ~Reworded(x, None)
    BY DEF Reworded
  <2> SUFFICES ASSUME NEW id \in Reqs
               PROVE  /\ \/ Reworded(tree.gaps[id], G[id])
                         \/ Reworded(tree.atts[id], tree.atts[id])
                         => id \in named
                      /\ id \notin named => (tree.gaps[id] # None =>
                                               G[id] # None \/ verb = "prune")
    BY <1>1 DEF RecordsTrue, Licensed
  <2> QED BY <2>1
<1> QED BY <1>1, <1>2, <1>3 DEF Mindful

LEMMA AttestationsMindful ==
  ASSUME IsTree(tree), NEW verb, NEW named, NEW A, NEW plan, plan = [tree EXCEPT !.atts = A],
         AreAttestations(A),
         \A id \in Reqs : id \in named \/ A[id] = tree.atts[id]
  PROVE  Mindful(tree, verb, named, plan)
<1>1. /\ IsTree(plan) /\ plan.docs = tree.docs /\ plan.claims = tree.claims
      /\ plan.gaps = tree.gaps /\ plan.atts = A /\ plan.tombs = tree.tombs
  BY WithAttestations
<1>2. ClaimsKept(tree, verb, named, plan) /\ ClaimsTrue(tree, verb, named, plan)
  BY <1>1, ClaimsAlone
<1>3. RecordsTrue(tree, verb, named, plan)
  BY <1>1 DEF RecordsTrue, Licensed, Reworded
<1> QED BY <1>1, <1>2, <1>3 DEF Mindful

LEMMA GapPlanned ==
  ASSUME LoopInv, NEW p \in Procs, Gap(p)
  PROVE  Planned(p)
<1> DEFINE spec == Compiled
<1>1. PICK ids \in SUBSET Reqs, terms \in GapTerms :
        /\ ids \subseteq DOMAIN spec
        /\ \E lands :
             Plan(p, "gap", ids, [tree EXCEPT !.gaps = [id \in Reqs |->
               IF id \in ids
               THEN Stamp(spec, id, [lands |-> lands[id], excuses |-> terms.excuses,
                                     pin |-> None, src |-> None])
               ELSE @[id]]])
  <2>1. PICK ids \in SUBSET Reqs, terms \in GapTerms :
          LET refired(id) == /\ terms.lands.form = "manual" /\ tree.gaps[id] # None
                             /\ tree.gaps[id].lands.form = "manual" /\ tree.gaps[id].lands.fired
              gap(id) == Stamp(spec, id,
                [lands |-> [terms.lands EXCEPT !.fired = @ \/ refired(id)],
                 excuses |-> terms.excuses, pin |-> None, src |-> None])
          IN  /\ ids \subseteq DOMAIN spec
              /\ Plan(p, "gap", ids, [tree EXCEPT !.gaps = [id \in Reqs |->
                   IF id \in ids THEN gap(id) ELSE @[id]]])
    BY DEF Gap
  <2> DEFINE refired(id) == /\ terms.lands.form = "manual" /\ tree.gaps[id] # None
                            /\ tree.gaps[id].lands.form = "manual" /\ tree.gaps[id].lands.fired
             was == [id \in Reqs |-> [terms.lands EXCEPT !.fired = @ \/ refired(id)]]
             made(lands) == [id \in Reqs |->
               IF id \in ids
               THEN Stamp(spec, id, [lands |-> lands[id], excuses |-> terms.excuses,
                                     pin |-> None, src |-> None])
               ELSE tree.gaps[id]]
  <2> HIDE DEF spec
  <2>2. made(was) = [id \in Reqs |->
               IF id \in ids
               THEN Stamp(spec, id, [lands |-> [terms.lands EXCEPT !.fired = @ \/ refired(id)],
                                     excuses |-> terms.excuses, pin |-> None, src |-> None])
               ELSE tree.gaps[id]]
    OBVIOUS
  <2>3. Plan(p, "gap", ids, [tree EXCEPT !.gaps = made(was)])
    BY <2>1, <2>2
  <2> HIDE DEF was
  <2>4. \E lands : Plan(p, "gap", ids, [tree EXCEPT !.gaps = made(lands)])
    BY <2>3
  <2> QED BY <2>1, <2>4
<1>2. PICK lands :
        Plan(p, "gap", ids, [tree EXCEPT !.gaps = [id \in Reqs |->
          IF id \in ids
          THEN Stamp(spec, id, [lands |-> lands[id], excuses |-> terms.excuses,
                                pin |-> None, src |-> None])
          ELSE @[id]]])
  BY <1>1
<1> DEFINE bare(id) == [lands |-> lands[id], excuses |-> terms.excuses, pin |-> None,
                        src |-> None]
           G == [id \in Reqs |-> IF id \in ids THEN Stamp(spec, id, bare(id)) ELSE tree.gaps[id]]
           plan == [tree EXCEPT !.gaps = G]
<1>3. IsTree(tree) /\ Told(spec)
  BY SpecTold DEF LoopInv, Compiled
<1>4. \A id \in ids : IsGap(bare(id))
  BY DEF IsGap, OneText
<1> HIDE DEF spec, bare
<1>5. \A id \in ids : IsGap(Stamp(spec, id, bare(id)))
  BY <1>1, <1>3, <1>4, StampGap
<1>6. AreGaps(G)
  BY <1>3, <1>5 DEF IsTree, AreGaps
<1>7. Mindful(tree, "gap", ids, plan)
  <2>1. \A id \in Reqs : id \in ids \/ G[id] = tree.gaps[id]
    OBVIOUS
  <2> HIDE DEF G
  <2> QED BY <1>3, <1>6, <2>1, GapsMindful
<1>8. Plan(p, "gap", ids, plan)
  BY <1>2 DEF bare
<1> QED BY <1>7, <1>8 DEF Planned

\* The gap verbs that take gaps away.
LEMMA GapsGonePlanned ==
  ASSUME LoopInv, NEW p \in Procs, NEW verb, NEW gone, NEW named,
         verb = "prune" \/ gone \subseteq named,
         Plan(p, verb, named, [tree EXCEPT !.gaps = [id \in Reqs |->
                                 IF id \in gone THEN None ELSE @[id]]])
  PROVE  Planned(p)
<1> DEFINE G == [id \in Reqs |-> IF id \in gone THEN None ELSE tree.gaps[id]]
           plan == [tree EXCEPT !.gaps = G]
<1>1. IsTree(tree)
  BY DEF LoopInv
<1>2. /\ AreGaps(G)
      /\ \A id \in Reqs : \/ id \in named \/ G[id] = tree.gaps[id]
                          \/ verb = "prune" /\ G[id] = None
  BY <1>1 DEF IsTree, AreGaps
<1>3. Plan(p, verb, named, plan)
  OBVIOUS
<1> HIDE DEF G
<1>4. Mindful(tree, verb, named, plan)
  BY <1>1, <1>2, GapsMindful
<1> QED BY <1>3, <1>4 DEF Planned

LEMMA RetractGapsPlanned ==
  ASSUME LoopInv, NEW p \in Procs, RetractGaps(p)
  PROVE  Planned(p)
<1>1. PICK ids : Plan(p, "retract", ids, [tree EXCEPT !.gaps = [id \in Reqs |->
                                            IF id \in ids THEN None ELSE @[id]]])
  BY DEF RetractGaps
<1> QED BY <1>1, GapsGonePlanned

LEMMA PruneResolvedPlanned ==
  ASSUME LoopInv, NEW p \in Procs, PruneResolved(p)
  PROVE  Planned(p)
<1>1. PICK ids : Plan(p, "prune", {}, [tree EXCEPT !.gaps = [id \in Reqs |->
                                         IF id \in ids THEN None ELSE @[id]]])
  BY DEF PruneResolved
<1> QED BY <1>1, GapsGonePlanned

LEMMA PruneDanglingPlanned ==
  ASSUME LoopInv, NEW p \in Procs, PruneDangling(p)
  PROVE  Planned(p)
<1>1. Plan(p, "prune", {}, [tree EXCEPT !.gaps = [id \in Reqs |->
                              IF id \in Declared(tree.docs) THEN @[id] ELSE None]])
  BY DEF PruneDangling
<1> DEFINE gone == Reqs \ Declared(tree.docs)
<1>2. [id \in Reqs |-> IF id \in Declared(tree.docs) THEN tree.gaps[id] ELSE None]
        = [id \in Reqs |-> IF id \in gone THEN None ELSE tree.gaps[id]]
  OBVIOUS
<1>3. Plan(p, "prune", {}, [tree EXCEPT !.gaps = [id \in Reqs |->
                              IF id \in gone THEN None ELSE @[id]]])
  BY <1>1, <1>2
<1> HIDE DEF gone
<1> QED BY <1>3, GapsGonePlanned

LEMMA FireGapsPlanned ==
  ASSUME LoopInv, NEW p \in Procs, FireGaps(p)
  PROVE  Planned(p)
<1>1. PICK ids \in SUBSET (Gapped(tree) \cap Declared(tree.docs)) :
        Plan(p, "fire", ids, [tree EXCEPT !.gaps = [id \in Reqs |->
          IF id \in ids THEN [@[id] EXCEPT !.lands.fired = TRUE] ELSE @[id]]])
  BY DEF FireGaps
<1> DEFINE fired(id) == [tree.gaps[id] EXCEPT !.lands.fired = TRUE]
           G == [id \in Reqs |-> IF id \in ids THEN fired(id) ELSE tree.gaps[id]]
           plan == [tree EXCEPT !.gaps = G]
<1>2. IsTree(tree)
  BY DEF LoopInv
<1>3. ASSUME NEW id \in ids PROVE IsGap(fired(id))
  <2> DEFINE g == tree.gaps[id]
             h == fired(id)
  <2>1. IsGap(g)
    BY <1>2 DEF IsTree, Gapped
  <2>2. h = [g EXCEPT !.lands = [@ EXCEPT !.fired = TRUE]]
    OBVIOUS
  <2> HIDE DEF g, h
  <2>3. h = [lands |-> [g.lands EXCEPT !.fired = TRUE], excuses |-> g.excuses, pin |-> g.pin,
             src |-> g.src]
    BY <2>1, <2>2 DEF IsGap
  <2>4. h.pin = g.pin /\ h.src = g.src
        /\ h = [lands |-> h.lands, excuses |-> h.excuses, pin |-> h.pin, src |-> h.src]
    BY <2>3
  <2> QED BY <2>1, <2>4 DEF IsGap, OneText, h
<1>4. Plan(p, "fire", ids, plan)
  BY <1>1
<1> HIDE DEF fired
<1>5. /\ AreGaps(G)
      /\ \A id \in Reqs : id \in ids \/ G[id] = tree.gaps[id]
  BY <1>2, <1>3 DEF IsTree, AreGaps
<1> HIDE DEF G
<1>6. Mindful(tree, "fire", ids, plan)
  BY <1>2, <1>5, GapsMindful
<1> QED BY <1>4, <1>6 DEF Planned

LEMMA AttestPlanned ==
  ASSUME LoopInv, NEW p \in Procs, Attest(p)
  PROVE  Planned(p)
<1> DEFINE spec == Compiled
           bare == [pin |-> None, src |-> None]
<1>1. PICK id \in Declared(tree.docs) :
        Plan(p, "attest", {id}, [tree EXCEPT !.atts[id] = Stamp(spec, id, bare)])
  BY DEF Attest
<1>2. IsTree(tree) /\ Told(spec) /\ id \in Reqs /\ id \in DOMAIN spec
  BY SpecTold DEF LoopInv, Compiled
<1>3. IsAttestation(bare)
  BY DEF IsAttestation, OneText
<1> HIDE DEF spec, bare
<1> DEFINE a == Stamp(spec, id, bare)
           A == [tree.atts EXCEPT ![id] = a]
           plan == [tree EXCEPT !.atts = A]
<1>4. IsAttestation(a)
  BY <1>2, <1>3, StampAttestation
<1>5. Plan(p, "attest", {id}, plan)
  BY <1>1
<1> HIDE DEF a
<1>6. /\ A = [i \in Reqs |-> A[i]]
      /\ \A i \in Reqs : A[i] = IF i = id THEN a ELSE tree.atts[i]
  BY <1>2 DEF IsTree
<1> HIDE DEF A
<1>7. /\ AreAttestations(A)
      /\ \A i \in Reqs : i \in {id} \/ A[i] = tree.atts[i]
  BY <1>2, <1>4, <1>6 DEF IsTree, AreAttestations
<1>8. Mindful(tree, "attest", {id}, plan)
  BY <1>2, <1>6, <1>7, AttestationsMindful
<1> QED BY <1>5, <1>8 DEF Planned

LEMMA RetractAttestationPlanned ==
  ASSUME LoopInv, NEW p \in Procs, RetractAttestation(p)
  PROVE  Planned(p)
<1>1. PICK id \in Reqs : Plan(p, "retract", {id}, [tree EXCEPT !.atts[id] = None])
  BY DEF RetractAttestation, Attested
<1> DEFINE A == [tree.atts EXCEPT ![id] = None]
           plan == [tree EXCEPT !.atts = A]
<1>2. IsTree(tree)
  BY DEF LoopInv
<1>5. Plan(p, "retract", {id}, plan)
  BY <1>1
<1>6. /\ A = [i \in Reqs |-> A[i]]
      /\ \A i \in Reqs : A[i] = IF i = id THEN None ELSE tree.atts[i]
  BY <1>2 DEF IsTree
<1> HIDE DEF A
<1>7. /\ AreAttestations(A)
      /\ \A i \in Reqs : i \in {id} \/ A[i] = tree.atts[i]
  BY <1>2, <1>6 DEF IsTree, AreAttestations
<1>8. Mindful(tree, "retract", {id}, plan)
  BY <1>2, <1>6, <1>7, AttestationsMindful
<1> QED BY <1>5, <1>8 DEF Planned

LEMMA Settled ==
  ASSUME NEW spec, Told(spec), NEW id, NEW rec, OneText(rec)
  PROVE  \/ Settle(spec, id, rec) = rec
         \/ /\ id \in DOMAIN spec /\ Settle(spec, id, rec) = Stamp(spec, id, rec)
            /\ rec.pin = None \/ rec.pin.says = spec[id].content.says
BY HeldSays DEF Settle

LEMMA Reshaped ==
  ASSUME NEW c, IsClaim(c)
  PROVE  LET d == Reshape(c) IN
         IsClaim(d) /\ Identity(d) = Identity(c) /\ d.file = c.file /\ d.pin = c.pin
<1> DEFINE d == [c EXCEPT !.shape = code[c.sym].shape]
<1>1. d = [file |-> c.file, req |-> c.req, sym |-> c.sym, role |-> c.role, clause |-> c.clause,
           pin |-> c.pin, src |-> c.src, shape |-> code[c.sym].shape]
  BY DEF IsClaim
<1> HIDE DEF d
<1>2. /\ d.file = c.file /\ d.req = c.req /\ d.sym = c.sym /\ d.role = c.role
      /\ d.clause = c.clause /\ d.pin = c.pin /\ d.src = c.src
      /\ d = [file |-> d.file, req |-> d.req, sym |-> d.sym, role |-> d.role,
              clause |-> d.clause, pin |-> d.pin, src |-> d.src, shape |-> d.shape]
  BY <1>1
<1>3. IsClaim(d) /\ Identity(d) = Identity(c) /\ d.file = c.file /\ d.pin = c.pin
  BY <1>2 DEF IsClaim, OneText, Identity
<1>4. Reshape(c) = d \/ Reshape(c) = c
  BY DEF Reshape, d
<1> QED BY <1>3, <1>4

LEMMA PinAllPlanned ==
  ASSUME LoopInv, NEW p \in Procs, PinAll(p)
  PROVE  Planned(p)
<1> DEFINE spec == Compiled
           settle(id, rec) == IF rec = None THEN None ELSE Settle(spec, id, rec)
           made(c) == Reshape(Settle(spec, c.req, c))
           X == {made(c) : c \in tree.claims}
           G == [id \in Reqs |-> settle(id, tree.gaps[id])]
           A == [id \in Reqs |-> settle(id, tree.atts[id])]
           plan == [tree EXCEPT !.claims = X, !.gaps = G, !.atts = A]
<1>1. Plan(p, "pin", {}, plan)
  BY DEF PinAll
<1>2. IsTree(tree) /\ Told(spec)
  BY SpecTold DEF LoopInv, Compiled
<1> HIDE DEF spec
<1>3. ASSUME NEW c \in tree.claims
      PROVE  /\ IsClaim(made(c)) /\ Identity(made(c)) = Identity(c) /\ made(c).file = c.file
             /\ ~Reworded(c, made(c))
  <2> DEFINE d == Settle(spec, c.req, c)
  <2>1. IsClaim(c) /\ OneText(c)
    BY <1>2 DEF IsTree, IsClaim
  <2>2. \/ d = c
        \/ /\ c.req \in DOMAIN spec /\ d = Stamp(spec, c.req, c)
           /\ c.pin = None \/ c.pin.says = spec[c.req].content.says
    BY <1>2, <2>1, Settled
  <2>3. /\ IsClaim(d) /\ Identity(d) = Identity(c) /\ d.file = c.file
        /\ c.pin = None \/ c.pin.says = d.pin.says
    BY <1>2, <2>1, <2>2, StampClaim DEF Identity
  <2> HIDE DEF d
  <2>4. /\ IsClaim(Reshape(d)) /\ Identity(Reshape(d)) = Identity(d)
        /\ Reshape(d).file = d.file /\ Reshape(d).pin = d.pin
    BY <2>3, Reshaped
  <2> QED BY <2>3, <2>4 DEF d, Reworded
<1> HIDE DEF made
<1>4. /\ \A d \in X : IsClaim(d)
      /\ \A c \in tree.claims, d \in X : Identity(c) = Identity(d) /\ c.file = d.file
           => d = made(c)
  BY <1>2, <1>3 DEF IsTree, ClaimedOnce
<1>5. ClaimedOnce(X)
  BY <1>3, <1>4 DEF ClaimedOnce
<1>6. ASSUME NEW id \in Reqs
      PROVE  /\ G[id] # None => IsGap(G[id])
             /\ ~Reworded(tree.gaps[id], G[id])
             /\ NoneIsNoRecord /\ tree.gaps[id] # None => G[id] # None
  <2> DEFINE g == tree.gaps[id]
  <2>1. G[id] = IF g = None THEN None ELSE Settle(spec, id, g)
    OBVIOUS
  <2>2. CASE g = None
    BY <2>1, <2>2 DEF Reworded
  <2>3. CASE g # None
    <3>1. IsGap(g) /\ OneText(g)
      BY <1>2, <2>3 DEF IsTree, IsGap
    <3>2. \/ G[id] = g
          \/ /\ id \in DOMAIN spec /\ G[id] = Stamp(spec, id, g)
             /\ g.pin = None \/ g.pin.says = spec[id].content.says
      BY <1>2, <2>1, <2>3, <3>1, Settled
    <3> HIDE DEF G, g
    <3> QED BY <1>2, <2>3, <3>1, <3>2, StampGap DEF Reworded, g
  <2> HIDE DEF G
  <2> QED BY <2>2, <2>3
<1>7. ASSUME NEW id \in Reqs
      PROVE  /\ A[id] # None => IsAttestation(A[id])
             /\ ~Reworded(tree.atts[id], A[id])
             /\ NoneIsNoRecord /\ tree.atts[id] # None => A[id] # None
  <2> DEFINE g == tree.atts[id]
  <2>1. A[id] = IF g = None THEN None ELSE Settle(spec, id, g)
    OBVIOUS
  <2>2. CASE g = None
    BY <2>1, <2>2 DEF Reworded
  <2>3. CASE g # None
    <3>1. IsAttestation(g) /\ OneText(g)
      BY <1>2, <2>3 DEF IsTree, IsAttestation
    <3>2. \/ A[id] = g
          \/ /\ id \in DOMAIN spec /\ A[id] = Stamp(spec, id, g)
             /\ g.pin = None \/ g.pin.says = spec[id].content.says
      BY <1>2, <2>1, <2>3, <3>1, Settled
    <3> HIDE DEF A, g
    <3> QED BY <1>2, <2>3, <3>1, <3>2, StampAttestation DEF Reworded, g
  <2> HIDE DEF A
  <2> QED BY <2>2, <2>3
<1>8. G = [id \in Reqs |-> G[id]] /\ A = [id \in Reqs |-> A[id]]
  OBVIOUS
<1>14. \A c \in tree.claims : made(c) \in X
  OBVIOUS
<1>9. /\ IsTree(plan) /\ plan.docs = tree.docs /\ plan.claims = X
      /\ plan.gaps = G /\ plan.atts = A /\ plan.tombs = tree.tombs
  <2>1. AreClaims(X) /\ AreGaps(G) /\ AreAttestations(A)
    BY <1>4, <1>5, <1>6, <1>7, <1>8 DEF AreClaims, AreGaps, AreAttestations
  <2>2. PICK t1 : t1 = [tree EXCEPT !.claims = X]
    OBVIOUS
  <2>3. PICK t2 : t2 = [t1 EXCEPT !.gaps = G]
    OBVIOUS
  <2>4. PICK t3 : t3 = [t2 EXCEPT !.atts = A]
    OBVIOUS
  <2>5. /\ IsTree(t1) /\ t1.docs = tree.docs /\ t1.claims = X /\ t1.tombs = tree.tombs
    BY <1>2, <2>1, <2>2, WithClaims
  <2>6. /\ IsTree(t2) /\ t2.docs = t1.docs /\ t2.claims = t1.claims /\ t2.gaps = G
        /\ t2.tombs = t1.tombs
    BY <2>1, <2>3, <2>5, WithGaps
  <2>7. /\ IsTree(t3) /\ t3.docs = t2.docs /\ t3.claims = t2.claims
        /\ t3.gaps = t2.gaps /\ t3.atts = A /\ t3.tombs = t2.tombs
    BY <2>1, <2>4, <2>6, WithAttestations
  <2>8. plan = t3
    BY <2>2, <2>3, <2>4 DEF plan
  <2> QED BY <2>5, <2>6, <2>7, <2>8
<1>10. ClaimsKept(tree, "pin", {}, plan)
  BY <1>3, <1>14, <1>9 DEF ClaimsKept, Survives, Identity
<1>11. ClaimsTrue(tree, "pin", {}, plan)
  BY <1>3, <1>4, <1>9 DEF ClaimsTrue
<1>12. RecordsTrue(tree, "pin", {}, plan)
  BY <1>6, <1>7, <1>9 DEF RecordsTrue
<1>13. Mindful(tree, "pin", {}, plan)
  BY <1>2, <1>9, <1>10, <1>11, <1>12 DEF Mindful
<1> QED BY <1>1, <1>13 DEF Planned

LEMMA CarriedClaim ==
  ASSUME NEW c, IsClaim(c), NEW succ \in Reqs
  PROVE  IsClaim(Carried(c, succ)) /\ Carried(c, succ).pin = None
<1>1. PICK c1 : c1 = [c EXCEPT !.pin = None]
  OBVIOUS
<1>2. PICK c2 : c2 = [c1 EXCEPT !.src = None]
  OBVIOUS
<1>3. PICK c3 : c3 = [c2 EXCEPT !.req = succ]
  OBVIOUS
<1>4. PICK c4 : c4 = [c3 EXCEPT !.file = FileOf[succ]]
  OBVIOUS
<1>5. Carried(c, succ) = c4
  BY <1>1, <1>2, <1>3, <1>4 DEF Carried, Cleared
<1>6. c1 = [file |-> c.file, req |-> c.req, sym |-> c.sym, role |-> c.role, clause |-> c.clause,
            pin |-> None, src |-> c.src, shape |-> c.shape]
  BY <1>1 DEF IsClaim
<1>7. c2 = [file |-> c.file, req |-> c.req, sym |-> c.sym, role |-> c.role, clause |-> c.clause,
            pin |-> None, src |-> None, shape |-> c.shape]
  BY <1>2, <1>6
<1>8. c3 = [file |-> c.file, req |-> succ, sym |-> c.sym, role |-> c.role, clause |-> c.clause,
            pin |-> None, src |-> None, shape |-> c.shape]
  BY <1>3, <1>7
<1>9. c4 = [file |-> FileOf[succ], req |-> succ, sym |-> c.sym, role |-> c.role,
            clause |-> c.clause, pin |-> None, src |-> None, shape |-> c.shape]
  BY <1>4, <1>8
<1>10. /\ c4.file = FileOf[succ] /\ c4.req = succ /\ c4.sym = c.sym /\ c4.role = c.role
       /\ c4.clause = c.clause /\ c4.pin = None /\ c4.src = None /\ c4.shape = c.shape
       /\ FileOf[succ] \in Files
  BY <1>9, LoopAssumption
<1>11. c4 = [file |-> c4.file, req |-> c4.req, sym |-> c4.sym, role |-> c4.role,
             clause |-> c4.clause, pin |-> c4.pin, src |-> c4.src, shape |-> c4.shape]
  BY <1>9, <1>10
<1>12. IsClaim(c4)
  BY <1>10, <1>11 DEF IsClaim, OneText
<1> QED BY <1>5, <1>10, <1>12

LEMMA RetirePlanned ==
  ASSUME LoopInv, NEW p \in Procs, Retire(p)
  PROVE  Planned(p)
<1>1. PICK ids \in SUBSET Reqs, successors \in SUBSET Reqs :
        LET tombs == tree.tombs \cup ids
            spec == Compiled
            gone == {c \in tree.claims : c.req \in ids}
            kept == tree.claims \ gone
            takes == {cs \in gone \X successors : cs[1].req \in spec[cs[2]].supersedes}
            carried == {Carried(cs[1], cs[2]) : cs \in takes}
            once == {CHOOSE c \in carried : Identity(c) = i : i \in {Identity(c) : c \in carried}}
            held(c) == \E d \in kept : d.file = c.file /\ Identity(d) = Identity(c)
        IN  Plan(p, "retire", ids \cup successors,
              [tree EXCEPT !.tombs = tombs,
                           !.claims = kept \cup {c \in once : ~held(c)},
                           !.gaps = [id \in Reqs |-> IF id \in ids THEN None ELSE @[id]]])
  BY DEF Retire
<1> DEFINE tombs == tree.tombs \cup ids
           spec == Compiled
           gone == {c \in tree.claims : c.req \in ids}
           kept == tree.claims \ gone
           takes == {cs \in gone \X successors : cs[1].req \in spec[cs[2]].supersedes}
           carried == {Carried(cs[1], cs[2]) : cs \in takes}
           once == {CHOOSE c \in carried : Identity(c) = i : i \in {Identity(c) : c \in carried}}
           held(c) == \E d \in kept : d.file = c.file /\ Identity(d) = Identity(c)
           new == {c \in once : ~held(c)}
           X == kept \cup new
           G == [id \in Reqs |-> IF id \in ids THEN None ELSE tree.gaps[id]]
           named == ids \cup successors
           plan == [tree EXCEPT !.tombs = tombs, !.claims = X, !.gaps = G]
<1>2. Plan(p, "retire", named, plan)
  BY <1>1
<1>3. IsTree(tree)
  BY DEF LoopInv
<1>4. \A c \in carried : IsClaim(c) /\ c.pin = None
  <2> SUFFICES ASSUME NEW cs \in takes
               PROVE  IsClaim(Carried(cs[1], cs[2])) /\ Carried(cs[1], cs[2]).pin = None
    OBVIOUS
  <2>1. cs[1] \in tree.claims /\ cs[2] \in Reqs
    OBVIOUS
  <2>2. IsClaim(cs[1])
    BY <1>3, <2>1 DEF IsTree
  <2> QED BY <2>1, <2>2, CarriedClaim
<1> HIDE DEF carried
<1>5. /\ \A c \in once : c \in carried
      /\ \A c, d \in once : Identity(c) = Identity(d) => c = d
  <2> DEFINE I == {Identity(c) : c \in carried}
             pick(i) == CHOOSE c \in carried : Identity(c) = i
  <2>1. \A i \in I : pick(i) \in carried /\ Identity(pick(i)) = i
    OBVIOUS
  <2>2. once = {pick(i) : i \in I}
    OBVIOUS
  <2> HIDE DEF pick, once, I
  <2> QED BY <2>1, <2>2
<1> HIDE DEF once
<1>6. /\ \A c \in new : IsClaim(c) /\ c.pin = None
      /\ \A c, d \in new : Identity(c) = Identity(d) => c = d
      /\ \A c \in new, d \in kept : d.file = c.file => Identity(d) # Identity(c)
  BY <1>4, <1>5
<1>7. kept \subseteq tree.claims /\ \A c \in tree.claims : c.req \notin named => c \in kept
  OBVIOUS
<1> HIDE DEF new, kept
<1>8. AreClaims(X)
  BY <1>3, <1>6, <1>7 DEF AreClaims, IsTree, ClaimedOnce
<1>9. AreGaps(G) /\ \A id \in Reqs : G[id] = tree.gaps[id] \/ (id \in named /\ G[id] = None)
  BY <1>3 DEF AreGaps, IsTree
<1>c. X = kept \cup new
  OBVIOUS
<1>t. tree.tombs \subseteq tombs
  OBVIOUS
<1>q. PICK t1 : t1 = [tree EXCEPT !.tombs = tombs]
  OBVIOUS
<1>r. PICK t2 : t2 = [t1 EXCEPT !.claims = X]
  OBVIOUS
<1>s. PICK t3 : t3 = [t2 EXCEPT !.gaps = G]
  OBVIOUS
<1>u. plan = t3
  BY <1>q, <1>r, <1>s
<1> HIDE DEF X, G, plan, tombs, named
<1>10. /\ IsTree(plan) /\ plan.docs = tree.docs /\ plan.claims = X
       /\ plan.gaps = G /\ plan.atts = tree.atts /\ plan.tombs = tombs
  <2>5. /\ IsTree(t1) /\ t1.docs = tree.docs /\ t1.atts = tree.atts /\ t1.tombs = tombs
    BY <1>3, <1>q, WithTombs
  <2>6. /\ IsTree(t2) /\ t2.docs = t1.docs /\ t2.claims = X /\ t2.atts = t1.atts
        /\ t2.tombs = t1.tombs
    BY <1>8, <1>r, <2>5, WithClaims
  <2>7. /\ IsTree(t3) /\ t3.docs = t2.docs /\ t3.claims = t2.claims
        /\ t3.gaps = G /\ t3.atts = t2.atts /\ t3.tombs = t2.tombs
    BY <1>9, <1>s, <2>6, WithGaps
  <2> QED BY <1>u, <2>5, <2>6, <2>7
<1>11. ClaimsKept(tree, "retire", named, plan)
  BY <1>7, <1>c, <1>10 DEF ClaimsKept, Survives
<1>12. ClaimsTrue(tree, "retire", named, plan)
  <2> SUFFICES ASSUME NEW c \in tree.claims, NEW d \in plan.claims,
                      Identity(c) = Identity(d), c.file = d.file
               PROVE  ~Reworded(c, d)
    BY DEF ClaimsTrue
  <2>1. CASE d \in kept
    <3>1. c = d
      BY <1>3, <1>7, <2>1 DEF IsTree, ClaimedOnce
    <3> QED BY <3>1 DEF Reworded
  <2>2. CASE d \in new
    BY <1>6, <2>2 DEF Reworded
  <2> QED BY <1>10, <1>c, <2>1, <2>2
<1>13. RecordsTrue(tree, "retire", named, plan)
  <2>1. \A x : ~Reworded(x, x) /\ ~Reworded(x, None)
    BY DEF Reworded
  <2> SUFFICES ASSUME NEW id \in Reqs
               PROVE  /\ ~Reworded(tree.gaps[id], G[id])
                      /\ ~Reworded(tree.atts[id], tree.atts[id])
                      /\ id \notin named => (tree.gaps[id] # None => G[id] # None)
    BY <1>10 DEF RecordsTrue
  <2> QED BY <1>9, <2>1
<1>14. Mindful(tree, "retire", named, plan)
  BY <1>3, <1>t, <1>10, <1>11, <1>12, <1>13 DEF Mindful
<1> QED BY <1>2, <1>14 DEF Planned

LEMMA Moved ==
  ASSUME NEW move \in Moves, NEW c, IsClaim(c)
  PROVE  LET d == MovedClaim(move, c) IN
         /\ IsClaim(d) /\ d.file = c.file /\ d.req = c.req /\ d.role = c.role
         /\ d.clause = c.clause /\ d.pin = c.pin
<1> DEFINE d == MovedClaim(move, c)
<1>1. CASE c.sym \notin DOMAIN move
  BY <1>1 DEF MovedClaim
<1>2. CASE c.sym \in DOMAIN move
  <2>1. PICK n : n = IF c.shape = 0 THEN 0 ELSE code[move[c.sym]].shape
    OBVIOUS
  <2>2. PICK c1 : c1 = [c EXCEPT !.sym = move[c.sym]]
    OBVIOUS
  <2>3. PICK c2 : c2 = [c1 EXCEPT !.shape = n]
    OBVIOUS
  <2>4. d = c2
    BY <1>2, <2>1, <2>2, <2>3 DEF MovedClaim
  <2>5. c1 = [file |-> c.file, req |-> c.req, sym |-> move[c.sym], role |-> c.role,
              clause |-> c.clause, pin |-> c.pin, src |-> c.src, shape |-> c.shape]
    BY <2>2 DEF IsClaim
  <2>6. c2 = [file |-> c.file, req |-> c.req, sym |-> move[c.sym], role |-> c.role,
              clause |-> c.clause, pin |-> c.pin, src |-> c.src, shape |-> n]
    BY <2>3, <2>5
  <2>7. /\ c2.file = c.file /\ c2.req = c.req /\ c2.sym = move[c.sym] /\ c2.role = c.role
        /\ c2.clause = c.clause /\ c2.pin = c.pin /\ c2.src = c.src /\ c2.shape = n
        /\ move[c.sym] \in Syms
    BY <1>2, <2>6, MovesAssumption
  <2>8. c2 = [file |-> c2.file, req |-> c2.req, sym |-> c2.sym, role |-> c2.role,
              clause |-> c2.clause, pin |-> c2.pin, src |-> c2.src, shape |-> c2.shape]
    BY <2>6, <2>7
  <2>9. IsClaim(c2)
    BY <2>7, <2>8 DEF IsClaim, OneText
  <2> QED BY <2>4, <2>7, <2>9
<1> QED BY <1>1, <1>2

\* A rewrite of pointers leaves a requirement with another text.
LEMMA RepointedText ==
  ASSUME NEW move \in Moves, NEW id \in Reqs, IsText(tree.docs[id]),
         PointersMoved(move, id) # {}
  PROVE  LET text == Repointed(tree.docs[id], PointersMoved(move, id)) IN
         IsText(text) /\ text # tree.docs[id]
<1> DEFINE was == tree.docs[id]
           pairs == PointersMoved(move, id)
           names == {n \in was.pointers : \A m \in pairs : m[1] # n} \cup {m[2] : m \in pairs}
           text == [was EXCEPT !.pointers = names]
<1>1. Repointed(was, pairs) = text
  BY DEF Repointed
<1> HIDE DEF names
<1>2. text = [words |-> was.words, keyword |-> was.keyword, clauses |-> was.clauses,
              kind |-> was.kind, pointers |-> names, layout |-> was.layout,
              supersedes |-> was.supersedes]
  BY DEF IsText
<1> HIDE DEF text
<1>3. /\ text.words = was.words /\ text.keyword = was.keyword /\ text.clauses = was.clauses
      /\ text.kind = was.kind /\ text.pointers = names /\ text.layout = was.layout
      /\ text.supersedes = was.supersedes
  BY <1>2
<1>4. text = [words |-> text.words, keyword |-> text.keyword, clauses |-> text.clauses,
              kind |-> text.kind, pointers |-> text.pointers, layout |-> text.layout,
              supersedes |-> text.supersedes]
  BY <1>2, <1>3
<1>5. IsText(text)
  BY <1>3, <1>4 DEF IsText
<1> DEFINE D == {d \in tree.claims : /\ d.req = id /\ d.sym \in DOMAIN move
                                     /\ MemberOf[d.sym] # MemberOf[move[d.sym]]
                                     /\ MemberOf[d.sym] \in was.pointers}
           S == {d.sym : d \in D}
<1>6. pairs = {<<MemberOf[c.sym], MemberOf[move[c.sym]]>> : c \in D}
  BY DEF PointersMoved
<1>7. /\ S # {} /\ S \in SUBSET {s \in DOMAIN move : MemberOf[s] # MemberOf[move[s]]}
      /\ \A s \in S : MemberOf[s] \in was.pointers
  BY <1>6
<1>8. /\ \A s \in S : <<MemberOf[s], MemberOf[move[s]]>> \in pairs
      /\ \A m \in pairs : \E u \in S : m[2] = MemberOf[move[u]]
  BY <1>6
<1> HIDE DEF D, S, pairs
<1>9. PICK s \in S : \A u \in S : MemberOf[move[u]] # MemberOf[s]
  BY <1>7, MovesAssumption
<1>10. MemberOf[s] \in was.pointers /\ MemberOf[s] \notin names
  BY <1>7, <1>8, <1>9 DEF names
<1>11. text # was
  BY <1>3, <1>10
<1> QED BY <1>1, <1>5, <1>11 DEF pairs

LEMMA RetargetPlanned ==
  ASSUME LoopInv, NEW p \in Procs, Retarget(p)
  PROVE  Planned(p)
<1>1. PICK move \in Moves :
    LET claims == {MovedClaim(move, c) : c \in tree.claims}
        affected == {id \in Declared(tree.docs) : PointersMoved(move, id) # {}}
        docs == [id \in Reqs |-> IF id \in affected
                   THEN Repointed(tree.docs[id], PointersMoved(move, id)) ELSE tree.docs[id]]
        spec == SpecOf(docs, canon)
        over == [tree EXCEPT !.docs = docs, !.claims = claims]
        behind == {c \in claims : c.req \in affected /\ c.pin # spec[c.req].content}
        repin(id, rec) == IF id \in affected /\ rec # None /\ rec.pin # spec[id].content
                          THEN Stamp(spec, id, rec) ELSE rec
    IN  /\ \A c, d \in tree.claims :
             Identity(MovedClaim(move, c)) = Identity(MovedClaim(move, d)) => c = d
        /\ \A id \in affected : Consentable(spec, over, id)
        /\ Plan(p, "retarget", {},
                [over EXCEPT !.claims = (claims \ behind)
                                          \cup {Stamp(spec, c.req, c) : c \in behind},
                             !.gaps = [id \in Reqs |-> repin(id, @[id])],
                             !.atts = [id \in Reqs |-> repin(id, @[id])]])
  BY DEF Retarget
<1> DEFINE moved(c) == MovedClaim(move, c)
           claims == {moved(c) : c \in tree.claims}
           affected == {id \in Declared(tree.docs) : PointersMoved(move, id) # {}}
           docs == [id \in Reqs |-> IF id \in affected
                      THEN Repointed(tree.docs[id], PointersMoved(move, id)) ELSE tree.docs[id]]
           spec == SpecOf(docs, canon)
           over == [tree EXCEPT !.docs = docs, !.claims = claims]
           behind == {c \in claims : c.req \in affected /\ c.pin # spec[c.req].content}
           repin(id, rec) == IF id \in affected /\ rec # None /\ rec.pin # spec[id].content
                             THEN Stamp(spec, id, rec) ELSE rec
           X == (claims \ behind) \cup {Stamp(spec, c.req, c) : c \in behind}
           G == [id \in Reqs |-> repin(id, tree.gaps[id])]
           A == [id \in Reqs |-> repin(id, tree.atts[id])]
           plan == [over EXCEPT !.claims = X, !.gaps = G, !.atts = A]
<1>2. IsTree(tree) /\ Told(spec)
  BY SpecTold DEF LoopInv
<1>3. over.gaps = tree.gaps /\ over.atts = tree.atts
  BY <1>2 DEF IsTree
<1>4. Plan(p, "retarget", {}, plan)
  BY <1>1, <1>3
<1>5. /\ \A c, d \in tree.claims : Identity(moved(c)) = Identity(moved(d)) => c = d
      /\ \A id \in affected : id \in DOMAIN spec
  BY <1>1 DEF Consentable
<1>6. ASSUME NEW id \in affected
      PROVE  /\ id \in Reqs /\ IsText(docs[id]) /\ docs[id] # tree.docs[id]
  <2>1. id \in Reqs /\ IsText(tree.docs[id]) /\ PointersMoved(move, id) # {}
    BY <1>2 DEF Declared, IsTree
  <2>2. docs[id] = Repointed(tree.docs[id], PointersMoved(move, id))
    BY <2>1
  <2> QED BY <2>1, <2>2, RepointedText
<1>7. /\ docs = [id \in Reqs |-> docs[id]]
      /\ \A id \in Reqs : docs[id] # None => IsText(docs[id])
  BY <1>2, <1>6 DEF IsTree
<1> HIDE DEF affected, docs, spec
<1>8. ASSUME NEW c \in tree.claims
      PROVE  /\ IsClaim(c) /\ IsClaim(moved(c)) /\ moved(c).file = c.file
             /\ moved(c).req = c.req /\ moved(c).role = c.role /\ moved(c).clause = c.clause
             /\ moved(c).pin = c.pin
  <2>1. IsClaim(c)
    BY <1>2 DEF IsTree
  <2> QED BY <2>1, Moved
<1> HIDE DEF moved
<1>9. ASSUME NEW m \in behind
      PROVE  LET d == Stamp(spec, m.req, m) IN
             /\ m.req \in affected /\ IsClaim(d) /\ d.file = m.file /\ d.req = m.req
             /\ d.sym = m.sym /\ d.role = m.role /\ d.clause = m.clause
  <2>1. m.req \in affected /\ m.req \in DOMAIN spec /\ IsClaim(m)
    BY <1>5, <1>8
  <2> QED BY <1>2, <2>1, StampClaim
<1>10. \A d \in X : \E e \in tree.claims :
         LET m == moved(e) IN
         \/ m \notin behind /\ d = m
         \/ m \in behind /\ d = Stamp(spec, m.req, m)
  OBVIOUS
<1>11. \A e \in tree.claims :
         LET m == moved(e) IN
         \/ m \notin behind /\ m \in X
         \/ m \in behind /\ Stamp(spec, m.req, m) \in X
  OBVIOUS
<1>12. \A id \in Reqs : /\ G[id] = repin(id, tree.gaps[id])
                        /\ A[id] = repin(id, tree.atts[id])
  OBVIOUS
<1>13. G = [id \in Reqs |-> G[id]] /\ A = [id \in Reqs |-> A[id]]
  OBVIOUS
<1>q. PICK t1 : t1 = [tree EXCEPT !.docs = docs]
  OBVIOUS
<1>r. PICK t2 : t2 = [t1 EXCEPT !.claims = X]
  OBVIOUS
<1>s. PICK t3 : t3 = [t2 EXCEPT !.gaps = G]
  OBVIOUS
<1>t. PICK t4 : t4 = [t3 EXCEPT !.atts = A]
  OBVIOUS
<1>u. plan = t4
  BY <1>q, <1>r, <1>s, <1>t
<1> HIDE DEF behind, X, G, A, plan
<1>14. ASSUME NEW d \in X
       PROVE  /\ IsClaim(d)
              /\ \E e \in tree.claims :
                   /\ d.file = e.file /\ d.req = e.req /\ d.role = e.role
                   /\ d.clause = e.clause /\ d.sym = moved(e).sym
                   /\ \/ moved(e) \notin behind /\ d = moved(e)
                      \/ /\ moved(e) \in behind /\ d = Stamp(spec, moved(e).req, moved(e))
                         /\ e.req \in affected
  <2>1. PICK e \in tree.claims :
           \/ moved(e) \notin behind /\ d = moved(e)
           \/ moved(e) \in behind /\ d = Stamp(spec, moved(e).req, moved(e))
    BY <1>10
  <2>2. CASE moved(e) \notin behind /\ d = moved(e)
    BY <1>8, <2>2
  <2>3. CASE moved(e) \in behind /\ d = Stamp(spec, moved(e).req, moved(e))
    BY <1>8, <1>9, <2>3
  <2> QED BY <2>1, <2>2, <2>3
<1>15. AreClaims(X)
  <2> SUFFICES ASSUME NEW c \in X, NEW d \in X, Identity(c) = Identity(d)
               PROVE  c = d
    BY <1>14 DEF AreClaims, ClaimedOnce
  <2>1. PICK a \in tree.claims :
          /\ Identity(c) = Identity(moved(a))
          /\ \/ moved(a) \notin behind /\ c = moved(a)
             \/ moved(a) \in behind /\ c = Stamp(spec, moved(a).req, moved(a))
    BY <1>8, <1>14 DEF Identity
  <2>2. PICK b \in tree.claims :
          /\ Identity(d) = Identity(moved(b))
          /\ \/ moved(b) \notin behind /\ d = moved(b)
             \/ moved(b) \in behind /\ d = Stamp(spec, moved(b).req, moved(b))
    BY <1>8, <1>14 DEF Identity
  <2>3. a = b
    BY <1>5, <2>1, <2>2
  <2> QED BY <2>1, <2>2, <2>3
<1>16. ASSUME NEW id \in Reqs
       PROVE  /\ G[id] # None => IsGap(G[id])
              /\ Reworded(tree.gaps[id], G[id]) => id \in affected
              /\ NoneIsNoRecord /\ tree.gaps[id] # None => G[id] # None
  <2>1. CASE G[id] = tree.gaps[id]
    BY <1>2, <2>1 DEF IsTree, Reworded
  <2>2. CASE G[id] # tree.gaps[id]
    <3>1. /\ id \in affected /\ tree.gaps[id] # None
          /\ G[id] = Stamp(spec, id, tree.gaps[id])
      BY <1>12, <2>2
    <3>2. IsGap(tree.gaps[id]) /\ id \in DOMAIN spec
      BY <1>2, <1>5, <3>1 DEF IsTree
    <3> QED BY <1>2, <3>1, <3>2, StampGap
  <2> QED BY <2>1, <2>2
<1>17. ASSUME NEW id \in Reqs
       PROVE  /\ A[id] # None => IsAttestation(A[id])
              /\ Reworded(tree.atts[id], A[id]) => id \in affected
              /\ NoneIsNoRecord /\ tree.atts[id] # None => A[id] # None
  <2>1. CASE A[id] = tree.atts[id]
    BY <1>2, <2>1 DEF IsTree, Reworded
  <2>2. CASE A[id] # tree.atts[id]
    <3>1. /\ id \in affected /\ tree.atts[id] # None
          /\ A[id] = Stamp(spec, id, tree.atts[id])
      BY <1>12, <2>2
    <3>2. IsAttestation(tree.atts[id]) /\ id \in DOMAIN spec
      BY <1>2, <1>5, <3>1 DEF IsTree
    <3> QED BY <1>2, <3>1, <3>2, StampAttestation
  <2> QED BY <2>1, <2>2
<1>18. AreGaps(G) /\ AreAttestations(A)
  BY <1>13, <1>16, <1>17 DEF AreGaps, AreAttestations
<1>19. /\ IsTree(plan) /\ plan.docs = docs /\ plan.claims = X
       /\ plan.gaps = G /\ plan.atts = A /\ plan.tombs = tree.tombs
  <2>4. IsTree(t1) /\ t1.docs = docs /\ t1.tombs = tree.tombs
    BY <1>2, <1>7, <1>q, WithDocs
  <2>5. IsTree(t2) /\ t2.docs = t1.docs /\ t2.claims = X /\ t2.tombs = t1.tombs
    BY <1>15, <1>r, <2>4, WithClaims
  <2>6. /\ IsTree(t3) /\ t3.docs = t2.docs /\ t3.claims = t2.claims /\ t3.gaps = G
        /\ t3.tombs = t2.tombs
    BY <1>18, <1>s, <2>5, WithGaps
  <2>7. /\ IsTree(t4) /\ t4.docs = t3.docs /\ t4.claims = t3.claims
        /\ t4.gaps = t3.gaps /\ t4.atts = A /\ t4.tombs = t3.tombs
    BY <1>18, <1>t, <2>6, WithAttestations
  <2> QED BY <1>u, <2>4, <2>5, <2>6, <2>7
<1>20. \A id \in affected : Licensed(tree, "retarget", {}, plan, id)
  BY <1>6, <1>19 DEF Licensed
<1>21. ClaimsKept(tree, "retarget", {}, plan)
  <2> SUFFICES ASSUME NEW e \in tree.claims
               PROVE  \E d \in X : Survives(e, d, TRUE)
    BY <1>19 DEF ClaimsKept
  <2>1. CASE moved(e) \notin behind
    BY <1>8, <1>11, <2>1 DEF Survives
  <2>2. CASE moved(e) \in behind
    BY <1>8, <1>9, <1>11, <2>2 DEF Survives
  <2> QED BY <2>1, <2>2
<1>22. ClaimsTrue(tree, "retarget", {}, plan)
  <2> SUFFICES ASSUME NEW c \in tree.claims, NEW d \in X,
                      Identity(c) = Identity(d), c.file = d.file, Reworded(c, d)
               PROVE  \/ Licensed(tree, "retarget", {}, plan, c.req)
                      \/ \E e \in tree.claims : Survives(e, d, TRUE) /\ e.pin = d.pin
    BY <1>19 DEF ClaimsTrue
  <2>1. PICK e \in tree.claims :
          /\ d.file = e.file /\ d.req = e.req /\ d.role = e.role /\ d.clause = e.clause
          /\ \/ moved(e) \notin behind /\ d = moved(e)
             \/ moved(e) \in behind /\ e.req \in affected
    BY <1>14
  <2>2. CASE d = moved(e)
    BY <1>8, <2>1, <2>2 DEF Survives
  <2>3. CASE e.req \in affected
    BY <1>20, <2>1, <2>3 DEF Identity
  <2> QED BY <2>1, <2>2, <2>3
<1>23. RecordsTrue(tree, "retarget", {}, plan)
  BY <1>16, <1>17, <1>19, <1>20 DEF RecordsTrue
<1>24. Mindful(tree, "retarget", {}, plan)
  BY <1>2, <1>19, <1>21, <1>22, <1>23 DEF Mindful
<1> QED BY <1>4, <1>24 DEF Planned

-----------------------------------------------------------------------------
(* The editorial form, the edits, and every step. *)

LEMMA JudgeEditorialKeeps ==
  ASSUME LoopInv, NEW p \in Procs, JudgeEditorial(p)
  PROVE  LoopInv' /\ Quiet
<1>1. PICK ids \in SUBSET Reqs :
        running' = [running EXCEPT ![p] =
          [verb |-> "editorial", named |-> ids, writes |-> <<>>, spec |-> Compiled, left |-> ids]]
        /\ ids # {} /\ UNCHANGED <<tree, code>>
  BY DEF JudgeEditorial
<1> DEFINE r == [verb |-> "editorial", named |-> ids, writes |-> <<>>, spec |-> Compiled,
                 left |-> ids]
<1>2. \A id \in DOMAIN Compiled : Compiled[id].content.says = Says(Compiled[id].source)
  BY SpecTold DEF Compiled, Told
<1>3. UnderWay(r)
  BY <1>1, <1>2 DEF UnderWay
<1>4. running' = [running EXCEPT ![p] = r]
  BY <1>1
<1> HIDE DEF r
<1>5. /\ running' = [q \in Procs |-> running'[q]]
      /\ \A q \in Procs : running'[q] = IF q = p THEN r ELSE running[q]
  BY <1>4 DEF LoopInv
<1>6. IsTree(tree)' /\ (code = [s \in Syms |-> code[s]] /\ \A s \in Syms : IsAnswer(code[s]))'
  BY <1>1 DEF LoopInv
<1>7. \A q \in Procs : running'[q] # None => UnderWay(running'[q])
  BY <1>3, <1>5 DEF LoopInv
<1> QED BY <1>1, <1>5, <1>6, <1>7 DEF LoopInv, Quiet

LEMMA ReconsentedMindful ==
  ASSUME IsTree(tree), NEW spec, Told(spec), NEW id \in DOMAIN spec, id \in Reqs,
         NEW verb, NEW named, id \in named
  PROVE  Mindful(tree, verb, named, Reconsented(spec, tree, id))
<1> DEFINE behind == Behind(spec, tree, id)
           X == (tree.claims \ behind) \cup {Stamp(spec, id, c) : c \in behind}
           g == IF GapBehind(spec, tree, id) THEN Stamp(spec, id, tree.gaps[id]) ELSE tree.gaps[id]
           G == [tree.gaps EXCEPT ![id] = g]
           plan == Reconsented(spec, tree, id)
<1>1. \A c \in behind : c \in tree.claims /\ c.req = id /\ IsClaim(c)
  BY DEF Behind, IsTree
<1> HIDE DEF behind
<1>2. ASSUME NEW c \in behind
      PROVE  /\ IsClaim(Stamp(spec, id, c)) /\ Identity(Stamp(spec, id, c)) = Identity(c)
             /\ Stamp(spec, id, c).file = c.file
  BY <1>1, StampClaim DEF Identity
<1>3. \A d \in X : \E c \in tree.claims :
        /\ Identity(d) = Identity(c) /\ d.file = c.file
        /\ \/ d = c /\ c \notin behind
           \/ d = Stamp(spec, id, c) /\ c \in behind
  BY <1>1, <1>2
<1>4. AreClaims(X)
  <2>1. \A d \in X : IsClaim(d)
    BY <1>2 DEF IsTree
  <2>2. \A c, d \in X : Identity(c) = Identity(d) /\ c.file = d.file => c = d
    <3> HIDE DEF X
    <3> QED BY <1>3 DEF IsTree, ClaimedOnce
  <2> QED BY <2>1, <2>2 DEF AreClaims, ClaimedOnce
<1>5. g # None => IsGap(g)
  <2>1. CASE GapBehind(spec, tree, id)
    <3>1. IsGap(tree.gaps[id])
      BY <2>1 DEF GapBehind, IsTree
    <3> QED BY <2>1, <3>1, StampGap
  <2>2. CASE ~GapBehind(spec, tree, id)
    BY <2>2 DEF IsTree
  <2> QED BY <2>1, <2>2
<1>q. PICK t1 : t1 = [tree EXCEPT !.claims = X]
  OBVIOUS
<1>r. t1.gaps = tree.gaps
  BY <1>q DEF IsTree
<1>s. PICK t2 : t2 = [t1 EXCEPT !.gaps = G]
  OBVIOUS
<1>u. plan = t2
  BY <1>q, <1>r, <1>s DEF Reconsented, behind
<1> HIDE DEF g
<1>6. /\ G = [i \in Reqs |-> G[i]]
      /\ \A i \in Reqs : G[i] = IF i = id THEN g ELSE tree.gaps[i]
  BY DEF IsTree
<1>7. AreGaps(G)
  BY <1>5, <1>6 DEF AreGaps, IsTree
<1>k. \A c \in tree.claims : c \notin behind => c \in X
  OBVIOUS
<1> HIDE DEF X, G, plan
<1>8. /\ IsTree(plan) /\ plan.claims = X /\ plan.gaps = G
      /\ plan.atts = tree.atts /\ plan.tombs = tree.tombs
  <2>1. IsTree(t1) /\ t1.atts = tree.atts /\ t1.claims = X /\ t1.tombs = tree.tombs
    BY <1>4, <1>q, WithClaims
  <2>2. /\ IsTree(t2) /\ t2.atts = t1.atts /\ t2.claims = t1.claims /\ t2.gaps = G
        /\ t2.tombs = t1.tombs
    BY <1>7, <1>s, <2>1, WithGaps
  <2> QED BY <1>u, <2>1, <2>2
<1>9. ClaimsKept(tree, verb, named, plan)
  BY <1>1, <1>8, <1>k DEF ClaimsKept, Survives
<1>10. ClaimsTrue(tree, verb, named, plan)
  <2> SUFFICES ASSUME NEW c \in tree.claims, NEW d \in X,
                      Identity(c) = Identity(d), c.file = d.file, Reworded(c, d)
               PROVE  c.req \in named
    BY <1>8 DEF ClaimsTrue, Licensed
  <2>1. PICK e \in tree.claims :
          /\ Identity(d) = Identity(e) /\ d.file = e.file
          /\ d = e \/ e \in behind
    BY <1>3
  <2>2. c = e
    BY <2>1 DEF IsTree, ClaimedOnce
  <2>3. c # d
    BY DEF Reworded
  <2> QED BY <1>1, <2>1, <2>2, <2>3
<1>11. RecordsTrue(tree, verb, named, plan)
  <2>1. \A x : ~Reworded(x, x)
    BY DEF Reworded
  <2> QED BY <1>6, <1>8, <2>1 DEF RecordsTrue, Licensed
<1>12. tree.tombs \subseteq plan.tombs /\ IsTree(tree)
  BY <1>8
<1>13. Mindful(tree, verb, named, plan)
  BY <1>8, <1>9, <1>10, <1>11, <1>12 DEF Mindful
<1> QED BY <1>8, <1>13 DEF plan

LEMMA LeftOver ==
  ASSUME NEW r, NEW left,
         r = [verb |-> r.verb, named |-> r.named, writes |-> r.writes, spec |-> r.spec,
              left |-> r.left]
  PROVE  [r EXCEPT !.left = left]
           = [verb |-> r.verb, named |-> r.named, writes |-> r.writes, spec |-> r.spec,
              left |-> left]
OBVIOUS

LEMMA EditorialKeeps ==
  ASSUME LoopInv, NEW p \in Procs, Editorial(p)
  PROVE  LoopInv' /\ (Quiet \/ Done(p))
<1> DEFINE r == running[p]
<1>1. PICK id \in r.left :
        LET left == r.left \ {id} IN
        \/ /\ Consentable(r.spec, tree, id)
           /\ tree' = Reconsented(r.spec, tree, id)
           /\ running' = [running EXCEPT ![p] =
                IF left = {} THEN None ELSE [r EXCEPT !.left = left]]
        \/ /\ running' = [running EXCEPT ![p] = None]
           /\ UNCHANGED tree
  BY DEF Editorial
<1>2. r # None /\ UNCHANGED code
  BY DEF Editorial
<1>3. UnderWay(r) /\ IsTree(tree) /\ r.left # {} /\ id \in r.named /\ id \in Reqs
  BY <1>1, <1>2 DEF LoopInv, UnderWay
<1>4. Told(r.spec)
  BY <1>3 DEF UnderWay, Told
<1> DEFINE left == r.left \ {id}
           n == [r EXCEPT !.left = left]
<1>5. left # {} => UnderWay(n) /\ n # r
  <2>1. n = [verb |-> r.verb, named |-> r.named, writes |-> r.writes, spec |-> r.spec,
             left |-> left]
    <3>1. r = [verb |-> r.verb, named |-> r.named, writes |-> r.writes, spec |-> r.spec,
               left |-> r.left]
      BY <1>3 DEF UnderWay
    <3> HIDE DEF r, left
    <3> QED BY <3>1, LeftOver
  <2> HIDE DEF n
  <2>2. /\ n.verb = r.verb /\ n.named = r.named /\ n.writes = r.writes /\ n.spec = r.spec
        /\ n.left = left
    BY <2>1
  <2>3. n # r
    BY <1>1, <2>2
  <2>4. /\ n = [verb |-> n.verb, named |-> n.named, writes |-> n.writes, spec |-> n.spec,
                left |-> n.left]
        /\ n.left \subseteq n.named \cap Reqs
    BY <1>3, <2>1, <2>2 DEF UnderWay
  <2>5. \A i \in DOMAIN n.spec : n.spec[i].content.says = Says(n.spec[i].source)
    BY <1>4, <2>2 DEF Told
  <2>6. left # {} => UnderWay(n)
    BY <2>2, <2>4, <2>5 DEF UnderWay
  <2> QED BY <2>3, <2>6
<1>6. (code = [s \in Syms |-> code[s]] /\ \A s \in Syms : IsAnswer(code[s]))'
  BY <1>2 DEF LoopInv
<1>7. CASE /\ Consentable(r.spec, tree, id)
           /\ tree' = Reconsented(r.spec, tree, id)
           /\ running' = [running EXCEPT ![p] = IF left = {} THEN None ELSE n]
  <2>1. id \in DOMAIN r.spec
    BY <1>7 DEF Consentable
  <2>2. Mindful(tree, r.verb, r.named, tree')
    BY <1>3, <1>4, <1>7, <2>1, ReconsentedMindful
  <2>3. IsTree(tree')
    BY <2>2 DEF Mindful
  <2> HIDE DEF n, left
  <2>4. /\ running' = [q \in Procs |-> running'[q]]
        /\ \A q \in Procs : running'[q] = IF q = p THEN (IF left = {} THEN None ELSE n)
                                          ELSE running[q]
    BY <1>7 DEF LoopInv
  <2>5. \A q \in Procs : running'[q] # None => UnderWay(running'[q])
    BY <1>5, <2>4 DEF LoopInv
  <2>6. Wrote(p) /\ \A q \in Procs : Wrote(q) => q = p
    BY <1>2, <1>5, <2>4 DEF Wrote
  <2> QED BY <1>6, <2>2, <2>3, <2>4, <2>5, <2>6 DEF LoopInv, Done
<1>8. CASE running' = [running EXCEPT ![p] = None] /\ UNCHANGED tree
  <2>1. /\ running' = [q \in Procs |-> running'[q]]
        /\ \A q \in Procs : running'[q] = IF q = p THEN None ELSE running[q]
    BY <1>8 DEF LoopInv
  <2>2. \A q \in Procs : running'[q] # None => UnderWay(running'[q])
    BY <2>1 DEF LoopInv
  <2>3. IsTree(tree)'
    BY <1>8 DEF LoopInv
  <2> QED BY <1>6, <1>8, <2>1, <2>2, <2>3 DEF LoopInv, Quiet
<1> QED BY <1>1, <1>7, <1>8

LEMMA EditKeeps ==
  ASSUME LoopInv, EditDocument \/ EditCode \/ Upgrade \/ UNCHANGED vars
  PROVE  LoopInv' /\ Quiet
<1>1. UNCHANGED running
  BY DEF EditDocument, EditCode, Upgrade, Edit, vars
<1>2. \A p \in Procs : running'[p] # None => UnderWay(running'[p])
  BY <1>1 DEF LoopInv
<1>3. CASE EditDocument
  <2>1. PICK id \in Reqs, t \in Texts \cup {None} :
          tree' = [tree EXCEPT !.docs[id] = t] /\ UNCHANGED code
    BY <1>3 DEF EditDocument
  <2> DEFINE D == [tree.docs EXCEPT ![id] = t]
  <2>2. tree' = [tree EXCEPT !.docs = D] /\ IsTree(tree)
    BY <2>1 DEF LoopInv
  <2>3. /\ D = [i \in Reqs |-> D[i]]
        /\ \A i \in Reqs : D[i] = IF i = id THEN t ELSE tree.docs[i]
    BY <2>2 DEF IsTree
  <2> HIDE DEF D
  <2>4. \A i \in Reqs : D[i] # None => IsText(D[i])
    BY <2>2, <2>3, LoopAssumption DEF IsTree
  <2>5. /\ IsTree(tree') /\ tree'.claims = tree.claims /\ tree'.gaps = tree.gaps
        /\ tree'.atts = tree.atts /\ tree'.tombs = tree.tombs
    BY <2>2, <2>3, <2>4, WithDocs
  <2> QED BY <1>1, <1>2, <2>1, <2>5 DEF LoopInv, Quiet
<1>4. CASE EditCode
  <2>1. PICK sym \in Syms, s \in CodeStates :
          code' = [code EXCEPT ![sym] = s] /\ UNCHANGED tree
    BY <1>4 DEF EditCode
  <2>2. (code = [z \in Syms |-> code[z]] /\ \A z \in Syms : IsAnswer(code[z]))'
    BY <2>1, LoopAssumption DEF LoopInv
  <2> QED BY <1>1, <1>2, <2>1, <2>2 DEF LoopInv, Quiet
<1>5. CASE Upgrade \/ UNCHANGED vars
  <2>1. UNCHANGED <<tree, code>>
    BY <1>5 DEF Upgrade, vars
  <2> QED BY <1>1, <1>2, <2>1 DEF LoopInv, Quiet
<1> QED BY <1>3, <1>4, <1>5

LEMMA Step ==
  ASSUME LoopInv, [Next]_vars
  PROVE  LoopInv' /\ (Quiet \/ \E p \in Procs : Done(p))
<1>1. ASSUME NEW p \in Procs, Planned(p) PROVE LoopInv' /\ Quiet
  BY <1>1, PlannedKeeps DEF Quiet
<1>2. ASSUME NEW p \in Procs, Verb(p) PROVE LoopInv' /\ (Quiet \/ Done(p))
  <2>1. CASE Bind(p) \/ Unbind(p)
    BY <1>1, <2>1, BindPlanned, UnbindPlanned
  <2>2. CASE Gap(p) \/ RetractGaps(p) \/ FireGaps(p)
    BY <1>1, <2>2, GapPlanned, RetractGapsPlanned, FireGapsPlanned
  <2>3. CASE Attest(p) \/ RetractAttestation(p)
    BY <1>1, <2>3, AttestPlanned, RetractAttestationPlanned
  <2>4. CASE PinAll(p)
    BY <1>1, <2>4, PinAllPlanned
  <2>5. CASE JudgeEditorial(p)
    BY <2>5, JudgeEditorialKeeps
  <2>6. CASE Editorial(p)
    BY <2>6, EditorialKeeps
  <2>7. CASE Retire(p) \/ Retarget(p)
    BY <1>1, <2>7, RetirePlanned, RetargetPlanned
  <2>8. CASE PruneDangling(p) \/ PruneResolved(p)
    BY <1>1, <2>8, PruneDanglingPlanned, PruneResolvedPlanned
  <2>9. CASE Commit(p)
    BY <2>9, CommitKeeps
  <2>10. CASE Refuse(p)
    BY <2>10, RefuseKeeps
  <2> QED
    BY <1>2, <2>1, <2>2, <2>3, <2>4, <2>5, <2>6, <2>7, <2>8, <2>9, <2>10 DEF Verb
<1>3. CASE \E p \in Procs : Verb(p)
  BY <1>2, <1>3
<1>4. CASE EditDocument \/ EditCode \/ Upgrade \/ UNCHANGED vars
  BY <1>4, EditKeeps
<1> QED BY <1>3, <1>4 DEF Next

\* The loop's inductive invariant: the tree is one the tool can have left, and
\* whatever writes are under way lead from one tree to a plan that keeps it.
THEOREM LoopInvariant == Spec => []LoopInv
<1>1. LoopInv /\ [Next]_vars => LoopInv'
  BY Step
<1> QED BY InitLoop, <1>1, PTL DEF Spec

\* For any renames, however verbs and edits interleave, a record's consent moves
\* to other words only by a verb that names its requirement, or by the retarget
\* that rewrites those words.
THEOREM ConsentByName == Spec => ConsentMovesByName
<1> DEFINE Rewords(id) ==
             \/ \E c \in tree.claims, d \in tree'.claims :
                  /\ c.req = id /\ Identity(c) = Identity(d) /\ c.file = d.file
                  /\ Reworded(c, d) /\ ~Kept(d)
             \/ Reworded(tree.gaps[id], tree'.gaps[id])
             \/ Reworded(tree.atts[id], tree'.atts[id])
           Named(id) == \E p \in Procs :
             /\ Wrote(p)
             /\ \/ id \in running[p].named
                \/ running[p].verb = "retarget" /\ tree'.docs[id] # tree.docs[id]
<1>1. ASSUME LoopInv, [Next]_vars, NEW id \in Reqs, Rewords(id) PROVE Named(id)
  <2>1. ~Quiet
    <3>1. \A x : ~Reworded(x, x)
      BY DEF Reworded
    <3>2. \A c, d \in tree.claims : Identity(c) = Identity(d) /\ c.file = d.file => c = d
      BY <1>1 DEF LoopInv, IsTree, ClaimedOnce
    <3> QED BY <1>1, <3>1, <3>2 DEF Quiet
  <2>2. PICK p \in Procs : Done(p)
    BY <1>1, <2>1, Step
  <2>3. /\ Wrote(p)
        /\ ClaimsTrue(tree, running[p].verb, running[p].named, tree')
        /\ RecordsTrue(tree, running[p].verb, running[p].named, tree')
    BY <2>2 DEF Done, Mindful
  <2>4. CASE \/ Reworded(tree.gaps[id], tree'.gaps[id])
             \/ Reworded(tree.atts[id], tree'.atts[id])
    BY <2>3, <2>4 DEF RecordsTrue, Licensed
  <2>5. ASSUME NEW c \in tree.claims, NEW d \in tree'.claims, c.req = id,
               Identity(c) = Identity(d), c.file = d.file, Reworded(c, d), ~Kept(d)
        PROVE  Named(id)
    <3>1. ~ \E e \in tree.claims : Survives(e, d, running[p].verb = "retarget") /\ e.pin = d.pin
      BY <2>3, <2>5 DEF Kept
    <3>2. Licensed(tree, running[p].verb, running[p].named, tree', c.req)
      BY <2>3, <2>5, <3>1 DEF ClaimsTrue
    <3> QED BY <2>3, <2>5, <3>2 DEF Licensed
  <2> QED BY <1>1, <2>4, <2>5
<1>2. LoopInv /\ [Next]_vars => [\A id \in Reqs : Rewords(id) => Named(id)]_vars
  BY <1>1
<1> QED BY LoopInvariant, <1>2, PTL DEF Spec, ConsentMovesByName

\* Where None is told from every record: a record goes only when a verb names
\* its requirement or prunes its gap, a claim never but by name, and a tombstone
\* never, however verbs and edits interleave.
THEOREM RecordsStay == ASSUME NoneIsNoRecord PROVE Spec => NothingDropped
<1> DEFINE Stays ==
             /\ tree.tombs \subseteq tree'.tombs
             /\ \A id \in Reqs, p \in Procs : Wrote(p) /\ id \notin running[p].named =>
                  /\ \A c \in tree.claims : c.req = id =>
                       \E d \in tree'.claims : Survives(c, d, running[p].verb = "retarget")
                  /\ tree.gaps[id] # None => tree'.gaps[id] # None \/ running[p].verb = "prune"
                  /\ tree.atts[id] # None => tree'.atts[id] # None
<1>1. ASSUME LoopInv, [Next]_vars PROVE Stays
  <2>1. CASE Quiet
    BY <2>1 DEF Quiet, Survives
  <2>2. ASSUME NEW p \in Procs, Done(p) PROVE Stays
    <3>1. /\ tree.tombs \subseteq tree'.tombs
          /\ \A q \in Procs : Wrote(q) => q = p
          /\ ClaimsKept(tree, running[p].verb, running[p].named, tree')
          /\ RecordsTrue(tree, running[p].verb, running[p].named, tree')
      BY <2>2 DEF Done, Mindful
    <3> QED BY <3>1 DEF ClaimsKept, RecordsTrue
  <2> QED BY <1>1, <2>1, <2>2, Step
<1>2. LoopInv /\ [Next]_vars => [Stays]_vars
  BY <1>1
<1> QED BY LoopInvariant, <1>2, PTL DEF Spec, NothingDropped

-----------------------------------------------------------------------------
(* The gate. *)

LEMMA CompiledTells ==
  ASSUME IsTree(tree)
  PROVE  /\ DOMAIN Compiled = Declared(tree.docs) /\ Told(Compiled)
         /\ \A id \in Declared(tree.docs) :
              LET r == Compiled[id]
                  t == tree.docs[id]
              IN  /\ id \in Reqs /\ t # None
                  /\ r.kind = t.kind /\ r.keyword = t.keyword /\ r.clauses = t.clauses
                  /\ r.pointers = t.pointers /\ r.content.says = Says(t)
                  /\ t.kind \in {"behavior", "invariant", "structural", "wire"}
BY DEF Compiled, SpecOf, Declared, Content, Told, IsTree, IsText

\* What is consented to in the judgement is consented to the words that stand.
LEMMA HeldPresent ==
  ASSUME IsTree(tree), NEW id \in Declared(tree.docs), NEW rec, OneText(rec),
         Holds(Compiled, id, rec)
  PROVE  Present(id, rec)
<1>1. rec.pin # None /\ rec.pin.says = Compiled[id].content.says
  BY CompiledTells, HeldSays
<1> QED BY <1>1, CompiledTells DEF Present

\* The facts of a requirement as formulas.
LEMMA FactsAre ==
  ASSUME NEW spec, NEW code0, NEW store, NEW id
  PROVE  LET f == Facts(spec, code0, store, id)
             cs == ClaimsOf(spec, store, id)
         IN
         /\ DanglingPointer(spec, store, id) => f.broken
         /\ ~f.broken => \A c \in cs :
              /\ code0[c.sym].shape # 0 /\ c.shape \in {0, code0[c.sym].shape}
              /\ WitnessRole(c.role) =>
                   code0[c.sym].outcome \notin {"failed", "none", "skipped", "outside"}
         /\ ~f.stale =>
              /\ Stands(spec, store, id) => Holds(spec, id, store.atts[id])
              /\ \A c \in cs : Holds(spec, id, c) /\ (code0[c.sym].shape # 0 => c.shape # 0)
         /\ f.attested => Stands(spec, store, id)
         /\ ~f.bound =>
              cs = {} /\ ~Stands(spec, store, id) /\ ~DanglingPointer(spec, store, id)
BY DEF Facts, Unrun

\* What the default policy asks of a requirement.
LEMMA ByDefault ==
  ASSUME DOMAIN Override = {}, NEW r
  PROVE  /\ Minimum(r) = DefaultMinimum(r.kind, r.keyword)
         /\ AdmitsAttestation(r) => r.keyword = "should"
         /\ AsksNothing(r) => r.keyword = "may"
BY DEF Minimum, AdmitsAttestation, AsksNothing, Overridden

\* Evidence that meets a minimum comes from a claim that is enough for it.
LEMMA MetIsEnough ==
  ASSUME DOMAIN Override = {}, IsTree(tree), NEW id \in Declared(tree.docs), NEW u,
         \A c \in ClaimsOf(Compiled, tree, id) : Sound(c),
         Satisfied(Compiled[id], EvidenceAt(Compiled, code, tree, id, u))
  PROVE  \E c \in {d \in tree.claims : d.req = id} :
           c.clause \in {0, u} /\ Enough(tree.docs[id], c)
<1> DEFINE t == tree.docs[id]
           min == DefaultMinimum(t.kind, t.keyword)
<1>1. /\ Compiled[id].kind = t.kind /\ Compiled[id].keyword = t.keyword
      /\ t.kind \in {"behavior", "invariant", "structural", "wire"}
  BY CompiledTells
<1>2. Minimum(Compiled[id]) = min
  BY <1>1, ByDefault
<1>3. /\ t.keyword # "must" => min = "static"
      /\ t.keyword = "must" =>
           /\ t.kind = "behavior" => min = "witness"
           /\ t.kind = "invariant" => min = "property"
           /\ t.kind = "structural" => min = "analyzer_proof"
           /\ t.kind = "wire" => min = "proof_or_witness"
  BY <1>1 DEF DefaultMinimum
<1>4. min # "exempt"
  BY <1>1, <1>3
<1> HIDE DEF min
<1>5. PICK e \in Meets[min] : e \in EvidenceAt(Compiled, code, tree, id, u)
  BY <1>2, <1>4 DEF Satisfied
<1>6. PICK c \in ClaimsOf(Compiled, tree, id) :
        c.clause \in {0, u} /\ e \in Grant(Compiled, code, c)
  BY <1>5 DEF EvidenceAt
<1>7. c \in {d \in tree.claims : d.req = id} /\ Sound(c)
  BY <1>6 DEF ClaimsOf
<1>8. \/ e = "static"
      \/ WitnessRole(c.role) /\ e \in WitnessGrant(c.role, code[c.sym].class)
  BY <1>6 DEF Grant
<1>9. e \in WitnessGrant(c.role, code[c.sym].class) => e = code[c.sym].class
  BY DEF WitnessGrant
<1>10. /\ Meets["witness"] = {"example", "property"}
       /\ Meets["property"] = {"property", "proof"}
       /\ Meets["analyzer_proof"] = {"proof"}
       /\ Meets["proof_or_witness"] = {"example", "property", "proof"}
  BY DEF Meets
<1>11. Enough(t, c)
  <2>1. CASE t.keyword # "must"
    BY <1>7, <2>1 DEF Enough
  <2>2. CASE t.keyword = "must" /\ t.kind = "behavior"
    BY <1>3, <1>5, <1>7, <1>8, <1>9, <1>10, <2>2 DEF Enough
  <2>3. CASE t.keyword = "must" /\ t.kind = "invariant"
    BY <1>3, <1>5, <1>7, <1>8, <1>9, <1>10, <2>3 DEF Enough
  <2>4. CASE t.keyword = "must" /\ t.kind = "structural"
    BY <1>3, <1>5, <1>7, <1>8, <1>9, <1>10, <2>4 DEF Enough
  <2>5. CASE t.keyword = "must" /\ t.kind = "wire"
    BY <1>3, <1>5, <1>7, <1>8, <1>9, <1>10, <2>5 DEF Enough
  <2> QED BY <1>1, <2>1, <2>2, <2>3, <2>4, <2>5
<1> QED BY <1>6, <1>7, <1>11

\* A requirement that is green is answered.
LEMMA GreenAnswered ==
  ASSUME DOMAIN Override = {}, LoopInv, HygieneClean(Compiled, tree),
         NEW id \in Declared(tree.docs), Bucket(Compiled, code, tree, id) \notin Red
  PROVE  Answered(id)
<1> DEFINE spec == Compiled
           t == tree.docs[id]
           f == Facts(spec, code, tree, id)
           cs == ClaimsOf(spec, tree, id)
           own == {c \in tree.claims : c.req = id}
           met == MetUnits(spec, code, tree, id)
<1>1. IsTree(tree) /\ \A s \in Syms : IsAnswer(code[s])
  BY DEF LoopInv
<1>2. own = cs
  BY DEF HygieneClean, ClaimsOf
<1>3. tree.atts[id] # None => Stands(spec, tree, id)
  BY <1>1, CompiledTells DEF HygieneClean, Stands, Attested, Gapped
<1>4. \/ AsksNothing(spec[id]) /\ ~f.bound
      \/ ~f.broken /\ ~f.stale /\ met = Units(spec[id])
      \/ ~f.broken /\ ~f.stale /\ f.attested /\ AdmitsAttestation(spec[id])
  BY DEF Bucket, Red
<1>5. spec[id].keyword = t.keyword /\ spec[id].clauses = t.clauses /\ spec[id].pointers = t.pointers
  BY <1>1, CompiledTells
<1>6. ~DanglingPointer(spec, tree, id)
  BY <1>4, FactsAre
<1>7. \A n \in t.pointers : \E c \in own : WitnessRole(c.role) /\ MemberOf[c.sym] = n
  BY <1>5, <1>6 DEF DanglingPointer
<1>8. CASE AsksNothing(spec[id]) /\ ~f.bound
  <2>1. own = {} /\ tree.atts[id] = None
    BY <1>2, <1>3, <1>8, FactsAre
  <2>2. t.keyword = "may"
    BY <1>5, <1>8, ByDefault
  <2> QED BY <1>7, <2>1, <2>2 DEF Answered
<1>9. ASSUME ~f.broken, ~f.stale
      PROVE  (\A c \in own : Sound(c)) /\ (tree.atts[id] # None => Present(id, tree.atts[id]))
  <2>1. ASSUME NEW c \in own PROVE Sound(c)
    <3>1. IsClaim(c) /\ c \in cs /\ c.req = id
      BY <1>1, <1>2, <2>1 DEF IsTree
    <3>2. Holds(spec, id, c) /\ code[c.sym].shape # 0 /\ c.shape = code[c.sym].shape
      BY <1>9, <3>1, FactsAre
    <3>3. WitnessRole(c.role) => code[c.sym].outcome = "passed"
      <4>1. IsAnswer(code[c.sym])
        BY <1>1, <3>1 DEF IsClaim
      <4> QED BY <1>9, <3>1, <4>1, FactsAre DEF IsAnswer
    <3>4. Present(id, c)
      BY <1>1, <3>1, <3>2, HeldPresent DEF IsClaim
    <3> QED BY <3>1, <3>2, <3>3, <3>4 DEF Sound
  <2>2. ASSUME tree.atts[id] # None PROVE Present(id, tree.atts[id])
    <3>1. Holds(spec, id, tree.atts[id])
      BY <1>3, <1>9, <2>2, FactsAre
    <3>2. OneText(tree.atts[id])
      BY <1>1, <2>2, CompiledTells DEF IsTree, IsAttestation
    <3> QED BY <1>1, <3>1, <3>2, HeldPresent
  <2> QED BY <2>1, <2>2
<1>10. CASE ~f.broken /\ ~f.stale /\ met = Units(spec[id])
  <2>1. \A c \in ClaimsOf(Compiled, tree, id) : Sound(c)
    BY <1>2, <1>9, <1>10
  <2>2. ASSUME NEW u \in Units(t)
        PROVE  \E c \in own : c.clause \in {0, u} /\ Enough(t, c)
    <3>1. u \in Units(spec[id])
      BY <1>5, <2>2 DEF Units
    <3>2. Satisfied(Compiled[id], EvidenceAt(Compiled, code, tree, id, u))
      BY <1>10, <3>1 DEF MetUnits
    <3> QED BY <1>1, <2>1, <3>2, MetIsEnough
  <2> QED BY <1>7, <1>9, <1>10, <2>2 DEF Answered
<1>11. CASE ~f.broken /\ ~f.stale /\ f.attested /\ AdmitsAttestation(spec[id])
  <2>1. tree.atts[id] # None
    BY <1>11, FactsAre DEF Stands, Attested
  <2>2. t.keyword = "should"
    BY <1>5, <1>11, ByDefault
  <2> QED BY <1>7, <1>9, <1>11, <2>1, <2>2 DEF Answered
<1> QED BY <1>4, <1>8, <1>10, <1>11

\* A red requirement that violates nothing is deferred in the words it has now.
LEMMA RedDeferred ==
  ASSUME IsTree(tree), NEW id \in Declared(tree.docs),
         Bucket(Compiled, code, tree, id) \in Red, ~Violation(Compiled, code, tree, id)
  PROVE  tree.gaps[id] # None
           /\ (tree.gaps[id].pin = None \/ Present(id, tree.gaps[id]))
<1> DEFINE gap == tree.gaps[id]
<1>1. /\ gap # None
      /\ RedClasses(Bucket(Compiled, code, tree, id), Facts(Compiled, code, tree, id))
           \subseteq Excused(Compiled, tree, id)
  BY DEF Violation
<1>2. \A b, f : RedClasses(b, f) # {}
  BY DEF RedClasses
<1>3. Excused(Compiled, tree, id) # {}
  BY <1>1, <1>2
<1>4. gap.pin = None \/ Holds(Compiled, id, gap)
  BY <1>3 DEF Excused, Drifted
<1>5. OneText(gap)
  BY <1>1, CompiledTells DEF IsTree, IsGap
<1> QED BY <1>1, <1>4, <1>5, HeldPresent

\* Under the default policy a passing check is sound, for every tree, code and
\* canonical form the verbs and edits can reach.
THEOREM GateIsSound == ASSUME DOMAIN Override = {} PROVE Spec => []GateSound
<1>1. ASSUME LoopInv PROVE GateSound
  <2> SUFFICES ASSUME Clean, CheckPasses(Compiled, code, tree) PROVE GateSound
    BY DEF GateSound
  <2>1. /\ HygieneClean(Compiled, tree) /\ ~ObservedRed(code, tree)
        /\ \A id \in Declared(tree.docs) : ~Violation(Compiled, code, tree, id)
        /\ IsTree(tree)
    BY <1>1, CompiledTells DEF CheckPasses, Violations, LoopInv
  <2>2. ASSUME NEW id \in Declared(tree.docs)
        PROVE  \/ Answered(id)
               \/ tree.gaps[id] # None /\ (tree.gaps[id].pin = None \/ Present(id, tree.gaps[id]))
    BY <1>1, <2>1, <2>2, GreenAnswered, RedDeferred
  <2>3. {c.req : c \in tree.claims} \cup Gapped(tree) \cup Attested(tree)
          \subseteq Declared(tree.docs) \ tree.tombs
    BY <2>1, CompiledTells DEF HygieneClean, WellFormed, Clean, Compiles
  <2>4. \A id \in Reqs : tree.gaps[id] = None \/ tree.atts[id] = None
    BY <2>1 DEF HygieneClean, Gapped, Attested
  <2>5. \A c \in tree.claims : WitnessRole(c.role) => code[c.sym].outcome # "failed"
    <3>1. \A c \in tree.claims : c.req \in Reqs
      BY <2>3 DEF Declared
    <3> QED BY <2>1, <3>1 DEF ObservedRed, ScopeSubjects
  <2> QED BY <2>2, <2>3, <2>4, <2>5 DEF GateSound
<1> QED BY LoopInvariant, <1>1, PTL

-----------------------------------------------------------------------------
(* The scoped check, and the pass pruning takes. *)

\* Something other than an unrun test is wrong with a requirement.
Wrong(spec, answers, store, id) ==
  \/ DanglingPointer(spec, store, id)
  \/ \E c \in ClaimsOf(spec, store, id) :
       \/ answers[c.sym].shape = 0
       \/ c.shape \notin {0, answers[c.sym].shape}
       \/ Unrun(answers, c, "failed")
       \/ Unrun(answers, c, "none")

Left(spec, answers, store, id, outcome) ==
  \E c \in ClaimsOf(spec, store, id) : Unrun(answers, c, outcome)

Unconsented(spec, answers, store, id) ==
  \/ Stands(spec, store, id) /\ ~Holds(spec, id, store.atts[id])
  \/ \E c \in ClaimsOf(spec, store, id) :
       \/ ~Holds(spec, id, c)
       \/ answers[c.sym].shape # 0 /\ c.shape = 0

LEMMA FactsMean ==
  ASSUME NEW spec, NEW answers, NEW store, NEW id
  PROVE  LET f == Facts(spec, answers, store, id) IN
         /\ f.broken <=> \/ Wrong(spec, answers, store, id)
                         \/ Left(spec, answers, store, id, "skipped")
                         \/ Left(spec, answers, store, id, "outside")
         /\ f.skipped <=> Left(spec, answers, store, id, "skipped")
         /\ f.outside <=> Left(spec, answers, store, id, "outside")
         /\ Wrong(spec, answers, store, id) => f.otherRed
         /\ f.stale <=> Unconsented(spec, answers, store, id)
         /\ f.attested <=> Stands(spec, store, id) /\ Holds(spec, id, store.atts[id])
         /\ f.bound <=> \/ ClaimsOf(spec, store, id) # {}
                        \/ Stands(spec, store, id)
                        \/ DanglingPointer(spec, store, id)
BY DEF Facts, Wrong, Left, Unconsented

\* Two sets of answers give a requirement's claims the same shapes and classes,
SameCode(spec, store, id, a, b) ==
  \A c \in ClaimsOf(spec, store, id) :
    a[c.sym].shape = b[c.sym].shape /\ a[c.sym].class = b[c.sym].class

\* and its witnesses the same outcomes.
SameAnswers(spec, store, id, a, b) ==
  /\ SameCode(spec, store, id, a, b)
  /\ \A c \in ClaimsOf(spec, store, id) :
       WitnessRole(c.role) => a[c.sym].outcome = b[c.sym].outcome

\* The judgement of a requirement reads the answers its own claims ask for.
LEMMA JudgedAlike ==
  ASSUME NEW spec, NEW store, NEW id, NEW a, NEW b, SameAnswers(spec, store, id, a, b)
  PROVE  /\ Bucket(spec, a, store, id) = Bucket(spec, b, store, id)
         /\ Facts(spec, a, store, id).stale <=> Facts(spec, b, store, id).stale
         /\ Violation(spec, a, store, id) <=> Violation(spec, b, store, id)
<1> DEFINE fa == Facts(spec, a, store, id)
           fb == Facts(spec, b, store, id)
           cs == ClaimsOf(spec, store, id)
<1>1. \A c \in cs : /\ a[c.sym].shape = b[c.sym].shape /\ a[c.sym].class = b[c.sym].class
                    /\ WitnessRole(c.role) => a[c.sym].outcome = b[c.sym].outcome
  BY DEF SameAnswers, SameCode
<1>2. /\ Wrong(spec, a, store, id) <=> Wrong(spec, b, store, id)
      /\ \A o : Left(spec, a, store, id, o) <=> Left(spec, b, store, id, o)
      /\ Unconsented(spec, a, store, id) <=> Unconsented(spec, b, store, id)
  BY <1>1 DEF Wrong, Left, Unconsented, Unrun
<1>3. /\ fa.broken <=> fb.broken
      /\ fa.stale <=> fb.stale
      /\ fa.attested <=> fb.attested
      /\ fa.bound <=> fb.bound
  BY <1>2, FactsMean
<1>4. \A c \in cs : Grant(spec, a, c) = Grant(spec, b, c)
  BY <1>1 DEF Grant
<1>5. \A u : EvidenceAt(spec, a, store, id, u) = EvidenceAt(spec, b, store, id, u)
  <2> SUFFICES ASSUME NEW u, NEW e
               PROVE  e \in EvidenceAt(spec, a, store, id, u)
                        <=> e \in EvidenceAt(spec, b, store, id, u)
    OBVIOUS
  <2> QED BY <1>4 DEF EvidenceAt
<1>6. MetUnits(spec, a, store, id) = MetUnits(spec, b, store, id)
  BY <1>5 DEF MetUnits
<1> HIDE DEF fa, fb
<1>7. Bucket(spec, a, store, id) = Bucket(spec, b, store, id)
  BY <1>3, <1>6 DEF Bucket, fa, fb
<1>8. \A k : RedClasses(k, fa) = RedClasses(k, fb)
  BY <1>3 DEF RedClasses
<1>9. Violation(spec, a, store, id) <=> Violation(spec, b, store, id)
  BY <1>7, <1>8 DEF Violation, fa, fb
<1> QED BY <1>3, <1>7, <1>9 DEF fa, fb

\* A run's answers differ from the code's in the outcomes it left out.
Blurs(seen, scope) ==
  \A s \in Syms :
    /\ seen[s].shape = code[s].shape /\ seen[s].class = code[s].class
    /\ s \in scope => seen[s] = code[s]
    /\ seen[s] = code[s] \/ seen[s].outcome = "skipped"
    /\ seen[s] = [shape |-> seen[s].shape, class |-> seen[s].class,
                  outcome |-> seen[s].outcome]

LEMMA SeenAnswers ==
  ASSUME LoopInv, NEW scope, NEW served
  PROVE  Blurs(Seen(code, scope, served), scope)
<1> SUFFICES ASSUME NEW s \in Syms
             PROVE  LET seen == Seen(code, scope, served) IN
                    /\ seen[s].shape = code[s].shape /\ seen[s].class = code[s].class
                    /\ s \in scope => seen[s] = code[s]
                    /\ seen[s] = code[s] \/ seen[s].outcome = "skipped"
                    /\ seen[s] = [shape |-> seen[s].shape, class |-> seen[s].class,
                                  outcome |-> seen[s].outcome]
  BY DEF Blurs
<1>1. code[s] = [shape |-> code[s].shape, class |-> code[s].class, outcome |-> code[s].outcome]
  BY DEF IsAnswer, LoopInv
<1> DEFINE left == [code[s] EXCEPT !.outcome = "skipped"]
<1>2. left = [shape |-> code[s].shape, class |-> code[s].class, outcome |-> "skipped"]
  BY <1>1
<1> HIDE DEF left
<1>3. left.shape = code[s].shape /\ left.class = code[s].class /\ left.outcome = "skipped"
  BY <1>2
<1>4. Seen(code, scope, served)[s]
        = IF \/ s \in scope \/ code[s].outcome = "outside"
             \/ s \in served /\ Servable(code[s])
          THEN code[s] ELSE left
  BY DEF Seen, left
<1> QED BY <1>1, <1>2, <1>3, <1>4

LEMMA GrantedAnswers ==
  ASSUME NEW seen, NEW s \in Syms,
         seen[s] = [shape |-> seen[s].shape, class |-> seen[s].class,
                    outcome |-> seen[s].outcome]
  PROVE  /\ Granted(seen)[s].shape = seen[s].shape /\ Granted(seen)[s].class = seen[s].class
         /\ Granted(seen)[s].outcome
              = IF seen[s].outcome = "skipped" THEN "passed" ELSE seen[s].outcome
<1> DEFINE passed == [seen[s] EXCEPT !.outcome = "passed"]
<1>1. passed = [shape |-> seen[s].shape, class |-> seen[s].class, outcome |-> "passed"]
  OBVIOUS
<1> HIDE DEF passed
<1>2. Granted(seen)[s] = IF seen[s].outcome = "skipped" THEN passed ELSE seen[s]
  BY DEF Granted, passed
<1>3. passed.shape = seen[s].shape /\ passed.class = seen[s].class /\ passed.outcome = "passed"
  BY <1>1
<1> QED BY <1>2, <1>3

\* A scope that holds a requirement's witnesses sees of it what the code says.
LEMMA SeenWhole ==
  ASSUME LoopInv, NEW ids, NEW served, NEW id \in ids
  PROVE  SameAnswers(Compiled, tree, id, Seen(code, ScopeSubjects(tree, ids), served), code)
<1> DEFINE scope == ScopeSubjects(tree, ids)
           seen == Seen(code, scope, served)
<1>1. \A c \in ClaimsOf(Compiled, tree, id) : c \in tree.claims /\ c.req = id /\ c.sym \in Syms
  BY DEF ClaimsOf, LoopInv, IsTree, IsClaim
<1>2. \A c \in ClaimsOf(Compiled, tree, id) : WitnessRole(c.role) => c.sym \in scope
  BY <1>1 DEF ScopeSubjects
<1>3. \A s \in Syms : /\ seen[s].shape = code[s].shape /\ seen[s].class = code[s].class
                      /\ s \in scope => seen[s] = code[s]
  <2>1. Blurs(seen, scope)
    BY SeenAnswers
  <2> HIDE DEF scope, seen
  <2> QED BY <2>1 DEF Blurs
<1> HIDE DEF scope, seen
<1>4. SameAnswers(Compiled, tree, id, seen, code)
  BY <1>1, <1>2, <1>3 DEF SameAnswers, SameCode
<1> QED BY <1>4 DEF seen, scope

\* A scoped pass finds no violation in its own requirements that the whole
\* check would not.
LEMMA ScopedIsWhole ==
  ASSUME LoopInv, NEW ids, NEW served, NEW id \in ids,
         ScopedCheckPasses(Compiled, code, tree, ids, served), id \in DOMAIN Compiled
  PROVE  ~Violation(Compiled, code, tree, id)
<1> DEFINE seen == Seen(code, ScopeSubjects(tree, ids), served)
<1>1. SameAnswers(Compiled, tree, id, seen, code)
  BY SeenWhole
<1>2. Violation(Compiled, seen, tree, id) => ScopeBlocked(Compiled, seen, tree, id)
  BY DEF ScopedCheckPasses, Violations
<1> HIDE DEF seen
<1>3. ~Left(Compiled, seen, tree, id, "skipped")
  <2>1. \A c \in ClaimsOf(Compiled, tree, id) : IsAnswer(code[c.sym])
    BY DEF ClaimsOf, LoopInv, IsTree, IsClaim
  <2> QED BY <1>1, <2>1 DEF Left, Unrun, SameAnswers, IsAnswer
<1>4. ~ScopeBlocked(Compiled, seen, tree, id)
  BY <1>3, FactsMean DEF ScopeBlocked
<1> QED BY <1>1, <1>2, <1>4, JudgedAlike

\* What a scoped pass forgives, running the tests it left out could put right.
LEMMA ForgivenIsUnrun ==
  ASSUME LoopInv, NEW ids, NEW served,
         ScopedCheckPasses(Compiled, code, tree, ids, served),
         NEW id \in Violations(Compiled, Granted(Seen(code, ScopeSubjects(tree, ids), served)),
                               tree)
  PROVE  Bucket(Compiled, Granted(Seen(code, ScopeSubjects(tree, ids), served)), tree, id)
           \in {"uncovered", "partial"}
<1> DEFINE seen == Seen(code, ScopeSubjects(tree, ids), served)
           granted == Granted(seen)
           fs == Facts(Compiled, seen, tree, id)
           fg == Facts(Compiled, granted, tree, id)
<1>1. /\ id \in DOMAIN Compiled /\ Violation(Compiled, granted, tree, id)
      /\ Violation(Compiled, seen, tree, id) => ScopeBlocked(Compiled, seen, tree, id)
  BY DEF ScopedCheckPasses, Violations
<1>2. \A c \in ClaimsOf(Compiled, tree, id) : c.sym \in Syms
  BY DEF ClaimsOf, LoopInv, IsTree, IsClaim
<1>3. \A s \in Syms : seen[s] = [shape |-> seen[s].shape, class |-> seen[s].class,
                                 outcome |-> seen[s].outcome]
  BY SeenAnswers DEF Blurs
<1> HIDE DEF seen
<1>4. \A c \in ClaimsOf(Compiled, tree, id) :
        /\ granted[c.sym].shape = seen[c.sym].shape
        /\ granted[c.sym].outcome
             = IF seen[c.sym].outcome = "skipped" THEN "passed" ELSE seen[c.sym].outcome
  BY <1>2, <1>3, GrantedAnswers
<1> HIDE DEF granted
<1>5. /\ Wrong(Compiled, granted, tree, id) <=> Wrong(Compiled, seen, tree, id)
      /\ Left(Compiled, granted, tree, id, "outside") <=> Left(Compiled, seen, tree, id, "outside")
      /\ ~Left(Compiled, granted, tree, id, "skipped")
      /\ Unconsented(Compiled, granted, tree, id) <=> Unconsented(Compiled, seen, tree, id)
  <2>1. Wrong(Compiled, granted, tree, id) <=> Wrong(Compiled, seen, tree, id)
    BY <1>4 DEF Wrong, Unrun
  <2>2. /\ Left(Compiled, granted, tree, id, "outside")
             <=> Left(Compiled, seen, tree, id, "outside")
        /\ ~Left(Compiled, granted, tree, id, "skipped")
    BY <1>4 DEF Left, Unrun
  <2>3. Unconsented(Compiled, granted, tree, id) <=> Unconsented(Compiled, seen, tree, id)
    BY <1>4 DEF Unconsented
  <2> QED BY <2>1, <2>2, <2>3
<1> HIDE DEF fs, fg
<1>6. /\ fg.stale <=> fs.stale
      /\ fg.bound <=> fs.bound
      /\ fg.broken => fs.broken /\ (fs.outside \/ fs.otherRed)
      /\ fs.broken <=> fg.broken \/ fs.skipped
      /\ DanglingPointer(Compiled, tree, id) => fg.broken
  BY <1>5, FactsMean DEF fs, fg, Wrong
<1>7. tree.gaps[id] = None => Excused(Compiled, tree, id) = {}
  BY DEF Excused
<1> DEFINE bg == Bucket(Compiled, granted, tree, id)
           bs == Bucket(Compiled, seen, tree, id)
           exempt == AsksNothing(Compiled[id]) /\ ~fg.bound
<1>8. /\ bg = "broken" <=> ~exempt /\ fg.broken
      /\ bg = "stale" <=> ~exempt /\ ~fg.broken /\ fg.stale
  BY DEF Bucket, fg
<1>9. /\ bs = "broken" <=> ~exempt /\ fs.broken
      /\ bs = "stale" <=> ~exempt /\ ~fs.broken /\ fs.stale
  BY <1>6 DEF Bucket, fs
<1>10. /\ bg \in Red
       /\ \/ DanglingPointer(Compiled, tree, id)
          \/ tree.gaps[id] = None
          \/ ~(RedClasses(bg, fg) \subseteq Excused(Compiled, tree, id))
  BY <1>1 DEF Violation, fg
<1>11. /\ bs = "broken" => RedClasses(bs, fs) = {"broken"} \cup (IF fs.stale THEN {"stale"} ELSE {})
       /\ bs = "stale" => RedClasses(bs, fs) = {"stale"}
       /\ bg = "broken" => RedClasses(bg, fg) = {"broken"} \cup (IF fg.stale THEN {"stale"} ELSE {})
       /\ bg = "stale" => RedClasses(bg, fg) = {"stale"}
  <2> HIDE DEF bs, bg
  <2> QED BY DEF RedClasses
<1>12. bs \in Red /\ (\/ DanglingPointer(Compiled, tree, id)
                      \/ tree.gaps[id] = None
                      \/ ~(RedClasses(bs, fs) \subseteq Excused(Compiled, tree, id)))
       => /\ bs = "broken" /\ fs.skipped /\ ~fs.outside /\ ~fs.otherRed
          /\ fs.stale => "stale" \in Excused(Compiled, tree, id)
  BY <1>1 DEF Violation, ScopeBlocked, fs
<1> HIDE DEF bg, bs
<1>13. bg # "broken"
  <2> SUFFICES ASSUME bg = "broken" PROVE FALSE
    OBVIOUS
  <2>1. bs = "broken"
    BY <1>6, <1>8, <1>9
  <2>2. RedClasses(bs, fs) = RedClasses(bg, fg)
    BY <1>6, <1>11, <2>1
  <2> QED BY <1>6, <1>8, <1>10, <1>12, <2>1, <2>2 DEF Red
<1>14. bg # "stale"
  <2> SUFFICES ASSUME bg = "stale" PROVE FALSE
    OBVIOUS
  <2>1. /\ ~exempt /\ ~fg.broken /\ fs.stale
        /\ "stale" \notin Excused(Compiled, tree, id)
    BY <1>6, <1>7, <1>8, <1>10, <1>11
  <2>2. bs \in {"broken", "stale"} /\ "stale" \in RedClasses(bs, fs)
    BY <1>6, <1>9, <1>11, <2>1
  <2> QED BY <1>12, <2>1, <2>2 DEF Red
<1>15. bg \in {"uncovered", "partial"}
  BY <1>10, <1>13, <1>14 DEF Red
<1> QED BY <1>15 DEF bg, granted, seen

\* A pass that leaves out tests finds a requirement covered only if it left out
\* none of its own.
LEMMA CoveredIsWhole ==
  ASSUME LoopInv, NEW executed, NEW served, NEW id,
         Bucket(Compiled, Seen(code, executed, served), tree, id) = "covered"
  PROVE  Bucket(Compiled, code, tree, id) = "covered"
<1> DEFINE seen == Seen(code, executed, served)
<1>1. \A s \in Syms : /\ seen[s].shape = code[s].shape /\ seen[s].class = code[s].class
                      /\ seen[s] = code[s] \/ seen[s].outcome = "skipped"
  <2>1. Blurs(seen, executed)
    BY SeenAnswers
  <2> HIDE DEF seen
  <2> QED BY <2>1 DEF Blurs
<1> HIDE DEF seen
<1>2. ~Facts(Compiled, seen, tree, id).broken
  BY DEF Bucket, seen
<1>3. ~Left(Compiled, seen, tree, id, "skipped")
  BY <1>2, FactsMean
<1>4. \A c \in ClaimsOf(Compiled, tree, id) : c.sym \in Syms
  BY DEF ClaimsOf, LoopInv, IsTree, IsClaim
<1>5. SameAnswers(Compiled, tree, id, seen, code)
  BY <1>1, <1>3, <1>4 DEF SameAnswers, SameCode, Left, Unrun
<1> QED BY <1>5, JudgedAlike DEF seen

\* What asks for nothing asks for nothing whatever ran.
LEMMA ExemptAnyway ==
  ASSUME NEW seen, NEW id, Bucket(Compiled, seen, tree, id) = "exempt"
  PROVE  Bucket(Compiled, code, tree, id) = "exempt"
<1>1. AsksNothing(Compiled[id]) /\ ~Facts(Compiled, seen, tree, id).bound
  BY DEF Bucket
<1>2. ~Facts(Compiled, code, tree, id).bound
  BY <1>1, FactsMean
<1> QED BY <1>1, <1>2 DEF Bucket

\* A pass that leaves out tests resolves no gap the whole check would not.
LEMMA NoGapResolvedUnseen ==
  ASSUME LoopInv, HygieneClean(Compiled, tree), NEW executed, NEW served
  PROVE  ResolvedGaps(Compiled, Seen(code, executed, served), tree)
           \subseteq ResolvedGaps(Compiled, code, tree)
<1> DEFINE seen == Seen(code, executed, served)
           bs == Buckets(Compiled, seen, tree)
           bc == Buckets(Compiled, code, tree)
<1>1. \A id \in DOMAIN Compiled :
        /\ bs[id] = "covered" => bc[id] = "covered"
        /\ bs[id] = "exempt" => bc[id] = "exempt"
  BY CoveredIsWhole, ExemptAnyway DEF Buckets
<1> HIDE DEF seen, bs, bc
<1>2. ASSUME NEW id \in Gapped(tree), GapState(Compiled, bs, id, tree.gaps[id]) = "resolved"
      PROVE  GapState(Compiled, bc, id, tree.gaps[id]) = "resolved"
  <2> DEFINE gap == tree.gaps[id]
  <2>1. id \in DOMAIN Compiled
    BY DEF HygieneClean
  <2>2. LandsHolds(Compiled, bs, gap.lands) => LandsHolds(Compiled, bc, gap.lands)
    BY <1>1 DEF LandsHolds
  <2>3. \/ bs[id] = "covered" /\ ~ManualUnfired(gap.lands)
        \/ bs[id] = "exempt" /\ LandsHolds(Compiled, bs, gap.lands)
    BY <1>2, <2>1 DEF GapState
  <2> HIDE DEF gap
  <2>4. \/ bc[id] = "covered" /\ ~ManualUnfired(gap.lands)
        \/ bc[id] = "exempt" /\ LandsHolds(Compiled, bc, gap.lands)
    BY <1>1, <2>1, <2>2, <2>3
  <2> QED BY <2>1, <2>4 DEF GapState, gap
<1> QED BY <1>2 DEF ResolvedGaps, bs, bc, seen

\* Whatever the cache serves, a scoped pass says of its requirements what the
\* whole check says and forgives elsewhere only tests it left out, and a pass
\* over any part of the tests resolves no gap that the whole check would not.
THEOREM ScopesSayTheSame == Spec => []ScopesAgree
<1>1. ASSUME LoopInv PROVE ScopesAgree
  <2> SUFFICES ASSUME Clean, HygieneClean(Compiled, tree), NEW served \in SUBSET Syms
               PROVE  /\ \A ids \in SUBSET Declared(tree.docs) :
                           ScopedCheckPasses(Compiled, code, tree, ids, served) =>
                             LET granted ==
                                   Granted(Seen(code, ScopeSubjects(tree, ids), served)) IN
                             /\ ids \cap Violations(Compiled, code, tree) = {}
                             /\ \A id \in Violations(Compiled, granted, tree) :
                                  Bucket(Compiled, granted, tree, id) \in {"uncovered", "partial"}
                      /\ \A executed \in SUBSET Syms :
                           ResolvedGaps(Compiled, Seen(code, executed, served), tree)
                             \subseteq ResolvedGaps(Compiled, code, tree)
    BY DEF ScopesAgree
  <2>1. ASSUME NEW ids \in SUBSET Declared(tree.docs),
               ScopedCheckPasses(Compiled, code, tree, ids, served)
        PROVE  ids \cap Violations(Compiled, code, tree) = {}
    BY <1>1, <2>1, ScopedIsWhole DEF Violations
  <2>2. ASSUME NEW ids \in SUBSET Declared(tree.docs),
               ScopedCheckPasses(Compiled, code, tree, ids, served),
               NEW id \in Violations(Compiled, Granted(Seen(code, ScopeSubjects(tree, ids), served)),
                                     tree)
        PROVE  Bucket(Compiled, Granted(Seen(code, ScopeSubjects(tree, ids), served)), tree, id)
                 \in {"uncovered", "partial"}
    BY <1>1, <2>2, ForgivenIsUnrun
  <2> QED BY <1>1, <2>1, <2>2, NoGapResolvedUnseen
<1> QED BY LoopInvariant, <1>1, PTL

=============================================================================
