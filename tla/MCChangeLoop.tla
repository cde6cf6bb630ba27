----------------------------- MODULE MCChangeLoop -----------------------------
EXTENDS ChangeLoop, TLC

CONSTANTS r1, r2, s1, s2, f1, d1, p1, p2

MCMember == [s \in {s1, s2} |-> IF s = s1 THEN "TestOne" ELSE "TestTwo"]
NoOverride == <<>>
MCFileOf == [r \in {r1, r2} |-> f1]
MCDocOf == [r \in {r1, r2} |-> d1]

Text(words, keyword, clauses, kind, pointers, layout, supersedes) ==
  [words |-> words, keyword |-> keyword, clauses |-> clauses, kind |-> kind,
   pointers |-> pointers, layout |-> layout, supersedes |-> supersedes]

Plain == Text("a", "must", {}, "behavior", {}, 1, {})
Pointing == Text("a", "must", {}, "behavior", {"TestOne"}, 1, {})
Clauses == Text("b", "must", {1, 2}, "invariant", {}, 1, {})
Should == Text("c", "should", {}, "behavior", {}, 1, {})
May == Text("d", "may", {}, "behavior", {}, 1, {})
Heir == Text("a", "must", {}, "behavior", {}, 1, {r1})
Reflowed == Text("a", "must", {}, "behavior", {}, 2, {})

MCTexts == {Plain, Clauses, Should, Heir, Reflowed}

State(shape, class, outcome) == [shape |-> shape, class |-> class, outcome |-> outcome]
Passing == State(1, "example", "passed")
MCCodeStates == {Passing, State(2, "property", "passed"), State(1, "example", "failed"),
                 State(1, "example", "outside"), State(0, "example", "none")}
MCCodes == {[s \in {s1, s2} |-> IF s = s1 THEN Passing ELSE State(2, "property", "passed")]}

MCMoves == {s1 :> s2}

Ask(r, s, role, clause) == [file |-> f1, req |-> r, sym |-> s, role |-> role, clause |-> clause]
MCClaimable == {{Ask(r2, s1, "tests", 0)},
                {Ask(r1, s2, "tests", 1), Ask(r1, s2, "tests", 2)}}

Lands(form, target) == [form |-> form, target |-> target, fired |-> FALSE]
MCGapTerms == {[lands |-> Lands("covered", r1), excuses |-> {"uncovered", "broken"}],
               [lands |-> Lands("manual", None), excuses |-> {"stale"}]}

Claim(r, s, t, shape) ==
  [file |-> f1, req |-> r, sym |-> s, role |-> "tests", clause |-> 0,
   pin |-> Content(t, 0), src |-> t, shape |-> shape]
NoRecords == [r \in {r1, r2} |-> None]
GapFor(t, lands) == [lands |-> lands, excuses |-> {}, pin |-> Content(t, 0), src |-> t]

\* A covered requirement beside one that is not there yet.
Started == [docs |-> [r \in {r1, r2} |-> IF r = r1 THEN Plain ELSE None],
            claims |-> {Claim(r1, s1, Plain, 1)}, gaps |-> NoRecords, atts |-> NoRecords,
            tombs |-> {}]
\* A requirement whose text names its test, beside one deferred to it.
Deferred == [docs |-> [r \in {r1, r2} |-> IF r = r1 THEN Pointing ELSE May],
             claims |-> {Claim(r1, s1, Pointing, 1)},
             gaps |-> [r \in {r1, r2} |-> IF r = r1 THEN None
                                           ELSE GapFor(May, Lands("covered", r1))],
             atts |-> NoRecords, tombs |-> {}]
MCTrees == {Started, Deferred}

Symmetry == Permutations({p1, p2})
=============================================================================
