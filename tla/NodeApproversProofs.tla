------------------------ MODULE NodeApproversProofs ------------------------
(***************************************************************************)
(* Proofs about NodeApprovers, for any KEPs, OWNERS files and aliases, any *)
(* number of tests and changes, and any sequence of tags.                  *)
(***************************************************************************)
EXTENDS NodeApprovers, FiniteSetTheorems, TLAPS

\* Between walks nothing is left over.
RestInv ==
    /\ pc # "walk" => todo = {}
    /\ pc \in {"idle", "aliases", "error"} => violations = {}

\* The KEPs that the present test visits.
Scope == IF test = "owners" THEN KEPs ELSE NodeKEPs

\* What a test that has passed has seen of the tree.
Clean(p) ==
    /\ p.test = "owners" =>
         \A i \in KEPs : ~ownersError(kep[i], owners[i]) /\ verifyKEP(kep[i], owners[i]) = {}
    /\ p.test = "techleads" =>
         \A i \in NodeKEPs : /\ kep[i] \notin {Malformed, Unreadable}
                             /\ VerifyTechLeadApprovers(kep[i], p.upcoming) = {}

\* The walk has found nothing so far: what it has visited is clean.
CleanInv ==
    /\ pc = "walk" /\ violations = {} =>
         \A i \in Scope \ todo : ~verifyError(i) /\ verify(i) = {}
    /\ \A p \in passed : Clean(p)

\* A step that leaves the repository alone changes no verdict of verifyKEP and
\* VerifyTechLeadApprovers.
LEMMA SameVerdicts ==
  ASSUME UNCHANGED repository
  PROVE  /\ \A k, o : verifyKEP(k, o)' = verifyKEP(k, o)
         /\ \A k, u : VerifyTechLeadApprovers(k, u)' = VerifyTechLeadApprovers(k, u)
  <1>1. techLeads' = techLeads
    BY DEF techLeads, repository
  <1>2. \A k, o : Compare(k, o)' = Compare(k, o)
    BY <1>1 DEF Compare
  <1>3. \A k, o : verifyKEP(k, o)' = verifyKEP(k, o)
    BY <1>2 DEF verifyKEP
  <1>4. \A k, u : VerifyTechLeadApprovers(k, u)' = VerifyTechLeadApprovers(k, u)
    BY <1>1 DEF VerifyTechLeadApprovers
  <1> QED
    BY <1>3, <1>4

\* The variables have their types, and between walks nothing is left over.
LEMMA TypeStep == TypeOK /\ RestInv /\ [Next]_vars => (TypeOK /\ RestInv)'
  <1> SUFFICES ASSUME TypeOK, RestInv, [Next]_vars PROVE (TypeOK /\ RestInv)'
    OBVIOUS
  <1> USE DEF TypeOK, RestInv, repository
  <1>1. CASE TestNodeApprovers
    BY <1>1, NodeBounds DEF TestNodeApprovers
  <1>2. CASE TestNodeTechLeadApprovers
    <2>1. upcoming' \in Nat
      BY <1>2, PageShowsRelease DEF TestNodeTechLeadApprovers, FetchUpcomingMinor, Fallback
    <2> QED
      BY <1>2, <2>1, NodeBounds DEF TestNodeTechLeadApprovers
  <1>3. CASE LoadTechLeads
    BY <1>3, NodeFiles DEF LoadTechLeads
  <1>4. CASE VisitKEP
    BY <1>4 DEF VisitKEP
  <1>5. CASE Report
    BY <1>5 DEF Report
  <1>6. CASE Exit
    BY <1>6 DEF Exit, Ended
  <1>7. CASE Merge
    <2>1. kep' \in [KEPs -> Docs] /\ owners' \in [KEPs -> OwnersFiles] /\ aliases' \in AliasFiles
      BY <1>7 DEF Merge
    <2> QED
      BY <1>7, <2>1, NodeBounds DEF Merge
  <1>8. CASE CutTag
    <2>1. tags' \in [Minors -> 0 .. MaxTags]
      BY <1>8, PageShowsRelease DEF CutTag
    <2> QED
      BY <1>8, <2>1 DEF CutTag
  <1>9. CASE UNCHANGED vars
    BY <1>9 DEF vars
  <1> QED
    BY <1>1, <1>2, <1>3, <1>4, <1>5, <1>6, <1>7, <1>8, <1>9 DEF Next, Step

\* The tests keep their types, and a walk that fails has no report (walkKEPs
\* returns nil with the error, verify.go:162).
THEOREM TypeCorrect == Spec => [](TypeOK /\ RestInv)
  <1>1. Init => TypeOK /\ RestInv
    <2> SUFFICES ASSUME Init PROVE TypeOK /\ RestInv
      OBVIOUS
    <2>1. /\ kep \in [KEPs -> Docs] /\ owners \in [KEPs -> OwnersFiles] /\ aliases \in AliasFiles
          /\ tags \in [Minors -> 0 .. MaxTags]
      BY RepositoriesHaveFiles DEF Init
    <2> QED
      BY <2>1, NodeBounds DEF Init, TypeOK, RestInv
  <1> QED
    BY <1>1, TypeStep, PTL DEF Spec

----------------------------------------------------------------------------
(* What a test that passes has seen. *)

\* Every step keeps CleanInv: a merge forgets the tests that were passed, and any
\* other step leaves the verdicts as they are.
LEMMA CleanStep == test \in {"owners", "techleads"} /\ CleanInv /\ [Next]_vars => CleanInv'
  <1> SUFFICES ASSUME test \in {"owners", "techleads"}, CleanInv, [Next]_vars PROVE CleanInv'
    OBVIOUS
  <1>1. ASSUME UNCHANGED repository PROVE \A p : Clean(p)' <=> Clean(p)
    BY <1>1, SameVerdicts DEF Clean, repository, ownersError
  <1>2. ASSUME UNCHANGED repository, UNCHANGED <<test, upcoming>>
        PROVE  \A i : verify(i)' = verify(i) /\ (verifyError(i)' <=> verifyError(i))
    BY <1>2, SameVerdicts DEF verify, verifyError, ownersError, repository
  <1>3. CASE TestNodeApprovers \/ TestNodeTechLeadApprovers \/ Exit
    <2>1. UNCHANGED repository /\ UNCHANGED passed /\ pc' # "walk"
      BY <1>3 DEF TestNodeApprovers, TestNodeTechLeadApprovers, Exit
    <2> QED
      BY <1>1, <2>1 DEF CleanInv
  <1>4. CASE LoadTechLeads
    <2>1. /\ UNCHANGED repository /\ UNCHANGED passed /\ UNCHANGED test
          /\ pc' = "walk" => todo' = Scope
      BY <1>4 DEF LoadTechLeads, Scope
    <2>2. Scope' = Scope
      BY <2>1 DEF Scope
    <2> QED
      BY <1>1, <2>1, <2>2 DEF CleanInv
  <1>5. CASE VisitKEP
    <2>1. /\ UNCHANGED repository /\ UNCHANGED passed /\ UNCHANGED <<test, upcoming>>
          /\ pc = "walk"
      BY <1>5 DEF VisitKEP
    <2>2. PICK i \in todo :
            IF verifyError(i)
            THEN pc' = "error" /\ todo' = {} /\ violations' = {}
            ELSE /\ pc' = pc /\ todo' = todo \ {i}
                 /\ violations' = violations \cup {<<i, v>> : v \in verify(i)}
      BY <1>5 DEF VisitKEP
    <2>3. ASSUME pc' = "walk", violations' = {}, NEW j \in Scope \ todo'
          PROVE  ~verifyError(j) /\ verify(j) = {}
      <3>1. ~verifyError(i) /\ violations = {} /\ todo' = todo \ {i} /\ {<<i, v>> : v \in verify(i)} = {}
        BY <2>2, <2>3
      <3>2. verify(i) = {}
        BY <3>1
      <3> QED
        BY <2>1, <2>3, <3>1, <3>2 DEF CleanInv
    <2>4. Scope' = Scope
      BY <2>1 DEF Scope
    <2> QED
      BY <1>1, <1>2, <2>1, <2>3, <2>4 DEF CleanInv
  <1>6. CASE Report
    <2>1. /\ UNCHANGED repository /\ UNCHANGED <<test, upcoming>> /\ pc' # "walk"
          /\ pc = "walk" /\ todo = {}
          /\ violations # {} => passed' = passed
          /\ violations = {} => passed' = passed \cup {[test |-> test, upcoming |-> upcoming]}
      BY <1>6 DEF Report
    <2>2. ASSUME violations = {} PROVE Clean([test |-> test, upcoming |-> upcoming])
      <3>1. \A i \in Scope : ~verifyError(i) /\ verify(i) = {}
        BY <2>1, <2>2 DEF CleanInv
      <3>2. CASE test = "owners"
        BY <3>1, <3>2 DEF Clean, Scope, verify, verifyError
      <3>3. CASE test = "techleads"
        BY <3>1, <3>3 DEF Clean, Scope, verify, verifyError
      <3> QED
        BY <3>2, <3>3
    <2> QED
      BY <1>1, <2>1, <2>2 DEF CleanInv
  <1>7. CASE Merge
    BY <1>7 DEF Merge, CleanInv
  <1>8. CASE CutTag \/ UNCHANGED vars
    <2>1. UNCHANGED repository /\ UNCHANGED <<test, upcoming, passed, pc, todo, violations>>
      BY <1>8 DEF CutTag, vars, repository
    <2>2. Scope' = Scope
      BY <2>1 DEF Scope
    <2> QED
      BY <1>1, <1>2, <2>1, <2>2 DEF CleanInv
  <1> QED
    BY <1>3, <1>4, <1>5, <1>6, <1>7, <1>8 DEF Next, Step

\* A tree that is clean for both tests has only tech leads as approvers in the OWNERS of
\* an alpha KEP for a coming release: verifyKEP and VerifyTechLeadApprovers together.
LEMMA CleanAlpha == CleanInv => OnlyTechLeadsApproveAlpha
  <1> SUFFICES ASSUME CleanInv, NEW p \in passed, NEW q \in passed,
                      p.test = "owners", q.test = "techleads",
                      NEW i \in NodeKEPs, ~Skipped(kep[i]), activelyAlpha(kep[i], q.upcoming),
                      owners[i] # NotExist
               PROVE  {normalizeUser(u) : u \in owners[i].approvers} \subseteq techLeads
    BY DEF OnlyTechLeadsApproveAlpha
  <1> DEFINE approvers == {normalizeUser(u) : u \in owners[i].approvers}
  <1>1. Compare(kep[i], owners[i]) = {} /\ VerifyTechLeadApprovers(kep[i], q.upcoming) = {}
    BY NodeFiles DEF CleanInv, Clean, verifyKEP
  <1>2. \A u \in approvers \ assignedApprovers(kep[i]) : u \in techLeads
    <2> DEFINE unmarked == {u \in approvers \ assignedApprovers(kep[i]) :
                              u \notin techLeads \/ u \notin listedApprovers(kep[i])}
    <2>1. Violations("approver", unmarked, "not annotated") = {}
      BY <1>1 DEF Compare
    <2>2. unmarked = {}
      <3> HIDE DEF unmarked
      <3> QED
        BY <2>1 DEF Violations
    <2> HIDE DEF approvers
    <2> QED
      BY <2>2
  <1>3. assignedApprovers(kep[i]) \subseteq techLeads
    <2>1. Entries(kep[i].approvers) # {}
      BY <1>1 DEF VerifyTechLeadApprovers, Violations
    <2> QED
      BY <1>1, <2>1 DEF VerifyTechLeadApprovers, Violations
  <1> QED
    BY <1>2, <1>3

\* On a tree that has passed both tests nobody but a tech lead is an approver in
\* the OWNERS of an alpha KEP for a coming release: who is marked is a tech lead by
\* VerifyTechLeadApprovers (verify.go:490), and who is not marked may be in OWNERS
\* only as a tech lead (verify.go:289).
THEOREM AlphaIsForTechLeads == Spec => []OnlyTechLeadsApproveAlpha
  <1>1. Init => CleanInv
    BY DEF Init, CleanInv
  <1>2. TypeOK => test \in {"owners", "techleads"}
    BY DEF TypeOK
  <1> QED
    BY <1>1, <1>2, CleanStep, CleanAlpha, TypeCorrect, PTL DEF Spec

----------------------------------------------------------------------------
(* The tags of kubernetes/kubernetes. *)

NewerTags(t) == {s \in Tags : Newer(s, t)}

\* A tag is a minor version and a number; there are finitely many tags.
LEMMA TagFacts ==
  ASSUME TypeOK
  PROVE  /\ IsFiniteSet(Tags)
         /\ \A t \in Tags : /\ t = <<t[1], t[2]>> /\ t[1] \in Minors /\ t[1] \in Nat /\ t[2] \in Nat
                            /\ 1 <= t[2] /\ t[2] <= tags[t[1]]
         /\ \A m \in Minors : \A n \in Nat : 1 <= n /\ n <= tags[m] => <<m, n>> \in Tags
         /\ \A m \in Minors : tags[m] \in Nat /\ tags[m] <= MaxTags
  <1>1. IsFiniteSet(Minors \X (1 .. MaxTags))
    <2>1. IsFiniteSet(1 .. MaxTags)
      BY FS_Interval, PageShowsRelease
    <2> QED
      BY <2>1, FS_Product, PageShowsRelease
  <1>2. Tags \in SUBSET (Minors \X (1 .. MaxTags))
    BY DEF Tags
  <1>3. IsFiniteSet(Tags)
    BY <1>1, <1>2, FS_Subset
  <1>4. \A m \in Minors : tags[m] \in Nat /\ tags[m] <= MaxTags
    BY PageShowsRelease DEF TypeOK
  <1>5. \A t \in Tags : /\ t = <<t[1], t[2]>> /\ t[1] \in Minors /\ t[1] \in Nat /\ t[2] \in Nat
                        /\ 1 <= t[2] /\ t[2] <= tags[t[1]]
    <2> SUFFICES ASSUME NEW t \in Tags
                 PROVE  /\ t = <<t[1], t[2]>> /\ t[1] \in Minors /\ t[1] \in Nat /\ t[2] \in Nat
                        /\ 1 <= t[2] /\ t[2] <= tags[t[1]]
      OBVIOUS
    <2>1. t \in Minors \X (1 .. MaxTags) /\ t[2] <= tags[t[1]]
      BY DEF Tags
    <2>2. t = <<t[1], t[2]>> /\ t[1] \in Minors /\ t[2] \in 1 .. MaxTags
      BY <2>1
    <2>3. \A n \in 1 .. MaxTags : n \in Nat /\ 1 <= n
      BY PageShowsRelease
    <2>4. Minors \subseteq Nat
      BY PageShowsRelease
    <2> QED
      BY <2>1, <2>2, <2>3, <2>4, Zenon
  <1>6. ASSUME NEW m \in Minors, NEW n \in Nat, 1 <= n, n <= tags[m] PROVE <<m, n>> \in Tags
    BY <1>4, <1>6, PageShowsRelease DEF Tags
  <1> QED
    BY <1>3, <1>4, <1>5, <1>6

\* The page has every tag that is newer than one on it.
LEMMA PageIsNewest ==
  ASSUME TypeOK, NEW t \in Page, NEW s \in Tags, Newer(s, t)
  PROVE  s \in Page
  <1>1. t \in Tags /\ Cardinality(NewerTags(t)) < PerPage
    BY DEF Page, NewerTags
  <1>2. NewerTags(s) \subseteq NewerTags(t)
    <2> SUFFICES ASSUME NEW r \in Tags, Newer(r, s) PROVE Newer(r, t)
      BY DEF NewerTags
    <2> QED
      BY <1>1, TagFacts DEF Newer
  <1>3. IsFiniteSet(NewerTags(t))
    BY TagFacts, FS_Subset DEF NewerTags
  <1>4. /\ IsFiniteSet(NewerTags(s)) /\ Cardinality(NewerTags(s)) <= Cardinality(NewerTags(t))
    BY <1>2, <1>3, FS_Subset
  <1>5. Cardinality(NewerTags(s)) \in Nat /\ Cardinality(NewerTags(t)) \in Nat
    BY <1>3, <1>4, FS_CardinalityType
  <1>6. Cardinality(NewerTags(s)) < PerPage
    BY <1>1, <1>4, <1>5, PageShowsRelease
  <1> QED
    BY <1>6 DEF Page, NewerTags

\* The highest minor version on the page is the highest that has a tag.
LEMMA HighestMinor ==
  ASSUME TypeOK, NEW m \in Minors, maxMinor(m)
  PROVE  tags[m] > 0 /\ \A n \in Minors : tags[n] > 0 => n <= m
  <1>1. PICK t \in Page : t[1] = m
    BY DEF maxMinor, seen
  <1>2. t \in Tags
    BY DEF Page
  <1>3. tags[m] > 0
    BY <1>1, <1>2, TagFacts
  <1>4. ASSUME NEW n \in Minors, tags[n] > 0, ~(n <= m) PROVE FALSE
    <2>1. <<n, 1>> \in Tags /\ n \in Nat /\ m \in Nat
      BY <1>4, TagFacts, PageShowsRelease
    <2>2. Newer(<<n, 1>>, t)
      BY <1>1, <1>4, <2>1 DEF Newer
    <2>3. n \in seen
      BY <2>1, <2>2, PageIsNewest DEF seen
    <2> QED
      BY <1>4, <2>3 DEF maxMinor
  <1> QED
    BY <1>3, <1>4

\* FetchUpcomingMinor takes the highest minor version for released exactly when it
\* has a candidate: the page shows its release under all of its patches.
LEMMA ReleasedMinor ==
  ASSUME TypeOK, NEW m \in Minors, maxMinor(m)
  PROVE  m \in released <=> tags[m] >= Candidate
  <1>1. ASSUME m \in released PROVE tags[m] >= Candidate
    <2>1. PICK t \in Page : t[1] = m /\ t[2] \in {Candidate, Release}
      BY <1>1 DEF released
    <2>2. t \in Tags
      BY DEF Page
    <2> QED
      BY <2>1, <2>2, TagFacts DEF Candidate, Release
  <1>2. CASE tags[m] >= Release
    <2> DEFINE t == <<m, Release>>
    <2>1. t \in Tags
      BY <1>2, TagFacts DEF Release
    <2>2. NewerTags(t) \subseteq {m} \X (Release + 1 .. MaxTags)
      <3> SUFFICES ASSUME NEW s \in Tags, Newer(s, t) PROVE s \in {m} \X (Release + 1 .. MaxTags)
        BY DEF NewerTags
      <3>1. /\ s = <<s[1], s[2]>> /\ s[1] \in Minors /\ s[1] \in Nat /\ s[2] \in Nat /\ m \in Nat
            /\ 1 <= s[2] /\ s[2] <= tags[s[1]] /\ tags[s[1]] \in Nat /\ tags[s[1]] <= MaxTags
        BY TagFacts, PageShowsRelease
      <3>2. s[1] <= m
        BY <3>1, HighestMinor
      <3>3. s[1] = m /\ s[2] > Release /\ s[2] <= MaxTags
        BY <3>1, <3>2, PageShowsRelease DEF Newer, Release
      <3>4. s[2] \in Release + 1 .. MaxTags
        BY <3>1, <3>3, PageShowsRelease DEF Release
      <3> QED
        BY <3>1, <3>3, <3>4
    <2>3. /\ IsFiniteSet({m} \X (Release + 1 .. MaxTags))
          /\ Cardinality({m} \X (Release + 1 .. MaxTags)) < PerPage
      <3>1. /\ IsFiniteSet(Release + 1 .. MaxTags)
            /\ Cardinality(Release + 1 .. MaxTags) = IF Release + 1 > MaxTags THEN 0 ELSE MaxTags - Release
        <4>1. Release + 1 \in Int /\ MaxTags \in Int /\ Release \in Int
          BY PageShowsRelease DEF Release
        <4>2. /\ IsFiniteSet(Release + 1 .. MaxTags)
              /\ Cardinality(Release + 1 .. MaxTags) =
                   IF Release + 1 > MaxTags THEN 0 ELSE MaxTags - (Release + 1) + 1
          BY <4>1, FS_Interval, Zenon
        <4>3. MaxTags - (Release + 1) + 1 = MaxTags - Release
          BY <4>1
        <4> QED
          BY <4>2, <4>3, Zenon
      <3>2. IsFiniteSet({m}) /\ Cardinality({m}) = 1
        BY FS_Singleton
      <3>3. /\ IsFiniteSet({m} \X (Release + 1 .. MaxTags))
            /\ Cardinality({m} \X (Release + 1 .. MaxTags)) = 1 * Cardinality(Release + 1 .. MaxTags)
        BY <3>1, <3>2, FS_Product
      <3>4. Cardinality(Release + 1 .. MaxTags) < PerPage
        <4>1. Page # {}
          BY DEF maxMinor, seen
        <4>2. PICK r \in Tags : Cardinality(NewerTags(r)) < PerPage
          BY <4>1 DEF Page, NewerTags
        <4>3. Cardinality(NewerTags(r)) \in Nat
          BY TagFacts, FS_Subset, FS_CardinalityType DEF NewerTags
        <4>4. PerPage > 0
          BY <4>2, <4>3, PageShowsRelease
        <4> QED
          BY <3>1, <4>4, PageShowsRelease DEF Release
      <3>5. Cardinality(Release + 1 .. MaxTags) \in Nat
        BY <3>1, FS_CardinalityType
      <3> QED
        BY <3>3, <3>4, <3>5
    <2>4. IsFiniteSet(NewerTags(t))
      BY TagFacts, FS_Subset DEF NewerTags
    <2>5. Cardinality(NewerTags(t)) <= Cardinality({m} \X (Release + 1 .. MaxTags))
      BY <2>2, <2>3, FS_Subset
    <2>6. /\ Cardinality(NewerTags(t)) \in Nat
          /\ Cardinality({m} \X (Release + 1 .. MaxTags)) \in Nat
      BY <2>3, <2>4, FS_CardinalityType
    <2>7. Cardinality(NewerTags(t)) < PerPage
      BY <2>3, <2>5, <2>6, PageShowsRelease
    <2>8. t \in Page
      BY <2>1, <2>7 DEF Page, NewerTags
    <2>9. m \in released
      BY <2>8 DEF released
    <2>10. tags[m] >= Candidate
      BY <1>2, TagFacts DEF Release, Candidate
    <2> QED
      BY <2>9, <2>10
  <1>3. CASE tags[m] = Candidate
    <2>1. PICK t \in Page : t[1] = m
      BY DEF maxMinor, seen
    <2>2. t \in Tags /\ t = <<m, t[2]>> /\ t[2] \in Nat /\ t[2] <= Candidate
      BY <1>3, <2>1, TagFacts DEF Page
    <2>3. <<m, Candidate>> \in Tags
      BY <1>3, TagFacts DEF Candidate
    <2>4. <<m, Candidate>> \in Page
      <3>1. CASE t[2] = Candidate
        BY <2>1, <2>2, <3>1
      <3>2. CASE t[2] # Candidate
        <4>1. Newer(<<m, Candidate>>, t)
          BY <2>1, <2>2, <3>2 DEF Newer, Candidate
        <4> QED
          BY <2>3, <4>1, PageIsNewest
      <3> QED
        BY <3>1, <3>2
    <2>5. m \in released
      BY <2>4 DEF released
    <2> QED
      BY <2>5, <1>3 DEF Candidate
  <1>4. CASE tags[m] < Candidate
    BY <1>1, <1>4, TagFacts DEF Candidate
  <1> QED
    BY <1>2, <1>3, <1>4, TagFacts DEF Candidate, Release

----------------------------------------------------------------------------
(* Releases. *)

\* An upcoming version that the tags have once justified; it remains so.
Justified(u) ==
    \E m \in Minors : \/ u = m /\ tags[m] > 0
                      \/ u = m + 1 /\ tags[m] >= Candidate

\* The minor version that FetchUpcomingMinor returns is justified, has no
\* candidate, and is not below any version that was justified before.
LEMMA FetchFacts ==
  ASSUME TypeOK, NEW m \in Minors, maxMinor(m)
  PROVE  LET u == FetchUpcomingMinor(m)
         IN  /\ Justified(u) /\ u # Fallback
             /\ \A v : Justified(v) => v <= u
             /\ \A n \in Minors : u = n => tags[n] < Candidate
  <1> DEFINE u == FetchUpcomingMinor(m)
  <1>1. m \in Nat /\ m # Fallback /\ m + 1 # Fallback
    BY PageShowsRelease DEF Fallback
  <1>2. /\ tags[m] > 0 /\ \A n \in Minors : tags[n] > 0 => n <= m
        /\ m \in released <=> tags[m] >= Candidate
    BY HighestMinor, ReleasedMinor
  <1>3. \A n \in Minors : tags[n] \in Nat /\ n \in Nat
    BY TagFacts, PageShowsRelease
  <1>4. CASE m \in released
    <2>1. u = m + 1
      BY <1>4 DEF FetchUpcomingMinor
    <2>2. Justified(u)
      BY <1>2, <1>4, <2>1 DEF Justified
    <2>3. ASSUME NEW v, Justified(v) PROVE v <= u
      BY <1>1, <1>2, <1>3, <2>1, <2>3 DEF Justified, Candidate
    <2>4. ASSUME NEW n \in Minors, u = n PROVE tags[n] < Candidate
      BY <1>1, <1>2, <1>3, <2>1, <2>4 DEF Candidate
    <2> HIDE DEF u
    <2> QED
      BY <1>1, <2>1, <2>2, <2>3, <2>4 DEF u
  <1>5. CASE m \notin released
    <2>1. u = m
      BY <1>5 DEF FetchUpcomingMinor
    <2>2. Justified(u)
      BY <1>2, <2>1 DEF Justified
    <2>3. ASSUME NEW v, Justified(v) PROVE v <= u
      <3>1. PICK n \in Minors : \/ v = n /\ tags[n] > 0
                                \/ v = n + 1 /\ tags[n] >= Candidate
        BY <2>3 DEF Justified
      <3>2. n <= m
        BY <1>2, <1>3, <3>1 DEF Candidate
      <3>3. CASE v = n
        BY <3>2, <3>3, <2>1
      <3>4. CASE v = n + 1 /\ tags[n] >= Candidate
        <4>1. n # m
          BY <1>2, <1>5, <3>4
        <4> QED
          BY <1>1, <1>3, <3>2, <3>4, <4>1, <2>1
      <3> QED
        BY <3>1, <3>3, <3>4
    <2>4. ASSUME NEW n \in Minors, u = n PROVE tags[n] < Candidate
      BY <1>2, <1>3, <1>5, <2>1, <2>4 DEF Candidate
    <2> HIDE DEF u
    <2> QED
      BY <1>1, <2>1, <2>2, <2>3, <2>4 DEF u
  <1> QED
    BY <1>4, <1>5

\* The version that TestNodeTechLeadApprovers gets from FetchUpcomingMinor has
\* neither a release nor a candidate (verify.go:593), whatever tags there are.
THEOREM UpcomingUnreleased == Spec => UpcomingIsUnreleased
  <1>1. TypeOK /\ [Next]_vars =>
          [\A m \in Minors : upcoming' = m /\ pc = "idle" /\ pc' = "aliases" => tags[m] < Candidate]_vars
    <2> SUFFICES ASSUME TypeOK, Next, NEW n \in Minors, upcoming' = n, pc = "idle", pc' = "aliases"
                 PROVE  tags[n] < Candidate
      OBVIOUS
    <2>1. n # 0 /\ n # Fallback
      BY PageShowsRelease DEF Fallback
    <2>2. TestNodeApprovers \/ TestNodeTechLeadApprovers
      BY DEF Next, Step, LoadTechLeads, VisitKEP, Report, Exit, Ended, Merge, CutTag
    <2>3. ~TestNodeApprovers
      BY <2>1 DEF TestNodeApprovers
    <2>4. PICK m \in Minors : maxMinor(m) /\ upcoming' = FetchUpcomingMinor(m)
      BY <2>1, <2>2, <2>3 DEF TestNodeTechLeadApprovers
    <2> QED
      BY <2>4, FetchFacts
  <1> QED
    BY <1>1, TypeCorrect, PTL DEF Spec, UpcomingIsUnreleased

\* A KEP that VerifyTechLeadApprovers accepts before a release it accepts after
\* it: what was actively alpha falls under the weaker rule (verify.go:502).
LEMMA RulesRelax ==
  ASSUME NEW k \in Docs \ {Malformed, Unreadable}, NEW u \in Nat, NEW v \in Nat, u <= v,
         VerifyTechLeadApprovers(k, u) = {}
  PROVE  VerifyTechLeadApprovers(k, v) = {}
  <1>1. activelyAlpha(k, v) => activelyAlpha(k, u)
    <2>1. parseMilestoneMinor(k.latestMilestone) \in Nat
      BY NodeFiles DEF parseMilestoneMinor
    <2> QED
      BY <2>1 DEF activelyAlpha
  <1>2. CASE Skipped(k)
    BY <1>2 DEF VerifyTechLeadApprovers
  <1>3. CASE ~Skipped(k)
    <2>1. Entries(k.approvers) # {}
      BY <1>3 DEF VerifyTechLeadApprovers, Violations
    <2>2. CASE activelyAlpha(k, v)
      BY <1>1, <1>3, <2>1, <2>2 DEF VerifyTechLeadApprovers
    <2>3. CASE ~activelyAlpha(k, v) /\ ~activelyAlpha(k, u)
      BY <1>3, <2>1, <2>3 DEF VerifyTechLeadApprovers
    <2>4. CASE ~activelyAlpha(k, v) /\ activelyAlpha(k, u)
      <3>1. listedApprovers(k) \cap techLeads # {}
        BY <1>3, <2>1, <2>4 DEF VerifyTechLeadApprovers, Violations
      <3> QED
        BY <1>3, <2>1, <2>4, <3>1 DEF VerifyTechLeadApprovers, Violations
    <2> QED
      BY <2>2, <2>3, <2>4
  <1> QED
    BY <1>2, <1>3

\* The versions that GitHub has given to the tests of this tree were justified, and
\* the present test has none below them.
VersionInv ==
    /\ \A p \in passed : p.test = "techleads" /\ p.upcoming # Fallback => Justified(p.upcoming)
    /\ pc \in {"aliases", "walk"} /\ test = "techleads" /\ upcoming # Fallback => Justified(upcoming)
    /\ pc \in {"aliases", "walk", "failed"} /\ test = "techleads" =>
         \A p \in passed : p.test = "techleads" /\ p.upcoming # Fallback => p.upcoming <= upcoming

\* A test that fails has met a KEP with violations.
BlameInv ==
    /\ pc = "walk" => todo \subseteq Scope
    /\ pc \in {"walk", "failed"} /\ violations # {} => \E i \in Scope : ~verifyError(i) /\ verify(i) # {}
    /\ pc = "failed" => violations # {}

\* Versions only grow: FetchUpcomingMinor never returns less than it did before
\* (verify.go:593), and the fallback is above them all.
LEMMA VersionStep == TypeOK /\ VersionInv /\ [Next]_vars => VersionInv'
  <1> SUFFICES ASSUME TypeOK, VersionInv, [Next]_vars PROVE VersionInv'
    OBVIOUS
  <1>1. ASSUME UNCHANGED tags PROVE \A u : Justified(u)' <=> Justified(u)
    BY <1>1 DEF Justified
  <1>2. CASE TestNodeApprovers
    <2>1. UNCHANGED tags /\ UNCHANGED passed /\ test' = "owners"
      BY <1>2 DEF TestNodeApprovers
    <2> QED
      BY <1>1, <2>1 DEF VersionInv
  <1>3. CASE TestNodeTechLeadApprovers
    <2>1. UNCHANGED tags /\ UNCHANGED passed
      BY <1>3 DEF TestNodeTechLeadApprovers
    <2>2. \A v : Justified(v) => v <= Fallback
      BY PageShowsRelease DEF Justified, Fallback
    <2>3. upcoming' = Fallback \/ \E m \in Minors : maxMinor(m) /\ upcoming' = FetchUpcomingMinor(m)
      BY <1>3 DEF TestNodeTechLeadApprovers
    <2>4. (upcoming' # Fallback => Justified(upcoming')) /\ \A v : Justified(v) => v <= upcoming'
      <3>1. CASE upcoming' = Fallback
        BY <2>2, <3>1
      <3>2. CASE \E m \in Minors : maxMinor(m) /\ upcoming' = FetchUpcomingMinor(m)
        BY <3>2, FetchFacts
      <3> QED
        BY <2>3, <3>1, <3>2
    <2>5. upcoming' # Fallback => Justified(upcoming)'
      BY <2>1, <2>4 DEF Justified
    <2>6. \A p \in passed : p.test = "techleads" /\ p.upcoming # Fallback =>
              Justified(p.upcoming) /\ p.upcoming <= upcoming'
      BY <2>4 DEF VersionInv
    <2> QED
      BY <1>1, <2>1, <2>5, <2>6 DEF VersionInv
  <1>4. CASE LoadTechLeads \/ VisitKEP \/ Exit
    <2>1. /\ UNCHANGED <<tags, passed, test, upcoming>>
          /\ pc' \in {"aliases", "walk", "failed"} => pc' = "walk" /\ pc \in {"aliases", "walk"}
      BY <1>4 DEF LoadTechLeads, VisitKEP, Exit
    <2>2. Justified(upcoming)' <=> Justified(upcoming)
      BY <2>1 DEF Justified
    <2> QED
      BY <1>1, <2>1, <2>2 DEF VersionInv
  <1>5. CASE Report
    <2>1. /\ UNCHANGED <<tags, test, upcoming>> /\ pc = "walk"
          /\ \/ pc' = "passed" /\ passed' = passed \cup {[test |-> test, upcoming |-> upcoming]}
             \/ pc' = "failed" /\ passed' = passed
      BY <1>5 DEF Report
    <2>2. \A p \in passed' : p \in passed \/ (p.test = test /\ p.upcoming = upcoming)
      BY <2>1
    <2>3. \A p \in passed' : p.test = "techleads" /\ p.upcoming # Fallback => Justified(p.upcoming)
      BY <2>1, <2>2 DEF VersionInv
    <2> QED
      BY <1>1, <2>1, <2>3 DEF VersionInv
  <1>6. CASE Merge
    BY <1>6 DEF Merge, VersionInv
  <1>7. CASE CutTag
    <2>1. UNCHANGED <<passed, pc, test, upcoming>>
      BY <1>7 DEF CutTag
    <2>2. \A n \in Minors : tags[n] \in Nat /\ tags'[n] \in Nat /\ tags[n] <= tags'[n]
      BY <1>7, TagFacts DEF CutTag, TypeOK
    <2>3. \A u : Justified(u) => Justified(u)'
      BY <2>2 DEF Justified, Candidate
    <2>4. Justified(upcoming) => Justified(upcoming)'
      BY <2>1, <2>2 DEF Justified, Candidate
    <2> QED
      BY <2>1, <2>3, <2>4 DEF VersionInv
  <1>8. CASE UNCHANGED vars
    <2>1. UNCHANGED <<tags, passed, pc, test, upcoming>>
      BY <1>8 DEF vars
    <2>2. Justified(upcoming)' <=> Justified(upcoming)
      BY <2>1 DEF Justified
    <2> QED
      BY <1>1, <2>1, <2>2 DEF VersionInv
  <1> QED
    BY <1>2, <1>3, <1>4, <1>5, <1>6, <1>7, <1>8 DEF Next, Step

\* walkKEPs collects nothing but what verify returns for a KEP it visits
\* (verify.go:154).
LEMMA BlameStep == TypeOK /\ RestInv /\ BlameInv /\ [Next]_vars => BlameInv'
  <1> SUFFICES ASSUME TypeOK, RestInv, BlameInv, [Next]_vars PROVE BlameInv'
    OBVIOUS
  <1>1. ASSUME UNCHANGED repository, UNCHANGED <<test, upcoming>>
        PROVE  /\ \A i : verify(i)' = verify(i) /\ (verifyError(i)' <=> verifyError(i))
               /\ Scope' = Scope
    BY <1>1, SameVerdicts DEF verify, verifyError, ownersError, repository, Scope
  <1>2. CASE TestNodeApprovers \/ TestNodeTechLeadApprovers \/ Exit \/ Merge
    <2>1. pc' \notin {"walk", "failed"}
      BY <1>2 DEF TestNodeApprovers, TestNodeTechLeadApprovers, Exit, Merge
    <2> QED
      BY <2>1 DEF BlameInv
  <1>3. CASE LoadTechLeads
    <2>1. /\ UNCHANGED repository /\ UNCHANGED <<test, upcoming>> /\ violations' = {}
          /\ pc' # "failed" /\ (pc' = "walk" => todo' = Scope)
      BY <1>3 DEF LoadTechLeads, RestInv, Scope
    <2> QED
      BY <1>1, <2>1 DEF BlameInv
  <1>4. CASE VisitKEP
    <2>1. UNCHANGED repository /\ UNCHANGED <<test, upcoming>> /\ pc = "walk"
      BY <1>4 DEF VisitKEP
    <2>2. PICK i \in todo :
            IF verifyError(i)
            THEN pc' = "error" /\ todo' = {} /\ violations' = {}
            ELSE /\ pc' = pc /\ todo' = todo \ {i}
                 /\ violations' = violations \cup {<<i, v>> : v \in verify(i)}
      BY <1>4 DEF VisitKEP
    <2>3. CASE verifyError(i)
      BY <2>2, <2>3 DEF BlameInv
    <2>4. CASE ~verifyError(i)
      <3>1. pc' = "walk" /\ todo' \subseteq Scope /\ i \in Scope
        BY <2>1, <2>2, <2>4 DEF BlameInv
      <3>2. violations' # {} => violations # {} \/ verify(i) # {}
        BY <2>2, <2>4
      <3>3. violations' # {} => \E j \in Scope : ~verifyError(j) /\ verify(j) # {}
        BY <2>1, <2>4, <3>1, <3>2 DEF BlameInv
      <3> QED
        BY <1>1, <2>1, <3>1, <3>3 DEF BlameInv
    <2> QED
      BY <2>3, <2>4
  <1>5. CASE Report
    <2>1. /\ UNCHANGED repository /\ UNCHANGED <<test, upcoming, violations>>
          /\ pc = "walk" /\ pc' # "walk" /\ (pc' = "failed" => violations # {})
      BY <1>5 DEF Report
    <2> QED
      BY <1>1, <2>1 DEF BlameInv
  <1>6. CASE CutTag \/ UNCHANGED vars
    <2>1. UNCHANGED repository /\ UNCHANGED <<test, upcoming, pc, todo, violations>>
      BY <1>6 DEF CutTag, vars, repository
    <2> QED
      BY <1>1, <2>1 DEF BlameInv
  <1> QED
    BY <1>2, <1>3, <1>4, <1>5, <1>6 DEF Next, Step

\* A tree that has passed TestNodeTechLeadApprovers with an answer from GitHub
\* never fails it later: the version that FetchUpcomingMinor returns only grows,
\* and with it VerifyTechLeadApprovers only becomes weaker (verify.go:478).
THEOREM PassSurvives == Spec => []PassSurvivesReleases
  <1>1. Init => CleanInv /\ VersionInv /\ BlameInv
    BY DEF Init, CleanInv, VersionInv, BlameInv
  <1>2. TypeOK /\ CleanInv /\ VersionInv /\ BlameInv => PassSurvivesReleases
    <2> SUFFICES ASSUME TypeOK, CleanInv, VersionInv, BlameInv, pc = "failed", test = "techleads",
                        NEW p \in passed, p.test = "techleads", p.upcoming # Fallback
                 PROVE  FALSE
      BY DEF PassSurvivesReleases
    <2>1. PICK i \in NodeKEPs : VerifyTechLeadApprovers(kep[i], upcoming) # {}
      BY DEF BlameInv, Scope, verify
    <2>2. kep[i] \notin {Malformed, Unreadable} /\ VerifyTechLeadApprovers(kep[i], p.upcoming) = {}
      BY DEF CleanInv, Clean
    <2>3. kep[i] \in Docs /\ p.upcoming \in Nat /\ upcoming \in Nat
      BY NodeFiles DEF TypeOK
    <2>4. p.upcoming <= upcoming
      BY DEF VersionInv
    <2> QED
      BY <2>1, <2>2, <2>3, <2>4, RulesRelax
  <1>3. TypeOK => test \in {"owners", "techleads"}
    BY DEF TypeOK
  <1> QED
    BY <1>1, <1>2, <1>3, CleanStep, VersionStep, BlameStep, TypeCorrect, PTL DEF Spec

----------------------------------------------------------------------------
(* TestNodeApprovers: its report is exact. *)

\* What the walk has collected is what the KEPs it has visited violate.
Collected ==
    /\ \A i \in Scope \ todo : ~verifyError(i) /\ \A v \in verify(i) : <<i, v>> \in violations
    /\ \A w \in violations : \E i \in Scope \ todo : \E v \in verify(i) : w = <<i, v>>

\* A test that has come to the walk could load the tech leads, and one that ends in
\* an error has met its cause.
ReportInv ==
    /\ test \in {"owners", "techleads"}
    /\ pc \in {"idle", "aliases"} => violations = {}
    /\ pc = "walk" => todo \subseteq Scope
    /\ pc \in {"passed", "failed"} => todo = {} /\ (pc = "passed" <=> violations = {})
    /\ pc \in {"walk", "passed", "failed"} => ~AliasError /\ Collected
    /\ pc = "error" => violations = {} /\ (AliasError \/ \E i \in Scope : verifyError(i))

\* A step that leaves the tree and the test alone changes no verdict.
LEMMA SameReport ==
  ASSUME UNCHANGED repository, UNCHANGED <<test, upcoming>>
  PROVE  /\ \A i : verify(i)' = verify(i) /\ (verifyError(i)' <=> verifyError(i))
         /\ Scope' = Scope /\ (AliasError' <=> AliasError)
  BY SameVerdicts DEF verify, verifyError, ownersError, repository, Scope, AliasError

\* Every step of walkKEPs and of the tests keeps ReportInv.
LEMMA ReportStep == ReportInv /\ [Next]_vars => ReportInv'
  <1> SUFFICES ASSUME ReportInv, [Next]_vars PROVE ReportInv'
    OBVIOUS
  <1>1. CASE TestNodeApprovers \/ TestNodeTechLeadApprovers
    <2>1. pc = "idle" /\ pc' = "aliases" /\ test' \in {"owners", "techleads"} /\ UNCHANGED violations
      BY <1>1 DEF TestNodeApprovers, TestNodeTechLeadApprovers
    <2> QED
      BY <2>1 DEF ReportInv
  <1>2. CASE Exit \/ Merge
    <2>1. pc' = "idle" /\ UNCHANGED test /\ (violations' = {} \/ (pc = "idle" /\ UNCHANGED violations))
      BY <1>2 DEF Exit, Merge
    <2> QED
      BY <2>1 DEF ReportInv
  <1>3. CASE LoadTechLeads
    <2>1. UNCHANGED repository /\ UNCHANGED <<test, upcoming, violations>> /\ violations = {}
      BY <1>3 DEF LoadTechLeads, ReportInv
    <2>2. CASE AliasError
      <3>1. pc' = "error"
        BY <1>3, <2>2 DEF LoadTechLeads
      <3> QED
        BY <2>1, <2>2, <3>1, SameReport DEF ReportInv
    <2>3. CASE ~AliasError
      <3>1. pc' = "walk" /\ todo' = Scope
        BY <1>3, <2>3 DEF LoadTechLeads, Scope
      <3>2. Collected'
        BY <2>1, <3>1, SameReport DEF Collected
      <3> QED
        BY <2>1, <2>3, <3>1, <3>2, SameReport DEF ReportInv
    <2> QED
      BY <2>2, <2>3
  <1>4. CASE VisitKEP
    <2>1. UNCHANGED repository /\ UNCHANGED <<test, upcoming>> /\ pc = "walk"
      BY <1>4 DEF VisitKEP
    <2>2. PICK i \in todo :
            IF verifyError(i)
            THEN pc' = "error" /\ todo' = {} /\ violations' = {}
            ELSE /\ pc' = pc /\ todo' = todo \ {i}
                 /\ violations' = violations \cup {<<i, v>> : v \in verify(i)}
      BY <1>4 DEF VisitKEP
    <2>3. i \in Scope /\ todo \subseteq Scope /\ Collected /\ ~AliasError
      BY <2>1 DEF ReportInv
    <2>4. CASE verifyError(i)
      BY <2>1, <2>2, <2>3, <2>4, SameReport DEF ReportInv
    <2>5. CASE ~verifyError(i)
      <3>1. pc' = "walk" /\ todo' = todo \ {i} /\ violations' = violations \cup {<<i, v>> : v \in verify(i)}
        BY <2>1, <2>2, <2>5
      <3>2. Scope \ todo' = (Scope \ todo) \cup {i}
        BY <2>3, <3>1
      <3>3. \A j \in Scope \ todo' : ~verifyError(j) /\ \A v \in verify(j) : <<j, v>> \in violations'
        BY <2>3, <2>5, <3>1, <3>2 DEF Collected
      <3>4. \A w \in violations' : \E j \in Scope \ todo' : \E v \in verify(j) : w = <<j, v>>
        BY <2>3, <3>1, <3>2 DEF Collected
      <3>5. Collected'
        BY <2>1, <3>3, <3>4, SameReport DEF Collected
      <3> QED
        BY <2>1, <2>3, <3>1, <3>5, SameReport DEF ReportInv
    <2> QED
      BY <2>4, <2>5
  <1>5. CASE Report
    <2>1. /\ UNCHANGED repository /\ UNCHANGED <<test, upcoming, todo, violations>> /\ pc = "walk" /\ todo = {}
          /\ pc' = IF violations = {} THEN "passed" ELSE "failed"
      BY <1>5 DEF Report
    <2>2. Collected'
      BY <2>1, SameReport DEF ReportInv, Collected
    <2> QED
      BY <2>1, <2>2, SameReport DEF ReportInv
  <1>6. CASE CutTag \/ UNCHANGED vars
    <2>1. UNCHANGED repository /\ UNCHANGED <<test, upcoming, pc, todo, violations>>
      BY <1>6 DEF CutTag, vars, repository
    <2>2. Collected' <=> Collected
      BY <2>1, SameReport DEF Collected
    <2> QED
      BY <2>1, <2>2, SameReport DEF ReportInv
  <1> QED
    BY <1>1, <1>2, <1>3, <1>4, <1>5, <1>6 DEF Next, Step

\* A test starts with nothing collected.
LEMMA ReportStarts == Init => ReportInv
  BY DEF Init, ReportInv

\* There is a violation for every person in a set.
LEMMA NoViolations ==
  ASSUME NEW role, NEW users, NEW reason
  PROVE  Violations(role, users, reason) = {} <=> users = {}
  BY DEF Violations

\* verifyKEP finds nothing exactly when kep.yaml and OWNERS agree, in both directions.
LEMMA AgreesExactly == ASSUME NEW k, NEW o PROVE verifyKEP(k, o) = {} <=> Agrees(k, o)
  <1>1. CASE o = NotExist
    <2>1. /\ Violations("reviewer", assignedReviewers(k), "OWNERS file not found") = {} <=> assignedReviewers(k) = {}
          /\ Violations("approver", assignedApprovers(k), "OWNERS file not found") = {} <=> assignedApprovers(k) = {}
      BY NoViolations, Zenon
    <2>2. Unowned(k) = {} <=> assignedReviewers(k) = {} /\ assignedApprovers(k) = {}
      BY <2>1 DEF Unowned
    <2> QED
      BY <1>1, <2>2 DEF verifyKEP, Agrees
  <1>2. CASE o # NotExist
    <2> DEFINE reviewers == {normalizeUser(u) : u \in o.reviewers}
               approvers == {normalizeUser(u) : u \in o.approvers}
               AR == assignedReviewers(k)
               AA == assignedApprovers(k)
               LA == listedApprovers(k)
               unmarked == {u \in approvers \ AA : u \notin techLeads \/ u \notin LA}
    <2>1. Compare(k, o) = Violations("reviewer", AR \ reviewers, "not listed in OWNERS")
                            \cup Violations("approver", AA \ approvers, "not listed in OWNERS")
                            \cup Violations("reviewer", reviewers \ AR, "not annotated")
                            \cup Violations("approver", unmarked, "not annotated")
      BY DEF Compare
    <2>2. Agrees(k, o) <=> AR = reviewers /\ approvers = AA \cup (approvers \cap techLeads \cap LA)
      BY <1>2 DEF Agrees
    <2>3. unmarked = {} <=> \A u \in approvers : u \in AA \/ (u \in techLeads /\ u \in LA)
      <3> HIDE DEF approvers, AA, LA
      <3> QED
        OBVIOUS
    <2> HIDE DEF reviewers, approvers, AR, AA, LA, unmarked
    <2>4. Compare(k, o) = {} <=> AR \ reviewers = {} /\ AA \ approvers = {} /\ reviewers \ AR = {} /\ unmarked = {}
      <3>1. /\ Violations("reviewer", AR \ reviewers, "not listed in OWNERS") = {} <=> AR \ reviewers = {}
            /\ Violations("approver", AA \ approvers, "not listed in OWNERS") = {} <=> AA \ approvers = {}
            /\ Violations("reviewer", reviewers \ AR, "not annotated") = {} <=> reviewers \ AR = {}
            /\ Violations("approver", unmarked, "not annotated") = {} <=> unmarked = {}
        BY NoViolations, Zenon
      <3> QED
        BY <2>1, <3>1
    <2>5. Compare(k, o) = {} <=> Agrees(k, o)
      BY <2>2, <2>3, <2>4
    <2> QED
      BY <1>2, <2>5 DEF verifyKEP
  <1> QED
    BY <1>1, <1>2

\* With ReportInv the report of TestNodeApprovers is exact.
LEMMA ReportExact == ReportInv => OwnersReportIsExact
  <1> SUFFICES ASSUME ReportInv, test = "owners", Ended PROVE OwnersReportIsExact
    BY DEF OwnersReportIsExact
  <1> DEFINE readable == ~AliasError /\ \A i \in KEPs : ~ownersError(kep[i], owners[i])
             agree == \A i \in KEPs : Agrees(kep[i], owners[i])
  <1>1. /\ Scope = KEPs
        /\ \A i : verify(i) = verifyKEP(kep[i], owners[i]) /\ (verifyError(i) <=> ownersError(kep[i], owners[i]))
    BY DEF Scope, verify, verifyError
  <1>2. pc \in {"passed", "failed", "error"}
    BY DEF Ended
  <1>3. pc = "error" => ~readable
    BY <1>1 DEF ReportInv
  <1>4. pc \in {"passed", "failed"} => readable
    BY <1>1 DEF ReportInv, Collected
  <1>5. pc \in {"passed", "failed"} => (violations = {} <=> agree)
    BY <1>1, AgreesExactly DEF ReportInv, Collected
  <1>6. pc \in {"passed", "failed"} => (pc = "passed" <=> violations = {})
    BY DEF ReportInv
  <1>7. (pc = "error" <=> ~readable) /\ (pc = "passed" <=> readable /\ agree)
    <2> HIDE DEF readable, agree
    <2> QED
      BY <1>2, <1>3, <1>4, <1>5, <1>6
  <1> QED
    BY <1>7 DEF OwnersReportIsExact

\* TestNodeApprovers fails on a tree with a KEP that does not agree with its OWNERS,
\* passes where all agree and have their tech leads there, and ends in an error
\* exactly when a file cannot be read (verify.go:143-166, 201-328).
THEOREM OwnersReport == Spec => []OwnersReportIsExact
  BY ReportStarts, ReportStep, ReportExact, PTL DEF Spec
=============================================================================
