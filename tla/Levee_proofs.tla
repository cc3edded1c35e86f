---------------------------- MODULE Levee_proofs ----------------------------
(***************************************************************************)
(* Theorems about Levee, for every program, type and configuration.        *)
(***************************************************************************)
EXTENDS Levee, ClosureTheorems

(* The results of the passes are kept by package, and what levee has still *)
(* to look at are functions of a package whose pass it has begun.          *)
PassInv ==
  /\ sources = [p \in Package |-> sources[p]]
  /\ suppressed = [p \in Package |-> suppressed[p]]
  /\ toReport = [p \in Package |-> toReport[p]]
  /\ \A p \in Package : DOMAIN sources[p] \subseteq DeclaredIn(p)
  /\ \A p \in Package : toReport[p] \subseteq DeclaredIn(p)
  /\ \A p \in Package : toReport[p] # {} => <<"levee", p>> \in done

(* What a pass reads of another is there before it begins.                 *)
OrderInv ==
  /\ \A p \in Package : <<"levee", p>> \in done => <<"suppression", p>> \in done
  /\ \A p \in Package : <<"suppression", p>> \in done => suppressed[p] = SuppressedNodes(p)

(* The functions that have been looked at for sinks.                       *)
LookedAt(p) == IF <<"levee", p>> \in done THEN DeclaredIn(p) \ toReport[p] ELSE {}

(* A report is about a sink of a function that has been looked at, one     *)
(* that the pass of suppression leaves.                                    *)
ReportInv ==
  \A r \in reports :
    \E p \in Package : \E f \in LookedAt(p) : \E i \in Reported(p, f) : r.sink = <<f, i>>

IInv == PassInv /\ OrderInv /\ ReportInv /\ OneReportPerSink

(* A function is declared in one package.                                  *)
LEMMA DeclaredOnce ==
  \A p, q : \A f \in DeclaredIn(p) \cap DeclaredIn(q) : p = q
BY DEF DeclaredIn

LEMMA InitIInv == LeveeInit => IInv
BY DEF LeveeInit, IInv, PassInv, OrderInv, ReportInv, OneReportPerSink

-----------------------------------------------------------------------------
(* A pass that has nothing to do with suppression, sources or reports, or  *)
(* comes before levee's.                                                   *)
LEMMA EarlierPass ==
  ASSUME IInv, NEW a \in DOMAIN Requires \ {"levee"}, NEW p \in Package, Ends(a, p),
         UNCHANGED <<name, prog, toReport, reports>>,
         a = "suppression" \/ suppressed' = suppressed,
         a # "suppression" \/ suppressed' = [suppressed EXCEPT ![p] = SuppressedNodes(p)],
         sources' = [q \in Package |-> sources'[q]],
         \A q \in Package : DOMAIN sources'[q] \subseteq DeclaredIn(q)
  PROVE  IInv'
<1>1. /\ a # "levee" /\ <<a, p>> \notin done /\ done' = done \cup {<<a, p>>}
      /\ prog' = prog /\ toReport' = toReport /\ reports' = reports
  BY DEF Ends, MayRun
<1>2. /\ Package' = Package /\ Function' = Function
      /\ \A q : DeclaredIn(q)' = DeclaredIn(q)
      /\ \A q : SuppressedNodes(q)' = SuppressedNodes(q)
      /\ \A f : Code(f)' = Code(f)
  BY <1>1 DEF Package, Function, DeclaredIn, SuppressedNodes, Code
<1>3. \A q : <<"levee", q>> \in done' <=> <<"levee", q>> \in done
  BY <1>1
<1>4. suppressed' = [q \in Package |-> suppressed'[q]]
  BY DEF IInv, PassInv
<1>5. PassInv'
  BY <1>1, <1>2, <1>3, <1>4 DEF IInv, PassInv
<1>6. \A q \in Package : <<"levee", q>> \in done =>
        <<"suppression", q>> \in done /\ suppressed'[q] = suppressed[q]
  BY <1>1 DEF IInv, OrderInv, PassInv
<1>7. OrderInv'
  <2>1. ASSUME NEW q \in Package, <<"suppression", q>> \in done'
        PROVE  suppressed'[q] = SuppressedNodes(q)
    <3>1. CASE a = "suppression" /\ q = p
      BY <3>1 DEF IInv, PassInv
    <3>2. CASE a # "suppression" \/ q # p
      <4>1. <<"suppression", q>> \in done /\ suppressed'[q] = suppressed[q]
        BY <1>1, <2>1, <3>2 DEF IInv, PassInv
      <4> QED
        BY <4>1 DEF IInv, OrderInv
    <3> QED
      BY <3>1, <3>2
  <2> QED
    BY <1>1, <1>2, <1>3, <2>1 DEF IInv, OrderInv
<1>8. ReportInv'
  <2>1. \A q \in Package : LookedAt(q)' = LookedAt(q)
    BY <1>1, <1>2, <1>3 DEF LookedAt
  <2>2. ASSUME NEW q \in Package, NEW f \in LookedAt(q)
        PROVE  Reported(q, f)' = Reported(q, f)
    <3>1. suppressed'[q] = suppressed[q]
      BY <1>6, <2>2 DEF LookedAt
    <3>2. \A i : IsSinkAt(f, i)' = IsSinkAt(f, i)
      BY <1>1, <1>2 DEF IsSinkAt
    <3> QED
      BY <1>2, <3>1, <3>2 DEF Reported, IsSuppressed
  <2> QED
    BY <1>1, <1>2, <2>1, <2>2 DEF IInv, ReportInv
<1> QED
  BY <1>1, <1>5, <1>7, <1>8 DEF IInv, OneReportPerSink

(* The map of sources has keys among the functions of the package.         *)
LEMMA SourcesIInv ==
  ASSUME IInv, NEW p \in Package, Sources(p)
  PROVE  IInv'
<1> DEFINE found == [f \in DeclaredIn(p) |-> SourcesOf(f, tags[p], propagators[p])]
           kept == Restrict(found, {f \in DOMAIN found : found[f] # {}})
<1>1. DOMAIN kept \subseteq DeclaredIn(p)
  BY DEF Restrict
<1>2. sources' = [sources EXCEPT ![p] = kept]
  BY DEF Sources
<1> HIDE DEF kept
<1>3. sources' = [q \in Package |-> sources'[q]]
  BY <1>2 DEF IInv, PassInv
<1>4. \A q \in Package : DOMAIN sources'[q] \subseteq DeclaredIn(q)
  BY <1>1, <1>2 DEF IInv, PassInv
<1>5. "source" \in DOMAIN Requires \ {"levee"}
  BY DEF Requires
<1>6. /\ Ends("source", p)
      /\ UNCHANGED <<name, prog, toReport, reports>> /\ suppressed' = suppressed
  BY DEF Sources
<1> QED
  BY <1>3, <1>4, <1>5, <1>6, EarlierPass

(* The passes of the other analyzers.                                      *)
LEMMA EarlierPassesIInv ==
  ASSUME IInv, NEW p \in Package, FieldTags(p) \/ FieldPropagators(p) \/ Suppression(p)
  PROVE  IInv'
<1>1. PICK a \in {"fieldtags", "fieldpropagator", "suppression"} :
        /\ Ends(a, p)
        /\ UNCHANGED <<name, prog, toReport, reports, sources>>
        /\ a = "suppression" \/ suppressed' = suppressed
        /\ a # "suppression" \/ suppressed' = [suppressed EXCEPT ![p] = SuppressedNodes(p)]
  BY DEF FieldTags, FieldPropagators, Suppression
<1>2. a \in DOMAIN Requires \ {"levee"}
  BY DEF Requires
<1>3. /\ sources' = [q \in Package |-> sources'[q]]
      /\ \A q \in Package : DOMAIN sources'[q] \subseteq DeclaredIn(q)
  BY <1>1 DEF IInv, PassInv
<1> QED
  BY <1>1, <1>2, <1>3, EarlierPass

-----------------------------------------------------------------------------
(* What the steps of levee leave alone.                                    *)
LEMMA LeveeKeeps ==
  ASSUME UNCHANGED <<name, prog, suppressed>>
  PROVE  /\ Package' = Package /\ Function' = Function
         /\ \A q : DeclaredIn(q)' = DeclaredIn(q)
         /\ \A q : SuppressedNodes(q)' = SuppressedNodes(q)
         /\ \A q, f : Reported(q, f)' = Reported(q, f)
BY DEF Package, Function, DeclaredIn, SuppressedNodes, Reported, IsSinkAt, IsSuppressed, Code

(* The pass of levee begins: its functions are yet to be looked at.        *)
LEMMA StartLeveeIInv ==
  ASSUME IInv, NEW p \in Package, StartLevee(p)
  PROVE  IInv'
<1>1. /\ UNCHANGED <<name, prog, suppressed, sources, reports>>
      /\ <<"levee", p>> \notin done /\ done' = done \cup {<<"levee", p>>}
      /\ <<"suppression", p>> \in done
      /\ toReport' = [toReport EXCEPT ![p] = DOMAIN sources[p]]
  BY DEF StartLevee, Ends, MayRun, Requires
<1>2. /\ Package' = Package
      /\ \A q : DeclaredIn(q)' = DeclaredIn(q)
      /\ \A q : SuppressedNodes(q)' = SuppressedNodes(q)
      /\ \A q, f : Reported(q, f)' = Reported(q, f)
  BY <1>1, LeveeKeeps
<1>3. PassInv'
  BY <1>1, <1>2 DEF IInv, PassInv
<1>4. OrderInv'
  BY <1>1, <1>2 DEF IInv, OrderInv
<1>5. \A q \in Package : LookedAt(q) \subseteq LookedAt(q)'
  BY <1>1, <1>2 DEF IInv, PassInv, LookedAt
<1>6. ReportInv'
  <2> SUFFICES ASSUME NEW r \in reports
               PROVE  \E q \in Package : \E f \in LookedAt(q)' : \E i \in Reported(q, f) :
                        r.sink = <<f, i>>
    BY <1>1, <1>2 DEF ReportInv
  <2> QED
    BY <1>5 DEF IInv, ReportInv
<1> QED
  BY <1>1, <1>3, <1>4, <1>6 DEF IInv, OneReportPerSink

(* The reports of a function that has not been looked at are about other   *)
(* sinks than those there are, and about one sink each.                    *)
LEMMA ReportIInv ==
  ASSUME IInv, NEW p \in Package, NEW f \in toReport[p], Report(p, f)
  PROVE  IInv'
<1> DEFINE reached == {i \in Reported(p, f) : Reaching(p, f, i) # {}}
<1>1. /\ UNCHANGED <<name, prog, done, suppressed, sources>>
      /\ toReport' = [toReport EXCEPT ![p] = @ \ {f}]
      /\ \E source \in [reached -> sources[p][f]] :
           reports' = reports \cup {[sink |-> <<f, i>>, source |-> <<f, source[i]>>] : i \in reached}
  BY DEF Report
<1>2. PICK source : reports' = reports \cup
                {[sink |-> <<f, i>>, source |-> <<f, source[i]>>] : i \in reached}
  BY <1>1
<1>3. reached \subseteq Reported(p, f)
  OBVIOUS
<1> HIDE DEF reached
<1>4. /\ Package' = Package
      /\ \A q : DeclaredIn(q)' = DeclaredIn(q)
      /\ \A q : SuppressedNodes(q)' = SuppressedNodes(q)
      /\ \A q, g : Reported(q, g)' = Reported(q, g)
  BY <1>1, LeveeKeeps
<1>5. /\ f \in DeclaredIn(p) /\ <<"levee", p>> \in done
      /\ toReport'[p] = toReport[p] \ {f}
      /\ \A q \in Package : q # p => toReport'[q] = toReport[q]
      /\ toReport' = [q \in Package |-> toReport'[q]]
  BY <1>1 DEF IInv, PassInv
<1>6. PassInv'
  BY <1>1, <1>4, <1>5 DEF IInv, PassInv
<1>7. OrderInv'
  BY <1>1, <1>4 DEF IInv, OrderInv
<1>8. /\ \A q \in Package : LookedAt(q) \subseteq LookedAt(q)'
      /\ f \in LookedAt(p)'
      /\ \A q \in Package : f \notin LookedAt(q)
  BY <1>1, <1>4, <1>5, DeclaredOnce DEF LookedAt
<1>9. ReportInv'
  <2> SUFFICES ASSUME NEW r \in reports'
               PROVE  \E q \in Package : \E g \in LookedAt(q)' : \E i \in Reported(q, g) :
                        r.sink = <<g, i>>
    BY <1>4 DEF ReportInv
  <2>1. CASE r \in reports
    BY <1>8, <2>1 DEF IInv, ReportInv
  <2>2. ASSUME NEW i \in reached, r = [sink |-> <<f, i>>, source |-> <<f, source[i]>>]
        PROVE  \E q \in Package : \E g \in LookedAt(q)' : \E j \in Reported(q, g) :
                 r.sink = <<g, j>>
    BY <1>3, <1>8, <2>2
  <2> QED
    BY <1>2, <2>1, <2>2
<1>10. \A r \in reports : \A i : r.sink # <<f, i>>
  BY <1>8 DEF IInv, ReportInv
<1>11. OneReportPerSink'
  BY <1>2, <1>10 DEF IInv, OneReportPerSink
<1> QED
  BY <1>6, <1>7, <1>9, <1>11 DEF IInv

(* runEAR looks at all functions of its package at once.                   *)
LEMMA RunEARIInv ==
  ASSUME IInv, NEW p \in Package, RunEAR(p)
  PROVE  IInv'
<1> DEFINE sinks == UNION {{f} \X Reported(p, f) : f \in DeclaredIn(p)}
           reached == {i \in sinks : Reaches(p, i) # {}}
<1>1. /\ UNCHANGED <<name, prog, suppressed, sources, toReport>>
      /\ <<"levee", p>> \notin done /\ done' = done \cup {<<"levee", p>>}
      /\ <<"suppression", p>> \in done
      /\ \E source : reports' = reports \cup {[sink |-> i, source |-> source[i]] : i \in reached}
  BY DEF RunEAR, Ends, MayRun, Requires
<1>2. PICK source : reports' = reports \cup {[sink |-> i, source |-> source[i]] : i \in reached}
  BY <1>1
<1>3. \A s \in reached : \E f \in DeclaredIn(p) : \E i \in Reported(p, f) : s = <<f, i>>
  OBVIOUS
<1> HIDE DEF reached, sinks
<1>4. /\ Package' = Package
      /\ \A q : DeclaredIn(q)' = DeclaredIn(q)
      /\ \A q : SuppressedNodes(q)' = SuppressedNodes(q)
      /\ \A q, g : Reported(q, g)' = Reported(q, g)
  BY <1>1, LeveeKeeps
<1>5. toReport[p] = {}
  BY <1>1 DEF IInv, PassInv
<1>6. PassInv'
  BY <1>1, <1>4 DEF IInv, PassInv
<1>7. OrderInv'
  BY <1>1, <1>4 DEF IInv, OrderInv
<1>8. /\ \A q \in Package : LookedAt(q) \subseteq LookedAt(q)'
      /\ LookedAt(p)' = DeclaredIn(p)
      /\ \A q \in Package : LookedAt(q) \cap DeclaredIn(p) = {}
  <2>1. LookedAt(p)' = DeclaredIn(p)
    <3>1. \A q : q = p => LookedAt(q)' = DeclaredIn(q)
      BY <1>1, <1>4, <1>5 DEF LookedAt
    <3> QED
      BY <3>1
  <2>2. \A q \in Package : LookedAt(q) \subseteq LookedAt(q)'
    BY <1>1, <1>4 DEF LookedAt
  <2>3. \A q \in Package : LookedAt(q) \cap DeclaredIn(p) = {}
    BY <1>1, DeclaredOnce DEF LookedAt
  <2> QED
    BY <2>1, <2>2, <2>3
<1>9. ReportInv'
  <2> SUFFICES ASSUME NEW r \in reports'
               PROVE  \E q \in Package : \E g \in LookedAt(q)' : \E i \in Reported(q, g) :
                        r.sink = <<g, i>>
    BY <1>4 DEF ReportInv
  <2>1. CASE r \in reports
    BY <1>8, <2>1 DEF IInv, ReportInv
  <2>2. ASSUME NEW s \in reached, r = [sink |-> s, source |-> source[s]]
        PROVE  \E q \in Package : \E g \in LookedAt(q)' : \E j \in Reported(q, g) :
                 r.sink = <<g, j>>
    BY <1>3, <1>8, <2>2
  <2> QED
    BY <1>2, <2>1, <2>2
<1>10. \A r \in reports : r.sink \notin reached
  BY <1>3, <1>8 DEF IInv, ReportInv
<1>11. OneReportPerSink'
  BY <1>2, <1>10 DEF IInv, OneReportPerSink
<1> QED
  BY <1>6, <1>7, <1>9, <1>11 DEF IInv

-----------------------------------------------------------------------------
(* Every step keeps the invariant.                                         *)
LEMMA NextIInv == IInv /\ [Next]_leveeVars => IInv'
<1> SUFFICES ASSUME IInv, [Next]_leveeVars
             PROVE  IInv'
  OBVIOUS
<1>1. ASSUME UNCHANGED leveeVars
      PROVE  IInv'
  <2>1. UNCHANGED <<name, prog, done, suppressed, sources, toReport, reports>>
    BY <1>1 DEF leveeVars
  <2>2. /\ Package' = Package
        /\ \A q : DeclaredIn(q)' = DeclaredIn(q)
        /\ \A q : SuppressedNodes(q)' = SuppressedNodes(q)
        /\ \A q, f : Reported(q, f)' = Reported(q, f)
        /\ \A q : LookedAt(q)' = LookedAt(q)
    BY <2>1, LeveeKeeps DEF LookedAt
  <2> QED
    BY <2>1, <2>2 DEF IInv, PassInv, OrderInv, ReportInv, OneReportPerSink
<1>2. ASSUME NEW p \in Package, FieldTags(p) \/ FieldPropagators(p) \/ Suppression(p)
      PROVE  IInv'
  BY <1>2, EarlierPassesIInv
<1>3. ASSUME NEW p \in Package, Sources(p) \/ StartLevee(p) \/ RunEAR(p)
      PROVE  IInv'
  BY <1>3, SourcesIInv, StartLeveeIInv, RunEARIInv
<1>4. ASSUME NEW p \in Package, NEW f \in toReport[p], Report(p, f)
      PROVE  IInv'
  BY <1>4, ReportIInv
<1> QED
  BY <1>1, <1>2, <1>3, <1>4 DEF Next, Terminated

(* However many sources reach a sink, in whatever order the passes run and *)
(* the loops take the functions, there is one report about it.             *)
THEOREM AlwaysOneReport == Spec => []OneReportPerSink
<1>1. IInv => OneReportPerSink
  BY DEF IInv
<1> QED
  BY <1>1, InitIInv, NextIInv, PTL DEF Spec

(* A report is about a sink, and never about one that a comment in the     *)
(* files of its package suppresses: no pass of levee runs before that of   *)
(* suppression has read them.                                              *)
OnlyUnsuppressedSinks ==
  \A r \in reports :
    \E p \in Package : \E f \in DeclaredIn(p) : \E i \in DOMAIN Code(f) :
      /\ r.sink = <<f, i>>
      /\ IsSinkAt(f, i) /\ ~IsSuppressed(Code(f)[i], SuppressedNodes(p))

THEOREM NeverSuppressed == Spec => []OnlyUnsuppressedSinks
<1>1. IInv => OnlyUnsuppressedSinks
  <2> SUFFICES ASSUME IInv, NEW r \in reports
               PROVE  \E p \in Package : \E f \in DeclaredIn(p) : \E i \in DOMAIN Code(f) :
                        /\ r.sink = <<f, i>>
                        /\ IsSinkAt(f, i) /\ ~IsSuppressed(Code(f)[i], SuppressedNodes(p))
    BY DEF OnlyUnsuppressedSinks
  <2>1. PICK p \in Package : \E f \in LookedAt(p) : \E i \in Reported(p, f) : r.sink = <<f, i>>
    BY DEF IInv, ReportInv
  <2>2. PICK f \in LookedAt(p) : \E i \in Reported(p, f) : r.sink = <<f, i>>
    BY <2>1
  <2>3. f \in DeclaredIn(p) /\ suppressed[p] = SuppressedNodes(p)
    BY DEF LookedAt, IInv, OrderInv
  <2> QED
    BY <2>2, <2>3 DEF Reported
<1> QED
  BY <1>1, InitIInv, NextIInv, PTL DEF Spec

-----------------------------------------------------------------------------
(* What the driver's order gives a pass: the facts of all packages that    *)
(* its own imports, at any distance.                                       *)

LEMMA ImportedIsHull ==
  ASSUME NEW pr, IsProgram(pr), NEW p \in DOMAIN pr.imports
  PROVE  ImportedBy(pr, p)
           = Hull([q \in DOMAIN pr.imports |-> pr.imports[q]], DOMAIN pr.imports, {p})
<1> DEFINE U == DOMAIN pr.imports
           D == [q \in U |-> pr.imports[q]]
           Grown(g) == g = [met \in SUBSET U |->
                              IF met \cup UNION {pr.imports[q] : q \in met} = met THEN met
                              ELSE g[met \cup UNION {pr.imports[q] : q \in met}]]
<1>1. IsFiniteSet(U) /\ D \in [U -> SUBSET U]
  BY DEF IsProgram
<1>2. ImportedBy(pr, p) = (CHOOSE g : Grown(g))[{p}]
  BY DEF ImportedBy, Closed
<1>3. \A met \in SUBSET U : met \cup UNION {pr.imports[q] : q \in met} = Grow(D, met)
  BY DEF Grow
<1>4. \A g : Grown(g) <=> IsGrown(g, D, U)
  <2> HIDE DEF D, U
  <2>1. ASSUME NEW g
        PROVE  [met \in SUBSET U |->
                  IF met \cup UNION {pr.imports[q] : q \in met} = met THEN met
                  ELSE g[met \cup UNION {pr.imports[q] : q \in met}]]
               = [met \in SUBSET U |-> IF Grow(D, met) = met THEN met ELSE g[Grow(D, met)]]
    BY <1>3
  <2> QED BY <2>1 DEF IsGrown
<1>5. {p} \in SUBSET U
  OBVIOUS
<1> HIDE DEF D, Grown, U
<1>6. \E g : Grown(g)
  BY <1>1, <1>4, HullIsGrown
<1>7. Grown(CHOOSE g : Grown(g))
  BY <1>6
<1>8. (CHOOSE g : Grown(g))[{p}] = Hull(D, U, {p})
  BY <1>1, <1>4, <1>5, <1>7, GrownIsHull
<1> QED BY <1>2, <1>8 DEF D, U

LEMMA ImportedFacts ==
  ASSUME NEW pr, IsProgram(pr), NEW p \in DOMAIN pr.imports
  PROVE  /\ ImportedBy(pr, p) \subseteq DOMAIN pr.imports
         /\ p \in ImportedBy(pr, p)
         /\ \A q \in ImportedBy(pr, p) : pr.imports[q] \subseteq ImportedBy(pr, p)
         /\ \A T \in SUBSET DOMAIN pr.imports :
              p \in T /\ (\A q \in T : pr.imports[q] \subseteq T) => ImportedBy(pr, p) \subseteq T
<1> DEFINE U == DOMAIN pr.imports
           D == [q \in U |-> pr.imports[q]]
<1>1. D \in [U -> SUBSET U] /\ \A q \in U : D[q] = pr.imports[q]
  BY DEF IsProgram
<1>2. ImportedBy(pr, p) = Hull(D, U, {p})
  BY ImportedIsHull
<1>3. {p} \in SUBSET U
  OBVIOUS
<1> HIDE DEF D
<1>4. /\ {p} \subseteq ImportedBy(pr, p) /\ ImportedBy(pr, p) \subseteq U
      /\ \A q \in ImportedBy(pr, p) : D[q] \subseteq ImportedBy(pr, p)
  <2>1. /\ {p} \subseteq Hull(D, U, {p}) /\ Hull(D, U, {p}) \subseteq U
        /\ \A q \in Hull(D, U, {p}) : D[q] \subseteq Hull(D, U, {p})
    <3> DEFINE S == {p}
    <3>1. S \in SUBSET U
      BY <1>3
    <3> HIDE DEF S
    <3>2. /\ S \subseteq Hull(D, U, S) /\ Hull(D, U, S) \subseteq U
          /\ \A q \in Hull(D, U, S) : D[q] \subseteq Hull(D, U, S)
      BY <1>1, <3>1, HullClosed
    <3> QED BY <3>2 DEF S
  <2> QED BY <1>2, <2>1
<1>5. ASSUME NEW T \in SUBSET U, p \in T, \A q \in T : pr.imports[q] \subseteq T
      PROVE  ImportedBy(pr, p) \subseteq T
  <2>1. \A q \in T : D[q] \subseteq T
    BY <1>1, <1>5
  <2> QED BY <1>2, <1>5, <2>1, HullLeast
<1> QED BY <1>1, <1>4, <1>5

LEMMA ImportedTransitive ==
  ASSUME NEW pr, IsProgram(pr), NEW p \in DOMAIN pr.imports, NEW q \in ImportedBy(pr, p)
  PROVE  ImportedBy(pr, q) \subseteq ImportedBy(pr, p)
<1>1. /\ ImportedBy(pr, p) \in SUBSET DOMAIN pr.imports
      /\ \A x \in ImportedBy(pr, p) : pr.imports[x] \subseteq ImportedBy(pr, p)
  BY ImportedFacts
<1> QED BY <1>1, ImportedFacts

-----------------------------------------------------------------------------
(* What a pass computes depends on the tags that its code mentions alone.  *)

OwnTags(q) == UNION {TaggedFields(s) : s \in prog.structs[q]}
KnownTags(p) == UNION {OwnTags(q) : q \in Imported(p)}

(* Two sets of tags that are the same to a function.                       *)
SameTo(f, k1, k2) == \A n \in DOMAIN Code(f) : \A x \in Mentioned(Code(f)[n]) : x \in k1 <=> x \in k2

LEMMA TagsKnown ==
  ASSUME IsProgram(prog), NEW p \in Package, NEW f \in Function,
         prog.functions[f].pkg \in Imported(p)
  PROVE  SameTo(f, KnownTags(p), AllTags)
<1> SUFFICES ASSUME NEW n \in DOMAIN Code(f), NEW x \in Mentioned(Code(f)[n])
             PROVE  x \in KnownTags(p) <=> x \in AllTags
  BY DEF SameTo
<1>1. AllTags = UNION {OwnTags(q) : q \in Package}
  BY DEF AllTags, OwnTags
<1>2. Imported(p) \subseteq Package
  BY ImportedFacts DEF Imported, Package
<1>3. ASSUME NEW q \in Package, x \in OwnTags(q)
      PROVE  q \in Imported(p)
  <2>1. prog.functions[f].pkg \in Package
    BY <1>2
  <2>2. Mentioned(prog.functions[f].code[n]) \cap UNION {TaggedFields(s) : s \in prog.structs[q]} # {}
    BY <1>3 DEF OwnTags, Code
  <2>3. q \in ImportedBy(prog, prog.functions[f].pkg)
    BY <1>3, <2>2 DEF IsProgram, Function, Package, Code
  <2> QED BY <2>3, ImportedTransitive DEF Imported, Package
<1> QED BY <1>1, <1>2, <1>3 DEF KnownTags

(* The fields of a node are among those it mentions.                       *)
LEMMA MentionedAre ==
  ASSUME NEW node
  PROVE  /\ node.field \in Mentioned(node)
         /\ \A u \in Components(node.type) : Kind(u) = "struct" => Fields(u) \subseteq Mentioned(node)
BY DEF Mentioned

LEMMA SameFields ==
  ASSUME NEW f, NEW k1, NEW k2, SameTo(f, k1, k2), NEW n \in DOMAIN Code(f)
  PROVE  SourceField(Code(f)[n].field, k1) <=> SourceField(Code(f)[n].field, k2)
BY MentionedAre DEF SameTo, SourceField

LEMMA SameTypes ==
  ASSUME NEW f, NEW k1, NEW k2, SameTo(f, k1, k2), NEW n \in DOMAIN Code(f)
  PROVE  IsSourceType(Code(f)[n].type, k1) <=> IsSourceType(Code(f)[n].type, k2)
<1>1. ASSUME NEW u \in Components(Code(f)[n].type), Kind(u) = "struct"
      PROVE  Fields(u) \cap k1 # {} <=> Fields(u) \cap k2 # {}
  BY <1>1, MentionedAre DEF SameTo
<1> QED BY <1>1 DEF IsSourceType

(* Where taint goes from a node.                                           *)
Onwards(f, m, known) ==
  IF \/ Code(f)[m].kind \in {"field", "fieldaddr"} /\ ~SourceField(Code(f)[m].field, known)
     \/ Code(f)[m].kind = "call" /\ Code(f)[m].callee \in prog.sanitizers
  THEN {} ELSE Code(f)[m].next

LEMMA TaintIsHull ==
  ASSUME IsProgram(prog), NEW f \in Function, NEW n \in DOMAIN Code(f), NEW known
  PROVE  Taint(f, n, known)
           = Hull([m \in DOMAIN Code(f) |-> Onwards(f, m, known)], DOMAIN Code(f), {n})
<1> DEFINE U == DOMAIN Code(f)
           D == [m \in U |-> Onwards(f, m, known)]
           Grown(g) == g = [met \in SUBSET U |->
                              IF met \cup UNION {Onwards(f, m, known) : m \in met} = met THEN met
                              ELSE g[met \cup UNION {Onwards(f, m, known) : m \in met}]]
<1>1. IsFiniteSet(U) /\ D \in [U -> SUBSET U]
  BY DEF IsProgram, Function, Code, Onwards
<1>2. Taint(f, n, known) = (CHOOSE g : Grown(g))[{n}]
  BY DEF Taint, Closed, Onwards
<1>3. \A met \in SUBSET U : met \cup UNION {Onwards(f, m, known) : m \in met} = Grow(D, met)
  BY DEF Grow
<1>4. \A g : Grown(g) <=> IsGrown(g, D, U)
  <2> HIDE DEF D, U
  <2>1. ASSUME NEW g
        PROVE  [met \in SUBSET U |->
                  IF met \cup UNION {Onwards(f, m, known) : m \in met} = met THEN met
                  ELSE g[met \cup UNION {Onwards(f, m, known) : m \in met}]]
               = [met \in SUBSET U |-> IF Grow(D, met) = met THEN met ELSE g[Grow(D, met)]]
    BY <1>3
  <2> QED BY <2>1 DEF IsGrown
<1>5. {n} \in SUBSET U
  OBVIOUS
<1> HIDE DEF D, Grown, U
<1>6. \E g : Grown(g)
  BY <1>1, <1>4, HullIsGrown
<1>7. Grown(CHOOSE g : Grown(g))
  BY <1>6
<1>8. (CHOOSE g : Grown(g))[{n}] = Hull(D, U, {n})
  BY <1>1, <1>4, <1>5, <1>7, GrownIsHull
<1> QED BY <1>2, <1>8 DEF D, U

LEMMA SameTaint ==
  ASSUME IsProgram(prog), NEW f \in Function, NEW n \in DOMAIN Code(f),
         NEW k1, NEW k2, SameTo(f, k1, k2)
  PROVE  Taint(f, n, k1) = Taint(f, n, k2)
<1>1. \A m \in DOMAIN Code(f) : Onwards(f, m, k1) = Onwards(f, m, k2)
  BY SameFields DEF Onwards
<1>2. [m \in DOMAIN Code(f) |-> Onwards(f, m, k1)] = [m \in DOMAIN Code(f) |-> Onwards(f, m, k2)]
  BY <1>1
<1>3. /\ Taint(f, n, k1)
           = Hull([m \in DOMAIN Code(f) |-> Onwards(f, m, k1)], DOMAIN Code(f), {n})
      /\ Taint(f, n, k2)
           = Hull([m \in DOMAIN Code(f) |-> Onwards(f, m, k2)], DOMAIN Code(f), {n})
  BY TaintIsHull
<1> QED BY <1>2, <1>3

LEMMA SamePropagation ==
  ASSUME IsProgram(prog), NEW f \in Function, NEW k1, NEW k2, SameTo(f, k1, k2)
  PROVE  AnalyzeBlocks(f, k1) <=> AnalyzeBlocks(f, k2)
<1>1. \A n \in DOMAIN Code(f) : /\ Taint(f, n, k1) = Taint(f, n, k2)
                                /\ SourceField(Code(f)[n].field, k1) <=> SourceField(Code(f)[n].field, k2)
  BY SameTaint, SameFields
<1> QED BY <1>1 DEF AnalyzeBlocks

(* The propagators that the pass over q finds, with the tags it knows.     *)
OwnPropagators(q) == Propagators(q, KnownTags(q))
KnownPropagators(p) == UNION {OwnPropagators(q) : q \in Imported(p)}

LEMMA PropagatorsKnown ==
  ASSUME IsProgram(prog)
  PROVE  AllPropagators = UNION {OwnPropagators(q) : q \in Package}
<1>1. ASSUME NEW q \in Package
      PROVE  Propagators(q, AllTags) = OwnPropagators(q)
  <2>1. ASSUME NEW t \in prog.types[q] \cap Configured, NEW f \in prog.methods[t]
        PROVE  AnalyzeBlocks(f, AllTags) <=> AnalyzeBlocks(f, KnownTags(q))
    <3>1. f \in Function /\ prog.functions[f].pkg \in Imported(q)
      BY <1>1, <2>1 DEF IsProgram, Function, Imported, Package
    <3>2. SameTo(f, KnownTags(q), AllTags)
      BY <1>1, <3>1, TagsKnown
    <3> QED BY <3>1, <3>2, SamePropagation
  <2> QED BY <2>1 DEF Propagators, OwnPropagators
<1> QED BY <1>1 DEF AllPropagators

(* The sources of a function of p, for what its pass knows.                *)
FoundIn(p, f) == SourcesOf(f, KnownTags(p), KnownPropagators(p))

LEMMA SourcesKnown ==
  ASSUME IsProgram(prog), NEW p \in Package, NEW f \in DeclaredIn(p),
         \A q \in Package : OwnPropagators(q) \subseteq DeclaredIn(q)
  PROVE  FoundIn(p, f) = SourcesOf(f, AllTags, AllPropagators)
<1>1. f \in Function /\ prog.functions[f].pkg = p /\ p \in Imported(p) /\ Imported(p) \subseteq Package
  BY ImportedFacts DEF DeclaredIn, Imported, Package
<1>2. SameTo(f, KnownTags(p), AllTags)
  BY <1>1, TagsKnown
<1>3. ASSUME NEW n \in DOMAIN Code(f), Code(f)[n].kind = "call"
      PROVE  Code(f)[n].callee \in KnownPropagators(p) <=> Code(f)[n].callee \in AllPropagators
  <2>1. ASSUME NEW q \in Package, Code(f)[n].callee \in OwnPropagators(q)
        PROVE  q \in Imported(p)
    <3>1. Code(f)[n].callee \in Function /\ prog.functions[Code(f)[n].callee].pkg = q
      BY <2>1 DEF DeclaredIn
    <3> QED BY <1>1, <1>3, <3>1 DEF IsProgram, Imported, Function, Code
  <2> QED BY <1>1, <2>1, PropagatorsKnown DEF KnownPropagators
<1>4. ASSUME NEW n \in DOMAIN Code(f)
      PROVE  IsSourceNode(Code(f)[n], KnownTags(p), KnownPropagators(p))
               <=> IsSourceNode(Code(f)[n], AllTags, AllPropagators)
  <2>1. IsSourceType(Code(f)[n].type, KnownTags(p)) <=> IsSourceType(Code(f)[n].type, AllTags)
    BY <1>2, SameTypes
  <2> QED BY <1>3, <2>1 DEF IsSourceNode
<1> QED BY <1>4 DEF FoundIn, SourcesOf

-----------------------------------------------------------------------------
(* The invariant of the facts and results that the passes hand each other. *)

Ran(a, p) == <<a, p>> \in done

TagsInv ==
  /\ tagFacts = [p \in Package |-> tagFacts[p]] /\ tags = [p \in Package |-> tags[p]]
  /\ \A p \in Package : Ran("fieldtags", p) =>
       /\ tagFacts[p] = OwnTags(p) /\ tags[p] = KnownTags(p)
       /\ \A q \in prog.imports[p] : Ran("fieldtags", q)

PropagatorsInv ==
  /\ propagatorFacts = [p \in Package |-> propagatorFacts[p]]
  /\ propagators = [p \in Package |-> propagators[p]]
  /\ \A p \in Package : Ran("fieldpropagator", p) =>
       /\ propagatorFacts[p] = OwnPropagators(p) /\ propagators[p] = KnownPropagators(p)
       /\ \A q \in prog.imports[p] : Ran("fieldpropagator", q)

SourcesInv ==
  \A p \in Package : Ran("source", p) =>
    /\ DOMAIN sources[p] = {f \in DeclaredIn(p) : FoundIn(p, f) # {}}
    /\ \A f \in DOMAIN sources[p] : sources[p][f] = FoundIn(p, f)

LeveeInv ==
  /\ \A p \in Package : Ran("levee", p) => Ran("source", p) /\ Ran("fieldtags", p)
  /\ \A p \in Package : toReport[p] \subseteq DOMAIN sources[p]
  /\ \A p \in Package : prog.useEAR => toReport[p] = {}

FactsInv == IsProgram(prog) /\ TagsInv /\ PropagatorsInv /\ SourcesInv /\ LeveeInv

(* The sinks that may be reported, and whether a source is connected, both *)
(* in the terms of the pass over their package.                            *)
Sinks(p, f) ==
  {i \in DOMAIN Code(f) : IsSinkAt(f, i) /\ ~IsSuppressed(Code(f)[i], SuppressedNodes(p))}

Hit(p, f, i) ==
  IF prog.useEAR
  THEN \E flow \in prog.flows :
         /\ flow[2] = <<f, i>>
         /\ flow[1][1] \in DeclaredIn(p) /\ flow[1] = <<flow[1][1], flow[1][2]>>
         /\ flow[1][2] \in FoundIn(p, flow[1][1])
         /\ flow[3] = <<>> \/ SourceField(flow[3], KnownTags(p))
  ELSE \E s \in FoundIn(p, f) : IsTainted(f, Taint(f, s, KnownTags(p)), i)

(* What has been looked at has been reported if a source is connected.     *)
HitsInv ==
  \A p \in Package : \A f \in LookedAt(p) : \A i \in Sinks(p, f) :
    Hit(p, f, i) => \E r \in reports : r.sink = <<f, i>>

(* And a report is of a sink that a source is connected to.                *)
MissesInv ==
  \A r \in reports :
    \E p \in Package : \E f \in LookedAt(p) : \E i \in Sinks(p, f) : r.sink = <<f, i>> /\ Hit(p, f, i)

ExactInv == IInv /\ FactsInv /\ HitsInv /\ MissesInv

(* The program stays what it is, and with it all that is defined from it.  *)
LEMMA ProgramSame ==
  ASSUME prog' = prog
  PROVE  /\ Package' = Package /\ Function' = Function
         /\ IsProgram(prog)' <=> IsProgram(prog)
         /\ \A p : /\ DeclaredIn(p)' = DeclaredIn(p)
                   /\ Imported(p)' = Imported(p)
                   /\ OwnTags(p)' = OwnTags(p) /\ KnownTags(p)' = KnownTags(p)
                   /\ OwnPropagators(p)' = OwnPropagators(p)
                   /\ KnownPropagators(p)' = KnownPropagators(p)
         /\ \A p, f : FoundIn(p, f)' = FoundIn(p, f) /\ Sinks(p, f)' = Sinks(p, f)
         /\ \A p, f, i : Hit(p, f, i)' <=> Hit(p, f, i)
<1>1. /\ Package' = Package /\ Function' = Function
      /\ IsProgram(prog)' <=> IsProgram(prog)
  BY DEF Package, Function
<1>2. /\ \A f : Code(f)' = Code(f)
      /\ \A p : DeclaredIn(p)' = DeclaredIn(p)
      /\ \A p : Imported(p)' = Imported(p)
  BY <1>1 DEF Code, DeclaredIn, Imported
<1>3. /\ \A p : OwnTags(p)' = OwnTags(p)
      /\ \A p : KnownTags(p)' = KnownTags(p)
  BY <1>2 DEF OwnTags, KnownTags
<1>4. \A x, k : SourceField(x, k)' <=> SourceField(x, k)
  BY DEF SourceField
<1>5. \A f, n, k : Taint(f, n, k)' = Taint(f, n, k)
  BY <1>2, <1>4 DEF Taint, Closed, SourceField, Code
<1>6. \A f, s, i : IsTainted(f, s, i)' <=> IsTainted(f, s, i)
  BY <1>2 DEF IsTainted
<1>7. \A f, k : AnalyzeBlocks(f, k)' <=> AnalyzeBlocks(f, k)
  BY DEF AnalyzeBlocks, Taint, Closed, IsTainted, Code, SourceField
<1>8. \A p, k : Propagators(p, k)' = Propagators(p, k)
  BY <1>7 DEF Propagators
<1>9. /\ \A p : OwnPropagators(p)' = OwnPropagators(p)
      /\ \A p : KnownPropagators(p)' = KnownPropagators(p)
  BY <1>2, <1>3, <1>8 DEF OwnPropagators, KnownPropagators
<1>10. \A f, k, props : SourcesOf(f, k, props)' = SourcesOf(f, k, props)
  BY <1>2 DEF SourcesOf, IsSourceNode, ProducedBySanitizer
<1>11. \A p, f : FoundIn(p, f)' = FoundIn(p, f)
  BY <1>3, <1>9, <1>10 DEF FoundIn
<1>12. \A p, f : Sinks(p, f)' = Sinks(p, f)
  BY <1>2 DEF Sinks, IsSinkAt, IsSuppressed, SuppressedNodes
<1>13. \A p, f, i : Hit(p, f, i)' <=> Hit(p, f, i)
  BY <1>2, <1>3, <1>4, <1>5, <1>6, <1>11 DEF Hit
<1> QED BY <1>1, <1>2, <1>3, <1>9, <1>11, <1>12, <1>13

LEMMA InitExact ==
  ASSUME LeveeInit
  PROVE  ExactInv
<1>1. IsProgram(prog)
  BY ProgramsAssumption DEF LeveeInit
<1>2. \A p \in Package : LookedAt(p) = {}
  BY DEF LeveeInit, LookedAt
<1>3. \A a, p : ~ Ran(a, p)
  BY DEF LeveeInit, Ran
<1>4. TagsInv /\ PropagatorsInv /\ SourcesInv /\ LeveeInv
  BY <1>3 DEF LeveeInit, TagsInv, PropagatorsInv, SourcesInv, LeveeInv
<1>5. HitsInv /\ MissesInv
  BY <1>2 DEF LeveeInit, HitsInv, MissesInv
<1> QED BY <1>1, <1>4, <1>5, InitIInv DEF ExactInv, FactsInv

(* When a package's imports are done, all that it imports at any distance  *)
(* is.                                                                     *)
LEMMA ImportedRan ==
  ASSUME IsProgram(prog), NEW p \in Package, NEW a,
         \A q \in prog.imports[p] : Ran(a, q),
         \A q \in Package : Ran(a, q) => \A r \in prog.imports[q] : Ran(a, r)
  PROVE  /\ Imported(p) \subseteq Package
         /\ \A q \in Imported(p) : q = p \/ Ran(a, q)
<1> DEFINE T == {q \in Package : q = p \/ Ran(a, q)}
<1>1. \A q \in Package : prog.imports[q] \subseteq Package
  BY DEF IsProgram, Package
<1>2. T \in SUBSET Package /\ p \in T /\ \A q \in T : prog.imports[q] \subseteq T
  BY <1>1
<1> HIDE DEF T
<1>3. Imported(p) \subseteq T
  BY <1>2, ImportedFacts DEF Imported, Package
<1> QED BY <1>3 DEF T

LEMMA FieldTagsExact ==
  ASSUME ExactInv, NEW p \in Package, FieldTags(p)
  PROVE  FactsInv'
<1>1. /\ UNCHANGED <<name, prog, propagatorFacts, propagators, sources, toReport>>
      /\ ~ Ran("fieldtags", p) /\ done' = done \cup {<<"fieldtags", p>>}
      /\ \A q \in prog.imports[p] : Ran("fieldtags", q)
      /\ tagFacts' = [tagFacts EXCEPT ![p] = OwnTags(p)]
      /\ tags' = [tags EXCEPT ![p] = UNION {tagFacts'[q] : q \in Imported(p)}]
  BY DEF FieldTags, Ends, MayRun, Ran, HasFacts, OwnTags, AllObjectFacts
<1>2. \A a, q : Ran(a, q)' <=> Ran(a, q) \/ (a = "fieldtags" /\ q = p)
  BY <1>1 DEF Ran
<1>3. /\ tagFacts' = [q \in Package |-> tagFacts'[q]] /\ tagFacts'[p] = OwnTags(p)
      /\ tags' = [q \in Package |-> tags'[q]]
      /\ tags'[p] = UNION {tagFacts'[q] : q \in Imported(p)}
      /\ \A q \in Package : q # p => tagFacts'[q] = tagFacts[q] /\ tags'[q] = tags[q]
  BY <1>1 DEF ExactInv, FactsInv, TagsInv
<1>4. Imported(p) \subseteq Package /\ \A q \in Imported(p) : q = p \/ Ran("fieldtags", q)
  BY <1>1, ImportedRan DEF ExactInv, FactsInv, TagsInv
<1>5. \A q \in Imported(p) : tagFacts'[q] = OwnTags(q)
  BY <1>3, <1>4 DEF ExactInv, FactsInv, TagsInv
<1>6. tags'[p] = KnownTags(p)
  BY <1>3, <1>5 DEF KnownTags
<1>7. TagsInv'
  <2>1. Package' = Package /\ \A q : OwnTags(q)' = OwnTags(q) /\ KnownTags(q)' = KnownTags(q)
    BY <1>1, ProgramSame
  <2>2. ASSUME NEW q \in Package, Ran("fieldtags", q)'
        PROVE  /\ tagFacts'[q] = OwnTags(q) /\ tags'[q] = KnownTags(q)
               /\ \A r \in prog.imports[q] : Ran("fieldtags", r)'
    <3>1. CASE q = p
      BY <1>1, <1>2, <1>3, <1>6, <3>1
    <3>2. CASE q # p
      <4>1. Ran("fieldtags", q) /\ tagFacts'[q] = tagFacts[q] /\ tags'[q] = tags[q]
        BY <1>2, <1>3, <2>2, <3>2
      <4> QED BY <1>2, <4>1 DEF ExactInv, FactsInv, TagsInv
    <3> QED BY <3>1, <3>2
  <2> QED BY <1>1, <1>3, <2>1, <2>2 DEF TagsInv
<1>8. PropagatorsInv' /\ SourcesInv' /\ LeveeInv'
  BY <1>1, <1>2, ProgramSame DEF ExactInv, FactsInv, PropagatorsInv, SourcesInv, LeveeInv
<1> QED BY <1>1, <1>7, <1>8, ProgramSame DEF ExactInv, FactsInv

LEMMA FieldPropagatorsExact ==
  ASSUME ExactInv, NEW p \in Package, FieldPropagators(p)
  PROVE  FactsInv'
<1>1. /\ UNCHANGED <<name, prog, tagFacts, tags, sources, toReport>>
      /\ ~ Ran("fieldpropagator", p) /\ done' = done \cup {<<"fieldpropagator", p>>}
      /\ Ran("fieldtags", p)
      /\ \A q \in prog.imports[p] : Ran("fieldpropagator", q)
      /\ propagatorFacts' = [propagatorFacts EXCEPT ![p] = Propagators(p, tags[p])]
      /\ propagators' = [propagators EXCEPT ![p] = UNION {propagatorFacts'[q] : q \in Imported(p)}]
  BY DEF FieldPropagators, Ends, MayRun, Ran, Requires, HasFacts, AllObjectFacts
<1>2. \A a, q : Ran(a, q)' <=> Ran(a, q) \/ (a = "fieldpropagator" /\ q = p)
  BY <1>1 DEF Ran
<1>3. /\ propagatorFacts' = [q \in Package |-> propagatorFacts'[q]]
      /\ propagatorFacts'[p] = Propagators(p, tags[p])
      /\ propagators' = [q \in Package |-> propagators'[q]]
      /\ propagators'[p] = UNION {propagatorFacts'[q] : q \in Imported(p)}
      /\ \A q \in Package : q # p =>
           propagatorFacts'[q] = propagatorFacts[q] /\ propagators'[q] = propagators[q]
  BY <1>1 DEF ExactInv, FactsInv, PropagatorsInv
<1>4. tags[p] = KnownTags(p)
  BY <1>1 DEF ExactInv, FactsInv, TagsInv
<1>5. Imported(p) \subseteq Package /\ \A q \in Imported(p) : q = p \/ Ran("fieldpropagator", q)
  BY <1>1, ImportedRan DEF ExactInv, FactsInv, PropagatorsInv
<1>6. \A q \in Imported(p) : propagatorFacts'[q] = OwnPropagators(q)
  BY <1>3, <1>4, <1>5 DEF ExactInv, FactsInv, PropagatorsInv, OwnPropagators
<1>7. propagators'[p] = KnownPropagators(p) /\ propagatorFacts'[p] = OwnPropagators(p)
  BY <1>3, <1>4, <1>6 DEF KnownPropagators, OwnPropagators
<1>8. PropagatorsInv'
  <2>1. /\ Package' = Package
        /\ \A q : OwnPropagators(q)' = OwnPropagators(q) /\ KnownPropagators(q)' = KnownPropagators(q)
    BY <1>1, ProgramSame
  <2>2. ASSUME NEW q \in Package, Ran("fieldpropagator", q)'
        PROVE  /\ propagatorFacts'[q] = OwnPropagators(q) /\ propagators'[q] = KnownPropagators(q)
               /\ \A r \in prog.imports[q] : Ran("fieldpropagator", r)'
    <3>1. CASE q = p
      BY <1>1, <1>2, <1>7, <3>1
    <3>2. CASE q # p
      <4>1. /\ Ran("fieldpropagator", q)
            /\ propagatorFacts'[q] = propagatorFacts[q] /\ propagators'[q] = propagators[q]
        BY <1>2, <1>3, <2>2, <3>2
      <4> QED BY <1>2, <4>1 DEF ExactInv, FactsInv, PropagatorsInv
    <3> QED BY <3>1, <3>2
  <2> QED BY <1>1, <1>3, <2>1, <2>2 DEF PropagatorsInv
<1>9. TagsInv' /\ SourcesInv' /\ LeveeInv'
  BY <1>1, <1>2, ProgramSame DEF ExactInv, FactsInv, TagsInv, SourcesInv, LeveeInv
<1> QED BY <1>1, <1>8, <1>9, ProgramSame DEF ExactInv, FactsInv

LEMMA SuppressionExact ==
  ASSUME ExactInv, NEW p \in Package, Suppression(p)
  PROVE  FactsInv'
<1>1. /\ UNCHANGED <<name, prog, tagFacts, tags, propagatorFacts, propagators, sources, toReport>>
      /\ done' = done \cup {<<"suppression", p>>}
  BY DEF Suppression, Ends
<1>2. \A a, q : Ran(a, q)' <=> Ran(a, q) \/ (a = "suppression" /\ q = p)
  BY <1>1 DEF Ran
<1>3. TagsInv' /\ PropagatorsInv' /\ SourcesInv' /\ LeveeInv'
  BY <1>1, <1>2, ProgramSame
  DEF ExactInv, FactsInv, TagsInv, PropagatorsInv, SourcesInv, LeveeInv
<1> QED BY <1>1, <1>3, ProgramSame DEF ExactInv, FactsInv

LEMMA SourcesExact ==
  ASSUME ExactInv, NEW p \in Package, Sources(p)
  PROVE  FactsInv'
<1> DEFINE found == [f \in DeclaredIn(p) |-> SourcesOf(f, tags[p], propagators[p])]
           kept == [f \in {g \in DeclaredIn(p) : FoundIn(p, g) # {}} |-> FoundIn(p, f)]
<1>1. /\ UNCHANGED <<name, prog, tagFacts, tags, propagatorFacts, propagators, toReport>>
      /\ ~ Ran("source", p) /\ done' = done \cup {<<"source", p>>}
      /\ Ran("fieldtags", p) /\ Ran("fieldpropagator", p)
      /\ sources' = [sources EXCEPT ![p] = Restrict(found, {f \in DOMAIN found : found[f] # {}})]
  BY DEF Sources, Ends, MayRun, Ran, Requires
<1>2. \A a, q : Ran(a, q)' <=> Ran(a, q) \/ (a = "source" /\ q = p)
  BY <1>1 DEF Ran
<1>3. tags[p] = KnownTags(p) /\ propagators[p] = KnownPropagators(p)
  BY <1>1 DEF ExactInv, FactsInv, TagsInv, PropagatorsInv
<1>4. Restrict(found, {f \in DOMAIN found : found[f] # {}}) = kept
  BY <1>3 DEF Restrict, FoundIn
<1> HIDE DEF found
<1>5. sources'[p] = kept /\ \A q \in Package : q # p => sources'[q] = sources[q]
  <2> HIDE DEF kept
  <2> QED BY <1>1, <1>4 DEF ExactInv, IInv, PassInv
<1>6. /\ DOMAIN sources'[p] = {f \in DeclaredIn(p) : FoundIn(p, f) # {}}
      /\ \A f \in DOMAIN sources'[p] : sources'[p][f] = FoundIn(p, f)
  BY <1>5
<1> HIDE DEF kept
<1>7. SourcesInv'
  <2>1. Package' = Package /\ \A q : DeclaredIn(q)' = DeclaredIn(q) /\ \A f : FoundIn(q, f)' = FoundIn(q, f)
    BY <1>1, ProgramSame
  <2>2. ASSUME NEW q \in Package, Ran("source", q)'
        PROVE  /\ DOMAIN sources'[q] = {f \in DeclaredIn(q) : FoundIn(q, f) # {}}
               /\ \A f \in DOMAIN sources'[q] : sources'[q][f] = FoundIn(q, f)
    <3>1. CASE q = p
      BY <1>6, <3>1
    <3>2. CASE q # p
      <4>1. Ran("source", q) /\ sources'[q] = sources[q]
        BY <1>2, <1>5, <2>2, <3>2
      <4> QED BY <4>1 DEF ExactInv, FactsInv, SourcesInv
    <3> QED BY <3>1, <3>2
  <2> QED BY <2>1, <2>2 DEF SourcesInv
<1>8. TagsInv' /\ PropagatorsInv'
  BY <1>1, <1>2, ProgramSame DEF ExactInv, FactsInv, TagsInv, PropagatorsInv
<1>9. toReport[p] = {}
  BY <1>1 DEF ExactInv, IInv, PassInv, FactsInv, LeveeInv, Ran
<1>10. LeveeInv'
  BY <1>1, <1>2, <1>5, <1>9, ProgramSame DEF ExactInv, FactsInv, LeveeInv
<1> QED BY <1>1, <1>7, <1>8, <1>10, ProgramSame DEF ExactInv, FactsInv

(* No pass but levee's looks at sinks or reports.                          *)
LEMMA ReportsSame ==
  ASSUME ExactInv, NEW a \in DOMAIN Requires \ {"levee"}, NEW p \in Package,
         done' = done \cup {<<a, p>>}, UNCHANGED <<prog, toReport, reports>>
  PROVE  HitsInv' /\ MissesInv'
<1>1. \A q : <<"levee", q>> \in done' <=> <<"levee", q>> \in done
  OBVIOUS
<1>2. \A q \in Package : LookedAt(q)' = LookedAt(q)
  BY <1>1, ProgramSame DEF LookedAt
<1> QED BY <1>2, ProgramSame DEF ExactInv, HitsInv, MissesInv

(* What levee reads of the results of the other passes is the program's.   *)
LEMMA HitIs ==
  ASSUME ExactInv, NEW p \in Package, Ran("source", p), Ran("fieldtags", p), Ran("suppression", p)
  PROVE  /\ \A f : Reported(p, f) = Sinks(p, f)
         /\ ~prog.useEAR => /\ \A f \in DOMAIN sources[p] : \A i : Hit(p, f, i) <=> Reaching(p, f, i) # {}
                            /\ \A f \in DeclaredIn(p) \ DOMAIN sources[p] : \A i : ~ Hit(p, f, i)
         /\ prog.useEAR => \A f, i : Hit(p, f, i) <=> Reaches(p, <<f, i>>) # {}
<1>1. /\ tags[p] = KnownTags(p)
      /\ DOMAIN sources[p] = {f \in DeclaredIn(p) : FoundIn(p, f) # {}}
      /\ \A f \in DOMAIN sources[p] : sources[p][f] = FoundIn(p, f)
  BY DEF ExactInv, FactsInv, TagsInv, SourcesInv
<1>2. \A f : Reported(p, f) = Sinks(p, f)
  BY DEF Reported, Sinks, ExactInv, IInv, OrderInv, Ran
<1>3. ASSUME ~prog.useEAR
      PROVE  /\ \A f \in DOMAIN sources[p] : \A i : Hit(p, f, i) <=> Reaching(p, f, i) # {}
             /\ \A f \in DeclaredIn(p) \ DOMAIN sources[p] : \A i : ~ Hit(p, f, i)
  BY <1>1, <1>3 DEF Hit, Reaching
<1>4. ASSUME prog.useEAR, NEW f, NEW i
      PROVE  Hit(p, f, i) <=> Reaches(p, <<f, i>>) # {}
  <2> DEFINE Found == UNION {{g} \X sources[p][g] : g \in DOMAIN sources[p]}
  <2>1. ASSUME NEW s
        PROVE  s \in Found <=>
                 s[1] \in DeclaredIn(p) /\ s = <<s[1], s[2]>> /\ s[2] \in FoundIn(p, s[1])
    BY <1>1
  <2>2. Reaches(p, <<f, i>>) = {s \in Found :
          \E flow \in prog.flows :
            flow[1] = s /\ flow[2] = <<f, i>> /\ (flow[3] = <<>> \/ SourceField(flow[3], tags[p]))}
    BY DEF Reaches
  <2> HIDE DEF Found
  <2>3. Hit(p, f, i) <=>
          \E flow \in prog.flows : /\ flow[1] \in Found /\ flow[2] = <<f, i>>
                                   /\ flow[3] = <<>> \/ SourceField(flow[3], tags[p])
    BY <1>1, <1>4, <2>1 DEF Hit
  <2> QED BY <2>2, <2>3
<1> QED BY <1>2, <1>3, <1>4

LEMMA StartLeveeExact ==
  ASSUME ExactInv, NEW p \in Package, StartLevee(p)
  PROVE  FactsInv' /\ HitsInv' /\ MissesInv'
<1>1. /\ ~prog.useEAR
      /\ UNCHANGED <<name, prog, tagFacts, propagatorFacts, tags, propagators, suppressed, sources, reports>>
      /\ ~ Ran("levee", p) /\ done' = done \cup {<<"levee", p>>}
      /\ Ran("fieldtags", p) /\ Ran("source", p) /\ Ran("suppression", p)
      /\ toReport' = [toReport EXCEPT ![p] = DOMAIN sources[p]]
  BY DEF StartLevee, Ends, MayRun, Requires, Ran
<1>2. \A a, q : Ran(a, q)' <=> Ran(a, q) \/ (a = "levee" /\ q = p)
  BY <1>1 DEF Ran
<1>3. toReport'[p] = DOMAIN sources[p] /\ \A q \in Package : q # p => toReport'[q] = toReport[q]
  BY <1>1 DEF ExactInv, IInv, PassInv
<1>4. TagsInv' /\ PropagatorsInv' /\ SourcesInv' /\ LeveeInv'
  BY <1>1, <1>2, <1>3, ProgramSame
  DEF ExactInv, FactsInv, TagsInv, PropagatorsInv, SourcesInv, LeveeInv
<1>5. FactsInv'
  BY <1>1, <1>4, ProgramSame DEF ExactInv, FactsInv
<1>6. /\ LookedAt(p) = {}
      /\ \A q \in Package : q = p => LookedAt(q)' = DeclaredIn(p) \ DOMAIN sources[p]
      /\ \A q \in Package : q # p => LookedAt(q)' = LookedAt(q)
  <2>1. Package' = Package /\ \A q : DeclaredIn(q)' = DeclaredIn(q)
    BY <1>1, ProgramSame
  <2>2. \A q : <<"levee", q>> \in done' <=> <<"levee", q>> \in done \/ q = p
    BY <1>1
  <2>3. \A q \in Package : q = p => LookedAt(q)' = DeclaredIn(p) \ DOMAIN sources[p]
    BY <1>3, <2>1, <2>2 DEF LookedAt
  <2>4. \A q \in Package : q # p => LookedAt(q)' = LookedAt(q)
    BY <1>3, <2>1, <2>2 DEF LookedAt
  <2>5. LookedAt(p) = {}
    BY <1>1 DEF LookedAt, Ran
  <2> QED BY <2>3, <2>4, <2>5
<1>7. \A f \in DeclaredIn(p) \ DOMAIN sources[p] : \A i : ~ Hit(p, f, i)
  BY <1>1, HitIs
<1>8. HitsInv'
  BY <1>1, <1>6, <1>7, ProgramSame DEF ExactInv, HitsInv
<1>9. MissesInv'
  BY <1>1, <1>6, ProgramSame DEF ExactInv, MissesInv
<1> QED BY <1>5, <1>8, <1>9

LEMMA ReportExact ==
  ASSUME ExactInv, NEW p \in Package, NEW f \in toReport[p], Report(p, f)
  PROVE  FactsInv' /\ HitsInv' /\ MissesInv'
<1> DEFINE reached == {i \in Reported(p, f) : Reaching(p, f, i) # {}}
<1>1. /\ UNCHANGED <<name, prog, done, tagFacts, propagatorFacts, tags, propagators, suppressed, sources>>
      /\ toReport' = [toReport EXCEPT ![p] = @ \ {f}]
      /\ \E source \in [reached -> sources[p][f]] :
           reports' = reports \cup {[sink |-> <<f, i>>, source |-> <<f, source[i]>>] : i \in reached}
  BY DEF Report
<1>2. PICK source : reports' = reports \cup
                {[sink |-> <<f, i>>, source |-> <<f, source[i]>>] : i \in reached}
  BY <1>1
<1>3. \A a, q : Ran(a, q)' <=> Ran(a, q)
  BY <1>1 DEF Ran
<1>4. toReport'[p] = toReport[p] \ {f} /\ \A q \in Package : q # p => toReport'[q] = toReport[q]
  BY <1>1 DEF ExactInv, IInv, PassInv
<1>5. TagsInv' /\ PropagatorsInv' /\ SourcesInv' /\ LeveeInv'
  BY <1>1, <1>3, <1>4, ProgramSame
  DEF ExactInv, FactsInv, TagsInv, PropagatorsInv, SourcesInv, LeveeInv
<1>6. FactsInv'
  BY <1>1, <1>5, ProgramSame DEF ExactInv, FactsInv
<1>7. /\ Ran("levee", p) /\ Ran("source", p) /\ Ran("fieldtags", p) /\ Ran("suppression", p)
      /\ f \in DOMAIN sources[p] /\ ~prog.useEAR /\ f \in DeclaredIn(p)
  BY DEF ExactInv, FactsInv, LeveeInv, IInv, PassInv, OrderInv, Ran
<1>8. reached = {i \in Sinks(p, f) : Hit(p, f, i)}
  BY <1>7, HitIs
<1> HIDE DEF reached
<1>9. /\ \A q \in Package : LookedAt(q) \subseteq LookedAt(q)'
      /\ \A q \in Package : \A g \in LookedAt(q)' : g \in LookedAt(q) \/ (q = p /\ g = f)
      /\ f \in LookedAt(p)'
  BY <1>1, <1>4, <1>7, ProgramSame DEF LookedAt, Ran
<1>10. HitsInv'
  <2> SUFFICES ASSUME NEW q \in Package, NEW g \in LookedAt(q)', NEW i \in Sinks(q, g), Hit(q, g, i)
               PROVE  \E r \in reports' : r.sink = <<g, i>>
    <3>1. /\ Package' = Package
          /\ \A q, g : Sinks(q, g)' = Sinks(q, g)
          /\ \A q, g, i : Hit(q, g, i)' <=> Hit(q, g, i)
      BY <1>1, ProgramSame
    <3> QED BY <3>1 DEF HitsInv
  <2>1. CASE g \in LookedAt(q)
    <3>1. \E r \in reports : r.sink = <<g, i>>
      BY <2>1 DEF ExactInv, HitsInv
    <3>2. reports \subseteq reports'
      BY <1>2
    <3> QED BY <3>1, <3>2
  <2>2. CASE q = p /\ g = f
    <3>1. i \in reached
      BY <1>8, <2>2
    <3>2. [sink |-> <<f, i>>, source |-> <<f, source[i]>>] \in reports'
      BY <1>2, <3>1
    <3> QED BY <2>2, <3>2
  <2> QED BY <1>9, <2>1, <2>2
<1>11. MissesInv'
  <2> SUFFICES ASSUME NEW r \in reports'
               PROVE  \E q \in Package : \E g \in LookedAt(q)' : \E i \in Sinks(q, g) :
                        r.sink = <<g, i>> /\ Hit(q, g, i)
    <3>1. /\ Package' = Package
          /\ \A q, g : Sinks(q, g)' = Sinks(q, g)
          /\ \A q, g, i : Hit(q, g, i)' <=> Hit(q, g, i)
      BY <1>1, ProgramSame
    <3> QED BY <3>1 DEF MissesInv
  <2>1. CASE r \in reports
    BY <1>9, <2>1 DEF ExactInv, MissesInv
  <2>2. ASSUME NEW i \in reached, r = [sink |-> <<f, i>>, source |-> <<f, source[i]>>]
        PROVE  \E q \in Package : \E g \in LookedAt(q)' : \E j \in Sinks(q, g) :
                 r.sink = <<g, j>> /\ Hit(q, g, j)
    <3>1. i \in Sinks(p, f) /\ Hit(p, f, i) /\ r.sink = <<f, i>>
      BY <1>8, <2>2
    <3> QED BY <1>9, <3>1
  <2> QED BY <1>2, <2>1, <2>2
<1> QED BY <1>6, <1>10, <1>11

LEMMA RunEARExact ==
  ASSUME ExactInv, NEW p \in Package, RunEAR(p)
  PROVE  FactsInv' /\ HitsInv' /\ MissesInv'
<1> DEFINE sinks == UNION {{f} \X Reported(p, f) : f \in DeclaredIn(p)}
           reached == {i \in sinks : Reaches(p, i) # {}}
<1>1. /\ prog.useEAR
      /\ UNCHANGED <<name, prog, tagFacts, propagatorFacts, tags, propagators, suppressed, sources, toReport>>
      /\ ~ Ran("levee", p) /\ done' = done \cup {<<"levee", p>>}
      /\ Ran("fieldtags", p) /\ Ran("source", p) /\ Ran("suppression", p)
      /\ \E source : reports' = reports \cup {[sink |-> i, source |-> source[i]] : i \in reached}
  BY DEF RunEAR, Ends, MayRun, Requires, Ran
<1>2. PICK source : reports' = reports \cup {[sink |-> i, source |-> source[i]] : i \in reached}
  BY <1>1
<1>3. \A a, q : Ran(a, q)' <=> Ran(a, q) \/ (a = "levee" /\ q = p)
  BY <1>1 DEF Ran
<1>4. toReport[p] = {}
  BY <1>1 DEF ExactInv, FactsInv, LeveeInv
<1>5. TagsInv' /\ PropagatorsInv' /\ SourcesInv' /\ LeveeInv'
  BY <1>1, <1>3, ProgramSame
  DEF ExactInv, FactsInv, TagsInv, PropagatorsInv, SourcesInv, LeveeInv
<1>6. FactsInv'
  BY <1>1, <1>5, ProgramSame DEF ExactInv, FactsInv
<1>7. /\ \A f \in DeclaredIn(p) : \A i \in Sinks(p, f) : Hit(p, f, i) => <<f, i>> \in reached
      /\ \A s \in reached : \E f \in DeclaredIn(p) : \E i \in Sinks(p, f) : s = <<f, i>> /\ Hit(p, f, i)
  <2>1. \A f : Reported(p, f) = Sinks(p, f)
    BY <1>1, HitIs
  <2>2. \A f, i : Hit(p, f, i) <=> Reaches(p, <<f, i>>) # {}
    BY <1>1, HitIs
  <2> QED BY <2>1, <2>2
<1> HIDE DEF reached, sinks
<1>8. /\ \A q \in Package : LookedAt(q) \subseteq LookedAt(q)'
      /\ \A q \in Package : q # p => LookedAt(q)' = LookedAt(q)
      /\ \A q \in Package : q = p => LookedAt(q)' = DeclaredIn(p)
  BY <1>1, <1>3, <1>4, ProgramSame DEF LookedAt, Ran
<1>9. HitsInv'
  <2> SUFFICES ASSUME NEW q \in Package, NEW g \in LookedAt(q)', NEW i \in Sinks(q, g), Hit(q, g, i)
               PROVE  \E r \in reports' : r.sink = <<g, i>>
    <3>1. /\ Package' = Package
          /\ \A q, g : Sinks(q, g)' = Sinks(q, g)
          /\ \A q, g, i : Hit(q, g, i)' <=> Hit(q, g, i)
      BY <1>1, ProgramSame
    <3> QED BY <3>1 DEF HitsInv
  <2>1. CASE q # p
    <3>1. g \in LookedAt(q)
      BY <1>8, <2>1
    <3>2. \E r \in reports : r.sink = <<g, i>>
      BY <3>1 DEF ExactInv, HitsInv
    <3>3. reports \subseteq reports'
      BY <1>2
    <3> QED BY <3>2, <3>3
  <2>2. CASE q = p
    <3>1. <<g, i>> \in reached
      BY <1>7, <1>8, <2>2
    <3>2. [sink |-> <<g, i>>, source |-> source[<<g, i>>]] \in reports'
      BY <1>2, <3>1
    <3> QED BY <3>2
  <2> QED BY <2>1, <2>2
<1>10. MissesInv'
  <2> SUFFICES ASSUME NEW r \in reports'
               PROVE  \E q \in Package : \E g \in LookedAt(q)' : \E i \in Sinks(q, g) :
                        r.sink = <<g, i>> /\ Hit(q, g, i)
    <3>1. /\ Package' = Package
          /\ \A q, g : Sinks(q, g)' = Sinks(q, g)
          /\ \A q, g, i : Hit(q, g, i)' <=> Hit(q, g, i)
      BY <1>1, ProgramSame
    <3> QED BY <3>1 DEF MissesInv
  <2>1. CASE r \in reports
    BY <1>8, <2>1 DEF ExactInv, MissesInv
  <2>2. ASSUME NEW s \in reached, r = [sink |-> s, source |-> source[s]]
        PROVE  \E q \in Package : \E g \in LookedAt(q)' : \E j \in Sinks(q, g) :
                 r.sink = <<g, j>> /\ Hit(q, g, j)
    <3>1. PICK f \in DeclaredIn(p) : \E i \in Sinks(p, f) : s = <<f, i>> /\ Hit(p, f, i)
      BY <1>7, <2>2
    <3>2. f \in LookedAt(p)'
      BY <1>8
    <3>3. r.sink = s
      BY <2>2
    <3> QED BY <3>1, <3>2, <3>3
  <2> QED BY <1>2, <2>1, <2>2
<1> QED BY <1>6, <1>9, <1>10

LEMMA NextExact ==
  ASSUME ExactInv, [Next]_leveeVars
  PROVE  ExactInv'
<1>1. IInv'
  BY NextIInv DEF ExactInv
<1>2. ASSUME UNCHANGED leveeVars
      PROVE  FactsInv' /\ HitsInv' /\ MissesInv'
  <2>1. /\ UNCHANGED <<prog, done, tagFacts, propagatorFacts, tags, propagators, sources, toReport, reports>>
        /\ \A a, q : Ran(a, q)' <=> Ran(a, q)
    BY <1>2 DEF leveeVars, Ran
  <2>2. TagsInv' /\ PropagatorsInv' /\ SourcesInv' /\ LeveeInv'
    BY <2>1, ProgramSame
    DEF ExactInv, FactsInv, TagsInv, PropagatorsInv, SourcesInv, LeveeInv
  <2>3. \A q \in Package : LookedAt(q)' = LookedAt(q)
    BY <2>1, ProgramSame DEF LookedAt
  <2> QED BY <2>1, <2>2, <2>3, ProgramSame DEF ExactInv, FactsInv, HitsInv, MissesInv
<1>3. ASSUME NEW p \in Package,
             FieldTags(p) \/ FieldPropagators(p) \/ Suppression(p) \/ Sources(p)
      PROVE  FactsInv' /\ HitsInv' /\ MissesInv'
  <2>1. FactsInv'
    BY <1>3, FieldTagsExact, FieldPropagatorsExact, SuppressionExact, SourcesExact
  <2>2. PICK a \in {"fieldtags", "fieldpropagator", "suppression", "source"} :
          done' = done \cup {<<a, p>>} /\ UNCHANGED <<prog, toReport, reports>>
    BY <1>3 DEF FieldTags, FieldPropagators, Suppression, Sources, Ends
  <2>3. a \in DOMAIN Requires \ {"levee"}
    BY DEF Requires
  <2> QED BY <2>1, <2>2, <2>3, ReportsSame
<1>4. ASSUME NEW p \in Package, StartLevee(p) \/ RunEAR(p) \/ \E f \in toReport[p] : Report(p, f)
      PROVE  FactsInv' /\ HitsInv' /\ MissesInv'
  BY <1>4, StartLeveeExact, RunEARExact, ReportExact
<1> QED BY <1>1, <1>2, <1>3, <1>4 DEF Next, Terminated, ExactInv

(* Whatever the order of the passes and of the loops, and for either       *)
(* engine: if every fact is about an object of its package, as             *)
(* ExportObjectFact insists, the sinks that are reported are those that a  *)
(* source of the program as a whole is connected to and no comment         *)
(* suppresses.                                                             *)
THEOREM ReportsAlwaysExact == Spec => [](FactsAreOwn => ReportsExact)
<1>1. ASSUME ExactInv, FactsAreOwn, Finished,
             NEW p \in Package, NEW f \in DeclaredIn(p), NEW i \in DOMAIN Code(f)
      PROVE  (\E r \in reports : r.sink = <<f, i>>)
               <=> IsSinkAt(f, i) /\ Connected(f, i) /\ ~IsSuppressed(Code(f)[i], SuppressedNodes(p))
  <2>1. \A a \in DOMAIN Requires : \A q \in Package : Ran(a, q)
    BY <1>1 DEF Finished, Ran
  <2>2. IsProgram(prog) /\ \A q \in Package : OwnPropagators(q) \subseteq DeclaredIn(q)
    BY <1>1, <2>1 DEF ExactInv, FactsInv, PropagatorsInv, FactsAreOwn, Requires
  <2>3. \A g \in DeclaredIn(p) : FoundIn(p, g) = SourcesOf(g, AllTags, AllPropagators)
    BY <2>2, SourcesKnown
  <2>4. p \in Imported(p) /\ Imported(p) \subseteq Package
    BY <2>2, ImportedFacts DEF Imported, Package
  <2>5. \A g \in DeclaredIn(p) : g \in Function /\ prog.functions[g].pkg = p
    BY DEF DeclaredIn
  <2>6. \A g \in DeclaredIn(p) : SameTo(g, KnownTags(p), AllTags)
    BY <2>2, <2>4, <2>5, TagsKnown
  <2>7. Hit(p, f, i) <=> Connected(f, i)
    <3>1. CASE ~prog.useEAR
      <4>1. \A s \in FoundIn(p, f) : s \in DOMAIN Code(f)
        BY DEF FoundIn, SourcesOf
      <4>2. \A s \in FoundIn(p, f) : Taint(f, s, KnownTags(p)) = Taint(f, s, AllTags)
        BY <2>2, <2>5, <2>6, <4>1, SameTaint
      <4> QED BY <2>3, <3>1, <4>2 DEF Hit, Connected
    <3>2. CASE prog.useEAR
      <4>1. ASSUME NEW flow \in prog.flows, flow[2] = <<f, i>>
            PROVE  /\ flow[1][1] \in DeclaredIn(p) /\ flow[1] = <<flow[1][1], flow[1][2]>>
                   /\ SourceField(flow[3], KnownTags(p)) <=> SourceField(flow[3], AllTags)
        <5>1. /\ flow[1] = <<flow[1][1], flow[1][2]>>
              /\ flow[1][1] \in Function
              /\ prog.functions[flow[1][1]].pkg = prog.functions[f].pkg
              /\ \A q \in Package : flow[3] \in OwnTags(q) => q \in Imported(prog.functions[flow[1][1]].pkg)
          BY <2>2, <4>1 DEF IsProgram, Function, Package, Imported, OwnTags
        <5>2. flow[1][1] \in DeclaredIn(p) /\ prog.functions[flow[1][1]].pkg = p
          BY <2>5, <5>1 DEF DeclaredIn
        <5>3. flow[3] \in KnownTags(p) <=> flow[3] \in AllTags
          <6>1. AllTags = UNION {OwnTags(q) : q \in Package}
            BY DEF AllTags, OwnTags
          <6> QED BY <2>4, <5>1, <5>2, <6>1 DEF KnownTags
        <5> QED BY <5>1, <5>2, <5>3 DEF SourceField
      <4> QED BY <2>3, <3>2, <4>1 DEF Hit, Connected
    <3> QED BY <3>1, <3>2
  <2>8. f \in LookedAt(p)
    BY <1>1, <2>1 DEF LookedAt, Finished, Ran, Requires
  <2>9. i \in Sinks(p, f) <=> IsSinkAt(f, i) /\ ~IsSuppressed(Code(f)[i], SuppressedNodes(p))
    BY DEF Sinks
  <2>10. ASSUME NEW r \in reports, r.sink = <<f, i>>
         PROVE  i \in Sinks(p, f) /\ Hit(p, f, i)
    <3>1. PICK q \in Package : \E g \in LookedAt(q) : \E j \in Sinks(q, g) : r.sink = <<g, j>> /\ Hit(q, g, j)
      BY <1>1 DEF ExactInv, MissesInv
    <3>2. f \in LookedAt(q) /\ i \in Sinks(q, f) /\ Hit(q, f, i)
      BY <2>10, <3>1
    <3>3. q = p
      BY <3>2, DeclaredOnce DEF LookedAt
    <3> QED BY <3>2, <3>3
  <2>11. i \in Sinks(p, f) /\ Hit(p, f, i) => \E r \in reports : r.sink = <<f, i>>
    BY <1>1, <2>8 DEF ExactInv, HitsInv
  <2> QED BY <2>7, <2>9, <2>10, <2>11
<1>2. ExactInv => (FactsAreOwn => ReportsExact)
  BY <1>1 DEF ReportsExact
<1>3. Spec => []ExactInv
  BY InitExact, NextExact, PTL DEF Spec
<1> QED BY <1>2, <1>3, PTL
=============================================================================
