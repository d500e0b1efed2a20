------------------------------ MODULE Risk_proofs ------------------------------
(***************************************************************************)
(* Risk, for every fleet, catalogue, pillar and number of passes: the      *)
(* level of a host's row stays near its score, and a row is never          *)
(* overwritten with what an older pass read.                               *)
(*                                                                         *)
(* A score is a sum over the pillars, and the library's sums are recursive *)
(* functions on subsets; what the proofs need of them follows from minimal *)
(* counterexamples, as the order of the subsets of a finite set is well    *)
(* founded.                                                                *)
(***************************************************************************)
EXTENDS Risk, FiniteSetTheorems, TLAPS

\* A set of subsets of a finite set has a minimal member.
LEMMA MinimalSubset ==
    ASSUME NEW S, IsFiniteSet(S), NEW T, T \subseteq SUBSET S, T # {}
    PROVE  \E t \in T : \A u \in T : u \subseteq t => u = t
<1>1. FiniteSubsetsOf(S) = SUBSET S
  BY FS_FiniteSubsetsOfFinite
<1>2. IsWellFoundedOn(StrictSubsetOrdering(S), SUBSET S)
  BY <1>1, FS_StrictSubsetOrderingWellFounded
<1>3. PICK t \in T : \A u \in T : ~ (<<u, t>> \in StrictSubsetOrdering(S))
  BY <1>2, WFMin
<1>4. ASSUME NEW u \in T, u \subseteq t, u # t PROVE FALSE
  <2>1. <<u, t>> \in (SUBSET S) \X (SUBSET S)
    OBVIOUS
  <2>2. <<u, t>> \in StrictSubsetOrdering(S)
    BY <2>1, <1>4 DEF StrictSubsetOrdering
  <2> QED BY <2>2, <1>3
<1> QED BY <1>3, <1>4

\* Sets of numbers that sums stay in.
Additive(T) == 0 \in T /\ \A x, y \in T : x + y \in T

\* One step of the recursion by which the library adds up f over a set.
Pick(s) == CHOOSE x \in s : TRUE
Term(f, g, s) == IF s = {} THEN 0 ELSE f[Pick(s)] + g[s \ {Pick(s)}]
SumsUp(f, g, t, T) == g \in [SUBSET t -> T] /\ \A s \in SUBSET t : g[s] = Term(f, g, s)

LEMMA PickIn == ASSUME NEW s, s # {} PROVE Pick(s) \in s
  BY DEF Pick

LEMMA SumsAgree ==
    ASSUME NEW S, IsFiniteSet(S), NEW T, NEW f, NEW u \in SUBSET S, NEW v \in SUBSET S,
           NEW g, SumsUp(f, g, u, T), NEW k, SumsUp(f, k, v, T), NEW s \in SUBSET u, s \subseteq v
    PROVE  g[s] = k[s]
<1> DEFINE Bad == {t \in SUBSET S : t \subseteq u /\ t \subseteq v /\ g[t] # k[t]}
<1>1. SUFFICES ASSUME Bad # {} PROVE FALSE
  OBVIOUS
<1>2. PICK t \in Bad : \A x \in Bad : x \subseteq t => x = t
  <2>1. Bad \subseteq SUBSET S
    OBVIOUS
  <2> HIDE DEF Bad
  <2> QED BY <2>1, <1>1, MinimalSubset
<1>3. g[t] = Term(f, g, t) /\ k[t] = Term(f, k, t)
  BY DEF SumsUp
<1>4. t # {}
  BY <1>3 DEF Term
<1>5. Pick(t) \in t
  BY <1>4, PickIn
<1>6. g[t \ {Pick(t)}] = k[t \ {Pick(t)}]
  BY <1>2, <1>5
<1> QED BY <1>3, <1>4, <1>6 DEF Term

LEMMA SumExists ==
    ASSUME NEW S, IsFiniteSet(S), NEW T, Additive(T), NEW f, \A i \in S : f[i] \in T
    PROVE  \E g : SumsUp(f, g, S, T)
<1> DEFINE Bad == {t \in SUBSET S : ~ \E g : SumsUp(f, g, t, T)}
<1>1. SUFFICES ASSUME Bad # {} PROVE FALSE
  OBVIOUS
<1>2. PICK t \in Bad : \A x \in Bad : x \subseteq t => x = t
  <2>1. Bad \subseteq SUBSET S
    OBVIOUS
  <2> HIDE DEF Bad
  <2> QED BY <2>1, <1>1, MinimalSubset
<1> DEFINE of(s) == CHOOSE g : SumsUp(f, g, s, T)
           V(s) == of(s)[s]
           W == [s \in SUBSET t |-> IF s = {} THEN 0
                                    ELSE IF s = t THEN f[Pick(t)] + V(t \ {Pick(t)}) ELSE V(s)]
<1>3. ASSUME NEW s \in SUBSET t, s # t PROVE SumsUp(f, of(s), s, T)
  <2>1. \E g : SumsUp(f, g, s, T)
    BY <1>2, <1>3
  <2> QED BY <2>1
<1> HIDE DEF of
<1>4. ASSUME NEW s \in SUBSET t, s # t PROVE V(s) \in T
  BY <1>3, <1>4 DEF SumsUp
<1>5. ASSUME NEW s \in SUBSET t, s # {} PROVE s \ {Pick(s)} \in SUBSET t /\ s \ {Pick(s)} # t
  BY <1>5, PickIn
<1>6. ASSUME NEW s \in SUBSET t, s # t, s # {} PROVE V(s) = f[Pick(s)] + V(s \ {Pick(s)})
  <2> DEFINE r == s \ {Pick(s)}
  <2>1. V(s) = f[Pick(s)] + of(s)[r]
    BY <1>3, <1>6 DEF SumsUp, Term
  <2>2. SumsUp(f, of(s), s, T) /\ SumsUp(f, of(r), r, T)
    BY <1>3, <1>5, <1>6
  <2>3. of(s)[r] = of(r)[r]
    BY <2>2, SumsAgree
  <2> QED BY <2>1, <2>3
<1>7. t # {} => V({}) = 0
  BY <1>3 DEF SumsUp, Term
<1>8. \A s \in SUBSET t : s # {} => f[Pick(s)] \in T
  BY PickIn
<1> HIDE DEF V
<1>9. W \in [SUBSET t -> T]
  <2> SUFFICES ASSUME NEW s \in SUBSET t PROVE W[s] \in T
    BY DEF W
  <2>1. CASE s = {} BY <2>1 DEF Additive
  <2>2. CASE s # {} /\ s = t
    BY <2>2, <1>4, <1>5, <1>8 DEF Additive
  <2>3. CASE s # {} /\ s # t
    BY <2>3, <1>4
  <2> QED BY <2>1, <2>2, <2>3
<1>10. ASSUME NEW s \in SUBSET t PROVE W[s] = Term(f, W, s)
  <2>1. CASE s = {} BY <2>1 DEF Term
  <2>2. CASE s # {}
    <3> DEFINE r == s \ {Pick(s)}
    <3>1. r \in SUBSET t /\ r # t /\ t # {}
      BY <2>2, <1>5
    <3>2. W[r] = V(r)
      BY <3>1, <1>7
    <3>3. W[s] = f[Pick(s)] + V(r)
      BY <2>2, <1>6
    <3> QED BY <2>2, <3>2, <3>3 DEF Term
  <2> QED BY <2>1, <2>2
<1>11. SumsUp(f, W, t, T)
  BY <1>9, <1>10 DEF SumsUp
<1> QED BY <1>11, <1>2

\* A sum over a finite set stays in a set of numbers that is closed under addition.
LEMMA SumIn ==
    ASSUME NEW S, IsFiniteSet(S), NEW T, Additive(T), NEW f, \A i \in S : f[i] \in T
    PROVE  SumFunctionOnSet(f, S) \in T
<1>1. PICK g : SumsUp(f, g, S, T)
  BY SumExists
<1> DEFINE Is(k) == k = [s \in SUBSET S |-> IF s = {} THEN 0
                                    ELSE f[CHOOSE x \in s : TRUE] + k[s \ {CHOOSE x \in s : TRUE}]]
           Fold == CHOOSE k : Is(k)
<1>2. SumFunctionOnSet(f, S) = Fold[S]
  BY Zenon DEF SumFunctionOnSet, FoldFunctionOnSet, MapThenFoldSet
<1>3. Is(g)
  BY <1>1 DEF SumsUp, Term, Pick
<1>4. Is(Fold)
  BY <1>3, Zenon
<1> HIDE DEF Fold
<1>5. ASSUME NEW s \in SUBSET S PROVE Fold[s] = IF s = {} THEN 0 ELSE f[Pick(s)] + Fold[s \ {Pick(s)}]
  BY <1>4 DEF Pick
<1> DEFINE Bad == {s \in SUBSET S : Fold[s] # g[s]}
<1>6. Bad = {}
  <2> SUFFICES ASSUME Bad # {} PROVE FALSE
    OBVIOUS
  <2>1. PICK t \in Bad : \A x \in Bad : x \subseteq t => x = t
    <3>1. Bad \subseteq SUBSET S
      OBVIOUS
    <3> HIDE DEF Bad
    <3> QED BY <3>1, MinimalSubset
  <2>2. Fold[t] = IF t = {} THEN 0 ELSE f[Pick(t)] + Fold[t \ {Pick(t)}]
    BY <1>5
  <2>3. g[t] = IF t = {} THEN 0 ELSE f[Pick(t)] + g[t \ {Pick(t)}]
    BY <1>1 DEF SumsUp, Term
  <2>4. CASE t # {}
    <3>1. Pick(t) \in t
      BY <2>4, PickIn
    <3>2. Fold[t \ {Pick(t)}] = g[t \ {Pick(t)}]
      BY <2>1, <3>1
    <3> QED BY <2>2, <2>3, <2>4, <3>2
  <2> QED BY <2>2, <2>3, <2>4
<1>7. Fold[S] = g[S]
  BY <1>6
<1> QED BY <1>2, <1>7, <1>1 DEF SumsUp
LEMMA IntegerSum ==
    ASSUME NEW S, IsFiniteSet(S), NEW f, \A i \in S : f[i] \in Int
    PROVE  SumFunctionOnSet(f, S) \in Int
<1>1. Additive(Int)
  BY DEF Additive
<1> QED BY <1>1, SumIn

LEMMA NaturalSum ==
    ASSUME NEW S, IsFiniteSet(S), NEW f, \A i \in S : f[i] \in Nat
    PROVE  SumFunctionOnSet(f, S) \in Nat
<1>1. Additive(Nat)
  BY DEF Additive
<1> QED BY <1>1, SumIn

\* The same for the sum of a function over its domain.
LEMMA SumOverDomain ==
    ASSUME NEW S, NEW f, DOMAIN f = S
    PROVE  SumFunction(f) = SumFunctionOnSet(f, S)
  BY Zenon DEF SumFunction

--------------------------------------------------------------------------------
(* The scorers give whole numbers, and the blend one from 0 to 100.              *)

LEMMA AtMostInt == ASSUME NEW n \in Int, NEW x \in Int PROVE AtMost(n, x) \in Int /\ AtMost(n, x) <= n
  BY DEF AtMost

LEMMA PillarsFinite == IsFiniteSet(Pillars) /\ IsFiniteSet(ConfigRules)
<1>1. IsFiniteSet({})
  BY FS_EmptySet
<1>2. \A S, x : IsFiniteSet(S) => IsFiniteSet(S \cup {x})
  BY FS_AddElement
<1>3. IsFiniteSet((((({} \cup {"vulnerabilities"}) \cup {"configuration"}) \cup {"identity"}) \cup {"hygiene"}))
  BY <1>1, <1>2
<1>4. IsFiniteSet((((((({} \cup {"sshd_passwordauth"}) \cup {"sshd_permitrootlogin"}) \cup {"kernel_aslr"})
                  \cup {"fs_shadow_perms"}) \cup {"release_signing_not_configured"})
                  \cup {"update_engine_not_configured"}))
  BY <1>1, <1>2
<1>5. Pillars = (((({} \cup {"vulnerabilities"}) \cup {"configuration"}) \cup {"identity"}) \cup {"hygiene"})
  BY DEF Pillars
<1>6. ConfigRules = ((((((({} \cup {"sshd_passwordauth"}) \cup {"sshd_permitrootlogin"}) \cup {"kernel_aslr"})
                  \cup {"fs_shadow_perms"}) \cup {"release_signing_not_configured"})
                  \cup {"update_engine_not_configured"}))
  BY DEF ConfigRules
<1> QED BY <1>3, <1>4, <1>5, <1>6

LEMMA BaseNat == ASSUME NEW sev PROVE Base(sev) \in Nat
  BY DEF Base
LEMMA TierFactorNat == ASSUME NEW t PROVE TierFactor(t) \in Nat
  BY DEF TierFactor
LEMMA SevWeightInt == ASSUME NEW sev PROVE SevWeight(sev) \in Int
  BY DEF SevWeight
LEMMA ProductNat == ASSUME NEW x \in Nat, NEW y \in Nat PROVE x * y \in Nat
  OBVIOUS
LEMMA ProductInt == ASSUME NEW x \in Int, NEW y \in Int PROVE x * y \in Int
  OBVIOUS
LEMMA HundredthNat == ASSUME NEW x \in Nat PROVE x \div 100 \in Nat
  OBVIOUS

LEMMA ContributionNat ==
    ASSUME NEW a, a.epss \in Nat
    PROVE  Contribution(a) \in Nat
<1> DEFINE bonus == IF a.kev THEN 40 ELSE 0
           b == 10 + bonus + 3 * a.epss
           x == Base(a.sev) * b
           y == x * TierFactor(a.tier)
<1>1. bonus \in Nat
  OBVIOUS
<1> HIDE DEF bonus
<1>2. b \in Nat
  BY <1>1
<1> HIDE DEF b
<1>3. x \in Nat
  BY <1>2, BaseNat, ProductNat
<1> HIDE DEF x
<1>4. y \in Nat
  BY <1>3, TierFactorNat, ProductNat
<1> HIDE DEF y
<1>5. y \div 100 \in Nat
  BY <1>4, HundredthNat
<1>6. Contribution(a) = IF a.status # "open" THEN 0 ELSE y \div 100
  BY Zenon DEF Contribution, y, x, b, bonus
<1> QED BY <1>5, <1>6

\* A sub-score is a pair of whole numbers.
IsSub(r) == r.score \in Int /\ r.conf \in Int

\* The exponential, in whole numbers.
LEMMA SaturateValue == ASSUME NEW x \in 0..SaturateAt PROVE Saturate[x] \in Int
<1>1. Saturate \in [0..SaturateAt -> 0..1000]
  BY ZenonT(60), RiskScoreAssumption
<1>2. \A y \in 0..SaturateAt : Saturate[y] \in 0..1000
  BY ZenonT(60), <1>1
<1>3. Saturate[x] \in 0..1000
  BY ZenonT(60), <1>2
<1> QED BY <1>3

LEMMA VulnerabilitySub ==
    ASSUME NEW advs, IsFiniteSet(advs), \A a \in advs : a.epss \in Nat, NEW i, NEW s
    PROVE  IsSub(VulnerabilityScore(advs, i, s))
<1> DEFINE f == [a \in advs |-> Contribution(a)]
           n == AtMost(SaturateAt, SumFunction(f))
           c == (IF i THEN 10 ELSE 4) * (IF s THEN 100 ELSE 30)
<1>1. \A a \in advs : f[a] \in Nat
  BY ContributionNat
<1>2. DOMAIN f = advs
  OBVIOUS
<1> HIDE DEF f
<1>3. SumFunction(f) \in Nat
  BY <1>1, <1>2, NaturalSum, SumOverDomain
<1>4. n \in 0..SaturateAt
  BY <1>3, RiskScoreAssumption DEF AtMost
<1> HIDE DEF n
<1>5. Saturate[n] \in Int
  BY Zenon, <1>4, SaturateValue
<1>6. c \in Int
  OBVIOUS
<1> HIDE DEF c
<1>7. VulnerabilityScore(advs, i, s) = [score |-> Saturate[n], conf |-> c]
  BY Zenon DEF VulnerabilityScore, n, c, f
<1> QED BY <1>5, <1>6, <1>7 DEF IsSub

\* The weights of any finite set of findings add up to a whole number.
LEMMA FindingSum ==
    ASSUME NEW F, IsFiniteSet(F)
    PROVE  SumFunction([f \in F |-> SevWeight(f.sev)]) \in Int
<1> DEFINE g == [f \in F |-> SevWeight(f.sev)]
<1>1. \A f \in F : g[f] \in Int
  BY SevWeightInt
<1>2. DOMAIN g = F
  OBVIOUS
<1> HIDE DEF g
<1>3. SumFunction(g) \in Int
  BY <1>1, <1>2, IntegerSum, SumOverDomain
<1> QED BY <1>3 DEF g

LEMMA ConfigurationSub ==
    ASSUME NEW finds, IsFiniteSet(finds), NEW s
    PROVE  IsSub(ConfigurationScore(finds, s))
<1> DEFINE of(rule) == {f \in finds : f.rule = rule}
           capped(rule) == AtMost(350, SumFunction([f \in of(rule) |-> SevWeight(f.sev)]))
           g == [rule \in ConfigRules |-> capped(rule)]
           c == IF s THEN 400 ELSE 300
<1>1. ASSUME NEW rule PROVE capped(rule) \in Int
  <2>1. IsFiniteSet(of(rule))
    BY FS_Subset
  <2> HIDE DEF of
  <2>2. SumFunction([f \in of(rule) |-> SevWeight(f.sev)]) \in Int
    BY <2>1, FindingSum
  <2> QED BY <2>2, AtMostInt
<1> HIDE DEF capped
<1>2. \A rule \in ConfigRules : g[rule] \in Int
  BY <1>1
<1>3. DOMAIN g = ConfigRules
  OBVIOUS
<1> HIDE DEF g
<1>4. SumFunction(g) \in Int
  BY <1>2, <1>3, IntegerSum, SumOverDomain, PillarsFinite
<1>5. AtMost(1000, SumFunction(g)) \in Int
  BY <1>4, AtMostInt
<1>6. c \in Int
  OBVIOUS
<1> HIDE DEF c
<1>7. ConfigurationScore(finds, s) = [score |-> AtMost(1000, SumFunction(g)), conf |-> c]
  BY Zenon DEF ConfigurationScore, g, c, capped, of
<1> QED BY <1>5, <1>6, <1>7 DEF IsSub

LEMMA IdentitySub ==
    ASSUME NEW finds, IsFiniteSet(finds)
    PROVE  IsSub(IdentityScore(finds))
<1> DEFINE counted == {f \in finds : f.rule \in IdentityRules}
           total == SumFunction([f \in counted |-> SevWeight(f.sev)])
           v == IF total \in 1..49 THEN 50 ELSE total
<1>1. IsFiniteSet(counted)
  BY FS_Subset
<1> HIDE DEF counted
<1>2. total \in Int
  BY <1>1, FindingSum
<1> HIDE DEF total
<1>3. v \in Int
  BY <1>2
<1> HIDE DEF v
<1>4. AtMost(1000, v) \in Int
  BY <1>3, AtMostInt
<1>5. IdentityScore(finds) = [score |-> AtMost(1000, v), conf |-> 1000]
  BY Zenon DEF IdentityScore, v, total, counted
<1> QED BY <1>4, <1>5 DEF IsSub

LEMMA HygieneSub ==
    ASSUME NEW k, NEW d \in Nat
    PROVE  IsSub(HygieneScore(k, d))
<1> DEFINE c == CASE k.cert = "week" -> 400 [] k.cert = "month" -> 150 [] OTHER -> 0
           b == CASE k.beat = "never" -> 250 [] k.beat = "late" -> 200 [] OTHER -> 0
           f == IF k.failed THEN 150 ELSE 0
           v == c + b + f + 80 * d
           conf == IF k.beat = "never" THEN 700 ELSE 1000
<1>1. c \in Int /\ b \in Int /\ f \in Int /\ conf \in Int
  OBVIOUS
<1> HIDE DEF c, b, f, conf
<1>2. v \in Int
  BY <1>1
<1> HIDE DEF v
<1>3. AtMost(1000, v) \in Int
  BY <1>2, AtMostInt
<1>4. HygieneScore(k, d) = [score |-> AtMost(1000, v), conf |-> conf]
  BY Zenon DEF HygieneScore, v, c, b, f, conf
<1> QED BY <1>1, <1>3, <1>4 DEF IsSub

LEMMA RoundedScore == ASSUME NEW x \in 0..1000 PROVE (x + 5) \div 10 \in 0..100
  OBVIOUS

\* What blend returns: None, or a score from 0 to 100.
LEMMA BlendInRange ==
    ASSUME NEW subs, NEW w, DOMAIN subs \subseteq Pillars,
           \A n \in DOMAIN subs : IsSub(subs[n]), \A n \in DOMAIN subs : w[n] \in Int
    PROVE  Blend(subs, w, None) \in (0..100) \cup {None}
<1> DEFINE counted == {n \in DOMAIN subs : n \in DOMAIN w /\ w[n] > 0}
           fd == [n \in Pillars |-> w[n] * subs[n].conf]
           fn == [n \in Pillars |-> subs[n].score * w[n] * subs[n].conf]
           den == SumFunctionOnSet(fd, counted)
           num == SumFunctionOnSet(fn, counted)
           hot == HotPillar(subs, w)
           others == SumFunctionOnSet([n \in Pillars |-> subs[n].score * w[n]], counted \ hot)
           lifted == hot # {} /\ others < 2500
           mean == num \div den
           tenths == IF lifted /\ mean < 500 THEN 500 ELSE mean
<1>0. Blend(subs, w, None) = IF den < 10000 THEN None ELSE (Clamp[tenths] + 5) \div 10
  BY SMTT(30) DEF Blend
<1>1. IsFiniteSet(counted)
  BY PillarsFinite, FS_Subset
<1>2. \A n \in counted : fd[n] \in Int
  BY ProductInt DEF IsSub
<1>3. \A n \in counted : fn[n] \in Int
  BY ProductInt DEF IsSub
<1> HIDE DEF counted, fd, fn
<1>4. den \in Int
  BY <1>1, <1>2, IntegerSum
<1>5. num \in Int
  BY <1>1, <1>3, IntegerSum
<1> HIDE DEF den, num, hot, others
<1>6. CASE den >= 10000
  <2>1. mean \in Int
    BY <1>4, <1>5, <1>6
  <2> HIDE DEF mean, lifted
  <2>2. tenths \in Int
    BY <2>1
  <2> HIDE DEF tenths
  <2>3. Clamp[tenths] \in 0..1000
    BY <2>2 DEF Clamp, AtMost
  <2>4. (Clamp[tenths] + 5) \div 10 \in 0..100
    BY <2>3, RoundedScore
  <2> QED BY <2>4, <1>0
<1>7. CASE den < 10000
  BY <1>7, <1>0
<1> QED BY <1>4, <1>6, <1>7

--------------------------------------------------------------------------------
(* The labels and the hysteresis.                                                *)

Upper(i) == Threshold[i].upper
Level(i) == Threshold[i].level

LEMMA Thresholds ==
    /\ Len(Threshold) = 6
    /\ Upper(1) = 0 /\ Upper(2) = 15 /\ Upper(3) = 35 /\ Upper(4) = 55 /\ Upper(5) = 75 /\ Upper(6) = 100
    /\ Level(1) = "minimal" /\ Level(2) = "stable" /\ Level(3) = "moderate"
    /\ Level(4) = "elevated" /\ Level(5) = "high" /\ Level(6) = "severe"
  BY DEF Threshold, Upper, Level

LEMMA SixLevels == \A i \in 1..6 : i = 1 \/ i = 2 \/ i = 3 \/ i = 4 \/ i = 5 \/ i = 6
  OBVIOUS

\* The bounds grow with the level.
LEMMA UppersGrow ==
    \A i, k \in 1..6 : Upper(i) \in Int /\ (i < k => Upper(i) < Upper(k))
  BY Thresholds, SixLevels

LEMMA LevelsDiffer == \A i, k \in 1..6 : Level(i) = Level(k) => i = k
  BY Thresholds, SixLevels

LEMMA NamedLevels == \A l : l \in Levels \ {"unknown"} <=> \E i \in 1..6 : l = Level(i)
<1>1. Levels = {Level(i) : i \in 1..6} \cup {"unknown"}
  BY Thresholds DEF Levels, Level
<1>2. \A i \in 1..6 : Level(i) # "unknown"
  BY Thresholds, SixLevels
<1> QED BY <1>1, <1>2

LEMMA IndexOfLevel == ASSUME NEW k \in 1..6 PROVE Index(Level(k)) = k
<1>1. Index(Level(k)) = CHOOSE i \in 1..6 : Level(i) = Level(k)
  BY Thresholds DEF Index, Level
<1> QED BY <1>1, LevelsDiffer

LEMMA EdgesOfLevel ==
    ASSUME NEW k \in 1..6
    PROVE  /\ UpperEdge(Level(k)) = Upper(k)
           /\ LowerEdge(Level(k)) = IF k = 1 THEN 0 ELSE Upper(k - 1)
  BY IndexOfLevel DEF UpperEdge, LowerEdge, Upper

\* label_for: the first level whose bound the score does not pass.
LEMMA LabelOfScore ==
    ASSUME NEW x \in 0..100
    PROVE  \E i \in 1..6 : /\ LabelFor(x) = Level(i)
                           /\ x <= Upper(i)
                           /\ \A j \in 1..(i - 1) : x > Upper(j)
<1> DEFINE First(i) == x <= Upper(i) /\ \A j \in 1..(i - 1) : x > Upper(j)
<1>1. \E i \in 1..6 : First(i)
  <2>1. CASE x <= 0 BY <2>1, Thresholds, SMT
  <2>2. CASE x > 0 /\ x <= 15
    <3>1. \A j \in 1..(2 - 1) : j = 1 OBVIOUS
    <3>2. First(2) BY <2>2, <3>1, Thresholds
    <3> QED BY <3>2
  <2>3. CASE x > 15 /\ x <= 35
    <3>1. \A j \in 1..(3 - 1) : j = 1 \/ j = 2 OBVIOUS
    <3>2. First(3) BY <2>3, <3>1, Thresholds
    <3> QED BY <3>2
  <2>4. CASE x > 35 /\ x <= 55
    <3>1. \A j \in 1..(4 - 1) : j = 1 \/ j = 2 \/ j = 3 OBVIOUS
    <3>2. First(4) BY <2>4, <3>1, Thresholds
    <3> QED BY <3>2
  <2>5. CASE x > 55 /\ x <= 75
    <3>1. \A j \in 1..(5 - 1) : j = 1 \/ j = 2 \/ j = 3 \/ j = 4 OBVIOUS
    <3>2. First(5) BY <2>5, <3>1, Thresholds
    <3> QED BY <3>2
  <2>6. CASE x > 75
    <3>1. \A j \in 1..(6 - 1) : j = 1 \/ j = 2 \/ j = 3 \/ j = 4 \/ j = 5 OBVIOUS
    <3>2. First(6) BY <2>6, <3>1, Thresholds
    <3> QED BY <3>2
  <2> QED BY <2>1, <2>2, <2>3, <2>4, <2>5, <2>6
<1>2. LabelFor(x) = Level(CHOOSE i \in 1..6 : First(i))
  BY Thresholds DEF LabelFor, Level, Upper
<1> HIDE DEF First
<1>3. First(CHOOSE i \in 1..6 : First(i)) /\ (CHOOSE i \in 1..6 : First(i)) \in 1..6
  BY <1>1, Zenon
<1> QED BY <1>2, <1>3 DEF First

\* A level that is the score's label, or whose band the score has left by less than
\* Band points: the disjunction of LevelNearScore.
Near(l, x) ==
    \/ l = LabelFor(x)
    \/ l \in Levels \ {"unknown"} /\ x > LowerEdge(l) - Band /\ x < UpperEdge(l) + Band

LEMMA HysteresisNear ==
    ASSUME NEW x \in 0..100, NEW prev \in Levels \ {"unknown"}
    PROVE  Hysteresis(x, prev) \in Levels \ {"unknown"} /\ Near(Hysteresis(x, prev), x)
<1>1. PICK k \in 1..6 : prev = Level(k)
  BY NamedLevels
<1>2. PICK i \in 1..6 : LabelFor(x) = Level(i) /\ x <= Upper(i) /\ \A j \in 1..(i - 1) : x > Upper(j)
  BY LabelOfScore
<1>3. LabelFor(x) \in Levels \ {"unknown"}
  BY <1>2, NamedLevels
<1>4. Index(prev) = k /\ Index(LabelFor(x)) = i
  BY <1>1, <1>2, IndexOfLevel
<1>5. UpperEdge(prev) = Upper(k) /\ LowerEdge(prev) = IF k = 1 THEN 0 ELSE Upper(k - 1)
  BY <1>1, EdgesOfLevel
<1>6. Hysteresis(x, prev) =
        IF LabelFor(x) = prev THEN LabelFor(x)
        ELSE IF i > k
             THEN IF x >= UpperEdge(prev) + Band THEN LabelFor(x) ELSE prev
             ELSE IF x <= LowerEdge(prev) - Band THEN LabelFor(x) ELSE prev
  BY <1>4 DEF Hysteresis
<1>7. CASE Hysteresis(x, prev) = LabelFor(x)
  BY <1>7, <1>3 DEF Near
<1>8. CASE Hysteresis(x, prev) # LabelFor(x) /\ i > k
  <2>1. Hysteresis(x, prev) = prev /\ ~(x >= UpperEdge(prev) + Band)
    BY <1>6, <1>8
  <2>2. x > Upper(k)
    BY <1>2, <1>8
  <2>3. LowerEdge(prev) <= Upper(k) /\ LowerEdge(prev) \in Int /\ Upper(k) \in Int
    BY <1>5, UppersGrow, Thresholds
  <2> QED BY <2>1, <2>2, <2>3, <1>5 DEF Near, Band
<1>9. CASE Hysteresis(x, prev) # LabelFor(x) /\ ~(i > k)
  <2>1. Hysteresis(x, prev) = prev /\ ~(x <= LowerEdge(prev) - Band)
    BY <1>6, <1>9
  <2>2. x <= Upper(k) /\ Upper(k) \in Int
    BY <1>2, <1>9, UppersGrow
  <2>3. LowerEdge(prev) \in Int
    BY <1>5, UppersGrow, Thresholds
  <2> QED BY <2>1, <2>2, <2>3, <1>5 DEF Near, Band
<1> QED BY <1>7, <1>8, <1>9

--------------------------------------------------------------------------------
(* The inductive invariant.                                                      *)

\* The catalog's scores are numbers, and an EPSS or KEV sync writes to records only.
CatalogInv ==
    /\ DOMAIN catalog = Adv
    /\ \A a \in Adv : catalog[a] # None => "epss" \in DOMAIN catalog[a] /\ catalog[a].epss \in Nat
    /\ feed # None /\ feed.pc = "write" =>
         /\ "pc" \in DOMAIN feed /\ "name" \in DOMAIN feed /\ "todo" \in DOMAIN feed
         /\ feed.name # "osv" => \A a \in feed.todo : catalog[a] # None

\* The match loop handles hosts.
MatchInv ==
    /\ matchQ \in Seq(Host)
    /\ match # None => match.h \in Host

\* An inspection asks for hosts, and the findings are finitely many.
InspectInv ==
    /\ IsFiniteSet(found)
    /\ insp # None /\ insp.pc \in {"store", "ask"} =>
         /\ "pc" \in DOMAIN insp /\ "asks" \in DOMAIN insp
         /\ insp.asks \subseteq Host

ConfigInv ==
    /\ drift \in Nat
    /\ \A n \in DOMAIN cfg.weights : cfg.weights[n] \in 0..100

\* A recompute from its load to its save holds its host's lock, and what it has read is
\* not older than the row.
RecomputeInv(p) ==
    /\ rc[p] # Idle => rc[p].pc \in {"ask", "load", "score", "save"} /\ rc[p].h \in Host
    /\ rc[p].pc \in {"ask", "load"} => DOMAIN rc[p] = {"pc", "h", "debounced", "force"}
    /\ rc[p].pc \in {"load", "score", "save"} => lock[rc[p].h] = p
    /\ rc[p].pc \in {"score", "save"} =>
         /\ rc[p].rev \in Nat /\ rc[p].rev <= rev[rc[p].h]
         /\ row[rc[p].h] # None => row[rc[p].h].rev <= rc[p].rev
    /\ rc[p].pc = "score" => IsFiniteSet(rc[p].finds)
    /\ rc[p].pc = "save" => rc[p].score \in (0..100) \cup {None}

\* A row is not newer than the tables, and its level is near its score.
RowInv(h) ==
    row[h] # None =>
      /\ row[h].rev \in Nat /\ row[h].rev <= rev[h]
      /\ row[h].score = None => row[h].level = "unknown"
      /\ row[h].score # None => /\ row[h].score \in 0..100
                                /\ row[h].level \in Levels \ {"unknown"}
                                /\ Near(row[h].level, row[h].score)

CoreInv ==
    /\ rev \in [Host -> Nat]
    /\ DOMAIN rc = Caller /\ DOMAIN lock = Host /\ DOMAIN row = Host
    /\ \A p \in Caller : RecomputeInv(p)
    /\ \A h \in Host : RowInv(h)

IInv == CatalogInv /\ MatchInv /\ InspectInv /\ ConfigInv /\ CoreInv

--------------------------------------------------------------------------------
(* The steps, by what they change of what the invariant is about.                *)

RevGrows == rev' \in [Host -> Nat] /\ \A h \in Host : rev[h] <= rev'[h]

FeedMove ==
    \/ StartFeed \/ FinishFeed \/ FailFeed
    \/ \E content, allow : FetchOsv(content, allow)
    \/ \E names : FetchScores(names)
    \/ \E a \in Adv : WriteOsv(a) \/ WriteScore(a)
    \/ UNCHANGED <<catalog, feed>>

MatchMove ==
    \/ MatchTake \/ MatchRead \/ MatchQuery \/ MatchWrite \/ MatchFail
    \/ \E h \in Host : InventoryUnread(h) \/ \E v : InventoryArrives(h, v)

\* Steps that change at most rev of what the invariant is about.
Passive ==
    /\ UNCHANGED <<catalog, feed, matchQ, match, insp, found, cfg, drift, rc, lock, row>>
    /\ RevGrows

InspectMove ==
    \/ InspectOrg \/ InspectHosts
    \/ \E f : InspectStore(f)
    \/ \E over : InspectExpire(over)
    \/ InspectAsk /\ insp.asks = {}

\* Caller p asks for a recompute of h.
Asked(p, h) ==
    /\ rc[p] = Idle
    /\ rc' = [rc EXCEPT ![p] = rc'[p]]
    /\ rc'[p].pc = "ask" /\ rc'[p].h = h
    /\ DOMAIN rc'[p] = {"pc", "h", "debounced", "force"}
    /\ UNCHANGED <<catalog, feed, matchQ, found, cfg, drift, lock, row, rev>>
    /\ MatchInv' /\ InspectInv'

Recomputing(p) ==
    \/ Acquire(p) \/ RecomputeSave(p) \/ RecomputeFail(p)
    \/ \E blind \in BOOLEAN : RecomputeLoad(p, blind)
    \/ \E failing : RecomputeScore(p, failing)

LEMMA BumpGrows == ASSUME rev \in [Host -> Nat], NEW h, Bump(h) PROVE RevGrows
<1>1. rev' = [x \in Host |-> IF x = h THEN rev[h] + 1 ELSE rev[x]]
  BY DEF Bump
<1>2. \A x \in Host : rev'[x] \in Nat /\ rev[x] <= rev'[x]
  BY <1>1
<1> QED BY <1>1, <1>2 DEF RevGrows

LEMMA RevStays == ASSUME rev \in [Host -> Nat], rev' = rev PROVE RevGrows
  BY DEF RevGrows

\* Ask, without the values of its flags.
LEMMA AskAsks ==
    ASSUME NEW p \in Caller, NEW h, NEW d, NEW force, DOMAIN rc = Caller, Ask(p, h, d, force)
    PROVE  /\ rc[p] = Idle /\ rc' = [rc EXCEPT ![p] = rc'[p]]
           /\ rc'[p].pc = "ask" /\ rc'[p].h = h
           /\ DOMAIN rc'[p] = {"pc", "h", "debounced", "force"}
  BY DEF Ask

LEMMA PassiveSteps ==
    ASSUME rev \in [Host -> Nat], NEW h \in Host
    PROVE  /\ \A failed : Heartbeat(h, failed) => Passive
           /\ Ages(h) => Passive
           /\ \A m : FactsArrive(h, m) => Passive
           /\ SurveyReplaces(h) => Passive
           /\ \A s : ScanLoad(h, s) /\ UNCHANGED riskVars => Passive
           /\ \A a : SuppressAdvisory(h, a) /\ UNCHANGED riskVars => Passive
           /\ \A a : UnsuppressAdvisory(h, a) /\ UNCHANGED riskVars => Passive
           /\ ScanIngest(h) /\ UNCHANGED riskVars => Passive
           /\ Elapse(h) => Passive
<1>1. ASSUME NEW failed, Heartbeat(h, failed) PROVE Passive
  BY <1>1, BumpGrows DEF Heartbeat, Passive, feedVars
<1>2. ASSUME Ages(h) PROVE Passive
  BY <1>2, RevStays DEF Ages, Passive, feedVars, matchVars
<1>3. ASSUME NEW m, FactsArrive(h, m) PROVE Passive
  BY <1>3, RevStays DEF FactsArrive, Passive, feedVars, matchVars
<1>4. ASSUME SurveyReplaces(h) PROVE Passive
  BY <1>4, RevStays DEF SurveyReplaces, Passive, feedVars, matchVars
<1>5. ASSUME NEW s, ScanLoad(h, s), UNCHANGED riskVars PROVE Passive
  BY <1>5, RevStays DEF ScanLoad, Passive, feedVars, riskVars
<1>6. ASSUME NEW a, NEW s, SetStatus(h, a, s), UNCHANGED riskVars PROVE Passive
  BY <1>6, BumpGrows DEF SetStatus, Passive, feedVars, riskVars
<1>7. ASSUME ScanIngest(h), UNCHANGED riskVars PROVE Passive
  <2>1. RevGrows
    BY <1>7, BumpGrows, RevStays DEF ScanIngest
  <2> QED BY <1>7, <2>1 DEF ScanIngest, Passive, feedVars, riskVars
<1>8. ASSUME Elapse(h) PROVE Passive
  BY <1>8, RevStays DEF Elapse, Passive, feedVars, matchVars
<1> QED BY <1>1, <1>2, <1>3, <1>4, <1>5, <1>6, <1>7, <1>8 DEF SuppressAdvisory, UnsuppressAdvisory

LEMMA OtherPassiveSteps ==
    ASSUME rev \in [Host -> Nat]
    PROVE  /\ \A c : OrgChanges(c) => Passive
           /\ \A f : SuppressFinding(f) => Passive
           /\ SweepWake => Passive
<1>1. ASSUME NEW c, OrgChanges(c) PROVE Passive
  BY <1>1, RevStays DEF OrgChanges, Passive, feedVars, matchVars
<1>2. ASSUME NEW f, SuppressFinding(f) PROVE Passive
  BY <1>2, RevStays DEF SuppressFinding, Passive, feedVars, matchVars
<1>3. ASSUME SweepWake PROVE Passive
  BY <1>3, RevStays DEF SweepWake, Passive, feedVars, matchVars
<1> QED BY <1>1, <1>2, <1>3

LEMMA UnchangedMatch == ASSUME MatchInv, UNCHANGED <<matchQ, match>> PROVE MatchInv'
  BY DEF MatchInv
LEMMA UnchangedInspect == ASSUME InspectInv, UNCHANGED <<found, insp>> PROVE InspectInv'
  BY DEF InspectInv

LEMMA AskingSteps ==
    ASSUME DOMAIN rc = Caller, MatchInv, InspectInv
    PROVE  /\ \A h \in Host, p \in ApiTask : GetHostRisk(p, h) => Asked(p, h)
           /\ \A h \in Host, p \in ApiTask : RecomputeHostRisk(p, h) => Asked(p, h)
           /\ \A h \in Host, p \in ApiTask : HostAction(p, h) => Asked(p, h)
           /\ \A h \in Host : ScanAsk(h) => Asked(h, h)
           /\ \A h \in Host : SweepAsk(h) => Asked("sweep", h)
           /\ MatchAsk => Asked("match", match.h)
<1>1. ASSUME NEW h \in Host, NEW p \in ApiTask, NEW d, NEW force, ApiAsk(p, h, d, force) PROVE Asked(p, h)
  <2>1. p \in Caller
    BY DEF Caller
  <2>2. Ask(p, h, d, force)
    BY <1>1 DEF ApiAsk
  <2>3. UNCHANGED <<catalog, feed, matchQ, match, insp, found, cfg, drift, lock, row, rev>>
    BY <1>1 DEF ApiAsk, matchVars, feedVars
  <2>4. MatchInv' /\ InspectInv'
    BY <2>3, UnchangedMatch, UnchangedInspect
  <2> QED BY <2>1, <2>2, <2>3, <2>4, AskAsks DEF Asked
<1>2. ASSUME NEW h \in Host, ScanAsk(h) PROVE Asked(h, h)
  <2>1. h \in Caller
    BY DEF Caller
  <2>2. Ask(h, h, TRUE, FALSE)
    BY <1>2 DEF ScanAsk, Request
  <2>3. UNCHANGED <<catalog, feed, matchQ, match, insp, found, cfg, drift, lock, row, rev>>
    BY <1>2 DEF ScanAsk, feedVars
  <2>4. MatchInv' /\ InspectInv'
    BY <2>3, UnchangedMatch, UnchangedInspect
  <2> QED BY <2>1, <2>2, <2>3, <2>4, AskAsks DEF Asked
<1>3. ASSUME NEW h \in Host, SweepAsk(h) PROVE Asked("sweep", h)
  <2>1. "sweep" \in Caller
    BY DEF Caller
  <2>2. Ask("sweep", h, TRUE, FALSE)
    BY <1>3 DEF SweepAsk, Request
  <2>3. UNCHANGED <<catalog, feed, matchQ, match, insp, found, cfg, drift, lock, row, rev>>
    BY <1>3 DEF SweepAsk, matchVars, feedVars
  <2>4. MatchInv' /\ InspectInv'
    BY <2>3, UnchangedMatch, UnchangedInspect
  <2> QED BY <2>1, <2>2, <2>3, <2>4, AskAsks DEF Asked
<1>4. ASSUME MatchAsk PROVE Asked("match", match.h)
  <2>1. "match" \in Caller
    BY DEF Caller
  <2>2. Ask("match", match.h, TRUE, FALSE)
    BY <1>4 DEF MatchAsk, Request
  <2>3. UNCHANGED <<catalog, feed, matchQ, insp, found, cfg, drift, lock, row, rev>>
    BY <1>4 DEF MatchAsk, feedVars
  <2>4. match' = None
    BY <1>4 DEF MatchAsk
  <2>5. MatchInv' /\ InspectInv'
    BY <2>3, <2>4, UnchangedInspect DEF MatchInv
  <2> QED BY <2>1, <2>2, <2>3, <2>5, AskAsks DEF Asked
<1> QED BY <1>1, <1>2, <1>3, <1>4 DEF GetHostRisk, RecomputeHostRisk, HostAction

LEMMA InspectAskAsks ==
    ASSUME DOMAIN rc = Caller, MatchInv, InspectInv, InspectAsk, insp.asks # {}
    PROVE  \E h \in Host : Asked("inspect", h)
<1>1. PICK h \in insp.asks : Ask("inspect", h, TRUE, FALSE) /\ insp' = [insp EXCEPT !.asks = @ \ {h}]
  BY DEF InspectAsk, Request
<1>2. insp # None /\ insp.pc = "ask"
  BY DEF InspectAsk
<1>3. "pc" \in DOMAIN insp /\ "asks" \in DOMAIN insp /\ insp.asks \subseteq Host
  BY <1>2 DEF InspectInv
<1>4. UNCHANGED <<catalog, feed, matchQ, match, found, cfg, drift, lock, row, rev>>
  BY DEF InspectAsk, matchVars, feedVars
<1>5. DOMAIN insp' = DOMAIN insp /\ insp'.pc = "ask" /\ insp'.asks \subseteq Host
  BY <1>1, <1>2, <1>3
<1>6. MatchInv' /\ InspectInv'
  BY <1>3, <1>4, <1>5, UnchangedMatch DEF InspectInv
<1>7. "inspect" \in Caller
  BY DEF Caller
<1>8. Asked("inspect", h)
  BY <1>1, <1>4, <1>6, <1>7, AskAsks DEF Asked
<1> QED BY <1>1, <1>3, <1>8

LEMMA Cases ==
    ASSUME IInv, Next
    PROVE  \/ FeedMove /\ UNCHANGED <<matchVars, riskVars>>
           \/ MatchMove /\ UNCHANGED <<catalog, feed, riskVars>>
           \/ Passive
           \/ \E p \in Caller, h \in Host : Asked(p, h)
           \/ InspectMove
           \/ NewRelease \/ \E o : PatchConfig(o)
           \/ \E p \in Caller : Recomputing(p)
<1> USE DEF IInv
<1>1. DOMAIN rc = Caller /\ rev \in [Host -> Nat] /\ MatchInv /\ InspectInv
  BY DEF CoreInv
<1>2. CASE FeedStep /\ UNCHANGED riskVars
  <2>1. FeedMove
    BY <1>2 DEF FeedStep, FeedMove, TriggerSync, TickFeed
  <2> QED BY <1>2, <2>1 DEF FeedStep
<1>3. CASE FeedLoop \/ (TickFeed("epss") /\ UNCHANGED <<matchVars, riskVars>>)
  <2>1. FeedMove
    BY <1>3 DEF FeedLoop, FeedMove, TickFeed
  <2> QED BY <1>3, <2>1 DEF FeedLoop
<1>4. CASE MatchEvent
  <2>1. PICK h \in Host : \/ \E v \in 0..MaxVersion : InventoryArrives(h, v) /\ UNCHANGED riskVars
                          \/ InventoryUnread(h) /\ UNCHANGED riskVars
    BY <1>4 DEF MatchEvent
  <2>2. MatchMove
    BY <2>1 DEF MatchMove
  <2>3. UNCHANGED <<catalog, feed, riskVars>>
    BY <2>1 DEF InventoryArrives, InventoryUnread, feedVars
  <2> QED BY <2>2, <2>3
<1>5. CASE Background
  <2>1. CASE (rc["match"] = Idle /\ MatchTake) /\ UNCHANGED riskVars
    BY <2>1 DEF MatchMove, MatchTake, feedVars
  <2>2. CASE (MatchRead \/ MatchQuery \/ MatchWrite \/ MatchFail) /\ UNCHANGED riskVars
    BY <2>2 DEF MatchMove, MatchRead, MatchQuery, MatchWrite, MatchFail, feedVars
  <2>3. CASE \E h \in Host : ScanIngest(h) /\ UNCHANGED riskVars
    BY <2>3, <1>1, PassiveSteps
  <2>4. CASE MatchAsk
    <3>1. "match" \in Caller
      BY DEF Caller
    <3>2. match.h \in Host
      BY <2>4 DEF MatchAsk, MatchInv
    <3> QED BY <2>4, <3>1, <3>2, <1>1, AskingSteps
  <2>5. CASE InspectHosts
    BY <2>5 DEF InspectMove
  <2>6. CASE InspectAsk
    <3>1. "inspect" \in Caller
      BY DEF Caller
    <3> QED BY <2>6, <3>1, <1>1, InspectAskAsks DEF InspectMove
  <2>7. CASE \E f \in IF insp = None \/ insp.pc # "store" THEN {} ELSE insp.todo : InspectStore(f)
    BY <2>7 DEF InspectMove
  <2>8. CASE \E over \in SUBSET supp : InspectExpire(over)
    BY <2>8 DEF InspectMove
  <2>9. CASE \E h \in Host : ScanAsk(h) \/ SweepAsk(h) \/ Elapse(h)
    <3>1. PICK h \in Host : ScanAsk(h) \/ SweepAsk(h) \/ Elapse(h)
      BY <2>9
    <3>2. h \in Caller /\ "sweep" \in Caller
      BY DEF Caller
    <3>3. CASE ScanAsk(h)
      BY <3>2, <3>3, <1>1, AskingSteps
    <3>4. CASE SweepAsk(h)
      BY <3>2, <3>4, <1>1, AskingSteps
    <3>5. CASE Elapse(h)
      BY <3>5, <1>1, PassiveSteps
    <3> QED BY <3>1, <3>3, <3>4, <3>5
  <2>10. CASE \E p \in Caller :
            \/ RecomputeStep(p) \/ RecomputeFail(p) \/ RecomputeLoad(p, TRUE)
            \/ \E failing \in FaultyScorers \cup Lookups : RecomputeScore(p, failing)
    BY <2>10 DEF RecomputeStep, Recomputing
  <2>11. CASE SweepWake
    BY <2>11, <1>1, OtherPassiveSteps
  <2> QED BY <1>5, <2>1, <2>2, <2>3, <2>4, <2>5, <2>6, <2>7, <2>8, <2>9, <2>10, <2>11 DEF Background
<1>6. CASE RiskEvent
  <2>1. CASE NewRelease \/ InspectOrg
    BY <2>1 DEF InspectMove
  <2>2. CASE \E c \in Conditions : OrgChanges(c)
    BY <2>2, <1>1, OtherPassiveSteps
  <2>3. CASE \E f \in found : SuppressFinding(f)
    BY <2>3, <1>1, OtherPassiveSteps
  <2>4. CASE \E o \in Overrides : PatchConfig(o)
    BY <2>4
  <2>5. ASSUME NEW h \in Host,
               \/ \E failed \in BOOLEAN : Heartbeat(h, failed)
               \/ \E m \in Misconfigs : FactsArrive(h, m)
               \/ Ages(h) \/ SurveyReplaces(h)
               \/ \E s \in Sightings : Listening(h) /\ ScanLoad(h, s) /\ UNCHANGED riskVars
               \/ \E a \in Adv : (SuppressAdvisory(h, a) \/ UnsuppressAdvisory(h, a)) /\ UNCHANGED riskVars
        PROVE  Passive
    BY <2>5, <1>1, PassiveSteps
  <2>6. ASSUME NEW h \in Host, NEW p \in ApiTask,
               GetHostRisk(p, h) \/ RecomputeHostRisk(p, h) \/ HostAction(p, h)
        PROVE  p \in Caller /\ Asked(p, h)
    <3>1. p \in Caller
      BY DEF Caller
    <3> QED BY <3>1, <2>6, <1>1, AskingSteps
  <2> QED BY <1>6, <2>1, <2>2, <2>3, <2>4, <2>5, <2>6 DEF RiskEvent
<1> QED BY <1>2, <1>3, <1>4, <1>5, <1>6 DEF Next

--------------------------------------------------------------------------------
(* Each part of the invariant, step by step.                                     *)

\* Scores are applied to records that exist.
LEMMA FeedKeepsCatalog == ASSUME CatalogInv, FeedMove PROVE CatalogInv'
<1>1. CASE StartFeed
  BY <1>1 DEF CatalogInv, StartFeed
<1>2. CASE FinishFeed \/ FailFeed
  BY <1>2 DEF CatalogInv, FinishFeed, FailFeed, RecordStatus
<1>3. ASSUME NEW content, NEW allow, FetchOsv(content, allow) PROVE CatalogInv'
  <2>1. catalog' = catalog
    BY <1>3 DEF FetchOsv
  <2>2. PICK kept, todo, error : feed' = [name |-> "osv", pc |-> "write", kept |-> kept, todo |-> todo,
                                          error |-> error]
    BY <1>3 DEF FetchOsv
  <2> QED BY <2>1, <2>2 DEF CatalogInv
<1>4. ASSUME NEW names, FetchScores(names) PROVE CatalogInv'
  BY <1>4 DEF CatalogInv, FetchScores, Scored
<1>5. ASSUME NEW a \in Adv, WriteOsv(a) PROVE CatalogInv'
  <2>1. DOMAIN catalog' = Adv
    BY <1>5 DEF WriteOsv, CatalogInv
  <2>2. ASSUME NEW b \in Adv, catalog'[b] # None
        PROVE  "epss" \in DOMAIN catalog'[b] /\ catalog'[b].epss \in Nat
    <3>1. CASE b = a
      <4>1. catalog'[b] = Upserted(catalog[a], feed.kept[a])
        BY <1>5, <3>1 DEF WriteOsv, CatalogInv
      <4> QED BY <4>1 DEF Upserted, CatalogInv
    <3>2. CASE b # a
      BY <1>5, <2>2, <3>2 DEF WriteOsv, CatalogInv
    <3> QED BY <3>1, <3>2
  <2>3. "pc" \in DOMAIN feed' /\ "name" \in DOMAIN feed' /\ "todo" \in DOMAIN feed' /\ feed'.name = "osv"
    BY <1>5 DEF WriteOsv, CatalogInv
  <2> QED BY <2>1, <2>2, <2>3 DEF CatalogInv
<1>6. ASSUME NEW a \in Adv, WriteScore(a) PROVE CatalogInv'
  <2>1. DOMAIN catalog' = Adv
    BY <1>6 DEF WriteScore, CatalogInv
  <2>2. catalog[a] # None
    BY <1>6 DEF WriteScore, CatalogInv
  <2>3. ASSUME NEW b \in Adv, catalog'[b] # None
        PROVE  "epss" \in DOMAIN catalog'[b] /\ catalog'[b].epss \in Nat
    <3>1. CASE b = a
      <4>1. \/ catalog'[b] = [catalog[a] EXCEPT !.kev = TRUE]
            \/ catalog'[b] = [catalog[a] EXCEPT !.epss = 9]
        BY <1>6, <3>1 DEF WriteScore, CatalogInv
      <4>2. "epss" \in DOMAIN catalog[a] /\ catalog[a].epss \in Nat
        BY <2>2 DEF CatalogInv
      <4> QED BY <4>1, <4>2
    <3>2. CASE b # a
      BY <1>6, <2>3, <3>2 DEF WriteScore, CatalogInv
    <3> QED BY <3>1, <3>2
  <2>4. /\ "pc" \in DOMAIN feed' /\ "name" \in DOMAIN feed' /\ "todo" \in DOMAIN feed'
        /\ feed'.todo = feed.todo \ {a}
    BY <1>6 DEF WriteScore, CatalogInv
  <2>5. \A b \in feed.todo \ {a} : catalog'[b] = catalog[b] /\ catalog[b] # None
    BY <1>6 DEF WriteScore, CatalogInv
  <2> QED BY <2>1, <2>3, <2>4, <2>5 DEF CatalogInv
<1>7. CASE UNCHANGED <<catalog, feed>>
  BY <1>7 DEF CatalogInv
<1> QED BY <1>1, <1>2, <1>3, <1>4, <1>5, <1>6, <1>7 DEF FeedMove

LEMMA MatchKeepsMatch == ASSUME MatchInv, MatchMove PROVE MatchInv'
<1>1. CASE MatchTake
  <2>1. matchQ \in Seq(Host) /\ matchQ # <<>>
    BY <1>1 DEF MatchTake, MatchInv
  <2>2. Head(matchQ) \in Host /\ Tail(matchQ) \in Seq(Host)
    BY <2>1
  <2> QED BY <1>1, <2>2 DEF MatchTake, MatchInv
<1>2. CASE MatchRead
  BY <1>2 DEF MatchRead, MatchInv
<1>3. CASE MatchQuery
  BY <1>3 DEF MatchQuery, MatchInv
<1>4. CASE MatchWrite
  BY <1>4 DEF MatchWrite, MatchInv
<1>5. CASE MatchFail
  BY <1>5 DEF MatchFail, MatchInv
<1>6. ASSUME NEW h \in Host, EnqueueMatch(h), match' = match PROVE MatchInv'
  <2>1. Append(matchQ, h) \in Seq(Host)
    BY DEF MatchInv
  <2> QED BY <1>6, <2>1 DEF EnqueueMatch, MatchInv
<1>7. ASSUME NEW h \in Host, NEW v, InventoryArrives(h, v) \/ InventoryUnread(h) PROVE MatchInv'
  BY <1>6, <1>7 DEF InventoryArrives, InventoryUnread
<1> QED BY <1>1, <1>2, <1>3, <1>4, <1>5, <1>7 DEF MatchMove

LEMMA MatchGrowsRev == ASSUME rev \in [Host -> Nat], MatchMove PROVE RevGrows
<1>1. CASE MatchWrite
  BY <1>1, BumpGrows, RevStays DEF MatchWrite
<1>2. CASE rev' = rev
  BY <1>2, RevStays
<1> QED BY <1>1, <1>2 DEF MatchMove, MatchTake, MatchRead, MatchQuery, MatchFail, InventoryArrives,
                          InventoryUnread

\* The hosts an inspection asks for are those its findings name.
LEMMA InspectionSteps ==
    ASSUME InspectInv, rev \in [Host -> Nat], InspectMove
    PROVE  /\ InspectInv' /\ RevGrows
           /\ UNCHANGED <<catalog, feed, matchQ, match, cfg, drift, rc, lock, row>>
<1>1. CASE InspectOrg
  <2>1. UNCHANGED <<catalog, feed, matchQ, match, cfg, drift, rc, lock, row, found, rev>>
    BY <1>1 DEF InspectOrg, matchVars, feedVars
  <2>2. insp'.pc = "hosts"
    BY <1>1 DEF InspectOrg
  <2> QED BY <2>1, <2>2, RevStays DEF InspectInv
<1>2. CASE InspectHosts
  <2>1. UNCHANGED <<catalog, feed, matchQ, match, cfg, drift, rc, lock, row, found, rev>>
    BY <1>2 DEF InspectHosts, matchVars, feedVars
  <2>2. PICK all : insp' = [pc |-> "store", todo |-> all, asks |-> {h \in Host : \E f \in all : f.subj = h}]
    BY <1>2 DEF InspectHosts
  <2>3. "pc" \in DOMAIN insp' /\ "asks" \in DOMAIN insp' /\ insp'.asks \subseteq Host
    BY <2>2
  <2> QED BY <2>1, <2>3, RevStays DEF InspectInv
<1>3. ASSUME NEW f, InspectStore(f)
      PROVE  /\ InspectInv' /\ RevGrows
             /\ UNCHANGED <<catalog, feed, matchQ, match, cfg, drift, rc, lock, row>>
  <2>1. UNCHANGED <<catalog, feed, matchQ, match, cfg, drift, rc, lock, row>>
    BY <1>3 DEF InspectStore, feedVars
  <2>2. RevGrows
    BY <1>3 DEF InspectStore, RevGrows
  <2>3. "pc" \in DOMAIN insp' /\ "asks" \in DOMAIN insp' /\ insp'.asks \subseteq Host
    BY <1>3 DEF InspectStore, InspectInv
  <2>4. IsFiniteSet(found')
    BY <1>3, FS_AddElement DEF InspectStore, InspectInv
  <2> QED BY <2>1, <2>2, <2>3, <2>4 DEF InspectInv
<1>4. ASSUME NEW over, InspectExpire(over)
      PROVE  /\ InspectInv' /\ RevGrows
             /\ UNCHANGED <<catalog, feed, matchQ, match, cfg, drift, rc, lock, row>>
  <2>1. UNCHANGED <<catalog, feed, matchQ, match, cfg, drift, rc, lock, row, found, rev>>
    BY <1>4 DEF InspectExpire, matchVars, feedVars
  <2>2. "pc" \in DOMAIN insp' /\ "asks" \in DOMAIN insp' /\ insp'.asks \subseteq Host
    BY <1>4 DEF InspectExpire, InspectInv
  <2> QED BY <2>1, <2>2, RevStays DEF InspectInv
<1>5. CASE InspectAsk /\ insp.asks = {}
  <2>1. UNCHANGED <<catalog, feed, matchQ, match, cfg, drift, rc, lock, row, found, rev>> /\ insp' = None
    BY <1>5 DEF InspectAsk, matchVars, feedVars
  <2> QED BY <2>1, RevStays DEF InspectInv
<1> QED BY <1>1, <1>2, <1>3, <1>4, <1>5 DEF InspectMove

\* apply_overrides checks the range of a weight.
LEMMA ConfigSteps ==
    ASSUME ConfigInv, rev \in [Host -> Nat], NewRelease \/ \E o : PatchConfig(o)
    PROVE  /\ ConfigInv' /\ RevGrows
           /\ UNCHANGED <<catalog, feed, matchQ, match, insp, found, rc, lock, row>>
<1>1. CASE NewRelease
  <2>1. UNCHANGED <<catalog, feed, matchQ, match, insp, found, cfg, rc, lock, row, rev>>
    BY <1>1 DEF NewRelease, matchVars, feedVars
  <2>2. drift' = drift + 1
    BY <1>1 DEF NewRelease
  <2> QED BY <2>1, <2>2, RevStays DEF ConfigInv
<1>2. ASSUME NEW o, PatchConfig(o)
      PROVE  /\ ConfigInv' /\ RevGrows
             /\ UNCHANGED <<catalog, feed, matchQ, match, insp, found, rc, lock, row>>
  <2>1. UNCHANGED <<catalog, feed, matchQ, match, insp, found, drift, rc, lock, row, rev>>
    BY <1>2 DEF PatchConfig, matchVars, feedVars
  <2>2. cfg' = o /\ \A n \in DOMAIN o.weights : o.weights[n] \in 0..100
    BY <1>2 DEF PatchConfig
  <2> QED BY <2>1, <2>2, RevStays DEF ConfigInv
<1> QED BY <1>1, <1>2

--------------------------------------------------------------------------------
(* The core: locks, reads and rows.                                              *)

LEMMA IdleCaller == Idle.pc = "idle"
  BY DEF Idle

\* Steps that leave the recomputes and rows alone keep them true of the growing tables.
LEMMA CoreStays == ASSUME CoreInv, UNCHANGED <<rc, lock, row>>, RevGrows PROVE CoreInv'
<1>1. rev' \in [Host -> Nat]
  BY DEF RevGrows
<1>2. ASSUME NEW p \in Caller PROVE RecomputeInv(p)'
  <2>1. RecomputeInv(p)
    BY DEF CoreInv
  <2>2. rc[p].pc \in {"score", "save"} => rc[p].h \in Host
    BY <2>1, IdleCaller DEF RecomputeInv
  <2>3. rc[p].pc \in {"score", "save"} => rc[p].rev <= rev'[rc[p].h]
    BY <2>1, <2>2 DEF RecomputeInv, RevGrows, CoreInv
  <2> QED BY <2>1, <2>3 DEF RecomputeInv
<1>3. ASSUME NEW h \in Host PROVE RowInv(h)'
  BY DEF RowInv, RevGrows, CoreInv
<1> QED BY <1>1, <1>2, <1>3 DEF CoreInv

LEMMA CoreAsked ==
    ASSUME CoreInv, NEW p \in Caller, NEW h \in Host, Asked(p, h)
    PROVE  CoreInv'
<1>1. UNCHANGED <<lock, row, rev>> /\ DOMAIN rc' = Caller
  BY DEF Asked, CoreInv
<1>2. ASSUME NEW q \in Caller PROVE RecomputeInv(q)'
  <2>1. CASE q = p
    BY <2>1 DEF Asked, RecomputeInv
  <2>2. CASE q # p
    <3>1. rc'[q] = rc[q]
      BY <2>2 DEF Asked, CoreInv
    <3> QED BY <1>1, <3>1 DEF RecomputeInv, CoreInv
  <2> QED BY <2>1, <2>2
<1>3. ASSUME NEW x \in Host PROVE RowInv(x)'
  BY <1>1 DEF RowInv, CoreInv
<1> QED BY <1>1, <1>2, <1>3 DEF CoreInv

\* Two recomputes of one host are never past the lock together.
LEMMA Exclusive ==
    ASSUME CoreInv, NEW p \in Caller, NEW q \in Caller, q # p,
           rc[p].pc \in {"load", "score", "save"}, rc[q].pc \in {"load", "score", "save"}
    PROVE  rc[q].h # rc[p].h
<1>1. lock[rc[p].h] = p /\ lock[rc[q].h] = q
  BY DEF CoreInv, RecomputeInv
<1> QED BY <1>1

LEMMA LockedHost ==
    ASSUME CoreInv, NEW p \in Caller, rc[p].pc \in {"ask", "load", "score", "save"}
    PROVE  rc[p].h \in Host
  BY IdleCaller DEF CoreInv, RecomputeInv

\* A recompute that ends leaves the others as they were.
LEMMA CoreReleased ==
    ASSUME CoreInv, NEW p \in Caller, rc[p].pc \in {"load", "score", "save"}, Release(p), rev' = rev,
           NEW g \in Host, g = rc[p].h, DOMAIN row' = Host,
           \A h \in Host : h # g => row'[h] = row[h], RowInv(g)'
    PROVE  CoreInv'
<1>1. /\ DOMAIN rc' = Caller /\ DOMAIN lock' = Host
      /\ rc'[p] = Idle
      /\ \A q \in Caller : q # p => rc'[q] = rc[q]
      /\ \A h \in Host : h # rc[p].h => lock'[h] = lock[h]
  BY DEF CoreInv, Release
<1>2. ASSUME NEW q \in Caller PROVE RecomputeInv(q)'
  <2>1. CASE q = p
    BY <2>1, <1>1, IdleCaller DEF RecomputeInv
  <2>2. CASE q # p
    <3>1. rc'[q] = rc[q] /\ RecomputeInv(q)
      BY <2>2, <1>1 DEF CoreInv
    <3>2. rc[q].pc \in {"load", "score", "save"} =>
            /\ rc[q].h \in Host
            /\ lock'[rc[q].h] = lock[rc[q].h] /\ row'[rc[q].h] = row[rc[q].h]
      BY <2>2, <1>1, Exclusive, LockedHost
    <3> QED BY <3>1, <3>2 DEF RecomputeInv
  <2> QED BY <2>1, <2>2
<1>3. ASSUME NEW h \in Host PROVE RowInv(h)'
  <2>1. CASE h = g
    BY <2>1
  <2>2. CASE h # g
    <3>1. row'[h] = row[h] /\ RowInv(h)
      BY <2>2 DEF CoreInv
    <3> QED BY <3>1 DEF RowInv
  <2> QED BY <2>1, <2>2
<1>4. rev' \in [Host -> Nat]
  BY DEF CoreInv
<1> QED BY <1>1, <1>2, <1>3, <1>4 DEF CoreInv

\* The lock is free when it is taken, so that no other recompute of the host is past it.
LEMMA CoreAcquire ==
    ASSUME CoreInv, NEW p \in Caller, Acquire(p)
    PROVE  CoreInv'
<1>1. UNCHANGED <<row, rev>>
  BY DEF Acquire, matchVars
<1>2. rc[p].pc = "ask" /\ rc[p].h \in Host /\ lock[rc[p].h] = None /\ DOMAIN rc[p] = {"pc", "h", "debounced", "force"}
  BY LockedHost DEF Acquire, CoreInv, RecomputeInv
<1>3. CASE rc' = [rc EXCEPT ![p] = Idle] /\ lock' = lock
  <2>1. DOMAIN rc' = Caller
    BY <1>3 DEF CoreInv
  <2>2. ASSUME NEW q \in Caller PROVE RecomputeInv(q)'
    <3>1. CASE q = p
      BY <3>1, <1>3, IdleCaller DEF RecomputeInv, CoreInv
    <3>2. CASE q # p
      <4>1. rc'[q] = rc[q]
        BY <3>2, <1>3 DEF CoreInv
      <4> QED BY <4>1, <1>1, <1>3 DEF RecomputeInv, CoreInv
    <3> QED BY <3>1, <3>2
  <2>3. ASSUME NEW h \in Host PROVE RowInv(h)'
    BY <1>1 DEF RowInv, CoreInv
  <2> QED BY <2>1, <2>2, <2>3, <1>1, <1>3 DEF CoreInv
<1>4. CASE rc' = [rc EXCEPT ![p].pc = "load"] /\ lock' = [lock EXCEPT ![rc[p].h] = p]
  <2>1. /\ DOMAIN rc' = Caller /\ DOMAIN lock' = Host
        /\ lock'[rc[p].h] = p
        /\ \A h \in Host : h # rc[p].h => lock'[h] = lock[h]
        /\ \A q \in Caller : q # p => rc'[q] = rc[q]
        /\ rc'[p] = [rc[p] EXCEPT !.pc = "load"]
    BY <1>2, <1>4 DEF CoreInv
  <2>2. rc'[p].pc = "load" /\ rc'[p].h = rc[p].h /\ DOMAIN rc'[p] = DOMAIN rc[p]
    BY <1>2, <2>1
  <2>3. ASSUME NEW q \in Caller PROVE RecomputeInv(q)'
    <3>1. CASE q = p
      BY <3>1, <2>1, <2>2, <1>2 DEF RecomputeInv
    <3>2. CASE q # p
      <4>1. rc'[q] = rc[q] /\ RecomputeInv(q)
        BY <3>2, <2>1 DEF CoreInv
      <4>2. rc[q].pc \in {"load", "score", "save"} => rc[q].h \in Host /\ rc[q].h # rc[p].h
        <5>1. lock[rc[p].h] # q
          BY <1>2, RiskAssumption
        <5> QED BY <5>1, <4>1, LockedHost DEF RecomputeInv
      <4> QED BY <4>1, <4>2, <2>1, <1>1 DEF RecomputeInv
    <3> QED BY <3>1, <3>2
  <2>4. ASSUME NEW h \in Host PROVE RowInv(h)'
    BY <1>1 DEF RowInv, CoreInv
  <2> QED BY <2>1, <2>3, <2>4, <1>1 DEF CoreInv
<1> QED BY <1>3, <1>4 DEF Acquire

\* The reads take the tables as they are, and the row is not newer than those.
LEMMA CoreLoad ==
    ASSUME CoreInv, InspectInv, NEW p \in Caller, NEW blind \in BOOLEAN, RecomputeLoad(p, blind)
    PROVE  CoreInv'
<1>1. UNCHANGED <<row, rev>> /\ rc[p].pc = "load" /\ rc[p].h \in Host
  BY LockedHost DEF RecomputeLoad, matchVars
<1>2. CASE Release(p)
  <2>1. PICK g \in Host : g = rc[p].h
    BY <1>1
  <2>2. RowInv(g)'
    BY <1>1 DEF RowInv, CoreInv
  <2>3. DOMAIN row' = Host /\ \A h \in Host : row'[h] = row[h]
    BY <1>1 DEF CoreInv
  <2> QED BY <1>1, <1>2, <2>1, <2>2, <2>3, CoreReleased
<1>3. CASE ~Release(p)
  <2> DEFINE h == rc[p].h
             r == [pc |-> "score", h |-> h, force |-> rc[p].force, rev |-> rev[h], keep |-> keep[h],
                   survey |-> survey[h], ha |-> ha[h], tier |-> tier[h], blind |-> blind,
                   finds |-> IF blind THEN {} ELSE FindingsOf(h)]
  <2>1. rc' = [rc EXCEPT ![p] = r] /\ lock' = lock
    BY <1>3, Zenon DEF RecomputeLoad
  <2>2. IsFiniteSet(IF blind THEN {} ELSE FindingsOf(h))
    <3>1. IsFiniteSet(FindingsOf(h))
      BY FS_Subset DEF FindingsOf, InspectInv
    <3> QED BY <3>1, FS_EmptySet
  <2>3. r.pc = "score" /\ r.h = h /\ r.rev = rev[h] /\ IsFiniteSet(r.finds) /\ r # Idle
    BY <2>2 DEF Idle
  <2> HIDE DEF r
  <2>4. DOMAIN rc' = Caller /\ rc'[p] = r /\ \A q \in Caller : q # p => rc'[q] = rc[q]
    BY <2>1 DEF CoreInv
  <2>5. lock[h] = p
    BY <1>1 DEF CoreInv, RecomputeInv
  <2>6. rev[h] \in Nat /\ (row[h] # None => row[h].rev <= rev[h])
    BY <1>1 DEF CoreInv, RowInv
  <2>7. ASSUME NEW q \in Caller PROVE RecomputeInv(q)'
    <3>1. CASE q = p
      BY <3>1, <2>1, <2>3, <2>4, <2>5, <2>6, <1>1 DEF RecomputeInv
    <3>2. CASE q # p
      BY <3>2, <2>1, <2>4, <1>1 DEF RecomputeInv, CoreInv
    <3> QED BY <3>1, <3>2
  <2>8. ASSUME NEW x \in Host PROVE RowInv(x)'
    BY <1>1 DEF RowInv, CoreInv
  <2> QED BY <2>1, <2>4, <2>7, <2>8, <1>1 DEF CoreInv
<1> QED BY <1>2, <1>3

\* What the catalog adds to a host's advisories: finitely many, with numbers for scores.
LEMMA EnrichedNumbers ==
    ASSUME CatalogInv, NEW statuses, NEW tiers, NEW known \in {Empty, catalog}
    PROVE  /\ IsFiniteSet(Enriched(statuses, tiers, known))
           /\ \A x \in Enriched(statuses, tiers, known) : x.epss \in Nat
<1> DEFINE S == {a \in Adv : statuses[a] # None}
           E(a) == [id |-> a, status |-> statuses[a],
                    tier |-> IF tiers[a] = None THEN "UNKNOWN" ELSE tiers[a],
                    sev |-> IF known[a] = None THEN "" ELSE known[a].sev,
                    kev |-> known[a] # None /\ known[a].kev,
                    epss |-> IF known[a] = None THEN 0 ELSE known[a].epss]
           T == {E(a) : a \in S}
           F == [a \in S |-> E(a)]
<1>1. Enriched(statuses, tiers, known) = T
  BY Zenon DEF Enriched
<1>2. \A a \in S : E(a).epss \in Nat
  BY DEF CatalogInv, Empty
<1> HIDE DEF E
<1>3. IsFiniteSet(S)
  BY CatalogAssumption, FS_Subset
<1> HIDE DEF S
<1>4. F \in Surjection(S, T)
  BY DEF Surjection
<1> HIDE DEF F
<1>5. IsFiniteSet(T)
  BY <1>3, <1>4, FS_Surjection
<1> QED BY <1>1, <1>2, <1>5

LEMMA WeightsAreInt ==
    ASSUME ConfigInv, NEW n \in Pillars
    PROVE  Weight(n) \in Int
<1>1. DefaultWeight[n] \in Int
  BY DEF DefaultWeight, Pillars
<1> QED BY <1>1 DEF Weight, ConfigInv

\* The advisories as a recompute reads them.
Read(r, failing) == Enriched(r.ha, r.tier, IF failing = "catalog" THEN Empty ELSE catalog)

\* Whatever the tables hold, and whichever scorer or lookup fails, a recompute saves None or a
\* score from 0 to 100.
LEMMA ScoreInRange ==
    ASSUME CatalogInv, ConfigInv, NEW r, IsFiniteSet(r.finds), NEW failing
    PROVE  Blend(SubScores(r, Read(r, failing), failing), Weights, None) \in (0..100) \cup {None}
<1> DEFINE advs == Read(r, failing)
           subs == SubScores(r, advs, failing)
           D == {m \in Pillars : Enabled(m)}
<1>1. DOMAIN subs = D
  BY DEF SubScores
<1>2. IsFiniteSet(advs) /\ \A x \in advs : x.epss \in Nat
  BY EnrichedNumbers DEF Read
<1> HIDE DEF advs
<1>3. ASSUME NEW n \in D PROVE IsSub(subs[n])
  <2> DEFINE inventory == pkg[r.h] # 0 /\ failing # "packages"
             surveyed == r.survey.at \/ r.survey.facts # None \/ inventory
             behind == IF failing = "release" THEN 0 ELSE drift
  <2>1. IsSub(VulnerabilityScore(advs, inventory, r.survey.at))
    BY <1>2, VulnerabilitySub
  <2>2. IsSub(ConfigurationScore(r.finds, surveyed))
    BY ConfigurationSub
  <2>3. IsSub(IdentityScore(r.finds))
    BY IdentitySub
  <2>4. IsSub(HygieneScore(r.keep, behind))
    BY HygieneSub DEF ConfigInv
  <2>5. IsSub([score |-> 0, conf |-> 0])
    BY DEF IsSub
  <2>6. subs[n] = IF n = failing THEN [score |-> 0, conf |-> 0]
                  ELSE CASE n = "vulnerabilities" -> VulnerabilityScore(advs, inventory, r.survey.at)
                         [] n = "configuration" -> ConfigurationScore(r.finds, surveyed)
                         [] n = "identity" -> IdentityScore(r.finds)
                         [] n = "hygiene" -> HygieneScore(r.keep, behind)
    BY Zenon DEF SubScores
  <2> HIDE DEF subs, surveyed, inventory, behind
  <2>7. n \in {"vulnerabilities", "configuration", "identity", "hygiene"}
    BY DEF Pillars
  <2> QED BY <2>1, <2>2, <2>3, <2>4, <2>5, <2>6, <2>7
<1>4. \A n \in D : Weights[n] \in Int
  BY WeightsAreInt DEF Weights
<1> HIDE DEF subs
<1>5. Blend(subs, Weights, None) \in (0..100) \cup {None}
  BY <1>1, <1>3, <1>4, BlendInRange
<1> QED BY <1>5 DEF subs, advs

LEMMA CoreScore ==
    ASSUME CoreInv, CatalogInv, ConfigInv, NEW p \in Caller, NEW failing, RecomputeScore(p, failing)
    PROVE  CoreInv'
<1> DEFINE s == Blend(SubScores(rc[p], Read(rc[p], failing), failing), Weights, None)
           x == HashInputs(rc[p].keep, Read(rc[p], failing), rc[p].finds, rc[p].tier, Weights)
           u == IF rc[p].blind \/ failing # None THEN None
                ELSE Unhashed(rc[p].h, rc[p].keep, rc[p].survey)
           r == [pc |-> "save", h |-> rc[p].h, force |-> rc[p].force, rev |-> rc[p].rev,
                 score |-> s, hash |-> x, unhashed |-> u]
<1>1. UNCHANGED <<row, rev, lock>> /\ rc[p].pc = "score"
  BY DEF RecomputeScore, matchVars
<1>2. rc' = [rc EXCEPT ![p] = r]
  BY Zenon DEF RecomputeScore, Read
<1>3. RecomputeInv(p)
  BY DEF CoreInv
<1>4. IsFiniteSet(rc[p].finds) /\ rc[p].h \in Host
  BY <1>1, <1>3, LockedHost DEF RecomputeInv
<1>5. s \in (0..100) \cup {None}
  BY <1>4, ScoreInRange
<1> HIDE DEF s, x, u
<1>6. r.pc = "save" /\ r.h = rc[p].h /\ r.rev = rc[p].rev /\ r.score = s /\ r # Idle
  BY DEF Idle
<1> HIDE DEF r
<1>7. DOMAIN rc' = Caller /\ rc'[p] = r /\ \A q \in Caller : q # p => rc'[q] = rc[q]
  BY <1>2 DEF CoreInv
<1>8. ASSUME NEW q \in Caller PROVE RecomputeInv(q)'
  <2>1. CASE q = p
    BY <2>1, <1>1, <1>3, <1>4, <1>5, <1>6, <1>7 DEF RecomputeInv
  <2>2. CASE q # p
    BY <2>2, <1>1, <1>7 DEF RecomputeInv, CoreInv
  <2> QED BY <2>1, <2>2
<1>9. ASSUME NEW h \in Host PROVE RowInv(h)'
  BY <1>1 DEF RowInv, CoreInv
<1> QED BY <1>1, <1>7, <1>8, <1>9 DEF CoreInv

\* What a save leaves in the row of its host.
LEMMA SavedRow ==
    ASSUME CoreInv, NEW p \in Caller, RecomputeSave(p), NEW g \in Host, g = rc[p].h
    PROVE  /\ DOMAIN row' = Host /\ \A h \in Host : h # g => row'[h] = row[h]
           /\ RowInv(g)'
           /\ row[g] # None /\ row'[g] # None => row'[g].rev >= row[g].rev
<1> DEFINE r == rc[p]
           level == IF r.score = None THEN "unknown"
                    ELSE IF row[g] = None \/ row[g].score = None THEN LabelFor(r.score)
                    ELSE Hysteresis(r.score, row[g].level)
           new == [score |-> r.score, level |-> level, hash |-> r.hash, unhashed |-> r.unhashed,
                  rev |-> r.rev]
<1>1. rev' = rev /\ r.pc = "save"
  BY DEF RecomputeSave, matchVars
<1>2. row' = row \/ row' = [row EXCEPT ![g] = new]
  BY DEF RecomputeSave
<1>3. /\ r.rev \in Nat /\ r.rev <= rev[g] /\ (row[g] # None => row[g].rev <= r.rev)
      /\ r.score \in (0..100) \cup {None}
  BY <1>1 DEF CoreInv, RecomputeInv
<1>4. RowInv(g) /\ rev[g] \in Nat
  BY DEF CoreInv
<1>5. CASE row' = row
  BY SMTT(30), <1>1, <1>4, <1>5 DEF RowInv, CoreInv
<1>6. CASE row' = [row EXCEPT ![g] = new]
  <2>1. DOMAIN row' = Host /\ row'[g] = new /\ \A h \in Host : h # g => row'[h] = row[h]
    BY <1>6 DEF CoreInv
  <2>2. ASSUME r.score # None
        PROVE  r.score \in 0..100 /\ level \in Levels \ {"unknown"} /\ Near(level, r.score)
    <3>1. r.score \in 0..100
      BY <1>3, <2>2
    <3>2. CASE row[g] = None \/ row[g].score = None
      <4>1. level = LabelFor(r.score)
        BY <2>2, <3>2
      <4>2. \E i \in 1..6 : LabelFor(r.score) = Level(i)
        BY <3>1, LabelOfScore
      <4> QED BY <3>1, <4>1, <4>2, NamedLevels DEF Near
    <3>3. CASE ~(row[g] = None \/ row[g].score = None)
      <4>1. level = Hysteresis(r.score, row[g].level)
        BY <2>2, <3>3
      <4>2. row[g].level \in Levels \ {"unknown"}
        BY <3>3, <1>4 DEF RowInv
      <4> QED BY <3>1, <4>1, <4>2, HysteresisNear
    <3> QED BY <3>2, <3>3
  <2>3. r.score = None => level = "unknown"
    OBVIOUS
  <2> HIDE DEF level
  <2>4. new.score = r.score /\ new.level = level /\ new.rev = r.rev
    OBVIOUS
  <2> HIDE DEF new
  <2>5. RowInv(g)'
    BY <2>1, <2>2, <2>3, <2>4, <1>1, <1>3 DEF RowInv
  <2> QED BY <2>1, <2>4, <2>5, <1>3, <1>4 DEF RowInv
<1> QED BY <1>2, <1>5, <1>6

LEMMA CoreSave ==
    ASSUME CoreInv, NEW p \in Caller, RecomputeSave(p)
    PROVE  CoreInv'
<1>1. rc[p].pc = "save" /\ Release(p) /\ rev' = rev
  BY DEF RecomputeSave, matchVars
<1>2. PICK g \in Host : g = rc[p].h
  BY <1>1, LockedHost
<1> QED BY <1>1, <1>2, SavedRow, CoreReleased

LEMMA CoreFail ==
    ASSUME CoreInv, NEW p \in Caller, RecomputeFail(p)
    PROVE  CoreInv'
<1>1. rc[p].pc \in {"load", "score", "save"} /\ Release(p) /\ UNCHANGED <<row, rev>>
  BY DEF RecomputeFail, matchVars
<1>2. PICK g \in Host : g = rc[p].h
  BY <1>1, LockedHost
<1>3. DOMAIN row' = Host /\ (\A h \in Host : row'[h] = row[h]) /\ RowInv(g)'
  BY <1>1 DEF RowInv, CoreInv
<1> QED BY <1>1, <1>2, <1>3, CoreReleased

LEMMA RecomputingFrame ==
    ASSUME NEW p, Recomputing(p)
    PROVE  UNCHANGED <<catalog, feed, matchQ, match, insp, found, cfg, drift>>
  BY DEF Recomputing, Acquire, RecomputeLoad, RecomputeSave, RecomputeFail, RecomputeScore, matchVars,
         feedVars

LEMMA CoreRecomputing ==
    ASSUME CoreInv, CatalogInv, ConfigInv, InspectInv, NEW p \in Caller, Recomputing(p)
    PROVE  CoreInv'
  BY CoreAcquire, CoreLoad, CoreScore, CoreSave, CoreFail DEF Recomputing

--------------------------------------------------------------------------------
LEMMA UnchangedCatalog == ASSUME CatalogInv, UNCHANGED <<catalog, feed>> PROVE CatalogInv'
  BY DEF CatalogInv
LEMMA UnchangedConfig == ASSUME ConfigInv, UNCHANGED <<cfg, drift>> PROVE ConfigInv'
  BY DEF ConfigInv
LEMMA UnchangedCore == ASSUME CoreInv, UNCHANGED <<rc, lock, row, rev>> PROVE CoreInv'
<1>1. RevGrows
  BY RevStays DEF CoreInv
<1> QED BY <1>1, CoreStays

LEMMA RiskStep == ASSUME IInv, [Next]_vars PROVE IInv'
<1> USE DEF IInv
<1>0. rev \in [Host -> Nat]
  BY DEF CoreInv
<1>1. CASE UNCHANGED vars
  <2>1. UNCHANGED <<catalog, feed, matchQ, match, insp, found, cfg, drift, rc, lock, row, rev>>
    BY <1>1 DEF vars, feedVars, matchVars, riskVars
  <2> QED BY <2>1, UnchangedCatalog, UnchangedMatch, UnchangedInspect, UnchangedConfig, UnchangedCore
<1>2. CASE FeedMove /\ UNCHANGED <<matchVars, riskVars>>
  <2>1. UNCHANGED <<matchQ, match, insp, found, cfg, drift, rc, lock, row, rev>>
    BY <1>2 DEF matchVars, riskVars
  <2> QED BY <1>2, <2>1, FeedKeepsCatalog, UnchangedMatch, UnchangedInspect, UnchangedConfig, UnchangedCore
<1>3. CASE MatchMove /\ UNCHANGED <<catalog, feed, riskVars>>
  <2>1. UNCHANGED <<catalog, feed, insp, found, cfg, drift, rc, lock, row>>
    BY <1>3 DEF riskVars
  <2> QED BY <1>0, <1>3, <2>1, MatchKeepsMatch, MatchGrowsRev, UnchangedCatalog, UnchangedInspect,
             UnchangedConfig, CoreStays
<1>4. CASE Passive
  <2>1. UNCHANGED <<catalog, feed, matchQ, match, insp, found, cfg, drift, rc, lock, row>> /\ RevGrows
    BY <1>4 DEF Passive
  <2> QED BY <2>1, UnchangedCatalog, UnchangedMatch, UnchangedInspect, UnchangedConfig, CoreStays
<1>5. ASSUME NEW p \in Caller, NEW h \in Host, Asked(p, h) PROVE IInv'
  <2>1. UNCHANGED <<catalog, feed, cfg, drift>> /\ MatchInv' /\ InspectInv'
    BY <1>5 DEF Asked
  <2> QED BY <1>5, <2>1, UnchangedCatalog, UnchangedConfig, CoreAsked
<1>6. CASE InspectMove
  <2>1. /\ InspectInv' /\ RevGrows
        /\ UNCHANGED <<catalog, feed, matchQ, match, cfg, drift, rc, lock, row>>
    BY <1>0, <1>6, InspectionSteps
  <2> QED BY <2>1, UnchangedCatalog, UnchangedMatch, UnchangedConfig, CoreStays
<1>7. CASE NewRelease \/ \E o : PatchConfig(o)
  <2>1. /\ ConfigInv' /\ RevGrows
        /\ UNCHANGED <<catalog, feed, matchQ, match, insp, found, rc, lock, row>>
    BY <1>0, <1>7, ConfigSteps
  <2> QED BY <2>1, UnchangedCatalog, UnchangedMatch, UnchangedInspect, CoreStays
<1>8. ASSUME NEW p \in Caller, Recomputing(p) PROVE IInv'
  <2>1. UNCHANGED <<catalog, feed, matchQ, match, insp, found, cfg, drift>>
    BY <1>8, RecomputingFrame
  <2> QED BY <1>8, <2>1, UnchangedCatalog, UnchangedMatch, UnchangedInspect, UnchangedConfig, CoreRecomputing
<1> QED BY <1>1, <1>2, <1>3, <1>4, <1>5, <1>6, <1>7, <1>8, Cases

\* The row of a host changes in a save only.
LEMMA RowsMoveForward ==
    ASSUME IInv, [Next]_vars, NEW h \in Host, row[h] # None, row'[h] # None
    PROVE  row'[h].rev >= row[h].rev
<1> USE DEF IInv
<1>1. row[h].rev \in Nat
  BY DEF CoreInv, RowInv
<1>2. CASE row' = row
  BY <1>1, <1>2
<1>3. ASSUME NEW p \in Caller, RecomputeSave(p) PROVE row'[h].rev >= row[h].rev
  <2>1. PICK g \in Host : g = rc[p].h
    BY <1>3, LockedHost DEF RecomputeSave
  <2>2. CASE h = g
    BY <1>3, <2>1, <2>2, SavedRow
  <2>3. CASE h # g
    <3>1. row'[h] = row[h]
      BY <1>3, <2>1, <2>3, SavedRow
    <3> QED BY <1>1, <3>1
  <2> QED BY <2>2, <2>3
<1>4. ASSUME NEW p \in Caller, Recomputing(p) PROVE row' = row \/ RecomputeSave(p)
  BY <1>4 DEF Recomputing, Acquire, RecomputeLoad, RecomputeFail, RecomputeScore
<1>5. CASE UNCHANGED vars
  BY <1>2, <1>5 DEF vars, riskVars
<1>6. CASE Next
  <2>1. CASE UNCHANGED riskVars
    BY <1>2, <2>1 DEF riskVars
  <2>2. CASE Passive \/ \E p \in Caller, g \in Host : Asked(p, g)
    BY <1>2, <2>2 DEF Passive, Asked
  <2>3. CASE InspectMove
    BY <1>2, <2>3, InspectionSteps DEF CoreInv
  <2>4. CASE NewRelease \/ \E o : PatchConfig(o)
    BY <1>2, <2>4, ConfigSteps DEF CoreInv
  <2>5. CASE \E p \in Caller : Recomputing(p)
    BY <1>2, <1>3, <1>4, <2>5
  <2> QED BY <1>6, <2>1, <2>2, <2>3, <2>4, <2>5, Cases
<1> QED BY <1>5, <1>6

LEMMA RiskStart == ASSUME Init PROVE IInv
<1>1. RiskInit /\ rev = [h \in Host |-> 0] /\ matchQ = <<>> /\ match = None /\ feed = None
  BY DEF Init, CatalogInit, AdvisoriesInit
<1>2. CatalogInv
  <2>1. CASE catalog = Empty
    BY <1>1, <2>1 DEF CatalogInv, Empty
  <2>2. ASSUME NEW kev, catalog = [Empty EXCEPT ![Seed.id] =
                 [Upserted(None, Kept(Seed, {"Ubuntu", "Debian"})) EXCEPT !.kev = kev]]
        PROVE  CatalogInv
    <3> DEFINE u == Upserted(None, Kept(Seed, {"Ubuntu", "Debian"}))
    <3>1. "epss" \in DOMAIN u /\ u.epss = 0
      BY DEF Upserted
    <3> HIDE DEF u
    <3>2. DOMAIN catalog = Adv /\ \A a \in Adv : catalog[a] = None \/ catalog[a] = [u EXCEPT !.kev = kev]
      BY <2>2 DEF Empty, u
    <3> QED BY <1>1, <3>1, <3>2 DEF CatalogInv
  <2> QED BY <2>1, <2>2 DEF Init, CatalogInit
<1>3. MatchInv
  BY <1>1 DEF MatchInv
<1>4. InspectInv
  BY <1>1, FS_EmptySet DEF InspectInv, RiskInit
<1>5. ConfigInv
  BY <1>1 DEF ConfigInv, RiskInit, NoOverride
<1>6. CoreInv
  <2>1. /\ rev \in [Host -> Nat] /\ DOMAIN rc = Caller /\ DOMAIN lock = Host /\ DOMAIN row = Host
        /\ \A p \in Caller : rc[p] = Idle
        /\ \A h \in Host : row[h] = None
    BY <1>1 DEF RiskInit
  <2> QED BY <2>1, IdleCaller DEF CoreInv, RecomputeInv, RowInv
<1> QED BY <1>2, <1>3, <1>4, <1>5, <1>6 DEF IInv

\* The recomputes hold their locks and the rows are true of their scores, always.
LEMMA RiskInvariant == Spec => []IInv
  BY RiskStart, RiskStep, PTL DEF Spec

\* For any hosts, advisories, weights and failing scorers the level of a host is its
\* score's label, or one whose band the score has left by less than Band points
\* (apply_hysteresis, _recompute_locked).
THEOREM LevelStaysNear == Spec => []LevelNearScore
<1>1. IInv => LevelNearScore
  BY DEF IInv, CoreInv, RowInv, LevelNearScore, Near
<1> QED BY <1>1, RiskInvariant, PTL

\* However many callers ask for recomputes, a host's row is never replaced by one
\* computed from older tables (RiskRecomputer.recompute and its lock).
THEOREM RowsNeverGoBack == Spec => RowNeverGoesBack
<1>1. IInv /\ [Next]_vars =>
        [\A h \in Host : row[h] # None /\ row'[h] # None => row'[h].rev >= row[h].rev]_vars
  BY RowsMoveForward
<1> QED BY <1>1, RiskInvariant, PTL DEF Spec, RowNeverGoesBack

================================================================================
