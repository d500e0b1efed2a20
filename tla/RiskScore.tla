-------------------------------- MODULE RiskScore --------------------------------
(* The four pillar scorers, their confidence-weighted blend and the hysteresis of *)
(* the level, in whole numbers: a pillar's score in tenths, a confidence in       *)
(* thousandths, a weight in hundredths.  The exponential of the vulnerabilities   *)
(* pillar is the parameter Saturate.                                              *)
EXTENDS Integers, Sequences, FiniteSets, Functions

CONSTANTS
    Saturate,      \* 1000 * (1 - exp(-raw / 500)), for a raw sum in tenths
    SaturateAt     \* the sum from which on it stays the same

ASSUME RiskScoreAssumption == SaturateAt \in Nat /\ Saturate \in [0..SaturateAt -> 0..1000]

Pillars == {"vulnerabilities", "configuration", "identity", "hygiene"}
PillarOrder == <<"vulnerabilities", "configuration", "identity", "hygiene">>
DefaultWeight == [vulnerabilities |-> 30, configuration |-> 25, identity |-> 20, hygiene |-> 15]

AtMost(n, x) == IF x > n THEN n ELSE x
Clamp == [x \in Int |-> IF x < 0 THEN 0 ELSE AtMost(1000, x)]

Base(sev) ==
    CASE sev = "critical" -> 120 [] sev = "high" -> 40 [] sev = "medium" -> 12
      [] sev = "low" -> 3 [] OTHER -> 0

TierFactor(t) ==
    CASE t = "NETWORK_EXPOSED" -> 20 [] t = "ACTIVE" -> 15
      [] t = "INSTALLED_ONLY" -> 1 [] OTHER -> 6

\* An advisory is [status, sev, kev, epss, tier]; only the open ones count.
Contribution(a) ==
    IF a.status # "open" THEN 0
    ELSE (Base(a.sev) * (10 + (IF a.kev THEN 40 ELSE 0) + 3 * a.epss) * TierFactor(a.tier)) \div 100

\* The confidence is the coverage by an inventory times the freshness of the survey.
VulnerabilityScore(advs, inventory, surveyed) ==
    [score |-> Saturate[AtMost(SaturateAt, SumFunction([a \in advs |-> Contribution(a)]))],
     conf |-> (IF inventory THEN 10 ELSE 4) * (IF surveyed THEN 100 ELSE 30)]

SevWeight(sev) ==
    CASE sev = "critical" -> 250 [] sev = "high" -> 120 [] sev = "medium" -> 50
      [] sev = "low" -> 15 [] sev = "info" -> 5 [] OTHER -> 0

ConfigRules == {"sshd_passwordauth", "sshd_permitrootlogin", "kernel_aslr", "fs_shadow_perms",
                "release_signing_not_configured", "update_engine_not_configured"}

\* A rule counts up to 35 points.  The survey is covered by its keys sshd, sysctl and
\* fs_perms, which handle_host_facts stores one level below: the base 0.4 is left.
ConfigurationScore(finds, survey) ==
    LET of(rule) == {f \in finds : f.rule = rule}
        capped(rule) == AtMost(350, SumFunction([f \in of(rule) |-> SevWeight(f.sev)]))
    IN  [score |-> AtMost(1000, SumFunction([rule \in ConfigRules |-> capped(rule)])),
         conf |-> IF survey THEN 400 ELSE 300]

IdentityRules == {"no_owner_account", "excessive_admin_count", "stale_pending_approvals",
                  "hosts_with_expired_certs"}

IdentityScore(finds) ==
    LET counted == {f \in finds : f.rule \in IdentityRules}
        total == SumFunction([f \in counted |-> SevWeight(f.sev)])
    IN  [score |-> AtMost(1000, IF total \in 1..49 THEN 50 ELSE total), conf |-> 1000]

\* The upkeep of a host is [cert, beat, failed], drift the minor versions to the latest
\* release.  The ages that matter here are small beside the week of the confidence.
HygieneScore(k, drift) ==
    [score |-> AtMost(1000, (CASE k.cert = "week" -> 400 [] k.cert = "month" -> 150 [] OTHER -> 0)
                          + (CASE k.beat = "never" -> 250 [] k.beat = "late" -> 200 [] OTHER -> 0)
                          + (IF k.failed THEN 150 ELSE 0) + 80 * drift),
     conf |-> IF k.beat = "never" THEN 700 ELSE 1000]

\* The last hot pillar of the registered order, or none.
HotPillar(subs, w) ==
    LET hot == {i \in 1..Len(PillarOrder) :
                  LET n == PillarOrder[i]
                  IN  n \in DOMAIN subs /\ n \in DOMAIN w /\ w[n] > 0
                      /\ subs[n].score >= 700 /\ subs[n].conf >= 700}
    IN  {PillarOrder[i] : i \in {i \in hot : \A j \in hot : j <= i}}

\* blend: the score is None when too little is known, else the weighted mean, lifted
\* to 50 when one pillar is hot and the others are silent, kept from 0 to 100 and
\* rounded.
Blend(subs, w, None) ==
    LET counted == {n \in DOMAIN subs : n \in DOMAIN w /\ w[n] > 0}
        den == SumFunctionOnSet([n \in Pillars |-> w[n] * subs[n].conf], counted)
        num == SumFunctionOnSet([n \in Pillars |-> subs[n].score * w[n] * subs[n].conf], counted)
        hot == HotPillar(subs, w)
        others == SumFunctionOnSet([n \in Pillars |-> subs[n].score * w[n]], counted \ hot)
        lifted == hot # {} /\ others < 2500
        mean == num \div den
        tenths == IF lifted /\ mean < 500 THEN 500 ELSE mean
    IN  IF den < 10000 THEN None ELSE (Clamp[tenths] + 5) \div 10

--------------------------------------------------------------------------------
Threshold == <<[upper |-> 0, level |-> "minimal"], [upper |-> 15, level |-> "stable"],
               [upper |-> 35, level |-> "moderate"], [upper |-> 55, level |-> "elevated"],
               [upper |-> 75, level |-> "high"], [upper |-> 100, level |-> "severe"]>>

Levels == {Threshold[i].level : i \in 1..Len(Threshold)} \cup {"unknown"}
Band == 3

Index(level) == CHOOSE i \in 1..Len(Threshold) : Threshold[i].level = level
LowerEdge(level) == IF Index(level) = 1 THEN 0 ELSE Threshold[Index(level) - 1].upper
UpperEdge(level) == Threshold[Index(level)].upper

LabelFor(score) ==
    Threshold[CHOOSE i \in 1..Len(Threshold) :
                score <= Threshold[i].upper /\ \A j \in 1..(i-1) : score > Threshold[j].upper].level

\* apply_hysteresis: the level follows the score once it is Band points past the edge
\* of the level it leaves.
HysteresisInner(score, prev) ==
    LET new == LabelFor(score)
    IN  IF prev = "unknown" \/ new = prev THEN new
        ELSE IF Index(new) > Index(prev)
             THEN IF score >= UpperEdge(prev) + Band THEN new ELSE prev
             ELSE IF score <= LowerEdge(new) - Band THEN new ELSE prev
Hysteresis(score, prev) ==
    LET new == LabelFor(score)
    IN  IF prev = "unknown" \/ new = prev THEN new
        ELSE IF Index(new) > Index(prev)
             THEN IF score >= UpperEdge(prev) + Band THEN new ELSE prev
             ELSE IF score <= LowerEdge(prev) - Band THEN new ELSE prev

================================================================================
