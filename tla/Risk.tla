----------------------------------- MODULE Risk -----------------------------------
(* Posture inspection and the risk recomputer: findings, the per-host lock and     *)
(* debounce, the short cut on equal inputs, and everyone who asks for a recompute: *)
(* the match loop, a host's stream, the inspection, the API and the periodic sweep.*)
EXTENDS Advisories, RiskScore

CONSTANTS
    ApiTask,       \* recomputes the API may have under way
    Misconfigs,    \* sets of misconfigurations that host facts may show
    Conditions,    \* organisation-wide conditions that may come and go
    Overrides,     \* bodies of PATCH /posture/risk/config
    FaultyScorers, \* pillars whose scorer may raise or take too long
    Seed,          \* the record the catalog starts with when its feeds are not the subject
    FeedCalls, MatchCalls, RiskCalls,    \* events and failures of each workload (bounds)
    Faults         \* how many of them may be failures

VARIABLES
    keep,          \* the host row: [cert, beat, failed, stamp]
    survey,        \* Host.survey: [at, facts]
    drift,         \* minor versions between the agents and the newest release
    org,           \* conditions that hold
    found, supp,   \* posture_findings, and the suppressed ones
    insp,          \* the inspection in progress, or None
    cfg,           \* ScorerRegistry: the overrides
    lock,          \* RiskRecomputer._locks: who holds each host's
    recent,        \* hosts whose _last_run is less than DEBOUNCE_S ago
    rc,            \* each caller's recompute
    row,           \* host_risk, or None
    sweep,         \* hosts the periodic sweep has still to ask for
    workload

riskVars == <<keep, survey, drift, org, found, supp, insp, cfg, lock, recent, rc, row, sweep>>
vars == <<feedVars, matchVars, riskVars, calls, faults, workload>>

Caller == {"match", "sweep", "inspect"} \cup ApiTask \cup Host
Idle == [pc |-> "idle"]

ASSUME RiskAssumption == None \notin Caller
NoOverride == [weights |-> [n \in {} |-> 0], enabled |-> [n \in {} |-> TRUE]]

RiskInit ==
    /\ keep = [h \in Host |-> [cert |-> "far", beat |-> "recent", failed |-> FALSE, stamp |-> 0]]
    /\ survey = [h \in Host |-> [at |-> TRUE, facts |-> None]] /\ drift = 0
    /\ org = {} /\ found = {} /\ supp = {} /\ insp = None
    /\ cfg = NoOverride
    /\ lock = [h \in Host |-> None] /\ recent = {} /\ rc = [p \in Caller |-> Idle]
    /\ row = [h \in Host |-> None] /\ sweep = {}

\* A recompute caller p is free, and asks for one of h.
Ask(p, h, debounced, force) ==
    /\ rc[p] = Idle
    /\ rc' = [rc EXCEPT ![p] = [pc |-> "ask", h |-> h, debounced |-> debounced, force |-> force]]
Request(p, h) == Ask(p, h, TRUE, FALSE)

\* Messages of a host are handled one after the other by its stream.
Listening(h) == h \in host /\ rc[h] = Idle /\ scan[h] = None

--------------------------------------------------------------------------------
(* The host row.                                                                 *)

\* A heartbeat: last_seen_at changes, and the update status the agent reports.
Heartbeat(h, failed) ==
    /\ Event /\ Listening(h)
    /\ keep' = [keep EXCEPT ![h].beat = "recent", ![h].failed = failed, ![h].stamp = @ + 1]
    /\ Bump(h)
    /\ UNCHANGED <<host, pkg, ha, matchQ, pending, match, tier, scan, feedVars,
                   survey, drift, org, found, supp, insp, cfg, lock, recent, rc, row, sweep>>

\* Time passes: a heartbeat is late, a certificate comes closer to its end.
Ages(h) ==
    /\ Event /\ h \in host
    /\ \/ keep[h].beat = "recent" /\ keep' = [keep EXCEPT ![h].beat = "late"]
       \/ keep[h].cert = "far" /\ keep' = [keep EXCEPT ![h].cert = "month"]
       \/ keep[h].cert = "month" /\ keep' = [keep EXCEPT ![h].cert = "week"]
    /\ UNCHANGED <<matchVars, feedVars, survey, drift, org, found, supp, insp, cfg, lock, recent,
                   rc, row, sweep>>

NewRelease ==
    /\ Event /\ drift' = drift + 1
    /\ UNCHANGED <<matchVars, feedVars, keep, survey, org, found, supp, insp, cfg, lock, recent,
                   rc, row, sweep>>

\* handle_host_facts merges the facts into the survey ...
FactsArrive(h, m) ==
    /\ Event /\ Listening(h)
    /\ survey' = [survey EXCEPT ![h].facts = m]
    /\ UNCHANGED <<matchVars, feedVars, keep, drift, org, found, supp, insp, cfg, lock, recent,
                   rc, row, sweep>>

\* ... and a host survey replaces them.
SurveyReplaces(h) ==
    /\ Event /\ Listening(h)
    /\ survey' = [survey EXCEPT ![h] = [at |-> TRUE, facts |-> None]]
    /\ UNCHANGED <<matchVars, feedVars, keep, drift, org, found, supp, insp, cfg, lock, recent,
                   rc, row, sweep>>

--------------------------------------------------------------------------------
(* Findings.  A finding is [rule, sev, subj]; two of the rules are about hosts but *)
(* name none of them ("host").  The three that always hold, about parts not yet    *)
(* shipped, count for no pillar and are left out.                                *)

RbacRules == [no_owner_account |-> "critical", stale_pending_approvals |-> "medium",
              excessive_admin_count |-> "info"]
TransportRules == [hosts_never_checked_in |-> "medium", hosts_with_expired_certs |-> "high"]
AuthRules == [local_password_admins_exist |-> "medium", admin_without_webauthn |-> "medium",
              recovery_codes_never_viewed |-> "low", passkey_synced |-> "info",
              signcount_regression_recent |-> "high"]
SecretsRules == [secrets_root_key_colocated |-> "high", vault_unreachable |-> "critical",
                 mfa_recency_disabled_for_high_risk |-> "medium"]
UpdateRules == [update_engine_not_configured |-> "info"]
PackagingRules == [install_script_template_missing |-> "high",
                   release_signing_not_configured |-> "info"]
MisconfigRules == [sshd_permitrootlogin |-> "high", sshd_passwordauth |-> "medium",
                   kernel_aslr |-> "medium", fs_shadow_perms |-> "high"]

Findings(rules, holding, subj) ==
    {[rule |-> r, sev |-> rules[r], subj |-> subj] : r \in holding \cap DOMAIN rules}

OrgFindings ==
    Findings(RbacRules, org, "global") \cup Findings(AuthRules, org, "global")
    \cup Findings(SecretsRules, org, "global") \cup Findings(UpdateRules, org, "global")
    \cup Findings(PackagingRules, org, "global") \cup Findings(TransportRules, org, "host")

MisconfigFindings ==
    UNION {Findings(MisconfigRules, survey[h].facts, h) : h \in {h \in host : survey[h].facts # None}}

\* collect_advisory_findings: one finding for a host, of its worst open severity.
AdvisoryFindings ==
    LET open(h, sev) == \E a \in Adv : ha[h][a] = "open" /\ catalog[a] # None /\ catalog[a].sev = sev
        about(h, sev) == [rule |-> "host_advisory_summary", sev |-> sev, subj |-> h]
    IN  {about(h, "critical") : h \in {h \in host : open(h, "critical")}}
        \cup {about(h, "high") : h \in {h \in host : open(h, "high") /\ ~open(h, "critical")}}

OrgChanges(c) ==
    /\ Event /\ org' = (org \ {c}) \cup ({c} \ org)
    /\ UNCHANGED <<matchVars, feedVars, keep, survey, drift, found, supp, insp, cfg, lock, recent,
                   rc, row, sweep>>

\* GET /posture runs run_inspection: first the findings about the organisation ...
InspectOrg ==
    /\ Event /\ insp = None
    /\ insp' = [pc |-> "hosts", todo |-> OrgFindings]
    /\ UNCHANGED <<matchVars, feedVars, keep, survey, drift, org, found, supp, cfg, lock, recent,
                   rc, row, sweep>>

\* ... then those about hosts.
InspectHosts ==
    /\ insp # None /\ insp.pc = "hosts" /\ Quiet
    /\ LET all == insp.todo \cup AdvisoryFindings \cup MisconfigFindings
       IN  insp' = [pc |-> "store", todo |-> all,
                    asks |-> {h \in Host : \E f \in all : f.subj = h}]
    /\ UNCHANGED <<matchVars, feedVars, keep, survey, drift, org, found, supp, cfg, lock, recent,
                   rc, row, sweep>>

\* upsert_finding, each in a transaction of its own.  Nothing removes a finding that no
\* longer holds.
InspectStore(f) ==
    /\ insp # None /\ insp.pc = "store" /\ f \in insp.todo /\ Quiet
    /\ found' = found \cup {f} /\ insp' = [insp EXCEPT !.todo = @ \ {f}]
    /\ rev' = [h \in Host |-> IF f \notin found /\ f.subj \in {h, "global"} THEN rev[h] + 1 ELSE rev[h]]
    /\ UNCHANGED <<host, pkg, ha, matchQ, pending, match, tier, scan, feedVars,
                   keep, survey, drift, org, supp, cfg, lock, recent, rc, row, sweep>>

\* expire_suppressions: the ones whose time has come.
InspectExpire(over) ==
    /\ insp # None /\ insp.pc = "store" /\ insp.todo = {} /\ Quiet /\ over \subseteq supp
    /\ supp' = supp \ over /\ insp' = [pc |-> "ask", asks |-> insp.asks]
    /\ UNCHANGED <<matchVars, feedVars, keep, survey, drift, org, found, cfg, lock, recent,
                   rc, row, sweep>>

\* A recompute of every host with a finding of its own, one after the other.
InspectAsk ==
    /\ insp # None /\ insp.pc = "ask" /\ Quiet /\ rc["inspect"] = Idle
    /\ IF insp.asks = {} THEN insp' = None /\ UNCHANGED rc
       ELSE \E h \in insp.asks : Request("inspect", h) /\ insp' = [insp EXCEPT !.asks = @ \ {h}]
    /\ UNCHANGED <<matchVars, feedVars, keep, survey, drift, org, found, supp, cfg, lock, recent,
                   row, sweep>>

\* suppress_finding and unsuppress_finding; the scorers read neither.
SuppressFinding(f) ==
    /\ Event /\ f \in found /\ supp' = (supp \ {f}) \cup ({f} \ supp)
    /\ UNCHANGED <<matchVars, feedVars, keep, survey, drift, org, found, insp, cfg, lock, recent,
                   rc, row, sweep>>

--------------------------------------------------------------------------------
(* The recomputer.                                                               *)

Weight(n) == IF n \in DOMAIN cfg.weights THEN cfg.weights[n] ELSE DefaultWeight[n]
Enabled(n) == n \in DOMAIN cfg.enabled => cfg.enabled[n]
Weights == [n \in {m \in Pillars : Enabled(m)} |-> Weight(n)]

\* apply_overrides replaces both sets of overrides, after checking names and ranges.
PatchConfig(o) ==
    /\ Event
    /\ DOMAIN o.weights \cup DOMAIN o.enabled \subseteq Pillars
    /\ \A n \in DOMAIN o.weights : o.weights[n] \in 0..100
    /\ cfg' = o
    /\ UNCHANGED <<matchVars, feedVars, keep, survey, drift, org, found, supp, insp, lock, recent,
                   rc, row, sweep>>

\* _fetch_findings: the host's own and the global ones.
FindingsOf(h) == {f \in found : f.subj \in {h, "global"}}

\* The host's advisories with what the catalog, as far as it was read, knows of each.
Enriched(statuses, tiers, known) ==
    {[id |-> a, status |-> statuses[a], tier |-> IF tiers[a] = None THEN "UNKNOWN" ELSE tiers[a],
      sev |-> IF known[a] = None THEN "" ELSE known[a].sev,
      kev |-> known[a] # None /\ known[a].kev,
      epss |-> IF known[a] = None THEN 0 ELSE known[a].epss] :
        a \in {a \in Adv : statuses[a] # None}}

\* _hash_inputs: neither the inventory, the survey, the latest release nor the age of
\* anything is part of it.
HashInputsUnweighted(k, advs, finds, tiers, w) ==
    [host |-> <<k.failed, k.stamp>>,
     advs |-> {<<a.id, a.sev, a.kev, a.epss, a.status>> : a \in advs},
     finds |-> {<<f.rule, f.sev>> : f \in finds}, tiers |-> tiers, weights |-> DefaultWeight]
HashInputs(k, advs, finds, tiers, w) ==
    [host |-> <<k.failed, k.stamp>>,
     advs |-> {<<a.id, a.sev, a.kev, a.epss, a.status>> : a \in advs},
     finds |-> {<<f.rule, f.sev>> : f \in finds}, tiers |-> tiers, weights |-> w]

\* The inputs of the scorers that it leaves out.
Unhashed(h, k, s) == <<k.beat, k.cert, s, pkg[h] # 0, drift>>

\* recompute takes the host's lock, and returns when a debounced caller is too early.
AcquireUnlocked(p) ==
    /\ rc[p].pc = "ask" /\ Quiet
    /\ IF rc[p].debounced /\ rc[p].h \in recent
       THEN rc' = [rc EXCEPT ![p] = Idle] /\ UNCHANGED lock
       ELSE rc' = [rc EXCEPT ![p].pc = "load"] /\ lock' = [lock EXCEPT ![rc[p].h] = p]
    /\ UNCHANGED <<matchVars, feedVars, keep, survey, drift, org, found, supp, insp, cfg, recent,
                   row, sweep>>
Acquire(p) ==
    /\ rc[p].pc = "ask" /\ lock[rc[p].h] = None /\ Quiet
    /\ IF rc[p].debounced /\ rc[p].h \in recent
       THEN rc' = [rc EXCEPT ![p] = Idle] /\ UNCHANGED lock
       ELSE rc' = [rc EXCEPT ![p].pc = "load"] /\ lock' = [lock EXCEPT ![rc[p].h] = p]
    /\ UNCHANGED <<matchVars, feedVars, keep, survey, drift, org, found, supp, insp, cfg, recent,
                   row, sweep>>

\* The finally of recompute: _last_run is set whatever happened.
Release(p) ==
    /\ rc' = [rc EXCEPT ![p] = Idle]
    /\ lock' = [lock EXCEPT ![rc[p].h] = None]
    /\ recent' = recent \cup {rc[p].h}

\* The fleet session: the host, its advisories, findings and exposure.  A query for the
\* findings that fails gives none.
RecomputeLoad(p, blind) ==
    /\ rc[p].pc = "load"
    /\ (~blind /\ Quiet) \/ (blind /\ Fault)
    /\ LET h == rc[p].h
       IN  IF h \notin host THEN ~blind /\ Release(p)
           ELSE /\ rc' = [rc EXCEPT ![p] = [pc |-> "score", h |-> h, force |-> rc[p].force,
                            rev |-> rev[h], keep |-> keep[h], survey |-> survey[h],
                            ha |-> ha[h], tier |-> tier[h], blind |-> blind,
                            finds |-> IF blind THEN {} ELSE FindingsOf(h)]]
                /\ UNCHANGED <<lock, recent>>
    /\ UNCHANGED <<matchVars, feedVars, keep, survey, drift, org, found, supp, insp, cfg, row, sweep>>

\* The pillars.  A scorer that fails counts as unknown, an inventory that cannot be
\* counted as none, a release that cannot be looked up as no drift.
SubScores(r, advs, failing) ==
    LET packages == pkg[r.h] # 0 /\ failing # "packages"
    IN  [n \in {m \in Pillars : Enabled(m)} |->
          IF n = failing THEN [score |-> 0, conf |-> 0]
          ELSE CASE n = "vulnerabilities" -> VulnerabilityScore(advs, packages, r.survey.at)
                 [] n = "configuration" ->
                      ConfigurationScore(r.finds, r.survey.at \/ r.survey.facts # None \/ packages)
                 [] n = "identity" -> IdentityScore(r.finds)
                 [] n = "hygiene" -> HygieneScore(r.keep, IF failing = "release" THEN 0 ELSE drift)]

\* The catalog session, the inventory count, the latest release, and the scorers, one of
\* which may be failing: the recompute goes on without it.  unhashed is a ghost: what the
\* row is computed from beside the hashed inputs, or None after such a failure.
Lookups == {"catalog", "packages", "release"}
RecomputeScore(p, failing) ==
    /\ rc[p].pc = "score"
    /\ (failing = None /\ Quiet) \/ (failing # None /\ Fault)
    /\ LET r == rc[p]
           advs == Enriched(r.ha, r.tier, IF failing = "catalog" THEN Empty ELSE catalog)
       IN  rc' = [rc EXCEPT ![p] = [pc |-> "save", h |-> r.h, force |-> r.force, rev |-> r.rev,
                     score |-> Blend(SubScores(r, advs, failing), Weights, None),
                     hash |-> HashInputs(r.keep, advs, r.finds, r.tier, Weights),
                     unhashed |-> IF r.blind \/ failing # None THEN None
                                  ELSE Unhashed(r.h, r.keep, r.survey)]]
    /\ UNCHANGED <<matchVars, feedVars, keep, survey, drift, org, found, supp, insp, cfg, lock,
                   recent, row, sweep>>

\* The second fleet session: nothing on equal inputs, else the row, with the level its
\* last level and the score give.  The row read before is the one merge writes into, so
\* that it never differs from the new level: no transition is announced.
RecomputeSave(p) ==
    /\ rc[p].pc = "save" /\ Quiet
    /\ LET r == rc[p]
           old == row[r.h]
           level == IF r.score = None THEN "unknown"
                    ELSE IF old = None \/ old.score = None THEN LabelFor(r.score)
                    ELSE Hysteresis(r.score, old.level)
       IN  row' = IF ~r.force /\ old # None /\ old.hash = r.hash THEN row
                  ELSE [row EXCEPT ![r.h] = [score |-> r.score, level |-> level, hash |-> r.hash,
                                             unhashed |-> r.unhashed, rev |-> r.rev]]
    /\ Release(p)
    /\ UNCHANGED <<matchVars, feedVars, keep, survey, drift, org, found, supp, insp, cfg, sweep>>

\* An exception: the callers log it; the sweep leaves its other hosts for the next time.
RecomputeFail(p) ==
    /\ rc[p].pc \in {"load", "score", "save"} /\ Fault /\ Release(p)
    /\ sweep' = IF p = "sweep" THEN {} ELSE sweep
    /\ UNCHANGED <<matchVars, feedVars, keep, survey, drift, org, found, supp, insp, cfg, row>>

RecomputeStep(p) ==
    Acquire(p) \/ RecomputeLoad(p, FALSE) \/ RecomputeScore(p, None) \/ RecomputeSave(p)

\* DEBOUNCE_S has passed since the host's last run.
Elapse(h) ==
    /\ h \in recent /\ recent' = recent \ {h} /\ Quiet
    /\ UNCHANGED <<matchVars, feedVars, keep, survey, drift, org, found, supp, insp, cfg, lock,
                   rc, row, sweep>>

--------------------------------------------------------------------------------
(* Those who ask.                                                                *)

\* _risk_sweep wakes, and asks for each host in turn.
SweepWake ==
    /\ sweep = {} /\ rc["sweep"] = Idle /\ host # {} /\ Quiet
    /\ sweep' = host
    /\ UNCHANGED <<matchVars, feedVars, keep, survey, drift, org, found, supp, insp, cfg, lock,
                   recent, rc, row>>
SweepAsk(h) ==
    /\ h \in sweep /\ Quiet /\ Request("sweep", h)
    /\ sweep' = sweep \ {h}
    /\ UNCHANGED <<matchVars, feedVars, keep, survey, drift, org, found, supp, insp, cfg, lock,
                   recent, row>>

\* _match_loop, after a match that did not fail; the loop waits for the recompute.
MatchAsk ==
    /\ match # None /\ match.pc = "risk" /\ Quiet /\ Request("match", match.h) /\ match' = None
    /\ UNCHANGED <<host, pkg, ha, matchQ, pending, tier, scan, rev, feedVars, keep, survey, drift,
                   org, found, supp, insp, cfg, lock, recent, row, sweep>>

\* The stream, after an exposure scan.
ScanAsk(h) ==
    /\ scan[h] # None /\ scan[h].pc = "risk" /\ Quiet /\ Request(h, h)
    /\ scan' = [scan EXCEPT ![h] = None]
    /\ UNCHANGED <<host, pkg, ha, matchQ, pending, match, tier, rev, feedVars, keep, survey, drift,
                   org, found, supp, insp, cfg, lock, recent, row, sweep>>

ApiAsk(p, h, debounced, force) ==
    /\ Event /\ h \in host /\ Ask(p, h, debounced, force)
    /\ UNCHANGED <<matchVars, feedVars, keep, survey, drift, org, found, supp, insp, cfg, lock,
                   recent, row, sweep>>

\* get_host_risk: a first read computes, a read of a row of an hour ago asks in the background.
GetHostRisk(p, h) == ApiAsk(p, h, row[h] # None, FALSE)
RecomputeHostRisk(p, h) == ApiAsk(p, h, FALSE, TRUE)
\* reboot_host, shell_exec_host, pkg_update_host and rescan_host, when they have committed.
HostAction(p, h) == ApiAsk(p, h, TRUE, FALSE)

--------------------------------------------------------------------------------
Init ==
    /\ RiskInit /\ faults \in 0..Faults
    /\ \/ /\ workload = "feeds" /\ calls = FeedCalls - faults
          /\ CatalogInit(Empty) /\ \E v \in 0..1 : AdvisoriesInit({CHOOSE h \in Host : TRUE}, v, Empty)
       \/ LET seeded(kev) == [Empty EXCEPT ![Seed.id] =
                                [Upserted(None, Kept(Seed, {"Ubuntu", "Debian"})) EXCEPT !.kev = kev]]
          IN  \/ /\ workload = "match" /\ calls = MatchCalls - faults
                 /\ CatalogInit(seeded(FALSE)) /\ AdvisoriesInit(Host, 0, Empty)
              \/ /\ workload = "risk" /\ calls = RiskCalls - faults
                 /\ CatalogInit(seeded(TRUE))
                 /\ AdvisoriesInit({CHOOSE h \in Host : TRUE}, 1, [Empty EXCEPT ![Seed.id] = "open"])

Background ==
    \/ (rc["match"] = Idle /\ MatchTake) /\ UNCHANGED riskVars
    \/ (MatchRead \/ MatchQuery \/ MatchWrite \/ MatchFail) /\ UNCHANGED riskVars
    \/ \E h \in Host : ScanIngest(h) /\ UNCHANGED riskVars
    \/ MatchAsk \/ InspectHosts \/ InspectAsk
    \/ \E f \in IF insp = None \/ insp.pc # "store" THEN {} ELSE insp.todo : InspectStore(f)
    \/ \E over \in SUBSET supp : InspectExpire(over)
    \/ \E h \in Host : ScanAsk(h) \/ SweepAsk(h) \/ Elapse(h)
    \/ \E p \in Caller : \/ RecomputeStep(p) \/ RecomputeFail(p) \/ RecomputeLoad(p, TRUE)
                         \/ \E failing \in FaultyScorers \cup Lookups : RecomputeScore(p, failing)
    \/ workload = "risk" /\ SweepWake

MatchEvent ==
    \E h \in Host :
       \/ \E v \in 0..MaxVersion : Listening(h) /\ InventoryArrives(h, v) /\ UNCHANGED riskVars
       \/ workload = "match" /\ Listening(h) /\ InventoryUnread(h) /\ UNCHANGED riskVars

RiskEvent ==
    \/ \E h \in Host :
         \/ \E failed \in BOOLEAN : Heartbeat(h, failed)
         \/ \E m \in Misconfigs : FactsArrive(h, m)
         \/ Ages(h) \/ SurveyReplaces(h)
         \/ \E s \in Sightings : Listening(h) /\ ScanLoad(h, s) /\ UNCHANGED riskVars
         \/ \E a \in Adv : (SuppressAdvisory(h, a) \/ UnsuppressAdvisory(h, a)) /\ UNCHANGED riskVars
         \/ \E p \in ApiTask : GetHostRisk(p, h) \/ RecomputeHostRisk(p, h) \/ HostAction(p, h)
    \/ NewRelease \/ InspectOrg
    \/ \E c \in Conditions : OrgChanges(c)
    \/ \E f \in found : SuppressFinding(f)
    \/ \E o \in Overrides : PatchConfig(o)

FeedLoop ==
    /\ \/ StartFeed \/ FinishFeed
       \/ \E a \in Adv : WriteOsv(a) \/ WriteScore(a)
       \/ \E content \in [Adv -> OsvRecord \cup {None}] : FetchOsv(content, Ecosystems)
       \/ \E names \in SUBSET Cve : FetchScores(names)
    /\ UNCHANGED <<matchVars, riskVars, workload>>

Next ==
    /\ UNCHANGED workload
    /\ \/ workload = "feeds" /\ FeedStep /\ UNCHANGED riskVars
       \/ workload = "risk" /\ (FeedLoop \/ (TickFeed("epss") /\ UNCHANGED <<matchVars, riskVars>>))
       \/ workload # "feeds" /\ (Background \/ MatchEvent)
       \/ workload = "risk" /\ RiskEvent

\* The event loop runs some task that is ready, whichever; and time passes.
EventLoop ==
    \/ FeedLoop
    \/ /\ UNCHANGED workload
       /\ \/ rc["match"] = Idle /\ MatchTake /\ UNCHANGED riskVars
          \/ (MatchRead \/ MatchQuery \/ MatchWrite) /\ UNCHANGED riskVars
          \/ MatchAsk \/ \E p \in Caller : RecomputeStep(p)
          \/ workload = "risk" /\ (SweepWake \/ \E h \in Host : SweepAsk(h))
DebounceEnds == (\E h \in Host : Elapse(h)) /\ UNCHANGED workload

Fairness == WF_vars(EventLoop) /\ WF_vars(DebounceEnds)

Spec == Init /\ [][Next]_vars
LiveSpec == Spec /\ Fairness

--------------------------------------------------------------------------------
\* The level shown is the label of its score, or one whose band the score has left by
\* less than Band points, after any sequence of recomputes (apply_hysteresis).
LevelNearScore ==
    \A h \in Host : row[h] # None =>
        IF row[h].score = None THEN row[h].level = "unknown"
        ELSE \/ row[h].level = LabelFor(row[h].score)
             \/ row[h].level \in Levels \ {"unknown"}
                /\ row[h].score > LowerEdge(row[h].level) - Band
                /\ row[h].score < UpperEdge(row[h].level) + Band

\* A recompute never replaces a row by one computed from older tables of the host: the
\* lock of RiskRecomputer spans the reads and the write.
RowNeverGoesBack ==
    [][\A h \in Host : row[h] # None /\ row'[h] # None => row'[h].rev >= row[h].rev]_vars

\* The tables of h, as a recompute without failures would read them now.
Now(h) == [h |-> h, keep |-> keep[h], survey |-> survey[h], finds |-> FindingsOf(h),
           advs |-> Enriched(ha[h], tier[h], catalog)]

\* Although the debounce drops requests and recomputes fail, every host's row ends up with
\* the hash of the tables (the sweep asks again, and is not stopped by an exception), and
\* with the score they give, if no failure was swallowed while it was computed and none of
\* the inputs _hash_inputs leaves out has changed since (Unhashed: heartbeat and certificate
\* that got older, survey, inventory, newest release).  In those two cases the sweep finds
\* the hash equal and keeps the old score.
RiskCatchesUp ==
    workload = "risk" =>
    <>[](\A h \in host :
            LET n == Now(h) IN
            /\ row[h] # None
            /\ row[h].hash = HashInputs(n.keep, n.advs, n.finds, tier[h], Weights)
            /\ row[h].unhashed = Unhashed(h, n.keep, n.survey)
                 => row[h].score = Blend(SubScores(n, n.advs, None), Weights, None))

\* A host does not stay pending and a feed does not stay in progress: otherwise no later
\* inventory of the host would be matched (enqueue_match, _match_loop, _run_feed).
WorkIsServed == workload # "risk" => []<>(pending = {} /\ inProgress = {})

================================================================================
