------------------------------- MODULE Advisories -------------------------------
(* Host inventories, the match loop of the advisory worker, and the runtime      *)
(* exposure of a host.                                                           *)
EXTENDS Catalog

CONSTANTS
    Host,
    MaxVersion,    \* versions of the package (bound)
    Manager,       \* each host's package manager, and the version of its OS
    OsVersion,
    QueueMax       \* match_queue_maxsize

ASSUME AdvisoriesAssumption == MaxVersion \in Nat /\ QueueMax \in Nat \ {0}

VARIABLES
    host,          \* enrolled hosts
    pkg,           \* host_packages: the version installed, 0 for none
    ha,            \* host_advisories: a status for each host and advisory, or None
    matchQ,        \* AdvisoryWorker.match_queue
    pending,       \* AdvisoryWorker._pending_matches
    match,         \* the match in progress, or None
    tier,          \* host_advisory_exposure: a tier for each host and advisory, or None
    scan,          \* the exposure message each stream is handling, or None
    rev            \* changes to what the fleet tables say of each host (history)

matchVars == <<host, pkg, ha, matchQ, pending, match, tier, scan, rev>>

Bump(h) == rev' = [rev EXCEPT ![h] = @ + 1]

AdvisoriesInit(hosts, v, statuses) ==
    /\ host = hosts /\ pkg = [h \in Host |-> IF h \in hosts THEN v ELSE 0]
    /\ ha = [h \in Host |-> IF h \in hosts THEN statuses ELSE Empty] /\ tier = [h \in Host |-> Empty]
    /\ matchQ = <<>> /\ pending = {} /\ match = None
    /\ scan = [h \in Host |-> None] /\ rev = [h \in Host |-> 0]

\* _DPKG_VERSION_MAP and _RPM_VERSION_MAP, by exact version: a minor release such as
\* "9.3" is not shortened, and has no entry.
VersionMap(manager, os) ==
    CASE manager = "dpkg" /\ os = "22.04" -> {"Ubuntu", "Ubuntu:Pro"}
      [] manager = "dpkg" /\ os = "12" -> {"Debian"}
      [] manager = "rpm" /\ os = "9" -> {"Red Hat", "AlmaLinux", "Rocky Linux"}
      [] OTHER -> {}

CandidateEcosystems(manager, os) == {manager} \cup VersionMap(manager, os)

\* _resolve_ecosystems: the configured list, or what the enrolled hosts' versions make of
\* the package managers seen, and the languages.
Ecosystems ==
    IF Configured # None THEN Configured
    ELSE LET seen == {Manager[h] : h \in {h \in host : pkg[h] # 0}}
         IN  Languages \cup UNION {CandidateEcosystems(m, OsVersion[h]) : m \in seen, h \in host}

FeedStep ==
    /\ \/ \E names \in {FeedNames} \cup {{f} : f \in FeedNames} : TriggerSync(names)
       \/ \E f \in FeedNames : TickFeed(f)
       \/ StartFeed
       \/ \E content \in [Adv -> OsvRecord \cup {None}] : FetchOsv(content, Ecosystems)
       \/ \E names \in SUBSET Cve : FetchScores(names)
       \/ \E a \in Adv : WriteOsv(a) \/ WriteScore(a)
       \/ FinishFeed \/ FailFeed
    /\ UNCHANGED matchVars

--------------------------------------------------------------------------------
(* Matching.                                                                     *)

\* _in_range: introduced <= current < fixed, a missing end being open.
InRange(v, row) == (row.intro = None \/ v >= row.intro) /\ (row.fix = None \/ v < row.fix)

\* One affected row of match_host, against the status so far.  The status is set from
\* the row whatever it was: a suppressed advisory is opened or fixed again.
Judge(status, v, row) ==
    IF status = None
    THEN IF InRange(v, row) THEN "open" ELSE None
    ELSE IF row.fix # None /\ ~InRange(v, row) THEN "fixed" ELSE "open"

\* The rows of one advisory in turn: the last one decides.  An advisory without a row
\* for the host keeps its status, so does one whose package is gone.
Judged(status, v, rows) ==
    LET after[i \in 0..Len(rows)] == IF i = 0 THEN status ELSE Judge(after[i-1], v, rows[i])
    IN  after[Len(rows)]

\* enqueue_match: refused while the host is pending, which it is until its match has
\* ended, and when the queue is full.
EnqueueMatchEarly(h) ==
    IF h \in pending THEN UNCHANGED <<matchQ, pending>>
    ELSE /\ pending' = pending \cup {h}
         /\ matchQ' = IF Len(matchQ) = QueueMax THEN matchQ ELSE Append(matchQ, h)
EnqueueMatch(h) ==
    IF h \in pending \/ Len(matchQ) = QueueMax THEN UNCHANGED <<matchQ, pending>>
    ELSE pending' = pending \cup {h} /\ matchQ' = Append(matchQ, h)

\* handle_package_inventory, a full snapshot or a delta, and the request for a match.
InventoryArrives(h, v) ==
    /\ Event /\ h \in host
    /\ pkg' = [pkg EXCEPT ![h] = v] /\ EnqueueMatch(h)
    /\ UNCHANGED <<host, ha, match, tier, scan, rev, feedVars>>

\* The handler swallows what it raises: the host is matched against its old packages.
\* A container inventory, which the matcher does not read, ends the same way.
InventoryUnread(h) ==
    /\ Event /\ h \in host /\ EnqueueMatch(h)
    /\ UNCHANGED <<host, pkg, ha, match, tier, scan, rev, feedVars>>

\* _match_loop takes a host; it stays pending.
MatchTake ==
    /\ match = None /\ matchQ # <<>> /\ Quiet
    /\ match' = [h |-> Head(matchQ), pc |-> "read"] /\ matchQ' = Tail(matchQ)
    /\ UNCHANGED <<host, pkg, ha, pending, tier, scan, rev, feedVars>>

\* match_host, in the fleet session: nothing to do without a host or a package.
MatchRead ==
    /\ match # None /\ match.pc = "read" /\ Quiet
    /\ IF match.h \in host /\ pkg[match.h] # 0
       THEN match' = [h |-> match.h, pc |-> "query", v |-> pkg[match.h]] /\ UNCHANGED pending
       ELSE match' = [h |-> match.h, pc |-> "risk"] /\ pending' = pending \ {match.h}
    /\ UNCHANGED <<host, pkg, ha, matchQ, tier, scan, rev, feedVars>>

\* match_host, in the catalog session: the rows of the host's ecosystems.
MatchQuery ==
    /\ match # None /\ match.pc = "query" /\ Quiet
    /\ LET ecos == CandidateEcosystems(Manager[match.h], OsVersion[match.h])
       IN  match' = [h |-> match.h, pc |-> "write", v |-> match.v,
                     rows |-> [a \in Adv |-> IF catalog[a] = None THEN <<>>
                                 ELSE SelectSeq(catalog[a].rows, LAMBDA r : r.eco \in ecos)]]
    /\ UNCHANGED <<host, pkg, ha, matchQ, pending, tier, scan, rev, feedVars>>

\* match_host writes and commits; the host is no longer pending.  (The rescan tasks that
\* the loop then closes are those of Hosts.)
MatchWrite ==
    /\ match # None /\ match.pc = "write" /\ Quiet
    /\ ha' = [ha EXCEPT ![match.h] = [a \in Adv |-> Judged(@[a], match.v, match.rows[a])]]
    /\ pending' = pending \ {match.h} /\ match' = [h |-> match.h, pc |-> "risk"]
    /\ IF ha' = ha THEN UNCHANGED rev ELSE Bump(match.h)
    /\ UNCHANGED <<host, pkg, matchQ, tier, scan, feedVars>>

\* An exception of match_host: no longer pending, and no recompute.
MatchFail ==
    /\ match # None /\ match.pc # "risk" /\ Fault
    /\ pending' = pending \ {match.h} /\ match' = None
    /\ UNCHANGED <<host, pkg, ha, matchQ, tier, scan, rev, feedVars>>

\* suppress_host_advisory and unsuppress_host_advisory.
SetStatus(h, a, status) ==
    /\ Event /\ ha[h][a] # None /\ ha[h][a] # status
    /\ ha' = [ha EXCEPT ![h][a] = status] /\ Bump(h)
    /\ UNCHANGED <<host, pkg, matchQ, pending, match, tier, scan, feedVars>>
SuppressAdvisory(h, a) == SetStatus(h, a, "suppressed")
UnsuppressAdvisory(h, a) == SetStatus(h, a, "open")

--------------------------------------------------------------------------------
(* Runtime exposure.  A scan sees the package quiet, running (a process, a service *)
(* or a module), or listening, on the loopback address or on another.             *)

Sightings == {"quiet", "running", "loopback", "public"}

DeriveTier(sighting) ==
    CASE sighting = "quiet" -> "INSTALLED_ONLY"
      [] sighting \in {"running", "loopback"} -> "ACTIVE"
      [] sighting = "public" -> "NETWORK_EXPOSED"

\* The runtime_exposure message: the packages and the open advisories it is judged by.
ScanLoad(h, sighting) ==
    /\ Event /\ h \in host /\ scan[h] = None
    /\ scan' = [scan EXCEPT ![h] =
                  [pc |-> "ingest", tier |-> DeriveTier(sighting),
                   of |-> IF pkg[h] = 0 THEN {} ELSE {a \in Adv : ha[h][a] = "open"}]]
    /\ UNCHANGED <<host, pkg, ha, matchQ, pending, match, tier, rev, feedVars>>

\* ExposureHandler.ingest replaces every row of the host.
ScanIngest(h) ==
    /\ scan[h] # None /\ scan[h].pc = "ingest" /\ Quiet
    /\ tier' = [tier EXCEPT ![h] = [a \in Adv |-> IF a \in scan[h].of THEN scan[h].tier ELSE None]]
    /\ scan' = [scan EXCEPT ![h] = [pc |-> "risk"]]
    /\ IF tier' = tier THEN UNCHANGED rev ELSE Bump(h)
    /\ UNCHANGED <<host, pkg, ha, matchQ, pending, match, feedVars>>

MatchStep == MatchTake \/ MatchRead \/ MatchQuery \/ MatchWrite

================================================================================
