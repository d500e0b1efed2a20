-------------------------------- MODULE Catalog --------------------------------
(* The advisory catalog and the worker's feed loop: OSV records, EPSS and KEV    *)
(* scores, the bounded queue of syncs and the status each feed leaves.           *)
(*                                                                              *)
(* One package is tracked; a version is a number, so that the textual orders of  *)
(* matcher._in_range are the order of numbers.  An OSV record is                 *)
(*   [id, aliases, affected: a sequence of [eco, intro, fix], text, cvss, whole] *)
(* where text is the severity in words ("" when there is none), cvss a base      *)
(* score in tenths (0 when it is a vector, which float() refuses) and whole is   *)
(* FALSE when the entry does not parse.                                          *)
EXTENDS Integers, Sequences, FiniteSets

CONSTANTS
    None,
    Adv,           \* advisory identifiers
    Cve,           \* the names EPSS and KEV use
    OsvRecord,     \* records all.zip may hold
    Configured,    \* settings.advisory_ecosystems: a set, or None for "auto"
    Languages,     \* ecosystems always included
    FeedQueueMax   \* feed_sync_queue_maxsize

ASSUME CatalogAssumption ==
    /\ FeedQueueMax \in Nat \ {0}
    /\ IsFiniteSet(Adv)
    /\ \A r \in OsvRecord : r.id \in Adv /\ r.aliases \subseteq Cve

VARIABLES
    catalog,       \* advisories and affected_packages: a record for each, or None
    feedQ,         \* AdvisoryWorker.feed_sync_queue
    feed,          \* the sync in progress, or None
    inProgress,    \* AdvisoryWorker.in_progress
    feedStatus,    \* feed_status: "never", "ok" or "error"
    calls,         \* requests and events left (bound)
    faults         \* failures left (bound)

feedVars == <<catalog, feedQ, feed, inProgress, feedStatus>>

Feeds == <<"osv", "epss", "kev">>
FeedNames == {"osv", "epss", "kev"}
Empty == [a \in Adv |-> None]

CatalogInit(c) ==
    /\ catalog = c /\ feedQ = <<>> /\ feed = None /\ inProgress = {}
    /\ feedStatus = [f \in FeedNames |-> "never"]

Event == calls > 0 /\ calls' = calls - 1 /\ UNCHANGED faults
Fault == faults > 0 /\ faults' = faults - 1 /\ UNCHANGED calls
Quiet == UNCHANGED <<calls, faults>>

--------------------------------------------------------------------------------
(* Records.                                                                      *)

\* parse_osv_record: words before the CVSS score, and "unknown" without either.
SeverityOf(r) ==
    CASE r.text \in {"critical", "high", "medium", "low"} -> r.text
      [] r.text = "moderate" -> "medium"
      [] r.text = "negligible" -> "low"
      [] OTHER -> CASE r.cvss >= 90 -> "critical"
                    [] r.cvss \in 70..89 -> "high"
                    [] r.cvss \in 40..69 -> "medium"
                    [] r.cvss \in 1..39 -> "low"
                    [] OTHER -> "unknown"

\* What osv_sync_stream keeps of a record: its affected packages of the allowed
\* ecosystems, and nothing when none is left or the entry does not parse.
Kept(r, allow) ==
    LET rows == SelectSeq(r.affected, LAMBDA row : row.eco \in allow)
    IN  IF ~r.whole \/ rows = <<>> THEN None
        ELSE [sev |-> SeverityOf(r), aliases |-> r.aliases, rows |-> rows]

\* upsert_advisories: the text is replaced, the scores of another feed are kept, the
\* affected rows are deleted and inserted in the same transaction.
Upserted(old, new) ==
    [sev |-> new.sev, aliases |-> new.aliases, rows |-> new.rows,
     kev |-> old # None /\ old.kev,
     epss |-> IF old = None THEN 0 ELSE old.epss]

\* apply_scores: every advisory that has a scored name as its id or as an alias.
Scored(names) == {a \in Adv : catalog[a] # None /\ (a \in names \/ catalog[a].aliases \cap names # {})}

--------------------------------------------------------------------------------
(* The queue and the loop.                                                       *)

\* enqueue_feed_sync of several feeds in turn: a full queue refuses the rest.
Enqueued(q, names) ==
    LET wanted == SelectSeq(Feeds, LAMBDA f : f \in names)
        room == FeedQueueMax - Len(q)
    IN  q \o SubSeq(wanted, 1, IF Len(wanted) < room THEN Len(wanted) ELSE room)

\* trigger_feed_sync (one feed or all of them), and the syncs of start-up.
TriggerSync(names) ==
    /\ Event /\ names \in {FeedNames} \cup {{f} : f \in FeedNames}
    /\ feedQ' = Enqueued(feedQ, names)
    /\ UNCHANGED <<catalog, feed, inProgress, feedStatus>>

\* _tick_feed: the interval of one feed has passed.
TickFeed(f) ==
    /\ Event
    /\ feedQ' = Enqueued(feedQ, {f})
    /\ UNCHANGED <<catalog, feed, inProgress, feedStatus>>

\* _sync_loop takes the next sync and _run_feed announces it.
StartFeed ==
    /\ feed = None /\ feedQ # <<>> /\ Quiet
    /\ feed' = [name |-> Head(feedQ), pc |-> "fetch"]
    /\ feedQ' = Tail(feedQ)
    /\ inProgress' = inProgress \cup {Head(feedQ)}
    /\ UNCHANGED <<catalog, feedStatus>>

\* The OSV download, read with the allowlist of this moment.  Entries that do not
\* parse leave an error behind and do not stop the rest.
FetchOsv(content, allow) ==
    /\ feed # None /\ feed.name = "osv" /\ feed.pc = "fetch" /\ Quiet
    /\ \A a \in Adv : content[a] # None => content[a].id = a
    /\ LET kept == [a \in Adv |-> IF content[a] = None THEN None ELSE Kept(content[a], allow)]
       IN  feed' = [name |-> "osv", pc |-> "write", kept |-> kept,
                    todo |-> {a \in Adv : kept[a] # None},
                    error |-> \E a \in Adv : content[a] # None /\ ~content[a].whole]
    /\ UNCHANGED <<catalog, feedQ, inProgress, feedStatus>>

\* A batch of one advisory: upsert_advisories commits and pauses between batches.
WriteOsv(a) ==
    /\ feed # None /\ feed.name = "osv" /\ feed.pc = "write" /\ a \in feed.todo /\ Quiet
    /\ catalog' = [catalog EXCEPT ![a] = Upserted(@, feed.kept[a])]
    /\ feed' = [feed EXCEPT !.todo = @ \ {a}]
    /\ UNCHANGED <<feedQ, inProgress, feedStatus>>

\* EPSS and KEV: the download and the alias index, made once for the whole sync.
FetchScores(names) ==
    /\ feed # None /\ feed.name \in {"epss", "kev"} /\ feed.pc = "fetch" /\ Quiet
    /\ feed' = [name |-> feed.name, pc |-> "write", todo |-> Scored(names), error |-> FALSE]
    /\ UNCHANGED <<catalog, feedQ, inProgress, feedStatus>>

\* A batch of one: an EPSS score (0.9 here) or the KEV flag, which is never cleared.
WriteScore(a) ==
    /\ feed # None /\ feed.name \in {"epss", "kev"} /\ feed.pc = "write" /\ a \in feed.todo /\ Quiet
    /\ catalog' = [catalog EXCEPT ![a] = IF feed.name = "kev" THEN [@ EXCEPT !.kev = TRUE]
                                         ELSE [@ EXCEPT !.epss = 9]]
    /\ feed' = [feed EXCEPT !.todo = @ \ {a}]
    /\ UNCHANGED <<feedQ, inProgress, feedStatus>>

\* The finally of _run_feed, after the last batch or after an exception.
RecordStatus(status) ==
    /\ inProgress' = inProgress \ {feed.name}
    /\ feedStatus' = [feedStatus EXCEPT ![feed.name] = status]
    /\ feed' = None
    /\ UNCHANGED <<catalog, feedQ>>

FinishFeed ==
    /\ feed # None /\ feed.pc = "write" /\ feed.todo = {} /\ Quiet
    /\ RecordStatus(IF feed.error THEN "error" ELSE "ok")

FailFeed ==
    /\ feed # None /\ Fault
    /\ RecordStatus("error")

================================================================================
