------------------------------- MODULE Sessions -------------------------------
(* Signing in and staying signed in: password logins with their persistent     *)
(* lockout, OIDC logins and account links, the bootstrap and admin tokens, and *)
(* the session service with its read-through cache.                            *)
(*                                                                             *)
(* Time is not counted: each deadline of the code is an event that may happen  *)
(* at any moment (TTLs of the cache, the session, the OIDC state, the lockout  *)
(* and its failure window).                                                    *)
EXTENDS Requests, Combinatorics

CONSTANTS
    User,        \* accounts; one e-mail address each
    Admin,       \* the account admin@local, a member of User
    Sid,         \* session tokens
    State,       \* OIDC state values
    Subject,     \* subjects at the identity provider
    EmailOf,     \* [Subject -> User]: the e-mail claim of a subject
    FailLimit    \* failures that lock an account (5 in the code)

ASSUME SessionsAssumption ==
    /\ Admin \in User
    /\ EmailOf \in [Subject -> User]
    /\ FailLimit \in Nat \ {0, 1}
    /\ None \notin User
    /\ IsFiniteSet(Req)

VARIABLES
    users,     \* users table: "new" (e-mail unused), "present" or "deleted"
    owner,     \* sessions table: the user of each row, None where there is none
    revoked,   \* rows with revoked_at set
    over,      \* rows past expires_at or idle for too long
    cache,     \* tokens held in the TTLCache of SessionService
    locks,     \* lockout_records, one row per user
    changed,   \* rbac.binding_changed events not yet handled, by user
    sweeping,  \* the user whose rows the subscription has revoked, not yet evicted
    token,     \* the bootstrap token: "open" or "consumed"
    states,    \* OidcStateStore and the tokens that left it
    links,     \* oidc_account_links: the user a subject is linked to
    idpKey,    \* the provider's signing key, and the one in the JWKS cache
    jwks,
    guesses,   \* wrong passwords checked since the record of the user was last
               \* cleared or its lock engaged (history)
    raced,     \* sessions with a lookup between its read and its put when the
               \* eviction of a revoke ran (history)
    signedIn   \* the users that logins of each subject got a session for (history)

signInVars == <<users, owner, revoked, over, cache, locks, changed, sweeping, token,
                states, links, idpKey, jwks, guesses, raced, signedIn>>

sessionVars == <<owner, revoked, over, cache, raced>>
lockVars == <<locks, guesses>>
oidcVars == <<states, links, idpKey, jwks, signedIn>>
revokeVars == <<changed, sweeping>>

NoRecord == [n |-> 0, lock |-> "none", level |-> 0, old |-> FALSE]

-----------------------------------------------------------------------------
SignInInit ==
    /\ users \in [User -> {"new", "present"}]
    /\ users[Admin] = "new"
    /\ owner = [s \in Sid |-> None]
    /\ revoked = {} /\ over = {} /\ cache = {} /\ raced = {}
    /\ locks = [u \in User |-> NoRecord]
    /\ guesses = [u \in User |-> 0]
    /\ changed = {} /\ sweeping = None
    /\ token = "open"
    /\ states = [t \in State |-> [is |-> "unused"]]
    /\ links = [p \in Subject |-> None]
    /\ signedIn = [p \in Subject |-> {}]
    /\ idpKey = 1 /\ jwks = 0

\* Room for one more row of the sessions table (a bound of the model).
CanIssue ==
    Cardinality({s \in Sid : owner[s] = None})
      > Cardinality({r \in Req : req[r].pc \in {"issue", "jit", "jitc"}})

\* SessionService.issue: a row with a fresh token, committed; the cache is not
\* filled.
Issue(r) ==
    /\ At(r, "issue")
    /\ \E s \in Sid :
         /\ owner[s] = None
         /\ owner' = [owner EXCEPT ![s] = req[r].user]
    /\ Done(r)
    /\ UNCHANGED <<users, revoked, over, cache, raced, token, lockVars,
                   revokeVars, oidcVars>>

-----------------------------------------------------------------------------
(* Password login.                                                             *)

\* login, up to the user row it found.
LoginStart(r, u) ==
    /\ users[u] = "present"
    /\ Begin(r, [pc |-> "check", user |-> u])
    /\ UNCHANGED <<users, token, sessionVars, lockVars, revokeVars, oidcVars>>

\* record_success, and the deletion of a lock that has expired.
ClearRecord(u) ==
    /\ locks' = [locks EXCEPT ![u] = NoRecord]
    /\ guesses' = [guesses EXCEPT ![u] = 0]

\* is_locked: an expired lock deletes the whole record, its level included.
CheckLock(r) ==
    /\ At(r, "check")
    /\ LET u == req[r].user IN
       /\ IF locks[u].lock = "active"
          THEN Done(r)
          ELSE Goto(r, [pc |-> "verify", user |-> u])
       /\ IF locks[u].lock = "past"
          THEN ClearRecord(u)
          ELSE UNCHANGED lockVars
    /\ UNCHANGED <<users, token, sessionVars, revokeVars, oidcVars>>

\* The password matches: record_success deletes the record, a session follows.
LoginSucceeds(r) ==
    /\ At(r, "verify") /\ CanIssue
    /\ LET u == req[r].user IN
       /\ ClearRecord(u)
       /\ Goto(r, [pc |-> "issue", user |-> u])
    /\ UNCHANGED <<users, token, sessionVars, revokeVars, oidcVars>>

\* The password does not match: record_failure begins.
WrongPassword(r) ==
    /\ At(r, "verify")
    /\ guesses' = [guesses EXCEPT ![req[r].user] = @ + 1]
    /\ Goto(r, [pc |-> "fail", user |-> req[r].user])
    /\ UNCHANGED <<users, token, locks, sessionVars, revokeVars, oidcVars>>

FailedWindowInverted(rec) ==
    LET n == (IF rec.old THEN rec.n ELSE 0) + 1
    IN  [n |-> n, lock |-> IF n >= FailLimit THEN "active" ELSE "none", level |-> 1,
         old |-> FALSE]

\* The record that record_failure computes from the one it read.
Failed(rec) ==
    LET wasLocked == rec.lock # "none"
        n == (IF rec.old THEN 0 ELSE rec.n) + 1
    IN  IF n >= FailLimit \/ wasLocked
        THEN [n |-> IF wasLocked THEN 1 ELSE n,
              lock |-> "active",
              level |-> IF wasLocked /\ rec.level < 2 THEN rec.level + 1
                        ELSE IF wasLocked THEN 2 ELSE 1,
              old |-> FALSE]
        ELSE [n |-> n, lock |-> "none", level |-> rec.level, old |-> FALSE]

\* record_failure reads the row; a lock that is active is left as it is.
RecordFailureRead(r) ==
    /\ At(r, "fail")
    /\ LET u == req[r].user IN
       IF locks[u].lock = "active"
       THEN Done(r)
       ELSE Goto(r, [pc |-> "write", user |-> u, read |-> locks[u]])
    /\ UNCHANGED <<users, token, sessionVars, lockVars, revokeVars, oidcVars>>

\* The commit writes the columns that differ from what was read.  The row may
\* have changed since: an INSERT that finds a row and an UPDATE that finds none
\* fail, and the failure is not counted.
RecordFailureCommit(r) ==
    /\ At(r, "write")
    /\ LET u == req[r].user
           read == req[r].read
           new == Failed(read)
           cur == locks[u]
           written == [n |-> IF new.n = read.n THEN cur.n ELSE new.n,
                       lock |-> IF new.lock = "active" THEN "active" ELSE cur.lock,
                       level |-> IF new.lock = "active" THEN new.level ELSE cur.level,
                       old |-> FALSE]
           fails == (read = NoRecord) # (cur = NoRecord)
       IN /\ locks' = IF fails THEN locks ELSE [locks EXCEPT ![u] = written]
          /\ guesses' = IF ~fails /\ written.lock = "active"
                        THEN [guesses EXCEPT ![u] = 0] ELSE guesses
    /\ Done(r)
    /\ UNCHANGED <<users, token, sessionVars, revokeVars, oidcVars>>

\* Time: the cooldown of a lock ends; the last failure leaves the five-minute
\* window.
LockExpires(u) ==
    /\ locks[u].lock = "active"
    /\ locks' = [locks EXCEPT ![u].lock = "past"]
    /\ UNCHANGED <<users, token, guesses, req, calls, sessionVars, revokeVars, oidcVars>>

FailureWindowPasses(u) ==
    /\ locks[u].n > 0 /\ ~locks[u].old
    /\ locks' = [locks EXCEPT ![u].old = TRUE]
    /\ guesses' = [guesses EXCEPT ![u] = 0]
    /\ UNCHANGED <<users, token, req, calls, sessionVars, revokeVars, oidcVars>>

-----------------------------------------------------------------------------
(* Sessions.                                                                   *)

\* SessionService.lookup, its checks: a cached copy is judged by itself, a miss
\* by the row.
Accepts(s) ==
    IF s \in cache THEN s \notin over
    ELSE owner[s] # None /\ s \notin revoked \cup over

\* lookup up to its first await on a write: a copy that is over leaves the cache.
Lookup(s) ==
    /\ cache' = cache \ (over \cap {s})
    /\ UNCHANGED <<users, owner, revoked, over, raced, token, lockVars,
                   revokeVars, oidcVars>>

LookedUp(s, op) == IF Accepts(s) THEN [pc |-> "touch", sid |-> s, op |-> op] ELSE Idle

\* current_principal: the session of the request, or none.  A request from
\* another address is refused by a first lookup and let in by a second one.
CurrentPrincipal(r, s, op) == Begin(r, LookedUp(s, op)) /\ Lookup(s)

\* logout looks the session up again, without the request's address.
LogoutLookup(r) ==
    /\ At(r, "logout")
    /\ Goto(r, LookedUp(req[r].sid, "revoke"))
    /\ Lookup(req[r].sid)

\* The rest of lookup: last_used_at is committed, then the copy goes (back)
\* into the cache, whatever happened to the row meanwhile.
Touch(r) ==
    /\ At(r, "touch")
    /\ cache' = cache \cup {req[r].sid}
    /\ IF req[r].op = "use"
       THEN Done(r)
       ELSE Goto(r, [pc |-> req[r].op, sid |-> req[r].sid])
    /\ UNCHANGED <<users, owner, revoked, over, raced, token, lockVars,
                   revokeVars, oidcVars>>

Touching == {req[r].sid : r \in {q \in Req : At(q, "touch")}}

\* SessionService.revoke: the row first, then the cached copy.
RevokeCommit(r) ==
    /\ At(r, "revoke")
    /\ revoked' = revoked \cup {req[r].sid}
    /\ Goto(r, [pc |-> "evict", sid |-> req[r].sid])
    /\ UNCHANGED <<users, owner, over, cache, raced, token, lockVars,
                   revokeVars, oidcVars>>

RevokeEvictNothing(r) ==
    /\ At(r, "evict")
    /\ raced' = raced \cup (Touching \cap {req[r].sid})
    /\ Done(r)
    /\ UNCHANGED <<users, owner, revoked, over, cache, token, lockVars, revokeVars,
                   oidcVars>>

RevokeEvict(r) ==
    /\ At(r, "evict")
    /\ cache' = cache \ {req[r].sid}
    /\ raced' = raced \cup (Touching \cap {req[r].sid})
    /\ Done(r)
    /\ UNCHANGED <<users, owner, revoked, over, token, lockVars, revokeVars, oidcVars>>

OwnedBy(u) == {s \in Sid : owner[s] = u}

\* A binding of the user changed (bindings.py, roles.py): the event is queued.
BindingChanged(u) ==
    /\ Call
    /\ changed' = changed \cup {u}
    /\ UNCHANGED <<users, token, sweeping, req, sessionVars, lockVars, oidcVars>>

\* _revoke_user_sessions: every row of the user, committed; then its copies.
SweepCommit(u) ==
    /\ sweeping = None /\ u \in changed
    /\ changed' = changed \ {u}
    /\ sweeping' = u
    /\ revoked' = revoked \cup OwnedBy(u)
    /\ UNCHANGED <<users, owner, over, cache, raced, token, req, calls, lockVars, oidcVars>>

SweepEvict ==
    /\ sweeping # None
    /\ cache' = cache \ OwnedBy(sweeping)
    /\ raced' = raced \cup (Touching \cap OwnedBy(sweeping) \cap revoked)
    /\ sweeping' = None
    /\ UNCHANGED <<users, owner, revoked, over, changed, token, req, calls, lockVars,
                   oidcVars>>

\* Time: an entry leaves the cache; a session passes its absolute or idle
\* deadline (a lookup that is about to store last_used_at postpones the latter).
CacheExpires(s) ==
    /\ s \in cache
    /\ cache' = cache \ {s}
    /\ UNCHANGED <<users, owner, revoked, over, raced, token, req, calls, lockVars,
                   revokeVars, oidcVars>>

SessionExpires(s) ==
    /\ owner[s] # None /\ s \notin over \cup Touching
    /\ over' = over \cup {s}
    /\ UNCHANGED <<users, owner, revoked, cache, raced, token, req, calls, lockVars,
                   revokeVars, oidcVars>>

-----------------------------------------------------------------------------
(* Accounts: the users API, the bootstrap token and the admin token.           *)

\* create_user: the unique e-mail refuses a second account.
CreateUser(u) ==
    /\ Call
    /\ users[u] = "new"
    /\ users' = [users EXCEPT ![u] = "present"]
    /\ UNCHANGED <<token, req, sessionVars, lockVars, revokeVars, oidcVars>>

\* delete_user removes the row alone: sessions, links and bindings stay.  (An
\* account with a subject's address is kept: a login would make it anew.)
DeleteUser(u) ==
    /\ Call
    /\ users[u] = "present" /\ \A p \in Subject : EmailOf[p] # u
    /\ users' = [users EXCEPT ![u] = "deleted"]
    /\ UNCHANGED <<token, req, sessionVars, lockVars, revokeVars, oidcVars>>

\* bootstrap_owner: one transaction consumes the token and creates the owner;
\* an e-mail that is taken rolls both back.
BootstrapOwner(r, u) ==
    /\ token = "open" /\ users[u] = "new" /\ CanIssue
    /\ token' = "consumed"
    /\ users' = [users EXCEPT ![u] = "present"]
    /\ Begin(r, [pc |-> "issue", user |-> u])
    /\ UNCHANGED <<sessionVars, lockVars, revokeVars, oidcVars>>

\* admin_token_login finds or creates admin@local.
AdminTokenLogin(r) ==
    /\ users[Admin] # "deleted" /\ CanIssue
    /\ users' = [users EXCEPT ![Admin] = "present"]
    /\ Begin(r, [pc |-> "issue", user |-> Admin])
    /\ UNCHANGED <<token, sessionVars, lockVars, revokeVars, oidcVars>>

-----------------------------------------------------------------------------
(* OIDC.                                                                       *)

\* auth_start: a state for a login.
AuthStart(t) ==
    /\ Call
    /\ states[t].is = "unused"
    /\ states' = [states EXCEPT ![t] = [is |-> "open", mode |-> "login", user |-> None]]
    /\ UNCHANGED <<users, token, req, links, idpKey, jwks, signedIn, sessionVars,
                   lockVars, revokeVars>>

\* auth_link: a state for linking, bound to the signed-in user.
AuthLink(t, u) ==
    /\ Call
    /\ states[t].is = "unused"
    /\ \E s \in OwnedBy(u) : s \in cache \/ s \notin revoked \cup over
    /\ states' = [states EXCEPT ![t] = [is |-> "open", mode |-> "link", user |-> u]]
    /\ UNCHANGED <<users, token, req, links, idpKey, jwks, signedIn, sessionVars,
                   lockVars, revokeVars>>

\* OidcStateStore.consume: popped on access, whether or not it had expired.
ConsumeState(r, t) ==
    /\ states[t].is \in {"open", "expired"}
    /\ states' = [states EXCEPT ![t] = [is |-> "popped"]]
    /\ Begin(r, IF states[t].is = "open"
                THEN [pc |-> "exchange", mode |-> states[t].mode, user |-> states[t].user]
                ELSE Idle)
    /\ UNCHANGED <<users, token, links, idpKey, jwks, signedIn, sessionVars, lockVars,
                   revokeVars>>

StateExpires(t) ==
    /\ states[t].is = "open"
    /\ states' = [states EXCEPT ![t].is = "expired"]
    /\ UNCHANGED <<users, token, req, calls, links, idpKey, jwks, signedIn,
                   sessionVars, lockVars, revokeVars>>

\* auth_callback: endpoints and client secret resolved, the code exchanged for
\* an ID token of some subject, signed with the provider's current key.
Exchange(r) ==
    /\ At(r, "exchange")
    /\ \E p \in Subject :
         Goto(r, [pc |-> "idtoken", mode |-> req[r].mode, user |-> req[r].user,
                  sub |-> p, key |-> idpKey])
    /\ UNCHANGED <<users, token, sessionVars, lockVars, revokeVars, oidcVars>>

\* exchange: the token endpoint refuses; the state is spent all the same.
ExchangeFails(r) ==
    /\ At(r, "exchange") /\ Done(r)
    /\ UNCHANGED <<users, token, sessionVars, lockVars, revokeVars, oidcVars>>

\* The key set used for a token: the cached one if it has the token's key,
\* otherwise (or with an empty cache) the provider's, which is cached.
JwksFor(key) == IF jwks = key THEN jwks ELSE idpKey

\* verify_id_token: signature by a key of the set, then the claims.
VerifyIdToken(r) ==
    /\ At(r, "idtoken")
    /\ jwks' = JwksFor(req[r].key) /\ jwks' = req[r].key
    /\ req[r].mode = "link" \/ CanIssue
    /\ Goto(r, [pc |-> IF req[r].mode = "link" THEN "link" ELSE "jit",
                user |-> req[r].user, sub |-> req[r].sub])
    /\ UNCHANGED <<users, token, states, links, idpKey, signedIn, sessionVars, lockVars,
                   revokeVars>>

\* No key of the set made the signature, or a claim is refused.
VerifyFails(r) ==
    /\ At(r, "idtoken")
    /\ jwks' = JwksFor(req[r].key)
    /\ Done(r)
    /\ UNCHANGED <<users, token, states, links, idpKey, signedIn, sessionVars, lockVars,
                   revokeVars>>

\* Time: the provider rotates its key; the JWKS cache is an hour old.
KeyRotates ==
    /\ idpKey = 1 /\ idpKey' = 2
    /\ UNCHANGED <<users, token, states, links, jwks, signedIn, req, calls, sessionVars,
                   lockVars, revokeVars>>

JwksExpires ==
    /\ jwks # 0 /\ jwks' = 0
    /\ UNCHANGED <<users, token, states, links, idpKey, signedIn, req, calls,
                   sessionVars, lockVars, revokeVars>>

\* A login of subject p gets a session for u.
SignIn(r, p, u) ==
    /\ signedIn' = [signedIn EXCEPT ![p] = @ \cup {u}]
    /\ Goto(r, [pc |-> "issue", user |-> u])

\* jit_provision, its reads: the link decides; without one the account with the
\* claimed e-mail, if the provider vouches for the address.
JitRead(r) ==
    /\ At(r, "jit")
    /\ LET p == req[r].sub
           e == EmailOf[p]
       IN \/ /\ links[p] # None /\ users[links[p]] = "present"
             /\ SignIn(r, p, links[p])
          \/ /\ links[p] # None /\ users[links[p]] # "present"
             /\ Done(r) /\ UNCHANGED signedIn
          \/ /\ links[p] = None
             /\ Goto(r, [pc |-> "jitc", sub |-> p, found |-> users[e] = "present"])
             /\ UNCHANGED signedIn
          \/ /\ links[p] = None /\ users[e] = "present"  \* email_not_verified
             /\ Done(r) /\ UNCHANGED signedIn
    /\ UNCHANGED <<users, token, states, links, idpKey, jwks, sessionVars, lockVars,
                   revokeVars>>

JitCommitOwnUser(r) ==
    /\ At(r, "jitc")
    /\ LET p == req[r].sub
           e == EmailOf[p]
       IN \/ /\ ~req[r].found /\ users[e] = "present"
             /\ Done(r) /\ UNCHANGED <<users, links, signedIn>>
          \/ /\ req[r].found \/ users[e] = "new"
             /\ links' = [links EXCEPT ![p] = IF @ = None THEN e ELSE @]
             /\ users' = [users EXCEPT ![e] = "present"]
             /\ SignIn(r, p, e)
    /\ UNCHANGED <<token, states, idpKey, jwks, sessionVars, lockVars, revokeVars>>

\* jit_provision, its commit.  A user made meanwhile fails the flush; a link
\* made meanwhile rolls back, and the login is for the user of that link.
JitCommit(r) ==
    /\ At(r, "jitc")
    /\ LET p == req[r].sub
           e == EmailOf[p]
       IN \/ /\ ~req[r].found /\ users[e] = "present"
             /\ Done(r) /\ UNCHANGED <<users, links, signedIn>>
          \/ /\ req[r].found \/ users[e] = "new"
             /\ links[p] = None
             /\ links' = [links EXCEPT ![p] = e]
             /\ users' = [users EXCEPT ![e] = "present"]
             /\ SignIn(r, p, e)
          \/ /\ req[r].found \/ users[e] = "new"
             /\ links[p] # None
             /\ IF users[links[p]] = "present"
                THEN SignIn(r, p, links[p])
                ELSE Done(r) /\ UNCHANGED signedIn
             /\ UNCHANGED <<users, links>>
    /\ UNCHANGED <<token, states, idpKey, jwks, sessionVars, lockVars, revokeVars>>

\* link_account: refused if the user is gone or the subject is linked.
LinkAccount(r) ==
    /\ At(r, "link")
    /\ links' = IF users[req[r].user] = "present" /\ links[req[r].sub] = None
                THEN [links EXCEPT ![req[r].sub] = req[r].user] ELSE links
    /\ Done(r)
    /\ UNCHANGED <<users, token, states, idpKey, jwks, signedIn, sessionVars, lockVars,
                   revokeVars>>

-----------------------------------------------------------------------------
PasswordStep ==
    \/ \E r \in Req, u \in User : LoginStart(r, u)
    \/ \E r \in Req :
         \/ CheckLock(r) \/ LoginSucceeds(r) \/ WrongPassword(r)
         \/ RecordFailureRead(r) \/ RecordFailureCommit(r)
    \/ \E u \in User : LockExpires(u) \/ FailureWindowPasses(u)

OidcStep ==
    \/ \E t \in State :
         AuthStart(t) \/ StateExpires(t) \/ \E u \in User : AuthLink(t, u)
    \/ \E r \in Req, t \in State : ConsumeState(r, t)
    \/ \E r \in Req :
         \/ Exchange(r) \/ ExchangeFails(r) \/ VerifyIdToken(r) \/ VerifyFails(r)
         \/ JitRead(r) \/ JitCommit(r) \/ LinkAccount(r)
    \/ KeyRotates \/ JwksExpires

SessionStep ==
    \/ \E r \in Req, u \in User : BootstrapOwner(r, u)
    \/ \E r \in Req, s \in Sid : \E op \in {"use", "logout"} : CurrentPrincipal(r, s, op)
    \/ \E r \in Req :
         \/ AdminTokenLogin(r) \/ Issue(r)
         \/ Touch(r) \/ LogoutLookup(r) \/ RevokeCommit(r) \/ RevokeEvict(r)
    \/ \E u \in User :
         BindingChanged(u) \/ SweepCommit(u) \/ CreateUser(u) \/ DeleteUser(u)
    \/ \E s \in Sid : CacheExpires(s) \/ SessionExpires(s)
    \/ SweepEvict

-----------------------------------------------------------------------------
(* Properties.                                                                 *)

\* A revoked session has a usable copy in the cache only while the revoke is on
\* its way to evict it, or because a lookup of the same session was between
\* reading and caching it when the eviction ran (SessionService.lookup puts its
\* copy back after an await).
RevokedCachedOnlyByOverlap ==
    \A s \in revoked \cap cache :
        \/ s \in raced
        \/ sweeping # None /\ owner[s] = sweeping
        \/ \E r \in Req : At(r, "evict") /\ req[r].sid = s

\* However logins overlap, an account is locked after a bounded number of wrong
\* passwords.  A failure that commits late puts the count back to one more than
\* it read, so the others may use up the counts above each such read again: with
\* one login at a time a limit of L allows L wrong passwords, but with two at a
\* time (L + 1) * L / 2 + 1 of them, 16 for the code's L = 5
\* (LockoutTrackerPersistent.record_failure).
MostGuesses ==
    LET k == Cardinality(Req)
    IN  choose(k + (FailLimit - 1), k) + k - 1

GuessesBounded == \A u \in User : guesses[u] <= MostGuesses

\* All logins of one provider subject are for one account, the linked one, also
\* when first logins overlap each other or an account link (jit_provision's
\* IntegrityError branch).
SubjectIsOneAccount ==
    \A p \in Subject : signedIn[p] \subseteq {links[p]}

=============================================================================
