---------------------------- MODULE Accounts_proofs ----------------------------
(***************************************************************************)
(* Accounts, for every set of users, sessions, subjects, codes and requests   *)
(* and every budget: sessions that were revoked, the account of a provider     *)
(* subject, spent proofs and the generation of the recovery codes; and, for    *)
(* every failure limit, how many wrong passwords a lockout lets through.        *)
(***************************************************************************)
EXTENDS Accounts, FiniteSetTheorems, TLAPS

\* A step that leaves the requests alone that are at a pc of Away, and takes none
\* there.
Moved(Away) ==
    /\ DOMAIN req' = Req
    /\ \A q \in Req :
          req'[q] = req[q] \/ (req[q].pc \notin Away /\ req'[q].pc \notin Away)

\* The pcs that the invariants below speak of.
SessionPcs == {"touch", "logout", "revoke", "evict"}
FactorPcs  == {"confirm", "totp", "recover", "generate", "assert"}
PasswordPcs == {"check", "verify", "fail", "write"}

--------------------------------------------------------------------------------
\* The part of a type invariant that the proofs need: a lookup goes on to use the
\* session, to look it up for a logout, or to revoke it.
ReqOK ==
    /\ DOMAIN req = Req
    /\ \A r \in Req :
          /\ req[r].pc = "touch" => req[r].op \in {"use", "logout", "revoke"}
          /\ req[r].pc \in {"touch", "logout", "revoke"} => req[r].sid \in Sid

(***************************************************************************)
(* What the steps do to the requests.                                        *)
(***************************************************************************)
LEMMA PutRequest ==
  ASSUME DOMAIN req = Req, NEW r \in Req, NEW rec, req' = [req EXCEPT ![r] = rec]
  PROVE  DOMAIN req' = Req /\ req'[r] = rec /\ \A q \in Req : q # r => req'[q] = req[q]
  OBVIOUS

LEMMA PasswordMoves ==
  ASSUME DOMAIN req = Req, PasswordStep
  PROVE  Moved(SessionPcs \cup FactorPcs) /\ UNCHANGED <<sessionVars, revokeVars, oidcVars>>
<1> USE DEF Moved, SessionPcs, FactorPcs, Begin, Goto, Done, At, Idle
<1>1. ASSUME NEW r \in Req, NEW u \in User, LoginStart(r, u) PROVE Moved(SessionPcs \cup FactorPcs)
  BY <1>1 DEF LoginStart
<1>2. ASSUME NEW r \in Req, CheckLock(r) PROVE Moved(SessionPcs \cup FactorPcs)
  BY <1>2 DEF CheckLock
<1>3. ASSUME NEW r \in Req, LoginSucceeds(r) PROVE Moved(SessionPcs \cup FactorPcs)
  BY <1>3 DEF LoginSucceeds
<1>4. ASSUME NEW r \in Req, WrongPassword(r) PROVE Moved(SessionPcs \cup FactorPcs)
  BY <1>4 DEF WrongPassword
<1>5. ASSUME NEW r \in Req, RecordFailureRead(r) PROVE Moved(SessionPcs \cup FactorPcs)
  BY <1>5 DEF RecordFailureRead
<1>6. ASSUME NEW r \in Req, RecordFailureCommit(r) PROVE Moved(SessionPcs \cup FactorPcs)
  BY <1>6 DEF RecordFailureCommit
<1>7. ASSUME NEW u \in User, LockExpires(u) \/ FailureWindowPasses(u)
      PROVE  Moved(SessionPcs \cup FactorPcs)
  BY <1>7 DEF LockExpires, FailureWindowPasses
<1>8. Moved(SessionPcs \cup FactorPcs)
  BY <1>1, <1>2, <1>3, <1>4, <1>5, <1>6, <1>7 DEF PasswordStep
<1>9. UNCHANGED <<sessionVars, revokeVars, oidcVars>>
  BY DEF PasswordStep, LoginStart, CheckLock, LoginSucceeds, WrongPassword, RecordFailureRead,
     RecordFailureCommit, LockExpires, FailureWindowPasses
<1> QED BY <1>8, <1>9

LEMMA OidcMoves ==
  ASSUME DOMAIN req = Req, OidcStep
  PROVE  /\ Moved(SessionPcs \cup FactorPcs \cup PasswordPcs)
         /\ UNCHANGED <<sessionVars, revokeVars, lockVars>>
<1> USE DEF Moved, SessionPcs, FactorPcs, PasswordPcs, Begin, Goto, Done, At, Idle, Call, SignIn
<1>1. ASSUME NEW t \in State, AuthStart(t) PROVE Moved(SessionPcs \cup FactorPcs \cup PasswordPcs)
  BY <1>1 DEF AuthStart
<1>2. ASSUME NEW t \in State, StateExpires(t)
      PROVE  Moved(SessionPcs \cup FactorPcs \cup PasswordPcs)
  BY <1>2 DEF StateExpires
<1>3. ASSUME NEW t \in State, NEW u \in User, AuthLink(t, u)
      PROVE  Moved(SessionPcs \cup FactorPcs \cup PasswordPcs)
  BY <1>3 DEF AuthLink
<1>4. ASSUME NEW r \in Req, NEW t \in State, ConsumeState(r, t)
      PROVE  Moved(SessionPcs \cup FactorPcs \cup PasswordPcs)
  BY <1>4 DEF ConsumeState
<1>5. ASSUME NEW r \in Req, Exchange(r) PROVE Moved(SessionPcs \cup FactorPcs \cup PasswordPcs)
  BY <1>5 DEF Exchange
<1>6. ASSUME NEW r \in Req, ExchangeFails(r) PROVE Moved(SessionPcs \cup FactorPcs \cup PasswordPcs)
  BY <1>6 DEF ExchangeFails
<1>7. ASSUME NEW r \in Req, VerifyIdToken(r) PROVE Moved(SessionPcs \cup FactorPcs \cup PasswordPcs)
  BY <1>7 DEF VerifyIdToken
<1>8. ASSUME NEW r \in Req, VerifyFails(r) PROVE Moved(SessionPcs \cup FactorPcs \cup PasswordPcs)
  BY <1>8 DEF VerifyFails
<1>9. ASSUME NEW r \in Req, JitRead(r) PROVE Moved(SessionPcs \cup FactorPcs \cup PasswordPcs)
  BY <1>9 DEF JitRead
<1>10. ASSUME NEW r \in Req, JitCommit(r) PROVE Moved(SessionPcs \cup FactorPcs \cup PasswordPcs)
  BY <1>10 DEF JitCommit
<1>11. ASSUME NEW r \in Req, LinkAccount(r) PROVE Moved(SessionPcs \cup FactorPcs \cup PasswordPcs)
  BY <1>11 DEF LinkAccount
<1>12. ASSUME KeyRotates PROVE Moved(SessionPcs \cup FactorPcs \cup PasswordPcs)
  BY <1>12 DEF KeyRotates
<1>13. ASSUME JwksExpires PROVE Moved(SessionPcs \cup FactorPcs \cup PasswordPcs)
  BY <1>13 DEF JwksExpires
<1>14. Moved(SessionPcs \cup FactorPcs \cup PasswordPcs)
  BY <1>1, <1>2, <1>3, <1>4, <1>5, <1>6, <1>7, <1>8, <1>9, <1>10, <1>11,
     <1>12, <1>13
  DEF OidcStep
<1>15. UNCHANGED <<sessionVars, revokeVars, lockVars>>
  BY DEF OidcStep, AuthStart, StateExpires, AuthLink, ConsumeState, Exchange, ExchangeFails,
     VerifyIdToken, VerifyFails, JitRead, JitCommit, LinkAccount, KeyRotates, JwksExpires
<1> QED BY <1>14, <1>15

LEMMA SessionMoves ==
  ASSUME ReqOK, SessionStep
  PROVE  Moved(FactorPcs \cup PasswordPcs) /\ ReqOK' /\ UNCHANGED <<oidcVars, lockVars>>
<1> USE DEF ReqOK, Moved, FactorPcs, PasswordPcs, Begin, Goto, Done, At, Idle, Call, LookedUp
<1>1. ASSUME NEW r \in Req, NEW u \in User, BootstrapOwner(r, u)
      PROVE  Moved(FactorPcs \cup PasswordPcs) /\ ReqOK'
  BY <1>1 DEF BootstrapOwner
<1>2. ASSUME NEW r \in Req, NEW s \in Sid, NEW op \in {"use", "logout"}, CurrentPrincipal(r, s, op)
      PROVE  Moved(FactorPcs \cup PasswordPcs) /\ ReqOK'
  BY <1>2 DEF CurrentPrincipal
<1>3. ASSUME NEW r \in Req, AdminTokenLogin(r) PROVE Moved(FactorPcs \cup PasswordPcs) /\ ReqOK'
  BY <1>3 DEF AdminTokenLogin
<1>4. ASSUME NEW r \in Req, Issue(r) PROVE Moved(FactorPcs \cup PasswordPcs) /\ ReqOK'
  BY <1>4 DEF Issue
<1>5. ASSUME NEW r \in Req, Touch(r) PROVE Moved(FactorPcs \cup PasswordPcs) /\ ReqOK'
  BY <1>5 DEF Touch
<1>6. ASSUME NEW r \in Req, LogoutLookup(r) PROVE Moved(FactorPcs \cup PasswordPcs) /\ ReqOK'
  BY <1>6 DEF LogoutLookup
<1>7. ASSUME NEW r \in Req, RevokeCommit(r) PROVE Moved(FactorPcs \cup PasswordPcs) /\ ReqOK'
  BY <1>7 DEF RevokeCommit
<1>8. ASSUME NEW r \in Req, RevokeEvict(r) PROVE Moved(FactorPcs \cup PasswordPcs) /\ ReqOK'
  BY <1>8 DEF RevokeEvict
<1>9. ASSUME UNCHANGED req PROVE Moved(FactorPcs \cup PasswordPcs) /\ ReqOK'
  BY <1>9
<1>10. Moved(FactorPcs \cup PasswordPcs) /\ ReqOK'
  BY <1>1, <1>2, <1>3, <1>4, <1>5, <1>6, <1>7, <1>8, <1>9
  DEF SessionStep, BindingChanged, SweepCommit, CreateUser, DeleteUser, CacheExpires,
      SessionExpires, SweepEvict
<1>11. UNCHANGED <<oidcVars, lockVars>>
  BY DEF SessionStep, BootstrapOwner, CurrentPrincipal, Lookup, AdminTokenLogin, Issue, Touch,
     LogoutLookup, RevokeCommit, RevokeEvict, BindingChanged, SweepCommit, CreateUser, DeleteUser,
     CacheExpires, SessionExpires, SweepEvict
<1> QED BY <1>10, <1>11

LEMMA FactorMoves ==
  ASSUME DOMAIN req = Req, FactorStep
  PROVE  Moved(SessionPcs \cup PasswordPcs)
<1> USE DEF Moved, SessionPcs, PasswordPcs, Begin, Goto, Done, At, Idle, Call, Holding
<1>1. ASSUME NEW r \in Req, TotpVerify(r) PROVE Moved(SessionPcs \cup PasswordPcs)
  BY <1>1 DEF TotpVerify
<1>2. ASSUME NEW r \in Req, TotpCommit(r) PROVE Moved(SessionPcs \cup PasswordPcs)
  BY <1>2 DEF TotpCommit
<1>3. ASSUME NEW r \in Req, Consume(r) PROVE Moved(SessionPcs \cup PasswordPcs)
  BY <1>3 DEF Consume
<1>4. ASSUME NEW r \in Req, ConsumeCommit(r) PROVE Moved(SessionPcs \cup PasswordPcs)
  BY <1>4 DEF ConsumeCommit
<1>5. ASSUME NEW r \in Req, AssertionRead(r) PROVE Moved(SessionPcs \cup PasswordPcs)
  BY <1>5 DEF AssertionRead
<1>6. ASSUME NEW r \in Req, AssertionCommit(r) PROVE Moved(SessionPcs \cup PasswordPcs)
  BY <1>6 DEF AssertionCommit
<1>7. ASSUME NEW r \in Req, PluginVerify(r) PROVE Moved(SessionPcs \cup PasswordPcs)
  BY <1>7 DEF PluginVerify
<1>8. ASSUME NEW r \in Req, Stamp(r) PROVE Moved(SessionPcs \cup PasswordPcs)
  BY <1>8 DEF Stamp
<1>9. ASSUME NEW r \in Req, StampFails(r) PROVE Moved(SessionPcs \cup PasswordPcs)
  BY <1>9 DEF StampFails
<1>10. ASSUME NEW r \in Req, TotpEnrollFinish(r) PROVE Moved(SessionPcs \cup PasswordPcs)
  BY <1>10 DEF TotpEnrollFinish
<1>11. ASSUME NEW r \in Req, EnrollRead(r) PROVE Moved(SessionPcs \cup PasswordPcs)
  BY <1>11 DEF EnrollRead
<1>12. ASSUME NEW r \in Req, EnrollCommit(r) PROVE Moved(SessionPcs \cup PasswordPcs)
  BY <1>12 DEF EnrollCommit
<1>13. ASSUME NEW r \in Req, RegenerateDelete(r) PROVE Moved(SessionPcs \cup PasswordPcs)
  BY <1>13 DEF RegenerateDelete
<1>14. ASSUME NEW r \in Req, Generate(r) PROVE Moved(SessionPcs \cup PasswordPcs)
  BY <1>14 DEF Generate
<1>15. ASSUME NEW r \in Req, RegistrationFinish(r) PROVE Moved(SessionPcs \cup PasswordPcs)
  BY <1>15 DEF RegistrationFinish
<1>16. ASSUME NEW r \in Req, RegistrationCommit(r) PROVE Moved(SessionPcs \cup PasswordPcs)
  BY <1>16 DEF RegistrationCommit
<1>17. ASSUME UNCHANGED req PROVE Moved(SessionPcs \cup PasswordPcs)
  BY <1>17
<1> QED
  BY <1>1, <1>2, <1>3, <1>4, <1>5, <1>6, <1>7, <1>8, <1>9, <1>10, <1>11,
     <1>12, <1>13, <1>14, <1>15, <1>16, <1>17
  DEF FactorStep, Challenge, Manage, TotpEnrollBegin, RegistrationBegin, DeleteCredential,
      StepPasses, ProofAges, ChallengeExpires

--------------------------------------------------------------------------------
(***************************************************************************)
(* The inductive invariants.                                                 *)
(***************************************************************************)
\* Why a revoked session may (still or again) have a copy in the cache.
Excused(s) ==
    \/ s \in raced
    \/ sweeping # None /\ owner[s] = sweeping
    \/ \E r \in Req : At(r, "evict") /\ req[r].sid = s

\* The same for a copy that a lookup is about to put into the cache.
RevokedExcused == \A s \in revoked \cap (cache \cup Touching) : Excused(s)

SessionInv == ReqOK /\ DOMAIN owner = Sid /\ revoked \subseteq Sid /\ RevokedExcused

\* Before a subject is linked, no login of it got a session.
SubjectInv ==
    /\ DOMAIN signedIn = Subject /\ DOMAIN links = Subject
    /\ \A p \in Subject : /\ signedIn[p] \subseteq {links[p]}
                          /\ links[p] = None => signedIn[p] = {}

\* The numbers that make proofs different from each other are behind their
\* counters, those of the requests in progress too.
ProofOK(p) ==
    /\ p[1] = "totp" => p[2] \in Nat /\ p[3] \in Nat /\ p[2] <= totp.gen
    /\ p[1] = "code" => p[2] \in Nat /\ p[2] <= sets
    /\ p[1] = "webauthn" => p[2] \in Nat /\ p[2] <= challenges

HeldOK(r) ==
    /\ req[r].pc \in {"confirm", "totp"} => req[r].proof[1] = "totp" /\ ProofOK(req[r].proof)
    /\ req[r].pc = "recover" => req[r].proof[1] = "code" /\ ProofOK(req[r].proof)
    /\ req[r].pc = "assert" => req[r].proof[1] = "webauthn" /\ ProofOK(req[r].proof)

FactorTypes ==
    /\ totp \in [gen : Nat, is : {"none", "pending", "confirmed"}, last : Nat]
    /\ {step, sets, challenge, challenges} \subseteq Nat
    /\ rewound \in BOOLEAN /\ mixed \in BOOLEAN
    /\ challenge <= challenges
    /\ \A c \in codes : c[1] = "code" /\ ProofOK(c)

\* An accepted proof is on record where the next challenge looks for it.
SpentOnRecord ==
    \A p \in spent :
        /\ ProofOK(p)
        /\ p[1] = "totp" /\ p[2] = totp.gen /\ ~rewound => p[3] <= totp.last
        /\ p[1] = "code" /\ p \in codes => p \in consumed
        /\ p[1] = "webauthn" => p[2] # challenge \/ challenge = 0

\* Without overlapping regenerations, the table is empty while one is between its
\* two transactions, and otherwise holds one generation.
OneGeneration ==
    mixed \/ /\ \A c \in codes, d \in codes : c[2] = d[2]
             /\ \A r \in Req : At(r, "generate") =>
                   codes = {} /\ \A q \in Req : At(q, "generate") => q = r

FactorInv ==
    /\ DOMAIN req = Req
    /\ FactorTypes /\ SpentOnRecord /\ OneGeneration /\ SpentProofRefused
    /\ \A r \in Req : HeldOK(r)

--------------------------------------------------------------------------------
(***************************************************************************)
(* Revoked sessions.                                                         *)
(***************************************************************************)
LEMMA TouchingMeans ==
  ASSUME NEW s
  PROVE  s \in Touching <=> \E r \in Req : At(r, "touch") /\ req[r].sid = s
  BY DEF Touching

\* A step that neither revokes nor evicts, starts no lookup of a session it should
\* not, and puts nothing into the cache but what a lookup was about to put there.
LEMMA QuietKeepsExcused ==
  ASSUME SessionInv, DOMAIN req' = Req, UNCHANGED <<revoked, raced, sweeping, owner>>,
         cache' \subseteq cache \cup Touching,
         \A q \in Req : At(q, "evict") => req'[q] = req[q],
         \A q \in Req : At(q, "touch")' =>
            \/ At(q, "touch") /\ req'[q].sid = req[q].sid
            \/ req'[q].sid \in cache \/ req'[q].sid \notin revoked
  PROVE  RevokedExcused'
<1>1. ASSUME NEW s \in revoked, s \in cache' \/ s \in Touching'
      PROVE  s \in cache \cup Touching
  <2>1. CASE s \in cache'
    BY <2>1
  <2>2. CASE s \in Touching'
    <3>1. PICK q \in Req : At(q, "touch")' /\ req'[q].sid = s
      BY <2>2 DEF Touching, At
    <3> QED BY <3>1, TouchingMeans
  <2> QED BY <1>1, <2>1, <2>2
<1>2. ASSUME NEW s, Excused(s) PROVE Excused(s)'
  BY <1>2 DEF Excused, At
<1> QED BY <1>1, <1>2 DEF SessionInv, RevokedExcused

LEMMA ElsewhereKeepsSessions ==
  ASSUME SessionInv, Moved(SessionPcs), UNCHANGED <<sessionVars, revokeVars>>
  PROVE  SessionInv'
<1>1. RevokedExcused'
  BY QuietKeepsExcused DEF Moved, SessionPcs, sessionVars, revokeVars, At
<1> QED BY <1>1 DEF SessionInv, ReqOK, Moved, SessionPcs, sessionVars

LEMMA SessionStepExcused ==
  ASSUME SessionInv, SessionStep
  PROVE  RevokedExcused'
<1> USE DEF At, Begin, Goto, Done, Idle, Call, sessionVars, revokeVars
<1>1. DOMAIN req = Req /\ DOMAIN req' = Req
  BY SessionMoves DEF SessionInv, ReqOK
<1>2. ASSUME NEW r \in Req, NEW u \in User, BootstrapOwner(r, u) PROVE RevokedExcused'
  BY <1>1, <1>2, QuietKeepsExcused DEF BootstrapOwner
<1>3. ASSUME NEW r \in Req, NEW s \in Sid, NEW op, CurrentPrincipal(r, s, op)
      PROVE  RevokedExcused'
  <2>1. Accepts(s) => s \in cache \/ s \notin revoked
    BY DEF Accepts
  <2> QED BY <1>1, <1>3, <2>1, QuietKeepsExcused DEF CurrentPrincipal, Lookup, LookedUp
<1>4. ASSUME NEW r \in Req, AdminTokenLogin(r) PROVE RevokedExcused'
  BY <1>1, <1>4, QuietKeepsExcused DEF AdminTokenLogin
<1>5. ASSUME NEW r \in Req, Issue(r) PROVE RevokedExcused'
  <2>1. PICK s \in Sid : owner[s] = None /\ owner' = [owner EXCEPT ![s] = req[r].user]
    BY <1>5 DEF Issue
  <2>2. \A t : t \in revoked' \cap (cache' \cup Touching') => t \in revoked \cap (cache \cup Touching)
    BY <1>1, <1>5 DEF Issue, Touching
  <2>3. ASSUME NEW t, Excused(t) PROVE Excused(t)'
    <3>1. t # s /\ t \in DOMAIN owner => owner'[t] = owner[t]
      BY <2>1
    <3> QED BY <1>1, <1>5, <2>1, <2>3, <3>1 DEF Issue, Excused, SessionInv
  <2> QED BY <2>2, <2>3 DEF SessionInv, RevokedExcused
<1>6. ASSUME NEW r \in Req, Touch(r) PROVE RevokedExcused'
  <2>1. req[r].sid \in Touching /\ req[r].op \in {"use", "logout", "revoke"}
    BY <1>6 DEF Touch, Touching, SessionInv, ReqOK
  <2> QED BY <1>1, <1>6, <2>1, QuietKeepsExcused DEF Touch
<1>7. ASSUME NEW r \in Req, LogoutLookup(r) PROVE RevokedExcused'
  <2>1. ASSUME NEW s, Accepts(s) PROVE s \in cache \/ s \notin revoked
    BY <2>1 DEF Accepts
  <2> QED BY <1>1, <1>7, <2>1, QuietKeepsExcused DEF LogoutLookup, Lookup, LookedUp
<1>8. ASSUME NEW r \in Req, RevokeCommit(r) PROVE RevokedExcused'
  <2>1. Touching' \subseteq Touching
    BY <1>1, <1>8 DEF RevokeCommit, Touching
  <2>2. PICK s : s = req[r].sid
    OBVIOUS
  <2>3. Excused(s)'
    BY <1>1, <1>8, <2>2 DEF RevokeCommit, Excused
  <2>4. ASSUME NEW t, Excused(t) PROVE Excused(t)'
    BY <1>1, <1>8, <2>4 DEF RevokeCommit, Excused
  <2> QED BY <1>8, <2>1, <2>2, <2>3, <2>4 DEF RevokeCommit, SessionInv, RevokedExcused
<1>9. ASSUME NEW r \in Req, RevokeEvict(r) PROVE RevokedExcused'
  <2>1. Touching' \subseteq Touching
    BY <1>1, <1>9 DEF RevokeEvict, Touching
  <2>2. ASSUME NEW t, Excused(t), t # req[r].sid \/ t \in Touching PROVE Excused(t)'
    BY <1>1, <1>9, <2>2 DEF RevokeEvict, Excused
  <2> QED BY <1>9, <2>1, <2>2 DEF RevokeEvict, SessionInv, RevokedExcused
<1>10. ASSUME NEW u \in User, SweepCommit(u) PROVE RevokedExcused'
  <2>1. Touching' = Touching
    BY <1>10 DEF SweepCommit, Touching
  <2>2. ASSUME NEW t, t \in OwnedBy(u) \/ Excused(t) PROVE Excused(t)'
    BY <1>10, <2>2, SessionsAssumption DEF SweepCommit, Excused, OwnedBy
  <2> QED BY <1>10, <2>1, <2>2 DEF SweepCommit, SessionInv, RevokedExcused
<1>11. ASSUME SweepEvict PROVE RevokedExcused'
  <2>1. Touching' = Touching
    BY <1>11 DEF SweepEvict, Touching
  <2>2. ASSUME NEW t \in revoked, Excused(t), t \notin OwnedBy(sweeping) \/ t \in Touching
        PROVE  Excused(t)'
    BY <1>11, <2>2 DEF SweepEvict, Excused, OwnedBy, SessionInv
  <2> QED BY <1>11, <2>1, <2>2 DEF SweepEvict, SessionInv, RevokedExcused
<1>12. ASSUME NEW u \in User, BindingChanged(u) \/ CreateUser(u) \/ DeleteUser(u)
       PROVE  RevokedExcused'
  BY <1>1, <1>12, QuietKeepsExcused DEF BindingChanged, CreateUser, DeleteUser
<1>13. ASSUME NEW s \in Sid, CacheExpires(s) \/ SessionExpires(s) PROVE RevokedExcused'
  BY <1>1, <1>13, QuietKeepsExcused DEF CacheExpires, SessionExpires
<1> QED
  BY <1>2, <1>3, <1>4, <1>5, <1>6, <1>7, <1>8, <1>9, <1>10, <1>11, <1>12, <1>13 DEF SessionStep

LEMMA SessionInvStep == SessionInv /\ [Next]_vars => SessionInv'
<1> SUFFICES ASSUME SessionInv, [Next]_vars PROVE SessionInv'
  OBVIOUS
<1> USE DEF SessionInv, ReqOK
<1>1. CASE SessionStep
  <2>1. DOMAIN owner' = Sid /\ revoked' \subseteq Sid
    BY <1>1 DEF At, OwnedBy, SessionStep, BootstrapOwner, CurrentPrincipal, Lookup, AdminTokenLogin, Issue,
       Touch, LogoutLookup, RevokeCommit, RevokeEvict, BindingChanged, SweepCommit, CreateUser,
       DeleteUser, CacheExpires, SessionExpires, SweepEvict, sessionVars
  <2> QED BY <1>1, <2>1, SessionMoves, SessionStepExcused
<1>2. CASE PasswordStep
  <2>1. Moved(SessionPcs)
    BY <1>2, PasswordMoves DEF Moved
  <2> QED BY <1>2, <2>1, PasswordMoves, ElsewhereKeepsSessions
<1>3. CASE OidcStep
  <2>1. Moved(SessionPcs)
    BY <1>3, OidcMoves DEF Moved
  <2> QED BY <1>3, <2>1, OidcMoves, ElsewhereKeepsSessions
<1>4. CASE FactorStep /\ UNCHANGED signInVars
  <2>1. UNCHANGED <<sessionVars, revokeVars>>
    BY <1>4 DEF signInVars, sessionVars, revokeVars
  <2>2. Moved(SessionPcs)
    BY <1>4, FactorMoves DEF Moved
  <2> QED BY <2>1, <2>2, ElsewhereKeepsSessions
<1>5. CASE UNCHANGED vars
  <2>1. Moved(SessionPcs) /\ UNCHANGED <<sessionVars, revokeVars>>
    BY <1>5 DEF vars, signInVars, sessionVars, revokeVars, Moved
  <2> QED BY <2>1, ElsewhereKeepsSessions
<1> QED BY <1>1, <1>2, <1>3, <1>4, <1>5 DEF Next

LEMMA SessionInvInit == Init => SessionInv
  BY DEF Init, SignInInit, SessionInv, ReqOK, RevokedExcused, Idle

\* A session that was revoked stays usable through the cache only while its
\* eviction is on the way, or because a lookup of it overlapped the eviction
\* (SessionService.lookup, revoke, _revoke_user_sessions).
THEOREM RevokedNeedsOverlap == Spec => []RevokedCachedOnlyByOverlap
<1>1. SessionInv => RevokedCachedOnlyByOverlap
  BY DEF SessionInv, RevokedExcused, Excused, RevokedCachedOnlyByOverlap
<1> QED BY <1>1, SessionInvInit, SessionInvStep, PTL DEF Spec

--------------------------------------------------------------------------------
(***************************************************************************)
(* The account of a provider subject.                                        *)
(***************************************************************************)
LEMMA SubjectInvStep == SubjectInv /\ [Next]_vars => SubjectInv'
<1> SUFFICES ASSUME SubjectInv, [Next]_vars PROVE SubjectInv'
  OBVIOUS
<1> USE DEF SubjectInv
<1>1. ASSUME UNCHANGED <<links, signedIn>> PROVE SubjectInv'
  BY <1>1
<1>2. ASSUME NEW r \in Req, JitRead(r) PROVE SubjectInv'
  <2>1. PICK p : p = req[r].sub
    OBVIOUS
  <2>2. /\ UNCHANGED links
        /\ \/ UNCHANGED signedIn
           \/ links[p] # None /\ signedIn' = [signedIn EXCEPT ![p] = @ \cup {links[p]}]
    BY <1>2, <2>1 DEF JitRead, SignIn
  <2> QED BY <2>2
<1>3. ASSUME NEW r \in Req, JitCommit(r) PROVE SubjectInv'
  <2>1. PICK p, e : p = req[r].sub /\ e = EmailOf[p]
    OBVIOUS
  <2>2. \/ UNCHANGED <<links, signedIn>>
        \/ /\ links[p] = None /\ links' = [links EXCEPT ![p] = e]
           /\ signedIn' = [signedIn EXCEPT ![p] = @ \cup {e}]
        \/ /\ links[p] # None /\ UNCHANGED links
           /\ signedIn' = [signedIn EXCEPT ![p] = @ \cup {links[p]}]
    BY <1>3, <2>1 DEF JitCommit, SignIn
  <2>3. p \in Subject => e # None
    BY <2>1, SessionsAssumption
  <2> QED BY <2>2, <2>3
<1>4. ASSUME NEW r \in Req, LinkAccount(r) PROVE SubjectInv'
  <2>1. PICK p, u : p = req[r].sub /\ u = req[r].user
    OBVIOUS
  <2>2. /\ UNCHANGED signedIn
        /\ UNCHANGED links \/ (links[p] = None /\ links' = [links EXCEPT ![p] = u])
    BY <1>4, <2>1 DEF LinkAccount
  <2> QED BY <2>2
<1>5. CASE OidcStep
  BY <1>1, <1>2, <1>3, <1>4, <1>5 DEF OidcStep, AuthStart, StateExpires, AuthLink, ConsumeState,
     Exchange, ExchangeFails, VerifyIdToken, VerifyFails, KeyRotates, JwksExpires, oidcVars
<1>6. CASE PasswordStep
  BY <1>1, <1>6 DEF PasswordStep, LoginStart, CheckLock, LoginSucceeds, WrongPassword,
     RecordFailureRead, RecordFailureCommit, LockExpires, FailureWindowPasses, oidcVars
<1>7. CASE SessionStep
  BY <1>1, <1>7 DEF SessionStep, BootstrapOwner, CurrentPrincipal, Lookup, AdminTokenLogin, Issue,
     Touch, LogoutLookup, RevokeCommit, RevokeEvict, BindingChanged, SweepCommit, CreateUser,
     DeleteUser, CacheExpires, SessionExpires, SweepEvict, oidcVars
<1>8. CASE UNCHANGED signInVars \/ UNCHANGED vars
  BY <1>1, <1>8 DEF vars, signInVars
<1> QED BY <1>5, <1>6, <1>7, <1>8 DEF Next

\* However first logins and account links overlap, every login of a provider
\* subject is for the account it is linked to (jit_provision, link_account).
THEOREM SubjectKeepsAccount == Spec => []SubjectIsOneAccount
<1>1. Init => SubjectInv
  BY DEF Init, SignInInit, SubjectInv
<1>2. SubjectInv => SubjectIsOneAccount
  BY DEF SubjectInv, SubjectIsOneAccount
<1> QED BY <1>1, <1>2, SubjectInvStep, PTL DEF Spec

--------------------------------------------------------------------------------
(***************************************************************************)
(* Second factors.                                                           *)
(***************************************************************************)
\* Counters only grow, so a proof that is behind them stays behind them.
LEMMA ProofStays ==
  ASSUME FactorTypes, {totp'.gen, sets', challenges'} \subseteq Nat,
         totp.gen <= totp'.gen, sets <= sets', challenges <= challenges', NEW p, ProofOK(p)
  PROVE  ProofOK(p)'
  BY DEF ProofOK, FactorTypes

\* Steps of the sign-in workloads.
LEMMA ElsewhereKeepsFactors ==
  ASSUME FactorInv, Moved(FactorPcs), UNCHANGED factorVars
  PROVE  FactorInv'
<1>1. \A p : ProofOK(p)' = ProofOK(p)
  BY DEF ProofOK, factorVars
<1>2. FactorTypes' /\ SpentOnRecord'
  BY <1>1 DEF FactorInv, FactorTypes, SpentOnRecord, factorVars
<1>3. OneGeneration'
  BY DEF FactorInv, OneGeneration, At, Moved, FactorPcs, factorVars
<1>4. SpentProofRefused'
  BY DEF FactorInv, SpentProofRefused, Moved, FactorPcs, factorVars
<1>5. ASSUME NEW r \in Req PROVE HeldOK(r)'
  <2>1. CASE req'[r] = req[r]
    BY <2>1, <1>1 DEF FactorInv, HeldOK
  <2>2. CASE req'[r].pc \notin FactorPcs
    BY <2>2 DEF HeldOK, FactorPcs
  <2> QED BY <2>1, <2>2 DEF Moved
<1> QED BY <1>2, <1>3, <1>4, <1>5 DEF FactorInv, Moved

Growing ==
    /\ {totp'.gen, sets', challenges'} \subseteq Nat
    /\ totp.gen <= totp'.gen /\ sets <= sets' /\ challenges <= challenges'

\* The steps that change neither a row nor a counter nor the proofs on record.
LEMMA IdleSteps ==
  ASSUME FactorStep,
         ~TotpEnrollBegin, \A r \in Req : ~EnrollCommit(r) /\ ~TotpCommit(r),
         \A r \in Req : ~RegenerateDelete(r) /\ ~Generate(r) /\ ~ConsumeCommit(r),
         ~RegistrationBegin, \A r \in Req : ~RegistrationCommit(r) /\ ~AssertionCommit(r),
         ~StepPasses, ~ChallengeExpires
  PROVE  UNCHANGED <<totp, step, codes, consumed, sets, challenge, challenges, spent, rewound, mixed>>
  BY DEF FactorStep, Challenge, Manage, TotpVerify, Consume, AssertionRead, PluginVerify, Stamp,
     StampFails, TotpEnrollFinish, EnrollRead, RegistrationFinish, DeleteCredential, ProofAges,
     totpVars, codeVars, waVars

LEMMA FactorTypesStep ==
  ASSUME FactorInv, FactorStep
  PROVE  FactorTypes' /\ Growing
<1> USE DEF totpVars, codeVars, waVars
<1>1. FactorTypes /\ DOMAIN req = Req
  BY DEF FactorInv
<1>2. ASSUME UNCHANGED <<totp, step, codes, sets, challenge, challenges, rewound, mixed>>
      PROVE  FactorTypes' /\ Growing
  <2>1. \A c : ProofOK(c) => ProofOK(c)'
    BY <1>2 DEF ProofOK
  <2> QED BY <1>1, <1>2, <2>1 DEF FactorTypes, Growing
<1>3. ASSUME Growing, codes' \subseteq codes,
             totp' \in [gen : Nat, is : {"none", "pending", "confirmed"}, last : Nat],
             {step', challenge'} \subseteq Nat, challenge' <= challenges',
             rewound' \in BOOLEAN, mixed' \in BOOLEAN
      PROVE  FactorTypes' /\ Growing
  <2>1. \A c \in codes : ProofOK(c)'
    BY <1>1, <1>3, ProofStays DEF FactorTypes, Growing
  <2> QED BY <1>1, <1>3, <2>1 DEF FactorTypes, Growing
<1>4. CASE TotpEnrollBegin
  <2>1. totp' = [gen |-> totp.gen + 1, is |-> "pending", last |-> 0]
    BY <1>4 DEF TotpEnrollBegin
  <2>2. UNCHANGED <<step, codes, sets, challenge, challenges, rewound, mixed>>
    BY <1>4 DEF TotpEnrollBegin
  <2>3. Growing
    BY <1>1, <2>1, <2>2 DEF FactorTypes, Growing
  <2> QED BY <1>1, <1>3, <2>1, <2>2, <2>3 DEF FactorTypes
<1>5. ASSUME NEW r \in Req, EnrollCommit(r) \/ TotpCommit(r) PROVE FactorTypes' /\ Growing
  <2> DEFINE p == req[r].proof
  <2>1. p[3] \in Nat
    BY <1>5 DEF FactorInv, HeldOK, ProofOK, EnrollCommit, TotpCommit, At
  <2>2. \/ UNCHANGED totp
        \/ totp' = [totp EXCEPT !.is = "confirmed", !.last = p[3]]
        \/ totp' = [totp EXCEPT !.last = p[3]]
    BY <1>5 DEF EnrollCommit, TotpCommit
  <2>3. rewound' \in BOOLEAN /\ UNCHANGED <<step, codes, sets, challenge, challenges, mixed>>
    BY <1>1, <1>5 DEF EnrollCommit, TotpCommit, UseStep, FactorTypes
  <2> HIDE DEF p
  <2>4. totp' \in [gen : Nat, is : {"none", "pending", "confirmed"}, last : Nat]
        /\ totp'.gen = totp.gen
    BY <1>1, <2>1, <2>2 DEF FactorTypes
  <2>5. Growing
    BY <1>1, <2>3, <2>4 DEF FactorTypes, Growing
  <2> QED BY <1>1, <1>3, <2>3, <2>4, <2>5 DEF FactorTypes
<1>6. ASSUME NEW r \in Req, RegenerateDelete(r) PROVE FactorTypes' /\ Growing
  BY <1>1, <1>3, <1>6 DEF RegenerateDelete, FactorTypes, Growing
<1>7. ASSUME NEW r \in Req, Generate(r) PROVE FactorTypes' /\ Growing
  <2>1. /\ sets' = sets + 1 /\ codes' = codes \cup {<<"code", sets + 1, c>> : c \in Code}
        /\ UNCHANGED <<totp, step, challenge, challenges, rewound, mixed>>
    BY <1>7 DEF Generate
  <2>2. Growing
    BY <1>1, <2>1 DEF FactorTypes, Growing
  <2>3. \A c \in codes : ProofOK(c)'
    BY <1>1, <2>2, ProofStays DEF FactorTypes, Growing
  <2>4. \A c \in Code : <<"code", sets + 1, c>>[1] = "code" /\ <<"code", sets + 1, c>>[2] = sets + 1
    OBVIOUS
  <2>5. \A c \in codes' : c[1] = "code" /\ ProofOK(c)'
    BY <1>1, <2>1, <2>3, <2>4 DEF FactorTypes, ProofOK
  <2> QED BY <1>1, <2>1, <2>2, <2>5 DEF FactorTypes
<1>8. CASE RegistrationBegin
  BY <1>1, <1>3, <1>8 DEF RegistrationBegin, FactorTypes, Growing
<1>9. ASSUME NEW r \in Req, RegistrationCommit(r) \/ AssertionCommit(r) PROVE FactorTypes' /\ Growing
  <2>1. /\ challenge' \in {challenge, 0}
        /\ UNCHANGED <<totp, step, codes, sets, challenges, rewound, mixed>>
    BY <1>9 DEF RegistrationCommit, AssertionCommit
  <2> QED BY <1>1, <1>3, <2>1 DEF FactorTypes, Growing
<1>10. CASE StepPasses
  BY <1>1, <1>3, <1>10 DEF StepPasses, FactorTypes, Growing
<1>11. CASE ChallengeExpires
  BY <1>1, <1>3, <1>11 DEF ChallengeExpires, FactorTypes, Growing
<1>12. ASSUME NEW r \in Req, ConsumeCommit(r) PROVE FactorTypes' /\ Growing
  BY <1>2, <1>12 DEF ConsumeCommit
<1> QED
  BY <1>2, <1>4, <1>5, <1>6, <1>7, <1>8, <1>9, <1>10, <1>11, <1>12, IdleSteps

\* What a request holds: what it read a moment ago, or what it held before.
LEMMA HeldStep ==
  ASSUME FactorInv, FactorStep
  PROVE  /\ DOMAIN req' = Req
         /\ \A r \in Req : HeldOK(r)'
<1>1. FactorTypes /\ DOMAIN req = Req /\ FactorTypes' /\ Growing
  BY FactorTypesStep DEF FactorInv
<1>2. \A p : ProofOK(p) => ProofOK(p)'
  BY <1>1, ProofStays DEF Growing
<1>3. ASSUME NEW r \in Req, req'[r] = req[r] PROVE HeldOK(r)'
  BY <1>2, <1>3 DEF HeldOK, FactorInv
<1>4. ASSUME UNCHANGED req PROVE DOMAIN req' = Req /\ \A r \in Req : HeldOK(r)'
  BY <1>1, <1>3, <1>4
<1>5. ASSUME NEW r \in Req, NEW rec, req' = [req EXCEPT ![r] = rec],
             /\ rec.pc \in {"confirm", "totp"} => rec.proof[1] = "totp" /\ ProofOK(rec.proof)
             /\ rec.pc = "recover" => rec.proof[1] = "code" /\ ProofOK(rec.proof)
             /\ rec.pc = "assert" => rec.proof[1] = "webauthn" /\ ProofOK(rec.proof)
      PROVE  DOMAIN req' = Req /\ \A q \in Req : HeldOK(q)'
  <2>1. DOMAIN req' = Req /\ req'[r] = rec /\ \A q \in Req : q # r => req'[q] = req[q]
    BY <1>1, <1>5
  <2>2. HeldOK(r)'
    BY <1>2, <1>5, <2>1 DEF HeldOK
  <2> QED BY <1>3, <2>1, <2>2
<1>6. ASSUME NEW r \in Req, EnrollRead(r) \/ TotpVerify(r)
      PROVE  DOMAIN req' = Req /\ \A q \in Req : HeldOK(q)'
  <2>1. \A p \in RightCodes : p[1] = "totp" /\ ProofOK(p)
    BY <1>1 DEF ProofOK, FactorTypes, RightCodes
  <2>2. \/ req' = [req EXCEPT ![r] = Idle]
        \/ \E p \in RightCodes : \E rec \in {Holding("confirm", p), Holding("totp", p)} :
              req' = [req EXCEPT ![r] = rec]
    BY <1>6 DEF EnrollRead, TotpVerify, Goto, Begin
  <2> QED BY <1>5, <2>1, <2>2 DEF Idle, Holding
<1>7. ASSUME NEW r \in Req, Consume(r) PROVE DOMAIN req' = Req /\ \A q \in Req : HeldOK(q)'
  <2>1. PICK c \in codes : req' = [req EXCEPT ![r] = Holding("recover", c)]
    BY <1>7 DEF Consume, Begin
  <2>2. c[1] = "code" /\ ProofOK(c)
    BY <1>1 DEF FactorTypes
  <2> QED BY <1>5, <2>1, <2>2 DEF Holding
<1>8. ASSUME NEW r \in Req, AssertionRead(r) PROVE DOMAIN req' = Req /\ \A q \in Req : HeldOK(q)'
  <2>1. <<"webauthn", challenge>>[1] = "webauthn" /\ ProofOK(<<"webauthn", challenge>>)
    BY <1>1 DEF ProofOK, FactorTypes
  <2> QED BY <1>5, <1>8, <2>1 DEF AssertionRead, Begin
<1>9. ASSUME NEW r \in Req,
             \E pc \in {"idle", "stamp", "enroll", "generate", "register"} :
                req' = [req EXCEPT ![r] = [pc |-> pc]]
      PROVE  DOMAIN req' = Req /\ \A q \in Req : HeldOK(q)'
  BY <1>5, <1>9
<1>10. ASSUME NEW r \in Req, Challenge(r) PROVE DOMAIN req' = Req /\ \A q \in Req : HeldOK(q)'
  BY <1>6, <1>7, <1>8, <1>9, <1>10 DEF Challenge, TotpCommit, ConsumeCommit, AssertionCommit,
     PluginVerify, Stamp, StampFails, Goto, Begin, Idle
<1>11. ASSUME NEW r \in Req, Manage(r) PROVE DOMAIN req' = Req /\ \A q \in Req : HeldOK(q)'
  BY <1>6, <1>9, <1>11 DEF Manage, TotpEnrollFinish, EnrollCommit, RegenerateDelete, Generate,
     RegistrationFinish, RegistrationCommit, Goto, Begin, Idle
<1> QED
  BY <1>4, <1>10, <1>11 DEF FactorStep, TotpEnrollBegin, RegistrationBegin, DeleteCredential,
     StepPasses, ProofAges, ChallengeExpires, Call

LEMMA SpentStep ==
  ASSUME FactorInv, FactorStep
  PROVE  SpentOnRecord'
<1> USE DEF totpVars, codeVars, waVars
<1>1. FactorTypes /\ DOMAIN req = Req /\ FactorTypes' /\ Growing /\ SpentOnRecord
  BY FactorTypesStep DEF FactorInv
<1>2. \A p : ProofOK(p) => ProofOK(p)'
  BY <1>1, ProofStays DEF Growing
<1>3. ASSUME UNCHANGED <<spent, totp, rewound>>, codes' \subseteq codes, consumed \subseteq consumed',
             challenge' \in {challenge, 0}
      PROVE  SpentOnRecord'
  BY <1>1, <1>2, <1>3 DEF SpentOnRecord
<1>4. CASE TotpEnrollBegin
  <2>1. totp'.gen = totp.gen + 1 /\ UNCHANGED <<spent, codes, consumed, challenge>>
    BY <1>4 DEF TotpEnrollBegin
  <2>2. \A p \in spent : p[1] = "totp" => p[2] # totp'.gen
    BY <1>1, <2>1 DEF SpentOnRecord, ProofOK, FactorTypes
  <2> QED BY <1>1, <1>2, <2>1, <2>2 DEF SpentOnRecord
<1>5. ASSUME NEW r \in Req, EnrollCommit(r) \/ TotpCommit(r) PROVE SpentOnRecord'
  <2>1. PICK p : p = req[r].proof
    OBVIOUS
  <2>2. p[1] = "totp" /\ ProofOK(p)
    BY <1>5, <2>1 DEF FactorInv, HeldOK, EnrollCommit, TotpCommit, At
  <2>3. UNCHANGED <<codes, consumed, challenge>>
    BY <1>5 DEF EnrollCommit, TotpCommit
  <2>4. \/ UNCHANGED <<totp, spent, rewound>>
        \/ /\ p[2] = totp.gen /\ totp'.last = p[3] /\ totp'.gen = totp.gen
           /\ spent' = spent \cup {p} /\ rewound' = (rewound \/ totp.last > p[3])
    BY <1>1, <1>5, <2>1 DEF EnrollCommit, TotpCommit, UseStep, FactorTypes
  <2>5. CASE UNCHANGED <<totp, spent, rewound>>
    BY <1>3, <2>3, <2>5
  <2>6. CASE /\ p[2] = totp.gen /\ totp'.last = p[3] /\ totp'.gen = totp.gen
             /\ spent' = spent \cup {p} /\ rewound' = (rewound \/ totp.last > p[3])
    <3>1. ASSUME NEW q \in spent', q[1] = "totp", q[2] = totp'.gen, ~rewound'
          PROVE  q[3] <= totp'.last
      <4>0. ~rewound /\ ~(totp.last > p[3])
        BY <2>6, <3>1, Zenon
      <4>1. p[3] \in Nat /\ totp.last \in Nat /\ totp.last <= p[3] /\ ~rewound
        BY <1>1, <2>2, <4>0 DEF ProofOK, FactorTypes
      <4>2. CASE q = p
        BY <2>6, <4>1, <4>2
      <4>3. CASE q \in spent
        <5>1. q[3] \in Nat /\ q[3] <= totp.last
          BY <1>1, <2>6, <3>1, <4>1, <4>3 DEF SpentOnRecord, ProofOK
        <5> QED BY <2>6, <4>1, <5>1
      <4> QED BY <2>6, <4>2, <4>3
    <3>2. \A q \in spent' : q \in spent \/ q[1] = "totp"
      BY <2>2, <2>6
    <3>3. \A q \in spent' : ProofOK(q)'
      BY <1>1, <1>2, <2>2, <2>6 DEF SpentOnRecord
    <3> QED BY <1>1, <2>3, <3>1, <3>2, <3>3 DEF SpentOnRecord
  <2> QED BY <2>4, <2>5, <2>6
<1>6. ASSUME NEW r \in Req, Generate(r) PROVE SpentOnRecord'
  <2>1. /\ codes' = codes \cup {<<"code", sets + 1, c>> : c \in Code}
        /\ UNCHANGED <<totp, rewound, spent, consumed, challenge>>
    BY <1>6 DEF Generate
  <2>2. \A c \in Code : <<"code", sets + 1, c>>[2] = sets + 1
    OBVIOUS
  <2>3. \A p \in spent : p[1] = "code" => p[2] # sets + 1
    BY <1>1 DEF SpentOnRecord, ProofOK, FactorTypes
  <2>4. \A p \in spent : p[1] = "code" /\ p \in codes' => p \in codes
    BY <2>1, <2>2, <2>3
  <2> QED BY <1>1, <1>2, <2>1, <2>4 DEF SpentOnRecord
<1>7. ASSUME NEW r \in Req, ConsumeCommit(r) PROVE SpentOnRecord'
  <2>1. PICK p : p = req[r].proof
    OBVIOUS
  <2>2. p[1] = "code" /\ ProofOK(p)
    BY <1>7, <2>1 DEF FactorInv, HeldOK, ConsumeCommit, At
  <2>3. /\ UNCHANGED <<totp, rewound, codes, challenge>>
        /\ \/ UNCHANGED <<consumed, spent>>
           \/ consumed' = consumed \cup {p} /\ spent' = spent \cup {p}
    BY <1>7, <2>1 DEF ConsumeCommit
  <2> QED BY <1>1, <1>2, <2>2, <2>3 DEF SpentOnRecord
<1>8. CASE RegistrationBegin
  <2>1. challenge' = challenges + 1 /\ UNCHANGED <<totp, rewound, spent, codes, consumed>>
    BY <1>8 DEF RegistrationBegin
  <2>2. \A p \in spent : p[1] = "webauthn" => p[2] # challenges + 1
    BY <1>1 DEF SpentOnRecord, ProofOK, FactorTypes
  <2> QED BY <1>1, <1>2, <2>1, <2>2 DEF SpentOnRecord
<1>9. ASSUME NEW r \in Req, AssertionCommit(r) PROVE SpentOnRecord'
  <2>1. PICK p : p = req[r].proof
    OBVIOUS
  <2>2. p[1] = "webauthn" /\ ProofOK(p)
    BY <1>9, <2>1 DEF FactorInv, HeldOK, AssertionCommit, At
  <2>3. /\ UNCHANGED <<totp, rewound, codes, consumed>>
        /\ \/ UNCHANGED <<challenge, spent>>
           \/ challenge' = 0 /\ spent' = spent \cup {p}
    BY <1>9, <2>1 DEF AssertionCommit
  <2> QED BY <1>1, <1>2, <2>2, <2>3 DEF SpentOnRecord
<1>10. ASSUME NEW r \in Req, RegistrationCommit(r) \/ RegenerateDelete(r) PROVE SpentOnRecord'
  BY <1>3, <1>10 DEF RegistrationCommit, RegenerateDelete
<1>11. CASE StepPasses \/ ChallengeExpires
  BY <1>3, <1>11 DEF StepPasses, ChallengeExpires
<1> QED
  BY <1>3, <1>4, <1>5, <1>6, <1>7, <1>8, <1>9, <1>10, <1>11, IdleSteps

LEMMA OneGenerationStep ==
  ASSUME FactorInv, FactorStep
  PROVE  OneGeneration'
<1> USE DEF totpVars, codeVars, waVars, At
<1>1. FactorTypes /\ DOMAIN req = Req /\ OneGeneration
  BY DEF FactorInv
<1>2. ASSUME UNCHANGED mixed, codes' = codes,
             \A q \in Req : req'[q].pc = "generate" => req'[q] = req[q]
      PROVE  OneGeneration'
  BY <1>1, <1>2 DEF OneGeneration
<1>3. ASSUME NEW r \in Req, RegenerateDelete(r) PROVE OneGeneration'
  BY <1>1, <1>3 DEF RegenerateDelete, OneGeneration, Begin, Idle, FactorTypes
<1>4. ASSUME NEW r \in Req, Generate(r) PROVE OneGeneration'
  <2>1. /\ codes' = codes \cup {<<"code", sets + 1, c>> : c \in Code}
        /\ UNCHANGED mixed /\ req[r].pc = "generate"
        /\ req' = [req EXCEPT ![r] = Idle]
    BY <1>4 DEF Generate, Goto
  <2>2. CASE mixed
    BY <2>1, <2>2 DEF OneGeneration
  <2>3. CASE ~mixed
    <3>1. codes = {} /\ \A q \in Req : req[q].pc = "generate" => q = r
      BY <1>1, <2>1, <2>3 DEF OneGeneration
    <3>2. \A q \in Req : req'[q].pc # "generate"
      BY <1>1, <2>1, <3>1 DEF Idle
    <3>3. \A c \in codes' : c[2] = sets + 1
      BY <2>1, <3>1
    <3> QED BY <3>2, <3>3 DEF OneGeneration
  <2> QED BY <2>2, <2>3
<1>5. ASSUME NEW r \in Req, NEW rec, req' = [req EXCEPT ![r] = rec], rec.pc # "generate"
      PROVE  \A q \in Req : req'[q].pc = "generate" => req'[q] = req[q]
  BY <1>1, <1>5
<1>6. ASSUME NEW r \in Req, Challenge(r) PROVE OneGeneration'
  <2>1. UNCHANGED <<codes, mixed>>
    BY <1>6 DEF Challenge, TotpVerify, TotpCommit, Consume, ConsumeCommit, AssertionRead,
       AssertionCommit, PluginVerify, Stamp, StampFails
  <2>2. \E rec : req' = [req EXCEPT ![r] = rec] /\ rec.pc # "generate"
    BY <1>6 DEF Challenge, TotpVerify, TotpCommit, Consume, ConsumeCommit, AssertionRead,
       AssertionCommit, PluginVerify, Stamp, StampFails, Begin, Goto, Holding, Idle
  <2> QED BY <1>2, <1>5, <2>1, <2>2
<1>7. ASSUME NEW r \in Req, Manage(r), ~RegenerateDelete(r), ~Generate(r) PROVE OneGeneration'
  <2>1. UNCHANGED <<codes, mixed>>
    BY <1>7 DEF Manage, TotpEnrollFinish, EnrollRead, EnrollCommit, RegistrationFinish,
       RegistrationCommit
  <2>2. \E rec : req' = [req EXCEPT ![r] = rec] /\ rec.pc # "generate"
    BY <1>7 DEF Manage, TotpEnrollFinish, EnrollRead, EnrollCommit, RegistrationFinish,
       RegistrationCommit, Begin, Goto, Holding, Idle
  <2> QED BY <1>2, <1>5, <2>1, <2>2
<1>8. ASSUME UNCHANGED <<codes, mixed, req>> PROVE OneGeneration'
  BY <1>2, <1>8
<1> QED
  BY <1>3, <1>4, <1>6, <1>7, <1>8 DEF FactorStep, TotpEnrollBegin, RegistrationBegin,
     DeleteCredential, StepPasses, ProofAges, ChallengeExpires, Call

\* A challenge reads the row before it holds a proof, and the row knows what was
\* accepted before.
LEMMA RefusedStep ==
  ASSUME FactorInv, FactorStep
  PROVE  SpentProofRefused'
<1> USE DEF totpVars, codeVars, waVars, At
<1>1. FactorTypes /\ DOMAIN req = Req /\ SpentOnRecord /\ SpentProofRefused
  BY DEF FactorInv
<1>2. rewound => rewound'
  BY <1>1 DEF FactorStep, Challenge, Manage, TotpVerify, TotpCommit, Consume, ConsumeCommit,
     AssertionRead, AssertionCommit, PluginVerify, Stamp, StampFails, TotpEnrollFinish, EnrollRead,
     EnrollCommit, UseStep, RegenerateDelete, Generate, RegistrationFinish, RegistrationCommit,
     TotpEnrollBegin, RegistrationBegin, DeleteCredential, StepPasses, ProofAges, ChallengeExpires
<1>3. ASSUME NEW r \in Req, NEW rec, req' = [req EXCEPT ![r] = rec],
             /\ rec.pc \in {"recover", "assert"} => ~rec.again
             /\ rec.pc = "totp" => ~rec.again \/ rewound'
      PROVE  SpentProofRefused'
  <2>1. req'[r] = rec /\ \A q \in Req : q # r => req'[q] = req[q]
    BY <1>1, <1>3
  <2> QED BY <1>1, <1>2, <1>3, <2>1 DEF SpentProofRefused
<1>4. ASSUME UNCHANGED req PROVE SpentProofRefused'
  BY <1>1, <1>2, <1>4 DEF SpentProofRefused
<1>5. ASSUME NEW r \in Req, TotpVerify(r) PROVE SpentProofRefused'
  <2>1. PICK p \in RightCodes : req' = [req EXCEPT ![r] = Holding("totp", p)]
    BY <1>5 DEF TotpVerify, Begin
  <2>2. p[1] = "totp" /\ p[2] = totp.gen /\ p[3] = step
    BY DEF RightCodes
  <2>3. totp.last < step /\ UNCHANGED rewound
    BY <1>1, <1>5 DEF TotpVerify, ReplayedStep, FactorTypes
  <2>4. ~UsedUp(p) \/ rewound
    BY <1>1, <2>2, <2>3 DEF UsedUp, SpentOnRecord, FactorTypes
  <2> QED BY <1>3, <2>1, <2>3, <2>4 DEF Holding
<1>6. ASSUME NEW r \in Req, Consume(r) PROVE SpentProofRefused'
  <2>1. PICK c \in codes \ consumed : req' = [req EXCEPT ![r] = Holding("recover", c)]
    BY <1>6 DEF Consume, Begin
  <2>2. c[1] = "code" /\ c \notin spent
    BY <1>1 DEF SpentOnRecord, FactorTypes
  <2>3. ~UsedUp(c)
    BY <2>2 DEF UsedUp
  <2> QED BY <1>3, <2>1, <2>3 DEF Holding
<1>7. ASSUME NEW r \in Req, AssertionRead(r) PROVE SpentProofRefused'
  <2> DEFINE p == <<"webauthn", challenge>>
  <2>1. p[1] = "webauthn" /\ p[2] = challenge
    OBVIOUS
  <2>2. /\ challenge # 0
        /\ req' = [req EXCEPT ![r] = [pc |-> "assert", proof |-> p, count |-> signs + 1,
                                      again |-> p \in spent]]
    BY <1>7 DEF AssertionRead, Begin
  <2> HIDE DEF p
  <2>3. p \notin spent
    BY <1>1, <2>1, <2>2 DEF SpentOnRecord
  <2> QED BY <1>3, <2>2, <2>3
<1>8. ASSUME NEW r \in Req, EnrollRead(r) PROVE SpentProofRefused'
  BY <1>3, <1>8 DEF EnrollRead, Goto, Idle, Holding
<1>9. ASSUME NEW r \in Req,
             \E pc \in {"idle", "stamp", "enroll", "generate", "register"} :
                req' = [req EXCEPT ![r] = [pc |-> pc]]
      PROVE  SpentProofRefused'
  BY <1>3, <1>9
<1>10. ASSUME NEW r \in Req, Challenge(r) PROVE SpentProofRefused'
  BY <1>5, <1>6, <1>7, <1>9, <1>10 DEF Challenge, TotpCommit, ConsumeCommit, AssertionCommit,
     PluginVerify, Stamp, StampFails, Goto, Begin, Idle
<1>11. ASSUME NEW r \in Req, Manage(r) PROVE SpentProofRefused'
  BY <1>8, <1>9, <1>11 DEF Manage, TotpEnrollFinish, EnrollCommit, RegenerateDelete, Generate,
     RegistrationFinish, RegistrationCommit, Goto, Begin, Idle
<1> QED
  BY <1>4, <1>10, <1>11 DEF FactorStep, TotpEnrollBegin, RegistrationBegin, DeleteCredential,
     StepPasses, ProofAges, ChallengeExpires, Call

LEMMA FactorInvStep == SessionInv /\ FactorInv /\ [Next]_vars => FactorInv'
<1> SUFFICES ASSUME ReqOK, FactorInv, [Next]_vars PROVE FactorInv'
  BY DEF SessionInv
<1>1. DOMAIN req = Req
  BY DEF ReqOK
<1>2. CASE FactorStep
  BY <1>2, FactorTypesStep, HeldStep, SpentStep, OneGenerationStep, RefusedStep DEF FactorInv
<1>3. CASE (SessionStep \/ PasswordStep \/ OidcStep) /\ UNCHANGED factorVars
  <2>1. Moved(FactorPcs)
    <3>1. CASE SessionStep
      BY <3>1, SessionMoves DEF Moved
    <3>2. CASE PasswordStep
      BY <1>1, <3>2, PasswordMoves DEF Moved
    <3>3. CASE OidcStep
      BY <1>1, <3>3, OidcMoves DEF Moved
    <3> QED BY <1>3, <3>1, <3>2, <3>3
  <2> QED BY <1>3, <2>1, ElsewhereKeepsFactors
<1>4. CASE UNCHANGED vars
  <2>1. Moved(FactorPcs) /\ UNCHANGED factorVars
    BY <1>1, <1>4 DEF vars, Moved
  <2> QED BY <2>1, ElsewhereKeepsFactors
<1> QED BY <1>2, <1>3, <1>4 DEF Next

LEMMA FactorInvInit == Init => FactorInv
<1> SUFFICES ASSUME Init PROVE FactorInv
  OBVIOUS
<1>1. FactorTypes
  <2>1. totp \in [gen : Nat, is : {"none", "pending", "confirmed"}, last : Nat]
    BY DEF Init, FactorInit
  <2>2. {step, sets, challenge, challenges} \subseteq Nat /\ challenge <= challenges
    BY DEF Init, FactorInit
  <2>3. rewound \in BOOLEAN /\ mixed \in BOOLEAN /\ codes = {}
    BY Zenon DEF Init, FactorInit
  <2> QED BY <2>1, <2>2, <2>3 DEF FactorTypes
<1>2. SpentOnRecord
  BY DEF Init, FactorInit, SpentOnRecord
<1>3. DOMAIN req = Req /\ \A r \in Req : req[r].pc = "idle"
  BY DEF Init, Idle
<1>4. OneGeneration /\ SpentProofRefused /\ \A r \in Req : HeldOK(r)
  BY <1>3 DEF Init, FactorInit, OneGeneration, SpentProofRefused, HeldOK, At
<1> QED BY <1>1, <1>2, <1>3, <1>4 DEF FactorInv

LEMMA FactorInvHolds == Spec => []FactorInv
  BY SessionInvInit, SessionInvStep, FactorInvInit, FactorInvStep, PTL DEF Spec

\* RecoveryService.consume and the WebAuthn challenge refuse a proof that was accepted
\* before they read the row; TotpService.verify refuses every code in a time step in
\* which it accepted one, unless overlapping requests moved last_used_step back.
THEOREM SpentIsRefused == Spec => []SpentProofRefused
<1>1. FactorInv => SpentProofRefused
  BY DEF FactorInv
<1> QED BY <1>1, FactorInvHolds, PTL

\* The usable recovery codes are of one generation unless two calls of
\* RecoveryService.regenerate overlapped.
THEOREM CodesOfOneSet == Spec => []OneCodeSet
<1>1. FactorInv => OneCodeSet
  <2> SUFFICES ASSUME FactorInv, ~mixed PROVE Cardinality({c[2] : c \in codes \ consumed}) <= 1
    BY DEF OneCodeSet
  <2> DEFINE S == {c[2] : c \in codes \ consumed}
  <2>1. \A x \in S, y \in S : x = y
    BY DEF FactorInv, OneGeneration
  <2>2. CASE S = {}
    BY <2>2, FS_EmptySet
  <2>3. CASE S # {}
    <3>1. PICK x : x \in S
      BY <2>3
    <3>2. S = {x}
      BY <2>1, <3>1
    <3> HIDE DEF S
    <3>3. Cardinality(S) = 1
      BY <3>2, FS_Singleton
    <3> QED BY <3>3 DEF S
  <2> QED BY <2>2, <2>3
<1> QED BY <1>1, FactorInvHolds, PTL

--------------------------------------------------------------------------------
(***************************************************************************)
(* Induction on the natural numbers, over a set instead of a predicate.      *)
(***************************************************************************)
LEMMA NatSetInduction ==
  ASSUME NEW S, 0 \in S, \A n \in Nat : n \in S => n + 1 \in S
  PROVE  Nat \subseteq S
<1> DEFINE Bad == Nat \ S
<1>1. SUFFICES ASSUME Bad # {} PROVE FALSE
  OBVIOUS
<1>2. PICK n \in Bad : \A i \in Bad : ~ (<<i, n>> \in OpToRel(<, Nat))
  <2>1. Bad \subseteq Nat
    OBVIOUS
  <2> HIDE DEF Bad
  <2> QED BY <2>1, <1>1, WFMin, NatLessThanWellFounded
<1>3. n \in Nat /\ n # 0 /\ n - 1 \in Nat /\ n - 1 < n
  OBVIOUS
<1>4. n - 1 \in Bad
  <2>1. (n - 1) + 1 = n
    BY <1>3
  <2> QED BY <1>3, <2>1
<1>5. <<n - 1, n>> \in OpToRel(<, Nat)
  BY <1>3 DEF OpToRel
<1> QED BY <1>2, <1>4, <1>5

\* A function on the naturals may be defined by its value at zero and a rule that
\* takes n and its value at n to the value at n + 1.
Steps(f, n, c, rule) ==
    /\ f \in [0 .. n -> Nat]
    /\ f[0] = c
    /\ \A i \in Nat : i < n => f[i + 1] = rule[<<i, f[i]>>]

LEMMA StepsAgree ==
  ASSUME NEW c \in Nat, NEW rule \in [Nat \X Nat -> Nat],
         NEW n \in Nat, NEW f, Steps(f, n, c, rule), NEW m \in Nat, NEW g, Steps(g, m, c, rule)
  PROVE  \A i \in Nat : i <= n /\ i <= m => f[i] = g[i]
<1> DEFINE S == {i \in Nat : i <= n /\ i <= m => f[i] = g[i]}
<1>1. 0 \in S
  BY DEF Steps
<1>2. ASSUME NEW i \in Nat, i \in S PROVE i + 1 \in S
  <2>1. SUFFICES ASSUME i + 1 <= n, i + 1 <= m PROVE f[i + 1] = g[i + 1]
    OBVIOUS
  <2>2. f[i] = g[i]
    BY <1>2, <2>1
  <2>3. i < n /\ i < m
    BY <2>1
  <2> QED BY <2>2, <2>3 DEF Steps
<1>3. Nat \subseteq S
  <2> HIDE DEF S
  <2> QED BY <1>1, <1>2, NatSetInduction
<1> QED BY <1>3

LEMMA StepsExist ==
  ASSUME NEW c \in Nat, NEW rule \in [Nat \X Nat -> Nat]
  PROVE  \A n \in Nat : \E f : Steps(f, n, c, rule)
<1> DEFINE S == {n \in Nat : \E f : Steps(f, n, c, rule)}
<1>1. 0 \in S
  <2>1. Steps([i \in 0 .. 0 |-> c], 0, c, rule)
    BY DEF Steps
  <2> QED BY <2>1
<1>2. ASSUME NEW n \in Nat, n \in S PROVE n + 1 \in S
  <2>1. PICK f : Steps(f, n, c, rule)
    BY <1>2
  <2>2. PICK d \in Nat : d = rule[<<n, f[n]>>]
    <3>1. n \in 0 .. n /\ f[n] \in Nat
      BY <2>1 DEF Steps
    <3> QED BY <3>1
  <2> DEFINE g == [i \in 0 .. n + 1 |-> IF i = n + 1 THEN d ELSE f[i]]
  <2>3. \A i \in 0 .. n : g[i] = f[i]
    OBVIOUS
  <2>4. g[n + 1] = d
    OBVIOUS
  <2>5. g \in [0 .. n + 1 -> Nat]
    BY <2>1 DEF Steps
  <2>6. g[0] = c
    BY <2>1, <2>3 DEF Steps
  <2>7. ASSUME NEW i \in Nat, i < n + 1 PROVE g[i + 1] = rule[<<i, g[i]>>]
    <3>1. CASE i = n
      <4>1. i + 1 = n + 1 /\ n \in 0 .. n
        BY <3>1
      <4> HIDE DEF g
      <4> QED BY <3>1, <4>1, <2>2, <2>3, <2>4
    <3>2. CASE i # n
      <4>1. i < n /\ i \in 0 .. n /\ i + 1 \in 0 .. n
        BY <2>7, <3>2
      <4>2. f[i + 1] = rule[<<i, f[i]>>]
        BY <4>1, <2>1 DEF Steps
      <4> HIDE DEF g
      <4> QED BY <4>1, <4>2, <2>3
    <3> QED BY <3>1, <3>2
  <2> HIDE DEF g
  <2>8. Steps(g, n + 1, c, rule)
    BY <2>5, <2>6, <2>7 DEF Steps
  <2> QED BY <2>8
<1>3. Nat \subseteq S
  <2> HIDE DEF S
  <2> QED BY <1>1, <1>2, NatSetInduction
<1> QED BY <1>3

LEMMA NatRecursion ==
  ASSUME NEW c \in Nat, NEW rule \in [Nat \X Nat -> Nat]
  PROVE  \E h \in [Nat -> Nat] : h[0] = c /\ \A n \in Nat : h[n + 1] = rule[<<n, h[n]>>]
<1> DEFINE F(n) == CHOOSE f : Steps(f, n, c, rule)
           h == [n \in Nat |-> F(n)[n]]
<1>1. ASSUME NEW n \in Nat PROVE Steps(F(n), n, c, rule)
  BY StepsExist
<1>2. ASSUME NEW n \in Nat PROVE h[n] = F(n)[n] /\ h[n] \in Nat
  <2>1. n \in 0 .. n
    OBVIOUS
  <2> QED BY <1>1, <2>1 DEF Steps
<1>3. h[0] = c
  <2>1. Steps(F(0), 0, c, rule) /\ h[0] = F(0)[0]
    BY <1>1, <1>2
  <2> HIDE DEF h, F
  <2> QED BY <2>1 DEF Steps
<1>4. ASSUME NEW n \in Nat PROVE h[n + 1] = rule[<<n, h[n]>>]
  <2>1. Steps(F(n + 1), n + 1, c, rule) /\ Steps(F(n), n, c, rule)
    BY <1>1
  <2>2. F(n + 1)[n] = F(n)[n]
    <3>1. n + 1 \in Nat /\ n <= n + 1 /\ n <= n
      OBVIOUS
    <3> HIDE DEF F
    <3>2. \A i \in Nat : i <= n + 1 /\ i <= n => F(n + 1)[i] = F(n)[i]
      BY <2>1, <3>1, StepsAgree
    <3> QED BY <3>1, <3>2
  <2>3. F(n + 1)[n + 1] = rule[<<n, F(n + 1)[n]>>]
    <3>1. n < n + 1
      OBVIOUS
    <3> HIDE DEF F
    <3> QED BY <2>1, <3>1 DEF Steps
  <2>4. h[n + 1] = F(n + 1)[n + 1] /\ h[n] = F(n)[n]
    OBVIOUS
  <2> HIDE DEF h, F
  <2> QED BY <2>2, <2>3, <2>4
<1>5. h \in [Nat -> Nat]
  BY <1>2
<1> HIDE DEF h
<1> QED BY <1>3, <1>4, <1>5

(***************************************************************************)
(* The factorial of the library, and its binomial coefficients.              *)
(***************************************************************************)
LEMMA FactorialDef ==
  /\ factorial \in [Nat -> Nat]
  /\ factorial[0] = 1
  /\ \A n \in Nat : factorial[n + 1] = (n + 1) * factorial[n]
<1> DEFINE rule == [p \in Nat \X Nat |-> (p[1] + 1) * p[2]]
<1>1. rule \in [Nat \X Nat -> Nat]
  OBVIOUS
<1>2. \A n \in Nat, v \in Nat : rule[<<n, v>>] = (n + 1) * v
  OBVIOUS
<1> HIDE DEF rule
<1>3. PICK h \in [Nat -> Nat] : h[0] = 1 /\ \A n \in Nat : h[n + 1] = rule[<<n, h[n]>>]
  <2>1. 1 \in Nat
    OBVIOUS
  <2> QED BY <1>1, <2>1, NatRecursion, Zenon
<1>4. h = [n \in Nat |-> IF n = 0 THEN 1 ELSE n * h[n - 1]]
  <2>1. ASSUME NEW n \in Nat PROVE h[n] = IF n = 0 THEN 1 ELSE n * h[n - 1]
    <3>1. CASE n = 0
      BY <3>1, <1>3
    <3>2. CASE n # 0
      <4>1. n - 1 \in Nat /\ (n - 1) + 1 = n
        BY <3>2
      <4>2. h[(n - 1) + 1] = ((n - 1) + 1) * h[n - 1]
        BY <4>1, <1>2, <1>3
      <4> QED BY <4>1, <4>2, <3>2
    <3> QED BY <3>1, <3>2
  <2>2. h = [n \in Nat |-> h[n]]
    OBVIOUS
  <2> QED BY <2>1, <2>2
<1>5. factorial = [n \in Nat |-> IF n = 0 THEN 1 ELSE n * factorial[n - 1]]
  BY <1>4 DEF factorial
<1>6. ASSUME NEW n \in Nat PROVE factorial[n] = IF n = 0 THEN 1 ELSE n * factorial[n - 1]
  BY <1>5
<1>7. factorial[0] = 1
  BY <1>6
<1>8. ASSUME NEW n \in Nat PROVE factorial[n + 1] = (n + 1) * factorial[n]
  <2>1. n + 1 \in Nat /\ n + 1 # 0 /\ (n + 1) - 1 = n
    OBVIOUS
  <2> QED BY <1>6, <2>1
<1> DEFINE S == {n \in Nat : factorial[n] \in Nat}
<1>9. 0 \in S
  BY <1>7
<1>10. ASSUME NEW n \in Nat, n \in S PROVE n + 1 \in S
  BY <1>8, <1>10
<1>11. Nat \subseteq S
  <2> HIDE DEF S
  <2> QED BY <1>9, <1>10, NatSetInduction
<1>12. factorial \in [Nat -> Nat]
  <2>1. \A n \in Nat : factorial[n] \in Nat
    BY <1>11
  <2> QED BY <2>1, <1>5
<1> QED BY <1>7, <1>8, <1>12

LEMMA FactorialPositive == \A n \in Nat : factorial[n] \in Nat \ {0}
<1> DEFINE S == {n \in Nat : factorial[n] \in Nat \ {0}}
<1>1. 0 \in S
  BY FactorialDef
<1>2. ASSUME NEW n \in Nat, n \in S PROVE n + 1 \in S
  <2>1. PICK c \in Nat \ {0} : c = factorial[n]
    BY <1>2
  <2>2. (n + 1) * c \in Nat \ {0}
    OBVIOUS
  <2>3. factorial[n + 1] = (n + 1) * c
    BY <2>1, FactorialDef
  <2> QED BY <2>2, <2>3
<1>3. Nat \subseteq S
  <2> HIDE DEF S
  <2> QED BY <1>1, <1>2, NatSetInduction
<1> QED BY <1>3

\* q lattice paths lead from the origin to (a, b).
PathsOf(q, a, b) == q \in Nat /\ factorial[a + b] = q * (factorial[a] * factorial[b])

LEMMA PathsOfEdge ==
  ASSUME NEW a \in Nat
  PROVE  PathsOf(1, a, 0) /\ PathsOf(1, 0, a)
<1>1. PICK c \in Nat : c = factorial[a]
  BY FactorialPositive
<1>2. a + 0 = a /\ 0 + a = a
  OBVIOUS
<1>3. factorial[0] = 1
  BY FactorialDef
<1> QED BY <1>1, <1>2, <1>3 DEF PathsOf

\* The arithmetic of Pascal's rule.
LEMMA PascalArithmetic ==
  ASSUME NEW a \in Nat, NEW b \in Nat, NEW x \in Nat, NEW y \in Nat, NEW c \in Nat,
         NEW q \in Nat, NEW p \in Nat, c = q * (x * (b * y)), c = p * ((a * x) * y)
  PROVE  (a + b) * c = (q + p) * ((a * x) * (b * y))
<1>1. a * c = q * ((a * x) * (b * y))
  <2>1. a * (q * (x * (b * y))) = q * ((a * x) * (b * y))
    OBVIOUS
  <2> QED BY <2>1
<1>2. b * c = p * ((a * x) * (b * y))
  <2>1. b * (p * ((a * x) * y)) = p * ((a * x) * (b * y))
    OBVIOUS
  <2> QED BY <2>1
<1>3. (a + b) * c = a * c + b * c
  OBVIOUS
<1>4. PICK d \in Nat : d = (a * x) * (b * y)
  OBVIOUS
<1>5. (q + p) * d = q * d + p * d
  OBVIOUS
<1>6. a * c = q * d /\ b * c = p * d
  BY <1>1, <1>2, <1>4
<1>7. (a + b) * c = (q + p) * d
  BY <1>3, <1>5, <1>6
<1> QED BY <1>4, <1>7

LEMMA PathsOfSum ==
  ASSUME NEW a \in Nat, NEW b \in Nat, NEW q, NEW p,
         PathsOf(q, a, b + 1), PathsOf(p, a + 1, b)
  PROVE  PathsOf(q + p, a + 1, b + 1)
<1>1. PICK x \in Nat : x = factorial[a]
  BY FactorialPositive
<1>2. PICK y \in Nat : y = factorial[b]
  BY FactorialPositive
<1>3. PICK c \in Nat : c = factorial[(a + b) + 1]
  BY FactorialPositive
<1>4. factorial[a + 1] = (a + 1) * x /\ factorial[b + 1] = (b + 1) * y
  BY <1>1, <1>2, FactorialDef
<1>5. a + (b + 1) = (a + b) + 1 /\ (a + 1) + b = (a + b) + 1 /\ (a + b) + 1 \in Nat
      /\ (a + 1) + (b + 1) = ((a + b) + 1) + 1
  OBVIOUS
<1>6. factorial[((a + b) + 1) + 1] = (((a + b) + 1) + 1) * c
  BY <1>3, <1>5, FactorialDef
<1>7. q \in Nat /\ c = q * (x * ((b + 1) * y))
  BY <1>1, <1>3, <1>4, <1>5 DEF PathsOf
<1>8. p \in Nat /\ c = p * (((a + 1) * x) * y)
  BY <1>2, <1>3, <1>4, <1>5 DEF PathsOf
<1>9. ((a + 1) + (b + 1)) * c = (q + p) * (((a + 1) * x) * ((b + 1) * y))
  <2>1. a + 1 \in Nat /\ b + 1 \in Nat
    OBVIOUS
  <2> QED BY <1>7, <1>8, <2>1, PascalArithmetic
<1>10. factorial[(a + 1) + (b + 1)] = ((a + 1) + (b + 1)) * c
  BY <1>5, <1>6
<1>11. q + p \in Nat
  BY <1>7, <1>8
<1> QED BY <1>4, <1>9, <1>10, <1>11 DEF PathsOf

LEMMA PathsExist == \A n \in Nat : \A a, b \in Nat : a + b = n => \E q : PathsOf(q, a, b)
<1> DEFINE S == {n \in Nat : \A a, b \in Nat : a + b = n => \E q : PathsOf(q, a, b)}
<1>1. 0 \in S
  <2>1. \A a, b \in Nat : a + b = 0 => a = 0 /\ b = 0
    OBVIOUS
  <2> QED BY <2>1, PathsOfEdge
<1>2. ASSUME NEW n \in Nat, n \in S PROVE n + 1 \in S
  <2>1. SUFFICES ASSUME NEW a \in Nat, NEW b \in Nat, a + b = n + 1
                 PROVE  \E q : PathsOf(q, a, b)
    OBVIOUS
  <2>2. CASE a = 0 \/ b = 0
    BY <2>2, PathsOfEdge
  <2>3. CASE a # 0 /\ b # 0
    <3>1. PICK i \in Nat : i + 1 = a
      <4>1. a - 1 \in Nat /\ (a - 1) + 1 = a
        BY <2>3
      <4> QED BY <4>1
    <3>2. PICK j \in Nat : j + 1 = b
      <4>1. b - 1 \in Nat /\ (b - 1) + 1 = b
        BY <2>3
      <4> QED BY <4>1
    <3>3. i + b = n /\ a + j = n
      BY <2>1, <3>1, <3>2
    <3>4. PICK q : PathsOf(q, i, b)
      BY <1>2, <3>3
    <3>5. PICK p : PathsOf(p, a, j)
      BY <1>2, <3>3
    <3>6. PathsOf(q + p, a, b)
      BY <3>1, <3>2, <3>4, <3>5, PathsOfSum
    <3> QED BY <3>6
  <2> QED BY <2>2, <2>3
<1>3. Nat \subseteq S
  <2> HIDE DEF S
  <2> QED BY <1>1, <1>2, NatSetInduction
<1> QED BY <1>3

LEMMA DivideProduct ==
  ASSUME NEW q \in Nat, NEW d \in Nat \ {0}
  PROVE  (q * d) \div d = q
  OBVIOUS

LEMMA PathsAreChoices ==
  ASSUME NEW a \in Nat, NEW b \in Nat, NEW q, PathsOf(q, a, b)
  PROVE  choose(a + b, a) = q
<1>1. PICK x \in Nat \ {0} : x = factorial[a]
  BY FactorialPositive
<1>2. PICK y \in Nat \ {0} : y = factorial[b]
  BY FactorialPositive
<1>3. PICK d \in Nat \ {0} : d = x * y
  <2>1. x * y \in Nat \ {0}
    OBVIOUS
  <2> QED BY <2>1
<1>4. (a + b) - a = b
  OBVIOUS
<1>5. choose(a + b, a) = factorial[a + b] \div d
  BY <1>1, <1>2, <1>3, <1>4 DEF choose
<1>6. q \in Nat /\ factorial[a + b] = q * d
  BY <1>1, <1>2, <1>3 DEF PathsOf
<1> QED BY <1>5, <1>6, DivideProduct

\* The library's choose obeys Pascal's rule.
LEMMA ChooseRule ==
  ASSUME NEW a \in Nat, NEW b \in Nat
  PROVE  /\ choose(a + b, a) \in Nat
         /\ choose(a + 0, a) = 1 /\ choose(0 + b, 0) = 1
         /\ choose((a + 1) + (b + 1), a + 1)
              = choose(a + (b + 1), a) + choose((a + 1) + b, a + 1)
<1>1. PICK q : PathsOf(q, a, b + 1)
  <2>1. b + 1 \in Nat /\ a + (b + 1) \in Nat
    OBVIOUS
  <2> QED BY <2>1, PathsExist
<1>2. PICK p : PathsOf(p, a + 1, b)
  <2>1. a + 1 \in Nat /\ (a + 1) + b \in Nat
    OBVIOUS
  <2> QED BY <2>1, PathsExist
<1>3. PICK s : PathsOf(s, a, b)
  <2>1. a + b \in Nat
    OBVIOUS
  <2> QED BY <2>1, PathsExist
<1>4. a + 1 \in Nat /\ b + 1 \in Nat
  OBVIOUS
<1>5. choose(a + b, a) = s /\ s \in Nat
  BY <1>3, PathsAreChoices DEF PathsOf
<1>6. choose(a + 0, a) = 1 /\ choose(0 + b, 0) = 1
  BY PathsOfEdge, PathsAreChoices
<1>7. choose((a + 1) + (b + 1), a + 1) = q + p
  BY <1>1, <1>2, <1>4, PathsOfSum, PathsAreChoices
<1>8. choose(a + (b + 1), a) = q /\ choose((a + 1) + b, a + 1) = p
  BY <1>1, <1>2, <1>4, PathsAreChoices
<1> QED BY <1>5, <1>6, <1>7, <1>8

(***************************************************************************)
(* How much room there is for guesses: multisets, and their sums.            *)
(***************************************************************************)
\* The number of multisets of t elements over m values.
Ways(m, t) == IF m = 0 THEN (IF t = 0 THEN 1 ELSE 0) ELSE choose((m - 1) + t, m - 1)

LEMMA WaysRule ==
  ASSUME NEW m \in Nat, NEW t \in Nat
  PROVE  /\ Ways(m, t) \in Nat /\ Ways(m, 0) = 1 /\ Ways(0, t + 1) = 0
         /\ Ways(m + 1, t + 1) = Ways(m, t + 1) + Ways(m + 1, t)
<1>1. ASSUME NEW i \in Nat, NEW j \in Nat PROVE Ways(i + 1, j) = choose(i + j, i)
  <2>1. i + 1 # 0 /\ (i + 1) - 1 = i
    OBVIOUS
  <2> QED BY <2>1 DEF Ways
<1>2. Ways(0, t + 1) = 0 /\ Ways(0, 0) = 1 /\ Ways(0, t) \in Nat
  BY DEF Ways
<1>3. CASE m = 0
  <2>1. Ways(1, t + 1) = choose(0 + (t + 1), 0) /\ Ways(1, t) = choose(0 + t, 0)
    BY <1>1
  <2>2. choose(0 + (t + 1), 0) = 1 /\ choose(0 + t, 0) = 1
    BY ChooseRule
  <2> QED BY <1>2, <1>3, <2>1, <2>2
<1>4. CASE m # 0
  <2>1. PICK i \in Nat : i + 1 = m
    <3>1. m - 1 \in Nat /\ (m - 1) + 1 = m
      BY <1>4
    <3> QED BY <3>1
  <2>2. Ways(m, t) = choose(i + t, i) /\ Ways(m, 0) = choose(i + 0, i)
        /\ Ways(m, t + 1) = choose(i + (t + 1), i)
    <3>1. t + 1 \in Nat /\ 0 \in Nat
      OBVIOUS
    <3> QED BY <1>1, <2>1, <3>1, Zenon
  <2>3. Ways(m + 1, t + 1) = choose((i + 1) + (t + 1), i + 1)
        /\ Ways(m + 1, t) = choose((i + 1) + t, i + 1)
    BY <1>1, <2>1
  <2> QED BY <1>2, <2>2, <2>3, ChooseRule
<1> QED BY <1>3, <1>4

LEMMA WaysNat == \A m, t \in Nat : Ways(m, t) \in Nat
  BY WaysRule

LEMMA WaysMonotone ==
  ASSUME NEW t \in Nat
  PROVE  \A m, p \in Nat : m <= p => Ways(m, t) <= Ways(p, t)
<1>1. ASSUME NEW i \in Nat PROVE Ways(i, t) <= Ways(i + 1, t)
  <2>1. CASE t = 0
    <3>1. Ways(i, 0) = 1 /\ Ways(i + 1, 0) = 1
      BY WaysRule
    <3> QED BY <2>1, <3>1
  <2>2. CASE t # 0
    <3>1. PICK s \in Nat : s + 1 = t
      <4>1. t - 1 \in Nat /\ (t - 1) + 1 = t
        BY <2>2
      <4> QED BY <4>1
    <3>2. Ways(i + 1, s + 1) = Ways(i, s + 1) + Ways(i + 1, s)
      BY WaysRule
    <3>3. Ways(i, s + 1) \in Nat /\ Ways(i + 1, s) \in Nat
      <4>1. i + 1 \in Nat /\ s + 1 \in Nat
        OBVIOUS
      <4> QED BY <4>1, WaysNat
    <3> QED BY <3>1, <3>2, <3>3
  <2> QED BY <2>1, <2>2
<1>2. SUFFICES ASSUME NEW m \in Nat PROVE \A d \in Nat : Ways(m, t) <= Ways(m + d, t)
  <2>1. ASSUME NEW m \in Nat, NEW p \in Nat, m <= p PROVE p - m \in Nat /\ m + (p - m) = p
    BY <2>1
  <2> QED BY <1>2, <2>1
<1> DEFINE S == {d \in Nat : Ways(m, t) <= Ways(m + d, t)}
<1>3. 0 \in S
  <2>1. m + 0 = m /\ Ways(m, t) \in Nat
    BY WaysRule
  <2> QED BY <2>1
<1>4. ASSUME NEW d \in Nat, d \in S PROVE d + 1 \in S
  <2>1. Ways(m + d, t) <= Ways((m + d) + 1, t)
    BY <1>1
  <2>2. m + (d + 1) = (m + d) + 1
    OBVIOUS
  <2>3. Ways(m, t) \in Nat /\ Ways(m + d, t) \in Nat /\ Ways((m + d) + 1, t) \in Nat
    <3>1. m + d \in Nat /\ (m + d) + 1 \in Nat
      OBVIOUS
    <3> QED BY <3>1, WaysNat
  <2>4. Ways(m, t) <= Ways(m + d, t)
    BY <1>4
  <2>5. Ways(m, t) <= Ways((m + d) + 1, t)
    BY <2>1, <2>3, <2>4
  <2> QED BY <2>2, <2>5
<1>5. Nat \subseteq S
  <2> HIDE DEF S
  <2> QED BY <1>3, <1>4, NatSetInduction
<1> QED BY <1>5

LEMMA WaysPositive ==
  ASSUME NEW m \in Nat
  PROVE  \A t \in Nat : Ways(m + 1, t) >= 1
<1> DEFINE S == {t \in Nat : Ways(m + 1, t) >= 1}
<1>1. 0 \in S
  BY WaysRule
<1>2. ASSUME NEW t \in Nat, t \in S PROVE t + 1 \in S
  <2>1. Ways(m + 1, t + 1) = Ways(m, t + 1) + Ways(m + 1, t)
    BY WaysRule
  <2>2. Ways(m, t + 1) \in Nat /\ Ways(m + 1, t) \in Nat /\ Ways(m + 1, t) >= 1
    <3>1. m + 1 \in Nat /\ t + 1 \in Nat
      OBVIOUS
    <3> QED BY <1>2, <3>1, WaysNat
  <2> QED BY <2>1, <2>2
<1>3. Nat \subseteq S
  <2> HIDE DEF S
  <2> QED BY <1>1, <1>2, NatSetInduction
<1> QED BY <1>3

LEMMA WaysAtLeast ==
  ASSUME NEW t \in Nat
  PROVE  \A m \in Nat : Ways(m, t + 1) >= m
<1> DEFINE S == {m \in Nat : Ways(m, t + 1) >= m}
<1>1. 0 \in S
  BY WaysRule
<1>2. ASSUME NEW m \in Nat, m \in S PROVE m + 1 \in S
  <2>1. Ways(m + 1, t + 1) = Ways(m, t + 1) + Ways(m + 1, t)
    BY WaysRule
  <2>2. Ways(m, t + 1) \in Nat /\ Ways(m + 1, t) \in Nat /\ Ways(m + 1, t) >= 1
    <3>1. m + 1 \in Nat /\ t + 1 \in Nat
      OBVIOUS
    <3> QED BY WaysPositive, <3>1, WaysNat
  <2>3. Ways(m, t + 1) >= m
    BY <1>2
  <2> QED BY <2>1, <2>2, <2>3
<1>3. Nat \subseteq S
  <2> HIDE DEF S
  <2> QED BY <1>1, <1>2, NatSetInduction
<1> QED BY <1>3

\* h[n]: the multisets of L - j elements over M[j] values, for the j from 1 to n.
Totals(h, M, L) ==
    /\ h \in [Nat -> Nat] /\ h[0] = 0
    /\ \A n \in Nat : n + 1 < L => h[n + 1] = h[n] + Ways(M[n + 1], L - (n + 1))

LEMMA TotalsExist ==
  ASSUME NEW L \in Nat, NEW M \in [Nat -> Nat]
  PROVE  \E h : Totals(h, M, L)
<1> DEFINE add == [n \in Nat |-> IF n + 1 < L THEN Ways(M[n + 1], L - (n + 1)) ELSE 0]
           rule == [p \in Nat \X Nat |-> p[2] + add[p[1]]]
<1>1. ASSUME NEW n \in Nat
      PROVE  add[n] \in Nat /\ (n + 1 < L => add[n] = Ways(M[n + 1], L - (n + 1)))
  <2>1. n + 1 \in Nat /\ M[n + 1] \in Nat
    OBVIOUS
  <2>2. n + 1 < L => L - (n + 1) \in Nat
    OBVIOUS
  <2>3. n + 1 < L => Ways(M[n + 1], L - (n + 1)) \in Nat
    BY <2>1, <2>2, WaysRule
  <2> QED BY <2>3
<1> HIDE DEF add
<1>2. rule \in [Nat \X Nat -> Nat]
  BY <1>1
<1>3. \A n \in Nat, v \in Nat : rule[<<n, v>>] = v + add[n]
  OBVIOUS
<1> HIDE DEF rule
<1>4. PICK h \in [Nat -> Nat] : h[0] = 0 /\ \A n \in Nat : h[n + 1] = rule[<<n, h[n]>>]
  <2>1. 0 \in Nat
    OBVIOUS
  <2> QED BY <1>2, <2>1, NatRecursion, Zenon
<1>5. ASSUME NEW n \in Nat, n + 1 < L PROVE h[n + 1] = h[n] + Ways(M[n + 1], L - (n + 1))
  <2>1. h[n + 1] = h[n] + add[n]
    BY <1>3, <1>4
  <2> QED BY <1>1, <1>5, <2>1
<1> QED BY <1>4, <1>5 DEF Totals

\* One step of a sum.
LEMMA TotalsStep ==
  ASSUME NEW L \in Nat, NEW M \in [Nat -> Nat], NEW h, Totals(h, M, L)
  PROVE  \A n \in Nat : n + 1 < L =>
            /\ h[n] \in Nat /\ h[n + 1] \in Nat /\ M[n + 1] \in Nat /\ L - (n + 1) \in Nat
            /\ Ways(M[n + 1], L - (n + 1)) \in Nat
            /\ h[n + 1] = h[n] + Ways(M[n + 1], L - (n + 1))
<1> SUFFICES ASSUME NEW n \in Nat, n + 1 < L
             PROVE  /\ h[n] \in Nat /\ h[n + 1] \in Nat /\ M[n + 1] \in Nat
                    /\ L - (n + 1) \in Nat /\ Ways(M[n + 1], L - (n + 1)) \in Nat
                    /\ h[n + 1] = h[n] + Ways(M[n + 1], L - (n + 1))
  OBVIOUS
<1>1. L - (n + 1) \in Nat /\ M[n + 1] \in Nat /\ h[n] \in Nat /\ h[n + 1] \in Nat
  BY DEF Totals
<1>2. h[n + 1] = h[n] + Ways(M[n + 1], L - (n + 1))
  BY DEF Totals
<1>3. Ways(M[n + 1], L - (n + 1)) \in Nat
  BY <1>1, WaysNat
<1> QED BY <1>1, <1>2, <1>3

\* The sums grow by one at least when M rises up to v + 1, by one there, whatever
\* happens to it beyond v + 1.
LEMMA TotalsRise ==
  ASSUME NEW L \in Nat, NEW M \in [Nat -> Nat], NEW N \in [Nat -> Nat],
         NEW h, Totals(h, M, L), NEW k, Totals(k, N, L)
  PROVE  \A v \in Nat :
            /\ v + 1 < L
            /\ \A j \in Nat : j <= v => M[j] <= N[j]
            /\ M[v + 1] + 1 <= N[v + 1]
            /\ \A j \in Nat : v + 1 <= j => M[j] <= M[v + 1]
            => h[L - 1] + 1 <= k[L - 1]
<1>a. \A n \in Nat : n + 1 < L =>
            /\ h[n] \in Nat /\ h[n + 1] \in Nat /\ M[n + 1] \in Nat /\ L - (n + 1) \in Nat
            /\ Ways(M[n + 1], L - (n + 1)) \in Nat
            /\ h[n + 1] = h[n] + Ways(M[n + 1], L - (n + 1))
  BY SMTT(30), TotalsStep
<1>b. \A n \in Nat : n + 1 < L =>
            /\ k[n] \in Nat /\ k[n + 1] \in Nat /\ N[n + 1] \in Nat /\ L - (n + 1) \in Nat
            /\ Ways(N[n + 1], L - (n + 1)) \in Nat
            /\ k[n + 1] = k[n] + Ways(N[n + 1], L - (n + 1))
  <2>1. \A n \in Nat : n + 1 < L => k[n + 1] = k[n] + Ways(N[n + 1], L - (n + 1))
    BY DEF Totals
  <2>2. \A n \in Nat : k[n] \in Nat /\ k[n + 1] \in Nat /\ N[n + 1] \in Nat
    BY DEF Totals
  <2>3. \A n \in Nat : n + 1 < L => L - (n + 1) \in Nat
    OBVIOUS
  <2>4. \A n \in Nat : n + 1 < L => Ways(N[n + 1], L - (n + 1)) \in Nat
    BY <2>2, <2>3, WaysNat
  <2> QED BY <2>1, <2>2, <2>3, <2>4
<1> SUFFICES ASSUME NEW v \in Nat, v + 1 < L,
                    \A j \in Nat : j <= v => M[j] <= N[j],
                    M[v + 1] + 1 <= N[v + 1],
                    \A j \in Nat : v + 1 <= j => M[j] <= M[v + 1]
             PROVE  h[L - 1] + 1 <= k[L - 1]
  OBVIOUS
<1> DEFINE m == M[v + 1]
           S == {n \in Nat : n <= v => h[n] <= k[n]}
<1>1. 0 \in S
  BY DEF Totals
<1>2. ASSUME NEW n \in Nat, n \in S PROVE n + 1 \in S
  <2>1. SUFFICES ASSUME n + 1 <= v PROVE h[n + 1] <= k[n + 1]
    OBVIOUS
  <2>2. n + 1 < L /\ n + 1 \in Nat /\ M[n + 1] <= N[n + 1] /\ h[n] <= k[n]
    BY <1>2, <2>1
  <2>3. /\ h[n] \in Nat /\ M[n + 1] \in Nat /\ L - (n + 1) \in Nat
        /\ Ways(M[n + 1], L - (n + 1)) \in Nat
        /\ h[n + 1] = h[n] + Ways(M[n + 1], L - (n + 1))
    BY <2>2, <1>a
  <2>4. /\ k[n] \in Nat /\ N[n + 1] \in Nat
        /\ Ways(N[n + 1], L - (n + 1)) \in Nat
        /\ k[n + 1] = k[n] + Ways(N[n + 1], L - (n + 1))
    BY <2>2, <1>b
  <2>5. Ways(M[n + 1], L - (n + 1)) <= Ways(N[n + 1], L - (n + 1))
    BY <2>2, <2>3, <2>4, WaysMonotone
  <2> QED BY <2>2, <2>3, <2>4, <2>5
<1>3. Nat \subseteq S
  <2> HIDE DEF S
  <2> QED BY <1>1, <1>2, NatSetInduction
<1>4. h[v] <= k[v] /\ m \in Nat
  BY <1>3
<1> HIDE DEF S, m
<1> DEFINE R == {d \in Nat : (v + 1) + d < L =>
                    h[(v + 1) + d] + Ways(m + 1, (L - ((v + 1) + d)) - 1) <= k[(v + 1) + d]}
<1>5. 0 \in R
  <2>1. /\ h[v] \in Nat /\ L - (v + 1) \in Nat
        /\ h[v + 1] = h[v] + Ways(m, L - (v + 1))
    BY <1>a DEF m
  <2>2. /\ k[v] \in Nat /\ N[v + 1] \in Nat
        /\ k[v + 1] = k[v] + Ways(N[v + 1], L - (v + 1))
    BY <1>b
  <2>3. PICK t \in Nat : t = (L - (v + 1)) - 1
    <3>1. (L - (v + 1)) - 1 \in Nat
      OBVIOUS
    <3> QED BY <3>1
  <2>4. L - (v + 1) = t + 1
    BY <2>3
  <2>5. m + 1 \in Nat /\ t + 1 \in Nat /\ m + 1 <= N[v + 1]
    BY <1>4 DEF m
  <2>6. Ways(m + 1, t + 1) <= Ways(N[v + 1], t + 1)
    BY <2>2, <2>5, WaysMonotone
  <2>7. Ways(m + 1, t + 1) = Ways(m, t + 1) + Ways(m + 1, t)
    BY <1>4, WaysRule
  <2>8. Ways(m, t + 1) \in Nat /\ Ways(m + 1, t) \in Nat /\ Ways(N[v + 1], t + 1) \in Nat
    BY <1>4, <2>2, <2>5, WaysNat
  <2>9. h[v + 1] = h[v] + Ways(m, t + 1) /\ k[v + 1] = k[v] + Ways(N[v + 1], t + 1)
    BY <2>1, <2>2, <2>4
  <2>10. h[v + 1] + Ways(m + 1, t) <= k[v + 1]
    BY <1>4, <2>1, <2>2, <2>6, <2>7, <2>8, <2>9
  <2>11. (v + 1) + 0 = v + 1
    OBVIOUS
  <2> QED BY <2>3, <2>10, <2>11
<1>6. ASSUME NEW d \in Nat, d \in R PROVE d + 1 \in R
  <2>1. PICK n \in Nat : n = (v + 1) + d
    OBVIOUS
  <2>2. (v + 1) + (d + 1) = n + 1 /\ v + 1 <= n + 1 /\ n + 1 \in Nat
    BY <2>1
  <2>3. SUFFICES ASSUME n + 1 < L
                 PROVE  h[n + 1] + Ways(m + 1, (L - (n + 1)) - 1) <= k[n + 1]
    BY <2>2
  <2>4. n < L
    BY <2>3
  <2>5. h[n] + Ways(m + 1, (L - n) - 1) <= k[n]
    BY <1>6, <2>1, <2>4
  <2>6. PICK t \in Nat : t = (L - (n + 1)) - 1
    <3>1. (L - (n + 1)) - 1 \in Nat
      BY <2>3
    <3> QED BY <3>1
  <2>7. (L - n) - 1 = t + 1 /\ L - (n + 1) = t + 1
    BY <2>6
  <2>8. /\ h[n] \in Nat /\ M[n + 1] \in Nat
        /\ h[n + 1] = h[n] + Ways(M[n + 1], L - (n + 1))
    BY <2>3, <1>a
  <2>9. /\ k[n] \in Nat /\ k[n + 1] \in Nat
        /\ Ways(N[n + 1], L - (n + 1)) \in Nat
        /\ k[n + 1] = k[n] + Ways(N[n + 1], L - (n + 1))
    BY <2>3, <1>b
  <2>10. M[n + 1] <= m
    BY <2>2 DEF m
  <2>11. t + 1 \in Nat /\ m + 1 \in Nat
    BY <1>4
  <2>12. Ways(M[n + 1], t + 1) <= Ways(m, t + 1)
    BY <1>4, <2>8, <2>10, <2>11, WaysMonotone
  <2>13. Ways(m + 1, t + 1) = Ways(m, t + 1) + Ways(m + 1, t)
    BY <1>4, WaysRule
  <2>14. Ways(m, t + 1) \in Nat /\ Ways(m + 1, t) \in Nat /\ Ways(M[n + 1], t + 1) \in Nat
    BY <1>4, <2>8, <2>11, WaysNat
  <2>15. h[n + 1] = h[n] + Ways(M[n + 1], t + 1)
    BY <2>7, <2>8
  <2>16. h[n] + Ways(m + 1, t + 1) <= k[n]
    BY <2>5, <2>7
  <2>17. k[n] <= k[n + 1]
    BY <2>9
  <2>18. h[n + 1] + Ways(m + 1, t) <= k[n + 1]
    BY <2>8, <2>9, <2>12, <2>13, <2>14, <2>15, <2>16, <2>17
  <2> QED BY <2>6, <2>18
<1>7. Nat \subseteq R
  <2> HIDE DEF R
  <2> QED BY <1>5, <1>6, NatSetInduction
<1>8. PICK d \in Nat : (v + 1) + d = L - 1
  <2>1. (L - 1) - (v + 1) \in Nat /\ (v + 1) + ((L - 1) - (v + 1)) = L - 1
    OBVIOUS
  <2> QED BY <2>1
<1>9. L - 1 < L /\ (L - (L - 1)) - 1 = 0
  OBVIOUS
<1>10. h[L - 1] + Ways(m + 1, 0) <= k[L - 1]
  BY <1>7, <1>8, <1>9
<1>11. Ways(m + 1, 0) = 1
  BY <1>4, WaysRule
<1> QED BY <1>10, <1>11

\* What the sums are when M is at most c everywhere.
LEMMA TotalsTop ==
  ASSUME NEW L \in Nat \ {0}, NEW M \in [Nat -> Nat], NEW c \in Nat,
         \A j \in Nat : M[j] <= c, NEW h, Totals(h, M, L)
  PROVE  h[L - 1] \in Nat /\ h[L - 1] + 1 <= Ways(c + 1, L - 1)
<1> DEFINE S == {n \in Nat : n < L =>
                    h[n] + Ways(c + 1, (L - 1) - n) <= Ways(c + 1, L - 1)}
<1>0. c + 1 \in Nat /\ L - 1 \in Nat
  OBVIOUS
<1>1. 0 \in S
  <2>1. h[0] = 0 /\ (L - 1) - 0 = L - 1
    BY DEF Totals
  <2>2. Ways(c + 1, L - 1) \in Nat
    BY <1>0, WaysNat
  <2> QED BY <2>1, <2>2
<1>2. ASSUME NEW n \in Nat, n \in S PROVE n + 1 \in S
  <2>1. SUFFICES ASSUME n + 1 < L
                 PROVE  h[n + 1] + Ways(c + 1, (L - 1) - (n + 1)) <= Ways(c + 1, L - 1)
    OBVIOUS
  <2>2. h[n] + Ways(c + 1, (L - 1) - n) <= Ways(c + 1, L - 1)
    BY <1>2, <2>1
  <2>3. PICK t \in Nat : t = (L - 1) - (n + 1)
    <3>1. (L - 1) - (n + 1) \in Nat
      BY <2>1
    <3> QED BY <3>1
  <2>4. (L - 1) - n = t + 1 /\ L - (n + 1) = t + 1 /\ t + 1 \in Nat
    BY <2>3
  <2>5. h[n] \in Nat /\ M[n + 1] \in Nat /\ h[n + 1] = h[n] + Ways(M[n + 1], L - (n + 1))
    BY <2>1, TotalsStep
  <2>6. M[n + 1] <= c
    OBVIOUS
  <2>7. Ways(M[n + 1], t + 1) <= Ways(c, t + 1)
    BY <2>4, <2>5, <2>6, WaysMonotone
  <2>8. Ways(c + 1, t + 1) = Ways(c, t + 1) + Ways(c + 1, t)
    BY WaysRule
  <2>9. Ways(c, t + 1) \in Nat /\ Ways(c + 1, t) \in Nat /\ Ways(M[n + 1], t + 1) \in Nat
        /\ Ways(c + 1, L - 1) \in Nat
    BY <1>0, <2>4, <2>5, WaysNat
  <2>10. h[n] + Ways(c + 1, t + 1) <= Ways(c + 1, L - 1)
    BY <2>2, <2>4
  <2>11. h[n + 1] = h[n] + Ways(M[n + 1], t + 1)
    BY <2>4, <2>5
  <2>12. h[n + 1] + Ways(c + 1, t) <= Ways(c + 1, L - 1)
    BY <2>5, <2>7, <2>8, <2>9, <2>10, <2>11
  <2> QED BY <2>3, <2>12
<1>3. Nat \subseteq S
  <2> HIDE DEF S
  <2> QED BY <1>1, <1>2, NatSetInduction
<1>4. L - 1 < L /\ (L - 1) - (L - 1) = 0
  OBVIOUS
<1>5. h[L - 1] + Ways(c + 1, 0) <= Ways(c + 1, L - 1)
  BY <1>0, <1>3, <1>4
<1>6. Ways(c + 1, 0) = 1
  BY <1>0, WaysRule
<1>7. h[L - 1] \in Nat
  BY <1>0 DEF Totals
<1> QED BY <1>5, <1>6, <1>7

\* The first summand is a lower bound.
LEMMA TotalsFirst ==
  ASSUME NEW L \in Nat \ {0, 1}, NEW M \in [Nat -> Nat], NEW h, Totals(h, M, L)
  PROVE  M[1] <= h[L - 1]
<1> DEFINE S == {n \in Nat : n + 1 < L => M[1] <= h[n + 1]}
<1>1. 0 \in S
  <2>1. 0 + 1 = 1 /\ 1 < L
    OBVIOUS
  <2>2. h[0] = 0 /\ M[1] \in Nat /\ Ways(M[1], L - 1) \in Nat /\ h[1] = h[0] + Ways(M[1], L - 1)
    <3>1. /\ h[0] \in Nat /\ h[0 + 1] \in Nat /\ M[0 + 1] \in Nat /\ L - (0 + 1) \in Nat
          /\ Ways(M[0 + 1], L - (0 + 1)) \in Nat
          /\ h[0 + 1] = h[0] + Ways(M[0 + 1], L - (0 + 1))
      <4>1. 0 \in Nat /\ 0 + 1 < L /\ L \in Nat
        BY <2>1
      <4> QED BY <4>1, TotalsStep
    <3> QED BY <2>1, <3>1 DEF Totals
  <2>3. PICK t \in Nat : L - 1 = t + 1
    <3>1. L - 2 \in Nat /\ L - 1 = (L - 2) + 1
      OBVIOUS
    <3> QED BY <3>1
  <2>4. Ways(M[1], t + 1) >= M[1]
    BY <2>2, WaysAtLeast
  <2>5. M[1] <= h[1]
    BY <2>2, <2>3, <2>4
  <2> QED BY <2>1, <2>5
<1>2. ASSUME NEW n \in Nat, n \in S PROVE n + 1 \in S
  <2>1. SUFFICES ASSUME (n + 1) + 1 < L PROVE M[1] <= h[(n + 1) + 1]
    OBVIOUS
  <2>2. n + 1 \in Nat /\ n + 1 < L /\ M[1] <= h[n + 1] /\ M[1] \in Nat
    BY <1>2, <2>1
  <2>3. PICK w \in Nat : h[(n + 1) + 1] = h[n + 1] + w /\ h[n + 1] \in Nat
    BY <2>1, <2>2, TotalsStep
  <2> QED BY <2>2, <2>3
<1>3. Nat \subseteq S
  <2> HIDE DEF S
  <2> QED BY <1>1, <1>2, NatSetInduction
<1>4. L - 2 \in Nat /\ (L - 2) + 1 = L - 1 /\ L - 1 < L
  OBVIOUS
<1> QED BY <1>3, <1>4

LEMMA TotalsZero ==
  ASSUME NEW L \in Nat \ {0}, NEW M \in [Nat -> Nat], \A j \in Nat : M[j + 1] = 0,
         NEW h, Totals(h, M, L)
  PROVE  h[L - 1] = 0
<1> DEFINE S == {n \in Nat : n < L => h[n] = 0}
<1>1. 0 \in S
  BY DEF Totals
<1>2. ASSUME NEW n \in Nat, n \in S PROVE n + 1 \in S
  <2>1. SUFFICES ASSUME n + 1 < L PROVE h[n + 1] = 0
    OBVIOUS
  <2>2. PICK t \in Nat : L - (n + 1) = t + 1
    <3>1. L - (n + 1) - 1 \in Nat /\ L - (n + 1) = (L - (n + 1) - 1) + 1
      BY <2>1
    <3> QED BY <3>1
  <2>3. Ways(0, t + 1) = 0
    BY WaysRule
  <2>4. h[n + 1] = h[n] + Ways(0, t + 1)
    BY <2>1, <2>2, TotalsStep
  <2>5. h[n] = 0
    BY <1>2, <2>1
  <2> QED BY <2>3, <2>4, <2>5
<1>3. Nat \subseteq S
  <2> HIDE DEF S
  <2> QED BY <1>1, <1>2, NatSetInduction
<1>4. L - 1 \in Nat /\ L - 1 < L
  OBVIOUS
<1> QED BY <1>3, <1>4

(***************************************************************************)
(* The records of the lockout.                                               *)
(***************************************************************************)
RecordOK(rec) ==
    /\ rec \in [n : Nat, lock : {"none", "active", "past"}, level : Nat, old : BOOLEAN]
    /\ rec.lock = "none" => rec.n < FailLimit
    /\ rec.n = 0 => rec = NoRecord

LockInv ==
    /\ DOMAIN req = Req
    /\ DOMAIN locks = User /\ \A u \in User : RecordOK(locks[u])
    /\ guesses \in [User -> Nat]
    /\ \A r \in Req :
          /\ req[r].pc \in PasswordPcs => req[r].user \in User
          /\ req[r].pc = "write" => RecordOK(req[r].read) /\ req[r].read.lock # "active"

\* The failures that count for the next one.
Counted(rec) == IF rec.old THEN 0 ELSE rec.n

LEMMA LimitFacts == FailLimit \in Nat /\ FailLimit >= 2 /\ IsFiniteSet(Req)
  BY SessionsAssumption

LEMMA NoRecordOK == RecordOK(NoRecord)
  BY LimitFacts DEF RecordOK, NoRecord

LEMMA CountedNat == ASSUME NEW rec, RecordOK(rec) PROVE Counted(rec) \in Nat
  BY DEF RecordOK, Counted

\* What record_failure computes.
LEMMA FailedFacts ==
  ASSUME NEW rec, RecordOK(rec)
  PROVE  /\ Failed(rec) \in [n : Nat, lock : {"none", "active"}, level : Nat, old : BOOLEAN]
         /\ Failed(rec).n >= 1
         /\ Failed(rec).lock = "none" =>
               /\ Failed(rec).n = Counted(rec) + 1
               /\ Failed(rec).n < FailLimit /\ rec.lock = "none"
<1>1. rec.n \in Nat /\ rec.level \in Nat
  BY DEF RecordOK
<1>2. PICK n \in Nat : n = (IF rec.old THEN 0 ELSE rec.n) + 1 /\ n >= 1
  BY <1>1
<1>3. CASE n >= FailLimit \/ rec.lock # "none"
  <2>1. Failed(rec) = [n |-> IF rec.lock # "none" THEN 1 ELSE n,
              lock |-> "active",
              level |-> IF rec.lock # "none" /\ rec.level < 2 THEN rec.level + 1
                        ELSE IF rec.lock # "none" THEN 2 ELSE 1,
              old |-> FALSE]
    BY <1>2, <1>3 DEF Failed
  <2> QED BY <1>1, <1>2, <2>1
<1>4. CASE ~(n >= FailLimit \/ rec.lock # "none")
  <2>1. Failed(rec) = [n |-> n, lock |-> "none", level |-> rec.level, old |-> FALSE]
    BY <1>2, <1>4 DEF Failed
  <2>2. n < FailLimit /\ n = Counted(rec) + 1
    BY <1>2, <1>4, LimitFacts DEF Counted
  <2> QED BY <1>1, <1>2, <1>4, <2>1, <2>2
<1> QED BY <1>3, <1>4

\* What its commit leaves in the table.
Committed(u, read) ==
    \/ /\ ~((read = NoRecord) <=> (locks[u] = NoRecord))
       /\ locks' = locks /\ guesses' = guesses
    \/ /\ (read = NoRecord) <=> (locks[u] = NoRecord)
       /\ \E rec :
             /\ locks' = [locks EXCEPT ![u] = rec]
             /\ RecordOK(rec) /\ rec # NoRecord /\ rec.old = FALSE
             /\ \/ rec.lock = "active" /\ guesses' = [guesses EXCEPT ![u] = 0]
                \/ /\ rec.lock = locks[u].lock /\ guesses' = guesses
                   /\ rec.n >= Counted(read) + 1
                   /\ Counted(read) + 1 < FailLimit

LEMMA CommitFacts ==
  ASSUME LockInv, NEW r \in Req, RecordFailureCommit(r)
  PROVE  /\ req[r].user \in User /\ req' = [req EXCEPT ![r] = Idle]
         /\ Committed(req[r].user, req[r].read)
<1>a. PICK u : u = req[r].user
  OBVIOUS
<1>b. PICK read : read = req[r].read
  OBVIOUS
<1> DEFINE new == Failed(read)
           cur == locks[u]
           rec == [n |-> IF new.n = read.n THEN cur.n ELSE new.n,
                   lock |-> IF new.lock = "active" THEN "active" ELSE cur.lock,
                   level |-> IF new.lock = "active" THEN new.level ELSE cur.level,
                   old |-> FALSE]
<1>1. /\ req[r].pc = "write" /\ req' = [req EXCEPT ![r] = Idle]
  BY DEF RecordFailureCommit, At, Done, Goto
<1>2. u \in User /\ RecordOK(read) /\ RecordOK(cur) /\ DOMAIN locks = User
  BY <1>a, <1>b, <1>1 DEF LockInv, PasswordPcs
<1>3. ASSUME ~((read = NoRecord) <=> (cur = NoRecord)) PROVE locks' = locks /\ guesses' = guesses
  BY <1>a, <1>b, <1>3 DEF RecordFailureCommit
<1>4. ASSUME (read = NoRecord) <=> (cur = NoRecord)
      PROVE  /\ locks' = [locks EXCEPT ![u] = rec]
             /\ guesses' = IF rec.lock = "active" THEN [guesses EXCEPT ![u] = 0] ELSE guesses
  BY <1>a, <1>b, <1>4 DEF RecordFailureCommit
<1>5. ASSUME (read = NoRecord) <=> (cur = NoRecord)
      PROVE  /\ RecordOK(rec) /\ rec # NoRecord /\ rec.old = FALSE
             /\ rec.lock # "active" =>
                   /\ rec.lock = cur.lock
                   /\ rec.n >= Counted(read) + 1 /\ Counted(read) + 1 < FailLimit
  <2>1. /\ new \in [n : Nat, lock : {"none", "active"}, level : Nat, old : BOOLEAN]
        /\ new.n >= 1
        /\ new.lock = "none" => new.n = Counted(read) + 1 /\ new.n < FailLimit
    BY <1>2, FailedFacts
  <2> HIDE DEF new
  <2>2. cur.n \in Nat /\ cur.lock \in {"none", "active", "past"} /\ cur.level \in Nat
        /\ (cur.lock = "none" => cur.n < FailLimit) /\ (cur.n = 0 => cur = NoRecord)
    BY <1>2 DEF RecordOK
  <2>3. read.n \in Nat /\ (read.n # 0 => read # NoRecord)
    BY <1>2 DEF RecordOK, NoRecord
  <2>4. new.n = read.n => cur.n >= 1 /\ Counted(read) \in {0, read.n}
    BY <1>5, <2>1, <2>2, <2>3 DEF Counted
  <2>5. rec.n \in Nat /\ rec.n >= 1 /\ rec.lock \in {"none", "active", "past"}
        /\ rec.level \in Nat /\ rec.old = FALSE
    BY <2>1, <2>2, <2>4
  <2>6. rec.lock = "none" => rec.n < FailLimit
    BY <2>1, <2>2
  <2>7. RecordOK(rec) /\ rec # NoRecord
    <3>1. rec \in [n : Nat, lock : {"none", "active", "past"}, level : Nat, old : BOOLEAN]
      BY <2>5
    <3>2. rec.n # 0
      BY <2>5
    <3> QED BY <2>6, <3>1, <3>2 DEF RecordOK, NoRecord
  <2>8. new.lock = "none" => rec.n >= Counted(read) + 1 /\ Counted(read) + 1 < FailLimit
    <3>1. new.lock = "none" /\ new.n = read.n => Counted(read) = 0
      BY <2>1, <2>3, <2>4
    <3> QED BY <2>1, <2>2, <2>4, <3>1
  <2>9. new.lock # "none" => rec.lock = "active"
    BY <2>1
  <2>10. new.lock = "none" => rec.lock = cur.lock
    BY <2>1
  <2> HIDE DEF rec, cur
  <2>11. CASE new.lock = "none"
    BY <2>5, <2>7, <2>8, <2>10, <2>11
  <2>12. CASE new.lock # "none"
    BY <2>5, <2>7, <2>9, <2>12
  <2> QED BY <2>11, <2>12
<1> HIDE DEF rec, new
<1>6. Committed(u, read)
  BY <1>3, <1>4, <1>5 DEF Committed
<1> QED BY <1>a, <1>b, <1>1, <1>2, <1>6

LEMMA ElsewhereKeepsLocks ==
  ASSUME LockInv, Moved(PasswordPcs), UNCHANGED lockVars
  PROVE  LockInv'
<1>1. locks' = locks /\ guesses' = guesses /\ DOMAIN req' = Req
  BY DEF lockVars, Moved
<1>2. ASSUME NEW r \in Req
      PROVE  /\ req'[r].pc \in PasswordPcs => req'[r].user \in User
             /\ req'[r].pc = "write" => RecordOK(req'[r].read) /\ req'[r].read.lock # "active"
  BY DEF LockInv, Moved, PasswordPcs
<1> QED BY <1>1, <1>2 DEF LockInv, RecordOK

LEMMA PasswordKeepsLocks ==
  ASSUME LockInv, PasswordStep
  PROVE  LockInv'
<1> DEFINE Held(rec) == /\ rec.pc \in PasswordPcs => rec.user \in User
                        /\ rec.pc = "write" => RecordOK(rec.read) /\ rec.read.lock # "active"
<1>1. DOMAIN req = Req /\ DOMAIN locks = User /\ (\A u \in User : RecordOK(locks[u]))
      /\ guesses \in [User -> Nat] /\ \A r \in Req : Held(req[r])
  BY DEF LockInv
<1>2. ASSUME NEW r \in Req, NEW rec, Held(rec), req' = [req EXCEPT ![r] = rec],
             DOMAIN locks' = User, \A u \in User : RecordOK(locks'[u]), guesses' \in [User -> Nat]
      PROVE  LockInv'
  <2>1. DOMAIN req' = Req /\ \A q \in Req : Held(req'[q])
    BY <1>1, <1>2
  <2> QED BY <1>2, <2>1 DEF LockInv, RecordOK
<1>3. ASSUME NEW u \in User, locks' = [locks EXCEPT ![u] = NoRecord],
             guesses' = [guesses EXCEPT ![u] = 0]
      PROVE  /\ DOMAIN locks' = User /\ (\A x \in User : RecordOK(locks'[x]))
             /\ guesses' \in [User -> Nat]
  BY <1>1, <1>3, NoRecordOK
<1>4. Held(Idle)
  BY DEF Idle, PasswordPcs
<1>5. ASSUME NEW u \in User, NEW pc \in {"check", "verify", "fail", "issue"}
      PROVE  Held([pc |-> pc, user |-> u])
  BY <1>5
<1> HIDE DEF Held
<1>6. ASSUME NEW r \in Req, NEW u \in User, LoginStart(r, u) PROVE LockInv'
  BY <1>1, <1>2, <1>5, <1>6 DEF LoginStart, Begin, lockVars
<1>7. ASSUME NEW r \in Req, req[r].pc \in PasswordPcs PROVE req[r].user \in User
  BY <1>7 DEF LockInv
<1>8. ASSUME NEW r \in Req, CheckLock(r) PROVE LockInv'
  <2>1. req[r].user \in User
    BY <1>7, <1>8 DEF CheckLock, At, PasswordPcs
  <2>2. DOMAIN locks' = User /\ (\A u \in User : RecordOK(locks'[u])) /\ guesses' \in [User -> Nat]
    BY <1>1, <1>3, <1>8, <2>1 DEF CheckLock, ClearRecord, lockVars
  <2>3. \E rec : Held(rec) /\ req' = [req EXCEPT ![r] = rec]
    BY <1>4, <1>5, <1>8, <2>1 DEF CheckLock, Done, Goto
  <2> QED BY <1>2, <2>2, <2>3
<1>9. ASSUME NEW r \in Req, LoginSucceeds(r) PROVE LockInv'
  <2>1. req[r].user \in User
    BY <1>7, <1>9 DEF LoginSucceeds, At, PasswordPcs
  <2>2. DOMAIN locks' = User /\ (\A u \in User : RecordOK(locks'[u])) /\ guesses' \in [User -> Nat]
    BY <1>3, <1>9, <2>1 DEF LoginSucceeds, ClearRecord
  <2>3. \E rec : Held(rec) /\ req' = [req EXCEPT ![r] = rec]
    BY <1>5, <1>9, <2>1 DEF LoginSucceeds, Goto
  <2> QED BY <1>2, <2>2, <2>3
<1>10. ASSUME NEW r \in Req, WrongPassword(r) PROVE LockInv'
  <2>1. req[r].user \in User
    BY <1>7, <1>10 DEF WrongPassword, At, PasswordPcs
  <2>2. DOMAIN locks' = User /\ (\A u \in User : RecordOK(locks'[u])) /\ guesses' \in [User -> Nat]
    BY <1>1, <1>10, <2>1 DEF WrongPassword
  <2>3. \E rec : Held(rec) /\ req' = [req EXCEPT ![r] = rec]
    BY <1>5, <1>10, <2>1 DEF WrongPassword, Goto
  <2> QED BY <1>2, <2>2, <2>3
<1>11. ASSUME NEW r \in Req, RecordFailureRead(r) PROVE LockInv'
  <2>1. req[r].user \in User
    BY <1>7, <1>11 DEF RecordFailureRead, At, PasswordPcs
  <2>2. UNCHANGED <<locks, guesses>>
    BY <1>11 DEF RecordFailureRead, lockVars
  <2>3. \E rec : Held(rec) /\ req' = [req EXCEPT ![r] = rec]
    <3>1. locks[req[r].user].lock # "active" =>
             Held([pc |-> "write", user |-> req[r].user, read |-> locks[req[r].user]])
      BY <1>1, <2>1 DEF Held
    <3> QED BY <1>4, <1>11, <3>1 DEF RecordFailureRead, Done, Goto
  <2> QED BY <1>1, <1>2, <2>2, <2>3
<1>12. ASSUME NEW r \in Req, RecordFailureCommit(r) PROVE LockInv'
  <2>1. PICK u : u = req[r].user
    OBVIOUS
  <2>2. PICK read : read = req[r].read
    OBVIOUS
  <2>3. /\ u \in User /\ req' = [req EXCEPT ![r] = Idle]
        /\ Committed(u, read)
    BY <1>12, <2>1, <2>2, CommitFacts
  <2>4. \/ locks' = locks /\ guesses' = guesses
        \/ \E rec : /\ locks' = [locks EXCEPT ![u] = rec] /\ RecordOK(rec)
                    /\ guesses' = [guesses EXCEPT ![u] = 0] \/ guesses' = guesses
    BY <2>3 DEF Committed
  <2>5. DOMAIN locks' = User /\ (\A x \in User : RecordOK(locks'[x])) /\ guesses' \in [User -> Nat]
    BY <1>1, <2>3, <2>4
  <2> QED BY <1>2, <1>4, <2>3, <2>5
<1>13. ASSUME UNCHANGED req, DOMAIN locks' = User, \A u \in User : RecordOK(locks'[u]),
              guesses' \in [User -> Nat]
       PROVE  LockInv'
  BY <1>13 DEF LockInv, RecordOK
<1>14. ASSUME NEW u \in User, LockExpires(u) PROVE LockInv'
  <2>1. RecordOK(locks[u]) /\ locks[u].lock = "active"
        /\ locks' = [locks EXCEPT ![u] = [locks[u] EXCEPT !.lock = "past"]]
    BY <1>1, <1>14 DEF LockExpires
  <2>2. RecordOK([locks[u] EXCEPT !.lock = "past"])
    BY <2>1 DEF RecordOK, NoRecord
  <2>3. UNCHANGED <<req, guesses>>
    BY <1>14 DEF LockExpires
  <2> QED BY <1>1, <1>13, <2>1, <2>2, <2>3
<1>15. ASSUME NEW u \in User, FailureWindowPasses(u) PROVE LockInv'
  <2>1. RecordOK(locks[u]) /\ locks[u].n > 0
        /\ locks' = [locks EXCEPT ![u] = [locks[u] EXCEPT !.old = TRUE]]
    BY <1>1, <1>15 DEF FailureWindowPasses
  <2>2. RecordOK([locks[u] EXCEPT !.old = TRUE])
    <3>1. PICK rec : rec = [locks[u] EXCEPT !.old = TRUE]
      OBVIOUS
    <3>2. rec.n = locks[u].n /\ rec.lock = locks[u].lock
      BY <2>1, <3>1 DEF RecordOK
    <3>3. rec \in [n : Nat, lock : {"none", "active", "past"}, level : Nat, old : BOOLEAN]
      BY <2>1, <3>1, Zenon DEF RecordOK
    <3>4. rec.n # 0 /\ (rec.lock = "none" => rec.n < FailLimit)
      BY <2>1, <3>2 DEF RecordOK
    <3> QED BY <3>1, <3>3, <3>4 DEF RecordOK
  <2>3. UNCHANGED req /\ guesses' \in [User -> Nat]
    BY <1>1, <1>15 DEF FailureWindowPasses
  <2> QED BY <1>1, <1>13, <2>1, <2>2, <2>3
<1> QED BY <1>6, <1>8, <1>9, <1>10, <1>11, <1>12, <1>14, <1>15 DEF PasswordStep

LEMMA LockInvInit == Init => LockInv
<1> SUFFICES ASSUME Init PROVE LockInv
  OBVIOUS
<1>1. DOMAIN req = Req /\ \A r \in Req : req[r].pc = "idle"
  BY DEF Init, Idle
<1>2. locks = [u \in User |-> NoRecord] /\ guesses = [u \in User |-> 0]
  BY DEF Init, SignInInit
<1> QED BY <1>1, <1>2, NoRecordOK DEF LockInv, PasswordPcs

\* The steps that are not a password login's leave these requests and records alone.
LEMMA StepsElsewhere ==
  ASSUME ReqOK, [Next]_vars, ~PasswordStep
  PROVE  Moved(PasswordPcs) /\ UNCHANGED lockVars
<1>1. DOMAIN req = Req
  BY DEF ReqOK
<1>2. CASE SessionStep
  BY <1>2, SessionMoves DEF Moved
<1>3. CASE OidcStep
  BY <1>1, <1>3, OidcMoves DEF Moved
<1>4. CASE FactorStep /\ UNCHANGED signInVars
  BY <1>1, <1>4, FactorMoves DEF Moved, signInVars, lockVars
<1>5. CASE UNCHANGED vars
  BY <1>1, <1>5 DEF vars, signInVars, lockVars, Moved
<1> QED BY <1>2, <1>3, <1>4, <1>5 DEF Next

(***************************************************************************)
(* The bound on the guesses of one account u, in terms of the requests q and  *)
(* the account's record rec.                                                  *)
(***************************************************************************)
\* The request r has a wrong password of u that is still to be counted: its
\* commit will not fail, as the row is there or not as when it was read.
Live(q, rec, u, r) ==
    /\ q[r].pc \in {"fail", "write"} /\ q[r].user = u
    /\ q[r].pc = "write" => ((q[r].read = NoRecord) <=> (rec = NoRecord))

\* The count that the request starts from.
From(q, rec, u, r) ==
    IF Live(q, rec, u, r) /\ q[r].pc = "write" THEN Counted(q[r].read) ELSE Counted(rec)

Reach(q, rec, u, j) == {r \in Req : From(q, rec, u, r) >= j}
Spread(q, rec, u) == [j \in Nat |-> Cardinality(Reach(q, rec, u, j))]
Failing(q, rec, u) == {r \in Req : Live(q, rec, u, r)}
Verifying(q, u) == {r \in Req : q[r].pc = "verify" /\ q[r].user = u}

Bounded(q, rec, g, u) ==
    /\ rec.lock = "none" =>
          \E h : /\ Totals(h, Spread(q, rec, u), FailLimit)
                 /\ g <= h[FailLimit - 1] + Cardinality(Failing(q, rec, u))
    /\ rec.lock # "none" => g + Cardinality(Verifying(q, u)) <= Cardinality(Req)

Good(q, rec) == RecordOK(rec) /\ \A r \in Req : q[r].pc = "write" => RecordOK(q[r].read)

LEMMA PartOfReq ==
  ASSUME NEW S, S \subseteq Req
  PROVE  IsFiniteSet(S) /\ Cardinality(S) \in Nat /\ Cardinality(Req) \in Nat
         /\ Cardinality(S) <= Cardinality(Req)
<1>1. IsFiniteSet(S) /\ Cardinality(S) <= Cardinality(Req)
  BY LimitFacts, FS_Subset
<1> QED BY <1>1, LimitFacts, FS_CardinalityType

LEMMA MorePart ==
  ASSUME NEW S, NEW T, S \subseteq T, T \subseteq Req
  PROVE  Cardinality(S) <= Cardinality(T)
<1>1. IsFiniteSet(T)
  BY PartOfReq
<1> QED BY <1>1, FS_Subset

LEMMA FromNat ==
  ASSUME NEW q, NEW rec, Good(q, rec), NEW u, NEW r \in Req
  PROVE  From(q, rec, u, r) \in Nat
<1>1. Counted(rec) \in Nat
  BY CountedNat DEF Good
<1>2. q[r].pc = "write" => Counted(q[r].read) \in Nat
  BY CountedNat DEF Good
<1> QED BY <1>1, <1>2 DEF From

LEMMA SpreadFacts ==
  ASSUME NEW q, NEW rec, Good(q, rec), NEW u
  PROVE  /\ Spread(q, rec, u) \in [Nat -> Nat]
         /\ \A j \in Nat : /\ Spread(q, rec, u)[j] = Cardinality(Reach(q, rec, u, j))
                           /\ Spread(q, rec, u)[j] <= Cardinality(Req)
         /\ \A i, j \in Nat : i <= j => Spread(q, rec, u)[j] <= Spread(q, rec, u)[i]
<1>1. ASSUME NEW j \in Nat
      PROVE  /\ Reach(q, rec, u, j) \subseteq Req
             /\ Cardinality(Reach(q, rec, u, j)) \in Nat
             /\ Cardinality(Reach(q, rec, u, j)) <= Cardinality(Req)
  <2>1. Reach(q, rec, u, j) \subseteq Req
    BY DEF Reach
  <2> QED BY <2>1, PartOfReq
<1>2. \A j \in Nat : Spread(q, rec, u)[j] = Cardinality(Reach(q, rec, u, j))
  BY DEF Spread
<1>3. Spread(q, rec, u) \in [Nat -> Nat]
  BY <1>1 DEF Spread
<1>4. ASSUME NEW i \in Nat, NEW j \in Nat, i <= j
      PROVE  Cardinality(Reach(q, rec, u, j)) <= Cardinality(Reach(q, rec, u, i))
  <2>1. \A r \in Req : From(q, rec, u, r) \in Nat
    BY FromNat
  <2>2. Reach(q, rec, u, j) \subseteq Reach(q, rec, u, i)
    BY <1>4, <2>1 DEF Reach
  <2>3. Reach(q, rec, u, i) \subseteq Req
    BY <1>1
  <2> QED BY <2>2, <2>3, MorePart
<1> QED BY <1>1, <1>2, <1>3, <1>4

LEMMA PartsNat ==
  ASSUME NEW q, NEW rec, NEW u
  PROVE  /\ Cardinality(Failing(q, rec, u)) \in Nat
         /\ Cardinality(Failing(q, rec, u)) <= Cardinality(Req)
         /\ Cardinality(Verifying(q, u)) \in Nat
         /\ Cardinality(Verifying(q, u)) <= Cardinality(Req)
         /\ Cardinality(Req) \in Nat
<1>1. Failing(q, rec, u) \subseteq Req /\ Verifying(q, u) \subseteq Req
  BY DEF Failing, Verifying
<1> QED BY <1>1, PartOfReq

\* No guesses are within the bound.
LEMMA ZeroBounded ==
  ASSUME NEW q, NEW rec, Good(q, rec), NEW u
  PROVE  Bounded(q, rec, 0, u)
<1>1. PICK h : Totals(h, Spread(q, rec, u), FailLimit)
  BY LimitFacts, SpreadFacts, TotalsExist
<1>2. h[FailLimit - 1] \in Nat
  BY <1>1, LimitFacts DEF Totals
<1>3. 0 <= h[FailLimit - 1] + Cardinality(Failing(q, rec, u))
  BY <1>2, PartsNat
<1>4. 0 + Cardinality(Verifying(q, u)) <= Cardinality(Req)
  BY PartsNat
<1> QED BY <1>1, <1>3, <1>4 DEF Bounded

\* Nor does a step matter that moves only requests which have nothing to count
\* before and after it.
LEMMA SameBounded ==
  ASSUME NEW q, NEW p, NEW rec, NEW u, NEW g \in Nat, Bounded(q, rec, g, u),
         \A r \in Req : p[r] = q[r] \/ (~Live(q, rec, u, r) /\ ~Live(p, rec, u, r)),
         rec.lock # "none" => Verifying(p, u) \subseteq Verifying(q, u)
  PROVE  Bounded(p, rec, g, u)
<1>1. ASSUME NEW r \in Req PROVE Live(p, rec, u, r) <=> Live(q, rec, u, r)
  BY DEF Live
<1>2. ASSUME NEW r \in Req PROVE From(p, rec, u, r) = From(q, rec, u, r)
  BY <1>1 DEF From
<1>3. Spread(p, rec, u) = Spread(q, rec, u)
  BY <1>2 DEF Spread, Reach
<1>4. Failing(p, rec, u) = Failing(q, rec, u)
  BY <1>1 DEF Failing
<1>5. rec.lock # "none" => Cardinality(Verifying(p, u)) <= Cardinality(Verifying(q, u))
  <2>1. Verifying(q, u) \subseteq Req
    BY DEF Verifying
  <2> QED BY <2>1, MorePart
<1>6. rec.lock # "none" => g + Cardinality(Verifying(p, u)) <= Cardinality(Req)
  <2>1. Cardinality(Verifying(p, u)) \in Nat /\ Cardinality(Verifying(q, u)) \in Nat
        /\ Cardinality(Req) \in Nat
    BY PartsNat
  <2> QED BY <1>5, <2>1 DEF Bounded
<1> QED BY <1>3, <1>4, <1>6 DEF Bounded

\* While the account is or was locked, its count says nothing; nobody is let in.
LEMMA LockedBounded ==
  ASSUME NEW q, NEW p, NEW rec, NEW new, NEW u, NEW g \in Nat, Bounded(q, rec, g, u),
         rec.lock # "none", new.lock # "none", Verifying(p, u) \subseteq Verifying(q, u)
  PROVE  Bounded(p, new, g, u)
<1>1. Cardinality(Verifying(p, u)) <= Cardinality(Verifying(q, u))
  <2>1. Verifying(q, u) \subseteq Req
    BY DEF Verifying
  <2> QED BY <2>1, MorePart
<1>2. Cardinality(Verifying(p, u)) \in Nat /\ Cardinality(Verifying(q, u)) \in Nat
      /\ Cardinality(Req) \in Nat
  BY PartsNat
<1>3. g + Cardinality(Verifying(q, u)) <= Cardinality(Req)
  BY DEF Bounded
<1>4. g + Cardinality(Verifying(p, u)) <= Cardinality(Req)
  BY <1>1, <1>2, <1>3
<1> QED BY <1>4 DEF Bounded

\* A wrong password is one more guess, and one more failure to count.
LEMMA WrongPasswordBounded ==
  ASSUME NEW q, DOMAIN q = Req, NEW rec, NEW u, NEW g \in Nat, Bounded(q, rec, g, u),
         Good(q, rec), NEW r \in Req, q[r].pc = "verify", q[r].user = u,
         NEW p, p = [q EXCEPT ![r] = [pc |-> "fail", user |-> u]]
  PROVE  Bounded(p, rec, g + 1, u)
<1>1. p[r] = [pc |-> "fail", user |-> u] /\ \A s \in Req : s # r => p[s] = q[s]
  OBVIOUS
<1>2. ~Live(q, rec, u, r) /\ Live(p, rec, u, r)
  BY <1>1 DEF Live
<1>3. \A s \in Req : s # r => (Live(p, rec, u, s) <=> Live(q, rec, u, s))
  BY <1>1 DEF Live
<1>4. CASE rec.lock = "none"
  <2>1. ASSUME NEW s \in Req PROVE From(p, rec, u, s) = From(q, rec, u, s)
    <3>1. CASE s = r
      BY <1>1, <1>2, <3>1 DEF From
    <3>2. CASE s # r
      BY <1>1, <1>3, <3>2 DEF From
    <3> QED BY <3>1, <3>2
  <2>2. Spread(p, rec, u) = Spread(q, rec, u)
    BY <2>1 DEF Spread, Reach
  <2>3. Failing(p, rec, u) = Failing(q, rec, u) \cup {r} /\ r \notin Failing(q, rec, u)
    BY <1>2, <1>3 DEF Failing
  <2>4. IsFiniteSet(Failing(q, rec, u))
    <3>1. Failing(q, rec, u) \subseteq Req
      BY DEF Failing
    <3> QED BY <3>1, PartOfReq
  <2>5. Cardinality(Failing(p, rec, u)) = Cardinality(Failing(q, rec, u)) + 1
    <3>1. Cardinality(Failing(q, rec, u) \cup {r}) = Cardinality(Failing(q, rec, u)) + 1
      BY <2>3, <2>4, FS_AddElement
    <3> QED BY <2>3, <3>1
  <2>6. PICK h : /\ Totals(h, Spread(q, rec, u), FailLimit)
                 /\ g <= h[FailLimit - 1] + Cardinality(Failing(q, rec, u))
    BY <1>4 DEF Bounded
  <2>7. h[FailLimit - 1] \in Nat /\ Cardinality(Failing(q, rec, u)) \in Nat
    BY <2>6, LimitFacts, PartsNat DEF Totals
  <2>8. g + 1 <= h[FailLimit - 1] + Cardinality(Failing(p, rec, u))
    BY <2>5, <2>6, <2>7
  <2> QED BY <1>4, <2>2, <2>6, <2>8 DEF Bounded
<1>5. CASE rec.lock # "none"
  <2>1. Verifying(p, u) = Verifying(q, u) \ {r} /\ r \in Verifying(q, u)
    BY <1>1 DEF Verifying
  <2>2. IsFiniteSet(Verifying(q, u))
    <3>1. Verifying(q, u) \subseteq Req
      BY DEF Verifying
    <3> QED BY <3>1, PartOfReq
  <2>3. Cardinality(Verifying(p, u)) = Cardinality(Verifying(q, u)) - 1
    BY ZenonT(30), <2>1, <2>2, FS_RemoveElement
  <2>4. Cardinality(Verifying(q, u)) \in Nat /\ Cardinality(Req) \in Nat
    BY PartsNat
  <2>5. g + Cardinality(Verifying(q, u)) <= Cardinality(Req)
    BY <1>5 DEF Bounded
  <2>6. (g + 1) + Cardinality(Verifying(p, u)) <= Cardinality(Req)
    BY <2>3, <2>4, <2>5
  <2> QED BY <1>5, <2>6 DEF Bounded
<1> QED BY <1>4, <1>5

\* The read of record_failure starts from the count there is.
LEMMA ReadBounded ==
  ASSUME NEW q, DOMAIN q = Req, NEW rec, NEW u, NEW g \in Nat, Bounded(q, rec, g, u),
         NEW r \in Req, q[r].pc = "fail", q[r].user = u,
         NEW p, p = [q EXCEPT ![r] = [pc |-> "write", user |-> u, read |-> rec]]
  PROVE  Bounded(p, rec, g, u)
<1>1. /\ p[r].pc = "write" /\ p[r].user = u /\ p[r].read = rec
      /\ \A s \in Req : s # r => p[s] = q[s]
  OBVIOUS
<1>2. Live(q, rec, u, r) /\ Live(p, rec, u, r)
  BY <1>1 DEF Live
<1>3. \A s \in Req : Live(p, rec, u, s) <=> Live(q, rec, u, s)
  BY <1>1, <1>2 DEF Live
<1>4. ASSUME NEW s \in Req PROVE From(p, rec, u, s) = From(q, rec, u, s)
  <2>1. CASE s = r
    BY <1>1, <1>2, <2>1 DEF From
  <2>2. CASE s # r
    BY <1>1, <1>3, <2>2 DEF From
  <2> QED BY <2>1, <2>2
<1>5. Spread(p, rec, u) = Spread(q, rec, u)
  BY <1>4 DEF Spread, Reach
<1>6. Failing(p, rec, u) = Failing(q, rec, u)
  BY <1>3 DEF Failing
<1>7. Verifying(p, u) = Verifying(q, u)
  BY <1>1 DEF Verifying
<1> QED BY <1>5, <1>6, <1>7 DEF Bounded

\* The commit of the first failure: no count was there before, and everyone who
\* had a failure to count reaches one now.
LEMMA InsertBounded ==
  ASSUME NEW q, DOMAIN q = Req, NEW rec, NEW u, NEW g \in Nat, Bounded(q, rec, g, u),
         Good(q, rec), rec = NoRecord, NEW r \in Req,
         NEW p, p = [q EXCEPT ![r] = Idle],
         NEW new, RecordOK(new), new # NoRecord, new.old = FALSE, new.lock = "none", new.n >= 1
  PROVE  Bounded(p, new, g, u)
<1>1. p[r] = Idle /\ \A s \in Req : s # r => p[s] = q[s]
  OBVIOUS
<1>2. Good(p, new)
  BY <1>1 DEF Good, Idle
<1>3. rec.lock = "none" /\ Counted(rec) = 0
  BY DEF NoRecord, Counted
<1>4. ASSUME NEW s \in Req PROVE From(q, rec, u, s) = 0
  <2>1. CASE Live(q, rec, u, s) /\ q[s].pc = "write"
    <3>1. q[s].read = NoRecord
      BY <2>1 DEF Live
    <3> QED BY <1>3, <2>1, <3>1 DEF From
  <2>2. CASE ~(Live(q, rec, u, s) /\ q[s].pc = "write")
    BY <1>3, <2>2 DEF From
  <2> QED BY <2>1, <2>2
<1>5. ASSUME NEW j \in Nat PROVE Spread(q, rec, u)[j + 1] = 0
  <2>1. Reach(q, rec, u, j + 1) = {}
    BY <1>4 DEF Reach
  <2>2. j + 1 \in Nat
    OBVIOUS
  <2> QED BY <2>1, <2>2, FS_EmptySet DEF Spread
<1>6. PICK h : /\ Totals(h, Spread(q, rec, u), FailLimit)
               /\ g <= h[FailLimit - 1] + Cardinality(Failing(q, rec, u))
  BY <1>3 DEF Bounded
<1>7. Spread(q, rec, u) \in [Nat -> Nat] /\ FailLimit \in Nat \ {0, 1}
  BY SpreadFacts, LimitFacts
<1>8. h[FailLimit - 1] = 0
  BY <1>5, <1>6, <1>7, TotalsZero
<1>9. ASSUME NEW s \in Req, Live(q, rec, u, s) PROVE From(p, new, u, s) >= 1
  <2>1. Counted(new) = new.n /\ new.n \in Nat
    BY DEF Counted, RecordOK
  <2>2. ~(Live(p, new, u, s) /\ p[s].pc = "write")
    <3>1. CASE s = r
      BY <1>1, <3>1 DEF Idle
    <3>2. CASE s # r
      BY <1>1, <1>9, <3>2 DEF Live
    <3> QED BY <3>1, <3>2
  <2>3. From(p, new, u, s) = new.n
    BY <2>1, <2>2 DEF From
  <2> QED BY <2>3
<1>10. Failing(q, rec, u) \subseteq Reach(p, new, u, 1) /\ Reach(p, new, u, 1) \subseteq Req
  BY <1>9 DEF Failing, Reach
<1>11. Cardinality(Failing(q, rec, u)) <= Cardinality(Reach(p, new, u, 1))
  BY <1>10, MorePart
<1>12. /\ Spread(p, new, u) \in [Nat -> Nat]
       /\ Spread(p, new, u)[1] = Cardinality(Reach(p, new, u, 1))
  <2>1. Spread(p, new, u) \in [Nat -> Nat]
    BY <1>2, SpreadFacts
  <2>2. Spread(p, new, u)[1] = Cardinality(Reach(p, new, u, 1))
    BY DEF Spread
  <2> QED BY <2>1, <2>2
<1>13. PICK k : Totals(k, Spread(p, new, u), FailLimit)
  BY <1>7, <1>12, TotalsExist
<1>14. Spread(p, new, u)[1] <= k[FailLimit - 1]
  BY <1>7, <1>12, <1>13, TotalsFirst
<1>15. /\ k[FailLimit - 1] \in Nat /\ Spread(p, new, u)[1] \in Nat
       /\ Cardinality(Failing(p, new, u)) \in Nat /\ Cardinality(Failing(q, rec, u)) \in Nat
  <2>1. k[FailLimit - 1] \in Nat
    BY <1>13, LimitFacts DEF Totals
  <2>2. Spread(p, new, u)[1] \in Nat
    BY <1>12
  <2> QED BY <2>1, <2>2, PartsNat
<1>16. g <= k[FailLimit - 1] + Cardinality(Failing(p, new, u))
  BY <1>6, <1>8, <1>11, <1>12, <1>14, <1>15
<1> QED BY <1>13, <1>16 DEF Bounded

\* A later commit: the count is one more than the request had read, at least.
\* Others may have to start again from there, but one failure less is to count.
LEMMA UpdateBounded ==
  ASSUME NEW q, DOMAIN q = Req, NEW rec, NEW u, NEW g \in Nat, Bounded(q, rec, g, u),
         Good(q, rec), rec # NoRecord, rec.lock = "none",
         NEW r \in Req, q[r].pc = "write", q[r].user = u, q[r].read # NoRecord,
         NEW p, p = [q EXCEPT ![r] = Idle],
         NEW new, RecordOK(new), new # NoRecord, new.old = FALSE, new.lock = "none",
         new.n >= Counted(q[r].read) + 1, Counted(q[r].read) + 1 < FailLimit
  PROVE  Bounded(p, new, g, u)
<1> DEFINE v == Counted(q[r].read)
           M == Spread(q, rec, u)
           N == Spread(p, new, u)
<1>1. p[r] = Idle /\ \A s \in Req : s # r => p[s] = q[s]
  OBVIOUS
<1>2. Good(p, new)
  BY <1>1 DEF Good, Idle
<1>3. v \in Nat /\ new.n \in Nat /\ Counted(new) = new.n /\ new.n >= v + 1
  BY CountedNat DEF Good, RecordOK, Counted
<1>4. Live(q, rec, u, r) /\ ~Live(p, new, u, r)
  BY <1>1 DEF Live, Idle
<1>5. \A s \in Req : s # r => (Live(p, new, u, s) <=> Live(q, rec, u, s))
  BY <1>1 DEF Live
<1>6. From(q, rec, u, r) = v /\ From(p, new, u, r) = new.n
  BY <1>3, <1>4 DEF From
<1>7. ASSUME NEW s \in Req, s # r
      PROVE  From(p, new, u, s) = From(q, rec, u, s) \/ From(p, new, u, s) = new.n
  <2>1. p[s] = q[s] /\ (Live(p, new, u, s) <=> Live(q, rec, u, s))
    BY <1>1, <1>5, <1>7
  <2> QED BY <1>3, <2>1 DEF From
<1>8. \A s \in Req : From(q, rec, u, s) \in Nat /\ From(p, new, u, s) \in Nat
  BY <1>2, FromNat
<1>9. M \in [Nat -> Nat] /\ N \in [Nat -> Nat] /\ FailLimit \in Nat /\ v + 1 \in Nat
  <2>1. M \in [Nat -> Nat]
    BY SpreadFacts
  <2>2. N \in [Nat -> Nat]
    BY <1>2, SpreadFacts
  <2>3. FailLimit \in Nat /\ v + 1 \in Nat
    BY <1>3, LimitFacts
  <2> HIDE DEF M, N, v
  <2> QED BY <2>1, <2>2, <2>3
<1>10. /\ \A j \in Nat : M[j] = Cardinality(Reach(q, rec, u, j))
       /\ \A j \in Nat : N[j] = Cardinality(Reach(p, new, u, j))
       /\ \A i, j \in Nat : i <= j => M[j] <= M[i]
  BY <1>2, SpreadFacts
<1> HIDE DEF M, N, v
<1>11. ASSUME NEW j \in Nat, j <= v + 1
       PROVE  Reach(q, rec, u, j) \subseteq Reach(p, new, u, j) /\ Reach(p, new, u, j) \subseteq Req
  <2>1. ASSUME NEW s \in Req, From(q, rec, u, s) >= j PROVE From(p, new, u, s) >= j
    <3>1. new.n >= j
      BY <1>3, <1>11
    <3> QED BY <1>6, <1>7, <2>1, <3>1
  <2> QED BY <2>1 DEF Reach
<1>12. ASSUME NEW j \in Nat, j <= v PROVE M[j] <= N[j]
  <2>1. j <= v + 1
    BY <1>3, <1>12
  <2> QED BY <1>10, <1>11, <2>1, MorePart
<1>13. M[v + 1] + 1 <= N[v + 1]
  <2>1. r \notin Reach(q, rec, u, v + 1) /\ r \in Reach(p, new, u, v + 1)
    BY <1>3, <1>6 DEF Reach
  <2>2. /\ Reach(q, rec, u, v + 1) \cup {r} \subseteq Reach(p, new, u, v + 1)
        /\ Reach(p, new, u, v + 1) \subseteq Req /\ Reach(q, rec, u, v + 1) \subseteq Req
    <3>1. v + 1 <= v + 1
      BY <1>3
    <3> QED BY <1>9, <1>11, <2>1, <3>1
  <2>3. Cardinality(Reach(q, rec, u, v + 1) \cup {r}) <= Cardinality(Reach(p, new, u, v + 1))
    BY <2>2, MorePart
  <2>4. IsFiniteSet(Reach(q, rec, u, v + 1))
    BY <2>2, PartOfReq
  <2>5. Cardinality(Reach(q, rec, u, v + 1) \cup {r}) = Cardinality(Reach(q, rec, u, v + 1)) + 1
    BY <2>1, <2>4, FS_AddElement
  <2> QED BY <1>9, <1>10, <2>3, <2>5
<1>14. \A j \in Nat : v + 1 <= j => M[j] <= M[v + 1]
  BY <1>9, <1>10
<1>15. PICK h : Totals(h, M, FailLimit) /\ g <= h[FailLimit - 1] + Cardinality(Failing(q, rec, u))
  BY DEF Bounded, M
<1>16. PICK k : Totals(k, N, FailLimit)
  BY <1>9, TotalsExist
<1>17. h[FailLimit - 1] + 1 <= k[FailLimit - 1]
  <2>1. v + 1 < FailLimit
    BY DEF v
  <2>2. \A w \in Nat :
            /\ w + 1 < FailLimit
            /\ \A j \in Nat : j <= w => M[j] <= N[j]
            /\ M[w + 1] + 1 <= N[w + 1]
            /\ \A j \in Nat : w + 1 <= j => M[j] <= M[w + 1]
            => h[FailLimit - 1] + 1 <= k[FailLimit - 1]
    BY <1>9, <1>15, <1>16, TotalsRise, Zenon
  <2> QED BY <1>3, <1>12, <1>13, <1>14, <2>1, <2>2
<1>18. Failing(p, new, u) = Failing(q, rec, u) \ {r} /\ r \in Failing(q, rec, u)
  BY <1>4, <1>5 DEF Failing
<1>19. Cardinality(Failing(p, new, u)) = Cardinality(Failing(q, rec, u)) - 1
  <2>1. Failing(q, rec, u) \subseteq Req
    BY DEF Failing
  <2> QED BY <1>18, <2>1, PartOfReq, FS_RemoveElement
<1>20. /\ h[FailLimit - 1] \in Nat /\ k[FailLimit - 1] \in Nat
       /\ Cardinality(Failing(q, rec, u)) \in Nat
  BY <1>15, <1>16, LimitFacts, PartsNat DEF Totals
<1>21. g <= k[FailLimit - 1] + Cardinality(Failing(p, new, u))
  BY <1>15, <1>17, <1>19, <1>20
<1> QED BY <1>16, <1>21 DEF Bounded, N

GuessInv == \A u \in User : Bounded(req, locks[u], guesses[u], u)

LEMMA LockInvGood ==
  ASSUME LockInv, NEW u \in User
  PROVE  Good(req, locks[u]) /\ guesses[u] \in Nat /\ DOMAIN req = Req
  BY DEF LockInv, Good

LEMMA LockInvGoodNext ==
  ASSUME LockInv', NEW u \in User
  PROVE  Good(req', locks'[u]) /\ guesses'[u] \in Nat
  BY DEF LockInv, Good, RecordOK

LEMMA ElsewhereKeepsGuesses ==
  ASSUME LockInv, GuessInv, Moved(PasswordPcs), UNCHANGED lockVars
  PROVE  GuessInv'
<1> SUFFICES ASSUME NEW u \in User PROVE Bounded(req', locks'[u], guesses'[u], u)
  BY DEF GuessInv
<1>1. locks'[u] = locks[u] /\ guesses'[u] = guesses[u]
  BY DEF lockVars
<1>2. \A r \in Req : \/ req'[r] = req[r]
                     \/ ~Live(req, locks[u], u, r) /\ ~Live(req', locks[u], u, r)
  BY DEF Moved, PasswordPcs, Live
<1>3. Verifying(req', u) \subseteq Verifying(req, u)
  BY DEF Moved, PasswordPcs, Verifying
<1>4. Bounded(req, locks[u], guesses[u], u) /\ guesses[u] \in Nat
  BY LockInvGood DEF GuessInv
<1>5. Bounded(req', locks[u], guesses[u], u)
  BY <1>2, <1>3, <1>4, SameBounded
<1> QED BY <1>1, <1>5

\* The steps of a request that is not for the account u.
LEMMA OthersKeepGuesses ==
  ASSUME LockInv, NEW u \in User, Bounded(req, locks[u], guesses[u], u),
         NEW r \in Req, req[r].pc \in {"verify", "fail", "write"} => req[r].user # u,
         NEW rec, req' = [req EXCEPT ![r] = rec],
         rec.pc \in {"fail", "write"} => rec.user # u,
         locks[u].lock # "none" => ~(rec.pc = "verify" /\ rec.user = u),
         locks'[u] = locks[u], guesses'[u] = guesses[u]
  PROVE  Bounded(req', locks'[u], guesses'[u], u)
<1>1. guesses[u] \in Nat /\ DOMAIN req = Req
  BY LockInvGood
<1>2. req'[r] = rec /\ \A q \in Req : q # r => req'[q] = req[q]
  BY <1>1
<1>3. ~Live(req, locks[u], u, r) /\ ~Live(req', locks[u], u, r)
  BY <1>2 DEF Live
<1>4. locks[u].lock # "none" => Verifying(req', u) \subseteq Verifying(req, u)
  BY <1>2 DEF Verifying
<1>5. Bounded(req', locks[u], guesses[u], u)
  BY <1>1, <1>2, <1>3, <1>4, SameBounded
<1> QED BY <1>5

LEMMA ResetKeepsGuesses ==
  ASSUME LockInv', NEW u \in User, guesses'[u] = 0
  PROVE  Bounded(req', locks'[u], guesses'[u], u)
<1>1. Bounded(req', locks'[u], 0, u)
  BY LockInvGoodNext, ZeroBounded
<1> QED BY <1>1

LEMMA CommitKeepsGuesses ==
  ASSUME LockInv, LockInv', NEW u \in User, Bounded(req, locks[u], guesses[u], u),
         NEW r \in Req, RecordFailureCommit(r)
  PROVE  Bounded(req', locks'[u], guesses'[u], u)
<1>1. PICK x : x = req[r].user
  OBVIOUS
<1>2. PICK read : read = req[r].read
  OBVIOUS
<1>3. Good(req, locks[u]) /\ guesses[u] \in Nat /\ DOMAIN req = Req
  BY LockInvGood
<1>4. DOMAIN locks = User /\ DOMAIN guesses = User /\ req[r].pc = "write"
  BY DEF LockInv, RecordFailureCommit, At
<1>5. x \in User /\ req' = [req EXCEPT ![r] = Idle] /\ Committed(x, read)
  BY <1>1, <1>2, CommitFacts
<1>6. req'[r] = Idle /\ \A q \in Req : q # r => req'[q] = req[q]
  BY <1>3, <1>5
<1>7. Verifying(req', u) \subseteq Verifying(req, u)
  BY <1>6 DEF Verifying, Idle
<1>8. CASE x # u
  <2>1. locks'[u] = locks[u] /\ guesses'[u] = guesses[u]
    BY <1>4, <1>5, <1>8 DEF Committed
  <2>2. ~Live(req, locks[u], u, r) /\ ~Live(req', locks[u], u, r)
    BY <1>1, <1>6, <1>8 DEF Live, Idle
  <2>3. Bounded(req', locks[u], guesses[u], u)
    BY <1>3, <1>6, <1>7, <2>2, SameBounded
  <2> QED BY <2>1, <2>3
<1>9. CASE x = u /\ ~((read = NoRecord) <=> (locks[u] = NoRecord))
  <2>1. locks'[u] = locks[u] /\ guesses'[u] = guesses[u]
    BY <1>5, <1>9 DEF Committed
  <2>2. ~Live(req, locks[u], u, r) /\ ~Live(req', locks[u], u, r)
    BY <1>2, <1>4, <1>6, <1>9 DEF Live, Idle
  <2>3. Bounded(req', locks[u], guesses[u], u)
    BY <1>3, <1>6, <1>7, <2>2, SameBounded
  <2> QED BY <2>1, <2>3
<1>10. CASE x = u /\ ((read = NoRecord) <=> (locks[u] = NoRecord))
  <2>1. PICK rec :
            /\ locks' = [locks EXCEPT ![u] = rec]
            /\ RecordOK(rec) /\ rec # NoRecord /\ rec.old = FALSE
            /\ \/ rec.lock = "active" /\ guesses' = [guesses EXCEPT ![u] = 0]
               \/ /\ rec.lock = locks[u].lock /\ guesses' = guesses
                  /\ rec.n >= Counted(read) + 1
                  /\ Counted(read) + 1 < FailLimit
    BY <1>5, <1>10 DEF Committed
  <2>2. locks'[u] = rec
    BY <1>4, <2>1
  <2>3. CASE rec.lock = "active" /\ guesses' = [guesses EXCEPT ![u] = 0]
    BY <1>4, <2>3, ResetKeepsGuesses
  <2>4. CASE /\ rec.lock = locks[u].lock /\ guesses' = guesses
             /\ rec.n >= Counted(read) + 1 /\ Counted(read) + 1 < FailLimit
    <3>1. CASE locks[u].lock # "none"
      <4>1. Bounded(req', rec, guesses[u], u)
        BY <1>3, <1>7, <2>4, <3>1, LockedBounded
      <4> QED BY <2>2, <2>4, <4>1
    <3>2. CASE locks[u].lock = "none" /\ locks[u] = NoRecord
      <4>1. rec.n >= 1
        <5>1. read = NoRecord
          BY <1>10, <3>2
        <5>2. Counted(read) = 0
          BY <5>1 DEF Counted, NoRecord
        <5> QED BY <2>4, <5>2
      <4>2. Bounded(req', rec, guesses[u], u)
        BY <1>3, <1>5, <2>1, <2>4, <3>2, <4>1, InsertBounded
      <4> QED BY <2>2, <2>4, <4>2
    <3>3. CASE locks[u].lock = "none" /\ locks[u] # NoRecord
      <4>1. req[r].user = u /\ req[r].read # NoRecord
        BY <1>1, <1>2, <1>10, <3>3
      <4>2. rec.n >= Counted(req[r].read) + 1 /\ Counted(req[r].read) + 1 < FailLimit
            /\ rec.lock = "none"
        BY <1>2, <2>4, <3>3
      <4>3. Bounded(req', rec, guesses[u], u)
        BY <1>3, <1>4, <1>5, <2>1, <3>3, <4>1, <4>2, UpdateBounded
      <4> QED BY <2>2, <2>4, <4>3
    <3> QED BY <3>1, <3>2, <3>3
  <2> QED BY <2>1, <2>3, <2>4
<1> QED BY <1>8, <1>9, <1>10

LEMMA PasswordKeepsGuesses ==
  ASSUME LockInv, GuessInv, PasswordStep
  PROVE  GuessInv'
<1>1. LockInv'
  BY PasswordKeepsLocks
<1> SUFFICES ASSUME NEW u \in User PROVE Bounded(req', locks'[u], guesses'[u], u)
  BY DEF GuessInv
<1>2. Bounded(req, locks[u], guesses[u], u)
  BY DEF GuessInv
<1>3. Good(req, locks[u]) /\ guesses[u] \in Nat /\ DOMAIN req = Req
  BY LockInvGood
<1>4. DOMAIN locks = User /\ DOMAIN guesses = User
  BY DEF LockInv
<1>5. ASSUME NEW r \in Req, NEW x \in User, LoginStart(r, x)
      PROVE  Bounded(req', locks'[u], guesses'[u], u)
  <2>1. /\ req[r].pc = "idle" /\ req' = [req EXCEPT ![r] = [pc |-> "check", user |-> x]]
        /\ locks'[u] = locks[u] /\ guesses'[u] = guesses[u]
    BY <1>5 DEF LoginStart, Begin, Idle, lockVars
  <2>2. /\ req[r].pc \in {"verify", "fail", "write"} => req[r].user # u
        /\ [pc |-> "check", user |-> x].pc = "check"
    BY <2>1
  <2> QED BY <1>2, <2>1, <2>2, OthersKeepGuesses
<1>6. ASSUME NEW r \in Req, CheckLock(r) PROVE Bounded(req', locks'[u], guesses'[u], u)
  <2>1. PICK x : x = req[r].user
    OBVIOUS
  <2>2. req[r].pc = "check" /\ x \in User
    BY <1>6, <2>1 DEF CheckLock, At, LockInv, PasswordPcs
  <2>3. CASE x = u /\ locks[u].lock = "past"
    <3>1. guesses'[u] = 0
      BY <1>4, <1>6, <2>1, <2>3 DEF CheckLock, ClearRecord
    <3> QED BY <1>1, <3>1, ResetKeepsGuesses
  <2>4. CASE ~(x = u /\ locks[u].lock = "past")
    <3>1. locks'[u] = locks[u] /\ guesses'[u] = guesses[u]
      BY <1>4, <1>6, <2>1, <2>4 DEF CheckLock, ClearRecord, lockVars
    <3>2. \/ req' = [req EXCEPT ![r] = Idle]
          \/ /\ req' = [req EXCEPT ![r] = [pc |-> "verify", user |-> x]]
             /\ locks[x].lock # "active"
      BY <1>6, <2>1 DEF CheckLock, Done, Goto
    <3>3. CASE req' = [req EXCEPT ![r] = Idle]
      BY <1>2, <2>2, <3>1, <3>3, OthersKeepGuesses DEF Idle
    <3>4. CASE /\ req' = [req EXCEPT ![r] = [pc |-> "verify", user |-> x]]
               /\ locks[x].lock # "active"
      <4>1. x = u => locks[u].lock = "none"
        BY <2>4, <3>4 DEF LockInv, RecordOK
      <4> QED BY <1>2, <2>2, <3>1, <3>4, <4>1, OthersKeepGuesses
    <3> QED BY <3>2, <3>3, <3>4
  <2> QED BY <2>3, <2>4
<1>7. ASSUME NEW r \in Req, LoginSucceeds(r) PROVE Bounded(req', locks'[u], guesses'[u], u)
  <2>1. CASE req[r].user = u
    <3>1. guesses'[u] = 0
      BY <1>4, <1>7, <2>1 DEF LoginSucceeds, ClearRecord
    <3> QED BY <1>1, <3>1, ResetKeepsGuesses
  <2>2. CASE req[r].user # u
    <3>1. locks'[u] = locks[u] /\ guesses'[u] = guesses[u]
      BY <1>4, <1>7, <2>2 DEF LoginSucceeds, ClearRecord
    <3>2. req' = [req EXCEPT ![r] = [pc |-> "issue", user |-> req[r].user]]
      BY <1>7 DEF LoginSucceeds, Goto
    <3> QED BY <1>2, <2>2, <3>1, <3>2, OthersKeepGuesses
  <2> QED BY <2>1, <2>2
<1>8. ASSUME NEW r \in Req, WrongPassword(r) PROVE Bounded(req', locks'[u], guesses'[u], u)
  <2>1. req[r].pc = "verify" /\ locks' = locks
        /\ req' = [req EXCEPT ![r] = [pc |-> "fail", user |-> req[r].user]]
    BY <1>8 DEF WrongPassword, At, Goto
  <2>2. CASE req[r].user = u
    <3>1. guesses'[u] = guesses[u] + 1
      BY <1>4, <1>8, <2>2 DEF WrongPassword
    <3>2. Bounded(req', locks[u], guesses[u] + 1, u)
      BY <1>2, <1>3, <2>1, <2>2, WrongPasswordBounded
    <3> QED BY <2>1, <3>1, <3>2
  <2>3. CASE req[r].user # u
    <3>1. guesses'[u] = guesses[u]
      BY <1>4, <1>8, <2>3 DEF WrongPassword
    <3> QED BY <1>2, <2>1, <2>3, <3>1, OthersKeepGuesses
  <2> QED BY <2>2, <2>3
<1>9. ASSUME NEW r \in Req, RecordFailureRead(r) PROVE Bounded(req', locks'[u], guesses'[u], u)
  <2>1. PICK x : x = req[r].user
    OBVIOUS
  <2>2. req[r].pc = "fail" /\ locks' = locks /\ guesses' = guesses
    BY <1>9 DEF RecordFailureRead, At, lockVars
  <2>3. IF locks[x].lock = "active"
        THEN req' = [req EXCEPT ![r] = Idle]
        ELSE req' = [req EXCEPT ![r] = [pc |-> "write", user |-> x, read |-> locks[x]]]
    BY <1>9, <2>1 DEF RecordFailureRead, Done, Goto
  <2>4. CASE x # u
    <3>1. CASE locks[x].lock = "active"
      BY <1>2, <2>1, <2>2, <2>3, <2>4, <3>1, OthersKeepGuesses DEF Idle
    <3>2. CASE locks[x].lock # "active"
      BY <1>2, <2>1, <2>2, <2>3, <2>4, <3>2, OthersKeepGuesses
    <3> QED BY <3>1, <3>2
  <2>5. CASE x = u /\ locks[u].lock = "active"
    <3>1. req'[r] = Idle /\ \A q \in Req : q # r => req'[q] = req[q]
      BY <1>3, <2>3, <2>5
    <3>2. Verifying(req', u) \subseteq Verifying(req, u)
      BY <3>1 DEF Verifying, Idle
    <3>3. Bounded(req', locks[u], guesses[u], u)
      BY <1>2, <1>3, <2>5, <3>2, LockedBounded
    <3> QED BY <2>2, <3>3
  <2>6. CASE x = u /\ locks[u].lock # "active"
    <3>1. req[r].user = u /\
          req' = [req EXCEPT ![r] = [pc |-> "write", user |-> u, read |-> locks[u]]]
      BY <2>1, <2>3, <2>6
    <3>2. Bounded(req', locks[u], guesses[u], u)
      BY <1>2, <1>3, <2>2, <3>1, ReadBounded
    <3> QED BY <2>2, <3>2
  <2> QED BY <2>4, <2>5, <2>6
<1>10. ASSUME NEW r \in Req, RecordFailureCommit(r) PROVE Bounded(req', locks'[u], guesses'[u], u)
  BY <1>1, <1>2, <1>10, CommitKeepsGuesses
<1>11. ASSUME NEW x \in User, LockExpires(x) PROVE Bounded(req', locks'[u], guesses'[u], u)
  <2>1. UNCHANGED <<req, guesses>>
    BY <1>11 DEF LockExpires
  <2>2. CASE x = u
    <3>1. locks[u].lock # "none" /\ locks'[u].lock # "none"
      <4>1. DOMAIN locks[u] = {"n", "lock", "level", "old"}
        BY DEF LockInv, RecordOK
      <4> QED BY <1>4, <1>11, <2>2, <4>1 DEF LockExpires
    <3>2. Bounded(req, locks'[u], guesses[u], u)
      BY <1>2, <1>3, <3>1, LockedBounded
    <3> QED BY <2>1, <3>2
  <2>3. CASE x # u
    <3>1. locks'[u] = locks[u]
      BY <1>4, <1>11, <2>3 DEF LockExpires
    <3> QED BY <1>2, <2>1, <3>1
  <2> QED BY <2>2, <2>3
<1>12. ASSUME NEW x \in User, FailureWindowPasses(x)
       PROVE  Bounded(req', locks'[u], guesses'[u], u)
  <2>1. CASE x = u
    <3>1. guesses'[u] = 0
      BY <1>4, <1>12, <2>1 DEF FailureWindowPasses
    <3> QED BY <1>1, <3>1, ResetKeepsGuesses
  <2>2. CASE x # u
    <3>1. locks'[u] = locks[u] /\ guesses'[u] = guesses[u] /\ req' = req
      BY <1>4, <1>12, <2>2 DEF FailureWindowPasses
    <3> QED BY <1>2, <3>1
  <2> QED BY <2>1, <2>2
<1> QED BY <1>5, <1>6, <1>7, <1>8, <1>9, <1>10, <1>11, <1>12 DEF PasswordStep

LEMMA GuessInvInit == Init => LockInv /\ GuessInv
<1> SUFFICES ASSUME Init PROVE LockInv /\ GuessInv
  OBVIOUS
<1>1. LockInv
  BY LockInvInit
<1>2. ASSUME NEW u \in User PROVE Bounded(req, locks[u], guesses[u], u)
  <2>1. guesses[u] = 0
    BY DEF Init, SignInInit
  <2>2. Bounded(req, locks[u], 0, u)
    BY <1>1, LockInvGood, ZeroBounded
  <2> QED BY <2>1, <2>2
<1> QED BY <1>1, <1>2 DEF GuessInv

LEMMA GuessInvStep == ReqOK /\ LockInv /\ GuessInv /\ [Next]_vars => LockInv' /\ GuessInv'
<1> SUFFICES ASSUME ReqOK, LockInv, GuessInv, [Next]_vars PROVE LockInv' /\ GuessInv'
  OBVIOUS
<1>1. CASE PasswordStep
  BY <1>1, PasswordKeepsLocks, PasswordKeepsGuesses
<1>2. CASE ~PasswordStep
  <2>1. Moved(PasswordPcs) /\ UNCHANGED lockVars
    BY <1>2, StepsElsewhere
  <2> QED BY <2>1, ElsewhereKeepsLocks, ElsewhereKeepsGuesses
<1> QED BY <1>1, <1>2

LEMMA BoundedEnough ==
  ASSUME LockInv, GuessInv
  PROVE  GuessesBounded
<1> SUFFICES ASSUME NEW u \in User PROVE guesses[u] <= MostGuesses
  BY DEF GuessesBounded
<1> DEFINE k == Cardinality(Req)
           M == Spread(req, locks[u], u)
<1>1. Good(req, locks[u]) /\ guesses[u] \in Nat /\ Bounded(req, locks[u], guesses[u], u)
  BY LockInvGood DEF GuessInv
<1>2. k \in Nat /\ FailLimit \in Nat \ {0, 1} /\ FailLimit - 1 \in Nat /\ k + 1 \in Nat
  BY LimitFacts, FS_CardinalityType
<1>3. Ways(k + 1, FailLimit - 1) = choose(k + (FailLimit - 1), k)
  <2>1. k + 1 # 0 /\ (k + 1) - 1 = k
    BY <1>2
  <2> QED BY <2>1 DEF Ways
<1>4. Ways(k + 1, FailLimit - 1) \in Nat /\ Ways(k + 1, FailLimit - 1) >= 1
  BY <1>2, WaysNat, WaysPositive
<1>5. MostGuesses = Ways(k + 1, FailLimit - 1) + k - 1
  BY <1>3 DEF MostGuesses
<1>6. CASE locks[u].lock = "none"
  <2>1. PICK h : /\ Totals(h, M, FailLimit)
                 /\ guesses[u] <= h[FailLimit - 1] + Cardinality(Failing(req, locks[u], u))
    BY <1>1, <1>6 DEF Bounded
  <2>2. M \in [Nat -> Nat] /\ \A j \in Nat : M[j] <= k
    BY <1>1, SpreadFacts
  <2>3. Cardinality(Failing(req, locks[u], u)) \in Nat
        /\ Cardinality(Failing(req, locks[u], u)) <= k
    BY PartsNat
  <2> HIDE DEF M, k
  <2>4. h[FailLimit - 1] \in Nat /\ h[FailLimit - 1] + 1 <= Ways(k + 1, FailLimit - 1)
    BY <1>2, <2>1, <2>2, TotalsTop
  <2> QED BY <1>1, <1>2, <1>4, <1>5, <2>1, <2>3, <2>4
<1>7. CASE locks[u].lock # "none"
  <2>1. guesses[u] + Cardinality(Verifying(req, u)) <= k
    BY <1>1, <1>7 DEF Bounded
  <2>2. Cardinality(Verifying(req, u)) \in Nat
    BY PartsNat
  <2> HIDE DEF k
  <2> QED BY <1>1, <1>2, <1>4, <1>5, <2>1, <2>2
<1> QED BY <1>6, <1>7

\* LockoutTrackerPersistent.record_failure counts wrong passwords so that, however
\* logins overlap, at most MostGuesses are checked before the account is locked.
THEOREM GuessesAreBounded == Spec => []GuessesBounded
<1>1. SessionInv => ReqOK
  BY DEF SessionInv
<1>2. Spec => [](LockInv /\ GuessInv)
  BY <1>1, SessionInvInit, SessionInvStep, GuessInvInit, GuessInvStep, PTL DEF Spec
<1>3. LockInv /\ GuessInv => GuessesBounded
  BY BoundedEnough
<1> QED BY <1>2, <1>3, PTL

================================================================================
