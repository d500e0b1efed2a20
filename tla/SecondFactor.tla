----------------------------- MODULE SecondFactor -----------------------------
(* The second factors of one user: TOTP, recovery codes and WebAuthn, their    *)
(* enrollment, the challenge that proves one of them, and the recency of that  *)
(* proof, which the management operations ask for.                             *)
(*                                                                             *)
(* A proof is read and judged in one step of a request and its use committed   *)
(* in a later one; the services are made anew for each request, so their       *)
(* in-memory cooldowns never carry over and are left out.  A proof is the row  *)
(* for a recovery code, the stored challenge for WebAuthn and, for TOTP,       *)
(* <<"totp", secret, step it arrives in, step it is the code of>>: the server  *)
(* accepts the codes of three steps and remembers the step of arrival.         *)
EXTENDS Requests

CONSTANTS
    Code,       \* recovery codes of one set (10 in the code)
    MaxStep     \* bound on TOTP time steps

ASSUME SecondFactorAssumption == MaxStep \in Nat

VARIABLES
    step,       \* the current TOTP time step
    totp,       \* totp_secrets row of the user
    codes,      \* recovery_codes rows: <<"code", set, code>>
    consumed,   \* the rows with consumed_at set
    sets,       \* number of sets generated so far
    cred,       \* webauthn_credentials row: registered, and its sign count
    signs,      \* the authenticator's own counter
    challenge,  \* the stored WebAuthn challenge of the user, 0 if none
    challenges, \* number of challenges made so far
    fresh,      \* users.last_mfa_at is at most five minutes old
    spent,      \* proofs that were accepted (history)
    rewound,    \* an overlapping request moved last_used_step back (history)
    mixed       \* two regenerations overlapped (history)

factorVars == <<step, totp, codes, consumed, sets, cred, signs, challenge, challenges,
                fresh, spent, rewound, mixed>>

totpVars == <<totp, rewound>>
codeVars == <<codes, consumed, sets, mixed>>
waVars == <<cred, signs, challenge, challenges>>

NoCred == [on |-> FALSE, count |-> 0]

FactorInit ==
    /\ step = 1
    /\ totp = [gen |-> 0, is |-> "none", last |-> 0]
    /\ codes = {} /\ consumed = {} /\ sets = 0 /\ mixed = FALSE
    /\ cred = NoCred /\ signs = 0 /\ challenge = 0 /\ challenges = 0
    /\ fresh = FALSE
    /\ spent = {} /\ rewound = FALSE

\* A recovery code or a challenge is used up by its acceptance, TOTP for a time
\* step by the acceptance of any code that arrives in it.
UsedUp(proof) ==
    \E p \in spent :
        p = proof \/ /\ p[1] = "totp" /\ proof[1] = "totp"
                     /\ p[2] = proof[2] /\ p[3] = proof[3]

\* A request that holds a proof; whether it was used up before the request read
\* the row is remembered for the property.
Holding(pc, proof) == [pc |-> pc, proof |-> proof, again |-> UsedUp(proof)]

\* user_has_existing_mfa.
HasMfa == totp.is = "confirmed" \/ cred.on

-----------------------------------------------------------------------------
(* TOTP.                                                                       *)

\* enroll_begin replaces the row, a confirmed one too, in one transaction.
TotpEnrollBegin ==
    /\ Call
    /\ totp' = [gen |-> totp.gen + 1, is |-> "pending", last |-> 0]
    /\ UNCHANGED <<step, fresh, req, spent, rewound, codeVars, waVars>>

\* totp_enroll_finish: an existing factor asks for a recent proof.
TotpEnrollFinish(r) ==
    /\ HasMfa => fresh
    /\ Begin(r, [pc |-> "enroll"])
    /\ UNCHANGED <<step, fresh, spent, totpVars, codeVars, waVars>>

\* The codes totp.verify(code, valid_window=1) takes now, each with timecode(now).
RightCodes == {<<"totp", totp.gen, step, s>> : s \in (step - 1)..(step + 1)}

\* enroll_finish reads the row; the code is right.
EnrollRead(r) ==
    /\ At(r, "enroll")
    /\ IF totp.is = "none" THEN Goto(r, Idle)
       ELSE \E p \in RightCodes : Goto(r, Holding("confirm", p))
    /\ UNCHANGED <<step, fresh, spent, totpVars, codeVars, waVars>>

\* last_used_step is written as it was computed after the read: the step of arrival.
UseStep(p) ==
    /\ rewound' = (rewound \/ totp.last > p[3])
    /\ spent' = spent \cup {p}

\* The commit names the row it read: it fails if that one was replaced.
EnrollCommit(r) ==
    /\ At(r, "confirm")
    /\ LET p == req[r].proof IN
       IF p[2] = totp.gen
       THEN /\ totp' = [totp EXCEPT !.is = "confirmed", !.last = p[3]]
            /\ UseStep(p)
       ELSE UNCHANGED <<totpVars, spent>>
    /\ Goto(r, Idle)
    /\ UNCHANGED <<step, fresh, codeVars, waVars>>

ReplayedStepLoose == totp.last > step

\* The step of arrival must be later than the last one used.
ReplayedStep == totp.last >= step

\* verify with a code that is right for the stored secret: it is judged, and
\* remembered, by the step it arrives in and not by the step it is the code of.
TotpVerify(r) ==
    /\ totp.is = "confirmed" /\ ~ReplayedStep
    /\ \E p \in RightCodes : Begin(r, Holding("totp", p))
    /\ UNCHANGED <<step, fresh, spent, totpVars, codeVars, waVars>>

TotpCommit(r) ==
    /\ At(r, "totp")
    /\ LET p == req[r].proof IN
       IF p[2] = totp.gen
       THEN /\ totp' = [totp EXCEPT !.last = p[3]]
            /\ UseStep(p)
            /\ Goto(r, [pc |-> "stamp"])
       ELSE Goto(r, Idle) /\ UNCHANGED <<totpVars, spent>>
    /\ UNCHANGED <<step, fresh, codeVars, waVars>>

-----------------------------------------------------------------------------
(* Recovery codes.                                                             *)

RegenerateKeepsOld(r) ==
    /\ fresh
    /\ Begin(r, [pc |-> "generate"])
    /\ mixed' = (mixed \/ \E q \in Req : At(q, "generate"))
    /\ UNCHANGED <<step, fresh, spent, codes, consumed, sets, totpVars, waVars>>

\* regenerate: the old set goes in one transaction, the new one comes in another.
RegenerateDelete(r) ==
    /\ fresh
    /\ Begin(r, [pc |-> "generate"])
    /\ codes' = {}
    /\ mixed' = (mixed \/ \E q \in Req : At(q, "generate"))
    /\ UNCHANGED <<step, fresh, spent, consumed, sets, totpVars, waVars>>

\* generate.
Generate(r) ==
    /\ At(r, "generate")
    /\ sets' = sets + 1
    /\ codes' = codes \cup {<<"code", sets + 1, c>> : c \in Code}
    /\ Goto(r, Idle)
    /\ UNCHANGED <<step, fresh, spent, consumed, mixed, totpVars, waVars>>

\* consume: the row must exist and not be consumed.
Consume(r) ==
    /\ \E c \in codes \ consumed : Begin(r, Holding("recover", c))
    /\ UNCHANGED <<step, fresh, spent, totpVars, codeVars, waVars>>

\* The commit fails if the row was deleted; a consumed row is consumed again.
ConsumeCommit(r) ==
    /\ At(r, "recover")
    /\ LET p == req[r].proof IN
       IF p \in codes
       THEN /\ consumed' = consumed \cup {p}
            /\ spent' = spent \cup {p}
            /\ Goto(r, [pc |-> "stamp"])
       ELSE Goto(r, Idle) /\ UNCHANGED <<consumed, spent>>
    /\ UNCHANGED <<step, fresh, codes, sets, mixed, totpVars, waVars>>

-----------------------------------------------------------------------------
(* WebAuthn.                                                                   *)

\* registration_begin replaces the user's stored challenge.
RegistrationBegin ==
    /\ Call
    /\ challenges' = challenges + 1
    /\ challenge' = challenges + 1
    /\ UNCHANGED <<step, fresh, req, spent, cred, signs, totpVars, codeVars>>

\* registration_finish: the response answers the stored challenge; the row is
\* committed, then the challenge of the user is popped, whichever it is by now.
RegistrationFinish(r) ==
    /\ challenge # 0
    /\ Begin(r, [pc |-> "register"])
    /\ UNCHANGED <<step, fresh, spent, totpVars, codeVars, waVars>>

RegistrationCommit(r) ==
    /\ At(r, "register")
    /\ cred' = [on |-> TRUE, count |-> 0]
    /\ signs' = 0
    /\ challenge' = 0
    /\ Goto(r, Idle)
    /\ UNCHANGED <<step, fresh, spent, challenges, totpVars, codeVars>>

\* assertion_finish: the authenticator answers the stored challenge with the
\* next value of its counter; the library refuses one that is not larger.
AssertionRead(r) ==
    /\ challenge # 0 /\ cred.on
    /\ signs + 1 > cred.count
    /\ Begin(r, [pc |-> "assert", proof |-> <<"webauthn", challenge>>, count |-> signs + 1,
                 again |-> <<"webauthn", challenge>> \in spent])
    /\ signs' = signs + 1
    /\ UNCHANGED <<step, fresh, spent, cred, challenge, challenges, totpVars, codeVars>>

AssertionCommit(r) ==
    /\ At(r, "assert")
    /\ LET p == req[r].proof IN
       IF cred.on
       THEN /\ cred' = [cred EXCEPT !.count = req[r].count]
            /\ challenge' = 0
            /\ spent' = spent \cup {p}
            /\ Goto(r, [pc |-> "stamp"])
       ELSE Goto(r, Idle) /\ UNCHANGED <<cred, challenge, spent>>
    /\ UNCHANGED <<step, fresh, signs, challenges, totpVars, codeVars>>

\* delete_credential asks for a recent proof.
DeleteCredential ==
    /\ Call
    /\ fresh /\ cred.on
    /\ cred' = NoCred
    /\ UNCHANGED <<step, fresh, req, spent, signs, challenge, challenges, totpVars, codeVars>>

-----------------------------------------------------------------------------
\* challenge, its end: last_mfa_at is committed, or the proof is lost.
Stamp(r) ==
    /\ At(r, "stamp")
    /\ fresh' = TRUE
    /\ Goto(r, Idle)
    /\ UNCHANGED <<step, spent, totpVars, codeVars, waVars>>

\* A registered plugin vouches for the user.
PluginVerify(r) ==
    /\ Begin(r, [pc |-> "stamp"])
    /\ UNCHANGED <<step, fresh, spent, totpVars, codeVars, waVars>>

StampFails(r) ==
    /\ At(r, "stamp")
    /\ Goto(r, Idle)
    /\ UNCHANGED <<step, fresh, spent, totpVars, codeVars, waVars>>

\* Time.
StepPasses ==
    /\ step < MaxStep /\ step' = step + 1
    /\ UNCHANGED <<fresh, req, calls, spent, totpVars, codeVars, waVars>>

ProofAges ==
    /\ fresh /\ fresh' = FALSE
    /\ UNCHANGED <<step, req, calls, spent, totpVars, codeVars, waVars>>

ChallengeExpires ==
    /\ challenge # 0 /\ challenge' = 0
    /\ UNCHANGED <<step, fresh, req, calls, spent, cred, signs, challenges, totpVars, codeVars>>

Challenge(r) ==
    \/ TotpVerify(r) \/ TotpCommit(r) \/ Consume(r) \/ ConsumeCommit(r)
    \/ AssertionRead(r) \/ AssertionCommit(r) \/ PluginVerify(r) \/ Stamp(r) \/ StampFails(r)

Manage(r) ==
    \/ TotpEnrollFinish(r) \/ EnrollRead(r) \/ EnrollCommit(r)
    \/ RegenerateDelete(r) \/ Generate(r) \/ RegistrationFinish(r) \/ RegistrationCommit(r)

FactorStep ==
    \/ \E r \in Req : Challenge(r) \/ Manage(r)
    \/ TotpEnrollBegin \/ RegistrationBegin \/ DeleteCredential
    \/ StepPasses \/ ProofAges \/ ChallengeExpires

-----------------------------------------------------------------------------
\* A challenge accepts no recovery code and no WebAuthn challenge that was accepted
\* before it read the row (RecoveryService.consume, _get_challenge), and no TOTP
\* code in a time step in which one was accepted before, unless two requests that
\* overlapped wrote last_used_step in the wrong order (TotpService.verify).  It
\* does not say that a TOTP code is accepted once: the code of a step is right in
\* the steps before and after too, and verify takes it once in each of the three.
SpentProofRefused ==
    \A r \in Req :
        /\ req[r].pc \in {"recover", "assert"} => ~req[r].again
        /\ req[r].pc = "totp" => ~req[r].again \/ rewound

\* The recovery codes that can still be used belong to one generation, unless
\* two regenerations overlapped (RecoveryService.regenerate deletes and inserts
\* in separate transactions).
OneCodeSet ==
    mixed \/ Cardinality({c[2] : c \in codes \ consumed}) <= 1

=============================================================================
