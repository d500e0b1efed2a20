------------------------------ MODULE CertRecovery ------------------------------
(***************************************************************************)
(* What becomes of an agent whose client certificate expires: the rotator    *)
(* that should renew it before (rotator/rotator.go), the supervisor that     *)
(* should re-enroll it afterwards (rotator/recovery.go, enrollment/          *)
(* reenroll.go) and the server's ReEnroll service (grpc/reenroll_servicer.py,*)
(* grpc/reenroll_state.py).                                                  *)
(*                                                                          *)
(* Neither gets a certificate.  Client.SendCertRotate sends nothing, so that *)
(* every rotation times out.  The ReEnroll listener presents a chain that    *)
(* the agent cannot verify, and Complete raises where it unpacks the result  *)
(* of issue_host_cert.  The steps behind that point (the rows and the commit *)
(* of Complete, StageTLS, VerifyStagedTLS and CommitTLS of the keystore) are *)
(* reached by no behaviour and are left out.                                 *)
(***************************************************************************)
EXTENDS Naturals

CONSTANTS
    Presented,     \* certificates that the ReEnroll listener sends
    Trusted,       \* certificates in the agent's root.crt
    MaxPerWindow,  \* ReEnrollRateLimiter's max_per_window
    MaxFaults      \* bound: crashes, restarts, lost calls, delays, failed reads,
                   \* operators who enroll the host again

VARIABLES
    cert,      \* the certificate in the keystore: "valid" or "expired"
    up,        \* the agent process runs
    link,      \* its stream to the server is open
    pc,        \* where CheckAndRecover is: "idle", "challenge" or "complete"
    phase,     \* rotator.state.json, written by rotator and supervisor
    rotating,  \* a RotateOnce waits for its CertIssue
    nonce,     \* NonceCache holds the nonce of the host's last Challenge
    used,      \* events in the limiter's window
    faults

agent  == <<up, link, pc, phase, rotating>>
server == <<nonce, used>>
vars   == <<cert, agent, server, faults>>

\* Just enrolled.
Init ==
    /\ cert = "valid" /\ up = TRUE /\ link = FALSE /\ pc = "idle"
    /\ phase = "NORMAL" /\ rotating = FALSE
    /\ nonce = FALSE /\ used = 0 /\ faults = 0

Fault == faults < MaxFaults /\ faults' = faults + 1

\* The server's certificate is issued by the intermediate, that by the root.
Issuer == [leaf |-> "intermediate", intermediate |-> "root"]

\* x509 verification of the listener's certificate, in dial().
HandshakeSucceeds ==
    \/ Issuer.leaf \in Trusted
    \/ Issuer.leaf \in Presented /\ Issuer.intermediate \in Trusted

--------------------------------------------------------------------------------
(***************************************************************************)
(* CheckAndRecover and ReEnroll, one at a time: the ticker's goroutine runs  *)
(* them.  A failed call ends the attempt, the phase stays RECOVERING and the *)
(* next tick starts another: no failure counts as permanent, because         *)
(* isPermanentReEnrollFailure looks for "PERMISSION_DENIED" and "NOT_FOUND", *)
(* which gRPC spells PermissionDenied and NotFound.                          *)
(***************************************************************************)
At(from, to) == up /\ pc = from /\ pc' = to

\* haltAt("no-cert"): the files cannot be read.  Nothing looks at the phase, the
\* next tick checks again.
Halt ==
    /\ At("idle", "idle") /\ Fault
    /\ phase' = "HALTED"
    /\ UNCHANGED <<cert, up, link, rotating, server>>

Begin ==
    /\ At("idle", "challenge") /\ cert = "expired"
    /\ phase' = "RECOVERING"
    /\ UNCHANGED <<cert, up, link, rotating, server, faults>>

\* Either call dials first; WithBlock retries until its 15 seconds are over.
DialFails ==
    /\ At("challenge", "idle") \/ At("complete", "idle")
    /\ ~HandshakeSucceeds
    /\ UNCHANGED <<cert, up, link, phase, rotating, server, faults>>

Challenge ==
    /\ At("challenge", "complete") /\ HandshakeSucceeds
    /\ nonce' = TRUE
    /\ UNCHANGED <<cert, up, link, phase, rotating, used, faults>>

\* The server is not reached, or the reply is lost after it stored a nonce.
ChallengeFails ==
    /\ At("challenge", "idle") /\ Fault
    /\ nonce' \in {nonce, HandshakeSucceeds}
    /\ UNCHANGED <<cert, up, link, phase, rotating, used>>

\* The limiter counts a call before anything else is looked at.
CompleteLimited ==
    /\ At("complete", "idle") /\ HandshakeSucceeds /\ used = MaxPerWindow
    /\ UNCHANGED <<cert, up, link, phase, rotating, server, faults>>

CompleteDenied ==
    /\ At("complete", "idle") /\ HandshakeSucceeds /\ used < MaxPerWindow /\ ~nonce
    /\ used' = used + 1
    /\ UNCHANGED <<cert, up, link, phase, rotating, nonce, faults>>

\* The nonce is consumed; issue_host_cert returns one PEM, of which the handler
\* wants to make a chain, a serial and a date: ValueError, status UNKNOWN.
CompleteRaises ==
    /\ At("complete", "idle") /\ HandshakeSucceeds /\ used < MaxPerWindow /\ nonce
    /\ used' = used + 1 /\ nonce' = FALSE
    /\ UNCHANGED <<cert, up, link, phase, rotating, faults>>

\* The server is not reached.
CompleteFails ==
    /\ At("complete", "idle") /\ Fault
    /\ UNCHANGED <<cert, up, link, phase, rotating, server>>

--------------------------------------------------------------------------------
(***************************************************************************)
(* The server's memory, the stream, the rotator, the process and the clock.  *)
(***************************************************************************)
\* More than ttl_seconds pass: consume() drops the entry.
NonceExpires ==
    /\ nonce /\ nonce' = FALSE /\ Fault
    /\ UNCHANGED <<cert, agent, used>>

\* The oldest event leaves the limiter's window.
WindowSlides ==
    /\ used > 0 /\ used' = used - 1
    /\ UNCHANGED <<cert, agent, nonce, faults>>

ServerRestart ==
    /\ Fault
    /\ nonce' = FALSE /\ used' = 0 /\ link' = FALSE
    /\ UNCHANGED <<cert, up, pc, phase, rotating>>

\* runOnce with tlsCreds.
Connect ==
    /\ up /\ ~link /\ cert = "valid"
    /\ link' = TRUE
    /\ UNCHANGED <<cert, up, pc, phase, rotating, server, faults>>

\* An open stream outlives the certificate it was opened with.
LinkBreaks ==
    /\ link /\ link' = FALSE
    /\ UNCHANGED <<cert, up, pc, phase, rotating, server, faults>>

\* RotateOnce, from Run at half the lifetime or forced over the stream.
RotateBegins ==
    /\ up /\ ~rotating /\ (cert = "valid" \/ link)
    /\ rotating' = TRUE /\ phase' = "ROTATING"
    /\ UNCHANGED <<cert, up, link, pc, server, faults>>

\* fail("send") without a stream, else IssueTimeout later fail("await-issue").
RotateFails ==
    /\ up /\ rotating
    /\ rotating' = FALSE /\ phase' = "ROTATE_BACKOFF"
    /\ UNCHANGED <<cert, up, link, pc, server, faults>>

AgentCrash ==
    /\ up /\ Fault
    /\ up' = FALSE /\ pc' = "idle" /\ link' = FALSE /\ rotating' = FALSE
    /\ UNCHANGED <<cert, phase, server>>

AgentStart ==
    /\ ~up /\ up' = TRUE
    /\ UNCHANGED <<cert, link, pc, phase, rotating, server, faults>>

Expire ==
    /\ cert = "valid" /\ cert' = "expired"
    /\ UNCHANGED <<agent, server, faults>>

\* `hl-agent reenroll --token`: the one way to a new certificate.
OperatorEnrolls ==
    /\ cert = "expired" /\ Fault
    /\ cert' = "valid"
    /\ UNCHANGED <<agent, server>>

--------------------------------------------------------------------------------
Recover == \/ Begin \/ DialFails \/ Challenge
           \/ CompleteLimited \/ CompleteDenied \/ CompleteRaises

Next ==
    \/ Recover \/ Halt \/ ChallengeFails \/ CompleteFails
    \/ NonceExpires \/ WindowSlides \/ ServerRestart
    \/ Connect \/ LinkBreaks \/ RotateBegins \/ RotateFails
    \/ AgentCrash \/ AgentStart \/ Expire \/ OperatorEnrolls

Spec == Init /\ [][Next]_vars

\* The ticker fires and calls return, a rotation ends, the service manager
\* restarts the agent, the transport redials, the limiter's window moves on.
FairSpec ==
    /\ Spec
    /\ WF_vars(Recover) /\ WF_vars(RotateFails) /\ WF_vars(Connect)
    /\ WF_vars(AgentStart) /\ WF_vars(WindowSlides)

--------------------------------------------------------------------------------
\* docs/developer/design/enrollment.md:172: re-enrollment is "Automatic via
\* signing-key recovery", "No token required": an agent whose certificate expired
\* gets a new one from the ReEnroll service, whatever fails on the way.
Recovers == cert = "expired" ~> cert = "valid"

================================================================================
