---------------------------------- MODULE Keys ----------------------------------
(* The keys of the server and the start that makes or loads them: the files of  *)
(* the internal CA and of the signing backend, written one by one, a crash      *)
(* between or inside two writes, the rotation of the signing key, and the       *)
(* certificates the CA issues.                                                  *)
(*                                                                              *)
(* Keys are generations: bootstrap number g draws the key pair g, and a file     *)
(* holds the generation it belongs to.  Every request needs a running server.   *)
EXTENDS Integers, Sequences, FiniteSets

CONSTANTS
    HostTTL, ServerTTL, IntTTL, RootTTL,  \* lifetimes of certificates
    Grace,      \* how long a retired signing key stays an anchor
    MaxNow,     \* bound on the clock
    MaxKeys,    \* bound on key generations
    None

ASSUME KeysAssumption ==
    /\ {HostTTL, ServerTTL, IntTTL, RootTTL, MaxKeys} \subseteq Nat \ {0}
    /\ {MaxNow, Grace} \subseteq Nat

VARIABLES
    disk,     \* the generation in each file, Absent or Torn
    dirs,     \* the directories that exist
    pc,       \* where the server process is
    step,     \* the next file of the script being written
    gen,      \* the generation being written
    ca,       \* InternalCA: the generations of its four parts
    sign,     \* FileBackend._current
    retired,  \* FileBackend._retired: anchors with their expiry
    graced,   \* the content of grace.json
    made,     \* generations drawn so far
    born,     \* when each generation was drawn
    leaves,   \* the host certificates issued
    split,    \* a crash left current.key and current.pub of two generations (history)
    now,
    calls     \* how many requests, crashes and stops are still to come (a bound)

fileVars == <<disk, dirs, graced>>
bootVars == <<pc, step, gen, made, born>>
memVars == <<ca, sign, retired>>
keyVars == <<disk, dirs, pc, step, gen, ca, sign, retired, graced, made, born,
             leaves, split, now>>

Absent == 0
Torn == -1

CaFiles == <<"root.key", "root.crt", "int.key", "int.crt">>
SignFiles == <<"current.key", "current.pub", "grace.json">>
RotateFiles == <<"retired.pub", "current.key", "current.pub", "grace.json">>
File == {CaFiles[i] : i \in 1..4} \cup {RotateFiles[i] : i \in 1..4}
\* Written to a temporary file and renamed; the others are truncated in place.
Atomic == {"root.key", "int.key", "current.key"}

Script == CASE pc = "ca" -> CaFiles [] pc = "sign" -> SignFiles [] pc = "rotate" -> RotateFiles

Call == calls > 0 /\ calls' = calls - 1
Up == pc = "up"
Request == Up /\ Call

KeysInit ==
    /\ disk = [f \in File |-> Absent] /\ dirs = {} /\ graced = {}
    /\ pc = "down" /\ step = 1 /\ gen = 0 /\ made = 0 /\ born = <<>>
    /\ ca = None /\ sign = Absent /\ retired = {}
    /\ leaves = {} /\ split = FALSE
    /\ now = 0

-----------------------------------------------------------------------------
(* build_app_state.                                                            *)

\* One generation of keys for a script of files.
Generate(where) ==
    /\ made < MaxKeys
    /\ made' = made + 1 /\ gen' = made + 1
    /\ born' = Append(born, now)
    /\ pc' = where /\ step' = 1

\* InternalCA.load: the four files must parse.
LoadedCa ==
    LET part == [f \in {CaFiles[i] : i \in 1..4} |-> disk[f]]
    IN  IF \A f \in DOMAIN part : part[f] > 0 THEN part ELSE None

\* The CA directory decides: load what is there, or make a hierarchy.  A directory
\* that cannot be loaded ends the start, now and at every later one.
StartCaAnew ==
    /\ pc = "down" /\ Generate("ca") /\ dirs' = dirs \cup {"ca"}
    /\ UNCHANGED <<disk, graced, memVars, leaves, split, now, calls>>
StartCa ==
    /\ pc = "down"
    /\ \/ /\ "ca" \in dirs /\ LoadedCa # None
          /\ ca' = LoadedCa /\ pc' = "opened"
          /\ UNCHANGED <<dirs, step, gen, made, born>>
       \/ /\ "ca" \notin dirs
          /\ Generate("ca") /\ dirs' = dirs \cup {"ca"} /\ UNCHANGED ca
    /\ UNCHANGED <<disk, graced, sign, retired, leaves, split, now, calls>>

\* One file of InternalCA.bootstrap, and the CA once the last is written.
WriteCaFile ==
    /\ pc = "ca"
    /\ disk' = [disk EXCEPT ![CaFiles[step]] = gen]
    /\ IF step < Len(CaFiles)
       THEN step' = step + 1 /\ UNCHANGED <<pc, ca>>
       ELSE /\ pc' = "opened" /\ step' = 1
            /\ ca' = [f \in {CaFiles[i] : i \in 1..4} |-> gen]
    /\ UNCHANGED <<dirs, graced, gen, made, born, sign, retired, leaves, split, now, calls>>

\* FileBackend.reload: the key must parse, grace.json too if it is there.
Reloadable == disk["current.key"] > 0 /\ disk["grace.json"] # Torn
Reload == Reloadable /\ sign' = disk["current.key"] /\ retired' = graced

\* The signing directory, in the same way; a failed load ends the process.
StartSigning ==
    /\ pc = "opened"
    /\ \/ /\ "signing" \in dirs
          /\ \/ Reload /\ pc' = "services" /\ UNCHANGED ca
             \/ ~Reloadable /\ pc' = "down" /\ ca' = None /\ UNCHANGED <<sign, retired>>
          /\ UNCHANGED <<dirs, step, gen, made, born>>
       \/ /\ "signing" \notin dirs
          /\ Generate("sign") /\ dirs' = dirs \cup {"signing"}
          /\ UNCHANGED memVars
    /\ UNCHANGED <<disk, graced, leaves, split, now, calls>>

WriteSignFile ==
    /\ pc = "sign"
    /\ disk' = [disk EXCEPT ![SignFiles[step]] = gen]
    /\ IF step < Len(SignFiles)
       THEN step' = step + 1 /\ UNCHANGED <<pc, sign>>
       ELSE pc' = "services" /\ step' = 1 /\ sign' = gen
    /\ UNCHANGED <<dirs, graced, gen, made, born, ca, retired, leaves, split, now, calls>>

\* The database and the services on top of it; one that fails ends the process.
StartServices ==
    /\ pc = "services"
    /\ \/ pc' = "grpc" /\ UNCHANGED <<memVars, calls>>
       \/ Call /\ pc' = "down" /\ ca' = None /\ sign' = Absent /\ retired' = {}
    /\ UNCHANGED <<fileVars, step, gen, made, born, leaves, split, now>>

-----------------------------------------------------------------------------
(* The certificates.                                                           *)

\* What the intermediate key signs: a leaf of the given kind and lifetime.
IssueLeaf(kind, ttl) == [kind |-> kind, by |-> ca["int.key"], until |-> now + ttl]
IssueLeafByRoot(kind, ttl) == [kind |-> kind, by |-> 0, until |-> now + ttl]
IssueHostCert == IssueLeaf("host", HostTTL)
IssueServerCert == IssueLeaf("server", ServerTTL)

CaUntil(part, ttl) == born[ca[part]] + ttl
\* verify_chain: signatures, names and the validity of all three certificates.
VerifyChain(leaf) ==
    /\ leaf.by = ca["int.crt"]
    /\ ca["int.crt"] = ca["root.crt"]
    /\ now <= leaf.until
    /\ now <= CaUntil("int.crt", IntTTL)
    /\ now <= CaUntil("root.crt", RootTTL)

\* _start_grpc_server: the server certificate is minted here and never again; a
\* failure leaves the server with HTTP alone.
StartGrpc ==
    /\ pc = "grpc" /\ pc' = "up"
    /\ leaves' \in {leaves, leaves \cup {IssueServerCert}}
    /\ UNCHANGED <<fileVars, step, gen, made, born, memVars, split, now, calls>>

\* An enrollment or a rotation signs a host's request.
SignHost ==
    /\ Request
    /\ leaves' = leaves \cup {IssueHostCert}
    /\ UNCHANGED <<fileVars, bootVars, memVars, split, now>>

-----------------------------------------------------------------------------
(* Rotation of the signing key, and what a crash leaves.                       *)

\* rotate runs without an await: only a crash comes between its writes.
Rotate ==
    /\ Request /\ disk["current.pub"] > 0
    /\ Generate("rotate")
    /\ UNCHANGED <<fileVars, memVars, leaves, split, now>>

Kept(anchors) == {a \in anchors : a.until > now}

WriteRotated ==
    LET f == RotateFiles[step]
    IN  /\ pc = "rotate"
        /\ disk' = [disk EXCEPT ![f] =
                      IF f = "retired.pub" THEN disk["current.pub"] ELSE gen]
        /\ IF step < Len(RotateFiles)
           THEN step' = step + 1 /\ UNCHANGED <<pc, graced, sign, retired>>
           ELSE /\ pc' = "up" /\ step' = 1
                /\ graced' = Kept(graced \cup {[key |-> disk["retired.pub"],
                                                until |-> now + Grace]})
                /\ sign' = gen /\ retired' = graced'
        /\ UNCHANGED <<dirs, gen, made, born, ca, leaves, split, now, calls>>

TrustAnchors == {disk["current.pub"]} \cup {a.key : a \in Kept(retired)}

\* The process dies.  A file that is written in place may be left torn.
CrashKeys ==
    /\ pc # "down" /\ Call
    /\ disk' \in {disk} \cup
         (IF pc \in {"ca", "sign", "rotate"} /\ Script[step] \notin Atomic
          THEN {[disk EXCEPT ![Script[step]] = Torn]} ELSE {})
    /\ split' = (split \/ (pc = "rotate" /\ step = 3) \/ (pc = "sign" /\ step = 2))
    /\ pc' = "down" /\ step' = 1
    /\ ca' = None /\ sign' = Absent /\ retired' = {}
    /\ UNCHANGED <<dirs, graced, gen, made, born, leaves, now>>

\* The end of app_lifespan: background tasks cancelled, servers stopped.
StopKeys ==
    /\ Request
    /\ pc' = "down"
    /\ ca' = None /\ sign' = Absent /\ retired' = {}
    /\ UNCHANGED <<fileVars, step, gen, made, born, leaves, split, now>>

Tick ==
    /\ now < MaxNow /\ now' = now + 1
    /\ UNCHANGED <<fileVars, bootVars, memVars, leaves, split, calls>>

BootStep ==
    \/ StartCa \/ WriteCaFile \/ StartSigning \/ WriteSignFile \/ StartServices
    \/ StartGrpc \/ WriteRotated
KeysStep == Rotate \/ Tick

-----------------------------------------------------------------------------
\* Whatever crashes and restarts came between, a running server accepts every
\* unexpired certificate it ever issued, until its own CA certificates expire (nothing
\* renews the intermediate), and what it signs verifies under its trust anchors unless
\* a crash split the current key from its public half (bootstrap and rotate write
\* them one after the other).
KeysStayTrusted ==
    Up => /\ \A leaf \in leaves :
               \/ VerifyChain(leaf) \/ now > leaf.until
               \/ now > CaUntil("int.crt", IntTTL) \/ now > CaUntil("root.crt", RootTTL)
          /\ split \/ sign \in TrustAnchors

================================================================================
