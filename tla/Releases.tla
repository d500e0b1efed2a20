-------------------------------- MODULE Releases --------------------------------
(* Agent releases: the upload that writes the binary before its row, the        *)
(* downloads, and the installer that asks for the release and for the binary in *)
(* two requests.  A platform has one stable channel here; a digest is the data  *)
(* it digests.                                                                  *)
EXTENDS Keys

CONSTANTS
    Version,   \* release versions
    Data,      \* contents of a binary
    Uploader,  \* uploads in progress
    Installer  \* hosts that run install.sh

ASSUME ReleasesAssumption == None \notin Data

VARIABLES
    bin,       \* the binary of each version on disk, or None
    rel,       \* agent_releases, in the order of upload
    upl,       \* what each uploader is about to commit, or None
    inst,      \* each installer: "idle", what it expects, or what it installed
    doubted    \* versions uploaded again, or twice at a time (history)

relVars == <<bin, rel, upl, inst, doubted>>

ReleasesInit ==
    /\ bin = [v \in Version |-> None]
    /\ rel = <<>>
    /\ upl = [u \in Uploader |-> None]
    /\ inst = [i \in Installer |-> [pc |-> "idle"]]
    /\ doubted = {}

HasRow(v) == \E i \in 1..Len(rel) : rel[i].ver = v

\* upload_release, up to the write of the binary and the signature of the manifest.
\* An earlier binary of the version is overwritten.
UploadWriteKeeping(u, v, d) ==
    /\ Request /\ upl[u] = None
    /\ bin' = [bin EXCEPT ![v] = IF @ = None THEN d ELSE @]
    /\ upl' = [upl EXCEPT ![u] = [ver |-> v, sha |-> d, by |-> ca["int.key"]]]
    /\ doubted' = IF HasRow(v) \/ \E o \in Uploader : upl[o] # None /\ upl[o].ver = v
                  THEN doubted \cup {v} ELSE doubted
    /\ UNCHANGED <<rel, inst, keyVars>>
UploadWrite(u, v, d) ==
    /\ Request /\ upl[u] = None
    /\ bin' = [bin EXCEPT ![v] = d]
    /\ upl' = [upl EXCEPT ![u] = [ver |-> v, sha |-> d, by |-> ca["int.key"]]]
    /\ doubted' = IF HasRow(v) \/ \E o \in Uploader : upl[o] # None /\ upl[o].ver = v
                  THEN doubted \cup {v} ELSE doubted
    /\ UNCHANGED <<rel, inst, keyVars>>

\* The row; the unique constraint on version and platform refuses a second one.
UploadCommit(u) ==
    /\ Up /\ upl[u] # None /\ UNCHANGED calls
    /\ rel' = IF HasRow(upl[u].ver) THEN rel
              ELSE Append(rel, [ver |-> upl[u].ver, sha |-> upl[u].sha, by |-> upl[u].by,
                                status |-> "published"])
    /\ upl' = [upl EXCEPT ![u] = None]
    /\ UNCHANGED <<bin, inst, doubted, keyVars>>

Yank(i) ==
    /\ Request /\ i \in 1..Len(rel)
    /\ rel' = [rel EXCEPT ![i].status = "yanked"]
    /\ UNCHANGED <<bin, upl, inst, doubted, keyVars>>

\* The newest published release.
Latest ==
    LET live == {i \in 1..Len(rel) : rel[i].status = "published"}
    IN  IF live = {} THEN None ELSE rel[CHOOSE i \in live : \A j \in live : j <= i]

\* agent-release-info: what the installer will check the binary against.
InstallInfo(i) ==
    /\ Request /\ inst[i].pc = "idle" /\ Latest # None
    /\ inst' = [inst EXCEPT ![i] = [pc |-> "expects", sha |-> Latest.sha, by |-> Latest.by]]
    /\ UNCHANGED <<bin, rel, upl, doubted, keyVars>>

\* agent-binary, which looks for the newest release again and streams its file, and
\* the comparison of digests in install.sh.
InstallBinary(i) ==
    /\ Up /\ inst[i].pc = "expects" /\ Latest # None /\ UNCHANGED calls
    /\ inst' = [inst EXCEPT ![i] =
                  IF bin[Latest.ver] = inst[i].sha
                  THEN [pc |-> "done", sha |-> inst[i].sha, by |-> inst[i].by]
                  ELSE [pc |-> "idle"]]
    /\ UNCHANGED <<bin, rel, upl, doubted, keyVars>>

\* download_binary, for a running agent: the file under the digest of the row; a
\* yanked release or a missing file is refused.
Downloadable(i) == rel[i].status = "published" /\ bin[rel[i].ver] # None
Served(i) == [data |-> bin[rel[i].ver], header |-> rel[i].sha]

ReleasesCrash == upl' = [u \in Uploader |-> None] /\ UNCHANGED <<bin, rel, inst, doubted>>

ReleasesStep ==
    \/ \E u \in Uploader :
         UploadCommit(u) \/ \E v \in Version, d \in Data : UploadWrite(u, v, d)
    \/ \E i \in 1..Len(rel) : Yank(i)
    \/ \E i \in Installer : InstallInfo(i) \/ InstallBinary(i)

-----------------------------------------------------------------------------
\* A published release can be downloaded and has the digest of its manifest, whatever
\* crashes came between binary and row, unless its version was uploaded again: the
\* refused upload has replaced the binary.
PublishedIsServed ==
    \A i \in 1..Len(rel) :
      rel[i].status = "published" /\ rel[i].ver \notin doubted =>
        Downloadable(i) /\ Served(i).data = Served(i).header

================================================================================
