--------------------------- MODULE DesktopUpdates ---------------------------
(***************************************************************************)
(* Desktop updates: the manifest of releases that an administrator edits, the  *)
(* endpoint that picks the newest release for a client, the directory of        *)
(* installers, and the clients that install what they are offered and ask again  *)
(* with the version they have then.  An installer is found by its file name      *)
(* alone: the file may hold another release than the one that was offered.       *)
(* A version is the sequence of its parts between dots and dashes; a part that   *)
(* does not begin with a digit is NaN.                                          *)
(***************************************************************************)
EXTENDS Naturals, Sequences

CONSTANTS
    Release,    \* releases: version, target, arch, fileName
    Client,     \* clients: target, arch, the version they start with
    Refused,    \* the file names validateInstallerFileName throws for
    MaxEdits,   \* bound on the edits of the manifest and of the directory
    NaN, Nil

\* toVersionParts: the parts that are numbers.
ToVersionParts(version) == SelectSeq(version, LAMBDA part : part # NaN)

FileName == {r.fileName : r \in Release}

Version == {r.version : r \in Release} \cup {c.version : c \in Client}

ASSUME VersionAssumption == \A v \in Version : ToVersionParts(v) \in Seq(Nat)
ASSUME NilAssumption == Nil \notin Release

VARIABLES
    manifest,   \* the state of each release: absent, enabled or disabled
    directory,  \* the release whose installer the file of each name holds, or Nil
    installed,  \* the version of each client
    offer,      \* the release each client is about to install
    edits

vars == <<manifest, directory, installed, offer, edits>>

Init ==
    /\ manifest = [r \in Release |-> "absent"]
    /\ directory = [f \in FileName |-> Nil]
    /\ installed = [c \in Client |-> c.version]
    /\ offer = [c \in Client |-> Nil]
    /\ edits = 0

-----------------------------------------------------------------------------
(* compareVersions *)

\* parts[index] || 0
Part(parts, i) == IF i \in DOMAIN parts THEN parts[i] ELSE 0

MaxLength(left, right) == IF Len(left) > Len(right) THEN Len(left) ELSE Len(right)

\* The indices at which the parts differ.
Differ(left, right) == {i \in 1 .. MaxLength(left, right) : Part(left, i) # Part(right, i)}

\* Mutant of CompareParts: a part that one of the two does not have is not compared.
ComparePartsCommon(left, right) ==
    LET common == {i \in Differ(left, right) : i \in DOMAIN left /\ i \in DOMAIN right}
    IN  IF common = {} THEN 0
        ELSE LET i == CHOOSE k \in common : \A j \in common : k <= j
             IN  IF Part(left, i) > Part(right, i) THEN 1 ELSE 0 - 1

\* Mutant of CompareParts: the last difference decides.
ComparePartsLast(left, right) ==
    IF Differ(left, right) = {} THEN 0
    ELSE LET i == CHOOSE k \in Differ(left, right) : \A j \in Differ(left, right) : k >= j
         IN  IF Part(left, i) > Part(right, i) THEN 1 ELSE 0 - 1

\* The loop over the parts returns at the first difference.
CompareParts(left, right) ==
    IF Differ(left, right) = {} THEN 0
    ELSE LET i == CHOOSE k \in Differ(left, right) : \A j \in Differ(left, right) : k <= j
         IN  IF Part(left, i) > Part(right, i) THEN 1 ELSE 0 - 1

CompareVersions(left, right) == CompareParts(ToVersionParts(left), ToVersionParts(right))

-----------------------------------------------------------------------------
(* findUpdate *)

NormalizeTarget(target) == IF target \in {"windows", "win32"} THEN "windows" ELSE target

NormalizeArch(arch) == IF arch \in {"x64", "x86_64", "amd64"} THEN "x86_64" ELSE arch

\* The enabled releases for client c that are newer than its version.
Newest(c) ==
    LET candidates ==
            {r \in Release :
                /\ manifest[r] = "enabled"
                /\ NormalizeTarget(r.target) = NormalizeTarget(c.target)
                /\ NormalizeArch(r.arch) = NormalizeArch(c.arch)
                /\ CompareVersions(r.version, installed[c]) = 1}
    IN  {r \in candidates : \A s \in candidates : CompareVersions(s.version, r.version) # 1}

\* GET /api/desktop-updates/:target/:arch/:currentVersion.  Of releases that compare equal
\* the first in the manifest is taken; the newest with a refused file name is an error.
Check(c) ==
    /\ offer[c] = Nil
    /\ \E r \in Newest(c) :
        /\ r.fileName \notin Refused
        /\ offer' = [offer EXCEPT ![c] = r]
    /\ UNCHANGED <<manifest, directory, installed, edits>>

\* getInstallerPath, which knows the name and nothing else: what the file holds, or Nil for
\* a name that is refused or not there.
Installer(f) == IF f \in Refused THEN Nil ELSE directory[f]

\* GET .../download/:fileName.  The client runs what it downloads if the signature it was
\* offered is of that file; after a 404, or the installer of another release, it asks again.
Install(c) ==
    /\ offer[c] # Nil
    /\ \/ /\ Installer(offer[c].fileName) = offer[c]
          /\ installed' = [installed EXCEPT ![c] = offer[c].version]
       \/ Installer(offer[c].fileName) # offer[c] /\ UNCHANGED installed
    /\ offer' = [offer EXCEPT ![c] = Nil]
    /\ UNCHANGED <<manifest, directory, edits>>

\* releases.json is edited: a release is added, enabled or disabled.
Edit(r, state) ==
    /\ edits < MaxEdits
    /\ edits' = edits + 1
    /\ manifest[r] # state
    /\ manifest' = [manifest EXCEPT ![r] = state]
    /\ UNCHANGED <<directory, installed, offer>>

\* An installer is copied into the directory, over the one that had its name, or removed.
Store(f, r) ==
    /\ edits < MaxEdits
    /\ edits' = edits + 1
    /\ r # directory[f]
    /\ r # Nil => r.fileName = f
    /\ directory' = [directory EXCEPT ![f] = r]
    /\ UNCHANGED <<manifest, installed, offer>>

Next ==
    \/ \E c \in Client : Check(c) \/ Install(c)
    \/ \E r \in Release, state \in {"enabled", "disabled"} : Edit(r, state)
    \/ \E f \in FileName, r \in Release \cup {Nil} : Store(f, r)

Spec == Init /\ [][Next]_vars

\* A client asks when it starts and installs what it downloads.
FairSpec == Spec /\ \A c \in Client : WF_vars(Check(c)) /\ WF_vars(Install(c))

-----------------------------------------------------------------------------
(* Properties *)

\* Left comes after right in the order of numbers, part by part.
After(left, right) ==
    \E i \in 1 .. MaxLength(left, right) :
        /\ Part(left, i) > Part(right, i)
        /\ \A j \in 1 .. i - 1 : Part(left, j) = Part(right, j)

Newer(left, right) == After(ToVersionParts(left), ToVersionParts(right))

\* No client is led back to an older version, however the manifest is edited between its
\* question and its installation.
NeverDowngrades ==
    [][\A c \in Client : installed'[c] # installed[c] => Newer(installed'[c], installed[c])]_vars

\* When the manifest and the directory stay as they are, every client comes to the newest
\* release that is enabled for it, from release to release, unless the newest has a file
\* name that is refused, no installer, or the name of a file that holds another release: the
\* endpoint does not fall back to the one before.
InstallsLatest ==
    \A c \in Client : <>[](\A r \in Release :
        /\ manifest[r] = "enabled" /\ Newer(r.version, installed[c])
        /\ NormalizeTarget(r.target) = NormalizeTarget(c.target)
        /\ NormalizeArch(r.arch) = NormalizeArch(c.arch)
        => \E s \in Newest(c) : s.fileName \in Refused \/ directory[s.fileName] # s)

\* Not an invariant: a version with a word in it is offered instead of the one without.
NoPrereleases ==
    \A c \in Client : (\A i \in DOMAIN c.version : c.version[i] # NaN) =>
        \A i \in DOMAIN installed[c] : installed[c][i] # NaN

=============================================================================
