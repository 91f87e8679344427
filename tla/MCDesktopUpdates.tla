------------------------- MODULE MCDesktopUpdates -------------------------
(***************************************************************************)
(* Releases and clients for DesktopUpdates.                                   *)
(***************************************************************************)
EXTENDS DesktopUpdates

Release1(version, target, fileName) ==
    [version |-> version, target |-> target, arch |-> "x64", fileName |-> fileName]

\* 1.10 is newer than 1.9.2, and 1.9.2 than 1.9; both are kept under one file name.
\* 1.10-beta.1 and a release of another target; one with a file name that is refused.
MCRelease ==
    {Release1(<<1, 9, 2>>, "windows", "setup"), Release1(<<1, 10>>, "win32", "setup"),
     Release1(<<1, 10, NaN, 1>>, "windows", "beta"), Release1(<<1, 11>>, "linux", "linux"),
     Release1(<<1, 9, 3>>, "windows", "refused")}

MCRefused == {"refused"}

MCClient ==
    {[target |-> "windows", arch |-> "x86_64", version |-> <<1, 9>>],
     [target |-> "linux", arch |-> "amd64", version |-> <<1, 10, 1>>]}

=============================================================================
