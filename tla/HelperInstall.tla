--------------------------- MODULE HelperInstall ---------------------------
(***************************************************************************)
(* The installation of the remote helper (crates/strukt-remote/src/        *)
(* install.rs): execute_helper_install on the desktop, which streams the   *)
(* artifact into ssh, and the fixed shell script it starts on the host.    *)
(* Several desktops, or several windows of one user, install the same      *)
(* version on the same host.  The two ends go on independently: a desktop  *)
(* that gives up kills its ssh, and the script sees its input end.         *)
(***************************************************************************)
EXTENDS Naturals, FiniteSets

CONSTANTS
    Installers,
    Absent       \* no file, no result

VARIABLES
    desktop,     \* what execute_helper_install is doing
    result,      \* what it returned
    streamed,    \* how much of the artifact has reached the host
    script,      \* the next line of INSTALL_BOOTSTRAP
    staged,      \* "$tmp"
    target       \* "$target": whose file, and what it holds

installVars == <<desktop, result, streamed, script, staged, target>>

Bytes == {"partial", "whole"}
Scripts == {"none", "test", "mktemp", "cat", "sum", "chmod", "mv", "exit0", "exit1"}
Ended(i) == script[i] \in {"none", "exit0", "exit1"}

InstallInit ==
    /\ desktop = [i \in Installers |-> "idle"]
    /\ result = [i \in Installers |-> Absent]
    /\ streamed = [i \in Installers |-> "partial"]
    /\ script = [i \in Installers |-> "none"]
    /\ staged = [i \in Installers |-> Absent]
    /\ target = Absent
-----------------------------------------------------------------------------
(* The desktop.                                                            *)

Returns(i, outcome) ==
    /\ desktop' = [desktop EXCEPT ![i] = "done"]
    /\ result' = [result EXCEPT ![i] = outcome]

\* An artifact with the checksum that was reviewed, and ssh with the script.
Spawn(i) ==
    /\ desktop[i] = "idle"
    /\ desktop' = [desktop EXCEPT ![i] = "writing"]
    /\ script' = [script EXCEPT ![i] = "test"]
    /\ UNCHANGED <<result, streamed, staged, target>>

\* An artifact that is missing or is not the one that was reviewed, or ssh that does not
\* start.
SelectFails(i) ==
    /\ desktop[i] = "idle"
    /\ Returns(i, "failed")
    /\ UNCHANGED <<streamed, script, staged, target>>

\* write_all of the artifact, and the end of stdin.
WriteAll(i) ==
    /\ desktop[i] = "writing"
    /\ ~Ended(i)
    /\ desktop' = [desktop EXCEPT ![i] = "waiting"]
    /\ streamed' = [streamed EXCEPT ![i] = "whole"]
    /\ UNCHANGED <<result, script, staged, target>>
WriteFails(i) ==
    /\ desktop[i] = "writing"
    /\ Returns(i, "failed")
    /\ UNCHANGED <<streamed, script, staged, target>>

\* The loop: cancelled, past the deadline, or the status of ssh, which is that of the
\* script unless the connection is lost first.
GiveUp(i) ==
    /\ desktop[i] = "waiting"
    /\ Returns(i, "failed")
    /\ UNCHANGED <<streamed, script, staged, target>>
TryWait(i) ==
    /\ desktop[i] = "waiting"
    /\ Ended(i)
    /\ Returns(i, IF script[i] = "exit0" THEN "installed" ELSE "failed")
    /\ UNCHANGED <<streamed, script, staged, target>>
-----------------------------------------------------------------------------
(* The script, under set -e.                                               *)

Line(i, line) ==
    /\ script[i] = line
    /\ UNCHANGED <<desktop, result, streamed>>
Goto(i, line) == script' = [script EXCEPT ![i] = line]
Exit1(i) ==
    /\ script' = [script EXCEPT ![i] = "exit1"]
    /\ staged' = [staged EXCEPT ![i] = Absent]     \* the EXIT trap
    /\ UNCHANGED target

TestAbsent(i) ==
    /\ Line(i, "test")
    /\ Goto(i, IF target = Absent THEN "mktemp" ELSE "exit1")
    /\ UNCHANGED <<staged, target>>

Mktemp(i) ==
    /\ Line(i, "mktemp")
    /\ Goto(i, "cat")
    /\ staged' = [staged EXCEPT ![i] = "partial"]
    /\ UNCHANGED target

\* cat ends with its input: with all of it, or because the desktop is gone.
Cat(i) ==
    /\ Line(i, "cat")
    /\ desktop[i] \in {"waiting", "done"}
    /\ \/ Goto(i, "sum")
          /\ staged' = [staged EXCEPT ![i] = IF @ = Absent THEN Absent ELSE streamed[i]]
          /\ UNCHANGED target
       \/ desktop[i] = "done" /\ Exit1(i)

\* A script without the checksum test.
SumUntested(i) ==
    /\ Line(i, "sum")
    /\ Goto(i, "chmod")
    /\ UNCHANGED <<staged, target>>

Sum(i) ==
    /\ Line(i, "sum")
    /\ \/ /\ staged[i] = "whole"
          /\ Goto(i, "chmod")
          /\ UNCHANGED <<staged, target>>
       \/ staged[i] # "whole" /\ Exit1(i)

\* chmod 700 and mv: either fails without the file.
Chmod(i) ==
    /\ Line(i, "chmod")
    /\ \/ staged[i] # Absent /\ Goto(i, "mv") /\ UNCHANGED <<staged, target>>
       \/ staged[i] = Absent /\ Exit1(i)

Mv(i) ==
    /\ Line(i, "mv")
    /\ \/ /\ staged[i] # Absent
          /\ target' = [by |-> i, bytes |-> staged[i]]
          /\ staged' = [staged EXCEPT ![i] = Absent]
          /\ Goto(i, "exit0")
       \/ staged[i] = Absent /\ Exit1(i)

\* The HUP trap takes the file away, and the script goes on.
Hangup(i) ==
    /\ desktop[i] = "done" /\ ~Ended(i) /\ staged[i] # Absent
    /\ staged' = [staged EXCEPT ![i] = Absent]
    /\ UNCHANGED <<desktop, result, streamed, script, target>>

InstallNext ==
    \E i \in Installers :
        \/ Spawn(i) \/ SelectFails(i) \/ WriteAll(i) \/ WriteFails(i) \/ GiveUp(i) \/ TryWait(i)
        \/ TestAbsent(i) \/ Mktemp(i) \/ Cat(i) \/ Sum(i) \/ Chmod(i) \/ Mv(i) \/ Hangup(i)

InstallSpec == InstallInit /\ [][InstallNext]_installVars
-----------------------------------------------------------------------------
\* Type invariant.
InstallTypeOK ==
    /\ desktop \in [Installers -> {"idle", "writing", "waiting", "done"}]
    /\ result \in [Installers -> {Absent, "installed", "failed"}]
    /\ streamed \in [Installers -> Bytes]
    /\ script \in [Installers -> Scripts]
    /\ staged \in [Installers -> Bytes \cup {Absent}]
    /\ target = Absent \/ target \in [by : Installers, bytes : Bytes]

\* What is at the path that connections execute is a whole helper, whoever gave up, was
\* cut off or hung up while it was on its way, and a desktop that is told the helper is
\* installed finds one; a script that has ended leaves no temporary file.
InstalledIsWhole ==
    /\ target # Absent => target.bytes = "whole"
    /\ \A i \in Installers :
         /\ result[i] = "installed" => target # Absent
         /\ Ended(i) => staged[i] = Absent

\* A helper that is in place is not overwritten by another installation.
InstalledIsKept == [][target # Absent => target' = target]_installVars
=============================================================================
