---------------------------------- MODULE Shim ----------------------------------
(***************************************************************************)
(* The shim (src/staticpy), in as many shells as one likes and without a    *)
(* lock: it rebuilds the binary when a source file is newer, asks it for    *)
(* the toolchain that the command needs, fetches that one, and runs it.     *)
(*                                                                         *)
(* Bound: the shells have process numbers of their own.  In two containers *)
(* with one number they would share a staging directory.                   *)
(***************************************************************************)
EXTENDS Naturals, FiniteSets

CONSTANTS Shims, MaxEdits, MaxKills

VARIABLES
  source,          \* how often the sources changed
  newer,           \* whether a source file is newer than the binary
  binary,          \* {} or {[made, whole, excused]}: made from which sources
  toolchain,       \* {} or {[body, inside]}: inside, a second one that was moved into it
  staging,         \* shim -> {} or {half} or {whole}
  shim             \* shim -> what it does

shimVars == <<source, newer, binary, toolchain, staging, shim>>

NoShim == [at |-> "off", asked |-> 0, read |-> 0, edited |-> FALSE, needs |-> FALSE, answered |-> FALSE, ran |-> {}]
Moves(s, at) == shim' = [shim EXCEPT ![s].at = at]
Ends(s, at) == shim' = [shim EXCEPT ![s] = [NoShim EXCEPT !.at = at]]
Dead == {s \in Shims : shim[s].at = "killed"}

ShimInit ==
  /\ source = 0 /\ newer = FALSE /\ binary = {} /\ toolchain = {}
  /\ staging = [s \in Shims |-> {}] /\ shim = [s \in Shims |-> NoShim]

\* Bound: shims are numbered in the order in which they start.
Start(s, needs) ==
  /\ shim[s].at = "off" /\ \A t \in Shims : t < s => shim[t].at # "off"
  /\ shim' = [shim EXCEPT ![s].at = "looking", ![s].needs = needs, ![s].asked = source]
  /\ UNCHANGED <<source, newer, binary, toolchain, staging>>

\* Slip: a binary that is there will do.
OnlyMissing == binary = {}
NeedsRebuild == binary = {} \/ newer

Look(s) ==
  /\ shim[s].at = "looking"
  /\ shim' = [shim EXCEPT ![s].at = IF NeedsRebuild THEN "building" ELSE "planning",
                          ![s].read = IF NeedsRebuild THEN source ELSE 0]
  /\ UNCHANGED <<source, newer, binary, toolchain, staging>>

\* go build has read the sources when it writes the binary.
BuildBinary(s, ok) ==
  /\ shim[s].at = "building"
  /\ IF ok THEN shim' = [shim EXCEPT ![s].at = "planning", ![s].read = 0, ![s].edited = FALSE]
           ELSE Ends(s, "failed")
  /\ binary' = IF ok THEN {[made |-> shim[s].read, whole |-> TRUE, excused |-> shim[s].edited]} ELSE binary
  /\ newer' = (newer /\ ~ok)
  /\ UNCHANGED <<source, toolchain, staging>>

\* What the binary answers about itself is lost if it cannot run.
Provision(s) ==
  /\ shim[s].at = "planning"
  /\ LET works == \A b \in binary : b.whole
     IN  shim' = [shim EXCEPT ![s].answered = works,
                              ![s].at = IF works /\ shim[s].needs /\ toolchain = {} THEN "wanting" ELSE "ready"]
  /\ UNCHANGED <<source, newer, binary, toolchain, staging>>

SeeToolchain(s) ==
  /\ shim[s].at = "wanting"
  /\ Moves(s, IF toolchain # {} THEN "ready" ELSE "fetching")
  /\ UNCHANGED <<source, newer, binary, toolchain, staging>>

\* curl fails, or a tarball breaks off or holds no directory.
FetchFails(s) ==
  /\ shim[s].at \in {"fetching", "unpacking"}
  /\ Ends(s, "failed")
  /\ \E clean \in BOOLEAN : staging' = IF clean THEN [staging EXCEPT ![s] = {}] ELSE staging
  /\ UNCHANGED <<source, newer, binary, toolchain>>

Unpack(s) ==
  /\ shim[s].at = "fetching" /\ Moves(s, "unpacking")
  /\ staging' = [staging EXCEPT ![s] = {"half"}]
  /\ UNCHANGED <<source, newer, binary, toolchain>>

Unpacked(s) ==
  /\ shim[s].at = "unpacking" /\ Moves(s, "moving")
  /\ staging' = [staging EXCEPT ![s] = {"whole"}]
  /\ UNCHANGED <<source, newer, binary, toolchain>>

\* mv puts it inside a directory that is there by now, but not into one that
\* has something of that name already.
Move(s) ==
  LET fails == \E t \in toolchain : t.inside
  IN  /\ shim[s].at = "moving"
      /\ IF fails THEN Ends(s, "failed") ELSE Moves(s, "ready")
      /\ toolchain' = IF toolchain = {} THEN {[body |-> b, inside |-> FALSE] : b \in staging[s]}
                      ELSE {[t EXCEPT !.inside = TRUE] : t \in toolchain}
      /\ staging' = IF fails THEN staging ELSE [staging EXCEPT ![s] = {}]
      /\ UNCHANGED <<source, newer, binary>>

Exec(s) ==
  /\ shim[s].at = "ready"
  /\ shim' = [shim EXCEPT ![s].at = "running", ![s].ran = binary]
  /\ UNCHANGED <<source, newer, binary, toolchain, staging>>

\* go build moves the binary into place, or copies it and may be killed there.
Kill(s, half) ==
  /\ shim[s].at \notin {"off", "running", "failed", "killed"} /\ Cardinality(Dead) < MaxKills
  /\ half => shim[s].at = "building"
  /\ Ends(s, "killed")
  /\ binary' = IF half THEN {[made |-> shim[s].read, whole |-> FALSE, excused |-> TRUE]} ELSE binary
  /\ newer' = (newer /\ ~half)
  /\ UNCHANGED <<source, toolchain, staging>>

\* A source file is written; or one is deleted, or put back with its old time.
Change(seen) ==
  /\ source < MaxEdits /\ source' = source + 1
  /\ newer' = (newer \/ seen)
  /\ binary' = {[b EXCEPT !.excused = @ \/ ~seen] : b \in binary}
  /\ shim' = [s \in Shims |-> [shim[s] EXCEPT !.edited = shim[s].at = "building"]]
  /\ UNCHANGED <<toolchain, staging>>

ShimNext ==
  \/ \E s \in Shims :
       \/ \E b \in BOOLEAN : Start(s, b) \/ BuildBinary(s, b) \/ Kill(s, b)
       \/ Look(s) \/ Provision(s) \/ SeeToolchain(s) \/ FetchFails(s)
       \/ Unpack(s) \/ Unpacked(s) \/ Move(s) \/ Exec(s)
  \/ \E seen \in BOOLEAN : Change(seen)

ShimSpec == ShimInit /\ [][ShimNext]_shimVars

--------------------------------------------------------------------------------
(* Properties.                                                             *)

\* Only a shim that died leaves a staging directory behind.
ShimTypeOK ==
  \A s \in Shims : staging[s] # {} => shim[s].at \in {"unpacking", "moving", "failed", "killed"}

\* needs_rebuild is "wrong only in the direction of rebuilding too often": what
\* a shim runs was made from the sources it found or later ones, but for a file
\* deleted or put back since, a change while go build ran, and a go build that
\* was killed as it copied.
RunsItsSources ==
  \A s \in Shims : shim[s].at = "running" => \A b \in shim[s].ran : b.excused \/ b.made >= shim[s].asked

\* Whoever sees a toolchain sees all of it (fetch_toolchain takes a directory
\* that is there on trust), also when shims race for it or die on the way.
ToolchainIsWhole == \A t \in toolchain : t.body = "whole"

\* No command runs without the toolchain that it said it needs, although the
\* loop that fetches it is a shell of its own, at the end of a pipe.
ProvisionedAtExec ==
  \A s \in Shims : shim[s].at = "running" /\ shim[s].needs /\ shim[s].answered => toolchain # {}

\* Shims without a lock do not run what is not whole or not theirs to run.
ShimsRunWhatTheyNeed == ShimTypeOK /\ RunsItsSources /\ ToolchainIsWhole /\ ProvisionedAtExec
================================================================================
