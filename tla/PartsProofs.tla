------------------------------ MODULE PartsProofs ------------------------------
(***************************************************************************)
(* Theorems about the parts that run inside one command or one job: the    *)
(* configuration that a command loads, the source trees and the sysroots   *)
(* that a job composes, the verification of an interpreter, and the shim,  *)
(* for any number of files, entries, libraries, checks and shells.         *)
(***************************************************************************)
EXTENDS Shim, SysrootTree, SourceTree, Verdict, Config, Walks, FiniteSetTheorems

(***************************************************************************)
(* The shim.                                                               *)
(***************************************************************************)

ShimRecords ==
  [at : {"off", "looking", "building", "planning", "wanting", "fetching", "unpacking", "moving",
         "ready", "running", "failed", "killed"},
   asked : Nat, read : Nat, edited : BOOLEAN, needs : BOOLEAN, answered : BOOLEAN,
   ran : SUBSET [made : Nat, whole : BOOLEAN, excused : BOOLEAN]]

ShimTypes ==
  /\ source \in Nat /\ newer \in BOOLEAN
  /\ binary \in SUBSET [made : Nat, whole : BOOLEAN, excused : BOOLEAN]
  /\ toolchain \in SUBSET [body : {"half", "whole"}, inside : BOOLEAN]
  /\ staging \in [Shims -> SUBSET {"half", "whole"}]
  /\ shim \in [Shims -> ShimRecords]

\* What a staging directory holds, shim by shim: only what is whole is moved.
StagingFits ==
  \A s \in Shims : /\ shim[s].at = "unpacking" => staging[s] = {"half"}
                   /\ shim[s].at = "moving" => staging[s] = {"whole"}

\* No shim has asked for, or read, sources that are still to come, and one that
\* builds either has read the latest or knows of the change it ran into.
AsksThePast ==
  \A s \in Shims : /\ shim[s].asked <= source /\ shim[s].read <= source
                   /\ shim[s].at = "building" => shim[s].edited \/ shim[s].read = source

\* A binary with no newer source beside it is of the latest sources.
UpToDate == ~newer => \A b \in binary : b.excused \/ b.made = source

\* A shim that found the binary good, or built it, has one that is good for it.
HasItsBinary ==
  \A s \in Shims :
    shim[s].at \in {"planning", "wanting", "fetching", "unpacking", "moving", "ready"}
      => \A b \in binary : b.excused \/ b.made >= shim[s].asked

\* A shim that is about to run has seen the toolchain, and nothing removes one.
HasItsToolchain ==
  \A s \in Shims : shim[s].at \in {"ready", "running"} /\ shim[s].needs /\ shim[s].answered => toolchain # {}

ShimInv ==
  /\ ShimTypes /\ ShimTypeOK /\ StagingFits /\ AsksThePast /\ UpToDate
  /\ HasItsBinary /\ RunsItsSources /\ ToolchainIsWhole /\ HasItsToolchain

LEMMA ShimSet ==
  ASSUME NEW f \in [Shims -> ShimRecords], NEW s \in Shims, NEW r \in ShimRecords
  PROVE  [f EXCEPT ![s] = r] \in [Shims -> ShimRecords]
  OBVIOUS

LEMMA NoShimIsOne ==
  ASSUME NEW at \in {"off", "failed", "killed"}
  PROVE  [NoShim EXCEPT !.at = at] \in ShimRecords
  BY DEF NoShim, ShimRecords

(* Every step that writes several fields of a shim leaves a record of a shim. *)
LEMMA TypedStart == ASSUME ShimInv, NEW s \in Shims, NEW b \in BOOLEAN, Start(s, b) PROVE ShimTypes'
<1>1. shim[s] \in ShimRecords
  BY DEF ShimInv, ShimTypes
<1>2. [shim[s] EXCEPT !.at = "looking", !.needs = b, !.asked = source] \in ShimRecords
  BY <1>1 DEF ShimRecords, ShimInv, ShimTypes
<1>3. shim' = [shim EXCEPT ![s] = [shim[s] EXCEPT !.at = "looking", !.needs = b, !.asked = source]]
  BY DEF Start, ShimInv, ShimTypes
<1> QED
  BY <1>2, <1>3, ShimSet DEF Start, ShimInv, ShimTypes

LEMMA TypedLook == ASSUME ShimInv, NEW s \in Shims, Look(s) PROVE ShimTypes'
<1>1. shim[s] \in ShimRecords
  BY DEF ShimInv, ShimTypes
<1> DEFINE r == [shim[s] EXCEPT !.at = IF NeedsRebuild THEN "building" ELSE "planning",
                          !.read = IF NeedsRebuild THEN source ELSE 0]
<1>2. r \in ShimRecords
  BY <1>1 DEF ShimRecords, ShimInv, ShimTypes
<1>3. shim' = [shim EXCEPT ![s] = r]
  BY DEF Look, ShimInv, ShimTypes
<1> QED
  BY <1>2, <1>3, ShimSet DEF Look, ShimInv, ShimTypes

LEMMA TypedBuild == ASSUME ShimInv, NEW s \in Shims, NEW b \in BOOLEAN, BuildBinary(s, b) PROVE ShimTypes'
<1>1. shim[s] \in ShimRecords
  BY DEF ShimInv, ShimTypes
<1>2. b => [shim[s] EXCEPT !.at = "planning", !.read = 0, !.edited = FALSE] \in ShimRecords
  BY <1>1 DEF ShimRecords, ShimInv, ShimTypes
<1>3. b => shim' = [shim EXCEPT ![s] = [shim[s] EXCEPT !.at = "planning", !.read = 0, !.edited = FALSE]]
  BY DEF BuildBinary, ShimInv, ShimTypes
<1>4. shim' \in [Shims -> ShimRecords]
  BY <1>2, <1>3, ShimSet, NoShimIsOne DEF BuildBinary, Ends, ShimInv, ShimTypes
<1>5. binary' \in SUBSET [made : Nat, whole : BOOLEAN, excused : BOOLEAN]
  BY <1>1 DEF BuildBinary, ShimInv, ShimTypes, ShimRecords
<1> QED
  BY <1>4, <1>5 DEF BuildBinary, ShimInv, ShimTypes

LEMMA TypedProvision == ASSUME ShimInv, NEW s \in Shims, Provision(s) PROVE ShimTypes'
<1>1. shim[s] \in ShimRecords
  BY DEF ShimInv, ShimTypes
<1>2. PICK at \in {"wanting", "ready"}, works \in BOOLEAN :
        shim' = [shim EXCEPT ![s] = [shim[s] EXCEPT !.answered = works, !.at = at]]
  BY <1>1 DEF Provision, ShimInv, ShimTypes
<1>3. [shim[s] EXCEPT !.answered = works, !.at = at] \in ShimRecords
  BY <1>1 DEF ShimRecords
<1>4. shim' \in [Shims -> ShimRecords]
  BY <1>2, <1>3, ShimSet DEF ShimInv, ShimTypes
<1> QED
  BY <1>4 DEF Provision, ShimInv, ShimTypes

LEMMA TypedMove == ASSUME ShimInv, NEW s \in Shims, Move(s) PROVE ShimTypes'
<1>1. shim[s] \in ShimRecords
  BY DEF ShimInv, ShimTypes
<1>2. [shim[s] EXCEPT !.at = "ready"] \in ShimRecords
  BY <1>1 DEF ShimRecords
<1>3. shim' \in [Shims -> ShimRecords]
  BY <1>2, ShimSet, NoShimIsOne DEF Move, Moves, Ends, ShimInv, ShimTypes
<1>4. toolchain' \in SUBSET [body : {"half", "whole"}, inside : BOOLEAN]
  <2>1. CASE toolchain = {}
    <3>1. staging[s] = {"whole"}
      BY DEF Move, ShimInv, StagingFits
    <3>2. toolchain' = {[body |-> b, inside |-> FALSE] : b \in {"whole"}}
      BY <2>1, <3>1 DEF Move
    <3>3. toolchain' = {[body |-> "whole", inside |-> FALSE]}
      BY <3>2
    <3> QED
      BY <3>3
  <2>2. CASE toolchain # {}
    <3>1. toolchain' = {[t EXCEPT !.inside = TRUE] : t \in toolchain}
      BY <2>2 DEF Move
    <3>2. \A t \in toolchain : [t EXCEPT !.inside = TRUE] \in [body : {"half", "whole"}, inside : BOOLEAN]
      BY DEF ShimInv, ShimTypes
    <3> QED
      BY <3>1, <3>2
  <2> QED
    BY <2>1, <2>2
<1>5. staging' \in [Shims -> SUBSET {"half", "whole"}]
  BY DEF Move, ShimInv, ShimTypes
<1> QED
  BY <1>3, <1>4, <1>5 DEF Move, ShimInv, ShimTypes

LEMMA TypedExec == ASSUME ShimInv, NEW s \in Shims, Exec(s) PROVE ShimTypes'
<1>1. shim[s] \in ShimRecords
  BY DEF ShimInv, ShimTypes
<1>2. [shim[s] EXCEPT !.at = "running", !.ran = binary] \in ShimRecords
  BY <1>1 DEF ShimRecords, ShimInv, ShimTypes
<1>3. shim' = [shim EXCEPT ![s] = [shim[s] EXCEPT !.at = "running", !.ran = binary]]
  BY DEF Exec, ShimInv, ShimTypes
<1> QED
  BY <1>2, <1>3, ShimSet DEF Exec, ShimInv, ShimTypes

LEMMA TypedKill == ASSUME ShimInv, NEW s \in Shims, NEW b \in BOOLEAN, Kill(s, b) PROVE ShimTypes'
<1>1. shim[s] \in ShimRecords
  BY DEF ShimInv, ShimTypes
<1>2. shim' \in [Shims -> ShimRecords]
  BY ShimSet, NoShimIsOne DEF Kill, Ends, ShimInv, ShimTypes
<1>3. binary' \in SUBSET [made : Nat, whole : BOOLEAN, excused : BOOLEAN]
  BY <1>1 DEF Kill, ShimInv, ShimTypes, ShimRecords
<1> QED
  BY <1>2, <1>3 DEF Kill, ShimInv, ShimTypes

LEMMA TypedChange == ASSUME ShimInv, NEW b \in BOOLEAN, Change(b) PROVE ShimTypes'
<1> DEFINE Struck(x) == shim[x].at = "building"
<1>0. \A x \in Shims, e \in BOOLEAN : [shim[x] EXCEPT !.edited = e] \in ShimRecords
  BY DEF ShimInv, ShimTypes, ShimRecords
<1>1. \A x \in Shims : [shim[x] EXCEPT !.edited = Struck(x)] \in ShimRecords
  <2>1. \A x : Struck(x) \in BOOLEAN
    OBVIOUS
  <2> HIDE DEF Struck
  <2> QED
    BY <1>0, <2>1, Zenon
<1>2. shim' \in [Shims -> ShimRecords]
  BY <1>1 DEF Change
<1>3. \A x \in binary : [x EXCEPT !.excused = @ \/ ~b] \in [made : Nat, whole : BOOLEAN, excused : BOOLEAN]
  BY DEF ShimInv, ShimTypes
<1>4. binary' \in SUBSET [made : Nat, whole : BOOLEAN, excused : BOOLEAN]
  BY <1>3 DEF Change
<1> QED
  BY <1>2, <1>4 DEF Change, ShimInv, ShimTypes

LEMMA ShimStarts == ShimInit => ShimInv
<1> SUFFICES ASSUME ShimInit PROVE ShimInv
  OBVIOUS
<1>1. NoShim \in ShimRecords /\ NoShim.at = "off" /\ NoShim.asked = 0 /\ NoShim.read = 0
  BY DEF NoShim, ShimRecords
<1>2. \A s \in Shims : shim[s] = NoShim /\ staging[s] = {}
  BY DEF ShimInit
<1>3. ShimTypes
  BY <1>1 DEF ShimInit, ShimTypes
<1>4. StagingFits /\ AsksThePast /\ HasItsBinary /\ RunsItsSources /\ HasItsToolchain /\ ShimTypeOK
  BY <1>1, <1>2 DEF ShimInit, StagingFits, AsksThePast, HasItsBinary, RunsItsSources, HasItsToolchain, ShimTypeOK
<1> QED
  BY <1>3, <1>4 DEF ShimInv, ShimInit, UpToDate, ToolchainIsWhole

\* A shim that does not rebuild has found no newer source, so its binary is of the
\* latest sources, which include those it asked for.
LEMMA LookFindsTheBinary == ASSUME ShimInv, NEW s \in Shims, Look(s) PROVE HasItsBinary'
<1>1. CASE NeedsRebuild
  <2>1. \A x \in Shims \ {s} : shim'[x] = shim[x]
    BY DEF Look, ShimInv, ShimTypes
  <2>2. shim'[s].at = "building"
    BY <1>1 DEF Look, ShimInv, ShimTypes, ShimRecords
  <2> QED
    BY <2>1, <2>2 DEF Look, ShimInv, HasItsBinary
<1>2. CASE ~NeedsRebuild
  <2>1. \A x \in Shims \ {s} : shim'[x] = shim[x]
    BY DEF Look, ShimInv, ShimTypes
  <2>2. shim'[s].asked = shim[s].asked
    BY <1>2 DEF Look, ShimInv, ShimTypes, ShimRecords
  <2>3. \A b \in binary : b.excused \/ b.made >= shim[s].asked
    BY <1>2 DEF NeedsRebuild, ShimInv, ShimTypes, ShimRecords, UpToDate, AsksThePast
  <2> QED
    BY <2>1, <2>2, <2>3 DEF Look, ShimInv, HasItsBinary
<1> QED
  BY <1>1, <1>2

\* What go build writes was read from the latest sources, or is excused: so the
\* binary is good for every other shim under way as well.
LEMMA BuiltIsUpToDate == ASSUME ShimInv, NEW s \in Shims, NEW b \in BOOLEAN, BuildBinary(s, b) PROVE UpToDate' /\ HasItsBinary'
<1>1. CASE b
  <2> DEFINE made == [made |-> shim[s].read, whole |-> TRUE, excused |-> shim[s].edited]
  <2>1. binary' = {made} /\ source' = source
    BY <1>1 DEF BuildBinary
  <2>2. made.excused \/ made.made = source
    BY DEF BuildBinary, ShimInv, AsksThePast
  <2>3. \A x \in Shims : shim'[x].asked = shim[x].asked
    BY <1>1 DEF BuildBinary, ShimInv, ShimTypes, ShimRecords
  <2>4. \A x \in Shims : shim[x].asked <= source
    BY DEF ShimInv, AsksThePast
  <2> HIDE DEF made
  <2>5. \A x \in Shims : made.excused \/ made.made >= shim'[x].asked
    BY <2>2, <2>3, <2>4 DEF ShimInv, ShimTypes, ShimRecords
  <2> QED
    BY <2>1, <2>2, <2>5 DEF UpToDate, HasItsBinary
<1>2. CASE ~b
  <2>1. binary' = binary /\ source' = source /\ newer' = newer
    BY <1>2 DEF BuildBinary, ShimInv, ShimTypes
  <2>2. \A x \in Shims : shim'[x] = shim[x] \/ shim'[x].at = "failed"
    BY <1>2 DEF BuildBinary, Ends, NoShim, ShimInv, ShimTypes
  <2> QED
    BY <2>1, <2>2 DEF UpToDate, HasItsBinary, ShimInv
<1> QED
  BY <1>1, <1>2

\* mv makes a whole toolchain, and leaves one that is there whole.
LEMMA MovedIsWhole == ASSUME ShimInv, NEW s \in Shims, Move(s) PROVE ToolchainIsWhole' /\ HasItsToolchain'
<1>1. staging[s] = {"whole"}
  BY DEF Move, ShimInv, StagingFits
<1>2. CASE toolchain = {}
  <2>1. toolchain' = {[body |-> b, inside |-> FALSE] : b \in {"whole"}}
    BY <1>1, <1>2 DEF Move
  <2>2. [body |-> "whole", inside |-> FALSE] \in toolchain'
    BY <2>1
  <2>3. \A t \in toolchain' : t.body = "whole"
    BY <2>1
  <2> QED
    BY <2>2, <2>3 DEF ToolchainIsWhole, HasItsToolchain
<1>3. CASE toolchain # {}
  <2>1. toolchain' = {[t EXCEPT !.inside = TRUE] : t \in toolchain}
    BY <1>3 DEF Move
  <2>2. \A t \in toolchain : [t EXCEPT !.inside = TRUE].body = "whole"
    BY DEF ShimInv, ShimTypes, ToolchainIsWhole
  <2>3. toolchain' # {}
    BY <1>3, <2>1
  <2> QED
    BY <2>1, <2>2, <2>3 DEF ToolchainIsWhole, HasItsToolchain
<1> QED
  BY <1>2, <1>3

\* What a shim runs is the binary that it found good.
LEMMA ExecRunsTheBinary == ASSUME ShimInv, NEW s \in Shims, Exec(s) PROVE RunsItsSources'
<1>1. \A x \in Shims \ {s} : shim'[x] = shim[x]
  BY DEF Exec, ShimInv, ShimTypes
<1>2. shim'[s].ran = binary /\ shim'[s].asked = shim[s].asked
  BY DEF Exec, ShimInv, ShimTypes, ShimRecords
<1>3. \A b \in binary : b.excused \/ b.made >= shim[s].asked
  BY DEF Exec, ShimInv, HasItsBinary
<1> QED
  BY <1>1, <1>2, <1>3 DEF ShimInv, RunsItsSources

\* A change is ahead of whatever was read, and a shim that builds notices it.
LEMMA ChangeIsAhead == ASSUME ShimInv, NEW b \in BOOLEAN, Change(b) PROVE AsksThePast'
<1>1. \A x \in Shims : shim'[x].asked = shim[x].asked /\ shim'[x].read = shim[x].read /\ shim'[x].at = shim[x].at
  BY DEF Change, ShimInv, ShimTypes, ShimRecords
<1>3. \A x \in Shims : shim[x].at = "building" => shim'[x].edited
  BY DEF Change, ShimInv, ShimTypes, ShimRecords
<1>2. \A x \in Shims : shim[x].asked \in Nat /\ shim[x].read \in Nat
  BY DEF ShimInv, ShimTypes, ShimRecords
<1> QED
  BY <1>1, <1>2, <1>3 DEF Change, ShimInv, ShimTypes, AsksThePast

\* However many shims run side by side, without a lock, and whenever one fails, is
\* killed or finds a file changed: each runs a binary of the sources it asked for or
\* later ones, but for the excuses that RunsItsSources names, next to a whole
\* toolchain if it needs one, and only a dead one leaves a staging directory.
THEOREM ShimsAreServed == ShimSpec => []ShimsRunWhatTheyNeed
<1>1. ShimInit => ShimInv
  BY ShimStarts
<1>2. ShimInv /\ [ShimNext]_shimVars => ShimInv'
  <2> SUFFICES ASSUME ShimInv, [ShimNext]_shimVars PROVE ShimInv'
    OBVIOUS
  <2> USE DEF ShimInv
  <2>1. ASSUME NEW s \in Shims, NEW b \in BOOLEAN, Start(s, b) PROVE ShimInv'
    <3>1. ShimTypes'
      BY <2>1, TypedStart
    <3>2. ShimTypeOK'
      BY <2>1 DEF Start, ShimTypes, ShimRecords, ShimTypeOK
    <3>3. StagingFits'
      BY <2>1 DEF Start, ShimTypes, ShimRecords, StagingFits
    <3>4. AsksThePast'
      BY <2>1 DEF Start, ShimTypes, ShimRecords, AsksThePast
    <3>5. UpToDate'
      BY <2>1 DEF Start, ShimTypes, ShimRecords, UpToDate
    <3>6. HasItsBinary'
      BY <2>1 DEF Start, ShimTypes, ShimRecords, HasItsBinary
    <3>7. RunsItsSources'
      BY <2>1 DEF Start, ShimTypes, ShimRecords, RunsItsSources
    <3>8. ToolchainIsWhole'
      BY <2>1 DEF Start, ShimTypes, ShimRecords, ToolchainIsWhole
    <3>9. HasItsToolchain'
      BY <2>1 DEF Start, ShimTypes, ShimRecords, HasItsToolchain
    <3> QED
      BY <3>1, <3>2, <3>3, <3>4, <3>5, <3>6, <3>7, <3>8, <3>9
  <2>2. ASSUME NEW s \in Shims, Look(s) PROVE ShimInv'
    <3>1. ShimTypes'
      BY <2>2, TypedLook
    <3>2. ShimTypeOK'
      BY <2>2 DEF Look, NeedsRebuild, ShimTypes, ShimRecords, ShimTypeOK
    <3>3. StagingFits'
      BY <2>2 DEF Look, NeedsRebuild, ShimTypes, ShimRecords, StagingFits
    <3>4. AsksThePast'
      BY <2>2 DEF Look, NeedsRebuild, ShimTypes, ShimRecords, AsksThePast
    <3>5. UpToDate'
      BY <2>2 DEF Look, NeedsRebuild, ShimTypes, ShimRecords, UpToDate
    <3>6. HasItsBinary'
      BY <2>2, LookFindsTheBinary
    <3>7. RunsItsSources'
      BY <2>2 DEF Look, NeedsRebuild, ShimTypes, ShimRecords, RunsItsSources
    <3>8. ToolchainIsWhole'
      BY <2>2 DEF Look, NeedsRebuild, ShimTypes, ShimRecords, ToolchainIsWhole
    <3>9. HasItsToolchain'
      BY <2>2 DEF Look, NeedsRebuild, ShimTypes, ShimRecords, HasItsToolchain
    <3> QED
      BY <3>1, <3>2, <3>3, <3>4, <3>5, <3>6, <3>7, <3>8, <3>9
  <2>3. ASSUME NEW s \in Shims, NEW b \in BOOLEAN, BuildBinary(s, b) PROVE ShimInv'
    <3>1. ShimTypes'
      BY <2>3, TypedBuild
    <3>2. ShimTypeOK'
      BY <2>3 DEF BuildBinary, Ends, NoShim, ShimTypes, ShimRecords, ShimTypeOK
    <3>3. StagingFits'
      BY <2>3 DEF BuildBinary, Ends, NoShim, ShimTypes, ShimRecords, StagingFits
    <3>4. AsksThePast'
      BY <2>3 DEF BuildBinary, Ends, NoShim, ShimTypes, ShimRecords, AsksThePast
    <3>5. UpToDate'
      BY <2>3, BuiltIsUpToDate
    <3>6. HasItsBinary'
      BY <2>3, BuiltIsUpToDate
    <3>7. RunsItsSources'
      BY <2>3 DEF BuildBinary, Ends, NoShim, ShimTypes, ShimRecords, RunsItsSources
    <3>8. ToolchainIsWhole'
      BY <2>3 DEF BuildBinary, Ends, NoShim, ShimTypes, ShimRecords, ToolchainIsWhole
    <3>9. HasItsToolchain'
      BY <2>3 DEF BuildBinary, Ends, NoShim, ShimTypes, ShimRecords, HasItsToolchain
    <3> QED
      BY <3>1, <3>2, <3>3, <3>4, <3>5, <3>6, <3>7, <3>8, <3>9
  <2>4. ASSUME NEW s \in Shims, Provision(s) PROVE ShimInv'
    <3>1. ShimTypes'
      BY <2>4, TypedProvision
    <3>2. ShimTypeOK'
      BY <2>4 DEF Provision, ShimTypes, ShimRecords, ShimTypeOK
    <3>3. StagingFits'
      BY <2>4 DEF Provision, ShimTypes, ShimRecords, StagingFits
    <3>4. AsksThePast'
      BY <2>4 DEF Provision, ShimTypes, ShimRecords, AsksThePast
    <3>5. UpToDate'
      BY <2>4 DEF Provision, ShimTypes, ShimRecords, UpToDate
    <3>6. HasItsBinary'
      BY <2>4 DEF Provision, ShimTypes, ShimRecords, HasItsBinary
    <3>7. RunsItsSources'
      BY <2>4 DEF Provision, ShimTypes, ShimRecords, RunsItsSources
    <3>8. ToolchainIsWhole'
      BY <2>4 DEF Provision, ShimTypes, ShimRecords, ToolchainIsWhole
    <3>9. HasItsToolchain'
      BY <2>4 DEF Provision, ShimTypes, ShimRecords, HasItsToolchain
    <3> QED
      BY <3>1, <3>2, <3>3, <3>4, <3>5, <3>6, <3>7, <3>8, <3>9
  <2>5. ASSUME NEW s \in Shims, SeeToolchain(s) PROVE ShimInv'
    <3>1. ShimTypes'
      BY <2>5 DEF SeeToolchain, Moves, ShimTypes, ShimRecords
    <3>2. ShimTypeOK'
      BY <2>5 DEF SeeToolchain, Moves, ShimTypes, ShimRecords, ShimTypeOK
    <3>3. StagingFits'
      BY <2>5 DEF SeeToolchain, Moves, ShimTypes, ShimRecords, StagingFits
    <3>4. AsksThePast'
      BY <2>5 DEF SeeToolchain, Moves, ShimTypes, ShimRecords, AsksThePast
    <3>5. UpToDate'
      BY <2>5 DEF SeeToolchain, Moves, ShimTypes, ShimRecords, UpToDate
    <3>6. HasItsBinary'
      BY <2>5 DEF SeeToolchain, Moves, ShimTypes, ShimRecords, HasItsBinary
    <3>7. RunsItsSources'
      BY <2>5 DEF SeeToolchain, Moves, ShimTypes, ShimRecords, RunsItsSources
    <3>8. ToolchainIsWhole'
      BY <2>5 DEF SeeToolchain, Moves, ShimTypes, ShimRecords, ToolchainIsWhole
    <3>9. HasItsToolchain'
      BY <2>5 DEF SeeToolchain, Moves, ShimTypes, ShimRecords, HasItsToolchain
    <3> QED
      BY <3>1, <3>2, <3>3, <3>4, <3>5, <3>6, <3>7, <3>8, <3>9
  <2>6. ASSUME NEW s \in Shims, FetchFails(s) PROVE ShimInv'
    <3>1. ShimTypes'
      BY <2>6 DEF FetchFails, Ends, NoShim, ShimTypes, ShimRecords
    <3>2. ShimTypeOK'
      BY <2>6 DEF FetchFails, Ends, NoShim, ShimTypes, ShimRecords, ShimTypeOK
    <3>3. StagingFits'
      BY <2>6 DEF FetchFails, Ends, NoShim, ShimTypes, ShimRecords, StagingFits
    <3>4. AsksThePast'
      BY <2>6 DEF FetchFails, Ends, NoShim, ShimTypes, ShimRecords, AsksThePast
    <3>5. UpToDate'
      BY <2>6 DEF FetchFails, Ends, NoShim, ShimTypes, ShimRecords, UpToDate
    <3>6. HasItsBinary'
      BY <2>6 DEF FetchFails, Ends, NoShim, ShimTypes, ShimRecords, HasItsBinary
    <3>7. RunsItsSources'
      BY <2>6 DEF FetchFails, Ends, NoShim, ShimTypes, ShimRecords, RunsItsSources
    <3>8. ToolchainIsWhole'
      BY <2>6 DEF FetchFails, Ends, NoShim, ShimTypes, ShimRecords, ToolchainIsWhole
    <3>9. HasItsToolchain'
      BY <2>6 DEF FetchFails, Ends, NoShim, ShimTypes, ShimRecords, HasItsToolchain
    <3> QED
      BY <3>1, <3>2, <3>3, <3>4, <3>5, <3>6, <3>7, <3>8, <3>9
  <2>7. ASSUME NEW s \in Shims, Unpack(s) PROVE ShimInv'
    <3>1. ShimTypes'
      BY <2>7 DEF Unpack, Moves, ShimTypes, ShimRecords
    <3>2. ShimTypeOK'
      BY <2>7 DEF Unpack, Moves, ShimTypes, ShimRecords, ShimTypeOK
    <3>3. StagingFits'
      BY <2>7 DEF Unpack, Moves, ShimTypes, ShimRecords, StagingFits
    <3>4. AsksThePast'
      BY <2>7 DEF Unpack, Moves, ShimTypes, ShimRecords, AsksThePast
    <3>5. UpToDate'
      BY <2>7 DEF Unpack, Moves, ShimTypes, ShimRecords, UpToDate
    <3>6. HasItsBinary'
      BY <2>7 DEF Unpack, Moves, ShimTypes, ShimRecords, HasItsBinary
    <3>7. RunsItsSources'
      BY <2>7 DEF Unpack, Moves, ShimTypes, ShimRecords, RunsItsSources
    <3>8. ToolchainIsWhole'
      BY <2>7 DEF Unpack, Moves, ShimTypes, ShimRecords, ToolchainIsWhole
    <3>9. HasItsToolchain'
      BY <2>7 DEF Unpack, Moves, ShimTypes, ShimRecords, HasItsToolchain
    <3> QED
      BY <3>1, <3>2, <3>3, <3>4, <3>5, <3>6, <3>7, <3>8, <3>9
  <2>8. ASSUME NEW s \in Shims, Unpacked(s) PROVE ShimInv'
    <3>1. ShimTypes'
      BY <2>8 DEF Unpacked, Moves, ShimTypes, ShimRecords
    <3>2. ShimTypeOK'
      BY <2>8 DEF Unpacked, Moves, ShimTypes, ShimRecords, ShimTypeOK
    <3>3. StagingFits'
      BY <2>8 DEF Unpacked, Moves, ShimTypes, ShimRecords, StagingFits
    <3>4. AsksThePast'
      BY <2>8 DEF Unpacked, Moves, ShimTypes, ShimRecords, AsksThePast
    <3>5. UpToDate'
      BY <2>8 DEF Unpacked, Moves, ShimTypes, ShimRecords, UpToDate
    <3>6. HasItsBinary'
      BY <2>8 DEF Unpacked, Moves, ShimTypes, ShimRecords, HasItsBinary
    <3>7. RunsItsSources'
      BY <2>8 DEF Unpacked, Moves, ShimTypes, ShimRecords, RunsItsSources
    <3>8. ToolchainIsWhole'
      BY <2>8 DEF Unpacked, Moves, ShimTypes, ShimRecords, ToolchainIsWhole
    <3>9. HasItsToolchain'
      BY <2>8 DEF Unpacked, Moves, ShimTypes, ShimRecords, HasItsToolchain
    <3> QED
      BY <3>1, <3>2, <3>3, <3>4, <3>5, <3>6, <3>7, <3>8, <3>9
  <2>9. ASSUME NEW s \in Shims, Move(s) PROVE ShimInv'
    <3>1. ShimTypes'
      BY <2>9, TypedMove
    <3>2. ShimTypeOK'
      BY <2>9 DEF Move, Moves, Ends, NoShim, ShimTypes, ShimRecords, ShimTypeOK
    <3>3. StagingFits'
      BY <2>9 DEF Move, Moves, Ends, NoShim, ShimTypes, ShimRecords, StagingFits
    <3>4. AsksThePast'
      BY <2>9 DEF Move, Moves, Ends, NoShim, ShimTypes, ShimRecords, AsksThePast
    <3>5. UpToDate'
      BY <2>9 DEF Move, Moves, Ends, NoShim, ShimTypes, ShimRecords, UpToDate
    <3>6. HasItsBinary'
      BY <2>9 DEF Move, Moves, Ends, NoShim, ShimTypes, ShimRecords, HasItsBinary
    <3>7. RunsItsSources'
      BY <2>9 DEF Move, Moves, Ends, NoShim, ShimTypes, ShimRecords, RunsItsSources
    <3>8. ToolchainIsWhole'
      BY <2>9, MovedIsWhole
    <3>9. HasItsToolchain'
      BY <2>9, MovedIsWhole
    <3> QED
      BY <3>1, <3>2, <3>3, <3>4, <3>5, <3>6, <3>7, <3>8, <3>9
  <2>10. ASSUME NEW s \in Shims, Exec(s) PROVE ShimInv'
    <3>1. ShimTypes'
      BY <2>10, TypedExec
    <3>2. ShimTypeOK'
      BY <2>10 DEF Exec, ShimTypes, ShimRecords, ShimTypeOK
    <3>3. StagingFits'
      BY <2>10 DEF Exec, ShimTypes, ShimRecords, StagingFits
    <3>4. AsksThePast'
      BY <2>10 DEF Exec, ShimTypes, ShimRecords, AsksThePast
    <3>5. UpToDate'
      BY <2>10 DEF Exec, ShimTypes, ShimRecords, UpToDate
    <3>6. HasItsBinary'
      BY <2>10 DEF Exec, ShimTypes, ShimRecords, HasItsBinary
    <3>7. RunsItsSources'
      BY <2>10, ExecRunsTheBinary
    <3>8. ToolchainIsWhole'
      BY <2>10 DEF Exec, ShimTypes, ShimRecords, ToolchainIsWhole
    <3>9. HasItsToolchain'
      BY <2>10 DEF Exec, ShimTypes, ShimRecords, HasItsToolchain
    <3> QED
      BY <3>1, <3>2, <3>3, <3>4, <3>5, <3>6, <3>7, <3>8, <3>9
  <2>11. ASSUME NEW s \in Shims, NEW b \in BOOLEAN, Kill(s, b) PROVE ShimInv'
    <3>1. ShimTypes'
      BY <2>11, TypedKill
    <3>2. ShimTypeOK'
      BY <2>11 DEF Kill, Ends, NoShim, ShimTypes, ShimRecords, ShimTypeOK
    <3>3. StagingFits'
      BY <2>11 DEF Kill, Ends, NoShim, ShimTypes, ShimRecords, StagingFits
    <3>4. AsksThePast'
      BY <2>11 DEF Kill, Ends, NoShim, ShimTypes, ShimRecords, AsksThePast
    <3>5. UpToDate'
      BY <2>11 DEF Kill, Ends, NoShim, ShimTypes, ShimRecords, UpToDate
    <3>6. HasItsBinary'
      BY <2>11 DEF Kill, Ends, NoShim, ShimTypes, ShimRecords, HasItsBinary
    <3>7. RunsItsSources'
      BY <2>11 DEF Kill, Ends, NoShim, ShimTypes, ShimRecords, RunsItsSources
    <3>8. ToolchainIsWhole'
      BY <2>11 DEF Kill, Ends, NoShim, ShimTypes, ShimRecords, ToolchainIsWhole
    <3>9. HasItsToolchain'
      BY <2>11 DEF Kill, Ends, NoShim, ShimTypes, ShimRecords, HasItsToolchain
    <3> QED
      BY <3>1, <3>2, <3>3, <3>4, <3>5, <3>6, <3>7, <3>8, <3>9
  <2>12. ASSUME NEW b \in BOOLEAN, Change(b) PROVE ShimInv'
    <3>1. ShimTypes'
      BY <2>12, TypedChange
    <3>2. ShimTypeOK'
      BY <2>12 DEF Change, ShimTypes, ShimRecords, ShimTypeOK
    <3>3. StagingFits'
      BY <2>12 DEF Change, ShimTypes, ShimRecords, StagingFits
    <3>4. AsksThePast'
      BY <2>12, ChangeIsAhead
    <3>5. UpToDate'
      BY <2>12 DEF Change, ShimTypes, ShimRecords, UpToDate
    <3>6. HasItsBinary'
      BY <2>12 DEF Change, ShimTypes, ShimRecords, HasItsBinary
    <3>7. RunsItsSources'
      BY <2>12 DEF Change, ShimTypes, ShimRecords, RunsItsSources
    <3>8. ToolchainIsWhole'
      BY <2>12 DEF Change, ShimTypes, ShimRecords, ToolchainIsWhole
    <3>9. HasItsToolchain'
      BY <2>12 DEF Change, ShimTypes, ShimRecords, HasItsToolchain
    <3> QED
      BY <3>1, <3>2, <3>3, <3>4, <3>5, <3>6, <3>7, <3>8, <3>9
  <2>13. CASE UNCHANGED shimVars
    BY <2>13 DEF shimVars, ShimTypes, ShimTypeOK, StagingFits, AsksThePast, UpToDate, HasItsBinary,
                RunsItsSources, ToolchainIsWhole, HasItsToolchain
  <2> QED
    BY <2>1, <2>2, <2>3, <2>4, <2>5, <2>6, <2>7, <2>8, <2>9, <2>10, <2>11, <2>12, <2>13 DEF ShimNext
<1>3. ShimInv => ShimsRunWhatTheyNeed
  BY DEF ShimInv, ShimsRunWhatTheyNeed, HasItsToolchain, ProvisionedAtExec
<1> QED
  BY <1>1, <1>2, <1>3, PTL DEF ShimSpec

(***************************************************************************)
(* The sysroots.                                                           *)
(***************************************************************************)

\* A library's file is visited once the merge has come to its path.
Visited(p, path) ==
  /\ p \in DOMAIN trees /\ path \in DOMAIN trees[p]
  /\ \A i \in DOMAIN queue : i # 1 => queue[i] # p
  /\ queue # <<>> /\ queue[1] = p => path \notin left

\* What is visited has an owner, which has been visited.
VisitedIsOwned ==
  /\ \A p \in DOMAIN trees : \A path \in DOMAIN trees[p] : Visited(p, path) => path \in DOMAIN owner
  /\ \A path \in DOMAIN owner : Visited(owner[path], path)

\* The owner's file is where its path is, unless it was left out.
OwnersArePlaced ==
  \A path \in DOMAIN owner :
    LET p == owner[path]
    IN  IF IsLeftOut(p, path) THEN path \notin DOMAIN placed
        ELSE ~PlaceFails(trees[p][path]) /\ path \in DOMAIN placed /\ placed[path] = Image(p, trees[p][path])

\* Whoever else has a file of that path would have placed the same.
OthersAgree ==
  \A p \in DOMAIN trees : \A path \in DOMAIN trees[p] :
    Visited(p, path) /\ owner[path] # p => Readable(path) # Nothing /\ Readable(path) = Rewritten(ReadAt(p, path))

QueueOk ==
  /\ queue \in Seq(DOMAIN trees) /\ IsInjective(queue)
  /\ IF composing = "merging" THEN queue # <<>> /\ left \subseteq DOMAIN trees[Head(queue)]
     ELSE queue = <<>> /\ left = {}

MergeKept == trees \in Trees /\ QueueOk /\ VisitedIsOwned /\ OwnersArePlaced /\ OthersAgree

SysrootInv ==
  /\ SysrootTypeOK
  /\ composing = "idle" => owner = <<>> /\ placed = <<>> /\ leftOut = {}
  /\ composing \in {"merging", "done"} => MergeKept
  /\ composing = "failed" => ~Composable

LEMMA Extended ==
  ASSUME NEW f, NEW x, NEW y
  PROVE  /\ DOMAIN With(f, x, y) = DOMAIN f \cup {x}
         /\ With(f, x, y)[x] = y
         /\ \A z \in DOMAIN f : z # x => With(f, x, y)[z] = f[z]
  BY DEF With

LEMMA HitMeans ==
  ASSUME "final" \notin DOMAIN trees, NEW f
  PROVE  /\ Hit(Content(f)) <=> f.prefixes \cap DOMAIN trees # {}
         /\ ~Hit(Content(f)) => Rewritten(Content(f)) = Content(f)
         /\ Hit(Content(f)) => "final" \in Rewritten(Content(f)).prefixes
         /\ Rewritten(Content(f)).body = f.body
         /\ Rewritten(Content(f)).prefixes \cap DOMAIN trees = {}
<1>1. CASE f.prefixes \cap DOMAIN trees = {}
  <2>1. Rewritten(Content(f)) = Content(f)
    BY <1>1 DEF Rewritten, Content
  <2> QED
    BY <1>1, <2>1 DEF Hit, Content
<1>2. CASE f.prefixes \cap DOMAIN trees # {}
  <2>1. Rewritten(Content(f)) = [body |-> f.body, prefixes |-> (f.prefixes \ DOMAIN trees) \cup {"final"}]
    BY <1>2 DEF Rewritten, Content
  <2>2. PICK x \in DOMAIN trees : x \in f.prefixes
    BY <1>2
  <2>3. x \notin Rewritten(Content(f)).prefixes /\ x \in Content(f).prefixes
    BY <2>1, <2>2 DEF Content
  <2>4. Hit(Content(f))
    BY <2>3 DEF Hit
  <2> QED
    BY <2>1, <2>4, <1>2
<1> QED
  BY <1>1, <1>2

\* The file behind a path: the link's, if it is one.
File(p, path) == IF trees[p][path].kind = "link" THEN trees[p][trees[p][path].to] ELSE trees[p][path]

IsFile(f) == \E p \in DOMAIN trees : \E path \in DOMAIN trees[p] : f = trees[p][path] /\ f.kind # "link"

LEMMA Files ==
  ASSUME trees \in Trees, NEW p \in DOMAIN trees, NEW path \in DOMAIN trees[p]
  PROVE  /\ IsFile(File(p, path)) /\ ReadAt(p, path) = Content(File(p, path))
         /\ ~Missing(p, path) <=> ~(Hit(Content(File(p, path))) /\ File(p, path).kind = "binary"
                                      /\ (IF trees[p][path].kind = "link" THEN trees[p][path].to ELSE path) \in ProgramPaths)
         /\ trees[p][path].kind = "link" => trees[p][path].to \in DOMAIN trees[p]
<1>1. CASE trees[p][path].kind = "link"
  <2> DEFINE f == trees[p][path]
  <2>1. f.to \in DOMAIN trees[p] /\ trees[p][f.to].kind # "link"
    BY <1>1, TreesAssumption
  <2>2. ~IsLeftOut(p, path)
    BY <1>1 DEF IsLeftOut
  <2>3. File(p, path) = trees[p][f.to]
    BY <1>1 DEF File
  <2> QED
    BY <1>1, <2>1, <2>2, <2>3 DEF IsFile, ReadAt, Missing, IsLeftOut
<1>2. CASE trees[p][path].kind # "link"
  BY <1>2 DEF File, IsFile, ReadAt, Missing, IsLeftOut
<1> QED
  BY <1>1, <1>2

LEMMA FileFacts ==
  ASSUME trees \in Trees, NEW f, IsFile(f)
  PROVE  /\ f.kind \in {"text", "binary"} /\ f.body # "nothing" /\ "final" \notin f.prefixes /\ "final" \notin DOMAIN trees
         /\ Rewritten(Content(f)) # Nothing /\ Content(f) # Nothing
<1>1. f.kind \in {"text", "binary"} /\ f.body # "nothing" /\ "final" \notin f.prefixes /\ "final" \notin DOMAIN trees
  BY TreesAssumption DEF IsFile
<1> QED
  BY <1>1, HitMeans DEF Nothing, Content

\* Two files that come to the same content can both be placed, or neither.
LEMMA SameImage ==
  ASSUME trees \in Trees, NEW f, NEW g, IsFile(f), IsFile(g), Rewritten(Content(f)) = Rewritten(Content(g))
  PROVE  f.kind = g.kind /\ (Hit(Content(f)) <=> Hit(Content(g)))
<1>1. f.body = g.body
  BY FileFacts, HitMeans
<1>2. f.kind = g.kind
  BY <1>1, TreesAssumption DEF IsFile
<1>3. Hit(Content(f)) <=> Hit(Content(g))
  BY FileFacts, HitMeans DEF Content
<1> QED
  BY <1>2, <1>3

LEMMA Placement ==
  ASSUME MergeKept, SysrootTypeOK, NEW path
  PROVE  /\ path \notin DOMAIN owner \/ IsLeftOut(owner[path], path) => Readable(path) = Nothing /\ Here(path) = Nothing
         /\ path \in DOMAIN owner /\ ~IsLeftOut(owner[path], path) =>
              LET f == trees[owner[path]][path]
              IN  IF f.kind = "link" THEN Readable(path) = Here(f.to) /\ Here(path) = Nothing
                  ELSE /\ IsFile(f) /\ ~PlaceFails(f)
                       /\ Readable(path) = Rewritten(Content(f)) /\ Here(path) = Rewritten(Content(f))
<1>1. CASE path \notin DOMAIN owner \/ IsLeftOut(owner[path], path)
  <2>1. path \notin DOMAIN placed
    BY <1>1 DEF MergeKept, OwnersArePlaced, SysrootTypeOK
  <2> QED
    BY <1>1, <2>1 DEF Readable, Here
<1>2. CASE path \in DOMAIN owner /\ ~IsLeftOut(owner[path], path)
  <2> DEFINE p == owner[path]
             f == trees[p][path]
  <2>1. p \in DOMAIN trees /\ path \in DOMAIN trees[p]
    BY <1>2 DEF MergeKept, VisitedIsOwned, Visited
  <2>2. ~PlaceFails(f) /\ path \in DOMAIN placed /\ placed[path] = Image(p, f)
    BY <1>2 DEF MergeKept, OwnersArePlaced
  <2>3. CASE f.kind = "link"
    <3>1. placed[path] = [as |-> "link", to |-> f.to]
      BY <2>2, <2>3 DEF Image
    <3>2. placed[path].as = "link" /\ placed[path].to = f.to
      BY <3>1
    <3>3. Here(path) = Nothing
      BY <2>2, <3>2 DEF Here
    <3>4. Readable(path) = Here(f.to)
      BY <2>2, <3>2 DEF Readable
    <3> QED
      BY <1>2, <2>3, <3>3, <3>4
  <2>4. CASE f.kind # "link"
    <3>1. IsFile(f)
      BY <2>1, <2>4 DEF IsFile
    <3>2. CASE Hit(Content(f))
      <4>1. placed[path] = [as |-> "copy", content |-> Rewritten(Content(f))]
        BY <2>2, <2>4, <3>2 DEF Image
      <4> QED
        BY <1>2, <2>2, <2>4, <3>1, <4>1 DEF Readable, Here
    <3>3. CASE ~Hit(Content(f))
      <4>1. placed[path] = [as |-> "into", of |-> p]
        BY <2>2, <2>4, <3>3 DEF Image
      <4>2. ReadAt(p, path) = Rewritten(Content(f))
        BY <2>4, <3>3 DEF ReadAt, Hit
      <4> QED
        BY <1>2, <2>2, <2>4, <3>1, <4>1, <4>2 DEF Readable, Here
    <3> QED
      BY <3>2, <3>3
  <2> QED
    BY <2>3, <2>4
<1> QED
  BY <1>1, <1>2

\* What can be read of a sysroot is what some library's file becomes.
LEMMA ReadableIsAnImage ==
  ASSUME MergeKept, SysrootTypeOK, NEW path, Readable(path) # Nothing
  PROVE  \E g : IsFile(g) /\ ~PlaceFails(g) /\ Readable(path) = Rewritten(Content(g))
<1> DEFINE f == trees[owner[path]][path]
<1>1. path \in DOMAIN owner /\ ~IsLeftOut(owner[path], path)
  BY Placement
<1>2. CASE f.kind # "link"
  BY <1>1, <1>2, Placement
<1>3. CASE f.kind = "link"
  <2>1. Readable(path) = Here(f.to)
    BY <1>1, <1>3, Placement
  <2> HIDE DEF f
  <2>2. f.to \in DOMAIN owner /\ ~IsLeftOut(owner[f.to], f.to) /\ trees[owner[f.to]][f.to].kind # "link"
    BY <2>1, Placement
  <2>3. PICK g : g = trees[owner[f.to]][f.to]
    OBVIOUS
  <2>4. IsFile(g) /\ ~PlaceFails(g) /\ Here(f.to) = Rewritten(Content(g))
    BY <2>2, <2>3, Placement
  <2> QED
    BY <2>1, <2>4
<1> QED
  BY <1>2, <1>3

Finished(p) == \A path \in DOMAIN trees[p] : Visited(p, path)

\* A library that is merged finds what it owns, unless that was left out.
LEMMA OwnersFindTheirs ==
  ASSUME MergeKept, SysrootTypeOK, NEW path \in DOMAIN owner, Finished(owner[path])
  PROVE  IF Missing(owner[path], path) THEN Readable(path) = Nothing
         ELSE Readable(path) = Rewritten(ReadAt(owner[path], path))
<1> DEFINE q == owner[path]
           f == trees[q][path]
<1>1. q \in DOMAIN trees /\ path \in DOMAIN trees[q] /\ trees \in Trees
  BY DEF MergeKept, VisitedIsOwned, Visited
<1>2. CASE IsLeftOut(q, path)
  BY <1>2, Placement DEF Missing
<1>3. CASE ~IsLeftOut(q, path) /\ f.kind # "link"
  BY <1>3, Placement DEF Missing, ReadAt
<1>4. CASE ~IsLeftOut(q, path) /\ f.kind = "link"
  <2>1. f.to \in DOMAIN trees[q] /\ \A r \in DOMAIN trees : f.to \in DOMAIN trees[r] => trees[r][f.to].kind # "link"
    BY <1>1, <1>4, TreesAssumption
  <2>2. Readable(path) = Here(f.to) /\ ReadAt(q, path) = Content(trees[q][f.to]) /\ (Missing(q, path) <=> IsLeftOut(q, f.to))
    BY <1>4, <2>1, Placement DEF ReadAt, Missing
  <2>3. PICK to : to = f.to
    OBVIOUS
  <2>4. /\ to \in DOMAIN trees[q] /\ \A r \in DOMAIN trees : to \in DOMAIN trees[r] => trees[r][to].kind # "link"
        /\ Readable(path) = Here(to) /\ ReadAt(q, path) = Content(trees[q][to]) /\ (Missing(q, path) <=> IsLeftOut(q, to))
    BY <2>1, <2>2, <2>3
  <2> HIDE DEF f
  <2>5. Visited(q, to) /\ to \in DOMAIN owner
    BY <1>1, <2>4 DEF Finished, MergeKept, VisitedIsOwned
  <2>6. owner[to] \in DOMAIN trees /\ to \in DOMAIN trees[owner[to]]
    BY <2>5 DEF MergeKept, VisitedIsOwned, Visited
  <2>7. CASE owner[to] = q
    BY <1>1, <2>4, <2>5, <2>7, Placement
  <2>8. CASE owner[to] # q
    <3>1. Readable(to) # Nothing /\ Readable(to) = Rewritten(ReadAt(q, to))
      BY <1>1, <2>4, <2>5, <2>8 DEF MergeKept, OthersAgree
    <3>2. Here(to) = Readable(to)
      BY <2>4, <2>5, <2>6, <3>1, Placement
    <3>3. ReadAt(q, to) = Content(trees[q][to]) /\ IsFile(trees[q][to])
      BY <1>1, <2>4 DEF ReadAt, IsFile
    <3>4. PICK g : IsFile(g) /\ ~PlaceFails(g) /\ Readable(to) = Rewritten(Content(g))
      BY <3>1, ReadableIsAnImage
    <3>5. trees[q][to].kind = g.kind /\ (Hit(Content(trees[q][to])) <=> Hit(Content(g)))
      BY <1>1, <3>1, <3>3, <3>4, SameImage
    <3>6. ~IsLeftOut(q, to)
      BY <3>4, <3>5 DEF IsLeftOut, PlaceFails
    <3> QED
      BY <2>4, <3>1, <3>2, <3>3, <3>6
  <2> QED
    BY <2>7, <2>8
<1> QED
  BY <1>2, <1>3, <1>4

\* Whoever agrees with an owner could have been the owner.
LEMMA OthersAreEqual ==
  ASSUME MergeKept, SysrootTypeOK, NEW p \in DOMAIN trees, NEW path \in DOMAIN trees[p], Visited(p, path), owner[path] # p
  PROVE  ~Missing(p, path) /\ ~PlaceFails(trees[p][path])
<1>1. Readable(path) # Nothing /\ Readable(path) = Rewritten(ReadAt(p, path)) /\ trees \in Trees
  BY DEF MergeKept, OthersAgree
<1>2. PICK f : f = File(p, path)
  OBVIOUS
<1>3. /\ IsFile(f) /\ ReadAt(p, path) = Content(f)
      /\ ~Missing(p, path) <=> ~(Hit(Content(f)) /\ f.kind = "binary"
                                   /\ (IF trees[p][path].kind = "link" THEN trees[p][path].to ELSE path) \in ProgramPaths)
  BY <1>1, <1>2, Files
<1>4. PICK g : IsFile(g) /\ ~PlaceFails(g) /\ Readable(path) = Rewritten(Content(g))
  BY <1>1, ReadableIsAnImage
<1>5. f.kind = g.kind /\ (Hit(Content(f)) <=> Hit(Content(g))) /\ Rewritten(Content(f)) = Rewritten(Content(g))
  BY <1>1, <1>3, <1>4, SameImage
<1>6. ~(Hit(Content(f)) /\ f.kind = "binary")
  BY <1>3, <1>4, <1>5 DEF PlaceFails, IsFile
<1>7. ~PlaceFails(f)
  BY <1>3, <1>4, <1>5 DEF PlaceFails, IsFile
<1> QED
  BY <1>2, <1>3, <1>6, <1>7 DEF File, PlaceFails

\* A finished sysroot is the union of its libraries.
LEMMA DoneIsComposable ==
  ASSUME SysrootInv, composing = "done"
  PROVE  NoSilentWinner /\ ConsumersStayInside /\ Composable
<1>1. MergeKept /\ SysrootTypeOK /\ trees \in Trees
  BY DEF SysrootInv, MergeKept
<1>2. \A p \in DOMAIN trees : \A path \in DOMAIN trees[p] : Visited(p, path)
  BY <1>1 DEF MergeKept, QueueOk, Visited
<1>3. \A p \in DOMAIN trees : Finished(p)
  BY <1>2 DEF Finished
<1>4. \A path \in DOMAIN owner : owner[path] \in DOMAIN trees /\ path \in DOMAIN trees[owner[path]]
  BY <1>1 DEF MergeKept, VisitedIsOwned, Visited
<1>5. \A p \in DOMAIN trees : \A path \in DOMAIN trees[p] : path \in DOMAIN owner
  BY <1>1, <1>2 DEF MergeKept, VisitedIsOwned
<1>6. \A path \in DOMAIN owner : IF Missing(owner[path], path) THEN Readable(path) = Nothing
                                 ELSE Readable(path) = Rewritten(ReadAt(owner[path], path))
  BY <1>1, <1>3, <1>4, OwnersFindTheirs
<1>7. \A p \in DOMAIN trees : \A path \in DOMAIN trees[p] : owner[path] # p =>
        /\ ~Missing(p, path) /\ ~PlaceFails(trees[p][path])
        /\ Readable(path) # Nothing /\ Readable(path) = Rewritten(ReadAt(p, path))
  BY <1>1, <1>2, OthersAreEqual DEF MergeKept, OthersAgree
<1>8. NoSilentWinner
  BY <1>5, <1>6, <1>7 DEF NoSilentWinner
<1>9. ConsumersStayInside
  <2> SUFFICES ASSUME NEW path \in DOMAIN placed PROVE Readable(path).prefixes \cap DOMAIN trees = {}
    BY DEF ConsumersStayInside
  <2>1. CASE Readable(path) = Nothing
    BY <2>1 DEF Nothing
  <2>2. CASE Readable(path) # Nothing
    <3>1. PICK g : IsFile(g) /\ ~PlaceFails(g) /\ Readable(path) = Rewritten(Content(g))
      BY <1>1, <2>2, ReadableIsAnImage
    <3> QED
      BY <1>1, <3>1, FileFacts, HitMeans
  <2> QED
    BY <2>1, <2>2
<1>10. \A p \in DOMAIN trees : \A path \in DOMAIN trees[p] : IsLeftOut(p, path) \/ ~PlaceFails(trees[p][path])
  <2> SUFFICES ASSUME NEW p \in DOMAIN trees, NEW path \in DOMAIN trees[p]
               PROVE  IsLeftOut(p, path) \/ ~PlaceFails(trees[p][path])
    OBVIOUS
  <2>1. CASE owner[path] = p
    BY <1>1, <1>5, <2>1 DEF MergeKept, OwnersArePlaced
  <2> QED
    BY <1>7, <2>1
<1>11. ASSUME NEW p \in DOMAIN trees, NEW path \in DOMAIN trees[p], NEW q \in DOMAIN trees, q # p, path \in DOMAIN trees[q]
       PROVE  Readable(path) = Rewritten(ReadAt(p, path)) /\ ~Missing(p, path)
  <2>1. owner[path] # p \/ owner[path] # q
    BY <1>11
  <2>2. CASE owner[path] # p
    BY <1>7, <2>2
  <2>3. CASE owner[path] = p
    <3>1. Readable(path) # Nothing
      BY <1>7, <1>11, <2>3
    <3> QED
      BY <1>5, <1>6, <2>3, <3>1
  <2> QED
    BY <2>2, <2>3
<1>12. Composable
  BY <1>10, <1>11 DEF Composable
<1> QED
  BY <1>8, <1>9, <1>12

\* What can be read stays as it is when more is placed beside it.
LEMMA Stays ==
  ASSUME trees' = trees, NEW path, Readable(path) # Nothing,
         \A q \in DOMAIN placed : q \in DOMAIN placed' /\ placed'[q] = placed[q]
  PROVE  Readable(path)' = Readable(path)
<1>0. \A p, q : ReadAt(p, q)' = ReadAt(p, q)
  BY DEF ReadAt
<1>1. \A q \in DOMAIN placed : Here(q)' = Here(q)
  BY <1>0 DEF Here
<1>2. path \in DOMAIN placed
  BY DEF Readable, Here
<1>3. CASE placed[path].as = "link"
  <2>1. PICK to : to = placed[path].to
    OBVIOUS
  <2>2. Readable(path) = Here(to) /\ Readable(path)' = Here(to)'
    BY <1>2, <1>3, <2>1 DEF Readable
  <2>3. to \in DOMAIN placed
    BY <2>2 DEF Here
  <2> QED
    BY <1>1, <2>2, <2>3
<1>4. CASE placed[path].as # "link"
  BY <1>1, <1>2, <1>4 DEF Readable
<1> QED
  BY <1>3, <1>4

\* A path of the package that is merged now is visited, and nothing else is.
LEMMA VisitOne ==
  ASSUME MergeKept, composing = "merging", NEW path \in left, left' = left \ {path}, queue' = queue, trees' = trees
  PROVE  /\ Head(queue) \in DOMAIN trees /\ path \in DOMAIN trees[Head(queue)]
         /\ ~Visited(Head(queue), path)
         /\ \A p, a : Visited(p, a)' <=> Visited(p, a) \/ (p = Head(queue) /\ a = path)
         /\ \A p : p # Head(queue) /\ (\E a : Visited(p, a)) => Finished(p)
<1> DEFINE h == Head(queue)
<1>1. queue # <<>> /\ h = queue[1] /\ h \in DOMAIN trees /\ path \in DOMAIN trees[h]
  BY DEF MergeKept, QueueOk
<1>2. \A i \in DOMAIN queue : i # 1 => queue[i] # h
  BY <1>1 DEF MergeKept, QueueOk, IsInjective
<1>3. ~Visited(h, path)
  BY <1>1 DEF Visited
<1>4. \A p, a : Visited(p, a)' <=> Visited(p, a) \/ (p = h /\ a = path)
  BY <1>1, <1>2 DEF Visited
<1>5. \A p : p # h /\ (\E a : Visited(p, a)) => Finished(p)
  BY <1>1 DEF Visited, Finished
<1> QED
  BY <1>1, <1>3, <1>4, <1>5

\* What is decided from the libraries alone stays decided.
LEMMA SameTrees ==
  ASSUME trees' = trees
  PROVE  /\ \A p, path : /\ IsLeftOut(p, path)' <=> IsLeftOut(p, path)
                         /\ ReadAt(p, path)' = ReadAt(p, path)
                         /\ Missing(p, path)' <=> Missing(p, path)
         /\ \A f : PlaceFails(f)' <=> PlaceFails(f)
         /\ \A p, f : Image(p, f)' = Image(p, f)
         /\ \A c : Rewritten(c)' = Rewritten(c)
         /\ Composable' <=> Composable
<1>1. \A c : Rewritten(c)' = Rewritten(c)
  BY DEF Rewritten
<1>2. \A c : Hit(c)' <=> Hit(c)
  BY <1>1 DEF Hit
<1>3. \A p, path : /\ IsLeftOut(p, path)' <=> IsLeftOut(p, path)
                   /\ ReadAt(p, path)' = ReadAt(p, path)
  BY <1>2 DEF IsLeftOut, ReadAt
<1>4. \A p, path : Missing(p, path)' <=> Missing(p, path)
  BY <1>3 DEF Missing
<1>5. \A f : PlaceFails(f)' <=> PlaceFails(f)
  BY <1>1, <1>2 DEF PlaceFails
<1>6. \A p, f : Image(p, f)' = Image(p, f)
  BY <1>1, <1>2 DEF Image
<1>7. Composable' <=> Composable
  BY <1>1, <1>3, <1>4, <1>5 DEF Composable
<1> QED
  BY <1>1, <1>3, <1>4, <1>5, <1>6, <1>7

LEMMA PlaceKeeps ==
  ASSUME MergeKept, SysrootTypeOK, composing = "merging", NEW path \in left, left' = left \ {path},
         queue' = queue, trees' = trees, path \notin DOMAIN owner, Place(Head(queue), path),
         composing' # "failed"
  PROVE  MergeKept' /\ SysrootTypeOK' /\ composing' = "merging"
<1> DEFINE h == Head(queue)
           f == trees[h][path]
<1>1. /\ h \in DOMAIN trees /\ path \in DOMAIN trees[h] /\ ~Visited(h, path)
      /\ \A p, a : Visited(p, a)' <=> Visited(p, a) \/ (p = h /\ a = path)
  BY VisitOne
<1>2. owner' = With(owner, path, h)
  BY DEF Place, OwnerOf
<1>3. DOMAIN owner' = DOMAIN owner \cup {path} /\ owner'[path] = h /\ \A a \in DOMAIN owner : a # path => owner'[a] = owner[a]
  BY <1>2 DEF With
<1>4. path \notin DOMAIN placed /\ path \notin leftOut
  BY DEF SysrootTypeOK
<1>5. /\ composing' = "merging"
      /\ IF IsLeftOut(h, path) THEN placed' = placed /\ leftOut' = leftOut \cup {path}
         ELSE ~PlaceFails(f) /\ placed' = With(placed, path, Image(h, f)) /\ leftOut' = leftOut
  BY DEF Place
<1>6. /\ \A q \in DOMAIN placed : q \in DOMAIN placed' /\ placed'[q] = placed[q]
      /\ DOMAIN placed' = IF IsLeftOut(h, path) THEN DOMAIN placed ELSE DOMAIN placed \cup {path}
      /\ ~IsLeftOut(h, path) => placed'[path] = Image(h, f)
  BY <1>4, <1>5 DEF With
<1>7. SysrootTypeOK'
  BY <1>3, <1>4, <1>5, <1>6 DEF SysrootTypeOK
<1>8. QueueOk'
  BY <1>5 DEF MergeKept, QueueOk
<1>9. VisitedIsOwned'
  BY <1>1, <1>3 DEF MergeKept, VisitedIsOwned
<1>10. OwnersArePlaced'
  <2> SUFFICES ASSUME NEW a \in DOMAIN owner'
               PROVE  IF IsLeftOut(owner'[a], a) THEN a \notin DOMAIN placed'
                      ELSE /\ ~PlaceFails(trees[owner'[a]][a]) /\ a \in DOMAIN placed'
                           /\ placed'[a] = Image(owner'[a], trees[owner'[a]][a])
    BY SameTrees DEF OwnersArePlaced
  <2>1. CASE a = path
    BY <1>3, <1>4, <1>5, <1>6, <2>1
  <2>2. CASE a # path
    BY <1>3, <1>6, <2>2 DEF MergeKept, OwnersArePlaced
  <2> QED
    BY <2>1, <2>2
<1>11. OthersAgree'
  <2> SUFFICES ASSUME NEW p \in DOMAIN trees, NEW a \in DOMAIN trees[p], Visited(p, a)', owner'[a] # p
               PROVE  Readable(a)' # Nothing /\ Readable(a)' = Rewritten(ReadAt(p, a))
    BY SameTrees DEF OthersAgree, Nothing
  <2>1. Visited(p, a) /\ a \in DOMAIN owner
    BY <1>1, <1>3 DEF MergeKept, VisitedIsOwned
  <2>2. owner[a] # p
    BY <1>3, <2>1
  <2>3. Readable(a) # Nothing /\ Readable(a) = Rewritten(ReadAt(p, a))
    BY <2>1, <2>2 DEF MergeKept, OthersAgree
  <2> QED
    BY <1>6, <2>3, Stays
<1> QED
  BY <1>5, <1>7, <1>8, <1>9, <1>10, <1>11 DEF MergeKept

LEMMA CollideKeeps ==
  ASSUME MergeKept, SysrootTypeOK, composing = "merging", NEW path \in left, left' = left \ {path},
         queue' = queue, trees' = trees, path \in DOMAIN owner, Collide(Head(queue), path)
  PROVE  IF SameContent(Head(queue), path) THEN MergeKept' /\ SysrootTypeOK' /\ composing' = "merging"
         ELSE ~Composable /\ SysrootTypeOK' /\ composing' = "failed"
<1> DEFINE h == Head(queue)
           q == owner[path]
<1>1. /\ h \in DOMAIN trees /\ path \in DOMAIN trees[h] /\ ~Visited(h, path) /\ trees \in Trees
      /\ \A p, a : Visited(p, a)' <=> Visited(p, a) \/ (p = h /\ a = path)
      /\ \A p : p # Head(queue) /\ (\E a : Visited(p, a)) => Finished(p)
  BY VisitOne DEF MergeKept
<1>2. Visited(q, path)
  BY DEF MergeKept, VisitedIsOwned
<1>3. q # h /\ Finished(q) /\ q \in DOMAIN trees /\ path \in DOMAIN trees[q]
  BY <1>1, <1>2 DEF Visited
<1>4. owner' = owner /\ placed' = placed /\ leftOut' = leftOut
  BY DEF Collide
<1>5. composing' = IF SameContent(h, path) THEN "merging" ELSE "failed"
  BY DEF Collide
<1>6. SysrootTypeOK'
  BY <1>4, <1>5 DEF SysrootTypeOK
<1>7. CASE SameContent(h, path)
  <2>1. Readable(path) # Nothing /\ Readable(path) = Rewritten(ReadAt(h, path))
    BY <1>7 DEF SameContent
  <2>2. QueueOk'
    BY <1>5, <1>7 DEF MergeKept, QueueOk
  <2>3. VisitedIsOwned'
    BY <1>1, <1>4 DEF MergeKept, VisitedIsOwned
  <2>4. OwnersArePlaced'
    BY <1>4, SameTrees DEF MergeKept, OwnersArePlaced
  <2>5. OthersAgree'
    <3> SUFFICES ASSUME NEW p \in DOMAIN trees, NEW a \in DOMAIN trees[p], Visited(p, a)', owner[a] # p
                 PROVE  Readable(a)' # Nothing /\ Readable(a)' = Rewritten(ReadAt(p, a))
      BY <1>4, SameTrees DEF OthersAgree, Nothing
    <3>1. Readable(a) # Nothing /\ Readable(a) = Rewritten(ReadAt(p, a))
      BY <1>1, <2>1 DEF MergeKept, OthersAgree
    <3> QED
      BY <1>4, <3>1, Stays
  <2> QED
    BY <1>1, <1>5, <1>6, <1>7, <2>2, <2>3, <2>4, <2>5 DEF MergeKept
<1>8. CASE ~SameContent(h, path)
  <2> SUFFICES ASSUME Composable PROVE FALSE
    BY <1>5, <1>6, <1>8
  <2>1. ~Missing(h, path) /\ ~Missing(q, path) /\ Rewritten(ReadAt(h, path)) = Rewritten(ReadAt(q, path))
    BY <1>1, <1>3 DEF Composable
  <2>2. Readable(path) = Rewritten(ReadAt(q, path))
    BY <1>3, <2>1, OwnersFindTheirs
  <2>3. ReadAt(h, path) # Nothing /\ Rewritten(ReadAt(h, path)) # Nothing
    BY <1>1, Files, FileFacts
  <2> QED
    BY <1>8, <2>1, <2>2, <2>3 DEF SameContent
<1> QED
  BY <1>7, <1>8

\* In whatever order the map of the dependencies is walked, and wherever a library
\* or a link changes a place that was filled: what a compose makes is the union of
\* its dependencies, and it fails only where two of them want to own one path.
THEOREM SysrootsAreUnions == SysrootSpec => []SysrootIsTheUnion
<1>1. SysrootInit => SysrootInv
  BY DEF SysrootInit, SysrootInv, SysrootTypeOK
<1>2. SysrootInv /\ [SysrootNext]_sysrootVars => SysrootInv'
  <2> SUFFICES ASSUME SysrootInv, [SysrootNext]_sysrootVars PROVE SysrootInv'
    OBVIOUS
  <2>1. ASSUME NEW t \in Trees, NEW o \in Orders, composing = "idle", Compose(t, o) PROVE SysrootInv'
    <3>1. /\ composing' = "merging" /\ trees' = t /\ queue' = o /\ left' = DOMAIN t[Head(o)]
          /\ DOMAIN owner' = {} /\ DOMAIN placed' = {} /\ leftOut' = {}
      BY <2>1 DEF Compose, SysrootInv
    <3>2. QueueOk'
      BY <3>1, OrdersAssumption DEF QueueOk
    <3>3. o \in Seq(DOMAIN t) /\ o # <<>> /\ \A p \in DOMAIN t : \E i \in DOMAIN o : o[i] = p
      BY OrdersAssumption
    <3>4. \A p \in DOMAIN trees' : \A path \in DOMAIN trees'[p] : ~Visited(p, path)'
      <4> SUFFICES ASSUME NEW p \in DOMAIN t, NEW path \in DOMAIN t[p], Visited(p, path)' PROVE FALSE
        BY <3>1
      <4>1. PICK i \in DOMAIN o : o[i] = p
        BY <3>3
      <4>2. i = 1
        BY <3>1, <4>1 DEF Visited
      <4> QED
        BY <3>1, <3>3, <4>1, <4>2 DEF Visited
    <3>5. VisitedIsOwned' /\ OwnersArePlaced' /\ OthersAgree'
      BY <3>1, <3>4 DEF VisitedIsOwned, OwnersArePlaced, OthersAgree
    <3>6. SysrootTypeOK'
      BY <3>1 DEF SysrootTypeOK
    <3> QED
      BY <3>1, <3>2, <3>5, <3>6 DEF SysrootInv, MergeKept
  <2>2. CASE MergeEntry
    <3>1. PICK path \in left :
            /\ IF path \in DOMAIN owner THEN Collide(Head(queue), path) ELSE Place(Head(queue), path)
            /\ left' = left \ {path}
      BY <2>2 DEF MergeEntry
    <3>2. composing = "merging" /\ queue' = queue /\ trees' = trees
      BY <2>2 DEF MergeEntry
    <3>3. MergeKept /\ SysrootTypeOK
      BY <3>2 DEF SysrootInv
    <3>4. CASE path \in DOMAIN owner
      <4>1. (MergeKept' /\ SysrootTypeOK' /\ composing' = "merging") \/ (~Composable' /\ SysrootTypeOK' /\ composing' = "failed")
        BY <3>1, <3>2, <3>3, <3>4, CollideKeeps, SameTrees
      <4> QED
        BY <4>1 DEF SysrootInv
    <3>5. CASE path \notin DOMAIN owner /\ composing' # "failed"
      BY <3>1, <3>2, <3>3, <3>5, PlaceKeeps DEF SysrootInv
    <3>6. CASE path \notin DOMAIN owner /\ composing' = "failed"
      <4> DEFINE h == Head(queue)
      <4>1. h \in DOMAIN trees /\ path \in DOMAIN trees[h]
        BY <3>1, <3>2, <3>3, VisitOne
      <4>2. ~IsLeftOut(h, path) /\ PlaceFails(trees[h][path]) /\ placed' = placed /\ leftOut' = leftOut
        BY <3>1, <3>2, <3>6 DEF Place
      <4>3. ~Composable
        BY <4>1, <4>2 DEF Composable
      <4>4. DOMAIN owner' = DOMAIN owner \cup {path}
        BY <3>1, <3>6 DEF Place, OwnerOf, With
      <4>5. SysrootTypeOK'
        BY <3>3, <3>6, <4>2, <4>4 DEF SysrootTypeOK
      <4> QED
        BY <3>2, <3>6, <4>3, <4>5, SameTrees DEF SysrootInv
    <3> QED
      BY <3>4, <3>5, <3>6
  <2>3. CASE NextPackage
    <3>1. /\ composing = "merging" /\ left = {} /\ queue' = Tail(queue)
          /\ owner' = owner /\ placed' = placed /\ leftOut' = leftOut /\ trees' = trees
          /\ IF queue' = <<>> THEN composing' = "done" /\ left' = {}
             ELSE composing' = "merging" /\ left' = DOMAIN trees[Head(queue')]
      BY <2>3 DEF NextPackage
    <3>2. MergeKept /\ SysrootTypeOK
      BY <3>1 DEF SysrootInv
    <3>3. queue \in Seq(DOMAIN trees) /\ queue # <<>> /\ IsInjective(queue)
      BY <3>1, <3>2 DEF MergeKept, QueueOk
    <3>4. /\ queue' \in Seq(DOMAIN trees) /\ Len(queue') = Len(queue) - 1
          /\ \A i \in DOMAIN queue' : i + 1 \in DOMAIN queue /\ queue'[i] = queue[i + 1]
      BY <3>1, <3>3
    <3>5. IsInjective(queue')
      BY <3>3, <3>4 DEF IsInjective
    <3>6. QueueOk'
      BY <3>1, <3>4, <3>5 DEF QueueOk
    <3>7. \A p, path : Visited(p, path)' <=> Visited(p, path)
      <4> SUFFICES ASSUME NEW p \in DOMAIN trees, NEW path \in DOMAIN trees[p]
                   PROVE  Visited(p, path)' <=> Visited(p, path)
        BY <3>1 DEF Visited
      <4>1. Visited(p, path) <=> \A i \in 2..Len(queue) : queue[i] # p
        BY <3>1, <3>3 DEF Visited
      <4>2. Visited(p, path)' <=> \A i \in 1..Len(queue') : queue'[i] # p
        <5>0. Len(queue') \in Nat /\ DOMAIN queue' = 1..Len(queue')
          BY <3>4
        <5>1. CASE queue' = <<>>
          <6>1. Len(queue') = 0
            BY <5>1
          <6> QED
            BY <3>1, <5>0, <5>1, <6>1 DEF Visited
        <5>2. CASE queue' # <<>>
          <6>1. Head(queue') = queue'[1] /\ 1 \in 1..Len(queue')
            BY <3>4, <5>2
          <6>2. Visited(p, path)' <=> (\A i \in 1..Len(queue') : i # 1 => queue'[i] # p) /\ queue'[1] # p
            <7>1. left' = DOMAIN trees[queue'[1]]
              BY <3>1, <5>2, <6>1
            <7>2. (queue'[1] = p => path \notin left') <=> queue'[1] # p
              BY <7>1
            <7> QED
              BY <3>1, <5>0, <5>2, <7>2 DEF Visited
          <6> QED
            BY <6>1, <6>2
        <5> QED
          BY <5>1, <5>2
      <4>3. (\A i \in 1..Len(queue') : queue'[i] # p) <=> (\A i \in 2..Len(queue) : queue[i] # p)
        <5>1. Len(queue) \in Nat /\ Len(queue') = Len(queue) - 1 /\ \A i \in 1..Len(queue') : queue'[i] = queue[i + 1]
          BY <3>3, <3>4
        <5>2. \A i \in 2..Len(queue) : i - 1 \in 1..Len(queue') /\ queue'[i - 1] = queue[i]
          BY <5>1
        <5> QED
          BY <5>1, <5>2
      <4> QED
        BY <4>1, <4>2, <4>3
    <3>8. VisitedIsOwned'
      BY <3>1, <3>2, <3>7 DEF MergeKept, VisitedIsOwned
    <3>9. OwnersArePlaced'
      BY <3>1, <3>2, SameTrees DEF MergeKept, OwnersArePlaced
    <3>10. OthersAgree'
      <4>1. \A path : Readable(path) # Nothing => Readable(path)' = Readable(path)
        BY <3>1, Stays
      <4> QED
        BY <3>1, <3>2, <3>7, <4>1, SameTrees DEF MergeKept, OthersAgree, Nothing
    <3>11. SysrootTypeOK'
      BY <3>1, <3>2 DEF SysrootTypeOK
    <3> QED
      BY <3>1, <3>2, <3>6, <3>8, <3>9, <3>10, <3>11 DEF SysrootInv, MergeKept
  <2>4. CASE UNCHANGED sysrootVars
    <3>1. /\ composing' = composing /\ queue' = queue /\ left' = left /\ owner' = owner
          /\ placed' = placed /\ leftOut' = leftOut /\ trees' = trees
      BY <2>4 DEF sysrootVars
    <3>2. SysrootTypeOK' /\ (Composable' <=> Composable)
      BY <3>1, SameTrees DEF SysrootInv, SysrootTypeOK
    <3>3. MergeKept => MergeKept'
      <4> SUFFICES ASSUME MergeKept PROVE MergeKept'
        OBVIOUS
      <4>1. \A p, path : Visited(p, path)' <=> Visited(p, path)
        BY <3>1 DEF Visited
      <4>2. \A path : Readable(path) # Nothing => Readable(path)' = Readable(path)
        BY <3>1, Stays
      <4>3. QueueOk' /\ VisitedIsOwned'
        BY <3>1, <4>1 DEF MergeKept, QueueOk, VisitedIsOwned
      <4>4. OwnersArePlaced'
        BY <3>1, SameTrees DEF MergeKept, OwnersArePlaced
      <4>5. OthersAgree'
        BY <3>1, <4>1, <4>2, SameTrees DEF MergeKept, OthersAgree, Nothing
      <4> QED
        BY <3>1, <4>3, <4>4, <4>5 DEF MergeKept
    <3> QED
      BY <3>1, <3>2, <3>3 DEF SysrootInv
  <2> QED
    BY <2>1, <2>2, <2>3, <2>4 DEF SysrootNext
<1>3. SysrootInv => SysrootIsTheUnion
  <2>1. SysrootInv /\ composing = "done" => NoSilentWinner /\ ConsumersStayInside /\ OrderDecidesNothing
    BY DoneIsComposable DEF OrderDecidesNothing
  <2>2. SysrootInv /\ composing # "done" => NoSilentWinner /\ ConsumersStayInside /\ OrderDecidesNothing
    BY DEF SysrootInv, NoSilentWinner, ConsumersStayInside, OrderDecidesNothing
  <2> QED
    BY <2>1, <2>2 DEF SysrootInv, SysrootIsTheUnion
<1> QED
  BY <1>1, <1>2, <1>3, PTL DEF SysrootSpec

(***************************************************************************)
(* The source trees.                                                       *)
(***************************************************************************)

\* What is known of a source tree while its job goes on: nothing is there before
\* the first entry, and something is after it.
TreeInv ==
  /\ TreeTypeOK /\ FailedExtractLeavesNothing
  /\ job \in {"idle", "begin"} => tree = <<>> /\ written = 0
  /\ written # 0 /\ job # "failed" => tree # <<>>
  /\ job \in {"patch", "edit", "done"} => entries = <<>> /\ written # 0

FilesHaveTexts(nodes, texts) == \A p \in DOMAIN nodes : nodes[p].kind = "file" => nodes[p].at \in DOMAIN texts

LEMMA Filled ==
  ASSUME NEW m, NEW key, NEW value
  PROVE  /\ DOMAIN With(m, key, value) = DOMAIN m \cup {key}
         /\ With(m, key, value)[key] = value
         /\ \A k \in DOMAIN m : k # key => With(m, key, value)[k] = m[k]
         /\ With(m, key, value) # <<>>
<1>1. /\ DOMAIN With(m, key, value) = DOMAIN m \cup {key}
      /\ With(m, key, value)[key] = value
      /\ \A k \in DOMAIN m : k # key => With(m, key, value)[k] = m[k]
  BY DEF With
<1>2. DOMAIN <<>> = {}
  OBVIOUS
<1> HIDE DEF With
<1> QED
  BY <1>1, <1>2

LEMMA PlacedNodes ==
  ASSUME NEW nodes, NEW before, NEW texts, FilesHaveTexts(nodes, before), DOMAIN before \subseteq DOMAIN texts,
         NEW place, NEW node, node.kind = "file" => node.at \in DOMAIN texts
  PROVE  FilesHaveTexts(With(nodes, place, node), texts) /\ With(nodes, place, node) # <<>>
<1>1. PICK more : more = With(nodes, place, node)
  OBVIOUS
<1>2. DOMAIN more = DOMAIN nodes \cup {place} /\ more[place] = node /\ (\A k \in DOMAIN nodes : k # place => more[k] = nodes[k])
      /\ more # <<>>
  <2>1. /\ DOMAIN With(nodes, place, node) = DOMAIN nodes \cup {place}
        /\ With(nodes, place, node)[place] = node
        /\ \A k \in DOMAIN nodes : k # place => With(nodes, place, node)[k] = nodes[k]
        /\ With(nodes, place, node) # <<>>
    BY Filled, Zenon
  <2> QED
    BY <1>1, <2>1, Zenon
<1>3. ASSUME NEW k \in DOMAIN more, more[k].kind = "file" PROVE more[k].at \in DOMAIN texts
  <2>1. CASE k = place
    <3>1. more[k] = node
      BY <1>2, <2>1
    <3>2. node.kind = "file"
      BY <1>3, <3>1
    <3> QED
      BY <3>1, <3>2
  <2>2. CASE k # place
    <3>1. k \in DOMAIN nodes /\ more[k] = nodes[k]
      BY <1>2, <2>2
    <3>2. nodes[k].at \in DOMAIN before
      BY <1>3, <3>1 DEF FilesHaveTexts
    <3> QED
      BY <3>1, <3>2
  <2> QED
    BY <2>1, <2>2
<1> QED
  BY <1>1, <1>2, <1>3 DEF FilesHaveTexts

LEMMA WrittenFilesHaveTexts ==
  ASSUME FilesHaveTexts(tree, text), NEW p, NEW t, Write(p, t)
  PROVE  FilesHaveTexts(tree', text') /\ tree' # <<>>
<1>1. DOMAIN text' = DOMAIN text \cup {At(p)}
  BY Filled DEF Write
<1>2. CASE Lead(p) \in DOMAIN tree
  <2>1. tree' = tree
    BY <1>2 DEF Write
  <2>2. DOMAIN <<>> = {}
    OBVIOUS
  <2> QED
    BY <1>1, <1>2, <2>1, <2>2 DEF FilesHaveTexts
<1>3. CASE Lead(p) \notin DOMAIN tree
  <2>1. At(p) = Lead(p)
    BY <1>3 DEF At
  <2>2. PICK node : node = [kind |-> "file", at |-> Lead(p)]
    OBVIOUS
  <2>3. tree' = With(tree, Lead(p), node) /\ node.at \in DOMAIN text' /\ DOMAIN text \subseteq DOMAIN text'
    BY <1>1, <1>3, <2>1, <2>2 DEF Write
  <2>4. FilesHaveTexts(With(tree, Lead(p), node), text') /\ With(tree, Lead(p), node) # <<>>
    BY <2>3, PlacedNodes
  <2> QED
    BY <2>3, <2>4
<1> QED
  BY <1>2, <1>3

LEMMA PlacedNodesHaveTexts ==
  ASSUME FilesHaveTexts(tree, text), NEW p, NEW node, tree' = With(tree, p, node), text' = text,
         node.kind = "file" => node.at \in DOMAIN text
  PROVE  FilesHaveTexts(tree', text') /\ tree' # <<>>
<1>1. FilesHaveTexts(With(tree, p, node), text) /\ With(tree, p, node) # <<>>
  BY PlacedNodes
<1>2. FilesHaveTexts(tree', text') <=> FilesHaveTexts(With(tree, p, node), text)
  BY DEF FilesHaveTexts
<1> QED
  BY <1>1, <1>2

\* However long an archive is and whichever entry, patch or edit fails: a job never
\* hands on a tree that is half done, and a failed one leaves nothing.
THEOREM ExtractedTreesAreWhole == TreeSpec => []TreesAreWhole
<1>0. TreeTypeOK <=> /\ job \in {"idle", "begin", "extract", "patch", "edit", "done", "failed"} /\ written \in Nat
                     /\ FilesHaveTexts(tree, text)
  BY DEF TreeTypeOK, FilesHaveTexts
<1>1. TreeInit => TreeInv
  BY DEF TreeInit, TreeInv, TreeTypeOK, FailedExtractLeavesNothing
<1>2. TreeInv /\ [TreeNext]_treeVars => TreeInv'
  <2> SUFFICES ASSUME TreeInv, [TreeNext]_treeVars PROVE TreeInv'
    OBVIOUS
  <2> USE DEF TreeInv
  <2>0. written \in Nat /\ FilesHaveTexts(tree, text)
    BY <1>0
  <2>1. ASSUME NEW found, NEW a, NEW d, NEW l, job = "idle", BuildTree(found, a, d, l) PROVE TreeInv'
    BY <2>1 DEF BuildTree, TreeTypeOK, FailedExtractLeavesNothing
  <2>2. CASE BeginExtract
    BY <2>2 DEF BeginExtract, TreeTypeOK, FailedExtractLeavesNothing
  <2>3. CASE SkipEntry
    BY <2>3 DEF SkipEntry, TreeTypeOK, FailedExtractLeavesNothing
  <2>4. CASE ExtractEntry
    <3> DEFINE n == Head(entries)
               p == Inside(n.name)
    <3>1. /\ job = "extract" /\ job' = job /\ written' = written + 1 /\ ~EntryFails(n) /\ ~Skipped(n.name)
          /\ \/ n.kind = "file" /\ Write(p, n.text)
             \/ n.kind = "dir" /\ MkdirAll(p)
             \/ n.kind = "link" /\ tree' = With(tree, p, [kind |-> "link", at |-> n.to]) /\ text' = text
             \/ n.kind = "hard" /\ tree' = With(tree, p, LinkedNode(Inside(n.to))) /\ text' = text
      BY <2>4 DEF ExtractEntry
    <3> HIDE DEF n, p
    <3>2. ASSUME Write(p, n.text)
          PROVE  FilesHaveTexts(tree', text') /\ tree' # <<>>
      BY <2>0, <3>2, WrittenFilesHaveTexts
    <3>3. ASSUME MkdirAll(p)
          PROVE  FilesHaveTexts(tree', text') /\ tree' # <<>>
      <4>1. CASE p \in DOMAIN tree
        <5>1. tree' = tree /\ text' = text /\ DOMAIN <<>> = {}
          BY <3>3, <4>1 DEF MkdirAll
        <5> QED
          BY <2>0, <4>1, <5>1 DEF FilesHaveTexts
      <4>2. CASE p \notin DOMAIN tree
        <5>1. tree' = With(tree, p, [kind |-> "dir", at |-> p]) /\ text' = text
          BY <3>3, <4>2 DEF MkdirAll
        <5> QED
          BY <2>0, <5>1, PlacedNodesHaveTexts
      <4> QED
        BY <4>1, <4>2
    <3>4. ASSUME tree' = With(tree, p, [kind |-> "link", at |-> n.to]) /\ text' = text
          PROVE  FilesHaveTexts(tree', text') /\ tree' # <<>>
      BY <2>0, <3>4, PlacedNodesHaveTexts
    <3>5. ASSUME n.kind = "hard" /\ tree' = With(tree, p, LinkedNode(Inside(n.to))) /\ text' = text
          PROVE  FilesHaveTexts(tree', text') /\ tree' # <<>>
      <4>1. Inside(n.to) \in DOMAIN tree
        BY <3>1, <3>5 DEF EntryFails
      <4> QED
        BY <2>0, <3>5, <4>1, PlacedNodesHaveTexts DEF LinkedNode, FilesHaveTexts
    <3>6. FilesHaveTexts(tree', text') /\ tree' # <<>>
      BY <3>1, <3>2, <3>3, <3>4, <3>5
    <3> QED
      BY <2>0, <3>1, <3>6 DEF TreeTypeOK, FailedExtractLeavesNothing, FilesHaveTexts
  <2>5. CASE ExtractFails
    BY <2>5 DEF ExtractFails, EmptyAgain, TreeTypeOK, FailedExtractLeavesNothing
  <2>6. CASE EndExtract
    <3>1. CASE written = 0
      BY <2>6, <3>1 DEF EndExtract, EmptyAgain, TreeTypeOK, FailedExtractLeavesNothing
    <3>2. CASE written # 0
      BY <2>6, <3>2 DEF EndExtract, TreeTypeOK, FailedExtractLeavesNothing
    <3> QED
      BY <3>1, <3>2
  <2>7. CASE ApplyPatch
    <3>1. job = "patch" /\ UNCHANGED <<entries, written>>
      BY <2>7 DEF ApplyPatch
    <3>2. CASE UNCHANGED <<tree, text>> /\ job' = "failed"
      BY <2>7, <3>1, <3>2 DEF TreeTypeOK, FailedExtractLeavesNothing
    <3>3. CASE job' = job /\ Write(Head(patches).file, Head(patches).becomes)
      <4>1. FilesHaveTexts(tree', text') /\ tree' # <<>>
        BY <2>0, <3>3, WrittenFilesHaveTexts
      <4> QED
        BY <3>1, <3>3, <4>1 DEF TreeTypeOK, FailedExtractLeavesNothing, FilesHaveTexts
    <3> QED
      BY <2>7, <3>2, <3>3 DEF ApplyPatch
  <2>8. CASE BeginEdits
    BY <2>8 DEF BeginEdits, TreeTypeOK, FailedExtractLeavesNothing
  <2>9. CASE ApplyEdit
    <3>1. /\ job = "edit" /\ job' \in {"edit", "failed"} /\ UNCHANGED <<entries, written, tree>>
          /\ DOMAIN text' = DOMAIN text
      BY <2>9 DEF ApplyEdit
    <3> QED
      BY <3>1 DEF TreeTypeOK, FailedExtractLeavesNothing
  <2>10. CASE EndEdits
    BY <2>10 DEF EndEdits, TreeTypeOK, FailedExtractLeavesNothing
  <2>11. CASE UNCHANGED treeVars
    BY <2>11 DEF treeVars, TreeTypeOK, FailedExtractLeavesNothing
  <2> QED
    BY <2>1, <2>2, <2>3, <2>4, <2>5, <2>6, <2>7, <2>8, <2>9, <2>10, <2>11 DEF TreeNext
<1>3. TreeInv => TreesAreWhole
  BY DEF TreeInv, TreesAreWhole
<1> QED
  BY <1>1, <1>2, <1>3, PTL DEF TreeSpec

--------------------------------------------------------------------------------
(* Their edits.                                                            *)

\* Lines, the blank one among them, and texts.
AllLines == STRING \cup {Blank}
TextSet == Seq(AllLines) \ {<<>>}
Turns(e) == [x \in AllLines |-> EditedLine(e, x)]

LEMMA TextsAre == AllTexts \subseteq TextSet /\ EmptyText \in TextSet /\ Len(EmptyText) = 1 /\ Blank \in AllLines
<1>1. STRING \subseteq AllLines /\ Blank \in AllLines
  BY DEF AllLines
<1>2. \A t \in Seq(STRING) : t \in Seq(AllLines)
  BY <1>1, SeqMonotonic
<1>3. <<Blank>> \in Seq(AllLines) /\ Len(<<Blank>>) = 1 /\ <<Blank>> # <<>>
  BY <1>1
<1> QED
  BY <1>1, <1>2, <1>3 DEF AllTexts, TextSet, EmptyText

\* What an edit makes of a line, and of lines.
LEMMA EditedLineIs ==
  ASSUME NEW e, Added(e) \in Seq(AllLines), NEW x \in AllLines
  PROVE  /\ EditedLine(e, x) \in Seq(AllLines)
         /\ ~Matches(e, x) => EditedLine(e, x) = <<x>>
         /\ \A i \in 1..Len(EditedLine(e, x)) :
              EditedLine(e, x)[i] = x \/ (Matches(e, x) /\ \E k \in 1..Len(Added(e)) : EditedLine(e, x)[i] = Added(e)[k])
<1> DEFINE a == Added(e)
           Fine(y) == y \in Seq(AllLines)
                      /\ \A i \in 1..Len(y) : y[i] = x \/ (Matches(e, x) /\ \E k \in 1..Len(a) : y[i] = a[k])
<1>1. a \in Seq(AllLines) /\ <<x>> \in Seq(AllLines) /\ Len(<<x>>) = 1 /\ <<x>>[1] = x /\ Len(a) \in Nat
  OBVIOUS
<1>2. Fine(<<x>>)
  <2>1. PICK y : y = <<x>>
    OBVIOUS
  <2>2. y \in Seq(AllLines) /\ \A i \in 1..Len(y) : y[i] = x
    BY <1>1, <2>1
  <2>3. Fine(y)
    BY <2>2
  <2> HIDE DEF Fine
  <2> QED
    BY ONLY <2>1, <2>3
<1>3. ASSUME Matches(e, x) PROVE Fine(<<x>> \o a)
  <2>1. PICK y : y = <<x>> \o a
    OBVIOUS
  <2>2. y \in Seq(AllLines) /\ Len(y) = Len(a) + 1 /\ y[1] = x /\ \A k \in 1..Len(a) : y[k + 1] = a[k]
    BY <1>1, <2>1
  <2>3. ASSUME NEW i \in 1..Len(y) PROVE y[i] = x \/ \E k \in 1..Len(a) : y[i] = a[k]
    <3>1. i = 1 \/ i - 1 \in 1..Len(a)
      BY <1>1, <2>2
    <3>2. i - 1 \in 1..Len(a) => y[i] = a[i - 1]
      BY <1>1, <2>2
    <3> QED
      BY <2>2, <3>1, <3>2
  <2>4. Fine(y)
    BY <1>3, <2>2, <2>3
  <2> HIDE DEF Fine
  <2> QED
    BY ONLY <2>1, <2>4
<1>4. ASSUME Matches(e, x) PROVE Fine(a \o <<x>>)
  <2>1. PICK y : y = a \o <<x>>
    OBVIOUS
  <2>2. y \in Seq(AllLines) /\ Len(y) = Len(a) + 1 /\ y[Len(a) + 1] = x /\ \A k \in 1..Len(a) : y[k] = a[k]
    BY <1>1, <2>1
  <2>3. ASSUME NEW i \in 1..Len(y) PROVE y[i] = x \/ \E k \in 1..Len(a) : y[i] = a[k]
    <3>1. i = Len(a) + 1 \/ i \in 1..Len(a)
      BY <1>1, <2>2
    <3> QED
      BY <2>2, <3>1
  <2>4. Fine(y)
    BY <1>4, <2>2, <2>3
  <2> HIDE DEF Fine
  <2> QED
    BY ONLY <2>1, <2>4
<1>5. ASSUME Matches(e, x) PROVE Fine(a)
  BY <1>1, <1>5
<1>6. Fine(<<>>)
  OBVIOUS
<1>7. ~Matches(e, x) => EditedLine(e, x) = <<x>>
  BY Zenon DEF EditedLine
<1>8. Matches(e, x) => EditedLine(e, x) \in {<<x>> \o a, a \o <<x>>, a, <<>>}
  <2>1. ASSUME Matches(e, x), e.action = "insert_after" PROVE EditedLine(e, x) = <<x>> \o a
    BY <2>1, Zenon DEF EditedLine
  <2>2. ASSUME Matches(e, x), e.action # "insert_after", e.action = "insert_before" PROVE EditedLine(e, x) = a \o <<x>>
    BY <2>2, Zenon DEF EditedLine
  <2>3. ASSUME Matches(e, x), e.action # "insert_after", e.action # "insert_before", e.action = "replace_line"
        PROVE  EditedLine(e, x) = a
    BY <2>3, Zenon DEF EditedLine
  <2>4. ASSUME Matches(e, x), e.action # "insert_after", e.action # "insert_before", e.action # "replace_line"
        PROVE  EditedLine(e, x) = <<>>
    BY <2>4, Zenon DEF EditedLine
  <2> QED
    BY <2>1, <2>2, <2>3, <2>4, Zenon
<1>9. Fine(EditedLine(e, x))
  <2> HIDE DEF Fine, a
  <2> QED
    BY <1>2, <1>3, <1>4, <1>5, <1>6, <1>7, <1>8
<1> QED
  BY <1>7, <1>9

LEMMA TurnsIs ==
  ASSUME NEW e, Added(e) \in Seq(AllLines)
  PROVE  /\ Turns(e) \in [AllLines -> Seq(AllLines)]
         /\ \A x \in AllLines : Turns(e)[x] = EditedLine(e, x)
         /\ \A s \in Seq(AllLines) : EditedLines(e, s) = Spread(Turns(e), s) /\ EditedLines(e, s) \in Seq(AllLines)
<1>1. \A x \in AllLines : EditedLine(e, x) \in Seq(AllLines)
  BY EditedLineIs
<1>2. Turns(e) \in [AllLines -> Seq(AllLines)] /\ \A x \in AllLines : Turns(e)[x] = EditedLine(e, x)
  BY <1>1 DEF Turns
<1>3. ASSUME NEW s \in Seq(AllLines) PROVE EditedLines(e, s) = Spread(Turns(e), s) /\ Spread(Turns(e), s) \in Seq(AllLines)
  <2>1. \A i \in DOMAIN s : Turns(e)[s[i]] = EditedLine(e, s[i])
    BY <1>2
  <2>2. [i \in DOMAIN s |-> EditedLine(e, s[i])] = [i \in DOMAIN s |-> Turns(e)[s[i]]]
    BY <2>1
  <2>3. EditedLines(e, s) = Spread(Turns(e), s)
    BY ONLY <2>2 DEF EditedLines, Spread
  <2> QED
    BY <1>2, <2>3, SpreadGrows
<1> QED
  BY <1>2, <1>3

\* One line more.
LEMMA EditedLinesGrow ==
  ASSUME NEW e, Added(e) \in Seq(AllLines)
  PROVE  /\ EditedLines(e, <<>>) = <<>>
         /\ \A s \in Seq(AllLines), x \in AllLines : EditedLines(e, Append(s, x)) = EditedLines(e, s) \o EditedLine(e, x)
<1>1. /\ Turns(e) \in [AllLines -> Seq(AllLines)] /\ \A x \in AllLines : Turns(e)[x] = EditedLine(e, x)
      /\ \A s \in Seq(AllLines) : EditedLines(e, s) = Spread(Turns(e), s)
  BY TurnsIs
<1>2. PICK m : m = Turns(e)
  OBVIOUS
<1>3. m \in [AllLines -> Seq(AllLines)]
  BY <1>1, <1>2
<1>4. /\ Spread(m, <<>>) = <<>>
      /\ \A s \in Seq(AllLines), x \in AllLines : Spread(m, Append(s, x)) = Spread(m, s) \o m[x]
  BY <1>3, SpreadGrows
<1>5. <<>> \in Seq(AllLines)
  OBVIOUS
<1>6. \A s \in Seq(AllLines), x \in AllLines : Append(s, x) \in Seq(AllLines)
  OBVIOUS
<1> QED
  BY ONLY <1>1, <1>2, <1>4, <1>5, <1>6

\* The lines of a text.
LEMMA SplitIs ==
  ASSUME NEW t \in TextSet
  PROVE  \/ t = EmptyText /\ SplitLines(t).lines = <<>> /\ ~SplitLines(t).newline
         \/ /\ t # EmptyText /\ SplitLines(t).newline /\ SplitLines(t).lines \in Seq(AllLines)
            /\ SplitLines(t).lines # <<>> /\ t = Append(SplitLines(t).lines, Blank)
         \/ t # EmptyText /\ SplitLines(t).lines = t /\ ~SplitLines(t).newline
<1>1. CASE t = EmptyText
  <2>1. SplitLines(t) = [lines |-> <<>>, newline |-> FALSE]
    BY <1>1, Zenon DEF SplitLines
  <2>2. SplitLines(t).lines = <<>> /\ SplitLines(t).newline = FALSE
    BY ONLY <2>1
  <2> QED
    BY <1>1, <2>2, Zenon
<1>2. CASE t # EmptyText /\ Last(t) = Blank
  <2>1. SplitLines(t) = [lines |-> Front(t), newline |-> TRUE]
    BY <1>2, Zenon DEF SplitLines
  <2>2. SplitLines(t).lines = Front(t) /\ SplitLines(t).newline = TRUE
    BY ONLY <2>1
  <2>3. t \in Seq(AllLines) /\ t # <<>> /\ Len(t) \in Nat \ {0}
    BY DEF TextSet
  <2>4. PICK n : n = Len(t) - 1
    OBVIOUS
  <2>5. n \in Nat /\ Len(t) = n + 1 /\ t[n + 1] = Blank
    BY <1>2, <2>3, <2>4 DEF Last
  <2>6. PICK f : f = Front(t)
    OBVIOUS
  <2>7. f \in Seq(AllLines) /\ Len(f) = n /\ \A i \in 1..n : f[i] = t[i]
    <3>1. f = SubSeq(t, 1, n)
      BY <2>4, <2>6 DEF Front
    <3>2. \A i \in 1..n : t[i] \in AllLines
      BY <2>3, <2>5
    <3> QED
      BY <2>5, <3>1, <3>2
  <2>8. t = Append(f, Blank)
    <3>1. Blank \in AllLines
      BY DEF AllLines
    <3>2. PICK g : g = Append(f, Blank)
      OBVIOUS
    <3>3. g \in Seq(AllLines) /\ Len(g) = n + 1 /\ g[n + 1] = Blank /\ \A i \in 1..n : g[i] = f[i]
      BY <2>7, <3>1, <3>2, AppendProperties
    <3>4. \A i \in 1..Len(t) : t[i] = g[i]
      <4>1. \A i \in 1..(n + 1) : i = n + 1 \/ i \in 1..n
        BY <2>5
      <4> QED
        BY <2>5, <2>7, <3>3, <4>1
    <3> QED
      BY <2>3, <2>5, <3>2, <3>3, <3>4, SeqEqual
  <2>9. f # <<>>
    <3>1. ASSUME f = <<>> PROVE FALSE
      <4>1. t = <<Blank>>
        BY <2>8, <3>1
      <4> QED
        BY <1>2, <4>1 DEF EmptyText
    <3> QED
      BY <3>1
  <2> QED
    BY <1>2, <2>2, <2>6, <2>7, <2>8, <2>9, Zenon
<1>3. CASE t # EmptyText /\ Last(t) # Blank
  <2>1. SplitLines(t) = [lines |-> t, newline |-> FALSE]
    BY <1>3, Zenon DEF SplitLines
  <2>2. SplitLines(t).lines = t /\ SplitLines(t).newline = FALSE
    BY ONLY <2>1
  <2> QED
    BY <1>3, <2>2, Zenon
<1> QED
  BY <1>1, <1>2, <1>3

\* What an edit makes of a text, by the lines that were there.
LEMMA EditedIs ==
  ASSUME NEW e, Added(e) \in Seq(AllLines), NEW t \in TextSet
  PROVE  \/ t = EmptyText /\ Edited(e, t) = EmptyText
         \/ \E lines \in Seq(AllLines) :
              /\ t = Append(lines, Blank) /\ lines # <<>> /\ SplitLines(t).lines = lines
              /\ \/ Edited(e, t) = Append(EditedLines(e, lines), Blank)
                 \/ EditedLines(e, lines) \in {<<>>, EmptyText} /\ Edited(e, t) = EmptyText
         \/ /\ t # EmptyText /\ SplitLines(t).lines = t
            /\ \/ EditedLines(e, t) # <<>> /\ Edited(e, t) = EditedLines(e, t)
               \/ EditedLines(e, t) = <<>> /\ Edited(e, t) = EmptyText
<1>1. PICK old : old = SplitLines(t)
  OBVIOUS
<1>2. PICK new : new = EditedLines(e, old.lines)
  OBVIOUS
<1>3. /\ old.newline /\ Joined(new) # EmptyText => Edited(e, t) = Append(Joined(new), Blank)
      /\ ~(old.newline /\ Joined(new) # EmptyText) => Edited(e, t) = Joined(new)
  <2>1. CASE old.newline /\ Joined(new) # EmptyText
    BY <1>1, <1>2, <2>1, Zenon DEF Edited
  <2>2. CASE ~(old.newline /\ Joined(new) # EmptyText)
    BY <1>1, <1>2, <2>2, Zenon DEF Edited
  <2> QED
    BY <2>1, <2>2, Zenon
<1>4. (new = <<>> => Joined(new) = EmptyText) /\ (new # <<>> => Joined(new) = new)
  BY DEF Joined
<1>5. CASE t = EmptyText /\ old.lines = <<>> /\ ~old.newline
  <2>1. new = <<>>
    BY <1>2, <1>5, EditedLinesGrow
  <2>2. Edited(e, t) = EmptyText
    BY <1>3, <1>4, <1>5, <2>1, Zenon
  <2> QED
    BY <1>5, <2>2
<1>6. CASE old.newline /\ old.lines \in Seq(AllLines) /\ old.lines # <<>> /\ t = Append(old.lines, Blank)
  <2>1. CASE Joined(new) # EmptyText
    <3>1. Edited(e, t) = Append(Joined(new), Blank)
      BY <1>3, <1>6, <2>1, Zenon
    <3>2. Joined(new) = new
      BY <1>4, <2>1, Zenon
    <3>3. Edited(e, t) = Append(EditedLines(e, old.lines), Blank)
      BY <1>2, <3>1, <3>2, Zenon
    <3> QED
      BY <1>1, <1>6, <3>3, Zenon
  <2>2. CASE Joined(new) = EmptyText
    <3>1. Edited(e, t) = EmptyText
      BY <1>3, <2>2, Zenon
    <3>2. new = <<>> \/ new = EmptyText
      BY <1>4, <2>2, Zenon
    <3>3. EditedLines(e, old.lines) \in {<<>>, EmptyText}
      BY <1>2, <3>2, Zenon
    <3> QED
      BY <1>1, <1>6, <3>1, <3>3, Zenon
  <2> QED
    BY <2>1, <2>2
<1>7. CASE t # EmptyText /\ old.lines = t /\ ~old.newline
  <2>1. new = EditedLines(e, t) /\ SplitLines(t).lines = t
    BY <1>1, <1>2, <1>7, Zenon
  <2>2. Edited(e, t) = Joined(new)
    BY <1>3, <1>7, Zenon
  <2> QED
    BY <1>4, <1>7, <2>1, <2>2, Zenon
<1>8. \/ t = EmptyText /\ old.lines = <<>> /\ ~old.newline
      \/ t # EmptyText /\ old.newline /\ old.lines \in Seq(AllLines) /\ old.lines # <<>> /\ t = Append(old.lines, Blank)
      \/ t # EmptyText /\ old.lines = t /\ ~old.newline
  BY <1>1, SplitIs, Zenon
<1> QED
  BY <1>5, <1>6, <1>7, <1>8, Zenon

LEMMA EditedStays ==
  ASSUME NEW e, Added(e) \in Seq(AllLines), NEW t \in TextSet
  PROVE  Edited(e, t) \in TextSet
<1>1. EmptyText \in TextSet /\ Blank \in AllLines
  BY TextsAre
<1>2. \A s \in Seq(AllLines) : EditedLines(e, s) \in Seq(AllLines)
  BY TurnsIs
<1>3. CASE t = EmptyText /\ Edited(e, t) = EmptyText
  BY <1>1, <1>3
<1>4. ASSUME NEW lines \in Seq(AllLines), Edited(e, t) = Append(EditedLines(e, lines), Blank) \/ Edited(e, t) = EmptyText
      PROVE  Edited(e, t) \in TextSet
  <2>1. PICK u : u = EditedLines(e, lines)
    OBVIOUS
  <2>2. u \in Seq(AllLines)
    BY <1>2, <2>1
  <2>3. Append(u, Blank) \in Seq(AllLines) /\ Append(u, Blank) # <<>>
    BY <1>1, <2>2, AppendProperties
  <2> QED
    BY <1>1, <1>4, <2>1, <2>3 DEF TextSet
<1>5. CASE \/ EditedLines(e, t) # <<>> /\ Edited(e, t) = EditedLines(e, t)
           \/ EditedLines(e, t) = <<>> /\ Edited(e, t) = EmptyText
  <2>1. t \in Seq(AllLines)
    BY DEF TextSet
  <2>2. PICK u : u = EditedLines(e, t)
    OBVIOUS
  <2>3. u \in Seq(AllLines)
    BY <1>2, <2>1, <2>2
  <2> QED
    BY <1>1, <1>5, <2>2, <2>3 DEF TextSet
<1> QED
  BY <1>3, <1>4, <1>5, EditedIs

\* What an edit adds for each line that it matches.
PerHit(e) == Len(Added(e)) - (IF e.action \in {"replace_line", "delete_line"} THEN 1 ELSE 0)
HitSet(e, s) == {i \in 1..Len(s) : Matches(e, s[i])}

LEMMA LineLength ==
  ASSUME NEW e, Added(e) \in Seq(AllLines), e.action \in Actions, e.action = "delete_line" => Added(e) = <<>>,
         NEW x \in AllLines
  PROVE  PerHit(e) \in Int /\ Len(EditedLine(e, x)) = IF Matches(e, x) THEN 1 + PerHit(e) ELSE 1
<1>1. PICK a : a = Added(e)
  OBVIOUS
<1>2. /\ a \in Seq(AllLines) /\ <<x>> \in Seq(AllLines) /\ Len(<<x>>) = 1 /\ Len(a) \in Nat /\ Len(<<>>) = 0
      /\ Len(<<x>> \o a) = Len(a) + 1 /\ Len(a \o <<x>>) = Len(a) + 1
  BY <1>1
<1>3. CASE ~Matches(e, x)
  <2>1. EditedLine(e, x) = <<x>>
    BY <1>3, Zenon DEF EditedLine
  <2>2. PerHit(e) \in Int
    BY <1>1, <1>2 DEF PerHit
  <2> QED
    BY <1>2, <1>3, <2>1, <2>2
<1>4. CASE Matches(e, x)
  <2>1. CASE e.action = "insert_after"
    <3>1. EditedLine(e, x) = <<x>> \o a
      BY <1>1, <1>4, <2>1, Zenon DEF EditedLine
    <3>2. PerHit(e) = Len(a)
      BY <1>1, <1>2, <2>1 DEF PerHit
    <3> QED
      BY <1>2, <1>4, <3>1, <3>2
  <2>2. CASE e.action # "insert_after" /\ e.action = "insert_before"
    <3>1. EditedLine(e, x) = a \o <<x>>
      BY <1>1, <1>4, <2>2, Zenon DEF EditedLine
    <3>2. PerHit(e) = Len(a)
      BY <1>1, <1>2, <2>2 DEF PerHit
    <3> QED
      BY <1>2, <1>4, <3>1, <3>2
  <2>3. CASE e.action # "insert_after" /\ e.action # "insert_before" /\ e.action = "replace_line"
    <3>1. EditedLine(e, x) = a
      BY <1>1, <1>4, <2>3, Zenon DEF EditedLine
    <3>2. PerHit(e) = Len(a) - 1
      BY <1>1, <1>2, <2>3 DEF PerHit
    <3> QED
      BY <1>2, <1>4, <3>1, <3>2
  <2>4. CASE e.action # "insert_after" /\ e.action # "insert_before" /\ e.action # "replace_line"
    <3>1. EditedLine(e, x) = <<>>
      BY <1>1, <1>4, <2>4, Zenon DEF EditedLine
    <3>2. e.action = "delete_line"
      BY <2>4 DEF Actions
    <3>3. a = <<>>
      BY <1>1, <3>2
    <3>4. PerHit(e) = 0 - 1
      BY <1>1, <1>2, <3>2, <3>3 DEF PerHit
    <3> QED
      BY <1>2, <1>4, <3>1, <3>4
  <2> QED
    BY <2>1, <2>2, <2>3, <2>4
<1> QED
  BY <1>3, <1>4

LEMMA EditedLength ==
  ASSUME NEW e, Added(e) \in Seq(AllLines), e.action \in Actions, e.action = "delete_line" => Added(e) = <<>>,
         NEW s \in Seq(AllLines)
  PROVE  /\ Cardinality(HitSet(e, s)) \in Nat
         /\ Len(EditedLines(e, s)) = Len(s) + Cardinality(HitSet(e, s)) * PerHit(e)
<1> DEFINE d == PerHit(e)
           P == {t \in Seq(AllLines) : /\ IsFiniteSet(HitSet(e, t)) /\ Cardinality(HitSet(e, t)) \in Nat
                                       /\ Len(EditedLines(e, t)) = Len(t) + Cardinality(HitSet(e, t)) * d}
<1>1. /\ \A t \in Seq(AllLines) : EditedLines(e, t) \in Seq(AllLines)
      /\ EditedLines(e, <<>>) = <<>>
      /\ \A t \in Seq(AllLines), x \in AllLines : EditedLines(e, Append(t, x)) = EditedLines(e, t) \o EditedLine(e, x)
  BY TurnsIs, EditedLinesGrow
<1>2. /\ \A x \in AllLines : EditedLine(e, x) \in Seq(AllLines)
      /\ \A x \in AllLines : d \in Int /\ Len(EditedLine(e, x)) = IF Matches(e, x) THEN 1 + d ELSE 1
  BY EditedLineIs, LineLength
<1> HIDE DEF d
<1>3. <<>> \in P
  <2>1. HitSet(e, <<>>) = {}
    BY DEF HitSet
  <2>2. Blank \in AllLines
    BY TextsAre
  <2>3. d \in Int
    BY <1>2, <2>2
  <2>4. Cardinality({}) = 0 /\ IsFiniteSet({}) /\ 0 * d = 0 /\ <<>> \in Seq(AllLines) /\ Len(<<>>) = 0
    BY <2>3, FS_EmptySet
  <2>5. Len(EditedLines(e, <<>>)) = 0 /\ Cardinality(HitSet(e, <<>>)) = 0 /\ IsFiniteSet(HitSet(e, <<>>))
    BY ONLY <1>1, <2>1, <2>4
  <2>6. Len(EditedLines(e, <<>>)) = Len(<<>>) + Cardinality(HitSet(e, <<>>)) * d
    BY ONLY <2>4, <2>5
  <2>7. Cardinality(HitSet(e, <<>>)) \in Nat
    BY ONLY <2>5
  <2> QED
    BY ONLY <2>4, <2>5, <2>6, <2>7 DEF P
<1>4. ASSUME NEW t \in Seq(AllLines), NEW x \in AllLines, t \in P PROVE Append(t, x) \in P
  <2>1. PICK u : u = Append(t, x)
    OBVIOUS
  <2>2. /\ u \in Seq(AllLines) /\ Len(u) = Len(t) + 1 /\ u[Len(t) + 1] = x /\ (\A i \in 1..Len(t) : u[i] = t[i])
        /\ Len(t) \in Nat
    BY <2>1, AppendProperties
  <2>3. PICK n : n = Cardinality(HitSet(e, t))
    OBVIOUS
  <2>4. n \in Nat /\ Len(EditedLines(e, t)) = Len(t) + n * d /\ IsFiniteSet(HitSet(e, t)) /\ d \in Int
    BY <1>2, <1>4, <2>3
  <2>5. Len(EditedLines(e, u)) = Len(EditedLines(e, t)) + Len(EditedLine(e, x))
    <3>1. PICK a, b : a = EditedLines(e, t) /\ b = EditedLine(e, x)
      OBVIOUS
    <3>2. a \in Seq(AllLines) /\ b \in Seq(AllLines) /\ EditedLines(e, u) = a \o b
      BY <1>1, <1>2, <2>1, <3>1
    <3> QED
      BY ONLY <3>1, <3>2
  <2>6. CASE Matches(e, x)
    <3>1. HitSet(e, u) = HitSet(e, t) \cup {Len(t) + 1} /\ Len(t) + 1 \notin HitSet(e, t)
      <4>1. \A i : i \in 1..Len(u) <=> i \in 1..Len(t) \/ i = Len(t) + 1
        BY <2>2
      <4>2. Len(t) + 1 \notin 1..Len(t)
        BY <2>2
      <4> QED
        BY <2>2, <2>6, <4>1, <4>2 DEF HitSet
    <3>2. Cardinality(HitSet(e, u)) = n + 1 /\ IsFiniteSet(HitSet(e, u))
      BY <2>3, <2>4, <3>1, FS_AddElement
    <3>3. Len(EditedLine(e, x)) = 1 + d
      BY <1>2, <2>6
    <3>4. (n + 1) * d = n * d + d /\ n * d \in Int
      BY <2>4
    <3>5. Len(EditedLines(e, u)) = Len(u) + (n + 1) * d
      BY <2>2, <2>4, <2>5, <3>3, <3>4
    <3> QED
      BY <2>1, <2>2, <2>4, <3>2, <3>5
  <2>7. CASE ~Matches(e, x)
    <3>1. HitSet(e, u) = HitSet(e, t)
      <4>1. \A i : i \in 1..Len(u) <=> i \in 1..Len(t) \/ i = Len(t) + 1
        BY <2>2
      <4>2. Len(t) + 1 \notin 1..Len(t)
        BY <2>2
      <4> QED
        BY <2>2, <2>7, <4>1, <4>2 DEF HitSet
    <3>2. Len(EditedLine(e, x)) = 1
      BY <1>2, <2>7
    <3>3. n * d \in Int
      BY <2>4
    <3>4. Len(EditedLines(e, u)) = Len(u) + n * d
      BY <2>2, <2>4, <2>5, <3>2, <3>3
    <3> QED
      BY <2>1, <2>2, <2>3, <2>4, <3>1, <3>4
  <2> QED
    BY <2>6, <2>7
<1>5. s \in P
  <2>1. \A t \in Seq(AllLines), x \in AllLines : t \in P => Append(t, x) \in P
    BY <1>4
  <2> HIDE DEF P
  <2>2. \A t \in Seq(AllLines) : t \in P
    BY <1>3, <2>1, AllSequences
  <2> QED
    BY <2>2
<1> QED
  BY <1>5 DEF d

\* An edit that applies lengthens its text by what it declares.
LEMMA TextLength ==
  ASSUME NEW e, Added(e) \in Seq(AllLines), e.action \in Actions, e.action = "delete_line" => Added(e) = <<>>,
         e.mustMatch \in Nat, NEW t \in TextSet, Hits(e, t) = Want(e)
  PROVE  /\ t # EmptyText
         /\ \/ Len(Edited(e, t)) = Len(t) + Growth(e)
            \/ Edited(e, t) = EmptyText /\ Len(t) + Growth(e) \in {0, 2}
<1>1. Growth(e) = Want(e) * PerHit(e) /\ Want(e) \in Nat \ {0}
  BY DEF Growth, PerHit, Want
<1>2. \A s \in Seq(AllLines) : SplitLines(t).lines = s => Want(e) = Cardinality(HitSet(e, s))
  <2> SUFFICES ASSUME NEW s \in Seq(AllLines), SplitLines(t).lines = s PROVE Want(e) = Cardinality(HitSet(e, s))
    OBVIOUS
  <2>1. DOMAIN s = 1..Len(s)
    OBVIOUS
  <2>2. HitSet(e, s) = {i \in DOMAIN SplitLines(t).lines : Matches(e, SplitLines(t).lines[i])}
    BY <2>1 DEF HitSet
  <2> QED
    BY <2>2 DEF Hits
<1>3. \A s \in Seq(AllLines) : SplitLines(t).lines = s => Len(EditedLines(e, s)) = Len(s) + Growth(e)
  <2> SUFFICES ASSUME NEW s \in Seq(AllLines), SplitLines(t).lines = s PROVE Len(EditedLines(e, s)) = Len(s) + Growth(e)
    OBVIOUS
  <2>1. Len(EditedLines(e, s)) = Len(s) + Cardinality(HitSet(e, s)) * PerHit(e)
    BY EditedLength
  <2>2. Want(e) = Cardinality(HitSet(e, s))
    BY <1>2
  <2> QED
    BY ONLY <1>1, <2>1, <2>2
<1>4. PerHit(e) \in Int /\ Growth(e) \in Int
  <2>1. Blank \in AllLines
    BY TextsAre
  <2>2. PerHit(e) \in Int
    BY <2>1, LineLength
  <2> QED
    BY <1>1, <2>2
<1>5. t # EmptyText
  <2>1. ASSUME t = EmptyText PROVE FALSE
    <3>1. SplitLines(t).lines = <<>>
      BY <2>1, SplitIs
    <3>2. HitSet(e, <<>>) = {} /\ <<>> \in Seq(AllLines)
      BY DEF HitSet
    <3>3. Want(e) = 0
      BY <1>2, <3>1, <3>2, FS_EmptySet
    <3> QED
      BY <1>1, <3>3
  <2> QED
    BY <2>1
<1>6. ASSUME NEW lines \in Seq(AllLines), t = Append(lines, Blank), SplitLines(t).lines = lines,
             \/ Edited(e, t) = Append(EditedLines(e, lines), Blank)
             \/ EditedLines(e, lines) \in {<<>>, EmptyText} /\ Edited(e, t) = EmptyText
      PROVE  \/ Len(Edited(e, t)) = Len(t) + Growth(e)
             \/ Edited(e, t) = EmptyText /\ Len(t) + Growth(e) \in {0, 2}
  <2>1. PICK u : u = EditedLines(e, lines)
    OBVIOUS
  <2>2. u \in Seq(AllLines) /\ Len(u) = Len(lines) + Growth(e) /\ Len(u) \in Nat /\ Len(lines) \in Nat
    BY <1>3, <1>6, <2>1, TurnsIs
  <2>3. Len(t) = Len(lines) + 1
    BY <1>6
  <2>4. CASE Edited(e, t) = Append(u, Blank)
    <3>1. Len(Append(u, Blank)) = Len(u) + 1
      BY <2>2
    <3> QED
      BY <1>4, <2>2, <2>3, <2>4, <3>1
  <2>5. CASE u \in {<<>>, EmptyText} /\ Edited(e, t) = EmptyText
    <3>1. Len(EmptyText) = 1 /\ Len(<<>>) = 0
      BY TextsAre
    <3>2. CASE u = <<>>
      <4>1. Len(Edited(e, t)) = Len(t) + Growth(e)
        BY <1>4, <2>2, <2>3, <2>5, <3>1, <3>2
      <4> QED
        BY <4>1
    <3>3. CASE u = EmptyText
      <4>1. Len(u) = 1
        BY ONLY <3>1, <3>3
      <4>2. PICK g, n : g = Growth(e) /\ n = Len(lines)
        OBVIOUS
      <4>3. g \in Int /\ n \in Nat /\ n + g = 1
        BY ONLY <1>4, <2>2, <4>1, <4>2
      <4>4. n + 1 + g = 2
        BY ONLY <4>3
      <4>5. Len(t) + Growth(e) = 2
        BY ONLY <2>3, <4>2, <4>4
      <4> QED
        BY <2>5, <4>5
    <3> QED
      BY <2>5, <3>2, <3>3
  <2> QED
    BY <1>6, <2>1, <2>4, <2>5
<1>7. ASSUME SplitLines(t).lines = t,
             \/ EditedLines(e, t) # <<>> /\ Edited(e, t) = EditedLines(e, t)
             \/ EditedLines(e, t) = <<>> /\ Edited(e, t) = EmptyText
      PROVE  \/ Len(Edited(e, t)) = Len(t) + Growth(e)
             \/ Edited(e, t) = EmptyText /\ Len(t) + Growth(e) \in {0, 2}
  <2>1. Len(EditedLines(e, t)) = Len(t) + Growth(e)
    BY <1>3, <1>7 DEF TextSet
  <2>2. Len(<<>>) = 0
    OBVIOUS
  <2> QED
    BY <1>7, <2>1, <2>2
<1> QED
  BY <1>5, <1>6, <1>7, EditedIs

\* Seen as pieces of text, the lines and what is behind the last newline alike, an
\* edit that matches no blank line changes each by itself, unless all is lost.
LEMMA PiecesEdited ==
  ASSUME NEW e, Added(e) \in Seq(AllLines), NEW t \in TextSet, Blank \in ToSet(t) => ~Matches(e, Blank)
  PROVE  \/ Edited(e, t) = EditedLines(e, t)
         \/ Edited(e, t) = EmptyText /\ EditedLines(e, t) \in Seq({Blank})
<1>1. t \in Seq(AllLines) /\ Blank \in AllLines
  BY TextsAre DEF TextSet
<1>2. \A s \in Seq(AllLines) : EditedLines(e, s) \in Seq(AllLines)
  BY TurnsIs
<1>3. ASSUME Blank \in ToSet(t) PROVE \A s \in Seq(AllLines) : EditedLines(e, Append(s, Blank)) = Append(EditedLines(e, s), Blank)
  <2> SUFFICES ASSUME NEW s \in Seq(AllLines) PROVE EditedLines(e, Append(s, Blank)) = Append(EditedLines(e, s), Blank)
    OBVIOUS
  <2>1. EditedLine(e, Blank) = <<Blank>>
    BY <1>1, <1>3, EditedLineIs
  <2>2. EditedLines(e, Append(s, Blank)) = EditedLines(e, s) \o EditedLine(e, Blank)
    BY <1>1, EditedLinesGrow
  <2>3. PICK u : u = EditedLines(e, s)
    OBVIOUS
  <2>4. u \in Seq(AllLines)
    BY <1>2, <2>3
  <2>5. Append(u, Blank) = u \o <<Blank>>
    BY <1>1, <2>4, AppendIsConcat
  <2> QED
    BY ONLY <2>1, <2>2, <2>3, <2>5
<1>4. <<>> \in Seq({Blank}) /\ <<Blank>> \in Seq({Blank})
  OBVIOUS
<1>5. CASE t = EmptyText /\ Edited(e, t) = EmptyText
  <2>1. t = Append(<<>>, Blank) /\ <<>> \in Seq(AllLines)
    BY <1>5 DEF EmptyText
  <2>2. Blank \in ToSet(t)
    BY <1>5 DEF EmptyText, ToSet
  <2>3. EditedLines(e, t) = Append(<<>>, Blank)
    <3>1. EditedLines(e, <<>>) = <<>>
      BY EditedLinesGrow
    <3> QED
      BY ONLY <1>3, <2>1, <2>2, <3>1
  <2> QED
    BY <1>5, <2>1, <2>3
<1>6. ASSUME NEW lines \in Seq(AllLines), t = Append(lines, Blank), lines # <<>>,
             \/ Edited(e, t) = Append(EditedLines(e, lines), Blank)
             \/ EditedLines(e, lines) \in {<<>>, EmptyText} /\ Edited(e, t) = EmptyText
      PROVE  \/ Edited(e, t) = EditedLines(e, t)
             \/ Edited(e, t) = EmptyText /\ EditedLines(e, t) \in Seq({Blank})
  <2>1. Blank \in ToSet(t)
    <3>1. Len(lines) + 1 \in DOMAIN t /\ t[Len(lines) + 1] = Blank
      BY <1>1, <1>6
    <3> QED
      BY <3>1 DEF ToSet
  <2>2. EditedLines(e, t) = Append(EditedLines(e, lines), Blank)
    BY <1>3, <1>6, <2>1
  <2>3. CASE Edited(e, t) = Append(EditedLines(e, lines), Blank)
    BY ONLY <2>2, <2>3
  <2>4. CASE EditedLines(e, lines) = <<>> /\ Edited(e, t) = EmptyText
    <3>1. EditedLines(e, t) = <<Blank>>
      BY <2>2, <2>4
    <3> QED
      BY ONLY <1>4, <2>4, <3>1
  <2>5. CASE EditedLines(e, lines) = EmptyText /\ Edited(e, t) = EmptyText
    <3>1. Append(EmptyText, Blank) \in Seq({Blank})
      BY ONLY <1>4 DEF EmptyText
    <3> QED
      BY ONLY <2>2, <2>5, <3>1
  <2> QED
    BY <1>6, <2>3, <2>4, <2>5
<1>7. ASSUME \/ EditedLines(e, t) # <<>> /\ Edited(e, t) = EditedLines(e, t)
             \/ EditedLines(e, t) = <<>> /\ Edited(e, t) = EmptyText
      PROVE  \/ Edited(e, t) = EditedLines(e, t)
             \/ Edited(e, t) = EmptyText /\ EditedLines(e, t) \in Seq({Blank})
  BY ONLY <1>4, <1>7
<1> QED
  BY <1>5, <1>6, <1>7, EditedIs

\* What a list of edits makes of a file, one after the other.
ResultWalk(list, f) ==
  \E g \in [0..Len(list) -> TextSet] :
    /\ g[0] = patched[f] /\ \A i \in 1..Len(list) : g[i] = Meant(list[i], f, g[i - 1])
    /\ Result(list, f) = g[Len(list)]

LEMMA ResultIs ==
  ASSUME NEW f, patched[f] \in TextSet, NEW list, Len(list) \in Nat,
         \A i \in 1..Len(list) : Added(list[i]) \in Seq(AllLines)
  PROVE  ResultWalk(list, f)
<1>1. PICK n : n = Len(list)
  OBVIOUS
<1>0. n \in Nat /\ \A i \in 1..n : Added(list[i]) \in Seq(AllLines)
  BY <1>1
<1> DEFINE step == [i \in 1..n |-> [t \in TextSet |-> Meant(list[i], f, t)]]
           Steps(h) == h = [i \in 0..n |-> IF i = 0 THEN patched[f] ELSE Meant(list[i], f, h[i - 1])]
           it == CHOOSE h : Steps(h)
<1>2. step \in [1..n -> [TextSet -> TextSet]]
  <2>1. \A i \in 1..n, t \in TextSet : Meant(list[i], f, t) \in TextSet
    BY <1>0, EditedStays DEF Meant
  <2> QED
    BY <2>1
<1>3. PICK g \in [0..n -> TextSet] : g[0] = patched[f] /\ \A i \in 1..n : g[i] = step[i][g[i - 1]]
  <2> HIDE DEF step
  <2>1. PICK a : a = patched[f]
    OBVIOUS
  <2>2. a \in TextSet
    BY <2>1
  <2>3. \E g \in [0..n -> TextSet] : Walk(g, n, a, step)
    BY ONLY <1>0, <2>2, <1>2, Iterates
  <2> QED
    BY <2>1, <2>3 DEF Walk
<1>4. ASSUME NEW i \in 1..n PROVE g[i] = Meant(list[i], f, g[i - 1]) /\ i - 1 \in 0..n
  <2>1. i - 1 \in 0..n
    BY <1>0
  <2>2. g[i - 1] \in TextSet
    BY ONLY <2>1, g \in [0..n -> TextSet]
  <2>3. g[i] = step[i][g[i - 1]]
    BY <1>3
  <2> QED
    BY <2>1, <2>2, <2>3
<1>5. Steps(g)
  <2>1. \A i \in 0..n : g[i] = IF i = 0 THEN patched[f] ELSE Meant(list[i], f, g[i - 1])
    BY <1>0, <1>3, <1>4
  <2> QED
    BY <2>1
<1>6. Steps(it)
  <2> HIDE DEF Steps
  <2> QED
    BY <1>5
<1>7. PICK h : h = it
  OBVIOUS
<1>8. Steps(h)
  BY <1>6, <1>7
<1>9. h[n] = g[n]
  <2>1. h[0] = g[0]
    BY <1>0, <1>3, <1>8
  <2>2. ASSUME NEW i \in 1..n PROVE h[i] = Meant(list[i], f, h[i - 1])
    BY <1>0, <1>8
  <2>3. \A i \in 1..n : h[i - 1] = g[i - 1] => h[i] = g[i]
    BY <1>4, <2>2
  <2> DEFINE Same == {i \in 0..n : h[i] = g[i]}
  <2>4. 0 \in Same /\ \A i \in 1..n : i - 1 \in Same => i \in Same
    BY <1>0, <2>1, <2>3
  <2>5. \A i \in 0..n : i \in Same
    <3> HIDE DEF Same
    <3> QED
      BY <1>0, <2>4, AllTheWay
  <2> QED
    BY <1>0, <2>5
<1>10. Result(list, f) = g[n]
  BY <1>1, <1>7, <1>9 DEF Result
<1> HIDE DEF step, Steps, it
<1>11. g \in [0..Len(list) -> TextSet] /\ \A i \in 1..Len(list) : g[i] = Meant(list[i], f, g[i - 1])
  BY <1>1, <1>4
<1>12. g[0] = patched[f] /\ Result(list, f) = g[Len(list)]
  <2>1. Result(list, f) = g[Len(list)]
    BY ONLY <1>1, <1>10
  <2> QED
    BY <1>3, <2>1
<1> QED
  BY ONLY <1>11, <1>12 DEF ResultWalk

DeclaredWalk(list, f) ==
  \E g \in [0..Len(list) -> Int] :
    /\ g[0] = Len(patched[f]) /\ \A i \in 1..Len(list) : g[i] = Lengthened(list[i], f, g[i - 1])
    /\ Declared(list, f) = g[Len(list)]

LEMMA DeclaredIs ==
  ASSUME NEW f, patched[f] \in TextSet, NEW list, Len(list) \in Nat,
         \A i \in 1..Len(list) : Growth(list[i]) \in Int
  PROVE  DeclaredWalk(list, f)
<1>1. PICK n : n = Len(list)
  OBVIOUS
<1>0. n \in Nat /\ \A i \in 1..n : Growth(list[i]) \in Int
  BY <1>1
<1> DEFINE step == [i \in 1..n |-> [t \in Int |-> Lengthened(list[i], f, t)]]
           Steps(h) == h = [i \in 0..n |-> IF i = 0 THEN Len(patched[f]) ELSE Lengthened(list[i], f, h[i - 1])]
           it == CHOOSE h : Steps(h)
<1>2. step \in [1..n -> [Int -> Int]]
  <2>1. \A i \in 1..n, t \in Int : Lengthened(list[i], f, t) \in Int
    BY <1>0 DEF Lengthened
  <2> QED
    BY <2>1
<1>3. PICK g \in [0..n -> Int] : g[0] = Len(patched[f]) /\ \A i \in 1..n : g[i] = step[i][g[i - 1]]
  <2> HIDE DEF step
  <2>1. PICK a : a = Len(patched[f])
    OBVIOUS
  <2>2. a \in Int
    BY <2>1 DEF TextSet
  <2>3. \E g \in [0..n -> Int] : Walk(g, n, a, step)
    BY ONLY <1>0, <2>2, <1>2, Iterates
  <2> QED
    BY <2>1, <2>3 DEF Walk
<1>4. ASSUME NEW i \in 1..n PROVE g[i] = Lengthened(list[i], f, g[i - 1]) /\ i - 1 \in 0..n
  <2>1. i - 1 \in 0..n
    BY <1>0
  <2>2. g[i - 1] \in Int
    BY ONLY <2>1, g \in [0..n -> Int]
  <2>3. g[i] = step[i][g[i - 1]]
    BY <1>3
  <2> QED
    BY <2>1, <2>2, <2>3
<1>5. Steps(g)
  <2>1. \A i \in 0..n : g[i] = IF i = 0 THEN Len(patched[f]) ELSE Lengthened(list[i], f, g[i - 1])
    BY <1>0, <1>3, <1>4
  <2> QED
    BY <2>1
<1>6. Steps(it)
  <2> HIDE DEF Steps
  <2> QED
    BY <1>5
<1>7. PICK h : h = it
  OBVIOUS
<1>8. Steps(h)
  BY <1>6, <1>7
<1>9. h[n] = g[n]
  <2>1. h[0] = g[0]
    BY <1>0, <1>3, <1>8
  <2>2. ASSUME NEW i \in 1..n PROVE h[i] = Lengthened(list[i], f, h[i - 1])
    BY <1>0, <1>8
  <2>3. \A i \in 1..n : h[i - 1] = g[i - 1] => h[i] = g[i]
    BY <1>4, <2>2
  <2> DEFINE Same == {i \in 0..n : h[i] = g[i]}
  <2>4. 0 \in Same /\ \A i \in 1..n : i - 1 \in Same => i \in Same
    BY <1>0, <2>1, <2>3
  <2>5. \A i \in 0..n : i \in Same
    <3> HIDE DEF Same
    <3> QED
      BY <1>0, <2>4, AllTheWay
  <2> QED
    BY <1>0, <2>5
<1>10. Declared(list, f) = g[n]
  BY <1>1, <1>7, <1>9 DEF Declared
<1> HIDE DEF step, Steps, it
<1>11. g \in [0..Len(list) -> Int] /\ \A i \in 1..Len(list) : g[i] = Lengthened(list[i], f, g[i - 1])
  BY <1>1, <1>4
<1>12. g[0] = Len(patched[f]) /\ Declared(list, f) = g[Len(list)]
  <2>1. Declared(list, f) = g[Len(list)]
    BY ONLY <1>1, <1>10
  <2> QED
    BY <1>3, <2>1
<1> QED
  BY ONLY <1>11, <1>12 DEF DeclaredWalk

LEMMA Stay ==
  ASSUME NEW list, NEW f, patched' = patched, tree' = tree
  PROVE  Result(list, f)' = Result(list, f) /\ Declared(list, f)' = Declared(list, f)
<1>1. \A p : At(p)' = At(p)
  BY DEF At, Lead
<1>2. Result(list, f)' = Result(list, f)
  BY DEF Result, Meant, At, Lead
<1>3. Declared(list, f)' = Declared(list, f)
  BY DEF Declared, Lengthened, At, Lead
<1> QED
  BY <1>2, <1>3

\* One edit more.
LEMMA ResultGrows ==
  ASSUME NEW f, patched[f] \in TextSet, NEW V, NEW list \in Seq(V), NEW e \in V, \A d \in V : Added(d) \in Seq(AllLines)
  PROVE  /\ Result(list, f) \in TextSet /\ Result(<<>>, f) = patched[f]
         /\ Result(Append(list, e), f) = Meant(e, f, Result(list, f))
<1>1. PICK n : n = Len(list)
  OBVIOUS
<1>2. n \in Nat /\ Len(list) = n /\ \A i \in 1..n : list[i] \in V
  BY <1>1
<1>3. PICK more : more = Append(list, e)
  OBVIOUS
<1>4. Len(more) = n + 1 /\ more[n + 1] = e /\ (\A i \in 1..n : more[i] = list[i]) /\ n + 1 \in Nat /\ n \in 0..n
  BY <1>2, <1>3
<1>5. PICK g \in [0..n -> TextSet] :
           /\ g[0] = patched[f] /\ \A i \in 1..n : g[i] = Meant(list[i], f, g[i - 1])
           /\ Result(list, f) = g[n]
  <2>1. ResultWalk(list, f)
    BY <1>2, ResultIs
  <2> QED
    BY <1>1, <2>1 DEF ResultWalk
<1>6. PICK h \in [0..(n + 1) -> TextSet] :
           /\ h[0] = patched[f] /\ \A i \in 1..(n + 1) : h[i] = Meant(more[i], f, h[i - 1])
           /\ Result(more, f) = h[n + 1]
  <2>1. \A i \in 1..(n + 1) : Added(more[i]) \in Seq(AllLines)
    <3>1. \A i \in 1..(n + 1) : i \in 1..n \/ i = n + 1
      BY <1>2
    <3> QED
      BY <1>2, <1>4, <3>1
  <2>2. ResultWalk(more, f)
    BY <1>4, <2>1, ResultIs
  <2> QED
    BY <1>4, <2>2 DEF ResultWalk
<1>7. h[n] = g[n]
  <2> DEFINE Same == {i \in 0..n : h[i] = g[i]}
  <2>1. 0 \in Same
    BY <1>2, <1>5, <1>6
  <2>2. ASSUME NEW i \in 1..n, i - 1 \in Same PROVE i \in Same
    <3>1. i \in 1..(n + 1) /\ i \in 0..n
      BY <1>2
    <3>2. h[i] = Meant(more[i], f, h[i - 1]) /\ g[i] = Meant(list[i], f, g[i - 1]) /\ more[i] = list[i]
      BY <1>4, <1>5, <1>6, <3>1
    <3> QED
      BY <2>2, <3>1, <3>2
  <2>3. \A i \in 1..n : i - 1 \in Same => i \in Same
    BY <2>2
  <2>4. n \in Same
    <3> HIDE DEF Same
    <3>1. \A i \in 0..n : i \in Same
      BY <1>2, <2>1, <2>3, AllTheWay
    <3> QED
      BY <1>4, <3>1
  <2> QED
    BY <2>4
<1>8. h[n + 1] = Meant(e, f, h[n])
  <2>1. n + 1 \in 1..(n + 1) /\ n + 1 - 1 = n
    BY <1>2
  <2> QED
    BY <1>4, <1>6, <2>1
<1>9. Result(<<>>, f) = patched[f]
  <2>1. Len(<<>>) = 0 /\ 0 \in Nat /\ 1..0 = {}
    OBVIOUS
  <2>2. \E k \in [0..0 -> TextSet] : k[0] = patched[f] /\ Result(<<>>, f) = k[0]
    <3>1. ResultWalk(<<>>, f)
      BY <2>1, ResultIs
    <3> QED
      BY <2>1, <3>1 DEF ResultWalk
  <2> QED
    BY <2>2
<1> QED
  BY <1>3, <1>4, <1>5, <1>6, <1>7, <1>8, <1>9

LEMMA DeclaredGrows ==
  ASSUME NEW f, patched[f] \in TextSet, NEW V, NEW list \in Seq(V), NEW e \in V, \A d \in V : Growth(d) \in Int
  PROVE  /\ Declared(list, f) \in Int /\ Declared(<<>>, f) = Len(patched[f])
         /\ Declared(Append(list, e), f) = Lengthened(e, f, Declared(list, f))
<1>1. PICK n : n = Len(list)
  OBVIOUS
<1>2. n \in Nat /\ Len(list) = n /\ \A i \in 1..n : list[i] \in V
  BY <1>1
<1>3. PICK more : more = Append(list, e)
  OBVIOUS
<1>4. Len(more) = n + 1 /\ more[n + 1] = e /\ (\A i \in 1..n : more[i] = list[i]) /\ n + 1 \in Nat /\ n \in 0..n
  BY <1>2, <1>3
<1>5. PICK g \in [0..n -> Int] :
           /\ g[0] = Len(patched[f]) /\ \A i \in 1..n : g[i] = Lengthened(list[i], f, g[i - 1])
           /\ Declared(list, f) = g[n]
  <2>1. DeclaredWalk(list, f)
    BY <1>2, DeclaredIs
  <2> QED
    BY <1>1, <2>1 DEF DeclaredWalk
<1>6. PICK h \in [0..(n + 1) -> Int] :
           /\ h[0] = Len(patched[f]) /\ \A i \in 1..(n + 1) : h[i] = Lengthened(more[i], f, h[i - 1])
           /\ Declared(more, f) = h[n + 1]
  <2>1. \A i \in 1..(n + 1) : Growth(more[i]) \in Int
    <3>1. \A i \in 1..(n + 1) : i \in 1..n \/ i = n + 1
      BY <1>2
    <3> QED
      BY <1>2, <1>4, <3>1
  <2>2. DeclaredWalk(more, f)
    BY <1>4, <2>1, DeclaredIs
  <2> QED
    BY <1>4, <2>2 DEF DeclaredWalk
<1>7. h[n] = g[n]
  <2> DEFINE Same == {i \in 0..n : h[i] = g[i]}
  <2>1. 0 \in Same
    BY <1>2, <1>5, <1>6
  <2>2. ASSUME NEW i \in 1..n, i - 1 \in Same PROVE i \in Same
    <3>1. i \in 1..(n + 1) /\ i \in 0..n
      BY <1>2
    <3>2. h[i] = Lengthened(more[i], f, h[i - 1]) /\ g[i] = Lengthened(list[i], f, g[i - 1]) /\ more[i] = list[i]
      BY <1>4, <1>5, <1>6, <3>1
    <3> QED
      BY <2>2, <3>1, <3>2
  <2>3. \A i \in 1..n : i - 1 \in Same => i \in Same
    BY <2>2
  <2>4. n \in Same
    <3> HIDE DEF Same
    <3>1. \A i \in 0..n : i \in Same
      BY <1>2, <2>1, <2>3, AllTheWay
    <3> QED
      BY <1>4, <3>1
  <2> QED
    BY <2>4
<1>8. h[n + 1] = Lengthened(e, f, h[n])
  <2>1. n + 1 \in 1..(n + 1) /\ n + 1 - 1 = n
    BY <1>2
  <2> QED
    BY <1>4, <1>6, <2>1
<1>9. Declared(<<>>, f) = Len(patched[f])
  <2>1. Len(<<>>) = 0 /\ 0 \in Nat /\ 1..0 = {}
    OBVIOUS
  <2>2. \E k \in [0..0 -> Int] : k[0] = Len(patched[f]) /\ Declared(<<>>, f) = k[0]
    <3>1. DeclaredWalk(<<>>, f)
      BY <2>1, DeclaredIs
    <3> QED
      BY <2>1, <3>1 DEF DeclaredWalk
  <2> QED
    BY <2>2
<1> QED
  BY <1>3, <1>4, <1>5, <1>6, <1>7, <1>8, <1>9

\* The edits that the configuration lets pass.
LEMMA AcceptedIs ==
  ASSUME NEW e, EditShape(e), AcceptedEdit(e)
  PROVE  /\ Added(e) \in Seq(AllLines) /\ e.action \in Actions /\ e.mustMatch \in Nat
         /\ e.action = "delete_line" => Added(e) = <<>>
         /\ Growth(e) \in Int
<1>1. EditText(e) \in AllTexts
  <2>1. CASE e.textFile = ""
    <3>1. EditText(e) = e.text
      BY <2>1, Zenon DEF EditText
    <3> QED
      BY <3>1, Zenon DEF EditShape
  <2>2. CASE e.textFile # ""
    <3>1. EditText(e) = TrimNewline(AssetTexts[e.textFile])
      BY <2>2, Zenon DEF EditText
    <3>2. AssetTexts[e.textFile] \in AllTexts
      BY <2>2, TextsAssumption, Zenon DEF EditShape
    <3>3. PICK t \in AllTexts : t = AssetTexts[e.textFile]
      BY <3>2
    <3>4. TrimNewline(t) \in AllTexts
      <4>1. CASE Len(t) > 1 /\ Last(t) = Blank
        <5>1. TrimNewline(t) = Front(t)
          BY <4>1, Zenon DEF TrimNewline
        <5>2. t \in Seq(STRING) /\ Len(t) \in Nat
          BY DEF AllTexts
        <5>3. Front(t) \in Seq(STRING) /\ Len(Front(t)) = Len(t) - 1
          BY <4>1, <5>2 DEF Front
        <5>4. Front(t) # <<>>
          BY <4>1, <5>2, <5>3
        <5> QED
          BY <5>1, <5>3, <5>4 DEF AllTexts
      <4>2. CASE ~(Len(t) > 1 /\ Last(t) = Blank)
        <5>1. TrimNewline(t) = t
          BY <4>2, Zenon DEF TrimNewline
        <5> QED
          BY <5>1
      <4> QED
        BY <4>1, <4>2
    <3> QED
      BY <3>1, <3>3, <3>4
  <2> QED
    BY <2>1, <2>2
<1>2. EditText(e) \in TextSet
  BY <1>1, TextsAre
<1>3. Added(e) \in Seq(AllLines)
  <2>1. EditText(e) \in Seq(AllLines)
    BY <1>2 DEF TextSet
  <2>2. <<>> \in Seq(AllLines)
    OBVIOUS
  <2> QED
    BY <1>2, <2>1, <2>2, SplitIs, Zenon DEF Added
<1>4. e.action \in Actions /\ e.mustMatch \in Nat
  <2>1. e.mustMatch \in Int /\ e.mustMatch >= 0 /\ e.action \in Actions
    BY Zenon DEF EditShape, AcceptedEdit
  <2> QED
    BY <2>1
<1>5. e.action = "delete_line" => Added(e) = <<>>
  <2> SUFFICES ASSUME e.action = "delete_line" PROVE Added(e) = <<>>
    OBVIOUS
  <2>1. e.text = EmptyText /\ e.textFile = ""
    BY Zenon DEF AcceptedEdit
  <2>2. EditText(e) = EmptyText
    BY <2>1, Zenon DEF EditText
  <2>3. EmptyText \in TextSet
    BY TextsAre
  <2> QED
    BY <2>2, <2>3, SplitIs, Zenon DEF Added
<1>6. Growth(e) \in Int
  <2>1. Blank \in AllLines
    BY TextsAre
  <2>2. PerHit(e) \in Int
    BY <1>3, <1>4, <1>5, <2>1, LineLength
  <2>3. Growth(e) = Want(e) * PerHit(e)
    BY DEF Growth, PerHit
  <2>4. Want(e) \in Nat
    BY <1>4 DEF Want
  <2> QED
    BY <2>2, <2>3, <2>4
<1> QED
  BY <1>3, <1>4, <1>5, <1>6

\* What is known of the texts while a job goes on: they are texts, and once the
\* edits have begun they are what the first edits make of them, by their number.
EntrySet == UNION {ToSet(a) : a \in Archives}
DiffSet == UNION {ToSet(d) : d \in PatchLists}
EditSet == {e \in UNION {ToSet(l) : l \in EditLists} : AcceptedEdit(e)}

GrownAs(made, f) ==
  \/ Len(text[f]) = Declared(made, f)
  \/ text[f] = EmptyText /\ Declared(made, f) \in {0, 2}
AsMade(made, f) == patched[f] \in TextSet /\ text[f] = Result(made, f) /\ GrownAs(made, f)
Made(made) == DOMAIN text = DOMAIN patched /\ \A f \in DOMAIN text : AsMade(made, f)
EditInv ==
  /\ \A f \in DOMAIN text : text[f] \in TextSet
  /\ entries \in Seq(EntrySet) /\ patches \in Seq(DiffSet) /\ edits \in Seq(EditSet) /\ todo \in Seq(EditSet)
  /\ job \in {"idle", "begin", "extract", "patch"} => todo = edits
  /\ job \in {"edit", "done"} => \E made \in Seq(EditSet) : edits = made \o todo /\ Made(made)
  /\ job = "done" => todo = <<>>

LEMMA InputsAre ==
  /\ \A a \in Archives : a \in Seq(EntrySet)
  /\ \A d \in PatchLists : d \in Seq(DiffSet)
  /\ \A n \in EntrySet : n.text \in TextSet
  /\ \A d \in DiffSet : d.becomes \in TextSet
  /\ \A l \in EditLists : (\A i \in DOMAIN l : AcceptedEdit(l[i])) => l \in Seq(EditSet)
  /\ \A e \in EditSet : Added(e) \in Seq(AllLines) /\ Growth(e) \in Int
<1>1. \A a \in Archives : a \in Seq(EntrySet)
  <2>1. \A a \in Archives : ToSet(a) \subseteq EntrySet /\ a \in Seq(ToSet(a))
    BY TextsAssumption DEF EntrySet
  <2> QED
    BY <2>1, SeqMonotonic
<1>2. \A d \in PatchLists : d \in Seq(DiffSet)
  <2>1. \A d \in PatchLists : ToSet(d) \subseteq DiffSet /\ d \in Seq(ToSet(d))
    BY TextsAssumption DEF DiffSet
  <2> QED
    BY <2>1, SeqMonotonic
<1>3. \A n \in EntrySet : n.text \in TextSet
  BY TextsAssumption, TextsAre, Zenon DEF EntrySet
<1>4. \A d \in DiffSet : d.becomes \in TextSet
  BY TextsAssumption, TextsAre, Zenon DEF DiffSet
<1>5. ASSUME NEW l \in EditLists, \A i \in DOMAIN l : AcceptedEdit(l[i]) PROVE l \in Seq(EditSet)
  <2>1. l \in Seq(ToSet(l))
    BY TextsAssumption
  <2>2. \A e \in ToSet(l) : AcceptedEdit(e)
    BY <1>5 DEF ToSet
  <2>3. ToSet(l) \subseteq EditSet
    BY <2>2 DEF EditSet
  <2> QED
    BY <2>1, <2>3, SeqMonotonic
<1>6. ASSUME NEW e \in EditSet PROVE Added(e) \in Seq(AllLines) /\ Growth(e) \in Int
  <2>1. EditShape(e) /\ AcceptedEdit(e)
    BY TextsAssumption, Zenon DEF EditSet
  <2> QED
    BY <2>1, AcceptedIs
<1> QED
  BY <1>1, <1>2, <1>3, <1>4, <1>5, <1>6

LEMMA WrittenTexts ==
  ASSUME \A f \in DOMAIN text : text[f] \in TextSet, NEW p, NEW t \in TextSet, Write(p, t)
  PROVE  \A f \in DOMAIN text' : text'[f] \in TextSet
<1>1. text' = With(text, At(p), t)
  BY DEF Write
<1>2. text' = [k \in DOMAIN text \cup {At(p)} |-> IF k = At(p) THEN t ELSE text[k]]
  BY <1>1 DEF With
<1> QED
  BY <1>2

\* An edit that applies is one more that was made.
LEMMA OneMade ==
  ASSUME NEW made \in Seq(EditSet), Made(made), NEW e \in EditSet, EditApplies(e),
         text' = [text EXCEPT ![At(e.file)] = EditedNow(e)], tree' = tree, patched' = patched
  PROVE  Made(Append(made, e))'
<1> DEFINE more == Append(made, e)
<1>1. PICK a : a = At(e.file)
  OBVIOUS
<1>2. a \in DOMAIN text /\ Hits(e, text[a]) = Want(e)
  BY <1>1 DEF EditApplies
<1>3. DOMAIN text' = DOMAIN text /\ text'[a] = Edited(e, text[a]) /\ \A f \in DOMAIN text : f # a => text'[f] = text[f]
  BY <1>1, <1>2 DEF EditedNow
<1>4. EditShape(e) /\ AcceptedEdit(e)
  BY TextsAssumption, Zenon DEF EditSet
<1>5. /\ Added(e) \in Seq(AllLines) /\ e.action \in Actions /\ e.mustMatch \in Nat /\ Growth(e) \in Int
      /\ e.action = "delete_line" => Added(e) = <<>>
  BY <1>4, AcceptedIs
<1>6. \A d \in EditSet : Added(d) \in Seq(AllLines) /\ Growth(d) \in Int
  BY InputsAre
<1>7. ASSUME NEW f \in DOMAIN text
      PROVE  (/\ patched[f] \in TextSet /\ text'[f] = Result(more, f)
              /\ \/ Len(text'[f]) = Declared(more, f)
                 \/ text'[f] = EmptyText /\ Declared(more, f) \in {0, 2})
  <2>1. patched[f] \in TextSet /\ text[f] = Result(made, f) /\ GrownAs(made, f)
    BY DEF Made, AsMade
  <2>2. Result(more, f) = Meant(e, f, Result(made, f)) /\ Result(made, f) \in TextSet
    BY <1>6, <2>1, ResultGrows
  <2>3. Declared(more, f) = Lengthened(e, f, Declared(made, f)) /\ Declared(made, f) \in Int
    BY <1>6, <2>1, DeclaredGrows
  <2> HIDE DEF more
  <2>4. CASE f = a
    <3>1. text[f] \in TextSet /\ text'[f] = Edited(e, text[f]) /\ Hits(e, text[f]) = Want(e)
      BY <1>2, <1>3, <2>1, <2>2, <2>4
    <3>2. PICK t \in TextSet : t = text[f]
      BY <3>1
    <3>3. t # EmptyText /\ (\/ Len(Edited(e, t)) = Len(t) + Growth(e)
                            \/ Edited(e, t) = EmptyText /\ Len(t) + Growth(e) \in {0, 2})
      BY <1>5, <3>1, <3>2, TextLength
    <3>4. Declared(made, f) = Len(t)
      BY <2>1, <3>2, <3>3 DEF GrownAs
    <3>5. Result(more, f) = Edited(e, t) /\ Declared(more, f) = Len(t) + Growth(e)
      BY <1>1, <2>1, <2>2, <2>3, <2>4, <3>2, <3>4 DEF Meant, Lengthened
    <3> QED
      BY <2>1, <3>1, <3>2, <3>3, <3>5
  <2>5. CASE f # a
    <3>1. Result(more, f) = Result(made, f) /\ Declared(more, f) = Declared(made, f) /\ text'[f] = text[f]
      BY <1>1, <1>3, <2>2, <2>3, <2>5 DEF Meant, Lengthened
    <3> QED
      BY <2>1, <3>1 DEF GrownAs
  <2> QED
    BY <2>4, <2>5
<1> HIDE DEF more
<1>8. DOMAIN text' = DOMAIN patched'
  BY <1>3 DEF Made
<1>9. ASSUME NEW f \in DOMAIN text' PROVE AsMade(more, f)'
  <2>1. Result(more, f)' = Result(more, f) /\ Declared(more, f)' = Declared(more, f)
    BY Stay
  <2> QED
    BY <1>3, <1>7, <2>1 DEF AsMade, GrownAs
<1>10. Made(more)'
  BY <1>8, <1>9 DEF Made
<1> QED
  BY <1>10 DEF more

NothingYet ==
  \A f : patched[f] \in TextSet => Result(<<>>, f) = patched[f] /\ Declared(<<>>, f) = Len(patched[f])

LEMMA NothingMade == NothingYet
<1> USE DEF NothingYet
<1> SUFFICES ASSUME NEW f, patched[f] \in TextSet
             PROVE  Result(<<>>, f) = patched[f] /\ Declared(<<>>, f) = Len(patched[f])
  OBVIOUS
<1>1. Len(<<>>) = 0 /\ 0 \in Nat /\ 1..0 = {}
  OBVIOUS
<1>2. ResultWalk(<<>>, f) /\ DeclaredWalk(<<>>, f)
  BY <1>1, ResultIs, DeclaredIs
<1> QED
  BY <1>1, <1>2 DEF ResultWalk, DeclaredWalk

LEMMA EditInvStarts == TreeInit => EditInv
<1>1. DOMAIN <<>> = {}
  OBVIOUS
<1>2. \A V : <<>> \in Seq(V)
  OBVIOUS
<1> QED
  BY <1>1, <1>2 DEF TreeInit, EditInv

LEMMA EditInvStays == EditInv /\ [TreeNext]_treeVars => EditInv'
<1> SUFFICES ASSUME EditInv, [TreeNext]_treeVars PROVE EditInv'
  OBVIOUS
<1> USE DEF EditInv
<1>0. DOMAIN <<>> = {}
  OBVIOUS
<1>1. ASSUME NEW found, NEW a \in Archives, NEW d \in PatchLists, NEW l \in EditLists, job = "idle",
             \A i \in DOMAIN l : AcceptedEdit(l[i]), BuildTree(found, a, d, l)
      PROVE  EditInv'
  BY <1>1, InputsAre DEF BuildTree
<1>2. CASE BeginExtract
  BY <1>2 DEF BeginExtract
<1>3. CASE SkipEntry
  <2>1. Tail(entries) \in Seq(EntrySet)
    BY <1>3, HeadTailProperties DEF SkipEntry
  <2> QED
    BY <1>3, <2>1 DEF SkipEntry
<1>4. CASE ExtractEntry
  <2> DEFINE n == Head(entries)
             p == Inside(n.name)
  <2>1. n \in EntrySet /\ Tail(entries) \in Seq(EntrySet)
    BY <1>4, HeadTailProperties DEF ExtractEntry
  <2>2. /\ job = "extract" /\ job' = job /\ entries' = Tail(entries) /\ UNCHANGED <<patches, todo, edits>>
        /\ Write(p, n.text) \/ text' = text
    BY <1>4 DEF ExtractEntry, MkdirAll
  <2>3. n.text \in TextSet
    BY <2>1, InputsAre
  <2> HIDE DEF n, p
  <2>4. \A f \in DOMAIN text' : text'[f] \in TextSet
    BY <2>2, <2>3, WrittenTexts
  <2> QED
    BY <2>1, <2>2, <2>4
<1>5. CASE ExtractFails
  BY <1>0, <1>5 DEF ExtractFails, EmptyAgain
<1>6. CASE EndExtract
  <2>1. /\ job = "extract" /\ job' \in {"failed", "patch"} /\ UNCHANGED <<entries, patches, todo, edits>>
        /\ text' = text \/ text' = <<>>
    BY <1>6 DEF EndExtract, EmptyAgain
  <2> QED
    BY <1>0, <2>1
<1>7. CASE ApplyPatch
  <2> DEFINE d == Head(patches)
  <2>1. d \in DiffSet /\ Tail(patches) \in Seq(DiffSet)
    BY <1>7, HeadTailProperties DEF ApplyPatch
  <2>2. /\ job = "patch" /\ job' \in {"patch", "failed"} /\ patches' = Tail(patches) /\ UNCHANGED <<entries, todo, edits>>
        /\ Write(d.file, d.becomes) \/ text' = text
    BY <1>7 DEF ApplyPatch
  <2>3. d.becomes \in TextSet
    BY <2>1, InputsAre
  <2> HIDE DEF d
  <2>4. \A f \in DOMAIN text' : text'[f] \in TextSet
    BY <2>2, <2>3, WrittenTexts
  <2> QED
    BY <2>1, <2>2, <2>4
<1>8. CASE BeginEdits
  <2>1. job = "patch" /\ job' = "edit" /\ patched' = text /\ UNCHANGED <<text, tree, entries, patches, todo, edits>>
    BY <1>8 DEF BeginEdits
  <2>2. ASSUME NEW f \in DOMAIN text PROVE AsMade(<<>>, f)'
    <3>1. (patched[f] \in TextSet)'
      BY <2>1
    <3>2. Result(<<>>, f)' = patched'[f] /\ Declared(<<>>, f)' = Len(patched'[f])
      <4>2. NothingYet'
        BY NothingMade, PTL
      <4> QED
        BY <3>1, <4>2 DEF NothingYet
    <3> QED
      BY <2>1, <3>1, <3>2 DEF AsMade, GrownAs
  <2>3. Made(<<>>)'
    BY <2>1, <2>2 DEF Made
  <2>4. <<>> \in Seq(EditSet) /\ edits' = <<>> \o todo'
    BY <2>1, ConcatEmptySeq
  <2> QED
    BY <2>1, <2>3, <2>4
<1>9. CASE ApplyEdit
  <2>0. PICK e : e = Head(todo)
    OBVIOUS
  <2>1. e \in EditSet /\ Tail(todo) \in Seq(EditSet) /\ job = "edit" /\ todo' = Tail(todo)
        /\ UNCHANGED <<tree, entries, patches, edits, patched>> /\ todo # <<>>
    BY <1>9, <2>0, HeadTailProperties DEF ApplyEdit
  <2>2. CASE EditApplies(e)
    <3>1. text' = [text EXCEPT ![At(e.file)] = EditedNow(e)] /\ job' = "edit"
      BY <1>9, <2>0, <2>1, <2>2 DEF ApplyEdit
    <3>2. PICK made \in Seq(EditSet) : edits = made \o todo /\ Made(made)
      BY <2>1
    <3>3. Made(Append(made, e))'
      <4>1. tree' = tree /\ patched' = patched
        BY <2>1
      <4> QED
        BY <2>1, <2>2, <3>1, <3>2, <4>1, OneMade, Zenon
    <3>4. edits' = Append(made, e) \o todo' /\ Append(made, e) \in Seq(EditSet)
      <4>1. todo = <<e>> \o Tail(todo)
        <5>1. Len(todo) \in Nat \ {0} /\ 1 \in 1..Len(todo) /\ Len(todo) \in 1..Len(todo)
          BY <2>1
        <5>2. SubSeq(todo, 1, Len(todo)) = <<todo[1]>> \o SubSeq(todo, 2, Len(todo))
          BY <5>1, SubSeqRecursiveFirst
        <5>3. SubSeq(todo, 1, Len(todo)) = todo /\ SubSeq(todo, 2, Len(todo)) = Tail(todo)
          BY <2>1, SubSeqFull, TailIsSubSeq
        <5> QED
          BY <2>0, <5>2, <5>3
      <4>2. Append(made, e) = made \o <<e>> /\ <<e>> \in Seq(EditSet) /\ Append(made, e) \in Seq(EditSet)
        BY <2>1, AppendIsConcat
      <4>3. (made \o <<e>>) \o Tail(todo) = made \o (<<e>> \o Tail(todo))
        BY <2>1, <4>2, Associates DEF Regroups
      <4> QED
        BY <2>1, <3>2, <4>1, <4>2, <4>3
    <3>5. \A f \in DOMAIN text' : text'[f] \in TextSet
      <4>1. DOMAIN text' = DOMAIN text
        BY <3>1
      <4>2. ASSUME NEW f \in DOMAIN text PROVE text'[f] \in TextSet
        <5>1. At(e.file) \in DOMAIN text
          BY <2>2 DEF EditApplies
        <5>2. Added(e) \in Seq(AllLines)
          BY <2>1, InputsAre
        <5>3. Edited(e, text[At(e.file)]) \in TextSet
          BY <5>1, <5>2, EditedStays
        <5> QED
          BY <3>1, <5>3 DEF EditedNow
      <4> QED
        BY <4>1, <4>2
    <3> QED
      <4>1. \E m \in Seq(EditSet) : edits' = m \o todo' /\ Made(m)'
        BY <3>3, <3>4, Zenon
      <4> QED
        BY <2>1, <3>1, <3>5, <4>1
  <2>3. CASE ~EditApplies(e)
    <3>1. text' = text /\ job' = "failed"
      BY <1>9, <2>0, <2>3 DEF ApplyEdit
    <3> QED
      BY <2>1, <3>1
  <2> QED
    BY <2>2, <2>3
<1>10. CASE EndEdits
  <2>1. job = "edit" /\ todo = <<>> /\ job' = "done" /\ UNCHANGED <<tree, text, entries, patches, todo, edits, patched>>
    BY <1>10 DEF EndEdits
  <2>2. PICK made \in Seq(EditSet) : edits = made \o todo /\ Made(made)
    BY <2>1
  <2>3. Made(made)'
    <3>1. \A f : Result(made, f)' = Result(made, f) /\ Declared(made, f)' = Declared(made, f)
      BY <2>1, Stay
    <3> QED
      BY <2>1, <2>2, <3>1 DEF Made, AsMade, GrownAs
  <2> QED
    BY <2>1, <2>2, <2>3
<1>11. CASE UNCHANGED treeVars
  <2>1. UNCHANGED <<job, tree, text, entries, patches, todo, edits, patched>>
    BY <1>11 DEF treeVars
  <2>2. \A made : Made(made) => Made(made)'
    <3>1. \A made, f : Result(made, f)' = Result(made, f) /\ Declared(made, f)' = Declared(made, f)
      BY <2>1, Stay
    <3> QED
      BY <2>1, <3>1 DEF Made, AsMade, GrownAs
  <2> QED
    BY <2>1, <2>2
<1> QED
  BY <1>1, <1>2, <1>3, <1>4, <1>5, <1>6, <1>7, <1>8, <1>9, <1>10, <1>11 DEF TreeNext

\* What edits of which no two match one line make of it, all of them together.
Picked(E) ==
  [x \in AllLines |-> IF \E d \in E : Matches(d, x) THEN EditedLine(CHOOSE d \in E : Matches(d, x), x) ELSE <<x>>]

LEMMA PickedIs ==
  ASSUME NEW E, \A d \in E : Added(d) \in Seq(AllLines)
  PROVE  /\ Picked(E) \in [AllLines -> Seq(AllLines)]
         /\ \A x \in AllLines : \/ (\A d \in E : ~Matches(d, x)) /\ Picked(E)[x] = <<x>>
                                \/ \E d \in E : Matches(d, x) /\ Picked(E)[x] = EditedLine(d, x)
<1>1. ASSUME NEW x \in AllLines, \A d \in E : ~Matches(d, x) PROVE Picked(E)[x] = <<x>>
  BY <1>1, Zenon DEF Picked
<1>2. ASSUME NEW x \in AllLines, NEW d \in E, Matches(d, x)
      PROVE  \E c \in E : Matches(c, x) /\ Picked(E)[x] = EditedLine(c, x)
  <2>1. PICK c : c = CHOOSE d1 \in E : Matches(d1, x)
    OBVIOUS
  <2>2. c \in E /\ Matches(c, x)
    BY <1>2, <2>1, Zenon
  <2>3. Picked(E)[x] = EditedLine(c, x)
    BY <1>2, <2>1, Zenon DEF Picked
  <2> QED
    BY <2>2, <2>3
<1>3. \A x \in AllLines : \/ (\A d \in E : ~Matches(d, x)) /\ Picked(E)[x] = <<x>>
                          \/ \E d \in E : Matches(d, x) /\ Picked(E)[x] = EditedLine(d, x)
  BY <1>1, <1>2, Zenon
<1>4. \A x \in AllLines : Picked(E)[x] \in Seq(AllLines)
  <2>1. \A x \in AllLines : <<x>> \in Seq(AllLines)
    OBVIOUS
  <2>2. \A d \in E, x \in AllLines : EditedLine(d, x) \in Seq(AllLines)
    BY EditedLineIs
  <2> QED
    BY <1>3, <2>1, <2>2, Zenon
<1>5. Picked(E) \in [AllLines -> Seq(AllLines)]
  <2>1. PICK m : m = Picked(E)
    OBVIOUS
  <2>2. m = [x \in AllLines |-> m[x]]
    BY <2>1, Zenon DEF Picked
  <2>3. \A x \in AllLines : m[x] \in Seq(AllLines)
    BY <1>4, <2>1
  <2>4. m \in [AllLines -> Seq(AllLines)]
    BY ONLY <2>2, <2>3
  <2> QED
    BY ONLY <2>1, <2>4
<1> QED
  BY <1>3, <1>5

\* Every line of it was there before or was added by one of them.
LEMMA PickedHolds ==
  ASSUME NEW E, \A d \in E : Added(d) \in Seq(AllLines), NEW s \in Seq(AllLines)
  PROVE  /\ Spread(Picked(E), s) \in Seq(AllLines)
         /\ \A y \in ToSet(Spread(Picked(E), s)) : y \in ToSet(s) \/ \E d \in E : y \in ToSet(Added(d))
<1>1. PICK m : m = Picked(E)
  OBVIOUS
<1>2. /\ m \in [AllLines -> Seq(AllLines)]
      /\ \A x \in AllLines : \/ (\A d \in E : ~Matches(d, x)) /\ m[x] = <<x>>
                             \/ \E d \in E : Matches(d, x) /\ m[x] = EditedLine(d, x)
  BY <1>1, PickedIs, Zenon
<1>3. PICK u : u = Spread(m, s)
  OBVIOUS
<1>4. u \in Seq(AllLines)
  BY <1>2, <1>3, SpreadGrows
<1>5. \A k \in 1..Len(u) : \E i \in 1..Len(s) : \E j \in 1..Len(m[s[i]]) : u[k] = m[s[i]][j]
  BY <1>2, <1>3, SpreadHolds
<1>6. ASSUME NEW y \in ToSet(u) PROVE y \in ToSet(s) \/ \E d \in E : y \in ToSet(Added(d))
  <2>1. PICK k \in 1..Len(u) : y = u[k]
    BY <1>4 DEF ToSet
  <2>2. PICK i \in 1..Len(s) : \E j \in 1..Len(m[s[i]]) : u[k] = m[s[i]][j]
    BY <1>5
  <2>3. PICK x \in AllLines : x = s[i]
    OBVIOUS
  <2>4. x \in ToSet(s)
    BY <2>3 DEF ToSet
  <2>5. PICK j \in 1..Len(m[x]) : y = m[x][j]
    BY <2>1, <2>2, <2>3
  <2>6. CASE m[x] = <<x>>
    <3>1. y = x
      BY <2>5, <2>6
    <3> QED
      BY <2>4, <3>1
  <2>7. ASSUME NEW d \in E, m[x] = EditedLine(d, x) PROVE y \in ToSet(s) \/ y \in ToSet(Added(d))
    <3>1. \/ EditedLine(d, x)[j] = x
          \/ \E n \in 1..Len(Added(d)) : EditedLine(d, x)[j] = Added(d)[n]
      BY <2>5, <2>7, EditedLineIs
    <3>2. y = x \/ \E n \in 1..Len(Added(d)) : y = Added(d)[n]
      BY <2>5, <2>7, <3>1
    <3>3. \A n \in 1..Len(Added(d)) : Added(d)[n] \in ToSet(Added(d))
      BY DEF ToSet
    <3> QED
      BY <2>4, <3>2, <3>3
  <2>8. m[x] = <<x>> \/ \E d \in E : m[x] = EditedLine(d, x)
    BY <1>2, Zenon
  <2> QED
    BY <2>6, <2>7, <2>8
<1> QED
  BY <1>1, <1>3, <1>4, <1>6

\* One edit more, that has nothing to do with what the others match and add.
LEMMA OneMorePicked ==
  ASSUME NEW E, NEW e, \A d \in E : Added(d) \in Seq(AllLines), Added(e) \in Seq(AllLines), NEW s \in Seq(AllLines),
         \A x \in ToSet(s), d1 \in E, d2 \in E : Matches(d1, x) /\ Matches(d2, x) => d1 = d2,
         \A x \in ToSet(s), d \in E : ~(Matches(d, x) /\ Matches(e, x)),
         \A d \in E : \A y \in ToSet(Added(d)) : ~Matches(e, y)
  PROVE  EditedLines(e, Spread(Picked(E), s)) = Spread(Picked(E \cup {e}), s)
<1> DEFINE F == E \cup {e}
<1>1. PICK m1 : m1 = Picked(E)
  OBVIOUS
<1>2. PICK m2 : m2 = Turns(e)
  OBVIOUS
<1>3. PICK m3 : m3 = Picked(F)
  OBVIOUS
<1>4. \A d \in F : Added(d) \in Seq(AllLines)
  OBVIOUS
<1>5. /\ m1 \in [AllLines -> Seq(AllLines)]
      /\ \A x \in AllLines : \/ (\A d \in E : ~Matches(d, x)) /\ m1[x] = <<x>>
                             \/ \E d \in E : Matches(d, x) /\ m1[x] = EditedLine(d, x)
  BY <1>1, PickedIs, Zenon
<1>6. /\ m3 \in [AllLines -> Seq(AllLines)]
      /\ \A x \in AllLines : \/ (\A d \in F : ~Matches(d, x)) /\ m3[x] = <<x>>
                             \/ \E d \in F : Matches(d, x) /\ m3[x] = EditedLine(d, x)
  <2> HIDE DEF F
  <2> QED
    BY <1>3, <1>4, PickedIs, Zenon
<1>7. /\ m2 \in [AllLines -> Seq(AllLines)]
      /\ \A x \in AllLines : m2[x] = EditedLine(e, x)
      /\ \A u \in Seq(AllLines) : EditedLines(e, u) = Spread(m2, u)
  BY <1>2, TurnsIs
<1>8. ASSUME NEW x \in ToSet(s) PROVE m3[x] = Spread(m2, m1[x])
  <2>1. x \in AllLines
    BY DEF ToSet
  <2>2. CASE \A d \in E : ~Matches(d, x)
    <3>1. m1[x] = <<x>>
      BY <1>5, <2>1, <2>2, Zenon
    <3>2. Spread(m2, <<x>>) = EditedLine(e, x)
      <4>1. /\ Spread(m2, <<>>) = <<>>
            /\ \A t \in Seq(AllLines), y \in AllLines : Spread(m2, Append(t, y)) = Spread(m2, t) \o m2[y]
        <5>1. m2 \in [AllLines -> Seq(AllLines)]
          BY <1>7
        <5> QED
          BY ONLY <5>1, SpreadGrows
      <4>2. <<>> \in Seq(AllLines) /\ Append(<<>>, x) = <<x>>
        OBVIOUS
      <4>3. PICK y : y = EditedLine(e, x)
        OBVIOUS
      <4>4. y \in Seq(AllLines) /\ m2[x] = y
        BY <1>7, <2>1, <4>3
      <4>5. <<>> \o y = y
        BY ONLY <4>4, ConcatEmptySeq
      <4>6. Spread(m2, Append(<<>>, x)) = Spread(m2, <<>>) \o m2[x]
        BY ONLY <2>1, <4>1, <4>2
      <4> QED
        BY ONLY <4>1, <4>2, <4>3, <4>4, <4>5, <4>6
    <3>3. CASE Matches(e, x)
      <4>1. PICK d \in F : Matches(d, x) /\ m3[x] = EditedLine(d, x)
        BY <1>6, <2>1, <3>3
      <4>2. d = e
        BY <2>2, <4>1
      <4> QED
        BY <3>1, <3>2, <4>1, <4>2
    <3>4. CASE ~Matches(e, x)
      <4>1. \A d \in F : ~Matches(d, x)
        BY <2>2, <3>4
      <4>2. m3[x] = <<x>>
        BY <1>6, <2>1, <4>1, Zenon
      <4>3. EditedLine(e, x) = <<x>>
        BY <2>1, <3>4, EditedLineIs
      <4> QED
        BY <3>1, <3>2, <4>2, <4>3
    <3> QED
      BY <3>3, <3>4
  <2>3. ASSUME NEW b \in E, Matches(b, x) PROVE m3[x] = Spread(m2, m1[x])
    <3>1. PICK d \in E : Matches(d, x) /\ m1[x] = EditedLine(d, x)
      BY <1>5, <2>1, <2>3, Zenon
    <3>2. PICK c \in F : Matches(c, x) /\ m3[x] = EditedLine(c, x)
      BY <1>6, <2>1, <2>3
    <3>3. ~Matches(e, x)
      BY <2>3
    <3>4. c = d
      BY <3>1, <3>2, <3>3
    <3>5. PICK y : y = EditedLine(d, x)
      OBVIOUS
    <3>6. /\ y \in Seq(AllLines)
          /\ \A i \in 1..Len(y) : y[i] = x \/ \E k \in 1..Len(Added(d)) : y[i] = Added(d)[k]
      <4>1. Added(d) \in Seq(AllLines)
        BY <3>1
      <4>2. /\ EditedLine(d, x) \in Seq(AllLines)
            /\ \A i \in 1..Len(EditedLine(d, x)) :
                 EditedLine(d, x)[i] = x
                 \/ (Matches(d, x) /\ \E k \in 1..Len(Added(d)) : EditedLine(d, x)[i] = Added(d)[k])
        BY ONLY <2>1, <4>1, EditedLineIs
      <4> QED
        BY ONLY <3>5, <4>2
    <3>7. ASSUME NEW i \in 1..Len(y) PROVE m2[y[i]] = <<y[i]>>
      <4>1. y[i] \in AllLines
        BY <3>6
      <4>2. \A k \in 1..Len(Added(d)) : Added(d)[k] \in ToSet(Added(d))
        BY DEF ToSet
      <4>3. ~Matches(e, y[i])
        BY <3>3, <3>6, <4>2
      <4> QED
        BY <1>7, <4>1, <4>3, EditedLineIs
    <3>8. Spread(m2, y) = y
      BY ONLY <1>7, <3>6, <3>7, SpreadKeeps
    <3> QED
      BY ONLY <3>1, <3>2, <3>4, <3>5, <3>8
  <2> QED
    BY <2>2, <2>3
<1>9. \A i \in 1..Len(s) : m3[s[i]] = Spread(m2, m1[s[i]])
  BY <1>8 DEF ToSet
<1>10. Spread(m2, Spread(m1, s)) = Spread(m3, s)
  BY ONLY <1>5, <1>6, <1>7, <1>9, s \in Seq(AllLines), SpreadTwice
<1>11. EditedLines(e, Spread(m1, s)) = Spread(m2, Spread(m1, s))
  <2>1. Spread(m1, s) \in Seq(AllLines)
    BY ONLY <1>5, s \in Seq(AllLines), SpreadGrows
  <2> QED
    BY ONLY <1>7, <2>1
<1> QED
  BY ONLY <1>1, <1>3, <1>10, <1>11

\* The edits of a file among the first n of a list.
Touching(list, f, n) == {list[i] : i \in {k \in 1..n : At(list[k].file) = f}}
AsPicked(list, f, n, t) ==
  \/ t = Spread(Picked(Touching(list, f, n)), patched[f])
  \/ t = EmptyText /\ Spread(Picked(Touching(list, f, n)), patched[f]) \in Seq({Blank})

LEMMA Apart ==
  ASSUME NEW f, NEW e1, NEW e2, At(e1.file) = f, At(e2.file) = f, Independent(e1, e2),
         NEW l, l \in ToSet(patched[f]) \/ l \in ToSet(Added(e1)) \/ l \in ToSet(Added(e2)), Matches(e1, l)
  PROVE  l # Blank /\ ~Matches(e2, l) /\ l \notin ToSet(Added(e2))
<1>1. l \in ToSet(patched[At(e1.file)]) \cup ToSet(Added(e1)) \cup ToSet(Added(e2))
  OBVIOUS
<1> QED
  BY <1>1, Zenon DEF Independent

LEMMA NothingPicked == ASSUME NEW s \in Seq(AllLines) PROVE Spread(Picked({}), s) = s
<1>1. PICK m : m = Picked({})
  OBVIOUS
<1>2. m \in [AllLines -> Seq(AllLines)] /\ \A x \in AllLines : m[x] = <<x>>
  <2>1. PICK E : E = {}
    OBVIOUS
  <2>2. \A d \in E : Added(d) \in Seq(AllLines)
    BY <2>1
  <2>3. /\ Picked(E) \in [AllLines -> Seq(AllLines)]
        /\ \A x \in AllLines : \/ (\A d \in E : ~Matches(d, x)) /\ Picked(E)[x] = <<x>>
                               \/ \E d \in E : Matches(d, x) /\ Picked(E)[x] = EditedLine(d, x)
    BY <2>2, PickedIs, Zenon
  <2>4. Picked(E) = m
    BY ONLY <1>1, <2>1
  <2>5. \A d \in E : FALSE
    BY <2>1
  <2>6. \A x \in AllLines : Picked(E)[x] = <<x>>
    BY <2>3, <2>5, Zenon
  <2> QED
    BY ONLY <2>3, <2>4, <2>6
<1>3. \A i \in 1..Len(s) : m[s[i]] = <<s[i]>>
  BY <1>2
<1>4. Spread(m, s) = s
  BY ONLY <1>2, <1>3, s \in Seq(AllLines), SpreadKeeps
<1> QED
  BY ONLY <1>1, <1>4

LEMMA UnmatchedStay ==
  ASSUME NEW e, Added(e) \in Seq(AllLines), NEW s \in Seq(AllLines), \A x \in ToSet(s) : ~Matches(e, x)
  PROVE  EditedLines(e, s) = s
<1>1. PICK m : m = Turns(e)
  OBVIOUS
<1>2. /\ m \in [AllLines -> Seq(AllLines)] /\ \A x \in AllLines : m[x] = EditedLine(e, x)
      /\ \A u \in Seq(AllLines) : EditedLines(e, u) = Spread(m, u)
  BY <1>1, TurnsIs
<1>3. ASSUME NEW i \in 1..Len(s) PROVE m[s[i]] = <<s[i]>>
  <2>1. s[i] \in AllLines /\ s[i] \in ToSet(s)
    BY DEF ToSet
  <2> QED
    BY <1>2, <2>1, EditedLineIs
<1>4. Spread(m, s) = s
  BY ONLY <1>2, <1>3, s \in Seq(AllLines), SpreadKeeps
<1> QED
  BY ONLY <1>2, <1>4, s \in Seq(AllLines)

\* Of edits that are independent, and are several to a file, each changes the
\* pieces of the file as if it were the only one.
LEMMA Together ==
  ASSUME NEW f, patched[f] \in TextSet, NEW list, Len(list) \in Nat,
         \A i \in 1..Len(list) : Added(list[i]) \in Seq(AllLines),
         \A i \in 1..Len(list), k \in 1..Len(list) : i # k => Independent(list[i], list[k]),
         \A i \in 1..Len(list) : At(list[i].file) = f => \E k \in 1..Len(list) : k # i /\ At(list[k].file) = f
  PROVE  AsPicked(list, f, Len(list), Result(list, f))
<1>1. PICK N : N = Len(list)
  OBVIOUS
<1>2. PICK s : s = patched[f]
  OBVIOUS
<1>3. N \in Nat /\ s \in Seq(AllLines) /\ s \in TextSet /\ \A i \in 1..N : Added(list[i]) \in Seq(AllLines)
  BY <1>1, <1>2 DEF TextSet
<1>4. PICK g \in [0..N -> TextSet] : /\ g[0] = s /\ \A i \in 1..N : g[i] = Meant(list[i], f, g[i - 1])
                                     /\ Result(list, f) = g[N]
  <2>1. ResultWalk(list, f)
    BY ResultIs
  <2> QED
    BY <1>1, <1>2, <2>1 DEF ResultWalk
<1> DEFINE S == {n \in 0..N : AsPicked(list, f, n, g[n])}
<1>5. 0 \in S
  <2>1. Touching(list, f, 0) = {}
    BY DEF Touching
  <2>2. Spread(Picked({}), s) = s
    BY <1>3, NothingPicked
  <2>3. AsPicked(list, f, 0, g[0])
    BY <1>2, <1>4, <2>1, <2>2 DEF AsPicked
  <2> QED
    BY <1>3, <2>3
<1>6. ASSUME NEW n \in 1..N, n - 1 \in S PROVE n \in S
  <2> DEFINE E == Touching(list, f, n - 1)
             e == list[n]
             old == Spread(Picked(E), s)
             new == Spread(Picked(Touching(list, f, n)), s)
  <2>1. n - 1 \in 0..N /\ n \in 0..N /\ AsPicked(list, f, n - 1, g[n - 1])
    BY <1>3, <1>6
  <2>2. g[n] = Meant(e, f, g[n - 1])
    BY <1>4
  <2>3. \A i \in 1..n : i = n \/ i \in 1..(n - 1)
    BY <1>3
  <2>4. \A i \in 1..(n - 1) : i \in 1..n /\ i \in 1..N /\ i # n
    BY <1>3
  <2>5. CASE At(e.file) # f
    <3>1. Touching(list, f, n) = E
      BY <2>3, <2>4, <2>5 DEF Touching
    <3>2. g[n] = g[n - 1]
      BY <2>2, <2>5 DEF Meant
    <3>3. AsPicked(list, f, n, g[n])
      BY <2>1, <3>1, <3>2 DEF AsPicked
    <3> QED
      BY <2>1, <3>3
  <2>6. CASE At(e.file) = f
    <3>1. Touching(list, f, n) = E \cup {e}
      <4>1. n \in 1..n
        BY <1>3
      <4>2. ASSUME NEW d \in Touching(list, f, n) PROVE d \in E \cup {e}
        BY <2>3 DEF Touching
      <4>3. e \in Touching(list, f, n) /\ \A d \in E : d \in Touching(list, f, n)
        BY <2>4, <2>6, <4>1 DEF Touching
      <4> QED
        BY <4>2, <4>3
    <3>2. ASSUME NEW d \in E PROVE \E i \in 1..(n - 1) : d = list[i] /\ At(list[i].file) = f /\ Independent(list[i], e) /\ Independent(e, list[i])
      <4>1. PICK i \in 1..(n - 1) : d = list[i] /\ At(list[i].file) = f
        BY DEF Touching
      <4> QED
        BY <1>1, <2>4, <4>1
    <3>3. (\A d \in E : Added(d) \in Seq(AllLines)) /\ Added(e) \in Seq(AllLines)
      <4>1. ASSUME NEW d \in E PROVE Added(d) \in Seq(AllLines)
        <5>1. PICK i \in 1..(n - 1) : d = list[i]
          BY <3>2
        <5> QED
          BY <1>3, <2>4, <5>1
      <4> QED
        BY <1>3, <4>1
    <3>4. ASSUME NEW x \in ToSet(s), NEW d1 \in E, NEW d2 \in E, Matches(d1, x), Matches(d2, x) PROVE d1 = d2
      <4>1. PICK i \in 1..(n - 1) : d1 = list[i] /\ At(list[i].file) = f
        BY <3>2
      <4>2. PICK k \in 1..(n - 1) : d2 = list[k] /\ At(list[k].file) = f
        BY <3>2
      <4>3. ASSUME i # k PROVE FALSE
        <5>1. Independent(d1, d2) /\ At(d1.file) = f /\ At(d2.file) = f
          BY <1>1, <2>4, <4>1, <4>2, <4>3
        <5>2. x \in ToSet(patched[f])
          BY <1>2
        <5> QED
          BY <3>4, <5>1, <5>2, Apart, Zenon
      <4> QED
        BY <4>1, <4>2, <4>3
    <3>5. ASSUME NEW x \in ToSet(s), NEW d \in E PROVE ~(Matches(d, x) /\ Matches(e, x))
      <4>1. Independent(d, e) /\ At(d.file) = f
        BY <3>2
      <4>2. x \in ToSet(patched[f])
        BY <1>2
      <4> QED
        BY <2>6, <4>1, <4>2, Apart, Zenon
    <3>6. ASSUME NEW d \in E, NEW y \in ToSet(Added(d)) PROVE ~Matches(e, y)
      <4>1. Independent(e, d) /\ At(d.file) = f
        BY <3>2
      <4> QED
        BY <2>6, <3>6, <4>1, Apart, Zenon
    <3>7. EditedLines(e, old) = new
      <4> HIDE DEF E, e
      <4>1. EditedLines(e, Spread(Picked(E), s)) = Spread(Picked(E \cup {e}), s)
        <5>1. \A x \in ToSet(s), d1 \in E, d2 \in E : Matches(d1, x) /\ Matches(d2, x) => d1 = d2
          BY <3>4
        <5>2. \A x \in ToSet(s), d \in E : ~(Matches(d, x) /\ Matches(e, x))
          BY <3>5
        <5>3. \A d \in E : \A y \in ToSet(Added(d)) : ~Matches(e, y)
          BY <3>6
        <5> QED
          BY ONLY <1>3, <3>3, <5>1, <5>2, <5>3, OneMorePicked
      <4> QED
        BY <3>1, <4>1
    <3>8. old \in Seq(AllLines) /\ \A y \in ToSet(old) : y \in ToSet(s) \/ \E d \in E : y \in ToSet(Added(d))
      <4> HIDE DEF E
      <4> QED
        BY <1>3, <3>3, PickedHolds
    <3>9. Blank \in ToSet(old) => ~Matches(e, Blank)
      <4> SUFFICES ASSUME Blank \in ToSet(old), Matches(e, Blank) PROVE FALSE
        OBVIOUS
      <4>1. CASE Blank \in ToSet(s)
        <5>1. PICK k \in 1..N : k # n /\ At(list[k].file) = f
          BY <1>1, <2>6
        <5>2. Independent(e, list[k])
          BY <1>1, <5>1
        <5>3. Blank \in ToSet(patched[f])
          BY <1>2, <4>1
        <5> QED
          BY <2>6, <5>1, <5>2, <5>3, Apart, Zenon
      <4>2. ASSUME NEW d \in E, Blank \in ToSet(Added(d)) PROVE FALSE
        BY <3>6, <4>2
      <4> QED
        BY <3>8, <4>1, <4>2
    <3>10. PICK t \in TextSet : t = g[n - 1]
      BY <1>4, <2>1
    <3>11. g[n] = Edited(e, t) /\ (t = old \/ (t = EmptyText /\ old \in Seq({Blank})))
      BY <1>2, <2>1, <2>2, <2>6, <3>10 DEF Meant, AsPicked
    <3>12. CASE t = old
      <4>1. \/ Edited(e, t) = EditedLines(e, t)
            \/ Edited(e, t) = EmptyText /\ EditedLines(e, t) \in Seq({Blank})
        <5>1. Blank \in ToSet(t) => ~Matches(e, Blank)
          BY <3>9, <3>12
        <5> HIDE DEF e, old, E
        <5> QED
          BY <3>3, <5>1, PiecesEdited
      <4>2. AsPicked(list, f, n, g[n])
        <5> HIDE DEF e, old
        <5>1. g[n] = new \/ (g[n] = EmptyText /\ new \in Seq({Blank}))
          BY <3>7, <3>11, <3>12, <4>1
        <5> QED
          BY <1>2, <5>1 DEF AsPicked
      <4> QED
        BY <2>1, <4>2
    <3>13. CASE t = EmptyText /\ old \in Seq({Blank})
      <4>1. Edited(e, t) = EmptyText
        <5>1. SplitLines(EmptyText).lines = <<>> /\ ~SplitLines(EmptyText).newline
          BY TextsAre, SplitIs, Zenon
        <5>2. EditedLines(e, <<>>) = <<>>
          BY <3>3, EditedLinesGrow
        <5>3. Joined(<<>>) = EmptyText
          BY DEF Joined
        <5> HIDE DEF e
        <5>4. EditedLines(e, SplitLines(EmptyText).lines) = <<>>
          BY ONLY <5>1, <5>2
        <5>5. Edited(e, EmptyText) = EmptyText
          BY <5>1, <5>3, <5>4, Zenon DEF Edited
        <5> QED
          BY <3>13, <5>5
      <4>2. EditedLines(e, old) = old
        <5>1. \A x \in ToSet(old) : x = Blank
          BY <3>13 DEF ToSet
        <5>2. \A x \in ToSet(old) : ~Matches(e, x)
          BY <3>9, <5>1
        <5> HIDE DEF e, old
        <5> QED
          BY <3>3, <3>8, <5>2, UnmatchedStay
      <4>3. AsPicked(list, f, n, g[n])
        <5> HIDE DEF e, old
        <5>1. g[n] = EmptyText /\ new \in Seq({Blank})
          BY <3>7, <3>11, <3>13, <4>1, <4>2
        <5> QED
          BY <1>2, <5>1 DEF AsPicked
      <4> QED
        BY <2>1, <4>3
    <3> QED
      BY <3>11, <3>12, <3>13
  <2> QED
    BY <2>5, <2>6
<1>7. N \in S
  <2> HIDE DEF S
  <2>1. \A i \in 1..N : i - 1 \in S => i \in S
    BY <1>6
  <2>2. \A i \in 0..N : i \in S
    BY <1>3, <1>5, <2>1, AllTheWay
  <2> QED
    BY <1>3, <2>2
<1> QED
  BY <1>1, <1>4, <1>7

\* A file that one edit of a list is for is what that one makes of it.
LEMMA OnlyOne ==
  ASSUME NEW f, patched[f] \in TextSet, NEW list, Len(list) \in Nat,
         \A i \in 1..Len(list) : Added(list[i]) \in Seq(AllLines),
         NEW j \in 1..Len(list), \A i \in 1..Len(list) : At(list[i].file) = f <=> i = j
  PROVE  Result(list, f) = Edited(list[j], patched[f])
<1>1. PICK N : N = Len(list)
  OBVIOUS
<1>2. PICK g \in [0..N -> TextSet] : /\ g[0] = patched[f] /\ \A i \in 1..N : g[i] = Meant(list[i], f, g[i - 1])
                                     /\ Result(list, f) = g[N]
  <2>1. ResultWalk(list, f)
    BY ResultIs
  <2> QED
    BY <1>1, <2>1 DEF ResultWalk
<1> DEFINE S == {n \in 0..N : g[n] = IF n < j THEN patched[f] ELSE Edited(list[j], patched[f])}
<1>3. N \in Nat /\ 0 \in S
  BY <1>1, <1>2
<1>4. ASSUME NEW n \in 1..N, n - 1 \in S PROVE n \in S
  <2>1. g[n] = Meant(list[n], f, g[n - 1]) /\ n \in 0..N
    BY <1>2, <1>3
  <2>2. CASE n = j
    <3>1. g[n - 1] = patched[f]
      BY <1>1, <1>4, <2>2
    <3>2. g[n] = Edited(list[j], patched[f])
      BY <1>1, <2>1, <2>2, <3>1 DEF Meant
    <3> QED
      BY <1>1, <2>1, <2>2, <3>2
  <2>3. CASE n # j
    <3>1. g[n] = g[n - 1]
      BY <1>1, <2>1, <2>3 DEF Meant
    <3>2. (n - 1 < j) <=> (n < j)
      BY <1>1, <1>3, <2>3
    <3> QED
      BY <1>4, <2>1, <3>1, <3>2
  <2> QED
    BY <2>2, <2>3
<1>5. N \in S
  <2> HIDE DEF S
  <2>1. \A i \in 1..N : i - 1 \in S => i \in S
    BY <1>4
  <2>2. \A i \in 0..N : i \in S
    BY <1>3, <2>1, AllTheWay
  <2> QED
    BY <1>3, <2>2
<1> QED
  BY <1>1, <1>2, <1>3, <1>5

\* Edits that are hashed alike make the same of a text.
LEMMA SameKeyMeans ==
  ASSUME NEW d, NEW e, EditKey(d) = EditKey(e), NEW f, NEW t
  PROVE  Meant(d, f, t) = Meant(e, f, t) /\ Added(d) = Added(e)
<1>1. d.file = e.file /\ d.anchor = e.anchor /\ d.action = e.action /\ EditText(d) = EditText(e)
  BY DEF EditKey
<1>2. d.regex = e.regex
  <2>1. PICK r : r = d.regex
    OBVIOUS
  <2>2. PICK q : q = e.regex
    OBVIOUS
  <2>3. EditKey(d).regex = r
    BY <2>1 DEF EditKey
  <2>4. EditKey(e).regex = q
    BY <2>2 DEF EditKey
  <2> QED
    BY ONLY <2>1, <2>2, <2>3, <2>4, EditKey(d) = EditKey(e)
<1>3. Added(d) = Added(e)
  BY <1>1, Zenon DEF Added
<1>4. ASSUME NEW x PROVE EditedLine(d, x) = EditedLine(e, x)
  <2>1. Matches(d, x) <=> Matches(e, x)
    <3>1. CASE e.regex
      BY <1>1, <1>2, <3>1, Zenon DEF Matches
    <3>2. CASE ~e.regex
      BY <1>1, <1>2, <3>2, Zenon DEF Matches
    <3> QED
      BY <3>1, <3>2, Zenon
  <2>2. CASE ~Matches(e, x)
    BY <2>1, <2>2, Zenon DEF EditedLine
  <2>3. CASE Matches(e, x) /\ e.action = "insert_after"
    BY <1>1, <1>3, <2>1, <2>3, Zenon DEF EditedLine
  <2>4. CASE Matches(e, x) /\ e.action # "insert_after" /\ e.action = "insert_before"
    BY <1>1, <1>3, <2>1, <2>4, Zenon DEF EditedLine
  <2>5. CASE Matches(e, x) /\ e.action # "insert_after" /\ e.action # "insert_before" /\ e.action = "replace_line"
    BY <1>1, <1>3, <2>1, <2>5, Zenon DEF EditedLine
  <2>6. CASE Matches(e, x) /\ e.action # "insert_after" /\ e.action # "insert_before" /\ e.action # "replace_line"
    BY <1>1, <1>3, <2>1, <2>6, Zenon DEF EditedLine
  <2> QED
    BY <2>2, <2>3, <2>4, <2>5, <2>6, Zenon
<1>5. \A s : EditedLines(d, s) = EditedLines(e, s)
  BY <1>4 DEF EditedLines
<1>6. Edited(d, t) = Edited(e, t)
  <2>1. PICK body : body = Joined(EditedLines(d, SplitLines(t).lines))
    OBVIOUS
  <2>2. body = Joined(EditedLines(e, SplitLines(t).lines))
    BY ONLY <1>5, <2>1
  <2>3. CASE SplitLines(t).newline /\ body # EmptyText
    <3>1. Edited(d, t) = Append(body, Blank)
      BY <2>1, <2>3, Zenon DEF Edited
    <3>2. Edited(e, t) = Append(body, Blank)
      BY <2>2, <2>3, Zenon DEF Edited
    <3> QED
      BY <3>1, <3>2, Zenon
  <2>4. CASE ~(SplitLines(t).newline /\ body # EmptyText)
    <3>1. Edited(d, t) = body
      BY <2>1, <2>4, Zenon DEF Edited
    <3>2. Edited(e, t) = body
      BY <2>2, <2>4, Zenon DEF Edited
    <3> QED
      BY <3>1, <3>2, Zenon
  <2> QED
    BY <2>3, <2>4, Zenon
<1> QED
  BY <1>1, <1>3, <1>6 DEF Meant

LEMMA SameResult ==
  ASSUME NEW f, patched[f] \in TextSet, NEW list, NEW other, Len(list) \in Nat, Len(other) = Len(list),
         \A i \in 1..Len(list) : Added(list[i]) \in Seq(AllLines) /\ EditKey(other[i]) = EditKey(list[i])
  PROVE  Result(other, f) = Result(list, f)
<1>1. PICK N : N = Len(list)
  OBVIOUS
<1>2. \A i \in 1..N : Added(other[i]) \in Seq(AllLines)
  BY <1>1, SameKeyMeans
<1>3. PICK g \in [0..N -> TextSet] : /\ g[0] = patched[f] /\ \A i \in 1..N : g[i] = Meant(list[i], f, g[i - 1])
                                     /\ Result(list, f) = g[N]
  <2>1. ResultWalk(list, f)
    BY ResultIs
  <2> QED
    BY <1>1, <2>1 DEF ResultWalk
<1>4. PICK h \in [0..N -> TextSet] : /\ h[0] = patched[f] /\ \A i \in 1..N : h[i] = Meant(other[i], f, h[i - 1])
                                     /\ Result(other, f) = h[N]
  <2>1. ResultWalk(other, f)
    BY <1>1, <1>2, ResultIs
  <2> QED
    BY <1>1, <2>1 DEF ResultWalk
<1> DEFINE Same == {i \in 0..N : h[i] = g[i]}
<1>5. N \in Nat /\ 0 \in Same
  BY <1>1, <1>3, <1>4
<1>6. ASSUME NEW i \in 1..N, i - 1 \in Same PROVE i \in Same
  <2>1. h[i] = Meant(other[i], f, h[i - 1]) /\ g[i] = Meant(list[i], f, g[i - 1]) /\ i \in 0..N /\ h[i - 1] = g[i - 1]
    BY <1>3, <1>4, <1>5, <1>6
  <2>2. \A t : Meant(other[i], f, t) = Meant(list[i], f, t)
    BY <1>1, SameKeyMeans
  <2> QED
    BY <2>1, <2>2
<1>7. N \in Same
  <2> HIDE DEF Same
  <2>1. \A i \in 1..N : i - 1 \in Same => i \in Same
    BY <1>6
  <2>2. \A i \in 0..N : i \in Same
    BY <1>5, <2>1, AllTheWay
  <2> QED
    BY <1>5, <2>2
<1> QED
  BY <1>3, <1>4, <1>7

Turned(list, other) ==
  /\ Len(other) = Len(list)
  /\ \A i \in 1..Len(list) : Len(list) - i + 1 \in 1..Len(list) /\ other[i] = list[Len(list) - i + 1]

LEMMA ReverseIs == ASSUME NEW list, Len(list) \in Nat PROVE Turned(list, Reverse(list)) /\ Turned(Reverse(list), list)
<1>1. PICK N : N = Len(list)
  OBVIOUS
<1>2. PICK r : r = Reverse(list)
  OBVIOUS
<1>3. r = [i \in 1..N |-> list[(N - i) + 1]] /\ N \in Nat
  BY <1>1, <1>2 DEF Reverse
<1>4. Len(r) = N
  BY <1>3
<1>5. ASSUME NEW i \in 1..N PROVE N - i + 1 \in 1..N /\ r[i] = list[N - i + 1] /\ list[i] = r[N - i + 1]
  <2>1. PICK k : k = N - i + 1
    OBVIOUS
  <2>2. k \in 1..N /\ N - k + 1 = i
    BY <1>3, <2>1
  <2> QED
    BY <1>3, <2>1, <2>2
<1> QED
  BY <1>1, <1>2, <1>4, <1>5 DEF Turned

BlankOnly(t) == ToSet(t) = {Blank}

LEMMA OnlyBlanks ==
  /\ BlankOnly(EmptyText)
  /\ \A t \in TextSet : t \in Seq({Blank}) => BlankOnly(t)
<1>1. \A t \in TextSet : t \in Seq({Blank}) => BlankOnly(t)
  <2> SUFFICES ASSUME NEW t \in TextSet, t \in Seq({Blank}) PROVE ToSet(t) = {Blank}
    BY DEF BlankOnly
  <2>1. Len(t) \in Nat /\ 1 \in 1..Len(t) /\ \A i \in 1..Len(t) : t[i] = Blank
    BY DEF TextSet
  <2>2. DOMAIN t = 1..Len(t)
    OBVIOUS
  <2> QED
    BY <2>1, <2>2 DEF ToSet
<1>2. EmptyText \in TextSet /\ EmptyText \in Seq({Blank})
  <2>1. EmptyText \in Seq({Blank})
    BY DEF EmptyText
  <2> QED
    BY <2>1, TextsAre
<1> QED
  BY <1>1, <1>2

\* Independent edits, turned around, make the same of a file.
LEMMA TurnedAround ==
  ASSUME NEW f, patched[f] \in TextSet, NEW list, NEW other, Len(list) \in Nat, Turned(list, other), Turned(other, list),
         \A i \in 1..Len(list) : Added(list[i]) \in Seq(AllLines),
         \A i \in 1..Len(list), k \in 1..Len(list) : i # k => Independent(list[i], list[k])
  PROVE  \/ Result(other, f) = Result(list, f)
         \/ BlankOnly(Result(other, f)) /\ BlankOnly(Result(list, f))
<1>1. PICK N : N = Len(list)
  OBVIOUS
<1>2. N \in Nat /\ Len(other) = N
  BY <1>1 DEF Turned
<1>3. \A i \in 1..N : N - i + 1 \in 1..N /\ other[i] = list[N - i + 1] /\ list[i] = other[N - i + 1]
  BY <1>1, <1>2 DEF Turned
<1>4. \A i \in 1..N : Added(other[i]) \in Seq(AllLines)
  BY <1>1, <1>3
<1>5. \A i \in 1..N, k \in 1..N : i # k => Independent(other[i], other[k])
  <2>1. \A i \in 1..N, k \in 1..N : i # k => N - i + 1 # N - k + 1
    BY <1>2
  <2> QED
    BY <1>1, <1>3, <2>1
<1>6. CASE \E j \in 1..N : \A i \in 1..N : At(list[i].file) = f <=> i = j
  <2>1. PICK j \in 1..N : \A i \in 1..N : At(list[i].file) = f <=> i = j
    BY <1>6
  <2>2. Result(list, f) = Edited(list[j], patched[f])
    BY <1>1, <2>1, OnlyOne
  <2>3. PICK k : k = N - j + 1
    OBVIOUS
  <2>4. k \in 1..N /\ other[k] = list[j]
    BY <1>3, <2>3
  <2>5. \A i \in 1..N : At(other[i].file) = f <=> i = k
    <3>1. \A i \in 1..N : N - i + 1 = j <=> i = k
      BY <1>2, <2>3
    <3> QED
      BY <1>3, <2>1, <3>1
  <2>6. Result(other, f) = Edited(other[k], patched[f])
    BY <1>1, <1>2, <1>4, <2>4, <2>5, OnlyOne
  <2> QED
    BY <2>2, <2>4, <2>6
<1>7. CASE ~\E j \in 1..N : \A i \in 1..N : At(list[i].file) = f <=> i = j
  <2>1. ASSUME NEW i \in 1..N, At(list[i].file) = f PROVE \E k \in 1..N : k # i /\ At(list[k].file) = f
    BY <1>7, <2>1
  <2>2. ASSUME NEW i \in 1..N, At(other[i].file) = f PROVE \E k \in 1..N : k # i /\ At(other[k].file) = f
    <3>1. PICK n \in 1..N : n = N - i + 1 /\ At(list[n].file) = f
      BY <1>3, <2>2
    <3>2. PICK m \in 1..N : m # n /\ At(list[m].file) = f
      BY <2>1, <3>1
    <3>3. PICK k : k = N - m + 1
      OBVIOUS
    <3>4. k \in 1..N /\ other[k] = list[m] /\ k # i
      BY <1>2, <1>3, <3>1, <3>2, <3>3
    <3> QED
      BY <3>2, <3>4
  <2>3. AsPicked(list, f, N, Result(list, f))
    BY <1>1, <2>1, Together
  <2>4. AsPicked(other, f, N, Result(other, f))
    BY <1>2, <1>4, <1>5, <2>2, Together
  <2>5. Touching(other, f, N) = Touching(list, f, N)
    <3>1. ASSUME NEW i \in 1..N, At(list[i].file) = f PROVE list[i] \in Touching(other, f, N)
      BY <1>3, <3>1 DEF Touching
    <3>2. ASSUME NEW i \in 1..N, At(other[i].file) = f PROVE other[i] \in Touching(list, f, N)
      BY <1>3, <3>2 DEF Touching
    <3>3. ASSUME NEW e \in Touching(list, f, N) PROVE e \in Touching(other, f, N)
      <4>1. PICK i \in 1..N : e = list[i] /\ At(list[i].file) = f
        BY DEF Touching
      <4> QED
        BY <3>1, <4>1
    <3>4. ASSUME NEW e \in Touching(other, f, N) PROVE e \in Touching(list, f, N)
      <4>1. PICK i \in 1..N : e = other[i] /\ At(other[i].file) = f
        BY DEF Touching
      <4> QED
        BY <3>2, <4>1
    <3> QED
      BY <3>3, <3>4
  <2>6. Result(list, f) \in TextSet /\ Result(other, f) \in TextSet
    <3>1. ResultWalk(list, f) /\ ResultWalk(other, f)
      BY <1>1, <1>2, <1>4, ResultIs
    <3>2. N \in 0..N
      BY <1>2
    <3> QED
      BY <1>1, <1>2, <3>1, <3>2 DEF ResultWalk
  <2>7. PICK all : all = Spread(Picked(Touching(list, f, N)), patched[f])
    OBVIOUS
  <2>8. /\ Result(list, f) = all \/ (Result(list, f) = EmptyText /\ all \in Seq({Blank}))
        /\ Result(other, f) = all \/ (Result(other, f) = EmptyText /\ all \in Seq({Blank}))
    BY <2>3, <2>4, <2>5, <2>7 DEF AsPicked
  <2> QED
    BY <2>6, <2>8, OnlyBlanks
<1> QED
  BY <1>6, <1>7

\* Once all is done, the texts are what the edits make of those that were there.
LEMMA DoneIs ==
  ASSUME EditInv, job = "done"
  PROVE  /\ Made(edits) /\ edits \in Seq(EditSet) /\ Len(edits) \in Nat /\ DOMAIN edits = 1..Len(edits)
         /\ \A i \in 1..Len(edits) : Added(edits[i]) \in Seq(AllLines)
<1>1. todo = <<>> /\ edits \in Seq(EditSet)
  BY DEF EditInv
<1>2. PICK made \in Seq(EditSet) : edits = made \o todo /\ Made(made)
  BY DEF EditInv
<1>3. edits = made
  BY <1>1, <1>2, ConcatEmptySeq
<1>4. \A i \in 1..Len(edits) : edits[i] \in EditSet
  BY <1>1
<1>5. \A e \in EditSet : Added(e) \in Seq(AllLines)
  BY InputsAre
<1> QED
  BY <1>1, <1>2, <1>3, <1>4, <1>5

LEMMA EditsHappened == EditInv => DeclaredEditsHappened
<1> SUFFICES ASSUME EditInv, job = "done", NEW f \in DOMAIN text
             PROVE  \/ Len(text[f]) = Declared(edits, f)
                    \/ text[f] = EmptyText /\ Declared(edits, f) \in {0, 2}
  BY DEF DeclaredEditsHappened
<1>1. Made(edits)
  BY DoneIs
<1> QED
  BY <1>1 DEF Made, AsMade, GrownAs

LEMMA EditsCommute == EditInv => IndependentEditsCommute
<1> SUFFICES ASSUME EditInv, job = "done", \A i, k \in DOMAIN edits : i # k => Independent(edits[i], edits[k]),
                    NEW f \in DOMAIN text
             PROVE  \/ Result(Reverse(edits), f) = text[f]
                    \/ ToSet(Result(Reverse(edits), f)) = {Blank} /\ ToSet(text[f]) = {Blank}
  BY DEF IndependentEditsCommute
<1>1. /\ Made(edits) /\ Len(edits) \in Nat /\ DOMAIN edits = 1..Len(edits)
      /\ \A i \in 1..Len(edits) : Added(edits[i]) \in Seq(AllLines)
  BY DoneIs
<1>2. patched[f] \in TextSet /\ text[f] = Result(edits, f)
  BY <1>1 DEF Made, AsMade
<1>3. PICK other : other = Reverse(edits)
  OBVIOUS
<1>4. Turned(edits, other) /\ Turned(other, edits)
  BY <1>1, <1>3, ReverseIs
<1>5. \/ Result(other, f) = Result(edits, f)
      \/ BlankOnly(Result(other, f)) /\ BlankOnly(Result(edits, f))
  <2>1. \A i \in 1..Len(edits), k \in 1..Len(edits) : i # k => Independent(edits[i], edits[k])
    BY <1>1
  <2> QED
    BY <1>1, <1>2, <1>4, <2>1, TurnedAround
<1> QED
  BY <1>2, <1>3, <1>5 DEF BlankOnly

LEMMA KeysTell == EditInv => SameKeySameTree
<1> SUFFICES ASSUME EditInv, job = "done", NEW other \in EditLists, Len(other) = Len(edits),
                    \A i \in DOMAIN other : EditKey(other[i]) = EditKey(edits[i]), NEW f \in DOMAIN text
             PROVE  Result(other, f) = text[f]
  BY DEF SameKeySameTree
<1>1. /\ Made(edits) /\ Len(edits) \in Nat
      /\ \A i \in 1..Len(edits) : Added(edits[i]) \in Seq(AllLines)
  BY DoneIs
<1>2. patched[f] \in TextSet /\ text[f] = Result(edits, f)
  BY <1>1 DEF Made, AsMade
<1>3. DOMAIN other = 1..Len(edits)
  <2>1. other \in Seq(ToSet(other))
    BY TextsAssumption
  <2> QED
    BY <2>1
<1> QED
  BY <1>1, <1>2, <1>3, SameResult

\* Whatever was accepted happens, exactly as often as it says, in an order that
\* matters only where edits meet, or is refused by the tree, for its path or for its
\* expression; and the key tells trees apart.
THEOREM EditsAreMadeExactly == TreeSpec => []EditsAreExact
<1>1. RefusedByTheTree
  <2>1. ASSUME NEW e, AcceptedEdit(e) PROVE ValidEdit(e)
    BY <2>1 DEF AcceptedEdit, ValidEdit, Actions
  <2> QED
    BY <2>1, Zenon DEF RefusedByTheTree, EditApplies
<1>2. EditInv => DeclaredEditsHappened /\ IndependentEditsCommute /\ SameKeySameTree
  BY EditsHappened, EditsCommute, KeysTell
<1>3. EditInv => EditsAreExact
  BY <1>1, <1>2 DEF EditsAreExact
<1> QED
  BY <1>3, EditInvStarts, EditInvStays, PTL DEF TreeSpec

(***************************************************************************)
(* The verification of an interpreter.                                     *)
(***************************************************************************)

Ranks(level) == IF level = "core" THEN CoreTests ELSE ShippedTests

IsRequest(j) ==
  j.interp \in Interpreters /\ j.level \in {"smoke", "core", "full"} /\ j.table \in Expectations /\ j.skip \in BOOLEAN

LEMMA ReportsAdd ==
  ASSUME NEW a, NEW b
  PROVE  ReportOK(a \cup b) <=> ReportOK(a) /\ ReportOK(b)
  BY DEF ReportOK

LEMMA OneCheck ==
  ASSUME NEW name, NEW status
  PROVE  /\ <<name, status>>[2] = status
         /\ ReportOK({<<name, status>>}) <=> status # "fail"
<1>1. <<name, status>>[2] = status
  OBVIOUS
<1> QED
  BY <1>1 DEF ReportOK

LEMMA FileChecks ==
  ASSUME NEW i \in Interpreters, i.exists
  PROVE  ReportOK(CheckELF(i)) <=> FileAsClaimed(i)
<1>1. i.machine # "unknown" /\ {i.exists, i.readable, i.static, i.stripped, i.symbols, i.host} \subseteq BOOLEAN
  BY InterpretersAssumption
<1>2. \A b : Said(b) # "fail" <=> b
  BY DEF Said
<1>3. CASE ~i.readable
  <2>1. <<"elf:readable", "fail">> \in CheckELF(i)
    BY <1>3 DEF CheckELF
  <2> QED
    BY <1>3, <2>1 DEF ReportOK, FileAsClaimed
<1>4. CASE i.readable
  <2> DEFINE known == Target.machine # "unknown"
             bits == IF Target.bits # 0 /\ known THEN {<<"elf:bits", Said(i.bits = Target.bits)>>} ELSE {}
  <2>1. CheckELF(i) = {<<"elf:readable", "pass">>,
            <<"elf:linkage", Said(i.static # i.host)>>,
            <<"elf:machine", Said(known /\ i.machine = Target.machine)>>,
            <<"elf:symbol", IF i.host \/ i.stripped THEN "skip" ELSE Said(i.symbols)>>} \cup bits
    BY <1>4 DEF CheckELF
  <2>2. ReportOK(bits) <=> (Target.bits # 0 /\ known => i.bits = Target.bits)
    <3>1. CASE Target.bits # 0 /\ known
      <4>1. bits = {<<"elf:bits", Said(i.bits = Target.bits)>>}
        BY <3>1
      <4>2. ReportOK(bits) <=> Said(i.bits = Target.bits) # "fail"
        BY <4>1, OneCheck
      <4> QED
        BY <1>2, <3>1, <4>2
    <3>2. CASE ~(Target.bits # 0 /\ known)
      <4>1. bits = {}
        BY <3>2
      <4> QED
        BY <3>2, <4>1 DEF ReportOK
    <3> QED
      BY <3>1, <3>2
  <2>3. ReportOK(CheckELF(i)) <=>
          /\ i.static # i.host /\ known /\ i.machine = Target.machine
          /\ i.host \/ i.stripped \/ i.symbols
          /\ ReportOK(bits)
    <3>1. PICK a, m, s : a = Said(i.static # i.host) /\ m = Said(known /\ i.machine = Target.machine)
                         /\ s = IF i.host \/ i.stripped THEN "skip" ELSE Said(i.symbols)
      OBVIOUS
    <3>2. /\ (a # "fail") <=> (i.static # i.host)
          /\ (m # "fail") <=> (known /\ i.machine = Target.machine)
          /\ (s # "fail") <=> (i.host \/ i.stripped \/ i.symbols)
      BY <3>1 DEF Said
    <3> HIDE DEF known, bits
    <3>3. CheckELF(i) = {<<"elf:readable", "pass">>, <<"elf:linkage", a>>, <<"elf:machine", m>>, <<"elf:symbol", s>>} \cup bits
      BY <2>1, <3>1
    <3>4. ReportOK(CheckELF(i)) <=> a # "fail" /\ m # "fail" /\ s # "fail" /\ ReportOK(bits)
      <4>1. PICK x3 : x3 = {<<"elf:symbol", s>>} \cup bits
        OBVIOUS
      <4>2. PICK x2 : x2 = {<<"elf:machine", m>>} \cup x3
        OBVIOUS
      <4>3. PICK x1 : x1 = {<<"elf:linkage", a>>} \cup x2
        OBVIOUS
      <4>4. CheckELF(i) = {<<"elf:readable", "pass">>} \cup x1
        BY <3>3, <4>1, <4>2, <4>3
      <4>5. ReportOK(x3) <=> s # "fail" /\ ReportOK(bits)
        BY <4>1, ReportsAdd, OneCheck
      <4>6. ReportOK(x2) <=> m # "fail" /\ ReportOK(x3)
        BY <4>2, ReportsAdd, OneCheck
      <4>7. ReportOK(x1) <=> a # "fail" /\ ReportOK(x2)
        BY <4>3, ReportsAdd, OneCheck
      <4>8. ReportOK({<<"elf:readable", "pass">>})
        BY OneCheck
      <4>9. ReportOK(CheckELF(i)) <=> ReportOK(x1)
        BY <4>4, <4>8, ReportsAdd
      <4> QED
        BY <4>5, <4>6, <4>7, <4>9
    <3> QED
      BY <3>2, <3>4
  <2>4. (i.static # i.host) <=> (i.static = ~i.host)
    BY <1>1
  <2> QED
    BY <1>1, <1>4, <2>2, <2>3, <2>4 DEF FileAsClaimed
<1> QED
  BY <1>3, <1>4

LEMMA ProbeChecks ==
  ASSUME NEW i, NEW run \in ProbeRuns
  PROVE  ReportOK(RunProbes(i, run)) <=> ProbeNames \subseteq i.works \cap run.printed
<1>1. \A b : Said(b) # "fail" <=> b
  BY DEF Said
<1>2. CASE ~run.started \/ run.printed = {}
  <2>1. RunProbes(i, run) = {<<"probe:startup", "fail">>}
    BY <1>2 DEF RunProbes
  <2>2. ~ReportOK(RunProbes(i, run))
    BY <2>1 DEF ReportOK
  <2>3. run.printed = {}
    BY <1>2 DEF ProbeRuns
  <2> QED
    BY <2>2, <2>3, SuiteAssumption
<1>3. CASE ~(~run.started \/ run.printed = {})
  <2> DEFINE said(p) == Said(p \in run.printed /\ p \in i.works)
             names == {<<p, said(p)>> : p \in ProbeNames}
  <2>1. RunProbes(i, run) = {<<"probe:startup", "pass">>} \cup names
    BY <1>3 DEF RunProbes
  <2>2. \A p : said(p) # "fail" <=> p \in run.printed /\ p \in i.works
    BY <1>1
  <2> HIDE DEF said
  <2>3. ReportOK(names) <=> \A p \in ProbeNames : said(p) # "fail"
    <3>1. \A p \in ProbeNames : <<p, said(p)>> \in names /\ <<p, said(p)>>[2] = said(p)
      OBVIOUS
    <3>2. \A c \in names : \E p \in ProbeNames : c = <<p, said(p)>>
      OBVIOUS
    <3> HIDE DEF names
    <3> QED
      BY <3>1, <3>2 DEF ReportOK
  <2>4. ReportOK({<<"probe:startup", "pass">>})
    BY OneCheck
  <2> QED
    BY <2>1, <2>2, <2>3, <2>4, ReportsAdd
<1> QED
  BY <1>2, <1>3

LEMMA ClassesTell ==
  ASSUME NEW verdicts
  PROVE  ReportOK(ClassReport(verdicts)) <=> \A v \in verdicts : ~Wrong(v.class)
<1>1. CASE \A v \in verdicts : ~Wrong(v.class)
  <2>1. ASSUME NEW c \in ClassReport(verdicts) PROVE c[2] \in {"pass", "skip"}
    <3>1. c = <<"suite:expected-failures", "pass">> \/ c = <<"suite:expected-skips", "skip">> \/ c = <<"suite:result", "pass">>
      BY <1>1 DEF ClassReport
    <3> QED
      BY <3>1
  <2> QED
    BY <1>1, <2>1 DEF ReportOK
<1>2. CASE ~\A v \in verdicts : ~Wrong(v.class)
  <2>1. PICK v \in verdicts : Wrong(v.class)
    BY <1>2
  <2>2. <<v.test, "fail">> \in ClassReport(verdicts)
    BY <2>1 DEF ClassReport
  <2> QED
    BY <1>2, <2>2 DEF ReportOK
<1> QED
  BY <1>1, <1>2

\* Every verdict, told by what it came to be.
LEMMA VerdictsOf ==
  ASSUME NEW out, NEW level, NEW expect, NEW v
  PROVE  v \in Classify(out, level, expect) <=>
           \/ \E t \in expect.fail : /\ StatusOf(out, level, t) # "absent"
                                     /\ v = [test |-> t, class |-> Judge(StatusOf(out, level, t), TRUE), by |-> "fail list"]
           \/ \E t \in expect.skip \ expect.fail :
                /\ StatusOf(out, level, t) # "absent"
                /\ v = [test |-> t, class |-> Judge(StatusOf(out, level, t), FALSE), by |-> "skip list"]
           \/ \E t \in Bucket(out, {"failed"}) \ (expect.fail \cup expect.skip) :
                v = [test |-> t, class |-> "unexpected failure", by |-> "failed"]
           \/ \E t \in Bucket(out, {"env changed"}) \ (expect.fail \cup expect.skip) :
                t \notin Bucket(out, {"failed"}) /\ v = [test |-> t, class |-> "unexpected failure", by |-> "env changed"]
  BY DEF Classify, Unlisted

\* Which lists apply: those under the keys that hold for the interpreter.
LEMMA ListsThatApply ==
  ASSUME NEW j, IsRequest(j), NEW list \in {"skip", "fail"}, NEW t
  PROVE  /\ t \in Expect(j)[list] <=> \E k \in DOMAIN j.table : KeyApplies(k, j.interp.host) /\ t \in j.table[k][list]
         /\ t \in Expect(j)[list] => t \in ShippedTests
<1> DEFINE keys == {ExpectAll, ExpectKey(AnyTriple, Runner), ExpectKey(Target.triple, AnyRunner),
                    ExpectKey(Target.triple, Runner)} \cup (IF ~j.interp.host THEN {ExpectStatic} ELSE {})
<1>1. Expect(j)[list] = UNION {j.table[k][list] : k \in keys \cap DOMAIN j.table}
  BY DEF Expect, LookupExpect
<1>2. t \in Expect(j)[list] <=> \E k \in keys \cap DOMAIN j.table : t \in j.table[k][list]
  BY <1>1
<1>3. ASSUME NEW k \in DOMAIN j.table PROVE k \in keys <=> KeyApplies(k, j.interp.host)
  <2>1. k = ExpectStatic \/ k = ExpectKey(k.triple, k.runner)
    BY ExpectationsAssumption DEF IsRequest
  <2>2. ExpectStatic.static /\ ExpectStatic.triple = AnyTriple /\ ExpectStatic.runner = AnyRunner
    BY DEF ExpectStatic, ExpectAll, ExpectKey
  <2>3. CASE k = ExpectStatic
    <3>1. \A a, b : ExpectKey(a, b).static = FALSE
      BY DEF ExpectKey
    <3>2. k \in keys <=> ~j.interp.host
      BY <2>2, <2>3, <3>1 DEF ExpectAll
    <3> QED
      BY <2>2, <2>3, <3>2 DEF KeyApplies
  <2>4. CASE k # ExpectStatic
    <3>1. k = ExpectKey(k.triple, k.runner) /\ ~k.static
      BY <2>1, <2>4 DEF ExpectKey
    <3>2. \A a, b : k = ExpectKey(a, b) <=> k.triple = a /\ k.runner = b
      BY <3>1 DEF ExpectKey
    <3> QED
      BY <2>4, <3>1, <3>2 DEF KeyApplies, ExpectAll
  <2> QED
    BY <2>3, <2>4
<1>4. \A k \in DOMAIN j.table : j.table[k].skip \cup j.table[k].fail \subseteq ShippedTests
  BY ExpectationsAssumption DEF IsRequest
<1> HIDE DEF keys
<1> QED
  BY <1>2, <1>3, <1>4

\* What a test is found to be, from the buckets that it is in.
LEMMA StatusTells ==
  ASSUME NEW out, NEW level, NEW t
  PROVE  LET failing == t \in DOMAIN out /\ out[t] \cap {"failed", "env changed"} # {}
             other   == t \in DOMAIN out /\ out[t] \cap {"skipped", "omitted", "run no tests"} # {}
         IN  /\ t \in Failing(out) <=> failing
             /\ StatusOf(out, level, t) = IF failing THEN "failed" ELSE IF other THEN "skipped"
                                          ELSE IF level = "full" \/ t \in Requested(level) THEN "passed" ELSE "absent"
  BY DEF StatusOf, Failing, Bucket

LEMMA Judgements ==
  ASSUME NEW status \in {"failed", "skipped", "passed"}
  PROVE  /\ Judge(status, TRUE) = IF status = "passed" THEN "unexpected pass" ELSE "expected failure"
         /\ Judge(status, FALSE) = CASE status = "passed"  -> "unexpected pass"
                                     [] status = "skipped" -> "expected skip"
                                     [] status = "failed"  -> "unexpected failure"
  BY DEF Judge

IsOutcome(out, level) ==
  /\ out \in [ShippedTests -> SUBSET BucketNames]
  /\ \A t \in ShippedTests : ("OK" \in out[t] => out[t] = {"OK"}) /\ (t \notin Ranks(level) => out[t] = {})

LEMMA OutcomesOfRuns ==
  ASSUME NEW level, NEW run \in SuiteRuns(level)
  PROVE  IsOutcome(run.out, level) /\ run.started \in BOOLEAN /\ run.timedOut \in BOOLEAN
<1>1. ASSUME NEW b \in BOOLEAN, run = [started |-> b, timedOut |-> b, out |-> [t \in ShippedTests |-> {}]]
      PROVE  IsOutcome(run.out, level) /\ run.started \in BOOLEAN /\ run.timedOut \in BOOLEAN
  BY <1>1 DEF IsOutcome
<1>2. ASSUME NEW o \in [ShippedTests -> Prints \cup {{}}], \A t \in ShippedTests \ Ranks(level) : o[t] = {},
             run = [started |-> TRUE, timedOut |-> FALSE, out |-> o]
      PROVE  IsOutcome(run.out, level) /\ run.started \in BOOLEAN /\ run.timedOut \in BOOLEAN
  <2>1. \A t \in ShippedTests : o[t] \subseteq BucketNames /\ ("OK" \in o[t] => o[t] = {"OK"})
    BY SuiteAssumption
  <2> QED
    BY <1>2, <2>1 DEF IsOutcome
<1> QED
  BY <1>1, <1>2 DEF SuiteRuns, Ranks

IsSuiteLevel(level) == level \in {"core", "full"}

\* The inference of CheckCoverage: as many distinct tests answered as were asked
\* for, and none of others, so each one that was asked for answered.
LEMMA CoverageIsComplete ==
  ASSUME NEW out, IsOutcome(out, "core"),
         Accounted(out) >= Cardinality(Requested("core"))
  PROVE  \A t \in CoreTests : out[t] # {}
<1> DEFINE Ok == Bucket(out, {"OK"})
           Rest == Bucket(out, {"failed", "env changed", "skipped", "omitted", "run no tests"})
<1>1. IsFiniteSet(CoreTests) /\ CoreTests \subseteq ShippedTests
  BY SuiteAssumption, FS_Subset
<1>2. Ok \subseteq CoreTests /\ Rest \subseteq CoreTests
  BY DEF IsOutcome, Bucket, Ranks
<1>3. Ok \cap Rest = {}
  <2> SUFFICES ASSUME NEW t, t \in Ok, t \in Rest PROVE FALSE
    OBVIOUS
  <2>1. t \in ShippedTests /\ "OK" \in out[t]
    BY DEF IsOutcome, Bucket
  <2>2. out[t] = {"OK"}
    BY <2>1 DEF IsOutcome
  <2> QED
    BY <2>2 DEF Bucket
<1>4. \A t \in Ok \cup Rest : out[t] # {}
  BY DEF Bucket
<1>5. Accounted(out) = Cardinality(Ok) + Cardinality(Rest)
  BY DEF Accounted, Passed
<1> HIDE DEF Ok, Rest
<1>6. IsFiniteSet(Ok) /\ IsFiniteSet(Rest)
  BY <1>1, <1>2, FS_Subset
<1>7. Cardinality(Ok \cap Rest) = 0
  BY <1>3, FS_EmptySet
<1>8. Cardinality(Ok \cup Rest) = Cardinality(Ok) + Cardinality(Rest) - Cardinality(Ok \cap Rest)
  BY <1>6, FS_Union
<1>9. Cardinality(Ok) \in Nat /\ Cardinality(Rest) \in Nat /\ Cardinality(CoreTests) \in Nat
  BY <1>1, <1>6, FS_CardinalityType
<1>10. Cardinality(Ok \cup Rest) >= Cardinality(CoreTests)
  BY <1>5, <1>7, <1>8, <1>9 DEF Requested
<1>11. Ok \cup Rest = CoreTests
  <2>1. Ok \cup Rest \subseteq CoreTests
    BY <1>2
  <2>2. Cardinality(Ok \cup Rest) <= Cardinality(CoreTests)
    BY <1>1, <2>1, FS_Subset
  <2>3. Cardinality(Ok \cup Rest) \in Nat
    BY <1>6, FS_Union, FS_CardinalityType
  <2> QED
    BY <1>1, <1>9, <1>10, <2>1, <2>2, <2>3, FS_Subset
<1> QED
  BY <1>4, <1>11

\* And a suite that answered for every test it was asked for is covered.
LEMMA CompleteIsCovered ==
  ASSUME NEW level, IsSuiteLevel(level), NEW run, IsOutcome(run.out, level), ~run.timedOut,
         \A t \in Ranks(level) : run.out[t] # {}
  PROVE  CheckCoverage(run, level)
<1> DEFINE out == run.out
           Ok == Bucket(out, {"OK"})
           Rest == Bucket(out, {"failed", "env changed", "skipped", "omitted", "run no tests"})
<1>1. IsFiniteSet(ShippedTests) /\ CoreTests \subseteq ShippedTests /\ CoreTests # {} /\ IsFiniteSet(CoreTests)
  BY SuiteAssumption, FS_Subset
<1>2. Ok \subseteq ShippedTests /\ Rest \subseteq ShippedTests
  BY DEF IsOutcome, Bucket
<1>3. \A t \in ShippedTests : out[t] # {} => t \in Ok \cup Rest
  <2> SUFFICES ASSUME NEW t \in ShippedTests, out[t] # {} PROVE t \in Ok \cup Rest
    OBVIOUS
  <2>1. PICK name \in BucketNames : name \in out[t]
    BY DEF IsOutcome
  <2> QED
    BY <2>1 DEF BucketNames, Bucket, IsOutcome
<1>4. CoreTests \subseteq Ok \cup Rest
  BY <1>1, <1>3 DEF Ranks, IsSuiteLevel
<1>5. Accounted(out) = Cardinality(Ok) + Cardinality(Rest)
  BY DEF Accounted, Passed
<1> HIDE DEF Ok, Rest
<1>6. IsFiniteSet(Ok) /\ IsFiniteSet(Rest) /\ IsFiniteSet(Ok \cup Rest)
  BY <1>1, <1>2, FS_Subset, FS_Union
<1>7. Cardinality(Ok) \in Nat /\ Cardinality(Rest) \in Nat /\ Cardinality(CoreTests) \in Nat
      /\ Cardinality(Ok \cap Rest) \in Nat
  BY <1>1, <1>6, FS_CardinalityType, FS_Intersection
<1>8. Cardinality(Ok \cup Rest) = Cardinality(Ok) + Cardinality(Rest) - Cardinality(Ok \cap Rest)
  BY <1>6, FS_Union
<1>9. Cardinality(CoreTests) <= Cardinality(Ok \cup Rest)
  BY <1>4, <1>6, FS_Subset
<1>10. Cardinality(CoreTests) > 0
  BY <1>1, <1>7, FS_EmptySet
<1>11. Accounted(out) > 0 /\ Accounted(out) >= Cardinality(CoreTests)
  BY <1>5, <1>7, <1>8, <1>9, <1>10
<1>12. Cardinality(Requested(level)) <= Cardinality(CoreTests)
  BY <1>7, FS_EmptySet DEF Requested
<1>13. Cardinality(Requested(level)) \in Nat
  BY <1>7, FS_EmptySet DEF Requested
<1> QED
  BY <1>5, <1>7, <1>11, <1>12, <1>13 DEF CheckCoverage


\* The tests that get a verdict, and which one.
IsJudged(out, level, expect, t) ==
  IF t \in expect.fail \cup expect.skip THEN StatusOf(out, level, t) # "absent" ELSE t \in Failing(out)

ClassOf(out, level, expect, t) ==
  IF t \in expect.fail \cup expect.skip THEN Judge(StatusOf(out, level, t), t \in expect.fail) ELSE "unexpected failure"

VerdictOf(out, level, expect, t) ==
  [test  |-> t,
   class |-> ClassOf(out, level, expect, t),
   by    |-> IF t \in expect.fail THEN "fail list" ELSE IF t \in expect.skip THEN "skip list"
             ELSE IF t \in Bucket(out, {"failed"}) THEN "failed" ELSE "env changed"]

LEMMA OneVerdictEach ==
  ASSUME NEW out, NEW level, NEW expect
  PROVE  /\ \A t : IsJudged(out, level, expect, t) => VerdictOf(out, level, expect, t) \in Classify(out, level, expect)
         /\ \A v \in Classify(out, level, expect) :
              IsJudged(out, level, expect, v.test) /\ v = VerdictOf(out, level, expect, v.test)
<1> DEFINE vs == Classify(out, level, expect)
           status(t) == StatusOf(out, level, t)
           listed(t) == t \in expect.fail \cup expect.skip
<1>0. /\ \A t : t \in Failing(out) <=> t \in Bucket(out, {"failed"}) \/ t \in Bucket(out, {"env changed"})
  BY DEF Failing, Bucket
<1>1. ASSUME NEW t, IsJudged(out, level, expect, t) PROVE VerdictOf(out, level, expect, t) \in vs
  <2> DEFINE v == VerdictOf(out, level, expect, t)
  <2>1. CASE t \in expect.fail
    <3>1. status(t) # "absent" /\ v = [test |-> t, class |-> Judge(status(t), TRUE), by |-> "fail list"]
      <4>1. (t \in expect.fail) = TRUE
        BY <2>1
      <4> QED
        BY <1>1, <2>1, <4>1 DEF IsJudged, VerdictOf, ClassOf
    <3> HIDE DEF v
    <3> HIDE DEF vs
    <3>v. v \in vs
      BY <2>1, <3>1, VerdictsOf DEF vs, status
    <3> QED
      BY <3>v DEF v
  <2>2. CASE t \notin expect.fail /\ t \in expect.skip
    <3>1. status(t) # "absent" /\ v = [test |-> t, class |-> Judge(status(t), FALSE), by |-> "skip list"]
      <4>1. (t \in expect.fail) = FALSE
        BY <2>2
      <4> QED
        BY <1>1, <2>2, <4>1 DEF IsJudged, VerdictOf, ClassOf
    <3> HIDE DEF v
    <3> HIDE DEF vs
    <3>v. v \in vs
      BY <2>2, <3>1, VerdictsOf DEF vs, status
    <3> QED
      BY <3>v DEF v
  <2>3. CASE ~listed(t) /\ t \in Bucket(out, {"failed"})
    <3>1. v = [test |-> t, class |-> "unexpected failure", by |-> "failed"]
      BY <2>3 DEF VerdictOf, ClassOf
    <3> HIDE DEF v
    <3> HIDE DEF vs
    <3>v. v \in vs
      BY <2>3, <3>1, VerdictsOf DEF vs, status
    <3> QED
      BY <3>v DEF v
  <2>4. CASE ~listed(t) /\ t \notin Bucket(out, {"failed"})
    <3>1. v = [test |-> t, class |-> "unexpected failure", by |-> "env changed"]
      BY <2>4 DEF VerdictOf, ClassOf
    <3>2. t \in Bucket(out, {"env changed"})
      BY <1>0, <1>1, <2>4 DEF IsJudged
    <3> HIDE DEF v
    <3> HIDE DEF vs
    <3>v. v \in vs
      BY <2>4, <3>1, <3>2, VerdictsOf DEF vs, status
    <3> QED
      BY <3>v DEF v
  <2> QED
    BY <2>1, <2>2, <2>3, <2>4
<1>2. ASSUME NEW v \in vs PROVE IsJudged(out, level, expect, v.test) /\ v = VerdictOf(out, level, expect, v.test)
  <2>1. ASSUME NEW t \in expect.fail, StatusOf(out, level, t) # "absent",
               v = [test |-> t, class |-> Judge(StatusOf(out, level, t), TRUE), by |-> "fail list"]
        PROVE  IsJudged(out, level, expect, v.test) /\ v = VerdictOf(out, level, expect, v.test)
    <3>1. (t \in expect.fail) = TRUE /\ v.test = t
      BY <2>1
    <3> QED
      BY <2>1, <3>1 DEF IsJudged, VerdictOf, ClassOf
  <2>2. ASSUME NEW t \in expect.skip \ expect.fail, StatusOf(out, level, t) # "absent",
               v = [test |-> t, class |-> Judge(StatusOf(out, level, t), FALSE), by |-> "skip list"]
        PROVE  IsJudged(out, level, expect, v.test) /\ v = VerdictOf(out, level, expect, v.test)
    <3>1. (t \in expect.fail) = FALSE /\ v.test = t
      <4>1. t \notin expect.fail
        BY <2>2
      <4>2. v.test = t
        BY <2>2
      <4> QED
        BY <4>1, <4>2
    <3> QED
      BY <2>2, <3>1 DEF IsJudged, VerdictOf, ClassOf
  <2>3. ASSUME NEW t \in Bucket(out, {"failed"}) \ (expect.fail \cup expect.skip),
               v = [test |-> t, class |-> "unexpected failure", by |-> "failed"]
        PROVE  IsJudged(out, level, expect, v.test) /\ v = VerdictOf(out, level, expect, v.test)
    BY <1>0, <2>3 DEF IsJudged, VerdictOf, ClassOf
  <2>4. ASSUME NEW t \in Bucket(out, {"env changed"}) \ (expect.fail \cup expect.skip), t \notin Bucket(out, {"failed"}),
               v = [test |-> t, class |-> "unexpected failure", by |-> "env changed"]
        PROVE  IsJudged(out, level, expect, v.test) /\ v = VerdictOf(out, level, expect, v.test)
    BY <1>0, <2>4 DEF IsJudged, VerdictOf, ClassOf
  <2> HIDE DEF vs
  <2>5. \/ \E t \in expect.fail : StatusOf(out, level, t) # "absent" /\ v = [test |-> t, class |-> Judge(StatusOf(out, level, t), TRUE), by |-> "fail list"]
        \/ \E t \in expect.skip \ expect.fail :
             StatusOf(out, level, t) # "absent" /\ v = [test |-> t, class |-> Judge(StatusOf(out, level, t), FALSE), by |-> "skip list"]
        \/ \E t \in Bucket(out, {"failed"}) \ (expect.fail \cup expect.skip) :
             v = [test |-> t, class |-> "unexpected failure", by |-> "failed"]
        \/ \E t \in Bucket(out, {"env changed"}) \ (expect.fail \cup expect.skip) :
             t \notin Bucket(out, {"failed"}) /\ v = [test |-> t, class |-> "unexpected failure", by |-> "env changed"]
    <3>1. v \in Classify(out, level, expect)
      BY DEF vs
    <3> HIDE DEF vs, status, listed
    <3> QED
      BY <3>1 DEF Classify, Unlisted
  <2> QED
    BY <2>1, <2>2, <2>3, <2>4, <2>5
<1> HIDE DEF vs
<1>3. \A t : IsJudged(out, level, expect, t) => VerdictOf(out, level, expect, t) \in vs
  BY <1>1
<1>4. \A v \in vs : IsJudged(out, level, expect, v.test) /\ v = VerdictOf(out, level, expect, v.test)
  BY <1>2
<1> QED
  BY <1>3, <1>4 DEF vs

\* Which of them are wrong.
LEMMA WrongOnes ==
  ASSUME NEW out, NEW level, NEW expect, NEW t, IsJudged(out, level, expect, t)
  PROVE  Wrong(ClassOf(out, level, expect, t)) <=>
           \/ t \in expect.fail \cup expect.skip /\ StatusOf(out, level, t) = "passed"
           \/ t \notin expect.fail /\ StatusOf(out, level, t) = "failed"
<1> DEFINE status == StatusOf(out, level, t)
<1>1. status \in {"failed", "skipped", "passed", "absent"} /\ (status = "failed" <=> t \in Failing(out))
  BY StatusTells
<1>2. CASE t \in expect.fail \cup expect.skip
  <2>1. status # "absent" /\ ClassOf(out, level, expect, t) = Judge(status, t \in expect.fail)
    BY <1>2 DEF IsJudged, ClassOf
  <2>2. CASE t \in expect.fail
    <3>1. ClassOf(out, level, expect, t) = IF status = "passed" THEN "unexpected pass" ELSE "expected failure"
      <4>1. (t \in expect.fail) = TRUE
        BY <2>2
      <4> HIDE DEF status
      <4> QED
        BY <1>1, <2>1, <4>1, Judgements
    <3> QED
      BY <1>1, <2>1, <2>2, <3>1 DEF Wrong
  <2>3. CASE t \notin expect.fail
    <3>1. ClassOf(out, level, expect, t) = Judge(status, FALSE)
      <4>1. (t \in expect.fail) = FALSE
        BY <2>3
      <4> QED
        BY <2>1, <4>1
    <3> HIDE DEF status
    <3> QED
      BY <1>1, <1>2, <2>1, <2>3, <3>1 DEF Wrong, Judge, status
  <2> QED
    BY <2>2, <2>3
<1>3. CASE t \notin expect.fail \cup expect.skip
  BY <1>1, <1>3 DEF IsJudged, ClassOf, Wrong
<1> QED
  BY <1>2, <1>3

\* What a test that was asked for is found to be, and what one that is found to be
\* something was printed as.
LEMMA StatusOfOutcomes ==
  ASSUME NEW level, IsSuiteLevel(level), NEW out, IsOutcome(out, level), NEW t \in ShippedTests
  PROVE  /\ StatusOf(out, level, t) = "failed" <=> t \in Failing(out)
         /\ t \in Failing(out) <=> out[t] \cap {"failed", "env changed"} # {}
         /\ t \in Failing(out) => t \in Ranks(level)
         /\ out[t] = {"OK"} => t \in Ranks(level) /\ StatusOf(out, level, t) = "passed"
         /\ StatusOf(out, level, t) = "passed" => t \in Ranks(level) /\ (out[t] # {} => out[t] = {"OK"})
<1>1. t \in DOMAIN out /\ out[t] \subseteq BucketNames /\ (t \notin Ranks(level) => out[t] = {})
  BY DEF IsOutcome
<1>2. level = "full" \/ t \in Requested(level) <=> t \in Ranks(level)
  BY DEF Ranks, Requested, IsSuiteLevel
<1> DEFINE failing == out[t] \cap {"failed", "env changed"} # {}
           other   == out[t] \cap {"skipped", "omitted", "run no tests"} # {}
           status  == StatusOf(out, level, t)
<1>3. /\ t \in Failing(out) <=> failing
      /\ status = IF failing THEN "failed" ELSE IF other THEN "skipped" ELSE IF t \in Ranks(level) THEN "passed" ELSE "absent"
  BY <1>1, <1>2, StatusTells
<1>4. /\ status = "failed" <=> failing
      /\ status = "passed" <=> ~failing /\ ~other /\ t \in Ranks(level)
  BY <1>3
<1>5. failing => t \in Ranks(level)
  BY <1>1
<1>6. out[t] = {"OK"} => t \in Ranks(level) /\ ~failing /\ ~other
  BY <1>1
<1>7. ~failing /\ ~other /\ out[t] # {} => out[t] = {"OK"}
  BY <1>1 DEF BucketNames
<1> HIDE DEF failing, other, status
<1>8. /\ status = "failed" <=> t \in Failing(out)
      /\ t \in Failing(out) <=> failing
      /\ t \in Failing(out) => t \in Ranks(level)
      /\ out[t] = {"OK"} => t \in Ranks(level) /\ status = "passed"
      /\ status = "passed" => t \in Ranks(level) /\ (out[t] # {} => out[t] = {"OK"})
  BY <1>3, <1>4, <1>5, <1>6, <1>7
<1> QED
  BY <1>8 DEF failing, status

\* What is declared of an outcome, said with the two lists that apply.
LEMMA DeclaredTells ==
  ASSUME NEW j, IsRequest(j), NEW out
  PROVE  AsDeclared(j, out) <=>
           \A t \in Ranks(j.level) :
             /\ out[t] \cap {"failed", "env changed"} # {} => t \in Expect(j)["fail"]
             /\ t \in Expect(j)["fail"] \cup Expect(j)["skip"] => out[t] # {"OK"}
<1> DEFINE on(k) == k \in DOMAIN j.table /\ KeyApplies(k, j.interp.host)
<1>1. \A t : t \in Expect(j)["fail"] <=> \E k : on(k) /\ t \in j.table[k]["fail"]
  BY ListsThatApply
<1>2. \A t : t \in Expect(j)["skip"] <=> \E k : on(k) /\ t \in j.table[k]["skip"]
  BY ListsThatApply
<1>3. AsDeclared(j, out) <=>
        /\ \A t \in Ranks(j.level) : out[t] \cap {"failed", "env changed"} # {} => \E k : on(k) /\ t \in j.table[k]["fail"]
        /\ \A k : on(k) => \A t \in Ranks(j.level) \cap (j.table[k]["fail"] \cup j.table[k]["skip"]) : out[t] # {"OK"}
  BY DEF AsDeclared, Excused, Ranks
<1> HIDE DEF on
<1> QED
  BY <1>1, <1>2, <1>3

\* No verdict is wrong when and only when the outcome is as declared; only of the
\* tests that are listed and did not answer the classification thinks worse.
LEMMA RightVerdicts ==
  ASSUME NEW j, IsRequest(j), IsSuiteLevel(j.level), NEW out, IsOutcome(out, j.level)
  PROVE  /\ (\A v \in Classify(out, j.level, Expect(j)) : ~Wrong(v.class)) => AsDeclared(j, out)
         /\ AsDeclared(j, out) /\ (\A t \in Ranks(j.level) : out[t] # {})
              => \A v \in Classify(out, j.level, Expect(j)) : ~Wrong(v.class)
<1>1. PICK level, expect : level = j.level /\ expect = Expect(j)
  OBVIOUS
<1> DEFINE vs == Classify(out, level, expect)
           status(t) == StatusOf(out, level, t)
           lists == expect.fail \cup expect.skip
           wrong(t) == (t \in lists /\ status(t) = "passed") \/ (t \notin expect.fail /\ status(t) = "failed")
<1>2. \A t : t \in lists => t \in ShippedTests
  BY <1>1, ListsThatApply
<1>3. AsDeclared(j, out) <=>
        \A t \in Ranks(level) :
          /\ out[t] \cap {"failed", "env changed"} # {} => t \in expect.fail
          /\ t \in lists => out[t] # {"OK"}
  BY <1>1, DeclaredTells
<1>4. Ranks(level) \subseteq ShippedTests
  BY SuiteAssumption DEF Ranks
<1>5. \A t \in ShippedTests :
        /\ status(t) = "failed" <=> t \in Failing(out)
        /\ t \in Failing(out) <=> out[t] \cap {"failed", "env changed"} # {}
        /\ t \in Failing(out) => t \in Ranks(level)
        /\ out[t] = {"OK"} => t \in Ranks(level) /\ status(t) = "passed"
        /\ status(t) = "passed" => t \in Ranks(level) /\ (out[t] # {} => out[t] = {"OK"})
  BY <1>1, StatusOfOutcomes
<1>6. Failing(out) \subseteq ShippedTests
  BY DEF Failing, Bucket, IsOutcome
<1>0. \A t : VerdictOf(out, level, expect, t).class = ClassOf(out, level, expect, t)
  BY DEF VerdictOf
<1>7. \A v \in vs : \E t : IsJudged(out, level, expect, t) /\ v.class = ClassOf(out, level, expect, t)
  BY <1>0, OneVerdictEach
<1>8. \A t : IsJudged(out, level, expect, t) => \E v \in vs : v.class = ClassOf(out, level, expect, t)
  BY <1>0, OneVerdictEach
<1>9. \A t : IsJudged(out, level, expect, t) => (Wrong(ClassOf(out, level, expect, t)) <=> wrong(t))
  BY WrongOnes
<1>10. (\A v \in vs : ~Wrong(v.class)) <=> \A t : IsJudged(out, level, expect, t) => ~wrong(t)
  <2> HIDE DEF vs, wrong
  <2> QED
    BY <1>7, <1>8, <1>9
<1>11. \A t : IsJudged(out, level, expect, t) <=> IF t \in lists THEN status(t) # "absent" ELSE t \in Failing(out)
  BY DEF IsJudged
<1> HIDE DEF vs, status
<1>12. ASSUME \A v \in vs : ~Wrong(v.class) PROVE AsDeclared(j, out)
  <2> SUFFICES ASSUME NEW t \in Ranks(level)
               PROVE  /\ out[t] \cap {"failed", "env changed"} # {} => t \in expect.fail
                      /\ t \in lists => out[t] # {"OK"}
    BY <1>3
  <2>1. t \in ShippedTests /\ (IsJudged(out, level, expect, t) => ~wrong(t))
    BY <1>4, <1>10, <1>12
  <2> HIDE DEF lists
  <2>2. ASSUME t \in Failing(out) PROVE t \in expect.fail
    <3>1. status(t) = "failed"
      BY <1>5, <2>1, <2>2
    <3>2. IsJudged(out, level, expect, t)
      BY <1>11, <2>2, <3>1
    <3> QED
      BY <2>1, <3>1, <3>2
  <2>3. ASSUME t \in lists PROVE out[t] # {"OK"}
    <3>1. SUFFICES ASSUME out[t] = {"OK"} PROVE FALSE
      OBVIOUS
    <3>2. status(t) = "passed"
      BY <1>5, <2>1, <3>1
    <3>3. IsJudged(out, level, expect, t)
      BY <1>11, <2>3, <3>2
    <3> QED
      BY <2>1, <2>3, <3>2, <3>3
  <2> QED
    BY <1>5, <2>1, <2>2, <2>3
<1>13. ASSUME AsDeclared(j, out), \A t \in Ranks(level) : out[t] # {} PROVE \A v \in vs : ~Wrong(v.class)
  <2> SUFFICES ASSUME NEW t, IsJudged(out, level, expect, t), wrong(t) PROVE FALSE
    BY <1>10
  <2>1. CASE t \in lists /\ status(t) = "passed"
    BY <1>2, <1>3, <1>5, <1>13, <2>1
  <2>2. CASE t \notin expect.fail /\ status(t) = "failed"
    <3>1. t \in ShippedTests
      BY <1>2, <1>6, <1>11, <2>2
    <3> QED
      BY <1>3, <1>5, <1>13, <2>2, <3>1
  <2> QED
    BY <2>1, <2>2
<1> QED
  BY <1>1, <1>12, <1>13 DEF vs

LEMMA GreenSuites ==
  ASSUME NEW j, IsRequest(j), IsSuiteLevel(j.level), NEW run \in SuiteRuns(j.level)
  PROVE  /\ ReportOK(RunSuite(run, j)) =>
              /\ run.started /\ ~run.timedOut /\ AsDeclared(j, run.out)
              /\ j.level = "core" => \A t \in CoreTests : run.out[t] # {}
         /\ run.started /\ ~run.timedOut /\ AsDeclared(j, run.out) /\ (\A t \in Ranks(j.level) : run.out[t] # {})
              => ReportOK(RunSuite(run, j))
<1> DEFINE vs == Classify(run.out, j.level, Expect(j))
<1>1. IsOutcome(run.out, j.level) /\ run.started \in BOOLEAN /\ run.timedOut \in BOOLEAN
  BY OutcomesOfRuns
<1>2. ReportOK(RunSuite(run, j)) <=> run.started /\ CheckCoverage(run, j.level) /\ \A v \in vs : ~Wrong(v.class)
  <2>1. ReportOK(ClassReport(vs)) <=> \A v \in vs : ~Wrong(v.class)
    BY ClassesTell
  <2>2. ~ReportOK({<<"suite", "fail">>}) /\ ~ReportOK({<<"suite:coverage", "fail">>})
    BY OneCheck
  <2>3. RunSuite(run, j) = IF ~run.started THEN {<<"suite", "fail">>}
                           ELSE IF ~CheckCoverage(run, j.level) THEN {<<"suite:coverage", "fail">>} ELSE ClassReport(vs)
    BY DEF RunSuite
  <2> HIDE DEF vs
  <2>4. CASE ~run.started
    BY <2>2, <2>3, <2>4
  <2>5. CASE run.started /\ ~CheckCoverage(run, j.level)
    BY <2>2, <2>3, <2>5
  <2>6. CASE run.started /\ CheckCoverage(run, j.level)
    BY <2>1, <2>3, <2>6
  <2> QED
    BY <2>4, <2>5, <2>6
<1>3. /\ (\A v \in vs : ~Wrong(v.class)) => AsDeclared(j, run.out)
      /\ AsDeclared(j, run.out) /\ (\A t \in Ranks(j.level) : run.out[t] # {}) => \A v \in vs : ~Wrong(v.class)
  BY <1>1, RightVerdicts
<1>4. CheckCoverage(run, j.level) => ~run.timedOut
  BY DEF CheckCoverage
<1>5. CheckCoverage(run, j.level) /\ j.level = "core" => \A t \in CoreTests : run.out[t] # {}
  <2> SUFFICES ASSUME CheckCoverage(run, j.level), j.level = "core" PROVE \A t \in CoreTests : run.out[t] # {}
    OBVIOUS
  <2>1. IsOutcome(run.out, "core") /\ Accounted(run.out) >= Cardinality(Requested("core"))
    BY <1>1 DEF CheckCoverage
  <2> QED
    BY <2>1, CoverageIsComplete
<1>6. ~run.timedOut /\ (\A t \in Ranks(j.level) : run.out[t] # {}) => CheckCoverage(run, j.level)
  BY <1>1, CompleteIsCovered
<1> HIDE DEF vs
<1> QED
  BY <1>2, <1>3, <1>4, <1>5, <1>6

JudgedRight(verdicts, out, t) ==
  LET of == {v \in verdicts : v.test = t}
  IN  /\ Cardinality(of) <= 1
      /\ t \in Failing(out) => \E v \in of : v.class \in {"expected failure", "unexpected failure"}
      /\ out[t] = {"OK"} /\ of # {} => \A v \in of : v.class = "unexpected pass"

\* The verdicts on one test are one or none.
LEMMA EachIsJudgedOnce ==
  ASSUME NEW level, IsSuiteLevel(level), NEW out, IsOutcome(out, level), NEW expect, NEW t \in ShippedTests
  PROVE  JudgedRight(Classify(out, level, expect), out, t)
<1> DEFINE of == {v \in Classify(out, level, expect) : v.test = t}
           mine == VerdictOf(out, level, expect, t)
           class == ClassOf(out, level, expect, t)
           status == StatusOf(out, level, t)
<1>1. mine.test = t /\ mine.class = class
  BY DEF VerdictOf
<1>2. of = IF IsJudged(out, level, expect, t) THEN {mine} ELSE {}
  <2>1. \A v \in of : IsJudged(out, level, expect, t) /\ v = mine
    BY OneVerdictEach
  <2>2. IsJudged(out, level, expect, t) => mine \in of
    BY <1>1, OneVerdictEach
  <2> HIDE DEF of, mine
  <2> QED
    BY <2>1, <2>2
<1> HIDE DEF of, mine
<1>3. Cardinality(of) <= 1
  BY <1>2, FS_EmptySet, FS_Singleton
<1>4. /\ status = "failed" <=> t \in Failing(out)
      /\ out[t] = {"OK"} => status = "passed"
  BY StatusOfOutcomes
<1>5. ASSUME t \in Failing(out) PROVE IsJudged(out, level, expect, t) /\ class \in {"expected failure", "unexpected failure"}
  <2>1. status = "failed"
    BY <1>4, <1>5
  <2>2. Judge("failed", t \in expect.fail) \in {"expected failure", "unexpected failure"}
    BY DEF Judge
  <2> QED
    BY <1>5, <2>1, <2>2 DEF IsJudged, ClassOf
<1>6. ASSUME out[t] = {"OK"}, IsJudged(out, level, expect, t) PROVE class = "unexpected pass"
  <2>1. status = "passed" /\ t \notin Failing(out)
    BY <1>4, <1>6
  <2>2. Judge("passed", t \in expect.fail) = "unexpected pass"
    BY DEF Judge
  <2> QED
    BY <1>6, <2>1, <2>2 DEF IsJudged, ClassOf
<1> HIDE DEF class
<1>7. /\ t \in Failing(out) => \E v \in of : v.class \in {"expected failure", "unexpected failure"}
      /\ out[t] = {"OK"} /\ of # {} => \A v \in of : v.class = "unexpected pass"
  BY <1>1, <1>2, <1>5, <1>6
<1> QED
  BY <1>3, <1>7 DEF of, JudgedRight

--------------------------------------------------------------------------------
(* The command.                                                            *)

\* What is known of a verification while it is answered: what was asked for, what
\* was seen of the interpreter, and what stands in the report because of it.
Progress ==
  /\ phase \in {"idle", "planned", "probing", "testing", "answered"}
  /\ phase # "idle" => IsRequest(request)
  /\ phase \in {"idle", "planned", "probing"} => answers = Unseen
  /\ phase \in {"probing", "testing"} => ~request.skip /\ request.interp.exists /\ ReportOK(NewLauncher)
  /\ phase = "probing" => checks = CheckELF(request.interp) \cup NewLauncher
  /\ phase = "testing" =>
       /\ request.level # "smoke" /\ answers.probes \in ProbeRuns
       /\ answers = [probes |-> answers.probes, suite |-> Unseen.suite]
       /\ checks = CheckELF(request.interp) \cup NewLauncher \cup RunProbes(request.interp, answers.probes)
       /\ ReportOK(checks)

\* A report of checks that say pass, fail or skip.
Told(report) == \A c \in report : c[2] \in Statuses

\* What is stored and was not skipped stands for a run.
StoredIsProven ==
  \A l \in DOMAIN published :
    LET key == published[l].key
    IN  /\ Told(published[l].checks)
        /\ ~key.skipped => [interp |-> key.interp, level |-> key.level, expect |-> key.expect] \in proven

VerdictInv == Progress /\ StoredIsProven /\ VerdictsAreEarned

LEMMA ProvenStays ==
  ASSUME request' = request, NEW seen, answers' = seen
  PROVE  Proven(request, seen) <=> Proven(request, answers)'
<1>1. FileAsClaimed(request.interp) <=> FileAsClaimed(request.interp)'
  BY DEF FileAsClaimed
<1>2. AsDeclared(request, seen.suite.out) <=> AsDeclared(request, answers.suite.out)'
  <2>1. PICK ran : ran = IF request.level = "core" THEN CoreTests ELSE ShippedTests
    OBVIOUS
  <2>2. ran = IF request.level' = "core" THEN CoreTests ELSE ShippedTests
    BY <2>1
  <2> DEFINE on(k) == KeyApplies(k, request.interp.host)
             declared(out) ==
               /\ \A t \in ran : out[t] \cap {"failed", "env changed"} # {} =>
                    \E k \in DOMAIN request.table : on(k) /\ t \in request.table[k].fail
               /\ \A k \in {l \in DOMAIN request.table : on(l)} :
                    \A t \in ran \cap (request.table[k].fail \cup request.table[k].skip) : out[t] # {"OK"}
  <2>3. AsDeclared(request, seen.suite.out) <=> declared(seen.suite.out)
    BY <2>1 DEF AsDeclared, Excused
  <2>4. AsDeclared(request, answers.suite.out)' <=> declared(seen.suite.out)
    BY <2>2 DEF AsDeclared, Excused, KeyApplies
  <2> QED
    BY <2>3, <2>4
<1> QED
  BY <1>1, <1>2 DEF Proven

\* How a report is answered, and what is to be shown of it.
LEMMA Answers ==
  ASSUME Progress, StoredIsProven, VerdictTypeOK, phase # "idle", NEW report, NEW seen, Answer(report, seen), Told(report),
         seen # Unseen /\ ReportOK(report) => Proven(request, seen) /\ (request.level = "core" => Complete'),
         seen # Unseen /\ ~ReportOK(report) /\ Complete' => ~Proven(request, seen),
         ReportOK(report) /\ ~request.skip => Proven(request, seen),
         JudgedOnce'
  PROVE  VerdictInv'
<1>1. /\ phase' = "answered" /\ checks' = report /\ answers' = seen /\ request' = request
      /\ exit' = IF ReportOK(report) THEN 0 ELSE 1
      /\ published' = Stored(report)
  BY DEF Answer
<1>2. proven' = proven \cup {Finding(k) : k \in {l \in {request} : Proven(l, seen)}}
  BY DEF Answer
<1>3. proven \subseteq proven' /\ (Proven(request, seen) => Finding(request) \in proven')
  BY <1>2
<1>4. IsRequest(request) /\ IsRequest(request)'
  BY <1>1 DEF Progress, IsRequest
<1>5. Progress'
  BY <1>1, <1>4 DEF Progress
<1>6. ASSUME NEW l \in DOMAIN published'
      PROVE  \/ l \in DOMAIN published /\ published'[l] = published[l]
             \/ ReportOK(report) /\ l = request.level /\ published'[l] = [key |-> KeyInputs(request), checks |-> report]
  BY <1>1 DEF Stored, With
<1>7. KeyInputs(request).level = request.level /\ KeyInputs(request).skipped = request.skip
  BY DEF KeyInputs
<1>8. VerdictTypeOK'
  <2>1. \A l \in DOMAIN published' : published'[l].key.level = l /\ ReportOK(published'[l].checks)
    <3> TAKE l \in DOMAIN published'
    <3>1. CASE l \in DOMAIN published /\ published'[l] = published[l]
      BY <3>1 DEF VerdictTypeOK
    <3>2. CASE ReportOK(report) /\ l = request.level /\ published'[l] = [key |-> KeyInputs(request), checks |-> report]
      BY <1>7, <3>2
    <3> QED
      BY <1>6, <3>1, <3>2
  <2> QED
    BY <1>1, <2>1 DEF VerdictTypeOK, Told, ReportOK
<1>9. StoredIsProven'
  <2>0. \A l \in DOMAIN published' : Told(published'[l].checks)
    <3> TAKE l \in DOMAIN published'
    <3>1. CASE l \in DOMAIN published /\ published'[l] = published[l]
      BY <3>1 DEF StoredIsProven
    <3>2. CASE published'[l] = [key |-> KeyInputs(request), checks |-> report]
      BY <3>2
    <3> QED
      BY <1>6, <3>1, <3>2
  <2> SUFFICES ASSUME NEW l \in DOMAIN published', ~published'[l].key.skipped
               PROVE  [interp |-> published'[l].key.interp, level |-> published'[l].key.level,
                       expect |-> published'[l].key.expect] \in proven'
    BY <2>0 DEF StoredIsProven, Told
  <2>1. CASE l \in DOMAIN published /\ published'[l] = published[l]
    BY <1>3, <2>1 DEF StoredIsProven
  <2>2. CASE ReportOK(report) /\ l = request.level /\ published'[l] = [key |-> KeyInputs(request), checks |-> report]
    <3>1. Finding(request) \in proven'
      BY <1>3, <1>7, <2>2
    <3>2. Finding(request) = [interp |-> published'[l].key.interp, level |-> published'[l].key.level,
                              expect |-> published'[l].key.expect]
      BY <2>2 DEF Finding, KeyInputs
    <3> QED
      BY <3>1, <3>2
  <2> QED
    BY <1>6, <2>1, <2>2
<1>10. exit' = 0 <=> ReportOK(report)
  BY <1>1
<1>11. GreenIsEarned' /\ RedHasCause'
  <2>1. Proven(request, seen) <=> Proven(request, answers)'
    BY <1>1, ProvenStays
  <2> QED
    BY <1>1, <1>10, <2>1 DEF GreenIsEarned, RedHasCause, Ran
<1>12. ReportStandsForARun'
  <2>1. Finding(request)' = Finding(request)
    BY <1>1 DEF Finding, Expect
  <2> QED
    BY <1>1, <1>3, <1>10, <2>1 DEF ReportStandsForARun
<1> QED
  BY <1>5, <1>8, <1>9, <1>11, <1>12 DEF VerdictInv, VerdictsAreEarned

\* Every check tells pass, fail or skip.
LEMMA ChecksTell ==
  /\ Told(NewLauncher) /\ Told({<<"interpreter", "fail">>}) /\ Told({<<"verify", "skip">>})
  /\ \A i : Told(CheckELF(i))
  /\ \A i, run : Told(RunProbes(i, run))
  /\ \A run, j : Told(RunSuite(run, j))
  /\ \A a, b : Told(a) /\ Told(b) => Told(a \cup b)
<1>1. /\ \A a, b : Told(a) /\ Told(b) => Told(a \cup b)
      /\ \A name, status : status \in Statuses => Told({<<name, status>>})
      /\ Told({})
  <2>1. \A name, status : <<name, status>>[2] = status
    BY OneCheck
  <2> QED
    BY <2>1 DEF Told
<1>2. \A b : Said(b) \in Statuses
  BY DEF Said, Statuses
<1>3. "pass" \in Statuses /\ "fail" \in Statuses /\ "skip" \in Statuses
  BY DEF Statuses
<1>4. Told(NewLauncher) /\ Told({<<"interpreter", "fail">>}) /\ Told({<<"verify", "skip">>})
  BY <1>1, <1>2, <1>3 DEF NewLauncher
<1>5. ASSUME NEW i PROVE Told(CheckELF(i))
  <2>1. CASE ~i.readable
    BY <1>1, <1>3, <2>1 DEF CheckELF
  <2>2. CASE i.readable
    <3> DEFINE known == Target.machine # "unknown"
               bits == IF Target.bits # 0 /\ known THEN {<<"elf:bits", Said(i.bits = Target.bits)>>} ELSE {}
    <3>1. Told(bits)
      <4>1. CASE Target.bits # 0 /\ known
        BY <1>1, <1>2, <4>1
      <4>2. CASE ~(Target.bits # 0 /\ known)
        BY <1>1, <4>2
      <4> QED
        BY <4>1, <4>2
    <3>2. PICK a, m, sy : a = Said(i.static # i.host) /\ m = Said(known /\ i.machine = Target.machine)
                          /\ sy = IF i.host \/ i.stripped THEN "skip" ELSE Said(i.symbols)
      OBVIOUS
    <3>3. a \in Statuses /\ m \in Statuses /\ sy \in Statuses
      BY <1>2, <1>3, <3>2
    <3>4. CheckELF(i) = {<<"elf:readable", "pass">>, <<"elf:linkage", a>>, <<"elf:machine", m>>, <<"elf:symbol", sy>>} \cup bits
      BY <2>2, <3>2 DEF CheckELF
    <3> HIDE DEF bits
    <3>5. CheckELF(i) = {<<"elf:readable", "pass">>}
            \cup ({<<"elf:linkage", a>>} \cup ({<<"elf:machine", m>>} \cup ({<<"elf:symbol", sy>>} \cup bits)))
      BY <3>4
    <3>6. Told({<<"elf:symbol", sy>>} \cup bits)
      BY <1>1, <3>1, <3>3
    <3>7. Told({<<"elf:machine", m>>} \cup ({<<"elf:symbol", sy>>} \cup bits))
      BY <1>1, <3>3, <3>6
    <3>8. Told({<<"elf:linkage", a>>} \cup ({<<"elf:machine", m>>} \cup ({<<"elf:symbol", sy>>} \cup bits)))
      BY <1>1, <3>3, <3>7
    <3>9. PICK rest : rest = {<<"elf:linkage", a>>} \cup ({<<"elf:machine", m>>} \cup ({<<"elf:symbol", sy>>} \cup bits))
      OBVIOUS
    <3>10. CheckELF(i) = {<<"elf:readable", "pass">>} \cup rest
      BY <3>5, <3>9
    <3>11. Told(rest) /\ Told({<<"elf:readable", "pass">>})
      BY <1>1, <1>3, <3>8, <3>9
    <3> QED
      BY <1>1, <3>10, <3>11
  <2> QED
    BY <2>1, <2>2
<1>6. ASSUME NEW i, NEW run PROVE Told(RunProbes(i, run))
  <2>1. CASE ~run.started \/ run.printed = {}
    BY <1>1, <1>3, <2>1 DEF RunProbes
  <2>2. CASE ~(~run.started \/ run.printed = {})
    <3> DEFINE names == {<<p, Said(p \in run.printed /\ p \in i.works)>> : p \in ProbeNames}
    <3>1. RunProbes(i, run) = {<<"probe:startup", "pass">>} \cup names
      BY <2>2 DEF RunProbes
    <3>2. Told(names)
      <4> SUFFICES ASSUME NEW c \in names PROVE c[2] \in Statuses
        BY DEF Told
      <4>1. PICK p \in ProbeNames : c = <<p, Said(p \in run.printed /\ p \in i.works)>>
        OBVIOUS
      <4>2. c[2] = Said(p \in run.printed /\ p \in i.works)
        BY <4>1, OneCheck
      <4> QED
        BY <1>2, <4>2
    <3> HIDE DEF names
    <3> QED
      BY <1>1, <1>3, <3>1, <3>2
  <2> QED
    BY <2>1, <2>2
<1>7. ASSUME NEW run, NEW j PROVE Told(RunSuite(run, j))
  <2> DEFINE vs == Classify(run.out, j.level, Expect(j))
  <2>1. Told(ClassReport(vs))
    <3> SUFFICES ASSUME NEW c \in ClassReport(vs) PROVE c[2] \in Statuses
      BY DEF Told
    <3> HIDE DEF vs
    <3>1. \/ \E v \in vs : c = <<v.test, "fail">>
          \/ c = <<"suite:expected-failures", "pass">> \/ c = <<"suite:expected-skips", "skip">>
          \/ c = <<"suite:result", "pass">>
      BY DEF ClassReport
    <3> QED
      BY <1>3, <3>1, OneCheck
  <2>2. Told({<<"suite", "fail">>}) /\ Told({<<"suite:coverage", "fail">>})
    BY <1>1, <1>3
  <2>3. RunSuite(run, j) = IF ~run.started THEN {<<"suite", "fail">>}
                           ELSE IF ~CheckCoverage(run, j.level) THEN {<<"suite:coverage", "fail">>} ELSE ClassReport(vs)
    BY DEF RunSuite
  <2> HIDE DEF vs
  <2> QED
    BY <2>1, <2>2, <2>3
<1> QED
  BY <1>1, <1>4, <1>5, <1>6, <1>7

\* What was not run and is not answered has nothing to show.
LEMMA NothingRan ==
  ASSUME VerdictInv, phase' # "answered", published' = published, proven' = proven,
         checks' = checks \/ Told(checks'), Progress'
  PROVE  VerdictInv'
<1>1. VerdictTypeOK'
  BY DEF VerdictInv, VerdictsAreEarned, VerdictTypeOK, Told, Progress
<1>2. StoredIsProven'
  BY DEF VerdictInv, StoredIsProven
<1>3. ~Ran'
  BY DEF Ran
<1> QED
  BY <1>1, <1>2, <1>3 DEF VerdictInv, VerdictsAreEarned, GreenIsEarned, RedHasCause, ReportStandsForARun, JudgedOnce, Ran

\* A verification that is not answered, or that ran nothing, is known for what it is.
LEMMA AnswersUnseen ==
  ASSUME VerdictInv, phase # "idle", NEW report, Answer(report, Unseen), Told(report), ReportOK(report) => request.skip
  PROVE  VerdictInv'
<1>1. answers' = Unseen
  BY DEF Answer
<1>2. JudgedOnce'
  BY <1>1 DEF JudgedOnce, Ran
<1> QED
  BY <1>2, Answers DEF VerdictInv, VerdictsAreEarned

LEMMA Probing ==
  ASSUME VerdictInv, NEW run \in ProbeRuns, Probe(run)
  PROVE  VerdictInv'
<1> DEFINE i == request.interp
           report == checks \cup RunProbes(i, run)
           seen == [answers EXCEPT !.probes = run]
<1>1. /\ phase = "probing" /\ IsRequest(request) /\ ~request.skip /\ i.exists /\ ReportOK(NewLauncher)
      /\ answers = Unseen /\ checks = CheckELF(i) \cup NewLauncher
  BY DEF Probe, VerdictInv, Progress
<1>2. seen = [probes |-> run, suite |-> Unseen.suite]
  <2>1. PICK a, b : Unseen = [probes |-> a, suite |-> b]
    BY DEF Unseen
  <2> QED
    BY <1>1, <2>1
<1>3. Told(report)
  BY <1>1, ChecksTell
<1>4. ReportOK(report) <=> FileAsClaimed(i) /\ ProbeNames \subseteq i.works \cap run.printed
  <2>1. i \in Interpreters
    BY <1>1 DEF IsRequest
  <2>2. ReportOK(CheckELF(i)) <=> FileAsClaimed(i)
    BY <1>1, <2>1, FileChecks
  <2>3. ReportOK(RunProbes(i, run)) <=> ProbeNames \subseteq i.works \cap run.printed
    BY ProbeChecks
  <2> QED
    BY <1>1, <2>2, <2>3, ReportsAdd
<1>5. CASE request.level = "smoke" \/ ~ReportOK(report)
  <2>1. Answer(report, seen)
    BY <1>5 DEF Probe
  <2>2. answers' = seen /\ request' = request
    BY <2>1 DEF Answer
  <2>3. ~seen.suite.started
    BY <1>2 DEF Unseen
  <2>4. JudgedOnce'
    BY <2>2, <2>3 DEF JudgedOnce
  <2>5. Proven(request, seen) => ReportOK(report)
    BY <1>2, <1>4 DEF Proven
  <2>6. ReportOK(report) => Proven(request, seen)
    BY <1>2, <1>4, <1>5 DEF Proven
  <2>7. request.level = "core" => ~ReportOK(report)
    BY <1>5
  <2> HIDE DEF report, seen, i
  <2>8. VerdictTypeOK /\ StoredIsProven /\ Progress /\ phase # "idle"
    BY <1>1 DEF VerdictInv, VerdictsAreEarned
  <2>9. /\ seen # Unseen /\ ReportOK(report) => Proven(request, seen) /\ (request.level = "core" => Complete')
        /\ seen # Unseen /\ ~ReportOK(report) /\ Complete' => ~Proven(request, seen)
        /\ ReportOK(report) /\ ~request.skip => Proven(request, seen)
    BY <2>5, <2>6, <2>7
  <2> QED
    BY <1>3, <2>1, <2>4, <2>8, <2>9, Answers
<1>6. CASE ~(request.level = "smoke" \/ ~ReportOK(report))
  <2>1. /\ checks' = report /\ answers' = seen /\ phase' = "testing"
        /\ UNCHANGED <<request, published, exit, proven, verifies>>
    BY <1>6 DEF Probe
  <2>2. Told(checks')
    BY <1>3, <2>1
  <2>3. answers'.probes = run /\ answers'.suite = Unseen.suite
    BY <1>2, <2>1
  <2>4. IsRequest(request')
    BY <1>1, <2>1
  <2>5. Progress'
    BY <1>1, <1>2, <1>6, <2>1, <2>3, <2>4 DEF Progress
  <2> QED
    BY <2>1, <2>2, <2>5, NothingRan
<1> QED
  BY <1>5, <1>6

LEMMA Testing ==
  ASSUME VerdictInv, NEW run \in SuiteRuns(request.level), Test(run)
  PROVE  VerdictInv'
<1> DEFINE i == request.interp
           suite == RunSuite(run, request)
           report == checks \cup suite
           seen == [answers EXCEPT !.suite = run]
           level == request.level
<1>1. /\ phase = "testing" /\ IsRequest(request) /\ IsSuiteLevel(level) /\ i.exists /\ ReportOK(checks)
      /\ answers.probes \in ProbeRuns
      /\ checks = CheckELF(i) \cup NewLauncher \cup RunProbes(i, answers.probes)
      /\ answers = [probes |-> answers.probes, suite |-> Unseen.suite]
  BY DEF Test, VerdictInv, Progress, IsRequest, IsSuiteLevel
<1>2. seen.probes = answers.probes /\ seen.suite = run
  BY <1>1
<1>3. Told(report)
  <2>1. Told(checks)
    BY <1>1, ChecksTell
  <2> QED
    BY <2>1, ChecksTell
<1>4. FileAsClaimed(i) /\ ProbeNames \subseteq i.works \cap seen.probes.printed
  <2>1. i \in Interpreters
    BY <1>1 DEF IsRequest
  <2>2. ReportOK(CheckELF(i)) <=> FileAsClaimed(i)
    BY <1>1, <2>1, FileChecks
  <2>3. ReportOK(RunProbes(i, answers.probes)) <=> ProbeNames \subseteq i.works \cap answers.probes.printed
    BY <1>1, ProbeChecks
  <2>4. ReportOK(CheckELF(i)) /\ ReportOK(RunProbes(i, answers.probes))
    BY <1>1, ReportsAdd
  <2> QED
    BY <1>2, <2>2, <2>3, <2>4
<1>5. ReportOK(report) <=> ReportOK(suite)
  BY <1>1, ReportsAdd
<1>6. /\ ReportOK(suite) =>
           /\ run.started /\ ~run.timedOut /\ AsDeclared(request, run.out)
           /\ level = "core" => \A t \in CoreTests : run.out[t] # {}
      /\ run.started /\ ~run.timedOut /\ AsDeclared(request, run.out) /\ (\A t \in Ranks(level) : run.out[t] # {})
           => ReportOK(suite)
  BY <1>1, GreenSuites
<1>7. IsOutcome(run.out, level)
  BY OutcomesOfRuns
<1>8. Proven(request, seen) <=> run.started /\ ~run.timedOut /\ AsDeclared(request, run.out)
  BY <1>1, <1>2, <1>4 DEF Proven, IsSuiteLevel
<1>9. Answer(report, seen)
  BY DEF Test
<1>10. phase' = "answered" /\ answers' = seen /\ request' = request
  BY <1>9 DEF Answer
<1>11. Complete' <=> (~run.started \/ \A t \in Ranks(level) : run.out[t] # {})
  BY <1>2, <1>10 DEF Complete, Ranks
<1>12. JudgedOnce'
  <2>1. Expect(request)' = Expect(request)
    BY <1>10 DEF Expect
  <2>2. PICK expect : expect = Expect(request)
    OBVIOUS
  <2>3. ASSUME NEW t \in ShippedTests PROVE JudgedRight(Classify(run.out, level, expect), run.out, t)
    BY <1>1, <1>7, EachIsJudgedOnce
  <2>4. answers'.suite.out = run.out /\ request'.level = level /\ Expect(request)' = expect
    BY <1>2, <1>10, <2>1, <2>2
  <2> HIDE DEF seen, level
  <2>5. PICK out, verdicts : out = run.out /\ verdicts = Classify(run.out, level, expect)
    OBVIOUS
  <2>6. \A t \in ShippedTests : JudgedRight(verdicts, out, t)
    BY <2>3, <2>5
  <2>7. answers'.suite.out = out /\ Classify(out, request'.level, Expect(request)') = verdicts
    BY <2>4, <2>5
  <2>8. SUFFICES ASSUME NEW t \in ShippedTests
                 PROVE  LET of == {v \in verdicts : v.test = t}
                        IN  /\ Cardinality(of) <= 1
                            /\ t \in Failing(out) => \E v \in of : v.class \in {"expected failure", "unexpected failure"}
                            /\ out[t] = {"OK"} /\ of # {} => \A v \in of : v.class = "unexpected pass"
    BY <2>7 DEF JudgedOnce
  <2> QED
    BY <2>6 DEF JudgedRight
<1>13. /\ seen # Unseen /\ ReportOK(report) => Proven(request, seen) /\ (request.level = "core" => Complete')
       /\ seen # Unseen /\ ~ReportOK(report) /\ Complete' => ~Proven(request, seen)
       /\ ReportOK(report) /\ ~request.skip => Proven(request, seen)
  <2>1. level = "core" => Ranks(level) = CoreTests
    BY DEF Ranks
  <2> HIDE DEF seen, report, suite
  <2> QED
    BY <1>5, <1>6, <1>8, <1>11, <2>1
<1>14. VerdictTypeOK /\ StoredIsProven /\ Progress /\ phase # "idle"
  BY <1>1 DEF VerdictInv, VerdictsAreEarned
<1> HIDE DEF seen, report
<1> QED
  BY <1>3, <1>9, <1>12, <1>13, <1>14, Answers

\* Of any interpreter that answers a probe or a test suite in any way, under any
\* expectations: what is reported is what was observed, and a verdict that is read
\* back from the cache was proven for that very interpreter.
THEOREM ReportsAreEarned == VerdictSpec => []VerdictsAreEarned
<1>1. VerdictInit => VerdictInv
  <2> SUFFICES ASSUME VerdictInit PROVE VerdictInv
    OBVIOUS
  <2>1. phase = "idle" /\ checks = {} /\ answers = Unseen /\ DOMAIN published = {}
    BY DEF VerdictInit
  <2> QED
    BY <2>1 DEF VerdictInv, Progress, StoredIsProven, VerdictsAreEarned, VerdictTypeOK, GreenIsEarned, RedHasCause,
                ReportStandsForARun, JudgedOnce, Ran
<1>2. VerdictInv /\ [VerdictNext]_verdictVars => VerdictInv'
  <2> SUFFICES ASSUME VerdictInv, [VerdictNext]_verdictVars PROVE VerdictInv'
    OBVIOUS
  <2>1. ASSUME NEW i \in Interpreters, NEW l \in {"smoke", "core", "full"}, NEW x \in Expectations, NEW s \in BOOLEAN,
               Ask(i, l, x, s)
        PROVE  VerdictInv'
    <3>1. IsRequest(request')
      <4>1. PICK b : b = s
        OBVIOUS
      <4>2. request' = [interp |-> i, level |-> l, table |-> x, skip |-> b]
        BY <2>1, <4>1 DEF Ask
      <4>3. request'.interp = i /\ request'.level = l /\ request'.table = x
        BY <4>2
      <4>4. request'.skip \in BOOLEAN
        BY <4>1, <4>2, Zenon
      <4> QED
        BY <4>3, <4>4 DEF IsRequest
    <3>2. phase' = "planned" /\ checks' = {} /\ answers' = Unseen /\ published' = published /\ proven' = proven
      BY <2>1 DEF Ask
    <3>3. Progress' /\ Told(checks')
      BY <3>1, <3>2 DEF Progress, Told
    <3> QED
      BY <3>2, <3>3, NothingRan
  <2>2. CASE Reuse
    <3>1. /\ phase = "planned" /\ Valid(request) /\ phase' = "answered" /\ answers' = answers /\ request' = request
          /\ checks' = published[request.level].checks /\ exit' = IF ReportOK(checks') THEN 0 ELSE 1
          /\ published' = published /\ proven' = proven
      BY <2>2 DEF Reuse
    <3>2. answers = Unseen /\ Progress'
      BY <3>1 DEF VerdictInv, Progress
    <3>3. request.level \in DOMAIN published /\ published[request.level].key = KeyInputs(request)
      BY <3>1 DEF Valid
    <3>4. Told(checks') /\ VerdictTypeOK /\ StoredIsProven
      BY <3>1, <3>3 DEF VerdictInv, VerdictsAreEarned, StoredIsProven
    <3>5. VerdictTypeOK' /\ StoredIsProven'
      BY <3>1, <3>4 DEF VerdictTypeOK, StoredIsProven, Told
    <3>6. ~request.skip => Finding(request) \in proven
      <4>1. KeyInputs(request).skipped = request.skip
        BY DEF KeyInputs
      <4>2. Finding(request) = [interp |-> KeyInputs(request).interp, level |-> KeyInputs(request).level,
                                expect |-> KeyInputs(request).expect]
        BY DEF Finding, KeyInputs
      <4> QED
        BY <3>3, <3>4, <4>1, <4>2 DEF StoredIsProven
    <3>7. Finding(request)' = Finding(request)
      BY <3>1 DEF Finding, Expect
    <3> QED
      BY <3>1, <3>2, <3>5, <3>6, <3>7
      DEF VerdictInv, VerdictsAreEarned, GreenIsEarned, RedHasCause, ReportStandsForARun, JudgedOnce, Ran
  <2>3. CASE SkipVerify
    <3>1. phase = "planned" /\ request.skip /\ Answer({<<"verify", "skip">>}, answers)
      BY <2>3 DEF SkipVerify
    <3>2. answers = Unseen
      BY <3>1 DEF VerdictInv, Progress
    <3>3. Answer({<<"verify", "skip">>}, Unseen)
      BY <3>1, <3>2
    <3>4. phase # "idle"
      BY <3>1
    <3>5. Told({<<"verify", "skip">>})
      BY ChecksTell
    <3> QED
      BY <3>1, <3>3, <3>4, <3>5, AnswersUnseen
  <2>4. CASE Inspect
    <3> DEFINE report == CheckELF(request.interp) \cup NewLauncher
    <3>1. phase = "planned" /\ ~request.skip /\ answers = Unseen /\ phase # "idle"
      BY <2>4 DEF Inspect, VerdictInv, Progress
    <3>2. Told(report)
      BY ChecksTell
    <3>3. CASE ~request.interp.exists
      <4>1. Answer({<<"interpreter", "fail">>}, Unseen)
        BY <2>4, <3>1, <3>3 DEF Inspect
      <4>2. ~ReportOK({<<"interpreter", "fail">>}) /\ Told({<<"interpreter", "fail">>})
        BY OneCheck, ChecksTell
      <4> QED
        BY <3>1, <4>1, <4>2, AnswersUnseen
    <3>4. CASE request.interp.exists /\ ~ReportOK(NewLauncher)
      <4>1. Answer(report, Unseen)
        BY <2>4, <3>1, <3>4 DEF Inspect
      <4>2. ~ReportOK(report)
        BY <3>4, ReportsAdd
      <4> HIDE DEF report
      <4> QED
        BY <3>1, <3>2, <4>1, <4>2, AnswersUnseen
    <3>5. CASE request.interp.exists /\ ReportOK(NewLauncher)
      <4>1. checks' = report /\ phase' = "probing" /\ UNCHANGED <<request, answers, published, exit, proven, verifies>>
        BY <2>4, <3>5 DEF Inspect
      <4>2. IsRequest(request')
        BY <3>1, <4>1 DEF VerdictInv, Progress
      <4>3. Progress'
        BY <3>1, <3>5, <4>1, <4>2 DEF Progress
      <4> QED
        BY <3>2, <4>1, <4>3, NothingRan
    <3> QED
      BY <3>3, <3>4, <3>5
  <2>5. ASSUME NEW run \in ProbeRuns, Probe(run) PROVE VerdictInv'
    BY <2>5, Probing
  <2>6. ASSUME NEW run \in SuiteRuns(request.level), Test(run) PROVE VerdictInv'
    BY <2>6, Testing
  <2>7. CASE Return
    <3>1. phase' = "idle" /\ checks' = {} /\ answers' = Unseen /\ published' = published /\ proven' = proven
      BY <2>7 DEF Return
    <3>2. Progress' /\ Told(checks')
      BY <3>1 DEF Progress, Told
    <3> QED
      BY <3>1, <3>2, NothingRan
  <2>8. CASE UNCHANGED verdictVars
    <3>1. Progress'
      <4>1. IsRequest(request) => IsRequest(request')
        BY <2>8 DEF verdictVars
      <4> QED
        BY <2>8, <4>1 DEF verdictVars, VerdictInv, Progress
    <3>2. VerdictTypeOK' /\ StoredIsProven'
      BY <2>8 DEF verdictVars, VerdictInv, VerdictsAreEarned, VerdictTypeOK, StoredIsProven
    <3>3. CASE phase # "answered"
      BY <2>8, <3>1, <3>3, NothingRan DEF verdictVars
    <3>4. CASE phase = "answered"
      <4>1. UNCHANGED verdictVars /\ request' = request /\ answers' = answers /\ GreenIsEarned /\ RedHasCause
            /\ ReportStandsForARun /\ JudgedOnce
        BY <2>8 DEF verdictVars, VerdictInv, VerdictsAreEarned
      <4>2. (Proven(request, answers) <=> Proven(request, answers)') /\ Expect(request)' = Expect(request)
            /\ Finding(request)' = Finding(request)
        BY <4>1, ProvenStays DEF Expect, Finding
      <4>3. (Complete' <=> Complete) /\ (Ran' <=> Ran)
        BY <4>1 DEF verdictVars, Complete, Ran
      <4>4. GreenIsEarned' /\ RedHasCause'
        BY <4>1, <4>2, <4>3 DEF verdictVars, GreenIsEarned, RedHasCause
      <4>5. ReportStandsForARun'
        BY <4>1, <4>2 DEF verdictVars, ReportStandsForARun
      <4>6. JudgedOnce'
        BY <4>1, <4>2, <4>3 DEF verdictVars, JudgedOnce
      <4> QED
        BY <3>1, <3>2, <4>4, <4>5, <4>6 DEF VerdictInv, VerdictsAreEarned
    <3> QED
      BY <3>3, <3>4
  <2> QED
    BY <2>1, <2>2, <2>3, <2>4, <2>5, <2>6, <2>7, <2>8 DEF VerdictNext
<1>3. VerdictInv => VerdictsAreEarned
  BY DEF VerdictInv
<1> QED
  BY <1>1, <1>2, <1>3, PTL DEF VerdictSpec

(***************************************************************************)
(* The configuration.                                                      *)
(***************************************************************************)

\* What is left of a list, in its order.
LEMMA WithoutIs ==
  ASSUME NEW list \in Seq(STRING), NEW drop \in Seq(STRING)
  PROVE  Without(list, drop) \in Seq(STRING) /\ ToSet(Without(list, drop)) = ToSet(list) \ ToSet(drop)
<1> DEFINE gone == ToSet(drop)
           OneMore(i, u) == IF list[i] \in gone THEN u ELSE Append(u, list[i])
           step == [i \in 1..Len(list) |-> [u \in Seq(STRING) |-> OneMore(i, u)]]
           Steps(f) == f = [i \in 0..Len(list) |-> IF i = 0 THEN <<>> ELSE OneMore(i, f[i - 1])]
           it == CHOOSE f : Steps(f)
<1>1. Len(list) \in Nat /\ <<>> \in Seq(STRING)
  OBVIOUS
<1>2. step \in [1..Len(list) -> [Seq(STRING) -> Seq(STRING)]]
  <2>1. ASSUME NEW i \in 1..Len(list), NEW u \in Seq(STRING) PROVE OneMore(i, u) \in Seq(STRING)
    <3>1. list[i] \in STRING
      OBVIOUS
    <3>2. Append(u, list[i]) \in Seq(STRING)
      BY <3>1
    <3> HIDE DEF gone
    <3> QED
      BY <3>2
  <2> HIDE DEF OneMore
  <2> QED
    BY <2>1
<1>3. PICK g \in [0..Len(list) -> Seq(STRING)] : g[0] = <<>> /\ \A i \in 1..Len(list) : g[i] = step[i][g[i - 1]]
  <2>1. PICK n : n = Len(list)
    OBVIOUS
  <2>2. n \in Nat /\ <<>> \in Seq(STRING) /\ step \in [1..n -> [Seq(STRING) -> Seq(STRING)]]
    BY <1>1, <1>2, <2>1
  <2> HIDE DEF step
  <2>3. \E g \in [0..n -> Seq(STRING)] : Walk(g, n, <<>>, step)
    BY ONLY <2>2, Iterates
  <2> QED
    BY <2>1, <2>3 DEF Walk
<1>4. ASSUME NEW i \in 1..Len(list) PROVE g[i] = OneMore(i, g[i - 1]) /\ i - 1 \in 0..Len(list)
  <2>1. i - 1 \in 0..Len(list)
    BY <1>1
  <2>2. g[i - 1] \in Seq(STRING)
    BY ONLY <2>1, g \in [0..Len(list) -> Seq(STRING)]
  <2>3. g[i] = step[i][g[i - 1]]
    BY <1>3
  <2> HIDE DEF OneMore
  <2> QED
    BY <2>1, <2>2, <2>3
<1>5. Steps(g)
  <2> HIDE DEF OneMore
  <2>1. \A i \in 0..Len(list) : g[i] = IF i = 0 THEN <<>> ELSE OneMore(i, g[i - 1])
    BY <1>1, <1>3, <1>4
  <2> QED
    BY <2>1
<1>6. Steps(it)
  <2> HIDE DEF Steps
  <2> QED
    BY <1>5
<1>7. PICK h : h = it
  OBVIOUS
<1>8. Steps(h)
  BY <1>6, <1>7
<1>9. h[Len(list)] = g[Len(list)]
  <2> HIDE DEF OneMore
  <2>1. h[0] = g[0]
    BY <1>1, <1>3, <1>8
  <2>2. ASSUME NEW i \in 1..Len(list) PROVE h[i] = OneMore(i, h[i - 1])
    <3>1. i \in 0..Len(list) /\ i # 0
      BY <1>1
    <3> QED
      BY <1>8, <3>1
  <2>3. \A i \in 1..Len(list) : h[i - 1] = g[i - 1] => h[i] = g[i]
    BY <1>4, <2>2
  <2> DEFINE Same == {i \in 0..Len(list) : h[i] = g[i]}
  <2>4. 0 \in Same /\ \A i \in 1..Len(list) : i - 1 \in Same => i \in Same
    BY <1>1, <2>1, <2>3
  <2>5. \A i \in 0..Len(list) : i \in Same
    <3> HIDE DEF Same
    <3> QED
      BY <1>1, <2>4, AllTheWay
  <2> QED
    BY <1>1, <2>5
<1>10. Without(list, drop) = g[Len(list)]
  BY <1>7, <1>9 DEF Without
<1> DEFINE Upto(i) == {list[k] : k \in 1..i}
           S == {i \in 0..Len(list) : ToSet(g[i]) = Upto(i) \ gone}
<1>11. 0 \in S
  <2>1. ToSet(<<>>) = {} /\ Upto(0) = {}
    BY DEF ToSet
  <2> QED
    BY <1>1, <1>3, <2>1
<1>12. ASSUME NEW i \in 1..Len(list), i - 1 \in S PROVE i \in S
  <2>1. PICK u : u = g[i - 1]
    OBVIOUS
  <2>2. u \in Seq(STRING) /\ list[i] \in STRING /\ ToSet(u) = Upto(i - 1) \ gone
    BY <1>4, <1>12, <2>1
  <2>3. Upto(i) = Upto(i - 1) \cup {list[i]}
    <3>1. 1..i = 1..(i - 1) \cup {i}
      BY <1>1
    <3> QED
      BY <3>1
  <2>4. ToSet(Append(u, list[i])) = ToSet(u) \cup {list[i]}
    <3>1. /\ DOMAIN Append(u, list[i]) = 1..(Len(u) + 1) /\ DOMAIN u = 1..Len(u) /\ Len(u) \in Nat
          /\ \A k \in 1..Len(u) : Append(u, list[i])[k] = u[k]
          /\ Append(u, list[i])[Len(u) + 1] = list[i]
      BY <2>2
    <3>2. 1..(Len(u) + 1) = 1..Len(u) \cup {Len(u) + 1}
      BY <3>1
    <3> QED
      BY <3>1, <3>2 DEF ToSet
  <2>5. g[i] = IF list[i] \in gone THEN u ELSE Append(u, list[i])
    BY <1>4, <2>1
  <2>6. ToSet(g[i]) = Upto(i) \ gone
    <3> HIDE DEF Upto, gone
    <3>1. CASE list[i] \in gone
      BY <2>2, <2>3, <2>5, <3>1
    <3>2. CASE list[i] \notin gone
      BY <2>2, <2>3, <2>4, <2>5, <3>2
    <3> QED
      BY <3>1, <3>2
  <2>7. i \in 0..Len(list)
    BY <1>1
  <2> QED
    BY <2>6, <2>7
<1>13. Len(list) \in S
  <2>1. \A i \in 1..Len(list) : i - 1 \in S => i \in S
    BY <1>12
  <2> HIDE DEF S
  <2>2. \A i \in 0..Len(list) : i \in S
    BY <1>1, <1>11, <2>1, AllTheWay
  <2> QED
    BY <1>1, <2>2
<1>14. Upto(Len(list)) = ToSet(list)
  BY DEF ToSet
<1> QED
  <2>1. Len(list) \in 0..Len(list)
    BY <1>1
  <2>2. g[Len(list)] \in Seq(STRING)
    BY ONLY <2>1, g \in [0..Len(list) -> Seq(STRING)]
  <2> QED
    BY <1>10, <1>13, <1>14, <2>2

\* What resolution works with.
Words == STRING \cup {Unset, "none", "removal", "provisioned"}
Resolveds == [err : Words, flags : Seq(STRING), bundle : Words, ltoMode : Words, toolchain : Words]

\* What two lists hold, one after the other.
LEMMA ConcatIs ==
  ASSUME NEW V, NEW s \in Seq(V), NEW t \in Seq(V)
  PROVE  s \o t \in Seq(V) /\ ToSet(s \o t) = ToSet(s) \cup ToSet(t)
<1>1. /\ s \o t \in Seq(V) /\ Len(s \o t) = Len(s) + Len(t) /\ Len(s) \in Nat /\ Len(t) \in Nat
      /\ \A i \in 1..(Len(s) + Len(t)) : (s \o t)[i] = IF i <= Len(s) THEN s[i] ELSE t[i - Len(s)]
  OBVIOUS
<1>2. DOMAIN s = 1..Len(s) /\ DOMAIN t = 1..Len(t) /\ DOMAIN (s \o t) = 1..(Len(s) + Len(t))
  BY <1>1
<1>3. ToSet(s \o t) \subseteq ToSet(s) \cup ToSet(t)
  <2> SUFFICES ASSUME NEW i \in 1..(Len(s) + Len(t)) PROVE (s \o t)[i] \in ToSet(s) \cup ToSet(t)
    BY <1>2 DEF ToSet
  <2>1. CASE i <= Len(s)
    BY <1>1, <1>2, <2>1 DEF ToSet
  <2>2. CASE ~(i <= Len(s))
    <3>1. i - Len(s) \in 1..Len(t)
      BY <1>1, <2>2
    <3> QED
      BY <1>1, <1>2, <2>2, <3>1 DEF ToSet
  <2> QED
    BY <2>1, <2>2
<1>4. ToSet(s) \subseteq ToSet(s \o t)
  <2>1. \A i \in 1..Len(s) : i \in 1..(Len(s) + Len(t)) /\ (s \o t)[i] = s[i]
    BY <1>1
  <2> QED
    BY <1>2, <2>1 DEF ToSet
<1>5. ToSet(t) \subseteq ToSet(s \o t)
  <2>1. ASSUME NEW i \in 1..Len(t)
        PROVE  Len(s) + i \in 1..(Len(s) + Len(t)) /\ (s \o t)[Len(s) + i] = t[i]
    <3>1. Len(s) + i \in 1..(Len(s) + Len(t)) /\ ~(Len(s) + i <= Len(s)) /\ Len(s) + i - Len(s) = i
      BY <1>1
    <3> QED
      BY <1>1, <3>1
  <2> QED
    BY <1>2, <2>1 DEF ToSet
<1> QED
  BY <1>1, <1>3, <1>4, <1>5

\* The flags that a layer starts from: those it sets, or those of the wider one.
LEMMA BaseIs ==
  ASSUME NEW r \in Resolveds, NEW l, LayerShape(l)
  PROVE  /\ BaseOf(r, l) \in Seq(STRING)
         /\ l.set = {} => BaseOf(r, l) = r.flags
         /\ l.set # {} => l.set = {BaseOf(r, l)}
<1>1. CASE l.set = {}
  BY <1>1 DEF BaseOf, Resolveds
<1>2. CASE l.set # {}
  <2>1. BaseOf(r, l) = CHOOSE list \in l.set : TRUE
    BY <1>2 DEF BaseOf
  <2>2. PICK list \in l.set : TRUE
    BY <1>2
  <2>3. l.set = {list} /\ list \in Seq(STRING)
    BY <2>2 DEF LayerShape
  <2>4. BaseOf(r, l) = list
    BY <2>1, <2>3
  <2> QED
    BY <1>2, <2>3, <2>4
<1> QED
  BY <1>1, <1>2

\* What a layer makes of what the wider ones gave.
LEMMA ApplyIs ==
  ASSUME NEW r \in Resolveds, NEW l, LayerShape(l)
  PROVE  /\ Apply(r, l) \in Resolveds /\ Apply(r, l).bundle = Override(r.bundle, l.bundle)
         /\ ToSet(Apply(r, l).flags) = (ToSet(BaseOf(r, l)) \ ToSet(l.drop)) \cup ToSet(l.add)
<1>1. PICK base : base = BaseOf(r, l)
  OBVIOUS
<1>2. base \in Seq(STRING) /\ l.drop \in Seq(STRING) /\ l.add \in Seq(STRING)
  BY <1>1, BaseIs DEF LayerShape
<1>3. PICK kept : kept = Without(base, l.drop)
  OBVIOUS
<1>4. kept \in Seq(STRING) /\ ToSet(kept) = ToSet(base) \ ToSet(l.drop)
  BY <1>2, <1>3, WithoutIs
<1>5. kept \o l.add \in Seq(STRING) /\ ToSet(kept \o l.add) = ToSet(kept) \cup ToSet(l.add)
  BY <1>2, <1>4, ConcatIs
<1>6. PICK e \in Words : e = IF r.err = "none" /\ ~Removable(base, l.drop) THEN "removal" ELSE r.err
  <2>1. r.err \in Words /\ "removal" \in Words
    BY DEF Resolveds, Words
  <2>2. CASE r.err = "none" /\ ~Removable(base, l.drop)
    BY <2>1, <2>2, Zenon
  <2>3. CASE ~(r.err = "none" /\ ~Removable(base, l.drop))
    BY <2>1, <2>3, Zenon
  <2> QED
    BY <2>2, <2>3
<1>7. /\ Override(r.bundle, l.bundle) \in Words /\ Override(r.ltoMode, l.ltoMode) \in Words
      /\ Override(r.toolchain, l.toolchain) \in Words
  BY DEF Override, Resolveds, LayerShape, Words
<1>8. Apply(r, l) = [err |-> e, flags |-> kept \o l.add, bundle |-> Override(r.bundle, l.bundle),
                     ltoMode |-> Override(r.ltoMode, l.ltoMode), toolchain |-> Override(r.toolchain, l.toolchain)]
  BY <1>1, <1>3, <1>6, Zenon DEF Apply, Overridden
<1> QED
  BY <1>1, <1>4, <1>5, <1>7, <1>8 DEF Resolveds

\* What resolution starts from.
LEMMA UnresolvedIs == Unresolved \in Resolveds
<1>1. /\ <<>> \in Seq(STRING) /\ "none" \in Words /\ Unset \in Words /\ "provisioned" \in Words
  BY DEF Words
<1>2. PICK s : s = <<>>
  OBVIOUS
<1>3. Unresolved = [err |-> "none", flags |-> s, bundle |-> Unset, ltoMode |-> Unset, toolchain |-> "provisioned"]
  BY <1>2, Zenon DEF Unresolved
<1> QED
  BY <1>1, <1>2, <1>3 DEF Resolveds

\* Layers are applied one after the other.
LEMMA AppliedIs ==
  ASSUME NEW layers, NEW n \in Nat, Len(layers) = n, \A i \in 1..n : LayerShape(layers[i])
  PROVE  \E g \in [0..n -> Resolveds] :
           /\ g[0] = Unresolved /\ \A i \in 1..n : g[i] = Apply(g[i - 1], layers[i])
           /\ Applied(layers) = g[n]
<1> DEFINE step == [i \in 1..n |-> [u \in Resolveds |-> Apply(u, layers[i])]]
           Steps(f) == f = [i \in 0..n |-> IF i = 0 THEN Unresolved ELSE Apply(f[i - 1], layers[i])]
           it == CHOOSE f : Steps(f)
<1>1. Unresolved \in Resolveds
  BY UnresolvedIs
<1>2. step \in [1..n -> [Resolveds -> Resolveds]]
  <2>1. \A i \in 1..n, u \in Resolveds : Apply(u, layers[i]) \in Resolveds
    BY ApplyIs
  <2> QED
    BY <2>1
<1>3. PICK g \in [0..n -> Resolveds] : g[0] = Unresolved /\ \A i \in 1..n : g[i] = step[i][g[i - 1]]
  <2> HIDE DEF step
  <2>1. \E g \in [0..n -> Resolveds] : Walk(g, n, Unresolved, step)
    BY ONLY n \in Nat, <1>1, <1>2, Iterates
  <2> QED
    BY <2>1 DEF Walk
<1>4. ASSUME NEW i \in 1..n PROVE g[i] = Apply(g[i - 1], layers[i]) /\ i - 1 \in 0..n
  <2>1. i - 1 \in 0..n
    OBVIOUS
  <2>2. g[i - 1] \in Resolveds
    BY ONLY <2>1, g \in [0..n -> Resolveds]
  <2>3. g[i] = step[i][g[i - 1]]
    BY <1>3
  <2> QED
    BY <2>1, <2>2, <2>3
<1>5. Steps(g)
  <2>1. \A i \in 0..n : g[i] = IF i = 0 THEN Unresolved ELSE Apply(g[i - 1], layers[i])
    BY <1>3, <1>4
  <2> QED
    BY <2>1
<1>6. Steps(it)
  <2> HIDE DEF Steps
  <2> QED
    BY <1>5
<1>7. PICK h : h = it
  OBVIOUS
<1>8. Steps(h)
  BY <1>6, <1>7
<1>9. h[n] = g[n]
  <2>1. h[0] = g[0]
    BY <1>3, <1>8
  <2>2. ASSUME NEW i \in 1..n PROVE h[i] = Apply(h[i - 1], layers[i])
    BY <1>8
  <2>3. \A i \in 1..n : h[i - 1] = g[i - 1] => h[i] = g[i]
    BY <1>4, <2>2
  <2> DEFINE Same == {i \in 0..n : h[i] = g[i]}
  <2>4. 0 \in Same /\ \A i \in 1..n : i - 1 \in Same => i \in Same
    BY <2>1, <2>3
  <2>5. \A i \in 0..n : i \in Same
    <3> HIDE DEF Same
    <3> QED
      BY <2>4, AllTheWay
  <2> QED
    BY <2>5
<1>10. Applied(layers) = g[n]
  BY <1>7, <1>9 DEF Applied
<1> QED
  BY <1>3, <1>4, <1>10

\* The chain of a profile names profiles.
LEMMA ChainIs ==
  ASSUME NEW c, NEW p, IsFiniteSet(DOMAIN c.profile), ChainOk(c, p)
  PROVE  Chain(c, p) \in Seq(DOMAIN c.profile)
<1>1. Generations(c) \in SUBSET Nat
  <2>1. Cardinality(DOMAIN c.profile) \in Nat
    BY FS_CardinalityType
  <2> QED
    BY <2>1 DEF Generations
<1> DEFINE Roots == {n \in Generations(c) : Ancestor(c, p)[n] = Unset}
<1>2. Roots \in SUBSET Nat /\ Roots # {}
  BY <1>1 DEF ChainOk
<1>3. Min(Roots) \in Roots /\ \A m \in Roots : Min(Roots) <= m
  <2> HIDE DEF Roots
  <2> QED
    BY <1>2, SomeLeast
<1>4. PICK length : length = Min(Roots)
  OBVIOUS
<1>5. Chain(c, p) = [i \in 1..length |-> Ancestor(c, p)[length - i]]
  BY <1>4 DEF Chain
<1>6. ASSUME NEW i \in 1..length PROVE Ancestor(c, p)[length - i] \in DOMAIN c.profile
  <2>1. length \in Nat /\ length \in Generations(c)
    BY <1>2, <1>3, <1>4
  <2>2. length - i \in Generations(c)
    <3>1. Cardinality(DOMAIN c.profile) \in Nat
      BY FS_CardinalityType
    <3> QED
      BY <2>1, <3>1 DEF Generations
  <2>3. length - i \notin Roots
    BY <1>2, <1>3, <1>4, <2>1
  <2> QED
    BY <2>2, <2>3 DEF ChainOk
<1>7. length \in Nat
  BY <1>2, <1>3, <1>4
<1> QED
  BY <1>5, <1>6, <1>7

\* All the layers of a configuration, of which every profile and scope has some.
LayersIn(c) ==
  UNION {{c.profile[q].own} \cup {c.profile[q].scopes[s] : s \in DOMAIN c.profile[q].scopes} : q \in DOMAIN c.profile}

LEMMA OwnLayersAre ==
  ASSUME NEW c, NEW q \in DOMAIN c.profile, NEW s
  PROVE  OwnLayers(c.profile[q], s) \in Seq(LayersIn(c))
<1>1. ASSUME NEW t PROVE Spelled(c.profile[q], t) \in Seq(LayersIn(c))
  <2>1. CASE t \in DOMAIN c.profile[q].scopes
    <3>1. c.profile[q].scopes[t] \in LayersIn(c)
      BY <2>1 DEF LayersIn
    <3> QED
      BY <2>1, <3>1 DEF Spelled
  <2>2. CASE t \notin DOMAIN c.profile[q].scopes
    BY <2>2 DEF Spelled
  <2> QED
    BY <2>1, <2>2
<1>2. <<c.profile[q].own>> \in Seq(LayersIn(c))
  <2>1. c.profile[q].own \in LayersIn(c)
    BY DEF LayersIn
  <2> QED
    BY <2>1
<1>3. PICK general : general = IF Len(s) = 2 THEN Spelled(c.profile[q], <<"deps">>) ELSE <<>>
  OBVIOUS
<1>4. general \in Seq(LayersIn(c))
  BY <1>1, <1>3
<1>5. OwnLayers(c.profile[q], s) = <<c.profile[q].own>> \o general \o Spelled(c.profile[q], s)
  BY <1>3 DEF OwnLayers
<1> QED
  BY <1>1, <1>2, <1>4, <1>5

LEMMA LayersAre ==
  ASSUME NEW c, NEW p, NEW s, IsFiniteSet(DOMAIN c.profile), ChainOk(c, p)
  PROVE  LayersOf(c, p, s) \in Seq(LayersIn(c))
<1>1. PICK chain \in Seq(DOMAIN c.profile) : chain = Chain(c, p)
  BY ChainIs
<1>2. PICK own : own = [i \in 1..Len(chain) |-> OwnLayers(c.profile[chain[i]], s)]
  OBVIOUS
<1>3. own \in Seq(Seq(LayersIn(c)))
  <2>1. \A i \in 1..Len(chain) : chain[i] \in DOMAIN c.profile
    BY <1>1
  <2>2. \A i \in 1..Len(chain) : OwnLayers(c.profile[chain[i]], s) \in Seq(LayersIn(c))
    BY <2>1, OwnLayersAre
  <2> QED
    BY <1>1, <1>2, <2>2
<1>4. LayersOf(c, p, s) = FlattenSeq(own)
  BY <1>1, <1>2 DEF LayersOf
<1>5. PICK g \in [0..Len(own) -> Seq(LayersIn(c))] : FlattenSeq(own) = g[Len(own)]
  BY <1>3, Joins
<1>6. Len(own) \in 0..Len(own)
  BY <1>3
<1>7. g[Len(own)] \in Seq(LayersIn(c))
  BY ONLY <1>6, g \in [0..Len(own) -> Seq(LayersIn(c))]
<1> QED
  BY <1>4, <1>5, <1>7

\* A package that no profile of the chain speaks of has the layers of all.
LEMMA InheritedLayers ==
  ASSUME NEW c, NEW p, NEW n, IsFiniteSet(DOMAIN c.profile), ChainOk(c, p),
         \A q \in ToSet(Chain(c, p)) : <<"deps", n>> \notin DOMAIN c.profile[q].scopes
  PROVE  LayersOf(c, p, <<"deps", n>>) = LayersOf(c, p, <<"deps">>)
<1>1. PICK chain \in Seq(DOMAIN c.profile) : chain = Chain(c, p)
  BY ChainIs
<1>2. PICK s : s = <<"deps", n>>
  OBVIOUS
<1>3. PICK deps : deps = <<"deps">>
  OBVIOUS
<1>4. Len(s) = 2 /\ Len(deps) # 2
  BY <1>2, <1>3
<1>5. ASSUME NEW i \in 1..Len(chain)
      PROVE  OwnLayers(c.profile[chain[i]], s) = OwnLayers(c.profile[chain[i]], deps)
  <2>1. chain[i] \in DOMAIN c.profile /\ chain[i] \in ToSet(chain)
    BY <1>1 DEF ToSet
  <2>2. s \notin DOMAIN c.profile[chain[i]].scopes
    BY <1>1, <1>2, <2>1
  <2>3. PICK own : own = c.profile[chain[i]].own
    OBVIOUS
  <2>4. PICK wide : wide = Spelled(c.profile[chain[i]], deps)
    OBVIOUS
  <2>5. wide \in Seq(LayersIn(c)) /\ own \in LayersIn(c)
    <3>1. CASE deps \in DOMAIN c.profile[chain[i]].scopes
      <4>1. c.profile[chain[i]].scopes[deps] \in LayersIn(c)
        BY <2>1, <3>1 DEF LayersIn
      <4> QED
        BY <2>1, <2>3, <2>4, <3>1, <4>1 DEF Spelled, LayersIn
    <3>2. CASE deps \notin DOMAIN c.profile[chain[i]].scopes
      BY <2>1, <2>3, <2>4, <3>2 DEF Spelled, LayersIn
    <3> QED
      BY <3>1, <3>2
  <2>6. OwnLayers(c.profile[chain[i]], s) = <<own>> \o wide \o <<>>
    BY <1>3, <1>4, <2>2, <2>3, <2>4 DEF OwnLayers, Spelled
  <2>7. OwnLayers(c.profile[chain[i]], deps) = <<own>> \o <<>> \o wide
    BY <1>3, <1>4, <2>3, <2>4 DEF OwnLayers
  <2>8. <<own>> \o wide \o <<>> = <<own>> \o <<>> \o wide
    BY <2>5
  <2> QED
    BY <2>6, <2>7, <2>8
<1>6. [i \in 1..Len(chain) |-> OwnLayers(c.profile[chain[i]], s)]
        = [i \in 1..Len(chain) |-> OwnLayers(c.profile[chain[i]], deps)]
  BY <1>5
<1>7. LayersOf(c, p, s) = FlattenSeq([i \in 1..Len(chain) |-> OwnLayers(c.profile[chain[i]], s)])
  BY <1>1 DEF LayersOf
<1>8. LayersOf(c, p, deps) = FlattenSeq([i \in 1..Len(chain) |-> OwnLayers(c.profile[chain[i]], deps)])
  BY <1>1 DEF LayersOf
<1> QED
  BY <1>2, <1>3, <1>6, <1>7, <1>8

\* The bundle of a profile is one of those that its layers name.
LEMMA BundleIs ==
  ASSUME NEW layers, NEW n \in Nat, Len(layers) = n, \A i \in 1..n : LayerShape(layers[i]),
         NEW B, \A i \in 1..n : layers[i].bundle # Unset => layers[i].bundle \in B
  PROVE  Applied(layers).bundle # Unset => Applied(layers).bundle \in B
<1>1. PICK g \in [0..n -> Resolveds] :
        /\ g[0] = Unresolved /\ \A i \in 1..n : g[i] = Apply(g[i - 1], layers[i])
        /\ Applied(layers) = g[n]
  BY AppliedIs
<1> DEFINE S == {i \in 0..n : g[i].bundle # Unset => g[i].bundle \in B}
<1>2. 0 \in S
  BY <1>1 DEF Unresolved
<1>3. ASSUME NEW i \in 1..n, i - 1 \in S PROVE i \in S
  <2>1. i - 1 \in 0..n
    OBVIOUS
  <2>2. PICK r : r = g[i - 1]
    OBVIOUS
  <2>3. r \in Resolveds
    BY ONLY <2>1, <2>2, g \in [0..n -> Resolveds]
  <2>4. Apply(r, layers[i]).bundle = Override(r.bundle, layers[i].bundle)
    BY <2>3, ApplyIs
  <2>5. g[i].bundle = Override(r.bundle, layers[i].bundle)
    BY <1>1, <2>2, <2>4
  <2>6. r.bundle # Unset => r.bundle \in B
    BY <1>3, <2>2
  <2> QED
    BY <2>5, <2>6 DEF Override
<1>4. n \in S
  <2>1. \A i \in 1..n : i - 1 \in S => i \in S
    BY <1>3
  <2> HIDE DEF S
  <2>2. \A i \in 0..n : i \in S
    BY <1>2, <2>1, AllTheWay
  <2> QED
    BY <2>2
<1> QED
  BY <1>1, <1>4

\* How a layer speaks of a flag.
Puts(l, f) == Contains(l.add, f) \/ ((\E list \in l.set : Contains(list, f)) /\ ~Contains(l.drop, f))
Takes(l, f) == Contains(l.drop, f) \/ l.set # {}

LEMMA ContainsIs ==
  ASSUME NEW V, NEW s \in Seq(V), NEW x
  PROVE  Contains(s, x) <=> x \in ToSet(s)
<1>1. DOMAIN s = 1..Len(s)
  OBVIOUS
<1> QED
  BY <1>1 DEF Contains, ToSet

\* The last layer that speaks of a flag decides.
LEMMA LastWord ==
  ASSUME NEW layers, NEW n \in Nat, Len(layers) = n, \A i \in 1..n : LayerShape(layers[i]), NEW f
  PROVE  f \in ToSet(Applied(layers).flags)
           <=> \E i \in 1..n : Puts(layers[i], f) /\ \A k \in 1..n : k > i => ~Takes(layers[k], f)
<1>1. PICK g \in [0..n -> Resolveds] :
        /\ g[0] = Unresolved /\ \A i \in 1..n : g[i] = Apply(g[i - 1], layers[i])
        /\ Applied(layers) = g[n]
  BY AppliedIs
<1> DEFINE Had(m) == \E i \in 1..m : Puts(layers[i], f) /\ \A k \in 1..m : k > i => ~Takes(layers[k], f)
           S == {m \in 0..n : f \in ToSet(g[m].flags) <=> Had(m)}
<1>2. 0 \in S
  <2>1. ToSet(<<>>) = {}
    BY DEF ToSet
  <2> QED
    BY <1>1, <2>1 DEF Unresolved
<1>3. ASSUME NEW m \in 1..n, m - 1 \in S PROVE m \in S
  <2>1. m - 1 \in 0..n
    OBVIOUS
  <2>2. PICK r : r = g[m - 1]
    OBVIOUS
  <2>3. PICK l : l = layers[m]
    OBVIOUS
  <2>4. r \in Resolveds
    BY ONLY <2>1, <2>2, g \in [0..n -> Resolveds]
  <2>5. LayerShape(l)
    BY <2>3
  <2>6. ToSet(Apply(r, l).flags) = (ToSet(BaseOf(r, l)) \ ToSet(l.drop)) \cup ToSet(l.add)
    BY <2>4, <2>5, ApplyIs
  <2>7. ToSet(g[m].flags) = (ToSet(BaseOf(r, l)) \ ToSet(l.drop)) \cup ToSet(l.add)
    BY <1>1, <2>2, <2>3, <2>6
  <2>8. f \in ToSet(r.flags) <=> Had(m - 1)
    BY <1>3, <2>2
  <2>9. Had(m) <=> (Puts(l, f) \/ (Had(m - 1) /\ ~Takes(l, f)))
    <3>1. Had(m) => (Puts(l, f) \/ (Had(m - 1) /\ ~Takes(l, f)))
      <4> SUFFICES ASSUME NEW i \in 1..m, Puts(layers[i], f), \A k \in 1..m : k > i => ~Takes(layers[k], f),
                          ~Puts(l, f)
                   PROVE  Had(m - 1) /\ ~Takes(l, f)
        OBVIOUS
      <4>1. i # m
        BY <2>3
      <4>2. i \in 1..(m - 1) /\ m \in 1..m /\ m > i
        BY <4>1
      <4>3. \A k \in 1..(m - 1) : k \in 1..m
        OBVIOUS
      <4>4. ~Takes(l, f)
        BY <2>3, <4>2
      <4>5. Had(m - 1)
        BY <4>2, <4>3
      <4> QED
        BY <4>4, <4>5
    <3>2. Puts(l, f) => Had(m)
      <4>1. m \in 1..m /\ \A k \in 1..m : ~(k > m)
        OBVIOUS
      <4> QED
        BY <2>3, <4>1
    <3>3. (Had(m - 1) /\ ~Takes(l, f)) => Had(m)
      <4> SUFFICES ASSUME NEW i \in 1..(m - 1), Puts(layers[i], f),
                          \A k \in 1..(m - 1) : k > i => ~Takes(layers[k], f), ~Takes(l, f)
                   PROVE  Had(m)
        OBVIOUS
      <4>1. i \in 1..m /\ \A k \in 1..m : k \in 1..(m - 1) \/ k = m
        OBVIOUS
      <4> QED
        BY <2>3, <4>1
    <3> QED
      BY <3>1, <3>2, <3>3
  <2>10. f \in ToSet(g[m].flags) <=> (Puts(l, f) \/ (f \in ToSet(r.flags) /\ ~Takes(l, f)))
    <3>1. /\ l.add \in Seq(STRING) /\ l.drop \in Seq(STRING) /\ \A list \in l.set : list \in Seq(STRING)
      BY <2>5 DEF LayerShape
    <3>2. /\ Contains(l.add, f) <=> f \in ToSet(l.add)
          /\ Contains(l.drop, f) <=> f \in ToSet(l.drop)
          /\ \A list \in l.set : Contains(list, f) <=> f \in ToSet(list)
      BY <3>1, ContainsIs
    <3>3. CASE l.set = {}
      <4>1. BaseOf(r, l) = r.flags
        BY <2>4, <2>5, <3>3, BaseIs
      <4> QED
        BY <2>7, <3>2, <3>3, <4>1 DEF Puts, Takes
    <3>4. CASE l.set # {}
      <4>1. l.set = {BaseOf(r, l)}
        BY <2>4, <2>5, <3>4, BaseIs
      <4> QED
        BY <2>7, <3>2, <3>4, <4>1 DEF Puts, Takes
    <3> QED
      BY <3>3, <3>4
  <2>11. f \in ToSet(g[m].flags) <=> Had(m)
    <3> HIDE DEF Had
    <3> QED
      BY <2>8, <2>9, <2>10
  <2> QED
    <3> HIDE DEF Had
    <3> QED
      BY <2>11
<1>4. n \in S
  <2>1. \A m \in 1..n : m - 1 \in S => m \in S
    BY <1>3
  <2> HIDE DEF S
  <2>2. \A m \in 0..n : m \in S
    BY <1>2, <2>1, AllTheWay
  <2> QED
    BY <2>2
<1>5. f \in ToSet(g[n].flags) <=> Had(n)
  <2> HIDE DEF Had
  <2> QED
    BY <1>4
<1> QED
  BY <1>1, <1>5

\* What packages need are packages.
LEMMA NeedsAre ==
  ASSUME NEW c, IsFiniteSet(DOMAIN c.package), \A m \in DOMAIN c.package : c.package[m].needs \subseteq DOMAIN c.package,
         NEW roots \in SUBSET DOMAIN c.package
  PROVE  NeedsClosure(c, roots) \subseteq DOMAIN c.package
<1>1. PICK n \in Nat : n = Cardinality(DOMAIN c.package)
  BY FS_CardinalityType
<1> DEFINE V == SUBSET DOMAIN c.package
           More(u) == u \cup UNION {c.package[m].needs : m \in u \cap DOMAIN c.package}
           step == [i \in 1..n |-> [u \in V |-> More(u)]]
           Steps(f) == f = [i \in 0..n |-> IF i = 0 THEN roots ELSE More(f[i - 1])]
           it == CHOOSE f : Steps(f)
<1>2. step \in [1..n -> [V -> V]]
  <2>1. \A u \in V : More(u) \in V
    OBVIOUS
  <2> HIDE DEF V, More
  <2> QED
    BY <2>1
<1>3. PICK g \in [0..n -> V] : g[0] = roots /\ \A i \in 1..n : g[i] = step[i][g[i - 1]]
  <2>1. roots \in V
    OBVIOUS
  <2> HIDE DEF step, V
  <2>2. \E g \in [0..n -> V] : Walk(g, n, roots, step)
    BY ONLY n \in Nat, <1>2, <2>1, Iterates
  <2> QED
    BY <2>2 DEF Walk
<1>4. ASSUME NEW i \in 1..n PROVE g[i] = More(g[i - 1]) /\ i - 1 \in 0..n
  <2>1. i - 1 \in 0..n
    OBVIOUS
  <2>2. g[i - 1] \in V
    BY ONLY <2>1, g \in [0..n -> V]
  <2>3. g[i] = step[i][g[i - 1]]
    BY <1>3
  <2> HIDE DEF V, More
  <2> QED
    BY <2>1, <2>2, <2>3
<1>5. Steps(g)
  <2> HIDE DEF More, V
  <2>1. \A i \in 0..n : g[i] = IF i = 0 THEN roots ELSE More(g[i - 1])
    BY <1>3, <1>4
  <2> QED
    BY <2>1
<1>6. Steps(it)
  <2> HIDE DEF Steps
  <2> QED
    BY <1>5
<1>7. PICK h : h = it
  OBVIOUS
<1>8. Steps(h)
  BY <1>6, <1>7
<1>9. h[n] \in V
  <2> HIDE DEF More, V
  <2>1. h[0] = g[0]
    BY <1>3, <1>8
  <2>2. ASSUME NEW i \in 1..n PROVE h[i] = More(h[i - 1])
    BY <1>8
  <2>5. \A i \in 1..n : h[i - 1] = g[i - 1] => h[i] = g[i]
    BY <1>4, <2>2
  <2> DEFINE Same == {i \in 0..n : h[i] = g[i]}
  <2>3. 0 \in Same /\ \A i \in 1..n : i - 1 \in Same => i \in Same
    BY <2>1, <2>5
  <2>4. \A i \in 0..n : i \in Same
    <3> HIDE DEF Same
    <3> QED
      BY <2>3, AllTheWay
  <2> QED
    BY <2>4
<1> QED
  BY <1>1, <1>7, <1>9 DEF NeedsClosure

\* What a sources.toml can pin, and what pyhost's profile comes with.
Pins == {f.tables.source : f \in SourcesFiles}

OffersBootstrap(f) == f.name # "sources.toml" /\ "bootstrap" \in DOMAIN f.tables.profile

\* What is left to read ends with the one sources.toml, and pyhost's profile is
\* there or still to come.
Reading ==
  /\ files \in Seq(ConfigFiles)
  /\ files # <<>> => config.source = <<>> /\ files[Len(files)] \in SourcesFiles
  /\ files = <<>> => config.source \in Pins
  /\ "bootstrap" \in DOMAIN config.profile \/ \E i \in 1..Len(files) : OffersBootstrap(files[i])

Loaded == Validate(config) /\ config.source \in Pins /\ "bootstrap" \in DOMAIN config.profile

Planned ==
  /\ outcome.profile \in DOMAIN config.profile /\ outcome.target \in DOMAIN config.target
  /\ outcome.bundle # Unset => outcome.bundle \in DOMAIN config.bundle
  /\ outcome.what = PlanOutcome(config, outcome.profile, outcome.host, outcome.target, outcome.bundle)

ConfigInv ==
  /\ stage \in {"idle", "reading", "loaded", "refused", "planned"}
  /\ DOMAIN config = DOMAIN NoTables /\ TablesShape(config)
  /\ stage = "idle" => config = NoTables
  /\ stage = "reading" => Reading
  /\ stage \in {"loaded", "planned"} => Loaded
  /\ stage = "planned" => Planned
  /\ stage # "planned" => outcome.what = "none"

\* The entries of both maps, and those of the newer one where they meet.
IsOverlay(o, new, m) ==
  /\ DOMAIN o = DOMAIN new \cup DOMAIN m
  /\ o = [k \in DOMAIN o |-> o[k]]
  /\ \A k \in DOMAIN o : (k \in DOMAIN new /\ o[k] = new[k]) \/ (k \in DOMAIN m /\ o[k] = m[k])
  /\ (m = <<>> /\ new = [k \in DOMAIN new |-> new[k]]) => o = new

LEMMA OverIs ==
  ASSUME NEW new, NEW m
  PROVE  IsOverlay(Over(new, m), new, m)
<1>1. PICK o : o = Over(new, m)
  OBVIOUS
<1>2. o = [k \in DOMAIN new \cup DOMAIN m |-> IF k \in DOMAIN new THEN new[k] ELSE m[k]]
  BY <1>1 DEF Over
<1>3. DOMAIN <<>> = {}
  OBVIOUS
<1>4. DOMAIN o = DOMAIN new \cup DOMAIN m /\ o = [k \in DOMAIN o |-> o[k]]
  BY <1>2
<1>5. \A k \in DOMAIN o : (k \in DOMAIN new /\ o[k] = new[k]) \/ (k \in DOMAIN m /\ o[k] = m[k])
  BY <1>2
<1>6. ASSUME m = <<>>, new = [k \in DOMAIN new |-> new[k]] PROVE o = new
  <2>1. DOMAIN o = DOMAIN new
    BY <1>3, <1>4, <1>6
  <2>2. \A k \in DOMAIN new : o[k] = new[k]
    BY <1>3, <1>5, <1>6, <2>1
  <2>3. o = [k \in DOMAIN new |-> new[k]]
    BY <1>4, <2>1, <2>2
  <2> QED
    BY <1>6, <2>3
<1> QED
  BY <1>1, <1>4, <1>5, <1>6 DEF IsOverlay

\* A merge adds to the tables and leaves them what they are.
LEMMA MergedIs ==
  ASSUME NEW c, NEW new, TablesShape(c), TablesShape(new)
  PROVE  /\ DOMAIN Merged(c, new) = DOMAIN NoTables /\ TablesShape(Merged(c, new))
         /\ Merged(c, new).source = Over(new.source, c.source)
         /\ DOMAIN Merged(c, new).profile = DOMAIN new.profile \cup DOMAIN c.profile
<1>1. PICK m : m = Merged(c, new)
  OBVIOUS
<1>2. /\ DOMAIN m = DOMAIN NoTables
      /\ m.source = Over(new.source, c.source) /\ m.package = Over(new.package, c.package)
      /\ m.profile = Over(new.profile, c.profile)
  BY <1>1 DEF Merged, NoTables
<1>3. /\ IsOverlay(m.source, new.source, c.source) /\ IsOverlay(m.package, new.package, c.package)
      /\ IsOverlay(m.profile, new.profile, c.profile)
  BY <1>2, OverIs
<1>4. m.source = [n \in DOMAIN m.source |-> m.source[n]]
  BY <1>3 DEF IsOverlay
<1>5. /\ DOMAIN m.package = DOMAIN new.package \cup DOMAIN c.package
      /\ DOMAIN m.profile = DOMAIN new.profile \cup DOMAIN c.profile
  BY <1>3 DEF IsOverlay
<1>6. IsFiniteSet(DOMAIN m.package)
  <2>1. PICK a, b : a = DOMAIN new.package /\ b = DOMAIN c.package
    OBVIOUS
  <2>2. IsFiniteSet(a) /\ IsFiniteSet(b)
    BY <2>1 DEF TablesShape
  <2>3. IsFiniteSet(a \cup b)
    BY <2>2, FS_Union
  <2> QED
    BY <1>5, <2>1, <2>3
<1>7. IsFiniteSet(DOMAIN m.profile)
  <2>1. PICK a, b : a = DOMAIN new.profile /\ b = DOMAIN c.profile
    OBVIOUS
  <2>2. IsFiniteSet(a) /\ IsFiniteSet(b)
    BY <2>1 DEF TablesShape
  <2>3. IsFiniteSet(a \cup b)
    BY <2>2, FS_Union
  <2> QED
    BY <1>5, <2>1, <2>3
<1>8. ASSUME NEW p \in DOMAIN m.profile
      PROVE  LayerShape(m.profile[p].own)
             /\ \A s \in DOMAIN m.profile[p].scopes : LayerShape(m.profile[p].scopes[s])
  <2>1. \/ p \in DOMAIN new.profile /\ m.profile[p] = new.profile[p]
        \/ p \in DOMAIN c.profile /\ m.profile[p] = c.profile[p]
    BY <1>3 DEF IsOverlay
  <2> QED
    BY <2>1 DEF TablesShape
<1>9. TablesShape(m)
  BY <1>4, <1>6, <1>7, <1>8 DEF TablesShape
<1> QED
  BY <1>1, <1>2, <1>5, <1>9

LEMMA NoTablesShape == TablesShape(NoTables)
<1>1. NoTables.source = <<>> /\ NoTables.package = <<>> /\ NoTables.profile = <<>>
  BY DEF NoTables
<1>2. DOMAIN <<>> = {} /\ IsFiniteSet({})
  BY FS_EmptySet
<1>3. <<>> = [n \in DOMAIN <<>> |-> <<>>[n]]
  OBVIOUS
<1> QED
  BY <1>1, <1>2, <1>3 DEF TablesShape

\* Load puts the one sources.toml last ...
LEMMA BeginsReading ==
  ASSUME NEW dir \in Overlays, NEW sources \in SourcesFiles, ConfigInv, Load(dir, sources)
  PROVE  ConfigInv'
<1>1. PICK all : all = EmbeddedFiles \o dir \o <<sources>>
  OBVIOUS
<1>2. stage = "idle" /\ stage' = "reading" /\ files' = all /\ config' = NoTables /\ outcome' = outcome
  BY <1>1 DEF Load, ConfigInv
<1>3. EmbeddedFiles \in Seq(ConfigFiles) /\ dir \in Seq(ConfigFiles) /\ sources \in ConfigFiles
  <2>1. sources \in ConfigFiles
    BY DEF ConfigFiles
  <2> QED
    BY <2>1, FilesAssumption
<1>4. /\ all \in Seq(ConfigFiles) /\ all # <<>> /\ all[Len(all)] = sources
      /\ \A k \in 1..Len(EmbeddedFiles) : k \in 1..Len(all) /\ all[k] = EmbeddedFiles[k]
  <2>1. PICK front : front = EmbeddedFiles \o dir
    OBVIOUS
  <2>2. /\ front \in Seq(ConfigFiles) /\ Len(front) = Len(EmbeddedFiles) + Len(dir)
        /\ Len(EmbeddedFiles) \in Nat /\ Len(dir) \in Nat
        /\ \A k \in 1..Len(EmbeddedFiles) : front[k] = EmbeddedFiles[k]
    BY <1>3, <2>1
  <2>3. all = front \o <<sources>>
    BY <1>1, <2>1
  <2>4. /\ all \in Seq(ConfigFiles) /\ Len(all) = Len(front) + 1 /\ all[Len(front) + 1] = sources
        /\ \A k \in 1..Len(front) : all[k] = front[k]
    BY ONLY <1>3, <2>2, <2>3
  <2> QED
    BY <2>2, <2>4
<1>5. \E k \in 1..Len(all) : OffersBootstrap(all[k])
  <2>1. PICK f \in ToSet(EmbeddedFiles) : f.name # "sources.toml" /\ "bootstrap" \in DOMAIN f.tables.profile
    BY FilesAssumption
  <2>2. PICK k \in 1..Len(EmbeddedFiles) : f = EmbeddedFiles[k]
    BY <1>3, <2>1 DEF ToSet
  <2> QED
    BY <1>4, <2>1, <2>2 DEF OffersBootstrap
<1>6. NoTables.source = <<>>
  BY DEF NoTables
<1>7. Reading'
  BY <1>2, <1>4, <1>5, <1>6 DEF Reading
<1>8. outcome.what = "none" /\ "reading" \in {"idle", "reading", "loaded", "refused", "planned"}
  BY <1>2 DEF ConfigInv
<1> QED
  BY <1>2, <1>7, <1>8, NoTablesShape DEF ConfigInv

\* ... and until it is read, no other source is.
LEMMA KeepsReading ==
  ASSUME ConfigInv, MergeFile
  PROVE  ConfigInv'
<1>1. stage = "reading" /\ files # <<>> /\ files' = Tail(files) /\ outcome' = outcome /\ Reading
  BY DEF MergeFile, ConfigInv
<1>2. PICK f : f = Head(files)
  OBVIOUS
<1>3. files \in Seq(ConfigFiles) /\ config.source = <<>> /\ files[Len(files)] \in SourcesFiles
  BY <1>1 DEF Reading
<1>4. /\ f \in ConfigFiles /\ f = files[1] /\ Len(files) \in Nat \ {0}
      /\ Tail(files) \in Seq(ConfigFiles) /\ Len(Tail(files)) = Len(files) - 1
      /\ \A k \in 1..(Len(files) - 1) : Tail(files)[k] = files[k + 1]
  BY <1>1, <1>2, <1>3
<1>5. Tail(files) # <<>> <=> Len(files) > 1
  <2>1. PICK rest \in Seq(ConfigFiles) : rest = Tail(files)
    BY <1>4
  <2>2. rest # <<>> <=> Len(rest) > 0
    BY ONLY rest \in Seq(ConfigFiles)
  <2> QED
    BY <1>4, <2>1, <2>2
<1>6. Tail(files) # <<>> => Tail(files)[Len(Tail(files))] \in SourcesFiles
  <2> SUFFICES ASSUME Tail(files) # <<>> PROVE Tail(files)[Len(Tail(files))] \in SourcesFiles
    OBVIOUS
  <2>1. Len(files) - 1 \in 1..(Len(files) - 1)
    BY <1>4, <1>5
  <2>2. Tail(files)[Len(files) - 1] = files[Len(files) - 1 + 1]
    BY <1>4, <2>1
  <2>3. Len(files) - 1 + 1 = Len(files)
    BY <1>4
  <2> QED
    BY <1>3, <1>4, <2>2, <2>3
<1>7. \/ OffersBootstrap(f) \/ "bootstrap" \in DOMAIN config.profile
      \/ \E k \in 1..Len(Tail(files)) : OffersBootstrap(Tail(files)[k])
  <2>1. CASE "bootstrap" \in DOMAIN config.profile
    BY <2>1
  <2>2. CASE "bootstrap" \notin DOMAIN config.profile
    <3>1. PICK k \in 1..Len(files) : OffersBootstrap(files[k])
      BY <1>1, <2>2 DEF Reading
    <3>2. CASE k = 1
      BY <1>4, <3>1, <3>2
    <3>3. CASE k # 1
      <4>1. k - 1 \in 1..(Len(files) - 1) /\ k - 1 + 1 = k
        BY <1>4, <3>3
      <4>2. Tail(files)[k - 1] = files[k]
        BY <1>4, <4>1
      <4> QED
        BY <1>4, <3>1, <4>1, <4>2
    <3> QED
      BY <3>2, <3>3
  <2> QED
    BY <2>1, <2>2
<1>8. TablesShape(f.tables) /\ TablesShape(config) /\ DOMAIN config = DOMAIN NoTables /\ outcome.what = "none"
  BY <1>1, <1>4, FilesAssumption DEF ConfigInv
<1>9. CASE ~PassedOver /\ FileOk(f)
  <2>1. stage' = "reading" /\ config' = Merged(config, f.tables)
    BY <1>2, <1>9 DEF MergeFile
  <2>2. /\ DOMAIN config' = DOMAIN NoTables /\ TablesShape(config')
        /\ config'.source = Over(f.tables.source, config.source)
        /\ DOMAIN config'.profile = DOMAIN f.tables.profile \cup DOMAIN config.profile
    BY <1>8, <2>1, MergedIs
  <2>3. config'.source = f.tables.source
    <3>1. IsOverlay(config'.source, f.tables.source, config.source)
      BY <2>2, OverIs
    <3>2. f.tables.source = [n \in DOMAIN f.tables.source |-> f.tables.source[n]]
      BY <1>8 DEF TablesShape
    <3> QED
      BY <1>3, <3>1, <3>2 DEF IsOverlay
  <2>4. Tail(files) # <<>> => config'.source = <<>>
    <3> SUFFICES ASSUME Tail(files) # <<>> PROVE config'.source = <<>>
      OBVIOUS
    <3>1. f.name # "sources.toml"
      BY <1>2, <1>5, <1>9 DEF PassedOver
    <3>2. DOMAIN f.tables.source = {}
      BY <1>9, <3>1 DEF FileOk
    <3>3. f.tables.source = [n \in DOMAIN f.tables.source |-> f.tables.source[n]]
      BY <1>8 DEF TablesShape
    <3>4. PICK s : s = f.tables.source
      OBVIOUS
    <3>5. s = [n \in {} |-> s[n]]
      BY <3>2, <3>3, <3>4
    <3>6. s = <<>>
      BY <3>5
    <3> QED
      BY <2>3, <3>4, <3>6
  <2>5. Tail(files) = <<>> => config'.source \in Pins
    <3> SUFFICES ASSUME Tail(files) = <<>> PROVE config'.source \in Pins
      OBVIOUS
    <3>1. f \in SourcesFiles
      BY <1>3, <1>4, <1>5
    <3> QED
      BY <2>3, <3>1 DEF Pins
  <2>6. "bootstrap" \in DOMAIN config'.profile \/ \E k \in 1..Len(Tail(files)) : OffersBootstrap(Tail(files)[k])
    BY <1>7, <2>2 DEF OffersBootstrap
  <2>7. Reading'
    BY <1>1, <1>4, <1>6, <2>4, <2>5, <2>6 DEF Reading
  <2> QED
    BY <1>1, <1>8, <2>1, <2>2, <2>7 DEF ConfigInv
<1>10. CASE PassedOver
  <2>1. stage' = "reading" /\ config' = config
    BY <1>10 DEF MergeFile
  <2>2. Tail(files) # <<>> /\ f.name = "sources.toml"
    BY <1>2, <1>5, <1>10 DEF PassedOver
  <2>3. "bootstrap" \in DOMAIN config.profile \/ \E k \in 1..Len(Tail(files)) : OffersBootstrap(Tail(files)[k])
    BY <1>7, <2>2 DEF OffersBootstrap
  <2>4. Reading'
    BY <1>1, <1>3, <1>4, <1>6, <2>1, <2>2, <2>3 DEF Reading
  <2> QED
    BY <1>1, <1>8, <2>1, <2>4 DEF ConfigInv
<1>11. CASE ~PassedOver /\ ~FileOk(f)
  <2>1. stage' = "refused" /\ config' = config
    BY <1>2, <1>11 DEF MergeFile
  <2> QED
    BY <1>1, <1>8, <2>1 DEF ConfigInv
<1> QED
  BY <1>9, <1>10, <1>11

\* Load, the check at its end and the plans keep the invariant.
THEOREM ConfigInvHolds == ConfigSpec => []ConfigInv
<1>1. ConfigInit => ConfigInv
  BY NoTablesShape DEF ConfigInit, ConfigInv, NoOutcome
<1>2. ASSUME ConfigInv, [ConfigNext]_configVars PROVE ConfigInv'
  <2>1. CASE UNCHANGED configVars
    BY <1>2, <2>1 DEF configVars, ConfigInv, Reading, Loaded, Planned
  <2>2. CASE \E dir \in Overlays, s \in SourcesFiles : Load(dir, s)
    BY <1>2, <2>2, BeginsReading
  <2>3. CASE MergeFile
    BY <1>2, <2>3, KeepsReading
  <2>4. CASE EndLoad
    <3>1. /\ stage = "reading" /\ files = <<>> /\ config' = config /\ outcome' = outcome
          /\ stage' = IF Validate(config) THEN "loaded" ELSE "refused"
      BY <2>4 DEF EndLoad
    <3>2. Reading /\ outcome.what = "none" /\ DOMAIN config = DOMAIN NoTables /\ TablesShape(config)
      BY <1>2, <3>1 DEF ConfigInv
    <3>3. config.source \in Pins /\ "bootstrap" \in DOMAIN config.profile
      BY <3>1, <3>2 DEF Reading
    <3>4. CASE Validate(config)
      <4>1. stage' = "loaded" /\ Loaded'
        BY <3>1, <3>3, <3>4 DEF Loaded
      <4> QED
        BY <3>1, <3>2, <4>1 DEF ConfigInv
    <3>5. CASE ~Validate(config)
      <4>1. stage' = "refused"
        BY <3>1, <3>5
      <4> QED
        BY <3>1, <3>2, <4>1 DEF ConfigInv
    <3> QED
      BY <3>4, <3>5
  <2>5. CASE \E p \in DOMAIN config.profile, host \in Hosts, t \in DOMAIN config.target :
               \E b \in {Unset} \cup DOMAIN config.bundle : Plan(p, host, t, b)
    <3>1. PICK p \in DOMAIN config.profile, host \in Hosts, t \in DOMAIN config.target,
               b \in {Unset} \cup DOMAIN config.bundle : Plan(p, host, t, b)
      BY <2>5
    <3>2. /\ stage = "loaded" /\ stage' = "planned" /\ config' = config
          /\ outcome' = [what |-> PlanOutcome(config, p, host, t, b),
                         profile |-> p, host |-> host, target |-> t, bundle |-> b]
      BY <3>1 DEF Plan
    <3>3. Loaded /\ DOMAIN config = DOMAIN NoTables /\ TablesShape(config)
      BY <1>2, <3>2 DEF ConfigInv
    <3>4. Loaded'
      BY <3>2, <3>3 DEF Loaded
    <3>5. Planned'
      BY <3>2 DEF Planned
    <3> QED
      BY <3>2, <3>3, <3>4, <3>5 DEF ConfigInv
  <2> QED
    BY <1>2, <2>1, <2>2, <2>3, <2>4, <2>5 DEF ConfigNext
<1> QED
  BY <1>1, <1>2, PTL DEF ConfigSpec

--------------------------------------------------------------------------------
(* What a loaded configuration is good for.                                *)

\* How a package's scope is spelled.
LEMMA DepsSpelling ==
  ASSUME NEW n
  PROVE  Len(<<"deps", n>>) = 2 /\ <<"deps", n>>[1] = "deps" /\ <<"deps", n>>[2] = n
OBVIOUS

\* What is resolved at load resolves, from the layers of the chain.
LEMMA ResolvedAtLoad ==
  ASSUME NEW c, TablesShape(c), ValidProfiles(c), NEW p \in DOMAIN c.profile, NEW s \in ScopesTried(c, p)
  PROVE  /\ ChainOk(c, p) /\ ScopeOk(s) /\ Resolves(c, p, s)
         /\ Resolve(c, p, s) = Applied(LayersOf(c, p, s))
         /\ LayersOf(c, p, s) \in Seq(LayersIn(c))
<1>1. Resolves(c, p, s)
  BY Zenon DEF ValidProfiles
<1>2. ChainOk(c, p) /\ ScopeOk(s)
  <2> SUFFICES ASSUME ~(ChainOk(c, p) /\ ScopeOk(s)) PROVE FALSE
    OBVIOUS
  <2>1. Resolve(c, p, s) = [Unresolved EXCEPT !.err = "unknown"]
    BY Zenon DEF Resolve
  <2>2. Resolve(c, p, s).err = "unknown"
    BY <2>1 DEF Unresolved
  <2> QED
    BY <1>1, <2>2 DEF Resolves
<1>3. IsFiniteSet(DOMAIN c.profile)
  BY DEF TablesShape
<1>4. LayersOf(c, p, s) \in Seq(LayersIn(c))
  BY <1>2, <1>3, LayersAre
<1> QED
  BY <1>1, <1>2, <1>4 DEF Resolve

\* Every layer is well formed, and every value in it was checked.
LEMMA LayersShape ==
  ASSUME NEW c, TablesShape(c), NEW l \in LayersIn(c)
  PROVE  LayerShape(l)
BY DEF LayersIn, TablesShape

LEMMA LayersValid ==
  ASSUME NEW c, ValidProfiles(c), NEW l \in LayersIn(c)
  PROVE  ValidLayer(c, l)
<1>1. PICK q \in DOMAIN c.profile :
        l = c.profile[q].own \/ \E s \in DOMAIN c.profile[q].scopes : l = c.profile[q].scopes[s]
  BY DEF LayersIn
<1>2. CASE l = c.profile[q].own
  BY <1>2, Zenon DEF ValidProfiles
<1>3. CASE \E s \in DOMAIN c.profile[q].scopes : l = c.profile[q].scopes[s]
  <2>1. PICK s \in DOMAIN c.profile[q].scopes : l = c.profile[q].scopes[s]
    BY <1>3
  <2>2. ValidLayer(c, c.profile[q].scopes[s])
    BY Zenon DEF ValidProfiles
  <2> QED
    BY <2>1, <2>2
<1> QED
  BY <1>1, <1>2, <1>3

\* Whatever files are stacked, and whatever they remove and add: a resolved list
\* is what its last layers say, and no --config directory redefines a pin.
THEOREM LayersKept == ConfigSpec => []LayersAreKept
<1>1. ASSUME ConfigInv PROVE LayersAreKept
  <2>1. ConfigTypeOK
    <3>1. CASE stage = "planned"
      <4>1. outcome.what = PlanOutcome(config, outcome.profile, outcome.host, outcome.target, outcome.bundle)
        BY <1>1, <3>1 DEF ConfigInv, Planned
      <4>2. outcome.what \in {"planned", "refused", "hollow"}
        BY <4>1 DEF PlanOutcome, DepsOutcome
      <4> QED
        BY <1>1, <3>1, <4>2 DEF ConfigInv, ConfigTypeOK
    <3>2. CASE stage # "planned"
      BY <1>1, <3>2 DEF ConfigInv, ConfigTypeOK
    <3> QED
      BY <3>1, <3>2
  <2>2. PinsAreNotOverlaid
    BY <1>1 DEF ConfigInv, Loaded, Reading, PinsAreNotOverlaid, Pins
  <2>3. LastWordWins
    <3> SUFFICES ASSUME stage = "loaded", NEW p \in DOMAIN config.profile, NEW s \in ScopesTried(config, p), NEW f
                 PROVE  f \in ToSet(Resolve(config, p, s).flags)
                          <=> \E i \in DOMAIN LayersOf(config, p, s) :
                                /\ Puts(LayersOf(config, p, s)[i], f)
                                /\ \A k \in DOMAIN LayersOf(config, p, s) :
                                     k > i => ~Takes(LayersOf(config, p, s)[k], f)
      BY Zenon DEF LastWordWins, Puts, Takes
    <3>1. TablesShape(config) /\ ValidProfiles(config)
      BY <1>1 DEF ConfigInv, Loaded, Validate
    <3>2. PICK layers : layers = LayersOf(config, p, s)
      OBVIOUS
    <3>3. Resolve(config, p, s) = Applied(layers) /\ layers \in Seq(LayersIn(config))
      BY <3>1, <3>2, ResolvedAtLoad
    <3>4. DOMAIN layers = 1..Len(layers) /\ Len(layers) \in Nat
      BY <3>3
    <3>5. \A i \in 1..Len(layers) : LayerShape(layers[i])
      <4>1. \A i \in 1..Len(layers) : layers[i] \in LayersIn(config)
        BY <3>3
      <4> QED
        BY <3>1, <4>1, LayersShape
    <3>6. f \in ToSet(Applied(layers).flags)
            <=> \E i \in 1..Len(layers) : Puts(layers[i], f) /\ \A k \in 1..Len(layers) : k > i => ~Takes(layers[k], f)
      BY <3>4, <3>5, LastWord
    <3> QED
      BY <3>2, <3>3, <3>4, <3>6
  <2> QED
    BY <2>1, <2>2, <2>3 DEF LayersAreKept
<1> QED
  BY <1>1, ConfigInvHolds, PTL

\* The scopes that Load tries: the general ones, and those a profile spells.
LEMMA GeneralTried ==
  ASSUME NEW c, NEW p
  PROVE  /\ {<<"deps">>, <<"python">>, <<"pyhost">>} \subseteq ScopesTried(c, p)
         /\ \A n : <<"deps", n>> \in DOMAIN c.profile[p].scopes => <<"deps", n>> \in ScopesTried(c, p)
<1>1. PICK deps, python, pyhost : deps = <<"deps">> /\ python = <<"python">> /\ pyhost = <<"pyhost">>
  OBVIOUS
<1>2. ScopesTried(c, p) = {deps, python, pyhost} \cup {s \in DOMAIN c.profile[p].scopes : Len(s) = 2}
  BY <1>1 DEF ScopesTried
<1>3. {deps, python, pyhost} \subseteq ScopesTried(c, p)
  BY <1>2
<1>4. ASSUME NEW n, <<"deps", n>> \in DOMAIN c.profile[p].scopes PROVE <<"deps", n>> \in ScopesTried(c, p)
  BY <1>2, <1>4, DepsSpelling
<1> QED
  BY <1>1, <1>3, <1>4

\* A package's scope that does not resolve is one that the chain spells.
LEMMA OnlyInheritedFails ==
  ASSUME NEW c, TablesShape(c), ValidProfiles(c), NEW p \in DOMAIN c.profile,
         NEW n, n # Unset, ~Resolves(c, p, <<"deps", n>>)
  PROVE  /\ <<"deps", n>> \notin DOMAIN c.profile[p].scopes
         /\ \E q \in ToSet(Chain(c, p)) \ {p} : <<"deps", n>> \in DOMAIN c.profile[q].scopes
<1>1. PICK deps : deps = <<"deps">>
  OBVIOUS
<1>2. PICK own : own = <<"deps", n>>
  OBVIOUS
<1>3. deps \in ScopesTried(c, p)
  BY <1>1, GeneralTried
<1>4. ChainOk(c, p) /\ Resolves(c, p, deps) /\ Resolve(c, p, deps) = Applied(LayersOf(c, p, deps))
  BY <1>3, ResolvedAtLoad
<1>5. own \notin DOMAIN c.profile[p].scopes
  <2> SUFFICES ASSUME own \in DOMAIN c.profile[p].scopes PROVE FALSE
    OBVIOUS
  <2>1. own \in ScopesTried(c, p)
    BY <1>2, GeneralTried
  <2>2. Resolves(c, p, own)
    BY <2>1, ResolvedAtLoad
  <2> QED
    BY <1>2, <2>2
<1>6. ASSUME \A q \in ToSet(Chain(c, p)) \ {p} : own \notin DOMAIN c.profile[q].scopes PROVE FALSE
  <2>1. \A q \in ToSet(Chain(c, p)) : <<"deps", n>> \notin DOMAIN c.profile[q].scopes
    BY <1>2, <1>5, <1>6
  <2>2. IsFiniteSet(DOMAIN c.profile)
    BY DEF TablesShape
  <2>3. LayersOf(c, p, own) = LayersOf(c, p, deps)
    BY <1>1, <1>2, <1>4, <2>1, <2>2, InheritedLayers
  <2>4. ScopeOk(own)
    BY <1>2, DepsSpelling DEF ScopeOk
  <2>5. Resolve(c, p, own) = Resolve(c, p, deps)
    BY <1>4, <2>3, <2>4 DEF Resolve
  <2> QED
    BY <1>2, <1>4, <2>5 DEF Resolves
<1> QED
  BY <1>2, <1>5, <1>6

\* A resolved profile never names a bundle that is not there, nor one that names a
\* package that is not.
LEMMA BundlesAreThere ==
  ASSUME NEW c, TablesShape(c), ValidProfiles(c), ValidBundles(c), NEW p \in DOMAIN c.profile,
         NEW s \in ScopesTried(c, p)
  PROVE  LET b == Resolve(c, p, s).bundle IN b # Unset => b \in DOMAIN c.bundle
<1>1. PICK layers : layers = LayersOf(c, p, s)
  OBVIOUS
<1>2. Resolve(c, p, s) = Applied(layers) /\ layers \in Seq(LayersIn(c))
  BY <1>1, ResolvedAtLoad
<1>3. PICK n \in Nat : n = Len(layers)
  BY <1>2
<1>4. \A i \in 1..n : layers[i] \in LayersIn(c)
  BY <1>2, <1>3
<1>5. \A i \in 1..n : LayerShape(layers[i])
  BY <1>4, LayersShape
<1>6. \A i \in 1..n : layers[i].bundle # Unset => layers[i].bundle \in DOMAIN c.bundle
  <2>1. \A i \in 1..n : ValidLayer(c, layers[i])
    BY <1>4, LayersValid
  <2> QED
    BY <2>1 DEF ValidLayer
<1>7. Applied(layers).bundle # Unset => Applied(layers).bundle \in DOMAIN c.bundle
  BY <1>3, <1>5, <1>6, BundleIs
<1> QED
  BY <1>2, <1>7

\* Whatever files are stacked: a plan of what was loaded never goes on with an entry
\* that is absent, and fails only for another machine, no pinned Python, inputs that
\* are not there, or a mistake of the kinds that Untried lists.
THEOREM LateFailures == ConfigSpec => []LateFailuresAreKnown
<1>1. ASSUME ConfigInv PROVE LateFailuresAreKnown
  <2> SUFFICES ASSUME stage = "planned", outcome.what # "planned"
               PROVE  /\ outcome.what = "refused"
                      /\ \/ HostBuilt(Resolve(config, outcome.profile, <<"python">>)) /\ outcome.host # outcome.target
                         \/ "python" \notin DOMAIN config.source
                         \/ LacksInputs(config, outcome)
                         \/ Untried(config, outcome)
    BY Zenon DEF LateFailuresAreKnown
  <2>1. PICK p, host, t, o : p = outcome.profile /\ host = outcome.host /\ t = outcome.target /\ o = outcome.bundle
    OBVIOUS
  <2>2. /\ Planned /\ Validate(config) /\ "bootstrap" \in DOMAIN config.profile /\ TablesShape(config)
    BY <1>1 DEF ConfigInv, Loaded
  <2>3. ValidProfiles(config) /\ ValidPackages(config) /\ ValidBundles(config)
    BY <2>2 DEF Validate
  <2>4. /\ p \in DOMAIN config.profile /\ t \in DOMAIN config.target /\ (o # Unset => o \in DOMAIN config.bundle)
        /\ outcome.what = PlanOutcome(config, p, host, t, o)
    BY <2>1, <2>2 DEF Planned
  <2>5. PICK python : python = Resolve(config, p, <<"python">>)
    OBVIOUS
  <2>6. PICK b : b = Override(python.bundle, o)
    OBVIOUS
  <2>7. python.err = "none" /\ (b # Unset => b \in DOMAIN config.bundle)
    <3>1. <<"python">> \in ScopesTried(config, p)
      BY GeneralTried
    <3>2. Resolves(config, p, <<"python">>)
      BY <2>2, <2>3, <2>4, <3>1, ResolvedAtLoad
    <3>3. python.bundle # Unset => python.bundle \in DOMAIN config.bundle
      BY <2>2, <2>3, <2>4, <2>5, <3>1, BundlesAreThere
    <3> QED
      BY <2>4, <2>5, <2>6, <3>2, <3>3 DEF Resolves, Override
  <2>8. Resolves(config, "bootstrap", <<"pyhost">>)
    <3>1. <<"pyhost">> \in ScopesTried(config, "bootstrap")
      BY GeneralTried
    <3> QED
      BY <2>2, <2>3, <3>1, ResolvedAtLoad
  <2>9. PlanOutcome(config, p, host, t, o)
          = IF \/ "python" \notin DOMAIN config.source \/ (HostBuilt(python) /\ host # t)
               \/ ~HostBuilt(python) /\ ~PyBuildOk(config, p, host, t, b)
            THEN "refused" ELSE DepsOutcome(config, p, t)
    BY <2>5, <2>6, <2>7, Zenon DEF PlanOutcome
  <2>10. CASE "python" \notin DOMAIN config.source \/ (HostBuilt(python) /\ host # t)
    <3>1. outcome.what = "refused"
      BY <2>4, <2>9, <2>10
    <3> QED
      BY <2>1, <2>5, <2>10, <3>1
  <2>11. CASE ~HostBuilt(python) /\ ~PyBuildOk(config, p, host, t, b)
    <3>1. outcome.what = "refused"
      BY <2>4, <2>9, <2>11
    <3>2. CASE ~BundleOk(config, b)
      <4>1. b # Unset /\ b \in DOMAIN config.bundle
        BY <2>7, <3>2 DEF BundleOk
      <4>2. config.bundle[b] \subseteq DOMAIN config.pkg
        BY <2>3, <4>1 DEF ValidBundles
      <4>3. \E n \in config.bundle[b] : \E m \in config.pkg[n].modules : ~ModuleLine(m)
        BY <3>2, <4>1, <4>2, Zenon DEF BundleOk
      <4>4. Untried(config, outcome)
        BY <2>1, <2>5, <2>6, <4>1, <4>3, Zenon DEF Untried
      <4> QED
        BY <3>1, <4>4
    <3>3. CASE Wanted(config, p) = {}
      <4>1. Untried(config, outcome)
        BY <2>1, <3>3, Zenon DEF Untried
      <4> QED
        BY <3>1, <4>1
    <3>4. CASE BundleOk(config, b) /\ Wanted(config, p) # {}
      <4>1. \/ ~PyHostOk(config, host) \/ t \notin Fragments
            \/ \A k \in {"cross", "native"} : <<t, k>> \notin Toolchains
            \/ ~(TargetPatches(config.source["python"], t) \subseteq config.source["python"].files)
        BY <2>11, <3>4, Zenon DEF PyBuildOk, HasToolchain
      <4>2. LacksInputs(config, outcome)
        BY <2>1, <2>8, <4>1 DEF LacksInputs, PyHostOk
      <4> QED
        BY <3>1, <4>2
    <3> QED
      BY <3>2, <3>3, <3>4
  <2>12. CASE /\ ~("python" \notin DOMAIN config.source \/ (HostBuilt(python) /\ host # t))
              /\ ~(~HostBuilt(python) /\ ~PyBuildOk(config, p, host, t, b))
    <3>1. DepsOutcome(config, p, t) # "planned" /\ outcome.what = DepsOutcome(config, p, t)
      BY <2>4, <2>9, <2>12
    <3>2. Wanted(config, p) \subseteq DOMAIN config.package
      <4>1. \A m \in DOMAIN config.package : config.package[m].needs \subseteq DOMAIN config.package
        BY <2>3, Zenon DEF ValidPackages
      <4>2. IsFiniteSet(DOMAIN config.package)
        BY <2>2 DEF TablesShape
      <4>3. {n \in DOMAIN config.package : ~PackageSkipped(config, n, p)} \in SUBSET DOMAIN config.package
        OBVIOUS
      <4> QED
        BY <4>1, <4>2, <4>3, NeedsAre DEF Wanted
    <3>3. ASSUME NEW n \in Wanted(config, p)
          PROVE  /\ n \in DOMAIN config.package /\ SourceOf(config, n) \in DOMAIN config.source
                 /\ config.package[n].platformMap # Unset
                      => config.package[n].platformMap \in config.target[t].maps
      <4>1. n \in DOMAIN config.package
        BY <3>2
      <4>2. SourceOf(config, n) \in DOMAIN config.source
        BY <2>3, <4>1, Zenon DEF ValidPackages
      <4>3. config.package[n].platformMap # Unset
              => \A u \in DOMAIN config.target : config.package[n].platformMap \in config.target[u].maps
        BY <2>3, <4>1, Zenon DEF ValidPackages
      <4> QED
        BY <2>4, <4>1, <4>2, <4>3
    <3>4. \E n \in Wanted(config, p) : DepRefused(config, p, t, n)
      BY <3>1, <3>3, Zenon DEF DepsOutcome
    <3>5. outcome.what = "refused"
      BY <3>1, <3>4, Zenon DEF DepsOutcome
    <3>6. PICK n \in Wanted(config, p) : DepRefused(config, p, t, n)
      BY <3>4
    <3>7. CASE NeedsItself(config, n) \/ n = Unset
      <4>1. Untried(config, outcome)
        BY <2>1, <3>7, Zenon DEF Untried
      <4> QED
        BY <3>5, <4>1
    <3>8. CASE ~Resolves(config, p, <<"deps", n>>) /\ n # Unset
      <4>1. /\ <<"deps", n>> \notin DOMAIN config.profile[p].scopes
            /\ \E q \in ToSet(Chain(config, p)) \ {p} : <<"deps", n>> \in DOMAIN config.profile[q].scopes
        BY <2>2, <2>3, <2>4, <3>8, OnlyInheritedFails
      <4>2. Untried(config, outcome)
        BY <2>1, <3>8, <4>1, Zenon DEF Untried
      <4> QED
        BY <3>5, <4>2
    <3>9. CASE ~NeedsItself(config, n) /\ Resolves(config, p, <<"deps", n>>)
      <4>1. \/ \A k \in {"cross", "native"} : <<t, k>> \notin Toolchains
            \/ ~PatchesRead(config.source[SourceOf(config, n)], t)
        BY <3>3, <3>6, <3>9, Zenon DEF DepRefused, HasToolchain
      <4>2. LacksInputs(config, outcome)
        BY <2>1, <3>3, <4>1, Zenon DEF LacksInputs
      <4> QED
        BY <3>5, <4>2
    <3> QED
      BY <3>7, <3>8, <3>9
  <2> QED
    BY <2>10, <2>11, <2>12
<1> QED
  BY <1>1, ConfigInvHolds, PTL

================================================================================
