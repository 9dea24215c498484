-------------------------------- MODULE MCRecipes ------------------------------
(***************************************************************************)
(* Instances of Rebuilds for TLC: four packages, of which readline needs   *)
(* ncurses, sqlite compiles and runs a helper, and the reference build     *)
(* skips mimalloc; four profiles; a machine that builds for itself and,    *)
(* with a cross toolchain, for riscv; another one that builds for riscv in *)
(* the same dist/, and one that builds there for itself only.              *)
(***************************************************************************)
EXTENDS Rebuilds, TLC

Packages == {"ncurses", "readline", "mimalloc", "sqlite"}
PackageNeeds == [p \in Packages |-> IF p = "readline" THEN {"ncurses"} ELSE {}]
Profiles == {"default", "lite", "reference", "bootstrap"}
Ancestry == [f \in Profiles |->
  IF f \in {"lite", "bootstrap"} THEN <<"default", f>> ELSE <<f>>]
Pairs == {<<"x86", "x86">>, <<"x86", "riscv">>, <<"arm", "riscv">>, <<"mips", "mips">>}
Crosses == {<<"x86", "riscv">>, <<"arm", "riscv">>}

\* Only lite, when it sets pgo at all, turns it off.
Base == {<<"skip", "mimalloc", "reference">>, <<"configure", "readline", "reference">>,
         <<"flags", "default", "">>, <<"flags", "reference", "">>,
         <<"pgo", "default", "">>, <<"modules", "bootstrap", "">>}

\* What is edited or re-published. The native toolchain of x86, with which sqlite
\* compiles its helper, is left alone: see Overlooked.
Edits ==
  {<<"code", "recipe">>, <<"code", "checker">>, <<"pin", "python">>, <<"patches", "ncurses">>,
   <<"target_patches", "python", "riscv">>, <<"configure", "readline", "">>,
   <<"skip", "ncurses", "lite">>, <<"keep", "mimalloc", "reference">>,
   <<"flags", "default", "python">>, <<"modules", "default", "pyhost">>,
   <<"pgo", "default", "">>, <<"pgo", "lite", "">>, <<"profile_task", "lite", "python">>,
   <<"lto_mode", "lite", "deps">>,
   <<"native", "mips", "mips">>, <<"host", "x86", "x86">>, <<"skip_verify">>}

Flip(k) == (Base \ {k}) \cup ({k} \ Base)
Worlds == {Base} \cup {Flip(k) : k \in Edits}

\* An edit of a package's make_vars, one for every profile or in a variant.
Blind == {<<"make_vars", "ncurses", "">>, <<"make_vars", "readline", "reference">>}
BlindWorlds == {Base} \cup {Flip(k) : k \in Blind}

Cmd(host, profile, targets, verify, pack, kit) ==
  [host |-> host, profile |-> profile, targets |-> targets, verify |-> verify,
   pack |-> pack, kit |-> kit]
AllCommands ==
  {Cmd("x86", "default", {"x86"}, "core", TRUE, FALSE),
   Cmd("x86", "default", {"x86", "riscv"}, "none", TRUE, FALSE),
   Cmd("arm", "default", {"riscv"}, "none", FALSE, FALSE),
   Cmd("x86", "reference", {"x86"}, "smoke", FALSE, FALSE),
   Cmd("mips", "default", {"mips"}, "none", FALSE, FALSE),
   Cmd("x86", "default", {}, "core", FALSE, TRUE)}
KitArms == {"lite", "reference"}

Rank(j) ==
  CASE j.kind \in {"srctree", "probe"} -> 0
    [] j.kind = "pyhost" -> 1
    [] j.kind = "staticapi" -> 2
    [] j.kind = "dep" -> IF PackageNeeds[j.package] = {} THEN 1 ELSE 2
    [] j.kind = "sysroot" -> 3
    [] j.kind \in {"pybuild", "pyref"} -> 4
    [] j.kind = "verify" -> 5
    [] j.kind = "pack" -> 6
    [] j.kind = "kit" -> 7
Ranks == [j \in Job |-> Rank(j)]

\* Tables are made with @@, for TLC to work them out once.
Table(f) == [j \in Job |-> [w \in World |-> f[j, w]] @@ <<>>] @@ <<>>

\* Names for the values of a function on jobs and worlds: the first argument
\* with the value, among the jobs of one name.
Namesakes == [j \in Job |-> {i \in Job : Slug(Base, i) = Slug(Base, j)}] @@ <<>>
Named(f) ==
  LET value == Table(f)
  IN Table([j \in Job, w \in World |->
       CHOOSE y \in Namesakes[j] \X World : value[y[1]][y[2]] = value[j][w]])

\* The key of a document is a job and a world that have it.
Keys ==
  LET doc[j \in Job, w \in World] ==
        <<Slug(w, j), Inputs(w, j), {doc[d, w] : d \in Deps(w, j)}>>
  IN Named(doc)

JobKey(w, j) == Keys[j][w]
JobKeyDoc(k) ==
  [slug |-> Slug(k[2], k[1]), inputs |-> Inputs(k[2], k[1]),
   deps |-> {JobKey(k[2], d) : d \in Deps(k[2], k[1])}]

\* Contents likewise; what is baked from outdated parts is told by its parts.
Contents ==
  LET read[j \in Job, w \in World] ==
        Reads(w, j, {read[d, w] : d \in Parts(w, j)})
  IN Named(read)

JobContent(w, j) == Contents[j][w]

FromNothing ==
  LET reads == Table([j \in Job, w \in World |->
                        Reads(w, j, {Contents[d][w] : d \in Parts(w, j)})])
      names == {Contents[j][w] : j \in Job, w \in World}
  IN [r \in {reads[n[1]][n[2]] : n \in names} |->
        CHOOSE n \in names : reads[n[1]][n[2]] = r] @@ <<>>
JobBaked(r) == IF r \in DOMAIN FromNothing THEN FromNothing[r] ELSE r
================================================================================
