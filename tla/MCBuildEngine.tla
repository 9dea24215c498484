----------------------------- MODULE MCBuildEngine -----------------------------
(***************************************************************************)
(* Instances of BuildEngine for TLC: the job graphs, the configurations    *)
(* and the Merkle functions over them.                                     *)
(***************************************************************************)
EXTENDS BuildEngine, TLC

CONSTANTS p1, p2

\* Merkle keys and products of a graph, by recursion along its edges.
MerkleKey(deps, input) ==
  [c \in DOMAIN input |->
     LET key[j \in DOMAIN deps] ==
           [input |-> input[c][j], deps |-> [d \in deps[j] |-> key[d]]]
     IN  key]

PureProduct(reads, input) ==
  [c \in DOMAIN input |->
     LET made[j \in DOMAIN reads] ==
           [input |-> input[c][j], parts |-> {<<d, made[d]>> : d \in reads[j]}]
     IN  made]

\* A library built from a source tree, and a program built from both: the
\* shape of srctree, dep and interpreter. The configurations differ in the
\* flags of the library.
ChainJob == {"src", "lib", "app"}
ChainDeps == [src |-> {}, lib |-> {"src"}, app |-> {"src", "lib"}]
ChainRank == [app |-> 0, lib |-> 1, src |-> 2]
ChainInput == [O2 |-> [src |-> 1, lib |-> 2, app |-> 1],
               O3 |-> [src |-> 1, lib |-> 3, app |-> 1]]
ChainKey == MerkleKey(ChainDeps, ChainInput)
ChainProduct == PureProduct(ChainDeps, ChainInput)

\* Two libraries side by side under one program: what a worker pool and the
\* sorted read locks are for. The configurations differ in the source tree, so
\* every key differs, or only in the program.
DiamondJob == {"src", "ssl", "zlib", "app"}
DiamondDeps == [src |-> {}, ssl |-> {"src"}, zlib |-> {"src"},
                app |-> {"ssl", "zlib"}]
DiamondRank == [app |-> 0, src |-> 1, ssl |-> 2, zlib |-> 3]
DiamondInput == [old |-> [j \in DiamondJob |-> 1],
                 new |-> [[j \in DiamondJob |-> 1] EXCEPT !["src"] = 2],
                 dbg |-> [[j \in DiamondJob |-> 1] EXCEPT !["zlib"] = 2]]
DiamondKey == MerkleKey(DiamondDeps, DiamondInput)
DiamondProduct == PureProduct(DiamondDeps, DiamondInput)

\* The sysroot as recipe/sysroot.go composes it: symlinks into the artifacts of
\* the libraries, so the interpreter that lists only the sysroot reads the
\* library's own artifact through it.
SysrootJob == {"dep", "sysroot", "py"}
SysrootDeps == [dep |-> {}, sysroot |-> {"dep"}, py |-> {"sysroot"}]
SysrootReads == [dep |-> {}, sysroot |-> {}, py |-> {"sysroot", "dep"}]
SysrootRank == [dep |-> 0, py |-> 1, sysroot |-> 2]
SysrootInput == [O2 |-> [dep |-> 2, sysroot |-> 1, py |-> 1],
                 O3 |-> [dep |-> 3, sysroot |-> 1, py |-> 1]]
SysrootKey == MerkleKey(SysrootDeps, SysrootInput)
SysrootProduct == PureProduct(SysrootReads, SysrootInput)

ProcSymmetry == Permutations({p1, p2})
================================================================================
