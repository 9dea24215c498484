------------------------------ MODULE SysrootTree ------------------------------
(***************************************************************************)
(* How the sysroot is composed (recipe/sysroot.go): the files of all       *)
(* libraries are merged into one tree of symlinks, and the files that      *)
(* record the prefix of a library are copied and rewritten instead.        *)
(*                                                                         *)
(* A file's content is a body and the prefixes it records: those of other  *)
(* artifacts, of the sysroot itself ("final"), or of another place of the  *)
(* store ("foreign").  Directories are left out: no path here is both.     *)
(***************************************************************************)
EXTENDS Naturals, FiniteSets, Sequences, Functions, Maps

CONSTANTS
  Orders,          \* the packages, in the order their trees are merged
  Trees,           \* package -> path -> [kind, body, prefixes, to]
  ProgramPaths     \* the paths below bin, sbin or libexec

\* Some library is in the profile (Sysroot), and each is merged once.
ASSUME OrdersAssumption ==
  \A o \in Orders, t \in Trees :
    /\ o \in Seq(DOMAIN t) /\ o # <<>> /\ IsInjective(o)
    /\ \A p \in DOMAIN t : \E i \in DOMAIN o : o[i] = p

\* No library's build is told of the sysroot, which is none of the libraries and
\* is published after them; and whether a file is text (isText) is seen from its
\* body.  Bound: a link leads to a file of its own library, and to no other link.
ASSUME TreesAssumption ==
  \A t \in Trees :
    /\ "final" \notin DOMAIN t
    /\ \A p \in DOMAIN t : \A path \in DOMAIN t[p] :
         LET f == t[p][path]
         IN  IF f.kind = "link"
             THEN f.to \in DOMAIN t[p] /\ \A q \in DOMAIN t : f.to \in DOMAIN t[q] => t[q][f.to].kind # "link"
             ELSE f.kind \in {"text", "binary"} /\ f.body # "nothing" /\ "final" \notin f.prefixes
    /\ \A p, q \in DOMAIN t : \A a \in DOMAIN t[p], b \in DOMAIN t[q] :
         "link" \notin {t[p][a].kind, t[q][b].kind} /\ t[p][a].body = t[q][b].body => t[p][a].kind = t[q][b].kind

VARIABLES
  composing,       \* idle, merging, done, failed
  queue,           \* packages still to merge
  left,            \* paths of the first of them still to place
  owner,           \* path -> the package that placed it
  placed,          \* path -> what lies there: a link into a package, a copy
  leftOut,         \* paths that were left out
  trees            \* the libraries of this job

sysrootVars == <<composing, queue, left, owner, placed, leftOut, trees>>

Nothing == [body |-> "nothing", prefixes |-> {}]
Content(f) == [body |-> f.body, prefixes |-> f.prefixes]

\* ReadFile follows a link; it fails where the link leads to nothing.
ReadAt(p, path) ==
  LET tree == trees[p]
      f    == tree[path]
  IN  IF f.kind # "link" THEN Content(f)
      ELSE IF f.to \in DOMAIN tree THEN Content(tree[f.to]) ELSE Nothing

Here(path) ==
  IF path \notin DOMAIN placed THEN Nothing
  ELSE CASE placed[path].as = "copy" -> placed[path].content
         [] placed[path].as = "into" -> ReadAt(placed[path].of, path)
         [] OTHER                    -> Nothing

Readable(path) ==
  IF path \in DOMAIN placed /\ placed[path].as = "link" THEN Here(placed[path].to) ELSE Here(path)

\* The prefix of every library gives way to that of the sysroot.
Rewritten(c) ==
  IF c.prefixes \cap DOMAIN trees = {} THEN c
  ELSE [c EXCEPT !.prefixes = (@ \ DOMAIN trees) \cup {"final"}]

Hit(c) == Rewritten(c) # c

\* assertNoStalePrefix, of a file that was rewritten.
Stale(c) == "foreign" \in c.prefixes

IsLeftOut(p, path) == LET f == trees[p][path] IN f.kind = "binary" /\ Hit(Content(f)) /\ path \in ProgramPaths

PlaceFails(f) ==
  /\ f.kind # "link" /\ Hit(Content(f))
  /\ IF f.kind = "binary" THEN TRUE ELSE Stale(Rewritten(Content(f)))

Image(p, f) ==
  CASE f.kind = "link" -> [as |-> "link", to |-> f.to]
    [] f.kind # "link" /\ Hit(Content(f)) -> [as |-> "copy", content |-> Rewritten(Content(f))]
    [] f.kind # "link" /\ ~Hit(Content(f)) -> [as |-> "into", of |-> p]

\* Who owns a path that was placed.
OwnerOf(p, path) == With(owner, path, p)

Place(p, path) ==
  LET f == trees[p][path]
  IN  /\ owner' = OwnerOf(p, path)
      /\ IF IsLeftOut(p, path)
         THEN /\ leftOut' = leftOut \cup {path} /\ composing' = composing /\ placed' = placed
         ELSE IF PlaceFails(f)
         THEN /\ composing' = "failed" /\ UNCHANGED <<placed, leftOut>>
         ELSE /\ placed' = With(placed, path, Image(p, f))
              /\ UNCHANGED <<composing, leftOut>>

\* Slip: the first one wins.
FirstWins(p, path) == TRUE

\* Two packages may install one path only with one content.
SameContent(p, path) ==
  /\ Readable(path) # Nothing /\ ReadAt(p, path) # Nothing
  /\ Readable(path) = Rewritten(ReadAt(p, path))

Collide(p, path) ==
  /\ composing' = IF SameContent(p, path) THEN composing ELSE "failed"
  /\ UNCHANGED <<owner, placed, leftOut>>

MergeEntry ==
  /\ composing = "merging" /\ left # {}
  /\ \E path \in left :
       /\ IF path \in DOMAIN owner THEN Collide(Head(queue), path) ELSE Place(Head(queue), path)
       /\ left' = left \ {path}
  /\ UNCHANGED <<queue, trees>>

NextPackage ==
  /\ composing = "merging" /\ left = {}
  /\ queue' = Tail(queue)
  /\ IF queue' = <<>> THEN composing' = "done" /\ left' = {}
     ELSE composing' = composing /\ left' = DOMAIN trees[Head(queue')]
  /\ UNCHANGED <<owner, placed, leftOut, trees>>

SysrootInit ==
  /\ composing = "idle" /\ queue = <<>> /\ left = {} /\ owner = <<>>
  /\ placed = <<>> /\ leftOut = {} /\ trees = <<>>

Compose(t, order) ==
  /\ composing = "idle" /\ composing' = "merging"
  /\ trees' = t /\ queue' = order /\ left' = DOMAIN t[Head(order)]
  /\ UNCHANGED <<owner, placed, leftOut>>

SysrootNext ==
  \/ composing = "idle" /\ \E t \in Trees, o \in Orders : Compose(t, o)
  \/ MergeEntry
  \/ NextPackage

SysrootSpec == SysrootInit /\ [][SysrootNext]_sysrootVars

--------------------------------------------------------------------------------
(* Properties.                                                             *)

\* What is placed has an owner, and what is left out is not there.
SysrootTypeOK ==
  /\ composing \in {"idle", "merging", "done", "failed"}
  /\ DOMAIN placed \cup leftOut \subseteq DOMAIN owner
  /\ DOMAIN placed \cap leftOut = {}

\* A library's file, its link included, that was left out of the sysroot.
Missing(p, path) ==
  LET f == trees[p][path]
  IN  \/ IsLeftOut(p, path)
      \/ f.kind = "link" /\ (f.to \notin DOMAIN trees[p] \/ IsLeftOut(p, f.to))

\* "Letting one win is how a header ends up describing a different build of the
\* library beside it" (collide): in a finished sysroot every library finds each
\* of its files, under its own name and as it would be on its own, but for the
\* programs that were left out.  A program that was left out does not hide
\* another package's file of that name either.
NoSilentWinner ==
  composing = "done" =>
    \A p \in DOMAIN trees : \A path \in DOMAIN trees[p] :
      ~Missing(p, path) => Readable(path) = Rewritten(ReadAt(p, path))

\* A file of the finished sysroot leads no consumer into a library's own prefix
\* (place): it was rewritten, or it names none.
ConsumersStayInside ==
  composing = "done" =>
    \A path \in DOMAIN placed : Readable(path).prefixes \cap DOMAIN trees = {}

\* What may be composed, without an order.
Composable ==
  /\ \A p \in DOMAIN trees : \A path \in DOMAIN trees[p] :
       IsLeftOut(p, path) \/ ~PlaceFails(trees[p][path])
  /\ \A p, q \in DOMAIN trees : p # q =>
       \A path \in DOMAIN trees[p] \cap DOMAIN trees[q] :
         /\ ~Missing(p, path) /\ ~Missing(q, path)
         /\ Rewritten(ReadAt(p, path)) = Rewritten(ReadAt(q, path))

\* The order in which the libraries are merged decides nothing: the job ends
\* well exactly when no two of them disagree and none needs a file rewritten
\* that cannot be.
OrderDecidesNothing ==
  /\ composing = "done" => Composable
  /\ composing = "failed" => ~Composable

\* A sysroot is the union of its libraries, whichever is merged first, or there
\* is none.
SysrootIsTheUnion == SysrootTypeOK /\ NoSilentWinner /\ ConsumersStayInside /\ OrderDecidesNothing
================================================================================
