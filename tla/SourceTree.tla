------------------------------- MODULE SourceTree ------------------------------
(***************************************************************************)
(* The Build of a source tree job (sources/srctree.go): the archive is     *)
(* extracted entry by entry (extract.go), the patches are applied in order *)
(* (patches.go), and then the edits, each to what the earlier ones left    *)
(* (edits.go).                                                             *)
(*                                                                         *)
(* A text is the sequence of the lines that strings.Split finds in it, so  *)
(* that <<"">> is the empty file and a final newline is a last line "".    *)
(***************************************************************************)
EXTENDS Naturals, Integers, FiniteSets, SequencesExt, Maps

CONSTANTS
  Archives,        \* sequences of entries [kind, name, to, text].  Bound: nothing
                   \* lies below a file or a link, and no link leads to a link
  TopDir,          \* the wrapper directory of the archives, "" for none
  PatchLists,      \* sequences of patches [file, becomes]
  EditLists,       \* sequences of edits
  AssetTexts,      \* asset name -> text, for the text_file of an edit
  RegexLines       \* regular expression that compiles -> the lines it matches

VARIABLES
  job,             \* begin, extract, patch, edit, done, failed
  dst,             \* how Extract found its destination: absent, empty or full
  tree,            \* path -> [kind, at]: a file's inode, a link's target
  text,            \* inode -> text; an inode is named by its first path
  entries,         \* what is left of the archive
  written,         \* how many entries came out of it
  patches,         \* the patches left
  todo,            \* the edits left
  edits,           \* history: all edits of the source
  patched          \* history: the texts as the first edit found them

treeVars == <<job, dst, tree, text, entries, written, patches, todo, edits, patched>>

Blank == ""
EmptyText == <<Blank>>
AllTexts == Seq(STRING) \ {<<>>}

--------------------------------------------------------------------------------
(* Edits.                                                                  *)

NoEdit == [file |-> <<>>, anchor |-> "", regex |-> FALSE, action |-> "", text |-> EmptyText,
           textFile |-> "", mustMatch |-> 0]

EditShape(e) ==
  e.text \in AllTexts /\ e.mustMatch \in Int /\ (e.textFile = "" \/ e.textFile \in DOMAIN AssetTexts)

\* Files and fragments are texts, and every asset is there: of a patch or a text
\* that could not be read for the key of the job, Build has the error and stops at
\* once.
ASSUME TextsAssumption ==
  /\ \A a \in Archives : a \in Seq(ToSet(a)) /\ \A n \in ToSet(a) : n.text \in AllTexts
  /\ \A d \in PatchLists : d \in Seq(ToSet(d)) /\ \A p \in ToSet(d) : p.becomes \in AllTexts
  /\ \A l \in EditLists : l \in Seq(ToSet(l)) /\ \A e \in ToSet(l) : EditShape(e)
  /\ \A name \in DOMAIN AssetTexts : AssetTexts[name] \in AllTexts

Actions == {"insert_after", "insert_before", "replace_line", "delete_line"}

\* What the configuration lets pass (config/validate.go) ...
AcceptedEdit(e) ==
  /\ e.file # <<>> /\ e.anchor # ""
  /\ e.action \in Actions
  /\ ~(e.text # EmptyText /\ e.textFile # "")
  /\ (e.action # "delete_line") = (e.text # EmptyText \/ e.textFile # "")
  /\ e.mustMatch >= 0

\* ... and what applyEdit asks for (edits.go, validateEdit).
ValidEdit(e) ==
  /\ CASE e.action \in {"insert_after", "insert_before", "replace_line"} ->
            e.text # EmptyText \/ e.textFile # ""
       [] e.action = "delete_line" -> e.text = EmptyText /\ e.textFile = ""
       [] OTHER -> FALSE
  /\ e.text = EmptyText \/ e.textFile = ""
  /\ e.file # <<>> /\ e.anchor # "" /\ e.mustMatch >= 0

\* regexp.Compile, which nothing tries before.
Compiles(e) == e.regex => e.anchor \in DOMAIN RegexLines

\* resolve: a cleaned path that is absolute or begins with "..".
LeadsOut(path) == path # <<>> /\ Head(path) \in {"/", ".."}

Matches(e, line) == IF e.regex THEN line \in RegexLines[e.anchor] ELSE line = e.anchor

\* strings.TrimSuffix of one newline, for a text that comes from an asset.
TrimNewline(t) == IF Len(t) > 1 /\ Last(t) = Blank THEN Front(t) ELSE t

EditText(e) == IF e.textFile = "" THEN e.text ELSE TrimNewline(AssetTexts[e.textFile])

SplitLines(t) ==
  IF t = EmptyText THEN [lines |-> <<>>, newline |-> FALSE]
  ELSE IF Last(t) = Blank THEN [lines |-> Front(t), newline |-> TRUE]
  ELSE [lines |-> t, newline |-> FALSE]

Joined(lines) == IF lines = <<>> THEN EmptyText ELSE lines

Want(e) == IF e.mustMatch = 0 THEN 1 ELSE e.mustMatch

Hits(e, t) == Cardinality({i \in DOMAIN SplitLines(t).lines : Matches(e, SplitLines(t).lines[i])})

Added(e) == SplitLines(EditText(e)).lines

EditedLine(e, line) ==
  IF ~Matches(e, line) THEN <<line>>
  ELSE CASE e.action = "insert_after"  -> <<line>> \o Added(e)
         [] e.action = "insert_before" -> Added(e) \o <<line>>
         [] e.action = "replace_line"  -> Added(e)
         [] OTHER                      -> <<>>

EditedLines(e, lines) == FlattenSeq([i \in DOMAIN lines |-> EditedLine(e, lines[i])])

Edited(e, t) ==
  LET old  == SplitLines(t)
      body == Joined(EditedLines(e, old.lines))
  IN  IF old.newline /\ body # EmptyText THEN Append(body, Blank) ELSE body

\* What EditSetHash hashes of an edit: all but its reason.
EditKey(e) ==
  [file |-> e.file, anchor |-> e.anchor, action |-> e.action, must |-> e.mustMatch,
   regex |-> e.regex, text |-> EditText(e)]

--------------------------------------------------------------------------------
(* Extraction.                                                             *)

Metadata == {"PaxHeaders", "pax_global_header", "@PaxHeader"}

\* strip: an entry's place below the top directory, if it has one.
Skipped(name) ==
  \/ name = <<>> \/ \E i \in DOMAIN name : name[i] \in Metadata
  \/ TopDir # "" /\ name = <<TopDir>>
Outside(name) == ~Skipped(name) /\ TopDir # "" /\ Head(name) # TopDir
Inside(name) == IF TopDir = "" THEN name ELSE Tail(name)

\* Where a path leads, through the link that it may be, and the inode there.
Lead(p) == IF p \in DOMAIN tree /\ tree[p].kind = "link" THEN tree[p].at ELSE p
At(p) == IF Lead(p) \in DOMAIN tree THEN tree[Lead(p)].at ELSE Lead(p)

Is(p, kind) == p \in DOMAIN tree /\ tree[p].kind = kind
NotEmpty(p) == \E q \in DOMAIN tree : Len(q) > Len(p) /\ SubSeq(q, 1, Len(p)) = p

\* What does not fit where it should go, or is to lead out of the tree: a file is
\* written through a link, and a hard link is one more name for what came before.
EntryFails(n) ==
  \/ Outside(n.name)
  \/ /\ ~Skipped(n.name)
     /\ \/ n.kind = "file" /\ Lead(Inside(n.name)) \in DOMAIN tree /\ ~Is(Lead(Inside(n.name)), "file")
        \/ n.kind = "dir" /\ Inside(n.name) \in DOMAIN tree /\ ~Is(Lead(Inside(n.name)), "dir")
        \/ n.kind \in {"link", "hard"} /\ Is(Inside(n.name), "dir") /\ NotEmpty(Inside(n.name))
        \/ n.kind = "link" /\ n.to = "elsewhere"
        \/ n.kind = "hard" /\ (\/ Skipped(n.to) \/ Outside(n.to) \/ Inside(n.to) = Inside(n.name)
                               \/ Inside(n.to) \notin DOMAIN tree \/ Is(Inside(n.to), "dir"))

Write(p, t) ==
  /\ text' = With(text, At(p), t)
  /\ tree' = IF Lead(p) \in DOMAIN tree THEN tree ELSE With(tree, Lead(p), [kind |-> "file", at |-> Lead(p)])

MkdirAll(p) == tree' = (IF p \in DOMAIN tree THEN tree ELSE With(tree, p, [kind |-> "dir", at |-> p])) /\ text' = text

\* Slip: what was extracted so far is left there.
LeftAsItIs == UNCHANGED <<tree, text>>

\* What was found empty or absent is emptied again; nothing is touched otherwise.
EmptyAgain == tree' = <<>> /\ text' = <<>>

LinkedNode(to) == tree[to]

BeginExtract ==
  /\ job = "begin"
  /\ job' = IF dst = "full" THEN "failed" ELSE "extract"
  /\ UNCHANGED <<dst, tree, text, entries, written, patches, todo, edits, patched>>

SkipEntry ==
  /\ job = "extract" /\ entries # <<>>
  /\ Skipped(Head(entries).name) \/ Head(entries).kind = "device"
  /\ ~EntryFails(Head(entries))
  /\ entries' = Tail(entries)
  /\ UNCHANGED <<job, dst, tree, text, written, patches, todo, edits, patched>>

ExtractEntry ==
  /\ job = "extract" /\ entries # <<>>
  /\ LET n == Head(entries)
         p == Inside(n.name)
     IN  /\ ~Skipped(n.name) /\ n.kind # "device" /\ ~EntryFails(n)
         /\ \/ n.kind = "file" /\ Write(p, n.text)
            \/ n.kind = "dir" /\ MkdirAll(p)
            \/ n.kind = "link" /\ tree' = With(tree, p, [kind |-> "link", at |-> n.to]) /\ text' = text
            \/ n.kind = "hard" /\ tree' = With(tree, p, LinkedNode(Inside(n.to))) /\ text' = text
  /\ entries' = Tail(entries)
  /\ written' = written + 1
  /\ UNCHANGED <<job, dst, patches, todo, edits, patched>>

\* An entry that is refused, a read or a write that fails, a cancelled context.
ExtractFails ==
  /\ job = "extract"
  /\ job' = "failed"
  /\ EmptyAgain
  /\ UNCHANGED <<dst, entries, written, patches, todo, edits, patched>>

EndExtract ==
  /\ job = "extract" /\ entries = <<>>
  /\ job' = IF written = 0 THEN "failed" ELSE "patch"
  /\ IF written = 0 THEN EmptyAgain ELSE UNCHANGED <<tree, text>>
  /\ UNCHANGED <<dst, entries, written, patches, todo, edits, patched>>

--------------------------------------------------------------------------------
(* Patches and edits.                                                      *)

\* patch(1) applies a diff whole or fails.
ApplyPatch ==
  /\ job = "patch" /\ patches # <<>>
  /\ LET d == Head(patches)
     IN  \/ /\ Is(d.file, "file")
            /\ Write(d.file, d.becomes)
            /\ job' = job
         \/ job' = "failed" /\ UNCHANGED <<tree, text>>
  /\ patches' = Tail(patches)
  /\ UNCHANGED <<dst, entries, written, todo, edits, patched>>

BeginEdits ==
  /\ job = "patch" /\ patches = <<>>
  /\ job' = "edit"
  /\ patched' = text
  /\ UNCHANGED <<dst, tree, text, entries, written, patches, todo, edits>>

EditApplies(e) ==
  /\ ValidEdit(e) /\ ~LeadsOut(e.file) /\ Compiles(e)
  /\ e.file \in DOMAIN tree /\ At(e.file) \in DOMAIN text
  /\ Hits(e, text[At(e.file)]) = Want(e)

\* What the edit makes of its file; slip: of the file as it was before all edits.
EditedFirst(e) == Edited(e, patched[At(e.file)])
EditedNow(e) == Edited(e, text[At(e.file)])

ApplyEdit ==
  /\ job = "edit" /\ todo # <<>>
  /\ LET e == Head(todo)
     IN  IF EditApplies(e)
         THEN text' = [text EXCEPT ![At(e.file)] = EditedNow(e)] /\ job' = job
         ELSE text' = text /\ job' = "failed"
  /\ todo' = Tail(todo)
  /\ UNCHANGED <<dst, tree, entries, written, patches, edits, patched>>

EndEdits ==
  /\ job = "edit" /\ todo = <<>>
  /\ job' = "done"
  /\ UNCHANGED <<dst, tree, text, entries, written, patches, todo, edits, patched>>

TreeInit ==
  /\ job = "idle" /\ dst = "absent" /\ tree = <<>> /\ text = <<>> /\ entries = <<>>
  /\ written = 0 /\ patches = <<>> /\ todo = <<>> /\ edits = <<>> /\ patched = <<>>

\* SrcTree: a source as the configuration lets it pass.
BuildTree(found, archive, diffs, list) ==
  /\ job' = "begin" /\ dst' = found /\ entries' = archive /\ patches' = diffs
  /\ edits' = list /\ todo' = list
  /\ UNCHANGED <<tree, text, written, patched>>

TreeNext ==
  \/ /\ job = "idle"
     /\ \E found \in {"absent", "empty", "full"}, a \in Archives, d \in PatchLists, l \in EditLists :
          (\A i \in DOMAIN l : AcceptedEdit(l[i])) /\ BuildTree(found, a, d, l)
  \/ BeginExtract \/ SkipEntry \/ ExtractEntry \/ ExtractFails \/ EndExtract
  \/ ApplyPatch \/ BeginEdits \/ ApplyEdit \/ EndEdits

TreeSpec == TreeInit /\ [][TreeNext]_treeVars

--------------------------------------------------------------------------------
(* Properties.                                                             *)

\* The stages of a source tree job, and that every file has a text.
TreeTypeOK ==
  /\ job \in {"idle", "begin", "extract", "patch", "edit", "done", "failed"}
  /\ written \in Nat
  /\ \A p \in DOMAIN tree : tree[p].kind = "file" => tree[p].at \in DOMAIN text

\* A failed extraction leaves no half of a tree behind (Extract, "emptied
\* again"), and an archive whose tree comes out empty is a failure.
FailedExtractLeavesNothing ==
  /\ (job = "failed" /\ (entries # <<>> \/ written = 0)) => tree = <<>>
  /\ job \in {"patch", "edit", "done"} => tree # <<>>

\* Whatever validateSources lets pass, validateEdit lets pass: an accepted edit is
\* refused by the tree it meets, or for one of the two mistakes in its own writing
\* that validateSources does not look for, a path and an expression.
RefusedByTheTree ==
  \A i \in DOMAIN todo :
    LET e == todo[i]
    IN  AcceptedEdit(e) /\ ~EditApplies(e) =>
          \/ LeadsOut(e.file) \/ ~Compiles(e)
          \/ e.file \notin DOMAIN tree \/ At(e.file) \notin DOMAIN text
          \/ Hits(e, text[At(e.file)]) # Want(e)

\* How many lines an edit adds to its file.
Growth(e) ==
  Want(e) * (Len(Added(e)) - (IF e.action \in {"replace_line", "delete_line"} THEN 1 ELSE 0))

\* What an edit is to make of the text of the file f, and of its length.
Meant(e, f, t) == IF At(e.file) = f THEN Edited(e, t) ELSE t
Lengthened(e, f, n) == IF At(e.file) = f THEN n + Growth(e) ELSE n

Declared(list, f) ==
  LET length[n \in 0..Len(list)] == IF n = 0 THEN Len(patched[f]) ELSE Lengthened(list[n], f, length[n - 1])
  IN  length[Len(list)]

Result(list, f) ==
  LET texts[n \in 0..Len(list)] == IF n = 0 THEN patched[f] ELSE Meant(list[n], f, texts[n - 1])
  IN  texts[Len(list)]

\* When the job is done every edit has happened, and exactly as often as it
\* declares, also where edits share a file and see each other's lines
\* (MatchCountError, "the edit silently does nothing"): each file has grown by
\* what its edits add.  Of a file of which no line is left, or one blank line,
\* the newline is lost as well: applyEdit takes that for no text at all.
DeclaredEditsHappened ==
  job = "done" =>
    \A f \in DOMAIN text :
      \/ Len(text[f]) = Declared(edits, f)
      \/ text[f] = EmptyText /\ Declared(edits, f) \in {0, 2}

\* No line that one edit of a file looks for is blank, is put in by another, or
\* is looked for by both.
Independent(e1, e2) ==
  LET lines == ToSet(patched[At(e1.file)]) \cup ToSet(Added(e1)) \cup ToSet(Added(e2))
  IN  At(e1.file) = At(e2.file) =>
        \A l \in lines : Matches(e1, l) => l # Blank /\ ~Matches(e2, l) /\ l \notin ToSet(Added(e2))

\* The order of edits matters only among edits that see each other's lines: for
\* independent ones the reverse order gives the same tree, up to how many blank
\* lines are left of a file of which nothing else is.
IndependentEditsCommute ==
  job = "done" /\ (\A i, k \in DOMAIN edits : i # k => Independent(edits[i], edits[k]))
    => \A f \in DOMAIN text :
         \/ Result(Reverse(edits), f) = text[f]
         \/ ToSet(Result(Reverse(edits), f)) = {Blank} /\ ToSet(text[f]) = {Blank}

\* Two lists of edits with the same hash make the same tree, so a tree that is
\* reused by its key is the one that would be built (EditSetHash).
SameKeySameTree ==
  job = "done" =>
    \A other \in EditLists :
      (/\ Len(other) = Len(edits)
       /\ \A i \in DOMAIN other : EditKey(other[i]) = EditKey(edits[i]))
      => \A f \in DOMAIN text : Result(other, f) = text[f]

\* An extracted tree is one: nothing half made is left, and every file has its text.
TreesAreWhole == TreeTypeOK /\ FailedExtractLeavesNothing

\* Edits do what they declare or stop the job: as often as they say, in an order that
\* matters only where edits meet, and the key tells lists apart.
EditsAreExact == RefusedByTheTree /\ DeclaredEditsHappened /\ IndependentEditsCommute /\ SameKeySameTree
================================================================================
