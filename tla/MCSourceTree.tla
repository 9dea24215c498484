------------------------------ MODULE MCSourceTree -----------------------------
(***************************************************************************)
(* Instances of SourceTree for TLC.                                        *)
(***************************************************************************)
EXTENDS SourceTree, TLC

Entry(k, n) == [kind |-> k, name |-> n, to |-> <<>>, text |-> EmptyText]
Plain(n, t) == [Entry("file", n) EXCEPT !.text = t]
Linked(k, n, to) == [Entry(k, n) EXCEPT !.to = to]

Makefile == Plain(<<"top", "Makefile">>, <<"all", "x", "", "x", "">>)
Header == Plain(<<"top", "h">>, <<"x">>)
SomeArchives ==
  {<<Entry("dir", <<"top">>), Makefile, Header>>,
   <<Entry("file", <<"PaxHeaders", "top">>), Header, Linked("hard", <<"top", "Makefile">>, <<"top", "h">>),
     Linked("hard", <<"top", "g">>, <<"top", "Makefile">>)>>,
   <<Makefile, Linked("link", <<"top", "h">>, <<"Makefile">>), Entry("device", <<"top", "tty">>)>>,
   <<Makefile, Linked("link", <<"top", "h">>, <<"Makefile">>), Plain(<<"top", "h">>, <<"x", "">>),
     Linked("hard", <<"top", "g">>, <<"top", "h">>)>>,
   <<Makefile, Linked("link", <<"top", "h">>, "elsewhere")>>,
   <<Makefile, Plain(<<"other", "h">>, <<"x">>)>>,
   <<Linked("hard", <<"top", "h">>, <<"top", "Makefile">>), Makefile>>,
   <<Entry("dir", <<"top", "d">>), Linked("hard", <<"top", "h">>, <<"top", "d">>)>>,
   <<Entry("dir", <<"top">>)>>}

SomePatches ==
  {<<>>, <<[file |-> <<"Makefile">>, becomes |-> <<"", "x", "">>], [file |-> <<"h">>, becomes |-> <<"y", "all">>]>>}

Edit(f, a, act, t) == [NoEdit EXCEPT !.file = <<f>>, !.anchor = a, !.action = act, !.text = t]
SomeEdits ==
  {Edit("Makefile", "x", act, <<"all", "x">>) : act \in {"insert_after", "replace_line"}}
  \cup {[Edit("Makefile", "x", "delete_line", EmptyText) EXCEPT !.mustMatch = m] : m \in 0..2}
  \cup {[Edit("Makefile", "x", "insert_before", EmptyText) EXCEPT !.textFile = "fragment", !.mustMatch = 2],
        [Edit("Makefile", "all|x", "replace_line", <<"x">>) EXCEPT !.regex = TRUE, !.mustMatch = 3],
        [Edit("Makefile", "all|x", "replace_line", <<"x">>) EXCEPT !.mustMatch = 3],
        Edit("h", "x", "insert_after", <<"z">>),
        Edit("h", "x", "insert_after", <<"z", "">>),
        [Edit("h", "x", "insert_after", EmptyText) EXCEPT !.textFile = "letter"],
        Edit("h", "y", "insert_before", <<"w">>),
        Edit("Makefile", "all", "delete_line", EmptyText),
        Edit("h", "x", "delete_line", <<"z">>)}
\* A blank line in the place of one, also of the last one, and of every one.
Blanked(l) == Edit("h", l, "replace_line", <<"", "">>)
SomeLists ==
  UNION {[1..n -> SomeEdits] : n \in 0..2} \cup
  {<<Edit("Makefile", "all", "insert_after", <<"x">>), e,
     [Edit("Makefile", "x", "delete_line", EmptyText) EXCEPT !.mustMatch = 3]>> : e \in SomeEdits}
  \cup {<<Blanked("all")>>, <<Blanked("all"), Blanked("y")>>, <<Blanked("y"), Blanked("all")>>,
        <<Edit("h", "y", "delete_line", EmptyText), Blanked("all")>>,
        <<[Edit("Makefile", "^$", "replace_line", <<"q">>) EXCEPT !.regex = TRUE],
          Edit("Makefile", "x", "delete_line", EmptyText)>>}
  \cup UNION {{<<e>>, <<Edit("h", "x", "insert_after", <<"z">>), e>>} :
                e \in {[Edit("h", "x(", "insert_after", <<"z">>) EXCEPT !.regex = TRUE],
                      [Edit("h", "x", "insert_after", <<"z">>) EXCEPT !.file = <<"..", "h">>]}}

Texts == [fragment |-> <<"y", "all", "">>, letter |-> <<"z", "">>]
Regexes == ("all|x" :> {"all", "x"}) @@ ("^$" :> {""})
================================================================================
