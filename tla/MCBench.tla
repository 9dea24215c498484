-------------------------------- MODULE MCBench --------------------------------
(***************************************************************************)
(* Instances of Bench for TLC.                                              *)
(***************************************************************************)
EXTENDS Bench

TwoCases == <<"bm_pickle", "bm_xml">>
OneCase == <<"bm_pickle">>
TheirNames == [micro |-> {"dispatch", "startup"}, bm_pickle |-> {"pickle"}, bm_xml |-> {"xml_parse", "xml_iterparse"}]
\* Of two benchmarks a file may have both, one, or both and the times of one.
TheirFiles ==
  {NamesNone, Whole("bm_pickle"), Whole("bm_xml"), [names |-> {"xml_parse"}, timed |-> {"xml_parse"}],
   [names |-> {"xml_parse", "xml_iterparse"}, timed |-> {"xml_iterparse"}]}
WellKnown == {"static", "reference", "system"}

Interp(l, p) == [label |-> l, path |-> p]
NoKit == <<>>
TheKit == <<[arms |-> <<Interp("default", "/k/default"), Interp("reference", "/k/reference")>>, baseline |-> "default"]>>
BadKit == <<[arms |-> <<Interp("default", "/k/default"), Interp("default", "/k/two")>>, baseline |-> "default"]>>
SomeLineups ==
  {[kit |-> k, interps |-> i, only |-> o, flag |-> f] :
     k \in {NoKit, TheKit, BadKit}, o \in {{}, {"static"}}, f \in {"", "system"},
     i \in {<<>>, <<Interp("static", ""), Interp("system", "")>>,
            <<Interp("static", ""), Interp("reference", ""), Interp("static", "/else")>>,
            <<Interp("default", ""), Interp("nosuch", "")>>}}
OneArm == {[kit |-> NoKit, interps |-> <<Interp("static", "")>>, only |-> {}, flag |-> ""]}

Core(c, f, r) == [capacity |-> c, freq |-> f, rank |-> r]
SomeMachines ==
  {<<>>} \cup {<<Core(c, f, 2), Core(d, 2, r), Core(1, e, 2)>> : c \in {0, 1}, d \in {1, 2}, f \in {2, 3}, e \in {2, 3}, r \in {1, 3}}
OneMachine == {<<Core(0, 2, 1), Core(0, 2, 1)>>}

SomePinFlags ==
  {[off |-> b, want |-> w, pick |-> p] : b \in BOOLEAN, w \in {{}, {1}, {7}}, p \in {{}, {2}}}
NoPinFlags == {[off |-> FALSE, want |-> {}, pick |-> {}]}
================================================================================
