------------------------------ MODULE MCVerdict --------------------------------
(***************************************************************************)
(* An instance of Verdict for TLC: interpreters that are wrong in one way   *)
(* each, and expectations written under every kind of key.                 *)
(***************************************************************************)
EXTENDS Verdict, TLC

X86 == [triple |-> "x86", machine |-> "x86", bits |-> 64, native |-> FALSE, qemu |-> "usable"]

Good == [id |-> "good", exists |-> TRUE, readable |-> TRUE, static |-> TRUE, machine |-> "x86", bits |-> 64,
         stripped |-> FALSE, symbols |-> TRUE, works |-> {"import", "sys.version"}, host |-> FALSE]
Built ==
  {Good,
   [Good EXCEPT !.id = "reference", !.static = FALSE, !.symbols = FALSE, !.host = TRUE],
   [Good EXCEPT !.id = "missing", !.exists = FALSE],
   [Good EXCEPT !.id = "garbage", !.readable = FALSE],
   [Good EXCEPT !.id = "dynamic", !.static = FALSE],
   [Good EXCEPT !.id = "other machine", !.machine = "arm"],
   [Good EXCEPT !.id = "no symbols", !.symbols = FALSE],
   [Good EXCEPT !.id = "stripped", !.symbols = FALSE, !.stripped = TRUE, !.bits = 32],
   [Good EXCEPT !.id = "no module", !.works = {"sys.version"}]}

Buckets == {{"OK"}, {"env changed"}, {"failed", "env changed"}, {"skipped"}}

Lists(s, f) == [skip |-> s, fail |-> f]
SomeTables ==
  {(ExpectAll :> Lists({"a"}, {})) @@ (ExpectStatic :> Lists({}, {"a"})),
   ExpectKey("x86", "native") :> Lists({"a"}, {"b"}),
   ExpectKey("x86", "qemu") :> Lists({"a"}, {"b"}),
   (ExpectKey(AnyTriple, "qemu") :> Lists({}, {"c"})) @@ (ExpectKey("x86", AnyRunner) :> Lists({"b"}, {}))}
================================================================================
