----------------------------- MODULE ArtifactStore -----------------------------
(***************************************************************************)
(* What dist/artifacts promises the jobs that read it, without locks,      *)
(* goroutines or renames. A slot is empty or holds one finished artifact;  *)
(* a maker pins every slot it reads, all at once and each at the key it    *)
(* wants; a pinned slot does not change; what is stocked is exactly what   *)
(* its key promises.                                                       *)
(***************************************************************************)
CONSTANTS
  Slot,      \* job slugs
  Maker,     \* goroutines that may build
  Config, Key, Product,
  Needs      \* [Slot -> SUBSET Slot]: what the maker of a slot must pin

VARIABLES
  shelf,     \* [Slot -> set of at most one artifact]
  pins       \* [Slot -> SUBSET Maker]

vars == <<shelf, pins>>

Fresh(c, s) == [key |-> Key[c][s], body |-> Product[c][s]]

Init ==
  /\ shelf = [s \in Slot |-> {}]
  /\ pins = [s \in Slot |-> {}]

\* A maker pins everything slot s needs, in the versions of configuration c.
Pin(m, s, c) ==
  /\ \A d \in Needs[s] : \E a \in shelf[d] : a.key = Key[c][d]
  /\ pins' = [d \in Slot |-> IF d \in Needs[s] THEN pins[d] \cup {m} ELSE pins[d]]
  /\ UNCHANGED shelf

\* Makers stop reading: done, failed, cancelled or killed.
LetGo(M) ==
  /\ pins' = [d \in Slot |-> pins[d] \ M]
  /\ UNCHANGED shelf

\* An artifact nobody reads is taken off the shelf, to be replaced by one with
\* another key.
Withdraw(s, c) ==
  /\ pins[s] = {}
  /\ \A a \in shelf[s] : a.key # Key[c][s]
  /\ shelf' = [shelf EXCEPT ![s] = {}]
  /\ UNCHANGED pins

\* A maker that has pinned all it needs stocks an empty slot and lets go.
Stock(m, s, c) ==
  /\ pins[s] = {} /\ shelf[s] = {}
  /\ \A d \in Needs[s] : m \in pins[d]
  /\ shelf' = [shelf EXCEPT ![s] = {Fresh(c, s)}]
  /\ pins' = [d \in Slot |-> pins[d] \ {m}]

Next ==
  \/ \E m \in Maker, s \in Slot, c \in Config : Pin(m, s, c) \/ Stock(m, s, c)
  \/ \E s \in Slot, c \in Config : Withdraw(s, c)
  \/ \E M \in SUBSET Maker : LetGo(M)

Spec == Init /\ [][Next]_vars
================================================================================
