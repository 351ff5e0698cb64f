---------------------------- MODULE MCSideEffects ----------------------------
(* Finite instances of SideEffects: one path, two contents.  A command that  *)
(* is no validator behaves as a validator that does not pass.                *)
EXTENDS SideEffects, TLC

CONSTANTS p1, A, B

Writes  == [tool : {"Write"}, path : {p1}, content : {B}]
Edits   == {[tool |-> "Edit", path |-> p1, expected |-> A, content |-> B]}
Shells  == {[tool |-> "Shell", validator |-> TRUE]}
Asserts == [tool : {"FileAssert"}, path : {p1}]

AllOps  == Writes \cup Edits \cup Shells \cup Asserts
FileOps == Writes \cup Edits \cup Asserts
MCMutations == Nat
CallSymmetry == Permutations(Calls)
=============================================================================
