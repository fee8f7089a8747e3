---------------------------- MODULE MCAtomicFile ----------------------------
(* AtomicFile for TLC: a short file that stays in the stream's buffer and a  *)
(* long one that does not.                                                   *)
EXTENDS AtomicFile, TLC

CONSTANTS short, long

Sizes == [d \in {short, long} |-> IF d = short THEN 1 ELSE 2]

Symmetries == Permutations(Reader) \cup Permutations(Inode) \cup Permutations(Writer)
=============================================================================
