----------------------------- MODULE MCWorkTree -----------------------------
(***************************************************************************)
(* A repository made by flux init, or cloned with a directory on one branch *)
(* and a file in the directory's place on the other.                       *)
(***************************************************************************)
EXTENDS WorkTree

CONSTANTS main, dev, d, g, x

Names == <<d, g>>

FileContents == {<<>>, <<x, x>>}

FilePaths == {<<d, g>>}

File(content) == [mode |-> "regular", id |-> Raw(content)]

Subtree(entries) == [mode |-> "directory", id |-> TreeOf(entries)]

WithDirectory == d :> Subtree(d :> Subtree(g :> File(<<x>>)) @@ g :> File(<<x>>))

WithFile == d :> File(<<x>>)

ClonedTrees == {[b \in {main, dev} |-> IF b = main THEN WithDirectory ELSE WithFile]}
=============================================================================
