---------------------------- MODULE MCTreeMerge ----------------------------
(***************************************************************************)
(* Trees of one file "f" and one name "d" that is a file or a directory of *)
(* files of these names.  A file has one of two contents, and outside of    *)
(* the directory may be executable.                                        *)
(***************************************************************************)
EXTENDS TreeMerge

CONSTANTS f, d, x, y

File(mode, content) == [mode |-> mode, id |-> content]

Directory(tree) == [mode |-> "directory", id |-> tree]

SomeFiles == {File("regular", x), File("regular", y)}

(* The partial functions from names to entries, each name with its own. *)
TreesOver(names, entries) ==
    UNION {{t \in [present -> UNION {entries[n] : n \in names}] :
                \A n \in present : t[n] \in entries[n]} : present \in SUBSET names}

Subtrees == TreesOver({f, d}, [n \in {f, d} |-> SomeFiles])

FluxTrees ==
    TreesOver({f, d}, [n \in {f, d} |->
        IF n = d THEN SomeFiles \cup {Directory(t) : t \in Subtrees}
        ELSE {File("regular", x), File("executable", x), File("executable", y)}])

TreeDepth ==
    [t \in FluxTrees \cup Subtrees |-> IF \E n \in DOMAIN t : IsDirectory(t[n]) THEN 1 ELSE 0]
=============================================================================
