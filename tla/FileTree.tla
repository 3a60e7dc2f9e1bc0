------------------------------ MODULE FileTree ------------------------------
(***************************************************************************)
(* What the tools promise their users: a tree of directories and files.    *)
(* A tool that succeeds changes what one path names; a tool that fails     *)
(* changes nothing.                                                        *)
(***************************************************************************)
EXTENDS SequencesExt

CONSTANTS
    Path,    \* paths from the root, sequences of names
    File     \* the contents of files

VARIABLE
    tree     \* [Path -> Node]: what the paths name

Nothing == [type |-> "none", contents |-> <<>>]
Directory == [type |-> "dir", contents |-> <<>>]
FileOf(file) == [type |-> "file", contents |-> file]

Node == {Nothing, Directory} \cup {FileOf(file) : file \in File}

HasParent(p) == Front(p) = <<>> \/ tree[Front(p)] = Directory

(* A new volume has one file, the log.                                      *)
Init ==
    \E log \in File :
        tree = [p \in Path |-> IF p = <<".log">> THEN FileOf(log) ELSE Nothing]

MakeDir(p) ==
    /\ HasParent(p)
    /\ tree[p] = Nothing
    /\ tree' = [tree EXCEPT ![p] = Directory]

CopyIn(p, file) ==
    /\ HasParent(p)
    /\ tree[p] = Nothing
    /\ tree' = [tree EXCEPT ![p] = FileOf(file)]

RemoveFile(p) ==
    /\ tree[p].type = "file"
    /\ tree' = [tree EXCEPT ![p] = Nothing]

Next ==
    \E p \in Path :
        \/ MakeDir(p)
        \/ \E file \in File : CopyIn(p, file)
        \/ RemoveFile(p)

Spec == Init /\ [][Next]_tree
=============================================================================
