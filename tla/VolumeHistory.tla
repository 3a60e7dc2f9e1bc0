--------------------------- MODULE VolumeHistory ---------------------------
(***************************************************************************)
(* Volume with a history variable: the tree of files and directories the   *)
(* users have made, going by how their tools ended.                        *)
(***************************************************************************)
EXTENDS VolumeSafety

AllPaths == (UNION {[1 .. n -> Name] : n \in 1 .. MaxDepth}) \cup {<<".log">>}

(* Where a name leads from p.                                               *)
Follow(p, name) ==
    CASE name = "." -> p
      [] name = ".." -> IF p = <<>> THEN p ELSE Front(p)
      [] OTHER -> Append(p, name)

(* What a path with . and .. means.                                         *)
Canonical(path) ==
    LET upto[n \in 0 .. Len(path)] ==
            IF n = 0 THEN <<>> ELSE Follow(upto[n - 1], path[n])
    IN  upto[Len(path)]

AllFiles == UNION {[1 .. n -> Text] : n \in 0 .. Ptrs}

VARIABLE
    tree

Tree == INSTANCE FileTree WITH Path <- AllPaths, File <- AllFiles

allVars == <<vars, tree>>

Names(path, node) == tree' = [tree EXCEPT ![Canonical(path)] = node]

HInit ==
    /\ Init
    /\ tree = [p \in AllPaths |-> IF p = <<".log">>
                                  THEN Tree!FileOf([n \in 1 .. Ptrs |-> Zero])
                                  ELSE Tree!Nothing]

MakeStep(path) ==
    /\ mkdir(path)
    /\ IF result' = "ok" THEN Names(path, Tree!Directory) ELSE UNCHANGED tree

CopyInStep(path, file) ==
    /\ copyin(path, file)
    /\ IF result' = "ok" THEN Names(path, Tree!FileOf(Truncated(file)))
                         ELSE UNCHANGED tree

RemoveStep(path) ==
    /\ jfs_remove_file(path)
    /\ IF result' = "rm" THEN Names(path, Tree!Nothing) ELSE UNCHANGED tree

HNext ==
    \/ \E path \in Path : MakeStep(path) \/ RemoveStep(path)
    \/ \E path \in Path, file \in File : CopyInStep(path, file)
    \/ (change_dir_size \/ CrashBetweenCommits) /\ UNCHANGED tree

HSpec == HInit /\ [][HNext]_allVars

(* No tool says it has made, copied in or removed what a tree of files and  *)
(* directories would not let it: a directory or file in a place that does   *)
(* not exist or is taken, or the removal of a directory.                    *)
ToolsKeepToTree == Tree!Spec

-----------------------------------------------------------------------------
(* The inductive invariant behind them: the directories are those of the    *)
(* tree, and hold the entries that it says.                                 *)

EntriesOf(v, d) ==
    LET dir == Dirents(v, Ptr(v, d, 0))
    IN  {dir[o] : o \in DOMAIN dir}

(* Paths for directories, each of them one in tree t.                       *)
DirPaths(t, dirs) == [dirs -> {<<>>} \cup {p \in AllPaths : t[p] = Tree!Directory}]

(* No two directories have the same path.                                   *)
DirsShow(dirs, where) ==
    /\ where[Root] = <<>>
    /\ \A c \in dirs, d \in dirs : where[c] = where[d] => c = d

(* An entry leads where its name says, and to the file that tree t has      *)
(* there.                                                                   *)
EntryShows(v, t, where, d, e) ==
    LET p == Follow(where[d], e.name)
    IN  /\ e.type = "dir" => where[e.inode] = p
        /\ e.type = "file" => p \in AllPaths /\ t[p] = Tree!FileOf(copyout(v, e.inode))

(* What the tree has at a path, a directory has.                            *)
PathShows(v, t, dirs, where, p) ==
    t[p] # Tree!Nothing =>
       \E d \in dirs : where[d] = Front(p) /\ \E e \in EntriesOf(v, d) : e.name = Last(p)

(* A directory has a name.                                                  *)
HasEntry(v, d, name) == \E e \in EntriesOf(v, d) : e.name = name

TreeShown(v, t, dirs, where) ==
    /\ DirsShow(dirs, where)
    /\ \A d \in dirs, dot \in {".", ".."} : HasEntry(v, d, dot)
    /\ \A d \in dirs : \A e \in EntriesOf(v, d) : EntryShows(v, t, where, d, e)
    /\ \A p \in AllPaths : PathShows(v, t, dirs, where, p)

TreeInv ==
    /\ tree \in [AllPaths -> Tree!Node]
    /\ HasRoom /\ FreshNames /\ ~CrashInRm =>
          LET dirs == KnownDirs(vol, rm)
          IN  \E where \in DirPaths(tree, dirs) : TreeShown(vol, tree, dirs, where)

-----------------------------------------------------------------------------
(* While jfs_rm is between its commits the entry is gone, and only the size *)
(* of its directory is not what it should be.                               *)
Settled == IF Idle THEN vol ELSE [vol EXCEPT !.inode[rm.dir].size = rm.size]

(* What a path names: what the tools that look it up come to.               *)
Seen(v, p) ==
    LET d == DirOf(v, p, {"dir"})
        e == Lookup(v, d, Last(p))
    IN  IF d < 0 \/ e.type \in {"junk", "missing"} THEN Tree!Nothing
        ELSE IF e.type = "dir" THEN Tree!Directory
        ELSE Tree!FileOf(copyout(v, e.inode))

(* jfs_copyin "copies a file from the external filesystem into the virtual  *)
(* one", jfs_copyout "copies a file from the virtual filesystem to the      *)
(* external one": every path names what the tools have put there, contents  *)
(* and all, whatever was made, copied in and removed elsewhere since.       *)
TreeIsSeen == \A p \in AllPaths : Seen(Settled, p) = tree[p]

(* What jfs_ls lists is tree t: a line for everything in it and, in every   *)
(* directory, one for . and one for .., no other line and none twice, and   *)
(* files with their sizes.                                                  *)
ListsTree(v, t) ==
    LET there == {p \in AllPaths : t[p] # Tree!Nothing}
        dirs == {<<>>} \cup {p \in AllPaths : t[p] = Tree!Directory}
    IN  /\ {[path |-> x.path, type |-> Line(v, x).type] : x \in Met(v)} =
              {[path |-> p, type |-> t[p].type] : p \in there}
              \cup {[path |-> Append(p, dot), type |-> "dir"] : p \in dirs, dot \in {".", ".."}}
        /\ \A x \in Met(v), y \in Met(v) : x.path = y.path => x = y
        /\ \A x \in Met(v) :
              Line(v, x).type = "file" => Line(v, x).size = Len(t[x.path].contents)

(* "jfs_ls: lists verbosely all the files and directories in the            *)
(* filesystem", and nothing else, between any two tools.                    *)
LsListsTree == Idle => ListsTree(vol, tree)

(* The size jfs_ls gives for a directory, also in its line for . and in the *)
(* lines for .. below it, is that of its entries: of a directory by the     *)
(* length of its name, of a file by that of its path.                       *)
LsShowsSizes ==
    LET IsDir(p) == tree[p] = Tree!Directory
        EntrySize(p) == EntryLen(IF IsDir(p) THEN NameLength(Last(p)) ELSE PathLength(p))
        DirSize(p) ==
            2 * EntryLen(NameLength("."))
            + MapThenSumSet(EntrySize, {q \in AllPaths : tree[q] # Tree!Nothing /\ Front(q) = p})
    IN  Idle =>
          \A x \in Met(vol) : Line(vol, x).type = "dir" =>
             Line(vol, x).size = DirSize(Follow(Front(x.path), Last(x.path)))
=============================================================================
