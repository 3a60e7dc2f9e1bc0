---------------------------- MODULE VolumeSafety ----------------------------
(***************************************************************************)
(* When the volume is sound: jfs_fsck as an operator, what users find on   *)
(* the volume, and the refinement of FileTree.                             *)
(***************************************************************************)
EXTENDS Volume

(* The entries of a block, if it is one of a directory.                     *)
Dirents(v, b) == AsDir(v.data[b])

Entries ==
    [name : Name \cup {".", "..", ".log"}, type : {"dir", "file"},
     inode : Inode, entry_len : Nat]

VolumeOK(v) ==
    /\ IsVolume(v)
    /\ v.inode \in [Inode -> [size : Nat \cup {None},
                              blockptrs : [0 .. Ptrs - 1 -> Block \cup {None}]]]
    /\ v.data = [b \in Block |-> v.data[b]]
    /\ \A b \in Block : \A k \in DOMAIN Dirents(v, b) :
          k \in 0 .. BlockSize - DirentSize /\ Dirents(v, b)[k] \in Entries

TypeOK ==
    /\ VolumeOK(vol)
    /\ rm \in [dir : Inode \cup {None}, size : Nat]
    /\ result \in {"ok", "rm", "crashed", "died", "exists", "no parent", "no file",
                   "no inode", "no block", "aborted"}

-----------------------------------------------------------------------------
(* jfs_ls and jfs_fsck: the walk of both.                                   *)

\* Mutant: a directory in a directory is not walked.
RootOnly(v) == {[path |-> <<>>, inode |-> Root]}

(* The directories in the one at p, by the paths to them.                   *)
Subdirs(v, p) ==
    {[path |-> Append(p.path, Entry(v, p.inode, k).name),
      inode |-> Entry(v, p.inode, k).inode] :
        k \in {w \in Walked(v, p.inode) :
                  /\ Entry(v, p.inode, w).type = "dir"
                  /\ Entry(v, p.inode, w).name \notin {".", ".."}}}

(* The directories the walks come to, by the path they take there; no path  *)
(* is longer than MaxDepth.                                                 *)
Places(v) ==
    LET level[n \in 0 .. MaxDepth] ==
            IF n = 0 THEN {[path |-> <<>>, inode |-> Root]}
                     ELSE UNION {Subdirs(v, p) : p \in level[n - 1]}
    IN  UNION {level[n] : n \in 0 .. MaxDepth}

Dirs(v) == {p.inode : p \in Places(v)}

(* The entries they meet there.                                             *)
Met(v) ==
    UNION {{[path |-> Append(p.path, Entry(v, p.inode, k).name),
             dir |-> p.inode, offset |-> k] : k \in Walked(v, p.inode)} :
           p \in Places(v)}

(* The entries jfs_fsck counts: not . and .. *)
Listed(v) == {x \in Met(v) : Last(x.path) \notin {".", ".."}}

Target(v, x) == Entry(v, x.dir, x.offset).inode

(* The listed entries of files. *)
FileEntries(v) == {x \in Listed(v) : Entry(v, x.dir, x.offset).type = "file"}

(* The inodes of the listed files.                                          *)
Files(v) == {Target(v, x) : x \in FileEntries(v)}

(* The line jfs_ls prints of an entry.                                      *)
Line(v, x) ==
    [path |-> x.path, type |-> Entry(v, x.dir, x.offset).type,
     size |-> v.inode[Target(v, x)].size]

-----------------------------------------------------------------------------
(* What jfs_fsck says.                                                      *)

(* What build_bitmaps counts: how often each inode and each block is used.  *)
InodeUses(v) ==
    LET found == Listed(v)
    IN  [i \in Inode |-> Cardinality({x \in found : Target(v, x) = i})
                         + (IF i = Root THEN 1 ELSE 0)]

BlockUses(v) ==
    LET dirs == Dirs(v)
        pointers == FileEntries(v) \X (0 .. Ptrs - 1)
    IN  [b \in Block |->
            IF IsHeader(b) THEN 1
            ELSE Cardinality({d \in dirs : v.inode[d].blockptrs[0] = b})
                 + Cardinality({y \in pointers :
                                   v.inode[Target(v, y[1])].blockptrs[y[2]] = b})]

(* What build_free_bitmaps reads: 1 for what is marked as used.             *)
InodeMarks(v) == [i \in Inode |-> IF InodeUsed(v, i) THEN 1 ELSE 0]
BlockMarks(v) == [b \in Block |-> IF BlockUsed(v, b) THEN 1 ELSE 0]

(* No walk through the volume reads garbage as an entry.                    *)
WalkSafe(v) == \A d \in Dirs(v) : \A k \in Walked(v, d) : Entry(v, d, k).type # "junk"

(* No inode and no block is in two places at once, or in one place and      *)
(* free, whatever the state of the directories: jfs_fsck never says "is     *)
(* used, but is listed as being free" or "is used 2 times".                 *)
ListedIsOwned ==
    /\ LET uses == InodeUses(vol)
       IN  \A i \in Inode : uses[i] <= InodeMarks(vol)[i]
    /\ LET uses == BlockUses(vol)
       IN  \A b \in Block : uses[b] <= BlockMarks(vol)[b]

(* Whatever was copied in, made and removed in whatever order, nothing      *)
(* leaks: a volume whose directories can be walked satisfies jfs_fsck.      *)
FsckClean ==
    WalkSafe(vol) => /\ InodeUses(vol) = InodeMarks(vol)
                     /\ BlockUses(vol) = BlockMarks(vol)

(* A file that is listed before and after a tool has run is the same file:  *)
(* neither its inode nor its blocks are given to another file or directory, *)
(* with directories in whatever state.                                      *)
FilesAreLeftAlone ==
    [][\A i \in Files(vol) \cap Files(vol') : copyout(vol, i) = copyout(vol', i)]_vol

(* The tools, fsck included, never read garbage as a directory entry.       *)
WalksStayInDirectory == Idle => WalkSafe(vol)

-----------------------------------------------------------------------------
(* The inductive invariant behind them.  It speaks of the entries of all    *)
(* blocks, whether a walk comes to them or not, as directories may be in    *)
(* any state; dirs and files are sets of inodes that have those the entries *)
(* name.                                                                    *)

Ptr(v, i, n) == v.inode[i].blockptrs[n]
Size(v, i) == v.inode[i].size

IsDot(e) == e.name \in {".", ".."}

InodesInv(v, dirs, files) ==
    /\ Root \in dirs
    /\ dirs \cap files = {}
    /\ \A i \in dirs \cup files : i \in Inode /\ InodeUsed(v, i)

(* Entries are in blocks in use, one behind the other.                      *)
EntriesInv(v, dirs, files) ==
    \A b \in Block : \A o \in DOMAIN Dirents(v, b) :
        LET e == Dirents(v, b)[o]
        IN  /\ BlockUsed(v, b) /\ ~IsHeader(b)
            /\ e.entry_len > 0
            /\ \A p \in DOMAIN Dirents(v, b) : o < p => o + e.entry_len <= p
            /\ IF e.type = "dir" THEN e.inode \in dirs ELSE e.inode \in files /\ ~IsDot(e)

(* An inode has one entry beside those with the names . and .., the root    *)
(* has none.                                                                *)
SoleEntryInv(v) ==
    \A b \in Block : \A o \in DOMAIN Dirents(v, b) :
        LET e == Dirents(v, b)[o]
        IN  ~IsDot(e) =>
                /\ e.inode # Root
                /\ \A c \in Block : \A p \in DOMAIN Dirents(v, c) :
                      LET f == Dirents(v, c)[p]
                      IN  ~IsDot(f) /\ e.inode = f.inode => b = c /\ o = p

(* A directory has one block, a file as many as its size says, and no block *)
(* is in two places.                                                        *)
Owns(v, dirs, files, i, n) == (i \in dirs /\ n = 0) \/ (i \in files /\ n < Size(v, i))

BlocksInv(v, dirs, files) ==
    /\ \A b \in Block : IsHeader(b) => BlockUsed(v, b)
    /\ \A i \in dirs \cup files, n \in 0 .. Ptrs - 1 : Owns(v, dirs, files, i, n) =>
          LET b == Ptr(v, i, n)
          IN  /\ b \in Block /\ ~IsHeader(b) /\ BlockUsed(v, b)
              /\ \A j \in dirs \cup files, m \in 0 .. Ptrs - 1 :
                    Owns(v, dirs, files, j, m) /\ Ptr(v, j, m) = b => i = j /\ n = m

(* The entries of a block end before a size.                                *)
EndBefore(v, b, size) ==
    \A o \in DOMAIN Dirents(v, b) : o + Dirents(v, b)[o].entry_len <= size

DirInv(v, dirs) ==
    \A i \in dirs : Size(v, i) \in Nat /\ EndBefore(v, Ptr(v, i, 0), Size(v, i))

FileInv(v, files) ==
    \A i \in files :
        /\ Size(v, i) \in 0 .. Ptrs
        /\ \A n \in 0 .. Ptrs - 1 :
              IF n < Size(v, i) THEN v.data[Ptr(v, i, n)] \in Text ELSE Ptr(v, i, n) = 0

Sound(v, dirs, files) ==
    /\ VolumeOK(v)
    /\ InodesInv(v, dirs, files)
    /\ EntriesInv(v, dirs, files)
    /\ SoleEntryInv(v)
    /\ BlocksInv(v, dirs, files)
    /\ DirInv(v, dirs)
    /\ FileInv(v, files)

(* The inodes that entries of a type name.                                  *)
Named(v, type) ==
    UNION {{Dirents(v, b)[o].inode :
              o \in {p \in DOMAIN Dirents(v, b) : Dirents(v, b)[p].type = type}} :
           b \in Block}

(* The directories: the root, those that entries name, and the one that a   *)
(* jfs_rm still works on.                                                   *)
KnownDirs(v, r) == {Root} \cup Named(v, "dir") \cup ({r.dir} \ {None})

(* The size that jfs_rm will give its directory covers the entries.         *)
ResizeInv(v, r) == r = NoRm \/ (r.dir \in Inode /\ EndBefore(v, Ptr(v, r.dir, 0), r.size))

(* Inodes, blocks and entries have one place each, and sizes cover what     *)
(* they should, in whatever state the tools have left the directories.      *)
VolumeInv ==
    /\ TypeOK
    /\ Sound(vol, KnownDirs(vol, rm), Named(vol, "file"))
    /\ ResizeInv(vol, rm)

-----------------------------------------------------------------------------
(* The inductive invariant behind FsckClean.  A directory loses track of    *)
(* its entries when it counts bytes that no entry fills, and never fills    *)
(* them again.  What is in use and has no entry is missing from such a      *)
(* directory, and the walk to it or through it reads garbage.               *)

Used(v) == {i \in Inode : InodeUsed(v, i)}

(* Where the entries of a directory end once a jfs_rm is done with it.      *)
EndOf(v, r, d) == IF d = r.dir THEN r.size ELSE Size(v, d)

(* Entries fill the first bytes of a directory.                             *)
Fills(dir, size) ==
    \A n \in 0 .. size - 1 : \E o \in DOMAIN dir : o <= n /\ n < o + dir[o].entry_len

Filled(v, d, size) == Fills(Dirents(v, Ptr(v, d, 0)), size)

(* A directory has an entry of an inode, other than . and ..                *)
Holds(v, d, i) ==
    \E o \in DOMAIN Dirents(v, Ptr(v, d, 0)) :
        LET e == Dirents(v, Ptr(v, d, 0))[o]
        IN  ~IsDot(e) /\ e.inode = i

(* A directory has an entry of an inode, or may have lost it.               *)
PlaceIn(v, r, d, i) == Holds(v, d, i) \/ ~Filled(v, d, EndOf(v, r, d))

(* An inode has a place in a directory, one level up if it is one.          *)
Placed(v, r, dirs, depth, i) ==
    \E d \in dirs : PlaceIn(v, r, d, i) /\ (i \in dirs => depth[i] = depth[d] + 1)

PlacedInv(v, r, dirs, depth) == \A i \in Used(v) \ {Root} : Placed(v, r, dirs, depth, i)

(* No entry leads down more than one level.                                 *)
DepthInv(v, dirs, depth) ==
    /\ depth[Root] = 0
    /\ \A d \in dirs : \A o \in DOMAIN Dirents(v, Ptr(v, d, 0)) :
          LET e == Dirents(v, Ptr(v, d, 0))[o]
          IN  e.type = "dir" => depth[e.inode] <= depth[d] + 1

(* Blocks in use are headers or blocks of inodes in use.                    *)
OwnedInv(v, dirs) ==
    \A b \in Block : BlockUsed(v, b) =>
        \/ IsHeader(b)
        \/ \E i \in Used(v), n \in 0 .. Ptrs - 1 :
              Owns(v, dirs, Used(v) \ dirs, i, n) /\ Ptr(v, i, n) = b

(* The size that is left to jfs_rm to write is not more than the one there. *)
ShrinkInv(v, r) ==
    r.dir # None => EndBefore(v, Ptr(v, r.dir, 0), r.size) /\ r.size <= Size(v, r.dir)

NoLeak(v, r, dirs, depth) ==
    /\ Sound(v, dirs, Used(v) \ dirs)
    /\ OwnedInv(v, dirs)
    /\ ShrinkInv(v, r)
    /\ DepthInv(v, dirs, depth)
    /\ PlacedInv(v, r, dirs, depth)

LeakInv ==
    /\ rm.dir = None => Idle
    /\ \E dirs \in SUBSET Used(vol) :
          /\ KnownDirs(vol, rm) \subseteq dirs
          /\ \E depth \in [dirs -> 0 .. MaxDepth] : NoLeak(vol, rm, dirs, depth)

-----------------------------------------------------------------------------
(* The inductive invariant behind WalksStayInDirectory, for directories     *)
(* that have room for all names.                                            *)

(* Bounds on the length of a name and of what an entry is given: jfs_copyin *)
(* goes by the whole path.                                                  *)
LongName == IF NameLen < 4 THEN 4 ELSE NameLen
LongEntry == EntryLen(MaxDepth * (LongName + 1) - 1)

(* When a directory can take one entry more than those with all other names.*)
HasRoom ==
    /\ IsFiniteSet(Name)
    /\ MaxDepth > 0
    /\ (Cardinality(Name) + 2) * LongEntry + DirentSize + LongName + 1 <= BlockSize

(* A directory, filled with entries of different names, has the entry . .   *)
Tidy(v, r, d) ==
    LET dir == Dirents(v, Ptr(v, d, 0))
    IN  /\ Filled(v, d, EndOf(v, r, d))
        /\ \A o \in DOMAIN dir : dir[o].entry_len <= LongEntry
        /\ \A o \in DOMAIN dir, p \in DOMAIN dir : dir[o].name = dir[p].name => o = p
        /\ \E o \in DOMAIN dir : dir[o].name = "."

(* Directories that have room, and are used as they should be, stay tidy.   *)
TidyInv ==
    HasRoom /\ FreshNames /\ ~CrashInRm => \A d \in KnownDirs(vol, rm) : Tidy(vol, rm, d)

-----------------------------------------------------------------------------
(* "If there are no free blocks available because the disk is full, it      *)
(* returns -1"                                                              *)
NoBlockMeansFull ==
    [][\A path \in Path, file \in File :
         copyin(path, file) /\ result' = "no block" =>
            Cardinality({b \in Block : ~BlockUsed(vol, b)}) < Len(Truncated(file))]_vars
=============================================================================
