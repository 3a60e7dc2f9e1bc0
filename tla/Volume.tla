------------------------------- MODULE Volume -------------------------------
(***************************************************************************)
(* The filesystem on the volume, and the tools that change it: jfs_format, *)
(* jfs_mkdir, jfs_copyin and jfs_rm.                                       *)
(*                                                                         *)
(* A tool works on a private view of the volume until it commits, and a    *)
(* commit is atomic and survives crashes as far as Journal says: what a    *)
(* tool does up to a commit is therefore one step here, and a tool that    *)
(* gives up or dies before it leaves the volume as it was.  jfs_rm commits *)
(* twice and can die in between.                                           *)
(*                                                                         *)
(* Directories are counted in bytes, as in the code; of a file, only the   *)
(* blocks are.                                                             *)
(***************************************************************************)
EXTENDS Alloc, Sequences, SequencesExt

CONSTANTS
    Ptrs,       \* INODE_BLOCK_PTRS, also the number of blocks of .log
    BlockSize,  \* bytes of a block, so of a directory: BLOCKSIZE
    Name,       \* names the users choose
    NameLen,    \* bytes of each of them
    Dots,       \* "." and "..", when users put them in paths
    Text,       \* what a block of a file can hold
    Zero,       \* the text of the blocks of a new .log
    MaxDepth,   \* bound: names in a path
    File,       \* bound: the files users copy in, as sequences of texts
    FreshNames, \* do users only copy in under names that are not there yet?
    CrashInRm,  \* may jfs_rm die between its commits?
    RmFull      \* do users remove files that use every block pointer?

ASSUME VolumeAssumption ==
    /\ Zero \in Text
    /\ {Ptrs, BlockSize, NameLen} \subseteq Nat \ {0}
    /\ MaxDepth \in Nat
    /\ File \subseteq Seq(Text)
    /\ {FreshNames, CrashInRm, RmFull} \subseteq BOOLEAN
    /\ Dots \subseteq {".", ".."}
    /\ Name \cap {".", ".."} = {}

(* A path from the root, by its names, that ends in a name of the user's.   *)
Path ==
    {path \in UNION {[1 .. n -> Name \cup Dots] : n \in 1 .. MaxDepth} :
        Last(path) \in Name}

\* a search that reads garbage as a directory entry kills the process
Died == -2

-----------------------------------------------------------------------------
(* Directory entries.                                                       *)

(* strlen of a name and of a path, with its slashes.                        *)
NameLength(name) ==
    CASE name = "." -> 1 [] name = ".." -> 2 [] name = ".log" -> 4 [] OTHER -> NameLen

PathLength(path) ==
    LET upto[n \in 1 .. Len(path)] ==
            NameLength(path[n]) + (IF n = 1 THEN 0 ELSE upto[n - 1] + 1)
    IN  upto[Len(path)]

DirentSize == 20     \* sizeof(struct dirent): four words and name[4]

(* The room that the tools give an entry, going by a length: it differs     *)
(* from what create_dirent asks for, and jfs_copyin takes the length of the *)
(* whole path.                                                              *)
EntryLen(length) == (length \div 4 + 1) * 4 + 16

\* Mutant: the name is not copied into the entry.
DirentUnnamed(name, type, i, len) ==
    [name |-> "", type |-> type, inode |-> i, entry_len |-> len]

(* struct dirent.  Junk is whatever a walk reads where no entry begins,     *)
(* Missing the outcome of a walk that finds nothing.                        *)
Dirent(name, type, i, len) ==
    [name |-> name, type |-> type, inode |-> i, entry_len |-> len]

Junk == Dirent("", "junk", None, 0)
Missing == Dirent("", "missing", None, 0)

(* A block as a directory: the entries by the offsets they begin at.        *)
NoEntries == <<>>

AsDir(block) == IF block \in Text THEN NoEntries ELSE block

-----------------------------------------------------------------------------
(* Directories.                                                             *)

EntryAt(dir, k) == IF k \in DOMAIN dir THEN dir[k] ELSE Junk

Dir(v, d) == AsDir(v.data[v.inode[d].blockptrs[0]])

Entry(v, d, k) == EntryAt(Dir(v, d), k)

(* The offsets a walk reads an entry at.  It reads the first one before it  *)
(* looks at the size, and the next one by the length of the one before; it  *)
(* does not survive garbage, as the length of that may be anything.         *)
Walked(v, d) ==
    LET dir == Dir(v, d)
        walk[k \in Nat] ==
            LET next == k + EntryAt(dir, k).entry_len
            IN  IF k \notin DOMAIN dir \/ next >= v.inode[d].size
                THEN {k} ELSE {k} \cup walk[next]
    IN  walk[0]

(* Where a walk that looks for name stops.                                  *)
StopsAt(v, d, name) ==
    LET dir == Dir(v, d)
    IN  Lowest({k \in Walked(v, d) : k \notin DOMAIN dir \/ dir[k].name = name})

Lookup(v, d, name) ==
    LET k == StopsAt(v, d, name)
    IN  IF k = None THEN Missing ELSE Entry(v, d, k)

Root == 0

(* One name of a path; mkdir_recursive goes on into a file as well.         *)
Descend(v, d, name, types) ==
    LET e == Lookup(v, d, name)
    IN  IF d < 0 THEN d
        ELSE IF e.type = "junk" THEN Died
        ELSE IF e.type \in types THEN e.inode
        ELSE None

(* The inode of the directory part of a path, None or Died.                 *)
DirOf(v, path, types) ==
    LET d[n \in 0 .. Len(path) - 1] ==
            IF n = 0 THEN Root ELSE Descend(v, d[n - 1], path[n], types)
    IN  d[Len(path) - 1]

findfile_recursive(v, path, type) ==
    Descend(v, DirOf(v, path, {"dir"}), Last(path), {type})

Fits(offset, e) == offset + DirentSize + NameLength(e.name) + 1 <= BlockSize

WithEntry(dir, offset, e) ==
    [o \in DOMAIN dir \cup {offset} |-> IF o = offset THEN e ELSE dir[o]]

(* An entry that does not fit is dropped.                                   *)
create_dirent(v, b, offset, e) ==
    IF Fits(offset, e) THEN [v EXCEPT !.data[b] = WithEntry(AsDir(@), offset, e)] ELSE v

(* The callers of create_dirent append, and count the entry in any case.    *)
AddEntry(v, d, e) ==
    [create_dirent(v, v.inode[d].blockptrs[0], v.inode[d].size, e)
        EXCEPT !.inode[d].size = @ + e.entry_len]

AddDir(v, d, name, i) == AddEntry(v, d, Dirent(name, "dir", i, EntryLen(NameLength(name))))

(* The new directory i in directory d, with its entries . and ..            *)
mk_new_directory(v, d, name, i, b) ==
    LET made == [set_block_used(set_inode_used(v, i), b)
                   EXCEPT !.inode[i].blockptrs[0] = b, !.inode[i].size = 0]
    IN  AddDir(AddDir(AddDir(made, d, name, i), i, ".", i), i, "..", d)

-----------------------------------------------------------------------------
(* Files.                                                                   *)

\* Mutant: the blocks are not marked as used.
StoreUnmarked(v, file) ==
    LET stored[n \in 0 .. Len(file)] ==
            IF n = 0 THEN [vol |-> v, blocks |-> <<>>, full |-> FALSE]
            ELSE LET s == stored[n - 1]
                     b == get_free_block(s.vol)
                 IN  IF b = None
                     THEN [s EXCEPT !.full = TRUE]
                     ELSE [vol |-> [s.vol EXCEPT !.data[b] = file[n]],
                           blocks |-> Append(s.blocks, b),
                           full |-> s.full]
    IN  stored[Len(file)]

(* One turn of the loop of jfs_copyin: s is what it has stored so far.      *)
StoreBlock(s, text) ==
    LET b == get_free_block(s.vol)
    IN  IF b = None
        THEN [s EXCEPT !.full = TRUE]
        ELSE [vol |-> [set_block_used(s.vol, b) EXCEPT !.data[b] = text],
              blocks |-> Append(s.blocks, b),
              full |-> s.full]

(* Allocates and writes the blocks of a file, as far as there are any.      *)
Store(v, file) ==
    LET stored[n \in 0 .. Len(file)] ==
            IF n = 0 THEN [vol |-> v, blocks |-> <<>>, full |-> FALSE]
                     ELSE StoreBlock(stored[n - 1], file[n])
    IN  stored[Len(file)]

FileInode(blocks) ==
    [size |-> Len(blocks),
     blockptrs |-> [n \in 0 .. Ptrs - 1 |-> IF n < Len(blocks) THEN blocks[n + 1] ELSE 0]]

(* "Max filesize exceeded - file truncated"                                 *)
Truncated(file) == IF Len(file) > Ptrs THEN SubSeq(file, 1, Ptrs) ELSE file

(* The new file i at a path, in directory d.                                *)
PutFile(v, d, path, i, file) ==
    LET stored == Store(set_inode_used(v, i), file)
    IN  AddEntry([stored.vol EXCEPT !.inode[i] = FileInode(stored.blocks)],
                 d, Dirent(Last(path), "file", i, EntryLen(PathLength(path))))

\* Mutant: the loop starts at the second block pointer.
BlocksOfButFirst(v, i) ==
    SelectSeq([n \in 1 .. Ptrs - 1 |-> v.inode[i].blockptrs[n]], LAMBDA b : b # 0)

(* The block pointers of a file before the first zero, where the loop over  *)
(* them stops.  Behind a file without a zero it goes on: see Overread.      *)
BlocksOf(v, i) ==
    LET zeros == {n \in 0 .. Ptrs - 1 : v.inode[i].blockptrs[n] = 0}
    IN  [n \in 1 .. IF zeros = {} THEN Ptrs ELSE Min(zeros) |-> v.inode[i].blockptrs[n - 1]]

\* Mutant: the entries behind are copied to where they were.
CutEntryOnly(dir, k) == [o \in DOMAIN dir \ {k} |-> dir[o]]

\* Mutant: the entries before are not copied to the new block.
CutEntriesBefore(dir, k) ==
    LET len == dir[k].entry_len
        behind == {o \in DOMAIN dir : o >= k + len}
    IN  [o \in {n - len : n \in behind} |-> dir[o + len]]

(* The entries behind the one at offset k move down, over it; the tail of   *)
(* the new block is never set.                                              *)
CutEntry(dir, k) ==
    LET len == dir[k].entry_len
        before == {o \in DOMAIN dir : o < k}
        behind == {o \in DOMAIN dir : o >= k + len}
    IN  [o \in before \cup {n - len : n \in behind} |->
            IF o < k THEN dir[o] ELSE dir[o + len]]

\* Mutant: the blocks of the file are not returned.
RemoveFileKeepBlocks(v, d, k, i) ==
    [return_inode_to_freelist(v, i)
        EXCEPT !.data[v.inode[d].blockptrs[0]] = CutEntry(AsDir(@), k)]

(* The loop that returns the inode and the blocks of file i.                *)
Freed(v, i) ==
    LET blocks == BlocksOf(v, i)
        freed[n \in 0 .. Len(blocks)] ==
            IF n = 0 THEN return_inode_to_freelist(v, i)
                     ELSE return_block_to_freelist(freed[n - 1], blocks[n])
    IN  freed[Len(blocks)]

\* Mutant: the block of the directory is not written.
RemoveFileKeepEntry(v, d, k, i) == Freed(v, i)

(* What the first commit of jfs_rm makes durable.                           *)
RemoveFile(v, d, k, i) ==
    [Freed(v, i) EXCEPT !.data[v.inode[d].blockptrs[0]] = CutEntry(AsDir(@), k)]

(* What jfs_copyout copies out of file i.                                   *)
copyout(v, i) == [n \in 1 .. v.inode[i].size |-> v.data[v.inode[i].blockptrs[n - 1]]]

-----------------------------------------------------------------------------
(* jfs_format.                                                              *)

InodeOf(size, pointer) ==
    [size |-> size, blockptrs |-> [n \in 0 .. Ptrs - 1 |-> pointer]]

(* The image file starts as 0xff bytes.                                     *)
NewGroups ==
    [block_bitmap |-> [g \in Group |-> 0 .. DataBlockOffset - 1],
     inode_bitmap |-> [g \in Group |-> {}],
     inode |-> [i \in Inode |-> InodeOf(None, None)],
     data |-> [b \in Block |-> NoEntries]]

(* The other inodes in the block of the root's are zeroed.                  *)
RootInodes(block, root, b) ==
    [i \in DOMAIN block |->
        IF i = root THEN [InodeOf(0, None) EXCEPT !.blockptrs[0] = b]
        ELSE IF inode_to_block(i) = inode_to_block(root) THEN InodeOf(0, 0)
        ELSE block[i]]

create_fs_root(v) ==
    LET i == get_free_inode(v)
        b == get_free_block(v)
        root == [set_block_used(set_inode_used(v, i), b)
                   EXCEPT !.inode = RootInodes(@, i, b)]
    IN  AddDir(AddDir(root, i, ".", i), i, "..", i)

LogFile == [n \in 1 .. Ptrs |-> Zero]

create_log_file(v) == PutFile(v, Root, <<".log">>, get_free_inode(v), LogFile)

(* jfs_format makes a volume if there is room for the root and for .log.    *)
ASSUME FormatAssumption ==
    /\ get_free_block(NewGroups) # None
    /\ LET root == create_fs_root(NewGroups)
           i == get_free_inode(root)
       IN  i # None /\ ~Store(set_inode_used(root, i), LogFile).full

-----------------------------------------------------------------------------
VARIABLES
    vol,       \* the committed contents of the volume
    rm,        \* what is left of a jfs_rm between its commits: the directory
               \* and its new size, or NoRm
    result     \* how the last tool ended, "rm" while jfs_rm runs

vars == <<vol, rm, result>>

NoRm == [dir |-> None, size |-> 0]

Idle == rm = NoRm

Init ==
    /\ vol = create_log_file(create_fs_root(NewGroups))
    /\ rm = NoRm
    /\ result = "ok"

(* How a tool ends; what it changes is committed if this is "ok".  Without  *)
(* a free block jfs_mkdir goes on with block -1, and dies when it reads it. *)
mkdirResult(v, path) ==
    LET d == DirOf(v, path, {"dir", "file"})
        e == Lookup(v, d, Last(path))
    IN  IF d = None THEN "no parent"
        ELSE IF d = Died \/ e.type = "junk" THEN "died"
        ELSE IF e # Missing THEN "exists"
        ELSE IF get_free_inode(v) = None THEN "no inode"
        ELSE IF get_free_block(v) = None THEN "died"
        ELSE "ok"

Made(v, path) ==
    mk_new_directory(v, DirOf(v, path, {"dir", "file"}), Last(path),
                     get_free_inode(v), get_free_block(v))

mkdir(path) ==
    /\ Idle
    /\ result' = mkdirResult(vol, path)
    /\ vol' = IF result' = "ok" THEN Made(vol, path) ELSE vol
    /\ UNCHANGED rm

copyinResult(v, path, file) ==
    LET d == DirOf(v, path, {"dir"})
        i == get_free_inode(v)
    IN  IF d = None THEN "no parent"
        ELSE IF d = Died THEN "died"
        ELSE IF i = None THEN "no inode"
        ELSE IF Store(set_inode_used(v, i), Truncated(file)).full THEN "no block"
        ELSE "ok"

CopiedIn(v, path, file) ==
    PutFile(v, DirOf(v, path, {"dir"}), path, get_free_inode(v), Truncated(file))

Taken(v, path) ==
    LET d == DirOf(v, path, {"dir"})
    IN  d >= 0 /\ Lookup(v, d, Last(path)).type \in {"dir", "file"}

copyin(path, file) ==
    /\ Idle
    /\ FreshNames => ~Taken(vol, path)
    /\ result' = copyinResult(vol, path, file)
    /\ vol' = IF result' = "ok" THEN CopiedIn(vol, path, file) ELSE vol
    /\ UNCHANGED rm

(* Where jfs_rm finds the entry to remove.                                  *)
FoundAt(v, path) == StopsAt(v, DirOf(v, path, {"dir"}), Last(path))

FoundEntry(v, path) == Entry(v, DirOf(v, path, {"dir"}), FoundAt(v, path))

\* Mutant: directories are removed as well.
rmAnyResult(v, path) ==
    LET i == findfile_recursive(v, path, "file")
        d == findfile_recursive(v, path, "dir")
    IN  IF i = None /\ d = None THEN "no file"
        ELSE IF Died \in {i, d} THEN "died"
        ELSE "rm"

(* jfs_rm dies on an entry that ends beyond the block: the length it gives  *)
(* memcpy for what is behind the entry is negative.                         *)
rmResult(v, path) ==
    LET i == findfile_recursive(v, path, "file")
    IN  IF i = None THEN "no file"
        ELSE IF \/ i = Died
                \/ FoundAt(v, path) + FoundEntry(v, path).entry_len > BlockSize
             THEN "died"
             ELSE "rm"

UsesEveryPtr(v, path) ==
    LET i == findfile_recursive(v, path, "file")
    IN  i >= 0 /\ Len(BlocksOf(v, i)) = Ptrs

Removed(v, path) ==
    RemoveFile(v, DirOf(v, path, {"dir"}), FoundAt(v, path), FoundEntry(v, path).inode)

(* What change_dir_size is still to do then.                                *)
ToResize(v, path) ==
    LET d == DirOf(v, path, {"dir"})
    IN  [dir |-> d, size |-> v.inode[d].size - FoundEntry(v, path).entry_len]

(* The loop of jfs_rm goes on behind the inode of a file without a zero:    *)
(* what it reads there are block numbers to it, until it meets a zero.  It  *)
(* may die reading; it may meet nothing but numbers of blocks, returns them *)
(* as well and commits; or it meets a number that no block has, on which    *)
(* the flush of its commit aborts, before the directory is written.  The    *)
(* commit block is left live, and jfs_checklog aborts on the same number.   *)
ReturnBlocks(v, bs) ==
    [v EXCEPT !.block_bitmap = [g \in Group |->
        {n \in @[g] : g * BlocksPerGroup + n \notin bs}]]

Overread(path) ==
    \/ result' = "died" /\ UNCHANGED <<vol, rm>>
    \/ /\ rmResult(vol, path) = "rm"
       /\ \E behind \in SUBSET Block :
            \/ /\ result' = "rm"
               /\ vol' = ReturnBlocks(Removed(vol, path), behind)
               /\ rm' = ToResize(vol, path)
            \/ /\ result' = "aborted"
               /\ vol' = ReturnBlocks(Freed(vol, FoundEntry(vol, path).inode), behind)
               /\ UNCHANGED rm

jfs_remove_file(path) ==
    /\ Idle
    /\ IF UsesEveryPtr(vol, path)
       THEN RmFull /\ Overread(path)
       ELSE /\ result' = rmResult(vol, path)
            /\ IF result' = "rm"
               THEN vol' = Removed(vol, path) /\ rm' = ToResize(vol, path)
               ELSE UNCHANGED <<vol, rm>>

\* Mutant: the directory keeps its size.
keep_dir_size ==
    /\ ~Idle
    /\ rm' = NoRm
    /\ result' = "ok"
    /\ UNCHANGED vol

Resized(v, r) == [v EXCEPT !.inode[r.dir].size = r.size]

(* The second transaction of jfs_rm.                                        *)
change_dir_size ==
    /\ ~Idle
    /\ vol' = Resized(vol, rm)
    /\ rm' = NoRm
    /\ result' = "ok"

CrashBetweenCommits ==
    /\ ~Idle
    /\ CrashInRm
    /\ rm' = NoRm
    /\ result' = "crashed"
    /\ UNCHANGED vol

Next ==
    \/ \E path \in Path : mkdir(path)
    \/ \E path \in Path, file \in File : copyin(path, file)
    \/ \E path \in Path : jfs_remove_file(path)
    \/ change_dir_size
    \/ CrashBetweenCommits

Spec == Init /\ [][Next]_vars
=============================================================================
