-------------------------------- MODULE Tools --------------------------------
(***************************************************************************)
(* The tools on the journal: Volume composed with Journal.  A tool reads   *)
(* whole blocks, changes a part of them and writes them to the cache in    *)
(* the order of the code; jfs_commit and jfs_checklog do the rest, block   *)
(* by block, and the process may die at any of them.  The variables of     *)
(* Volume are the volume the users believe in: it changes at the commit    *)
(* points, by the steps of Volume.  A transaction that fills the log has   *)
(* no commit block: its commit point is when the last of its blocks is     *)
(* home, and a tool that dies before that may leave a torn image.          *)
(*                                                                         *)
(* A tool that gives up before it commits leaves the image as it was and   *)
(* is not shown.  Users remove no file that uses every block pointer (what *)
(* becomes of that is in Volume), and nothing is said of what they do with *)
(* an image that is torn but recover it.                                   *)
(***************************************************************************)
EXTENDS Volume

CONSTANTS
    Checker,    \* jfs_checklog processes
    MaxTools    \* bound: tools the users start

VARIABLES
    disk, log, pc, cache, blocks_done, cb, crash_after,
    rpc, slot, copied, blocks,       \* of Journal
    job,     \* the tool that runs and its arguments
    todo,    \* the block writes it will make before it commits
    started, \* tools started so far
    torn     \* has a tool died on the way home without a commit block?

-----------------------------------------------------------------------------
(* Blocks: a header with its bitmaps, a block of inodes, or data, which is  *)
(* a directory or a text.                                                   *)

InodeBlock(inodes) == [inodes |-> inodes]
DataBlock(data) == [data |-> data]

InodesIn(b) == {i \in Inode : inode_to_block(i) = b}

(* The volume that an image holds; no tool reads the blocks of .log.        *)
Decode(image) ==
    [block_bitmap |-> [g \in Group |-> image[g * BlocksPerGroup].block_bitmap],
     inode_bitmap |-> [g \in Group |-> image[g * BlocksPerGroup].inode_bitmap],
     inode |-> [i \in Inode |-> image[inode_to_block(i)].inodes[i]],
     data |-> [b \in Block |-> IF IsHeader(b) THEN NoEntries
                               ELSE IF b \in DOMAIN image THEN image[b].data
                               ELSE Zero]]

(* A tool at work: the image as it reads it, its own writes included, and   *)
(* the writes it has made.                                                  *)
WriteBlock(s, b, d) ==
    [image |-> [s.image EXCEPT ![b] = d],
     writes |-> Append(s.writes, [blocknum |-> b, blockdata |-> d])]

WriteHeader(s, g, v) ==
    WriteBlock(s, g * BlocksPerGroup,
               [block_bitmap |-> v.block_bitmap[g], inode_bitmap |-> v.inode_bitmap[g]])

TakeInode(s, i) ==
    WriteHeader(s, i \div InodesPerGroup, set_inode_used(Decode(s.image), i))

TakeBlock(s, b) ==
    WriteHeader(s, b \div BlocksPerGroup, set_block_used(Decode(s.image), b))

ReturnInode(s, i) ==
    WriteHeader(s, i \div InodesPerGroup, return_inode_to_freelist(Decode(s.image), i))

ReturnBlock(s, b) ==
    WriteHeader(s, b \div BlocksPerGroup, return_block_to_freelist(Decode(s.image), b))

InodeAt(s, i) == s.image[inode_to_block(i)].inodes[i]

(* The block of inode i as it was read, with the inode changed.             *)
WriteInode(s, read, i, inode) ==
    WriteBlock(s, inode_to_block(i), [read EXCEPT !.inodes[i] = inode])

WriteDirent(s, b, offset, e) ==
    IF Fits(offset, e)
    THEN WriteBlock(s, b, DataBlock(WithEntry(AsDir(s.image[b].data), offset, e)))
    ELSE s

-----------------------------------------------------------------------------
(* The writes of the tools.                                                 *)

(* jfs_mkdir lets a directory grow before it adds the entry.                *)
NameDir(s, d, name, i) ==
    LET e == Dirent(name, "dir", i, EntryLen(NameLength(name)))
        old == InodeAt(s, d)
        grown == WriteInode(s, s.image[inode_to_block(d)], d,
                            [old EXCEPT !.size = @ + e.entry_len])
    IN  WriteDirent(grown, old.blockptrs[0], old.size, e)

MkdirWrites(s, d, name) ==
    LET i == get_free_inode(Decode(s.image))
        named == NameDir(TakeInode(s, i), d, name, i)
        b == get_free_block(Decode(named.image))
        taken == TakeBlock(named, b)
        made == WriteInode(taken, taken.image[inode_to_block(i)], i,
                           [InodeAt(taken, i) EXCEPT !.blockptrs[0] = b, !.size = 0])
    IN  NameDir(NameDir(made, i, ".", i), i, "..", d)

(* One turn of the loop of jfs_copyin: t is what it has stored so far.      *)
StoreWrites(t, text) ==
    LET b == get_free_block(Decode(t.s.image))
    IN  [s |-> WriteBlock(TakeBlock(t.s, b), b, DataBlock(text)),
         blocks |-> Append(t.blocks, b)]

StoredWrites(s, file) ==
    LET stored[n \in 0 .. Len(file)] ==
            IF n = 0 THEN [s |-> s, blocks |-> <<>>]
                     ELSE StoreWrites(stored[n - 1], file[n])
    IN  stored[Len(file)]

(* jfs_copyin holds the block of the new inode while it stores the file,    *)
(* and lets the directory grow after it has added the entry.                *)
CopyinWrites(s, d, path, file) ==
    LET i == get_free_inode(Decode(s.image))
        taken == TakeInode(s, i)
        all == StoredWrites(taken, file)
        written == WriteInode(all.s, taken.image[inode_to_block(i)], i, FileInode(all.blocks))
        e == Dirent(Last(path), "file", i, EntryLen(PathLength(path)))
        old == InodeAt(written, d)
        named == WriteDirent(written, old.blockptrs[0], old.size, e)
    IN  WriteInode(named, written.image[inode_to_block(d)], d,
                   [old EXCEPT !.size = @ + e.entry_len])

FreedWrites(s, i) ==
    LET ptrs == BlocksOf(Decode(s.image), i)
        freed[n \in 0 .. Len(ptrs)] ==
            IF n = 0 THEN ReturnInode(s, i) ELSE ReturnBlock(freed[n - 1], ptrs[n])
    IN  freed[Len(ptrs)]

(* The first transaction of jfs_rm.                                         *)
RmWrites(s, path) ==
    LET v == Decode(s.image)
        b == v.inode[DirOf(v, path, {"dir"})].blockptrs[0]
    IN  WriteBlock(FreedWrites(s, FoundEntry(v, path).inode), b,
                   DataBlock(CutEntry(s.image[b].data, FoundAt(v, path))))

\* Mutant: the block of the inode is built anew.
ResizeFromZeroes(s, r) ==
    WriteInode(s, InodeBlock([i \in InodesIn(inode_to_block(r.dir)) |-> InodeOf(0, 0)]),
               r.dir,
               [InodeAt(s, r.dir) EXCEPT !.size = r.size])

(* Its second one, change_dir_size.                                         *)
ResizeWrites(s, r) ==
    WriteInode(s, s.image[inode_to_block(r.dir)], r.dir,
               [InodeAt(s, r.dir) EXCEPT !.size = r.size])

(* jfs_format writes to the image itself.                                   *)
Blank(b) ==
    IF InodesIn(b) # {} THEN InodeBlock([i \in InodesIn(b) |-> InodeOf(None, None)])
                        ELSE DataBlock(NoEntries)

GroupWrites ==
    LET groups[g \in 0 .. Groups] ==
            IF g = 0 THEN [image |-> [b \in Block |-> Blank(b)], writes |-> <<>>]
                     ELSE WriteHeader(groups[g - 1], g - 1, NewGroups)
    IN  groups[Groups]

FormatWrites ==
    LET made == GroupWrites
        i == get_free_inode(Decode(made.image))
        b == get_free_block(Decode(made.image))
        taken == TakeBlock(TakeInode(made, i), b)
        root == WriteBlock(taken, inode_to_block(i),
                           InodeBlock(RootInodes(taken.image[inode_to_block(i)].inodes, i, b)))
    IN  CopyinWrites(NameDir(NameDir(root, i, ".", i), i, "..", i), i, <<".log">>, LogFile)

(* Where jfs_commit and jfs_checklog find the blocks of the log.            *)
FindLog(v) ==
    LET i == findfile_recursive(v, <<".log">>, "file")
    IN  IF i < 0 THEN <<>> ELSE v.inode[i].blockptrs

(* The blocks of .log: jfs_format takes the first that are free, after the  *)
(* root's.  LogIsFound compares them with what findfile finds.              *)
ASSUME LogAssumption ==
    /\ DataBlockOffset + Ptrs < BlocksPerGroup
    /\ Searched(DataBlockOffset + Ptrs)

LogPtrs == [n \in 0 .. Ptrs - 1 |-> DataBlockOffset + 1 + n]

Home == Block \ {LogPtrs[n] : n \in 0 .. Ptrs - 1}

-----------------------------------------------------------------------------
(* Content serves only the types of Journal, which ToolsProofs gives it, and *)
(* MaxTxn, its bound on a transaction, is out of reach: TransactionsAreShort *)
(* says how long one gets.                                                  *)
J == INSTANCE JournalSafety WITH
        Block <- Home, Content <- {DataBlock(Zero)}, Zero <- DataBlock(Zero),
        LogLen <- Ptrs, MaxTxn <- Groups * BlocksPerGroup,
        CrashAfter <- {0}, RecoverFirst <- TRUE

journalVars == <<disk, log, pc, cache, blocks_done, cb, crash_after,
                 rpc, slot, copied, blocks>>

toolsVars == <<journalVars, vars, job, todo, started, torn>>

NoJob == [tool |-> "none"]

ToolsInit ==
    /\ Init
    /\ LET image == FormatWrites.image
       IN  /\ disk = [b \in Home |-> image[b]]
           /\ log = [n \in 0 .. Ptrs - 1 |-> image[LogPtrs[n]]]
    /\ pc = "free"
    /\ cache = <<>>
    /\ blocks_done = 0
    /\ cb = J!NoBlocks
    /\ crash_after = 0
    /\ rpc = [r \in Checker |-> "idle"]
    /\ slot = [r \in Checker |-> 0]
    /\ copied = [r \in Checker |-> 0]
    /\ blocks = [r \in Checker |-> J!NoBlocks]
    /\ job = NoJob
    /\ todo = <<>>
    /\ started = 0
    /\ torn = FALSE

Reading == [image |-> disk, writes |-> <<>>]

(* A tool starts, and finds that it can do what it is asked to.             *)
Start(tool, writes) ==
    /\ started < MaxTools
    /\ J!Mount
    /\ started' = started + 1
    /\ job' = tool
    /\ todo' = writes
    /\ UNCHANGED <<vars, torn>>

StartMkdir(path) ==
    LET v == Decode(disk)
    IN  /\ pc = "free" /\ ~torn
        /\ mkdirResult(v, path) = "ok"
        /\ Start([tool |-> "mkdir", path |-> path],
                 MkdirWrites(Reading, DirOf(v, path, {"dir", "file"}), Last(path)).writes)

StartCopyin(path, file) ==
    LET v == Decode(disk)
    IN  /\ pc = "free" /\ ~torn
        /\ FreshNames => ~Taken(v, path)
        /\ copyinResult(v, path, file) = "ok"
        /\ Start([tool |-> "copyin", path |-> path, file |-> file],
                 CopyinWrites(Reading, DirOf(v, path, {"dir"}), path, Truncated(file)).writes)

StartRm(path) ==
    LET v == Decode(disk)
    IN  /\ pc = "free" /\ ~torn
        /\ rmResult(v, path) = "rm"
        /\ ~UsesEveryPtr(v, path)
        /\ Start([tool |-> "rm", path |-> path, resize |-> ToResize(v, path)],
                 RmWrites(Reading, path).writes)

ToolWrites ==
    /\ todo # <<>>
    /\ J!Write(Head(todo).blocknum, Head(todo).blockdata)
    /\ todo' = Tail(todo)
    /\ UNCHANGED <<vars, job, started, torn>>

ToolCommits ==
    /\ todo = <<>>
    /\ J!BeginCommit
    /\ UNCHANGED <<vars, job, todo, started, torn>>

Logs == J!LogBlock /\ UNCHANGED <<vars, job, todo, started, torn>>

(* The step of Volume that the transaction makes durable.                   *)
Durable ==
    \/ job.tool = "mkdir" /\ mkdir(job.path)
    \/ job.tool = "copyin" /\ copyin(job.path, job.file)
    \/ job.tool = "rm" /\ jfs_remove_file(job.path)
    \/ change_dir_size

CommitPoint == J!WriteCommitBlock /\ Durable /\ UNCHANGED <<job, todo, started, torn>>

SkipsCommitBlock == J!SkipCommitBlock /\ UNCHANGED <<vars, job, todo, started, torn>>

Flushes == J!FlushBlock /\ UNCHANGED <<vars, job, todo, started, torn>>

(* The cache goes home with no commit block in the log.                     *)
Unprotected == pc = "flush" /\ blocks_done = Ptrs

(* jfs_rm goes on with its second transaction; the other tools are done.    *)
CommitReturns ==
    /\ J!EndCommit
    /\ IF Unprotected THEN Durable ELSE UNCHANGED vars
    /\ IF job.tool = "rm"
       THEN /\ job' = [tool |-> "resize"]
            /\ todo' = ResizeWrites(Reading, job.resize).writes
       ELSE job' = NoJob /\ UNCHANGED todo
    /\ UNCHANGED <<started, torn>>

ToolExits ==
    /\ job = NoJob
    /\ J!Exit
    /\ UNCHANGED <<vars, job, todo, started, torn>>

ToolDies ==
    /\ J!Crash
    /\ job' = NoJob
    /\ todo' = <<>>
    /\ torn' = (torn \/ Unprotected)
    /\ UNCHANGED started
    /\ CrashBetweenCommits \/ (Idle /\ UNCHANGED vars)

Recovers(r) ==
    /\ J!Checklog(r) \/ J!ChecklogDies(r) \/ J!ChecklogStep(r)
    /\ UNCHANGED <<vars, job, todo, started, torn>>

ToolsNext ==
    \/ \E path \in Path : StartMkdir(path)
    \/ \E path \in Path, file \in File : StartCopyin(path, file)
    \/ \E path \in Path : StartRm(path)
    \/ ToolWrites
    \/ ToolCommits
    \/ Logs
    \/ CommitPoint
    \/ SkipsCommitBlock
    \/ Flushes
    \/ CommitReturns
    \/ ToolExits
    \/ ToolDies
    \/ \E r \in Checker : Recovers(r)

ToolsSpec == ToolsInit /\ [][ToolsNext]_toolsVars

=============================================================================
