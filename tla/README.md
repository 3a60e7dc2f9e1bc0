# Verification of the filesystem in a file

TLA+ models, model-checking runs and machine-checked proofs for the journaling
filesystem in `src/`: command line tools that keep a small Unix-like filesystem
inside one ordinary file. `PROJECT.json` maps every definition to the lines it
models.

## 1. The system

The image is a file of 1024 blocks of 512 bytes, in groups of 256. A group
starts with a header (superblock and two bitmaps) and 8 blocks of inodes; the
rest is data. A directory is one block of variable-length entries, a file has
at most 14 blocks, and the file `.log`, 14 blocks long, is the journal.

There is no daemon. Every tool is a process that maps the image (`MAP_SHARED`),
works, and exits. All state that outlives a process is in the image.

| Component | State | Operations | What makes it correct |
|---|---|---|---|
| Virtual disk (`fs_disk.c`) | the mapping | `read_block`, `write_block`, mount, unmount | a block write survives the process |
| Write cache (`jfs_common.c`) | list of written blocks, private to the process | `jfs_read_block`, `jfs_write_block` | a tool reads its own writes; one copy per block |
| Commit (`jfs_common.c`) | `.log`, the commit block, the loop counters | `jfs_commit` | transactions are all or nothing; write-ahead |
| Recovery (`jfs_checklog.c`) | the same `.log` | `checklog`, `write_Data_To_Disk` | restores exactly the committed contents, also when it is itself interrupted and run again |
| Allocation (`jfs_common.c`) | bitmaps in the group headers | `get_free_*`, `return_*_to_freelist` | nothing is given out twice, nothing leaks |
| Directories and files (`jfs_mkdir.c`, `jfs_copyin.c`, `jfs_rm.c`, `jfs_common.c`) | inodes, directory blocks, data blocks | `mkdir`, `copyin`, `jfs_remove_file`, `findfile_recursive` | the tools together are a tree of files and directories |
| Format (`jfs_format.c`) | the whole image | once | makes a sound volume and an empty log |
| Readers (`jfs_ls.c`, `jfs_copyout.c`, `jfs_fsck.c`) | none | walks | see what is there |

Interaction: the tools call the allocators and `create_dirent`, which go through
the write cache; `jfs_commit` moves the cache into `.log`, then home, then
cancels the commit block; `jfs_checklog` is the only reader of the log, and a
user has to start it. Nothing looks at the log when a tool mounts the image.

What is hard: a process can die between any two block writes, of a commit or of
a recovery, and recoveries can overlap; log blocks and commit blocks of old
transactions stay in `.log`;
transactions may be longer than the log; `jfs_rm` commits twice; inodes and
blocks are reused without being cleared; directories and the disk fill up in
the middle of an operation. `PROJECT.json` lists these hazards at their lines.

## 2. Modules

    JournalHistoryProofs -> JournalHistory -> JournalSafety -> Journal
                         -> JournalProofs  ->     |  \-> AtomicDisk
                                                  |
                        MCTools -> ToolsSafety -> Tools -> Volume -> Alloc
                                        |                     |
    MCVolumeHistory -> VolumeHistory -> VolumeSafety ---------+
                           \-> FileTree    MCVolume -> VolumeSafety

    VolumeTree -> VolumeRoom -> VolumeWalks -> VolumeProofs -> VolumeLemmas
         \-> VolumeHistory                                          |
    ToolsProofs -> VolumeProofs, ToolsSafety                   VolumeSafety
         \-> JournalProofs

An arrow leads to the module that is extended or instantiated;
`MCJournalHistory` extends `JournalHistory`.
`Tools` is the composition: it extends `Volume` and instantiates `JournalSafety`.

| Module | What it is |
|---|---|
| `Journal` | write cache, `jfs_commit`, `jfs_checklog` and process death, one step per block write |
| `AtomicDisk` | the abstract specification: durable contents change by whole transactions |
| `JournalSafety` | the properties of `Journal`, the refinement mapping to `AtomicDisk`, the inductive invariant |
| `JournalHistory` | history variables for properties about what a commit began with |
| `JournalProofs`, `JournalHistoryProofs` | the theorems about them |
| `Alloc` | the bitmaps and their searches |
| `Volume` | directories, files, inodes and the tools that change them, one step per transaction |
| `FileTree` | the abstract specification: a tree of directories and files |
| `VolumeSafety` | the walk of `jfs_ls` and `jfs_fsck`, what `jfs_fsck` says as operators, soundness of the volume |
| `VolumeLemmas` | induction and functions by recursion, for loops; lemmas on the bitmaps: a search returns a free number in range, setting or returning a bit changes that bit and no other; lemmas on the operators of `Volume`: the walk through a directory, the search for a path, the loops over the blocks of a file |
| `VolumeProofs` | every tool, and `jfs_format`, keeps the volume sound |
| `VolumeWalks` | what the walks meet on a sound volume: nothing twice, nothing free; no tool touches another file; nothing leaks |
| `VolumeRoom` | directories that have room stay in order, so no walk reads garbage |
| `VolumeHistory` | the tree the users have made, as a history variable; the refinement of `FileTree` |
| `VolumeTree` | the tools keep to that tree |
| `Tools` | the tools on the journal: their block writes in order, through `jfs_commit`, crashes and `jfs_checklog`; what `jfs_format` writes |
| `ToolsSafety` | what the image shows of the volume; the inductive invariant of the tools |
| `ToolsProofs` | the tools keep the image to the volume, and short files to the log |
| `MC*` | symmetry sets and the files users copy in, for the runs |

`Volume` takes a commit as one atomic step; `Journal` shows when it is one, for
any blocks; `Tools` puts the two together and shows that what the tools write,
block by block, is the step of `Volume`.

### Journal and the code

| Model | Code |
|---|---|
| `disk`, `log` | the image: the home blocks, and the blocks of `.log` in the order of its block pointers |
| `cache` | `cache_head ... cache_tail` |
| `pc` | no tool (`free`); one died (`down`); a tool between commits (`open`); the first and second loop of `jfs_commit` (`log`, `flush`) |
| `rpc` | each `jfs_checklog` process: none (`idle`), its scan, its copy and its cancellation (`scan`, `replay`, `cancel`) |
| `blocks_done`, `cb`, `crash_after` | the locals and the global of `jfs_commit` |
| `slot`, `copied`, `blocks` | per `jfs_checklog` process: `i` of `checklog` and of `write_Data_To_Disk`, and the block numbers in its own copy of the commit block |

One action is one block write, or the step between two. `LogBlock` and
`FlushBlock` contain the countdown of `CRASH_AFTER`; `Crash` is a death for any
other reason at any point. `CommitPoint` is the test at `jfs_common.c:738` and
`WriteCommitBlock` and `SkipCommitBlock` are its two sides (`journal_log_limit`
and `tools` reach the second); `EndCommit` cancels the commit block.
`ScanOverrun` is the scan of a log without a commit block: the loop at
`jfs_checklog.c:42` has no bound, reads past the inode and stops or dies there;
it writes nothing either way.

`Checker` is the set of `jfs_checklog` processes. Nothing keeps two from running
at once, and each goes on from the commit block as it read it, whatever another
has made of it since. After one has ended well, users take the volume for
recovered (`pc = "free"`), but no tool is started until all have ended: a tool
beside another process is outside the model (section 6).

Abstractions:
- The content of a block is one of a few values. A commit block is told from
  data by its magic number; that no data block begins with it is an assumption
  (`MagicAssumption`), as in the comment at `jfs_common.c:699`.
- `sum` is written and never read, and is left out.
- The bits of a home block mean nothing here; which blocks a transaction
  writes, and with what, is arbitrary, which includes what the tools write.
- `CrashAfter` is a set. Every commit takes any of its values; the program
  takes one value for all the commits of a process, which is less.
- The missing-log branches (`jfs_common.c:688`, `jfs_checklog.c:34`) are left
  out: `LogIsFound` of `Tools` shows that they are never taken.
- Writes persist in the order they are made. That is right for the death of a
  process on a shared mapping, and not for a power failure.

### Volume and the code

| Model | Code |
|---|---|
| `vol.block_bitmap`, `vol.inode_bitmap` | the bitmaps, as sets of the numbers in use per group |
| `vol.inode` | inodes; `size` counts bytes of a directory and blocks of a file |
| `vol.data` | blocks; a directory block is a function from the offsets where entries begin to the entries, with their `entry_len` |
| `rm` | what is left of a `jfs_rm` between its two commits |
| `result` | how the last tool ended |

`mkdir`, `copyin` and `jfs_remove_file` compute how the tool ends
(`mkdirResult`, ...) and, if it commits, the whole change. `change_dir_size` is
the second commit of `jfs_rm`, `CrashBetweenCommits` a death before it.

Details that matter and are kept:
- Every walk reads the first entry before it looks at the size, and stops at
  the first entry of the name. `mkdir_recursive` does not look at the type of
  what it descends into and walks into files.
- A walk that leaves the entries reads `Junk`. In the program that is 0xff
  bytes of the fresh image, stale bytes or bytes beyond the buffer: the walk
  dies, or never ends, before the tool commits. The model calls all of this
  "died". It does not consider garbage that happens to be a well-formed entry.
- `create_dirent` drops an entry that does not fit; its callers count it. It
  asks for 20 bytes and the name; the callers give an entry 16 bytes and the
  name rounded up, and `jfs_copyin` takes the whole path for the name, so the
  last entry may end beyond the block. `jfs_rm` of that entry dies: the length
  it gives `memcpy` is negative.
- `jfs_rm` moves the entries behind the removed one down over it and never sets
  the tail of the block it writes.
- `.` and `..` are entries like others and paths may go through them (`Dots`).
- The initial state is what `jfs_format` makes of an empty image, root and
  `.log` included, computed with the allocators. `FormatAssumption` says that
  the first group has room for them; `jfs_format` does not check it.
- The inodes in the block of the root's are zeroed by `jfs_format`, the others
  are 0xff bytes.
- `find_free_block` looks at the first `ByteSize` bytes of `ByteSize` bits
  (`i<8` at `jfs_common.c:142`), `Searched` in the model.
- `jfs_rm` of a file with all block pointers in use, `.log` for one, does not
  find a zero pointer and takes the words behind the inode on its stack for
  block numbers as well, until one is zero. What these are is up to the
  compiler, so `Overread` has every outcome: it may die reading; it may free
  any blocks besides those of the file and commit (with gcc's stack protector
  the inode of the directory lies there, and in a subdirectory the block of
  that directory is freed); or it meets a number past the end of the image,
  which `jfs_read_block` lets pass, and `write_block` aborts on it in the
  flush, when the bitmaps are home and the directory is not. `RmFull` says
  whether users remove such files. `volume_full_file` shows what becomes of
  the volume; in every other run, and in the theorems, they do not.
- `jfs_mkdir` without a free block dies when it reads block -1.
- New directories and files are written over whatever a reused block or inode
  held; only `jfs_copyin` clears the block pointers.

Left out: the bytes of a file's last block, paths that end in `.` or `..`,
repeated slashes, names that are too long, `flags` (never read). The blocks of `.log` keep their first content here; they belong to
`Journal`. The death of a tool inside a commit is either the tool not having
run or the tool having run, by `Atomicity`.

### Tools and the code

A tool reads whole blocks, changes a part and writes them back: `MkdirWrites`,
`CopyinWrites`, `RmWrites` and `ResizeWrites` are the writes of a transaction in
the order of the code, each made from the blocks as the tool reads them, with
its own writes included. `FormatWrites` is the same for `jfs_format`, which
writes to the image directly; the initial state is the image it makes. `job` is
the tool that runs and `todo` the writes it has still to make; every other
variable belongs to `Journal` or `Volume`, and the steps are those of `Journal`,
the commit block's write together with the step of `Volume` that it makes
durable. `vol` is therefore what the users believe, and `ImageHoldsVolume` says
that the image, decoded from what a recovery would leave, is just that. Tools
that give up before they commit write nothing and are left out.

A transaction that fills the log has no commit block (`SkipsCommitBlock`): it is
`Unprotected` while its blocks go home, and becomes durable when the last is
there and `jfs_commit` returns (`CommitReturns`). A tool that dies before that
leaves an image that is neither the old volume nor the new one, and `torn` says
that it has. Recoveries go on on a torn image, tools do not: the model says
nothing of what they make of it. Nor do users here remove files that use every
block pointer.

## 3. Runs

Journal. Three home blocks and two contents show every way a transaction
overlaps an earlier one: disjoint, the same block twice, the same block with
the same content. A log of 4 blocks takes transactions of 1, 2 and 3 blocks
with their commit blocks in slots 1 to 3, so a later commit block falls before,
on and behind an earlier one. Two `jfs_checklog` processes may overlap in every
passing run.

| Run | Bounds | What it shows |
|---|---|---|
| `journal_atomic` | 3 blocks, 2 contents, log of 4, transactions up to 3, `CRASH_AFTER` unset or 2 | `Atomicity`: `Journal` implements `AtomicDisk` under `Recovered` and `View`. `WriteAhead`, `NoStaleMark`, `LiveMarkIsFound`. `CommitEnds` and `RecoveryEnds`, under `FairSpec`. `JournalInv`, which the proofs use, is an invariant |
| `journal_log_limit` | 3 blocks, log of 3, transactions up to 3 | transactions that reach the size of the log are in the mix: a live commit block always describes the log (`MarkDescribesLog`), and every transaction that fits is atomic (`AtomicIfItFits`) |
| `journal_oversized` | the same | violation of `AllOrNothing`: a transaction that does not fit is not atomic |
| `journal_no_recovery` | log of 4, tools may run after a crash without `jfs_checklog` | violation of `MarkDescribesLog`: recovery would copy blocks to the wrong homes |

Volume. Two names at two levels give siblings, a directory with files, and
files and directories that compete for a name; three free inodes give entries
before and behind the one removed, and reuse. Names have 7 bytes, so that the
entry of a name, of a path of two names and of one of three differ in length.

| Run | Bounds | What it shows |
|---|---|---|
| `volume_any_use` | 1 group, 3 free inodes, 3 free blocks, blocks of 100 bytes (one entry in the root, two in a subdirectory, of which the second may end beyond the block), names taken or not, `jfs_rm` may die | `ListedIsOwned`: never a block or inode used twice, or used and free. `FsckClean`: nothing leaks while directories can be walked. `FilesAreLeftAlone`. `VolumeInv` and `LeakInv`, which the proofs use, are invariants |
| `volume_tree` | blocks of 160 bytes that do not fill up, new names, no death in `jfs_rm` | `TreeIsSeen`: every path names what the tools put there. `LsListsTree`: `jfs_ls` lists that tree and nothing else, nothing twice, with the sizes of files; `LsShowsSizes`: with those of directories. `ToolsKeepToTree`: `FileTree` is implemented. `WalksStayInDirectory`. `TidyInv` and `TreeInv`, which the proofs use, are invariants: a directory has room here for all names (`HasRoom`: 4 * 32 + 28 bytes of 160) |
| `volume_files` | 2 groups, files of 0 to 3 blocks with a limit of 2 (those of 2 are not removed), paths of up to 3 names with `.` and `..`, a disk that fills up | `TreeIsSeen`, with `TreeInv`, and `FsckClean` at the size limit, across groups and when there is no space |
| `volume_rm_crash` | `jfs_rm` may die between its commits | violation of `WalksStayInDirectory` |
| `volume_full_directory` | blocks of 100 bytes | violation of `WalksStayInDirectory` |
| `volume_full_file` | files of 2 blocks, the limit, are removed | violation of `ListedIsOwned`: `jfs_rm` aborts in its flush and leaves the file listed, with its inode and blocks marked free |
| `volume_free_block` | bitmaps longer than the search | violation of `NoBlockMeansFull` |

Tools. Two groups, each with two blocks of inodes. The log fills the first
group, so that a tool takes its inode in the first group and its blocks in the
second. The log has 7 blocks: `jfs_mkdir` and `jfs_copyin` of a file of one
block write 6, the most that leaves room for the commit block; a file of three
blocks fills the log in a subdirectory and exceeds it in the root. Four tools in
a row make a directory, put a file into it, remove it and reuse what it held,
with a death at any block write and a recovery, itself mortal, between any two.

| Run | Bounds | What it shows |
|---|---|---|
| `tools` | 2 groups, a log of 7 that fills the first, one name at two levels, files of 1 and 3 blocks, 4 tools | `ImageHoldsVolume`: the image, once recovered, is the volume of the last commit. `ReadersFindVolume`: `jfs_ls`, `jfs_copyout` and `jfs_fsck`, which ignore the log, find it unless a tool has just died. Both before, between and behind transactions without a commit block, but while one goes home and once a tool has died then. `LogIsFound`: `.log` is found on a half-flushed disk, a torn one too, and through uncommitted writes. `TransactionsAreShort`: the length of every transaction is bounded by what the tool takes. `ToolsInv`, which the proofs use, is an invariant |

The bounds are `MaxTxn` (cached blocks), `MaxDepth` (names in a path), `File`
(the files users copy in) and `MaxTools` (tools users start); everything else is
the size of the instance.
Deadlock is checked in every run. `SYMMETRY` is over home blocks and over names;
no action singles one out, and no run with symmetry checks liveness.

Fairness: `FairSpec` has weak fairness of the steps of a commit and of a
recovery. A process that is inside one of them is a sequential program that
never waits, so it goes on unless it dies. Users are not obliged to start tools
or recovery, and processes are not obliged to die or to survive.

## 4. Proofs

`JournalProofs` proves, for every set of blocks and contents, every length of
the log and every bound on transactions:

| Theorem | Statement | Assumptions beside those on the constants |
|---|---|---|
| `TypeCorrect` | `Spec => []TypeOK` | none: transactions of any size, any behaviour after a crash |
| `Inductive` | `Spec => []JournalInv` | `RecoverFirst` |
| `NoHiddenMark` | `Spec => []LiveMarkIsFound` | `RecoverFirst` |
| `NoMarkIsLeft` | `Spec => []NoStaleMark` | `RecoverFirst` |
| `WritesAreLogged` | `Spec => WriteAhead` | `Disciplined` |
| `JournalIsAtomic` | `Spec => Atomicity` | `Disciplined` |

`JournalHistoryProofs` proves of the journal with its history variables:

| Theorem | Statement | Assumptions |
|---|---|---|
| `MarksTellTheTruth` | `HSpec => []MarkDescribesLog` | `RecoverFirst` |
| `FittingIsAtomic` | `HSpec => []AtomicIfItFits` | `RecoverFirst` |

`RecoverFirst` says that users run `jfs_checklog` after a crash; without it
`journal_no_recovery` violates `MarkDescribesLog`. `Disciplined` is
`MaxTxn < LogLen /\ RecoverFirst`: also, every transaction leaves a block for
the commit block; without that `journal_oversized` violates `AllOrNothing`.
`FittingIsAtomic` is the sharper statement, transaction by transaction: one that
fits is atomic whatever the size of those before it.
With the real constants the log has 14 blocks, so a transaction may have 13. A
`jfs_copyin` writes the blocks of the file, the directory block, one or two
blocks of inodes, and the headers of the groups it takes the inode and the
blocks from: 3 to 7 blocks more than the file has (`TransactionsAreShort`, proved
of the writes of the tools below). Files of up to 6 blocks are
always inside the discipline, files of 11 and more never are.

The argument. `TypeOK` is not inductive: `ReplayBlock` copies a log block home,
which is of the right type only if it is not a commit block. `LogShape`
strengthens it: a commit block lists only slots before its own, and the slot
checklog stopped at is the first commit block. For atomicity the invariant says
where each block of a transaction is. `LogInv`: what has been logged is a
prefix of the cache. `FlushInv`: the commit block stands, the log still holds
the rest of the cache, and the part that has left the cache is home; or the
transaction filled the log, and then no commit block in it is live, which is
why a later transaction or recovery cannot be misled by its remains.
`ReplayInv`, of each `jfs_checklog` process: what it has copied is home, and
the commit block it read is either still live or was cancelled by another
process, in which case everything it lists is home already. `HomeBefore` holds
in either case: a replay, also a late one, writes to a home block only what is
there or what the live commit block promises, and cancels only after the last. `MarkInv` and `CacheInv`: a live
commit block lists all its slots under different numbers. `NoStaleMark` and
`LiveMarkIsFound` make the block that was just written the one that recovery
finds. Under the refinement mapping `durable <- Recovered` the commit block's
write is `Commit`, `Write` is `Write`, a death or exit is `Discard`, and every
other step stutters: overwriting home blocks does not change `Recovered` because
the log covers them, and cancelling the commit block does not because they are
home. The lemmas of this refinement are used again for `FittingIsAtomic`:
`HistoryInv` adds that `cb` lists the homes of what has been logged (`OwnerInv`),
and that `Recovered` is `before` up to the commit point and `after` from then on
(`TxnInv`), unless the transaction has no commit point.

### Volume

For every number and size of groups, blocks and names, all files and paths, with
`jfs_rm` dying between its commits or not, from the assumptions on the constants
(sizes are positive, a group has a data block, and the first group has room
for what `jfs_format` makes), from `~RmFull`, that users remove no file that
uses every block pointer (all but `FreeBlock`: `volume_full_file` is the
counterexample), and, for the last six, from those named:

| Theorem | Module | Statement |
|---|---|---|
| `FreeBlock` | `VolumeLemmas` | `get_free_block` returns a free block of the volume, or -1 |
| `VolumeStaysSound` | `VolumeProofs` | `Spec => []VolumeInv` |
| `VolumeTypes` | `VolumeProofs` | `Spec => []TypeOK` |
| `NothingIsInTwoPlaces` | `VolumeWalks` | `Spec => []ListedIsOwned` |
| `ToolsLeaveFilesAlone` | `VolumeWalks` | `Spec => FilesAreLeftAlone` |
| `NothingIsLost` | `VolumeWalks` | `Spec => []LeakInv` |
| `NothingLeaks` | `VolumeWalks` | `Spec => []FsckClean` |
| `DirectoriesStayTidy` | `VolumeRoom` | `Spec => []TidyInv`, if `TextsAreNoDirectories` |
| `WalksReadEntries` | `VolumeRoom` | `Spec => []WalksStayInDirectory`, if also `HasRoom`, `FreshNames` and `~CrashInRm` |
| `DirectoriesShowTree` | `VolumeTree` | `HSpec => []TreeInv`, if `TextsAreNoDirectories` |
| `PathsNameTree` | `VolumeTree` | `HSpec => []TreeIsSeen`, if also `HasRoom`, `FreshNames` and `~CrashInRm` |
| `LsShowsTheTree` | `VolumeTree` | `HSpec => []LsListsTree`, under the same conditions |
| `ToolsImplementTree` | `VolumeTree` | `HSpec => ToolsKeepToTree`, under the same conditions |

Soundness. What `jfs_fsck` sees is not inductive: it says nothing of how the
entries lie in a block, of a size a dead `jfs_rm` has left too large, or of what
comes after bytes that no entry fills, where the walk dies. `Sound` therefore
speaks of the entries of all blocks, walked or not: they do not overlap, lie in
blocks in use, and name inodes in use, a directory or a file by their type
(`EntriesInv`); beside `.` and `..` an inode has one entry (`SoleEntryInv`); a
block has one owner (`BlocksInv`); the size of a directory covers its entries,
and that of a file says which of its pointers are set (`DirInv`, `FileInv`). The
sets `dirs` and `files` say which inodes are which; they may be larger than what
the entries name, so that a tool can be taken apart into steps: a new directory
is a directory before it has an entry. There is one lemma for each step (a new
entry, an entry cut out, a new directory, a new file, a removed file, a new
size), one for each tool made of them, and `FormatSound` for the initial state.
`ResizeInv` is what makes the second commit of `jfs_rm` harmless: the size it is
going to write still covers the entries. `SameFiles`, shown of every step beside
soundness, says that a file with an entry before and after has its inode and its
blocks unchanged, and is `FilesAreLeftAlone`.

Walks. By induction over the levels every place a walk comes to is a directory
of `dirs`, and one directory has one path, because it has one entry. So an inode
or block that is used twice would have two entries or two owners
(`InodesAreOwned`, `BlocksAreOwned`), which is `ListedIsOwned`.

Leaks. The tools do lose things: a full directory drops an entry and counts it,
and a `jfs_rm` that dies between its commits leaves a size that is too large. In
both cases the directory ends up with bytes that no entry fills, and these are
never filled again: entries are appended behind the size and cut out with their
length. So what is in use always has a place (`PlacedInv`): a directory
that has its entry, or one that has a hole. `LeakInv` states that with two
witnesses, the inodes that are directories, lost ones among them, and the level
of each. The level of the directory a place is in is one less than the
directory's own, and bounded by `MaxDepth`, as a path of n names leads down n
levels at most; without it, lost directories could be the place of each other. If
no walk reads garbage, every directory a walk comes to is full (`SafeWalk`),
by induction over levels all directories are reached, and everything in use is
found. Between the commits of `jfs_rm` it is the size still to be written that
says where a directory ends (`EndOf`), and a death there makes a hole
(`CrashedPlaces`).

Room. That no walk reads garbage is not so of every use: `volume_full_directory`
and `volume_rm_crash` violate `WalksStayInDirectory`. `WalksReadEntries` says
where it is so, under four conditions more. `HasRoom`: a block
takes the longest entry for `.`, `..`, `.log` and every name but one, and behind
them the last name with its fixed part; with the 512 bytes of the code, names of 4 bytes and paths of 2
names that is 15 names. `FreshNames`: `jfs_copyin` is not used on a name that exists, as it
would add a second entry. `~CrashInRm`: `jfs_rm` does not die between its
commits. `TextsAreNoDirectories`: the content of a file's block is not itself a
value the model has for a table of entries; it keeps the values of `Text` apart
from those. The inductive invariant is `TidyInv` with `VolumeInv`: the entries
of a directory have different names and fill it up to its size, or to the size
`jfs_rm` is yet to write (`EndOf`). The heart of it is a count. A byte of such a
directory is told by the name of the entry that fills it and its place there, so
its size is at most the number of names times the longest entry
(`FillsAtMost`); a new entry therefore fits (`NewEntryFits`) and is not dropped.
A search in such a directory finds every name there (`NotFoundIsNew`), so that
`jfs_mkdir` does not double one; cutting an entry out leaves no hole
(`CutPacked`). And a walk over it stays on its entries (`OrderlyWalk`): the
offsets it reads are the least set that has 0 and goes on from each entry to the
next.

Tree. `TreeIsSeen` compares whole searches with the history of what users did,
and is not inductive: it is silent about a directory that no path leads to. So
`TreeInv` speaks of the entries. There is an assignment of paths to the
directories, the root's the empty one and no two the same, such that an entry
leads where its name says from the path of its directory, `.` and `..`
included: to a directory with that path, or to a file whose blocks hold what the
tree has there; and whatever the tree has at a path has an entry under its name.
Under the conditions above, which `TreeInv` carries with it, each tool changes
the entries of one directory by one (`Gains`, `Loses`; a new directory has just
`.` and `..`), and with them the tree at one path: `MakeShown`, `PutShown`,
`RemoveShown`. The conditions are needed for just that: `AddEntry` must not drop
the entry, and must not add a second of its name. The new path had nothing
before, because directories have different names and different paths
(`NothingThere`). A search in a tidy directory finds the entry of a name if
there is one (`SearchFinds`), so by induction over its names a path is followed
as `Canonical` says it is (`SearchFollows`, `SeenIsTree`); a name behind a file
or behind nothing ends the search, or runs into the file as `mkdir` does. That
gives `TreeIsSeen` in every state, and for each tool that the error or the exit
it ends with is one `FileTree` allows (`StepKeepsTree`), which is the
refinement. For `jfs_ls`, the places its walk comes to are, level by level, just
the directories with their paths (`PlacesShown`), and so what it meets are the
entries of all of them (`MetShown`); that every directory has `.` and `..` is a
part of `TreeInv` too.

### Tools

`ToolsProofs` proves of the tools on the journal, for volumes and logs of any
size, any names and files, any number of tools and recoveries and a death at
any block write, from the assumptions on the constants (among them
`LogAssumption`: `jfs_format` finds the blocks of the log in the first group).
Users remove no file that uses every block pointer (the guard of `StartRm`):

| Theorem | Statement | Further assumptions |
|---|---|---|
| `ToolsKeepImage` | `ToolsSpec => []ToolsInv` | none |
| `ImageIsTheVolume` | `ToolsSpec => []ImageHoldsVolume` | none |
| `ReadersAreRight` | `ToolsSpec => []ReadersFindVolume` | none |
| `LengthIsBounded` | `ToolsSpec => []TransactionsAreShort` | none |
| `ShortFilesFit` | `ToolsSpec => [](~torn /\ ~Unprotected)` | `Groups + 4 < Ptrs`, and `Len(file) + Groups + 3 < Ptrs` of every file |
| `ToolsImplementVolume` | `ToolsSpec => Spec /\ [](Decode(J!Recovered) = vol)` | the same |

The first four are about transactions of any size; the first three say what the
code can keep of its promise for those that fill the log: nothing while one goes home
(`Unprotected`) and nothing after a tool has died then (`torn`), all of it
otherwise, also after any number of such transactions that came home. That it
cannot keep more is `journal_oversized`. Where the files are short enough for
the log neither case arises (`ShortFilesFit`), and `ToolsImplementVolume` has the
full claim: at every step the image, once recovered, is the volume, and the
volume changes by the steps of `Volume`. What is proved of `Spec` in the modules
before, soundness and the absence of leaks included, then holds of the tools as
they write block by block and die.

The image. `Decode` reads a volume from an image, `ImageOf` is the image of a
volume, and the two undo each other on volumes that are sound and keep the log
(`DecodeIs`). For each piece of a tool (a header with a bit changed, a block
of inodes with one changed, a directory with an entry more) a lemma says that
the writes so far make the image of the volume that `Volume` computes so far;
these compose to `MkdirWorks`, `CopyinWorks`, `RmWorks` and `ResizeWorks`: the
writes of a tool, made one after the other, turn the image of a volume into that
of the tool's result. Soundness (`VolumeInv`) is what makes it so: the block a
tool writes its data to holds no inodes, no header, nothing of `.log`. `LogKept`
is the reason for the last: the inode of `.log` owns those blocks, and as its
pointers are all in use it is among the files that are not removed.

`ToolsInv` says that a recovery of the image gives the volume, and, while a tool
runs, that its cache together with the writes it is still to make gives the
volume it promised (`Promised`). The induction takes each step of `Tools` as one
of `Journal`, of which `JournalProofs` says what becomes of `View` and
`Recovered`: `ToolsProofs` instantiates it with the blocks of the image and
proves its assumptions. A write moves from `todo` to the cache, the commit
block's write turns `Recovered` into `View`, nothing else changes either, and a
death leaves `Recovered` alone. Without a commit block `Recovered` follows the
home writes one by one; what the tool reads, `View`, still does not change
(`FlushShows`), so the promise stands until the cache is empty, when `View`,
`Recovered` and the disk are the same and hold what was promised (`ReturnIs`).

The premises of `ShortFilesFit` are about the log and the files alone, and with
the 4 groups and 14 pointers of the code they allow files of up to 6 blocks. It
rests on `LengthIsBounded`, which follows the sets of blocks that
the pieces of a tool write to: headers, however often, are `Groups` blocks at
most, and beside them a tool touches its own new blocks, two blocks of inodes
and one directory. The cache has one copy of each (`CacheCounts`).

### Only model-checked

- Liveness (`CommitEnds`, `RecoveryEnds`), which is out of the prover's reach.
- `LsShowsSizes`: the size of a directory is a sum over its entries, a fold,
  about which only induction over data says anything. It is also true only of
  paths without `.` and `..` (`Dots = {}` in `volume_tree`): `jfs_copyin` counts
  the path as the user has typed it.
- `LogIsFound`: a walk through a root directory that is in between two volumes.

## 5. Where the code and its comments disagree

`PROJECT.json` has the quotes. In short: transactions as large as the log are
not protected; nothing recovers before the next tool runs; `jfs_rm` makes the
removal and the directory's size durable separately; `jfs_rm` of a file that
uses all its block pointers runs past them and frees what it finds there; full
directories grow beyond their block; three quarters of each bitmap are never
searched.

Beside these: a name copied in twice keeps its first file and hides the second,
which is why `volume_tree` and `volume_files` let users copy in under new names
only (`FreshNames`). The first examples of `jfs_ls` in `src/README` show no
`.log` and smaller sizes than the program prints; a later one there shows what
`LsListsTree` and `LsShowsSizes` say.

## 6. Not modelled

- Two tools at once, or a tool beside `jfs_checklog`. There is no lock, each has
  its own cache, and nothing in the code promises anything of it.
- Power failure with reordered page writes.
- What tools do on an image that an oversized transaction has left torn.
- A death of the tool, and the journal, in `jfs_rm` of a file that uses every
  block pointer: `Overread` has the three outcomes of its transaction, in
  `Volume` only.
- The death of `jfs_format`: it leaves a file that no tool can use and that
  `jfs_format` refuses to overwrite. System calls of `fs_disk.c`.
- The memory of `jfs_fsck` (its `memset` runs over its inode bitmap); its
  counting is modelled.
- Superblock counters and clones, never read. `count_free_blocks`, never called.
- `jfs_checklog_2.c` and `jfs_rm_sonal.c`, not built. The first does not cancel
  the commit block; the mutant `KeepMark` of `CancelMark` does the same.

## 7. Plan

1. A proof of `LogIsFound`: the first three entries of the root stay where
   `jfs_format` has put them, block write by block write.
2. `jfs_format` as actions; two tools on one image.
