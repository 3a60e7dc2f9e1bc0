--------------------------- MODULE JournalSafety ---------------------------
(***************************************************************************)
(* What the journal guarantees, as properties of Journal, and the          *)
(* refinement of AtomicDisk.                                               *)
(***************************************************************************)
EXTENDS Journal

(* The commit block checklog acts on is the first one of the log.           *)
Found(s) == IsMark(s) /\ \A t \in 0 .. s - 1 : ~IsMark(t)

Lists(s, j, b) == log[s].blocknums[j] = b

(* What the home blocks hold once checklog has run: the log overlaid on the *)
(* disk if the first commit block is live, the disk otherwise.              *)
Recovered ==
    [b \in Block |->
        IF \E s \in Slots : Found(s) /\ (\E j \in Slots : Lists(s, j, b))
        THEN log[CHOOSE j \in Slots : \E s \in Slots : Found(s) /\ Lists(s, j, b)]
        ELSE disk[b]]

(* What the running tool reads; when the volume is free or after a crash,   *)
(* under checklog or not, there is none.                                    *)
ToolRuns == pc \in {"open", "log", "flush"}

View == IF ToolRuns THEN [b \in Block |-> ReadBlock(b)] ELSE Recovered

Abs == INSTANCE AtomicDisk WITH durable <- Recovered, view <- View

(* Atomicity, as a refinement: for tools whose transactions fit in the log  *)
(* and users who recover after a crash, the journal is an AtomicDisk: what  *)
(* recovery restores changes only at the commit point, and then to all that *)
(* the tool has written; a tool reads its own writes before, during and     *)
(* after the flush; a crash at any block write, also one of checklog, loses *)
(* a transaction as a whole or not at all.  Recoveries may overlap: neither *)
(* one that copies a block home again, nor one that goes on with a commit   *)
(* block another has cancelled since, changes what the tools find.          *)
Atomicity == Abs!Spec

(* checklog stops at the first commit block it meets, so a live one must    *)
(* never be hidden behind one that an earlier, shorter transaction left.    *)
LiveMarkIsFound == \A s \in Slots : IsLive(s) => Found(s)

(* A transaction never starts to overwrite the log while a commit block in  *)
(* it still calls for a replay, and a tool never ends with one.             *)
NoStaleMark == pc \in {"free", "open", "log"} => \A s \in Slots : ~IsLive(s)

(* The write-ahead rule: whatever block goes home, from the cache or from   *)
(* the log, is at that time listed, with that content, by a commit block    *)
(* that recovery would find.                                                *)
HomeIsLogged ==
    \A b \in Block : disk'[b] # disk[b] =>
        \E s \in Slots : /\ Found(s)
                         /\ IsLive(s)
                         /\ \E j \in 0 .. s - 1 : Lists(s, j, b) /\ log[j] = disk'[b]

WriteAhead == [][HomeIsLogged]_vars

(* The loops of jfs_commit end: a commit that has begun returns to the tool *)
(* unless its process dies.                                                 *)
CommitEnds == pc = "log" ~> pc \in {"open", "down"}

(* A recovery after a crash that has begun ends.  By then the disk holds    *)
(* what the log promised and no commit block is live, unless its process    *)
(* has died and no other has returned.                                      *)
RecoveryEnds ==
    \A r \in Checker, d \in [Block -> Content] :
        (pc = "down" /\ rpc[r] = "scan" /\ Recovered = d)
            ~> /\ rpc[r] = "idle"
               /\ pc = "down" \/ (disk = d /\ \A s \in Slots : ~IsLive(s))
-----------------------------------------------------------------------------
(* Inductive invariants behind these properties.                            *)

(* No tool runs beside checklog, which has passed no commit block and       *)
(* copies nothing but blocks before the one it has found.                   *)
Located(r) ==
    /\ IF rpc[r] = "idle" THEN slot[r] = 0 ELSE pc \in {"free", "down"}
    /\ rpc[r] = "scan" => \A t \in 0 .. slot[r] - 1 : ~IsMark(t)
    /\ rpc[r] \in {"replay", "cancel"} => slot[r] < LogLen /\ Found(slot[r])
    /\ rpc[r] = "replay" => \A j \in Slots : blocks[r][j] # NoBlock => j < slot[r]

(* What holds of every transaction and every crash: a commit block lists    *)
(* only slots before its own, and checklog has passed none.  TypeOK rests   *)
(* on it: a replay never copies a commit block home.                        *)
LogShape ==
    /\ \A s, j \in Slots : IsMark(s) /\ log[s].blocknums[j] # NoBlock => j < s
    /\ pc = "log" => \A j \in Slots : cb[j] # NoBlock => j < blocks_done
    /\ \A r \in Checker : Located(r)

(* The rest is for users who recover after a crash.                         *)

(* jfs_write_block keeps one copy of a block, and only a tool has a cache.  *)
CacheInv ==
    /\ Len(cache) <= MaxTxn
    /\ ~ToolRuns => cache = <<>>
    /\ \A k, l \in DOMAIN cache : cache[k].blocknum = cache[l].blocknum => k = l

(* A live commit block lists every slot before its own, under different     *)
(* block numbers; a cancelled one lists none.                               *)
MarkInv ==
    \A s \in Slots : IsMark(s) =>
        IF log[s].uncommitted = 1
        THEN /\ \A j \in 0 .. s - 1 : log[s].blocknums[j] # NoBlock
             /\ \A i, j \in 0 .. s - 1 :
                  log[s].blocknums[i] = log[s].blocknums[j] => i = j
        ELSE \A j \in Slots : log[s].blocknums[j] = NoBlock

(* What a commit has put in the log so far is a prefix of the cache.        *)
LogInv ==
    pc = "log" =>
        /\ blocks_done <= Len(cache)
        /\ \A j \in 0 .. blocks_done - 1 :
             log[j] = cache[j + 1].blockdata /\ cb[j] = cache[j + 1].blocknum

(* While the cache is flushed, the commit block stands, the log still holds *)
(* what is left in the cache, and the rest is home.  A transaction that     *)
(* filled the log has no commit block, and there is no other.               *)
Flushed == blocks_done - Len(cache)

FlushInv ==
    pc = "flush" =>
        IF blocks_done < LogLen
        THEN /\ log[blocks_done] = Marked(cb)
             /\ Flushed >= 0
             /\ \A j \in 0 .. blocks_done - 1 :
                  IF j < Flushed
                  THEN disk[cb[j]] = log[j]
                  ELSE /\ cb[j] = cache[j - Flushed + 1].blocknum
                       /\ log[j] = cache[j - Flushed + 1].blockdata
        ELSE MaxTxn >= LogLen /\ \A s \in Slots : ~IsLive(s)

(* What checklog has copied is home.  The commit block it goes by is live   *)
(* until another process has cancelled it: then everything is home.         *)
HomeBefore(r, n) ==
    \A j \in 0 .. n - 1 : blocks[r][j] # NoBlock => disk[blocks[r][j]] = log[j]

Replaying(r) ==
    /\ rpc[r] \in {"idle", "scan"} => copied[r] = 0
    /\ rpc[r] = "replay" =>
        \/ IsLive(slot[r]) /\ blocks[r] = log[slot[r]].blocknums
        \/ ~IsLive(slot[r]) /\ HomeBefore(r, LogLen)
    /\ rpc[r] \in {"replay", "cancel"} =>
        copied[r] <= slot[r] /\ HomeBefore(r, copied[r])
    /\ rpc[r] = "cancel" /\ IsLive(slot[r]) =>
        copied[r] = slot[r] /\ blocks[r] = log[slot[r]].blocknums

ReplayInv == \A r \in Checker : Replaying(r)

JournalInv ==
    /\ TypeOK
    /\ LogShape
    /\ NoStaleMark
    /\ LiveMarkIsFound
    /\ CacheInv
    /\ MarkInv
    /\ LogInv
    /\ FlushInv
    /\ ReplayInv
=============================================================================
