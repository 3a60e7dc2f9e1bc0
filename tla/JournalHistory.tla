--------------------------- MODULE JournalHistory ---------------------------
(***************************************************************************)
(* Journal with history variables, for the properties that relate a state  *)
(* to what a transaction began with, and for instances in which a          *)
(* transaction outgrows the log or a crash is not followed by checklog.    *)
(***************************************************************************)
EXTENDS JournalSafety

VARIABLES
    owner,     \* [Slots -> Block \cup {NoBlock}]: the home block of the data
               \* that a transaction last put in the slot
    before,    \* the home blocks when the last commit began
    after,     \* what the committing tool read at that time
    txnLen     \* the number of blocks it had cached

history == <<owner, before, after, txnLen>>

allVars == <<vars, history>>

HInit ==
    /\ Init
    /\ owner = [s \in Slots |-> NoBlock]
    /\ before = disk
    /\ after = disk
    /\ txnLen = 0

BeginStep ==
    /\ BeginCommit
    /\ before' = disk
    /\ after' = View
    /\ txnLen' = Len(cache)
    /\ UNCHANGED owner

LogStep ==
    /\ LogBlock
    /\ owner' = [owner EXCEPT ![blocks_done] = cache[blocks_done + 1].blocknum]
    /\ UNCHANGED <<before, after, txnLen>>

OtherStep ==
    /\ \/ Mount
       \/ Exit
       \/ Crash
       \/ \E b \in Block, d \in Content : Write(b, d)
       \/ WriteCommitBlock
       \/ SkipCommitBlock
       \/ FlushBlock
       \/ EndCommit
       \/ \E r \in Checker : Checklog(r) \/ ChecklogDies(r) \/ ChecklogStep(r)
    /\ UNCHANGED history

HNext == BeginStep \/ LogStep \/ OtherStep

HSpec == HInit /\ [][HNext]_allVars

-----------------------------------------------------------------------------
(* "where the blocks in the logfile should really be on the disk": a live   *)
(* commit block lists, slot by slot, the home of the data the log holds.    *)
MarkDescribesLog ==
    \A s \in Slots : IsLive(s) =>
        \A j \in 0 .. s - 1 : log[s].blocknums[j] = owner[j]

(* After recovery the disk holds the last transaction as a whole or not at  *)
(* all.                                                                     *)
AllOrNothing == Recovered \in {before, after}

(* A transaction is atomic as long as it leaves a block of the log for the  *)
(* commit block, whatever came before it: also a torn or oversized one.     *)
AtomicIfItFits == txnLen < LogLen => AllOrNothing
-----------------------------------------------------------------------------
(* The inductive invariant behind both, for users who recover after a crash.*)

(* What a commit has put in cb so far is the home of what it has logged.    *)
OwnerInv ==
    /\ owner \in [Slots -> Block \cup {NoBlock}]
    /\ pc = "log" => \A j \in 0 .. blocks_done - 1 : cb[j] = owner[j]
    /\ MarkDescribesLog

(* Up to the commit point recovery restores what was there before, from     *)
(* then on what the tool read; only an oversized transaction has no commit  *)
(* point.                                                                   *)
TxnInv ==
    /\ txnLen \in Nat
    /\ pc = "log" => txnLen = Len(cache) /\ before = Recovered /\ after = View
    /\ pc = "flush" => IF blocks_done < LogLen THEN after = Recovered ELSE txnLen >= LogLen
    /\ AtomicIfItFits

HistoryInv == JournalInv /\ OwnerInv /\ TxnInv
=============================================================================
