---------------------------- MODULE VolumeProofs ----------------------------
(***************************************************************************)
(* The tools keep the volume sound: proofs of the invariants of            *)
(* VolumeSafety.                                                           *)
(***************************************************************************)
EXTENDS VolumeLemmas

-----------------------------------------------------------------------------
(* A new entry.                                                             *)

(* Entry e can be added to a sound volume.                                  *)
Addable(v, dirs, files, e) ==
    /\ e \in Entries /\ e.entry_len > 0
    /\ IF e.type = "dir" THEN e.inode \in dirs ELSE e.inode \in files /\ ~IsDot(e)
    /\ ~IsDot(e) =>
          /\ e.inode # Root
          /\ \A c \in Block : \A p \in DOMAIN Dirents(v, c) :
                ~IsDot(Dirents(v, c)[p]) => Dirents(v, c)[p].inode # e.inode

(* Volumes with the same bitmaps have the same inodes and blocks in use.    *)
LEMMA SameBitsAre ==
    ASSUME NEW v, NEW w, SameBits(v, w)
    PROVE  /\ \A i \in Inode : InodeUsed(w, i) <=> InodeUsed(v, i)
           /\ \A b \in Block : BlockUsed(w, b) <=> BlockUsed(v, b)
BY DEF SameBits, InodeUsed, BlockUsed

(* A sound volume stays sound when such an entry is added.                  *)
LEMMA AddSound ==
    ASSUME NEW v, NEW w, NEW dirs, NEW files, Sound(v, dirs, files),
           NEW d \in dirs, NEW e, Addable(v, dirs, files, e), Added(v, w, d, e)
    PROVE  Sound(w, dirs, files)
<1> DEFINE b == Ptr(v, d, 0)
           k == Size(v, d)
<1>1. /\ e \in Entries /\ e.entry_len \in Nat \ {0}
      /\ IF e.type = "dir" THEN e.inode \in dirs ELSE e.inode \in files /\ ~IsDot(e)
  BY DEF Addable, Entries
<1>2. /\ dirs \cup files \subseteq Inode /\ dirs \cap files = {} /\ 0 \in 0 .. Ptrs - 1
  BY VolumeSizes DEF Sound, InodesInv
<1>3. /\ b \in Block /\ ~IsHeader(b) /\ BlockUsed(v, b) /\ k \in Nat /\ EndBefore(v, b, k)
  BY <1>2 DEF Sound, BlocksInv, Owns, DirInv
<1>4. /\ \A i \in Inode : InodeUsed(w, i) <=> InodeUsed(v, i)
      /\ \A c \in Block : BlockUsed(w, c) <=> BlockUsed(v, c)
  BY SameBitsAre DEF Added
<1>5. /\ \A i \in Inode : Size(w, i) = IF i = d THEN Size(v, i) + e.entry_len ELSE Size(v, i)
      /\ \A i \in Inode, n \in 0 .. Ptrs - 1 : Ptr(w, i, n) = Ptr(v, i, n)
      /\ \A c \in Block : c # b => w.data[c] = v.data[c]
  BY DEF Added
<1>6. \A c \in Block : \A o \in DOMAIN Dirents(w, c) :
         \/ o \in DOMAIN Dirents(v, c) /\ Dirents(w, c)[o] = Dirents(v, c)[o]
         \/ c = b /\ o = k /\ Dirents(w, c)[o] = e
  BY DEF Added
<1>7. \A c \in Block : \A o \in DOMAIN Dirents(v, c) :
         LET f == Dirents(v, c)[o]
         IN  /\ o \in Nat /\ f.entry_len \in Nat \ {0}
             /\ BlockUsed(v, c) /\ ~IsHeader(c)
             /\ \A p \in DOMAIN Dirents(v, c) : o < p => o + f.entry_len <= p
             /\ IF f.type = "dir" THEN f.inode \in dirs ELSE f.inode \in files /\ ~IsDot(f)
  BY EntryFacts DEF Sound, EntriesInv
<1>8. \A o \in DOMAIN Dirents(v, b) : o + Dirents(v, b)[o].entry_len <= k
  BY <1>3 DEF EndBefore
<1> HIDE DEF b, k
<1>9. InodesInv(w, dirs, files)
  BY <1>2, <1>4 DEF Sound, InodesInv
<1>10. EntriesInv(w, dirs, files)
  <2> SUFFICES ASSUME NEW c \in Block, NEW o \in DOMAIN Dirents(w, c)
               PROVE  LET f == Dirents(w, c)[o]
                      IN  /\ BlockUsed(w, c) /\ ~IsHeader(c)
                          /\ f.entry_len > 0
                          /\ \A p \in DOMAIN Dirents(w, c) : o < p => o + f.entry_len <= p
                          /\ IF f.type = "dir" THEN f.inode \in dirs
                                               ELSE f.inode \in files /\ ~IsDot(f)
    BY DEF EntriesInv
  <2>1. CASE o \in DOMAIN Dirents(v, c) /\ Dirents(w, c)[o] = Dirents(v, c)[o]
    <3>1. ASSUME NEW p \in DOMAIN Dirents(w, c), o < p
          PROVE  o + Dirents(v, c)[o].entry_len <= p
      <4>1. CASE p \in DOMAIN Dirents(v, c)
        BY <1>7, <2>1, <3>1, <4>1
      <4>2. CASE c = b /\ p = k
        BY <1>8, <2>1, <4>2
      <4>3. QED  BY <1>6, <4>1, <4>2
    <3>2. QED  BY <1>4, <1>7, <2>1, <3>1
  <2>2. CASE c = b /\ o = k /\ Dirents(w, c)[o] = e
    <3>1. ASSUME NEW p \in DOMAIN Dirents(w, c), o < p
          PROVE  FALSE
      <4>1. p \in DOMAIN Dirents(v, c)
        BY <1>3, <1>6, <2>2, <3>1
      <4>2. p + Dirents(v, b)[p].entry_len <= k /\ p \in Nat
            /\ Dirents(v, b)[p].entry_len \in Nat \ {0}
        BY <1>3, <1>7, <1>8, <2>2, <4>1
      <4>3. QED  BY <1>3, <2>2, <3>1, <4>2
    <3>2. QED  BY <1>1, <1>3, <1>4, <2>2, <3>1
  <2>3. QED  BY <1>6, <2>1, <2>2
<1>11. SoleEntryInv(w)
  <2> SUFFICES ASSUME NEW c \in Block, NEW o \in DOMAIN Dirents(w, c), ~IsDot(Dirents(w, c)[o])
               PROVE  /\ Dirents(w, c)[o].inode # Root
                      /\ \A a \in Block : \A p \in DOMAIN Dirents(w, a) :
                            ~IsDot(Dirents(w, a)[p])
                            /\ Dirents(w, c)[o].inode = Dirents(w, a)[p].inode => c = a /\ o = p
    BY DEF SoleEntryInv
  <2>1. \A a \in Block : \A p \in DOMAIN Dirents(v, a) :
           LET f == Dirents(v, a)[p]
           IN  ~IsDot(f) =>
                  /\ f.inode # Root
                  /\ \A r \in Block : \A q \in DOMAIN Dirents(v, r) :
                        ~IsDot(Dirents(v, r)[q]) /\ f.inode = Dirents(v, r)[q].inode
                        => a = r /\ p = q
                  /\ ~IsDot(e) => f.inode # e.inode
    BY DEF Sound, SoleEntryInv, Addable
  <2>2. ~IsDot(e) => e.inode # Root
    BY DEF Addable
  <2>3. QED  BY <1>6, <2>1, <2>2
<1>12. BlocksInv(w, dirs, files)
  <2>1. \A i \in dirs \cup files, n \in 0 .. Ptrs - 1 :
           Owns(w, dirs, files, i, n) <=> Owns(v, dirs, files, i, n)
    BY <1>2, <1>5 DEF Owns
  <2>2. \A i \in dirs \cup files, n \in 0 .. Ptrs - 1 : Ptr(w, i, n) = Ptr(v, i, n)
    BY <1>2, <1>5
  <2>3. QED  BY <1>4, <2>1, <2>2 DEF Sound, BlocksInv
<1>13. DirInv(w, dirs)
  <2> SUFFICES ASSUME NEW i \in dirs
               PROVE  Size(w, i) \in Nat /\ EndBefore(w, Ptr(w, i, 0), Size(w, i))
    BY DEF DirInv
  <2>1. Size(v, i) \in Nat /\ EndBefore(v, Ptr(v, i, 0), Size(v, i)) /\ Ptr(v, i, 0) \in Block
    BY <1>2 DEF Sound, DirInv, BlocksInv, Owns
  <2>2. Ptr(w, i, 0) = Ptr(v, i, 0) /\ i \in Inode
    BY <1>2, <1>5
  <2>3. CASE i = d
    <3>1. Size(w, i) = k + e.entry_len /\ Ptr(w, i, 0) = b
      BY <1>5, <2>2, <2>3 DEF b, k
    <3>2. \A o \in DOMAIN Dirents(w, b) : o + Dirents(w, b)[o].entry_len <= k + e.entry_len
      <4> TAKE o \in DOMAIN Dirents(w, b)
      <4>1. CASE o \in DOMAIN Dirents(v, b) /\ Dirents(w, b)[o] = Dirents(v, b)[o]
        <5>1. o + Dirents(v, b)[o].entry_len <= k /\ o \in Nat
              /\ Dirents(v, b)[o].entry_len \in Nat
          BY <1>3, <1>7, <1>8, <4>1
        <5>2. QED  BY <1>1, <1>3, <4>1, <5>1
      <4>2. CASE o = k /\ Dirents(w, b)[o] = e
        BY <1>1, <1>3, <4>2
      <4>3. QED  BY <1>3, <1>6, <4>1, <4>2
    <3>3. QED  BY <1>1, <1>3, <3>1, <3>2 DEF EndBefore
  <2>4. CASE i # d
    <3>1. Ptr(v, i, 0) # b
      BY <1>2, <2>4 DEF Sound, BlocksInv, Owns, b
    <3>2. Size(w, i) = Size(v, i)
      BY <1>5, <2>2, <2>4
    <3>3. QED  BY <1>6, <2>1, <2>2, <3>1, <3>2 DEF EndBefore
  <2>5. QED  BY <2>3, <2>4
<1>14. FileInv(w, files)
  <2> SUFFICES ASSUME NEW i \in files
               PROVE  /\ Size(w, i) \in 0 .. Ptrs
                      /\ \A n \in 0 .. Ptrs - 1 :
                            IF n < Size(w, i) THEN w.data[Ptr(w, i, n)] \in Text
                                              ELSE Ptr(w, i, n) = 0
    BY DEF FileInv
  <2>1. i \in Inode /\ i # d /\ Size(w, i) = Size(v, i)
        /\ \A n \in 0 .. Ptrs - 1 : Ptr(w, i, n) = Ptr(v, i, n)
    BY <1>2, <1>5
  <2>2. \A n \in 0 .. Ptrs - 1 : n < Size(v, i) => Ptr(v, i, n) \in Block /\ Ptr(v, i, n) # b
    BY <1>2, <2>1 DEF Sound, BlocksInv, Owns, b
  <2>3. \A n \in 0 .. Ptrs - 1 : n < Size(v, i) => w.data[Ptr(v, i, n)] = v.data[Ptr(v, i, n)]
    BY <1>5, <2>2
  <2>4. QED  BY <2>1, <2>3 DEF Sound, FileInv
<1>15. QED  BY <1>9, <1>10, <1>11, <1>12, <1>13, <1>14 DEF Sound, Added

-----------------------------------------------------------------------------
(* A new inode and its blocks.                                              *)

NewBlock(v, w, c) == ~BlockUsed(v, c) /\ BlockUsed(w, c)

(* w is v with a new inode i, and maybe new blocks, that hold no entries.   *)
Grown(v, w, i) ==
    /\ VolumeOK(w)
    /\ i \in Inode /\ ~InodeUsed(v, i)
    /\ \A j \in Inode : InodeUsed(w, j) <=> InodeUsed(v, j) \/ j = i
    /\ \A j \in Inode : j # i =>
          Size(w, j) = Size(v, j) /\ \A n \in 0 .. Ptrs - 1 : Ptr(w, j, n) = Ptr(v, j, n)
    /\ \A c \in Block :
          /\ BlockUsed(v, c) => BlockUsed(w, c)
          /\ IF NewBlock(v, w, c) THEN DOMAIN Dirents(w, c) = {}
                                  ELSE w.data[c] = v.data[c]

(* What is kept when a volume grows.                                        *)
LEMMA GrownKeeps ==
    ASSUME NEW v, NEW w, NEW dirs, NEW files, NEW i, Sound(v, dirs, files), Grown(v, w, i)
    PROVE  /\ i \notin dirs \cup files
           /\ \A j \in dirs \cup files :
                 /\ j \in Inode /\ j # i /\ Size(w, j) = Size(v, j)
                 /\ \A n \in 0 .. Ptrs - 1 :
                       /\ Ptr(w, j, n) = Ptr(v, j, n)
                       /\ Owns(v, dirs, files, j, n) =>
                             /\ Ptr(v, j, n) \in Block /\ ~NewBlock(v, w, Ptr(v, j, n))
                             /\ w.data[Ptr(v, j, n)] = v.data[Ptr(v, j, n)]
           /\ \A c \in Block : \A o \in DOMAIN Dirents(w, c) :
                 /\ ~NewBlock(v, w, c) /\ Dirents(w, c) = Dirents(v, c)
                 /\ Dirents(w, c)[o].inode # i
<1>1. i \notin dirs \cup files /\ dirs \cup files \subseteq Inode
  BY DEF Sound, InodesInv, Grown
<1>2. ASSUME NEW j \in dirs \cup files, NEW n \in 0 .. Ptrs - 1, Owns(v, dirs, files, j, n)
      PROVE  Ptr(v, j, n) \in Block /\ ~NewBlock(v, w, Ptr(v, j, n))
  BY <1>2 DEF Sound, BlocksInv, NewBlock
<1>3. \A c \in Block : \A o \in DOMAIN Dirents(w, c) :
         ~NewBlock(v, w, c) /\ Dirents(w, c) = Dirents(v, c)
  BY DEF Grown, Dirents
<1>4. \A c \in Block : \A o \in DOMAIN Dirents(v, c) : Dirents(v, c)[o].inode \in dirs \cup files
  BY EntryFacts
<1>5. QED  BY <1>1, <1>2, <1>3, <1>4 DEF Grown

(* A sound volume stays sound when it grows by an empty directory or by a   *)
(* file, with blocks that are new.                                          *)
LEMMA GrownSound ==
    ASSUME NEW v, NEW w, NEW dirs, NEW files, NEW i, Sound(v, dirs, files), Grown(v, w, i),
           NEW dirs2, NEW files2,
           \/ dirs2 = dirs \cup {i} /\ files2 = files /\ Size(w, i) = 0
           \/ /\ dirs2 = dirs /\ files2 = files \cup {i} /\ Size(w, i) \in 0 .. Ptrs
              /\ \A n \in 0 .. Ptrs - 1 :
                    IF n < Size(w, i) THEN w.data[Ptr(w, i, n)] \in Text ELSE Ptr(w, i, n) = 0,
           \A n \in 0 .. Ptrs - 1 : Owns(w, dirs2, files2, i, n) =>
              /\ Ptr(w, i, n) \in Block /\ NewBlock(v, w, Ptr(w, i, n))
              /\ \A m \in 0 .. Ptrs - 1 :
                    Owns(w, dirs2, files2, i, m) /\ Ptr(w, i, m) = Ptr(w, i, n) => m = n
    PROVE  Sound(w, dirs2, files2)
<1>1. /\ i \in Inode /\ i \notin dirs \cup files
      /\ \A c \in Block : BlockUsed(v, c) => BlockUsed(w, c)
      /\ \A j \in Inode : InodeUsed(w, j) <=> InodeUsed(v, j) \/ j = i
  BY GrownKeeps DEF Grown
<1>2. \A j \in dirs \cup files :
         /\ j \in Inode /\ j # i /\ Size(w, j) = Size(v, j)
         /\ \A n \in 0 .. Ptrs - 1 :
               /\ Ptr(w, j, n) = Ptr(v, j, n)
               /\ Owns(v, dirs, files, j, n) =>
                     /\ Ptr(v, j, n) \in Block /\ ~NewBlock(v, w, Ptr(v, j, n))
                     /\ w.data[Ptr(v, j, n)] = v.data[Ptr(v, j, n)]
  BY GrownKeeps
<1>3. \A c \in Block : \A o \in DOMAIN Dirents(w, c) :
         ~NewBlock(v, w, c) /\ Dirents(w, c) = Dirents(v, c)
  BY GrownKeeps
<1>4. /\ dirs2 \cup files2 = dirs \cup files \cup {i}
      /\ dirs \subseteq dirs2 /\ files \subseteq files2
      /\ \A j : j # i => (j \in dirs2 <=> j \in dirs) /\ (j \in files2 <=> j \in files)
  OBVIOUS
<1>5. InodesInv(w, dirs2, files2)
  BY <1>1 DEF Sound, InodesInv
<1>6. EntriesInv(w, dirs2, files2)
  BY <1>1, <1>3, <1>4 DEF Sound, EntriesInv
<1>7. SoleEntryInv(w)
  BY <1>3 DEF Sound, SoleEntryInv
<1>8. \A j \in dirs \cup files, n \in 0 .. Ptrs - 1 :
         Owns(w, dirs2, files2, j, n) <=> Owns(v, dirs, files, j, n)
  BY <1>1, <1>2, <1>4 DEF Owns
<1>9. BlocksInv(w, dirs2, files2)
  <2>1. \A c \in Block : IsHeader(c) => BlockUsed(w, c)
    BY <1>1 DEF Sound, BlocksInv
  <2>2. \A j \in dirs \cup files, n \in 0 .. Ptrs - 1 : Owns(v, dirs, files, j, n) =>
           LET b == Ptr(v, j, n)
           IN  /\ b \in Block /\ ~IsHeader(b) /\ BlockUsed(v, b)
               /\ \A l \in dirs \cup files, m \in 0 .. Ptrs - 1 :
                    Owns(v, dirs, files, l, m) /\ Ptr(v, l, m) = b => j = l /\ n = m
    BY DEF Sound, BlocksInv
  <2> SUFFICES ASSUME NEW j \in dirs2 \cup files2, NEW n \in 0 .. Ptrs - 1,
                      Owns(w, dirs2, files2, j, n)
               PROVE  LET b == Ptr(w, j, n)
                      IN  /\ b \in Block /\ ~IsHeader(b) /\ BlockUsed(w, b)
                          /\ \A l \in dirs2 \cup files2, m \in 0 .. Ptrs - 1 :
                                Owns(w, dirs2, files2, l, m) /\ Ptr(w, l, m) = b
                                => j = l /\ n = m
    BY <2>1 DEF BlocksInv
  <2> DEFINE b == Ptr(w, j, n)
  <2>3. CASE j = i
    <3>1. b \in Block /\ NewBlock(v, w, b)
      BY <2>3
    <3>2. ~IsHeader(b) /\ BlockUsed(w, b)
      BY <3>1 DEF Sound, BlocksInv, NewBlock
    <3>3. ASSUME NEW l \in dirs2 \cup files2, NEW m \in 0 .. Ptrs - 1,
                 Owns(w, dirs2, files2, l, m), Ptr(w, l, m) = b
          PROVE  j = l /\ n = m
      <4>1. CASE l = i
        BY <2>3, <3>3, <4>1
      <4>2. CASE l # i
        <5>1. l \in dirs \cup files
          BY <1>4, <4>2
        <5>2. ~NewBlock(v, w, b)
          BY <1>2, <1>8, <3>3, <5>1
        <5>3. QED  BY <3>1, <5>2
      <4>3. QED  BY <4>1, <4>2
    <3>4. QED  BY <3>1, <3>2, <3>3
  <2>4. CASE j # i
    <3>1. j \in dirs \cup files /\ Owns(v, dirs, files, j, n) /\ b = Ptr(v, j, n)
      BY <1>2, <1>4, <1>8, <2>4
    <3>2. b \in Block /\ ~IsHeader(b) /\ BlockUsed(w, b) /\ ~NewBlock(v, w, b)
      BY <1>1, <1>2, <2>2, <3>1
    <3>3. ASSUME NEW l \in dirs2 \cup files2, NEW m \in 0 .. Ptrs - 1,
                 Owns(w, dirs2, files2, l, m), Ptr(w, l, m) = b
          PROVE  j = l /\ n = m
      <4>1. CASE l = i
        <5>1. NewBlock(v, w, Ptr(w, l, m))
          BY <3>3, <4>1
        <5>2. QED  BY <3>2, <3>3, <5>1
      <4>2. CASE l # i
        <5>1. l \in dirs \cup files
          BY <1>4, <4>2
        <5>2. Owns(v, dirs, files, l, m) /\ Ptr(v, l, m) = Ptr(v, j, n)
          BY <1>2, <1>8, <3>1, <3>3, <5>1
        <5>3. QED  BY <2>2, <3>1, <5>1, <5>2
      <4>3. QED  BY <4>1, <4>2
    <3>4. QED  BY <3>2, <3>3
  <2>5. QED  BY <2>3, <2>4
<1>10. DirInv(w, dirs2)
  <2> SUFFICES ASSUME NEW j \in dirs2
               PROVE  Size(w, j) \in Nat /\ EndBefore(w, Ptr(w, j, 0), Size(w, j))
    BY DEF DirInv
  <2>1. 0 \in 0 .. Ptrs - 1
    BY VolumeSizes
  <2>2. CASE j = i
    <3>1. Size(w, i) = 0 /\ Owns(w, dirs2, files2, i, 0)
      BY <1>1, <2>2 DEF Owns
    <3>2. Ptr(w, i, 0) \in Block /\ NewBlock(v, w, Ptr(w, i, 0))
      BY <2>1, <3>1
    <3>3. QED  BY <1>3, <2>2, <3>1, <3>2 DEF EndBefore
  <2>3. CASE j # i
    <3>1. j \in dirs
      BY <1>4, <2>3
    <3>2. Size(v, j) \in Nat /\ EndBefore(v, Ptr(v, j, 0), Size(v, j))
      BY <3>1 DEF Sound, DirInv
    <3>3. Owns(v, dirs, files, j, 0)
      BY <3>1 DEF Owns
    <3>4. Ptr(w, j, 0) = Ptr(v, j, 0) /\ Size(w, j) = Size(v, j)
          /\ w.data[Ptr(v, j, 0)] = v.data[Ptr(v, j, 0)]
      BY <1>2, <2>1, <3>1, <3>3
    <3>5. QED  BY <3>2, <3>4 DEF EndBefore, Dirents
  <2>4. QED  BY <2>2, <2>3
<1>11. FileInv(w, files2)
  <2> SUFFICES ASSUME NEW j \in files2
               PROVE  /\ Size(w, j) \in 0 .. Ptrs
                      /\ \A n \in 0 .. Ptrs - 1 :
                            IF n < Size(w, j) THEN w.data[Ptr(w, j, n)] \in Text
                                              ELSE Ptr(w, j, n) = 0
    BY DEF FileInv
  <2>1. CASE j = i
    BY <1>1, <2>1
  <2>2. CASE j # i
    <3>1. j \in files
      BY <1>4, <2>2
    <3>2. \A n \in 0 .. Ptrs - 1 : n < Size(v, j) => Owns(v, dirs, files, j, n)
      BY <3>1 DEF Owns
    <3>3. QED  BY <1>2, <3>1, <3>2 DEF Sound, FileInv
  <2>3. QED  BY <2>1, <2>2
<1>12. QED  BY <1>5, <1>6, <1>7, <1>9, <1>10, <1>11 DEF Sound, Grown

(* An empty directory with a new block.                                     *)
LEMMA EmptyDirSound ==
    ASSUME NEW v, NEW w, NEW dirs, NEW files, NEW i, Sound(v, dirs, files), Grown(v, w, i),
           Size(w, i) = 0, Ptr(w, i, 0) \in Block, NewBlock(v, w, Ptr(w, i, 0))
    PROVE  Sound(w, dirs \cup {i}, files)
<1> DEFINE dirs2 == dirs \cup {i}
<1>1. i \notin dirs \cup files
  BY GrownKeeps
<1>2. \A n \in 0 .. Ptrs - 1 : Owns(w, dirs2, files, i, n) => n = 0
  BY <1>1 DEF Owns
<1> HIDE DEF dirs2
<1>3. \A n \in 0 .. Ptrs - 1 : Owns(w, dirs2, files, i, n) =>
         /\ Ptr(w, i, n) \in Block /\ NewBlock(v, w, Ptr(w, i, n))
         /\ \A m \in 0 .. Ptrs - 1 :
               Owns(w, dirs2, files, i, m) /\ Ptr(w, i, m) = Ptr(w, i, n) => m = n
  BY <1>2
<1>4. dirs2 = dirs \cup {i}
  BY DEF dirs2
<1>5. Sound(w, dirs2, files)
  BY <1>3, <1>4, GrownSound
<1>6. QED  BY <1>5 DEF dirs2

(* The new blocks of w are those of file i, each different from the others. *)
NewFile(v, w, i) ==
    /\ Size(w, i) \in 0 .. Ptrs
    /\ \A n \in 0 .. Ptrs - 1 :
          IF n < Size(w, i)
          THEN /\ w.data[Ptr(w, i, n)] \in Text
               /\ Ptr(w, i, n) \in Block /\ NewBlock(v, w, Ptr(w, i, n))
               /\ \A m \in 0 .. Ptrs - 1 :
                     m < Size(w, i) /\ Ptr(w, i, m) = Ptr(w, i, n) => m = n
          ELSE Ptr(w, i, n) = 0
    /\ \A c \in Block : NewBlock(v, w, c) =>
          \E n \in 0 .. Ptrs - 1 : n < Size(w, i) /\ Ptr(w, i, n) = c

(* A file, with its blocks.                                                 *)
LEMMA NewFileSound ==
    ASSUME NEW v, NEW w, NEW dirs, NEW files, NEW i, Sound(v, dirs, files), Grown(v, w, i),
           NewFile(v, w, i)
    PROVE  Sound(w, dirs, files \cup {i})
<1> DEFINE files2 == files \cup {i}
<1>1. i \notin dirs \cup files
  BY GrownKeeps
<1>2. \A n \in 0 .. Ptrs - 1 : Owns(w, dirs, files2, i, n) => n < Size(w, i)
  BY <1>1 DEF Owns
<1>3. files2 = files \cup {i}
  OBVIOUS
<1> HIDE DEF files2
<1>4. \A n \in 0 .. Ptrs - 1 : Owns(w, dirs, files2, i, n) =>
         /\ Ptr(w, i, n) \in Block /\ NewBlock(v, w, Ptr(w, i, n))
         /\ \A m \in 0 .. Ptrs - 1 :
               Owns(w, dirs, files2, i, m) /\ Ptr(w, i, m) = Ptr(w, i, n) => m = n
  BY <1>2 DEF NewFile
<1>5. \A n \in 0 .. Ptrs - 1 :
         IF n < Size(w, i) THEN w.data[Ptr(w, i, n)] \in Text ELSE Ptr(w, i, n) = 0
  BY DEF NewFile
<1>6. Size(w, i) \in 0 .. Ptrs
  BY DEF NewFile
<1>7. Sound(w, dirs, files2)
  BY <1>3, <1>4, <1>5, <1>6, GrownSound
<1>8. QED  BY <1>7 DEF files2

-----------------------------------------------------------------------------
(* What users find in the files that stay.                                  *)

SameFiles(v, w, files) ==
    \A j \in files :
        /\ Size(w, j) = Size(v, j)
        /\ \A n \in 0 .. Ptrs - 1 :
              n < Size(v, j) => w.data[Ptr(w, j, n)] = v.data[Ptr(v, j, n)]

(* jfs_copyout then copies the same out of a file.                          *)
LEMMA SameCopyout ==
    ASSUME NEW v, NEW w, NEW dirs, NEW files, Sound(v, dirs, files),
           NEW j \in files, SameFiles(v, w, {j})
    PROVE  copyout(w, j) = copyout(v, j)
<1>1. Size(v, j) \in 0 .. Ptrs /\ Size(w, j) = Size(v, j)
  BY DEF Sound, FileInv, SameFiles
<1>2. ASSUME NEW n \in 1 .. Size(v, j)
      PROVE  w.data[Ptr(w, j, n - 1)] = v.data[Ptr(v, j, n - 1)]
  <2>1. n - 1 \in 0 .. Ptrs - 1 /\ n - 1 < Size(v, j)
    BY <1>1, VolumeSizes
  <2>2. QED  BY <2>1 DEF SameFiles
<1>3. QED  BY <1>1, <1>2 DEF copyout, Size, Ptr

(* A new entry leaves the files as they are.                                *)
LEMMA AddSameFiles ==
    ASSUME NEW v, NEW w, NEW dirs, NEW files, Sound(v, dirs, files),
           NEW d \in dirs, NEW e, Added(v, w, d, e)
    PROVE  SameFiles(v, w, files)
<1> SUFFICES ASSUME NEW j \in files
             PROVE  /\ Size(w, j) = Size(v, j)
                    /\ \A n \in 0 .. Ptrs - 1 :
                          n < Size(v, j) => w.data[Ptr(w, j, n)] = v.data[Ptr(v, j, n)]
  BY DEF SameFiles
<1>1. d \in Inode /\ j \in Inode /\ j # d /\ 0 \in 0 .. Ptrs - 1
  BY VolumeSizes DEF Sound, InodesInv
<1>2. \A n \in 0 .. Ptrs - 1 : n < Size(v, j) => Ptr(v, j, n) \in Block /\ Ptr(v, j, n) # Ptr(v, d, 0)
  BY <1>1 DEF Sound, BlocksInv, Owns
<1>3. QED  BY <1>1, <1>2 DEF Added

(* So does a new inode.                                                     *)
LEMMA GrownSameFiles ==
    ASSUME NEW v, NEW w, NEW dirs, NEW files, NEW i, Sound(v, dirs, files), Grown(v, w, i)
    PROVE  SameFiles(v, w, files)
<1> SUFFICES ASSUME NEW j \in files
             PROVE  /\ Size(w, j) = Size(v, j)
                    /\ \A n \in 0 .. Ptrs - 1 :
                          n < Size(v, j) => w.data[Ptr(w, j, n)] = v.data[Ptr(v, j, n)]
  BY DEF SameFiles
<1>1. \A n \in 0 .. Ptrs - 1 : n < Size(v, j) => Owns(v, dirs, files, j, n)
  BY DEF Owns
<1>2. QED  BY <1>1, GrownKeeps

-----------------------------------------------------------------------------
(* jfs_mkdir.                                                               *)

(* The new inode of a directory, and its block, before there are entries.   *)
EmptyDir(v, i, b) ==
    [set_block_used(set_inode_used(v, i), b)
        EXCEPT !.inode[i].blockptrs[0] = b, !.inode[i].size = 0]

(* Its fields.                                                              *)
LEMMA EmptyDirIs ==
    ASSUME NEW v, IsVolume(v), NEW i \in Inode, NEW b \in Block
    PROVE  EmptyDir(v, i, b)
             = [block_bitmap |-> set_block_used(set_inode_used(v, i), b).block_bitmap,
                inode_bitmap |-> set_block_used(set_inode_used(v, i), b).inode_bitmap,
                inode |-> [v.inode EXCEPT ![i].blockptrs[0] = b, ![i].size = 0],
                data |-> v.data]
<1> DEFINE x == set_inode_used(v, i)
           y == set_block_used(x, b)
           w == [y EXCEPT !.inode[i].blockptrs[0] = b, !.inode[i].size = 0]
           z == [y EXCEPT !.inode[i].blockptrs[0] = b]
<1>1. IsVolume(x) /\ x.inode = v.inode /\ x.data = v.data
  BY SetInodeUsed
<1> HIDE DEF x
<1>2. IsVolume(y) /\ y.inode = v.inode /\ y.data = v.data
  BY <1>1, SetBlockUsed
<1> HIDE DEF y
<1>3. y = [block_bitmap |-> y.block_bitmap, inode_bitmap |-> y.inode_bitmap,
           inode |-> y.inode, data |-> y.data]
  BY <1>2, VolumeFields
<1>4. w = [z EXCEPT !.inode[i].size = 0]
  OBVIOUS
<1>5. z = [block_bitmap |-> y.block_bitmap, inode_bitmap |-> y.inode_bitmap,
           inode |-> [v.inode EXCEPT ![i].blockptrs[0] = b], data |-> v.data]
  BY <1>2, <1>3
<1> HIDE DEF z
<1>6. w = [block_bitmap |-> y.block_bitmap, inode_bitmap |-> y.inode_bitmap,
           inode |-> [[v.inode EXCEPT ![i].blockptrs[0] = b] EXCEPT ![i].size = 0],
           data |-> v.data]
  BY <1>4, <1>5
<1>7. w = [block_bitmap |-> y.block_bitmap, inode_bitmap |-> y.inode_bitmap,
           inode |-> [v.inode EXCEPT ![i].blockptrs[0] = b, ![i].size = 0],
           data |-> v.data]
  BY <1>6
<1> HIDE DEF w
<1>8. QED  BY <1>7 DEF EmptyDir, w, x, y

(* What mk_new_directory does first gives a free inode a free block.        *)
LEMMA NewDirGrows ==
    ASSUME NEW v, NEW dirs, NEW files, Sound(v, dirs, files),
           NEW i \in Inode, ~InodeUsed(v, i), NEW b \in Block, ~BlockUsed(v, b)
    PROVE  LET w == EmptyDir(v, i, b)
           IN  /\ Grown(v, w, i) /\ Size(w, i) = 0 /\ Ptr(w, i, 0) = b
               /\ \A c \in Block : NewBlock(v, w, c) <=> c = b
<1> DEFINE x == set_inode_used(v, i)
           y == set_block_used(x, b)
           w == [y EXCEPT !.inode[i].blockptrs[0] = b, !.inode[i].size = 0]
           ino == [v.inode EXCEPT ![i].blockptrs[0] = b, ![i].size = 0]
           u == [block_bitmap |-> y.block_bitmap, inode_bitmap |-> y.inode_bitmap,
                 inode |-> ino, data |-> v.data]
<1>1. VolumeOK(v) /\ IsVolume(v)
  BY DEF Sound, VolumeOK
<1>2. /\ IsVolume(x) /\ x.inode = v.inode /\ x.data = v.data
      /\ x.block_bitmap = v.block_bitmap
      /\ \A j \in Inode : InodeUsed(x, j) <=> InodeUsed(v, j) \/ j = i
  BY <1>1, SetInodeUsed
<1> HIDE DEF x
<1>3. /\ IsVolume(y) /\ y.inode = v.inode /\ y.data = v.data
      /\ y.inode_bitmap = x.inode_bitmap
      /\ \A c \in Block : BlockUsed(y, c) <=> BlockUsed(x, c) \/ c = b
  BY <1>2, SetBlockUsed
<1> HIDE DEF y
<1>4. w = u
  <2>1. EmptyDir(v, i, b) = u
    BY <1>1, EmptyDirIs DEF x, y
  <2>2. QED  BY <2>1 DEF EmptyDir, x, y
<1>5. v.inode \in [Inode -> [size : Nat \cup {None},
                             blockptrs : [0 .. Ptrs - 1 -> Block \cup {None}]]]
  BY <1>1, VolumeOKIs
<1>6. 0 \in 0 .. Ptrs - 1
  BY VolumeSizes
<1>7. /\ ino \in [Inode -> [size : Nat \cup {None},
                            blockptrs : [0 .. Ptrs - 1 -> Block \cup {None}]]]
      /\ \A j \in Inode : j # i => ino[j] = v.inode[j]
      /\ ino[i].size = 0 /\ ino[i].blockptrs[0] = b
  BY <1>5, <1>6
<1> HIDE DEF w, ino
<1>8. /\ u.block_bitmap = y.block_bitmap /\ u.inode_bitmap = x.inode_bitmap
      /\ u.inode = ino /\ u.data = v.data
  BY <1>3
<1> HIDE DEF u
<1>9. /\ \A c \in Block : BlockUsed(u, c) <=> BlockUsed(v, c) \/ c = b
      /\ \A j \in Inode : InodeUsed(u, j) <=> InodeUsed(v, j) \/ j = i
  BY <1>2, <1>3, <1>8 DEF BlockUsed, InodeUsed
<1>10. \A c \in Block : Dirents(u, c) = Dirents(v, c)
  BY <1>8 DEF Dirents
<1>11. VolumeOK(u)
  <2>1. u = [block_bitmap |-> u.block_bitmap, inode_bitmap |-> u.inode_bitmap,
             inode |-> u.inode, data |-> u.data]
    BY <1>8 DEF u
  <2>2. u.block_bitmap \in Bits(BlocksPerGroup) /\ u.inode_bitmap \in Bits(InodesPerGroup)
    BY <1>2, <1>3, <1>8, VolumeFields
  <2>3. u.data = [c \in Block |-> u.data[c]]
    BY <1>1, <1>8, VolumeOKIs
  <2>4. QED  BY <1>1, <1>7, <1>8, <1>10, <2>1, <2>2, <2>3, VolumeOKIs
<1>12. \A c \in Block : NewBlock(v, u, c) => DOMAIN Dirents(u, c) = {}
  BY <1>10 DEF NewBlock, Sound, EntriesInv
<1>13. \A j \in Inode : j # i =>
          Size(u, j) = Size(v, j) /\ \A n \in 0 .. Ptrs - 1 : Ptr(u, j, n) = Ptr(v, j, n)
  BY <1>7, <1>8 DEF Size, Ptr
<1>14. Grown(v, u, i)
  BY <1>8, <1>9, <1>11, <1>12, <1>13 DEF Grown
<1>15. /\ Size(u, i) = 0 /\ Ptr(u, i, 0) = b
       /\ \A c \in Block : NewBlock(v, u, c) <=> c = b
  BY <1>7, <1>8, <1>9 DEF Size, Ptr, NewBlock
<1>16. QED  BY <1>4, <1>14, <1>15 DEF EmptyDir, w, x, y

(* An entry for directory i in directory d can be made.                     *)
DirEntryOK(v, dirs, d, name, i) ==
    /\ d \in dirs /\ i \in dirs /\ name \in Name \cup {".", ".."}
    /\ name \notin {".", ".."} =>
          /\ i # Root
          /\ \A c \in Block : \A p \in DOMAIN Dirents(v, c) : Dirents(v, c)[p].inode # i

(* AddDir adds it.                                                          *)
LEMMA AddDirIs ==
    ASSUME NEW v, NEW dirs, NEW files, Sound(v, dirs, files),
           NEW d, NEW name, NEW i, DirEntryOK(v, dirs, d, name, i)
    PROVE  \E e : /\ e.name = name /\ e.type = "dir" /\ e.inode = i
                  /\ Addable(v, dirs, files, e) /\ Added(v, AddDir(v, d, name, i), d, e)
<1> DEFINE e == Dirent(name, "dir", i, EntryLen(NameLength(name)))
<1>1. /\ e.name = name /\ e.type = "dir" /\ e.inode = i
      /\ e.entry_len = EntryLen(NameLength(name))
  BY DEF Dirent
<1>2. EntryLen(NameLength(name)) \in Nat \ {0}
  BY NameLengthIsNat, EntryLenIsNat
<1>3. e \in Entries
  BY <1>2 DEF Dirent, Entries, Sound, InodesInv, DirEntryOK
<1> HIDE DEF e
<1>4. Addable(v, dirs, files, e)
  BY <1>1, <1>2, <1>3 DEF Addable, IsDot, DirEntryOK
<1>5. VolumeOK(v) /\ d \in Inode /\ Ptr(v, d, 0) \in Block /\ Size(v, d) \in Nat
  BY DirIs DEF Sound, DirInv, DirEntryOK
<1>6. Added(v, AddEntry(v, d, e), d, e)
  BY <1>3, <1>5, AddEntryIs
<1>7. AddDir(v, d, name, i) = AddEntry(v, d, e)
  BY DEF AddDir, e
<1>8. QED  BY <1>1, <1>4, <1>6, <1>7

(* It keeps the volume sound, and the files as they are.                    *)
LEMMA AddDirSound ==
    ASSUME NEW v, NEW dirs, NEW files, Sound(v, dirs, files),
           NEW d, NEW name, NEW i, DirEntryOK(v, dirs, d, name, i)
    PROVE  LET w == AddDir(v, d, name, i)
           IN  Sound(w, dirs, files) /\ SameFiles(v, w, files)
<1>1. d \in dirs
  BY DEF DirEntryOK
<1>2. PICK e : Addable(v, dirs, files, e) /\ Added(v, AddDir(v, d, name, i), d, e)
  BY AddDirIs
<1>3. QED  BY <1>1, <1>2, AddSound, AddSameFiles

(* mk_new_directory keeps the volume sound, with the new directory, and the *)
(* files as they are.                                                       *)
LEMMA NewDirSound ==
    ASSUME NEW v, NEW dirs, NEW files, Sound(v, dirs, files),
           NEW d \in dirs, NEW name \in Name,
           NEW i \in Inode, ~InodeUsed(v, i), NEW b \in Block, ~BlockUsed(v, b)
    PROVE  LET w == mk_new_directory(v, d, name, i, b)
           IN  Sound(w, dirs \cup {i}, files) /\ SameFiles(v, w, files)
<1> DEFINE x == EmptyDir(v, i, b)
           y == AddDir(x, d, name, i)
           z == AddDir(y, i, ".", i)
           w == AddDir(z, i, "..", d)
           dirs2 == dirs \cup {i}
<1>1. /\ Grown(v, x, i) /\ Size(x, i) = 0 /\ Ptr(x, i, 0) = b
      /\ \A c \in Block : NewBlock(v, x, c) <=> c = b
  BY NewDirGrows
<1>2. mk_new_directory(v, d, name, i, b) = w
  BY DEF mk_new_directory, EmptyDir
<1> HIDE DEF x
<1>3. i \notin dirs \cup files /\ Root \in dirs
  BY DEF Sound, InodesInv
<1>5. Sound(x, dirs2, files)
  BY <1>1, EmptyDirSound
<1>6. SameFiles(v, x, files)
  BY <1>1, GrownSameFiles
<1>7. \A c \in Block : \A p \in DOMAIN Dirents(x, c) : Dirents(x, c)[p].inode # i
  BY <1>1, GrownKeeps
<1>8. d \in dirs2 /\ i \in dirs2 /\ i # Root
  BY <1>3
<1> HIDE DEF dirs2
<1>9. Sound(y, dirs2, files) /\ SameFiles(x, y, files)
  BY <1>5, <1>7, <1>8, AddDirSound DEF DirEntryOK
<1> HIDE DEF y
<1>10. Sound(z, dirs2, files) /\ SameFiles(y, z, files)
  BY <1>8, <1>9, AddDirSound DEF DirEntryOK
<1> HIDE DEF z
<1>11. Sound(w, dirs2, files) /\ SameFiles(z, w, files)
  BY <1>8, <1>10, AddDirSound DEF DirEntryOK
<1> HIDE DEF w
<1>12. SameFiles(v, w, files)
  BY <1>6, <1>9, <1>10, <1>11 DEF SameFiles
<1>13. QED  BY <1>2, <1>11, <1>12 DEF dirs2

-----------------------------------------------------------------------------
(* jfs_copyin, and jfs_format when it makes .log.                           *)

(* FileInode lists the blocks, followed by zeros.                           *)
LEMMA FileInodeIs ==
    ASSUME NEW blocks \in Seq(Block), Len(blocks) \in 0 .. Ptrs
    PROVE  LET f == FileInode(blocks)
           IN  /\ f \in [size : Nat \cup {None},
                         blockptrs : [0 .. Ptrs - 1 -> Block \cup {None}]]
               /\ f.size = Len(blocks)
               /\ \A n \in 0 .. Ptrs - 1 :
                     f.blockptrs[n] = IF n < Len(blocks) THEN blocks[n + 1] ELSE 0
<1> DEFINE ptrs == [n \in 0 .. Ptrs - 1 |-> IF n < Len(blocks) THEN blocks[n + 1] ELSE 0]
<1>1. \A n \in 0 .. Ptrs - 1 : n < Len(blocks) => blocks[n + 1] \in Block
  <2> TAKE n \in 0 .. Ptrs - 1
  <2> HAVE n < Len(blocks)
  <2>1. n + 1 \in 1 .. Len(blocks)
    OBVIOUS
  <2>2. QED  BY <2>1
<1>2. ptrs \in [0 .. Ptrs - 1 -> Block \cup {None}]
  BY <1>1, InodeNumbers
<1>3. FileInode(blocks) = [size |-> Len(blocks), blockptrs |-> ptrs]
  BY DEF FileInode
<1>4. \A n \in 0 .. Ptrs - 1 : ptrs[n] = IF n < Len(blocks) THEN blocks[n + 1] ELSE 0
  OBVIOUS
<1> HIDE DEF ptrs
<1>5. QED  BY <1>2, <1>3, <1>4

(* What jfs_copyin does first gives a free inode blocks that were free, and *)
(* they hold the file.                                                      *)
LEMMA NewFileGrows ==
    ASSUME NEW v, NEW dirs, NEW files, Sound(v, dirs, files),
           NEW i \in Inode, ~InodeUsed(v, i),
           NEW file \in Seq(Text), Len(file) <= Ptrs, ~Store(set_inode_used(v, i), file).full
    PROVE  LET s == Store(set_inode_used(v, i), file)
               w == [s.vol EXCEPT !.inode[i] = FileInode(s.blocks)]
           IN  Grown(v, w, i) /\ NewFile(v, w, i) /\ copyout(w, i) = file
<1> DEFINE x == set_inode_used(v, i)
           s == Store(x, file)
           f == FileInode(s.blocks)
           w == [s.vol EXCEPT !.inode[i] = f]
           N == Len(file)
           ino == [v.inode EXCEPT ![i] = f]
           u == [block_bitmap |-> s.vol.block_bitmap, inode_bitmap |-> x.inode_bitmap,
                 inode |-> ino, data |-> s.vol.data]
<1>1. VolumeOK(v) /\ IsVolume(v)
  BY DEF Sound, VolumeOK
<1>2. /\ IsVolume(x) /\ x.inode = v.inode /\ x.data = v.data
      /\ x.block_bitmap = v.block_bitmap
      /\ \A j \in Inode : InodeUsed(x, j) <=> InodeUsed(v, j) \/ j = i
  BY <1>1, SetInodeUsed
<1>3. x.data = [c \in Block |-> x.data[c]]
  BY <1>1, <1>2, VolumeOKIs
<1>4. ~s.full
  OBVIOUS
<1> HIDE DEF x
<1>5. s \in StoreStates(x) /\ Stored(x, file, N, s)
  BY <1>2, <1>3, <1>4, StoreSound
<1> HIDE DEF s
<1>6. N \in 0 .. Ptrs
  BY VolumeSizes
<1>7. /\ s.blocks \in Seq(Block) /\ Len(s.blocks) = N
      /\ s.vol.block_bitmap \in Bits(BlocksPerGroup)
      /\ s.vol.data = [c \in Block |-> s.vol.data[c]]
      /\ s.vol = [block_bitmap |-> s.vol.block_bitmap, inode_bitmap |-> x.inode_bitmap,
                  inode |-> x.inode, data |-> s.vol.data]
  BY <1>5 DEF StoreStates, Stored
<1>8. \A m \in 1 .. N :
         /\ s.blocks[m] \in Block /\ ~BlockUsed(x, s.blocks[m])
         /\ BlockUsed(s.vol, s.blocks[m]) /\ s.vol.data[s.blocks[m]] \in Text
         /\ \A l \in 1 .. N : s.blocks[l] = s.blocks[m] => l = m
  BY <1>5 DEF Stored
<1>9. \A c \in Block : (\A m \in 1 .. N : s.blocks[m] # c) =>
         (BlockUsed(s.vol, c) <=> BlockUsed(x, c)) /\ s.vol.data[c] = x.data[c]
  BY <1>5 DEF Stored
<1> HIDE DEF N
<1>10. w = u
  <2>1. s.vol = [block_bitmap |-> s.vol.block_bitmap, inode_bitmap |-> x.inode_bitmap,
                 inode |-> x.inode, data |-> s.vol.data]
    BY <1>7
  <2>2. x.inode = v.inode
    BY <1>2
  <2> HIDE DEF f
  <2>3. QED  BY <2>1, <2>2
<1>11. /\ f \in [size : Nat \cup {None}, blockptrs : [0 .. Ptrs - 1 -> Block \cup {None}]]
       /\ f.size = N
       /\ \A n \in 0 .. Ptrs - 1 : f.blockptrs[n] = IF n < N THEN s.blocks[n + 1] ELSE 0
  BY <1>6, <1>7, FileInodeIs
<1>12. v.inode \in [Inode -> [size : Nat \cup {None},
                              blockptrs : [0 .. Ptrs - 1 -> Block \cup {None}]]]
  BY <1>1, VolumeOKIs
<1> HIDE DEF w, f
<1>13. /\ ino \in [Inode -> [size : Nat \cup {None},
                             blockptrs : [0 .. Ptrs - 1 -> Block \cup {None}]]]
       /\ \A j \in Inode : j # i => ino[j] = v.inode[j]
       /\ ino[i] = f
  BY <1>11, <1>12
<1> HIDE DEF ino
<1>14. /\ u.block_bitmap = s.vol.block_bitmap /\ u.inode_bitmap = x.inode_bitmap
       /\ u.inode = ino /\ u.data = s.vol.data
  OBVIOUS
<1> HIDE DEF u
<1>15. /\ \A c \in Block : BlockUsed(u, c) <=> BlockUsed(s.vol, c)
       /\ \A c \in Block : BlockUsed(x, c) <=> BlockUsed(v, c)
       /\ \A j \in Inode : InodeUsed(u, j) <=> InodeUsed(v, j) \/ j = i
  BY <1>2, <1>14 DEF BlockUsed, InodeUsed
<1>16. \A c \in Block :
          /\ BlockUsed(v, c) => BlockUsed(u, c)
          /\ NewBlock(v, u, c) <=> \E m \in 1 .. N : s.blocks[m] = c
  BY <1>8, <1>9, <1>15 DEF NewBlock
<1>17. \A c \in Block : IF NewBlock(v, u, c) THEN u.data[c] \in Text ELSE u.data[c] = v.data[c]
  BY <1>2, <1>8, <1>9, <1>14, <1>16
<1>18. \A c \in Block : IF NewBlock(v, u, c) THEN DOMAIN Dirents(u, c) = {}
                                             ELSE Dirents(u, c) = Dirents(v, c)
  BY <1>17 DEF Dirents, AsDir, NoEntries
<1>19. VolumeOK(u)
  <2>1. u = [block_bitmap |-> u.block_bitmap, inode_bitmap |-> u.inode_bitmap,
             inode |-> u.inode, data |-> u.data]
    BY <1>14 DEF u
  <2>2. u.block_bitmap \in Bits(BlocksPerGroup) /\ u.inode_bitmap \in Bits(InodesPerGroup)
    BY <1>2, <1>7, <1>14, VolumeFields
  <2>3. u.data = [c \in Block |-> u.data[c]]
    BY <1>7, <1>14
  <2>4. \A b \in Block : \A k \in DOMAIN Dirents(u, b) :
           k \in 0 .. BlockSize - DirentSize /\ Dirents(u, b)[k] \in Entries
    BY <1>1, <1>18, VolumeOKIs
  <2>5. QED  BY <1>13, <1>14, <2>1, <2>2, <2>3, <2>4, VolumeOKIs
<1>20. \A j \in Inode : j # i =>
          Size(u, j) = Size(v, j) /\ \A n \in 0 .. Ptrs - 1 : Ptr(u, j, n) = Ptr(v, j, n)
  BY <1>13, <1>14 DEF Size, Ptr
<1>21. Grown(v, u, i)
  BY <1>15, <1>16, <1>17, <1>18, <1>19, <1>20 DEF Grown
<1>22. Size(u, i) = N /\ \A n \in 0 .. Ptrs - 1 : Ptr(u, i, n) = IF n < N THEN s.blocks[n + 1] ELSE 0
  BY <1>11, <1>13, <1>14 DEF Size, Ptr
<1>23. ASSUME NEW n \in 0 .. Ptrs - 1
       PROVE  IF n < Size(u, i)
              THEN /\ u.data[Ptr(u, i, n)] \in Text
                   /\ Ptr(u, i, n) \in Block /\ NewBlock(v, u, Ptr(u, i, n))
                   /\ \A m \in 0 .. Ptrs - 1 :
                         m < Size(u, i) /\ Ptr(u, i, m) = Ptr(u, i, n) => m = n
              ELSE Ptr(u, i, n) = 0
  <2>1. CASE n < N
    <3>1. n + 1 \in 1 .. N /\ Ptr(u, i, n) = s.blocks[n + 1]
      BY <1>6, <1>22, <2>1
    <3>2. ASSUME NEW m \in 0 .. Ptrs - 1, m < N, Ptr(u, i, m) = Ptr(u, i, n)
          PROVE  m = n
      <4>1. m + 1 \in 1 .. N /\ s.blocks[m + 1] = s.blocks[n + 1]
        BY <1>6, <1>22, <3>1, <3>2
      <4>2. m + 1 = n + 1
        BY <1>8, <3>1, <4>1
      <4>3. QED  BY <4>2
    <3>3. Ptr(u, i, n) \in Block /\ NewBlock(v, u, Ptr(u, i, n))
      BY <1>8, <1>16, <3>1
    <3>4. u.data[Ptr(u, i, n)] \in Text
      BY <1>17, <3>3
    <3>5. QED  BY <1>22, <2>1, <3>2, <3>3, <3>4
  <2>2. CASE ~(n < N)
    BY <1>22, <2>2
  <2>3. QED  BY <2>1, <2>2
<1>24. Size(u, i) \in 0 .. Ptrs
  BY <1>6, <1>22
<1>25. ASSUME NEW c \in Block, NewBlock(v, u, c)
       PROVE  \E n \in 0 .. Ptrs - 1 : n < Size(u, i) /\ Ptr(u, i, n) = c
  <2>1. PICK m \in 1 .. N : s.blocks[m] = c
    BY <1>16, <1>25
  <2>2. m - 1 \in 0 .. Ptrs - 1 /\ m - 1 < N /\ (m - 1) + 1 = m
    BY <1>6, VolumeSizes
  <2>3. QED  BY <1>22, <2>1, <2>2
<1>26. NewFile(v, u, i)
  BY <1>23, <1>24, <1>25 DEF NewFile
<1>27. copyout(u, i) = file
  <2>1. N \in Nat /\ file = [n \in 1 .. N |-> file[n]]
    BY <1>6 DEF N
  <2>2. \A n \in 1 .. N : u.data[Ptr(u, i, n - 1)] = file[n]
    <3> TAKE n \in 1 .. N
    <3>1. n - 1 \in 0 .. Ptrs - 1 /\ n - 1 < N /\ (n - 1) + 1 = n
      BY <1>6, VolumeSizes
    <3>2. Ptr(u, i, n - 1) = s.blocks[n]
      BY <1>22, <3>1
    <3>3. u.data[s.blocks[n]] = file[n]
      BY <1>5, <1>14 DEF Stored
    <3>4. QED  BY <3>2, <3>3
  <2>3. copyout(u, i) = [n \in 1 .. N |-> u.data[Ptr(u, i, n - 1)]]
    BY <1>22 DEF copyout, Size, Ptr
  <2>4. QED  BY <2>1, <2>2, <2>3
<1>28. QED  BY <1>10, <1>21, <1>26, <1>27 DEF w, s, f, x

(* w is v with the new file i at a path, in directory d: it is stored in x, *)
(* and e is its entry.                                                      *)
FilePut(v, w, dirs, files, d, path, i, x, e) ==
    /\ Grown(v, x, i) /\ NewFile(v, x, i)
    /\ Sound(x, dirs, files)
    /\ e.name = Last(path) /\ e.type = "file" /\ e.inode = i /\ ~IsDot(e)
    /\ e.entry_len = EntryLen(PathLength(path))
    /\ Addable(x, dirs, files, e) /\ Added(x, w, d, e)
    /\ w = AddEntry(x, d, e)

(* PutFile gives its file an inode, blocks that are its own, and an entry.  *)
LEMMA PutFileIs ==
    ASSUME NEW v, NEW dirs, NEW files, Sound(v, dirs, files),
           NEW d \in dirs, NEW path, Len(path) \in Nat \ {0}, Last(path) \in Name \cup {".log"},
           NEW i \in Inode, ~InodeUsed(v, i),
           NEW file \in Seq(Text), Len(file) <= Ptrs, ~Store(set_inode_used(v, i), file).full
    PROVE  \E x, e : FilePut(v, PutFile(v, d, path, i, file), dirs, files \cup {i}, d, path, i, x, e)
<1> DEFINE s == Store(set_inode_used(v, i), file)
           x == [s.vol EXCEPT !.inode[i] = FileInode(s.blocks)]
           e == Dirent(Last(path), "file", i, EntryLen(PathLength(path)))
           w == AddEntry(x, d, e)
           files2 == files \cup {i}
<1>1. PutFile(v, d, path, i, file) = w
  BY DEF PutFile
<1>2. Grown(v, x, i) /\ NewFile(v, x, i)
  BY NewFileGrows
<1> HIDE DEF x, s
<1>3. i \notin dirs \cup files /\ Root \in dirs /\ d \in Inode
  BY DEF Sound, InodesInv
<1>6. Sound(x, dirs, files2)
  BY <1>2, NewFileSound
<1>8. /\ e.name = Last(path) /\ e.type = "file" /\ e.inode = i
      /\ e.entry_len = EntryLen(PathLength(path)) /\ e.entry_len \in Nat \ {0}
  BY PathLengthIsNat, EntryLenIsNat DEF Dirent
<1>9. e \in Entries
  BY <1>8 DEF Dirent, Entries
<1>10. ~IsDot(e)
  BY <1>8, VolumeAssumption DEF IsDot
<1>11. \A c \in Block : \A p \in DOMAIN Dirents(x, c) : Dirents(x, c)[p].inode # i
  BY <1>2, GrownKeeps
<1> HIDE DEF e
<1>12. Addable(x, dirs, files2, e)
  BY <1>3, <1>8, <1>9, <1>10, <1>11 DEF Addable
<1> HIDE DEF files2
<1>13. VolumeOK(x) /\ d \in Inode /\ Ptr(x, d, 0) \in Block /\ Size(x, d) \in Nat
  BY <1>6, DirIs DEF Sound, DirInv
<1>14. Added(x, w, d, e)
  BY <1>9, <1>13, AddEntryIs
<1>15. w = AddEntry(x, d, e)
  OBVIOUS
<1> HIDE DEF w
<1>16. FilePut(v, w, dirs, files2, d, path, i, x, e)
  BY <1>2, <1>6, <1>8, <1>10, <1>12, <1>14, <1>15 DEF FilePut
<1>17. QED  BY <1>1, <1>16 DEF files2

(* It keeps the volume sound, with the new file, and the files as they are. *)
LEMMA PutFileSound ==
    ASSUME NEW v, NEW dirs, NEW files, Sound(v, dirs, files),
           NEW d \in dirs, NEW path, Len(path) \in Nat \ {0}, Last(path) \in Name \cup {".log"},
           NEW i \in Inode, ~InodeUsed(v, i),
           NEW file \in Seq(Text), Len(file) <= Ptrs, ~Store(set_inode_used(v, i), file).full
    PROVE  LET w == PutFile(v, d, path, i, file)
           IN  Sound(w, dirs, files \cup {i}) /\ SameFiles(v, w, files)
<1> DEFINE w == PutFile(v, d, path, i, file)
           files2 == files \cup {i}
<1>1. PICK x, e : FilePut(v, w, dirs, files2, d, path, i, x, e)
  BY PutFileIs
<1> HIDE DEF w, files2
<1>2. Sound(w, dirs, files2) /\ SameFiles(x, w, files2)
  BY <1>1, AddSound, AddSameFiles DEF FilePut
<1>3. SameFiles(v, x, files)
  BY <1>1, GrownSameFiles DEF FilePut
<1>4. SameFiles(v, w, files)
  BY <1>2, <1>3 DEF SameFiles, files2
<1>5. QED  BY <1>2, <1>4 DEF w, files2

-----------------------------------------------------------------------------
(* jfs_rm.                                                                  *)

(* Where the entry at offset o was before the one at k, of length len, was  *)
(* cut.                                                                     *)
Source(k, len, o) == IF o < k THEN o ELSE o + len

(* w is v without file i, whose entry was at offset k of block b; maybe all *)
(* entries of b are gone, if what is left happens to be a text.             *)
RemovedFrom(v, w, b, k, i) ==
    /\ VolumeOK(w)
    /\ w.inode = v.inode
    /\ \A j \in Inode : InodeUsed(w, j) <=> InodeUsed(v, j) /\ j # i
    /\ \A c \in Block : BlockUsed(w, c) <=>
          BlockUsed(v, c) /\ \A n \in 0 .. Ptrs - 1 : n < Size(v, i) => Ptr(v, i, n) # c
    /\ \A c \in Block : c # b => w.data[c] = v.data[c]
    /\ \A o \in DOMAIN Dirents(w, b) :
          LET q == Source(k, Dirents(v, b)[k].entry_len, o)
          IN  /\ o \in Nat /\ q \in DOMAIN Dirents(v, b) /\ q # k
              /\ Dirents(w, b)[o] = Dirents(v, b)[q]

(* The entries CutEntry leaves are the others, each moved as Source says.   *)
LEMMA CutEntryIs ==
    ASSUME NEW dir, NEW k \in Nat, \A o \in DOMAIN dir : o \in Nat,
           dir[k].entry_len \in Nat \ {0}
    PROVE  \A o \in DOMAIN CutEntry(dir, k) :
              LET q == Source(k, dir[k].entry_len, o)
              IN  /\ o \in Nat /\ q \in DOMAIN dir /\ q # k
                  /\ CutEntry(dir, k)[o] = dir[q]
<1> DEFINE len == dir[k].entry_len
           before == {o \in DOMAIN dir : o < k}
           behind == {o \in DOMAIN dir : o >= k + len}
           D == before \cup {n - len : n \in behind}
<1>1. CutEntry(dir, k) = [o \in D |-> IF o < k THEN dir[o] ELSE dir[o + len]]
  BY DEF CutEntry
<1>2. len \in Nat \ {0}
  OBVIOUS
<1> HIDE DEF len
<1>3. ASSUME NEW o \in D
      PROVE  /\ o \in Nat /\ Source(k, len, o) \in DOMAIN dir /\ Source(k, len, o) # k
             /\ (IF o < k THEN dir[o] ELSE dir[o + len]) = dir[Source(k, len, o)]
  <2>1. CASE o \in before
    BY <2>1 DEF Source
  <2>2. CASE o \in {n - len : n \in behind}
    <3>1. PICK n \in behind : o = n - len
      BY <2>2
    <3>2. n \in Nat /\ n >= k + len /\ o + len = n /\ ~(o < k) /\ o \in Nat
      BY <1>2, <3>1
    <3>3. QED  BY <1>2, <3>1, <3>2 DEF Source
  <2>3. QED  BY <2>1, <2>2
<1> HIDE DEF D
<1>4. QED  BY <1>1, <1>3 DEF len

(* RemoveFile takes away its file and its entry.                            *)
LEMMA RemoveFileIs ==
    ASSUME NEW v, NEW dirs, NEW files, Sound(v, dirs, files),
           NEW d \in dirs, NEW k \in DOMAIN Dirents(v, Ptr(v, d, 0)), NEW i \in files
    PROVE  RemovedFrom(v, RemoveFile(v, d, k, i), Ptr(v, d, 0), k, i)
<1> DEFINE b == Ptr(v, d, 0)
           x == Freed(v, i)
           w == RemoveFile(v, d, k, i)
           dir == Dirents(v, b)
           len == dir[k].entry_len
           cut == CutEntry(dir, k)
           dat == [v.data EXCEPT ![b] = cut]
           u == [block_bitmap |-> x.block_bitmap, inode_bitmap |-> x.inode_bitmap,
                 inode |-> v.inode, data |-> dat]
<1>1. VolumeOK(v) /\ IsVolume(v) /\ i \in Inode /\ Size(v, i) \in 0 .. Ptrs
  BY DEF Sound, VolumeOK, InodesInv, FileInv
<1>2. b \in Block
  BY DirIs
<1>3. /\ Len(BlocksOf(v, i)) = Size(v, i)
      /\ \A n \in 1 .. Size(v, i) : BlocksOf(v, i)[n] = Ptr(v, i, n - 1) /\ BlocksOf(v, i)[n] \in Block
  BY BlocksOfFile
<1>4. /\ IsVolume(x) /\ x.inode = v.inode /\ x.data = v.data
      /\ \A j \in Inode : InodeUsed(x, j) <=> InodeUsed(v, j) /\ j # i
      /\ \A c \in Block : BlockUsed(x, c) <=>
            BlockUsed(v, c) /\ \A n \in 1 .. Size(v, i) : BlocksOf(v, i)[n] # c
  BY <1>1, <1>3, FreedSound DEF Returned
<1>5. \A c \in Block : BlockUsed(x, c) <=>
         BlockUsed(v, c) /\ \A n \in 0 .. Ptrs - 1 : n < Size(v, i) => Ptr(v, i, n) # c
  <2>1. \A n \in 0 .. Ptrs - 1 : n < Size(v, i) =>
           n + 1 \in 1 .. Size(v, i) /\ Ptr(v, i, n) = BlocksOf(v, i)[n + 1]
    <3> TAKE n \in 0 .. Ptrs - 1
    <3> HAVE n < Size(v, i)
    <3>1. n + 1 \in 1 .. Size(v, i) /\ (n + 1) - 1 = n
      BY <1>1
    <3>2. QED  BY <1>3, <3>1
  <2>2. \A n \in 1 .. Size(v, i) : n - 1 \in 0 .. Ptrs - 1 /\ n - 1 < Size(v, i)
                                   /\ BlocksOf(v, i)[n] = Ptr(v, i, n - 1)
    BY <1>1, <1>3, VolumeSizes
  <2>3. QED  BY <1>4, <2>1, <2>2
<1>6. \A o \in DOMAIN dir : o \in 0 .. BlockSize - DirentSize /\ dir[o] \in Entries
                            /\ dir[o].entry_len \in Nat \ {0}
  BY <1>2, EntryFacts
<1> HIDE DEF x
<1>7. w = u
  <2>1. x = [block_bitmap |-> x.block_bitmap, inode_bitmap |-> x.inode_bitmap,
             inode |-> x.inode, data |-> x.data]
    BY <1>4, VolumeFields
  <2>2. w = [x EXCEPT !.data[b] = CutEntry(AsDir(@), k)]
    BY DEF RemoveFile, x, Ptr
  <2>3. x.data = v.data /\ x.inode = v.inode
    BY <1>4
  <2>4. w = [block_bitmap |-> x.block_bitmap, inode_bitmap |-> x.inode_bitmap,
             inode |-> v.inode, data |-> [v.data EXCEPT ![b] = CutEntry(AsDir(@), k)]]
    <3> HIDE DEF w, b
    <3> QED  BY <2>1, <2>2, <2>3
  <2>5. [v.data EXCEPT ![b] = CutEntry(AsDir(@), k)] = dat
    BY DEF Dirents
  <2>6. QED  BY <2>4, <2>5
<1>8. v.data = [c \in Block |-> v.data[c]]
  BY <1>1, VolumeOKIs
<1> HIDE DEF w, b, cut
<1>9. /\ dat = [c \in Block |-> dat[c]] /\ dat[b] = cut
      /\ \A c \in Block : c # b => dat[c] = v.data[c]
  BY <1>2, <1>8
<1> HIDE DEF dat
<1>10. \A o \in DOMAIN cut :
          LET q == Source(k, len, o)
          IN  o \in Nat /\ q \in DOMAIN dir /\ q # k /\ cut[o] = dir[q]
  <2>1. k \in Nat /\ dir[k].entry_len \in Nat \ {0} /\ \A o \in DOMAIN dir : o \in Nat
    BY <1>6 DEF b
  <2> HIDE DEF dir
  <2>2. QED  BY <2>1, CutEntryIs DEF cut
<1>11. /\ u.block_bitmap = x.block_bitmap /\ u.inode_bitmap = x.inode_bitmap
       /\ u.inode = v.inode /\ u.data = dat
  OBVIOUS
<1> HIDE DEF u
<1>12. \A c \in Block : c # b => Dirents(u, c) = Dirents(v, c)
  BY <1>9, <1>11 DEF Dirents
<1>13. \A o \in DOMAIN Dirents(u, b) :
          LET q == Source(k, len, o)
          IN  o \in Nat /\ q \in DOMAIN dir /\ q # k /\ Dirents(u, b)[o] = dir[q]
  <2>1. Dirents(u, b) = IF cut \in Text THEN NoEntries ELSE cut
    BY <1>9, <1>11 DEF Dirents, AsDir
  <2>2. CASE cut \in Text
    BY <2>1, <2>2 DEF NoEntries
  <2>3. CASE cut \notin Text
    BY <1>10, <2>1, <2>3
  <2>4. QED  BY <2>2, <2>3
<1> HIDE DEF dir
<1>14. VolumeOK(u)
  <2>1. u = [block_bitmap |-> u.block_bitmap, inode_bitmap |-> u.inode_bitmap,
             inode |-> u.inode, data |-> u.data]
    BY <1>11 DEF u
  <2>2. u.block_bitmap \in Bits(BlocksPerGroup) /\ u.inode_bitmap \in Bits(InodesPerGroup)
    BY <1>4, <1>11, VolumeFields
  <2>3. u.data = [c \in Block |-> u.data[c]]
    BY <1>9, <1>11
  <2>4. ASSUME NEW o \in DOMAIN Dirents(u, b)
        PROVE  o \in 0 .. BlockSize - DirentSize /\ Dirents(u, b)[o] \in Entries
    <3> DEFINE q == Source(k, len, o)
    <3>1. o \in Nat /\ q \in DOMAIN dir /\ Dirents(u, b)[o] = dir[q]
      BY <1>13
    <3>2. q \in 0 .. BlockSize - DirentSize /\ dir[q] \in Entries
      BY <1>6, <3>1
    <3>3. k \in Nat /\ len \in Nat
      BY <1>6 DEF b, dir
    <3>4. o <= q
      BY <3>1, <3>3 DEF Source
    <3> HIDE DEF q
    <3>5. QED  BY <3>1, <3>2, <3>4, VolumeSizes DEF DirentSize
  <2>5. \A c \in Block : \A o \in DOMAIN Dirents(u, c) :
           o \in 0 .. BlockSize - DirentSize /\ Dirents(u, c)[o] \in Entries
    BY <1>1, <1>12, <2>4, VolumeOKIs
  <2>6. v.inode \in [Inode -> [size : Nat \cup {None},
                               blockptrs : [0 .. Ptrs - 1 -> Block \cup {None}]]]
    BY <1>1, VolumeOKIs
  <2>7. QED  BY <1>11, <2>1, <2>2, <2>3, <2>5, <2>6, VolumeOKIs
<1>15. /\ \A j \in Inode : InodeUsed(u, j) <=> InodeUsed(x, j)
       /\ \A c \in Block : BlockUsed(u, c) <=> BlockUsed(x, c)
  BY <1>11 DEF InodeUsed, BlockUsed
<1>16. RemovedFrom(v, u, b, k, i)
  BY <1>4, <1>5, <1>9, <1>11, <1>13, <1>14, <1>15 DEF RemovedFrom, dir
<1>17. QED  BY <1>7, <1>16 DEF w, b

(* A sound volume stays sound without a file, and so it does when the size  *)
(* of the directory is then reduced by the length of the entry.             *)
LEMMA RemovedSound ==
    ASSUME NEW v, NEW w, NEW dirs, NEW files, Sound(v, dirs, files),
           NEW d \in dirs, NEW k \in DOMAIN Dirents(v, Ptr(v, d, 0)), NEW i \in files,
           Dirents(v, Ptr(v, d, 0))[k].inode = i,
           Dirents(v, Ptr(v, d, 0))[k].type = "file",
           RemovedFrom(v, w, Ptr(v, d, 0), k, i)
    PROVE  /\ Sound(w, dirs, files \ {i})
           /\ Size(v, d) - Dirents(v, Ptr(v, d, 0))[k].entry_len \in Nat
           /\ EndBefore(w, Ptr(w, d, 0), Size(v, d) - Dirents(v, Ptr(v, d, 0))[k].entry_len)
           /\ SameFiles(v, w, files \ {i})
<1> DEFINE b == Ptr(v, d, 0)
           len == Dirents(v, b)[k].entry_len
           files2 == files \ {i}
<1>1. /\ dirs \cup files \subseteq Inode /\ dirs \cap files = {} /\ 0 \in 0 .. Ptrs - 1
      /\ i \notin dirs
  BY VolumeSizes DEF Sound, InodesInv
<1>2. /\ b \in Block /\ Size(v, d) \in Nat
      /\ \A o \in DOMAIN Dirents(v, b) : o + Dirents(v, b)[o].entry_len <= Size(v, d)
  BY <1>1 DEF Sound, BlocksInv, Owns, DirInv, EndBefore
<1>3. /\ \A j \in Inode : Size(w, j) = Size(v, j) /\ \A n \in 0 .. Ptrs - 1 : Ptr(w, j, n) = Ptr(v, j, n)
      /\ Ptr(w, d, 0) = b
  BY DEF RemovedFrom, Size, Ptr
<1>4. /\ \A j \in Inode : InodeUsed(w, j) <=> InodeUsed(v, j) /\ j # i
      /\ \A c \in Block : BlockUsed(w, c) <=>
            BlockUsed(v, c) /\ \A n \in 0 .. Ptrs - 1 : n < Size(v, i) => Ptr(v, i, n) # c
      /\ \A c \in Block : c # b => w.data[c] = v.data[c]
  BY DEF RemovedFrom
<1>5. \A o \in DOMAIN Dirents(w, b) :
         LET q == Source(k, len, o)
         IN  /\ o \in Nat /\ q \in DOMAIN Dirents(v, b) /\ q # k
             /\ Dirents(w, b)[o] = Dirents(v, b)[q]
  BY DEF RemovedFrom
<1>6. \A c \in Block : c # b => Dirents(w, c) = Dirents(v, c)
  BY <1>4 DEF Dirents
<1>7. \A c \in Block : \A o \in DOMAIN Dirents(v, c) :
         LET f == Dirents(v, c)[o]
         IN  /\ o \in Nat /\ f.entry_len \in Nat \ {0}
             /\ BlockUsed(v, c) /\ ~IsHeader(c)
             /\ \A p \in DOMAIN Dirents(v, c) : o < p => o + f.entry_len <= p
             /\ IF f.type = "dir" THEN f.inode \in dirs ELSE f.inode \in files /\ ~IsDot(f)
  BY EntryFacts DEF Sound, EntriesInv
<1>8. k \in Nat /\ len \in Nat \ {0} /\ k + len <= Size(v, d)
  BY <1>2, <1>7
<1>9. ~IsDot(Dirents(v, b)[k])
  BY <1>2, <1>7
(* The blocks of a file hold no entries. *)
<1>10. ASSUME NEW n \in 0 .. Ptrs - 1, n < Size(v, i)
       PROVE  /\ Ptr(v, i, n) \in Block /\ Ptr(v, i, n) # b
              /\ DOMAIN Dirents(v, Ptr(v, i, n)) = {}
  <2>1. Ptr(v, i, n) \in Block /\ Ptr(v, i, n) # b
    BY <1>1, <1>10 DEF Sound, BlocksInv, Owns
  <2>2. v.data[Ptr(v, i, n)] \in Text
    BY <1>10 DEF Sound, FileInv
  <2>3. QED  BY <2>1, <2>2 DEF Dirents, AsDir, NoEntries
<1>11. \A c \in Block : \A o \in DOMAIN Dirents(w, c) : BlockUsed(w, c) /\ ~IsHeader(c)
  <2> SUFFICES ASSUME NEW c \in Block, NEW o \in DOMAIN Dirents(w, c)
               PROVE  BlockUsed(w, c) /\ ~IsHeader(c)
    OBVIOUS
  <2>1. DOMAIN Dirents(v, c) # {}
    BY <1>5, <1>6
  <2>2. BlockUsed(v, c) /\ ~IsHeader(c)
    BY <1>7, <2>1
  <2>3. QED  BY <1>4, <1>10, <2>1, <2>2
<1> HIDE DEF b, len
(* Entries come from entries, in the same order. *)
<1>12. ASSUME NEW c \in Block, NEW o \in DOMAIN Dirents(w, c)
       PROVE  LET q == IF c = b THEN Source(k, len, o) ELSE o
              IN  /\ o \in Nat /\ o <= q /\ q \in DOMAIN Dirents(v, c)
                  /\ Dirents(w, c)[o] = Dirents(v, c)[q]
                  /\ ~(c = b /\ q = k)
                  /\ \A p \in DOMAIN Dirents(w, c) : o < p =>
                        /\ o + Dirents(w, c)[o].entry_len <= p
  <2>1. CASE c = b
    <3> DEFINE S(a) == Source(k, len, a)
    <3>1. \A a \in DOMAIN Dirents(w, b) :
             /\ a \in Nat /\ S(a) \in DOMAIN Dirents(v, b) /\ S(a) # k
             /\ Dirents(w, b)[a] = Dirents(v, b)[S(a)]
      BY <1>5
    <3>2. ASSUME NEW p \in DOMAIN Dirents(w, b), o < p
          PROVE  o + Dirents(w, b)[o].entry_len <= p
      <4> DEFINE l == Dirents(v, b)[S(o)].entry_len
      <4>1. S(o) \in DOMAIN Dirents(v, b) /\ S(p) \in DOMAIN Dirents(v, b)
            /\ k \in DOMAIN Dirents(v, b) /\ o \in Nat /\ p \in Nat
        BY <2>1, <3>1, <3>2 DEF b
      <4>2. l \in Nat /\ \A a \in DOMAIN Dirents(v, b) : S(o) < a => S(o) + l <= a
        BY <1>2, <1>7, <4>1
      <4>3. Dirents(w, b)[o].entry_len = l
        BY <2>1, <3>1
      <4> HIDE DEF l, S
      <4>4. CASE p < k
        <5>1. S(o) = o /\ S(p) = p
          BY <3>2, <4>1, <4>4, <1>8 DEF S, Source
        <5>2. QED  BY <3>2, <4>1, <4>2, <4>3, <5>1
      <4>5. CASE o < k /\ ~(p < k)
        <5>1. S(o) = o
          BY <4>5 DEF S, Source
        <5>2. o + l <= k
          BY <4>1, <4>2, <4>5, <5>1
        <5>3. QED  BY <1>8, <4>1, <4>2, <4>3, <4>5, <5>2
      <4>6. CASE ~(o < k) /\ ~(p < k)
        <5>1. S(o) = o + len /\ S(p) = p + len
          BY <4>6 DEF S, Source
        <5>2. (o + len) + l <= p + len
          BY <1>8, <3>2, <4>1, <4>2, <5>1
        <5>3. QED  BY <1>8, <4>1, <4>2, <4>3, <5>2
      <4>7. QED  BY <1>8, <3>2, <4>1, <4>4, <4>5, <4>6
    <3>3. o <= S(o)
      BY <1>8, <2>1, <3>1 DEF Source
    <3> HIDE DEF S
    <3>4. QED  BY <2>1, <3>1, <3>2, <3>3 DEF S
  <2>2. CASE c # b
    BY <1>6, <1>7, <2>2
  <2>3. QED  BY <2>1, <2>2
<1>13. \A c \in Block : \A o \in DOMAIN Dirents(w, c), p \in DOMAIN Dirents(w, c) :
          Source(k, len, o) = Source(k, len, p) => o = p
  <2> SUFFICES ASSUME NEW o \in Nat, NEW p \in Nat, Source(k, len, o) = Source(k, len, p)
               PROVE  o = p
    BY <1>12
  <2>1. QED  BY <1>8 DEF Source
<1>14. \A a \in Block : \A p \in DOMAIN Dirents(v, a) :
          LET f == Dirents(v, a)[p]
          IN  ~IsDot(f) =>
                 /\ f.inode # Root
                 /\ f.inode = i => a = b /\ p = k
                 /\ \A r \in Block : \A q \in DOMAIN Dirents(v, r) :
                       ~IsDot(Dirents(v, r)[q]) /\ f.inode = Dirents(v, r)[q].inode
                       => a = r /\ p = q
  BY <1>2, <1>9 DEF Sound, SoleEntryInv, b
<1>15. InodesInv(w, dirs, files2)
  BY <1>1, <1>4 DEF Sound, InodesInv
<1>16. EntriesInv(w, dirs, files2)
  <2> SUFFICES ASSUME NEW c \in Block, NEW o \in DOMAIN Dirents(w, c)
               PROVE  LET e == Dirents(w, c)[o]
                      IN  /\ e.entry_len > 0
                          /\ IF e.type = "dir" THEN e.inode \in dirs
                                               ELSE e.inode \in files2 /\ ~IsDot(e)
    BY <1>11, <1>12 DEF EntriesInv
  <2>1. PICK q \in DOMAIN Dirents(v, c) :
           Dirents(w, c)[o] = Dirents(v, c)[q] /\ ~(c = b /\ q = k)
    BY <1>12
  <2>2. QED  BY <1>7, <1>14, <2>1
<1>17. SoleEntryInv(w)
  <2> SUFFICES ASSUME NEW c \in Block, NEW o \in DOMAIN Dirents(w, c), ~IsDot(Dirents(w, c)[o])
               PROVE  /\ Dirents(w, c)[o].inode # Root
                      /\ \A a \in Block : \A p \in DOMAIN Dirents(w, a) :
                            ~IsDot(Dirents(w, a)[p])
                            /\ Dirents(w, c)[o].inode = Dirents(w, a)[p].inode => c = a /\ o = p
    BY DEF SoleEntryInv
  <2> DEFINE S(a, p) == IF a = b THEN Source(k, len, p) ELSE p
  <2>1. \A a \in Block : \A p \in DOMAIN Dirents(w, a) :
           S(a, p) \in DOMAIN Dirents(v, a) /\ Dirents(w, a)[p] = Dirents(v, a)[S(a, p)]
    BY <1>12
  <2>2. \A a \in Block : \A p \in DOMAIN Dirents(w, a) : c = a /\ S(c, o) = S(a, p) => o = p
    BY <1>13
  <2> HIDE DEF S
  <2>3. Dirents(w, c)[o].inode # Root
    BY <1>14, <2>1
  <2>4. ASSUME NEW a \in Block, NEW p \in DOMAIN Dirents(w, a), ~IsDot(Dirents(w, a)[p]),
               Dirents(w, c)[o].inode = Dirents(w, a)[p].inode
        PROVE  c = a /\ o = p
    <3>1. c = a /\ S(c, o) = S(a, p)
      BY <1>14, <2>1, <2>4
    <3>2. QED  BY <2>2, <3>1
  <2>5. QED  BY <2>3, <2>4
<1>18. \A j \in dirs \cup files2, n \in 0 .. Ptrs - 1 :
          Owns(w, dirs, files2, j, n) => Owns(v, dirs, files, j, n) /\ j # i
  BY <1>1, <1>3 DEF Owns
<1>19. \A j \in dirs \cup files2, n \in 0 .. Ptrs - 1 : Ptr(w, j, n) = Ptr(v, j, n)
  BY <1>1, <1>3
<1>20. BlocksInv(w, dirs, files2)
  <2>1. \A j \in dirs \cup files, n \in 0 .. Ptrs - 1 : Owns(v, dirs, files, j, n) =>
           LET c == Ptr(v, j, n)
           IN  /\ c \in Block /\ ~IsHeader(c) /\ BlockUsed(v, c)
               /\ \A l \in dirs \cup files, m \in 0 .. Ptrs - 1 :
                    Owns(v, dirs, files, l, m) /\ Ptr(v, l, m) = c => j = l /\ n = m
    BY DEF Sound, BlocksInv
  <2>2. \A n \in 0 .. Ptrs - 1 : n < Size(v, i) => Owns(v, dirs, files, i, n)
    BY DEF Owns
  <2>3. \A c \in Block : IsHeader(c) => BlockUsed(w, c)
    BY <1>4, <2>1, <2>2 DEF Sound, BlocksInv
  <2>4. ASSUME NEW j \in dirs \cup files2, NEW n \in 0 .. Ptrs - 1,
               Owns(w, dirs, files2, j, n)
        PROVE  BlockUsed(w, Ptr(w, j, n))
    BY <1>4, <1>18, <1>19, <2>1, <2>2, <2>4
  <2>5. QED  BY <1>18, <1>19, <2>1, <2>3, <2>4 DEF BlocksInv
<1>21. EndBefore(w, b, Size(v, d) - len)
  <2> SUFFICES ASSUME NEW o \in DOMAIN Dirents(w, b)
               PROVE  o + Dirents(w, b)[o].entry_len <= Size(v, d) - len
    BY DEF EndBefore
  <2> DEFINE q == Source(k, len, o)
             l == Dirents(v, b)[q].entry_len
  <2>1. o \in Nat /\ q \in DOMAIN Dirents(v, b) /\ Dirents(w, b)[o].entry_len = l
    BY <1>5
  <2>2. l \in Nat /\ q + l <= Size(v, d) /\ (q < k => q + l <= k)
    BY <1>2, <1>7, <2>1 DEF b
  <2>3. CASE o < k
    <3>1. q = o
      BY <2>3 DEF Source
    <3> HIDE DEF l, q
    <3>2. QED  BY <1>2, <1>8, <2>1, <2>2, <2>3, <3>1
  <2>4. CASE ~(o < k)
    <3>1. q = o + len
      BY <2>4 DEF Source
    <3> HIDE DEF l, q
    <3>2. QED  BY <1>2, <1>8, <2>1, <2>2, <3>1
  <2>5. QED  BY <2>3, <2>4
<1>22. DirInv(w, dirs)
  <2> SUFFICES ASSUME NEW j \in dirs
               PROVE  Size(w, j) \in Nat /\ EndBefore(w, Ptr(w, j, 0), Size(w, j))
    BY DEF DirInv
  <2>1. Size(v, j) \in Nat /\ EndBefore(v, Ptr(v, j, 0), Size(v, j)) /\ Ptr(v, j, 0) \in Block
    BY <1>1 DEF Sound, DirInv, BlocksInv, Owns
  <2>2. Ptr(w, j, 0) = Ptr(v, j, 0) /\ Size(w, j) = Size(v, j)
    BY <1>1, <1>3
  <2>3. ASSUME NEW o \in DOMAIN Dirents(w, Ptr(v, j, 0))
        PROVE  o + Dirents(w, Ptr(v, j, 0))[o].entry_len <= Size(v, j)
    <3>1. PICK q \in DOMAIN Dirents(v, Ptr(v, j, 0)) :
             o \in Nat /\ o <= q /\ Dirents(w, Ptr(v, j, 0))[o] = Dirents(v, Ptr(v, j, 0))[q]
      BY <1>12, <2>1
    <3>2. q \in Nat /\ Dirents(v, Ptr(v, j, 0))[q].entry_len \in Nat
      BY <1>7, <2>1
    <3>3. q + Dirents(v, Ptr(v, j, 0))[q].entry_len <= Size(v, j)
      BY <2>1 DEF EndBefore
    <3>4. QED  BY <2>1, <3>1, <3>2, <3>3
  <2>4. QED  BY <2>1, <2>2, <2>3 DEF EndBefore
<1>23. \A j \in files, n \in 0 .. Ptrs - 1 : n < Size(v, j) =>
          w.data[Ptr(v, j, n)] = v.data[Ptr(v, j, n)]
  <2> SUFFICES ASSUME NEW j \in files, NEW n \in 0 .. Ptrs - 1, n < Size(v, j)
               PROVE  w.data[Ptr(v, j, n)] = v.data[Ptr(v, j, n)]
    OBVIOUS
  <2>1. Ptr(v, j, n) \in Block /\ Ptr(v, j, n) # b
    BY <1>1 DEF Sound, BlocksInv, Owns, b
  <2>2. QED  BY <1>4, <2>1
<1>24. FileInv(w, files2)
  BY <1>1, <1>3, <1>23 DEF Sound, FileInv
<1>25. SameFiles(v, w, files2)
  BY <1>1, <1>3, <1>23 DEF SameFiles
<1>26. Sound(w, dirs, files2)
  BY <1>15, <1>16, <1>17, <1>20, <1>22, <1>24 DEF Sound, RemovedFrom
<1>27. Size(v, d) - len \in Nat
  BY <1>2, <1>8
<1>28. QED  BY <1>3, <1>21, <1>25, <1>26, <1>27 DEF b, len

(* The second transaction of jfs_rm.                                        *)
LEMMA ResizedSound ==
    ASSUME NEW v, NEW dirs, NEW files, Sound(v, dirs, files),
           NEW r, r.dir \in dirs, r.size \in Nat, EndBefore(v, Ptr(v, r.dir, 0), r.size)
    PROVE  Sound(Resized(v, r), dirs, files) /\ SameFiles(v, Resized(v, r), files)
<1> DEFINE w == Resized(v, r)
           ino == [v.inode EXCEPT ![r.dir].size = r.size]
           u == [block_bitmap |-> v.block_bitmap, inode_bitmap |-> v.inode_bitmap,
                 inode |-> ino, data |-> v.data]
<1>1. VolumeOK(v)
  BY DEF Sound
<1>2. /\ v = [block_bitmap |-> v.block_bitmap, inode_bitmap |-> v.inode_bitmap,
              inode |-> v.inode, data |-> v.data]
      /\ v.block_bitmap \in Bits(BlocksPerGroup) /\ v.inode_bitmap \in Bits(InodesPerGroup)
      /\ v.inode \in [Inode -> [size : Nat \cup {None},
                                blockptrs : [0 .. Ptrs - 1 -> Block \cup {None}]]]
      /\ v.data = [c \in Block |-> v.data[c]]
      /\ \A c \in Block : \A o \in DOMAIN Dirents(v, c) :
            o \in 0 .. BlockSize - DirentSize /\ Dirents(v, c)[o] \in Entries
  BY <1>1, VolumeOKIs
<1>3. w = u
  <2>1. v = [block_bitmap |-> v.block_bitmap, inode_bitmap |-> v.inode_bitmap,
             inode |-> v.inode, data |-> v.data]
    BY <1>2
  <2>2. QED  BY <2>1 DEF Resized
<1>4. /\ ino \in [Inode -> [size : Nat \cup {None},
                            blockptrs : [0 .. Ptrs - 1 -> Block \cup {None}]]]
      /\ \A i \in Inode : /\ ino[i].size = IF i = r.dir THEN r.size ELSE v.inode[i].size
                          /\ ino[i].blockptrs = v.inode[i].blockptrs
  <2>1. v.inode \in [Inode -> [size : Nat \cup {None},
                              blockptrs : [0 .. Ptrs - 1 -> Block \cup {None}]]]
    BY <1>2
  <2>2. \A i \in Inode : /\ ino[i].size = IF i = r.dir THEN r.size ELSE v.inode[i].size
                         /\ ino[i].blockptrs = v.inode[i].blockptrs
    BY <2>1
  <2>3. QED  BY <2>1, <2>2
<1> HIDE DEF w, ino
<1>5. /\ u.block_bitmap = v.block_bitmap /\ u.inode_bitmap = v.inode_bitmap
      /\ u.inode = ino /\ u.data = v.data
  OBVIOUS
<1>6. \A c \in Block : Dirents(u, c) = Dirents(v, c)
  BY <1>5 DEF Dirents
<1>7. VolumeOK(u)
  <2>1. u = [block_bitmap |-> u.block_bitmap, inode_bitmap |-> u.inode_bitmap,
             inode |-> u.inode, data |-> u.data]
    OBVIOUS
  <2> HIDE DEF u
  <2>2. QED  BY <1>2, <1>4, <1>5, <1>6, <2>1, VolumeOKIs
<1> HIDE DEF u
<1>8. /\ \A i \in Inode : Size(u, i) = IF i = r.dir THEN r.size ELSE Size(v, i)
      /\ \A i \in Inode, n \in 0 .. Ptrs - 1 : Ptr(u, i, n) = Ptr(v, i, n)
  BY <1>4, <1>5 DEF Size, Ptr
<1>9. /\ dirs \cup files \subseteq Inode /\ dirs \cap files = {} /\ 0 \in 0 .. Ptrs - 1
  BY VolumeSizes DEF Sound, InodesInv
<1>10. /\ \A i \in Inode : InodeUsed(u, i) <=> InodeUsed(v, i)
       /\ \A b \in Block : BlockUsed(u, b) <=> BlockUsed(v, b)
  BY <1>5, SameBitsAre DEF SameBits
<1>11. InodesInv(u, dirs, files) /\ EntriesInv(u, dirs, files) /\ SoleEntryInv(u)
  BY <1>6, <1>9, <1>10 DEF Sound, InodesInv, EntriesInv, SoleEntryInv
<1>12. BlocksInv(u, dirs, files)
  <2>1. \A i \in dirs \cup files, n \in 0 .. Ptrs - 1 :
           (Owns(u, dirs, files, i, n) <=> Owns(v, dirs, files, i, n)) /\ Ptr(u, i, n) = Ptr(v, i, n)
    BY <1>8, <1>9 DEF Owns
  <2>2. QED  BY <1>10, <2>1 DEF Sound, BlocksInv
<1>13. DirInv(u, dirs)
  <2> SUFFICES ASSUME NEW i \in dirs
               PROVE  Size(u, i) \in Nat /\ EndBefore(u, Ptr(u, i, 0), Size(u, i))
    BY DEF DirInv
  <2>1. Ptr(u, i, 0) = Ptr(v, i, 0) /\ Ptr(v, i, 0) \in Block
    BY <1>8, <1>9 DEF Sound, BlocksInv, Owns
  <2>2. Size(u, i) \in Nat /\ EndBefore(v, Ptr(v, i, 0), Size(u, i))
    BY <1>8, <1>9 DEF Sound, DirInv
  <2>3. QED  BY <1>6, <2>1, <2>2 DEF EndBefore
<1>14. \A j \in files : Size(u, j) = Size(v, j)
                        /\ \A n \in 0 .. Ptrs - 1 : Ptr(u, j, n) = Ptr(v, j, n)
  BY <1>8, <1>9
<1>15. FileInv(u, files) /\ SameFiles(v, u, files)
  BY <1>5, <1>14 DEF Sound, FileInv, SameFiles
<1>16. QED  BY <1>3, <1>7, <1>11, <1>12, <1>13, <1>15 DEF Sound, w

-----------------------------------------------------------------------------
(* The tools, by how they end.                                              *)

(* The paths of users.                                                      *)
LEMMA PathIs ==
    ASSUME NEW path \in Path
    PROVE  Len(path) \in Nat \ {0} /\ Len(path) <= MaxDepth /\ Last(path) \in Name
<1>1. PICK n \in 1 .. MaxDepth : path \in [1 .. n -> Name \cup Dots]
  BY DEF Path
<1>2. n \in Nat \ {0} /\ path \in Seq(Name \cup Dots)
  BY <1>1, VolumeSizes
<1>3. Len(path) = n
  BY <1>1, <1>2
<1>4. QED  BY <1>2, <1>3 DEF Path

(* A truncated file has no more blocks than an inode has pointers.          *)
LEMMA TruncatedIs ==
    ASSUME NEW file \in Seq(Text)
    PROVE  Truncated(file) \in Seq(Text) /\ Len(Truncated(file)) <= Ptrs
BY VolumeSizes DEF Truncated

(* jfs_mkdir makes a directory in a directory, of what is free.             *)
LEMMA MkdirIs ==
    ASSUME NEW v, NEW dirs, NEW files, Sound(v, dirs, files), NEW path \in Path,
           mkdirResult(v, path) = "ok"
    PROVE  LET d == DirOf(v, path, {"dir", "file"})
               i == get_free_inode(v)
               b == get_free_block(v)
           IN  /\ d \in dirs /\ Last(path) \in Name
               /\ i \in Inode /\ ~InodeUsed(v, i) /\ b \in Block /\ ~BlockUsed(v, b)
               /\ Made(v, path) = mk_new_directory(v, d, Last(path), i, b)
<1> DEFINE d == DirOf(v, path, {"dir", "file"})
           i == get_free_inode(v)
           b == get_free_block(v)
<1>1. /\ d \notin {None, Died} /\ Lookup(v, d, Last(path)).type # "junk"
      /\ i # None /\ b # None
  BY DEF mkdirResult
<1>2. Len(path) \in Nat \ {0} /\ Last(path) \in Name
  BY PathIs
<1>3. d \in dirs \cup files
  <2>1. d \in Reach(dirs, files, {"dir", "file"}) \cup {None, Died}
    BY <1>2, DirOfSound
  <2> HIDE DEF d
  <2>2. QED  BY <1>1, <2>1 DEF Reach
<1>4. Made(v, path) = mk_new_directory(v, d, Last(path), i, b)
  BY DEF Made
<1>5. IsVolume(v)
  BY DEF Sound, VolumeOK
<1>6. i \in Inode /\ ~InodeUsed(v, i) /\ b \in Block /\ ~BlockUsed(v, b)
  BY <1>1, <1>5, FreeInode, FreeBlock
<1> HIDE DEF d
<1>7. d \in dirs
  BY <1>1, <1>3, LookupSound, NoEntryType
<1>8. QED  BY <1>2, <1>4, <1>6, <1>7 DEF d

(* It keeps a volume sound, with one directory more.                        *)
LEMMA MkdirSound ==
    ASSUME NEW v, NEW dirs, NEW files, Sound(v, dirs, files), NEW path \in Path,
           mkdirResult(v, path) = "ok"
    PROVE  /\ Sound(Made(v, path), dirs \cup {get_free_inode(v)}, files)
           /\ SameFiles(v, Made(v, path), files)
<1> DEFINE d == DirOf(v, path, {"dir", "file"})
           i == get_free_inode(v)
           b == get_free_block(v)
<1>1. /\ d \in dirs /\ Last(path) \in Name
      /\ i \in Inode /\ ~InodeUsed(v, i) /\ b \in Block /\ ~BlockUsed(v, b)
      /\ Made(v, path) = mk_new_directory(v, d, Last(path), i, b)
  BY MkdirIs
<1> HIDE DEF d, i, b
<1>2. QED  BY <1>1, NewDirSound DEF i

(* jfs_copyin puts a file in a directory.                                   *)
LEMMA CopyinIs ==
    ASSUME NEW v, NEW dirs, NEW files, Sound(v, dirs, files), NEW path \in Path,
           NEW file \in Seq(Text), copyinResult(v, path, file) = "ok"
    PROVE  LET d == DirOf(v, path, {"dir"})
               i == get_free_inode(v)
               cut == Truncated(file)
           IN  /\ d \in dirs /\ Last(path) \in Name
               /\ i \in Inode /\ ~InodeUsed(v, i)
               /\ cut \in Seq(Text) /\ Len(cut) <= Ptrs /\ ~Store(set_inode_used(v, i), cut).full
               /\ CopiedIn(v, path, file) = PutFile(v, d, path, i, cut)
<1> DEFINE d == DirOf(v, path, {"dir"})
           i == get_free_inode(v)
           cut == Truncated(file)
<1>1. /\ d \notin {None, Died} /\ i # None /\ ~Store(set_inode_used(v, i), cut).full
  BY DEF copyinResult
<1>2. Len(path) \in Nat \ {0} /\ Last(path) \in Name
  BY PathIs
<1>3. d \in dirs
  <2>1. d \in Reach(dirs, files, {"dir"}) \cup {None, Died}
    BY <1>2, DirOfSound
  <2> HIDE DEF d
  <2>2. QED  BY <1>1, <2>1 DEF Reach
<1>4. IsVolume(v)
  BY DEF Sound, VolumeOK
<1>5. i \in Inode /\ ~InodeUsed(v, i)
  BY <1>1, <1>4, FreeInode
<1>6. cut \in Seq(Text) /\ Len(cut) <= Ptrs
  BY TruncatedIs
<1>7. CopiedIn(v, path, file) = PutFile(v, d, path, i, cut)
  BY DEF CopiedIn
<1> HIDE DEF d, i, cut
<1>8. QED  BY <1>1, <1>2, <1>3, <1>5, <1>6, <1>7 DEF d, i, cut

(* It keeps a volume sound, with one file more.                             *)
LEMMA CopyinSound ==
    ASSUME NEW v, NEW dirs, NEW files, Sound(v, dirs, files), NEW path \in Path,
           NEW file \in Seq(Text), copyinResult(v, path, file) = "ok"
    PROVE  /\ Sound(CopiedIn(v, path, file), dirs, files \cup {get_free_inode(v)})
           /\ SameFiles(v, CopiedIn(v, path, file), files)
<1> DEFINE d == DirOf(v, path, {"dir"})
           i == get_free_inode(v)
           cut == Truncated(file)
<1>1. /\ d \in dirs /\ Last(path) \in Name
      /\ i \in Inode /\ ~InodeUsed(v, i)
      /\ cut \in Seq(Text) /\ Len(cut) <= Ptrs /\ ~Store(set_inode_used(v, i), cut).full
      /\ CopiedIn(v, path, file) = PutFile(v, d, path, i, cut)
  BY CopyinIs
<1>2. Len(path) \in Nat \ {0}
  BY PathIs
<1> HIDE DEF d, i, cut
<1>3. QED  BY <1>1, <1>2, PutFileSound DEF i

(* The first transaction of jfs_rm cuts an entry of a file.                 *)
LEMMA RemoveIs ==
    ASSUME NEW v, NEW dirs, NEW files, Sound(v, dirs, files), NEW path \in Path,
           rmResult(v, path) = "rm"
    PROVE  LET d == DirOf(v, path, {"dir"})
               k == FoundAt(v, path)
               e == FoundEntry(v, path)
           IN  /\ d \in dirs /\ k \in DOMAIN Dirents(v, Ptr(v, d, 0))
               /\ e = Dirents(v, Ptr(v, d, 0))[k] /\ e.type = "file" /\ e.inode \in files
               /\ RemovedFrom(v, Removed(v, path), Ptr(v, d, 0), k, e.inode)
               /\ ToResize(v, path) = [dir |-> d, size |-> Size(v, d) - e.entry_len]
               /\ e.inode = findfile_recursive(v, path, "file")
<1> DEFINE d == DirOf(v, path, {"dir"})
           name == Last(path)
           found == Descend(v, d, name, {"file"})
           k == StopsAt(v, d, name)
           e == Lookup(v, d, name)
           w == RemoveFile(v, d, k, e.inode)
<1>1. found \notin {None, Died}
  BY DEF rmResult, findfile_recursive
<1>2. Len(path) \in Nat \ {0}
  BY PathIs
<1>3. d \in dirs \cup {None, Died}
  BY <1>2, DirOfSound DEF Reach
<1> HIDE DEF d, name
<1>4. d \in dirs /\ d \in Nat
  <2>1. d \notin {None, Died}
    BY <1>1 DEF Descend, None, Died
  <2>2. QED  BY <1>3, <2>1, InodeNumbers DEF Sound, InodesInv
<1>5. e.type = "file" /\ e.inode = found
  <2>1. found = IF e.type = "junk" THEN Died
                ELSE IF e.type \in {"file"} THEN e.inode ELSE None
    BY <1>4 DEF Descend
  <2>2. QED  BY <1>1, <2>1
<1>6. /\ k \in DOMAIN Dirents(v, Ptr(v, d, 0))
      /\ e = Dirents(v, Ptr(v, d, 0))[k] /\ e = Entry(v, d, k) /\ e.inode \in files
  BY <1>4, <1>5, LookupSound, NoEntryType
<1>7. /\ FoundAt(v, path) = k /\ FoundEntry(v, path) = e
      /\ Removed(v, path) = w
      /\ ToResize(v, path) = [dir |-> d, size |-> Size(v, d) - e.entry_len]
  BY <1>6 DEF FoundAt, FoundEntry, Removed, ToResize, Size, d, name
<1> HIDE DEF k, e
<1>8. RemovedFrom(v, w, Ptr(v, d, 0), k, e.inode)
  BY <1>4, <1>6, RemoveFileIs
<1> HIDE DEF w
<1>9. found = findfile_recursive(v, path, "file")
  BY DEF findfile_recursive, d, name
<1> HIDE DEF found
<1>10. QED  BY <1>4, <1>5, <1>6, <1>7, <1>8, <1>9 DEF d

(* It keeps a volume sound, with one file less, and leaves a size for the   *)
(* directory that covers its entries.                                       *)
LEMMA RemoveSound ==
    ASSUME NEW v, NEW dirs, NEW files, Sound(v, dirs, files), NEW path \in Path,
           rmResult(v, path) = "rm"
    PROVE  LET r == ToResize(v, path)
               w == Removed(v, path)
               i == FoundEntry(v, path).inode
           IN  /\ Sound(w, dirs, files \ {i})
               /\ r.dir \in dirs /\ r.size \in Nat /\ EndBefore(w, Ptr(w, r.dir, 0), r.size)
               /\ SameFiles(v, w, files \ {i})
<1> DEFINE d == DirOf(v, path, {"dir"})
           k == FoundAt(v, path)
           e == FoundEntry(v, path)
           w == Removed(v, path)
<1>1. /\ d \in dirs /\ k \in DOMAIN Dirents(v, Ptr(v, d, 0))
      /\ e = Dirents(v, Ptr(v, d, 0))[k] /\ e.type = "file" /\ e.inode \in files
      /\ RemovedFrom(v, w, Ptr(v, d, 0), k, e.inode)
      /\ ToResize(v, path) = [dir |-> d, size |-> Size(v, d) - e.entry_len]
  BY RemoveIs
<1> HIDE DEF d, k, e, w
<1>2. /\ Sound(w, dirs, files \ {e.inode})
      /\ Size(v, d) - e.entry_len \in Nat
      /\ EndBefore(w, Ptr(w, d, 0), Size(v, d) - e.entry_len)
      /\ SameFiles(v, w, files \ {e.inode})
  BY <1>1, RemovedSound
<1>3. QED  BY <1>1, <1>2 DEF e, w

-----------------------------------------------------------------------------
(* jfs_format.                                                              *)

(* On new groups, the headers are in use and nothing else.                  *)
LEMMA NewGroupsIs ==
    /\ IsVolume(NewGroups)
    /\ NewGroups.inode = [i \in Inode |-> InodeOf(None, None)]
    /\ NewGroups.data = [b \in Block |-> NoEntries]
    /\ \A c \in Block : BlockUsed(NewGroups, c) <=> IsHeader(c)
    /\ \A j \in Inode : ~InodeUsed(NewGroups, j)
<1> DEFINE bb == [g \in Group |-> 0 .. DataBlockOffset - 1]
           ib == [g \in Group |-> {}]
           ino == [i \in Inode |-> InodeOf(None, None)]
           dat == [b \in Block |-> NoEntries]
<1>1. NewGroups = [block_bitmap |-> bb, inode_bitmap |-> ib, inode |-> ino, data |-> dat]
  BY DEF NewGroups
<1>2. DataBlockOffset \in Nat /\ DataBlockOffset < BlocksPerGroup
  <2>1. InodesPerGroup \div InodesPerBlock \in Nat
    BY Sizes, DivMod
  <2>2. 1 + InodesPerGroup \div InodesPerBlock < BlocksPerGroup
    BY GroupAssumption
  <2>3. QED  BY <2>1, <2>2 DEF DataBlockOffset
<1>3. bb \in Bits(BlocksPerGroup) /\ ib \in Bits(InodesPerGroup)
  BY <1>2, Sizes DEF Bits
<1>4. \A c \in Block : c \div BlocksPerGroup \in Group /\ (c % BlocksPerGroup) \in Nat
  <2> SUFFICES ASSUME NEW c \in Block
               PROVE  c \div BlocksPerGroup \in Group /\ (c % BlocksPerGroup) \in Nat
    OBVIOUS
  <2>1. c \div BlocksPerGroup \in 0 .. Groups - 1 /\ (c % BlocksPerGroup) \in 0 .. BlocksPerGroup - 1
    BY Sizes, QuotientInRange DEF Block
  <2>2. QED  BY <2>1 DEF Group
<1>5. \A j \in Inode : j \div InodesPerGroup \in Group
  BY Sizes, QuotientInRange DEF Inode, Group
<1>6. \A c \in Block : bb[c \div BlocksPerGroup] = 0 .. DataBlockOffset - 1
  BY <1>4
<1>7. \A j \in Inode : ib[j \div InodesPerGroup] = {}
  BY <1>5
<1> HIDE DEF bb, ib, ino, dat
<1>8. /\ IsVolume(NewGroups) /\ NewGroups.block_bitmap = bb /\ NewGroups.inode_bitmap = ib
      /\ NewGroups.inode = ino /\ NewGroups.data = dat
  BY <1>1, <1>3, RecordOf
<1>9. \A c \in Block : BlockUsed(NewGroups, c) <=> IsHeader(c)
  BY <1>2, <1>4, <1>6, <1>8 DEF BlockUsed, IsHeader
<1>10. \A j \in Inode : ~InodeUsed(NewGroups, j)
  BY <1>7, <1>8 DEF InodeUsed
<1>11. QED  BY <1>8, <1>9, <1>10 DEF ino, dat

(* Zero is the lowest of all numbers.                                       *)
LEMMA LowestIsZero ==
    ASSUME NEW numbers \in SUBSET Nat, 0 \in numbers
    PROVE  Lowest(numbers) = 0
<1>1. Lowest(numbers) \in numbers /\ \A n \in numbers : Lowest(numbers) <= n
  BY LowestIs
<1>2. Lowest(numbers) \in Nat /\ Lowest(numbers) <= 0
  BY <1>1
<1>3. QED  BY <1>2

(* The first free inode is the root's.                                      *)
LEMMA RootIsFirst == get_free_inode(NewGroups) = Root
<1> DEFINE at(g) == find_free_inode(NewGroups.inode_bitmap[g])
           S == {g * InodesPerGroup + at(g) : g \in {h \in Group : at(h) # None}}
<1>1. 0 \in Group
  BY Sizes DEF Group
<1>2. NewGroups.inode_bitmap = [g \in Group |-> {}]
  BY DEF NewGroups
<1>3. \A g \in Group : at(g) = 0
  <2> SUFFICES ASSUME NEW g \in Group PROVE at(g) = 0
    OBVIOUS
  <2> DEFINE free == {n \in 0 .. InodesPerGroup - 1 :
                        Searched(n) /\ n \notin NewGroups.inode_bitmap[g]}
  <2>1. 0 \div ByteSize = 0
    <3>1. (0 * ByteSize + 0) \div ByteSize = 0
      BY Sizes, DivModOf
    <3>2. QED  BY <3>1, Sizes
  <2>2. 0 \in free /\ free \in SUBSET Nat
    BY <1>2, <2>1, Sizes DEF Searched
  <2>3. at(g) = Lowest(free)
    BY DEF find_free_inode
  <2> HIDE DEF free, at
  <2>4. QED  BY <2>2, <2>3, LowestIsZero
<1> HIDE DEF at
<1>4. 0 \in S
  <2>1. 0 * InodesPerGroup + at(0) = 0 /\ at(0) # None
    BY <1>1, <1>3, Sizes DEF None
  <2>2. QED  BY <1>1, <2>1
<1>5. S \in SUBSET Nat
  BY <1>3, Sizes DEF Group
<1>6. get_free_inode(NewGroups) = Lowest(S)
  BY DEF get_free_inode, at
<1> HIDE DEF S
<1>7. QED  BY <1>4, <1>5, <1>6, LowestIsZero DEF Root

(* The inodes jfs_format makes.                                             *)
LEMMA InodeOfIs ==
    \A size, ptr :
       /\ InodeOf(size, ptr).size = size
       /\ InodeOf(size, ptr).blockptrs = [n \in 0 .. Ptrs - 1 |-> ptr]
       /\ size \in Nat \cup {None} /\ ptr \in Block \cup {None} =>
             InodeOf(size, ptr) \in [size : Nat \cup {None},
                                     blockptrs : [0 .. Ptrs - 1 -> Block \cup {None}]]
BY DEF InodeOf

(* The volume of jfs_format when the root has its inode and its block.      *)
RootVolume(b) ==
    [set_block_used(set_inode_used(NewGroups, Root), b) EXCEPT !.inode = RootInodes(@, Root, b)]

(* The new groups with the inode of the root, before it has entries.        *)
LEMMA RootSound ==
    ASSUME NEW b \in Block, ~BlockUsed(NewGroups, b)
    PROVE  LET w == RootVolume(b)
           IN  /\ Sound(w, {Root}, {}) /\ Ptr(w, Root, 0) = b /\ Size(w, Root) = 0
               /\ \A c \in Block : BlockUsed(w, c) <=> IsHeader(c) \/ c = b
               /\ \A j \in Inode : InodeUsed(w, j) <=> j = Root
               /\ \A c \in Block : DOMAIN Dirents(w, c) = {}
<1> DEFINE v == NewGroups
           x == set_inode_used(v, Root)
           y == set_block_used(x, b)
           w == [y EXCEPT !.inode = RootInodes(@, Root, b)]
           ino == RootInodes(v.inode, Root, b)
           u == [block_bitmap |-> y.block_bitmap, inode_bitmap |-> y.inode_bitmap,
                 inode |-> ino, data |-> v.data]
           I == [size : Nat \cup {None}, blockptrs : [0 .. Ptrs - 1 -> Block \cup {None}]]
<1>1. Root \in Inode /\ 0 \in Block /\ 0 \in 0 .. Ptrs - 1
  BY InodeNumbers, VolumeSizes
<1>2. /\ IsVolume(v) /\ v.inode = [i \in Inode |-> InodeOf(None, None)]
      /\ v.data = [c \in Block |-> NoEntries]
      /\ \A c \in Block : BlockUsed(v, c) <=> IsHeader(c)
      /\ \A j \in Inode : ~InodeUsed(v, j)
  BY NewGroupsIs
<1>3. ~IsHeader(b)
  BY <1>2
<1> HIDE DEF v
<1>4. /\ IsVolume(x) /\ x.inode = v.inode /\ x.data = v.data
      /\ x.block_bitmap = v.block_bitmap
      /\ \A j \in Inode : InodeUsed(x, j) <=> InodeUsed(v, j) \/ j = Root
  BY <1>1, <1>2, SetInodeUsed
<1> HIDE DEF x
<1>5. /\ IsVolume(y) /\ y.inode = v.inode /\ y.data = v.data
      /\ y.inode_bitmap = x.inode_bitmap
      /\ \A c \in Block : BlockUsed(y, c) <=> BlockUsed(x, c) \/ c = b
  BY <1>4, SetBlockUsed
<1> HIDE DEF y
<1>6. w = u
  <2>1. y = [block_bitmap |-> y.block_bitmap, inode_bitmap |-> y.inode_bitmap,
             inode |-> y.inode, data |-> y.data]
    BY <1>5, VolumeFields
  <2>2. y.inode = v.inode /\ y.data = v.data
    BY <1>5
  <2>3. QED  BY <2>1, <2>2
<1> DEFINE root == [InodeOf(0, None) EXCEPT !.blockptrs[0] = b]
<1>7. root \in I /\ root.size = 0 /\ root.blockptrs[0] = b
  <2>1. InodeOf(0, None) \in I /\ InodeOf(0, None).size = 0
    BY InodeOfIs
  <2> HIDE DEF root
  <2>2. QED  BY <1>1, <2>1 DEF root
<1> HIDE DEF root
<1>8. DOMAIN v.inode = Inode /\ \A i \in Inode : v.inode[i] \in I
  BY <1>2, InodeOfIs
<1>9. ino = [i \in Inode |-> IF i = Root THEN root
                             ELSE IF inode_to_block(i) = inode_to_block(Root)
                                  THEN InodeOf(0, 0) ELSE v.inode[i]]
  BY <1>8 DEF RootInodes, root
<1>10. InodeOf(0, 0) \in I
  BY <1>1, InodeOfIs
<1> HIDE DEF ino, I
<1>11. ino \in [Inode -> I] /\ ino[Root] = root
  BY <1>1, <1>7, <1>8, <1>9, <1>10
<1>12. /\ u.block_bitmap = y.block_bitmap /\ u.inode_bitmap = x.inode_bitmap
       /\ u.inode = ino /\ u.data = v.data
  BY <1>5
<1>13. u = [block_bitmap |-> u.block_bitmap, inode_bitmap |-> u.inode_bitmap,
            inode |-> u.inode, data |-> u.data]
  OBVIOUS
<1> HIDE DEF u, w
<1>14. /\ \A c \in Block : BlockUsed(u, c) <=> IsHeader(c) \/ c = b
       /\ \A j \in Inode : InodeUsed(u, j) <=> j = Root
  BY <1>2, <1>4, <1>5, <1>12 DEF BlockUsed, InodeUsed
<1>15. \A c \in Block : DOMAIN Dirents(u, c) = {}
  BY <1>2, <1>12 DEF Dirents, AsDir, NoEntries
<1>16. VolumeOK(u)
  <2>1. u.block_bitmap \in Bits(BlocksPerGroup) /\ u.inode_bitmap \in Bits(InodesPerGroup)
    BY <1>4, <1>5, <1>12, VolumeFields
  <2>2. u.data = [c \in Block |-> u.data[c]]
    BY <1>2, <1>12
  <2>3. u.inode \in [Inode -> [size : Nat \cup {None},
                               blockptrs : [0 .. Ptrs - 1 -> Block \cup {None}]]]
    BY <1>11, <1>12 DEF I
  <2>4. QED  BY <1>13, <1>15, <2>1, <2>2, <2>3, VolumeOKIs
<1>17. InodesInv(u, {Root}, {}) /\ EntriesInv(u, {Root}, {}) /\ SoleEntryInv(u)
  BY <1>1, <1>14, <1>15 DEF InodesInv, EntriesInv, SoleEntryInv
<1>18. Size(u, Root) = 0 /\ Ptr(u, Root, 0) = b
  BY <1>7, <1>11, <1>12 DEF Size, Ptr
<1>19. BlocksInv(u, {Root}, {})
  BY <1>3, <1>14, <1>18 DEF BlocksInv, Owns
<1>20. DirInv(u, {Root}) /\ FileInv(u, {})
  BY <1>15, <1>18 DEF DirInv, EndBefore, FileInv
<1>21. Sound(u, {Root}, {})
  BY <1>16, <1>17, <1>19, <1>20 DEF Sound
<1>22. QED  BY <1>6, <1>14, <1>15, <1>18, <1>21 DEF RootVolume, w, x, y, v

(* The volume of jfs_format when the root has its entries, and .log has     *)
(* none yet.                                                                *)
NewRoot == AddDir(AddDir(RootVolume(get_free_block(NewGroups)), Root, ".", Root), Root, "..", Root)

(* There is room for .log.                                                  *)
LEMMA FormatIs ==
    LET b == get_free_block(NewGroups)
        i == get_free_inode(NewRoot)
        path == <<".log">>
    IN  /\ b \in Block /\ ~BlockUsed(NewGroups, b)
        /\ i # None /\ ~Store(set_inode_used(NewRoot, i), LogFile).full
        /\ LogFile \in Seq(Text) /\ Len(LogFile) <= Ptrs
        /\ Len(path) \in Nat \ {0} /\ Last(path) \in Name \cup {".log"}
        /\ create_log_file(create_fs_root(NewGroups)) = PutFile(NewRoot, Root, path, i, LogFile)
<1> DEFINE b == get_free_block(NewGroups)
           i == get_free_inode(NewRoot)
           path == <<".log">>
<1>1. b \in Block /\ ~BlockUsed(NewGroups, b)
  BY FormatAssumption, NewGroupsIs, FreeBlock
<1>2. create_fs_root(NewGroups) = NewRoot
  BY RootIsFirst DEF create_fs_root, NewRoot, RootVolume
<1>3. i # None /\ ~Store(set_inode_used(NewRoot, i), LogFile).full
  BY <1>2, FormatAssumption
<1>4. create_log_file(create_fs_root(NewGroups)) = PutFile(NewRoot, Root, path, i, LogFile)
  BY <1>2 DEF create_log_file
<1>5. LogFile \in Seq(Text) /\ Len(LogFile) = Ptrs
  BY VolumeAssumption, VolumeSizes DEF LogFile
<1>6. Len(path) \in Nat \ {0} /\ Last(path) \in Name \cup {".log"}
  BY DEF Last
<1>7. QED  BY <1>1, <1>3, <1>4, <1>5, <1>6, VolumeSizes

(* What jfs_format makes is sound.                                          *)
LEMMA FormatSound ==
    \E files : Sound(create_log_file(create_fs_root(NewGroups)), {Root}, files)
<1> DEFINE b == get_free_block(NewGroups)
           x == RootVolume(b)
           y == AddDir(x, Root, ".", Root)
           v == NewRoot
           i == get_free_inode(v)
           path == <<".log">>
           w == create_log_file(create_fs_root(NewGroups))
<1>1. /\ b \in Block /\ ~BlockUsed(NewGroups, b)
      /\ i # None /\ ~Store(set_inode_used(v, i), LogFile).full
      /\ LogFile \in Seq(Text) /\ Len(LogFile) <= Ptrs
      /\ Len(path) \in Nat \ {0} /\ Last(path) \in Name \cup {".log"}
      /\ w = PutFile(v, Root, path, i, LogFile)
  BY FormatIs
<1>2. v = AddDir(y, Root, "..", Root)
  BY DEF NewRoot
<1>3. Sound(x, {Root}, {})
  <2> HIDE DEF b
  <2> QED  BY <1>1, RootSound
<1> HIDE DEF x
<1>4. Sound(y, {Root}, {})
  BY <1>3, AddDirSound DEF DirEntryOK
<1> HIDE DEF y
<1>5. Sound(v, {Root}, {})
  BY <1>2, <1>4, AddDirSound DEF DirEntryOK
<1> HIDE DEF v
<1>6. IsVolume(v)
  BY <1>5 DEF Sound, VolumeOK
<1>7. i \in Inode /\ ~InodeUsed(v, i)
  BY <1>1, <1>6, FreeInode
<1> HIDE DEF i, path, w
<1> DEFINE dirs == {Root}
           files == {}
<1>8. Sound(v, dirs, files) /\ Root \in dirs
  BY <1>5
<1> HIDE DEF dirs, files
<1>9. Sound(w, dirs, files \cup {i})
  BY <1>1, <1>7, <1>8, PutFileSound
<1>10. QED  BY <1>9 DEF dirs, w

-----------------------------------------------------------------------------
(* The inductive invariant.                                                 *)

(* A volume that is sound for some sets of inodes is so for those that its  *)
(* entries name.                                                            *)
LEMMA SoundForNamed ==
    ASSUME NEW v, NEW dirs, NEW files, Sound(v, dirs, files), NEW r, r.dir \in dirs \cup {None}
    PROVE  /\ Sound(v, KnownDirs(v, r), Named(v, "file"))
           /\ Named(v, "file") \subseteq files
<1> DEFINE dirs2 == KnownDirs(v, r)
           files2 == Named(v, "file")
<1>1. ASSUME NEW b \in Block, NEW o \in DOMAIN Dirents(v, b)
      PROVE  IF Dirents(v, b)[o].type = "dir" THEN Dirents(v, b)[o].inode \in dirs2
                                              ELSE Dirents(v, b)[o].inode \in files2
  BY EntryFacts DEF KnownDirs, Named
<1>2. Root \in dirs2 /\ Root \in dirs
  BY DEF KnownDirs, Sound, InodesInv
<1>3. Named(v, "dir") \subseteq dirs /\ files2 \subseteq files
  BY EntryFacts DEF Named
<1>4. dirs2 \subseteq dirs
  BY <1>2, <1>3 DEF KnownDirs
<1> HIDE DEF dirs2, files2
<1>5. InodesInv(v, dirs2, files2)
  BY <1>2, <1>3, <1>4 DEF Sound, InodesInv
<1>6. EntriesInv(v, dirs2, files2)
  BY <1>1 DEF Sound, EntriesInv
<1>7. BlocksInv(v, dirs2, files2)
  BY <1>3, <1>4 DEF Sound, BlocksInv, Owns
<1>8. DirInv(v, dirs2) /\ FileInv(v, files2)
  BY <1>3, <1>4 DEF Sound, DirInv, FileInv
<1>9. QED  BY <1>3, <1>5, <1>6, <1>7, <1>8 DEF Sound, dirs2, files2

(* What does not change has the same files.                                 *)
LEMMA SameFilesIsReflexive == \A v, files : SameFiles(v, v, files)
BY DEF SameFiles

(* Fewer files are the same files, too.                                     *)
LEMMA SameFilesOfFewer ==
    ASSUME NEW v, NEW w, NEW files, NEW fewer, SameFiles(v, w, files), fewer \subseteq files
    PROVE  SameFiles(v, w, fewer)
BY DEF SameFiles

(* What every step keeps of the files that are named before and after it.   *)
KeepsFiles == SameFiles(vol, vol', Named(vol, "file") \cap Named(vol, "file")')

(* The invariant holds of a volume that was formatted.                      *)
LEMMA VolumeInvInit == Init => VolumeInv
<1> SUFFICES ASSUME Init PROVE VolumeInv
  OBVIOUS
<1>1. PICK files : Sound(vol, {Root}, files)
  BY FormatSound DEF Init
<1>2. rm = NoRm /\ rm.dir = None /\ rm \in [dir : Inode \cup {None}, size : Nat]
  BY DEF Init, NoRm
<1>3. Sound(vol, KnownDirs(vol, rm), Named(vol, "file"))
  BY <1>1, <1>2, SoundForNamed
<1>4. VolumeOK(vol)
  BY <1>1 DEF Sound
<1>5. QED  BY <1>2, <1>3, <1>4 DEF VolumeInv, TypeOK, ResizeInv, Init

(* A step to a sound volume, with no jfs_rm on its way.                     *)
LEMMA SoundStep ==
    ASSUME VolumeInv, NEW dirs, NEW files, Sound(vol', dirs, files), rm' = NoRm,
           result' \in {"ok", "rm", "crashed", "died", "exists", "no parent", "no file",
                        "no inode", "no block", "aborted"},
           SameFiles(vol, vol', Named(vol, "file") \cap files)
    PROVE  VolumeInv' /\ KeepsFiles
<1>1. rm'.dir = None /\ rm' \in [dir : Inode \cup {None}, size : Nat]
  BY DEF NoRm
<1>2. /\ Sound(vol', KnownDirs(vol', rm'), Named(vol', "file"))
      /\ Named(vol', "file") \subseteq files
  BY <1>1, SoundForNamed
<1>3. VolumeOK(vol')
  BY DEF Sound
<1>4. TypeOK' /\ ResizeInv(vol', rm')
  BY <1>1, <1>3 DEF TypeOK, ResizeInv
<1>5. SameFiles(vol, vol', Named(vol, "file") \cap Named(vol', "file"))
  BY <1>2, SameFilesOfFewer
<1>6. QED  BY <1>2, <1>4, <1>5 DEF VolumeInv, KeepsFiles

(* jfs_mkdir keeps the invariant.                                           *)
LEMMA MkdirStep ==
    ASSUME VolumeInv, NEW path \in Path, mkdir(path)
    PROVE  VolumeInv' /\ KeepsFiles
<1> DEFINE dirs == KnownDirs(vol, rm)
           files == Named(vol, "file")
<1>1. Sound(vol, dirs, files) /\ rm' = NoRm
  BY DEF VolumeInv, mkdir, Idle
<1>2. result' \in {"no parent", "died", "exists", "no inode", "ok"}
  BY DEF mkdir, mkdirResult
<1> HIDE DEF dirs, files
<1>3. CASE result' = "ok"
  <2>1. vol' = Made(vol, path) /\ mkdirResult(vol, path) = "ok"
    BY <1>3 DEF mkdir
  <2>2. /\ Sound(vol', dirs \cup {get_free_inode(vol)}, files)
        /\ SameFiles(vol, vol', files)
    BY <1>1, <2>1, MkdirSound
  <2>3. SameFiles(vol, vol', Named(vol, "file") \cap files)
    BY <2>2, SameFilesOfFewer
  <2>4. QED  BY <1>1, <1>2, <2>2, <2>3, SoundStep
<1>4. CASE result' # "ok"
  <2>1. vol' = vol
    BY <1>4 DEF mkdir
  <2>2. QED  BY <1>1, <1>2, <2>1, SoundStep, SameFilesIsReflexive
<1>5. QED  BY <1>3, <1>4

(* So does jfs_copyin.                                                      *)
LEMMA CopyinStep ==
    ASSUME VolumeInv, NEW path \in Path, NEW file \in File, copyin(path, file)
    PROVE  VolumeInv' /\ KeepsFiles
<1> DEFINE dirs == KnownDirs(vol, rm)
           files == Named(vol, "file")
           i == get_free_inode(vol)
<1>1. Sound(vol, dirs, files) /\ rm' = NoRm
  BY DEF VolumeInv, copyin, Idle
<1>2. result' \in {"no parent", "died", "no inode", "no block", "ok"}
  BY DEF copyin, copyinResult
<1>3. file \in Seq(Text)
  BY VolumeAssumption
<1>4. CASE result' = "ok"
  <2>1. vol' = CopiedIn(vol, path, file) /\ copyinResult(vol, path, file) = "ok"
    BY <1>4 DEF copyin
  <2> HIDE DEF dirs, files, i
  <2>2. Sound(vol', dirs, files \cup {i}) /\ SameFiles(vol, vol', files)
    BY <1>1, <1>3, <2>1, CopyinSound DEF i
  <2>3. SameFiles(vol, vol', Named(vol, "file") \cap (files \cup {i}))
    BY <2>2, SameFilesOfFewer DEF files
  <2>4. QED  BY <1>1, <1>2, <2>2, <2>3, SoundStep
<1>5. CASE result' # "ok"
  <2>1. vol' = vol
    BY <1>5 DEF copyin
  <2> HIDE DEF dirs, files
  <2>2. QED  BY <1>1, <1>2, <2>1, SoundStep, SameFilesIsReflexive
<1>6. QED  BY <1>4, <1>5

(* What the first transaction of jfs_rm does when users do not remove files *)
(* that use every block pointer.                                            *)
LEMMA RmIs ==
    ASSUME ~RmFull, NEW path \in Path, jfs_remove_file(path)
    PROVE  /\ rm = NoRm /\ ~UsesEveryPtr(vol, path)
           /\ result' = rmResult(vol, path)
           /\ result' \in {"no file", "died", "rm"}
           /\ IF result' = "rm"
              THEN vol' = Removed(vol, path) /\ rm' = ToResize(vol, path)
              ELSE vol' = vol /\ rm' = NoRm
<1>1. /\ rm = NoRm /\ ~UsesEveryPtr(vol, path)
      /\ result' = rmResult(vol, path)
      /\ IF result' = "rm"
         THEN vol' = Removed(vol, path) /\ rm' = ToResize(vol, path)
         ELSE vol' = vol /\ rm' = rm
  BY DEF jfs_remove_file, Idle
<1>2. rmResult(vol, path) \in {"no file", "died", "rm"}
  BY DEF rmResult
<1>3. QED  BY <1>1, <1>2

(* It keeps the invariant then.                                             *)
LEMMA RmStep ==
    ASSUME ~RmFull, VolumeInv, NEW path \in Path, jfs_remove_file(path)
    PROVE  VolumeInv' /\ KeepsFiles
<1> DEFINE dirs == KnownDirs(vol, rm)
           files == Named(vol, "file")
<1>1. Sound(vol, dirs, files) /\ rm = NoRm
  BY RmIs DEF VolumeInv
<1>2. result' \in {"no file", "died", "rm"}
  BY RmIs
<1> HIDE DEF dirs, files
<1>3. CASE result' = "rm"
  <2> DEFINE i == FoundEntry(vol, path).inode
  <2>1. vol' = Removed(vol, path) /\ rm' = ToResize(vol, path) /\ rmResult(vol, path) = "rm"
    BY <1>3, RmIs
  <2>2. /\ Sound(vol', dirs, files \ {i})
        /\ rm'.dir \in dirs /\ rm'.size \in Nat /\ EndBefore(vol', Ptr(vol', rm'.dir, 0), rm'.size)
        /\ SameFiles(vol, vol', files \ {i})
    BY <1>1, <2>1, RemoveSound
  <2> HIDE DEF i
  <2>3. /\ Sound(vol', KnownDirs(vol', rm'), Named(vol', "file"))
        /\ Named(vol', "file") \subseteq files \ {i}
    BY <2>2, SoundForNamed
  <2>4. VolumeOK(vol') /\ rm'.dir \in Inode
    BY <2>2 DEF Sound, InodesInv
  <2>5. rm' \in [dir : Inode \cup {None}, size : Nat]
    <3>1. rm' = [dir |-> rm'.dir, size |-> rm'.size]
      BY <2>1 DEF ToResize
    <3>2. QED  BY <2>2, <2>4, <3>1
  <2>6. SameFiles(vol, vol', Named(vol, "file") \cap Named(vol', "file"))
    BY <2>2, <2>3, SameFilesOfFewer
  <2>7. TypeOK' /\ ResizeInv(vol', rm')
    BY <1>3, <2>2, <2>4, <2>5 DEF TypeOK, ResizeInv
  <2>8. QED  BY <2>3, <2>6, <2>7 DEF VolumeInv, KeepsFiles
<1>4. CASE result' # "rm"
  <2>1. vol' = vol /\ rm' = NoRm
    BY <1>4, RmIs
  <2>2. QED  BY <1>1, <1>2, <2>1, SoundStep, SameFilesIsReflexive
<1>5. QED  BY <1>3, <1>4

(* So does the second.                                                      *)
LEMMA ResizeStep ==
    ASSUME VolumeInv, change_dir_size
    PROVE  VolumeInv' /\ KeepsFiles
<1> DEFINE dirs == KnownDirs(vol, rm)
           files == Named(vol, "file")
<1>1. Sound(vol, dirs, files) /\ rm' = NoRm /\ result' = "ok" /\ vol' = Resized(vol, rm)
  BY DEF VolumeInv, change_dir_size
<1>2. rm.dir \in dirs /\ rm.size \in Nat /\ EndBefore(vol, Ptr(vol, rm.dir, 0), rm.size)
  <2>1. rm.dir \in Inode /\ rm.size \in Nat /\ EndBefore(vol, Ptr(vol, rm.dir, 0), rm.size)
    BY DEF VolumeInv, TypeOK, ResizeInv, change_dir_size, Idle
  <2>2. rm.dir # None
    BY <2>1, InodeNumbers DEF None
  <2>3. QED  BY <2>1, <2>2 DEF KnownDirs
<1> HIDE DEF dirs, files
<1>3. Sound(vol', dirs, files) /\ SameFiles(vol, vol', files)
  BY <1>1, <1>2, ResizedSound
<1>4. SameFiles(vol, vol', Named(vol, "file") \cap files)
  BY <1>3, SameFilesOfFewer
<1>5. QED  BY <1>1, <1>3, <1>4, SoundStep

(* Every step keeps the invariant.                                          *)
LEMMA VolumeStep ==
    ASSUME ~RmFull
    PROVE  VolumeInv /\ [Next]_vars => VolumeInv' /\ KeepsFiles
<1> SUFFICES ASSUME VolumeInv, [Next]_vars PROVE VolumeInv' /\ KeepsFiles
  OBVIOUS
<1>1. CASE UNCHANGED vars
  <2>1. VolumeInv'
    BY <1>1 DEF vars, VolumeInv, TypeOK
  <2>2. KeepsFiles
    BY <1>1, SameFilesIsReflexive DEF vars, KeepsFiles
  <2>3. QED  BY <2>1, <2>2
<1>2. CASE \E path \in Path : mkdir(path)
  BY <1>2, MkdirStep
<1>3. CASE \E path \in Path, file \in File : copyin(path, file)
  BY <1>3, CopyinStep
<1>4. CASE \E path \in Path : jfs_remove_file(path)
  BY <1>4, RmStep
<1>5. CASE change_dir_size
  BY <1>5, ResizeStep
<1>6. CASE CrashBetweenCommits
  <2>1. vol' = vol /\ rm' = NoRm /\ result' = "crashed"
    BY <1>6 DEF CrashBetweenCommits
  <2>2. Sound(vol', KnownDirs(vol, rm), Named(vol, "file"))
    BY <2>1 DEF VolumeInv
  <2>3. QED  BY <2>1, <2>2, SoundStep, SameFilesIsReflexive
<1>7. QED  BY <1>1, <1>2, <1>3, <1>4, <1>5, <1>6 DEF Next

(* Inodes, blocks and entries have one place each and sizes cover them,     *)
(* whatever jfs_mkdir, jfs_copyin and jfs_rm have done in whatever order,   *)
(* as long as users remove no file that uses every block pointer.           *)
THEOREM VolumeStaysSound == ASSUME ~RmFull PROVE Spec => []VolumeInv
<1>1. VolumeInv /\ [Next]_vars => VolumeInv'
  BY VolumeStep
<1>2. QED  BY <1>1, VolumeInvInit, PTL DEF Spec

(* So what the tools leave on the volume has its types.                     *)
THEOREM VolumeTypes == ASSUME ~RmFull PROVE Spec => []TypeOK
<1>1. VolumeInv => TypeOK
  BY DEF VolumeInv
<1>2. QED  BY <1>1, VolumeStaysSound, PTL
=============================================================================
