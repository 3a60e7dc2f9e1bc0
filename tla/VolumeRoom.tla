----------------------------- MODULE VolumeRoom -----------------------------
(***************************************************************************)
(* Directories that have room for all names stay in order, and no walk     *)
(* reads garbage: proofs of TidyInv and of WalksStayInDirectory.           *)
(***************************************************************************)
EXTENDS VolumeWalks

(* Blocks are told apart by what they are for: what a block of a file holds *)
(* is not taken for the entries of a directory.                             *)
TextsAreNoDirectories ==
    \A entries \in SUBSET Nat : \A text \in Text : text \notin [entries -> Entries]

-----------------------------------------------------------------------------
(* Lengths.                                                                 *)

(* No name is longer than LongName.                                         *)
LEMMA LongNameIs ==
    LongName \in Nat \ {0} /\ \A name : NameLength(name) <= LongName
BY VolumeSizes DEF LongName, NameLength

(* A longer name takes a longer entry.                                      *)
LEMMA EntryLenIsMonotonic ==
    ASSUME NEW m \in Nat, NEW n \in Nat, m <= n
    PROVE  EntryLen(m) <= EntryLen(n)
<1>1. m \div 4 <= n \div 4
  OBVIOUS
<1>2. m \div 4 \in Nat /\ n \div 4 \in Nat
  OBVIOUS
<1>3. QED  BY <1>1, <1>2 DEF EntryLen

(* No entry is longer than LongEntry.                                       *)
LEMMA LongEntryIs ==
    ASSUME MaxDepth > 0
    PROVE  /\ LongEntry \in Nat \ {0}
           /\ \A name : EntryLen(NameLength(name)) <= LongEntry
           /\ \A path : Len(path) \in Nat \ {0} /\ Len(path) <= MaxDepth =>
                 EntryLen(PathLength(path)) <= LongEntry
<1> DEFINE L == LongName + 1
           longest == MaxDepth * L - 1
<1>1. L \in Nat \ {0} /\ L - 1 = LongName /\ MaxDepth \in Nat \ {0}
  BY LongNameIs, VolumeSizes
<1> HIDE DEF L
<1>2. ASSUME NEW n \in Nat \ {0}, n <= MaxDepth
      PROVE  n * L <= MaxDepth * L /\ n * L \in Nat /\ MaxDepth * L \in Nat
  <2>1. n * L \in Nat /\ (MaxDepth - n) * L \in Nat
    BY <1>1, <1>2
  <2>2. MaxDepth * L = n * L + (MaxDepth - n) * L
    BY <1>1
  <2>3. QED  BY <2>1, <2>2
<1>3. longest \in Nat /\ LongName <= longest
  <2>1. 1 * L <= MaxDepth * L /\ MaxDepth * L \in Nat
    BY <1>1, <1>2
  <2>2. 1 * L = L
    BY <1>1
  <2>3. QED  BY <1>1, <2>1, <2>2
<1>4. LongEntry = EntryLen(longest)
  BY DEF LongEntry, L
<1> HIDE DEF longest
<1>5. \A name : EntryLen(NameLength(name)) <= LongEntry
  <2> TAKE name
  <2>1. NameLength(name) \in Nat /\ NameLength(name) <= longest
    BY <1>3, LongNameIs, NameLengthIsNat
  <2>2. QED  BY <1>3, <1>4, <2>1, EntryLenIsMonotonic
<1>6. ASSUME NEW path, Len(path) \in Nat \ {0}, Len(path) <= MaxDepth
      PROVE  EntryLen(PathLength(path)) <= LongEntry
  <2>1. PathLength(path) \in Nat /\ PathLength(path) <= Len(path) * L - 1
    BY <1>6, LongNameIs, PathLengthIsNat DEF L
  <2>2. PathLength(path) <= longest
    <3>1. Len(path) * L <= MaxDepth * L /\ Len(path) * L \in Nat /\ MaxDepth * L \in Nat
      BY <1>2, <1>6
    <3>2. QED  BY <2>1, <3>1 DEF longest
  <2>3. QED  BY <1>3, <1>4, <2>1, <2>2, EntryLenIsMonotonic
<1>7. QED  BY <1>3, <1>4, <1>5, <1>6, EntryLenIsNat

-----------------------------------------------------------------------------
(* How many bytes entries can fill.                                         *)

(* Entries of different names fill no more bytes than there are names, each *)
(* with the longest entry: a byte is told from the others by the name of    *)
(* the entry that fills it and its place there.                             *)
LEMMA FillsAtMost ==
    ASSUME NEW dir, NEW size \in Nat, Fills(dir, size),
           \A o \in DOMAIN dir : o \in Nat,
           NEW N, IsFiniteSet(N), \A o \in DOMAIN dir : dir[o].name \in N,
           \A o \in DOMAIN dir, p \in DOMAIN dir : dir[o].name = dir[p].name => o = p,
           NEW M \in Nat, \A o \in DOMAIN dir : dir[o].entry_len \in Nat /\ dir[o].entry_len <= M
    PROVE  size <= Cardinality(N) * M
<1> DEFINE B == 0 .. size - 1
           at(n) == CHOOSE o \in DOMAIN dir : o <= n /\ n < o + dir[o].entry_len
           T == N \X (0 .. M - 1)
           f == [n \in B |-> <<dir[at(n)].name, n - at(n)>>]
<1>1. ASSUME NEW n \in B
      PROVE  at(n) \in DOMAIN dir /\ at(n) <= n /\ n < at(n) + dir[at(n)].entry_len
  BY <1>1 DEF Fills
<1> HIDE DEF at
<1>2. f \in [B -> T]
  <2>1. ASSUME NEW n \in B
        PROVE  dir[at(n)].name \in N /\ n - at(n) \in 0 .. M - 1
    BY <1>1
  <2>2. QED  BY <2>1
<1>3. \A m \in B, n \in B : f[m] = f[n] => m = n
  <2> SUFFICES ASSUME NEW m \in B, NEW n \in B, f[m] = f[n]
               PROVE  m = n
    OBVIOUS
  <2>1. dir[at(m)].name = dir[at(n)].name /\ m - at(m) = n - at(n)
    OBVIOUS
  <2>2. at(m) = at(n)
    BY <1>1, <2>1
  <2>3. at(m) \in Nat
    BY <1>1
  <2>4. QED  BY <2>1, <2>2, <2>3
<1>4. f \in Injection(B, T)
  <2> HIDE DEF f, T, B
  <2>1. DOMAIN f = B
    BY <1>2
  <2>2. QED  BY <1>2, <1>3, <2>1 DEF Injection, IsInjective
<1>5. IsFiniteSet(0 .. M - 1) /\ Cardinality(0 .. M - 1) = M
  BY FS_Interval
<1>6. Cardinality(B) = size
  BY FS_Interval
<1>7. IsFiniteSet(T) /\ Cardinality(T) = Cardinality(N) * M
  BY <1>5, FS_Product
<1> HIDE DEF T, f, B
<1>8. Cardinality(B) <= Cardinality(T)
  BY <1>4, <1>7, FS_Injection
<1>9. QED  BY <1>6, <1>7, <1>8

-----------------------------------------------------------------------------
(* Packed directories.                                                      *)

(* Entries of different names fill a directory up to a size.                *)
Packed(v, d, size) ==
    LET dir == Dirents(v, Ptr(v, d, 0))
    IN  /\ Filled(v, d, size)
        /\ \A o \in DOMAIN dir : dir[o].entry_len <= LongEntry
        /\ \A o \in DOMAIN dir, p \in DOMAIN dir : dir[o].name = dir[p].name => o = p

HasName(v, d, name) ==
    \E o \in DOMAIN Dirents(v, Ptr(v, d, 0)) : Dirents(v, Ptr(v, d, 0))[o].name = name

(* A tidy directory is packed and has the entry . .                         *)
LEMMA TidyIs ==
    ASSUME NEW v, NEW r, NEW d
    PROVE  Tidy(v, r, d) <=> Packed(v, d, EndOf(v, r, d)) /\ HasName(v, d, ".")
BY DEF Tidy, Packed, HasName

(* A directory has the same block, size and entries in w as in v.           *)
SameDir(v, w, d) ==
    /\ Ptr(w, d, 0) = Ptr(v, d, 0) /\ Size(w, d) = Size(v, d)
    /\ Dirents(w, Ptr(v, d, 0)) = Dirents(v, Ptr(v, d, 0))

(* Then it is packed and has a name in w as it does in v.                   *)
LEMMA SameDirIs ==
    ASSUME NEW v, NEW w, NEW d, SameDir(v, w, d)
    PROVE  /\ \A size : Packed(w, d, size) <=> Packed(v, d, size)
           /\ \A name : HasName(w, d, name) <=> HasName(v, d, name)
BY SamePlaces DEF SameDir, Packed, HasName

(* One element more makes a set one larger, if at all.                      *)
LEMMA OneMore ==
    ASSUME NEW S, IsFiniteSet(S), NEW x
    PROVE  /\ IsFiniteSet(S \cup {x}) /\ Cardinality(S \cup {x}) <= Cardinality(S) + 1
           /\ Cardinality(S) \in Nat /\ Cardinality(S \cup {x}) \in Nat
<1>1. Cardinality(S) \in Nat
  BY FS_CardinalityType
<1>2. /\ IsFiniteSet(S \cup {x})
      /\ Cardinality(S \cup {x}) = IF x \in S THEN Cardinality(S) ELSE Cardinality(S) + 1
  BY FS_AddElement
<1>3. QED  BY <1>1, <1>2

(* There are not more names than those of the users and three more.         *)
LEMMA NamesAreFinite ==
    ASSUME IsFiniteSet(Name), NEW name \in Name \cup {".", "..", ".log"}
    PROVE  LET others == (Name \cup {".", "..", ".log"}) \ {name}
           IN  /\ IsFiniteSet(others) /\ Cardinality(others) <= Cardinality(Name) + 2
               /\ Cardinality(others) \in Nat /\ Cardinality(Name) \in Nat
<1> DEFINE A == Name \cup {"."}
           B == A \cup {".."}
           C == B \cup {".log"}
<1>1. /\ IsFiniteSet(A) /\ Cardinality(A) <= Cardinality(Name) + 1
      /\ Cardinality(Name) \in Nat /\ Cardinality(A) \in Nat
  BY OneMore
<1> HIDE DEF A
<1>2. IsFiniteSet(B) /\ Cardinality(B) <= Cardinality(A) + 1 /\ Cardinality(B) \in Nat
  <2> DEFINE S == A \cup {".."}
  <2>1. IsFiniteSet(S) /\ Cardinality(S) <= Cardinality(A) + 1 /\ Cardinality(S) \in Nat
    BY <1>1, OneMore
  <2>2. QED  BY <2>1
<1> HIDE DEF B
<1>3. IsFiniteSet(C) /\ Cardinality(C) <= Cardinality(B) + 1 /\ Cardinality(C) \in Nat
  BY <1>2, OneMore
<1>4. C = Name \cup {".", "..", ".log"}
  BY DEF A, B
<1> HIDE DEF C
<1>5. IsFiniteSet(C \ {name}) /\ Cardinality(C \ {name}) = Cardinality(C) - 1
  BY <1>3, <1>4, FS_RemoveElement
<1>6. Cardinality(C \ {name}) \in Nat
  BY <1>5, FS_CardinalityType
<1>7. QED  BY <1>1, <1>2, <1>3, <1>4, <1>5, <1>6

(* An entry with a new name fits into a packed directory.                   *)
LEMMA NewEntryFits ==
    ASSUME HasRoom, NEW v, NEW dirs, NEW files, Sound(v, dirs, files),
           NEW d \in dirs, Packed(v, d, Size(v, d)),
           NEW e \in Entries, ~HasName(v, d, e.name)
    PROVE  Fits(Size(v, d), e)
<1> DEFINE dir == Dirents(v, Ptr(v, d, 0))
           size == Size(v, d)
           N == (Name \cup {".", "..", ".log"}) \ {e.name}
<1>1. Ptr(v, d, 0) \in Block /\ size \in Nat
  BY DirIs DEF Sound, DirInv
<1>2. \A o \in DOMAIN dir : /\ o \in Nat /\ dir[o].name \in Name \cup {".", "..", ".log"}
                            /\ dir[o].entry_len \in Nat
  BY <1>1, EntryFacts
<1>3. /\ IsFiniteSet(N) /\ Cardinality(N) <= Cardinality(Name) + 2
      /\ Cardinality(N) \in Nat /\ Cardinality(Name) \in Nat
  <2>1. e.name \in Name \cup {".", "..", ".log"}
    BY DEF Entries
  <2>2. QED  BY <2>1, NamesAreFinite DEF HasRoom
<1>4. \A o \in DOMAIN dir : dir[o].name # e.name
  BY DEF HasName
<1>5. LongEntry \in Nat
  BY LongEntryIs DEF HasRoom
<1>6. size <= Cardinality(N) * LongEntry
  <2>1. /\ Fills(dir, size)
        /\ \A o \in DOMAIN dir : dir[o].entry_len <= LongEntry
        /\ \A o \in DOMAIN dir, p \in DOMAIN dir : dir[o].name = dir[p].name => o = p
    BY DEF Packed, Filled
  <2>2. \A o \in DOMAIN dir : dir[o].name \in N
    BY <1>2, <1>4
  <2> HIDE DEF dir, size, N
  <2>3. QED  BY <1>1, <1>2, <1>3, <1>5, <2>1, <2>2, FillsAtMost
<1>7. Cardinality(N) * LongEntry <= (Cardinality(Name) + 2) * LongEntry
      /\ Cardinality(N) * LongEntry \in Nat /\ (Cardinality(Name) + 2) * LongEntry \in Nat
  <2> DEFINE a == Cardinality(N)
             c == Cardinality(Name) + 2
  <2>1. a \in Nat /\ c \in Nat /\ a <= c
    BY <1>3
  <2> HIDE DEF a, c
  <2>2. (c - a) * LongEntry \in Nat /\ a * LongEntry \in Nat
    BY <1>5, <2>1
  <2>3. c * LongEntry = a * LongEntry + (c - a) * LongEntry
    BY <1>5, <2>1
  <2>4. a * LongEntry <= c * LongEntry /\ a * LongEntry \in Nat /\ c * LongEntry \in Nat
    BY <2>2, <2>3
  <2>5. QED  BY <2>4 DEF a, c
<1> DEFINE most == (Cardinality(Name) + 2) * LongEntry
<1>8. most \in Nat /\ size <= most
  BY <1>1, <1>6, <1>7
<1>9. most + DirentSize + LongName + 1 <= BlockSize
  BY DEF HasRoom
<1>10. NameLength(e.name) <= LongName /\ NameLength(e.name) \in Nat /\ LongName \in Nat
  BY LongNameIs, NameLengthIsNat
<1> HIDE DEF most, size
<1>11. size + DirentSize + NameLength(e.name) + 1 <= BlockSize
  BY <1>1, <1>8, <1>9, <1>10, VolumeSizes DEF DirentSize
<1>12. QED  BY <1>11 DEF Fits, size

(* An entry that fits is there, behind the others, when it has been added.  *)
LEMMA FittingIsAdded ==
    ASSUME TextsAreNoDirectories, NEW v, NEW dirs, NEW files, Sound(v, dirs, files),
           NEW d \in dirs, NEW e \in Entries, Fits(Size(v, d), e)
    PROVE  LET b == Ptr(v, d, 0)
           IN  Dirents(AddEntry(v, d, e), b) = WithEntry(Dirents(v, b), Size(v, d), e)
<1> DEFINE b == Ptr(v, d, 0)
           k == Size(v, d)
           new == WithEntry(Dirents(v, b), k, e)
<1>1. /\ v = [block_bitmap |-> v.block_bitmap, inode_bitmap |-> v.inode_bitmap,
              inode |-> v.inode, data |-> v.data]
      /\ v.data = [c \in Block |-> v.data[c]]
      /\ \A c \in Block : \A o \in DOMAIN Dirents(v, c) :
            o \in 0 .. BlockSize - DirentSize /\ Dirents(v, c)[o] \in Entries
  BY VolumeOKIs DEF Sound
<1>2. b \in Block /\ k \in Nat
  BY DirIs DEF Sound, DirInv
<1>3. AddEntry(v, d, e).data[b] = WithEntry(AsDir(v.data[b]), k, e)
  <2> DEFINE x == create_dirent(v, b, k, e)
             dat == [v.data EXCEPT ![b] = WithEntry(AsDir(@), k, e)]
  <2>1. x = [block_bitmap |-> v.block_bitmap, inode_bitmap |-> v.inode_bitmap,
             inode |-> v.inode, data |-> dat]
    <3>1. v = [block_bitmap |-> v.block_bitmap, inode_bitmap |-> v.inode_bitmap,
               inode |-> v.inode, data |-> v.data]
      BY <1>1
    <3> HIDE DEF b
    <3>2. QED  BY <3>1 DEF create_dirent
  <2>2. AddEntry(v, d, e) = [x EXCEPT !.inode[d].size = @ + e.entry_len]
    BY DEF AddEntry, Ptr, Size
  <2>3. dat[b] = WithEntry(AsDir(v.data[b]), k, e)
    BY <1>1, <1>2
  <2> HIDE DEF x, dat
  <2>4. AddEntry(v, d, e).data = dat
    BY <2>1, <2>2
  <2>5. QED  BY <2>3, <2>4
<1>4. AddEntry(v, d, e).data[b] = new
  BY <1>3 DEF Dirents
<1>5. new \in [DOMAIN Dirents(v, b) \cup {k} -> Entries]
  BY <1>1, <1>2 DEF WithEntry
<1>6. DOMAIN Dirents(v, b) \cup {k} \in SUBSET Nat
  BY <1>1, <1>2
<1> HIDE DEF new, k, b
<1>7. new \notin Text
  BY <1>5, <1>6 DEF TextsAreNoDirectories
<1>8. QED  BY <1>4, <1>7 DEF Dirents, AsDir, new, k, b

(* A packed directory is packed when an entry with a new name was added,    *)
(* and the other directories are the same.                                  *)
LEMMA AddPacked ==
    ASSUME TextsAreNoDirectories, HasRoom,
           NEW v, NEW dirs, NEW files, Sound(v, dirs, files),
           NEW d \in dirs, Packed(v, d, Size(v, d)),
           NEW e \in Entries, ~HasName(v, d, e.name), e.entry_len <= LongEntry
    PROVE  LET w == AddEntry(v, d, e)
           IN  /\ Packed(w, d, Size(w, d))
               /\ \A name : HasName(w, d, name) <=> HasName(v, d, name) \/ name = e.name
               /\ \A c \in dirs : c # d => SameDir(v, w, c)
<1> DEFINE b == Ptr(v, d, 0)
           k == Size(v, d)
           old == Dirents(v, b)
           w == AddEntry(v, d, e)
           new == Dirents(w, b)
<1>1. \A c \in dirs : c \in Inode /\ Ptr(v, c, 0) \in Block /\ 0 \in 0 .. Ptrs - 1
  BY DirIs, VolumeSizes
<1>2. k \in Nat /\ \A o \in DOMAIN old : o + old[o].entry_len <= k
  BY DEF Sound, DirInv, EndBefore
<1>3. \A o \in DOMAIN old : o \in Nat /\ old[o].entry_len \in Nat \ {0}
  BY <1>1, EntryFacts
<1>4. e.entry_len \in Nat
  BY DEF Entries
<1>5. Added(v, w, d, e)
  BY <1>1, <1>2, AddEntryIs DEF Sound
<1>6. Ptr(w, d, 0) = b /\ Size(w, d) = k + e.entry_len
  BY <1>1, <1>5 DEF Added
<1>7. new = WithEntry(old, k, e)
  BY NewEntryFits, FittingIsAdded
<1>8. \A c \in dirs : c # d => SameDir(v, w, c)
  <2> SUFFICES ASSUME NEW c \in dirs, c # d PROVE SameDir(v, w, c)
    OBVIOUS
  <2>1. Ptr(v, c, 0) # b
    BY DirsApart
  <2>2. QED  BY <1>1, <1>5, <2>1 DEF Added, SameDir, Dirents
<1>9. Fills(old, k) /\ \A o \in DOMAIN old : old[o].entry_len <= LongEntry
      /\ \A p \in DOMAIN old : old[o].name = old[p].name => o = p
  BY DEF Packed, Filled
<1>10. \A o \in DOMAIN old : old[o].name # e.name
  BY DEF HasName
<1> HIDE DEF w, old, k, b
<1>11. /\ DOMAIN new = DOMAIN old \cup {k}
       /\ new[k] = e /\ \A o \in DOMAIN old : o # k /\ new[o] = old[o]
  <2>1. \A o \in DOMAIN old : o # k
    BY <1>2, <1>3
  <2> HIDE DEF new
  <2>2. QED  BY <1>7, <2>1 DEF WithEntry
<1> HIDE DEF new
<1>12. Fills(new, k + e.entry_len)
  <2> SUFFICES ASSUME NEW n \in 0 .. (k + e.entry_len) - 1
               PROVE  \E o \in DOMAIN new : o <= n /\ n < o + new[o].entry_len
    BY DEF Fills
  <2>1. CASE n < k
    <3>1. n \in 0 .. k - 1
      BY <1>2, <2>1
    <3>2. PICK o \in DOMAIN old : o <= n /\ n < o + old[o].entry_len
      BY <1>9, <3>1 DEF Fills
    <3>3. QED  BY <1>11, <3>2
  <2>2. CASE ~(n < k)
    BY <1>2, <1>4, <1>11, <2>2
  <2>3. QED  BY <2>1, <2>2
<1>13. Packed(w, d, Size(w, d))
  <2>1. Filled(w, d, k + e.entry_len)
    BY <1>6, <1>12 DEF Filled, new
  <2>2. QED  BY <1>6, <1>9, <1>10, <1>11, <2>1 DEF Packed, new
<1>14. \A name : HasName(w, d, name) <=> HasName(v, d, name) \/ name = e.name
  BY <1>6, <1>11 DEF HasName, new, old, b
<1>15. QED  BY <1>8, <1>13, <1>14 DEF w

-----------------------------------------------------------------------------
(* Walks and searches.                                                      *)

Orderly(v, d) == Packed(v, d, Size(v, d)) /\ HasName(v, d, ".")

(* A walk through an orderly directory reads its entries and nothing else.  *)
LEMMA OrderlyWalk ==
    ASSUME NEW v, NEW dirs, NEW files, Sound(v, dirs, files),
           NEW d \in dirs, Orderly(v, d)
    PROVE  /\ Walked(v, d) = DOMAIN Dirents(v, Ptr(v, d, 0))
           /\ \A k \in Walked(v, d) : Entry(v, d, k).type # "junk"
<1> DEFINE b == Ptr(v, d, 0)
           dir == Dirents(v, b)
           size == Size(v, d)
<1>1. b \in Block /\ Dir(v, d) = dir /\ Walkable(Dir(v, d))
  BY DirIs
<1>2. size \in Nat /\ \A o \in DOMAIN dir : o + dir[o].entry_len <= size
  BY DEF Sound, DirInv, EndBefore
<1>3. \A o \in DOMAIN dir : /\ o \in Nat /\ dir[o].entry_len \in Nat \ {0}
                            /\ dir[o].type \in {"dir", "file"}
  BY <1>1, EntryFacts
<1>4. \A o \in DOMAIN dir, p \in DOMAIN dir : o < p => o + dir[o].entry_len <= p
  BY <1>1 DEF Sound, EntriesInv
<1>5. Fills(dir, size) /\ DOMAIN dir # {}
  BY DEF Orderly, Packed, Filled, HasName
<1>6. \A k \in DOMAIN dir : Entry(v, d, k) = dir[k]
  BY <1>1 DEF Entry, EntryAt
<1> HIDE DEF dir, size, b
<1>7. WalksOn(dir, size, 0, DOMAIN dir)
  <2>1. 0 \in DOMAIN dir
    <3>1. 0 \in 0 .. size - 1
      BY <1>2, <1>3, <1>5
    <3>2. PICK o \in DOMAIN dir : o <= 0 /\ 0 < o + dir[o].entry_len
      BY <1>5, <3>1 DEF Fills
    <3>3. QED  BY <1>3, <3>2
  <2>2. ASSUME NEW j \in DOMAIN dir, ~(j + EntryAt(dir, j).entry_len >= size)
        PROVE  j + EntryAt(dir, j).entry_len \in DOMAIN dir
    <3> DEFINE next == j + dir[j].entry_len
    <3>1. next \in 0 .. size - 1 /\ j < next
      BY <1>2, <1>3, <2>2 DEF EntryAt
    <3> HIDE DEF next
    <3>2. PICK p \in DOMAIN dir : p <= next /\ next < p + dir[p].entry_len
      BY <1>5, <3>1 DEF Fills
    <3>3. p \in Nat /\ j \in Nat /\ (j < p => next <= p) /\ (p < j => p + dir[p].entry_len <= j)
      BY <1>3, <1>4 DEF next
    <3>4. j = p => next < next
      BY <3>2 DEF next
    <3>5. next = p
      BY <1>3, <3>1, <3>2, <3>3, <3>4
    <3>6. QED  BY <3>5 DEF next, EntryAt
  <2>3. QED  BY <1>3, <2>1, <2>2 DEF WalksOn
<1>8. Walked(v, d) \subseteq DOMAIN dir
  BY <1>1, <1>7, WalkedIs DEF size
<1>9. \A k \in Walked(v, d) : Entry(v, d, k).type # "junk"
  BY <1>3, <1>6, <1>8
<1>10. DOMAIN dir \subseteq Walked(v, d)
  BY <1>9, SafeWalk DEF dir, b
<1>11. QED  BY <1>8, <1>9, <1>10 DEF dir, b

(* A search in it finds every name that is there.                           *)
LEMMA NotFoundIsNew ==
    ASSUME NEW v, NEW dirs, NEW files, Sound(v, dirs, files),
           NEW d \in dirs, Orderly(v, d),
           NEW name, Lookup(v, d, name).type \notin {"dir", "file"}
    PROVE  ~HasName(v, d, name)
<1> SUFFICES ASSUME HasName(v, d, name) PROVE FALSE
  OBVIOUS
<1> DEFINE dir == Dirents(v, Ptr(v, d, 0))
           stops == {k \in Walked(v, d) : k \notin DOMAIN Dir(v, d) \/ Dir(v, d)[k].name = name}
           k == StopsAt(v, d, name)
<1>1. Ptr(v, d, 0) \in Block /\ Dir(v, d) = dir
  BY DirIs
<1>2. Walked(v, d) = DOMAIN dir
  BY OrderlyWalk
<1>3. \A o \in DOMAIN dir : o \in Nat /\ dir[o].type \in {"dir", "file"}
  BY <1>1, EntryFacts
<1>4. k = Lowest(stops)
  BY DEF StopsAt
<1>5. stops \in SUBSET Nat /\ stops # {} /\ stops \subseteq DOMAIN dir
  BY <1>1, <1>2, <1>3 DEF HasName
<1>6. k \in DOMAIN dir /\ k # None
  <2> HIDE DEF stops, k, dir
  <2>1. k \in stops
    BY <1>4, <1>5, LowestIs
  <2>2. QED  BY <1>3, <1>5, <2>1 DEF None
<1>7. Lookup(v, d, name) = dir[k]
  BY <1>1, <1>6 DEF Lookup, Entry, EntryAt
<1> HIDE DEF k, dir
<1>8. QED  BY <1>3, <1>6, <1>7

-----------------------------------------------------------------------------
(* New directories and files.                                               *)

(* An orderly directory stays so when a directory is entered under a new    *)
(* name, and one without entries gets them.                                 *)
LEMMA AddDirPacked ==
    ASSUME TextsAreNoDirectories, HasRoom,
           NEW v, NEW dirs, NEW files, Sound(v, dirs, files),
           NEW d, NEW name, NEW i, DirEntryOK(v, dirs, d, name, i),
           Packed(v, d, Size(v, d)), ~HasName(v, d, name)
    PROVE  LET w == AddDir(v, d, name, i)
           IN  /\ Sound(w, dirs, files)
               /\ Packed(w, d, Size(w, d))
               /\ \A other : HasName(w, d, other) <=> HasName(v, d, other) \/ other = name
               /\ \A c \in dirs : c # d => SameDir(v, w, c)
<1> DEFINE e == Dirent(name, "dir", i, EntryLen(NameLength(name)))
           w == AddDir(v, d, name, i)
<1>1. d \in dirs /\ i \in Inode /\ name \in Name \cup {".", "..", ".log"}
  BY DEF DirEntryOK, Sound, InodesInv
<1>2. e.name = name /\ w = AddEntry(v, d, e)
  BY DEF Dirent, AddDir
<1>3. EntryLen(NameLength(name)) \in Nat /\ EntryLen(NameLength(name)) <= LongEntry
  BY NameLengthIsNat, EntryLenIsNat, LongEntryIs DEF HasRoom
<1>4. e \in Entries /\ e.entry_len <= LongEntry
  BY <1>1, <1>3 DEF Dirent, Entries
<1>5. Sound(w, dirs, files)
  BY AddDirSound
<1> HIDE DEF e, w
<1>6. QED  BY <1>1, <1>2, <1>4, <1>5, AddPacked DEF w

(* Other directories do not change when new inodes and blocks are taken.    *)
LEMMA GrownSameDirs ==
    ASSUME NEW v, NEW w, NEW dirs, NEW files, NEW i, Sound(v, dirs, files), Grown(v, w, i)
    PROVE  \A c \in dirs : SameDir(v, w, c)
<1> TAKE c \in dirs
<1>1. 0 \in 0 .. Ptrs - 1 /\ Owns(v, dirs, files, c, 0)
  BY VolumeSizes DEF Owns
<1>2. /\ Size(w, c) = Size(v, c) /\ Ptr(w, c, 0) = Ptr(v, c, 0)
      /\ w.data[Ptr(v, c, 0)] = v.data[Ptr(v, c, 0)]
  BY <1>1, GrownKeeps
<1>3. QED  BY <1>2 DEF SameDir, Dirents

(* A directory without entries is packed.                                   *)
LEMMA EmptyIsPacked ==
    ASSUME NEW v, NEW d, Size(v, d) = 0, DOMAIN Dirents(v, Ptr(v, d, 0)) = {}
    PROVE  Packed(v, d, Size(v, d)) /\ \A name : ~HasName(v, d, name)
BY DEF Packed, HasName, Filled, Fills

(* The directories of dirs are orderly.                                     *)
AllOrderly(v, dirs) == \A d \in dirs : Orderly(v, d)

(* One that is the same as before still is.                                 *)
LEMMA SameIsOrderly ==
    ASSUME NEW v, NEW w, NEW d, Orderly(v, d), SameDir(v, w, d)
    PROVE  Orderly(w, d)
BY SameDirIs DEF Orderly, SameDir

(* jfs_mkdir leaves the directories orderly, if the name is new.            *)
LEMMA NewDirOrderly ==
    ASSUME TextsAreNoDirectories, HasRoom,
           NEW v, NEW dirs, NEW files, Sound(v, dirs, files), AllOrderly(v, dirs),
           NEW d \in dirs, NEW name \in Name, ~HasName(v, d, name),
           NEW i \in Inode, ~InodeUsed(v, i), NEW b \in Block, ~BlockUsed(v, b)
    PROVE  AllOrderly(mk_new_directory(v, d, name, i, b), dirs \cup {i})
<1> DEFINE x == EmptyDir(v, i, b)
           y == AddDir(x, d, name, i)
           z == AddDir(y, i, ".", i)
           w == AddDir(z, i, "..", d)
           dirs2 == dirs \cup {i}
<1>1. /\ Grown(v, x, i) /\ Size(x, i) = 0 /\ Ptr(x, i, 0) = b
      /\ \A c \in Block : NewBlock(v, x, c) <=> c = b
  BY NewDirGrows
<1>2. mk_new_directory(v, d, name, i, b) = w
  BY DEF mk_new_directory, EmptyDir
<1> HIDE DEF x
<1>3. Sound(x, dirs2, files)
  BY <1>1, EmptyDirSound
<1>4. /\ i \notin dirs /\ Root \in dirs
      /\ \A c \in Block : \A p \in DOMAIN Dirents(x, c) : Dirents(x, c)[p].inode # i
  BY <1>1, GrownKeeps DEF Sound, InodesInv
<1>5. \A c \in dirs : Orderly(x, c)
  BY <1>1, GrownSameDirs, SameIsOrderly DEF AllOrderly
<1>6. ~HasName(x, d, name)
  BY <1>1, GrownSameDirs, SameDirIs
<1>7. Packed(x, i, Size(x, i)) /\ \A other : ~HasName(x, i, other)
  BY <1>1, EmptyIsPacked DEF Grown
<1>8. name \notin {".", ".."} /\ d \in dirs2 /\ i \in dirs2 /\ d # i /\ i # Root
  BY <1>4, VolumeAssumption
<1> HIDE DEF dirs2
<1>9. /\ Sound(y, dirs2, files) /\ Packed(y, d, Size(y, d)) /\ HasName(y, d, ".")
      /\ \A c \in dirs2 : c # d => SameDir(x, y, c)
  <2>1. DirEntryOK(x, dirs2, d, name, i)
    BY <1>4, <1>8 DEF DirEntryOK
  <2>2. Packed(x, d, Size(x, d)) /\ HasName(x, d, ".")
    BY <1>5 DEF Orderly
  <2>3. QED  BY <1>3, <1>6, <2>1, <2>2, AddDirPacked
<1> HIDE DEF y
<1>10. Packed(y, i, Size(y, i)) /\ \A other : ~HasName(y, i, other)
  BY <1>7, <1>8, <1>9, SameDirIs DEF SameDir
<1>11. /\ Sound(z, dirs2, files) /\ Packed(z, i, Size(z, i))
       /\ \A other : HasName(z, i, other) <=> other = "."
       /\ \A c \in dirs2 : c # i => SameDir(y, z, c)
  <2>1. DirEntryOK(y, dirs2, i, ".", i)
    BY <1>8 DEF DirEntryOK
  <2>2. QED  BY <1>9, <1>10, <2>1, AddDirPacked
<1> HIDE DEF z
<1>12. /\ Packed(w, i, Size(w, i)) /\ HasName(w, i, ".")
       /\ \A c \in dirs2 : c # i => SameDir(z, w, c)
  <2>1. DirEntryOK(z, dirs2, i, "..", d)
    BY <1>8 DEF DirEntryOK
  <2>2. ~HasName(z, i, "..") /\ HasName(z, i, ".")
    BY <1>11
  <2>3. QED  BY <1>11, <2>1, <2>2, AddDirPacked
<1> HIDE DEF w
<1>13. ASSUME NEW c \in dirs2
       PROVE  Orderly(w, c)
  <2>1. CASE c = i
    BY <1>12, <2>1 DEF Orderly
  <2>2. CASE c # i
    <3>1. Orderly(y, c)
      <4>1. CASE c = d
        BY <1>9, <4>1 DEF Orderly
      <4>2. CASE c # d
        BY <1>5, <1>9, <2>2, <4>2, SameIsOrderly DEF dirs2
      <4>3. QED  BY <4>1, <4>2
    <3>2. QED  BY <1>11, <1>12, <2>2, <3>1, SameIsOrderly
  <2>3. QED  BY <2>1, <2>2
<1>14. QED  BY <1>2, <1>13 DEF AllOrderly, dirs2

(* So does a new file under a name that is new.                             *)
LEMMA NewFileOrderly ==
    ASSUME TextsAreNoDirectories, HasRoom,
           NEW v, NEW dirs, NEW files, Sound(v, dirs, files), AllOrderly(v, dirs),
           NEW d \in dirs, NEW path, Len(path) \in Nat \ {0}, Last(path) \in Name \cup {".log"},
           EntryLen(PathLength(path)) <= LongEntry, ~HasName(v, d, Last(path)),
           NEW i \in Inode, ~InodeUsed(v, i),
           NEW file \in Seq(Text), Len(file) <= Ptrs, ~Store(set_inode_used(v, i), file).full
    PROVE  AllOrderly(PutFile(v, d, path, i, file), dirs)
<1> DEFINE w == PutFile(v, d, path, i, file)
           files2 == files \cup {i}
<1>1. PICK x, e : FilePut(v, w, dirs, files2, d, path, i, x, e)
  BY PutFileIs
<1> HIDE DEF w, files2
<1>2. e \in Entries /\ e.entry_len <= LongEntry
  BY <1>1 DEF FilePut, Addable
<1>3. \A c \in dirs : Orderly(x, c)
  BY <1>1, GrownSameDirs, SameIsOrderly DEF FilePut, AllOrderly
<1>4. ~HasName(x, d, e.name)
  BY <1>1, GrownSameDirs, SameDirIs DEF FilePut
<1>5. Packed(x, d, Size(x, d)) /\ HasName(x, d, ".")
  BY <1>3 DEF Orderly
<1>6. /\ Packed(w, d, Size(w, d)) /\ HasName(w, d, ".")
      /\ \A c \in dirs : c # d => SameDir(x, w, c)
  BY <1>1, <1>2, <1>4, <1>5, AddPacked DEF FilePut
<1>7. \A c \in dirs : Orderly(w, c)
  BY <1>3, <1>6, SameIsOrderly DEF Orderly
<1>8. QED  BY <1>7 DEF AllOrderly, w

-----------------------------------------------------------------------------
(* jfs_rm.                                                                  *)

(* An entry before the one that is cut stays where it is, one behind it     *)
(* moves down.                                                              *)
LEMMA CutEntryKeeps ==
    ASSUME NEW dir, NEW k \in Nat, \A o \in DOMAIN dir : o \in Nat,
           NEW len \in Nat \ {0}, dir[k].entry_len = len,
           NEW q \in DOMAIN dir
    PROVE  LET cut == CutEntry(dir, k)
           IN  /\ q < k => q \in DOMAIN cut /\ cut[q] = dir[q]
               /\ q >= k + len => q - len \in DOMAIN cut /\ cut[q - len] = dir[q]
<1> DEFINE before == {o \in DOMAIN dir : o < k}
           behind == {o \in DOMAIN dir : o >= k + len}
           D == before \cup {n - len : n \in behind}
           cut == [o \in D |-> IF o < k THEN dir[o] ELSE dir[o + len]]
<1>1. CutEntry(dir, k) = cut
  BY DEF CutEntry
<1>2. ASSUME q < k
      PROVE  q \in DOMAIN cut /\ cut[q] = dir[q]
  BY <1>2
<1>3. ASSUME q >= k + len
      PROVE  q - len \in DOMAIN cut /\ cut[q - len] = dir[q]
  <2>1. q - len \in D /\ ~(q - len < k) /\ (q - len) + len = q
    BY <1>3
  <2> HIDE DEF D
  <2>2. QED  BY <2>1
<1>4. QED  BY <1>1, <1>2, <1>3

(* RemoveFile cuts the entry out of the block of the directory.             *)
LEMMA RemoveFileCuts ==
    ASSUME TextsAreNoDirectories, NEW v, NEW dirs, NEW files, Sound(v, dirs, files),
           NEW d \in dirs, NEW k \in DOMAIN Dirents(v, Ptr(v, d, 0)), NEW i \in files
    PROVE  LET b == Ptr(v, d, 0)
           IN  Dirents(RemoveFile(v, d, k, i), b) = CutEntry(Dirents(v, b), k)
<1> DEFINE b == Ptr(v, d, 0)
           x == Freed(v, i)
           w == RemoveFile(v, d, k, i)
           dir == Dirents(v, b)
           cut == CutEntry(dir, k)
<1>1. IsVolume(v) /\ i \in Inode /\ b \in Block /\ v.data = [c \in Block |-> v.data[c]]
  BY DirIs DEF Sound, VolumeOK, InodesInv
<1>2. IsVolume(x) /\ x.data = v.data
  <2>1. /\ Len(BlocksOf(v, i)) \in Nat
        /\ \A n \in 1 .. Len(BlocksOf(v, i)) : BlocksOf(v, i)[n] \in Block
    BY BlocksOfFile DEF Sound, FileInv
  <2>2. QED  BY <1>1, <2>1, FreedSound
<1>3. /\ k \in Nat
      /\ \A o \in DOMAIN dir : /\ o \in Nat /\ dir[o] \in Entries
                               /\ dir[o].entry_len \in Nat \ {0}
  BY <1>1, EntryFacts
<1> HIDE DEF x
<1>4. w.data[b] = cut
  <2>1. w = [x EXCEPT !.data[b] = CutEntry(AsDir(@), k)]
    BY DEF RemoveFile, x, Ptr
  <2>2. x = [block_bitmap |-> x.block_bitmap, inode_bitmap |-> x.inode_bitmap,
             inode |-> x.inode, data |-> v.data]
    BY <1>2, VolumeFields
  <2> HIDE DEF w, b
  <2>3. w.data = [v.data EXCEPT ![b] = CutEntry(AsDir(@), k)]
    BY <2>1, <2>2
  <2>4. w.data[b] = CutEntry(AsDir(v.data[b]), k)
    BY <1>1, <2>3
  <2>5. QED  BY <2>4 DEF Dirents, b
<1> HIDE DEF w
<1>5. cut \in [DOMAIN cut -> Entries] /\ DOMAIN cut \in SUBSET Nat
  <2>1. \A o \in DOMAIN cut : o \in Nat /\ cut[o] \in Entries
    <3> HIDE DEF dir
    <3>1. \A o \in DOMAIN cut :
             LET q == Source(k, dir[k].entry_len, o)
             IN  o \in Nat /\ q \in DOMAIN dir /\ cut[o] = dir[q]
      BY <1>3, CutEntryIs DEF dir
    <3>2. QED  BY <1>3, <3>1
  <2>2. cut = [o \in DOMAIN cut |-> cut[o]]
    BY DEF CutEntry
  <2> HIDE DEF cut
  <2>3. QED  BY <2>1, <2>2
<1> HIDE DEF cut
<1>6. cut \notin Text
  BY <1>5 DEF TextsAreNoDirectories
<1>7. Dirents(w, b) = cut
  BY <1>4, <1>6 DEF Dirents, AsDir
<1>8. QED  BY <1>7 DEF w, cut

(* What is left of a packed directory is packed up to the size that jfs_rm  *)
(* is to write, and keeps the other names; the other directories are the    *)
(* same.                                                                    *)
LEMMA CutPacked ==
    ASSUME TextsAreNoDirectories, NEW v, NEW dirs, NEW files, Sound(v, dirs, files),
           NEW d \in dirs, NEW k \in DOMAIN Dirents(v, Ptr(v, d, 0)), NEW i \in files,
           Packed(v, d, Size(v, d))
    PROVE  LET w == RemoveFile(v, d, k, i)
               e == Dirents(v, Ptr(v, d, 0))[k]
           IN  /\ Packed(w, d, Size(v, d) - e.entry_len)
               /\ \A name : HasName(v, d, name) /\ name # e.name => HasName(w, d, name)
               /\ \A c \in dirs : c # d => SameDir(v, w, c)
<1> DEFINE b == Ptr(v, d, 0)
           size == Size(v, d)
           w == RemoveFile(v, d, k, i)
           old == Dirents(v, b)
           new == Dirents(w, b)
           len == old[k].entry_len
<1>1. \A c \in dirs : c \in Inode /\ Ptr(v, c, 0) \in Block
  BY DirIs
<1>2. RemovedFrom(v, w, b, k, i)
  BY RemoveFileIs
<1>3. new = CutEntry(old, k)
  BY RemoveFileCuts
<1>4. \A c \in dirs : c # d => SameDir(v, w, c)
  <2> SUFFICES ASSUME NEW c \in dirs, c # d PROVE SameDir(v, w, c)
    OBVIOUS
  <2>1. Ptr(v, c, 0) # b
    BY DirsApart
  <2> HIDE DEF w
  <2>2. w.data[Ptr(v, c, 0)] = v.data[Ptr(v, c, 0)] /\ w.inode = v.inode
    BY <1>1, <1>2, <2>1 DEF RemovedFrom
  <2>3. QED  BY <2>2 DEF SameDir, Dirents, Ptr, Size
<1>5. Ptr(w, d, 0) = b
  BY <1>2 DEF RemovedFrom, Ptr
<1>6. size \in Nat /\ \A o \in DOMAIN old : o + old[o].entry_len <= size
  BY DEF Sound, DirInv, EndBefore
<1>7. \A o \in DOMAIN old : o \in Nat /\ old[o].entry_len \in Nat \ {0}
  BY <1>1, EntryFacts
<1>8. \A o \in DOMAIN old, p \in DOMAIN old : o < p => o + old[o].entry_len <= p
  BY <1>1 DEF Sound, EntriesInv
<1>9. /\ Fills(old, size)
      /\ \A o \in DOMAIN old : old[o].entry_len <= LongEntry
      /\ \A o \in DOMAIN old, p \in DOMAIN old : old[o].name = old[p].name => o = p
  BY DEF Packed, Filled
<1>10. /\ k \in Nat /\ k \in DOMAIN old /\ len \in Nat \ {0} /\ k + len <= size
       /\ len = old[k].entry_len
  BY <1>6, <1>7
<1>11. \A o \in DOMAIN new :
          /\ o \in Nat /\ Source(k, len, o) \in DOMAIN old
          /\ new[o] = old[Source(k, len, o)]
  BY <1>2 DEF RemovedFrom
<1> HIDE DEF w, new, old, size, len, b
<1>12. \A q \in DOMAIN old :
          /\ q < k => q \in DOMAIN new /\ new[q] = old[q]
          /\ q >= k + len => q - len \in DOMAIN new /\ new[q - len] = old[q]
  BY <1>3, <1>7, <1>10, CutEntryKeeps
<1>13. Fills(new, size - len)
  <2> SUFFICES ASSUME NEW n \in 0 .. (size - len) - 1
               PROVE  \E o \in DOMAIN new : o <= n /\ n < o + new[o].entry_len
    BY DEF Fills
  <2>1. CASE n < k
    <3>1. n \in 0 .. size - 1
      BY <1>6, <1>10
    <3>2. PICK o \in DOMAIN old : o <= n /\ n < o + old[o].entry_len
      BY <1>9, <3>1 DEF Fills
    <3>3. o < k
      BY <1>7, <1>10, <2>1, <3>2
    <3>4. QED  BY <1>12, <3>2, <3>3
  <2>2. CASE n >= k
    <3>1. n + len \in 0 .. size - 1
      BY <1>6, <1>10
    <3>2. PICK q \in DOMAIN old : q <= n + len /\ n + len < q + old[q].entry_len
      BY <1>9, <3>1 DEF Fills
    <3>3. q \in Nat /\ old[q].entry_len \in Nat \ {0}
      BY <1>7
    <3>4. (q < k => q + old[q].entry_len <= k) /\ (k < q => k + len <= q)
      BY <1>8, <1>10
    <3>5. q # k
      BY <1>10, <2>2, <3>2
    <3>6. q >= k + len
      BY <1>10, <2>2, <3>2, <3>3, <3>4, <3>5
    <3>7. q - len \in DOMAIN new /\ new[q - len] = old[q]
      BY <1>12, <3>6
    <3>8. q - len <= n /\ n < (q - len) + old[q].entry_len
      BY <1>10, <3>2, <3>3
    <3>9. QED  BY <3>7, <3>8
  <2>3. QED  BY <1>10, <2>1, <2>2
<1>14. \A o \in DOMAIN new : new[o].entry_len <= LongEntry
  BY <1>9, <1>11
<1>15. ASSUME NEW o \in DOMAIN new, NEW p \in DOMAIN new, new[o].name = new[p].name
       PROVE  o = p
  <2>1. Source(k, len, o) = Source(k, len, p)
    BY <1>9, <1>11, <1>15
  <2>2. o \in Nat /\ p \in Nat
    BY <1>11
  <2>3. QED  BY <1>10, <2>1, <2>2 DEF Source
<1>16. Packed(w, d, size - len)
  <2>1. Filled(w, d, size - len)
    BY <1>5, <1>13 DEF Filled, new
  <2>2. QED  BY <1>5, <1>14, <1>15, <2>1 DEF Packed, new
<1>17. ASSUME NEW name, HasName(v, d, name), name # old[k].name
       PROVE  HasName(w, d, name)
  <2>1. PICK q \in DOMAIN old : old[q].name = name
    BY <1>17 DEF HasName, old, b
  <2>2. q \in Nat /\ q # k /\ (k < q => k + len <= q)
    BY <1>7, <1>8, <1>10, <1>17, <2>1
  <2>3. \E o \in DOMAIN new : new[o].name = name
    BY <1>10, <1>12, <2>1, <2>2
  <2>4. QED  BY <1>5, <2>3 DEF HasName, new
<1>18. QED  BY <1>4, <1>16, <1>17 DEF w, size, len, old, b

(* The directories are tidy, with the size that is left to jfs_rm to write. *)
AllTidy(v, r, dirs) == \A d \in dirs : Tidy(v, r, d)

(* Without a jfs_rm, this is to be orderly.                                 *)
LEMMA TidyIsOrderly ==
    ASSUME NEW v, NEW dirs, NEW files, Sound(v, dirs, files)
    PROVE  AllTidy(v, NoRm, dirs) <=> AllOrderly(v, dirs)
<1>1. \A d \in dirs : EndOf(v, NoRm, d) = Size(v, d)
  BY DirIs, EndIsSize
<1>2. QED  BY <1>1, TidyIs DEF AllTidy, AllOrderly, Orderly

(* The first commit of jfs_rm leaves the directories tidy.                  *)
LEMMA RemoveTidy ==
    ASSUME TextsAreNoDirectories, NEW v, NEW dirs, NEW files, Sound(v, dirs, files),
           AllOrderly(v, dirs), NEW path \in Path, rmResult(v, path) = "rm"
    PROVE  AllTidy(Removed(v, path), ToResize(v, path), dirs)
<1> DEFINE d == DirOf(v, path, {"dir"})
           k == FoundAt(v, path)
           e == FoundEntry(v, path)
           w == Removed(v, path)
           r == ToResize(v, path)
<1>1. /\ d \in dirs /\ k \in DOMAIN Dirents(v, Ptr(v, d, 0))
      /\ e = Dirents(v, Ptr(v, d, 0))[k] /\ e.type = "file" /\ e.inode \in files
      /\ r = [dir |-> d, size |-> Size(v, d) - e.entry_len]
  BY RemoveIs
<1>2. w = RemoveFile(v, d, k, e.inode)
  BY DEF Removed
<1>3. ~IsDot(e)
  BY <1>1, DirIs, EntryFacts
<1> HIDE DEF w, r, d, k, e
<1>4. /\ Packed(w, d, r.size)
      /\ \A name : HasName(v, d, name) /\ name # e.name => HasName(w, d, name)
      /\ \A c \in dirs : c # d => SameDir(v, w, c)
  <2>1. Packed(v, d, Size(v, d))
    BY <1>1 DEF AllOrderly, Orderly
  <2>2. r.size = Size(v, d) - e.entry_len
    BY <1>1
  <2>3. QED  BY <1>1, <1>2, <2>1, <2>2, CutPacked
<1>5. HasName(w, d, ".")
  BY <1>1, <1>3, <1>4 DEF AllOrderly, Orderly, IsDot
<1>6. r.dir = d
  BY <1>1
<1>7. ASSUME NEW c \in dirs, c # d
      PROVE  Tidy(w, r, c)
  <2>1. Orderly(w, c) /\ EndOf(w, r, c) = Size(w, c)
    BY <1>4, <1>6, <1>7, SameIsOrderly DEF AllOrderly, EndOf
  <2>2. QED  BY <2>1, TidyIs DEF Orderly
<1>8. Tidy(w, r, d)
  BY <1>4, <1>5, <1>6, TidyIs DEF EndOf
<1>9. QED  BY <1>7, <1>8 DEF AllTidy, w, r

(* The second makes them orderly.                                           *)
LEMMA ResizeOrderly ==
    ASSUME NEW v, NEW dirs, NEW files, Sound(v, dirs, files),
           NEW r, r.dir \in dirs, r.size \in Nat, AllTidy(v, r, dirs)
    PROVE  AllOrderly(Resized(v, r), dirs)
<1> DEFINE w == Resized(v, r)
<1>1. \A c \in dirs : c \in Inode
  BY DirIs
<1>2. /\ v.inode \in [Inode -> [size : Nat \cup {None},
                                blockptrs : [0 .. Ptrs - 1 -> Block \cup {None}]]]
      /\ v = [block_bitmap |-> v.block_bitmap, inode_bitmap |-> v.inode_bitmap,
              inode |-> v.inode, data |-> v.data]
  BY VolumeOKIs DEF Sound
<1>3. w.data = v.data /\ w.inode = [v.inode EXCEPT ![r.dir].size = r.size]
  BY <1>2 DEF Resized
<1>4. \A c \in dirs : /\ Ptr(w, c, 0) = Ptr(v, c, 0)
                      /\ Size(w, c) = IF c = r.dir THEN r.size ELSE Size(v, c)
  BY <1>1, <1>2, <1>3, VolumeSizes DEF Ptr, Size
<1>5. \A b : Dirents(w, b) = Dirents(v, b)
  BY <1>3 DEF Dirents
<1> HIDE DEF w
<1>6. ASSUME NEW c \in dirs
      PROVE  Orderly(w, c)
  <2>1. Size(w, c) = EndOf(v, r, c)
    BY <1>4 DEF EndOf
  <2>2. Packed(v, c, Size(w, c)) /\ HasName(v, c, ".")
    BY <2>1, TidyIs DEF AllTidy
  <2>3. Filled(w, c, Size(w, c)) <=> Filled(v, c, Size(w, c))
    BY <1>4, <1>5, SamePlaces
  <2>4. QED  BY <1>4, <1>5, <2>2, <2>3 DEF Orderly, Packed, HasName
<1>7. QED  BY <1>6 DEF AllOrderly, w

-----------------------------------------------------------------------------
(* The tools.                                                               *)

(* The directories that entries name are among those of a sound volume.     *)
LEMMA KnownDirsAre ==
    ASSUME NEW v, NEW dirs, NEW files, Sound(v, dirs, files), NEW r, r.dir \in dirs \cup {None}
    PROVE  KnownDirs(v, r) \subseteq dirs
<1>1. Root \in dirs
  BY DEF Sound, InodesInv
<1>2. Named(v, "dir") \subseteq dirs
  BY EntryFacts DEF Named
<1>3. QED  BY <1>1, <1>2 DEF KnownDirs

(* jfs_mkdir leaves the directories orderly: it makes no entry for a name   *)
(* that it finds.                                                           *)
LEMMA MkdirOrderly ==
    ASSUME TextsAreNoDirectories, HasRoom,
           NEW v, NEW dirs, NEW files, Sound(v, dirs, files), AllOrderly(v, dirs),
           NEW path \in Path, mkdirResult(v, path) = "ok"
    PROVE  AllOrderly(Made(v, path), dirs \cup {get_free_inode(v)})
<1> DEFINE d == DirOf(v, path, {"dir", "file"})
           i == get_free_inode(v)
           b == get_free_block(v)
           name == Last(path)
<1>1. /\ d \in dirs /\ name \in Name
      /\ i \in Inode /\ ~InodeUsed(v, i) /\ b \in Block /\ ~BlockUsed(v, b)
      /\ Made(v, path) = mk_new_directory(v, d, name, i, b)
  BY MkdirIs
<1>2. Lookup(v, d, name) = Missing
  BY DEF mkdirResult
<1> HIDE DEF d, i, b, name
<1>3. ~HasName(v, d, name)
  BY <1>1, <1>2, NotFoundIsNew, NoEntryType DEF AllOrderly
<1>4. AllOrderly(mk_new_directory(v, d, name, i, b), dirs \cup {i})
  BY <1>1, <1>3, NewDirOrderly
<1>5. QED  BY <1>1, <1>4 DEF i

(* jfs_copyin does, if the name is not there.                               *)
LEMMA CopyinOrderly ==
    ASSUME TextsAreNoDirectories, HasRoom,
           NEW v, NEW dirs, NEW files, Sound(v, dirs, files), AllOrderly(v, dirs),
           NEW path \in Path, ~Taken(v, path),
           NEW file \in Seq(Text), copyinResult(v, path, file) = "ok"
    PROVE  AllOrderly(CopiedIn(v, path, file), dirs)
<1> DEFINE d == DirOf(v, path, {"dir"})
           i == get_free_inode(v)
           cut == Truncated(file)
<1>1. /\ d \in dirs /\ Last(path) \in Name
      /\ i \in Inode /\ ~InodeUsed(v, i)
      /\ cut \in Seq(Text) /\ Len(cut) <= Ptrs /\ ~Store(set_inode_used(v, i), cut).full
      /\ CopiedIn(v, path, file) = PutFile(v, d, path, i, cut)
  BY CopyinIs
<1>2. d \in Nat
  BY <1>1, DirIs, InodeNumbers
<1>3. Lookup(v, d, Last(path)).type \notin {"dir", "file"}
  BY <1>2 DEF Taken
<1> HIDE DEF d, i, cut
<1>4. ~HasName(v, d, Last(path))
  BY <1>1, <1>3, NotFoundIsNew DEF AllOrderly
<1>5. Len(path) \in Nat \ {0} /\ EntryLen(PathLength(path)) <= LongEntry
  BY PathIs, LongEntryIs DEF HasRoom
<1>6. Last(path) \in Name \cup {".log"}
  BY <1>1
<1>7. AllOrderly(PutFile(v, d, path, i, cut), dirs)
  BY <1>1, <1>4, <1>5, <1>6, NewFileOrderly
<1>8. QED  BY <1>1, <1>7

(* jfs_format gives the root . and .. before it makes .log.                 *)
LEMMA NewRootIs ==
    ASSUME TextsAreNoDirectories, HasRoom
    PROVE  LET x == RootVolume(get_free_block(NewGroups))
               y == AddDir(x, Root, ".", Root)
               path == <<".log">>
           IN  /\ NewRoot = AddDir(y, Root, "..", Root)
               /\ Sound(x, {Root}, {}) /\ Packed(x, Root, Size(x, Root))
               /\ DOMAIN Dirents(x, Ptr(x, Root, 0)) = {}
               /\ Sound(y, {Root}, {}) /\ Packed(y, Root, Size(y, Root))
               /\ ~HasName(y, Root, "..")
               /\ Sound(NewRoot, {Root}, {}) /\ AllOrderly(NewRoot, {Root})
               /\ ~HasName(NewRoot, Root, ".log")
               /\ get_free_inode(NewRoot) \in Inode
               /\ ~InodeUsed(NewRoot, get_free_inode(NewRoot))
               /\ Last(path) = ".log" /\ EntryLen(PathLength(path)) <= LongEntry
<1> DEFINE b == get_free_block(NewGroups)
           x == RootVolume(b)
           y == AddDir(x, Root, ".", Root)
           v == NewRoot
           i == get_free_inode(v)
           path == <<".log">>
           dirs == {Root}
           files == {}
<1>1. b \in Block /\ ~BlockUsed(NewGroups, b) /\ i # None
  BY FormatIs
<1>2. v = AddDir(y, Root, "..", Root)
  BY DEF NewRoot
<1>3. EntryLen(PathLength(path)) <= LongEntry /\ Last(path) = ".log"
  <2>1. Len(path) = 1 /\ path[1] = ".log"
    OBVIOUS
  <2>2. MaxDepth > 0 /\ MaxDepth \in Nat
    BY VolumeSizes DEF HasRoom
  <2> HIDE DEF path
  <2>3. Len(path) \in Nat \ {0} /\ Len(path) <= MaxDepth
    BY <2>1, <2>2
  <2>4. EntryLen(PathLength(path)) <= LongEntry
    BY <2>2, <2>3, LongEntryIs
  <2>5. Last(path) = ".log"
    BY <2>1 DEF Last
  <2>6. QED  BY <2>4, <2>5
<1>4. /\ Sound(x, {Root}, {}) /\ Ptr(x, Root, 0) = b /\ Size(x, Root) = 0
      /\ \A c \in Block : DOMAIN Dirents(x, c) = {}
  <2> HIDE DEF b
  <2> QED  BY <1>1, RootSound
<1>5. Root \in dirs /\ \A d \in dirs : d = Root
  OBVIOUS
<1>6. /\ Sound(x, dirs, files) /\ Packed(x, Root, Size(x, Root)) /\ \A name : ~HasName(x, Root, name)
      /\ DOMAIN Dirents(x, Ptr(x, Root, 0)) = {}
  BY <1>1, <1>4, EmptyIsPacked
<1> HIDE DEF x, b, dirs, files
<1>7. /\ Sound(y, dirs, files) /\ Packed(y, Root, Size(y, Root))
      /\ \A name : HasName(y, Root, name) <=> name = "."
  <2>1. DirEntryOK(x, dirs, Root, ".", Root)
    BY <1>5 DEF DirEntryOK
  <2>2. QED  BY <1>6, <2>1, AddDirPacked
<1> HIDE DEF y, v
<1>8. /\ Sound(v, dirs, files) /\ Packed(v, Root, Size(v, Root))
      /\ \A name : HasName(v, Root, name) <=> name = "." \/ name = ".."
  <2>1. DirEntryOK(y, dirs, Root, "..", Root)
    BY <1>5 DEF DirEntryOK
  <2>2. ~HasName(y, Root, "..")
    BY <1>7
  <2>3. QED  BY <1>2, <1>7, <2>1, <2>2, AddDirPacked
<1>9. i \in Inode /\ ~InodeUsed(v, i)
  BY <1>1, <1>8, FreeInode DEF Sound, VolumeOK
<1>10. AllOrderly(v, dirs) /\ ~HasName(v, Root, ".log") /\ ~HasName(y, Root, "..")
  BY <1>5, <1>7, <1>8 DEF AllOrderly, Orderly
<1>11. QED
  BY <1>2, <1>3, <1>6, <1>7, <1>8, <1>9, <1>10 DEF v, y, x, b, dirs, files

(* It makes an orderly root.                                                *)
LEMMA FormatOrderly ==
    ASSUME TextsAreNoDirectories, HasRoom
    PROVE  LET w == create_log_file(create_fs_root(NewGroups))
               i == get_free_inode(NewRoot)
           IN  /\ AllOrderly(w, {Root})
               /\ Sound(w, {Root}, {i}) /\ SameFiles(NewRoot, w, {})
<1> DEFINE v == NewRoot
           i == get_free_inode(v)
           path == <<".log">>
           w == create_log_file(create_fs_root(NewGroups))
           dirs == {Root}
<1>1. /\ ~Store(set_inode_used(v, i), LogFile).full
      /\ LogFile \in Seq(Text) /\ Len(LogFile) <= Ptrs
      /\ Len(path) \in Nat \ {0}
      /\ w = PutFile(v, Root, path, i, LogFile)
  BY FormatIs
<1>2. /\ Sound(v, dirs, {}) /\ AllOrderly(v, dirs) /\ ~HasName(v, Root, ".log")
      /\ i \in Inode /\ ~InodeUsed(v, i)
      /\ Last(path) = ".log" /\ EntryLen(PathLength(path)) <= LongEntry
  BY NewRootIs
<1>3. Root \in dirs
  OBVIOUS
<1> HIDE DEF i, w, v, dirs, path
<1>4. Last(path) \in Name \cup {".log"} /\ ~HasName(v, Root, Last(path))
  BY <1>2
<1>5. AllOrderly(w, dirs) /\ Sound(w, dirs, {} \cup {i}) /\ SameFiles(v, w, {})
  BY <1>1, <1>2, <1>3, <1>4, NewFileOrderly, PutFileSound
<1>6. {} \cup {i} = {i}
  OBVIOUS
<1>7. QED  BY <1>5, <1>6 DEF w, dirs, i, v

-----------------------------------------------------------------------------
(* TidyInv is inductive.                                                    *)

(* It holds of a sound volume without a jfs_rm if the directories are       *)
(* orderly.                                                                 *)
LEMMA OrderlyIsTidy ==
    ASSUME NEW v, NEW dirs, NEW files, Sound(v, dirs, files), AllOrderly(v, dirs)
    PROVE  \A d \in KnownDirs(v, NoRm) : Tidy(v, NoRm, d)
<1>1. KnownDirs(v, NoRm) \subseteq dirs
  BY KnownDirsAre DEF NoRm
<1>2. AllTidy(v, NoRm, dirs)
  BY TidyIsOrderly
<1>3. QED  BY <1>1, <1>2 DEF AllTidy

(* The directories start tidy.                                              *)
LEMMA TidyInvInit == TextsAreNoDirectories /\ Init => TidyInv
<1> SUFFICES ASSUME TextsAreNoDirectories, Init, HasRoom
             PROVE  \A d \in KnownDirs(vol, rm) : Tidy(vol, rm, d)
  BY DEF TidyInv
<1>1. PICK files : Sound(vol, {Root}, files) /\ AllOrderly(vol, {Root})
  BY FormatOrderly DEF Init
<1>2. rm = NoRm
  BY DEF Init
<1>3. QED  BY <1>1, <1>2, OrderlyIsTidy

(* Every step keeps them so.                                                *)
LEMMA TidyStep ==
    ASSUME TextsAreNoDirectories, ~RmFull, VolumeInv, TidyInv, [Next]_vars
    PROVE  TidyInv'
<1> SUFFICES ASSUME HasRoom, FreshNames, ~CrashInRm
             PROVE  (\A d \in KnownDirs(vol, rm) : Tidy(vol, rm, d))'
  BY DEF TidyInv
<1> DEFINE dirs == KnownDirs(vol, rm)
           files == Named(vol, "file")
<1>1. Sound(vol, dirs, files) /\ AllTidy(vol, rm, dirs)
  BY DEF VolumeInv, TidyInv, AllTidy
<1> HIDE DEF dirs, files
<1>2. rm = NoRm => AllOrderly(vol, dirs)
  BY <1>1, TidyIsOrderly
<1>3. ASSUME NEW dirs2, NEW files2, Sound(vol', dirs2, files2), AllOrderly(vol', dirs2),
             rm' = NoRm
      PROVE  \A d \in KnownDirs(vol', rm') : Tidy(vol', rm', d)
  BY <1>3, OrderlyIsTidy
<1>4. CASE UNCHANGED vars
  BY <1>1, <1>4 DEF vars, AllTidy, dirs
<1>5. ASSUME NEW path \in Path, mkdir(path)
      PROVE  \A d \in KnownDirs(vol', rm') : Tidy(vol', rm', d)
  <2>1. rm = NoRm /\ rm' = NoRm
    BY <1>5 DEF mkdir, Idle
  <2>2. CASE result' = "ok"
    <3>1. vol' = Made(vol, path) /\ mkdirResult(vol, path) = "ok"
      BY <1>5, <2>2 DEF mkdir
    <3>2. /\ Sound(vol', dirs \cup {get_free_inode(vol)}, files)
          /\ AllOrderly(vol', dirs \cup {get_free_inode(vol)})
      BY <1>1, <1>2, <2>1, <3>1, MkdirSound, MkdirOrderly
    <3>3. QED  BY <1>3, <2>1, <3>2
  <2>3. CASE result' # "ok"
    <3>1. vol' = vol
      BY <1>5, <2>3 DEF mkdir
    <3>2. QED  BY <1>1, <1>2, <1>3, <2>1, <3>1
  <2>4. QED  BY <2>2, <2>3
<1>6. ASSUME NEW path \in Path, NEW file \in File, copyin(path, file)
      PROVE  \A d \in KnownDirs(vol', rm') : Tidy(vol', rm', d)
  <2>1. rm = NoRm /\ rm' = NoRm /\ ~Taken(vol, path) /\ file \in Seq(Text)
    BY <1>6, VolumeAssumption DEF copyin, Idle
  <2>2. CASE result' = "ok"
    <3>1. vol' = CopiedIn(vol, path, file) /\ copyinResult(vol, path, file) = "ok"
      BY <1>6, <2>2 DEF copyin
    <3>2. /\ Sound(vol', dirs, files \cup {get_free_inode(vol)})
          /\ AllOrderly(vol', dirs)
      BY <1>1, <1>2, <2>1, <3>1, CopyinSound, CopyinOrderly
    <3>3. QED  BY <1>3, <2>1, <3>2
  <2>3. CASE result' # "ok"
    <3>1. vol' = vol
      BY <1>6, <2>3 DEF copyin
    <3>2. QED  BY <1>1, <1>2, <1>3, <2>1, <3>1
  <2>4. QED  BY <2>2, <2>3
<1>7. ASSUME NEW path \in Path, jfs_remove_file(path)
      PROVE  \A d \in KnownDirs(vol', rm') : Tidy(vol', rm', d)
  <2>1. rm = NoRm
    BY <1>7, RmIs
  <2>2. CASE result' = "rm"
    <3>1. vol' = Removed(vol, path) /\ rm' = ToResize(vol, path) /\ rmResult(vol, path) = "rm"
      BY <1>7, <2>2, RmIs
    <3>2. AllTidy(vol', rm', dirs)
      BY <1>1, <1>2, <2>1, <3>1, RemoveTidy
    <3>3. \E kept : Sound(vol', dirs, kept) /\ rm'.dir \in dirs
      BY <1>1, <3>1, RemoveSound
    <3>4. QED  BY <3>2, <3>3, KnownDirsAre DEF AllTidy
  <2>3. CASE result' # "rm"
    <3>1. vol' = vol /\ rm' = NoRm
      BY <1>7, <2>3, RmIs
    <3>2. QED  BY <1>1, <1>2, <1>3, <2>1, <3>1
  <2>4. QED  BY <2>2, <2>3
<1>8. CASE change_dir_size
  <2>1. rm' = NoRm /\ vol' = Resized(vol, rm) /\ rm # NoRm
    BY <1>8 DEF change_dir_size, Idle
  <2>2. rm.dir \in dirs /\ rm.size \in Nat /\ EndBefore(vol, Ptr(vol, rm.dir, 0), rm.size)
    <3>1. rm.dir \in Inode /\ rm.size \in Nat /\ EndBefore(vol, Ptr(vol, rm.dir, 0), rm.size)
      BY <2>1 DEF VolumeInv, TypeOK, ResizeInv
    <3>2. rm.dir # None
      BY <3>1, InodeNumbers DEF None
    <3>3. QED  BY <3>1, <3>2 DEF KnownDirs, dirs
  <2>3. Sound(vol', dirs, files) /\ AllOrderly(vol', dirs)
    BY <1>1, <2>1, <2>2, ResizedSound, ResizeOrderly
  <2>4. QED  BY <1>3, <2>1, <2>3
<1>9. CASE CrashBetweenCommits
  BY <1>9 DEF CrashBetweenCommits
<1>10. QED  BY <1>4, <1>5, <1>6, <1>7, <1>8, <1>9 DEF Next

(* Directories that have room for all names stay tidy, whatever jfs_mkdir,  *)
(* jfs_copyin and jfs_rm do in whatever order, as long as users copy in     *)
(* under fresh names, remove no file that uses every block pointer and no   *)
(* jfs_rm dies between its commits.                                         *)
THEOREM DirectoriesStayTidy ==
    ASSUME TextsAreNoDirectories, ~RmFull
    PROVE  Spec => []TidyInv
<1>1. Init => TidyInv
  BY TidyInvInit
<1>2. VolumeInv /\ TidyInv /\ [Next]_vars => TidyInv'
  BY TidyStep
<1>3. QED  BY <1>1, <1>2, VolumeStaysSound, PTL DEF Spec

(* Then no walk through the volume reads garbage as a directory entry.      *)
THEOREM WalksReadEntries ==
    ASSUME TextsAreNoDirectories, ~RmFull, HasRoom, FreshNames, ~CrashInRm
    PROVE  Spec => []WalksStayInDirectory
<1>1. VolumeInv /\ TidyInv => WalksStayInDirectory
  <2> SUFFICES ASSUME VolumeInv, TidyInv, rm = NoRm PROVE WalkSafe(vol)
    BY DEF WalksStayInDirectory, Idle
  <2> DEFINE dirs == KnownDirs(vol, rm)
             files == Named(vol, "file")
  <2>1. Sound(vol, dirs, files) /\ AllTidy(vol, NoRm, dirs)
    BY DEF VolumeInv, TidyInv, AllTidy
  <2> HIDE DEF dirs, files
  <2>2. AllOrderly(vol, dirs)
    BY <2>1, TidyIsOrderly
  <2>3. Dirs(vol) \subseteq dirs
    BY <2>1, PlacesHaveDirs DEF Dirs, PlaceOf
  <2>4. QED  BY <2>1, <2>2, <2>3, OrderlyWalk DEF WalkSafe, AllOrderly
<1>2. QED  BY <1>1, VolumeStaysSound, DirectoriesStayTidy, PTL

=============================================================================
