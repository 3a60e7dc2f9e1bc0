----------------------------- MODULE VolumeTree -----------------------------
(***************************************************************************)
(* The tools together make a tree of directories and files: proofs of      *)
(* TreeInv, of TreeIsSeen and of the refinement of FileTree.               *)
(***************************************************************************)
EXTENDS VolumeHistory, VolumeRoom

-----------------------------------------------------------------------------
(* Paths.                                                                   *)

(* Sequences with the same elements are equal.                              *)
LEMMA SameElements ==
    ASSUME NEW S, NEW p \in Seq(S), NEW q \in Seq(S), Len(p) = Len(q),
           \A n \in 1 .. Len(p) : p[n] = q[n]
    PROVE  p = q
<1>1. p \in [1 .. Len(p) -> S] /\ q \in [1 .. Len(p) -> S]
  OBVIOUS
<1>2. QED  BY <1>1

(* A sequence that is not empty is its front and its last element.          *)
LEMMA FrontAndLast ==
    ASSUME NEW S, NEW p \in Seq(S), p # <<>>
    PROVE  /\ Len(p) \in Nat \ {0}
           /\ Front(p) \in Seq(S) /\ Len(Front(p)) = Len(p) - 1 /\ Last(p) \in S
           /\ \A n \in 1 .. Len(p) - 1 : Front(p)[n] = p[n]
           /\ p = Append(Front(p), Last(p))
<1>1. Len(p) \in Nat \ {0}
  OBVIOUS
<1>2. Front(p) \in Seq(S) /\ Len(Front(p)) = Len(p) - 1 /\ \A n \in 1 .. Len(p) - 1 : Front(p)[n] = p[n]
  BY <1>1, SMTT(30) DEF Front
<1>3. Last(p) \in S
  BY <1>1 DEF Last
<1> DEFINE q == Front(p)
<1> HIDE DEF q
<1>4. Append(q, Last(p)) \in Seq(S) /\ Len(Append(q, Last(p))) = Len(p)
  BY <1>1, <1>2, <1>3 DEF q
<1>5. \A n \in 1 .. Len(p) : Append(q, Last(p))[n] = p[n]
  BY <1>1, <1>2, <1>3 DEF q, Last
<1>6. p = Append(q, Last(p))
  BY <1>4, <1>5, SameElements
<1>7. QED  BY <1>1, <1>2, <1>3, <1>6 DEF q

(* What is appended to a sequence is its last element.                      *)
LEMMA FrontOfAppend ==
    ASSUME NEW S, NEW p \in Seq(S), NEW x \in S
    PROVE  LET q == Append(p, x)
           IN  /\ q \in Seq(S) /\ q # <<>> /\ Len(q) = Len(p) + 1
               /\ Front(q) = p /\ Last(q) = x
<1> DEFINE q == Append(p, x)
<1>1. q \in Seq(S) /\ Len(q) = Len(p) + 1 /\ q # <<>> /\ q[Len(q)] = x
  OBVIOUS
<1>2. \A n \in 1 .. Len(p) : q[n] = p[n]
  OBVIOUS
<1> HIDE DEF q
<1>3. /\ Front(q) \in Seq(S) /\ Len(Front(q)) = Len(p)
      /\ \A n \in 1 .. Len(p) : Front(q)[n] = p[n]
  BY <1>1, <1>2, FrontAndLast
<1>4. Front(q) = p
  BY <1>3, SameElements
<1>5. QED  BY <1>1, <1>4 DEF Last, q

(* The names in the tree.                                                   *)
TreeNames == Name \cup {".log"}

(* The paths of the tree are not empty, and have names but no . or .. .     *)
LEMMA AllPathsAre ==
    ASSUME NEW p \in AllPaths
    PROVE  p \in Seq(TreeNames) /\ p # <<>> /\ \A n \in 1 .. Len(p) : p[n] \notin {".", ".."}
<1>1. CASE p = <<".log">>
  <2>1. Len(p) = 1 /\ p[1] = ".log" /\ p \in Seq({".log"}) /\ p # <<>>
    BY <1>1
  <2>2. p \in Seq(TreeNames)
    BY <1>1 DEF TreeNames
  <2>3. QED  BY <2>1, <2>2
<1>2. CASE p \in UNION {[1 .. n -> Name] : n \in 1 .. MaxDepth}
  <2>1. PICK m \in 1 .. MaxDepth : p \in [1 .. m -> Name]
    BY <1>2
  <2>2. p \in Seq(TreeNames) /\ Len(p) = m
    BY <2>1, VolumeSizes DEF TreeNames
  <2>3. p # <<>> /\ \A n \in 1 .. Len(p) : p[n] \in Name
    BY <2>1, <2>2
  <2>4. QED  BY <2>2, <2>3, VolumeAssumption
<1>3. p = <<".log">> \/ p \in UNION {[1 .. n -> Name] : n \in 1 .. MaxDepth}
  BY DEF AllPaths
<1>4. QED  BY <1>1, <1>2, <1>3

(* Short sequences of the users' names are such paths.                      *)
LEMMA InAllPaths ==
    ASSUME NEW p \in Seq(Name), p # <<>>, Len(p) <= MaxDepth
    PROVE  p \in AllPaths
<1>1. Len(p) \in 1 .. MaxDepth /\ p \in [1 .. Len(p) -> Name]
  BY VolumeSizes
<1>2. QED  BY <1>1 DEF AllPaths

(* A path of the tree is not longer than those of the users.                *)
LEMMA ShortPath ==
    ASSUME MaxDepth > 0, NEW p \in {<<>>} \cup AllPaths
    PROVE  Len(p) \in 0 .. MaxDepth
<1>1. MaxDepth \in Nat
  BY VolumeSizes
<1>2. CASE p = <<>> \/ p = <<".log">>
  BY <1>1, <1>2
<1>3. CASE p \in UNION {[1 .. n -> Name] : n \in 1 .. MaxDepth}
  <2>1. PICK n \in 1 .. MaxDepth : p \in [1 .. n -> Name]
    BY <1>3
  <2>2. n \in Nat /\ n \in 0 .. MaxDepth
    BY <1>1
  <2>3. Len(p) = n
    BY <2>1, <2>2
  <2>4. QED  BY <2>2, <2>3
<1>4. QED  BY <1>2, <1>3 DEF AllPaths

(* What a path means is followed name by name.                              *)
LEMMA CanonicalIs ==
    ASSUME NEW path \in Path
    PROVE  \E c : /\ c[0] = <<>> /\ c[Len(path)] = Canonical(path)
                  /\ \A n \in 1 .. Len(path) : c[n] = Follow(c[n - 1], path[n])
                  /\ \A n \in 0 .. Len(path) : c[n] \in Seq(Name) /\ Len(c[n]) <= n
<1> DEFINE N == Len(path)
           X == Seq(Name)
           body(f, n) == IF n = 0 THEN <<>> ELSE Follow(f[n - 1], path[n])
           c[n \in 0 .. Len(path)] == IF n = 0 THEN <<>> ELSE Follow(c[n - 1], path[n])
           step == [n \in 1 .. N |-> [x \in X |-> Follow(x, path[n])]]
<1>1. /\ N \in Nat /\ N <= MaxDepth /\ \A n \in 1 .. N : path[n] \in Name \cup {".", ".."}
  <2>1. PICK m \in 1 .. MaxDepth : path \in [1 .. m -> Name \cup Dots]
    BY DEF Path
  <2>2. Len(path) = m
    BY <2>1, VolumeSizes
  <2>3. \A n \in 1 .. m : path[n] \in Name \cup {".", ".."}
    BY <2>1, VolumeAssumption
  <2>4. QED  BY <2>2, <2>3, VolumeSizes
<1>2. ASSUME NEW x \in X, NEW n \in 1 .. N
      PROVE  Follow(x, path[n]) \in X /\ Len(Follow(x, path[n])) <= Len(x) + 1
  <2>1. CASE path[n] = "."
    BY <2>1 DEF Follow
  <2>2. CASE path[n] = ".."
    <3>1. CASE x = <<>>
      BY <2>2, <3>1 DEF Follow
    <3>2. CASE x # <<>>
      <4>1. Follow(x, path[n]) = Front(x)
        BY <2>2, <3>2 DEF Follow
      <4>2. QED  BY <3>2, <4>1, FrontAndLast
    <3>3. QED  BY <3>1, <3>2
  <2>3. CASE path[n] \notin {".", ".."}
    <3>1. path[n] \in Name /\ Follow(x, path[n]) = Append(x, path[n])
      BY <1>1, <2>3 DEF Follow
    <3>2. QED  BY <3>1
  <2>4. QED  BY <2>1, <2>2, <2>3
<1> HIDE DEF X
<1>3. PICK f : f \in Runs(N, X, <<>>, step)
  <2>1. step \in Loop(N, X)
    BY <1>2 DEF Loop
  <2>2. <<>> \in X
    BY DEF X
  <2> HIDE DEF step, N
  <2>3. QED  BY <1>1, <2>1, <2>2, PrimitiveRecursion
<1>4. f = [n \in 0 .. N |-> body(f, n)]
  <2>1. \A n \in 0 .. N : f[n] = body(f, n)
    <3> TAKE n \in 0 .. N
    <3>1. CASE n = 0
      BY <1>3, <3>1 DEF Runs
    <3>2. CASE n # 0
      <4>1. n \in 1 .. N /\ n - 1 \in 0 .. N
        BY <1>1, <3>2
      <4>2. f[n] = step[n][f[n - 1]] /\ f[n - 1] \in X
        BY <1>3, <4>1 DEF Runs
      <4>3. QED  BY <3>2, <4>1, <4>2
    <3>3. QED  BY <3>1, <3>2
  <2> HIDE DEF body, step
  <2>2. QED  BY <1>3, <2>1 DEF Runs
<1>5. c = [n \in 0 .. N |-> body(c, n)]
  BY <1>4
<1>6. Canonical(path) = c[N]
  BY DEF Canonical
<1> HIDE DEF c, step, N
<1>7. \A n \in 1 .. N : c[n] = Follow(c[n - 1], path[n])
  <2>1. \A n \in 1 .. N : n \in 0 .. N /\ n # 0
    BY <1>1
  <2>2. QED  BY <1>5, <2>1
<1>8. c[0] = <<>>
  BY <1>1, <1>5
<1> DEFINE S == {n \in 0 .. N : c[n] \in X /\ Len(c[n]) <= n}
<1>9. 0 \in S
  <2>1. c[0] \in X /\ Len(c[0]) <= 0
    BY <1>8 DEF X
  <2>2. QED  BY <1>1, <2>1
<1>10. ASSUME NEW n \in 1 .. N, n - 1 \in S PROVE n \in S
  <2>1. c[n] \in X /\ Len(c[n]) <= Len(c[n - 1]) + 1
    BY <1>2, <1>7, <1>10
  <2>2. Len(c[n]) \in Nat /\ Len(c[n - 1]) \in Nat
    BY <1>10, <2>1 DEF X
  <2>3. QED  BY <1>10, <2>1, <2>2
<1>11. \A n \in 0 .. N : n \in S
  <2> HIDE DEF S
  <2> QED  BY <1>1, <1>9, <1>10, InductionUpTo
<1>12. QED  BY <1>6, <1>7, <1>8, <1>11 DEF N, X

(* A path of the users means a path of the tree: that of its directory,     *)
(* and its last name.                                                       *)
LEMMA CanonicalEnds ==
    ASSUME NEW path \in Path,
           NEW c, c[0] = <<>>, c[Len(path)] = Canonical(path),
           \A n \in 1 .. Len(path) : c[n] = Follow(c[n - 1], path[n]),
           \A n \in 0 .. Len(path) : c[n] \in Seq(Name) /\ Len(c[n]) <= n
    PROVE  LET p == Canonical(path)
               q == c[Len(path) - 1]
           IN  /\ p \in AllPaths /\ p = Append(q, Last(path)) /\ q \in Seq(Name)
               /\ Front(p) = q /\ Last(p) = Last(path)
<1> DEFINE N == Len(path)
           p == Canonical(path)
           q == c[N - 1]
           name == Last(path)
<1>1. N \in Nat \ {0} /\ N <= MaxDepth /\ name \in Name /\ name = path[N]
  BY PathIs DEF Last
<1>2. name \notin {".", ".."}
  BY <1>1, VolumeAssumption
<1>3. N \in 1 .. N /\ N \in 0 .. N /\ N - 1 \in 0 .. N
  BY <1>1
<1>4. p = Follow(q, path[N]) /\ q \in Seq(Name) /\ p \in Seq(Name) /\ Len(p) <= N
  BY <1>3
<1>5. p = Append(q, name)
  BY <1>1, <1>2, <1>4 DEF Follow
<1> HIDE DEF p, q, name
<1>6. p # <<>> /\ Front(p) = q /\ Last(p) = name
  BY <1>1, <1>4, <1>5, FrontOfAppend
<1>7. Len(p) <= MaxDepth
  BY <1>1, <1>4, VolumeSizes
<1>8. p \in AllPaths
  BY <1>4, <1>6, <1>7, InAllPaths
<1>9. QED  BY <1>4, <1>5, <1>6, <1>8 DEF p, q, name, N

-----------------------------------------------------------------------------
(* What the tools do to the entries of directories.                         *)

(* From v to w, directory d gains an entry, and the others of dirs none; or *)
(* it loses one.                                                            *)
Gains(v, w, dirs, d, e) ==
    /\ EntriesOf(w, d) = EntriesOf(v, d) \cup {e}
    /\ \A c \in dirs : c # d => EntriesOf(w, c) = EntriesOf(v, c)

Loses(v, w, dirs, d, e) ==
    /\ EntriesOf(w, d) = EntriesOf(v, d) \ {e}
    /\ \A c \in dirs : c # d => EntriesOf(w, c) = EntriesOf(v, c)

(* It gains the entry of directory i, that has just . and .. .              *)
GainsDir(v, w, dirs, d, name, i) ==
    \E e, self, up :
        /\ e.name = name /\ e.type = "dir" /\ e.inode = i
        /\ self.name = "." /\ self.type = "dir" /\ self.inode = i
        /\ up.name = ".." /\ up.type = "dir" /\ up.inode = d
        /\ Gains(v, w, dirs, d, e)
        /\ EntriesOf(w, i) = {self, up}

(* It gains the entry of file i, that jfs_copyout copies out as it was put. *)
GainsFile(v, w, dirs, d, name, i, file) ==
    /\ copyout(w, i) = file
    /\ \E e : /\ e.name = name /\ e.type = "file" /\ e.inode = i
              /\ Gains(v, w, dirs, d, e)

(* A directory that is the same has the same entries.                       *)
LEMMA SameEntries ==
    ASSUME NEW v, NEW w, NEW d, SameDir(v, w, d)
    PROVE  EntriesOf(w, d) = EntriesOf(v, d)
BY DEF SameDir, EntriesOf

(* An entry with a new name is added to the others.                         *)
LEMMA AddedEntries ==
    ASSUME TextsAreNoDirectories, HasRoom,
           NEW v, NEW dirs, NEW files, Sound(v, dirs, files),
           NEW d \in dirs, Packed(v, d, Size(v, d)),
           NEW e \in Entries, ~HasName(v, d, e.name)
    PROVE  EntriesOf(AddEntry(v, d, e), d) = EntriesOf(v, d) \cup {e}
<1> DEFINE b == Ptr(v, d, 0)
           size == Size(v, d)
           w == AddEntry(v, d, e)
           dir == Dirents(v, b)
<1>1. d \in Inode /\ b \in Block
  BY DirIs
<1>2. size \in Nat /\ \A o \in DOMAIN dir : o + dir[o].entry_len <= size
  BY DEF Sound, DirInv, EndBefore
<1>3. \A o \in DOMAIN dir : o \in Nat /\ dir[o].entry_len \in Nat \ {0}
  BY <1>1, EntryFacts
<1>4. size \notin DOMAIN dir
  BY <1>2, <1>3
<1>5. Dirents(w, b) = WithEntry(dir, size, e)
  BY NewEntryFits, FittingIsAdded
<1>6. Ptr(w, d, 0) = b
  <2>1. Added(v, w, d, e)
    BY <1>1, <1>2, AddEntryIs DEF Sound
  <2>2. QED  BY <1>1, <2>1, VolumeSizes DEF Added
<1> HIDE DEF w, dir, size, b
<1>7. EntriesOf(w, d) = {WithEntry(dir, size, e)[o] : o \in DOMAIN dir \cup {size}}
  BY <1>5, <1>6 DEF EntriesOf, WithEntry
<1>8. \A o \in DOMAIN dir \cup {size} :
         WithEntry(dir, size, e)[o] = IF o = size THEN e ELSE dir[o]
  BY DEF WithEntry
<1>9. EntriesOf(v, d) = {dir[o] : o \in DOMAIN dir}
  BY DEF EntriesOf, dir, b
<1>10. QED  BY <1>4, <1>7, <1>8, <1>9 DEF w

(* So is the entry of a directory.                                          *)
LEMMA AddDirEntries ==
    ASSUME TextsAreNoDirectories, HasRoom,
           NEW v, NEW dirs, NEW files, Sound(v, dirs, files),
           NEW d, NEW name, NEW i, DirEntryOK(v, dirs, d, name, i),
           Packed(v, d, Size(v, d)), ~HasName(v, d, name)
    PROVE  \E e : /\ e.name = name /\ e.type = "dir" /\ e.inode = i
                  /\ EntriesOf(AddDir(v, d, name, i), d) = EntriesOf(v, d) \cup {e}
<1> DEFINE e == Dirent(name, "dir", i, EntryLen(NameLength(name)))
<1>1. d \in dirs /\ i \in Inode /\ name \in Name \cup {".", "..", ".log"}
  BY DEF DirEntryOK, Sound, InodesInv
<1>2. e.name = name /\ e.type = "dir" /\ e.inode = i /\ AddDir(v, d, name, i) = AddEntry(v, d, e)
  BY DEF Dirent, AddDir
<1>3. EntryLen(NameLength(name)) \in Nat
  BY NameLengthIsNat, EntryLenIsNat
<1>4. e \in Entries
  BY <1>1, <1>3 DEF Dirent, Entries
<1> HIDE DEF e
<1>5. EntriesOf(AddEntry(v, d, e), d) = EntriesOf(v, d) \cup {e}
  BY <1>1, <1>2, <1>4, AddedEntries
<1>6. QED  BY <1>2, <1>5

(* A new directory has the entries . and .., and one in its parent.         *)
LEMMA NewDirEntries ==
    ASSUME TextsAreNoDirectories, HasRoom,
           NEW v, NEW dirs, NEW files, Sound(v, dirs, files), AllOrderly(v, dirs),
           NEW d \in dirs, NEW name \in Name, ~HasName(v, d, name),
           NEW i \in Inode, ~InodeUsed(v, i), NEW b \in Block, ~BlockUsed(v, b)
    PROVE  GainsDir(v, mk_new_directory(v, d, name, i, b), dirs, d, name, i)
<1> DEFINE x == EmptyDir(v, i, b)
           y == AddDir(x, d, name, i)
           z == AddDir(y, i, ".", i)
           w == AddDir(z, i, "..", d)
           dirs2 == dirs \cup {i}
<1>1. /\ Grown(v, x, i) /\ Size(x, i) = 0 /\ Ptr(x, i, 0) = b
      /\ \A c \in Block : NewBlock(v, x, c) <=> c = b
  BY NewDirGrows
<1>2. mk_new_directory(v, d, name, i, b) = w
  BY DEF mk_new_directory, EmptyDir
<1> HIDE DEF x
<1>3. Sound(x, dirs2, files)
  BY <1>1, EmptyDirSound
<1>4. /\ i \notin dirs /\ Root \in dirs
      /\ \A c \in Block : \A p \in DOMAIN Dirents(x, c) : Dirents(x, c)[p].inode # i
  BY <1>1, GrownKeeps DEF Sound, InodesInv
<1>5. \A c \in dirs : SameDir(v, x, c)
  BY <1>1, GrownSameDirs
<1>6. ~HasName(x, d, name) /\ Packed(x, d, Size(x, d))
  BY <1>5, SameDirIs, SameIsOrderly DEF AllOrderly, Orderly
<1>7. Packed(x, i, Size(x, i)) /\ (\A other : ~HasName(x, i, other)) /\ EntriesOf(x, i) = {}
  BY <1>1, EmptyIsPacked DEF Grown, EntriesOf
<1>8. name \notin {".", ".."} /\ d \in dirs2 /\ i \in dirs2 /\ d # i /\ i # Root
  BY <1>4, VolumeAssumption
<1>9. \A c \in dirs : c \in dirs2 /\ c # i
  BY <1>4
<1> HIDE DEF dirs2
<1>10. DirEntryOK(x, dirs2, d, name, i)
  BY <1>4, <1>8 DEF DirEntryOK
<1>11. Sound(y, dirs2, files) /\ \A c \in dirs2 : c # d => SameDir(x, y, c)
  BY <1>3, <1>6, <1>10, AddDirPacked
<1>12. PICK e : /\ e.name = name /\ e.type = "dir" /\ e.inode = i
                /\ EntriesOf(y, d) = EntriesOf(x, d) \cup {e}
  BY <1>3, <1>6, <1>10, AddDirEntries
<1> HIDE DEF y
<1>13. /\ Packed(y, i, Size(y, i)) /\ (\A other : ~HasName(y, i, other)) /\ EntriesOf(y, i) = {}
  BY <1>7, <1>8, <1>11, SameDirIs, SameEntries DEF SameDir
<1>14. DirEntryOK(y, dirs2, i, ".", i)
  BY <1>8 DEF DirEntryOK
<1>15. /\ Sound(z, dirs2, files) /\ Packed(z, i, Size(z, i))
       /\ \A other : HasName(z, i, other) <=> other = "."
       /\ \A c \in dirs2 : c # i => SameDir(y, z, c)
  BY <1>11, <1>13, <1>14, AddDirPacked
<1>16. PICK self : /\ self.name = "." /\ self.type = "dir" /\ self.inode = i
                   /\ EntriesOf(z, i) = EntriesOf(y, i) \cup {self}
  BY <1>11, <1>13, <1>14, AddDirEntries
<1> HIDE DEF z
<1>17. DirEntryOK(z, dirs2, i, "..", d) /\ ~HasName(z, i, "..")
  BY <1>8, <1>15 DEF DirEntryOK
<1>18. \A c \in dirs2 : c # i => SameDir(z, w, c)
  BY <1>15, <1>17, AddDirPacked
<1>19. PICK up : /\ up.name = ".." /\ up.type = "dir" /\ up.inode = d
                 /\ EntriesOf(w, i) = EntriesOf(z, i) \cup {up}
  BY <1>15, <1>17, AddDirEntries
<1> HIDE DEF w
<1>20. EntriesOf(w, i) = {self, up}
  BY <1>13, <1>16, <1>19
<1>21. \A c \in dirs : /\ EntriesOf(x, c) = EntriesOf(v, c)
                       /\ c # d => EntriesOf(y, c) = EntriesOf(x, c)
                       /\ EntriesOf(z, c) = EntriesOf(y, c)
                       /\ EntriesOf(w, c) = EntriesOf(z, c)
  BY <1>5, <1>9, <1>11, <1>15, <1>18, SameEntries
<1>22. EntriesOf(w, d) = EntriesOf(v, d) \cup {e}
  BY <1>12, <1>21
<1>23. \A c \in dirs : c # d => EntriesOf(w, c) = EntriesOf(v, c)
  BY <1>21
<1>24. QED  BY <1>2, <1>12, <1>16, <1>19, <1>20, <1>22, <1>23 DEF GainsDir, Gains

(* A new file has an entry in its directory, and jfs_copyout copies out of  *)
(* it what was stored.                                                      *)
LEMMA PutFileEntries ==
    ASSUME TextsAreNoDirectories, HasRoom,
           NEW v, NEW dirs, NEW files, Sound(v, dirs, files), AllOrderly(v, dirs),
           NEW d \in dirs, NEW path, Len(path) \in Nat \ {0}, Last(path) \in Name \cup {".log"},
           EntryLen(PathLength(path)) <= LongEntry, ~HasName(v, d, Last(path)),
           NEW i \in Inode, ~InodeUsed(v, i),
           NEW file \in Seq(Text), Len(file) <= Ptrs, ~Store(set_inode_used(v, i), file).full
    PROVE  GainsFile(v, PutFile(v, d, path, i, file), dirs, d, Last(path), i, file)
<1> DEFINE s == Store(set_inode_used(v, i), file)
           x == [s.vol EXCEPT !.inode[i] = FileInode(s.blocks)]
           e == Dirent(Last(path), "file", i, EntryLen(PathLength(path)))
           w == AddEntry(x, d, e)
           files2 == files \cup {i}
<1>1. PutFile(v, d, path, i, file) = w
  BY DEF PutFile
<1>2. Grown(v, x, i) /\ NewFile(v, x, i) /\ copyout(x, i) = file
  BY NewFileGrows
<1> HIDE DEF x, s
<1>3. Sound(x, dirs, files2)
  BY <1>2, NewFileSound
<1>4. /\ e.name = Last(path) /\ e.type = "file" /\ e.inode = i
      /\ e.entry_len = EntryLen(PathLength(path)) /\ e.entry_len \in Nat \ {0}
  BY PathLengthIsNat, EntryLenIsNat DEF Dirent
<1>5. e \in Entries
  BY <1>4 DEF Dirent, Entries
<1> HIDE DEF e
<1>6. \A c \in dirs : SameDir(v, x, c)
  BY <1>2, GrownSameDirs
<1>7. ~HasName(x, d, e.name) /\ Packed(x, d, Size(x, d))
  BY <1>4, <1>6, SameDirIs, SameIsOrderly DEF AllOrderly, Orderly
<1> HIDE DEF files2
<1>8. EntriesOf(w, d) = EntriesOf(x, d) \cup {e}
  BY <1>3, <1>5, <1>7, AddedEntries
<1>9. \A c \in dirs : c # d => SameDir(x, w, c)
  BY <1>3, <1>4, <1>5, <1>7, AddPacked
<1>10. \A c \in dirs : /\ EntriesOf(x, c) = EntriesOf(v, c)
                       /\ c # d => EntriesOf(w, c) = EntriesOf(x, c)
  BY <1>6, <1>9, SameEntries
<1>11. copyout(w, i) = copyout(x, i)
  <2>1. VolumeOK(x) /\ d \in Inode /\ Ptr(x, d, 0) \in Block /\ Size(x, d) \in Nat
    BY <1>3, DirIs DEF Sound, DirInv
  <2>2. Added(x, w, d, e)
    BY <1>5, <2>1, AddEntryIs
  <2> HIDE DEF w
  <2>3. SameFiles(x, w, files2) /\ i \in files2
    BY <1>3, <2>2, AddSameFiles DEF files2
  <2>4. SameFiles(x, w, {i})
    BY <2>3 DEF SameFiles
  <2>5. QED  BY <1>3, <2>3, <2>4, SameCopyout
<1> HIDE DEF w
<1>12. QED  BY <1>1, <1>2, <1>4, <1>8, <1>10, <1>11 DEF GainsFile, Gains

(* jfs_rm takes the entry of its file away from the others.                 *)
LEMMA RemoveEntries ==
    ASSUME TextsAreNoDirectories, NEW v, NEW dirs, NEW files, Sound(v, dirs, files),
           NEW d \in dirs, NEW k \in DOMAIN Dirents(v, Ptr(v, d, 0)), NEW i \in files,
           Packed(v, d, Size(v, d))
    PROVE  Loses(v, RemoveFile(v, d, k, i), dirs, d, Dirents(v, Ptr(v, d, 0))[k])
<1> DEFINE b == Ptr(v, d, 0)
           w == RemoveFile(v, d, k, i)
           old == Dirents(v, b)
           new == Dirents(w, b)
           len == old[k].entry_len
<1>1. b \in Block
  BY DirIs
<1>2. \A c \in dirs : c # d => SameDir(v, w, c)
  BY CutPacked
<1>3. new = CutEntry(old, k) /\ RemovedFrom(v, w, b, k, i)
  BY RemoveFileCuts, RemoveFileIs
<1>4. Ptr(w, d, 0) = b
  BY <1>3 DEF RemovedFrom, Ptr
<1>5. \A o \in DOMAIN old : o \in Nat /\ old[o].entry_len \in Nat \ {0}
  BY <1>1, EntryFacts
<1>6. \A o \in DOMAIN old, p \in DOMAIN old : o < p => o + old[o].entry_len <= p
  BY <1>1 DEF Sound, EntriesInv
<1>7. \A o \in DOMAIN old, p \in DOMAIN old : old[o].name = old[p].name => o = p
  BY DEF Packed
<1>8. k \in Nat /\ k \in DOMAIN old /\ len \in Nat \ {0} /\ old[k].entry_len = len
  BY <1>5
<1> HIDE DEF old, len, w, b
<1>9. \A o \in DOMAIN new :
         /\ Source(k, len, o) \in DOMAIN old /\ Source(k, len, o) # k
         /\ new[o] = old[Source(k, len, o)]
  BY <1>3, <1>5, <1>8, CutEntryIs
<1>10. ASSUME NEW q \in DOMAIN old, q # k
       PROVE  \E o \in DOMAIN new : new[o] = old[q]
  <2>1. q < k \/ q >= k + len
    BY <1>5, <1>6, <1>8, <1>10
  <2>2. /\ q < k => q \in DOMAIN new /\ new[q] = old[q]
        /\ q >= k + len => q - len \in DOMAIN new /\ new[q - len] = old[q]
    BY <1>3, <1>5, <1>8, CutEntryKeeps
  <2>3. QED  BY <2>1, <2>2
<1> HIDE DEF new
<1>11. {new[o] : o \in DOMAIN new} = {old[o] : o \in DOMAIN old} \ {old[k]}
  BY <1>7, <1>8, <1>9, <1>10
<1>12. EntriesOf(w, d) = {new[o] : o \in DOMAIN new} /\ EntriesOf(v, d) = {old[o] : o \in DOMAIN old}
  BY <1>4 DEF EntriesOf, new, old, b
<1>13. \A c \in dirs : c # d => EntriesOf(w, c) = EntriesOf(v, c)
  BY <1>2, SameEntries
<1>14. QED  BY <1>11, <1>12, <1>13 DEF w, old, b, Loses

(* The second transaction of jfs_rm moves no entry.                         *)
LEMMA ResizeEntries ==
    ASSUME NEW v, NEW dirs, NEW files, Sound(v, dirs, files), NEW r, r.dir \in dirs
    PROVE  \A d \in dirs : EntriesOf(Resized(v, r), d) = EntriesOf(v, d)
<1> DEFINE w == Resized(v, r)
<1>1. \A d \in dirs : d \in Inode
  BY DirIs
<1>2. /\ v.inode \in [Inode -> [size : Nat \cup {None},
                                blockptrs : [0 .. Ptrs - 1 -> Block \cup {None}]]]
      /\ v = [block_bitmap |-> v.block_bitmap, inode_bitmap |-> v.inode_bitmap,
              inode |-> v.inode, data |-> v.data]
  BY VolumeOKIs DEF Sound
<1>3. w.data = v.data /\ w.inode = [v.inode EXCEPT ![r.dir].size = r.size]
  BY <1>2 DEF Resized
<1>4. \A d \in dirs : Ptr(w, d, 0) = Ptr(v, d, 0)
  BY <1>1, <1>2, <1>3, VolumeSizes DEF Ptr
<1>5. \A b : Dirents(w, b) = Dirents(v, b)
  BY <1>3 DEF Dirents
<1> HIDE DEF w
<1>6. QED  BY <1>4, <1>5 DEF EntriesOf, w

-----------------------------------------------------------------------------
(* Volumes that show a tree.                                                *)

(* The files of the tree are those that an inode has pointers for.          *)
LEMMA FilesAre ==
    ASSUME NEW file \in Seq(Text), Len(file) <= Ptrs
    PROVE  file \in AllFiles
<1>1. Len(file) \in Nat /\ file \in [1 .. Len(file) -> Text]
  OBVIOUS
<1>2. Len(file) \in 0 .. Ptrs
  BY <1>1, VolumeSizes
<1>3. QED  BY <1>1, <1>2 DEF AllFiles

(* What a path can name.                                                    *)
LEMMA NodesAre ==
    /\ Tree!Nothing # Tree!Directory
    /\ \A file : /\ Tree!FileOf(file) # Tree!Nothing /\ Tree!FileOf(file) # Tree!Directory
                 /\ Tree!FileOf(file).type = "file"
    /\ Tree!Nothing \in Tree!Node /\ Tree!Directory \in Tree!Node
    /\ \A file \in AllFiles : Tree!FileOf(file) \in Tree!Node
<1>1. /\ Tree!Nothing.type = "none" /\ Tree!Directory.type = "dir"
      /\ \A file : Tree!FileOf(file).type = "file"
  BY DEF Tree!Nothing, Tree!Directory, Tree!FileOf
<1>2. /\ Tree!Nothing # Tree!Directory
      /\ \A file : Tree!FileOf(file) # Tree!Nothing /\ Tree!FileOf(file) # Tree!Directory
  BY <1>1
<1>3. /\ Tree!Nothing \in Tree!Node /\ Tree!Directory \in Tree!Node
      /\ \A file \in AllFiles : Tree!FileOf(file) \in Tree!Node
  BY DEF Tree!Node
<1>4. QED  BY <1>1, <1>2, <1>3

(* An entry of a directory.                                                 *)
LEMMA EntriesAre ==
    ASSUME NEW v, NEW dirs, NEW files, Sound(v, dirs, files),
           NEW d \in dirs, NEW e \in EntriesOf(v, d)
    PROVE  /\ e.name \in Name \cup {".", "..", ".log"} /\ e.type \in {"dir", "file"}
           /\ e.type = "dir" => e.inode \in dirs
           /\ e.type = "file" => e.inode \in files /\ e.name \notin {".", ".."}
<1>1. Ptr(v, d, 0) \in Block
  BY DirIs
<1>2. PICK o \in DOMAIN Dirents(v, Ptr(v, d, 0)) : e = Dirents(v, Ptr(v, d, 0))[o]
  BY DEF EntriesOf
<1>3. QED  BY <1>1, <1>2, EntryFacts DEF IsDot

(* A directory has a name if one of its entries does.                       *)
LEMMA HasNameIs ==
    ASSUME NEW v, NEW d, NEW name
    PROVE  HasName(v, d, name) <=> \E e \in EntriesOf(v, d) : e.name = name
BY DEF HasName, EntriesOf

(* The path of a directory is that of the root, or names a directory.       *)
LEMMA DirPathIs ==
    ASSUME NEW t, NEW dirs, NEW where \in DirPaths(t, dirs), NEW d \in dirs
    PROVE  /\ where[d] = <<>> \/ (where[d] \in AllPaths /\ t[where[d]] = Tree!Directory)
           /\ where[d] \in Seq(TreeNames)
<1>1. where[d] = <<>> \/ (where[d] \in AllPaths /\ t[where[d]] = Tree!Directory)
  BY DEF DirPaths
<1>2. CASE where[d] = <<>>
  BY <1>2
<1>3. CASE where[d] \in AllPaths /\ t[where[d]] = Tree!Directory
  BY <1>3, AllPathsAre
<1>4. QED  BY <1>1, <1>2, <1>3

(* Where a name other than . and .. leads from a directory.                 *)
LEMMA FollowIs ==
    ASSUME NEW t, NEW dirs, NEW where \in DirPaths(t, dirs), NEW d \in dirs,
           NEW name \in TreeNames, name \notin {".", ".."}
    PROVE  LET p == Follow(where[d], name)
           IN  p = Append(where[d], name) /\ Front(p) = where[d] /\ Last(p) = name /\ p # <<>>
<1>1. Follow(where[d], name) = Append(where[d], name)
  BY DEF Follow
<1>2. QED  BY <1>1, DirPathIs, FrontOfAppend

(* A tree has what an entry names, other than . and .., at the path the     *)
(* entry leads to.                                                          *)
LEMMA EntryIsInTree ==
    ASSUME NEW v, NEW dirs, NEW files, Sound(v, dirs, files),
           NEW t, NEW where \in DirPaths(t, dirs), TreeShown(v, t, dirs, where),
           NEW d \in dirs, NEW e \in EntriesOf(v, d), e.name \notin {".", ".."}
    PROVE  LET p == Follow(where[d], e.name)
           IN  /\ e.name \in TreeNames /\ p \in AllPaths
               /\ e.type = "dir" => where[e.inode] = p /\ t[p] = Tree!Directory
               /\ e.type = "file" => t[p] = Tree!FileOf(copyout(v, e.inode))
               /\ t[p] # Tree!Nothing
<1> DEFINE p == Follow(where[d], e.name)
<1>1. /\ e.name \in TreeNames /\ e.type \in {"dir", "file"}
      /\ e.type = "dir" => e.inode \in dirs
  BY EntriesAre DEF TreeNames
<1>2. EntryShows(v, t, where, d, e)
  BY DEF TreeShown
<1>3. p # <<>>
  BY <1>1, FollowIs
<1>4. CASE e.type = "dir"
  <2>1. where[e.inode] = p
    BY <1>2, <1>4 DEF EntryShows
  <2>2. p \in AllPaths /\ t[p] = Tree!Directory
    BY <1>1, <1>3, <1>4, <2>1, DirPathIs
  <2>3. QED  BY <1>1, <1>4, <2>1, <2>2, NodesAre
<1>5. CASE e.type = "file"
  <2>1. p \in AllPaths /\ t[p] = Tree!FileOf(copyout(v, e.inode))
    BY <1>2, <1>5 DEF EntryShows
  <2>2. QED  BY <1>1, <1>5, <2>1, NodesAre
<1>6. QED  BY <1>1, <1>4, <1>5

(* Where a directory has no such name, the tree has nothing.                *)
LEMMA NothingThere ==
    ASSUME NEW v, NEW t, NEW dirs, NEW where \in DirPaths(t, dirs), TreeShown(v, t, dirs, where),
           NEW d \in dirs, NEW name \in TreeNames, name \notin {".", ".."}, ~HasName(v, d, name),
           Follow(where[d], name) \in AllPaths
    PROVE  t[Follow(where[d], name)] = Tree!Nothing
<1> DEFINE p == Follow(where[d], name)
<1>1. Front(p) = where[d] /\ Last(p) = name
  BY FollowIs
<1> HIDE DEF p
<1>2. SUFFICES ASSUME t[p] # Tree!Nothing PROVE FALSE
  BY DEF p
<1>3. PICK c \in dirs : where[c] = Front(p) /\ \E e \in EntriesOf(v, c) : e.name = Last(p)
  BY <1>2 DEF TreeShown, PathShows, p
<1>4. c = d
  BY <1>1, <1>3 DEF TreeShown, DirsShow
<1>5. HasName(v, d, name)
  BY <1>1, <1>3, <1>4, HasNameIs
<1>6. QED  BY <1>5

(* An entry that stays shows the same when what the tree has elsewhere      *)
(* changes.                                                                 *)
LEMMA EntryStillShows ==
    ASSUME NEW v, NEW t, NEW dirs, NEW where, NEW c \in dirs, NEW e,
           EntryShows(v, t, where, c, e),
           e.type = "dir" => e.inode \in dirs,
           NEW w, NEW t2, NEW where2, NEW p,
           \A d \in dirs : where2[d] = where[d],
           \A q \in AllPaths : q # p => t2[q] = t[q],
           e.type = "file" => /\ Follow(where[c], e.name) # p
                              /\ copyout(w, e.inode) = copyout(v, e.inode)
    PROVE  EntryShows(w, t2, where2, c, e)
BY DEF EntryShows

(* A volume shows the tree with one directory more after jfs_mkdir.         *)
LEMMA MakeShown ==
    ASSUME NEW v, NEW dirs, NEW files, Sound(v, dirs, files),
           NEW t \in [AllPaths -> Tree!Node],
           NEW where \in DirPaths(t, dirs), TreeShown(v, t, dirs, where),
           NEW d \in dirs, NEW name \in Name, ~HasName(v, d, name),
           NEW p \in AllPaths, p = Follow(where[d], name),
           NEW i, i \notin dirs,
           NEW w, SameFiles(v, w, files), GainsDir(v, w, dirs, d, name, i)
    PROVE  LET t2 == [t EXCEPT ![p] = Tree!Directory]
           IN  \E where2 \in DirPaths(t2, dirs \cup {i}) : TreeShown(w, t2, dirs \cup {i}, where2)
<1> DEFINE t2 == [t EXCEPT ![p] = Tree!Directory]
           dirs2 == dirs \cup {i}
           where2 == [c \in dirs2 |-> IF c = i THEN p ELSE where[c]]
<1>0. PICK e, self, up :
         /\ e.name = name /\ e.type = "dir" /\ e.inode = i
         /\ self.name = "." /\ self.type = "dir" /\ self.inode = i
         /\ up.name = ".." /\ up.type = "dir" /\ up.inode = d
         /\ EntriesOf(w, d) = EntriesOf(v, d) \cup {e}
         /\ \A c \in dirs : c # d => EntriesOf(w, c) = EntriesOf(v, c)
         /\ EntriesOf(w, i) = {self, up}
  BY DEF GainsDir, Gains
<1>1. name \in TreeNames /\ name \notin {".", ".."} /\ Root \in dirs
  BY VolumeAssumption DEF TreeNames, Sound, InodesInv
<1>2. Front(p) = where[d] /\ Last(p) = name /\ p # <<>>
  BY <1>1, FollowIs
<1>3. t[p] = Tree!Nothing
  BY <1>1, NothingThere
<1>4. t2[p] = Tree!Directory /\ \A q \in AllPaths : q # p => t2[q] = t[q]
  OBVIOUS
<1>5. where2[i] = p /\ \A c \in dirs : where2[c] = where[c]
  OBVIOUS
<1>6. \A c \in dirs : where[c] # p
  BY <1>2, <1>3, DirPathIs, NodesAre
<1>7. where2 \in DirPaths(t2, dirs2)
  <2>1. ASSUME NEW c \in dirs2
        PROVE  (IF c = i THEN p ELSE where[c]) \in
                  {<<>>} \cup {q \in AllPaths : t2[q] = Tree!Directory}
    <3>1. CASE c = i
      BY <1>4, <3>1
    <3>2. CASE c # i
      <4>1. c \in dirs
        BY <3>2
      <4>2. where[c] = <<>> \/ (where[c] \in AllPaths /\ t2[where[c]] = Tree!Directory)
        BY <1>4, <1>6, <4>1, DirPathIs
      <4>3. QED  BY <3>2, <4>2
    <3>3. QED  BY <3>1, <3>2
  <2> HIDE DEF t2, dirs2
  <2>2. QED  BY <2>1 DEF DirPaths
<1> HIDE DEF t2, where2, dirs2
<1>8. DirsShow(dirs2, where2)
  BY <1>1, <1>5, <1>6 DEF TreeShown, DirsShow, dirs2
<1>9. ASSUME NEW c \in dirs, NEW f \in EntriesOf(v, c)
      PROVE  EntryShows(w, t2, where2, c, f)
  <2>1. f.type = "dir" => f.inode \in dirs
    BY EntriesAre
  <2>2. f.type = "file" => Follow(where[c], f.name) # p
    BY <1>3, EntriesAre, EntryIsInTree
  <2>3. f.type = "file" => copyout(w, f.inode) = copyout(v, f.inode)
    <3> HAVE f.type = "file"
    <3>1. f.inode \in files
      BY EntriesAre
    <3>2. SameFiles(v, w, {f.inode})
      BY <3>1 DEF SameFiles
    <3>3. QED  BY <3>1, <3>2, SameCopyout
  <2>4. EntryShows(v, t, where, c, f)
    BY DEF TreeShown
  <2>5. f.type = "file" => /\ Follow(where[c], f.name) # p
                           /\ copyout(w, f.inode) = copyout(v, f.inode)
    BY <2>2, <2>3
  <2>6. QED  BY ONLY <1>4, <1>5, <2>1, <2>4, <2>5, c \in dirs, EntryStillShows
<1>10. EntryShows(w, t2, where2, d, e)
  BY <1>0, <1>5 DEF EntryShows
<1>11. EntryShows(w, t2, where2, i, self) /\ EntryShows(w, t2, where2, i, up)
  BY <1>0, <1>2, <1>5 DEF EntryShows, Follow
<1>12. \A c \in dirs2 : \A f \in EntriesOf(w, c) : EntryShows(w, t2, where2, c, f)
  BY <1>0, <1>9, <1>10, <1>11 DEF dirs2
<1>13. ASSUME NEW q \in AllPaths PROVE PathShows(w, t2, dirs2, where2, q)
  <2> SUFFICES ASSUME t2[q] # Tree!Nothing
               PROVE  \E c \in dirs2 : where2[c] = Front(q)
                                       /\ \E f \in EntriesOf(w, c) : f.name = Last(q)
    BY DEF PathShows
  <2>1. CASE q = p
    <3>1. d \in dirs2 /\ where2[d] = Front(q) /\ e \in EntriesOf(w, d) /\ e.name = Last(q)
      BY <1>0, <1>2, <1>5, <2>1 DEF dirs2
    <3>2. QED  BY <3>1
  <2>2. CASE q # p
    <3>1. t[q] # Tree!Nothing
      BY <1>4, <2>2
    <3>2. PICK c \in dirs : where[c] = Front(q) /\ \E f \in EntriesOf(v, c) : f.name = Last(q)
      BY <3>1 DEF TreeShown, PathShows
    <3>3. c \in dirs2 /\ where2[c] = Front(q) /\ \A f \in EntriesOf(v, c) : f \in EntriesOf(w, c)
      BY <1>0, <1>5, <3>2 DEF dirs2
    <3>4. QED  BY <3>2, <3>3
  <2>3. QED  BY <2>1, <2>2
<1>14. ASSUME NEW c \in dirs2, NEW dot \in {".", ".."} PROVE HasEntry(w, c, dot)
  <2>1. CASE c = i
    BY <1>0, <2>1 DEF HasEntry
  <2>2. CASE c # i
    <3>1. c \in dirs /\ HasEntry(v, c, dot)
      BY <2>2 DEF TreeShown, dirs2
    <3>2. QED  BY <1>0, <3>1 DEF HasEntry
  <2>3. QED  BY <2>1, <2>2
<1>15. TreeShown(w, t2, dirs2, where2)
  BY <1>8, <1>12, <1>13, <1>14 DEF TreeShown
<1>16. QED  BY <1>7, <1>15 DEF t2, dirs2

(* It shows the tree with one file more after jfs_copyin, and after         *)
(* jfs_format has made .log.                                                *)
LEMMA PutShown ==
    ASSUME NEW v, NEW dirs, NEW files, Sound(v, dirs, files),
           NEW t \in [AllPaths -> Tree!Node],
           NEW where \in DirPaths(t, dirs), TreeShown(v, t, dirs, where),
           NEW d \in dirs, NEW name \in TreeNames, ~HasName(v, d, name),
           NEW p \in AllPaths, p = Follow(where[d], name),
           NEW w, SameFiles(v, w, files),
           NEW i, NEW file, GainsFile(v, w, dirs, d, name, i, file)
    PROVE  LET t2 == [t EXCEPT ![p] = Tree!FileOf(file)]
           IN  where \in DirPaths(t2, dirs) /\ TreeShown(w, t2, dirs, where)
<1> DEFINE t2 == [t EXCEPT ![p] = Tree!FileOf(file)]
<1>0. PICK e :
         /\ e.name = name /\ e.type = "file" /\ copyout(w, e.inode) = file
         /\ EntriesOf(w, d) = EntriesOf(v, d) \cup {e}
         /\ \A c \in dirs : c # d => EntriesOf(w, c) = EntriesOf(v, c)
  BY DEF GainsFile, Gains
<1>1. name \notin {".", ".."}
  BY VolumeAssumption DEF TreeNames
<1>2. Front(p) = where[d] /\ Last(p) = name /\ p # <<>>
  BY <1>1, FollowIs
<1>3. t[p] = Tree!Nothing
  BY <1>1, NothingThere
<1>4. t2[p] = Tree!FileOf(file) /\ \A q \in AllPaths : q # p => t2[q] = t[q]
  OBVIOUS
<1> HIDE DEF t2
<1>5. where \in DirPaths(t2, dirs)
  <2>1. \A c \in dirs : where[c] = <<>> \/ (where[c] \in AllPaths /\ t2[where[c]] = Tree!Directory)
    BY <1>3, <1>4, DirPathIs, NodesAre
  <2>2. QED  BY <2>1 DEF DirPaths
<1>6. ASSUME NEW c \in dirs, NEW f \in EntriesOf(v, c)
      PROVE  EntryShows(w, t2, where, c, f)
  <2>1. f.type = "dir" => f.inode \in dirs
    BY EntriesAre
  <2>2. ASSUME f.type = "file"
        PROVE  Follow(where[c], f.name) # p /\ copyout(w, f.inode) = copyout(v, f.inode)
    <3>1. f.inode \in files /\ Follow(where[c], f.name) # p
      BY <1>3, <2>2, EntriesAre, EntryIsInTree
    <3>2. SameFiles(v, w, {f.inode})
      BY <3>1 DEF SameFiles
    <3>3. QED  BY <3>1, <3>2, SameCopyout
  <2>3. EntryShows(v, t, where, c, f)
    BY DEF TreeShown
  <2>4. QED  BY ONLY <1>4, <2>1, <2>2, <2>3, c \in dirs, EntryStillShows
<1>7. EntryShows(w, t2, where, d, e)
  BY <1>0, <1>4 DEF EntryShows
<1>8. \A c \in dirs : \A f \in EntriesOf(w, c) : EntryShows(w, t2, where, c, f)
  BY <1>0, <1>6, <1>7
<1>9. ASSUME NEW q \in AllPaths PROVE PathShows(w, t2, dirs, where, q)
  <2> SUFFICES ASSUME t2[q] # Tree!Nothing
               PROVE  \E c \in dirs : where[c] = Front(q)
                                      /\ \E f \in EntriesOf(w, c) : f.name = Last(q)
    BY DEF PathShows
  <2>1. CASE q = p
    <3>1. where[d] = Front(q) /\ e \in EntriesOf(w, d) /\ e.name = Last(q)
      BY <1>0, <1>2, <2>1
    <3>2. QED  BY <3>1
  <2>2. CASE q # p
    <3>1. t[q] # Tree!Nothing
      BY <1>4, <2>2
    <3>2. PICK c \in dirs : where[c] = Front(q) /\ \E f \in EntriesOf(v, c) : f.name = Last(q)
      BY <3>1 DEF TreeShown, PathShows
    <3>3. \A f \in EntriesOf(v, c) : f \in EntriesOf(w, c)
      BY <1>0, <3>2
    <3>4. QED  BY <3>2, <3>3
  <2>3. QED  BY <2>1, <2>2
<1>10. \A c \in dirs, dot \in {".", ".."} : HasEntry(w, c, dot)
  BY <1>0 DEF TreeShown, HasEntry
<1>11. TreeShown(w, t2, dirs, where)
  BY <1>8, <1>9, <1>10 DEF TreeShown
<1>12. QED  BY <1>5, <1>11 DEF t2

(* It shows the tree with one file less after the first transaction of      *)
(* jfs_rm.                                                                  *)
LEMMA RemoveShown ==
    ASSUME NEW v, NEW dirs, NEW files, Sound(v, dirs, files),
           NEW t \in [AllPaths -> Tree!Node],
           NEW where \in DirPaths(t, dirs), TreeShown(v, t, dirs, where),
           NEW d \in dirs, Packed(v, d, Size(v, d)),
           NEW k \in DOMAIN Dirents(v, Ptr(v, d, 0)),
           NEW e, e = Dirents(v, Ptr(v, d, 0))[k], e.type = "file",
           NEW p \in AllPaths, p = Follow(where[d], e.name),
           NEW w, SameFiles(v, w, files \ {e.inode}), Loses(v, w, dirs, d, e)
    PROVE  LET t2 == [t EXCEPT ![p] = Tree!Nothing]
           IN  where \in DirPaths(t2, dirs) /\ TreeShown(w, t2, dirs, where)
<1> DEFINE t2 == [t EXCEPT ![p] = Tree!Nothing]
<1>0. /\ EntriesOf(w, d) = EntriesOf(v, d) \ {e}
      /\ \A c \in dirs : c # d => EntriesOf(w, c) = EntriesOf(v, c)
  BY DEF Loses
<1>1. e \in EntriesOf(v, d)
  BY DEF EntriesOf
<1>2. e.name \in TreeNames /\ e.name \notin {".", ".."} /\ e.inode \in files
  BY <1>1, EntriesAre DEF TreeNames
<1>3. Front(p) = where[d] /\ Last(p) = e.name
  BY <1>2, FollowIs
<1>4. t[p] = Tree!FileOf(copyout(v, e.inode))
  BY <1>1, <1>2, EntryIsInTree
<1>5. t2[p] = Tree!Nothing /\ \A q \in AllPaths : q # p => t2[q] = t[q]
  OBVIOUS
<1> HIDE DEF t2
<1>6. where \in DirPaths(t2, dirs)
  <2>1. \A c \in dirs : where[c] = <<>> \/ (where[c] \in AllPaths /\ t2[where[c]] = Tree!Directory)
    BY <1>4, <1>5, DirPathIs, NodesAre
  <2>2. QED  BY <2>1 DEF DirPaths
<1>7. ASSUME NEW c \in dirs, NEW f \in EntriesOf(v, c), f # e, f.type = "file"
      PROVE  Follow(where[c], f.name) # p /\ f.inode \in files \ {e.inode}
  <2>1. f.inode \in files /\ f.name \in TreeNames /\ f.name \notin {".", ".."}
    BY <1>7, EntriesAre DEF TreeNames
  <2>2. PICK o \in DOMAIN Dirents(v, Ptr(v, c, 0)) : f = Dirents(v, Ptr(v, c, 0))[o]
    BY DEF EntriesOf
  <2>3. ~IsDot(e) /\ ~IsDot(f)
    BY <1>2, <2>1 DEF IsDot
  <2>4. f.inode # e.inode
    <3> SUFFICES ASSUME f.inode = e.inode PROVE FALSE
      OBVIOUS
    <3>1. c = d /\ o = k
      BY <2>2, <2>3, SameEntry
    <3>2. QED  BY <1>7, <2>2, <3>1
  <2>5. Follow(where[c], f.name) # p
    <3> SUFFICES ASSUME Follow(where[c], f.name) = p PROVE FALSE
      OBVIOUS
    <3>1. where[c] = where[d] /\ f.name = e.name
      BY <1>3, <2>1, FollowIs
    <3>2. c = d
      BY <3>1 DEF TreeShown, DirsShow
    <3>3. o = k
      BY <2>2, <3>1, <3>2 DEF Packed
    <3>4. QED  BY <1>7, <2>2, <3>2, <3>3
  <2>6. QED  BY <2>1, <2>4, <2>5
<1>8. ASSUME NEW c \in dirs, NEW f \in EntriesOf(v, c), f # e
      PROVE  EntryShows(w, t2, where, c, f)
  <2>1. f.type = "dir" => f.inode \in dirs
    BY EntriesAre
  <2>2. ASSUME f.type = "file"
        PROVE  Follow(where[c], f.name) # p /\ copyout(w, f.inode) = copyout(v, f.inode)
    <3>1. Follow(where[c], f.name) # p /\ f.inode \in files \ {e.inode}
      BY <1>7, <1>8, <2>2
    <3>2. SameFiles(v, w, {f.inode})
      BY <3>1 DEF SameFiles
    <3>3. QED  BY <3>1, <3>2, SameCopyout
  <2>3. EntryShows(v, t, where, c, f)
    BY DEF TreeShown
  <2>4. QED  BY ONLY <1>5, <2>1, <2>2, <2>3, c \in dirs, EntryStillShows
<1>9. ASSUME NEW c \in dirs, NEW f \in EntriesOf(w, c)
      PROVE  EntryShows(w, t2, where, c, f)
  <2>1. CASE c = d
    BY <1>0, <1>8, <2>1
  <2>2. CASE c # d
    <3>1. f \in EntriesOf(v, c)
      BY <1>0, <2>2
    <3>2. f # e
      <4> SUFFICES ASSUME f = e PROVE FALSE
        OBVIOUS
      <4>1. PICK o \in DOMAIN Dirents(v, Ptr(v, c, 0)) : f = Dirents(v, Ptr(v, c, 0))[o]
        BY <3>1 DEF EntriesOf
      <4>2. ~IsDot(e)
        BY <1>2 DEF IsDot
      <4>3. c = d
        BY <4>1, <4>2, SameEntry
      <4>4. QED  BY <2>2, <4>3
    <3>3. QED  BY <1>8, <3>1, <3>2
  <2>3. QED  BY <2>1, <2>2
<1>10. ASSUME NEW q \in AllPaths PROVE PathShows(w, t2, dirs, where, q)
  <2> SUFFICES ASSUME t2[q] # Tree!Nothing
               PROVE  \E c \in dirs : where[c] = Front(q)
                                      /\ \E f \in EntriesOf(w, c) : f.name = Last(q)
    BY DEF PathShows
  <2>1. q # p /\ t[q] # Tree!Nothing
    BY <1>5
  <2>2. PICK c \in dirs : where[c] = Front(q) /\ \E f \in EntriesOf(v, c) : f.name = Last(q)
    BY <2>1 DEF TreeShown, PathShows
  <2>3. PICK f \in EntriesOf(v, c) : f.name = Last(q)
    BY <2>2
  <2>4. CASE c = d
    <3>1. f # e
      <4> SUFFICES ASSUME f = e PROVE FALSE
        OBVIOUS
      <4>1. Front(q) = Front(p) /\ Last(q) = Last(p)
        BY <1>3, <2>2, <2>3, <2>4
      <4>2. q = Append(Front(q), Last(q)) /\ p = Append(Front(p), Last(p))
        BY AllPathsAre, FrontAndLast
      <4>3. QED  BY <2>1, <4>1, <4>2
    <3>2. f \in EntriesOf(w, c)
      BY <1>0, <2>4, <3>1
    <3>3. QED  BY <2>2, <2>3, <3>2
  <2>5. CASE c # d
    BY <1>0, <2>2, <2>3, <2>5
  <2>6. QED  BY <2>4, <2>5
<1>11. \A c \in dirs, dot \in {".", ".."} : HasEntry(w, c, dot)
  BY <1>0, <1>2 DEF TreeShown, HasEntry
<1>12. TreeShown(w, t2, dirs, where)
  BY <1>9, <1>10, <1>11 DEF TreeShown
<1>13. QED  BY <1>6, <1>12 DEF t2

-----------------------------------------------------------------------------
(* Searches on such a volume.                                               *)

(* A search that does not fail goes on from a directory to what an entry    *)
(* with its name leads to.                                                  *)
LEMMA DescendFollows ==
    ASSUME NEW v, NEW dirs, NEW files, Sound(v, dirs, files),
           NEW t, NEW where \in DirPaths(t, dirs), TreeShown(v, t, dirs, where),
           NEW types \in SUBSET {"dir", "file"}, NEW name,
           NEW d \in Reach(dirs, files, types) \cup {None, Died},
           Descend(v, d, name, types) \in dirs
    PROVE  d \in dirs /\ where[Descend(v, d, name, types)] = Follow(where[d], name)
<1> DEFINE e == Lookup(v, d, name)
           c == Descend(v, d, name, types)
<1>1. \A x \in dirs \cup files : x \in Nat
  BY DirIs, InodeNumbers
<1>2. c \in Nat /\ None \notin Nat /\ Died \notin Nat
  BY <1>1 DEF None, Died
<1>3. d \in dirs \cup files
  <2>1. d \notin {None, Died}
    BY <1>2 DEF Descend, None, Died
  <2>2. QED  BY <2>1 DEF Reach
<1>4. ~(d < 0)
  BY <1>1, <1>3
<1>5. e.type # "junk" /\ e.type \in types /\ c = e.inode
  BY <1>2, <1>4 DEF Descend
<1>6. d \in dirs /\ e \in EntriesOf(v, d) /\ e.name = name
  BY <1>3, <1>5, LookupSound, NoEntryType DEF EntriesOf
<1> HIDE DEF e
<1>7. e.type = "dir"
  BY <1>5, <1>6, EntriesAre DEF Sound, InodesInv
<1>8. EntryShows(v, t, where, d, e)
  BY <1>6 DEF TreeShown
<1>9. QED  BY <1>5, <1>6, <1>7, <1>8 DEF EntryShows

(* A search for the directory part of a path that finds a directory finds   *)
(* the one with the path that the names lead to.                            *)
LEMMA SearchFollows ==
    ASSUME NEW v, NEW dirs, NEW files, Sound(v, dirs, files),
           NEW t, NEW where \in DirPaths(t, dirs), TreeShown(v, t, dirs, where),
           NEW types \in SUBSET {"dir", "file"},
           NEW path, Len(path) \in Nat \ {0}, DirOf(v, path, types) \in dirs,
           NEW c, c[0] = <<>>, \A n \in 1 .. Len(path) - 1 : c[n] = Follow(c[n - 1], path[n])
    PROVE  where[DirOf(v, path, types)] = c[Len(path) - 1]
<1>1. PICK d :
         /\ d[0] = Root /\ DirOf(v, path, types) = d[Len(path) - 1]
         /\ \A n \in 1 .. Len(path) - 1 : d[n] = Descend(v, d[n - 1], path[n], types)
         /\ \A n \in 0 .. Len(path) - 1 :
               d[n] \in Reach(dirs, files, types) \cup {None, Died}
  BY ONLY Sound(v, dirs, files), types \in SUBSET {"dir", "file"}, Len(path) \in Nat \ {0},
          DirOf(v, path, types) \in dirs, DirOfIs
<1> DEFINE N == Len(path) - 1
<1>2. N \in Nat
  OBVIOUS
<1> HIDE DEF N
<1> DEFINE S == {n \in 0 .. N : d[n] \in dirs => where[d[n]] = c[n]}
<1>3. 0 \in S
  <2>1. where[d[0]] = c[0]
    BY <1>1 DEF TreeShown, DirsShow
  <2>2. QED  BY <1>2, <2>1
<1>4. ASSUME NEW n \in 1 .. N, n - 1 \in S PROVE n \in S
  <2>1. n - 1 \in 0 .. N /\ n \in 0 .. N
    BY <1>2
  <2>2. SUFFICES ASSUME d[n] \in dirs PROVE where[d[n]] = c[n]
    BY <2>1
  <2>3. d[n] = Descend(v, d[n - 1], path[n], types)
        /\ d[n - 1] \in Reach(dirs, files, types) \cup {None, Died}
    BY <1>1, <2>1 DEF N
  <2>4. d[n - 1] \in dirs /\ where[d[n]] = Follow(where[d[n - 1]], path[n])
    BY ONLY Sound(v, dirs, files), where \in DirPaths(t, dirs), TreeShown(v, t, dirs, where),
            types \in SUBSET {"dir", "file"}, <2>2, <2>3, DescendFollows
  <2>5. where[d[n - 1]] = c[n - 1] /\ c[n] = Follow(c[n - 1], path[n])
    BY <1>4, <2>4 DEF N
  <2>6. QED  BY <2>4, <2>5
<1>5. \A n \in 0 .. N : n \in S
  <2> HIDE DEF S
  <2> QED  BY <1>2, <1>3, <1>4, InductionUpTo
<1>6. QED  BY <1>1, <1>2, <1>5 DEF N

(* A search for a name that an orderly directory has finds an entry with it.*)
LEMMA LookupFinds ==
    ASSUME NEW v, NEW dirs, NEW files, Sound(v, dirs, files),
           NEW d \in dirs, Orderly(v, d), NEW name
    PROVE  LET e == Lookup(v, d, name)
           IN  /\ HasName(v, d, name) => e \in EntriesOf(v, d) /\ e.name = name
               /\ ~HasName(v, d, name) => e.type \in {"junk", "missing"}
<1> DEFINE e == Lookup(v, d, name)
<1>1. e \in {Missing, Junk} \/ (e \in EntriesOf(v, d) /\ e.name = name)
  BY LookupSound DEF EntriesOf
<1>2. CASE e \in {Missing, Junk}
  <2>1. e.type \in {"junk", "missing"}
    BY <1>2, NoEntryType
  <2> HIDE DEF e
  <2>2. e.type \notin {"dir", "file"}
    BY <2>1
  <2>3. ~HasName(v, d, name)
    BY <2>2, NotFoundIsNew DEF e
  <2>4. QED  BY <2>1, <2>3 DEF e
<1>3. CASE e \in EntriesOf(v, d) /\ e.name = name
  BY <1>3, HasNameIs
<1>4. QED  BY <1>1, <1>2, <1>3

(* The first names of p, one more at a time.                                *)
FirstNames(p, q) ==
    /\ \A n \in 0 .. Len(p) - 1 : q[n] \in Seq(TreeNames) /\ Len(q[n]) = n
    /\ \A n \in 1 .. Len(p) - 1 : q[n] = Append(q[n - 1], p[n])

(* A search for the directory part of a path without . and .. finds the     *)
(* directory with that path, if there is one.                               *)
LEMMA SearchFinds ==
    ASSUME NEW v, NEW dirs, NEW files, Sound(v, dirs, files), AllOrderly(v, dirs),
           NEW t, NEW where \in DirPaths(t, dirs), TreeShown(v, t, dirs, where),
           NEW p \in AllPaths, NEW q, FirstNames(p, q),
           NEW x \in dirs, where[x] = q[Len(p) - 1]
    PROVE  DirOf(v, p, {"dir"}) = x
<1>1. /\ p \in Seq(TreeNames) /\ Len(p) \in Nat \ {0}
      /\ \A n \in 1 .. Len(p) : p[n] \in TreeNames /\ p[n] \notin {".", ".."}
  <2>1. p \in Seq(TreeNames) /\ p # <<>> /\ \A n \in 1 .. Len(p) : p[n] \notin {".", ".."}
    BY AllPathsAre
  <2>2. QED  BY <2>1
<1>2. PICK d :
         /\ d[0] = Root /\ DirOf(v, p, {"dir"}) = d[Len(p) - 1]
         /\ \A n \in 1 .. Len(p) - 1 : d[n] = Descend(v, d[n - 1], p[n], {"dir"})
         /\ \A n \in 0 .. Len(p) - 1 :
               d[n] \in Reach(dirs, files, {"dir"}) \cup {None, Died}
  <2>1. {"dir"} \in SUBSET {"dir", "file"}
    OBVIOUS
  <2>2. DirOf(v, p, {"dir"}) \in Reach(dirs, files, {"dir"}) \cup {None, Died}
    BY <1>1, <2>1, DirOfSound
  <2>3. QED  BY ONLY <1>1, <2>1, <2>2, Sound(v, dirs, files), DirOfIs
<1> DEFINE N == Len(p) - 1
<1>3. N \in Nat /\ \A n \in 1 .. N : p[n] \in TreeNames /\ p[n] \notin {".", ".."}
  BY <1>1
<1>4. /\ \A n \in 0 .. N : q[n] \in Seq(TreeNames) /\ Len(q[n]) = n
      /\ \A n \in 1 .. N : q[n] = Append(q[n - 1], p[n])
  BY DEF FirstNames
<1> HIDE DEF N
<1> DEFINE S == {n \in 0 .. N : \A c \in dirs : where[c] = q[n] => d[n] = c}
<1>5. 0 \in S
  <2>1. q[0] = <<>>
    BY <1>3, <1>4
  <2>2. Root \in dirs /\ where[Root] = <<>>
    BY DEF Sound, InodesInv, TreeShown, DirsShow
  <2>3. \A c \in dirs : where[c] = q[0] => d[0] = c
    BY <1>2, <2>1, <2>2 DEF TreeShown, DirsShow
  <2>4. QED  BY <1>3, <2>3
<1>6. ASSUME NEW n \in 1 .. N, n - 1 \in S PROVE n \in S
  <2>1. n - 1 \in 0 .. N /\ n \in 0 .. N
    BY <1>3
  <2>2. SUFFICES ASSUME NEW c \in dirs, where[c] = q[n] PROVE d[n] = c
    BY <2>1
  <2>3. q[n - 1] \in Seq(TreeNames) /\ q[n] = Append(q[n - 1], p[n])
        /\ p[n] \in TreeNames /\ p[n] \notin {".", ".."}
    BY <1>3, <1>4, <2>1
  <2>4. q[n] # <<>> /\ Front(q[n]) = q[n - 1] /\ Last(q[n]) = p[n]
    <3> DEFINE r == Append(q[n - 1], p[n])
    <3>1. r # <<>> /\ Front(r) = q[n - 1] /\ Last(r) = p[n]
      BY ONLY <2>3, FrontOfAppend
    <3>2. QED  BY <2>3, <3>1
  <2>5. q[n] \in AllPaths /\ t[q[n]] = Tree!Directory
    BY <2>2, <2>4, DirPathIs
  <2>6. PICK y \in dirs : where[y] = q[n - 1] /\ \E e \in EntriesOf(v, y) : e.name = p[n]
    BY <2>4, <2>5, NodesAre DEF TreeShown, PathShows
  <2>7. d[n - 1] = y
    BY <1>6, <2>6
  <2> DEFINE e == Lookup(v, y, p[n])
  <2>8. e \in EntriesOf(v, y) /\ e.name = p[n]
    BY <2>6, HasNameIs, LookupFinds DEF AllOrderly
  <2> HIDE DEF e
  <2>9. Follow(where[y], e.name) = q[n]
    BY <2>3, <2>6, <2>8 DEF Follow
  <2>10. e.type = "dir" /\ e.inode \in dirs /\ where[e.inode] = q[n]
    <3>1. e.type \in {"dir", "file"}
      BY <2>8, EntriesAre
    <3>2. e.type # "file"
      <4>1. e.type = "file" => t[Follow(where[y], e.name)] = Tree!FileOf(copyout(v, e.inode))
        BY <2>3, <2>8, EntryIsInTree
      <4>2. QED  BY <2>5, <2>9, <4>1, NodesAre
    <3>3. QED  BY <2>3, <2>8, <2>9, <3>1, <3>2, EntriesAre, EntryIsInTree
  <2>11. e.inode = c
    BY <2>2, <2>10 DEF TreeShown, DirsShow
  <2>12. y \in Nat
    BY DirIs, InodeNumbers
  <2>13. Descend(v, y, p[n], {"dir"}) = e.inode
    BY <2>10, <2>12 DEF Descend, e
  <2>14. QED  BY <1>2, <2>7, <2>11, <2>13 DEF N
<1>7. \A n \in 0 .. N : n \in S
  <2> HIDE DEF S
  <2> QED  BY <1>3, <1>5, <1>6, InductionUpTo
<1>8. N \in S
  BY <1>3, <1>7
<1>9. where[x] = q[N]
  BY DEF N
<1>10. QED  BY <1>2, <1>8, <1>9 DEF N

(* What a path names on the volume is what the tree has there.              *)
LEMMA SeenIsTree ==
    ASSUME NEW v, NEW dirs, NEW files, Sound(v, dirs, files), AllOrderly(v, dirs),
           NEW t, NEW where \in DirPaths(t, dirs), TreeShown(v, t, dirs, where),
           NEW p \in AllPaths
    PROVE  Seen(v, p) = t[p]
<1> DEFINE N == Len(p)
           q == [n \in 0 .. N |-> [k \in 1 .. n |-> p[k]]]
           d == DirOf(v, p, {"dir"})
           name == Last(p)
           e == Lookup(v, d, name)
<1>1. /\ p \in Seq(TreeNames) /\ N \in Nat \ {0}
      /\ \A n \in 1 .. N : p[n] \in TreeNames /\ p[n] \notin {".", ".."}
  <2>1. p \in Seq(TreeNames) /\ p # <<>> /\ \A n \in 1 .. Len(p) : p[n] \notin {".", ".."}
    BY AllPathsAre
  <2>2. QED  BY <2>1
<1>2. \A n \in 0 .. N : q[n] \in Seq(TreeNames) /\ Len(q[n]) = n /\ \A k \in 1 .. n : q[n][k] = p[k]
  <2> TAKE n \in 0 .. N
  <2>1. q[n] = [k \in 1 .. n |-> p[k]] /\ \A k \in 1 .. n : p[k] \in TreeNames
    BY <1>1
  <2> HIDE DEF q
  <2>2. QED  BY <1>1, <2>1
<1> HIDE DEF q
<1>3. \A n \in 1 .. N : q[n] = Append(q[n - 1], p[n])
  <2> TAKE n \in 1 .. N
  <2> DEFINE r == q[n - 1]
  <2>1. /\ r \in Seq(TreeNames) /\ Len(r) = n - 1 /\ \A k \in 1 .. n - 1 : r[k] = p[k]
        /\ n \in Nat \ {0} /\ p[n] \in TreeNames
    BY <1>1, <1>2
  <2>2. q[n] \in Seq(TreeNames) /\ Len(q[n]) = n /\ \A k \in 1 .. n : q[n][k] = p[k]
    BY <1>1, <1>2
  <2> HIDE DEF r
  <2>3. /\ Append(r, p[n]) \in Seq(TreeNames) /\ Len(Append(r, p[n])) = n
        /\ \A k \in 1 .. n : Append(r, p[n])[k] = p[k]
    BY <2>1
  <2>4. QED  BY <2>2, <2>3, SameElements DEF r
<1>4. Front(p) = q[N - 1] /\ name = p[N]
  <2>1. q[N] = p
    BY <1>1, <1>2, SameElements
  <2>2. q[N - 1] \in Seq(TreeNames) /\ p[N] \in TreeNames /\ p = Append(q[N - 1], p[N])
    BY <1>1, <1>2, <1>3, <2>1
  <2>3. Front(Append(q[N - 1], p[N])) = q[N - 1]
    BY ONLY <2>2, FrontOfAppend
  <2>4. QED  BY <2>2, <2>3 DEF Last
<1>5. name \in TreeNames /\ name \notin {".", ".."} /\ Root \in dirs
  BY <1>1, <1>4 DEF Sound, InodesInv
<1>6. CASE d \in dirs
  <2>1. where[d] = Front(p)
    <3>1. q[0] = <<>> /\ \A n \in 1 .. N - 1 : q[n] = Follow(q[n - 1], p[n])
      <4>1. q[0] = <<>>
        BY <1>1, <1>2
      <4>2. ASSUME NEW n \in 1 .. N - 1 PROVE q[n] = Follow(q[n - 1], p[n])
        <5>1. n \in 1 .. N
          BY <1>1
        <5>2. p[n] \notin {".", ".."} /\ q[n] = Append(q[n - 1], p[n])
          BY <1>1, <1>3, <5>1
        <5>3. QED  BY <5>2 DEF Follow
      <4>3. QED  BY <4>1, <4>2
    <3>2. {"dir"} \in SUBSET {"dir", "file"}
      OBVIOUS
    <3>3. QED  BY <1>1, <1>4, <1>6, <3>1, <3>2, SearchFollows
  <2>2. Follow(where[d], name) = p
    <3>1. Follow(where[d], name) = Append(Front(p), Last(p))
      BY <1>5, <2>1 DEF Follow
    <3>2. p # <<>>
      BY <1>1
    <3>3. QED  BY <1>1, <3>1, <3>2, FrontAndLast
  <2>3. ~(d < 0)
    <3>1. d \in Nat
      BY <1>6, DirIs, InodeNumbers
    <3>2. QED  BY <3>1
  <2>4. Orderly(v, d)
    BY <1>6 DEF AllOrderly
  <2> HIDE DEF d, name
  <2>5. CASE HasName(v, d, name)
    <3>1. e \in EntriesOf(v, d) /\ e.name = name
      BY <1>6, <2>4, <2>5, LookupFinds
    <3> HIDE DEF e
    <3>2. /\ e.type \in {"dir", "file"}
          /\ e.type = "dir" => t[p] = Tree!Directory
          /\ e.type = "file" => t[p] = Tree!FileOf(copyout(v, e.inode))
      BY <1>5, <1>6, <2>2, <3>1, EntriesAre, EntryIsInTree
    <3>3. Seen(v, p) = IF e.type = "dir" THEN Tree!Directory ELSE Tree!FileOf(copyout(v, e.inode))
      BY <2>3, <3>2 DEF Seen, d, e, name
    <3>4. QED  BY <3>2, <3>3
  <2>6. CASE ~HasName(v, d, name)
    <3>1. e.type \in {"junk", "missing"}
      BY <1>6, <2>4, <2>6, LookupFinds
    <3>2. Seen(v, p) = Tree!Nothing
      BY <3>1 DEF Seen, d, e, name
    <3>3. t[p] = Tree!Nothing
      BY <1>5, <1>6, <2>2, <2>6, NothingThere
    <3>4. QED  BY <3>2, <3>3
  <2>7. QED  BY <2>5, <2>6
<1>7. CASE d \notin dirs
  <2>1. d \in {None, Died}
    <3>1. {"dir"} \in SUBSET {"dir", "file"} /\ Reach(dirs, files, {"dir"}) = dirs
      BY DEF Reach
    <3>2. d \in Reach(dirs, files, {"dir"}) \cup {None, Died}
      BY <1>1, <3>1, DirOfSound
    <3>3. QED  BY <1>7, <3>1, <3>2
  <2>2. Seen(v, p) = Tree!Nothing
    BY <2>1 DEF Seen, None, Died
  <2>3. t[p] = Tree!Nothing
    <3> SUFFICES ASSUME t[p] # Tree!Nothing PROVE FALSE
      OBVIOUS
    <3>1. PICK x \in dirs : where[x] = q[Len(p) - 1]
      BY <1>4 DEF TreeShown, PathShows
    <3>2. FirstNames(p, q)
      <4>1. /\ \A n \in 0 .. Len(p) - 1 : n \in 0 .. N
            /\ \A n \in 1 .. Len(p) - 1 : n \in 1 .. N
        BY <1>1
      <4>2. \A n \in 0 .. Len(p) - 1 : q[n] \in Seq(TreeNames) /\ Len(q[n]) = n
        BY <1>2, <4>1
      <4>3. \A n \in 1 .. Len(p) - 1 : q[n] = Append(q[n - 1], p[n])
        BY <1>3, <4>1
      <4>4. QED  BY <4>2, <4>3 DEF FirstNames
    <3>3. d = x
      BY ONLY Sound(v, dirs, files), AllOrderly(v, dirs), where \in DirPaths(t, dirs),
              TreeShown(v, t, dirs, where), p \in AllPaths, <3>1, <3>2, SearchFinds
    <3>4. QED  BY <1>7, <3>3
  <2>4. QED  BY <2>2, <2>3
<1>8. QED  BY <1>6, <1>7

(* The directory that a tool finds for the path of a user is where the tree *)
(* has it.                                                                  *)
LEMMA UserPathIs ==
    ASSUME NEW v, NEW dirs, NEW files, Sound(v, dirs, files),
           NEW t, NEW where \in DirPaths(t, dirs), TreeShown(v, t, dirs, where),
           NEW types \in SUBSET {"dir", "file"},
           NEW path \in Path, DirOf(v, path, types) \in dirs
    PROVE  LET p == Canonical(path)
               d == DirOf(v, path, types)
           IN  /\ p \in AllPaths /\ p = Follow(where[d], Last(path))
               /\ Front(p) = where[d]
               /\ Front(p) = <<>> \/ t[Front(p)] = Tree!Directory
<1> DEFINE p == Canonical(path)
           d == DirOf(v, path, types)
<1>1. Len(path) \in Nat \ {0} /\ Last(path) \in Name
  BY PathIs
<1>2. PICK c : /\ c[0] = <<>> /\ c[Len(path)] = Canonical(path)
               /\ \A n \in 1 .. Len(path) : c[n] = Follow(c[n - 1], path[n])
               /\ \A n \in 0 .. Len(path) : c[n] \in Seq(Name) /\ Len(c[n]) <= n
  BY CanonicalIs
<1>3. /\ p \in AllPaths /\ p = Append(c[Len(path) - 1], Last(path))
      /\ Front(p) = c[Len(path) - 1]
  BY <1>2, CanonicalEnds
<1>4. where[d] = c[Len(path) - 1]
  <2>1. \A n \in 1 .. Len(path) - 1 : c[n] = Follow(c[n - 1], path[n])
    BY <1>1, <1>2
  <2>2. c[0] = <<>> /\ Len(path) \in Nat \ {0}
    BY <1>1, <1>2
  <2>3. QED  BY <2>1, <2>2, SearchFollows
<1> HIDE DEF p, d
<1>5. Last(path) \notin {".", ".."}
  BY <1>1, VolumeAssumption
<1>6. p = Follow(where[d], Last(path))
  BY <1>3, <1>4, <1>5 DEF Follow
<1>7. where[d] = <<>> \/ t[where[d]] = Tree!Directory
  BY DirPathIs DEF d
<1>8. QED  BY <1>3, <1>4, <1>6, <1>7 DEF p, d

-----------------------------------------------------------------------------
(* The tools.                                                               *)

(* jfs_mkdir makes a directory where the tree has nothing, in one that it   *)
(* has.                                                                     *)
LEMMA MadeShown ==
    ASSUME TextsAreNoDirectories, HasRoom,
           NEW v, NEW dirs, NEW files, Sound(v, dirs, files), AllOrderly(v, dirs),
           NEW t \in [AllPaths -> Tree!Node],
           NEW where \in DirPaths(t, dirs), TreeShown(v, t, dirs, where),
           NEW path \in Path, mkdirResult(v, path) = "ok"
    PROVE  LET p == Canonical(path)
               t2 == [t EXCEPT ![p] = Tree!Directory]
               dirs2 == dirs \cup {get_free_inode(v)}
           IN  /\ p \in AllPaths /\ t[p] = Tree!Nothing
               /\ Front(p) = <<>> \/ t[Front(p)] = Tree!Directory
               /\ \E where2 \in DirPaths(t2, dirs2) : TreeShown(Made(v, path), t2, dirs2, where2)
<1> DEFINE d == DirOf(v, path, {"dir", "file"})
           i == get_free_inode(v)
           b == get_free_block(v)
           name == Last(path)
           p == Canonical(path)
           w == Made(v, path)
<1>1. /\ d \in dirs /\ name \in Name
      /\ i \in Inode /\ ~InodeUsed(v, i) /\ b \in Block /\ ~BlockUsed(v, b)
      /\ w = mk_new_directory(v, d, name, i, b)
  BY MkdirIs
<1>2. Lookup(v, d, name) = Missing
  BY DEF mkdirResult
<1>3. SameFiles(v, w, files)
  BY MkdirSound
<1>4. /\ p \in AllPaths /\ p = Follow(where[d], name)
      /\ Front(p) = <<>> \/ t[Front(p)] = Tree!Directory
  <2>1. {"dir", "file"} \in SUBSET {"dir", "file"}
    OBVIOUS
  <2>2. QED  BY <1>1, <2>1, UserPathIs
<1> HIDE DEF d, i, b, name, p, w
<1>5. ~HasName(v, d, name)
  BY <1>1, <1>2, NotFoundIsNew, NoEntryType DEF AllOrderly
<1>6. t[p] = Tree!Nothing
  <2>1. name \in TreeNames /\ name \notin {".", ".."}
    BY <1>1, VolumeAssumption DEF TreeNames
  <2>2. QED  BY <1>1, <1>4, <1>5, <2>1, NothingThere
<1>7. i \notin dirs
  BY <1>1 DEF Sound, InodesInv
<1>8. GainsDir(v, w, dirs, d, name, i)
  <2>1. GainsDir(v, mk_new_directory(v, d, name, i, b), dirs, d, name, i)
    BY <1>1, <1>5, NewDirEntries
  <2>2. QED  BY <1>1, <2>1
<1> DEFINE t2 == [t EXCEPT ![p] = Tree!Directory]
<1>9. \E where2 \in DirPaths(t2, dirs \cup {i}) : TreeShown(w, t2, dirs \cup {i}, where2)
  BY ONLY Sound(v, dirs, files), t \in [AllPaths -> Tree!Node], where \in DirPaths(t, dirs),
          TreeShown(v, t, dirs, where), <1>1, <1>3, <1>4, <1>5, <1>7, <1>8, MakeShown
<1>10. QED  BY <1>4, <1>6, <1>9 DEF p, w, i

(* jfs_copyin puts its file where the tree has nothing, in a directory that *)
(* it has.                                                                  *)
LEMMA CopiedInShown ==
    ASSUME TextsAreNoDirectories, HasRoom,
           NEW v, NEW dirs, NEW files, Sound(v, dirs, files), AllOrderly(v, dirs),
           NEW t \in [AllPaths -> Tree!Node],
           NEW where \in DirPaths(t, dirs), TreeShown(v, t, dirs, where),
           NEW path \in Path, ~Taken(v, path),
           NEW file \in Seq(Text), copyinResult(v, path, file) = "ok"
    PROVE  LET p == Canonical(path)
               t2 == [t EXCEPT ![p] = Tree!FileOf(Truncated(file))]
           IN  /\ p \in AllPaths /\ t[p] = Tree!Nothing
               /\ Front(p) = <<>> \/ t[Front(p)] = Tree!Directory
               /\ where \in DirPaths(t2, dirs)
               /\ TreeShown(CopiedIn(v, path, file), t2, dirs, where)
<1> DEFINE d == DirOf(v, path, {"dir"})
           i == get_free_inode(v)
           cut == Truncated(file)
           name == Last(path)
           p == Canonical(path)
           w == CopiedIn(v, path, file)
<1>1. /\ d \in dirs /\ name \in Name
      /\ i \in Inode /\ ~InodeUsed(v, i)
      /\ cut \in Seq(Text) /\ Len(cut) <= Ptrs /\ ~Store(set_inode_used(v, i), cut).full
      /\ w = PutFile(v, d, path, i, cut)
  BY CopyinIs
<1>2. d \in Nat
  BY <1>1, DirIs, InodeNumbers
<1>3. Lookup(v, d, name).type \notin {"dir", "file"}
  BY <1>2 DEF Taken
<1>4. SameFiles(v, w, files)
  BY CopyinSound
<1>5. /\ p \in AllPaths /\ p = Follow(where[d], name)
      /\ Front(p) = <<>> \/ t[Front(p)] = Tree!Directory
  <2>1. {"dir"} \in SUBSET {"dir", "file"}
    OBVIOUS
  <2>2. QED  BY <1>1, <2>1, UserPathIs
<1> HIDE DEF d, i, cut, p, w
<1>6. ~HasName(v, d, name)
  BY <1>1, <1>3, NotFoundIsNew DEF AllOrderly
<1>7. name \in TreeNames /\ name \notin {".", ".."} /\ name \in Name \cup {".log"}
  BY <1>1, VolumeAssumption DEF TreeNames
<1>8. t[p] = Tree!Nothing
  BY <1>1, <1>5, <1>6, <1>7, NothingThere
<1>9. Len(path) \in Nat \ {0} /\ EntryLen(PathLength(path)) <= LongEntry
  BY PathIs, LongEntryIs DEF HasRoom
<1>10. GainsFile(v, w, dirs, d, name, i, cut)
  <2>1. GainsFile(v, PutFile(v, d, path, i, cut), dirs, d, name, i, cut)
    BY <1>1, <1>6, <1>7, <1>9, PutFileEntries
  <2>2. QED  BY <1>1, <2>1
<1> HIDE DEF name
<1> DEFINE t2 == [t EXCEPT ![p] = Tree!FileOf(cut)]
<1>11. where \in DirPaths(t2, dirs) /\ TreeShown(w, t2, dirs, where)
  BY ONLY Sound(v, dirs, files), t \in [AllPaths -> Tree!Node], where \in DirPaths(t, dirs),
          TreeShown(v, t, dirs, where), <1>1, <1>4, <1>5, <1>6, <1>7, <1>10, PutShown
<1>12. QED  BY <1>5, <1>8, <1>11 DEF p, w, cut

(* The first transaction of jfs_rm removes a file that the tree has.        *)
LEMMA RemovedShown ==
    ASSUME TextsAreNoDirectories,
           NEW v, NEW dirs, NEW files, Sound(v, dirs, files), AllOrderly(v, dirs),
           NEW t \in [AllPaths -> Tree!Node],
           NEW where \in DirPaths(t, dirs), TreeShown(v, t, dirs, where),
           NEW path \in Path, rmResult(v, path) = "rm"
    PROVE  LET p == Canonical(path)
               t2 == [t EXCEPT ![p] = Tree!Nothing]
           IN  /\ p \in AllPaths /\ t[p].type = "file"
               /\ where \in DirPaths(t2, dirs)
               /\ TreeShown(Removed(v, path), t2, dirs, where)
<1> DEFINE d == DirOf(v, path, {"dir"})
           k == FoundAt(v, path)
           e == FoundEntry(v, path)
           p == Canonical(path)
           w == Removed(v, path)
<1>1. /\ d \in dirs /\ k \in DOMAIN Dirents(v, Ptr(v, d, 0))
      /\ e = Dirents(v, Ptr(v, d, 0))[k] /\ e.type = "file" /\ e.inode \in files
  BY RemoveIs
<1>2. w = RemoveFile(v, d, k, e.inode)
  BY DEF Removed
<1>3. SameFiles(v, w, files \ {e.inode})
  BY RemoveSound
<1>4. k = StopsAt(v, d, Last(path))
  BY DEF FoundAt
<1>5. p \in AllPaths /\ p = Follow(where[d], Last(path))
  <2>1. {"dir"} \in SUBSET {"dir", "file"}
    OBVIOUS
  <2>2. QED  BY <1>1, <2>1, UserPathIs
<1> HIDE DEF d, k, e, p, w
<1>6. e.name = Last(path)
  <2>1. d \in dirs \cup files /\ Ptr(v, d, 0) \in Block
    BY <1>1, DirIs
  <2>2. Walkable(Dir(v, d)) /\ Dir(v, d) = Dirents(v, Ptr(v, d, 0))
    BY <2>1, DirIs
  <2>3. k \in Nat
    BY <1>1, <2>1, EntryFacts
  <2>4. k \in DOMAIN Dir(v, d) => Dir(v, d)[k].name = Last(path)
    BY <1>4, <2>2, <2>3, StopsAtIs DEF None
  <2>5. QED  BY <1>1, <2>2, <2>4
<1>7. e \in EntriesOf(v, d) /\ Packed(v, d, Size(v, d))
  BY <1>1 DEF EntriesOf, AllOrderly, Orderly
<1>8. Loses(v, w, dirs, d, e)
  BY <1>1, <1>2, <1>7, RemoveEntries
<1>9. t[p].type = "file"
  <2>1. e.name \notin {".", ".."}
    BY <1>1, <1>7, EntriesAre
  <2>2. t[p] = Tree!FileOf(copyout(v, e.inode))
    BY <1>1, <1>5, <1>6, <1>7, <2>1, EntryIsInTree
  <2>3. QED  BY <2>2, NodesAre
<1> DEFINE t2 == [t EXCEPT ![p] = Tree!Nothing]
<1>10. where \in DirPaths(t2, dirs) /\ TreeShown(w, t2, dirs, where)
  <2>1. p = Follow(where[d], e.name)
    BY <1>5, <1>6
  <2>2. QED
    BY ONLY Sound(v, dirs, files), t \in [AllPaths -> Tree!Node], where \in DirPaths(t, dirs),
            TreeShown(v, t, dirs, where), <1>1, <1>3, <1>5, <1>7, <1>8, <2>1, RemoveShown
<1>11. QED  BY <1>5, <1>9, <1>10 DEF p, w

(* The second shows what was there.                                         *)
LEMMA ResizedShown ==
    ASSUME NEW v, NEW dirs, NEW files, Sound(v, dirs, files),
           NEW t, NEW where \in DirPaths(t, dirs), TreeShown(v, t, dirs, where),
           NEW r, r.dir \in dirs, r.size \in Nat, EndBefore(v, Ptr(v, r.dir, 0), r.size)
    PROVE  TreeShown(Resized(v, r), t, dirs, where)
<1> DEFINE w == Resized(v, r)
<1>1. SameFiles(v, w, files)
  BY ResizedSound
<1>2. \A d \in dirs : EntriesOf(w, d) = EntriesOf(v, d)
  BY ResizeEntries
<1> HIDE DEF w
<1>3. ASSUME NEW d \in dirs, NEW e \in EntriesOf(w, d)
      PROVE  EntryShows(w, t, where, d, e)
  <2>1. e \in EntriesOf(v, d) /\ EntryShows(v, t, where, d, e)
    BY <1>2, <1>3 DEF TreeShown
  <2>2. e.type = "file" => copyout(w, e.inode) = copyout(v, e.inode)
    <3>1. SUFFICES ASSUME e.type = "file" PROVE copyout(w, e.inode) = copyout(v, e.inode)
      OBVIOUS
    <3>2. e.inode \in files
      BY <2>1, <3>1, EntriesAre
    <3>3. SameFiles(v, w, {e.inode})
      BY <1>1, <3>2 DEF SameFiles
    <3>4. QED  BY <3>2, <3>3, SameCopyout
  <2>3. QED  BY <2>1, <2>2 DEF EntryShows
<1>4. ASSUME NEW p \in AllPaths PROVE PathShows(w, t, dirs, where, p)
  <2>1. PathShows(v, t, dirs, where, p)
    BY DEF TreeShown
  <2>2. QED  BY <1>2, <2>1 DEF PathShows
<1>5. \A d \in dirs, dot \in {".", ".."} : HasEntry(w, d, dot)
  BY <1>2 DEF TreeShown, HasEntry
<1>6. QED  BY <1>3, <1>4, <1>5 DEF TreeShown, w

(* The tree with one file, the log.                                         *)
FirstTree ==
    [p \in AllPaths |-> IF p = <<".log">> THEN Tree!FileOf(LogFile) ELSE Tree!Nothing]

(* This tree is what jfs_format makes.                                      *)
LEMMA FormatShown ==
    ASSUME TextsAreNoDirectories, HasRoom
    PROVE  \E where \in DirPaths(FirstTree, {Root}) :
              TreeShown(create_log_file(create_fs_root(NewGroups)), FirstTree, {Root}, where)
<1> DEFINE x == RootVolume(get_free_block(NewGroups))
           y == AddDir(x, Root, ".", Root)
           v == NewRoot
           i == get_free_inode(v)
           path == <<".log">>
           dirs == {Root}
           w == create_log_file(create_fs_root(NewGroups))
           t == [p \in AllPaths |-> Tree!Nothing]
           where == [d \in {Root} |-> <<>>]
<1>1. /\ v = AddDir(y, Root, "..", Root)
      /\ Sound(x, dirs, {}) /\ Packed(x, Root, Size(x, Root))
      /\ DOMAIN Dirents(x, Ptr(x, Root, 0)) = {}
      /\ Sound(y, dirs, {}) /\ Packed(y, Root, Size(y, Root)) /\ ~HasName(y, Root, "..")
      /\ Sound(v, dirs, {}) /\ AllOrderly(v, dirs) /\ ~HasName(v, Root, ".log")
      /\ i \in Inode /\ ~InodeUsed(v, i)
      /\ Last(path) = ".log" /\ EntryLen(PathLength(path)) <= LongEntry
  BY NewRootIs
<1>2. /\ LogFile \in Seq(Text) /\ Len(LogFile) <= Ptrs
      /\ ~Store(set_inode_used(v, i), LogFile).full
      /\ w = PutFile(v, Root, path, i, LogFile)
  BY FormatIs
<1>3. SameFiles(v, w, {})
  BY FormatOrderly
<1>4. Root \in dirs /\ \A d \in dirs : d = Root
  OBVIOUS
<1>5. path \in AllPaths /\ path = Append(<<>>, ".log") /\ Len(path) \in Nat \ {0}
  BY DEF AllPaths
<1>6. where \in DirPaths(t, dirs) /\ where[Root] = <<>>
  BY DEF DirPaths
<1>7. t \in [AllPaths -> Tree!Node] /\ \A p \in AllPaths : t[p] = Tree!Nothing
  BY NodesAre
<1> HIDE DEF x, y, v, i, path, dirs, w, t, where
<1>8. EntriesOf(x, Root) = {}
  BY <1>1 DEF EntriesOf
<1>9. PICK self : /\ self.name = "." /\ self.type = "dir" /\ self.inode = Root
                  /\ EntriesOf(y, Root) = {self}
  <2>1. DirEntryOK(x, dirs, Root, ".", Root)
    BY <1>4 DEF DirEntryOK
  <2>2. ~HasName(x, Root, ".")
    BY <1>8, HasNameIs
  <2>3. \E e : /\ e.name = "." /\ e.type = "dir" /\ e.inode = Root
               /\ EntriesOf(AddDir(x, Root, ".", Root), Root) = EntriesOf(x, Root) \cup {e}
    BY ONLY TextsAreNoDirectories, HasRoom, <1>1, <2>1, <2>2, AddDirEntries
  <2>4. QED  BY <1>8, <2>3 DEF y
<1>10. PICK up : /\ up.name = ".." /\ up.type = "dir" /\ up.inode = Root
                 /\ EntriesOf(v, Root) = {self, up}
  <2>1. DirEntryOK(y, dirs, Root, "..", Root)
    BY <1>4 DEF DirEntryOK
  <2>2. \E e : /\ e.name = ".." /\ e.type = "dir" /\ e.inode = Root
               /\ EntriesOf(AddDir(y, Root, "..", Root), Root) = EntriesOf(y, Root) \cup {e}
    BY ONLY TextsAreNoDirectories, HasRoom, <1>1, <2>1, AddDirEntries
  <2>3. QED  BY <1>1, <1>9, <2>2
<1>11. TreeShown(v, t, dirs, where)
  <2>1. DirsShow(dirs, where)
    BY <1>4, <1>6 DEF DirsShow
  <2>2. ASSUME NEW d \in dirs, NEW e \in EntriesOf(v, d) PROVE EntryShows(v, t, where, d, e)
    <3>1. d = Root /\ e \in {self, up}
      BY <1>4, <1>10, <2>2
    <3>2. e.type = "dir" /\ e.inode = Root /\ e.name \in {".", ".."}
      BY <1>9, <1>10, <3>1
    <3>3. Follow(where[d], e.name) = <<>>
      BY <1>6, <3>1, <3>2 DEF Follow
    <3>4. QED  BY <1>6, <3>2, <3>3 DEF EntryShows
  <2>3. \A p \in AllPaths : PathShows(v, t, dirs, where, p)
    BY <1>7 DEF PathShows
  <2>4. \A d \in dirs, dot \in {".", ".."} : HasEntry(v, d, dot)
    BY <1>4, <1>9, <1>10 DEF HasEntry
  <2>5. QED  BY <2>1, <2>2, <2>3, <2>4 DEF TreeShown
<1>12. Last(path) \in Name \cup {".log"} /\ ~HasName(v, Root, Last(path))
  BY <1>1
<1>13. GainsFile(v, w, dirs, Root, ".log", i, LogFile)
  <2>1. GainsFile(v, PutFile(v, Root, path, i, LogFile), dirs, Root, Last(path), i, LogFile)
    BY <1>1, <1>2, <1>4, <1>5, <1>12, PutFileEntries
  <2>2. QED  BY <1>1, <1>2, <2>1
<1>14. path = Follow(where[Root], ".log") /\ ".log" \in TreeNames
  BY <1>5, <1>6 DEF Follow, TreeNames
<1> DEFINE t2 == [t EXCEPT ![path] = Tree!FileOf(LogFile)]
<1>15. where \in DirPaths(t2, dirs) /\ TreeShown(w, t2, dirs, where)
  BY ONLY <1>1, <1>3, <1>4, <1>5, <1>6, <1>7, <1>11, <1>13, <1>14, PutShown
<1>16. t2 = FirstTree
  BY DEF FirstTree, t, path
<1>17. QED  BY <1>15, <1>16 DEF w, dirs

-----------------------------------------------------------------------------
(* What jfs_ls lists.                                                       *)

(* A directory that is not the root has an entry, in the one above it.      *)
LEMMA ParentIs ==
    ASSUME NEW v, NEW dirs, NEW files, Sound(v, dirs, files),
           NEW t, NEW where \in DirPaths(t, dirs), TreeShown(v, t, dirs, where),
           NEW d \in dirs, where[d] # <<>>
    PROVE  \E c \in dirs : \E e \in EntriesOf(v, c) :
              /\ where[d] = Append(where[c], e.name)
              /\ e.name \notin {".", ".."} /\ e.type = "dir" /\ e.inode = d
<1> DEFINE p == where[d]
<1>1. p \in AllPaths /\ t[p] = Tree!Directory /\ p \in Seq(TreeNames) /\ p # <<>>
  BY DirPathIs
<1>2. PICK c, e :
         c \in dirs /\ where[c] = Front(p) /\ e \in EntriesOf(v, c) /\ e.name = Last(p)
  BY <1>1, NodesAre DEF TreeShown, PathShows
<1>3. p = Append(Front(p), Last(p)) /\ Last(p) \notin {".", ".."}
  <2>1. p = Append(Front(p), Last(p)) /\ Len(p) \in Nat \ {0}
    BY <1>1, FrontAndLast
  <2>2. \A n \in 1 .. Len(p) : p[n] \notin {".", ".."}
    BY <1>1, AllPathsAre
  <2>3. Last(p) = p[Len(p)]
    BY DEF Last
  <2>4. QED  BY <2>1, <2>2, <2>3
<1> HIDE DEF p
<1>4. Follow(where[c], e.name) = p
  BY <1>2, <1>3 DEF Follow
<1>5. /\ e.type \in {"dir", "file"}
      /\ e.type = "dir" => e.inode \in dirs /\ where[e.inode] = p
      /\ e.type = "file" => t[p] = Tree!FileOf(copyout(v, e.inode))
  BY <1>2, <1>3, <1>4, EntriesAre, EntryIsInTree
<1>6. e.type = "dir" /\ e.inode \in dirs /\ where[e.inode] = where[d]
  BY <1>1, <1>5, NodesAre DEF p
<1>7. e.inode = d
  BY <1>6 DEF TreeShown, DirsShow
<1>8. QED  BY <1>2, <1>3, <1>6, <1>7 DEF p

(* A walk through an orderly directory reads its entries.                   *)
LEMMA WalkReads ==
    ASSUME NEW v, NEW dirs, NEW files, Sound(v, dirs, files), NEW d \in dirs, Orderly(v, d)
    PROVE  /\ Walked(v, d) = DOMAIN Dirents(v, Ptr(v, d, 0))
           /\ \A k \in Walked(v, d) :
                 /\ Entry(v, d, k) = Dirents(v, Ptr(v, d, 0))[k]
                 /\ Entry(v, d, k) \in EntriesOf(v, d)
<1>1. /\ Walked(v, d) = DOMAIN Dirents(v, Ptr(v, d, 0))
      /\ \A k \in Walked(v, d) : Entry(v, d, k).type # "junk"
  BY OrderlyWalk
<1>2. QED  BY <1>1, ReadEntry DEF EntriesOf

(* The walks come to every directory, by its path.                          *)
LEMMA PlacesShown ==
    ASSUME MaxDepth > 0,
           NEW v, NEW dirs, NEW files, Sound(v, dirs, files), AllOrderly(v, dirs),
           NEW t, NEW where \in DirPaths(t, dirs), TreeShown(v, t, dirs, where)
    PROVE  Places(v) = {[path |-> where[d], inode |-> d] : d \in dirs}
<1>1. PICK f : f \in Levels(v, dirs)
  BY PlacesAre
<1>2. MaxDepth \in Nat
  BY VolumeSizes
<1>3. /\ f \in [0 .. MaxDepth -> SUBSET PlaceOf(dirs)]
      /\ f[0] = {[path |-> <<>>, inode |-> Root]}
      /\ \A n \in 1 .. MaxDepth : f[n] = UNION {Subdirs(v, s) : s \in f[n - 1]}
      /\ Places(v) = UNION {f[n] : n \in 0 .. MaxDepth}
  BY <1>1 DEF Levels
<1>4. Root \in dirs /\ where[Root] = <<>>
  BY DEF Sound, InodesInv, TreeShown, DirsShow
<1>5. \A n \in 0 .. MaxDepth : \A p \in f[n] : p = [path |-> where[p.inode], inode |-> p.inode]
                                              /\ p.inode \in dirs
  <2> DEFINE S == {n \in 0 .. MaxDepth :
                      \A p \in f[n] : /\ p = [path |-> where[p.inode], inode |-> p.inode]
                                      /\ p.inode \in dirs}
  <2>1. 0 \in S
    BY <1>2, <1>3, <1>4
  <2>2. ASSUME NEW n \in 1 .. MaxDepth, n - 1 \in S PROVE n \in S
    <3>1. n - 1 \in 0 .. MaxDepth /\ n \in 0 .. MaxDepth
      BY <1>2
    <3>2. SUFFICES ASSUME NEW p \in f[n]
                   PROVE  p = [path |-> where[p.inode], inode |-> p.inode] /\ p.inode \in dirs
      BY <3>1
    <3>3. PICK s \in f[n - 1] : p \in Subdirs(v, s)
      BY <1>3
    <3>4. s \in PlaceOf(dirs) /\ p \in PlaceOf(dirs)
      BY <1>3, <3>1
    <3>5. s.inode \in dirs /\ p.inode \in dirs /\ s.path = where[s.inode]
      BY <2>2, <3>4 DEF PlaceOf
    <3>6. PICK k \in DOMAIN Dirents(v, Ptr(v, s.inode, 0)) :
             LET e == Dirents(v, Ptr(v, s.inode, 0))[k]
             IN  ~IsDot(e) /\ p = [path |-> Append(s.path, e.name), inode |-> e.inode]
      BY <3>3, <3>4, SubdirIs
    <3> DEFINE e == Dirents(v, Ptr(v, s.inode, 0))[k]
    <3>7. /\ e \in EntriesOf(v, s.inode) /\ e.name \notin {".", ".."}
          /\ p = [path |-> Append(where[s.inode], e.name), inode |-> e.inode]
      BY <3>5, <3>6 DEF EntriesOf, IsDot
    <3> HIDE DEF e
    <3>8. e.type = "dir"
      BY <3>5, <3>7, EntriesAre DEF Sound, InodesInv
    <3>9. where[e.inode] = Follow(where[s.inode], e.name)
      BY <3>5, <3>7, <3>8, EntryIsInTree
    <3>10. where[e.inode] = Append(where[s.inode], e.name)
      BY <3>7, <3>9 DEF Follow
    <3>11. QED  BY <3>5, <3>7, <3>10
  <2> HIDE DEF S
  <2>3. \A n \in 0 .. MaxDepth : n \in S
    BY <1>2, <2>1, <2>2, InductionUpTo
  <2>4. QED  BY <2>3 DEF S
<1>6. \A n \in 0 .. MaxDepth : \A d \in dirs :
         Len(where[d]) = n => [path |-> where[d], inode |-> d] \in f[n]
  <2> DEFINE S == {n \in 0 .. MaxDepth : \A d \in dirs :
                      Len(where[d]) = n => [path |-> where[d], inode |-> d] \in f[n]}
  <2>1. 0 \in S
    <3> SUFFICES ASSUME NEW d \in dirs, Len(where[d]) = 0
                 PROVE  [path |-> where[d], inode |-> d] \in f[0]
      BY <1>2
    <3>1. where[d] = <<>>
      BY DirPathIs
    <3>2. d = Root
      BY <1>4, <3>1 DEF TreeShown, DirsShow
    <3>3. QED  BY <1>3, <3>1, <3>2
  <2>2. ASSUME NEW n \in 1 .. MaxDepth, n - 1 \in S PROVE n \in S
    <3>1. n - 1 \in 0 .. MaxDepth /\ n \in 0 .. MaxDepth /\ n # 0
      BY <1>2
    <3>2. SUFFICES ASSUME NEW d \in dirs, Len(where[d]) = n
                   PROVE  [path |-> where[d], inode |-> d] \in f[n]
      BY <3>1
    <3>3. where[d] # <<>>
      BY <3>1, <3>2
    <3>4. PICK c \in dirs : \E e \in EntriesOf(v, c) :
             /\ where[d] = Append(where[c], e.name)
             /\ e.name \notin {".", ".."} /\ e.type = "dir" /\ e.inode = d
      BY <3>3, ParentIs
    <3>5. PICK e \in EntriesOf(v, c) :
             /\ where[d] = Append(where[c], e.name)
             /\ e.name \notin {".", ".."} /\ e.type = "dir" /\ e.inode = d
      BY <3>4
    <3>6. Len(where[c]) = n - 1
      <4>1. e.name \in TreeNames
        BY <3>5, EntriesAre DEF TreeNames
      <4>2. Len(Append(where[c], e.name)) = Len(where[c]) + 1 /\ Len(where[c]) \in Nat
        BY <4>1, DirPathIs, FrontOfAppend
      <4>3. QED  BY <3>2, <3>5, <4>2
    <3> DEFINE s == [path |-> where[c], inode |-> c]
    <3>7. s \in f[n - 1]
      BY <2>2, <3>6
    <3>8. PICK k \in Walked(v, c) : Entry(v, c, k) = e
      <4>1. PICK o \in DOMAIN Dirents(v, Ptr(v, c, 0)) : Dirents(v, Ptr(v, c, 0))[o] = e
        BY DEF EntriesOf
      <4>2. QED  BY <4>1, WalkReads DEF AllOrderly
    <3>9. [path |-> where[d], inode |-> d] \in Subdirs(v, s)
      BY <3>5, <3>8 DEF Subdirs
    <3> HIDE DEF s
    <3>10. f[n] = UNION {Subdirs(v, p) : p \in f[n - 1]}
      BY <1>3
    <3>11. QED  BY <3>7, <3>9, <3>10
  <2> HIDE DEF S
  <2>3. \A n \in 0 .. MaxDepth : n \in S
    BY <1>2, <2>1, <2>2, InductionUpTo
  <2>4. QED  BY <2>3 DEF S
<1>7. ASSUME NEW d \in dirs PROVE Len(where[d]) \in 0 .. MaxDepth
  BY <1>2, DirPathIs, ShortPath
<1>8. \A p \in Places(v) : p \in {[path |-> where[d], inode |-> d] : d \in dirs}
  BY <1>3, <1>5
<1>9. \A d \in dirs : [path |-> where[d], inode |-> d] \in Places(v)
  BY <1>3, <1>6, <1>7
<1>10. QED  BY <1>8, <1>9

(* So they meet the entries of all directories, by the paths to them.       *)
LEMMA MetShown ==
    ASSUME MaxDepth > 0,
           NEW v, NEW dirs, NEW files, Sound(v, dirs, files), AllOrderly(v, dirs),
           NEW t, NEW where \in DirPaths(t, dirs), TreeShown(v, t, dirs, where)
    PROVE  /\ \A x \in Met(v) :
                 /\ x.dir \in dirs /\ x.offset \in DOMAIN Dirents(v, Ptr(v, x.dir, 0))
                 /\ LET e == Dirents(v, Ptr(v, x.dir, 0))[x.offset]
                    IN  /\ e \in EntriesOf(v, x.dir) /\ Entry(v, x.dir, x.offset) = e
                        /\ x = [path |-> Append(where[x.dir], e.name),
                                dir |-> x.dir, offset |-> x.offset]
           /\ \A d \in dirs : \A e \in EntriesOf(v, d) :
                 \E x \in Met(v) :
                    /\ x.path = Append(where[d], e.name) /\ x.dir = d
                    /\ Entry(v, d, x.offset) = e
<1> DEFINE At(d) == [path |-> where[d], inode |-> d]
           Item(d, k) == [path |-> Append(where[d], Entry(v, d, k).name), dir |-> d, offset |-> k]
           Items(p) == {[path |-> Append(p.path, Entry(v, p.inode, k).name),
                         dir |-> p.inode, offset |-> k] : k \in Walked(v, p.inode)}
<1>1. Places(v) = {At(d) : d \in dirs}
  BY PlacesShown
<1>2. Met(v) = UNION {Items(p) : p \in {At(d) : d \in dirs}}
  BY <1>1 DEF Met
<1>3. \A x : x \in Met(v) <=> \E d \in dirs : \E k \in Walked(v, d) : x = Item(d, k)
  <2>1. \A d : Items(At(d)) = {Item(d, k) : k \in Walked(v, d)}
    OBVIOUS
  <2> HIDE DEF Items, At, Item
  <2>2. \A x : x \in Met(v) <=> \E d \in dirs : x \in Items(At(d))
    BY <1>2
  <2>3. QED  BY <2>1, <2>2
<1> HIDE DEF Items
<1>4. \A d \in dirs :
         /\ Walked(v, d) = DOMAIN Dirents(v, Ptr(v, d, 0))
         /\ \A k \in Walked(v, d) :
               /\ Entry(v, d, k) = Dirents(v, Ptr(v, d, 0))[k]
               /\ Entry(v, d, k) \in EntriesOf(v, d)
  BY WalkReads DEF AllOrderly
<1>5. ASSUME NEW x \in Met(v)
      PROVE  /\ x.dir \in dirs /\ x.offset \in DOMAIN Dirents(v, Ptr(v, x.dir, 0))
             /\ LET e == Dirents(v, Ptr(v, x.dir, 0))[x.offset]
                IN  /\ e \in EntriesOf(v, x.dir) /\ Entry(v, x.dir, x.offset) = e
                    /\ x = [path |-> Append(where[x.dir], e.name),
                            dir |-> x.dir, offset |-> x.offset]
  <2>1. PICK d \in dirs : \E k \in Walked(v, d) : x = Item(d, k)
    BY <1>3
  <2>2. PICK k \in Walked(v, d) : x = Item(d, k)
    BY <2>1
  <2>3. x.dir = d /\ x.offset = k
    BY <2>2
  <2>4. x = [path |-> Append(where[d], Entry(v, d, k).name), dir |-> d, offset |-> k]
    BY <2>2
  <2>5. QED  BY <1>4, <2>3, <2>4
<1>6. ASSUME NEW d \in dirs, NEW e \in EntriesOf(v, d)
      PROVE  \E x \in Met(v) : /\ x.path = Append(where[d], e.name) /\ x.dir = d
                               /\ Entry(v, d, x.offset) = e
  <2>1. PICK k \in Walked(v, d) : Entry(v, d, k) = e
    BY <1>4 DEF EntriesOf
  <2>2. Item(d, k) \in Met(v)
    BY <1>3
  <2>3. QED  BY <2>1, <2>2
<1>7. QED  BY <1>5, <1>6

(* These are the paths of the tree, and . and .. in every directory, and no *)
(* two of the entries have the same.                                        *)
LEMMA ListShown ==
    ASSUME MaxDepth > 0,
           NEW v, NEW dirs, NEW files, Sound(v, dirs, files), AllOrderly(v, dirs),
           NEW t \in [AllPaths -> Tree!Node],
           NEW where \in DirPaths(t, dirs), TreeShown(v, t, dirs, where)
    PROVE  ListsTree(v, t)
<1> DEFINE there == {p \in AllPaths : t[p] # Tree!Nothing}
           paths == {<<>>} \cup {p \in AllPaths : t[p] = Tree!Directory}
           Row(p, type) == [path |-> p, type |-> type]
           lines == {Row(p, t[p].type) : p \in there}
           dots == {Row(Append(p, dot), "dir") : p \in paths, dot \in {".", ".."}}
           EntryOf(x) == Entry(v, x.dir, x.offset)
<1>1. ASSUME NEW x \in Met(v)
      PROVE  /\ x.dir \in dirs /\ x.offset \in DOMAIN Dirents(v, Ptr(v, x.dir, 0))
             /\ EntryOf(x) \in EntriesOf(v, x.dir)
             /\ EntryOf(x) = Dirents(v, Ptr(v, x.dir, 0))[x.offset]
             /\ x = [path |-> Append(where[x.dir], EntryOf(x).name),
                     dir |-> x.dir, offset |-> x.offset]
             /\ x.path = Append(where[x.dir], EntryOf(x).name)
  <2>1. /\ x.dir \in dirs /\ x.offset \in DOMAIN Dirents(v, Ptr(v, x.dir, 0))
        /\ LET e == Dirents(v, Ptr(v, x.dir, 0))[x.offset]
           IN  /\ e \in EntriesOf(v, x.dir) /\ Entry(v, x.dir, x.offset) = e
               /\ x = [path |-> Append(where[x.dir], e.name),
                       dir |-> x.dir, offset |-> x.offset]
    BY MetShown
  <2>2. x = [path |-> Append(where[x.dir], EntryOf(x).name),
             dir |-> x.dir, offset |-> x.offset]
    BY <2>1
  <2>3. x.path = Append(where[x.dir], EntryOf(x).name)
    BY <2>2
  <2>4. QED  BY <2>1, <2>2, <2>3
<1>2. \A d \in dirs : \A e \in EntriesOf(v, d) :
         \E x \in Met(v) : /\ x.path = Append(where[d], e.name) /\ x.dir = d
                           /\ EntryOf(x) = e
  <2>1. \A d \in dirs : \A e \in EntriesOf(v, d) :
           \E x \in Met(v) : /\ x.path = Append(where[d], e.name) /\ x.dir = d
                             /\ Entry(v, d, x.offset) = e
    BY MetShown
  <2>2. QED  BY <2>1
<1>3. \A x : /\ Line(v, x).type = EntryOf(x).type
             /\ Line(v, x).size = Size(v, EntryOf(x).inode)
  BY DEF Line, Target, Size
<1> HIDE DEF EntryOf, Row, there, paths
<1>4. \A d \in dirs : where[d] \in paths /\ where[d] \in Seq(TreeNames)
  BY DirPathIs DEF paths
<1>5. ASSUME NEW x \in Met(v)
      PROVE  Row(x.path, EntryOf(x).type) \in lines \cup dots
  <2> DEFINE d == x.dir
             e == EntryOf(x)
  <2>1. d \in dirs /\ e \in EntriesOf(v, d) /\ x.path = Append(where[d], e.name)
    BY <1>1
  <2> HIDE DEF d, e
  <2>2. CASE e.name \in {".", ".."}
    <3>1. e.type = "dir"
      BY <2>1, <2>2, EntriesAre
    <3>2. where[d] \in paths
      BY <1>4, <2>1
    <3>3. Row(Append(where[d], e.name), "dir") \in dots
      BY <2>2, <3>2
    <3>4. QED  BY <2>1, <3>1, <3>3 DEF e
  <2>3. CASE e.name \notin {".", ".."}
    <3>1. Follow(where[d], e.name) = x.path
      BY <2>1, <2>3 DEF Follow
    <3>2. /\ x.path \in AllPaths /\ t[x.path] # Tree!Nothing
          /\ e.type = "dir" => t[x.path] = Tree!Directory
          /\ e.type = "file" => t[x.path] = Tree!FileOf(copyout(v, e.inode))
      <4> DEFINE p == Follow(where[d], e.name)
      <4>1. /\ p \in AllPaths /\ t[p] # Tree!Nothing
            /\ e.type = "dir" => t[p] = Tree!Directory
            /\ e.type = "file" => t[p] = Tree!FileOf(copyout(v, e.inode))
        BY <2>1, <2>3, EntryIsInTree
      <4>2. QED  BY <3>1, <4>1
    <3>3. e.type \in {"dir", "file"}
      BY <2>1, EntriesAre
    <3>4. t[x.path].type = e.type
      BY <3>2, <3>3, NodesAre DEF Tree!Directory
    <3>5. Row(x.path, t[x.path].type) \in lines
      BY <3>2 DEF there
    <3>6. QED  BY <3>4, <3>5 DEF e
  <2>4. QED  BY <2>2, <2>3
<1>6. ASSUME NEW p \in there
      PROVE  \E x \in Met(v) : Row(p, t[p].type) = Row(x.path, EntryOf(x).type)
  <2>1. p \in AllPaths /\ t[p] # Tree!Nothing
    BY DEF there
  <2>2. PICK d, e : d \in dirs /\ where[d] = Front(p) /\ e \in EntriesOf(v, d) /\ e.name = Last(p)
    BY <2>1 DEF TreeShown, PathShows
  <2>3. PICK x \in Met(v) : x.path = Append(where[d], e.name) /\ x.dir = d /\ EntryOf(x) = e
    BY <1>2, <2>2
  <2>4. p = Append(Front(p), Last(p))
    BY <2>1, AllPathsAre, FrontAndLast
  <2>5. x.path = p
    BY <2>2, <2>3, <2>4
  <2>6. e.name \notin {".", ".."}
    <3>1. Len(p) \in Nat \ {0} /\ \A n \in 1 .. Len(p) : p[n] \notin {".", ".."}
      BY <2>1, AllPathsAre, FrontAndLast
    <3>2. QED  BY <2>2, <3>1 DEF Last
  <2>7. Follow(where[d], e.name) = p
    BY <2>3, <2>5, <2>6 DEF Follow
  <2>8. t[p].type = e.type
    <3>1. e.type \in {"dir", "file"}
      BY <2>2, EntriesAre
    <3>2. /\ e.type = "dir" => t[p] = Tree!Directory
          /\ e.type = "file" => t[p] = Tree!FileOf(copyout(v, e.inode))
      BY <2>2, <2>6, <2>7, EntryIsInTree
    <3>3. QED  BY <3>1, <3>2, NodesAre DEF Tree!Directory
  <2>9. QED  BY <2>3, <2>5, <2>8
<1>7. ASSUME NEW p \in paths, NEW dot \in {".", ".."}
      PROVE  \E x \in Met(v) : Row(Append(p, dot), "dir") = Row(x.path, EntryOf(x).type)
  <2>1. PICK d \in dirs : where[d] = p
    <3>1. CASE p = <<>>
      BY <3>1 DEF TreeShown, DirsShow, Sound, InodesInv
    <3>2. CASE p # <<>>
      <4>1. p \in AllPaths /\ t[p] = Tree!Directory
        BY <3>2 DEF paths
      <4>2. p \in there /\ t[p].type = "dir"
        BY <4>1, NodesAre DEF there, Tree!Directory
      <4>3. PICK c, e : c \in dirs /\ where[c] = Front(p) /\ e \in EntriesOf(v, c) /\ e.name = Last(p)
        BY <4>1, NodesAre DEF TreeShown, PathShows
      <4>4. /\ p = Append(Front(p), Last(p)) /\ Len(p) \in Nat \ {0}
            /\ \A n \in 1 .. Len(p) : p[n] \notin {".", ".."}
        BY <4>1, AllPathsAre, FrontAndLast
      <4>5. e.name \notin {".", ".."}
        BY <4>3, <4>4 DEF Last
      <4>6. Follow(where[c], e.name) = p
        BY <4>3, <4>4, <4>5 DEF Follow
      <4>7. e.type \in {"dir", "file"} /\ (e.type = "dir" => e.inode \in dirs)
        BY <4>3, EntriesAre
      <4>8. /\ e.type = "dir" => where[e.inode] = p
            /\ e.type = "file" => t[p] = Tree!FileOf(copyout(v, e.inode))
        BY <4>3, <4>5, <4>6, EntryIsInTree
      <4>9. QED  BY <4>1, <4>7, <4>8, NodesAre
    <3>3. QED  BY <3>1, <3>2
  <2>2. PICK e \in EntriesOf(v, d) : e.name = dot
    BY DEF TreeShown, HasEntry
  <2>3. e.type = "dir"
    BY <2>2, EntriesAre
  <2>4. PICK x \in Met(v) : x.path = Append(where[d], e.name) /\ x.dir = d /\ EntryOf(x) = e
    BY <1>2
  <2>5. QED  BY <2>1, <2>2, <2>3, <2>4
<1>8. {Row(x.path, EntryOf(x).type) : x \in Met(v)} = lines \cup dots
  BY <1>5, <1>6, <1>7
<1>9. ASSUME NEW x \in Met(v), NEW y \in Met(v), x.path = y.path PROVE x = y
  <2> DEFINE d == x.dir
             c == y.dir
             AllNames == Name \cup {".", "..", ".log"}
  <2>1. /\ d \in dirs /\ EntryOf(x) \in EntriesOf(v, d) /\ x.path = Append(where[d], EntryOf(x).name)
        /\ c \in dirs /\ EntryOf(y) \in EntriesOf(v, c) /\ y.path = Append(where[c], EntryOf(y).name)
    BY <1>1
  <2>2. /\ where[d] \in Seq(AllNames) /\ EntryOf(x).name \in AllNames
        /\ where[c] \in Seq(AllNames) /\ EntryOf(y).name \in AllNames
    <3>1. \A s \in Seq(TreeNames) : s \in Seq(AllNames)
      BY DEF TreeNames
    <3>2. QED  BY <1>4, <2>1, <3>1, EntriesAre
  <2>3. where[d] = where[c] /\ EntryOf(x).name = EntryOf(y).name
    <3>1. /\ Front(x.path) = where[d] /\ Last(x.path) = EntryOf(x).name
          /\ Front(y.path) = where[c] /\ Last(y.path) = EntryOf(y).name
      <4> HIDE DEF AllNames
      <4>1. QED  BY <2>1, <2>2, FrontOfAppend
    <3>2. QED  BY <1>9, <3>1
  <2>4. d = c
    BY <2>1, <2>3 DEF TreeShown, DirsShow
  <2>5. x.offset = y.offset
    <3>1. Packed(v, d, Size(v, d))
      BY <2>1 DEF AllOrderly, Orderly
    <3>2. /\ x.offset \in DOMAIN Dirents(v, Ptr(v, d, 0))
          /\ EntryOf(x) = Dirents(v, Ptr(v, d, 0))[x.offset]
          /\ y.offset \in DOMAIN Dirents(v, Ptr(v, d, 0))
          /\ EntryOf(y) = Dirents(v, Ptr(v, d, 0))[y.offset]
      BY <1>1, <2>4
    <3>3. QED  BY <2>3, <3>1, <3>2 DEF Packed
  <2>6. /\ x = [path |-> x.path, dir |-> x.dir, offset |-> x.offset]
        /\ y = [path |-> y.path, dir |-> y.dir, offset |-> y.offset]
    BY <1>1
  <2>7. QED  BY <1>9, <2>4, <2>5, <2>6
<1>10. ASSUME NEW x \in Met(v), EntryOf(x).type = "file"
       PROVE  Size(v, EntryOf(x).inode) = Len(t[x.path].contents)
  <2> DEFINE d == x.dir
             e == EntryOf(x)
  <2>1. d \in dirs /\ e \in EntriesOf(v, d) /\ x.path = Append(where[d], e.name) /\ e.type = "file"
    BY <1>1, <1>10
  <2> HIDE DEF d, e
  <2>2. e.inode \in files /\ e.name \notin {".", ".."}
    BY <2>1, EntriesAre
  <2>3. Follow(where[d], e.name) = x.path
    BY <2>1, <2>2 DEF Follow
  <2>4. t[x.path] = Tree!FileOf(copyout(v, e.inode))
    <3> DEFINE p == Follow(where[d], e.name)
    <3>1. t[p] = Tree!FileOf(copyout(v, e.inode))
      BY <2>1, <2>2, EntryIsInTree
    <3>2. QED  BY <2>3, <3>1
  <2>5. t[x.path].contents = copyout(v, e.inode)
    BY <2>4 DEF Tree!FileOf
  <2>6. Size(v, e.inode) \in Nat
    BY <2>2, VolumeSizes DEF Sound, FileInv
  <2>7. copyout(v, e.inode) = [n \in 1 .. Size(v, e.inode) |-> v.data[Ptr(v, e.inode, n - 1)]]
    BY DEF copyout, Size, Ptr
  <2>8. Len(copyout(v, e.inode)) = Size(v, e.inode)
    BY <2>6, <2>7
  <2>9. QED  BY <2>5, <2>8 DEF e
<1>11. {[path |-> x.path, type |-> Line(v, x).type] : x \in Met(v)} = lines \cup dots
  BY <1>3, <1>8 DEF Row
<1>12. \A x \in Met(v) :
          Line(v, x).type = "file" => Line(v, x).size = Len(t[x.path].contents)
  BY <1>3, <1>10
<1>13. lines \cup dots =
          {[path |-> p, type |-> t[p].type] : p \in there}
          \cup {[path |-> Append(p, dot), type |-> "dir"] : p \in paths, dot \in {".", ".."}}
  BY DEF Row
<1> HIDE DEF lines, dots
<1>14. QED  BY <1>9, <1>11, <1>12, <1>13 DEF ListsTree, there, paths

-----------------------------------------------------------------------------
(* TreeInv is inductive.                                                    *)

(* The volume shows the tree, for the directories it is known to have.      *)
Shown(v, r, t) ==
    \E where \in DirPaths(t, KnownDirs(v, r)) : TreeShown(v, t, KnownDirs(v, r), where)

(* These are all directories of a volume that shows a tree.                 *)
LEMMA ShownAreKnown ==
    ASSUME NEW v, NEW dirs, NEW files, Sound(v, dirs, files),
           NEW t, NEW where \in DirPaths(t, dirs), TreeShown(v, t, dirs, where),
           NEW r, r.dir \in dirs \cup {None}
    PROVE  Shown(v, r, t)
<1>1. KnownDirs(v, r) \subseteq dirs
  BY KnownDirsAre
<1>2. ASSUME NEW d \in dirs PROVE d \in KnownDirs(v, r)
  <2>1. CASE where[d] = <<>>
    <3>1. Root \in dirs /\ where[Root] = <<>>
      BY DEF Sound, InodesInv, TreeShown, DirsShow
    <3>2. d = Root
      BY <2>1, <3>1 DEF TreeShown, DirsShow
    <3>3. QED  BY <3>2 DEF KnownDirs
  <2>2. CASE where[d] # <<>>
    <3>1. PICK c \in dirs : \E e \in EntriesOf(v, c) : e.type = "dir" /\ e.inode = d
      BY <2>2, ParentIs
    <3>2. PICK e \in EntriesOf(v, c) : e.type = "dir" /\ e.inode = d
      BY <3>1
    <3>3. Ptr(v, c, 0) \in Block
      BY DirIs
    <3>4. d \in Named(v, "dir")
      BY <3>2, <3>3 DEF EntriesOf, Named
    <3>5. QED  BY <3>4 DEF KnownDirs
  <2>3. QED  BY <2>1, <2>2
<1>3. KnownDirs(v, r) = dirs
  BY <1>1, <1>2
<1>4. QED  BY <1>3 DEF Shown

(* It holds of a volume that was formatted.                                 *)
LEMMA TreeInvInit == TextsAreNoDirectories /\ HInit => TreeInv
<1> SUFFICES ASSUME TextsAreNoDirectories, HInit PROVE TreeInv
  OBVIOUS
<1>1. tree = FirstTree /\ rm = NoRm /\ vol = create_log_file(create_fs_root(NewGroups))
  BY DEF HInit, Init, FirstTree, LogFile
<1>2. tree \in [AllPaths -> Tree!Node]
  <2>1. LogFile \in Seq(Text) /\ Len(LogFile) <= Ptrs
    BY FormatIs
  <2>2. LogFile \in AllFiles
    BY <2>1, FilesAre
  <2>3. QED  BY <1>1, <2>2, NodesAre DEF FirstTree
<1>3. ASSUME HasRoom PROVE Shown(vol, rm, tree)
  <2>1. PICK where \in DirPaths(FirstTree, {Root}) : TreeShown(vol, FirstTree, {Root}, where)
    BY <1>1, <1>3, FormatShown
  <2>2. Sound(vol, {Root}, {get_free_inode(NewRoot)})
    BY <1>1, <1>3, FormatOrderly
  <2>3. rm.dir \in {Root} \cup {None}
    BY <1>1 DEF NoRm
  <2>4. QED  BY <1>1, <2>1, <2>2, <2>3, ShownAreKnown
<1>4. QED  BY <1>2, <1>3 DEF TreeInv, Shown

(* What the state is like between steps.                                    *)
LEMMA TreeFacts ==
    ASSUME VolumeInv, TidyInv, TreeInv, HasRoom, FreshNames, ~CrashInRm
    PROVE  LET dirs == KnownDirs(vol, rm)
               files == Named(vol, "file")
           IN  /\ tree \in [AllPaths -> Tree!Node]
               /\ Sound(vol, dirs, files) /\ AllTidy(vol, rm, dirs)
               /\ Idle => AllOrderly(vol, dirs)
               /\ ~Idle => /\ rm.dir \in dirs /\ rm.size \in Nat
                           /\ EndBefore(vol, Ptr(vol, rm.dir, 0), rm.size)
               /\ \E where \in DirPaths(tree, dirs) : TreeShown(vol, tree, dirs, where)
<1> DEFINE dirs == KnownDirs(vol, rm)
           files == Named(vol, "file")
<1>1. Sound(vol, dirs, files) /\ AllTidy(vol, rm, dirs)
  BY DEF VolumeInv, TidyInv, AllTidy
<1>2. /\ tree \in [AllPaths -> Tree!Node]
      /\ \E where \in DirPaths(tree, dirs) : TreeShown(vol, tree, dirs, where)
  BY DEF TreeInv
<1>3. Idle => AllOrderly(vol, dirs)
  BY <1>1, TidyIsOrderly DEF Idle
<1>4. ASSUME ~Idle
      PROVE  /\ rm.dir \in dirs /\ rm.size \in Nat
             /\ EndBefore(vol, Ptr(vol, rm.dir, 0), rm.size)
  <2>1. rm.dir \in Inode /\ rm.size \in Nat /\ EndBefore(vol, Ptr(vol, rm.dir, 0), rm.size)
    BY <1>4 DEF VolumeInv, TypeOK, ResizeInv, Idle
  <2>2. rm.dir # None
    BY <2>1, InodeNumbers DEF None
  <2>3. QED  BY <2>1, <2>2 DEF KnownDirs
<1>5. QED  BY <1>1, <1>2, <1>3, <1>4

(* The tree keeps its type, whatever the volume is like.                    *)
LEMMA TreeTypeStep ==
    ASSUME tree \in [AllPaths -> Tree!Node], [HNext]_allVars
    PROVE  tree' \in [AllPaths -> Tree!Node]
<1>1. ASSUME NEW path, NEW node \in Tree!Node, Names(path, node)
      PROVE  tree' \in [AllPaths -> Tree!Node]
  BY <1>1 DEF Names
<1>2. ASSUME NEW path \in Path, MakeStep(path) PROVE tree' \in [AllPaths -> Tree!Node]
  BY <1>1, <1>2, NodesAre DEF MakeStep
<1>3. ASSUME NEW path \in Path, RemoveStep(path) PROVE tree' \in [AllPaths -> Tree!Node]
  BY <1>1, <1>3, NodesAre DEF RemoveStep
<1>4. ASSUME NEW path \in Path, NEW file \in File, CopyInStep(path, file)
      PROVE  tree' \in [AllPaths -> Tree!Node]
  <2>1. Tree!FileOf(Truncated(file)) \in Tree!Node
    <3>1. file \in Seq(Text)
      BY VolumeAssumption
    <3>2. Truncated(file) \in AllFiles
      BY <3>1, TruncatedIs, FilesAre
    <3>3. QED  BY <3>2, NodesAre
  <2>2. QED  BY <1>1, <1>4, <2>1 DEF CopyInStep
<1>5. CASE UNCHANGED tree
  BY <1>5
<1>6. QED  BY <1>2, <1>3, <1>4, <1>5 DEF HNext, allVars

(* Every step is one of Volume.                                             *)
LEMMA HistoryStep == [HNext]_allVars => [Next]_vars
<1>1. HNext => Next
  BY DEF HNext, MakeStep, RemoveStep, CopyInStep, Next
<1>2. QED  BY <1>1 DEF allVars

(* What a step must come to.                                                *)
StepKeepsTree == Shown(vol', rm', tree') /\ [Tree!Next]_tree

(* jfs_mkdir keeps to the tree.                                             *)
LEMMA MakeKeepsTree ==
    ASSUME TextsAreNoDirectories, VolumeInv, TidyInv, TreeInv,
           HasRoom, FreshNames, ~CrashInRm,
           NEW path \in Path, MakeStep(path)
    PROVE  StepKeepsTree
<1> DEFINE dirs == KnownDirs(vol, rm)
           files == Named(vol, "file")
           p == Canonical(path)
<1>1. /\ tree \in [AllPaths -> Tree!Node]
      /\ Sound(vol, dirs, files)
      /\ Idle => AllOrderly(vol, dirs)
      /\ \E where \in DirPaths(tree, dirs) : TreeShown(vol, tree, dirs, where)
  BY TreeFacts
<1>2. PICK where \in DirPaths(tree, dirs) : TreeShown(vol, tree, dirs, where)
  BY <1>1
<1>3. /\ rm = NoRm /\ rm' = NoRm /\ AllOrderly(vol, dirs)
      /\ result' = mkdirResult(vol, path)
      /\ vol' = IF result' = "ok" THEN Made(vol, path) ELSE vol
      /\ IF result' = "ok" THEN Names(path, Tree!Directory) ELSE tree' = tree
  BY <1>1 DEF MakeStep, mkdir, Idle
<1>4. CASE result' # "ok"
  BY <1>2, <1>3, <1>4 DEF StepKeepsTree, Shown
<1>5. CASE result' = "ok"
  <2> DEFINE i == get_free_inode(vol)
             t2 == [tree EXCEPT ![p] = Tree!Directory]
  <2>1. /\ mkdirResult(vol, path) = "ok" /\ vol' = Made(vol, path) /\ tree' = t2
    BY <1>3, <1>5 DEF Names
  <2> HIDE DEF dirs, files
  <2>2. /\ p \in AllPaths /\ tree[p] = Tree!Nothing
        /\ Front(p) = <<>> \/ tree[Front(p)] = Tree!Directory
        /\ \E where2 \in DirPaths(t2, dirs \cup {i}) :
              TreeShown(Made(vol, path), t2, dirs \cup {i}, where2)
    BY ONLY TextsAreNoDirectories, HasRoom, path \in Path, <1>1, <1>2, <1>3, <2>1, MadeShown
  <2>3. Sound(vol', dirs \cup {i}, files)
    BY <1>1, <2>1, MkdirSound
  <2> HIDE DEF i, t2, p
  <2>4. Shown(vol', rm', tree')
    <3>1. PICK where2 \in DirPaths(t2, dirs \cup {i}) : TreeShown(vol', t2, dirs \cup {i}, where2)
      BY <2>1, <2>2
    <3>2. rm'.dir \in (dirs \cup {i}) \cup {None}
      BY <1>3 DEF NoRm
    <3>3. QED  BY <2>1, <2>3, <3>1, <3>2, ShownAreKnown
  <2>5. Tree!MakeDir(p)
    BY <2>1, <2>2 DEF Tree!MakeDir, Tree!HasParent, Tree!Front, Front, t2
  <2>6. QED  BY <2>2, <2>4, <2>5 DEF StepKeepsTree, Tree!Next
<1>6. QED  BY <1>4, <1>5

(* So does jfs_copyin.                                                      *)
LEMMA CopyInKeepsTree ==
    ASSUME TextsAreNoDirectories, VolumeInv, TidyInv, TreeInv,
           HasRoom, FreshNames, ~CrashInRm,
           NEW path \in Path, NEW file \in File, CopyInStep(path, file)
    PROVE  StepKeepsTree
<1> DEFINE dirs == KnownDirs(vol, rm)
           files == Named(vol, "file")
           p == Canonical(path)
           cut == Truncated(file)
<1>1. /\ tree \in [AllPaths -> Tree!Node]
      /\ Sound(vol, dirs, files)
      /\ Idle => AllOrderly(vol, dirs)
      /\ \E where \in DirPaths(tree, dirs) : TreeShown(vol, tree, dirs, where)
  BY TreeFacts
<1>2. PICK where \in DirPaths(tree, dirs) : TreeShown(vol, tree, dirs, where)
  BY <1>1
<1>3. /\ rm = NoRm /\ rm' = NoRm /\ AllOrderly(vol, dirs) /\ ~Taken(vol, path)
      /\ result' = copyinResult(vol, path, file)
      /\ vol' = IF result' = "ok" THEN CopiedIn(vol, path, file) ELSE vol
      /\ IF result' = "ok" THEN Names(path, Tree!FileOf(cut)) ELSE tree' = tree
  BY <1>1 DEF CopyInStep, copyin, Idle
<1>4. file \in Seq(Text) /\ cut \in AllFiles
  <2>1. file \in Seq(Text)
    BY VolumeAssumption
  <2>2. QED  BY <2>1, TruncatedIs, FilesAre
<1>5. CASE result' # "ok"
  BY <1>2, <1>3, <1>5 DEF StepKeepsTree, Shown
<1>6. CASE result' = "ok"
  <2> DEFINE t2 == [tree EXCEPT ![p] = Tree!FileOf(cut)]
             i == get_free_inode(vol)
  <2>1. copyinResult(vol, path, file) = "ok" /\ vol' = CopiedIn(vol, path, file) /\ tree' = t2
    BY <1>3, <1>6 DEF Names
  <2> HIDE DEF dirs, files
  <2>2. /\ p \in AllPaths /\ tree[p] = Tree!Nothing
        /\ Front(p) = <<>> \/ tree[Front(p)] = Tree!Directory
        /\ where \in DirPaths(t2, dirs)
        /\ TreeShown(CopiedIn(vol, path, file), t2, dirs, where)
    BY ONLY TextsAreNoDirectories, HasRoom, path \in Path, <1>1, <1>2, <1>3, <1>4, <2>1,
            CopiedInShown
  <2>3. Sound(vol', dirs, files \cup {i})
    BY <1>1, <1>4, <2>1, CopyinSound
  <2> HIDE DEF i, t2, p, cut
  <2>4. Shown(vol', rm', tree')
    <3>1. rm'.dir \in dirs \cup {None}
      BY <1>3 DEF NoRm
    <3>2. QED  BY <2>1, <2>2, <2>3, <3>1, ShownAreKnown
  <2>5. Tree!CopyIn(p, cut)
    BY <2>1, <2>2 DEF Tree!CopyIn, Tree!HasParent, Tree!Front, Front, t2
  <2>6. QED  BY <1>4, <2>2, <2>4, <2>5 DEF StepKeepsTree, Tree!Next
<1>7. QED  BY <1>5, <1>6

(* So does the first transaction of jfs_rm.                                 *)
LEMMA RmKeepsTree ==
    ASSUME TextsAreNoDirectories, VolumeInv, TidyInv, TreeInv,
           HasRoom, FreshNames, ~CrashInRm, ~RmFull,
           NEW path \in Path, RemoveStep(path)
    PROVE  StepKeepsTree
<1> DEFINE dirs == KnownDirs(vol, rm)
           files == Named(vol, "file")
           p == Canonical(path)
<1>1. /\ tree \in [AllPaths -> Tree!Node]
      /\ Sound(vol, dirs, files)
      /\ Idle => AllOrderly(vol, dirs)
      /\ \E where \in DirPaths(tree, dirs) : TreeShown(vol, tree, dirs, where)
  BY TreeFacts
<1>2. PICK where \in DirPaths(tree, dirs) : TreeShown(vol, tree, dirs, where)
  BY <1>1
<1>3. /\ rm = NoRm /\ AllOrderly(vol, dirs)
      /\ result' = rmResult(vol, path)
      /\ IF result' = "rm" THEN /\ vol' = Removed(vol, path) /\ rm' = ToResize(vol, path)
                                /\ Names(path, Tree!Nothing)
                           ELSE vol' = vol /\ rm' = rm /\ tree' = tree
  BY <1>1, RmIs DEF RemoveStep, Idle
<1>4. CASE result' # "rm"
  BY <1>2, <1>3, <1>4 DEF StepKeepsTree, Shown
<1>5. CASE result' = "rm"
  <2> DEFINE t2 == [tree EXCEPT ![p] = Tree!Nothing]
  <2>1. /\ rmResult(vol, path) = "rm" /\ vol' = Removed(vol, path)
        /\ rm' = ToResize(vol, path) /\ tree' = t2
    BY <1>3, <1>5 DEF Names
  <2> HIDE DEF dirs, files
  <2>2. /\ p \in AllPaths /\ tree[p].type = "file"
        /\ where \in DirPaths(t2, dirs)
        /\ TreeShown(Removed(vol, path), t2, dirs, where)
    BY ONLY TextsAreNoDirectories, path \in Path, <1>1, <1>2, <1>3, <2>1, RemovedShown
  <2>3. \E kept : Sound(vol', dirs, kept) /\ rm'.dir \in dirs
    BY <1>1, <2>1, RemoveSound
  <2> HIDE DEF t2, p
  <2>4. Shown(vol', rm', tree')
    BY <2>1, <2>2, <2>3, ShownAreKnown
  <2>5. Tree!RemoveFile(p)
    BY <2>1, <2>2 DEF Tree!RemoveFile, t2
  <2>6. QED  BY <2>2, <2>4, <2>5 DEF StepKeepsTree, Tree!Next
<1>6. QED  BY <1>4, <1>5

(* So does the second.                                                      *)
LEMMA ResizeKeepsTree ==
    ASSUME TextsAreNoDirectories, VolumeInv, TidyInv, TreeInv,
           HasRoom, FreshNames, ~CrashInRm, change_dir_size, UNCHANGED tree
    PROVE  StepKeepsTree
<1> DEFINE dirs == KnownDirs(vol, rm)
           files == Named(vol, "file")
<1>1. ~Idle /\ vol' = Resized(vol, rm) /\ rm' = NoRm
  BY DEF change_dir_size
<1>2. /\ Sound(vol, dirs, files)
      /\ rm.dir \in dirs /\ rm.size \in Nat /\ EndBefore(vol, Ptr(vol, rm.dir, 0), rm.size)
      /\ \E where \in DirPaths(tree, dirs) : TreeShown(vol, tree, dirs, where)
  BY <1>1, TreeFacts
<1> HIDE DEF dirs, files
<1>3. PICK where \in DirPaths(tree, dirs) : TreeShown(vol, tree, dirs, where)
  BY <1>2
<1>4. Sound(vol', dirs, files) /\ TreeShown(vol', tree, dirs, where)
  BY <1>1, <1>2, <1>3, ResizedSound, ResizedShown
<1>5. Shown(vol', rm', tree')
  <2>1. rm'.dir \in dirs \cup {None}
    BY <1>1 DEF NoRm
  <2>2. QED  BY <1>3, <1>4, <2>1, ShownAreKnown
<1>6. QED  BY <1>5 DEF StepKeepsTree

(* So every step does.                                                      *)
LEMMA EveryStepKeepsTree ==
    ASSUME TextsAreNoDirectories, VolumeInv, TidyInv, TreeInv,
           HasRoom, FreshNames, ~CrashInRm, ~RmFull, [HNext]_allVars
    PROVE  StepKeepsTree
<1>1. CASE UNCHANGED allVars
  BY <1>1 DEF allVars, vars, StepKeepsTree, Shown, TreeInv
<1>2. CASE \E path \in Path : MakeStep(path)
  BY <1>2, MakeKeepsTree
<1>3. CASE \E path \in Path : RemoveStep(path)
  BY <1>3, RmKeepsTree
<1>4. CASE \E path \in Path, file \in File : CopyInStep(path, file)
  BY <1>4, CopyInKeepsTree
<1>5. CASE change_dir_size /\ UNCHANGED tree
  BY <1>5, ResizeKeepsTree
<1>6. CASE CrashBetweenCommits
  BY <1>6 DEF CrashBetweenCommits
<1>7. QED  BY <1>1, <1>2, <1>3, <1>4, <1>5, <1>6 DEF HNext

(* The inductive invariant is preserved by every step.                      *)
LEMMA TreeInvStep ==
    ASSUME TextsAreNoDirectories, ~RmFull, VolumeInv, TidyInv, TreeInv, [HNext]_allVars
    PROVE  TreeInv'
<1>1. (tree \in [AllPaths -> Tree!Node])'
  BY TreeTypeStep DEF TreeInv
<1>2. HasRoom /\ FreshNames /\ ~CrashInRm => Shown(vol', rm', tree')
  BY EveryStepKeepsTree DEF StepKeepsTree
<1>3. QED  BY <1>1, <1>2 DEF TreeInv, Shown

-----------------------------------------------------------------------------
(* The theorems.                                                            *)

(* Every behaviour is one of Volume.                                        *)
LEMMA HistoryIsVolume == HSpec => Spec
<1>1. HInit => Init
  BY DEF HInit
<1>2. QED  BY <1>1, HistoryStep, PTL DEF HSpec, Spec

(* The directories are those of the tree that the tools of the users have   *)
(* made, and hold the entries that it says, as long as users remove no file *)
(* that uses every block pointer.                                           *)
THEOREM DirectoriesShowTree ==
    ASSUME TextsAreNoDirectories, ~RmFull
    PROVE  HSpec => []TreeInv
<1>1. HInit => TreeInv
  BY TreeInvInit
<1>2. VolumeInv /\ TidyInv /\ TreeInv /\ [HNext]_allVars => TreeInv'
  BY TreeInvStep
<1>3. QED
  BY <1>1, <1>2, HistoryIsVolume, VolumeStaysSound, DirectoriesStayTidy, PTL DEF HSpec

(* Every path then names what the tools have put there: a directory, or the *)
(* file that was copied in, contents and all.                               *)
THEOREM PathsNameTree ==
    ASSUME TextsAreNoDirectories, ~RmFull, HasRoom, FreshNames, ~CrashInRm
    PROVE  HSpec => []TreeIsSeen
<1>1. VolumeInv /\ TidyInv /\ TreeInv => TreeIsSeen
  <2> SUFFICES ASSUME VolumeInv, TidyInv, TreeInv PROVE TreeIsSeen
    OBVIOUS
  <2> DEFINE dirs == KnownDirs(vol, rm)
             files == Named(vol, "file")
  <2>1. /\ Sound(vol, dirs, files) /\ AllTidy(vol, rm, dirs)
        /\ Idle => AllOrderly(vol, dirs)
        /\ ~Idle => /\ rm.dir \in dirs /\ rm.size \in Nat
                    /\ EndBefore(vol, Ptr(vol, rm.dir, 0), rm.size)
        /\ \E where \in DirPaths(tree, dirs) : TreeShown(vol, tree, dirs, where)
    BY TreeFacts
  <2> HIDE DEF dirs, files
  <2>2. PICK where \in DirPaths(tree, dirs) : TreeShown(vol, tree, dirs, where)
    BY <2>1
  <2>3. /\ Sound(Settled, dirs, files) /\ AllOrderly(Settled, dirs)
        /\ TreeShown(Settled, tree, dirs, where)
    <3>1. CASE Idle
      BY <2>1, <2>2, <3>1 DEF Settled
    <3>2. CASE ~Idle
      <4>1. Settled = Resized(vol, rm)
        BY <3>2 DEF Settled, Resized
      <4>2. QED  BY <2>1, <2>2, <3>2, <4>1, ResizedSound, ResizeOrderly, ResizedShown
    <3>3. QED  BY <3>1, <3>2
  <2>4. \A p \in AllPaths : Seen(Settled, p) = tree[p]
    BY <2>2, <2>3, SeenIsTree
  <2>5. QED  BY <2>4 DEF TreeIsSeen
<1>2. QED
  BY <1>1, HistoryIsVolume, VolumeStaysSound, DirectoriesStayTidy, DirectoriesShowTree, PTL

(* And jfs_ls lists the tree, between any two tools: all that is in it, and *)
(* nothing else.                                                            *)
THEOREM LsShowsTheTree ==
    ASSUME TextsAreNoDirectories, ~RmFull, HasRoom, FreshNames, ~CrashInRm
    PROVE  HSpec => []LsListsTree
<1>1. VolumeInv /\ TidyInv /\ TreeInv => LsListsTree
  <2> SUFFICES ASSUME VolumeInv, TidyInv, TreeInv, Idle PROVE ListsTree(vol, tree)
    BY DEF LsListsTree
  <2> DEFINE dirs == KnownDirs(vol, rm)
             files == Named(vol, "file")
  <2>1. /\ tree \in [AllPaths -> Tree!Node] /\ Sound(vol, dirs, files) /\ AllOrderly(vol, dirs)
        /\ \E where \in DirPaths(tree, dirs) : TreeShown(vol, tree, dirs, where)
    BY TreeFacts
  <2> HIDE DEF dirs, files
  <2>2. MaxDepth > 0
    BY DEF HasRoom
  <2>3. QED  BY <2>1, <2>2, ListShown
<1>2. QED
  BY <1>1, HistoryIsVolume, VolumeStaysSound, DirectoriesStayTidy, DirectoriesShowTree, PTL

(* The tools implement FileTree: what one says it has done, the tree lets   *)
(* it do, and it does nothing else.                                         *)
THEOREM ToolsImplementTree ==
    ASSUME TextsAreNoDirectories, ~RmFull, HasRoom, FreshNames, ~CrashInRm
    PROVE  HSpec => ToolsKeepToTree
<1>1. HInit => Tree!Init
  <2>1. LogFile \in Seq(Text) /\ Len(LogFile) <= Ptrs
    BY FormatIs
  <2>2. LogFile \in AllFiles
    BY <2>1, FilesAre
  <2>3. QED  BY <2>2 DEF HInit, Tree!Init, LogFile
<1>2. VolumeInv /\ TidyInv /\ TreeInv /\ [HNext]_allVars => [Tree!Next]_tree
  BY EveryStepKeepsTree DEF StepKeepsTree
<1>3. QED
  BY <1>1, <1>2, HistoryIsVolume, VolumeStaysSound, DirectoriesStayTidy, DirectoriesShowTree,
     PTL DEF HSpec, ToolsKeepToTree, Tree!Spec

=============================================================================
