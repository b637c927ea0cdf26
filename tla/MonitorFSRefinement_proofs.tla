--------------------- MODULE MonitorFSRefinement_proofs ---------------------
(***************************************************************************)
(* TLAPS proof that for clients that leave open files alone the tables of  *)
(* MonitorFS implement FlatStore: named byte strings, handles with         *)
(* positions in them, and limits that are exact, for any limits and any    *)
(* names.  One lemma for each way out of each call, over the invariant of  *)
(* MonitorFS_proofs.                                                       *)
(***************************************************************************)
EXTENDS MonitorFSRefinement, MonitorFS_proofs, SequenceTheorems

-----------------------------------------------------------------------------
(* The invariant under which the mapping is used *)

\* Entries carry names that clients can look up.
EntriesNamed == \A s \in Entries : dir[s].d_name \in Paths \ InvalidPaths

RInv == DInv /\ EntriesNamed

-----------------------------------------------------------------------------
(* Names and files *)

\* A name is there exactly when an entry carries it.
LEMMA NamesAre ==
    ASSUME RInv, NEW p \in Paths
    PROVE  p \in Names <=> \E s \in Entries : dir[s].d_name = p
<1>1. ASSUME p \in Names PROVE \E s \in Entries : dir[s].d_name = p
  BY <1>1, LookupFound DEF RInv, DInv, IInv, Names
<1>2. ASSUME NEW s \in Entries, dir[s].d_name = p PROVE p \in Names
  BY <1>2, LookupIs DEF RInv, DInv, NamesFound, EntriesNamed, Names, Entries
<1> QED  BY <1>1, <1>2

\* A name leads to a live file that is nobody else's.
LEMMA NameLeads ==
    ASSUME RInv, NEW p \in Names
    PROVE  /\ p \in Paths /\ p \notin InvalidPaths
           /\ tfs_lookup(p) \in Files /\ tfs_lookup(p) \in INums
           /\ Live(tfs_lookup(p))
           /\ \A q \in Names : tfs_lookup(q) = tfs_lookup(p) => q = p
<1>1. /\ p \in Paths /\ tfs_lookup(p) # -1 /\ TypeOK /\ DirectoryConsistent
      /\ p \notin InvalidPaths
  BY DEF Names, RInv, DInv, IInv, tfs_lookup, valid_pathname
<1>2. PICK s \in Entries : /\ dir[s].d_name = p
                           /\ dir[s].d_inumber = tfs_lookup(p)
                           /\ tfs_lookup(p) \in Files
                           /\ Live(tfs_lookup(p))
  BY <1>1, LookupFound
<1>3. ASSUME NEW q \in Names, tfs_lookup(q) = tfs_lookup(p) PROVE q = p
  <2>1. q \in Paths /\ tfs_lookup(q) # -1  BY DEF Names
  <2>2. PICK t \in Entries : /\ dir[t].d_name = q
                             /\ dir[t].d_inumber = tfs_lookup(q)
    BY <1>1, <2>1, LookupFound
  <2>3. t = s  BY <1>1, <1>2, <1>3, <2>2 DEF DirectoryConsistent
  <2> QED  BY <1>2, <2>2, <2>3
<1> QED  BY <1>1, <1>2, <1>3 DEF Files

\* A live file has a name, and NameOf finds it.
LEMMA FileNamed ==
    ASSUME RInv, NEW i \in Files, Live(i)
    PROVE  NameOf(i) \in Names /\ tfs_lookup(NameOf(i)) = i
<1>1. PICK s \in Entries : dir[s].d_inumber = i
  BY DEF RInv, DInv, IInv, DirectoryConsistent
<1> DEFINE p == dir[s].d_name
<1>2. p \in Paths /\ p \in Names  BY NamesAre DEF RInv, EntriesNamed
<1>3. tfs_lookup(p) = i
  BY <1>1, LookupIs DEF RInv, DInv, NamesFound, EntriesNamed
<1>4. \E q \in Names : tfs_lookup(q) = i  BY <1>2, <1>3
<1> QED  BY <1>4 DEF NameOf

LEMMA NameOfIs ==
    ASSUME RInv, NEW p \in Names
    PROVE  NameOf(tfs_lookup(p)) = p
BY NameLeads, FileNamed

\* The same in the next state.
NamesLead ==
    \A p \in Names : /\ p \in Paths /\ p \notin InvalidPaths
                     /\ tfs_lookup(p) \in Files /\ tfs_lookup(p) \in INums
                     /\ Live(tfs_lookup(p))
                     /\ NameOf(tfs_lookup(p)) = p
                     /\ \A q \in Names : tfs_lookup(q) = tfs_lookup(p) => q = p

NamesThere == \A p \in Paths : p \in Names <=> \E s \in Entries : dir[s].d_name = p

LEMMA NameFacts == RInv => NamesLead /\ NamesThere
<1> SUFFICES ASSUME RInv PROVE NamesLead /\ NamesThere  OBVIOUS
<1> QED  BY NameLeads, NameOfIs, NamesAre DEF NamesLead, NamesThere

LEMMA NameFactsNext == RInv' => NamesLead' /\ NamesThere'
BY NameFacts, PTL

\* An open handle is on a live file, at a position inside it.
LEMMA HandleOn ==
    ASSUME RInv, NEW h \in Handles, IsOpen(h)
    PROVE  /\ open_file_table[h].of_inumber \in Files
           /\ open_file_table[h].of_inumber \in INums
           /\ Live(open_file_table[h].of_inumber)
           /\ open_file_table[h].of_offset \in Nat
           /\ open_file_table[h].of_offset
                  <= inode[open_file_table[h].of_inumber].i_size
           /\ Inside(h)
BY DEF RInv, DInv, IInv, TypeOK, HandlesOnFiles, OffsetWithinSize, Inside, Files

\* An inode's size and the block that holds its bytes.
LEMMA Sized ==
    ASSUME RInv, NEW i \in INums
    PROVE  /\ inode[i].i_size \in Nat /\ inode[i].i_size <= BlockSize
           /\ inode[i].i_size > 0 => /\ inode[i].i_data_block \in BlockNumbers
                                     /\ inode[i].i_data_block \in Nat
BY CountAssumption
DEF RInv, DInv, IInv, TypeOK, SizesBounded, SizedHasBlock, BlockNumbers

\* What a name has is as long as its inode says.
LEMMA StoredAt ==
    ASSUME RInv, NEW p \in Names
    PROVE  /\ p \in DOMAIN Stored /\ DOMAIN Stored = Names /\ Stored[p] = Contents(p)
           /\ Len(Contents(p)) = inode[tfs_lookup(p)].i_size
           /\ Contents(p) = <<>> <=> inode[tfs_lookup(p)].i_size = 0
<1> DEFINE n == inode[tfs_lookup(p)].i_size
<1>1. n \in Nat  BY NameLeads, Sized
<1>2. Contents(p) = [k \in 1 .. n |->
          fs_data[inode[tfs_lookup(p)].i_data_block * BlockSize + k - 1]]
  BY DEF Contents
<1> HIDE DEF n
<1>3. Len(Contents(p)) = n  BY <1>1, <1>2
<1>4. Contents(p) = <<>> <=> n = 0
  <2>1. Len(<<>>) = 0  OBVIOUS
  <2>2. ASSUME n = 0 PROVE Contents(p) = <<>>
    BY <1>2, <2>2
  <2> QED  BY <1>3, <2>1, <2>2
<1> QED  BY <1>3, <1>4 DEF Stored, n

-----------------------------------------------------------------------------
(* The limits are exact: what is counted by name in FlatStore is what the   *)
(* allocators count in their tables.                                        *)

LEMMA SameCardinality == \A X : Store!Cardinality(X) = Cardinality(X)
BY DEF Store!Cardinality, Cardinality

\* A one-to-one correspondence.
LEMMA OneToOne ==
    ASSUME NEW A, NEW B, IsFiniteSet(A), NEW f \in [A -> B],
           \A x, y \in A : f[x] = f[y] => x = y,
           \A z \in B : \E x \in A : f[x] = z
    PROVE  IsFiniteSet(B) /\ Cardinality(B) = Cardinality(A)
<1>1. f \in Surjection(A, B)  BY DEF Surjection
<1>2. f \in Injection(A, B)  BY DEF Injection, IsInjective
<1> QED  BY <1>1, <1>2, FS_Surjection

LiveFiles == {i \in Files : Live(i)}

LEMMA EntriesFinite == /\ IsFiniteSet(Slots) /\ Cardinality(Slots) = MaxDirEntries
                       /\ IsFiniteSet(Entries) /\ Entries \in SUBSET Slots
<1>1. IsFiniteSet(0 .. MaxDirEntries - 1)
      /\ Cardinality(0 .. MaxDirEntries - 1) = MaxDirEntries
  BY FS_Interval, CountAssumption
<1>2. Entries \in SUBSET Slots  BY DEF Entries
<1> QED  BY <1>1, <1>2, FS_Subset DEF Slots

LEMMA FilesFinite == /\ IsFiniteSet(Files) /\ Cardinality(Files) = MaxInodeCount - 1
                     /\ IsFiniteSet(LiveFiles) /\ LiveFiles \in SUBSET Files
<1>1. Files = 1 .. MaxInodeCount - 1
  BY CountAssumption DEF Files, INums, ROOT_DIR_INUM
<1>2. IsFiniteSet(Files) /\ Cardinality(Files) = MaxInodeCount - 1
  BY <1>1, FS_Interval, CountAssumption
<1>3. LiveFiles \in SUBSET Files  BY DEF LiveFiles
<1> QED  BY <1>2, <1>3, FS_Subset

\* There are as many names as entries, and as live files.
LEMMA NamesCounted ==
    ASSUME RInv
    PROVE  /\ IsFiniteSet(Names) /\ Cardinality(Names) = Cardinality(Entries)
           /\ Cardinality(Names) = Cardinality(LiveFiles)
<1>1. IsFiniteSet(Names) /\ Cardinality(Names) = Cardinality(Entries)
  <2> DEFINE f == [s \in Entries |-> dir[s].d_name]
  <2>1. \A s \in Entries : f[s] = dir[s].d_name /\ f[s] \in Names
    BY NamesAre DEF RInv, EntriesNamed
  <2>2. f \in [Entries -> Names]  BY <2>1
  <2>3. \A s, t \in Entries : f[s] = f[t] => s = t
    BY <2>1 DEF RInv, DInv, IInv, DirectoryConsistent
  <2>4. \A p \in Names : \E s \in Entries : f[s] = p
    BY <2>1, NamesAre DEF Names
  <2> HIDE DEF f
  <2> QED  BY <2>2, <2>3, <2>4, EntriesFinite, OneToOne
<1>2. Cardinality(Names) = Cardinality(LiveFiles)
  <2> DEFINE g == [i \in LiveFiles |-> NameOf(i)]
  <2>1. \A i \in LiveFiles : g[i] = NameOf(i) /\ g[i] \in Names
                             /\ tfs_lookup(g[i]) = i
    BY FileNamed DEF LiveFiles
  <2>2. g \in [LiveFiles -> Names]  BY <2>1
  <2>3. \A i, j \in LiveFiles : g[i] = g[j] => i = j  BY <2>1
  <2>4. \A p \in Names : \E i \in LiveFiles : g[i] = p
    <3> SUFFICES ASSUME NEW p \in Names PROVE \E i \in LiveFiles : g[i] = p  OBVIOUS
    <3>1. tfs_lookup(p) \in LiveFiles  BY NameLeads DEF LiveFiles
    <3> QED  BY <3>1, NameOfIs
  <2> HIDE DEF g
  <2> QED  BY <2>2, <2>3, <2>4, FilesFinite, OneToOne
<1> QED  BY <1>1, <1>2

\* tfs_open finds no inode or no entry exactly when there are too many names.
LEMMA FullIs ==
    ASSUME RInv
    PROVE  Store!Full <=> Free(freeinode_ts) = {} \/ EmptySlots = {}
<1> DEFINE n == Cardinality(Names)
           m == Smaller(MaxInodeCount - 1, MaxDirEntries)
<1>1. Store!Full <=> n >= m
  <2>1. DOMAIN Stored = Names  BY DEF Stored
  <2> QED  BY <2>1, SameCardinality DEF Store!Full
<1>2. /\ n \in Nat /\ n <= MaxInodeCount - 1 /\ n <= MaxDirEntries
      /\ n = MaxInodeCount - 1 <=> LiveFiles = Files
      /\ n = MaxDirEntries <=> Entries = Slots
  <2>1. n \in Nat  BY NamesCounted, FS_CardinalityType
  <2>2. n <= MaxInodeCount - 1 /\ (n = MaxInodeCount - 1 <=> LiveFiles = Files)
    BY NamesCounted, FilesFinite, FS_Subset
  <2>3. n <= MaxDirEntries /\ (n = MaxDirEntries <=> Entries = Slots)
    BY NamesCounted, EntriesFinite, FS_Subset
  <2> QED  BY <2>1, <2>2, <2>3
<1>3. LiveFiles = Files <=> Free(freeinode_ts) = {}
  <2>1. /\ DOMAIN freeinode_ts = INums
        /\ \A i \in INums : freeinode_ts[i] \in {"FREE", "TAKEN"}
        /\ freeinode_ts[ROOT_DIR_INUM] = "TAKEN"
    BY DEF RInv, DInv, IInv, TypeOK, AllocationState, RootIntact, Live
  <2> QED  BY <2>1 DEF LiveFiles, Files, Free, Live
<1>4. Entries = Slots <=> EmptySlots = {}  BY DEF Entries, EmptySlots
<1> HIDE DEF n
<1>5. n >= m <=> n = MaxInodeCount - 1 \/ n = MaxDirEntries
  BY <1>2, CountAssumption DEF Smaller
<1> QED  BY <1>1, <1>2, <1>3, <1>4, <1>5

Filled == {p \in Names : Contents(p) # <<>>}
FileBlocks == BlockNumbers \ {RootBlock}
Used == {b \in FileBlocks : free_blocks[b] = "TAKEN"}

LEMMA BlocksFinite ==
    ASSUME RInv
    PROVE  /\ IsFiniteSet(FileBlocks) /\ Cardinality(FileBlocks) = MaxBlockCount - 1
           /\ IsFiniteSet(Used) /\ Used \in SUBSET FileBlocks
<1>1. IsFiniteSet(0 .. MaxBlockCount - 1)
      /\ Cardinality(0 .. MaxBlockCount - 1) = MaxBlockCount
  BY FS_Interval, CountAssumption
<1>2. RootBlock \in BlockNumbers  BY DEF RInv, DInv, IInv, RootIntact
<1>3. IsFiniteSet(FileBlocks) /\ Cardinality(FileBlocks) = MaxBlockCount - 1
  BY <1>1, <1>2, FS_RemoveElement DEF FileBlocks, BlockNumbers
<1>4. Used \in SUBSET FileBlocks  BY DEF Used
<1> QED  BY <1>3, <1>4, FS_Subset

\* Every file with contents has one block, and every block is some file's.
LEMMA FilledCounted ==
    ASSUME RInv
    PROVE  IsFiniteSet(Filled) /\ Cardinality(Filled) = Cardinality(Used)
<1> DEFINE block(p) == inode[tfs_lookup(p)].i_data_block
           f == [p \in Filled |-> block(p)]
<1>1. IsFiniteSet(Filled)
  <2>1. Filled \in SUBSET Names  BY DEF Filled
  <2> QED  BY <2>1, NamesCounted, FS_Subset
<1>2. ASSUME NEW p \in Filled
      PROVE  /\ p \in Names /\ tfs_lookup(p) \in Files /\ tfs_lookup(p) \in INums
             /\ Live(tfs_lookup(p)) /\ inode[tfs_lookup(p)].i_size > 0
  <2>1. p \in Names /\ Contents(p) # <<>>  BY DEF Filled
  <2>2. inode[tfs_lookup(p)].i_size # 0  BY <2>1, StoredAt
  <2> QED  BY <2>1, <2>2, NameLeads, Sized
<1>3. \A p \in Filled : f[p] = block(p) /\ f[p] \in Used
  <2> SUFFICES ASSUME NEW p \in Filled PROVE block(p) \in Used  OBVIOUS
  <2>1. /\ block(p) \in BlockNumbers /\ free_blocks[block(p)] = "TAKEN"
        /\ block(p) # RootBlock
    BY <1>2 DEF RInv, DInv, IInv, BlocksNeverShared, RootIntact
  <2> QED  BY <2>1 DEF Used, FileBlocks
<1>4. \A p, q \in Filled : f[p] = f[q] => p = q
  <2> SUFFICES ASSUME NEW p \in Filled, NEW q \in Filled, block(p) = block(q)
               PROVE  p = q
    OBVIOUS
  <2>1. tfs_lookup(p) = tfs_lookup(q)
    BY <1>2 DEF RInv, DInv, IInv, BlocksNeverShared
  <2> QED  BY <1>2, <2>1, NameLeads
<1>5. \A b \in Used : \E p \in Filled : f[p] = b
  <2> SUFFICES ASSUME NEW b \in Used PROVE \E p \in Filled : block(p) = b  OBVIOUS
  <2>1. /\ b \in BlockNumbers /\ free_blocks[b] = "TAKEN" /\ b # RootBlock
    BY DEF Used, FileBlocks
  <2>2. PICK i \in INums : Live(i) /\ inode[i].i_size > 0 /\ inode[i].i_data_block = b
    BY <2>1 DEF RInv, DInv, NoBlockLeak
  <2>3. i \in Files  BY <2>1, <2>2 DEF Files, RootBlock
  <2>4. NameOf(i) \in Names /\ tfs_lookup(NameOf(i)) = i  BY <2>2, <2>3, FileNamed
  <2>5. NameOf(i) \in Filled  BY <2>2, <2>4, StoredAt DEF Filled
  <2> QED  BY <2>2, <2>4, <2>5
<1>6. f \in [Filled -> Used]  BY <1>3
<1> HIDE DEF f
<1> QED  BY <1>1, <1>4, <1>5, <1>6, OneToOne

\* tfs_write finds no block exactly when too many files have contents.
LEMMA OutOfContentsIs ==
    ASSUME RInv
    PROVE  Store!OutOfContents <=> Free(free_blocks) = {}
<1> DEFINE n == Cardinality(Used)
<1>1. Store!OutOfContents <=> n >= MaxBlockCount - 1
  <2>1. {p \in DOMAIN Stored : Stored[p] # <<>>} = Filled
    <3>1. DOMAIN Stored = Names /\ \A p \in Names : Stored[p] = Contents(p)
      BY DEF Stored
    <3> QED  BY <3>1, SMT DEF Filled
  <2> QED  BY <2>1, SameCardinality, FilledCounted DEF Store!OutOfContents
<1>2. /\ n \in Nat /\ n <= MaxBlockCount - 1
      /\ n = MaxBlockCount - 1 <=> Used = FileBlocks
  BY BlocksFinite, FS_Subset, FS_CardinalityType
<1>3. Used = FileBlocks <=> Free(free_blocks) = {}
  <2>1. /\ DOMAIN free_blocks = BlockNumbers
        /\ \A b \in BlockNumbers : free_blocks[b] \in {"FREE", "TAKEN"}
        /\ free_blocks[RootBlock] = "TAKEN"
    BY DEF RInv, DInv, IInv, TypeOK, AllocationState, RootIntact
  <2> QED  BY <2>1 DEF Used, FileBlocks, Free
<1> HIDE DEF n
<1> QED  BY <1>1, <1>2, <1>3, CountAssumption

-----------------------------------------------------------------------------
(* The invariant *)

\* Entries get the names that tfs_open was given, once they passed its checks.
LEMMA EntriesStayNamed ==
    ASSUME RInv, DisciplinedNext PROVE EntriesNamed'
<1>1. CASE UNCHANGED dir  BY <1>1 DEF RInv, EntriesNamed, Entries
<1>2. ASSUME NEW name \in Paths, NEW mode \in Modes, Create(name, mode)
      PROVE  EntriesNamed'
  <2> DEFINE inum == Min(Free(freeinode_ts))
             slot == Min(EmptySlots)
             new  == [d_name |-> name, d_inumber |-> inum]
  <2>1. dir' = [dir EXCEPT ![slot] = new] /\ name \in Paths \ InvalidPaths
    BY <1>2 DEF Create, add_dir_entry, valid_pathname
  <2>2. new.d_name = name  OBVIOUS
  <2> HIDE DEF slot, inum, new
  <2>3. \A s \in Slots : dir'[s] = dir[s] \/ dir'[s] = new
    BY <2>1 DEF RInv, DInv, IInv, TypeOK
  <2> QED  BY <2>1, <2>2, <2>3 DEF RInv, EntriesNamed, Entries
<1>3. ASSUME NEW name \in Paths, Unlink(name), ~(dir' = dir)
      PROVE  EntriesNamed'
  <2> DEFINE slot == Min({s \in Slots : dir[s].d_name = name})
             gone == [d_name |-> NoName, d_inumber |-> -1]
  <2>1. dir' = [dir EXCEPT ![slot] = gone]
    BY <1>3 DEF Unlink, clear_dir_entry, Abort, tables
  <2>2. gone.d_inumber = -1  OBVIOUS
  <2> HIDE DEF slot, gone
  <2>3. \A s \in Slots : dir'[s] = dir[s] \/ dir'[s] = gone
    BY <2>1 DEF RInv, DInv, IInv, TypeOK
  <2> QED  BY <2>2, <2>3 DEF RInv, EntriesNamed, Entries
<1>4. ASSUME NEW name \in Paths, Unlink(name), dir' = dir
      PROVE  EntriesNamed'
  BY <1>1, <1>4
<1>5. ASSUME NEW name \in Paths, NEW mode \in Modes, tfs_open(name, mode)
      PROVE  EntriesNamed'
  BY <1>1, <1>2, <1>5
  DEF tfs_open, OpenRefused, OpenExisting, CreateRefused, Abort, tables
<1>6. ASSUME NEW h \in CallHandles, tfs_close(h) PROVE UNCHANGED dir
  BY <1>6 DEF tfs_close
<1>7. ASSUME NEW h \in CallHandles, NEW data \in Buffers, tfs_write(h, data)
      PROVE  UNCHANGED dir
  BY <1>7 DEF tfs_write, WriteNothing, WriteBytes, WriteWrapped, Abort, tables
<1>8. ASSUME NEW h \in CallHandles, NEW len \in 0 .. MaxTransfer, tfs_read(h, len)
      PROVE  UNCHANGED dir
  BY <1>8 DEF tfs_read, ReadNothing, ReadBytes, Abort, tables
<1>9. ASSUME NEW name \in Paths, tfs_unlink(name) PROVE EntriesNamed'
  BY <1>1, <1>3, <1>4, <1>9 DEF tfs_unlink, UnlinkRefused, tables
<1> QED  BY <1>1, <1>5, <1>6, <1>7, <1>8, <1>9 DEF DisciplinedNext

LEMMA InitRInv == Init => RInv
<1> SUFFICES ASSUME Init PROVE RInv  OBVIOUS
<1>1. DInv  BY InitDInv
<1>2. EntriesNamed  BY DEF Init, EntriesNamed, Entries
<1> QED  BY <1>1, <1>2 DEF RInv

LEMMA StepRInv == RInv /\ [DisciplinedNext]_vars => RInv'
<1> SUFFICES ASSUME RInv, [DisciplinedNext]_vars PROVE RInv'  OBVIOUS
<1>1. DInv'  BY DisciplinedKeeps DEF RInv
<1>2. CASE UNCHANGED vars
  BY <1>1, <1>2 DEF RInv, EntriesNamed, Entries, vars, tables
<1>3. CASE DisciplinedNext
  BY <1>1, <1>3, EntriesStayNamed DEF RInv
<1> QED  BY <1>2, <1>3

-----------------------------------------------------------------------------
(* What stays and what moves *)

\* A name that is there before and after a step, and leads to the same inode.
Stays(q) == q \in Names' /\ tfs_lookup(q)' = tfs_lookup(q)

\* While nobody touches the directory, all names stay.
LEMMA NamesStay ==
    ASSUME RInv, RInv', UNCHANGED dir
    PROVE  Names' = Names /\ \A q \in Names : Stays(q)
<1>1. ASSUME NEW q \in Names PROVE Stays(q)
  <2>1. q \in Paths /\ tfs_lookup(q) # -1  BY DEF Names
  <2>2. tfs_lookup(q)' = tfs_lookup(q)
    BY <2>1, LookupKept DEF RInv, DInv
  <2> QED  BY <2>1, <2>2 DEF Stays, Names
<1>2. ASSUME NEW q \in Names' PROVE q \in Names
  <2>1. q \in Paths  BY DEF Names
  <2>2. \E s \in Entries' : dir'[s].d_name = q
    BY <1>2, <2>1, NameFactsNext DEF NamesThere
  <2>3. \E s \in Entries : dir[s].d_name = q  BY <2>2 DEF Entries
  <2> QED  BY <2>1, <2>3, NamesAre
<1> QED  BY <1>1, <1>2 DEF Stays

\* Contents stay when the size, the block and its bytes do.
LEMMA ContentsStay ==
    ASSUME RInv, NEW p \in Names, Stays(p),
           inode'[tfs_lookup(p)].i_size = inode[tfs_lookup(p)].i_size,
           inode[tfs_lookup(p)].i_size > 0 =>
               /\ inode'[tfs_lookup(p)].i_data_block = inode[tfs_lookup(p)].i_data_block
               /\ \A k \in 1 .. inode[tfs_lookup(p)].i_size :
                      LET a == inode[tfs_lookup(p)].i_data_block * BlockSize + k - 1
                      IN  fs_data'[a] = fs_data[a]
    PROVE  Contents(p)' = Contents(p)
<1> DEFINE i == tfs_lookup(p)
           n == inode[i].i_size
           b == inode[i].i_data_block
           b2 == inode'[i].i_data_block
<1>1. n \in Nat  BY NameLeads, Sized
<1>2. Contents(p) = [k \in 1 .. n |-> fs_data[b * BlockSize + k - 1]]
  BY DEF Contents
<1>3. Contents(p)' = [k \in 1 .. n |-> fs_data'[b2 * BlockSize + k - 1]]
  BY DEF Contents, Stays
<1>4. \A k \in 1 .. n : /\ b2 = b
                        /\ fs_data'[b * BlockSize + k - 1] = fs_data[b * BlockSize + k - 1]
  BY <1>1
<1> HIDE DEF n, b, b2
<1> QED  BY <1>2, <1>3, <1>4

\* Files stay while no live inode and no byte changes.
LEMMA StoredStays ==
    ASSUME RInv, RInv', UNCHANGED <<dir, fs_data>>,
           \A i \in INums : Live(i) =>
               /\ inode'[i].i_size = inode[i].i_size
               /\ inode'[i].i_data_block = inode[i].i_data_block
    PROVE  Stored' = Stored
<1>1. Names' = Names /\ \A q \in Names : Stays(q)  BY NamesStay
<1>2. \A p \in Names : Contents(p)' = Contents(p)
  BY <1>1, NameLeads, ContentsStay
<1> QED  BY <1>1, <1>2 DEF Stored

\* A handle keeps its name as long as the name stays.
LEMMA HandleNameStays ==
    ASSUME RInv, RInv', NEW h \in Handles, IsOpen(h),
           open_file_table'[h].of_inumber = open_file_table[h].of_inumber,
           \A q \in Names : InUse(q) => Stays(q)
    PROVE  NameOf(open_file_table[h].of_inumber)' = NameOf(open_file_table[h].of_inumber)
<1>1. PICK q \in Names : /\ q = NameOf(open_file_table[h].of_inumber)
                         /\ tfs_lookup(q) = open_file_table[h].of_inumber
  BY HandleOn, FileNamed
<1>2. InUse(q)  BY <1>1 DEF InUse
<1>3. q \in Names' /\ tfs_lookup(q)' = open_file_table[h].of_inumber
  BY <1>1, <1>2 DEF Stays
<1>4. \A p \in Names' : tfs_lookup(p)' = open_file_table[h].of_inumber => p = q
  BY <1>3, NameFactsNext DEF NamesLead
<1>5. NameOf(open_file_table[h].of_inumber)'
          = CHOOSE p \in Names' : tfs_lookup(p)' = open_file_table[h].of_inumber
  BY DEF NameOf
<1>6. (CHOOSE p \in Names' : tfs_lookup(p)' = open_file_table[h].of_inumber) = q
  BY <1>3, <1>4
<1> QED  BY <1>1, <1>5, <1>6

LEMMA OpenedAt ==
    /\ DOMAIN Opened = OpenHandles
    /\ \A h \in OpenHandles :
           Opened[h] = [name |-> NameOf(open_file_table[h].of_inumber),
                        pos  |-> open_file_table[h].of_offset]
BY DEF Opened

\* A step that neither opens nor closes moves positions at most.
LEMMA OpenedMoves ==
    ASSUME RInv, RInv', UNCHANGED free_open_file_entries,
           \A g \in Handles :
               open_file_table'[g].of_inumber = open_file_table[g].of_inumber,
           \A q \in Names : InUse(q) => Stays(q)
    PROVE  Opened' = [g \in OpenHandles |->
                          [name |-> Opened[g].name,
                           pos  |-> open_file_table'[g].of_offset]]
<1>1. OpenHandles' = OpenHandles  BY DEF OpenHandles, IsOpen
<1>2. \A g \in OpenHandles :
          NameOf(open_file_table[g].of_inumber)' = Opened[g].name
  <2> SUFFICES ASSUME NEW g \in OpenHandles
               PROVE  NameOf(open_file_table[g].of_inumber)' = Opened[g].name
    OBVIOUS
  <2>1. g \in Handles /\ IsOpen(g)  BY DEF OpenHandles
  <2>2. NameOf(open_file_table[g].of_inumber)' = NameOf(open_file_table[g].of_inumber)
    BY <2>1, HandleNameStays
  <2> QED  BY <2>2, OpenedAt
<1> QED  BY <1>1, <1>2 DEF Opened

LEMMA OpenedStays ==
    ASSUME RInv, RInv', UNCHANGED <<open_file_table, free_open_file_entries>>,
           \A q \in Names : InUse(q) => Stays(q)
    PROVE  Opened' = Opened
<1>1. Opened' = [g \in OpenHandles |->
                     [name |-> Opened[g].name, pos |-> open_file_table[g].of_offset]]
  BY OpenedMoves
<1> QED  BY <1>1, OpenedAt DEF Opened

-----------------------------------------------------------------------------
(* Every call is a step of FlatStore *)

\* A call that leaves the tables alone changes nothing there.
LEMMA QuietStored ==
    ASSUME RInv, RInv', UNCHANGED tables
    PROVE  Stored' = Stored /\ Opened' = Opened
<1>1. UNCHANGED <<inode, fs_data, dir, open_file_table, free_open_file_entries>>
  BY DEF tables
<1>2. \A q \in Names : Stays(q)  BY <1>1, NamesStay
<1>3. Stored' = Stored  BY <1>1, StoredStays
<1> QED  BY <1>1, <1>2, <1>3, OpenedStays

\* The next state's handles are called after the files they are on.
LEMMA NameOfNext ==
    ASSUME RInv', NEW h, NEW p, p \in Names',
           tfs_lookup(p)' = open_file_table'[h].of_inumber
    PROVE  NameOf(open_file_table[h].of_inumber)' = p
<1>1. \A q \in Names' : tfs_lookup(q)' = open_file_table'[h].of_inumber => q = p
  BY NameFactsNext DEF NamesLead
<1>2. NameOf(open_file_table[h].of_inumber)'
          = CHOOSE q \in Names' : tfs_lookup(q)' = open_file_table'[h].of_inumber
  BY DEF NameOf
<1>3. (CHOOSE q \in Names' : tfs_lookup(q)' = open_file_table'[h].of_inumber) = p
  BY <1>1
<1> QED  BY <1>2, <1>3

\* A file is open in FlatStore when a handle refers to its inode.
LEMMA InUseIs ==
    ASSUME RInv, NEW p \in Names, Store!InUse(p) PROVE InUse(p)
<1>1. PICK h \in OpenHandles : NameOf(open_file_table[h].of_inumber) = p
  BY OpenedAt DEF Store!InUse
<1>2. h \in Handles /\ IsOpen(h)  BY DEF OpenHandles
<1>3. tfs_lookup(p) = open_file_table[h].of_inumber
  BY <1>1, <1>2, HandleOn, FileNamed
<1> QED  BY <1>2, <1>3 DEF InUse

\* tfs_open runs out of handles when FlatStore does, and never sooner.
LEMMA GrantStep ==
    ASSUME RInv, RInv', NEW p, p \in Names', NEW inum, tfs_lookup(p)' = inum,
           NEW offset, add_to_open_file_table(inum, offset),
           \A q \in Names : InUse(q) => Stays(q)
    PROVE  \E val \in Handles \cup {-1} :
               Store!Return("open", val, <<>>) /\ Store!Grant(p, offset, val)
<1> DEFINE free == Free(free_open_file_entries)
<1>1. /\ DOMAIN free_open_file_entries = Handles
      /\ \A g \in Handles : free_open_file_entries[g] \in {"FREE", "TAKEN"}
  BY DEF RInv, DInv, IInv, TypeOK, AllocationState
<1>2. free = Handles \ DOMAIN Opened
  BY <1>1, OpenedAt DEF Free, OpenHandles, IsOpen
<1>3. CASE free = {}
  <2>1. /\ UNCHANGED <<open_file_table, free_open_file_entries>>
        /\ Store!Return("open", -1, <<>>)
    BY <1>3 DEF add_to_open_file_table, Return, Store!Return
  <2>2. Opened' = Opened  BY <2>1, OpenedStays
  <2>3. Store!Grant(p, offset, -1)  BY <1>2, <1>3, <2>2 DEF Store!Grant
  <2> QED  BY <2>1, <2>3
<1>4. CASE free # {}
  <2>1. PICK h \in Handles : h \in free /\ h = Min(free)
    <3>1. /\ Min(free) \in Handles
          /\ free_open_file_entries[Min(free)] = "FREE"
      BY <1>4, FreeEntry, CountAssumption DEF RInv, DInv, IInv, TypeOK, Handles
    <3> QED  BY <1>1, <3>1 DEF Free
  <2>2. /\ free_open_file_entries' = [free_open_file_entries EXCEPT ![h] = "TAKEN"]
        /\ open_file_table' = [open_file_table EXCEPT
               ![h] = [of_inumber |-> inum, of_offset |-> offset]]
        /\ Store!Return("open", h, <<>>)
    BY <1>4, <2>1 DEF add_to_open_file_table, Return, Store!Return
  <2> DEFINE new == [of_inumber |-> inum, of_offset |-> offset]
  <2> HIDE DEF free
  <2>3. /\ open_file_table'[h] = new /\ new.of_inumber = inum /\ new.of_offset = offset
        /\ \A g \in Handles \ {h} : open_file_table'[g] = open_file_table[g]
    BY <2>1, <2>2 DEF RInv, DInv, IInv, TypeOK
  <2> HIDE DEF new
  <2>4. OpenHandles' = OpenHandles \cup {h} /\ h \notin OpenHandles
    BY <1>1, <1>2, <2>1, <2>2, OpenedAt DEF OpenHandles, IsOpen
  <2>5. \A g \in OpenHandles :
            NameOf(open_file_table[g].of_inumber)' = Opened[g].name
    <3> SUFFICES ASSUME NEW g \in OpenHandles
                 PROVE  NameOf(open_file_table[g].of_inumber)' = Opened[g].name
      OBVIOUS
    <3>1. g \in Handles /\ IsOpen(g) /\ g # h  BY <2>4 DEF OpenHandles
    <3>2. open_file_table'[g].of_inumber = open_file_table[g].of_inumber
      BY <2>3, <3>1
    <3>3. NameOf(open_file_table[g].of_inumber)' = NameOf(open_file_table[g].of_inumber)
      BY <3>1, <3>2, HandleNameStays
    <3> QED  BY <3>3, OpenedAt
  <2>6. NameOf(open_file_table[h].of_inumber)' = p
    BY <2>3, NameOfNext
  <2>7. Opened' = Store!With(Opened, h, [name |-> p, pos |-> offset])
    BY <2>3, <2>4, <2>5, <2>6, OpenedAt DEF Opened, Store!With, OpenHandles
  <2>8. Store!Grant(p, offset, h)  BY <1>2, <1>4, <2>1, <2>7 DEF Store!Grant, free
  <2> QED  BY <2>1, <2>2, <2>8
<1> QED  BY <1>3, <1>4

\* tfs_open refuses a name, or does not find it and may not create it.
LEMMA OpenRefusedStep ==
    ASSUME RInv, RInv', NEW name \in Paths, NEW mode \in Modes,
           OpenRefused(name, mode)
    PROVE  Store!OpenNew(name, mode, -1)
<1>1. UNCHANGED tables /\ Store!Return("open", -1, <<>>)
  BY DEF OpenRefused, Return, Store!Return
<1>2. Stored' = Stored /\ Opened' = Opened  BY <1>1, QuietStored
<1>3. name \notin Names /\ ("CREAT" \notin mode \/ name \in InvalidPaths)
  BY DEF OpenRefused, Names, tfs_lookup, valid_pathname
<1>4. ~Store!Exists(name)  BY <1>3, OpenedAt DEF Store!Exists, Stored
<1> QED  BY <1>1, <1>2, <1>3, <1>4 DEF Store!OpenNew, Store!Fail

\* tfs_open opens a file that is there, and may truncate it first.
LEMMA OpenExistingStep ==
    ASSUME RInv, RInv', NEW name \in Paths, NEW mode \in Modes,
           "TRUNC" \in mode => ~InUse(name), OpenExisting(name, mode)
    PROVE  \E val \in Handles \cup {-1} : Store!OpenOld(name, mode, val)
<1> DEFINE inum == tfs_lookup(name)
           size == SizeAfterTrunc(inum, mode)
           offset == IF "APPEND" \in mode THEN size ELSE 0
           text == IF "TRUNC" \in mode THEN <<>> ELSE Contents(name)
<1>1. name \in Names  BY DEF OpenExisting, Names
<1>2. inum \in Files /\ inum \in INums  BY <1>1, NameLeads
<1>3. /\ inode' = [inode EXCEPT ![inum].i_size = size]
      /\ add_to_open_file_table(inum, offset)
      /\ UNCHANGED <<freeinode_ts, fs_data, dir, status>>
  BY FreesABlock DEF OpenExisting, RInv, DInv
<1>4. /\ size \in Nat
      /\ "TRUNC" \in mode => size = 0
      /\ "TRUNC" \notin mode => size = inode[inum].i_size
  BY <1>2, Sized DEF SizeAfterTrunc, Truncates
<1>5. /\ inode'[inum].i_size = size
      /\ inode'[inum].i_data_block = inode[inum].i_data_block
      /\ \A i \in INums \ {inum} : inode'[i] = inode[i]
  <2>1. inode[inum] \in [i_node_type : {"T_FILE", "T_DIRECTORY"}, i_size : Nat,
                         i_data_block : BlockNumbers \cup {-1}]
    BY <1>2 DEF RInv, DInv, IInv, TypeOK
  <2> HIDE DEF size
  <2> QED  BY <1>2, <1>3, <2>1 DEF RInv, DInv, IInv, TypeOK
<1>6. Names' = Names /\ \A q \in Names : Stays(q)  BY <1>3, NamesStay
<1>7. ASSUME NEW q \in Names, q # name PROVE Contents(q)' = Contents(q)
  <2>1. tfs_lookup(q) \in INums /\ tfs_lookup(q) # inum
    BY <1>1, <1>7, NameLeads
  <2>2. inode'[tfs_lookup(q)] = inode[tfs_lookup(q)]  BY <1>5, <2>1
  <2> QED  BY <1>3, <1>6, <2>2, ContentsStay
<1>8. Contents(name)' = text
  <2>1. CASE "TRUNC" \in mode
    <3>1. tfs_lookup(name)' = inum  BY <1>1, <1>6 DEF Stays
    <3>2. Contents(name)' = <<>>
      <4>1. 1 .. inode'[inum].i_size = {}  BY <1>4, <1>5, <2>1
      <4> QED  BY <3>1, <4>1 DEF Contents
    <3> QED  BY <2>1, <3>2
  <2>2. CASE "TRUNC" \notin mode
    <3>1. Contents(name)' = Contents(name)
      BY <1>1, <1>3, <1>4, <1>5, <1>6, <2>2, ContentsStay
    <3> QED  BY <2>2, <3>1
  <2> QED  BY <2>1, <2>2
<1>9. Stored' = [Stored EXCEPT ![name] = text]
  BY <1>1, <1>6, <1>7, <1>8 DEF Stored
<1>10. Len(text) = size
  BY <1>1, <1>4, StoredAt
<1>11. PICK val \in Handles \cup {-1} :
           Store!Return("open", val, <<>>) /\ Store!Grant(name, offset, val)
  <2>1. name \in Names' /\ tfs_lookup(name)' = inum  BY <1>1, <1>6 DEF Stays
  <2> QED  BY <1>3, <1>6, <2>1, GrantStep
<1>12. Store!Exists(name) /\ Stored[name] = Contents(name)
  BY <1>1 DEF Store!Exists, Stored
<1>13. "TRUNC" \in mode => ~Store!InUse(name)  BY <1>1, InUseIs
<1>14. Stored' = [Stored EXCEPT ![name] = IF "TRUNC" \in mode THEN <<>> ELSE @]
  BY <1>9, <1>12
<1>15. Stored'[name] = text  BY <1>9, <1>12 DEF Store!Exists
<1>16. (IF "APPEND" \in mode THEN Len(Stored'[name]) ELSE 0) = offset
  BY <1>10, <1>15
<1> HIDE DEF offset, text
<1> QED  BY <1>11, <1>12, <1>13, <1>14, <1>16 DEF Store!OpenOld

\* tfs_open finds no inode or no directory entry when FlatStore is full, or the
\* name cannot be stored, and takes nothing.
LEMMA CreateRefusedStep ==
    ASSUME RInv, RInv', NEW name \in Paths, NEW mode \in Modes,
           CreateRefused(name, mode)
    PROVE  Store!OpenNew(name, mode, -1)
<1>1. /\ Store!Return("open", -1, <<>>)
      /\ UNCHANGED <<freeinode_ts, fs_data, free_blocks, dir, open_file_table,
                     free_open_file_entries, status>>
  BY DEF CreateRefused, Return, Store!Return
<1>2. \A i \in INums : Live(i) => inode'[i] = inode[i]
  <2>1. CASE inode' = inode  BY <2>1
  <2>2. CASE inode' # inode
    <3> DEFINE inum == Min(Free(freeinode_ts))
    <3>1. Free(freeinode_ts) # {} /\ inode' = [inode EXCEPT ![inum] = NewFile]
      BY <2>2 DEF CreateRefused
    <3>2. inum \in INums /\ ~Live(inum)
      BY <3>1, FreeEntry, CountAssumption DEF RInv, DInv, IInv, TypeOK, INums, Live
    <3> HIDE DEF inum
    <3> QED  BY <3>1, <3>2 DEF RInv, DInv, IInv, TypeOK
  <2> QED  BY <2>1, <2>2
<1>3. \A q \in Names : Stays(q)  BY <1>1, NamesStay
<1>4. Stored' = Stored /\ Opened' = Opened
  BY <1>1, <1>2, <1>3, StoredStays, OpenedStays
<1>5. name \notin Names /\ (name \in LongPaths \/ Store!Full)
  BY FullIs DEF CreateRefused, CanAddEntry, Names
<1>6. ~Store!Exists(name)  BY <1>5 DEF Store!Exists, Stored
<1> QED  BY <1>1, <1>4, <1>5, <1>6 DEF Store!OpenNew, Store!Fail

\* tfs_open creates an empty file.
LEMMA CreateStep ==
    ASSUME RInv, RInv', NEW name \in Paths, NEW mode \in Modes, Create(name, mode)
    PROVE  \E val \in Handles \cup {-1} : Store!OpenNew(name, mode, val)
<1>1. PICK inum, slot :
          /\ inum = Min(Free(freeinode_ts)) /\ slot = Min(EmptySlots)
  OBVIOUS
<1>2. /\ valid_pathname(name) /\ tfs_lookup(name) = -1 /\ "CREAT" \in mode
      /\ Free(freeinode_ts) # {} /\ EmptySlots # {} /\ name \notin LongPaths
      /\ inode' = [inode EXCEPT ![inum] = NewFile]
      /\ dir' = [dir EXCEPT ![slot] = [d_name |-> name, d_inumber |-> inum]]
      /\ add_to_open_file_table(inum, 0)
      /\ UNCHANGED fs_data
  BY <1>1 DEF Create, CanAddEntry, add_dir_entry
<1>3. inum \in INums /\ ~Live(inum) /\ inum # -1
  <2>1. inum \in INums /\ freeinode_ts[inum] = "FREE"
    BY <1>1, <1>2, FreeEntry, CountAssumption DEF RInv, DInv, IInv, TypeOK, INums
  <2> QED  BY <2>1, CountAssumption DEF Live, INums
<1>4. slot \in Slots /\ dir[slot].d_inumber = -1
  <2>1. EmptySlots \in SUBSET Nat  BY CountAssumption DEF EmptySlots, Slots
  <2> QED  BY <1>1, <1>2, <2>1, MinIn DEF EmptySlots
<1> DEFINE entry == [d_name |-> name, d_inumber |-> inum]
<1>5. entry.d_name = name /\ entry.d_inumber = inum  OBVIOUS
<1> HIDE DEF entry
<1>6. \A s \in Slots : dir'[s] = IF s = slot THEN entry ELSE dir[s]
  BY <1>2, <1>4 DEF RInv, DInv, IInv, TypeOK, entry
<1>7. Entries' = Entries \cup {slot} /\ slot \notin Entries
  BY <1>3, <1>4, <1>5, <1>6 DEF Entries
<1>8. name \notin Names  BY <1>2 DEF Names
<1>9. \A q \in Names : Stays(q)
  <2> SUFFICES ASSUME NEW q \in Names PROVE Stays(q)  OBVIOUS
  <2>1. q \in Paths /\ tfs_lookup(q) # -1  BY DEF Names
  <2>2. \A s \in Entries : dir'[s] = dir[s]  BY <1>6, <1>7 DEF Entries
  <2>3. tfs_lookup(q)' = tfs_lookup(q)
    BY <2>1, <2>2, LookupKept DEF RInv, DInv
  <2> QED  BY <2>1, <2>3 DEF Stays, Names
<1>10. name \in Names' /\ tfs_lookup(name)' = inum
  <2>1. tfs_lookup(name)' = inum
    BY <1>2, <1>5, <1>6, <1>7, LookupIsNext
    DEF NamesFound, valid_pathname, RInv, DInv, Entries
  <2> QED  BY <1>3, <2>1 DEF Names
<1>11. Names' = Names \cup {name}
  <2>1. ASSUME NEW q \in Names', q # name PROVE q \in Names
    <3>1. q \in Paths  BY <2>1 DEF Names
    <3>2. \E s \in Entries' : dir'[s].d_name = q
      BY <2>1, <3>1, NameFactsNext DEF NamesThere
    <3>3. \E s \in Entries : dir[s].d_name = q
      BY <1>4, <1>5, <1>6, <1>7, <2>1, <3>2 DEF Entries
    <3> QED  BY <3>1, <3>3, NamesAre
  <2> QED  BY <1>9, <1>10, <2>1 DEF Stays
<1>12. ASSUME NEW q \in Names PROVE Contents(q)' = Contents(q)
  <2>1. tfs_lookup(q) \in INums /\ Live(tfs_lookup(q))  BY NameLeads
  <2>2. tfs_lookup(q) # inum  BY <1>3, <2>1
  <2>3. inode'[tfs_lookup(q)] = inode[tfs_lookup(q)]
    BY <1>2, <2>1, <2>2 DEF RInv, DInv, IInv, TypeOK
  <2> QED  BY <1>2, <1>9, <2>3, ContentsStay
<1>13. Contents(name)' = <<>>
  <2>1. inode'[inum] = NewFile  BY <1>2, <1>3 DEF RInv, DInv, IInv, TypeOK
  <2>2. 1 .. inode'[inum].i_size = {}  BY <2>1 DEF NewFile
  <2> QED  BY <1>10, <2>2 DEF Contents
<1>14. Stored' = Store!With(Stored, name, <<>>)
  BY <1>8, <1>11, <1>12, <1>13 DEF Stored, Store!With
<1>15. PICK val \in Handles \cup {-1} :
           Store!Return("open", val, <<>>) /\ Store!Grant(name, 0, val)
  BY <1>2, <1>9, <1>10, GrantStep
<1>16. ~Store!Exists(name)  BY <1>8 DEF Store!Exists, Stored
<1>17. ~("CREAT" \notin mode \/ name \in InvalidPaths \cup LongPaths \/ Store!Full)
  BY <1>2, FullIs DEF valid_pathname
<1> QED  BY <1>14, <1>15, <1>16, <1>17 DEF Store!OpenNew

\* tfs_close gives up one handle, or refuses one that is not open.
LEMMA CloseStep ==
    ASSUME RInv, RInv', NEW h \in CallHandles, tfs_close(h) PROVE Store!Close(h)
<1>1. /\ Store!Return("close", IF IsOpen(h) THEN 0 ELSE -1, <<>>)
      /\ free_open_file_entries' =
             IF IsOpen(h) THEN [free_open_file_entries EXCEPT ![h] = "FREE"]
             ELSE free_open_file_entries
      /\ UNCHANGED <<inode, freeinode_ts, fs_data, free_blocks, dir,
                     open_file_table, status>>
  BY DEF tfs_close, Return, Store!Return
<1>2. \A q \in Names : Stays(q)  BY <1>1, NamesStay
<1>3. Stored' = Stored  BY <1>1, StoredStays
<1>4. IsOpen(h) <=> Store!IsOpened(h)
  BY OpenedAt DEF Store!IsOpened, OpenHandles, IsOpen
<1>5. OpenHandles' = OpenHandles \ {h}
  <2>1. DOMAIN free_open_file_entries = Handles
    BY DEF RInv, DInv, IInv, TypeOK
  <2> QED  BY <1>1, <2>1 DEF OpenHandles, IsOpen
<1>6. ASSUME NEW g \in OpenHandles \ {h}
      PROVE  NameOf(open_file_table[g].of_inumber)' = NameOf(open_file_table[g].of_inumber)
  <2>1. g \in Handles /\ IsOpen(g)  BY DEF OpenHandles
  <2> QED  BY <1>1, <1>2, <2>1, HandleNameStays
<1>7. Opened' = [g \in OpenHandles \ {h} |-> Opened[g]]
  BY <1>1, <1>5, <1>6, OpenedAt DEF Opened
<1>8. Opened' = Store!Restrict(Opened, DOMAIN Opened \ {h})
  BY <1>7, OpenedAt DEF Store!Restrict
<1> QED  BY <1>1, <1>3, <1>4, <1>8 DEF Store!Close

\* tfs_unlink takes one file away, or finds none.
LEMMA UnlinkStep ==
    ASSUME RInv, RInv', NEW name \in Paths, ~InUse(name), tfs_unlink(name)
    PROVE  Store!Unlink(name)
<1>1. CASE UnlinkRefused(name)
  <2>1. UNCHANGED tables /\ Store!Return("unlink", -1, <<>>)
    BY <1>1 DEF UnlinkRefused, Return, Store!Return
  <2>2. ~Store!Exists(name)
    BY <1>1 DEF UnlinkRefused, Store!Exists, Stored, Names
  <2> QED  BY <2>1, <2>2, QuietStored DEF Store!Unlink, Store!Fail
<1>2. CASE Unlink(name)
  <2>1. name \in Names  BY <1>2 DEF Unlink, Names
  <2>2. Live(tfs_lookup(name))  BY <2>1, NameLeads
  <2>3. /\ Store!Return("unlink", 0, <<>>)
        /\ UNCHANGED <<inode, fs_data, open_file_table, free_open_file_entries>>
    BY <1>2, <2>2, FreesABlock DEF Unlink, Live, Return, Store!Return, RInv, DInv
  <2>4. /\ \A s \in Entries : dir[s].d_name # name => dir'[s] = dir[s]
        /\ \A s \in Entries' : dir'[s].d_name # name
    BY <1>2, UnlinkOutcome DEF Unlink, tfs_unlink, RInv, DInv
  <2>5. \A q \in Names \ {name} : Stays(q)
    <3> SUFFICES ASSUME NEW q \in Names, q # name PROVE Stays(q)  OBVIOUS
    <3>1. q \in Paths /\ tfs_lookup(q) # -1  BY DEF Names
    <3>2. tfs_lookup(q)' = tfs_lookup(q)
      BY <2>4, <3>1, LookupKept DEF RInv, DInv
    <3> QED  BY <3>1, <3>2 DEF Stays, Names
  <2>6. Entries' \subseteq Entries /\ \A s \in Entries' : dir'[s] = dir[s]
    <3>1. freeinode_ts[tfs_lookup(name)] # "FREE"  BY <2>2 DEF Live
    <3> DEFINE gone == [d_name |-> NoName, d_inumber |-> -1]
    <3>2. PICK e : dir' = [dir EXCEPT ![e] = gone]
      BY <1>2, <3>1, FreesABlock DEF Unlink, clear_dir_entry, RInv, DInv
    <3>3. gone.d_inumber = -1  OBVIOUS
    <3> HIDE DEF gone
    <3>4. \A s \in Slots : dir'[s] = dir[s] \/ dir'[s] = gone
      BY <3>2 DEF RInv, DInv, IInv, TypeOK
    <3> QED  BY <3>3, <3>4 DEF Entries
  <2>7. Names' = Names \ {name}
    <3>1. ASSUME NEW q \in Names' PROVE q \in Names /\ q # name
      <4>1. q \in Paths  BY DEF Names
      <4>2. \E s \in Entries' : dir'[s].d_name = q
        BY <3>1, <4>1, NameFactsNext DEF NamesThere
      <4>3. \E s \in Entries : dir[s].d_name = q  BY <2>6, <4>2
      <4> QED  BY <2>4, <4>1, <4>2, <4>3, NamesAre
    <3> QED  BY <2>5, <3>1 DEF Stays
  <2>8. \A q \in Names \ {name} : Contents(q)' = Contents(q)
    BY <2>3, <2>5, ContentsStay
  <2>9. Stored' = Store!Restrict(Stored, DOMAIN Stored \ {name})
    BY <2>7, <2>8 DEF Stored, Store!Restrict
  <2>10. \A q \in Names : InUse(q) => Stays(q)  BY <2>5
  <2>11. Opened' = Opened  BY <2>3, <2>10, OpenedStays
  <2>12. Store!Exists(name) /\ ~Store!InUse(name)
    BY <2>1, InUseIs DEF Store!Exists, Stored
  <2> QED  BY <2>3, <2>9, <2>11, <2>12 DEF Store!Unlink
<1> QED  BY <1>1, <1>2 DEF tfs_unlink

-----------------------------------------------------------------------------
(* Bytes *)

\* A part of a sequence, element by element.
LEMMA PartIs ==
    ASSUME NEW S, NEW s, NEW pos \in Nat, NEW n \in Nat,
           \A k \in 1 .. n : s[pos + k] \in S
    PROVE  SubSeq(s, pos + 1, pos + n) = [k \in 1 .. n |-> s[pos + k]]
<1> DEFINE t == SubSeq(s, pos + 1, pos + n)
<1>1. \A i \in pos + 1 .. pos + n : s[i] \in S
  <2> SUFFICES ASSUME NEW i \in pos + 1 .. pos + n PROVE s[i] \in S  OBVIOUS
  <2>1. i - pos \in 1 .. n /\ i = pos + (i - pos)  OBVIOUS
  <2> QED  BY <2>1
<1>2. /\ t \in Seq(S)
      /\ Len(t) = IF pos + 1 <= pos + n THEN (pos + n) - (pos + 1) + 1 ELSE 0
      /\ \A i \in 1 .. (pos + n) - (pos + 1) + 1 : t[i] = s[(pos + 1) + i - 1]
  <2> HIDE DEF t
  <2>1. pos + 1 \in Int /\ pos + n \in Int  OBVIOUS
  <2> QED  BY <1>1, <2>1, SubSeqProperties DEF t
<1> HIDE DEF t
<1>3. Len(t) = n /\ (pos + n) - (pos + 1) + 1 = n  BY <1>2
<1>4. \A i \in 1 .. n : t[i] = s[pos + i]
  <2> SUFFICES ASSUME NEW i \in 1 .. n PROVE t[i] = s[pos + i]  OBVIOUS
  <2>1. (pos + 1) + i - 1 = pos + i  OBVIOUS
  <2> QED  BY <1>2, <1>3, <2>1
<1>5. t = [k \in 1 .. n |-> t[k]]  BY <1>2, <1>3
<1> QED  BY <1>4, <1>5 DEF t

\* The bytes of a block are in fs_data.
LEMMA BlockInside ==
    ASSUME NEW b \in BlockNumbers, NEW k \in 0 .. BlockSize - 1
    PROVE  b * BlockSize + k \in Addresses
<1> DEFINE rest == MaxBlockCount - 1 - b
<1>1. b \in Nat /\ rest \in Nat /\ MaxBlockCount = b + 1 + rest
  BY CountAssumption DEF BlockNumbers
<1> HIDE DEF rest
<1>2. MaxBlockCount * BlockSize = b * BlockSize + BlockSize + rest * BlockSize
  BY <1>1, CountAssumption
<1>3. rest * BlockSize \in Nat /\ b * BlockSize \in Nat
  BY <1>1, CountAssumption
<1> QED  BY <1>2, <1>3, CountAssumption DEF Addresses

\* What a name has, byte by byte.
LEMMA ByteAt ==
    ASSUME RInv, NEW p \in Names, NEW k \in 1 .. inode[tfs_lookup(p)].i_size
    PROVE  LET a == inode[tfs_lookup(p)].i_data_block * BlockSize + k - 1
           IN  /\ a \in Addresses
               /\ Contents(p)[k] = fs_data[a]
               /\ Contents(p)[k] \in Bytes \cup {Junk, DirData}
<1> DEFINE i == tfs_lookup(p)
           b == inode[i].i_data_block
           n == inode[i].i_size
           a == b * BlockSize + k - 1
<1>1. n \in Nat /\ n <= BlockSize /\ (n > 0 => b \in BlockNumbers /\ b \in Nat)
  BY NameLeads, Sized
<1>2. Contents(p)[k] = fs_data[a]  BY DEF Contents
<1>3. a \in Addresses
  <2> HIDE DEF b, n
  <2>1. b \in BlockNumbers /\ b \in Nat /\ k - 1 \in 0 .. BlockSize - 1
    BY <1>1, CountAssumption DEF n
  <2>2. b * BlockSize + (k - 1) \in Addresses  BY <2>1, BlockInside
  <2>3. b * BlockSize \in Nat  BY <2>1, CountAssumption
  <2> QED  BY <2>1, <2>2, <2>3, CountAssumption DEF n
<1>4. fs_data[a] \in Bytes \cup {Junk, DirData}
  BY <1>3 DEF RInv, DInv, IInv, TypeOK
<1> QED  BY <1>2, <1>3, <1>4

\* An open handle of FlatStore: its name, its file and its position.
LEMMA HandleIs ==
    ASSUME RInv, NEW h \in Handles, IsOpen(h)
    PROVE  \E p \in Names :
               /\ p = NameOf(open_file_table[h].of_inumber)
               /\ tfs_lookup(p) = open_file_table[h].of_inumber
               /\ Store!IsOpened(h) /\ h \in OpenHandles
               /\ Opened[h] = [name |-> p, pos |-> open_file_table[h].of_offset]
               /\ Opened[h].name = p
               /\ Opened[h].pos = open_file_table[h].of_offset
               /\ Stored[p] = Contents(p)
<1>1. h \in OpenHandles  BY DEF OpenHandles
<1>2. PICK p \in Names : /\ p = NameOf(open_file_table[h].of_inumber)
                         /\ tfs_lookup(p) = open_file_table[h].of_inumber
  BY HandleOn, FileNamed
<1>3. Opened[h] = [name |-> p, pos |-> open_file_table[h].of_offset]
  BY <1>1, <1>2, OpenedAt
<1> QED  BY <1>1, <1>2, <1>3, OpenedAt, StoredAt DEF Store!IsOpened

\* A handle that is not open is not open there either.
LEMMA NotOpened ==
    ASSUME NEW h \in CallHandles, ~IsOpen(h) PROVE ~Store!IsOpened(h)
BY OpenedAt DEF Store!IsOpened, OpenHandles

\* Moving one handle: how Opened changes when one position does.
LEMMA OneMoves ==
    ASSUME RInv, RInv', NEW h \in Handles, IsOpen(h), NEW pos,
           UNCHANGED <<dir, free_open_file_entries>>,
           \A g \in Handles :
               /\ open_file_table'[g].of_inumber = open_file_table[g].of_inumber
               /\ open_file_table'[g].of_offset =
                      IF g = h THEN pos ELSE open_file_table[g].of_offset
    PROVE  Opened' = [Opened EXCEPT ![h].pos = pos]
<1>1. \A q \in Names : Stays(q)  BY NamesStay
<1>2. Opened' = [g \in OpenHandles |->
                     [name |-> Opened[g].name, pos |-> open_file_table'[g].of_offset]]
  BY <1>1, OpenedMoves
<1>3. \A g \in OpenHandles :
          /\ g \in Handles
          /\ Opened[g] = [name |-> Opened[g].name,
                          pos |-> open_file_table[g].of_offset]
  BY OpenedAt DEF OpenHandles
<1>4. h \in OpenHandles /\ DOMAIN Opened = OpenHandles
  BY OpenedAt DEF OpenHandles
<1>5. [Opened[h] EXCEPT !.pos = pos] = [name |-> Opened[h].name, pos |-> pos]
  BY <1>3, <1>4
<1>6. [Opened EXCEPT ![h].pos = pos]
          = [g \in OpenHandles |-> IF g = h THEN [Opened[h] EXCEPT !.pos = pos]
                                   ELSE Opened[g]]
  BY <1>4
<1>7. \A g \in OpenHandles :
          [name |-> Opened[g].name, pos |-> open_file_table'[g].of_offset]
              = IF g = h THEN [Opened[h] EXCEPT !.pos = pos] ELSE Opened[g]
  BY <1>3, <1>4, <1>5
<1> QED  BY <1>2, <1>6, <1>7

\* tfs_read returns the bytes of the file from the handle's position on.
LEMMA ReadStep ==
    ASSUME RInv, RInv', NEW h \in CallHandles, NEW len \in 0 .. MaxTransfer,
           tfs_read(h, len)
    PROVE  Store!Read(h, len)
<1>1. CASE ~IsOpen(h)
  <2>1. UNCHANGED tables /\ Store!Return("read", -1, <<>>)
    BY <1>1 DEF tfs_read, ReadNothing, ReadBytes, Return, Store!Return
  <2> QED  BY <1>1, <2>1, NotOpened, QuietStored DEF Store!Read, Store!Fail
<1>2. CASE IsOpen(h)
  <2>1. h \in Handles  BY <1>2 DEF IsOpen
  <2>2. PICK p \in Names :
            /\ tfs_lookup(p) = open_file_table[h].of_inumber
            /\ Store!IsOpened(h) /\ h \in OpenHandles
            /\ Opened[h].name = p
            /\ Opened[h].pos = open_file_table[h].of_offset
            /\ Opened[h] = [name |-> p, pos |-> open_file_table[h].of_offset]
            /\ Stored[p] = Contents(p)
    BY <1>2, <2>1, HandleIs
  <2> DEFINE i == open_file_table[h].of_inumber
             pos == open_file_table[h].of_offset
             size == inode[i].i_size
             b == inode[i].i_data_block
             n == ReadCount(h, len)
             text == Contents(p)
  <2>3. /\ i \in INums /\ pos \in Nat /\ pos <= size /\ size \in Nat
        /\ size <= BlockSize /\ Inside(h)
        /\ size > 0 => b \in BlockNumbers /\ b \in Nat
    BY <1>2, <2>1, HandleOn, Sized
  <2>4. Len(text) = size  BY <2>2, StoredAt
  <2>5. n \in Nat /\ n = IF size - pos > len THEN len ELSE size - pos
    <3>1. size - pos < SizeModulus /\ size - pos \in Nat
      <4> HIDE DEF size, pos
      <4> QED  BY <2>3, BlockFits, CountAssumption
    <3>2. (size - pos) % SizeModulus = size - pos
      <4> HIDE DEF size, pos
      <4> QED  BY <3>1, CountAssumption
    <3>3. n = IF size - pos > len THEN len ELSE size - pos
      BY <3>2 DEF ReadCount
    <3> HIDE DEF size, pos, n
    <3> QED  BY <2>3, <3>1, <3>3, CountAssumption
  <2>6. pos + n <= size
    <3> HIDE DEF size, pos, n
    <3> QED  BY <2>3, <2>5, CountAssumption
  <2>7. SubSeq(text, pos + 1, pos + n) = [k \in 1 .. n |-> text[pos + k]]
    <3>1. \A k \in 1 .. n : text[pos + k] \in Bytes \cup {Junk, DirData}
      <4> SUFFICES ASSUME NEW k \in 1 .. n
                   PROVE  text[pos + k] \in Bytes \cup {Junk, DirData}
        OBVIOUS
      <4>1. pos + k \in 1 .. size
        <5> HIDE DEF size, pos, n
        <5> QED  BY <2>3, <2>5, <2>6
      <4> QED  BY <2>2, <4>1, ByteAt
    <3> DEFINE Values == Bytes \cup {Junk, DirData}
    <3>2. pos \in Nat /\ n \in Nat /\ \A k \in 1 .. n : text[pos + k] \in Values
      BY <2>3, <2>5, <3>1
    <3> HIDE DEF text, n, pos, Values
    <3> QED  BY <3>2, PartIs
  <2>8. CASE ReadNothing(h, len)
    <3>1. UNCHANGED tables /\ n = 0 /\ Store!Return("read", 0, <<>>)
      BY <1>2, <2>8 DEF ReadNothing, Return, Store!Return
    <3>2. Stored' = Stored /\ Opened' = Opened  BY <3>1, QuietStored
    <3>3. SubSeq(text, pos + 1, pos + n) = <<>>
      <4> HIDE DEF text, n, pos
      <4> QED  BY <2>7, <3>1
    <3>4. Opened = [Opened EXCEPT ![h].pos = pos + n]
      <4>1. pos + n = pos
        <5> HIDE DEF n, pos
        <5> QED  BY <2>3, <3>1
      <4>2. [Opened[h] EXCEPT !.pos = pos] = Opened[h]  BY <2>2
      <4>3. Opened = [g \in OpenHandles |-> Opened[g]]  BY OpenedAt DEF Opened
      <4> HIDE DEF n, pos
      <4> QED  BY <4>1, <4>2, <4>3
    <3> HIDE DEF n, pos
    <3>5. Opened' = [Opened EXCEPT ![h].pos = pos + n]  BY <3>2, <3>4
    <3>6. Store!Return("read", n, SubSeq(text, pos + 1, pos + n))
      BY <3>1, <3>3
    <3> QED  BY <2>2, <2>4, <2>5, <3>2, <3>5, <3>6 DEF Store!Read, pos
  <2>9. CASE ReadBytes(h, len)
    <3> DEFINE start == BlockAddress(b, pos)
               bytes == [k \in 1 .. n |->
                            IF start + k - 1 \in Addresses THEN fs_data[start + k - 1]
                            ELSE Junk]
    <3>1. status' = "running"  BY DEF RInv, DInv, NeverAborts
    <3>2. /\ n > 0
          /\ Store!Return("read", n, bytes)
          /\ open_file_table' = [open_file_table EXCEPT ![h].of_offset = @ + n]
          /\ UNCHANGED <<inode, freeinode_ts, fs_data, free_blocks, dir,
                         free_open_file_entries, status>>
      BY <2>9, <3>1 DEF ReadBytes, Abort, Return, Store!Return
    <3>3. bytes = [k \in 1 .. n |-> text[pos + k]]
      <4> SUFFICES ASSUME NEW k \in 1 .. n
                   PROVE  start + k - 1 \in Addresses
                          /\ fs_data[start + k - 1] = text[pos + k]
        OBVIOUS
      <4>1. pos + k \in 1 .. size
        <5> HIDE DEF size, pos, n
        <5> QED  BY <2>3, <2>5, <2>6
      <4>2. b * BlockSize + (pos + k) - 1 = start + k - 1
        <5>1. b \in Nat
          <6> HIDE DEF size, pos, b, n
          <6> QED  BY <2>3, <4>1
        <5>2. b * BlockSize \in Nat /\ start = b * BlockSize + pos
          <6> HIDE DEF b, pos
          <6> QED  BY <5>1, CountAssumption DEF BlockAddress
        <5> HIDE DEF b, start, pos, n
        <5> QED  BY <2>3, <2>5, <5>2
      <4> QED  BY <2>2, <4>1, <4>2, ByteAt
    <3>4. \A g \in Handles :
              /\ open_file_table'[g].of_inumber = open_file_table[g].of_inumber
              /\ open_file_table'[g].of_offset =
                     IF g = h THEN pos + n ELSE open_file_table[g].of_offset
      <4> HIDE DEF n
      <4> QED  BY <2>1, <3>2 DEF RInv, DInv, IInv, TypeOK
    <3>5. Opened' = [Opened EXCEPT ![h].pos = pos + n]
      <4> HIDE DEF n
      <4> QED  BY <1>2, <2>1, <3>2, <3>4, OneMoves
    <3>6. Stored' = Stored  BY <3>2, StoredStays
    <3> HIDE DEF bytes
    <3>7. Store!Return("read", n, SubSeq(text, pos + 1, pos + n))
      BY <2>7, <3>2, <3>3
    <3> HIDE DEF n
    <3> QED  BY <2>2, <2>4, <2>5, <3>5, <3>6, <3>7 DEF Store!Read
  <2> QED  BY <2>8, <2>9 DEF tfs_read
<1> QED  BY <1>1, <1>2

\* The bytes of the files after a write of n bytes: the file of the handle gets
\* them at the handle's position, and keeps the others; every other file keeps
\* its own, in blocks of its own.
LEMMA BytesWritten ==
    ASSUME RInv, RInv', NEW h \in Handles, IsOpen(h), NEW data \in Buffers,
           NEW b \in BlockNumbers, NEW i \in Files, NEW n \in 1 .. Len(data),
           WriteEffect(h, data, b, i, n), NEW p \in Names, tfs_lookup(p) = i
    PROVE  LET pos == open_file_table[h].of_offset
           IN  Stored' = [Stored EXCEPT ![p] =
                   [k \in 1 .. SizeAfterWrite(h, i, n) |->
                       IF k \in pos + 1 .. pos + n THEN data[k - pos]
                       ELSE Contents(p)[k]]]
<1> DEFINE pos  == open_file_table[h].of_offset
           size == inode[i].i_size
           end  == SizeAfterWrite(h, i, n)
           text == [k \in 1 .. end |-> IF k \in pos + 1 .. pos + n
                                       THEN data[k - pos] ELSE Contents(p)[k]]
<1>1. WriteTables(h, b, i, n)
  BY WriteMoves DEF RInv, DInv
<1>2. /\ i = open_file_table[h].of_inumber /\ i \in INums /\ Live(i)
      /\ pos \in Nat /\ size \in Nat /\ pos <= size /\ size <= BlockSize
      /\ n \in Nat /\ n > 0 /\ pos + n <= BlockSize
      /\ end = IF pos + n > size THEN pos + n ELSE size
      /\ b \in Nat
  <2>1. /\ i = open_file_table[h].of_inumber /\ i \in INums /\ Live(i)
        /\ pos \in Nat /\ pos <= size /\ pos + n <= BlockSize
    BY HandleOn DEF WriteEffect
  <2>2. size \in Nat /\ size <= BlockSize  BY <2>1, Sized
  <2> QED  BY <1>1, <2>1, <2>2, CountAssumption
           DEF WriteTables, SizeAfterWrite, WriteEnd, BlockNumbers
<1>3. \A a \in Addresses :
          fs_data'[a] = IF a - (b * BlockSize + pos) \in 0 .. n - 1
                        THEN data[a - (b * BlockSize + pos) + 1] ELSE fs_data[a]
  BY DEF WriteEffect, BlockAddress
<1>4. Names' = Names /\ \A q \in Names : Stays(q)
  BY <1>1, NamesStay DEF WriteTables
<1>5. b * BlockSize \in Nat  BY <1>2, CountAssumption
<1>6. ASSUME NEW q \in Names, q # p PROVE Contents(q)' = Contents(q)
  <2> DEFINE j == tfs_lookup(q)
             c == inode[j].i_data_block
  <2>1. j \in INums /\ j # i /\ Live(j)  BY <1>6, NameLeads
  <2>2. /\ inode'[j].i_size = inode[j].i_size
        /\ inode'[j].i_data_block = c
    BY <1>1, <2>1 DEF WriteTables
  <2>3. inode[j].i_size \in Nat /\ inode[j].i_size <= BlockSize
        /\ (inode[j].i_size > 0 => c \in BlockNumbers /\ c \in Nat /\ c # b)
    <3>1. inode[j].i_size \in Nat /\ inode[j].i_size <= BlockSize
          /\ (inode[j].i_size > 0 => c \in BlockNumbers /\ c \in Nat)
      BY <2>1, Sized
    <3>2. ASSUME inode[j].i_size > 0 PROVE c # b
      <4>1. free_blocks[c] = "TAKEN"
        BY <2>1, <3>2 DEF RInv, DInv, IInv, BlocksNeverShared
      <4>2. size > 0 => inode[i].i_data_block # c
        BY <1>2, <2>1, <3>2 DEF RInv, DInv, IInv, BlocksNeverShared
      <4> QED  BY <1>2, <4>1, <4>2 DEF WriteEffect
    <3> QED  BY <3>1, <3>2
  <2>4. ASSUME NEW k \in 1 .. inode[j].i_size
        PROVE  fs_data'[c * BlockSize + k - 1] = fs_data[c * BlockSize + k - 1]
    <3> DEFINE a == c * BlockSize + k - 1
               m == a - (b * BlockSize + pos)
    <3>1. inode[j].i_size > 0 /\ k - 1 \in 0 .. BlockSize - 1 /\ c \in Nat /\ c # b
      <4>1. inode[j].i_size > 0  BY <2>3, <2>4
      <4> HIDE DEF j
      <4> QED  BY <2>3, <4>1, CountAssumption
    <3>2. a \in Addresses  BY ByteAt
    <3>3. m \notin 0 .. n - 1
      <4> SUFFICES ASSUME m \in 0 .. n - 1 PROVE FALSE  OBVIOUS
      <4>1. c * BlockSize \in Nat
        <5> HIDE DEF c
        <5> QED  BY <3>1, CountAssumption
      <4>2. pos + m \in 0 .. BlockSize - 1
        <5> HIDE DEF m, pos
        <5> QED  BY <1>2, CountAssumption
      <4>3. c * BlockSize + (k - 1) = b * BlockSize + (pos + m)
        <5> HIDE DEF c, pos, j
        <5> QED  BY <1>2, <1>5, <2>3, <4>1
      <4> HIDE DEF m, c, pos, j
      <4> QED  BY <1>2, <3>1, <4>2, <4>3, BlocksDisjoint, CountAssumption
    <3> QED  BY <1>3, <3>2, <3>3
  <2>5. Stays(q)  BY <1>4
  <2> QED  BY <2>2, <2>4, <2>5, ContentsStay
<1>7. Contents(p)' = text
  <2>1. tfs_lookup(p)' = i /\ p \in Names'  BY <1>4 DEF Stays
  <2>2. inode'[i].i_size = end /\ inode'[i].i_data_block = b
    BY <1>1, <1>2 DEF WriteTables
  <2>3. Contents(p)' = [k \in 1 .. end |-> fs_data'[b * BlockSize + k - 1]]
    BY <2>1, <2>2 DEF Contents
  <2>4. ASSUME NEW k \in 1 .. end
        PROVE  fs_data'[b * BlockSize + k - 1] = text[k]
    <3> DEFINE a == b * BlockSize + k - 1
    <3> HIDE DEF pos, size, end
    <3>1. k \in Nat /\ k - 1 \in 0 .. BlockSize - 1
      BY <1>2, CountAssumption
    <3>2. a \in Addresses
      <4>1. b * BlockSize + (k - 1) = a  BY <1>5, <3>1
      <4> QED  BY <3>1, <4>1, BlockInside
    <3>3. a - (b * BlockSize + pos) = k - 1 - pos  BY <1>2, <1>5, <3>1
    <3>4. CASE k \in pos + 1 .. pos + n
      <4>1. k - 1 - pos \in 0 .. n - 1 /\ k - 1 - pos + 1 = k - pos
        BY <1>2, <3>1, <3>4
      <4>2. fs_data'[a] = data[k - pos]  BY <1>3, <3>2, <3>3, <4>1
      <4>3. text[k] = data[k - pos]  BY <2>4, <3>4
      <4> QED  BY <4>2, <4>3
    <3>5. CASE k \notin pos + 1 .. pos + n
      <4>1. k - 1 - pos \notin 0 .. n - 1 /\ k <= size /\ size > 0 /\ k \in 1 .. size
        BY <1>2, <2>4, <3>1, <3>5
      <4>2. fs_data'[a] = fs_data[a]  BY <1>3, <3>2, <3>3, <4>1
      <4>3. inode[i].i_data_block = b  BY <4>1 DEF WriteEffect, size
      <4>4. Contents(p)[k] = fs_data[a]  BY <4>1, <4>3, ByteAt DEF size
      <4>5. text[k] = Contents(p)[k]  BY <2>4, <3>5
      <4> QED  BY <4>2, <4>4, <4>5
    <3> QED  BY <3>4, <3>5
  <2> HIDE DEF end
  <2> QED  BY <2>3, <2>4
<1>8. Stored' = [q \in Names |-> IF q = p THEN text ELSE Stored[q]]
  <2> HIDE DEF text
  <2> QED  BY <1>4, <1>6, <1>7, StoredAt DEF Stored
<1> HIDE DEF text
<1>9. DOMAIN Stored = Names  BY StoredAt
<1>10. Stored = [q \in Names |-> Stored[q]]  BY StoredAt DEF Stored
<1>11. Stored' = [Stored EXCEPT ![p] = text]  BY <1>8, <1>9, <1>10
<1> QED  BY <1>11 DEF text

\* tfs_write writes what still fits, refuses when no contents are left for an
\* empty file, and never aborts.
LEMMA WriteStep ==
    ASSUME RInv, RInv', NEW h \in CallHandles, NEW data \in Buffers,
           tfs_write(h, data)
    PROVE  Store!Write(h, data)
<1>1. CASE ~IsOpen(h)
  <2>1. UNCHANGED tables /\ Store!Return("write", -1, <<>>)
    BY <1>1 DEF tfs_write, WriteNothing, WriteBytes, WriteWrapped, Return,
                Store!Return
  <2> QED  BY <1>1, <2>1, NotOpened, QuietStored DEF Store!Write, Store!Fail
<1>2. CASE IsOpen(h)
  <2>1. h \in Handles  BY <1>2 DEF IsOpen
  <2>2. PICK p \in Names :
            /\ tfs_lookup(p) = open_file_table[h].of_inumber
            /\ Store!IsOpened(h) /\ h \in OpenHandles
            /\ Opened[h].name = p
            /\ Opened[h].pos = open_file_table[h].of_offset
            /\ Opened[h] = [name |-> p, pos |-> open_file_table[h].of_offset]
            /\ Stored[p] = Contents(p)
    BY <1>2, <2>1, HandleIs
  <2> DEFINE i == open_file_table[h].of_inumber
             pos == open_file_table[h].of_offset
             size == inode[i].i_size
             n == WriteCount(h, data)
             old == Contents(p)
  <2>3. /\ i \in Files /\ i \in INums /\ pos \in Nat /\ pos <= size /\ size \in Nat
        /\ size <= BlockSize /\ Inside(h) /\ Len(data) \in Nat
    BY <1>2, <2>1, HandleOn, Sized, CountAssumption DEF Buffers
  <2>4. /\ Len(old) = size /\ (old = <<>> <=> size = 0)
        /\ Len(Stored[p]) = size /\ (Stored[p] = <<>> <=> size = 0)
    BY <2>2, StoredAt
  <2>5. /\ n \in Nat /\ n <= Len(data)
        /\ n = IF pos + Len(data) > BlockSize THEN BlockSize - pos ELSE Len(data)
    <3>1. n \in Nat /\ n <= Len(data)  BY <2>3, WriteNeverWraps DEF RInv, DInv
    <3>2. BlockSize - pos \in Nat /\ BlockSize - pos < SizeModulus
      <4> HIDE DEF size, pos
      <4> QED  BY <2>3, BlockFits, CountAssumption
    <3>3. (BlockSize - pos) % SizeModulus = BlockSize - pos
      <4> HIDE DEF pos
      <4> QED  BY <3>2, CountAssumption
    <3>4. n = IF Len(data) + pos > BlockSize THEN BlockSize - pos ELSE Len(data)
      BY <3>3 DEF WriteCount
    <3> HIDE DEF pos, n
    <3> QED  BY <2>3, <3>1, <3>4, CountAssumption
  <2>6. NeedsBlock(h) <=> size = 0  BY DEF NeedsBlock
  <2> DEFINE end == IF pos + n > size THEN pos + n ELSE size
             text == [k \in 1 .. end |-> IF k \in pos + 1 .. pos + n
                                         THEN data[k - pos] ELSE Contents(p)[k]]
             refused == n > 0 /\ size = 0 /\ Free(free_blocks) = {}
  <2>7. ASSUME ~refused, Store!Return("write", n, <<>>),
               Stored' = [Stored EXCEPT ![p] = text],
               Opened' = [Opened EXCEPT ![h].pos = pos + n]
        PROVE  Store!Write(h, data)
    <3>1. ~(n > 0 /\ Stored[p] = <<>> /\ Store!OutOfContents)
      <4> HIDE DEF n, size
      <4> QED  BY <2>4, <2>7, OutOfContentsIs DEF refused
    <3>2. Stored' = [Stored EXCEPT ![p] =
              [k \in 1 .. end |-> IF k \in pos + 1 .. pos + n
                                  THEN data[k - pos] ELSE Stored[p][k]]]
      <4> HIDE DEF n, size, end, pos
      <4> QED  BY <2>2, <2>7
    <3>3. end = IF pos + n > Len(Stored[p]) THEN pos + n ELSE Len(Stored[p])
      <4> HIDE DEF n, size, pos
      <4> QED  BY <2>4
    <3>4. n = IF Opened[h].pos + Len(data) > BlockSize THEN BlockSize - Opened[h].pos
              ELSE Len(data)
      <4> HIDE DEF n
      <4> QED  BY <2>2, <2>5
    <3>5. pos = Opened[h].pos /\ p = Opened[h].name  BY <2>2
    <3> HIDE DEF n, end, pos, size, refused
    <3> QED  BY <2>2, <2>7, <3>1, <3>2, <3>3, <3>4, <3>5 DEF Store!Write
  <2>8. CASE n = 0 /\ UNCHANGED tables /\ Return("write", 0, <<>>)
    <3>1. Stored' = Stored /\ Opened' = Opened  BY <2>8, QuietStored
    <3>2. text = old
      <4>1. end = size /\ pos + 1 .. pos + n = {}
        <5> HIDE DEF size, pos, n
        <5> QED  BY <2>3, <2>8
      <4>2. old = [k \in 1 .. size |-> old[k]]  BY <2>2 DEF Contents
      <4> HIDE DEF end, pos, n, size, old
      <4>3. text = [k \in 1 .. end |-> Contents(p)[k]]  BY <4>1
      <4> QED  BY <4>1, <4>2, <4>3 DEF old
    <3>3. Stored' = [Stored EXCEPT ![p] = text]
      <4> HIDE DEF text
      <4>1. Stored = [q \in Names |-> Stored[q]]  BY StoredAt DEF Stored
      <4> QED  BY <2>2, <3>1, <3>2, <4>1
    <3>4. Opened' = [Opened EXCEPT ![h].pos = pos + n]
      <4>1. pos + n = pos
        <5> HIDE DEF n, pos
        <5> QED  BY <2>3, <2>8
      <4>2. [Opened[h] EXCEPT !.pos = pos] = Opened[h]  BY <2>2
      <4>3. Opened = [g \in OpenHandles |-> Opened[g]]  BY OpenedAt DEF Opened
      <4> HIDE DEF n, pos
      <4> QED  BY <3>1, <4>1, <4>2, <4>3
    <3>5. Store!Return("write", n, <<>>) /\ ~refused
      <4> HIDE DEF n
      <4> QED  BY <2>8 DEF Return, Store!Return
    <3> HIDE DEF text, n, pos
    <3> QED  BY <2>7, <3>3, <3>4, <3>5
  <2>9. CASE refused /\ UNCHANGED tables /\ Return("write", -1, <<>>)
    <3>1. n > 0 /\ Stored[p] = <<>> /\ Store!OutOfContents
      <4> HIDE DEF n, size
      <4> QED  BY <2>4, <2>9, OutOfContentsIs DEF refused
    <3>2. Store!Fail("write")
      BY <2>9, QuietStored DEF Store!Fail, Return, Store!Return
    <3>3. n = IF Opened[h].pos + Len(data) > BlockSize THEN BlockSize - Opened[h].pos
              ELSE Len(data)
      <4> HIDE DEF n
      <4> QED  BY <2>2, <2>5
    <3> HIDE DEF n, refused
    <3> QED  BY <2>2, <3>1, <3>2, <3>3 DEF Store!Write
  <2>10. CASE WriteBytes(h, data)
    <3>1. NeedsBlock(h) => Free(free_blocks) # {}  BY <2>10 DEF WriteBytes
    <3>2. n \in 1 .. Len(data)  BY <2>10 DEF WriteBytes
    <3>3. PICK b \in BlockNumbers, f \in Files, m \in 1 .. Len(data) :
              WriteEffect(h, data, b, f, m)
      BY <2>10, WriteBytesEffect DEF RInv, DInv
    <3>4. f = i  BY <3>3 DEF WriteEffect
    <3>5. m = n /\ Store!Return("write", n, <<>>)
      <4>1. last'.val = m /\ Store!Return("write", m, <<>>)
        BY <3>3 DEF WriteEffect, Store!Return
      <4>2. status' = "running"  BY DEF RInv, DInv, NeverAborts
      <4>3. last'.val = n
        BY <2>10, <4>2 DEF WriteBytes, Return, Abort
      <4> QED  BY <4>1, <4>3
    <3> HIDE DEF n
    <3>6. WriteTables(h, b, i, n)
      BY <3>2, <3>3, <3>4, <3>5, WriteMoves DEF RInv, DInv
    <3>7. Stored' = [Stored EXCEPT ![p] = text]
      <4>1. SizeAfterWrite(h, i, n) = end  BY DEF SizeAfterWrite, WriteEnd
      <4>2. WriteEffect(h, data, b, i, n)  BY <3>3, <3>4, <3>5
      <4>3. Stored' = [Stored EXCEPT ![p] =
                [k \in 1 .. SizeAfterWrite(h, i, n) |->
                    IF k \in pos + 1 .. pos + n THEN data[k - pos]
                    ELSE Contents(p)[k]]]
        BY <1>2, <2>1, <2>2, <2>3, <3>2, <4>2, BytesWritten
      <4> HIDE DEF end, pos
      <4> QED  BY <4>1, <4>3
    <3>8. Opened' = [Opened EXCEPT ![h].pos = pos + n]
      <4>1. /\ UNCHANGED <<dir, free_open_file_entries>>
            /\ \A g \in Handles :
                   /\ open_file_table'[g].of_inumber = open_file_table[g].of_inumber
                   /\ open_file_table'[g].of_offset =
                          IF g = h THEN pos + n ELSE open_file_table[g].of_offset
        BY <3>6 DEF WriteTables, WriteEnd
      <4> DEFINE next == pos + n
      <4> HIDE DEF next
      <4>2. \A g \in Handles :
                /\ open_file_table'[g].of_inumber = open_file_table[g].of_inumber
                /\ open_file_table'[g].of_offset =
                       IF g = h THEN next ELSE open_file_table[g].of_offset
        BY <4>1 DEF next
      <4>3. Opened' = [Opened EXCEPT ![h].pos = next]
        BY <1>2, <2>1, <4>1, <4>2, OneMoves
      <4> QED  BY <4>3 DEF next
    <3>9. ~refused  BY <2>6, <3>1
    <3> HIDE DEF text, refused
    <3> QED  BY <2>7, <3>5, <3>7, <3>8, <3>9
  <2>11. CASE WriteNothing(h, data)
    <3>1. \/ n = 0 /\ UNCHANGED tables /\ Return("write", 0, <<>>)
          \/ refused /\ UNCHANGED tables /\ Return("write", -1, <<>>)
      BY <1>2, <2>6, <2>11 DEF WriteNothing
    <3> QED  BY <2>8, <2>9, <3>1
  <2>12. CASE WriteWrapped(h, data)
    <3>1. n > Len(data)  BY <2>12 DEF WriteWrapped
    <3> HIDE DEF n
    <3> QED  BY <2>3, <2>5, <3>1
  <2> QED  BY <2>10, <2>11, <2>12 DEF tfs_write
<1> QED  BY <1>1, <1>2

-----------------------------------------------------------------------------
(* The refinement *)

LEMMA InitStore == Init => Store!Init
<1> SUFFICES ASSUME Init PROVE Store!Init  OBVIOUS
<1>1. Names = {}  BY DEF Init, Names, tfs_lookup, find_in_dir
<1>2. Stored = <<>>  BY <1>1 DEF Stored
<1>3. OpenHandles = {}  BY DEF Init, OpenHandles, IsOpen
<1>4. Opened = <<>>  BY <1>3 DEF Opened
<1> QED  BY <1>2, <1>4 DEF Init, Store!Init

LEMMA StepStore ==
    RInv /\ RInv' /\ [DisciplinedNext]_vars => [Store!Next]_(Store!vars)
<1> SUFFICES ASSUME RInv, RInv', [DisciplinedNext]_vars
             PROVE  [Store!Next]_(Store!vars)
  OBVIOUS
<1>1. CASE UNCHANGED vars
  BY <1>1, QuietStored DEF vars, Store!vars
<1>2. ASSUME NEW name \in Paths, NEW mode \in Modes,
             "TRUNC" \in mode => ~InUse(name), tfs_open(name, mode)
      PROVE  Store!Next
  <2>1. mode \in Store!Modes  BY DEF Modes, Store!Modes
  <2>2. \E val \in Handles \cup {-1} :
            Store!OpenOld(name, mode, val) \/ Store!OpenNew(name, mode, val)
    BY <1>2, OpenRefusedStep, OpenExistingStep, CreateRefusedStep, CreateStep
    DEF tfs_open
  <2> QED  BY <2>1, <2>2 DEF Store!Next
<1>3. ASSUME NEW h \in CallHandles, tfs_close(h) PROVE Store!Next
  BY <1>3, CloseStep DEF Store!Next, CallHandles
<1>4. ASSUME NEW h \in CallHandles, NEW data \in Buffers, tfs_write(h, data)
      PROVE  Store!Next
  <2>1. Store!Write(h, data)  BY <1>4, WriteStep
  <2>2. PICK n \in 0 .. MaxTransfer : data \in [1 .. n -> Bytes]  BY DEF Buffers
  <2> QED  BY <2>1, <2>2 DEF Store!Next, CallHandles
<1>5. ASSUME NEW h \in CallHandles, NEW len \in 0 .. MaxTransfer, tfs_read(h, len)
      PROVE  Store!Next
  BY <1>5, ReadStep DEF Store!Next, CallHandles
<1>6. ASSUME NEW name \in Paths, ~InUse(name), tfs_unlink(name) PROVE Store!Next
  BY <1>6, UnlinkStep DEF Store!Next
<1> QED  BY <1>1, <1>2, <1>3, <1>4, <1>5, <1>6 DEF DisciplinedNext

\* For clients that neither truncate nor unlink open files, the inode, block,
\* directory and handle tables of TecnicoFS behave as named byte strings and
\* positions in them, and refuse exactly what the promised limits refuse: no
\* call leaks an inode, an entry, a block or a handle, and none mixes the bytes
\* of two files (tfs_open, tfs_close, tfs_write, tfs_read, tfs_unlink).
THEOREM ImplementsFlatStore == DisciplinedSpec => RefinesFlatStore
<1> QED
  BY InitRInv, StepRInv, InitStore, StepStore, PTL
  DEF DisciplinedSpec, RefinesFlatStore, Store!Spec

=============================================================================
