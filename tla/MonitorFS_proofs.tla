--------------------------- MODULE MonitorFS_proofs ---------------------------
(***************************************************************************)
(* TLAPS proofs about MonitorFS: for every client and whatever the limits, *)
(* the tables stay well formed and the directory, the inodes and the       *)
(* blocks stay consistent.                                                 *)
(***************************************************************************)
EXTENDS MonitorFS, TableLemmas

-----------------------------------------------------------------------------
(* Allocation and lookup *)

\* A scan of a table for a free entry finds one (inode_alloc and the others).
LEMMA FreeEntry ==
    ASSUME NEW n \in Nat, NEW table \in [0 .. n - 1 -> AllocationState],
           Free(table) # {}
    PROVE  /\ Min(Free(table)) \in 0 .. n - 1
           /\ table[Min(Free(table))] = "FREE"
<1>1. Free(table) \in SUBSET Nat  BY DEF Free
<1>2. Min(Free(table)) \in Free(table)  BY <1>1, MinIn
<1> QED  BY <1>2 DEF Free

\* find_in_dir returns the inode of an entry with that name, or -1 when there
\* is no such entry.
LEMMA LookupFound ==
    ASSUME TypeOK, DirectoryConsistent, NEW name \in Paths,
           tfs_lookup(name) # -1
    PROVE  \E s \in Entries : /\ dir[s].d_name = name
                              /\ dir[s].d_inumber = tfs_lookup(name)
                              /\ tfs_lookup(name) \in Files
                              /\ Live(tfs_lookup(name))
<1> DEFINE hits == {s \in Slots : dir[s].d_inumber # -1 /\ dir[s].d_name = name}
<1>1. hits # {} /\ tfs_lookup(name) = dir[Min(hits)].d_inumber
  BY DEF tfs_lookup, find_in_dir
<1>2. hits \in SUBSET Nat
  BY CountAssumption DEF Slots
<1>3. Min(hits) \in hits  BY <1>1, <1>2, MinIn
<1> DEFINE s == Min(hits)
<1>4. /\ s \in Slots /\ dir[s].d_inumber # -1 /\ dir[s].d_name = name
      /\ tfs_lookup(name) = dir[s].d_inumber
  BY <1>1, <1>3
<1> HIDE DEF s, hits
<1>5. s \in Entries  BY <1>4 DEF Entries
<1>6. dir[s].d_inumber \in Files /\ Live(dir[s].d_inumber)
  BY <1>5 DEF DirectoryConsistent
<1> QED  BY <1>4, <1>5, <1>6

LEMMA LookupMissed ==
    ASSUME TypeOK, NEW name \in Paths, valid_pathname(name),
           tfs_lookup(name) = -1
    PROVE  \A s \in Entries : dir[s].d_name # name
<1> DEFINE hits == {s \in Slots : dir[s].d_inumber # -1 /\ dir[s].d_name = name}
<1>1. hits \in SUBSET Nat
  BY CountAssumption DEF Slots
<1>2. hits # {} => Min(hits) \in hits  BY <1>1, MinIn
<1>3. hits = {}
  BY <1>2 DEF tfs_lookup, find_in_dir
<1> QED  BY <1>3 DEF Entries

\* What truncation and inode_delete hand to data_block_free is a block.
LEMMA FreesABlock ==
    ASSUME IInv, NEW name \in Paths, tfs_lookup(name) # -1
    PROVE  LET inum == tfs_lookup(name)
           IN  /\ \A mode : Truncates(inum, mode) =>
                      inode[inum].i_data_block \in BlockNumbers
               /\ OwnsBlock(inum) => inode[inum].i_data_block \in BlockNumbers
<1>1. tfs_lookup(name) \in INums  BY LookupFound DEF IInv, Files
<1> QED  BY <1>1 DEF IInv, SizedHasBlock, Truncates, OwnsBlock

\* add_to_open_file_table keeps the open file table well formed and answers
\* an open call, whether or not it finds a free entry.
LEMMA AddToTable ==
    ASSUME IInv, NEW inum \in Files, NEW offset \in 0 .. BlockSize,
           add_to_open_file_table(inum, offset)
    PROVE  /\ open_file_table' \in [Handles -> [of_inumber : INums, of_offset : Nat]]
           /\ free_open_file_entries' \in [Handles -> AllocationState]
           /\ last' \in [call : {"open"}, val : Int,
                         data : Seq(Bytes \cup {Junk, DirData})]
           /\ HandlesOnFiles' /\ OffsetsBounded'
<1>1. TypeOK /\ HandlesOnFiles /\ OffsetsBounded  BY DEF IInv
<1>2. CASE Free(free_open_file_entries) = {}
  <2>1. /\ last' = [call |-> "open", val |-> -1, data |-> <<>>]
        /\ UNCHANGED <<open_file_table, free_open_file_entries>>
    BY <1>2 DEF add_to_open_file_table, Return
  <2>2. last' \in [call : {"open"}, val : Int,
                   data : Seq(Bytes \cup {Junk, DirData})]
    BY <2>1
  <2> QED  BY <1>1, <2>1, <2>2 DEF TypeOK, HandlesOnFiles, OffsetsBounded, IsOpen
<1>3. CASE Free(free_open_file_entries) # {}
  <2> DEFINE h == Min(Free(free_open_file_entries))
  <2>1. h \in Handles
    BY <1>1, <1>3, FreeEntry, CountAssumption DEF TypeOK, Handles
  <2>2. /\ last' = [call |-> "open", val |-> h, data |-> <<>>]
        /\ free_open_file_entries' = [free_open_file_entries EXCEPT ![h] = "TAKEN"]
        /\ open_file_table' = [open_file_table EXCEPT ![h] =
                                  [of_inumber |-> inum, of_offset |-> offset]]
    BY <1>3 DEF add_to_open_file_table, Return
  <2> HIDE DEF h
  <2>3. h \in Int /\ inum \in INums /\ offset \in Nat
    BY <2>1, CountAssumption DEF Handles, Files
  <2>4. offset <= BlockSize + OffsetBound  BY CountAssumption
  <2>5. /\ open_file_table' \in [Handles -> [of_inumber : INums, of_offset : Nat]]
        /\ free_open_file_entries' \in [Handles -> AllocationState]
        /\ last' \in [call : {"open"}, val : Int,
                      data : Seq(Bytes \cup {Junk, DirData})]
    BY <1>1, <2>1, <2>2, <2>3 DEF TypeOK, AllocationState
  <2>6. HandlesOnFiles' /\ OffsetsBounded'
    BY <1>1, <2>1, <2>2, <2>4 DEF TypeOK, HandlesOnFiles, OffsetsBounded, IsOpen, Files, INums
  <2> QED  BY <2>5, <2>6
<1> QED  BY <1>2, <1>3

-----------------------------------------------------------------------------
(* Every action preserves the invariant *)

\* Refused calls, and calls that end in an abort, leave the tables alone.
LEMMA KeepsTables ==
    ASSUME IInv, UNCHANGED tables, OnlyReadsPanic',
           status' \in {"running", "panic", "fault"},
           last' \in [call : {"init", "open", "close", "read", "write", "unlink"},
                      val : Int, data : Seq(Bytes \cup {Junk, DirData})]
    PROVE  IInv'
<1>1. TypeOK'  BY DEF IInv, TypeOK, tables
<1>2. RootIntact' /\ SizedHasBlock' /\ SizesBounded' /\ OffsetsBounded'
  BY DEF IInv, tables, RootIntact, RootBlock, Live, SizedHasBlock, SizesBounded,
         OffsetsBounded
<1>3. DirectoryConsistent'  BY DEF IInv, tables, DirectoryConsistent, Entries, Live
<1>4. BlocksNeverShared'  BY DEF IInv, tables, BlocksNeverShared, Live
<1>5. HandlesOnFiles'  BY DEF IInv, tables, HandlesOnFiles, IsOpen
<1> QED  BY <1>1, <1>2, <1>3, <1>4, <1>5 DEF IInv

LEMMA InitInv == Init => IInv
<1> SUFFICES ASSUME Init PROVE IInv  OBVIOUS
<1> USE CountAssumption DEF Init
<1>1. TypeOK
  BY DEF TypeOK, INums, BlockNumbers, Slots, Handles, Addresses, NewFile,
         AllocationState, ROOT_DIR_INUM
<1>2. RootIntact
  BY DEF RootIntact, RootBlock, Live, Files, INums, BlockNumbers, NewFile,
         ROOT_DIR_INUM
<1>3. DirectoryConsistent
  BY DEF DirectoryConsistent, Entries, Live, Files, ROOT_DIR_INUM
<1>4. BlocksNeverShared
  BY DEF BlocksNeverShared, Live, INums, BlockNumbers, ROOT_DIR_INUM
<1>5. SizedHasBlock /\ SizesBounded
  BY DEF SizedHasBlock, SizesBounded, NewFile, INums, BlockNumbers, ROOT_DIR_INUM
<1>6. HandlesOnFiles /\ OffsetsBounded /\ OnlyReadsPanic
  BY DEF HandlesOnFiles, OffsetsBounded, OnlyReadsPanic, IsOpen
<1> QED  BY <1>1, <1>2, <1>3, <1>4, <1>5, <1>6 DEF IInv

LEMMA OpenRefusedInv ==
    ASSUME IInv, status = "running", NEW name \in Paths, NEW mode \in Modes,
           OpenRefused(name, mode)
    PROVE  IInv'
<1>1. last' = [call |-> "open", val |-> -1, data |-> <<>>] /\ UNCHANGED <<tables, status>>
  BY DEF OpenRefused, Return
<1>2. OnlyReadsPanic'  BY <1>1 DEF OnlyReadsPanic
<1> QED  BY <1>1, <1>2, KeepsTables

\* Truncation frees the file's own block and nobody else's.
LEMMA OpenExistingInv ==
    ASSUME IInv, status = "running", NEW name \in Paths, NEW mode \in Modes,
           OpenExisting(name, mode)
    PROVE  IInv'
<1> DEFINE inum == tfs_lookup(name)
           size == SizeAfterTrunc(inum, mode)
           old  == inode[inum]
<1>1. inum \in Files /\ Live(inum) /\ inum \in INums
  BY LookupFound DEF OpenExisting, IInv, Files
<1>2. /\ inode' = [inode EXCEPT ![inum].i_size = size]
      /\ free_blocks' = IF Truncates(inum, mode)
                        THEN [free_blocks EXCEPT ![old.i_data_block] = "FREE"]
                        ELSE free_blocks
      /\ add_to_open_file_table(inum, IF "APPEND" \in mode THEN size ELSE 0)
      /\ UNCHANGED <<freeinode_ts, fs_data, dir, status>>
  BY FreesABlock DEF OpenExisting
<1> HIDE DEF inum
<1>3. /\ old \in [i_node_type : {"T_FILE", "T_DIRECTORY"}, i_size : Nat,
                  i_data_block : BlockNumbers \cup {-1}]
      /\ old.i_size <= BlockSize
      /\ old.i_size > 0 => old.i_data_block \in BlockNumbers
      /\ old.i_data_block # RootBlock
  BY <1>1 DEF IInv, TypeOK, SizesBounded, SizedHasBlock, RootIntact
<1>4. /\ size \in 0 .. BlockSize
      /\ size = IF Truncates(inum, mode) THEN 0 ELSE old.i_size
      /\ Truncates(inum, mode) => old.i_size > 0
  BY <1>3, CountAssumption DEF SizeAfterTrunc, Truncates
<1> HIDE DEF size, old
<1>5. (IF "APPEND" \in mode THEN size ELSE 0) \in 0 .. BlockSize
  BY <1>4, CountAssumption
<1>6. /\ open_file_table' \in [Handles -> [of_inumber : INums, of_offset : Nat]]
      /\ free_open_file_entries' \in [Handles -> AllocationState]
      /\ last' \in [call : {"open"}, val : Int,
                    data : Seq(Bytes \cup {Junk, DirData})]
      /\ HandlesOnFiles' /\ OffsetsBounded'
  BY <1>1, <1>2, <1>5, AddToTable
<1>7. \A i \in INums : /\ inode'[i].i_data_block = inode[i].i_data_block
                       /\ inode'[i].i_node_type = inode[i].i_node_type
                       /\ inode'[i].i_size = IF i = inum THEN size ELSE inode[i].i_size
  BY <1>1, <1>2 DEF IInv, TypeOK
<1>8. \A c \in BlockNumbers :
          free_blocks'[c] = IF Truncates(inum, mode) /\ c = old.i_data_block
                            THEN "FREE" ELSE free_blocks[c]
  BY <1>2, <1>3, <1>4 DEF IInv, TypeOK
<1>9. TypeOK'
  <2>1. inode' \in [INums -> [i_node_type : {"T_FILE", "T_DIRECTORY"}, i_size : Nat,
                             i_data_block : BlockNumbers \cup {-1}]]
    <3>1. size \in Nat  BY <1>4
    <3>2. inode' = [inode EXCEPT ![inum].i_size = size]  BY <1>2
    <3>3. inode \in [INums -> [i_node_type : {"T_FILE", "T_DIRECTORY"}, i_size : Nat,
                               i_data_block : BlockNumbers \cup {-1}]]
      BY DEF IInv, TypeOK
    <3> QED  BY <1>1, <3>1, <3>2, <3>3
  <2>2. free_blocks' \in [BlockNumbers -> AllocationState]
    BY <1>2, <1>3, <1>4 DEF IInv, TypeOK, AllocationState
  <2> QED  BY <1>2, <1>6, <2>1, <2>2 DEF IInv, TypeOK
<1>10. RootIntact'
  <2>1. 0 \in INums /\ inum # 0  BY <1>1, CountAssumption DEF INums, Files, ROOT_DIR_INUM
  <2> QED  BY <1>2, <1>3, <1>7, <1>8, <2>1
           DEF IInv, RootIntact, RootBlock, Live, Files, ROOT_DIR_INUM
<1>11. DirectoryConsistent'  BY <1>2 DEF IInv, DirectoryConsistent, Entries, Live
<1>12. BlocksNeverShared'
  <2> SUFFICES ASSUME NEW i \in INums, Live(i)', inode'[i].i_size > 0
               PROVE  /\ inode'[i].i_data_block \in BlockNumbers
                      /\ free_blocks'[inode'[i].i_data_block] = "TAKEN"
                      /\ \A j \in INums \ {i} : Live(j)' /\ inode'[j].i_size > 0 =>
                             inode'[j].i_data_block # inode'[i].i_data_block
    BY DEF BlocksNeverShared
  <2>1. \A j \in INums : Live(j)' = Live(j)  BY <1>2 DEF Live
  <2>2. \A j \in INums : inode'[j].i_size > 0 => inode[j].i_size > 0
    BY <1>4, <1>7 DEF old
  <2>3. Truncates(inum, mode) => i # inum
    BY <1>4, <1>7
  <2> QED  BY <1>1, <1>4, <1>7, <1>8, <2>1, <2>2, <2>3 DEF IInv, BlocksNeverShared, old
<1>13. SizedHasBlock' /\ SizesBounded'
  BY <1>4, <1>3, <1>7 DEF IInv, SizedHasBlock, SizesBounded, old
<1>14. OnlyReadsPanic'  BY <1>2 DEF OnlyReadsPanic
<1> QED  BY <1>6, <1>9, <1>10, <1>11, <1>12, <1>13, <1>14 DEF IInv

LEMMA CreateRefusedInv ==
    ASSUME IInv, status = "running", NEW name \in Paths, NEW mode \in Modes,
           CreateRefused(name, mode)
    PROVE  IInv'
<1>1. /\ last' = [call |-> "open", val |-> -1, data |-> <<>>]
      /\ UNCHANGED <<freeinode_ts, fs_data, free_blocks, dir, open_file_table,
                     free_open_file_entries, status>>
  BY DEF CreateRefused, Return
<1>2. OnlyReadsPanic'  BY <1>1 DEF OnlyReadsPanic
<1>3. CASE inode' = inode
  BY <1>1, <1>2, <1>3, KeepsTables DEF tables
<1>4. CASE inode' # inode
  <2> DEFINE inum == Min(Free(freeinode_ts))
  <2>1. Free(freeinode_ts) # {} /\ inode' = [inode EXCEPT ![inum] = NewFile]
    BY <1>4 DEF CreateRefused
  <2>2. inum \in INums /\ freeinode_ts[inum] = "FREE"
    BY <2>1, FreeEntry, CountAssumption DEF IInv, TypeOK, INums
  <2> HIDE DEF inum
  <2>3. ~Live(inum) /\ inum # ROOT_DIR_INUM  BY <2>2 DEF IInv, RootIntact, Live
  <2>4. \A i \in INums : inode'[i] = IF i = inum THEN NewFile ELSE inode[i]
    BY <2>1, <2>2 DEF IInv, TypeOK
  <2>5. TypeOK'
    BY <1>1, <2>1, <2>2, CountAssumption DEF IInv, TypeOK, NewFile
  <2>6. RootIntact'
    <3>1. ROOT_DIR_INUM \in INums  BY CountAssumption DEF INums, ROOT_DIR_INUM
    <3>2. -1 \notin BlockNumbers  BY CountAssumption DEF BlockNumbers
    <3> QED  BY <1>1, <2>3, <2>4, <3>1, <3>2
             DEF IInv, RootIntact, RootBlock, Live, Files, NewFile
  <2>7. DirectoryConsistent'  BY <1>1 DEF IInv, DirectoryConsistent, Entries, Live
  <2>8. BlocksNeverShared'
    BY <1>1, <2>3, <2>4 DEF IInv, BlocksNeverShared, Live
  <2>9. SizedHasBlock' /\ SizesBounded'
    BY <2>4, CountAssumption DEF IInv, SizedHasBlock, SizesBounded, NewFile
  <2>10. HandlesOnFiles' /\ OffsetsBounded'
    BY <1>1 DEF IInv, HandlesOnFiles, OffsetsBounded, IsOpen
  <2> QED  BY <1>2, <2>5, <2>6, <2>7, <2>8, <2>9, <2>10 DEF IInv
<1> QED  BY <1>3, <1>4

\* The new entry is the only one with its name, because the lookup missed, and
\* the only one with its inode, because the inode was free.
LEMMA CreateInv ==
    ASSUME IInv, status = "running", NEW name \in Paths, NEW mode \in Modes,
           Create(name, mode)
    PROVE  IInv'
<1> DEFINE inum == Min(Free(freeinode_ts))
           slot == Min(EmptySlots)
<1>1. /\ valid_pathname(name) /\ tfs_lookup(name) = -1
      /\ Free(freeinode_ts) # {} /\ EmptySlots # {}
      /\ inode' = [inode EXCEPT ![inum] = NewFile]
      /\ freeinode_ts' = [freeinode_ts EXCEPT ![inum] = "TAKEN"]
      /\ dir' = [dir EXCEPT ![slot] = [d_name |-> name, d_inumber |-> inum]]
      /\ add_to_open_file_table(inum, 0)
      /\ UNCHANGED <<fs_data, free_blocks, status>>
  BY DEF Create, CanAddEntry, add_dir_entry
<1>2. inum \in INums /\ freeinode_ts[inum] = "FREE"
  BY <1>1, FreeEntry, CountAssumption DEF IInv, TypeOK, INums
<1>3. slot \in Slots /\ dir[slot].d_inumber = -1
  <2>1. EmptySlots \in SUBSET Nat  BY CountAssumption DEF EmptySlots, Slots
  <2>2. slot \in EmptySlots  BY <1>1, <2>1, MinIn
  <2> QED  BY <2>2 DEF EmptySlots
<1> HIDE DEF inum, slot
<1>4. ~Live(inum) /\ inum \in Files
  BY <1>2 DEF IInv, RootIntact, Live, Files
<1>5. \A s \in Entries : dir[s].d_name # name
  BY <1>1, LookupMissed DEF IInv
<1>6. 0 \in 0 .. BlockSize  BY CountAssumption
<1>7. /\ open_file_table' \in [Handles -> [of_inumber : INums, of_offset : Nat]]
      /\ free_open_file_entries' \in [Handles -> AllocationState]
      /\ last' \in [call : {"open"}, val : Int,
                    data : Seq(Bytes \cup {Junk, DirData})]
      /\ HandlesOnFiles' /\ OffsetsBounded'
  BY <1>1, <1>4, <1>6, AddToTable
<1>8. \A i \in INums : /\ inode'[i] = IF i = inum THEN NewFile ELSE inode[i]
                       /\ freeinode_ts'[i] = IF i = inum THEN "TAKEN"
                                             ELSE freeinode_ts[i]
  BY <1>1, <1>2 DEF IInv, TypeOK
<1>9. \A s \in Slots : dir'[s] = IF s = slot
                                 THEN [d_name |-> name, d_inumber |-> inum]
                                 ELSE dir[s]
  BY <1>1, <1>3 DEF IInv, TypeOK
<1>10. TypeOK'
  BY <1>1, <1>2, <1>3, <1>7 DEF IInv, TypeOK, NewFile, AllocationState
<1>11. RootIntact'
  <2>1. ROOT_DIR_INUM \in INums /\ inum # ROOT_DIR_INUM
    BY <1>4, CountAssumption DEF INums, ROOT_DIR_INUM, Files
  <2>2. -1 \notin BlockNumbers  BY CountAssumption DEF BlockNumbers
  <2> QED  BY <1>1, <1>8, <2>1, <2>2
           DEF IInv, RootIntact, RootBlock, Live, Files, NewFile
<1>12. DirectoryConsistent'
  <2>1. Entries' = Entries \cup {slot} /\ slot \notin Entries
    <3>1. inum # -1  BY <1>2, CountAssumption DEF INums
    <3> QED  BY <1>3, <1>9, <3>1 DEF Entries
  <2>2. \A s \in Entries : dir[s].d_inumber # inum
    BY <1>4 DEF IInv, DirectoryConsistent
  <2>3. \A s \in Entries' : /\ dir'[s].d_inumber \in Files
                            /\ freeinode_ts'[dir'[s].d_inumber] = "TAKEN"
    BY <1>3, <1>4, <1>8, <1>9, <2>1
    DEF IInv, DirectoryConsistent, Live, Files, Entries
  <2>4. \A s, t \in Entries' : s # t => /\ dir'[s].d_inumber # dir'[t].d_inumber
                                       /\ dir'[s].d_name # dir'[t].d_name
    BY <1>3, <1>5, <1>9, <2>1, <2>2 DEF IInv, DirectoryConsistent, Entries
  <2>5. \A i \in Files : Live(i)' => \E s \in Entries' : dir'[s].d_inumber = i
    BY <1>3, <1>8, <1>9, <2>1 DEF IInv, DirectoryConsistent, Live, Files, Entries
  <2>6. \A s \in Slots \ Entries' : dir'[s].d_name = NoName
    BY <1>3, <1>9, <2>1 DEF IInv, DirectoryConsistent
  <2> QED  BY <2>3, <2>4, <2>5, <2>6 DEF DirectoryConsistent, Live
<1>13. BlocksNeverShared'
  BY <1>1, <1>8 DEF IInv, BlocksNeverShared, Live, NewFile
<1>14. SizedHasBlock' /\ SizesBounded'
  BY <1>8, CountAssumption DEF IInv, SizedHasBlock, SizesBounded, NewFile
<1>15. OnlyReadsPanic'  BY <1>1 DEF OnlyReadsPanic
<1> QED  BY <1>7, <1>10, <1>11, <1>12, <1>13, <1>14, <1>15 DEF IInv

LEMMA CloseInv ==
    ASSUME IInv, status = "running", NEW h \in CallHandles, tfs_close(h)
    PROVE  IInv'
<1>1. /\ last' = [call |-> "close", val |-> IF IsOpen(h) THEN 0 ELSE -1, data |-> <<>>]
      /\ free_open_file_entries' =
             IF IsOpen(h) THEN [free_open_file_entries EXCEPT ![h] = "FREE"]
             ELSE free_open_file_entries
      /\ UNCHANGED <<inode, freeinode_ts, fs_data, free_blocks, dir,
                     open_file_table, status>>
  BY DEF tfs_close, Return
<1>2. free_open_file_entries' \in [Handles -> AllocationState]
  BY <1>1 DEF IInv, TypeOK, AllocationState
<1>3. TypeOK'
  <2>1. last'.val \in Int /\ last' = [call |-> "close", val |-> last'.val, data |-> <<>>]
    BY <1>1
  <2> QED  BY <1>1, <1>2, <2>1 DEF IInv, TypeOK
<1>4. RootIntact' /\ SizedHasBlock' /\ SizesBounded' /\ OffsetsBounded'
  BY <1>1 DEF IInv, RootIntact, RootBlock, Live, SizedHasBlock, SizesBounded,
              OffsetsBounded
<1>5. DirectoryConsistent' /\ BlocksNeverShared'
  BY <1>1 DEF IInv, DirectoryConsistent, BlocksNeverShared, Entries, Live
<1>6. HandlesOnFiles'
  BY <1>1 DEF IInv, TypeOK, HandlesOnFiles, IsOpen
<1>7. OnlyReadsPanic'  BY <1>1 DEF OnlyReadsPanic
<1> QED  BY <1>3, <1>4, <1>5, <1>6, <1>7 DEF IInv

\* tfs_write cuts the count to the handle's block: the subtraction wraps only
\* to counts longer than any buffer.
LEMMA WriteFits ==
    ASSUME IInv, NEW h \in CallHandles, NEW data \in Buffers, IsOpen(h),
           WriteCount(h, data) \in 1 .. Len(data)
    PROVE  open_file_table[h].of_offset + WriteCount(h, data) <= BlockSize
<1> DEFINE offset == open_file_table[h].of_offset
           n == WriteCount(h, data)
<1>1. h \in Handles /\ offset \in Nat /\ offset <= BlockSize + OffsetBound
  BY DEF IInv, TypeOK, OffsetsBounded, IsOpen
<1>2. PICK m \in 0 .. MaxTransfer : data \in [1 .. m -> Bytes]
  BY DEF Buffers
<1>3. Len(data) = m /\ m \in Nat /\ m <= MaxTransfer
  BY <1>2, CountAssumption
<1>4. n = IF m + offset > BlockSize THEN (BlockSize - offset) % SizeModulus ELSE m
  BY <1>3 DEF WriteCount
<1>5. BlockSize + OffsetBound + MaxTransfer < SizeModulus
  <2>1. MaxBlockCount * BlockSize >= BlockSize
    <3>1. PICK k \in Nat : MaxBlockCount = k + 1
      <4>1. MaxBlockCount - 1 \in Nat /\ MaxBlockCount = (MaxBlockCount - 1) + 1
        BY CountAssumption
      <4> QED  BY <4>1
    <3>2. MaxBlockCount * BlockSize = k * BlockSize + BlockSize
      BY <3>1, CountAssumption
    <3>3. k * BlockSize \in Nat  BY CountAssumption
    <3> QED  BY <3>2, <3>3, CountAssumption
  <2>2. MaxBlockCount * BlockSize \in Nat  BY CountAssumption
  <2> QED  BY <2>1, <2>2, ModulusAssumption, CountAssumption
<1> HIDE DEF offset, n
<1>6. CASE m + offset <= BlockSize
  BY <1>1, <1>3, <1>4, <1>6, CountAssumption DEF n, offset
<1>7. CASE m + offset > BlockSize /\ offset <= BlockSize
  <2>1. (BlockSize - offset) % SizeModulus = BlockSize - offset
    BY <1>1, <1>5, <1>7, CountAssumption
  <2> QED  BY <1>1, <1>4, <1>7, <2>1, CountAssumption DEF n, offset
<1>8. CASE offset > BlockSize
  <2>1. (BlockSize - offset) % SizeModulus = SizeModulus + BlockSize - offset
    BY <1>1, <1>5, <1>8, CountAssumption
  <2>2. n > m  BY <1>1, <1>3, <1>4, <1>5, <1>8, <2>1, CountAssumption
  <2> QED  BY <1>3, <2>2, CountAssumption DEF n
<1> QED  BY <1>1, <1>3, <1>6, <1>7, <1>8, CountAssumption

\* What a write that copies bytes does: it stays inside a block that is not
\* the directory's, either the file's own or one that was free.
WriteEffect(h, data, b, i, n) ==
    LET end == open_file_table[h].of_offset + n
    IN  /\ h \in Handles /\ i = open_file_table[h].of_inumber
        /\ b # RootBlock
        /\ end <= BlockSize
        /\ IF inode[i].i_size = 0 THEN free_blocks[b] = "FREE"
           ELSE b = inode[i].i_data_block
        /\ free_blocks' = [free_blocks EXCEPT ![b] =
                               IF inode[i].i_size = 0 THEN "TAKEN" ELSE @]
        /\ fs_data' = [a \in Addresses |->
               LET k == a - BlockAddress(b, open_file_table[h].of_offset)
               IN  IF k \in 0 .. n - 1 THEN data[k + 1] ELSE fs_data[a]]
        /\ open_file_table' = [open_file_table EXCEPT ![h].of_offset = end]
        /\ inode' = [inode EXCEPT ![i] =
               [inode[i] EXCEPT !.i_data_block = b,
                                !.i_size = IF end > @ THEN end ELSE @]]
        /\ last' = [call |-> "write", val |-> n, data |-> <<>>]
        /\ UNCHANGED <<freeinode_ts, dir, free_open_file_entries, status>>

LEMMA WriteBytesEffect ==
    ASSUME IInv, NEW h \in CallHandles, NEW data \in Buffers, WriteBytes(h, data)
    PROVE  \E b \in BlockNumbers, i \in Files, n \in 1 .. Len(data) :
               WriteEffect(h, data, b, i, n)
<1> DEFINE i == open_file_table[h].of_inumber
           n == WriteCount(h, data)
           b == IF NeedsBlock(h) THEN Min(Free(free_blocks))
                ELSE inode[i].i_data_block
<1>1. IsOpen(h) /\ n \in 1 .. Len(data) /\ h \in Handles /\ i \in Files
  BY DEF WriteBytes, IInv, HandlesOnFiles, IsOpen
<1>2. open_file_table[h].of_offset + n <= BlockSize  BY <1>1, WriteFits
<1>3. b \in BlockNumbers /\ b # RootBlock
      /\ IF inode[i].i_size = 0 THEN free_blocks[b] = "FREE"
         ELSE b = inode[i].i_data_block
  <2>1. CASE NeedsBlock(h)
    <3>1. Free(free_blocks) # {}  BY <2>1 DEF WriteBytes
    <3>2. Min(Free(free_blocks)) \in BlockNumbers
          /\ free_blocks[Min(Free(free_blocks))] = "FREE"
      BY <3>1, FreeEntry, CountAssumption DEF IInv, TypeOK, BlockNumbers
    <3> QED  BY <2>1, <3>2 DEF IInv, RootIntact, NeedsBlock
  <2>2. CASE ~NeedsBlock(h)
    <3>1. inode[i].i_size # 0 /\ inode[i].i_size \in Nat
      BY <1>1, <2>2 DEF NeedsBlock, IInv, TypeOK, Files
    <3> QED  BY <1>1, <2>2, <3>1 DEF IInv, SizedHasBlock, RootIntact, Files
  <2> QED  BY <2>1, <2>2
<1>4. /\ free_blocks' = [free_blocks EXCEPT ![b] =
                             IF inode[i].i_size = 0 THEN "TAKEN" ELSE @]
      /\ fs_data' = [a \in Addresses |->
             LET k == a - BlockAddress(b, open_file_table[h].of_offset)
             IN  IF k \in 0 .. n - 1 THEN data[k + 1] ELSE fs_data[a]]
      /\ open_file_table' = [open_file_table EXCEPT
             ![h].of_offset = open_file_table[h].of_offset + n]
      /\ inode' = [inode EXCEPT ![i] =
             [inode[i] EXCEPT !.i_data_block = b,
                 !.i_size = IF open_file_table[h].of_offset + n > @
                            THEN open_file_table[h].of_offset + n ELSE @]]
      /\ last' = [call |-> "write", val |-> n, data |-> <<>>]
      /\ UNCHANGED <<freeinode_ts, dir, free_open_file_entries, status>>
  BY <1>3 DEF WriteBytes, NeedsBlock, Return
<1> HIDE DEF b, n, i
<1>5. WriteEffect(h, data, b, i, n)
  BY <1>1, <1>2, <1>3, <1>4 DEF i, WriteEffect
<1> QED  BY <1>1, <1>3, <1>5

LEMMA WriteBytesInv ==
    ASSUME IInv, status = "running", NEW h \in CallHandles, NEW data \in Buffers,
           WriteBytes(h, data)
    PROVE  IInv'
<1>1. PICK b \in BlockNumbers, i \in Files, n \in 1 .. Len(data) :
          WriteEffect(h, data, b, i, n)
  BY WriteBytesEffect
<1> DEFINE end  == open_file_table[h].of_offset + n
           size == IF end > inode[i].i_size THEN end ELSE inode[i].i_size
           node == [inode[i] EXCEPT !.i_data_block = b, !.i_size = size]
           file == [open_file_table[h] EXCEPT !.of_offset = end]
<1>2. data \in Seq(Bytes) /\ n \in Nat /\ n > 0
  BY CountAssumption DEF Buffers
<1>3. i \in INums /\ i # ROOT_DIR_INUM /\ h \in Handles
      /\ end \in Nat /\ end > 0 /\ end <= BlockSize
  BY <1>1, <1>2 DEF WriteEffect, Files, IInv, TypeOK
<1>4. /\ size \in Nat /\ size > 0 /\ size <= BlockSize
      /\ inode' = [inode EXCEPT ![i] = node]
      /\ open_file_table' = [open_file_table EXCEPT ![h] = file]
  BY <1>1, <1>3, CountAssumption DEF WriteEffect, IInv, TypeOK, SizesBounded
<1> HIDE DEF end, size
<1>5. /\ node \in [i_node_type : {"T_FILE", "T_DIRECTORY"}, i_size : Nat,
                   i_data_block : BlockNumbers \cup {-1}]
      /\ node.i_size = size /\ node.i_data_block = b
      /\ node.i_node_type = inode[i].i_node_type
      /\ file \in [of_inumber : INums, of_offset : Nat]
      /\ file.of_offset = end /\ file.of_inumber = open_file_table[h].of_inumber
  <2>1. inode[i] \in [i_node_type : {"T_FILE", "T_DIRECTORY"}, i_size : Nat,
                      i_data_block : BlockNumbers \cup {-1}]
    BY <1>3 DEF IInv, TypeOK
  <2>2. open_file_table[h] \in [of_inumber : INums, of_offset : Nat]
    BY <1>3 DEF IInv, TypeOK
  <2>3. /\ file \in [of_inumber : INums, of_offset : Nat]
        /\ file.of_offset = end /\ file.of_inumber = open_file_table[h].of_inumber
    BY <1>3, <2>2
  <2> QED  BY <1>4, <2>1, <2>3
<1> HIDE DEF node, file
<1>6. \A j \in INums :
          /\ inode'[j].i_size = IF j = i THEN size ELSE inode[j].i_size
          /\ inode'[j].i_data_block = IF j = i THEN b ELSE inode[j].i_data_block
          /\ inode'[j].i_node_type = inode[j].i_node_type
  BY <1>3, <1>4, <1>5 DEF IInv, TypeOK
<1>7. /\ b # RootBlock
      /\ IF inode[i].i_size = 0 THEN free_blocks[b] = "FREE"
         ELSE b = inode[i].i_data_block
      /\ free_blocks' = [free_blocks EXCEPT ![b] =
                             IF inode[i].i_size = 0 THEN "TAKEN" ELSE @]
      /\ fs_data' = [a \in Addresses |->
             LET k == a - BlockAddress(b, open_file_table[h].of_offset)
             IN  IF k \in 0 .. n - 1 THEN data[k + 1] ELSE fs_data[a]]
      /\ last' = [call |-> "write", val |-> n, data |-> <<>>]
      /\ UNCHANGED <<freeinode_ts, dir, free_open_file_entries, status>>
  BY <1>1 DEF WriteEffect
<1>8. \A c \in BlockNumbers :
          free_blocks'[c] = IF c = b /\ inode[i].i_size = 0 THEN "TAKEN"
                            ELSE free_blocks[c]
  BY <1>7 DEF IInv, TypeOK
<1>9. TypeOK'
  <2>1. inode' \in [INums -> [i_node_type : {"T_FILE", "T_DIRECTORY"}, i_size : Nat,
                             i_data_block : BlockNumbers \cup {-1}]]
    BY <1>3, <1>4, <1>5 DEF IInv, TypeOK
  <2>2. free_blocks' \in [BlockNumbers -> AllocationState]
    BY <1>7 DEF IInv, TypeOK, AllocationState
  <2>3. fs_data' \in [Addresses -> Bytes \cup {Junk, DirData}]
    <3>1. ASSUME NEW a \in Addresses
          PROVE  fs_data'[a] \in Bytes \cup {Junk, DirData}
      <4> DEFINE k == a - BlockAddress(b, open_file_table[h].of_offset)
      <4>1. fs_data'[a] = IF k \in 0 .. n - 1 THEN data[k + 1] ELSE fs_data[a]
        BY <1>7
      <4>2. fs_data[a] \in Bytes \cup {Junk, DirData}  BY DEF IInv, TypeOK
      <4> HIDE DEF k
      <4>3. CASE k \in 0 .. n - 1
        <5>1. k + 1 \in 1 .. Len(data)  BY <1>7, <1>2, <4>3
        <5>2. data[k + 1] \in Bytes  BY <1>2, <5>1
        <5> QED  BY <4>1, <4>3, <5>2
      <4> QED  BY <4>1, <4>2, <4>3
    <3>2. fs_data' = [a \in Addresses |-> fs_data'[a]]  BY <1>7
    <3> QED  BY <3>1, <3>2
  <2>4. open_file_table' \in [Handles -> [of_inumber : INums, of_offset : Nat]]
    BY <1>3, <1>4, <1>5 DEF IInv, TypeOK
  <2>5. last' \in [call : {"write"}, val : Int, data : Seq(Bytes \cup {Junk, DirData})]
    BY <1>7, <1>2
  <2> QED  BY <1>7, <2>1, <2>2, <2>3, <2>4, <2>5 DEF IInv, TypeOK
<1>10. RootIntact'
  <2>1. ROOT_DIR_INUM \in INums  BY CountAssumption DEF INums, ROOT_DIR_INUM
  <2> QED  BY <1>7, <1>3, <1>6, <1>8, <2>1
           DEF IInv, RootIntact, RootBlock, Live, Files
<1>11. DirectoryConsistent'
  BY <1>7 DEF IInv, DirectoryConsistent, Entries, Live
<1>12. BlocksNeverShared'
  <2> SUFFICES ASSUME NEW j \in INums, NEW m \in INums, Live(j), Live(m),
                      inode'[j].i_size > 0, inode'[m].i_size > 0
               PROVE  /\ inode'[j].i_data_block \in BlockNumbers
                      /\ free_blocks'[inode'[j].i_data_block] = "TAKEN"
                      /\ m # j => inode'[m].i_data_block # inode'[j].i_data_block
    BY <1>7 DEF BlocksNeverShared, Live
  <2>1. CASE inode[i].i_size = 0
    BY <1>7, <1>3, <1>6, <1>8, <2>1 DEF IInv, BlocksNeverShared
  <2>2. CASE inode[i].i_size # 0
    <3>1. inode[i].i_size > 0  BY <1>3, <2>2 DEF IInv, TypeOK
    <3> QED  BY <1>7, <1>3, <1>6, <1>8, <2>2, <3>1 DEF IInv, BlocksNeverShared
  <2> QED  BY <2>1, <2>2
<1>13. SizedHasBlock' /\ SizesBounded'
  BY <1>7, <1>4, <1>6 DEF IInv, SizedHasBlock, SizesBounded
<1>14. HandlesOnFiles'
  BY <1>7, <1>3, <1>4, <1>5 DEF IInv, TypeOK, HandlesOnFiles, IsOpen
<1>15. OffsetsBounded'
  <2>1. end <= BlockSize + OffsetBound  BY <1>3, CountAssumption
  <2> QED  BY <1>3, <1>4, <1>5, <2>1 DEF IInv, TypeOK, OffsetsBounded
<1>16. OnlyReadsPanic'  BY <1>7 DEF OnlyReadsPanic
<1> QED  BY <1>9, <1>10, <1>11, <1>12, <1>13, <1>14, <1>15, <1>16 DEF IInv

LEMMA WriteInv ==
    ASSUME IInv, status = "running", NEW h \in CallHandles, NEW data \in Buffers,
           tfs_write(h, data)
    PROVE  IInv'
<1>1. CASE WriteNothing(h, data)
  <2>1. /\ UNCHANGED <<tables, status>>
        /\ last' = [call |-> "write", val |-> -1, data |-> <<>>]
           \/ last' = [call |-> "write", val |-> 0, data |-> <<>>]
    BY <1>1 DEF WriteNothing, Return
  <2>2. last' \in [call : {"write"}, val : Int, data : Seq(Bytes \cup {Junk, DirData})]
    <3>1. PICK v \in {-1, 0} : last' = [call |-> "write", val |-> v, data |-> <<>>]
      BY <2>1
    <3> QED  BY <3>1
  <2>3. OnlyReadsPanic'  BY <2>1 DEF OnlyReadsPanic
  <2> QED  BY <2>1, <2>2, <2>3, KeepsTables DEF IInv, TypeOK
<1>2. CASE WriteBytes(h, data)  BY <1>2, WriteBytesInv
<1>3. CASE WriteWrapped(h, data)
  <2>1. /\ UNCHANGED tables /\ status' = "fault"
        /\ last' = [call |-> "write", val |-> -1, data |-> <<>>]
    BY <1>3 DEF WriteWrapped, Abort, Return
  <2>2. OnlyReadsPanic'  BY <2>1 DEF OnlyReadsPanic
  <2> QED  BY <2>1, <2>2, KeepsTables
<1> QED  BY <1>1, <1>2, <1>3 DEF tfs_write

LEMMA ReadInv ==
    ASSUME IInv, status = "running", NEW h \in CallHandles,
           NEW len \in 0 .. MaxTransfer, tfs_read(h, len)
    PROVE  IInv'
<1>1. CASE ReadNothing(h, len)
  <2>1. /\ UNCHANGED <<tables, status>>
        /\ last' = [call |-> "read", val |-> -1, data |-> <<>>]
           \/ last' = [call |-> "read", val |-> 0, data |-> <<>>]
    BY <1>1 DEF ReadNothing, Return
  <2>2. last' \in [call : {"read"}, val : Int, data : Seq(Bytes \cup {Junk, DirData})]
    <3>1. PICK v \in {-1, 0} : last' = [call |-> "read", val |-> v, data |-> <<>>]
      BY <2>1
    <3> QED  BY <3>1
  <2>3. OnlyReadsPanic'  BY <2>1 DEF OnlyReadsPanic
  <2> QED  BY <2>1, <2>2, <2>3, KeepsTables DEF IInv, TypeOK
<1>2. CASE ReadBytes(h, len) /\ \E how \in {"panic", "fault"} : Abort(how, "read")
  <2>1. PICK how \in {"panic", "fault"} :
            /\ UNCHANGED tables /\ status' = how
            /\ last' = [call |-> "read", val |-> -1, data |-> <<>>]
    BY <1>2 DEF Abort, Return
  <2>2. OnlyReadsPanic'  BY <2>1 DEF OnlyReadsPanic
  <2> QED  BY <2>1, <2>2, KeepsTables
<1>3. CASE ReadBytes(h, len) /\ ~\E how \in {"panic", "fault"} : Abort(how, "read")
  <2> DEFINE offset == open_file_table[h].of_offset
             n == ReadCount(h, len)
             start == BlockAddress(inode[open_file_table[h].of_inumber].i_data_block,
                                   offset)
             copy == [k \in 1 .. n |-> IF start + k - 1 \in Addresses
                                       THEN fs_data[start + k - 1] ELSE Junk]
  <2>1. /\ h \in Handles /\ n > 0 /\ offset + n <= OffsetBound
        /\ last' = [call |-> "read", val |-> n, data |-> copy]
        /\ open_file_table' = [open_file_table EXCEPT ![h].of_offset = @ + n]
        /\ UNCHANGED <<inode, freeinode_ts, fs_data, free_blocks, dir,
                       free_open_file_entries, status>>
    BY <1>3 DEF ReadBytes, Return, IsOpen
  <2>2. n \in Nat
    <3> DEFINE gap == inode[open_file_table[h].of_inumber].i_size - offset
    <3>1. gap \in Int  BY <2>1 DEF IInv, TypeOK
    <3>2. gap % SizeModulus \in Nat
      <4> HIDE DEF gap
      <4> QED  BY <3>1, CountAssumption
    <3>3. n = IF gap % SizeModulus > len THEN len ELSE gap % SizeModulus
      BY DEF ReadCount
    <3> HIDE DEF gap, n
    <3> QED  BY <3>2, <3>3, CountAssumption
  <2>3. copy \in Seq(Bytes \cup {Junk, DirData})
    <3>1. ASSUME NEW k \in 1 .. n PROVE copy[k] \in Bytes \cup {Junk, DirData}
      BY DEF IInv, TypeOK
    <3> HIDE DEF n, start
    <3> QED  BY <2>2, <3>1
  <2>4. offset \in Nat /\ offset + n \in Nat /\ offset + n <= BlockSize + OffsetBound
    <3>1. offset \in Nat  BY <2>1 DEF IInv, TypeOK
    <3> HIDE DEF offset, n
    <3> QED  BY <2>1, <2>2, <3>1, CountAssumption
  <2> HIDE DEF copy, n
  <2>5. TypeOK'
    <3>1. open_file_table' \in [Handles -> [of_inumber : INums, of_offset : Nat]]
      <4>1. open_file_table \in [Handles -> [of_inumber : INums, of_offset : Nat]]
        BY DEF IInv, TypeOK
      <4>2. open_file_table[h].of_offset + n \in Nat  BY <2>4
      <4> QED  BY <2>1, <4>1, <4>2
    <3>2. last' \in [call : {"read"}, val : Int,
                     data : Seq(Bytes \cup {Junk, DirData})]
      BY <2>1, <2>2, <2>3
    <3> QED  BY <2>1, <3>1, <3>2 DEF IInv, TypeOK
  <2>6. RootIntact' /\ SizedHasBlock' /\ SizesBounded'
    BY <2>1 DEF IInv, RootIntact, RootBlock, Live, SizedHasBlock, SizesBounded
  <2>7. DirectoryConsistent' /\ BlocksNeverShared'
    BY <2>1 DEF IInv, DirectoryConsistent, BlocksNeverShared, Entries, Live
  <2>8. HandlesOnFiles' /\ OffsetsBounded'
    BY <2>1, <2>4 DEF IInv, TypeOK, HandlesOnFiles, OffsetsBounded, IsOpen
  <2>9. OnlyReadsPanic'  BY <2>1 DEF OnlyReadsPanic
  <2> QED  BY <2>5, <2>6, <2>7, <2>8, <2>9 DEF IInv
<1> QED  BY <1>1, <1>2, <1>3 DEF tfs_read

\* The entry that is cleared is the only one that led to the deleted inode.
LEMMA UnlinkInv ==
    ASSUME IInv, status = "running", NEW name \in Paths, tfs_unlink(name)
    PROVE  IInv'
<1>1. CASE UnlinkRefused(name)
  <2>1. /\ last' = [call |-> "unlink", val |-> -1, data |-> <<>>]
        /\ UNCHANGED <<tables, status>>
    BY <1>1 DEF UnlinkRefused, Return
  <2>2. OnlyReadsPanic'  BY <2>1 DEF OnlyReadsPanic
  <2> QED  BY <2>1, <2>2, KeepsTables
<1>2. CASE Unlink(name)
  <2> DEFINE inum == tfs_lookup(name)
             slot == Min({s \in Slots : dir[s].d_name = name})
  <2>1. PICK e \in Entries : /\ dir[e].d_name = name /\ dir[e].d_inumber = inum
                             /\ inum \in Files /\ Live(inum)
    BY <1>2, LookupFound DEF Unlink, IInv
  <2>2. slot = e
    <3>1. {s \in Slots : dir[s].d_name = name} = {e}
      <4>1. ASSUME NEW s \in Slots, dir[s].d_name = name PROVE s = e
        <5>1. s \in Entries  BY <4>1, NameAssumption DEF IInv, DirectoryConsistent
        <5> QED  BY <2>1, <4>1, <5>1 DEF IInv, DirectoryConsistent
      <4> QED  BY <2>1, <4>1 DEF Entries
    <3>2. {e} \in SUBSET Nat  BY CountAssumption DEF Entries, Slots
    <3> QED  BY <3>1, <3>2, MinIn
  <2>3. /\ freeinode_ts' = [freeinode_ts EXCEPT ![inum] = "FREE"]
        /\ free_blocks' = IF inode[inum].i_size > 0
                          THEN [free_blocks EXCEPT ![inode[inum].i_data_block] = "FREE"]
                          ELSE free_blocks
        /\ dir' = [dir EXCEPT ![e] = [d_name |-> NoName, d_inumber |-> -1]]
        /\ last' = [call |-> "unlink", val |-> 0, data |-> <<>>]
        /\ UNCHANGED <<inode, fs_data, open_file_table, free_open_file_entries, status>>
    BY <1>2, <2>1, <2>2, FreesABlock DEF Unlink, OwnsBlock, Live, clear_dir_entry, Return
  <2> HIDE DEF inum, slot
  <2>4. /\ inum \in INums /\ inum # ROOT_DIR_INUM /\ e \in Slots
        /\ freeinode_ts[inum] = "TAKEN"
    BY <2>1 DEF Files, Entries, Live
  <2>5. \A i \in INums : freeinode_ts'[i] = IF i = inum THEN "FREE" ELSE freeinode_ts[i]
    BY <2>3, <2>4 DEF IInv, TypeOK
  <2>6. \A c \in BlockNumbers :
            free_blocks'[c] = IF inode[inum].i_size > 0 /\ c = inode[inum].i_data_block
                              THEN "FREE" ELSE free_blocks[c]
    BY <2>3, <2>4 DEF IInv, TypeOK, SizedHasBlock
  <2>7. \A s \in Slots : dir'[s] = IF s = e THEN [d_name |-> NoName, d_inumber |-> -1]
                                   ELSE dir[s]
    BY <2>3, <2>4 DEF IInv, TypeOK
  <2>8. TypeOK'
    <3>1. freeinode_ts' \in [INums -> AllocationState]
      BY <2>3 DEF IInv, TypeOK, AllocationState
    <3>2. free_blocks' \in [BlockNumbers -> AllocationState]
      BY <2>3 DEF IInv, TypeOK, AllocationState
    <3>3. dir' \in [Slots -> [d_name : Paths \cup {NoName}, d_inumber : INums \cup {-1}]]
      BY <2>3 DEF IInv, TypeOK
    <3> QED  BY <2>3, <3>1, <3>2, <3>3 DEF IInv, TypeOK
  <2>9. RootIntact'
    <3>1. ROOT_DIR_INUM \in INums  BY CountAssumption DEF INums, ROOT_DIR_INUM
    <3> QED  BY <2>1, <2>3, <2>4, <2>5, <2>6, <3>1
             DEF IInv, RootIntact, RootBlock, Live, Files
  <2>10. DirectoryConsistent'
    <3>1. Entries' = Entries \ {e}  BY <2>4, <2>7 DEF Entries
    <3>2. \A s \in Entries' : /\ dir'[s] = dir[s]
                              /\ dir[s].d_inumber \in Files
                              /\ dir[s].d_inumber # inum
                              /\ Live(dir[s].d_inumber)
      BY <2>1, <2>7, <3>1 DEF IInv, DirectoryConsistent, Entries
    <3>3. \A i \in Files : freeinode_ts'[i] = "TAKEN" =>
              \E s \in Entries' : dir'[s].d_inumber = i
      BY <2>1, <2>5, <3>1, <3>2 DEF IInv, DirectoryConsistent, Live, Files
    <3>4. \A s \in Slots \ Entries' : dir'[s].d_name = NoName
      BY <2>7, <3>1 DEF IInv, DirectoryConsistent
    <3>5. \A s \in Entries' : /\ dir'[s].d_inumber \in Files
                              /\ freeinode_ts'[dir'[s].d_inumber] = "TAKEN"
      BY <2>5, <3>2 DEF Live, Files
    <3>6. \A s, t \in Entries' : s # t => /\ dir'[s].d_inumber # dir'[t].d_inumber
                                         /\ dir'[s].d_name # dir'[t].d_name
      BY <3>1, <3>2 DEF IInv, DirectoryConsistent
    <3> QED  BY <3>3, <3>4, <3>5, <3>6 DEF DirectoryConsistent, Live
  <2>11. BlocksNeverShared'
    BY <2>3, <2>4, <2>5, <2>6 DEF IInv, BlocksNeverShared, Live
  <2>12. SizedHasBlock' /\ SizesBounded'
    BY <2>3 DEF IInv, SizedHasBlock, SizesBounded
  <2>13. HandlesOnFiles' /\ OffsetsBounded'
    BY <2>3 DEF IInv, HandlesOnFiles, OffsetsBounded, IsOpen
  <2>14. OnlyReadsPanic'  BY <2>3 DEF OnlyReadsPanic
  <2> QED  BY <2>8, <2>9, <2>10, <2>11, <2>12, <2>13, <2>14 DEF IInv
<1> QED  BY <1>1, <1>2 DEF tfs_unlink

LEMMA StutterInv == IInv /\ UNCHANGED vars => IInv'
<1> SUFFICES ASSUME IInv, UNCHANGED vars PROVE IInv'  OBVIOUS
<1>1. UNCHANGED tables /\ OnlyReadsPanic' /\ status' = status /\ last' = last
  BY DEF IInv, vars, OnlyReadsPanic
<1> QED  BY <1>1, KeepsTables DEF IInv, TypeOK

LEMMA NextInv == IInv /\ [Next]_vars => IInv'
<1> SUFFICES ASSUME IInv, [Next]_vars PROVE IInv'  OBVIOUS
<1>1. CASE UNCHANGED vars  BY <1>1, StutterInv
<1>2. ASSUME status = "running", NEW name \in Paths, NEW mode \in Modes,
             tfs_open(name, mode)
      PROVE  IInv'
  BY <1>2, OpenRefusedInv, OpenExistingInv, CreateRefusedInv, CreateInv DEF tfs_open
<1>3. ASSUME status = "running", NEW h \in CallHandles, tfs_close(h) PROVE IInv'
  BY <1>3, CloseInv
<1>4. ASSUME status = "running", NEW h \in CallHandles, NEW data \in Buffers,
             tfs_write(h, data)
      PROVE  IInv'
  BY <1>4, WriteInv
<1>5. ASSUME status = "running", NEW h \in CallHandles, NEW len \in 0 .. MaxTransfer,
             tfs_read(h, len)
      PROVE  IInv'
  BY <1>5, ReadInv
<1>6. ASSUME status = "running", NEW name \in Paths, tfs_unlink(name) PROVE IInv'
  BY <1>6, UnlinkInv
<1> QED  BY <1>1, <1>2, <1>3, <1>4, <1>5, <1>6 DEF Next

-----------------------------------------------------------------------------
(* The theorems *)

\* The invariant holds in every state of every client's behaviour.
THEOREM Invariant == Spec => []IInv
<1> QED  BY InitInv, NextInv, PTL DEF Spec

\* Every variable keeps its type: no inumber, block number, handle or count
\* leaves its range, whatever the calls (all of operations.c and state.c).
THEOREM TypeCorrect == Spec => []TypeOK
<1>1. IInv => TypeOK  BY DEF IInv
<1> QED  BY <1>1, Invariant, PTL

\* Directory entries and live files correspond one to one after any sequence
\* of calls, failed creations and unlinks of open files included.
THEOREM DirectoryStaysConsistent == Spec => []DirectoryConsistent
<1>1. IInv => DirectoryConsistent  BY DEF IInv
<1> QED  BY <1>1, Invariant, PTL

\* No block ever belongs to two live files, or to a live file while it is free.
THEOREM BlocksStayPrivate == Spec => []BlocksNeverShared
<1>1. IInv => BlocksNeverShared  BY DEF IInv
<1> QED  BY <1>1, Invariant, PTL

\* The only assertion a sequence of calls can fire is the one of tfs_read.
THEOREM AssertionsHoldOutsideRead == Spec => []OnlyReadsPanic
<1>1. IInv => OnlyReadsPanic  BY DEF IInv
<1> QED  BY <1>1, Invariant, PTL

\* A write leaves every block but the one it goes to as it is.
LEMMA OtherBlocksKept ==
    ASSUME IInv, NEW h \in CallHandles, NEW data \in Buffers,
           NEW b \in BlockNumbers, NEW i \in Files, NEW n \in 1 .. Len(data),
           WriteEffect(h, data, b, i, n),
           NEW c \in BlockNumbers, c # b, NEW k \in 0 .. BlockSize - 1
    PROVE  fs_data'[c * BlockSize + k] = fs_data[c * BlockSize + k]
<1> DEFINE offset == open_file_table[h].of_offset
           a == c * BlockSize + k
<1>1. /\ offset \in Nat /\ n \in Nat /\ offset + n <= BlockSize
      /\ fs_data' = [d \in Addresses |->
             IF d - (b * BlockSize + offset) \in 0 .. n - 1
             THEN data[d - (b * BlockSize + offset) + 1] ELSE fs_data[d]]
  BY DEF WriteEffect, IInv, TypeOK, BlockAddress
<1>2. a \in Addresses
  <2>1. c \in Nat /\ c + 1 <= MaxBlockCount
    BY CountAssumption DEF BlockNumbers
  <2> DEFINE rest == MaxBlockCount - 1 - c
  <2>2. rest \in Nat /\ MaxBlockCount = c + 1 + rest
    BY <2>1, CountAssumption
  <2> HIDE DEF rest
  <2>3. MaxBlockCount * BlockSize = c * BlockSize + BlockSize + rest * BlockSize
    BY <2>1, <2>2, CountAssumption
  <2>4. rest * BlockSize \in Nat /\ c * BlockSize \in Nat
    BY <2>1, <2>2, CountAssumption
  <2> QED  BY <2>3, <2>4, CountAssumption DEF Addresses
<1>3. a - (b * BlockSize + offset) \notin 0 .. n - 1
  <2> SUFFICES ASSUME a - (b * BlockSize + offset) \in 0 .. n - 1 PROVE FALSE
    OBVIOUS
  <2> DEFINE m == a - b * BlockSize
  <2>1. b \in Nat /\ c \in Nat  BY DEF BlockNumbers
  <2>2. b * BlockSize \in Nat /\ c * BlockSize \in Nat
    BY <2>1, CountAssumption
  <2> DEFINE p == b * BlockSize
             q == c * BlockSize
  <2>3. m \in 0 .. BlockSize - 1 /\ p + m = q + k
    <3>1. m = (q + k) - p  BY Zenon
    <3>2. (q + k) - (p + offset) \in 0 .. n - 1  BY Zenon
    <3>3. p \in Nat /\ q \in Nat  BY <2>2
    <3> HIDE DEF m, p, q, offset
    <3> QED  BY <3>1, <3>2, <3>3, <1>1, CountAssumption
  <2> HIDE DEF m, a
  <2> QED  BY <2>1, <2>3, BlocksDisjoint, CountAssumption
<1> QED  BY <1>1, <1>2, <1>3

\* Of all the calls, only a tfs_write that copies bytes changes fs_data.
LEMMA OnlyWritesStore ==
    ASSUME IInv, Next
    PROVE  \/ UNCHANGED fs_data
           \/ \E h \in CallHandles, data \in Buffers, b \in BlockNumbers,
                 i \in Files : \E n \in 1 .. Len(data) :
                 WriteEffect(h, data, b, i, n)
<1>1. \/ UNCHANGED fs_data
      \/ \E h \in CallHandles, data \in Buffers : WriteBytes(h, data)
  BY DEF Next, tfs_open, OpenRefused, OpenExisting, CreateRefused, Create,
     tfs_close, tfs_write, WriteNothing, WriteWrapped, tfs_read, ReadNothing,
     ReadBytes, tfs_unlink, UnlinkRefused, Unlink, Abort, tables
<1>2. ASSUME NEW h \in CallHandles, NEW data \in Buffers, WriteBytes(h, data)
      PROVE  \E b \in BlockNumbers, i \in Files : \E n \in 1 .. Len(data) :
                 WriteEffect(h, data, b, i, n)
  BY <1>2, WriteBytesEffect
<1> QED  BY <1>1, <1>2

\* No call stores a byte in the directory's block, although handles outlive
\* their files and their offsets can pass the end of the block (tfs_write).
THEOREM DirectoryBlockKept == Spec => DirectoryBlockIsolated
<1> DEFINE Kept == \A k \in 0 .. BlockSize - 1 :
                      LET a == RootBlock * BlockSize + k IN fs_data'[a] = fs_data[a]
<1>1. IInv /\ [Next]_vars => [Kept]_vars
  <2> SUFFICES ASSUME IInv, Next PROVE Kept
    BY DEF vars, tables
  <2>1. ASSUME NEW h \in CallHandles, NEW data \in Buffers,
               NEW b \in BlockNumbers, NEW i \in Files, NEW n \in 1 .. Len(data),
               WriteEffect(h, data, b, i, n)
        PROVE  Kept
    <3>1. RootBlock \in BlockNumbers /\ b # RootBlock
      BY <2>1 DEF WriteEffect, IInv, RootIntact
    <3> HIDE DEF RootBlock
    <3> QED  BY <2>1, <3>1, OtherBlocksKept
  <2> QED  BY <2>1, OnlyWritesStore
<1> QED  BY <1>1, Invariant, PTL DEF Spec, DirectoryBlockIsolated

\* The bytes of a live file change only by a write through a handle of its own
\* or through one that is left of an unlinked file, whose freed inode still leads
\* to a block (tfs_write, inode_delete): blocks are never shared by live files,
\* and a write without a block takes a free one.
THEOREM ForeignWritesHaveCause == Spec => ForeignWriteHasCause
<1> DEFINE Foreign(i) ==
               /\ Live(i) /\ inode[i].i_size > 0
               /\ \E k \in 0 .. BlockSize - 1 :
                      LET a == BlockAddress(inode[i].i_data_block, k)
                      IN  fs_data'[a] # fs_data[a]
           Cause(i) ==
               \E h \in Handles :
                   /\ last'.call = "write" /\ open_file_table'[h] # open_file_table[h]
                   /\ \/ open_file_table[h].of_inumber = i
                      \/ ~Live(open_file_table[h].of_inumber)
           Caused == \A i \in Files : Foreign(i) => Cause(i)
<1>1. IInv /\ [Next]_vars => [Caused]_vars
  <2> SUFFICES ASSUME IInv, Next, NEW i \in Files, Foreign(i) PROVE Cause(i)
    BY DEF vars, tables
  <2>0. PICK h \in CallHandles, data \in Buffers, b \in BlockNumbers, j \in Files :
            \E n \in 1 .. Len(data) : WriteEffect(h, data, b, j, n)
    BY OnlyWritesStore
  <2>1. PICK n \in 1 .. Len(data) : WriteEffect(h, data, b, j, n)  BY <2>0
  <2>2. b = inode[i].i_data_block
    <3>1. inode[i].i_data_block \in BlockNumbers
      BY DEF IInv, BlocksNeverShared, Files
    <3> QED  BY <2>1, <3>1, OtherBlocksKept DEF BlockAddress
  <2>3. i = j \/ ~Live(j)
    <3>1. free_blocks[b] = "TAKEN"
      BY <2>2 DEF IInv, BlocksNeverShared, Files
    <3>2. inode[j].i_size > 0 /\ b = inode[j].i_data_block
      BY <2>1, <3>1 DEF WriteEffect, IInv, TypeOK, Files
    <3> QED  BY <2>2, <3>2 DEF IInv, BlocksNeverShared, Files
  <2>4. /\ h \in Handles /\ j = open_file_table[h].of_inumber
        /\ last'.call = "write"
        /\ open_file_table' = [open_file_table EXCEPT ![h].of_offset =
                                   open_file_table[h].of_offset + n]
    BY <2>1 DEF WriteEffect
  <2>5. open_file_table'[h] # open_file_table[h]
    <3>1. /\ open_file_table \in [Handles -> [of_inumber : INums, of_offset : Nat]]
          /\ n \in Nat /\ n > 0
      BY DEF IInv, TypeOK
    <3>2. open_file_table'[h].of_offset = open_file_table[h].of_offset + n
      BY <2>4, <3>1
    <3> QED  BY <2>4, <3>1, <3>2
  <2> QED  BY <2>3, <2>4, <2>5
<1> QED  BY <1>1, Invariant, PTL DEF Spec, ForeignWriteHasCause

-----------------------------------------------------------------------------
(* What the calls do for one handle, or for one name, whatever other clients *)
(* have done.  The broker's sessions are such clients.                      *)

\* The handle is in use, and its offset is not behind the end of its file.
Inside(h) ==
    IsOpen(h) /\ open_file_table[h].of_offset
                     <= inode[open_file_table[h].of_inumber].i_size

\* A size_t holds any offset within a block.
LEMMA BlockFits == BlockSize < SizeModulus
<1>1. PICK k \in Nat : MaxBlockCount = k + 1
  <2>1. MaxBlockCount - 1 \in Nat /\ MaxBlockCount = (MaxBlockCount - 1) + 1
    BY CountAssumption
  <2> QED  BY <2>1
<1>2. MaxBlockCount * BlockSize = k * BlockSize + BlockSize
  BY <1>1, CountAssumption
<1>3. k * BlockSize \in Nat  BY CountAssumption
<1> QED  BY <1>2, <1>3, ModulusAssumption, CountAssumption

\* Inside the file the count of tfs_write cannot wrap.
LEMMA WriteNeverWraps ==
    ASSUME IInv, NEW h \in CallHandles, NEW data \in Buffers, Inside(h)
    PROVE  WriteCount(h, data) <= Len(data) /\ WriteCount(h, data) \in Nat
<1> DEFINE offset == open_file_table[h].of_offset
           i == open_file_table[h].of_inumber
<1>1. h \in Handles /\ i \in INums /\ offset \in Nat
  BY DEF IInv, TypeOK, Inside, IsOpen
<1>2. offset <= BlockSize
  <2>1. offset <= inode[i].i_size  BY <1>1 DEF Inside
  <2>2. inode[i].i_size <= BlockSize /\ inode[i].i_size \in Nat
    BY <1>1 DEF IInv, TypeOK, SizesBounded
  <2> QED  BY <1>1, <2>1, <2>2, CountAssumption
<1>3. Len(data) \in Nat  BY CountAssumption DEF Buffers
<1>4. BlockSize - offset < SizeModulus  BY <1>1, BlockFits, CountAssumption
<1>5. WriteCount(h, data) = IF Len(data) + offset > BlockSize
                            THEN (BlockSize - offset) % SizeModulus ELSE Len(data)
  BY DEF WriteCount
<1> HIDE DEF offset
<1>6. (BlockSize - offset) % SizeModulus = BlockSize - offset
  BY <1>1, <1>2, <1>4, CountAssumption
<1> QED  BY <1>1, <1>2, <1>3, <1>5, <1>6, CountAssumption

\* Such a write copies bytes into a block, or changes nothing.
LEMMA WriteOutcome ==
    ASSUME IInv, NEW h \in CallHandles, NEW data \in Buffers, Inside(h),
           tfs_write(h, data)
    PROVE  \/ UNCHANGED <<tables, status>>
           \/ \E b \in BlockNumbers, i \in Files, n \in 1 .. Len(data) :
                  WriteEffect(h, data, b, i, n)
<1>1. CASE WriteNothing(h, data)  BY <1>1 DEF WriteNothing
<1>2. CASE WriteBytes(h, data)  BY <1>2, WriteBytesEffect
<1>3. CASE WriteWrapped(h, data)
  <2>1. WriteCount(h, data) > Len(data)  BY <1>3 DEF WriteWrapped
  <2>2. Len(data) \in Nat  BY CountAssumption DEF Buffers
  <2> QED  BY <2>1, <2>2, WriteNeverWraps
<1> QED  BY <1>1, <1>2, <1>3 DEF tfs_write

\* Inside the file the count of tfs_read cannot wrap either.
LEMMA ReadNeverWraps ==
    ASSUME IInv, NEW h \in CallHandles, NEW len \in 0 .. MaxTransfer, Inside(h)
    PROVE  LET file == open_file_table[h]
           IN  /\ ReadCount(h, len) \in Nat
               /\ file.of_offset + ReadCount(h, len)
                      <= inode[file.of_inumber].i_size
<1> DEFINE offset == open_file_table[h].of_offset
           size == inode[open_file_table[h].of_inumber].i_size
<1>1. h \in Handles /\ offset \in Nat /\ size \in Nat /\ offset <= size
  BY DEF IInv, TypeOK, Inside, IsOpen
<1>2. size <= BlockSize
  <2>1. open_file_table[h].of_inumber \in INums  BY <1>1 DEF IInv, TypeOK
  <2> QED  BY <2>1 DEF IInv, SizesBounded
<1>3. BlockSize < SizeModulus  BY BlockFits
<1>4. ReadCount(h, len) = IF (size - offset) % SizeModulus > len THEN len
                          ELSE (size - offset) % SizeModulus
  BY DEF ReadCount
<1> HIDE DEF size, offset
<1>5. (size - offset) % SizeModulus = size - offset
  BY <1>1, <1>2, <1>3, CountAssumption
<1>6. ReadCount(h, len) \in Nat /\ offset + ReadCount(h, len) <= size
  BY <1>1, <1>4, <1>5, CountAssumption
<1> QED  BY <1>6 DEF size, offset

\* Such a read starts in the file's own block and ends there: it moves the
\* handle, no further than the end of the file, and aborts nothing.
LEMMA ReadOutcome ==
    ASSUME IInv, NEW h \in CallHandles, NEW len \in 0 .. MaxTransfer, Inside(h),
           tfs_read(h, len)
    PROVE  /\ UNCHANGED <<inode, freeinode_ts, fs_data, free_blocks, dir,
                          free_open_file_entries, status>>
           /\ h \in Handles
           /\ \A g \in Handles : g # h => open_file_table'[g] = open_file_table[g]
           /\ open_file_table'[h].of_inumber = open_file_table[h].of_inumber
           /\ open_file_table'[h].of_offset
                  <= inode[open_file_table[h].of_inumber].i_size
<1>1. CASE ReadNothing(h, len)
  BY <1>1 DEF ReadNothing, tables, Inside, IsOpen
<1>2. CASE ReadBytes(h, len)
  <2> DEFINE i == open_file_table[h].of_inumber
             offset == open_file_table[h].of_offset
             b == inode[i].i_data_block
             n == ReadCount(h, len)
             start == BlockAddress(b, offset)
  <2>1. IsOpen(h) /\ h \in Handles /\ n > 0
    BY <1>2 DEF ReadBytes, IsOpen
  <2>2. /\ n \in Nat /\ offset \in Nat /\ i \in INums
        /\ inode[i].i_size \in Nat /\ offset + n <= inode[i].i_size
        /\ inode[i].i_size <= BlockSize
    <3>1. offset \in Nat /\ i \in INums  BY <2>1 DEF IInv, TypeOK
    <3>2. inode[i].i_size \in Nat /\ inode[i].i_size <= BlockSize
      BY <3>1 DEF IInv, TypeOK, SizesBounded
    <3> QED  BY <2>1, <3>1, <3>2, ReadNeverWraps
  <2> HIDE DEF n
  <2>3. inode[i].i_size > 0 /\ offset + n <= BlockSize
    <3> HIDE DEF i, offset
    <3> QED  BY <2>1, <2>2, CountAssumption
  <2>4. b \in BlockNumbers  BY <2>2, <2>3 DEF IInv, SizedHasBlock
  <2>5. start + n - 1 \in Addresses
    <3> HIDE DEF i, offset, b
    <3>1. start = b * BlockSize + offset  BY DEF BlockAddress
    <3>2. b \in Nat /\ b + 1 <= MaxBlockCount
      BY <2>4, CountAssumption DEF BlockNumbers
    <3> HIDE DEF start
    <3> DEFINE rest == MaxBlockCount - 1 - b
    <3>3. rest \in Nat /\ MaxBlockCount = b + 1 + rest
      BY <3>2, CountAssumption
    <3> HIDE DEF rest
    <3>4. MaxBlockCount * BlockSize = b * BlockSize + BlockSize + rest * BlockSize
      BY <3>2, <3>3, CountAssumption
    <3>5. rest * BlockSize \in Nat /\ b * BlockSize \in Nat
      BY <3>2, <3>3, CountAssumption
    <3> QED  BY <2>1, <2>2, <2>3, <3>1, <3>4, <3>5, CountAssumption DEF Addresses
  <2>6. /\ open_file_table' = [open_file_table EXCEPT ![h].of_offset = @ + n]
        /\ UNCHANGED <<inode, freeinode_ts, fs_data, free_blocks, dir,
                       free_open_file_entries, status>>
    BY <1>2, <2>4, <2>5 DEF ReadBytes, n
  <2>7. \A g \in Handles :
            /\ open_file_table'[g].of_inumber = open_file_table[g].of_inumber
            /\ g # h => open_file_table'[g] = open_file_table[g]
            /\ open_file_table'[g].of_offset = IF g = h THEN offset + n
                                               ELSE open_file_table[g].of_offset
    BY <2>1, <2>6 DEF IInv, TypeOK
  <2> QED  BY <2>1, <2>2, <2>6, <2>7
<1> QED  BY <1>1, <1>2 DEF tfs_read

\* An entry's name leads to the entry's inode: names are unique.
NamesFound ==
    \A s \in Entries : (dir[s].d_name \in Paths \ InvalidPaths) =>
        tfs_lookup(dir[s].d_name) = dir[s].d_inumber

LEMMA LookupIs == IInv => NamesFound
<1> SUFFICES ASSUME IInv, NEW s \in Entries, dir[s].d_name \in Paths \ InvalidPaths
             PROVE  tfs_lookup(dir[s].d_name) = dir[s].d_inumber
  BY DEF NamesFound
<1> DEFINE hits == {t \in Slots : /\ dir[t].d_inumber # -1
                                  /\ dir[t].d_name = dir[s].d_name}
<1>1. s \in hits /\ hits \in SUBSET Nat  BY CountAssumption DEF Entries, Slots
<1>2. Min(hits) \in hits  BY <1>1, MinIn
<1>3. Min(hits) = s  BY <1>2 DEF IInv, DirectoryConsistent, Entries
<1>4. tfs_lookup(dir[s].d_name) = dir[Min(hits)].d_inumber
  BY <1>1 DEF tfs_lookup, valid_pathname, find_in_dir
<1> HIDE DEF hits
<1> QED  BY <1>3, <1>4

\* In the next state too.
LEMMA LookupIsNext == IInv' => NamesFound'
BY LookupIs, PTL

\* A name keeps its file while its entry stays.
LEMMA LookupKept ==
    ASSUME IInv, IInv', NEW name \in Paths, tfs_lookup(name) # -1,
           \A s \in Entries : dir[s].d_name = name => dir'[s] = dir[s]
    PROVE  tfs_lookup(name)' = tfs_lookup(name)
<1>1. PICK s \in Entries : /\ dir[s].d_name = name
                           /\ dir[s].d_inumber = tfs_lookup(name)
  BY LookupFound DEF IInv
<1>2. dir'[s] = dir[s]  BY <1>1
<1>3. s \in Entries'  BY <1>2 DEF Entries
<1>4. name \notin InvalidPaths  BY DEF tfs_lookup, valid_pathname
<1> QED  BY <1>1, <1>2, <1>3, <1>4, LookupIsNext DEF NamesFound

\* Opening a file that is not truncated leaves the files that are there alone,
\* and the handle, if there is one left, is inside the file: at its end when it
\* is opened to append.
OpenEffect(name, h, offset) ==
    /\ h \in Handles /\ free_open_file_entries[h] = "FREE"
    /\ free_open_file_entries' = [free_open_file_entries EXCEPT ![h] = "TAKEN"]
    /\ open_file_table' = [open_file_table EXCEPT
           ![h] = [of_inumber |-> tfs_lookup(name)', of_offset |-> offset]]
    /\ last'.val = h

LEMMA OpenOutcome ==
    ASSUME IInv, IInv', NEW name \in Paths, NEW mode \in Modes, "TRUNC" \notin mode,
           tfs_open(name, mode)
    PROVE  /\ UNCHANGED <<fs_data, free_blocks, status>>
           /\ \A i \in INums : Live(i) => inode'[i] = inode[i] /\ Live(i)'
           /\ \A s \in Entries : dir'[s] = dir[s]
           /\ \A i \in INums : Live(i)' => \/ Live(i)
                                           \/ inode'[i].i_size = 0
           /\ \/ /\ last'.val = -1
                 /\ UNCHANGED <<open_file_table, free_open_file_entries>>
              \/ \E h \in Handles, offset \in Nat :
                     /\ OpenEffect(name, h, offset)
                     /\ tfs_lookup(name)' \in Files
                     /\ offset <= inode'[tfs_lookup(name)'].i_size
                     /\ "APPEND" \in mode =>
                            offset = inode'[tfs_lookup(name)'].i_size
<1>1. CASE OpenRefused(name, mode)
  BY <1>1 DEF OpenRefused, Return, tables, Live
<1>2. CASE OpenExisting(name, mode)
  <2> DEFINE inum == tfs_lookup(name)
             size == inode[inum].i_size
             offset == IF "APPEND" \in mode THEN size ELSE 0
  <2>1. inum \in Files /\ inum \in INums /\ inum # -1
    BY <1>2, LookupFound DEF OpenExisting, IInv, Files
  <2>2. SizeAfterTrunc(inum, mode) = size /\ ~Truncates(inum, mode)
    BY DEF SizeAfterTrunc, Truncates
  <2>3. /\ inode' = [inode EXCEPT ![inum].i_size = size]
        /\ add_to_open_file_table(inum, offset)
        /\ UNCHANGED <<freeinode_ts, fs_data, dir, status, free_blocks>>
    BY <1>2, <2>2 DEF OpenExisting
  <2>4. size \in Nat  BY <2>1 DEF IInv, TypeOK
  <2>5. inode' = inode
    BY <2>1, <2>3 DEF IInv, TypeOK
  <2>6. tfs_lookup(name)' = inum  BY <2>1, <2>3, LookupKept
  <2>7. offset \in Nat /\ offset <= size /\ ("APPEND" \in mode => offset = size)
    BY <2>4
  <2> HIDE DEF offset, inum
  <2>8. \/ /\ last'.val = -1
           /\ UNCHANGED <<open_file_table, free_open_file_entries>>
        \/ \E h \in Handles : OpenEffect(name, h, offset)
    <3>1. CASE Free(free_open_file_entries) = {}
      BY <2>3, <3>1 DEF add_to_open_file_table, Return
    <3>2. CASE Free(free_open_file_entries) # {}
      <4>1. /\ Min(Free(free_open_file_entries)) \in Handles
            /\ free_open_file_entries[Min(Free(free_open_file_entries))] = "FREE"
        BY <3>2, FreeEntry, CountAssumption DEF IInv, TypeOK, Handles
      <4> QED  BY <2>3, <2>6, <3>2, <4>1 DEF add_to_open_file_table, Return, OpenEffect
    <3> QED  BY <3>1, <3>2
  <2> QED  BY <2>1, <2>3, <2>5, <2>6, <2>7, <2>8 DEF Live
<1>3. CASE CreateRefused(name, mode)
  <2>1. /\ last'.val = -1
        /\ UNCHANGED <<freeinode_ts, fs_data, free_blocks, dir, open_file_table,
                       free_open_file_entries, status>>
    BY <1>3 DEF CreateRefused, Return
  <2>2. \A i \in INums : Live(i) => inode'[i] = inode[i]
    <3>1. CASE inode' = inode  BY <3>1
    <3>2. CASE inode' # inode
      <4> DEFINE inum == Min(Free(freeinode_ts))
      <4>1. Free(freeinode_ts) # {} /\ inode' = [inode EXCEPT ![inum] = NewFile]
        BY <1>3, <3>2 DEF CreateRefused
      <4>2. inum \in INums /\ ~Live(inum)
        BY <4>1, FreeEntry, CountAssumption DEF IInv, TypeOK, INums, Live
      <4> HIDE DEF inum
      <4> QED  BY <4>1, <4>2 DEF IInv, TypeOK
    <3> QED  BY <3>1, <3>2
  <2> QED  BY <2>1, <2>2 DEF Live
<1>4. CASE Create(name, mode)
  <2> DEFINE inum == Min(Free(freeinode_ts))
             slot == Min(EmptySlots)
  <2>1. /\ valid_pathname(name) /\ tfs_lookup(name) = -1
        /\ Free(freeinode_ts) # {} /\ EmptySlots # {} /\ "CREAT" \in mode
        /\ inode' = [inode EXCEPT ![inum] = NewFile]
        /\ freeinode_ts' = [freeinode_ts EXCEPT ![inum] = "TAKEN"]
        /\ dir' = [dir EXCEPT ![slot] = [d_name |-> name, d_inumber |-> inum]]
        /\ add_to_open_file_table(inum, 0)
        /\ UNCHANGED <<fs_data, free_blocks, status>>
    BY <1>4 DEF Create, CanAddEntry, add_dir_entry
  <2>2. inum \in INums /\ freeinode_ts[inum] = "FREE"
    BY <2>1, FreeEntry, CountAssumption DEF IInv, TypeOK, INums
  <2>3. slot \in Slots /\ dir[slot].d_inumber = -1
    <3>1. EmptySlots \in SUBSET Nat  BY CountAssumption DEF EmptySlots, Slots
    <3> QED  BY <2>1, <3>1, MinIn DEF EmptySlots
  <2> HIDE DEF inum, slot
  <2>4. ~Live(inum) /\ inum \in Files /\ inum # -1
    BY <2>2, CountAssumption DEF IInv, RootIntact, Live, Files, INums
  <2>5. /\ \A i \in INums : Live(i) => inode'[i] = inode[i] /\ Live(i)'
        /\ \A i \in INums : Live(i)' => Live(i) \/ i = inum
        /\ inode'[inum].i_size = 0
        /\ \A s \in Entries : dir'[s] = dir[s]
        /\ slot \in Entries' /\ dir'[slot] = [d_name |-> name, d_inumber |-> inum]
    BY <2>1, <2>2, <2>3, <2>4 DEF IInv, TypeOK, Live, NewFile, Entries
  <2>6. tfs_lookup(name)' = inum
    BY <2>1, <2>5, LookupIsNext DEF NamesFound, valid_pathname
  <2>7. \/ /\ last'.val = -1
           /\ UNCHANGED <<open_file_table, free_open_file_entries>>
        \/ \E h \in Handles : OpenEffect(name, h, 0)
    <3>1. CASE Free(free_open_file_entries) = {}
      BY <2>1, <3>1 DEF add_to_open_file_table, Return
    <3>2. CASE Free(free_open_file_entries) # {}
      <4>1. /\ Min(Free(free_open_file_entries)) \in Handles
            /\ free_open_file_entries[Min(Free(free_open_file_entries))] = "FREE"
        BY <3>2, FreeEntry, CountAssumption DEF IInv, TypeOK, Handles
      <4> QED  BY <2>1, <2>6, <3>2, <4>1 DEF add_to_open_file_table, Return, OpenEffect
    <3> QED  BY <3>1, <3>2
  <2> QED  BY <2>1, <2>4, <2>5, <2>6, <2>7
<1> QED  BY <1>1, <1>2, <1>3, <1>4 DEF tfs_open

\* The tables after a write of n bytes: one size may grow, and one handle moves.
WriteEnd(h, n) == open_file_table[h].of_offset + n

SizeAfterWrite(h, i, n) ==
    IF WriteEnd(h, n) > inode[i].i_size THEN WriteEnd(h, n) ELSE inode[i].i_size

WriteTables(h, b, i, n) ==
    /\ n \in Nat /\ n > 0
    /\ WriteEnd(h, n) \in Nat /\ SizeAfterWrite(h, i, n) \in Nat
    /\ \A j \in INums :
           /\ inode'[j].i_size = IF j = i THEN SizeAfterWrite(h, i, n)
                                 ELSE inode[j].i_size
           /\ inode'[j].i_data_block = IF j = i THEN b ELSE inode[j].i_data_block
    /\ \A g \in Handles :
           /\ open_file_table'[g].of_inumber = open_file_table[g].of_inumber
           /\ open_file_table'[g].of_offset =
                  IF g = h THEN WriteEnd(h, n) ELSE open_file_table[g].of_offset
    /\ UNCHANGED <<freeinode_ts, dir, free_open_file_entries, status>>

LEMMA WriteMoves ==
    ASSUME IInv, NEW h, NEW data \in Buffers, NEW b \in BlockNumbers, NEW i \in Files,
           NEW n \in 1 .. Len(data), WriteEffect(h, data, b, i, n)
    PROVE  WriteTables(h, b, i, n)
<1> DEFINE end  == WriteEnd(h, n)
           size == SizeAfterWrite(h, i, n)
           node == [inode[i] EXCEPT !.i_data_block = b, !.i_size = size]
           file == [open_file_table[h] EXCEPT !.of_offset = end]
<1>1. n \in Nat /\ n > 0 /\ h \in Handles /\ i \in INums
  BY CountAssumption DEF WriteEffect, Files, Buffers
<1>2. end \in Nat /\ size \in Nat
  BY <1>1 DEF IInv, TypeOK, WriteEnd, SizeAfterWrite
<1>3. /\ inode' = [inode EXCEPT ![i] = node]
      /\ open_file_table' = [open_file_table EXCEPT ![h] = file]
      /\ UNCHANGED <<freeinode_ts, dir, free_open_file_entries, status>>
  BY <1>1 DEF WriteEffect, IInv, TypeOK, WriteEnd, SizeAfterWrite
<1> HIDE DEF end, size
<1>4. node.i_size = size /\ node.i_data_block = b
  <2>1. inode[i] \in [i_node_type : {"T_FILE", "T_DIRECTORY"}, i_size : Nat,
                      i_data_block : BlockNumbers \cup {-1}]
    BY <1>1 DEF IInv, TypeOK
  <2> QED  BY <2>1
<1>5. file.of_offset = end /\ file.of_inumber = open_file_table[h].of_inumber
  <2>1. open_file_table[h] \in [of_inumber : INums, of_offset : Nat]
    BY <1>1 DEF IInv, TypeOK
  <2> QED  BY <1>1, <2>1
<1> HIDE DEF node, file
<1>6. \A j \in INums :
          /\ inode'[j].i_size = IF j = i THEN size ELSE inode[j].i_size
          /\ inode'[j].i_data_block = IF j = i THEN b ELSE inode[j].i_data_block
  BY <1>1, <1>3, <1>4 DEF IInv, TypeOK
<1>7. \A g \in Handles :
          /\ open_file_table'[g].of_inumber = open_file_table[g].of_inumber
          /\ open_file_table'[g].of_offset =
                 IF g = h THEN end ELSE open_file_table[g].of_offset
  BY <1>1, <1>3, <1>5 DEF IInv, TypeOK
<1> QED  BY <1>1, <1>2, <1>3, <1>6, <1>7 DEF end, size, WriteTables

\* tfs_unlink takes away the entry of the name, and no other; the inode it
\* deletes was in use, so inode_delete's assertion holds.
LEMMA UnlinkOutcome ==
    ASSUME IInv, NEW name \in Paths, tfs_unlink(name)
    PROVE  /\ UNCHANGED <<inode, fs_data, open_file_table, free_open_file_entries,
                          status>>
           /\ \A s \in Entries : dir[s].d_name # name => dir'[s] = dir[s]
           /\ tfs_lookup(name) # -1 => \A s \in Entries' : dir'[s].d_name # name
<1>1. CASE UnlinkRefused(name)  BY <1>1 DEF UnlinkRefused, tables
<1>2. CASE Unlink(name)
  <2>1. PICK e \in Entries : /\ dir[e].d_name = name
                             /\ Live(tfs_lookup(name)) /\ tfs_lookup(name) # -1
    BY <1>2, LookupFound DEF Unlink, IInv
  <2> DEFINE hits == {s \in Slots : dir[s].d_name = name}
  <2>2. hits = {e}
    <3>1. ASSUME NEW s \in Slots, dir[s].d_name = name PROVE s = e
      <4>1. s \in Entries  BY <3>1, NameAssumption DEF IInv, DirectoryConsistent
      <4> QED  BY <2>1, <3>1, <4>1 DEF IInv, DirectoryConsistent
    <3> QED  BY <2>1, <3>1 DEF Entries
  <2>3. Min(hits) = e
    <3>1. {e} \in SUBSET Nat  BY CountAssumption DEF Entries, Slots
    <3> HIDE DEF hits
    <3> QED  BY <2>2, <3>1, MinIn
  <2>4. /\ dir' = [dir EXCEPT ![e] = [d_name |-> NoName, d_inumber |-> -1]]
        /\ UNCHANGED <<inode, fs_data, open_file_table, free_open_file_entries, status>>
    BY <1>2, <2>1, <2>3, FreesABlock DEF Unlink, Live, clear_dir_entry
  <2>5. \A s \in Slots : dir'[s] = IF s = e THEN [d_name |-> NoName, d_inumber |-> -1]
                                   ELSE dir[s]
    BY <2>4 DEF IInv, TypeOK
  <2>6. \A s \in Entries : dir[s].d_name # name => dir'[s] = dir[s]
    BY <2>1, <2>5 DEF Entries
  <2>7. \A s \in Entries' : dir'[s].d_name # name
    <3> SUFFICES ASSUME NEW s \in Slots, dir'[s].d_inumber # -1
                 PROVE  dir'[s].d_name # name
      BY DEF Entries
    <3>1. s # e /\ dir'[s] = dir[s]  BY <2>5
    <3> QED  BY <2>2, <3>1
  <2> QED  BY <2>4, <2>6, <2>7
<1> QED  BY <1>1, <1>2 DEF tfs_unlink

-----------------------------------------------------------------------------
(* Disciplined clients: they never truncate or unlink an open file, as the *)
(* broker is meant to.  Whatever the limits, no call of theirs aborts, no  *)
(* handle passes the end of its file and no block is lost.  Their calls    *)
(* are calls of Spec too, so IInv is at hand.                              *)

\* The inductive invariant of DisciplinedSpec.
DInv == IInv /\ OffsetWithinSize /\ NoBlockLeak /\ NeverAborts

-----------------------------------------------------------------------------
(* What the calls do *)

\* Calls that leave the tables and the process alone.
LEMMA QuietStep ==
    ASSUME DInv, UNCHANGED <<tables, status>>
    PROVE  OffsetWithinSize' /\ NoBlockLeak' /\ NeverAborts'
BY DEF DInv, tables, OffsetWithinSize, NoBlockLeak, NeverAborts, IsOpen, Live

\* tfs_open hands out a handle inside the file, or none.
LEMMA NewHandle ==
    ASSUME DInv, NEW inum \in Files, NEW offset \in 0 .. BlockSize,
           add_to_open_file_table(inum, offset),
           NEW h \in Handles, IsOpen(h)'
    PROVE  \/ IsOpen(h) /\ open_file_table'[h] = open_file_table[h]
           \/ open_file_table'[h] = [of_inumber |-> inum, of_offset |-> offset]
<1>1. CASE Free(free_open_file_entries) = {}
  BY <1>1 DEF add_to_open_file_table, IsOpen
<1>2. CASE Free(free_open_file_entries) # {}
  <2> DEFINE g == Min(Free(free_open_file_entries))
  <2>1. g \in Handles
    BY <1>2, FreeEntry, CountAssumption DEF DInv, IInv, TypeOK, Handles
  <2>2. /\ free_open_file_entries' = [free_open_file_entries EXCEPT ![g] = "TAKEN"]
        /\ open_file_table' = [open_file_table EXCEPT ![g] =
                                  [of_inumber |-> inum, of_offset |-> offset]]
    BY <1>2 DEF add_to_open_file_table
  <2> HIDE DEF g
  <2> QED  BY <2>1, <2>2 DEF DInv, IInv, TypeOK, IsOpen
<1> QED  BY <1>1, <1>2

\* A file that is truncated has no handle to be left behind its end.
LEMMA OpenExistingKeeps ==
    ASSUME DInv, NEW name \in Paths, NEW mode \in Modes,
           "TRUNC" \in mode => ~InUse(name), OpenExisting(name, mode)
    PROVE  OffsetWithinSize' /\ NoBlockLeak' /\ NeverAborts'
<1> DEFINE inum == tfs_lookup(name)
           size == SizeAfterTrunc(inum, mode)
           old  == inode[inum]
           offset == IF "APPEND" \in mode THEN size ELSE 0
<1>1. inum \in Files /\ Live(inum) /\ inum \in INums
  BY LookupFound DEF OpenExisting, DInv, IInv, Files
<1>2. /\ inode' = [inode EXCEPT ![inum].i_size = size]
      /\ free_blocks' = IF Truncates(inum, mode)
                        THEN [free_blocks EXCEPT ![old.i_data_block] = "FREE"]
                        ELSE free_blocks
      /\ add_to_open_file_table(inum, offset)
      /\ UNCHANGED <<freeinode_ts, fs_data, dir, status>>
  BY FreesABlock DEF OpenExisting, DInv
<1>3. Truncates(inum, mode) =>
          \A h \in Handles : IsOpen(h) => open_file_table[h].of_inumber # inum
  BY DEF Truncates, InUse
<1> HIDE DEF inum
<1>4. /\ old.i_size \in 0 .. BlockSize
      /\ old.i_size > 0 => old.i_data_block \in BlockNumbers
  BY <1>1, CountAssumption DEF DInv, IInv, TypeOK, SizesBounded, SizedHasBlock
<1>5. /\ size \in 0 .. BlockSize
      /\ size = IF Truncates(inum, mode) THEN 0 ELSE old.i_size
      /\ Truncates(inum, mode) => old.i_size > 0
  BY <1>4, CountAssumption DEF SizeAfterTrunc, Truncates
<1> HIDE DEF size, old
<1>6. offset \in 0 .. BlockSize /\ offset <= size
  BY <1>5, CountAssumption
<1> HIDE DEF offset
<1>7. \A i \in INums : /\ inode'[i].i_data_block = inode[i].i_data_block
                       /\ inode'[i].i_size = IF i = inum THEN size
                                             ELSE inode[i].i_size
  BY <1>1, <1>2 DEF DInv, IInv, TypeOK
<1>8. OffsetWithinSize'
  <2> SUFFICES ASSUME NEW h \in Handles, IsOpen(h)'
               PROVE  LET file == open_file_table'[h]
                      IN  /\ freeinode_ts'[file.of_inumber] = "TAKEN"
                          /\ file.of_offset <= inode'[file.of_inumber].i_size
    BY DEF OffsetWithinSize, Live
  <2>1. CASE IsOpen(h) /\ open_file_table'[h] = open_file_table[h]
    <3> DEFINE i == open_file_table[h].of_inumber
    <3>1. /\ i \in INums /\ Live(i) /\ open_file_table[h].of_offset <= inode[i].i_size
          /\ Truncates(inum, mode) => i # inum
      BY <1>3, <2>1 DEF DInv, IInv, TypeOK, OffsetWithinSize
    <3>2. inode'[i].i_size = inode[i].i_size
      BY <1>5, <1>7, <3>1 DEF old
    <3> QED  BY <1>2, <2>1, <3>1, <3>2 DEF Live
  <2>2. CASE open_file_table'[h] = [of_inumber |-> inum, of_offset |-> offset]
    BY <1>1, <1>2, <1>6, <1>7, <2>2 DEF Live
  <2> QED  BY <1>1, <1>2, <1>6, <2>1, <2>2, NewHandle
<1>9. NoBlockLeak'
  <2> SUFFICES ASSUME NEW b \in BlockNumbers, free_blocks'[b] = "TAKEN"
               PROVE  \E i \in INums : /\ freeinode_ts'[i] = "TAKEN"
                                       /\ inode'[i].i_size > 0
                                       /\ inode'[i].i_data_block = b
    BY DEF NoBlockLeak, Live
  <2>1. /\ free_blocks[b] = "TAKEN"
        /\ Truncates(inum, mode) => b # old.i_data_block
    BY <1>2, <1>4, <1>5 DEF DInv, IInv, TypeOK
  <2>2. PICK i \in INums : Live(i) /\ inode[i].i_size > 0 /\ inode[i].i_data_block = b
    BY <2>1 DEF DInv, NoBlockLeak
  <2>3. inode'[i].i_size = inode[i].i_size
    BY <1>5, <1>7, <2>1, <2>2 DEF old
  <2> QED  BY <1>2, <1>7, <2>2, <2>3 DEF Live
<1> QED  BY <1>2, <1>8, <1>9 DEF DInv, NeverAborts

\* inode_create and inode_delete in a failed creation touch a free inode only.
LEMMA CreateRefusedKeeps ==
    ASSUME DInv, NEW name \in Paths, NEW mode \in Modes, CreateRefused(name, mode)
    PROVE  OffsetWithinSize' /\ NoBlockLeak' /\ NeverAborts'
<1>1. CASE inode' = inode
  <2>1. UNCHANGED <<tables, status>>  BY <1>1 DEF CreateRefused, tables
  <2> QED  BY <2>1, QuietStep
<1>2. CASE inode' # inode
  <2> DEFINE inum == Min(Free(freeinode_ts))
  <2>1. /\ Free(freeinode_ts) # {} /\ inode' = [inode EXCEPT ![inum] = NewFile]
        /\ UNCHANGED <<freeinode_ts, free_blocks, open_file_table,
                       free_open_file_entries, status>>
    BY <1>2 DEF CreateRefused
  <2>2. inum \in INums /\ ~Live(inum)
    BY <2>1, FreeEntry, CountAssumption DEF DInv, IInv, TypeOK, INums, Live
  <2> HIDE DEF inum
  <2>3. \A i \in INums : Live(i) => inode'[i] = inode[i]
    BY <2>1, <2>2 DEF DInv, IInv, TypeOK
  <2>4. OffsetWithinSize'
    <3>1. \A h \in Handles : open_file_table[h].of_inumber \in INums
      BY DEF DInv, IInv, TypeOK
    <3> QED  BY <2>1, <2>3, <3>1 DEF DInv, OffsetWithinSize, IsOpen, Live
  <2>5. NoBlockLeak'  BY <2>1, <2>3 DEF DInv, NoBlockLeak, Live
  <2> QED  BY <2>1, <2>4, <2>5 DEF DInv, NeverAborts
<1> QED  BY <1>1, <1>2

\* A new file takes an inode nobody has a handle of.
LEMMA CreateKeeps ==
    ASSUME DInv, NEW name \in Paths, NEW mode \in Modes, Create(name, mode)
    PROVE  OffsetWithinSize' /\ NoBlockLeak' /\ NeverAborts'
<1> DEFINE inum == Min(Free(freeinode_ts))
<1>1. /\ Free(freeinode_ts) # {}
      /\ inode' = [inode EXCEPT ![inum] = NewFile]
      /\ freeinode_ts' = [freeinode_ts EXCEPT ![inum] = "TAKEN"]
      /\ add_to_open_file_table(inum, 0)
      /\ UNCHANGED <<fs_data, free_blocks, status>>
  BY DEF Create
<1>2. inum \in INums /\ freeinode_ts[inum] = "FREE"
  BY <1>1, FreeEntry, CountAssumption DEF DInv, IInv, TypeOK, INums
<1> HIDE DEF inum
<1>3. ~Live(inum) /\ inum \in Files
  BY <1>2 DEF DInv, IInv, RootIntact, Live, Files
<1>4. /\ \A i \in INums : Live(i) => /\ inode'[i] = inode[i]
                                     /\ freeinode_ts'[i] = "TAKEN"
      /\ inode'[inum].i_size = 0 /\ freeinode_ts'[inum] = "TAKEN"
  BY <1>1, <1>2, <1>3 DEF DInv, IInv, TypeOK, Live, NewFile
<1>5. OffsetWithinSize'
  <2> SUFFICES ASSUME NEW h \in Handles, IsOpen(h)'
               PROVE  LET file == open_file_table'[h]
                      IN  /\ freeinode_ts'[file.of_inumber] = "TAKEN"
                          /\ file.of_offset <= inode'[file.of_inumber].i_size
    BY DEF OffsetWithinSize, Live
  <2>1. CASE IsOpen(h) /\ open_file_table'[h] = open_file_table[h]
    <3>1. open_file_table[h].of_inumber \in INums  BY DEF DInv, IInv, TypeOK
    <3> QED  BY <1>4, <2>1, <3>1 DEF DInv, OffsetWithinSize
  <2>2. CASE open_file_table'[h] = [of_inumber |-> inum, of_offset |-> 0]
    BY <1>4, <2>2
  <2>3. 0 \in 0 .. BlockSize  BY CountAssumption
  <2> QED  BY <1>1, <1>3, <2>1, <2>2, <2>3, NewHandle
<1>6. NoBlockLeak'  BY <1>1, <1>4 DEF DInv, NoBlockLeak, Live
<1> QED  BY <1>1, <1>5, <1>6 DEF DInv, NeverAborts

\* tfs_close only frees a handle.
LEMMA CloseKeeps ==
    ASSUME DInv, NEW h \in CallHandles, tfs_close(h)
    PROVE  OffsetWithinSize' /\ NoBlockLeak' /\ NeverAborts'
<1>1. /\ UNCHANGED <<inode, freeinode_ts, free_blocks, open_file_table, status>>
      /\ \A g \in Handles : IsOpen(g)' => IsOpen(g)
  BY DEF tfs_close, DInv, IInv, TypeOK, IsOpen
<1> QED
  BY <1>1 DEF DInv, OffsetWithinSize, NoBlockLeak, NeverAborts, Live

\* A write moves its handle no further than the size it leaves, and its block
\* belongs to its file.
LEMMA WriteKeeps ==
    ASSUME DInv, NEW h \in CallHandles, NEW data \in Buffers, tfs_write(h, data)
    PROVE  OffsetWithinSize' /\ NoBlockLeak' /\ NeverAborts'
<1>1. CASE UNCHANGED <<tables, status>>
  BY <1>1, QuietStep
<1>2. CASE WriteBytes(h, data)
  <2>1. PICK b \in BlockNumbers, i \in Files, n \in 1 .. Len(data) :
            WriteEffect(h, data, b, i, n)
    BY <1>2, WriteBytesEffect DEF DInv
  <2> DEFINE end  == WriteEnd(h, n)
             size == SizeAfterWrite(h, i, n)
  <2>2. h \in Handles /\ i = open_file_table[h].of_inumber /\ i \in INums /\ IsOpen(h)
    BY <1>2, <2>1 DEF WriteEffect, Files, WriteBytes
  <2>3. WriteTables(h, b, i, n)  BY <2>1, WriteMoves DEF DInv
  <2>4. /\ IF inode[i].i_size = 0 THEN free_blocks[b] = "FREE"
           ELSE b = inode[i].i_data_block
        /\ free_blocks' = [free_blocks EXCEPT ![b] =
                               IF inode[i].i_size = 0 THEN "TAKEN" ELSE @]
    BY <2>1 DEF WriteEffect
  <2>5. inode[i].i_size \in Nat /\ open_file_table[h].of_offset \in Nat
    BY <2>2 DEF DInv, IInv, TypeOK
  <2>6. end > 0 /\ size >= end /\ size >= inode[i].i_size
    BY <2>3, <2>5 DEF WriteTables, WriteEnd, SizeAfterWrite
  <2> HIDE DEF end, size
  <2>7. OffsetWithinSize'
    <3> SUFFICES ASSUME NEW g \in Handles, IsOpen(g)
                 PROVE  LET f == open_file_table'[g]
                        IN  /\ Live(f.of_inumber)
                            /\ f.of_offset <= inode'[f.of_inumber].i_size
      BY <2>3 DEF WriteTables, OffsetWithinSize, IsOpen, Live
    <3>1. /\ open_file_table[g].of_inumber \in INums
          /\ open_file_table[g].of_offset \in Nat
          /\ Live(open_file_table[g].of_inumber)
          /\ open_file_table[g].of_offset
                 <= inode[open_file_table[g].of_inumber].i_size
      BY DEF DInv, IInv, TypeOK, OffsetWithinSize
    <3> QED  BY <2>2, <2>3, <2>5, <2>6, <3>1 DEF WriteTables, end, size
  <2>8. NoBlockLeak'
    <3> SUFFICES ASSUME NEW c \in BlockNumbers, free_blocks'[c] = "TAKEN"
                 PROVE  \E j \in INums : /\ Live(j) /\ inode'[j].i_size > 0
                                         /\ inode'[j].i_data_block = c
      BY <2>3 DEF WriteTables, NoBlockLeak, Live
    <3>1. CASE c = b
      <4>1. Live(i)  BY <2>2 DEF DInv, OffsetWithinSize
      <4> QED  BY <2>2, <2>3, <2>5, <2>6, <3>1, <4>1 DEF WriteTables, end, size
    <3>2. CASE c # b
      <4>1. free_blocks[c] = "TAKEN"  BY <2>4, <3>2 DEF DInv, IInv, TypeOK
      <4>2. PICK j \in INums : Live(j) /\ inode[j].i_size > 0
                               /\ inode[j].i_data_block = c
        BY <4>1 DEF DInv, NoBlockLeak
      <4>3. j # i  BY <2>4, <3>2, <4>2
      <4> QED  BY <2>3, <4>2, <4>3 DEF WriteTables
    <3> QED  BY <3>1, <3>2
  <2> QED  BY <2>3, <2>7, <2>8 DEF WriteTables, DInv, NeverAborts
<1>3. CASE WriteWrapped(h, data)
  <2>1. Inside(h)  BY <1>3 DEF WriteWrapped, DInv, OffsetWithinSize, Inside, IsOpen
  <2>2. Len(data) \in Nat  BY CountAssumption DEF Buffers
  <2> QED  BY <1>3, <2>1, <2>2, WriteNeverWraps DEF WriteWrapped, DInv
<1> QED  BY <1>1, <1>2, <1>3 DEF tfs_write, WriteNothing

\* A read starts in the file's own block and ends there.
LEMMA ReadKeeps ==
    ASSUME DInv, NEW h \in CallHandles, NEW len \in 0 .. MaxTransfer, tfs_read(h, len)
    PROVE  OffsetWithinSize' /\ NoBlockLeak' /\ NeverAborts'
<1>1. CASE ~IsOpen(h)
  BY <1>1, QuietStep DEF tfs_read, ReadNothing, ReadBytes
<1>2. CASE IsOpen(h)
  <2>1. Inside(h)  BY <1>2 DEF DInv, OffsetWithinSize, Inside, IsOpen
  <2>2. /\ UNCHANGED <<inode, freeinode_ts, free_blocks, free_open_file_entries,
                       status>>
        /\ \A g \in Handles : g # h => open_file_table'[g] = open_file_table[g]
        /\ open_file_table'[h].of_inumber = open_file_table[h].of_inumber
        /\ open_file_table'[h].of_offset
               <= inode[open_file_table[h].of_inumber].i_size
    BY <2>1, ReadOutcome DEF DInv
  <2>3. OffsetWithinSize'
    BY <2>2 DEF DInv, OffsetWithinSize, IsOpen, Live
  <2> QED  BY <2>2, <2>3 DEF DInv, NoBlockLeak, NeverAborts, Live
<1> QED  BY <1>1, <1>2

\* The inode that is deleted has no handle, and takes its block along.
LEMMA UnlinkKeeps ==
    ASSUME DInv, NEW name \in Paths, ~InUse(name), tfs_unlink(name)
    PROVE  OffsetWithinSize' /\ NoBlockLeak' /\ NeverAborts'
<1>1. CASE UnlinkRefused(name)
  BY <1>1, QuietStep DEF UnlinkRefused
<1>2. CASE Unlink(name)
  <2> DEFINE inum == tfs_lookup(name)
  <2>1. inum \in Files /\ Live(inum) /\ inum \in INums
    BY <1>2, LookupFound DEF Unlink, DInv, IInv, Files
  <2>2. /\ freeinode_ts' = [freeinode_ts EXCEPT ![inum] = "FREE"]
        /\ free_blocks' = IF inode[inum].i_size > 0
                          THEN [free_blocks EXCEPT ![inode[inum].i_data_block] = "FREE"]
                          ELSE free_blocks
        /\ UNCHANGED <<inode, open_file_table, free_open_file_entries, status>>
    BY <1>2, <2>1, FreesABlock DEF Unlink, OwnsBlock, Live, DInv
  <2>3. \A h \in Handles : IsOpen(h) => open_file_table[h].of_inumber # inum
    BY DEF InUse
  <2> HIDE DEF inum
  <2>4. \A i \in INums : i # inum => freeinode_ts'[i] = freeinode_ts[i]
    BY <2>1, <2>2 DEF DInv, IInv, TypeOK
  <2>5. OffsetWithinSize'
    <3>1. \A h \in Handles : open_file_table[h].of_inumber \in INums
      BY DEF DInv, IInv, TypeOK
    <3> QED  BY <2>2, <2>3, <2>4, <3>1 DEF DInv, OffsetWithinSize, IsOpen, Live
  <2>6. NoBlockLeak'
    <3> SUFFICES ASSUME NEW b \in BlockNumbers, free_blocks'[b] = "TAKEN"
                 PROVE  \E i \in INums : /\ freeinode_ts'[i] = "TAKEN"
                                         /\ inode[i].i_size > 0
                                         /\ inode[i].i_data_block = b
      BY <2>2 DEF NoBlockLeak, Live
    <3>1. /\ free_blocks[b] = "TAKEN"
          /\ ~(inode[inum].i_size > 0 /\ b = inode[inum].i_data_block)
      BY <2>1, <2>2 DEF DInv, IInv, TypeOK, SizedHasBlock
    <3>2. PICK i \in INums : Live(i) /\ inode[i].i_size > 0 /\ inode[i].i_data_block = b
      BY <3>1 DEF DInv, NoBlockLeak
    <3> QED  BY <2>4, <3>1, <3>2 DEF Live
  <2> QED  BY <2>2, <2>5, <2>6 DEF DInv, NeverAborts
<1> QED  BY <1>1, <1>2 DEF tfs_unlink

-----------------------------------------------------------------------------
(* The theorems *)

LEMMA InitDInv == Init => DInv
<1> SUFFICES ASSUME Init PROVE DInv  OBVIOUS
<1>1. IInv  BY InitInv
<1>2. OffsetWithinSize /\ NeverAborts
  BY DEF Init, OffsetWithinSize, IsOpen, NeverAborts
<1>3. NoBlockLeak
  <2>1. ROOT_DIR_INUM \in INums  BY CountAssumption DEF INums, ROOT_DIR_INUM
  <2>2. \A b \in BlockNumbers : free_blocks[b] = "TAKEN" => b = 0
    BY DEF Init
  <2>3. Live(ROOT_DIR_INUM) /\ inode[ROOT_DIR_INUM].i_data_block = 0
    BY <2>1 DEF Init, Live
  <2>4. inode[ROOT_DIR_INUM].i_size > 0  BY <2>1, CountAssumption DEF Init
  <2> QED  BY <2>1, <2>2, <2>3, <2>4 DEF NoBlockLeak
<1> QED  BY <1>1, <1>2, <1>3 DEF DInv

\* What disciplined clients call is what any client may call.
LEMMA DisciplinedStep == DisciplinedNext => Next
BY DEF DisciplinedNext, Next

LEMMA DisciplinedKeeps == DInv /\ [DisciplinedNext]_vars => DInv'
<1> SUFFICES ASSUME DInv, [DisciplinedNext]_vars PROVE DInv'  OBVIOUS
<1>1. IInv'  BY DisciplinedStep, NextInv DEF DInv
<1> SUFFICES OffsetWithinSize' /\ NoBlockLeak' /\ NeverAborts'
  BY <1>1 DEF DInv
<1>2. CASE UNCHANGED vars  BY <1>2, QuietStep DEF vars
<1>3. ASSUME NEW name \in Paths, NEW mode \in Modes,
             "TRUNC" \in mode => ~InUse(name), tfs_open(name, mode)
      PROVE  OffsetWithinSize' /\ NoBlockLeak' /\ NeverAborts'
  <2>1. CASE OpenRefused(name, mode)  BY <2>1, QuietStep DEF OpenRefused
  <2> QED  BY <1>3, <2>1, OpenExistingKeeps, CreateRefusedKeeps, CreateKeeps
           DEF tfs_open
<1>4. ASSUME NEW h \in CallHandles, tfs_close(h)
      PROVE  OffsetWithinSize' /\ NoBlockLeak' /\ NeverAborts'
  BY <1>4, CloseKeeps
<1>5. ASSUME NEW h \in CallHandles, NEW data \in Buffers, tfs_write(h, data)
      PROVE  OffsetWithinSize' /\ NoBlockLeak' /\ NeverAborts'
  BY <1>5, WriteKeeps
<1>6. ASSUME NEW h \in CallHandles, NEW len \in 0 .. MaxTransfer, tfs_read(h, len)
      PROVE  OffsetWithinSize' /\ NoBlockLeak' /\ NeverAborts'
  BY <1>6, ReadKeeps
<1>7. ASSUME NEW name \in Paths, ~InUse(name), tfs_unlink(name)
      PROVE  OffsetWithinSize' /\ NoBlockLeak' /\ NeverAborts'
  BY <1>7, UnlinkKeeps
<1> QED  BY <1>2, <1>3, <1>4, <1>5, <1>6, <1>7 DEF DisciplinedNext

\* The invariant holds in every state that disciplined clients reach.
THEOREM DisciplinedInvariant == DisciplinedSpec => []DInv
<1> QED  BY InitDInv, DisciplinedKeeps, PTL DEF DisciplinedSpec

\* As long as nobody truncates or unlinks an open file, an open handle stays on
\* a live file and inside its contents (tfs_read, tfs_write, tfs_open).
THEOREM OffsetsStayInside == DisciplinedSpec => []OffsetWithinSize
<1>1. DInv => OffsetWithinSize  BY DEF DInv
<1> QED  BY <1>1, DisciplinedInvariant, PTL

\* Such clients never lose a block: what is allocated belongs to a file, so
\* that unlinking it gives the block back (tfs_write, inode_delete).
THEOREM NoBlockIsLost == DisciplinedSpec => []NoBlockLeak
<1>1. DInv => NoBlockLeak  BY DEF DInv
<1> QED  BY <1>1, DisciplinedInvariant, PTL

\* Such clients meet no assertion and no copy past fs_data.
THEOREM DisciplineAvertsAborts == DisciplinedSpec => []NeverAborts
<1>1. DInv => NeverAborts  BY DEF DInv
<1> QED  BY <1>1, DisciplinedInvariant, PTL

=============================================================================
