------------------------------ MODULE MonitorFS ------------------------------
(***************************************************************************)
(* TecnicoFS as the message broker links it (ProjetoSO2/ProjetoSO/fs): an  *)
(* in-memory file system with one directory, files of at most one block,   *)
(* and one mutex, g_library_mutex, held for the whole of tfs_open,         *)
(* tfs_close, tfs_read, tfs_write and tfs_unlink.  The mutex makes each    *)
(* call one step, so a behaviour here is any interleaving of the calls of  *)
(* any number of threads.                                                  *)
(*                                                                         *)
(* The tables are the ones of state.c.  fs_data is one array of bytes, as  *)
(* in the code, so that a block number or an offset that goes wrong lands  *)
(* in another block here too; the directory's block is kept apart in dir,  *)
(* and its addresses of fs_data hold DirData until something overwrites    *)
(* them.                                                                   *)
(***************************************************************************)
EXTENDS Integers, Sequences, FiniteSets, FiniteSetsExt

CONSTANTS
    Paths,              \* the path names clients use
    InvalidPaths,       \* those that valid_pathname refuses
    LongPaths,          \* those longer than MAX_FILE_NAME - 1
    Bytes,              \* what clients write
    Junk, DirData,      \* a byte nobody wrote; a byte of the directory block
    NoName,             \* the empty d_name
    MaxInodeCount, MaxBlockCount, MaxOpenFilesCount, BlockSize,  \* tfs_params
    MaxDirEntries,      \* MAX_DIR_ENTRIES: BlockSize / sizeof(dir_entry_t)
    SizeModulus,        \* size_t wraps here (2^64 in the program)
    MaxTransfer,        \* bound: bytes per tfs_read or tfs_write
    OffsetBound         \* bound: reads past the end stop at this offset

ASSUME CountAssumption ==
    /\ MaxInodeCount \in Nat \ {0} /\ MaxBlockCount \in Nat \ {0}
    /\ MaxOpenFilesCount \in Nat /\ MaxDirEntries \in Nat
    /\ BlockSize \in Nat \ {0}
    /\ MaxTransfer \in Nat /\ OffsetBound \in Nat /\ SizeModulus \in Nat \ {0}

ASSUME ModulusAssumption ==
    SizeModulus > MaxBlockCount * BlockSize + OffsetBound + MaxTransfer

ASSUME NameAssumption ==
    InvalidPaths \subseteq Paths /\ LongPaths \subseteq Paths /\ NoName \notin Paths

ASSUME ByteAssumption == Junk \notin Bytes /\ DirData \notin Bytes

VARIABLES
    inode, freeinode_ts,                        \* inode table
    fs_data, free_blocks, dir,                  \* data blocks, directory
    open_file_table, free_open_file_entries,    \* open file table
    status,                                     \* of the process
    last                                        \* what the last call returned

tables == <<inode, freeinode_ts, fs_data, free_blocks, dir, open_file_table,
            free_open_file_entries>>
vars == <<tables, status, last>>

ROOT_DIR_INUM == 0
INums == 0 .. MaxInodeCount - 1
BlockNumbers == 0 .. MaxBlockCount - 1
Handles == 0 .. MaxOpenFilesCount - 1
Slots == 0 .. MaxDirEntries - 1
Addresses == 0 .. MaxBlockCount * BlockSize - 1
Modes == SUBSET {"CREAT", "TRUNC", "APPEND"}
AllocationState == {"FREE", "TAKEN"}

TypeOK ==
    /\ inode \in [INums -> [i_node_type : {"T_FILE", "T_DIRECTORY"},
                            i_size : Nat,
                            i_data_block : BlockNumbers \cup {-1}]]
    /\ freeinode_ts \in [INums -> AllocationState]
    /\ fs_data \in [Addresses -> Bytes \cup {Junk, DirData}]
    /\ free_blocks \in [BlockNumbers -> AllocationState]
    /\ dir \in [Slots -> [d_name : Paths \cup {NoName},
                          d_inumber : INums \cup {-1}]]
    /\ open_file_table \in [Handles -> [of_inumber : INums, of_offset : Nat]]
    /\ free_open_file_entries \in [Handles -> AllocationState]
    /\ status \in {"running", "panic", "fault"}
    /\ last \in [call : {"init", "open", "close", "read", "write", "unlink"},
                 val : Int,
                 data : Seq(Bytes \cup {Junk, DirData})]

-----------------------------------------------------------------------------
(* Tables *)

Free(table) == {i \in DOMAIN table : table[i] = "FREE"}

\* Mutant: the copy starts at the block, not at the handle's offset.
BlockStart(b, offset) == b * BlockSize

BlockAddress(b, offset) == b * BlockSize + offset

RootBlock == inode[ROOT_DIR_INUM].i_data_block

valid_pathname(name) == name \notin InvalidPaths

find_in_dir(sub_name) ==
    LET hits == {s \in Slots : /\ dir[s].d_inumber # -1
                               /\ dir[s].d_name = sub_name}
    IN  IF hits = {} THEN -1 ELSE dir[Min(hits)].d_inumber

\* The root is a directory from tfs_init on (RootIntact), so the checks of
\* i_node_type in the three directory functions always succeed.
tfs_lookup(name) == IF valid_pathname(name) THEN find_in_dir(name) ELSE -1

EmptySlots == {s \in Slots : dir[s].d_inumber = -1}

CanAddEntry(sub_name) == sub_name \notin LongPaths /\ EmptySlots # {}

add_dir_entry(sub_name, inum) ==
    dir' = [dir EXCEPT ![Min(EmptySlots)] = [d_name |-> sub_name,
                                             d_inumber |-> inum]]

\* Mutant: the name is cleared, d_inumber is not.
clear_name_only(sub_name) ==
    LET hits == {s \in Slots : dir[s].d_name = sub_name}
    IN  dir' = [dir EXCEPT ![Min(hits)].d_name = NoName]

\* Entries are cleared by name alone: the first slot that carries it.
clear_dir_entry(sub_name) ==
    LET hits == {s \in Slots : dir[s].d_name = sub_name}
    IN  dir' = [dir EXCEPT ![Min(hits)] = [d_name |-> NoName,
                                           d_inumber |-> -1]]

\* Mutant: "no block" is one past the last block.
NewFileBadBlock == [i_node_type |-> "T_FILE", i_size |-> 0,
                    i_data_block |-> MaxBlockCount]

NewFile == [i_node_type |-> "T_FILE", i_size |-> 0, i_data_block |-> -1]

Return(call, val, data) ==
    last' = [call |-> call, val |-> val, data |-> data]

\* Takes the first free entry, or leaves the table alone and returns -1.
add_to_open_file_table(inum, offset) ==
    LET h == Min(Free(free_open_file_entries))
    IN  IF Free(free_open_file_entries) = {}
        THEN /\ Return("open", -1, <<>>)
             /\ UNCHANGED <<open_file_table, free_open_file_entries>>
        ELSE /\ Return("open", h, <<>>)
             /\ free_open_file_entries' =
                    [free_open_file_entries EXCEPT ![h] = "TAKEN"]
             /\ open_file_table' =
                    [open_file_table EXCEPT ![h] = [of_inumber |-> inum,
                                                    of_offset |-> offset]]

\* Mutant: get_open_file_entry does not look at free_open_file_entries.
IsHandle(h) == h \in Handles

\* get_open_file_entry returns an entry, not NULL.
IsOpen(h) == h \in Handles /\ free_open_file_entries[h] = "TAKEN"

Abort(how, call) ==
    status' = how /\ Return(call, -1, <<>>) /\ UNCHANGED tables

-----------------------------------------------------------------------------
\* state_init, then inode_create(T_DIRECTORY): the first inode and the first
\* block are free, so the root gets inode 0 and block 0.
Init ==
    /\ inode = [i \in INums |->
                    IF i = ROOT_DIR_INUM
                    THEN [i_node_type |-> "T_DIRECTORY", i_size |-> BlockSize,
                          i_data_block |-> 0]
                    ELSE NewFile]     \* never read before inode_create
    /\ freeinode_ts = [i \in INums |->
                           IF i = ROOT_DIR_INUM THEN "TAKEN" ELSE "FREE"]
    /\ fs_data = [a \in Addresses |-> IF a < BlockSize THEN DirData ELSE Junk]
    /\ free_blocks = [b \in BlockNumbers |-> IF b = 0 THEN "TAKEN" ELSE "FREE"]
    /\ dir = [s \in Slots |-> [d_name |-> NoName, d_inumber |-> -1]]
    /\ open_file_table = [h \in Handles |-> [of_inumber |-> 0, of_offset |-> 0]]
    /\ free_open_file_entries = [h \in Handles |-> "FREE"]
    /\ status = "running"
    /\ last = [call |-> "init", val |-> 0, data |-> <<>>]

(* tfs_open *)

OpenRefused(name, mode) ==
    /\ \/ ~valid_pathname(name)
       \/ tfs_lookup(name) = -1 /\ "CREAT" \notin mode
    /\ Return("open", -1, <<>>)
    /\ UNCHANGED <<tables, status>>

\* The block is freed and the size set to 0 only if the file had contents.
Truncates(inum, mode) == "TRUNC" \in mode /\ inode[inum].i_size > 0

\* Mutant: the block is freed, the size is not reset.
SizeKept(inum, mode) == inode[inum].i_size

SizeAfterTrunc(inum, mode) ==
    IF Truncates(inum, mode) THEN 0 ELSE inode[inum].i_size

\* A file that is truncated stays truncated when no handle is left for it.
OpenExisting(name, mode) ==
    LET inum == tfs_lookup(name)
        b    == inode[inum].i_data_block
        size == SizeAfterTrunc(inum, mode)
    IN  /\ inum # -1
        /\ IF Truncates(inum, mode) /\ b \notin BlockNumbers
           THEN Abort("panic", "open")      \* "invalid block number"
           ELSE /\ inode' = [inode EXCEPT ![inum].i_size = size]
                /\ free_blocks' = IF Truncates(inum, mode)
                                  THEN [free_blocks EXCEPT ![b] = "FREE"]
                                  ELSE free_blocks
                /\ add_to_open_file_table(inum,
                       IF "APPEND" \in mode THEN size ELSE 0)
                /\ UNCHANGED <<freeinode_ts, fs_data, dir, status>>

CreateRefused(name, mode) ==
    /\ valid_pathname(name) /\ tfs_lookup(name) = -1 /\ "CREAT" \in mode
    /\ \/ /\ Free(freeinode_ts) = {}                    \* no free inode
          /\ UNCHANGED inode
       \/ /\ Free(freeinode_ts) # {}                    \* no directory entry:
          /\ ~CanAddEntry(name)                         \* inode_delete gives
          /\ inode' = [inode EXCEPT                     \* the inode back
                           ![Min(Free(freeinode_ts))] = NewFile]
    /\ Return("open", -1, <<>>)
    /\ UNCHANGED <<freeinode_ts, fs_data, free_blocks, dir, open_file_table,
                   free_open_file_entries, status>>

Create(name, mode) ==
    LET inum == Min(Free(freeinode_ts))
    IN  /\ valid_pathname(name) /\ tfs_lookup(name) = -1 /\ "CREAT" \in mode
        /\ Free(freeinode_ts) # {}
        /\ CanAddEntry(name)
        /\ inode' = [inode EXCEPT ![inum] = NewFile]
        /\ freeinode_ts' = [freeinode_ts EXCEPT ![inum] = "TAKEN"]
        /\ add_dir_entry(name, inum)
        /\ add_to_open_file_table(inum, 0)
        /\ UNCHANGED <<fs_data, free_blocks, status>>

tfs_open(name, mode) ==
    \/ OpenRefused(name, mode)
    \/ OpenExisting(name, mode)
    \/ CreateRefused(name, mode)
    \/ Create(name, mode)

(* tfs_close *)

tfs_close(h) ==
    /\ Return("close", IF IsOpen(h) THEN 0 ELSE -1, <<>>)
    /\ free_open_file_entries' =
           IF IsOpen(h) THEN [free_open_file_entries EXCEPT ![h] = "FREE"]
           ELSE free_open_file_entries
    /\ UNCHANGED <<inode, freeinode_ts, fs_data, free_blocks, dir,
                   open_file_table, status>>

(* tfs_write *)

\* to_write after it is cut to what the block still holds; the subtraction
\* wraps when the handle's offset is past the block.
WriteCount(h, data) ==
    LET offset == open_file_table[h].of_offset
    IN  IF Len(data) + offset > BlockSize
        THEN (BlockSize - offset) % SizeModulus
        ELSE Len(data)

\* Mutant: a block is never allocated.
NeverNeedsBlock(h) == FALSE

NeedsBlock(h) == inode[open_file_table[h].of_inumber].i_size = 0

\* A closed handle, nothing to write, or no block for an empty file.
WriteNothing(h, data) ==
    /\ \/ /\ ~IsOpen(h)
          /\ Return("write", -1, <<>>)
       \/ /\ IsOpen(h)
          /\ WriteCount(h, data) = 0
          /\ Return("write", 0, <<>>)
       \/ /\ IsOpen(h)
          /\ WriteCount(h, data) > 0
          /\ NeedsBlock(h) /\ Free(free_blocks) = {}
          /\ Return("write", -1, <<>>)
    /\ UNCHANGED <<tables, status>>

WriteBytes(h, data) ==
    LET file   == open_file_table[h]
        node   == inode[file.of_inumber]
        n      == WriteCount(h, data)
        fresh  == Min(Free(free_blocks))
        b      == IF NeedsBlock(h) THEN fresh ELSE node.i_data_block
        end    == file.of_offset + n
    IN  /\ IsOpen(h)
        /\ n \in 1 .. Len(data)
        /\ NeedsBlock(h) => Free(free_blocks) # {}
        /\ IF b \notin BlockNumbers
           THEN Abort("panic", "write")     \* "data block deleted mid-write"
           ELSE /\ free_blocks' = [free_blocks EXCEPT ![b] =
                                       IF NeedsBlock(h) THEN "TAKEN" ELSE @]
                /\ fs_data' = [a \in Addresses |->
                       LET k == a - BlockAddress(b, file.of_offset)
                       IN  IF k \in 0 .. n - 1 THEN data[k + 1] ELSE fs_data[a]]
                /\ open_file_table' = [open_file_table EXCEPT ![h].of_offset = end]
                /\ inode' = [inode EXCEPT ![file.of_inumber] =
                       [node EXCEPT !.i_data_block = b,
                                    !.i_size = IF end > @ THEN end ELSE @]]
                /\ Return("write", n, <<>>)
                /\ UNCHANGED <<freeinode_ts, dir, free_open_file_entries, status>>

\* to_write has wrapped: the memcpy runs off the end of fs_data.
WriteWrapped(h, data) ==
    /\ IsOpen(h)
    /\ WriteCount(h, data) > Len(data)
    /\ NeedsBlock(h) => Free(free_blocks) # {}
    /\ Abort("fault", "write")

tfs_write(h, data) ==
    WriteNothing(h, data) \/ WriteBytes(h, data) \/ WriteWrapped(h, data)

(* tfs_read *)

\* Mutant: a read goes on to the end of the block.
ReadToBlockEnd(h, len) ==
    LET left == BlockSize - open_file_table[h].of_offset
    IN  IF left > len THEN len ELSE left

\* to_read; the subtraction wraps when the offset is past the file's size.
ReadCount(h, len) ==
    LET file  == open_file_table[h]
        avail == (inode[file.of_inumber].i_size - file.of_offset) % SizeModulus
    IN  IF avail > len THEN len ELSE avail

ReadNothing(h, len) ==
    /\ \/ ~IsOpen(h) /\ Return("read", -1, <<>>)
       \/ IsOpen(h) /\ ReadCount(h, len) = 0 /\ Return("read", 0, <<>>)
    /\ UNCHANGED <<tables, status>>

ReadBytes(h, len) ==
    LET file  == open_file_table[h]
        b     == inode[file.of_inumber].i_data_block
        n     == ReadCount(h, len)
        start == BlockAddress(b, file.of_offset)
    IN  /\ IsOpen(h)
        /\ n > 0
        /\ file.of_offset + n <= OffsetBound
        /\ \/ /\ b \notin BlockNumbers      \* "data block deleted mid-read"
              /\ Abort("panic", "read")
           \/ /\ b \in BlockNumbers         \* past fs_data: what lies there,
              /\ start + n - 1 \notin Addresses     \* or a page that is absent
              /\ Abort("fault", "read")
           \/ /\ b \in BlockNumbers
              /\ Return("read", n, [k \in 1 .. n |->
                     IF start + k - 1 \in Addresses THEN fs_data[start + k - 1]
                     ELSE Junk])
              /\ open_file_table' =
                     [open_file_table EXCEPT ![h].of_offset = @ + n]
              /\ UNCHANGED <<inode, freeinode_ts, fs_data, free_blocks, dir,
                             free_open_file_entries, status>>

tfs_read(h, len) == ReadNothing(h, len) \/ ReadBytes(h, len)

(* tfs_unlink *)

UnlinkRefused(name) ==
    /\ tfs_lookup(name) = -1
    /\ Return("unlink", -1, <<>>)
    /\ UNCHANGED <<tables, status>>

\* Mutant: off by one.
OwnsLargeBlock(inum) == inode[inum].i_size > 1

\* inode_delete frees the block of a file that has contents.
OwnsBlock(inum) == inode[inum].i_size > 0

\* inode_delete leaves i_size and i_data_block as they were.
Unlink(name) ==
    LET inum == tfs_lookup(name)
        b    == inode[inum].i_data_block
    IN  /\ inum # -1
        /\ IF freeinode_ts[inum] = "FREE" \/ (OwnsBlock(inum) /\ b \notin BlockNumbers)
           THEN Abort("panic", "unlink")    \* "inode already freed", or as above
           ELSE /\ freeinode_ts' = [freeinode_ts EXCEPT ![inum] = "FREE"]
                /\ free_blocks' = IF OwnsBlock(inum)
                                  THEN [free_blocks EXCEPT ![b] = "FREE"]
                                  ELSE free_blocks
                /\ clear_dir_entry(name)
                /\ Return("unlink", 0, <<>>)
                /\ UNCHANGED <<inode, fs_data, open_file_table,
                               free_open_file_entries, status>>

tfs_unlink(target) == UnlinkRefused(target) \/ Unlink(target)

-----------------------------------------------------------------------------
Buffers == UNION {[1 .. n -> Bytes] : n \in 0 .. MaxTransfer}
CallHandles == Handles \cup {-1}

\* Any client: every call with every argument, in any order.
Next ==
    /\ status = "running"
    /\ \/ \E name \in Paths, mode \in Modes : tfs_open(name, mode)
       \/ \E h \in CallHandles : tfs_close(h)
       \/ \E h \in CallHandles, data \in Buffers : tfs_write(h, data)
       \/ \E h \in CallHandles, len \in 0 .. MaxTransfer : tfs_read(h, len)
       \/ \E name \in Paths : tfs_unlink(name)

Spec == Init /\ [][Next]_vars

\* A disciplined client never truncates or unlinks a file that is open.
InUse(name) == \E h \in Handles : /\ IsOpen(h)
                                  /\ open_file_table[h].of_inumber = tfs_lookup(name)

DisciplinedNext ==
    /\ status = "running"
    /\ \/ \E name \in Paths, mode \in Modes :
              /\ "TRUNC" \in mode => ~InUse(name)
              /\ tfs_open(name, mode)
       \/ \E h \in CallHandles : tfs_close(h)
       \/ \E h \in CallHandles, data \in Buffers : tfs_write(h, data)
       \/ \E h \in CallHandles, len \in 0 .. MaxTransfer : tfs_read(h, len)
       \/ \E name \in Paths : ~InUse(name) /\ tfs_unlink(name)

DisciplinedSpec == Init /\ [][DisciplinedNext]_vars

-----------------------------------------------------------------------------
(* Properties of every client *)

Live(i) == freeinode_ts[i] = "TAKEN"
Files == INums \ {ROOT_DIR_INUM}
Entries == {s \in Slots : dir[s].d_inumber # -1}

\* The root inode is a live directory that owns its block (tfs_init), and no
\* other inode, live or freed, refers to that block.
RootIntact ==
    /\ Live(ROOT_DIR_INUM)
    /\ inode[ROOT_DIR_INUM].i_node_type = "T_DIRECTORY"
    /\ inode[ROOT_DIR_INUM].i_size = BlockSize
    /\ RootBlock \in BlockNumbers /\ free_blocks[RootBlock] = "TAKEN"
    /\ \A i \in Files : inode[i].i_data_block # RootBlock

\* Whatever clients do, failed creations and unlinks of open files included,
\* the names in the directory and the live files correspond one to one: no
\* entry leads to a freed inode, no two entries share a name or an inode, and
\* no live inode is without an entry (tfs_open's failure paths, tfs_unlink).
DirectoryConsistent ==
    /\ \A s \in Entries : dir[s].d_inumber \in Files /\ Live(dir[s].d_inumber)
    /\ \A s, t \in Entries : s # t => /\ dir[s].d_inumber # dir[t].d_inumber
                                     /\ dir[s].d_name # dir[t].d_name
    /\ \A i \in Files : Live(i) => \E s \in Entries : dir[s].d_inumber = i
    /\ \A s \in Slots \ Entries : dir[s].d_name = NoName

\* Live files with contents own allocated blocks of their own, although
\* inode_delete and truncation leave i_data_block behind and handles outlive
\* the files they were opened on.
BlocksNeverShared ==
    \A i \in INums : (Live(i) /\ inode[i].i_size > 0) =>
        /\ inode[i].i_data_block \in BlockNumbers
        /\ free_blocks[inode[i].i_data_block] = "TAKEN"
        /\ \A j \in INums \ {i} : (Live(j) /\ inode[j].i_size > 0) =>
               inode[j].i_data_block # inode[i].i_data_block

\* No call, not even a write through a handle whose file is gone, stores a
\* byte in the directory's block.
DirectoryBlockIsolated ==
    [][\A k \in 0 .. BlockSize - 1 :
           LET a == RootBlock * BlockSize + k IN fs_data'[a] = fs_data[a]]_vars

\* A write changes bytes of another live file only through a handle whose own
\* file has been unlinked: i_size and i_data_block of its freed inode still lead
\* to a block that has become the other file's (inode_delete).
ForeignWriteHasCause ==
    [][\A i \in Files :
           (/\ Live(i) /\ inode[i].i_size > 0
            /\ \E k \in 0 .. BlockSize - 1 :
                   LET a == BlockAddress(inode[i].i_data_block, k)
                   IN  fs_data'[a] # fs_data[a])
           => \E h \in Handles :
                  /\ last'.call = "write" /\ open_file_table'[h] # open_file_table[h]
                  /\ \/ open_file_table[h].of_inumber = i
                     \/ ~Live(open_file_table[h].of_inumber)]_vars

\* Of the assertions in the calls, only tfs_read's "data block deleted
\* mid-read" can fire: tfs_write's, inode_delete's and data_block_free's hold
\* for every client.
OnlyReadsPanic == status = "panic" => last.call = "read"

\* What makes the above inductive: an inode with a size has a block even when
\* it is freed, handles never refer to the root, and neither sizes nor offsets
\* grow past the bounds that keep the subtraction of tfs_write from wrapping
\* into the range of a real count.
SizedHasBlock ==
    \A i \in INums : inode[i].i_size > 0 => inode[i].i_data_block \in BlockNumbers

HandlesOnFiles ==
    \A h \in Handles : IsOpen(h) => open_file_table[h].of_inumber \in Files

SizesBounded == \A i \in INums : inode[i].i_size <= BlockSize

OffsetsBounded ==
    \A h \in Handles : open_file_table[h].of_offset <= BlockSize + OffsetBound

\* The inductive invariant of Spec, for every client of the five calls.
IInv ==
    /\ TypeOK /\ RootIntact /\ DirectoryConsistent /\ BlocksNeverShared
    /\ SizedHasBlock /\ HandlesOnFiles /\ SizesBounded /\ OffsetsBounded
    /\ OnlyReadsPanic

(* Properties of disciplined clients *)

\* Every allocated block belongs to a live inode with contents.
NoBlockLeak ==
    \A b \in BlockNumbers : free_blocks[b] = "TAKEN" =>
        \E i \in INums : Live(i) /\ inode[i].i_size > 0 /\ inode[i].i_data_block = b

\* Open handles stay on live files, at offsets within the file.
OffsetWithinSize ==
    \A h \in Handles : IsOpen(h) =>
        LET file == open_file_table[h]
        IN  Live(file.of_inumber) /\ file.of_offset <= inode[file.of_inumber].i_size

\* No assertion fires and no copy leaves its block.
NeverAborts == status = "running"

(* What the header says, and clients that are not disciplined refute *)

\* operations.h on tfs_read: the count "can be lower than 'len' if the file
\* size was reached", so a read ends within the file.
ReadWithinSize ==
    [][\A h \in Handles :
           (last'.call = "read" /\ open_file_table'[h] # open_file_table[h]) =>
               open_file_table'[h].of_offset
                   <= inode[open_file_table[h].of_inumber].i_size]_vars

=============================================================================
