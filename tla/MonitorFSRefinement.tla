------------------------- MODULE MonitorFSRefinement -------------------------
(***************************************************************************)
(* The refinement mapping from the tables of MonitorFS to FlatStore: a     *)
(* file is a directory entry followed to its inode and its block, a handle *)
(* names the file whose inode it refers to.                                *)
(***************************************************************************)
EXTENDS MonitorFS

Names == {p \in Paths : tfs_lookup(p) # -1}

Contents(p) ==
    LET node == inode[tfs_lookup(p)]
    IN  [k \in 1 .. node.i_size |->
            fs_data[node.i_data_block * BlockSize + k - 1]]

NameOf(i) == CHOOSE p \in Names : tfs_lookup(p) = i

Smaller(m, n) == IF m < n THEN m ELSE n

Stored == [p \in Names |-> Contents(p)]

OpenHandles == {h \in Handles : IsOpen(h)}

Opened == [h \in OpenHandles |-> [name |-> NameOf(open_file_table[h].of_inumber),
                                  pos  |-> open_file_table[h].of_offset]]

Store == INSTANCE FlatStore WITH
    BadPaths        <- InvalidPaths,
    UnstorablePaths <- LongPaths,
    MaxFiles        <- Smaller(MaxInodeCount - 1, MaxDirEntries),
    MaxContents     <- MaxBlockCount - 1,
    files           <- Stored,
    opened          <- Opened

\* For disciplined clients the inodes, blocks, directory and open file table
\* behave as named byte strings and positions in them, with exact limits
\* (all five calls of operations.c).
RefinesFlatStore == Store!Spec

=============================================================================
