------------------------------ MODULE FlatStore ------------------------------
(***************************************************************************)
(* What TecnicoFS promises a client that never truncates or unlinks a file *)
(* while it is open: a set of named byte strings of at most BlockSize      *)
(* bytes, and handles that each remember a file and a position in it.      *)
(* Limits are exact: a file is refused when MaxFiles exist, contents are   *)
(* refused when MaxContents files have some, and never sooner, so an       *)
(* implementation may leak neither inodes nor blocks nor handles.          *)
(***************************************************************************)
EXTENDS Integers, Sequences, FiniteSets, Functions

CONSTANTS Paths, BadPaths, UnstorablePaths, Bytes, Handles,
          BlockSize, MaxFiles, MaxContents, MaxTransfer

VARIABLES files,        \* name -> contents
          opened,       \* handle -> [name, pos]
          last

vars == <<files, opened, last>>

Modes == SUBSET {"CREAT", "TRUNC", "APPEND"}

Return(call, val, data) == last' = [call |-> call, val |-> val, data |-> data]

Fail(call) == Return(call, -1, <<>>) /\ UNCHANGED <<files, opened>>

Exists(p) == p \in DOMAIN files

IsOpened(h) == h \in DOMAIN opened

InUse(p) == \E h \in DOMAIN opened : opened[h].name = p

Full == Cardinality(DOMAIN files) >= MaxFiles

OutOfContents ==
    Cardinality({p \in DOMAIN files : files[p] # <<>>}) >= MaxContents

Init ==
    /\ files = <<>>
    /\ opened = <<>>
    /\ last = [call |-> "init", val |-> 0, data |-> <<>>]

\* f with x added to its domain.
With(f, x, value) == [y \in DOMAIN f \cup {x} |-> IF y = x THEN value ELSE f[y]]

\* val is the new handle, or -1 when there is none.
Grant(p, pos, val) ==
    IF Handles \ DOMAIN opened = {}
    THEN val = -1 /\ UNCHANGED opened
    ELSE /\ val \in Handles \ DOMAIN opened
         /\ opened' = With(opened, val, [name |-> p, pos |-> pos])

OpenOld(p, mode, val) ==
    /\ Return("open", val, <<>>)
    /\ Exists(p)
    /\ "TRUNC" \in mode => ~InUse(p)
    /\ files' = [files EXCEPT ![p] = IF "TRUNC" \in mode THEN <<>> ELSE @]
    /\ Grant(p, IF "APPEND" \in mode THEN Len(files'[p]) ELSE 0, val)

OpenNew(p, mode, val) ==
    /\ Return("open", val, <<>>)
    /\ ~Exists(p)
    /\ IF "CREAT" \notin mode \/ p \in BadPaths \cup UnstorablePaths \/ Full
       THEN Fail("open")
       ELSE files' = With(files, p, <<>>) /\ Grant(p, 0, val)

Close(h) ==
    /\ Return("close", IF IsOpened(h) THEN 0 ELSE -1, <<>>)
    /\ opened' = Restrict(opened, DOMAIN opened \ {h})
    /\ UNCHANGED files

Write(h, data) ==
    IF ~IsOpened(h) THEN Fail("write") ELSE
    LET p   == opened[h].name
        pos == opened[h].pos
        old == files[p]
        n   == IF pos + Len(data) > BlockSize THEN BlockSize - pos ELSE Len(data)
        end == IF pos + n > Len(old) THEN pos + n ELSE Len(old)
        refused == n > 0 /\ old = <<>> /\ OutOfContents
    IN  \/ Fail("write") /\ refused
        \/ /\ Return("write", n, <<>>)
           /\ ~refused
           /\ files' = [files EXCEPT ![p] =
                    [k \in 1 .. end |-> IF k \in pos + 1 .. pos + n
                                        THEN data[k - pos] ELSE old[k]]]
           /\ opened' = [opened EXCEPT ![h].pos = pos + n]

Read(h, len) ==
    IF ~IsOpened(h) THEN Fail("read") ELSE
    LET text == files[opened[h].name]
        pos  == opened[h].pos
        n    == IF Len(text) - pos > len THEN len ELSE Len(text) - pos
    IN  /\ Return("read", n, SubSeq(text, pos + 1, pos + n))
        /\ opened' = [opened EXCEPT ![h].pos = pos + n]
        /\ UNCHANGED files

Unlink(p) ==
    IF ~Exists(p) THEN Fail("unlink")
    ELSE /\ ~InUse(p)
         /\ files' = Restrict(files, DOMAIN files \ {p})
         /\ Return("unlink", 0, <<>>)
         /\ UNCHANGED opened

Next ==
    \/ \E p \in Paths, mode \in Modes, val \in Handles \cup {-1} :
          OpenOld(p, mode, val) \/ OpenNew(p, mode, val)
    \/ \E h \in Handles \cup {-1} :
          \/ Close(h)
          \/ \E n \in 0 .. MaxTransfer :
                Read(h, n) \/ \E data \in [1 .. n -> Bytes] : Write(h, data)
    \/ \E p \in Paths : Unlink(p)

Spec == Init /\ [][Next]_vars

=============================================================================
