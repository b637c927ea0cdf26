----------------------------- MODULE MCMonitorFS -----------------------------
(* MonitorFS and its refinement mapping, for TLC: the configurations give   *)
(* the paths, bytes and limits.  Valid names that fit are interchangeable,  *)
(* and so are bytes.                                                        *)
EXTENDS MonitorFSRefinement, TLC

Symmetry == Permutations(Paths \ (InvalidPaths \cup LongPaths))
            \cup Permutations(Bytes)

\* No call depends on what the last one returned; OnlyReadsPanic asks which
\* call it was that ended the process.
TablesView == <<tables, status, IF status = "running" THEN "" ELSE last.call>>
=============================================================================
