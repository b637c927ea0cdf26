----------------------------- MODULE MCThreadedFS -----------------------------
(* ThreadedFS for TLC: what each thread calls in each run.                   *)
EXTENDS ThreadedFS, TLC

CONSTANTS t1, t2, t3, f, a, c, long

OneFile == <<f>>
NoFile == <<>>

\* Each thread makes and removes names of its own for one shared file; a third
\* opens, truncates, writes and closes it.
Own(p) == {Link(f, p), Unlink(p)}
LinksMenu ==
    (t1 :> <<Own(a), Own(a), Own(a)>>) @@ (t2 :> <<Own(c), Own(c), Own(c)>>)
    @@ (t3 :> <<{Open(f, {"TRUNC"}), Open(f, {"APPEND"})},
                {FileCall("write", 1)}, {FileCall("close", 0)}>>)

\* Anything, on the same names.
Mixed == {Open(p, m) : p \in {f, a}, m \in {{}, {"CREAT"}, {"TRUNC", "APPEND"}}}
         \cup {Unlink(f), Unlink(a), Link(f, a), SymLink(f, a), Link(f, long),
               Copy(a, 1), Copy(f, -1)}
OnFile == {FileCall("close", 0), FileCall("write", 1), FileCall("read", 2)}
AnyMenu == (t1 :> <<Mixed, Mixed \cup OnFile>>)
           @@ (t2 :> <<Mixed, Mixed \cup OnFile>>)

\* One call after another, or against another, for the disagreements.
CreateMenu == (t1 :> <<{Open(a, {"CREAT"})}, {Unlink(a)}>>)
              @@ (t2 :> <<{Open(c, {"CREAT"})}>>)
CopyRaceMenu ==
    (t1 :> <<{Copy(a, 1)}, {Open(a, {"CREAT"})}, {FileCall("read", 2)}>>)
    @@ (t2 :> <<{Copy(a, 1)}>>)
=============================================================================
