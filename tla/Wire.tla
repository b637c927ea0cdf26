-------------------------------- MODULE Wire --------------------------------
(***************************************************************************)
(* How a request gets from a client (pub.c, sub.c, manager.c) to the       *)
(* broker's main (mbroker.c): the client composes a message, opens the     *)
(* registration pipe, writes, closes, and waits for its own pipe; main     *)
(* reads what the pipe holds and takes the first character for the code.   *)
(* What serving a request does is in Broker and Sessions.                  *)
(*                                                                         *)
(* A name is a sequence of characters.  The pipe is the operating          *)
(* system's: bytes in the order of the writes, without borders between     *)
(* messages; the end of file when it is empty and no client has it open.   *)
(***************************************************************************)
EXTENDS Naturals, Sequences, FiniteSetsExt

CONSTANTS
    Clients,            \* processes
    Means,              \* the request that each is started for, one of Codes
    PipeName, BoxName,  \* its arguments, not empty
    ReadMax             \* main reads at most BUFFER_SIZE - 1 characters, not 0

\* The code of each request.
Codes == [publisher |-> "1", subscriber |-> "2", create |-> "3", remove |-> "5",
          list |-> "7"]

VARIABLES
    client,             \* where each is: "start", "write", "close", "wait", "gone"
    register,           \* characters in the registration pipe
    main,               \* where main is: "open", "read", "serve", "ended"
    buffer,             \* what it has read
    served              \* history: the requests that it took what it read for

vars == <<client, register, main, buffer, served>>

Init ==
    /\ client = [c \in Clients |-> "start"]
    /\ register = <<>> /\ buffer = <<>>
    /\ main = "open"
    /\ served = {}

Goto(c, label) == client' = [client EXCEPT ![c] = label]

(* Clients *)

\* signal(EOF, ...) fails, for EOF is no signal, and pub.c exits.
PublisherExits(c) ==
    /\ client[c] = "start" /\ Means[c] = "publisher"
    /\ Goto(c, "gone")
    /\ UNCHANGED <<register, main, buffer, served>>

\* Either end of the pipe waits in open for the other.
OpenRegister(c) ==
    /\ client[c] = "start" /\ Means[c] # "publisher"
    /\ main # "ended"
    /\ Goto(c, "write")
    /\ main' = IF main = "open" THEN "read" ELSE main
    /\ UNCHANGED <<register, buffer, served>>

\* The code, the pipe's name and the box's are each copied to the start of the
\* message, and send_msg writes up to the first zero byte.
Message(c) == IF Means[c] = "list" THEN PipeName[c] ELSE BoxName[c]

\* send_msg; without its reader it ends the client.
WriteRegister(c) ==
    /\ client[c] = "write"
    /\ IF main = "ended"
       THEN Goto(c, "gone") /\ UNCHANGED register
       ELSE Goto(c, "close") /\ register' = register \o Message(c)
    /\ UNCHANGED <<main, buffer, served>>

\* The client opens its own pipe next and waits there for the broker.
CloseRegister(c) ==
    /\ client[c] = "close"
    /\ Goto(c, "wait")
    /\ UNCHANGED <<register, main, buffer, served>>

(* The broker's main *)

HasOpen == {c \in Clients : client[c] \in {"write", "close"}}

\* read returns what there is, several clients' messages or part of one; nothing
\* at the end of file, and main returns.
Receive ==
    /\ main = "read"
    /\ \/ /\ register # <<>>
          /\ LET n == Min({ReadMax, Len(register)})
             IN  /\ buffer' = SubSeq(register, 1, n)
                 /\ register' = SubSeq(register, n + 1, Len(register))
          /\ main' = "serve"
       \/ /\ register = <<>> /\ HasOpen = {}
          /\ main' = "ended"
          /\ UNCHANGED <<register, buffer>>
    /\ UNCHANGED <<client, served>>

\* The first character is the code; ccode points nowhere in particular, so that
\* what follows it there may make another number of it, or main ends.
Serve ==
    /\ main = "serve"
    /\ \/ /\ \E kind \in DOMAIN Codes :
                 Codes[kind] = Head(buffer) /\ served' = served \cup {kind}
          /\ main' \in {"read", "ended"}
       \/ main' \in {"read", "ended"} /\ UNCHANGED served
    /\ UNCHANGED <<client, register, buffer>>

Next ==
    \/ \E c \in Clients : \/ PublisherExits(c) \/ OpenRegister(c)
                          \/ WriteRegister(c) \/ CloseRegister(c)
    \/ Receive \/ Serve

Spec == Init /\ [][Next]_vars

-----------------------------------------------------------------------------
\* sub.c and pub.c say of the registration "[ code (uint8_t) ] |
\* [ client_named_pipe_path (char[256]) ] | [ box_name (char[32]) ]": whatever main
\* takes a message for is a request that some client has sent.
ServesWhatWasAsked ==
    \A kind \in served :
        \E c \in Clients : Means[c] = kind /\ client[c] \in {"close", "wait"}

=============================================================================
