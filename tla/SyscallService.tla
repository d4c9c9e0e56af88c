--------------------------- MODULE SyscallService ---------------------------
(***************************************************************************)
(* What the kernel loop promises to user threads: a system call is a       *)
(* procedure call.  From the trap to the end of its service no thread      *)
(* other than the kernel runs, so no second call can be issued; the call   *)
(* is served once, and it is served eventually.                            *)
(***************************************************************************)
CONSTANTS Client, NoClient

VARIABLES
    pending,    \* the client whose call is being served
    running     \* the client on the processor, NoClient for anybody else

svars == <<pending, running>>

SInit == pending = NoClient /\ running = NoClient

\* The running client issues a call; it leaves the processor with that.
Call(c) ==
    /\ running = c /\ pending = NoClient
    /\ pending' = c /\ running' = NoClient

\* The pending call is served.
Serve == pending # NoClient /\ pending' = NoClient /\ UNCHANGED running

\* The processor is given to a client, or taken from it.
Switched ==
    /\ pending = NoClient /\ UNCHANGED pending
    /\ running' \in Client \cup {NoClient}

SNext == (\E c \in Client : Call(c)) \/ Serve \/ Switched

SSpec == SInit /\ [][SNext]_svars /\ WF_svars(Serve)
=============================================================================
