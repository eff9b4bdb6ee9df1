----------------------------- MODULE RemoteCall -----------------------------
(***************************************************************************)
(* What a task of the pipeline may take a command with OSA_MBX_WAIT_ACK    *)
(* for: a call.  It returns once the receiver has served this very command *)
(* and returns the status of this very command, once.                      *)
(***************************************************************************)
CONSTANTS Clients, Servers, Cmds, Status, None

VARIABLES
    req,        \* req[c]: the command c waits for, and whom it asked
    ans         \* ans[c]: the status it was served with, not yet returned

Request == [to : Servers, cmd : Cmds]

Init == req = [c \in Clients |-> None] /\ ans = [c \in Clients |-> None]

Ask(c) ==
    /\ req[c] = None
    /\ \E r \in Request : req' = [req EXCEPT ![c] = r]
    /\ UNCHANGED ans

Serve(c) ==
    /\ req[c] # None /\ ans[c] = None
    /\ \E st \in Status : ans' = [ans EXCEPT ![c] = st]
    /\ UNCHANGED req

Return(c) ==
    /\ ans[c] # None
    /\ req' = [req EXCEPT ![c] = None]
    /\ ans' = [ans EXCEPT ![c] = None]

Next == \E c \in Clients : Ask(c) \/ Serve(c) \/ Return(c)

Spec == Init /\ [][Next]_<<req, ans>>
=============================================================================
