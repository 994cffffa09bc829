-------------------------------- MODULE Rpc --------------------------------
(* What a caller of pyxp's Mux is promised, with the connection, the tags  *)
(* and the threads left out: a call that was issued is executed by the     *)
(* server at most once, returns only after that, and returns the answer to *)
(* itself; it fails only when the connection has broken; and as long as    *)
(* the connection lasts every call returns.                                *)

CONSTANTS Calls,    \* the calls made in a run, each made once
          NoCall    \* not a call

VARIABLES status,   \* status[c]: how far the caller of c has come
          answer,   \* answer[c]: the call whose answer c returned with
          served,   \* the calls the server has executed
          broken    \* the connection has been lost

rvars == <<status, answer, served, broken>>

Init == /\ status = [c \in Calls |-> "idle"]
        /\ answer = [c \in Calls |-> NoCall]
        /\ served = {}
        /\ broken = FALSE

Issue(c) == /\ status[c] = "idle"
            /\ status' = [status EXCEPT ![c] = "pending"]
            /\ UNCHANGED <<answer, served, broken>>

Serve(c) == /\ status[c] = "pending"
            /\ c \notin served
            /\ ~broken
            /\ served' = served \cup {c}
            /\ UNCHANGED <<status, answer, broken>>

(* An answer that was on its way when the connection broke may still come. *)
Return(c) == /\ status[c] = "pending"
             /\ c \in served
             /\ status' = [status EXCEPT ![c] = "done"]
             /\ answer' = [answer EXCEPT ![c] = c]
             /\ UNCHANGED <<served, broken>>

Break == /\ ~broken
         /\ broken' = TRUE
         /\ UNCHANGED <<status, answer, served>>

Fail(c) == /\ status[c] = "pending"
           /\ broken
           /\ status' = [status EXCEPT ![c] = "failed"]
           /\ UNCHANGED <<answer, served, broken>>

Next == \/ \E c \in Calls : Issue(c) \/ Serve(c) \/ Return(c) \/ Fail(c)
        \/ Break

Safety == Init /\ [][Next]_rvars

Spec == /\ Safety
        /\ \A c \in Calls : WF_rvars(Serve(c)) /\ WF_rvars(~broken /\ Return(c))
=============================================================================
