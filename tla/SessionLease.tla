--------------------------- MODULE SessionLease ---------------------------
(***************************************************************************)
(* What the web registry promises a Session id, and nothing about how: at  *)
(* most one socket holds the id, at most one graph drives its checkpoint,  *)
(* a graph is only begun by the socket that holds the id, and it may       *)
(* outlive that socket, in which case nobody gets the id before it ends.   *)
(***************************************************************************)
CONSTANTS Socket, Id

VARIABLES sockets,   \* [Id -> SUBSET Socket]: connections the id is granted to
          graphs     \* [Id -> SUBSET Socket]: whose run drives the checkpoint

vars == <<sockets, graphs>>

Init == /\ sockets = [i \in Id |-> {}]
        /\ graphs = [i \in Id |-> {}]

Grant(i, c) == /\ sockets[i] = {}
               /\ graphs[i] = {}
               /\ sockets' = [sockets EXCEPT ![i] = {c}]
               /\ UNCHANGED graphs

Begin(i, c) == /\ sockets[i] = {c}
               /\ graphs[i] = {}
               /\ graphs' = [graphs EXCEPT ![i] = {c}]
               /\ UNCHANGED sockets

End(i, c) == /\ graphs[i] = {c}
             /\ graphs' = [graphs EXCEPT ![i] = {}]
             /\ UNCHANGED sockets

Close(i, c) == /\ sockets[i] = {c}
               /\ sockets' = [sockets EXCEPT ![i] = {}]
               /\ UNCHANGED graphs

Next == \E i \in Id, c \in Socket :
           Grant(i, c) \/ Begin(i, c) \/ End(i, c) \/ Close(i, c)

Spec == Init /\ [][Next]_vars
=============================================================================
