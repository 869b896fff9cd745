--------------------------- MODULE ClientRegistry ---------------------------
(***************************************************************************)
(* What the bridge promises about Komari clients, without processes,       *)
(* database rows, requests or faults: every resource gets one client of    *)
(* its own, keeps it for ever, and what Komari displays for the resource   *)
(* is only ever replaced by something that resource reported.              *)
(***************************************************************************)
CONSTANTS Resource, Client, Info, None

VARIABLES
    client,     \* the client of each resource, or None
    display     \* the report Komari displays for each resource, or None

Init ==
    /\ client = [r \in Resource |-> None]
    /\ display = [r \in Resource |-> None]

Adopt(r, u) ==
    /\ client[r] = None
    /\ \A q \in Resource : client[q] # u
    /\ client' = [client EXCEPT ![r] = u]
    /\ UNCHANGED display

Publish(r, i) ==
    /\ client[r] # None
    /\ display' = [display EXCEPT ![r] = [res |-> r, info |-> i]]
    /\ UNCHANGED client

Next ==
    \/ \E r \in Resource, u \in Client : Adopt(r, u)
    \/ \E r \in Resource, i \in Info : Publish(r, i)

Spec == Init /\ [][Next]_<<client, display>>
=============================================================================
