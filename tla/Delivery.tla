------------------------------ MODULE Delivery ------------------------------
(***************************************************************************)
(* Delivery of snapshots to Komari: internal/bridge/runner.go (process and *)
(* the delivery half of Cycle), internal/store/store.go and                *)
(* internal/komari/client.go.                                              *)
(*                                                                         *)
(* A bridge handles the snapshots of a cycle one at a time.  For each it   *)
(* upserts a row of the SQLite database, looks up the Komari client bound  *)
(* to the row, registers and binds one when there is none, uploads the     *)
(* basic info when its hash differs from the one it remembers, and sends   *)
(* the report.  The rows survive a crash; the remembered hashes do not.    *)
(* Every statement and every request is a step of its own, so a crash, a   *)
(* late request or another bridge on the same database can fall between    *)
(* any two of them.                                                        *)
(*                                                                         *)
(* The Komari server is external.  It is modelled from what client.go      *)
(* sends and expects: registration makes a new client, a request under the *)
(* token of a client replaces that client's info or report, and a request  *)
(* under the token of a deleted client is refused.                         *)
(***************************************************************************)
EXTENDS Naturals

CONSTANTS
    Bridge,     \* bridge processes that share the database
    Resource,   \* provider identities
    Info,       \* contents of a basic-info payload
    Client,     \* clients the Komari server can create
    FaultKind,  \* the kinds of fault that may happen
    MaxFaults,  \* bound on the number of faults of a behaviour
    None        \* absence of a client, an info, a report or a job

\* A snapshot as far as delivery looks at it, the snapshot in process with the
\* client in hand, and a report as the server keeps it.
Snapshot == [online : BOOLEAN, info : Info]
Job      == [res : Resource, snap : Snapshot, uuid : Client \cup {None}]
Received == [res : Resource, info : Info, against : Info \cup {None}]

ASSUME DeliveryAssumption ==
    /\ MaxFaults \in Nat
    /\ FaultKind \subseteq {"refused", "unanswered", "store", "crash", "delete"}
    /\ None \notin Info \cup Client \cup Resource \cup Received
    /\ "absent" \notin Client \cup {None}

VARIABLES
    row,        \* resources table: "absent", None (not bound) or the client
    reported,   \* resources whose row has a last_reported time
    pc,         \* the statement each bridge is about to execute
    pending,    \* snapshots of the current cycle not yet processed
    job,        \* the snapshot in process and the binding in hand
    hash,       \* basicInfoHashes: the info each bridge last marked per client
    owner,      \* server: the resource each client was registered for, or None
    deleted,    \* server: clients an administrator removed
    shown,      \* server: basic info stored per client
    last,       \* server: last report per client, and the info it was shown with
    flight,     \* requests that were given up on and may still arrive
    faults,     \* number of faults so far
    abandoned   \* history: clients whose registration never reached a row

storeVars  == <<row, reported>>
bridgeVars == <<pc, pending, job, hash>>
serverVars == <<owner, deleted, shown, last>>
faultVars  == <<flight, faults, abandoned>>
vars       == <<storeVars, bridgeVars, serverVars, faultVars>>

-----------------------------------------------------------------------------
Request  == [kind : {"register"}, res : Resource]
              \cup [kind : {"info"}, uuid : Client, info : Info]
              \cup [kind : {"report"}, uuid : Client, res : Resource, info : Info]
Step     == {"idle", "observe", "binding", "register", "bind", "basic",
             "report", "mark"}

\* Rows, jobs, hashes, clients, requests and counters have their types.
TypeOK ==
    /\ row \in [Resource -> Client \cup {None, "absent"}]
    /\ reported \subseteq Resource
    /\ pc \in [Bridge -> Step]
    /\ pending \in [Bridge -> SUBSET Resource]
    /\ job \in [Bridge -> Job \cup {None}]
    /\ hash \in [Bridge -> [Client -> Info \cup {None}]]
    /\ owner \in [Client -> Resource \cup {None}]
    /\ deleted \subseteq Client
    /\ shown \in [Client -> Info \cup {None}]
    /\ last \in [Client -> Received \cup {None}]
    /\ flight \subseteq Request
    /\ faults \in 0..MaxFaults
    /\ abandoned \subseteq Client

Init ==
    /\ row = [r \in Resource |-> "absent"]
    /\ reported = {}
    /\ pc = [b \in Bridge |-> "idle"]
    /\ pending = [b \in Bridge |-> {}]
    /\ job = [b \in Bridge |-> None]
    /\ hash = [b \in Bridge |-> [u \in Client |-> None]]
    /\ owner = [u \in Client |-> None]
    /\ deleted = {}
    /\ shown = [u \in Client |-> None]
    /\ last = [u \in Client |-> None]
    /\ flight = {}
    /\ faults = 0
    /\ abandoned = {}

-----------------------------------------------------------------------------
(* Faults, the position of a bridge, and what the server does with a       *)
(* request.                                                                *)

Fault(kind) ==
    /\ kind \in FaultKind
    /\ faults < MaxFaults
    /\ faults' = faults + 1

At(b, s)   == pc[b] = s
Goto(b, s) == pc' = [pc EXCEPT ![b] = s] /\ UNCHANGED job

\* process returns, with or without an error, and Cycle goes on
Return(b) ==
    /\ pc' = [pc EXCEPT ![b] = "idle"]
    /\ job' = [job EXCEPT ![b] = None]

\* the binding the bridge goes on with, read or just registered
Hold(b, u, s) ==
    /\ pc' = [pc EXCEPT ![b] = s]
    /\ job' = [job EXCEPT ![b].uuid = u]

Fresh == {u \in Client : owner[u] = None}

\* every registration makes a client, whatever name it carries
CreateClient(r, u) ==
    /\ owner' = [owner EXCEPT ![u] = r]
    /\ UNCHANGED <<deleted, shown, last>>

StoreInfo(u, i) ==
    /\ u \notin deleted
    /\ shown' = [shown EXCEPT ![u] = i]
    /\ UNCHANGED <<owner, deleted, last>>

StoreReport(u, r, i) ==
    /\ u \notin deleted
    /\ last' = [last EXCEPT ![u] = [res |-> r, info |-> i, against |-> shown[u]]]
    /\ UNCHANGED <<owner, deleted, shown>>

\* The call returns an error.  Either the request had no effect (a fault, or
\* the server refuses it for its own reason), or no answer came and the
\* request may still be applied.
Fails(b, m, refusedAnyway) ==
    /\ Return(b)
    /\ \/ refusedAnyway /\ UNCHANGED <<faults, flight>>
       \/ Fault("refused") /\ UNCHANGED flight
       \/ Fault("unanswered") /\ flight' = flight \cup {m}
    /\ UNCHANGED <<serverVars, storeVars, pending, hash, abandoned>>

\* The SQLite statement returns an error and changed nothing.
StatementFails(b) ==
    /\ Fault("store")
    /\ Return(b)
    /\ UNCHANGED <<serverVars, storeVars, pending, hash, flight>>

-----------------------------------------------------------------------------
(* One cycle of a bridge *)

\* Providers were collected and merged: the cycle has one snapshot per key.
StartCycle(b, rs) ==
    /\ At(b, "idle") /\ pending[b] = {}
    /\ pending' = [pending EXCEPT ![b] = rs]
    /\ UNCHANGED <<storeVars, serverVars, faultVars, pc, job, hash>>

\* The merged snapshots are visited in the order of a Go map, that is, any.
\* One that validateSnapshot rejects is dropped.
Drop(b, r) ==
    /\ At(b, "idle") /\ r \in pending[b]
    /\ pending' = [pending EXCEPT ![b] = @ \ {r}]
    /\ UNCHANGED <<storeVars, serverVars, faultVars, pc, job, hash>>

Take(b, r, s) ==
    /\ At(b, "idle") /\ r \in pending[b]
    /\ pending' = [pending EXCEPT ![b] = @ \ {r}]
    /\ pc' = [pc EXCEPT ![b] = "observe"]
    /\ job' = [job EXCEPT ![b] = [res |-> r, snap |-> s, uuid |-> None]]
    /\ UNCHANGED <<storeVars, serverVars, faultVars, hash>>

\* mutant: the values of two columns are swapped
ObserveSwapped(b) ==
    /\ At(b, "observe")
    /\ row' = [row EXCEPT ![job[b].res] = IF @ = "absent" THEN job[b].res ELSE @]
    /\ Goto(b, "binding")
    /\ UNCHANGED <<reported, serverVars, faultVars, pending, hash>>

\* mutant: INSERT OR REPLACE
ObserveReplacing(b) ==
    /\ At(b, "observe")
    /\ row' = [row EXCEPT ![job[b].res] = None]
    /\ Goto(b, "binding")
    /\ UNCHANGED <<reported, serverVars, faultVars, pending, hash>>

\* Insert the row, or update its descriptive columns and keep its binding.
Observe(b) ==
    /\ At(b, "observe")
    /\ \/ /\ row' = [row EXCEPT ![job[b].res] = IF @ = "absent" THEN None ELSE @]
          /\ Goto(b, "binding")
          /\ UNCHANGED <<reported, serverVars, faultVars, pending, hash>>
       \/ StatementFails(b) /\ UNCHANGED abandoned

Bound(r) == row[r] \in Client

\* mutant: SELECT without the external_id
LookUpAnyRow(b) ==
    /\ At(b, "binding")
    /\ \/ \E r \in Resource : Bound(r) /\ Hold(b, row[r], "basic")
       \/ (\A r \in Resource : ~Bound(r)) /\ Goto(b, "register")
    /\ UNCHANGED <<storeVars, serverVars, faultVars, pending, hash>>

\* mutant: only a missing row is ErrNotBound
LookUpRowOnly(b) ==
    /\ At(b, "binding")
    /\ IF Bound(job[b].res) THEN Hold(b, row[job[b].res], "basic") ELSE Return(b)
    /\ UNCHANGED <<storeVars, serverVars, faultVars, pending, hash>>

LookUp(b) ==
    /\ At(b, "binding")
    /\ \/ /\ IF Bound(job[b].res)
             THEN Hold(b, row[job[b].res], "basic")
             ELSE Goto(b, "register")
          /\ UNCHANGED <<storeVars, serverVars, faultVars, pending, hash>>
       \/ StatementFails(b) /\ UNCHANGED abandoned

\* mutant: the registered client is used before it is saved
RegisterUnsaved(b) ==
    /\ At(b, "register")
    /\ \E u \in Fresh : CreateClient(job[b].res, u) /\ Hold(b, u, "basic")
    /\ UNCHANGED <<storeVars, faultVars, pending, hash>>

Register(b) ==
    /\ At(b, "register")
    /\ \/ \E u \in Fresh :
             /\ CreateClient(job[b].res, u)
             /\ Hold(b, u, "bind")
             /\ UNCHANGED <<storeVars, faultVars, pending, hash>>
       \/ Fails(b, [kind |-> "register", res |-> job[b].res], Fresh = {})

\* mutant: UPDATE without the external_id
BindAllRows(b) ==
    /\ At(b, "bind")
    /\ row' = [r \in Resource |-> IF row[r] = "absent" THEN row[r] ELSE job[b].uuid]
    /\ Goto(b, "basic")
    /\ UNCHANGED <<reported, serverVars, faultVars, pending, hash>>

\* The row exists, so the update always finds it.
Bind(b) ==
    /\ At(b, "bind")
    /\ \/ /\ row' = [row EXCEPT ![job[b].res] = job[b].uuid]
          /\ Goto(b, "basic")
          /\ UNCHANGED <<reported, serverVars, faultVars, pending, hash>>
       \/ /\ StatementFails(b)
          /\ abandoned' = abandoned \cup {job[b].uuid}

Current(b) == hash[b][job[b].uuid] = job[b].snap.info

\* Offline resources are inventoried and no more.
FinishOffline(b) ==
    /\ At(b, "basic") /\ ~job[b].snap.online
    /\ Return(b)
    /\ UNCHANGED <<storeVars, serverVars, faultVars, pending, hash>>

SkipBasicInfo(b) ==
    /\ At(b, "basic") /\ job[b].snap.online /\ Current(b)
    /\ Goto(b, "report")
    /\ UNCHANGED <<storeVars, serverVars, faultVars, pending, hash>>

MarkBasicInfo(b, u, i) == hash' = [hash EXCEPT ![b][u] = i]

\* mutant: the hash is marked before the error is looked at
UploadMarkedFirst(b) ==
    LET u == job[b].uuid
        i == job[b].snap.info
    IN  /\ At(b, "basic") /\ job[b].snap.online /\ ~Current(b)
        /\ MarkBasicInfo(b, u, i)
        /\ \/ StoreInfo(u, i) /\ Goto(b, "report") /\ UNCHANGED <<faults, flight>>
           \/ Fault("refused") /\ Return(b) /\ UNCHANGED <<serverVars, flight>>
        /\ UNCHANGED <<storeVars, pending, abandoned>>

\* The hash is marked after the call returned without an error.
UploadBasicInfo(b) ==
    LET u == job[b].uuid
        i == job[b].snap.info
    IN  /\ At(b, "basic") /\ job[b].snap.online /\ ~Current(b)
        /\ \/ /\ StoreInfo(u, i)
              /\ MarkBasicInfo(b, u, i)
              /\ Goto(b, "report")
              /\ UNCHANGED <<storeVars, faultVars, pending>>
           \/ Fails(b, [kind |-> "info", uuid |-> u, info |-> i], u \in deleted)

\* mutant: MarkReported runs whatever Report returned
ReportUnchecked(b) ==
    LET u == job[b].uuid
    IN  /\ At(b, "report")
        /\ Goto(b, "mark")
        /\ \/ StoreReport(u, job[b].res, job[b].snap.info) /\ UNCHANGED faults
           \/ Fault("refused") /\ UNCHANGED serverVars
        /\ UNCHANGED <<storeVars, flight, abandoned, pending, hash>>

Report(b) ==
    LET u == job[b].uuid
        r == job[b].res
        i == job[b].snap.info
    IN  /\ At(b, "report")
        /\ \/ /\ StoreReport(u, r, i)
              /\ Goto(b, "mark")
              /\ UNCHANGED <<storeVars, faultVars, pending, hash>>
           \/ Fails(b, [kind |-> "report", uuid |-> u, res |-> r, info |-> i],
                    u \in deleted)

MarkReported(b) ==
    /\ At(b, "mark")
    /\ \/ /\ reported' = reported \cup {job[b].res}
          /\ Return(b)
          /\ UNCHANGED <<row, serverVars, faultVars, pending, hash>>
       \/ StatementFails(b) /\ UNCHANGED abandoned

-----------------------------------------------------------------------------
(* The environment *)

\* The process dies and is started again: only the database is left.
Crash(b) ==
    /\ Fault("crash")
    /\ Return(b)
    /\ pending' = [pending EXCEPT ![b] = {}]
    /\ hash' = [hash EXCEPT ![b] = [u \in Client |-> None]]
    /\ abandoned' = IF At(b, "bind") THEN abandoned \cup {job[b].uuid} ELSE abandoned
    /\ UNCHANGED <<storeVars, serverVars, flight>>

\* A request nobody waits for any more reaches the server after all.
LateRegister(m) ==
    /\ m.kind = "register"
    /\ \E u \in Fresh : CreateClient(m.res, u) /\ abandoned' = abandoned \cup {u}

LateRpc(m) ==
    /\ \/ m.kind = "info" /\ StoreInfo(m.uuid, m.info)
       \/ m.kind = "report" /\ StoreReport(m.uuid, m.res, m.info)
    /\ UNCHANGED abandoned

Arrive(m) ==
    /\ m \in flight
    /\ flight' = flight \ {m}
    /\ LateRegister(m) \/ LateRpc(m)
    /\ UNCHANGED <<storeVars, bridgeVars, faults>>

DeleteClient(u) ==
    /\ Fault("delete")
    /\ owner[u] # None /\ u \notin deleted
    /\ deleted' = deleted \cup {u}
    /\ UNCHANGED <<storeVars, bridgeVars, owner, shown, last, flight, abandoned>>

-----------------------------------------------------------------------------
Process(b) ==
    \/ Observe(b) \/ LookUp(b) \/ Register(b) \/ Bind(b)
    \/ FinishOffline(b) \/ SkipBasicInfo(b) \/ UploadBasicInfo(b)
    \/ Report(b) \/ MarkReported(b)

Cycle(b) ==
    \/ \E rs \in SUBSET Resource \ {{}} : StartCycle(b, rs)
    \/ \E r \in Resource : Drop(b, r)
    \/ \E r \in Resource, s \in Snapshot : Take(b, r, s)
    \/ Process(b)

Environment ==
    \/ \E b \in Bridge : Crash(b)
    \/ \E m \in flight : Arrive(m)
    \/ \E u \in Client : DeleteClient(u)

Next == (\E b \in Bridge : Cycle(b)) \/ Environment

Spec == Init /\ [][Next]_vars

\* The ticker fires again as long as the process runs, and a cycle that began
\* goes through its snapshots: a call returns, with an answer or an error.
FairSpec == Spec /\ \A b \in Bridge : WF_vars(Cycle(b))

-----------------------------------------------------------------------------
(* Safety *)

\* A row is bound to a client that was registered for that row's resource, so
\* no two resources share a client: process pairs the answer of a registration
\* with the snapshot it registered (runner.go:359-364), whoever else writes.
BindingsAreOwn == \A r \in Resource : Bound(r) => owner[row[r]] = r

\* What the server stores as the report of a client came from the resource the
\* client was registered for, also when the request arrives long after the
\* bridge gave it up or the row was bound anew (runner.go:349-390).
NoCrossReporting ==
    \A u \in Client : last[u] # None => owner[u] # None /\ last[u].res = owner[u]

\* A client is never forgotten but through a fault between its registration
\* and its binding: otherwise some row keeps it, or a bridge is about to save
\* it (runner.go:353-366).
NoClientForgotten ==
    \A u \in Client : owner[u] # None =>
        \/ \E r \in Resource : row[r] = u
        \/ \E b \in Bridge : pc[b] = "bind" /\ job[b].uuid = u
        \/ u \in abandoned

\* Metrics only go to clients that a row durably keeps: the binding is saved
\* before anything is sent under it, so no history is lost by a crash
\* (runner.go:364-387).
HistoryIsBound ==
    \A u \in Client : last[u] # None \/ shown[u] # None =>
        \E r \in Resource : row[r] = u

\* last_reported says no more than the truth: the server has a report of that
\* resource under the client its row is bound to (runner.go:387-390).
ReportedIsTrue ==
    \A r \in reported : Bound(r) /\ last[row[r]] # None /\ last[row[r]].res = r

\* The server shows a report beside the basic info of the same snapshot: the
\* totals of the gauges belong to the usage (runner.go:377-389 skips the upload
\* only when the hash of the same content is marked).
ReportedAgainstOwnInfo ==
    \A u \in Client : last[u] # None => last[u].against = last[u].info

\* A binding is for good: no step of the bridge, no restart and no deletion of
\* the client on the server ever changes the client of a row (runner.go:353-364,
\* store.go:75-87).
BindingPermanent == [][\A r \in Resource : Bound(r) => row'[r] = row[r]]_vars

\* The client of a resource, and its report, as the registry speaks of them.
ClientOf(r)  == IF Bound(r) THEN row[r] ELSE None
DisplayOf(r) ==
    IF Bound(r) /\ last[row[r]] # None
    THEN [res |-> last[row[r]].res, info |-> last[row[r]].info]
    ELSE None

Registry == INSTANCE ClientRegistry
    WITH client <- [r \in Resource |-> ClientOf(r)],
         display <- [r \in Resource |-> DisplayOf(r)]

\* One bridge, with every fault and late request, is a registry: one client per
\* resource for ever, whose display changes only by that resource's own reports
\* (runner.go:349-391 and the two tables it writes).
ImplementsRegistry == Registry!Spec

-----------------------------------------------------------------------------
(* Liveness, under FairSpec and a bounded number of faults *)

InProcess(r, s) == \E b \in Bridge : job[b] # None /\ job[b].res = r /\ job[b].snap = s
OnlineNow(r)    == \E i \in Info : InProcess(r, [online |-> TRUE, info |-> i])
Lost(r)         == \E u \in deleted : owner[u] = r

\* A resource that keeps being collected online ends up bound and reported,
\* whatever failed half-way before, unless its client was deleted on the server
\* (runner.go:349-391 resumes from what the row and the hashes say).
EventuallyReported ==
    \A r \in Resource : []<>OnlineNow(r) => <>(r \in reported \/ Lost(r))

\* When the basic info of a resource settles on a value, the server ends up
\* showing that value for good (runner.go:381-386).
InfoConverges ==
    \A r \in Resource, i \in Info :
        /\ []<>OnlineNow(r)
        /\ <>[](\A j \in Info \ {i} : ~InProcess(r, [online |-> TRUE, info |-> j]))
        => <>[](Lost(r) \/ (Bound(r) /\ shown[row[r]] = i))
=============================================================================
