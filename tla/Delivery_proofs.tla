-------------------------- MODULE Delivery_proofs --------------------------
(***************************************************************************)
(* Theorems about Delivery, for every set of bridges, resources, clients   *)
(* and payload contents, every kind of fault and every number of faults.   *)
(***************************************************************************)
EXTENDS Delivery, TLAPS

-----------------------------------------------------------------------------
(* Type correctness.  A bridge inside process has a snapshot in hand, and  *)
(* past the binding a client too: without this the types are not kept.     *)

JobOK ==
    \A b \in Bridge :
        /\ pc[b] # "idle" => job[b] \in Job
        /\ pc[b] \in {"bind", "basic", "report", "mark"} => job[b].uuid \in Client

TypeInv == TypeOK /\ JobOK

LEMMA TypeInit == Init => TypeInv
  BY DeliveryAssumption DEF Init, TypeInv, TypeOK, JobOK, Step, DeliveryAssumption

LEMMA JobFields ==
    ASSUME NEW j \in Job
    PROVE  /\ j.res \in Resource /\ j.snap \in Snapshot
           /\ j.snap.online \in BOOLEAN /\ j.snap.info \in Info
           /\ \A u \in Client : [j EXCEPT !.uuid = u] \in Job
                               /\ [j EXCEPT !.uuid = u].uuid = u
  BY DEF Job, Snapshot

\* Where the bridge is afterwards, and what it has in hand.
LEMMA GotoTyped ==
    ASSUME TypeInv, NEW b \in Bridge, NEW s \in Step, Goto(b, s),
           job[b] \in Job,
           s \in {"bind", "basic", "report", "mark"} => job[b].uuid \in Client
    PROVE  pc' \in [Bridge -> Step] /\ job' \in [Bridge -> Job \cup {None}] /\ JobOK'
  BY DEF Goto, TypeInv, TypeOK, JobOK

LEMMA HoldTyped ==
    ASSUME TypeInv, NEW b \in Bridge, NEW s \in Step, NEW u \in Client, Hold(b, u, s),
           job[b] \in Job
    PROVE  pc' \in [Bridge -> Step] /\ job' \in [Bridge -> Job \cup {None}] /\ JobOK'
  <1>1. job' = [job EXCEPT ![b] = [job[b] EXCEPT !.uuid = u]]
    BY DEF Hold
  <1>2. [job[b] EXCEPT !.uuid = u] \in Job /\ [job[b] EXCEPT !.uuid = u].uuid = u
    BY JobFields
  <1> QED
    BY <1>1, <1>2 DEF Hold, TypeInv, TypeOK, JobOK

LEMMA ReturnTyped ==
    ASSUME TypeInv, NEW b \in Bridge, Return(b)
    PROVE  pc' \in [Bridge -> Step] /\ job' \in [Bridge -> Job \cup {None}] /\ JobOK'
  BY DEF Return, TypeInv, TypeOK, JobOK, Step

LEMMA FaultTyped ==
    ASSUME TypeInv, NEW k, Fault(k)
    PROVE  faults' \in 0..MaxFaults
  BY DeliveryAssumption DEF Fault, TypeInv, TypeOK, DeliveryAssumption

LEMMA FailsTyped ==
    ASSUME TypeInv, NEW b \in Bridge, NEW m \in Request, NEW any, Fails(b, m, any)
    PROVE  TypeInv'
  <1>1. pc' \in [Bridge -> Step] /\ job' \in [Bridge -> Job \cup {None}] /\ JobOK'
    BY ReturnTyped DEF Fails
  <1>2. faults' \in 0..MaxFaults /\ flight' \subseteq Request
    BY FaultTyped DEF Fails, TypeInv, TypeOK
  <1> QED
    BY <1>1, <1>2 DEF Fails, TypeInv, TypeOK, serverVars, storeVars

LEMMA StatementFailsTyped ==
    ASSUME TypeInv, NEW b \in Bridge, StatementFails(b), abandoned' \subseteq Client
    PROVE  TypeInv'
  <1>1. pc' \in [Bridge -> Step] /\ job' \in [Bridge -> Job \cup {None}] /\ JobOK'
    BY ReturnTyped DEF StatementFails
  <1>2. faults' \in 0..MaxFaults
    BY FaultTyped DEF StatementFails
  <1> QED
    BY <1>1, <1>2 DEF StatementFails, TypeInv, TypeOK, serverVars, storeVars

LEMMA TypeCycle ==
    ASSUME TypeInv, NEW b \in Bridge, Cycle(b)
    PROVE  TypeInv'
  <1> USE DEF storeVars, serverVars, faultVars
  <1>1. ASSUME NEW rs \in SUBSET Resource \ {{}}, StartCycle(b, rs) PROVE TypeInv'
    BY <1>1 DEF StartCycle, TypeInv, TypeOK, JobOK
  <1>2. ASSUME NEW r \in Resource, Drop(b, r) PROVE TypeInv'
    BY <1>2 DEF Drop, TypeInv, TypeOK, JobOK
  <1>3. ASSUME NEW r \in Resource, NEW s \in Snapshot, Take(b, r, s) PROVE TypeInv'
    BY <1>3 DEF Take, Job, TypeInv, TypeOK, JobOK, Step
  <1>4. CASE Observe(b)
    <2>1. job[b] \in Job /\ job[b].res \in Resource
      BY <1>4, JobFields DEF Observe, At, TypeInv, JobOK
    <2>2. ASSUME Goto(b, "binding"),
                 row' = [row EXCEPT ![job[b].res] = IF @ = "absent" THEN None ELSE @],
                 UNCHANGED <<reported, serverVars, faultVars, pending, hash>>
          PROVE TypeInv'
      <3>1. pc' \in [Bridge -> Step] /\ job' \in [Bridge -> Job \cup {None}] /\ JobOK'
        BY <2>1, <2>2, GotoTyped DEF Step
      <3> QED
        BY <2>1, <2>2, <3>1 DEF TypeInv, TypeOK
    <2>3. ASSUME StatementFails(b), UNCHANGED abandoned PROVE TypeInv'
      BY <2>3, StatementFailsTyped DEF TypeInv, TypeOK
    <2> QED
      BY <1>4, <2>2, <2>3 DEF Observe
  <1>5. CASE LookUp(b)
    <2>1. job[b] \in Job /\ job[b].res \in Resource
      BY <1>5, JobFields DEF LookUp, At, TypeInv, JobOK
    <2>2. ASSUME Bound(job[b].res), Hold(b, row[job[b].res], "basic"),
                 UNCHANGED <<storeVars, serverVars, faultVars, pending, hash>>
          PROVE TypeInv'
      <3>1. pc' \in [Bridge -> Step] /\ job' \in [Bridge -> Job \cup {None}] /\ JobOK'
        BY <2>1, <2>2, HoldTyped DEF Step, Bound
      <3> QED
        BY <2>2, <3>1 DEF TypeInv, TypeOK
    <2>3. ASSUME Goto(b, "register"),
                 UNCHANGED <<storeVars, serverVars, faultVars, pending, hash>>
          PROVE TypeInv'
      <3>1. pc' \in [Bridge -> Step] /\ job' \in [Bridge -> Job \cup {None}] /\ JobOK'
        BY <2>1, <2>3, GotoTyped DEF Step
      <3> QED
        BY <2>3, <3>1 DEF TypeInv, TypeOK
    <2>4. ASSUME StatementFails(b), UNCHANGED abandoned PROVE TypeInv'
      BY <2>4, StatementFailsTyped DEF TypeInv, TypeOK
    <2> QED
      BY <1>5, <2>2, <2>3, <2>4 DEF LookUp
  <1>6. CASE Register(b)
    <2>1. job[b] \in Job /\ job[b].res \in Resource
      BY <1>6, JobFields DEF Register, At, TypeInv, JobOK
    <2>2. ASSUME NEW u \in Fresh, CreateClient(job[b].res, u), Hold(b, u, "bind"),
                 UNCHANGED <<storeVars, faultVars, pending, hash>>
          PROVE TypeInv'
      <3>1. pc' \in [Bridge -> Step] /\ job' \in [Bridge -> Job \cup {None}] /\ JobOK'
        BY <2>1, <2>2, HoldTyped DEF Step, Fresh
      <3> QED
        BY <2>1, <2>2, <3>1 DEF TypeInv, TypeOK, CreateClient, Fresh
    <2>3. [kind |-> "register", res |-> job[b].res] \in Request
      BY <2>1 DEF Request
    <2> QED
      BY <1>6, <2>2, <2>3, FailsTyped DEF Register
  <1>7. CASE Bind(b)
    <2>1. job[b] \in Job /\ job[b].res \in Resource /\ job[b].uuid \in Client
      BY <1>7, JobFields DEF Bind, At, TypeInv, JobOK
    <2>2. ASSUME Goto(b, "basic"), row' = [row EXCEPT ![job[b].res] = job[b].uuid],
                 UNCHANGED <<reported, serverVars, faultVars, pending, hash>>
          PROVE TypeInv'
      <3>1. pc' \in [Bridge -> Step] /\ job' \in [Bridge -> Job \cup {None}] /\ JobOK'
        BY <2>1, <2>2, GotoTyped DEF Step
      <3> QED
        BY <2>1, <2>2, <3>1 DEF TypeInv, TypeOK
    <2>3. ASSUME StatementFails(b), abandoned' = abandoned \cup {job[b].uuid} PROVE TypeInv'
      <3>1. abandoned' \subseteq Client
        BY <2>1, <2>3 DEF TypeInv, TypeOK
      <3> QED
        BY <2>3, <3>1, StatementFailsTyped
    <2> QED
      BY <1>7, <2>2, <2>3 DEF Bind
  <1>8. CASE FinishOffline(b)
    BY <1>8, ReturnTyped DEF FinishOffline, TypeInv, TypeOK
  <1>9. CASE SkipBasicInfo(b)
    <2>1. pc' \in [Bridge -> Step] /\ job' \in [Bridge -> Job \cup {None}] /\ JobOK'
      BY <1>9, GotoTyped DEF SkipBasicInfo, At, Step, TypeInv, JobOK
    <2> QED
      BY <1>9, <2>1 DEF SkipBasicInfo, TypeInv, TypeOK
  <1>10. CASE UploadBasicInfo(b)
    <2> DEFINE u == job[b].uuid
               i == job[b].snap.info
    <2>1. job[b] \in Job /\ u \in Client /\ i \in Info
      BY <1>10, JobFields DEF UploadBasicInfo, At, TypeInv, JobOK
    <2>2. ASSUME StoreInfo(u, i), MarkBasicInfo(b, u, i), Goto(b, "report"),
                 UNCHANGED <<storeVars, faultVars, pending>>
          PROVE TypeInv'
      <3>1. pc' \in [Bridge -> Step] /\ job' \in [Bridge -> Job \cup {None}] /\ JobOK'
        BY <2>1, <2>2, GotoTyped DEF Step
      <3> QED
        BY <2>1, <2>2, <3>1 DEF TypeInv, TypeOK, StoreInfo, MarkBasicInfo
    <2>3. [kind |-> "info", uuid |-> u, info |-> i] \in Request
      BY <2>1 DEF Request
    <2> QED
      BY <1>10, <2>2, <2>3, FailsTyped DEF UploadBasicInfo
  <1>11. CASE Report(b)
    <2> DEFINE u == job[b].uuid
               r == job[b].res
               i == job[b].snap.info
    <2>1. job[b] \in Job /\ u \in Client /\ r \in Resource /\ i \in Info
      BY <1>11, JobFields DEF Report, At, TypeInv, JobOK
    <2>2. ASSUME StoreReport(u, r, i), Goto(b, "mark"),
                 UNCHANGED <<storeVars, faultVars, pending, hash>>
          PROVE TypeInv'
      <3>1. pc' \in [Bridge -> Step] /\ job' \in [Bridge -> Job \cup {None}] /\ JobOK'
        BY <2>1, <2>2, GotoTyped DEF Step
      <3>2. [res |-> r, info |-> i, against |-> shown[u]] \in Received
        BY <2>1 DEF TypeInv, TypeOK, Received
      <3> QED
        BY <2>1, <2>2, <3>1, <3>2 DEF TypeInv, TypeOK, StoreReport
    <2>3. [kind |-> "report", uuid |-> u, res |-> r, info |-> i] \in Request
      BY <2>1 DEF Request
    <2> QED
      BY <1>11, <2>2, <2>3, FailsTyped DEF Report
  <1>12. CASE MarkReported(b)
    <2>1. job[b].res \in Resource
      BY <1>12, JobFields DEF MarkReported, At, TypeInv, JobOK
    <2>2. ASSUME reported' = reported \cup {job[b].res}, Return(b),
                 UNCHANGED <<row, serverVars, faultVars, pending, hash>>
          PROVE TypeInv'
      BY <2>1, <2>2, ReturnTyped DEF TypeInv, TypeOK
    <2>3. ASSUME StatementFails(b), UNCHANGED abandoned PROVE TypeInv'
      BY <2>3, StatementFailsTyped DEF TypeInv, TypeOK
    <2> QED
      BY <1>12, <2>2, <2>3 DEF MarkReported
  <1> QED
    BY <1>1, <1>2, <1>3, <1>4, <1>5, <1>6, <1>7, <1>8, <1>9, <1>10, <1>11, <1>12
    DEF Cycle, Process

LEMMA TypeEnvironment ==
    ASSUME TypeInv, Environment
    PROVE  TypeInv'
  <1> USE DEF storeVars, bridgeVars, serverVars
  <1>1. ASSUME NEW b \in Bridge, Crash(b) PROVE TypeInv'
    <2>1. /\ pc' \in [Bridge -> Step] /\ job' \in [Bridge -> Job \cup {None}] /\ JobOK'
          /\ faults' \in 0..MaxFaults
      BY <1>1, ReturnTyped, FaultTyped DEF Crash
    <2>2. abandoned' \subseteq Client
      BY <1>1 DEF Crash, At, TypeInv, TypeOK, JobOK
    <2> QED
      BY <1>1, <2>1, <2>2 DEF Crash, TypeInv, TypeOK
  <1>2. ASSUME NEW m \in flight, Arrive(m) PROVE TypeInv'
    <2>1. m \in Request
      BY DEF TypeInv, TypeOK
    <2>2. CASE LateRegister(m)
      <3>1. m.res \in Resource
        BY <2>1, <2>2 DEF LateRegister, Request
      <3> QED
        BY <1>2, <2>2, <3>1 DEF Arrive, LateRegister, Fresh, CreateClient, TypeInv,
                                TypeOK, JobOK
    <2>3. ASSUME m.kind = "info", StoreInfo(m.uuid, m.info), UNCHANGED abandoned
          PROVE TypeInv'
      <3>1. m.uuid \in Client /\ m.info \in Info
        BY <2>1, <2>3 DEF Request
      <3> QED
        BY <1>2, <2>3, <3>1 DEF Arrive, StoreInfo, TypeInv, TypeOK, JobOK
    <2>4. ASSUME m.kind = "report", StoreReport(m.uuid, m.res, m.info), UNCHANGED abandoned
          PROVE TypeInv'
      <3>1. m.uuid \in Client /\ m.res \in Resource /\ m.info \in Info
        BY <2>1, <2>4 DEF Request
      <3>2. [res |-> m.res, info |-> m.info, against |-> shown[m.uuid]] \in Received
        BY <3>1 DEF TypeInv, TypeOK, Received
      <3> QED
        BY <1>2, <2>4, <3>1, <3>2 DEF Arrive, StoreReport, TypeInv, TypeOK, JobOK
    <2> QED
      BY <1>2, <2>2, <2>3, <2>4 DEF Arrive, LateRpc
  <1>3. ASSUME NEW u \in Client, DeleteClient(u) PROVE TypeInv'
    BY <1>3, FaultTyped DEF DeleteClient, TypeInv, TypeOK, JobOK
  <1> QED
    BY <1>1, <1>2, <1>3 DEF Environment

LEMMA TypeStep == TypeInv /\ [Next]_vars => TypeInv'
  <1> SUFFICES ASSUME TypeInv, [Next]_vars PROVE TypeInv'
    OBVIOUS
  <1>1. CASE Next
    BY <1>1, TypeCycle, TypeEnvironment DEF Next
  <1>2. CASE UNCHANGED vars
    BY <1>2 DEF vars, storeVars, bridgeVars, serverVars, faultVars, TypeInv, TypeOK, JobOK
  <1> QED
    BY <1>1, <1>2

\* Every reachable state is well typed, with a snapshot and a client in hand
\* wherever process uses them (runner.go:349-391).
THEOREM TypeCorrect == Spec => []TypeOK
  <1>1. Spec => []TypeInv
    BY TypeInit, TypeStep, PTL DEF Spec
  <1> QED
    BY <1>1, PTL DEF TypeInv

-----------------------------------------------------------------------------
(* Every client stays with the resource it was registered for, however     *)
(* many bridges share the database.                                        *)

JobOwn(b) ==
    pc[b] \in {"bind", "basic", "report", "mark"} => owner[job[b].uuid] = job[b].res

FlightOwn == \A m \in flight : m.kind = "report" => owner[m.uuid] = m.res

OwnInv ==
    /\ BindingsAreOwn
    /\ \A b \in Bridge : JobOwn(b)
    /\ FlightOwn
    /\ NoCrossReporting

LEMMA OwnInit == Init => OwnInv
  BY DeliveryAssumption
  DEF Init, OwnInv, BindingsAreOwn, Bound, JobOwn, FlightOwn, NoCrossReporting,
      DeliveryAssumption

\* The failure branches leave the rows and the server alone.
LEMMA FailsOwn ==
    ASSUME TypeInv, OwnInv, NEW b \in Bridge, NEW m \in Request, NEW any,
           Fails(b, m, any), m.kind = "report" => owner[m.uuid] = m.res
    PROVE  OwnInv'
  BY DEF Fails, Return, Fault, OwnInv, BindingsAreOwn, Bound, JobOwn, FlightOwn,
         NoCrossReporting, TypeInv, TypeOK, serverVars, storeVars

LEMMA StatementFailsOwn ==
    ASSUME TypeInv, OwnInv, NEW b \in Bridge, StatementFails(b)
    PROVE  OwnInv'
  BY DEF StatementFails, Return, OwnInv, BindingsAreOwn, Bound, JobOwn, FlightOwn,
         NoCrossReporting, TypeInv, TypeOK, serverVars, storeVars

LEMMA CreateOwn ==
    ASSUME TypeInv, OwnInv, NEW r \in Resource, NEW u \in Fresh, CreateClient(r, u)
    PROVE  /\ owner'[u] = r
           /\ \A v \in Client : owner[v] # None => owner'[v] = owner[v]
           /\ NoCrossReporting'
           /\ \A q \in Resource : Bound(q) => owner'[row[q]] = q
           /\ \A m \in flight : m.kind = "report" => owner'[m.uuid] = m.res
           /\ \A b \in Bridge : pc[b] \in {"bind", "basic", "report", "mark"}
                                 => owner'[job[b].uuid] = job[b].res
  <1> USE DeliveryAssumption DEF DeliveryAssumption
  <1>1. /\ u \in Client /\ owner[u] = None
        /\ owner' = [owner EXCEPT ![u] = r] /\ last' = last
    BY DEF Fresh, CreateClient
  <1>2. \A v \in Client : owner[v] # None => owner'[v] = owner[v]
    BY <1>1 DEF TypeInv, TypeOK
  <1>3. owner'[u] = r
    BY <1>1 DEF TypeInv, TypeOK
  <1>4. NoCrossReporting'
    BY <1>1, <1>2 DEF OwnInv, NoCrossReporting
  <1>5. \A q \in Resource : Bound(q) => owner'[row[q]] = q
    BY <1>2 DEF OwnInv, BindingsAreOwn, Bound
  <1>6. \A m \in flight : m.kind = "report" => owner'[m.uuid] = m.res
    <2> TAKE m \in flight
    <2> HAVE m.kind = "report"
    <2>1. m.uuid \in Client /\ m.res \in Resource
      BY DEF TypeInv, TypeOK, Request
    <2> QED
      BY <1>2, <2>1 DEF OwnInv, FlightOwn
  <1>7. \A b \in Bridge : pc[b] \in {"bind", "basic", "report", "mark"}
                            => owner'[job[b].uuid] = job[b].res
    <2> TAKE b \in Bridge
    <2> HAVE pc[b] \in {"bind", "basic", "report", "mark"}
    <2>1. job[b].uuid \in Client /\ job[b].res \in Resource
      BY JobFields DEF TypeInv, JobOK
    <2> QED
      BY <1>2, <2>1 DEF OwnInv, JobOwn
  <1> QED
    BY <1>2, <1>3, <1>4, <1>5, <1>6, <1>7

LEMMA OwnCycle ==
    ASSUME TypeInv, OwnInv, NEW b \in Bridge, Cycle(b)
    PROVE  OwnInv'
  <1> USE DEF storeVars, serverVars, faultVars
  <1>1. ASSUME NEW rs \in SUBSET Resource \ {{}}, StartCycle(b, rs) PROVE OwnInv'
    BY <1>1 DEF StartCycle, OwnInv, BindingsAreOwn, Bound, JobOwn, FlightOwn, NoCrossReporting
  <1>2. ASSUME NEW r \in Resource, Drop(b, r) PROVE OwnInv'
    BY <1>2 DEF Drop, OwnInv, BindingsAreOwn, Bound, JobOwn, FlightOwn, NoCrossReporting
  <1>3. ASSUME NEW r \in Resource, NEW s \in Snapshot, Take(b, r, s) PROVE OwnInv'
    BY <1>3 DEF Take, OwnInv, BindingsAreOwn, Bound, JobOwn, FlightOwn, NoCrossReporting,
                TypeInv, TypeOK
  <1>4. CASE Observe(b)
    <2>1. job[b].res \in Resource
      BY <1>4, JobFields DEF Observe, At, TypeInv, JobOK
    <2>2. ASSUME Goto(b, "binding"),
                 row' = [row EXCEPT ![job[b].res] = IF @ = "absent" THEN None ELSE @],
                 UNCHANGED <<reported, serverVars, faultVars, pending, hash>>
          PROVE OwnInv'
      BY <2>1, <2>2, DeliveryAssumption
      DEF Goto, OwnInv, BindingsAreOwn, Bound, JobOwn, FlightOwn, NoCrossReporting,
          TypeInv, TypeOK, DeliveryAssumption
    <2> QED
      BY <1>4, <2>2, StatementFailsOwn DEF Observe
  <1>5. CASE LookUp(b)
    <2>1. job[b] \in Job /\ job[b].res \in Resource
      BY <1>5, JobFields DEF LookUp, At, TypeInv, JobOK
    <2>2. ASSUME Bound(job[b].res), Hold(b, row[job[b].res], "basic"),
                 UNCHANGED <<storeVars, serverVars, faultVars, pending, hash>>
          PROVE OwnInv'
      BY <2>1, <2>2 DEF Hold, OwnInv, BindingsAreOwn, Bound, JobOwn, FlightOwn,
                        NoCrossReporting, TypeInv, TypeOK, Job
    <2>3. ASSUME Goto(b, "register"),
                 UNCHANGED <<storeVars, serverVars, faultVars, pending, hash>>
          PROVE OwnInv'
      BY <2>3 DEF Goto, OwnInv, BindingsAreOwn, Bound, JobOwn, FlightOwn,
                  NoCrossReporting, TypeInv, TypeOK
    <2> QED
      BY <1>5, <2>2, <2>3, StatementFailsOwn DEF LookUp
  <1>6. CASE Register(b)
    <2>1. job[b] \in Job /\ job[b].res \in Resource
      BY <1>6, JobFields DEF Register, At, TypeInv, JobOK
    <2>2. ASSUME NEW u \in Fresh, CreateClient(job[b].res, u), Hold(b, u, "bind"),
                 UNCHANGED <<storeVars, faultVars, pending, hash>>
          PROVE OwnInv'
      <3>1. /\ owner'[u] = job[b].res /\ NoCrossReporting'
            /\ BindingsAreOwn' /\ FlightOwn'
            /\ \A c \in Bridge : pc[c] \in {"bind", "basic", "report", "mark"}
                                  => owner'[job[c].uuid] = job[c].res
        BY <2>1, <2>2, CreateOwn DEF BindingsAreOwn, Bound, FlightOwn
      <3>2. \A c \in Bridge : JobOwn(c)'
        BY <2>1, <2>2, <3>1 DEF JobOwn, Hold, TypeInv, TypeOK, Job
      <3> QED
        BY <3>1, <3>2 DEF OwnInv
    <2>3. [kind |-> "register", res |-> job[b].res] \in Request
      BY <2>1 DEF Request
    <2> QED
      BY <1>6, <2>2, <2>3, FailsOwn DEF Register
  <1>7. CASE Bind(b)
    <2>1. /\ job[b].res \in Resource /\ job[b].uuid \in Client
          /\ owner[job[b].uuid] = job[b].res
      BY <1>7, JobFields DEF Bind, At, TypeInv, JobOK, OwnInv, JobOwn
    <2>2. ASSUME Goto(b, "basic"), row' = [row EXCEPT ![job[b].res] = job[b].uuid],
                 UNCHANGED <<reported, serverVars, faultVars, pending, hash>>
          PROVE OwnInv'
      BY <2>1, <2>2 DEF Goto, OwnInv, BindingsAreOwn, Bound, JobOwn, FlightOwn,
                        NoCrossReporting, TypeInv, TypeOK
    <2> QED
      BY <1>7, <2>2, StatementFailsOwn DEF Bind
  <1>8. CASE FinishOffline(b)
    BY <1>8 DEF FinishOffline, Return, OwnInv, BindingsAreOwn, Bound, JobOwn, FlightOwn,
                NoCrossReporting, TypeInv, TypeOK
  <1>9. CASE SkipBasicInfo(b)
    BY <1>9 DEF SkipBasicInfo, At, Goto, OwnInv, BindingsAreOwn, Bound, JobOwn, FlightOwn,
                NoCrossReporting, TypeInv, TypeOK
  <1>10. CASE UploadBasicInfo(b)
    <2> DEFINE u == job[b].uuid
               i == job[b].snap.info
    <2>1. u \in Client /\ i \in Info
      BY <1>10, JobFields DEF UploadBasicInfo, At, TypeInv, JobOK
    <2>2. ASSUME StoreInfo(u, i), Goto(b, "report"), UNCHANGED <<storeVars, faultVars, pending>>
          PROVE OwnInv'
      BY <1>10, <2>2 DEF UploadBasicInfo, At, StoreInfo, Goto, OwnInv, BindingsAreOwn, Bound,
                         JobOwn, FlightOwn, NoCrossReporting, TypeInv, TypeOK
    <2>3. [kind |-> "info", uuid |-> u, info |-> i] \in Request
      BY <2>1 DEF Request
    <2> QED
      BY <1>10, <2>2, <2>3, FailsOwn DEF UploadBasicInfo
  <1>11. CASE Report(b)
    <2> DEFINE u == job[b].uuid
               r == job[b].res
               i == job[b].snap.info
    <2>1. u \in Client /\ r \in Resource /\ i \in Info /\ owner[u] = r
      BY <1>11, JobFields DEF Report, At, TypeInv, JobOK, OwnInv, JobOwn
    <2>2. ASSUME StoreReport(u, r, i), Goto(b, "mark"),
                 UNCHANGED <<storeVars, faultVars, pending, hash>>
          PROVE OwnInv'
      <3>1. NoCrossReporting'
        BY <2>1, <2>2, DeliveryAssumption
        DEF StoreReport, OwnInv, NoCrossReporting, TypeInv, TypeOK, DeliveryAssumption
      <3>2. \A c \in Bridge : JobOwn(c)'
        BY <1>11, <2>2 DEF Report, At, Goto, StoreReport, OwnInv, JobOwn, TypeInv, TypeOK
      <3> QED
        BY <2>2, <3>1, <3>2 DEF StoreReport, OwnInv, BindingsAreOwn, Bound, FlightOwn
    <2>3. [kind |-> "report", uuid |-> u, res |-> r, info |-> i] \in Request
      BY <2>1 DEF Request
    <2> QED
      BY <1>11, <2>1, <2>2, <2>3, FailsOwn DEF Report
  <1>12. CASE MarkReported(b)
    <2>1. ASSUME Return(b), UNCHANGED <<row, serverVars, faultVars, pending, hash>>
          PROVE OwnInv'
      BY <2>1 DEF Return, OwnInv, BindingsAreOwn, Bound, JobOwn, FlightOwn,
                  NoCrossReporting, TypeInv, TypeOK
    <2> QED
      BY <1>12, <2>1, StatementFailsOwn DEF MarkReported
  <1> QED
    BY <1>1, <1>2, <1>3, <1>4, <1>5, <1>6, <1>7, <1>8, <1>9, <1>10, <1>11, <1>12
    DEF Cycle, Process

LEMMA OwnEnvironment ==
    ASSUME TypeInv, OwnInv, Environment
    PROVE  OwnInv'
  <1> USE DEF storeVars, bridgeVars, serverVars
  <1>1. ASSUME NEW b \in Bridge, Crash(b) PROVE OwnInv'
    BY <1>1 DEF Crash, Return, OwnInv, BindingsAreOwn, Bound, JobOwn, FlightOwn,
                NoCrossReporting, TypeInv, TypeOK
  <1>2. ASSUME NEW m \in flight, Arrive(m) PROVE OwnInv'
    <2>1. m \in Request
      BY DEF TypeInv, TypeOK
    <2>2. CASE LateRegister(m)
      <3>1. m.res \in Resource
        BY <2>1, <2>2 DEF LateRegister, Request
      <3> QED
        BY <1>2, <2>2, <3>1, CreateOwn
        DEF Arrive, LateRegister, OwnInv, BindingsAreOwn, Bound, JobOwn, FlightOwn
    <2>3. ASSUME m.kind = "info", StoreInfo(m.uuid, m.info), UNCHANGED abandoned
          PROVE OwnInv'
      BY <1>2, <2>3 DEF Arrive, StoreInfo, OwnInv, BindingsAreOwn, Bound, JobOwn,
                        FlightOwn, NoCrossReporting
    <2>4. ASSUME m.kind = "report", StoreReport(m.uuid, m.res, m.info), UNCHANGED abandoned
          PROVE OwnInv'
      <3>1. m.uuid \in Client /\ m.res \in Resource /\ owner[m.uuid] = m.res
        BY <2>1, <2>4 DEF Request, OwnInv, FlightOwn
      <3>2. NoCrossReporting'
        BY <2>4, <3>1, DeliveryAssumption
        DEF StoreReport, OwnInv, NoCrossReporting, TypeInv, TypeOK, DeliveryAssumption
      <3> QED
        BY <1>2, <2>4, <3>2 DEF Arrive, StoreReport, OwnInv, BindingsAreOwn, Bound, JobOwn,
                                FlightOwn
    <2> QED
      BY <1>2, <2>2, <2>3, <2>4 DEF Arrive, LateRpc
  <1>3. ASSUME NEW u \in Client, DeleteClient(u) PROVE OwnInv'
    BY <1>3 DEF DeleteClient, OwnInv, BindingsAreOwn, Bound, JobOwn, FlightOwn,
                NoCrossReporting
  <1> QED
    BY <1>1, <1>2, <1>3 DEF Environment

LEMMA OwnStep == TypeInv /\ OwnInv /\ [Next]_vars => OwnInv'
  <1> SUFFICES ASSUME TypeInv, OwnInv, [Next]_vars PROVE OwnInv'
    OBVIOUS
  <1>1. CASE Next
    BY <1>1, OwnCycle, OwnEnvironment DEF Next
  <1>2. CASE UNCHANGED vars
    BY <1>2 DEF vars, storeVars, bridgeVars, serverVars, faultVars, OwnInv, BindingsAreOwn,
                Bound, JobOwn, FlightOwn, NoCrossReporting
  <1> QED
    BY <1>1, <1>2

\* Rows are only ever bound to clients registered for them, with any number of
\* bridges on one database and any faults (runner.go:353-366).
THEOREM BindingsOwn == Spec => []BindingsAreOwn
  <1>1. Spec => [](TypeInv /\ OwnInv)
    BY TypeInit, TypeStep, OwnInit, OwnStep, PTL DEF Spec
  <1> QED
    BY <1>1, PTL DEF OwnInv

\* The metrics of a resource never end up under the client of another, with any
\* number of bridges, late requests and faults (runner.go:349-390).
THEOREM ReportsOwn == Spec => []NoCrossReporting
  <1>1. Spec => [](TypeInv /\ OwnInv)
    BY TypeInit, TypeStep, OwnInit, OwnStep, PTL DEF Spec
  <1> QED
    BY <1>1, PTL DEF OwnInv

-----------------------------------------------------------------------------
(* One bridge on the database.  What it holds between two statements is    *)
(* still what the row says, so a binding is saved once, is never           *)
(* overwritten, and everything sent under a client is sent under a bound   *)
(* one.                                                                    *)

SingleBridge == \A a, b \in Bridge : a = b

RowAgrees(b) ==
    /\ pc[b] = "binding" => row[job[b].res] # "absent"
    /\ pc[b] \in {"register", "bind"} => row[job[b].res] = None
    /\ pc[b] \in {"basic", "report", "mark"} => row[job[b].res] = job[b].uuid

ReportSent(b) ==
    pc[b] = "mark" => last[job[b].uuid] # None /\ last[job[b].uuid].res = job[b].res

FlightBound ==
    \A m \in flight : m.kind # "register" => \E r \in Resource : row[r] = m.uuid

SingleInv ==
    /\ \A b \in Bridge : RowAgrees(b)
    /\ \A b \in Bridge : ReportSent(b)
    /\ FlightBound
    /\ NoClientForgotten
    /\ HistoryIsBound
    /\ ReportedIsTrue

RowsKept == \A r \in Resource : Bound(r) => row'[r] = row[r]

LEMMA SingleInit == Init => SingleInv
  BY DeliveryAssumption
  DEF Init, SingleInv, RowAgrees, ReportSent, FlightBound, NoClientForgotten,
      HistoryIsBound, ReportedIsTrue, DeliveryAssumption

\* The bridge goes on with its snapshot while the rows and the server stay.
LEMMA MoveSingle ==
    ASSUME SingleBridge, TypeInv, SingleInv, NEW b \in Bridge,
           UNCHANGED <<row, serverVars>>,
           pc[b] = "bind" => \/ pc'[b] = "bind" /\ job'[b].uuid = job[b].uuid
                             \/ job[b].uuid \in abandoned',
           abandoned \subseteq abandoned',
           RowAgrees(b)', ReportSent(b)', FlightBound', ReportedIsTrue'
    PROVE  SingleInv' /\ RowsKept
  <1>1. \A c \in Bridge : RowAgrees(c)' /\ ReportSent(c)'
    BY DEF SingleBridge
  <1>2. NoClientForgotten'
    BY DEF SingleBridge, SingleInv, NoClientForgotten, serverVars
  <1>3. HistoryIsBound'
    BY DEF SingleInv, HistoryIsBound, serverVars
  <1>4. RowsKept
    BY DEF RowsKept
  <1> QED
    BY <1>1, <1>2, <1>3, <1>4 DEF SingleInv

LEMMA FailsSingle ==
    ASSUME SingleBridge, TypeInv, SingleInv, NEW b \in Bridge, NEW m \in Request, NEW any,
           Fails(b, m, any), pc[b] # "bind",
           m.kind # "register" => \E r \in Resource : row[r] = m.uuid
    PROVE  SingleInv' /\ RowsKept
  <1>1. RowAgrees(b)' /\ ReportSent(b)'
    BY DEF Fails, Return, RowAgrees, ReportSent, TypeInv, TypeOK
  <1>2. FlightBound'
    BY DEF Fails, SingleInv, FlightBound, storeVars
  <1>3. ReportedIsTrue'
    BY DEF Fails, SingleInv, ReportedIsTrue, Bound, storeVars, serverVars
  <1> QED
    BY <1>1, <1>2, <1>3, MoveSingle DEF Fails, storeVars

LEMMA StatementFailsSingle ==
    ASSUME SingleBridge, TypeInv, SingleInv, NEW b \in Bridge, StatementFails(b),
           abandoned \subseteq abandoned',
           pc[b] = "bind" => job[b].uuid \in abandoned'
    PROVE  SingleInv' /\ RowsKept
  <1>1. RowAgrees(b)' /\ ReportSent(b)'
    BY DEF StatementFails, Return, RowAgrees, ReportSent, TypeInv, TypeOK
  <1>2. FlightBound'
    BY DEF StatementFails, SingleInv, FlightBound, storeVars
  <1>3. ReportedIsTrue'
    BY DEF StatementFails, SingleInv, ReportedIsTrue, Bound, storeVars, serverVars
  <1> QED
    BY <1>1, <1>2, <1>3, MoveSingle DEF StatementFails, storeVars

\* A row that is bound, for the first time or not, to u and no other row moved.
LEMMA RowWritten ==
    ASSUME TypeInv, NEW r \in Resource, NEW u \in Client \cup {None}, ~Bound(r),
           row' = [row EXCEPT ![r] = u]
    PROVE  /\ RowsKept
           /\ row'[r] = u
           /\ \A v \in Client : (\E q \in Resource : row[q] = v)
                                  => \E q \in Resource : row'[q] = v
  BY DEF RowsKept, Bound, TypeInv, TypeOK

LEMMA SingleCycle ==
    ASSUME SingleBridge, TypeInv, OwnInv, SingleInv, NEW b \in Bridge, Cycle(b)
    PROVE  SingleInv' /\ RowsKept
  <1> USE DEF storeVars, faultVars
  <1>0. RowAgrees(b) /\ ReportSent(b)
    BY DEF SingleInv
  <1>1. ASSUME NEW rs \in SUBSET Resource \ {{}}, StartCycle(b, rs)
        PROVE SingleInv' /\ RowsKept
    BY <1>0, <1>1, MoveSingle DEF StartCycle, SingleInv, RowAgrees, ReportSent, FlightBound,
                            ReportedIsTrue, Bound, serverVars
  <1>2. ASSUME NEW r \in Resource, Drop(b, r) PROVE SingleInv' /\ RowsKept
    BY <1>0, <1>2, MoveSingle DEF Drop, SingleInv, RowAgrees, ReportSent, FlightBound,
                            ReportedIsTrue, Bound, serverVars
  <1>3. ASSUME NEW r \in Resource, NEW s \in Snapshot, Take(b, r, s)
        PROVE SingleInv' /\ RowsKept
    <2>1. RowAgrees(b)' /\ ReportSent(b)'
      BY <1>3 DEF Take, RowAgrees, ReportSent, TypeInv, TypeOK
    <2> QED
      BY <1>3, <2>1, MoveSingle DEF Take, At, SingleInv, FlightBound, ReportedIsTrue, Bound,
                                    serverVars
  <1>4. CASE Observe(b)
    <2> DEFINE r == job[b].res
    <2>1. r \in Resource
      BY <1>4, JobFields DEF Observe, At, TypeInv, JobOK
    <2>2. ASSUME Goto(b, "binding"),
                 row' = [row EXCEPT ![r] = IF @ = "absent" THEN None ELSE @],
                 UNCHANGED <<reported, serverVars, faultVars, pending, hash>>
          PROVE SingleInv' /\ RowsKept
      <3>1. \A q \in Resource : row[q] # "absent" => row'[q] = row[q]
        BY <2>1, <2>2 DEF TypeInv, TypeOK
      <3>2. RowsKept /\ \A v \in Client : (\E q \in Resource : row[q] = v)
                                        => \E q \in Resource : row'[q] = v
        BY <3>1, DeliveryAssumption DEF RowsKept, Bound, DeliveryAssumption
      <3>3. RowAgrees(b)' /\ ReportSent(b)'
        BY <2>1, <2>2, DeliveryAssumption
        DEF Goto, RowAgrees, ReportSent, TypeInv, TypeOK, DeliveryAssumption
      <3>4. FlightBound' /\ HistoryIsBound'
        <4>1. \A m \in flight : m.kind # "register" => m.uuid \in Client
          BY DEF TypeInv, TypeOK, Request
        <4> QED
          BY <2>2, <3>2, <4>1 DEF SingleInv, FlightBound, HistoryIsBound, serverVars
      <3>5. NoClientForgotten'
        BY <1>4, <2>2, <3>2 DEF Observe, At, Goto, SingleInv, NoClientForgotten, SingleBridge,
                                serverVars, TypeInv, TypeOK
      <3>6. ReportedIsTrue'
        BY <2>2, <3>2 DEF RowsKept, SingleInv, ReportedIsTrue, Bound, serverVars, TypeInv, TypeOK
      <3> QED
        BY <3>2, <3>3, <3>4, <3>5, <3>6 DEF SingleInv, SingleBridge
    <2> QED
      BY <1>4, <2>2, StatementFailsSingle DEF Observe, At
  <1>5. CASE LookUp(b)
    <2>1. job[b] \in Job /\ job[b].res \in Resource
      BY <1>5, JobFields DEF LookUp, At, TypeInv, JobOK
    <2>2. ASSUME IF Bound(job[b].res) THEN Hold(b, row[job[b].res], "basic")
                                      ELSE Goto(b, "register"),
                 UNCHANGED <<storeVars, serverVars, faultVars, pending, hash>>
          PROVE SingleInv' /\ RowsKept
      <3>1. RowAgrees(b)' /\ ReportSent(b)'
        <4>1. CASE Bound(job[b].res)
          BY <2>1, <2>2, <4>1 DEF Hold, RowAgrees, ReportSent, TypeInv, TypeOK, Job
        <4>2. CASE ~Bound(job[b].res)
          BY <1>0, <1>5, <2>1, <2>2, <4>2
          DEF LookUp, At, Goto, RowAgrees, ReportSent, Bound, TypeInv, TypeOK
        <4> QED
          BY <4>1, <4>2
      <3> QED
        BY <1>5, <2>2, <3>1, MoveSingle
        DEF LookUp, At, SingleInv, FlightBound, ReportedIsTrue, Bound, serverVars
    <2> QED
      BY <1>5, <2>2, StatementFailsSingle DEF LookUp, At
  <1>6. CASE Register(b)
    <2>1. job[b] \in Job /\ job[b].res \in Resource /\ row[job[b].res] = None
      BY <1>0, <1>6, JobFields DEF Register, At, TypeInv, JobOK, RowAgrees
    <2>2. ASSUME NEW u \in Fresh, CreateClient(job[b].res, u), Hold(b, u, "bind"),
                 UNCHANGED <<storeVars, faultVars, pending, hash>>
          PROVE SingleInv' /\ RowsKept
      <3>1. RowAgrees(b)' /\ ReportSent(b)'
        BY <2>1, <2>2 DEF Hold, RowAgrees, ReportSent, TypeInv, TypeOK, Job
      <3>2. pc'[b] = "bind" /\ job'[b].uuid = u
        BY <2>1, <2>2 DEF Hold, TypeInv, TypeOK, Job
      <3>3. NoClientForgotten'
        BY <1>6, <2>2, <3>2 DEF Register, At, Fresh, CreateClient, SingleInv,
                                NoClientForgotten, SingleBridge, TypeInv, TypeOK
      <3>4. HistoryIsBound' /\ FlightBound' /\ ReportedIsTrue' /\ RowsKept
        BY <2>2 DEF CreateClient, SingleInv, HistoryIsBound, FlightBound, ReportedIsTrue,
                    Bound, RowsKept
      <3> QED
        BY <3>1, <3>3, <3>4 DEF SingleInv, SingleBridge
    <2>3. [kind |-> "register", res |-> job[b].res] \in Request
      BY <2>1 DEF Request
    <2> QED
      BY <1>6, <2>2, <2>3, FailsSingle DEF Register, At
  <1>7. CASE Bind(b)
    <2> DEFINE r == job[b].res
               u == job[b].uuid
    <2>1. r \in Resource /\ u \in Client /\ row[r] = None
      BY <1>0, <1>7, JobFields DEF Bind, At, TypeInv, JobOK, RowAgrees
    <2>2. ASSUME Goto(b, "basic"), row' = [row EXCEPT ![r] = u],
                 UNCHANGED <<reported, serverVars, faultVars, pending, hash>>
          PROVE SingleInv' /\ RowsKept
      <3>1. /\ RowsKept /\ row'[r] = u
            /\ \A v \in Client : (\E q \in Resource : row[q] = v)
                                  => \E q \in Resource : row'[q] = v
        BY <2>1, <2>2, RowWritten, DeliveryAssumption DEF Bound, DeliveryAssumption
      <3>2. RowAgrees(b)' /\ ReportSent(b)'
        BY <2>2, <3>1 DEF Goto, RowAgrees, ReportSent, TypeInv, TypeOK
      <3>3. FlightBound' /\ HistoryIsBound'
        <4>1. \A m \in flight : m.kind # "register" => m.uuid \in Client
          BY DEF TypeInv, TypeOK, Request
        <4> QED
          BY <2>2, <3>1, <4>1 DEF SingleInv, FlightBound, HistoryIsBound, serverVars
      <3>4. NoClientForgotten'
        BY <2>1, <2>2, <3>1 DEF SingleInv, NoClientForgotten, SingleBridge, serverVars
      <3>5. ReportedIsTrue'
        BY <2>2, <3>1 DEF RowsKept, SingleInv, ReportedIsTrue, Bound, serverVars, TypeInv, TypeOK
      <3> QED
        BY <3>1, <3>2, <3>3, <3>4, <3>5 DEF SingleInv, SingleBridge
    <2> QED
      BY <1>7, <2>2, StatementFailsSingle DEF Bind, At
  <1>8. CASE FinishOffline(b)
    <2>1. RowAgrees(b)' /\ ReportSent(b)'
      BY <1>8 DEF FinishOffline, Return, RowAgrees, ReportSent, TypeInv, TypeOK
    <2> QED
      BY <1>8, <2>1, MoveSingle DEF FinishOffline, At, SingleInv, FlightBound,
                                    ReportedIsTrue, Bound, serverVars
  <1>9. CASE SkipBasicInfo(b)
    <2>1. RowAgrees(b)' /\ ReportSent(b)'
      BY <1>0, <1>9 DEF SkipBasicInfo, At, Goto, RowAgrees, ReportSent, TypeInv, TypeOK
    <2> QED
      BY <1>9, <2>1, MoveSingle DEF SkipBasicInfo, At, SingleInv, FlightBound,
                                    ReportedIsTrue, Bound, serverVars
  <1>10. CASE UploadBasicInfo(b)
    <2> DEFINE u == job[b].uuid
               i == job[b].snap.info
    <2>1. /\ u \in Client /\ i \in Info /\ job[b].res \in Resource
          /\ row[job[b].res] = u
      BY <1>0, <1>10, JobFields DEF UploadBasicInfo, At, TypeInv, JobOK, RowAgrees
    <2>2. ASSUME StoreInfo(u, i), Goto(b, "report"), UNCHANGED <<storeVars, faultVars, pending>>
          PROVE SingleInv' /\ RowsKept
      <3>1. RowAgrees(b)' /\ ReportSent(b)'
        BY <2>1, <2>2 DEF Goto, RowAgrees, ReportSent, TypeInv, TypeOK
      <3>2. HistoryIsBound'
        BY <2>1, <2>2 DEF StoreInfo, SingleInv, HistoryIsBound, TypeInv, TypeOK
      <3>3. NoClientForgotten'
        BY <1>10, <2>2 DEF UploadBasicInfo, At, StoreInfo, SingleInv, NoClientForgotten,
                           SingleBridge, TypeInv, TypeOK
      <3>4. FlightBound' /\ ReportedIsTrue' /\ RowsKept
        BY <2>2 DEF StoreInfo, SingleInv, FlightBound, ReportedIsTrue, Bound, RowsKept
      <3> QED
        BY <3>1, <3>2, <3>3, <3>4 DEF SingleInv, SingleBridge
    <2>3. [kind |-> "info", uuid |-> u, info |-> i] \in Request
      BY <2>1 DEF Request
    <2> QED
      BY <1>10, <2>1, <2>2, <2>3, FailsSingle DEF UploadBasicInfo, At
  <1>11. CASE Report(b)
    <2> DEFINE u == job[b].uuid
               r == job[b].res
               i == job[b].snap.info
    <2>1. u \in Client /\ r \in Resource /\ i \in Info /\ row[r] = u /\ owner[u] = r
      BY <1>0, <1>11, JobFields
      DEF Report, At, TypeInv, JobOK, RowAgrees, OwnInv, JobOwn
    <2>2. ASSUME StoreReport(u, r, i), Goto(b, "mark"),
                 UNCHANGED <<storeVars, faultVars, pending, hash>>
          PROVE SingleInv' /\ RowsKept
      <3>1. /\ last' = [last EXCEPT ![u] = [res |-> r, info |-> i, against |-> shown[u]]]
            /\ owner' = owner /\ shown' = shown
            /\ last'[u] = [res |-> r, info |-> i, against |-> shown[u]]
        BY <2>1, <2>2 DEF StoreReport, TypeInv, TypeOK
      <3>2. [res |-> r, info |-> i, against |-> shown[u]] # None
        <4>1. [res |-> r, info |-> i, against |-> shown[u]] \in Received
          BY <2>1 DEF TypeInv, TypeOK, Received
        <4> QED
          BY <4>1, DeliveryAssumption DEF DeliveryAssumption
      <3>3. RowAgrees(b)' /\ ReportSent(b)'
        BY <2>1, <2>2, <3>1, <3>2 DEF Goto, RowAgrees, ReportSent, TypeInv, TypeOK
      <3>4. HistoryIsBound'
        BY <2>1, <2>2, <3>1 DEF SingleInv, HistoryIsBound, TypeInv, TypeOK
      <3>5. NoClientForgotten'
        BY <1>11, <2>2, <3>1 DEF Report, At, SingleInv, NoClientForgotten, SingleBridge
      <3>6. ReportedIsTrue'
        BY <2>1, <2>2, <3>1, <3>2
        DEF SingleInv, ReportedIsTrue, OwnInv, BindingsAreOwn, Bound, TypeInv, TypeOK
      <3>7. FlightBound' /\ RowsKept
        BY <2>2 DEF SingleInv, FlightBound, RowsKept
      <3> QED
        BY <3>3, <3>4, <3>5, <3>6, <3>7 DEF SingleInv, SingleBridge
    <2>3. [kind |-> "report", uuid |-> u, res |-> r, info |-> i] \in Request
      BY <2>1 DEF Request
    <2> QED
      BY <1>11, <2>1, <2>2, <2>3, FailsSingle DEF Report, At
  <1>12. CASE MarkReported(b)
    <2>1. job[b].res \in Resource /\ job[b].uuid \in Client
      BY <1>12, JobFields DEF MarkReported, At, TypeInv, JobOK
    <2>2. ASSUME reported' = reported \cup {job[b].res}, Return(b),
                 UNCHANGED <<row, serverVars, faultVars, pending, hash>>
          PROVE SingleInv' /\ RowsKept
      <3>1. RowAgrees(b)' /\ ReportSent(b)'
        BY <2>2 DEF Return, RowAgrees, ReportSent, TypeInv, TypeOK
      <3>2. ReportedIsTrue'
        BY <1>0, <1>12, <2>1, <2>2 DEF MarkReported, At, RowAgrees, ReportSent, SingleInv,
                                  ReportedIsTrue, Bound, serverVars
      <3> QED
        BY <1>12, <2>2, <3>1, <3>2, MoveSingle
        DEF MarkReported, At, SingleInv, FlightBound
    <2> QED
      BY <1>12, <2>2, StatementFailsSingle DEF MarkReported, At
  <1> QED
    BY <1>1, <1>2, <1>3, <1>4, <1>5, <1>6, <1>7, <1>8, <1>9, <1>10, <1>11, <1>12
    DEF Cycle, Process

LEMMA SingleEnvironment ==
    ASSUME SingleBridge, TypeInv, OwnInv, SingleInv, Environment
    PROVE  SingleInv' /\ RowsKept
  <1> USE DEF storeVars
  <1>1. ASSUME NEW b \in Bridge, Crash(b) PROVE SingleInv' /\ RowsKept
    <2>1. RowAgrees(b)' /\ ReportSent(b)'
      BY <1>1 DEF Crash, Return, RowAgrees, ReportSent, TypeInv, TypeOK
    <2> QED
      BY <1>1, <2>1, MoveSingle DEF Crash, At, SingleInv, FlightBound, ReportedIsTrue, Bound,
                                    serverVars
  <1>2. ASSUME NEW m \in flight, Arrive(m) PROVE SingleInv' /\ RowsKept
    <2> USE <1>2 DEF Arrive, bridgeVars
    <2>1. m \in Request /\ \A n \in flight : n.kind = "report" => n.uuid \in Client
      BY DEF TypeInv, TypeOK, Request
    <2>2. FlightBound' /\ RowsKept
      BY DEF SingleInv, FlightBound, RowsKept
    <2>3. CASE LateRegister(m)
      <3>1. \A b \in Bridge : RowAgrees(b)' /\ ReportSent(b)'
        BY <2>3 DEF LateRegister, CreateClient, SingleInv, RowAgrees, ReportSent
      <3>2. NoClientForgotten'
        BY <2>3 DEF LateRegister, CreateClient, Fresh, SingleInv, NoClientForgotten,
                    TypeInv, TypeOK
      <3>3. HistoryIsBound' /\ ReportedIsTrue'
        BY <2>3 DEF LateRegister, CreateClient, SingleInv, HistoryIsBound, ReportedIsTrue, Bound
      <3> QED
        BY <2>2, <3>1, <3>2, <3>3 DEF SingleInv
    <2>4. ASSUME m.kind = "info", StoreInfo(m.uuid, m.info), UNCHANGED abandoned
          PROVE SingleInv' /\ RowsKept
      <3>1. HistoryIsBound'
        BY <2>1, <2>4 DEF StoreInfo, Request, SingleInv, FlightBound, HistoryIsBound,
                          TypeInv, TypeOK
      <3>2. \A b \in Bridge : RowAgrees(b)' /\ ReportSent(b)'
        BY <2>4 DEF StoreInfo, SingleInv, RowAgrees, ReportSent
      <3>3. NoClientForgotten' /\ ReportedIsTrue'
        BY <2>4 DEF StoreInfo, SingleInv, NoClientForgotten, ReportedIsTrue, Bound
      <3> QED
        BY <2>2, <3>1, <3>2, <3>3 DEF SingleInv
    <2>5. ASSUME m.kind = "report", StoreReport(m.uuid, m.res, m.info), UNCHANGED abandoned
          PROVE SingleInv' /\ RowsKept
      <3> DEFINE rep == [res |-> m.res, info |-> m.info, against |-> shown[m.uuid]]
      <3>1. m.uuid \in Client /\ m.res \in Resource /\ m.info \in Info
            /\ owner[m.uuid] = m.res
        BY <2>1, <2>5 DEF Request, OwnInv, FlightOwn
      <3>2. rep \in Received /\ rep # None /\ rep.res = m.res
        BY <3>1, DeliveryAssumption DEF TypeInv, TypeOK, Received, DeliveryAssumption
      <3>3. \A u \in Client : last'[u] = IF u = m.uuid THEN rep ELSE last[u]
        BY <2>5, <3>1 DEF StoreReport, TypeInv, TypeOK
      <3> HIDE DEF rep
      <3>4. HistoryIsBound'
        BY <2>5, <3>1, <3>3 DEF StoreReport, SingleInv, FlightBound, HistoryIsBound
      <3>5. \A b \in Bridge : RowAgrees(b)' /\ ReportSent(b)'
        <4> TAKE b \in Bridge
        <4>1. RowAgrees(b)'
          BY DEF SingleInv, RowAgrees
        <4>2. ReportSent(b)'
          <5>1. CASE pc[b] = "mark"
            <6>1. job[b].uuid \in Client /\ owner[job[b].uuid] = job[b].res
              BY <5>1 DEF TypeInv, JobOK, OwnInv, JobOwn
            <6> QED
              BY <5>1, <6>1, <3>1, <3>2, <3>3 DEF SingleInv, ReportSent
          <5> QED
            BY <5>1 DEF ReportSent
        <4> QED
          BY <4>1, <4>2
      <3>6. NoClientForgotten'
        BY <2>5 DEF StoreReport, SingleInv, NoClientForgotten
      <3>7. ReportedIsTrue'
        BY <2>5, <3>1, <3>2, <3>3
        DEF StoreReport, SingleInv, ReportedIsTrue, OwnInv, BindingsAreOwn, Bound,
            TypeInv, TypeOK
      <3> QED
        BY <2>2, <3>4, <3>5, <3>6, <3>7 DEF SingleInv
    <2> QED
      BY <2>3, <2>4, <2>5 DEF LateRpc
  <1>3. ASSUME NEW u \in Client, DeleteClient(u) PROVE SingleInv' /\ RowsKept
    BY <1>3 DEF DeleteClient, bridgeVars, SingleInv, RowAgrees, ReportSent, FlightBound,
                NoClientForgotten, HistoryIsBound, ReportedIsTrue, Bound, RowsKept
  <1> QED
    BY <1>1, <1>2, <1>3 DEF Environment

LEMMA SingleStep ==
    ASSUME SingleBridge, TypeInv, OwnInv, SingleInv, [Next]_vars
    PROVE  SingleInv' /\ RowsKept
  <1>1. CASE Next
    BY <1>1, SingleCycle, SingleEnvironment DEF Next
  <1>2. CASE UNCHANGED vars
    BY <1>2 DEF vars, storeVars, bridgeVars, serverVars, faultVars, SingleInv, RowAgrees,
                ReportSent, FlightBound, NoClientForgotten, HistoryIsBound, ReportedIsTrue,
                Bound, RowsKept
  <1> QED
    BY <1>1, <1>2

Inv == TypeInv /\ OwnInv /\ SingleInv

LEMMA InvHolds == SingleBridge => (Spec => []Inv)
  <1> SUFFICES ASSUME SingleBridge PROVE Spec => []Inv
    OBVIOUS
  <1>1. Init => Inv
    BY TypeInit, OwnInit, SingleInit DEF Inv
  <1>2. Inv /\ [Next]_vars => Inv'
    BY TypeStep, OwnStep, SingleStep DEF Inv
  <1> QED
    BY <1>1, <1>2, PTL DEF Spec

\* A single bridge never forgets a client it registered but through a fault
\* between registration and binding (runner.go:353-366).
THEOREM ClientsKept == SingleBridge => (Spec => []NoClientForgotten)
  BY InvHolds, PTL DEF Inv, SingleInv

\* A single bridge sends metrics only under clients that a row keeps
\* (runner.go:364-387).
THEOREM HistoryKept == SingleBridge => (Spec => []HistoryIsBound)
  BY InvHolds, PTL DEF Inv, SingleInv

\* A last_reported time is never written for a report the server does not have
\* (runner.go:387-390).
THEOREM MarksAreTrue == SingleBridge => (Spec => []ReportedIsTrue)
  BY InvHolds, PTL DEF Inv, SingleInv

\* A single bridge binds a row once, for ever (runner.go:353-364, store.go:75-87).
THEOREM BindingsPermanent == SingleBridge => (Spec => BindingPermanent)
  <1> SUFFICES ASSUME SingleBridge PROVE Spec => BindingPermanent
    OBVIOUS
  <1>1. Inv /\ [Next]_vars => [\A r \in Resource : Bound(r) => row'[r] = row[r]]_vars
    BY SingleStep DEF Inv, RowsKept
  <1> QED
    BY <1>1, InvHolds, PTL DEF Spec, BindingPermanent

-----------------------------------------------------------------------------
(* One bridge whose every request is answered, or has no effect: what the  *)
(* bridge remembers of the basic info is what the server shows.            *)

AllAnswered == "unanswered" \notin FaultKind

HashTrue ==
    \A b \in Bridge, u \in Client : hash[b][u] # None => shown[u] = hash[b][u]

InfoShown(b) == pc[b] = "report" => shown[job[b].uuid] = job[b].snap.info

AnsweredInv ==
    /\ flight = {}
    /\ HashTrue
    /\ \A b \in Bridge : InfoShown(b)
    /\ ReportedAgainstOwnInfo

LEMMA AnsweredInit == Init => AnsweredInv
  BY DEF Init, AnsweredInv, HashTrue, InfoShown, ReportedAgainstOwnInfo

LEMMA FailsAnswered ==
    ASSUME SingleBridge, AllAnswered, TypeInv, AnsweredInv, NEW b \in Bridge, NEW m, NEW any,
           Fails(b, m, any)
    PROVE  AnsweredInv'
  BY DEF Fails, Fault, AllAnswered, Return, AnsweredInv, HashTrue, InfoShown, SingleBridge,
         ReportedAgainstOwnInfo, TypeInv, TypeOK, serverVars

LEMMA StatementFailsAnswered ==
    ASSUME SingleBridge, TypeInv, AnsweredInv, NEW b \in Bridge, StatementFails(b)
    PROVE  AnsweredInv'
  BY DEF StatementFails, Return, AnsweredInv, HashTrue, InfoShown, SingleBridge,
         ReportedAgainstOwnInfo, TypeInv, TypeOK, serverVars

LEMMA AnsweredStep ==
    ASSUME SingleBridge, AllAnswered, TypeInv, AnsweredInv, [Next]_vars
    PROVE  AnsweredInv'
  <1> USE DEF storeVars, serverVars, faultVars, AnsweredInv
  <1>1. ASSUME NEW b \in Bridge, NEW rs, StartCycle(b, rs) PROVE AnsweredInv'
    BY <1>1 DEF StartCycle, HashTrue, InfoShown, ReportedAgainstOwnInfo
  <1>2. ASSUME NEW b \in Bridge, NEW r \in Resource, Drop(b, r) PROVE AnsweredInv'
    BY <1>2 DEF Drop, HashTrue, InfoShown, ReportedAgainstOwnInfo
  <1>3. ASSUME NEW b \in Bridge, NEW r \in Resource, NEW s \in Snapshot, Take(b, r, s)
        PROVE AnsweredInv'
    BY <1>3 DEF Take, HashTrue, InfoShown, ReportedAgainstOwnInfo, SingleBridge, TypeInv, TypeOK
  <1>4. ASSUME NEW b \in Bridge, Observe(b) PROVE AnsweredInv'
    BY <1>4, StatementFailsAnswered
    DEF Observe, Goto, HashTrue, InfoShown, ReportedAgainstOwnInfo, SingleBridge, TypeInv, TypeOK
  <1>5. ASSUME NEW b \in Bridge, LookUp(b) PROVE AnsweredInv'
    BY <1>5, StatementFailsAnswered
    DEF LookUp, Goto, Hold, HashTrue, InfoShown, ReportedAgainstOwnInfo, SingleBridge,
        TypeInv, TypeOK
  <1>6. ASSUME NEW b \in Bridge, Register(b) PROVE AnsweredInv'
    BY <1>6, FailsAnswered
    DEF Register, Hold, CreateClient, HashTrue, InfoShown, ReportedAgainstOwnInfo,
        SingleBridge, TypeInv, TypeOK
  <1>7. ASSUME NEW b \in Bridge, Bind(b) PROVE AnsweredInv'
    BY <1>7, StatementFailsAnswered
    DEF Bind, Goto, HashTrue, InfoShown, ReportedAgainstOwnInfo, SingleBridge, TypeInv, TypeOK
  <1>8. ASSUME NEW b \in Bridge, FinishOffline(b) PROVE AnsweredInv'
    BY <1>8
    DEF FinishOffline, Return, HashTrue, InfoShown, ReportedAgainstOwnInfo, SingleBridge,
        TypeInv, TypeOK
  <1>9. ASSUME NEW b \in Bridge, SkipBasicInfo(b) PROVE AnsweredInv'
    <2>1. /\ job[b].uuid \in Client /\ job[b].snap.info \in Info
          /\ hash[b][job[b].uuid] = job[b].snap.info
      BY <1>9, JobFields DEF SkipBasicInfo, At, Current, TypeInv, JobOK
    <2>2. shown[job[b].uuid] = job[b].snap.info
      BY <2>1, DeliveryAssumption DEF HashTrue, DeliveryAssumption
    <2> QED
      BY <1>9, <2>2 DEF SkipBasicInfo, Goto, HashTrue, InfoShown, ReportedAgainstOwnInfo,
                        SingleBridge
  <1>10. ASSUME NEW b \in Bridge, UploadBasicInfo(b) PROVE AnsweredInv'
    <2> DEFINE u == job[b].uuid
               i == job[b].snap.info
    <2>1. u \in Client /\ i \in Info
      BY <1>10, JobFields DEF UploadBasicInfo, At, TypeInv, JobOK
    <2>2. ASSUME StoreInfo(u, i), MarkBasicInfo(b, u, i), Goto(b, "report"),
                 UNCHANGED <<storeVars, faultVars, pending>>
          PROVE AnsweredInv'
      <3>1. shown' = [shown EXCEPT ![u] = i] /\ shown'[u] = i
        BY <2>1, <2>2 DEF StoreInfo, TypeInv, TypeOK
      <3>2. HashTrue'
        BY <2>1, <2>2, <3>1 DEF MarkBasicInfo, HashTrue, SingleBridge, TypeInv, TypeOK
      <3>3. \A c \in Bridge : InfoShown(c)'
        BY <2>2, <3>1 DEF Goto, InfoShown, SingleBridge
      <3> QED
        BY <2>2, <3>2, <3>3 DEF StoreInfo, ReportedAgainstOwnInfo
    <2> QED
      BY <1>10, <2>2, FailsAnswered DEF UploadBasicInfo
  <1>11. ASSUME NEW b \in Bridge, Report(b) PROVE AnsweredInv'
    <2> DEFINE u == job[b].uuid
               r == job[b].res
               i == job[b].snap.info
    <2>1. u \in Client /\ shown[u] = i
      BY <1>11 DEF Report, At, InfoShown, TypeInv, JobOK
    <2>2. ASSUME StoreReport(u, r, i), Goto(b, "mark"),
                 UNCHANGED <<storeVars, faultVars, pending, hash>>
          PROVE AnsweredInv'
      <3>1. ReportedAgainstOwnInfo'
        BY <2>1, <2>2 DEF StoreReport, ReportedAgainstOwnInfo, TypeInv, TypeOK
      <3>2. \A c \in Bridge : InfoShown(c)'
        BY <2>2 DEF Goto, InfoShown, SingleBridge, TypeInv, TypeOK
      <3> QED
        BY <2>2, <3>1, <3>2 DEF StoreReport, HashTrue
    <2> QED
      BY <1>11, <2>2, FailsAnswered DEF Report
  <1>12. ASSUME NEW b \in Bridge, MarkReported(b) PROVE AnsweredInv'
    BY <1>12, StatementFailsAnswered
    DEF MarkReported, Return, HashTrue, InfoShown, ReportedAgainstOwnInfo, SingleBridge,
        TypeInv, TypeOK
  <1>13. ASSUME NEW b \in Bridge, Crash(b) PROVE AnsweredInv'
    BY <1>13
    DEF Crash, Return, HashTrue, InfoShown, ReportedAgainstOwnInfo, SingleBridge, TypeInv, TypeOK
  <1>14. ASSUME NEW m \in flight, Arrive(m) PROVE AnsweredInv'
    BY <1>14
  <1>15. ASSUME NEW u \in Client, DeleteClient(u) PROVE AnsweredInv'
    BY <1>15 DEF DeleteClient, bridgeVars, HashTrue, InfoShown, ReportedAgainstOwnInfo
  <1>16. CASE UNCHANGED vars
    BY <1>16 DEF vars, bridgeVars, HashTrue, InfoShown, ReportedAgainstOwnInfo
  <1> QED
    BY <1>1, <1>2, <1>3, <1>4, <1>5, <1>6, <1>7, <1>8, <1>9, <1>10, <1>11, <1>12, <1>13,
       <1>14, <1>15, <1>16
    DEF Next, Cycle, Process, Environment

\* As long as no request is applied without its answer being read, Komari shows
\* every report beside the basic info of the same snapshot, through crashes,
\* refusals, failing statements and deletions (runner.go:377-389).
THEOREM InfoMatchesReports ==
    SingleBridge /\ AllAnswered => (Spec => []ReportedAgainstOwnInfo)
  <1> SUFFICES ASSUME SingleBridge, AllAnswered PROVE Spec => []ReportedAgainstOwnInfo
    OBVIOUS
  <1>1. TypeInv /\ AnsweredInv /\ [Next]_vars => (TypeInv /\ AnsweredInv)'
    BY TypeStep, AnsweredStep
  <1>2. AnsweredInv => ReportedAgainstOwnInfo
    BY DEF AnsweredInv
  <1> QED
    BY <1>1, <1>2, TypeInit, AnsweredInit, PTL DEF Spec

-----------------------------------------------------------------------------
(* Refinement of ClientRegistry by one bridge. *)

LEMMA AdoptStep ==
    ASSUME Inv, NEW r \in Resource, NEW u \in Client, row[r] = None, owner[u] = r,
           row' = [row EXCEPT ![r] = u], UNCHANGED serverVars
    PROVE  Registry!Adopt(r, u)
  <1> USE DeliveryAssumption DEF DeliveryAssumption
  <1>1. ~Bound(r) /\ row'[r] = u /\ Bound(r)' /\ last' = last
    BY DEF Bound, Inv, TypeInv, TypeOK, serverVars
  <1>2. \A q \in Resource : row[q] # u
    BY DEF Inv, OwnInv, BindingsAreOwn, Bound
  <1>3. last[u] = None
    BY <1>2 DEF Inv, SingleInv, HistoryIsBound
  <1>4. \A q \in Resource : q # r => row'[q] = row[q]
    BY DEF Inv, TypeInv, TypeOK
  <1>5. [q \in Resource |-> ClientOf(q)]' =
            [[q \in Resource |-> ClientOf(q)] EXCEPT ![r] = u]
    BY <1>1, <1>4 DEF ClientOf, Bound
  <1>6. [q \in Resource |-> DisplayOf(q)]' = [q \in Resource |-> DisplayOf(q)]
    BY <1>1, <1>3, <1>4 DEF DisplayOf, Bound
  <1>7. \A q \in Resource : ClientOf(q) # u
    BY <1>2 DEF ClientOf
  <1> QED
    BY <1>1, <1>5, <1>6, <1>7 DEF Registry!Adopt, ClientOf

LEMMA PublishStep ==
    ASSUME Inv, NEW r \in Resource, NEW u \in Client, NEW i \in Info, row[r] = u,
           StoreReport(u, r, i), UNCHANGED row
    PROVE  Registry!Publish(r, i)
  <1> USE DeliveryAssumption DEF DeliveryAssumption
  <1> DEFINE rep == [res |-> r, info |-> i, against |-> shown[u]]
  <1>1. rep \in Received /\ rep # None /\ rep.res = r /\ rep.info = i
    BY DEF Inv, TypeInv, TypeOK, Received
  <1>2. \A v \in Client : last'[v] = IF v = u THEN rep ELSE last[v]
    BY DEF StoreReport, Inv, TypeInv, TypeOK
  <1>3. \A q \in Resource : q # r => row[q] # u
    BY DEF Inv, OwnInv, BindingsAreOwn, Bound
  <1> HIDE DEF rep
  <1>4. [q \in Resource |-> DisplayOf(q)]' =
            [[q \in Resource |-> DisplayOf(q)] EXCEPT ![r] = [res |-> r, info |-> i]]
    <2>1. DisplayOf(r)' = [res |-> r, info |-> i]
      BY <1>1, <1>2 DEF DisplayOf, Bound
    <2>2. \A q \in Resource : q # r => DisplayOf(q)' = DisplayOf(q)
      BY <1>2, <1>3 DEF DisplayOf, Bound
    <2> QED
      BY <2>1, <2>2
  <1>5. [q \in Resource |-> ClientOf(q)]' = [q \in Resource |-> ClientOf(q)]
    BY DEF ClientOf, Bound
  <1> QED
    BY <1>4, <1>5 DEF Registry!Publish, ClientOf, Bound

LEMMA StutterStep ==
    ASSUME \A r \in Resource : Bound(r)' = Bound(r) /\ (Bound(r) => row'[r] = row[r]),
           last' = last
    PROVE  UNCHANGED <<[r \in Resource |-> ClientOf(r)], [r \in Resource |-> DisplayOf(r)]>>
  BY DEF ClientOf, DisplayOf

LEMMA RefinementStep ==
    ASSUME SingleBridge, Inv, [Next]_vars
    PROVE  [Registry!Next]_<<[r \in Resource |-> ClientOf(r)],
                             [r \in Resource |-> DisplayOf(r)]>>
  <1> DEFINE Stutter == UNCHANGED <<[r \in Resource |-> ClientOf(r)],
                                    [r \in Resource |-> DisplayOf(r)]>>
  <1> USE DEF storeVars, serverVars, faultVars
  <1>0. ASSUME row' = row, last' = last PROVE Stutter
    BY <1>0, StutterStep DEF Bound
  <1> HIDE DEF Stutter
  <1>1. ASSUME NEW b \in Bridge, Observe(b) PROVE Stutter
    <2>1. CASE row' = [row EXCEPT ![job[b].res] = IF @ = "absent" THEN None ELSE @] /\ last' = last
      <3>1. \A r \in Resource : Bound(r)' = Bound(r) /\ (Bound(r) => row'[r] = row[r])
        BY <2>1, DeliveryAssumption DEF Bound, Inv, TypeInv, TypeOK, DeliveryAssumption
      <3> QED
        BY <2>1, <3>1, StutterStep DEF Stutter
    <2> QED
      BY <1>0, <1>1, <2>1 DEF Observe, StatementFails
  <1>2. ASSUME NEW b \in Bridge, Bind(b)
        PROVE Stutter \/ \E r \in Resource, u \in Client : Registry!Adopt(r, u)
    <2> DEFINE r == job[b].res
               u == job[b].uuid
    <2>1. r \in Resource /\ u \in Client /\ row[r] = None /\ owner[u] = r
      BY <1>2, JobFields DEF Bind, At, Inv, TypeInv, JobOK, OwnInv, JobOwn, SingleInv, RowAgrees
    <2>2. CASE row' = [row EXCEPT ![r] = u] /\ UNCHANGED serverVars
      BY <2>1, <2>2, AdoptStep
    <2> QED
      BY <1>0, <1>2, <2>2 DEF Bind, StatementFails
  <1>3. ASSUME NEW b \in Bridge, Report(b)
        PROVE Stutter \/ \E r \in Resource, i \in Info : Registry!Publish(r, i)
    <2> DEFINE r == job[b].res
               u == job[b].uuid
               i == job[b].snap.info
    <2>1. r \in Resource /\ u \in Client /\ i \in Info /\ row[r] = u
      BY <1>3, JobFields DEF Report, At, Inv, TypeInv, JobOK, SingleInv, RowAgrees
    <2>2. CASE StoreReport(u, r, i) /\ UNCHANGED row
      BY <2>1, <2>2, PublishStep
    <2> QED
      BY <1>0, <1>3, <2>2 DEF Report, Fails
  <1>4. ASSUME NEW m \in flight, Arrive(m)
        PROVE Stutter \/ \E r \in Resource, i \in Info : Registry!Publish(r, i)
    <2>1. CASE m.kind = "report" /\ StoreReport(m.uuid, m.res, m.info)
      <3>1. m.uuid \in Client /\ m.res \in Resource /\ m.info \in Info
            /\ owner[m.uuid] = m.res
        BY <2>1 DEF Inv, TypeInv, TypeOK, Request, OwnInv, FlightOwn
      <3>2. row[m.res] = m.uuid
        BY <2>1, <3>1 DEF Inv, SingleInv, FlightBound, OwnInv, BindingsAreOwn, Bound
      <3> QED
        BY <1>4, <2>1, <3>1, <3>2, PublishStep DEF Arrive
    <2>2. CASE m.kind # "report"
      BY <1>0, <1>4, <2>2 DEF Arrive, LateRegister, LateRpc, CreateClient, StoreInfo
    <2> QED
      BY <1>0, <1>4, <2>1, <2>2 DEF Arrive, LateRegister, LateRpc, CreateClient
  <1>5. ASSUME NEW b \in Bridge, Cycle(b)
        PROVE Stutter \/ Observe(b) \/ Bind(b) \/ Report(b)
    BY <1>0, <1>5 DEF Cycle, Process, StartCycle, Drop, Take, LookUp, Register, CreateClient,
                      FinishOffline, SkipBasicInfo, UploadBasicInfo, StoreInfo, MarkReported,
                      Fails, StatementFails
  <1>6. ASSUME Environment PROVE Stutter \/ \E m \in flight : Arrive(m)
    BY <1>0, <1>6 DEF Environment, Crash, DeleteClient
  <1>7. CASE UNCHANGED vars
    BY <1>0, <1>7 DEF vars, Stutter
  <1> QED
    BY <1>1, <1>2, <1>3, <1>4, <1>5, <1>6, <1>7 DEF Next, Registry!Next, Stutter

\* One bridge keeps the promise of ClientRegistry whatever fails: one client per
\* resource for ever, displaying only what that resource reported
\* (runner.go:349-391).
THEOREM RegistryImplemented == SingleBridge => (Spec => ImplementsRegistry)
  <1> SUFFICES ASSUME SingleBridge PROVE Spec => Registry!Spec
    BY DEF ImplementsRegistry
  <1>1. Init => Registry!Init
    BY DeliveryAssumption
    DEF Init, Registry!Init, ClientOf, DisplayOf, Bound, DeliveryAssumption
  <1>2. Inv /\ [Next]_vars => [Registry!Next]_<<[r \in Resource |-> ClientOf(r)],
                                                [r \in Resource |-> DisplayOf(r)]>>
    BY RefinementStep
  <1> QED
    BY <1>1, <1>2, InvHolds, PTL DEF Spec, Registry!Spec

-----------------------------------------------------------------------------
(* A cycle comes to an end. *)

\* The statements and requests a bridge still has ahead for the snapshot in hand.
StepsAhead(s) ==
    CASE s = "mark"     -> 1
      [] s = "report"   -> 2
      [] s = "basic"    -> 3
      [] s = "bind"     -> 4
      [] s = "register" -> 5
      [] s = "binding"  -> 6
      [] s = "observe"  -> 7
      [] OTHER          -> 0

Ahead(b) == StepsAhead(pc[b])

\* A step that is forward: later in process, or out of it.
LEMMA GotoForward ==
    ASSUME TypeInv, NEW b \in Bridge, NEW s,
           pc' = [pc EXCEPT ![b] = s], StepsAhead(s) < StepsAhead(pc[b])
    PROVE  Ahead(b)' < Ahead(b)
  BY DEF Ahead, TypeInv, TypeOK

\* Whether a statement or request of process works or fails, it is behind.
LEMMA ProcessForward ==
    ASSUME TypeInv, NEW b \in Bridge, Process(b)
    PROVE  Ahead(b)' < Ahead(b) /\ pending' = pending
  <1>1. /\ pending' = pending
        /\ \/ pc[b] = "observe"  /\ pc' = [pc EXCEPT ![b] = "binding"]
           \/ pc[b] = "binding"  /\ pc' = [pc EXCEPT ![b] = "basic"]
           \/ pc[b] = "binding"  /\ pc' = [pc EXCEPT ![b] = "register"]
           \/ pc[b] = "register" /\ pc' = [pc EXCEPT ![b] = "bind"]
           \/ pc[b] = "bind"     /\ pc' = [pc EXCEPT ![b] = "basic"]
           \/ pc[b] = "basic"    /\ pc' = [pc EXCEPT ![b] = "report"]
           \/ pc[b] = "report"   /\ pc' = [pc EXCEPT ![b] = "mark"]
           \/ pc[b] # "idle"     /\ pc' = [pc EXCEPT ![b] = "idle"]
    BY DEF Process, Observe, LookUp, Register, Bind, FinishOffline, SkipBasicInfo,
           UploadBasicInfo, Report, MarkReported, Goto, Hold, Return, Fails,
           StatementFails, At
  <1>2. pc[b] \in Step
    BY DEF TypeInv, TypeOK
  <1> QED
    BY <1>1, <1>2, GotoForward DEF StepsAhead, Step

\* A cycle is over after finitely many steps of its own, whatever they meet: at most
\* seven statements and requests for a snapshot, each behind for good whether it
\* works or fails, then the next snapshot, of which there are fewer; only the ticker
\* gives a bridge new ones, and no other bridge holds it up or sets it back
\* (runner.go:349-391).
THEOREM CyclesAdvance ==
    Spec => /\ [](\A b \in Bridge : Ahead(b) \in 0..7)
            /\ [][\A b \in Bridge :
                    /\ Process(b) => Ahead(b)' < Ahead(b) /\ pending' = pending
                    /\ pending[b] # {} \/ pc[b] # "idle" =>
                        \/ pending'[b] \subseteq pending[b] /\ pending'[b] # pending[b]
                        \/ pending'[b] = pending[b] /\ Ahead(b)' <= Ahead(b)]_vars
  <1>1. TypeInv => \A b \in Bridge : Ahead(b) \in 0..7
    BY DEF Ahead, StepsAhead
  <1>2. TypeInv /\ [Next]_vars =>
          [\A b \in Bridge :
              /\ Process(b) => Ahead(b)' < Ahead(b) /\ pending' = pending
              /\ pending[b] # {} \/ pc[b] # "idle" =>
                  \/ pending'[b] \subseteq pending[b] /\ pending'[b] # pending[b]
                  \/ pending'[b] = pending[b] /\ Ahead(b)' <= Ahead(b)]_vars
    <2> SUFFICES ASSUME TypeInv, Next, NEW b \in Bridge
                 PROVE  /\ Process(b) => Ahead(b)' < Ahead(b) /\ pending' = pending
                        /\ pending[b] # {} \/ pc[b] # "idle" =>
                            \/ pending'[b] \subseteq pending[b] /\ pending'[b] # pending[b]
                            \/ pending'[b] = pending[b] /\ Ahead(b)' <= Ahead(b)
      OBVIOUS
    <2> DEFINE Kept == pending'[b] = pending[b] /\ Ahead(b)' <= Ahead(b)
               Fewer == pending'[b] \subseteq pending[b] /\ pending'[b] # pending[b]
    <2>1. Process(b) => Ahead(b)' < Ahead(b) /\ pending' = pending
      BY ProcessForward
    <2>2. Ahead(b) \in 0..7 /\ Ahead(b)' \in 0..7
      BY DEF Ahead, StepsAhead
    <2>3. CASE Process(b)
      BY <2>1, <2>2, <2>3
    <2>4. pending \in [Bridge -> SUBSET Resource] /\ pc \in [Bridge -> Step]
      BY DEF TypeInv, TypeOK
    <2>5. ASSUME NEW rs, StartCycle(b, rs) PROVE pending[b] = {} /\ pc[b] = "idle"
      BY <2>5 DEF StartCycle, At
    <2>6. ASSUME NEW r, Drop(b, r) \/ \E s \in Snapshot : Take(b, r, s) PROVE Fewer
      BY <2>4, <2>6 DEF Drop, Take
    <2>7. ASSUME NEW c \in Bridge \ {b}, Cycle(c) PROVE Kept
      <3>1. pending'[b] = pending[b] /\ pc'[b] = pc[b]
        BY <2>4, <2>7
        DEF Cycle, Process, StartCycle, Drop, Take, Observe, LookUp, Register, Bind,
            FinishOffline, SkipBasicInfo, UploadBasicInfo, Report, MarkReported, Goto,
            Hold, Return, Fails, StatementFails, At
      <3> QED
        BY <2>2, <3>1 DEF Ahead
    <2>8. ASSUME NEW c \in Bridge, Crash(c)
          PROVE  pending[b] # {} \/ pc[b] # "idle" => Fewer \/ Kept
      <3>1. CASE c = b
        <4>1. pending'[b] = {} /\ pc'[b] = "idle"
          BY <2>4, <2>8, <3>1 DEF Crash, Return
        <4>2. Ahead(b)' = 0
          BY <4>1 DEF Ahead, StepsAhead
        <4> QED
          BY <2>2, <2>4, <4>1, <4>2
      <3>2. CASE c # b
        <4>1. pending'[b] = pending[b] /\ pc'[b] = pc[b]
          BY <2>4, <2>8, <3>2 DEF Crash, Return
        <4> QED
          BY <2>2, <4>1 DEF Ahead
      <3> QED
        BY <3>1, <3>2
    <2>9. ASSUME (\E m \in flight : Arrive(m)) \/ \E u \in Client : DeleteClient(u) PROVE Kept
      <3>1. pending' = pending /\ pc' = pc
        BY <2>9 DEF Arrive, DeleteClient, bridgeVars
      <3> QED
        BY <2>2, <3>1 DEF Ahead
    <2> QED
      BY <2>1, <2>3, <2>5, <2>6, <2>7, <2>8, <2>9 DEF Next, Cycle, Environment
  <1>3. TypeInv /\ [Next]_vars => TypeInv'
    BY TypeStep
  <1> QED
    BY <1>1, <1>2, <1>3, TypeInit, PTL DEF Spec
=============================================================================
