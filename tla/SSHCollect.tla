----------------------------- MODULE SSHCollect -----------------------------
(***************************************************************************)
(* One Collect after another of an SSH provider: the connection it keeps   *)
(* between collections (run, clientLocked and closeLocked, the same in     *)
(* providers/linuxssh and providers/windowsssh), the one rerun that        *)
(* runWithReconnect of windowsssh adds, and what the Slurm provider of     *)
(* linuxssh leaves in the Slurm store.                                     *)
(*                                                                         *)
(* conn is p.client and what its peer makes of it: "up" answers, "silent"  *)
(* does not (network or sshd stalled, no error yet), "dead" fails every    *)
(* operation.  A deadline on p.conn that passes makes the reader of the    *)
(* SSH connection give up, so the connection is dead.                      *)
(***************************************************************************)
EXTENDS Sampling

CONSTANTS
    Kind   \* source types of the providers looked at; None is also no entry
           \* in the Slurm store

ASSUME SSHAssumption ==
    Kind \subseteq {"agentless_ssh", "slurm", "linux_ssh", "windows_ssh", "windows_wsl"}

\* The age of an entry: 0 of the latest Collect, 1 of the one before, 2 older.
Entry == [available : BOOLEAN, age : 0..2]

ASSUME NoEntryAssumption == None \notin Entry

VARIABLES
    kind,       \* SourceType of the provider
    pc,         \* the operation Collect is about to do or waits for
    conn,       \* p.client: "none", "up", "silent" or "dead"
    armed,      \* a deadline is set on p.conn
    attempt,    \* reruns so far in this Collect
    cancelled,  \* ctx is done
    store,      \* the provider's entry in the Slurm store
    spoiled,    \* history: an operation failed on this connection
    lost,       \* history: the peer or the network ended this connection
    failed      \* history: the last Collect's SSH or Slurm command failed

connVars == <<conn, armed, spoiled, lost>>
vars == <<kind, pc, conn, armed, attempt, cancelled, store,
          spoiled, lost, failed, sampleVars>>

\* Reruns after a failed run.
Retry == IF kind \in {"windows_ssh", "windows_wsl"} THEN 1 ELSE 0

\* The output must be a valid host report.
ReportsHost == kind \in {"agentless_ssh", "linux_ssh", "windows_ssh"}

\* EnableSlurm, with a Slurm store; linux_ssh is looked at with Slurm enabled.
FeedsSlurm == kind \in {"slurm", "linux_ssh"}

\* Every variable has its type.
TypeOK ==
    /\ kind \in Kind
    /\ pc \in {"idle", "client", "dial", "handshake", "session", "command",
               "returning", "output"}
    /\ conn \in {"none", "up", "silent", "dead"}
    /\ attempt \in 0..Retry
    /\ store \in Entry \cup {None}
    /\ armed \in BOOLEAN /\ cancelled \in BOOLEAN /\ spoiled \in BOOLEAN
    /\ lost \in BOOLEAN /\ failed \in BOOLEAN
    /\ SampleTypeOK

Init ==
    /\ kind \in Kind
    /\ pc = "idle" /\ conn = "none"
    /\ attempt = 0
    /\ store = None
    /\ armed = FALSE /\ cancelled = FALSE
    /\ spoiled = FALSE /\ lost = FALSE /\ failed = FALSE
    /\ SampleInit

-----------------------------------------------------------------------------
(* The environment *)

\* The peer or the network stops answering, answers again, or ends the
\* connection.
PeerChanges ==
    /\ conn \in {"up", "silent"}
    /\ \/ conn' = "silent" /\ lost' = lost
       \/ conn' = "up" /\ lost' = lost
       \/ conn' = "dead" /\ lost' = TRUE
    /\ UNCHANGED <<sampleVars, kind, pc, armed, attempt, cancelled, store,
                   spoiled, failed>>

DeadlineExpires ==
    /\ armed /\ conn \in {"up", "silent"}
    /\ conn' = "dead"
    /\ UNCHANGED <<sampleVars, kind, pc, armed, attempt, cancelled, store,
                   spoiled, lost, failed>>

Cancel ==
    /\ ~cancelled /\ cancelled' = TRUE
    /\ UNCHANGED <<sampleVars, kind, pc, attempt, store, failed, connVars>>

\* What the observed machine does.  It counts when the command reads the counters:
\* nothing is lost by letting it happen while the command runs.
MachineRuns ==
    /\ pc = "command"
    /\ HostWorks \/ HostRestarts
    /\ UNCHANGED <<kind, pc, attempt, cancelled, store, failed, connVars>>

-----------------------------------------------------------------------------
(* The Slurm store *)

Unavailable == [available |-> FALSE, age |-> 0]

\* What the Slurm store holds after markSlurmUnavailable.
MarkUnavailable == store' = IF FeedsSlurm THEN Unavailable ELSE store

-----------------------------------------------------------------------------
(* clientLocked and run *)

\* mutant: run leaves its deadline on the connection (HealthyKept)
LeaveDeadline == armed' = armed

\* The deferred SetDeadline(time.Time{}).
ClearDeadline == armed' = FALSE

\* mutant: the connection is kept (FreshAfterFailure)
KeepOpen == UNCHANGED <<conn, lost>>

CloseLocked == conn' = "none" /\ lost' = FALSE

\* History: the connection that is kept, if any, has failed once.
NoteFailure == spoiled' = (conn' # "none")

\* mutant: a rerun too many (TypeOK)
RerunTooOften(timedOut) == attempt <= Retry /\ ~cancelled /\ ~timedOut

\* Whether runWithReconnect runs again.  A dial that timed out is not run
\* again: the net package's timeout error is a context.DeadlineExceeded.
Rerun(timedOut) == attempt < Retry /\ ~cancelled /\ ~timedOut

\* mutant: a failed SSH command leaves the Slurm store alone (FailureShown)
RunFailsSilently(timedOut) ==
    /\ CloseLocked /\ NoteFailure /\ armed' = FALSE
    /\ IF Rerun(timedOut)
       THEN /\ pc' = "client" /\ attempt' = attempt + 1
            /\ UNCHANGED <<store, failed>>
       ELSE /\ pc' = "idle" /\ failed' = TRUE
            /\ UNCHANGED <<attempt, store>>
    /\ UNCHANGED <<sampleVars, kind, cancelled>>

\* run returned an error.
RunFails(timedOut) ==
    /\ CloseLocked /\ NoteFailure /\ armed' = FALSE
    /\ IF Rerun(timedOut)
       THEN /\ pc' = "client" /\ attempt' = attempt + 1
            /\ UNCHANGED <<store, failed>>
       ELSE /\ pc' = "idle" /\ failed' = TRUE
            /\ MarkUnavailable
            /\ UNCHANGED attempt
    /\ UNCHANGED <<sampleVars, kind, cancelled>>

Older(entry) ==
    IF entry = None THEN None
    ELSE [available |-> entry.available,
          age |-> IF entry.age = 0 THEN 1 ELSE 2]

Collect ==
    /\ pc = "idle"
    /\ pc' = "client" /\ attempt' = 0
    /\ store' = Older(store)
    /\ shown' = None
    /\ UNCHANGED <<host, previous, since, restarted, kind, cancelled, failed, connVars>>

\* mutant: run sets no deadline (CollectReturns)
NoDeadline == armed' = FALSE

\* SetDeadline(time.Now().Add(p.timeout)) of run.
SetDeadline == armed' = TRUE

\* The client clientLocked has: it is asked for a reply, without a deadline.
Keepalive ==
    /\ pc = "client" /\ conn # "silent"
    /\ IF conn = "up"
       THEN /\ pc' = "session" /\ SetDeadline
            /\ UNCHANGED <<conn, spoiled, lost>>
       ELSE /\ pc' = "dial" /\ CloseLocked /\ NoteFailure
            /\ UNCHANGED armed
    /\ UNCHANGED <<sampleVars, kind, attempt, cancelled, store, failed>>

Dial ==
    /\ pc = "dial" /\ ~cancelled
    /\ pc' = "handshake"
    /\ UNCHANGED <<sampleVars, kind, attempt, cancelled, store, failed, connVars>>

DialFails == pc = "dial" /\ \E timedOut \in BOOLEAN : RunFails(timedOut)

\* NewClientConn, without a deadline and without ctx.
Handshake ==
    /\ pc = "handshake"
    /\ pc' = "session" /\ conn' = "up" /\ SetDeadline
    /\ UNCHANGED <<sampleVars, kind, attempt, cancelled, store,
                   spoiled, lost, failed>>

HandshakeFails == pc = "handshake" /\ RunFails(FALSE)

NewSession ==
    /\ pc = "session" /\ conn = "up"
    /\ pc' = "command"
    /\ UNCHANGED <<sampleVars, kind, attempt, cancelled, store, failed, connVars>>

NewSessionFails == pc = "session" /\ conn \in {"up", "dead"} /\ RunFails(FALSE)

\* The goroutine has read the output and sends it on done; the deadline stays set.
CommandEnds ==
    /\ pc = "command" /\ conn = "up"
    /\ pc' = "returning"
    /\ UNCHANGED <<sampleVars, kind, attempt, cancelled, store, failed, connVars>>

\* The command failed, or ctx.Done was the case that select took, which it may
\* with the output there.
CommandFails ==
    /\ \/ pc = "command" /\ (conn \in {"up", "dead"} \/ cancelled)
       \/ pc = "returning" /\ cancelled
    /\ RunFails(FALSE)

\* select takes the output, and run returns it: the session is closed, then the
\* deadline is reset, whatever has become of the connection since.
RunReturns ==
    /\ pc = "returning"
    /\ pc' = "output" /\ ClearDeadline
    /\ UNCHANGED <<sampleVars, conn, kind, attempt, cancelled, store,
                   spoiled, lost, failed>>

-----------------------------------------------------------------------------
(* What Collect does with the output *)

\* mutant: output that cannot be decoded leaves the store alone (QueueIsCurrent)
UndecodableIgnored ==
    /\ pc = "output" /\ pc' = "idle"
    /\ failed' = TRUE
    /\ UNCHANGED <<sampleVars, kind, attempt, cancelled, store, connVars>>

Undecodable ==
    /\ pc = "output" /\ pc' = "idle"
    /\ failed' = TRUE
    /\ MarkUnavailable
    /\ UNCHANGED <<sampleVars, kind, attempt, cancelled, connVars>>

\* The host report is invalid: Collect returns before it looks at the queue.  A
\* Windows host without its GPU figures is found out only after its counters are
\* remembered.
InvalidReport ==
    /\ ReportsHost
    /\ pc = "output" /\ pc' = "idle"
    /\ failed' \in BOOLEAN
    /\ \/ UNCHANGED sampleVars
       \/ kind = "windows_ssh" /\ Remember /\ UNCHANGED shown
    /\ UNCHANGED <<kind, attempt, cancelled, store, connVars>>

\* The usage a snapshot shows; a Windows host measures its own.
Usage ==
    IF kind = "windows_ssh" THEN None ELSE CounterPercent(CPU(host), CPU(previous))

\* The figures of the host, or of a distribution unless it is stopped.  Linux
\* data without CPU counters is invalid.
Sample ==
    \/ /\ kind # "slurm" /\ (kind = "windows_ssh" \/ Ticks(host) > 0)
       /\ \E elapsed \in 0..1 : Show(elapsed, Usage)
    \/ kind \in {"slurm", "windows_wsl"} /\ UNCHANGED sampleVars

\* The Slurm commands of the script worked or not.
Evaluate ==
    /\ pc = "output" /\ pc' = "idle"
    /\ \E available \in BOOLEAN :
        /\ failed' = ~available
        /\ store' = IF FeedsSlurm
                    THEN [available |-> available, age |-> 0] ELSE store
    /\ Sample
    /\ UNCHANGED <<kind, attempt, cancelled, connVars>>

-----------------------------------------------------------------------------
Environment == PeerChanges \/ DeadlineExpires \/ Cancel \/ MachineRuns

Run == \/ Keepalive \/ Dial \/ DialFails \/ Handshake \/ HandshakeFails
       \/ NewSession \/ NewSessionFails \/ CommandEnds \/ CommandFails \/ RunReturns

Next == Environment \/ Collect \/ Run \/ Undecodable \/ InvalidReport \/ Evaluate

Spec == Init /\ [][Next]_vars

\* The steps Collect takes by itself are fair.  A remote command need not end
\* while the connection is up; the deadline on it passes.  Nothing in the code
\* bounds the keepalive request and the handshake: that the peer, or the
\* kernel in its place, reacts to them is assumed; Keepalive is strongly fair
\* for a peer that goes silent again and again.
KeepaliveAnswered == pc = "client" /\ conn = "silent" /\ PeerChanges /\ conn' # "silent"

Fairness ==
    /\ WF_vars(DeadlineExpires) /\ WF_vars(KeepaliveAnswered)
    /\ SF_vars(Keepalive) /\ WF_vars(DialFails \/ Dial)
    /\ WF_vars(Handshake \/ HandshakeFails)
    /\ WF_vars(conn = "dead" /\ NewSessionFails)
    /\ WF_vars(conn = "dead" /\ CommandFails)
    /\ WF_vars(RunReturns)
    /\ WF_vars(Undecodable \/ InvalidReport \/ Evaluate)

FairSpec == Spec /\ Fairness

-----------------------------------------------------------------------------
\* No operation is tried on a connection on which an earlier one failed: every
\* failure on the way out of run reaches closeLocked, on the rerun too.
FreshAfterFailure == pc # "idle" => ~spoiled

\* Once run has returned, no deadline of the bridge ends the connection it keeps:
\* while the output is decoded, between two collections and during the keepalive
\* of the next one, only the peer and the network do.  (A deadline that passes
\* before run resets it kills the connection of a run that succeeds.)
HealthyKept ==
    [][(pc \in {"output", "idle", "client"} /\ conn # "dead" /\ conn' = "dead")
        => lost']_vars

\* The queue state the API serves as available is that of the latest Collect,
\* or of the one before while that has not returned.
QueueIsCurrent ==
    store # None /\ store.available =>
        store.age = 0 \/ (pc # "idle" /\ store.age = 1)

\* After an SSH or Slurm command failed, the API does not serve queue state as
\* available.
FailureShown ==
    FeedsSlurm /\ pc = "idle" /\ failed /\ store # None => ~store.available

\* Collect returns, whatever the peer does to the session and the command.
CollectReturns == pc # "idle" ~> pc = "idle"
=============================================================================
