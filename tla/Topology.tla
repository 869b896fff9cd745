------------------------------ MODULE Topology ------------------------------
(***************************************************************************)
(* decorateTopology and topologySite of internal/bridge/runner.go: the     *)
(* group that Komari shows a resource under is the name of the node found  *)
(* by climbing the parents of its snapshot.                                *)
(*                                                                         *)
(* A parent is named by its external id only.  Snapshots of several        *)
(* sources can have that id, and the list of candidates is built by        *)
(* ranging over a Go map, so which of them comes first differs from cycle  *)
(* to cycle.  The module climbs one snapshot twice, as two cycles would    *)
(* over the same snapshots.                                                *)
(***************************************************************************)
EXTENDS FiniteSets, Naturals

CONSTANTS
    Source,     \* provider sources
    External,   \* external ids
    Inventory,  \* the sets of snapshots a cycle may have merged
    None        \* absence of a parent, a group or a site

\* One snapshot: its source and external id, the external id of its parent, the
\* configured group, and whether it is a node.
Snapshot == [src : Source, ext : External, parent : External \cup {None},
             group : Source \cup {None}, node : BOOLEAN]

\* A site is the name of a node, or a configured group.
Site == [kind : {"name"}, src : Source, ext : External]
          \cup [kind : {"group"}, group : Source \cup {None}]

ASSUME TopologyAssumption ==
    /\ None \notin Source \cup External \cup Site
    /\ Inventory \subseteq SUBSET Snapshot
    /\ \A inv \in Inventory : IsFiniteSet(inv)
    /\ \A inv \in Inventory : \A s, t \in inv : s.src = t.src /\ s.ext = t.ext => s = t

VARIABLES
    snaps,      \* the merged snapshots
    start,      \* the snapshot being decorated
    current,    \* where the climb is
    visited,    \* external ids it has left behind
    site,       \* the result of this climb, or None
    first       \* the result of the climb before, or None

vars == <<snaps, start, current, visited, site, first>>

\* Climb and result have their types.
TypeOK ==
    /\ snaps \in Inventory
    /\ start \in snaps /\ current \in snaps
    /\ visited \subseteq External
    /\ site \in Site \cup {None} /\ first \in Site \cup {None}

Init ==
    /\ snaps \in Inventory
    /\ start \in snaps
    /\ current = start
    /\ visited = {}
    /\ site = None /\ first = None

-----------------------------------------------------------------------------
Climbing == site = None

Named(s)   == [kind |-> "name", src |-> s.src, ext |-> s.ext]
Grouped(s) == [kind |-> "group", group |-> s.group]

Conclude(result) ==
    /\ site' = result
    /\ UNCHANGED <<snaps, start, current, visited, first>>

Candidates(s) == {c \in snaps : c.ext = s.parent}

\* mutant: the first candidate is taken whatever its group
ParentsAny(s) == Candidates(s)

\* The candidates of the start's group, when it has one and there are any,
\* otherwise all: whichever the map yields first is the next snapshot.
Parents(s) ==
    LET same == {c \in Candidates(s) : start.group # None /\ c.group = start.group}
    IN  IF same # {} THEN same ELSE Candidates(s)

\* mutant: no external id is remembered
ClimbForgetful ==
    /\ Climbing
    /\ current.parent # None
    /\ current' \in Parents(current)
    /\ UNCHANGED <<snaps, start, visited, site, first>>

\* mutant: the snapshot is remembered in place of its external id
ClimbBySnapshot ==
    /\ Climbing
    /\ current.parent # None /\ current \notin visited
    /\ visited' = visited \cup {current}
    /\ current' \in Parents(current)
    /\ UNCHANGED <<snaps, start, site, first>>

Climb ==
    /\ Climbing
    /\ current.parent # None /\ current.ext \notin visited
    /\ visited' = visited \cup {current.ext}
    /\ current' \in Parents(current)
    /\ UNCHANGED <<snaps, start, site, first>>

\* The parents go round in a circle.
Circle ==
    /\ Climbing
    /\ current.parent # None /\ current.ext \in visited
    /\ Conclude(Grouped(start))

\* The parent was not merged in this cycle.
Orphan ==
    /\ Climbing
    /\ current.parent # None /\ current.ext \notin visited
    /\ Candidates(current) = {}
    /\ Conclude(Grouped(start))

Top ==
    /\ Climbing
    /\ current.parent = None
    /\ Conclude(IF current.node THEN Named(current) ELSE Grouped(start))

\* The same snapshots are decorated once more.
Again ==
    /\ ~Climbing /\ first = None
    /\ first' = site
    /\ site' = None
    /\ current' = start /\ visited' = {}
    /\ UNCHANGED <<snaps, start>>

Next == Climb \/ Circle \/ Orphan \/ Top \/ Again

Spec     == Init /\ [][Next]_vars
FairSpec == Spec /\ WF_vars(Next)

-----------------------------------------------------------------------------
\* Climbing ends, also when parents form a circle or are missing
\* (runner.go:168-185).
Terminates == <>[](first # None /\ site # None)

\* Of the snapshots with one external id, exactly one is of the start's group, if
\* there are several.
GroupsDecide ==
    \A e \in External : LET same == {s \in snaps : s.ext = e} IN
        Cardinality(same) > 1 =>
            start.group # None /\ Cardinality({s \in same : s.group = start.group}) = 1

\* The group of a snapshot does not change from one cycle to the next as long as
\* the snapshots do not, so basic info is not uploaded again and the resource
\* does not move between sites, provided that groups tell the sources apart
\* that have the same external ids (runner.go:174-184, 381).
SiteStable == first # None /\ site # None /\ GroupsDecide => site = first

\* What a source that lists its own nodes gives to inv: it has the parent of each
\* of its snapshots, in the snapshot's group, and every other source that has the
\* parent's id has it in another group (proxmox.go:613-627, where the group is the
\* provider's and the parent a node of the same answer).
OwnGroups(inv, src) ==
    \A s \in inv : s.src = src /\ s.parent # None =>
        LET named == {c \in inv : c.ext = s.parent} IN
            /\ \E c \in named : c.src = src
            /\ \A c \in named :
                IF c.src = src THEN c.group = s.group ELSE s.group # None /\ c.group # s.group

\* The node a guest of a Proxmox source is put under belongs to that source
\* (runner.go:165-190).
SiteOfOwnSource ==
    site # None /\ site.kind = "name" /\ (\E n \in snaps : n.node /\ n.src = start.src)
        => site.src = start.src
=============================================================================
