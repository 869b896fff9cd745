--------------------------- MODULE Topology_proofs ---------------------------
(***************************************************************************)
(* Theorems about Topology, for all sources, external ids and inventories: *)
(* any number of snapshots, any parents, circles and missing ones too.     *)
(***************************************************************************)
EXTENDS Topology, FiniteSetTheorems, TLAPS

LEMMA ConstantFacts ==
    /\ None \notin Source /\ None \notin External /\ None \notin Site
    /\ \A inv \in Inventory : inv \subseteq Snapshot /\ IsFiniteSet(inv)
  BY TopologyAssumption DEF TopologyAssumption

\* The next snapshot is one of the merged snapshots that have the parent's id.
LEMMA ParentsMerged ==
    ASSUME NEW c PROVE Parents(c) \subseteq Candidates(c) /\ Candidates(c) \subseteq snaps
                       /\ (Parents(c) = {} <=> Candidates(c) = {})
  BY DEF Parents, Candidates

LEMMA TypeKept == TypeOK /\ [Next]_vars => TypeOK'
  <1> SUFFICES ASSUME TypeOK, [Next]_vars PROVE TypeOK'
    OBVIOUS
  <1>1. snaps \subseteq Snapshot
    BY ConstantFacts DEF TypeOK
  <1>2. Grouped(start) \in Site /\ Named(current) \in Site
    BY <1>1 DEF TypeOK, Grouped, Named, Site, Snapshot
  <1>3. CASE Climb
    BY <1>1, <1>3, ParentsMerged DEF Climb, TypeOK, Snapshot
  <1>4. CASE Circle
    BY <1>2, <1>4 DEF Circle, Conclude, TypeOK
  <1>5. CASE Orphan
    BY <1>2, <1>5 DEF Orphan, Conclude, TypeOK
  <1>6. CASE Top
    BY <1>2, <1>6 DEF Top, Conclude, TypeOK
  <1>7. CASE Again
    BY <1>7 DEF Again, TypeOK
  <1>8. CASE UNCHANGED vars
    BY <1>8 DEF vars, TypeOK
  <1> QED
    BY <1>3, <1>4, <1>5, <1>6, <1>7, <1>8 DEF Next

\* The climb stays among the merged snapshots and ends in a site
\* (runner.go:165-190).
THEOREM TypeCorrect == Spec => []TypeOK
  <1>1. Init => TypeOK
    BY DEF Init, TypeOK
  <1> QED
    BY <1>1, TypeKept, PTL DEF Spec

-----------------------------------------------------------------------------
(* Two climbs of the same snapshots *)

\* Where groups decide, at most one snapshot can come next, whichever order the
\* map yields them in.
LEMMA OneParent ==
    ASSUME TypeOK, GroupsDecide, NEW c \in snaps, c.parent # None,
           NEW p \in Parents(c), NEW q \in Parents(c)
    PROVE  p = q
  <1> DEFINE same == {s \in snaps : s.ext = c.parent}
             mine == {s \in same : s.group = start.group}
  <1>1. c.parent \in External /\ IsFiniteSet(snaps)
    BY ConstantFacts DEF TypeOK, Snapshot
  <1>2. IsFiniteSet(same) /\ IsFiniteSet(mine)
    <2>1. IsFiniteSet(same)
      BY <1>1, FS_Subset
    <2> QED
      BY <2>1, FS_Subset
  <1>3. p \in same /\ q \in same
    BY ParentsMerged DEF Candidates
  <1>4. CASE Cardinality(same) > 1
    <2>1. start.group # None /\ Cardinality(mine) = 1
      BY <1>1, <1>4 DEF GroupsDecide
    <2>2. PICK x : mine = {x}
      BY <1>2, <2>1, FS_Singleton
    <2>3. Parents(c) = mine
      BY <2>1, <2>2 DEF Parents, Candidates
    <2> QED
      BY <2>2, <2>3
  <1>5. CASE ~(Cardinality(same) > 1)
    <2>1. Cardinality(same) \in Nat /\ Cardinality(same) # 0
      BY <1>2, <1>3, FS_CardinalityType, FS_EmptySet
    <2>2. Cardinality(same) = 1
      BY <1>5, <2>1
    <2>3. PICK x : same = {x}
      BY <1>2, <2>2, FS_Singleton
    <2> QED
      BY <1>3, <2>3
  <1> QED
    BY <1>4, <1>5

\* What happens to a climb that is at c and has left v behind: it goes on, or it
\* ends.
Goes(c, v)   == c.parent # None /\ c.ext \notin v /\ Candidates(c) # {}
Onward(c, v) == {<<p, v \cup {c.ext}>> : p \in Parents(c)}
Outcome(c)   == IF c.parent = None /\ c.node THEN Named(c) ELSE Grouped(start)

\* The first climb has left a trail: from each of its places but the one it is at
\* the climb goes on, inside the trail.  It leads to the site the climb found.
Laid(trail) ==
    /\ \A c, v : <<c, v>> \in trail /\ <<c, v>> # <<current, visited>> =>
            Goes(c, v) /\ Onward(c, v) \subseteq trail
    /\ site # None => ~Goes(current, visited) /\ Outcome(current) = site

\* The second climb is on that trail, which ends nowhere but in the first result.
Followed(trail) ==
    /\ \A c, v : <<c, v>> \in trail =>
            IF Goes(c, v) THEN Onward(c, v) \subseteq trail ELSE Outcome(c) = first
    /\ site # None => site = first

TrailInv ==
    GroupsDecide =>
        \E trail :
            /\ <<start, {}>> \in trail /\ <<current, visited>> \in trail
            /\ IF first = None THEN Laid(trail) ELSE Followed(trail)

\* Nothing that a climb depends on changes.
LEMMA SameGround ==
    ASSUME UNCHANGED <<snaps, start>>
    PROVE  /\ GroupsDecide' = GroupsDecide
           /\ \A c, v : Goes(c, v)' = Goes(c, v) /\ Onward(c, v)' = Onward(c, v)
                        /\ Outcome(c)' = Outcome(c)
  BY DEF GroupsDecide, Goes, Onward, Outcome, Parents, Candidates, Named, Grouped

LEMMA ClimbTrail == ASSUME TypeOK, TrailInv, Climb PROVE TrailInv'
  <1> SUFFICES ASSUME GroupsDecide
               PROVE  \E trail :
                        /\ <<start, {}>> \in trail /\ <<current', visited'>> \in trail
                        /\ IF first = None THEN Laid(trail)' ELSE Followed(trail)'
    BY SameGround DEF TrailInv, Climb
  <1>1. PICK trail :
            /\ <<start, {}>> \in trail /\ <<current, visited>> \in trail
            /\ IF first = None THEN Laid(trail) ELSE Followed(trail)
    BY DEF TrailInv
  <1>2. /\ site = None /\ site' = None /\ first' = first
        /\ current.parent # None /\ current.ext \notin visited
        /\ current' \in Parents(current) /\ visited' = visited \cup {current.ext}
    BY DEF Climb, Climbing
  <1>3. Goes(current, visited) /\ Onward(current, visited) = {<<current', visited'>>}
    <2>1. \A p \in Parents(current) : p = current'
      BY <1>2, OneParent DEF TypeOK
    <2> QED
      BY <1>2, <2>1, ParentsMerged DEF Goes, Onward
  <1>4. CASE first = None
    <2>0. PICK longer : longer = trail \cup {<<current', visited'>>}
      OBVIOUS
    <2>1. \A c, v : <<c, v>> \in longer /\ <<c, v>> # <<current', visited'>> =>
                Goes(c, v) /\ Onward(c, v) \subseteq longer
      BY <1>1, <1>3, <1>4, <2>0 DEF Laid
    <2>2. Laid(longer)'
      BY <1>2, <2>1, SameGround DEF Laid, Climb
    <2> QED
      BY <1>1, <1>4, <2>0, <2>2
  <1>5. CASE first # None
    <2>1. <<current', visited'>> \in trail
      BY <1>1, <1>3, <1>5 DEF Followed
    <2>2. Followed(trail)'
      BY <1>1, <1>2, <1>5, SameGround DEF Followed, Climb
    <2> QED
      BY <1>1, <1>5, <2>1, <2>2
  <1> QED
    BY <1>4, <1>5

\* A climb ends with the outcome of the place it is at.
LEMMA Concluded ==
    ASSUME Circle \/ Orphan \/ Top
    PROVE  /\ site = None /\ site' = Outcome(current) /\ ~Goes(current, visited)
           /\ UNCHANGED <<snaps, start, current, visited, first>>
  BY DEF Circle, Orphan, Top, Climbing, Conclude, Outcome, Goes

LEMMA ConcludeTrail == ASSUME TrailInv, Circle \/ Orphan \/ Top PROVE TrailInv'
  <1> SUFFICES ASSUME GroupsDecide
               PROVE  \E trail :
                        /\ <<start, {}>> \in trail /\ <<current, visited>> \in trail
                        /\ IF first = None THEN Laid(trail)' ELSE Followed(trail)'
    BY Concluded, SameGround DEF TrailInv
  <1>1. PICK trail :
            /\ <<start, {}>> \in trail /\ <<current, visited>> \in trail
            /\ IF first = None THEN Laid(trail) ELSE Followed(trail)
    BY DEF TrailInv
  <1>2. /\ site = None /\ site' = Outcome(current) /\ ~Goes(current, visited)
        /\ UNCHANGED <<snaps, start, current, visited, first>>
    BY Concluded
  <1>3. site' = Outcome(current)' /\ ~Goes(current, visited)'
    BY <1>2, SameGround
  <1>4. CASE first = None
    <2>1. \A c, v : <<c, v>> \in trail /\ <<c, v>> # <<current', visited'>> =>
                Goes(c, v)' /\ Onward(c, v)' \subseteq trail
      BY <1>1, <1>2, <1>4, SameGround DEF Laid
    <2> QED
      BY <1>1, <1>2, <1>3, <1>4, <2>1 DEF Laid
  <1>5. CASE first # None
    <2>1. \A c, v : <<c, v>> \in trail =>
                IF Goes(c, v)' THEN Onward(c, v)' \subseteq trail ELSE Outcome(c)' = first
      BY <1>1, <1>2, <1>5, SameGround DEF Followed
    <2>2. Outcome(current) = first
      BY <1>1, <1>2, <1>5 DEF Followed
    <2> QED
      BY <1>1, <1>2, <1>5, <2>1, <2>2 DEF Followed
  <1> QED
    BY <1>4, <1>5

LEMMA AgainTrail == ASSUME TrailInv, Again PROVE TrailInv'
  <1> SUFFICES ASSUME GroupsDecide
               PROVE  \E trail :
                        /\ <<start, {}>> \in trail /\ <<current', visited'>> \in trail
                        /\ Followed(trail)'
    BY SameGround DEF TrailInv, Again, Climbing
  <1>1. /\ first = None /\ site # None /\ first' = site /\ site' = None
        /\ current' = start /\ visited' = {}
    BY DEF Again, Climbing
  <1>2. PICK trail :
            /\ <<start, {}>> \in trail /\ <<current, visited>> \in trail
            /\ Laid(trail)
    BY <1>1 DEF TrailInv
  <1>3. ASSUME NEW c, NEW v, <<c, v>> \in trail
        PROVE  IF Goes(c, v) THEN Onward(c, v) \subseteq trail ELSE Outcome(c) = site
    <2>1. CASE <<c, v>> = <<current, visited>>
      BY <1>1, <1>2, <2>1 DEF Laid
    <2>2. CASE <<c, v>> # <<current, visited>>
      BY <1>2, <1>3, <2>2 DEF Laid
    <2> QED
      BY <2>1, <2>2
  <1>4. Followed(trail)'
    BY <1>1, <1>3, SameGround DEF Followed, Again
  <1> QED
    BY <1>1, <1>2, <1>4

\* As long as the merged snapshots stay the same and groups tell the sources
\* apart, a resource stays in its site, in whatever order the map of snapshots is
\* ranged over (runner.go:174-184, 381).
THEOREM SitesStable == Spec => []SiteStable
  <1>1. Init => TrailInv
    <2> SUFFICES ASSUME Init PROVE \E trail : <<start, {}>> \in trail /\ Laid(trail)
      BY DEF Init, TrailInv
    <2>1. Laid({<<start, {}>>})
      BY DEF Init, Laid
    <2> QED
      BY <2>1
  <1>2. TypeOK /\ TrailInv /\ [Next]_vars => TrailInv'
    <2> SUFFICES ASSUME TypeOK, TrailInv, [Next]_vars PROVE TrailInv'
      OBVIOUS
    <2>1. CASE UNCHANGED vars
      <3>1. \A trail : Laid(trail)' = Laid(trail) /\ Followed(trail)' = Followed(trail)
        BY <2>1, SameGround DEF vars, Laid, Followed
      <3> QED
        BY <2>1, <3>1, SameGround DEF vars, TrailInv
    <2> QED
      BY <2>1, ClimbTrail, ConcludeTrail, AgainTrail DEF Next
  <1>3. TrailInv => SiteStable
    BY DEF TrailInv, Followed, SiteStable
  <1> QED
    BY <1>1, <1>2, <1>3, TypeCorrect, PTL DEF Spec

-----------------------------------------------------------------------------
(* The source of the site *)

\* The climb has not left the source and the group it started in.
HomeInv == OwnGroups(snaps, start.src) => current.src = start.src /\ current.group = start.group

LEMMA ClimbHome ==
    ASSUME TypeOK, OwnGroups(snaps, start.src), current.parent # None,
           current.src = start.src, current.group = start.group, NEW p \in Parents(current)
    PROVE  p.src = start.src /\ p.group = start.group
  <1> DEFINE same == {c \in Candidates(current) : start.group # None /\ c.group = start.group}
  <1>1. /\ \E c \in Candidates(current) : c.src = start.src
        /\ \A c \in Candidates(current) :
            IF c.src = start.src THEN c.group = start.group
                                 ELSE start.group # None /\ c.group # start.group
    BY DEF OwnGroups, Candidates, TypeOK
  <1>2. CASE same = {}
    <2>1. start.group = None
      BY <1>1, <1>2
    <2>2. p \in Candidates(current)
      BY ParentsMerged
    <2> QED
      BY <1>1, <2>1, <2>2
  <1>3. CASE same # {}
    <2>1. p \in same
      BY <1>3 DEF Parents
    <2> QED
      BY <1>1, <2>1
  <1> QED
    BY <1>2, <1>3

\* A snapshot of a source whose groups are its own is put under a node of that
\* source, however many sources have nodes with the same external id
\* (runner.go:165-190).
THEOREM SitesOfOwnSource == Spec => [](OwnGroups(snaps, start.src) => SiteOfOwnSource)
  <1> DEFINE NodeInv == OwnGroups(snaps, start.src) /\ site # None /\ site.kind = "name"
                            => site.src = start.src
  <1>1. Init => HomeInv /\ NodeInv
    BY DEF Init, HomeInv
  <1>2. TypeOK /\ HomeInv /\ NodeInv /\ [Next]_vars => HomeInv' /\ NodeInv'
    <2> SUFFICES ASSUME TypeOK, HomeInv, NodeInv, [Next]_vars PROVE HomeInv' /\ NodeInv'
      OBVIOUS
    <2>1. CASE Climb
      BY <2>1, ClimbHome DEF Climb, Climbing, HomeInv
    <2>2. CASE Circle
      BY <2>2 DEF Circle, Conclude, Grouped, HomeInv
    <2>3. CASE Orphan
      BY <2>3 DEF Orphan, Conclude, Grouped, HomeInv
    <2>4. CASE Top
      BY <2>4 DEF Top, Conclude, Grouped, Named, HomeInv
    <2>5. CASE Again
      BY <2>5 DEF Again, HomeInv
    <2>6. CASE UNCHANGED vars
      BY <2>6 DEF vars, HomeInv
    <2> QED
      BY <2>1, <2>2, <2>3, <2>4, <2>5, <2>6 DEF Next
  <1>3. NodeInv => (OwnGroups(snaps, start.src) => SiteOfOwnSource)
    BY DEF SiteOfOwnSource
  <1> QED
    BY <1>1, <1>2, <1>3, TypeCorrect, PTL DEF Spec

-----------------------------------------------------------------------------
(* Every step of a climb brings its end nearer *)

Ids == {s.ext : s \in snaps}

\* What the climb has left behind are ids of merged snapshots.
LeftInv == visited \subseteq Ids

\* How much the two climbs may still do: a climb leaves each id behind at most
\* once, and then ends.
Room == Cardinality(snaps) - Cardinality(visited)
Rest == (IF first = None THEN Cardinality(snaps) + 2 ELSE 0)
        + (IF site = None THEN Room + 1 ELSE 0)

\* No more ids than snapshots.
LEMMA FewIds ==
    ASSUME TypeOK, NEW S \in SUBSET Ids
    PROVE  /\ IsFiniteSet(S) /\ Cardinality(S) \in Nat /\ Cardinality(snaps) \in Nat
           /\ Cardinality(S) <= Cardinality(snaps)
  <1>1. IsFiniteSet(snaps) /\ Cardinality(snaps) \in Nat
    BY ConstantFacts, FS_CardinalityType DEF TypeOK
  <1> DEFINE id == [s \in snaps |-> s.ext]
  <1>2. id \in Surjection(snaps, Ids)
    BY DEF Surjection, Ids
  <1>3. IsFiniteSet(Ids) /\ Cardinality(Ids) <= Cardinality(snaps)
    BY <1>1, <1>2, FS_Surjection
  <1>4. IsFiniteSet(S) /\ Cardinality(S) <= Cardinality(Ids)
    BY <1>3, FS_Subset
  <1>5. Cardinality(S) \in Nat /\ Cardinality(Ids) \in Nat
    BY <1>3, <1>4, FS_CardinalityType
  <1> QED
    BY <1>1, <1>3, <1>4, <1>5

LEMMA LeftKept == ASSUME TypeOK, LeftInv, [Next]_vars PROVE LeftInv'
  <1>1. CASE Climb
    BY <1>1 DEF Climb, LeftInv, Ids, TypeOK
  <1>2. CASE Again
    BY <1>2 DEF Again, LeftInv, Ids
  <1>3. CASE Circle \/ Orphan \/ Top
    BY <1>3, Concluded DEF LeftInv, Ids
  <1>4. CASE UNCHANGED vars
    BY <1>4 DEF vars, LeftInv, Ids
  <1> QED
    BY <1>1, <1>2, <1>3, <1>4 DEF Next

LEMMA StepRest == ASSUME TypeOK, LeftInv, Next PROVE Rest \in Nat /\ Rest' < Rest
  <1>1. /\ IsFiniteSet(visited) /\ Cardinality(visited) \in Nat /\ Cardinality(snaps) \in Nat
        /\ Cardinality(visited) <= Cardinality(snaps)
    BY FewIds DEF LeftInv
  <1>2. Rest \in Nat
    BY <1>1 DEF Rest, Room
  <1>3. CASE Climb
    <2>1. Cardinality(visited') = Cardinality(visited) + 1
      BY <1>1, <1>3, FS_AddElement DEF Climb
    <2> QED
      BY <1>1, <1>2, <1>3, <2>1 DEF Climb, Climbing, Rest, Room
  <1>4. CASE Circle \/ Orphan \/ Top
    <2>1. site = None /\ site' # None /\ UNCHANGED <<snaps, visited, first>>
      <3>1. Outcome(current) \in Site
        BY ConstantFacts DEF TypeOK, Outcome, Named, Grouped, Site, Snapshot
      <3> QED
        BY <1>4, <3>1, Concluded, ConstantFacts
    <2> QED
      BY <1>1, <1>2, <2>1 DEF Rest, Room
  <1>5. CASE Again
    <2>1. Cardinality(visited') = 0
      BY <1>5, FS_EmptySet DEF Again
    <2> QED
      BY <1>1, <1>2, <1>5, <2>1 DEF Again, Climbing, Rest, Room
  <1> QED
    BY <1>2, <1>3, <1>4, <1>5 DEF Next

\* The two climbs take fewer steps than twice the number of merged snapshots and
\* four, whatever the parents are: each step lowers Rest, which is never negative.
\* This is why they end (runner.go:168-185).
THEOREM ClimbsAreShort ==
    Spec => /\ [](Rest \in 0..(2 * Cardinality(snaps) + 3))
            /\ [][Rest' < Rest]_vars
  <1>1. Init => LeftInv
    BY DEF Init, LeftInv
  <1>2. TypeOK /\ LeftInv /\ [Next]_vars => LeftInv'
    BY LeftKept
  <1>3. TypeOK /\ LeftInv => Rest \in 0..(2 * Cardinality(snaps) + 3)
    <2> SUFFICES ASSUME TypeOK, LeftInv PROVE Rest \in 0..(2 * Cardinality(snaps) + 3)
      OBVIOUS
    <2>1. /\ Cardinality(visited) \in Nat /\ Cardinality(snaps) \in Nat
          /\ Cardinality(visited) <= Cardinality(snaps)
      BY FewIds DEF LeftInv
    <2> QED
      BY <2>1 DEF Rest, Room
  <1>4. TypeOK /\ LeftInv /\ [Next]_vars => [Rest' < Rest]_vars
    BY StepRest
  <1> QED
    BY <1>1, <1>2, <1>3, <1>4, TypeCorrect, PTL DEF Spec
=============================================================================
