---------------------------- MODULE MC_Topology ----------------------------
(* Inventories of two Proxmox sources with the same external ids, and of a  *)
(* source of children attached to a guest.                                  *)
EXTENDS Topology

CONSTANTS s1, s2, w, node, vm, child

Snap(s, e, p, g) == [src |-> s, ext |-> e, parent |-> p, group |-> g, node |-> e = node]

\* A site: its node and its guest.
SiteOf(s, g) == {Snap(s, node, None, g), Snap(s, vm, node, g)}

\* Every source has a group of its own and the child carries one of them; any
\* snapshot may be missing, a node, a guest or the child.
GroupedInventory ==
    UNION {SUBSET (SiteOf(s1, s1) \cup SiteOf(s2, s2) \cup {Snap(w, child, vm, g)}) :
             g \in {s1, s2}}

\* Any parents at all, circles and missing ones included, for up to four
\* snapshots.
AnyInventory ==
    {{Snap(s1, node, p1, g), Snap(s1, vm, p2, g), Snap(s2, vm, p3, s2), Snap(w, child, p4, g)} :
        p1, p2, p3, p4 \in External \cup {None}, g \in {None, s1}}

Inventories == GroupedInventory \cup AnyInventory

\* The two sites are told apart by their groups whenever their node is there.
ASSUME SitesAssumption ==
    \A inv \in GroupedInventory, s \in {s1, s2} :
        (\E n \in inv : n.node /\ n.src = s) => OwnGroups(inv, s)
=============================================================================
