----------------------------- MODULE EntityGraph -----------------------------
(***************************************************************************)
(* The entity graph of workflow/entity_graph.go: which nodes (party,       *)
(* account, device, address, bank, symbol) occurred together, and which    *)
(* subjects a device was used for.  One mutex guards both; nothing is ever *)
(* removed.  Both domains write into the same graph, a stock order with    *)
(* its account in the place of the device.                                 *)
(*                                                                         *)
(* The counts per link are left out: only the number of neighbours is      *)
(* read.                                                                   *)
(***************************************************************************)
EXTENDS Naturals, FiniteSets

CONSTANTS
    Nodes,     \* node names with their prefix, in lower case
    Devices,   \* device ids as the request writes them
    Subjects   \* counterparties and symbols

ASSUME GraphAssumption ==
    /\ IsFiniteSet(Nodes)
    /\ IsFiniteSet(Devices)
    /\ IsFiniteSet(Subjects)

VARIABLES
    links,     \* adj: ordered pairs of nodes, both directions
    subjectsOf \* deviceSubjects: pairs of a device and a subject

graph == <<links, subjectsOf>>

(* What ObserveLinks is called with; a device or subject may be missing.   *)
Sightings == [nodes : SUBSET Nodes, device : SUBSET Devices, subject : SUBSET Subjects]

GInit == links = {} /\ subjectsOf = {}

Neighbours(n) == {m \in Nodes : <<n, m>> \in links}
SeenWith(d) == {s \in Subjects : <<d, s>> \in subjectsOf}

(* link, for every two nodes of a sighting. *)
LinksOf(c) == {e \in c.nodes \X c.nodes : e[1] # e[2]}

UsesOf(c) == c.device \X c.subject

(* The verdict on a sighting; the thresholds are those of a pack.          *)
TooDense(c, p) == \E n \in c.nodes : Cardinality(Neighbours(n)) >= p.cluster

(* Variant: the review is asked for when the threshold is reached only.    *)
SharedExactly(c, p) == \E d \in c.device : c.subject # {} /\ Cardinality(SeenWith(d)) = p.shared

Shared(c, p) == \E d \in c.device : c.subject # {} /\ Cardinality(SeenWith(d)) >= p.shared

GraphVerdict(c, p) ==
    IF TooDense(c, p) THEN "REJECT" ELSE IF Shared(c, p) THEN "REVIEW" ELSE "APPROVE"

(* Variant: only the latest use of a device is remembered.                 *)
ObserveLatest(c) ==
    /\ links' = links \cup LinksOf(c)
    /\ subjectsOf' = {u \in subjectsOf : u[1] \notin c.device} \cup UsesOf(c)

(* ObserveLinks writes first and evaluates what it wrote.                  *)
Observe(c) ==
    /\ links' = links \cup LinksOf(c)
    /\ subjectsOf' = subjectsOf \cup UsesOf(c)
=============================================================================
