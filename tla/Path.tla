-------------------------------- MODULE Path --------------------------------
(***************************************************************************)
(* Path segments (packages/native/src/path.rs): a query addresses a value  *)
(* by a sequence of them.                                                  *)
(***************************************************************************)
EXTENDS Integers, Sequences

CONSTANTS
  Names,  \* member names that occur in documents and paths
  None    \* Rust's Option::None

ASSUME NoneAssumption == None \notin Nat /\ None \notin Names

Member(name) == [member |-> name]
Element(idx) == [element |-> idx]

Segment == [member : Names] \cup [element : Nat]

IsMember(segment) == "member" \in DOMAIN segment

\* The kind of container a segment can be applied to.
KindOf(segment) == IF IsMember(segment) THEN "object" ELSE "array"
=============================================================================
