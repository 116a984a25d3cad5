--------------------------- MODULE StructuralIndex ---------------------------
(***************************************************************************)
(* The structural index of packages/native/src/cache.rs: a bounded memo of *)
(* the containers that scans have walked, shared by every cursor over one  *)
(* source.  A node is keyed by the byte offset a query was anchored at and *)
(* the prefix of its path that leads to the container.                     *)
(*                                                                         *)
(* Every action below is one call under the index's mutex.                 *)
(***************************************************************************)
EXTENDS Path, FiniteSets, FiniteSetsExt

CONSTANTS
  SlotBudget,       \* slots the index may hold; 0 disables it
  ObjectMemberCap,  \* tabled members one object may hold
  ArrayInterval     \* stride between sampled array members; 0 samples none

ASSUME KnobAssumption ==
  /\ SlotBudget \in Nat
  /\ ObjectMemberCap \in Nat
  /\ ArrayInterval \in Nat

VARIABLES
  nodes,       \* the cached containers, a function of their keys
  slots_used,  \* the running total of their costs
  tick         \* recency clock

indexVars == <<nodes, slots_used, tick>>

\* Faulty: the path alone, whatever cursor it was asked at.
KeyUnanchored(anchor, path, seg) == <<0, SubSeq(path, 1, seg)>>

\* The container that a path's first "seg" segments lead to.
Key(anchor, path, seg) == <<anchor, SubSeq(path, 1, seg)>>

IsEnabled == SlotBudget > 0 /\ (ObjectMemberCap > 0 \/ ArrayInterval > 0)

\* An object wider than the budget keeps a prefix that fits: the node itself
\* is one slot.
MemberCeiling == IF SlotBudget = 0 THEN 0 ELSE SlotBudget - 1
MemberCap == IF ObjectMemberCap <= MemberCeiling THEN ObjectMemberCap ELSE MemberCeiling

LowWater == SlotBudget - (SlotBudget \div 8)

(***************************************************************************)
(* A node.  "members" maps a tabled name to its value's offset in an       *)
(* object, and an element index to an offset in an array.                  *)
(***************************************************************************)
FreshNode(kind, value_start, depth) ==
  [ kind        |-> kind,
    value_start |-> value_start,
    close       |-> None,
    depth       |-> depth,
    last_used   |-> 0,
    members     |-> <<>>,
    resume      |-> IF kind = "object" THEN value_start + 1 ELSE None ]

SlotCost(node) ==
  1 + IF node.kind = "object" THEN Cardinality(DOMAIN node.members) ELSE 0

TotalCost(table, keys) == MapThenSumSet(LAMBDA k : SlotCost(table[k]), keys)

(***************************************************************************)
(* Eviction: deepest container first, the least recently used among equals,*)
(* until the total is at most the low-water mark.  A node goes when, at    *)
(* its turn, what is left is still over the mark.                          *)
(***************************************************************************)
ShedBefore(node1, node2) ==
  \/ node1.depth > node2.depth
  \/ node1.depth = node2.depth /\ node1.last_used < node2.last_used

\* Faulty: recency alone decides.
EvictedByRecency(table, used) ==
  IF used <= SlotBudget
    THEN {}
    ELSE { k \in DOMAIN table :
             used - TotalCost(table, {j \in DOMAIN table : table[j].last_used < table[k].last_used})
               > LowWater }

Evicted(table, used) ==
  IF used <= SlotBudget
    THEN {}
    ELSE { k \in DOMAIN table :
             used - TotalCost(table, {j \in DOMAIN table : ShedBefore(table[j], table[k])})
               > LowWater }

\* Faulty: a known container is begun anew.
NodeForVacant(key, kind, value_start, base_depth) ==
  FreshNode(kind, value_start, base_depth + Len(key[2]))

NodeFor(key, kind, value_start, base_depth) ==
  IF key \in DOMAIN nodes
    THEN nodes[key]
    ELSE FreshNode(kind, value_start, base_depth + Len(key[2]))

\* Faulty: the slots the node held already are charged again.
SlotDeltaGross(key, stored) == SlotCost(stored)

\* What storing a node adds to the total.
SlotDelta(key, stored) ==
  SlotCost(stored) - IF key \in DOMAIN nodes THEN SlotCost(nodes[key]) ELSE 0

\* Faulty: one slot back per node, whatever it held.
FreedPerNode(table, gone) == Cardinality(gone)

\* What shedding the nodes "gone" gives back.
Freed(table, gone) == TotalCost(table, gone)

\* The tail of "upsert": store the node, keep the total in step, evict.
Put(key, node) ==
  LET stored  == [node EXCEPT !.last_used = tick + 1]
      written == [k \in DOMAIN nodes \cup {key} |-> IF k = key THEN stored ELSE nodes[k]]
      used    == slots_used + SlotDelta(key, stored)
      gone    == Evicted(written, used)
  IN  /\ nodes' = [k \in DOMAIN written \ gone |-> written[k]]
      /\ slots_used' = used - Freed(written, gone)
      /\ tick' = tick + 1

StoreClose(key, kind, value_start, base_depth, close) ==
  IF IsEnabled
    THEN Put(key, [NodeFor(key, kind, value_start, base_depth) EXCEPT !.close = close])
    ELSE UNCHANGED indexVars

(***************************************************************************)
(* Merging what a scan saw.                                                *)
(***************************************************************************)
\* Faulty: the new members replace the old.
MergeArrayReplacing(node, new) == IF node.kind = "array" THEN [node EXCEPT !.members = new] ELSE node

MergeArray(node, new) ==
  IF node.kind = "array"
    THEN [node EXCEPT !.members =
            [i \in DOMAIN node.members \cup DOMAIN new |->
               IF i \in DOMAIN node.members THEN node.members[i] ELSE new[i]]]
    ELSE node

\* Faulty: the last of each name.
UntabledLastWins(node, new) ==
  { i \in DOMAIN new :
      /\ new[i].name \notin DOMAIN node.members
      /\ \A j \in i + 1 .. Len(new) : new[j].name # new[i].name }

\* Positions of "new" whose name is not tabled yet, the first of each name.
Untabled(node, new) ==
  { i \in DOMAIN new :
      /\ new[i].name \notin DOMAIN node.members
      /\ \A j \in 1 .. i - 1 : new[j].name # new[i].name }

\* Those of them that fit under the cap, in scan order.
Tabled(node, new) ==
  LET untabled == Untabled(node, new)
  IN  { i \in untabled :
          Cardinality(DOMAIN node.members) + Cardinality({j \in untabled : j < i}) < MemberCap }

\* Faulty: a scan that overflows the cap still moves the mark to its end.
ReachedUncapped(node, new, hint) == IF hint # None THEN hint ELSE node.resume

\* The high-water mark the merge offers: the first member left out, else the
\* scan's own hint, else the last member it saw.
Reached(node, new, hint) ==
  LET overflow == Untabled(node, new) \ Tabled(node, new)
  IN  CASE overflow # {} -> new[Min(overflow)].at
        [] overflow = {} /\ hint # None -> hint
        [] overflow = {} /\ hint = None /\ new # <<>> -> new[Len(new)].at
        [] OTHER -> node.resume

\* Faulty: the last write-back wins.
AdvancedBlindly(resume, reached) == reached

\* The mark only ever moves forward.
Advanced(resume, reached) == IF reached > resume THEN reached ELSE resume

MergeObject(node, new, hint) ==
  LET tabled == Tabled(node, new)
  IN  IF node.kind = "object"
        THEN [node EXCEPT
               !.members = [n \in DOMAIN node.members \cup {new[i].name : i \in tabled} |->
                              IF n \in DOMAIN node.members
                                THEN node.members[n]
                                ELSE new[CHOOSE i \in tabled : new[i].name = n].value],
               !.resume = Advanced(node.resume, Reached(node, new, hint))]
        ELSE node

MergeArrayScan(key, value_start, base_depth, new) ==
  IF IsEnabled
    THEN Put(key, MergeArray(NodeFor(key, "array", value_start, base_depth), new))
    ELSE UNCHANGED indexVars

MergeObjectScan(key, value_start, base_depth, new, hint) ==
  IF IsEnabled
    THEN Put(key, MergeObject(NodeFor(key, "object", value_start, base_depth), new, hint))
    ELSE UNCHANGED indexVars

(***************************************************************************)
(* "chain_hops": the walk over tabled members from the anchor.             *)
(***************************************************************************)
ResumePoint(kind, index, offset) == [kind |-> kind, index |-> index, offset |-> offset]

\* Whether the path's i-th segment is a tabled member of its container.
HopsInto(anchor, path, i) ==
  LET key == Key(anchor, path, i - 1)
  IN  /\ key \in DOMAIN nodes
      /\ nodes[key].kind = "object"
      /\ IsMember(path[i])
      /\ path[i].member \in DOMAIN nodes[key].members

\* The walk leaves the table after "seg" segments.
ChainStopsAt(anchor, path, seg) ==
  /\ \A i \in 1 .. seg : HopsInto(anchor, path, i)
  /\ seg < Len(path) => ~ HopsInto(anchor, path, seg + 1)

ChainStart(anchor, path, seg) ==
  IF seg = 0 THEN anchor ELSE nodes[Key(anchor, path, seg - 1)].members[path[seg].member]

\* Faulty: one element too far.
NearestArrayMemberBeyond(node, target) ==
  LET below == {i \in DOMAIN node.members : i <= target + 1}
  IN  IF below = {} THEN None ELSE ResumePoint("array", Max(below), node.members[Max(below)])

\* Faulty: the index one off its offset.
NearestArrayMemberShifted(node, target) ==
  LET below == {i \in DOMAIN node.members : i <= target}
  IN  IF below = {} THEN None ELSE ResumePoint("array", Max(below) + 1, node.members[Max(below)])

\* The greatest tabled index at or below the target.
NearestArrayMember(node, target) ==
  LET below == {i \in DOMAIN node.members : i <= target}
  IN  IF below = {} THEN None ELSE ResumePoint("array", Max(below), node.members[Max(below)])

ChainSeed(anchor, path, seg) ==
  LET key == Key(anchor, path, seg)
  IN  IF seg = Len(path) \/ key \notin DOMAIN nodes \/ nodes[key].kind # KindOf(path[seg + 1])
        THEN None
        ELSE IF nodes[key].kind = "object"
               THEN ResumePoint("object", 0, nodes[key].resume)
               ELSE NearestArrayMember(nodes[key], path[seg + 1].element)

\* The nodes the walk looks at become the most recently used, in path order;
\* the clock ticks for a missing one too.
TouchChain(anchor, path, seg) ==
  LET looked  == IF seg = Len(path) THEN seg ELSE seg + 1
      visited == {Key(anchor, path, i) : i \in 0 .. looked - 1}
  IN  /\ nodes' = [k \in DOMAIN nodes |->
                     IF k \in visited
                       THEN [nodes[k] EXCEPT !.last_used = tick + 1 + Len(k[2])]
                       ELSE nodes[k]]
      /\ tick' = tick + looked
      /\ UNCHANGED slots_used

IndexInit ==
  /\ nodes = <<>>
  /\ slots_used = 0
  /\ tick = 0

(***************************************************************************)
(* The shape of nodes, keys and what a scan hands over.                    *)
(***************************************************************************)
Kinds == {"object", "array"}

\* A table of offsets, by member name or element index.
IsTable(table) ==
  DOMAIN table \subseteq Names \cup Nat /\ \A x \in DOMAIN table : table[x] \in Nat

\* What a node holds, and the fields that its kind decides: an object's table
\* is keyed by names and has a resume offset, an array's by indices and none.
NodeOK(node) ==
  /\ node = [ kind |-> node.kind, value_start |-> node.value_start, close |-> node.close,
              depth |-> node.depth, last_used |-> node.last_used,
              members |-> node.members, resume |-> node.resume ]
  /\ node.kind \in Kinds
  /\ node.value_start \in Nat
  /\ node.close \in Nat \cup {None}
  /\ node.depth \in Nat
  /\ node.last_used \in Nat
  /\ IsTable(node.members)
  /\ node.kind = "object" => DOMAIN node.members \subseteq Names /\ node.resume \in Nat
  /\ node.kind = "array" => DOMAIN node.members \subseteq Nat /\ node.resume = None

Keys == Nat \X Seq(Segment)

\* A member an object scan saw: its name, where a scan can resume in front of
\* it, and its value.
NamedEntry == [name : Names, at : Nat, value : Nat]

Seeds == [kind : Kinds, index : Nat, offset : Nat] \cup {None}

IndexTypeOK ==
  /\ tick \in Nat
  /\ \A k \in DOMAIN nodes : k \in Keys /\ NodeOK(nodes[k])

(***************************************************************************)
(* What the index itself promises, whoever calls it.                       *)
(***************************************************************************)

\* The incremental total is the sum over the nodes, and it is within budget
\* whenever the lock is free: upsert's delta and the eviction loop's
\* subtraction never drift apart (cache.rs:223-226, 246-253).
SlotsAccounted ==
  /\ slots_used = TotalCost(nodes, DOMAIN nodes)
  /\ slots_used <= SlotBudget

\* A write never sheds a container while a deeper one, or one of the same
\* depth that was used less recently, stays (cache.rs:230-233, 245).
ShallowOutlivesDeep ==
  [][\A gone \in DOMAIN nodes \ DOMAIN nodes', kept \in DOMAIN nodes \cap DOMAIN nodes' :
       ~ ShedBefore(nodes'[kept], nodes[gone])]_indexVars
=============================================================================
