---------------------------- MODULE SessionProofs ----------------------------
(***************************************************************************)
(* Theorems about Session, for every document, budget, sampling interval   *)
(* and set of clients: first the lemmas about the operators of the index,  *)
(* what a write to it and a lookup in it keep of the shape of its nodes,   *)
(* then those about the text, the order of a container's entries and the   *)
(* walk of a path through containers, then the session over both.          *)
(***************************************************************************)
EXTENDS Session, NatSets, SequenceTheorems, TLAPS

(***************************************************************************)
(* Nodes keep their shape.                                                 *)
(***************************************************************************)

\* A container met for the first time.
LEMMA FreshNodeType ==
  ASSUME NEW kind \in Kinds, NEW value_start \in Nat, NEW depth \in Nat
  PROVE  NodeOK(FreshNode(kind, value_start, depth))
BY DEF FreshNode, NodeOK, IsTable, Kinds

\* The node a write starts from, known or fresh.
LEMMA NodeForType ==
  ASSUME IndexTypeOK,
         NEW key \in Keys, NEW kind \in Kinds, NEW value_start \in Nat, NEW base_depth \in Nat
  PROVE  NodeOK(NodeFor(key, kind, value_start, base_depth))
<1>1. CASE key \in DOMAIN nodes
  BY <1>1 DEF IndexTypeOK, NodeFor
<1>2. CASE key \notin DOMAIN nodes
  <2>1. base_depth + Len(key[2]) \in Nat
    BY LenProperties DEF Keys
  <2> QED
    BY <1>2, <2>1, FreshNodeType DEF NodeFor
<1> QED
  BY <1>1, <1>2

\* A write-back to an array.
LEMMA MergeArrayType ==
  ASSUME NEW node, NodeOK(node), NEW new, IsTable(new), DOMAIN new \subseteq Nat
  PROVE  NodeOK(MergeArray(node, new))
BY DEF MergeArray, NodeOK, IsTable, Kinds

\* Positions a merge selects are positions of the scan.
LEMMA TabledPositions ==
  ASSUME NEW node, NEW new
  PROVE  /\ Untabled(node, new) \subseteq DOMAIN new
         /\ Tabled(node, new) \subseteq Untabled(node, new)
BY DEF Untabled, Tabled

\* The mark a merge offers is an offset.
LEMMA ReachedType ==
  ASSUME NEW node, NodeOK(node), node.kind = "object",
         NEW new \in Seq(NamedEntry), NEW hint \in Nat \cup {None}
  PROVE  Reached(node, new, hint) \in Nat
<1> DEFINE overflow == Untabled(node, new) \ Tabled(node, new)
<1>1. ASSUME NEW i \in DOMAIN new PROVE i \in Nat /\ new[i].at \in Nat
  <2>1. i \in 1 .. Len(new) /\ new[i] \in NamedEntry
    BY LenProperties, ElementOfSeq
  <2> QED
    BY <2>1, LenProperties DEF NamedEntry
<1>2. overflow \in SUBSET DOMAIN new
  BY TabledPositions
<1>3. CASE overflow # {}
  <2>1. Min(overflow) \in DOMAIN new
    BY <1>1, <1>2, <1>3, MinNat
  <2> QED
    BY <1>1, <1>3, <2>1 DEF Reached
<1>4. CASE overflow = {} /\ hint # None
  BY <1>4 DEF Reached
<1>5. CASE overflow = {} /\ hint = None /\ new # <<>>
  <2>1. Len(new) \in DOMAIN new
    BY <1>5, LenProperties, EmptySeq
  <2> QED
    BY <1>1, <1>5, <2>1 DEF Reached
<1>6. CASE overflow = {} /\ hint = None /\ new = <<>>
  BY <1>6 DEF Reached, NodeOK
<1> QED
  BY <1>3, <1>4, <1>5, <1>6

\* A write-back to an object.
LEMMA MergeObjectType ==
  ASSUME NEW node, NodeOK(node),
         NEW new \in Seq(NamedEntry), NEW hint \in Nat \cup {None}
  PROVE  NodeOK(MergeObject(node, new, hint))
<1> DEFINE tabled == Tabled(node, new)
           Value(n) == IF n \in DOMAIN node.members
                         THEN node.members[n]
                         ELSE new[CHOOSE i \in tabled : new[i].name = n].value
           merged == [n \in DOMAIN node.members \cup {new[i].name : i \in tabled} |-> Value(n)]
           mark == Advanced(node.resume, Reached(node, new, hint))
<1>1. CASE node.kind = "object"
  <2>1. ASSUME NEW i \in tabled PROVE new[i].name \in Names /\ new[i].value \in Nat
    <3>1. i \in DOMAIN new
      BY TabledPositions
    <3>2. new[i] \in NamedEntry
      BY <3>1, LenProperties, ElementOfSeq
    <3> QED
      BY <3>2 DEF NamedEntry
  <2>2. \A n \in DOMAIN merged : Value(n) \in Nat
    BY <1>1, <2>1 DEF NodeOK, IsTable
  <2>3. DOMAIN merged \subseteq Names
    BY <1>1, <2>1 DEF NodeOK
  <2>4. mark \in Nat
    BY <1>1, ReachedType DEF Advanced, NodeOK
  <2>5. MergeObject(node, new, hint) = [node EXCEPT !.members = merged, !.resume = mark]
    BY <1>1 DEF MergeObject
  <2> HIDE DEF merged, mark
  <2>6. IsTable(merged)
    BY <2>2, <2>3 DEF IsTable, merged
  <2> QED
    BY <1>1, <2>3, <2>4, <2>5, <2>6 DEF NodeOK
<1>2. CASE node.kind # "object"
  BY <1>2 DEF MergeObject
<1> QED
  BY <1>1, <1>2

(***************************************************************************)
(* Operations of the index keep its type.                                  *)
(***************************************************************************)

\* Storing a node and evicting.
LEMMA PutType ==
  ASSUME IndexTypeOK, NEW key \in Keys, NEW node, NodeOK(node), Put(key, node)
  PROVE  IndexTypeOK'
<1> DEFINE stored == [node EXCEPT !.last_used = tick + 1]
           written == [k \in DOMAIN nodes \cup {key} |-> IF k = key THEN stored ELSE nodes[k]]
<1>1. NodeOK(stored)
  BY DEF NodeOK, IndexTypeOK
<1>2. PICK gone : nodes' = [k \in DOMAIN written \ gone |-> written[k]]
  BY DEF Put
<1>3. tick' \in Nat
  BY DEF Put, IndexTypeOK
<1>4. \A k \in DOMAIN nodes' : k \in Keys /\ NodeOK(nodes'[k])
  BY <1>1, <1>2 DEF IndexTypeOK
<1> QED
  BY <1>3, <1>4 DEF IndexTypeOK

\* Recording a container's close.
LEMMA StoreCloseType ==
  ASSUME IndexTypeOK,
         NEW key \in Keys, NEW kind \in Kinds, NEW value_start \in Nat, NEW base_depth \in Nat,
         NEW close \in Nat, StoreClose(key, kind, value_start, base_depth, close)
  PROVE  IndexTypeOK'
<1> DEFINE node == [NodeFor(key, kind, value_start, base_depth) EXCEPT !.close = close]
<1>1. NodeOK(node)
  BY NodeForType DEF NodeOK
<1>2. CASE IsEnabled
  BY <1>1, <1>2, PutType DEF StoreClose
<1>3. CASE ~ IsEnabled
  BY <1>3 DEF StoreClose, indexVars, IndexTypeOK
<1> QED
  BY <1>2, <1>3

\* Writing back an array scan.
LEMMA MergeArrayScanType ==
  ASSUME IndexTypeOK,
         NEW key \in Keys, NEW value_start \in Nat, NEW base_depth \in Nat,
         NEW new, IsTable(new), DOMAIN new \subseteq Nat,
         MergeArrayScan(key, value_start, base_depth, new)
  PROVE  IndexTypeOK'
<1>1. NodeOK(MergeArray(NodeFor(key, "array", value_start, base_depth), new))
  BY NodeForType, MergeArrayType DEF Kinds
<1>2. CASE IsEnabled
  BY <1>1, <1>2, PutType DEF MergeArrayScan
<1>3. CASE ~ IsEnabled
  BY <1>3 DEF MergeArrayScan, indexVars, IndexTypeOK
<1> QED
  BY <1>2, <1>3

\* Writing back an object scan.
LEMMA MergeObjectScanType ==
  ASSUME IndexTypeOK,
         NEW key \in Keys, NEW value_start \in Nat, NEW base_depth \in Nat,
         NEW new \in Seq(NamedEntry), NEW hint \in Nat \cup {None},
         MergeObjectScan(key, value_start, base_depth, new, hint)
  PROVE  IndexTypeOK'
<1>1. NodeOK(MergeObject(NodeFor(key, "object", value_start, base_depth), new, hint))
  BY NodeForType, MergeObjectType DEF Kinds
<1>2. CASE IsEnabled
  BY <1>1, <1>2, PutType DEF MergeObjectScan
<1>3. CASE ~ IsEnabled
  BY <1>3 DEF MergeObjectScan, indexVars, IndexTypeOK
<1> QED
  BY <1>2, <1>3

\* The container a prefix of a path leads to has a key.
LEMMA KeyType ==
  ASSUME NEW anchor \in Nat, NEW path \in Seq(Segment), NEW seg \in 0 .. Len(path)
  PROVE  Key(anchor, path, seg) \in Keys
<1>1. \A i \in 1 .. seg : path[i] \in Segment
  BY LenProperties
<1>2. SubSeq(path, 1, seg) \in Seq(Segment)
  BY <1>1, SubSeqProperties, LenProperties
<1> QED
  BY <1>2 DEF Key, Keys

\* A lookup only touches the recency of what it visits.
LEMMA TouchChainType ==
  ASSUME IndexTypeOK, NEW anchor \in Nat, NEW path \in Seq(Segment), NEW seg \in 0 .. Len(path),
         TouchChain(anchor, path, seg)
  PROVE  IndexTypeOK'
<1>1. tick' \in Nat
  BY LenProperties DEF TouchChain, IndexTypeOK
<1>2. ASSUME NEW k \in DOMAIN nodes' PROVE k \in Keys /\ NodeOK(nodes'[k])
  <2>1. k \in DOMAIN nodes /\ k \in Keys /\ NodeOK(nodes[k])
    BY <1>2 DEF TouchChain, IndexTypeOK
  <2>2. tick + 1 + Len(k[2]) \in Nat
    BY <2>1, LenProperties DEF Keys, IndexTypeOK
  <2>3. \/ nodes'[k] = nodes[k]
        \/ nodes'[k] = [nodes[k] EXCEPT !.last_used = tick + 1 + Len(k[2])]
    BY <2>1 DEF TouchChain
  <2> QED
    BY <2>1, <2>2, <2>3 DEF NodeOK
<1> QED
  BY <1>1, <1>2 DEF IndexTypeOK

\* A lookup lands on an offset.
LEMMA ChainStartType ==
  ASSUME IndexTypeOK, NEW anchor \in Nat, NEW path \in Seq(Segment), NEW seg \in 0 .. Len(path),
         ChainStopsAt(anchor, path, seg)
  PROVE  ChainStart(anchor, path, seg) \in Nat
<1>1. CASE seg = 0
  BY <1>1 DEF ChainStart
<1>2. CASE seg # 0
  <2>1. HopsInto(anchor, path, seg)
    BY <1>2, LenProperties DEF ChainStopsAt
  <2> QED
    BY <1>2, <2>1 DEF HopsInto, ChainStart, IndexTypeOK, NodeOK, IsTable
<1> QED
  BY <1>1, <1>2

\* A lookup seeds the scan with a resume point of the container it landed on,
\* or with none.
LEMMA ChainSeedType ==
  ASSUME IndexTypeOK, NEW anchor \in Nat, NEW path \in Seq(Segment), NEW seg \in 0 .. Len(path)
  PROVE  ChainSeed(anchor, path, seg) \in Seeds
<1> DEFINE key == Key(anchor, path, seg)
           node == nodes[key]
<1>1. CASE seg = Len(path) \/ key \notin DOMAIN nodes \/ node.kind # KindOf(path[seg + 1])
  BY <1>1 DEF ChainSeed, Seeds
<1>2. CASE ~ (seg = Len(path) \/ key \notin DOMAIN nodes \/ node.kind # KindOf(path[seg + 1]))
  <2>1. NodeOK(node)
    BY <1>2 DEF IndexTypeOK
  <2>2. CASE node.kind = "object"
    BY <1>2, <2>1, <2>2 DEF ChainSeed, Seeds, ResumePoint, NodeOK, Kinds
  <2>3. CASE node.kind # "object"
    <3> DEFINE target == path[seg + 1].element
               below == {i \in DOMAIN node.members : i <= target}
    <3>1. node.kind = "array" /\ ~ IsMember(path[seg + 1])
      BY <1>2, <2>1, <2>3 DEF NodeOK, Kinds, KindOf
    <3>2. path[seg + 1] \in Segment
      BY <1>2, LenProperties
    <3>3. target \in Nat
      BY <3>1, <3>2 DEF Segment, IsMember
    <3>4. below \in SUBSET Nat /\ \A i \in below : i <= target
      BY <2>1, <3>1 DEF NodeOK
    <3>5. ChainSeed(anchor, path, seg) = NearestArrayMember(node, target)
      BY <1>2, <2>3 DEF ChainSeed
    <3>6. CASE below = {}
      BY <3>5, <3>6 DEF NearestArrayMember, Seeds
    <3>7. CASE below # {}
      <4>1. Max(below) \in below
        BY <3>3, <3>4, <3>7, MaxNat
      <4>2. node.members[Max(below)] \in Nat
        BY <2>1, <4>1 DEF NodeOK, IsTable
      <4>3. Max(below) \in Nat
        BY <3>4, <4>1
      <4>4. ResumePoint("array", Max(below), node.members[Max(below)])
              \in [kind : Kinds, index : Nat, offset : Nat]
        BY <4>2, <4>3 DEF ResumePoint, Kinds
      <4>5. ChainSeed(anchor, path, seg)
              = ResumePoint("array", Max(below), node.members[Max(below)])
        BY <3>5, <3>7 DEF NearestArrayMember
      <4> QED
        BY <4>4, <4>5 DEF Seeds
    <3> QED
      BY <3>6, <3>7
  <2> QED
    BY <2>2, <2>3
<1> QED
  BY <1>1, <1>2

(***************************************************************************)
(* The books: what slots_used stands for.                                  *)
(***************************************************************************)

\* A node's cost can be counted.
Countable(node) == node.kind = "object" => IsFiniteSet(DOMAIN node.members)

\* A table of finitely many nodes, each of which can be counted.
CountableTable(table) ==
  /\ IsFiniteSet(DOMAIN table)
  /\ \A k \in DOMAIN table : Countable(table[k])

LEMMA CostType ==
  ASSUME NEW node, Countable(node)
  PROVE  SlotCost(node) \in Nat
BY FS_CardinalityType DEF Countable, SlotCost

Costs(table, keys) == [k \in keys |-> SlotCost(table[k])]

\* The slots of the nodes at "keys", each told apart.
Slots(table, keys) == UNION {{k} \X (1 .. SlotCost(table[k])) : k \in keys}

\* The total cost counts the slots of the nodes.
LEMMA TotalIsUnits ==
  ASSUME NEW table, CountableTable(table), NEW keys \in SUBSET DOMAIN table
  PROVE  /\ IsFiniteSet(Slots(table, keys))
         /\ TotalCost(table, keys) = Cardinality(Slots(table, keys))
<1> DEFINE cost == Costs(table, keys)
           count == [s \in SUBSET keys |-> Cardinality(Units(cost, s))]
           Iter(F) == F = [s \in SUBSET keys |->
                             IF s = {} THEN 0
                             ELSE LET x == CHOOSE y \in s : TRUE
                                  IN  SlotCost(table[x]) + F[s \ {x}]]
<1>1. IsFiniteSet(keys) /\ \A k \in keys : cost[k] \in Nat
  BY FS_Subset, CostType DEF CountableTable, Costs
<1>2. \A F : Iter(F) <=> IsSum(F, cost, keys)
  BY DEF IsSum, Costs
<1>3. IsSum(count, cost, keys) /\ \A F : IsSum(F, cost, keys) => F = count
  BY <1>1, SumIsUnits
<1>4. TotalCost(table, keys) = (CHOOSE F : Iter(F))[keys]
  BY DEF TotalCost, MapThenSumSet, MapThenFoldSet
<1> HIDE DEF Iter, count
<1>5. Iter(CHOOSE F : Iter(F))
  BY <1>2, <1>3
<1>6. (CHOOSE F : Iter(F)) = count
  BY <1>2, <1>3, <1>5
<1>7. Units(cost, keys) = Slots(table, keys)
  BY DEF Units, Slots, Costs
<1>8. IsFiniteSet(Units(cost, keys))
  BY <1>1, UnitsSplit
<1> QED
  BY <1>4, <1>6, <1>7, <1>8 DEF count

\* A total is a number, and that of no nodes is 0.
LEMMA TotalType ==
  ASSUME NEW table, CountableTable(table), NEW keys \in SUBSET DOMAIN table
  PROVE  /\ TotalCost(table, keys) \in Nat
         /\ keys = {} => TotalCost(table, keys) = 0
<1>1. keys = {} => Slots(table, keys) = {}
  BY DEF Slots
<1> QED
  BY <1>1, TotalIsUnits, FS_CardinalityType, FS_EmptySet

\* A total grows with the nodes.
LEMMA TotalWithin ==
  ASSUME NEW table, CountableTable(table), NEW keys \in SUBSET DOMAIN table, NEW part \in SUBSET keys
  PROVE  TotalCost(table, part) <= TotalCost(table, keys)
<1>1. Slots(table, part) \in SUBSET Slots(table, keys)
  BY DEF Slots
<1>2. part \in SUBSET DOMAIN table
  OBVIOUS
<1> QED
  BY <1>1, <1>2, TotalIsUnits, FS_Subset

\* A total is that of a part and that of the rest.
LEMMA TotalSplit ==
  ASSUME NEW table, CountableTable(table), NEW keys \in SUBSET DOMAIN table, NEW part \in SUBSET keys
  PROVE  TotalCost(table, keys) = TotalCost(table, part) + TotalCost(table, keys \ part)
<1> DEFINE these == Slots(table, part)
           others == Slots(table, keys \ part)
<1>1. Slots(table, keys) = these \cup others
  BY DEF Slots
<1>2. these \cap others = {}
  BY DEF Slots
<1>3. part \in SUBSET DOMAIN table /\ keys \ part \in SUBSET DOMAIN table
  OBVIOUS
<1>4. IsFiniteSet(these) /\ IsFiniteSet(others)
  BY <1>3, TotalIsUnits
<1> HIDE DEF these, others
<1>5. Cardinality(these \cup others)
        = Cardinality(these) + Cardinality(others) - Cardinality(these \cap others)
  BY <1>4, FS_Union
<1>6. Cardinality(these \cup others) = Cardinality(these) + Cardinality(others)
  <2>1. Cardinality(these \cap others) = 0
    BY <1>2, FS_EmptySet
  <2>2. Cardinality(these) \in Nat /\ Cardinality(others) \in Nat
    BY <1>4, FS_CardinalityType
  <2> QED
    BY <1>5, <2>1, <2>2
<1>7. TotalCost(table, keys) = Cardinality(these \cup others)
  BY <1>1, TotalIsUnits
<1>8. TotalCost(table, part) = Cardinality(these) /\ TotalCost(table, keys \ part) = Cardinality(others)
  BY <1>3, TotalIsUnits DEF these, others
<1> QED
  BY <1>6, <1>7, <1>8

\* The total of one node is its cost.
LEMMA TotalOfOne ==
  ASSUME NEW table, CountableTable(table), NEW k \in DOMAIN table
  PROVE  TotalCost(table, {k}) = SlotCost(table[k])
<1> DEFINE cost == Costs(table, {k})
<1>1. IsFiniteSet({k}) /\ cost[k] = SlotCost(table[k]) /\ cost[k] \in Nat
  BY FS_Singleton, CostType DEF CountableTable, Costs
<1> HIDE DEF cost
<1>2. Cardinality(Units(cost, {k})) = cost[k] + Cardinality(Units(cost, {k} \ {k}))
  <2>1. \A x \in {k} : cost[x] \in Nat
    BY <1>1
  <2> QED
    BY <1>1, <2>1, UnitsSplit
<1>3. Units(cost, {k} \ {k}) = {}
  BY DEF Units
<1>4. Units(cost, {k}) = Slots(table, {k})
  BY DEF Units, Slots, Costs, cost
<1>5. TotalCost(table, {k}) = Cardinality(Slots(table, {k}))
  BY TotalIsUnits
<1>6. Cardinality(Units(cost, {k} \ {k})) = 0
  BY <1>3, FS_EmptySet
<1> QED
  BY <1>1, <1>2, <1>4, <1>5, <1>6

\* A total depends on the costs of its nodes alone.
LEMMA TotalSame ==
  ASSUME NEW table1, CountableTable(table1), NEW table2, CountableTable(table2),
         NEW keys, keys \subseteq DOMAIN table1, keys \subseteq DOMAIN table2,
         \A k \in keys : SlotCost(table1[k]) = SlotCost(table2[k])
  PROVE  TotalCost(table1, keys) = TotalCost(table2, keys)
<1>1. Slots(table1, keys) = Slots(table2, keys)
  BY DEF Slots
<1> QED
  BY <1>1, TotalIsUnits

(***************************************************************************)
(* Eviction.                                                               *)
(***************************************************************************)

\* The nodes whose turn to be shed comes before that of k.
ShedAhead(table, k) == {j \in DOMAIN table : ShedBefore(table[j], table[k])}

\* Turns are ordered.
LEMMA TurnsOrdered ==
  ASSUME NEW table, \A k \in DOMAIN table : NodeOK(table[k]),
         NEW j \in DOMAIN table, NEW k \in DOMAIN table, ShedBefore(table[j], table[k])
  PROVE  ShedAhead(table, j) \subseteq ShedAhead(table, k) \ {j}
BY DEF ShedAhead, ShedBefore, NodeOK

\* What goes, goes in turn: with a node everything goes that is ahead of it.
LEMMA ShedInTurn ==
  ASSUME NEW table, CountableTable(table), \A k \in DOMAIN table : NodeOK(table[k]),
         NEW used \in Nat,
         NEW j \in DOMAIN table, NEW k \in Evicted(table, used), ShedBefore(table[j], table[k])
  PROVE  j \in Evicted(table, used)
<1>1. k \in DOMAIN table /\ used - TotalCost(table, ShedAhead(table, k)) > LowWater
      /\ ~ (used <= SlotBudget)
  BY DEF Evicted, ShedAhead
<1>2. ShedAhead(table, j) \in SUBSET ShedAhead(table, k) /\ ShedAhead(table, k) \in SUBSET DOMAIN table
  BY <1>1, TurnsOrdered DEF ShedAhead
<1>3. TotalCost(table, ShedAhead(table, j)) <= TotalCost(table, ShedAhead(table, k))
  BY <1>2, TotalWithin
<1>4. TotalCost(table, ShedAhead(table, j)) \in Nat /\ TotalCost(table, ShedAhead(table, k)) \in Nat
  BY <1>2, TotalType
<1>5. LowWater \in Int
  BY KnobAssumption DEF LowWater
<1>6. used - TotalCost(table, ShedAhead(table, j)) > LowWater
  BY <1>1, <1>3, <1>4, <1>5
<1> QED
  BY <1>1, <1>6 DEF Evicted, ShedAhead

\* What stays fits under the low-water mark.
LEMMA RestFits ==
  ASSUME NEW table, CountableTable(table), \A k \in DOMAIN table : NodeOK(table[k]),
         NEW used, used = TotalCost(table, DOMAIN table), used > SlotBudget
  PROVE  TotalCost(table, DOMAIN table \ Evicted(table, used)) <= LowWater
<1> DEFINE gone == Evicted(table, used)
           stays == DOMAIN table \ gone
           Ahead(k) == Cardinality(ShedAhead(table, k))
<1>1. LowWater \in Nat
  BY KnobAssumption DEF LowWater
<1>2. used \in Nat /\ SlotBudget \in Nat
  BY TotalType, KnobAssumption
<1>3. gone \in SUBSET DOMAIN table /\ stays \in SUBSET DOMAIN table
  BY DEF Evicted
<1>4. CASE stays = {}
  BY <1>1, <1>4, TotalType
<1>5. CASE stays # {}
  <2> DEFINE Turns == {Ahead(k) : k \in stays}
  <2>1. ASSUME NEW k \in DOMAIN table
        PROVE  ShedAhead(table, k) \in SUBSET DOMAIN table /\ IsFiniteSet(ShedAhead(table, k))
               /\ Ahead(k) \in Nat
    <3>1. ShedAhead(table, k) \in SUBSET DOMAIN table
      BY DEF ShedAhead
    <3>2. IsFiniteSet(ShedAhead(table, k))
      BY <3>1, FS_Subset DEF CountableTable
    <3> QED
      BY <3>1, <3>2, FS_CardinalityType
  <2>2. Turns \in SUBSET Nat /\ Turns # {}
    BY <1>3, <1>5, <2>1
  <2>3. PICK k \in stays : \A j \in stays : Ahead(k) <= Ahead(j)
    <3>1. Min(Turns) \in Turns /\ \A n \in Turns : Min(Turns) <= n
      BY <2>2, MinNat
    <3> HIDE DEF stays
    <3> QED
      BY <3>1
  <2>4. ShedAhead(table, k) \subseteq gone
    <3> SUFFICES ASSUME NEW j \in ShedAhead(table, k), j \notin gone
                 PROVE  FALSE
      OBVIOUS
    <3>1. j \in stays /\ ShedBefore(table[j], table[k])
      BY DEF ShedAhead
    <3>2. ShedAhead(table, j) \in SUBSET (ShedAhead(table, k) \ {j})
      BY <3>1, TurnsOrdered
    <3>3. Cardinality(ShedAhead(table, k) \ {j}) = Ahead(k) - 1 /\ IsFiniteSet(ShedAhead(table, k) \ {j})
      BY <2>1, FS_RemoveElement
    <3>4. Ahead(j) <= Cardinality(ShedAhead(table, k) \ {j})
      BY <3>2, <3>3, FS_Subset
    <3> HIDE DEF Ahead
    <3> QED
      BY <2>1, <2>3, <3>1, <3>3, <3>4
  <2>5. ~ (used - TotalCost(table, ShedAhead(table, k)) > LowWater)
    BY <1>2 DEF Evicted, ShedAhead
  <2>6. TotalCost(table, ShedAhead(table, k)) <= TotalCost(table, gone)
    BY <1>3, <2>4, TotalWithin
  <2>7. used = TotalCost(table, gone) + TotalCost(table, stays)
    BY <1>3, TotalSplit
  <2>8. /\ TotalCost(table, ShedAhead(table, k)) \in Nat
        /\ TotalCost(table, gone) \in Nat
        /\ TotalCost(table, stays) \in Nat
    BY <1>3, <2>1, TotalType
  <2> HIDE DEF gone, stays
  <2>9. TotalCost(table, stays) <= LowWater
    BY <1>1, <1>2, <2>5, <2>6, <2>7, <2>8
  <2> QED
    BY <2>9 DEF stays, gone
<1> QED
  BY <1>4, <1>5

(***************************************************************************)
(* The books are kept by every operation.                                  *)
(***************************************************************************)

\* No node was used later than now.
Stamped == \A k \in DOMAIN nodes : nodes[k].last_used <= tick

\* The nodes can be counted, the clock has passed every stamp, and the running
\* total is right.
Accounted == CountableTable(nodes) /\ Stamped /\ SlotsAccounted

\* What one step sheds and what it keeps (ShallowOutlivesDeep).
ShedRight ==
  \A gone \in DOMAIN nodes \ DOMAIN nodes', kept \in DOMAIN nodes \cap DOMAIN nodes' :
    ~ ShedBefore(nodes'[kept], nodes[gone])

\* Storing a node and evicting.
LEMMA PutAccounts ==
  ASSUME IndexTypeOK, Accounted,
         NEW key \in Keys, NEW node, NodeOK(node), Countable(node),
         key \in DOMAIN nodes => node.depth = nodes[key].depth,
         Put(key, node)
  PROVE  Accounted' /\ ShedRight
<1> DEFINE stored == [node EXCEPT !.last_used = tick + 1]
           written == [k \in DOMAIN nodes \cup {key} |-> IF k = key THEN stored ELSE nodes[k]]
           used == slots_used + SlotDelta(key, stored)
           gone == Evicted(written, used)
           stays == DOMAIN written \ gone
<1>1. /\ nodes' = [k \in stays |-> written[k]]
      /\ slots_used' = used - TotalCost(written, gone)
      /\ tick' = tick + 1
      /\ tick \in Nat
  BY DEF Put, Freed, IndexTypeOK
<1>2. NodeOK(stored) /\ Countable(stored) /\ stored.last_used = tick + 1 /\ stored.depth = node.depth
  BY <1>1 DEF NodeOK, Countable
<1>3. /\ DOMAIN written = DOMAIN nodes \cup {key}
      /\ written[key] = stored
      /\ \A k \in DOMAIN nodes \ {key} : written[k] = nodes[k]
  OBVIOUS
<1>4. /\ gone \in SUBSET DOMAIN written
      /\ stays \in SUBSET DOMAIN written
      /\ DOMAIN written \ gone = stays
  BY DEF Evicted
<1> HIDE DEF stored, written, stays
<1>5. CountableTable(written)
  BY <1>2, <1>3, FS_AddElement DEF Accounted, CountableTable
<1>6. \A k \in DOMAIN written : NodeOK(written[k])
  BY <1>2, <1>3 DEF IndexTypeOK
<1>7. used = TotalCost(written, DOMAIN written)
  <2> DEFINE others == DOMAIN nodes \ {key}
  <2>1. others \in SUBSET DOMAIN nodes /\ others \in SUBSET DOMAIN written /\ CountableTable(nodes)
    BY <1>3 DEF Accounted
  <2>2. TotalCost(nodes, others) = TotalCost(written, others)
    BY <1>3, <1>5, <2>1, TotalSame
  <2>3. TotalCost(written, DOMAIN written) = SlotCost(stored) + TotalCost(written, others)
    <3>1. {key} \in SUBSET DOMAIN written /\ DOMAIN written \ {key} = others
      BY <1>3
    <3>2. TotalCost(written, {key}) = SlotCost(stored)
      BY <1>3, <1>5, TotalOfOne
    <3> QED
      BY <1>5, <3>1, <3>2, TotalSplit
  <2>4. SlotCost(stored) \in Nat /\ TotalCost(nodes, others) \in Nat
    BY <1>2, <2>1, CostType, TotalType
  <2>5. slots_used = TotalCost(nodes, DOMAIN nodes)
    BY DEF Accounted, SlotsAccounted
  <2>6. CASE key \in DOMAIN nodes
    <3>1. {key} \in SUBSET DOMAIN nodes
      BY <2>6
    <3>2. TotalCost(nodes, {key}) = SlotCost(nodes[key]) /\ SlotCost(nodes[key]) \in Nat
      BY <2>1, <2>6, TotalOfOne, CostType DEF CountableTable
    <3>3. TotalCost(nodes, DOMAIN nodes) = SlotCost(nodes[key]) + TotalCost(nodes, others)
      BY <2>1, <3>1, <3>2, TotalSplit
    <3>4. SlotDelta(key, stored) = SlotCost(stored) - SlotCost(nodes[key])
      BY <2>6 DEF SlotDelta
    <3> QED
      BY <2>2, <2>3, <2>4, <2>5, <3>2, <3>3, <3>4
  <2>7. CASE key \notin DOMAIN nodes
    <3>1. others = DOMAIN nodes
      BY <2>7
    <3>2. SlotDelta(key, stored) = SlotCost(stored)
      BY <2>4, <2>7 DEF SlotDelta
    <3> QED
      BY <2>2, <2>3, <2>4, <2>5, <3>1, <3>2
  <2> QED
    BY <2>6, <2>7
<1>8. used \in Nat /\ SlotBudget \in Nat /\ LowWater <= SlotBudget
  BY <1>5, <1>7, TotalType, KnobAssumption DEF LowWater
<1>9. CountableTable(nodes')
  <2>1. IsFiniteSet(stays)
    BY <1>4, <1>5, FS_Subset DEF CountableTable
  <2> QED
    BY <1>1, <1>4, <1>5, <2>1 DEF CountableTable
<1>10. slots_used' = TotalCost(written, stays)
  <2>1. TotalCost(written, DOMAIN written) = TotalCost(written, gone) + TotalCost(written, stays)
    BY <1>4, <1>5, TotalSplit
  <2>2. TotalCost(written, gone) \in Nat /\ TotalCost(written, stays) \in Nat
    BY <1>4, <1>5, TotalType
  <2> QED
    BY <1>1, <1>7, <2>1, <2>2
<1>11. slots_used' <= SlotBudget
  <2>1. CASE used > SlotBudget
    <3>1. TotalCost(written, stays) <= LowWater
      BY <1>4, <1>5, <1>6, <1>7, <2>1, RestFits
    <3>2. TotalCost(written, stays) \in Nat /\ LowWater \in Int
      BY <1>4, <1>5, TotalType, KnobAssumption DEF LowWater
    <3> QED
      BY <1>8, <1>10, <3>1, <3>2
  <2>2. CASE ~ (used > SlotBudget)
    <3>1. gone = {}
      BY <1>8, <2>2 DEF Evicted
    <3>2. stays = DOMAIN written
      BY <1>4, <3>1
    <3> QED
      BY <1>7, <1>8, <1>10, <2>2, <3>2
  <2> QED
    BY <2>1, <2>2
<1>12. TotalCost(nodes', DOMAIN nodes') = TotalCost(written, stays)
  BY <1>1, <1>4, <1>5, <1>9, TotalSame
<1>13. Stamped'
  BY <1>1, <1>2, <1>3, <1>4, <1>6 DEF Accounted, Stamped, NodeOK, IndexTypeOK
<1>14. ShedRight
  <2> SUFFICES ASSUME NEW g \in DOMAIN nodes \ DOMAIN nodes', NEW k \in DOMAIN nodes \cap DOMAIN nodes',
                      ShedBefore(nodes'[k], nodes[g])
               PROVE  FALSE
    BY DEF ShedRight
  <2>1. g \in gone /\ g \in DOMAIN written /\ k \in stays /\ k \in DOMAIN written
        /\ nodes'[k] = written[k] /\ k # g
    BY <1>1, <1>3, <1>4
  <2>2. ShedBefore(written[k], written[g])
    <3>1. CASE g = key
      <4>1. written[g].depth = nodes[g].depth /\ nodes[g].last_used <= tick
            /\ written[g].last_used = tick + 1
        BY <1>2, <1>3, <3>1 DEF Accounted, Stamped
      <4>2. NodeOK(nodes[g]) /\ NodeOK(written[k])
        BY <1>6, <2>1 DEF IndexTypeOK
      <4>3. nodes[g].last_used \in Nat /\ written[k].last_used \in Nat
        BY <4>2 DEF NodeOK
      <4> QED
        BY <1>1, <2>1, <4>1, <4>3 DEF ShedBefore
    <3>2. CASE g # key
      BY <1>3, <2>1, <3>2
    <3> QED
      BY <3>1, <3>2
  <2>3. k \in gone
    BY <1>5, <1>6, <1>8, <2>1, <2>2, ShedInTurn
  <2> QED
    BY <1>4, <2>1, <2>3
<1> QED
  BY <1>9, <1>10, <1>11, <1>12, <1>13, <1>14 DEF Accounted, SlotsAccounted, CountableTable

\* A step that leaves the index alone.
LEMMA IdleAccounts ==
  ASSUME Accounted, UNCHANGED indexVars
  PROVE  Accounted' /\ ShedRight
<1>1. nodes' = nodes /\ slots_used' = slots_used /\ tick' = tick
  BY DEF indexVars
<1>2. CountableTable(nodes')
  BY <1>1 DEF Accounted
<1>3. TotalCost(nodes', DOMAIN nodes') = TotalCost(nodes, DOMAIN nodes)
  BY <1>1
<1> QED
  BY <1>1, <1>2, <1>3 DEF Accounted, Stamped, SlotsAccounted, CountableTable, ShedRight

\* The node a write starts from has the members and the depth of the node
\* known at its key, if there is one.
LEMMA NodeForCountable ==
  ASSUME CountableTable(nodes), NEW key, NEW kind, NEW value_start, NEW base_depth
  PROVE  LET node == NodeFor(key, kind, value_start, base_depth)
         IN  Countable(node) /\ (key \in DOMAIN nodes => node.depth = nodes[key].depth)
BY FS_EmptySet DEF CountableTable, Countable, NodeFor, FreshNode

LEMMA MergeArrayCountable ==
  ASSUME NEW node, NodeOK(node), Countable(node), NEW new
  PROVE  Countable(MergeArray(node, new)) /\ MergeArray(node, new).depth = node.depth
BY DEF MergeArray, Countable, NodeOK

LEMMA MergeObjectCountable ==
  ASSUME NEW node, NodeOK(node), Countable(node), NEW new \in Seq(NamedEntry), NEW hint
  PROVE  Countable(MergeObject(node, new, hint)) /\ MergeObject(node, new, hint).depth = node.depth
<1>1. CASE node.kind = "object"
  <2> DEFINE tabled == Tabled(node, new)
             names == {new[i].name : i \in tabled}
             f == [i \in tabled |-> new[i].name]
             merged == [n \in DOMAIN node.members \cup names |->
                          IF n \in DOMAIN node.members
                            THEN node.members[n]
                            ELSE new[CHOOSE i \in tabled : new[i].name = n].value]
  <2>1. tabled \in SUBSET (1 .. Len(new))
    BY TabledPositions, LenProperties
  <2>2. IsFiniteSet(1 .. Len(new))
    BY FS_Interval, LenProperties
  <2>3. IsFiniteSet(tabled)
    BY <2>1, <2>2, FS_Subset
  <2>4. f \in Surjection(tabled, names)
    BY DEF Surjection
  <2>5. IsFiniteSet(names)
    BY <2>3, <2>4, FS_Surjection
  <2>6. IsFiniteSet(DOMAIN node.members \cup names)
    BY <1>1, <2>5, FS_Union DEF Countable
  <2>7. /\ MergeObject(node, new, hint).members = merged
        /\ MergeObject(node, new, hint).depth = node.depth
    BY <1>1 DEF MergeObject, NodeOK
  <2> QED
    BY <2>6, <2>7 DEF Countable
<1>2. CASE node.kind # "object"
  BY <1>2 DEF MergeObject
<1> QED
  BY <1>1, <1>2

LEMMA StoreCloseAccounts ==
  ASSUME IndexTypeOK, Accounted,
         NEW key \in Keys, NEW kind \in Kinds, NEW value_start \in Nat, NEW base_depth \in Nat,
         NEW close \in Nat, StoreClose(key, kind, value_start, base_depth, close)
  PROVE  Accounted' /\ ShedRight
<1> DEFINE known == NodeFor(key, kind, value_start, base_depth)
           node == [known EXCEPT !.close = close]
<1>1. NodeOK(known) /\ Countable(known) /\ (key \in DOMAIN nodes => known.depth = nodes[key].depth)
  BY NodeForType, NodeForCountable DEF Accounted
<1> HIDE DEF known
<1>2. NodeOK(node) /\ Countable(node) /\ (key \in DOMAIN nodes => node.depth = nodes[key].depth)
  BY <1>1 DEF NodeOK, Countable
<1>3. CASE IsEnabled
  BY <1>2, <1>3, PutAccounts DEF StoreClose, known
<1>4. CASE ~ IsEnabled
  BY <1>4, IdleAccounts DEF StoreClose
<1> QED
  BY <1>3, <1>4

LEMMA MergeArrayScanAccounts ==
  ASSUME IndexTypeOK, Accounted,
         NEW key \in Keys, NEW value_start \in Nat, NEW base_depth \in Nat,
         NEW new, IsTable(new), DOMAIN new \subseteq Nat,
         MergeArrayScan(key, value_start, base_depth, new)
  PROVE  Accounted' /\ ShedRight
<1> DEFINE known == NodeFor(key, "array", value_start, base_depth)
           node == MergeArray(known, new)
<1>1. NodeOK(known) /\ Countable(known) /\ (key \in DOMAIN nodes => known.depth = nodes[key].depth)
  BY NodeForType, NodeForCountable DEF Accounted, Kinds
<1> HIDE DEF known
<1>2. NodeOK(node) /\ Countable(node) /\ (key \in DOMAIN nodes => node.depth = nodes[key].depth)
  BY <1>1, MergeArrayType, MergeArrayCountable
<1>3. CASE IsEnabled
  BY <1>2, <1>3, PutAccounts DEF MergeArrayScan, known
<1>4. CASE ~ IsEnabled
  BY <1>4, IdleAccounts DEF MergeArrayScan
<1> QED
  BY <1>3, <1>4

LEMMA MergeObjectScanAccounts ==
  ASSUME IndexTypeOK, Accounted,
         NEW key \in Keys, NEW value_start \in Nat, NEW base_depth \in Nat,
         NEW new \in Seq(NamedEntry), NEW hint \in Nat \cup {None},
         MergeObjectScan(key, value_start, base_depth, new, hint)
  PROVE  Accounted' /\ ShedRight
<1> DEFINE known == NodeFor(key, "object", value_start, base_depth)
           node == MergeObject(known, new, hint)
<1>1. NodeOK(known) /\ Countable(known) /\ (key \in DOMAIN nodes => known.depth = nodes[key].depth)
  BY NodeForType, NodeForCountable DEF Accounted, Kinds
<1> HIDE DEF known
<1>2. NodeOK(node) /\ Countable(node) /\ (key \in DOMAIN nodes => node.depth = nodes[key].depth)
  BY <1>1, MergeObjectType, MergeObjectCountable
<1>3. CASE IsEnabled
  BY <1>2, <1>3, PutAccounts DEF MergeObjectScan, known
<1>4. CASE ~ IsEnabled
  BY <1>4, IdleAccounts DEF MergeObjectScan
<1> QED
  BY <1>3, <1>4

\* A lookup stamps what it visits, no later than the clock it leaves behind.
LEMMA TouchChainAccounts ==
  ASSUME IndexTypeOK, Accounted, NEW anchor \in Nat, NEW path \in Seq(Segment),
         NEW seg \in 0 .. Len(path), TouchChain(anchor, path, seg)
  PROVE  Accounted' /\ ShedRight
<1> DEFINE looked == IF seg = Len(path) THEN seg ELSE seg + 1
           visited == {Key(anchor, path, i) : i \in 0 .. looked - 1}
<1>1. /\ nodes' = [k \in DOMAIN nodes |->
                     IF k \in visited
                       THEN [nodes[k] EXCEPT !.last_used = tick + 1 + Len(k[2])]
                       ELSE nodes[k]]
      /\ tick' = tick + looked
      /\ slots_used' = slots_used
      /\ tick \in Nat
  BY DEF TouchChain, IndexTypeOK
<1>2. looked \in 0 .. Len(path)
  BY LenProperties
<1>3. ASSUME NEW k \in visited PROVE Len(k[2]) \in Nat /\ Len(k[2]) < looked
  <2>1. PICK i \in 0 .. looked - 1 : k = Key(anchor, path, i)
    OBVIOUS
  <2>2. k[2] = SubSeq(path, 1, i) /\ i \in 0 .. Len(path) /\ Len(path) \in Nat
    BY <1>2, <2>1, LenProperties DEF Key
  <2>3. \A j \in 1 .. i : path[j] \in Segment
    BY <2>2, LenProperties
  <2>4. Len(SubSeq(path, 1, i)) = i
    BY <2>2, <2>3, SubSeqProperties
  <2> QED
    BY <1>2, <2>2, <2>4
<1> HIDE DEF visited, looked
<1>4. DOMAIN nodes' = DOMAIN nodes
  BY <1>1
<1>5. ASSUME NEW k \in DOMAIN nodes
      PROVE  /\ nodes'[k].kind = nodes[k].kind
             /\ nodes'[k].members = nodes[k].members
             /\ nodes'[k].last_used <= tick'
  <2>1. NodeOK(nodes[k]) /\ nodes[k].last_used <= tick /\ nodes[k].last_used \in Nat
    BY DEF IndexTypeOK, Accounted, Stamped, NodeOK
  <2>2. CASE k \in visited
    <3>1. nodes'[k] = [nodes[k] EXCEPT !.last_used = tick + 1 + Len(k[2])]
      BY <1>1, <2>2
    <3>2. /\ nodes'[k].kind = nodes[k].kind
          /\ nodes'[k].members = nodes[k].members
          /\ nodes'[k].last_used = tick + 1 + Len(k[2])
      BY <2>1, <3>1 DEF NodeOK
    <3> QED
      BY <1>1, <1>2, <1>3, <2>2, <3>2
  <2>3. CASE k \notin visited
    BY <1>1, <1>2, <2>1, <2>3
  <2> QED
    BY <2>2, <2>3
<1>6. CountableTable(nodes')
  BY <1>4, <1>5 DEF Accounted, CountableTable, Countable
<1>7. TotalCost(nodes', DOMAIN nodes') = TotalCost(nodes, DOMAIN nodes)
  <2>1. \A k \in DOMAIN nodes : SlotCost(nodes'[k]) = SlotCost(nodes[k])
    BY <1>5 DEF SlotCost
  <2> QED
    BY <1>4, <1>6, <2>1, TotalSame DEF Accounted
<1> QED
  BY <1>1, <1>4, <1>5, <1>6, <1>7 DEF Accounted, Stamped, SlotsAccounted, CountableTable, ShedRight

(***************************************************************************)
(* The text: its containers and their entries.                             *)
(***************************************************************************)

\* What DocAssumption says of one container.
LEMMA ContainerFacts ==
  ASSUME NEW v \in DOMAIN Doc
  PROVE  /\ v \in Nat
         /\ Doc[v].kind \in {"object", "array"}
         /\ Doc[v].close \in Nat
         /\ Len(Entries(v)) \in Nat
         /\ DOMAIN Entries(v) = 1 .. Len(Entries(v))
         /\ Entries(v) \in Seq(Entry)
BY DocAssumption, LenProperties DEF Entries

\* Where one entry of a container stands.
LEMMA EntryPlace ==
  ASSUME NEW v \in DOMAIN Doc, NEW i \in 1 .. Len(Entries(v))
  PROVE  /\ Entries(v)[i].at \in Nat
         /\ Entries(v)[i].value \in Nat
         /\ Entries(v)[i].name \in Names \cup {None}
         /\ Entries(v)[i].at <= Entries(v)[i].value
         /\ Entries(v)[i].value < Doc[v].close
         /\ Doc[v].kind = "object" => Entries(v)[i].name \in Names
         /\ Doc[v].kind = "array" => Entries(v)[i].at = Entries(v)[i].value
<1>1. Entries(v)[i] \in Entry
  BY ContainerFacts, ElementOfSeq
<1>2. i \in DOMAIN Doc[v].entries
  BY ContainerFacts DEF Entries
<1>3. /\ Doc[v].entries[i].at <= Doc[v].entries[i].value
      /\ Doc[v].entries[i].value < Doc[v].close
      /\ Doc[v].kind = "array" => Doc[v].entries[i].at = Doc[v].entries[i].value
      /\ Doc[v].kind = "object" => Doc[v].entries[i].name # None
  BY <1>2, DocAssumption
<1> QED
  BY <1>1, <1>3 DEF Entry, Entries

\* A later entry stands behind the value of an earlier one.
LEMMA EntryOrder ==
  ASSUME NEW v \in DOMAIN Doc,
         NEW i \in 1 .. Len(Entries(v)), NEW j \in 1 .. Len(Entries(v)), j < i
  PROVE  Entries(v)[j].value < Entries(v)[i].at
<1>1. i \in DOMAIN Doc[v].entries /\ j \in DOMAIN Doc[v].entries
  BY ContainerFacts DEF Entries
<1> QED
  BY <1>1, DocAssumption DEF Entries

\* A scan stands in front of one entry only.
LEMMA StandsOnce ==
  ASSUME NEW v \in DOMAIN Doc, NEW p, NEW q, NEW offset,
         StandsAt(v, p, offset), StandsAt(v, q, offset)
  PROVE  p = q
<1>1. \A n \in 1 .. Len(Entries(v)) + 1, m \in 1 .. Len(Entries(v)) + 1 :
        n < m => ~ (StandsAt(v, n, offset) /\ StandsAt(v, m, offset))
  <2> SUFFICES ASSUME NEW n \in 1 .. Len(Entries(v)) + 1, NEW m \in 1 .. Len(Entries(v)) + 1,
                      n < m, StandsAt(v, n, offset), StandsAt(v, m, offset)
               PROVE  FALSE
    OBVIOUS
  <2>1. n \in 1 .. Len(Entries(v)) /\ offset = Entries(v)[n].at
    BY ContainerFacts DEF StandsAt
  <2>2. /\ Entries(v)[n].at \in Nat /\ Entries(v)[n].value \in Nat
        /\ Entries(v)[n].at <= Entries(v)[n].value
        /\ Entries(v)[n].value < Doc[v].close
    BY <2>1, EntryPlace
  <2>3. CASE m <= Len(Entries(v))
    <3>1. m \in 1 .. Len(Entries(v)) /\ offset = Entries(v)[m].at
      BY <2>3, ContainerFacts DEF StandsAt
    <3>2. Entries(v)[n].value < Entries(v)[m].at
      BY <2>1, <3>1, EntryOrder
    <3> QED
      BY <2>1, <2>2, <3>1, <3>2
  <2>4. CASE ~ (m <= Len(Entries(v)))
    <3>1. offset = Doc[v].close
      BY <2>4 DEF StandsAt
    <3> QED
      BY <2>1, <2>2, <3>1, ContainerFacts
  <2> QED
    BY <2>3, <2>4
<1>2. p \in 1 .. Len(Entries(v)) + 1 /\ q \in 1 .. Len(Entries(v)) + 1
  BY DEF StandsAt
<1> QED
  BY <1>1, <1>2, ContainerFacts

\* A scan that has just entered a container stands in front of its first entry.
LEMMA StandsAtOpen ==
  ASSUME NEW v \in DOMAIN Doc
  PROVE  StandsAt(v, 1, v + 1)
<1>1. v + 1 = IF Doc[v].entries = <<>> THEN Doc[v].close ELSE Doc[v].entries[1].at
  BY DocAssumption
<1>2. Len(Entries(v)) \in Nat /\ (Entries(v) = <<>> <=> Len(Entries(v)) = 0)
  BY ContainerFacts, EmptySeq
<1> QED
  BY <1>1, <1>2 DEF StandsAt, Entries

\* A segment addresses one entry of a container at most.
LEMMA AddressesOnce ==
  ASSUME NEW v \in DOMAIN Doc, NEW segment, NEW i, NEW j,
         Addresses(v, i, segment), Addresses(v, j, segment)
  PROVE  i = j
<1>1. i \in 1 .. Len(Entries(v)) /\ j \in 1 .. Len(Entries(v))
  BY ContainerFacts DEF Addresses
<1>2. CASE IsMember(segment)
  <2>1. ~ (i < j) /\ ~ (j < i)
    BY <1>1, <1>2, ContainerFacts DEF Addresses
  <2> QED
    BY <1>1, <2>1
<1>3. CASE ~ IsMember(segment)
  BY <1>3 DEF Addresses
<1> QED
  BY <1>2, <1>3

(***************************************************************************)
(* Walks, in a document that starts with its root value.                   *)
(***************************************************************************)

\* With nothing in front of the root value, no offset is skipped.
LEMMA NothingSkipped ==
  ASSUME RootStart = 0, NEW offset \in Nat
  PROVE  SkipWhitespace(offset) = offset
BY DEF SkipWhitespace

\* No segments lead to the anchor and nowhere else.
LEMMA LeadsToAnchor ==
  ASSUME RootStart = 0, NEW anchor \in Nat, NEW path
  PROVE  Leads(anchor, path, 0, anchor)
<1> DEFINE walk == [n \in 0 .. 0 |-> anchor]
<1>1. walk \in [0 .. 0 -> DOMAIN Doc \cup {anchor, anchor}] /\ walk[0] = anchor
  OBVIOUS
<1>2. IsWalk(anchor, path, 0, walk)
  BY <1>1 DEF IsWalk
<1> QED
  BY <1>1, <1>2 DEF Leads

\* A path that leads to a container leads on to the entry its next segment
\* addresses.
LEMMA LeadsOn ==
  ASSUME RootStart = 0, NEW anchor \in Nat, NEW path, NEW seg \in Nat,
         NEW v \in DOMAIN Doc, Leads(anchor, path, seg, v),
         NEW i, Addresses(v, i, path[seg + 1])
  PROVE  Leads(anchor, path, seg + 1, Entries(v)[i].value)
<1> DEFINE e == Entries(v)[i].value
<1>1. PICK walk \in [0 .. seg -> DOMAIN Doc \cup {anchor, v}] :
        IsWalk(anchor, path, seg, walk) /\ SkipWhitespace(walk[seg]) = SkipWhitespace(v)
  BY DEF Leads
<1>2. \A n \in 0 .. seg : walk[n] \in Nat
  BY ContainerFacts
<1>3. walk[seg] = v
  BY <1>1, <1>2, NothingSkipped, ContainerFacts
<1> DEFINE longer == [n \in 0 .. seg + 1 |-> IF n = seg + 1 THEN e ELSE walk[n]]
<1>4. longer \in [0 .. seg + 1 -> DOMAIN Doc \cup {anchor, e}]
  BY <1>1
<1>5. \A n \in 0 .. seg : longer[n] = walk[n]
  OBVIOUS
<1>6. longer[seg + 1] = e
  OBVIOUS
<1> HIDE DEF longer
<1>7. IsWalk(anchor, path, seg + 1, longer)
  <2>1. longer[0] = anchor
    BY <1>1, <1>5 DEF IsWalk
  <2>2. ASSUME NEW n \in 1 .. seg
        PROVE  /\ IsContainer(SkipWhitespace(longer[n - 1]))
               /\ \E j \in DOMAIN Entries(SkipWhitespace(longer[n - 1])) :
                    /\ Addresses(SkipWhitespace(longer[n - 1]), j, path[n])
                    /\ longer[n] = Entries(SkipWhitespace(longer[n - 1]))[j].value
    <3>1. longer[n - 1] = walk[n - 1] /\ longer[n] = walk[n]
      BY <1>5
    <3> QED
      BY <1>1, <3>1 DEF IsWalk
  <2>3. SkipWhitespace(longer[seg]) = v /\ IsContainer(v) /\ i \in DOMAIN Entries(v)
    BY <1>3, <1>5, NothingSkipped, ContainerFacts DEF Addresses, IsContainer
  <2>4. ASSUME NEW n \in 1 .. seg + 1
        PROVE  /\ IsContainer(SkipWhitespace(longer[n - 1]))
               /\ \E j \in DOMAIN Entries(SkipWhitespace(longer[n - 1])) :
                    /\ Addresses(SkipWhitespace(longer[n - 1]), j, path[n])
                    /\ longer[n] = Entries(SkipWhitespace(longer[n - 1]))[j].value
    <3>1. CASE n = seg + 1
      <4>1. n - 1 = seg
        BY <3>1
      <4> QED
        BY <1>6, <2>3, <3>1, <4>1
    <3>2. CASE n # seg + 1
      <4>1. n \in 1 .. seg
        BY <3>2
      <4> QED
        BY <2>2, <4>1
    <3> QED
      BY <3>1, <3>2
  <2> QED
    BY <2>1, <2>4 DEF IsWalk
<1> QED
  BY <1>4, <1>6, <1>7 DEF Leads

\* Paths that agree on their first segments lead to the same place.
LEMMA LeadsAlike ==
  ASSUME NEW anchor, NEW path, NEW other, NEW seg \in Nat, NEW offset,
         \A n \in 1 .. seg : other[n] = path[n],
         Leads(anchor, path, seg, offset)
  PROVE  Leads(anchor, other, seg, offset)
<1>1. PICK walk \in [0 .. seg -> DOMAIN Doc \cup {anchor, offset}] :
        IsWalk(anchor, path, seg, walk) /\ SkipWhitespace(walk[seg]) = SkipWhitespace(offset)
  BY DEF Leads
<1>2. IsWalk(anchor, other, seg, walk)
  BY <1>1 DEF IsWalk
<1> QED
  BY <1>1, <1>2 DEF Leads

\* A path leads to one place only.
LEMMA LeadsOnce ==
  ASSUME RootStart = 0, NEW anchor \in Nat, NEW path, NEW seg \in Nat,
         NEW o1 \in Nat, Leads(anchor, path, seg, o1),
         NEW o2 \in Nat, Leads(anchor, path, seg, o2)
  PROVE  o1 = o2
<1>1. PICK w1 \in [0 .. seg -> DOMAIN Doc \cup {anchor, o1}] :
        IsWalk(anchor, path, seg, w1) /\ SkipWhitespace(w1[seg]) = SkipWhitespace(o1)
  BY DEF Leads
<1>2. PICK w2 \in [0 .. seg -> DOMAIN Doc \cup {anchor, o2}] :
        IsWalk(anchor, path, seg, w2) /\ SkipWhitespace(w2[seg]) = SkipWhitespace(o2)
  BY DEF Leads
<1>3. \A n \in 0 .. seg : w1[n] \in Nat /\ w2[n] \in Nat
  BY ContainerFacts
<1> DEFINE Parted == {n \in 0 .. seg : w1[n] # w2[n]}
<1>4. Parted = {}
  <2> SUFFICES ASSUME Parted # {} PROVE FALSE
    OBVIOUS
  <2> DEFINE m == Min(Parted)
  <2>1. m \in Parted /\ \A n \in Parted : m <= n
    <3>1. Parted \in SUBSET Nat
      OBVIOUS
    <3> HIDE DEF Parted
    <3> QED
      BY <3>1, MinNat
  <2> HIDE DEF m
  <2>2. m # 0
    BY <1>1, <1>2, <2>1 DEF IsWalk
  <2>3. m \in 1 .. seg /\ w1[m - 1] = w2[m - 1]
    BY <2>1, <2>2
  <2> DEFINE v == SkipWhitespace(w1[m - 1])
  <2>4. /\ v \in DOMAIN Doc
        /\ \E i \in DOMAIN Entries(v) : Addresses(v, i, path[m]) /\ w1[m] = Entries(v)[i].value
        /\ \E i \in DOMAIN Entries(v) : Addresses(v, i, path[m]) /\ w2[m] = Entries(v)[i].value
    BY <1>1, <1>2, <2>3 DEF IsWalk, IsContainer
  <2>5. w1[m] = w2[m]
    BY <2>4, AddressesOnce
  <2> QED
    BY <2>1, <2>5
<1>5. w1[seg] = w2[seg]
  BY <1>4
<1>6. w1[seg] = o1
  <2>1. SkipWhitespace(w1[seg]) = w1[seg] /\ SkipWhitespace(o1) = o1
    BY <1>3, NothingSkipped
  <2> QED
    BY <1>1, <2>1
<1>7. w2[seg] = o2
  <2>1. SkipWhitespace(w2[seg]) = w2[seg] /\ SkipWhitespace(o2) = o2
    BY <1>3, NothingSkipped
  <2> QED
    BY <1>2, <2>1
<1> QED
  BY <1>5, <1>6, <1>7

(***************************************************************************)
(* How deep a value lies.                                                  *)
(***************************************************************************)

\* A descent through containers from the root, "n" entries long.
Descends(walk, n) ==
  /\ walk[0] = 0
  /\ \A m \in 1 .. n :
       /\ walk[m - 1] \in DOMAIN Doc
       /\ \E i \in DOMAIN Entries(walk[m - 1]) : walk[m] = Entries(walk[m - 1])[i].value

\* The value at offset v lies in n containers.
LiesAt(v, n) == \E walk \in [0 .. n -> Nat] : Descends(walk, n) /\ walk[n] = v

\* The root lies in none.
LEMMA RootLies == LiesAt(0, 0)
<1> DEFINE walk == [n \in 0 .. 0 |-> 0]
<1>1. walk \in [0 .. 0 -> Nat] /\ walk[0] = 0
  OBVIOUS
<1>2. Descends(walk, 0)
  BY <1>1 DEF Descends
<1> QED
  BY <1>1, <1>2 DEF LiesAt

\* Each segment of a path leads one container deeper.
LEMMA LiesDeeper ==
  ASSUME RootStart = 0, NEW anchor \in Nat, NEW depth \in Nat, LiesAt(anchor, depth),
         NEW path, NEW seg \in Nat, NEW v \in Nat, Leads(anchor, path, seg, v)
  PROVE  LiesAt(v, depth + seg)
<1>1. PICK down \in [0 .. depth -> Nat] : Descends(down, depth) /\ down[depth] = anchor
  BY DEF LiesAt
<1>2. PICK along \in [0 .. seg -> DOMAIN Doc \cup {anchor, v}] :
        IsWalk(anchor, path, seg, along) /\ SkipWhitespace(along[seg]) = SkipWhitespace(v)
  BY DEF Leads
<1>3. \A n \in 0 .. seg : along[n] \in Nat /\ SkipWhitespace(along[n]) = along[n]
  BY NothingSkipped, ContainerFacts
<1>4. along[0] = anchor /\ along[seg] = v
  BY <1>2, <1>3, NothingSkipped DEF IsWalk
<1>5. ASSUME NEW n \in 1 .. seg
      PROVE  /\ along[n - 1] \in DOMAIN Doc
             /\ \E i \in DOMAIN Entries(along[n - 1]) : along[n] = Entries(along[n - 1])[i].value
  <2>1. SkipWhitespace(along[n - 1]) = along[n - 1]
    BY <1>3
  <2> QED
    BY <1>2, <2>1 DEF IsWalk, IsContainer, Addresses
<1> DEFINE walk == [n \in 0 .. depth + seg |-> IF n <= depth THEN down[n] ELSE along[n - depth]]
<1>6. walk \in [0 .. depth + seg -> Nat]
  <2> SUFFICES ASSUME NEW n \in 0 .. depth + seg
               PROVE  (IF n <= depth THEN down[n] ELSE along[n - depth]) \in Nat
    OBVIOUS
  <2>1. CASE n <= depth
    BY <2>1
  <2>2. CASE ~ (n <= depth)
    <3>1. n - depth \in 0 .. seg
      BY <2>2
    <3> QED
      BY <1>3, <2>2, <3>1
  <2> QED
    BY <2>1, <2>2
<1>7. \A n \in 0 .. depth : walk[n] = down[n]
  OBVIOUS
<1>8. \A n \in depth .. depth + seg : walk[n] = along[n - depth]
  <2> SUFFICES ASSUME NEW n \in depth .. depth + seg PROVE walk[n] = along[n - depth]
    OBVIOUS
  <2>1. CASE n = depth
    <3>1. n - depth = 0 /\ walk[n] = down[depth]
      BY <2>1
    <3> QED
      BY <1>1, <1>4, <3>1
  <2>2. CASE n # depth
    BY <2>2
  <2> QED
    BY <2>1, <2>2
<1> HIDE DEF walk
<1>9. ASSUME NEW n \in 1 .. depth + seg
      PROVE  /\ walk[n - 1] \in DOMAIN Doc
             /\ \E i \in DOMAIN Entries(walk[n - 1]) : walk[n] = Entries(walk[n - 1])[i].value
  <2>1. CASE n <= depth
    <3>1. n \in 1 .. depth /\ walk[n] = down[n] /\ walk[n - 1] = down[n - 1]
      BY <1>7, <2>1
    <3> QED
      BY <1>1, <3>1 DEF Descends
  <2>2. CASE ~ (n <= depth)
    <3> DEFINE m == n - depth
    <3>1. m \in 1 .. seg /\ walk[n] = along[m] /\ walk[n - 1] = along[m - 1]
      <4>1. n \in depth .. depth + seg /\ n - 1 \in depth .. depth + seg /\ (n - 1) - depth = m - 1
        BY <2>2
      <4> QED
        BY <1>8, <2>2, <4>1
    <3> HIDE DEF m
    <3> QED
      BY <1>5, <3>1
  <2> QED
    BY <2>1, <2>2
<1>10. Descends(walk, depth + seg)
  <2>1. walk[0] = 0
    BY <1>1, <1>7 DEF Descends
  <2> QED
    BY <1>9, <2>1 DEF Descends
<1>11. walk[depth + seg] = v
  BY <1>4, <1>8
<1> QED
  BY <1>6, <1>10, <1>11 DEF LiesAt

\* What lies in no container is the root; anything else is an entry of one that
\* lies one less deep.
LEMMA LiesInside ==
  ASSUME NEW v, NEW n \in Nat, LiesAt(v, n)
  PROVE  /\ n = 0 => v = 0
         /\ n # 0 => \E w \in DOMAIN Doc :
                       /\ LiesAt(w, n - 1)
                       /\ \E i \in DOMAIN Entries(w) : v = Entries(w)[i].value
<1>1. PICK walk \in [0 .. n -> Nat] : Descends(walk, n) /\ walk[n] = v
  BY DEF LiesAt
<1>2. CASE n = 0
  BY <1>1, <1>2 DEF Descends
<1>3. CASE n # 0
  <2> DEFINE shorter == [m \in 0 .. n - 1 |-> walk[m]]
  <2>1. shorter \in [0 .. n - 1 -> Nat] /\ \A m \in 0 .. n - 1 : shorter[m] = walk[m]
    OBVIOUS
  <2> HIDE DEF shorter
  <2>2. Descends(shorter, n - 1)
    <3>1. shorter[0] = 0
      BY <1>1, <1>3, <2>1 DEF Descends
    <3>2. ASSUME NEW m \in 1 .. n - 1
          PROVE  /\ shorter[m - 1] \in DOMAIN Doc
                 /\ \E i \in DOMAIN Entries(shorter[m - 1]) :
                      shorter[m] = Entries(shorter[m - 1])[i].value
      <4>1. m \in 1 .. n /\ shorter[m] = walk[m] /\ shorter[m - 1] = walk[m - 1]
        BY <2>1
      <4> QED
        BY <1>1, <4>1 DEF Descends
    <3> QED
      BY <3>1, <3>2 DEF Descends
  <2>3. n - 1 \in 0 .. n - 1 /\ n \in 1 .. n
    BY <1>3
  <2>4. LiesAt(walk[n - 1], n - 1)
    BY <2>1, <2>2, <2>3 DEF LiesAt
  <2> QED
    BY <1>1, <1>3, <2>3, <2>4 DEF Descends
<1> QED
  BY <1>2, <1>3

\* A value lies at one depth: take the least at which one lies that lies at
\* another, too; it is the root's, or its container's is less.
LEMMA LiesOnce ==
  ASSUME NEW v, NEW m \in Nat, LiesAt(v, m), NEW n \in Nat, LiesAt(v, n)
  PROVE  m = n
<1> DEFINE Twice == {k \in Nat : \E w : LiesAt(w, k) /\ \E l \in Nat : LiesAt(w, l) /\ l # k}
<1> SUFFICES ASSUME m # n PROVE FALSE
  OBVIOUS
<1>1. Twice # {} /\ Twice \in SUBSET Nat
  BY DEF LiesAt
<1> DEFINE k == Min(Twice)
<1>2. k \in Twice /\ \A l \in Twice : k <= l
  <2> HIDE DEF Twice
  <2> QED
    BY <1>1, MinNat
<1> HIDE DEF k
<1>3. PICK w : LiesAt(w, k) /\ \E l \in Nat : LiesAt(w, l) /\ l # k
  BY <1>2
<1>4. PICK l \in Nat : LiesAt(w, l) /\ l # k
  BY <1>3
<1>5. \A u \in DOMAIN Doc : \A i \in DOMAIN Entries(u) : Entries(u)[i].value # 0
  <2> SUFFICES ASSUME NEW u \in DOMAIN Doc, NEW i \in DOMAIN Entries(u)
               PROVE  Entries(u)[i].value # 0
    OBVIOUS
  <2>1. u \in Nat /\ i \in 1 .. Len(Entries(u))
    BY ContainerFacts
  <2>2. Entries(u)[i].at \in Nat /\ Entries(u)[i].value \in Nat
        /\ Entries(u)[i].at <= Entries(u)[i].value
    BY <2>1, EntryPlace
  <2>3. u < Entries(u)[i].at
    BY DocAssumption DEF Entries
  <2> QED
    BY <2>1, <2>2, <2>3
<1>6. k \in Nat /\ k # 0 /\ l # 0
  <2>1. k \in Nat
    BY <1>2
  <2>2. ASSUME k = 0 \/ l = 0 PROVE w = 0
    BY <1>3, <1>4, <2>1, <2>2, LiesInside
  <2>3. ASSUME k # 0 \/ l # 0 PROVE w # 0
    BY <1>3, <1>4, <1>5, <2>1, <2>3, LiesInside
  <2> QED
    BY <1>4, <2>1, <2>2, <2>3
<1>7. PICK u \in DOMAIN Doc : /\ LiesAt(u, k - 1)
                              /\ \E i \in DOMAIN Entries(u) : w = Entries(u)[i].value
  BY <1>3, <1>6, LiesInside
<1>8. PICK x \in DOMAIN Doc : /\ LiesAt(x, l - 1)
                              /\ \E i \in DOMAIN Entries(x) : w = Entries(x)[i].value
  BY <1>4, <1>6, LiesInside
<1>9. u = x
  BY <1>7, <1>8, NestingAssumption DEF Entries
<1>10. k - 1 \in Nat /\ l - 1 \in Nat /\ l - 1 # k - 1
  BY <1>4, <1>6
<1>11. k - 1 \in Twice
  BY <1>7, <1>8, <1>9, <1>10
<1>12. k <= k - 1
  BY <1>2, <1>11
<1> QED
  BY <1>6, <1>12

(***************************************************************************)
(* The document.                                                           *)
(***************************************************************************)

\* An entry stands at offsets, and a member has a name.
LEMMA EntryFacts ==
  ASSUME NEW v \in DOMAIN Doc, NEW i \in 1 .. Len(Entries(v))
  PROVE  /\ Entries(v)[i].at \in Nat
         /\ Entries(v)[i].value \in Nat
         /\ Doc[v].kind = "object" => Entries(v)[i] \in NamedEntry
<1>1. Entries(v)[i] \in Entry
  BY ContainerFacts, ElementOfSeq
<1> QED
  BY <1>1, EntryPlace DEF Entry, NamedEntry

\* Skipping whitespace yields an offset.
LEMMA SkipWhitespaceType ==
  ASSUME NEW offset \in Nat
  PROVE  SkipWhitespace(offset) \in Nat
BY DocAssumption DEF SkipWhitespace

\* The end of a value is an offset.
LEMMA ValueEndType ==
  ASSUME NEW offset \in Nat
  PROVE  ValueEnd(offset) \in Nat
BY ContainerFacts DEF ValueEnd, IsContainer

(***************************************************************************)
(* Sequences of scans.                                                     *)
(***************************************************************************)
\* A sequence over any set is one over its own elements.
LEMMA SequenceOf ==
  ASSUME NEW S, NEW s \in Seq(S)
  PROVE  IsSequence(s)
<1>1. Len(s) \in Nat /\ s \in [1 .. Len(s) -> S] /\ DOMAIN s = 1 .. Len(s)
  BY LenProperties
<1>2. s \in [1 .. Len(s) -> {s[i] : i \in DOMAIN s}]
  BY <1>1
<1> QED
  BY <1>1, <1>2 DEF IsSequence

\* Appending keeps the elements and adds one.
LEMMA AppendSequence ==
  ASSUME NEW s, IsSequence(s), NEW e
  PROVE  /\ IsSequence(Append(s, e))
         /\ \A i \in DOMAIN Append(s, e) : Append(s, e)[i] = e \/ \E j \in DOMAIN s : Append(s, e)[i] = s[j]
<1> DEFINE S == {s[i] : i \in DOMAIN s} \cup {e}
<1>1. s \in Seq(S)
  BY SeqMonotonic DEF IsSequence
<1>2. Append(s, e) \in Seq(S) /\ Len(Append(s, e)) = Len(s) + 1
      /\ (\A i \in 1 .. Len(s) : Append(s, e)[i] = s[i]) /\ Append(s, e)[Len(s) + 1] = e
  BY <1>1, AppendProperties
<1>3. DOMAIN Append(s, e) = 1 .. Len(s) + 1 /\ DOMAIN s = 1 .. Len(s) /\ Len(s) \in Nat
  BY <1>1, <1>2, LenProperties
<1>4. IsSequence(Append(s, e))
  BY <1>2, SequenceOf
<1> HIDE DEF S
<1> QED
  BY <1>2, <1>3, <1>4

\* The tail of a sequence holds elements of the sequence.
LEMMA TailSequence ==
  ASSUME NEW s, IsSequence(s), s # <<>>
  PROVE  /\ IsSequence(Tail(s))
         /\ \E j \in DOMAIN s : Head(s) = s[j]
         /\ \A i \in DOMAIN Tail(s) : \E j \in DOMAIN s : Tail(s)[i] = s[j]
         /\ Len(s) # 1 => Tail(s) # <<>>
<1> DEFINE S == {s[i] : i \in DOMAIN s}
<1>1. s \in Seq(S)
  BY DEF IsSequence
<1>2. /\ Head(s) \in S
      /\ Tail(s) \in Seq(S)
      /\ Len(Tail(s)) = Len(s) - 1
      /\ \A i \in 1 .. Len(Tail(s)) : Tail(s)[i] = s[i + 1]
  BY <1>1, HeadTailProperties
<1>3. DOMAIN Tail(s) = 1 .. Len(Tail(s)) /\ DOMAIN s = 1 .. Len(s) /\ Len(s) \in Nat
  BY <1>1, <1>2, LenProperties
<1>4. IsSequence(Tail(s))
  BY <1>2, SequenceOf
<1>5. ASSUME NEW i \in DOMAIN Tail(s) PROVE i + 1 \in DOMAIN s /\ Tail(s)[i] = s[i + 1]
  BY <1>2, <1>3
<1>6. Len(s) # 1 => Tail(s) # <<>>
  BY <1>2, <1>3
<1> QED
  BY <1>2, <1>4, <1>5, <1>6

(***************************************************************************)
(* Types.                                                                  *)
(***************************************************************************)
TypeInv == TypeOK /\ Entered

\* A step of one client that leaves the others alone and the lock too.
LEMMA ClientStep ==
  ASSUME TypeInv, NEW c \in Clients, task[c].pc # "write",
         NEW t, TaskOK(t), t.pc \in {"iterate", "landmarks"} => IsContainer(SkipWhitespace(t.start)),
         task' = [task EXCEPT ![c] = t],
         IndexTypeOK', cursors' \subseteq [anchor : Nat, depth : Nat], lock' = lock
  PROVE  TypeInv'
<1>1. DOMAIN task' = Clients /\ \A d \in Clients : task'[d] = IF d = c THEN t ELSE task[d]
  BY DEF TypeInv, TypeOK
<1>2. \A d \in Clients : TaskOK(task'[d])
  BY <1>1 DEF TypeInv, TypeOK
<1>3. lock' # None => lock' \in Clients /\ At(lock, "write")' /\ task'[lock'].record # <<>>
  BY <1>1 DEF TypeInv, TypeOK, At
<1>4. Entered'
  BY <1>1 DEF TypeInv, Entered, Container
<1> QED
  BY <1>1, <1>2, <1>3, <1>4 DEF TypeInv, TypeOK

\* What TypeInv says of one client.
LEMMA TaskFacts ==
  ASSUME TypeInv, NEW c \in Clients
  PROVE  /\ TaskOK(task[c])
         /\ IndexTypeOK
         /\ cursors \subseteq [anchor : Nat, depth : Nat]
         /\ Container(c) \in Nat
         /\ Len(task[c].path) \in Nat
         /\ TargetKey(c) \in Keys
<1>1. TaskOK(task[c]) /\ IndexTypeOK /\ cursors \subseteq [anchor : Nat, depth : Nat]
  BY DEF TypeInv, TypeOK
<1>2. Container(c) \in Nat
  BY <1>1, SkipWhitespaceType DEF TaskOK, Container
<1>3. Len(task[c].path) \in Nat
  BY <1>1, LenProperties DEF TaskOK
<1>4. TargetKey(c) \in Keys
  BY <1>1, <1>3, KeyType DEF TaskOK, TargetKey
<1> QED
  BY <1>1, <1>2, <1>3, <1>4

\* Steps that leave the index alone.
LEMMA QuietStep ==
  ASSUME TypeInv, UNCHANGED <<nodes, slots_used, tick>>
  PROVE  IndexTypeOK'
BY DEF TypeInv, TypeOK, IndexTypeOK

\* An open document with no call in flight is well typed.
LEMMA InitType == SessionInit => TypeInv
<1> SUFFICES ASSUME SessionInit PROVE TypeInv
  OBVIOUS
<1>1. TaskOK(IdleTask)
  <2>1. IsSequence(<<>>)
    BY EmptySeq DEF IsSequence
  <2>2. <<>> \in Seq(Segment) /\ Len(<<>>) = 0
    BY EmptySeq
  <2> QED
    BY <2>1, <2>2 DEF TaskOK, IdleTask, Stages, Statuses, Seeds, IsTable
<1>2. IndexTypeOK
  BY DEF SessionInit, IndexInit, IndexTypeOK
<1> QED
  BY <1>1, <1>2 DEF SessionInit, TypeInv, TypeOK, Entered, IdleTask, RootCursor

\* A call that arrives starts from a well-typed idle task.
LEMMA AskType ==
  ASSUME TypeInv, NEW c \in Clients, Ask(c)
  PROVE  TypeInv'
<1>1. PICK cursor \in cursors, op \in Ops, path \in Paths :
        task' = [task EXCEPT ![c] = [IdleTask EXCEPT
                  !.pc = "lookup", !.op = op, !.path = path, !.start = cursor.anchor,
                  !.anchor = cursor.anchor, !.depth = cursor.depth]]
  BY DEF Ask
<1> DEFINE t == [IdleTask EXCEPT
                  !.pc = "lookup", !.op = op, !.path = path, !.start = cursor.anchor,
                  !.anchor = cursor.anchor, !.depth = cursor.depth]
<1>2. IsSequence(<<>>)
  BY EmptySeq DEF IsSequence
<1>3. path \in Seq(Segment) /\ Len(path) \in Nat
  BY LenProperties, CallAssumption
<1>4. TaskOK(t)
  BY <1>2, <1>3, TaskFacts DEF TaskOK, IdleTask, Stages, Statuses, Seeds, IsTable
<1>5. t.pc = "lookup" /\ task[c].pc # "write"
  BY DEF IdleTask, Ask
<1> HIDE DEF t
<1> QED
  BY <1>1, <1>4, <1>5, ClientStep, QuietStep, TaskFacts DEF Ask, t

\* The lookup hands a task a segment count within its path and a seed.
LEMMA LookupType ==
  ASSUME TypeInv, NEW c \in Clients, Lookup(c)
  PROVE  TypeInv'
<1> DEFINE t == task[c]
<1>0. TaskOK(t) /\ t.pc = "lookup" /\ t.anchor \in Nat /\ t.path \in Seq(Segment)
  BY TaskFacts DEF Lookup, At, TaskOK
<1>1. CASE IsEnabled
  <2>1. PICK seg \in 0 .. Len(t.path) :
          /\ ChainStopsAt(t.anchor, t.path, seg)
          /\ TouchChain(t.anchor, t.path, seg)
          /\ task' = [task EXCEPT ![c].pc = "scan", ![c].seg = seg,
                        ![c].start = ChainStart(t.anchor, t.path, seg),
                        ![c].seed = ChainSeed(t.anchor, t.path, seg)]
    BY <1>1 DEF Lookup
  <2> DEFINE u == [t EXCEPT !.pc = "scan", !.seg = seg,
                     !.start = ChainStart(t.anchor, t.path, seg),
                     !.seed = ChainSeed(t.anchor, t.path, seg)]
  <2>2. ChainStart(t.anchor, t.path, seg) \in Nat /\ ChainSeed(t.anchor, t.path, seg) \in Seeds
    BY <1>0, <2>1, ChainStartType, ChainSeedType, TaskFacts
  <2>3. TaskOK(u) /\ u.pc = "scan"
    BY <1>0, <2>2 DEF TaskOK, Stages, IdleTask
  <2>4. task' = [task EXCEPT ![c] = u]
    BY <2>1
  <2>5. IndexTypeOK'
    BY <1>0, <2>1, TouchChainType, TaskFacts
  <2> HIDE DEF u
  <2> QED
    BY <1>0, <2>3, <2>4, <2>5, ClientStep, TaskFacts DEF Lookup
<1>2. CASE ~ IsEnabled
  <2> DEFINE u == [t EXCEPT !.pc = "scan"]
  <2>1. TaskOK(u) /\ u.pc = "scan"
    BY <1>0 DEF TaskOK, Stages, IdleTask
  <2>2. task' = [task EXCEPT ![c] = u]
    BY <1>2 DEF Lookup
  <2>3. IndexTypeOK'
    BY <1>2, QuietStep DEF Lookup, indexVars
  <2> HIDE DEF u
  <2> QED
    BY <1>0, <2>1, <2>2, <2>3, ClientStep, TaskFacts DEF Lookup
<1> QED
  BY <1>1, <1>2

\* A call that ends, or waits at a stage that needs nothing more.
LEMMA FinishType ==
  ASSUME TypeInv, NEW c \in Clients, task[c].pc # "write",
         NEW status \in Statuses, Finish(c, status),
         IndexTypeOK', UNCHANGED <<lock, cursors>>
  PROVE  TypeInv'
<1> DEFINE u == [task[c] EXCEPT !.pc = "done", !.status = status]
<1>1. TaskOK(u) /\ u.pc = "done"
  BY TaskFacts DEF TaskOK, Stages, IdleTask
<1>2. task' = [task EXCEPT ![c] = u]
  BY DEF Finish
<1> HIDE DEF u
<1> QED
  BY <1>1, <1>2, ClientStep, TaskFacts

\* Moving to another stage with a status, before any child is iterated.
LEMMA StageType ==
  ASSUME TypeInv, NEW c \in Clients, task[c].pc # "write",
         NEW pc \in Stages \ {"iterate", "landmarks"}, NEW status \in Statuses,
         task' = [task EXCEPT ![c].pc = pc, ![c].status = status],
         UNCHANGED <<nodes, slots_used, tick, lock, cursors>>
  PROVE  TypeInv'
<1> DEFINE u == [task[c] EXCEPT !.pc = pc, !.status = status]
<1>1. TaskOK(u) /\ u.pc = pc
  BY TaskFacts DEF TaskOK, IdleTask
<1>2. task' = [task EXCEPT ![c] = u]
  OBVIOUS
<1> HIDE DEF u
<1> QED
  BY <1>1, <1>2, ClientStep, QuietStep, TaskFacts

\* One more container scanned.
LEMMA StepType ==
  ASSUME TypeInv, NEW c \in Clients, task[c].pc # "write", task[c].seg < Len(task[c].path),
         NEW scan, ScanOK(scan), scan.seg = task[c].seg,
         NEW to \in Nat \cup {None}, Step(c, scan, to),
         UNCHANGED <<nodes, slots_used, tick, lock, cursors>>
  PROVE  TypeInv'
<1> DEFINE t == task[c]
           record == Append(t.record, scan)
           u == [t EXCEPT
                  !.record = record,
                  !.seed = None,
                  !.seg = IF to = None THEN t.seg ELSE t.seg + 1,
                  !.start = IF to = None THEN Container(c) ELSE to,
                  !.pc = IF to = None THEN "write" ELSE "scan",
                  !.status = IF to = None THEN "absent" ELSE "none"]
<1>1. TaskOK(t) /\ Container(c) \in Nat /\ t.seg \in Nat /\ Len(t.path) \in Nat
  BY TaskFacts DEF TaskOK
<1>2. IsSequence(record) /\ \A i \in DOMAIN record : ScanOK(record[i]) /\ record[i].seg <= Len(t.path)
  BY <1>1, AppendSequence DEF TaskOK
<1> HIDE DEF record
<1>3. TaskOK(u) /\ u.pc \in {"write", "scan"}
  <2>1. DOMAIN u = DOMAIN IdleTask /\ u.record = record /\ u.path = t.path
    BY <1>1 DEF TaskOK, IdleTask
  <2>2. u.seg \in 0 .. Len(u.path) /\ u.start \in Nat /\ u.seed \in Seeds
    BY <1>1, <2>1 DEF TaskOK, IdleTask, Seeds
  <2> QED
    BY <1>1, <1>2, <2>1, <2>2 DEF TaskOK, IdleTask, Stages, Statuses
<1>4. task' = [task EXCEPT ![c] = u]
  BY DEF Step, record
<1> HIDE DEF u
<1> QED
  BY <1>3, <1>4, ClientStep, QuietStep, TaskFacts

\* The start a scan records is an offset.
LEMMA ScannedStartType ==
  ASSUME TypeInv, NEW c \in Clients
  PROVE  ScannedStart(c) \in Nat
BY TaskFacts DEF ScannedStart, TaskOK

\* An object scan records named members of the document.
LEMMA ScanObjectType ==
  ASSUME TypeInv, NEW c \in Clients, ScanObject(c)
  PROVE  TypeInv'
<1> DEFINE t == task[c]
           v == Container(c)
           entries == Entries(v)
<1>1. /\ At(c, "scan") /\ t.seg < Len(t.path) /\ v \in DOMAIN Doc /\ Doc[v].kind = "object"
      /\ UNCHANGED <<nodes, slots_used, tick, lock, cursors>>
  BY DEF ScanObject, IsContainer
<1>2. t.seg \in Nat /\ TaskOK(t)
  BY TaskFacts DEF TaskOK
<1>3. ASSUME NEW from \in Nat \ {0}, NEW to \in 0 .. Len(entries), NEW resume \in Nat
      PROVE  ScanOK(ObjectScan(c, from, to, resume)) /\ ObjectScan(c, from, to, resume).seg = t.seg
  <2>1. \A i \in from .. to : entries[i] \in NamedEntry
    BY <1>1, <1>3, EntryFacts, ContainerFacts
  <2>2. SubSeq(entries, from, to) \in Seq(NamedEntry)
    BY <1>1, <1>3, <2>1, SubSeqProperties, ContainerFacts
  <2>3. <<>> \in Seq(NamedEntry)
    BY EmptySeq
  <2> QED
    BY <1>2, <1>3, <2>2, <2>3, ScannedStartType DEF ObjectScan, Scan, ScanOK, Kinds
<1>4. PICK first \in 1 .. Len(entries) + 1 :
        \/ \E i \in first .. Len(entries) : Step(c, ObjectScan(c, first, i, entries[i].at), entries[i].value)
        \/ Step(c, ObjectScan(c, first, Len(entries), Doc[v].close), None)
  BY DEF ScanObject
<1>5. CASE Step(c, ObjectScan(c, first, Len(entries), Doc[v].close), None)
  <2> DEFINE scan == ObjectScan(c, first, Len(entries), Doc[v].close)
  <2>1. ScanOK(scan) /\ scan.seg = t.seg
    BY <1>1, <1>3, ContainerFacts
  <2>2. t.pc # "write"
    BY <1>1 DEF At
  <2> HIDE DEF scan
  <2> QED
    BY <1>1, <1>5, <2>1, <2>2, StepType DEF scan
<1>6. ASSUME NEW i \in first .. Len(entries),
             Step(c, ObjectScan(c, first, i, entries[i].at), entries[i].value)
      PROVE  TypeInv'
  <2>1. i \in 1 .. Len(entries) /\ entries[i].at \in Nat /\ entries[i].value \in Nat
    BY <1>1, EntryFacts, ContainerFacts
  <2> DEFINE scan == ObjectScan(c, first, i, entries[i].at)
  <2>2. ScanOK(scan) /\ scan.seg = t.seg
    BY <1>1, <1>3, <2>1, ContainerFacts
  <2>3. t.pc # "write"
    BY <1>1 DEF At
  <2> HIDE DEF scan
  <2> QED
    BY <1>1, <1>6, <2>1, <2>2, <2>3, StepType DEF scan
<1> QED
  BY <1>4, <1>5, <1>6

\* An array scan records a table of element offsets.
LEMMA ScanArrayType ==
  ASSUME TypeInv, NEW c \in Clients, ScanArray(c)
  PROVE  TypeInv'
<1> DEFINE t == task[c]
           v == Container(c)
           entries == Entries(v)
           target == t.path[t.seg + 1].element
           base == IF t.seed = None THEN 0 ELSE t.seed.index
<1>1. /\ At(c, "scan") /\ t.seg < Len(t.path) /\ v \in DOMAIN Doc /\ ~ IsMember(t.path[t.seg + 1])
      /\ UNCHANGED <<nodes, slots_used, tick, lock, cursors>>
  BY DEF ScanArray, IsContainer
<1>2. t.seg \in Nat /\ TaskOK(t) /\ base \in Nat
  BY TaskFacts, NoneAssumption DEF TaskOK, Seeds
<1>3. target \in Nat
  <2>1. t.path[t.seg + 1] \in Segment
    BY <1>1, <1>2, LenProperties, ElementOfSeq DEF TaskOK
  <2> QED
    BY <1>1, <2>1 DEF Segment, IsMember
<1> HIDE DEF base, target
<1> DEFINE ArrayScan(first, sampled) ==
             Scan(t.seg, "array", ScannedStart(c),
                  [i \in sampled |-> entries[first + (i - base)].at], None)
<1>4. PICK first \in 1 .. Len(entries) + 1, sampled \in SUBSET (base .. target),
           to \in {None} \cup {entries[p].value : p \in 1 .. Len(entries)} :
        /\ \A i \in sampled : first + (i - base) <= Len(entries)
        /\ Step(c, ArrayScan(first, sampled), to)
  <2> DEFINE Position(f, i) == f + (i - base)
             Reached_(f) == {i \in base .. target : Position(f, i) <= Len(entries)}
             Sampled(f) == {i \in Reached_(f) : /\ ArrayInterval > 0
                                               /\ \/ i = target
                                                  \/ i > base /\ i % ArrayInterval = 0}
             Recorded(f) == Scan(t.seg, "array", ScannedStart(c),
                                 [i \in Sampled(f) |-> entries[Position(f, i)].at], None)
  <2>1. PICK first \in 1 .. Len(entries) + 1 :
          \/ target \in Reached_(first) /\ Step(c, Recorded(first), entries[Position(first, target)].value)
          \/ target \notin Reached_(first) /\ Step(c, Recorded(first), None)
    BY DEF ScanArray, base, target
  <2>2. Sampled(first) \in SUBSET (base .. target)
        /\ \A i \in Sampled(first) : first + (i - base) <= Len(entries)
    OBVIOUS
  <2>3. CASE target \in Reached_(first) /\ Step(c, Recorded(first), entries[Position(first, target)].value)
    <3>1. Position(first, target) \in 1 .. Len(entries)
      BY <1>1, <1>2, <1>3, <2>3, ContainerFacts
    <3> QED
      BY <2>2, <2>3, <3>1
  <2>4. CASE target \notin Reached_(first) /\ Step(c, Recorded(first), None)
    BY <2>2, <2>4
  <2> QED
    BY <2>1, <2>3, <2>4
<1> DEFINE scan == ArrayScan(first, sampled)
<1>5. to \in Nat \cup {None}
  BY <1>1, <1>4, EntryFacts
<1>6. ScanOK(scan) /\ scan.seg = t.seg
  <2> DEFINE members == [i \in sampled |-> entries[first + (i - base)].at]
  <2>1. sampled \subseteq Nat
    BY <1>2, <1>3
  <2>2. ASSUME NEW i \in sampled PROVE members[i] \in Nat
    <3>1. first + (i - base) \in 1 .. Len(entries)
      BY <1>1, <1>2, <1>3, <1>4, ContainerFacts
    <3> QED
      BY <1>1, <3>1, EntryFacts
  <2> HIDE DEF members
  <2>3. IsTable(members) /\ DOMAIN members \subseteq Nat
    BY <2>1, <2>2 DEF IsTable, members
  <2>4. scan = Scan(t.seg, "array", ScannedStart(c), members, None)
    BY <1>4 DEF members
  <2> QED
    BY <1>2, <2>3, <2>4, ScannedStartType DEF Scan, ScanOK, Kinds
<1> QED
  BY <1>1, <1>4, <1>5, <1>6, StepType DEF At

\* A step of a write-back, which may take the lock or drop it.
LEMMA WriteStep ==
  ASSUME TypeInv, NEW c \in Clients,
         NEW t, TaskOK(t), t.pc \notin {"iterate", "landmarks"},
         task' = [task EXCEPT ![c] = t], IndexTypeOK', cursors' = cursors,
         \/ lock' = lock /\ lock # c
         \/ lock' = None
         \/ lock' = c /\ t.pc = "write" /\ t.record # <<>>
  PROVE  TypeInv'
<1>1. DOMAIN task' = Clients /\ \A d \in Clients : task'[d] = IF d = c THEN t ELSE task[d]
  BY DEF TypeInv, TypeOK
<1>2. \A d \in Clients : TaskOK(task'[d])
  BY <1>1 DEF TypeInv, TypeOK
<1>3. lock' # None => lock' \in Clients /\ At(lock, "write")' /\ task'[lock'].record # <<>>
  BY <1>1 DEF TypeInv, TypeOK, At
<1>4. Entered'
  BY <1>1 DEF TypeInv, Entered, Container
<1> QED
  BY <1>1, <1>2, <1>3, <1>4 DEF TypeInv, TypeOK

\* One scan merged into its container's node.
LEMMA ApplyType ==
  ASSUME TypeInv, NEW c \in Clients,
         NEW scan, ScanOK(scan), scan.seg \in 0 .. Len(task[c].path), Apply(c, scan)
  PROVE  IndexTypeOK'
<1> DEFINE key == ScanKey(c, scan)
<1>1. key \in Keys
  BY TaskFacts, KeyType DEF ScanKey, TaskOK
<1>2. task[c].depth \in Nat /\ scan.value_start \in Nat /\ IndexTypeOK
  BY TaskFacts DEF TaskOK, ScanOK
<1> HIDE DEF key
<1>3. \/ scan.kind = "object"
          /\ MergeObjectScan(key, scan.value_start, task[c].depth, scan.members, scan.resume)
      \/ scan.kind = "array"
          /\ MergeArrayScan(key, scan.value_start, task[c].depth, scan.members)
      \/ UNCHANGED <<nodes, slots_used, tick>>
  BY DEF Apply, key, indexVars
<1>4. CASE scan.kind = "object"
            /\ MergeObjectScan(key, scan.value_start, task[c].depth, scan.members, scan.resume)
  BY <1>1, <1>2, <1>4, MergeObjectScanType DEF ScanOK
<1>5. CASE scan.kind = "array"
            /\ MergeArrayScan(key, scan.value_start, task[c].depth, scan.members)
  BY <1>1, <1>2, <1>5, MergeArrayScanType DEF ScanOK
<1> QED
  BY <1>3, <1>4, <1>5, QuietStep

\* A write-back stores well-typed nodes and keeps the lock only for more.
LEMMA WriteBackType ==
  ASSUME TypeInv, NEW c \in Clients, WriteBack(c)
  PROVE  TypeInv'
<1> DEFINE t == task[c]
<1>1. /\ TaskOK(t) /\ t.pc = "write" /\ UNCHANGED cursors
      /\ IsSequence(t.record) /\ Len(t.path) \in Nat
  BY TaskFacts DEF WriteBack, At, TaskOK
<1>2. AfterLocate(t) \in Stages \ {"write", "iterate", "landmarks"}
  BY DEF AfterLocate, Stages
<1> HIDE DEF t
<1>3. CASE t.record = <<>>
  <2> DEFINE u == [t EXCEPT !.pc = AfterLocate(t)]
  <2>1. TaskOK(u) /\ u.pc \notin {"write", "iterate", "landmarks"}
    BY <1>1, <1>2 DEF TaskOK, IdleTask
  <2>2. task' = [task EXCEPT ![c] = u] /\ UNCHANGED <<nodes, slots_used, tick, lock>>
    BY <1>3 DEF WriteBack, t
  <2>3. lock # c
    BY <1>3, CallAssumption DEF TypeInv, TypeOK, t, At
  <2> HIDE DEF u
  <2> QED
    BY <1>1, <2>1, <2>2, <2>3, WriteStep, QuietStep
<1>4. CASE t.record # <<>>
  <2>1. /\ Apply(c, Head(t.record))
        /\ lock' = IF Len(t.record) = 1 THEN None ELSE c
        /\ task' = [task EXCEPT ![c].record = Tail(t.record),
                                ![c].pc = IF Len(t.record) = 1 THEN AfterLocate(t) ELSE @]
        /\ lock \in {None, c}
    BY <1>4 DEF WriteBack, LockAfter, t
  <2> DEFINE u == [t EXCEPT !.record = Tail(t.record),
                            !.pc = IF Len(t.record) = 1 THEN AfterLocate(t) ELSE "write"]
  <2>2. /\ IsSequence(Tail(t.record)) /\ ScanOK(Head(t.record)) /\ Head(t.record).seg \in 0 .. Len(t.path)
        /\ \A i \in DOMAIN Tail(t.record) : /\ ScanOK(Tail(t.record)[i])
                                            /\ Tail(t.record)[i].seg <= Len(t.path)
        /\ Len(t.record) # 1 => Tail(t.record) # <<>>
    BY <1>1, <1>4, TailSequence DEF TaskOK, ScanOK
  <2>3. TaskOK(u) /\ u.pc \notin {"iterate", "landmarks"}
    BY <1>1, <1>2, <2>2 DEF TaskOK, IdleTask
  <2>4. task' = [task EXCEPT ![c] = u]
    BY <1>1, <2>1 DEF t
  <2>5. IndexTypeOK'
    BY <1>1, <2>1, <2>2, ApplyType DEF t
  <2>6. lock' = c => u.pc = "write" /\ u.record # <<>>
    BY <1>1, <2>1, <2>2, CallAssumption DEF TaskOK, IdleTask
  <2> HIDE DEF u
  <2> QED
    BY <1>1, <2>1, <2>3, <2>4, <2>5, <2>6, WriteStep
<1> QED
  BY <1>3, <1>4

\* Locating a value ends the call or leaves its last read.
LEMMA LocatedType ==
  ASSUME TypeInv, NEW c \in Clients, task[c].pc # "write",
         NEW start \in Nat, NEW end \in Nat, Located(c, start, end),
         IndexTypeOK', UNCHANGED lock
  PROVE  TypeInv'
<1> DEFINE t == task[c]
           u == [t EXCEPT !.pc = IF t.op = "hop" THEN "done" ELSE "deliver",
                          !.start = start, !.end = end]
<1>1. TaskOK(t) /\ Len(t.path) \in Nat /\ t.depth \in Nat
  BY TaskFacts DEF TaskOK
<1>2. TaskOK(u) /\ u.pc \notin {"iterate", "landmarks"}
  BY <1>1 DEF TaskOK, Stages, IdleTask
<1>3. task' = [task EXCEPT ![c] = u]
  BY DEF Located, LandedDepth
<1>4. cursors' \subseteq [anchor : Nat, depth : Nat]
  BY <1>1, TaskFacts DEF Located, LandedDepth
<1> HIDE DEF u
<1> QED
  BY <1>2, <1>3, <1>4, ClientStep

\* A cached location is a pair of offsets.
LEMMA CachedCloseType ==
  ASSUME TypeInv, NEW c \in Clients, CachedClose(c)
  PROVE  TypeInv'
<1> DEFINE key == TargetKey(c)
           known == key \in DOMAIN nodes /\ nodes[key].close # None
<1>1. task[c].pc = "close" /\ UNCHANGED <<nodes, slots_used, tick, lock>>
  BY DEF CachedClose, At
<1>2. CASE known /\ Located(c, nodes[key].value_start, nodes[key].close)
  <2>1. nodes[key].value_start \in Nat /\ nodes[key].close \in Nat
    BY <1>2, TaskFacts DEF IndexTypeOK, NodeOK
  <2> QED
    BY <1>1, <1>2, <2>1, LocatedType, QuietStep
<1>3. CASE task' = [task EXCEPT ![c].pc = "extent"] /\ UNCHANGED cursors
  <2>1. task[c].status \in Statuses /\ DOMAIN task[c] = DOMAIN IdleTask
    BY TaskFacts DEF TaskOK
  <2>2. task' = [task EXCEPT ![c].pc = "extent", ![c].status = task[c].status]
    BY <1>3, <2>1 DEF IdleTask
  <2> QED
    BY <1>1, <1>3, <2>1, <2>2, StageType DEF Stages
<1> QED
  BY <1>2, <1>3 DEF CachedClose

\* An extent walked is a pair of offsets, and what it stores is a node.
LEMMA ExtentType ==
  ASSUME TypeInv, NEW c \in Clients, Extent(c)
  PROVE  TypeInv'
<1> DEFINE t == task[c]
           v == Container(c)
           end == ValueEnd(t.start)
<1>1. t.pc = "extent" /\ Located(c, t.start, end) /\ UNCHANGED lock
  BY DEF Extent, At
<1>2. t.start \in Nat /\ t.depth \in Nat /\ end \in Nat /\ TargetKey(c) \in Keys /\ IndexTypeOK
  BY TaskFacts, ValueEndType DEF TaskOK
<1>3. CASE IsEnabled /\ IsContainer(v)
  <2>1. StoreClose(TargetKey(c), Doc[v].kind, t.start, t.depth, end)
    BY <1>3 DEF Extent
  <2>2. Doc[v].kind \in Kinds
    BY <1>3, ContainerFacts DEF IsContainer, Kinds
  <2>3. IndexTypeOK'
    BY <1>2, <2>1, <2>2, StoreCloseType
  <2> QED
    BY <1>1, <1>2, <2>3, LocatedType
<1>4. CASE ~ (IsEnabled /\ IsContainer(v))
  <2>1. IndexTypeOK'
    BY <1>4, QuietStep DEF Extent, indexVars
  <2> QED
    BY <1>1, <1>2, <2>1, LocatedType
<1> QED
  BY <1>3, <1>4

\* An iteration that is let in stands in a container.
LEMMA EnterType ==
  ASSUME TypeInv, NEW c \in Clients, Enter(c)
  PROVE  TypeInv'
<1>1. task[c].pc = "enter" /\ UNCHANGED <<nodes, slots_used, tick, lock, cursors>>
  BY DEF Enter, At
<1>2. CASE ~ IsContainer(Container(c))
  BY <1>1, <1>2, FinishType, QuietStep DEF Enter, Statuses
<1>3. CASE IsContainer(Container(c))
  <2> DEFINE u == [task[c] EXCEPT !.pc = "iterate"]
  <2>1. TaskOK(u) /\ u.pc = "iterate" /\ u.start = task[c].start
    BY TaskFacts DEF TaskOK, Stages, IdleTask
  <2>2. task' = [task EXCEPT ![c] = u]
    BY <1>3 DEF Enter
  <2> HIDE DEF u
  <2> QED
    BY <1>1, <1>3, <2>1, <2>2, ClientStep, QuietStep, TaskFacts DEF Container
<1> QED
  BY <1>2, <1>3

\* A table of array landmarks.
LEMMA LandmarksType ==
  ASSUME NEW v \in DOMAIN Doc, NEW from \in Nat, NEW to \in 0 .. Len(Entries(v))
  PROVE  IsTable(Landmarks(v, from, to)) /\ DOMAIN Landmarks(v, from, to) \subseteq Nat
<1>1. DOMAIN Landmarks(v, from, to) \subseteq from .. to - 1
  BY DEF Landmarks
<1>2. ASSUME NEW i \in DOMAIN Landmarks(v, from, to) PROVE Landmarks(v, from, to)[i] \in Nat
  <2>1. i + 1 \in 1 .. Len(Entries(v))
    BY <1>1, ContainerFacts
  <2>2. Landmarks(v, from, to)[i] = Entries(v)[i + 1].at
    BY DEF Landmarks
  <2> QED
    BY <2>1, <2>2, EntryFacts
<1> QED
  BY <1>1, <1>2, ContainerFacts DEF IsTable

\* Landmarks merge into a well-typed index.
LEMMA StoreLandmarksType ==
  ASSUME TypeInv, NEW c \in Clients,
         NEW marks, IsTable(marks), DOMAIN marks \subseteq Nat, StoreLandmarks(c, marks)
  PROVE  IndexTypeOK'
<1>1. task[c].start \in Nat /\ task[c].depth \in Nat /\ TargetKey(c) \in Keys /\ IndexTypeOK
  BY TaskFacts DEF TaskOK
<1>2. CASE DOMAIN marks = {}
  BY <1>2, QuietStep DEF StoreLandmarks, indexVars
<1>3. CASE DOMAIN marks # {}
  BY <1>1, <1>3, MergeArrayScanType DEF StoreLandmarks
<1> QED
  BY <1>2, <1>3

\* What TypeInv says of an iter that was let in.
LEMMA IterFacts ==
  ASSUME TypeInv, NEW c \in Clients, task[c].pc \in {"iterate", "landmarks"}
  PROVE  /\ Container(c) \in DOMAIN Doc
         /\ task[c].idx \in Nat
         /\ TaskOK(task[c])
         /\ Len(Entries(Container(c))) \in Nat
<1>1. Container(c) \in DOMAIN Doc
  BY DEF TypeInv, Entered, IsContainer
<1> QED
  BY <1>1, TaskFacts, ContainerFacts DEF TaskOK

\* A batch leaves the iteration in its container.
LEMMA FillBatchType ==
  ASSUME TypeInv, NEW c \in Clients, FillBatch(c)
  PROVE  TypeInv'
<1> DEFINE t == task[c]
           v == Container(c)
<1>1. t.pc = "iterate" /\ UNCHANGED <<lock, cursors>>
  BY DEF FillBatch, At
<1>2. PICK to \in t.idx + 1 .. Len(Entries(v)) :
        StoreLandmarks(c, Landmarks(v, t.idx, to)) /\ task' = [task EXCEPT ![c].idx = to]
  BY DEF FillBatch
<1>3. v \in DOMAIN Doc /\ t.idx \in Nat /\ TaskOK(t) /\ to \in 0 .. Len(Entries(v))
  BY <1>1, IterFacts
<1>4. IndexTypeOK'
  BY <1>2, <1>3, LandmarksType, StoreLandmarksType
<1> DEFINE u == [t EXCEPT !.idx = to]
<1>5. TaskOK(u) /\ u.start = t.start
  BY <1>3 DEF TaskOK, IdleTask
<1>6. task' = [task EXCEPT ![c] = u]
  BY <1>2
<1> HIDE DEF u
<1> QED
  BY <1>1, <1>3, <1>4, <1>5, <1>6, ClientStep, TaskFacts DEF Container, IsContainer

\* The fetch that runs off the end stores a close and keeps a table of marks.
LEMMA ExhaustType ==
  ASSUME TypeInv, NEW c \in Clients, Exhaust(c)
  PROVE  TypeInv'
<1> DEFINE t == task[c]
           v == Container(c)
           count == Len(Entries(v))
           marks == Landmarks(v, t.idx, count)
           u == [t EXCEPT !.pc = "landmarks", !.idx = count, !.marks = marks]
<1>1. t.pc = "iterate" /\ UNCHANGED <<lock, cursors>>
      /\ StoreClose(TargetKey(c), Doc[v].kind, t.start, t.depth, Doc[v].close + 1)
  BY DEF Exhaust, At
<1>2. v \in DOMAIN Doc /\ t.idx \in Nat /\ TaskOK(t) /\ count \in Nat
  BY <1>1, IterFacts
<1>3. IsTable(marks) /\ DOMAIN marks \subseteq Nat
  BY <1>2, LandmarksType
<1>4. task' = [task EXCEPT ![c] = u]
  BY DEF Exhaust
<1> HIDE DEF marks, count
<1>5. TaskOK(u) /\ u.start = t.start
  BY <1>2, <1>3 DEF TaskOK, IdleTask, Stages
<1>6. IndexTypeOK'
  BY <1>1, <1>2, StoreCloseType, ContainerFacts, TaskFacts DEF TaskOK, Kinds
<1> HIDE DEF u
<1> QED
  BY <1>1, <1>2, <1>4, <1>5, <1>6, ClientStep, TaskFacts DEF Container, IsContainer

\* Storing the last landmarks ends the iteration.
LEMMA LastLandmarksType ==
  ASSUME TypeInv, NEW c \in Clients, LastLandmarks(c)
  PROVE  TypeInv'
<1> DEFINE t == task[c]
           u == [t EXCEPT !.pc = "done", !.marks = <<>>]
<1>1. t.pc = "landmarks" /\ UNCHANGED <<lock, cursors>> /\ StoreLandmarks(c, t.marks)
      /\ task' = [task EXCEPT ![c] = u]
  BY DEF LastLandmarks, At
<1>2. TaskOK(u) /\ u.pc = "done"
  BY TaskFacts DEF TaskOK, IdleTask, Stages, IsTable
<1>3. IndexTypeOK'
  BY <1>1, StoreLandmarksType, TaskFacts DEF TaskOK
<1> HIDE DEF u
<1> QED
  BY <1>1, <1>2, <1>3, ClientStep, TaskFacts

\* An early break stores at most one element of the array.
LEMMA BreakType ==
  ASSUME TypeInv, NEW c \in Clients, Break(c)
  PROVE  TypeInv'
<1> DEFINE t == task[c]
           v == Container(c)
           next_offset == IF t.idx < Len(Entries(v)) THEN Entries(v)[t.idx + 1].at ELSE Doc[v].close
<1>1. t.pc = "iterate" /\ UNCHANGED <<lock, cursors>> /\ Finish(c, "found")
  BY DEF Break, At
<1>2. v \in DOMAIN Doc /\ t.idx \in Nat /\ Len(Entries(v)) \in Nat
  BY <1>1, IterFacts
<1>3. next_offset \in Nat
  BY <1>2, EntryFacts, ContainerFacts
<1>4. CASE Doc[v].kind = "array" /\ t.idx > 0 /\ IsEnabled
  <2>1. StoreLandmarks(c, [i \in {t.idx} |-> next_offset])
    BY <1>4 DEF Break
  <2> HIDE DEF next_offset
  <2>2. IndexTypeOK'
    BY <1>2, <1>3, <2>1, StoreLandmarksType DEF IsTable
  <2> QED
    BY <1>1, <2>2, FinishType DEF Statuses
<1>5. CASE ~ (Doc[v].kind = "array" /\ t.idx > 0 /\ IsEnabled)
  <2>1. IndexTypeOK'
    BY <1>5, QuietStep DEF Break, indexVars
  <2> QED
    BY <1>1, <2>1, FinishType DEF Statuses
<1> QED
  BY <1>4, <1>5

\* Scans that fail, and the last read of a call.
LEMMA ScanDoneType ==
  ASSUME TypeInv, NEW c \in Clients, ScanDone(c) \/ ScanFault(c)
  PROVE  TypeInv'
<1>1. task[c].pc = "scan" /\ UNCHANGED <<nodes, slots_used, tick, lock, cursors>>
  BY DEF ScanDone, ScanFault, At
<1>2. PICK status \in {"found", "fault"} :
        task' = [task EXCEPT ![c].pc = "write", ![c].status = status]
  BY DEF ScanDone, ScanFault
<1> QED
  BY <1>1, <1>2, StageType DEF Stages, Statuses

\* A step that only ends a call disturbs nothing else.
LEMMA LastReadType ==
  ASSUME TypeInv, NEW c \in Clients, ReadFails(c) \/ Deliver(c)
  PROVE  TypeInv'
<1>1. task[c].pc # "write" /\ UNCHANGED <<nodes, slots_used, tick, lock, cursors>>
  BY DEF ReadFails, Deliver, At
<1>2. PICK status \in {"failed", "found"} : Finish(c, status)
  BY DEF ReadFails, Deliver
<1> QED
  BY <1>1, <1>2, FinishType, QuietStep DEF Statuses

\* Types are those of the state alone.
LEMMA StutterType ==
  ASSUME TypeInv, UNCHANGED vars
  PROVE  TypeInv'
BY DEF TypeInv, TypeOK, Entered, IndexTypeOK, vars, At, Container

\* Every step preserves the types.
LEMMA NextType == TypeInv /\ [SessionNext]_vars => TypeInv'
<1> SUFFICES ASSUME TypeInv, [SessionNext]_vars PROVE TypeInv'
  OBVIOUS
<1>1. CASE UNCHANGED vars
  BY <1>1, StutterType
<1>2. ASSUME NEW c \in Clients, Ask(c) PROVE TypeInv'
  BY <1>2, AskType
<1>3. ASSUME NEW c \in Clients, Locate(c) PROVE TypeInv'
  BY <1>3, LookupType, ScanDoneType, ScanObjectType, ScanArrayType, LastReadType, WriteBackType
     DEF Locate
<1>4. ASSUME NEW c \in Clients, Resolve(c) \/ ReadFails(c) PROVE TypeInv'
  BY <1>4, CachedCloseType, ExtentType, LastReadType DEF Resolve
<1>5. ASSUME NEW c \in Clients, Iterate(c) \/ Break(c) PROVE TypeInv'
  BY <1>5, EnterType, FillBatchType, ExhaustType, LastLandmarksType, BreakType DEF Iterate
<1> QED
  BY <1>1, <1>2, <1>3, <1>4, <1>5 DEF SessionNext

\* Every node keeps the shape of its kind, every call is at a stage the code
\* has with offsets for its positions, and the index's mutex is held from one
\* step to the next only by a write-back with containers left to merge.
THEOREM TypeCorrect == SessionSpec => []TypeOK
<1>1. SessionInit => TypeInv
  BY InitType
<1>2. TypeInv /\ [SessionNext]_vars => TypeInv'
  BY NextType
<1>3. TypeInv => TypeOK
  BY DEF TypeInv
<1> QED
  BY <1>1, <1>2, <1>3, PTL DEF SessionSpec

(***************************************************************************)
(* The books of the index, whoever calls it.                               *)
(***************************************************************************)

\* A key and a base depth that a call in flight writes under: those of the
\* cursor it was asked on.
Called(key, base_depth) ==
  \E c \in Clients : key[1] = task[c].anchor /\ base_depth = task[c].depth

\* What a step of the session may do to the index: one call of it.
IndexStep ==
  \/ UNCHANGED indexVars
  \/ \E anchor \in Nat, path \in Seq(Segment) : \E seg \in 0 .. Len(path) :
       TouchChain(anchor, path, seg)
  \/ \E key \in Keys, kind \in Kinds, value_start, base_depth, close \in Nat :
       Called(key, base_depth) /\ StoreClose(key, kind, value_start, base_depth, close)
  \/ \E key \in Keys, value_start, base_depth \in Nat : \E new :
       /\ IsTable(new) /\ DOMAIN new \subseteq Nat
       /\ Called(key, base_depth) /\ MergeArrayScan(key, value_start, base_depth, new)
  \/ \E key \in Keys, value_start, base_depth \in Nat, new \in Seq(NamedEntry), hint \in Nat \cup {None} :
       Called(key, base_depth) /\ MergeObjectScan(key, value_start, base_depth, new, hint)

\* What a call writes at is under its own cursor.
LEMMA OwnKeys ==
  ASSUME NEW c \in Clients
  PROVE  /\ Called(TargetKey(c), task[c].depth)
         /\ \A scan : Called(ScanKey(c, scan), task[c].depth)
BY DEF Called, TargetKey, ScanKey, Key

\* Landmarks are stored by one call, or there are none.
LEMMA StoreLandmarksIndex ==
  ASSUME TypeInv, NEW c \in Clients,
         NEW marks, IsTable(marks), DOMAIN marks \subseteq Nat, StoreLandmarks(c, marks)
  PROVE  IndexStep
<1>1. task[c].start \in Nat /\ task[c].depth \in Nat /\ TargetKey(c) \in Keys
  BY TaskFacts DEF TaskOK
<1>2. CASE DOMAIN marks = {}
  BY <1>2 DEF StoreLandmarks, IndexStep
<1>3. CASE DOMAIN marks # {}
  <2>1. MergeArrayScan(TargetKey(c), task[c].start, task[c].depth, marks)
    BY <1>3 DEF StoreLandmarks
  <2> QED
    BY <1>1, <2>1, OwnKeys DEF IndexStep
<1> QED
  BY <1>2, <1>3

\* One recorded scan is merged by one call, or says nothing.
LEMMA WriteBackIndex ==
  ASSUME TypeInv, NEW c \in Clients, WriteBack(c)
  PROVE  IndexStep
<1> DEFINE t == task[c]
           scan == Head(t.record)
           key == ScanKey(c, scan)
<1>1. TaskOK(t)
  BY TaskFacts
<1>2. CASE t.record = <<>>
  BY <1>2 DEF WriteBack, IndexStep, indexVars
<1>3. CASE t.record # <<>>
  <2>1. Apply(c, scan)
    BY <1>3 DEF WriteBack
  <2>2. ScanOK(scan) /\ scan.seg \in 0 .. Len(t.path)
    BY <1>1, <1>3, TailSequence DEF TaskOK, ScanOK
  <2>3. key \in Keys /\ Called(key, t.depth)
    BY <1>1, <2>2, KeyType, OwnKeys DEF ScanKey, TaskOK
  <2>4. t.depth \in Nat /\ scan.value_start \in Nat
    BY <1>1, <2>2 DEF TaskOK, ScanOK
  <2>5. \/ scan.kind = "object"
            /\ MergeObjectScan(key, scan.value_start, t.depth, scan.members, scan.resume)
        \/ scan.kind = "array"
            /\ MergeArrayScan(key, scan.value_start, t.depth, scan.members)
        \/ UNCHANGED indexVars
    BY <2>1 DEF Apply
  <2> HIDE DEF scan, key
  <2>6. CASE scan.kind = "object"
              /\ MergeObjectScan(key, scan.value_start, t.depth, scan.members, scan.resume)
    <3>1. scan.members \in Seq(NamedEntry) /\ scan.resume \in Nat \cup {None}
      BY <2>2, <2>6 DEF ScanOK
    <3> QED
      BY <2>3, <2>4, <2>6, <3>1 DEF IndexStep
  <2>7. CASE scan.kind = "array"
              /\ MergeArrayScan(key, scan.value_start, t.depth, scan.members)
    <3>1. IsTable(scan.members) /\ DOMAIN scan.members \subseteq Nat
      BY <2>2, <2>7 DEF ScanOK
    <3> QED
      BY <2>3, <2>4, <2>7, <3>1 DEF IndexStep
  <2> QED
    BY <2>5, <2>6, <2>7 DEF IndexStep
<1> QED
  BY <1>2, <1>3

\* Storing a close is one call.
LEMMA CloseIndex ==
  ASSUME TypeInv, NEW c \in Clients, Extent(c) \/ Exhaust(c)
  PROVE  IndexStep
<1> DEFINE t == task[c]
           v == Container(c)
<1>1. t.start \in Nat /\ t.depth \in Nat /\ TargetKey(c) \in Keys
  BY TaskFacts DEF TaskOK
<1>2. CASE Extent(c)
  <2>1. CASE IsEnabled /\ IsContainer(v)
    <3>1. StoreClose(TargetKey(c), Doc[v].kind, t.start, t.depth, ValueEnd(t.start))
      BY <1>2, <2>1 DEF Extent
    <3>2. Doc[v].kind \in Kinds /\ ValueEnd(t.start) \in Nat
      BY <1>1, <2>1, ContainerFacts, ValueEndType DEF IsContainer, Kinds
    <3> QED
      BY <1>1, <3>1, <3>2, OwnKeys DEF IndexStep
  <2>2. CASE ~ (IsEnabled /\ IsContainer(v))
    BY <1>2, <2>2 DEF Extent, IndexStep
  <2> QED
    BY <2>1, <2>2
<1>3. CASE Exhaust(c)
  <2>1. v \in DOMAIN Doc
    BY <1>3, IterFacts DEF Exhaust, At
  <2>2. Doc[v].kind \in Kinds /\ Doc[v].close + 1 \in Nat
    BY <2>1, ContainerFacts DEF Kinds
  <2>3. StoreClose(TargetKey(c), Doc[v].kind, t.start, t.depth, Doc[v].close + 1)
    BY <1>3 DEF Exhaust
  <2> QED
    BY <1>1, <2>2, <2>3, OwnKeys DEF IndexStep
<1> QED
  BY <1>2, <1>3

\* An iteration stores landmarks of its container.
LEMMA IterIndex ==
  ASSUME TypeInv, NEW c \in Clients, FillBatch(c) \/ LastLandmarks(c) \/ Break(c)
  PROVE  IndexStep
<1> DEFINE t == task[c]
           v == Container(c)
<1>1. CASE FillBatch(c)
  <2>1. PICK to \in t.idx + 1 .. Len(Entries(v)) : StoreLandmarks(c, Landmarks(v, t.idx, to))
    BY <1>1 DEF FillBatch
  <2>2. v \in DOMAIN Doc /\ t.idx \in Nat /\ to \in 0 .. Len(Entries(v))
    BY <1>1, IterFacts DEF FillBatch, At
  <2> QED
    BY <2>1, <2>2, LandmarksType, StoreLandmarksIndex
<1>2. CASE LastLandmarks(c)
  BY <1>2, StoreLandmarksIndex, TaskFacts DEF LastLandmarks, TaskOK
<1>3. CASE Break(c)
  <2> DEFINE next_offset == IF t.idx < Len(Entries(v)) THEN Entries(v)[t.idx + 1].at ELSE Doc[v].close
  <2>1. v \in DOMAIN Doc /\ t.idx \in Nat /\ Len(Entries(v)) \in Nat
    BY <1>3, IterFacts DEF Break, At
  <2>2. next_offset \in Nat
    BY <2>1, EntryFacts, ContainerFacts
  <2>3. \/ StoreLandmarks(c, [i \in {t.idx} |-> next_offset])
        \/ UNCHANGED indexVars
    BY <1>3 DEF Break
  <2> HIDE DEF next_offset
  <2>4. IsTable([i \in {t.idx} |-> next_offset]) /\ DOMAIN [i \in {t.idx} |-> next_offset] \subseteq Nat
    BY <2>1, <2>2 DEF IsTable
  <2>5. CASE StoreLandmarks(c, [i \in {t.idx} |-> next_offset])
    BY <2>4, <2>5, StoreLandmarksIndex
  <2> QED
    BY <2>3, <2>5 DEF IndexStep
<1> QED
  BY <1>1, <1>2, <1>3

\* A lookup touches a chain of the path asked about.
LEMMA LookupIndex ==
  ASSUME TypeInv, NEW c \in Clients, Lookup(c)
  PROVE  IndexStep
<1>1. task[c].anchor \in Nat /\ task[c].path \in Seq(Segment)
  BY TaskFacts DEF TaskOK
<1>2. CASE IsEnabled
  <2>1. PICK seg \in 0 .. Len(task[c].path) : TouchChain(task[c].anchor, task[c].path, seg)
    BY <1>2 DEF Lookup
  <2> QED
    BY <1>1, <2>1 DEF IndexStep
<1>3. CASE ~ IsEnabled
  BY <1>3 DEF Lookup, IndexStep
<1> QED
  BY <1>2, <1>3

\* Every step of the session is one call of the index, or none.
LEMMA NextIndex ==
  ASSUME TypeInv, [SessionNext]_vars
  PROVE  IndexStep
<1>1. CASE UNCHANGED vars
  BY <1>1 DEF vars, IndexStep, indexVars
<1>2. ASSUME NEW c \in Clients,
             Ask(c) \/ ScanDone(c) \/ ScanObject(c) \/ ScanArray(c) \/ ScanFault(c)
               \/ ReadFails(c) \/ CachedClose(c) \/ Deliver(c) \/ Enter(c)
      PROVE  IndexStep
  <2>1. UNCHANGED <<nodes, slots_used, tick>>
    BY <1>2 DEF Ask, ScanDone, ScanObject, ScanArray, ScanFault, ReadFails, CachedClose, Deliver, Enter
  <2> QED
    BY <2>1 DEF IndexStep, indexVars
<1>3. ASSUME NEW c \in Clients,
             Lookup(c) \/ WriteBack(c) \/ Extent(c) \/ Exhaust(c)
               \/ FillBatch(c) \/ LastLandmarks(c) \/ Break(c)
      PROVE  IndexStep
  BY <1>3, LookupIndex, WriteBackIndex, CloseIndex, IterIndex
<1>4. CASE SessionNext
  BY <1>2, <1>3, <1>4 DEF SessionNext, Locate, Resolve, Iterate
<1> QED
  BY <1>1, <1>4

\* A call of the index keeps its books.
LEMMA IndexStepAccounts ==
  ASSUME IndexTypeOK, Accounted, IndexStep
  PROVE  Accounted' /\ ShedRight
<1>1. CASE UNCHANGED indexVars
  BY <1>1, IdleAccounts
<1>2. ASSUME NEW anchor \in Nat, NEW path \in Seq(Segment), NEW seg \in 0 .. Len(path),
             TouchChain(anchor, path, seg)
      PROVE  Accounted' /\ ShedRight
  BY <1>2, TouchChainAccounts
<1>3. ASSUME NEW key \in Keys, NEW kind \in Kinds, NEW value_start \in Nat, NEW base_depth \in Nat,
             NEW close \in Nat, StoreClose(key, kind, value_start, base_depth, close)
      PROVE  Accounted' /\ ShedRight
  BY <1>3, StoreCloseAccounts
<1>4. ASSUME NEW key \in Keys, NEW value_start \in Nat, NEW base_depth \in Nat,
             NEW new, IsTable(new), DOMAIN new \subseteq Nat,
             MergeArrayScan(key, value_start, base_depth, new)
      PROVE  Accounted' /\ ShedRight
  BY <1>4, MergeArrayScanAccounts
<1>5. ASSUME NEW key \in Keys, NEW value_start \in Nat, NEW base_depth \in Nat,
             NEW new \in Seq(NamedEntry), NEW hint \in Nat \cup {None},
             MergeObjectScan(key, value_start, base_depth, new, hint)
      PROVE  Accounted' /\ ShedRight
  BY <1>5, MergeObjectScanAccounts
<1> QED
  BY <1>1, <1>2, <1>3, <1>4, <1>5 DEF IndexStep

\* An empty index has no slots in use.
LEMMA InitAccounts == SessionInit => Accounted
<1> SUFFICES ASSUME SessionInit PROVE Accounted
  OBVIOUS
<1>1. nodes = <<>> /\ slots_used = 0 /\ DOMAIN nodes = {}
  BY DEF SessionInit, IndexInit
<1>2. CountableTable(nodes)
  BY <1>1, FS_EmptySet DEF CountableTable
<1>3. TotalCost(nodes, DOMAIN nodes) = 0
  BY <1>1, <1>2, TotalType
<1> QED
  BY <1>1, <1>2, <1>3, KnobAssumption DEF Accounted, Stamped, SlotsAccounted

\* The running total of the index is the sum of what its nodes hold, whatever
\* was merged, overwritten and shed in whatever order, and between calls it is
\* within the budget (upsert, cache.rs:223-253).
THEOREM BooksBalance == SessionSpec => []SlotsAccounted
<1>1. SessionInit => TypeInv /\ Accounted
  BY InitType, InitAccounts
<1>2. TypeInv /\ Accounted /\ [SessionNext]_vars => (TypeInv /\ Accounted)'
  BY NextType, NextIndex, IndexStepAccounts DEF TypeInv, TypeOK
<1>3. Accounted => SlotsAccounted
  BY DEF Accounted
<1> QED
  BY <1>1, <1>2, <1>3, PTL DEF SessionSpec

\* Eviction takes the deepest container first and the least recently used among
\* equals: no step sheds a node while one stays that is deeper, or as deep and
\* used longer ago, and that holds of the node just written, too
\* (cache.rs:230-250).
THEOREM DeepestShedFirst == SessionSpec => ShallowOutlivesDeep
<1>1. SessionInit => TypeInv /\ Accounted
  BY InitType, InitAccounts
<1>2. TypeInv /\ Accounted /\ [SessionNext]_vars => (TypeInv /\ Accounted)'
  BY NextType, NextIndex, IndexStepAccounts DEF TypeInv, TypeOK
<1>3. TypeInv /\ Accounted /\ [SessionNext]_vars
        => [\A gone \in DOMAIN nodes \ DOMAIN nodes', kept \in DOMAIN nodes \cap DOMAIN nodes' :
              ~ ShedBefore(nodes'[kept], nodes[gone])]_indexVars
  BY NextIndex, IndexStepAccounts DEF TypeInv, TypeOK, ShedRight
<1> QED
  BY <1>1, <1>2, <1>3, PTL DEF SessionSpec, ShallowOutlivesDeep
==============================================================================
