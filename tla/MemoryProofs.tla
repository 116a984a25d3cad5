---------------------------- MODULE MemoryProofs ----------------------------
(***************************************************************************)
(* The index never forgets by overwriting: a node that a step leaves in    *)
(* place holds everything it held before, whichever of several racing      *)
(* write-backs lands last.  And as long as no eviction takes the node a    *)
(* call in flight relies on (ReliesOn), an object's table never has a hole *)
(* in front of its resume offset, so that what a call reports absent is    *)
(* absent, and the session implements Query.                               *)
(***************************************************************************)
EXTENDS SoundnessProofs

(***************************************************************************)
(* One node.                                                               *)
(***************************************************************************)

\* What the newer node still knows of the older one.
Keeps(old, new) ==
  /\ new.value_start = old.value_start
  /\ old.close # None => new.close # None
  /\ \A x \in DOMAIN old.members : x \in DOMAIN new.members /\ new.members[x] = old.members[x]
  /\ old.kind = "object" => new.resume >= old.resume

\* Every node that outlives the step keeps what it knew.
IndexKeeps == \A k \in DOMAIN nodes \cap DOMAIN nodes' : Keeps(nodes[k], nodes'[k])

\* A node keeps itself, and being used costs it nothing.
LEMMA UsedKeeps ==
  ASSUME NEW old, NodeOK(old), NEW node, NodeOK(node), Keeps(old, node), NEW moment
  PROVE  Keeps(old, [node EXCEPT !.last_used = moment])
<1> DEFINE used == [node EXCEPT !.last_used = moment]
<1>1. /\ used.value_start = node.value_start /\ used.close = node.close
      /\ used.members = node.members /\ used.resume = node.resume
  BY DEF NodeOK
<1> HIDE DEF used
<1>2. Keeps(old, used)
  BY <1>1 DEF Keeps
<1> QED
  BY <1>2 DEF used

LEMMA SelfKeeps ==
  ASSUME NEW node, NodeOK(node)
  PROVE  Keeps(node, node)
BY DEF Keeps, NodeOK

\* Learning a close.
LEMMA CloseKeeps ==
  ASSUME NEW node, NodeOK(node), NEW close \in Nat
  PROVE  Keeps(node, [node EXCEPT !.close = close])
<1> DEFINE closed == [node EXCEPT !.close = close]
<1>1. /\ closed.value_start = node.value_start /\ closed.close = close
      /\ closed.members = node.members /\ closed.resume = node.resume
  BY DEF NodeOK
<1>2. close # None
  BY NoneAssumption
<1> HIDE DEF closed
<1>3. Keeps(node, closed)
  BY <1>1, <1>2 DEF Keeps, NodeOK
<1> QED
  BY <1>3 DEF closed

\* Merging an array scan.
LEMMA ArrayKeeps ==
  ASSUME NEW node, NodeOK(node), NEW new
  PROVE  Keeps(node, MergeArray(node, new))
<1>1. CASE node.kind = "array"
  <2> DEFINE merged == [i \in DOMAIN node.members \cup DOMAIN new |->
                          IF i \in DOMAIN node.members THEN node.members[i] ELSE new[i]]
             node2 == [node EXCEPT !.members = merged]
  <2>1. \A i \in DOMAIN node.members : i \in DOMAIN merged /\ merged[i] = node.members[i]
    OBVIOUS
  <2> HIDE DEF merged
  <2>2. /\ node2.value_start = node.value_start /\ node2.close = node.close
        /\ node2.members = merged
    BY DEF NodeOK
  <2> HIDE DEF node2
  <2>3. Keeps(node, node2)
    BY <1>1, <2>1, <2>2 DEF Keeps
  <2> QED
    BY <1>1, <2>3 DEF MergeArray, merged, node2
<1>2. CASE node.kind # "array"
  BY <1>2, SelfKeeps DEF MergeArray
<1> QED
  BY <1>1, <1>2

\* Merging an object scan: first seen wins, and the mark only advances.
LEMMA ObjectKeeps ==
  ASSUME NEW node, NodeOK(node), NEW new \in Seq(NamedEntry), NEW hint \in Nat \cup {None}
  PROVE  Keeps(node, MergeObject(node, new, hint))
<1>1. CASE node.kind = "object"
  <2> DEFINE tabled == Tabled(node, new)
             merged == [n \in DOMAIN node.members \cup {new[i].name : i \in tabled} |->
                          IF n \in DOMAIN node.members
                            THEN node.members[n]
                            ELSE new[CHOOSE i \in tabled : new[i].name = n].value]
             mark == Advanced(node.resume, Reached(node, new, hint))
             node2 == [node EXCEPT !.members = merged, !.resume = mark]
  <2>1. \A n \in DOMAIN node.members : n \in DOMAIN merged /\ merged[n] = node.members[n]
    OBVIOUS
  <2>2. mark >= node.resume
    BY <1>1, ReachedType DEF Advanced, NodeOK
  <2> HIDE DEF merged, mark
  <2>3. /\ node2.value_start = node.value_start /\ node2.close = node.close
        /\ node2.members = merged /\ node2.resume = mark
    BY DEF NodeOK
  <2> HIDE DEF node2
  <2>4. Keeps(node, node2)
    BY <2>1, <2>2, <2>3 DEF Keeps
  <2> QED
    BY <1>1, <2>4 DEF MergeObject, merged, mark, node2
<1>2. CASE node.kind # "object"
  BY <1>2, SelfKeeps DEF MergeObject
<1> QED
  BY <1>1, <1>2

(***************************************************************************)
(* The operations of the index.                                            *)
(***************************************************************************)

\* An index that a step does not touch.
LEMMA QuietKeeps ==
  ASSUME IndexTypeOK, UNCHANGED nodes
  PROVE  IndexKeeps
BY SelfKeeps DEF IndexKeeps, IndexTypeOK

\* Storing a node that keeps what its predecessor knew, and shedding others.
LEMMA PutKeeps ==
  ASSUME IndexTypeOK, NEW key, NEW node, NodeOK(node),
         key \in DOMAIN nodes => Keeps(nodes[key], node),
         Put(key, node)
  PROVE  IndexKeeps
<1> DEFINE stored == [node EXCEPT !.last_used = tick + 1]
           written == [k \in DOMAIN nodes \cup {key} |-> IF k = key THEN stored ELSE nodes[k]]
<1>1. key \in DOMAIN nodes => Keeps(nodes[key], stored)
  BY UsedKeeps DEF IndexTypeOK
<1> HIDE DEF stored
<1>2. PICK gone : nodes' = [k \in DOMAIN written \ gone |-> written[k]]
  BY DEF Put, stored
<1>3. ASSUME NEW k \in DOMAIN nodes \cap DOMAIN nodes' PROVE Keeps(nodes[k], nodes'[k])
  <2>1. nodes'[k] = IF k = key THEN stored ELSE nodes[k]
    BY <1>2
  <2> QED
    BY <1>1, <2>1, SelfKeeps DEF IndexTypeOK
<1> QED
  BY <1>3 DEF IndexKeeps

\* A known container's node is the one a write starts from.
LEMMA KnownNode ==
  ASSUME NEW key \in DOMAIN nodes, NEW kind, NEW value_start, NEW base_depth
  PROVE  NodeFor(key, kind, value_start, base_depth) = nodes[key]
BY DEF NodeFor

\* Recording a container's close.
LEMMA StoreCloseKeeps ==
  ASSUME IndexTypeOK,
         NEW key \in Keys, NEW kind \in Kinds, NEW value_start \in Nat, NEW base_depth \in Nat,
         NEW close \in Nat, StoreClose(key, kind, value_start, base_depth, close)
  PROVE  IndexKeeps
<1> DEFINE known == NodeFor(key, kind, value_start, base_depth)
           node == [known EXCEPT !.close = close]
<1>1. NodeOK(known) /\ (key \in DOMAIN nodes => known = nodes[key])
  BY NodeForType, KnownNode
<1>2. NodeOK(node)
  BY <1>1 DEF NodeOK
<1>3. Keeps(known, node)
  BY <1>1, CloseKeeps
<1>4. CASE IsEnabled
  <2>1. Put(key, node)
    BY <1>4 DEF StoreClose
  <2> HIDE DEF known, node
  <2> QED
    BY <1>1, <1>2, <1>3, <2>1, PutKeeps
<1>5. CASE ~ IsEnabled
  BY <1>5, QuietKeeps DEF StoreClose, indexVars
<1> QED
  BY <1>4, <1>5

\* Writing back an array scan.
LEMMA MergeArrayScanKeeps ==
  ASSUME IndexTypeOK,
         NEW key \in Keys, NEW value_start \in Nat, NEW base_depth \in Nat,
         NEW new, IsTable(new), DOMAIN new \subseteq Nat,
         MergeArrayScan(key, value_start, base_depth, new)
  PROVE  IndexKeeps
<1> DEFINE known == NodeFor(key, "array", value_start, base_depth)
           node == MergeArray(known, new)
<1>1. NodeOK(known) /\ (key \in DOMAIN nodes => known = nodes[key])
  BY NodeForType, KnownNode DEF Kinds
<1> HIDE DEF known
<1>2. NodeOK(node) /\ Keeps(known, node)
  BY <1>1, MergeArrayType, ArrayKeeps
<1> HIDE DEF node
<1>3. CASE IsEnabled
  <2>1. Put(key, node)
    BY <1>3 DEF MergeArrayScan, known, node
  <2> QED
    BY <1>1, <1>2, <2>1, PutKeeps
<1>4. CASE ~ IsEnabled
  BY <1>4, QuietKeeps DEF MergeArrayScan, indexVars
<1> QED
  BY <1>3, <1>4

\* Writing back an object scan.
LEMMA MergeObjectScanKeeps ==
  ASSUME IndexTypeOK,
         NEW key \in Keys, NEW value_start \in Nat, NEW base_depth \in Nat,
         NEW new \in Seq(NamedEntry), NEW hint \in Nat \cup {None},
         MergeObjectScan(key, value_start, base_depth, new, hint)
  PROVE  IndexKeeps
<1> DEFINE known == NodeFor(key, "object", value_start, base_depth)
           node == MergeObject(known, new, hint)
<1>1. NodeOK(known) /\ (key \in DOMAIN nodes => known = nodes[key])
  BY NodeForType, KnownNode DEF Kinds
<1> HIDE DEF known
<1>2. NodeOK(node) /\ Keeps(known, node)
  BY <1>1, MergeObjectType, ObjectKeeps
<1> HIDE DEF node
<1>3. CASE IsEnabled
  <2>1. Put(key, node)
    BY <1>3 DEF MergeObjectScan, known, node
  <2> QED
    BY <1>1, <1>2, <2>1, PutKeeps
<1>4. CASE ~ IsEnabled
  BY <1>4, QuietKeeps DEF MergeObjectScan, indexVars
<1> QED
  BY <1>3, <1>4

\* A lookup only marks what it visits as used.
LEMMA TouchChainKeeps ==
  ASSUME IndexTypeOK, NEW anchor, NEW path, NEW seg, TouchChain(anchor, path, seg)
  PROVE  IndexKeeps
<1> SUFFICES ASSUME NEW k \in DOMAIN nodes \cap DOMAIN nodes' PROVE Keeps(nodes[k], nodes'[k])
  BY DEF IndexKeeps
<1>1. \/ nodes'[k] = nodes[k]
      \/ nodes'[k] = [nodes[k] EXCEPT !.last_used = tick + 1 + Len(k[2])]
  BY DEF TouchChain
<1>2. NodeOK(nodes[k]) /\ Keeps(nodes[k], nodes[k])
  BY SelfKeeps DEF IndexTypeOK
<1> QED
  BY <1>1, <1>2, UsedKeeps

(***************************************************************************)
(* The steps of a call.                                                    *)
(***************************************************************************)

\* A record drained into the index.
LEMMA ApplyKeeps ==
  ASSUME TypeInv, NEW c \in Clients,
         NEW scan, ScanOK(scan), scan.seg \in 0 .. Len(task[c].path), Apply(c, scan)
  PROVE  IndexKeeps
<1> DEFINE key == ScanKey(c, scan)
<1>1. key \in Keys
  BY TaskFacts, KeyType DEF ScanKey, TaskOK
<1>2. task[c].depth \in Nat /\ scan.value_start \in Nat /\ IndexTypeOK
  BY TaskFacts DEF TaskOK, ScanOK
<1> HIDE DEF key
<1>3. \/ scan.kind = "object"
          /\ MergeObjectScan(key, scan.value_start, task[c].depth, scan.members, scan.resume)
      \/ scan.kind = "array"
          /\ MergeArrayScan(key, scan.value_start, task[c].depth, scan.members)
      \/ UNCHANGED nodes
  BY DEF Apply, key, indexVars
<1>4. CASE scan.kind = "object"
            /\ MergeObjectScan(key, scan.value_start, task[c].depth, scan.members, scan.resume)
  BY <1>1, <1>2, <1>4, MergeObjectScanKeeps DEF ScanOK
<1>5. CASE scan.kind = "array"
            /\ MergeArrayScan(key, scan.value_start, task[c].depth, scan.members)
  BY <1>1, <1>2, <1>5, MergeArrayScanKeeps DEF ScanOK
<1> QED
  BY <1>2, <1>3, <1>4, <1>5, QuietKeeps

\* A write-back drains the head of its record, which is well typed.
LEMMA WriteBackKeeps ==
  ASSUME TypeInv, NEW c \in Clients, WriteBack(c)
  PROVE  IndexKeeps
<1> DEFINE record == task[c].record
<1>1. IndexTypeOK /\ TaskOK(task[c]) /\ Len(task[c].path) \in Nat /\ IsSequence(record)
  BY TaskFacts DEF TaskOK
<1>2. CASE record = <<>>
  BY <1>1, <1>2, QuietKeeps DEF WriteBack
<1>3. CASE record # <<>>
  <2>1. Apply(c, Head(record))
    BY <1>3 DEF WriteBack
  <2>2. ScanOK(Head(record)) /\ Head(record).seg \in 0 .. Len(task[c].path)
    BY <1>1, <1>3, TailSequence DEF TaskOK, ScanOK
  <2> QED
    BY <2>1, <2>2, ApplyKeeps
<1> QED
  BY <1>2, <1>3

\* Landmarks stored by an iteration.
LEMMA StoreLandmarksKeeps ==
  ASSUME TypeInv, NEW c \in Clients,
         NEW marks, IsTable(marks), DOMAIN marks \subseteq Nat, StoreLandmarks(c, marks)
  PROVE  IndexKeeps
<1>1. task[c].start \in Nat /\ task[c].depth \in Nat /\ TargetKey(c) \in Keys /\ IndexTypeOK
  BY TaskFacts DEF TaskOK
<1>2. CASE DOMAIN marks = {}
  BY <1>1, <1>2, QuietKeeps DEF StoreLandmarks, indexVars
<1>3. CASE DOMAIN marks # {}
  BY <1>1, <1>3, MergeArrayScanKeeps DEF StoreLandmarks
<1> QED
  BY <1>2, <1>3

\* The lookup that begins a call.
LEMMA LookupKeeps ==
  ASSUME TypeInv, NEW c \in Clients, Lookup(c)
  PROVE  IndexKeeps
<1>1. IndexTypeOK
  BY TaskFacts
<1>2. CASE IsEnabled
  BY <1>1, <1>2, TouchChainKeeps DEF Lookup
<1>3. CASE ~ IsEnabled
  BY <1>1, <1>3, QuietKeeps DEF Lookup, indexVars
<1> QED
  BY <1>2, <1>3

\* The close that get and hop learn.
LEMMA ExtentKeeps ==
  ASSUME TypeInv, NEW c \in Clients, Extent(c)
  PROVE  IndexKeeps
<1>1. /\ task[c].start \in Nat /\ task[c].depth \in Nat /\ ValueEnd(task[c].start) \in Nat
      /\ TargetKey(c) \in Keys /\ IndexTypeOK
  BY TaskFacts, ValueEndType DEF TaskOK
<1>2. CASE IsEnabled /\ IsContainer(Container(c))
  <2>1. Doc[Container(c)].kind \in Kinds
    BY <1>2, ContainerFacts DEF Kinds, IsContainer
  <2> QED
    BY <1>1, <1>2, <2>1, StoreCloseKeeps DEF Extent
<1>3. CASE ~ (IsEnabled /\ IsContainer(Container(c)))
  BY <1>1, <1>3, QuietKeeps DEF Extent, indexVars
<1> QED
  BY <1>2, <1>3

\* The close that an exhausted iteration learns.
LEMMA ExhaustKeeps ==
  ASSUME TypeInv, NEW c \in Clients, Exhaust(c)
  PROVE  IndexKeeps
<1>1. task[c].start \in Nat /\ task[c].depth \in Nat /\ TargetKey(c) \in Keys /\ IndexTypeOK
  BY TaskFacts DEF TaskOK
<1>2. Container(c) \in DOMAIN Doc
  BY IterFacts DEF Exhaust, At
<1>3. Doc[Container(c)].kind \in Kinds /\ Doc[Container(c)].close + 1 \in Nat
  BY <1>2, ContainerFacts DEF Kinds
<1> QED
  BY <1>1, <1>3, StoreCloseKeeps DEF Exhaust

\* A batch, the last landmarks and an early stop only add array members.
LEMMA FillBatchKeeps ==
  ASSUME TypeInv, NEW c \in Clients, FillBatch(c)
  PROVE  IndexKeeps
<1> DEFINE t == task[c]
           v == Container(c)
<1>1. v \in DOMAIN Doc /\ t.idx \in Nat /\ Len(Entries(v)) \in Nat
  BY IterFacts DEF FillBatch, At
<1>2. PICK to \in t.idx + 1 .. Len(Entries(v)) : StoreLandmarks(c, Landmarks(v, t.idx, to))
  BY DEF FillBatch
<1>3. to \in 0 .. Len(Entries(v))
  BY <1>1
<1> QED
  BY <1>1, <1>2, <1>3, LandmarksType, StoreLandmarksKeeps

LEMMA LastLandmarksKeeps ==
  ASSUME TypeInv, NEW c \in Clients, LastLandmarks(c)
  PROVE  IndexKeeps
<1>1. TaskOK(task[c])
  BY TaskFacts
<1> QED
  BY <1>1, StoreLandmarksKeeps DEF LastLandmarks, TaskOK

LEMMA BreakKeeps ==
  ASSUME TypeInv, NEW c \in Clients, Break(c)
  PROVE  IndexKeeps
<1> DEFINE t == task[c]
           v == Container(c)
           next_offset == IF t.idx < Len(Entries(v)) THEN Entries(v)[t.idx + 1].at ELSE Doc[v].close
           marks == [i \in {t.idx} |-> next_offset]
<1>1. v \in DOMAIN Doc /\ t.idx \in Nat /\ Len(Entries(v)) \in Nat /\ IndexTypeOK
  BY IterFacts, TaskFacts DEF Break, At
<1>2. next_offset \in Nat
  BY <1>1, EntryFacts, ContainerFacts
<1>3. \/ StoreLandmarks(c, marks)
      \/ UNCHANGED nodes
  BY DEF Break, indexVars
<1> HIDE DEF next_offset
<1>4. IsTable(marks) /\ DOMAIN marks \subseteq Nat
  BY <1>1, <1>2 DEF IsTable
<1> HIDE DEF marks
<1> QED
  BY <1>1, <1>3, <1>4, StoreLandmarksKeeps, QuietKeeps

\* Every step keeps what the nodes it leaves in place knew.
LEMMA NextKeeps ==
  ASSUME TypeInv, [SessionNext]_vars
  PROVE  IndexKeeps
<1>1. IndexTypeOK
  BY DEF TypeInv, TypeOK
<1>2. CASE UNCHANGED nodes
  BY <1>1, <1>2, QuietKeeps
<1>3. ASSUME NEW c \in Clients, Locate(c) PROVE IndexKeeps
  <2>1. CASE ScanDone(c) \/ ScanObject(c) \/ ScanArray(c) \/ ScanFault(c)
    BY <1>2, <2>1 DEF ScanDone, ScanObject, ScanArray, ScanFault
  <2> QED
    BY <1>3, <2>1, LookupKeeps, WriteBackKeeps DEF Locate
<1>4. ASSUME NEW c \in Clients, Resolve(c) PROVE IndexKeeps
  <2>1. CASE CachedClose(c) \/ Deliver(c)
    BY <1>2, <2>1 DEF CachedClose, Deliver
  <2> QED
    BY <1>4, <2>1, ExtentKeeps DEF Resolve
<1>5. ASSUME NEW c \in Clients, Iterate(c) \/ Break(c) PROVE IndexKeeps
  <2>1. CASE Enter(c)
    BY <1>2, <2>1 DEF Enter
  <2> QED
    BY <1>5, <2>1, FillBatchKeeps, ExhaustKeeps, LastLandmarksKeeps, BreakKeeps DEF Iterate
<1>6. ASSUME NEW c \in Clients, Ask(c) \/ ReadFails(c) PROVE IndexKeeps
  BY <1>2, <1>6 DEF Ask, ReadFails
<1>7. CASE UNCHANGED vars
  BY <1>2, <1>7 DEF vars
<1> QED
  BY <1>3, <1>4, <1>5, <1>6, <1>7 DEF SessionNext

(***************************************************************************)
(* The theorem.                                                            *)
(***************************************************************************)

\* What one step does to a node that outlives it.
NodesRemember ==
  \A k \in DOMAIN nodes \cap DOMAIN nodes' :
    LET old == nodes[k]
        new == nodes'[k]
    IN  /\ old.value_start = new.value_start
        /\ old.close # None => new.close = old.close
        /\ \A x \in DOMAIN old.members :
             x \in DOMAIN new.members /\ new.members[x] = old.members[x]
        /\ old.kind = "object" => new.resume >= old.resume

\* A close that is known before and after a step is the same close, since the
\* text bears out both.
LEMMA StepRemembers ==
  ASSUME RootStart = 0, UniqueNames, SoundInv, [SessionNext]_vars
  PROVE  NodesRemember
<1>1. IndexKeeps /\ CacheTruthful /\ CacheTruthful'
  BY NextKeeps, NextTruth DEF SoundInv
<1>2. ASSUME NEW k \in DOMAIN nodes \cap DOMAIN nodes', nodes[k].close # None
      PROVE  nodes'[k].close = nodes[k].close
  <2>1. nodes'[k].value_start = nodes[k].value_start /\ nodes'[k].close # None
    BY <1>1, <1>2 DEF IndexKeeps, Keeps
  <2>2. nodes[k].close = Doc[SkipWhitespace(nodes[k].value_start)].close + 1
    BY <1>1, <1>2 DEF CacheTruthful, NodeTruthful
  <2>3. nodes'[k].close = Doc[SkipWhitespace(nodes'[k].value_start)].close + 1
    BY <1>1, <2>1 DEF CacheTruthful, NodeTruthful
  <2> QED
    BY <2>1, <2>2, <2>3
<1> QED
  BY <1>1, <1>2 DEF NodesRemember, IndexKeeps, Keeps

\* In a document that starts with its root value and has no duplicate member
\* names, a node that survives a step keeps its container's start, its close
\* and every member it tabled, and its resume offset never goes back: racing
\* write-backs land in either order and the one that saw less does not undo
\* the other (cache.rs:453-456).
THEOREM IndexRemembers ==
  ASSUME RootStart = 0, UniqueNames
  PROVE  SessionSpec => NothingForgotten
<1>1. SessionInit => SoundInv
  BY InitTruth
<1>2. SoundInv /\ [SessionNext]_vars => SoundInv'
  BY NextTruth
<1>3. SoundInv /\ [SessionNext]_vars => [NodesRemember]_vars
  BY StepRemembers
<1>4. NothingForgotten <=> [][NodesRemember]_vars
  BY DEF NothingForgotten, NodesRemember
<1> QED
  BY <1>1, <1>2, <1>3, <1>4, PTL DEF SessionSpec

(***************************************************************************)
(* Calls whose containers are spared: the table stays dense.               *)
(***************************************************************************)

\* The members in front of entry p of container v are all in the node's table.
Covers(node, v, p) == \A n \in 1 .. p - 1 : Entries(v)[n].name \in DOMAIN node.members

\* An object's node covers what is in front of its mark.
NodeDense(node) ==
  LET v == SkipWhitespace(node.value_start)
  IN  node.kind = "object" =>
        \E p \in 1 .. Len(Entries(v)) + 1 : StandsAt(v, p, node.resume) /\ Covers(node, v, p)

\* The table has the name of every scanned member in front of the first that
\* did not fit.
LEMMA TabledNames ==
  ASSUME NEW node, NEW new \in Seq(NamedEntry), NEW j \in DOMAIN new,
         \A i \in Untabled(node, new) \ Tabled(node, new) : j < i
  PROVE  new[j].name \in DOMAIN node.members \cup {new[i].name : i \in Tabled(node, new)}
<1> DEFINE same == {i \in DOMAIN new : new[i].name = new[j].name}
<1>1. DOMAIN new = 1 .. Len(new) /\ Len(new) \in Nat
  BY LenProperties
<1>2. same \in SUBSET Nat /\ j \in same
  BY <1>1
<1>3. Min(same) \in same /\ \A i \in same : Min(same) <= i
  <2> HIDE DEF same
  <2> QED
    BY <1>2, MinNat
<1> DEFINE least == Min(same)
<1> HIDE DEF least
<1>4. least \in DOMAIN new /\ new[least].name = new[j].name /\ least <= j
  BY <1>2, <1>3 DEF least
<1>5. ASSUME NEW i \in 1 .. least - 1 PROVE new[i].name # new[least].name
  <2>1. i \in DOMAIN new /\ i < least
    BY <1>1, <1>4
  <2>2. i \notin same
    <3>1. i \in Nat /\ least \in Nat
      BY <1>1, <1>4
    <3>2. i \in same => least <= i
      BY <1>3 DEF least
    <3> QED
      BY <2>1, <3>1, <3>2
  <2> QED
    BY <1>4, <2>1, <2>2
<1>6. CASE new[j].name \notin DOMAIN node.members
  <2>1. least \in Untabled(node, new)
    BY <1>4, <1>5, <1>6 DEF Untabled
  <2>2. ~ (j < least)
    BY <1>1, <1>4
  <2>3. least \in Tabled(node, new)
    BY <2>1, <2>2
  <2> QED
    BY <1>4, <2>3
<1> QED
  BY <1>6

\* Merging an unbroken scan into a table that covers what is in front of it.
LEMMA MergeObjectDense ==
  ASSUME RootStart = 0, NEW v \in DOMAIN Doc,
         NEW node, NodeOK(node), node.kind = "object", node.value_start = v, NodeDense(node),
         NEW new \in Seq(NamedEntry), NEW hint \in Nat,
         NEW first, Unbroken(v, first, new, hint), Covers(node, v, first)
  PROVE  NodeDense(MergeObject(node, new, hint))
<1> DEFINE tabled == Tabled(node, new)
           overflow == Untabled(node, new) \ tabled
           merged == [n \in DOMAIN node.members \cup {new[i].name : i \in tabled} |->
                        IF n \in DOMAIN node.members
                          THEN node.members[n]
                          ELSE new[CHOOSE i \in tabled : new[i].name = n].value]
           reached == Reached(node, new, hint)
           mark == Advanced(node.resume, reached)
           result == [node EXCEPT !.members = merged, !.resume = mark]
<1>1. /\ v \in Nat /\ SkipWhitespace(v) = v /\ Len(Entries(v)) \in Nat
      /\ DOMAIN new = 1 .. Len(new) /\ Len(new) \in Nat /\ first \in Nat \ {0}
  BY NothingSkipped, ContainerFacts, LenProperties DEF Unbroken
<1>2. DOMAIN merged = DOMAIN node.members \cup {new[i].name : i \in tabled}
  OBVIOUS
<1>3. ASSUME NEW q \in Nat, \A i \in overflow : q < first + i, q <= first + Len(new),
             NEW n \in 1 .. q - 1
      PROVE  Entries(v)[n].name \in DOMAIN merged
  <2>1. CASE n < first
    BY <1>1, <1>2, <2>1 DEF Covers
  <2>2. CASE ~ (n < first)
    <3> DEFINE j == n - first + 1
    <3>1. j \in DOMAIN new /\ first + j - 1 = n
      BY <1>1, <1>3, <2>2
    <3>2. \A i \in overflow : j < i
      <4> SUFFICES ASSUME NEW i \in overflow PROVE j < i
        OBVIOUS
      <4>1. i \in Nat /\ q < first + i
        BY <1>1, <1>3, TabledPositions
      <4> QED
        BY <1>1, <1>3, <2>2, <4>1
    <3>3. new[j] = Entries(v)[n]
      BY <3>1 DEF Unbroken
    <3> HIDE DEF j
    <3>4. new[j].name \in DOMAIN merged
      BY <1>2, <3>1, <3>2, TabledNames
    <3> QED
      BY <3>3, <3>4
  <2> QED
    BY <2>1, <2>2
<1>4. \E q \in 1 .. Len(Entries(v)) + 1 :
        StandsAt(v, q, reached) /\ \A n \in 1 .. q - 1 : Entries(v)[n].name \in DOMAIN merged
  <2>1. CASE overflow # {}
    <3> DEFINE m == Min(overflow)
    <3>1. overflow \in SUBSET Nat /\ overflow \subseteq DOMAIN new
      BY <1>1, TabledPositions
    <3>2. m \in overflow /\ \A i \in overflow : m <= i
      <4> HIDE DEF overflow
      <4> QED
        BY <2>1, <3>1, MinNat
    <3>3. reached = new[m].at
      BY <2>1 DEF Reached
    <3> HIDE DEF m
    <3> DEFINE q == first + m - 1
    <3>4. m \in DOMAIN new /\ q \in 1 .. Len(Entries(v)) /\ new[m] = Entries(v)[q]
      BY <3>1, <3>2 DEF Unbroken
    <3>5. StandsAt(v, q, reached) /\ q \in 1 .. Len(Entries(v)) + 1 /\ q \in Nat
      BY <1>1, <3>3, <3>4 DEF StandsAt
    <3>6. \A i \in overflow : q < first + i
      <4> SUFFICES ASSUME NEW i \in overflow PROVE q < first + i
        OBVIOUS
      <4>1. i \in Nat /\ m \in Nat /\ m <= i
        BY <3>1, <3>2
      <4> QED
        BY <1>1, <4>1
    <3>7. q <= first + Len(new)
      BY <1>1, <3>4
    <3> HIDE DEF q
    <3> QED
      BY <1>3, <3>5, <3>6, <3>7
  <2>2. CASE overflow = {}
    <3>1. PICK p \in 1 .. Len(Entries(v)) + 1 : StandsAt(v, p, hint) /\ p <= first + Len(new)
      BY DEF Unbroken
    <3>2. reached = hint
      BY <2>2, NoneAssumption DEF Reached
    <3>3. p \in Nat
      BY <1>1
    <3> QED
      BY <1>3, <2>2, <3>1, <3>2, <3>3
  <2> QED
    BY <2>1, <2>2
<1>5. PICK p \in 1 .. Len(Entries(v)) + 1 : StandsAt(v, p, node.resume) /\ Covers(node, v, p)
  BY <1>1 DEF NodeDense
<1>6. MergeObject(node, new, hint) = result
  BY DEF MergeObject
<1> HIDE DEF merged, reached
<1>7. mark = reached \/ mark = node.resume
  BY DEF Advanced
<1> HIDE DEF mark
<1>8. /\ result.kind = "object" /\ result.value_start = v
      /\ result.members = merged /\ result.resume = mark
  BY DEF NodeOK
<1> HIDE DEF result
<1>9. \E q \in 1 .. Len(Entries(v)) + 1 : StandsAt(v, q, mark) /\ Covers(result, v, q)
  <2>1. CASE mark = reached
    BY <1>4, <1>8, <2>1 DEF Covers
  <2>2. CASE mark = node.resume
    BY <1>2, <1>5, <1>8, <2>2 DEF Covers
  <2> QED
    BY <1>7, <2>1, <2>2
<1> QED
  BY <1>1, <1>6, <1>8, <1>9 DEF NodeDense

\* A container met for the first time is dense up to its open.
LEMMA FreshDense ==
  ASSUME RootStart = 0, NEW v \in DOMAIN Doc, NEW kind, NEW depth
  PROVE  NodeDense(FreshNode(kind, v, depth))
<1> DEFINE node == FreshNode(kind, v, depth)
<1>1. /\ node.value_start = v /\ node.kind = kind
      /\ kind = "object" => node.resume = v + 1
  BY DEF FreshNode
<1>2. SkipWhitespace(v) = v /\ StandsAt(v, 1, v + 1) /\ 1 \in 1 .. Len(Entries(v)) + 1
  BY NothingSkipped, StandsAtOpen, ContainerFacts
<1>3. Covers(node, v, 1)
  BY DEF Covers
<1> HIDE DEF node
<1>4. NodeDense(node)
  BY <1>1, <1>2, <1>3 DEF NodeDense
<1> QED
  BY <1>4 DEF node

\* The node a write starts from is dense.
LEMMA NodeForDense ==
  ASSUME RootStart = 0, DensePrefix, NEW key, NEW v \in DOMAIN Doc, NEW kind, NEW base_depth
  PROVE  NodeDense(NodeFor(key, kind, v, base_depth))
<1>1. CASE key \in DOMAIN nodes
  BY <1>1, KnownNode DEF DensePrefix, NodeDense, Covers
<1>2. CASE key \notin DOMAIN nodes
  BY <1>2, FreshDense DEF NodeFor
<1> QED
  BY <1>1, <1>2

\* A change that leaves kind, start, table and mark alone leaves it dense.
LEMMA AlikeDense ==
  ASSUME NEW node, NodeDense(node), NEW other,
         other.kind = node.kind, other.value_start = node.value_start,
         other.members = node.members, other.resume = node.resume
  PROVE  NodeDense(other)
BY DEF NodeDense, Covers

\* An array's node has nothing to be dense about.
LEMMA ArrayDense ==
  ASSUME NEW node, node.kind # "object"
  PROVE  NodeDense(node)
BY DEF NodeDense

\* Storing a dense node, and shedding others, leaves every table dense.
LEMMA PutDense ==
  ASSUME DensePrefix, NEW key, NEW node, NodeOK(node), NodeDense(node), Put(key, node)
  PROVE  DensePrefix'
<1> DEFINE stored == [node EXCEPT !.last_used = tick + 1]
           written == [k \in DOMAIN nodes \cup {key} |-> IF k = key THEN stored ELSE nodes[k]]
<1>1. /\ stored.kind = node.kind /\ stored.value_start = node.value_start
      /\ stored.members = node.members /\ stored.resume = node.resume
  BY DEF NodeOK
<1> HIDE DEF stored
<1>2. NodeDense(stored)
  BY <1>1, AlikeDense
<1>3. PICK gone : nodes' = [k \in DOMAIN written \ gone |-> written[k]]
  BY DEF Put, stored
<1>4. ASSUME NEW k \in DOMAIN nodes' PROVE NodeDense(nodes'[k])
  <2>1. k \in DOMAIN written /\ nodes'[k] = written[k]
    BY <1>3
  <2>2. CASE k = key
    BY <1>2, <2>1, <2>2
  <2>3. CASE k # key
    <3>1. k \in DOMAIN nodes /\ nodes'[k] = nodes[k]
      BY <2>1, <2>3
    <3> QED
      BY <3>1 DEF DensePrefix, NodeDense, Covers
  <2> QED
    BY <2>2, <2>3
<1> QED
  BY <1>4 DEF DensePrefix, NodeDense, Covers

\* An index that no step touches stays dense.
LEMMA QuietDense ==
  ASSUME DensePrefix, UNCHANGED nodes
  PROVE  DensePrefix'
BY DEF DensePrefix

\* Recording a container's close.
LEMMA StoreCloseDense ==
  ASSUME RootStart = 0, IndexTypeOK, DensePrefix,
         NEW key \in Keys, NEW v \in DOMAIN Doc, NEW kind \in Kinds, NEW base_depth \in Nat,
         NEW close \in Nat, StoreClose(key, kind, v, base_depth, close)
  PROVE  DensePrefix'
<1> DEFINE known == NodeFor(key, kind, v, base_depth)
           node == [known EXCEPT !.close = close]
<1>1. NodeOK(known) /\ NodeDense(known)
  BY NodeForType, NodeForDense, ContainerFacts
<1> HIDE DEF known
<1>2. NodeOK(node)
  BY <1>1 DEF NodeOK
<1>3. /\ node.kind = known.kind /\ node.value_start = known.value_start
      /\ node.members = known.members /\ node.resume = known.resume
  BY <1>1 DEF NodeOK
<1>4. CASE IsEnabled
  <2>1. Put(key, node)
    BY <1>4 DEF StoreClose, known
  <2> HIDE DEF node
  <2> QED
    BY <1>1, <1>2, <1>3, <2>1, AlikeDense, PutDense
<1>5. CASE ~ IsEnabled
  BY <1>5, QuietDense DEF StoreClose, indexVars
<1> QED
  BY <1>4, <1>5

\* Merging an array scan.
LEMMA MergeArrayScanDense ==
  ASSUME RootStart = 0, IndexTypeOK, DensePrefix,
         NEW key \in Keys, NEW v \in DOMAIN Doc, NEW base_depth \in Nat,
         NEW new, IsTable(new), DOMAIN new \subseteq Nat,
         MergeArrayScan(key, v, base_depth, new)
  PROVE  DensePrefix'
<1> DEFINE known == NodeFor(key, "array", v, base_depth)
           node == MergeArray(known, new)
<1>1. NodeOK(known) /\ NodeDense(known)
  BY NodeForType, NodeForDense, ContainerFacts DEF Kinds
<1> HIDE DEF known
<1>2. NodeOK(node)
  BY <1>1, MergeArrayType
<1>3. NodeDense(node)
  <2>1. CASE known.kind = "array"
    <3>1. node.kind = "array"
      BY <1>1, <2>1 DEF MergeArray, NodeOK
    <3> HIDE DEF node
    <3> QED
      BY <3>1, ArrayDense
  <2>2. CASE known.kind # "array"
    BY <1>1, <2>2 DEF MergeArray
  <2> QED
    BY <2>1, <2>2
<1> HIDE DEF node
<1>4. CASE IsEnabled
  BY <1>2, <1>3, <1>4, PutDense DEF MergeArrayScan, known, node
<1>5. CASE ~ IsEnabled
  BY <1>5, QuietDense DEF MergeArrayScan, indexVars
<1> QED
  BY <1>4, <1>5

\* A lookup leaves every table as it was.
LEMMA TouchChainDense ==
  ASSUME IndexTypeOK, DensePrefix, NEW anchor, NEW path, NEW seg, TouchChain(anchor, path, seg)
  PROVE  /\ DensePrefix'
         /\ DOMAIN nodes' = DOMAIN nodes
         /\ \A k \in DOMAIN nodes : nodes'[k].members = nodes[k].members
<1>1. DOMAIN nodes' = DOMAIN nodes
  BY DEF TouchChain
<1>2. ASSUME NEW k \in DOMAIN nodes
      PROVE  /\ nodes'[k].kind = nodes[k].kind /\ nodes'[k].value_start = nodes[k].value_start
             /\ nodes'[k].members = nodes[k].members /\ nodes'[k].resume = nodes[k].resume
  <2>1. NodeOK(nodes[k])
    BY DEF IndexTypeOK
  <2>2. \/ nodes'[k] = nodes[k]
        \/ nodes'[k] = [nodes[k] EXCEPT !.last_used = tick + 1 + Len(k[2])]
    BY DEF TouchChain
  <2> QED
    BY <2>1, <2>2 DEF NodeOK
<1>3. ASSUME NEW k \in DOMAIN nodes' PROVE NodeDense(nodes'[k])
  <2>1. NodeDense(nodes[k])
    BY <1>1 DEF DensePrefix, NodeDense, Covers
  <2> QED
    BY <1>1, <1>2, <2>1, AlikeDense
<1>4. DensePrefix'
  BY <1>3 DEF DensePrefix, NodeDense, Covers
<1> QED
  BY <1>1, <1>2, <1>4

(***************************************************************************)
(* Calls whose containers are spared: what a call knows of the index.      *)
(***************************************************************************)

\* The node at "key" covers what is in front of entry p of container v.
Held(table, key, v, p) == key \in DOMAIN table /\ Covers(table[key], v, p)

\* A call's seed: the table covers what is in front of it, where no member has
\* the name that is looked for; in an array it is not past the target.
SeedCovered(table, t) ==
  t.pc = "scan" /\ t.seed # None =>
    LET key     == Key(t.anchor, t.path, t.seg)
        segment == t.path[t.seg + 1]
    IN  /\ t.record = <<>>
        /\ t.seed.kind = "object" =>
             \E p \in 1 .. Len(Entries(t.start)) + 1 :
                  /\ StandsAt(t.start, p, t.seed.offset)
                  /\ Held(table, key, t.start, p)
                  /\ \A n \in 1 .. p - 1 : Entries(t.start)[n].name # segment.member
        /\ t.seed.kind = "array" => t.seed.index <= segment.element

\* An object scan on record is unbroken, from the container's first member on,
\* or else it is the first of its record and the table covers what is in front.
ScanCovered(table, t, i) ==
  LET scan == t.record[i]
      v    == scan.value_start
  IN  scan.kind = "object" =>
        \/ scan.resume = None /\ scan.members = <<>>
        \/ \E first \in 1 .. Len(Entries(v)) + 1 :
             /\ Unbroken(v, first, scan.members, scan.resume)
             /\ \/ first = 1
                \/ i = 1 /\ Held(table, Key(t.anchor, t.path, scan.seg), v, first)

\* What a call knows as long as no other takes from it what it relies on.
TaskCovered(table, t) ==
  /\ t.pc = "lookup" => t.record = <<>>
  /\ SeedCovered(table, t)
  /\ t.pc \in {"scan", "write"} => \A i \in DOMAIN t.record : ScanCovered(table, t, i)
  /\ AbsentIsTrue(t)
  /\ FaultIsTrue(t)

CoveredInv == SoundInv /\ DensePrefix /\ \A c \in Clients : TaskCovered(nodes, task[c])

\* The task that a step of its own leaves a call.
LEMMA OwnTask ==
  ASSUME TypeInv, NEW c \in Clients, NEW u, task' = [task EXCEPT ![c] = u],
         TaskCovered(nodes', u)
  PROVE  TaskCovered(nodes', task'[c])
BY DEF TypeInv, TypeOK

\* A call past its write-back that reports neither absence nor a fault.
LEMMA LaterCovered ==
  ASSUME NEW table, NEW u, u.pc \notin {"lookup", "scan", "write"}, u.status \notin {"absent", "fault"}
  PROVE  TaskCovered(table, u)
BY DEF TaskCovered, SeedCovered, AbsentIsTrue, FaultIsTrue

\* A call arrives with nothing on record.
LEMMA AskCovered ==
  ASSUME RootStart = 0, CoveredInv, NEW c \in Clients, Ask(c)
  PROVE  DensePrefix' /\ TaskCovered(nodes', task'[c])
<1>1. PICK cursor \in cursors, op \in Ops, path \in Paths :
        task' = [task EXCEPT ![c] = [IdleTask EXCEPT
                  !.pc = "lookup", !.op = op, !.path = path, !.start = cursor.anchor,
                  !.anchor = cursor.anchor, !.depth = cursor.depth]]
  BY DEF Ask
<1> DEFINE u == [IdleTask EXCEPT
                  !.pc = "lookup", !.op = op, !.path = path, !.start = cursor.anchor,
                  !.anchor = cursor.anchor, !.depth = cursor.depth]
<1>2. u.pc = "lookup" /\ u.record = <<>> /\ u.status = "none"
  BY DEF IdleTask
<1> HIDE DEF u
<1>3. TaskCovered(nodes', u)
  BY <1>2 DEF TaskCovered, SeedCovered, AbsentIsTrue, FaultIsTrue
<1>4. DensePrefix'
  BY QuietDense DEF Ask, CoveredInv
<1> QED
  BY <1>1, <1>3, <1>4, OwnTask DEF u, CoveredInv, SoundInv

\* A lookup's seed stands where the table ends, and the table does not have
\* what the call looks for.
LEMMA ChainSeedCovered ==
  ASSUME RootStart = 0, IndexTypeOK, CacheTruthful, DensePrefix,
         NEW anchor \in Nat, NEW path \in Seq(Segment), NEW seg \in 0 .. Len(path),
         ChainStopsAt(anchor, path, seg), ChainSeed(anchor, path, seg) # None
  PROVE  LET seed    == ChainSeed(anchor, path, seg)
             v       == ChainStart(anchor, path, seg)
             key     == Key(anchor, path, seg)
             segment == path[seg + 1]
         IN  /\ seed.kind = "object" =>
                  \E p \in 1 .. Len(Entries(v)) + 1 :
                    /\ StandsAt(v, p, seed.offset)
                    /\ Held(nodes, key, v, p)
                    /\ \A n \in 1 .. p - 1 : Entries(v)[n].name # segment.member
             /\ seed.kind = "array" => seed.index <= segment.element
<1> DEFINE key  == Key(anchor, path, seg)
           node == nodes[key]
           v    == node.value_start
           seed == ChainSeed(anchor, path, seg)
           segment == path[seg + 1]
           target == segment.element
           below == {i \in DOMAIN node.members : i <= target}
<1>1. seg # Len(path) /\ key \in DOMAIN nodes /\ node.kind = KindOf(segment)
  BY DEF ChainSeed
<1>2. NodeTruthful(key, node) /\ NodeOK(node) /\ v \in Nat
  BY <1>1 DEF CacheTruthful, IndexTypeOK, NodeOK
<1>3. seed = IF node.kind = "object"
               THEN ResumePoint("object", 0, node.resume)
               ELSE NearestArrayMember(node, target)
  BY <1>1 DEF ChainSeed
<1>4. seg \in Nat /\ ChainStart(anchor, path, seg) \in Nat /\ Len(path) \in Nat /\ seg < Len(path)
  BY <1>1, ChainStartType, LenProperties
<1>5. /\ v \in DOMAIN Doc /\ Leads(key[1], key[2], Len(key[2]), v)
  BY <1>2, NodeTruth
<1>6. ChainStart(anchor, path, seg) = v
  <2>1. Leads(anchor, path, seg, v)
    BY <1>5, KeyLeads
  <2>2. Leads(anchor, path, seg, ChainStart(anchor, path, seg))
    BY ChainStartTruth
  <2> QED
    BY <1>2, <1>4, <2>1, <2>2, LeadsOnce
<1>7. CASE node.kind = "object"
  <2>1. seed.kind = "object" /\ seed.offset = node.resume
    BY <1>3, <1>7 DEF ResumePoint
  <2>2. SkipWhitespace(v) = v
    BY <1>2, NothingSkipped
  <2>3. \E p \in 1 .. Len(Entries(v)) + 1 :
          /\ StandsAt(v, p, node.resume)
          /\ \A i \in 1 .. p - 1 : Entries(v)[i].name \in DOMAIN node.members
    BY <1>1, <1>7, <2>2 DEF DensePrefix
  <2>4. IsMember(segment)
    BY <1>1, <1>7 DEF KindOf
  <2>5. ~ HopsInto(anchor, path, seg + 1)
    BY <1>4 DEF ChainStopsAt
  <2>6. (seg + 1) - 1 = seg
    BY <1>4
  <2>7. segment.member \notin DOMAIN node.members
    BY <1>1, <1>7, <2>4, <2>5, <2>6 DEF HopsInto
  <2>8. PICK p \in 1 .. Len(Entries(v)) + 1 : StandsAt(v, p, node.resume) /\ Covers(node, v, p)
    BY <2>3 DEF Covers
  <2>9. \A n \in 1 .. p - 1 : Entries(v)[n].name # segment.member
    BY <2>7, <2>8 DEF Covers
  <2> QED
    BY <1>1, <1>6, <2>1, <2>8, <2>9 DEF Held
<1>8. CASE node.kind # "object"
  <2>1. node.kind = "array" /\ ~ IsMember(segment)
    BY <1>1, <1>2, <1>8 DEF NodeOK, Kinds, KindOf
  <2>2. segment \in Segment
    BY <1>4, LenProperties
  <2>3. target \in Nat
    BY <2>1, <2>2 DEF Segment, IsMember
  <2>4. seed = NearestArrayMember(node, target) /\ seed # None
    BY <1>3, <1>8
  <2>5. below # {}
    BY <2>4 DEF NearestArrayMember
  <2>6. below \in SUBSET Nat /\ \A i \in below : i <= target
    BY <1>2, <2>1 DEF NodeOK
  <2> HIDE DEF target
  <2>7. Max(below) \in below
    BY <2>3, <2>5, <2>6, MaxNat
  <2>8. seed = ResumePoint("array", Max(below), node.members[Max(below)])
    BY <2>4, <2>5 DEF NearestArrayMember
  <2>9. seed.kind = "array" /\ seed.index <= target
    BY <2>7, <2>8 DEF ResumePoint
  <2> QED
    BY <2>9 DEF target
<1> QED
  BY <1>7, <1>8

LEMMA LookupCovered ==
  ASSUME RootStart = 0, CoveredInv, NEW c \in Clients, Lookup(c)
  PROVE  DensePrefix' /\ TaskCovered(nodes', task'[c])
<1> DEFINE t == task[c]
<1>0. /\ TaskCovered(nodes, t) /\ TaskTruthful(t) /\ TaskOK(t) /\ t.pc = "lookup"
      /\ CacheTruthful /\ IndexTypeOK /\ DensePrefix /\ TypeInv
      /\ t.anchor \in Nat /\ t.path \in Seq(Segment)
  BY SoundFacts DEF Lookup, At, CoveredInv
<1>1. t.record = <<>> /\ t.status = "none" /\ t.seed = None
  BY <1>0 DEF TaskCovered, TaskTruthful
<1>2. CASE IsEnabled
  <2>1. PICK seg \in 0 .. Len(t.path) :
          /\ ChainStopsAt(t.anchor, t.path, seg)
          /\ TouchChain(t.anchor, t.path, seg)
          /\ task' = [task EXCEPT ![c].pc = "scan", ![c].seg = seg,
                        ![c].start = ChainStart(t.anchor, t.path, seg),
                        ![c].seed = ChainSeed(t.anchor, t.path, seg)]
    BY <1>2 DEF Lookup
  <2> DEFINE start == ChainStart(t.anchor, t.path, seg)
             seed == ChainSeed(t.anchor, t.path, seg)
             key == Key(t.anchor, t.path, seg)
             segment == t.path[seg + 1]
             u == [t EXCEPT !.pc = "scan", !.seg = seg, !.start = start, !.seed = seed]
  <2>2. seed # None =>
          /\ seed.kind = "object" =>
               \E p \in 1 .. Len(Entries(start)) + 1 :
                 /\ StandsAt(start, p, seed.offset)
                 /\ Held(nodes, key, start, p)
                 /\ \A n \in 1 .. p - 1 : Entries(start)[n].name # segment.member
          /\ seed.kind = "array" => seed.index <= segment.element
    BY <1>0, <2>1, ChainSeedCovered
  <2>3. /\ DensePrefix' /\ DOMAIN nodes' = DOMAIN nodes
        /\ \A k \in DOMAIN nodes : nodes'[k].members = nodes[k].members
    BY <1>0, <2>1, TouchChainDense
  <2>4. task' = [task EXCEPT ![c] = u]
    BY <2>1
  <2> HIDE DEF start, seed, key, segment, t
  <2>5. seed # None /\ seed.kind = "object" =>
          \E p \in 1 .. Len(Entries(start)) + 1 :
            /\ StandsAt(start, p, seed.offset)
            /\ Held(nodes', key, start, p)
            /\ \A n \in 1 .. p - 1 : Entries(start)[n].name # segment.member
    BY <2>2, <2>3 DEF Held, Covers
  <2>6. /\ u.pc = "scan" /\ u.seg = seg /\ u.start = start /\ u.seed = seed
        /\ u.anchor = t.anchor /\ u.path = t.path /\ u.record = t.record /\ u.status = t.status
    BY <1>0 DEF TaskOK, IdleTask
  <2> HIDE DEF u
  <2>7. SeedCovered(nodes', u)
    BY <1>1, <2>2, <2>5, <2>6 DEF SeedCovered, key, segment
  <2>8. TaskCovered(nodes', u)
    BY <1>1, <2>6, <2>7 DEF TaskCovered, AbsentIsTrue, FaultIsTrue
  <2> QED
    BY <1>0, <2>3, <2>4, <2>8, OwnTask
<1>3. CASE ~ IsEnabled
  <2> DEFINE u == [t EXCEPT !.pc = "scan"]
  <2>1. task' = [task EXCEPT ![c] = u] /\ UNCHANGED nodes
    BY <1>3 DEF Lookup, indexVars
  <2> HIDE DEF t
  <2>2. u.pc = "scan" /\ u.seed = None /\ u.record = <<>> /\ u.status = "none"
    BY <1>0, <1>1 DEF TaskOK, IdleTask
  <2> HIDE DEF u
  <2>3. TaskCovered(nodes', u)
    BY <2>2 DEF TaskCovered, SeedCovered, AbsentIsTrue, FaultIsTrue
  <2> QED
    BY <1>0, <2>1, <2>3, OwnTask, QuietDense
<1> QED
  BY <1>2, <1>3

\* Where the elements of a longer sequence stand.
LEMMA AppendAt ==
  ASSUME NEW s, IsSequence(s), NEW e
  PROVE  /\ Len(s) \in Nat /\ DOMAIN s = 1 .. Len(s)
         /\ DOMAIN Append(s, e) = 1 .. Len(s) + 1
         /\ \A i \in 1 .. Len(s) : Append(s, e)[i] = s[i]
         /\ Append(s, e)[Len(s) + 1] = e
<1> DEFINE S == {s[i] : i \in DOMAIN s} \cup {e}
<1>1. s \in Seq(S)
  BY SeqMonotonic DEF IsSequence
<1>2. Append(s, e) \in Seq(S) /\ Len(Append(s, e)) = Len(s) + 1
      /\ (\A i \in 1 .. Len(s) : Append(s, e)[i] = s[i]) /\ Append(s, e)[Len(s) + 1] = e
  BY <1>1, AppendProperties
<1> QED
  BY <1>1, <1>2, LenProperties

\* Where those of a shorter one stand.
LEMMA TailAt ==
  ASSUME NEW s, IsSequence(s), s # <<>>
  PROVE  /\ Head(s) = s[1] /\ 1 \in DOMAIN s
         /\ \A i \in DOMAIN Tail(s) : i + 1 \in DOMAIN s /\ i + 1 # 1 /\ Tail(s)[i] = s[i + 1]
<1> DEFINE S == {s[i] : i \in DOMAIN s}
<1>1. s \in Seq(S)
  BY DEF IsSequence
<1>2. /\ Head(s) = s[1]
      /\ Tail(s) \in Seq(S)
      /\ Len(Tail(s)) = Len(s) - 1
      /\ \A i \in 1 .. Len(Tail(s)) : Tail(s)[i] = s[i + 1]
  BY <1>1, HeadTailProperties
<1>3. /\ DOMAIN s = 1 .. Len(s) /\ Len(s) \in Nat /\ Len(s) # 0
      /\ DOMAIN Tail(s) = 1 .. Len(Tail(s))
  BY <1>1, <1>2, LenProperties, EmptySeq
<1> QED
  BY <1>2, <1>3

\* An unbroken scan is recorded behind the others; a scan that runs into the
\* close has ruled the next segment out.
LEMMA StepCovered ==
  ASSUME CoveredInv, NEW c \in Clients, At(c, "scan"),
         NEW scan,
         scan.kind = "object" =>
           \/ scan.resume = None /\ scan.members = <<>>
           \/ \E first \in 1 .. Len(Entries(scan.value_start)) + 1 :
                /\ Unbroken(scan.value_start, first, scan.members, scan.resume)
                /\ \/ first = 1
                   \/ /\ task[c].record = <<>>
                      /\ Held(nodes, Key(task[c].anchor, task[c].path, scan.seg), scan.value_start, first),
         NEW to, Step(c, scan, to),
         to = None => /\ task[c].seg < Len(task[c].path)
                      /\ StopsAbsent(task[c].anchor, task[c].path, task[c].seg, Container(c)),
         UNCHANGED nodes
  PROVE  DensePrefix' /\ TaskCovered(nodes', task'[c])
<1> DEFINE t == task[c]
           record == Append(t.record, scan)
           start == IF to = None THEN Container(c) ELSE to
           u == [t EXCEPT
                  !.record = record,
                  !.seed = None,
                  !.seg = IF to = None THEN t.seg ELSE t.seg + 1,
                  !.start = start,
                  !.pc = IF to = None THEN "write" ELSE "scan",
                  !.status = IF to = None THEN "absent" ELSE "none"]
<1>1. /\ TaskCovered(nodes, t) /\ TaskOK(t) /\ TypeInv /\ t.pc = "scan" /\ DensePrefix
      /\ IsSequence(t.record)
  BY TaskFacts DEF CoveredInv, SoundInv, At, TaskOK
<1>2. task' = [task EXCEPT ![c] = u]
  BY DEF Step
<1>3. /\ Len(t.record) \in Nat /\ DOMAIN t.record = 1 .. Len(t.record)
      /\ DOMAIN record = 1 .. Len(t.record) + 1
      /\ \A i \in 1 .. Len(t.record) : record[i] = t.record[i]
      /\ record[Len(t.record) + 1] = scan
      /\ t.record = <<>> => Len(t.record) = 0
  BY <1>1, AppendAt, EmptySeq
<1> HIDE DEF t, record, start
<1>4. /\ u.anchor = t.anchor /\ u.path = t.path /\ u.record = record /\ u.seed = None
      /\ u.seg = (IF to = None THEN t.seg ELSE t.seg + 1)
      /\ u.start = start
      /\ u.pc = (IF to = None THEN "write" ELSE "scan")
      /\ u.status = (IF to = None THEN "absent" ELSE "none")
  BY <1>1 DEF TaskOK, IdleTask
<1> HIDE DEF u
<1>5. ASSUME NEW i \in DOMAIN u.record PROVE ScanCovered(nodes', u, i)
  <2>1. CASE i \in 1 .. Len(t.record)
    <3>1. ScanCovered(nodes, t, i)
      BY <1>1, <1>3, <2>1 DEF TaskCovered
    <3>2. u.record[i] = t.record[i]
      BY <1>3, <1>4, <2>1
    <3> QED
      BY <1>4, <3>1, <3>2 DEF ScanCovered
  <2>2. CASE i = Len(t.record) + 1
    <3>1. u.record[i] = scan /\ (t.record = <<>> => i = 1)
      BY <1>3, <1>4, <2>2
    <3> QED
      BY <1>4, <3>1 DEF ScanCovered, t
  <2> QED
    BY <1>3, <1>4, <2>1, <2>2
<1>6. AbsentIsTrue(u)
  <2>1. CASE to = None
    BY <1>4, <2>1 DEF AbsentIsTrue, t, start
  <2>2. CASE to # None
    BY <1>4, <2>2 DEF AbsentIsTrue
  <2> QED
    BY <2>1, <2>2
<1>7. FaultIsTrue(u)
  BY <1>4 DEF FaultIsTrue
<1>8. TaskCovered(nodes', u)
  BY <1>4, <1>5, <1>6, <1>7 DEF TaskCovered, SeedCovered
<1> QED
  BY <1>1, <1>2, <1>8, OwnTask, QuietDense DEF t

\* An object scan from where the table ends is unbroken, and one that finds no
\* member of the name has seen, or has a table of, all the members.
LEMMA ScanObjectCovered ==
  ASSUME RootStart = 0, CoveredInv, NEW c \in Clients, ScanObject(c)
  PROVE  DensePrefix' /\ TaskCovered(nodes', task'[c])
<1> DEFINE t == task[c]
           v == Container(c)
           entries == Entries(v)
           segment == t.path[t.seg + 1]
           key == Key(t.anchor, t.path, t.seg)
<1>1. /\ At(c, "scan") /\ v \in DOMAIN Doc /\ Doc[v].kind = "object" /\ IsMember(segment)
      /\ t.seg < Len(t.path) /\ UNCHANGED nodes
  BY DEF ScanObject, IsContainer
<1>2. /\ SoundInv /\ TaskCovered(nodes, t)
      /\ ScannedStart(c) = v /\ Leads(t.anchor, t.path, t.seg, v) /\ v = t.start
      /\ t.seed # None => t.seed.kind = "object"
  BY <1>1, ScannedTruth, SoundFacts DEF CoveredInv
<1>3. Len(entries) \in Nat /\ DOMAIN entries = 1 .. Len(entries) /\ entries \in Seq(Entry)
  BY <1>1, ContainerFacts
<1>4. PICK first \in 1 .. Len(entries) + 1 :
        LET matches == {i \in first .. Len(entries) : entries[i].name = segment.member}
        IN  /\ StandsAt(v, first, ScanFrom(c))
            /\ \/ \E i \in matches : Step(c, ObjectScan(c, first, i, entries[i].at), entries[i].value)
               \/ /\ matches = {}
                  /\ Step(c, ObjectScan(c, first, Len(entries), Doc[v].close), None)
  BY DEF ScanObject
<1>5. \/ first = 1
      \/ /\ t.record = <<>> /\ Held(nodes, key, v, first)
         /\ \A n \in 1 .. first - 1 : entries[n].name # segment.member
  <2>1. CASE t.seed = None
    <3>1. StandsAt(v, 1, ScanFrom(c))
      BY <1>1, <1>2, <2>1, ScannedTruth
    <3> QED
      BY <1>1, <1>4, <3>1, StandsOnce
  <2>2. CASE t.seed # None
    <3>1. /\ t.record = <<>>
          /\ \E p \in 1 .. Len(entries) + 1 :
               /\ StandsAt(v, p, t.seed.offset)
               /\ Held(nodes, key, v, p)
               /\ \A n \in 1 .. p - 1 : entries[n].name # segment.member
      BY <1>1, <1>2, <2>2 DEF TaskCovered, SeedCovered, At
    <3>2. ScanFrom(c) = t.seed.offset
      BY <2>2 DEF ScanFrom
    <3>3. Held(nodes, key, v, first) /\ \A n \in 1 .. first - 1 : entries[n].name # segment.member
      BY <1>1, <1>4, <3>1, <3>2, StandsOnce
    <3> QED
      BY <3>1, <3>3
  <2> QED
    BY <2>1, <2>2
<1>6. first \in Nat \ {0}
  BY <1>3
<1>7. ASSUME NEW to \in 0 .. Len(entries), first <= to + 1, NEW resume,
             NEW p \in 1 .. Len(entries) + 1, StandsAt(v, p, resume), p <= to + 1
      PROVE  LET scan == ObjectScan(c, first, to, resume)
             IN  /\ scan.seg = t.seg /\ scan.value_start = v
                 /\ \/ scan.resume = None /\ scan.members = <<>>
                    \/ Unbroken(v, first, scan.members, scan.resume)
  <2> DEFINE seen == SubSeq(entries, first, to)
  <2>1. \A n \in first .. to : entries[n] \in Entry
    BY <1>3, <1>6, ElementOfSeq
  <2>2. /\ \A j \in DOMAIN seen : j \in 1 .. Len(seen) /\ seen[j] = entries[first + j - 1]
        /\ Len(seen) = to - first + 1
    BY <1>3, <1>6, <1>7, <2>1, SubSeqProperties
  <2> HIDE DEF seen
  <2>3. Unbroken(v, first, seen, resume)
    BY <1>3, <1>6, <1>7, <2>2 DEF Unbroken
  <2>4. \/ ObjectScan(c, first, to, resume) = Scan(t.seg, "object", v, seen, resume)
        \/ ObjectScan(c, first, to, resume) = Scan(t.seg, "object", v, <<>>, None)
    BY <1>2 DEF ObjectScan, seen
  <2> QED
    BY <2>3, <2>4 DEF Scan
<1>8. ASSUME NEW i \in first .. Len(entries),
             Step(c, ObjectScan(c, first, i, entries[i].at), entries[i].value)
      PROVE  DensePrefix' /\ TaskCovered(nodes', task'[c])
  <2>1. i \in 1 .. Len(entries) /\ i \in 1 .. Len(entries) + 1 /\ i \in 0 .. Len(entries) /\ first <= i + 1 /\ i <= i + 1
    BY <1>3, <1>6
  <2>2. StandsAt(v, i, entries[i].at) /\ entries[i].value # None
    BY <1>1, <2>1, EntryPlace, NoneAssumption DEF StandsAt
  <2> DEFINE scan == ObjectScan(c, first, i, entries[i].at)
  <2>3. /\ scan.seg = t.seg /\ scan.value_start = v
        /\ \/ scan.resume = None /\ scan.members = <<>>
           \/ Unbroken(v, first, scan.members, scan.resume)
    BY <1>7, <2>1, <2>2
  <2> HIDE DEF scan
  <2> QED
    BY <1>1, <1>5, <1>8, <2>2, <2>3, StepCovered DEF scan
<1>9. ASSUME \A i \in first .. Len(entries) : entries[i].name # segment.member,
             Step(c, ObjectScan(c, first, Len(entries), Doc[v].close), None)
      PROVE  DensePrefix' /\ TaskCovered(nodes', task'[c])
  <2> DEFINE scan == ObjectScan(c, first, Len(entries), Doc[v].close)
  <2>1. /\ scan.seg = t.seg /\ scan.value_start = v
        /\ \/ scan.resume = None /\ scan.members = <<>>
           \/ Unbroken(v, first, scan.members, scan.resume)
    <3>1. StandsAt(v, Len(entries) + 1, Doc[v].close) /\ Len(entries) + 1 \in 1 .. Len(entries) + 1
      BY <1>3 DEF StandsAt
    <3>2. Len(entries) \in 0 .. Len(entries) /\ first <= Len(entries) + 1
      BY <1>3
    <3> QED
      BY <1>3, <1>7, <3>1, <3>2
  <2>2. ASSUME NEW i \in DOMAIN entries PROVE ~ Addresses(v, i, segment)
    <3>1. entries[i].name # segment.member
      <4>1. CASE i < first
        <5>1. first # 1 /\ i \in 1 .. first - 1
          BY <1>3, <1>6, <4>1
        <5> QED
          BY <1>5, <5>1
      <4>2. CASE ~ (i < first)
        BY <1>3, <1>6, <1>9, <4>2
      <4> QED
        BY <4>1, <4>2
    <3> QED
      BY <1>1, <3>1 DEF Addresses
  <2>3. StopsAbsent(t.anchor, t.path, t.seg, v)
    BY <1>1, <1>2, <2>2 DEF StopsAbsent, IsContainer, KindMatches, KindOf
  <2> HIDE DEF scan
  <2> QED
    BY <1>1, <1>5, <1>9, <2>1, <2>3, StepCovered DEF scan
<1> QED
  BY <1>4, <1>8, <1>9

\* An array scan that does not reach its target has run off the array's end.
LEMMA ScanArrayCovered ==
  ASSUME RootStart = 0, CoveredInv, NEW c \in Clients, ScanArray(c)
  PROVE  DensePrefix' /\ TaskCovered(nodes', task'[c])
<1> DEFINE t == task[c]
           v == Container(c)
           entries == Entries(v)
           segment == t.path[t.seg + 1]
           target == segment.element
           base == IF t.seed = None THEN 0 ELSE t.seed.index
<1>1. /\ At(c, "scan") /\ t.seg < Len(t.path) /\ v \in DOMAIN Doc /\ Doc[v].kind = "array"
      /\ ~ IsMember(segment) /\ UNCHANGED nodes
  BY DEF ScanArray, IsContainer
<1>2. /\ SoundInv /\ TaskCovered(nodes, t) /\ Leads(t.anchor, t.path, t.seg, v)
      /\ t.seg \in Nat /\ TaskOK(t)
      /\ t.path \in Seq(Segment) /\ Len(t.path) \in Nat
  BY <1>1, ScannedTruth, SoundFacts DEF CoveredInv
<1>3. target \in Nat
  <2>1. segment \in Segment
    BY <1>1, <1>2, LenProperties
  <2> QED
    BY <1>1, <2>1 DEF Segment, IsMember
<1>4. base \in Nat /\ base <= target /\ StandsAt(v, base + 1, ScanFrom(c))
  <2>1. CASE t.seed = None
    BY <1>1, <1>2, <1>3, <2>1, ScannedTruth
  <2>2. CASE t.seed # None
    <3>1. t.seed.kind = "array" /\ StandsAt(v, t.seed.index + 1, ScanFrom(c))
      BY <1>1, <1>2, <2>2, ScannedTruth
    <3>2. t.seed.index \in Nat
      BY <1>2, <2>2 DEF TaskOK, Seeds
    <3>3. t.seed.index <= target
      BY <1>1, <1>2, <2>2, <3>1 DEF TaskCovered, SeedCovered, At
    <3> QED
      BY <2>2, <3>1, <3>2, <3>3
  <2> QED
    BY <2>1, <2>2
<1>5. Len(entries) \in Nat /\ DOMAIN entries = 1 .. Len(entries)
  BY <1>1, ContainerFacts
<1> HIDE DEF base, target
<1>6. PICK scan : /\ scan.kind = "array"
                  /\ \/ target + 1 <= Len(entries) /\ Step(c, scan, entries[target + 1].value)
                     \/ Len(entries) < target + 1 /\ Step(c, scan, None)
  <2> DEFINE Position(f, i) == f + (i - base)
             Reached_(f) == {i \in base .. target : Position(f, i) <= Len(entries)}
             Chosen(f) == {i \in Reached_(f) : /\ ArrayInterval > 0
                                               /\ \/ i = target
                                                  \/ i > base /\ i % ArrayInterval = 0}
             Recorded(f) == Scan(t.seg, "array", ScannedStart(c),
                                 [i \in Chosen(f) |-> entries[Position(f, i)].at], None)
  <2>1. PICK first \in 1 .. Len(entries) + 1 :
          /\ StandsAt(v, first, ScanFrom(c))
          /\ \/ target \in Reached_(first) /\ Step(c, Recorded(first), entries[Position(first, target)].value)
             \/ target \notin Reached_(first) /\ Step(c, Recorded(first), None)
    BY DEF ScanArray, base, target
  <2>2. first = base + 1
    BY <1>1, <1>4, <2>1, StandsOnce
  <2>3. Position(first, target) = target + 1 /\ target \in base .. target
    BY <1>3, <1>4, <2>2
  <2>4. Recorded(first).kind = "array"
    BY DEF Scan
  <2>5. /\ target \in Reached_(first) => target + 1 <= Len(entries)
        /\ target \notin Reached_(first) => Len(entries) < target + 1
    BY <1>3, <1>5, <2>3
  <2> HIDE DEF Position, Reached_, Recorded
  <2> QED
    BY <2>1, <2>3, <2>4, <2>5
<1>7. CASE target + 1 <= Len(entries) /\ Step(c, scan, entries[target + 1].value)
  <2>1. target + 1 \in 1 .. Len(entries)
    BY <1>3, <1>5, <1>7
  <2>2. entries[target + 1].value # None
    BY <1>1, <2>1, EntryPlace, NoneAssumption
  <2>3. scan.kind # "object"
    BY <1>6
  <2> QED
    BY <1>1, <1>7, <2>2, <2>3, StepCovered
<1>8. CASE Len(entries) < target + 1 /\ Step(c, scan, None)
  <2>1. ASSUME NEW i \in DOMAIN entries PROVE ~ Addresses(v, i, segment)
    <3>1. i # target + 1
      BY <1>3, <1>5, <1>8
    <3> QED
      BY <1>1, <3>1 DEF Addresses, target
  <2>2. StopsAbsent(t.anchor, t.path, t.seg, v)
    BY <1>1, <1>2, <2>1 DEF StopsAbsent, IsContainer, KindMatches, KindOf
  <2>3. scan.kind # "object"
    BY <1>6
  <2> QED
    BY <1>1, <1>8, <2>2, <2>3, StepCovered
<1> QED
  BY <1>6, <1>7, <1>8

\* A path resolved or a segment that cannot be applied, with the record as it is.
LEMMA ScanDoneCovered ==
  ASSUME RootStart = 0, CoveredInv, NEW c \in Clients, ScanDone(c) \/ ScanFault(c)
  PROVE  DensePrefix' /\ TaskCovered(nodes', task'[c])
<1> DEFINE t == task[c]
<1>1. PICK status \in {"found", "fault"} :
        /\ task' = [task EXCEPT ![c].pc = "write", ![c].status = status]
        /\ status = "fault" =>
             /\ t.seg < Len(t.path)
             /\ ~ (IsContainer(Container(c)) /\ KindMatches(Container(c), t.path[t.seg + 1]))
  BY DEF ScanDone, ScanFault
<1>2. /\ TaskCovered(nodes, t) /\ TaskTruthful(t) /\ TaskOK(t) /\ t.pc = "scan" /\ TypeInv
      /\ DensePrefix /\ UNCHANGED nodes
  BY SoundFacts DEF CoveredInv, ScanDone, ScanFault, At
<1> DEFINE u == [t EXCEPT !.pc = "write", !.status = status]
<1>3. task' = [task EXCEPT ![c] = u]
  BY <1>1
<1>4. status = "fault" => t.seg < Len(t.path) /\ StopsFaulty(t.anchor, t.path, t.seg, t.start)
  BY <1>1, <1>2 DEF StopsFaulty, TaskTruthful, Container
<1> HIDE DEF t
<1>5. /\ u.pc = "write" /\ u.status = status /\ u.record = t.record /\ u.seg = t.seg
      /\ u.start = t.start /\ u.anchor = t.anchor /\ u.path = t.path
  BY <1>2 DEF TaskOK, IdleTask
<1> HIDE DEF u
<1>6. AbsentIsTrue(u) /\ FaultIsTrue(u)
  BY <1>1, <1>4, <1>5 DEF AbsentIsTrue, FaultIsTrue
<1>7. \A i \in DOMAIN u.record : ScanCovered(nodes', u, i)
  BY <1>2, <1>5 DEF TaskCovered, ScanCovered
<1>8. TaskCovered(nodes', u)
  BY <1>5, <1>6, <1>7 DEF TaskCovered, SeedCovered
<1> QED
  BY <1>2, <1>3, <1>8, OwnTask, QuietDense

\* The head of a record is merged into a table that covers what is in front of
\* it: the node that gave the seed is there still.
LEMMA ApplyCovered ==
  ASSUME RootStart = 0, CoveredInv, NEW c \in Clients, task[c].pc = "write",
         task[c].record # <<>>, Apply(c, Head(task[c].record))
  PROVE  DensePrefix'
<1> DEFINE t == task[c]
           scan == t.record[1]
           key == ScanKey(c, scan)
           v == scan.value_start
<1>1. /\ t.anchor \in Nat /\ t.depth \in Nat /\ t.path \in Seq(Segment)
      /\ CacheTruthful /\ IndexTypeOK /\ DensePrefix /\ TaskTruthful(t) /\ TaskOK(t) /\ TaskCovered(nodes, t)
  BY SoundFacts DEF CoveredInv
<1>2. 1 \in DOMAIN t.record /\ Head(t.record) = scan
  BY <1>1, TailAt DEF TaskOK
<1>3. /\ ScanOK(scan) /\ scan.seg \in 0 .. Len(t.path) /\ ScanTruthful(t, scan) /\ ScanCovered(nodes, t, 1)
  <2>1. ScanOK(scan) /\ scan.seg <= Len(t.path) /\ ScanTruthful(t, scan) /\ ScanCovered(nodes, t, 1)
    BY <1>1, <1>2 DEF TaskOK, TaskTruthful, TaskCovered
  <2> QED
    BY <1>1, <2>1, LenProperties DEF ScanOK
<1>4. key \in Keys
  BY <1>1, <1>3, KeyType DEF ScanKey
<1>5. v \in DOMAIN Doc /\ Doc[v].kind = scan.kind /\ v \in Nat
  BY <1>3, ContainerFacts DEF ScanTruthful
<1>6. Leads(key[1], key[2], Len(key[2]), v)
  BY <1>1, <1>3, KeyLeads DEF ScanTruthful, ScanKey
<1>7. \/ /\ scan.kind = "object" /\ ~ (scan.members = <<>> /\ scan.resume = None)
         /\ MergeObjectScan(key, v, t.depth, scan.members, scan.resume)
      \/ scan.kind = "array"
          /\ MergeArrayScan(key, v, t.depth, scan.members)
      \/ UNCHANGED nodes
  BY <1>2 DEF Apply, indexVars
<1>8. CASE scan.kind = "array" /\ MergeArrayScan(key, v, t.depth, scan.members)
  <2>1. IsTable(scan.members) /\ DOMAIN scan.members \subseteq Nat
    BY <1>3, <1>8 DEF ScanOK
  <2> HIDE DEF key, scan, v, t
  <2> QED
    BY <1>1, <1>4, <1>5, <1>8, <2>1, MergeArrayScanDense
<1>9. CASE /\ scan.kind = "object" /\ ~ (scan.members = <<>> /\ scan.resume = None)
           /\ MergeObjectScan(key, v, t.depth, scan.members, scan.resume)
  <2>1. PICK first \in 1 .. Len(Entries(v)) + 1 :
          /\ Unbroken(v, first, scan.members, scan.resume)
          /\ first = 1 \/ Held(nodes, key, v, first)
    BY <1>3, <1>9 DEF ScanCovered, ScanKey
  <2>2. scan.members \in Seq(NamedEntry) /\ scan.resume \in Nat
    <3>1. scan.members \in Seq(NamedEntry) /\ scan.resume \in Nat \cup {None}
      BY <1>3, <1>9 DEF ScanOK
    <3>2. PICK p \in 1 .. Len(Entries(v)) + 1 : StandsAt(v, p, scan.resume)
      BY <2>1 DEF Unbroken
    <3>3. scan.resume \in Nat
      <4>1. CASE p <= Len(Entries(v))
        <5>1. p \in 1 .. Len(Entries(v))
          BY <1>5, <4>1, ContainerFacts
        <5> QED
          BY <1>5, <3>2, <4>1, <5>1, EntryPlace DEF StandsAt
      <4>2. CASE ~ (p <= Len(Entries(v)))
        BY <1>5, <3>2, <4>2, ContainerFacts DEF StandsAt
      <4> QED
        BY <4>1, <4>2
    <3> QED
      BY <3>1, <3>3
  <2> DEFINE known == NodeFor(key, "object", v, t.depth)
             node == MergeObject(known, scan.members, scan.resume)
  <2>3. NodeOK(known) /\ known.value_start = v /\ known.kind = "object"
    <3> HIDE DEF key, scan, v, t
    <3> QED
      BY <1>1, <1>4, <1>5, <1>6, <1>9, NodeForTruth
  <2>4. NodeDense(known)
    BY <1>1, <1>5, NodeForDense
  <2>5. Covers(known, v, first)
    <3>1. CASE first = 1
      BY <3>1 DEF Covers
    <3>2. CASE Held(nodes, key, v, first)
      BY <3>2, KnownNode DEF Held
    <3> QED
      BY <2>1, <3>1, <3>2
  <2> HIDE DEF known, key, scan, v, t
  <2>6. NodeOK(node)
    BY <2>2, <2>3, MergeObjectType
  <2>7. NodeDense(node)
    BY <1>5, <2>1, <2>2, <2>3, <2>4, <2>5, MergeObjectDense
  <2> HIDE DEF node
  <2>8. CASE IsEnabled
    BY <1>1, <1>9, <2>6, <2>7, <2>8, PutDense DEF MergeObjectScan, known, node
  <2>9. CASE ~ IsEnabled
    BY <1>1, <1>9, <2>9, QuietDense DEF MergeObjectScan, indexVars
  <2> QED
    BY <2>8, <2>9
<1> QED
  BY <1>1, <1>7, <1>8, <1>9, QuietDense

\* What is left of a record is unbroken from the first member on, so that the
\* evictions of its own earlier writes do it no harm.
LEMMA WriteBackCovered ==
  ASSUME RootStart = 0, CoveredInv, NEW c \in Clients, WriteBack(c)
  PROVE  DensePrefix' /\ TaskCovered(nodes', task'[c])
<1> DEFINE t == task[c]
<1>1. /\ TaskCovered(nodes, t) /\ TaskTruthful(t) /\ TaskOK(t) /\ t.pc = "write" /\ TypeInv
      /\ DensePrefix /\ IsSequence(t.record)
  BY SoundFacts DEF CoveredInv, WriteBack, At, TaskOK
<1>2. AfterLocate(t) \notin {"lookup", "scan", "write"}
  BY DEF AfterLocate
<1>3. AbsentIsTrue(t) /\ FaultIsTrue(t) /\ \A i \in DOMAIN t.record : ScanCovered(nodes, t, i)
  BY <1>1 DEF TaskCovered
<1>4. CASE t.record = <<>>
  <2> DEFINE u == [t EXCEPT !.pc = AfterLocate(t)]
  <2>1. task' = [task EXCEPT ![c] = u] /\ UNCHANGED nodes
    BY <1>4 DEF WriteBack
  <2> HIDE DEF t
  <2>2. /\ u.pc = AfterLocate(t) /\ u.seg = t.seg /\ u.start = t.start /\ u.op = t.op
        /\ u.anchor = t.anchor /\ u.path = t.path /\ u.status = t.status
    BY <1>1 DEF TaskOK, IdleTask
  <2> HIDE DEF u
  <2>3. TaskCovered(nodes', u)
    BY <1>2, <1>3, <2>2 DEF TaskCovered, SeedCovered, AbsentIsTrue, FaultIsTrue
  <2> QED
    BY <1>1, <2>1, <2>3, OwnTask, QuietDense
<1>5. CASE t.record # <<>>
  <2>1. /\ Apply(c, Head(t.record))
        /\ task' = [task EXCEPT ![c].record = Tail(t.record),
                                ![c].pc = IF Len(t.record) = 1 THEN AfterLocate(t) ELSE @]
    BY <1>5 DEF WriteBack
  <2>2. DensePrefix'
    BY <1>1, <1>5, <2>1, ApplyCovered
  <2> DEFINE u == [t EXCEPT !.record = Tail(t.record),
                            !.pc = IF Len(t.record) = 1 THEN AfterLocate(t) ELSE "write"]
  <2>3. task' = [task EXCEPT ![c] = u]
    BY <1>1, <2>1
  <2> HIDE DEF t
  <2>4. /\ u.pc \in {"write", AfterLocate(t)} /\ u.record = Tail(t.record)
        /\ u.seg = t.seg /\ u.start = t.start /\ u.op = t.op
        /\ u.anchor = t.anchor /\ u.path = t.path /\ u.status = t.status
    BY <1>1 DEF TaskOK, IdleTask
  <2> HIDE DEF u
  <2>5. ASSUME NEW i \in DOMAIN u.record PROVE ScanCovered(nodes', u, i)
    <3>1. i + 1 \in DOMAIN t.record /\ i + 1 # 1 /\ u.record[i] = t.record[i + 1]
      BY <1>1, <1>5, <2>4, TailAt
    <3>2. ScanCovered(nodes, t, i + 1)
      BY <1>3, <3>1
    <3> QED
      BY <3>1, <3>2 DEF ScanCovered
  <2>6. AbsentIsTrue(u) /\ FaultIsTrue(u)
    BY <1>3, <2>4 DEF AbsentIsTrue, FaultIsTrue
  <2>7. TaskCovered(nodes', u)
    BY <1>2, <2>4, <2>5, <2>6 DEF TaskCovered, SeedCovered
  <2> QED
    BY <1>1, <2>2, <2>3, <2>7, OwnTask
<1> QED
  BY <1>4, <1>5

(***************************************************************************)
(* Calls whose containers are spared: past the write-back.                 *)
(***************************************************************************)

\* What a call past its write-back knows, and the shape of its task.
LEMMA LaterFacts ==
  ASSUME RootStart = 0, CoveredInv, NEW c \in Clients,
         task[c].pc \in {"close", "extent", "deliver", "enter", "iterate", "landmarks"}
  PROVE  /\ c \in DOMAIN task /\ TaskOK(task[c])
         /\ {"pc", "status", "start", "end", "idx", "marks"} \subseteq DOMAIN task[c]
         /\ task[c].status = "found" /\ DensePrefix /\ SoundInv
<1>1. TaskOK(task[c]) /\ TypeInv
  BY SoundFacts DEF CoveredInv
<1>2. task[c].status = "found"
  BY TargetFacts DEF CoveredInv
<1>3. {"pc", "status", "start", "end", "idx", "marks"} \subseteq DOMAIN task[c]
  BY <1>1 DEF TaskOK, IdleTask
<1> QED
  BY <1>1, <1>2, <1>3 DEF TypeInv, TypeOK, CoveredInv

\* A failed read answers nothing, and a last read answers what was located.
LEMMA LastReadCovered ==
  ASSUME RootStart = 0, CoveredInv, NEW c \in Clients, ReadFails(c) \/ Deliver(c)
  PROVE  DensePrefix' /\ TaskCovered(nodes', task'[c])
<1>1. PICK status \in {"failed", "found"} :
        task' = [task EXCEPT ![c].pc = "done", ![c].status = status]
  BY DEF ReadFails, Deliver, Finish
<1>2. /\ TaskOK(task[c]) /\ TypeInv /\ DensePrefix /\ UNCHANGED nodes
  BY SoundFacts DEF CoveredInv, ReadFails, Deliver
<1>3. task'[c].pc = "done" /\ task'[c].status = status
  BY <1>1, <1>2 DEF TaskOK, IdleTask, TypeInv, TypeOK
<1> QED
  BY <1>2, <1>3, LaterCovered, QuietDense

\* A close read from the index.
LEMMA CachedCloseCovered ==
  ASSUME RootStart = 0, CoveredInv, NEW c \in Clients, CachedClose(c)
  PROVE  DensePrefix' /\ TaskCovered(nodes', task'[c])
<1>1. task[c].pc = "close" /\ UNCHANGED nodes
  BY DEF CachedClose, At
<1>2. /\ c \in DOMAIN task /\ {"pc", "status", "start", "end"} \subseteq DOMAIN task[c]
      /\ task[c].status = "found" /\ DensePrefix
  BY <1>1, LaterFacts
<1>3. task'[c].pc \in {"done", "deliver", "extent"} /\ task'[c].status = "found"
  BY <1>2 DEF CachedClose, Located
<1> QED
  BY <1>1, <1>2, <1>3, LaterCovered, QuietDense

\* An extent walked, and a container's close remembered.
LEMMA ExtentCovered ==
  ASSUME RootStart = 0, CoveredInv, NEW c \in Clients, Extent(c)
  PROVE  DensePrefix' /\ TaskCovered(nodes', task'[c])
<1> DEFINE t == task[c]
           v == Container(c)
<1>1. t.pc = "extent"
  BY DEF Extent, At
<1>2. /\ c \in DOMAIN task /\ {"pc", "status", "start", "end"} \subseteq DOMAIN t
      /\ t.status = "found" /\ DensePrefix /\ SoundInv
  BY <1>1, LaterFacts
<1>3. t'.pc \in {"done", "deliver"} /\ t'.status = "found"
  BY <1>2 DEF Extent, Located
<1>4. CASE IsEnabled /\ IsContainer(v)
  <2>1. /\ v = t.start /\ t.depth \in Nat /\ IndexTypeOK /\ TargetKey(c) \in Keys
    BY <1>1, <1>2, TargetFacts, SoundFacts
  <2>2. v \in DOMAIN Doc /\ ValueEnd(t.start) = Doc[v].close + 1
    BY <1>4, <2>1 DEF ValueEnd, IsContainer
  <2>3. Doc[v].kind \in Kinds /\ Doc[v].close + 1 \in Nat
    BY <2>2, ContainerFacts DEF Kinds
  <2>4. StoreClose(TargetKey(c), Doc[v].kind, v, t.depth, Doc[v].close + 1)
    BY <1>4, <2>1, <2>2 DEF Extent
  <2> HIDE DEF v, t
  <2>5. DensePrefix'
    BY <1>2, <2>1, <2>2, <2>3, <2>4, StoreCloseDense
  <2> QED
    BY <1>3, <2>5, LaterCovered DEF t
<1>5. CASE ~ (IsEnabled /\ IsContainer(v))
  <2>1. UNCHANGED nodes
    BY <1>5 DEF Extent, indexVars
  <2> QED
    BY <1>2, <1>3, <2>1, LaterCovered, QuietDense
<1> QED
  BY <1>4, <1>5

\* An iter is let into a container and turned away from anything else.
LEMMA EnterCovered ==
  ASSUME RootStart = 0, CoveredInv, NEW c \in Clients, Enter(c)
  PROVE  DensePrefix' /\ TaskCovered(nodes', task'[c])
<1> DEFINE t == task[c]
<1>1. t.pc = "enter" /\ UNCHANGED nodes
  BY DEF Enter, At
<1>2. /\ c \in DOMAIN task /\ TaskOK(t) /\ {"pc", "status", "start", "end"} \subseteq DOMAIN t
      /\ t.status = "found" /\ DensePrefix
  BY <1>1, LaterFacts
<1>3. TypeInv /\ TaskTruthful(t) /\ Container(c) = t.start
  BY SoundFacts DEF CoveredInv
<1>4. CASE IsContainer(Container(c))
  <2>1. task' = [task EXCEPT ![c].pc = "iterate"]
    BY <1>4 DEF Enter
  <2>2. task'[c].pc = "iterate" /\ task'[c].status = "found"
    BY <1>2, <2>1
  <2> QED
    BY <1>1, <1>2, <2>2, LaterCovered, QuietDense
<1>5. CASE ~ IsContainer(Container(c))
  <2> DEFINE u == [t EXCEPT !.pc = "done", !.status = "fault"]
  <2>1. task' = [task EXCEPT ![c] = u]
    BY <1>5 DEF Enter, Finish
  <2>2. /\ t.op = "iter" /\ t.seg = Len(t.path) /\ Leads(t.anchor, t.path, t.seg, t.start)
    BY <1>1, <1>2, <1>3 DEF TaskTruthful
  <2>3. ~ IsContainer(SkipWhitespace(t.start)) /\ ~ (t.seg < Len(t.path))
    <3>1. Len(t.path) \in Nat
      BY SoundFacts DEF CoveredInv
    <3> QED
      BY <1>5, <2>2, <3>1 DEF Container
  <2> HIDE DEF t
  <2>4. /\ u.pc = "done" /\ u.status = "fault" /\ u.op = t.op /\ u.seg = t.seg
        /\ u.start = t.start /\ u.anchor = t.anchor /\ u.path = t.path
    BY <1>2 DEF TaskOK, IdleTask
  <2> HIDE DEF u
  <2>5. FaultIsTrue(u) /\ AbsentIsTrue(u)
    BY <2>2, <2>3, <2>4 DEF FaultIsTrue, AbsentIsTrue
  <2>6. TaskCovered(nodes', u)
    BY <2>4, <2>5 DEF TaskCovered, SeedCovered
  <2> QED
    BY <1>1, <1>2, <1>3, <2>1, <2>6, OwnTask, QuietDense
<1> QED
  BY <1>4, <1>5

\* Landmarks that an iter stores leave every table dense.
LEMMA StoreLandmarksDense ==
  ASSUME RootStart = 0, CoveredInv, NEW c \in Clients, task[c].pc \in {"iterate", "landmarks"},
         NEW marks, IsTable(marks), DOMAIN marks \subseteq Nat, StoreLandmarks(c, marks)
  PROVE  DensePrefix'
<1>1. DensePrefix /\ SoundInv
  BY DEF CoveredInv
<1>2. CASE DOMAIN marks = {}
  BY <1>1, <1>2, QuietDense DEF StoreLandmarks, indexVars
<1>3. CASE DOMAIN marks # {}
  <2>1. MergeArrayScan(TargetKey(c), task[c].start, task[c].depth, marks)
    BY <1>3 DEF StoreLandmarks
  <2> QED
    BY <1>1, <2>1, ChildFacts, MergeArrayScanDense
<1> QED
  BY <1>2, <1>3

\* A batch passes children.
LEMMA FillBatchCovered ==
  ASSUME RootStart = 0, CoveredInv, NEW c \in Clients, FillBatch(c)
  PROVE  DensePrefix' /\ TaskCovered(nodes', task'[c])
<1>1. task[c].pc = "iterate"
  BY DEF FillBatch, At
<1>2. /\ c \in DOMAIN task /\ {"pc", "status", "idx"} \subseteq DOMAIN task[c]
      /\ task[c].status = "found" /\ SoundInv
  BY <1>1, LaterFacts
<1>3. /\ Container(c) = task[c].start /\ task[c].start \in DOMAIN Doc
      /\ task[c].idx \in Nat /\ Len(Entries(task[c].start)) \in Nat
  BY <1>1, <1>2, ChildFacts
<1>4. PICK to \in task[c].idx + 1 .. Len(Entries(task[c].start)) :
        /\ StoreLandmarks(c, Landmarks(task[c].start, task[c].idx, to))
        /\ task' = [task EXCEPT ![c].idx = to]
  BY <1>3 DEF FillBatch
<1> DEFINE marks == Landmarks(task[c].start, task[c].idx, to)
<1>5. IsTable(marks) /\ DOMAIN marks \subseteq Nat
  BY <1>3, <1>4, LandmarksTruth DEF ElementsOf
<1>6. DensePrefix'
  BY <1>1, <1>4, <1>5, StoreLandmarksDense
<1>7. task'[c].pc = "iterate" /\ task'[c].status = "found"
  BY <1>1, <1>2, <1>4
<1> QED
  BY <1>6, <1>7, LaterCovered

\* The end of a container is stored, and the landmarks of its last children
\* kept for the next step.
LEMMA ExhaustCovered ==
  ASSUME RootStart = 0, CoveredInv, NEW c \in Clients, Exhaust(c)
  PROVE  DensePrefix' /\ TaskCovered(nodes', task'[c])
<1> DEFINE t == task[c]
           v == t.start
<1>1. t.pc = "iterate"
  BY DEF Exhaust, At
<1>2. /\ c \in DOMAIN task /\ {"pc", "status", "idx", "marks"} \subseteq DOMAIN t
      /\ t.status = "found" /\ DensePrefix /\ SoundInv
  BY <1>1, LaterFacts
<1>3. /\ Container(c) = v /\ v \in DOMAIN Doc /\ t.depth \in Nat /\ IndexTypeOK
      /\ TargetKey(c) \in Keys
  BY <1>1, <1>2, ChildFacts
<1>4. Doc[v].kind \in Kinds /\ Doc[v].close + 1 \in Nat
  BY <1>3, ContainerFacts DEF Kinds
<1>5. StoreClose(TargetKey(c), Doc[v].kind, v, t.depth, Doc[v].close + 1)
  BY <1>3 DEF Exhaust
<1>6. task'[c].pc = "landmarks" /\ task'[c].status = "found"
  BY <1>2 DEF Exhaust
<1> HIDE DEF v, t
<1>7. DensePrefix'
  BY <1>2, <1>3, <1>4, <1>5, StoreCloseDense
<1> QED
  BY <1>6, <1>7, LaterCovered

\* Those landmarks are stored.
LEMMA LastLandmarksCovered ==
  ASSUME RootStart = 0, CoveredInv, NEW c \in Clients, LastLandmarks(c)
  PROVE  DensePrefix' /\ TaskCovered(nodes', task'[c])
<1>1. task[c].pc = "landmarks" /\ StoreLandmarks(c, task[c].marks)
  BY DEF LastLandmarks, At
<1>2. /\ c \in DOMAIN task /\ TaskOK(task[c]) /\ {"pc", "status", "marks"} \subseteq DOMAIN task[c]
      /\ task[c].status = "found"
  BY <1>1, LaterFacts
<1>3. DensePrefix'
  BY <1>1, <1>2, StoreLandmarksDense DEF TaskOK
<1>4. task'[c].pc = "done" /\ task'[c].status = "found"
  BY <1>2 DEF LastLandmarks
<1> QED
  BY <1>3, <1>4, LaterCovered

\* A consumer that stops leaves one landmark at most.
LEMMA BreakCovered ==
  ASSUME RootStart = 0, CoveredInv, NEW c \in Clients, Break(c)
  PROVE  DensePrefix' /\ TaskCovered(nodes', task'[c])
<1> DEFINE t == task[c]
           v == t.start
           next_offset == IF t.idx < Len(Entries(v)) THEN Entries(v)[t.idx + 1].at ELSE Doc[v].close
           marks == [i \in {t.idx} |-> next_offset]
<1>1. t.pc = "iterate"
  BY DEF Break, At
<1>2. /\ c \in DOMAIN task /\ {"pc", "status"} \subseteq DOMAIN t
      /\ t.status = "found" /\ DensePrefix /\ SoundInv
  BY <1>1, LaterFacts
<1>3. Container(c) = v /\ v \in DOMAIN Doc /\ t.idx \in Nat /\ Len(Entries(v)) \in Nat
  BY <1>1, <1>2, ChildFacts
<1>4. ASSUME Doc[v].kind = "array" /\ t.idx > 0 /\ IsEnabled PROVE DensePrefix'
  <2>1. StoreLandmarks(c, marks)
    BY <1>3, <1>4 DEF Break
  <2>2. next_offset \in Nat
    BY <1>3, EntryPlace, ContainerFacts
  <2> HIDE DEF next_offset
  <2>3. IsTable(marks) /\ DOMAIN marks \subseteq Nat
    BY <1>3, <2>2 DEF IsTable
  <2> QED
    BY <1>1, <2>1, <2>3, StoreLandmarksDense
<1>5. ASSUME ~ (Doc[v].kind = "array" /\ t.idx > 0 /\ IsEnabled) PROVE DensePrefix'
  <2>1. UNCHANGED nodes
    BY <1>3, <1>5 DEF Break, indexVars
  <2> QED
    BY <1>2, <2>1, QuietDense
<1>6. task'[c].pc = "done" /\ task'[c].status = "found"
  BY <1>2 DEF Break, Finish
<1> QED
  BY <1>4, <1>5, <1>6, LaterCovered

(***************************************************************************)
(* Calls whose containers are spared: the theorems.                        *)
(***************************************************************************)

\* An open document with no call in flight has tabled nothing.
LEMMA InitCovered ==
  ASSUME RootStart = 0, SessionInit
  PROVE  CoveredInv
<1>1. SoundInv
  BY InitTruth
<1>2. DensePrefix
  BY DEF SessionInit, IndexInit, DensePrefix
<1>3. TaskCovered(nodes, IdleTask)
  BY LaterCovered DEF IdleTask
<1> QED
  BY <1>1, <1>2, <1>3 DEF CoveredInv, SessionInit

\* What a node covered it covers still, if it is still there.
LEMMA HeldStays ==
  ASSUME IndexKeeps, NEW key, NEW v, NEW p, Held(nodes, key, v, p), key \in DOMAIN nodes'
  PROVE  Held(nodes', key, v, p)
BY DEF Held, Covers, IndexKeeps, Keeps

\* What a call knows stays true over the steps of others, which only add to the
\* nodes they leave in place, as long as they leave those it relies on.
LEMMA OtherCovered ==
  ASSUME IndexKeeps, NEW t, TaskCovered(nodes, t),
         \A k \in DOMAIN nodes : ReliesOn(t, k) => k \in DOMAIN nodes'
  PROVE  TaskCovered(nodes', t)
<1>1. SeedCovered(nodes', t)
  <2> DEFINE key == Key(t.anchor, t.path, t.seg)
  <2> SUFFICES ASSUME t.pc = "scan", t.seed # None PROVE SeedCovered(nodes', t)
    BY DEF SeedCovered
  <2>1. SeedCovered(nodes, t)
    BY DEF TaskCovered
  <2>2. ASSUME t.seed.kind = "object", NEW p, Held(nodes, key, t.start, p)
        PROVE  Held(nodes', key, t.start, p)
    <3>1. key \in DOMAIN nodes /\ ReliesOn(t, key)
      BY <2>2 DEF Held, ReliesOn
    <3> HIDE DEF key
    <3> QED
      BY <2>2, <3>1, HeldStays
  <2> QED
    BY <2>1, <2>2 DEF SeedCovered
<1>2. ASSUME t.pc \in {"scan", "write"}, NEW i \in DOMAIN t.record PROVE ScanCovered(nodes', t, i)
  <2> DEFINE scan == t.record[i]
             v    == scan.value_start
             key  == Key(t.anchor, t.path, scan.seg)
  <2>1. ScanCovered(nodes, t, i)
    BY <1>2 DEF TaskCovered
  <2> SUFFICES ASSUME scan.kind = "object", ~ (scan.resume = None /\ scan.members = <<>>)
               PROVE  ScanCovered(nodes', t, i)
    BY DEF ScanCovered
  <2>2. PICK first \in 1 .. Len(Entries(v)) + 1 :
          /\ Unbroken(v, first, scan.members, scan.resume)
          /\ first = 1 \/ (i = 1 /\ Held(nodes, key, v, first))
    BY <2>1 DEF ScanCovered
  <2>3. CASE Unbroken(v, 1, scan.members, scan.resume)
    <3>1. 1 \in 1 .. Len(Entries(v)) + 1
      BY <2>3 DEF Unbroken
    <3> QED
      BY <2>3, <3>1 DEF ScanCovered
  <2>4. CASE ~ Unbroken(v, 1, scan.members, scan.resume)
    <3>1. i = 1 /\ Held(nodes, key, v, first) /\ t.record # <<>>
      BY <1>2, <2>2, <2>4
    <3>2. key \in DOMAIN nodes /\ ReliesOn(t, key)
      BY <1>2, <2>4, <3>1 DEF Held, ReliesOn
    <3>3. Held(nodes', key, v, first)
      <4> HIDE DEF key, v
      <4> QED
        BY <3>1, <3>2, HeldStays
    <3> QED
      BY <2>2, <3>1, <3>3 DEF ScanCovered
  <2> QED
    BY <2>3, <2>4
<1> QED
  BY <1>1, <1>2 DEF TaskCovered

\* A step is one call's: it leaves every other call where it was.
LEMMA OneActs ==
  ASSUME TypeInv, NEW c \in Clients,
         Ask(c) \/ Locate(c) \/ ReadFails(c) \/ Resolve(c) \/ Iterate(c) \/ Break(c),
         NEW d \in Clients, d # c
  PROVE  task'[d] = task[d]
<1>1. DOMAIN task = Clients
  BY DEF TypeInv, TypeOK
<1>2. CASE Ask(c) \/ ReadFails(c) \/ Break(c)
  BY <1>1, <1>2 DEF Ask, ReadFails, Break, Finish
<1>3. CASE Locate(c)
  <2>1. ASSUME NEW scan, NEW to, Step(c, scan, to) PROVE task'[d] = task[d]
    BY <1>1, <2>1 DEF Step
  <2>2. CASE ScanObject(c) \/ ScanArray(c)
    BY <2>1, <2>2 DEF ScanObject, ScanArray
  <2>3. CASE Lookup(c) \/ ScanDone(c) \/ ScanFault(c) \/ WriteBack(c)
    BY <1>1, <2>3 DEF Lookup, ScanDone, ScanFault, WriteBack
  <2> QED
    BY <1>3, <2>2, <2>3 DEF Locate
<1>4. CASE Resolve(c)
  BY <1>1, <1>4 DEF Resolve, CachedClose, Extent, Deliver, Located, Finish
<1>5. CASE Iterate(c)
  BY <1>1, <1>5 DEF Iterate, Enter, FillBatch, Exhaust, LastLandmarks, Finish
<1> QED
  BY <1>2, <1>3, <1>4, <1>5

\* A step that changes nothing sheds nothing.
LEMMA StillSpares ==
  ASSUME UNCHANGED vars
  PROVE  Spares
BY DEF Spares, vars

\* Every step that spares the others keeps the tables dense and what each call
\* knows of them true.
LEMMA NextCovered ==
  ASSUME RootStart = 0, UniqueNames, CoveredInv, [SessionNext]_vars, Spares
  PROVE  CoveredInv'
<1> DEFINE Acted(c) == DensePrefix' /\ TaskCovered(nodes', task'[c])
<1>1. SoundInv' /\ IndexKeeps /\ TypeInv
  BY NextTruth, NextKeeps DEF CoveredInv, SoundInv
<1>2. CASE UNCHANGED vars
  BY <1>1, <1>2 DEF CoveredInv, DensePrefix, vars
<1>3. ASSUME NEW c \in Clients,
             Ask(c) \/ Locate(c) \/ ReadFails(c) \/ Resolve(c) \/ Iterate(c) \/ Break(c)
      PROVE  CoveredInv'
  <2>1. ASSUME Ask(c) PROVE Acted(c)
    BY <2>1, AskCovered
  <2>2. ASSUME Locate(c) PROVE Acted(c)
    BY <2>2, LookupCovered, ScanDoneCovered, ScanObjectCovered, ScanArrayCovered, WriteBackCovered
       DEF Locate
  <2>3. ASSUME Resolve(c) \/ ReadFails(c) PROVE Acted(c)
    BY <2>3, CachedCloseCovered, ExtentCovered, LastReadCovered DEF Resolve
  <2>4. ASSUME Iterate(c) \/ Break(c) PROVE Acted(c)
    BY <2>4, EnterCovered, FillBatchCovered, ExhaustCovered, LastLandmarksCovered, BreakCovered
       DEF Iterate
  <2>5. Acted(c)
    BY <1>3, <2>1, <2>2, <2>3, <2>4
  <2>6. ASSUME NEW d \in Clients, d # c PROVE TaskCovered(nodes', task'[d])
    <3>1. task'[d] = task[d]
      BY <1>1, <1>3, <2>6, OneActs
    <3>2. \A k \in DOMAIN nodes : ReliesOn(task[d], k) => k \in DOMAIN nodes'
      BY <3>1 DEF Spares
    <3> QED
      BY <1>1, <3>1, <3>2, OtherCovered DEF CoveredInv
  <2> QED
    BY <1>1, <2>5, <2>6 DEF CoveredInv
<1> QED
  BY <1>2, <1>3 DEF SessionNext

\* What the call knows when it ends is what it reports.
LEMMA CoveredTransparent ==
  ASSUME RootStart = 0
  PROVE  CoveredInv => AnswersTransparent
<1> SUFFICES ASSUME CoveredInv, NEW c \in Clients, At(c, "done") PROVE IsTrue(task[c])
  BY DEF AnswersTransparent
<1>1. TaskTruthful(task[c]) /\ SkipWhitespace(task[c].start) = task[c].start
  BY SoundFacts DEF Container, CoveredInv
<1>2. FoundIsTrue(task[c])
  BY <1>1 DEF TaskTruthful, FoundIsTrue, At
<1>3. AbsentIsTrue(task[c]) /\ FaultIsTrue(task[c])
  BY DEF CoveredInv, TaskCovered
<1> QED
  BY <1>2, <1>3 DEF IsTrue

\* As long as no eviction takes the node another call in flight relies on, an
\* object's table covers every member in front of its resume offset, whatever
\* the caps and the budget and in whichever order the calls' scans and
\* write-backs land (cache.rs:401-402, "The table covers the dense prefix
\* `[open, resume]`").
THEOREM TablesDense ==
  ASSUME RootStart = 0, UniqueNames
  PROVE  SessionSpec /\ [][Spares]_vars => []DensePrefix
<1>1. SessionInit => CoveredInv
  BY InitCovered
<1>2. CoveredInv /\ [SessionNext]_vars /\ [Spares]_vars => CoveredInv'
  BY NextCovered, StillSpares
<1>3. CoveredInv => DensePrefix
  BY DEF CoveredInv
<1> QED
  BY <1>1, <1>2, <1>3, PTL DEF SessionSpec

\* As long as no eviction does, the index is transparent, however many calls
\* are in flight: what is found is there, what is reported absent is at no
\* member and no element of the container the path leads to, and a fault is a
\* real one (session.rs:273-282).
THEOREM AnswersSound ==
  ASSUME RootStart = 0, UniqueNames
  PROVE  SessionSpec /\ [][Spares]_vars => []AnswersTransparent
<1>1. SessionInit => CoveredInv
  BY InitCovered
<1>2. CoveredInv /\ [SessionNext]_vars /\ [Spares]_vars => CoveredInv'
  BY NextCovered, StillSpares
<1>3. CoveredInv => AnswersTransparent
  BY CoveredTransparent
<1> QED
  BY <1>1, <1>2, <1>3, PTL DEF SessionSpec

(***************************************************************************)
(* Calls whose containers are spared: the session implements Query.        *)
(***************************************************************************)

\* Query reads the document as the session does.
LEMMA PromiseLeads ==
  ASSUME NEW anchor, NEW path, NEW seg, NEW offset
  PROVE  Promise!Leads(anchor, path, seg, offset) <=> Leads(anchor, path, seg, offset)
<1>1. ASSUME NEW v, NEW i, NEW segment
      PROVE  Promise!Addresses(v, i, segment) <=> Addresses(v, i, segment)
  BY DEF Promise!Addresses, Addresses, Promise!Entries, Entries, Promise!IsMember, IsMember
<1>2. ASSUME NEW walk
      PROVE  Promise!IsWalk(anchor, path, seg, walk) <=> IsWalk(anchor, path, seg, walk)
  BY <1>1 DEF Promise!IsWalk, IsWalk, Promise!Entries, Entries, Promise!IsContainer, IsContainer,
              Promise!SkipWhitespace, SkipWhitespace
<1> QED
  BY <1>2 DEF Promise!Leads, Leads, Promise!SkipWhitespace, SkipWhitespace

LEMMA PromiseIsTrue ==
  ASSUME NEW call
  PROVE  Promise!IsTrue(call) <=> IsTrue(call)
<1>1. ASSUME NEW v, NEW i, NEW segment
      PROVE  Promise!Addresses(v, i, segment) <=> Addresses(v, i, segment)
  BY DEF Promise!Addresses, Addresses, Promise!Entries, Entries, Promise!IsMember, IsMember
<1>2. ASSUME NEW v, NEW segment
      PROVE  Promise!KindMatches(v, segment) <=> KindMatches(v, segment)
  BY DEF Promise!KindMatches, KindMatches, Promise!KindOf, KindOf, Promise!IsMember, IsMember
<1>3. \A v : /\ Promise!IsContainer(v) <=> IsContainer(v)
             /\ Promise!SkipWhitespace(v) = SkipWhitespace(v)
             /\ Promise!Entries(v) = Entries(v)
             /\ Promise!ValueEnd(v) = ValueEnd(v)
  BY DEF Promise!IsContainer, IsContainer, Promise!SkipWhitespace, SkipWhitespace,
         Promise!Entries, Entries, Promise!ValueEnd, ValueEnd
<1>4. Promise!FoundIsTrue(call) <=> FoundIsTrue(call)
  BY <1>3, PromiseLeads DEF Promise!FoundIsTrue, FoundIsTrue
<1>5. Promise!AbsentIsTrue(call) <=> AbsentIsTrue(call)
  BY <1>1, <1>2, <1>3, PromiseLeads
  DEF Promise!AbsentIsTrue, AbsentIsTrue, Promise!StopsAbsent, StopsAbsent
<1>6. Promise!FaultIsTrue(call) <=> FaultIsTrue(call)
  BY <1>2, <1>3, PromiseLeads
  DEF Promise!FaultIsTrue, FaultIsTrue, Promise!StopsFaulty, StopsFaulty
<1> QED
  BY <1>4, <1>5, <1>6 DEF Promise!IsTrue, IsTrue

\* A call in flight was asked something, knows its answer before it writes
\* back, and is no hop when it delivers.
Asked(t) ==
  /\ t.pc = "idle" <=> t.op = None
  /\ t.pc \in {"write", "done"} => t.status # "none"
  /\ t.pc = "deliver" => t.op # "hop"

AskedInv == \A c \in Clients : Asked(task[c])

\* A call and what becomes of it in one step.
SameCall(t, u) == u.op = t.op /\ u.anchor = t.anchor /\ u.depth = t.depth /\ u.path = t.path

\* What Query sees of the session, and its steps.
Reports == [c \in Clients |-> CallOf(task[c])]
QueryStep == [Promise!Next]_<<[c \in Clients |-> CallOf(task[c])], cursors>>

\* A step of one call shows in that call's report alone.
LEMMA ReportsAfter ==
  ASSUME TypeInv, NEW c \in Clients, NEW u, task' = [task EXCEPT ![c] = u]
  PROVE  /\ Reports' = [Reports EXCEPT ![c] = CallOf(u)]
         /\ Reports[c] = CallOf(task[c])
         /\ \A d \in Clients : task'[d] = IF d = c THEN u ELSE task[d]
<1>1. \A d \in Clients : task'[d] = IF d = c THEN u ELSE task[d]
  BY DEF TypeInv, TypeOK
<1>2. Reports' = [d \in Clients |-> CallOf(task'[d])]
  BY DEF Reports, CallOf
<1>3. \A d \in Clients : CallOf(task'[d]) = IF d = c THEN CallOf(u) ELSE CallOf(task[d])
  BY <1>1
<1>4. Reports' = [d \in Clients |-> IF d = c THEN CallOf(u) ELSE CallOf(task[d])]
  BY <1>2, <1>3
<1>5. Reports = [d \in Clients |-> CallOf(task[d])]
  BY DEF Reports
<1> QED
  BY <1>1, <1>4, <1>5

\* The fields of a call as Query sees it.
CallFields == {"op", "anchor", "depth", "path", "status", "seg", "start", "end"}

\* What is seen of a call in flight, and of one that has its answer.
LEMMA CallSeen ==
  ASSUME NEW t
  PROVE  /\ t.pc # "done" =>
              CallOf(t) = [op |-> t.op, anchor |-> t.anchor, depth |-> t.depth, path |-> t.path,
                           status |-> "none", seg |-> 0, start |-> 0, end |-> None]
         /\ t.pc = "done" =>
              CallOf(t) = [op |-> t.op, anchor |-> t.anchor, depth |-> t.depth, path |-> t.path,
                           status |-> t.status, seg |-> t.seg, start |-> t.start, end |-> t.end]
BY DEF CallOf

\* A step within a call changes nothing that is seen from outside.
LEMMA QuietAnswer ==
  ASSUME TypeInv, AskedInv, NEW c \in Clients, NEW u, task' = [task EXCEPT ![c] = u],
         SameCall(task[c], u), task[c].pc \notin {"idle", "done"}, u.pc \notin {"idle", "done"},
         u.pc = "write" => u.status # "none", u.pc = "deliver" => u.op # "hop",
         UNCHANGED cursors
  PROVE  AskedInv' /\ QueryStep
<1>1. CallOf(u) = CallOf(task[c])
  BY CallSeen DEF SameCall
<1>2. Reports' = Reports
  <2>1. Reports' = [Reports EXCEPT ![c] = Reports[c]]
    BY <1>1, ReportsAfter
  <2>2. Reports = [d \in Clients |-> Reports[d]]
    BY DEF Reports
  <2> QED
    BY <2>1, <2>2
<1>3. Asked(u)
  BY DEF Asked, AskedInv, SameCall
<1>4. \A d \in Clients : Asked(task'[d])
  BY <1>3, ReportsAfter DEF AskedInv
<1> QED
  BY <1>2, <1>4 DEF QueryStep, AskedInv, Reports

\* A step that ends a call answers it, truly and with the cursor it promised.
LEMMA FinalAnswer ==
  ASSUME TypeInv, AskedInv, AnswersTransparent', NEW c \in Clients, NEW u,
         task' = [task EXCEPT ![c] = u],
         SameCall(task[c], u), task[c].pc \notin {"idle", "done"}, u.pc = "done",
         u.status # "none",
         cursors' = IF u.op = "hop" /\ u.status = "found"
                      THEN cursors \cup {[anchor |-> u.start, depth |-> u.depth + Len(u.path)]}
                      ELSE cursors
  PROVE  AskedInv' /\ QueryStep
<1> DEFINE call   == CallOf(task[c])
           answer == CallOf(u)
<1>1. /\ Reports' = [Reports EXCEPT ![c] = answer] /\ Reports[c] = call
      /\ \A d \in Clients : task'[d] = IF d = c THEN u ELSE task[d]
  BY ReportsAfter
<1>2. Asked(u) /\ Asked(task[c])
  BY DEF Asked, AskedInv, SameCall
<1>3. /\ call = [op |-> u.op, anchor |-> u.anchor, depth |-> u.depth, path |-> u.path,
                 status |-> "none", seg |-> 0, start |-> 0, end |-> None]
      /\ answer = [op |-> u.op, anchor |-> u.anchor, depth |-> u.depth, path |-> u.path,
                   status |-> u.status, seg |-> u.seg, start |-> u.start, end |-> u.end]
  BY CallSeen DEF SameCall
<1> HIDE DEF call, answer
<1>4. /\ call.op # None /\ call.status = "none"
      /\ answer.status = u.status /\ answer.start = u.start
      /\ call.op = u.op /\ call.depth = u.depth /\ call.path = u.path
  BY <1>2, <1>3 DEF Asked
<1>5. answer = [call EXCEPT !.status = answer.status, !.seg = answer.seg,
                            !.start = answer.start, !.end = answer.end]
  <2> DEFINE changed == [call EXCEPT !.status = answer.status, !.seg = answer.seg,
                                     !.start = answer.start, !.end = answer.end]
  <2>1. DOMAIN changed = CallFields /\ DOMAIN answer = CallFields
    BY <1>3 DEF CallFields
  <2>2. changed = [x \in DOMAIN changed |-> changed[x]] /\ answer = [x \in DOMAIN answer |-> answer[x]]
    BY <1>3
  <2>3. /\ changed.op = answer.op /\ changed.anchor = answer.anchor
        /\ changed.depth = answer.depth /\ changed.path = answer.path
        /\ changed.status = answer.status /\ changed.seg = answer.seg
        /\ changed.start = answer.start /\ changed.end = answer.end
    BY <1>3
  <2> HIDE DEF changed
  <2>4. \A x \in CallFields : changed[x] = answer[x]
    BY <2>3 DEF CallFields
  <2>5. changed = answer
    BY <2>1, <2>2, <2>4
  <2> QED
    BY <2>5 DEF changed
<1>6. IsTrue(answer)
  <2>1. IsTrue(u)
    BY <1>1 DEF AnswersTransparent, At
  <2>2. /\ answer.status = u.status /\ answer.op = u.op /\ answer.anchor = u.anchor
        /\ answer.path = u.path /\ answer.seg = u.seg /\ answer.start = u.start /\ answer.end = u.end
    BY <1>3
  <2> QED
    BY <2>1, <2>2 DEF IsTrue, FoundIsTrue, AbsentIsTrue, FaultIsTrue
<1>7. Reports'[c] = answer
  BY <1>1 DEF Reports
<1>8. Promise!Answer(c)
  <2>1. Promise!Pending(c) <=> Reports[c].op # None /\ Reports[c].status = "none"
    BY DEF Promise!Pending, Reports
  <2>2. Promise!IsTrue(answer)
    BY <1>6, PromiseIsTrue
  <2>3. Promise!Answer(c) <=>
          LET landed == [anchor |-> Reports'[c].start, depth |-> Reports[c].depth + Len(Reports[c].path)]
          IN  /\ Promise!Pending(c)
              /\ Reports' = [Reports EXCEPT ![c] = [Reports[c] EXCEPT
                   !.status = Reports'[c].status, !.seg = Reports'[c].seg,
                   !.start = Reports'[c].start, !.end = Reports'[c].end]]
              /\ Reports'[c].status # "none"
              /\ Promise!IsTrue(Reports'[c])
              /\ cursors' = IF Reports[c].op = "hop" /\ Reports'[c].status = "found"
                              THEN cursors \cup {landed}
                              ELSE cursors
    BY DEF Promise!Answer, Reports
  <2> DEFINE landed == [anchor |-> Reports'[c].start, depth |-> Reports[c].depth + Len(Reports[c].path)]
  <2>4. Reports' = [Reports EXCEPT ![c] = [Reports[c] EXCEPT
          !.status = Reports'[c].status, !.seg = Reports'[c].seg,
          !.start = Reports'[c].start, !.end = Reports'[c].end]]
    BY <1>1, <1>5, <1>7, Zenon
  <2>5. landed = [anchor |-> u.start, depth |-> u.depth + Len(u.path)]
    BY <1>1, <1>4, <1>7
  <2>6. Reports[c].op = u.op /\ Reports'[c].status = u.status
    BY <1>1, <1>4, <1>7
  <2>7. cursors' = IF Reports[c].op = "hop" /\ Reports'[c].status = "found"
                     THEN cursors \cup {landed}
                     ELSE cursors
    BY <2>5, <2>6
  <2> HIDE DEF landed
  <2>8. Promise!Pending(c) /\ Reports'[c].status # "none" /\ Promise!IsTrue(Reports'[c])
    BY <1>1, <1>4, <1>7, <2>1, <2>2
  <2> QED
    BY <2>3, <2>4, <2>7, <2>8 DEF landed
<1>9. QueryStep
  BY <1>8 DEF QueryStep, Promise!Next
<1>10. \A d \in Clients : Asked(task'[d])
  BY <1>1, <1>2 DEF AskedInv
<1> QED
  BY <1>9, <1>10 DEF AskedInv

\* A call that arrives is one Query may be asked.
LEMMA AskAnswer ==
  ASSUME TypeInv, AskedInv, NEW c \in Clients, Ask(c)
  PROVE  AskedInv' /\ QueryStep
<1>1. PICK cursor \in cursors, op \in Ops, path \in Paths :
        task' = [task EXCEPT ![c] = [IdleTask EXCEPT
                  !.pc = "lookup", !.op = op, !.path = path, !.start = cursor.anchor,
                  !.anchor = cursor.anchor, !.depth = cursor.depth]]
  BY DEF Ask
<1> DEFINE u == [IdleTask EXCEPT
                  !.pc = "lookup", !.op = op, !.path = path, !.start = cursor.anchor,
                  !.anchor = cursor.anchor, !.depth = cursor.depth]
           asked == [op |-> op, anchor |-> cursor.anchor, depth |-> cursor.depth, path |-> path,
                     status |-> "none", seg |-> 0, start |-> 0, end |-> None]
<1>2. /\ u.pc = "lookup" /\ u.op = op /\ u.path = path
      /\ u.anchor = cursor.anchor /\ u.depth = cursor.depth
  BY DEF IdleTask
<1>3. task' = [task EXCEPT ![c] = u] /\ task[c].pc \in {"idle", "done"} /\ cursors' = cursors
  BY <1>1 DEF Ask
<1> HIDE DEF u
<1>4. CallOf(u) = asked
  BY <1>2, CallSeen
<1>5. Asked(u)
  BY <1>2, CallAssumption DEF Asked
<1>6. asked = [Promise!NoCall EXCEPT
                 !.op = op, !.path = path, !.anchor = cursor.anchor, !.depth = cursor.depth]
  <2> DEFINE call == [Promise!NoCall EXCEPT
                       !.op = op, !.path = path, !.anchor = cursor.anchor, !.depth = cursor.depth]
  <2>1. DOMAIN call = CallFields /\ DOMAIN asked = CallFields
    BY DEF Promise!NoCall, CallFields
  <2>2. call = [x \in DOMAIN call |-> call[x]] /\ asked = [x \in DOMAIN asked |-> asked[x]]
    OBVIOUS
  <2>3. /\ call.op = asked.op /\ call.anchor = asked.anchor
        /\ call.depth = asked.depth /\ call.path = asked.path
        /\ call.status = asked.status /\ call.seg = asked.seg
        /\ call.start = asked.start /\ call.end = asked.end
    BY DEF Promise!NoCall
  <2> HIDE DEF call, asked
  <2>4. \A x \in CallFields : call[x] = asked[x]
    BY <2>3 DEF CallFields
  <2>5. call = asked
    BY <2>1, <2>2, <2>4
  <2> QED
    BY <2>5 DEF call
<1>7. ~ (CallOf(task[c]).op # None /\ CallOf(task[c]).status = "none")
  BY <1>3 DEF CallOf, AskedInv, Asked
<1> HIDE DEF asked
<1>8. Reports' = [Reports EXCEPT ![c] = asked] /\ Reports[c] = CallOf(task[c])
  BY <1>3, <1>4, ReportsAfter
<1>9. Promise!Ask(c)
  <2>1. ~ Promise!Pending(c)
    BY <1>7, <1>8 DEF Promise!Pending, Reports
  <2>2. Promise!Ask(c) <=>
          /\ ~ Promise!Pending(c)
          /\ \E k \in cursors, o \in Ops, p \in Paths :
               Reports' = [Reports EXCEPT ![c] = [Promise!NoCall EXCEPT
                             !.op = o, !.path = p, !.anchor = k.anchor, !.depth = k.depth]]
          /\ UNCHANGED cursors
    BY DEF Promise!Ask, Reports
  <2> QED
    BY <1>3, <1>6, <1>8, <2>1, <2>2
<1>10. \A d \in Clients : Asked(task'[d])
  BY <1>3, <1>5, ReportsAfter DEF AskedInv
<1> QED
  BY <1>9, <1>10 DEF QueryStep, Promise!Next, AskedInv

\* The fields of a task that steps change.
TaskFields == {"pc", "op", "anchor", "depth", "path", "seg", "start", "seed", "record", "status",
               "end", "idx", "marks"}

\* What is known of a call in flight before a step.
LEMMA AnswerFacts ==
  ASSUME RootStart = 0, SoundInv, AskedInv, NEW c \in Clients
  PROVE  /\ TypeInv /\ c \in DOMAIN task /\ DOMAIN task[c] = TaskFields
         /\ TaskTruthful(task[c]) /\ Asked(task[c])
<1>1. TypeInv /\ TaskTruthful(task[c]) /\ TaskOK(task[c])
  BY SoundFacts
<1> QED
  BY <1>1 DEF TypeInv, TypeOK, TaskOK, IdleTask, TaskFields, AskedInv

\* Steps of a lookup and of the scans after it.
LEMMA LocateAnswer ==
  ASSUME RootStart = 0, SoundInv, AskedInv, NEW c \in Clients,
         Lookup(c) \/ ScanDone(c) \/ ScanFault(c) \/ ScanObject(c) \/ ScanArray(c)
  PROVE  AskedInv' /\ QueryStep
<1> DEFINE t == task[c]
<1>1. TypeInv /\ c \in DOMAIN task /\ DOMAIN t = TaskFields
  BY AnswerFacts
<1>2. UNCHANGED cursors /\ t.pc \in {"lookup", "scan"}
  BY DEF Lookup, ScanDone, ScanFault, ScanObject, ScanArray, At
<1>3. ASSUME NEW u, task' = [task EXCEPT ![c] = u], SameCall(t, u),
             u.pc = "scan" \/ (u.pc = "write" /\ u.status # "none")
      PROVE  AskedInv' /\ QueryStep
  BY <1>1, <1>2, <1>3, QuietAnswer
<1>4. CASE Lookup(c)
  <2>1. CASE IsEnabled
    <3>1. PICK seg \in 0 .. Len(t.path) :
            task' = [task EXCEPT ![c].pc = "scan", ![c].seg = seg,
                                 ![c].start = ChainStart(t.anchor, t.path, seg),
                                 ![c].seed = ChainSeed(t.anchor, t.path, seg)]
      BY <1>4, <2>1 DEF Lookup
    <3> DEFINE u == [t EXCEPT !.pc = "scan", !.seg = seg,
                              !.start = ChainStart(t.anchor, t.path, seg),
                              !.seed = ChainSeed(t.anchor, t.path, seg)]
    <3>2. task' = [task EXCEPT ![c] = u]
      BY <3>1
    <3>3. SameCall(t, u) /\ u.pc = "scan"
      BY <1>1 DEF SameCall, TaskFields
    <3> HIDE DEF u
    <3> QED
      BY <1>1, <1>2, <3>2, <3>3, QuietAnswer
  <2>2. CASE ~ IsEnabled
    <3> DEFINE u == [t EXCEPT !.pc = "scan"]
    <3>1. task' = [task EXCEPT ![c] = u]
      BY <1>4, <2>2 DEF Lookup
    <3>2. SameCall(t, u) /\ u.pc = "scan"
      BY <1>1 DEF SameCall, TaskFields
    <3> HIDE DEF u
    <3> QED
      BY <1>1, <1>2, <3>1, <3>2, QuietAnswer
  <2> QED
    BY <2>1, <2>2
<1>5. CASE ScanDone(c) \/ ScanFault(c)
  <2>1. PICK status \in {"found", "fault"} : task' = [task EXCEPT ![c].pc = "write", ![c].status = status]
    BY <1>5 DEF ScanDone, ScanFault
  <2> DEFINE u == [t EXCEPT !.pc = "write", !.status = status]
  <2>2. task' = [task EXCEPT ![c] = u]
    BY <2>1
  <2>3. SameCall(t, u) /\ u.pc = "write" /\ u.status # "none"
    BY <1>1 DEF SameCall, TaskFields
  <2> HIDE DEF u, t
  <2> QED
    BY <1>3, <2>2, <2>3
<1>6. ASSUME NEW scan, NEW to, Step(c, scan, to) PROVE AskedInv' /\ QueryStep
  <2> DEFINE u == [t EXCEPT
                    !.record = Append(t.record, scan),
                    !.seed = None,
                    !.seg = IF to = None THEN t.seg ELSE t.seg + 1,
                    !.start = IF to = None THEN Container(c) ELSE to,
                    !.pc = IF to = None THEN "write" ELSE "scan",
                    !.status = IF to = None THEN "absent" ELSE "none"]
  <2>1. task' = [task EXCEPT ![c] = u]
    BY <1>6 DEF Step
  <2>2. /\ SameCall(t, u)
        /\ u.pc = IF to = None THEN "write" ELSE "scan"
        /\ u.status = IF to = None THEN "absent" ELSE "none"
    BY <1>1 DEF SameCall, TaskFields
  <2> HIDE DEF u, t
  <2>3. u.pc = "scan" \/ (u.pc = "write" /\ u.status # "none")
    BY <2>2
  <2> QED
    BY <1>3, <2>1, <2>2, <2>3
<1>7. CASE ScanObject(c)
  <2>1. \E scan, to : Step(c, scan, to)
    BY <1>7 DEF ScanObject
  <2> QED
    BY <1>6, <2>1
<1>8. CASE ScanArray(c)
  <2>1. \E scan, to : Step(c, scan, to)
    BY <1>8 DEF ScanArray
  <2> QED
    BY <1>6, <2>1
<1> QED
  BY <1>4, <1>5, <1>7, <1>8

\* A call whose path leads nowhere is answered when its write-back is done.
LEMMA WriteBackAnswer ==
  ASSUME RootStart = 0, SoundInv, AskedInv, AnswersTransparent', NEW c \in Clients, WriteBack(c)
  PROVE  AskedInv' /\ QueryStep
<1> DEFINE t == task[c]
<1>1. TypeInv /\ c \in DOMAIN task /\ DOMAIN t = TaskFields /\ Asked(t)
  BY AnswerFacts
<1>2. UNCHANGED cursors /\ t.pc = "write"
  BY DEF WriteBack, At
<1>3. PICK record : \E pc \in {"write", AfterLocate(t)} :
        task' = [task EXCEPT ![c] = [t EXCEPT !.record = record, !.pc = pc]]
  <2>1. CASE t.record = <<>>
    <3>1. task' = [task EXCEPT ![c].pc = AfterLocate(t)]
      BY <2>1 DEF WriteBack
    <3>2. task' = [task EXCEPT ![c] = [t EXCEPT !.record = t.record, !.pc = AfterLocate(t)]]
      BY <1>1, <3>1 DEF TaskFields
    <3> QED
      BY <3>2
  <2>2. CASE t.record # <<>>
    <3>1. task' = [task EXCEPT ![c].record = Tail(t.record),
                               ![c].pc = IF Len(t.record) = 1 THEN AfterLocate(t) ELSE @]
      BY <2>2 DEF WriteBack
    <3>2. task' = [task EXCEPT ![c] =
                     [t EXCEPT !.record = Tail(t.record),
                               !.pc = IF Len(t.record) = 1 THEN AfterLocate(t) ELSE "write"]]
      BY <1>1, <1>2, <3>1 DEF TaskFields
    <3> QED
      BY <3>2
  <2> QED
    BY <2>1, <2>2
<1>4. PICK pc \in {"write", AfterLocate(t)} :
        task' = [task EXCEPT ![c] = [t EXCEPT !.record = record, !.pc = pc]]
  BY <1>3
<1> DEFINE u == [t EXCEPT !.record = record, !.pc = pc]
<1>5. SameCall(t, u) /\ u.pc = pc /\ u.status = t.status
  BY <1>1 DEF SameCall, TaskFields
<1> HIDE DEF u, t
<1>6. t.status # "none" /\ u.op = t.op
  BY <1>1, <1>2, <1>5 DEF Asked, SameCall
<1>7. CASE pc = "done"
  <2>1. u.status # "found"
    BY <1>2, <1>4, <1>5, <1>7 DEF AfterLocate
  <2> QED
    BY <1>1, <1>2, <1>4, <1>5, <1>6, <1>7, <2>1, FinalAnswer DEF u, t
<1>8. CASE pc # "done"
  <2>1. pc # "idle" /\ (pc = "deliver" => t.op = "has")
    BY <1>2, <1>4 DEF AfterLocate
  <2> QED
    BY <1>1, <1>2, <1>4, <1>5, <1>6, <1>8, <2>1, QuietAnswer DEF u, t
<1> QED
  BY <1>7, <1>8

\* A hop is answered where its value is located; a get goes on.
LEMMA LocatedAnswer ==
  ASSUME RootStart = 0, SoundInv, AskedInv, AnswersTransparent', NEW c \in Clients,
         task[c].pc \in {"close", "extent"}, NEW start, NEW end, Located(c, start, end)
  PROVE  AskedInv' /\ QueryStep
<1> DEFINE t == task[c]
           u == [t EXCEPT !.pc = IF t.op = "hop" THEN "done" ELSE "deliver",
                          !.start = start, !.end = end]
<1>1. TypeInv /\ c \in DOMAIN task /\ DOMAIN t = TaskFields /\ TaskTruthful(t)
  BY AnswerFacts
<1>2. task' = [task EXCEPT ![c] = u]
  BY DEF Located
<1>3. cursors' = IF t.op = "hop"
                   THEN cursors \cup {[anchor |-> start, depth |-> t.depth + Len(t.path)]}
                   ELSE cursors
  BY DEF Located, LandedDepth
<1>4. t.status = "found"
  BY <1>1 DEF TaskTruthful
<1>5. /\ SameCall(t, u) /\ u.start = start /\ u.status = "found"
      /\ u.pc = IF t.op = "hop" THEN "done" ELSE "deliver"
  BY <1>1, <1>4 DEF SameCall, TaskFields
<1> HIDE DEF u
<1>6. CASE t.op = "hop"
  <2>1. cursors' = IF u.op = "hop" /\ u.status = "found"
                     THEN cursors \cup {[anchor |-> u.start, depth |-> u.depth + Len(u.path)]}
                     ELSE cursors
    BY <1>3, <1>5, <1>6 DEF SameCall
  <2> QED
    BY <1>1, <1>2, <1>5, <1>6, <2>1, FinalAnswer
<1>7. CASE t.op # "hop"
  <2>1. UNCHANGED cursors /\ u.op # "hop"
    BY <1>3, <1>5, <1>7 DEF SameCall
  <2> QED
    BY <1>1, <1>2, <1>5, <1>7, <2>1, QuietAnswer
<1> QED
  BY <1>6, <1>7

\* Locating a value.
LEMMA ResolveAnswer ==
  ASSUME RootStart = 0, SoundInv, AskedInv, AnswersTransparent', NEW c \in Clients,
         CachedClose(c) \/ Extent(c)
  PROVE  AskedInv' /\ QueryStep
<1> DEFINE t == task[c]
<1>1. task[c].pc \in {"close", "extent"}
  BY DEF CachedClose, Extent, At
<1>2. CASE \E start, end : Located(c, start, end)
  BY <1>1, <1>2, LocatedAnswer
<1>3. CASE task' = [task EXCEPT ![c].pc = "extent"] /\ UNCHANGED cursors
  <2> DEFINE u == [t EXCEPT !.pc = "extent"]
  <2>1. TypeInv /\ DOMAIN t = TaskFields
    BY AnswerFacts
  <2>2. task' = [task EXCEPT ![c] = u]
    BY <1>3
  <2>3. SameCall(t, u) /\ u.pc = "extent"
    BY <2>1 DEF SameCall, TaskFields
  <2> HIDE DEF u
  <2> QED
    BY <1>1, <1>3, <2>1, <2>2, <2>3, QuietAnswer
<1> QED
  BY <1>2, <1>3 DEF CachedClose, Extent

\* A call that ends with a status it chose or had.
LEMMA FinishAnswer ==
  ASSUME RootStart = 0, SoundInv, AskedInv, AnswersTransparent', NEW c \in Clients,
         NEW status \in {"found", "fault", "failed"}, Finish(c, status), UNCHANGED cursors,
         task[c].pc \notin {"idle", "done"}, status = "found" => task[c].op # "hop"
  PROVE  AskedInv' /\ QueryStep
<1> DEFINE t == task[c]
           u == [t EXCEPT !.pc = "done", !.status = status]
<1>1. TypeInv /\ DOMAIN t = TaskFields
  BY AnswerFacts
<1>2. task' = [task EXCEPT ![c] = u]
  BY DEF Finish
<1>3. SameCall(t, u) /\ u.pc = "done" /\ u.status = status
  BY <1>1 DEF SameCall, TaskFields
<1> HIDE DEF u
<1>4. ~ (u.op = "hop" /\ u.status = "found") /\ u.status # "none"
  BY <1>3 DEF SameCall
<1> QED
  BY <1>1, <1>2, <1>3, <1>4, FinalAnswer

\* Last reads, and an iteration from its entry to its end.
LEMMA IterateAnswer ==
  ASSUME RootStart = 0, SoundInv, AskedInv, AnswersTransparent', NEW c \in Clients,
         ReadFails(c) \/ Deliver(c) \/ Iterate(c) \/ Break(c)
  PROVE  AskedInv' /\ QueryStep
<1> DEFINE t == task[c]
<1>1. /\ TypeInv /\ c \in DOMAIN task /\ DOMAIN t = TaskFields
      /\ TaskTruthful(t) /\ Asked(t)
  BY AnswerFacts
<1>2. UNCHANGED cursors
  BY DEF ReadFails, Deliver, Iterate, Enter, FillBatch, Exhaust, LastLandmarks, Break
<1>3. CASE ReadFails(c)
  BY <1>2, <1>3, FinishAnswer DEF ReadFails
<1>4. CASE Deliver(c)
  <2>1. t.pc = "deliver" /\ t.op # "hop"
    BY <1>1, <1>4 DEF Deliver, At, Asked
  <2> QED
    BY <1>2, <1>4, <2>1, FinishAnswer DEF Deliver
<1>5. CASE Break(c)
  <2>1. t.pc = "iterate" /\ t.op # "hop"
    BY <1>1, <1>5 DEF Break, At, TaskTruthful
  <2> QED
    BY <1>2, <1>5, <2>1, FinishAnswer DEF Break
<1>6. ASSUME NEW u, task' = [task EXCEPT ![c] = u], SameCall(t, u),
             t.pc \in {"enter", "iterate"}, u.pc \in {"iterate", "landmarks"}
      PROVE  AskedInv' /\ QueryStep
  BY <1>1, <1>2, <1>6, QuietAnswer
<1>7. CASE Enter(c)
  <2>1. t.pc = "enter"
    BY <1>7 DEF Enter, At
  <2>2. CASE Finish(c, "fault")
    BY <1>2, <2>1, <2>2, FinishAnswer
  <2>3. CASE task' = [task EXCEPT ![c].pc = "iterate"]
    <3> DEFINE u == [t EXCEPT !.pc = "iterate"]
    <3>1. SameCall(t, u) /\ u.pc = "iterate" /\ task' = [task EXCEPT ![c] = u]
      BY <1>1, <2>3 DEF SameCall, TaskFields
    <3> HIDE DEF u, t
    <3> QED
      BY <1>6, <2>1, <3>1
  <2> QED
    BY <1>7, <2>2, <2>3 DEF Enter
<1>8. CASE FillBatch(c)
  <2>1. PICK to : task' = [task EXCEPT ![c].idx = to]
    BY <1>8 DEF FillBatch
  <2> DEFINE u == [t EXCEPT !.idx = to]
  <2>2. t.pc = "iterate"
    BY <1>8 DEF FillBatch, At
  <2>3. SameCall(t, u) /\ u.pc = t.pc /\ task' = [task EXCEPT ![c] = u]
    BY <1>1, <2>1 DEF SameCall, TaskFields
  <2> HIDE DEF u, t
  <2> QED
    BY <1>6, <2>2, <2>3
<1>9. CASE Exhaust(c)
  <2>1. PICK count, marks :
          task' = [task EXCEPT ![c].pc = "landmarks", ![c].idx = count, ![c].marks = marks]
    BY <1>9 DEF Exhaust
  <2> DEFINE u == [t EXCEPT !.pc = "landmarks", !.idx = count, !.marks = marks]
  <2>2. t.pc = "iterate"
    BY <1>9 DEF Exhaust, At
  <2>3. SameCall(t, u) /\ u.pc = "landmarks" /\ task' = [task EXCEPT ![c] = u]
    BY <1>1, <2>1 DEF SameCall, TaskFields
  <2> HIDE DEF u, t
  <2> QED
    BY <1>6, <2>2, <2>3
<1>10. CASE LastLandmarks(c)
  <2> DEFINE u == [t EXCEPT !.pc = "done", !.marks = <<>>]
  <2>1. /\ t.pc = "landmarks" /\ task' = [task EXCEPT ![c] = u]
    BY <1>10 DEF LastLandmarks, At
  <2>2. t.status = "found" /\ t.op # "hop"
    BY <1>1, <2>1 DEF TaskTruthful
  <2>3. SameCall(t, u) /\ u.pc = "done" /\ u.status = "found"
    BY <1>1, <2>2 DEF SameCall, TaskFields
  <2> HIDE DEF u
  <2>4. ~ (u.op = "hop" /\ u.status = "found")
    BY <2>2, <2>3 DEF SameCall
  <2> QED
    BY <1>1, <1>2, <2>1, <2>3, <2>4, FinalAnswer
<1> QED
  BY <1>3, <1>4, <1>5, <1>7, <1>8, <1>9, <1>10 DEF Iterate

\* Every step of the session is a step of Query, or none at all.
LEMMA NextAnswer ==
  ASSUME RootStart = 0, SoundInv, AskedInv, AnswersTransparent', [SessionNext]_vars
  PROVE  AskedInv' /\ QueryStep
<1>1. TypeInv
  BY DEF SoundInv
<1>2. CASE UNCHANGED vars
  BY <1>2 DEF QueryStep, AskedInv, vars
<1>3. ASSUME NEW c \in Clients, Ask(c) PROVE AskedInv' /\ QueryStep
  BY <1>1, <1>3, AskAnswer
<1>4. ASSUME NEW c \in Clients, Locate(c) PROVE AskedInv' /\ QueryStep
  BY <1>1, <1>4, LocateAnswer, WriteBackAnswer DEF Locate
<1>5. ASSUME NEW c \in Clients, ReadFails(c) \/ Resolve(c) \/ Iterate(c) \/ Break(c)
      PROVE  AskedInv' /\ QueryStep
  BY <1>1, <1>5, ResolveAnswer, IterateAnswer DEF Resolve
<1> QED
  BY <1>2, <1>3, <1>4, <1>5 DEF SessionNext

\* As long as no eviction takes the node another call in flight relies on, the
\* session implements Query: each call is answered once, truly, as if nothing
\* were remembered, and the only cursors are those that hops handed out
\* (cursor.rs:99-112).
THEOREM SessionAnswersQuery ==
  ASSUME RootStart = 0, UniqueNames
  PROVE  SessionSpec /\ [][Spares]_vars => ImplementsQuery
<1>1. SessionInit => CoveredInv /\ AskedInv /\ Promise!Init
  <2> SUFFICES ASSUME SessionInit PROVE CoveredInv /\ AskedInv /\ Promise!Init
    OBVIOUS
  <2>1. task = [c \in Clients |-> IdleTask] /\ cursors = {RootCursor}
    BY DEF SessionInit
  <2>2. Asked(IdleTask)
    BY DEF Asked, IdleTask
  <2>3. CallOf(IdleTask) = Promise!NoCall
    BY DEF CallOf, IdleTask, Promise!NoCall
  <2>4. [c \in Clients |-> CallOf(task[c])] = [c \in Clients |-> Promise!NoCall]
    BY <2>1, <2>3
  <2>5. Promise!Init
    BY <2>1, <2>4 DEF Promise!Init, Promise!RootCursor, RootCursor
  <2> QED
    BY <2>1, <2>2, <2>5, InitCovered DEF AskedInv
<1>2. CoveredInv /\ [SessionNext]_vars /\ [Spares]_vars => CoveredInv'
  BY NextCovered, StillSpares
<1>3. CoveredInv => AnswersTransparent
  BY CoveredTransparent
<1>4. CoveredInv /\ AskedInv /\ AnswersTransparent' /\ [SessionNext]_vars => AskedInv' /\ QueryStep
  BY NextAnswer DEF CoveredInv
<1> QED
  BY <1>1, <1>2, <1>3, <1>4, PTL DEF SessionSpec, ImplementsQuery, Promise!Spec, QueryStep

(***************************************************************************)
(* Who spares the others.                                                  *)
(***************************************************************************)

\* Calls come one after another, as from a program that awaits each.
OneClient == \A c, d \in Clients : c = d

\* While a call scans the index stays as it is; a call that writes back has a
\* container less on record after each write, and so is not where it was.
LEMMA WriterMoves ==
  ASSUME TypeInv, NEW c \in Clients,
         Ask(c) \/ Locate(c) \/ ReadFails(c) \/ Resolve(c) \/ Iterate(c) \/ Break(c),
         task'[c] = task[c], NEW k \in DOMAIN nodes, ReliesOn(task[c], k)
  PROVE  k \in DOMAIN nodes'
<1> DEFINE t == task[c]
<1>1. /\ t.pc \in {"scan", "write"} /\ c \in DOMAIN task /\ IsSequence(t.record)
      /\ {"pc", "record"} \subseteq DOMAIN t
  BY DEF ReliesOn, TypeInv, TypeOK, TaskOK, IdleTask
<1>2. CASE WriteBack(c) /\ t.record # <<>>
  <2>1. task'[c].record = Tail(t.record)
    BY <1>1, <1>2 DEF WriteBack
  <2>2. Tail(t.record) # t.record
    <3> DEFINE S == {t.record[i] : i \in DOMAIN t.record}
               rest == Tail(t.record)
    <3>1. t.record \in Seq(S)
      BY <1>1 DEF IsSequence
    <3>2. Len(rest) = Len(t.record) - 1 /\ Len(t.record) \in Nat
      BY <1>2, <3>1, HeadTailProperties, LenProperties
    <3> HIDE DEF rest
    <3>3. Len(rest) # Len(t.record)
      BY <3>2
    <3>4. rest # t.record
      BY <3>3
    <3> QED
      BY <3>4 DEF rest
  <2> QED
    BY <2>1, <2>2
<1>3. CASE ~ (WriteBack(c) /\ t.record # <<>>)
  <2>1. CASE WriteBack(c)
    BY <1>3, <2>1 DEF WriteBack
  <2>2. CASE ScanDone(c) \/ ScanObject(c) \/ ScanArray(c) \/ ScanFault(c) \/ ReadFails(c)
    BY <2>2 DEF ScanDone, ScanObject, ScanArray, ScanFault, ReadFails
  <2> QED
    BY <1>1, <2>1, <2>2 DEF Ask, Locate, Lookup, Resolve, CachedClose, Extent, Deliver, Iterate,
       Enter, FillBatch, Exhaust, LastLandmarks, Break, At
<1> QED
  BY <1>2, <1>3

\* A program that awaits each call before the next has no other call to rob.
THEOREM LoneCallSpares ==
  ASSUME OneClient
  PROVE  SessionSpec => [][Spares]_vars
<1>1. TypeInv /\ [SessionNext]_vars => [Spares]_vars
  <2> SUFFICES ASSUME TypeInv, SessionNext PROVE Spares
    BY DEF vars
  <2> SUFFICES ASSUME NEW d \in Clients, NEW k \in DOMAIN nodes,
                      task'[d] = task[d], ReliesOn(task[d], k)
               PROVE  k \in DOMAIN nodes'
    BY DEF Spares
  <2>1. PICK c \in Clients :
          Ask(c) \/ Locate(c) \/ ReadFails(c) \/ Resolve(c) \/ Iterate(c) \/ Break(c)
    BY DEF SessionNext
  <2>2. c = d
    BY DEF OneClient
  <2> QED
    BY <2>1, <2>2, WriterMoves
<1>2. SessionInit => TypeInv
  BY InitType
<1>3. TypeInv /\ [SessionNext]_vars => TypeInv'
  BY NextType
<1> QED
  BY <1>1, <1>2, <1>3, PTL DEF SessionSpec

\* For such a program the index is invisible, whatever the caps, the budget and
\* the evictions: tables are dense, answers true, and the session a Query.
THEOREM LoneCallsAnswered ==
  ASSUME RootStart = 0, UniqueNames, OneClient
  PROVE  SessionSpec => []DensePrefix /\ []AnswersTransparent /\ ImplementsQuery
BY TablesDense, AnswersSound, SessionAnswersQuery, LoneCallSpares

\* And for any program under a budget that nothing is ever shed from.
THEOREM RoomyIndexAnswers ==
  ASSUME RootStart = 0, UniqueNames
  PROVE  SessionSpec /\ [][DOMAIN nodes \subseteq DOMAIN nodes']_vars
           => []DensePrefix /\ []AnswersTransparent /\ ImplementsQuery
<1>1. [DOMAIN nodes \subseteq DOMAIN nodes']_vars => [Spares]_vars
  BY DEF Spares
<1>2. [][DOMAIN nodes \subseteq DOMAIN nodes']_vars => [][Spares]_vars
  BY <1>1, PTL
<1> QED
  BY <1>2, TablesDense, AnswersSound, SessionAnswersQuery
=============================================================================
