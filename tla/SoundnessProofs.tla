-------------------------- MODULE SoundnessProofs --------------------------
(***************************************************************************)
(* The index never holds, and no call ever finds, what the text does not   *)
(* bear out: for every document that starts with its root value and has no *)
(* duplicate member names, every budget, cap and interval, and any number  *)
(* of calls interleaved with each other and with eviction.                 *)
(***************************************************************************)
EXTENDS SessionProofs

(***************************************************************************)
(* Nodes.                                                                  *)
(***************************************************************************)

\* What a truthful node says, with no whitespace to skip.
LEMMA NodeTruth ==
  ASSUME RootStart = 0, NEW k, NEW node, node.value_start \in Nat
  PROVE  LET v == node.value_start
         IN  NodeTruthful(k, node) <=>
               /\ v \in DOMAIN Doc /\ Doc[v].kind = node.kind
               /\ Leads(k[1], k[2], Len(k[2]), v)
               /\ node.close # None => node.close = Doc[v].close + 1
               /\ node.kind = "object" => \E p \in 1 .. Len(Entries(v)) + 1 : StandsAt(v, p, node.resume)
               /\ \A x \in DOMAIN node.members :
                    IF node.kind = "object"
                      THEN \E i \in DOMAIN Entries(v) :
                             Addresses(v, i, Member(x)) /\ node.members[x] = Entries(v)[i].value
                      ELSE StandsAt(v, x + 1, node.members[x])
<1>1. SkipWhitespace(node.value_start) = node.value_start
  BY NothingSkipped
<1> QED
  BY <1>1 DEF NodeTruthful, IsContainer

\* A fresh node knows where its container is and that nothing is tabled yet.
LEMMA FreshTruth ==
  ASSUME RootStart = 0, NEW v \in DOMAIN Doc, NEW k, Leads(k[1], k[2], Len(k[2]), v), NEW depth
  PROVE  NodeTruthful(k, FreshNode(Doc[v].kind, v, depth))
<1> DEFINE node == FreshNode(Doc[v].kind, v, depth)
<1>1. /\ node.value_start = v /\ node.kind = Doc[v].kind /\ node.close = None
      /\ node.kind = "object" => node.resume = v + 1
      /\ DOMAIN node.members = {}
  BY DEF FreshNode
<1>2. StandsAt(v, 1, v + 1) /\ 1 \in 1 .. Len(Entries(v)) + 1
  BY StandsAtOpen, ContainerFacts
<1> HIDE DEF node
<1>3. v \in Nat
  BY ContainerFacts
<1>4. node.kind = "object" => \E p \in 1 .. Len(Entries(v)) + 1 : StandsAt(v, p, node.resume)
  BY <1>1, <1>2
<1>5. /\ node.value_start \in Nat /\ node.value_start \in DOMAIN Doc
      /\ Doc[node.value_start].kind = node.kind
      /\ Leads(k[1], k[2], Len(k[2]), node.value_start)
  BY <1>1, <1>3
<1>6. NodeTruthful(k, node)
  BY <1>1, <1>4, <1>5, NodeTruth
<1> QED
  BY <1>6 DEF node

\* A write finds the node of its own container, or makes it.
LEMMA NodeForTruth ==
  ASSUME RootStart = 0, IndexTypeOK, CacheTruthful,
         NEW key \in Keys, NEW v \in DOMAIN Doc, Leads(key[1], key[2], Len(key[2]), v),
         NEW base_depth \in Nat
  PROVE  LET node == NodeFor(key, Doc[v].kind, v, base_depth)
         IN  NodeOK(node) /\ NodeTruthful(key, node) /\ node.value_start = v /\ node.kind = Doc[v].kind
<1>1. v \in Nat /\ Doc[v].kind \in Kinds
  BY ContainerFacts DEF Kinds
<1>2. NodeOK(NodeFor(key, Doc[v].kind, v, base_depth))
  BY <1>1, NodeForType
<1>3. CASE key \in DOMAIN nodes
  <2>1. NodeFor(key, Doc[v].kind, v, base_depth) = nodes[key]
    BY <1>3 DEF NodeFor
  <2>2. NodeTruthful(key, nodes[key]) /\ nodes[key].value_start \in Nat
    BY <1>3 DEF CacheTruthful, IndexTypeOK, NodeOK
  <2>3. /\ Leads(key[1], key[2], Len(key[2]), nodes[key].value_start)
        /\ Doc[nodes[key].value_start].kind = nodes[key].kind
    BY <2>2, NodeTruth
  <2>4. key[1] \in Nat /\ Len(key[2]) \in Nat
    BY LenProperties DEF Keys
  <2>5. nodes[key].value_start = v
    BY <1>1, <2>2, <2>3, <2>4, LeadsOnce
  <2> QED
    BY <1>2, <2>1, <2>2, <2>3, <2>5
<1>4. CASE key \notin DOMAIN nodes
  <2>1. NodeFor(key, Doc[v].kind, v, base_depth)
          = FreshNode(Doc[v].kind, v, base_depth + Len(key[2]))
    BY <1>4 DEF NodeFor
  <2> QED
    BY <1>2, <2>1, FreshTruth DEF FreshNode
<1> QED
  BY <1>3, <1>4

\* Being used changes nothing a node says.
LEMMA UsedTruth ==
  ASSUME NEW k, NEW node, NodeOK(node), NodeTruthful(k, node), NEW moment
  PROVE  NodeTruthful(k, [node EXCEPT !.last_used = moment])
<1> DEFINE used == [node EXCEPT !.last_used = moment]
<1>1. /\ used.value_start = node.value_start /\ used.kind = node.kind
      /\ used.close = node.close /\ used.resume = node.resume /\ used.members = node.members
  BY DEF NodeOK
<1> HIDE DEF used
<1>2. NodeTruthful(k, used)
  BY <1>1 DEF NodeTruthful
<1> QED
  BY <1>2 DEF used

\* Storing a truthful node, and shedding others, keeps the index truthful.
LEMMA PutTruth ==
  ASSUME RootStart = 0, CacheTruthful,
         NEW key, NEW node, NodeOK(node), NodeTruthful(key, node), Put(key, node)
  PROVE  CacheTruthful'
<1> DEFINE stored == [node EXCEPT !.last_used = tick + 1]
           written == [k \in DOMAIN nodes \cup {key} |-> IF k = key THEN stored ELSE nodes[k]]
<1>1. NodeTruthful(key, stored)
  BY UsedTruth
<1> HIDE DEF stored
<1>2. PICK gone : nodes' = [k \in DOMAIN written \ gone |-> written[k]]
  BY DEF Put, stored
<1>3. ASSUME NEW k \in DOMAIN nodes' PROVE NodeTruthful(k, nodes'[k])
  BY <1>1, <1>2 DEF CacheTruthful
<1> QED
  BY <1>3 DEF CacheTruthful

\* A container's close is stored truthfully.
LEMMA StoreCloseTruth ==
  ASSUME RootStart = 0, IndexTypeOK, CacheTruthful,
         NEW key \in Keys, NEW v \in DOMAIN Doc, Leads(key[1], key[2], Len(key[2]), v),
         NEW base_depth \in Nat,
         StoreClose(key, Doc[v].kind, v, base_depth, Doc[v].close + 1)
  PROVE  CacheTruthful'
<1>1. CASE IsEnabled
  <2> DEFINE known == NodeFor(key, Doc[v].kind, v, base_depth)
             node == [known EXCEPT !.close = Doc[v].close + 1]
  <2>1. NodeOK(known) /\ NodeTruthful(key, known) /\ known.value_start = v
    BY NodeForTruth
  <2> HIDE DEF known
  <2>2. /\ node.value_start = known.value_start /\ node.kind = known.kind
        /\ node.close = Doc[v].close + 1 /\ node.resume = known.resume /\ node.members = known.members
    BY <2>1 DEF NodeOK
  <2>3. NodeOK(node)
    <3>1. Doc[v].close + 1 \in Nat
      BY ContainerFacts
    <3> HIDE DEF known
    <3> QED
      BY <2>1, <3>1 DEF NodeOK
  <2> HIDE DEF node
  <2>4. NodeTruthful(key, node)
    <3>1. SkipWhitespace(known.value_start) = v
      BY <2>1, NothingSkipped, ContainerFacts
    <3> QED
      BY <2>1, <2>2, <3>1 DEF NodeTruthful
  <2> QED
    BY <1>1, <2>3, <2>4, PutTruth DEF StoreClose, known, node
<1>2. CASE ~ IsEnabled
  BY <1>2 DEF StoreClose, indexVars, CacheTruthful
<1> QED
  BY <1>1, <1>2

\* Elements of an array, each at its index.
ElementsOf(v, new) ==
  /\ IsTable(new) /\ DOMAIN new \subseteq Nat
  /\ \A i \in DOMAIN new : StandsAt(v, i + 1, new[i])

\* An array scan is merged truthfully.
LEMMA MergeArrayScanTruth ==
  ASSUME RootStart = 0, IndexTypeOK, CacheTruthful,
         NEW key \in Keys, NEW v \in DOMAIN Doc, Leads(key[1], key[2], Len(key[2]), v),
         Doc[v].kind = "array", NEW base_depth \in Nat,
         NEW new, ElementsOf(v, new), MergeArrayScan(key, v, base_depth, new)
  PROVE  CacheTruthful'
<1>1. CASE IsEnabled
  <2> DEFINE known == NodeFor(key, "array", v, base_depth)
             node == MergeArray(known, new)
             merged == [i \in DOMAIN known.members \cup DOMAIN new |->
                          IF i \in DOMAIN known.members THEN known.members[i] ELSE new[i]]
  <2>1. NodeOK(known) /\ NodeTruthful(key, known) /\ known.value_start = v /\ known.kind = "array"
    BY NodeForTruth
  <2> HIDE DEF known
  <2>2. NodeOK(node)
    BY <2>1, MergeArrayType DEF ElementsOf
  <2>3. node = [known EXCEPT !.members = merged]
    BY <2>1 DEF MergeArray
  <2> HIDE DEF merged
  <2>4. /\ node.value_start = v /\ node.kind = "array" /\ node.close = known.close
        /\ node.members = merged
    BY <2>1, <2>3 DEF NodeOK
  <2> HIDE DEF node
  <2>5. \A i \in DOMAIN known.members : StandsAt(v, i + 1, known.members[i])
    BY <2>1, NodeTruth DEF NodeOK
  <2>6. \A i \in DOMAIN merged : StandsAt(v, i + 1, merged[i])
    BY <2>5 DEF ElementsOf, merged
  <2>7. NodeTruthful(key, node)
    BY <2>1, <2>4, <2>6, NodeTruth DEF NodeOK
  <2> QED
    BY <1>1, <2>2, <2>7, PutTruth DEF MergeArrayScan, known, node
<1>2. CASE ~ IsEnabled
  BY <1>2 DEF MergeArrayScan, indexVars, CacheTruthful
<1> QED
  BY <1>1, <1>2

\* Members of an object, in any order, and a mark that stands at one of them
\* or at the close.
MembersOf(v, new, hint) ==
  /\ new \in Seq(NamedEntry)
  /\ \A j \in DOMAIN new : \E i \in DOMAIN Entries(v) : new[j] = Entries(v)[i]
  /\ hint # None => \E p \in 1 .. Len(Entries(v)) + 1 : StandsAt(v, p, hint)

\* With no duplicate names, a member is the one its name addresses.
LEMMA UniqueMember ==
  ASSUME UniqueNames, NEW v \in DOMAIN Doc, Doc[v].kind = "object", NEW i \in DOMAIN Entries(v),
         NEW segment, IsMember(segment), segment.member = Entries(v)[i].name
  PROVE  Addresses(v, i, segment)
<1>1. \A j \in 1 .. i - 1 : Entries(v)[j].name # segment.member
  <2> SUFFICES ASSUME NEW j \in 1 .. i - 1 PROVE Entries(v)[j].name # segment.member
    OBVIOUS
  <2>1. j \in DOMAIN Entries(v) /\ i # j
    BY ContainerFacts
  <2> QED
    BY <2>1 DEF UniqueNames
<1> QED
  BY <1>1 DEF Addresses

\* The mark that a merge offers stands where a scan can resume.
LEMMA ReachedTruth ==
  ASSUME NEW v \in DOMAIN Doc, NEW node, node.kind = "object",
         \E p \in 1 .. Len(Entries(v)) + 1 : StandsAt(v, p, node.resume),
         NEW new, NEW hint, MembersOf(v, new, hint)
  PROVE  \E p \in 1 .. Len(Entries(v)) + 1 : StandsAt(v, p, Reached(node, new, hint))
<1> DEFINE overflow == Untabled(node, new) \ Tabled(node, new)
<1>1. ASSUME NEW j \in DOMAIN new
      PROVE  \E p \in 1 .. Len(Entries(v)) + 1 : StandsAt(v, p, new[j].at)
  <2>1. PICK i \in DOMAIN Entries(v) : new[j] = Entries(v)[i]
    BY DEF MembersOf
  <2>2. i \in 1 .. Len(Entries(v)) /\ i \in 1 .. Len(Entries(v)) + 1
    BY ContainerFacts
  <2> QED
    BY <2>1, <2>2 DEF StandsAt
<1>2. overflow \in SUBSET DOMAIN new /\ DOMAIN new \in SUBSET Nat
  BY TabledPositions, LenProperties DEF MembersOf
<1>3. CASE overflow # {}
  <2>1. Min(overflow) \in DOMAIN new
    BY <1>2, <1>3, MinNat
  <2>2. Reached(node, new, hint) = new[Min(overflow)].at
    BY <1>3 DEF Reached
  <2> QED
    BY <1>1, <2>1, <2>2
<1>4. CASE overflow = {} /\ hint # None
  BY <1>4 DEF Reached, MembersOf
<1>5. CASE overflow = {} /\ hint = None /\ new # <<>>
  <2>1. Len(new) \in DOMAIN new
    BY <1>5, LenProperties, EmptySeq DEF MembersOf
  <2>2. Reached(node, new, hint) = new[Len(new)].at
    BY <1>5 DEF Reached
  <2> QED
    BY <1>1, <2>1, <2>2
<1>6. CASE overflow = {} /\ hint = None /\ new = <<>>
  BY <1>6 DEF Reached
<1> QED
  BY <1>3, <1>4, <1>5, <1>6

\* An object scan is merged truthfully.
LEMMA MergeObjectScanTruth ==
  ASSUME RootStart = 0, UniqueNames, IndexTypeOK, CacheTruthful,
         NEW key \in Keys, NEW v \in DOMAIN Doc, Leads(key[1], key[2], Len(key[2]), v),
         Doc[v].kind = "object", NEW base_depth \in Nat,
         NEW new, NEW hint \in Nat \cup {None}, MembersOf(v, new, hint),
         MergeObjectScan(key, v, base_depth, new, hint)
  PROVE  CacheTruthful'
<1>1. CASE IsEnabled
  <2> DEFINE known == NodeFor(key, "object", v, base_depth)
             node == MergeObject(known, new, hint)
             tabled == Tabled(known, new)
             merged == [n \in DOMAIN known.members \cup {new[i].name : i \in tabled} |->
                          IF n \in DOMAIN known.members
                            THEN known.members[n]
                            ELSE new[CHOOSE i \in tabled : new[i].name = n].value]
             mark == Advanced(known.resume, Reached(known, new, hint))
  <2>1. NodeOK(known) /\ NodeTruthful(key, known) /\ known.value_start = v /\ known.kind = "object"
    BY NodeForTruth
  <2> HIDE DEF known
  <2>2. NodeOK(node)
    BY <2>1, MergeObjectType DEF MembersOf
  <2>3. node = [known EXCEPT !.members = merged, !.resume = mark]
    BY <2>1 DEF MergeObject
  <2> HIDE DEF merged, mark
  <2>4. /\ node.value_start = v /\ node.kind = "object" /\ node.close = known.close
        /\ node.members = merged /\ node.resume = mark
    BY <2>1, <2>3 DEF NodeOK
  <2> HIDE DEF node
  <2>5. /\ \E p \in 1 .. Len(Entries(v)) + 1 : StandsAt(v, p, known.resume)
        /\ \A n \in DOMAIN known.members :
             \E i \in DOMAIN Entries(v) :
               Addresses(v, i, Member(n)) /\ known.members[n] = Entries(v)[i].value
    BY <2>1, NodeTruth DEF NodeOK
  <2>6. \E p \in 1 .. Len(Entries(v)) + 1 : StandsAt(v, p, mark)
    BY <2>1, <2>5, ReachedTruth DEF Advanced, mark
  <2>7. ASSUME NEW n \in DOMAIN merged
        PROVE  \E i \in DOMAIN Entries(v) :
                 Addresses(v, i, Member(n)) /\ merged[n] = Entries(v)[i].value
    <3>1. CASE n \in DOMAIN known.members
      <4>1. merged[n] = known.members[n]
        BY <3>1 DEF merged
      <4> QED
        BY <2>5, <3>1, <4>1
    <3>2. CASE n \notin DOMAIN known.members
      <4> DEFINE j == CHOOSE i \in tabled : new[i].name = n
      <4>1. \E i \in tabled : new[i].name = n
        BY <3>2 DEF merged
      <4>2. j \in tabled /\ new[j].name = n
        BY <4>1
      <4>3. merged[n] = new[j].value
        BY <3>2 DEF merged
      <4> HIDE DEF j
      <4>4. j \in DOMAIN new
        BY <4>2, TabledPositions
      <4>5. PICK i \in DOMAIN Entries(v) : new[j] = Entries(v)[i]
        BY <4>4 DEF MembersOf
      <4>6. Addresses(v, i, Member(n))
        BY <4>2, <4>5, UniqueMember DEF Member, IsMember
      <4> QED
        BY <4>3, <4>5, <4>6
    <3> QED
      BY <3>1, <3>2
  <2>8. NodeTruthful(key, node)
    BY <2>1, <2>4, <2>6, <2>7, NodeTruth DEF NodeOK
  <2> QED
    BY <1>1, <2>2, <2>8, PutTruth DEF MergeObjectScan, known, node
<1>2. CASE ~ IsEnabled
  BY <1>2 DEF MergeObjectScan, indexVars, CacheTruthful
<1> QED
  BY <1>1, <1>2


(***************************************************************************)
(* Calls in flight.                                                        *)
(***************************************************************************)

\* A scan that was recorded saw what the text holds.
ScanTruthful(t, scan) ==
  /\ scan.value_start \in DOMAIN Doc /\ Doc[scan.value_start].kind = scan.kind
  /\ Leads(t.anchor, t.path, scan.seg, scan.value_start)
  /\ scan.kind = "object" => MembersOf(scan.value_start, scan.members, scan.resume)
  /\ scan.kind = "array" => ElementsOf(scan.value_start, scan.members)

\* A seed stands in the container that is scanned next.
SeedTruthful(t) ==
  t.seed # None =>
    /\ t.start \in DOMAIN Doc /\ Doc[t.start].kind = t.seed.kind
    /\ \E p \in 1 .. Len(Entries(t.start)) + 1 :
         /\ StandsAt(t.start, p, t.seed.offset)
         /\ t.seed.kind = "array" => p = t.seed.index + 1

\* What a call knows at each stage.
TaskTruthful(t) ==
  /\ Leads(t.anchor, t.path, t.seg, t.start)
  /\ \A i \in DOMAIN t.record : ScanTruthful(t, t.record[i])
  /\ t.pc \in {"lookup", "scan"} => t.status = "none"
  /\ t.pc = "lookup" => t.seed = None
  /\ t.pc = "scan" => SeedTruthful(t)
  /\ t.status = "found" => t.seg = Len(t.path)
  /\ t.pc \in {"close", "extent", "deliver", "enter", "iterate", "landmarks"} => t.status = "found"
  /\ t.pc = "deliver" => t.op = "has" \/ t.end = ValueEnd(t.start)
  /\ t.pc \in {"enter", "iterate", "landmarks"} => t.op = "iter"
  /\ t.pc \in {"lookup", "scan", "write", "enter"} => t.idx = 0
  /\ t.pc = "iterate" => t.idx <= Len(Entries(t.start))
  /\ t.pc = "landmarks" => /\ ElementsOf(t.start, t.marks)
                           /\ DOMAIN t.marks # {} => Doc[t.start].kind = "array"
  /\ t.pc = "done" /\ t.status = "found" /\ t.op \in {"get", "hop"} => t.end = ValueEnd(t.start)

TasksTruthful == \A c \in Clients : TaskTruthful(task[c])

SoundInv == TypeInv /\ CacheTruthful /\ TasksTruthful

\* What SoundInv says of one call.
LEMMA SoundFacts ==
  ASSUME RootStart = 0, SoundInv, NEW c \in Clients
  PROVE  /\ TypeInv /\ CacheTruthful /\ IndexTypeOK
         /\ TaskTruthful(task[c]) /\ TaskOK(task[c])
         /\ task[c].anchor \in Nat /\ task[c].depth \in Nat /\ task[c].start \in Nat
         /\ task[c].path \in Seq(Segment) /\ Len(task[c].path) \in Nat /\ task[c].seg \in 0 .. Len(task[c].path)
         /\ Container(c) = task[c].start
<1>1. TypeInv /\ CacheTruthful /\ TaskTruthful(task[c])
  BY DEF SoundInv, TasksTruthful
<1>2. TaskOK(task[c]) /\ IndexTypeOK /\ Len(task[c].path) \in Nat
  BY <1>1, TaskFacts
<1>3. Container(c) = task[c].start
  BY <1>2, NothingSkipped DEF TaskOK, Container
<1> QED
  BY <1>1, <1>2, <1>3 DEF TaskOK

\* A step of one call leaves the others as they were.
LEMMA OneTask ==
  ASSUME SoundInv, NEW c \in Clients, NEW u, TaskTruthful(u), task' = [task EXCEPT ![c] = u]
  PROVE  TasksTruthful'
<1>1. \A e \in Clients : task'[e] = IF e = c THEN u ELSE task[e]
  BY DEF SoundInv, TypeInv, TypeOK
<1>2. \A e \in Clients : TaskTruthful(task'[e])
  BY <1>1 DEF SoundInv, TasksTruthful
<1> QED
  BY <1>2 DEF TasksTruthful

\* An index that no step touches stays truthful.
LEMMA QuietTruth ==
  ASSUME CacheTruthful, UNCHANGED <<nodes, slots_used, tick>>
  PROVE  CacheTruthful'
BY DEF CacheTruthful

\* A key leads where the path it was cut from leads.
LEMMA KeyLeads ==
  ASSUME NEW anchor \in Nat, NEW path \in Seq(Segment), NEW seg \in 0 .. Len(path), NEW offset
  PROVE  LET key == Key(anchor, path, seg)
         IN  Leads(anchor, path, seg, offset) <=> Leads(key[1], key[2], Len(key[2]), offset)
<1> DEFINE prefix == SubSeq(path, 1, seg)
<1>1. Len(path) \in Nat /\ \A n \in 1 .. seg : path[n] \in Segment
  BY LenProperties
<1>2. Len(prefix) = seg /\ \A n \in 1 .. seg : prefix[n] = path[n]
  BY <1>1, SubSeqProperties
<1>3. Key(anchor, path, seg)[1] = anchor /\ Key(anchor, path, seg)[2] = prefix
  BY DEF Key
<1> HIDE DEF prefix
<1>4. seg \in Nat
  BY <1>1
<1>5. Leads(anchor, path, seg, offset) => Leads(anchor, prefix, seg, offset)
  BY <1>2, <1>4, LeadsAlike
<1>6. Leads(anchor, prefix, seg, offset) => Leads(anchor, path, seg, offset)
  BY <1>2, <1>4, LeadsAlike
<1> QED
  BY <1>2, <1>3, <1>5, <1>6

(***************************************************************************)
(* Lookup.                                                                 *)
(***************************************************************************)

\* A lookup changes nothing in a node but when it was used.
LEMMA TouchTruth ==
  ASSUME IndexTypeOK, CacheTruthful,
         NEW anchor, NEW path, NEW seg, TouchChain(anchor, path, seg)
  PROVE  CacheTruthful'
<1>1. ASSUME NEW k \in DOMAIN nodes' PROVE NodeTruthful(k, nodes'[k])
  <2>1. k \in DOMAIN nodes /\ NodeOK(nodes[k]) /\ NodeTruthful(k, nodes[k])
    BY DEF TouchChain, IndexTypeOK, CacheTruthful
  <2>2. \/ nodes'[k] = nodes[k]
        \/ nodes'[k] = [nodes[k] EXCEPT !.last_used = tick + 1 + Len(k[2])]
    BY <2>1 DEF TouchChain
  <2> QED
    BY <2>1, <2>2, UsedTruth
<1> QED
  BY <1>1 DEF CacheTruthful

\* The tabled members a lookup hops along lead where its path leads.
LEMMA ChainStartTruth ==
  ASSUME RootStart = 0, IndexTypeOK, CacheTruthful,
         NEW anchor \in Nat, NEW path \in Seq(Segment), NEW seg \in 0 .. Len(path),
         ChainStopsAt(anchor, path, seg)
  PROVE  Leads(anchor, path, seg, ChainStart(anchor, path, seg))
<1>1. CASE seg = 0
  BY <1>1, LeadsToAnchor DEF ChainStart
<1>2. CASE seg # 0
  <2> DEFINE key  == Key(anchor, path, seg - 1)
             node == nodes[key]
             v    == node.value_start
             name == path[seg].member
  <2>1. seg \in 1 .. seg /\ seg \in Nat /\ seg - 1 \in Nat /\ seg - 1 \in 0 .. Len(path) /\ (seg - 1) + 1 = seg
    BY <1>2, LenProperties
  <2>2. /\ key \in DOMAIN nodes /\ node.kind = "object"
        /\ IsMember(path[seg]) /\ name \in DOMAIN node.members
    BY <2>1 DEF ChainStopsAt, HopsInto
  <2>3. NodeTruthful(key, node) /\ v \in Nat
    BY <2>2 DEF CacheTruthful, IndexTypeOK, NodeOK
  <2>4. ChainStart(anchor, path, seg) = node.members[name]
    BY <1>2 DEF ChainStart
  <2> HIDE DEF key, node
  <2>5. /\ v \in DOMAIN Doc
        /\ Leads(key[1], key[2], Len(key[2]), v)
        /\ \E i \in DOMAIN Entries(v) :
             Addresses(v, i, Member(name)) /\ node.members[name] = Entries(v)[i].value
    BY <2>2, <2>3, NodeTruth
  <2>6. PICK i \in DOMAIN Entries(v) :
          Addresses(v, i, Member(name)) /\ node.members[name] = Entries(v)[i].value
    BY <2>5
  <2>7. Addresses(v, i, path[seg])
    BY <2>2, <2>6 DEF Addresses, Member, IsMember
  <2>8. Leads(anchor, path, seg - 1, v)
    BY <2>1, <2>5, KeyLeads DEF key
  <2>9. Leads(anchor, path, (seg - 1) + 1, Entries(v)[i].value)
    BY <2>1, <2>5, <2>7, <2>8, LeadsOn
  <2> QED
    BY <2>1, <2>4, <2>6, <2>9
<1> QED
  BY <1>1, <1>2

\* A lookup's seed stands in the container that the lookup lands on.
LEMMA ChainSeedTruth ==
  ASSUME RootStart = 0, IndexTypeOK, CacheTruthful,
         NEW anchor \in Nat, NEW path \in Seq(Segment), NEW seg \in 0 .. Len(path),
         ChainStopsAt(anchor, path, seg), ChainSeed(anchor, path, seg) # None
  PROVE  LET seed == ChainSeed(anchor, path, seg)
             v    == ChainStart(anchor, path, seg)
         IN  /\ v \in DOMAIN Doc /\ Doc[v].kind = seed.kind
             /\ \E p \in 1 .. Len(Entries(v)) + 1 :
                  /\ StandsAt(v, p, seed.offset)
                  /\ seed.kind = "array" => p = seed.index + 1
<1> DEFINE key  == Key(anchor, path, seg)
           node == nodes[key]
           v    == node.value_start
           seed == ChainSeed(anchor, path, seg)
           target == path[seg + 1].element
           below == {i \in DOMAIN node.members : i <= target}
<1>1. seg # Len(path) /\ key \in DOMAIN nodes /\ node.kind = KindOf(path[seg + 1])
  BY DEF ChainSeed
<1>2. NodeTruthful(key, node) /\ NodeOK(node) /\ v \in Nat
  BY <1>1 DEF CacheTruthful, IndexTypeOK, NodeOK
<1>3. seed = IF node.kind = "object"
               THEN ResumePoint("object", 0, node.resume)
               ELSE NearestArrayMember(node, target)
  BY <1>1 DEF ChainSeed
<1>4. seg \in Nat /\ ChainStart(anchor, path, seg) \in Nat /\ Len(path) \in Nat
  BY ChainStartType, LenProperties
<1>5. ~ IsMember(path[seg + 1]) => target \in Nat
  <2>1. path[seg + 1] \in Segment
    BY <1>1, <1>4, LenProperties
  <2> QED
    BY <2>1 DEF Segment, IsMember
<1> HIDE DEF node, seed, target
<1>6. /\ v \in DOMAIN Doc /\ Doc[v].kind = node.kind
      /\ Leads(key[1], key[2], Len(key[2]), v)
      /\ node.kind = "object" => \E p \in 1 .. Len(Entries(v)) + 1 : StandsAt(v, p, node.resume)
      /\ node.kind # "object" => \A i \in DOMAIN node.members : StandsAt(v, i + 1, node.members[i])
  BY <1>2, NodeTruth
<1>7. ChainStart(anchor, path, seg) = v
  <2>1. Leads(anchor, path, seg, v)
    BY <1>6, KeyLeads
  <2>2. Leads(anchor, path, seg, ChainStart(anchor, path, seg))
    BY ChainStartTruth
  <2> QED
    BY <1>2, <1>4, <2>1, <2>2, LeadsOnce
<1>8. CASE node.kind = "object"
  <2>1. seed.kind = "object" /\ seed.offset = node.resume
    BY <1>3, <1>8 DEF ResumePoint
  <2>2. \E p \in 1 .. Len(Entries(v)) + 1 :
          /\ StandsAt(v, p, seed.offset)
          /\ seed.kind = "array" => p = seed.index + 1
    BY <1>6, <1>8, <2>1
  <2> QED
    BY <1>6, <1>7, <1>8, <2>1, <2>2 DEF seed
<1>9. CASE node.kind # "object"
  <2>1. node.kind = "array" /\ ~ IsMember(path[seg + 1])
    BY <1>1, <1>9, <1>2 DEF NodeOK, Kinds, KindOf
  <2>2. seed = NearestArrayMember(node, target) /\ seed # None /\ target \in Nat
    BY <1>3, <1>5, <1>9, <2>1 DEF seed
  <2>3. below # {}
    BY <2>2 DEF NearestArrayMember
  <2>4. below \in SUBSET Nat /\ \A i \in below : i <= target
    BY <1>2, <2>1 DEF NodeOK
  <2>5. Max(below) \in below
    BY <2>2, <2>3, <2>4, MaxNat
  <2>6. seed = ResumePoint("array", Max(below), node.members[Max(below)])
    BY <2>2, <2>3 DEF NearestArrayMember
  <2> DEFINE m == Max(below)
  <2>7. m \in DOMAIN node.members
    BY <2>5
  <2> HIDE DEF m
  <2>8. seed.kind = "array" /\ seed.index = m /\ seed.offset = node.members[m]
    BY <2>6 DEF ResumePoint, m
  <2>9. StandsAt(v, seed.index + 1, seed.offset)
    BY <1>6, <1>9, <2>7, <2>8
  <2>10. \E p \in 1 .. Len(Entries(v)) + 1 : StandsAt(v, p, seed.offset) /\ p = seed.index + 1
    BY <2>9 DEF StandsAt
  <2> QED
    BY <1>6, <1>7, <2>1, <2>8, <2>10 DEF seed
<1> QED
  BY <1>8, <1>9

\* A lookup starts its call at a place its path leads to, with a seed there.
LEMMA LookupTruth ==
  ASSUME RootStart = 0, SoundInv, NEW c \in Clients, Lookup(c)
  PROVE  CacheTruthful' /\ TasksTruthful'
<1> DEFINE t == task[c]
<1>0. /\ TaskTruthful(t) /\ TaskOK(t) /\ t.pc = "lookup" /\ CacheTruthful /\ IndexTypeOK
      /\ t.anchor \in Nat /\ t.path \in Seq(Segment)
  BY SoundFacts DEF Lookup, At
<1>1. CASE IsEnabled
  <2>1. PICK seg \in 0 .. Len(t.path) :
          /\ ChainStopsAt(t.anchor, t.path, seg)
          /\ TouchChain(t.anchor, t.path, seg)
          /\ task' = [task EXCEPT ![c].pc = "scan", ![c].seg = seg,
                        ![c].start = ChainStart(t.anchor, t.path, seg),
                        ![c].seed = ChainSeed(t.anchor, t.path, seg)]
    BY <1>1 DEF Lookup
  <2> DEFINE start == ChainStart(t.anchor, t.path, seg)
             seed == ChainSeed(t.anchor, t.path, seg)
             u == [t EXCEPT !.pc = "scan", !.seg = seg, !.start = start, !.seed = seed]
  <2>2. Leads(t.anchor, t.path, seg, start)
    BY <1>0, <2>1, ChainStartTruth
  <2>3. seed # None => /\ start \in DOMAIN Doc /\ Doc[start].kind = seed.kind
                       /\ \E p \in 1 .. Len(Entries(start)) + 1 :
                            /\ StandsAt(start, p, seed.offset)
                            /\ seed.kind = "array" => p = seed.index + 1
    BY <1>0, <2>1, ChainSeedTruth
  <2>4. task' = [task EXCEPT ![c] = u]
    BY <2>1
  <2> HIDE DEF start, seed, t
  <2>5. /\ u.pc = "scan" /\ u.seg = seg /\ u.start = start /\ u.seed = seed
        /\ u.anchor = t.anchor /\ u.path = t.path /\ u.record = t.record /\ u.status = t.status
        /\ u.idx = t.idx
    BY <1>0 DEF TaskOK, IdleTask
  <2> HIDE DEF u
  <2>6. u.status # "found"
    BY <1>0, <2>5 DEF TaskTruthful
  <2>7. TaskTruthful(u)
    BY <1>0, <2>2, <2>3, <2>5, <2>6 DEF TaskTruthful, ScanTruthful, SeedTruthful
  <2> QED
    BY <1>0, <2>1, <2>4, <2>7, OneTask, TouchTruth
<1>2. CASE ~ IsEnabled
  <2> DEFINE u == [t EXCEPT !.pc = "scan"]
  <2>1. task' = [task EXCEPT ![c] = u] /\ UNCHANGED <<nodes, slots_used, tick>>
    BY <1>2 DEF Lookup, indexVars
  <2> HIDE DEF t
  <2>2. /\ u.pc = "scan" /\ u.seg = t.seg /\ u.start = t.start /\ u.seed = t.seed
        /\ u.anchor = t.anchor /\ u.path = t.path /\ u.record = t.record /\ u.status = t.status
        /\ u.idx = t.idx
    BY <1>0 DEF TaskOK, IdleTask
  <2> HIDE DEF u
  <2>3. TaskTruthful(u)
    BY <1>0, <2>2 DEF TaskTruthful, ScanTruthful, SeedTruthful
  <2> QED
    BY <1>0, <2>1, <2>3, OneTask, QuietTruth
<1> QED
  BY <1>1, <1>2

(***************************************************************************)
(* Scans.                                                                  *)
(***************************************************************************)

\* A call arrives at its cursor's anchor, where no segments lead.
LEMMA AskTruth ==
  ASSUME RootStart = 0, SoundInv, NEW c \in Clients, Ask(c)
  PROVE  CacheTruthful' /\ TasksTruthful'
<1>1. PICK cursor \in cursors, op \in Ops, path \in Paths :
        task' = [task EXCEPT ![c] = [IdleTask EXCEPT
                  !.pc = "lookup", !.op = op, !.path = path, !.start = cursor.anchor,
                  !.anchor = cursor.anchor, !.depth = cursor.depth]]
  BY DEF Ask
<1> DEFINE u == [IdleTask EXCEPT
                  !.pc = "lookup", !.op = op, !.path = path, !.start = cursor.anchor,
                  !.anchor = cursor.anchor, !.depth = cursor.depth]
<1>2. cursor.anchor \in Nat
  BY SoundFacts, TaskFacts
<1>3. /\ u.pc = "lookup" /\ u.seg = 0 /\ u.start = cursor.anchor /\ u.seed = None
      /\ u.anchor = cursor.anchor /\ u.path = path /\ u.record = <<>> /\ u.status = "none" /\ u.idx = 0
  BY DEF IdleTask
<1> HIDE DEF u
<1>4. Leads(u.anchor, u.path, u.seg, u.start)
  BY <1>2, <1>3, LeadsToAnchor
<1>5. TaskTruthful(u)
  BY <1>3, <1>4 DEF TaskTruthful
<1> QED
  BY <1>1, <1>5, OneTask, QuietTruth, SoundFacts DEF Ask, u

\* A truthful scan is recorded, and the call moves on along its path, or stays.
LEMMA StepTruth ==
  ASSUME RootStart = 0, SoundInv, NEW c \in Clients, At(c, "scan"),
         NEW scan, ScanTruthful(task[c], scan),
         NEW to, Step(c, scan, to),
         to # None => Leads(task[c].anchor, task[c].path, task[c].seg + 1, to),
         UNCHANGED <<nodes, slots_used, tick>>
  PROVE  CacheTruthful' /\ TasksTruthful'
<1> DEFINE t == task[c]
           record == Append(t.record, scan)
           u == [t EXCEPT
                  !.record = record,
                  !.seed = None,
                  !.seg = IF to = None THEN t.seg ELSE t.seg + 1,
                  !.start = IF to = None THEN Container(c) ELSE to,
                  !.pc = IF to = None THEN "write" ELSE "scan",
                  !.status = IF to = None THEN "absent" ELSE "none"]
<1>1. TaskTruthful(t) /\ TaskOK(t) /\ Container(c) = t.start /\ t.idx = 0
  BY SoundFacts DEF TaskTruthful, At
<1>2. task' = [task EXCEPT ![c] = u]
  BY DEF Step
<1>3. \A i \in DOMAIN record : ScanTruthful(t, record[i])
  BY <1>1, AppendSequence DEF TaskOK, TaskTruthful
<1> HIDE DEF t, record
<1>4. /\ u.anchor = t.anchor /\ u.path = t.path /\ u.record = record /\ u.seed = None
      /\ u.seg = (IF to = None THEN t.seg ELSE t.seg + 1)
      /\ u.start = (IF to = None THEN t.start ELSE to)
      /\ u.pc = (IF to = None THEN "write" ELSE "scan")
      /\ u.status = (IF to = None THEN "absent" ELSE "none")
      /\ u.idx = t.idx
  BY <1>1 DEF TaskOK, IdleTask
<1> HIDE DEF u
<1>5. Leads(u.anchor, u.path, u.seg, u.start)
  BY <1>1, <1>4 DEF TaskTruthful, t
<1>6. \A i \in DOMAIN u.record : ScanTruthful(u, u.record[i])
  BY <1>3, <1>4 DEF ScanTruthful
<1>7. TaskTruthful(u)
  BY <1>1, <1>4, <1>5, <1>6 DEF TaskTruthful, SeedTruthful
<1> QED
  BY <1>1, <1>2, <1>7, OneTask, QuietTruth, SoundFacts DEF t

\* A scan reads from where an entry of its container stands: the first, or the
\* one its seed stands at.
LEMMA ScannedTruth ==
  ASSUME RootStart = 0, SoundInv, NEW c \in Clients, At(c, "scan"),
         NEW v \in DOMAIN Doc, v = Container(c)
  PROVE  /\ ScannedStart(c) = v
         /\ Leads(task[c].anchor, task[c].path, task[c].seg, v)
         /\ task[c].seed = None => StandsAt(v, 1, ScanFrom(c))
         /\ task[c].seed # None /\ task[c].seed.kind = "array" =>
              StandsAt(v, task[c].seed.index + 1, ScanFrom(c))
         /\ task[c].seed # None => Doc[v].kind = task[c].seed.kind
<1>1. TaskTruthful(task[c]) /\ v = task[c].start
  BY SoundFacts
<1>2. ScannedStart(c) = v
  BY <1>1 DEF ScannedStart
<1>3. StandsAt(v, 1, v + 1)
  BY StandsAtOpen
<1> QED
  BY <1>1, <1>2, <1>3 DEF ScanFrom, TaskTruthful, SeedTruthful, At

\* An object scan records members of its object, and finds the one addressed.
LEMMA ScanObjectTruth ==
  ASSUME RootStart = 0, UniqueNames, SoundInv, NEW c \in Clients, ScanObject(c)
  PROVE  CacheTruthful' /\ TasksTruthful'
<1> DEFINE t == task[c]
           v == Container(c)
           entries == Entries(v)
           segment == t.path[t.seg + 1]
<1>1. /\ At(c, "scan") /\ v \in DOMAIN Doc /\ Doc[v].kind = "object" /\ IsMember(segment)
      /\ UNCHANGED <<nodes, slots_used, tick>>
  BY DEF ScanObject, IsContainer
<1>2. /\ ScannedStart(c) = v /\ Leads(t.anchor, t.path, t.seg, v)
      /\ t.anchor \in Nat /\ t.seg \in Nat
  BY <1>1, ScannedTruth, SoundFacts
<1>3. ASSUME NEW from \in Nat \ {0}, NEW to \in 0 .. Len(entries), NEW resume,
             NEW p \in 1 .. Len(entries) + 1, StandsAt(v, p, resume)
      PROVE  ScanTruthful(t, ObjectScan(c, from, to, resume))
  <2>1. ASSUME NEW i \in from .. to
        PROVE  entries[i] \in NamedEntry /\ i \in DOMAIN entries
    BY <1>1, <1>3, EntryFacts, ContainerFacts
  <2> DEFINE seen == SubSeq(entries, from, to)
  <2>2. /\ seen \in Seq(NamedEntry)
        /\ \A j \in DOMAIN seen : j \in 1 .. Len(seen) /\ seen[j] = entries[from + j - 1]
        /\ Len(seen) = IF from <= to THEN to - from + 1 ELSE 0
    BY <1>1, <1>3, <2>1, SubSeqProperties, ContainerFacts
  <2>3. ASSUME NEW j \in DOMAIN seen PROVE \E i \in DOMAIN entries : seen[j] = entries[i]
    <3>1. from + j - 1 \in from .. to
      BY <1>1, <1>3, <2>2, ContainerFacts
    <3> QED
      BY <2>1, <2>2, <3>1
  <2> HIDE DEF seen
  <2>4. MembersOf(v, seen, resume)
    BY <1>3, <2>2, <2>3 DEF MembersOf
  <2>5. MembersOf(v, <<>>, None)
    BY EmptySeq DEF MembersOf
  <2>6. \/ ObjectScan(c, from, to, resume) = Scan(t.seg, "object", v, seen, resume)
        \/ ObjectScan(c, from, to, resume) = Scan(t.seg, "object", v, <<>>, None)
    BY <1>2 DEF ObjectScan, seen
  <2> QED
    BY <1>1, <1>2, <2>4, <2>5, <2>6 DEF ScanTruthful, Scan
<1>4. PICK first \in 1 .. Len(entries) + 1 :
        \/ \E i \in first .. Len(entries) :
             /\ entries[i].name = segment.member
             /\ Step(c, ObjectScan(c, first, i, entries[i].at), entries[i].value)
        \/ Step(c, ObjectScan(c, first, Len(entries), Doc[v].close), None)
  BY DEF ScanObject
<1>5. Len(entries) \in Nat /\ first \in Nat \ {0} /\ DOMAIN entries = 1 .. Len(entries)
  BY <1>1, ContainerFacts
<1>6. CASE Step(c, ObjectScan(c, first, Len(entries), Doc[v].close), None)
  <2>1. StandsAt(v, Len(entries) + 1, Doc[v].close) /\ Len(entries) + 1 \in 1 .. Len(entries) + 1
    BY <1>5 DEF StandsAt
  <2>2. ScanTruthful(t, ObjectScan(c, first, Len(entries), Doc[v].close))
    BY <1>3, <1>5, <2>1
  <2> QED
    BY <1>1, <1>6, <2>2, StepTruth
<1>7. ASSUME NEW i \in first .. Len(entries), entries[i].name = segment.member,
             Step(c, ObjectScan(c, first, i, entries[i].at), entries[i].value)
      PROVE  CacheTruthful' /\ TasksTruthful'
  <2>1. i \in 1 .. Len(entries) /\ i \in DOMAIN entries /\ i \in 1 .. Len(entries) + 1
    BY <1>5
  <2>2. StandsAt(v, i, entries[i].at)
    BY <2>1 DEF StandsAt
  <2>3. ScanTruthful(t, ObjectScan(c, first, i, entries[i].at))
    BY <1>3, <1>5, <2>1, <2>2
  <2>4. Addresses(v, i, segment)
    BY <1>1, <1>7, <2>1, UniqueMember
  <2>5. Leads(t.anchor, t.path, t.seg + 1, entries[i].value)
    BY <1>1, <1>2, <2>4, LeadsOn
  <2> QED
    BY <1>1, <1>7, <2>3, <2>5, StepTruth
<1> QED
  BY <1>4, <1>6, <1>7

\* An array scan records elements at their indices, and finds the one addressed.
LEMMA ScanArrayTruth ==
  ASSUME RootStart = 0, SoundInv, NEW c \in Clients, ScanArray(c)
  PROVE  CacheTruthful' /\ TasksTruthful'
<1> DEFINE t == task[c]
           v == Container(c)
           entries == Entries(v)
           segment == t.path[t.seg + 1]
           target == segment.element
           base == IF t.seed = None THEN 0 ELSE t.seed.index
<1>1. /\ At(c, "scan") /\ t.seg < Len(t.path) /\ v \in DOMAIN Doc /\ Doc[v].kind = "array"
      /\ ~ IsMember(segment) /\ UNCHANGED <<nodes, slots_used, tick>>
  BY DEF ScanArray, IsContainer
<1>2. /\ ScannedStart(c) = v /\ Leads(t.anchor, t.path, t.seg, v)
      /\ t.anchor \in Nat /\ t.seg \in Nat /\ TaskOK(t)
      /\ t.path \in Seq(Segment) /\ Len(t.path) \in Nat
  BY <1>1, ScannedTruth, SoundFacts
<1>3. base \in Nat /\ StandsAt(v, base + 1, ScanFrom(c))
  <2>1. CASE t.seed = None
    BY <1>1, <2>1, ScannedTruth
  <2>2. CASE t.seed # None
    <3>1. t.seed.kind = "array" /\ StandsAt(v, t.seed.index + 1, ScanFrom(c))
      BY <1>1, <2>2, ScannedTruth
    <3>2. t.seed.index \in Nat
      BY <1>2, <2>2 DEF TaskOK, Seeds
    <3> QED
      BY <2>2, <3>1, <3>2
  <2> QED
    BY <2>1, <2>2
<1>4. target \in Nat
  <2>1. segment \in Segment
    BY <1>1, <1>2, LenProperties
  <2> QED
    BY <1>1, <2>1 DEF Segment, IsMember
<1>5. Len(entries) \in Nat /\ DOMAIN entries = 1 .. Len(entries)
  BY <1>1, ContainerFacts
<1> HIDE DEF base, target
<1>6. PICK sampled \in SUBSET (base .. target) :
        /\ \A i \in sampled : i + 1 <= Len(entries)
        /\ LET scan == Scan(t.seg, "array", ScannedStart(c), [i \in sampled |-> entries[i + 1].at], None)
           IN  \/ target + 1 <= Len(entries) /\ Step(c, scan, entries[target + 1].value)
               \/ Step(c, scan, None)
  <2> DEFINE Position(f, i) == f + (i - base)
             Reached_(f) == {i \in base .. target : Position(f, i) <= Len(entries)}
             Chosen(f) == {i \in Reached_(f) : /\ ArrayInterval > 0
                                               /\ \/ i = target
                                                  \/ i > base /\ i % ArrayInterval = 0}
             Recorded(f) == Scan(t.seg, "array", ScannedStart(c),
                                 [i \in Chosen(f) |-> entries[Position(f, i)].at], None)
  <2>1. PICK first \in 1 .. Len(entries) + 1 :
          /\ StandsAt(v, first, ScanFrom(c))
          /\ \/ target \in Reached_(first) /\ Step(c, Recorded(first), entries[Position(first, target)].value)
             \/ target \notin Reached_(first) /\ Step(c, Recorded(first), None)
    BY DEF ScanArray, base, target
  <2>2. first = base + 1
    BY <1>1, <1>3, <2>1, StandsOnce
  <2>3. \A i \in base .. target : Position(first, i) = i + 1
    BY <1>3, <1>4, <2>2
  <2> DEFINE sampled == Chosen(first)
  <2>4. sampled \in SUBSET (base .. target) /\ \A i \in sampled : i + 1 <= Len(entries)
    BY <2>3
  <2>5. [i \in sampled |-> entries[Position(first, i)].at] = [i \in sampled |-> entries[i + 1].at]
    BY <2>3, <2>4
  <2> DEFINE scan == Scan(t.seg, "array", ScannedStart(c), [i \in sampled |-> entries[i + 1].at], None)
  <2>6. Recorded(first) = scan
    BY <2>5
  <2>7. target \in Reached_(first) => /\ target + 1 <= Len(entries)
                                      /\ Position(first, target) = target + 1
    BY <2>3
  <2> HIDE DEF Position, Reached_, Recorded, sampled
  <2>8. \/ target + 1 <= Len(entries) /\ Step(c, scan, entries[target + 1].value)
        \/ Step(c, scan, None)
    BY <2>1, <2>6, <2>7
  <2> QED
    BY <2>4, <2>8
<1> DEFINE members == [i \in sampled |-> entries[i + 1].at]
           scan == Scan(t.seg, "array", ScannedStart(c), members, None)
<1>7. ScanTruthful(t, scan)
  <2>1. ASSUME NEW i \in sampled
        PROVE  i \in Nat /\ members[i] \in Nat /\ StandsAt(v, i + 1, members[i])
    <3>1. i \in Nat /\ i + 1 \in 1 .. Len(entries) /\ i + 1 \in 1 .. Len(entries) + 1
      BY <1>3, <1>4, <1>5, <1>6
    <3>2. entries[i + 1].at \in Nat
      BY <1>1, <3>1, EntryPlace
    <3>3. members[i] = entries[i + 1].at
      OBVIOUS
    <3> QED
      BY <3>1, <3>2, <3>3 DEF StandsAt
  <2>2. DOMAIN members = sampled
    OBVIOUS
  <2> HIDE DEF members
  <2>3. ElementsOf(v, members)
    BY <2>1, <2>2 DEF ElementsOf, IsTable
  <2> QED
    BY <1>1, <1>2, <2>3 DEF ScanTruthful, Scan
<1> HIDE DEF members
<1>8. CASE target + 1 <= Len(entries) /\ Step(c, scan, entries[target + 1].value)
  <2>1. target + 1 \in DOMAIN entries
    BY <1>4, <1>5, <1>8
  <2>2. Addresses(v, target + 1, segment)
    BY <1>1, <2>1 DEF Addresses, target
  <2>3. Leads(t.anchor, t.path, t.seg + 1, entries[target + 1].value)
    BY <1>1, <1>2, <2>2, LeadsOn
  <2> QED
    BY <1>1, <1>7, <1>8, <2>3, StepTruth
<1>9. CASE Step(c, scan, None)
  BY <1>1, <1>7, <1>9, StepTruth
<1> QED
  BY <1>6, <1>8, <1>9 DEF members

\* A call that goes on to another stage, with a status, and stays where it is.
LEMMA StageTruth ==
  ASSUME RootStart = 0, SoundInv, NEW c \in Clients,
         NEW pc, NEW status, task' = [task EXCEPT ![c].pc = pc, ![c].status = status],
         status = "found" => task[c].seg = Len(task[c].path),
         \/ pc = "write" /\ At(c, "scan")
         \/ pc = "extent" /\ status = "found"
         \/ pc = "done" /\ (status = "found" /\ task[c].op \in {"get", "hop"} => task[c].end = ValueEnd(task[c].start)),
         UNCHANGED <<nodes, slots_used, tick>>
  PROVE  CacheTruthful' /\ TasksTruthful'
<1> DEFINE t == task[c]
           u == [t EXCEPT !.pc = pc, !.status = status]
<1>1. TaskTruthful(t) /\ TaskOK(t) /\ CacheTruthful
  BY SoundFacts
<1>2. task' = [task EXCEPT ![c] = u]
  OBVIOUS
<1> HIDE DEF t
<1>3. /\ u.pc = pc /\ u.status = status /\ u.seg = t.seg /\ u.start = t.start
      /\ u.anchor = t.anchor /\ u.path = t.path /\ u.record = t.record
      /\ u.op = t.op /\ u.end = t.end /\ u.idx = t.idx
  BY <1>1 DEF TaskOK, IdleTask
<1> HIDE DEF u
<1>4. TaskTruthful(u)
  BY <1>1, <1>3 DEF TaskTruthful, ScanTruthful, At, t
<1> QED
  BY <1>1, <1>2, <1>4, OneTask, QuietTruth

\* A scan that ends at its target has resolved the whole path, one that fails
\* claims nothing.
LEMMA ScanDoneTruth ==
  ASSUME RootStart = 0, SoundInv, NEW c \in Clients, ScanDone(c) \/ ScanFault(c)
  PROVE  CacheTruthful' /\ TasksTruthful'
<1>1. CASE ScanDone(c)
  BY <1>1, StageTruth DEF ScanDone
<1>2. CASE ScanFault(c)
  <2>1. /\ task' = [task EXCEPT ![c].pc = "write", ![c].status = "fault"]
        /\ UNCHANGED <<nodes, slots_used, tick>> /\ At(c, "scan")
    BY <1>2 DEF ScanFault
  <2>2. PICK status : status = "fault"
    OBVIOUS
  <2>3. status = "found" => task[c].seg = Len(task[c].path)
    BY <2>2
  <2> QED
    BY <2>1, <2>2, <2>3, StageTruth
<1> QED
  BY <1>1, <1>2

\* A last read finds what was located, a read that fails claims nothing.
LEMMA LastReadTruth ==
  ASSUME RootStart = 0, SoundInv, NEW c \in Clients, ReadFails(c) \/ Deliver(c)
  PROVE  CacheTruthful' /\ TasksTruthful'
<1>1. CASE ReadFails(c)
  <2>1. /\ task' = [task EXCEPT ![c].pc = "done", ![c].status = "failed"]
        /\ UNCHANGED <<nodes, slots_used, tick>>
    BY <1>1 DEF ReadFails, Finish
  <2>2. PICK status : status = "failed"
    OBVIOUS
  <2>3. status # "found"
    BY <2>2
  <2> QED
    BY <2>1, <2>2, <2>3, StageTruth
<1>2. CASE Deliver(c)
  <2>1. task[c].pc = "deliver" /\ TaskTruthful(task[c])
    BY <1>2, SoundFacts DEF Deliver, At
  <2>2. /\ task[c].seg = Len(task[c].path)
        /\ task[c].op \in {"get", "hop"} => task[c].end = ValueEnd(task[c].start)
    BY <2>1 DEF TaskTruthful
  <2> QED
    BY <1>2, <2>2, StageTruth DEF Deliver, Finish
<1> QED
  BY <1>1, <1>2

(***************************************************************************)
(* Write-back.                                                             *)
(***************************************************************************)

\* A truthful scan is merged truthfully.
LEMMA ApplyTruth ==
  ASSUME RootStart = 0, UniqueNames, SoundInv, NEW c \in Clients,
         NEW scan, ScanOK(scan), scan.seg \in 0 .. Len(task[c].path),
         ScanTruthful(task[c], scan), Apply(c, scan)
  PROVE  CacheTruthful'
<1> DEFINE t == task[c]
           key == ScanKey(c, scan)
           v == scan.value_start
<1>1. /\ t.anchor \in Nat /\ t.depth \in Nat /\ t.path \in Seq(Segment) /\ CacheTruthful /\ IndexTypeOK
  BY SoundFacts
<1>2. key \in Keys
  BY <1>1, KeyType DEF ScanKey
<1>3. v \in DOMAIN Doc /\ Doc[v].kind = scan.kind
  BY DEF ScanTruthful
<1>4. Leads(key[1], key[2], Len(key[2]), v)
  BY <1>1, KeyLeads DEF ScanTruthful, ScanKey
<1>5. \/ scan.kind = "object"
          /\ MergeObjectScan(key, v, t.depth, scan.members, scan.resume)
      \/ scan.kind = "array"
          /\ MergeArrayScan(key, v, t.depth, scan.members)
      \/ UNCHANGED <<nodes, slots_used, tick>>
  BY DEF Apply, indexVars
<1> HIDE DEF key, v, t
<1>6. CASE scan.kind = "object" /\ MergeObjectScan(key, v, t.depth, scan.members, scan.resume)
  <2>1. MembersOf(v, scan.members, scan.resume)
    BY <1>6 DEF ScanTruthful, v
  <2>2. scan.resume \in Nat \cup {None}
    BY DEF ScanOK
  <2> QED
    BY <1>1, <1>2, <1>3, <1>4, <1>6, <2>1, <2>2, MergeObjectScanTruth
<1>7. CASE scan.kind = "array" /\ MergeArrayScan(key, v, t.depth, scan.members)
  <2>1. ElementsOf(v, scan.members)
    BY <1>7 DEF ScanTruthful, v
  <2> QED
    BY <1>1, <1>2, <1>3, <1>4, <1>7, <2>1, MergeArrayScanTruth
<1> QED
  BY <1>1, <1>5, <1>6, <1>7, QuietTruth

\* A write-back stores its truthful scans, one by one.
LEMMA WriteBackTruth ==
  ASSUME RootStart = 0, UniqueNames, SoundInv, NEW c \in Clients, WriteBack(c)
  PROVE  CacheTruthful' /\ TasksTruthful'
<1> DEFINE t == task[c]
<1>1. TaskTruthful(t) /\ TaskOK(t) /\ t.pc = "write" /\ IsSequence(t.record) /\ CacheTruthful
  BY SoundFacts DEF WriteBack, At, TaskOK
<1>2. /\ \A i \in DOMAIN t.record : ScanTruthful(t, t.record[i])
      /\ Leads(t.anchor, t.path, t.seg, t.start)
      /\ t.status = "found" => t.seg = Len(t.path)
      /\ t.idx = 0
  BY <1>1 DEF TaskTruthful
<1>3. \/ AfterLocate(t) = "done" /\ t.status # "found"
      \/ AfterLocate(t) = "deliver" /\ t.status = "found" /\ t.op = "has"
      \/ AfterLocate(t) = "enter" /\ t.status = "found" /\ t.op = "iter"
      \/ AfterLocate(t) \in {"close", "extent"} /\ t.status = "found"
  BY DEF AfterLocate
<1> HIDE DEF t
<1>4. CASE t.record = <<>>
  <2> DEFINE u == [t EXCEPT !.pc = AfterLocate(t)]
  <2>1. task' = [task EXCEPT ![c] = u] /\ UNCHANGED <<nodes, slots_used, tick>>
    BY <1>4 DEF WriteBack, t
  <2>2. /\ u.pc = AfterLocate(t) /\ u.record = t.record /\ u.anchor = t.anchor /\ u.path = t.path
        /\ u.seg = t.seg /\ u.start = t.start /\ u.status = t.status /\ u.op = t.op
        /\ u.idx = t.idx
    BY <1>1 DEF TaskOK, IdleTask
  <2> HIDE DEF u
  <2>3. TaskTruthful(u)
    BY <1>2, <1>3, <2>2 DEF TaskTruthful, ScanTruthful
  <2> QED
    BY <1>1, <2>1, <2>3, OneTask, QuietTruth
<1>5. CASE t.record # <<>>
  <2>1. /\ Apply(c, Head(t.record))
        /\ task' = [task EXCEPT ![c].record = Tail(t.record),
                                ![c].pc = IF Len(t.record) = 1 THEN AfterLocate(t) ELSE @]
    BY <1>5 DEF WriteBack, t
  <2> DEFINE u == [t EXCEPT !.record = Tail(t.record),
                            !.pc = IF Len(t.record) = 1 THEN AfterLocate(t) ELSE "write"]
  <2>2. task' = [task EXCEPT ![c] = u]
    BY <1>1, <2>1 DEF t
  <2>3. /\ u.pc \in {"write", AfterLocate(t)} /\ u.record = Tail(t.record)
        /\ u.anchor = t.anchor /\ u.path = t.path
        /\ u.seg = t.seg /\ u.start = t.start /\ u.status = t.status /\ u.op = t.op
        /\ u.idx = t.idx
    BY <1>1 DEF TaskOK, IdleTask
  <2> HIDE DEF u
  <2>4. /\ \A i \in DOMAIN Tail(t.record) : \E j \in DOMAIN t.record : Tail(t.record)[i] = t.record[j]
        /\ \E j \in DOMAIN t.record : Head(t.record) = t.record[j]
    BY <1>1, <1>5, TailSequence
  <2>5. TaskTruthful(u)
    <3>1. \A i \in DOMAIN u.record : ScanTruthful(u, u.record[i])
      BY <1>2, <2>3, <2>4 DEF ScanTruthful
    <3> QED
      BY <1>2, <1>3, <2>3, <3>1 DEF TaskTruthful
  <2>6. /\ ScanOK(Head(t.record)) /\ ScanTruthful(t, Head(t.record))
        /\ Head(t.record).seg \in 0 .. Len(t.path)
    <3>1. PICK j \in DOMAIN t.record : Head(t.record) = t.record[j]
      BY <2>4
    <3>2. ScanOK(t.record[j]) /\ t.record[j].seg <= Len(t.path) /\ ScanTruthful(t, t.record[j])
      BY <1>1 DEF TaskOK, TaskTruthful
    <3> QED
      BY <3>1, <3>2, SoundFacts DEF ScanOK, t
  <2>7. CacheTruthful'
    BY <2>1, <2>6, ApplyTruth DEF t
  <2> QED
    BY <2>2, <2>5, <2>7, OneTask
<1> QED
  BY <1>4, <1>5

(***************************************************************************)
(* Extents and children.                                                   *)
(***************************************************************************)

\* A call that found its value has resolved its path, and keys it there.
LEMMA TargetFacts ==
  ASSUME RootStart = 0, SoundInv, NEW c \in Clients,
         task[c].pc \in {"close", "extent", "deliver", "enter", "iterate", "landmarks"}
  PROVE  /\ task[c].status = "found" /\ task[c].seg = Len(task[c].path)
         /\ TargetKey(c) \in Keys
         /\ LET key == TargetKey(c) IN Leads(key[1], key[2], Len(key[2]), task[c].start)
<1>1. /\ TaskTruthful(task[c]) /\ TypeInv /\ task[c].anchor \in Nat /\ task[c].path \in Seq(Segment)
      /\ Len(task[c].path) \in 0 .. Len(task[c].path)
  BY SoundFacts
<1>2. task[c].status = "found" /\ task[c].seg = Len(task[c].path)
  BY <1>1 DEF TaskTruthful
<1>3. Leads(task[c].anchor, task[c].path, Len(task[c].path), task[c].start)
  BY <1>1, <1>2 DEF TaskTruthful
<1> QED
  BY <1>1, <1>2, <1>3, KeyLeads, TaskFacts DEF TargetKey

\* The value a call found is located where it stands and where it ends.
LEMMA LocatedTruth ==
  ASSUME RootStart = 0, SoundInv, NEW c \in Clients, task[c].pc \in {"close", "extent"},
         Located(c, task[c].start, ValueEnd(task[c].start))
  PROVE  TasksTruthful'
<1> DEFINE t == task[c]
           u == [t EXCEPT !.pc = IF t.op = "hop" THEN "done" ELSE "deliver",
                          !.start = t.start, !.end = ValueEnd(t.start)]
<1>1. TaskTruthful(t) /\ TaskOK(t) /\ t.status = "found"
  BY SoundFacts, TargetFacts
<1>2. task' = [task EXCEPT ![c] = u]
  BY DEF Located
<1> HIDE DEF t
<1>3. /\ u.pc \in {"done", "deliver"} /\ u.start = t.start /\ u.end = ValueEnd(t.start)
      /\ u.status = t.status /\ u.seg = t.seg /\ u.op = t.op
      /\ u.anchor = t.anchor /\ u.path = t.path /\ u.record = t.record
  BY <1>1 DEF TaskOK, IdleTask
<1> HIDE DEF u
<1>4. TaskTruthful(u)
  BY <1>1, <1>3 DEF TaskTruthful, ScanTruthful
<1> QED
  BY <1>2, <1>4, OneTask

\* A close read from the index is the one the text has.
LEMMA CachedCloseTruth ==
  ASSUME RootStart = 0, SoundInv, NEW c \in Clients, CachedClose(c)
  PROVE  CacheTruthful' /\ TasksTruthful'
<1> DEFINE t == task[c]
           key == TargetKey(c)
           node == nodes[key]
           known == key \in DOMAIN nodes /\ node.close # None
<1>1. t.pc = "close" /\ UNCHANGED <<nodes, slots_used, tick>> /\ TaskOK(t) /\ CacheTruthful
  BY SoundFacts DEF CachedClose, At
<1>2. CASE known /\ Located(c, node.value_start, node.close)
  <2>1. NodeTruthful(key, node) /\ node.value_start \in Nat /\ t.start \in Nat
    BY <1>2, SoundFacts DEF CacheTruthful, IndexTypeOK, NodeOK
  <2>2. /\ key \in Keys /\ Leads(key[1], key[2], Len(key[2]), t.start)
    BY <1>1, TargetFacts
  <2>3. key[1] \in Nat /\ Len(key[2]) \in Nat
    BY <2>2, LenProperties DEF Keys
  <2> HIDE DEF key, node
  <2>4. /\ node.value_start \in DOMAIN Doc
        /\ Leads(key[1], key[2], Len(key[2]), node.value_start)
        /\ node.close = Doc[node.value_start].close + 1
    BY <1>2, <2>1, NodeTruth
  <2>5. node.value_start = t.start
    BY <2>1, <2>2, <2>3, <2>4, LeadsOnce
  <2>6. node.close = ValueEnd(t.start)
    BY <2>4, <2>5 DEF ValueEnd, IsContainer
  <2> QED
    BY <1>1, <1>2, <2>5, <2>6, LocatedTruth, QuietTruth
<1>3. CASE task' = [task EXCEPT ![c].pc = "extent"]
  <2>1. t.status = "found" /\ t.seg = Len(t.path)
    BY <1>1, TargetFacts
  <2>2. task' = [task EXCEPT ![c].pc = "extent", ![c].status = t.status]
    BY <1>1, <1>3 DEF TaskOK, IdleTask
  <2> QED
    BY <1>1, <2>1, <2>2, StageTruth
<1> QED
  BY <1>2, <1>3 DEF CachedClose

\* An extent walked is the value's own, and a container's close is stored so.
LEMMA ExtentTruth ==
  ASSUME RootStart = 0, SoundInv, NEW c \in Clients, Extent(c)
  PROVE  CacheTruthful' /\ TasksTruthful'
<1> DEFINE t == task[c]
           v == Container(c)
<1>1. t.pc = "extent" /\ Located(c, t.start, ValueEnd(t.start)) /\ v = t.start
  BY SoundFacts DEF Extent, At
<1>2. TasksTruthful'
  BY <1>1, LocatedTruth
<1>3. CASE IsEnabled /\ IsContainer(v)
  <2>1. v \in DOMAIN Doc /\ ValueEnd(t.start) = Doc[v].close + 1
    BY <1>1, <1>3 DEF ValueEnd, IsContainer
  <2>2. StoreClose(TargetKey(c), Doc[v].kind, v, t.depth, Doc[v].close + 1)
    BY <1>1, <1>3, <2>1 DEF Extent
  <2>3. /\ TargetKey(c) \in Keys
        /\ LET key == TargetKey(c) IN Leads(key[1], key[2], Len(key[2]), v)
        /\ t.depth \in Nat /\ IndexTypeOK /\ CacheTruthful
    BY <1>1, TargetFacts, SoundFacts
  <2> HIDE DEF v, t
  <2> QED
    BY <1>2, <2>1, <2>2, <2>3, StoreCloseTruth
<1>4. CASE ~ (IsEnabled /\ IsContainer(v))
  <2>1. UNCHANGED <<nodes, slots_used, tick>>
    BY <1>4 DEF Extent, indexVars
  <2> QED
    BY <1>2, <2>1, QuietTruth, SoundFacts
<1> QED
  BY <1>3, <1>4

\* An iteration begins in front of the first child.
LEMMA EnterTruth ==
  ASSUME RootStart = 0, SoundInv, NEW c \in Clients, Enter(c)
  PROVE  CacheTruthful' /\ TasksTruthful'
<1> DEFINE t == task[c]
<1>1. /\ t.pc = "enter" /\ UNCHANGED <<nodes, slots_used, tick>>
      /\ TaskTruthful(t) /\ TaskOK(t) /\ CacheTruthful /\ t.status = "found"
  BY SoundFacts, TargetFacts DEF Enter, At
<1>2. CASE ~ IsContainer(Container(c))
  <2>1. task' = [task EXCEPT ![c].pc = "done", ![c].status = "fault"]
    BY <1>2 DEF Enter, Finish
  <2>2. PICK status : status = "fault"
    OBVIOUS
  <2>3. status # "found"
    BY <2>2
  <2> QED
    BY <1>1, <2>1, <2>2, <2>3, StageTruth
<1>3. CASE IsContainer(Container(c))
  <2> DEFINE u == [t EXCEPT !.pc = "iterate"]
  <2>1. task' = [task EXCEPT ![c] = u]
    BY <1>3 DEF Enter
  <2>2. t.idx <= Len(Entries(t.start))
    <3>1. t.idx = 0
      BY <1>1 DEF TaskTruthful
    <3>2. t.start \in DOMAIN Doc
      BY <1>3, SoundFacts DEF IsContainer
    <3> QED
      BY <3>1, <3>2, ContainerFacts
  <2> HIDE DEF t
  <2>3. /\ u.pc = "iterate" /\ u.start = t.start /\ u.idx = t.idx
        /\ u.status = t.status /\ u.seg = t.seg /\ u.op = t.op
        /\ u.anchor = t.anchor /\ u.path = t.path /\ u.record = t.record
    BY <1>1 DEF TaskOK, IdleTask
  <2> HIDE DEF u
  <2>4. TaskTruthful(u)
    BY <1>1, <2>2, <2>3 DEF TaskTruthful, ScanTruthful
  <2> QED
    BY <1>1, <2>1, <2>4, OneTask, QuietTruth
<1> QED
  BY <1>2, <1>3

\* The children an iteration passes are elements at their indices.
LEMMA LandmarksTruth ==
  ASSUME NEW v \in DOMAIN Doc, NEW from \in Nat, NEW to \in 0 .. Len(Entries(v))
  PROVE  /\ ElementsOf(v, Landmarks(v, from, to))
         /\ DOMAIN Landmarks(v, from, to) # {} => Doc[v].kind = "array"
<1> DEFINE marks == Landmarks(v, from, to)
<1>1. DOMAIN marks \subseteq from .. to - 1 /\ (DOMAIN marks # {} => Doc[v].kind = "array")
  BY DEF Landmarks
<1>2. ASSUME NEW i \in DOMAIN marks PROVE StandsAt(v, i + 1, marks[i])
  <2>1. i + 1 \in 1 .. Len(Entries(v)) /\ i + 1 \in 1 .. Len(Entries(v)) + 1
    BY <1>1, ContainerFacts
  <2>2. marks[i] = Entries(v)[i + 1].at
    BY DEF Landmarks
  <2> QED
    BY <2>1, <2>2 DEF StandsAt
<1>3. IsTable(marks) /\ DOMAIN marks \subseteq Nat
  BY LandmarksType
<1> HIDE DEF marks
<1>4. ElementsOf(v, marks)
  BY <1>2, <1>3 DEF ElementsOf
<1> QED
  BY <1>1, <1>4 DEF marks

\* What SoundInv says of an iter that was let in.
LEMMA ChildFacts ==
  ASSUME RootStart = 0, SoundInv, NEW c \in Clients, task[c].pc \in {"iterate", "landmarks"}
  PROVE  /\ Container(c) = task[c].start /\ task[c].start \in DOMAIN Doc
         /\ task[c].idx \in Nat /\ Len(Entries(task[c].start)) \in Nat
         /\ task[c].depth \in Nat /\ IndexTypeOK /\ CacheTruthful
         /\ TargetKey(c) \in Keys
         /\ LET key == TargetKey(c) IN Leads(key[1], key[2], Len(key[2]), task[c].start)
<1>1. TypeInv /\ Container(c) = task[c].start
  BY SoundFacts
<1>2. task[c].start \in DOMAIN Doc /\ task[c].idx \in Nat
  BY <1>1, IterFacts
<1> QED
  BY <1>1, <1>2, SoundFacts, TargetFacts, ContainerFacts

\* Landmarks that are elements are stored truthfully.
LEMMA StoreLandmarksTruth ==
  ASSUME RootStart = 0, SoundInv, NEW c \in Clients, task[c].pc \in {"iterate", "landmarks"},
         NEW marks, ElementsOf(task[c].start, marks),
         DOMAIN marks # {} => Doc[task[c].start].kind = "array",
         StoreLandmarks(c, marks)
  PROVE  CacheTruthful'
<1>1. CASE DOMAIN marks = {}
  BY <1>1, QuietTruth, ChildFacts DEF StoreLandmarks, indexVars
<1>2. CASE DOMAIN marks # {}
  <2>1. MergeArrayScan(TargetKey(c), task[c].start, task[c].depth, marks)
    BY <1>2 DEF StoreLandmarks
  <2> QED
    BY <1>2, <2>1, ChildFacts, MergeArrayScanTruth
<1> QED
  BY <1>1, <1>2

\* A batch passes children of the container and stops among them.
LEMMA FillBatchTruth ==
  ASSUME RootStart = 0, SoundInv, NEW c \in Clients, FillBatch(c)
  PROVE  CacheTruthful' /\ TasksTruthful'
<1> DEFINE t == task[c]
           v == t.start
<1>1. t.pc = "iterate" /\ Container(c) = v
  BY ChildFacts DEF FillBatch, At
<1>2. PICK to \in t.idx + 1 .. Len(Entries(v)) :
        StoreLandmarks(c, Landmarks(v, t.idx, to)) /\ task' = [task EXCEPT ![c].idx = to]
  BY <1>1 DEF FillBatch
<1>3. v \in DOMAIN Doc /\ t.idx \in Nat /\ to \in 0 .. Len(Entries(v)) /\ TaskTruthful(t) /\ TaskOK(t)
  BY <1>1, ChildFacts, SoundFacts
<1>4. CacheTruthful'
  BY <1>1, <1>2, <1>3, LandmarksTruth, StoreLandmarksTruth
<1> DEFINE u == [t EXCEPT !.idx = to]
<1>5. task' = [task EXCEPT ![c] = u]
  BY <1>2
<1> HIDE DEF t
<1>6. /\ u.pc = t.pc /\ u.start = t.start /\ u.idx = to
      /\ u.status = t.status /\ u.seg = t.seg /\ u.op = t.op
      /\ u.anchor = t.anchor /\ u.path = t.path /\ u.record = t.record
  BY <1>3 DEF TaskOK, IdleTask
<1> HIDE DEF u
<1>7. TaskTruthful(u)
  BY <1>1, <1>3, <1>6 DEF TaskTruthful, ScanTruthful
<1> QED
  BY <1>4, <1>5, <1>7, OneTask

\* The end of a container is stored as its close, and its last children kept.
LEMMA ExhaustTruth ==
  ASSUME RootStart = 0, SoundInv, NEW c \in Clients, Exhaust(c)
  PROVE  CacheTruthful' /\ TasksTruthful'
<1> DEFINE t == task[c]
           v == t.start
           count == Len(Entries(v))
           marks == Landmarks(v, t.idx, count)
           u == [t EXCEPT !.pc = "landmarks", !.idx = count, !.marks = marks]
<1>1. t.pc = "iterate" /\ Container(c) = v
  BY ChildFacts DEF Exhaust, At
<1>2. /\ StoreClose(TargetKey(c), Doc[v].kind, v, t.depth, Doc[v].close + 1)
      /\ task' = [task EXCEPT ![c] = u]
  BY <1>1 DEF Exhaust
<1>3. v \in DOMAIN Doc /\ t.idx \in Nat /\ count \in 0 .. count /\ TaskTruthful(t) /\ TaskOK(t)
  BY <1>1, ChildFacts, SoundFacts
<1>4. CacheTruthful'
  BY <1>1, <1>2, <1>3, ChildFacts, StoreCloseTruth
<1>5. ElementsOf(v, marks) /\ (DOMAIN marks # {} => Doc[v].kind = "array")
  BY <1>3, LandmarksTruth
<1> HIDE DEF t, marks, count
<1>6. /\ u.pc = "landmarks" /\ u.start = t.start /\ u.marks = marks
      /\ u.status = t.status /\ u.seg = t.seg /\ u.op = t.op
      /\ u.anchor = t.anchor /\ u.path = t.path /\ u.record = t.record
  BY <1>3 DEF TaskOK, IdleTask
<1> HIDE DEF u
<1>7. TaskTruthful(u)
  BY <1>1, <1>3, <1>5, <1>6 DEF TaskTruthful, ScanTruthful
<1> QED
  BY <1>2, <1>4, <1>7, OneTask

\* The marks that were kept are elements of the array.
LEMMA LastLandmarksTruth ==
  ASSUME RootStart = 0, SoundInv, NEW c \in Clients, LastLandmarks(c)
  PROVE  CacheTruthful' /\ TasksTruthful'
<1> DEFINE t == task[c]
           u == [t EXCEPT !.pc = "done", !.marks = <<>>]
<1>1. /\ t.pc = "landmarks" /\ StoreLandmarks(c, t.marks) /\ task' = [task EXCEPT ![c] = u]
      /\ TaskTruthful(t) /\ TaskOK(t)
  BY SoundFacts DEF LastLandmarks, At
<1>2. /\ ElementsOf(t.start, t.marks)
      /\ DOMAIN t.marks # {} => Doc[t.start].kind = "array"
      /\ t.op = "iter"
  BY <1>1 DEF TaskTruthful
<1>3. CacheTruthful'
  BY <1>1, <1>2, StoreLandmarksTruth
<1> HIDE DEF t
<1>4. /\ u.pc = "done" /\ u.start = t.start
      /\ u.status = t.status /\ u.seg = t.seg /\ u.op = t.op
      /\ u.anchor = t.anchor /\ u.path = t.path /\ u.record = t.record
  BY <1>1 DEF TaskOK, IdleTask
<1> HIDE DEF u
<1>5. TaskTruthful(u)
  BY <1>1, <1>2, <1>4 DEF TaskTruthful, ScanTruthful
<1> QED
  BY <1>1, <1>3, <1>5, OneTask

\* Where a consumer stops, the next element of the array stands.
LEMMA BreakTruth ==
  ASSUME RootStart = 0, SoundInv, NEW c \in Clients, Break(c)
  PROVE  CacheTruthful' /\ TasksTruthful'
<1> DEFINE t == task[c]
           v == t.start
           next_offset == IF t.idx < Len(Entries(v)) THEN Entries(v)[t.idx + 1].at ELSE Doc[v].close
           marks == [i \in {t.idx} |-> next_offset]
           u == [t EXCEPT !.pc = "done", !.status = "found"]
<1>1. t.pc = "iterate" /\ Container(c) = v /\ TaskTruthful(t) /\ TaskOK(t)
  BY ChildFacts, SoundFacts DEF Break, At
<1>2. t.status = "found" /\ t.op = "iter" /\ t.idx <= Len(Entries(v)) /\ t.seg = Len(t.path)
  BY <1>1 DEF TaskTruthful
<1>3. v \in DOMAIN Doc /\ t.idx \in Nat /\ Len(Entries(v)) \in Nat
  BY <1>1, ChildFacts
<1>4. task' = [task EXCEPT ![c] = u]
  BY DEF Break, Finish
<1>5. ASSUME Doc[v].kind = "array" /\ t.idx > 0 /\ IsEnabled PROVE CacheTruthful'
  <2>1. StoreLandmarks(c, marks)
    BY <1>1, <1>5 DEF Break
  <2>2. StandsAt(v, t.idx + 1, next_offset)
    BY <1>2, <1>3 DEF StandsAt
  <2>3. next_offset \in Nat
    BY <1>2, <1>3, EntryPlace, ContainerFacts
  <2> HIDE DEF next_offset
  <2>4. ElementsOf(v, marks)
    BY <1>3, <2>2, <2>3 DEF ElementsOf, IsTable
  <2> QED
    BY <1>1, <1>5, <2>1, <2>4, StoreLandmarksTruth
<1>6. ASSUME ~ (Doc[v].kind = "array" /\ t.idx > 0 /\ IsEnabled) PROVE CacheTruthful'
  <2>1. UNCHANGED <<nodes, slots_used, tick>>
    BY <1>1, <1>6 DEF Break, indexVars
  <2> QED
    BY <2>1, QuietTruth, SoundFacts
<1>7. TasksTruthful'
  <2> HIDE DEF t
  <2>1. /\ u.pc = "done" /\ u.start = t.start
        /\ u.status = "found" /\ u.seg = t.seg /\ u.op = t.op
        /\ u.anchor = t.anchor /\ u.path = t.path /\ u.record = t.record
    BY <1>1 DEF TaskOK, IdleTask
  <2> HIDE DEF u
  <2>2. TaskTruthful(u)
    BY <1>1, <1>2, <2>1 DEF TaskTruthful, ScanTruthful
  <2> QED
    BY <1>4, <2>2, OneTask
<1> QED
  BY <1>5, <1>6, <1>7

(***************************************************************************)
(* The theorems.                                                           *)
(***************************************************************************)

\* An open document with no call in flight claims nothing.
LEMMA InitTruth ==
  ASSUME RootStart = 0, SessionInit
  PROVE  SoundInv
<1>1. TypeInv
  BY InitType
<1>2. CacheTruthful
  BY DEF SessionInit, IndexInit, CacheTruthful
<1>3. Leads(0, <<>>, 0, 0)
  BY LeadsToAnchor
<1>4. TaskTruthful(IdleTask)
  BY <1>3 DEF TaskTruthful, IdleTask
<1> QED
  BY <1>1, <1>2, <1>4 DEF SoundInv, TasksTruthful, SessionInit

\* Every step keeps the index and the calls truthful.
LEMMA NextTruth ==
  ASSUME RootStart = 0, UniqueNames, SoundInv, [SessionNext]_vars
  PROVE  SoundInv'
<1>1. TypeInv'
  BY NextType DEF SoundInv
<1>2. CASE UNCHANGED vars
  BY <1>1, <1>2 DEF SoundInv, CacheTruthful, TasksTruthful, vars
<1>3. ASSUME NEW c \in Clients, Ask(c) PROVE CacheTruthful' /\ TasksTruthful'
  BY <1>3, AskTruth
<1>4. ASSUME NEW c \in Clients, Locate(c) PROVE CacheTruthful' /\ TasksTruthful'
  BY <1>4, LookupTruth, ScanDoneTruth, ScanObjectTruth, ScanArrayTruth, WriteBackTruth DEF Locate
<1>5. ASSUME NEW c \in Clients, Resolve(c) \/ ReadFails(c) PROVE CacheTruthful' /\ TasksTruthful'
  BY <1>5, CachedCloseTruth, ExtentTruth, LastReadTruth DEF Resolve
<1>6. ASSUME NEW c \in Clients, Iterate(c) \/ Break(c) PROVE CacheTruthful' /\ TasksTruthful'
  BY <1>6, EnterTruth, FillBatchTruth, ExhaustTruth, LastLandmarksTruth, BreakTruth DEF Iterate
<1>7. CASE SessionNext
  <2>1. CacheTruthful' /\ TasksTruthful'
    BY <1>3, <1>4, <1>5, <1>6, <1>7 DEF SessionNext
  <2> QED
    BY <1>1, <2>1 DEF SoundInv
<1> QED
  BY <1>2, <1>7

\* In a document that starts with its root value and has no duplicate member
\* names, every fact the index holds is one the text bears out, whatever the
\* calls in flight, the order of their write-backs and the nodes evicted
\* (cache.rs:12, "Memoization over an immutable source").
THEOREM IndexSound ==
  ASSUME RootStart = 0, UniqueNames
  PROVE  SessionSpec => []CacheTruthful
<1>1. SessionInit => SoundInv
  BY InitTruth
<1>2. SoundInv /\ [SessionNext]_vars => SoundInv'
  BY NextTruth
<1>3. SoundInv => CacheTruthful
  BY DEF SoundInv
<1> QED
  BY <1>1, <1>2, <1>3, PTL DEF SessionSpec

\* In such a document what a call finds is at the path it was asked for, and
\* ends where the text ends it, though eviction and other calls' write-backs
\* come between its lookup and its scans (session.rs:273-282).
THEOREM CallsSound ==
  ASSUME RootStart = 0, UniqueNames
  PROVE  SessionSpec => []FindsAreTrue
<1>1. SessionInit => SoundInv
  BY InitTruth
<1>2. SoundInv /\ [SessionNext]_vars => SoundInv'
  BY NextTruth
<1>3. SoundInv => FindsAreTrue
  <2> SUFFICES ASSUME SoundInv, NEW c \in Clients, At(c, "done"), task[c].status = "found"
               PROVE  FoundIsTrue(task[c])
    BY DEF FindsAreTrue, FoundIsTrue
  <2>1. TaskTruthful(task[c]) /\ SkipWhitespace(task[c].start) = task[c].start
    BY SoundFacts DEF Container
  <2> QED
    BY <2>1 DEF TaskTruthful, FoundIsTrue, At
<1> QED
  BY <1>1, <1>2, <1>3, PTL DEF SessionSpec

\* In such a document a scan that resumes from the index resumes inside the
\* container it scans, at the element its seed names (resolve.rs:36-38).
THEOREM SeedsSound ==
  ASSUME RootStart = 0, UniqueNames
  PROVE  SessionSpec => []SeedsStand
<1>1. SessionInit => SoundInv
  BY InitTruth
<1>2. SoundInv /\ [SessionNext]_vars => SoundInv'
  BY NextTruth
<1>3. SoundInv => SeedsStand
  <2> SUFFICES ASSUME SoundInv, NEW c \in Clients, At(c, "scan"), task[c].seed # None
               PROVE  LET seed == task[c].seed
                          v    == Container(c)
                      IN  /\ IsContainer(v) /\ Doc[v].kind = seed.kind
                          /\ \E p \in 1 .. Len(Entries(v)) + 1 :
                               /\ StandsAt(v, p, seed.offset)
                               /\ seed.kind = "array" => p = seed.index + 1
    BY DEF SeedsStand
  <2>1. TaskTruthful(task[c]) /\ Container(c) = task[c].start
    BY SoundFacts
  <2> QED
    BY <2>1 DEF TaskTruthful, SeedTruthful, At, IsContainer
<1> QED
  BY <1>1, <1>2, <1>3, PTL DEF SessionSpec

(***************************************************************************)
(* Depths.                                                                 *)
(***************************************************************************)

\* A node's depth is that of the value its key is anchored at, plus one for
\* each segment from there.
NodeDeep(k, node) == \E depth \in Nat : LiesAt(k[1], depth) /\ node.depth = depth + Len(k[2])

NodesDeep == \A k \in DOMAIN nodes : NodeDeep(k, nodes[k])

\* A cursor, and a call made on it, know how deep their anchor lies.
CursorsDeep == \A cursor \in cursors : LiesAt(cursor.anchor, cursor.depth)
CallsDeep == \A c \in Clients : LiesAt(task[c].anchor, task[c].depth)

DeepInv == SoundInv /\ NodesDeep /\ CursorsDeep /\ CallsDeep

\* A write finds or makes a node of the right depth.
LEMMA NodeForDeep ==
  ASSUME NodesDeep, NEW key, NEW kind, NEW value_start,
         NEW base_depth \in Nat, LiesAt(key[1], base_depth)
  PROVE  NodeDeep(key, NodeFor(key, kind, value_start, base_depth))
<1>1. CASE key \in DOMAIN nodes
  BY <1>1 DEF NodesDeep, NodeFor
<1>2. CASE key \notin DOMAIN nodes
  BY <1>2 DEF NodeFor, FreshNode, NodeDeep
<1> QED
  BY <1>1, <1>2

\* Storing it, and shedding others, keeps every depth right.
LEMMA PutDeep ==
  ASSUME NodesDeep, NEW key, NEW node, NodeOK(node), NodeDeep(key, node), Put(key, node)
  PROVE  NodesDeep'
<1> DEFINE stored == [node EXCEPT !.last_used = tick + 1]
           written == [k \in DOMAIN nodes \cup {key} |-> IF k = key THEN stored ELSE nodes[k]]
<1>1. NodeDeep(key, stored)
  BY DEF NodeOK, NodeDeep
<1> HIDE DEF stored
<1>2. PICK gone : nodes' = [k \in DOMAIN written \ gone |-> written[k]]
  BY DEF Put, stored
<1>3. ASSUME NEW k \in DOMAIN nodes' PROVE NodeDeep(k, nodes'[k])
  BY <1>1, <1>2 DEF NodesDeep
<1> QED
  BY <1>3 DEF NodesDeep

\* What a call writes under lies as deep as the call says.
LEMMA CalledDeep ==
  ASSUME CallsDeep, NEW key, NEW base_depth, Called(key, base_depth)
  PROVE  LiesAt(key[1], base_depth)
BY DEF CallsDeep, Called

\* Every call of the index keeps the depths right.
LEMMA IndexStepDeep ==
  ASSUME IndexTypeOK, NodesDeep, CallsDeep, IndexStep
  PROVE  NodesDeep'
<1>1. CASE UNCHANGED indexVars
  BY <1>1 DEF NodesDeep, indexVars
<1>2. ASSUME NEW anchor, NEW path, NEW seg, TouchChain(anchor, path, seg) PROVE NodesDeep'
  <2>1. ASSUME NEW k \in DOMAIN nodes' PROVE NodeDeep(k, nodes'[k])
    <3>1. k \in DOMAIN nodes /\ NodeOK(nodes[k]) /\ NodeDeep(k, nodes[k])
      BY <1>2 DEF TouchChain, IndexTypeOK, NodesDeep
    <3>2. \/ nodes'[k] = nodes[k]
          \/ nodes'[k] = [nodes[k] EXCEPT !.last_used = tick + 1 + Len(k[2])]
      BY <1>2, <3>1 DEF TouchChain
    <3>3. nodes'[k].depth = nodes[k].depth
      BY <3>1, <3>2 DEF NodeOK
    <3> QED
      BY <3>1, <3>3 DEF NodeDeep
  <2> QED
    BY <2>1 DEF NodesDeep
<1>3. ASSUME NEW key \in Keys, NEW kind \in Kinds, NEW value_start \in Nat,
             NEW base_depth \in Nat, NEW close \in Nat,
             Called(key, base_depth), StoreClose(key, kind, value_start, base_depth, close)
      PROVE  NodesDeep'
  <2>1. CASE ~ IsEnabled
    BY <1>1, <1>3, <2>1 DEF StoreClose
  <2>2. CASE IsEnabled
    <3> DEFINE known == NodeFor(key, kind, value_start, base_depth)
               node == [known EXCEPT !.close = close]
    <3>1. NodeOK(known) /\ NodeDeep(key, known)
      BY <1>3, NodeForType, NodeForDeep, CalledDeep
    <3>2. Put(key, node)
      BY <1>3, <2>2 DEF StoreClose
    <3> HIDE DEF known
    <3>3. NodeOK(node) /\ node.depth = known.depth
      BY <3>1 DEF NodeOK
    <3> HIDE DEF node
    <3>4. NodeDeep(key, node)
      BY <3>1, <3>3 DEF NodeDeep
    <3> QED
      BY <3>2, <3>3, <3>4, PutDeep
  <2> QED
    BY <2>1, <2>2
<1>4. ASSUME NEW key \in Keys, NEW value_start \in Nat, NEW base_depth \in Nat, NEW new,
             IsTable(new), DOMAIN new \subseteq Nat,
             Called(key, base_depth), MergeArrayScan(key, value_start, base_depth, new)
      PROVE  NodesDeep'
  <2>1. CASE ~ IsEnabled
    BY <1>1, <1>4, <2>1 DEF MergeArrayScan
  <2>2. CASE IsEnabled
    <3> DEFINE known == NodeFor(key, "array", value_start, base_depth)
               node == MergeArray(known, new)
    <3>1. NodeOK(known) /\ NodeDeep(key, known)
      BY <1>4, NodeForType, NodeForDeep, CalledDeep DEF Kinds
    <3>2. Put(key, node)
      BY <1>4, <2>2 DEF MergeArrayScan
    <3> HIDE DEF known
    <3>3. NodeOK(node) /\ node.depth = known.depth
      BY <1>4, <3>1, MergeArrayType DEF MergeArray, NodeOK
    <3> HIDE DEF node
    <3>4. NodeDeep(key, node)
      BY <3>1, <3>3 DEF NodeDeep
    <3> QED
      BY <3>2, <3>3, <3>4, PutDeep
  <2> QED
    BY <2>1, <2>2
<1>5. ASSUME NEW key \in Keys, NEW value_start \in Nat, NEW base_depth \in Nat,
             NEW new \in Seq(NamedEntry), NEW hint \in Nat \cup {None},
             Called(key, base_depth), MergeObjectScan(key, value_start, base_depth, new, hint)
      PROVE  NodesDeep'
  <2>1. CASE ~ IsEnabled
    BY <1>1, <1>5, <2>1 DEF MergeObjectScan
  <2>2. CASE IsEnabled
    <3> DEFINE known == NodeFor(key, "object", value_start, base_depth)
               node == MergeObject(known, new, hint)
    <3>1. NodeOK(known) /\ NodeDeep(key, known)
      BY <1>5, NodeForType, NodeForDeep, CalledDeep DEF Kinds
    <3>2. Put(key, node)
      BY <1>5, <2>2 DEF MergeObjectScan
    <3> HIDE DEF known
    <3>3. NodeOK(node) /\ node.depth = known.depth
      BY <3>1, MergeObjectType DEF MergeObject, NodeOK
    <3> HIDE DEF node
    <3>4. NodeDeep(key, node)
      BY <3>1, <3>3 DEF NodeDeep
    <3> QED
      BY <3>2, <3>3, <3>4, PutDeep
  <2> QED
    BY <2>1, <2>2
<1> QED
  BY <1>1, <1>2, <1>3, <1>4, <1>5 DEF IndexStep

\* Once asked, a call keeps the cursor it was asked on.
LEMMA CallerKept ==
  ASSUME TypeInv, NEW c \in Clients,
         Locate(c) \/ ReadFails(c) \/ Resolve(c) \/ Iterate(c) \/ Break(c),
         NEW e \in Clients
  PROVE  /\ task'[e].anchor = task[e].anchor /\ task'[e].depth = task[e].depth
         /\ task'[e].path = task[e].path /\ task'[e].op = task[e].op
<1> DEFINE Kept == /\ task'[e].anchor = task[e].anchor /\ task'[e].depth = task[e].depth
                   /\ task'[e].path = task[e].path /\ task'[e].op = task[e].op
<1>1. DOMAIN task = Clients /\ TaskOK(task[c])
  BY TaskFacts DEF TypeInv, TypeOK
<1>2. {"anchor", "depth", "path", "op"} \subseteq DOMAIN task[c]
  BY <1>1 DEF TaskOK, IdleTask
<1>3. CASE ReadFails(c) \/ Break(c)
  BY <1>1, <1>2, <1>3 DEF ReadFails, Break, Finish
<1>4. CASE Locate(c)
  <2>1. ASSUME NEW scan, NEW to, Step(c, scan, to) PROVE Kept
    BY <1>1, <1>2, <2>1 DEF Step
  <2>2. CASE ScanObject(c) \/ ScanArray(c)
    BY <2>1, <2>2 DEF ScanObject, ScanArray
  <2>3. CASE Lookup(c)
    <3>1. CASE IsEnabled
      <4>1. PICK seg : task' = [task EXCEPT ![c].pc = "scan", ![c].seg = seg,
                                  ![c].start = ChainStart(task[c].anchor, task[c].path, seg),
                                  ![c].seed = ChainSeed(task[c].anchor, task[c].path, seg)]
        BY <2>3, <3>1 DEF Lookup
      <4> QED
        BY <1>1, <1>2, <4>1
    <3>2. CASE ~ IsEnabled
      BY <1>1, <1>2, <2>3, <3>2 DEF Lookup
    <3> QED
      BY <3>1, <3>2
  <2>4. CASE ScanDone(c) \/ ScanFault(c)
    BY <1>1, <1>2, <2>4 DEF ScanDone, ScanFault
  <2>5. CASE WriteBack(c)
    <3>1. \E record, pc : \/ task' = [task EXCEPT ![c].record = record, ![c].pc = pc]
                         \/ task' = [task EXCEPT ![c].pc = pc]
      BY <2>5 DEF WriteBack
    <3> QED
      BY <1>1, <1>2, <3>1
  <2> QED
    BY <1>4, <2>2, <2>3, <2>4, <2>5 DEF Locate
<1>5. CASE Resolve(c)
  BY <1>1, <1>2, <1>5 DEF Resolve, CachedClose, Extent, Deliver, Located, Finish
<1>6. CASE Iterate(c)
  BY <1>1, <1>2, <1>6 DEF Iterate, Enter, FillBatch, Exhaust, LastLandmarks, Finish
<1> QED
  BY <1>3, <1>4, <1>5, <1>6

\* A value a call found lies as deep as the cursor a hop would hand out says.
LEMMA FoundDeep ==
  ASSUME RootStart = 0, SoundInv, CallsDeep, NEW c \in Clients,
         task[c].pc \in {"close", "extent"}
  PROVE  LiesAt(task[c].start, LandedDepth(task[c]))
<1>1. /\ task[c].anchor \in Nat /\ task[c].depth \in Nat /\ task[c].start \in Nat
      /\ Len(task[c].path) \in Nat /\ TaskTruthful(task[c])
  BY SoundFacts
<1>2. Leads(task[c].anchor, task[c].path, Len(task[c].path), task[c].start)
  BY <1>1, TargetFacts DEF TaskTruthful
<1> QED
  BY <1>1, <1>2, LiesDeeper DEF CallsDeep, LandedDepth

\* Only a hop adds a cursor, and at the value it found.
LEMMA LandedDeep ==
  ASSUME RootStart = 0, SoundInv, CallsDeep, CursorsDeep, NEW c \in Clients,
         CachedClose(c) \/ Extent(c)
  PROVE  CursorsDeep'
<1> DEFINE t == task[c]
<1>1. LiesAt(t.start, LandedDepth(t))
  BY FoundDeep DEF CachedClose, Extent, At
<1>2. ASSUME NEW start, NEW end, start = t.start, Located(c, start, end)
      PROVE  CursorsDeep'
  <2>1. cursors' \subseteq cursors \cup {[anchor |-> t.start, depth |-> LandedDepth(t)]}
    BY <1>2 DEF Located
  <2>2. ASSUME NEW cursor \in cursors' PROVE LiesAt(cursor.anchor, cursor.depth)
    BY <1>1, <2>1 DEF CursorsDeep
  <2> QED
    BY <2>2 DEF CursorsDeep
<1>3. CASE Extent(c)
  BY <1>2, <1>3 DEF Extent
<1>4. CASE CachedClose(c)
  <2> DEFINE key == TargetKey(c)
             node == nodes[key]
  <2>1. CASE UNCHANGED cursors
    BY <2>1 DEF CursorsDeep
  <2>2. CASE key \in DOMAIN nodes /\ Located(c, node.value_start, node.close)
    <3>1. node.value_start = t.start
      <4>1. /\ NodeTruthful(key, node) /\ node.value_start \in Nat /\ t.start \in Nat
        BY <2>2, SoundFacts DEF CacheTruthful, IndexTypeOK, NodeOK
      <4>2. key \in Keys /\ Leads(key[1], key[2], Len(key[2]), t.start)
        BY <1>4, TargetFacts DEF CachedClose, At
      <4>3. key[1] \in Nat /\ Len(key[2]) \in Nat
        BY <4>2, LenProperties DEF Keys
      <4> HIDE DEF key, node
      <4>4. Leads(key[1], key[2], Len(key[2]), node.value_start)
        BY <4>1, NodeTruth
      <4> QED
        BY <4>1, <4>2, <4>3, <4>4, LeadsOnce
    <3> HIDE DEF node, key, t
    <3> QED
      BY <1>2, <2>2, <3>1
  <2> QED
    BY <1>4, <2>1, <2>2 DEF CachedClose
<1> QED
  BY <1>3, <1>4

\* Every other step leaves the cursors as they were.
LEMMA CursorsKept ==
  ASSUME NEW c \in Clients,
         Ask(c) \/ Locate(c) \/ ReadFails(c) \/ Deliver(c) \/ Iterate(c) \/ Break(c)
  PROVE  cursors' = cursors
BY DEF Ask, Locate, Lookup, ScanDone, ScanObject, ScanArray, ScanFault, WriteBack, ReadFails,
       Deliver, Iterate, Enter, FillBatch, Exhaust, LastLandmarks, Break

\* A call takes its anchor and depth from a cursor.
LEMMA AskDeep ==
  ASSUME TypeInv, CursorsDeep, CallsDeep, NEW c \in Clients, Ask(c)
  PROVE  CallsDeep'
<1>1. DOMAIN task = Clients
  BY DEF TypeInv, TypeOK
<1>2. PICK cursor \in cursors, op \in Ops, path \in Paths :
        task' = [task EXCEPT ![c] = [IdleTask EXCEPT
                   !.pc = "lookup", !.op = op, !.path = path, !.start = cursor.anchor,
                   !.anchor = cursor.anchor, !.depth = cursor.depth]]
  BY DEF Ask
<1>3. ASSUME NEW e \in Clients PROVE LiesAt(task'[e].anchor, task'[e].depth)
  <2>1. CASE e = c
    <3>1. task'[e].anchor = cursor.anchor /\ task'[e].depth = cursor.depth
      BY <1>1, <1>2, <2>1 DEF IdleTask
    <3> QED
      BY <3>1 DEF CursorsDeep
  <2>2. CASE e # c
    <3>1. task'[e] = task[e]
      BY <1>1, <1>2, <2>2
    <3> QED
      BY <3>1 DEF CallsDeep
  <2> QED
    BY <2>1, <2>2
<1> QED
  BY <1>3 DEF CallsDeep

\* With no call in flight there is the root, which lies in nothing.
LEMMA InitDeep ==
  ASSUME RootStart = 0, SessionInit
  PROVE  DeepInv
<1>1. SoundInv
  BY InitTruth
<1>2. NodesDeep
  BY DEF SessionInit, IndexInit, NodesDeep
<1>3. CursorsDeep /\ CallsDeep
  BY RootLies DEF SessionInit, RootCursor, IdleTask, CursorsDeep, CallsDeep
<1> QED
  BY <1>1, <1>2, <1>3 DEF DeepInv

\* Every step keeps every depth right.
LEMMA NextDeep ==
  ASSUME RootStart = 0, UniqueNames, DeepInv, [SessionNext]_vars
  PROVE  DeepInv'
<1>1. SoundInv'
  BY NextTruth DEF DeepInv
<1>2. SoundInv /\ TypeInv /\ IndexTypeOK
  BY DEF DeepInv, SoundInv, TypeInv, TypeOK
<1>3. NodesDeep'
  BY <1>2, NextIndex, IndexStepDeep DEF DeepInv
<1>4. CASE UNCHANGED vars
  BY <1>1, <1>3, <1>4 DEF DeepInv, CursorsDeep, CallsDeep, vars
<1>5. ASSUME NEW c \in Clients, Ask(c) PROVE CursorsDeep' /\ CallsDeep'
  BY <1>2, <1>5, AskDeep, CursorsKept DEF DeepInv, CursorsDeep
<1>6. ASSUME NEW c \in Clients, Locate(c) \/ ReadFails(c) \/ Resolve(c) \/ Iterate(c) \/ Break(c)
      PROVE  CursorsDeep' /\ CallsDeep'
  <2>1. CallsDeep'
    BY <1>2, <1>6, CallerKept DEF DeepInv, CallsDeep
  <2>2. CASE CachedClose(c) \/ Extent(c)
    BY <1>2, <2>1, <2>2, LandedDeep DEF DeepInv
  <2>3. CASE Locate(c) \/ ReadFails(c) \/ Deliver(c) \/ Iterate(c) \/ Break(c)
    BY <2>1, <2>3, CursorsKept DEF DeepInv, CursorsDeep
  <2> QED
    BY <1>6, <2>2, <2>3 DEF Resolve
<1>7. CASE SessionNext
  <2>1. CursorsDeep' /\ CallsDeep'
    BY <1>5, <1>6, <1>7 DEF SessionNext
  <2> QED
    BY <1>1, <1>3, <2>1 DEF DeepInv
<1> QED
  BY <1>1, <1>3, <1>4, <1>7 DEF DeepInv

\* A container the index knows under several keys has one depth, its own in the
\* document, from whatever cursors it was reached: so eviction may compare nodes
\* of different anchors by it (cursor.rs:26-28, "nodes carry their true depth
\* (the eviction key)").
THEOREM DepthsAgree ==
  ASSUME RootStart = 0, UniqueNames
  PROVE  SessionSpec => []OneDepth
<1>1. SessionInit => DeepInv
  BY InitDeep
<1>2. DeepInv /\ [SessionNext]_vars => DeepInv'
  BY NextDeep
<1>3. DeepInv => OneDepth
  <2>1. ASSUME DeepInv, NEW k \in DOMAIN nodes
        PROVE  /\ SkipWhitespace(nodes[k].value_start) = nodes[k].value_start
               /\ nodes[k].depth \in Nat /\ LiesAt(nodes[k].value_start, nodes[k].depth)
    <3>1. k \in Keys /\ NodeOK(nodes[k]) /\ NodeTruthful(k, nodes[k])
      BY <2>1 DEF DeepInv, SoundInv, TypeInv, TypeOK, IndexTypeOK, CacheTruthful
    <3>2. nodes[k].value_start \in Nat /\ nodes[k].depth \in Nat /\ k[1] \in Nat /\ Len(k[2]) \in Nat
      BY <3>1, LenProperties DEF NodeOK, Keys
    <3>3. Leads(k[1], k[2], Len(k[2]), nodes[k].value_start)
      BY <3>1, <3>2, NodeTruth
    <3>4. PICK depth \in Nat : LiesAt(k[1], depth) /\ nodes[k].depth = depth + Len(k[2])
      BY <2>1 DEF DeepInv, NodesDeep, NodeDeep
    <3>5. LiesAt(nodes[k].value_start, depth + Len(k[2]))
      BY <3>2, <3>3, <3>4, LiesDeeper
    <3> QED
      BY <3>2, <3>4, <3>5, NothingSkipped
  <2> QED
    BY <2>1, LiesOnce DEF OneDepth
<1> QED
  BY <1>1, <1>2, <1>3, PTL DEF SessionSpec
=============================================================================
