------------------------------- MODULE Session -------------------------------
(***************************************************************************)
(* Queries over one open document: packages/native/src/session.rs driving  *)
(* the resolver of resolve.rs and the child stream of stream.rs, with the  *)
(* structural index as the only state they share.                          *)
(*                                                                         *)
(* Each client is one JavaScript call in flight: has, get, hop or iter on  *)
(* some cursor.  A query looks its path up in the index, scans one         *)
(* container per remaining segment (awaiting source reads as it goes), and *)
(* writes back what it saw.  The index's mutex is held for the lookup, for *)
(* each later accessor and for the whole write-back, never across a scan.  *)
(***************************************************************************)
EXTENDS StructuralIndex, Document

CONSTANTS
  Clients,  \* calls that may be in flight together
  Ops,      \* the operations they use, of {"has", "get", "hop", "iter"}
  Paths     \* the paths they query

ASSUME CallAssumption ==
  /\ None \notin Clients \cup Ops
  /\ Paths \subseteq Seq(Segment)

VARIABLES
  lock,     \* the client inside apply_scan_record, or None
  cursors,  \* the cursors opened so far: root, and one per hop that resolved
  task      \* what each client is doing

vars == <<nodes, slots_used, tick, lock, cursors, task>>

RootCursor == [anchor |-> 0, depth |-> 0]

IdleTask ==
  [ pc     |-> "idle",   \* where the call stands
    op     |-> None, anchor |-> 0, depth |-> 0, path |-> <<>>,
    seg    |-> 0,        \* segments resolved so far
    start  |-> 0,        \* the value they lead to
    seed   |-> None,     \* where the first scan resumes
    record |-> <<>>,     \* scans to write back, one per container entered
    status |-> "none",   \* how it ended
    end    |-> None,     \* the end of the value get and hop located
    idx    |-> 0,        \* children an iter has yielded
    marks  |-> <<>> ]    \* landmarks it has yet to store

SessionInit ==
  /\ IndexInit
  /\ lock = None
  /\ cursors = {RootCursor}
  /\ task = [c \in Clients |-> IdleTask]

LockFree == lock = None
At(c, pc) == task[c].pc = pc
Container(c) == SkipWhitespace(task[c].start)
TargetKey(c) == Key(task[c].anchor, task[c].path, Len(task[c].path))
Finish(c, status) == task' = [task EXCEPT ![c].pc = "done", ![c].status = status]

(***************************************************************************)
(* The call arrives; run_locate looks the path up.                         *)
(***************************************************************************)
Ask(c) ==
  /\ task[c].pc \in {"idle", "done"}
  /\ \E cursor \in cursors, op \in Ops, path \in Paths :
       task' = [task EXCEPT ![c] = [IdleTask EXCEPT
                  !.pc = "lookup", !.op = op, !.path = path, !.start = cursor.anchor,
                  !.anchor = cursor.anchor, !.depth = cursor.depth]]
  /\ UNCHANGED <<nodes, slots_used, tick, lock, cursors>>

Lookup(c) ==
  LET t == task[c]
  IN  /\ At(c, "lookup")
      /\ IF IsEnabled
           THEN /\ LockFree
                /\ \E seg \in 0 .. Len(t.path) :
                     /\ ChainStopsAt(t.anchor, t.path, seg)
                     /\ TouchChain(t.anchor, t.path, seg)
                     /\ task' = [task EXCEPT ![c].pc = "scan", ![c].seg = seg,
                                   ![c].start = ChainStart(t.anchor, t.path, seg),
                                   ![c].seed = ChainSeed(t.anchor, t.path, seg)]
           ELSE /\ task' = [task EXCEPT ![c].pc = "scan"]
                /\ UNCHANGED indexVars
      /\ UNCHANGED <<lock, cursors>>

(***************************************************************************)
(* resolve_step, one container at a time.  A scan that fails, on a read    *)
(* error or on text it cannot parse, drops everything it recorded.         *)
(***************************************************************************)
Scan(seg, kind, value_start, members, resume) ==
  [seg |-> seg, kind |-> kind, value_start |-> value_start,
   members |-> members, resume |-> resume]

ScanDone(c) ==
  /\ At(c, "scan")
  /\ task[c].seg = Len(task[c].path)
  /\ task' = [task EXCEPT ![c].pc = "write", ![c].status = "found"]
  /\ UNCHANGED <<nodes, slots_used, tick, lock, cursors>>

\* Faulty: the next container is entered at the first one's seed.
StepKeepingSeed(c, scan, to) ==
  LET t == task[c]
  IN  task' = [task EXCEPT ![c] = [t EXCEPT
                 !.record = Append(t.record, scan),
                 !.seg = IF to = None THEN t.seg ELSE t.seg + 1,
                 !.start = IF to = None THEN Container(c) ELSE to,
                 !.pc = IF to = None THEN "write" ELSE "scan",
                 !.status = IF to = None THEN "absent" ELSE "none"]]

\* The scan of container v adds "scan" to the record; it found the entry whose
\* value is "to", or (None) ran into the container's close.
Step(c, scan, to) ==
  LET t == task[c]
  IN  task' = [task EXCEPT ![c] = [t EXCEPT
                 !.record = Append(t.record, scan),
                 !.seed = None,
                 !.seg = IF to = None THEN t.seg ELSE t.seg + 1,
                 !.start = IF to = None THEN Container(c) ELSE to,
                 !.pc = IF to = None THEN "write" ELSE "scan",
                 !.status = IF to = None THEN "absent" ELSE "none"]]

\* A seeded scan takes its container's start on trust, a cold one skips to it.
ScannedStart(c) == IF task[c].seed = None THEN Container(c) ELSE task[c].start

\* Where the scan of the next segment starts reading.
ScanFrom(c) == IF task[c].seed = None THEN Container(c) + 1 ELSE task[c].seed.offset

\* Faulty: the member the scan ended on is not recorded.
ObjectScanShort(c, from, to, resume) ==
  Scan(task[c].seg, "object", ScannedStart(c),
       SubSeq(Entries(Container(c)), from, to - 1), resume)

\* What an object scan records of entries from .. to; nothing when objects are
\* not tabled.
ObjectScan(c, from, to, resume) ==
  IF ObjectMemberCap > 0
    THEN Scan(task[c].seg, "object", ScannedStart(c),
              SubSeq(Entries(Container(c)), from, to), resume)
    ELSE Scan(task[c].seg, "object", ScannedStart(c), <<>>, None)

\* step_object: the first member at or after the resume point that carries
\* the name.  Every member passed is recorded, the match included; the scan
\* resumes at the match, or at the close if there is none.
ScanObject(c) ==
  LET t       == task[c]
      v       == Container(c)
      entries == Entries(v)
  IN  /\ At(c, "scan")
      /\ t.seg < Len(t.path)
      /\ IsContainer(v) /\ Doc[v].kind = "object"
      /\ IsMember(t.path[t.seg + 1])
      /\ \E first \in 1 .. Len(entries) + 1 :
           LET matches == {i \in first .. Len(entries) :
                             entries[i].name = t.path[t.seg + 1].member}
           IN  /\ StandsAt(v, first, ScanFrom(c))
               /\ \/ \E i \in matches :
                       /\ \A j \in matches : i <= j
                       /\ Step(c, ObjectScan(c, first, i, entries[i].at), entries[i].value)
                  \/ /\ matches = {}
                     /\ Step(c, ObjectScan(c, first, Len(entries), Doc[v].close), None)
      /\ UNCHANGED <<nodes, slots_used, tick, lock, cursors>>

\* step_array: count commas from the seed to the target, sampling every
\* ArrayInterval-th element passed and the target itself.  The element that
\* stands at the seed's offset is taken to have the seed's index.
ScanArray(c) ==
  LET t       == task[c]
      v       == Container(c)
      entries == Entries(v)
      target  == t.path[t.seg + 1].element
      base    == IF t.seed = None THEN 0 ELSE t.seed.index
  IN  /\ At(c, "scan")
      /\ t.seg < Len(t.path)
      /\ IsContainer(v) /\ Doc[v].kind = "array"
      /\ ~ IsMember(t.path[t.seg + 1])
      /\ \E first \in 1 .. Len(entries) + 1 :
           LET Position(i) == first + (i - base)
               reached == {i \in base .. target : Position(i) <= Len(entries)}
               sampled == {i \in reached : /\ ArrayInterval > 0
                                           /\ \/ i = target
                                              \/ i > base /\ i % ArrayInterval = 0}
               scan    == Scan(t.seg, "array", ScannedStart(c),
                               [i \in sampled |-> entries[Position(i)].at], None)
           IN  /\ StandsAt(v, first, ScanFrom(c))
               /\ \/ target \in reached /\ Step(c, scan, entries[Position(target)].value)
                  \/ target \notin reached /\ Step(c, scan, None)
      /\ UNCHANGED <<nodes, slots_used, tick, lock, cursors>>

\* A segment that cannot be applied: through a scalar, or of the wrong kind.
ScanFault(c) ==
  LET t == task[c]
      v == Container(c)
  IN  /\ At(c, "scan")
      /\ t.seg < Len(t.path)
      /\ ~ (IsContainer(v) /\ KindMatches(v, t.path[t.seg + 1]))
      /\ task' = [task EXCEPT ![c].pc = "write", ![c].status = "fault"]
      /\ UNCHANGED <<nodes, slots_used, tick, lock, cursors>>

ReadFails(c) ==
  /\ task[c].pc \in {"scan", "extent", "deliver", "enter"}
  /\ Finish(c, "failed")
  /\ UNCHANGED <<nodes, slots_used, tick, lock, cursors>>

(***************************************************************************)
(* apply_scan_record: the whole record is drained under one lock, a node   *)
(* per container, the first container first.                               *)
(***************************************************************************)
\* Faulty: every record is stored at the container the scan ended in.
ScanKeyLast(c, scan) == Key(task[c].anchor, task[c].path, task[c].seg)

ScanKey(c, scan) == Key(task[c].anchor, task[c].path, scan.seg)

Apply(c, scan) ==
  LET key == ScanKey(c, scan)
  IN  CASE scan.kind = "object" /\ ~ (scan.members = <<>> /\ scan.resume = None) ->
             MergeObjectScan(key, scan.value_start, task[c].depth, scan.members, scan.resume)
        [] scan.kind = "array" /\ DOMAIN scan.members # {} ->
             MergeArrayScan(key, scan.value_start, task[c].depth, scan.members)
        [] OTHER -> UNCHANGED indexVars

\* What follows run_locate: a path that leads nowhere ends the call, has peeks
\* at the value, iter enters it, get and hop go on to its extent.
AfterLocate(t) ==
  CASE t.status # "found"                   -> "done"
    [] t.status = "found" /\ t.op = "has"   -> "deliver"
    [] t.status = "found" /\ t.op = "iter"  -> "enter"
    [] OTHER                                -> IF IsEnabled THEN "close" ELSE "extent"

\* Faulty: the lock is never dropped.
LockAfterLeaked(c) == c

\* Who holds the lock once the head of the record is drained.
LockAfter(c) == IF Len(task[c].record) = 1 THEN None ELSE c

WriteBack(c) ==
  LET t == task[c]
  IN  /\ At(c, "write")
      /\ \/ /\ t.record = <<>>
            /\ task' = [task EXCEPT ![c].pc = AfterLocate(t)]
            /\ UNCHANGED <<nodes, slots_used, tick, lock>>
         \/ /\ t.record # <<>>
            /\ lock \in {None, c}
            /\ Apply(c, Head(t.record))
            /\ lock' = LockAfter(c)
            /\ task' = [task EXCEPT ![c].record = Tail(t.record),
                                    ![c].pc = IF Len(t.record) = 1 THEN AfterLocate(t) ELSE @]
      /\ UNCHANGED cursors

(***************************************************************************)
(* run_resolve: the value's extent, from the cache if its close is known.  *)
(***************************************************************************)
\* Faulty: the depth of its path alone.
LandedDepthRelative(t) == Len(t.path)

\* The depth in the document tree of the cursor that a hop hands out.
LandedDepth(t) == t.depth + Len(t.path)

\* hop hands out a cursor anchored at the value; get goes on to copy its text.
Located(c, start, end) ==
  LET t == task[c]
  IN  /\ task' = [task EXCEPT ![c].pc = IF t.op = "hop" THEN "done" ELSE "deliver",
                              ![c].start = start, ![c].end = end]
      /\ cursors' = IF t.op = "hop"
                      THEN cursors \cup {[anchor |-> start, depth |-> LandedDepth(t)]}
                      ELSE cursors

CachedClose(c) ==
  LET key   == TargetKey(c)
      known == key \in DOMAIN nodes /\ nodes[key].close # None
  IN  /\ At(c, "close")
      /\ LockFree
      /\ \/ known /\ Located(c, nodes[key].value_start, nodes[key].close)
         \/ ~ known /\ task' = [task EXCEPT ![c].pc = "extent"] /\ UNCHANGED cursors
      /\ UNCHANGED <<nodes, slots_used, tick, lock>>

\* Peek the kind, walk the extent, and remember a container's close.
Extent(c) ==
  LET t   == task[c]
      v   == Container(c)
      end == ValueEnd(t.start)
  IN  /\ At(c, "extent")
      /\ Located(c, t.start, end)
      /\ IF IsEnabled /\ IsContainer(v)
           THEN LockFree /\ StoreClose(TargetKey(c), Doc[v].kind, t.start, t.depth, end)
           ELSE UNCHANGED indexVars
      /\ UNCHANGED lock

\* The last read of a call, which writes nothing back: the byte that has peeks
\* at, the text that get copies out.
Deliver(c) ==
  /\ At(c, "deliver")
  /\ Finish(c, "found")
  /\ UNCHANGED <<nodes, slots_used, tick, lock, cursors>>

(***************************************************************************)
(* iter: IterState's initialize, fill_batch and record_early_break.        *)
(***************************************************************************)
Enter(c) ==
  /\ At(c, "enter")
  /\ IF IsContainer(Container(c))
       THEN task' = [task EXCEPT ![c].pc = "iterate"]
       ELSE Finish(c, "fault")
  /\ UNCHANGED <<nodes, slots_used, tick, lock, cursors>>

\* Faulty: each landmark holds the offset of the element before it.
LandmarksBehind(v, from, to) ==
  LET grid == {i \in from .. to - 1 : /\ Doc[v].kind = "array" /\ ArrayInterval > 0
                                      /\ i # 0 /\ i % ArrayInterval = 0}
  IN  [i \in grid |-> Entries(v)[i].at]

\* The array elements among children from .. to - 1 that lie on the sampling
\* grid, where the array itself opens left out.
Landmarks(v, from, to) ==
  LET grid == {i \in from .. to - 1 : /\ Doc[v].kind = "array" /\ IsEnabled
                                      /\ ArrayInterval > 0
                                      /\ i # 0 /\ i % ArrayInterval = 0}
  IN  [i \in grid |-> Entries(v)[i + 1].at]

StoreLandmarks(c, marks) ==
  IF DOMAIN marks = {}
    THEN UNCHANGED indexVars
    ELSE LockFree /\ MergeArrayScan(TargetKey(c), task[c].start, task[c].depth, marks)

\* One fetch that ends before the container does: a full batch, or a read
\* error after some children.
FillBatch(c) ==
  LET t == task[c]
      v == Container(c)
  IN  /\ At(c, "iterate")
      /\ \E to \in t.idx + 1 .. Len(Entries(v)) :
           /\ StoreLandmarks(c, Landmarks(v, t.idx, to))
           /\ task' = [task EXCEPT ![c].idx = to]
      /\ UNCHANGED <<lock, cursors>>

\* The fetch that runs off the end stores the close first, under a lock of
\* its own, and then the landmarks of its last children.
Exhaust(c) ==
  LET t     == task[c]
      v     == Container(c)
      count == Len(Entries(v))
  IN  /\ At(c, "iterate")
      /\ LockFree
      /\ StoreClose(TargetKey(c), Doc[v].kind, t.start, t.depth, Doc[v].close + 1)
      /\ task' = [task EXCEPT ![c].pc = "landmarks", ![c].idx = count,
                              ![c].marks = Landmarks(v, t.idx, count)]
      /\ UNCHANGED <<lock, cursors>>

LastLandmarks(c) ==
  /\ At(c, "landmarks")
  /\ StoreLandmarks(c, task[c].marks)
  /\ task' = [task EXCEPT ![c].pc = "done", ![c].marks = <<>>]
  /\ UNCHANGED <<lock, cursors>>

\* complete(): the consumer stops early; an array remembers where.
Break(c) ==
  LET t == task[c]
      v == Container(c)
      next_offset == IF t.idx < Len(Entries(v)) THEN Entries(v)[t.idx + 1].at ELSE Doc[v].close
  IN  /\ At(c, "iterate")
      /\ IF Doc[v].kind = "array" /\ t.idx > 0 /\ IsEnabled
           THEN StoreLandmarks(c, [i \in {t.idx} |-> next_offset])
           ELSE UNCHANGED indexVars
      /\ Finish(c, "found")
      /\ UNCHANGED <<lock, cursors>>

(***************************************************************************)
(* The specification.                                                      *)
(***************************************************************************)
Locate(c) ==
  \/ Lookup(c) \/ ScanDone(c) \/ ScanObject(c) \/ ScanArray(c)
  \/ ScanFault(c) \/ WriteBack(c)

Resolve(c) == CachedClose(c) \/ Extent(c) \/ Deliver(c)

Iterate(c) == Enter(c) \/ FillBatch(c) \/ Exhaust(c) \/ LastLandmarks(c)

SessionNext ==
  \E c \in Clients :
    Ask(c) \/ Locate(c) \/ ReadFails(c) \/ Resolve(c) \/ Iterate(c) \/ Break(c)

SessionSpec == SessionInit /\ [][SessionNext]_vars

(***************************************************************************)
(* Invariants.                                                             *)
(***************************************************************************)
Stages == {"idle", "lookup", "scan", "write", "close", "extent", "deliver",
           "enter", "iterate", "landmarks", "done"}

Statuses == {"none", "found", "absent", "fault", "failed"}

ScanOK(scan) ==
  /\ scan = Scan(scan.seg, scan.kind, scan.value_start, scan.members, scan.resume)
  /\ scan.seg \in Nat
  /\ scan.kind \in Kinds
  /\ scan.value_start \in Nat
  /\ scan.resume \in Nat \cup {None}
  /\ scan.kind = "object" => scan.members \in Seq(NamedEntry)
  /\ scan.kind = "array" => IsTable(scan.members) /\ DOMAIN scan.members \subseteq Nat

IsSequence(s) == s \in Seq({s[i] : i \in DOMAIN s})

TaskOK(t) ==
  /\ DOMAIN t = DOMAIN IdleTask
  /\ t.pc \in Stages /\ t.status \in Statuses
  /\ t.op \in Ops \cup {None}
  /\ t.anchor \in Nat /\ t.depth \in Nat /\ t.start \in Nat /\ t.idx \in Nat
  /\ t.path \in Seq(Segment)
  /\ t.seg \in 0 .. Len(t.path)
  /\ t.seed \in Seeds
  /\ t.end \in Nat \cup {None}
  /\ IsSequence(t.record)
  /\ \A i \in DOMAIN t.record : ScanOK(t.record[i]) /\ t.record[i].seg <= Len(t.path)
  /\ IsTable(t.marks) /\ DOMAIN t.marks \subseteq Nat

\* Types of the index's nodes, the cursors and the calls in flight; the mutex
\* is held across steps only by a write-back that has containers left.
TypeOK ==
  /\ IndexTypeOK
  /\ cursors \subseteq [anchor : Nat, depth : Nat]
  /\ DOMAIN task = Clients
  /\ \A c \in Clients : TaskOK(task[c])
  /\ lock # None => lock \in Clients /\ At(lock, "write") /\ task[lock].record # <<>>

\* An iter that was let in stands in a container.
Entered == \A c \in Clients : task[c].pc \in {"iterate", "landmarks"} => IsContainer(Container(c))

\* A node holds only what a scan of the text from its key's anchor along its
\* key's path would learn: the container is where the node says and of the
\* node's kind; its close, tabled members and array members stand where the
\* text has them; an object's resume offset stands in front of a member or at
\* the close.
NodeTruthful(k, node) ==
  LET v == SkipWhitespace(node.value_start)
  IN  /\ IsContainer(v) /\ Doc[v].kind = node.kind
      /\ Leads(k[1], k[2], Len(k[2]), node.value_start)
      /\ node.close # None => node.close = Doc[v].close + 1
      /\ node.kind = "object" => \E p \in 1 .. Len(Entries(v)) + 1 : StandsAt(v, p, node.resume)
      /\ \A x \in DOMAIN node.members :
           IF node.kind = "object"
             THEN \E i \in DOMAIN Entries(v) :
                    Addresses(v, i, Member(x)) /\ node.members[x] = Entries(v)[i].value
             ELSE StandsAt(v, x + 1, node.members[x])

\* Every fact the index holds is one the text bears out (cache.rs:12,
\* "Memoization over an immutable source").
CacheTruthful == \A k \in DOMAIN nodes : NodeTruthful(k, nodes[k])

\* A scan that resumes from the index resumes inside the container it scans: in
\* front of a member or at the close, and in an array at the element the seed
\* names, though the node that gave the seed may be gone by now and the seed is
\* good for one container only (resolve.rs:36-38).
SeedsStand ==
  \A c \in Clients :
    LET seed == task[c].seed
        v    == Container(c)
    IN  At(c, "scan") /\ seed # None =>
          /\ IsContainer(v) /\ Doc[v].kind = seed.kind
          /\ \E p \in 1 .. Len(Entries(v)) + 1 :
               /\ StandsAt(v, p, seed.offset)
               /\ seed.kind = "array" => p = seed.index + 1

\* An object's table covers every member in front of its resume offset, which
\* is what makes it right to look for an untabled member from there on
\* (cache.rs:401-402, "The table covers the dense prefix `[open, resume]`").
DensePrefix ==
  \A k \in DOMAIN nodes :
    LET node == nodes[k]
        v    == SkipWhitespace(node.value_start)
    IN  node.kind = "object" =>
          \E p \in 1 .. Len(Entries(v)) + 1 :
            /\ StandsAt(v, p, node.resume)
            /\ \A i \in 1 .. p - 1 : Entries(v)[i].name \in DOMAIN node.members

\* A container that the index knows under several keys, one per cursor it was
\* reached from, has one depth, its own in the document: eviction compares
\* nodes of different anchors by it (cursor.rs:26-28, "nodes carry their true
\* depth (the eviction key)").
OneDepth ==
  \A j, k \in DOMAIN nodes :
    SkipWhitespace(nodes[j].value_start) = SkipWhitespace(nodes[k].value_start)
      => nodes[j].depth = nodes[k].depth

\* A finished call reports what the text says, whatever the index held when it
\* looked, whatever other calls did meanwhile and whatever was evicted: the
\* path leads to the value found; a value reported absent is at no member and
\* no element of the container the path leads to; a fault is a real one; and a
\* located value ends where its text ends (session.rs:273-282).
AnswersTransparent == \A c \in Clients : At(c, "done") => IsTrue(task[c])

\* The half of it that eviction in mid-call cannot take away: what a call finds
\* is there, at the path it asked for.
FindsAreTrue == \A c \in Clients : At(c, "done") => FoundIsTrue(task[c])

\* A get with no segments locates the whole document (README.md:248-249, "With
\* no segments it decodes the whole document").
WholeDocument ==
  \A c \in Clients :
    LET t == task[c]
    IN  At(c, "done") /\ t.op = "get" /\ t.path = <<>> /\ t.status = "found"
          => t.end = ValueEnd(Container(c))

(***************************************************************************)
(* Action properties.                                                      *)
(***************************************************************************)

\* A node that survives a step keeps all it knew, and its resume offset never
\* goes back: write-backs of racing scans land in either order, and the one
\* that saw less must not undo the other (cache.rs:453-456).
NothingForgotten ==
  [][\A k \in DOMAIN nodes \cap DOMAIN nodes' :
       LET old == nodes[k]
           new == nodes'[k]
       IN  /\ old.value_start = new.value_start
           /\ old.close # None => new.close = old.close
           /\ \A x \in DOMAIN old.members :
                x \in DOMAIN new.members /\ new.members[x] = old.members[x]
           /\ old.kind = "object" => new.resume >= old.resume]_vars

(***************************************************************************)
(* What a call counts on others to leave alone.                            *)
(***************************************************************************)

\* A scan of v that saw the members from entry "first" on, up to the entry its
\* mark stands at.
Unbroken(v, first, new, hint) ==
  /\ first \in 1 .. Len(Entries(v)) + 1
  /\ \A j \in DOMAIN new : first + j - 1 \in 1 .. Len(Entries(v)) /\ new[j] = Entries(v)[first + j - 1]
  /\ \E p \in 1 .. Len(Entries(v)) + 1 : StandsAt(v, p, hint) /\ p <= first + Len(new)

\* A call relies on the object node that seeded its scan, from the lookup on
\* and until the scan is written back; a scan from the first member on does
\* without.
ReliesOn(t, k) ==
  \/ /\ t.pc = "scan" /\ t.seed # None
     /\ t.seed.kind = "object"
     /\ k = Key(t.anchor, t.path, t.seg)
  \/ /\ t.pc \in {"scan", "write"} /\ t.record # <<>>
     /\ LET scan == t.record[1]
        IN  /\ scan.kind = "object"
            /\ ~ (scan.resume = None /\ scan.members = <<>>)
            /\ ~ Unbroken(scan.value_start, 1, scan.members, scan.resume)
            /\ k = Key(t.anchor, t.path, scan.seg)

\* A step that sheds no node another call relies on.
Spares ==
  \A c \in Clients, k \in DOMAIN nodes :
    task'[c] = task[c] /\ ReliesOn(task[c], k) => k \in DOMAIN nodes'

(***************************************************************************)
(* Refinement: seen from outside, the session answers like a reader of the *)
(* text that remembers nothing.                                            *)
(***************************************************************************)
CallOf(t) ==
  LET done == t.pc = "done"
  IN  [ op |-> t.op, anchor |-> t.anchor, depth |-> t.depth, path |-> t.path,
        status |-> IF done THEN t.status ELSE "none",
        seg    |-> IF done THEN t.seg ELSE 0,
        start  |-> IF done THEN t.start ELSE 0,
        end    |-> IF done THEN t.end ELSE None ]

Promise == INSTANCE Query WITH calls <- [c \in Clients |-> CallOf(task[c])]

\* The session implements Query: each call is answered once, truly, and the
\* only cursors are those that hops handed out (cursor.rs:99-112).
ImplementsQuery == Promise!Spec
=============================================================================
