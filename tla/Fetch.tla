------------------------------- MODULE Fetch -------------------------------
(***************************************************************************)
(* One query over its own window: has, get and iter of session.rs,         *)
(* stream.rs and eval.rs, byte for byte and read for read.  Every phase is *)
(* a call of Session::drive: a synchronous step over the window, which     *)
(* either gets on or misses a chunk; then what lies below its floor is     *)
(* dropped, a burst is read and the step is tried again.                   *)
(***************************************************************************)
EXTENDS Resolver, Json

CONSTANTS MaxBurst,       \* chunks of the longest burst (MAX_BURST)
          Stride,         \* grid of the sampled array elements (array_interval)
          MaxBatchCount,  \* items that end a batch
          MaxBatchBytes,  \* bytes that end a batch
          Calls           \* what may be asked: [do, path, select]

\* A projection's paths name something; an empty one is rejected before (args.ts).
CallShapes ==
  {call \in [do     : {"has", "get", "iter"},
             path   : Seq(Segments),
             select : [shape : {"whole", "one", "map"}, paths : Seq(Seq(Segments))]] :
     /\ call.select.shape = "one" => call.select.paths # <<>>
     /\ call.select.shape = "map" => \A i \in DOMAIN call.select.paths : call.select.paths[i] # <<>>}

\* A chunk is a whole number of blocks.
ASSUME FetchAssumption ==
  /\ MaxBurst \in Nat \ {0}
  /\ Stride \in Nat
  /\ BlockBytes <= ChunkBytes
  /\ Calls \subseteq CallShapes

VARIABLE op   \* the query under way

vars == <<driveVars, op>>

\* A projection: the whole child, one path into it, or a list of fields.
Whole       == [shape |-> "whole", paths |-> <<>>]
One(path)   == [shape |-> "one", paths |-> <<path>>]
Map(paths)  == [shape |-> "map", paths |-> paths]

None == [none |-> TRUE]

Unread(start) == [byte |-> "unread", scan |-> ScanFrom(start)]

Idle ==
  [ phase     |-> "idle",
    call      |-> None,
    cached    |-> FALSE,            \* whether the session has an index
    resolve   |-> ResolveFrom(0, 0),  \* the path resolution under way
    target    |-> <<>>,             \* the path it follows
    start     |-> 0, end |-> 0,     \* the value located
    skip      |-> Unread(0),        \* the walk over its extent
    burst     |-> 1,                \* chunks the next miss asks for
    cursor    |-> None,             \* the children being iterated
    child     |-> 0,                \* start of the child being projected
    inner     |-> None,             \*   the cursor over its members
    fields    |-> <<>>,             \*   where its fields were found
    values    |-> <<>>,             \*   the values projected so far
    batch     |-> <<>>,             \* items of the batch being filled
    delivered |-> <<>>,             \* items handed out
    answer    |-> None ]

\* A value is the offsets that were copied; null is none.
Null == <<>>

\* A stream's container is open.
Projecting == op.cursor # None

\* mutant: the burst is not capped.
DoubledUncapped(n) == 2 * n

Doubled(n)  == Least(2 * n, MaxBurst)
At(phase)   == op.phase = phase /\ run = NoRun

\* A miss of chunk c; `waiting` is the query with what the step committed.
Missed(c, n, floor, waiting) == Fault(c, n, ChunkOf(floor)) /\ op' = waiting

\* The synchronous step got on without a read.
Onward(next) == op' = next /\ UNCHANGED driveVars

\* The call is over; a batch that was being filled is lost.
Ended(answer) == [op EXCEPT !.phase = "done", !.answer = answer, !.batch = <<>>]

Entering(o, phase) == [o EXCEPT !.phase = phase, !.burst = 1]

PruneTo(next) ==
  /\ window' = PruneWindow(window, next)
  /\ UNCHANGED <<text, declared, run, lastRead>>

\* The call stops short: a stream that was not opened lets its window go, one
\* that was is pruned to the child behind.
Stopped(answer) ==
  /\ op' = Ended(answer)
  /\ IF Projecting THEN PruneTo(op.cursor.next)
     ELSE IF op.call.do = "iter" THEN CloseWindow
     ELSE UNCHANGED driveVars

\* has, get and iter open a window and resolve their path from the root.  The
\* index, and with it the samples, is off over a forward source, which may or
\* may not declare its size.
Ask(call) ==
  /\ At("idle")
  /\ \E cached \in BOOLEAN :
       /\ cached => declared # Unsized
       /\ op' = [Idle EXCEPT !.phase = "locate", !.call = call, !.target = call.path,
                             !.cached = cached,
                             !.resolve = ResolveFrom(0, IF cached THEN Stride ELSE 0)]
  /\ OpenWindow
-----------------------------------------------------------------------------
(* Projection of one child: the values still to copy, field by field *)

Found(start, end) == [start |-> start, end |-> end]

Padded(values, n) == values \o [i \in 1 .. n - Len(values) |-> Null]

\* Go on to the next field: absent ones are null, the child itself and a
\* member that was matched are copied, a path into either is resolved first.
NextField(o) ==
  Given({i \in DOMAIN o.fields : i > Len(o.values) /\ o.fields[i].at # None}, LAMBDA found :
    IF found = {}
    THEN [Entering(o, "yield") EXCEPT !.values = Padded(@, Len(o.fields))]
    ELSE LET field == o.fields[Min(found)]
             onto  == [o EXCEPT !.values = Padded(@, Min(found) - 1)]
         IN  IF field.path = <<>>
             THEN [Entering(onto, "copy") EXCEPT !.start = field.at.start, !.end = field.at.end]
             ELSE [Entering(onto, "locate") EXCEPT !.resolve = ResolveFrom(field.at.start, 0),
                                                   !.target  = field.path])

Emitted(o, value) ==
  NextField([o EXCEPT !.values = Append(@, value)])

\* mutant: the values of the child before it are kept.
ProjectChildKeeping(o, child) ==
  LET at     == Found(child.start, child.end)
      fresh  == [o EXCEPT !.child = child.start, !.cursor = child.cursor]
  IN  CASE o.call.select.shape = "whole" ->
             NextField([fresh EXCEPT !.fields = <<[path |-> <<>>, at |-> at]>>])
        [] o.call.select.shape = "one" ->
             NextField([fresh EXCEPT !.fields = <<[path |-> o.call.select.paths[1], at |-> at]>>])
        [] o.call.select.shape = "map" ->
             [Entering(fresh, "enter") EXCEPT
                !.fields = [i \in DOMAIN o.call.select.paths |->
                              [path |-> Tail(o.call.select.paths[i]), at |-> None]]]

\* A child was stepped to: its projection starts.
ProjectChild(o, child) ==
  LET at     == Found(child.start, child.end)
      fresh  == [o EXCEPT !.child = child.start, !.values = <<>>, !.cursor = child.cursor]
  IN  CASE o.call.select.shape = "whole" ->
             NextField([fresh EXCEPT !.fields = <<[path |-> <<>>, at |-> at]>>])
        [] o.call.select.shape = "one" ->
             NextField([fresh EXCEPT !.fields = <<[path |-> o.call.select.paths[1], at |-> at]>>])
        [] o.call.select.shape = "map" ->
             [Entering(fresh, "enter") EXCEPT
                !.fields = [i \in DOMAIN o.call.select.paths |->
                              [path |-> Tail(o.call.select.paths[i]), at |-> None]]]

Unmatched(o) == {i \in DOMAIN o.fields : o.fields[i].at = None}

\* A member of the child is the head of every unmatched field that names it.
Matched(o, member) ==
  [o EXCEPT !.fields = [i \in DOMAIN o.fields |->
     IF i \in Unmatched(o) /\ Head(o.call.select.paths[i]) = member.segment
     THEN [o.fields[i] EXCEPT !.at = Found(member.start, member.end)]
     ELSE o.fields[i]]]
-----------------------------------------------------------------------------
(* Locating: run_locate and run_resolve_direct *)

\* Where a path's value starts, for whom: has peeks whether a byte is there,
\* get walks the extent (after a peek at the kind, for the cache), iter opens
\* the container, a projection walks the extent.
AfterLocate(start) ==
  LET o == [op EXCEPT !.start = start, !.skip = Unread(start)]
  IN  IF Projecting THEN Entering(o, "skip")
      ELSE CASE op.call.do = "has"  -> Entering(o, "peek")
             [] op.call.do = "get"  -> Entering(o, IF op.cached THEN "peek" ELSE "skip")
             [] op.call.do = "iter" -> Entering(o, "open")

\* Absent or not navigable: null to a projection, an answer to a call.
AfterNothing(result) ==
  IF Projecting THEN Onward(Emitted(op, Null)) ELSE Stopped(result)

Locate ==
  /\ At("locate")
  /\ \E step \in {ResolveStep(window, op.target, op.resolve)} :
       CASE step.result.is = "miss"   -> Missed(step.result.of, op.burst, MinReachable(step.scan),
                                                [op EXCEPT !.resolve = step.scan,
                                                           !.burst = Doubled(@)])
         [] step.result.is = "ok"     -> Onward([AfterLocate(step.result.of)
                                                   EXCEPT !.resolve = step.scan])
         [] step.result.is = "failed" -> Stopped(step.result)
         [] OTHER                     -> AfterNothing(step.result)

Peek ==
  /\ At("peek")
  /\ \E byte \in {Then(SkipWhitespace(window, op.start), LAMBDA o : ReadByte(window, o))} :
       IF byte.is = "miss" THEN Missed(byte.of, 1, op.start, op)
       ELSE Onward(IF byte.of = "none" THEN Ended(Eof)
                   ELSE IF op.call.do = "has" THEN Ended(Ok(<<>>))
                   ELSE Entering(op, "skip"))

\* skip_value_at: the walk resumes where it was when a chunk was missing.
SkipValueAt ==
  /\ At("skip")
  /\ \E read \in {IF op.skip.byte = "unread" THEN ReadByte(window, op.start)
                                           ELSE Ok(op.skip.byte)} :
       CASE read.is = "miss"  -> Missed(read.of, op.burst, op.start, [op EXCEPT !.burst = Doubled(@)])
         [] read = Ok("none") -> Stopped(Eof)
         [] OTHER ->
              \E step \in {SkipStep(window, read.of, IF op.skip.byte = "unread"
                                                    THEN SkipState(op.start, read.of)
                                                    ELSE op.skip.scan)} :
                CASE step.result.is = "miss" ->
                       Missed(step.result.of, op.burst, step.scan.at,
                              [op EXCEPT !.burst = Doubled(@),
                                         !.skip = [byte |-> read.of, scan |-> step.scan]])
                  [] step.result.is = "ok"   ->
                       Onward([Entering(op, "copy") EXCEPT !.end = step.result.of])
                  [] OTHER -> Stopped(step.result)

CopyBurst(c) ==
  LET rest == op.end - c * ChunkBytes
  IN  IF rest > ChunkBytes THEN (rest + ChunkBytes - 1) \div ChunkBytes ELSE 1

\* materialize: the value is copied whole, from its start.
Materialize ==
  /\ At("copy")
  /\ \E bytes \in {ReadRange(window, op.start, op.end)} :
       IF bytes.is = "miss" THEN Missed(bytes.of, CopyBurst(bytes.of), op.start, op)
       ELSE Onward(IF Projecting THEN Emitted(op, bytes.of) ELSE Ended(bytes))
-----------------------------------------------------------------------------
(* iter: children, batches *)

\* A stream whose container breaks off keeps its window; one that finds none
\* lets it go.
Open ==
  /\ At("open")
  /\ \E entered \in {EnterContainer(window, op.start)} :
       CASE entered.is = "miss" -> Missed(entered.of, 1, op.start, op)
         [] entered.is = "ok"   -> /\ PruneTo(entered.of.next)
                                   /\ op' = [Entering(op, "child") EXCEPT !.cursor = entered.of]
         [] entered.is = "failed" -> Onward(Ended(entered))
         [] OTHER               -> CloseWindow /\ op' = Ended(entered)

\* The stream's end hands out what the batch holds; a fault drops it.
StepChild ==
  /\ At("child")
  /\ \E child \in {NextChild(window, op.cursor)} :
       CASE child.is = "miss"   -> Missed(child.of, op.burst, op.cursor.next,
                                          [op EXCEPT !.burst = Doubled(@)])
         [] child.is = "ok"     -> Onward(ProjectChild(op, child.of))
         [] child.is = "absent" -> /\ CloseWindow
                                   /\ op' = [Ended(Ok(<<>>)) EXCEPT !.delivered = @ \o op.batch]
         [] OTHER               -> Stopped(child)

\* project_map: the child's members, until every field has met its own.
EnterChild ==
  /\ At("enter")
  /\ \E entered \in {EnterContainer(window, op.child)} :
       CASE entered.is = "miss"   -> Missed(entered.of, 1, op.child, op)
         [] entered.is = "ok"     -> Onward([Entering(op, "member") EXCEPT !.inner = entered.of])
         [] entered.is = "failed" -> Stopped(entered)
         [] OTHER                 -> Onward(NextField(op))

StepMember ==
  /\ At("member")
  /\ \E member \in {NextChild(window, op.inner)} :
       CASE member.is = "miss"   -> Missed(member.of, op.burst, op.inner.next,
                                           [op EXCEPT !.burst = Doubled(@)])
         [] member.is = "ok"     ->
              /\ PruneTo(member.of.cursor.next)
              /\ \E found \in {Matched(op, member.of)} :
                   op' = IF Unmatched(found) = {} THEN NextField(found)
                         ELSE [Entering(found, "member") EXCEPT !.inner = member.of.cursor]
         [] member.is = "absent" -> Onward(NextField(op))
         [] OTHER                -> Stopped(member)

\* Bytes of the batch text, brackets and commas included.
Weight(item) == FoldFunction(LAMBDA value, sum : sum + Len(value), 0, item)

BatchBytes(batch) == FoldFunction(LAMBDA item, sum : sum + 1 + Weight(item), 0, batch)

\* The item joins the batch, the window is pruned behind it, and a batch that
\* is full is handed out.
Yield ==
  /\ At("yield")
  /\ LET batch == Append(op.batch, op.values)
         full  == Len(batch) >= MaxBatchCount \/ BatchBytes(batch) >= MaxBatchBytes
     IN  op' = IF full
               THEN [op EXCEPT !.phase = "paused", !.batch = <<>>, !.delivered = @ \o batch]
               ELSE [Entering(op, "child") EXCEPT !.batch = batch]
  /\ PruneTo(op.cursor.next)

\* The consumer asks for the next batch, or leaves its loop.
Resume == At("paused") /\ Onward(Entering(op, "child"))

Break ==
  /\ At("paused")
  /\ CloseWindow
  /\ op' = Ended([is |-> "left", of |-> 0])
-----------------------------------------------------------------------------
\* A read that fails ends the call; a batch under way is lost.  The prune that
\* follows in a stream is left to Return, which lets the whole window go.
ReadFails == Reject /\ op' = Ended(Failed("source_io"))

Delivered == Receive /\ UNCHANGED op

\* The call returned, and its window went with it.
Return ==
  /\ At("done")
  /\ CloseWindow
  /\ op' = Idle

Work == \/ Locate \/ Peek \/ SkipValueAt \/ Materialize
        \/ Open \/ StepChild \/ EnterChild \/ StepMember \/ Yield
        \/ Return

Init == DriveInit /\ op = Idle

Next == \/ \E call \in Calls : Ask(call)
        \/ Work \/ Delivered \/ ReadFails
        \/ Resume \/ Break

Spec == Init /\ [][Next]_vars

\* The event loop runs what can run, and a source answers what it is asked.
FairSpec == Spec /\ WF_vars(Work) /\ WF_vars(Delivered)
-----------------------------------------------------------------------------
(* Properties *)

Phases == {"idle", "locate", "peek", "skip", "copy", "open", "child", "enter",
           "member", "yield", "paused", "done"}

\* The phase is one of a query's, a burst is within its cap, a resident chunk
\* holds at least a byte and at most a chunk's, a scan's carry is one a block
\* can start with (session.rs drive, chunks.rs ChunkWindow).
TypeOK ==
  /\ op.phase \in Phases
  /\ op.burst \in 1 .. MaxBurst
  /\ DOMAIN window.chunks \subseteq ChunkIds
  /\ \A c \in DOMAIN window.chunks : window.chunks[c] \in 1 .. ChunkBytes
  /\ op.skip.scan.carry \in Carries
  /\ run # NoRun => op.phase \notin {"idle", "yield", "paused", "done"}

\* What the text says of every call, whatever the chunks and reads are: the
\* answer, the items of an iter, the samples its path can give.
ItemOf(t, extents, child, select) ==
  IF select.shape = "whole" THEN <<Spanned(child.start, child.end)>>
  ELSE [i \in DOMAIN select.paths |-> Selected(t, extents, child.start, select.paths[i])]

TrueAnswer(t, extents, call, place) ==
  IF place.to # "value" THEN [is |-> place.to, of |-> <<>>]
  ELSE IF call.do = "has" THEN Ok(<<>>)
  ELSE IF call.do = "iter" /\ t[place.at + 1] \notin Opens
       THEN [is |-> "not_navigable", of |-> <<>>]
  ELSE IF extents[place.at] = Broken THEN [is |-> "broken", of |-> <<>>]
  ELSE Ok(IF call.do = "get" THEN Spanned(place.at, extents[place.at]) ELSE <<>>)

TrueItems(t, extents, call, place) ==
  IF call.do # "iter" \/ place.to # "value" \/ t[place.at + 1] \notin Opens THEN <<>>
  ELSE Given(ChildrenOf(t, extents, place.at), LAMBDA children :
         [i \in DOMAIN children |-> ItemOf(t, extents, children[i], call.select)])

\* The elements on the grid in front of a path's targets, and the targets.
TrueSamples(t, extents, path) ==
  UNION {Given(Leads(t, extents, 0, SubSeq(path, 1, k - 1)), LAMBDA place :
           IF place.to # "value" \/ t[place.at + 1] # path[k].kind \/ path[k].kind = "{" THEN {}
           ELSE Given(ChildStarts(t, extents, place.at), LAMBDA starts :
                  {[container |-> place.at, index |-> i - 1, offset |-> starts[i]] :
                     i \in DOMAIN starts})) : k \in DOMAIN path}

TrueOf(t, extents, call) ==
  Given(Leads(t, extents, 0, call.path), LAMBDA place :
    [answer  |-> TrueAnswer(t, extents, call, place),
     items   |-> TrueItems(t, extents, call, place),
     samples |-> TrueSamples(t, extents, call.path)])

Truths ==
  [t \in Texts |-> Given(Extents(t), LAMBDA extents : [call \in Calls |-> TrueOf(t, extents, call)])]

Truth == Truths[text][op.call]

\* A call answers what a byte-wise reading of the text answers, and fails only
\* where the text ends too soon or a read failed: neither the block a byte falls
\* in, nor the chunk, nor how often the scan was cut short by a miss, nor
\* whether the source knew its size can be seen in an answer (walker.rs,
\* resolve.rs, session.rs).
AnswersTrue ==
  op.phase = "done" /\ op.answer # Failed("source_io") /\ op.answer.is # "left" =>
    /\ (op.answer.is = "failed") = (Truth.answer.is = "broken")
    /\ op.answer.is # "failed" => op.answer.is = Truth.answer.is
    /\ op.answer.is = "ok" => op.answer.of = Truth.answer.of

\* What a stream has handed out and what its batch holds are the container's
\* children from the first one on, each projected as asked, none twice and none
\* left out, whichever way the stream ended; all of them if it ended by itself
\* (stream.rs fill_batch, eval.rs project).
DeliveredIsPrefix ==
  LET given == op.delivered \o op.batch
  IN  op.phase \in {"paused", "done", "child"} =>
        /\ Len(given) <= Len(Truth.items)
        /\ \A i \in DOMAIN given : given[i] = Truth.items[i]
        /\ op.answer = Ok(<<>>) => Len(given) = Len(Truth.items)

\* Every sample a resolution took stands at the element it names, and none on
\* the grid up to the target was missed, though the comma count went on from
\* block boundaries in the middle of nested values and strings
\* (walker.rs advance_top_level_commas).
SamplesStand ==
  op.phase \in {"peek", "skip", "open"} /\ ~Projecting =>
    LET seen == {[s EXCEPT !.offset = Visible(text, @)] : s \in op.resolve.record}
        owed == {s \in Truth.samples : \E k \in DOMAIN op.call.path :
                   /\ OnGrid(s.index, op.resolve.stride) /\ s.index > 0
                   /\ s.index <= op.call.path[k].index
                   /\ \E r \in seen : r.container = s.container /\ r.index = op.call.path[k].index}
    IN  seen \subseteq Truth.samples /\ owed \subseteq seen

\* The walk over the extent of the string or the container that a get returns
\* keeps one burst and the chunk it stands in, however long the value is.  (In
\* a projection the fields that were copied are still there.)
\* (session.rs skip_value_at).
WindowBounded ==
  op.phase = "skip" /\ ~Projecting /\ op.skip.byte \in {"quote"} \cup Opens =>
    Cardinality(DOMAIN window.chunks) <= MaxBurst + 1

\* Up to the point where a value is copied out, a call reads the source in
\* order: locating, peeking and walking an extent never ask for a chunk in front
\* of the last one they read, whatever the text (resolve.rs min_reachable,
\* session.rs drive).
LocatesForward ==
  [][op.phase \in {"locate", "peek", "skip", "open"} /\ ~Projecting
       => lastRead' >= lastRead]_vars

\* Nor does stepping to a stream's next child: behind each child the cursor
\* stands past all that its projections read (cursor.rs next_child, stream.rs).
ChildrenForward == [][op.phase = "child" => lastRead' >= lastRead]_vars

\* So does the whole query: a forward source is read in one pass.
OnePass == [][op.phase # "idle" => lastRead' >= lastRead]_vars

\* A query that is asked is answered, or hands out a batch: the retry loop of
\* drive makes progress with every read (session.rs drive).
EveryCallAnswered ==
  op.phase \notin {"idle", "paused", "done"} ~> op.phase \in {"paused", "done"}
=============================================================================
