------------------------------ MODULE Resolver ------------------------------
(***************************************************************************)
(* The byte-level steps of resolve.rs: a path followed from a value's      *)
(* start, and the children of a container one by one, over the window of   *)
(* Walker.  The last committed position survives a miss.                   *)
(***************************************************************************)
EXTENDS Walker

\* The segments of a path, and what names a child.
Name(bytes)    == [kind |-> "{", name |-> bytes, index |-> 0]
Index(element) == [kind |-> "[", name |-> <<>>, index |-> element]

Segments == [kind : Opens, name : Seq(Bytes), index : Nat]

NotNavigable == [is |-> "not_navigable", of |-> 0]
-----------------------------------------------------------------------------
(* Members and elements *)

\* From a key's closing quote to the value behind the colon.
MemberValueStart(w, close) ==
  Then(SkipWhitespace(w, close + 1), LAMBDA colon :
    Then(ReadByte(w, colon), LAMBDA byte :
      IF byte = ":" THEN SkipWhitespace(w, colon + 1) ELSE Malformed))

\* The member at `from`: its quotes and where its value starts.
MemberAt(w, from) ==
  Then(SkipWhitespace(w, from), LAMBDA open :
    Then(ReadByte(w, open), LAMBDA byte :
      CASE byte = "none"  -> Eof
        [] byte = "}"     -> Absent(open)
        [] byte = "quote" ->
             Then(StringClose(w, open + 1), LAMBDA close :
               Then(MemberValueStart(w, close), LAMBDA value :
                 Ok([key |-> SubSeq(text, open + 2, close), value |-> value])))
        [] OTHER -> Malformed))

\* The element at `from`, and whether there is one.
ElementAt(w, from) ==
  Then(SkipWhitespace(w, from), LAMBDA start :
    Then(ReadByte(w, start), LAMBDA byte :
      CASE byte = "none" -> Eof
        [] byte = "]"    -> Absent(start)
        [] OTHER         -> Ok(start)))

\* The end of the value at `start`, and the next child or, at the last one,
\* the container's close.
AdvancePastValue(w, start, close) ==
  Then(SkipValue(w, start), LAMBDA end :
    Then(SkipWhitespace(w, end), LAMBDA after :
      Then(ReadByte(w, after), LAMBDA byte :
        CASE byte = ","   -> Ok([end |-> end, next |-> after + 1, last |-> FALSE])
          [] byte = close -> Ok([end |-> end, next |-> after, last |-> TRUE])
          [] OTHER        -> Malformed)))

\* Object scans commit after each member, array scans after each block.
ObjectMember(w, scan, name) ==
  Given(MemberAt(w, scan.at), LAMBDA member :
    IF member.is # "ok" THEN Stands(member, scan)
    ELSE IF member.of.key = name THEN Stands(Ok(member.of.value), scan)
    ELSE Given(AdvancePastValue(w, member.of.value, "}"), LAMBDA past :
           IF past.is # "ok" THEN Stands(past, scan)
           ELSE IF past.of.last THEN Stands(Absent(past.of.next), scan)
           ELSE Stands(More, ScanFrom(past.of.next))))

StepObject(w, scan, name) == Loop(scan, TurnsOfScan, LAMBDA s : ObjectMember(w, s, name))

\* The target itself is a sample too, wherever it stands on the grid.
StepArray(w, scan, target, stride) ==
  Given(CommaStep(w, scan, target, stride), LAMBDA step :
  Given(Then(step.result, LAMBDA from : ElementAt(w, from)), LAMBDA found :
    Stands(found, [step.scan EXCEPT !.samples = @ \cup
                     IF found.is = "ok" /\ stride > 0
                     THEN {[index |-> target, offset |-> found.of]} ELSE {}])))
-----------------------------------------------------------------------------
(* resolve_step: segment by segment.  `scan` is None in front of a container *)
(* and the scan inside it afterwards; `record` holds what was sampled in the *)
(* containers behind it, on a grid of `stride` elements, 0 for none.         *)

NoScan == [at |-> -1]

ResolveFrom(start, stride) ==
  [seg |-> 0, start |-> start, kind |-> "none", scan |-> NoScan,
   stride |-> stride, record |-> {}]

\* mutant: the chunk the scan stands in is let go.
MinReachableNext(state) ==
  IF state.scan = NoScan THEN state.start ELSE state.scan.at + ChunkBytes

MinReachable(state) == IF state.scan = NoScan THEN state.start ELSE state.scan.at

Recorded(state, samples) ==
  state.record \cup {[container |-> state.start, index |-> s.index, offset |-> s.offset] :
                       s \in samples}

\* The container at the state's start is entered.
EnterSegment(w, state) ==
  Given(SkipWhitespace(w, state.start), LAMBDA open :
    IF open.is # "ok" THEN Stands(open, state)
    ELSE LET byte == ByteAt(w, open.of)
             here == [state EXCEPT !.start = open.of]
         IN  CASE byte = "missing" -> Stands(Miss(ChunkOf(open.of)), here)
               [] byte = "none"    -> Stands(Eof, here)
               [] byte \in Opens   -> Stands(Ok(open.of), [here EXCEPT !.kind = byte,
                                                             !.scan = ScanFrom(open.of + 1)])
               [] OTHER            -> Stands(NotNavigable, here))

\* The child its segment names is looked for.
StepSegment(w, segment, state) ==
  IF segment.kind # state.kind THEN Stands(NotNavigable, state)
  ELSE Given(IF state.kind = "["
             THEN StepArray(w, state.scan, segment.index, state.stride)
             ELSE StepObject(w, state.scan, segment.name), LAMBDA step :
         Stands(step.result,
                IF step.result.is = "ok"
                THEN [state EXCEPT !.seg    = @ + 1,
                                   !.start  = step.result.of,
                                   !.scan   = NoScan,
                                   !.record = Recorded(state, step.scan.samples)]
                ELSE [state EXCEPT !.scan = step.scan]))

ResolveTurn(w, path, state) ==
  IF state.seg = Len(path) THEN Stands(Ok(state.start), state)
  ELSE Given(IF state.scan = NoScan THEN EnterSegment(w, state)
             ELSE StepSegment(w, path[state.seg + 1], state), LAMBDA step :
         IF step.result.is = "ok" THEN Stands(More, step.scan) ELSE step)

\* A segment takes two turns, one to enter its container and one to step in it.
ResolveStep(w, path, state) ==
  Loop(state, 2 * Len(path) + 1, LAMBDA s : ResolveTurn(w, path, s))
-----------------------------------------------------------------------------
(* A cursor over the children of a container *)

EnterContainer(w, start) ==
  Then(SkipWhitespace(w, start), LAMBDA open :
    Then(ReadByte(w, open), LAMBDA byte :
      CASE byte = "none"  -> Eof
        [] byte \in Opens -> Ok([kind |-> byte, next |-> open + 1, index |-> 0])
        [] OTHER          -> NotNavigable))

\* A child of either kind: the segment that names it, its extent, the cursor
\* behind it.
ChildOf(cursor, segment, start, past) ==
  [segment |-> segment, start |-> start, end |-> past.end,
   cursor  |-> [cursor EXCEPT !.next = past.next, !.index = @ + 1]]

NextChild(w, cursor) ==
  IF cursor.kind = "{"
  THEN Then(MemberAt(w, cursor.next), LAMBDA member :
         Then(AdvancePastValue(w, member.value, "}"), LAMBDA past :
           Ok(ChildOf(cursor, Name(member.key), member.value, past))))
  ELSE Then(ElementAt(w, cursor.next), LAMBDA start :
         Then(AdvancePastValue(w, start, "]"), LAMBDA past :
           Ok(ChildOf(cursor, Index(cursor.index), start, past))))
=============================================================================
