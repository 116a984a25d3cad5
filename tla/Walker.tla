------------------------------- MODULE Walker -------------------------------
(***************************************************************************)
(* The scans of walker.rs over a window of chunks.  Each is a function of  *)
(* the window and of where it stands, and returns one of                   *)
(*   Ok(x)      it got there,                                              *)
(*   Miss(c)    it needs chunk c, which is not resident,                   *)
(*   Failed(e)  the data ended, or is not JSON,                            *)
(*   Absent(o)  what it looked for is not there; its container ends at o.  *)
(* A resumable scan also returns where it stands now: what it committed at *)
(* the last block boundary survives a miss.                                *)
(***************************************************************************)
EXTENDS Blocks, Drive

ASSUME TextsAssumption == Texts \subseteq Seq(Bytes)

Ok(x)     == [is |-> "ok", of |-> x]
Miss(c)   == [is |-> "miss", of |-> c]
Failed(e) == [is |-> "failed", of |-> e]
Absent(o) == [is |-> "absent", of |-> o]

Eof       == Failed("unexpected_eof")
Malformed == Failed("malformed_json")

\* Rust's `?`: go on with the value, or hand on what stopped the scan.
Then(result, Go(_)) ==
  Given(result, LAMBDA r : IF r.is = "ok" THEN Go(r.of) ELSE r)
-----------------------------------------------------------------------------
(* Bytes *)

Resident(w, o) == ChunkOf(o) \in DOMAIN w.chunks
Holds(w, o)    == Resident(w, o) /\ o % ChunkBytes < w.chunks[ChunkOf(o)]

ByteAt(w, o) ==
  IF PastEnd(w, o) THEN "none"
  ELSE IF ~Resident(w, o) THEN "missing"
  ELSE IF Holds(w, o) THEN text[o + 1] ELSE "none"

\* As a result, for callers that go on with the byte.
ReadByte(w, o) == IF ByteAt(w, o) = "missing" THEN Miss(ChunkOf(o)) ELSE Ok(ByteAt(w, o))

\* The first offset whose byte is not one of `bytes`.
SkipWhile(w, from, bytes) ==
  Given(Min({o \in from .. from + Len(text) : ByteAt(w, o) \notin bytes}), LAMBDA stop :
    IF ByteAt(w, stop) = "missing" THEN Miss(ChunkOf(stop)) ELSE Ok(stop))

SkipWhitespace(w, from) == SkipWhile(w, from, {"space"})
SkipPrimitive(w, from)  == SkipWhile(w, from, {"p"})

DataEnd(w, to) == IF w.size = Unsized THEN to ELSE Least(to, w.size)

Absentees(w, from, to) == {o \in from .. to - 1 : ~Resident(w, o)}

\* The bytes from .. to - 1, as far as the window's chunks have them.
ReadRange(w, from, to) ==
  Given(Absentees(w, from, DataEnd(w, to)), LAMBDA absent :
    IF absent # {} THEN Miss(ChunkOf(Min(absent)))
    ELSE Ok(SelectSeq([i \in 1 .. DataEnd(w, to) - from |-> from + i - 1],
                      LAMBDA o : Holds(w, o))))

\* The block at `o`, blank behind the data.  It spans at most two chunks; the
\* second is not asked for when the first ends in front of the block.
BlockAt(w, o) ==
  Given(DataEnd(w, o + BlockBytes), LAMBDA end :
  Given(Absentees(w, o, end), LAMBDA absent :
    IF absent # {} /\ (Resident(w, o) => Holds(w, o)) THEN Miss(ChunkOf(Min(absent)))
    ELSE Ok([b \in Bits |-> IF o + b < end /\ Holds(w, o) /\ Holds(w, o + b)
                            THEN text[o + b + 1] ELSE "space"])))
-----------------------------------------------------------------------------
(* Resumable scans.  A scan stands at a block boundary, `at`, under a carry, *)
(* with what it has counted so far.                                          *)

ScanFrom(offset) ==
  [at |-> offset, carry |-> OutsideString, depth |-> 0, index |-> 0, samples |-> {}]

StringFrom(interior) == [ScanFrom(interior) EXCEPT !.carry = InsideString]

\* mutant: the next block starts outside strings.
NextBlockFresh(scan, carry) == [scan EXCEPT !.at = @ + BlockBytes, !.carry = OutsideString]

NextBlock(scan, carry) == [scan EXCEPT !.at = @ + BlockBytes, !.carry = carry]

Stands(result, scan) == [result |-> result, scan |-> scan]

More == [is |-> "more", of |-> 0]

\* A loop: Turn takes a scan on and stands at More as long as the loop goes
\* round.  `most` is a bound on the turns that are taken.
Loop(scan, most, Turn(_)) ==
  LET turn[n \in 0 .. most] ==
        IF n = 0 THEN Stands(More, scan)
        ELSE Given(turn[n - 1], LAMBDA step : IF step.result.is = "more" THEN Turn(step.scan)
                                              ELSE step)
  IN  turn[most]

\* A scan over blocks or members moves on with every turn.
TurnsOfScan == Len(text) + 1

\* One block of a scan: its word and the carry behind it are handed to Go.
OnBlock(w, scan, Go(_, _)) ==
  IF PastEnd(w, scan.at) THEN Stands(Eof, scan)
  ELSE Given(BlockAt(w, scan.at), LAMBDA block :
         IF block.is # "ok" THEN Stands(block, scan)
         ELSE Given(ScanBlock(block.of, scan.carry), LAMBDA scanned : Go(block.of, scanned)))

\* The closing quote: the first byte of the data that is not in the string.
StringBlock(w, scan) ==
  OnBlock(w, scan, LAMBDA block, scanned :
    Given({b \in Bits \ scanned.inString : ~PastEnd(w, scan.at + b)}, LAMBDA outside :
      IF outside # {}
      THEN Stands(Ok(scan.at + Min(outside)), scan)
      ELSE Stands(More, NextBlock(scan, scanned.carry))))

StringStep(w, scan) == Loop(scan, TurnsOfScan, LAMBDA s : StringBlock(w, s))

CloseOf == [b \in Opens |-> IF b = "{" THEN "}" ELSE "]"]

UpTo(word, b) == Cardinality({d \in word : d <= b})

\* The depth behind every bit of a block.
Depths(words, depth) ==
  [b \in Bits |-> depth + UpTo(words.opens, b) - UpTo(words.closes, b)]

Structure(block, scanned, opens, closes) ==
  [opens  |-> StructuralWord(block, scanned.inString, opens),
   closes |-> StructuralWord(block, scanned.inString, closes),
   commas |-> StructuralWord(block, scanned.inString, {","})]

\* The end of the container whose opening byte is `open`.  Brackets of the
\* other kind are not looked at; a block with fewer closes than the depth is
\* not walked bit by bit.
ContainerBlock(w, open, scan) ==
  OnBlock(w, scan, LAMBDA block, scanned :
    Given(Structure(block, scanned, {open}, {CloseOf[open]}), LAMBDA words :
    Given(Depths(words, scan.depth), LAMBDA depths :
    Given(IF Cardinality(words.closes) < scan.depth THEN {}
          ELSE {b \in words.closes : depths[b] = 0}, LAMBDA ends :
      IF ends # {}
      THEN Stands(Ok(scan.at + Min(ends) + 1), scan)
      ELSE Stands(More, [NextBlock(scan, scanned.carry) EXCEPT !.depth = depths[BlockBytes - 1]])))))

ContainerStep(w, open, scan) == Loop(scan, TurnsOfScan, LAMBDA s : ContainerBlock(w, open, s))

\* skip_value_step: the end of the value, once its opening byte is known.
SkipState(from, byte) ==
  CASE byte = "quote" -> StringFrom(from + 1)
    [] byte \in Opens -> [ScanFrom(from + 1) EXCEPT !.depth = 1]
    [] OTHER          -> ScanFrom(from)

SkipStep(w, byte, scan) ==
  CASE byte = "quote" -> Given(StringStep(w, scan), LAMBDA step :
                           [step EXCEPT !.result = Then(@, LAMBDA close : Ok(close + 1))])
    [] byte \in Opens -> ContainerStep(w, byte, scan)
    [] OTHER          -> Stands(SkipPrimitive(w, scan.at), scan)

\* skip_value: from the value's start, whatever an earlier attempt got to.
SkipValue(w, from) ==
  Then(ReadByte(w, from), LAMBDA byte :
    IF byte = "none" THEN Eof ELSE SkipStep(w, byte, SkipState(from, byte)).result)

StringClose(w, interior) == StringStep(w, StringFrom(interior)).result
-----------------------------------------------------------------------------
(* advance_top_level_commas: over the elements of an array to the target,    *)
(* sampling the start of every element whose index is on the stride's grid.  *)

\* The commas of a block that end an element: those at depth 0 in front of the
\* container's close.
Boundaries(words, depth) ==
  Given(Depths(words, depth), LAMBDA depths :
  Given({b \in words.closes : depths[b] < 0}, LAMBDA ends :
    [commas |-> {b \in words.commas : depths[b] = 0 /\ \A e \in ends : b < e},
     closed |-> ends # {},
     depth  |-> depths[BlockBytes - 1]]))

OnGrid(index, stride) == stride > 0 /\ index % stride = 0

\* Comma b of `commas` ends an element; this is the one behind it.
ElementBehind(scan, commas, b) ==
  [index |-> scan.index + UpTo(commas, b), offset |-> scan.at + b + 1]

\* mutant: the sample is the comma, not the element behind it.
SampledAtComma(scan, words, commas, target, stride) ==
  LET flat == scan.depth = 0 /\ words.opens = {} /\ words.closes = {}
  IN  {[s EXCEPT !.offset = @ - 1] :
         s \in {e \in {ElementBehind(scan, commas, b) : b \in commas} :
                  OnGrid(e.index, stride) /\ (flat \/ e.index <= target)}}

\* Without nesting all the block's commas are sampled, the ones behind the
\* target too; with nesting the walk stops at the target.
Sampled(scan, words, commas, target, stride) ==
  LET flat == scan.depth = 0 /\ words.opens = {} /\ words.closes = {}
  IN  {s \in {ElementBehind(scan, commas, b) : b \in commas} :
         OnGrid(s.index, stride) /\ (flat \/ s.index <= target)}

\* What one block does to the scan: its elements are counted and sampled.
CommaBlock(scan, words, carry, target, stride) ==
  Given(Boundaries(words, scan.depth), LAMBDA bounds :
  Given({ElementBehind(scan, bounds.commas, b) : b \in bounds.commas}, LAMBDA behind :
  Given(scan.samples \cup Sampled(scan, words, bounds.commas, target, stride), LAMBDA samples :
    IF \E e \in behind : e.index = target
    THEN LET hit == CHOOSE e \in behind : e.index = target
         IN  Stands(Ok(hit.offset), [ScanFrom(hit.offset) EXCEPT !.index = target,
                                                                 !.samples = samples])
    ELSE Stands(IF bounds.closed THEN Absent(scan.at) ELSE More,
                [NextBlock(scan, carry) EXCEPT !.samples = samples,
                                               !.depth   = bounds.depth,
                                               !.index   = @ + Cardinality(behind)]))))

CommaTurn(w, scan, target, stride) ==
  IF scan.index = target THEN Stands(Ok(scan.at), scan)
  ELSE OnBlock(w, scan, LAMBDA block, scanned :
         Given(Structure(block, scanned, Opens, Closes), LAMBDA words :
           CommaBlock(scan, words, scanned.carry, target, stride)))

CommaStep(w, scan, target, stride) ==
  Loop(scan, TurnsOfScan, LAMBDA s : CommaTurn(w, s, target, stride))
=============================================================================
