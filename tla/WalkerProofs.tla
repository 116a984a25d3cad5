----------------------------- MODULE WalkerProofs -----------------------------
(***************************************************************************)
(* What the walker stands on: the window through which it sees the text,   *)
(* and what its walks read of it: bytes, values, members, children and     *)
(* paths, each from where it stands to where it stops or misses a chunk.   *)
(***************************************************************************)
EXTENDS Fetch, NatSets, SequenceTheorems, TLAPS

(***************************************************************************)
(* The window.  Whatever a walker asks for, in whatever order, however long *)
(* its bursts and however reads fail: through the window it sees the       *)
(* source's bytes and nothing else, as long as the source keeps its word   *)
(* (HonestSource).                                                         *)
(***************************************************************************)

\* A chunk is as long as the text allows.
Holding(chunks) ==
  \A c \in DOMAIN chunks :
    /\ c \in Nat
    /\ c * ChunkBytes < Len(text)
    /\ chunks[c] = Least(ChunkBytes, Len(text) - c * ChunkBytes)

\* Before the size is known only whole chunks have come in.
WholeChunks(chunks) == \A c \in DOMAIN chunks : chunks[c] = ChunkBytes

\* What a walker sees of it is the text.
Shows(w) ==
  /\ w.size \in {Unsized, Len(text)}
  /\ Holding(w.chunks)
  /\ w.size = Unsized => WholeChunks(w.chunks)

WindowKept ==
  /\ window = [size |-> window.size, chunks |-> window.chunks]
  /\ Shows(window)

\* A read_chunks call stands at most at the text's end; what it has read so far
\* is held as the window holds it.
RunKept ==
  run # NoRun =>
    /\ run = [cur |-> run.cur, stop |-> run.stop, out |-> run.out]
    /\ run.cur \in Nat /\ run.stop \in Nat /\ run.cur < run.stop
    /\ run.cur * ChunkBytes <= Len(text)
    /\ Holding(run.out) /\ WholeChunks(run.out)

\* The window, and the read under way, of a text.
Kept ==
  /\ text \in Texts
  /\ declared \in {Unsized, Len(text)}
  /\ WindowKept
  /\ RunKept
-----------------------------------------------------------------------------
\* Chunks are counted in bytes by multiplication (chunks.rs read_chunks).
LEMMA Stretch ==
  ASSUME NEW m \in Nat, NEW n \in Nat, m <= n
  PROVE  /\ (n - m) * ChunkBytes \in Nat
         /\ m * ChunkBytes \in Nat /\ n * ChunkBytes \in Nat
         /\ n * ChunkBytes = m * ChunkBytes + (n - m) * ChunkBytes
         /\ m < n => (n - m) * ChunkBytes >= ChunkBytes
<1>1. ChunkBytes \in Nat /\ ChunkBytes > 0
  BY DriveAssumption
<1>2. PICK k \in Nat : n = m + k
  BY SMT
<1>3. n * ChunkBytes = m * ChunkBytes + k * ChunkBytes
  BY <1>1, <1>2
<1>4. /\ k * ChunkBytes \in Nat /\ m * ChunkBytes \in Nat /\ n * ChunkBytes \in Nat
  BY <1>1, <1>2
<1>5. k > 0 => k * ChunkBytes >= ChunkBytes
  BY <1>1
<1>6. n - m = k
  BY <1>2
<1>7. QED
  BY <1>2, <1>3, <1>4, <1>5, <1>6

\* What is merged of two held sets of chunks is held (chunks.rs insert).
LEMMA InsertedHolds ==
  ASSUME NEW chunks, NEW out
  PROVE  /\ Holding(chunks) /\ Holding(out) => Holding(Inserted(chunks, out))
         /\ WholeChunks(chunks) /\ WholeChunks(out) => WholeChunks(Inserted(chunks, out))
BY DEF Holding, WholeChunks, Inserted

\* What is left when a window drops chunks is held (chunks.rs drop_below, clear).
LEMMA DroppingKeeps ==
  ASSUME NEW w, Shows(w), w = [size |-> w.size, chunks |-> w.chunks], NEW floor
  PROVE  /\ Shows(DropBelow(w, floor)) /\ Shows(Cleared(w))
         /\ DropBelow(w, floor) = [size   |-> w.size, chunks |-> DropBelow(w, floor).chunks]
         /\ Cleared(w) = [size |-> w.size, chunks |-> Cleared(w).chunks]
<1> DEFINE kept == [c \in {d \in DOMAIN w.chunks : d >= floor} |-> w.chunks[c]]
           none == [c \in {} |-> 0]
<1>1. DropBelow(w, floor) = [size |-> w.size, chunks |-> kept]
  BY DEF DropBelow
<1>2. Cleared(w) = [size |-> w.size, chunks |-> none]
  BY DEF Cleared
<1>3. /\ Holding(kept) /\ Holding(none) /\ WholeChunks(none)
      /\ WholeChunks(w.chunks) => WholeChunks(kept)
  BY DEF Shows, Holding, WholeChunks
<1> HIDE DEF kept, none
<1> QED
  BY <1>1, <1>2, <1>3 DEF Shows

\* An honest source returns what was asked or all that is left, and reports the
\* end only there (source.rs read).
LEMMA HonestOutcome ==
  ASSUME HonestSource, Len(text) \in Nat,
         NEW offset \in Nat, offset <= Len(text),
         NEW length \in Nat, length > 0,
         NEW o \in Outcomes(offset, length)
  PROVE  /\ o.got \in 0 .. length
         /\ offset + o.got <= Len(text)
         /\ o.eof => offset + o.got = Len(text)
         /\ ~o.eof => o.got = length
         /\ o.got = length \/ offset + o.got = Len(text)
<1> DEFINE full == IF offset < Len(text) THEN Least(length, Len(text) - offset) ELSE 0
           ends == IF full < length THEN {TRUE}
                   ELSE IF offset + full = Len(text) THEN BOOLEAN ELSE {FALSE}
<1>1. /\ full \in 0 .. length /\ offset + full <= Len(text)
      /\ full = length \/ offset + full = Len(text)
  BY DEF Least
<1>2. ~ShortReads
  BY DEF HonestSource
<1>3. PICK eof \in ends : o = [got |-> full, eof |-> eof]
  BY <1>2 DEF Outcomes
<1>4. o.got = full /\ o.eof = eof
  BY <1>3
<1> HIDE DEF full
<1>5. CASE full < length
  <2>1. ends = {TRUE}
    BY <1>5
  <2>2. o.eof = TRUE
    BY <1>3, <1>4, <2>1
  <2>3. QED
    BY <1>1, <1>4, <1>5, <2>2
<1>6. CASE full = length
  <2>1. CASE offset + full = Len(text)
    BY <1>1, <1>4, <1>6, <2>1
  <2>2. CASE offset + full # Len(text)
    <3>1. ~(full < length)
      BY <1>6
    <3>2. o.eof = FALSE
      BY <1>3, <1>4, <2>2, <3>1
    <3>3. QED
      BY <1>1, <1>4, <1>6, <3>2
  <2>3. QED
    BY <2>1, <2>2
<1>7. QED
  BY <1>1, <1>5, <1>6

\* A read that returned what was asked, or all that is left, splits into chunks
\* as long as the text allows (chunks.rs read_chunks).
LEMMA SplitHolds ==
  ASSUME Len(text) \in Nat,
         NEW r, r.cur \in Nat, RunEnd(r) \in Nat, r.cur < RunEnd(r),
         NEW got \in Nat,
         r.cur * ChunkBytes + got <= Len(text),
         \/ got = (RunEnd(r) - r.cur) * ChunkBytes
         \/ r.cur * ChunkBytes + got = Len(text)
  PROVE  /\ Holding(Split(r, got))
         /\ got = (RunEnd(r) - r.cur) * ChunkBytes => WholeChunks(Split(r, got))
<1>1. SUFFICES ASSUME NEW c \in r.cur .. RunEnd(r) - 1, (c - r.cur) * ChunkBytes < got
               PROVE  /\ c \in Nat
                      /\ c * ChunkBytes < Len(text)
                      /\ Least(ChunkBytes, got - (c - r.cur) * ChunkBytes)
                           = Least(ChunkBytes, Len(text) - c * ChunkBytes)
                      /\ got = (RunEnd(r) - r.cur) * ChunkBytes
                           => Least(ChunkBytes, got - (c - r.cur) * ChunkBytes) = ChunkBytes
  BY DEF Holding, WholeChunks, Split
<1>2. c \in Nat /\ r.cur <= c /\ c < RunEnd(r) /\ ChunkBytes \in Nat
  BY DriveAssumption
<1> DEFINE before == (c - r.cur) * ChunkBytes
           start  == r.cur * ChunkBytes
           behind == (RunEnd(r) - c) * ChunkBytes
           whole  == (RunEnd(r) - r.cur) * ChunkBytes
<1>3. /\ before \in Nat /\ start \in Nat
      /\ c * ChunkBytes = start + before
  BY <1>2, Stretch
<1>4. behind \in Nat /\ behind >= ChunkBytes
      /\ RunEnd(r) * ChunkBytes = c * ChunkBytes + behind
  <2>1. c \in Nat /\ RunEnd(r) \in Nat /\ c <= RunEnd(r) /\ c < RunEnd(r)
    BY <1>2
  <2>2. QED
    BY <2>1, Stretch
<1>5. RunEnd(r) * ChunkBytes = start + whole /\ whole \in Nat
  BY <1>2, Stretch
<1>6. whole = before + behind
  <2> DEFINE place == c * ChunkBytes
             stop  == RunEnd(r) * ChunkBytes
  <2>1. place = start + before /\ stop = place + behind /\ stop = start + whole
    BY <1>3, <1>4, <1>5
  <2> HIDE DEF before, behind, start, whole, place, stop
  <2>2. QED
    BY <1>3, <1>4, <1>5, <2>1
<1>7. /\ start + got <= Len(text) /\ (got = whole \/ start + got = Len(text)) /\ before < got
  BY <1>1
<1> DEFINE place == c * ChunkBytes
<1>8. place = start + before
  BY <1>3
<1>9. /\ place < Len(text) /\ Least(ChunkBytes, got - before) = Least(ChunkBytes, Len(text) - place)
      /\ got = whole => Least(ChunkBytes, got - before) = ChunkBytes
  <2> HIDE DEF before, behind, start, whole, place
  <2>1. QED
    BY <1>2, <1>3, <1>4, <1>6, <1>7, <1>8 DEF Least
<1>10. QED
  BY <1>2, <1>9

-----------------------------------------------------------------------------
\* The text stays what it was, and so does what is said of it.
LEMMA StaysShown ==
  ASSUME text' = text, NEW w, Shows(w), w = [size |-> w.size, chunks |-> w.chunks], window' = w
  PROVE  WindowKept'
BY DEF WindowKept, Shows, Holding, WholeChunks

\* What a read has gathered stays held while the text stays (chunks.rs
\* read_chunks).
LEMMA StaysHeld ==
  ASSUME text' = text, NEW out, Holding(out), WholeChunks(out), run'.out = out
  PROVE  (Holding(run.out) /\ WholeChunks(run.out))'
BY DEF Holding, WholeChunks

\* The initial states are kept (session.rs new_window).
LEMMA InitKept == HonestSource /\ DriveInit => Kept
<1> SUFFICES ASSUME HonestSource, DriveInit PROVE Kept
  OBVIOUS
<1>1. text \in Texts /\ Len(text) \in Nat
  BY DriveAssumption DEF DriveInit
<1>2. declared \in {Unsized, Len(text)}
  BY <1>1 DEF DriveInit, Sizes, HonestSource
<1>3. WindowKept
  BY <1>2 DEF DriveInit, NewWindow, WindowKept, Shows, Holding, WholeChunks
<1>4. QED
  BY <1>1, <1>2, <1>3 DEF Kept, RunKept, DriveInit

\* A miss drops chunks and starts a run at the chunk missed (session.rs drive).
LEMMA FaultKept ==
  ASSUME Kept, NEW c \in Nat, NEW floor \in Nat, NEW n \in Nat \ {0},
         Askable(c), Fault(c, n, floor)
  PROVE  Kept'
<1>1. c \in Nat /\ n \in Nat /\ n > 0 /\ Len(text) \in Nat /\ ChunkBytes \in Nat
  BY DriveAssumption DEF Kept
<1>2. /\ window' = DropBelow(window, floor)
      /\ run' = [cur |-> c, stop |-> c + n, out |-> [d \in {} |-> 0]]
      /\ UNCHANGED <<text, declared>>
  BY DEF Fault
<1>3. WindowKept'
  BY <1>2, DroppingKeeps, StaysShown DEF Kept, WindowKept
<1>4. RunKept'
  <2>1. c * ChunkBytes <= Len(text)
    <3>1. c * ChunkBytes \in Nat
      BY <1>1
    <3>2. QED
      BY <1>1, <3>1, DriveAssumption DEF Askable, Kept, WindowKept, Shows
  <2>2. (Holding(run.out) /\ WholeChunks(run.out))'
    BY <1>2 DEF Holding, WholeChunks
  <2>3. QED
    BY <1>1, <1>2, <2>1, <2>2 DEF RunKept
<1>5. QED
  BY <1>2, <1>3, <1>4 DEF Kept

\* One read of a run goes in, and with the last the window takes them all
\* (chunks.rs read_chunks, session.rs drive).
LEMMA ReceiveKept ==
  ASSUME HonestSource, Kept, Receive
  PROVE  Kept'
<1> DEFINE offset == run.cur * ChunkBytes
           length == (RunEnd(run) - run.cur) * ChunkBytes
<1>1. PICK o \in Outcomes(offset, length) :
        LET out == Inserted(run.out, Split(run, o.got))
            end == IF o.eof THEN offset + o.got ELSE Unsized
        IN  IF o.eof \/ RunEnd(run) = run.stop
            THEN window' = Filled(window, out, end) /\ run' = NoRun
            ELSE run' = [run EXCEPT !.cur = RunEnd(run), !.out = out] /\ UNCHANGED window
  BY DEF Receive
<1> DEFINE out == Inserted(run.out, Split(run, o.got))
           end == IF o.eof THEN offset + o.got ELSE Unsized
<1>2. /\ run # NoRun /\ UNCHANGED <<text, declared>>
      /\ text \in Texts /\ Len(text) \in Nat
  BY DriveAssumption DEF Receive, Kept
<1>3. /\ run = [cur |-> run.cur, stop |-> run.stop, out |-> run.out]
      /\ run.cur \in Nat /\ run.stop \in Nat /\ run.cur < run.stop
      /\ offset <= Len(text) /\ Holding(run.out) /\ WholeChunks(run.out)
  BY <1>2 DEF Kept, RunKept
<1>4. /\ RunEnd(run) \in Nat /\ run.cur < RunEnd(run) /\ RunEnd(run) <= run.stop
      /\ ChunkBytes \in Nat /\ ChunkBytes > 0
  BY <1>3, DriveAssumption DEF RunEnd, Least
<1>5. /\ offset \in Nat /\ length \in Nat /\ length > 0
      /\ RunEnd(run) * ChunkBytes = offset + length
  <2>1. run.cur \in Nat /\ RunEnd(run) \in Nat /\ run.cur <= RunEnd(run) /\ run.cur < RunEnd(run)
    BY <1>3, <1>4
  <2>2. /\ run.cur * ChunkBytes \in Nat
        /\ (RunEnd(run) - run.cur) * ChunkBytes \in Nat
        /\ RunEnd(run) * ChunkBytes = run.cur * ChunkBytes + (RunEnd(run) - run.cur) * ChunkBytes
        /\ (RunEnd(run) - run.cur) * ChunkBytes >= ChunkBytes
    BY <2>1, Stretch
  <2>3. QED
    BY <1>4, <2>2
<1>6. /\ o.got \in 0 .. length
      /\ offset + o.got <= Len(text)
      /\ o.eof => offset + o.got = Len(text)
      /\ ~o.eof => o.got = length
      /\ o.got = length \/ offset + o.got = Len(text)
  <2> HIDE DEF offset, length
  <2>1. QED
    BY <1>2, <1>3, <1>5, HonestOutcome
<1>7. Holding(out) /\ (~o.eof => WholeChunks(out))
  <2>1. o.got \in Nat
    BY <1>5, <1>6
  <2>2. Holding(Split(run, o.got)) /\ (~o.eof => WholeChunks(Split(run, o.got)))
    BY <1>2, <1>3, <1>4, <1>6, <2>1, SplitHolds
  <2>3. QED
    BY <1>3, <2>2, InsertedHolds
<1>8. CASE o.eof \/ RunEnd(run) = run.stop
  <2>1. window' = Filled(window, out, end) /\ run' = NoRun
    BY <1>1, <1>8
  <2>2. end = IF o.eof THEN Len(text) ELSE Unsized
    BY <1>6
  <2>3. /\ window = [size |-> window.size, chunks |-> window.chunks]
        /\ window.size \in {Unsized, Len(text)}
        /\ Holding(Inserted(window.chunks, out))
        /\ window.size = Unsized /\ ~o.eof => WholeChunks(Inserted(window.chunks, out))
    BY <1>7, InsertedHolds DEF Kept, WindowKept, Shows
  <2> HIDE DEF out, end
  <2>4. /\ Filled(window, out, end) = [size   |-> Filled(window, out, end).size,
                                       chunks |-> Inserted(window.chunks, out)]
        /\ Filled(window, out, end).size = IF window.size = Unsized /\ o.eof THEN Len(text)
                                           ELSE window.size
    BY <1>2, <2>2, <2>3, DriveAssumption DEF Filled, SetSourceSize
  <2>5. Shows(Filled(window, out, end))
    BY <1>2, <2>3, <2>4, DriveAssumption DEF Shows
  <2>6. WindowKept'
    BY <1>2, <2>1, <2>4, <2>5, StaysShown
  <2>7. QED
    BY <1>2, <2>1, <2>6 DEF Kept, RunKept
<1>9. CASE ~(o.eof \/ RunEnd(run) = run.stop)
  <2>1. run' = [run EXCEPT !.cur = RunEnd(run), !.out = out] /\ UNCHANGED window
    BY <1>1, <1>9
  <2> HIDE DEF out
  <2>2. run' = [cur |-> RunEnd(run), stop |-> run.stop, out |-> out]
    BY <1>3, <2>1
  <2>3. RunEnd(run) * ChunkBytes <= Len(text)
    <3> HIDE DEF offset, length
    <3>1. QED
      BY <1>2, <1>5, <1>6, <1>9
  <2>4. (Holding(run.out) /\ WholeChunks(run.out))'
    BY <1>2, <1>7, <1>9, <2>2, StaysHeld
  <2>5. RunKept'
    BY <1>2, <1>3, <1>4, <1>9, <2>2, <2>3, <2>4 DEF RunKept
  <2>6. WindowKept'
    BY <1>2, <2>1, StaysShown DEF Kept, WindowKept
  <2>7. QED
    BY <1>2, <2>5, <2>6 DEF Kept
<1>10. QED
  BY <1>8, <1>9

\* The steps that read nothing keep the window or empty it (session.rs, stream.rs).
LEMMA PlainKept ==
  ASSUME Kept, Reject \/ OpenWindow \/ CloseWindow \/ \E floor \in Nat : Prune(floor)
  PROVE  Kept'
<1>1. UNCHANGED <<text, declared>> /\ (run' = run \/ run' = NoRun)
  BY DEF Reject, OpenWindow, CloseWindow, Prune
<1>2. RunKept'
  BY <1>1 DEF Kept, RunKept, Holding, WholeChunks
<1>3. Shows(window) /\ window = [size |-> window.size, chunks |-> window.chunks]
  BY DEF Kept, WindowKept
<1>4. CASE Reject
  BY <1>3, <1>4, StaysShown, <1>1, <1>2 DEF Reject, Kept
<1>5. CASE OpenWindow
  <2>1. Shows(NewWindow) /\ NewWindow = [size |-> NewWindow.size, chunks |-> NewWindow.chunks]
    BY DEF NewWindow, Kept, Shows, Holding, WholeChunks
  <2> QED
    BY <1>1, <1>2, <1>5, <2>1, StaysShown DEF OpenWindow, Kept
<1>6. CASE CloseWindow
  BY <1>1, <1>2, <1>3, <1>6, DroppingKeeps, StaysShown DEF CloseWindow, Kept
<1>7. CASE \E floor \in Nat : Prune(floor)
  BY <1>1, <1>2, <1>3, <1>7, DroppingKeeps, StaysShown DEF Prune, Kept
<1>8. QED
  BY <1>4, <1>5, <1>6, <1>7

\* A step of the query that leaves the window alone.
LEMMA UnchangedKept ==
  ASSUME Kept, UNCHANGED driveVars
  PROVE  Kept'
BY DEF driveVars, Kept, WindowKept, RunKept, Shows, Holding, WholeChunks

\* Over an honest source a window shows the source's bytes and nothing else,
\* whatever its walker asks for (WindowIsSource).
THEOREM WindowTrue == HonestSource => (DriveSpec => []WindowIsSource)
<1> SUFFICES ASSUME HonestSource PROVE DriveSpec => []WindowIsSource
  OBVIOUS
<1>1. DriveInit => Kept
  BY InitKept
<1>2. Kept /\ [DriveNext]_driveVars => Kept'
  <2> SUFFICES ASSUME Kept, [DriveNext]_driveVars PROVE Kept'
    OBVIOUS
  <2>1. ASSUME NEW c \in ChunkIds, NEW floor \in ChunkIds, NEW n \in ChunkIds \ {0},
               Askable(c), Fault(c, n, floor)
        PROVE  Kept'
    BY <2>1, FaultKept, DriveAssumption
  <2>2. CASE Receive
    BY <2>2, ReceiveKept
  <2>3. CASE Reject \/ OpenWindow \/ CloseWindow \/ \E floor \in ChunkIds : Prune(floor)
    BY <2>3, PlainKept, DriveAssumption
  <2>4. CASE UNCHANGED driveVars
    BY <2>4, UnchangedKept
  <2>5. QED
    BY <2>1, <2>2, <2>3, <2>4 DEF DriveNext
<1>3. Kept => WindowIsSource
  BY DEF Kept, WindowKept, Shows, Holding, WindowIsSource
<1>4. QED
  BY <1>1, <1>2, <1>3, PTL DEF DriveSpec

(***************************************************************************)
(* What a scan reads.  A scan sees the text through its window, goes on    *)
(* from byte to byte, and stops at the first one it needs that is not      *)
(* resident: so it asks for no chunk that is resident, for none behind a   *)
(* known end, and, while the end is not known, for none behind the chunk   *)
(* in which the source has to report it.                                   *)
(***************************************************************************)

\* Where a scan may stand: behind no end it does not know of.
Fits(w, o) == o \in Nat /\ (w.size = Unsized => o <= Len(text))

\* Every byte in between is in the window, or behind the data.
Walked(w, from, to) ==
  \A o \in Nat : from <= o /\ o < to => Resident(w, o) \/ PastEnd(w, o)

\* Where a scan that started at `from` may have got to.
Reach(w, from) == {o \in Nat : from <= o /\ Fits(w, o) /\ Walked(w, from, o)}

\* The bytes it may lack, and the chunks it may miss.
Lacking(w, from) == {o \in Reach(w, from) : ~Resident(w, o) /\ ~PastEnd(w, o)}

\* The chunks such a scan may miss.
Missing(w, from) == {ChunkOf(o) : o \in Lacking(w, from)}

\* The chunks that the block at `from` may miss.
NearMissing(w, from) == {ChunkOf(o) : o \in {p \in Lacking(w, from) : p < from + BlockBytes}}

\* What scans rest on: the window shows the text.
SightOf(w) == text \in Texts /\ Shows(w)

\* A block is at least a byte, and its bits are numbered from none
\* (simd.rs BLOCK).
LEMMA BlockBytesNat == BlockBytes \in Nat /\ BlockBytes >= 1 /\ Bits = 0 .. BlockBytes - 1
BY LogBlockAssumption, PowerStep DEF BlockBytes, Bits

\* A text is made of the bytes the walker tells apart.
LEMMA TextBytes ==
  ASSUME text \in Texts
  PROVE  Len(text) \in Nat /\ \A o \in Nat : o < Len(text) => text[o + 1] \in Bytes
<1>1. text \in Seq(Bytes)
  BY TextsAssumption
<1> QED
  BY <1>1

\* A chunk holds the bytes o of ChunkOf(o) * ChunkBytes <= o < (ChunkOf(o) + 1) * ChunkBytes.
LEMMA ChunkFacts ==
  ASSUME NEW o \in Nat
  PROVE  /\ ChunkOf(o) \in Nat
         /\ ChunkBytes \in Nat /\ ChunkBytes > 0
         /\ ChunkOf(o) * ChunkBytes \in Nat
         /\ o = ChunkOf(o) * ChunkBytes + (o % ChunkBytes)
         /\ o % ChunkBytes \in 0 .. ChunkBytes - 1
<1>1. ChunkBytes \in Nat /\ ChunkBytes > 0
  BY DriveAssumption
<1>2. /\ o \div ChunkBytes \in Int
      /\ o = ChunkBytes * (o \div ChunkBytes) + (o % ChunkBytes)
      /\ o % ChunkBytes \in 0 .. ChunkBytes - 1
  BY <1>1
<1>3. o \div ChunkBytes \in Nat
  <2> SUFFICES ASSUME o \div ChunkBytes <= -1 PROVE FALSE
    BY <1>2
  <2>1. ChunkBytes * (o \div ChunkBytes) <= ChunkBytes * (-1)
    BY <1>1, <1>2
  <2> QED
    BY <1>1, <1>2, <2>1
<1>4. ChunkBytes * (o \div ChunkBytes) = (o \div ChunkBytes) * ChunkBytes
  BY <1>1, <1>3
<1>5. (o \div ChunkBytes) * ChunkBytes \in Nat
  BY <1>1, <1>3
<1> QED
  BY <1>1, <1>2, <1>3, <1>4, <1>5 DEF ChunkOf

\* A resident chunk holds the bytes of the text that are its own.
LEMMA ByteHeld ==
  ASSUME NEW w, SightOf(w), NEW o \in Nat, Resident(w, o)
  PROVE  /\ Holds(w, o) <=> o < Len(text)
         /\ w.size = Unsized => o < Len(text)
<1> DEFINE c == ChunkOf(o)
           start == c * ChunkBytes
           r == o % ChunkBytes
<1>1. /\ c \in DOMAIN w.chunks
      /\ start < Len(text)
      /\ w.chunks[c] = Least(ChunkBytes, Len(text) - start)
      /\ w.size = Unsized => w.chunks[c] = ChunkBytes
  BY DEF SightOf, Shows, Holding, WholeChunks, Resident
<1>2. start \in Nat /\ o = start + r /\ r \in 0 .. ChunkBytes - 1 /\ ChunkBytes \in Nat
  BY ChunkFacts
<1>3. Len(text) \in Nat
  BY TextBytes DEF SightOf
<1>4. Holds(w, o) <=> r < w.chunks[c]
  BY DEF Holds
<1> HIDE DEF c, start, r
<1>5. r < Least(ChunkBytes, Len(text) - start) <=> o < Len(text)
  BY <1>1, <1>2, <1>3 DEF Least
<1>6. w.size = Unsized => o < Len(text)
  BY <1>1, <1>2, <1>3 DEF Least
<1> QED
  BY <1>1, <1>4, <1>5, <1>6

\* A known end is the end of the text (chunks.rs past_end).
LEMMA EndSeen ==
  ASSUME NEW w, SightOf(w), NEW o \in Nat
  PROVE  PastEnd(w, o) <=> w.size # Unsized /\ o >= Len(text)
BY DEF SightOf, Shows, PastEnd

\* The byte at o: there, behind the end, or not resident.
LEMMA ByteSeen ==
  ASSUME NEW w, SightOf(w), NEW o \in Nat
  PROVE  \/ /\ ByteAt(w, o) = text[o + 1] /\ ByteAt(w, o) \in Bytes
            /\ o < Len(text) /\ Resident(w, o)
         \/ ByteAt(w, o) = "none" /\ PastEnd(w, o)
         \/ ByteAt(w, o) = "missing" /\ ~Resident(w, o) /\ ~PastEnd(w, o)
<1>1. CASE PastEnd(w, o)
  BY <1>1 DEF ByteAt
<1>2. CASE ~PastEnd(w, o) /\ ~Resident(w, o)
  BY <1>2 DEF ByteAt
<1>3. CASE ~PastEnd(w, o) /\ Resident(w, o)
  <2>1. o < Len(text)
    <3>1. Len(text) \in Nat
      BY TextBytes DEF SightOf
    <3> QED
      BY <1>3, <3>1, ByteHeld, EndSeen
  <2> QED
    BY <1>3, <2>1, ByteHeld, TextBytes DEF ByteAt, SightOf
<1> QED
  BY <1>1, <1>2, <1>3

\* Reach is what a scan that goes on from reach to reach stays in.
LEMMA ReachFacts ==
  ASSUME NEW w, NEW from, Fits(w, from)
  PROVE  /\ from \in Reach(w, from)
         /\ \A a \in Reach(w, from) :
              /\ Fits(w, a) /\ from <= a
              /\ Reach(w, a) \subseteq Reach(w, from)
              /\ Lacking(w, a) \subseteq Lacking(w, from)
              /\ Missing(w, a) \subseteq Missing(w, from)
              /\ \A o \in Nat : from <= o /\ o <= a => o \in Reach(w, from)
<1>0. from \in Nat
  BY DEF Fits
<1>1. from \in Reach(w, from)
  BY <1>0 DEF Reach, Walked
<1>2. ASSUME NEW a \in Reach(w, from)
      PROVE  /\ Fits(w, a) /\ from <= a
             /\ Reach(w, a) \subseteq Reach(w, from)
             /\ \A o \in Nat : from <= o /\ o <= a => o \in Reach(w, from)
  <2>1. a \in Nat /\ from <= a /\ Fits(w, a) /\ Walked(w, from, a)
    BY DEF Reach
  <2>2. ASSUME NEW o \in Reach(w, a) PROVE o \in Reach(w, from)
    <3>1. o \in Nat /\ a <= o /\ Fits(w, o) /\ Walked(w, a, o)
      BY DEF Reach
    <3>2. Walked(w, from, o)
      BY <1>0, <2>1, <3>1 DEF Walked
    <3> QED
      BY <1>0, <2>1, <3>1, <3>2 DEF Reach
  <2>3. ASSUME NEW o \in Nat, from <= o, o <= a PROVE o \in Reach(w, from)
    <3>1. Walked(w, from, o)
      BY <1>0, <2>1, <2>3 DEF Walked
    <3>2. Fits(w, o)
      <4>1. ASSUME w.size = Unsized PROVE o <= Len(text)
        <5>1. a <= Len(text)
          BY <2>1, <4>1 DEF Fits
        <5>2. Len(text) \in Int \/ Len(text) \notin Int
          OBVIOUS
        <5> QED
          BY <2>1, <2>3, <5>1
      <4> QED
        BY <4>1 DEF Fits
    <3> QED
      BY <2>3, <3>1, <3>2 DEF Reach
  <2> QED
    BY <2>1, <2>2, <2>3
<1>3. ASSUME NEW a \in Reach(w, from)
      PROVE  Lacking(w, a) \subseteq Lacking(w, from) /\ Missing(w, a) \subseteq Missing(w, from)
  BY <1>2 DEF Lacking, Missing
<1> QED
  BY <1>1, <1>2, <1>3

\* Over a byte that is there a scan goes on to the next one.
LEMMA ReachNext ==
  ASSUME NEW w, SightOf(w), NEW from, Fits(w, from), NEW o \in Reach(w, from),
         o < Len(text), Resident(w, o)
  PROVE  o + 1 \in Reach(w, from)
<1>1. o \in Nat /\ from \in Nat /\ from <= o /\ Walked(w, from, o) /\ Len(text) \in Nat
  BY TextBytes DEF Reach, Fits, SightOf
<1>2. Walked(w, from, o + 1)
  <2> SUFFICES ASSUME NEW p \in Nat, from <= p, p < o + 1
               PROVE  Resident(w, p) \/ PastEnd(w, p)
    BY DEF Walked
  <2>1. p < o \/ p = o
    BY <1>1
  <2> QED
    BY <1>1, <2>1 DEF Walked
<1>3. Fits(w, o + 1)
  BY <1>1 DEF Fits
<1> QED
  BY <1>1, <1>2, <1>3 DEF Reach

\* Results: got there, with what X has; missed a chunk that may be missed; or
\* the scan is over.
Over == {Eof, Malformed, NotNavigable, More} \cup {Absent(o) : o \in Nat}

\* What a scan answers that finds one of X and misses one of missing.
Answers(X, missing) == {Ok(x) : x \in X} \cup {Miss(c) : c \in missing} \cup Over

\* An answer is one of six kinds, and carries what its kind carries.
LEMMA AnswerKinds ==
  ASSUME NEW X, NEW missing, NEW r \in Answers(X, missing)
  PROVE  /\ r = [is |-> r.is, of |-> r.of]
         /\ r.is \in {"ok", "miss", "failed", "absent", "not_navigable", "more"}
         /\ r.is = "ok" => r.of \in X /\ r = Ok(r.of)
         /\ r.is = "miss" => r.of \in missing /\ r = Miss(r.of)
         /\ r.is # "ok" /\ r.is # "miss" => r \in Over
<1>1. CASE \E x \in X : r = Ok(x)
  BY <1>1 DEF Ok
<1>2. CASE \E c \in missing : r = Miss(c)
  BY <1>2 DEF Miss
<1>3. CASE r \in Over
  BY <1>3 DEF Over, Eof, Malformed, NotNavigable, More, Absent, Failed
<1> QED
  BY <1>1, <1>2, <1>3 DEF Answers

\* What stops a scan stops those it is part of.
LEMMA AnswerOn ==
  ASSUME NEW X, NEW missing, NEW Y, NEW more, missing \subseteq more,
         NEW r \in Answers(X, missing), r.is # "ok"
  PROVE  r \in Answers(Y, more)
BY AnswerKinds DEF Answers, Ok

\* An answer stays one where more may be found and more missed.
LEMMA AnswersGrow ==
  ASSUME NEW X, NEW missing, NEW Y, NEW more, missing \subseteq more, X \subseteq Y
  PROVE  Answers(X, missing) \subseteq Answers(Y, more)
BY DEF Answers

\* A byte that is read is the text's, or it is missed, or lies behind the
\* end (walker.rs Walker::read_byte).
LEMMA ReadByteSound ==
  ASSUME NEW w, SightOf(w), NEW o, Fits(w, o)
  PROVE  /\ ReadByte(w, o) \in Answers(Bytes \cup {"none"}, Missing(w, o))
         /\ ReadByte(w, o).is = "ok" =>
              /\ ReadByte(w, o).of = ByteAt(w, o)
              /\ ReadByte(w, o).of # "none" => o + 1 \in Reach(w, o)
<1>1. o \in Nat /\ o \in Reach(w, o)
  BY ReachFacts DEF Fits
<1>2. CASE ByteAt(w, o) = "missing" /\ ~Resident(w, o) /\ ~PastEnd(w, o)
  <2>1. ChunkOf(o) \in Missing(w, o)
    BY <1>1, <1>2 DEF Missing, Lacking
  <2> QED
    BY <1>2, <2>1 DEF ReadByte, Answers, Miss
<1>3. CASE ByteAt(w, o) = "none"
  BY <1>3 DEF ReadByte, Answers, Ok
<1>4. CASE ByteAt(w, o) \in Bytes /\ o < Len(text) /\ Resident(w, o)
  <2>1. ByteAt(w, o) # "missing"
    BY <1>4 DEF Bytes
  <2>2. o + 1 \in Reach(w, o)
    BY <1>1, <1>4, ReachNext
  <2> QED
    BY <1>4, <2>1, <2>2 DEF ReadByte, Answers, Ok
<1> QED
  BY <1>1, <1>2, <1>3, <1>4, ByteSeen

\* The first byte that is not to be skipped: all in front of it are there.
LEMMA SkipSound ==
  ASSUME NEW w, SightOf(w), NEW from, Fits(w, from), NEW bytes, bytes \subseteq Bytes
  PROVE  SkipWhile(w, from, bytes) \in Answers(Reach(w, from), Missing(w, from))
<1> DEFINE stops == {o \in from .. from + Len(text) : ByteAt(w, o) \notin bytes}
           stop == Min(stops)
<1>1. from \in Nat /\ Len(text) \in Nat
  BY TextBytes DEF Fits, SightOf
<1>2. from + Len(text) \in stops
  <2>1. from + Len(text) \in Nat /\ ~(from + Len(text) < Len(text))
    BY <1>1
  <2>2. ByteAt(w, from + Len(text)) \in {"none", "missing"}
    BY <2>1, ByteSeen
  <2>3. ByteAt(w, from + Len(text)) \notin bytes
    BY <2>2 DEF Bytes
  <2>4. from + Len(text) \in from .. from + Len(text)
    BY <1>1
  <2> QED
    BY <2>3, <2>4
<1>3. stop \in stops /\ \A o \in stops : stop <= o
  <2>1. stops \in SUBSET Nat /\ stops # {}
    BY <1>1, <1>2
  <2> HIDE DEF stops
  <2> QED
    BY <2>1, MinNat
<1>4. stop \in Nat /\ from <= stop /\ ByteAt(w, stop) \notin bytes
  BY <1>1, <1>3
<1>5. ASSUME NEW o \in Nat, from <= o, o < stop
      PROVE  o < Len(text) /\ Resident(w, o)
  <2>1. o \in from .. from + Len(text) /\ ~(stop <= o)
    BY <1>1, <1>3, <1>4, <1>5
  <2>2. ByteAt(w, o) \in bytes
    BY <1>3, <2>1
  <2>3. ByteAt(w, o) \notin {"none", "missing"}
    BY <2>2 DEF Bytes
  <2> QED
    BY <2>3, ByteSeen
<1> HIDE DEF stops, stop
<1>6. stop \in Reach(w, from)
  <2>1. CASE stop = from
    BY <2>1, ReachFacts
  <2>2. CASE stop # from
    <3>1. stop - 1 \in Nat /\ from <= stop - 1 /\ stop - 1 < stop
      BY <1>1, <1>4, <2>2
    <3>2. stop - 1 < Len(text)
      BY <1>5, <3>1
    <3>3. Fits(w, stop)
      BY <1>1, <1>4, <3>1, <3>2 DEF Fits
    <3> QED
      BY <1>4, <1>5, <3>3 DEF Reach, Walked
  <2> QED
    BY <2>1, <2>2
<1>7. SkipWhile(w, from, bytes) =
        IF ByteAt(w, stop) = "missing" THEN Miss(ChunkOf(stop)) ELSE Ok(stop)
  BY DEF SkipWhile, Given, stop, stops
<1>8. ByteAt(w, stop) = "missing" => ChunkOf(stop) \in Missing(w, from)
  <2> SUFFICES ASSUME ByteAt(w, stop) = "missing" PROVE ChunkOf(stop) \in Missing(w, from)
    OBVIOUS
  <2>1. ~Resident(w, stop) /\ ~PastEnd(w, stop)
    BY <1>4, ByteSeen DEF Bytes
  <2> QED
    BY <1>6, <2>1 DEF Missing, Lacking
<1> QED
  BY <1>6, <1>7, <1>8 DEF Answers

\* The first byte between `from` and `to` that is not resident, if the window
\* has no end in front of it, can be missed.
LEMMA AbsentSound ==
  ASSUME NEW w, SightOf(w), NEW from, Fits(w, from), NEW to \in Nat,
         Absentees(w, from, DataEnd(w, to)) # {}
  PROVE  /\ Min(Absentees(w, from, DataEnd(w, to))) \in Lacking(w, from)
         /\ Min(Absentees(w, from, DataEnd(w, to))) < to
<1> DEFINE end == DataEnd(w, to)
           absent == Absentees(w, from, end)
           first == Min(absent)
<1>1. from \in Nat /\ Len(text) \in Nat /\ w.size \in {Unsized, Len(text)}
  BY TextBytes DEF Fits, SightOf, Shows
<1>2. end \in Nat /\ end <= to /\ (w.size # Unsized => end <= Len(text))
  BY <1>1 DEF DataEnd, Least
<1>3. first \in absent /\ \A o \in absent : first <= o
  <2>1. absent \in SUBSET Nat /\ absent # {}
    BY <1>1, <1>2 DEF Absentees
  <2> HIDE DEF absent
  <2> QED
    BY <2>1, MinNat
<1> HIDE DEF first, end
<1>4. first \in Nat /\ from <= first /\ first < end /\ ~Resident(w, first)
  BY <1>1, <1>2, <1>3 DEF Absentees
<1>5. ASSUME NEW o \in Nat, from <= o, o < first PROVE Resident(w, o)
  <2>1. o \in from .. end - 1 /\ ~(first <= o)
    BY <1>1, <1>2, <1>4, <1>5
  <2> QED
    BY <1>3, <2>1 DEF Absentees
<1> HIDE DEF absent
<1>6. Fits(w, first)
  <2> SUFFICES ASSUME w.size = Unsized PROVE first <= Len(text)
    BY <1>4 DEF Fits
  <2>1. CASE first = from
    BY <2>1 DEF Fits
  <2>2. CASE first # from
    <3>1. first - 1 \in Nat /\ from <= first - 1 /\ first - 1 < first
      BY <1>1, <1>4, <2>2
    <3>2. first - 1 < Len(text)
      BY <1>5, <3>1, ByteHeld
    <3> QED
      BY <1>1, <1>4, <3>2
  <2> QED
    BY <2>1, <2>2
<1>7. first \in Reach(w, from)
  BY <1>4, <1>5, <1>6 DEF Reach, Walked
<1>8. ~PastEnd(w, first)
  BY <1>1, <1>2, <1>4, EndSeen
<1> QED
  BY <1>2, <1>4, <1>7, <1>8 DEF Lacking, first, absent, end

\* A range is copied whole, or a chunk of it is missed (walker.rs
\* Walker::read_range).
LEMMA ReadRangeSound ==
  ASSUME NEW w, SightOf(w), NEW from, Fits(w, from), NEW to \in Nat
  PROVE  \/ /\ ReadRange(w, from, to).is = "miss"
            /\ ReadRange(w, from, to).of \in Missing(w, from)
         \/ ReadRange(w, from, to).is = "ok"
<1> DEFINE absent == Absentees(w, from, DataEnd(w, to))
<1>1. CASE absent # {}
  <2>1. ReadRange(w, from, to) = Miss(ChunkOf(Min(absent)))
    BY <1>1 DEF ReadRange, Given
  <2>2. ChunkOf(Min(absent)) \in Missing(w, from)
    BY <1>1, AbsentSound DEF Missing
  <2> QED
    BY <2>1, <2>2 DEF Miss
<1>2. CASE absent = {}
  <2> DEFINE there == SelectSeq([i \in 1 .. DataEnd(w, to) - from |-> from + i - 1],
                                LAMBDA o : Holds(w, o))
             Outcome(a) == IF a # {} THEN Miss(ChunkOf(Min(a))) ELSE Ok(there)
  <2>1. ReadRange(w, from, to) = CHOOSE r \in {Outcome(a) : a \in {absent}} : TRUE
    BY DEF ReadRange, Given
  <2>2. Outcome(absent) = Ok(there)
    BY <1>2
  <2> HIDE DEF Outcome
  <2>3. ReadRange(w, from, to) = Ok(there)
    BY <2>1, <2>2
  <2> HIDE DEF there
  <2> QED
    BY <2>3 DEF Ok
<1> QED
  BY <1>1, <1>2

\* A block that is there is followed by the next one; what is not blank in it is
\* text.
LEMMA BlockSound ==
  ASSUME NEW w, SightOf(w), NEW at, Fits(w, at), ~PastEnd(w, at)
  PROVE  \/ \E c \in NearMissing(w, at) : BlockAt(w, at) = Miss(c)
         \/ /\ BlockAt(w, at).is = "ok"
            /\ at + BlockBytes \in Reach(w, at)
<1> DEFINE end == DataEnd(w, at + BlockBytes)
           absent == Absentees(w, at, end)
<1>1. /\ at \in Nat /\ Len(text) \in Nat /\ w.size \in {Unsized, Len(text)}
      /\ BlockBytes \in Nat /\ BlockBytes >= 1
  BY TextBytes, BlockBytesNat DEF Fits, SightOf, Shows
<1>2. CASE absent # {} /\ (Resident(w, at) => Holds(w, at))
  <2>1. BlockAt(w, at) = Miss(ChunkOf(Min(absent)))
    BY <1>2 DEF BlockAt, Given
  <2>2. Min(absent) \in Lacking(w, at) /\ Min(absent) < at + BlockBytes
    BY <1>1, <1>2, AbsentSound
  <2>3. ChunkOf(Min(absent)) \in NearMissing(w, at)
    BY <2>2 DEF NearMissing
  <2> QED
    BY <2>1, <2>3
<1>3. CASE ~(absent # {} /\ (Resident(w, at) => Holds(w, at)))
  <2>1. absent = {}
    <3> SUFFICES ASSUME Resident(w, at), ~Holds(w, at) PROVE FALSE
      BY <1>3
    <3> QED
      BY <1>1, ByteHeld, EndSeen
  <2>2. BlockAt(w, at).is = "ok"
    <3> DEFINE Block(e) == [b \in Bits |-> IF at + b < e /\ Holds(w, at) /\ Holds(w, at + b)
                                           THEN text[at + b + 1] ELSE "space"]
               Inner(e, a) == IF a # {} /\ (Resident(w, at) => Holds(w, at))
                              THEN Miss(ChunkOf(Min(a))) ELSE Ok(Block(e))
               Outer(e) == CHOOSE r \in {Inner(e, a) : a \in {Absentees(w, at, e)}} : TRUE
    <3>1. BlockAt(w, at) = CHOOSE r \in {Outer(e) : e \in {end}} : TRUE
      BY DEF BlockAt, Given
    <3>2. Inner(end, absent) = Ok(Block(end))
      BY <1>3
    <3> HIDE DEF Inner, Block
    <3>3. Outer(end) = Ok(Block(end))
      BY <3>2
    <3> HIDE DEF Outer
    <3>4. BlockAt(w, at) = Ok(Block(end))
      BY <3>1, <3>3
    <3> QED
      BY <3>4 DEF Ok
  <2>3. ASSUME NEW o \in Nat, at <= o, o < end PROVE Resident(w, o)
    <3>1. o \in at .. end - 1
      BY <1>1, <2>3 DEF DataEnd, Least
    <3> QED
      BY <2>1, <3>1 DEF Absentees
  <2>4. Walked(w, at, at + BlockBytes)
    <3> SUFFICES ASSUME NEW o \in Nat, at <= o, o < at + BlockBytes
                 PROVE  Resident(w, o) \/ PastEnd(w, o)
      BY DEF Walked
    <3> QED
      BY <1>1, <2>3, EndSeen DEF DataEnd, Least
  <2>5. Fits(w, at + BlockBytes)
    <3> SUFFICES ASSUME w.size = Unsized PROVE at + BlockBytes <= Len(text)
      BY <1>1 DEF Fits
    <3> DEFINE last == at + BlockBytes - 1
    <3>1. last \in Nat /\ at <= last /\ last < end
      BY <1>1 DEF DataEnd
    <3>2. last < Len(text)
      BY <2>3, <3>1, ByteHeld
    <3> QED
      BY <1>1, <3>2
  <2> QED
    BY <1>1, <2>2, <2>4, <2>5 DEF Reach
<1> QED
  BY <1>2, <1>3

(***************************************************************************)
(* Resumable scans: where a scan stands is in reach of where it started,   *)
(* and what it misses may be missed from where it stands.                  *)
(***************************************************************************)
\* Samples of an array, as the index keeps them.
Samples == [index : Nat, offset : Nat]

\* Where a walk may stand that started at from.
Scans(w, from) ==
  [at : Reach(w, from), carry : Carries, depth : Int, index : Nat, samples : SUBSET Samples]

\* What a walk comes to: its answer misses only what is missed from where it
\* stands.
Steps(w, from, X) ==
  {step \in [result : Answers(X, Missing(w, from)), scan : Scans(w, from)] :
     step.result \in Answers(X, Missing(w, step.scan.at))}

\* Steps that miss at most a chunk of the block they stand at.
BlockSteps(w, from, X) ==
  {step \in [result : Answers(X, Missing(w, from)), scan : Scans(w, from)] :
     step.result \in Answers(X, NearMissing(w, step.scan.at))}

\* Where a walk stands and what it answers there make a step.
LEMMA StepsAre ==
  ASSUME NEW w, NEW from, Fits(w, from), NEW X, NEW scan \in Scans(w, from)
  PROVE  /\ \A r \in Answers(X, Missing(w, scan.at)) : Stands(r, scan) \in Steps(w, from, X)
         /\ \A r \in Answers(X, NearMissing(w, scan.at)) : Stands(r, scan) \in BlockSteps(w, from, X)
<1>1. scan.at \in Reach(w, from)
  BY DEF Scans
<1>2. Missing(w, scan.at) \subseteq Missing(w, from)
  BY <1>1, ReachFacts
<1>3. NearMissing(w, scan.at) \subseteq Missing(w, scan.at)
  BY DEF NearMissing, Missing
<1>4. Answers(X, Missing(w, scan.at)) \subseteq Answers(X, Missing(w, from))
  BY <1>2, AnswersGrow
<1>5. Answers(X, NearMissing(w, scan.at)) \subseteq Answers(X, Missing(w, from))
  BY <1>2, <1>3, AnswersGrow
<1> QED
  BY <1>4, <1>5 DEF Steps, BlockSteps, Stands

\* A walk over blocks is a walk.
LEMMA BlockStepsAreSteps ==
  ASSUME NEW w, NEW from, NEW X
  PROVE  BlockSteps(w, from, X) \subseteq Steps(w, from, X)
<1> SUFFICES ASSUME NEW step \in BlockSteps(w, from, X) PROVE step \in Steps(w, from, X)
  OBVIOUS
<1>1. NearMissing(w, step.scan.at) \subseteq Missing(w, step.scan.at)
  BY DEF NearMissing, Missing
<1>2. Answers(X, NearMissing(w, step.scan.at)) \subseteq Answers(X, Missing(w, step.scan.at))
  BY <1>1, AnswersGrow
<1> QED
  BY <1>2 DEF Steps, BlockSteps

\* A scan that starts out.
LEMMA ScanFromSound ==
  ASSUME NEW w, NEW from, NEW o \in Reach(w, from)
  PROVE  ScanFrom(o) \in Scans(w, from) /\ StringFrom(o) \in Scans(w, from)
         /\ [ScanFrom(o) EXCEPT !.depth = 1] \in Scans(w, from)
BY DEF ScanFrom, StringFrom, Scans, Carries, OutsideString, InsideString

\* A carry is one that a block can start with (simd.rs scan_block).
LEMMA CarryTyped ==
  ASSUME NEW block, NEW carry
  PROVE  ScanBlock(block, carry).carry \in Carries
<1> DEFINE found == FindEscaped(Where(block, {"backslash"}), carry.prevEscaped)
           quotes == Where(block, {"quote"}) \ found.escaped
           inString == Xor(ParityPrefix(quotes), carry.insideString)
           Third(f, i) == [inString |-> i,
                           carry |-> [prevEscaped  |-> f.overflow,
                                      insideString |-> IF BlockBytes - 1 \in i THEN Bits ELSE {}]]
           Second(f, q) == CHOOSE r \in {Third(f, i) : i \in {Xor(ParityPrefix(q), carry.insideString)}} : TRUE
           First(f) == CHOOSE r \in {Second(f, q) : q \in {Where(block, {"quote"}) \ f.escaped}} : TRUE
<1>1. ScanBlock(block, carry) = CHOOSE r \in {First(f) : f \in {found}} : TRUE
  BY DEF ScanBlock, Given
<1>2. found.overflow \in {{}, {0}}
  BY DEF FindEscaped
<1>3. Third(found, inString).carry \in Carries
  <2> HIDE DEF found, inString
  <2> QED
    BY <1>2 DEF Carries
<1>4. ScanBlock(block, carry) = First(found)
  <2> HIDE DEF First
  <2> QED
    BY <1>1
<1>5. First(found) = Second(found, quotes)
  <2>1. First(found) = CHOOSE r \in {Second(found, q) : q \in {quotes}} : TRUE
    BY DEF quotes
  <2> HIDE DEF Second, First
  <2> QED
    BY <2>1
<1>6. Second(found, quotes) = Third(found, inString)
  <2>1. Second(found, quotes) = CHOOSE r \in {Third(found, i) : i \in {inString}} : TRUE
    BY DEF inString
  <2> HIDE DEF Second, Third
  <2> QED
    BY <2>1
<1> QED
  BY <1>3, <1>4, <1>5, <1>6

\* A scan goes on to the next block, if the one it stands at is there.
LEMMA NextBlockSound ==
  ASSUME NEW w, SightOf(w), NEW from, Fits(w, from), NEW scan \in Scans(w, from),
         NEW carry \in Carries, scan.at + BlockBytes \in Reach(w, scan.at)
  PROVE  /\ scan.at \in Nat
         /\ scan.at + BlockBytes \in Reach(w, from)
         /\ \A b \in Bits : scan.at + b \in Reach(w, from) /\ scan.at + b + 1 \in Reach(w, from)
         /\ NextBlock(scan, carry) \in Scans(w, from)
         /\ NextBlock(scan, carry).at = scan.at + BlockBytes
<1>1. scan.at \in Reach(w, from)
  BY DEF Scans
<1>2. scan.at \in Nat /\ from \in Nat /\ from <= scan.at
  BY <1>1 DEF Reach, Fits
<1>3. scan.at + BlockBytes \in Reach(w, from)
  BY <1>1, ReachFacts
<1>4. ASSUME NEW b \in Bits
      PROVE scan.at + b \in Reach(w, from) /\ scan.at + b + 1 \in Reach(w, from)
  <2>1. /\ scan.at + b \in Nat /\ scan.at + b + 1 \in Nat
        /\ from <= scan.at + b /\ scan.at + b + 1 <= scan.at + BlockBytes
        /\ from <= scan.at + b + 1 /\ scan.at + b <= scan.at + BlockBytes
    BY <1>2, BlockBytesNat
  <2> QED
    BY <1>3, <2>1, ReachFacts
<1>5. NextBlock(scan, carry).at = scan.at + BlockBytes
  BY DEF NextBlock, Scans
<1>6. NextBlock(scan, carry) \in Scans(w, from)
  BY <1>3 DEF NextBlock, Scans
<1> QED
  BY <1>2, <1>3, <1>4, <1>5, <1>6

\* What OnBlock does in front of the block's work.
LEMMA OnBlockFails ==
  ASSUME NEW w, SightOf(w), NEW from, Fits(w, from), NEW scan \in Scans(w, from), NEW X
  PROVE  /\ Fits(w, scan.at)
         /\ Stands(Eof, scan) \in BlockSteps(w, from, X)
         /\ ~PastEnd(w, scan.at) =>
              \/ BlockAt(w, scan.at).is # "ok" /\ Stands(BlockAt(w, scan.at), scan) \in BlockSteps(w, from, X)
              \/ BlockAt(w, scan.at).is = "ok" /\ scan.at + BlockBytes \in Reach(w, scan.at)
<1>1. scan.at \in Reach(w, from)
  BY DEF Scans
<1>2. Fits(w, scan.at)
  BY <1>1, ReachFacts
<1>3. Eof \in Answers(X, NearMissing(w, scan.at))
  BY DEF Answers, Over
<1>4. \A c \in NearMissing(w, scan.at) : Miss(c) \in Answers(X, NearMissing(w, scan.at)) /\ Miss(c).is # "ok"
  BY DEF Answers, Miss
<1> QED
  BY <1>2, <1>3, <1>4, StepsAre, BlockSound

\* A closing quote has a byte behind which the scan may go on.
Quotes(w, from) == {o \in Reach(w, from) : o + 1 \in Reach(w, from)}

\* One block of a string (walker.rs scan_string_close).
LEMMA StringBlockSound ==
  ASSUME NEW w, SightOf(w), NEW from, Fits(w, from), NEW scan \in Scans(w, from)
  PROVE  StringBlock(w, scan) \in BlockSteps(w, from, Quotes(w, from))
<1> DEFINE T == BlockSteps(w, from, Quotes(w, from))
           outsides(s) == {b \in Bits \ s.inString : ~PastEnd(w, scan.at + b)}
           Inner(s, o) == IF o # {} THEN Stands(Ok(scan.at + Min(o)), scan)
                          ELSE Stands(More, NextBlock(scan, s.carry))
           Outer(s) == CHOOSE r \in {Inner(s, o) : o \in {outsides(s)}} : TRUE
           scanned(b) == ScanBlock(b, scan.carry)
           Scanned(b) == CHOOSE r \in {Outer(s) : s \in {scanned(b)}} : TRUE
           Seeing(b) == IF b.is # "ok" THEN Stands(b, scan) ELSE Scanned(b.of)
           block == BlockAt(w, scan.at)
<1>1. StringBlock(w, scan) = IF PastEnd(w, scan.at) THEN Stands(Eof, scan)
                             ELSE CHOOSE r \in {Seeing(b) : b \in {block}} : TRUE
  BY DEF StringBlock, OnBlock, Given
<1>2. CASE PastEnd(w, scan.at)
  BY <1>1, <1>2, OnBlockFails
<1>3. CASE ~PastEnd(w, scan.at)
  <2>1. StringBlock(w, scan) = Seeing(block)
    <3> HIDE DEF Seeing
    <3> QED
      BY <1>1, <1>3
  <2>2. CASE block.is # "ok"
    <3>1. Seeing(block) = Stands(block, scan)
      BY <2>2
    <3> QED
      BY <1>3, <2>1, <2>2, <3>1, OnBlockFails
  <2>3. CASE block.is = "ok"
    <3> DEFINE s == scanned(block.of)
               outside == outsides(s)
    <3>1. Seeing(block) = Inner(s, outside)
      <4>1. Seeing(block) = Scanned(block.of)
        BY <2>3
      <4>2. Scanned(block.of) = Outer(s)
        <5> HIDE DEF Outer
        <5> QED
          OBVIOUS
      <4>3. Outer(s) = Inner(s, outside)
        <5> HIDE DEF Inner, s
        <5> QED
          OBVIOUS
      <4> QED
        BY <4>1, <4>2, <4>3
    <3> HIDE DEF Seeing
    <3>2. s.carry \in Carries
      BY CarryTyped
    <3>3. scan.at + BlockBytes \in Reach(w, scan.at)
      BY <1>3, <2>3, OnBlockFails
    <3>4. /\ \A b \in Bits : scan.at + b \in Quotes(w, from)
          /\ NextBlock(scan, s.carry) \in Scans(w, from)
      <4> HIDE DEF s
      <4> QED
        BY <3>2, <3>3, NextBlockSound DEF Quotes
    <3>5. CASE outside # {}
      <4>1. Min(outside) \in outside
        <5>1. outside \in SUBSET Nat
          BY BlockBytesNat
        <5> HIDE DEF outside
        <5> QED
          BY <3>5, <5>1, MinNat
      <4>2. Ok(scan.at + Min(outside)) \in Answers(Quotes(w, from), NearMissing(w, scan.at))
        BY <3>4, <4>1 DEF Answers
      <4>3. Inner(s, outside) = Stands(Ok(scan.at + Min(outside)), scan)
        BY <3>5
      <4> HIDE DEF Inner
      <4>4. Stands(Ok(scan.at + Min(outside)), scan) \in T
        BY <4>2, StepsAre
      <4> QED
        BY <2>1, <3>1, <4>3, <4>4
    <3>6. CASE outside = {}
      <4> DEFINE next == NextBlock(scan, s.carry)
      <4>1. More \in Answers(Quotes(w, from), NearMissing(w, next.at))
        BY DEF Answers, Over
      <4>2. Inner(s, outside) = Stands(More, next)
        BY <3>6
      <4> HIDE DEF Inner, next
      <4>3. next \in Scans(w, from)
        BY <3>4 DEF next
      <4>4. Stands(More, next) \in T
        BY <4>1, <4>3, StepsAre
      <4> QED
        BY <2>1, <3>1, <4>2, <4>4
    <3> QED
      BY <3>5, <3>6
  <2> QED
    BY <2>2, <2>3
<1> QED
  BY <1>2, <1>3

\* The walk to the end of a string.
LEMMA StringSound ==
  ASSUME NEW w, SightOf(w), NEW from, Fits(w, from), NEW scan \in Scans(w, from)
  PROVE  StringStep(w, scan) \in BlockSteps(w, from, Quotes(w, from))
<1> DEFINE S == BlockSteps(w, from, Quotes(w, from))
           most == TurnsOfScan
           first == Stands(More, scan)
           Turn(step) == IF step.result.is = "more" THEN StringBlock(w, step.scan) ELSE step
           On(step) == CHOOSE r \in {Turn(t) : t \in {step}} : TRUE
           Runs(f) == f = [n \in 0 .. most |-> IF n = 0 THEN first ELSE On(f[n - 1])]
           turn == CHOOSE f : Runs(f)
<1>1. most \in Nat
  BY TextBytes DEF TurnsOfScan, SightOf
<1>2. first \in S
  <2>1. More \in Answers(Quotes(w, from), NearMissing(w, scan.at))
    BY DEF Answers, Over
  <2> QED
    BY <2>1, StepsAre
<1>3. ASSUME NEW step \in S PROVE On(step) \in S
  <2>1. On(step) = Turn(step)
    <3> HIDE DEF Turn
    <3> QED
      OBVIOUS
  <2>2. step.scan \in Scans(w, from)
    BY DEF BlockSteps
  <2> QED
    BY <2>1, <2>2, StringBlockSound
<1> DEFINE g == [step \in S |-> On(step)]
<1> HIDE DEF S, On, first, most
<1>4. \E f : Runs(f)
  <2>1. g \in [S -> S] /\ \A step \in S : g[step] = On(step)
    BY <1>3
  <2> HIDE DEF g
  <2>2. HasTurns(S, most, first, g)
    BY <1>1, <1>2, <2>1, LoopRuns
  <2>3. PICK f \in [0 .. most -> S] :
          f[0] = first /\ \A n \in 1 .. most : f[n] = g[f[n - 1]]
    BY <2>2 DEF HasTurns
  <2>4. \A n \in 0 .. most : n # 0 => f[n - 1] \in S
    <3>1. \A n \in 0 .. most : n # 0 => n - 1 \in 0 .. most
      BY <1>1
    <3> QED
      BY <3>1
  <2>5. Runs(f)
    BY <2>1, <2>3, <2>4
  <2> QED
    BY <2>5
<1>5. Runs(turn)
  BY <1>4
<1>6. turn[most] \in S
  <2> HIDE DEF turn
  <2>1. turn[0] \in S /\ \A n \in 1 .. most : turn[n] = On(turn[n - 1])
    BY <1>1, <1>2, <1>5
  <2> QED
    BY <1>1, <1>3, <2>1, LoopEnds
<1>7. StringStep(w, scan) = turn[most]
  BY DEF StringStep, Loop, Given, On, first, most
<1> QED
  BY <1>6, <1>7 DEF S

\* A structural word is bits of the block, and so are counted.
LEMMA WordBits ==
  ASSUME NEW block, NEW inString, NEW bytes
  PROVE  StructuralWord(block, inString, bytes) \subseteq Bits
BY DEF StructuralWord, Where

\* The bits of a word up to a place can be counted.
LEMMA Counted ==
  ASSUME NEW word, word \subseteq Bits, NEW b
  PROVE  UpTo(word, b) \in Nat /\ IsFiniteSet(word) /\ Cardinality(word) \in Nat
<1>1. IsFiniteSet(Bits)
  BY BlockBytesNat, FS_Interval
<1>2. IsFiniteSet(word) /\ IsFiniteSet({d \in word : d <= b})
  BY <1>1, FS_Subset
<1> QED
  BY <1>2, FS_CardinalityType DEF UpTo

\* A depth that was a number stays one, bit by bit (walker.rs
\* skip_container).
LEMMA DepthsTyped ==
  ASSUME NEW words, words.opens \subseteq Bits, words.closes \subseteq Bits, NEW depth \in Int
  PROVE  \A b \in Bits : Depths(words, depth)[b] \in Int
<1> SUFFICES ASSUME NEW b \in Bits PROVE Depths(words, depth)[b] \in Int
  OBVIOUS
<1>1. Depths(words, depth)[b] = depth + UpTo(words.opens, b) - UpTo(words.closes, b)
  BY DEF Depths
<1>2. UpTo(words.opens, b) \in Nat /\ UpTo(words.closes, b) \in Nat
  BY Counted
<1> QED
  BY <1>1, <1>2

\* Brackets and commas outside strings are bits of the block (simd.rs
\* structural).
LEMMA StructureBits ==
  ASSUME NEW block, NEW scanned, NEW opens, NEW closes
  PROVE  LET words == Structure(block, scanned, opens, closes)
         IN  words.opens \subseteq Bits /\ words.closes \subseteq Bits /\ words.commas \subseteq Bits
BY WordBits DEF Structure

\* A block has a last bit.
LEMMA LastBit == BlockBytes - 1 \in Bits
BY BlockBytesNat

\* One block of a container (walker.rs skip_container).
LEMMA ContainerBlockSound ==
  ASSUME NEW w, SightOf(w), NEW from, Fits(w, from), NEW scan \in Scans(w, from), NEW open
  PROVE  ContainerBlock(w, open, scan) \in BlockSteps(w, from, Reach(w, from))
<1> DEFINE T == BlockSteps(w, from, Reach(w, from))
           endsOf(d, o) == IF Cardinality(o.closes) < scan.depth THEN {}
                           ELSE {b \in o.closes : d[b] = 0}
           Inner(s, d, e) == IF e # {} THEN Stands(Ok(scan.at + Min(e) + 1), scan)
                             ELSE Stands(More, [NextBlock(scan, s.carry)
                                                  EXCEPT !.depth = d[BlockBytes - 1]])
           Middle(s, o, d) == CHOOSE r \in {Inner(s, d, e) : e \in {endsOf(d, o)}} : TRUE
           Outer(s, o) == CHOOSE r \in {Middle(s, o, d) : d \in {Depths(o, scan.depth)}} : TRUE
           wordsOf(b, s) == Structure(b, s, {open}, {CloseOf[open]})
           Block(b, s) == CHOOSE r \in {Outer(s, o) : o \in {wordsOf(b, s)}} : TRUE
           scannedOf(b) == ScanBlock(b, scan.carry)
           Scanned(b) == CHOOSE r \in {Block(b, s) : s \in {scannedOf(b)}} : TRUE
           Turn(b) == IF b.is # "ok" THEN Stands(b, scan) ELSE Scanned(b.of)
           block == BlockAt(w, scan.at)
<1>1. ContainerBlock(w, open, scan) = IF PastEnd(w, scan.at) THEN Stands(Eof, scan)
                                      ELSE CHOOSE r \in {Turn(b) : b \in {block}} : TRUE
  BY DEF ContainerBlock, OnBlock, Given
<1>2. CASE PastEnd(w, scan.at)
  BY <1>1, <1>2, OnBlockFails
<1>3. CASE ~PastEnd(w, scan.at)
  <2>1. ContainerBlock(w, open, scan) = Turn(block)
    <3> HIDE DEF Turn
    <3> QED
      BY <1>1, <1>3
  <2>2. CASE block.is # "ok"
    <3>1. Turn(block) = Stands(block, scan)
      BY <2>2
    <3> QED
      BY <1>3, <2>1, <2>2, <3>1, OnBlockFails
  <2>3. CASE block.is = "ok"
    <3> DEFINE s == scannedOf(block.of)
               words == wordsOf(block.of, s)
               depths == Depths(words, scan.depth)
               ends == endsOf(depths, words)
    <3>1. Turn(block) = Inner(s, depths, ends)
      <4>1. Turn(block) = Scanned(block.of)
        BY <2>3
      <4>2. Scanned(block.of) = Block(block.of, s)
        <5> HIDE DEF Block
        <5> QED
          OBVIOUS
      <4>3. Block(block.of, s) = Outer(s, words)
        <5> HIDE DEF Outer, s
        <5> QED
          OBVIOUS
      <4>4. Outer(s, words) = Middle(s, words, depths)
        <5> HIDE DEF Middle, s, words
        <5> QED
          OBVIOUS
      <4>5. Middle(s, words, depths) = Inner(s, depths, ends)
        <5> HIDE DEF Inner, s, words, depths
        <5> QED
          OBVIOUS
      <4> HIDE DEF Turn, Scanned, Block, Outer, Middle, Inner, s, words, depths, ends
      <4> QED
        BY <4>1, <4>2, <4>3, <4>4, <4>5
    <3> HIDE DEF Turn
    <3>2. s.carry \in Carries
      BY CarryTyped
    <3>3. scan.at + BlockBytes \in Reach(w, scan.at)
      BY <1>3, <2>3, OnBlockFails
    <3>4. words.opens \subseteq Bits /\ words.closes \subseteq Bits
      <4> HIDE DEF s
      <4> QED
        BY StructureBits
    <3>5. depths[BlockBytes - 1] \in Int
      <4>1. scan.depth \in Int
        BY DEF Scans
      <4> HIDE DEF words
      <4> QED
        BY <3>4, <4>1, DepthsTyped, LastBit
    <3>6. ends \subseteq Bits
      <4> HIDE DEF words, depths
      <4> QED
        BY <3>4
    <3> HIDE DEF s, words, depths, ends
    <3>7. /\ \A b \in Bits : scan.at + b + 1 \in Reach(w, from)
          /\ NextBlock(scan, s.carry) \in Scans(w, from)
      BY <3>2, <3>3, NextBlockSound
    <3>8. CASE ends # {}
      <4>1. Min(ends) \in ends
        BY <3>6, <3>8, BlockBytesNat, MinNat
      <4>2. Ok(scan.at + Min(ends) + 1) \in Answers(Reach(w, from), NearMissing(w, scan.at))
        BY <3>6, <3>7, <4>1 DEF Answers
      <4>3. Inner(s, depths, ends) = Stands(Ok(scan.at + Min(ends) + 1), scan)
        BY <3>8
      <4> HIDE DEF Inner
      <4>4. Stands(Ok(scan.at + Min(ends) + 1), scan) \in T
        BY <4>2, StepsAre
      <4> QED
        BY <2>1, <3>1, <4>3, <4>4
    <3>9. CASE ends = {}
      <4> DEFINE next == [NextBlock(scan, s.carry) EXCEPT !.depth = depths[BlockBytes - 1]]
      <4>1. Inner(s, depths, ends) = Stands(More, next)
        BY <3>9
      <4>2. next \in Scans(w, from)
        BY <3>5, <3>7 DEF Scans
      <4> HIDE DEF Inner, next
      <4>3. More \in Answers(Reach(w, from), NearMissing(w, next.at))
        BY DEF Answers, Over
      <4>4. Stands(More, next) \in T
        BY <4>2, <4>3, StepsAre
      <4> QED
        BY <2>1, <3>1, <4>1, <4>4
    <3> QED
      BY <3>8, <3>9
  <2> QED
    BY <2>2, <2>3
<1> QED
  BY <1>2, <1>3

\* The walk to the end of a container (walker.rs skip_container).
LEMMA ContainerSound ==
  ASSUME NEW w, SightOf(w), NEW from, Fits(w, from), NEW scan \in Scans(w, from), NEW open
  PROVE  ContainerStep(w, open, scan) \in BlockSteps(w, from, Reach(w, from))
<1> DEFINE S == BlockSteps(w, from, Reach(w, from))
           most == TurnsOfScan
           first == Stands(More, scan)
           Turn(step) == IF step.result.is = "more" THEN ContainerBlock(w, open, step.scan) ELSE step
           On(step) == CHOOSE r \in {Turn(t) : t \in {step}} : TRUE
           Runs(f) == f = [n \in 0 .. most |-> IF n = 0 THEN first ELSE On(f[n - 1])]
           turn == CHOOSE f : Runs(f)
<1>1. most \in Nat
  BY TextBytes DEF TurnsOfScan, SightOf
<1>2. first \in S
  <2>1. More \in Answers(Reach(w, from), NearMissing(w, scan.at))
    BY DEF Answers, Over
  <2> QED
    BY <2>1, StepsAre
<1>3. ASSUME NEW step \in S PROVE On(step) \in S
  <2>1. On(step) = Turn(step)
    <3> HIDE DEF Turn
    <3> QED
      OBVIOUS
  <2>2. step.scan \in Scans(w, from)
    BY DEF BlockSteps
  <2> QED
    BY <2>1, <2>2, ContainerBlockSound
<1> DEFINE g == [step \in S |-> On(step)]
<1> HIDE DEF S, On, first, most
<1>4. \E f : Runs(f)
  <2>1. g \in [S -> S] /\ \A step \in S : g[step] = On(step)
    BY <1>3
  <2> HIDE DEF g
  <2>2. HasTurns(S, most, first, g)
    BY <1>1, <1>2, <2>1, LoopRuns
  <2>3. PICK f \in [0 .. most -> S] :
          f[0] = first /\ \A n \in 1 .. most : f[n] = g[f[n - 1]]
    BY <2>2 DEF HasTurns
  <2>4. \A n \in 0 .. most : n # 0 => f[n - 1] \in S
    <3>1. \A n \in 0 .. most : n # 0 => n - 1 \in 0 .. most
      BY <1>1
    <3> QED
      BY <3>1
  <2>5. Runs(f)
    BY <2>1, <2>3, <2>4
  <2> QED
    BY <2>5
<1>5. Runs(turn)
  BY <1>4
<1>6. turn[most] \in S
  <2> HIDE DEF turn
  <2>1. turn[0] \in S /\ \A n \in 1 .. most : turn[n] = On(turn[n - 1])
    BY <1>1, <1>2, <1>5
  <2> QED
    BY <1>1, <1>3, <2>1, LoopEnds
<1>7. ContainerStep(w, open, scan) = turn[most]
  BY DEF ContainerStep, Loop, Given, On, first, most
<1> QED
  BY <1>6, <1>7 DEF S

\* A scan that has counted and sampled a block is a scan still.
LEMMA ScanCounts ==
  ASSUME NEW w, NEW from, NEW scan \in Scans(w, from), NEW samples \in SUBSET Samples,
         NEW depth \in Int, NEW more \in Nat
  PROVE  [scan EXCEPT !.samples = samples, !.depth = depth, !.index = @ + more] \in Scans(w, from)
<1> DEFINE sampled == [scan EXCEPT !.samples = samples]
           nested == [sampled EXCEPT !.depth = depth]
<1>1. scan.index + more \in Nat
  BY DEF Scans
<1>2. sampled \in Scans(w, from) /\ sampled.index = scan.index
  BY DEF Scans
<1>3. nested \in Scans(w, from) /\ nested.index = scan.index
  <2> HIDE DEF sampled
  <2> QED
    BY <1>2 DEF Scans
<1>4. [nested EXCEPT !.index = scan.index + more] \in Scans(w, from)
  <2> HIDE DEF nested
  <2> QED
    BY <1>1, <1>3 DEF Scans
<1> QED
  BY <1>4 DEF Scans

\* So is one that starts at an element it has sampled.
LEMMA ScanAtHit ==
  ASSUME NEW w, NEW from, NEW o \in Reach(w, from), NEW samples \in SUBSET Samples,
         NEW target \in Nat
  PROVE  [ScanFrom(o) EXCEPT !.index = target, !.samples = samples] \in Scans(w, from)
<1> DEFINE counted == [ScanFrom(o) EXCEPT !.index = target]
<1>1. ScanFrom(o) \in Scans(w, from)
  BY ScanFromSound
<1>2. counted \in Scans(w, from)
  <2> HIDE DEF ScanFrom
  <2> QED
    BY <1>1 DEF Scans
<1>3. [counted EXCEPT !.samples = samples] \in Scans(w, from)
  <2> HIDE DEF counted
  <2> QED
    BY <1>2 DEF Scans
<1> HIDE DEF ScanFrom
<1> QED
  BY <1>1, <1>3 DEF Scans

\* A sample has an index and an offset (walker.rs sample).
LEMMA BehindTyped ==
  ASSUME NEW w, NEW from, Fits(w, from), NEW scan \in Scans(w, from),
         NEW commas, commas \subseteq Bits, NEW b \in commas
  PROVE  ElementBehind(scan, commas, b) \in Samples
<1>1. scan.at \in Nat /\ scan.index \in Nat
  BY DEF Scans, Reach
<1>2. UpTo(commas, b) \in Nat /\ b \in Nat
  <2>1. b \in Bits
    OBVIOUS
  <2>2. b \in Nat
    BY <2>1, BlockBytesNat
  <2>3. UpTo(commas, b) \in Nat
    BY Counted
  <2> QED
    BY <2>2, <2>3
<1> QED
  BY <1>1, <1>2 DEF ElementBehind, Samples

\* A scan that hit its target stands at it.
Hits(w, from) ==
  {step \in BlockSteps(w, from, Reach(w, from)) :
     step.result.is = "ok" => step.result.of = step.scan.at}

\* A walk for a comma that found none may go on (walker.rs skip_to_comma).
LEMMA NoHit ==
  ASSUME NEW w, NEW from, NEW scan, NEW r, r.is # "ok",
         Stands(r, scan) \in BlockSteps(w, from, Reach(w, from))
  PROVE  Stands(r, scan) \in Hits(w, from)
BY DEF Hits, Stands

\* One block of elements, once its bits are known: the target's start, the
\* container's end, or the next block (walker.rs advance_top_level_commas).
LEMMA CommaBlockSound ==
  ASSUME NEW w, SightOf(w), NEW from, Fits(w, from), NEW scan \in Scans(w, from),
         scan.at + BlockBytes \in Reach(w, scan.at),
         NEW words, words.opens \subseteq Bits, words.closes \subseteq Bits,
         words.commas \subseteq Bits,
         NEW carry \in Carries, NEW target \in Nat, NEW stride
  PROVE  CommaBlock(scan, words, carry, target, stride) \in Hits(w, from)
<1> DEFINE T == BlockSteps(w, from, Reach(w, from))
           hitOf(h) == CHOOSE e \in h : e.index = target
           AtHit(h, p) == Stands(Ok(hitOf(h).offset),
                                 [ScanFrom(hitOf(h).offset) EXCEPT !.index = target, !.samples = p])
           After(n, h, p) == [NextBlock(scan, carry) EXCEPT !.samples = p,
                                                            !.depth   = n.depth,
                                                            !.index   = @ + Cardinality(h)]
           Inner(n, h, p) == IF \E e \in h : e.index = target THEN AtHit(h, p)
                             ELSE Stands(IF n.closed THEN Absent(scan.at) ELSE More, After(n, h, p))
           samplesOf(n) == scan.samples \cup Sampled(scan, words, n.commas, target, stride)
           Middle(n, h) == CHOOSE r \in {Inner(n, h, p) : p \in {samplesOf(n)}} : TRUE
           behindOf(n) == {ElementBehind(scan, n.commas, b) : b \in n.commas}
           Outer(n) == CHOOSE r \in {Middle(n, h) : h \in {behindOf(n)}} : TRUE
           bounds == Boundaries(words, scan.depth)
           behind == behindOf(bounds)
           samples == samplesOf(bounds)
<1>1. CommaBlock(scan, words, carry, target, stride) = Inner(bounds, behind, samples)
  <2>1. CommaBlock(scan, words, carry, target, stride)
          = CHOOSE r \in {Outer(n) : n \in {bounds}} : TRUE
    BY DEF CommaBlock, Given
  <2>2. CommaBlock(scan, words, carry, target, stride) = Outer(bounds)
    <3> HIDE DEF Outer, bounds
    <3> QED
      BY <2>1
  <2>3. Outer(bounds) = Middle(bounds, behind)
    <3> HIDE DEF Middle, bounds
    <3> QED
      OBVIOUS
  <2>4. Middle(bounds, behind) = Inner(bounds, behind, samples)
    <3> HIDE DEF Inner, bounds, behind
    <3> QED
      OBVIOUS
  <2> HIDE DEF Outer, Middle, Inner, bounds, behind, samples
  <2> QED
    BY <2>2, <2>3, <2>4
<1>2. bounds.commas \subseteq Bits /\ bounds.depth \in Int
  <2> DEFINE Bounds(d, e) == [commas |-> {b \in words.commas : d[b] = 0 /\ \A x \in e : b < x},
                             closed |-> e # {},
                             depth  |-> d[BlockBytes - 1]]
             endsOf(d) == {b \in words.closes : d[b] < 0}
             Within(d) == CHOOSE r \in {Bounds(d, e) : e \in {endsOf(d)}} : TRUE
             depths == Depths(words, scan.depth)
             ends == endsOf(depths)
  <2>1. bounds = CHOOSE r \in {Within(d) : d \in {depths}} : TRUE
    BY DEF Boundaries, Given
  <2>2. bounds = Within(depths)
    <3> HIDE DEF Within, depths, bounds
    <3> QED
      BY <2>1
  <2>3. Within(depths) = Bounds(depths, ends)
    <3> HIDE DEF Bounds, depths
    <3> QED
      OBVIOUS
  <2>4. depths[BlockBytes - 1] \in Int
    <3>1. scan.depth \in Int
      BY DEF Scans
    <3> QED
      BY <3>1, DepthsTyped, LastBit
  <2> HIDE DEF bounds, depths, ends, Within
  <2> QED
    BY <2>2, <2>3, <2>4
<1>3. behind \subseteq Samples /\ samples \subseteq Samples
  <2> HIDE DEF bounds
  <2>1. \A b \in bounds.commas : ElementBehind(scan, bounds.commas, b) \in Samples
    BY <1>2, BehindTyped
  <2>2. scan.samples \subseteq Samples
    BY DEF Scans
  <2> QED
    BY <2>1, <2>2 DEF Sampled
<1>4. /\ \A b \in Bits : scan.at + b + 1 \in Reach(w, from)
      /\ NextBlock(scan, carry) \in Scans(w, from)
      /\ NextBlock(scan, carry).at = scan.at + BlockBytes
      /\ scan.at \in Nat
  BY NextBlockSound
<1>5. \A e \in behind : e.offset \in Reach(w, from)
  <2> HIDE DEF bounds
  <2> QED
    BY <1>2, <1>4 DEF ElementBehind
<1>6. Cardinality(behind) \in Nat
  <2> HIDE DEF bounds
  <2>1. IsFiniteSet(bounds.commas)
    BY <1>2, Counted
  <2>2. IsFiniteSet(behind)
    <3> DEFINE place == [b \in bounds.commas |-> ElementBehind(scan, bounds.commas, b)]
    <3>1. place \in Surjection(bounds.commas, behind)
      BY DEF Surjection
    <3> QED
      BY <2>1, <3>1, FS_Surjection
  <2> QED
    BY <2>2, FS_CardinalityType
<1> HIDE DEF bounds, behind, samples
<1>7. CASE \E e \in behind : e.index = target
  <2> DEFINE hit == hitOf(behind)
             there == [ScanFrom(hit.offset) EXCEPT !.index = target, !.samples = samples]
  <2>1. hit \in behind
    BY <1>7
  <2>2. Inner(bounds, behind, samples) = Stands(Ok(hit.offset), there)
    BY <1>7
  <2> HIDE DEF hit, Inner
  <2>3. hit.offset \in Reach(w, from)
    BY <1>5, <2>1
  <2>4. there \in Scans(w, from)
    <3>1. samples \in SUBSET Samples
      BY <1>3
    <3> QED
      BY <2>3, <3>1, ScanAtHit
  <2>5. Ok(hit.offset) \in Answers(Reach(w, from), NearMissing(w, there.at))
    BY <2>3 DEF Answers
  <2>6. there.at = hit.offset
    BY DEF ScanFrom
  <2> HIDE DEF there
  <2>7. Stands(Ok(hit.offset), there) \in T
    BY <2>4, <2>5, StepsAre
  <2>8. Stands(Ok(hit.offset), there) \in Hits(w, from)
    BY <2>6, <2>7 DEF Hits, Stands, Ok
  <2> QED
    BY <1>1, <2>2, <2>8
<1>8. CASE ~\E e \in behind : e.index = target
  <2> DEFINE next == After(bounds, behind, samples)
             how == IF bounds.closed THEN Absent(scan.at) ELSE More
  <2>1. Inner(bounds, behind, samples) = Stands(how, next)
    BY <1>8
  <2>2. next \in Scans(w, from)
    <3>1. samples \in SUBSET Samples
      BY <1>3
    <3> QED
      BY <1>2, <1>4, <1>6, <3>1, ScanCounts
  <2>0. how.is # "ok"
    BY DEF Absent, More
  <2>3. how \in Answers(Reach(w, from), NearMissing(w, next.at))
    <3> HIDE DEF next
    <3> QED
      BY <1>4 DEF Answers, Over
  <2> HIDE DEF how, next, Inner
  <2>4. Stands(how, next) \in T
    BY <2>2, <2>3, StepsAre
  <2> QED
    BY <1>1, <2>0, <2>1, <2>4, NoHit
<1> QED
  BY <1>7, <1>8

\* One turn over the elements of an array (walker.rs advance_top_level_commas).
LEMMA CommaTurnSound ==
  ASSUME NEW w, SightOf(w), NEW from, Fits(w, from), NEW scan \in Scans(w, from),
         NEW target \in Nat, NEW stride
  PROVE  CommaTurn(w, scan, target, stride) \in Hits(w, from)
<1> DEFINE T == BlockSteps(w, from, Reach(w, from))
           Inner(s, o) == CommaBlock(scan, o, s.carry, target, stride)
           wordsOf(b, s) == Structure(b, s, Opens, Closes)
           Block(b, s) == CHOOSE r \in {Inner(s, o) : o \in {wordsOf(b, s)}} : TRUE
           scannedOf(b) == ScanBlock(b, scan.carry)
           Scanned(b) == CHOOSE r \in {Block(b, s) : s \in {scannedOf(b)}} : TRUE
           Turn(b) == IF b.is # "ok" THEN Stands(b, scan) ELSE Scanned(b.of)
           block == BlockAt(w, scan.at)
<1>1. CommaTurn(w, scan, target, stride)
        = IF scan.index = target THEN Stands(Ok(scan.at), scan)
          ELSE IF PastEnd(w, scan.at) THEN Stands(Eof, scan)
          ELSE CHOOSE r \in {Turn(b) : b \in {block}} : TRUE
  BY DEF CommaTurn, OnBlock, Given
<1>2. CASE scan.index = target
  <2>1. Ok(scan.at) \in Answers(Reach(w, from), NearMissing(w, scan.at))
    BY DEF Answers, Scans
  <2>2. Stands(Ok(scan.at), scan) \in T
    BY <2>1, StepsAre
  <2>3. Stands(Ok(scan.at), scan) \in Hits(w, from)
    BY <2>2 DEF Hits, Stands, Ok
  <2> QED
    BY <1>1, <1>2, <2>3
<1>3. CASE scan.index # target /\ PastEnd(w, scan.at)
  <2>1. Eof.is # "ok"
    BY DEF Eof, Failed
  <2> QED
    BY <1>1, <1>3, <2>1, OnBlockFails, NoHit
<1>4. CASE scan.index # target /\ ~PastEnd(w, scan.at)
  <2>1. CommaTurn(w, scan, target, stride) = Turn(block)
    <3> HIDE DEF Turn
    <3> QED
      BY <1>1, <1>4
  <2>2. CASE block.is # "ok"
    <3>1. Turn(block) = Stands(block, scan)
      BY <2>2
    <3> QED
      BY <1>4, <2>1, <2>2, <3>1, OnBlockFails, NoHit
  <2>3. CASE block.is = "ok"
    <3> DEFINE s == scannedOf(block.of)
               words == wordsOf(block.of, s)
    <3>1. Turn(block) = Inner(s, words)
      <4>1. Turn(block) = Scanned(block.of)
        BY <2>3
      <4>2. Scanned(block.of) = Block(block.of, s)
        <5> HIDE DEF Block
        <5> QED
          OBVIOUS
      <4>3. Block(block.of, s) = Inner(s, words)
        <5> HIDE DEF Inner, s
        <5> QED
          OBVIOUS
      <4> HIDE DEF Turn, Scanned, Block, Inner, s, words
      <4> QED
        BY <4>1, <4>2, <4>3
    <3> HIDE DEF Turn
    <3>2. s.carry \in Carries
      BY CarryTyped
    <3>3. scan.at + BlockBytes \in Reach(w, scan.at)
      BY <1>4, <2>3, OnBlockFails
    <3>4. words.opens \subseteq Bits /\ words.closes \subseteq Bits /\ words.commas \subseteq Bits
      <4> HIDE DEF s
      <4> QED
        BY StructureBits
    <3> HIDE DEF s, words
    <3>5. Inner(s, words) \in Hits(w, from)
      BY <3>2, <3>3, <3>4, CommaBlockSound
    <3> QED
      BY <2>1, <3>1, <3>5
  <2> QED
    BY <2>2, <2>3
<1> QED
  BY <1>2, <1>3, <1>4

\* The walk to the target of an array (walker.rs advance_top_level_commas).
LEMMA CommaSound ==
  ASSUME NEW w, SightOf(w), NEW from, Fits(w, from), NEW scan \in Scans(w, from),
         NEW target \in Nat, NEW stride
  PROVE  CommaStep(w, scan, target, stride) \in Hits(w, from)
<1> DEFINE S == Hits(w, from)
           most == TurnsOfScan
           first == Stands(More, scan)
           Turn(step) == IF step.result.is = "more" THEN CommaTurn(w, step.scan, target, stride) ELSE step
           On(step) == CHOOSE r \in {Turn(t) : t \in {step}} : TRUE
           Runs(f) == f = [n \in 0 .. most |-> IF n = 0 THEN first ELSE On(f[n - 1])]
           turn == CHOOSE f : Runs(f)
<1>1. most \in Nat
  BY TextBytes DEF TurnsOfScan, SightOf
<1>2. first \in S
  <2>1. More \in Answers(Reach(w, from), NearMissing(w, scan.at))
    BY DEF Answers, Over
  <2>2. Stands(More, scan) \in BlockSteps(w, from, Reach(w, from)) /\ More.is # "ok"
    BY <2>1, StepsAre DEF More
  <2> QED
    BY <2>2, NoHit
<1>3. ASSUME NEW step \in S PROVE On(step) \in S
  <2>1. On(step) = Turn(step)
    <3> HIDE DEF Turn
    <3> QED
      OBVIOUS
  <2>2. step.scan \in Scans(w, from)
    BY DEF BlockSteps, Hits
  <2> QED
    BY <2>1, <2>2, CommaTurnSound
<1> DEFINE g == [step \in S |-> On(step)]
<1> HIDE DEF S, On, first, most
<1>4. \E f : Runs(f)
  <2>1. g \in [S -> S] /\ \A step \in S : g[step] = On(step)
    BY <1>3
  <2> HIDE DEF g
  <2>2. HasTurns(S, most, first, g)
    BY <1>1, <1>2, <2>1, LoopRuns
  <2>3. PICK f \in [0 .. most -> S] :
          f[0] = first /\ \A n \in 1 .. most : f[n] = g[f[n - 1]]
    BY <2>2 DEF HasTurns
  <2>4. \A n \in 0 .. most : n # 0 => f[n - 1] \in S
    <3>1. \A n \in 0 .. most : n # 0 => n - 1 \in 0 .. most
      BY <1>1
    <3> QED
      BY <3>1
  <2>5. Runs(f)
    BY <2>1, <2>3, <2>4
  <2> QED
    BY <2>5
<1>5. Runs(turn)
  BY <1>4
<1>6. turn[most] \in S
  <2> HIDE DEF turn
  <2>1. turn[0] \in S /\ \A n \in 1 .. most : turn[n] = On(turn[n - 1])
    BY <1>1, <1>2, <1>5
  <2> QED
    BY <1>1, <1>3, <2>1, LoopEnds
<1>7. CommaStep(w, scan, target, stride) = turn[most]
  BY DEF CommaStep, Loop, Given, On, first, most
<1> QED
  BY <1>6, <1>7 DEF S

\* The walk over a value, once its first byte is known (walker.rs skip_value_step).
\* A string and a container miss at most the chunk of the block they stand at.
LEMMA SkipStepSound ==
  ASSUME NEW w, SightOf(w), NEW from, Fits(w, from), NEW scan \in Scans(w, from), NEW byte
  PROVE  /\ SkipStep(w, byte, scan) \in Steps(w, from, Reach(w, from))
         /\ byte \in {"quote"} \cup Opens =>
              SkipStep(w, byte, scan) \in BlockSteps(w, from, Reach(w, from))
<1> DEFINE T == BlockSteps(w, from, Reach(w, from))
<1>1. CASE byte = "quote"
  <2> DEFINE Closing(r) == IF r.is = "ok" THEN Ok(r.of + 1) ELSE r
             After(step) == [step EXCEPT !.result = Closing(step.result)]
             step == StringStep(w, scan)
             answer == Closing(step.result)
  <2>1. SkipStep(w, byte, scan) = After(step)
    <3> DEFINE Closed(r) == CHOOSE x \in {Closing(y) : y \in {r}} : TRUE
               Held(t) == [t EXCEPT !.result = Closed(t.result)]
    <3>1. SkipStep(w, byte, scan) = CHOOSE x \in {Held(t) : t \in {step}} : TRUE
      <4>1. byte \notin Opens
        BY <1>1 DEF Opens
      <4> DEFINE Quoted == Given(StringStep(w, scan), LAMBDA t :
                             [t EXCEPT !.result = Then(@, LAMBDA close : Ok(close + 1))])
      <4>2. SkipStep(w, byte, scan) = Quoted
        BY <1>1, <4>1 DEF SkipStep
      <4>3. Quoted = CHOOSE x \in {Held(t) : t \in {step}} : TRUE
        BY DEF Given, Then
      <4> HIDE DEF Quoted
      <4> QED
        BY <4>2, <4>3
    <3>2. SkipStep(w, byte, scan) = Held(step)
      <4> HIDE DEF Held, step
      <4> QED
        BY <3>1
    <3>3. Closed(step.result) = Closing(step.result)
      <4> HIDE DEF Closing, step
      <4> QED
        OBVIOUS
    <3> HIDE DEF Closed, Closing, step
    <3> QED
      BY <3>2, <3>3
  <2>2. step \in BlockSteps(w, from, Quotes(w, from))
    BY StringSound
  <2>3. /\ step = [result |-> step.result, scan |-> step.scan]
        /\ step.scan \in Scans(w, from)
        /\ step.result \in Answers(Quotes(w, from), NearMissing(w, step.scan.at))
    BY <2>2 DEF BlockSteps
  <2> HIDE DEF step
  <2>4. answer \in Answers(Reach(w, from), NearMissing(w, step.scan.at))
    <3>1. CASE step.result.is = "ok"
      <4>1. step.result.of \in Quotes(w, from)
        BY <2>3, <3>1, AnswerKinds
      <4>2. answer = Ok(step.result.of + 1)
        BY <3>1
      <4> QED
        BY <4>1, <4>2 DEF Quotes, Answers
    <3>2. CASE step.result.is # "ok"
      BY <2>3, <3>2, AnswerOn
    <3> QED
      BY <3>1, <3>2
  <2>5. After(step) = Stands(answer, step.scan)
    BY <2>3 DEF Stands
  <2> HIDE DEF answer, After
  <2>6. Stands(answer, step.scan) \in T
    BY <2>3, <2>4, StepsAre
  <2> QED
    BY <2>1, <2>5, <2>6, BlockStepsAreSteps
<1>2. CASE byte \in Opens
  <2>1. byte # "quote"
    BY <1>2 DEF Opens
  <2>2. SkipStep(w, byte, scan) = ContainerStep(w, byte, scan)
    BY <1>2, <2>1 DEF SkipStep
  <2> QED
    BY <2>2, ContainerSound, BlockStepsAreSteps
<1>3. CASE byte # "quote" /\ byte \notin Opens
  <2> DEFINE found == SkipPrimitive(w, scan.at)
  <2>1. SkipStep(w, byte, scan) = Stands(found, scan)
    BY <1>3 DEF SkipStep
  <2>2. scan.at \in Reach(w, from) /\ Fits(w, scan.at)
    BY ReachFacts DEF Scans
  <2>3. found \in Answers(Reach(w, scan.at), Missing(w, scan.at))
    BY <2>2, SkipSound DEF SkipPrimitive, Bytes
  <2>4. found \in Answers(Reach(w, from), Missing(w, scan.at))
    BY <2>2, <2>3, ReachFacts, AnswersGrow
  <2> HIDE DEF found
  <2>5. Stands(found, scan) \in Steps(w, from, Reach(w, from))
    BY <2>4, StepsAre
  <2> QED
    BY <1>3, <2>1, <2>5
<1> QED
  BY <1>1, <1>2, <1>3

\* A value's walk starts at its first byte, a string's and a container's behind it.
LEMMA SkipStateSound ==
  ASSUME NEW w, SightOf(w), NEW from, Fits(w, from), NEW byte,
         byte # "none" => from + 1 \in Reach(w, from)
  PROVE  byte # "none" => SkipState(from, byte) \in Scans(w, from)
<1>1. from \in Reach(w, from)
  BY ReachFacts
<1>2. ASSUME byte # "none"
      PROVE  /\ ScanFrom(from) \in Scans(w, from) /\ StringFrom(from + 1) \in Scans(w, from)
             /\ [ScanFrom(from + 1) EXCEPT !.depth = 1] \in Scans(w, from)
  BY <1>1, <1>2, ScanFromSound
<1> QED
  BY <1>2 DEF SkipState

\* A value is walked over from its start (walker.rs skip_value).
LEMMA SkipValueSound ==
  ASSUME NEW w, SightOf(w), NEW from, Fits(w, from)
  PROVE  SkipValue(w, from) \in Answers(Reach(w, from), Missing(w, from))
<1> DEFINE read == ReadByte(w, from)
           Walk(b) == IF b = "none" THEN Eof ELSE SkipStep(w, b, SkipState(from, b)).result
<1>1. SkipValue(w, from) = IF read.is = "ok" THEN Walk(read.of) ELSE read
  BY DEF SkipValue, Then, Given
<1>2. CASE read.is # "ok"
  BY <1>1, <1>2, ReadByteSound, AnswerOn
<1>3. CASE read.is = "ok" /\ read.of = "none"
  BY <1>1, <1>3 DEF Answers, Over
<1>4. CASE read.is = "ok" /\ read.of # "none"
  <2> DEFINE step == SkipStep(w, read.of, SkipState(from, read.of))
  <2>1. from + 1 \in Reach(w, from)
    BY <1>4, ReadByteSound
  <2>2. SkipState(from, read.of) \in Scans(w, from)
    BY <1>4, <2>1, SkipStateSound
  <2>3. step \in Steps(w, from, Reach(w, from))
    BY <2>2, SkipStepSound
  <2>4. SkipValue(w, from) = step.result
    BY <1>1, <1>4
  <2> HIDE DEF step
  <2> QED
    BY <2>3, <2>4 DEF Steps
<1> QED
  BY <1>2, <1>3, <1>4

\* A string's closing quote (walker.rs find_string_close).
LEMMA StringCloseSound ==
  ASSUME NEW w, SightOf(w), NEW from, Fits(w, from)
  PROVE  StringClose(w, from) \in Answers(Quotes(w, from), Missing(w, from))
<1>1. StringFrom(from) \in Scans(w, from)
  BY ReachFacts, ScanFromSound
<1>2. StringStep(w, StringFrom(from)) \in BlockSteps(w, from, Quotes(w, from))
  BY <1>1, StringSound
<1> QED
  BY <1>2 DEF StringClose, BlockSteps

(***************************************************************************)
(* Members and elements (resolve.rs).                                      *)
(***************************************************************************)
\* Whitespace is passed byte by byte (walker.rs skip_whitespace).
LEMMA WhitespaceSound ==
  ASSUME NEW w, SightOf(w), NEW from, Fits(w, from)
  PROVE  SkipWhitespace(w, from) \in Answers(Reach(w, from), Missing(w, from))
BY SkipSound DEF SkipWhitespace, Bytes

\* A byte in reach that is read: what it is, and what is behind it.
LEMMA ReadOn ==
  ASSUME NEW w, SightOf(w), NEW from, Fits(w, from), NEW o \in Reach(w, from), NEW X
  PROVE  /\ ReadByte(w, o).is # "ok" => ReadByte(w, o) \in Answers(X, Missing(w, from))
         /\ ReadByte(w, o).is = "ok" /\ ReadByte(w, o).of # "none" => o + 1 \in Reach(w, from)
<1>1. Fits(w, o) /\ Missing(w, o) \subseteq Missing(w, from) /\ Reach(w, o) \subseteq Reach(w, from)
  BY ReachFacts
<1> QED
  BY <1>1, ReadByteSound, AnswerOn

\* What is over is over in every set of answers.
LEMMA OverAnswers ==
  ASSUME NEW X, NEW missing
  PROVE  /\ Eof \in Answers(X, missing) /\ Malformed \in Answers(X, missing)
         /\ NotNavigable \in Answers(X, missing) /\ More \in Answers(X, missing)
         /\ \A o \in Nat : Absent(o) \in Answers(X, missing)
         /\ \A x \in X : Ok(x) \in Answers(X, missing)
BY DEF Answers, Over

\* From a key's closing quote to its value.
LEMMA MemberValueStartSound ==
  ASSUME NEW w, SightOf(w), NEW close, Fits(w, close + 1)
  PROVE  MemberValueStart(w, close) \in Answers(Reach(w, close + 1), Missing(w, close + 1))
<1> DEFINE from == close + 1
           colon == SkipWhitespace(w, from)
           read(c) == ReadByte(w, c)
           Byte(c) == IF read(c).is = "ok"
                      THEN IF read(c).of = ":" THEN SkipWhitespace(w, c + 1) ELSE Malformed
                      ELSE read(c)
           X == Answers(Reach(w, from), Missing(w, from))
<1>1. MemberValueStart(w, close) = IF colon.is = "ok" THEN Byte(colon.of) ELSE colon
  BY DEF MemberValueStart, Then, Given
<1>2. colon \in X
  BY WhitespaceSound
<1> SUFFICES MemberValueStart(w, close) \in X
  OBVIOUS
<1> HIDE DEF colon, from
<1>3. CASE colon.is # "ok"
  BY <1>1, <1>2, <1>3
<1>4. CASE colon.is = "ok"
  <2> DEFINE c == colon.of
  <2>1. c \in Reach(w, from)
    BY <1>2, <1>4, AnswerKinds
  <2> HIDE DEF c
  <2>0. Fits(w, from)
    BY DEF from
  <2>2. read(c).is # "ok" => read(c) \in X
    BY <2>0, <2>1, ReadOn
  <2>3. ASSUME read(c).is = "ok", read(c).of = ":" PROVE SkipWhitespace(w, c + 1) \in X
    <3>1. c + 1 \in Reach(w, from)
      BY <2>0, <2>1, <2>3, ReadOn
    <3>2. /\ Fits(w, c + 1) /\ Reach(w, c + 1) \subseteq Reach(w, from)
          /\ Missing(w, c + 1) \subseteq Missing(w, from)
      BY <2>0, <3>1, ReachFacts
    <3>3. SkipWhitespace(w, c + 1) \in Answers(Reach(w, c + 1), Missing(w, c + 1))
      BY <3>2, WhitespaceSound
    <3> QED
      BY <3>2, <3>3, AnswersGrow
  <2>4. Malformed \in X
    BY OverAnswers
  <2>5. Byte(c) \in X
    BY <2>2, <2>3, <2>4
  <2> QED
    BY <1>1, <1>4, <2>5 DEF c
<1> QED
  BY <1>3, <1>4

\* A member: its name as the text has it, and where its value starts.
Key(first, last) == SubSeq(text, first, last)

\* The names of members.
Keys == {Key(first, last) : first, last \in Nat}

\* A member of an object.
Members(w, from) == [key : Keys, value : Reach(w, from)]

\* A member's key and where its value starts (resolve.rs member_at).
LEMMA MemberAtSound ==
  ASSUME NEW w, SightOf(w), NEW from, Fits(w, from)
  PROVE  MemberAt(w, from) \in Answers(Members(w, from), Missing(w, from))
<1> DEFINE X == Answers(Members(w, from), Missing(w, from))
           member(o, c, v) == [key |-> SubSeq(text, o + 2, c), value |-> v]
           value(c) == MemberValueStart(w, c)
           OnValue(o, c, v) == IF v.is = "ok" THEN Ok(member(o, c, v.of)) ELSE v
           Value(o, c) == CHOOSE x \in {OnValue(o, c, v) : v \in {value(c)}} : TRUE
           close(o) == StringClose(w, o + 1)
           OnClose(o, c) == IF c.is = "ok" THEN Value(o, c.of) ELSE c
           Quoted(o) == CHOOSE x \in {OnClose(o, c) : c \in {close(o)}} : TRUE
           Kind(o, b) == CASE b = "none"  -> Eof
                           [] b = "}"     -> Absent(o)
                           [] b = "quote" -> Quoted(o)
                           [] OTHER       -> Malformed
           read(o) == ReadByte(w, o)
           OnByte(o, b) == IF b.is = "ok" THEN Kind(o, b.of) ELSE b
           Byte(o) == CHOOSE x \in {OnByte(o, b) : b \in {read(o)}} : TRUE
           OnOpen(r) == IF r.is = "ok" THEN Byte(r.of) ELSE r
           open == SkipWhitespace(w, from)
<1>1. MemberAt(w, from) = OnOpen(open)
  <2>1. MemberAt(w, from) = CHOOSE x \in {OnOpen(r) : r \in {open}} : TRUE
    BY DEF MemberAt, Then, Given
  <2> HIDE DEF OnOpen, open
  <2> QED
    BY <2>1
<1>5. ASSUME NEW o PROVE Byte(o) = OnByte(o, read(o))
  <2> HIDE DEF OnByte, read
  <2> QED
    OBVIOUS
<1>6. ASSUME NEW o PROVE Quoted(o) = OnClose(o, close(o))
  <2> HIDE DEF OnClose, close
  <2> QED
    OBVIOUS
<1>7. ASSUME NEW o, NEW c PROVE Value(o, c) = OnValue(o, c, value(c))
  <2> HIDE DEF OnValue, value
  <2> QED
    OBVIOUS
<1> HIDE DEF Byte, Quoted, Value
<1>2. open \in Answers(Reach(w, from), Missing(w, from))
  BY WhitespaceSound
<1>3. CASE open.is # "ok"
  <2> HIDE DEF open
  <2> QED
    BY <1>1, <1>2, <1>3, AnswerOn
<1>4. CASE open.is = "ok"
  <2> DEFINE o == open.of
  <2>1. o \in Reach(w, from)
    BY <1>2, <1>4, AnswerKinds
  <2> HIDE DEF open, o
  <2>2. o \in Nat
    BY <2>1 DEF Reach
  <2>3. read(o).is # "ok" => read(o) \in X
    BY <2>1, ReadOn
  <2>4. ASSUME read(o).is = "ok", read(o).of = "quote" PROVE Quoted(o) \in X
    <3>1. o + 1 \in Reach(w, from)
      BY <2>1, <2>4, ReadOn
    <3>2. /\ Fits(w, o + 1) /\ Reach(w, o + 1) \subseteq Reach(w, from)
          /\ Missing(w, o + 1) \subseteq Missing(w, from)
      BY <3>1, ReachFacts
    <3>3. close(o) \in Answers(Quotes(w, o + 1), Missing(w, o + 1))
      BY <3>2, StringCloseSound
    <3> DEFINE r == close(o)
               c == r.of
    <3> HIDE DEF r
    <3>4. CASE r.is # "ok"
      <4>1. r \in X
        BY <3>2, <3>3, <3>4, AnswerOn DEF r
      <4> QED
        BY <1>6, <3>4, <4>1 DEF r
    <3>5. CASE r.is = "ok"
      <4>1. c \in Quotes(w, o + 1)
        BY <3>3, <3>5, AnswerKinds DEF r
      <4> HIDE DEF c
      <4>2. c \in Nat /\ c + 1 \in Reach(w, o + 1)
        BY <4>1 DEF Quotes, Reach
      <4>3. c + 1 \in Reach(w, from)
        BY <3>2, <4>2
      <4>4. /\ Fits(w, c + 1) /\ Reach(w, c + 1) \subseteq Reach(w, from)
            /\ Missing(w, c + 1) \subseteq Missing(w, from)
        BY <4>3, ReachFacts
      <4>5. value(c) \in Answers(Reach(w, c + 1), Missing(w, c + 1))
        BY <4>4, MemberValueStartSound
      <4>6. Value(o, c) \in X
        <5> DEFINE v == value(c)
        <5>0. Value(o, c) = OnValue(o, c, v)
          BY <1>7
        <5> HIDE DEF v
        <5>1. CASE v.is # "ok"
          <6>1. v \in X
            BY <4>4, <4>5, <5>1, AnswerOn DEF v
          <6> QED
            BY <5>0, <5>1, <6>1
        <5>2. CASE v.is = "ok"
          <6>1. v.of \in Reach(w, from)
            BY <4>4, <4>5, <5>2, AnswerKinds DEF v
          <6>2. SubSeq(text, o + 2, c) \in Keys
            <7> DEFINE second == o + 2
            <7>1. second \in Nat
              BY <2>2
            <7> HIDE DEF second
            <7>2. Key(second, c) \in Keys
              BY <4>2, <7>1 DEF Keys
            <7> QED
              BY <7>2 DEF second, Key
          <6>3. member(o, c, v.of) \in Members(w, from)
            BY <6>1, <6>2 DEF Members
          <6>4. Ok(member(o, c, v.of)) \in X
            BY <6>3, OverAnswers
          <6> QED
            BY <5>0, <5>2, <6>4
        <5> QED
          BY <5>1, <5>2
      <4>7. Quoted(o) = Value(o, c)
        BY <1>6, <3>5 DEF r, c
      <4> QED
        BY <4>6, <4>7
    <3> QED
      BY <3>4, <3>5
  <2>5. Eof \in X /\ Malformed \in X /\ Absent(o) \in X
    BY <2>2, OverAnswers
  <2>6. read(o).is = "ok" => Kind(o, read(o).of) \in X
    BY <2>4, <2>5
  <2>7. Byte(o) \in X
    BY <1>5, <2>3, <2>6
  <2> QED
    BY <1>1, <1>4, <2>7 DEF o
<1> QED
  BY <1>3, <1>4

\* An element starts at its first byte.
LEMMA ElementAtSound ==
  ASSUME NEW w, SightOf(w), NEW from, Fits(w, from)
  PROVE  ElementAt(w, from) \in Answers(Reach(w, from), Missing(w, from))
<1> DEFINE X == Answers(Reach(w, from), Missing(w, from))
           Kind(o, b) == CASE b = "none" -> Eof
                           [] b = "]"    -> Absent(o)
                           [] OTHER      -> Ok(o)
           read(o) == ReadByte(w, o)
           Byte(o) == IF read(o).is = "ok" THEN Kind(o, read(o).of) ELSE read(o)
           start == SkipWhitespace(w, from)
<1>1. ElementAt(w, from) = IF start.is = "ok" THEN Byte(start.of) ELSE start
  BY DEF ElementAt, Then, Given
<1>2. start \in X
  BY WhitespaceSound
<1> HIDE DEF start
<1>3. CASE start.is # "ok"
  BY <1>1, <1>2, <1>3
<1>4. CASE start.is = "ok"
  <2> DEFINE o == start.of
  <2>1. o \in Reach(w, from)
    BY <1>2, <1>4, AnswerKinds
  <2> HIDE DEF o
  <2>2. o \in Nat
    BY <2>1 DEF Reach
  <2>3. read(o).is # "ok" => read(o) \in X
    BY <2>1, ReadOn
  <2>4. Eof \in X /\ Absent(o) \in X /\ Ok(o) \in X
    BY <2>1, <2>2, OverAnswers
  <2>5. Byte(o) \in X
    BY <2>3, <2>4
  <2> QED
    BY <1>1, <1>4, <2>5 DEF o
<1> QED
  BY <1>3, <1>4

\* Past a value: its end and what follows.
Pasts(w, from) == [end : Reach(w, from), next : Reach(w, from), last : BOOLEAN]

\* Past a value and the comma behind it, or at the container's close
\* (resolve.rs advance_past_value).
LEMMA AdvanceSound ==
  ASSUME NEW w, SightOf(w), NEW from, Fits(w, from), NEW close \in {"}", "]"}
  PROVE  AdvancePastValue(w, from, close) \in Answers(Pasts(w, from), Missing(w, from))
<1> DEFINE X == Answers(Pasts(w, from), Missing(w, from))
           Kind(e, a, b) == CASE b = ","   -> Ok([end |-> e, next |-> a + 1, last |-> FALSE])
                              [] b = close -> Ok([end |-> e, next |-> a, last |-> TRUE])
                              [] OTHER     -> Malformed
           read(a) == ReadByte(w, a)
           OnByte(e, a, b) == IF b.is = "ok" THEN Kind(e, a, b.of) ELSE b
           Byte(e, a) == CHOOSE x \in {OnByte(e, a, b) : b \in {read(a)}} : TRUE
           after(e) == SkipWhitespace(w, e)
           OnAfter(e, a) == IF a.is = "ok" THEN Byte(e, a.of) ELSE a
           After(e) == CHOOSE x \in {OnAfter(e, a) : a \in {after(e)}} : TRUE
           OnEnd(e) == IF e.is = "ok" THEN After(e.of) ELSE e
           end == SkipValue(w, from)
<1>1. AdvancePastValue(w, from, close) = OnEnd(end)
  <2>1. AdvancePastValue(w, from, close) = CHOOSE x \in {OnEnd(e) : e \in {end}} : TRUE
    BY DEF AdvancePastValue, Then, Given
  <2> HIDE DEF OnEnd, end
  <2> QED
    BY <2>1
<1>5. ASSUME NEW e, NEW a PROVE Byte(e, a) = OnByte(e, a, read(a))
  <2> HIDE DEF OnByte, read
  <2> QED
    OBVIOUS
<1>6. ASSUME NEW e PROVE After(e) = OnAfter(e, after(e))
  <2> HIDE DEF OnAfter, after
  <2> QED
    OBVIOUS
<1> HIDE DEF Byte, After
<1>2. end \in Answers(Reach(w, from), Missing(w, from))
  BY SkipValueSound
<1>3. CASE end.is # "ok"
  <2> HIDE DEF end
  <2> QED
    BY <1>1, <1>2, <1>3, AnswerOn
<1>4. CASE end.is = "ok"
  <2> DEFINE e == end.of
  <2>1. e \in Reach(w, from)
    BY <1>2, <1>4, AnswerKinds
  <2> HIDE DEF end, e
  <2>2. /\ Fits(w, e) /\ Reach(w, e) \subseteq Reach(w, from)
        /\ Missing(w, e) \subseteq Missing(w, from)
    BY <2>1, ReachFacts
  <2>3. after(e) \in Answers(Reach(w, e), Missing(w, e))
    BY <2>2, WhitespaceSound
  <2>4. After(e) \in X
    <3> DEFINE r == after(e)
               a == r.of
    <3> HIDE DEF r
    <3>1. CASE r.is # "ok"
      <4>1. r \in X
        BY <2>2, <2>3, <3>1, AnswerOn DEF r
      <4> QED
        BY <1>6, <3>1, <4>1 DEF r
    <3>2. CASE r.is = "ok"
      <4>1. a \in Reach(w, from)
        BY <2>2, <2>3, <3>2, AnswerKinds DEF r
      <4> HIDE DEF a
      <4>2. read(a).is # "ok" => read(a) \in X
        BY <4>1, ReadOn
      <4>3. read(a).is = "ok" /\ read(a).of = "," => a + 1 \in Reach(w, from)
        BY <4>1, ReadOn
      <4>4. /\ Ok([end |-> e, next |-> a, last |-> TRUE]) \in X
            /\ a + 1 \in Reach(w, from) => Ok([end |-> e, next |-> a + 1, last |-> FALSE]) \in X
            /\ Malformed \in X
        <5>1. [end |-> e, next |-> a, last |-> TRUE] \in Pasts(w, from)
          BY <2>1, <4>1 DEF Pasts
        <5>2. a + 1 \in Reach(w, from) =>
                [end |-> e, next |-> a + 1, last |-> FALSE] \in Pasts(w, from)
          BY <2>1 DEF Pasts
        <5> QED
          BY <5>1, <5>2, OverAnswers
      <4>5. read(a).is = "ok" => Kind(e, a, read(a).of) \in X
        <5> DEFINE b == read(a).of
                   there == Ok([end |-> e, next |-> a, last |-> TRUE])
                   onward == Ok([end |-> e, next |-> a + 1, last |-> FALSE])
        <5>1. CASE b = ","
          <6>1. Kind(e, a, b) = onward
            BY <5>1
          <6> QED
            BY <4>3, <4>4, <5>1, <6>1
        <5>2. CASE b = close
          <6>1. Kind(e, a, b) = there
            BY <5>2
          <6> QED
            BY <4>4, <6>1
        <5>3. CASE b # "," /\ b # close
          <6>1. Kind(e, a, b) = Malformed
            BY <5>3
          <6> QED
            BY <4>4, <6>1
        <5> QED
          BY <5>1, <5>2, <5>3
      <4>6. Byte(e, a) \in X
        BY <1>5, <4>2, <4>5
      <4>7. After(e) = Byte(e, a)
        BY <1>6, <3>2 DEF r, a
      <4> QED
        BY <4>6, <4>7
    <3> QED
      BY <3>1, <3>2
  <2> QED
    BY <1>1, <1>4, <2>4 DEF e
<1> QED
  BY <1>3, <1>4

\* A scan starts at a place in reach and has not counted a thing.
LEMMA StandsOn ==
  ASSUME NEW w, NEW from, Fits(w, from), NEW scan \in Scans(w, from), NEW X, NEW r,
         r \in Answers(X, Missing(w, scan.at))
  PROVE  Stands(r, scan) \in Steps(w, from, X)
BY StepsAre

\* One member of an object (resolve.rs step_object).
LEMMA ObjectMemberSound ==
  ASSUME NEW w, SightOf(w), NEW from, Fits(w, from), NEW scan \in Scans(w, from), NEW name
  PROVE  ObjectMember(w, scan, name) \in Steps(w, from, Reach(w, from))
<1> DEFINE T == Steps(w, from, Reach(w, from))
           at == scan.at
           past(m) == AdvancePastValue(w, m.of.value, "}")
           OnPast(p) == IF p.is # "ok" THEN Stands(p, scan)
                        ELSE IF p.of.last THEN Stands(Absent(p.of.next), scan)
                        ELSE Stands(More, ScanFrom(p.of.next))
           Past(m) == CHOOSE x \in {OnPast(p) : p \in {past(m)}} : TRUE
           OnMember(m) == IF m.is # "ok" THEN Stands(m, scan)
                          ELSE IF m.of.key = name THEN Stands(Ok(m.of.value), scan)
                          ELSE Past(m)
           member == MemberAt(w, at)
<1>1. ObjectMember(w, scan, name) = OnMember(member)
  <2>1. ObjectMember(w, scan, name) = CHOOSE x \in {OnMember(m) : m \in {member}} : TRUE
    BY DEF ObjectMember, Given
  <2> HIDE DEF OnMember, member
  <2> QED
    BY <2>1
<1>2. ASSUME NEW m PROVE Past(m) = OnPast(past(m))
  <2> HIDE DEF OnPast, past
  <2> QED
    OBVIOUS
<1> HIDE DEF Past
<1>3. at \in Reach(w, from)
  BY DEF Scans
<1>4. /\ Fits(w, at) /\ Reach(w, at) \subseteq Reach(w, from)
      /\ Missing(w, at) \subseteq Missing(w, from)
  BY <1>3, ReachFacts
<1>5. member \in Answers(Members(w, at), Missing(w, at))
  BY <1>4, MemberAtSound
<1> HIDE DEF member
<1>6. CASE member.is # "ok"
  <2>1. member \in Answers(Reach(w, from), Missing(w, scan.at))
    BY <1>5, <1>6, AnswerOn
  <2>2. Stands(member, scan) \in T
    BY <2>1, StandsOn
  <2> QED
    BY <1>1, <1>6, <2>2
<1>7. CASE member.is = "ok"
  <2> DEFINE v == member.of.value
  <2>1. v \in Reach(w, at)
    <3>1. member.of \in Members(w, at)
      BY <1>5, <1>7, AnswerKinds
    <3> QED
      BY <3>1 DEF Members
  <2>2. /\ v \in Reach(w, from) /\ Fits(w, v) /\ Reach(w, v) \subseteq Reach(w, from)
        /\ Missing(w, v) \subseteq Missing(w, scan.at)
    BY <1>4, <2>1, ReachFacts
  <2> HIDE DEF v
  <2>3. CASE member.of.key = name
    <3>1. Ok(v) \in Answers(Reach(w, from), Missing(w, scan.at))
      BY <2>2, OverAnswers
    <3>2. Stands(Ok(v), scan) \in T
      BY <3>1, StandsOn
    <3> QED
      BY <1>1, <1>7, <2>3, <3>2 DEF v
  <2>4. CASE member.of.key # name
    <3> DEFINE p == past(member)
    <3>1. p \in Answers(Pasts(w, v), Missing(w, v))
      BY <2>2, AdvanceSound DEF v
    <3>2. ObjectMember(w, scan, name) = OnPast(p)
      BY <1>1, <1>2, <1>7, <2>4
    <3> HIDE DEF p
    <3>3. CASE p.is # "ok"
      <4>1. p \in Answers(Reach(w, from), Missing(w, scan.at))
        BY <2>2, <3>1, <3>3, AnswerOn
      <4>2. Stands(p, scan) \in T
        BY <4>1, StandsOn
      <4> QED
        BY <3>2, <3>3, <4>2
    <3>4. CASE p.is = "ok"
      <4> DEFINE next == p.of.next
      <4>1. next \in Reach(w, v)
        <5>1. p.of \in Pasts(w, v)
          BY <3>1, <3>4, AnswerKinds
        <5> QED
          BY <5>1 DEF Pasts
      <4> HIDE DEF next
      <4>2. next \in Reach(w, from) /\ next \in Nat
        BY <2>2, <4>1 DEF Reach
      <4>3. CASE p.of.last
        <5>1. Absent(next) \in Answers(Reach(w, from), Missing(w, scan.at))
          BY <4>2, OverAnswers
        <5>2. Stands(Absent(next), scan) \in T
          BY <5>1, StandsOn
        <5> QED
          BY <3>2, <3>4, <4>3, <5>2 DEF next
      <4>4. CASE ~p.of.last
        <5> DEFINE onward == ScanFrom(next)
        <5>1. onward \in Scans(w, from)
          BY <4>2, ScanFromSound
        <5> HIDE DEF onward
        <5>2. More \in Answers(Reach(w, from), Missing(w, onward.at))
          BY OverAnswers
        <5>3. Stands(More, onward) \in T
          BY <5>1, <5>2, StandsOn
        <5> QED
          BY <3>2, <3>4, <4>4, <5>3 DEF next, onward
      <4> QED
        BY <4>3, <4>4
    <3> QED
      BY <3>3, <3>4
  <2> QED
    BY <2>3, <2>4
<1> QED
  BY <1>6, <1>7

\* The walk to the member of a name (resolve.rs step_object).
LEMMA ObjectSound ==
  ASSUME NEW w, SightOf(w), NEW from, Fits(w, from), NEW scan \in Scans(w, from), NEW name
  PROVE  StepObject(w, scan, name) \in Steps(w, from, Reach(w, from))
<1> DEFINE S == Steps(w, from, Reach(w, from))
           most == TurnsOfScan
           first == Stands(More, scan)
           Turn(step) == IF step.result.is = "more" THEN ObjectMember(w, step.scan, name) ELSE step
           On(step) == CHOOSE r \in {Turn(t) : t \in {step}} : TRUE
           Runs(f) == f = [n \in 0 .. most |-> IF n = 0 THEN first ELSE On(f[n - 1])]
           turn == CHOOSE f : Runs(f)
<1>1. most \in Nat
  BY TextBytes DEF TurnsOfScan, SightOf
<1>2. first \in S
  <2>1. More \in Answers(Reach(w, from), Missing(w, scan.at))
    BY OverAnswers
  <2> QED
    BY <2>1, StandsOn
<1>3. ASSUME NEW step \in S PROVE On(step) \in S
  <2>1. On(step) = Turn(step)
    <3> HIDE DEF Turn
    <3> QED
      OBVIOUS
  <2>2. step.scan \in Scans(w, from)
    BY DEF Steps
  <2> QED
    BY <2>1, <2>2, ObjectMemberSound
<1> DEFINE g == [step \in S |-> On(step)]
<1> HIDE DEF S, On, first, most
<1>4. \E f : Runs(f)
  <2>1. g \in [S -> S] /\ \A step \in S : g[step] = On(step)
    BY <1>3
  <2> HIDE DEF g
  <2>2. HasTurns(S, most, first, g)
    BY <1>1, <1>2, <2>1, LoopRuns
  <2>3. PICK f \in [0 .. most -> S] :
          f[0] = first /\ \A n \in 1 .. most : f[n] = g[f[n - 1]]
    BY <2>2 DEF HasTurns
  <2>4. \A n \in 0 .. most : n # 0 => f[n - 1] \in S
    <3>1. \A n \in 0 .. most : n # 0 => n - 1 \in 0 .. most
      BY <1>1
    <3> QED
      BY <3>1
  <2>5. Runs(f)
    BY <2>1, <2>3, <2>4
  <2> QED
    BY <2>5
<1>5. Runs(turn)
  BY <1>4
<1>6. turn[most] \in S
  <2> HIDE DEF turn
  <2>1. turn[0] \in S /\ \A n \in 1 .. most : turn[n] = On(turn[n - 1])
    BY <1>1, <1>2, <1>5
  <2> QED
    BY <1>1, <1>3, <2>1, LoopEnds
<1>7. StepObject(w, scan, name) = turn[most]
  BY DEF StepObject, Loop, Given, On, first, most
<1> QED
  BY <1>6, <1>7 DEF S

\* The element an array scan was to find is sampled with the others
\* (resolve.rs step_array).
LEMMA ArraySound ==
  ASSUME NEW w, SightOf(w), NEW from, Fits(w, from), NEW scan \in Scans(w, from),
         NEW target \in Nat, NEW stride
  PROVE  StepArray(w, scan, target, stride) \in Steps(w, from, Reach(w, from))
<1> DEFINE T == Steps(w, from, Reach(w, from))
           Also(f) == IF f.is = "ok" /\ stride > 0
                      THEN {[index |-> target, offset |-> f.of]} ELSE {}
           OnFound(s, f) == Stands(f, [s.scan EXCEPT !.samples = @ \cup Also(f)])
           OnElement(r) == IF r.is = "ok" THEN ElementAt(w, r.of) ELSE r
           foundOf(s) == CHOOSE x \in {OnElement(r) : r \in {s.result}} : TRUE
           OnStep(s) == CHOOSE x \in {OnFound(s, f) : f \in {foundOf(s)}} : TRUE
           step == CommaStep(w, scan, target, stride)
           found == foundOf(step)
<1>1. StepArray(w, scan, target, stride) = OnFound(step, found)
  <2>1. StepArray(w, scan, target, stride) = CHOOSE x \in {OnStep(s) : s \in {step}} : TRUE
    BY DEF StepArray, Then, Given
  <2>2. StepArray(w, scan, target, stride) = OnStep(step)
    <3> HIDE DEF OnStep, step
    <3> QED
      BY <2>1
  <2>3. OnStep(step) = OnFound(step, found)
    <3> HIDE DEF OnFound, foundOf, step
    <3> QED
      OBVIOUS
  <2> HIDE DEF OnStep, OnFound, found, step
  <2> QED
    BY <2>2, <2>3
<1>2. /\ step.scan \in Scans(w, from)
      /\ step.result \in Answers(Reach(w, from), NearMissing(w, step.scan.at))
      /\ step.result.is = "ok" => step.result.of = step.scan.at
  BY CommaSound DEF Hits, BlockSteps
<1>3. found = OnElement(step.result)
  <2> HIDE DEF OnElement, step
  <2> QED
    OBVIOUS
<1> HIDE DEF step, found
<1> DEFINE at == step.scan.at
<1>4. /\ Fits(w, at) /\ Reach(w, at) \subseteq Reach(w, from)
  BY <1>2, ReachFacts DEF Scans
<1>5. found \in Answers(Reach(w, from), Missing(w, at))
  <2>1. CASE step.result.is # "ok"
    <3>1. NearMissing(w, at) \subseteq Missing(w, at)
      BY DEF NearMissing, Missing
    <3>2. step.result \in Answers(Reach(w, from), Missing(w, at))
      BY <1>2, <2>1, <3>1, AnswerOn
    <3> QED
      BY <1>3, <2>1, <3>2
  <2>2. CASE step.result.is = "ok"
    <3>1. found = ElementAt(w, at)
      BY <1>2, <1>3, <2>2
    <3> HIDE DEF at
    <3>2. ElementAt(w, at) \in Answers(Reach(w, at), Missing(w, at))
      BY <1>4, ElementAtSound
    <3>3. ElementAt(w, at) \in Answers(Reach(w, from), Missing(w, at))
      BY <1>4, <3>2, AnswersGrow
    <3> QED
      BY <3>1, <3>3
  <2> QED
    BY <2>1, <2>2
<1> DEFINE sampled == [step.scan EXCEPT !.samples = @ \cup Also(found)]
<1>6. Also(found) \subseteq Samples
  <2>1. found.is = "ok" => found.of \in Reach(w, from)
    BY <1>5, AnswerKinds
  <2>2. found.is = "ok" => found.of \in Nat
    BY <2>1 DEF Reach
  <2> QED
    BY <2>2 DEF Samples
<1>7. sampled \in Scans(w, from) /\ sampled.at = at
  <2> DEFINE also == Also(found)
  <2>1. also \subseteq Samples
    BY <1>6
  <2> HIDE DEF also
  <2>2. /\ [step.scan EXCEPT !.samples = @ \cup also] \in Scans(w, from)
        /\ [step.scan EXCEPT !.samples = @ \cup also].at = at
    BY <1>2, <2>1 DEF Scans
  <2> QED
    BY <2>2 DEF also
<1>8. OnFound(step, found) = Stands(found, sampled)
  OBVIOUS
<1> HIDE DEF OnFound, sampled
<1>9. Stands(found, sampled) \in T
  BY <1>5, <1>7, StandsOn
<1> QED
  BY <1>1, <1>8, <1>9

(***************************************************************************)
(* A resolution of n segments: where it stands is in reach of where it     *)
(* stood, and what it misses may be missed from the lowest byte it still   *)
(* needs (resolve.rs resolve_step, min_reachable).                         *)
(***************************************************************************)
\* Shapes of what a resolution notes.
Recordings == [container : Nat, index : Nat, offset : Nat]

ScanShapes == [at : Nat, carry : Carries, depth : Int, index : Nat, samples : SUBSET Samples]

ResolutionShapes(n) ==
  [seg : 0 .. n, start : Nat, kind : Opens \cup {"none"}, scan : ScanShapes \cup {NoScan},
   stride : Nat, record : SUBSET Recordings]

\* Where a resolution of n segments may stand that started at from.
Resolutions(w, from, n) ==
  {state \in ResolutionShapes(n) : /\ MinReachable(state) \in Reach(w, from)
                                   /\ state.seg = n => state.scan = NoScan}

\* What a resolution comes to.
Resolving(w, from, n) ==
  {step \in [result : Answers(Reach(w, from), Missing(w, from)), scan : Resolutions(w, from, n)] :
     step.result \in Answers(Reach(w, from), Missing(w, MinReachable(step.scan)))}

\* What is missed from where a resolution stands is missed from where it
\* started.
LEMMA ResolutionAt ==
  ASSUME NEW w, NEW from, Fits(w, from), NEW n, NEW state \in Resolutions(w, from, n)
  PROVE  /\ MinReachable(state) \in Reach(w, from) /\ Fits(w, MinReachable(state))
         /\ Missing(w, MinReachable(state)) \subseteq Missing(w, from)
         /\ Reach(w, MinReachable(state)) \subseteq Reach(w, from)
<1>1. MinReachable(state) \in Reach(w, from)
  BY DEF Resolutions
<1> QED
  BY <1>1, ReachFacts

\* A resolution that has moved and its answer make a step of it.
LEMMA ResolvingAt ==
  ASSUME NEW w, NEW from, Fits(w, from), NEW n, NEW state \in Resolutions(w, from, n),
         NEW r, r \in Answers(Reach(w, from), Missing(w, MinReachable(state)))
  PROVE  Stands(r, state) \in Resolving(w, from, n)
<1>1. r \in Answers(Reach(w, from), Missing(w, from))
  BY ResolutionAt, AnswersGrow
<1> QED
  BY <1>1 DEF Resolving, Stands

\* A scan is where it is, whatever the window; one in reach is a scan there.
LEMMA ScanShaped ==
  ASSUME NEW w, NEW from
  PROVE  /\ \A scan \in Scans(w, from) : scan \in ScanShapes /\ scan # NoScan
         /\ \A scan \in ScanShapes : scan.at \in Reach(w, from) => scan \in Scans(w, from)
         /\ NoScan \notin ScanShapes
<1>1. NoScan.at = -1 /\ -1 \notin Nat
  BY DEF NoScan
<1>2. \A scan \in Scans(w, from) : scan \in ScanShapes
  BY DEF Scans, ScanShapes, Reach
<1>3. \A scan \in ScanShapes : scan.at \in Nat
  BY DEF ScanShapes
<1>4. \A scan \in ScanShapes : scan.at \in Reach(w, from) => scan \in Scans(w, from)
  BY DEF Scans, ScanShapes
<1> QED
  BY <1>1, <1>2, <1>3, <1>4

\* A resolution takes on a start, a scan, what it has sampled.
LEMMA ResolutionMoves ==
  ASSUME NEW w, NEW from, NEW n \in Nat, NEW state \in Resolutions(w, from, n),
         NEW o \in Reach(w, from)
  PROVE  /\ state.scan = NoScan => [state EXCEPT !.start = o] \in Resolutions(w, from, n)
         /\ \A byte \in Opens, scan \in Scans(w, from) : state.seg < n =>
              [[state EXCEPT !.start = o] EXCEPT !.kind = byte, !.scan = scan] \in Resolutions(w, from, n)
         /\ \A scan \in Scans(w, from) : state.seg < n =>
              [state EXCEPT !.scan = scan] \in Resolutions(w, from, n)
         /\ \A record \in SUBSET Recordings : state.seg < n =>
              [state EXCEPT !.seg = @ + 1, !.start = o, !.scan = NoScan, !.record = record]
                \in Resolutions(w, from, n)
<1> DEFINE here == [state EXCEPT !.start = o]
           R == ResolutionShapes(n)
<1>1. state \in R /\ o \in Nat
  BY DEF Resolutions, Reach
<1>2. here \in R /\ here.seg = state.seg /\ here.start = o /\ here.scan = state.scan
  BY <1>1 DEF ResolutionShapes
<1>3. state.scan = NoScan => here \in Resolutions(w, from, n)
  <2> HIDE DEF here
  <2> QED
    BY <1>2 DEF Resolutions, MinReachable
<1>4. ASSUME NEW scan \in Scans(w, from), state.seg < n
      PROVE  [state EXCEPT !.scan = scan] \in Resolutions(w, from, n)
  <2>1. scan \in ScanShapes /\ scan # NoScan /\ scan.at \in Reach(w, from)
    BY ScanShaped DEF Scans
  <2> DEFINE next == [state EXCEPT !.scan = scan]
  <2>2. next \in R /\ next.scan = scan /\ next.seg = state.seg
    BY <1>1, <2>1 DEF ResolutionShapes
  <2>0. state.seg # n
    BY <1>1, <1>4 DEF ResolutionShapes
  <2> HIDE DEF next
  <2>3. next \in Resolutions(w, from, n)
    BY <2>0, <2>1, <2>2 DEF Resolutions, MinReachable
  <2> QED
    BY <2>3 DEF next
<1>5. ASSUME NEW byte \in Opens, NEW scan \in Scans(w, from), state.seg < n
      PROVE  [here EXCEPT !.kind = byte, !.scan = scan] \in Resolutions(w, from, n)
  <2>1. scan \in ScanShapes /\ scan # NoScan /\ scan.at \in Reach(w, from)
    BY ScanShaped DEF Scans
  <2> DEFINE known == [here EXCEPT !.kind = byte]
             next == [known EXCEPT !.scan = scan]
  <2> HIDE DEF here
  <2>2. known \in R /\ known.seg = state.seg
    BY <1>2 DEF ResolutionShapes
  <2>3. next \in R /\ next.scan = scan /\ next.seg = state.seg
    <3> HIDE DEF known
    <3> QED
      BY <2>1, <2>2 DEF ResolutionShapes
  <2>4. next = [here EXCEPT !.kind = byte, !.scan = scan]
    BY <1>2 DEF ResolutionShapes
  <2>0. state.seg # n
    BY <1>1, <1>5 DEF ResolutionShapes
  <2> HIDE DEF next
  <2>5. next \in Resolutions(w, from, n)
    BY <2>0, <2>1, <2>3 DEF Resolutions, MinReachable
  <2> QED
    BY <2>4, <2>5
<1>6. ASSUME NEW record \in SUBSET Recordings, state.seg < n
      PROVE [state EXCEPT !.seg = @ + 1, !.start = o, !.scan = NoScan, !.record = record]
              \in Resolutions(w, from, n)
  <2> DEFINE further == [state EXCEPT !.seg = state.seg + 1]
             there == [further EXCEPT !.start = o]
             clear == [there EXCEPT !.scan = NoScan]
             next == [clear EXCEPT !.record = record]
  <2>1. state.seg + 1 \in 0 .. n
    BY <1>1, <1>6 DEF ResolutionShapes
  <2>2. further \in R
    BY <1>1, <2>1 DEF ResolutionShapes
  <2>3. there \in R /\ there.start = o
    <3> HIDE DEF further
    <3> QED
      BY <1>1, <2>2 DEF ResolutionShapes
  <2>4. clear \in R /\ clear.start = o /\ clear.scan = NoScan
    <3> HIDE DEF there
    <3> QED
      BY <2>3 DEF ResolutionShapes
  <2>5. next \in R /\ next.start = o /\ next.scan = NoScan
    <3> HIDE DEF clear
    <3> QED
      BY <2>4 DEF ResolutionShapes
  <2>6. next = [state EXCEPT !.seg = @ + 1, !.start = o, !.scan = NoScan, !.record = record]
    BY <1>1 DEF ResolutionShapes
  <2> HIDE DEF next
  <2>7. next \in Resolutions(w, from, n)
    BY <2>5 DEF Resolutions, MinReachable
  <2> QED
    BY <2>6, <2>7
<1> QED
  BY <1>3, <1>4, <1>5, <1>6

\* A container is entered (resolve.rs enter_segment).
LEMMA EnterSegmentSound ==
  ASSUME NEW w, SightOf(w), NEW from, Fits(w, from), NEW n \in Nat,
         NEW state \in Resolutions(w, from, n), state.scan = NoScan, state.seg < n
  PROVE  EnterSegment(w, state) \in Resolving(w, from, n)
<1> DEFINE T == Resolving(w, from, n)
           here(o) == [state EXCEPT !.start = o]
           byte(o) == ByteAt(w, o)
           Byte(o) == CASE byte(o) = "missing" -> Stands(Miss(ChunkOf(o)), here(o))
                        [] byte(o) = "none"    -> Stands(Eof, here(o))
                        [] byte(o) \in Opens   -> Stands(Ok(o), [here(o) EXCEPT !.kind = byte(o),
                                                                   !.scan = ScanFrom(o + 1)])
                        [] OTHER               -> Stands(NotNavigable, here(o))
           OnOpen(r) == IF r.is # "ok" THEN Stands(r, state) ELSE Byte(r.of)
           start == state.start
           open == SkipWhitespace(w, start)
<1>1. EnterSegment(w, state) = OnOpen(open)
  <2>1. EnterSegment(w, state) = CHOOSE x \in {OnOpen(r) : r \in {open}} : TRUE
    BY DEF EnterSegment, Given
  <2> HIDE DEF OnOpen, open
  <2> QED
    BY <2>1
<1>2. MinReachable(state) = start
  BY DEF MinReachable
<1>3. /\ start \in Reach(w, from) /\ Fits(w, start) /\ Reach(w, start) \subseteq Reach(w, from)
  BY <1>2, ResolutionAt
<1>4. open \in Answers(Reach(w, start), Missing(w, start))
  BY <1>3, WhitespaceSound
<1> HIDE DEF open
<1>5. CASE open.is # "ok"
  <2>1. open \in Answers(Reach(w, from), Missing(w, start))
    BY <1>4, <1>5, AnswerOn
  <2>2. Stands(open, state) \in T
    BY <1>2, <2>1, ResolvingAt
  <2> QED
    BY <1>1, <1>5, <2>2
<1>6. CASE open.is = "ok"
  <2> DEFINE o == open.of
  <2>1. o \in Reach(w, from)
    BY <1>3, <1>4, <1>6, AnswerKinds
  <2> HIDE DEF o
  <2>2. o \in Nat /\ Fits(w, o)
    BY <2>1, ReachFacts DEF Reach
  <2>3. here(o) \in Resolutions(w, from, n)
    BY <2>1, ResolutionMoves
  <2>4. MinReachable(here(o)) = o
    <3>1. here(o).scan = state.scan /\ here(o).start = o
      BY DEF Resolutions, ResolutionShapes
    <3> QED
      BY <3>1 DEF MinReachable
  <2>5. EnterSegment(w, state) = Byte(o)
    BY <1>1, <1>6 DEF o
  <2>6. \/ byte(o) \in Bytes /\ o < Len(text) /\ Resident(w, o)
        \/ byte(o) = "none"
        \/ byte(o) = "missing" /\ ~Resident(w, o) /\ ~PastEnd(w, o)
    BY <2>2, ByteSeen
  <2>7. CASE byte(o) = "missing"
    <3>1. Byte(o) = Stands(Miss(ChunkOf(o)), here(o))
      BY <2>7 DEF Opens
    <3>2. ChunkOf(o) \in Missing(w, o)
      <4>1. ~Resident(w, o) /\ ~PastEnd(w, o)
        BY <2>6, <2>7 DEF Bytes
      <4>2. o \in Reach(w, o)
        BY <2>2, ReachFacts
      <4> QED
        BY <4>1, <4>2 DEF Missing, Lacking
    <3> HIDE DEF here
    <3>3. Miss(ChunkOf(o)) \in Answers(Reach(w, from), Missing(w, MinReachable(here(o))))
      BY <2>4, <3>2 DEF Answers
    <3>4. Stands(Miss(ChunkOf(o)), here(o)) \in T
      BY <2>3, <3>3, ResolvingAt
    <3> QED
      BY <2>5, <3>1, <3>4
  <2>8. CASE byte(o) = "none"
    <3>1. Byte(o) = Stands(Eof, here(o))
      BY <2>8 DEF Opens
    <3> HIDE DEF here
    <3>2. Stands(Eof, here(o)) \in T
      BY <2>3, OverAnswers, ResolvingAt
    <3> QED
      BY <2>5, <3>1, <3>2
  <2>9. CASE byte(o) \in Opens
    <3> DEFINE scan == ScanFrom(o + 1)
               entered == [here(o) EXCEPT !.kind = byte(o), !.scan = scan]
    <3>1. Byte(o) = Stands(Ok(o), entered)
      <4>1. byte(o) # "missing" /\ byte(o) # "none"
        BY <2>9 DEF Opens
      <4> QED
        BY <2>9, <4>1
    <3>2. o < Len(text) /\ Resident(w, o)
      BY <2>6, <2>9 DEF Opens
    <3>3. o + 1 \in Reach(w, from)
      BY <2>1, <3>2, ReachNext
    <3>4. scan \in Scans(w, from)
      BY <3>3, ScanFromSound
    <3> DEFINE b == byte(o)
    <3>5. entered \in Resolutions(w, from, n)
      <4>1. b \in Opens
        BY <2>9
      <4> HIDE DEF b, scan
      <4>2. [[state EXCEPT !.start = o] EXCEPT !.kind = b, !.scan = scan] \in Resolutions(w, from, n)
        BY <2>1, <3>4, <4>1, ResolutionMoves
      <4> QED
        BY <4>2 DEF b
    <3> HIDE DEF entered, b, scan
    <3>6. Ok(o) \in Answers(Reach(w, from), Missing(w, MinReachable(entered)))
      BY <2>1, OverAnswers
    <3>7. Stands(Ok(o), entered) \in T
      BY <3>5, <3>6, ResolvingAt
    <3> QED
      BY <2>5, <3>1, <3>7
  <2>10. CASE byte(o) \notin Opens /\ byte(o) # "none" /\ byte(o) # "missing"
    <3>1. Byte(o) = Stands(NotNavigable, here(o))
      BY <2>10
    <3> HIDE DEF here
    <3>2. Stands(NotNavigable, here(o)) \in T
      BY <2>3, OverAnswers, ResolvingAt
    <3> QED
      BY <2>5, <3>1, <3>2
  <2> QED
    BY <2>7, <2>8, <2>9, <2>10
<1> QED
  BY <1>5, <1>6

\* One segment is stepped over (resolve.rs step_segment).
LEMMA StepSegmentSound ==
  ASSUME NEW w, SightOf(w), NEW from, Fits(w, from), NEW n \in Nat,
         NEW state \in Resolutions(w, from, n), state.scan # NoScan, state.seg < n,
         NEW segment \in Segments
  PROVE  StepSegment(w, segment, state) \in Resolving(w, from, n)
<1> DEFINE T == Resolving(w, from, n)
           recordOf(s) == Recorded(state, s.scan.samples)
           OnStep(s) == Stands(s.result,
                          IF s.result.is = "ok"
                          THEN [state EXCEPT !.seg = @ + 1, !.start = s.result.of, !.scan = NoScan,
                                             !.record = recordOf(s)]
                          ELSE [state EXCEPT !.scan = s.scan])
           step == IF state.kind = "["
                   THEN StepArray(w, state.scan, segment.index, state.stride)
                   ELSE StepObject(w, state.scan, segment.name)
<1>1. StepSegment(w, segment, state)
        = IF segment.kind # state.kind THEN Stands(NotNavigable, state) ELSE OnStep(step)
  <2> DEFINE Followed == CHOOSE x \in {OnStep(s) : s \in {step}} : TRUE
  <2>1. StepSegment(w, segment, state)
          = IF segment.kind # state.kind THEN Stands(NotNavigable, state) ELSE Followed
    BY DEF StepSegment, Given
  <2>2. Followed = OnStep(step)
    <3> HIDE DEF OnStep, step
    <3> QED
      OBVIOUS
  <2> HIDE DEF Followed, OnStep
  <2> QED
    BY <2>1, <2>2
<1>2. CASE segment.kind # state.kind
  <2>1. Stands(NotNavigable, state) \in T
    BY OverAnswers, ResolvingAt
  <2> QED
    BY <1>1, <1>2, <2>1
<1>3. CASE segment.kind = state.kind
  <2>1. state.scan \in Scans(w, from) /\ segment.index \in Nat
    <3>1. state.scan \in ScanShapes /\ MinReachable(state) = state.scan.at
      BY DEF Resolutions, ResolutionShapes, MinReachable
    <3> QED
      BY <3>1, ScanShaped DEF Resolutions, Segments
  <2>2. step \in Steps(w, from, Reach(w, from))
    <3>1. StepArray(w, state.scan, segment.index, state.stride) \in Steps(w, from, Reach(w, from))
      BY <2>1, ArraySound
    <3>2. StepObject(w, state.scan, segment.name) \in Steps(w, from, Reach(w, from))
      BY <2>1, ObjectSound
    <3> QED
      BY <3>1, <3>2
  <2> HIDE DEF step
  <2>3. /\ step.scan \in Scans(w, from)
        /\ step.result \in Answers(Reach(w, from), Missing(w, step.scan.at))
    BY <2>2 DEF Steps
  <2>4. CASE step.result.is = "ok"
    <3> DEFINE o == step.result.of
               record == recordOf(step)
               next == [state EXCEPT !.seg = @ + 1, !.start = o, !.scan = NoScan, !.record = record]
    <3>1. o \in Reach(w, from) /\ step.result = Ok(o)
      BY <2>3, <2>4, AnswerKinds
    <3>2. record \in SUBSET Recordings
      <4>1. step.scan.samples \subseteq Samples
        BY <2>3 DEF Scans
      <4>2. state.start \in Nat /\ state.record \subseteq Recordings
        BY DEF Resolutions, ResolutionShapes
      <4> QED
        BY <4>1, <4>2 DEF Recorded, Recordings, Samples
    <3>3. OnStep(step) = Stands(step.result, next)
      BY <2>4
    <3> HIDE DEF o, record
    <3>4. next \in Resolutions(w, from, n)
      BY <3>1, <3>2, ResolutionMoves
    <3> HIDE DEF next, OnStep
    <3>5. step.result \in Answers(Reach(w, from), Missing(w, MinReachable(next)))
      BY <3>1, OverAnswers
    <3>6. Stands(step.result, next) \in T
      BY <3>4, <3>5, ResolvingAt
    <3> QED
      BY <1>1, <1>3, <3>3, <3>6
  <2>5. CASE step.result.is # "ok"
    <3> DEFINE next == [state EXCEPT !.scan = step.scan]
    <3>1. OnStep(step) = Stands(step.result, next)
      BY <2>5
    <3>2. next \in Resolutions(w, from, n) /\ next.scan = step.scan
      <4>1. MinReachable(state) \in Reach(w, from)
        BY DEF Resolutions
      <4>2. next.scan = step.scan
        BY DEF Resolutions, ResolutionShapes
      <4> QED
        BY <2>3, <4>1, <4>2, ResolutionMoves
    <3> HIDE DEF next, OnStep
    <3>3. MinReachable(next) = step.scan.at
      <4>1. step.scan # NoScan
        BY <2>3, ScanShaped
      <4> QED
        BY <3>2, <4>1 DEF MinReachable
    <3>4. Stands(step.result, next) \in T
      BY <2>3, <3>2, <3>3, ResolvingAt
    <3> QED
      BY <1>1, <1>3, <3>1, <3>4
  <2> QED
    BY <2>4, <2>5
<1> QED
  BY <1>2, <1>3

\* One turn: a container is entered, or a segment stepped over.
LEMMA ResolveTurnSound ==
  ASSUME NEW w, SightOf(w), NEW from, Fits(w, from), NEW path \in Seq(Segments),
         NEW state \in Resolutions(w, from, Len(path))
  PROVE  ResolveTurn(w, path, state) \in Resolving(w, from, Len(path))
<1> DEFINE T == Resolving(w, from, Len(path))
           OnStep(s) == IF s.result.is = "ok" THEN Stands(More, s.scan) ELSE s
           step == IF state.scan = NoScan THEN EnterSegment(w, state)
                   ELSE StepSegment(w, path[state.seg + 1], state)
<1>1. ResolveTurn(w, path, state)
        = IF state.seg = Len(path) THEN Stands(Ok(state.start), state) ELSE OnStep(step)
  <2> DEFINE Turn == CHOOSE x \in {OnStep(s) : s \in {step}} : TRUE
  <2>1. ResolveTurn(w, path, state)
          = IF state.seg = Len(path) THEN Stands(Ok(state.start), state) ELSE Turn
    BY DEF ResolveTurn, Given
  <2>2. Turn = OnStep(step)
    <3> HIDE DEF OnStep, step
    <3> QED
      OBVIOUS
  <2> HIDE DEF Turn, OnStep
  <2> QED
    BY <2>1, <2>2
<1>2. Len(path) \in Nat /\ state.seg \in 0 .. Len(path)
  BY DEF Resolutions, ResolutionShapes
<1>3. CASE state.seg = Len(path)
  <2>0. state.start \in Reach(w, from)
    BY <1>3 DEF Resolutions, MinReachable
  <2>1. Ok(state.start) \in Answers(Reach(w, from), Missing(w, MinReachable(state)))
    BY <2>0, OverAnswers
  <2>2. Stands(Ok(state.start), state) \in T
    BY <2>1, ResolvingAt
  <2> QED
    BY <1>1, <1>3, <2>2
<1>4. CASE state.seg # Len(path)
  <2>1. state.seg < Len(path) /\ state.seg + 1 \in 1 .. Len(path)
    BY <1>2, <1>4
  <2>2. path[state.seg + 1] \in Segments
    BY <2>1
  <2>3. step \in T
    <3>1. CASE state.scan = NoScan
      BY <1>2, <2>1, <3>1, EnterSegmentSound
    <3>2. CASE state.scan # NoScan
      BY <1>2, <2>1, <2>2, <3>2, StepSegmentSound
    <3> QED
      BY <3>1, <3>2
  <2> HIDE DEF step
  <2>4. CASE step.result.is = "ok"
    <3>1. step.scan \in Resolutions(w, from, Len(path))
      BY <2>3 DEF Resolving
    <3>2. Stands(More, step.scan) \in T
      BY <3>1, OverAnswers, ResolvingAt
    <3> QED
      BY <1>1, <1>4, <2>4, <3>2
  <2>5. CASE step.result.is # "ok"
    BY <1>1, <1>4, <2>3, <2>5
  <2> QED
    BY <2>4, <2>5
<1> QED
  BY <1>3, <1>4

\* A path is followed, segment by segment (resolve.rs resolve_step).
LEMMA ResolveSound ==
  ASSUME NEW w, SightOf(w), NEW from, Fits(w, from), NEW path \in Seq(Segments),
         NEW state \in Resolutions(w, from, Len(path))
  PROVE  ResolveStep(w, path, state) \in Resolving(w, from, Len(path))
<1> DEFINE S == Resolving(w, from, Len(path))
           most == 2 * Len(path) + 1
           first == Stands(More, state)
           Turn(step) == IF step.result.is = "more" THEN ResolveTurn(w, path, step.scan) ELSE step
           On(step) == CHOOSE r \in {Turn(t) : t \in {step}} : TRUE
           Runs(f) == f = [n \in 0 .. most |-> IF n = 0 THEN first ELSE On(f[n - 1])]
           turn == CHOOSE f : Runs(f)
<1>1. most \in Nat
  <2>1. Len(path) \in Nat
    OBVIOUS
  <2> QED
    BY <2>1
<1>2. first \in S
  BY OverAnswers, ResolvingAt
<1>3. ASSUME NEW step \in S PROVE On(step) \in S
  <2>1. On(step) = Turn(step)
    <3> HIDE DEF Turn
    <3> QED
      OBVIOUS
  <2>2. step.scan \in Resolutions(w, from, Len(path))
    BY DEF Resolving
  <2> QED
    BY <2>1, <2>2, ResolveTurnSound
<1> DEFINE g == [step \in S |-> On(step)]
<1> HIDE DEF S, On, first, most
<1>4. \E f : Runs(f)
  <2>1. g \in [S -> S] /\ \A step \in S : g[step] = On(step)
    BY <1>3
  <2> HIDE DEF g
  <2>2. HasTurns(S, most, first, g)
    BY <1>1, <1>2, <2>1, LoopRuns
  <2>3. PICK f \in [0 .. most -> S] :
          f[0] = first /\ \A n \in 1 .. most : f[n] = g[f[n - 1]]
    BY <2>2 DEF HasTurns
  <2>4. \A n \in 0 .. most : n # 0 => f[n - 1] \in S
    <3>1. \A n \in 0 .. most : n # 0 => n - 1 \in 0 .. most
      BY <1>1
    <3> QED
      BY <3>1
  <2>5. Runs(f)
    BY <2>1, <2>3, <2>4
  <2> QED
    BY <2>5
<1>5. Runs(turn)
  BY <1>4
<1>6. turn[most] \in S
  <2> HIDE DEF turn
  <2>1. turn[0] \in S /\ \A n \in 1 .. most : turn[n] = On(turn[n - 1])
    BY <1>1, <1>2, <1>5
  <2> QED
    BY <1>1, <1>3, <2>1, LoopEnds
<1>7. ResolveStep(w, path, state) = turn[most]
  BY DEF ResolveStep, Loop, Given, On, first, most
<1> QED
  BY <1>6, <1>7 DEF S

(***************************************************************************)
(* A cursor over a container's children (resolve.rs enter_container,       *)
(* cursor.rs next_child).                                                  *)
(***************************************************************************)
\* Where a cursor may stand that started at from.
Cursors(w, from) == [kind : Opens, next : Reach(w, from), index : Nat]

ChildNames == {Name(key) : key \in Keys} \cup {Index(element) : element \in Nat}

\* A child it finds, and the cursor behind it.
Children(w, from) ==
  [segment : ChildNames, start : Reach(w, from), end : Reach(w, from), cursor : Cursors(w, from)]

\* A cursor starts inside the container it enters (resolve.rs
\* enter_container).
LEMMA EnterContainerSound ==
  ASSUME NEW w, SightOf(w), NEW from, Fits(w, from)
  PROVE  EnterContainer(w, from) \in Answers(Cursors(w, from), Missing(w, from))
<1> DEFINE X == Answers(Cursors(w, from), Missing(w, from))
           inside(o, b) == [kind |-> b, next |-> o + 1, index |-> 0]
           Kind(o, b) == CASE b = "none"   -> Eof
                           [] b \in Opens  -> Ok(inside(o, b))
                           [] OTHER        -> NotNavigable
           read(o) == ReadByte(w, o)
           OnByte(o, b) == IF b.is = "ok" THEN Kind(o, b.of) ELSE b
           Byte(o) == CHOOSE x \in {OnByte(o, b) : b \in {read(o)}} : TRUE
           OnOpen(r) == IF r.is = "ok" THEN Byte(r.of) ELSE r
           open == SkipWhitespace(w, from)
<1>1. EnterContainer(w, from) = OnOpen(open)
  <2>1. EnterContainer(w, from) = CHOOSE x \in {OnOpen(r) : r \in {open}} : TRUE
    BY DEF EnterContainer, Then, Given
  <2> HIDE DEF OnOpen, open
  <2> QED
    BY <2>1
<1>2. open \in Answers(Reach(w, from), Missing(w, from))
  BY WhitespaceSound
<1>3. ASSUME NEW o PROVE Byte(o) = OnByte(o, read(o))
  <2> HIDE DEF OnByte, read
  <2> QED
    OBVIOUS
<1> HIDE DEF Byte, open
<1>4. CASE open.is # "ok"
  BY <1>1, <1>2, <1>4, AnswerOn
<1>5. CASE open.is = "ok"
  <2> DEFINE o == open.of
  <2>1. o \in Reach(w, from)
    BY <1>2, <1>5, AnswerKinds
  <2> HIDE DEF o
  <2>2. read(o).is # "ok" => read(o) \in X
    BY <2>1, ReadOn
  <2>3. ASSUME read(o).is = "ok", read(o).of \in Opens PROVE Kind(o, read(o).of) \in X
    <3> DEFINE b == read(o).of
    <3>1. o + 1 \in Reach(w, from) /\ b # "none"
      BY <2>1, <2>3, ReadOn DEF Opens
    <3>2. Kind(o, b) = Ok(inside(o, b))
      <4> b \in Opens
        BY <2>3
      <4> HIDE DEF b
      <4> QED
        BY <3>1
    <3>3. inside(o, b) \in Cursors(w, from)
      BY <2>3, <3>1 DEF Cursors
    <3> HIDE DEF Kind, inside
    <3> QED
      BY <3>2, <3>3, OverAnswers
  <2>4. read(o).is = "ok" => Kind(o, read(o).of) \in X
    <3>1. CASE read(o).of \in Opens
      BY <2>3, <3>1
    <3>2. CASE read(o).of \notin Opens
      <4>1. Kind(o, read(o).of) \in {Eof, NotNavigable}
        BY <3>2
      <4> QED
        BY <4>1, OverAnswers
    <3> QED
      BY <3>1, <3>2
  <2>5. Byte(o) \in X
    BY <1>3, <2>2, <2>4
  <2> QED
    BY <1>1, <1>5, <2>5 DEF o
<1> QED
  BY <1>4, <1>5

\* A child and the cursor behind it.
LEMMA ChildTyped ==
  ASSUME NEW w, NEW from, Fits(w, from), NEW cursor \in Cursors(w, from),
         NEW segment \in ChildNames, NEW start \in Reach(w, from),
         NEW past, past.end \in Reach(w, from), past.next \in Reach(w, from)
  PROVE  ChildOf(cursor, segment, start, past) \in Children(w, from)
<1> DEFINE onto == [cursor EXCEPT !.next = past.next]
<1>1. onto \in Cursors(w, from) /\ onto.index = cursor.index
  BY DEF Cursors
<1>2. [onto EXCEPT !.index = cursor.index + 1] \in Cursors(w, from)
  <2> HIDE DEF onto
  <2>1. cursor.index + 1 \in Nat
    BY DEF Cursors
  <2> QED
    BY <1>1, <2>1 DEF Cursors
<1>3. [cursor EXCEPT !.next = past.next, !.index = @ + 1] \in Cursors(w, from)
  BY <1>2 DEF Cursors
<1> QED
  BY <1>3 DEF ChildOf, Children

\* A value behind `from` is walked over: what is missed is missed from there.
LEMMA PastIn ==
  ASSUME NEW w, SightOf(w), NEW from, Fits(w, from), NEW v \in Reach(w, from),
         NEW close \in {"}", "]"}
  PROVE  AdvancePastValue(w, v, close) \in Answers(Pasts(w, from), Missing(w, from))
<1>1. /\ Fits(w, v) /\ Reach(w, v) \subseteq Reach(w, from)
      /\ Missing(w, v) \subseteq Missing(w, from)
  BY ReachFacts
<1>2. Pasts(w, v) \subseteq Pasts(w, from)
  BY <1>1 DEF Pasts
<1>3. AdvancePastValue(w, v, close) \in Answers(Pasts(w, v), Missing(w, v))
  BY <1>1, AdvanceSound
<1> QED
  BY <1>1, <1>2, <1>3, AnswersGrow

\* A child lies behind the cursor that finds it, and so does the cursor it
\* leaves (cursor.rs next_child).
LEMMA NextChildSound ==
  ASSUME NEW w, SightOf(w), NEW from, Fits(w, from), NEW cursor \in Cursors(w, from),
         cursor.next = from
  PROVE  NextChild(w, cursor) \in Answers(Children(w, from), Missing(w, from))
<1> DEFINE X == Answers(Children(w, from), Missing(w, from))
           past(v, c) == AdvancePastValue(w, v, c)
<1>1. CASE cursor.kind = "{"
  <2> DEFINE OnPast(m, p) == IF p.is = "ok" THEN Ok(ChildOf(cursor, Name(m.key), m.value, p.of)) ELSE p
             Past(m) == CHOOSE x \in {OnPast(m, p) : p \in {past(m.value, "}")}} : TRUE
             OnMember(m) == IF m.is = "ok" THEN Past(m.of) ELSE m
             member == MemberAt(w, from)
  <2>1. NextChild(w, cursor) = OnMember(member)
    <3>1. NextChild(w, cursor) = CHOOSE x \in {OnMember(m) : m \in {member}} : TRUE
      BY <1>1 DEF NextChild, Then, Given
    <3> HIDE DEF OnMember, member
    <3> QED
      BY <3>1
  <2>2. ASSUME NEW m PROVE Past(m) = OnPast(m, past(m.value, "}"))
    <3> HIDE DEF OnPast, past
    <3> QED
      OBVIOUS
  <2>3. member \in Answers(Members(w, from), Missing(w, from))
    BY MemberAtSound
  <2> HIDE DEF Past, member
  <2>4. CASE member.is # "ok"
    BY <2>1, <2>3, <2>4, AnswerOn
  <2>5. CASE member.is = "ok"
    <3> DEFINE m == member.of
    <3>1. m \in Members(w, from)
      BY <2>3, <2>5, AnswerKinds
    <3> HIDE DEF m
    <3>2. m.value \in Reach(w, from) /\ Name(m.key) \in ChildNames
      BY <3>1 DEF Members, ChildNames
    <3> DEFINE p == past(m.value, "}")
    <3>3. p \in Answers(Pasts(w, from), Missing(w, from))
      BY <3>2, PastIn
    <3> HIDE DEF p
    <3>4. OnPast(m, p) \in X
      <4>1. CASE p.is # "ok"
        BY <3>3, <4>1, AnswerOn
      <4>2. CASE p.is = "ok"
        <5>1. p.of \in Pasts(w, from)
          BY <3>3, <4>2, AnswerKinds
        <5>2. p.of.end \in Reach(w, from) /\ p.of.next \in Reach(w, from)
          BY <5>1 DEF Pasts
        <5>3. ChildOf(cursor, Name(m.key), m.value, p.of) \in Children(w, from)
          BY <3>2, <5>2, ChildTyped
        <5> QED
          BY <4>2, <5>3, OverAnswers
      <4> QED
        BY <4>1, <4>2
    <3> QED
      BY <2>1, <2>2, <2>5, <3>4 DEF m, p
  <2> QED
    BY <2>4, <2>5
<1>2. CASE cursor.kind # "{"
  <2> DEFINE OnPast(s, p) == IF p.is = "ok" THEN Ok(ChildOf(cursor, Index(cursor.index), s, p.of)) ELSE p
             Past(s) == CHOOSE x \in {OnPast(s, p) : p \in {past(s, "]")}} : TRUE
             OnStart(s) == IF s.is = "ok" THEN Past(s.of) ELSE s
             start == ElementAt(w, from)
  <2>1. NextChild(w, cursor) = OnStart(start)
    <3>1. NextChild(w, cursor) = CHOOSE x \in {OnStart(s) : s \in {start}} : TRUE
      BY <1>2 DEF NextChild, Then, Given
    <3> HIDE DEF OnStart, start
    <3> QED
      BY <3>1
  <2>2. ASSUME NEW s PROVE Past(s) = OnPast(s, past(s, "]"))
    <3> HIDE DEF OnPast, past
    <3> QED
      OBVIOUS
  <2>3. start \in Answers(Reach(w, from), Missing(w, from))
    BY ElementAtSound
  <2> HIDE DEF Past, start
  <2>4. CASE start.is # "ok"
    BY <2>1, <2>3, <2>4, AnswerOn
  <2>5. CASE start.is = "ok"
    <3> DEFINE s == start.of
    <3>1. s \in Reach(w, from)
      BY <2>3, <2>5, AnswerKinds
    <3> HIDE DEF s
    <3>2. Index(cursor.index) \in ChildNames
      BY DEF Cursors, ChildNames
    <3> DEFINE p == past(s, "]")
    <3>3. p \in Answers(Pasts(w, from), Missing(w, from))
      BY <3>1, PastIn
    <3> HIDE DEF p
    <3>4. OnPast(s, p) \in X
      <4>1. CASE p.is # "ok"
        BY <3>3, <4>1, AnswerOn
      <4>2. CASE p.is = "ok"
        <5>1. p.of \in Pasts(w, from)
          BY <3>3, <4>2, AnswerKinds
        <5>2. p.of.end \in Reach(w, from) /\ p.of.next \in Reach(w, from)
          BY <5>1 DEF Pasts
        <5>3. ChildOf(cursor, Index(cursor.index), s, p.of) \in Children(w, from)
          BY <3>1, <3>2, <5>2, ChildTyped
        <5> QED
          BY <4>2, <5>3, OverAnswers
      <4> QED
        BY <4>1, <4>2
    <3> QED
      BY <2>1, <2>2, <2>5, <3>4 DEF s, p
  <2> QED
    BY <2>4, <2>5
<1> QED
  BY <1>1, <1>2
===============================================================================
