-------------------------------- MODULE Drive --------------------------------
(***************************************************************************)
(* What a query's window holds and how it is filled: chunks.rs             *)
(* (ChunkWindow, ChunkReader::read_chunks), the retry loop Session::drive  *)
(* of session.rs and the read of source.rs.  What the walker does with the *)
(* window between two faults is left open here; Scan fills it in.          *)
(*                                                                         *)
(* A chunk is named by its number: chunk c starts at byte c * ChunkBytes.  *)
(* The bytes themselves are those of `text`, so of a resident chunk only   *)
(* its length is kept.                                                     *)
(***************************************************************************)
EXTENDS Integers, Sequences

CONSTANTS Texts,        \* the texts a source may hold, sequences of bytes
          ChunkBytes,   \* bytes of a chunk
          MaxPerRead,   \* chunks one coalesced read may span (MAX_COALESCED_READ_BYTES)
          ChunkIds,     \* the chunk numbers a query may name
          Unsized,      \* the size of a source that does not know its own
          SizedSource,  \* whether the source may, and whether it must not,
          ForwardSource,\*   declare its size
          Overstated,   \* bytes by which a declared size exceeds the text
          ShortReads    \* whether a read in mid-text may return less than asked

ASSUME DriveAssumption ==
  /\ \A t \in Texts : Len(t) \in Nat
  /\ ChunkBytes \in Nat \ {0}
  /\ MaxPerRead \in Nat \ {0}
  /\ ChunkIds \subseteq Nat
  /\ Unsized \notin Nat
  /\ Overstated \in Nat
  /\ SizedSource \in BOOLEAN /\ ForwardSource \in BOOLEAN /\ ShortReads \in BOOLEAN

VARIABLES text,       \* the source's bytes
          declared,   \* the size the source was opened with
          window,     \* the window: its known size and, per resident chunk, its length
          run,        \* the read_chunks call under way
          lastRead    \* chunk the query's last source read started at

driveVars == <<text, declared, window, run, lastRead>>

NoRun == [cur |-> 0, stop |-> 0, out |-> [c \in {} |-> 0]]

Least(m, n) == IF m < n THEN m ELSE n

ChunkOf(offset) == offset \div ChunkBytes
-----------------------------------------------------------------------------
(* The window *)

NewWindow == [size |-> declared, chunks |-> [c \in {} |-> 0]]

Cleared(w) == [w EXCEPT !.chunks = [c \in {} |-> 0]]

\* mutant: nothing is dropped.
DropBelowNothing(w, floor) == w

\* `floor` is the chunk of the lowest offset the scan may still read.
DropBelow(w, floor) ==
  [w EXCEPT !.chunks = [c \in {d \in DOMAIN w.chunks : d >= floor} |-> w.chunks[c]]]

Inserted(chunks, out) ==
  [c \in DOMAIN chunks \cup DOMAIN out |->
     IF c \in DOMAIN out THEN out[c] ELSE chunks[c]]

\* The first size that is learned stays.
SetSourceSize(w, end) == IF w.size = Unsized THEN [w EXCEPT !.size = end] ELSE w

\* mutant: the first offset behind the end is taken for data.
PastEndLate(w, offset) == w.size # Unsized /\ offset > w.size

PastEnd(w, offset) == w.size # Unsized /\ offset >= w.size

\* mutant: the chunk the next child starts in is let go.
PruneWindowBehind(w, next) ==
  IF PastEnd(w, next) THEN Cleared(w) ELSE DropBelow(w, ChunkOf(next) + 1)

PruneWindow(w, next) ==
  IF PastEnd(w, next) THEN Cleared(w) ELSE DropBelow(w, ChunkOf(next))
-----------------------------------------------------------------------------
(* The source: what read(offset, length) may resolve to *)

Outcomes(offset, length) ==
  LET full == IF offset < Len(text) THEN Least(length, Len(text) - offset) ELSE 0
  IN  {[got |-> full, eof |-> eof] :
         eof \in IF full < length THEN {TRUE}
                 ELSE IF offset + full = Len(text) THEN BOOLEAN ELSE {FALSE}}
      \cup {[got |-> n, eof |-> FALSE] : n \in IF ShortReads THEN 1 .. full - 1 ELSE {}}
-----------------------------------------------------------------------------
(* read_chunks: ascending reads of at most MaxPerRead chunks, each split back *)
(* into chunks, until the span is read or the source reports its end.         *)

RunEnd(r) == Least(r.cur + MaxPerRead, r.stop)

\* mutant: the last chunk is taken to be as long as the others.
SplitPadded(r, got) ==
  [c \in {d \in r.cur .. RunEnd(r) - 1 : (d - r.cur) * ChunkBytes < got} |-> ChunkBytes]

Split(r, got) ==
  [c \in {d \in r.cur .. RunEnd(r) - 1 : (d - r.cur) * ChunkBytes < got} |->
     Least(ChunkBytes, got - (c - r.cur) * ChunkBytes)]

\* mutant: the chunks of the last read are not taken in.
FilledButLast(w, out, end) ==
  IF end = Unsized THEN [w EXCEPT !.chunks = Inserted(w.chunks, out)]
  ELSE SetSourceSize(w, end)

Filled(w, out, end) ==
  LET held == [w EXCEPT !.chunks = Inserted(w.chunks, out)]
  IN  IF end = Unsized THEN held ELSE SetSourceSize(held, end)

\* The walker misses chunk c: what lies below its floor is dropped and n chunks
\* are asked for.
Fault(c, n, floor) ==
  /\ run = NoRun
  /\ window' = DropBelow(window, floor)
  /\ run' = [cur |-> c, stop |-> c + n, out |-> [d \in {} |-> 0]]
  /\ UNCHANGED <<text, declared, lastRead>>

\* One read of the source returns.
Receive ==
  /\ run # NoRun
  /\ \E o \in Outcomes(run.cur * ChunkBytes, (RunEnd(run) - run.cur) * ChunkBytes) :
       LET out == Inserted(run.out, Split(run, o.got))
           end == IF o.eof THEN run.cur * ChunkBytes + o.got ELSE Unsized
       IN  IF o.eof \/ RunEnd(run) = run.stop
           THEN window' = Filled(window, out, end) /\ run' = NoRun
           ELSE run' = [run EXCEPT !.cur = RunEnd(run), !.out = out] /\ UNCHANGED window
  /\ lastRead' = run.cur
  /\ UNCHANGED <<text, declared>>

\* A read is rejected, or returns nothing without reporting the end: the whole
\* read_chunks call fails, and what it had read is dropped.
Reject ==
  /\ run # NoRun
  /\ run' = NoRun
  /\ lastRead' = run.cur
  /\ UNCHANGED <<text, declared, window>>

\* A stream of children prunes its window between reads.
Prune(floor) ==
  /\ run = NoRun
  /\ window' = DropBelow(window, floor)
  /\ UNCHANGED <<text, declared, run, lastRead>>

CloseWindow ==
  /\ run = NoRun
  /\ window' = Cleared(window)
  /\ UNCHANGED <<text, declared, run, lastRead>>

\* Every query opens a window of its own.
OpenWindow ==
  /\ run = NoRun
  /\ window' = NewWindow
  /\ lastRead' = 0
  /\ UNCHANGED <<text, declared, run>>
-----------------------------------------------------------------------------
Sizes(t) == (IF SizedSource THEN {Len(t) + Overstated} ELSE {})
            \cup (IF ForwardSource THEN {Unsized} ELSE {})

DriveInit ==
  /\ text \in Texts
  /\ declared \in Sizes(text)
  /\ window = NewWindow
  /\ run = NoRun
  /\ lastRead = 0

\* What a walker owes the window: it misses no chunk that is resident, none
\* behind a known end, and, while the end is unknown, none behind the chunk in
\* which the source must report it.
Askable(c) ==
  /\ c \notin DOMAIN window.chunks
  /\ IF window.size = Unsized
     THEN c * ChunkBytes <= Len(text)
     ELSE c * ChunkBytes < window.size

DriveNext ==
  \/ \E c, floor \in ChunkIds, n \in ChunkIds \ {0} : Askable(c) /\ Fault(c, n, floor)
  \/ Receive
  \/ Reject
  \/ \E floor \in ChunkIds : Prune(floor)
  \/ OpenWindow
  \/ CloseWindow

DriveSpec == DriveInit /\ [][DriveNext]_driveVars
-----------------------------------------------------------------------------
(* Properties *)

HonestSource == ~ShortReads /\ Overstated = 0

\* Through the window the walker sees the text and nothing else: a resident
\* chunk is as long as the text allows, so that its end is taken for the end of
\* the data only where the text ends, and a size that is known is the text's
\* (chunks.rs ChunkWindow, session.rs drive).
WindowIsSource ==
  /\ \A c \in DOMAIN window.chunks :
       /\ c * ChunkBytes < Len(text)
       /\ window.chunks[c] = Least(ChunkBytes, Len(text) - c * ChunkBytes)
  /\ window.size \in {Unsized, Len(text)}
=============================================================================
