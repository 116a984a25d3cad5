---------------------------- MODULE OrderedReads ----------------------------
(***************************************************************************)
(* What the engine may expect of a forward source's reader: reads are      *)
(* answered one by one in the order they were asked, each with bytes of    *)
(* the source from its offset on.  A byte is named by its offset.          *)
(***************************************************************************)
EXTENDS Integers, Sequences

CONSTANTS Size,      \* bytes the source holds
          Offsets,   \* where a read may start
          Lengths    \* bytes one read may ask for

ASSUME OrderedReadsAssumption ==
  /\ Size \in Nat
  /\ Offsets \subseteq Nat
  /\ Lengths \subseteq Nat \ {0}

VARIABLES rewind,   \* what a read in front of the pass does
          asked,    \* reads asked and not answered, in order
          reach,    \* one past the last byte an answered read had asked for
          answer,   \* the answer given last
          closed    \* whether the reader was closed

orderedVars == <<rewind, asked, reach, answer, closed>>

Requests == [offset : Offsets, length : Lengths]

NoAnswer == [is |-> "none"]
Failed   == [is |-> "failed"]    \* the stream, or getting it, failed
Refused  == [is |-> "refused"]   \* ForwardReplayError

ReadResult(data, eof) == [is |-> "read", data |-> data, eof |-> eof]

Bytes(offset, n) == [i \in 0 .. n - 1 |-> offset + i]

Farther(m, n) == IF m < n THEN n ELSE m

\* What a read may be answered with.  A read returns fewer bytes than asked only
\* at the end, and reports the end only there; a reader that was closed under
\* the read may break off anywhere.  Only a single pass refuses a read, and only
\* one that goes back to bytes an earlier read has asked for.
Truthful(request, result) ==
  \/ result = Failed
  \/ result = Refused /\ rewind = "forbid" /\ request.offset < reach
  \/ \E n \in 0 .. request.length, eof \in BOOLEAN :
       /\ result = ReadResult(Bytes(request.offset, n), eof)
       /\ n > 0 => request.offset + n <= Size
       /\ ~closed => /\ n = request.length \/ eof
                     /\ eof => request.offset + n >= Size

Ask ==
  /\ \E request \in Requests : asked' = Append(asked, request)
  /\ UNCHANGED <<rewind, reach, answer, closed>>

Answer ==
  /\ asked # <<>>
  /\ Truthful(Head(asked), answer')
  /\ asked' = Tail(asked)
  /\ reach' = Farther(reach, Head(asked).offset + Head(asked).length)
  /\ UNCHANGED <<rewind, closed>>

Close == closed' = TRUE /\ UNCHANGED <<rewind, asked, reach, answer>>

OrderedInit ==
  /\ rewind \in {"forbid", "replay", "buffer"}
  /\ asked = <<>>
  /\ reach = 0
  /\ answer = NoAnswer
  /\ closed = FALSE

OrderedNext == Ask \/ Answer \/ Close

OrderedSpec == OrderedInit /\ [][OrderedNext]_orderedVars
=============================================================================
