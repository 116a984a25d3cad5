---------------------------- MODULE ForwardReader ---------------------------
(***************************************************************************)
(* makeForwardReader of core/src/source/forward.ts: the reader over a      *)
(* stream that can only be read on.  Reads queue up behind one another;    *)
(* the read under way goes from one await to the next; close is not queued *)
(* and may come between any two of its steps.                              *)
(*                                                                         *)
(* A byte is named by its offset, so a run of bytes is an interval.  The   *)
(* stream yields the source's bytes in runs of any length, empty ones too, *)
(* and the same bytes on every pass.                                       *)
(***************************************************************************)
EXTENDS OrderedReads

CONSTANTS MaxRun,      \* bytes of the longest run a stream yields
          MaxQueued    \* reads that may wait

ASSUME ForwardAssumption == MaxRun \in Nat \ {0} /\ MaxQueued \in Nat \ {0}

VARIABLES pass,       \* the stream: whether `reader` holds it, its place, its health
          pos,        \* bytes consumed from the pass
          leftover,   \* tail of the last run, not yet served
          done,       \* whether the pass is drained
          snapshot,   \* whether the whole stream is in memory
          reading     \* the read under way

readerVars == <<pass, pos, leftover, done, snapshot, reading>>
vars == <<orderedVars, readerVars>>

Run(from, to) == [from |-> from, to |-> to]
Nothing       == Run(0, 0)   \* no leftover: a leftover is never empty

\* at: where the read waits - for its turn, for release, for the producer, for
\* the next run, for the stream, for the drain.
NoRead == [at |-> "turn", got |-> 0, data |-> [i \in {} |-> 0]]

NewPass    == [held |-> TRUE, at |-> 0, cancelled |-> FALSE, broken |-> FALSE]
Request    == Head(asked)
Working(w) == reading.at = w

Waiting(where) == reading' = [reading EXCEPT !.at = where]

\* The read settles; the one behind it is next, whether it failed or not.
Settle(result) ==
  /\ asked'   = Tail(asked)
  /\ answer'  = result
  /\ reach'   = Farther(reach, Request.offset + Request.length)
  /\ reading' = NoRead
  /\ UNCHANGED <<rewind, closed>>

Returned(eof) == Settle(ReadResult(reading.data, eof))

Unanswered == UNCHANGED orderedVars
-----------------------------------------------------------------------------
(* acquire and release *)

\* mutant: the last pass's leftover is kept.
AcquiredKeeping ==
  /\ pass' = NewPass
  /\ pos' = 0
  /\ done' = FALSE
  /\ UNCHANGED <<leftover, snapshot>>

\* A fresh stream; its bookkeeping starts anew.
Acquired ==
  /\ pass' = NewPass
  /\ pos' = 0
  /\ leftover' = Nothing
  /\ done' = FALSE
  /\ UNCHANGED snapshot

\* The reader is let go of before its stream is cancelled.
Released == pass' = [pass EXCEPT !.held = FALSE, !.cancelled = TRUE]

Acquire ==
  /\ Working("producer")
  /\ Acquired
  /\ Waiting("run")
  /\ Unanswered

AcquireFails ==
  /\ Working("producer")
  /\ Settle(Failed)
  /\ UNCHANGED <<pass, pos, leftover, done, snapshot>>

\* The stream behind a read that goes back is cancelled.
ReleaseDone ==
  /\ Working("release")
  /\ Waiting("producer")
  /\ UNCHANGED <<pass, pos, leftover, done, snapshot>>
  /\ Unanswered

\* close: not queued behind the reads.
CloseReader ==
  /\ ~closed
  /\ closed' = TRUE
  /\ Released
  /\ UNCHANGED <<rewind, asked, reach, answer>>
  /\ UNCHANGED <<pos, leftover, done, snapshot, reading>>
-----------------------------------------------------------------------------
(* read: queueing, and what the read whose turn it is does first *)

Read ==
  /\ Len(asked) < MaxQueued
  /\ Ask
  /\ UNCHANGED readerVars

\* mutant: the place of the pass itself is taken to be behind it.
BehindThePassToo == Request.offset <= pos

BehindThePass == Request.offset < pos

Begin ==
  /\ Working("turn")
  /\ asked # <<>>
  /\ rewind # "buffer"
  /\ UNCHANGED <<pos, leftover, done, snapshot>>
  /\ \/ /\ BehindThePass /\ rewind # "replay"
        /\ Settle(Refused)
        /\ UNCHANGED pass
     \/ /\ BehindThePass /\ rewind = "replay"
        /\ Released
        /\ Waiting("release")
        /\ Unanswered
     \/ /\ ~BehindThePass
        /\ Waiting(IF pass.held \/ done THEN "run" ELSE "producer")
        /\ UNCHANGED pass
        /\ Unanswered
-----------------------------------------------------------------------------
(* pull, and the two loops of readForward *)

Skipping == pos < Request.offset

Taken(run) == IF run.to - run.from < Request.length - reading.got
              THEN run.to - run.from ELSE Request.length - reading.got

\* mutant: a run that is used up leaves an empty leftover.
RestEmpty(run, n) == Run(run.from + n, run.to)

Rest(run, n) == IF n < run.to - run.from THEN Run(run.from + n, run.to) ELSE Nothing

\* The run is skipped as far as it lies in front of the offset.
Skip(run) ==
  LET n == IF run.to - run.from <= Request.offset - pos
           THEN run.to - run.from ELSE Request.offset - pos
  IN  /\ pos' = pos + n
      /\ leftover' = Rest(run, n)
      /\ Waiting("run")
      /\ Unanswered

\* The read's share of the run; the read is over when it has what it asked for.
Take(run) ==
  LET n    == Taken(run)
      data == [i \in 0 .. reading.got + n - 1 |->
                 IF i < reading.got THEN reading.data[i] ELSE run.from + i - reading.got]
  IN  /\ pos' = pos + n
      /\ leftover' = Rest(run, n)
      /\ IF reading.got + n = Request.length
         THEN Settle(ReadResult(data, done /\ leftover' = Nothing))
         ELSE /\ reading' = [at |-> "run", got |-> reading.got + n, data |-> data]
              /\ Unanswered

Consume(run) == IF Skipping THEN Skip(run) ELSE Take(run)

PullLeftover ==
  /\ Working("run")
  /\ leftover # Nothing
  /\ Consume(leftover)
  /\ UNCHANGED <<pass, done, snapshot>>

PullStream ==
  /\ Working("run")
  /\ leftover = Nothing
  /\ pass.held /\ ~done
  /\ Waiting("stream")
  /\ UNCHANGED <<pass, pos, leftover, done, snapshot>>
  /\ Unanswered

\* mutant: the loops break at the end of the stream only.
PullNothingAtEnd ==
  /\ Working("run")
  /\ leftover = Nothing
  /\ done \/ ~pass.held
  /\ IF done THEN Returned(TRUE) ELSE Waiting("run") /\ Unanswered
  /\ UNCHANGED <<pass, pos, leftover, done, snapshot>>

\* No run left, or no stream: both loops break.
PullNothing ==
  /\ Working("run")
  /\ leftover = Nothing
  /\ done \/ ~pass.held
  /\ Returned(done)
  /\ UNCHANGED <<pass, pos, leftover, done, snapshot>>

Alive == ~pass.cancelled /\ ~pass.broken

StreamYields(n) ==
  /\ Working("stream")
  /\ Alive
  /\ pass.at + n <= Size
  /\ pass' = [pass EXCEPT !.at = @ + n]
  /\ Consume(Run(pass.at, pass.at + n))
  /\ UNCHANGED <<done, snapshot>>

\* At its end, and when it was cancelled, a stream has no more to yield.
StreamEnds ==
  /\ Working("stream")
  /\ pass.cancelled \/ (Alive /\ pass.at = Size)
  /\ done' = TRUE
  /\ Returned(TRUE)
  /\ UNCHANGED <<pass, pos, leftover, snapshot>>

\* What the read had taken is lost with it; a broken stream stays broken.
StreamFails ==
  /\ Working("stream")
  /\ ~pass.cancelled
  /\ pass' = [pass EXCEPT !.broken = TRUE]
  /\ Settle(Failed)
  /\ UNCHANGED <<pos, leftover, done, snapshot>>
-----------------------------------------------------------------------------
(* rewind = "buffer": the stream is drained once, reads are served from memory *)

BeginBuffered ==
  /\ Working("turn")
  /\ asked # <<>>
  /\ rewind = "buffer"
  /\ Waiting("drain")
  /\ UNCHANGED <<pass, pos, leftover, done, snapshot>>
  /\ Unanswered

\* drainAll: its stream is its own, close does not reach it.
ServeSnapshot ==
  /\ Working("drain")
  /\ snapshot' = TRUE
  /\ LET rest == IF Request.offset < Size THEN Size - Request.offset ELSE 0
         n    == IF Request.length < rest THEN Request.length ELSE rest
     IN  Settle(ReadResult(Bytes(Request.offset, n), n = rest))
  /\ UNCHANGED <<pass, pos, leftover, done>>

\* A drain that fails leaves no snapshot; the next read drains again.
DrainFails ==
  /\ Working("drain")
  /\ ~snapshot
  /\ Settle(Failed)
  /\ UNCHANGED <<pass, pos, leftover, done, snapshot>>
-----------------------------------------------------------------------------
\* open() acquires the first pass, except for a buffered reader.
Init ==
  /\ OrderedInit
  /\ pass = [NewPass EXCEPT !.held = rewind # "buffer"]
  /\ pos = 0
  /\ leftover = Nothing
  /\ done = FALSE
  /\ snapshot = FALSE
  /\ reading = NoRead

\* The steps of a read that do not wait for the stream.
Onward == \/ Begin \/ ReleaseDone \/ Acquire \/ AcquireFails
          \/ PullLeftover \/ PullStream \/ PullNothing
          \/ BeginBuffered \/ ServeSnapshot \/ DrainFails

Streamed == \/ \E n \in 1 .. MaxRun : StreamYields(n)
            \/ StreamEnds
            \/ StreamFails

Next == Read \/ CloseReader \/ Onward \/ Streamed \/ StreamYields(0)

Spec == Init /\ [][Next]_vars

\* The event loop runs what can run; the producer and the drain settle; a stream
\* does not yield empty runs for ever.
FairSpec == Spec /\ WF_vars(Onward) /\ SF_vars(Streamed)
-----------------------------------------------------------------------------
(* Properties *)

\* Runs lie in the source, the read under way is one of those asked, and a
\* leftover is not empty (forward.ts makeForwardReader).
TypeOK ==
  /\ pos \in 0 .. Size
  /\ pass.at \in 0 .. Size
  /\ leftover # Nothing => 0 <= leftover.from /\ leftover.from < leftover.to
  /\ ~Working("turn") => asked # <<>> /\ reading.got \in 0 .. Request.length
  /\ Len(asked) <= MaxQueued

\* What is consumed and what is left over add up to what the stream yielded, and
\* what a read has taken so far ends where the pass stands: through releases,
\* failures and a close in the middle, no byte is lost or served twice
\* (forward.ts pull, readForward).
PositionKept ==
  /\ pass.at = IF leftover = Nothing THEN pos ELSE leftover.to
  /\ leftover # Nothing => leftover.from = pos
  /\ reading.got > 0 => pos = Request.offset + reading.got

\* Reads are answered in order, each with the source's bytes at its offset, and
\* a client that never goes back is never refused (forward.ts read).
ImplementsReads == OrderedSpec

\* As long as reads wait, one settles again and again: none waits for ever, also
\* behind one that failed, and also after close (forward.ts read, chain).
EveryReadSettles ==
  []<>(asked = <<>>) \/ []<><<asked # <<>> /\ asked' = Tail(asked)>>_vars
=============================================================================
