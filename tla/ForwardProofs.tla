---------------------------- MODULE ForwardProofs ---------------------------
(***************************************************************************)
(* For every source, every set of reads and every way its stream cuts it   *)
(* into runs: the forward reader keeps its place (PositionKept) and        *)
(* answers as OrderedReads allows (ImplementsReads).                       *)
(***************************************************************************)
EXTENDS ForwardReader, TLAPS, SequenceTheorems

Places == {"turn", "release", "producer", "run", "stream", "drain"}

\* The shapes of the variables.
Shaped ==
  /\ rewind \in {"forbid", "replay", "buffer"}
  /\ asked \in Seq(Requests)
  /\ reach \in Nat
  /\ closed \in BOOLEAN
  /\ pass \in [held : BOOLEAN, at : Nat, cancelled : BOOLEAN, broken : BOOLEAN]
  /\ pos \in Nat
  /\ leftover \in [from : Nat, to : Nat]
  /\ done \in BOOLEAN
  /\ snapshot \in BOOLEAN
  /\ reading = [at |-> reading.at, got |-> reading.got, data |-> reading.data]
  /\ reading.at \in Places
  /\ reading.got \in Nat

\* The pass lies in the source, its bookkeeping adds up, and it is known to be
\* drained only at its end.
PassKept ==
  /\ pass.at <= Size
  /\ leftover # Nothing => leftover.from = pos /\ pos < leftover.to /\ pass.at = leftover.to
  /\ leftover = Nothing => pass.at = pos
  /\ pass.held => ~pass.cancelled
  /\ done /\ ~closed => pass.at = Size

Pulling == reading.at \in {"run", "stream"}

\* A read has taken the bytes from its offset to the pass's place, or, before
\* it has taken any, the pass has not come farther than its offset.
ReadingKept ==
  /\ reading.at = "turn" => reading = NoRead
  /\ reading.at # "turn" =>
       /\ asked # <<>>
       /\ reading.got < Request.length
       /\ reading.data = Bytes(Request.offset, reading.got)
  /\ ~Pulling => reading.got = 0
  /\ Pulling =>
       /\ pos <= Request.offset + reading.got
       /\ reading.got > 0 => pos = Request.offset + reading.got
       /\ ~closed => pass.held \/ done
  /\ reading.at = "stream" => ~done /\ leftover = Nothing

\* The pass never gets beyond what was asked for.
ReachKept == ~Pulling => pos <= reach

Kept == Shaped /\ PassKept /\ ReadingKept /\ ReachKept
-----------------------------------------------------------------------------
\* The read whose turn it is has an offset and a length (forward.ts read).
LEMMA HeadRequest ==
  ASSUME asked \in Seq(Requests), asked # <<>>
  PROVE  /\ Request \in Requests
         /\ Request.offset \in Nat
         /\ Request.length \in Nat \ {0}
         /\ Tail(asked) \in Seq(Requests)
<1>1. Request \in Requests /\ Tail(asked) \in Seq(Requests)
  BY HeadTailProperties DEF Request
<1>2. QED
  BY <1>1, OrderedReadsAssumption DEF Requests

\* A read that has taken nothing has the empty run of its offset
\* (forward.ts readForward).
LEMMA NothingTaken ==
  ASSUME NEW offset \in Nat
  PROVE  NoRead.data = Bytes(offset, 0)
BY DEF NoRead, Bytes

\* A truthful answer to the read whose turn it is is a step of the
\* specification (forward.ts read).
LEMMA SettleAnswers ==
  ASSUME NEW result, Settle(result), asked # <<>>, Truthful(Request, result)
  PROVE  Answer
BY DEF Settle, Answer, Request

\* The initial states are kept (forward.ts makeForwardReader).
LEMMA InitKept == Init => Kept
<1> SUFFICES ASSUME Init PROVE Kept
  OBVIOUS
<1> USE DEF Init, OrderedInit, Nothing, Run, NewPass, NoRead
<1>1. Shaped
  <2>1. reading = [at |-> reading.at, got |-> reading.got, data |-> reading.data]
    OBVIOUS
  <2>2. pass \in [held : BOOLEAN, at : Nat, cancelled : BOOLEAN, broken : BOOLEAN]
    <3>1. (rewind # "buffer") \in BOOLEAN
      OBVIOUS
    <3>2. QED
      BY <3>1
  <2>3. asked \in Seq(Requests) /\ leftover \in [from : Nat, to : Nat]
    OBVIOUS
  <2>4. QED
    BY <2>1, <2>2, <2>3 DEF Shaped, Places
<1>2. PassKept
  BY OrderedReadsAssumption DEF PassKept
<1>3. ReadingKept /\ ReachKept
  BY DEF ReadingKept, ReachKept, Pulling
<1>4. QED
  BY <1>1, <1>2, <1>3 DEF Kept
-----------------------------------------------------------------------------
\* What is left of a run lies behind what was taken of it (forward.ts pull).
LEMMA RestBehind ==
  ASSUME NEW run \in [from : Nat, to : Nat], run.from <= run.to,
         NEW n \in 0 .. run.to - run.from
  PROVE  /\ Rest(run, n) \in [from : Nat, to : Nat]
         /\ Rest(run, n) = Nothing => run.from + n = run.to
         /\ Rest(run, n) # Nothing => /\ Rest(run, n).from = run.from + n
                                      /\ Rest(run, n).to = run.to
                                      /\ run.from + n < run.to
BY DEF Rest, Run, Nothing

\* A run that begins where the pass stands is skipped up to the offset
\* (forward.ts readForward, first loop).
LEMMA SkipKept ==
  ASSUME Kept, Pulling, Skipping,
         NEW run \in [from : Nat, to : Nat], run.from = pos, pos <= run.to,
         pass' \in [held : BOOLEAN, at : Nat, cancelled : BOOLEAN, broken : BOOLEAN],
         pass'.at = run.to, pass'.at <= Size,
         pass'.held = pass.held, pass'.cancelled = pass.cancelled,
         done /\ ~closed => pass'.at = Size,
         UNCHANGED <<done, snapshot>>,
         Skip(run)
  PROVE  Kept' /\ UNCHANGED orderedVars
<1> DEFINE n == IF run.to - run.from <= Request.offset - pos
                THEN run.to - run.from ELSE Request.offset - pos
<1>1. UNCHANGED orderedVars
  BY DEF Skip, Unanswered
<1>2. /\ asked \in Seq(Requests) /\ asked # <<>>
      /\ Request.offset \in Nat /\ Request.length \in Nat \ {0}
      /\ pos \in Nat /\ reading.got \in Nat
  BY HeadRequest DEF Kept, Shaped, ReadingKept, Pulling
<1>3. reading.got = 0
  BY <1>2 DEF Skipping, Kept, ReadingKept, Pulling
<1>4. n \in 0 .. run.to - run.from /\ pos + n <= Request.offset
  BY <1>2 DEF Skipping
<1>5. pos' = pos + n /\ leftover' = Rest(run, n) /\ Waiting("run")
  BY DEF Skip
<1>6. UNCHANGED <<rewind, asked, reach, answer, closed, Request>>
  BY <1>1 DEF orderedVars, Request
<1>7. reading' = [at |-> "run", got |-> 0, data |-> reading.data]
  BY <1>3, <1>5 DEF Waiting, Kept, Shaped
<1>8. Shaped'
  <2>1. pos' \in Nat /\ leftover' \in [from : Nat, to : Nat]
    BY <1>2, <1>4, <1>5, RestBehind
  <2>2. reading' = [at |-> reading'.at, got |-> reading'.got, data |-> reading'.data]
        /\ reading'.at \in Places /\ reading'.got \in Nat
    BY <1>7 DEF Places
  <2>3. QED
    BY <1>6, <2>1, <2>2 DEF Kept, Shaped
<1>9. PassKept'
  BY <1>2, <1>4, <1>5, <1>6, RestBehind DEF Kept, PassKept
<1>10. ReadingKept'
  BY <1>2, <1>3, <1>4, <1>5, <1>6, <1>7 DEF Kept, ReadingKept, Pulling
<1>11. ReachKept'
  BY <1>7 DEF ReachKept, Pulling
<1>12. QED
  BY <1>1, <1>8, <1>9, <1>10, <1>11 DEF Kept

\* The read takes its share of the run; with its last byte it settles
\* (forward.ts readForward, second loop).
LEMMA TakeKept ==
  ASSUME Kept, Pulling, ~Skipping,
         NEW run \in [from : Nat, to : Nat], run.from = pos, pos <= run.to,
         pass' \in [held : BOOLEAN, at : Nat, cancelled : BOOLEAN, broken : BOOLEAN],
         pass'.at = run.to, pass'.at <= Size,
         pass'.held = pass.held, pass'.cancelled = pass.cancelled,
         done /\ ~closed => pass'.at = Size,
         UNCHANGED <<done, snapshot>>,
         Take(run)
  PROVE  Kept' /\ [OrderedNext]_orderedVars
<1> DEFINE n    == Taken(run)
           got  == reading.got + n
           data == [i \in 0 .. reading.got + n - 1 |->
                      IF i < reading.got THEN reading.data[i] ELSE run.from + i - reading.got]
<1>1. /\ asked \in Seq(Requests) /\ asked # <<>> /\ Request \in Requests
      /\ Request.offset \in Nat /\ Request.length \in Nat \ {0}
      /\ pos \in Nat /\ reading.got \in Nat /\ reach \in Nat
      /\ reading.got < Request.length
      /\ Tail(asked) \in Seq(Requests)
  BY HeadRequest DEF Kept, Shaped, ReadingKept, Pulling
<1>2. pos = Request.offset + reading.got
  BY <1>1 DEF Skipping, Kept, ReadingKept
<1>3. /\ n \in 0 .. run.to - run.from
      /\ got \in Nat /\ got <= Request.length
      /\ pos + n = Request.offset + got
  BY <1>1, <1>2 DEF Taken
<1>4. data = Bytes(Request.offset, got)
  <2>1. reading.data = Bytes(Request.offset, reading.got)
    BY DEF Kept, ReadingKept, Pulling
  <2>2. n \in Nat /\ run.from = Request.offset + reading.got
    BY <1>1, <1>2, <1>3
  <2> HIDE DEF n
  <2>3. \A i \in 0 .. got - 1 : data[i] = Request.offset + i
    BY <1>1, <2>1, <2>2 DEF Bytes
  <2>4. data = [i \in 0 .. reading.got + n - 1 |-> data[i]]
    OBVIOUS
  <2> HIDE DEF data
  <2>5. data = [i \in 0 .. got - 1 |-> data[i]]
    <3>1. 0 .. got - 1 = 0 .. reading.got + n - 1
      BY <1>1, <2>2
    <3> HIDE DEF got
    <3>2. QED
      BY <2>4, <3>1
  <2> HIDE DEF got
  <2>6. QED
    BY <2>3, <2>5 DEF Bytes
<1>5. pos' = pos + n /\ leftover' = Rest(run, n)
  BY DEF Take
<1>6. PassKept' /\ pos' \in Nat /\ leftover' \in [from : Nat, to : Nat]
  <2>1. closed' = closed
    BY DEF Take, Settle, Unanswered, orderedVars
  <2>2. QED
    BY <1>1, <1>3, <1>5, <2>1, RestBehind DEF Kept, PassKept
<1>7. CASE got = Request.length
  <2>1. Settle(ReadResult(data, done /\ leftover' = Nothing))
    BY <1>7 DEF Take
  <2>2. Truthful(Request, ReadResult(data, done /\ leftover' = Nothing))
    <3>1. Request.offset + got <= Size
      BY <1>1, <1>2, <1>3, OrderedReadsAssumption
    <3>2. done /\ leftover' = Nothing /\ ~closed => Request.offset + got >= Size
      BY <1>1, <1>2, <1>3, <1>5, RestBehind, OrderedReadsAssumption
    <3>3. done \in BOOLEAN
      BY DEF Kept, Shaped
    <3> DEFINE eof == done /\ leftover' = Nothing
    <3>4. eof \in BOOLEAN /\ got \in 0 .. Request.length
      BY <1>1, <1>3, <3>3
    <3>5. ReadResult(data, eof) = ReadResult(Bytes(Request.offset, got), eof)
      BY <1>4
    <3> HIDE DEF eof, data, got
    <3>6. QED
      BY <1>7, <3>1, <3>2, <3>4, <3>5 DEF Truthful, eof
  <2>3. Answer
    BY <1>1, <2>1, <2>2, SettleAnswers
  <2>4. Shaped'
    BY <1>1, <1>6, <2>1 DEF Kept, Shaped, Settle, Places, NoRead, Farther
  <2>5. ReadingKept'
    BY <2>1 DEF Settle, ReadingKept, Pulling, NoRead
  <2>6. ReachKept'
    <3>1. pos' <= Request.offset + Request.length
      BY <1>1, <1>3, <1>5
    <3>2. reach' = Farther(reach, Request.offset + Request.length)
      BY <2>1 DEF Settle
    <3>3. pos' <= reach'
      BY <1>1, <1>6, <3>1, <3>2 DEF Farther
    <3>4. QED
      BY <3>3 DEF ReachKept
  <2>7. QED
    BY <1>6, <2>3, <2>4, <2>5, <2>6 DEF Kept, OrderedNext
<1>8. CASE got # Request.length
  <2>1. /\ reading' = [at |-> "run", got |-> got, data |-> data]
        /\ UNCHANGED <<rewind, asked, reach, answer, closed>>
    BY <1>8 DEF Take, Unanswered, orderedVars
  <2>2. Shaped'
    BY <1>1, <1>3, <1>6, <2>1 DEF Kept, Shaped, Places
  <2>3. Request' = Request
    BY <2>1 DEF Request
  <2>4. ReadingKept'
    BY <1>1, <1>3, <1>4, <1>5, <1>8, <2>1, <2>3 DEF Kept, ReadingKept, Pulling
  <2>5. ReachKept'
    BY <2>1 DEF ReachKept, Pulling
  <2>6. QED
    BY <1>6, <2>1, <2>2, <2>4, <2>5 DEF Kept, orderedVars
<1>9. QED
  BY <1>7, <1>8

\* Either loop of readForward keeps its place (forward.ts readForward).
LEMMA ConsumeKept ==
  ASSUME Kept, Pulling,
         NEW run \in [from : Nat, to : Nat], run.from = pos, pos <= run.to,
         pass' \in [held : BOOLEAN, at : Nat, cancelled : BOOLEAN, broken : BOOLEAN],
         pass'.at = run.to, pass'.at <= Size,
         pass'.held = pass.held, pass'.cancelled = pass.cancelled,
         done /\ ~closed => pass'.at = Size,
         UNCHANGED <<done, snapshot>>,
         Consume(run)
  PROVE  Kept' /\ [OrderedNext]_orderedVars
<1>1. CASE Skipping
  BY <1>1, SkipKept DEF Consume
<1>2. CASE ~Skipping
  BY <1>2, TakeKept DEF Consume
<1>3. QED
  BY <1>1, <1>2

\* A leftover is served before the stream is asked (forward.ts pull).
LEMMA PullLeftoverKept ==
  ASSUME Kept, PullLeftover
  PROVE  Kept' /\ [OrderedNext]_orderedVars
<1>1. /\ Pulling /\ Consume(leftover) /\ UNCHANGED <<pass, done, snapshot>>
      /\ leftover \in [from : Nat, to : Nat]
      /\ leftover.from = pos /\ pos <= leftover.to /\ pass.at = leftover.to
  BY DEF PullLeftover, Pulling, Working, Kept, Shaped, PassKept
<1>2. /\ pass' \in [held : BOOLEAN, at : Nat, cancelled : BOOLEAN, broken : BOOLEAN]
      /\ pass'.at = leftover.to /\ pass'.at <= Size
      /\ pass'.held = pass.held /\ pass'.cancelled = pass.cancelled
      /\ done /\ ~closed => pass'.at = Size
  BY <1>1 DEF Kept, Shaped, PassKept
<1>3. QED
  BY <1>1, <1>2, ConsumeKept

\* A run comes in where the pass stands (forward.ts pull).
LEMMA StreamYieldsKept ==
  ASSUME Kept, NEW n \in Nat, StreamYields(n)
  PROVE  Kept' /\ [OrderedNext]_orderedVars
<1> DEFINE run == Run(pass.at, pass.at + n)
<1>1. /\ Pulling /\ Consume(run) /\ UNCHANGED <<done, snapshot>>
      /\ pass' = [pass EXCEPT !.at = @ + n] /\ pass.at + n <= Size
      /\ ~done /\ leftover = Nothing
  BY DEF StreamYields, Pulling, Working, Kept, ReadingKept
<1>2. /\ pass.at \in Nat /\ pos \in Nat /\ pass.at = pos
      /\ pass \in [held : BOOLEAN, at : Nat, cancelled : BOOLEAN, broken : BOOLEAN]
  BY <1>1 DEF Kept, Shaped, PassKept
<1>3. run \in [from : Nat, to : Nat] /\ run.from = pos /\ pos <= run.to
  BY <1>2 DEF Run
<1>4. /\ pass' \in [held : BOOLEAN, at : Nat, cancelled : BOOLEAN, broken : BOOLEAN]
      /\ pass'.at = run.to /\ pass'.at <= Size
      /\ pass'.held = pass.held /\ pass'.cancelled = pass.cancelled
      /\ done /\ ~closed => pass'.at = Size
  BY <1>1, <1>2 DEF Run
<1> HIDE DEF run
<1>5. QED
  BY <1>1, <1>3, <1>4, ConsumeKept

\* A read that settles without having moved the pass leaves all in order
\* (forward.ts read).
LEMMA SettleKept ==
  ASSUME Kept, NEW result, Settle(result), reading.at # "turn",
         Truthful(Request, result),
         pass' \in [held : BOOLEAN, at : Nat, cancelled : BOOLEAN, broken : BOOLEAN],
         pass'.at = pass.at, pass'.held = pass.held, pass'.cancelled = pass.cancelled,
         UNCHANGED <<pos, leftover>>,
         done' \in BOOLEAN, snapshot' \in BOOLEAN,
         done' /\ ~closed => pass.at = Size
  PROVE  Kept' /\ [OrderedNext]_orderedVars
<1>1. /\ asked \in Seq(Requests) /\ asked # <<>>
      /\ Request.offset \in Nat /\ Request.length \in Nat \ {0}
      /\ Tail(asked) \in Seq(Requests)
      /\ reach \in Nat /\ pos \in Nat /\ reading.got \in Nat
      /\ reading.got < Request.length
  BY HeadRequest DEF Kept, Shaped, ReadingKept
<1>2. /\ reading' = NoRead /\ asked' = Tail(asked) /\ UNCHANGED <<rewind, closed>>
      /\ reach' = Farther(reach, Request.offset + Request.length)
  BY DEF Settle
<1>3. Answer
  BY <1>1, SettleAnswers
<1>4. Shaped'
  BY <1>1, <1>2 DEF Kept, Shaped, Places, NoRead, Farther
<1>5. PassKept'
  BY <1>2 DEF Kept, PassKept
<1>6. ReadingKept'
  BY <1>2 DEF ReadingKept, Pulling, NoRead
<1>7. ReachKept'
  <2>1. pos <= reach \/ pos <= Request.offset + Request.length
    BY <1>1 DEF Kept, ReadingKept, ReachKept
  <2>2. pos' <= reach'
    BY <1>1, <1>2, <2>1 DEF Farther
  <2>3. QED
    BY <2>2 DEF ReachKept
<1>8. QED
  BY <1>3, <1>4, <1>5, <1>6, <1>7 DEF Kept, OrderedNext

\* Both loops break when nothing comes (forward.ts readForward).
LEMMA PullNothingKept ==
  ASSUME Kept, PullNothing
  PROVE  Kept' /\ [OrderedNext]_orderedVars
<1>1. /\ reading.at = "run" /\ leftover = Nothing /\ (done \/ ~pass.held)
      /\ Settle(ReadResult(reading.data, done))
      /\ UNCHANGED <<pass, pos, leftover, done, snapshot>>
  BY DEF PullNothing, Working, Returned
<1>2. /\ Request.offset \in Nat /\ Request.length \in Nat \ {0} /\ done \in BOOLEAN
      /\ reading.got \in Nat /\ reading.got < Request.length
      /\ reading.data = Bytes(Request.offset, reading.got)
      /\ pos \in Nat /\ pos <= Request.offset + reading.got
      /\ reading.got > 0 => pos = Request.offset + reading.got
      /\ ~closed => pass.held \/ done
      /\ pass.at = pos /\ pos <= Size /\ (done /\ ~closed => pass.at = Size)
  BY <1>1, HeadRequest DEF Kept, Shaped, PassKept, ReadingKept, Pulling
<1>3. Truthful(Request, ReadResult(reading.data, done))
  BY <1>1, <1>2, OrderedReadsAssumption DEF Truthful
<1>4. QED
  BY <1>1, <1>2, <1>3, SettleKept DEF Kept, Shaped

\* The stream's end, or its cancellation, settles the read that waits for it
\* (forward.ts pull, release).
LEMMA StreamEndsKept ==
  ASSUME Kept, StreamEnds
  PROVE  Kept' /\ [OrderedNext]_orderedVars
<1>1. /\ reading.at = "stream" /\ (pass.cancelled \/ pass.at = Size)
      /\ Settle(ReadResult(reading.data, TRUE))
      /\ done' = TRUE /\ UNCHANGED <<pass, pos, leftover, snapshot>>
  BY DEF StreamEnds, Working, Returned
<1>2. /\ Request.offset \in Nat /\ Request.length \in Nat \ {0}
      /\ reading.got \in Nat /\ reading.got < Request.length
      /\ reading.data = Bytes(Request.offset, reading.got)
      /\ pos \in Nat /\ pos <= Request.offset + reading.got
      /\ reading.got > 0 => pos = Request.offset + reading.got
      /\ ~closed => ~pass.cancelled
      /\ pass.at = pos /\ pos <= Size
  BY <1>1, HeadRequest DEF Kept, Shaped, PassKept, ReadingKept, Pulling
<1>3. \A eof \in {TRUE} : Truthful(Request, ReadResult(reading.data, eof))
  <2> TAKE eof \in {TRUE}
  <2>1. /\ reading.got \in 0 .. Request.length
        /\ reading.got > 0 => Request.offset + reading.got <= Size
        /\ ~closed => Request.offset + reading.got >= Size
    BY <1>1, <1>2, OrderedReadsAssumption
  <2>2. QED
    BY <1>2, <2>1 DEF Truthful
<1>4. QED
  BY <1>1, <1>2, <1>3, SettleKept DEF Kept, Shaped

\* A stream or a producer that fails settles the read that waits for it
\* (forward.ts read).
LEMMA FailuresKept ==
  ASSUME Kept, StreamFails \/ AcquireFails \/ DrainFails
  PROVE  Kept' /\ [OrderedNext]_orderedVars
<1>1. /\ reading.at # "turn" /\ Settle(Failed)
      /\ UNCHANGED <<pos, leftover, done, snapshot>>
      /\ pass' = pass \/ pass' = [pass EXCEPT !.broken = TRUE]
  BY DEF StreamFails, AcquireFails, DrainFails, Working
<1>2. /\ pass' \in [held : BOOLEAN, at : Nat, cancelled : BOOLEAN, broken : BOOLEAN]
      /\ pass'.at = pass.at /\ pass'.held = pass.held /\ pass'.cancelled = pass.cancelled
      /\ done' \in BOOLEAN /\ snapshot' \in BOOLEAN
      /\ done' /\ ~closed => pass.at = Size
  BY <1>1 DEF Kept, Shaped, PassKept
<1>3. Truthful(Request, Failed)
  BY DEF Truthful
<1>4. QED
  BY <1>1, <1>2, <1>3, SettleKept

\* A buffered read is served from the snapshot (forward.ts readSnapshot).
LEMMA ServeSnapshotKept ==
  ASSUME Kept, ServeSnapshot
  PROVE  Kept' /\ [OrderedNext]_orderedVars
<1> DEFINE rest == IF Request.offset < Size THEN Size - Request.offset ELSE 0
           n    == IF Request.length < rest THEN Request.length ELSE rest
<1>1. /\ reading.at = "drain" /\ snapshot' = TRUE /\ UNCHANGED <<pass, pos, leftover, done>>
      /\ Settle(ReadResult(Bytes(Request.offset, n), n = rest))
  BY DEF ServeSnapshot, Working
<1>2. Request.offset \in Nat /\ Request.length \in Nat \ {0}
  BY <1>1, HeadRequest DEF Kept, Shaped, ReadingKept
<1>3. /\ n \in 0 .. Request.length /\ (n = rest) \in BOOLEAN
      /\ n > 0 => Request.offset + n <= Size
      /\ n = Request.length \/ n = rest
      /\ n = rest => Request.offset + n >= Size
  BY <1>2, OrderedReadsAssumption
<1>4. Truthful(Request, ReadResult(Bytes(Request.offset, n), n = rest))
  <2> DEFINE eof == n = rest
  <2>1. eof \in BOOLEAN
    OBVIOUS
  <2>2. ~closed => (n = Request.length \/ eof) /\ (eof => Request.offset + n >= Size)
    BY <1>3
  <2> HIDE DEF eof
  <2>3. Truthful(Request, ReadResult(Bytes(Request.offset, n), eof))
    <3> HIDE DEF n
    <3>1. QED
      BY <1>3, <2>1, <2>2 DEF Truthful
  <2>4. QED
    BY <2>3 DEF eof
<1>5. /\ reading.at # "turn"
      /\ pass' \in [held : BOOLEAN, at : Nat, cancelled : BOOLEAN, broken : BOOLEAN]
      /\ pass'.at = pass.at /\ pass'.held = pass.held /\ pass'.cancelled = pass.cancelled
      /\ UNCHANGED <<pos, leftover>>
      /\ done' \in BOOLEAN /\ snapshot' \in BOOLEAN
      /\ done' /\ ~closed => pass.at = Size
  BY <1>1 DEF Kept, Shaped, PassKept
<1> HIDE DEF n, rest
<1>6. QED
  BY <1>1, <1>4, <1>5, SettleKept

\* A fresh pass starts at the front (forward.ts acquire).
LEMMA AcquireKept ==
  ASSUME Kept, Acquire
  PROVE  Kept' /\ [OrderedNext]_orderedVars
<1>1. /\ reading.at = "producer" /\ pass' = NewPass /\ pos' = 0 /\ leftover' = Nothing
      /\ done' = FALSE /\ snapshot' = snapshot
      /\ UNCHANGED <<rewind, asked, reach, answer, closed, Request>>
      /\ reading' = [at |-> "run", got |-> reading.got, data |-> reading.data]
  BY DEF Acquire, Acquired, Working, Waiting, Unanswered, orderedVars, Request, Kept, Shaped
<1>2. /\ asked # <<>> /\ Request.offset \in Nat /\ reading.got = 0
  BY <1>1, HeadRequest DEF Kept, Shaped, ReadingKept, Pulling
<1>3. Shaped'
  BY <1>1 DEF Kept, Shaped, Places, NewPass, Nothing, Run
<1>4. PassKept' /\ ReachKept'
  BY <1>1, OrderedReadsAssumption DEF PassKept, NewPass, ReachKept, Pulling
<1>5. ReadingKept'
  BY <1>1, <1>2 DEF Kept, ReadingKept, Pulling, NewPass
<1>6. QED
  BY <1>1, <1>3, <1>4, <1>5 DEF Kept, orderedVars

\* A read that only goes on waiting changes nothing else; it waits for the
\* stream only while the pass is not drained (forward.ts readForward).
LEMMA WaitingKept ==
  ASSUME Kept, NEW where \in {"release", "producer", "run", "stream", "drain"},
         Waiting(where), asked # <<>>, Unanswered,
         UNCHANGED <<pos, leftover, done, snapshot>>,
         pass' = pass \/ (Released /\ where = "release"),
         where \in {"release", "producer", "drain"} => ~Pulling,
         where = "run" => ~Pulling /\ pos <= Request.offset /\ (~closed => pass.held \/ done),
         where = "stream" => Pulling /\ ~done /\ leftover = Nothing
  PROVE  Kept' /\ [OrderedNext]_orderedVars
<1>1. /\ reading' = [at |-> where, got |-> reading.got, data |-> reading.data]
      /\ UNCHANGED <<rewind, asked, reach, answer, closed, Request>>
  BY DEF Waiting, Unanswered, orderedVars, Request, Kept, Shaped
<1>2. Request.offset \in Nat /\ Request.length \in Nat \ {0} /\ reading.got \in Nat
  BY HeadRequest DEF Kept, Shaped
<1>3. /\ pass' \in [held : BOOLEAN, at : Nat, cancelled : BOOLEAN, broken : BOOLEAN]
      /\ pass'.at = pass.at
      /\ pass'.held => ~pass'.cancelled
      /\ where # "release" => pass' = pass
  BY DEF Released, Kept, Shaped, PassKept
<1>4. Shaped'
  BY <1>1, <1>3 DEF Kept, Shaped, Places
<1>5. PassKept'
  BY <1>1, <1>3 DEF Kept, PassKept
<1>6. ReadingKept'
  <2>1. reading.data = Bytes(Request.offset, reading.got) /\ reading.got < Request.length
    BY <1>2, NothingTaken DEF Kept, ReadingKept, NoRead
  <2>2. where = "stream" => /\ pos <= Request.offset + reading.got
                            /\ reading.got > 0 => pos = Request.offset + reading.got
                            /\ ~closed => pass.held \/ done
    BY DEF Kept, ReadingKept
  <2>3. ~Pulling => reading.got = 0
    BY DEF Kept, ReadingKept
  <2>4. QED
    BY <1>1, <1>2, <1>3, <2>1, <2>2, <2>3 DEF ReadingKept, Pulling
<1>7. ReachKept'
  BY <1>1 DEF Kept, ReachKept, Pulling
<1>8. QED
  BY <1>1, <1>4, <1>5, <1>6, <1>7 DEF Kept, orderedVars

\* The steps that only wait (forward.ts readForward, pull, read).
LEMMA WaitsKept ==
  ASSUME Kept, ReleaseDone \/ PullStream \/ BeginBuffered
  PROVE  Kept' /\ [OrderedNext]_orderedVars
<1>1. CASE ReleaseDone
  <2>1. asked # <<>> /\ ~Pulling /\ Waiting("producer") /\ Unanswered
        /\ UNCHANGED <<pass, pos, leftover, done, snapshot>>
    BY <1>1 DEF ReleaseDone, Working, Pulling, Kept, ReadingKept
  <2>2. QED
    BY <2>1, WaitingKept
<1>2. CASE PullStream
  <2>1. asked # <<>> /\ Pulling /\ Waiting("stream") /\ Unanswered /\ ~done
        /\ leftover = Nothing /\ UNCHANGED <<pass, pos, leftover, done, snapshot>>
    BY <1>2 DEF PullStream, Working, Pulling, Kept, ReadingKept
  <2>2. QED
    BY <2>1, WaitingKept
<1>3. CASE BeginBuffered
  <2>1. asked # <<>> /\ ~Pulling /\ Waiting("drain") /\ Unanswered
        /\ UNCHANGED <<pass, pos, leftover, done, snapshot>>
    BY <1>3 DEF BeginBuffered, Working, Pulling
  <2>2. QED
    BY <2>1, WaitingKept
<1>4. QED
  BY <1>1, <1>2, <1>3

\* A read whose turn comes is refused, goes back, or goes on from the pass's
\* place (forward.ts readForward).
LEMMA BeginKept ==
  ASSUME Kept, Begin
  PROVE  Kept' /\ [OrderedNext]_orderedVars
<1>1. /\ reading.at = "turn" /\ asked # <<>> /\ rewind # "buffer" /\ ~Pulling
      /\ UNCHANGED <<pos, leftover, done, snapshot>>
  BY DEF Begin, Working, Pulling
<1>2. /\ Request.offset \in Nat /\ Request.length \in Nat \ {0} /\ pos \in Nat
      /\ reach \in Nat /\ pos <= reach /\ Tail(asked) \in Seq(Requests)
      /\ rewind \in {"forbid", "replay"}
  BY <1>1, HeadRequest DEF Kept, Shaped, ReachKept
<1>3. CASE BehindThePass /\ rewind # "replay" /\ Settle(Refused) /\ pass' = pass
  <2>1. Truthful(Request, Refused)
    BY <1>2, <1>3 DEF Truthful, BehindThePass
  <2>2. Answer
    BY <1>1, <1>3, <2>1, SettleAnswers
  <2>3. /\ reading' = NoRead /\ asked' = Tail(asked) /\ UNCHANGED <<rewind, closed>>
        /\ reach' = Farther(reach, Request.offset + Request.length)
    BY <1>3 DEF Settle
  <2>4. Shaped'
    BY <1>1, <1>2, <1>3, <2>3 DEF Kept, Shaped, Places, NoRead, Farther
  <2>5. PassKept' /\ ReadingKept'
    BY <1>1, <1>3, <2>3 DEF Kept, PassKept, ReadingKept, Pulling, NoRead
  <2>6. ReachKept'
    BY <1>1, <1>2, <2>3 DEF ReachKept, Farther
  <2>7. QED
    BY <2>2, <2>4, <2>5, <2>6 DEF Kept, OrderedNext
<1>4. CASE Released /\ Waiting("release") /\ Unanswered
  BY <1>1, <1>4, WaitingKept
<1>5. CASE /\ ~BehindThePass /\ pass' = pass /\ Unanswered
           /\ Waiting(IF pass.held \/ done THEN "run" ELSE "producer")
  <2>1. pos <= Request.offset
    BY <1>2, <1>5 DEF BehindThePass
  <2>2. CASE pass.held \/ done
    <3>1. Waiting("run")
      BY <1>5, <2>2
    <3>2. QED
      BY <1>1, <1>5, <2>1, <2>2, <3>1, WaitingKept
  <2>3. CASE ~(pass.held \/ done)
    <3>1. Waiting("producer")
      BY <1>5, <2>3
    <3>2. QED
      BY <1>1, <1>5, <3>1, WaitingKept
  <2>4. QED
    BY <2>2, <2>3
<1>6. QED
  BY <1>3, <1>4, <1>5 DEF Begin

\* A read that is queued leaves the one under way alone (forward.ts read).
LEMMA ReadKept ==
  ASSUME Kept, Read
  PROVE  Kept' /\ [OrderedNext]_orderedVars
<1>1. /\ Ask /\ UNCHANGED readerVars /\ asked \in Seq(Requests)
      /\ UNCHANGED <<rewind, reach, answer, closed>>
  BY DEF Read, Ask, Kept, Shaped
<1>2. PICK request \in Requests : asked' = Append(asked, request)
  BY <1>1 DEF Ask
<1>3. /\ asked' \in Seq(Requests)
      /\ asked # <<>> => asked' # <<>> /\ Request' = Request
  BY <1>1, <1>2, AppendProperties DEF Request
<1>4. Shaped' /\ PassKept' /\ ReachKept'
  BY <1>1, <1>3 DEF Kept, Shaped, PassKept, ReachKept, Pulling, readerVars
<1>5. ReadingKept'
  BY <1>1, <1>3 DEF Kept, ReadingKept, Pulling, readerVars
<1>6. QED
  BY <1>1, <1>4, <1>5 DEF Kept, OrderedNext

\* close lets the stream go under whatever read there is (forward.ts release).
LEMMA CloseKept ==
  ASSUME Kept, CloseReader
  PROVE  Kept' /\ [OrderedNext]_orderedVars
<1>1. /\ closed' = TRUE /\ UNCHANGED <<rewind, asked, reach, answer>>
      /\ UNCHANGED <<pos, leftover, done, snapshot, reading>>
      /\ pass' = [pass EXCEPT !.held = FALSE, !.cancelled = TRUE]
  BY DEF CloseReader, Released
<1>2. Shaped' /\ ReachKept'
  BY <1>1 DEF Kept, Shaped, ReachKept, Pulling
<1>3. PassKept'
  BY <1>1 DEF Kept, Shaped, PassKept
<1>4. ReadingKept'
  BY <1>1 DEF Kept, ReadingKept, Pulling, Request
<1>5. QED
  BY <1>1, <1>2, <1>3, <1>4 DEF Kept, OrderedNext, Close

\* Every step keeps what is kept, and is one the specification allows
\* (forward.ts makeForwardReader).
LEMMA NextKept == Kept /\ [Next]_vars => Kept' /\ [OrderedNext]_orderedVars
<1> SUFFICES ASSUME Kept, [Next]_vars PROVE Kept' /\ [OrderedNext]_orderedVars
  OBVIOUS
<1>1. CASE Read
  BY <1>1, ReadKept
<1>2. CASE CloseReader
  BY <1>2, CloseKept
<1>3. CASE Begin
  BY <1>3, BeginKept
<1>4. CASE ReleaseDone \/ PullStream \/ BeginBuffered
  BY <1>4, WaitsKept
<1>5. CASE Acquire
  BY <1>5, AcquireKept
<1>6. CASE StreamFails \/ AcquireFails \/ DrainFails
  BY <1>6, FailuresKept
<1>7. CASE PullLeftover
  BY <1>7, PullLeftoverKept
<1>8. CASE PullNothing
  BY <1>8, PullNothingKept
<1>9. CASE ServeSnapshot
  BY <1>9, ServeSnapshotKept
<1>10. CASE StreamEnds
  BY <1>10, StreamEndsKept
<1>11. ASSUME NEW n \in Nat, StreamYields(n)
       PROVE  Kept' /\ [OrderedNext]_orderedVars
  BY <1>11, StreamYieldsKept
<1>12. CASE UNCHANGED vars
  <2>1. UNCHANGED orderedVars /\ UNCHANGED readerVars
    BY <1>12 DEF vars
  <2>2. UNCHANGED <<rewind, asked, reach, answer, closed>>
        /\ UNCHANGED <<pass, pos, leftover, done, snapshot, reading>>
    BY <2>1 DEF orderedVars, readerVars
  <2>3. Kept'
    BY <2>2 DEF Kept, Shaped, PassKept, ReadingKept, ReachKept, Pulling, Request
  <2>4. QED
    BY <2>1, <2>3
<1>13. QED
  <2>1. 0 \in Nat /\ \A n \in 1 .. MaxRun : n \in Nat
    BY ForwardAssumption
  <2>2. QED
    BY <1>1, <1>2, <1>3, <1>4, <1>5, <1>6, <1>7, <1>8, <1>9, <1>10, <1>11, <1>12, <2>1
    DEF Next, Onward, Streamed

\* The reader never loses its place: for every source, every cutting of its
\* stream into runs, every failure and a close at any point, what was consumed
\* and what is left over add up to what the stream yielded (PositionKept).
THEOREM PlaceKept == Spec => []PositionKept
<1>1. Kept => PositionKept
  BY DEF Kept, Shaped, PassKept, ReadingKept, PositionKept, Pulling, Nothing, Run
<1>2. QED
  BY <1>1, InitKept, NextKept, PTL DEF Spec

\* The reader implements OrderedReads: reads are answered in order, each with
\* the source's bytes at its offset, and none that never goes back is refused
\* (ImplementsReads).
THEOREM ReaderOrdered == Spec => ImplementsReads
<1>1. Init => OrderedInit
  BY DEF Init
<1>2. QED
  BY <1>1, InitKept, NextKept, PTL DEF Spec, ImplementsReads, OrderedSpec

\* No more reads wait than may (forward.ts read).
QueueKept == Len(asked) <= MaxQueued

\* Only a read that is asked joins the queue (forward.ts read).
LEMMA QueueStep ==
  ASSUME Kept, QueueKept, [Next]_vars
  PROVE  QueueKept'
<1>1. asked \in Seq(Requests) /\ Len(asked) \in Nat /\ MaxQueued \in Nat
  BY ForwardAssumption, LenProperties DEF Kept, Shaped
<1>2. CASE Read
  <2>1. Len(asked) < MaxQueued /\ \E request \in Requests : asked' = Append(asked, request)
    BY <1>2 DEF Read, Ask
  <2>2. Len(asked') = Len(asked) + 1
    BY <1>1, <2>1, AppendProperties
  <2> QED
    BY <1>1, <2>1, <2>2 DEF QueueKept
<1>3. CASE ~ Read
  <2>1. \/ asked' = asked
        \/ asked # <<>> /\ asked' = Tail(asked)
    <3>1. CASE UNCHANGED vars \/ CloseReader
      BY <3>1 DEF vars, orderedVars, CloseReader
    <3>2. ASSUME Unanswered \/ (asked # <<>> /\ \E result : Settle(result))
          PROVE  asked' = asked \/ (asked # <<>> /\ asked' = Tail(asked))
      BY <3>2 DEF Unanswered, orderedVars, Settle
    <3>3. ASSUME NEW run, Consume(run), asked # <<>>
          PROVE  asked' = asked \/ (asked # <<>> /\ asked' = Tail(asked))
      <4>1. Unanswered \/ \E result : Settle(result)
        BY <3>3 DEF Consume, Skip, Take
      <4> QED
        BY <3>2, <3>3, <4>1
    <3>4. ~ Working("turn") => asked # <<>>
      BY DEF Kept, ReadingKept, Working
    <3>5. CASE PullLeftover \/ \E n \in Nat : StreamYields(n)
      <4>1. asked # <<>>
        BY <3>4, <3>5 DEF PullLeftover, StreamYields, Working
      <4> QED
        BY <3>3, <3>5, <4>1 DEF PullLeftover, StreamYields
    <3>6. CASE Begin
      BY <3>2, <3>6 DEF Begin
    <3>7. CASE ReleaseDone \/ Acquire \/ PullStream \/ BeginBuffered
      BY <3>2, <3>7 DEF ReleaseDone, Acquire, PullStream, BeginBuffered
    <3>8. CASE AcquireFails \/ PullNothing \/ ServeSnapshot \/ DrainFails \/ StreamEnds \/ StreamFails
      <4>1. asked # <<>>
        BY <3>4, <3>8 DEF AcquireFails, PullNothing, ServeSnapshot, DrainFails, StreamEnds,
                          StreamFails, Working
      <4>2. \E result : Settle(result)
        BY <3>8 DEF AcquireFails, PullNothing, ServeSnapshot, DrainFails, StreamEnds,
                    StreamFails, Returned
      <4> QED
        BY <3>2, <4>1, <4>2
    <3>9. 0 \in Nat /\ 1 .. MaxRun \subseteq Nat
      BY ForwardAssumption
    <3> QED
      BY <1>3, <3>1, <3>5, <3>6, <3>7, <3>8, <3>9 DEF Next, Onward, Streamed
  <2>2. asked # <<>> => Len(Tail(asked)) = Len(asked) - 1
    BY <1>1, HeadTailProperties
  <2> QED
    BY <1>1, <2>1, <2>2 DEF QueueKept
<1> QED
  BY <1>2, <1>3

\* The reader's state is well formed at every point: the pass and its place lie
\* in the source, a leftover is not empty, the read at work is one that was
\* asked and has taken no more than it asked for (TypeOK).
THEOREM ReaderTyped == Spec => []TypeOK
<1>1. Init => Kept /\ QueueKept
  <2>1. Init => QueueKept
    BY ForwardAssumption DEF Init, OrderedInit, QueueKept
  <2> QED
    BY <2>1, InitKept
<1>2. Kept /\ QueueKept /\ [Next]_vars => (Kept /\ QueueKept)'
  BY NextKept, QueueStep
<1>3. Kept /\ QueueKept => TypeOK
  <2> SUFFICES ASSUME Kept, QueueKept PROVE TypeOK
    OBVIOUS
  <2>1. Size \in Nat
    BY OrderedReadsAssumption
  <2>2. /\ pass.at \in Nat /\ pos \in Nat /\ leftover.from \in Nat /\ leftover.to \in Nat
        /\ reading.got \in Nat
    BY DEF Kept, Shaped
  <2>3. pos \in 0 .. Size /\ pass.at \in 0 .. Size
    BY <2>1, <2>2 DEF Kept, PassKept
  <2>4. leftover # Nothing => 0 <= leftover.from /\ leftover.from < leftover.to
    BY <2>2 DEF Kept, PassKept
  <2>5. ~ Working("turn") => asked # <<>> /\ reading.got \in 0 .. Request.length
    BY <2>2, HeadRequest DEF Kept, Shaped, ReadingKept, Working
  <2> QED
    BY <2>3, <2>4, <2>5 DEF TypeOK, QueueKept
<1>4. QED
  BY <1>1, <1>2, <1>3, PTL DEF Spec
=============================================================================
