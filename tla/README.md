# Verification of bote's query engine

bote reads values out of a JSON document without loading it: a path names a
value, a scan of the text finds it, and a bounded *structural index* remembers
where containers, members and elements were seen so that later queries start
closer to their target. The text is read in chunks, from a source that may be
seekable or a stream that only goes forward. This directory holds TLA+ modules of
that engine, TLC configurations that check them on small instances, and TLAPS
proofs of what holds for every document, budget, source and stream.

## The system

Native engine (`src/packages/native/src`):

| Part | State | Operations | What is hard |
| --- | --- | --- | --- |
| `path.rs` path segments | none | conversion | - |
| `cache.rs` structural index | nodes, `slots_used`, `tick` | `chain_hops`, `store_close`, `merge_array_scan`, `merge_object_scan`, eviction | incremental accounting, eviction between the calls of one query, dense prefix under a cap, duplicate names |
| `session.rs` queries | the index behind a mutex, one window per call | `has_at`, `get_at`, `resolve_at`, `run_locate`, `run_resolve`, `drive` | lookup and write-back hold the lock at different times and the scan between them awaits reads; a failing read drops the record |
| `resolve.rs` resolver | `ResolveState` per query | `resolve_step`, `step_object`, `step_array`, `next_child` | seeds, what is recorded when, the last member, retries after a chunk miss |
| `stream.rs` iteration | `IterState` per stream | `initialize`, `fill_batch`, `record_early_break` | close and landmarks under two locks, errors in mid-batch, early break at the end |
| `cursor.rs` cursors | anchor, depth | `has`, `get`, `hop`, `iter`, `next`, `complete` | hops re-anchor paths: one container, several keys |
| `walker.rs`, `simd.rs`, `bitmap.rs` scanners | scan carries | skip a value, count commas, find quotes | carries over 64-byte blocks and chunk seams |
| `chunks.rs`, `source.rs` | `ChunkWindow`, learned size | `read_chunks`, `insert`, `drop_below`, `set_source_size` | short reads, unknown size, termination of the retry loop |
| `keys.rs`, `select.rs`, `eval.rs` | none | decode keys, project | escapes |
| `lib.rs` | none | validate knobs, open | - |

TypeScript facade (`src/packages/core/src`):

| Part | State | Operations | What is hard |
| --- | --- | --- | --- |
| `source/forward.ts` forward reader | iterator, replay window, read chain | `acquire`, `release`, `read`, `pull` | single flight, release racing a read, iterator errors |
| `source/seekable.ts` | file handle, HTTP validators | `read`, `close` | I/O only |
| `open.ts`, `cursor.ts` | closed flag, native session | open, close, `get`, `has`, `iter`, ... | several native calls with an await in between |
| `stream.ts` | batches of a stream | map, filter, take, drop, batch | nothing: generators over one upstream |
| `args.ts`, `validate.ts`, `path.ts`, `error.ts` | none | validation, wording | - |

A call enters at a cursor (facade, then `cursor.rs`), runs in the session, which
drives the resolver over a walker over the call's own chunk window; a missing
chunk is read from the source (through the forward reader when the source is
one). All calls over one document share the index, under a mutex that is held
for the lookup, for each accessor and for a whole write-back, and never across
an await. So the calls interleave at every await, and the index is the only
state through which they can disturb each other.

### What makes each part correct

- Index: every fact it holds is one a fresh scan would learn (`CacheTruthful`);
  an object's table covers everything in front of its resume offset
  (`DensePrefix`); facts are never lost but by eviction (`NothingForgotten`); the
  slot total is exact and within budget (`SlotsAccounted`); eviction keeps the
  backbone (`ShallowOutlivesDeep`), by depths that agree between cursors
  (`OneDepth`).
- Session, resolver, iteration: the index is invisible, that is, a call answers
  what the text says, whatever the index held, forgot or was told meanwhile
  (`AnswersTransparent`, `FindsAreTrue`, `ImplementsQuery`); a scan that resumes
  from the index does so in the right container, at the right entry (`SeedsStand`).
- Scanner: a block scanned at once under the carry of the block before it is the
  block read byte by byte (`MaskIsLexed`, `CarryIsLexerState`).
- Walker, resolver, window, retry loop: where a byte falls in a block or a chunk,
  what is resident, and how often a scan was cut short cannot be seen in an answer
  (`AnswersTrue`), in the samples taken (`SamplesStand`) or in what a stream hands
  out (`DeliveredIsPrefix`); the window shows the source's bytes (`WindowIsSource`)
  and stays small (`WindowBounded`); scans read the source in order
  (`LocatesForward`, `ChildrenForward`) and ask for nothing they have or that does not
  exist (`DriveSpec`); the retry loop ends (`EveryCallAnswered`).
- Forward reader: the source's bytes, in order, to the read that asked
  (`ImplementsReads`, `PositionKept`); a failed or released reader still answers
  (`EveryReadSettles`).
- Stream operators, lifecycle: the items, in order, whatever the batch sizes;
  nothing is asked of a document after close. Not modelled, see below.

## Modules

- **Path**: segments. **Document**: the immutable text, as the containers at
  their offsets with their entries. `Leads`, `StopsAbsent`, `StopsFaulty` say what
  a path denotes with no index and no scan; `IsTrue` is the answer the text allows.
- **StructuralIndex** (`cache.rs`): `nodes`, `slots_used`, `tick`; one operator per
  call under the mutex. `Put` is the tail of `upsert`, with the accounting and the
  eviction; `MergeArray` and `MergeObject` are the merges, `ChainStopsAt`,
  `ChainStart`, `ChainSeed` and `TouchChain` the lookup.
- **Query**: the abstract specification. A call is asked, then answered once, with
  what the text says; a hop that finds hands out a cursor.
- **Session** (`session.rs`, `resolve.rs`, `stream.rs`, `cursor.rs`): each client is
  a call in flight with a program counter; one action per stretch of code between
  two points where another call can run.

  | Stage (`pc`) | Actions | Code |
  | --- | --- | --- |
  | idle, done | `Ask` | the methods of `Cursor` |
  | lookup | `Lookup` | `chain_hops` under the lock |
  | scan | `ScanObject`, `ScanArray`, `ScanFault`, `ScanDone` | `resolve_step`, one container per step |
  | write | `WriteBack` | `apply_scan_record`, one container per step with the lock kept |
  | close | `CachedClose` | the cached close in `run_resolve` |
  | extent | `Extent` | peek, extent walk, `store_close` |
  | deliver | `Deliver` | `has`'s peek, `get`'s copy |
  | enter, iterate, landmarks | `Enter`, `FillBatch`, `Exhaust`, `LastLandmarks`, `Break` | `IterState` |
  | any that reads | `ReadFails` | an error out of `drive` |

  `Promise` is Query under the mapping `CallOf`: a call whose stage is done shows
  its answer, any other is pending.
- **MCSession**: the documents and paths of the runs, and `RankedView`.
- **Blocks** (`simd.rs`, `bitmap.rs`): words as sets of bits, `FindEscaped`,
  `ParityPrefix`, `ScanBlock`, `StructuralWord`. **MCBlocks** is a client of it: a text
  fed to it block by block, next to a byte-wise lexer.
- **Drive** (`chunks.rs`, `source.rs`, the loop of `session.rs`): the window, one read
  at a time of `read_chunks` (`Fault`, `Receive`, `Reject`), prunes. What the walker
  does between two faults is left open: `DriveNext` lets it miss any chunk that it
  may miss (`Askable`).
- **Walker** (`walker.rs`) EXTENDS Blocks and Drive: each scan is a function of the
  window and of where it stands, and returns its result together with where it
  stands now, which is what a retry goes on from. A Rust `?` is `Then`, a
  `ChunkMiss` is `Miss(c)`. A Rust loop is `Loop`: an operator for one turn
  (`StringBlock`, `ContainerBlock`, `CommaTurn`, and in Resolver `ObjectMember`,
  `ResolveTurn`), taken again while it stands at `More`. `TurnsOfScan`, a bound on the
  turns, is one more than the text has bytes; every turn moves on by at least one.
- **Resolver** (`resolve.rs`) EXTENDS Walker: the path followed over bytes, and
  `NextChild`.
- **Json**: the reference. What a text means, read byte by byte with no blocks,
  chunks or windows: extents, children, where a path leads.
- **Fetch** (`session.rs`, `stream.rs`, `eval.rs`) EXTENDS Resolver: one query, phase
  by phase; every phase is one call of `drive`.

  | Phase | Action | Code |
  | --- | --- | --- |
  | idle, done | `Ask`, `Return` | `has_at`, `get_at`, `CursorIter::next`; the window is dropped |
  | locate | `Locate` | `run_locate`, `run_resolve_direct` |
  | peek, skip, copy | `Peek`, `SkipValueAt`, `Materialize` | the functions of these names |
  | open, child | `Open`, `StepChild` | `initialize`, `next_child` in `fill_batch` |
  | enter, member | `EnterChild`, `StepMember` | `project_map` |
  | yield, paused | `Yield`, `Resume`, `Break` | the end of the loop of `fill_batch`; the consumer |
  | any, a read under way | `Delivered`, `ReadFails` | `read_chunks` |

  In each phase a step either gets on or misses a chunk (`Missed`, a `Fault` of
  Drive); Fetch implements `DriveSpec` with the variables Drive has.
- **MCFetch**: texts and calls.
- **OrderedReads**: the abstract specification of a forward source's reader.
  **ForwardReader** (`forward.ts`): one action per stretch of code between two awaits
  of `read`, `readForward`, `acquire`, `release` and `pull`; `close` comes at any of them.

  | `reading.at` | Waits for | Actions |
  | --- | --- | --- |
  | turn | the chain, or a read | `Begin`, `BeginBuffered` |
  | release, producer | `active.cancel()`, `produce()` | `ReleaseDone`, `Acquire`, `AcquireFails` |
  | run | nothing: the head of either loop | `PullLeftover`, `PullStream`, `PullNothing` |
  | stream | `reader.read()` | `StreamYields`, `StreamEnds`, `StreamFails` |
  | drain | `drainAll` | `ServeSnapshot`, `DrainFails` |
- **NatSets**: lemmas about least and greatest numbers, sums, powers of two and loops.
  **SessionProofs**: what the index's operators yield and how entries lie in the text;
  type correctness, the books, eviction. **SoundnessProofs**: the truth of the index and of
  what calls find, and depths. **MemoryProofs**: what the index keeps, and the truth of
  every answer as long as no eviction takes the node another call relies on.
  **BlockProofs**: the block scanner. **WalkerProofs**: the window, and what every walk of
  Walker, Resolver and the cursor reads of it. **FetchProofs**: a query over its window.
  **ForwardProofs**: the forward reader.

The engine is modelled from two sides. Session has many calls and the index, over
documents whose scans are one step per container; Fetch has one call and its
bytes, with no index to seed it. They meet where the code's parts meet: calls
share nothing but the index, and a window, a walker and a retry loop belong to one
call. `AnswersTrue` and `SamplesStand` are what Session takes for granted of its
scans; that a read may fail anywhere is what it allows for.

What Session's data abstraction leaves out: whitespace inside the document (every scan
skips it before it looks), key decoding (names are values), the byte position
inside one container (a scan of one container is one step: it neither reads nor
writes the index, and a failed read drops all of it), and the text of a value
(its extent stands for it). Whitespace is also all that two offsets recorded for one
element can differ by, so `MergeArray` keeps the old one where the sort and the dedup
of cache.rs:448-450 may keep either. `Break` does not repeat the test that the next
offset lies before the source's end (stream.rs:262), which is true of every element of a
document that is closed. That no scan of sound text starts off a boundary is
part of `CacheTruthful`.

What Fetch leaves out: seeds from the index and the object members recorded for it
(Session has both; a resolution in Fetch starts at the root); `with_key`; key decoding
(a name is its bytes); the output's brackets, commas and field names, which count in
`BatchBytes` by one byte an item; the read of a key by `probe_member_key`, which
cannot miss because the chunk was needed to step to the member; the loop of
`step_array` behind its block scan (resolve.rs:411-422), which is not reached with a
target at or behind the scan's index. Bytes are the eleven classes the scanner
tells apart. Documents are well formed up to where they break off, whole ones and
prefixes; with a prefix, that the call fails is checked, not with which code: a
text that ends behind a key or a value is reported as `malformed_json`
(`advance_past_value`, `member_value_start`), not as `unexpected_eof`. A stream's
prune behind a failed read is left to the step that drops the window. The samples of
a container whose target turned out absent stay in the scan and do not reach the
record: `SamplesStand` is about the paths that were found, `ScanArray` in Session
writes those of the others too.

What ForwardReader leaves out: how a stream is made and decoded (a producer that
settles either way); that `drainAll` takes several awaits, during which nothing
another call does can reach it; that a read which released and acquired its pass looks
once more whether it has one (forward.ts:157), so that a close in the microtask behind
that acquire makes it acquire again, where the model's read ends with what it has, as
one does whose close falls behind the acquire of line 158. A stream yields
the same bytes on every pass.

## Runs

The `session_` runs use `MCSession.tla`. `RankedView` replaces the recency clock by the rank
it gives each node: the code only compares `last_used`, so states equal under the
view behave alike. The clock and the set of cursors are otherwise unbounded in
the model and finite in the runs because a document has finitely many values.

| Run | Instance | Shows |
| --- | --- | --- |
| `session_solo` | 1 client; get, iter; an object of 3 members under a cap of 2, an array of 3 with stride 2, budget 5 | types, the index's invariants and the truth of every answer, with eviction on the way and reads that fail anywhere |
| `session_hop` | 1 client; hop, get on the cursors that hops hand out; budget 6 | keys of different anchors do not mix, a container cached under several keys has one depth, eviction goes by it |
| `session_pair` | the document, clients, calls and budget of `session_race`, less the steps that shed a node another call relies on (`ACTION_CONSTRAINT Spares`) | racing write-backs keep the table dense and true, evictions included; the session implements `Query` |
| `session_tight` | 2 clients; has; budget 5, where one of two siblings is shed while the other call scans it | what survives eviction in mid-call: accounting, truth of the index, truth of what is found, seeds that stand in the container scanned |
| `session_race` | 2 clients, budget 6 | a violation of `DensePrefix` |
| `session_leading_ws` | 1 client, a newline in front of the document | a violation of `WholeDocument` |
| `scan_blocks` | blocks of 8 bytes; quotes, backslashes and another byte in any sequence | the block scanner is the byte-wise lexer |
| `fetch` | blocks and chunks of 4 bytes, reads of 2 chunks, bursts up to 2, stride 2, batches of 2; 299 texts over a source that declares its size and over one that does not; nine calls | answers, samples, batches, the window, the order of reads, the end of the retry loop |
| `forward_pass` | the same, one text, a source that does not know its size, gets | a violation of `OnePass` |
| `short_read` | the same, reads that may return less than asked in mid-text | a violation of `AnswersTrue` |
| `early_end` | the same, a declared size 9 bytes too large | a violation of `EveryCallAnswered` |
| `forward_reader` | a stream of 3 bytes in runs of 0 to 2; reads of 1 or 2 bytes at 0, 1, 2 and behind the end, 2 queued; one close; each `rewind` policy | the reader implements `OrderedReads`; every read settles |

Why the bounds are enough: the index is keyed by anchor and path prefix, so two
containers that compete, a third below them and a root cover every relation two
nodes can have in the eviction order (deeper, same depth and older, on the other
call's path or not). Three members under a cap of two give a member in the table,
one at the resume offset and one behind it; three elements with stride two give a
sampled element, an implicit one and one in between. Two clients are enough for a
race on one lock-protected map: every write-back is atomic, so a third call's
effect between two steps is one that the second could have had.

Bounds of the new runs. The scanner's algorithms do not depend on the width of the
word but through the number of doubling passes (three at 8 bits) and the parity of
a run's first bit; with 8 bits a run of backslashes starts at either parity, ends
inside, at the end or behind the end of the word, and the carry is one of four, all
of which occur. In `fetch` a chunk is exactly one block, so every block that does not
start at a chunk's first byte straddles two, as in the code with chunks of 64 bytes,
the smallest it accepts; texts reach 40 bytes and so ten chunks, more than two
bursts. Texts combine, in arrays and objects, the values whose meaning depends on
what stands before them: an escaped quote and a comma in a string, a bracket and a
run of backslashes in a string, nesting, strings and primitives longer than a chunk;
of two texts all prefixes are added. `MaxBatchCount` and `MaxBatchBytes` each end
some batches. In `forward_reader` a stream of 3 bytes in runs of at most 2 leaves a
leftover in front of, across and behind a read, and an offset of 4 lies behind the
end; two queued reads show a read that follows a failed or refused one. The number of
closes is one because `close` is called once by the document's lifecycle
(`base.ts:27`).

### Fairness

- `Fetch!FairSpec`: `WF(Work)`, the event loop runs what can run, and `WF(Delivered)`, a
  source answers what it is asked (an error is an answer too, `ReadFails`, but is not
  needed for progress). The consumer of a stream is not fair: it may pause for ever,
  so `EveryCallAnswered` ends in a batch handed out or in an answer. Nothing is assumed
  of how many reads a phase takes; that each read brings the step further is what
  the property is about.
- `ForwardReader!FairSpec`: `WF(Onward)` for the steps of a read that do not wait for the
  stream, the producer and the drain included, and `SF(Streamed)`: a stream yields a
  run that is not empty, ends or fails. Strong, because a stream may yield empty runs
  in between, each of which puts the read through its loop once more; for ever it
  does not. Reads and close are calls of clients and not fair.

### What the violations show

1. `session_race`: the lock is dropped between `chain_hops` and
   `apply_scan_record`. A call is seeded at an object's resume offset; the other
   call's write evicts that object; the first call writes back into a fresh node
   only the members from the old resume offset on, and a resume offset past them.
   The comment in `cache.rs:401-402` ("The table covers the dense prefix
   `[open, resume]`") no longer holds, and a later query for one of the missing
   members reports it absent. `session_pair` is the same instance without the steps that do
   this, that is, without those in which a call's eviction takes the one node another
   call relies on (`ReliesOn`), and everything holds there. That nothing else can go wrong
   is proved for every instance (`AnswersSound`), and so is that a program which awaits
   each call before the next never takes such a step (`LoneCallSpares`).
2. `session_leading_ws`: with an empty path the start is offset 0, unskipped, and
   `skip_value_step` takes the whitespace for a primitive that has ended: get yields
   empty text, against `src/README.md:248-249`, and the empty extent is cached as
   the container's close.

3. `forward_pass`: `run_resolve` walks a value's extent, dropping what lies behind the
   walk, and `materialize` copies the value from its start. Over a forward source a
   `get` of a value longer than what stays resident makes the source go back, against
   `base.ts:42-43`, and a reader that forbids rewinding refuses. `LocatesForward` (proved for
   every text) shows that the copy is the only place in a `get`: everything in front of it
   reads in order. So does a stream from one child to the next (`ChildrenForward`).
4. `short_read`: a read that returns less than asked, without `eof`, is allowed by
   `base.ts:22-24` and taken for the end of the data (`chunks.rs:192-197`). A whole text
   is then reported as ended too soon. (`fromFile` returns such a read when the file
   shrank behind its back.)
5. `early_end`: a source that declared more bytes than it has reports `eof` and no data
   at the missing chunk, `set_source_size` keeps the declared size and `drive` asks
   again, for ever. A test wants a source that does not deliver what it declared to
   be surfaced (`source.spec.ts:163-165`), and `source.rs:122` does so for reads without
   `eof` only. A `fromReadable` given a size, over a stream that is cut short, gets here.

Not a violation, and worth knowing: a `close` between two reads of a query leaves the
next read to acquire a new stream (`forward.ts:157`), which nobody closes; the model
has that step, and `ImplementsReads` holds over it. The comment of `prune_window`
("keep just the chunk covering `next_offset`") is narrower than the code: chunks ahead
are kept too, which `WindowBounded` accounts for by the burst.

`WindowBounded` is about a walk outside a projection, because in a projection onto several
fields it is false. Over `[{"p":[p,o...],"o":o...}]`, with a child member `p` that is larger
than a burst and a field `o` that is copied before the next `p` is walked, the chunks of `o`
lie ahead of the walk and nothing lets them go until the item is done: the retry loop drops
only what lies below the walk. So the remark of `session.rs:394-395` ("the window stays
bounded even for a large value") and that of `session.rs:507-510` ("at most ~one burst between
prunes") hold of a projection up to the size of the fields it has copied.

## Proofs

The theorems about Session hold for every document, budget, cap, stride, set of
clients, operations and paths that the named assumptions allow (`NoneAssumption`,
`KnobAssumption`, `DocAssumption`, `NestingAssumption`, `CallAssumption`); those about Drive,
the block scanner and ForwardReader for all constants under `DriveAssumption`,
`LogBlockAssumption`, `OrderedReadsAssumption` and `ForwardAssumption`. What a theorem needs
beyond that is a hypothesis in its statement. The theorems about Fetch rest on
`DriveAssumption`, `LogBlockAssumption`, `TextsAssumption` (texts are made of the bytes the
scanner tells apart) and `FetchAssumption`: the burst cap is at least 1, a block is no
longer than a chunk (`chunks.rs:128`, `150`: chunks are whole blocks), and calls have the
shape that `args.ts:81-103` lets through. The hypotheses:

- `RootStart = 0`, the document starts with its root value. Without it offset 0 and
  the root's offset are two anchors of one container and a close may be stored
  empty (`session_leading_ws`).
- `UniqueNames`, no object repeats a name. An object scan that resumes behind the
  first of two members of one name, its table having lost that name to an
  eviction, finds the second (the schedule of `session_race`), and tables it.
- `HonestSource`, reads in mid-text are not short and the declared size is the text's. Without it
  the window does not show the text (`short_read`, `early_end`).
- `ChunkIds = Nat`, or every chunk of a text is in `ChunkIds`. The constant only bounds what TLC
  enumerates of Drive.
- `[][Spares]_vars`, no step evicts the node that another call in flight relies on. Without
  it `DensePrefix` is false (`session_race`).

| Property | Theorem | Hypotheses |
| --- | --- | --- |
| `TypeOK` (Session), `SlotsAccounted`, `ShallowOutlivesDeep` | `SessionProofs!TypeCorrect`, `BooksBalance`, `DeepestShedFirst` | none |
| `CacheTruthful`, `FindsAreTrue`, `SeedsStand`, `OneDepth` | `SoundnessProofs!IndexSound`, `CallsSound`, `SeedsSound`, `DepthsAgree` | `RootStart = 0`, `UniqueNames` |
| `NothingForgotten` | `MemoryProofs!IndexRemembers` | the same |
| `DensePrefix`, `AnswersTransparent`, `ImplementsQuery` | `MemoryProofs!TablesDense`, `AnswersSound`, `SessionAnswersQuery` | the same and `Spares` |
| the three together | `MemoryProofs!LoneCallsAnswered`, `RoomyIndexAnswers` | one call at a time, or no evictions, instead of `Spares` |
| `WindowIsSource` | `WalkerProofs!WindowTrue` | `HonestSource` |
| `DriveSpec` of Fetch | `FetchProofs!FetchDrives` | `HonestSource`, `ChunkIds = Nat` |
| `WindowIsSource`, `WindowBounded`, `LocatesForward` of Fetch | `FetchProofs!FetchWindow`, `FetchBounded`, `FetchForward` | `HonestSource` |
| `TypeOK` (Fetch) | `FetchProofs!FetchType` | `HonestSource`, chunks in `ChunkIds` |
| `MaskIsLexed`, `CarryIsLexerState`, `TypeOK` (MCBlocks) | `BlockProofs!MaskLexed`, `CarryLexed`, `ScanTyped` | none |
| `TypeOK`, `PositionKept`, `ImplementsReads` (ForwardReader) | `ForwardProofs!ReaderTyped`, `PlaceKept`, `ReaderOrdered` | none |

### Types, books and eviction

`TypeOK` is not inductive alone: a task that iterates reads entries of its container,
so the invariant is `TypeInv == TypeOK /\ Entered`, where `Entered` says that an iteration
stands in a container. `SessionProofs` has the lemmas about the index's operators, and one
lemma per action.

`BooksBalance` compares a running total, adjusted by each write and each eviction, with a
sum over all nodes. A sum over a set is defined by recursion on it; here it is shown to be
a count, of the pairs of a node and a number up to its cost (`NatSets!SumIsUnits`), and of
counts the library knows how they behave under union and removal. The count satisfies the
sum's recursive equation, and no other function does: of the subsets on which another
would differ, one with the fewest elements leads to one with fewer. Least
counterexamples of this kind (`MinNat`) stand in for induction throughout.

`DeepestShedFirst`: eviction sheds nodes one at a time in the order of depth and recency,
so that what is shed comes before what is left, and it stops at the low-water mark. The node that
was just written is the youngest of its depth (`Stamped`), and is never taken while the
rest fits.

### Truth of the index

`CacheTruthful` alone is not inductive: what a call writes back it has carried
since its lookup, while other calls wrote and evicted. The invariant is
`SoundInv == TypeInv /\ CacheTruthful /\ TasksTruthful`, and `TaskTruthful` says what a
call may rely on at each stage from the text alone, never from the index as it is
now: the segments resolved lead to `start`; each recorded scan has members of the
container its key's path leads to (`ScanTruthful`); the seed stands in the container
about to be scanned (`SeedTruthful`); kept landmarks are elements at their indices;
an iteration is not past its children; the end of a located value is that of the
text. Because none of it mentions `nodes`, another call's step cannot disturb it
(`OneTask`). The argument needs that a path leads to one place only
(`SessionProofs!LeadsOnce`), so a key determines its container and a write finds
the node of the container it scanned, and that an offset is the place of one entry
only (`StandsOnce`), so the element at an array seed's offset is the one its index
names.

`DepthsAgree` is about containers with several keys. `LiesAt(v, d)` says that a value of the
text has `d` containers around it, and `LiesOnce` that this is one number: because a container's
entries lie inside it (`NestingAssumption`, `LiesInside`), two containers with one entry in
common are the same. `DeepInv` then says that every node's depth, every cursor's and the depth a
call adds to the segments it has resolved are those of the text (`NodeDeep`,
`CursorsDeep`, `CallsDeep`); a call keeps its cursor's anchor and depth to its last write (`CallerKept`).

### What the index keeps

`IndexRemembers`: `Keeps` relates a node to the one a step leaves
in its place: same start, members kept, a resume offset that does not go back, and a close
that stays known; one lemma per operation of the index shows it (`Advanced` never retreats,
`MergeArray` and `MergeObject` only add). That the close that stays known is the same close
is not the doing of any operation, `store_close` overwrites it: it is because the text bears
out both (`CacheTruthful` before and after the step).

### Answers

That a value is absent follows from a table with no hole in front of its mark, so here what
a call knows does depend on the index. `ReliesOn(t, k)` names the one node a call `t` counts on:
that of the object whose seed its scan resumes from, from the lookup until the scan is written
back; a scan that began at the first member, and an array's, count on none. `Spares` is
the step that sheds no node another call relies on. The invariant is
`CoveredInv == SoundInv /\ DensePrefix /\ TaskCovered(nodes, task[c])` for every call `c`.
`TaskCovered` says that in a scan that resumes at an object's mark the table at its key still
covers every member in front of the mark and has no member of the name looked for
(`SeedCovered`); that a recorded object scan is unbroken from the first member on, or is the
first of its record, seeded, and the table at its key covers what lies in front
(`ScanCovered`); and that the absence or the fault a call carries is real. Another call's
write-back only adds to the nodes it leaves (`IndexRemembers` again), so it cannot disturb this but
by an eviction, and that is what `Spares` excludes. Within the call's own write-back only the first
scan of a record can be a seeded one, and it is merged before any eviction of that
write-back happens, so the order in which `apply_scan_record` drains the record, first
container first, matters. Where a cap stops the table in mid-scan, `Reached` puts the
mark at the first member left out (`MergeObjectDense`). The refinement needs in
addition that a call in flight has been asked something and knows its status before it
writes back (`Asked`): each step then is one of Query's `Ask` and `Answer` or changes nothing
that Query sees.

`LoneCallSpares` proves `[][Spares]_vars` of a program with one call at a time, and where nothing is
shed it holds trivially (`RoomyIndexAnswers`). So the schedule of `session_race` is the only kind
that makes an answer wrong in a document that starts with its root value and whose names are
unique.

### The window

`WindowTrue`: `HonestSource => (DriveSpec => []WindowIsSource)`.
`HonestSource` excludes what `short_read` and `early_end` assume of a source.
`WindowIsSource` says nothing of the chunks a `read_chunks` call holds back until its
last read; the invariant `Kept` adds that those too are as long as the text allows
(`Holding`), and that the call stands in front of its end and never behind the
text's (`RunKept`). The arithmetic is in `Stretch`, `HonestOutcome` and `SplitHolds`: the
pieces a read is cut into are the chunks of the text, because a read that is not at
the end returns a whole number of them.

### The queries over the window

Drive leaves open what the walker does between two faults; `FetchDrives` closes it:
`Spec => DriveSpec`, a query never asks for a chunk it holds, for one behind a known end, or,
while the end is unknown, for one behind the chunk in which the source must report it. With
`WindowTrue` this is what makes the retry loop of `session.rs` safe to run over any scan.

*What walks read* (`WalkerProofs`). `Reach(w, from)` is where a scan may stand that started
at `from`: it has come there over bytes that were resident, and not past a known end.
`Missing(w, from)` is the set of chunks that hold the first byte such a scan lacks. Each function of
Walker, Resolver and the cursor has a lemma that it answers an offset in reach, a chunk in
`Missing`, or one of the other answers (`Answers`), and that a scan cut short stands in reach, where
it misses the same chunk again (`Steps`, `Resolving`). Strings and containers are
walked block by block, and there the chunk missed is in the block at hand (`NearMissing`), which
is what bounds the window. Loops need no induction over data: a turn is shown to keep a set, and
`NatSets!LoopRuns` takes that to the end of the loop.

*What a query keeps* (`FetchProofs`). The invariant `Inv` is `Kept`, `QueryKept(window, op)` and
`Waiting`. `QueryKept` says of every place noted between two steps (the resolution's, the walk's, the
cursors', the fields') that it is an offset, and not behind the text's end while the end is
unknown (`Fits`). It mentions no chunk: so it survives any
fill, drop or prune of the window, and a retry may stand where the first try stood (`KeptOn`).
Each action then follows the window's protocol and keeps it (`LocateFollows` and its like).

*What a query holds* (`FetchBounded`, `FetchForward`). `Inv` does not say what is resident. `RangedInv`
adds, while a call locates, peeks, walks or enters a value outside a projection, that from
the lowest byte it still needs (`LowestOf`, the code's `min_reachable`) on, the window and the
read under way hold chunks without a gap, that the first one lacking is not in front of the last
one read (`Lined`), and, in a string or a container, that they hold no more than the chunk there
and one burst (`Near`). The drop that comes with every miss keeps this, because the
floor is that lowest byte: what is left is exactly the stretch between it and the chunk that is
read next (`FaultLined`). TLC finds both invariants to hold on the instance of `fetch`, with a bound in place of the
natural numbers. None of this assumes that the text is JSON.

### The block scanner

`MaskLexed` says of blocks of any width what `scan_blocks` shows of 8 bytes: an addition and
log(width) shifts find what a lexer finds byte by byte. Four arguments meet in it.

- *Numbers.* A word's number is a sum of powers of two, so a count (`NumberIsUnits`); 2^n itself is
  known to the provers as the number of subsets of n elements (`PowerStep`). Each digit
  of the number is a bit of the word (`Digits`, `WordNumber`).
- *The addition of `find_escaped`.* `CarriedInto` says where a carry comes into a bit, namely where a run
  of backslashes with a start goes on up to it; `SumWord` is what the sum looks like bit by bit, and
  `SumDigits` shows it from the lowest bit up. The carry out of the block is the overflow (`SumOfRuns`).
- *Escapes.* A byte has an escape pending if the run in front of it is odd, which is that
  the carry comes into it just if it is on an even bit (`EscapeFound`). The invariant along the block
  covers the bit behind its end, which is why the overflow is the next block's `prev_escaped`.
- *Strings.* After n passes of `parity_prefix` bit b has the parity of the last 2^n bits up to b
  (`WindowPass`), and in the end of all of them (`PrefixIsParity`); the lexer is in a string if it
  started in one and met an even number of quotes, or the reverse (`StringFound`).

The inductive invariant `ScanInv` keeps the lexer's history over the block being filled, from the
carry up to now; TLC does not evaluate it, the histories being functions on all naturals, but
checks what it implies.

### The forward reader

`PlaceKept`: `Spec => []PositionKept`. The invariant `Kept` adds the shapes (`ReaderTyped` states
them as `TypeOK`, with the bound of the queue, `QueueKept`);
that a pass known to be drained stands at the source's end unless the reader was
closed (`PassKept`); what each stage of a read knows (`ReadingKept`): a read is at work
only for a request, its data are the bytes from its offset on, the pass has not come
farther than the read has taken; and that the pass never gets beyond what was asked
for (`ReachKept`). `ReaderOrdered`: `Spec => ImplementsReads`, that is, every step is a step
of `OrderedReads` or leaves its variables alone. A refusal needs `ReachKept`, the end that
is reported needs `PassKept`.

### Checked by TLC only

- Documents that repeat a name (where absence and finds can be wrong after an eviction, and are
  right in the runs' instances without one).
- What the scans over bytes find: `AnswersTrue`, `SamplesStand`, `DeliveredIsPrefix`. They compare a
  walk with functions of the text that go on byte by byte (`Json`), for which a proof would be an
  induction over the text. `BlockProofs` has the part of it that is about one block and
  the carry to the next.
- `ChildrenForward`, which is about well-formed texts: that a projection into a child stays inside
  the child is, again, what the text's brackets say.
- Liveness: `EveryCallAnswered`, `EveryReadSettles`.

## Not modelled

- Seekable sources (`seekable.ts`): wrappers of a buffer, a file and HTTP ranges. Their
  reads are `Outcomes` in Drive; validators and status codes of HTTP are not.
- Stream operators (`stream.ts`): generators over one upstream with one consumer, a
  function from a sequence to a sequence; nothing in them interleaves.
- Lifecycle (`open.ts`, `cursor.ts`): a flag that each operation reads once at its start.
  An operation of several native calls may meet a close between them; what its reads
  then get is in ForwardReader.
- Key decoding (`keys.rs`) and `with_key`; validation, defaults, wording (`lib.rs`,
  `args.ts`, `validate.ts`, `error.ts`); bindings, benchmarks, examples.

## What is left

That a walk finds the end of a value the lexer of `Json` finds, from the block lemmas, for every
text. A reference semantics for keys with escapes. Session's documents and Json's texts as one
module, so that Session's scans could be read off Fetch's.
