----------------------------- MODULE FetchProofs ------------------------------
(***************************************************************************)
(* A query over its window: every step of it is one the window allows, and *)
(* while it locates and walks a value it reads forward and holds little.   *)
(***************************************************************************)
EXTENDS WalkerProofs

(***************************************************************************)
(* A query between two steps: every place it has noted is one the window   *)
(* lets it stand at, and a scan that was cut short is one that can go on.  *)
(***************************************************************************)
\* The fields of a query, and shapes of what it notes.
Facets == DOMAIN Idle

\* The fields of a query.
LEMMA FacetsAre ==
  Facets = {"phase", "call", "cached", "resolve", "target", "start", "end", "skip", "burst",
            "cursor", "child", "inner", "fields", "values", "batch", "delivered", "answer"}
BY DEF Idle, Facets

\* A resolution that can go on in w.
Resumable(w, state, n) ==
  /\ state \in ResolutionShapes(n)
  /\ Fits(w, MinReachable(state))
  /\ state.seg = n => state.scan = NoScan

\* A walk over an extent that can.
Walkable(w, scan) == scan \in ScanShapes /\ Fits(w, scan.at)

CursorShapes == [kind : Opens, next : Nat, index : Nat]

\* A cursor that can go on.
Iterable(w, cursor) == cursor \in CursorShapes /\ Fits(w, cursor.next)

FieldKept(w, field) ==
  /\ DOMAIN field = {"path", "at"}
  /\ field.path \in Seq(Segments)
  /\ field.at # None => Fits(w, field.at.start) /\ field.at.end \in Nat

FieldsKept(w, fields) ==
  \A i \in DOMAIN fields : i \in Nat /\ FieldKept(w, fields[i])

\* What holds of a query in any phase.
Noted(w, o) ==
  /\ DOMAIN o = Facets
  /\ o.burst \in 1 .. MaxBurst
  /\ o.target \in Seq(Segments)
  /\ Resumable(w, o.resolve, Len(o.target))
  /\ Fits(w, o.start) /\ o.end \in Nat
  /\ Walkable(w, o.skip.scan)
  /\ o.cursor # None => Iterable(w, o.cursor)
  /\ Fits(w, o.child)
  /\ o.inner # None => Iterable(w, o.inner)
  /\ FieldsKept(w, o.fields)

\* What a phase needs besides.
Phased(o) ==
  /\ o.phase \in Phases
  /\ o.phase # "idle" => o.call \in CallShapes
  /\ o.phase \in {"child", "enter", "member", "yield", "paused"} => o.cursor # None
  /\ o.phase = "member" => o.inner # None

\* A query between two steps.
QueryKept(w, o) == Noted(w, o) /\ Phased(o)

\* Only a miss waits for a read.
Waiting == run # NoRun => op.phase \notin {"idle", "yield", "paused", "done"}
-----------------------------------------------------------------------------
\* A window that lets go of chunks, takes some in or learns its size lets a
\* query stand where it stood.
Onto(w, next) == next.size = w.size \/ next.size # Unsized

\* A place stays one where the window stays or learns its end.
LEMMA FitsOn ==
  ASSUME NEW w, NEW next, Onto(w, next), NEW o, Fits(w, o)
  PROVE  Fits(next, o)
BY DEF Onto, Fits

\* What is noted of a query stands while its window is filled, dropped or
\* cleared: none of it depends on what is resident (session.rs drive).
LEMMA KeptOn ==
  ASSUME NEW w, NEW next, Onto(w, next), NEW o, QueryKept(w, o)
  PROVE  QueryKept(next, o)
<1>1. \A p : Fits(w, p) => Fits(next, p)
  BY FitsOn
<1>2. Resumable(next, o.resolve, Len(o.target))
  BY <1>1 DEF QueryKept, Noted, Resumable
<1>3. Walkable(next, o.skip.scan)
  BY <1>1 DEF QueryKept, Noted, Walkable
<1>4. /\ o.cursor # None => Iterable(next, o.cursor)
      /\ o.inner # None => Iterable(next, o.inner)
  BY <1>1 DEF QueryKept, Noted, Iterable
<1>5. FieldsKept(next, o.fields)
  <2> SUFFICES ASSUME NEW i \in DOMAIN o.fields PROVE i \in Nat /\ FieldKept(next, o.fields[i])
    BY DEF FieldsKept
  <2>1. i \in Nat /\ FieldKept(w, o.fields[i])
    BY DEF QueryKept, Noted, FieldsKept
  <2> QED
    BY <1>1, <2>1 DEF FieldKept
<1>6. Fits(next, o.start) /\ Fits(next, o.child)
  BY <1>1 DEF QueryKept, Noted
<1> QED
  BY <1>2, <1>3, <1>4, <1>5, <1>6 DEF QueryKept, Noted

\* The text stays, and with it what is said of a query.
LEMMA StaysKept ==
  ASSUME text' = text, QueryKept(window', op')
  PROVE  QueryKept(window, op)'
<1>1. \A p : Fits(window', p) => Fits(window, p)'
  BY DEF Fits
<1> QED
  BY <1>1 DEF QueryKept, Noted, Phased, Resumable, Walkable, Iterable, FieldsKept, FieldKept
-----------------------------------------------------------------------------
\* Where a resolution starts.
LEMMA StartsResolving ==
  ASSUME NEW w, NEW o, Fits(w, o), NEW stride \in Nat, NEW n \in Nat
  PROVE  Resumable(w, ResolveFrom(o, stride), n)
<1>1. o \in Nat
  BY DEF Fits
<1> QED
  BY <1>1 DEF Resumable, ResolveFrom, ResolutionShapes, MinReachable, Recordings

\* A walk that starts is one that can go on.
LEMMA Walks ==
  ASSUME NEW w, NEW o, Fits(w, o)
  PROVE  Walkable(w, ScanFrom(o))
<1>1. o \in Nat
  BY DEF Fits
<1> QED
  BY <1>1 DEF Walkable, ScanShapes, ScanFrom, Carries, OutsideString, Samples

\* A query is in its phase, with a burst of one chunk.
LEMMA EnteringKept ==
  ASSUME NEW w, NEW o, Noted(w, o), NEW phase
  PROVE  /\ Noted(w, Entering(o, phase))
         /\ Entering(o, phase).phase = phase
         /\ Entering(o, phase).call = o.call
         /\ Entering(o, phase).cursor = o.cursor
         /\ Entering(o, phase).inner = o.inner
         /\ Entering(o, phase).values = o.values
         /\ Entering(o, phase).skip = o.skip
<1> DEFINE n == Entering(o, phase)
<1>1. DOMAIN n = Facets /\ \A f \in Facets \ {"phase", "burst"} : n[f] = o[f]
  BY FacetsAre DEF Entering, Noted
<1>2. n.phase = phase /\ n.burst = 1
  BY FacetsAre DEF Entering, Noted
<1> HIDE DEF n
<1>3. n.burst \in 1 .. MaxBurst
  BY <1>2, FetchAssumption
<1> QED
  BY <1>1, <1>2, <1>3, FacetsAre DEF Noted, n

(***************************************************************************)
(* What a step makes of a query (session.rs, stream.rs, eval.rs).          *)
(***************************************************************************)
\* n differs from o in some fields only.
Same(n, o, changed) == DOMAIN n = Facets /\ \A f \in Facets \ changed : n[f] = o[f]

\* A call that is over (session.rs drive).
LEMMA EndedKept ==
  ASSUME NEW w, QueryKept(w, op), op.phase # "idle", NEW answer
  PROVE  QueryKept(w, Ended(answer)) /\ Ended(answer).phase = "done"
<1> DEFINE n == Ended(answer)
<1>1. Same(n, op, {"phase", "answer", "batch"}) /\ n.phase = "done"
  BY FacetsAre DEF Ended, Same, QueryKept, Noted
<1> HIDE DEF n
<1> QED
  BY <1>1, FacetsAre DEF QueryKept, Noted, Phased, Phases, Same, n

\* The burst grows, within its cap.
LEMMA BurstKept ==
  ASSUME NEW n \in 1 .. MaxBurst
  PROVE  Doubled(n) \in 1 .. MaxBurst
BY FetchAssumption DEF Doubled, Least

\* The next field is one that was found.
LEMMA NextFieldKept ==
  ASSUME NEW w, NEW o, Noted(w, o), o.call \in CallShapes, o.cursor # None
  PROVE  QueryKept(w, NextField(o)) /\ NextField(o).cursor = o.cursor
<1> DEFINE found == {i \in DOMAIN o.fields : i > Len(o.values) /\ o.fields[i].at # None}
           On(s) == IF s = {}
                    THEN [Entering(o, "yield") EXCEPT !.values = Padded(@, Len(o.fields))]
                    ELSE LET field == o.fields[Min(s)]
                             onto  == [o EXCEPT !.values = Padded(@, Min(s) - 1)]
                         IN  IF field.path = <<>>
                             THEN [Entering(onto, "copy") EXCEPT !.start = field.at.start, !.end = field.at.end]
                             ELSE [Entering(onto, "locate") EXCEPT !.resolve = ResolveFrom(field.at.start, 0),
                                                                   !.target  = field.path]
<1>1. NextField(o) = On(found)
  <2>1. NextField(o) = CHOOSE x \in {On(s) : s \in {found}} : TRUE
    BY DEF NextField, Given
  <2> HIDE DEF On, found
  <2> QED
    BY <2>1
<1>2. CASE found = {}
  <2> DEFINE n == [Entering(o, "yield") EXCEPT !.values = Padded(@, Len(o.fields))]
             m == Entering(o, "yield")
  <2>1. Noted(w, m) /\ m.phase = "yield" /\ m.call = o.call /\ m.cursor = o.cursor
    BY EnteringKept
  <2> HIDE DEF m
  <2>2. Same(n, m, {"values"})
    BY <2>1, FacetsAre DEF Same, Noted, m
  <2>3. On(found) = n
    BY <1>2
  <2> HIDE DEF n, On, found
  <2>4. QueryKept(w, n) /\ n.cursor = o.cursor
    BY <2>1, <2>2, FacetsAre DEF QueryKept, Noted, Phased, Phases, Same
  <2> QED
    BY <1>1, <2>3, <2>4
<1>3. CASE found # {}
  <2> DEFINE field == o.fields[Min(found)]
             onto  == [o EXCEPT !.values = Padded(@, Min(found) - 1)]
             n1 == [Entering(onto, "copy") EXCEPT !.start = field.at.start, !.end = field.at.end]
             n2 == [Entering(onto, "locate") EXCEPT !.resolve = ResolveFrom(field.at.start, 0),
                                                    !.target  = field.path]
             m(phase) == Entering(onto, phase)
  <2>1. Min(found) \in found
    <3>1. found \in SUBSET Nat
      BY DEF Noted, FieldsKept
    <3> HIDE DEF found
    <3> QED
      BY <1>3, <3>1, MinNat
  <2>2. /\ FieldKept(w, field) /\ field.at # None
    BY <2>1 DEF Noted, FieldsKept
  <2>3. Noted(w, onto) /\ onto.call = o.call /\ onto.cursor = o.cursor
    <3>1. Same(onto, o, {"values"})
      BY FacetsAre DEF Same, Noted
    <3> HIDE DEF onto, found
    <3> QED
      BY <3>1, FacetsAre DEF Noted, Same
  <2>4. On(found) = IF field.path = <<>> THEN n1 ELSE n2
    BY <1>3
  <2> HIDE DEF found, field, onto, On
  <2>5. \A phase : /\ Noted(w, m(phase)) /\ m(phase).phase = phase
                   /\ m(phase).call = o.call /\ m(phase).cursor = o.cursor
    BY <2>3, EnteringKept
  <2> HIDE DEF m
  <2>6. QueryKept(w, n1) /\ n1.cursor = o.cursor
    <3>1. Same(n1, m("copy"), {"start", "end"}) /\ n1.start = field.at.start /\ n1.end = field.at.end
      BY <2>5, FacetsAre DEF Same, Noted, m
    <3> HIDE DEF n1
    <3> QED
      BY <2>2, <2>5, <3>1, FacetsAre DEF QueryKept, Noted, Phased, Phases, Same, FieldKept
  <2>7. QueryKept(w, n2) /\ n2.cursor = o.cursor
    <3>1. /\ Same(n2, m("locate"), {"resolve", "target"})
          /\ n2.resolve = ResolveFrom(field.at.start, 0) /\ n2.target = field.path
      BY <2>5, FacetsAre DEF Same, Noted, m
    <3>2. Resumable(w, ResolveFrom(field.at.start, 0), Len(field.path)) /\ field.path \in Seq(Segments)
      <4>1. Len(field.path) \in Nat /\ 0 \in Nat /\ field.path \in Seq(Segments)
        BY <2>2 DEF FieldKept
      <4> QED
        BY <2>2, <4>1, StartsResolving DEF FieldKept
    <3> HIDE DEF n2
    <3> QED
      BY <2>5, <3>1, <3>2, FacetsAre DEF QueryKept, Noted, Phased, Phases, Same
  <2> QED
    BY <1>1, <2>4, <2>6, <2>7
<1> QED
  BY <1>2, <1>3

\* A value joins those of its child (eval.rs project_one, project_map).
LEMMA EmittedKept ==
  ASSUME NEW w, NEW o, QueryKept(w, o), o.phase # "idle", o.cursor # None, NEW value
  PROVE  QueryKept(w, Emitted(o, value)) /\ Emitted(o, value).cursor # None
<1> DEFINE n == [o EXCEPT !.values = Append(@, value)]
<1>1. Same(n, o, {"values"})
  BY FacetsAre DEF Same, QueryKept, Noted
<1>2. Emitted(o, value) = NextField(n)
  BY DEF Emitted
<1> HIDE DEF n
<1>3. Noted(w, n) /\ n.call \in CallShapes /\ n.cursor # None
  BY <1>1, FacetsAre DEF QueryKept, Noted, Phased, Same
<1> QED
  BY <1>2, <1>3, NextFieldKept

\* A child's projection starts at fields whose paths are segments (eval.rs
\* project): Tail is a path where the call shape has one.
LEMMA ProjectChildKept ==
  ASSUME NEW w, NEW o, QueryKept(w, o), o.phase # "idle",
         NEW from, Fits(w, from), NEW child \in Children(w, from)
  PROVE  QueryKept(w, ProjectChild(o, child)) /\ ProjectChild(o, child).cursor # None
<1> DEFINE at    == Found(child.start, child.end)
           fresh == [o EXCEPT !.child = child.start, !.values = <<>>, !.cursor = child.cursor]
           shape == o.call.select.shape
           paths == o.call.select.paths
           n1 == [fresh EXCEPT !.fields = <<[path |-> <<>>, at |-> at]>>]
           n2 == [fresh EXCEPT !.fields = <<[path |-> paths[1], at |-> at]>>]
           n3 == [Entering(fresh, "enter") EXCEPT
                    !.fields = [i \in DOMAIN paths |-> [path |-> Tail(paths[i]), at |-> None]]]
<1>1. /\ Fits(w, child.start) /\ child.end \in Nat
      /\ Iterable(w, child.cursor)
  BY ReachFacts DEF Children, Cursors, Iterable, CursorShapes, Reach
<1>2. child.cursor # None
  BY DEF Children, Cursors, None
<1>3. /\ shape \in {"whole", "one", "map"} /\ paths \in Seq(Seq(Segments))
      /\ shape = "one" => paths # <<>>
      /\ shape = "map" => \A i \in DOMAIN paths : paths[i] # <<>>
  BY DEF QueryKept, Phased, CallShapes
<1>4. /\ Noted(w, fresh) /\ fresh.call = o.call /\ fresh.cursor = child.cursor
  <2>1. Same(fresh, o, {"child", "values", "cursor"}) /\ fresh.child = child.start
        /\ fresh.cursor = child.cursor
    BY FacetsAre DEF Same, QueryKept, Noted
  <2> HIDE DEF fresh
  <2> QED
    BY <1>1, <2>1, FacetsAre DEF QueryKept, Noted, Same
<1>5. FieldKept(w, [path |-> <<>>, at |-> at])
  BY <1>1 DEF FieldKept, Found, None
<1>6. o.call \in CallShapes
  BY DEF QueryKept, Phased
<1>7. CASE shape = "whole"
  <2>1. ProjectChild(o, child) = NextField(n1)
    BY <1>7 DEF ProjectChild
  <2> HIDE DEF fresh, at
  <2>2. Same(n1, fresh, {"fields"}) /\ n1.fields = <<[path |-> <<>>, at |-> at]>>
    BY <1>4, FacetsAre DEF Same, Noted
  <2>3. FieldsKept(w, <<[path |-> <<>>, at |-> at]>>)
    BY <1>5 DEF FieldsKept
  <2> HIDE DEF n1
  <2>4. Noted(w, n1) /\ n1.call \in CallShapes /\ n1.cursor # None
    BY <1>2, <1>4, <1>6, <2>2, <2>3, FacetsAre DEF Noted, Same
  <2> QED
    BY <2>1, <2>4, NextFieldKept
<1>8. CASE shape = "one"
  <2>1. ProjectChild(o, child) = NextField(n2)
    BY <1>8 DEF ProjectChild
  <2> DEFINE field == [path |-> paths[1], at |-> at]
  <2>2. FieldKept(w, field)
    <3>1. paths[1] \in Seq(Segments)
      BY <1>3, <1>8
    <3> QED
      BY <1>1, <3>1 DEF FieldKept, Found, None
  <2> HIDE DEF fresh, at, field
  <2>3. Same(n2, fresh, {"fields"}) /\ n2.fields = <<field>>
    BY <1>4, FacetsAre DEF Same, Noted, field
  <2>4. FieldsKept(w, <<field>>)
    BY <2>2 DEF FieldsKept
  <2> HIDE DEF n2
  <2>5. Noted(w, n2) /\ n2.call \in CallShapes /\ n2.cursor # None
    BY <1>2, <1>4, <1>6, <2>3, <2>4, FacetsAre DEF Noted, Same
  <2> QED
    BY <2>1, <2>5, NextFieldKept
<1>9. CASE shape = "map"
  <2>1. ProjectChild(o, child) = n3
    BY <1>9 DEF ProjectChild
  <2> DEFINE m == Entering(fresh, "enter")
             fields == [i \in DOMAIN paths |-> [path |-> Tail(paths[i]), at |-> None]]
  <2> HIDE DEF fresh
  <2>2. Noted(w, m) /\ m.phase = "enter" /\ m.call = o.call /\ m.cursor = child.cursor
    BY <1>4, EnteringKept
  <2>3. FieldsKept(w, fields)
    <3> SUFFICES ASSUME NEW i \in DOMAIN paths
                 PROVE i \in Nat /\ Tail(paths[i]) \in Seq(Segments)
      BY DEF FieldsKept, FieldKept
    <3>1. paths[i] \in Seq(Segments) /\ paths[i] # <<>> /\ i \in Nat
      BY <1>3, <1>9
    <3> QED
      BY <3>1, HeadTailProperties
  <2> HIDE DEF m, fields
  <2>4. Same(n3, m, {"fields"}) /\ n3.fields = fields
    BY <2>2, FacetsAre DEF Same, Noted, m, fields
  <2> HIDE DEF n3
  <2>5. QueryKept(w, n3) /\ n3.cursor # None
    BY <1>2, <1>6, <2>2, <2>3, <2>4, FacetsAre DEF QueryKept, Noted, Phased, Phases, Same
  <2> QED
    BY <2>1, <2>5
<1> QED
  BY <1>3, <1>7, <1>8, <1>9

\* The fields a member was matched to are found (eval.rs project_map).
LEMMA MatchedKept ==
  ASSUME NEW w, NEW o, QueryKept(w, o), o.phase # "idle", o.cursor # None,
         NEW from, Fits(w, from), NEW member \in Children(w, from)
  PROVE  Noted(w, Matched(o, member)) /\ Same(Matched(o, member), o, {"fields"})
<1> DEFINE n == Matched(o, member)
           at == Found(member.start, member.end)
           is(i) == i \in Unmatched(o) /\ Head(o.call.select.paths[i]) = member.segment
           fields == [i \in DOMAIN o.fields |->
                        IF is(i) THEN [o.fields[i] EXCEPT !.at = at] ELSE o.fields[i]]
<1>1. Same(n, o, {"fields"}) /\ n.fields = fields
  BY FacetsAre DEF Same, QueryKept, Noted, Matched
<1>2. Fits(w, member.start) /\ member.end \in Nat
  BY ReachFacts DEF Children, Reach
<1>3. FieldsKept(w, fields)
  <2> SUFFICES ASSUME NEW i \in DOMAIN o.fields PROVE i \in Nat /\ FieldKept(w, fields[i])
    BY DEF FieldsKept
  <2>1. i \in Nat /\ FieldKept(w, o.fields[i])
    BY DEF QueryKept, Noted, FieldsKept
  <2>2. CASE ~is(i)
    <3> HIDE DEF is
    <3> QED
      BY <2>1, <2>2
  <2>3. CASE is(i)
    <3>1. fields[i] = [o.fields[i] EXCEPT !.at = at]
      BY <2>3
    <3> HIDE DEF is, fields
    <3>2. at.start = member.start /\ at.end = member.end
      BY DEF Found
    <3> HIDE DEF at
    <3> QED
      BY <1>2, <2>1, <3>1, <3>2 DEF FieldKept
  <2> QED
    BY <2>2, <2>3
<1> HIDE DEF n, fields
<1> QED
  BY <1>1, <1>3, FacetsAre DEF QueryKept, Noted, Same, n

(***************************************************************************)
(* The query's places as the walks take them, and what they miss.          *)
(***************************************************************************)
\* What a scan lacks may be asked for (session.rs drive, chunks.rs).
LEMMA MissAskable ==
  ASSUME Kept, NEW o, Fits(window, o), NEW c \in Missing(window, o)
  PROVE  c \in Nat /\ Askable(c)
<1>1. PICK p \in Lacking(window, o) : c = ChunkOf(p)
  BY DEF Missing
<1>2. /\ p \in Nat /\ Fits(window, p) /\ ~Resident(window, p) /\ ~PastEnd(window, p)
  BY <1>1 DEF Lacking, Reach
<1>3. /\ ChunkOf(p) \in Nat /\ ChunkOf(p) * ChunkBytes \in Nat /\ ChunkOf(p) * ChunkBytes <= p
  <2>1. /\ ChunkOf(p) \in Nat /\ ChunkOf(p) * ChunkBytes \in Nat
        /\ p = ChunkOf(p) * ChunkBytes + (p % ChunkBytes)
        /\ p % ChunkBytes \in 0 .. ChunkBytes - 1 /\ ChunkBytes \in Nat
    BY <1>2, ChunkFacts
  <2> DEFINE start == ChunkOf(p) * ChunkBytes
             r == p % ChunkBytes
  <2>2. start \in Nat /\ p = start + r /\ r \in 0 .. ChunkBytes - 1 /\ ChunkBytes \in Nat
    BY <2>1
  <2> HIDE DEF start, r
  <2>3. start <= p
    BY <2>2
  <2> QED
    BY <2>1, <2>3 DEF start
<1>4. window.size \in {Unsized, Len(text)} /\ Len(text) \in Nat
  BY DriveAssumption DEF Kept, WindowKept, Shows
<1> DEFINE start == ChunkOf(p) * ChunkBytes
<1>5. IF window.size = Unsized THEN start <= Len(text) ELSE start < window.size
  <2>1. start \in Nat /\ start <= p
    BY <1>3
  <2> HIDE DEF start
  <2> QED
    BY <1>2, <1>4, <2>1 DEF Fits, PastEnd
<1> QED
  BY <1>1, <1>2, <1>3, <1>5 DEF Askable, Resident

\* The window a query keeps shows the text.
LEMMA SightKept ==
  ASSUME Kept
  PROVE  SightOf(window)
BY DEF Kept, WindowKept, SightOf

\* What is in reach of a place is a place.
LEMMA ReachFits ==
  ASSUME NEW w, NEW from, NEW o \in Reach(w, from)
  PROVE  Fits(w, o) /\ o \in Nat
BY DEF Reach

\* A resolution that can go on is one at its own place, and the other way round.
LEMMA ResumableThere ==
  ASSUME NEW w, NEW n \in Nat, NEW state, Resumable(w, state, n)
  PROVE  Fits(w, MinReachable(state)) /\ state \in Resolutions(w, MinReachable(state), n)
<1>1. Fits(w, MinReachable(state))
  BY DEF Resumable
<1>2. MinReachable(state) \in Reach(w, MinReachable(state))
  BY <1>1, ReachFacts
<1> QED
  BY <1>1, <1>2 DEF Resumable, Resolutions

\* A resolution that has moved is noted as one that can go on.
LEMMA ResumableHere ==
  ASSUME NEW w, NEW from, NEW n, NEW state \in Resolutions(w, from, n)
  PROVE  Resumable(w, state, n)
<1>1. MinReachable(state) \in Reach(w, from)
  BY DEF Resolutions
<1>2. Fits(w, MinReachable(state))
  BY <1>1, ReachFits
<1> QED
  BY <1>2 DEF Resolutions, Resumable

\* A walk that was noted goes on from where it stands.
LEMMA WalkableThere ==
  ASSUME NEW w, NEW scan, Walkable(w, scan)
  PROVE  Fits(w, scan.at) /\ scan \in Scans(w, scan.at)
<1>1. Fits(w, scan.at) /\ scan \in ScanShapes
  BY DEF Walkable
<1>2. scan.at \in Reach(w, scan.at)
  BY <1>1, ReachFacts
<1> QED
  BY <1>1, <1>2, ScanShaped

\* A walk that has moved is noted as one that can go on.
LEMMA WalkableHere ==
  ASSUME NEW w, NEW from, NEW scan \in Scans(w, from)
  PROVE  Walkable(w, scan)
<1>1. scan \in ScanShapes
  BY ScanShaped
<1>2. scan.at \in Reach(w, from)
  BY DEF Scans
<1> QED
  BY <1>1, <1>2, ReachFits DEF Walkable

\* A cursor that was noted goes on from the child behind.
LEMMA IterableThere ==
  ASSUME NEW w, NEW cursor, Iterable(w, cursor)
  PROVE  Fits(w, cursor.next) /\ cursor \in Cursors(w, cursor.next)
<1>1. Fits(w, cursor.next) /\ cursor \in CursorShapes
  BY DEF Iterable
<1>2. cursor.next \in Reach(w, cursor.next)
  BY <1>1, ReachFacts
<1> QED
  BY <1>1, <1>2 DEF CursorShapes, Cursors

\* A cursor that has moved is noted as one that can go on.
LEMMA IterableHere ==
  ASSUME NEW w, NEW from, NEW cursor \in Cursors(w, from)
  PROVE  Iterable(w, cursor) /\ cursor # None
<1>1. cursor.next \in Reach(w, from)
  BY DEF Cursors
<1>2. cursor # None
  BY DEF Cursors, None
<1> QED
  BY <1>1, <1>2, ReachFits DEF Cursors, CursorShapes, Iterable
-----------------------------------------------------------------------------
\* What a value that was located is wanted for (session.rs run_locate).
LEMMA AfterLocateKept ==
  ASSUME NEW w, QueryKept(w, op), op.phase = "locate", NEW start, Fits(w, start),
         NEW state, Resumable(w, state, Len(op.target))
  PROVE  QueryKept(w, [AfterLocate(start) EXCEPT !.resolve = state])
<1> DEFINE o == [op EXCEPT !.start = start, !.skip = Unread(start)]
           phase == IF Projecting THEN "skip"
                    ELSE CASE op.call.do = "has"  -> "peek"
                           [] op.call.do = "get"  -> IF op.cached THEN "peek" ELSE "skip"
                           [] op.call.do = "iter" -> "open"
           n == [Entering(o, phase) EXCEPT !.resolve = state]
<1>1. op.call \in CallShapes /\ op.call.do \in {"has", "get", "iter"}
  BY DEF QueryKept, Phased, CallShapes
<1>2. phase \in {"skip", "peek", "open"} /\ AfterLocate(start) = Entering(o, phase)
  BY <1>1 DEF AfterLocate
<1> HIDE DEF phase
<1>3. Noted(w, o) /\ o.call = op.call
  <2>1. Same(o, op, {"start", "skip"}) /\ o.start = start /\ o.skip = Unread(start)
    BY FacetsAre DEF Same, QueryKept, Noted
  <2>2. Walkable(w, Unread(start).scan)
    BY Walks DEF Unread
  <2> HIDE DEF o
  <2> QED
    BY <2>1, <2>2, FacetsAre DEF QueryKept, Noted, Same
<1> DEFINE m == Entering(o, phase)
<1> HIDE DEF o
<1>4. Noted(w, m) /\ m.phase = phase /\ m.call = op.call
  BY <1>3, EnteringKept
<1>5. m.target = op.target
  <2>1. m.target = o.target /\ o.target = op.target
    BY <1>3, FacetsAre DEF Entering, Noted, QueryKept, o
  <2> QED
    BY <2>1
<1> HIDE DEF m
<1>6. Same(n, m, {"resolve"}) /\ n.resolve = state
  BY <1>4, FacetsAre DEF Same, Noted, m
<1> HIDE DEF n
<1>7. QueryKept(w, n)
  BY <1>1, <1>2, <1>4, <1>5, <1>6, FacetsAre DEF QueryKept, Noted, Phased, Phases, Same
<1> QED
  BY <1>2, <1>7 DEF n

\* What a located value is handed on to (session.rs locate).
LEMMA AfterLocateIs ==
  ASSUME NEW w, QueryKept(w, op), op.phase = "locate", NEW start, NEW state
  PROVE  LET n == [AfterLocate(start) EXCEPT !.resolve = state]
         IN  /\ n.phase \in {"skip", "peek", "open"}
             /\ n.cursor = op.cursor /\ n.start = start /\ n.skip.byte = "unread"
<1> DEFINE o == [op EXCEPT !.start = start, !.skip = Unread(start)]
           phase == IF Projecting THEN "skip"
                    ELSE CASE op.call.do = "has"  -> "peek"
                           [] op.call.do = "get"  -> IF op.cached THEN "peek" ELSE "skip"
                           [] op.call.do = "iter" -> "open"
           m == Entering(o, phase)
           n == [m EXCEPT !.resolve = state]
<1>1. op.call.do \in {"has", "get", "iter"}
  BY DEF QueryKept, Phased, CallShapes
<1>2. phase \in {"skip", "peek", "open"} /\ AfterLocate(start) = m
  BY <1>1 DEF AfterLocate
<1> HIDE DEF phase
<1>3. /\ DOMAIN o = Facets
      /\ o.start = start /\ o.skip = Unread(start) /\ o.cursor = op.cursor
  BY FacetsAre DEF QueryKept, Noted
<1> HIDE DEF o
<1>4. /\ DOMAIN m = Facets /\ m.phase = phase
      /\ m.start = start /\ m.skip = Unread(start) /\ m.cursor = op.cursor
  BY <1>3, FacetsAre DEF Entering
<1> HIDE DEF m
<1>5. /\ n.phase = phase /\ n.start = start /\ n.skip = Unread(start) /\ n.cursor = op.cursor
  BY <1>4, FacetsAre
<1> HIDE DEF n
<1> QED
  BY <1>2, <1>5 DEF Unread, n

(***************************************************************************)
(* Every step of a query is one of the window it drives.                   *)
(***************************************************************************)
\* The inductive invariant of a query and its window.
Inv ==
  /\ Kept
  /\ QueryKept(window, op)
  /\ Waiting

\* What a query may do to its window (session.rs drive), and to nothing it has
\* not opened anew.
Onwards ==
  \/ \E c \in Nat, floor \in Nat, n \in Nat \ {0} : Askable(c) /\ Fault(c, n, floor)
  \/ Receive \/ Reject \/ CloseWindow
  \/ \E floor \in Nat : Prune(floor)
  \/ UNCHANGED driveVars

\* The step is one of the window's, and the query after it kept.
Follows == (Onwards \/ OpenWindow) /\ QueryKept(window, op)' /\ Waiting'

\* The window of the same text, its end forgotten at no step.
LEMMA OnwardsOnto ==
  ASSUME Kept, Onwards
  PROVE  text' = text /\ Onto(window, window')
<1>0. window = [size |-> window.size, chunks |-> window.chunks]
  BY DEF Kept, WindowKept
<1>1. ASSUME NEW c \in Nat, NEW floor \in Nat, NEW n \in Nat, Fault(c, n, floor)
      PROVE  text' = text /\ Onto(window, window')
  BY <1>0, <1>1 DEF Fault, DropBelow, Onto
<1>2. CASE Receive
  <2>1. /\ text' = text
        /\ window' = window \/ \E out, end : window' = Filled(window, out, end)
    BY <1>2 DEF Receive
  <2>2. ASSUME NEW out, NEW end, window' = Filled(window, out, end)
        PROVE  Onto(window, window')
    <3> DEFINE chunks == Inserted(window.chunks, out)
    <3>1. \/ window' = [window EXCEPT !.chunks = chunks]
          \/ /\ [window EXCEPT !.chunks = chunks].size = Unsized
             /\ window' = [[window EXCEPT !.chunks = chunks] EXCEPT !.size = end]
      BY <2>2 DEF Filled, SetSourceSize
    <3> HIDE DEF chunks
    <3> QED
      BY <1>0, <3>1 DEF Onto
  <2> QED
    BY <2>1, <2>2 DEF Onto
<1>3. CASE Reject \/ UNCHANGED driveVars
  BY <1>3 DEF Reject, driveVars, Onto
<1>4. CASE CloseWindow \/ \E floor \in Nat : Prune(floor)
  <2>1. text' = text /\ (window' = Cleared(window) \/ \E floor \in Nat : window' = DropBelow(window, floor))
    BY <1>4 DEF CloseWindow, Prune
  <2> QED
    BY <1>0, <2>1 DEF Cleared, DropBelow, Onto
<1> QED
  BY <1>1, <1>2, <1>3, <1>4 DEF Onwards

\* A step that follows on the window it finds: what is noted of the query after
\* it may be said of the window before it.
LEMMA FollowsOn ==
  ASSUME Kept, Onwards, QueryKept(window, op'),
         run' # NoRun => op'.phase \notin {"idle", "yield", "paused", "done"}
  PROVE  Follows
<1>1. text' = text /\ Onto(window, window')
  BY OnwardsOnto
<1>2. QueryKept(window', op')
  BY <1>1, KeptOn
<1>3. QueryKept(window, op)'
  BY <1>1, <1>2, StaysKept
<1>4. Waiting'
  BY DEF Waiting
<1> QED
  BY <1>3, <1>4 DEF Follows

\* A step that reads nothing.
LEMMA GetsOn ==
  ASSUME Inv, run = NoRun, NEW next, Onward(next), QueryKept(window, next)
  PROVE  Follows
<1>1. Onwards /\ op' = next /\ run' = NoRun
  BY DEF Onward, Onwards, driveVars
<1> QED
  BY <1>1, FollowsOn DEF Inv

\* A step that misses a chunk from its floor on.
LEMMA Misses ==
  ASSUME Inv, NEW floor, Fits(window, floor), NEW c \in Missing(window, floor),
         NEW n \in Nat \ {0}, NEW waiting, QueryKept(window, waiting),
         waiting.phase = op.phase,
         op.phase \notin {"idle", "yield", "paused", "done"},
         Missed(c, n, floor, waiting)
  PROVE  Follows
<1>1. c \in Nat /\ Askable(c)
  BY MissAskable DEF Inv
<1>2. ChunkOf(floor) \in Nat
  BY ChunkFacts DEF Fits
<1>3. Fault(c, n, ChunkOf(floor)) /\ op' = waiting
  BY DEF Missed
<1>4. Onwards
  BY <1>1, <1>2, <1>3 DEF Onwards
<1> QED
  BY <1>3, <1>4, FollowsOn DEF Inv

\* A stream that goes on to a child lets go of what lies in front of it.
LEMMA PrunesTo ==
  ASSUME Inv, run = NoRun, NEW o, Fits(window, o), PruneTo(o), QueryKept(window, op')
  PROVE  Follows
<1>1. ChunkOf(o) \in Nat
  BY ChunkFacts DEF Fits
<1>2. /\ UNCHANGED <<text, declared, run, lastRead>>
      /\ window' = Cleared(window) \/ window' = DropBelow(window, ChunkOf(o))
  BY DEF PruneTo, PruneWindow
<1>3. CloseWindow \/ Prune(ChunkOf(o))
  BY <1>2 DEF CloseWindow, Prune
<1>4. Onwards /\ run' = NoRun
  BY <1>1, <1>2, <1>3 DEF Onwards
<1> QED
  BY <1>4, FollowsOn DEF Inv

\* A stream that is over lets its window go (stream.rs).
LEMMA LetsGo ==
  ASSUME Inv, CloseWindow, QueryKept(window, op')
  PROVE  Follows
<1>1. Onwards /\ run' = NoRun
  BY DEF Onwards, CloseWindow
<1> QED
  BY <1>1, FollowsOn DEF Inv

\* A call that stops short.
LEMMA Stops ==
  ASSUME Inv, run = NoRun, op.phase # "idle", NEW answer, Stopped(answer)
  PROVE  Follows
<1>1. op' = Ended(answer) /\ QueryKept(window, op')
  BY EndedKept DEF Inv, Stopped
<1>2. CASE Projecting
  <2>1. PruneTo(op.cursor.next)
    BY <1>2 DEF Stopped
  <2>2. Fits(window, op.cursor.next)
    BY <1>2 DEF Inv, QueryKept, Noted, Iterable, Projecting
  <2> QED
    BY <1>1, <2>1, <2>2, PrunesTo
<1>3. CASE ~Projecting /\ op.call.do = "iter"
  <2>1. CloseWindow
    BY <1>3 DEF Stopped
  <2> QED
    BY <1>1, <2>1, LetsGo
<1>4. CASE ~Projecting /\ op.call.do # "iter"
  <2>1. Onward(Ended(answer))
    BY <1>1, <1>4 DEF Stopped, Onward
  <2> QED
    BY <1>1, <2>1, GetsOn
<1> QED
  BY <1>2, <1>3, <1>4

\* A call opens its window and starts at the root (session.rs has, get,
\* iter).
LEMMA AskFollows ==
  ASSUME Inv, NEW call \in Calls, Ask(call)
  PROVE  Follows
<1>1. PICK cached \in BOOLEAN :
        op' = [Idle EXCEPT !.phase = "locate", !.call = call, !.target = call.path,
                           !.cached = cached,
                           !.resolve = ResolveFrom(0, IF cached THEN Stride ELSE 0)]
  BY DEF Ask
<1> DEFINE stride == IF cached THEN Stride ELSE 0
           n == [Idle EXCEPT !.phase = "locate", !.call = call, !.target = call.path,
                             !.cached = cached, !.resolve = ResolveFrom(0, stride)]
<1>2. call \in CallShapes /\ call.path \in Seq(Segments) /\ Len(call.path) \in Nat
      /\ stride \in Nat
  BY FetchAssumption DEF CallShapes
<1>3. OpenWindow /\ text' = text /\ window' = NewWindow /\ run' = NoRun
  BY DEF Ask, OpenWindow
<1>4. Fits(NewWindow, 0)
  <2>1. Len(text) \in Nat
    BY DriveAssumption DEF Inv, Kept
  <2> QED
    BY <2>1 DEF Fits
<1>5. /\ DOMAIN n = Facets
      /\ n.phase = "locate" /\ n.call = call /\ n.target = call.path
      /\ n.resolve = ResolveFrom(0, stride)
      /\ n.start = 0 /\ n.end = 0 /\ n.burst = 1 /\ n.skip = Unread(0)
      /\ n.cursor = None /\ n.child = 0 /\ n.inner = None /\ n.fields = <<>>
  BY DEF Idle, Facets
<1>6. /\ Resumable(NewWindow, ResolveFrom(0, stride), Len(call.path))
      /\ Walkable(NewWindow, Unread(0).scan)
  BY <1>2, <1>4, StartsResolving, Walks DEF Unread
<1> HIDE DEF n
<1>7. QueryKept(NewWindow, n)
  BY <1>2, <1>4, <1>5, <1>6, FetchAssumption DEF QueryKept, Noted, Phased, Phases, FieldsKept
<1>8. QueryKept(window, op)'
  BY <1>1, <1>3, <1>7, StaysKept DEF n
<1>9. Waiting'
  BY <1>3 DEF Waiting
<1> QED
  BY <1>3, <1>8, <1>9 DEF Follows

\* What locating comes to (session.rs run_locate): a chunk is missed from the
\* place the resolution has got to, the value is found behind it, or there is none.
LEMMA LocateComesTo ==
  ASSUME Inv, Locate
  PROVE  LET from == MinReachable(op.resolve)
             n    == Len(op.target)
         IN  /\ Fits(window, from) /\ n \in Nat
             /\ \/ \E state \in Resolutions(window, from, n) :
                     \E c \in Missing(window, MinReachable(state)) :
                       Missed(c, op.burst, MinReachable(state),
                              [op EXCEPT !.resolve = state, !.burst = Doubled(@)])
                \/ \E state \in Resolutions(window, from, n), start \in Reach(window, from) :
                     Onward([AfterLocate(start) EXCEPT !.resolve = state])
                \/ Projecting /\ Onward(Emitted(op, Null))
                \/ \E answer : Stopped(answer)
<1> DEFINE step == ResolveStep(window, op.target, op.resolve)
           from == MinReachable(op.resolve)
           n == Len(op.target)
           r == step.result
<1>1. /\ QueryKept(window, op) /\ SightOf(window)
      /\ run = NoRun /\ op.phase = "locate"
  BY SightKept DEF Inv, Locate, At
<1>2. /\ Fits(window, from) /\ op.resolve \in Resolutions(window, from, n)
      /\ op.target \in Seq(Segments) /\ n \in Nat
  <2>1. op.target \in Seq(Segments) /\ n \in Nat /\ Resumable(window, op.resolve, n)
    BY <1>1 DEF QueryKept, Noted
  <2> QED
    BY <2>1, ResumableThere
<1>3. step \in Resolving(window, from, n)
  BY <1>1, <1>2, ResolveSound
<1>4. /\ r.is = "miss"   => Missed(r.of, op.burst, MinReachable(step.scan),
                                  [op EXCEPT !.resolve = step.scan, !.burst = Doubled(@)])
      /\ r.is = "ok"     => Onward([AfterLocate(r.of) EXCEPT !.resolve = step.scan])
      /\ r.is = "failed" => Stopped(r)
      /\ r.is \notin {"miss", "ok", "failed"} => AfterNothing(r)
  <2> HIDE DEF from, n
  <2> QED
    BY DEF Locate
<1> HIDE DEF step
<1>5. /\ step.scan \in Resolutions(window, from, n)
      /\ r \in Answers(Reach(window, from), Missing(window, MinReachable(step.scan)))
  BY <1>3 DEF Resolving
<1>6. /\ r.is = "miss" => r.of \in Missing(window, MinReachable(step.scan))
      /\ r.is = "ok"   => r.of \in Reach(window, from)
  BY <1>5, AnswerKinds
<1> HIDE DEF from, n, r
<1>7. CASE r.is = "miss"
  BY <1>2, <1>4, <1>5, <1>6, <1>7 DEF from, n
<1>8. CASE r.is = "ok"
  BY <1>2, <1>4, <1>5, <1>6, <1>8 DEF from, n
<1>9. CASE r.is \notin {"miss", "ok"}
  BY <1>2, <1>4, <1>9 DEF AfterNothing, from, n
<1> QED
  BY <1>7, <1>8, <1>9

\* Locating: on a miss the resolution is noted and the lowest byte it needs
\* is the floor (session.rs drive, resolve.rs min_reachable).
LEMMA LocateFollows ==
  ASSUME Inv, Locate
  PROVE  Follows
<1> DEFINE from == MinReachable(op.resolve)
           n == Len(op.target)
<1>1. QueryKept(window, op) /\ run = NoRun /\ op.phase = "locate"
  BY DEF Inv, Locate, At
<1>2. /\ op.burst \in Nat \ {0} /\ Doubled(op.burst) \in 1 .. MaxBurst
  BY <1>1, BurstKept, FetchAssumption DEF QueryKept, Noted
<1>3. /\ Fits(window, from) /\ n \in Nat
      /\ \/ \E state \in Resolutions(window, from, n) :
              \E c \in Missing(window, MinReachable(state)) :
                Missed(c, op.burst, MinReachable(state),
                       [op EXCEPT !.resolve = state, !.burst = Doubled(@)])
         \/ \E state \in Resolutions(window, from, n), start \in Reach(window, from) :
              Onward([AfterLocate(start) EXCEPT !.resolve = state])
         \/ Projecting /\ Onward(Emitted(op, Null))
         \/ \E answer : Stopped(answer)
  BY LocateComesTo
<1> HIDE DEF from
<1>4. ASSUME NEW state \in Resolutions(window, from, n), NEW c \in Missing(window, MinReachable(state)),
             Missed(c, op.burst, MinReachable(state),
                    [op EXCEPT !.resolve = state, !.burst = Doubled(@)])
      PROVE  Follows
  <2> DEFINE missed == [op EXCEPT !.resolve = state, !.burst = Doubled(@)]
  <2>1. Resumable(window, state, n) /\ Fits(window, MinReachable(state))
    BY <1>3, ResumableHere DEF Resumable
  <2>2. /\ Same(missed, op, {"resolve", "burst"}) /\ missed.resolve = state
        /\ missed.burst = Doubled(op.burst)
    BY <1>1, FacetsAre DEF Same, QueryKept, Noted
  <2>3. Missed(c, op.burst, MinReachable(state), missed)
    BY <1>4
  <2> HIDE DEF missed
  <2>4. QueryKept(window, missed) /\ missed.phase = op.phase
    BY <1>1, <1>2, <2>1, <2>2, FacetsAre DEF QueryKept, Noted, Phased, Phases, Same
  <2> QED
    BY <1>1, <1>2, <2>1, <2>3, <2>4, Misses
<1>5. ASSUME NEW state \in Resolutions(window, from, n), NEW start \in Reach(window, from),
             Onward([AfterLocate(start) EXCEPT !.resolve = state])
      PROVE  Follows
  <2>1. Resumable(window, state, n) /\ Fits(window, start)
    BY ResumableHere, ReachFits
  <2>2. QueryKept(window, [AfterLocate(start) EXCEPT !.resolve = state])
    BY <1>1, <2>1, AfterLocateKept
  <2> QED
    BY <1>1, <1>5, <2>2, GetsOn
<1>6. ASSUME Projecting, Onward(Emitted(op, Null)) PROVE Follows
  <2>1. QueryKept(window, Emitted(op, Null))
    BY <1>1, <1>6, EmittedKept DEF Projecting
  <2> QED
    BY <1>1, <1>6, <2>1, GetsOn
<1>7. ASSUME NEW answer, Stopped(answer) PROVE Follows
  BY <1>1, <1>7, Stops
<1> QED
  BY <1>3, <1>4, <1>5, <1>6, <1>7

\* What a peek behind whitespace misses.
LEMMA PeekedSound ==
  ASSUME NEW w, SightOf(w), NEW from, Fits(w, from)
  PROVE  LET byte == Then(SkipWhitespace(w, from), LAMBDA o : ReadByte(w, o))
         IN  byte.is = "miss" => byte.of \in Missing(w, from)
<1> DEFINE first == SkipWhitespace(w, from)
           On(r) == IF r.is = "ok" THEN ReadByte(w, r.of) ELSE r
           byte == Then(first, LAMBDA o : ReadByte(w, o))
<1>1. byte = On(first)
  <2>1. byte = CHOOSE x \in {On(r) : r \in {first}} : TRUE
    BY DEF Then, Given
  <2> HIDE DEF On, first, byte
  <2> QED
    BY <2>1
<1>2. first \in Answers(Reach(w, from), Missing(w, from))
  BY WhitespaceSound
<1> HIDE DEF first, byte
<1>3. CASE first.is = "ok"
  <2>1. first.of \in Reach(w, from)
    BY <1>2, <1>3, AnswerKinds
  <2>2. byte = ReadByte(w, first.of)
    BY <1>1, <1>3
  <2>3. Fits(w, first.of) /\ Missing(w, first.of) \subseteq Missing(w, from)
    BY <2>1, ReachFacts
  <2>4. byte \in Answers(Bytes \cup {"none"}, Missing(w, first.of))
    BY <2>2, <2>3, ReadByteSound
  <2>5. byte.is = "miss" => byte.of \in Missing(w, first.of)
    BY <2>4, AnswerKinds
  <2> QED
    BY <2>3, <2>5 DEF byte, first
<1>4. CASE first.is # "ok"
  <2>1. byte = first
    BY <1>1, <1>4
  <2>2. byte.is = "miss" => byte.of \in Missing(w, from)
    BY <1>2, <2>1, AnswerKinds
  <2> QED
    BY <2>2 DEF byte, first
<1> QED
  BY <1>3, <1>4

\* A query between two of its phases.
LEMMA EntersPhase ==
  ASSUME NEW w, NEW o, QueryKept(w, o), o.phase # "idle",
         NEW phase \in {"skip", "copy"}
  PROVE  QueryKept(w, Entering(o, phase))
BY EnteringKept DEF QueryKept, Phased, Phases

\* The first byte of the value (session.rs resolve_value).
LEMMA PeekFollows ==
  ASSUME Inv, Peek
  PROVE  Follows
<1> DEFINE byte == Then(SkipWhitespace(window, op.start), LAMBDA o : ReadByte(window, o))
           next == IF byte.of = "none" THEN Ended(Eof)
                   ELSE IF op.call.do = "has" THEN Ended(Ok(<<>>))
                   ELSE Entering(op, "skip")
<1>1. /\ QueryKept(window, op) /\ Kept /\ SightOf(window)
      /\ run = NoRun /\ op.phase = "peek"
  BY SightKept DEF Inv, Peek, At
<1>2. Fits(window, op.start)
  BY <1>1 DEF QueryKept, Noted
<1>3. byte.is = "miss" => byte.of \in Missing(window, op.start)
  BY <1>1, <1>2, PeekedSound
<1>4. IF byte.is = "miss" THEN Missed(byte.of, 1, op.start, op) ELSE Onward(next)
  BY DEF Peek
<1> HIDE DEF byte
<1>5. QueryKept(window, next)
  BY <1>1, EndedKept, EntersPhase
<1> HIDE DEF next
<1>6. CASE byte.is = "miss"
  BY <1>1, <1>2, <1>3, <1>4, <1>6, Misses
<1>7. CASE byte.is # "miss"
  BY <1>1, <1>4, <1>5, <1>7, GetsOn
<1> QED
  BY <1>6, <1>7

\* A copy asks for at least a chunk (session.rs materialize).
LEMMA CopyBursts ==
  ASSUME op.end \in Nat, NEW c \in Nat
  PROVE  CopyBurst(c) \in Nat \ {0}
<1> DEFINE rest == op.end - c * ChunkBytes
           most == rest + ChunkBytes - 1
<1>1. ChunkBytes \in Nat /\ ChunkBytes > 0 /\ rest \in Int
  BY DriveAssumption
<1>2. CASE rest > ChunkBytes
  <2>1. most \in Nat /\ most >= ChunkBytes
    <3> HIDE DEF rest
    <3> QED
      BY <1>1, <1>2
  <2>2. CopyBurst(c) = ChunkOf(most)
    BY <1>2 DEF CopyBurst, ChunkOf
  <2> HIDE DEF most
  <2>3. /\ ChunkOf(most) \in Nat
        /\ most = ChunkOf(most) * ChunkBytes + (most % ChunkBytes)
        /\ most % ChunkBytes \in 0 .. ChunkBytes - 1
    BY <2>1, ChunkFacts
  <2>4. ChunkOf(most) # 0
    <3> SUFFICES ASSUME ChunkOf(most) = 0 PROVE FALSE
      OBVIOUS
    <3>1. ChunkOf(most) * ChunkBytes = 0
      BY <1>1
    <3> QED
      BY <1>1, <2>1, <2>3, <3>1
  <2> QED
    BY <2>2, <2>3, <2>4
<1>3. CASE ~(rest > ChunkBytes)
  BY <1>3 DEF CopyBurst
<1> QED
  BY <1>2, <1>3

\* The copy, from the value's start (session.rs materialize).
LEMMA MaterializeFollows ==
  ASSUME Inv, Materialize
  PROVE  Follows
<1> DEFINE bytes == ReadRange(window, op.start, op.end)
           next == IF Projecting THEN Emitted(op, bytes.of) ELSE Ended(bytes)
<1>1. /\ QueryKept(window, op) /\ Kept /\ SightOf(window)
      /\ run = NoRun /\ op.phase = "copy"
  BY SightKept DEF Inv, Materialize, At
<1>2. Fits(window, op.start) /\ op.end \in Nat
  BY <1>1 DEF QueryKept, Noted
<1>3. IF bytes.is = "miss" THEN Missed(bytes.of, CopyBurst(bytes.of), op.start, op) ELSE Onward(next)
  BY DEF Materialize
<1>4. bytes.is = "miss" => bytes.of \in Missing(window, op.start)
  BY <1>1, <1>2, ReadRangeSound
<1> HIDE DEF bytes
<1>5. QueryKept(window, next)
  BY <1>1, EndedKept, EmittedKept DEF Projecting
<1> HIDE DEF next
<1>6. CASE bytes.is = "miss"
  <2>1. bytes.of \in Nat
    BY <1>1, <1>2, <1>4, <1>6, MissAskable
  <2>2. CopyBurst(bytes.of) \in Nat \ {0}
    BY <1>2, <2>1, CopyBursts
  <2> QED
    BY <1>1, <1>2, <1>3, <1>4, <1>6, <2>2, Misses
<1>7. CASE bytes.is # "miss"
  BY <1>1, <1>3, <1>5, <1>7, GetsOn
<1> QED
  BY <1>6, <1>7

\* The values that are walked block by block.
Blocky == {"quote"} \cup Opens

\* What a step of the walk over a value comes to (session.rs skip_value_at): its
\* first byte is missed, or a chunk from where the walk stands, in a string or a
\* container one of the block there; or the value's end is found, or none.
LEMMA SkipComesTo ==
  ASSUME Inv, SkipValueAt
  PROVE  LET from == IF op.skip.byte = "unread" THEN op.start ELSE op.skip.scan.at
         IN  /\ Fits(window, from)
             /\ \/ /\ op.skip.byte = "unread"
                   /\ \E c \in Missing(window, op.start) :
                        Missed(c, op.burst, op.start, [op EXCEPT !.burst = Doubled(@)])
                \/ \E byte : \E scan \in Scans(window, from) :
                     \E c \in Missing(window, scan.at) :
                       /\ byte # "unread"
                       /\ byte \in Blocky => c \in NearMissing(window, scan.at)
                       /\ Missed(c, op.burst, scan.at,
                                 [op EXCEPT !.burst = Doubled(@),
                                            !.skip = [byte |-> byte, scan |-> scan]])
                \/ \E end \in Nat : Onward([Entering(op, "copy") EXCEPT !.end = end])
                \/ \E answer : Stopped(answer)
<1> DEFINE unread == op.skip.byte = "unread"
           read == IF unread THEN ReadByte(window, op.start) ELSE Ok(op.skip.byte)
           scan == IF unread THEN SkipState(op.start, read.of) ELSE op.skip.scan
           step == SkipStep(window, read.of, scan)
           r == step.result
           from == IF unread THEN op.start ELSE op.skip.scan.at
           again == [op EXCEPT !.burst = Doubled(@)]
           missed == [op EXCEPT !.burst = Doubled(@),
                                !.skip = [byte |-> read.of, scan |-> step.scan]]
           after == [Entering(op, "copy") EXCEPT !.end = r.of]
<1>1. /\ QueryKept(window, op) /\ Kept /\ SightOf(window)
      /\ run = NoRun /\ op.phase = "skip"
  BY SightKept DEF Inv, SkipValueAt, At
<1>2. /\ Fits(window, op.start) /\ Walkable(window, op.skip.scan)
  BY <1>1 DEF QueryKept, Noted
<1>3. /\ read.is = "miss" => Missed(read.of, op.burst, op.start, again)
      /\ read.is # "miss" /\ read = Ok("none") => Stopped(Eof)
      /\ read.is # "miss" /\ read # Ok("none") =>
           /\ r.is = "miss" => Missed(r.of, op.burst, step.scan.at, missed)
           /\ r.is = "ok"   => Onward(after)
           /\ r.is \notin {"miss", "ok"} => Stopped(r)
  <2> DEFINE Rest(b) ==
               \E s \in {SkipStep(window, b.of, IF unread THEN SkipState(op.start, b.of)
                                                ELSE op.skip.scan)} :
                 CASE s.result.is = "miss" ->
                        Missed(s.result.of, op.burst, s.scan.at,
                               [op EXCEPT !.burst = Doubled(@),
                                          !.skip = [byte |-> b.of, scan |-> s.scan]])
                   [] s.result.is = "ok"   ->
                        Onward([Entering(op, "copy") EXCEPT !.end = s.result.of])
                   [] OTHER -> Stopped(s.result)
  <2>1. \E b \in {read} : CASE b.is = "miss"  -> Missed(b.of, op.burst, op.start, again)
                            [] b = Ok("none") -> Stopped(Eof)
                            [] OTHER -> Rest(b)
    BY DEF SkipValueAt
  <2>2. CASE read.is = "miss"
    <3>1. read # Ok("none")
      BY <2>2 DEF Ok
    <3> HIDE DEF Rest, read, again
    <3> QED
      BY <2>1, <2>2, <3>1
  <2>3. CASE read.is # "miss" /\ read = Ok("none")
    <3> HIDE DEF Rest, read, again, missed, after, r
    <3> QED
      BY <2>1, <2>3
  <2>4. CASE read.is # "miss" /\ read # Ok("none")
    <3>1. Rest(read)
      <4> HIDE DEF Rest, read, again, missed, after, r
      <4> QED
        BY <2>1, <2>4
    <3> QED
      BY <2>4, <3>1
  <2> QED
    BY <2>2, <2>3, <2>4
<1>4. /\ read.is = "miss" => read.of \in Missing(window, op.start)
      /\ read.is # "miss" => read.is = "ok"
      /\ unread /\ read.is = "ok" /\ read.of # "none" => op.start + 1 \in Reach(window, op.start)
      /\ read.is = "ok" => read = Ok(read.of) /\ read.of # "unread"
  <2>1. CASE unread
    <3> DEFINE first == ReadByte(window, op.start)
    <3>1. /\ first \in Answers(Bytes \cup {"none"}, Missing(window, op.start))
          /\ first.is = "ok" /\ first.of # "none" => op.start + 1 \in Reach(window, op.start)
      BY <1>1, <1>2, ReadByteSound
    <3>2. first.is \in {"ok", "miss"}
      BY DEF ReadByte, Ok, Miss
    <3> HIDE DEF first
    <3>3. first.is = "miss" => first.of \in Missing(window, op.start)
      BY <3>1, AnswerKinds
    <3>4. first.is = "ok" => first = Ok(first.of) /\ first.of # "unread"
      <4>1. first.is = "ok" => first = Ok(first.of) /\ first.of \in Bytes \cup {"none"}
        BY <3>1, AnswerKinds
      <4> QED
        BY <4>1 DEF Bytes, Opens, Closes
    <3> QED
      BY <2>1, <3>1, <3>2, <3>3, <3>4 DEF first
  <2>2. CASE ~unread
    BY <2>2 DEF Ok
  <2> QED
    BY <2>1, <2>2
<1>5. Fits(window, from)
  BY <1>2, WalkableThere
<1>6. CASE read.is = "miss"
  <2>1. unread
    BY <1>6 DEF Ok
  <2>2. Missed(read.of, op.burst, op.start, again) /\ read.of \in Missing(window, op.start)
    BY <1>3, <1>4, <1>6
  <2> HIDE DEF read
  <2> QED
    BY <1>5, <2>1, <2>2
<1>7. CASE read.is # "miss" /\ read = Ok("none")
  <2>1. Stopped(Eof)
    BY <1>3, <1>7
  <2> QED
    BY <1>5, <2>1
<1>8. CASE read.is # "miss" /\ read # Ok("none")
  <2>1. read.of # "none" /\ read.of # "unread"
    BY <1>4, <1>8
  <2>2. scan \in Scans(window, from)
    <3>1. CASE unread
      <4>1. from = op.start /\ scan = SkipState(op.start, read.of)
        BY <3>1
      <4>2. op.start + 1 \in Reach(window, op.start)
        BY <1>4, <1>8, <2>1, <3>1
      <4> HIDE DEF from, scan, read
      <4>3. SkipState(op.start, read.of) \in Scans(window, op.start)
        BY <1>1, <1>2, <2>1, <4>2, SkipStateSound
      <4> QED
        BY <4>1, <4>3
    <3>2. CASE ~unread
      BY <1>2, <3>2, WalkableThere
    <3> QED
      BY <3>1, <3>2
  <2> HIDE DEF scan
  <2>3. /\ step \in Steps(window, from, Reach(window, from))
        /\ read.of \in Blocky => step \in BlockSteps(window, from, Reach(window, from))
    <3> HIDE DEF from, read
    <3> QED
      BY <1>1, <1>5, <2>2, SkipStepSound DEF Blocky
  <2> HIDE DEF step, from
  <2>4. /\ step.scan \in Scans(window, from)
        /\ r \in Answers(Reach(window, from), Missing(window, step.scan.at))
        /\ read.of \in Blocky => r \in Answers(Reach(window, from), NearMissing(window, step.scan.at))
    BY <2>3 DEF Steps, BlockSteps
  <2>5. /\ r.is = "miss" => r.of \in Missing(window, step.scan.at)
        /\ r.is = "ok" => r.of \in Reach(window, from)
    BY <2>4, AnswerKinds
  <2>6. r.is = "miss" /\ read.of \in Blocky => r.of \in NearMissing(window, step.scan.at)
    BY <2>4, AnswerKinds
  <2>7. CASE r.is = "miss"
    <3>1. Missed(r.of, op.burst, step.scan.at, missed)
      BY <1>3, <1>8, <2>7
    <3> HIDE DEF r, read
    <3> QED
      BY <1>5, <2>1, <2>4, <2>5, <2>6, <2>7, <3>1 DEF from
  <2>8. CASE r.is = "ok"
    <3>1. Onward(after) /\ r.of \in Nat
      BY <1>3, <1>8, <2>5, <2>8, ReachFits
    <3> HIDE DEF r
    <3> QED
      BY <1>5, <3>1 DEF from
  <2>9. CASE r.is \notin {"miss", "ok"}
    <3>1. Stopped(r)
      BY <1>3, <1>8, <2>9
    <3> QED
      BY <1>5, <3>1 DEF from
  <2> QED
    BY <2>7, <2>8, <2>9
<1> QED
  BY <1>6, <1>7, <1>8

\* The walk over a value's extent (session.rs skip_value_at).
LEMMA SkipFollows ==
  ASSUME Inv, SkipValueAt
  PROVE  Follows
<1> DEFINE from == IF op.skip.byte = "unread" THEN op.start ELSE op.skip.scan.at
<1>1. /\ QueryKept(window, op) /\ run = NoRun /\ op.phase = "skip" /\ Fits(window, op.start)
      /\ op.burst \in Nat \ {0} /\ Doubled(op.burst) \in 1 .. MaxBurst
  BY BurstKept, FetchAssumption DEF Inv, SkipValueAt, At, QueryKept, Noted
<1>2. \/ \E c \in Missing(window, op.start) :
           Missed(c, op.burst, op.start, [op EXCEPT !.burst = Doubled(@)])
      \/ \E byte : \E scan \in Scans(window, from) :
           \E c \in Missing(window, scan.at) :
             Missed(c, op.burst, scan.at,
                    [op EXCEPT !.burst = Doubled(@), !.skip = [byte |-> byte, scan |-> scan]])
      \/ \E end \in Nat : Onward([Entering(op, "copy") EXCEPT !.end = end])
      \/ \E answer : Stopped(answer)
  BY SkipComesTo
<1> HIDE DEF from
<1>3. ASSUME NEW c \in Missing(window, op.start),
             Missed(c, op.burst, op.start, [op EXCEPT !.burst = Doubled(@)])
      PROVE  Follows
  <2> DEFINE again == [op EXCEPT !.burst = Doubled(@)]
  <2>1. Same(again, op, {"burst"}) /\ again.burst = Doubled(op.burst)
    BY <1>1, FacetsAre DEF Same, QueryKept, Noted
  <2>2. Missed(c, op.burst, op.start, again)
    BY <1>3
  <2> HIDE DEF again
  <2>3. QueryKept(window, again) /\ again.phase = op.phase
    BY <1>1, <2>1, FacetsAre DEF QueryKept, Noted, Phased, Phases, Same
  <2> QED
    BY <1>1, <2>2, <2>3, Misses
<1>4. ASSUME NEW byte, NEW scan \in Scans(window, from), NEW c \in Missing(window, scan.at),
             Missed(c, op.burst, scan.at,
                    [op EXCEPT !.burst = Doubled(@), !.skip = [byte |-> byte, scan |-> scan]])
      PROVE  Follows
  <2> DEFINE missed == [op EXCEPT !.burst = Doubled(@), !.skip = [byte |-> byte, scan |-> scan]]
  <2>1. Walkable(window, scan) /\ Fits(window, scan.at)
    BY WalkableHere DEF Walkable
  <2>2. /\ Same(missed, op, {"burst", "skip"}) /\ missed.burst = Doubled(op.burst)
        /\ missed.skip.scan = scan
    BY <1>1, FacetsAre DEF Same, QueryKept, Noted
  <2>3. Missed(c, op.burst, scan.at, missed)
    BY <1>4
  <2> HIDE DEF missed
  <2>4. QueryKept(window, missed) /\ missed.phase = op.phase
    BY <1>1, <2>1, <2>2, FacetsAre DEF QueryKept, Noted, Phased, Phases, Same
  <2> QED
    BY <1>1, <2>1, <2>3, <2>4, Misses
<1>5. ASSUME NEW end \in Nat, Onward([Entering(op, "copy") EXCEPT !.end = end])
      PROVE  Follows
  <2> DEFINE m == Entering(op, "copy")
             after == [m EXCEPT !.end = end]
  <2>1. QueryKept(window, m) /\ m.phase = "copy" /\ m.call = op.call
    BY <1>1, EntersPhase, EnteringKept DEF QueryKept
  <2> HIDE DEF m
  <2>2. Same(after, m, {"end"}) /\ after.end = end
    BY <2>1, FacetsAre DEF Same, QueryKept, Noted, m
  <2>3. Onward(after)
    BY <1>5 DEF m
  <2> HIDE DEF after
  <2>4. QueryKept(window, after)
    BY <2>1, <2>2, FacetsAre DEF QueryKept, Noted, Phased, Phases, Same
  <2> QED
    BY <1>1, <2>3, <2>4, GetsOn
<1>6. ASSUME NEW answer, Stopped(answer) PROVE Follows
  BY <1>1, <1>6, Stops
<1> QED
  BY <1>2, <1>3, <1>4, <1>5, <1>6

\* A query that goes on to its children, or its members.
LEMMA EntersChild ==
  ASSUME NEW w, NEW o, QueryKept(w, o), o.phase # "idle", o.cursor # None
  PROVE  QueryKept(w, Entering(o, "child"))
BY EnteringKept DEF QueryKept, Phased, Phases

\* What a container's start makes of a place.
LEMMA Entered ==
  ASSUME Inv, NEW from, Fits(window, from)
  PROVE  LET entered == EnterContainer(window, from)
         IN  /\ entered.is = "miss" => entered.of \in Missing(window, from)
             /\ entered.is = "ok" => /\ Iterable(window, entered.of)
                                     /\ entered.of # None
                                     /\ Fits(window, entered.of.next)
<1> DEFINE entered == EnterContainer(window, from)
<1>1. entered \in Answers(Cursors(window, from), Missing(window, from))
  BY SightKept, EnterContainerSound DEF Inv
<1> HIDE DEF entered
<1>2. /\ entered.is = "miss" => entered.of \in Missing(window, from)
      /\ entered.is = "ok" => entered.of \in Cursors(window, from)
  BY <1>1, AnswerKinds
<1>3. entered.is = "ok" => /\ Iterable(window, entered.of)
                           /\ entered.of # None
                           /\ Fits(window, entered.of.next)
  BY <1>2, IterableHere DEF Iterable
<1> QED
  BY <1>2, <1>3 DEF entered

\* What a cursor's next child is.
LEMMA Stepped ==
  ASSUME Inv, NEW cursor, Iterable(window, cursor)
  PROVE  LET child == NextChild(window, cursor)
         IN  /\ child.is = "miss" => child.of \in Missing(window, cursor.next)
             /\ child.is = "ok" => child.of \in Children(window, cursor.next)
             /\ child.is \in {"ok", "miss", "failed", "absent", "not_navigable", "more"}
<1> DEFINE child == NextChild(window, cursor)
<1>1. Fits(window, cursor.next) /\ cursor \in Cursors(window, cursor.next)
  BY IterableThere
<1>2. child \in Answers(Children(window, cursor.next), Missing(window, cursor.next))
  BY <1>1, SightKept, NextChildSound DEF Inv
<1> HIDE DEF child
<1>3. /\ child.is = "miss" => child.of \in Missing(window, cursor.next)
      /\ child.is = "ok" => child.of \in Children(window, cursor.next)
      /\ child.is \in {"ok", "miss", "failed", "absent", "not_navigable", "more"}
  BY <1>2, AnswerKinds
<1> QED
  BY <1>3 DEF child

\* A stream's container is entered (session.rs iter, stream.rs).
LEMMA OpenFollows ==
  ASSUME Inv, Open
  PROVE  Follows
<1> DEFINE entered == EnterContainer(window, op.start)
           next == [Entering(op, "child") EXCEPT !.cursor = entered.of]
<1>1. QueryKept(window, op) /\ run = NoRun /\ op.phase = "open"
  BY DEF Inv, Open, At
<1>2. Fits(window, op.start)
  BY <1>1 DEF QueryKept, Noted
<1>3. /\ entered.is = "miss"   => Missed(entered.of, 1, op.start, op)
      /\ entered.is = "ok"     => PruneTo(entered.of.next) /\ op' = next
      /\ entered.is = "failed" => Onward(Ended(entered))
      /\ entered.is \notin {"miss", "ok", "failed"} => CloseWindow /\ op' = Ended(entered)
  BY DEF Open
<1>4. /\ entered.is = "miss" => entered.of \in Missing(window, op.start)
      /\ entered.is = "ok" => /\ Iterable(window, entered.of)
                              /\ entered.of # None
                              /\ Fits(window, entered.of.next)
  BY <1>2, Entered
<1> HIDE DEF entered
<1>5. QueryKept(window, Ended(entered))
  BY <1>1, EndedKept
<1>6. CASE entered.is = "miss"
  BY <1>1, <1>2, <1>3, <1>4, <1>6, Misses
<1>7. CASE entered.is = "ok"
  <2> DEFINE m == Entering(op, "child")
  <2>1. Noted(window, m) /\ m.phase = "child" /\ m.call = op.call
    BY <1>1, EnteringKept DEF QueryKept
  <2> HIDE DEF m
  <2>2. Same(next, m, {"cursor"}) /\ next.cursor = entered.of
    BY <2>1, FacetsAre DEF Same, Noted, m
  <2> HIDE DEF next
  <2>3. QueryKept(window, next)
    BY <1>1, <1>4, <1>7, <2>1, <2>2, FacetsAre DEF QueryKept, Noted, Phased, Phases, Same
  <2> QED
    BY <1>1, <1>3, <1>4, <1>7, <2>3, PrunesTo
<1>8. CASE entered.is = "failed"
  BY <1>1, <1>3, <1>5, <1>8, GetsOn
<1>9. CASE entered.is \notin {"miss", "ok", "failed"}
  BY <1>3, <1>5, <1>9, LetsGo
<1> QED
  BY <1>6, <1>7, <1>8, <1>9

\* A stream's next child (stream.rs next_child).
LEMMA StepChildFollows ==
  ASSUME Inv, StepChild
  PROVE  Follows
<1> DEFINE child == NextChild(window, op.cursor)
           again == [op EXCEPT !.burst = Doubled(@)]
           last == [Ended(Ok(<<>>)) EXCEPT !.delivered = @ \o op.batch]
<1>1. QueryKept(window, op) /\ run = NoRun /\ op.phase = "child"
  BY DEF Inv, StepChild, At
<1>2. op.cursor # None /\ Iterable(window, op.cursor) /\ Fits(window, op.cursor.next)
  BY <1>1 DEF QueryKept, Noted, Phased, Iterable
<1>3. /\ child.is = "miss"   => Missed(child.of, op.burst, op.cursor.next, again)
      /\ child.is = "ok"     => Onward(ProjectChild(op, child.of))
      /\ child.is = "absent" => CloseWindow /\ op' = last
      /\ child.is \notin {"miss", "ok", "absent"} => Stopped(child)
  BY DEF StepChild
<1>4. /\ child.is = "miss" => child.of \in Missing(window, op.cursor.next)
      /\ child.is = "ok" => child.of \in Children(window, op.cursor.next)
  BY <1>2, Stepped
<1> HIDE DEF child
<1>5. CASE child.is = "miss"
  <2>1. QueryKept(window, again) /\ again.phase = op.phase
    <3>1. Same(again, op, {"burst"}) /\ again.burst = Doubled(op.burst)
      BY <1>1, FacetsAre DEF Same, QueryKept, Noted
    <3>2. Doubled(op.burst) \in 1 .. MaxBurst
      BY <1>1, BurstKept DEF QueryKept, Noted
    <3> HIDE DEF again
    <3> QED
      BY <1>1, <3>1, <3>2, FacetsAre DEF QueryKept, Noted, Phased, Phases, Same
  <2>2. op.burst \in Nat \ {0}
    BY <1>1, FetchAssumption DEF QueryKept, Noted
  <2> HIDE DEF again
  <2> QED
    BY <1>1, <1>2, <1>3, <1>4, <1>5, <2>1, <2>2, Misses
<1>6. CASE child.is = "ok"
  <2>1. QueryKept(window, ProjectChild(op, child.of))
    BY <1>1, <1>2, <1>4, <1>6, ProjectChildKept
  <2> QED
    BY <1>1, <1>3, <1>6, <2>1, GetsOn
<1>7. CASE child.is = "absent"
  <2> DEFINE m == Ended(Ok(<<>>))
  <2>1. QueryKept(window, m) /\ m.phase = "done"
    BY <1>1, EndedKept
  <2> HIDE DEF m
  <2>2. Same(last, m, {"delivered"})
    BY <2>1, FacetsAre DEF Same, QueryKept, Noted, m
  <2> HIDE DEF last
  <2>3. QueryKept(window, last)
    BY <2>1, <2>2, FacetsAre DEF QueryKept, Noted, Phased, Phases, Same
  <2> QED
    BY <1>3, <1>7, <2>3, LetsGo
<1>8. CASE child.is \notin {"miss", "ok", "absent"}
  BY <1>1, <1>3, <1>8, Stops
<1> QED
  BY <1>5, <1>6, <1>7, <1>8

\* The child of a map projection is entered (eval.rs project_map).
LEMMA EnterChildFollows ==
  ASSUME Inv, EnterChild
  PROVE  Follows
<1> DEFINE entered == EnterContainer(window, op.child)
           next == [Entering(op, "member") EXCEPT !.inner = entered.of]
<1>1. QueryKept(window, op) /\ run = NoRun /\ op.phase = "enter"
  BY DEF Inv, EnterChild, At
<1>2. /\ Fits(window, op.child) /\ op.cursor # None /\ op.call \in CallShapes /\ Noted(window, op)
  BY <1>1 DEF QueryKept, Noted, Phased
<1>3. /\ entered.is = "miss"   => Missed(entered.of, 1, op.child, op)
      /\ entered.is = "ok"     => Onward(next)
      /\ entered.is = "failed" => Stopped(entered)
      /\ entered.is \notin {"miss", "ok", "failed"} => Onward(NextField(op))
  BY DEF EnterChild
<1>4. /\ entered.is = "miss" => entered.of \in Missing(window, op.child)
      /\ entered.is = "ok" => Iterable(window, entered.of) /\ entered.of # None
  BY <1>2, Entered
<1> HIDE DEF entered
<1>5. CASE entered.is = "miss"
  BY <1>1, <1>2, <1>3, <1>4, <1>5, Misses
<1>6. CASE entered.is = "ok"
  <2> DEFINE m == Entering(op, "member")
  <2>1. Noted(window, m) /\ m.phase = "member" /\ m.call = op.call /\ m.cursor = op.cursor
    BY <1>2, EnteringKept
  <2> HIDE DEF m
  <2>2. Same(next, m, {"inner"}) /\ next.inner = entered.of
    BY <2>1, FacetsAre DEF Same, Noted, m
  <2> HIDE DEF next
  <2>3. QueryKept(window, next)
    BY <1>2, <1>4, <1>6, <2>1, <2>2, FacetsAre DEF QueryKept, Noted, Phased, Phases, Same
  <2> QED
    BY <1>1, <1>3, <1>6, <2>3, GetsOn
<1>7. CASE entered.is = "failed"
  BY <1>1, <1>3, <1>7, Stops
<1>8. CASE entered.is \notin {"miss", "ok", "failed"}
  <2>1. QueryKept(window, NextField(op))
    BY <1>2, NextFieldKept
  <2> QED
    BY <1>1, <1>3, <1>8, <2>1, GetsOn
<1> QED
  BY <1>5, <1>6, <1>7, <1>8

\* A member of the child (eval.rs project_map).
LEMMA StepMemberFollows ==
  ASSUME Inv, StepMember
  PROVE  Follows
<1> DEFINE member == NextChild(window, op.inner)
           again == [op EXCEPT !.burst = Doubled(@)]
           found == Matched(op, member.of)
           next == IF Unmatched(found) = {} THEN NextField(found)
                   ELSE [Entering(found, "member") EXCEPT !.inner = member.of.cursor]
<1>1. QueryKept(window, op) /\ run = NoRun /\ op.phase = "member"
  BY DEF Inv, StepMember, At
<1>2. /\ op.cursor # None /\ op.call \in CallShapes /\ Noted(window, op)
      /\ op.inner # None /\ Iterable(window, op.inner) /\ Fits(window, op.inner.next)
  BY <1>1 DEF QueryKept, Noted, Phased, Iterable
<1> DEFINE On(m, f) == IF Unmatched(f) = {} THEN NextField(f)
                       ELSE [Entering(f, "member") EXCEPT !.inner = m.of.cursor]
<1>3. /\ member.is = "miss"   => Missed(member.of, op.burst, op.inner.next, again)
      /\ member.is = "ok"     => PruneTo(member.of.cursor.next) /\ op' = next
      /\ member.is = "absent" => Onward(NextField(op))
      /\ member.is \notin {"miss", "ok", "absent"} => Stopped(member)
  <2>1. \E m \in {member} :
          CASE m.is = "miss"   -> Missed(m.of, op.burst, op.inner.next, again)
            [] m.is = "ok"     -> /\ PruneTo(m.of.cursor.next)
                                  /\ \E f \in {Matched(op, m.of)} : op' = On(m, f)
            [] m.is = "absent" -> Onward(NextField(op))
            [] OTHER           -> Stopped(m)
    BY DEF StepMember
  <2>2. next = On(member, found)
    OBVIOUS
  <2> HIDE DEF On, next, member, again
  <2> QED
    BY <2>1, <2>2
<1>4. /\ member.is = "miss" => member.of \in Missing(window, op.inner.next)
      /\ member.is = "ok" => member.of \in Children(window, op.inner.next)
  BY <1>2, Stepped
<1> HIDE DEF member
<1>5. QueryKept(window, NextField(op))
  BY <1>2, NextFieldKept
<1>6. CASE member.is = "miss"
  <2>1. QueryKept(window, again) /\ again.phase = op.phase
    <3>1. Same(again, op, {"burst"}) /\ again.burst = Doubled(op.burst)
      BY <1>1, FacetsAre DEF Same, QueryKept, Noted
    <3>2. Doubled(op.burst) \in 1 .. MaxBurst
      BY <1>1, BurstKept DEF QueryKept, Noted
    <3> HIDE DEF again
    <3> QED
      BY <1>1, <3>1, <3>2, FacetsAre DEF QueryKept, Noted, Phased, Phases, Same
  <2>2. op.burst \in Nat \ {0}
    BY <1>1, FetchAssumption DEF QueryKept, Noted
  <2> HIDE DEF again
  <2> QED
    BY <1>1, <1>2, <1>3, <1>4, <1>6, <2>1, <2>2, Misses
<1>7. CASE member.is = "ok"
  <2>1. Noted(window, found) /\ Same(found, op, {"fields"})
    BY <1>1, <1>2, <1>4, <1>7, MatchedKept
  <2>2. found.cursor = op.cursor /\ found.call = op.call
    BY <2>1, FacetsAre DEF Same
  <2>3. Iterable(window, member.of.cursor) /\ member.of.cursor # None
        /\ Fits(window, member.of.cursor.next)
    BY <1>4, <1>7, IterableHere DEF Children, Iterable
  <2> HIDE DEF found
  <2> DEFINE m == Entering(found, "member")
             n == [m EXCEPT !.inner = member.of.cursor]
  <2>4. QueryKept(window, NextField(found))
    BY <1>2, <2>1, <2>2, NextFieldKept
  <2>5. QueryKept(window, n)
    <3>1. Noted(window, m) /\ m.phase = "member" /\ m.call = op.call /\ m.cursor = op.cursor
      BY <2>1, <2>2, EnteringKept
    <3> HIDE DEF m
    <3>2. Same(n, m, {"inner"}) /\ n.inner = member.of.cursor
      BY <3>1, FacetsAre DEF Same, Noted, m
    <3> HIDE DEF n
    <3> QED
      BY <1>2, <2>3, <3>1, <3>2, FacetsAre DEF QueryKept, Noted, Phased, Phases, Same
  <2>6. next = NextField(found) \/ next = n
    OBVIOUS
  <2> HIDE DEF n, next
  <2> QED
    BY <1>1, <1>3, <1>7, <2>3, <2>4, <2>5, <2>6, PrunesTo
<1>8. CASE member.is = "absent"
  BY <1>1, <1>3, <1>5, <1>8, GetsOn
<1>9. CASE member.is \notin {"miss", "ok", "absent"}
  BY <1>1, <1>3, <1>9, Stops
<1> QED
  BY <1>6, <1>7, <1>8, <1>9

\* An item joins its batch (stream.rs next_batch).
LEMMA YieldFollows ==
  ASSUME Inv, Yield
  PROVE  Follows
<1> DEFINE batch == Append(op.batch, op.values)
           paused == [op EXCEPT !.phase = "paused", !.batch = <<>>, !.delivered = @ \o batch]
           next == [Entering(op, "child") EXCEPT !.batch = batch]
           m == Entering(op, "child")
<1>1. QueryKept(window, op) /\ run = NoRun /\ op.phase = "yield"
  BY DEF Inv, Yield, At
<1>2. /\ op.cursor # None /\ Iterable(window, op.cursor) /\ Fits(window, op.cursor.next)
      /\ Noted(window, op)
  BY <1>1 DEF QueryKept, Noted, Phased, Iterable
<1>3. PruneTo(op.cursor.next) /\ op' \in {paused, next}
  BY DEF Yield
<1>4. QueryKept(window, m) /\ m.phase = "child"
  BY <1>1, <1>2, EntersChild, EnteringKept
<1> HIDE DEF m, batch
<1>5. QueryKept(window, next)
  <2>1. Same(next, m, {"batch"})
    BY <1>4, FacetsAre DEF Same, QueryKept, Noted, m
  <2> HIDE DEF next
  <2> QED
    BY <1>4, <2>1, FacetsAre DEF QueryKept, Noted, Phased, Phases, Same
<1>6. QueryKept(window, paused)
  <2>1. Same(paused, op, {"phase", "batch", "delivered"}) /\ paused.phase = "paused"
    BY <1>2, FacetsAre DEF Same, Noted
  <2> HIDE DEF paused
  <2> QED
    BY <1>1, <2>1, FacetsAre DEF QueryKept, Noted, Phased, Phases, Same
<1> HIDE DEF next, paused
<1> QED
  BY <1>1, <1>2, <1>3, <1>5, <1>6, PrunesTo

\* A session that is asked nothing.
LEMMA IdleKept ==
  ASSUME NEW w, Fits(w, 0)
  PROVE  QueryKept(w, Idle)
<1>1. /\ DOMAIN Idle = Facets
      /\ Idle.phase = "idle" /\ Idle.target = <<>>
      /\ Idle.resolve = ResolveFrom(0, 0)
      /\ Idle.start = 0 /\ Idle.end = 0 /\ Idle.burst = 1 /\ Idle.skip = Unread(0)
      /\ Idle.cursor = None /\ Idle.child = 0 /\ Idle.inner = None /\ Idle.fields = <<>>
  BY DEF Idle, Facets
<1>2. /\ Resumable(w, ResolveFrom(0, 0), 0)
      /\ Walkable(w, Unread(0).scan)
  BY StartsResolving, Walks DEF Unread
<1>3. <<>> \in Seq(Segments) /\ Len(<<>>) = 0
  OBVIOUS
<1> QED
  BY <1>1, <1>2, <1>3, FetchAssumption DEF QueryKept, Noted, Phased, Phases, FieldsKept

\* The consumer's steps, and those of the source.
LEMMA RestFollows ==
  ASSUME Inv
  PROVE  /\ Resume => Follows
         /\ Break => Follows
         /\ Delivered => Follows
         /\ ReadFails => Follows
         /\ Return => Follows
         /\ UNCHANGED vars => Follows
<1>1. QueryKept(window, op) /\ Kept
  BY DEF Inv
<1>2. CASE Resume
  <2>1. run = NoRun /\ op.phase = "paused" /\ Onward(Entering(op, "child"))
    BY <1>2 DEF Resume, At
  <2>2. QueryKept(window, Entering(op, "child"))
    BY <1>1, <2>1, EntersChild DEF QueryKept, Phased
  <2> QED
    BY <2>1, <2>2, GetsOn
<1>3. CASE Break
  <2>1. op.phase = "paused" /\ CloseWindow /\ op' = Ended([is |-> "left", of |-> 0])
    BY <1>3 DEF Break, At
  <2> QED
    BY <1>1, <2>1, EndedKept, LetsGo
<1>4. CASE Delivered
  <2>1. Onwards /\ op' = op /\ run # NoRun
    BY <1>4 DEF Delivered, Onwards, Receive
  <2> QED
    BY <1>1, <2>1, FollowsOn DEF Inv, Waiting
<1>5. CASE ReadFails
  <2>1. Onwards /\ op' = Ended(Failed("source_io")) /\ run # NoRun /\ run' = NoRun
    BY <1>5 DEF ReadFails, Onwards, Reject
  <2>2. op.phase # "idle"
    BY <2>1 DEF Inv, Waiting
  <2> QED
    BY <1>1, <2>1, <2>2, EndedKept, FollowsOn
<1>6. CASE Return
  <2>1. CloseWindow /\ op' = Idle
    BY <1>6 DEF Return
  <2>2. Len(text) \in Nat
    BY <1>1, DriveAssumption DEF Kept
  <2>3. QueryKept(window, Idle)
    BY <2>2, IdleKept DEF Fits
  <2> QED
    BY <2>1, <2>3, LetsGo
<1>7. CASE UNCHANGED vars
  <2>1. Onwards /\ op' = op /\ run' = run
    BY <1>7 DEF vars, driveVars, Onwards
  <2> QED
    BY <1>1, <2>1, FollowsOn DEF Inv, Waiting
<1> QED
  BY <1>2, <1>3, <1>4, <1>5, <1>6, <1>7

\* Before the first call nothing is resident and nothing noted.
LEMMA InitInv == HonestSource /\ Init => Inv
<1> SUFFICES ASSUME HonestSource, Init PROVE Inv
  OBVIOUS
<1>1. Kept /\ op = Idle /\ run = NoRun
  BY InitKept DEF Init, DriveInit
<1>2. Fits(window, 0)
  <2>1. Len(text) \in Nat
    BY <1>1, DriveAssumption DEF Kept
  <2> QED
    BY <2>1 DEF Fits
<1>3. QueryKept(window, Idle)
  BY <1>2, IdleKept
<1> QED
  BY <1>1, <1>3 DEF Inv, Waiting

\* Every step of a query is one of its window's, and leaves it asking for
\* nothing it may not ask for.
LEMMA NextFollows == Inv /\ [Next]_vars => Follows
BY AskFollows, LocateFollows, PeekFollows, SkipFollows, MaterializeFollows, OpenFollows,
   StepChildFollows, EnterChildFollows, StepMemberFollows, YieldFollows, RestFollows
   DEF Next, Work

\* The invariant of a query and its window.
LEMMA NextInv ==
  ASSUME HonestSource, Inv, [Next]_vars
  PROVE  Inv'
<1>1. Follows /\ Kept
  BY NextFollows DEF Inv
<1>2. Kept'
  <2>1. ASSUME NEW c \in Nat, NEW floor \in Nat, NEW n \in Nat \ {0}, Askable(c), Fault(c, n, floor)
        PROVE  Kept'
    BY <1>1, <2>1, FaultKept
  <2>2. CASE Receive
    BY <1>1, <2>2, ReceiveKept
  <2>3. CASE Reject \/ OpenWindow \/ CloseWindow \/ \E floor \in Nat : Prune(floor)
    BY <1>1, <2>3, PlainKept
  <2>4. CASE UNCHANGED driveVars
    BY <1>1, <2>4, UnchangedKept
  <2> QED
    BY <1>1, <2>1, <2>2, <2>3, <2>4 DEF Follows, Onwards
<1> QED
  BY <1>1, <1>2 DEF Follows, Inv

\* The queries drive their window by the protocol: whatever the text, whatever
\* is asked of it and wherever a walk stands when a chunk is missing, a query
\* asks for no chunk that is resident, for none behind a known end, and, while
\* the end is unknown, for none behind the chunk in which the source reports it
\* (session.rs drive, walker.rs, resolve.rs, cursor.rs).
THEOREM FetchDrives == HonestSource /\ ChunkIds = Nat => (Spec => DriveSpec)
<1> SUFFICES ASSUME HonestSource, ChunkIds = Nat PROVE Spec => DriveSpec
  OBVIOUS
<1>1. Init => Inv /\ DriveInit
  BY InitInv DEF Init
<1>2. Inv /\ [Next]_vars => Inv' /\ [DriveNext]_driveVars
  <2> SUFFICES ASSUME Inv, [Next]_vars PROVE Inv' /\ [DriveNext]_driveVars
    OBVIOUS
  <2>1. Follows
    BY NextFollows
  <2>2. [DriveNext]_driveVars
    BY <2>1 DEF Follows, Onwards, DriveNext
  <2> QED
    BY <2>2, NextInv
<1> QED
  BY <1>1, <1>2, PTL DEF Spec, DriveSpec

\* What a query has noted stays a place its window lets it stand at
\* (session.rs drive).
THEOREM FetchInv == HonestSource => (Spec => []Inv)
<1> SUFFICES ASSUME HonestSource PROVE Spec => []Inv
  OBVIOUS
<1>1. Init => Inv
  BY InitInv
<1>2. Inv /\ [Next]_vars => Inv'
  BY NextInv
<1> QED
  BY <1>1, <1>2, PTL DEF Spec

\* The phases, bursts and chunks of a query are what they may be, if the
\* chunks of every text are numbered (session.rs drive, chunks.rs).
THEOREM FetchType ==
  /\ HonestSource
  /\ \A t \in Texts, c \in Nat : c * ChunkBytes < Len(t) => c \in ChunkIds
  => (Spec => []TypeOK)
<1> SUFFICES ASSUME HonestSource,
                    \A t \in Texts, c \in Nat : c * ChunkBytes < Len(t) => c \in ChunkIds
             PROVE  Spec => []TypeOK
  OBVIOUS
<1>1. Spec => []Inv
  BY FetchInv
<1>2. Inv => TypeOK
  <2> SUFFICES ASSUME Inv PROVE TypeOK
    OBVIOUS
  <2>1. /\ op.phase \in Phases /\ op.burst \in 1 .. MaxBurst
        /\ op.skip.scan.carry \in Carries
        /\ run # NoRun => op.phase \notin {"idle", "yield", "paused", "done"}
    BY DEF Inv, QueryKept, Noted, Phased, Waiting, Walkable, ScanShapes
  <2>2. ASSUME NEW c \in DOMAIN window.chunks
        PROVE  c \in ChunkIds /\ window.chunks[c] \in 1 .. ChunkBytes
    <3>1. /\ c \in Nat /\ c * ChunkBytes < Len(text)
          /\ window.chunks[c] = Least(ChunkBytes, Len(text) - c * ChunkBytes)
          /\ text \in Texts
      BY DEF Inv, Kept, WindowKept, Shows, Holding
    <3>2. Len(text) \in Nat /\ ChunkBytes \in Nat /\ ChunkBytes > 0
      BY <3>1, DriveAssumption
    <3> DEFINE start == c * ChunkBytes
    <3>3. start \in Nat /\ start >= c
      BY <3>1, <3>2
    <3> HIDE DEF start
    <3>4. start < Len(text) /\ window.chunks[c] = Least(ChunkBytes, Len(text) - start)
      BY <3>1 DEF start
    <3> QED
      BY <3>1, <3>2, <3>3, <3>4 DEF Least
  <2> QED
    BY <2>1, <2>2 DEF TypeOK
<1> QED
  BY <1>1, <1>2, PTL

\* Through the window of a query the walkers see the text and nothing else
\* (chunks.rs ChunkWindow, session.rs drive).
THEOREM FetchWindow == HonestSource => (Spec => []WindowIsSource)
<1> SUFFICES ASSUME HonestSource PROVE Spec => []WindowIsSource
  OBVIOUS
<1>1. Spec => []Inv
  BY FetchInv
<1>2. Inv => WindowIsSource
  BY DEF Inv, Kept, WindowKept, Shows, Holding, WindowIsSource
<1> QED
  BY <1>1, <1>2, PTL

(***************************************************************************)
(* The window while a value is located and walked: the chunks from the     *)
(* walk's place on are in it without a gap, and the next one that is       *)
(* missing is not in front of the last one that was read.                  *)
(***************************************************************************)
\* Chunks are numbered as their bytes are (chunks.rs chunk_id).
LEMMA ChunkGrows ==
  ASSUME NEW p \in Nat, NEW q \in Nat
  PROVE  /\ p <= q => ChunkOf(p) <= ChunkOf(q)
         /\ q < p + ChunkBytes => ChunkOf(q) <= ChunkOf(p) + 1
<1> DEFINE a == ChunkOf(p)
           b == ChunkOf(q)
           startP == a * ChunkBytes
           startQ == b * ChunkBytes
           r == p % ChunkBytes
           s == q % ChunkBytes
<1>1. /\ a \in Nat /\ b \in Nat /\ startP \in Nat /\ startQ \in Nat
      /\ p = startP + r /\ q = startQ + s /\ r \in 0 .. ChunkBytes - 1 /\ s \in 0 .. ChunkBytes - 1
      /\ ChunkBytes \in Nat /\ ChunkBytes > 0
  BY ChunkFacts
<1>2. b < a => startP >= startQ + ChunkBytes
  <2> SUFFICES ASSUME b < a PROVE startP >= startQ + ChunkBytes
    OBVIOUS
  <2> HIDE DEF a, b
  <2>1. b \in Nat /\ a \in Nat /\ b <= a
    BY <1>1
  <2>2. /\ (a - b) * ChunkBytes \in Nat
        /\ a * ChunkBytes = b * ChunkBytes + (a - b) * ChunkBytes
        /\ (a - b) * ChunkBytes >= ChunkBytes
    BY <2>1, Stretch
  <2> DEFINE d == (a - b) * ChunkBytes
  <2>3. d \in Nat /\ startP = startQ + d /\ d >= ChunkBytes
    BY <2>2
  <2> HIDE DEF d, startP, startQ
  <2> QED
    BY <1>1, <2>3
<1>3. a + 1 < b => startQ >= startP + ChunkBytes + ChunkBytes
  <2> SUFFICES ASSUME a + 1 < b PROVE startQ >= startP + ChunkBytes + ChunkBytes
    OBVIOUS
  <2> HIDE DEF a, b
  <2>1. b \in Nat /\ a + 1 \in Nat /\ a + 1 <= b /\ a \in Nat /\ a <= a + 1 /\ a < a + 1
    BY <1>1
  <2>2. /\ (b - (a + 1)) * ChunkBytes \in Nat
        /\ b * ChunkBytes = (a + 1) * ChunkBytes + (b - (a + 1)) * ChunkBytes
        /\ (b - (a + 1)) * ChunkBytes >= ChunkBytes
    BY <2>1, Stretch
  <2>3. (a + 1) * ChunkBytes = a * ChunkBytes + ChunkBytes
    BY <1>1
  <2> DEFINE d == (b - (a + 1)) * ChunkBytes
  <2>4. d \in Nat /\ startQ = startP + ChunkBytes + d /\ d >= ChunkBytes
    BY <2>2, <2>3
  <2> HIDE DEF d, startP, startQ
  <2> QED
    BY <1>1, <2>4
<1> HIDE DEF startP, startQ, r, s, a, b
<1>4. p <= q => ~(b < a)
  BY <1>1, <1>2
<1>5. q < p + ChunkBytes => ~(a + 1 < b)
  BY <1>1, <1>3
<1>6. (p <= q => a <= b) /\ (q < p + ChunkBytes => b <= a + 1)
  BY <1>1, <1>4, <1>5
<1> QED
  BY <1>6 DEF a, b

\* A chunk starts at its first byte.
LEMMA ChunkStart ==
  ASSUME NEW e \in Nat
  PROVE  e * ChunkBytes \in Nat /\ ChunkOf(e * ChunkBytes) = e
<1> DEFINE x == e * ChunkBytes
           a == ChunkOf(x)
           startP == a * ChunkBytes
           r == x % ChunkBytes
<1>1. x \in Nat
  BY DriveAssumption
<1>2. /\ a \in Nat /\ startP \in Nat /\ x = startP + r /\ r \in 0 .. ChunkBytes - 1
      /\ ChunkBytes \in Nat /\ ChunkBytes > 0
  <2> HIDE DEF x
  <2> QED
    BY <1>1, ChunkFacts
<1>3. a < e => x >= startP + ChunkBytes
  <2> SUFFICES ASSUME a < e PROVE x >= startP + ChunkBytes
    OBVIOUS
  <2> HIDE DEF a
  <2>1. a \in Nat /\ a <= e
    BY <1>2
  <2>2. /\ (e - a) * ChunkBytes \in Nat /\ e * ChunkBytes = a * ChunkBytes + (e - a) * ChunkBytes
        /\ (e - a) * ChunkBytes >= ChunkBytes
    BY <2>1, Stretch
  <2> DEFINE d == (e - a) * ChunkBytes
  <2>3. d \in Nat /\ x = startP + d /\ d >= ChunkBytes
    BY <2>2
  <2> HIDE DEF d, x, startP
  <2> QED
    BY <1>2, <2>3
<1>4. e < a => startP >= x + ChunkBytes
  <2> SUFFICES ASSUME e < a PROVE startP >= x + ChunkBytes
    OBVIOUS
  <2> HIDE DEF a
  <2>1. a \in Nat /\ e <= a
    BY <1>2
  <2>2. /\ (a - e) * ChunkBytes \in Nat /\ a * ChunkBytes = e * ChunkBytes + (a - e) * ChunkBytes
        /\ (a - e) * ChunkBytes >= ChunkBytes
    BY <2>1, Stretch
  <2> DEFINE d == (a - e) * ChunkBytes
  <2>3. d \in Nat /\ startP = x + d /\ d >= ChunkBytes
    BY <2>2
  <2> HIDE DEF d, x, startP
  <2> QED
    BY <1>1, <1>2, <2>3
<1> HIDE DEF x, startP, r, a
<1>5. ~(a < e) /\ ~(e < a)
  BY <1>1, <1>2, <1>3, <1>4
<1>6. a = e
  BY <1>2, <1>5
<1> QED
  BY <1>1, <1>6 DEF a, x

\* In front of a chunk that is missed everything is there.
LEMMA ChunksWalked ==
  ASSUME Kept, NEW q, Fits(window, q), NEW c \in Missing(window, q)
  PROVE  /\ c \in Nat /\ ChunkOf(q) \in Nat /\ ChunkOf(q) <= c
         /\ c \notin DOMAIN window.chunks
         /\ \A e \in Nat : ChunkOf(q) <= e /\ e < c => e \in DOMAIN window.chunks
<1>1. PICK o \in Lacking(window, q) : c = ChunkOf(o)
  BY DEF Missing
<1>2. /\ o \in Nat /\ q \in Nat /\ q <= o
      /\ ~Resident(window, o) /\ ~PastEnd(window, o) /\ Walked(window, q, o)
  BY <1>1 DEF Lacking, Reach, Fits
<1>3. c \in Nat /\ ChunkOf(q) \in Nat /\ ChunkOf(q) <= c
  BY <1>1, <1>2, ChunkFacts, ChunkGrows
<1>4. \A x \in Nat : q <= x /\ x < o => ChunkOf(x) \in DOMAIN window.chunks
  <2> SUFFICES ASSUME NEW x \in Nat, q <= x, x < o PROVE ChunkOf(x) \in DOMAIN window.chunks
    OBVIOUS
  <2>1. Resident(window, x) \/ PastEnd(window, x)
    BY <1>2 DEF Walked
  <2>2. window.size \in {Unsized, Len(text)} /\ Len(text) \in Nat
    BY DriveAssumption DEF Kept, WindowKept, Shows
  <2>3. ~PastEnd(window, x)
    BY <1>2, <2>2 DEF PastEnd
  <2> QED
    BY <2>1, <2>3 DEF Resident
<1>5. ASSUME NEW e \in Nat, ChunkOf(q) <= e, e < c PROVE e \in DOMAIN window.chunks
  <2>1. CASE e = ChunkOf(q)
    <3>1. q < o
      <4>1. q # o
        BY <1>1, <1>5, <2>1, <1>3
      <4> QED
        BY <1>2, <4>1
    <3> QED
      BY <1>2, <1>4, <2>1, <3>1
  <2>2. CASE e # ChunkOf(q)
    <3> DEFINE x == e * ChunkBytes
    <3>1. x \in Nat /\ ChunkOf(x) = e
      BY ChunkStart
    <3> HIDE DEF x
    <3>2. q <= x
      <4>1. x <= q => ChunkOf(x) <= ChunkOf(q)
        BY <1>2, <3>1, ChunkGrows
      <4> QED
        BY <1>2, <1>3, <1>5, <2>2, <3>1, <4>1
    <3>3. x < o
      <4>1. o <= x => ChunkOf(o) <= ChunkOf(x)
        BY <1>2, <3>1, ChunkGrows
      <4> QED
        BY <1>1, <1>2, <1>3, <1>5, <3>1, <4>1
    <3> QED
      BY <1>4, <3>1, <3>2, <3>3
  <2> QED
    BY <2>1, <2>2
<1> QED
  BY <1>1, <1>2, <1>3, <1>5 DEF Resident

\* What is resident, or read and not yet handed over.
Held(w, r) == DOMAIN w.chunks \cup DOMAIN r.out

\* From chunk a on the window and the read under way hold chunks without a gap,
\* and none that they lack is in front of the last one read.
Lined(w, r, last, a) ==
  /\ a \in Nat
  /\ Held(w, r) \subseteq Nat
  /\ \A d \in Held(w, r), e \in Nat : a <= e /\ e <= d => e \in Held(w, r)
  /\ \A e \in Nat : a <= e /\ e \notin Held(w, r) => last <= e
  /\ r # NoRun => /\ a <= r.cur
                  /\ \A d \in Held(w, r) : d < r.cur
                  /\ \A e \in Nat : a <= e /\ e < r.cur => e \in Held(w, r)

\* A walk over a string or a container holds the chunk it stands in and a burst.
Near(w, r, a) ==
  /\ \A d \in Held(w, r) : a <= d /\ d <= a + MaxBurst
  /\ r # NoRun => r.stop <= a + MaxBurst + 1

\* No read is under way at first.
LEMMA NothingRead == DOMAIN NoRun.out = {}
BY DEF NoRun

\* Chunks are let go of from below, so that no gap comes.
LEMMA LinedOn ==
  ASSUME NEW w, NEW last, NEW a, Lined(w, NoRun, last, a), NEW b \in Nat, a <= b
  PROVE  Lined(w, NoRun, last, b)
BY DEF Lined

\* The read of a miss starts behind what is held.
LEMMA FaultLined ==
  ASSUME Kept, NEW a, Lined(window, run, lastRead, a), NEW q, Fits(window, q), a <= ChunkOf(q),
         NEW c \in Missing(window, q), NEW n \in Nat \ {0}, Fault(c, n, ChunkOf(q))
  PROVE  /\ Lined(window', run', lastRead', ChunkOf(q))
         /\ \A d \in Held(window', run') : ChunkOf(q) <= d /\ d < c
         /\ run'.stop = c + n
         /\ lastRead' = lastRead
<1> DEFINE b == ChunkOf(q)
<1>1. /\ c \in Nat /\ b \in Nat /\ b <= c
      /\ c \notin DOMAIN window.chunks
      /\ \A e \in Nat : b <= e /\ e < c => e \in DOMAIN window.chunks
  BY ChunksWalked
<1>2. /\ run = NoRun /\ Held(window, run) = DOMAIN window.chunks
  BY NothingRead DEF Fault, Held
<1>3. Lined(window, run, lastRead, b)
  BY <1>1, <1>2, LinedOn
<1> HIDE DEF b
<1>4. \A d \in DOMAIN window.chunks : b <= d => d < c
  <2> SUFFICES ASSUME NEW d \in DOMAIN window.chunks, b <= d, ~(d < c) PROVE FALSE
    OBVIOUS
  <2>1. d \in Nat /\ c <= d
    BY <1>1, <1>2, <1>3 DEF Lined
  <2> QED
    BY <1>1, <1>2, <1>3, <2>1 DEF Lined
<1>5. /\ window' = DropBelow(window, b)
      /\ run' = [cur |-> c, stop |-> c + n, out |-> [d \in {} |-> 0]]
      /\ lastRead' = lastRead
  BY DEF Fault, b
<1>6. DOMAIN window.chunks' = {d \in DOMAIN window.chunks : d >= b} /\ DOMAIN run.out' = {}
  <2>1. window = [size |-> window.size, chunks |-> window.chunks]
    BY DEF Kept, WindowKept
  <2> QED
    BY <1>5, <2>1 DEF DropBelow
<1>7. Held(window', run') = {d \in DOMAIN window.chunks : d >= b}
  BY <1>6 DEF Held
<1>8. \A d : d \in Held(window', run') <=> d \in Nat /\ b <= d /\ d < c
  BY <1>1, <1>2, <1>3, <1>4, <1>7 DEF Lined
<1>9. run'.cur = c /\ run'.stop = c + n
  BY <1>5
<1>11. lastRead <= c
  BY <1>1, <1>2, <1>3 DEF Lined
<1>12. \A e \in Nat : b <= e /\ e \notin Held(window', run') => lastRead <= e
  BY <1>2, <1>3, <1>7 DEF Lined
<1>13. Lined(window', run', lastRead', b)
  BY <1>1, <1>5, <1>8, <1>9, <1>12 DEF Lined
<1> QED
  BY <1>5, <1>8, <1>9, <1>13 DEF b

\* A read goes in behind what is held.
LEMMA ReceiveLined ==
  ASSUME HonestSource, Kept, Receive, NEW a, Lined(window, run, lastRead, a)
  PROVE  /\ Lined(window', run', lastRead', a)
         /\ Near(window, run, a) => Near(window', run', a)
         /\ lastRead <= lastRead'
<1> DEFINE offset == run.cur * ChunkBytes
           length == (RunEnd(run) - run.cur) * ChunkBytes
<1>1. PICK o \in Outcomes(offset, length) :
        LET out == Inserted(run.out, Split(run, o.got))
            end == IF o.eof THEN offset + o.got ELSE Unsized
        IN  IF o.eof \/ RunEnd(run) = run.stop
            THEN window' = Filled(window, out, end) /\ run' = NoRun
            ELSE run' = [run EXCEPT !.cur = RunEnd(run), !.out = out] /\ UNCHANGED window
  BY DEF Receive
<1> DEFINE out == Inserted(run.out, Split(run, o.got))
           end == IF o.eof THEN offset + o.got ELSE Unsized
           new == DOMAIN Split(run, o.got)
<1>2. /\ run # NoRun /\ lastRead' = run.cur
      /\ text \in Texts /\ Len(text) \in Nat
  BY DriveAssumption DEF Receive, Kept
<1>3. /\ run = [cur |-> run.cur, stop |-> run.stop, out |-> run.out]
      /\ run.cur \in Nat /\ run.stop \in Nat /\ run.cur < run.stop
      /\ offset <= Len(text)
      /\ window = [size |-> window.size, chunks |-> window.chunks]
  BY <1>2 DEF Kept, RunKept, WindowKept
<1>4. /\ RunEnd(run) \in Nat /\ run.cur < RunEnd(run) /\ RunEnd(run) <= run.stop
      /\ ChunkBytes \in Nat /\ ChunkBytes > 0
  BY <1>3, DriveAssumption DEF RunEnd, Least
<1>5. /\ offset \in Nat /\ length \in Nat /\ length > 0
  <2>1. run.cur \in Nat /\ RunEnd(run) \in Nat /\ run.cur <= RunEnd(run) /\ run.cur < RunEnd(run)
    BY <1>3, <1>4
  <2>2. /\ run.cur * ChunkBytes \in Nat
        /\ (RunEnd(run) - run.cur) * ChunkBytes \in Nat
        /\ (RunEnd(run) - run.cur) * ChunkBytes >= ChunkBytes
    BY <2>1, Stretch
  <2>3. QED
    BY <1>4, <2>2
<1>6. o.got \in Nat /\ (~o.eof => o.got = length)
  <2> HIDE DEF offset, length
  <2>1. QED
    BY <1>2, <1>3, <1>5, HonestOutcome
<1>7. /\ \A d \in new : d \in Nat /\ run.cur <= d /\ d < RunEnd(run)
      /\ \A d \in new, e \in Nat : run.cur <= e /\ e <= d => e \in new
      /\ ~o.eof => \A e \in Nat : run.cur <= e /\ e < RunEnd(run) => e \in new
  <2>1. new = {d \in run.cur .. RunEnd(run) - 1 : (d - run.cur) * ChunkBytes < o.got}
    BY DEF Split
  <2>2. ASSUME NEW d \in new, NEW e \in Nat, run.cur <= e, e <= d PROVE e \in new
    <3>1. d \in Nat /\ (d - run.cur) * ChunkBytes < o.got /\ d < RunEnd(run)
      BY <1>3, <1>4, <2>1
    <3>2. /\ d - run.cur \in Nat /\ e - run.cur \in Nat /\ e - run.cur <= d - run.cur
      BY <1>3, <2>2, <3>1
    <3> DEFINE m == e - run.cur
               n == d - run.cur
    <3>3. m \in Nat /\ n \in Nat /\ m <= n /\ n * ChunkBytes < o.got
      BY <3>1, <3>2
    <3> HIDE DEF m, n
    <3>4. /\ (n - m) * ChunkBytes \in Nat /\ m * ChunkBytes \in Nat
          /\ n * ChunkBytes = m * ChunkBytes + (n - m) * ChunkBytes
      BY <3>3, Stretch
    <3> DEFINE x == m * ChunkBytes
               y == n * ChunkBytes
               z == (n - m) * ChunkBytes
    <3>5. x < o.got
      <4>1. z \in Nat /\ x \in Nat /\ y = x + z /\ y < o.got
        BY <3>3, <3>4
      <4> HIDE DEF x, y, z
      <4> QED
        BY <1>6, <4>1
    <3> QED
      BY <1>3, <1>4, <2>1, <2>2, <3>1, <3>5 DEF m, x
  <2>3. ASSUME ~o.eof, NEW e \in Nat, run.cur <= e, e < RunEnd(run) PROVE e \in new
    <3> DEFINE m == e - run.cur
               n == RunEnd(run) - run.cur
    <3>1. m \in Nat /\ n \in Nat /\ m <= n /\ m < n /\ o.got = n * ChunkBytes
      BY <1>3, <1>4, <1>6, <2>3
    <3> HIDE DEF m, n
    <3>2. /\ (n - m) * ChunkBytes \in Nat /\ m * ChunkBytes \in Nat
          /\ n * ChunkBytes = m * ChunkBytes + (n - m) * ChunkBytes
          /\ (n - m) * ChunkBytes >= ChunkBytes
      BY <3>1, Stretch
    <3> DEFINE x == m * ChunkBytes
               y == n * ChunkBytes
               z == (n - m) * ChunkBytes
    <3>3. x < o.got
      <4>1. z \in Nat /\ x \in Nat /\ y = x + z /\ o.got = y /\ z >= ChunkBytes
        BY <3>1, <3>2
      <4> HIDE DEF x, y, z
      <4> QED
        BY <1>4, <4>1
    <3> QED
      BY <1>3, <1>4, <2>1, <2>3, <3>3 DEF m, x
  <2> QED
    BY <1>3, <1>4, <2>1, <2>2, <2>3
<1>8. /\ Held(window', run') = Held(window, run) \cup new
      /\ run' = NoRun \/ (/\ run' # NoRun /\ run'.cur = RunEnd(run)
                          /\ run'.stop = run.stop /\ ~o.eof)
  <2>1. DOMAIN out = DOMAIN run.out \cup new
    BY DEF Inserted
  <2>2. CASE o.eof \/ RunEnd(run) = run.stop
    <3>1. window' = Filled(window, out, end) /\ run' = NoRun
      BY <1>1, <2>2
    <3> HIDE DEF out, end
    <3>2. Filled(window, out, end).chunks = Inserted(window.chunks, out)
      BY <1>3 DEF Filled, SetSourceSize
    <3>3. DOMAIN window'.chunks = DOMAIN window.chunks \cup DOMAIN out
      BY <3>1, <3>2 DEF Inserted
    <3> HIDE DEF new
    <3> QED
      BY <2>1, <3>1, <3>3, NothingRead DEF Held
  <2>3. CASE ~(o.eof \/ RunEnd(run) = run.stop)
    <3>1. run' = [run EXCEPT !.cur = RunEnd(run), !.out = out] /\ UNCHANGED window
      BY <1>1, <2>3
    <3> HIDE DEF out, new
    <3>2. run' = [cur |-> RunEnd(run), stop |-> run.stop, out |-> out]
      BY <1>3, <3>1
    <3>3. run'.cur = RunEnd(run) /\ run'.stop = run.stop /\ run'.out = out
      BY <3>2
    <3>4. run' # NoRun
      BY <1>3, <1>4, <3>3 DEF NoRun
    <3> QED
      BY <2>1, <2>3, <3>1, <3>3, <3>4 DEF Held
  <2> QED
    BY <2>2, <2>3
<1> DEFINE held == Held(window, run)
<1>9. /\ a \in Nat /\ held \subseteq Nat /\ a <= run.cur
      /\ \A d \in held : d < run.cur
      /\ \A e \in Nat : a <= e /\ e < run.cur => e \in held
      /\ \A d \in held, e \in Nat : a <= e /\ e <= d => e \in held
      /\ \A e \in Nat : a <= e /\ e \notin held => lastRead <= e
  BY <1>2 DEF Lined
<1> HIDE DEF held, new
<1>10. \A e \in Nat : a <= e /\ e \notin held \cup new => run.cur <= e
  <2> SUFFICES ASSUME NEW e \in Nat, a <= e, e \notin held, ~(run.cur <= e) PROVE FALSE
    OBVIOUS
  <2>1. e < run.cur
    BY <1>3
  <2> QED
    BY <1>9, <2>1
<1>11. \A d \in held \cup new, e \in Nat : a <= e /\ e <= d => e \in held \cup new
  <2> SUFFICES ASSUME NEW d \in new, NEW e \in Nat, a <= e, e <= d PROVE e \in held \cup new
    BY <1>9
  <2>1. e < run.cur \/ run.cur <= e
    BY <1>3
  <2> QED
    BY <1>7, <1>9, <2>1
<1>12. /\ held \cup new \subseteq Nat
       /\ \A d \in held \cup new : d < RunEnd(run)
  <2>1. \A d \in held : d \in Nat /\ d < RunEnd(run)
    BY <1>3, <1>4, <1>9
  <2> QED
    BY <1>7, <2>1
<1>13. ~o.eof => \A e \in Nat : a <= e /\ e < RunEnd(run) => e \in held \cup new
  <2> SUFFICES ASSUME ~o.eof, NEW e \in Nat, a <= e, e < RunEnd(run) PROVE e \in held \cup new
    OBVIOUS
  <2>1. e < run.cur \/ run.cur <= e
    BY <1>3
  <2> QED
    BY <1>7, <1>9, <2>1
<1>14. Lined(window', run', lastRead', a)
  <2>1. a <= RunEnd(run)
    BY <1>3, <1>4, <1>9
  <2> QED
    BY <1>2, <1>8, <1>9, <1>10, <1>11, <1>12, <1>13, <2>1 DEF Lined, held
<1>15. Near(window, run, a) => Near(window', run', a)
  <2> SUFFICES ASSUME Near(window, run, a) PROVE Near(window', run', a)
    OBVIOUS
  <2>1. run.stop <= a + MaxBurst + 1 /\ \A d \in held : a <= d /\ d <= a + MaxBurst
    BY <1>2 DEF Near, held
  <2>2. \A d \in new : a <= d /\ d <= a + MaxBurst
    BY <1>3, <1>4, <1>7, <1>9, <2>1, FetchAssumption
  <2> QED
    BY <1>8, <2>1, <2>2 DEF Near, held
<1>16. lastRead <= lastRead'
  <2>1. run.cur \notin held
    BY <1>3, <1>9
  <2> QED
    BY <1>2, <1>3, <1>9, <2>1
<1> QED
  BY <1>14, <1>15, <1>16

\* The phases of a call before a value is copied or a container opened.
Ahead == {"locate", "peek", "skip", "open"}

\* The lowest byte such a phase still needs.
LowestOf(o) ==
  IF o.phase = "locate" THEN MinReachable(o.resolve)
  ELSE IF o.phase = "skip" /\ o.skip.byte # "unread" THEN o.skip.scan.at
  ELSE o.start

\* While it locates, peeks, walks or enters, a query stands at the lower end of
\* what it holds.
Ranged(w, r, last, o) ==
  o.phase \in Ahead /\ o.cursor = None =>
    /\ o.phase = "peek" => o.skip.byte = "unread"
    /\ Lined(w, r, last, ChunkOf(LowestOf(o)))
    /\ o.phase = "skip" /\ o.skip.byte \in Blocky => Near(w, r, ChunkOf(LowestOf(o)))

\* The inductive invariant for what a query holds and reads.
RangedInv == Inv /\ Ranged(window, run, lastRead, op)

\* The step is not one of those, or leaves them.
Away == op'.phase \notin Ahead \/ op'.cursor # None

\* Nothing is said of the window in the other phases.
LEMMA AwayRanged ==
  ASSUME Away
  PROVE  Ranged(window', run', lastRead', op')
BY DEF Away, Ranged

\* A call that is over is out of those phases.
LEMMA StopsAway ==
  ASSUME QueryKept(window, op), op.phase # "idle", NEW answer, op' = Ended(answer)
  PROVE  Away
BY EndedKept DEF Away, Ahead

\* Nothing was dropped by the step, and nothing read.
LEMMA OnwardRanged ==
  ASSUME run = NoRun, UNCHANGED driveVars, NEW a, Lined(window, run, lastRead, a),
         op'.phase = "peek" => op'.skip.byte = "unread",
         op'.phase = "skip" => op'.skip.byte = "unread",
         ChunkOf(LowestOf(op')) \in Nat, a <= ChunkOf(LowestOf(op'))
  PROVE  Ranged(window', run', lastRead', op')
<1>1. window' = window /\ run' = run /\ lastRead' = lastRead
  BY DEF driveVars
<1>2. Lined(window', run', lastRead', ChunkOf(LowestOf(op')))
  BY <1>1, LinedOn
<1>3. "unread" \notin Blocky
  BY DEF Blocky, Opens
<1> QED
  BY <1>2, <1>3 DEF Ranged

\* While locating, the floor of a miss is the lowest byte the resolution still
\* needs (resolve.rs min_reachable, session.rs drive).
LEMMA LocateRanged ==
  ASSUME RangedInv, Locate
  PROVE  Ranged(window', run', lastRead', op')
<1> DEFINE from == MinReachable(op.resolve)
           n == Len(op.target)
<1>1. QueryKept(window, op) /\ Kept /\ run = NoRun /\ op.phase = "locate"
  BY DEF RangedInv, Inv, Locate, At
<1>2. /\ Fits(window, from) /\ n \in Nat
      /\ \/ \E state \in Resolutions(window, from, n) :
              \E c \in Missing(window, MinReachable(state)) :
                Missed(c, op.burst, MinReachable(state),
                       [op EXCEPT !.resolve = state, !.burst = Doubled(@)])
         \/ \E state \in Resolutions(window, from, n), start \in Reach(window, from) :
              Onward([AfterLocate(start) EXCEPT !.resolve = state])
         \/ Projecting /\ Onward(Emitted(op, Null))
         \/ \E answer : Stopped(answer)
  BY LocateComesTo DEF RangedInv
<1> HIDE DEF n
<1>3. ASSUME Projecting, Onward(Emitted(op, Null)) PROVE Away
  <2>1. Emitted(op, Null).cursor # None
    BY <1>1, <1>3, EmittedKept DEF Projecting
  <2> QED
    BY <1>3, <2>1 DEF Away, Onward
<1>4. ASSUME NEW answer, Stopped(answer) PROVE Away
  BY <1>1, <1>4, StopsAway DEF Stopped
<1>5. ASSUME op.cursor = None PROVE Lined(window, run, lastRead, ChunkOf(from)) /\ from \in Nat
  BY <1>1, <1>2, <1>5 DEF RangedInv, Ranged, Ahead, LowestOf, Fits
<1> HIDE DEF from
<1>6. ASSUME NEW state \in Resolutions(window, from, n), NEW c \in Missing(window, MinReachable(state)),
             Missed(c, op.burst, MinReachable(state),
                    [op EXCEPT !.resolve = state, !.burst = Doubled(@)])
      PROVE  Ranged(window', run', lastRead', op')
  <2> DEFINE missed == [op EXCEPT !.resolve = state, !.burst = Doubled(@)]
             q == MinReachable(state)
  <2>1. q \in Reach(window, from)
    BY DEF Resolutions
  <2>2. /\ Same(missed, op, {"resolve", "burst"}) /\ missed.resolve = state
    BY <1>1, FacetsAre DEF Same, QueryKept, Noted
  <2>3. Fault(c, op.burst, ChunkOf(q)) /\ op' = missed /\ op.burst \in Nat \ {0}
    BY <1>1, <1>6, FetchAssumption DEF Missed, QueryKept, Noted
  <2> HIDE DEF missed
  <2>4. op'.phase = "locate" /\ op'.cursor = op.cursor /\ LowestOf(op') = q
    BY <1>1, <2>2, <2>3, FacetsAre DEF Same, LowestOf
  <2> HIDE DEF q
  <2>5. CASE op.cursor = None
    <3>1. Fits(window, q) /\ q \in Nat /\ from <= q /\ from \in Nat
      BY <1>5, <2>1, <2>5 DEF Reach
    <3>2. ChunkOf(from) <= ChunkOf(q)
      BY <3>1, ChunkGrows
    <3>3. Lined(window', run', lastRead', ChunkOf(q))
      BY <1>1, <1>5, <1>6, <2>3, <2>5, <3>1, <3>2, FaultLined DEF q
    <3> QED
      BY <2>4, <3>3 DEF Ranged
  <2>6. CASE op.cursor # None
    BY <2>4, <2>6, AwayRanged DEF Away
  <2> QED
    BY <2>5, <2>6
<1>7. ASSUME NEW state \in Resolutions(window, from, n), NEW start \in Reach(window, from),
             Onward([AfterLocate(start) EXCEPT !.resolve = state])
      PROVE  Ranged(window', run', lastRead', op')
  <2> DEFINE after == [AfterLocate(start) EXCEPT !.resolve = state]
  <2>1. after.cursor = op.cursor /\ after.phase \in {"peek", "skip", "open"}
        /\ after.start = start /\ after.skip.byte = "unread"
    BY <1>1, AfterLocateIs
  <2>2. op' = after /\ UNCHANGED driveVars
    BY <1>7 DEF Onward
  <2> HIDE DEF after
  <2>3. CASE op.cursor = None
    <3>1. LowestOf(op') = start
      BY <2>1, <2>2 DEF LowestOf
    <3>2. start \in Nat /\ from <= start /\ from \in Nat
      BY <1>5, <2>3 DEF Reach
    <3>3. ChunkOf(from) <= ChunkOf(start) /\ ChunkOf(start) \in Nat
      BY <3>2, ChunkGrows, ChunkFacts
    <3> QED
      BY <1>1, <1>5, <2>1, <2>2, <2>3, <3>1, <3>3, OnwardRanged
  <2>4. CASE op.cursor # None
    BY <2>1, <2>2, <2>4, AwayRanged DEF Away
  <2> QED
    BY <2>3, <2>4
<1> QED
  BY <1>2, <1>3, <1>4, <1>6, <1>7, AwayRanged

\* A miss in a phase that has not got on.
LEMMA MissRanged ==
  ASSUME RangedInv, op.phase \in {"peek", "skip", "open"},
         op.phase = "skip" => op.skip.byte = "unread",
         NEW c \in Missing(window, op.start), NEW n \in Nat \ {0}, NEW waiting,
         Same(waiting, op, {"burst"}), Missed(c, n, op.start, waiting)
  PROVE  Ranged(window', run', lastRead', op')
<1>1. QueryKept(window, op) /\ Kept /\ Fits(window, op.start) /\ op.start \in Nat
  BY DEF RangedInv, Inv, QueryKept, Noted, Fits
<1>2. /\ op' = waiting /\ Fault(c, n, ChunkOf(op.start))
      /\ op'.phase = op.phase /\ op'.cursor = op.cursor /\ op'.start = op.start
      /\ op'.skip = op.skip
  BY FacetsAre DEF Missed, Same
<1>3. LowestOf(op') = op.start /\ LowestOf(op) = op.start
  BY <1>2 DEF LowestOf
<1>4. CASE op.cursor = None
  <2>1. /\ Lined(window, run, lastRead, ChunkOf(op.start))
        /\ op.phase = "peek" => op.skip.byte = "unread"
    BY <1>3, <1>4 DEF RangedInv, Ranged, Ahead
  <2>2. ChunkOf(op.start) \in Nat
    BY <1>1, ChunkFacts
  <2>3. Lined(window', run', lastRead', ChunkOf(op.start))
    BY <1>1, <1>2, <2>1, <2>2, FaultLined
  <2>4. "unread" \notin Blocky
    BY DEF Blocky, Opens
  <2> QED
    BY <1>2, <1>3, <2>1, <2>3, <2>4 DEF Ranged
<1>5. CASE op.cursor # None
  BY <1>2, <1>5, AwayRanged DEF Away
<1> QED
  BY <1>4, <1>5

\* What peeking comes to (session.rs resolve_value).
LEMMA PeekComesTo ==
  ASSUME Inv, Peek
  PROVE  \/ \E c \in Missing(window, op.start) : Missed(c, 1, op.start, op)
         \/ \E answer : Onward(Ended(answer))
         \/ Onward(Entering(op, "skip"))
<1> DEFINE byte == Then(SkipWhitespace(window, op.start), LAMBDA o : ReadByte(window, o))
           next == IF byte.of = "none" THEN Ended(Eof)
                   ELSE IF op.call.do = "has" THEN Ended(Ok(<<>>))
                   ELSE Entering(op, "skip")
<1>1. Fits(window, op.start) /\ SightOf(window)
  BY SightKept DEF Inv, QueryKept, Noted
<1>2. byte.is = "miss" => byte.of \in Missing(window, op.start)
  BY <1>1, PeekedSound
<1>3. IF byte.is = "miss" THEN Missed(byte.of, 1, op.start, op) ELSE Onward(next)
  BY DEF Peek
<1> HIDE DEF byte
<1> QED
  BY <1>2, <1>3

\* Peeking stays at the value's start.
LEMMA PeekRanged ==
  ASSUME RangedInv, Peek
  PROVE  Ranged(window', run', lastRead', op')
<1>1. QueryKept(window, op) /\ Kept /\ run = NoRun /\ op.phase = "peek" /\ op.start \in Nat
  BY DEF RangedInv, Inv, Peek, At, QueryKept, Noted, Fits
<1>2. ASSUME NEW c \in Missing(window, op.start), Missed(c, 1, op.start, op)
      PROVE  Ranged(window', run', lastRead', op')
  <2>1. Same(op, op, {"burst"}) /\ 1 \in Nat \ {0}
    BY <1>1 DEF Same, QueryKept, Noted
  <2> QED
    BY <1>1, <1>2, <2>1, MissRanged
<1>3. ASSUME NEW answer, Onward(Ended(answer)) PROVE Away
  BY <1>1, <1>3, StopsAway DEF Onward
<1>4. ASSUME Onward(Entering(op, "skip"))
      PROVE  Ranged(window', run', lastRead', op')
  <2> DEFINE m == Entering(op, "skip")
  <2>1. /\ m.phase = "skip" /\ m.cursor = op.cursor /\ m.start = op.start /\ m.skip = op.skip
    BY <1>1, FacetsAre DEF Entering, QueryKept, Noted
  <2>2. op' = m /\ UNCHANGED driveVars
    BY <1>4 DEF Onward
  <2> HIDE DEF m
  <2>3. CASE op.cursor = None
    <3>1. op.skip.byte = "unread" /\ Lined(window, run, lastRead, ChunkOf(op.start))
      BY <1>1, <2>3 DEF RangedInv, Ranged, Ahead, LowestOf
    <3>2. LowestOf(op') = op.start
      BY <2>1, <2>2, <3>1 DEF LowestOf
    <3>3. ChunkOf(op.start) \in Nat /\ ChunkOf(op.start) <= ChunkOf(op.start)
      <4>1. ChunkOf(op.start) \in Nat
        BY <1>1, ChunkFacts
      <4> QED
        BY <4>1
    <3> QED
      BY <1>1, <2>1, <2>2, <3>1, <3>2, <3>3, OnwardRanged
  <2>4. CASE op.cursor # None
    BY <2>1, <2>2, <2>4, AwayRanged DEF Away
  <2> QED
    BY <2>3, <2>4
<1> QED
  BY <1>2, <1>3, <1>4, PeekComesTo, AwayRanged DEF RangedInv

\* A miss of the walk lets go of what lies in front of it, and asks for one
\* burst (session.rs skip_value_at).
LEMMA SkipRanged ==
  ASSUME RangedInv, SkipValueAt
  PROVE  Ranged(window', run', lastRead', op')
<1> DEFINE from == IF op.skip.byte = "unread" THEN op.start ELSE op.skip.scan.at
<1>1. QueryKept(window, op) /\ Kept /\ run = NoRun /\ op.phase = "skip"
      /\ op.burst \in Nat \ {0} /\ op.burst <= MaxBurst /\ MaxBurst \in Nat
  BY FetchAssumption DEF RangedInv, Inv, SkipValueAt, At, QueryKept, Noted
<1>2. /\ Fits(window, from)
      /\ \/ /\ op.skip.byte = "unread"
            /\ \E c \in Missing(window, op.start) :
                 Missed(c, op.burst, op.start, [op EXCEPT !.burst = Doubled(@)])
         \/ \E byte : \E scan \in Scans(window, from) :
              \E c \in Missing(window, scan.at) :
                /\ byte # "unread"
                /\ byte \in Blocky => c \in NearMissing(window, scan.at)
                /\ Missed(c, op.burst, scan.at,
                          [op EXCEPT !.burst = Doubled(@),
                                     !.skip = [byte |-> byte, scan |-> scan]])
         \/ \E end \in Nat : Onward([Entering(op, "copy") EXCEPT !.end = end])
         \/ \E answer : Stopped(answer)
  BY SkipComesTo DEF RangedInv
<1>3. op.cursor = None => Lined(window, run, lastRead, ChunkOf(from)) /\ from \in Nat
  BY <1>1, <1>2 DEF RangedInv, Ranged, Ahead, LowestOf, Fits
<1> HIDE DEF from
<1>4. ASSUME op.skip.byte = "unread", NEW c \in Missing(window, op.start),
             Missed(c, op.burst, op.start, [op EXCEPT !.burst = Doubled(@)])
      PROVE  Ranged(window', run', lastRead', op')
  <2> DEFINE again == [op EXCEPT !.burst = Doubled(@)]
  <2>1. Same(again, op, {"burst"})
    BY <1>1, FacetsAre DEF Same, QueryKept, Noted
  <2>2. Missed(c, op.burst, op.start, again)
    BY <1>4
  <2> HIDE DEF again
  <2> QED
    BY <1>1, <1>4, <2>1, <2>2, MissRanged
<1>5. ASSUME NEW byte, byte # "unread", NEW scan \in Scans(window, from),
             NEW c \in Missing(window, scan.at),
             byte \in Blocky => c \in NearMissing(window, scan.at),
             Missed(c, op.burst, scan.at,
                    [op EXCEPT !.burst = Doubled(@), !.skip = [byte |-> byte, scan |-> scan]])
      PROVE  Ranged(window', run', lastRead', op')
  <2> DEFINE missed == [op EXCEPT !.burst = Doubled(@), !.skip = [byte |-> byte, scan |-> scan]]
             q == scan.at
  <2>1. q \in Reach(window, from)
    BY DEF Scans
  <2>2. Same(missed, op, {"burst", "skip"}) /\ missed.skip.byte = byte /\ missed.skip.scan = scan
    BY <1>1, FacetsAre DEF Same, QueryKept, Noted
  <2>3. Fault(c, op.burst, ChunkOf(q)) /\ op' = missed
    BY <1>5 DEF Missed
  <2> HIDE DEF missed
  <2>4. op'.phase = "skip" /\ op'.cursor = op.cursor /\ LowestOf(op') = q /\ op'.skip.byte = byte
    BY <1>1, <1>5, <2>2, <2>3, FacetsAre DEF Same, LowestOf
  <2>5. CASE op.cursor = None
    <3>1. Fits(window, q) /\ q \in Nat /\ from <= q /\ from \in Nat
      BY <1>3, <2>1, <2>5 DEF Reach
    <3>2. ChunkOf(from) <= ChunkOf(q) /\ ChunkOf(q) \in Nat
      BY <3>1, ChunkGrows, ChunkFacts
    <3>3. /\ Lined(window', run', lastRead', ChunkOf(q))
          /\ \A d \in Held(window', run') : ChunkOf(q) <= d /\ d < c
          /\ run'.stop = c + op.burst
      BY <1>1, <1>3, <1>5, <2>3, <2>5, <3>1, <3>2, FaultLined DEF q
    <3>4. ASSUME byte \in Blocky PROVE Near(window', run', ChunkOf(q))
      <4>1. PICK o \in Lacking(window, q) : o < q + BlockBytes /\ c = ChunkOf(o)
        BY <1>5, <3>4 DEF NearMissing, q
      <4>2. o \in Nat /\ o < q + ChunkBytes
        <5>1. o \in Nat /\ BlockBytes \in Nat /\ ChunkBytes \in Nat /\ BlockBytes <= ChunkBytes
          BY BlockBytesNat, FetchAssumption, DriveAssumption DEF Lacking, Reach
        <5> QED
          BY <3>1, <4>1, <5>1
      <4>3. c <= ChunkOf(q) + 1 /\ c \in Nat
        BY <3>1, <4>1, <4>2, ChunkGrows, ChunkFacts
      <4>4. Held(window', run') \subseteq Nat
        BY <3>3 DEF Lined
      <4> DEFINE b == ChunkOf(q)
      <4>5. /\ \A d \in Held(window', run') : d \in Nat /\ b <= d /\ d < c
            /\ c <= b + 1 /\ c \in Nat /\ b \in Nat
        BY <3>2, <3>3, <4>3, <4>4
      <4> HIDE DEF b
      <4>6. \A d \in Held(window', run') : b <= d /\ d <= b + MaxBurst
        BY <1>1, <4>5
      <4>7. run'.stop <= b + MaxBurst + 1
        BY <1>1, <3>3, <4>5
      <4> QED
        BY <4>6, <4>7 DEF Near, b
    <3> QED
      BY <2>4, <3>3, <3>4 DEF Ranged
  <2>6. CASE op.cursor # None
    BY <2>4, <2>6, AwayRanged DEF Away
  <2> QED
    BY <2>5, <2>6
<1>6. ASSUME NEW end \in Nat, Onward([Entering(op, "copy") EXCEPT !.end = end]) PROVE Away
  <2> DEFINE m == Entering(op, "copy")
  <2>1. DOMAIN m = Facets /\ m.phase = "copy"
    BY <1>1, EnteringKept DEF QueryKept, Noted
  <2> HIDE DEF m
  <2>2. [m EXCEPT !.end = end].phase = "copy"
    BY <2>1, FacetsAre
  <2> QED
    BY <1>6, <2>2 DEF Away, Ahead, Onward, m
<1>7. ASSUME NEW answer, Stopped(answer) PROVE Away
  BY <1>1, <1>7, StopsAway DEF Stopped
<1> QED
  BY <1>2, <1>4, <1>5, <1>6, <1>7, AwayRanged

\* Entering a stream's container stays at its start.
LEMMA OpenRanged ==
  ASSUME RangedInv, Open
  PROVE  Ranged(window', run', lastRead', op')
<1> DEFINE entered == EnterContainer(window, op.start)
           next == [Entering(op, "child") EXCEPT !.cursor = entered.of]
<1>1. QueryKept(window, op) /\ run = NoRun /\ op.phase = "open" /\ Fits(window, op.start)
  BY DEF RangedInv, Inv, Open, At, QueryKept, Noted
<1>2. /\ entered.is = "miss"   => Missed(entered.of, 1, op.start, op)
      /\ entered.is = "ok"     => PruneTo(entered.of.next) /\ op' = next
      /\ entered.is = "failed" => Onward(Ended(entered))
      /\ entered.is \notin {"miss", "ok", "failed"} => CloseWindow /\ op' = Ended(entered)
  BY DEF Open
<1>3. entered.is = "miss" => entered.of \in Missing(window, op.start)
  BY <1>1, Entered DEF RangedInv
<1> HIDE DEF entered
<1>4. CASE entered.is = "miss"
  <2>1. Same(op, op, {"burst"}) /\ 1 \in Nat \ {0}
    BY <1>1 DEF Same, QueryKept, Noted
  <2> QED
    BY <1>1, <1>2, <1>3, <1>4, <2>1, MissRanged
<1>5. CASE entered.is = "ok"
  <2>1. Noted(window, Entering(op, "child")) /\ Entering(op, "child").phase = "child"
    BY <1>1, EnteringKept DEF QueryKept
  <2> DEFINE m == Entering(op, "child")
  <2>2. DOMAIN m = Facets /\ m.phase = "child"
    BY <2>1 DEF Noted
  <2> HIDE DEF m
  <2>3. [m EXCEPT !.cursor = entered.of].phase = "child"
    BY <2>2, FacetsAre
  <2> QED
    BY <1>2, <1>5, <2>3, AwayRanged DEF Away, Ahead, m
<1>6. CASE entered.is \notin {"miss", "ok"}
  <2>1. op' = Ended(entered)
    BY <1>2, <1>6 DEF Onward
  <2> QED
    BY <1>1, <2>1, StopsAway, AwayRanged
<1> QED
  BY <1>4, <1>5, <1>6

\* A window that is opened is empty.
LEMMA NoChunks == DOMAIN NewWindow.chunks = {}
BY DEF NewWindow

\* A call starts at the first byte, in an empty window.
LEMMA AskRanged ==
  ASSUME RangedInv, NEW call \in Calls, Ask(call)
  PROVE  Ranged(window', run', lastRead', op')
<1>1. /\ op'.phase = "locate" /\ LowestOf(op') = 0
  <2>1. PICK cached \in BOOLEAN :
          op' = [Idle EXCEPT !.phase = "locate", !.call = call, !.target = call.path,
                             !.cached = cached,
                             !.resolve = ResolveFrom(0, IF cached THEN Stride ELSE 0)]
    BY DEF Ask
  <2> DEFINE stride == IF cached THEN Stride ELSE 0
  <2>2. op'.phase = "locate" /\ op'.resolve = ResolveFrom(0, stride)
    BY <2>1 DEF Idle
  <2> QED
    BY <2>2 DEF LowestOf, MinReachable, ResolveFrom
<1>2. window' = NewWindow /\ run' = NoRun /\ lastRead' = 0
  BY DEF Ask, OpenWindow
<1>3. Held(window', run') = {}
  BY <1>2, NothingRead, NoChunks DEF Held
<1>4. ChunkOf(0) \in Nat
  BY ChunkFacts
<1>5. Lined(window', run', lastRead', ChunkOf(0))
  BY <1>2, <1>3, <1>4 DEF Lined
<1> QED
  BY <1>1, <1>5 DEF Ranged

\* The other steps are out of those phases, or in a projection.
LEMMA OthersAway ==
  ASSUME RangedInv,
         Materialize \/ StepChild \/ EnterChild \/ StepMember \/ Yield
           \/ Return \/ Resume \/ Break \/ ReadFails
  PROVE  Away
<1>1. QueryKept(window, op) /\ DOMAIN op = Facets /\ Waiting /\ Inv
  BY DEF RangedInv, Inv, QueryKept, Noted
<1>2. CASE Materialize
  <2> DEFINE bytes == ReadRange(window, op.start, op.end)
  <2>1. op.phase = "copy"
    BY <1>2 DEF Materialize, At
  <2>2. \/ op' = op
        \/ Projecting /\ op' = Emitted(op, bytes.of)
        \/ op' = Ended(bytes)
    BY <1>2 DEF Materialize, Missed, Onward
  <2> HIDE DEF bytes
  <2>3. Projecting => Emitted(op, bytes.of).cursor # None
    BY <1>1, <2>1, EmittedKept DEF Projecting
  <2> QED
    BY <1>1, <2>1, <2>2, <2>3, StopsAway DEF Away, Ahead
<1>3. CASE StepChild
  <2> DEFINE child == NextChild(window, op.cursor)
             again == [op EXCEPT !.burst = Doubled(@)]
             last == [Ended(Ok(<<>>)) EXCEPT !.delivered = @ \o op.batch]
  <2>1. op.phase = "child" /\ op.cursor # None /\ Iterable(window, op.cursor)
    BY <1>1, <1>3 DEF StepChild, At, QueryKept, Phased, Noted
  <2>2. \/ op' = again
        \/ child.is = "ok" /\ op' = ProjectChild(op, child.of)
        \/ op' = last
        \/ op' = Ended(child)
    BY <1>3 DEF StepChild, Missed, Onward, Stopped
  <2>3. again.phase = "child"
    BY <1>1, <2>1, FacetsAre
  <2>4. last.phase = "done"
    <3> DEFINE m == Ended(Ok(<<>>))
    <3>1. QueryKept(window, m) /\ m.phase = "done"
      BY <1>1, <2>1, EndedKept
    <3> HIDE DEF m
    <3>2. [m EXCEPT !.delivered = @ \o op.batch].phase = "done"
      BY <3>1, FacetsAre DEF QueryKept, Noted
    <3> QED
      BY <3>2 DEF m
  <2>5. child.is = "ok" => ProjectChild(op, child.of).cursor # None
    <3>1. child.is = "ok" => child.of \in Children(window, op.cursor.next)
      BY <1>1, <2>1, Stepped
    <3>2. Fits(window, op.cursor.next)
      BY <2>1 DEF Iterable
    <3> HIDE DEF child
    <3> QED
      BY <1>1, <2>1, <3>1, <3>2, ProjectChildKept
  <2> HIDE DEF child, again, last
  <2> QED
    BY <1>1, <2>1, <2>2, <2>3, <2>4, <2>5, StopsAway DEF Away, Ahead
<1>4. CASE EnterChild
  <2> DEFINE entered == EnterContainer(window, op.child)
             m == Entering(op, "member")
  <2>1. op.phase = "enter" /\ op.cursor # None /\ op.call \in CallShapes /\ Noted(window, op)
    BY <1>1, <1>4 DEF EnterChild, At, QueryKept, Phased
  <2>2. \/ op' = op
        \/ op' = [m EXCEPT !.inner = entered.of]
        \/ op' = Ended(entered)
        \/ op' = NextField(op)
    BY <1>4 DEF EnterChild, Missed, Onward, Stopped
  <2>3. DOMAIN m = Facets /\ m.phase = "member"
    <3>1. Noted(window, m) /\ m.phase = "member"
      BY <2>1, EnteringKept
    <3> HIDE DEF m
    <3> QED
      BY <3>1 DEF Noted
  <2> HIDE DEF m, entered
  <2>4. [m EXCEPT !.inner = entered.of].phase = "member"
    BY <2>3, FacetsAre
  <2>5. NextField(op).cursor # None
    BY <2>1, NextFieldKept
  <2> QED
    BY <1>1, <2>1, <2>2, <2>4, <2>5, StopsAway DEF Away, Ahead
<1>5. CASE StepMember
  <2> DEFINE member == NextChild(window, op.inner)
             again == [op EXCEPT !.burst = Doubled(@)]
             found == Matched(op, member.of)
             m == Entering(found, "member")
  <2>1. /\ op.phase = "member" /\ op.cursor # None /\ op.call \in CallShapes /\ Noted(window, op)
        /\ op.inner # None /\ Iterable(window, op.inner) /\ Fits(window, op.inner.next)
    BY <1>1, <1>5 DEF StepMember, At, QueryKept, Phased, Noted, Iterable
  <2>2. \/ op' = again
        \/ member.is = "ok" /\ op' \in {NextField(found), [m EXCEPT !.inner = member.of.cursor]}
        \/ op' = Ended(member)
        \/ op' = NextField(op)
    BY <1>5 DEF StepMember, Missed, Onward, Stopped
  <2>3. again.phase = "member"
    BY <1>1, <2>1, FacetsAre
  <2>4. member.is = "ok" => member.of \in Children(window, op.inner.next)
    BY <1>1, <2>1, Stepped
  <2>5. NextField(op).cursor # None
    BY <2>1, NextFieldKept
  <2> HIDE DEF member, again
  <2>6. ASSUME member.is = "ok"
        PROVE  /\ NextField(found).cursor # None
               /\ [m EXCEPT !.inner = member.of.cursor].phase = "member"
    <3>1. Noted(window, found) /\ Same(found, op, {"fields"})
      BY <1>1, <2>1, <2>4, <2>6, MatchedKept
    <3>2. found.cursor = op.cursor /\ found.call = op.call
      BY <3>1, FacetsAre DEF Same
    <3> HIDE DEF found
    <3>3. NextField(found).cursor # None
      BY <2>1, <3>1, <3>2, NextFieldKept
    <3>4. Noted(window, m) /\ m.phase = "member"
      BY <3>1, EnteringKept
    <3> HIDE DEF m
    <3>5. [m EXCEPT !.inner = member.of.cursor].phase = "member"
      BY <3>4, FacetsAre DEF Noted
    <3> QED
      BY <3>3, <3>5
  <2> HIDE DEF found, m
  <2> QED
    BY <1>1, <2>1, <2>2, <2>3, <2>5, <2>6, StopsAway DEF Away, Ahead
<1>6. CASE Yield
  <2> DEFINE batch == Append(op.batch, op.values)
             m == Entering(op, "child")
  <2>1. \/ op' = [op EXCEPT !.phase = "paused", !.batch = <<>>, !.delivered = @ \o batch]
        \/ op' = [m EXCEPT !.batch = batch]
    BY <1>6 DEF Yield
  <2> HIDE DEF batch
  <2>2. DOMAIN m = Facets /\ m.phase = "child"
    BY <1>1, FacetsAre DEF Entering
  <2> HIDE DEF m
  <2>3. /\ [op EXCEPT !.phase = "paused", !.batch = <<>>, !.delivered = @ \o batch].phase = "paused"
        /\ [m EXCEPT !.batch = batch].phase = "child"
    BY <1>1, <2>2, FacetsAre
  <2> QED
    BY <2>1, <2>3 DEF Away, Ahead
<1>7. CASE Return
  BY <1>7 DEF Return, Idle, Away, Ahead
<1>8. CASE Resume
  <2>1. op' = Entering(op, "child")
    BY <1>8 DEF Resume, Onward
  <2>2. Entering(op, "child").phase = "child"
    BY <1>1, FacetsAre DEF Entering
  <2> QED
    BY <2>1, <2>2 DEF Away, Ahead
<1>9. CASE Break
  BY <1>1, <1>9, StopsAway DEF Break, At
<1>10. CASE ReadFails
  BY <1>1, <1>10, StopsAway DEF ReadFails, Reject, Waiting
<1> QED
  BY <1>2, <1>3, <1>4, <1>5, <1>6, <1>7, <1>8, <1>9, <1>10

\* A read that returns fills the window from below.
LEMMA DeliveredRanged ==
  ASSUME HonestSource, RangedInv, Delivered
  PROVE  Ranged(window', run', lastRead', op')
<1>1. Receive /\ op' = op /\ Kept
  BY DEF Delivered, RangedInv, Inv
<1>2. CASE op.phase \in Ahead /\ op.cursor = None
  <2> DEFINE a == ChunkOf(LowestOf(op))
  <2>1. /\ op.phase = "peek" => op.skip.byte = "unread"
        /\ Lined(window, run, lastRead, a)
        /\ op.phase = "skip" /\ op.skip.byte \in Blocky => Near(window, run, a)
    BY <1>2 DEF RangedInv, Ranged
  <2> HIDE DEF a
  <2>2. /\ Lined(window', run', lastRead', a)
        /\ Near(window, run, a) => Near(window', run', a)
    BY <1>1, <2>1, ReceiveLined
  <2>3. ChunkOf(LowestOf(op')) = a
    BY <1>1 DEF a
  <2> QED
    BY <1>1, <2>1, <2>2, <2>3 DEF Ranged
<1>3. CASE ~(op.phase \in Ahead /\ op.cursor = None)
  BY <1>1, <1>3 DEF Ranged
<1> QED
  BY <1>2, <1>3

\* What a call reads, drops and holds while it locates its value.
LEMMA NextRanged ==
  ASSUME HonestSource, RangedInv, [Next]_vars
  PROVE  RangedInv'
<1>1. Inv'
  BY NextInv DEF RangedInv
<1>2. Ranged(window', run', lastRead', op')
  <2>1. ASSUME NEW call \in Calls, Ask(call) PROVE Ranged(window', run', lastRead', op')
    BY <2>1, AskRanged
  <2>2. CASE UNCHANGED vars
    BY <2>2 DEF vars, driveVars, RangedInv
  <2> QED
    BY <2>1, <2>2, LocateRanged, PeekRanged, SkipRanged, OpenRanged, OthersAway, AwayRanged,
       DeliveredRanged DEF Next, Work
<1>3. Ranged(window, run, lastRead, op)'
  BY <1>2 DEF Ranged, Lined, Near, Held, LowestOf, MinReachable, ChunkOf
<1> QED
  BY <1>1, <1>3 DEF RangedInv

\* Before the first call nothing is said of the window.
LEMMA InitRanged == HonestSource /\ Init => RangedInv
<1> SUFFICES ASSUME HonestSource, Init PROVE RangedInv
  OBVIOUS
<1>1. Inv
  BY InitInv
<1>2. op.phase = "idle"
  BY DEF Init, Idle
<1> QED
  BY <1>1, <1>2 DEF RangedInv, Ranged, Ahead

\* While a call locates a value and walks it, the window holds chunks without a
\* gap from where the call stands, and the next one that it lacks is not in
\* front of the last one read (session.rs drive, walker.rs).
THEOREM FetchRanged == HonestSource => (Spec => []RangedInv)
<1> SUFFICES ASSUME HonestSource PROVE Spec => []RangedInv
  OBVIOUS
<1>1. Init => RangedInv
  BY InitRanged
<1>2. RangedInv /\ [Next]_vars => RangedInv'
  BY NextRanged
<1> QED
  BY <1>1, <1>2, PTL DEF Spec

\* While a call walks a string or a container it is to copy, the window holds
\* the chunk the walk stands in and what one burst brought, however long the
\* value is (session.rs drive, MAX_BURST).
THEOREM FetchBounded == HonestSource => (Spec => []WindowBounded)
<1> SUFFICES ASSUME HonestSource PROVE Spec => []WindowBounded
  OBVIOUS
<1>1. Spec => []RangedInv
  BY FetchRanged
<1>2. RangedInv => WindowBounded
  <2> SUFFICES ASSUME RangedInv, op.phase = "skip", ~Projecting, op.skip.byte \in Blocky
               PROVE  Cardinality(DOMAIN window.chunks) <= MaxBurst + 1
    BY DEF WindowBounded, Blocky
  <2> DEFINE a == ChunkOf(LowestOf(op))
  <2>1. Lined(window, run, lastRead, a) /\ Near(window, run, a)
    BY DEF RangedInv, Ranged, Ahead, Projecting
  <2> HIDE DEF a
  <2>2. a \in Nat /\ MaxBurst \in Nat
    BY <2>1, FetchAssumption DEF Lined
  <2>3. DOMAIN window.chunks \in SUBSET (a .. a + MaxBurst)
    BY <2>1, <2>2 DEF Lined, Near, Held
  <2>4. IsFiniteSet(a .. a + MaxBurst) /\ Cardinality(a .. a + MaxBurst) = MaxBurst + 1
    BY <2>2, FS_Interval
  <2>5. Cardinality(DOMAIN window.chunks) <= Cardinality(a .. a + MaxBurst)
    BY <2>3, <2>4, FS_Subset
  <2> QED
    BY <2>4, <2>5
<1> QED
  BY <1>1, <1>2, PTL

\* Only a read that returns moves on the place of the last one.
LEMMA StepReadsNothing ==
  ASSUME RangedInv, op.phase \in Ahead, Locate \/ Peek \/ SkipValueAt \/ Open
  PROVE  lastRead' = lastRead
<1>1. ASSUME NEW c, NEW n, NEW floor, NEW waiting, Missed(c, n, floor, waiting)
      PROVE  lastRead' = lastRead
  BY <1>1 DEF Missed, Fault
<1>2. ASSUME NEW next, Onward(next) PROVE lastRead' = lastRead
  BY <1>2 DEF Onward, driveVars
<1>3. ASSUME NEW answer, Stopped(answer) PROVE lastRead' = lastRead
  BY <1>3 DEF Stopped, PruneTo, CloseWindow, driveVars
<1>4. CASE Locate
  BY <1>1, <1>2, <1>3, <1>4, LocateComesTo DEF RangedInv
<1>5. CASE Peek
  BY <1>1, <1>2, <1>5, PeekComesTo DEF RangedInv
<1>6. CASE SkipValueAt
  BY <1>1, <1>2, <1>3, <1>6, SkipComesTo DEF RangedInv
<1>7. CASE Open
  <2>1. PICK entered \in {EnterContainer(window, op.start)} :
          \/ Missed(entered.of, 1, op.start, op)
          \/ PruneTo(entered.of.next)
          \/ Onward(Ended(entered))
          \/ CloseWindow
    BY <1>7 DEF Open
  <2> QED
    BY <1>1, <1>2, <2>1 DEF PruneTo, CloseWindow
<1> QED
  BY <1>4, <1>5, <1>6, <1>7

\* Where a read starts is a chunk.
LEMMA LastIsChunk ==
  ASSUME Inv, lastRead \in Nat, [Next]_vars
  PROVE  lastRead' \in Nat
<1>1. Onwards \/ OpenWindow
  BY NextFollows DEF Follows
<1>2. run # NoRun => run.cur \in Nat
  BY DEF Inv, Kept, RunKept
<1>3. Receive \/ Reject => run # NoRun /\ lastRead' = run.cur
  BY DEF Receive, Reject
<1>4. CASE Receive \/ Reject
  BY <1>2, <1>3, <1>4
<1>5. CASE ~(Receive \/ Reject)
  BY <1>1, <1>5 DEF Onwards, Fault, CloseWindow, Prune, OpenWindow, driveVars
<1> QED
  BY <1>4, <1>5

\* A call that is not projecting reads the source forward, whatever the text
\* and the chunks: with every miss the floor it drops below is one it will not
\* need again (session.rs drive, resolve.rs min_reachable).
THEOREM FetchForward == HonestSource => (Spec => LocatesForward)
<1> SUFFICES ASSUME HonestSource PROVE Spec => LocatesForward
  OBVIOUS
<1> DEFINE Traced == RangedInv /\ lastRead \in Nat
<1>1. Init => Traced
  BY InitRanged DEF Init, DriveInit
<1>2. Traced /\ [Next]_vars => Traced'
  BY NextRanged, LastIsChunk DEF RangedInv
<1>3. Traced /\ [Next]_vars =>
        [op.phase \in {"locate", "peek", "skip", "open"} /\ ~Projecting
           => lastRead' >= lastRead]_vars
  <2> SUFFICES ASSUME RangedInv, lastRead \in Nat, Next, op.phase \in Ahead, ~Projecting
               PROVE  lastRead' >= lastRead
    BY DEF Ahead
  <2> DEFINE a == ChunkOf(LowestOf(op))
  <2>1. Lined(window, run, lastRead, a) /\ Kept
    BY DEF RangedInv, Inv, Ranged, Projecting
  <2> HIDE DEF a
  <2>3. CASE Receive
    BY <2>1, <2>3, ReceiveLined
  <2>4. CASE Reject
    <3>1. run # NoRun /\ lastRead' = run.cur
      BY <2>4 DEF Reject
    <3>2. run.cur \in Nat /\ a <= run.cur /\ run.cur \notin Held(window, run)
      BY <2>1, <3>1 DEF Lined, Kept, RunKept
    <3> QED
      BY <2>1, <3>1, <3>2 DEF Lined
  <2>5. CASE Locate \/ Peek \/ SkipValueAt \/ Open
    <3>1. lastRead' = lastRead
      BY <2>5, StepReadsNothing
    <3> QED
      BY <3>1
  <2>6. ~Receive /\ ~Reject => Locate \/ Peek \/ SkipValueAt \/ Open
    BY DEF Next, Work, Ask, Materialize, StepChild, EnterChild, StepMember, Yield, Return,
           Resume, Break, At, Ahead, Delivered, ReadFails
  <2> QED
    BY <2>3, <2>4, <2>5, <2>6
<1> HIDE DEF Traced
<1> QED
  BY <1>1, <1>2, <1>3, PTL DEF Spec, LocatesForward
===============================================================================
