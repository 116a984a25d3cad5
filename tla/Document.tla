------------------------------ MODULE Document ------------------------------
(***************************************************************************)
(* The JSON document under query: immutable source text, seen as the byte  *)
(* offsets of its containers.  Doc maps the offset of every { and [ to     *)
(*   kind     "object" or "array";                                         *)
(*   entries  the members or elements in text order: name (None in an      *)
(*            array), at (just past the { [ or comma in front of it) and   *)
(*            value (the offset of its value);                             *)
(*   close    the offset of the closing byte.                              *)
(* An offset that is an entry's value and not in DOMAIN Doc is a scalar.   *)
(* Insignificant whitespace is left out but in front of the whole          *)
(* document, where RootStart bytes of it precede the root value: every     *)
(* scan skips it elsewhere before it looks at a byte.                      *)
(***************************************************************************)
EXTENDS Path

CONSTANTS
  Doc,        \* the containers, by the offset of their opening byte
  RootStart   \* offset of the root value

Entry == [name : Names \cup {None}, at : Nat, value : Nat]

\* Offsets grow along the text: each entry lies between the one before it and
\* the close, and the first follows the opening byte.
ASSUME DocAssumption ==
  /\ RootStart \in Nat
  /\ DOMAIN Doc \subseteq Nat
  /\ \A v \in DOMAIN Doc :
       /\ v >= RootStart
       /\ Doc[v].kind \in {"object", "array"}
       /\ Doc[v].entries \in Seq(Entry)
       /\ Doc[v].close \in Nat
       /\ v < Doc[v].close
       /\ v + 1 = IF Doc[v].entries = <<>> THEN Doc[v].close ELSE Doc[v].entries[1].at
       /\ \A i \in DOMAIN Doc[v].entries :
            LET e == Doc[v].entries[i]
            IN  /\ v < e.at
                /\ e.at <= e.value
                /\ e.value < Doc[v].close
                /\ Doc[v].kind = "array" => e.at = e.value /\ e.name = None
                /\ Doc[v].kind = "object" => e.name # None
                /\ \A j \in DOMAIN Doc[v].entries : j < i => Doc[v].entries[j].value < e.at

\* Containers nest: a value is an entry of one of them only.
ASSUME NestingAssumption ==
  \A v, w \in DOMAIN Doc :
    \A i \in DOMAIN Doc[v].entries, j \in DOMAIN Doc[w].entries :
      Doc[v].entries[i].value = Doc[w].entries[j].value => v = w

Entries(v) == Doc[v].entries

\* "skip_whitespace": offsets in front of the root value lead to it.
SkipWhitespace(offset) == IF offset < RootStart THEN RootStart ELSE offset

IsContainer(offset) == offset \in DOMAIN Doc

\* The offset just past a value: "skip_value_step" from its first byte.  At a
\* whitespace byte the scan takes it for a primitive that has ended already.
ValueEnd(offset) ==
  IF IsContainer(offset) THEN Doc[offset].close + 1 ELSE
  IF offset < RootStart THEN offset ELSE offset + 1

\* A scan of container v stands at "offset" in front of entry p, or at the
\* close when no entry is left.
StandsAt(v, p, offset) ==
  /\ p \in 1 .. Len(Entries(v)) + 1
  /\ offset = IF p <= Len(Entries(v)) THEN Entries(v)[p].at ELSE Doc[v].close

(***************************************************************************)
(* What a path denotes, read off the text with no memory of other queries. *)
(***************************************************************************)

\* Entry i of container v is the one a segment addresses: the first member of
\* that name, or the element at that index.
Addresses(v, i, segment) ==
  /\ i \in DOMAIN Entries(v)
  /\ IF IsMember(segment)
       THEN /\ Doc[v].kind = "object"
            /\ Entries(v)[i].name = segment.member
            /\ \A j \in 1 .. i - 1 : Entries(v)[j].name # segment.member
       ELSE /\ Doc[v].kind = "array"
            /\ i = segment.element + 1

KindMatches(v, segment) == Doc[v].kind = KindOf(segment)

\* No object has two members of one name.
UniqueNames ==
  \A v \in DOMAIN Doc : Doc[v].kind = "object" =>
    \A i, j \in DOMAIN Entries(v) : Entries(v)[i].name = Entries(v)[j].name => i = j

\* A walk of the document along the path's first "seg" segments, as the
\* sequence of values it visits after the anchor.
IsWalk(anchor, path, seg, walk) ==
  /\ walk[0] = anchor
  /\ \A n \in 1 .. seg :
       LET v == SkipWhitespace(walk[n - 1])
       IN  /\ IsContainer(v)
           /\ \E i \in DOMAIN Entries(v) :
                /\ Addresses(v, i, path[n])
                /\ walk[n] = Entries(v)[i].value

\* The path's first "seg" segments lead from the anchor to "offset".
Leads(anchor, path, seg, offset) ==
  \E walk \in [0 .. seg -> DOMAIN Doc \cup {anchor, offset}] :
    IsWalk(anchor, path, seg, walk) /\ SkipWhitespace(walk[seg]) = SkipWhitespace(offset)

\* The path leaves the document after "seg" segments, at container v.
StopsAbsent(anchor, path, seg, v) ==
  /\ Leads(anchor, path, seg, v)
  /\ IsContainer(v)
  /\ KindMatches(v, path[seg + 1])
  /\ \A i \in DOMAIN Entries(v) : ~ Addresses(v, i, path[seg + 1])

\* The path's next segment cannot be applied to the value at offset v.
StopsFaulty(anchor, path, seg, v) ==
  /\ Leads(anchor, path, seg, v)
  /\ ~ (IsContainer(SkipWhitespace(v)) /\ KindMatches(SkipWhitespace(v), path[seg + 1]))

(***************************************************************************)
(* The answers the text allows a call: a record of the operation "op", the *)
(* anchor and path it was asked about, and of its "status", the segments   *)
(* "seg" resolved, the "start" they lead to and the "end" of a value.      *)
(***************************************************************************)

\* The path leads to the value found, and get and hop are told where it ends.
FoundIsTrue(call) ==
  call.status = "found" =>
    /\ Leads(call.anchor, call.path, Len(call.path), call.start)
    /\ call.op \in {"get", "hop"} => call.end = ValueEnd(SkipWhitespace(call.start))

\* The path leads to a container that has no such member or element.
AbsentIsTrue(call) ==
  call.status = "absent" =>
    /\ call.seg < Len(call.path)
    /\ StopsAbsent(call.anchor, call.path, call.seg, call.start)

\* The path leads to a value its next segment cannot be applied to, or iter to
\* one that has no children.
FaultIsTrue(call) ==
  call.status = "fault" =>
    IF call.seg < Len(call.path)
      THEN StopsFaulty(call.anchor, call.path, call.seg, call.start)
      ELSE /\ call.op = "iter"
           /\ Leads(call.anchor, call.path, Len(call.path), call.start)
           /\ ~ IsContainer(SkipWhitespace(call.start))

\* A failed read tells nothing.
IsTrue(call) ==
  /\ FoundIsTrue(call)
  /\ AbsentIsTrue(call)
  /\ FaultIsTrue(call)
=============================================================================
