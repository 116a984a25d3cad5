-------------------------------- MODULE Json --------------------------------
(***************************************************************************)
(* What a JSON text holds, found without blocks, chunks or windows: a      *)
(* lexer that takes the text byte by byte, and over it the extents,        *)
(* children and paths that the engine's answers are compared with.  A text *)
(* may end too soon; what it does not settle is Broken.                    *)
(***************************************************************************)
EXTENDS Blocks, Sequences

\* One byte: a backslash in a string escapes the byte behind it, a quote that
\* is not escaped opens or closes a string, a bracket outside moves the depth.
LexerStart == [escape |-> FALSE, string |-> FALSE, depth |-> 0]

LexByte(lexer, byte) ==
  [escape |-> lexer.string /\ byte = "backslash" /\ ~lexer.escape,
   string |-> IF byte = "quote" /\ ~lexer.escape THEN ~lexer.string ELSE lexer.string,
   depth  |-> CASE ~lexer.string /\ byte \in Opens  -> lexer.depth + 1
                [] ~lexer.string /\ byte \in Closes -> lexer.depth - 1
                [] OTHER -> lexer.depth]

\* The lexer in front of every byte of t, and behind the last one.
Lexed(t) ==
  LET lexer[o \in 0 .. Len(t)] ==
        IF o = 0 THEN LexerStart ELSE Given(lexer[o - 1], LAMBDA l : LexByte(l, t[o]))
  IN  [o \in 0 .. Len(t) |-> lexer[o]]

Offsets(t)  == 0 .. Len(t) - 1
Broken      == -1
Earliest(S) == IF S = {} THEN Broken ELSE Min(S)

\* The first offset at or behind `from` that is not whitespace.
Visible(t, from) == Earliest({o \in Offsets(t) : o >= from /\ t[o + 1] # "space"})

\* One past the value that would start at each offset.
Extents(t) ==
  Given(Lexed(t), LAMBDA lexer :
    [start \in Offsets(t) |->
       CASE t[start + 1] = "quote" ->
              Earliest({o \in 1 .. Len(t) : o > start + 1 /\ ~lexer[o].string})
         [] t[start + 1] \in Opens ->
              Earliest({o \in 1 .. Len(t) : o > start + 1 /\ lexer[o].depth = lexer[start].depth})
         [] OTHER ->
              Earliest({o \in Offsets(t) : o >= start /\ t[o + 1] # "p"} \cup {Len(t)})])

\* The offsets just inside the container at `start` and behind its commas.
Separations(t, extents, start) ==
  Given(Lexed(t), LAMBDA lexer :
    {start + 1} \cup
    {o + 1 : o \in {p \in Offsets(t) : /\ p > start
                                       /\ extents[start] # Broken => p < extents[start]
                                       /\ t[p + 1] = ","
                                       /\ ~lexer[p].string
                                       /\ lexer[p].depth = lexer[start].depth + 1}})

\* Where the children of the container start, in order; a boundary with
\* nothing behind it but the close, or nothing at all, starts none.
ChildStarts(t, extents, start) ==
  Given({Visible(t, b) : b \in Separations(t, extents, start)}, LAMBDA starts :
  Given({s \in starts : s # Broken /\ t[s + 1] \notin Closes}, LAMBDA real :
    [i \in 1 .. Cardinality(real) |->
       CHOOSE s \in real : Cardinality({r \in real : r < s}) = i - 1]))

\* The value of the member whose key starts at `key`.
MemberValue(t, extents, key) ==
  Given(IF extents[key] = Broken THEN Broken ELSE Visible(t, extents[key]), LAMBDA colon :
    IF colon = Broken THEN Broken ELSE Visible(t, colon + 1))

\* The children of the container at `start`: what names them, where their
\* values start and end.
ChildAt(t, extents, kind, i, at) ==
  Given(IF kind = "[" THEN at ELSE MemberValue(t, extents, at), LAMBDA value :
    [name  |-> IF kind = "[" THEN <<>>
               ELSE IF extents[at] = Broken THEN <<"broken">>
               ELSE SubSeq(t, at + 2, extents[at] - 1),
     index |-> IF kind = "[" THEN i - 1 ELSE 0,
     start |-> value,
     end   |-> IF value = Broken THEN Broken ELSE extents[value]])

ChildrenOf(t, extents, start) ==
  Given(ChildStarts(t, extents, start), LAMBDA starts :
    [i \in DOMAIN starts |-> ChildAt(t, extents, t[start + 1], i, starts[i])])

\* Where a path leads from the value at `start`: a value, nothing, a value that
\* is no container of the segment's kind, or a place the text does not reach.
Place(to, at) == [to |-> to, at |-> at]

\* One segment further, from the value at `start`.
LeadsOn(t, extents, start, segment) ==
  Given(Visible(t, start), LAMBDA open :
    IF open = Broken THEN Place("broken", 0)
    ELSE IF t[open + 1] # segment.kind THEN Place("not_navigable", 0)
    ELSE Given(ChildrenOf(t, extents, open), LAMBDA children :
         Given({i \in DOMAIN children : /\ children[i].name = segment.name
                                        /\ children[i].index = segment.index},
               LAMBDA named :
           IF named = {}
           THEN Place(IF extents[open] = Broken THEN "broken" ELSE "absent", 0)
           ELSE IF children[Min(named)].start = Broken THEN Place("broken", 0)
           ELSE Place("value", children[Min(named)].start))))

Leads(t, extents, start, path) ==
  LET place[k \in 0 .. Len(path)] ==
        IF k = 0 THEN Place("value", start)
        ELSE Given(place[k - 1], LAMBDA here :
               IF here.to = "value" THEN LeadsOn(t, extents, here.at, path[k]) ELSE here)
  IN  place[Len(path)]

Spanned(start, end) == [i \in 1 .. end - start |-> start + i - 1]

\* The bytes of the value a path leads to from `start`; none where it leads
\* nowhere; Unsettled where the text ends too soon to tell.
Unsettled == <<Broken>>

Selected(t, extents, start, path) ==
  Given(Leads(t, extents, start, path), LAMBDA place :
    CASE place.to = "value" /\ extents[place.at] # Broken -> Spanned(place.at, extents[place.at])
      [] place.to \in {"absent", "not_navigable"}         -> <<>>
      [] OTHER                                            -> Unsettled)
=============================================================================
