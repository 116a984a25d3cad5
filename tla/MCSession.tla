------------------------------ MODULE MCSession ------------------------------
(***************************************************************************)
(* Small documents and query sets for TLC, and the view the runs use.      *)
(***************************************************************************)
EXTENDS Session, TLC

CONSTANTS a, b, c, d, x, y  \* member names, model values

Obj(entries, close) == [kind |-> "object", entries |-> entries, close |-> close]
Arr(entries, close) == [kind |-> "array", entries |-> entries, close |-> close]
Mem(name, at, value) == [name |-> name, at |-> at, value |-> value]
Elem(at) == [name |-> None, at |-> at, value |-> at]

(* {"x":{"a":1,"b":2,"c":3},"y":{"d":4,"d":5}}                             *)
TwoObjects ==
     (0  :> Obj(<<Mem(x, 1, 5), Mem(y, 25, 29)>>, 42))
  @@ (5  :> Obj(<<Mem(a, 6, 10), Mem(b, 12, 16), Mem(c, 18, 22)>>, 23))
  @@ (29 :> Obj(<<Mem(d, 30, 34), Mem(d, 36, 40)>>, 41))

(* {"x":{"a":1,"b":2,"c":3},"y":[1,2,{}]}                                  *)
Mixed ==
     (0  :> Obj(<<Mem(x, 1, 5), Mem(y, 25, 29)>>, 37))
  @@ (5  :> Obj(<<Mem(a, 6, 10), Mem(b, 12, 16), Mem(c, 18, 22)>>, 23))
  @@ (29 :> Arr(<<Elem(30), Elem(32), Elem(34)>>, 36))
  @@ (34 :> Obj(<<>>, 35))

(* a newline, then {"a":1}                                                 *)
LeadingNewline == 1 :> Obj(<<Mem(a, 2, 6)>>, 7)

MixedPaths ==
  { <<>>, <<Member(x)>>, <<Member(x), Member(b)>>, <<Member(x), Member(d)>>,
    <<Member(y)>>, <<Member(y), Element(1)>>, <<Member(y), Element(2)>>,
    <<Member(y), Element(3)>>, <<Member(y), Member(a)>> }

HopPaths == { <<Member(x)>>, <<Member(b)>>, <<Member(d)>>, <<Member(y)>>, <<Element(2)>> }

SiblingPaths ==
  { <<Member(x), Member(a)>>, <<Member(x), Member(c)>>, <<Member(x), Member(d)>>,
    <<Member(y), Member(d)>>, <<Member(y), Member(a)>> }

TightPaths ==
  { <<Member(x), Member(b)>>, <<Member(x), Member(c)>>, <<Member(y), Element(2)>>,
    <<Member(y), Element(1), Member(a)>> }

RootPaths == { <<>>, <<Member(a)>> }

(***************************************************************************)
(* The clock only ever orders last_used, so states that differ by more     *)
(* than that order are one: each recency is replaced by its rank.          *)
(***************************************************************************)
Rank(k) == Cardinality({j \in DOMAIN nodes : nodes[j].last_used < nodes[k].last_used})

RankedView ==
  << [k \in DOMAIN nodes |-> [nodes[k] EXCEPT !.last_used = Rank(k)]],
     slots_used, lock, cursors, task >>
=============================================================================
