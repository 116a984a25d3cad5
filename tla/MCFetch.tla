------------------------------ MODULE MCFetch ------------------------------
(***************************************************************************)
(* Texts and calls for Fetch.                                              *)
(***************************************************************************)
EXTENDS Fetch

Q == "quote"
B == "backslash"

\* Values whose meaning depends on what came before: an escaped quote and a
\* comma in a string, a bracket in front of a run of backslashes, nesting, and
\* a string and a primitive longer than a chunk.
Values ==
  { <<"p">>,
    <<Q, B, Q, ",", Q>>,
    <<Q, "]", B, B, Q>>,
    <<"[", "p", ",", "p", "]">>,
    <<"{", Q, "p", Q, ":", "p", "}">>,
    <<"p", "p", "p", "p", "p", "p">> }

Sep == <<",">>

Arrays ==
  {<<"[">> \o a \o <<",", "space">> \o b \o Sep \o c \o <<"]">> : a, b, c \in Values}

Objects ==
  {<<"{", Q, "p", Q, ":">> \o a \o <<",", Q, "o", Q, "space", ":">> \o b \o <<"}">> :
     a, b \in Values}

Long == <<"[", "p", ",">> \o <<Q, "o", "o", "o", "[", "o", "o", "o", "o", "o", Q>>
        \o <<",", "p", ",", "p", "]">>

Deep == <<"[", "[", "[", "p", "]", ",", "p", "]", ",">>
        \o <<"{", Q, "p", Q, ":", "[", "p", ",", "p", "]", ",", Q, "o", Q, ":", "p", "}">>
        \o <<",", "p", "]">>

\* What is left of a text whose stream ended too soon.
Cut(t) == {SubSeq(t, 1, n) : n \in 1 .. Len(t) - 1}

SomeTexts == Arrays \cup Objects \cup {Long, Deep} \cup Cut(Long) \cup Cut(Deep)

P == Name(<<"p">>)
O == Name(<<"o">>)

Call(do, path, select) == [do |-> do, path |-> path, select |-> select]

SomeCalls ==
  { Call("has", <<Index(2)>>, Whole),
    Call("has", <<>>, Whole),
    Call("get", <<>>, Whole),
    Call("get", <<O>>, Whole),
    Call("get", <<Index(2)>>, Whole),
    Call("get", <<Index(1), Index(1)>>, Whole),
    Call("iter", <<>>, Whole),
    Call("iter", <<>>, One(<<Index(1)>>)),
    Call("iter", <<>>, Map(<< <<O>>, <<P, Index(1)>> >>)) }

SomeChunks == 0 .. 9

\* For the runs that look for one disagreement: a value longer than a chunk.
LongText == {Long}
LongGets == {Call("get", <<>>, Whole), Call("get", <<Index(1)>>, Whole)}
=============================================================================
