------------------------------- MODULE Blocks -------------------------------
(***************************************************************************)
(* The block scanner: simd.rs (scan_block, find_escaped, parity_prefix)    *)
(* and bitmap.rs (structural_word).  A 64-bit word is the set of its bit   *)
(* positions, so a mask is a subset, a shift drops what leaves the word,   *)
(* and only the addition of find_escaped is done on numbers.  The width is *)
(* a constant: 2^LogBlock bytes, 2^6 in the code.                          *)
(***************************************************************************)
EXTENDS Integers, FiniteSets, FiniteSetsExt

CONSTANT LogBlock   \* the block has 2^LogBlock bytes (BLOCK_BYTES)

ASSUME LogBlockAssumption == LogBlock \in Nat \ {0}

BlockBytes == 2^LogBlock
Bits       == 0 .. BlockBytes - 1

\* Bytes, up to what the scanner tells apart.  "p" stands for the bytes of a
\* primitive, "o" for every other byte that means nothing to the scanner.
Bytes == {"quote", "backslash", "{", "}", "[", "]", ",", ":", "space", "p", "o"}

Opens  == {"{", "["}
Closes == {"}", "]"}

\* Go(value), with the value computed once: an element of a set is evaluated
\* before it is bound, while a LET may be evaluated wherever it is used.
Given(value, Go(_)) == CHOOSE result \in {Go(v) : v \in {value}} : TRUE
-----------------------------------------------------------------------------
(* Words *)

\* mutant: bits shifted out of the word stay in it.
ShiftedUnbounded(word, n) == {b + n : b \in word}

Shifted(word, n) == {b + n : b \in word} \cap Bits

Xor(v, w) == (v \ w) \cup (w \ v)

NumberOf(word) == MapThenSumSet(LAMBDA b : 2^b, word)
WordOf(n)      == {b \in Bits : (n \div 2^b) % 2 = 1}

EvenBits == {b \in Bits : b % 2 = 0}

\* Positions of `block` that hold one of `bytes`: a SIMD comparison.
Where(block, bytes) == {b \in Bits : block[b] \in bytes}
-----------------------------------------------------------------------------
(* The carry between blocks: whether the next byte is escaped, and whether *)
(* it is inside a string; both as words.                                   *)

OutsideString == [prevEscaped |-> {}, insideString |-> {}]
InsideString  == [prevEscaped |-> {}, insideString |-> Bits]

Carries == [prevEscaped : {{}, {0}}, insideString : {{}, Bits}]

\* mutant: a backslash that is escaped itself still escapes.
FindEscapedCarried(backslash, prevEscaped) ==
  LET follows  == Shifted(backslash, 1) \cup prevEscaped
      starts   == (backslash \ EvenBits) \ follows
      sum      == NumberOf(starts) + NumberOf(backslash)
      inverted == Shifted(WordOf(sum % 2^BlockBytes), 1)
  IN  [escaped  |-> Xor(EvenBits, inverted) \cap follows,
       overflow |-> IF sum >= 2^BlockBytes THEN {0} ELSE {}]

\* Which bytes a backslash run of odd length escapes.  The sum moves each run
\* that starts on an odd bit to the bit behind its end; a run that reaches the
\* end of the word overflows into the next one.
FindEscaped(backslash, prevEscaped) ==
  LET escaping == backslash \ prevEscaped
      follows  == Shifted(escaping, 1) \cup prevEscaped
      starts   == (escaping \ EvenBits) \ follows
      sum      == NumberOf(starts) + NumberOf(escaping)
      inverted == Shifted(WordOf(sum % 2^BlockBytes), 1)
  IN  [escaped  |-> Xor(EvenBits, inverted) \cap follows,
       overflow |-> IF sum >= 2^BlockBytes THEN {0} ELSE {}]

\* mutant: one doubling pass too few.
ParityPrefixHalf(word) ==
  LET pass[n \in 0 .. LogBlock] ==
        IF n = 0 THEN word ELSE Xor(pass[n - 1], Shifted(pass[n - 1], 2^(n - 1)))
  IN  pass[LogBlock - 1]

\* Bit b of the result is the parity of the bits 0 .. b.
ParityPrefix(word) ==
  LET pass[n \in 0 .. LogBlock] ==
        IF n = 0 THEN word ELSE Xor(pass[n - 1], Shifted(pass[n - 1], 2^(n - 1)))
  IN  pass[LogBlock]

\* The bytes of the block that are inside a string, the opening quote
\* included and the closing one not, and the carry into the next block.
ScanBlock(block, carry) ==
  Given(FindEscaped(Where(block, {"backslash"}), carry.prevEscaped), LAMBDA found :
  Given(Where(block, {"quote"}) \ found.escaped, LAMBDA quotes :
  Given(Xor(ParityPrefix(quotes), carry.insideString), LAMBDA inString :
    [inString |-> inString,
     carry    |-> [prevEscaped  |-> found.overflow,
                   insideString |-> IF BlockBytes - 1 \in inString THEN Bits ELSE {}]])))

\* The structural bytes of one kind, those inside strings masked out.
StructuralWord(block, inString, bytes) == Where(block, bytes) \ inString
=============================================================================
