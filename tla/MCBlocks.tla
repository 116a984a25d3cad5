------------------------------ MODULE MCBlocks ------------------------------
(***************************************************************************)
(* A text of any bytes fed to the block scanner byte by byte, next to a    *)
(* lexer that looks at one byte at a time.  Each filled block is scanned   *)
(* under the carry of the block before it.                                 *)
(***************************************************************************)
EXTENDS Blocks, Sequences

CONSTANT Alphabet   \* the bytes of the text

VARIABLES filled,   \* bytes of the block being filled
          inside,   \* for each of them, whether the lexer has it in a string
          carry,    \* carry into that block
          lexer     \* the lexer after the last byte: escape pending, in a string

vars == <<filled, inside, carry, lexer>>

Init == /\ filled = <<>>
        /\ inside = <<>>
        /\ carry \in {OutsideString, InsideString}
        /\ lexer = [escape |-> FALSE, string |-> carry = InsideString]

\* One byte of JSON: a backslash escapes the byte behind it, a quote that is
\* not escaped opens or closes a string.
Lexed(byte) ==
  [escape |-> byte = "backslash" /\ ~lexer.escape,
   string |-> IF byte = "quote" /\ ~lexer.escape THEN ~lexer.string ELSE lexer.string]

Feed(byte) ==
  /\ Len(filled) < BlockBytes
  /\ filled' = Append(filled, byte)
  /\ inside' = Append(inside, Lexed(byte).string)
  /\ lexer'  = Lexed(byte)
  /\ UNCHANGED carry

Block  == [b \in Bits |-> filled[b + 1]]
IsFull == Len(filled) = BlockBytes

NextBlock ==
  /\ IsFull
  /\ carry'  = ScanBlock(Block, carry).carry
  /\ filled' = <<>>
  /\ inside' = <<>>
  /\ UNCHANGED lexer

Next == (\E byte \in Alphabet : Feed(byte)) \/ NextBlock

Spec == Init /\ [][Next]_vars
-----------------------------------------------------------------------------
(* Properties *)

\* The words and the carry have their types: scan_block's outputs are words of
\* the block's width, the carry one of the four a block can start with.
TypeOK ==
  /\ carry \in Carries
  /\ IsFull => ScanBlock(Block, carry).inString \subseteq Bits

\* The mask of every block is what a byte-wise lexer finds, whatever runs of
\* backslashes and quotes the blocks before it ended in (simd.rs scan_block).
MaskIsLexed ==
  IsFull => ScanBlock(Block, carry).inString = {b \in Bits : inside[b + 1]}

\* The carry that crosses a block boundary is the lexer's state there: nothing
\* else of the text in front of the boundary is needed (simd.rs ScanCarry).
CarryIsLexerState ==
  filled = <<>> =>
    /\ (carry.prevEscaped # {}) = lexer.escape
    /\ (carry.insideString # {}) = lexer.string
=============================================================================
