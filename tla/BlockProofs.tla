------------------------------ MODULE BlockProofs ------------------------------
(***************************************************************************)
(* The block scanner: which bytes of a block it finds inside strings.      *)
(***************************************************************************)
EXTENDS MCBlocks, NatSets, SequenceTheorems, TLAPS

(***************************************************************************)
(* The number a word stands for.                                           *)
(***************************************************************************)
Weights == [b \in Nat |-> 2^b]

\* A word is finitely many bit positions.
IsWord(word) == IsFiniteSet(word) /\ \A b \in word : b \in Nat

\* A word's number counts the weights of its bits.
LEMMA NumberIsUnits ==
  ASSUME NEW word, IsWord(word)
  PROVE  NumberOf(word) = Cardinality(Units(Weights, word))
<1> DEFINE count == [s \in SUBSET word |-> Cardinality(Units(Weights, s))]
           Iter(F) == F = [s \in SUBSET word |->
                             IF s = {} THEN 0
                             ELSE LET x == CHOOSE y \in s : TRUE
                                  IN  2^x + F[s \ {x}]]
<1>1. IsFiniteSet(word) /\ \A b \in word : Weights[b] \in Nat /\ Weights[b] = 2^b
  BY PowerStep DEF Weights, IsWord
<1>2. \A F : Iter(F) <=> IsSum(F, Weights, word)
  BY <1>1 DEF IsSum
<1>3. IsSum(count, Weights, word) /\ \A F : IsSum(F, Weights, word) => F = count
  BY <1>1, SumIsUnits
<1>4. NumberOf(word) = (CHOOSE F : Iter(F))[word]
  BY DEF NumberOf, MapThenSumSet, MapThenFoldSet
<1> HIDE DEF Iter, count
<1>5. Iter(CHOOSE F : Iter(F))
  BY <1>2, <1>3
<1>6. (CHOOSE F : Iter(F)) = count
  BY <1>2, <1>3, <1>5
<1> QED
  BY <1>4, <1>6 DEF count

\* One bit more adds its weight.
LEMMA NumberAdds ==
  ASSUME NEW word, IsWord(word)
  PROVE  /\ NumberOf(word) \in Nat
         /\ word = {} => NumberOf(word) = 0
         /\ \A b \in Nat : b \notin word => NumberOf(word \cup {b}) = NumberOf(word) + 2^b
<1>1. IsFiniteSet(word) /\ \A b \in Nat : Weights[b] \in Nat /\ Weights[b] = 2^b
  BY PowerStep DEF Weights, IsWord
<1>2. NumberOf(word) = Cardinality(Units(Weights, word)) /\ NumberOf(word) \in Nat
  BY <1>1, NumberIsUnits, UnitsSplit DEF IsWord
<1>3. Units(Weights, {}) = {}
  BY DEF Units
<1>4. ASSUME NEW b \in Nat, b \notin word
      PROVE  NumberOf(word \cup {b}) = NumberOf(word) + 2^b
  <2> DEFINE more == word \cup {b}
  <2>1. IsWord(more) /\ IsFiniteSet(more) /\ b \in more
    BY <1>1, FS_AddElement DEF IsWord
  <2>2. more \ {b} = word
    BY <1>4
  <2> HIDE DEF more
  <2>3. NumberOf(more) = Cardinality(Units(Weights, more))
    BY <2>1, NumberIsUnits
  <2>4. Cardinality(Units(Weights, more)) = Weights[b] + Cardinality(Units(Weights, more \ {b}))
    BY <1>1, <2>1, UnitsSplit DEF IsWord
  <2>5. NumberOf(more) = 2^b + NumberOf(word) /\ 2^b \in Nat
    BY <1>1, <1>2, <2>2, <2>3, <2>4
  <2>6. 2^b + NumberOf(word) = NumberOf(word) + 2^b
    BY <1>2, <2>5
  <2> QED
    BY <2>5, <2>6 DEF more
<1> QED
  BY <1>2, <1>3, <1>4, FS_EmptySet

\* The bits of a word in front of bit b.
Low(word, b) == {d \in word : d < b}

\* A bit's turn: it is added to those in front of it, if it is there.
LEMMA LowStep ==
  ASSUME NEW word, IsWord(word), NEW b \in Nat
  PROVE  /\ IsWord(Low(word, b))
         /\ NumberOf(Low(word, b)) \in Nat
         /\ b = 0 => NumberOf(Low(word, b)) = 0
         /\ NumberOf(Low(word, b + 1)) = NumberOf(Low(word, b)) + IF b \in word THEN 2^b ELSE 0
<1>1. IsFiniteSet(word) /\ \A d \in word : d \in Nat
  BY DEF IsWord
<1>2. IsWord(Low(word, b))
  <2>1. Low(word, b) \subseteq word
    BY DEF Low
  <2> QED
    BY <1>1, <2>1, FS_Subset DEF IsWord
<1>3. NumberOf(Low(word, b)) \in Nat
  BY <1>2, NumberAdds
<1>4. b = 0 => Low(word, b) = {}
  BY <1>1 DEF Low
<1>5. CASE b \in word
  <2>1. Low(word, b + 1) = Low(word, b) \cup {b}
    <3>1. \A d \in word : d < b + 1 <=> d < b \/ d = b
      BY <1>1
    <3> QED
      BY <1>5, <3>1, Zenon DEF Low
  <2>2. b \notin Low(word, b)
    BY DEF Low
  <2> QED
    BY <1>2, <1>3, <1>4, <1>5, <2>1, <2>2, NumberAdds
<1>6. CASE b \notin word
  <2>1. Low(word, b + 1) = Low(word, b)
    BY <1>1, <1>6 DEF Low
  <2> QED
    BY <1>2, <1>3, <1>4, <1>6, <2>1, NumberAdds
<1> QED
  BY <1>5, <1>6

\* A number is less than the weight of the next bit.
LEMMA LowBound ==
  ASSUME NEW word, IsWord(word), NEW b \in Nat
  PROVE  NumberOf(Low(word, b)) < 2^b
<1> DEFINE Over == {n \in Nat : ~ (NumberOf(Low(word, n)) < 2^n)}
<1> SUFFICES ASSUME b \in Over PROVE FALSE
  BY LowStep
<1>1. Min(Over) \in Over /\ \A n \in Over : Min(Over) <= n
  BY MinNat
<1> DEFINE n == Min(Over)
<1>2. n \in Nat /\ n \in Over /\ \A m \in Over : n <= m
  BY <1>1
<1> HIDE DEF n
<1>3. n # 0
  <2>1. NumberOf(Low(word, 0)) = 0 /\ 0 \in Nat
    BY LowStep
  <2>2. 0 \notin Over
    BY <2>1, PowerZero
  <2> QED
    BY <1>2, <2>2
<1>4. n - 1 \in Nat /\ n - 1 \notin Over /\ (n - 1) + 1 = n
  <2> HIDE DEF Over
  <2> QED
    BY <1>2, <1>3
<1>5. 2^n = 2 * 2^(n - 1) /\ 2^(n - 1) \in Nat
  BY <1>4, PowerStep
<1>6. /\ NumberOf(Low(word, n)) = NumberOf(Low(word, n - 1)) + IF n - 1 \in word THEN 2^(n - 1) ELSE 0
      /\ NumberOf(Low(word, n - 1)) \in Nat
  BY <1>4, LowStep
<1>7. NumberOf(Low(word, n - 1)) < 2^(n - 1)
  BY <1>4
<1>8. NumberOf(Low(word, n)) < 2^n
  <2>1. \A low, p \in Nat : low < p => low + p < 2 * p /\ low + 0 < 2 * p
    OBVIOUS
  <2> HIDE DEF Over
  <2> QED
    BY <1>5, <1>6, <1>7, <2>1
<1> QED
  BY <1>2, <1>8

\* Digit b of a number is bit b of its word; what comes behind is even.
HasDigit(word, b, m) ==
  \E k \in Nat : NumberOf(Low(word, m))
                   = NumberOf(Low(word, b)) + (2 * k + IF b \in word THEN 1 ELSE 0) * 2^b

LEMMA Digits ==
  ASSUME NEW word, IsWord(word), NEW b \in Nat, NEW m \in Nat, b < m
  PROVE  HasDigit(word, b, m)
<1> DEFINE digit == IF b \in word THEN 1 ELSE 0
           Splits(n) == \E k \in Nat : NumberOf(Low(word, n)) = NumberOf(Low(word, b)) + (2 * k + digit) * 2^b
           Bad == {n \in Nat : b < n /\ ~ Splits(n)}
<1>0. digit \in {0, 1} /\ 2^b \in Nat /\ NumberOf(Low(word, b)) \in Nat
  BY PowerStep, LowStep
<1> HIDE DEF digit
<1> SUFFICES ASSUME m \in Bad PROVE FALSE
  BY DEF digit, HasDigit
<1>1. Min(Bad) \in Bad /\ \A n \in Bad : Min(Bad) <= n
  <2>1. Bad \in SUBSET Nat /\ Bad # {}
    OBVIOUS
  <2> HIDE DEF Bad
  <2> QED
    BY <2>1, MinNat
<1> DEFINE n == Min(Bad)
<1>2. n \in Nat /\ b < n /\ ~ Splits(n) /\ \A x \in Bad : n <= x
  BY <1>1
<1> HIDE DEF n
<1>3. n - 1 \in Nat /\ (n - 1) + 1 = n /\ n - 1 \notin Bad
  <2> HIDE DEF Bad, Splits
  <2> QED
    BY <1>2
<1>4. /\ NumberOf(Low(word, n)) = NumberOf(Low(word, n - 1)) + IF n - 1 \in word THEN 2^(n - 1) ELSE 0
      /\ NumberOf(Low(word, n - 1)) \in Nat
  BY <1>3, LowStep
<1>5. CASE n = b + 1
  <2>1. NumberOf(Low(word, n)) = NumberOf(Low(word, b)) + digit * 2^b
    <3>1. n - 1 = b
      BY <1>5
    <3>2. digit = 1 => digit * 2^b = 2^b
      BY <1>0
    <3>3. digit = 0 => digit * 2^b = 0
      BY <1>0
    <3>4. (b \in word => digit = 1) /\ (b \notin word => digit = 0)
      BY DEF digit
    <3> QED
      BY <1>0, <1>4, <3>1, <3>2, <3>3, <3>4
  <2>2. 2 * 0 + digit = digit /\ 0 \in Nat
    BY <1>0
  <2>3. NumberOf(Low(word, n)) = NumberOf(Low(word, b)) + (2 * 0 + digit) * 2^b
    BY <2>1, <2>2
  <2> QED
    BY <1>2, <2>2, <2>3
<1>6. CASE n # b + 1
  <2>1. b < n - 1
    BY <1>2, <1>6
  <2>2. Splits(n - 1)
    BY <1>3, <2>1
  <2>3. PICK k \in Nat : NumberOf(Low(word, n - 1)) = NumberOf(Low(word, b)) + (2 * k + digit) * 2^b
    BY <2>2
  <2>4. PICK j \in Nat : 2^(n - 2) = j * 2^b
    <3>1. n - 2 \in Nat /\ b <= n - 2
      BY <1>3, <2>1
    <3> QED
      BY <3>1, PowerMultiple
  <2>5. 2^(n - 1) = 2 * (j * 2^b)
    <3>1. n - 2 \in Nat /\ (n - 2) + 1 = n - 1
      BY <1>3, <2>1
    <3>2. 2^(n - 1) = 2 * 2^(n - 2)
      BY <3>1, PowerStep
    <3> QED
      BY <2>4, <3>2
  <2>6. CASE n - 1 \in word
    <3>1. NumberOf(Low(word, n)) = NumberOf(Low(word, b)) + (2 * (k + j) + digit) * 2^b
      <4>1. ASSUME NEW low \in Nat, NEW p \in Nat
            PROVE  (low + (2 * k + digit) * p) + 2 * (j * p) = low + (2 * (k + j) + digit) * p
        <5>1. digit \in Nat
          BY <1>0
        <5> HIDE DEF Bad, Splits
        <5> QED
          BY <5>1, SMT
      <4> HIDE DEF Bad, Splits
      <4>2. NumberOf(Low(word, n)) = NumberOf(Low(word, n - 1)) + 2 * (j * 2^b)
        BY <1>4, <2>5, <2>6
      <4>3. NumberOf(Low(word, n))
              = (NumberOf(Low(word, b)) + (2 * k + digit) * 2^b) + 2 * (j * 2^b)
        BY <2>3, <4>2
      <4>4. (NumberOf(Low(word, b)) + (2 * k + digit) * 2^b) + 2 * (j * 2^b)
              = NumberOf(Low(word, b)) + (2 * (k + j) + digit) * 2^b
        BY <1>0, <4>1
      <4> QED
        BY <4>3, <4>4, Zenon
    <3>2. k + j \in Nat
      OBVIOUS
    <3> QED
      BY <1>2, <3>1, <3>2, Zenon
  <2>7. CASE n - 1 \notin word
    <3>1. NumberOf(Low(word, n)) = NumberOf(Low(word, n - 1))
      BY <1>4, <2>7
    <3> QED
      BY <1>2, <2>3, <3>1
  <2> QED
    BY <2>6, <2>7
<1> QED
  BY <1>5, <1>6

\* A word of the block is read back off its number.
LEMMA WordNumber ==
  ASSUME NEW word, word \subseteq Bits
  PROVE  /\ IsWord(word) /\ NumberOf(word) \in Nat
         /\ NumberOf(word) < 2^BlockBytes
         /\ WordOf(NumberOf(word)) = word
<1>1. BlockBytes \in Nat
  BY PowerStep, LogBlockAssumption DEF BlockBytes
<1>2. IsWord(word)
  <2>1. IsFiniteSet(Bits)
    BY <1>1, FS_Interval DEF Bits
  <2>2. IsFiniteSet(word)
    BY <2>1, FS_Subset
  <2>3. \A b \in Bits : b \in Nat
    BY <1>1 DEF Bits
  <2> QED
    BY <2>2, <2>3 DEF IsWord
<1>3. Low(word, BlockBytes) = word
  <2>1. \A b \in Bits : b < BlockBytes
    BY <1>1 DEF Bits
  <2> QED
    BY <2>1 DEF Low
<1>4. NumberOf(word) \in Nat /\ NumberOf(word) < 2^BlockBytes
  BY <1>1, <1>2, <1>3, LowBound, LowStep
<1>5. ASSUME NEW b \in Bits
      PROVE  (NumberOf(word) \div 2^b) % 2 = 1 <=> b \in word
  <2> DEFINE digit == IF b \in word THEN 1 ELSE 0
  <2>1. b \in Nat /\ b < BlockBytes
    BY <1>1 DEF Bits
  <2>2. PICK k \in Nat : NumberOf(word) = NumberOf(Low(word, b)) + (2 * k + digit) * 2^b
    <3>1. HasDigit(word, b, BlockBytes)
      BY <1>1, <1>2, <2>1, Digits
    <3> QED
      BY <1>3, <3>1, Zenon DEF HasDigit
  <2>3. /\ 2^b \in Nat \ {0} /\ NumberOf(Low(word, b)) \in Nat
        /\ NumberOf(Low(word, b)) < 2^b
    BY <1>2, <2>1, PowerStep, LowStep, LowBound
  <2>4. 2 * k + digit \in Nat
    OBVIOUS
  <2> HIDE DEF digit
  <2>5. NumberOf(word) \div 2^b = 2 * k + digit
    BY <2>2, <2>3, <2>4, Division
  <2>6. (2 * k + digit) % 2 = 1 <=> digit = 1
    BY DEF digit
  <2> QED
    BY <2>5, <2>6 DEF digit
<1>6. WordOf(NumberOf(word)) = word
  BY <1>5 DEF WordOf
<1> QED
  BY <1>2, <1>4, <1>6

(***************************************************************************)
(* The addition of find_escaped.                                           *)
(***************************************************************************)

\* "starts" are bits of "set" with none of its bits in front of them.
StartsOf(starts, set) ==
  /\ set \subseteq Bits /\ starts \subseteq set
  /\ \A s \in starts : s - 1 \notin set

\* A carry comes into bit b: a run of bits goes on from a start up to b.
CarriedInto(starts, set, b) == \E s \in starts : s < b /\ \A i \in s .. b - 1 : i \in set

\* The word of the sum: a run that has a start is cleared and ends one bit
\* further; a run without stays.
SumWord(starts, set) ==
  {b \in Bits : \/ b \in set /\ b \notin starts /\ ~ CarriedInto(starts, set, b)
                \/ b \notin set /\ CarriedInto(starts, set, b)}

\* A block has an even number of bytes; its bits are what is below it.
LEMMA BlockFacts ==
  /\ BlockBytes \in Nat /\ BlockBytes % 2 = 0 /\ BlockBytes > 1
  /\ Bits \subseteq Nat
  /\ \A b \in Nat : b \in Bits <=> b < BlockBytes
<1>1. LogBlock - 1 \in Nat /\ (LogBlock - 1) + 1 = LogBlock
  BY LogBlockAssumption
<1>2. BlockBytes = 2 * 2^(LogBlock - 1) /\ 2^(LogBlock - 1) \in Nat \ {0}
  BY <1>1, PowerStep DEF BlockBytes
<1>3. \A h \in Nat \ {0} : 2 * h \in Nat /\ (2 * h) % 2 = 0 /\ 2 * h > 1
  OBVIOUS
<1>4. BlockBytes \in Nat /\ BlockBytes % 2 = 0 /\ BlockBytes > 1
  BY <1>2, <1>3
<1> QED
  BY <1>4 DEF Bits

\* A carry goes on through a run and starts where a start is.
LEMMA CarryStep ==
  ASSUME NEW starts, NEW set, StartsOf(starts, set), NEW b \in Nat
  PROVE  /\ ~ CarriedInto(starts, set, 0)
         /\ CarriedInto(starts, set, b + 1) <=> b \in set /\ (b \in starts \/ CarriedInto(starts, set, b))
         /\ b \in starts => b \in set /\ ~ CarriedInto(starts, set, b)
<1>1. \A s \in starts : s \in Nat /\ s \in set /\ s - 1 \notin set
  BY BlockFacts DEF StartsOf
<1>2. ~ CarriedInto(starts, set, 0)
  BY <1>1 DEF CarriedInto
<1>3. ASSUME CarriedInto(starts, set, b + 1)
      PROVE  b \in set /\ (b \in starts \/ CarriedInto(starts, set, b))
  <2>1. PICK s \in starts : s < b + 1 /\ \A i \in s .. (b + 1) - 1 : i \in set
    BY <1>3 DEF CarriedInto
  <2>2. s \in Nat /\ \A i \in s .. b : i \in set
    BY <1>1, <2>1
  <2>3. b \in set
    BY <2>1, <2>2
  <2>4. CASE s = b
    BY <2>1, <2>3, <2>4
  <2>5. CASE s # b
    <3>1. s < b /\ \A i \in s .. b - 1 : i \in set
      BY <2>1, <2>2, <2>5
    <3> QED
      BY <2>3, <3>1 DEF CarriedInto
  <2> QED
    BY <2>4, <2>5
<1>4. ASSUME b \in set, b \in starts \/ CarriedInto(starts, set, b)
      PROVE  CarriedInto(starts, set, b + 1)
  <2>1. CASE b \in starts
    <3>1. b < b + 1 /\ \A i \in b .. (b + 1) - 1 : i \in set
      BY <1>4
    <3> QED
      BY <2>1, <3>1 DEF CarriedInto
  <2>2. CASE CarriedInto(starts, set, b)
    <3>1. PICK s \in starts : s < b /\ \A i \in s .. b - 1 : i \in set
      BY <2>2 DEF CarriedInto
    <3>2. s < b + 1 /\ \A i \in s .. (b + 1) - 1 : i \in set
      BY <1>1, <1>4, <3>1
    <3> QED
      BY <3>2 DEF CarriedInto
  <2> QED
    BY <1>4, <2>1, <2>2
<1>5. ASSUME b \in starts, CarriedInto(starts, set, b) PROVE FALSE
  <2>1. PICK s \in starts : s < b /\ \A i \in s .. b - 1 : i \in set
    BY <1>5 DEF CarriedInto
  <2>2. b - 1 \in s .. b - 1
    BY <1>1, <2>1
  <2> QED
    BY <1>1, <1>5, <2>1, <2>2
<1> QED
  BY <1>1, <1>2, <1>3, <1>4, <1>5

\* Bit by bit, the sum of the two words is the word of the sum and the carry.
LEMMA SumDigits ==
  ASSUME NEW starts, NEW set, StartsOf(starts, set), NEW b \in Nat, b <= BlockBytes
  PROVE  NumberOf(Low(starts, b)) + NumberOf(Low(set, b))
           = NumberOf(Low(SumWord(starts, set), b))
               + IF CarriedInto(starts, set, b) THEN 2^b ELSE 0
<1> DEFINE sum == SumWord(starts, set)
           C(n) == CarriedInto(starts, set, n)
           Adds(n) == NumberOf(Low(starts, n)) + NumberOf(Low(set, n))
                        = NumberOf(Low(sum, n)) + IF C(n) THEN 2^n ELSE 0
           Bad == {n \in Nat : n <= BlockBytes /\ ~ Adds(n)}
<1>1. IsWord(starts) /\ IsWord(set) /\ IsWord(sum)
  <2>1. starts \subseteq Bits /\ set \subseteq Bits /\ sum \subseteq Bits
    BY DEF StartsOf, SumWord
  <2> QED
    BY <2>1, WordNumber
<1>2. \A n \in Nat : n < BlockBytes => (n \in sum <=> \/ n \in set /\ n \notin starts /\ ~ C(n)
                                                      \/ n \notin set /\ C(n))
  BY BlockFacts DEF SumWord
<1> HIDE DEF sum, C
<1>3. \A n \in Nat : /\ ~ C(0)
                     /\ C(n + 1) <=> n \in set /\ (n \in starts \/ C(n))
                     /\ n \in starts => n \in set /\ ~ C(n)
  BY CarryStep DEF C
<1> SUFFICES ASSUME b \in Bad PROVE FALSE
  BY DEF C, sum
<1>4. Min(Bad) \in Bad /\ \A n \in Bad : Min(Bad) <= n
  <2>1. Bad \in SUBSET Nat /\ Bad # {}
    OBVIOUS
  <2> HIDE DEF Bad
  <2> QED
    BY <2>1, MinNat
<1> DEFINE m == Min(Bad)
<1>5. m \in Nat /\ m <= BlockBytes /\ ~ Adds(m) /\ \A n \in Bad : m <= n
  BY <1>4
<1> HIDE DEF m
<1>6. m # 0
  <2>1. /\ NumberOf(Low(starts, 0)) = 0 /\ NumberOf(Low(set, 0)) = 0 /\ NumberOf(Low(sum, 0)) = 0
    BY <1>1, LowStep
  <2>2. Adds(0)
    BY <1>3, <2>1
  <2> QED
    BY <1>5, <2>2
<1>7. PICK n \in Nat : m = n + 1 /\ n < BlockBytes
  <2>1. m - 1 \in Nat /\ m = (m - 1) + 1 /\ m - 1 < BlockBytes
    <3> HIDE DEF Bad, Adds
    <3> QED
      BY <1>5, <1>6, BlockFacts
  <2> QED
    BY <2>1
<1>8. Adds(n)
  <2>1. n \notin Bad
    <3> HIDE DEF Bad, Adds
    <3> QED
      BY <1>5, <1>7
  <2> QED
    BY <1>7, <2>1, BlockFacts
<1> DEFINE p == 2^n
           Bit(word) == IF n \in word THEN p ELSE 0
<1>9. p \in Nat /\ 2^(n + 1) = 2 * p
  BY PowerStep
<1> HIDE DEF p
<1>10. \A word \in {starts, set, sum} :
         NumberOf(Low(word, n)) \in Nat /\ NumberOf(Low(word, n + 1)) = NumberOf(Low(word, n)) + Bit(word)
  BY <1>1, LowStep DEF p
<1> DEFINE low(word) == NumberOf(Low(word, n))
<1>11. low(starts) + low(set) = low(sum) + IF C(n) THEN p ELSE 0
  BY <1>8 DEF p
<1>12. /\ low(starts) \in Nat /\ low(set) \in Nat /\ low(sum) \in Nat
       /\ NumberOf(Low(starts, n + 1)) = low(starts) + Bit(starts)
       /\ NumberOf(Low(set, n + 1)) = low(set) + Bit(set)
       /\ NumberOf(Low(sum, n + 1)) = low(sum) + Bit(sum)
  BY <1>10
<1> HIDE DEF low
<1>13. Bit(starts) + Bit(set) + (IF C(n) THEN p ELSE 0) = Bit(sum) + IF C(n + 1) THEN 2 * p ELSE 0
  BY <1>2, <1>3, <1>7, <1>9
<1>14. Bit(starts) \in Nat /\ Bit(set) \in Nat /\ Bit(sum) \in Nat
  BY <1>9
<1> DEFINE c0 == IF C(n) THEN p ELSE 0
           c1 == IF C(n + 1) THEN 2 * p ELSE 0
<1>15. c0 \in Nat /\ c1 \in Nat
  BY <1>9
<1>16. low(starts) + low(set) = low(sum) + c0 /\ Bit(starts) + Bit(set) + c0 = Bit(sum) + c1
  BY <1>11, <1>13
<1>17. c1 = IF C(n + 1) THEN 2^(n + 1) ELSE 0
  BY <1>9
<1> HIDE DEF Bit, c0, c1
<1>18. (low(starts) + Bit(starts)) + (low(set) + Bit(set)) = (low(sum) + Bit(sum)) + c1
  BY <1>12, <1>14, <1>15, <1>16
<1>19. Adds(n + 1)
  BY <1>12, <1>17, <1>18
<1> QED
  BY <1>5, <1>7, <1>19

\* The sum that find_escaped takes, in the width of the block: its word, and
\* whether it overflows.
LEMMA SumOfRuns ==
  ASSUME NEW starts, NEW set, StartsOf(starts, set)
  PROVE  /\ WordOf((NumberOf(starts) + NumberOf(set)) % 2^BlockBytes) = SumWord(starts, set)
         /\ NumberOf(starts) + NumberOf(set) >= 2^BlockBytes <=> CarriedInto(starts, set, BlockBytes)
<1> DEFINE p == 2^BlockBytes
           sum == SumWord(starts, set)
           over == CarriedInto(starts, set, BlockBytes)
<1>1. starts \subseteq Bits /\ set \subseteq Bits /\ sum \subseteq Bits
  BY DEF StartsOf, SumWord
<1>2. p \in Nat \ {0}
  BY BlockFacts, PowerStep
<1>3. \A word \in {starts, set, sum} : Low(word, BlockBytes) = word
  BY <1>1, BlockFacts DEF Low
<1>4. NumberOf(starts) + NumberOf(set) = NumberOf(sum) + IF over THEN p ELSE 0
  BY <1>3, SumDigits, BlockFacts
<1>5. NumberOf(sum) \in Nat /\ NumberOf(sum) < p /\ WordOf(NumberOf(sum)) = sum
  BY <1>1, WordNumber
<1> DEFINE q == IF over THEN 1 ELSE 0
<1>6. q \in Nat /\ (IF over THEN p ELSE 0) = q * p
  BY <1>2
<1> HIDE DEF p, sum, over
<1>7. (NumberOf(sum) + q * p) % p = NumberOf(sum)
  BY <1>2, <1>5, <1>6, Division
<1>8. (NumberOf(starts) + NumberOf(set)) % p = NumberOf(sum)
  BY <1>4, <1>6, <1>7
<1>9. NumberOf(starts) + NumberOf(set) >= p <=> over
  BY <1>2, <1>4, <1>5
<1> QED
  BY <1>5, <1>8, <1>9 DEF p, sum, over

(***************************************************************************)
(* What find_escaped finds.                                                *)
(***************************************************************************)

\* The lexer's pending escape in front of every byte: a backslash escapes the
\* byte behind it unless it is escaped itself.
EscapesOf(esc, backslash) ==
  \A b \in Nat : b < BlockBytes =>
    (esc[b + 1] <=> b \in backslash /\ ~ esc[b])

\* The bytes found escaped are those the lexer reaches with an escape pending:
\* a run of backslashes escapes the byte behind it if its length is odd, so if
\* the sum carries just when that byte is on an even bit.
LEMMA EscapeFound ==
  ASSUME NEW backslash, backslash \subseteq Bits,
         NEW prev \in {{}, {0}},
         NEW esc, EscapesOf(esc, backslash), esc[0] <=> prev # {}
  PROVE  /\ \A b \in Bits : b \in FindEscaped(backslash, prev).escaped <=> esc[b]
         /\ FindEscaped(backslash, prev).overflow = IF esc[BlockBytes] THEN {0} ELSE {}
<1> DEFINE set == backslash \ prev
           follows == Shifted(set, 1) \cup prev
           starts == (set \ EvenBits) \ follows
           C(n) == CarriedInto(starts, set, n)
<1>1. \A b \in Nat : b < BlockBytes => (b \in follows <=> b - 1 \in set \/ (b = 0 /\ prev # {}))
  <2>1. \A b \in Nat : b < BlockBytes => (b \in Shifted(set, 1) <=> b - 1 \in set)
    <3>0. set \subseteq Bits
      OBVIOUS
    <3> HIDE DEF set
    <3>1. ASSUME NEW b \in Nat, b < BlockBytes, b - 1 \in set PROVE b \in Shifted(set, 1)
      <4>1. b = (b - 1) + 1 /\ b \in Bits
        BY <3>1, BlockFacts
      <4> QED
        BY <3>1, <4>1 DEF Shifted
    <3>2. ASSUME NEW b \in Nat, b \in Shifted(set, 1) PROVE b - 1 \in set
      BY <3>0, <3>2, BlockFacts DEF Shifted
    <3> QED
      BY <3>1, <3>2
  <2>2. \A b \in Nat : b \in prev <=> b = 0 /\ prev # {}
    OBVIOUS
  <2> QED
    BY <2>1, <2>2
<1>2. StartsOf(starts, set)
  <2>1. set \subseteq Bits /\ starts \subseteq set
    <3> HIDE DEF follows
    <3> QED
      OBVIOUS
  <2>2. \A s \in starts : s - 1 \notin set
    BY <1>1, <2>1, BlockFacts
  <2> QED
    BY <2>1, <2>2 DEF StartsOf
<1>3. \A b \in Nat : /\ ~ C(0)
                     /\ C(b + 1) <=> b \in set /\ (b \in starts \/ C(b))
                     /\ b \in starts => b \in set /\ ~ C(b)
  BY <1>2, CarryStep
<1>4. \A b \in Nat : b < BlockBytes =>
        (b \in starts <=> b \in set /\ b % 2 # 0 /\ b - 1 \notin set)
  <2>1. \A b \in Nat : b < BlockBytes => (b \in EvenBits <=> b % 2 = 0)
    BY BlockFacts DEF EvenBits
  <2> QED
    BY <1>1, <2>1
<1>5. \A b \in Nat : b < BlockBytes => (b \in set <=> b \in backslash /\ (b # 0 \/ prev = {}))
  BY BlockFacts
<1>6. -1 \notin set
  BY BlockFacts
<1> HIDE DEF C, starts, follows, set
<1> DEFINE Says(b) == esc[b] <=> \/ b = 0 /\ prev # {}
                                 \/ b # 0 /\ b - 1 \in set /\ (b % 2 = 0 <=> C(b))
           Bad == {b \in Nat : b <= BlockBytes /\ ~ Says(b)}
<1>7. ASSUME NEW b \in Nat, b <= BlockBytes
      PROVE  Says(b)
  <2> SUFFICES ASSUME b \in Bad PROVE FALSE
    BY <1>7
  <2>1. Min(Bad) \in Bad /\ \A n \in Bad : Min(Bad) <= n
    <3>1. Bad \in SUBSET Nat /\ Bad # {}
      OBVIOUS
    <3> HIDE DEF Bad
    <3> QED
      BY <3>1, MinNat
  <2> DEFINE m == Min(Bad)
  <2>2. m \in Nat /\ m <= BlockBytes /\ ~ Says(m) /\ \A n \in Bad : m <= n
    BY <2>1
  <2> HIDE DEF m
  <2>3. m # 0
    <3>1. Says(0)
      OBVIOUS
    <3> QED
      BY <2>2, <3>1
  <2>4. PICK n \in Nat : m = n + 1 /\ n < BlockBytes
    <3>1. m - 1 \in Nat /\ m = (m - 1) + 1 /\ m - 1 < BlockBytes
      <4> HIDE DEF Bad, Says
      <4> QED
        BY <2>2, <2>3, BlockFacts
    <3> QED
      BY <3>1
  <2>5. Says(n)
    <3>1. n \notin Bad
      <4> HIDE DEF Bad, Says
      <4> QED
        BY <2>2, <2>4
    <3> QED
      BY <2>4, <3>1, BlockFacts
  <2>6. esc[n + 1] <=> n \in backslash /\ ~ esc[n]
    BY <2>4 DEF EscapesOf
  <2>7. /\ C(n + 1) <=> n \in set /\ (n \in starts \/ C(n))
        /\ n \in starts => n \in set /\ ~ C(n)
        /\ n \in starts <=> n \in set /\ n % 2 # 0 /\ n - 1 \notin set
        /\ n \in set <=> n \in backslash /\ (n # 0 \/ prev = {})
        /\ C(n) /\ n # 0 => n - 1 \in set
        /\ n = 0 => ~ C(n) /\ n % 2 = 0
    <3>1. C(n) /\ n # 0 => n - 1 \in set
      <4> SUFFICES ASSUME C(n), n # 0 PROVE n - 1 \in set
        OBVIOUS
      <4>1. n - 1 \in Nat /\ (n - 1) + 1 = n
        OBVIOUS
      <4> QED
        BY <1>3, <4>1
    <3> QED
      BY <1>3, <1>4, <1>5, <2>4, <3>1
  <2>8. ((n + 1) % 2 = 0 <=> n % 2 # 0) /\ n + 1 # 0 /\ (n + 1) - 1 = n
    OBVIOUS
  <2>9. Says(n + 1)
    BY <2>5, <2>6, <2>7, <2>8
  <2> QED
    BY <2>2, <2>4, <2>9
<1> DEFINE sum == NumberOf(starts) + NumberOf(set)
           word == WordOf(sum % 2^BlockBytes)
<1>8. /\ FindEscaped(backslash, prev).escaped = Xor(EvenBits, Shifted(word, 1)) \cap follows
      /\ FindEscaped(backslash, prev).overflow = IF sum >= 2^BlockBytes THEN {0} ELSE {}
  BY DEF FindEscaped, starts, follows, set
<1>9. word = SumWord(starts, set) /\ (sum >= 2^BlockBytes <=> C(BlockBytes))
  BY <1>2, SumOfRuns DEF C
<1>10. \A b \in Nat : b < BlockBytes =>
         (b \in word <=> \/ b \in set /\ b \notin starts /\ ~ C(b)
                         \/ b \notin set /\ C(b))
  BY <1>9, BlockFacts DEF SumWord, C
<1> HIDE DEF word, sum
<1>11. ASSUME NEW b \in Bits
       PROVE  b \in FindEscaped(backslash, prev).escaped <=> esc[b]
  <2>1. b \in Nat /\ b < BlockBytes /\ b <= BlockBytes
    BY BlockFacts
  <2>2. b \in EvenBits <=> b % 2 = 0
    BY DEF EvenBits
  <2>3. b \in Shifted(word, 1) <=> b - 1 \in word
    BY <2>1, <1>9, BlockFacts DEF Shifted, SumWord
  <2>4. Says(b)
    BY <1>7, <2>1
  <2>5. b \in follows <=> b - 1 \in set \/ (b = 0 /\ prev # {})
    BY <1>1, <2>1
  <2>6. CASE b = 0
    <3>1. b - 1 \notin word
      BY <1>9, <2>6, BlockFacts DEF SumWord
    <3>2. 0 % 2 = 0
      OBVIOUS
    <3> QED
      BY <1>6, <1>8, <2>2, <2>3, <2>4, <2>5, <2>6, <3>1, <3>2 DEF Xor
  <2>7. CASE b # 0
    <3>1. b - 1 \in Nat /\ (b - 1) + 1 = b /\ b - 1 < BlockBytes
      BY <2>1, <2>7, BlockFacts
    <3>2. /\ C(b) <=> b - 1 \in set /\ (b - 1 \in starts \/ C(b - 1))
          /\ b - 1 \in starts => b - 1 \in set /\ ~ C(b - 1)
      BY <1>3, <3>1
    <3>3. b - 1 \in set => (b - 1 \in word <=> ~ C(b))
      BY <1>10, <3>1, <3>2
    <3> QED
      BY <1>8, <2>2, <2>3, <2>4, <2>5, <2>7, <3>3 DEF Xor
  <2> QED
    BY <2>6, <2>7
<1>12. esc[BlockBytes] <=> C(BlockBytes)
  <2>1. Says(BlockBytes)
    BY <1>7, BlockFacts
  <2>2. C(BlockBytes) => BlockBytes - 1 \in set
    <3>1. BlockBytes - 1 \in Nat /\ (BlockBytes - 1) + 1 = BlockBytes
      BY BlockFacts
    <3> QED
      BY <1>3, <3>1
  <2> QED
    BY <2>1, <2>2, BlockFacts
<1> QED
  BY <1>8, <1>9, <1>11, <1>12

(***************************************************************************)
(* The parity prefix.                                                      *)
(***************************************************************************)

Odd(set) == Cardinality(set) % 2 = 1

\* Of two sets with no element in common, one is odd if their union is.
LEMMA OddUnion ==
  ASSUME NEW A, NEW B, IsFiniteSet(A), IsFiniteSet(B), A \cap B = {}
  PROVE  Odd(A \cup B) <=> ~ (Odd(A) <=> Odd(B))
<1>1. Cardinality(A \cup B) = Cardinality(A) + Cardinality(B) - Cardinality(A \cap B)
  BY FS_Union
<1>2. Cardinality(A \cap B) = 0 /\ Cardinality(A) \in Nat /\ Cardinality(B) \in Nat
  BY FS_EmptySet, FS_CardinalityType
<1>3. Cardinality(A \cup B) = Cardinality(A) + Cardinality(B)
  BY <1>1, <1>2
<1>4. \A m, n \in Nat : (m + n) % 2 = 1 <=> ~ (m % 2 = 1 <=> n % 2 = 1)
  OBVIOUS
<1> QED
  BY <1>2, <1>3, <1>4 DEF Odd

\* No element is even, one is odd.
LEMMA OddSmall == ~ Odd({}) /\ \A x : Odd({x})
<1>1. Cardinality({}) = 0 /\ \A x : Cardinality({x}) = 1
  BY FS_EmptySet, FS_Singleton
<1> QED
  BY <1>1 DEF Odd

\* The bits of a word among the last 2^n that end in bit b.
Window(word, b, n) == {c \in word : b - 2^n < c /\ c <= b}

Windows(word) == [n \in 0 .. LogBlock |-> {b \in Bits : Odd(Window(word, b, n))}]

\* A pass joins two windows of half the width.
LEMMA WindowPass ==
  ASSUME NEW word, word \subseteq Bits, NEW n \in 0 .. LogBlock
  PROVE  /\ n = 0 => Windows(word)[n] = word
         /\ n # 0 => Windows(word)[n] = Xor(Windows(word)[n - 1], Shifted(Windows(word)[n - 1], 2^(n - 1)))
<1>1. \A c \in word : c \in Nat
  BY BlockFacts
<1>2. IsFiniteSet(word)
  BY WordNumber DEF IsWord
<1>3. \A b, m : IsFiniteSet(Window(word, b, m))
  <2>1. \A b, m : Window(word, b, m) \subseteq word
    BY DEF Window
  <2> QED
    BY <1>2, <2>1, FS_Subset
<1>4. ASSUME n = 0 PROVE Windows(word)[n] = word
  <2>1. ASSUME NEW b \in Bits PROVE Odd(Window(word, b, 0)) <=> b \in word
    <3>1. b \in Nat
      BY BlockFacts
    <3>2. Window(word, b, 0) = IF b \in word THEN {b} ELSE {}
      <4>1. \A c \in word : b - 2^0 < c /\ c <= b <=> c = b
        BY <1>1, <3>1, PowerZero
      <4> QED
        BY <4>1 DEF Window
    <3> QED
      BY <3>2, OddSmall
  <2>2. Windows(word)[n] = {b \in Bits : Odd(Window(word, b, 0))}
    BY <1>4, LogBlockAssumption DEF Windows
  <2> QED
    BY <2>1, <2>2
<1>5. ASSUME n # 0
      PROVE  Windows(word)[n] = Xor(Windows(word)[n - 1], Shifted(Windows(word)[n - 1], 2^(n - 1)))
  <2>1. n - 1 \in Nat /\ n - 1 \in 0 .. LogBlock /\ (n - 1) + 1 = n /\ n \in Nat
    BY <1>5, LogBlockAssumption
  <2> DEFINE p == 2^(n - 1)
             half == Windows(word)[n - 1]
  <2>2. p \in Nat \ {0} /\ 2^n = 2 * p
    BY <2>1, PowerStep
  <2>3. half = {b \in Bits : Odd(Window(word, b, n - 1))}
    BY <2>1 DEF Windows
  <2>4. ASSUME NEW b \in Bits
        PROVE  Odd(Window(word, b, n)) <=> b \in Xor(half, Shifted(half, p))
    <3>0. b \in Nat
      BY BlockFacts
    <3> DEFINE near == Window(word, b, n - 1)
               far == Window(word, b - p, n - 1)
    <3>8. near = {c \in word : b - p < c /\ c <= b}
      BY DEF Window
    <3>9. far = {c \in word : (b - p) - p < c /\ c <= b - p}
      BY DEF Window
    <3>1. Window(word, b, n) = near \cup far
      <4>3. Window(word, b, n) = {c \in word : b - 2 * p < c /\ c <= b}
        BY <2>2 DEF Window
      <4> HIDE DEF near, far, p
      <4>4. \A c \in word : (b - 2 * p < c /\ c <= b)
                              <=> (b - p < c /\ c <= b) \/ ((b - p) - p < c /\ c <= b - p)
        BY <1>1, <2>2, <3>0
      <4> QED
        BY <3>8, <3>9, <4>3, <4>4
    <3>2. near \cap far = {}
      <4>1. \A c \in word : ~ (b - p < c /\ c <= b - p)
        <5> HIDE DEF p
        <5> QED
          BY <1>1, <2>2, <3>0
      <4> HIDE DEF near, far, p
      <4> QED
        BY <3>8, <3>9, <4>1, Zenon
    <3>3. Odd(Window(word, b, n)) <=> ~ (Odd(near) <=> Odd(far))
      BY <1>3, <3>1, <3>2, OddUnion
    <3>4. Odd(far) <=> b \in Shifted(half, p)
      <4>1. ASSUME b - p \in Bits PROVE b \in Shifted(half, p) <=> Odd(far)
        <5>1. b = (b - p) + p
          BY <2>2, <3>0
        <5>2. \A c \in half : c \in Nat /\ (b = c + p => c = b - p)
          <6>1. \A c \in half : c \in Nat
            BY <2>3, BlockFacts
          <6> HIDE DEF half, p
          <6> QED
            BY <2>2, <3>0, <6>1
        <5>3. b - p \in half <=> Odd(far)
          BY <2>3, <4>1
        <5> HIDE DEF half, p, far
        <5> QED
          BY <5>1, <5>2, <5>3 DEF Shifted
      <4>2. ASSUME b - p \notin Bits PROVE b \notin Shifted(half, p) /\ ~ Odd(far)
        <5>1. b - p < 0
          BY <2>2, <3>0, <4>2, BlockFacts
        <5>2. far = {}
          <6> HIDE DEF p, far
          <6>1. \A c \in word : ~ (c <= b - p)
            BY <1>1, <2>2, <3>0, <5>1
          <6> QED
            BY <3>9, <6>1, Zenon
        <5>3. \A c \in half : c \in Nat /\ b # c + p
          <6>1. \A c \in half : c \in Nat
            BY <2>3, BlockFacts
          <6> HIDE DEF half, p
          <6> QED
            BY <2>2, <3>0, <5>1, <6>1
        <5> HIDE DEF half, p
        <5> QED
          BY <5>2, <5>3, OddSmall DEF Shifted
      <4> QED
        BY <4>1, <4>2
    <3>5. Odd(near) <=> b \in half
      BY <2>3
    <3> HIDE DEF near, far, half, p
    <3> QED
      BY <3>3, <3>4, <3>5 DEF Xor
  <2>5. Windows(word)[n] = {b \in Bits : Odd(Window(word, b, n))}
    BY DEF Windows
  <2>6. Xor(half, Shifted(half, p)) \subseteq Bits
    <3>1. half \subseteq Bits
      BY <2>3
    <3> HIDE DEF half, p
    <3> QED
      BY <3>1 DEF Xor, Shifted
  <2> HIDE DEF half, p
  <2>7. Windows(word)[n] = Xor(half, Shifted(half, p))
    BY <2>4, <2>5, <2>6
  <2> QED
    BY <2>7 DEF half, p
<1> QED
  BY <1>4, <1>5

\* F is what the passes over a word compute.
ArePasses(F, word) ==
  F = [n \in 0 .. LogBlock |->
         IF n = 0 THEN word ELSE Xor(F[n - 1], Shifted(F[n - 1], 2^(n - 1)))]

\* The passes of parity_prefix have one result.
LEMMA PassesAreWindows ==
  ASSUME NEW word, word \subseteq Bits
  PROVE  ArePasses(Windows(word), word) /\ \A F : ArePasses(F, word) => F = Windows(word)
<1> DEFINE W == Windows(word)
           Step(f, n) == Xor(f[n - 1], Shifted(f[n - 1], 2^(n - 1)))
<1>1. W = [n \in 0 .. LogBlock |-> W[n]]
  BY DEF Windows
<1>2. \A n \in 0 .. LogBlock : W[n] = IF n = 0 THEN word ELSE Step(W, n)
  BY WindowPass
<1>3. ArePasses(W, word)
  <2> HIDE DEF W
  <2> QED
    BY <1>1, <1>2 DEF ArePasses
<1>4. ASSUME NEW F, ArePasses(F, word) PROVE F = W
  <2> HIDE DEF W
  <2>1. F = [n \in 0 .. LogBlock |-> F[n]]
    BY <1>4 DEF ArePasses
  <2>2. \A n \in 0 .. LogBlock : F[n] = IF n = 0 THEN word ELSE Step(F, n)
    BY <1>4 DEF ArePasses
  <2> DEFINE Bad == {n \in 0 .. LogBlock : F[n] # W[n]}
  <2>3. Bad = {}
    <3> SUFFICES ASSUME Bad # {} PROVE FALSE
      OBVIOUS
    <3>1. Min(Bad) \in Bad /\ \A n \in Bad : Min(Bad) <= n
      <4>1. Bad \in SUBSET Nat
        BY LogBlockAssumption
      <4> HIDE DEF Bad
      <4> QED
        BY <4>1, MinNat
    <3> DEFINE m == Min(Bad)
    <3>2. m \in 0 .. LogBlock /\ F[m] # W[m] /\ \A n \in Bad : m <= n
      BY <3>1
    <3> HIDE DEF m
    <3>3. m # 0
      BY <1>2, <2>2, <3>2
    <3>4. m - 1 \in 0 .. LogBlock /\ ~ (m <= m - 1)
      BY <3>2, <3>3, LogBlockAssumption
    <3>5. F[m - 1] = W[m - 1]
      BY <3>2, <3>4
    <3>6. F[m] = W[m]
      BY <1>2, <2>2, <3>2, <3>3, <3>5
    <3> QED
      BY <3>2, <3>6
  <2> QED
    BY <1>1, <2>1, <2>3
<1> QED
  BY <1>3, <1>4

\* Bit b of the prefix is the parity of the bits up to b.
LEMMA PrefixIsParity ==
  ASSUME NEW word, word \subseteq Bits
  PROVE  ParityPrefix(word) = {b \in Bits : Odd(Low(word, b + 1))}
<1>1. ParityPrefix(word) = (CHOOSE F : ArePasses(F, word))[LogBlock]
  BY DEF ParityPrefix, ArePasses
<1>2. (CHOOSE F : ArePasses(F, word)) = Windows(word)
  BY PassesAreWindows
<1>3. ParityPrefix(word) = {b \in Bits : Odd(Window(word, b, LogBlock))}
  <2>1. LogBlock \in 0 .. LogBlock
    BY LogBlockAssumption
  <2>2. ParityPrefix(word) = Windows(word)[LogBlock]
    BY <1>1, <1>2
  <2> QED
    BY <2>1, <2>2 DEF Windows
<1>4. ASSUME NEW b \in Bits PROVE Window(word, b, LogBlock) = Low(word, b + 1)
  <2>1. b \in Nat /\ b < BlockBytes /\ BlockBytes \in Nat
    BY BlockFacts
  <2>2. Window(word, b, LogBlock) = {c \in word : b - BlockBytes < c /\ c <= b}
    BY DEF Window, BlockBytes
  <2>3. \A c \in word : (b - BlockBytes < c /\ c <= b) <=> c < b + 1
    BY <2>1, BlockFacts
  <2> QED
    BY <2>2, <2>3 DEF Low
<1> QED
  BY <1>3, <1>4

\* Inside a string in front of every byte: a quote opens or closes one.
StringsOf(str, quotes) ==
  \A b \in Nat : b < BlockBytes => (str[b + 1] <=> ~ (b \in quotes <=> str[b]))

\* The lexer is where it started unless it met an odd number of quotes.
LEMMA StringFound ==
  ASSUME NEW quotes, quotes \subseteq Bits, NEW str, StringsOf(str, quotes),
         NEW b \in Nat, b <= BlockBytes
  PROVE  str[b] <=> ~ (Odd(Low(quotes, b)) <=> str[0])
<1> DEFINE Says(n) == str[n] <=> ~ (Odd(Low(quotes, n)) <=> str[0])
           Bad == {n \in Nat : n <= BlockBytes /\ ~ Says(n)}
<1> SUFFICES ASSUME b \in Bad PROVE FALSE
  OBVIOUS
<1>1. Min(Bad) \in Bad /\ \A n \in Bad : Min(Bad) <= n
  <2>1. Bad \in SUBSET Nat /\ Bad # {}
    OBVIOUS
  <2> HIDE DEF Bad
  <2> QED
    BY <2>1, MinNat
<1> DEFINE m == Min(Bad)
<1>2. m \in Nat /\ m <= BlockBytes /\ ~ Says(m) /\ \A n \in Bad : m <= n
  BY <1>1
<1> HIDE DEF m
<1>3. \A c \in quotes : c \in Nat
  BY BlockFacts
<1>4. m # 0
  <2>1. Low(quotes, 0) = {}
    BY <1>3 DEF Low
  <2>2. Says(0)
    BY <2>1, OddSmall
  <2> QED
    BY <1>2, <2>2
<1>5. PICK n \in Nat : m = n + 1 /\ n < BlockBytes
  <2>1. m - 1 \in Nat /\ m = (m - 1) + 1 /\ m - 1 < BlockBytes
    <3> HIDE DEF Bad, Says
    <3> QED
      BY <1>2, <1>4, BlockFacts
  <2> QED
    BY <2>1
<1>6. Says(n)
  <2>1. n \notin Bad
    <3> HIDE DEF Bad, Says
    <3> QED
      BY <1>2, <1>5
  <2> QED
    BY <1>5, <2>1, BlockFacts
<1>7. str[n + 1] <=> ~ (n \in quotes <=> str[n])
  BY <1>5 DEF StringsOf
<1>8. Odd(Low(quotes, n + 1)) <=> ~ (Odd(Low(quotes, n)) <=> n \in quotes)
  <2> DEFINE own == IF n \in quotes THEN {n} ELSE {}
  <2>1. Low(quotes, n + 1) = Low(quotes, n) \cup own
    <3>1. \A c \in quotes : c < n + 1 <=> c < n \/ c = n
      BY <1>3
    <3> QED
      BY <3>1 DEF Low
  <2>2. Low(quotes, n) \cap own = {}
    BY <1>3 DEF Low
  <2>3. IsFiniteSet(Low(quotes, n)) /\ IsFiniteSet(own)
    BY WordNumber, LowStep, FS_EmptySet, FS_Singleton DEF IsWord
  <2>4. Odd(own) <=> n \in quotes
    BY OddSmall
  <2> HIDE DEF own
  <2> QED
    BY <2>1, <2>2, <2>3, <2>4, OddUnion
<1>9. Says(n + 1)
  BY <1>6, <1>7, <1>8
<1> QED
  BY <1>2, <1>5, <1>9

\* esc[b] and str[b] are the lexer's state in front of byte b of the block.
LexesBlock(block, from, esc, str) ==
  /\ esc[0] <=> from.prevEscaped # {}
  /\ str[0] <=> from.insideString # {}
  /\ \A b \in Nat : b < BlockBytes =>
       /\ esc[b + 1] <=> block[b] = "backslash" /\ ~ esc[b]
       /\ str[b + 1] <=> ~ (block[b] = "quote" /\ ~ esc[b] <=> str[b])

\* A scan finds what the lexer has behind every byte, and carries on what it
\* has behind the last.
LEMMA ScanIsLexed ==
  ASSUME NEW block, NEW from \in Carries, NEW esc, NEW str,
         LexesBlock(block, from, esc, str)
  PROVE  /\ ScanBlock(block, from).inString = {b \in Bits : str[b + 1]}
         /\ ScanBlock(block, from).carry
              = [prevEscaped  |-> IF esc[BlockBytes] THEN {0} ELSE {},
                 insideString |-> IF str[BlockBytes] THEN Bits ELSE {}]
<1> DEFINE backslash == Where(block, {"backslash"})
           found == FindEscaped(backslash, from.prevEscaped)
           quotes == Where(block, {"quote"}) \ found.escaped
           inString == Xor(ParityPrefix(quotes), from.insideString)
           Third(f, i) == [inString |-> i,
                           carry |-> [prevEscaped  |-> f.overflow,
                                      insideString |-> IF BlockBytes - 1 \in i THEN Bits ELSE {}]]
           Second(f, q) == CHOOSE r \in {Third(f, i) : i \in {Xor(ParityPrefix(q), from.insideString)}} : TRUE
           First(f) == CHOOSE r \in {Second(f, q) : q \in {Where(block, {"quote"}) \ f.escaped}} : TRUE
<1>1. ScanBlock(block, from) = CHOOSE r \in {First(f) : f \in {found}} : TRUE
  BY DEF ScanBlock, Given
<1>2. ScanBlock(block, from) = Third(found, inString)
  <2> HIDE DEF Third, found, quotes, inString
  <2>1. ScanBlock(block, from) = First(found)
    <3> HIDE DEF First
    <3> QED
      BY <1>1
  <2>2. First(found) = Second(found, quotes)
    <3>1. First(found) = CHOOSE r \in {Second(found, q) : q \in {quotes}} : TRUE
      BY DEF quotes
    <3> HIDE DEF Second, First
    <3> QED
      BY <3>1
  <2>3. Second(found, quotes) = Third(found, inString)
    <3>1. Second(found, quotes) = CHOOSE r \in {Third(found, i) : i \in {inString}} : TRUE
      BY DEF inString
    <3> HIDE DEF Second
    <3> QED
      BY <3>1
  <2> QED
    BY <2>1, <2>2, <2>3
<1>3. backslash \subseteq Bits /\ \A b \in Bits : b \in backslash <=> block[b] = "backslash"
  BY DEF Where
<1>4. from.prevEscaped \in {{}, {0}} /\ from.insideString \in {{}, Bits}
  BY DEF Carries
<1>5. EscapesOf(esc, backslash)
  BY <1>3, BlockFacts DEF EscapesOf, LexesBlock
<1>6. /\ \A b \in Bits : b \in found.escaped <=> esc[b]
      /\ found.overflow = IF esc[BlockBytes] THEN {0} ELSE {}
  <2>1. esc[0] <=> from.prevEscaped # {}
    BY DEF LexesBlock
  <2> HIDE DEF backslash
  <2> QED
    BY <1>3, <1>4, <1>5, <2>1, EscapeFound
<1>7. quotes \subseteq Bits /\ \A b \in Bits : b \in quotes <=> block[b] = "quote" /\ ~ esc[b]
  <2> HIDE DEF found
  <2> QED
    BY <1>6 DEF Where
<1> HIDE DEF backslash, found, quotes
<1>8. StringsOf(str, quotes)
  BY <1>7, BlockFacts DEF StringsOf, LexesBlock
<1>9. inString = {b \in Bits : str[b + 1]}
  <2>1. ASSUME NEW b \in Bits PROVE b \in inString <=> str[b + 1]
    <3>1. b \in Nat /\ b + 1 \in Nat /\ b + 1 <= BlockBytes
      BY BlockFacts
    <3>2. b \in ParityPrefix(quotes) <=> Odd(Low(quotes, b + 1))
      BY <1>7, PrefixIsParity
    <3>3. str[b + 1] <=> ~ (Odd(Low(quotes, b + 1)) <=> str[0])
      BY <1>7, <1>8, <3>1, StringFound
    <3>4. b \in from.insideString <=> str[0]
      BY <1>4 DEF LexesBlock
    <3> QED
      BY <3>2, <3>3, <3>4 DEF Xor
  <2>2. inString \subseteq Bits
    BY <1>4, <1>7, PrefixIsParity DEF Xor
  <2> QED
    BY <2>1, <2>2
<1>10. BlockBytes - 1 \in inString <=> str[BlockBytes]
  <2>1. BlockBytes - 1 \in Bits /\ (BlockBytes - 1) + 1 = BlockBytes
    BY BlockFacts
  <2> QED
    BY <1>9, <2>1
<1> HIDE DEF inString
<1> QED
  BY <1>2, <1>6, <1>9, <1>10

(***************************************************************************)
(* The history of the block being filled.                                  *)
(***************************************************************************)

\* esc and str are the lexer's states, from the carry up to now.
LexedSoFar(esc, str) ==
  /\ esc[0] <=> carry.prevEscaped # {}
  /\ str[0] <=> carry.insideString # {}
  /\ \A b \in Nat : b < Len(filled) =>
       /\ esc[b + 1] <=> filled[b + 1] = "backslash" /\ ~ esc[b]
       /\ str[b + 1] <=> ~ (filled[b + 1] = "quote" /\ ~ esc[b] <=> str[b])
       /\ inside[b + 1] = str[b + 1]
  /\ lexer = [escape |-> esc[Len(filled)], string |-> str[Len(filled)]]

\* The inductive invariant: the lexer's state and what it has noted of each
\* byte follow from the carry by some history.
ScanInv ==
  /\ filled \in Seq(Alphabet) /\ inside \in Seq(BOOLEAN)
  /\ Len(filled) <= BlockBytes /\ Len(inside) = Len(filled)
  /\ carry \in Carries
  /\ \E esc, str \in [Nat -> BOOLEAN] : LexedSoFar(esc, str)

\* The history of a text that has not begun: the carry.
LEMMA InitScan == Init => ScanInv
<1> SUFFICES ASSUME Init PROVE ScanInv
  OBVIOUS
<1>1. filled = <<>> /\ inside = <<>> /\ lexer = [escape |-> FALSE, string |-> carry = InsideString]
  BY DEF Init
<1>2. carry \in Carries /\ carry.prevEscaped = {} /\ (carry.insideString # {} <=> carry = InsideString)
  <2>1. 0 \in Bits
    BY BlockFacts
  <2> QED
    BY <2>1 DEF Init, Carries, InsideString, OutsideString
<1> DEFINE esc == [n \in Nat |-> FALSE]
           str == [n \in Nat |-> carry = InsideString]
<1>3. esc \in [Nat -> BOOLEAN] /\ str \in [Nat -> BOOLEAN]
  OBVIOUS
<1>4. Len(filled) = 0 /\ esc[0] = FALSE /\ str[0] = (carry = InsideString)
  BY <1>1
<1> HIDE DEF esc, str
<1>5. LexedSoFar(esc, str)
  <2>1. esc[0] <=> carry.prevEscaped # {}
    BY <1>2, <1>4
  <2>2. str[0] <=> carry.insideString # {}
    BY <1>2, <1>4
  <2>3. lexer = [escape |-> esc[Len(filled)], string |-> str[Len(filled)]]
    BY <1>1, <1>4
  <2>4. \A b \in Nat : ~ (b < Len(filled))
    BY <1>4
  <2> QED
    BY <2>1, <2>2, <2>3, <2>4, Zenon DEF LexedSoFar
<1>6. filled \in Seq(Alphabet) /\ inside \in Seq(BOOLEAN) /\ Len(inside) = 0
  BY <1>1
<1> QED
  BY <1>2, <1>3, <1>4, <1>5, <1>6, BlockFacts DEF ScanInv

\* A byte makes the history longer by one.
LEMMA FeedScan ==
  ASSUME ScanInv, NEW byte \in Alphabet, Feed(byte)
  PROVE  ScanInv'
<1> DEFINE len == Len(filled)
<1>1. PICK esc, str \in [Nat -> BOOLEAN] : LexedSoFar(esc, str)
  BY DEF ScanInv
<1>2. /\ filled \in Seq(Alphabet) /\ inside \in Seq(BOOLEAN) /\ Len(inside) = len
      /\ len \in Nat /\ len < BlockBytes
      /\ filled' = Append(filled, byte) /\ inside' = Append(inside, Lexed(byte).string)
      /\ lexer' = Lexed(byte) /\ carry' = carry
  BY DEF ScanInv, Feed
<1>3. /\ Lexed(byte).escape = (byte = "backslash" /\ ~ esc[len])
      /\ Lexed(byte).string = (IF byte = "quote" /\ ~ esc[len] THEN ~ str[len] ELSE str[len])
      /\ Lexed(byte) = [escape |-> Lexed(byte).escape, string |-> Lexed(byte).string]
  BY <1>1 DEF Lexed, LexedSoFar
<1>4. Lexed(byte).escape \in BOOLEAN /\ Lexed(byte).string \in BOOLEAN
  BY <1>1, <1>2, <1>3
<1> HIDE DEF Lexed
<1>5. /\ Len(filled') = len + 1 /\ Len(inside') = len + 1
      /\ filled'[len + 1] = byte /\ inside'[len + 1] = Lexed(byte).string
      /\ \A b \in Nat : b < len => filled'[b + 1] = filled[b + 1] /\ inside'[b + 1] = inside[b + 1]
  BY <1>2, <1>4
<1>6. PICK esc2, str2 \in [Nat -> BOOLEAN] :
        /\ esc2[len + 1] = Lexed(byte).escape /\ str2[len + 1] = Lexed(byte).string
        /\ \A b \in Nat : b <= len => esc2[b] = esc[b] /\ str2[b] = str[b]
  <2> DEFINE e == [esc EXCEPT ![len + 1] = Lexed(byte).escape]
             s == [str EXCEPT ![len + 1] = Lexed(byte).string]
  <2>1. e \in [Nat -> BOOLEAN] /\ s \in [Nat -> BOOLEAN]
    BY <1>2, <1>4
  <2>2. /\ e[len + 1] = Lexed(byte).escape /\ s[len + 1] = Lexed(byte).string
        /\ \A b \in Nat : b <= len => e[b] = esc[b] /\ s[b] = str[b]
    BY <1>2, <1>4
  <2> QED
    BY <2>1, <2>2
<1>7. LexedSoFar(esc2, str2)'
  <2>1. ASSUME NEW b \in Nat, b < len + 1
        PROVE  /\ esc2[b + 1] <=> filled'[b + 1] = "backslash" /\ ~ esc2[b]
               /\ str2[b + 1] <=> ~ (filled'[b + 1] = "quote" /\ ~ esc2[b] <=> str2[b])
               /\ inside'[b + 1] = str2[b + 1]
    <3>1. CASE b < len
      <4>1. b + 1 \in Nat /\ b + 1 <= len /\ b <= len
        BY <1>2, <3>1
      <4>2. /\ esc[b + 1] <=> filled[b + 1] = "backslash" /\ ~ esc[b]
            /\ str[b + 1] <=> ~ (filled[b + 1] = "quote" /\ ~ esc[b] <=> str[b])
            /\ inside[b + 1] = str[b + 1]
        BY <1>1, <3>1 DEF LexedSoFar
      <4> QED
        BY <1>5, <1>6, <3>1, <4>1, <4>2
    <3>2. CASE b = len
      <4>1. esc2[b] = esc[len] /\ str2[b] = str[len]
        BY <1>2, <1>6, <3>2
      <4> QED
        BY <1>1, <1>2, <1>3, <1>4, <1>5, <1>6, <3>2, <4>1
    <3> QED
      BY <1>2, <2>1, <3>1, <3>2
  <2>2. 0 \in Nat /\ 0 <= len
    BY <1>2
  <2>3. esc2[0] = esc[0] /\ str2[0] = str[0]
    BY <1>6, <2>2
  <2>4. lexer' = [escape |-> esc2[len + 1], string |-> str2[len + 1]]
    BY <1>2, <1>3, <1>6
  <2> QED
    BY <1>1, <1>2, <1>5, <2>1, <2>3, <2>4 DEF LexedSoFar
<1>8. filled' \in Seq(Alphabet) /\ inside' \in Seq(BOOLEAN) /\ Len(filled') <= BlockBytes
  BY <1>2, <1>4, <1>5, BlockFacts
<1>9. carry' \in Carries
  BY <1>2 DEF ScanInv
<1> QED
  BY <1>5, <1>6, <1>7, <1>8, <1>9 DEF ScanInv

\* What a scan of the full block finds, against the lexer's history.
LEMMA FullBlock ==
  ASSUME ScanInv, IsFull
  PROVE  /\ ScanBlock(Block, carry).inString = {b \in Bits : inside[b + 1]}
         /\ ScanBlock(Block, carry).carry
              = [prevEscaped  |-> IF lexer.escape THEN {0} ELSE {},
                 insideString |-> IF lexer.string THEN Bits ELSE {}]
         /\ lexer.escape \in BOOLEAN /\ lexer.string \in BOOLEAN
         /\ lexer = [escape |-> lexer.escape, string |-> lexer.string]
<1>1. PICK esc, str \in [Nat -> BOOLEAN] : LexedSoFar(esc, str)
  BY DEF ScanInv
<1>2. Len(filled) = BlockBytes /\ carry \in Carries
  BY DEF ScanInv, IsFull
<1>3. \A b \in Nat : b < BlockBytes => Block[b] = filled[b + 1]
  BY BlockFacts DEF Block
<1>4. LexesBlock(Block, carry, esc, str)
  BY <1>1, <1>2, <1>3 DEF LexedSoFar, LexesBlock
<1>5. /\ ScanBlock(Block, carry).inString = {b \in Bits : str[b + 1]}
      /\ ScanBlock(Block, carry).carry
           = [prevEscaped  |-> IF esc[BlockBytes] THEN {0} ELSE {},
              insideString |-> IF str[BlockBytes] THEN Bits ELSE {}]
  BY <1>2, <1>4, ScanIsLexed
<1>6. lexer = [escape |-> esc[BlockBytes], string |-> str[BlockBytes]]
  BY <1>1, <1>2 DEF LexedSoFar
<1>7. \A b \in Bits : inside[b + 1] = str[b + 1]
  BY <1>1, <1>2, BlockFacts DEF LexedSoFar
<1>8. esc[BlockBytes] \in BOOLEAN /\ str[BlockBytes] \in BOOLEAN
  BY <1>1, BlockFacts
<1> QED
  BY <1>5, <1>6, <1>7, <1>8

\* The history begins anew at what the scan carries on.
LEMMA NextBlockScan ==
  ASSUME ScanInv, NextBlock
  PROVE  ScanInv'
<1>1. /\ filled' = <<>> /\ inside' = <<>> /\ lexer' = lexer
      /\ carry' = [prevEscaped  |-> IF lexer.escape THEN {0} ELSE {},
                   insideString |-> IF lexer.string THEN Bits ELSE {}]
      /\ lexer.escape \in BOOLEAN /\ lexer.string \in BOOLEAN
      /\ lexer = [escape |-> lexer.escape, string |-> lexer.string]
  BY FullBlock DEF NextBlock
<1>2. /\ carry' \in Carries
      /\ carry'.prevEscaped # {} <=> lexer.escape
      /\ carry'.insideString # {} <=> lexer.string
  <2>1. 0 \in Bits
    BY BlockFacts
  <2> QED
    BY <1>1, <2>1 DEF Carries
<1>3. PICK esc, str \in [Nat -> BOOLEAN] : esc[0] = lexer.escape /\ str[0] = lexer.string
  <2> DEFINE e == [n \in Nat |-> lexer.escape]
             s == [n \in Nat |-> lexer.string]
  <2>1. e \in [Nat -> BOOLEAN] /\ s \in [Nat -> BOOLEAN] /\ e[0] = lexer.escape /\ s[0] = lexer.string
    BY <1>1
  <2> QED
    BY <2>1
<1>4. Len(filled') = 0 /\ Len(inside') = 0 /\ filled' \in Seq(Alphabet) /\ inside' \in Seq(BOOLEAN)
  BY <1>1
<1>5. LexedSoFar(esc, str)'
  BY <1>1, <1>2, <1>3, <1>4 DEF LexedSoFar
<1>6. Len(filled') <= BlockBytes /\ Len(inside') = Len(filled')
  BY <1>4, BlockFacts
<1>7. \E e, s \in [Nat -> BOOLEAN] : LexedSoFar(e, s)'
  BY <1>5
<1> QED
  BY <1>2, <1>4, <1>6, <1>7 DEF ScanInv

\* There is such a history in every reachable state.
LEMMA SpecScan == Spec => []ScanInv
<1>1. Init => ScanInv
  BY InitScan
<1>2. ScanInv /\ [Next]_vars => ScanInv'
  <2> SUFFICES ASSUME ScanInv, [Next]_vars PROVE ScanInv'
    OBVIOUS
  <2>1. ASSUME NEW byte \in Alphabet, Feed(byte) PROVE ScanInv'
    BY <2>1, FeedScan
  <2>2. CASE NextBlock
    BY <2>2, NextBlockScan
  <2>3. CASE UNCHANGED vars
    <3>1. UNCHANGED <<filled, inside, carry, lexer>>
      BY <2>3 DEF vars
    <3>2. PICK esc, str \in [Nat -> BOOLEAN] : LexedSoFar(esc, str)
      BY DEF ScanInv
    <3>3. LexedSoFar(esc, str)'
      BY <3>1, <3>2 DEF LexedSoFar
    <3> QED
      BY <3>1, <3>3 DEF ScanInv
  <2> QED
    BY <2>1, <2>2, <2>3 DEF Next
<1> QED
  BY <1>1, <1>2, PTL DEF Spec

\* In blocks of any width, over any text: the mask scan_block computes for a
\* block is what the lexer has, byte by byte (MaskIsLexed).
THEOREM MaskLexed == Spec => []MaskIsLexed
<1>1. ScanInv => MaskIsLexed
  BY FullBlock DEF MaskIsLexed
<1> QED
  BY <1>1, SpecScan, PTL

\* What scan_block hands on to the next block is the lexer's state there
\* (CarryIsLexerState).
THEOREM CarryLexed == Spec => []CarryIsLexerState
<1>1. ScanInv => CarryIsLexerState
  <2> SUFFICES ASSUME ScanInv, filled = <<>>
               PROVE  /\ (carry.prevEscaped # {}) = lexer.escape
                      /\ (carry.insideString # {}) = lexer.string
    BY DEF CarryIsLexerState
  <2>1. PICK esc, str \in [Nat -> BOOLEAN] : LexedSoFar(esc, str)
    BY DEF ScanInv
  <2>2. Len(filled) = 0
    OBVIOUS
  <2> QED
    BY <2>1, <2>2 DEF LexedSoFar
<1> QED
  BY <1>1, SpecScan, PTL

\* Words stay within the block and carries are one of four (TypeOK).
THEOREM ScanTyped == Spec => []TypeOK
<1>1. ScanInv => TypeOK
  <2> SUFFICES ASSUME ScanInv PROVE TypeOK
    OBVIOUS
  <2>1. carry \in Carries
    BY DEF ScanInv
  <2>2. IsFull => ScanBlock(Block, carry).inString \subseteq Bits
    BY FullBlock
  <2> QED
    BY <2>1, <2>2 DEF TypeOK
<1> QED
  BY <1>1, SpecScan, PTL
=============================================================================
