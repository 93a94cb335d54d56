----------------------------- MODULE SocProofs -----------------------------
(***************************************************************************)
(* The SoC keeps the promise of its memory map whatever the processor      *)
(* asks, the two integration programs report PASS, and the bench ends with *)
(* that verdict and before its watchdog, for every WIDTH, size of the RAM  *)
(* and set of accesses.                                                    *)
(***************************************************************************)
EXTENDS TestBench, WordsProofs, SequenceTheorems

-----------------------------------------------------------------------------
(* Words, lane by lane.                                                    *)

\* f adds up the bits, each with its weight, from the lowest on.
AddsUp(f, bit) ==
  /\ f[0] = 0
  /\ \A i \in 0 .. WIDTH - 1 : f[i + 1] = f[i] + bit[i] * Pow2[i]

\* A quotient is recognised by what it leaves.
LEMMA Quotient ==
  ASSUME NEW m \in Nat, m > 0, NEW r \in Nat, r < m, NEW q \in Nat
  PROVE  (q * m + r) \div m = q
OBVIOUS

\* The weights of the lanes.
LEMMA Weights ==
  /\ \A n \in 0 .. WIDTH : Pow2[n] \in Nat /\ Pow2[n] > 0
  /\ \A n \in 0 .. WIDTH - 1 :
       n \in 0 .. WIDTH /\ n + 1 \in 0 .. WIDTH /\ Pow2[n + 1] = 2 * Pow2[n]
<1>1. ASSUME NEW n \in 0 .. WIDTH PROVE Pow2[n] \in Nat /\ Pow2[n] > 0
  <2>1. n \in 0 .. WIDTH + 1
    BY WidthAssumption
  <2>2. QED
    BY <2>1, Pow2Assumption
<1>2. ASSUME NEW n \in 0 .. WIDTH - 1
      PROVE  n \in 0 .. WIDTH /\ n + 1 \in 0 .. WIDTH
  BY WidthAssumption
<1>3. QED
  BY <1>1, <1>2, Pow2Assumption

\* A lower power divides a higher one, with an even quotient.
LEMMA PowersDivide ==
  \A n \in 0 .. WIDTH : \A i \in 0 .. n - 1 :
    \E k \in Nat : Pow2[n] = 2 * k * Pow2[i]
<1> DEFINE G == {n \in 0 .. WIDTH : \A i \in 0 .. n - 1 :
                   \E k \in Nat : Pow2[n] = 2 * k * Pow2[i]}
<1>1. 0 \in G
  BY WidthAssumption
<1>2. ASSUME NEW n \in 0 .. WIDTH - 1, n \in G PROVE n + 1 \in G
  <2>1. n \in 0 .. WIDTH /\ n + 1 \in 0 .. WIDTH
    BY WidthAssumption
  <2>2. Pow2[n + 1] = 2 * Pow2[n] /\ Pow2[n] \in Nat
    BY <2>1, Weights
  <2>3. ASSUME NEW i \in 0 .. n
        PROVE  \E k \in Nat : Pow2[n + 1] = 2 * k * Pow2[i]
    <3>1. CASE i = n
      <4>1. Pow2[n + 1] = 2 * 1 * Pow2[i]
        BY <2>2, <3>1
      <4>2. QED
        BY <4>1
    <3>2. CASE i # n
      <4>1. i \in 0 .. n - 1
        BY <3>2
      <4>2. PICK k \in Nat : Pow2[n] = 2 * k * Pow2[i]
        BY <1>2, <4>1
      <4>3. Pow2[i] \in Nat /\ 2 * k \in Nat
        BY <4>1, Pow2Assumption, WidthAssumption
      <4>4. Pow2[n + 1] = 2 * (2 * k) * Pow2[i]
        BY <2>2, <4>2, <4>3
      <4>5. QED
        BY <4>3, <4>4
    <3>3. QED
      BY <3>1, <3>2
  <2>4. QED
    BY <2>1, <2>3
<1>3. ASSUME NEW N \in 0 .. WIDTH PROVE N \in G
  <2>1. (G \cap (0 .. N)) \in SUBSET (0 .. N) /\ 0 \in G \cap (0 .. N)
    BY <1>1
  <2>3. N \in Nat
    BY WidthAssumption
  <2> HIDE DEF G
  <2>2. ASSUME NEW i \in 0 .. N - 1, i \in G
        PROVE  i + 1 \in G \cap (0 .. N)
    <3>1. i \in 0 .. WIDTH - 1 /\ i + 1 \in 0 .. N
      BY WidthAssumption
    <3>2. QED
      BY <1>2, <2>2, <3>1
  <2>4. N \in G \cap (0 .. N)
    BY <2>1, <2>2, <2>3, FiniteInduction
  <2>5. QED
    BY <2>4
<1>4. QED
  BY <1>3

\* A bit of a sum is not changed by what is added above it.
LEMMA HigherBit ==
  ASSUME NEW h \in Nat, h > 0, NEW s \in Nat, NEW k \in Nat, NEW b \in {0, 1}
  PROVE  ((s + b * (2 * k * h)) \div h) % 2 = (s \div h) % 2
<1>1. s \div h \in Nat /\ s % h \in Nat /\ s % h < h
      /\ s = (s \div h) * h + (s % h)
  OBVIOUS
<1>2. PICK q \in Nat, r \in Nat : q = s \div h /\ s = q * h + r /\ r < h
  BY <1>1
<1>3. CASE b = 0
  BY <1>3
<1>4. CASE b = 1
  <2>1. s + b * (2 * k * h) = (q + 2 * k) * h + r
    BY <1>2, <1>4
  <2>2. q + 2 * k \in Nat
    BY <1>2
  <2>3. ((q + 2 * k) * h + r) \div h = q + 2 * k
    BY <1>2, <2>2
  <2>4. (q + 2 * k) % 2 = q % 2
    OBVIOUS
  <2>5. QED
    BY <1>2, <2>1, <2>3, <2>4
<1>5. QED
  BY <1>3, <1>4

\* There is a sum, of any bits.
LEMMA SumExists ==
  ASSUME NEW bit \in [0 .. WIDTH - 1 -> {0, 1}]
  PROVE  \E f : f = [i \in 0 .. WIDTH |->
                      IF i = 0 THEN 0 ELSE f[i - 1] + bit[i - 1] * Pow2[i - 1]]
<1> DEFINE Sums(f, n) ==
             f = [i \in 0 .. n |->
                    IF i = 0 THEN 0 ELSE f[i - 1] + bit[i - 1] * Pow2[i - 1]]
           G == {n \in 0 .. WIDTH : \E f : Sums(f, n)}
<1>1. 0 \in G
  <2>1. Sums([i \in 0 .. 0 |-> 0], 0)
    OBVIOUS
  <2>2. 0 \in 0 .. WIDTH
    BY WidthAssumption
  <2>3. QED
    BY <2>1, <2>2
<1>2. ASSUME NEW n \in 0 .. WIDTH - 1, n \in G PROVE n + 1 \in G
  <2>1. n \in Nat /\ n + 1 \in 0 .. WIDTH
    BY WidthAssumption
  <2>2. PICK f : Sums(f, n)
    BY <1>2
  <2> DEFINE g == [i \in 0 .. n + 1 |->
                     IF i = n + 1 THEN f[n] + bit[n] * Pow2[n] ELSE f[i]]
  <2>3. ASSUME NEW i \in 0 .. n + 1
        PROVE  g[i] = IF i = 0 THEN 0
                      ELSE g[i - 1] + bit[i - 1] * Pow2[i - 1]
    <3>1. CASE i = 0
      BY <2>1, <2>2, <3>1
    <3>2. CASE i = n + 1
      BY <2>1, <3>2
    <3>3. CASE i \in 1 .. n
      <4>1. /\ i \in 0 .. n /\ i - 1 \in 0 .. n /\ i # 0 /\ i # n + 1
            /\ i - 1 # n + 1 /\ i - 1 \in 0 .. n + 1
        BY <2>1, <3>3
      <4>2. g[i] = f[i] /\ g[i - 1] = f[i - 1]
        BY <4>1
      <4>3. f[i] = f[i - 1] + bit[i - 1] * Pow2[i - 1]
        BY <2>2, <4>1
      <4>4. QED
        BY <4>1, <4>2, <4>3
    <3>4. QED
      BY <2>1, <3>1, <3>2, <3>3
  <2>4. g = [i \in 0 .. n + 1 |-> g[i]]
    OBVIOUS
  <2> HIDE DEF g
  <2>5. Sums(g, n + 1)
    BY <2>3, <2>4
  <2>6. QED
    BY <2>1, <2>5
<1> HIDE DEF G
<1>3. G \in SUBSET (0 .. WIDTH) /\ WIDTH \in Nat
  BY WidthAssumption DEF G
<1>4. WIDTH \in G
  BY <1>1, <1>2, <1>3, FiniteInduction
<1>5. QED
  BY <1>4 DEF G

\* Two sums of the same bits are the same.
LEMMA SumUnique ==
  ASSUME NEW bit, NEW f, NEW g, AddsUp(f, bit), AddsUp(g, bit)
  PROVE  f[WIDTH] = g[WIDTH]
<1> DEFINE G == {n \in 0 .. WIDTH : f[n] = g[n]}
<1>1. 0 \in G
  BY WidthAssumption DEF AddsUp
<1>2. ASSUME NEW n \in 0 .. WIDTH - 1, n \in G PROVE n + 1 \in G
  <2>1. n + 1 \in 0 .. WIDTH
    BY WidthAssumption
  <2>2. QED
    BY <1>2, <2>1 DEF AddsUp
<1> HIDE DEF G
<1>3. G \in SUBSET (0 .. WIDTH) /\ WIDTH \in Nat
  BY WidthAssumption DEF G
<1>4. WIDTH \in G
  BY <1>1, <1>2, <1>3, FiniteInduction
<1>5. QED
  BY <1>4 DEF G

\* The lanes of a sum are the bits that were added up.
LEMMA LanesOfSum ==
  ASSUME NEW bit \in [0 .. WIDTH - 1 -> {0, 1}], NEW f, AddsUp(f, bit)
  PROVE  /\ f[WIDTH] \in Word
         /\ \A i \in 0 .. WIDTH - 1 : Lane(f[WIDTH], i) = bit[i]
<1> DEFINE G == {n \in 0 .. WIDTH :
                   /\ f[n] \in Nat /\ f[n] < Pow2[n]
                   /\ \A i \in 0 .. n - 1 : (f[n] \div Pow2[i]) % 2 = bit[i]}
<1>1. 0 \in G
  <2>1. 0 \in 0 .. WIDTH /\ f[0] = 0 /\ Pow2[0] = 1
    BY WidthAssumption, Pow2Assumption DEF AddsUp
  <2>2. QED
    BY <2>1
<1>2. ASSUME NEW n \in 0 .. WIDTH - 1, n \in G PROVE n + 1 \in G
  <2>1. n \in Nat /\ n \in 0 .. WIDTH /\ n + 1 \in 0 .. WIDTH
    BY WidthAssumption
  <2>2. PICK P \in Nat : P = Pow2[n] /\ P > 0 /\ Pow2[n + 1] = 2 * P
    BY <2>1, Weights
  <2>3. PICK s \in Nat : s = f[n] /\ s < P
    BY <1>2, <2>2
  <2>4. PICK b \in {0, 1} : b = bit[n]
    OBVIOUS
  <2>5. f[n + 1] = s + b * P
    BY <2>2, <2>3, <2>4 DEF AddsUp
  <2>6. f[n + 1] \in Nat /\ f[n + 1] < Pow2[n + 1]
    <3>1. CASE b = 0
      BY <2>2, <2>3, <2>5, <3>1
    <3>2. CASE b = 1
      BY <2>2, <2>3, <2>5, <3>2
    <3>3. QED
      BY <3>1, <3>2
  <2>7. ASSUME NEW i \in 0 .. n
        PROVE  (f[n + 1] \div Pow2[i]) % 2 = bit[i]
    <3>1. CASE i = n
      <4>1. (s + b * P) \div P = b
        <5>1. CASE b = 0
          BY <2>2, <2>3, <5>1
        <5>2. CASE b = 1
          <6>1. \A q \in Nat : (q * P + s) \div P = q
            BY <2>2, <2>3, Quotient, Zenon
          <6>2. (1 * P + s) \div P = 1
            BY <6>1
          <6>3. s + b * P = 1 * P + s
            BY <5>2
          <6>4. QED
            BY <5>2, <6>2, <6>3
        <5>3. QED
          BY <5>1, <5>2
      <4>2. b % 2 = b
        OBVIOUS
      <4>3. QED
        BY <2>2, <2>4, <2>5, <3>1, <4>1, <4>2
    <3>2. CASE i # n
      <4>1. i \in 0 .. n - 1
        BY <2>1, <3>2
      <4>2. PICK k \in Nat : P = 2 * k * Pow2[i]
        BY <2>1, <2>2, <4>1, PowersDivide
      <4>3. PICK h \in Nat : h = Pow2[i] /\ h > 0
        <5>1. i \in 0 .. WIDTH
          BY <2>1, <4>1, WidthAssumption
        <5>2. QED
          BY <5>1, Weights
      <4>4. ((s + b * (2 * k * h)) \div h) % 2 = (s \div h) % 2
        BY <4>3, HigherBit
      <4>5. (s \div h) % 2 = bit[i]
        BY <1>2, <2>3, <4>1, <4>3
      <4>6. QED
        BY <2>5, <4>2, <4>3, <4>4, <4>5
    <3>3. QED
      BY <3>1, <3>2
  <2>8. (n + 1) - 1 = n
    BY <2>1
  <2>9. QED
    BY <2>1, <2>6, <2>7, <2>8
<1> HIDE DEF G
<1>3. G \in SUBSET (0 .. WIDTH) /\ WIDTH \in Nat
  BY WidthAssumption DEF G
<1>4. WIDTH \in G
  BY <1>1, <1>2, <1>3, FiniteInduction
<1>5. QED
  <2>1. /\ f[WIDTH] \in Nat /\ f[WIDTH] < Radix
        /\ \A i \in 0 .. WIDTH - 1 : (f[WIDTH] \div Pow2[i]) % 2 = bit[i]
    BY <1>4 DEF G, Radix
  <2>2. f[WIDTH] \in Word
    BY <2>1, RadixFacts DEF Word
  <2>3. QED
    BY <2>1, <2>2 DEF Lane

\* The lanes of a word add up to it.
LEMMA SumOfLanes ==
  ASSUME NEW w \in Word, NEW bit, NEW f, AddsUp(f, bit),
         \A i \in 0 .. WIDTH - 1 : bit[i] = Lane(w, i)
  PROVE  f[WIDTH] = w
<1> DEFINE G == {n \in 0 .. WIDTH :
                   f[n] \in Nat /\ f[n] + (w \div Pow2[n]) * Pow2[n] = w}
<1>1. 0 \in G
  <2>1. w \in Nat
    BY RadixFacts DEF Word
  <2>2. f[0] = 0 /\ Pow2[0] = 1 /\ (w \div 1) * 1 = w
    BY <2>1, Pow2Assumption DEF AddsUp
  <2>3. QED
    BY <2>1, <2>2, WidthAssumption
<1>2. ASSUME NEW n \in 0 .. WIDTH - 1, n \in G PROVE n + 1 \in G
  <2>1. n \in Nat /\ n \in 0 .. WIDTH /\ n + 1 \in 0 .. WIDTH
    BY WidthAssumption
  <2>2. PICK P \in Nat : P = Pow2[n] /\ P > 0 /\ Pow2[n + 1] = 2 * P
    BY <2>1, Weights
  <2>3. PICK s \in Nat : s = f[n] /\ s + (w \div P) * P = w
    BY <1>2, <2>2
  <2>4. PICK q \in Nat : q = w \div P
    BY <2>2, RadixFacts DEF Word
  <2>5. PICK h \in Nat, b \in {0, 1} : q = 2 * h + b /\ b = q % 2
    <3>1. q \div 2 \in Nat /\ q % 2 \in {0, 1} /\ q = 2 * (q \div 2) + (q % 2)
      OBVIOUS
    <3>2. QED
      BY <3>1
  <2>6. f[n + 1] = s + b * P
    BY <2>2, <2>3, <2>4, <2>5 DEF AddsUp, Lane
  <2>7. w \div (2 * P) = h
    <3>1. PICK t \in Nat : t = w - q * P /\ t < P
      BY <2>2, <2>4, RadixFacts DEF Word
    <3>2. w = h * (2 * P) + (b * P + t) /\ b * P + t \in Nat /\ b * P + t < 2 * P
      <4>1. CASE b = 0
        BY <2>2, <2>5, <3>1, <4>1, RadixFacts DEF Word
      <4>2. CASE b = 1
        BY <2>2, <2>5, <3>1, <4>2, RadixFacts DEF Word
      <4>3. QED
        BY <4>1, <4>2
    <3>3. PICK p \in Nat, u \in Nat : p = 2 * P /\ u = b * P + t /\ u < p
      BY <3>2
    <3>4. (h * p + u) \div p = h
      BY <3>3
    <3>5. QED
      BY <3>2, <3>3, <3>4
  <2>8. s + b * P \in Nat /\ (s + b * P) + h * (2 * P) = w
    <3>1. s + (2 * h + b) * P = w
      BY <2>3, <2>4, <2>5
    <3>2. s + (2 * h + b) * P = (s + b * P) + h * (2 * P) /\ s + b * P \in Nat
      OBVIOUS
    <3>3. QED
      BY <3>1, <3>2
  <2>9. QED
    BY <2>1, <2>2, <2>6, <2>7, <2>8
<1> HIDE DEF G
<1>3. G \in SUBSET (0 .. WIDTH) /\ WIDTH \in Nat
  BY WidthAssumption DEF G
<1>4. WIDTH \in G
  BY <1>1, <1>2, <1>3, FiniteInduction
<1>5. w \div Pow2[WIDTH] = 0
  BY RadixFacts DEF Word, Radix
<1>6. QED
  BY <1>4, <1>5, RadixFacts DEF G, Radix

-----------------------------------------------------------------------------
(* A write to some lanes of a word.                                        *)

\* What it writes: the strobed lanes of the new word, the others of the old.
Merged(old, word, strobes) ==
  [i \in 0 .. WIDTH - 1 |->
     IF i \in strobes THEN Lane(word, i) ELSE Lane(old, i)]

\* A lane is a bit.
LEMMA LaneBit ==
  ASSUME NEW w \in Word, NEW i \in 0 .. WIDTH - 1
  PROVE  Lane(w, i) \in {0, 1}
<1>1. w \in Nat /\ Pow2[i] \in Nat /\ Pow2[i] > 0
  BY RadixFacts, Weights DEF Word
<1>2. PICK q \in Nat : q = w \div Pow2[i]
  BY <1>1
<1>3. q % 2 \in {0, 1}
  OBVIOUS
<1>4. QED
  BY <1>2, <1>3 DEF Lane

\* Merge adds up the lanes it writes.
LEMMA MergeAddsUp ==
  ASSUME NEW old \in Word, NEW word \in Word, NEW strobes
  PROVE  /\ Merged(old, word, strobes) \in [0 .. WIDTH - 1 -> {0, 1}]
         /\ \E f : /\ AddsUp(f, Merged(old, word, strobes))
                   /\ Merge(old, word, strobes) = f[WIDTH]
<1> DEFINE Bit(i) == IF i \in strobes THEN Lane(word, i) ELSE Lane(old, i)
           Sum == CHOOSE f : f = [i \in 0 .. WIDTH |->
                    IF i = 0 THEN 0 ELSE f[i - 1] + Bit(i - 1) * Pow2[i - 1]]
           bit == Merged(old, word, strobes)
<1>1. bit \in [0 .. WIDTH - 1 -> {0, 1}]
  BY LaneBit DEF Merged
<1>2. Merge(old, word, strobes) = Sum[WIDTH]
  BY DEF Merge
<1>3. ASSUME NEW i \in 0 .. WIDTH, i # 0
      PROVE  bit[i - 1] = Bit(i - 1)
  <2>1. i - 1 \in 0 .. WIDTH - 1
    BY <1>3, WidthAssumption
  <2>2. QED
    BY <2>1 DEF Merged
<1> HIDE DEF bit, Bit
<1>4. ASSUME NEW f
      PROVE  [i \in 0 .. WIDTH |->
                IF i = 0 THEN 0 ELSE f[i - 1] + Bit(i - 1) * Pow2[i - 1]]
             = [i \in 0 .. WIDTH |->
                IF i = 0 THEN 0 ELSE f[i - 1] + bit[i - 1] * Pow2[i - 1]]
  BY <1>3
<1>5. \E f : f = [i \in 0 .. WIDTH |->
                    IF i = 0 THEN 0 ELSE f[i - 1] + Bit(i - 1) * Pow2[i - 1]]
  <2>1. PICK f : f = [i \in 0 .. WIDTH |->
                        IF i = 0 THEN 0 ELSE f[i - 1] + bit[i - 1] * Pow2[i - 1]]
    BY <1>1, SumExists
  <2>2. f = [i \in 0 .. WIDTH |->
               IF i = 0 THEN 0 ELSE f[i - 1] + Bit(i - 1) * Pow2[i - 1]]
    BY <1>4, <2>1
  <2>3. QED
    BY <2>2
<1>6. Sum = [i \in 0 .. WIDTH |->
               IF i = 0 THEN 0 ELSE Sum[i - 1] + Bit(i - 1) * Pow2[i - 1]]
  BY <1>5
<1> HIDE DEF Sum
<1>7. Sum = [i \in 0 .. WIDTH |->
               IF i = 0 THEN 0 ELSE Sum[i - 1] + bit[i - 1] * Pow2[i - 1]]
  BY <1>4, <1>6
<1>8. AddsUp(Sum, bit)
  <2>1. Sum[0] = 0
    BY <1>7, WidthAssumption
  <2>2. ASSUME NEW i \in 0 .. WIDTH - 1
        PROVE  Sum[i + 1] = Sum[i] + bit[i] * Pow2[i]
    <3>1. i + 1 \in 0 .. WIDTH /\ i + 1 # 0 /\ (i + 1) - 1 = i
      BY WidthAssumption
    <3>2. QED
      BY <1>7, <3>1
  <2>3. QED
    BY <2>1, <2>2 DEF AddsUp
<1>9. QED
  BY <1>1, <1>2, <1>8 DEF bit

\* The word written is a word, with the lanes that were asked for.
LEMMA MergeLanes ==
  ASSUME NEW old \in Word, NEW word \in Word, NEW strobes
  PROVE  /\ Merge(old, word, strobes) \in Word
         /\ \A i \in 0 .. WIDTH - 1 :
              Lane(Merge(old, word, strobes), i) =
                IF i \in strobes THEN Lane(word, i) ELSE Lane(old, i)
<1>1. PICK f : /\ AddsUp(f, Merged(old, word, strobes))
               /\ Merge(old, word, strobes) = f[WIDTH]
  BY MergeAddsUp
<1>2. /\ f[WIDTH] \in Word
      /\ \A i \in 0 .. WIDTH - 1 :
           Lane(f[WIDTH], i) = Merged(old, word, strobes)[i]
  BY <1>1, MergeAddsUp, LanesOfSum
<1>3. QED
  BY <1>1, <1>2 DEF Merged

\* Writing the same twice writes it once: what lets the RAM repeat a write
\* in the clock in which it is answered.
LEMMA MergeTwice ==
  ASSUME NEW old \in Word, NEW word \in Word, NEW strobes
  PROVE  Merge(Merge(old, word, strobes), word, strobes)
           = Merge(old, word, strobes)
<1> DEFINE new == Merge(old, word, strobes)
<1>1. new \in Word
  BY MergeLanes
<1>2. Merged(new, word, strobes) = Merged(old, word, strobes)
  BY MergeLanes DEF Merged
<1>3. PICK f : /\ AddsUp(f, Merged(old, word, strobes))
               /\ new = f[WIDTH]
  BY MergeAddsUp
<1> HIDE DEF new
<1>4. PICK g : /\ AddsUp(g, Merged(new, word, strobes))
               /\ Merge(new, word, strobes) = g[WIDTH]
  BY <1>1, MergeAddsUp
<1>5. QED
  BY <1>2, <1>3, <1>4, SumUnique DEF new

\* A write of no lane writes nothing.
LEMMA MergeNothing ==
  ASSUME NEW old \in Word, NEW word \in Word
  PROVE  Merge(old, word, {}) = old
<1>1. PICK f : /\ AddsUp(f, Merged(old, word, {}))
               /\ Merge(old, word, {}) = f[WIDTH]
  BY MergeAddsUp
<1>2. \A i \in 0 .. WIDTH - 1 : Merged(old, word, {})[i] = Lane(old, i)
  BY DEF Merged
<1>3. QED
  BY <1>1, <1>2, SumOfLanes

-----------------------------------------------------------------------------
(* The accelerator on the bus.                                             *)

\* The lemmas about the accelerator, for any words at its port and for the
\* one operation of the programs.
ACC == INSTANCE AccelProofs WITH
  Operands <- Word, Moduli <- Word, job <- [x |-> Operand, m |-> Modulus]

\* The peripheral of the SoC is the one the lemmas are about.
LEMMA SamePeripheral ==
  /\ ACC!TypeOK <=> TypeOK
  /\ ACC!TypeOK' <=> TypeOK'
  /\ ACC!Init <=> Init
  /\ ACC!HardReset <=> HardReset
BY DEF TypeOK, u_redmod!TypeOK, u_redmod!Word, u_redmod!Radix,
       u_mulmod!TypeOK, u_mulmod!Word, u_mulmod!Radix, u_mulmod!WideWord,
       u_mulmod!WideRadix, Word, Radix,
       ACC!TypeOK, ACC!u_redmod!TypeOK, ACC!u_redmod!Word,
       ACC!u_redmod!Radix, ACC!u_mulmod!TypeOK, ACC!u_mulmod!Word,
       ACC!u_mulmod!Radix, ACC!u_mulmod!WideWord, ACC!u_mulmod!WideRadix,
       ACC!Word, ACC!Radix,
       Init, u_redmod!Init, u_mulmod!Init,
       ACC!Init, ACC!u_redmod!Init, ACC!u_mulmod!Init,
       HardReset, u_redmod!Reset, u_mulmod!Reset,
       ACC!HardReset, ACC!u_redmod!Reset, ACC!u_mulmod!Reset

\* Its datapaths take the same clocks.
LEMMA SameRedmod ==
  ASSUME NEW s, NEW x, NEW m
  PROVE  ACC!u_redmod!Clock(s, x, m) <=> u_redmod!Clock(s, x, m)
BY DEF u_redmod!Clock, u_redmod!Rest, u_redmod!Latch, u_redmod!Iterate,
       u_redmod!Finish, u_redmod!LastBit, u_redmod!next_r, u_redmod!Msb,
       u_redmod!CondSub, u_redmod!ShiftLeft, u_redmod!Radix,
       ACC!u_redmod!Clock, ACC!u_redmod!Rest, ACC!u_redmod!Latch,
       ACC!u_redmod!Iterate, ACC!u_redmod!Finish, ACC!u_redmod!LastBit,
       ACC!u_redmod!next_r, ACC!u_redmod!Msb, ACC!u_redmod!CondSub,
       ACC!u_redmod!ShiftLeft, ACC!u_redmod!Radix

\* The multiplier too.
LEMMA SameMulmod ==
  ASSUME NEW s, NEW a, NEW b, NEW m
  PROVE  ACC!u_mulmod!Clock(s, a, b, m) <=> u_mulmod!Clock(s, a, b, m)
BY DEF u_mulmod!Clock, u_mulmod!Rest, u_mulmod!Latch, u_mulmod!Iterate,
       u_mulmod!Finish, u_mulmod!LastBit, u_mulmod!Step, u_mulmod!Added,
       u_mulmod!Doubled, u_mulmod!Msb, u_mulmod!CondSub,
       u_mulmod!ShiftLeft, u_mulmod!Radix, u_mulmod!WideRadix,
       ACC!u_mulmod!Clock, ACC!u_mulmod!Rest, ACC!u_mulmod!Latch,
       ACC!u_mulmod!Iterate, ACC!u_mulmod!Finish, ACC!u_mulmod!LastBit,
       ACC!u_mulmod!Step, ACC!u_mulmod!Added, ACC!u_mulmod!Doubled,
       ACC!u_mulmod!Msb, ACC!u_mulmod!CondSub, ACC!u_mulmod!ShiftLeft,
       ACC!u_mulmod!Radix, ACC!u_mulmod!WideRadix

\* And so does the peripheral as a whole.
LEMMA SameClock ==
  ASSUME NEW w
  PROVE  ACC!Clock(w) <=> Clock(w)
<1>1. ACC!Command(w) <=> Command(w)
  BY DEF Command, ResetCommand, StartCommand, LoadOpCommand, LoadModCommand,
         WriteOperand, WriteModulus, NoCommand, IsReset, IsStart, IsLoadOp,
         IsLoadMod, IsOperand, IsModulus, Ctrl,
         ACC!Command, ACC!ResetCommand, ACC!StartCommand,
         ACC!LoadOpCommand, ACC!LoadModCommand, ACC!WriteOperand,
         ACC!WriteModulus, ACC!NoCommand, ACC!IsReset, ACC!IsStart,
         ACC!IsLoadOp, ACC!IsLoadMod, ACC!IsOperand, ACC!IsModulus, ACC!Ctrl
<1>2. ACC!Pipeline(w) <=> Pipeline(w)
  BY DEF Pipeline, PassReduced, PublishProduct, ClearPipeline, RefuseStart,
         AcceptStart, HoldPipeline, Reduced, Multiplied, IsReset, IsStart,
         Ctrl,
         ACC!Pipeline, ACC!PassReduced, ACC!PublishProduct,
         ACC!ClearPipeline, ACC!RefuseStart, ACC!AcceptStart,
         ACC!HoldPipeline, ACC!Reduced, ACC!Multiplied, ACC!IsReset,
         ACC!IsStart, ACC!Ctrl
<1>3. QED
  BY <1>1, <1>2, SameRedmod, SameMulmod DEF Clock, ACC!Clock

\* What the wrapper passes on is a write of the peripheral's port.
LEMMA PortWrites ==
  ASSUME NEW off, NEW word \in Word
  PROVE  PortWrite(off, word) \in ACC!Writes /\ NoWrite \in ACC!Writes
<1>1. NoWrite \in ACC!Writes
  BY DEF NoWrite, ACC!Writes, ACC!NoWrite
<1>2. {CtrlBit[i] : i \in {j \in 0 .. 3 : Lane(word, j) = 1}}
        \in SUBSET CtrlBits
  <2>1. \A i \in 0 .. 3 : CtrlBit[i] \in CtrlBits
    BY DEF CtrlBit, CtrlBits
  <2>2. QED
    BY <2>1
<1>3. CtrlWrite({CtrlBit[i] : i \in {j \in 0 .. 3 : Lane(word, j) = 1}})
        \in ACC!Writes
  BY <1>2 DEF CtrlWrite, CtrlBits, ACC!Writes, ACC!CtrlWrite, ACC!CtrlBits
<1>4. OperandWrite(word) \in ACC!Writes /\ ModulusWrite(word) \in ACC!Writes
  BY DEF OperandWrite, ModulusWrite, ACC!Writes, ACC!OperandWrite,
         ACC!ModulusWrite
<1>5. QED
  BY <1>1, <1>3, <1>4 DEF PortWrite

\* What no traffic on the bus breaks in the peripheral.
Peripheral == TypeOK /\ ACC!Race /\ ACC!StatusCoherent

\* A clock, with whatever the wrapper passes on.
LEMMA PeripheralClock ==
  ASSUME Peripheral, NEW w \in ACC!Writes, Clock(w)
  PROVE  Peripheral'
<1>1. ACC!Clock(w) /\ ACC!TypeOK
  BY SameClock, SamePeripheral DEF Peripheral
<1>2. Word \subseteq ACC!Word /\ Word \subseteq ACC!Word
  BY DEF Word, Radix, ACC!Word, ACC!Radix
<1>3. ACC!Race'
  BY <1>1, <1>2, ACC!RaceStep, WidthAssumption, Pow2Assumption
     DEF Peripheral
<1>4. ACC!StatusCoherent'
  BY <1>1, <1>2, ACC!StatusStep, WidthAssumption, Pow2Assumption
     DEF Peripheral
<1>5. ACC!TypeOK'
  BY <1>1, <1>2, ACC!TypeNext, WidthAssumption, Pow2Assumption
     DEF Peripheral, ACC!Next, ACC!HostClock
<1>6. QED
  BY <1>3, <1>4, <1>5, SamePeripheral DEF Peripheral

\* resetn.
LEMMA PeripheralReset ==
  ASSUME Peripheral, HardReset
  PROVE  Peripheral'
<1>1. ACC!HardReset /\ ACC!TypeOK
  BY SamePeripheral DEF Peripheral
<1>2. Word \subseteq ACC!Word /\ Word \subseteq ACC!Word
  BY DEF Word, Radix, ACC!Word, ACC!Radix
<1>3. ACC!Race'
  BY <1>1, <1>2, ACC!RaceNext, WidthAssumption, Pow2Assumption
     DEF Peripheral, ACC!Next
<1>4. ACC!StatusCoherent'
  BY DEF HardReset, ACC!StatusCoherent
<1>5. ACC!TypeOK'
  BY <1>1, <1>2, ACC!TypeNext, WidthAssumption, Pow2Assumption
     DEF Peripheral, ACC!Next
<1>6. QED
  BY <1>3, <1>4, <1>5, SamePeripheral DEF Peripheral

\* Power-up.
LEMMA PeripheralInit == Init => Peripheral
<1> SUFFICES ASSUME Init PROVE Peripheral
  OBVIOUS
<1>1. ACC!Init
  BY SamePeripheral
<1>2. Word \subseteq ACC!Word /\ Word \subseteq ACC!Word
  BY DEF Word, Radix, ACC!Word, ACC!Radix
<1>3. ACC!Race
  BY <1>1, <1>2, ACC!RaceInit, WidthAssumption, Pow2Assumption
<1>4. ACC!StatusCoherent
  BY DEF Init, ACC!StatusCoherent
<1>5. ACC!TypeOK
  BY <1>1, <1>2, ACC!TypeInit, WidthAssumption, Pow2Assumption
<1>6. QED
  BY <1>3, <1>4, <1>5, SamePeripheral DEF Peripheral

-----------------------------------------------------------------------------
(* The bus, whatever the processor asks for.                               *)

\* A device is ready for the access in flight, or not at all.
Handshake ==
  /\ ram_ready_r => mem_valid /\ sel_ram
  /\ simio_ready_r => mem_valid /\ sel_simio
  /\ bus_ready => mem_valid /\ sel_accel

\* Once the RAM is ready it has taken the write, so that the second one
\* changes nothing, and its read port shows the word that was asked for.
RamServed ==
  LET i == ram_word_addr(mem_req)
  IN  ram_ready_r =>
        /\ Merge(ram[i], mem_req.wdata, mem_req.wstrb) = ram[i]
        /\ ~Writes(mem_req) => ram_rdata = ram[i]

SocInv == SocTypeOK /\ Peripheral /\ Handshake /\ RamServed

\* Four lanes at least: the words of the programs fit, and HALT is none of
\* their lines.
LEMMA SixteenWords == Radix >= 16 /\ Radix \in Nat
<1>1. 4 \in 0 .. WIDTH
  BY WidthAssumption, LanesAssumption
<1>2. Pow2[1] = 2 /\ Pow2[2] = 4 /\ Pow2[3] = 8 /\ Pow2[4] = 16
  <2>1. /\ 0 \in 0 .. WIDTH - 1 /\ 1 \in 0 .. WIDTH - 1
        /\ 2 \in 0 .. WIDTH - 1 /\ 3 \in 0 .. WIDTH - 1
    BY WidthAssumption, LanesAssumption
  <2>2. /\ Pow2[0 + 1] = 2 * Pow2[0] /\ Pow2[1 + 1] = 2 * Pow2[1]
        /\ Pow2[2 + 1] = 2 * Pow2[2] /\ Pow2[3 + 1] = 2 * Pow2[3]
    BY <2>1, Weights
  <2>3. QED
    BY <2>2, Pow2Assumption
<1>3. CASE WIDTH = 4
  BY <1>2, <1>3 DEF Radix
<1>4. CASE WIDTH # 4
  <2>1. WIDTH \in 0 .. WIDTH /\ 4 \in 0 .. WIDTH - 1
    BY <1>4, WidthAssumption, LanesAssumption
  <2>2. PICK k \in Nat : Pow2[WIDTH] = 2 * k * Pow2[4]
    BY <2>1, PowersDivide
  <2>3. Radix = 32 * k /\ Radix > 0
    BY <1>2, <2>2, RadixFacts DEF Radix
  <2>4. QED
    BY <2>3
<1>5. QED
  BY <1>3, <1>4, RadixFacts

\* The fields of the access in flight.
LEMMA RequestTypes ==
  ASSUME SocTypeOK
  PROVE  /\ mem_req.sel \in 0 .. 15 /\ mem_req.off \in Nat
         /\ mem_req.wdata \in Word
         /\ ram_word_addr(mem_req) \in 0 .. RamWords - 1
<1>1. /\ mem_req.sel \in 0 .. 15 /\ mem_req.off \in Nat
      /\ mem_req.wdata \in Word
  <2>1. CASE mem_req \in Requests
    BY <2>1, SocAssumption
  <2>2. CASE mem_req = NoRequest
    BY <2>2, SixteenWords DEF NoRequest, Word
  <2>3. QED
    BY <2>1, <2>2 DEF SocTypeOK
<1>2. PICK n \in Nat : n = RamWords /\ n > 0
  BY SocAssumption
<1>3. PICK x \in Nat : x = mem_req.off
  BY <1>1
<1>4. x % n \in 0 .. n - 1
  BY <1>2, ModFacts
<1>5. QED
  BY <1>1, <1>2, <1>3, <1>4 DEF ram_word_addr

\* What is read is a word.
LEMMA ReadsWord ==
  ASSUME SocTypeOK
  PROVE  mem_rdata \in Word
<1>1. StatusWord \in Word
  BY SixteenWords DEF SocTypeOK, TypeOK, StatusWord, Status, Word
<1>2. \A off : rdata(off) \in Word
  BY <1>1, SixteenWords DEF rdata, SocTypeOK, TypeOK, ResultWord, Word
<1>3. QED
  BY <1>2, SixteenWords DEF mem_rdata, SocTypeOK, Word

\* The RAM, in a clock with an access to it and in one without.
LEMMA RamStep ==
  ASSUME SocTypeOK, RamData
  PROVE  LET i == ram_word_addr(mem_req)
         IN  /\ ram' \in [0 .. RamWords - 1 -> Word]
             /\ ram_rdata' \in Word /\ ram_rdata' = ram[i]
             /\ mem_valid /\ sel_ram =>
                  ram'[i] = Merge(ram[i], mem_req.wdata, mem_req.wstrb)
             /\ ~(mem_valid /\ sel_ram) => ram' = ram
<1> DEFINE i == ram_word_addr(mem_req)
           new == Merge(ram[i], mem_req.wdata, mem_req.wstrb)
<1>1. i \in 0 .. RamWords - 1 /\ mem_req.wdata \in Word
  BY RequestTypes
<1>2. ram \in [0 .. RamWords - 1 -> Word] /\ ram[i] \in Word
  BY <1>1 DEF SocTypeOK
<1>3. new \in Word
  BY <1>1, <1>2, MergeLanes
<1>4. /\ ram' = IF mem_valid /\ sel_ram THEN [ram EXCEPT ![i] = new] ELSE ram
      /\ ram_rdata' = ram[i]
  BY DEF RamData
<1> HIDE DEF new, i
<1>5. QED
  BY <1>1, <1>2, <1>3, <1>4 DEF new, i

\* Any clock of the bus.
LEMMA DevicesStep ==
  ASSUME SocInv, Devices
  PROVE  /\ Peripheral'
         /\ ram' \in [0 .. RamWords - 1 -> Word] /\ ram_rdata' \in Word
         /\ simio_halt' \in BOOLEAN
         /\ ram_ready_r' = (mem_valid /\ sel_ram /\ ~ram_ready_r)
         /\ simio_ready_r' = (mem_valid /\ sel_simio /\ ~simio_ready_r)
         /\ bus_ready' = (mem_valid /\ sel_accel /\ ~bus_ready)
<1>1. /\ ram' \in [0 .. RamWords - 1 -> Word] /\ ram_rdata' \in Word
  BY RamStep DEF SocInv, Devices
<1>2. Peripheral'
  <2> DEFINE w == IF accel_wen(ToWrap)
                  THEN PortWrite(ToWrap.off, ToWrap.wdata) ELSE NoWrite
  <2>1. Clock(w)
    BY DEF Devices, Accelerator, WrapClock
  <2>2. w \in ACC!Writes
    BY RequestTypes, PortWrites DEF SocInv, ToWrap
  <2> HIDE DEF w
  <2>3. QED
    BY <2>1, <2>2, PeripheralClock DEF SocInv
<1>3. simio_halt' \in BOOLEAN
  BY DEF SocInv, SocTypeOK, Devices, SimioData
<1>4. QED
  BY <1>1, <1>2, <1>3
     DEF Devices, ReadyPulses, Accelerator, WrapClock, ToWrap

\* A clock of the processor's port and of the devices.
LEMMA SocClockStep ==
  ASSUME SocInv, SocClock
  PROVE  SocInv'
<1>1. Devices /\ CpuPort(Requests)
  BY DEF SocClock
<1>2. /\ Peripheral'
      /\ ram' \in [0 .. RamWords - 1 -> Word] /\ ram_rdata' \in Word
      /\ simio_halt' \in BOOLEAN
      /\ ram_ready_r' = (mem_valid /\ sel_ram /\ ~ram_ready_r)
      /\ simio_ready_r' = (mem_valid /\ sel_simio /\ ~simio_ready_r)
      /\ bus_ready' = (mem_valid /\ sel_accel /\ ~bus_ready)
  BY <1>1, DevicesStep
<1>3. mem_valid \in BOOLEAN
  BY DEF SocInv, SocTypeOK
<1>4. /\ mem_valid' \in BOOLEAN /\ mem_req' \in Requests \cup {NoRequest}
      /\ mem_rdata_q' \in Word
  BY <1>1, ReadsWord DEF SocInv, SocTypeOK, CpuPort, Ask, Quiet, Wait, Take,
     cpuVars
<1>5. SocTypeOK'
  BY <1>2, <1>3, <1>4 DEF SocTypeOK, Peripheral
<1>6. CASE ~mem_valid
  <2>1. ~ram_ready_r' /\ ~simio_ready_r' /\ ~bus_ready'
    BY <1>2, <1>6
  <2>2. QED
    BY <1>2, <1>5, <2>1 DEF SocInv, Handshake, RamServed
<1>7. CASE mem_valid
  <2>1. mem_req' = mem_req
    BY <1>1, <1>7 DEF CpuPort, Ask, Quiet, Wait, Take, cpuVars
  <2>2. CASE mem_ready
    <3>1. ~ram_ready_r' /\ ~simio_ready_r' /\ ~bus_ready'
      <4>1. /\ sel_ram => ~sel_simio /\ ~sel_accel
            /\ sel_simio => ~sel_accel
        BY DEF sel_ram, sel_simio, sel_accel
      <4>2. /\ sel_ram => ram_ready_r
            /\ sel_simio => simio_ready_r
            /\ sel_accel => bus_ready
        BY <2>2, <4>1 DEF mem_ready
      <4>3. QED
        BY <1>2, <4>1, <4>2, Zenon
    <3>2. QED
      BY <1>2, <1>5, <3>1 DEF SocInv, Handshake, RamServed
  <2>3. CASE ~mem_ready
    <3>1. mem_valid' = mem_valid
      BY <1>1, <1>7, <2>3 DEF CpuPort, Ask, Quiet, Wait, Take, cpuVars
    <3>2. Handshake'
      BY <1>2, <2>1, <3>1 DEF Handshake, sel_ram, sel_simio, sel_accel
    <3>3. RamServed'
      <4> DEFINE i == ram_word_addr(mem_req)
      <4>1. ram_word_addr(mem_req)' = i
        BY <2>1 DEF ram_word_addr
      <4>2. ASSUME ram_ready_r'
            PROVE  /\ ram'[i] = Merge(ram[i], mem_req.wdata, mem_req.wstrb)
                   /\ ram_rdata' = ram[i]
                   /\ ram[i] \in Word /\ mem_req.wdata \in Word
        <5>1. mem_valid /\ sel_ram
          BY <1>2, <4>2
        <5>2. i \in 0 .. RamWords - 1 /\ mem_req.wdata \in Word
          BY RequestTypes DEF SocInv
        <5>3. ram[i] \in Word
          BY <5>2 DEF SocInv, SocTypeOK
        <5>4. QED
          BY <1>1, <5>1, <5>2, <5>3, RamStep DEF Devices, SocInv
      <4> HIDE DEF i
      <4>3. ASSUME ram_ready_r'
            PROVE  /\ Merge(ram'[i], mem_req.wdata, mem_req.wstrb) = ram'[i]
                   /\ ~Writes(mem_req) => ram_rdata' = ram'[i]
        <5>1. Merge(ram'[i], mem_req.wdata, mem_req.wstrb) = ram'[i]
          BY <4>2, <4>3, MergeTwice
        <5>2. ASSUME ~Writes(mem_req) PROVE ram'[i] = ram[i]
          BY <4>2, <4>3, <5>2, MergeNothing DEF Writes
        <5>3. QED
          BY <4>2, <4>3, <5>1, <5>2
      <4>4. QED
        BY <2>1, <4>1, <4>3 DEF RamServed, Writes
    <3>4. QED
      BY <1>2, <1>5, <3>2, <3>3 DEF SocInv
  <2>4. QED
    BY <2>2, <2>3
<1>8. QED
  BY <1>3, <1>6, <1>7

\* resetn low at a clock edge.
LEMMA SocResetStep ==
  ASSUME SocInv, SocReset
  PROVE  SocInv'
<1>1. Peripheral'
  BY PeripheralReset DEF SocInv, SocReset, WrapReset
<1>2. ram' \in [0 .. RamWords - 1 -> Word] /\ ram_rdata' \in Word
  BY RamStep DEF SocInv, SocReset
<1>3. mem_rdata_q' \in Word
  <2>1. mem_rdata \in Word /\ 0 \in Word /\ mem_rdata_q \in Word
    BY ReadsWord, SixteenWords DEF SocInv, SocTypeOK, Word
  <2>2. QED
    BY <2>1 DEF SocReset
<1>4. SocTypeOK'
  BY <1>1, <1>2, <1>3
     DEF SocInv, SocTypeOK, Peripheral, SocReset, WrapReset, SimioData
<1>5. QED
  BY <1>1, <1>4
     DEF SocInv, SocReset, WrapReset, Handshake, RamServed

\* Nothing is asked for and nothing is ready at power-up.
LEMMA SocInvInit == SocInit => SocInv
<1> SUFFICES ASSUME SocInit PROVE SocInv
  OBVIOUS
<1>1. Peripheral
  BY PeripheralInit DEF SocInit, WrapInit
<1>2. 0 \in Word
  BY SixteenWords DEF Word
<1>3. SocTypeOK
  BY <1>1, <1>2 DEF SocInit, WrapInit, SocTypeOK, Peripheral
<1>4. QED
  BY <1>1, <1>3 DEF SocInit, WrapInit, SocInv, Handshake, RamServed

\* Every clock and every reset of the SoC.
LEMMA SocInvStep == SocInv /\ [SocNext]_socVars => SocInv'
<1>1. ASSUME SocInv, UNCHANGED socVars PROVE SocInv'
  BY <1>1
     DEF SocInv, SocTypeOK, Peripheral, TypeOK, u_redmod!TypeOK,
         u_mulmod!TypeOK, ACC!Race, ACC!StatusCoherent, ACC!MulStartKept,
         ACC!MulLeft, Handshake, RamServed, ram_word_addr, sel_ram,
         sel_simio, sel_accel, socVars, accelVars, commandVars,
         pipelineVars, rdVars, mlVars, cpuVars, busVars
<1>2. QED
  BY <1>1, SocClockStep, SocResetStep DEF SocNext

\* So at most one device is ready, and only for the access that is held.
LEMMA SocInvAlways == SocSpec => []SocInv
BY SocInvInit, SocInvStep, PTL DEF SocSpec

\* Every register of the SoC and of the processor's port keeps its width,
\* whatever the processor asks for and whenever resetn falls.
THEOREM SocTypeCorrect == SocSpec => []SocTypeOK
<1>1. SocInv => SocTypeOK
  BY DEF SocInv
<1>2. QED
  BY <1>1, SocInvAlways, PTL

-----------------------------------------------------------------------------
(* The promise of the memory map.                                          *)

\* The RAM and the console take an access in the clock before they are
\* ready, whether or not resetn is low then, and nothing at any other time.
LEMMA Unreset ==
  ASSUME SocInv, RamData, SimioData
  PROVE  /\ ~mem_valid \/ mem_ready \/ mem_req.sel \notin {0, 1} =>
              UNCHANGED <<ram, console, simio_halt>>
         /\ mem_valid /\ ~mem_ready /\ mem_req.sel = 0 =>
              /\ ram' = [ram EXCEPT ![ram_word_addr(mem_req)] =
                            Merge(@, mem_req.wdata, mem_req.wstrb)]
              /\ UNCHANGED <<console, simio_halt>>
         /\ mem_valid /\ ~mem_ready /\ mem_req.sel = 1 =>
              /\ IF ~Writes(mem_req) THEN UNCHANGED <<console, simio_halt>>
                 ELSE IF mem_req.wdata = HALT
                 THEN simio_halt' = TRUE /\ UNCHANGED console
                 ELSE /\ console' = Append(console, mem_req.wdata)
                      /\ UNCHANGED simio_halt
              /\ UNCHANGED ram
<1>1. simio_halt \in BOOLEAN
  BY DEF SocInv, SocTypeOK
<1>2. CASE ~mem_valid \/ mem_req.sel \notin {0, 1}
  BY <1>1, <1>2 DEF RamData, SimioData, Prints, sel_ram, sel_simio
<1>3. CASE mem_valid /\ mem_req.sel = 0
  <2>1. UNCHANGED <<console, simio_halt>>
    BY <1>1, <1>3 DEF SimioData, Prints, sel_simio
  <2>2. ram' = [ram EXCEPT ![ram_word_addr(mem_req)] =
                  Merge(@, mem_req.wdata, mem_req.wstrb)]
    BY <1>3 DEF RamData, sel_ram
  <2>3. ASSUME mem_ready PROVE UNCHANGED ram
    <3> DEFINE i == ram_word_addr(mem_req)
    <3>1. ram_ready_r
      BY <1>3, <2>3 DEF mem_ready, sel_ram, sel_simio, sel_accel
    <3>2. Merge(ram[i], mem_req.wdata, mem_req.wstrb) = ram[i]
      BY <3>1 DEF SocInv, RamServed
    <3>3. ram \in [0 .. RamWords - 1 -> Word]
      BY DEF SocInv, SocTypeOK
    <3> HIDE DEF i
    <3>4. [ram EXCEPT ![i] = ram[i]] = ram
      BY <3>3
    <3>5. QED
      BY <2>2, <3>2, <3>4 DEF i
  <2>4. QED
    BY <1>3, <2>1, <2>2, <2>3
<1>4. CASE mem_valid /\ mem_req.sel = 1
  <2>1. UNCHANGED ram
    BY <1>4 DEF RamData, sel_ram
  <2>2. mem_ready <=> simio_ready_r
    BY <1>4 DEF mem_ready, sel_ram, sel_simio, sel_accel
  <2>3. Prints <=> (Writes(mem_req) /\ ~mem_ready)
    BY <1>4, <2>2 DEF Prints, sel_simio
  <2>4. /\ Prints /\ mem_req.wdata = HALT =>
             simio_halt' = TRUE /\ UNCHANGED console
        /\ Prints /\ mem_req.wdata # HALT =>
             /\ console' = Append(console, mem_req.wdata)
             /\ UNCHANGED simio_halt
        /\ ~Prints => UNCHANGED <<console, simio_halt>>
    BY <1>1 DEF SimioData
  <2>5. QED
    BY <1>4, <2>1, <2>3, <2>4
<1>5. QED
  BY <1>2, <1>3, <1>4

\* So does the accelerator.
LEMMA PortStep ==
  ASSUME SocInv, Accelerator
  PROVE  port' = IF mem_valid /\ ~mem_ready /\ mem_req.sel = 2
                    /\ Writes(mem_req)
                 THEN Append(port, <<mem_req.off, mem_req.wdata>>)
                 ELSE port
<1>1. ASSUME mem_valid, mem_req.sel = 2 PROVE mem_ready <=> bus_ready
  BY <1>1 DEF mem_ready, sel_ram, sel_simio, sel_accel
<1>2. QED
  BY <1>1 DEF Accelerator, accel_wen, ToWrap, sel_accel, Writes

\* Where the map sees an access.
MapPhase ==
  IF ~mem_valid THEN "idle" ELSE IF mem_ready THEN "served" ELSE "asked"

\* A mapped access is served in the clock after it was asked for, and no
\* other ever is.
LEMMA PhaseStep ==
  ASSUME SocInv, SocClock
  PROVE  /\ MapPhase = "idle" => MapPhase' \in {"idle", "asked"}
         /\ MapPhase = "asked" =>
              /\ mem_req' = mem_req
              /\ MapPhase' = IF mem_req.sel \in {0, 1, 2} THEN "served"
                             ELSE "asked"
         /\ MapPhase = "served" => MapPhase' = "idle" /\ mem_req' = mem_req
<1>1. /\ ram_ready_r' = (mem_valid /\ sel_ram /\ ~ram_ready_r)
      /\ simio_ready_r' = (mem_valid /\ sel_simio /\ ~simio_ready_r)
      /\ bus_ready' = (mem_valid /\ sel_accel /\ ~bus_ready)
  BY DevicesStep DEF SocClock
<1>2. CASE MapPhase = "idle"
  <2>1. ~mem_valid
    BY <1>2 DEF MapPhase
  <2>2. ~ram_ready_r' /\ ~simio_ready_r' /\ ~bus_ready'
    BY <1>1, <2>1
  <2>3. QED
    BY <1>2, <2>2 DEF MapPhase, mem_ready
<1>3. CASE MapPhase = "asked"
  <2>1. mem_valid /\ ~mem_ready
    BY <1>3 DEF MapPhase
  <2>2. mem_valid' = mem_valid /\ mem_req' = mem_req
    BY <2>1 DEF SocClock, CpuPort, Ask, Quiet, Wait, Take, cpuVars
  <2>3. /\ ~(sel_ram /\ ram_ready_r) /\ ~(sel_simio /\ simio_ready_r)
        /\ ~(sel_accel /\ bus_ready)
    BY <2>1 DEF mem_ready
  <2>4. /\ ram_ready_r' = sel_ram /\ simio_ready_r' = sel_simio
        /\ bus_ready' = sel_accel
    BY <1>1, <2>1, <2>3 DEF sel_ram, sel_simio, sel_accel
  <2>5. mem_ready' <=> mem_req.sel \in {0, 1, 2}
    BY <2>2, <2>4 DEF mem_ready, sel_ram, sel_simio, sel_accel
  <2>6. QED
    BY <1>3, <2>1, <2>2, <2>5 DEF MapPhase
<1>4. CASE MapPhase = "served"
  <2>1. mem_valid /\ mem_ready
    BY <1>4 DEF MapPhase
  <2>2. ~mem_valid' /\ mem_req' = mem_req
    BY <2>1 DEF SocClock, CpuPort, Ask, Quiet, Wait, Take, cpuVars
  <2>3. QED
    BY <1>4, <2>2 DEF MapPhase
<1>5. QED
  BY <1>2, <1>3, <1>4

\* What the processor takes is what the device holds.
LEMMA TakesAnswer ==
  ASSUME SocInv, mem_valid, mem_ready,
         NEW r, \A off \in {q.off : q \in Requests} : r[off] = rdata(off)
  PROVE  Map!Answer(mem_rdata, r)
<1>1. CASE mem_req.sel = 0
  <2>1. ram_ready_r /\ mem_rdata = ram_rdata
    BY <1>1 DEF mem_ready, mem_rdata, sel_ram, sel_simio, sel_accel
  <2>2. ~Writes(mem_req) => ram_rdata = ram[ram_word_addr(mem_req)]
    BY <2>1 DEF SocInv, RamServed
  <2>3. QED
    BY <1>1, <2>1, <2>2 DEF Map!Answer, Map!Writes, Writes
<1>2. CASE mem_req.sel = 2
  <2>1. mem_req \in Requests
    BY <1>2 DEF SocInv, SocTypeOK, NoRequest
  <2>2. mem_rdata = r[mem_req.off]
    BY <1>2, <2>1 DEF mem_rdata, sel_ram, sel_accel
  <2>3. QED
    BY <1>2, <2>2 DEF Map!Answer
<1>3. CASE mem_req.sel \notin {0, 2}
  BY <1>3 DEF Map!Answer, mem_rdata, sel_ram, sel_accel
<1>4. QED
  BY <1>1, <1>2, <1>3

\* A clock is a step of the map.
LEMMA MapClock ==
  ASSUME SocInv, SocClock
  PROVE  Map!Next
<1> USE DEF MapPhase
<1>1. RamData /\ SimioData /\ Accelerator /\ CpuPort(Requests)
  BY DEF SocClock, Devices
<1>2. CASE MapPhase = "idle"
  <2>1. ~mem_valid
    BY <1>2
  <2>2. UNCHANGED <<ram, console, simio_halt, port>>
    BY <1>1, <2>1, Unreset, PortStep
  <2>3. UNCHANGED mem_rdata_q
    BY <1>1, <2>1 DEF CpuPort, Ask, Quiet, Wait, Take, cpuVars
  <2>4. CASE ~mem_valid'
    <3>1. UNCHANGED mem_req
      BY <1>1, <2>1, <2>4 DEF CpuPort, Ask, Quiet, Wait, Take, cpuVars
    <3>2. Map!Device
      BY <1>2, <2>2, <2>3, <2>4, <3>1 DEF Map!Device
    <3>3. QED
      BY <3>2 DEF Map!Next
  <2>5. CASE mem_valid'
    <3>1. mem_req' \in Requests
      BY <1>1, <2>1, <2>5 DEF CpuPort, Ask, Quiet, Wait, Take, cpuVars
    <3>2. MapPhase' = "asked"
      BY <1>2, <2>5, PhaseStep
    <3>3. Map!Ask
      BY <1>2, <2>2, <2>3, <3>1, <3>2 DEF Map!Ask
    <3>4. QED
      BY <3>3 DEF Map!Next
  <2>6. QED
    BY <2>4, <2>5
<1>3. CASE MapPhase = "asked"
  <2>1. mem_valid /\ ~mem_ready
    BY <1>3
  <2>2. /\ UNCHANGED <<mem_req, mem_rdata_q>>
        /\ MapPhase' = IF mem_req.sel \in {0, 1, 2} THEN "served"
                       ELSE "asked"
    BY <1>1, <1>3, <2>1, PhaseStep
       DEF CpuPort, Ask, Quiet, Wait, Take, cpuVars
  <2>3. CASE mem_req.sel \notin {0, 1, 2}
    <3>1. UNCHANGED <<ram, console, simio_halt, port>>
      BY <1>1, <2>3, Unreset, PortStep
    <3>2. Map!Device
      BY <1>3, <2>2, <2>3, <3>1 DEF Map!Device
    <3>3. QED
      BY <3>2 DEF Map!Next
  <2>4. CASE mem_req.sel = 0
    <3>1. UNCHANGED port
      BY <1>1, <2>4, PortStep
    <3>2. Map!RamEffect
      BY <1>1, <2>1, <2>4, <3>1, Unreset DEF Map!RamEffect
    <3>3. Map!Serve
      BY <1>3, <2>2, <2>4, <3>2 DEF Map!Serve
    <3>4. QED
      BY <3>3 DEF Map!Next
  <2>5. CASE mem_req.sel = 1
    <3>1. UNCHANGED port
      BY <1>1, <2>5, PortStep
    <3>2. Map!SimioEffect
      BY <1>1, <2>1, <2>5, <3>1, Unreset
         DEF Map!SimioEffect, Map!Writes, Writes
    <3>3. Map!Serve
      BY <1>3, <2>2, <2>5, <3>2 DEF Map!Serve
    <3>4. QED
      BY <3>3 DEF Map!Next
  <2>6. CASE mem_req.sel = 2
    <3>1. UNCHANGED <<ram, console, simio_halt>>
      BY <1>1, <2>6, Unreset
    <3>2. Map!AccelEffect
      BY <1>1, <2>1, <2>6, <3>1, PortStep
         DEF Map!AccelEffect, Map!Writes, Writes
    <3>3. Map!Serve
      BY <1>3, <2>2, <2>6, <3>2 DEF Map!Serve
    <3>4. QED
      BY <3>3 DEF Map!Next
  <2>7. QED
    BY <2>3, <2>4, <2>5, <2>6
<1>4. CASE MapPhase = "served"
  <2>1. mem_valid /\ mem_ready
    BY <1>4
  <2>2. UNCHANGED <<ram, console, simio_halt, port>>
    BY <1>1, <2>1, Unreset, PortStep
  <2>3. mem_rdata_q' = mem_rdata
    BY <1>1, <2>1 DEF CpuPort, Ask, Quiet, Wait, Take, cpuVars
  <2>4. /\ mem_rdata \in Word
        /\ Map!Answer(mem_rdata, [off \in {r.off : r \in Requests} |->
                                    rdata(off)])
    BY <2>1, ReadsWord, TakesAnswer DEF SocInv
  <2>5. MapPhase' = "idle" /\ mem_req' = mem_req
    BY <1>4, PhaseStep
  <2>6. Map!Finish
    BY <1>4, <2>2, <2>3, <2>4, <2>5 DEF Map!Finish
  <2>7. QED
    BY <2>6 DEF Map!Next
<1>5. QED
  BY <1>2, <1>3, <1>4

\* resetn gives the access in flight up; the memory and the console may still
\* take it, and one that has been answered may still be taken.
LEMMA MapResets ==
  ASSUME SocInv, SocReset
  PROVE  Map!Next
<1> USE DEF MapPhase
<1>1. RamData /\ SimioData /\ UNCHANGED <<mem_req, port>> /\ ~mem_valid'
  BY DEF SocReset
<1>2. \/ MapPhase = "asked" /\ (Map!RamEffect \/ Map!SimioEffect)
      \/ UNCHANGED <<ram, console, simio_halt>>
  <2>1. CASE ~mem_valid \/ mem_ready \/ mem_req.sel \notin {0, 1}
    BY <1>1, <2>1, Unreset
  <2>2. CASE mem_valid /\ ~mem_ready /\ mem_req.sel = 0
    BY <1>1, <2>2, Unreset DEF Map!RamEffect
  <2>3. CASE mem_valid /\ ~mem_ready /\ mem_req.sel = 1
    BY <1>1, <2>3, Unreset DEF Map!SimioEffect, Map!Writes, Writes
  <2>4. QED
    BY <2>1, <2>2, <2>3
<1> DEFINE regs == [off \in {r.off : r \in Requests} |-> rdata(off)]
<1>3. \/ /\ MapPhase = "served"
         /\ mem_rdata_q' \in Word /\ Map!Answer(mem_rdata_q', regs')
      \/ UNCHANGED mem_rdata_q
  <2>1. CASE ~(mem_valid /\ mem_ready)
    BY <2>1 DEF SocReset
  <2>2. CASE mem_valid /\ mem_ready /\ sel_accel
    <3>1. mem_rdata_q' = 0 /\ 0 \in Word
      BY <2>2, SixteenWords DEF SocReset, Word
    <3>2. mem_req \in Requests
      BY <2>2 DEF SocInv, SocTypeOK, NoRequest, sel_accel
    <3>3. \A off \in {r.off : r \in Requests} : regs'[off] = 0
      BY DEF SocReset, WrapReset, HardReset, rdata, StatusWord, Status,
             ResultWord
    <3>4. Map!Answer(0, regs')
      <4>1. mem_req.sel = 2 /\ mem_req.off \in {r.off : r \in Requests}
        BY <2>2, <3>2 DEF sel_accel
      <4> HIDE DEF regs
      <4>2. regs'[mem_req.off] = 0
        BY <3>3, <4>1
      <4>3. QED
        BY <4>1, <4>2 DEF Map!Answer
    <3>5. QED
      BY <2>2, <3>1, <3>4
  <2>3. CASE mem_valid /\ mem_ready /\ ~sel_accel
    <3>1. mem_rdata_q' = mem_rdata /\ mem_rdata \in Word
      BY <2>3, ReadsWord DEF SocReset, SocInv
    <3>2. Map!Answer(mem_rdata, regs)
      BY <2>3, TakesAnswer
    <3>3. Map!Answer(mem_rdata, regs')
      BY <2>3, <3>2 DEF Map!Answer, sel_accel
    <3>4. QED
      BY <2>3, <3>1, <3>3
  <2>4. QED
    BY <2>1, <2>2, <2>3
<1> HIDE DEF regs
<1>4. Map!Reset
  BY <1>1, <1>2, <1>3 DEF Map!Reset, regs
<1>5. QED
  BY <1>4 DEF Map!Next

\* The SoC implements its memory map: however long the handshake takes,
\* every mapped access is served by one device and takes effect there once,
\* although the RAM writes twice, and a read answers what the device holds,
\* also when resetn falls at any edge.
THEOREM MapImplemented == SocSpec => MapSpec
<1>1. SocInit => Map!Init
  BY DEF SocInit, Map!Init
<1>2. SocInv /\ [SocNext]_socVars => [Map!Next]_Map!vars
  <2>1. ASSUME UNCHANGED socVars PROVE UNCHANGED Map!vars
    BY <2>1 DEF Map!vars, mem_ready, rdata, StatusWord, Status, ResultWord,
       sel_ram, sel_simio, sel_accel, socVars, accelVars, commandVars,
       pipelineVars, cpuVars, busVars
  <2>2. QED
    BY <2>1, MapClock, MapResets DEF SocNext
<1>3. QED
  BY <1>1, <1>2, SocInvAlways, PTL DEF SocSpec, MapSpec, Map!Spec

-----------------------------------------------------------------------------
(* The programs.                                                           *)

Points ==
  {"banner", "reset", "armMod", "modulus", "armOp", "operand", "start",
   "poll", "status", "read", "label", "value", "pass", "fail", "halt"}

\* The processor is where its program says, and what it waits for outside
\* the RAM is what the program asks there.
AtPoint ==
  /\ fw \in Programs /\ pc \in Points \cup {"hang"}
  /\ answer \in Word /\ gap \in 0 .. MaxGap /\ resets \in 0 .. MaxResets
  /\ fw # "wild" /\ mem_valid /\ mem_req.sel # 0 =>
       pc \in Points /\ mem_req = Accesses[pc]

\* The points of a program are those that access the bus.
LEMMA PointsOfProgram == DOMAIN Accesses = Points
BY DEF Accesses, Points

\* No access of a program is to the RAM.
LEMMA AccessOfPoint ==
  ASSUME NEW p \in Points
  PROVE  Accesses[p] \in Requests /\ Accesses[p].sel \in {1, 2}
<1>1. Accesses[p] \in Requests
  BY AccessesAssumption, PointsOfProgram
<1>2. Accesses[p].sel \in {1, 2}
  BY DEF Points, Accesses, PrintLine, WriteCtrl, Store, Load
<1>3. QED
  BY <1>1, <1>2

\* A program does not leave its points.
LEMMA AfterPoint ==
  ASSUME pc \in Points, NEW word
  PROVE  After(word) \in Points \cup {"hang"}
<1>1. CASE pc \in {"poll", "status", "value"}
  BY <1>1 DEF After, Points
<1>2. CASE pc \notin {"poll", "status", "value", "read"}
  <2>1. After(word) = Following[pc]
    BY <1>2 DEF After
  <2>2. Following[pc] \in Points \cup {"hang"}
    BY <1>2 DEF Following, Points
  <2>3. QED
    BY <2>1, <2>2
<1>3. CASE pc = "read"
  BY <1>3 DEF After, Following, Points
<1>4. QED
  BY <1>1, <1>2, <1>3

\* A program is one of the things a processor may do.
LEMMA ProgramClock ==
  ASSUME SocInv, AtPoint, FirmwareClock
  PROVE  SocClock /\ AtPoint'
<1>1. CASE RunsWild
  <2>1. CpuPort(Requests)
    BY <1>1, FirmwareAssumption DEF RunsWild, CpuPort
  <2>2. QED
    BY <1>1, <2>1 DEF FirmwareClock, RunsWild, SocClock, AtPoint
<1>2. CASE fw # "wild" /\ DataAccess
  <2>1. pc \in Points /\ Ask(Accesses[pc])
    BY <1>2 DEF DataAccess, AtPoint
  <2>2. CpuPort(Requests)
    BY <2>1, AccessOfPoint DEF CpuPort
  <2>3. mem_req' = Accesses[pc] /\ 0 \in 0 .. MaxGap
    BY <2>1, FirmwareAssumption DEF Ask
  <2>4. QED
    BY <1>2, <2>1, <2>2, <2>3
       DEF FirmwareClock, DataAccess, SocClock, AtPoint
<1>3. CASE fw # "wild" /\ Between
  <2>1. gap' \in 0 .. MaxGap
    BY <1>3, FirmwareAssumption DEF Between, AtPoint
  <2>2. CASE Quiet
    BY <1>3, <2>1, <2>2
       DEF FirmwareClock, Between, Quiet, cpuVars, SocClock, CpuPort, AtPoint
  <2>3. ASSUME NEW r \in RamAccesses, Ask(r)
        PROVE  SocClock /\ AtPoint'
    <3>1. r \in Requests /\ r.sel = 0
      BY FirmwareAssumption
    <3>2. CpuPort(Requests)
      BY <2>3, <3>1 DEF CpuPort
    <3>3. mem_req'.sel = 0
      BY <2>3, <3>1 DEF Ask
    <3>4. QED
      BY <1>3, <2>1, <3>2, <3>3 DEF FirmwareClock, Between, SocClock, AtPoint
  <2>4. QED
    BY <1>3, <2>2, <2>3 DEF Between
<1>4. CASE fw # "wild" /\ Waiting
  BY <1>4 DEF FirmwareClock, Waiting, Wait, cpuVars, SocClock, CpuPort,
              AtPoint
<1>5. CASE fw # "wild" /\ Answered
  <2>1. SocClock /\ ~mem_valid'
    BY <1>5 DEF FirmwareClock, Answered, Take, SocClock, CpuPort
  <2>2. pc' \in Points \cup {"hang"} /\ answer' \in Word
    <3>1. CASE mem_req.sel = 0
      BY <1>5, <3>1 DEF Answered, AtPoint
    <3>2. CASE mem_req.sel # 0
      <4>1. pc \in Points
        BY <1>5, <3>2 DEF Answered, Take, AtPoint
      <4>2. pc' = After(mem_rdata) /\ answer' \in {mem_rdata, answer}
        BY <1>5, <3>2 DEF Answered
      <4>3. QED
        BY <4>1, <4>2, AfterPoint, ReadsWord DEF AtPoint, SocInv
    <3>3. QED
      BY <3>1, <3>2
  <2>3. QED
    BY <1>5, <2>1, <2>2 DEF FirmwareClock, Answered, AtPoint
<1>6. QED
  BY <1>1, <1>2, <1>3, <1>4, <1>5 DEF FirmwareClock, Executes

\* A reset of the SoC starts the program over.
LEMMA ProgramReset ==
  ASSUME AtPoint, FirmwareReset
  PROVE  SocReset /\ AtPoint'
<1>1. SocReset /\ ~mem_valid'
  BY DEF FirmwareReset, SocReset
<1>2. 0 \in Word /\ 0 \in 0 .. MaxGap
  BY SixteenWords, FirmwareAssumption DEF Word
<1>3. CASE StartsOver
  <2>1. resets' \in 0 .. MaxResets
    BY <1>3, FirmwareAssumption DEF StartsOver, AtPoint
  <2>2. QED
    BY <1>1, <1>2, <1>3, <2>1 DEF StartsOver, AtPoint, Points
<1>4. CASE UNCHANGED fwVars
  BY <1>1, <1>4 DEF AtPoint, fwVars
<1>5. QED
  BY <1>1, <1>3, <1>4 DEF FirmwareReset

\* The processor has asked for nothing at power-up.
LEMMA AtPointInit == FirmwareInit => AtPoint
<1>1. 0 \in Word /\ 0 \in 0 .. MaxGap /\ 0 \in 0 .. MaxResets
  BY SixteenWords, FirmwareAssumption DEF Word
<1>2. QED
  BY <1>1 DEF FirmwareInit, SocInit, AtPoint, Points

\* The access on the bus is the one of the point the program is at.
LEMMA AtPointStep ==
  SocInv /\ AtPoint /\ [FirmwareNext]_firmwareVars =>
    AtPoint' /\ [SocNext]_socVars
<1>1. ASSUME AtPoint, UNCHANGED firmwareVars
      PROVE  AtPoint' /\ UNCHANGED socVars
  BY <1>1 DEF AtPoint, firmwareVars, fwVars, socVars, cpuVars
<1>2. QED
  BY <1>1, ProgramClock, ProgramReset DEF FirmwareNext, SocNext

\* What a program does, the processor of the SoC may do.
LEMMA AtPointAlways == FirmwareSpec => SocSpec /\ [](SocInv /\ AtPoint)
<1>1. FirmwareInit => SocInit
  BY DEF FirmwareInit
<1>2. QED
  BY <1>1, SocInvInit, SocInvStep, AtPointInit, AtPointStep, PTL
     DEF FirmwareSpec, SocSpec

\* Whatever is in the RAM, the state of the SoC and of the program keeps its
\* type.
THEOREM FirmwareTypeCorrect == FirmwareSpec => []FirmwareTypeOK
<1>1. SocInv /\ AtPoint => FirmwareTypeOK
  BY PointsOfProgram DEF SocInv, AtPoint, FirmwareTypeOK
<1>2. QED
  BY <1>1, AtPointAlways, PTL

\* Whatever is in the RAM, the SoC implements its memory map.
THEOREM FirmwareOnMap == FirmwareSpec => MapSpec
BY AtPointAlways, MapImplemented, PTL

-----------------------------------------------------------------------------
(* The report of the two integration programs.                             *)

\* The access of this point has taken effect, and not been answered yet.
Effect == mem_valid /\ mem_ready /\ mem_req.sel # 0

\* Where a point leads, when everything goes well.  A poll is repeated, and
\* the status looked at, with no effect.
Onward ==
  [p \in Points |-> IF p = "value" THEN "pass"
                    ELSE IF p \in {"poll", "status"} THEN p
                    ELSE Following[p]]

\* How far the devices have come, in terms of the program.
Reached == IF Effect THEN Onward[pc] ELSE pc

\* The stages of the operation: loading it, having it computed, done.
Loading ==
  {"banner", "reset", "armMod", "modulus", "armOp", "operand", "start"}
Reporting == {"status", "read", "label", "value", "pass", "halt", "hang"}

Squaring == cstate \in {"C_REDUCE", "C_MUL"} /\ ACC!CInv
Squared == cstate = "C_DONE" /\ ACC!AtRest /\ ~flag_error /\ result = 2

\* What the accelerator has been given, or has done, when p is reached.
Prepared(p) ==
  /\ p \in Loading => cstate = "C_IDLE" /\ ACC!AtRest
  /\ p = "modulus" => load_mod_armed
  /\ p \in {"armOp", "operand", "start"} => modulus = Modulus
  /\ p = "operand" => load_op_armed
  /\ p = "start" => operand = Operand
  /\ p = "poll" => Squaring \/ Squared
  /\ p \in Reporting => Squared

\* The lines printed when p is reached.
LinesAt(p) ==
  IF p = "banner" THEN 0
  ELSE IF p = "value" THEN 2
  ELSE IF p = "pass" THEN 3
  ELSE IF p \in {"halt", "hang"} THEN 4
  ELSE 1

Onscreen(p) ==
  /\ console \in Seq(Word) /\ before \in Nat
  /\ Len(console) = before + LinesAt(p)
  /\ \A k \in 1 .. LinesAt(p) : console[before + k] = Report[k]

\* What has been printed and what the accelerator holds, together: a line
\* of the result is only true because the accelerator was told what to do.
Progress ==
  /\ pc # "fail"
  /\ pc \in {"label", "value", "pass", "halt", "hang"} => answer = 2
  /\ Prepared(Reached)
  /\ Onscreen(Reached)

ProgramInv == fw # "wild" => Progress

-----------------------------------------------------------------------------

\* The lanes of the words the programs write to CTRL.
LEMMA CtrlWords ==
  /\ PortWrite(0, RESET) = CtrlWrite({"RESET"})
  /\ PortWrite(0, LOAD_MOD) = CtrlWrite({"LOAD_MOD"})
  /\ PortWrite(0, LOAD_OP) = CtrlWrite({"LOAD_OP"})
  /\ PortWrite(0, START) = CtrlWrite({"START"})
<1>1. Pow2[0] = 1 /\ Pow2[1] = 2 /\ Pow2[2] = 4 /\ Pow2[3] = 8
  <2>1. /\ 0 \in 0 .. WIDTH - 1 /\ 1 \in 0 .. WIDTH - 1
        /\ 2 \in 0 .. WIDTH - 1
    BY WidthAssumption, LanesAssumption
  <2>2. /\ Pow2[0 + 1] = 2 * Pow2[0] /\ Pow2[1 + 1] = 2 * Pow2[1]
        /\ Pow2[2 + 1] = 2 * Pow2[2]
    BY <2>1, Weights
  <2>3. QED
    BY <2>2, Pow2Assumption
<1>2. Reg(0) = "CTRL"
  BY DEF Reg, Registers
<1>3. \A word : PortWrite(0, word) =
                CtrlWrite({CtrlBit[i] :
                             i \in {j \in 0 .. 3 : Lane(word, j) = 1}})
  BY <1>2 DEF PortWrite
<1>4. /\ CtrlBit[0] = "START" /\ CtrlBit[1] = "RESET"
      /\ CtrlBit[2] = "LOAD_OP" /\ CtrlBit[3] = "LOAD_MOD"
  BY DEF CtrlBit
<1>5. ASSUME NEW b \in 0 .. 3, NEW word, \A j \in 0 .. 3 : Lane(word, j) = 1 <=> j = b
      PROVE  PortWrite(0, word) = CtrlWrite({CtrlBit[b]})
  <2>1. {j \in 0 .. 3 : Lane(word, j) = 1} = {b}
    BY <1>5
  <2>2. {CtrlBit[i] : i \in {j \in 0 .. 3 : Lane(word, j) = 1}} = {CtrlBit[b]}
    BY <2>1
  <2>3. QED
    BY <1>3, <2>2
<1>6. ASSUME NEW j \in 0 .. 3
      PROVE  /\ Lane(1, j) = 1 <=> j = 0
             /\ Lane(2, j) = 1 <=> j = 1
             /\ Lane(4, j) = 1 <=> j = 2
             /\ Lane(8, j) = 1 <=> j = 3
  <2>1. j = 0 \/ j = 1 \/ j = 2 \/ j = 3
    OBVIOUS
  <2>2. QED
    BY <1>1, <2>1 DEF Lane
<1>7. QED
  BY <1>4, <1>5, <1>6 DEF RESET, LOAD_MOD, LOAD_OP, START

\* The data writes of the programs.
LEMMA DataWords ==
  /\ PortWrite(4, Modulus) = ModulusWrite(Modulus)
  /\ PortWrite(2, Operand) = OperandWrite(Operand)
BY DEF PortWrite, Reg, Registers

\* A clock at rest in which no command starts or stops anything.
LEMMA QuietClock ==
  ASSUME Peripheral, NEW w, Clock(w), ~IsReset(w), ~IsStart(w),
         cstate \in {"C_IDLE", "C_DONE"}, ACC!AtRest
  PROVE  /\ UNCHANGED <<cstate, result, flag_busy, flag_done, flag_error>>
         /\ ACC!AtRest'
<1>1. Word \subseteq ACC!Word /\ Word \subseteq ACC!Word
  BY DEF Word, Radix, ACC!Word, ACC!Radix
<1>2. UNCHANGED <<cstate, result, flag_busy, flag_done>>
  BY DEF Clock, Pipeline, PassReduced, PublishProduct, ClearPipeline,
         RefuseStart, AcceptStart, HoldPipeline, Reduced, Multiplied
<1>3. UNCHANGED flag_error
  BY DEF Clock, Command, ResetCommand, StartCommand, LoadOpCommand,
         LoadModCommand, WriteOperand, WriteModulus, NoCommand
<1>4. ACC!Clock(w) /\ ~ACC!IsStart(w)
  BY SameClock DEF IsStart, IsReset, Ctrl, ACC!IsStart, ACC!IsReset, ACC!Ctrl
<1>5. ACC!AtRest'
  BY <1>1, <1>4, ACC!RestStep, WidthAssumption, Pow2Assumption
     DEF Peripheral
<1>6. QED
  BY <1>2, <1>3, <1>5

\* A clock without a write leaves things as they were, or goes on squaring.
LEMMA NothingTaken ==
  ASSUME Peripheral, Clock(NoWrite), NEW p, Prepared(p)
  PROVE  Prepared(p)'
<1>1. Word \subseteq ACC!Word /\ Word \subseteq ACC!Word
  BY DEF Word, Radix, ACC!Word, ACC!Radix
<1>2. ~IsReset(NoWrite) /\ ~IsStart(NoWrite)
  BY DEF IsReset, IsStart, Ctrl, NoWrite
<1>3. NoCommand(NoWrite)
  BY DEF Clock, Command, ResetCommand, StartCommand, LoadOpCommand,
         LoadModCommand, WriteOperand, WriteModulus, IsReset, IsStart,
         IsLoadOp, IsLoadMod, IsOperand, IsModulus, Ctrl, NoWrite
<1>4. UNCHANGED <<operand, modulus, flag_error, load_op_armed,
                  load_mod_armed>>
  BY <1>3 DEF NoCommand
<1>5. ASSUME cstate \in {"C_IDLE", "C_DONE"}, ACC!AtRest
      PROVE  UNCHANGED <<cstate, result>> /\ ACC!AtRest'
  BY <1>2, <1>5, QuietClock
<1>6. Squared => Squared'
  BY <1>4, <1>5 DEF Squared
<1>7. ASSUME Squaring PROVE Squaring' \/ Squared'
  <2>1. /\ ACC!Clock(NoWrite) /\ ACC!Careful(NoWrite) /\ ACC!TypeOK
        /\ ACC!StatusCoherent
    BY SameClock, SamePeripheral
       DEF Peripheral, ACC!Careful, ACC!IsReset, ACC!IsModulus, ACC!Ctrl,
           NoWrite
  <2>2. CASE cstate = "C_REDUCE"
    <3>1. ACC!Reducing
      BY <1>7, <2>2 DEF Squaring, ACC!CInv
    <3>2. \/ cstate' = "C_REDUCE" /\ ACC!Reducing'
          \/ cstate' = "C_MUL" /\ ACC!Multiplying'
      BY <1>1, <2>1, <2>2, <3>1, ACC!ReduceStep, WidthAssumption,
         Pow2Assumption
    <3>3. QED
      BY <3>2 DEF Squaring, ACC!CInv
  <2>3. CASE cstate = "C_MUL"
    <3>1. ACC!Multiplying
      BY <1>7, <2>3 DEF Squaring, ACC!CInv
    <3>2. \/ cstate' = "C_MUL" /\ ACC!Multiplying'
          \/ cstate' = "C_DONE" /\ ACC!AtRest'
             /\ result' = (Operand * Operand) % Modulus
      BY <1>1, <2>1, <2>3, <3>1, ACC!MultiplyStep, WidthAssumption,
         Pow2Assumption
    <3>3. (Operand * Operand) % Modulus = 2
      BY DEF Operand, Modulus
    <3>4. ~flag_error
      BY <2>1, <2>3 DEF ACC!StatusCoherent
    <3>5. QED
      BY <1>4, <3>2, <3>3, <3>4 DEF Squaring, Squared, ACC!CInv
  <2>4. QED
    BY <1>7, <2>2, <2>3 DEF Squaring
<1>8. QED
  BY <1>4, <1>5, <1>6, <1>7 DEF Prepared

\* A command that neither starts nor stops anything.
LEMMA ArmTaken ==
  ASSUME Peripheral, cstate = "C_IDLE", ACC!AtRest
  PROVE  /\ Clock(CtrlWrite({"LOAD_MOD"})) =>
              /\ cstate' = "C_IDLE" /\ ACC!AtRest' /\ load_mod_armed'
              /\ UNCHANGED modulus
         /\ Clock(CtrlWrite({"LOAD_OP"})) =>
              /\ cstate' = "C_IDLE" /\ ACC!AtRest' /\ load_op_armed'
              /\ UNCHANGED modulus
<1> USE DEF IsReset, IsStart, IsLoadOp, IsLoadMod, Ctrl, CtrlWrite
<1>1. ASSUME NEW bit \in {"LOAD_MOD", "LOAD_OP"}, Clock(CtrlWrite({bit}))
      PROVE  cstate' = "C_IDLE" /\ ACC!AtRest'
  <2>1. ~IsReset(CtrlWrite({bit})) /\ ~IsStart(CtrlWrite({bit}))
    OBVIOUS
  <2> HIDE DEF IsReset, IsStart
  <2>2. QED
    BY <1>1, <2>1, QuietClock
<1>2. Clock(CtrlWrite({"LOAD_MOD"})) => load_mod_armed' /\ UNCHANGED modulus
  BY DEF Clock, Command, ResetCommand, StartCommand, LoadOpCommand,
         LoadModCommand, WriteOperand, WriteModulus, NoCommand, IsOperand,
         IsModulus
<1>3. Clock(CtrlWrite({"LOAD_OP"})) => load_op_armed' /\ UNCHANGED modulus
  BY DEF Clock, Command, ResetCommand, StartCommand, LoadOpCommand,
         LoadModCommand, WriteOperand, WriteModulus, NoCommand, IsOperand,
         IsModulus
<1>4. QED
  BY <1>1, <1>2, <1>3

\* The data for which the peripheral is armed.
LEMMA DataTaken ==
  ASSUME Peripheral, cstate = "C_IDLE", ACC!AtRest, NEW word
  PROVE  /\ Clock(ModulusWrite(word)) /\ load_mod_armed =>
              cstate' = "C_IDLE" /\ ACC!AtRest' /\ modulus' = word
         /\ Clock(OperandWrite(word)) /\ load_op_armed =>
              /\ cstate' = "C_IDLE" /\ ACC!AtRest' /\ operand' = word
              /\ UNCHANGED modulus
<1>1. ASSUME NEW w \in {ModulusWrite(word), OperandWrite(word)}, Clock(w)
      PROVE  cstate' = "C_IDLE" /\ ACC!AtRest'
  <2>1. ~IsReset(w) /\ ~IsStart(w)
    BY DEF IsReset, IsStart, Ctrl, ModulusWrite, OperandWrite
  <2>2. QED
    BY <1>1, <2>1, QuietClock
<1>2. Clock(ModulusWrite(word)) /\ load_mod_armed => modulus' = word
  BY DEF Clock, Command, ResetCommand, StartCommand, LoadOpCommand,
         LoadModCommand, WriteOperand, WriteModulus, NoCommand, IsOperand,
         IsModulus, IsReset, IsStart, IsLoadOp, IsLoadMod, Ctrl,
         ModulusWrite
<1>3. Clock(OperandWrite(word)) /\ load_op_armed =>
        operand' = word /\ UNCHANGED modulus
  BY DEF Clock, Command, ResetCommand, StartCommand, LoadOpCommand,
         LoadModCommand, WriteOperand, WriteModulus, NoCommand, IsOperand,
         IsModulus, IsReset, IsStart, IsLoadOp, IsLoadMod, Ctrl,
         OperandWrite
<1>4. QED
  BY <1>1, <1>2, <1>3

\* RESET leaves the peripheral free, START has it square the operand.
LEMMA CommandTaken ==
  ASSUME Peripheral, cstate = "C_IDLE", ACC!AtRest
  PROVE  /\ Clock(CtrlWrite({"RESET"})) => cstate' = "C_IDLE" /\ ACC!AtRest'
         /\ /\ Clock(CtrlWrite({"START"}))
            /\ modulus = Modulus /\ operand = Operand
            => Squaring'
<1>1. Word \subseteq ACC!Word /\ Word \subseteq ACC!Word
  BY DEF Word, Radix, ACC!Word, ACC!Radix
<1>2. ACC!TypeOK /\ ACC!StatusCoherent
  BY SamePeripheral DEF Peripheral
<1>3. ASSUME Clock(CtrlWrite({"RESET"}))
      PROVE  cstate' = "C_IDLE" /\ ACC!AtRest'
  <2>1. /\ ACC!Clock(CtrlWrite({"RESET"}))
        /\ ~ACC!IsStart(CtrlWrite({"RESET"}))
    BY <1>3, SameClock
       DEF ACC!IsStart, ACC!IsReset, ACC!Ctrl, CtrlWrite
  <2>2. ACC!AtRest'
    BY <1>1, <1>2, <2>1, ACC!RestStep, WidthAssumption, Pow2Assumption
  <2>3. cstate' = "C_IDLE"
    BY <1>3 DEF Clock, Pipeline, PassReduced, PublishProduct, ClearPipeline,
       RefuseStart, AcceptStart, HoldPipeline, Reduced, Multiplied, IsReset,
       IsStart, Ctrl, CtrlWrite
  <2>4. QED
    BY <2>2, <2>3
<1>4. ASSUME Clock(CtrlWrite({"START"})), modulus = Modulus,
             operand = Operand
      PROVE  Squaring'
  <2> DEFINE w == CtrlWrite({"START"})
  <2>1. ACC!Clock(w) /\ ACC!IsStart(w) /\ IsStart(w) /\ modulus # 0
    BY <1>4, SameClock
       DEF ACC!IsStart, ACC!IsReset, ACC!Ctrl, IsStart, IsReset, Ctrl,
           CtrlWrite, Modulus
  <2>2. cstate' = "C_REDUCE"
    BY <1>4, <2>1 DEF Clock, Pipeline, PassReduced, PublishProduct,
       ClearPipeline, RefuseStart, AcceptStart, HoldPipeline, Reduced,
       Multiplied, IsStart
  <2> HIDE DEF w
  <2>3. /\ flag_busy' /\ redmod_start' /\ operand' = operand
        /\ modulus' = modulus
        /\ rd_state' = "S_IDLE" /\ rd_cnt' = 0 /\ ~redmod_done'
        /\ ACC!MulFree'
    BY <1>1, <1>2, <2>1, <2>2, ACC!RestStep, WidthAssumption, Pow2Assumption
  <2>4. [x |-> Operand, m |-> Modulus] = [x |-> operand, m |-> modulus]
    BY <1>4
  <2>5. ACC!Reducing'
    BY <1>1, <1>2, <2>1, <2>2, <2>3, <2>4, ACC!StartsJob, WidthAssumption,
       Pow2Assumption
  <2>6. QED
    BY <2>2, <2>5 DEF Squaring, ACC!CInv
<1>5. QED
  BY <1>3, <1>4

\* What the accelerator is given in this clock: the access in flight, in the
\* clock before it is answered.
LEMMA Given ==
  ASSUME SocInv, Accelerator
  PROVE  IF mem_valid /\ ~mem_ready /\ mem_req.sel = 2 /\ Writes(mem_req)
         THEN Clock(PortWrite(mem_req.off, mem_req.wdata))
         ELSE Clock(NoWrite)
<1>1. ASSUME mem_valid, mem_req.sel = 2 PROVE mem_ready <=> bus_ready
  BY <1>1 DEF mem_ready, sel_ram, sel_simio, sel_accel
<1>2. QED
  BY <1>1 DEF Accelerator, WrapClock, accel_wen, ToWrap, sel_accel, Writes

\* The fields of a program's accesses.
LEMMA AccessFields ==
  /\ \A p \in {"banner", "label", "value", "pass", "fail", "halt"} :
       Accesses[p].sel = 1 /\ Writes(Accesses[p])
  /\ \A p \in {"reset", "armMod", "modulus", "armOp", "operand", "start"} :
       Accesses[p].sel = 2 /\ Writes(Accesses[p])
  /\ \A p \in {"poll", "status", "read"} :
       Accesses[p].sel = 2 /\ ~Writes(Accesses[p])
<1>1. Lanes # {}
  BY WidthAssumption DEF Lanes
<1>2. QED
  BY <1>1 DEF Accesses, PrintLine, WriteCtrl, Store, Load, Writes

\* When its access takes effect, the accelerator is ready for the next point.
LEMMA EffectOnAccel ==
  ASSUME SocInv, Accelerator, NEW p \in Points, mem_valid, ~mem_ready,
         mem_req = Accesses[p], Prepared(p), p # "fail"
  PROVE  Prepared(Onward[p])'
<1>1. Peripheral
  BY DEF SocInv
<1>2. CASE p \in {"banner", "label", "value", "pass", "halt", "poll",
                  "status", "read"}
  <2>1. Clock(NoWrite)
    BY <1>2, Given, AccessFields
  <2>2. Prepared(p)'
    BY <1>1, <2>1, NothingTaken
  <2>3. Onward[p] = IF p = "banner" THEN "reset"
                    ELSE IF p = "label" THEN "value"
                    ELSE IF p = "value" THEN "pass"
                    ELSE IF p = "pass" THEN "halt"
                    ELSE IF p = "halt" THEN "hang"
                    ELSE IF p = "read" THEN "label"
                    ELSE p
    BY <1>2 DEF Onward, Following
  <2>4. QED
    BY <1>2, <2>2, <2>3 DEF Prepared, Loading, Reporting
<1>3. CASE p \in {"reset", "armMod", "modulus", "armOp", "operand", "start"}
  <2>1. Clock(PortWrite(Accesses[p].off, Accesses[p].wdata))
    BY <1>3, Given, AccessFields
  <2>2. cstate = "C_IDLE" /\ ACC!AtRest
    BY <1>3 DEF Prepared, Loading
  <2>3. CASE p = "reset"
    <3>1. Accesses[p].off = 0 /\ Accesses[p].wdata = RESET
      BY <2>3 DEF Accesses, WriteCtrl, Store
    <3>2. Onward[p] = "armMod"
      BY <2>3 DEF Onward, Following
    <3>3. QED
      BY <1>1, <2>1, <2>2, <3>1, <3>2, CtrlWords, CommandTaken
         DEF Prepared, Loading, Reporting
  <2>4. CASE p = "armMod"
    <3>1. Accesses[p].off = 0 /\ Accesses[p].wdata = LOAD_MOD
      BY <2>4 DEF Accesses, WriteCtrl, Store
    <3>2. Onward[p] = "modulus"
      BY <2>4 DEF Onward, Following
    <3>3. QED
      BY <1>1, <2>1, <2>2, <3>1, <3>2, CtrlWords, ArmTaken
         DEF Prepared, Loading, Reporting
  <2>5. CASE p = "modulus"
    <3>1. Accesses[p].off = 4 /\ Accesses[p].wdata = Modulus
      BY <2>5 DEF Accesses, Store
    <3>2. Onward[p] = "armOp"
      BY <2>5 DEF Onward, Following
    <3>3. load_mod_armed
      BY <2>5 DEF Prepared
    <3>4. QED
      BY <1>1, <2>1, <2>2, <3>1, <3>2, <3>3, DataWords, DataTaken
         DEF Prepared, Loading, Reporting
  <2>6. CASE p = "armOp"
    <3>1. Accesses[p].off = 0 /\ Accesses[p].wdata = LOAD_OP
      BY <2>6 DEF Accesses, WriteCtrl, Store
    <3>2. Onward[p] = "operand"
      BY <2>6 DEF Onward, Following
    <3>3. modulus = Modulus
      BY <2>6 DEF Prepared
    <3>4. QED
      BY <1>1, <2>1, <2>2, <3>1, <3>2, <3>3, CtrlWords, ArmTaken
         DEF Prepared, Loading, Reporting
  <2>7. CASE p = "operand"
    <3>1. Accesses[p].off = 2 /\ Accesses[p].wdata = Operand
      BY <2>7 DEF Accesses, Store
    <3>2. Onward[p] = "start"
      BY <2>7 DEF Onward, Following
    <3>3. modulus = Modulus /\ load_op_armed
      BY <2>7 DEF Prepared
    <3>4. QED
      BY <1>1, <2>1, <2>2, <3>1, <3>2, <3>3, DataWords, DataTaken
         DEF Prepared, Loading, Reporting
  <2>8. CASE p = "start"
    <3>1. Accesses[p].off = 0 /\ Accesses[p].wdata = START
      BY <2>8 DEF Accesses, WriteCtrl, Store
    <3>2. Onward[p] = "poll"
      BY <2>8 DEF Onward, Following
    <3>3. modulus = Modulus /\ operand = Operand
      BY <2>8 DEF Prepared
    <3>4. QED
      BY <1>1, <2>1, <2>2, <3>1, <3>2, <3>3, CtrlWords, CommandTaken
         DEF Prepared, Loading, Reporting
  <2>9. QED
    BY <1>3, <2>3, <2>4, <2>5, <2>6, <2>7, <2>8
<1>4. QED
  BY <1>2, <1>3 DEF Points

\* And its line is on the console.
LEMMA EffectOnConsole ==
  ASSUME SocInv, RamData, SimioData, NEW p \in Points, mem_valid, ~mem_ready,
         mem_req = Accesses[p], Onscreen(p), p # "fail", UNCHANGED before
  PROVE  Onscreen(Onward[p])'
<1>1. HALT >= 15 /\ HALT \in Nat
  BY SixteenWords DEF HALT
<1>2. CASE p \in {"banner", "label", "value", "pass"}
  <2>1. /\ mem_req.sel = 1 /\ Writes(mem_req)
        /\ mem_req.wdata \in {1, 2, 3, 4}
        /\ mem_req.wdata = Report[LinesAt(p) + 1]
    BY <1>2, AccessFields
       DEF Accesses, PrintLine, Store, Text, Report, LinesAt
  <2>2. console' = Append(console, mem_req.wdata)
    <3>1. mem_req.wdata # HALT
      BY <1>1, <2>1
    <3>2. QED
      BY <2>1, <3>1, Unreset
  <2>3. mem_req.wdata \in Word
    BY RequestTypes DEF SocInv
  <2>4. /\ LinesAt(Onward[p]) = LinesAt(p) + 1 /\ LinesAt(p) \in 0 .. 3
    BY <1>2 DEF Onward, Following, LinesAt, Points
  <2>5. PICK v \in Word, n \in 0 .. 3 :
          v = mem_req.wdata /\ n = LinesAt(p)
    BY <2>3, <2>4
  <2>6. PICK m \in Nat : m = before /\ m' = before'
    BY DEF Onscreen
  <2>7. /\ console \in Seq(Word) /\ Len(console) = m + n
        /\ \A k \in 1 .. n : console[m + k] = Report[k]
    BY <2>5, <2>6 DEF Onscreen
  <2>8. /\ console' \in Seq(Word) /\ Len(console') = m + n + 1
        /\ \A k \in 1 .. n + 1 : console'[m + k] = Report[k]
    <3>1. console' = Append(console, v) /\ v = Report[n + 1]
      BY <2>1, <2>2, <2>5
    <3>2. /\ console' \in Seq(Word) /\ Len(console') = m + n + 1
          /\ \A i \in 1 .. m + n : console'[i] = console[i]
          /\ console'[m + n + 1] = v
      BY <2>7, <3>1, AppendProperties
    <3>3. ASSUME NEW k \in 1 .. n + 1 PROVE console'[m + k] = Report[k]
      <4>1. CASE k = n + 1
        BY <3>1, <3>2, <4>1
      <4>2. CASE k \in 1 .. n
        <5>1. m + k \in 1 .. m + n
          BY <4>2
        <5>2. QED
          BY <2>7, <3>2, <4>2, <5>1
      <4>3. QED
        BY <4>1, <4>2
    <3>4. QED
      BY <3>2, <3>3
  <2>9. QED
    BY <2>4, <2>5, <2>6, <2>8 DEF Onscreen
<1>3. CASE p \in Points \ {"banner", "label", "value", "pass"}
  <2>1. UNCHANGED console
    <3>1. CASE p = "halt"
      <4>1. /\ mem_req.sel = 1 /\ Writes(mem_req) /\ mem_req.wdata = HALT
        BY <3>1, AccessFields DEF Accesses, Store
      <4>2. QED
        BY <4>1, Unreset
    <3>2. CASE p # "halt"
      <4>1. mem_req.sel = 2
        BY <1>3, <3>2, AccessFields DEF Points
      <4>2. QED
        BY <4>1, Unreset
    <3>3. QED
      BY <3>1, <3>2
  <2>2. LinesAt(Onward[p]) = LinesAt(p)
    BY <1>3 DEF Onward, Following, LinesAt, Points
  <2>3. QED
    BY <2>1, <2>2 DEF Onscreen
<1>4. QED
  BY <1>2, <1>3

\* The answers to the programs' reads.
LEMMA WhatIsRead ==
  ASSUME mem_req = Accesses[pc], pc \in {"poll", "status", "read"},
         Prepared(pc), Peripheral
  PROVE  /\ pc = "poll" => (~Busy(mem_rdata) <=> Squared)
         /\ pc = "status" => StatusOk(mem_rdata)
         /\ pc = "read" => mem_rdata = 2
<1>1. CASE pc \in {"poll", "status"}
  <2>1. mem_rdata = StatusWord
    BY <1>1 DEF Accesses, Load, mem_rdata, sel_ram, sel_accel, rdata, Reg,
       Registers
  <2>2. ASSUME Squared PROVE StatusWord = 2
    BY <2>2 DEF Squared, ACC!AtRest, StatusWord, Status
  <2>3. ASSUME Squaring PROVE StatusWord = 1
    <3>1. flag_busy
      BY <2>3 DEF Squaring, ACC!CInv, ACC!Reducing, ACC!Multiplying,
         ACC!InFlight
    <3>2. ~flag_done /\ ~flag_error
      BY <2>3, <3>1 DEF Peripheral, ACC!StatusCoherent, Squaring
    <3>3. QED
      BY <3>1, <3>2 DEF StatusWord, Status
  <2>4. Busy(1) /\ ~Busy(2) /\ Done(2) /\ ~Error(2)
    BY DEF Busy, Done, Error
  <2>5. QED
    BY <1>1, <2>1, <2>2, <2>3, <2>4 DEF Prepared, Reporting, StatusOk
<1>2. CASE pc = "read"
  <2>1. mem_rdata = result
    BY <1>2 DEF Accesses, Load, mem_rdata, sel_ram, sel_accel, rdata, Reg,
       Registers, ResultWord
  <2>2. QED
    BY <1>2, <2>1 DEF Prepared, Reporting, Squared
<1>3. QED
  BY <1>1, <1>2

\* The processor takes an answer, and is where the devices already were.
LEMMA TakesOnward ==
  ASSUME SocInv, AtPoint, Progress, Effect, pc \in Points,
         mem_req = Accesses[pc], pc' = After(mem_rdata)
  PROVE  \/ pc' = Onward[pc]
         \/ pc = "poll" /\ pc' = "status" /\ Squared
         \/ pc = "status" /\ pc' = "read"
<1>1. Prepared(Onward[pc])
  BY DEF Progress, Reached
<1>2. CASE pc = "poll"
  <2>1. Onward[pc] = "poll"
    BY <1>2 DEF Onward, Points
  <2>2. ~Busy(mem_rdata) => Squared
    BY <1>1, <1>2, <2>1, WhatIsRead DEF SocInv
  <2>3. pc' = IF Busy(mem_rdata) THEN "poll" ELSE "status"
    BY <1>2 DEF After
  <2>4. QED
    BY <1>2, <2>1, <2>2, <2>3
<1>3. CASE pc = "status"
  <2>1. Onward[pc] = "status"
    BY <1>3 DEF Onward, Points
  <2>2. StatusOk(mem_rdata)
    BY <1>1, <1>3, <2>1, WhatIsRead DEF SocInv
  <2>3. pc' = IF StatusOk(mem_rdata) THEN "read" ELSE "fail"
    BY <1>3 DEF After
  <2>4. QED
    BY <1>3, <2>2, <2>3
<1>4. CASE pc = "value"
  <2>1. pc' = "pass"
    BY <1>4 DEF After, Progress
  <2>2. QED
    BY <1>4, <2>1 DEF Onward, Points
<1>5. CASE pc \notin {"poll", "status", "value"}
  BY <1>5 DEF After, Onward
<1>6. QED
  BY <1>2, <1>3, <1>4, <1>5

\* A clock of an integration program.
LEMMA ProgressClock ==
  ASSUME SocInv, AtPoint, fw # "wild", Progress, FirmwareClock
  PROVE  Progress'
<1>1. SocClock /\ AtPoint' /\ SocInv' /\ UNCHANGED before
  BY ProgramClock, SocClockStep DEF FirmwareClock
<1>2. RamData /\ SimioData /\ Accelerator /\ Peripheral
  BY <1>1 DEF SocClock, Devices, SocInv
<1>3. CASE ~mem_valid \/ mem_req.sel = 0
  <2>1. pc' = pc /\ answer' = answer
    BY <1>3 DEF FirmwareClock, RunsWild, Executes, DataAccess, Between,
       Waiting, Answered, Take
  <2>2. ~Effect /\ ~Effect'
    <3>1. CASE ~mem_valid
      <4>1. MapPhase' # "served"
        BY <1>1, <3>1, PhaseStep DEF MapPhase
      <4>2. QED
        BY <3>1, <4>1 DEF Effect, MapPhase
    <3>2. CASE mem_valid /\ mem_req.sel = 0
      <4>1. mem_req' = mem_req
        BY <1>1, <3>2 DEF SocClock, CpuPort, Ask, Quiet, Wait, Take, cpuVars
      <4>2. QED
        BY <3>2, <4>1 DEF Effect
    <3>3. QED
      BY <1>3, <3>1, <3>2
  <2>3. PICK p : p = pc /\ p = pc'
    BY <2>1
  <2>4. Reached = p /\ Reached' = p
    BY <2>2, <2>3 DEF Reached
  <2>5. Clock(NoWrite)
    BY <1>2, <1>3, Given
  <2>6. Prepared(p)'
    BY <1>2, <2>4, <2>5, NothingTaken DEF Progress
  <2>7. UNCHANGED console
    <3>1. ~Prints
      BY <1>3 DEF Prints, sel_simio
    <3>2. QED
      BY <1>2, <3>1 DEF SimioData
  <2>8. Onscreen(p)'
    BY <1>1, <2>4, <2>7 DEF Progress, Onscreen
  <2>9. QED
    BY <2>1, <2>4, <2>6, <2>8 DEF Progress
<1>4. CASE mem_valid /\ mem_req.sel # 0 /\ ~mem_ready
  <2>1. pc \in Points /\ mem_req = Accesses[pc]
    BY <1>4 DEF AtPoint
  <2>2. pc' = pc /\ answer' = answer
    BY <1>4 DEF FirmwareClock, RunsWild, Executes, DataAccess, Between,
       Waiting, Answered, Take
  <2>3. MapPhase = "asked"
    BY <1>4 DEF MapPhase
  <2>4. Effect' /\ ~Effect
    <3>1. mem_req.sel \in {1, 2}
      BY <2>1, AccessOfPoint
    <3>2. MapPhase' = "served" /\ mem_req' = mem_req
      BY <1>1, <2>3, <3>1, PhaseStep
    <3>3. QED
      BY <1>4, <3>2 DEF Effect, MapPhase
  <2>5. PICK p \in Points : p = pc /\ p = pc'
    BY <2>1, <2>2
  <2>6. Reached = p /\ Reached' = Onward[p]
    BY <2>4, <2>5 DEF Reached
  <2>7. Prepared(Onward[p])'
    BY <1>2, <1>4, <2>1, <2>5, <2>6, EffectOnAccel DEF Progress
  <2>8. Onscreen(Onward[p])'
    BY <1>1, <1>2, <1>4, <2>1, <2>5, <2>6, EffectOnConsole DEF Progress
  <2>9. QED
    BY <2>2, <2>6, <2>7, <2>8 DEF Progress
<1>5. CASE Effect
  <2>1. pc \in Points /\ mem_req = Accesses[pc]
    BY <1>5 DEF AtPoint, Effect
  <2>2. /\ pc' = After(mem_rdata)
        /\ answer' = IF pc = "read" THEN mem_rdata ELSE answer
    BY <1>5 DEF Effect, FirmwareClock, RunsWild, Executes, DataAccess,
       Between, Ask, Quiet, Waiting, Wait, Answered
  <2>3. ~Effect'
    BY <1>1, <1>5, PhaseStep DEF Effect, MapPhase
  <2>4. PICK p \in Points \cup {"hang"} : p = Onward[pc]
    BY <2>1 DEF Onward, Following, Points
  <2>5. Reached = p
    BY <1>5, <2>4 DEF Reached
  <2>6. Clock(NoWrite)
    BY <1>2, <1>5, Given DEF Effect
  <2>7. Prepared(p)'
    BY <1>2, <2>5, <2>6, NothingTaken DEF Progress
  <2>8. UNCHANGED console
    BY <1>2, <1>5, Unreset DEF Effect
  <2>9. Onscreen(p)'
    BY <1>1, <2>5, <2>8 DEF Progress, Onscreen
  <2>10. \/ pc' = p
         \/ pc = "poll" /\ pc' = "status" /\ Squared
         \/ pc = "status" /\ pc' = "read"
    BY <1>5, <2>1, <2>2, <2>4, TakesOnward
  <2>11. Prepared(pc)' /\ Onscreen(pc)'
    <3>1. CASE pc' = p
      BY <2>7, <2>9, <3>1
    <3>2. CASE pc = "poll" /\ pc' = "status" /\ Squared
      <4>1. p = "poll"
        BY <2>4, <3>2 DEF Onward, Points
      <4>2. Prepared("status")
        BY <3>2 DEF Prepared, Loading, Reporting
      <4>3. Prepared("status")'
        BY <1>2, <2>6, <4>2, NothingTaken
      <4>4. QED
        BY <2>9, <3>2, <4>1, <4>3 DEF Onscreen, LinesAt
    <3>3. CASE pc = "status" /\ pc' = "read"
      <4>1. p = "status"
        BY <2>4, <3>3 DEF Onward, Points
      <4>2. QED
        BY <2>7, <2>9, <3>3, <4>1
           DEF Prepared, Loading, Reporting, Onscreen, LinesAt
    <3>4. QED
      BY <2>10, <3>1, <3>2, <3>3
  <2>12. pc' # "fail"
    BY <2>4, <2>10, <2>1 DEF Onward, Following, Points, Progress
  <2>13. pc' \in {"label", "value", "pass", "halt", "hang"} => answer' = 2
    <3>1. CASE pc = "read"
      <4>1. Prepared(pc)
        BY <2>4, <2>5, <3>1
           DEF Progress, Onward, Following, Points, Prepared, Loading,
               Reporting
      <4>2. QED
        BY <1>2, <2>1, <2>2, <3>1, <4>1, WhatIsRead
    <3>2. CASE pc # "read"
      BY <2>1, <2>2, <2>4, <2>10, <3>2
         DEF Progress, Onward, Following, Points
    <3>3. QED
      BY <3>1, <3>2
  <2>14. QED
    BY <2>3, <2>11, <2>12, <2>13 DEF Progress, Reached
<1>6. QED
  BY <1>3, <1>4, <1>5 DEF Effect

\* resetn starts the program over, whatever it and the accelerator were at.
LEMMA ProgressReset ==
  ASSUME SocInv, fw # "wild", Progress, FirmwareReset
  PROVE  Progress'
<1>1. SocReset /\ StartsOver
  BY DEF FirmwareReset
<1>2. Reached' = "banner"
  BY <1>1 DEF Reached, Effect, SocReset, StartsOver
<1>3. cstate' = "C_IDLE" /\ ACC!AtRest'
  BY <1>1 DEF SocReset, WrapReset, HardReset, u_redmod!Reset, u_mulmod!Reset,
     ACC!AtRest, ACC!RedFree, ACC!RedIdle, ACC!MulFree, ACC!MulIdle
<1>4. Prepared("banner")'
  BY <1>3 DEF Prepared, Loading, Reporting
<1>5. console' \in Seq(Word)
  <2>1. mem_req.wdata \in Word
    BY RequestTypes DEF SocInv
  <2>2. console' = console \/ console' = Append(console, mem_req.wdata)
    BY <1>1 DEF SocReset, SimioData
  <2>3. QED
    BY <2>1, <2>2 DEF Progress, Onscreen
<1>6. Onscreen("banner")'
  BY <1>1, <1>5 DEF StartsOver, Onscreen, LinesAt
<1>7. QED
  BY <1>1, <1>2, <1>4, <1>6 DEF Progress, StartsOver

\* The programs have done nothing at power-up.
LEMMA ProgramInvInit == FirmwareInit => ProgramInv
<1> SUFFICES ASSUME FirmwareInit PROVE Progress
  BY DEF ProgramInv
<1>1. Reached = "banner"
  BY DEF FirmwareInit, SocInit, Reached, Effect
<1>2. cstate = "C_IDLE" /\ ACC!AtRest
  BY DEF FirmwareInit, SocInit, WrapInit, Init, u_redmod!Init, u_mulmod!Init,
     ACC!AtRest, ACC!RedFree, ACC!RedIdle, ACC!MulFree, ACC!MulIdle
<1>3. Prepared("banner")
  BY <1>2 DEF Prepared, Loading, Reporting
<1>4. Onscreen("banner")
  BY DEF FirmwareInit, SocInit, Onscreen, LinesAt
<1>5. QED
  BY <1>1, <1>3, <1>4 DEF FirmwareInit, Progress

\* Every step of the two programs keeps the account of what they have done.
LEMMA ProgramInvStep ==
  SocInv /\ AtPoint /\ ProgramInv /\ [FirmwareNext]_firmwareVars =>
    ProgramInv'
<1>1. ASSUME ProgramInv, UNCHANGED firmwareVars PROVE ProgramInv'
  <2>1. UNCHANGED <<Effect, pc>>
    BY <1>1 DEF Effect, mem_ready, sel_ram, sel_simio, sel_accel,
       firmwareVars, fwVars, socVars, cpuVars, busVars
  <2>2. PICK p : p = Reached /\ p = Reached'
    BY <2>1 DEF Reached
  <2>3. UNCHANGED accelVars
    BY <1>1 DEF firmwareVars, socVars
  <2>4. UNCHANGED <<ACC!CInv, ACC!AtRest>>
    <3>1. UNCHANGED <<ACC!RP!Running, ACC!MP!Running>>
      BY <2>3 DEF ACC!RP!Running, ACC!RP!Consumed, ACC!RP!Radix,
         ACC!MP!Running, ACC!MP!Accumulated, ACC!MP!Radix,
         accelVars, commandVars, pipelineVars, rdVars, mlVars
    <3>2. QED
      BY <2>3, <3>1
         DEF ACC!CInv, ACC!AtRest, ACC!InFlight, ACC!RedFree, ACC!RedIdle,
             ACC!MulFree, ACC!MulIdle, ACC!Reducing, ACC!Multiplying,
             accelVars, commandVars, pipelineVars, rdVars, mlVars
  <2>5. Prepared(p) => Prepared(p)'
    BY <2>3, <2>4 DEF Prepared, Squaring, Squared, accelVars, commandVars,
       pipelineVars
  <2>6. Onscreen(p) => Onscreen(p)'
    BY <1>1 DEF Onscreen, firmwareVars, fwVars, socVars, busVars
  <2>7. QED
    BY <1>1, <2>2, <2>5, <2>6
       DEF ProgramInv, Progress, firmwareVars, fwVars
<1>2. ASSUME SocInv, AtPoint, ProgramInv, FirmwareNext PROVE ProgramInv'
  <2>1. fw' = fw
    BY <1>2 DEF FirmwareNext, FirmwareClock, FirmwareReset, StartsOver,
       fwVars
  <2>2. QED
    BY <1>2, <2>1, ProgressClock, ProgressReset DEF ProgramInv, FirmwareNext
<1>3. QED
  BY <1>1, <1>2

\* A correct prefix of the console is a correct report.
LEMMA ReportOnscreen ==
  ASSUME NEW p, Onscreen(p)
  PROVE  LET printed == SubSeq(console, before + 1, Len(console))
         IN  /\ IsPrefix(printed, Report)
             /\ p = "hang" => printed = Report
<1> DEFINE printed == SubSeq(console, before + 1, Len(console))
           n == LinesAt(p)
<1>1. n \in 0 .. 4 /\ (p = "hang" => n = 4)
  BY DEF LinesAt
<1>2. /\ Report \in Seq(1 .. 5) /\ Len(Report) = 4
      /\ \A i \in 1 .. 4 : Report[i] \in 1 .. 5
  BY DEF Report, Text
<1>3. /\ printed \in Seq(Word) /\ Len(printed) = n
      /\ \A k \in 1 .. n : printed[k] = Report[k]
  <2>1. PICK m \in Nat : m = before
    BY DEF Onscreen
  <2>2. /\ console \in Seq(Word) /\ Len(console) = m + n
        /\ \A k \in 1 .. n : console[m + k] = Report[k]
    BY <2>1 DEF Onscreen
  <2> HIDE DEF n
  <2>3. /\ printed \in Seq(Word)
        /\ Len(printed) = IF m + 1 <= m + n THEN (m + n) - (m + 1) + 1 ELSE 0
        /\ \A k \in 1 .. (m + n) - (m + 1) + 1 :
             printed[k] = console[(m + 1) + k - 1]
    BY <1>1, <2>1, <2>2, SubSeqProperties
  <2>4. QED
    BY <1>1, <2>1, <2>2, <2>3
<1> HIDE DEF printed, n
<1>4. IsPrefix(printed, Report)
  <2>1. Len(printed) <= Len(Report)
    BY <1>1, <1>2, <1>3
  <2>2. SubSeq(printed, 1, Len(printed)) = printed
    BY <1>3
  <2>3. SubSeq(Report, 1, n) = printed
    <3>1. /\ SubSeq(Report, 1, n) \in Seq(1 .. 5)
          /\ Len(SubSeq(Report, 1, n)) = n
          /\ \A k \in 1 .. n : SubSeq(Report, 1, n)[k] = Report[k]
      <4>1. n \in Int /\ 1 \in Int
        BY <1>1
      <4>2. \A i \in 1 .. n : Report[i] \in 1 .. 5
        BY <1>1, <1>2
      <4>3. /\ SubSeq(Report, 1, n) \in Seq(1 .. 5)
            /\ Len(SubSeq(Report, 1, n)) = IF 1 <= n THEN n - 1 + 1 ELSE 0
            /\ \A k \in 1 .. n - 1 + 1 :
                 SubSeq(Report, 1, n)[k] = Report[1 + k - 1]
        BY <4>1, <4>2, SubSeqProperties
      <4>4. QED
        BY <1>1, <4>3
    <3>2. QED
      BY <1>1, <1>3, <3>1, SeqEqual
  <2>4. QED
    BY <1>3, <2>1, <2>2, <2>3 DEF IsPrefix
<1>5. p = "hang" => printed = Report
  BY <1>1, <1>2, <1>3, SeqEqual
<1>6. QED
  BY <1>4, <1>5 DEF printed

\* What either integration program prints is its report, from any reset on
\* and at whatever speed the processor runs: no line is lost, doubled or out
\* of order, the result is that of the operation it asked for, and the last
\* line is PASS.
THEOREM ReportCorrect == FirmwareSpec => []ReportRight
<1>1. AtPoint /\ ProgramInv => ReportRight
  <2> SUFFICES ASSUME AtPoint, Progress, fw # "wild" PROVE ReportRight
    BY DEF ProgramInv, ReportRight
  <2>1. Onscreen(Reached)
    BY DEF Progress
  <2>2. PICK p : p = Reached
    OBVIOUS
  <2>3. pc = "hang" => Reached = "hang"
    BY DEF Reached, Effect, AtPoint, Points
  <2>4. QED
    BY <2>1, <2>2, <2>3, ReportOnscreen DEF ReportRight
<1>2. QED
  BY <1>1, AtPointAlways, ProgramInvInit, ProgramInvStep, PTL
     DEF FirmwareSpec

-----------------------------------------------------------------------------
(* The bench.  A clock takes the two programs nearer to their halt: the    *)
(* clocks left to it are a timer that falls at each, and the watchdog is   *)
(* set above what it starts from.                                          *)

\* The accesses a program has still to make after the one of this point.
Later ==
  [banner |-> 13, reset |-> 12, armMod |-> 11, modulus |-> 10, armOp |-> 9,
   operand |-> 8, start |-> 7, poll |-> 6, status |-> 5, read |-> 4,
   label |-> 3, value |-> 2, pass |-> 1, halt |-> 0]

\* The most clocks from one of them to the next, and from the answer to START
\* to the end of the operation.
Period == 3 * (MaxGap + 1)
Latency == 2 * WIDTH + 3

\* Clocks until the access of this point is answered, at the latest.
AccessLeft ==
  (IF ~mem_valid THEN 0 ELSE IF mem_ready THEN 1 ELSE 2)
    + (IF mem_valid /\ mem_req.sel # 0 THEN 0 ELSE 3 * (MaxGap - gap) + 3)

\* Clocks until the program halts, at the latest.  An operation in flight
\* sends the poll round once more at its end.
HaltLeft ==
  Later[pc] * Period
    + (IF pc \in Loading THEN Latency + AccessLeft
       ELSE IF pc = "poll" /\ ACC!ClocksLeft > 0
       THEN ACC!ClocksLeft + Period
       ELSE AccessLeft)

\* Until the bench ends nothing is displayed and the program has not gone
\* past its halt, which it reaches before the watchdog does.
Underway ==
  /\ log = {} /\ pc \in DOMAIN Later /\ ~trap
  /\ AccessLeft \in 1 .. Period
  /\ simio_halt <=> (pc = "halt" /\ Effect)
  /\ ~resetn => /\ cycle_count < ResetEdges
                /\ pc = "banner" /\ gap = 0 /\ ~mem_valid /\ console = <<>>
  /\ resetn => cycle_count + HaltLeft <= ClocksNeeded

\* And it ends with the verdict.
InTime ==
  IF finished THEN Verdict = "PASS" /\ log = {"HALTED"} ELSE Underway

BenchInv ==
  /\ SocInv /\ AtPoint /\ ProgramInv /\ before = 0
  /\ cycle_count \in Nat /\ resetn \in BOOLEAN /\ finished \in BOOLEAN
  /\ fw # "wild" => InTime

-----------------------------------------------------------------------------

\* An operation in flight is a clock nearer to its end after each.
LEMMA SquaringClock ==
  ASSUME Peripheral, Clock(NoWrite)
  PROVE  /\ Squaring => /\ ACC!ClocksLeft \in 1 .. Latency + 1
                        /\ ACC!ClocksLeft' = ACC!ClocksLeft - 1
         /\ Squared => ACC!ClocksLeft = 0 /\ ACC!ClocksLeft' = 0
<1>1. Word \subseteq ACC!Word /\ Word \subseteq ACC!Word
  BY DEF Word, Radix, ACC!Word, ACC!Radix
<1>2. /\ ACC!Clock(NoWrite) /\ ACC!Careful(NoWrite) /\ ACC!TypeOK
      /\ ACC!StatusCoherent
  BY SameClock, SamePeripheral
     DEF Peripheral, ACC!Careful, ACC!IsReset, ACC!IsModulus, ACC!Ctrl,
         NoWrite
<1>3. rd_cnt \in 0 .. WIDTH /\ ml_cnt \in 0 .. WIDTH
  BY DEF Peripheral, ACC!Race
<1>4. ASSUME Squaring
      PROVE  /\ ACC!ClocksLeft > 0 /\ ACC!ClocksLeft <= Latency + 1
             /\ ACC!ClocksLeft \in Nat
             /\ ACC!ClocksLeft' = ACC!ClocksLeft - 1
  <2>1. ACC!ClocksLeft \in Nat /\ ACC!ClocksLeft <= Latency + 1
    BY <1>3, <1>4, WidthAssumption DEF Squaring, ACC!ClocksLeft, Latency
  <2>2. CASE cstate = "C_REDUCE"
    <3>1. ACC!Reducing
      BY <1>4, <2>2 DEF Squaring, ACC!CInv
    <3>2. ACC!ClocksLeft > 1 /\ ACC!ClocksLeft' = ACC!ClocksLeft - 1
      BY <1>1, <1>2, <2>2, <3>1, ACC!ReduceStep, WidthAssumption,
         Pow2Assumption
    <3>3. QED
      BY <2>1, <3>2
  <2>3. CASE cstate = "C_MUL"
    <3>1. ACC!Multiplying
      BY <1>4, <2>3 DEF Squaring, ACC!CInv
    <3>2. \/ ACC!ClocksLeft > 1 /\ ACC!ClocksLeft' = ACC!ClocksLeft - 1
          \/ ACC!ClocksLeft = 1 /\ cstate' = "C_DONE"
      BY <1>1, <1>2, <2>3, <3>1, ACC!MultiplyStep, WidthAssumption,
         Pow2Assumption
    <3>3. cstate' = "C_DONE" => ACC!ClocksLeft' = 0
      BY DEF ACC!ClocksLeft
    <3>4. QED
      BY <2>1, <3>2, <3>3
  <2>4. QED
    BY <1>4, <2>2, <2>3 DEF Squaring
<1>5. ASSUME Squared PROVE ACC!ClocksLeft = 0 /\ ACC!ClocksLeft' = 0
  <2>1. Prepared("status")
    BY <1>5 DEF Prepared, Loading, Reporting
  <2>2. Prepared("status")'
    BY <2>1, NothingTaken
  <2>3. Squared'
    BY <2>2 DEF Prepared, Reporting
  <2>4. QED
    BY <1>5, <2>3 DEF Squared, ACC!ClocksLeft
<1>6. QED
  <2>1. ASSUME NEW c \in Nat, c > 0, c <= Latency + 1
        PROVE  c \in 1 .. Latency + 1
    BY <2>1, WidthAssumption DEF Latency
  <2>2. Squaring => ACC!ClocksLeft \in 1 .. Latency + 1
    BY <1>4, <2>1
  <2>3. QED
    BY <1>4, <1>5, <2>2

\* Each clock brings the access of a point nearer to its answer.
LEMMA AccessStep ==
  ASSUME SocInv, AtPoint, fw # "wild", pc \in Points, FirmwareClock
  PROVE  /\ AccessLeft \in Nat /\ AccessLeft >= 1
         /\ ~Effect => pc' = pc /\ AccessLeft' \in 1 .. AccessLeft - 1
         /\ Effect => AccessLeft = 1 /\ AccessLeft' \in 1 .. Period
<1>1. SocClock /\ pc # "hang"
  BY ProgramClock DEF Points
<1>2. PICK g \in Nat, M \in Nat : g = gap /\ M = MaxGap /\ g <= M
  BY FirmwareAssumption DEF AtPoint
<1>3. Executes
  BY DEF FirmwareClock, RunsWild
<1>4. ~mem_valid => ~Effect
  BY DEF Effect
<1>5. CASE ~mem_valid
  <2>1. MapPhase' # "served"
    BY <1>1, <1>5, PhaseStep DEF MapPhase
  <2>2. mem_valid' => ~mem_ready'
    BY <2>1 DEF MapPhase
  <2>3. AccessLeft = 3 * (M - g) + 3
    BY <1>2, <1>5 DEF AccessLeft
  <2>4. CASE DataAccess
    <3>1. mem_valid' /\ mem_req'.sel # 0 /\ pc' = pc
      BY <1>1, <2>4, AccessOfPoint DEF DataAccess, Ask
    <3>2. AccessLeft' = 2
      BY <2>2, <3>1 DEF AccessLeft
    <3>3. QED
      BY <1>2, <1>4, <1>5, <2>3, <3>1, <3>2
  <2>5. CASE Between
    <3>1. g < M /\ gap' = g + 1 /\ pc' = pc
      BY <1>1, <1>2, <2>5 DEF Between
    <3>2. CASE ~mem_valid'
      <4>1. AccessLeft' = 3 * (M - (g + 1)) + 3
        BY <1>2, <3>1, <3>2, FirmwareAssumption DEF AccessLeft
      <4>2. QED
        BY <1>2, <1>4, <1>5, <2>3, <3>1, <4>1
    <3>3. CASE mem_valid'
      <4>1. PICK r \in RamAccesses : Ask(r)
        BY <1>5, <2>5, <3>3 DEF Between, Quiet, cpuVars
      <4>2. mem_req'.sel = 0
        BY <4>1, FirmwareAssumption DEF Ask
      <4>3. AccessLeft' = 2 + (3 * (M - (g + 1)) + 3)
        BY <1>2, <2>2, <3>1, <3>3, <4>2 DEF AccessLeft
      <4>4. QED
        BY <1>2, <1>4, <1>5, <2>3, <3>1, <4>3
    <3>4. QED
      BY <3>2, <3>3
  <2>6. QED
    BY <1>3, <1>5, <2>4, <2>5 DEF Executes, Waiting, Wait, Answered, Take
<1>6. CASE mem_valid /\ ~mem_ready
  <2>1. Waiting
    BY <1>3, <1>6 DEF Executes, DataAccess, Between, Ask, Quiet, Answered,
       Take
  <2>2. UNCHANGED <<pc, gap, mem_valid, mem_req>>
    BY <2>1 DEF Waiting, Wait, cpuVars
  <2>3. mem_req.sel \in {0, 1, 2}
    BY <1>6, AccessOfPoint DEF AtPoint
  <2>4. MapPhase' = "served"
    BY <1>1, <1>6, <2>3, PhaseStep DEF MapPhase
  <2>5. mem_ready'
    BY <2>4 DEF MapPhase
  <2>6. ~Effect
    BY <1>6 DEF Effect
  <2>7. CASE mem_req.sel = 0
    <3>1. /\ AccessLeft = 2 + (3 * (M - g) + 3)
          /\ AccessLeft' = 1 + (3 * (M - g) + 3)
      BY <1>2, <1>6, <2>2, <2>5, <2>7 DEF AccessLeft
    <3>2. QED
      BY <1>2, <2>2, <2>6, <3>1
  <2>8. CASE mem_req.sel # 0
    <3>1. AccessLeft = 2 /\ AccessLeft' = 1
      BY <1>6, <2>2, <2>5, <2>8 DEF AccessLeft
    <3>2. QED
      BY <2>2, <2>6, <3>1
  <2>9. QED
    BY <2>7, <2>8
<1>7. CASE mem_valid /\ mem_ready
  <2>1. Answered
    BY <1>3, <1>7 DEF Executes, DataAccess, Between, Ask, Quiet, Waiting,
       Wait
  <2>2. ~mem_valid' /\ gap' = gap
    BY <2>1 DEF Answered, Take
  <2>3. AccessLeft' = 3 * (M - g) + 3
    BY <1>2, <2>2, FirmwareAssumption DEF AccessLeft
  <2>4. CASE mem_req.sel = 0
    <3>1. AccessLeft = 1 + (3 * (M - g) + 3)
      BY <1>2, <1>7, <2>4 DEF AccessLeft
    <3>2. pc' = pc /\ ~Effect
      BY <2>1, <2>4 DEF Answered, Effect
    <3>3. QED
      BY <1>2, <2>3, <3>1, <3>2
  <2>5. CASE mem_req.sel # 0
    <3>1. AccessLeft = 1 /\ Effect
      BY <1>7, <2>5 DEF AccessLeft, Effect
    <3>2. Period = 3 * (M + 1)
      BY <1>2 DEF Period
    <3>3. QED
      BY <1>2, <2>3, <3>1, <3>2
  <2>6. QED
    BY <2>4, <2>5
<1>8. QED
  BY <1>5, <1>6, <1>7

\* And each clock but the last brings the program nearer to its halt.
LEMMA HaltStep ==
  ASSUME SocInv, AtPoint, fw # "wild", Progress, FirmwareClock,
         pc \in DOMAIN Later, AccessLeft \in 1 .. Period,
         ~(pc = "halt" /\ Effect)
  PROVE  /\ pc' \in DOMAIN Later /\ AccessLeft' \in 1 .. Period
         /\ HaltLeft \in Nat /\ HaltLeft > 0
         /\ HaltLeft' \in Nat /\ HaltLeft' <= HaltLeft - 1
<1>1. pc \in Points
  BY DEF Later, Points
<1>2. Accelerator /\ Peripheral
  BY ProgramClock DEF SocClock, Devices, FirmwareClock, SocInv
<1>3. PICK P \in Nat, L \in Nat :
        P = Period /\ P > 0 /\ L = Latency
  BY FirmwareAssumption, WidthAssumption DEF Period, Latency
<1>4. PICK a \in Nat, b \in Nat :
        a = AccessLeft /\ b = AccessLeft' /\ 0 < b /\ a <= P /\ b <= P
  BY <1>1, <1>3, AccessStep
<1>5. /\ P \in Nat /\ L \in Nat /\ a \in Nat /\ b \in Nat
       /\ 0 < a /\ a <= P /\ 0 < b /\ b <= P
  BY <1>1, <1>3, <1>4, AccessStep
<1>6. ASSUME ~Effect PROVE b < a
  BY <1>1, <1>3, <1>4, <1>6, AccessStep
<1>7. SUFFICES /\ pc' \in DOMAIN Later
               /\ HaltLeft \in Nat /\ HaltLeft' \in Nat
               /\ HaltLeft' < HaltLeft
  <2>1. AccessLeft' \in 1 .. Period
    BY <1>3, <1>4
  <2>2. \A x, y \in Nat : y < x => x > 0 /\ y <= x - 1
    OBVIOUS
  <2>3. QED
    BY <2>1, <2>2, Zenon
<1>8. ASSUME Effect
      PROVE  mem_req = Accesses[pc] /\ pc' = After(mem_rdata)
  BY <1>1, <1>8
     DEF Effect, AtPoint, FirmwareClock, RunsWild, Executes, DataAccess,
         Between, Ask, Quiet, Waiting, Wait, Answered
<1>9. \/ ~Effect /\ pc' = pc
      \/ Effect /\ pc' = Onward[pc]
      \/ Effect /\ pc = "poll" /\ pc' = "status" /\ Squared
      \/ Effect /\ pc = "status" /\ pc' = "read"
  BY <1>1, <1>8, AccessStep, TakesOnward
<1>10. ASSUME Squaring \/ Squared, Clock(NoWrite)
      PROVE  \E c, d \in Nat :
               /\ c = ACC!ClocksLeft /\ d = ACC!ClocksLeft' /\ c <= L + 1
               /\ c > 0 => d = c - 1
               /\ c = 0 => d = 0 /\ Squared
  <2>1. PICK l \in Nat : l = L + 1 /\ l = Latency + 1
    BY <1>3
  <2>2. \/ ACC!ClocksLeft \in 1 .. l /\ ACC!ClocksLeft' = ACC!ClocksLeft - 1
        \/ ACC!ClocksLeft = 0 /\ ACC!ClocksLeft' = 0 /\ Squared
    BY <1>2, <1>10, <2>1, SquaringClock
  <2>3. QED
    BY <2>1, <2>2
<1>11. CASE pc = "poll"
  <2>1. Reached = "poll"
    BY <1>11 DEF Reached, Onward, Points
  <2>2. Squaring \/ Squared
    BY <2>1 DEF Progress, Prepared
  <2>3. Clock(NoWrite)
    BY <1>2, <1>11, Given, AccessFields DEF AtPoint
  <2>4. PICK c \in Nat, d \in Nat :
          /\ c = ACC!ClocksLeft /\ d = ACC!ClocksLeft' /\ c <= L + 1
          /\ c > 0 => d = c - 1
          /\ c = 0 => d = 0 /\ Squared
    BY <1>10, <2>2, <2>3
  <2>5. c \in Nat /\ d \in Nat /\ (c > 0 => d = c - 1) /\ (c = 0 => d = 0)
    BY <2>4
  <2>6. HaltLeft = 6 * P + (IF c > 0 THEN c + P ELSE a)
    BY <1>3, <1>4, <1>11, <2>4 DEF HaltLeft, Later, Loading
  <2>7. CASE pc' = "poll"
    <3>1. HaltLeft' = 6 * P + (IF d > 0 THEN d + P ELSE b)
      BY <1>3, <1>4, <2>4, <2>7 DEF HaltLeft, Later, Loading
    <3>2. ASSUME c = 0, Effect PROVE FALSE
      <4>1. Prepared(pc)
        BY <1>11, <2>1 DEF Progress
      <4>2. ~Busy(mem_rdata)
        BY <1>2, <1>8, <1>11, <2>4, <3>2, <4>1, WhatIsRead
      <4>3. pc' = "status"
        BY <1>8, <1>11, <3>2, <4>2 DEF After
      <4>4. QED
        BY <2>7, <4>3
    <3>3. c > 0 \/ b < a
      BY <1>6, <2>5, <3>2
    <3>4. LET x == 6 * P + (IF c > 0 THEN c + P ELSE a)
               y == 6 * P + (IF d > 0 THEN d + P ELSE b)
           IN  x \in Nat /\ y \in Nat /\ y < x
      BY <1>5, <2>5, <3>3
    <3>5. QED
      BY <2>6, <2>7, <3>1, <3>4 DEF Later
  <2>8. CASE pc' = "status"
    <3>1. HaltLeft' = 5 * P + b
      BY <1>3, <1>4, <2>8 DEF HaltLeft, Later, Loading
    <3>2. LET x == 6 * P + (IF c > 0 THEN c + P ELSE a)
              y == 5 * P + b
          IN  x \in Nat /\ y \in Nat /\ y < x
      BY <1>5, <2>5
    <3>3. QED
      BY <2>6, <2>8, <3>1, <3>2 DEF Later
  <2>9. QED
    BY <1>9, <1>11, <2>7, <2>8 DEF Onward, Points
<1>12. CASE pc \in Loading
  <2>1. PICK k \in Nat : k = Later[pc] /\ k >= 7
    BY <1>12 DEF Loading, Later
  <2>2. HaltLeft = k * P + (L + a) /\ k * P \in Nat
    BY <1>3, <1>4, <1>12, <2>1 DEF HaltLeft
  <2>3. CASE ~Effect /\ pc' = pc
    <3>1. HaltLeft' = k * P + (L + b)
      BY <1>3, <1>4, <1>12, <2>1, <2>3 DEF HaltLeft
    <3>2. PICK q \in Nat : q = k * P
      BY <2>2
    <3>3. b < a
      BY <1>6, <2>3
    <3>4. LET x == q + (L + a)
              y == q + (L + b)
          IN  x \in Nat /\ y \in Nat /\ y < x
      BY <1>5, <3>3
    <3>5. QED
      BY <2>2, <2>3, <3>1, <3>2, <3>4
  <2>4. CASE Effect /\ pc' = Onward[pc] /\ pc # "start"
    <3>1. pc' \in Loading /\ pc' \in DOMAIN Later /\ k = Later[pc'] + 1
      BY <1>12, <2>1, <2>4 DEF Loading, Later, Onward, Points, Following
    <3>2. PICK j \in Nat : j = Later[pc'] /\ k = j + 1
      BY <2>1, <3>1 DEF Loading, Later
    <3>3. HaltLeft' = j * P + (L + b)
      BY <1>3, <1>4, <3>1, <3>2 DEF HaltLeft
    <3>4. PICK q \in Nat : q = j * P /\ k * P = q + P
      BY <3>2
    <3>5. LET x == (q + P) + (L + a)
              y == q + (L + b)
          IN  x \in Nat /\ y \in Nat /\ y < x
      BY <1>5
    <3>6. QED
      BY <2>2, <3>1, <3>3, <3>4, <3>5
  <2>5. CASE Effect /\ pc' = Onward[pc] /\ pc = "start"
    <3>1. pc' = "poll" /\ Reached = "poll" /\ k = 7
      BY <2>1, <2>5 DEF Onward, Points, Following, Reached, Later
    <3>2. Squaring \/ Squared
      BY <3>1 DEF Progress, Prepared
    <3>3. Clock(NoWrite)
      BY <1>2, <2>5, Given DEF Effect
    <3>4. PICK d \in Nat : d = ACC!ClocksLeft' /\ d <= L
      <4>1. PICK c \in Nat, d \in Nat :
              /\ d = ACC!ClocksLeft' /\ c <= L + 1
              /\ (c > 0 => d = c - 1) /\ (c = 0 => d = 0)
        BY <1>10, <3>2, <3>3
      <4>2. d <= L
        BY <4>1
      <4>3. QED
        BY <4>1, <4>2
    <3>5. d \in Nat /\ d <= L
      BY <3>4
    <3>6. HaltLeft' = 6 * P + (IF d > 0 THEN d + P ELSE b)
      BY <1>3, <1>4, <3>1, <3>4 DEF HaltLeft, Later, Loading
    <3>7. LET x == 7 * P + (L + a)
              y == 6 * P + (IF d > 0 THEN d + P ELSE b)
          IN  x \in Nat /\ y \in Nat /\ y < x
      BY <1>5, <3>5
    <3>8. QED
      BY <2>2, <3>1, <3>6, <3>7 DEF Later
  <2>6. QED
    BY <1>9, <1>12, <2>3, <2>4, <2>5 DEF Loading
<1>13. CASE pc \in {"status", "read", "label", "value", "pass", "halt"}
  <2>1. PICK k \in Nat : k = Later[pc]
    BY <1>13 DEF Later
  <2>2. HaltLeft = k * P + a /\ k * P \in Nat
    BY <1>3, <1>4, <1>13, <2>1 DEF HaltLeft, Loading
  <2>3. CASE ~Effect /\ pc' = pc
    <3>1. HaltLeft' = k * P + b
      BY <1>3, <1>4, <1>13, <2>1, <2>3 DEF HaltLeft, Loading
    <3>2. PICK q \in Nat : q = k * P
      BY <2>2
    <3>3. b < a
      BY <1>6, <2>3
    <3>4. LET x == q + a
              y == q + b
          IN  x \in Nat /\ y \in Nat /\ y < x
      BY <1>5, <3>3
    <3>5. QED
      BY <2>2, <2>3, <3>1, <3>2, <3>4
  <2>4. CASE Effect /\ pc # "halt"
    <3>1. pc' \in {"read", "label", "value", "pass", "halt"} \/ pc' = "status"
      BY <1>9, <1>13, <2>4 DEF Onward, Points, Following
    <3>2. pc = "status" => pc' = "read"
      <4>1. ASSUME pc = "status" PROVE pc' = "read"
        <5>1. Prepared(pc)
          BY <2>4, <4>1 DEF Progress, Reached, Onward, Points
        <5>2. StatusOk(mem_rdata)
          BY <1>2, <1>8, <2>4, <4>1, <5>1, WhatIsRead
        <5>3. QED
          BY <1>8, <2>4, <4>1, <5>2 DEF After
      <4>2. QED
        BY <4>1
    <3>3. PICK j \in Nat : j = Later[pc'] /\ k = j + 1
      BY <1>9, <1>13, <2>1, <2>4, <3>1, <3>2
         DEF Later, Onward, Points, Following
    <3>4. pc' \in DOMAIN Later /\ pc' \notin Loading /\ pc' # "poll"
      BY <3>1 DEF Later, Loading
    <3>5. HaltLeft' = j * P + b
      BY <1>3, <1>4, <3>3, <3>4 DEF HaltLeft
    <3>6. PICK q \in Nat : q = j * P /\ k * P = q + P
      BY <3>3
    <3>7. LET x == (q + P) + a
              y == q + b
          IN  x \in Nat /\ y \in Nat /\ y < x
      BY <1>5
    <3>8. QED
      BY <2>2, <3>4, <3>5, <3>6, <3>7
  <2>5. QED
    BY <1>9, <2>3, <2>4
<1>14. QED
  BY <1>11, <1>12, <1>13 DEF Later, Loading

\* An access outside the RAM takes effect in the clock after it was asked
\* for, and the program waits for it.
LEMMA EffectStep ==
  ASSUME SocInv, AtPoint, fw # "wild", FirmwareClock
  PROVE  /\ Effect' => mem_valid /\ ~mem_ready /\ mem_req.sel # 0
         /\ mem_valid /\ ~mem_ready /\ mem_req.sel # 0 => Effect'
         /\ ~Effect => pc' = pc
<1>1. SocClock
  BY ProgramClock
<1>2. CASE ~mem_valid
  <2>1. MapPhase' # "served"
    BY <1>1, <1>2, PhaseStep DEF MapPhase
  <2>2. ~Effect'
    BY <2>1 DEF Effect, MapPhase
  <2>3. pc' = pc
    BY <1>2 DEF FirmwareClock, RunsWild, Executes, DataAccess, Between,
       Waiting, Answered, Take
  <2>4. QED
    BY <1>2, <2>2, <2>3
<1>3. CASE mem_valid /\ ~mem_ready
  <2>1. pc' = pc
    BY <1>3 DEF FirmwareClock, RunsWild, Executes, DataAccess, Between,
       Waiting, Answered, Take
  <2>2. /\ mem_req' = mem_req
        /\ MapPhase' = IF mem_req.sel \in {0, 1, 2} THEN "served"
                       ELSE "asked"
    BY <1>1, <1>3, PhaseStep DEF MapPhase
  <2>3. mem_req.sel \in {0, 1, 2}
    BY <1>3, AccessOfPoint DEF AtPoint
  <2>4. mem_req.sel # 0 => Effect'
    BY <2>2, <2>3 DEF Effect, MapPhase
  <2>5. Effect' => mem_req.sel # 0
    BY <2>2 DEF Effect
  <2>6. QED
    BY <1>3, <2>1, <2>4, <2>5
<1>4. CASE mem_valid /\ mem_ready
  <2>1. MapPhase' = "idle"
    BY <1>1, <1>4, PhaseStep DEF MapPhase
  <2>2. ~Effect'
    BY <2>1 DEF Effect, MapPhase
  <2>3. ~Effect => pc' = pc
    BY <1>4 DEF Effect, FirmwareClock, RunsWild, Executes, DataAccess,
       Between, Ask, Quiet, Waiting, Wait, Answered
  <2>4. QED
    BY <1>4, <2>2, <2>3
<1>5. QED
  BY <1>2, <1>3, <1>4

\* Of a program's accesses only the last raises simio_halt, as it takes
\* effect.
LEMMA HaltWritten ==
  ASSUME SocInv, AtPoint, fw # "wild", FirmwareClock, ~simio_halt
  PROVE  simio_halt' <=> (pc' = "halt" /\ Effect')
<1>1. RamData /\ SimioData
  BY ProgramClock DEF SocClock, Devices
<1>2. SocInv'
  BY ProgramClock, SocClockStep
<1>3. simio_halt' \in BOOLEAN
  BY <1>2 DEF SocInv, SocTypeOK
<1>4. CASE mem_valid /\ ~mem_ready /\ mem_req.sel # 0
  <2>1. Effect' /\ pc' = pc
    BY <1>4, EffectStep DEF Effect
  <2>2. pc \in Points /\ mem_req = Accesses[pc] /\ mem_req.sel \in {1, 2}
    BY <1>4, AccessOfPoint DEF AtPoint
  <2>3. CASE pc = "halt"
    <3>1. mem_req.sel = 1 /\ Writes(mem_req) /\ mem_req.wdata = HALT
      BY <2>2, <2>3, AccessFields DEF Accesses, Store
    <3>2. simio_halt'
      BY <1>1, <1>4, <3>1, Unreset
    <3>3. QED
      BY <2>1, <2>3, <3>2
  <2>4. CASE pc # "halt"
    <3>1. mem_req.sel = 1 => mem_req.wdata \in 1 .. 5
      BY <2>2, <2>4 DEF Points, Accesses, PrintLine, WriteCtrl, Store, Load,
         Text
    <3>2. HALT \notin 1 .. 5
      BY SixteenWords DEF HALT
    <3>3. UNCHANGED simio_halt
      BY <1>1, <1>4, <2>2, <3>1, <3>2, Unreset
    <3>4. QED
      BY <2>1, <2>4, <3>3
  <2>5. QED
    BY <2>3, <2>4
<1>5. CASE ~(mem_valid /\ ~mem_ready /\ mem_req.sel # 0)
  <2>1. ~Effect'
    BY <1>5, EffectStep
  <2>2. UNCHANGED simio_halt
    BY <1>1, <1>5, Unreset
  <2>3. QED
    BY <2>1, <2>2
<1>6. QED
  BY <1>4, <1>5

\* Once it has halted, PASS is on the console, and stays there for the clock
\* in which the bench looks.
LEMMA HaltedPasses ==
  ASSUME SocInv, AtPoint, Progress, before = 0, FirmwareClock,
         pc = "halt", Effect
  PROVE  (Verdict = "PASS")'
<1>1. Reached = "hang"
  BY DEF Reached, Onward, Following, Points
<1>2. console \in Seq(Word) /\ Len(console) = 4 /\ console[4] = Text.PASS
  BY <1>1 DEF Progress, Onscreen, LinesAt, Report
<1>3. UNCHANGED console
  BY ProgramClock, Unreset DEF SocClock, Devices, Effect
<1>4. 4 \in DOMAIN console
  BY <1>2
<1>5. Printed(Text.PASS)'
  BY <1>2, <1>3, <1>4 DEF Printed
<1>6. QED
  BY <1>5 DEF Verdict

\* A clock of the bench while an integration program runs: it ends with PASS
\* in the clock after the halt, and only then.
LEMMA BenchClock ==
  ASSUME BenchInv, fw # "wild", ~finished, Watch, Runs
  PROVE  InTime'
<1>1. SocInv /\ AtPoint /\ Progress /\ Underway /\ FirmwareClock /\ before = 0
  BY DEF BenchInv, ProgramInv, InTime, Runs
<1>2. resetn /\ resetn' /\ ~trap /\ log = {} /\ pc \in DOMAIN Later
  BY <1>1 DEF Runs, Underway
<1>3. ~trap'
  BY <1>2 DEF Runs
<1>4. PICK n \in Nat, N \in Nat :
        n = cycle_count /\ cycle_count' = n + 1 /\ N = ClocksNeeded
  BY BenchAssumption, FirmwareAssumption, WidthAssumption
     DEF BenchInv, Watch, CountClock, ClocksNeeded
<1>5. CASE simio_halt
  <2>1. pc = "halt" /\ Effect
    BY <1>1, <1>5 DEF Underway
  <2>2. (Verdict = "PASS")'
    BY <1>1, <2>1, HaltedPasses
  <2>3. HaltLeft = 1
    <3>1. AccessLeft = 1
      BY <1>1, <2>1, AccessStep DEF Points
    <3>2. Period \in Nat
      BY FirmwareAssumption DEF Period
    <3>3. QED
      BY <2>1, <3>1, <3>2 DEF HaltLeft, Later, Loading
  <2>4. ~(cycle_count >= CYCLES)
    BY <1>1, <1>2, <1>4, <2>3, BenchAssumption, WatchdogAssumption
       DEF Underway
  <2>5. Displays = {"HALTED"}
    BY <1>2, <1>5, <2>4 DEF Displays
  <2>6. log' = {"HALTED"} /\ finished'
    BY <1>2, <2>5 DEF Watch
  <2>7. QED
    BY <2>2, <2>6 DEF InTime
<1>6. CASE ~simio_halt
  <2>1. ~(pc = "halt" /\ Effect)
    BY <1>1, <1>6 DEF Underway
  <2>2. /\ pc' \in DOMAIN Later /\ AccessLeft' \in 1 .. Period
        /\ HaltLeft \in Nat /\ HaltLeft > 0
        /\ HaltLeft' \in Nat /\ HaltLeft' <= HaltLeft - 1
    BY <1>1, <1>2, <2>1, HaltStep DEF Underway
  <2>3. PICK h \in Nat, k \in Nat :
          h = HaltLeft /\ k = HaltLeft' /\ 0 < h /\ k <= h - 1
    BY <2>2
  <2>4. n + h <= N
    BY <1>1, <1>2, <1>4, <2>3 DEF Underway
  <2>5. (n + 1) + k <= N /\ n < N
    <3>1. 0 < h /\ k <= h - 1
      BY <2>3
    <3>2. QED
      BY <2>4, <3>1
  <2>6. ~(cycle_count >= CYCLES)
    BY <1>4, <2>5, BenchAssumption, WatchdogAssumption
  <2>7. Displays = {}
    BY <1>2, <1>6, <2>6 DEF Displays
  <2>8. log' = {} /\ ~finished'
    BY <1>2, <2>7 DEF Watch
  <2>9. simio_halt' <=> (pc' = "halt" /\ Effect')
    BY <1>1, <1>6, HaltWritten
  <2>10. Underway'
    BY <1>2, <1>3, <1>4, <2>2, <2>3, <2>5, <2>8, <2>9
       DEF Underway, ClocksNeeded
  <2>11. QED
    BY <2>8, <2>10 DEF InTime
<1>7. QED
  BY <1>5, <1>6

\* A clock of the bench with resetn low: it holds the program at its start.
LEMMA BenchReset ==
  ASSUME BenchInv, fw # "wild", ~finished, Watch, InReset
  PROVE  ProgramInv' /\ InTime'
<1>1. /\ SocInv /\ AtPoint /\ Progress /\ Underway /\ SocReset /\ before = 0
      /\ ~resetn /\ UNCHANGED <<fwVars, trap>>
  BY DEF BenchInv, ProgramInv, InTime, InReset
<1>2. /\ ~mem_valid /\ pc = "banner" /\ gap = 0 /\ console = <<>>
      /\ log = {} /\ ~trap /\ cycle_count < ResetEdges
  BY <1>1 DEF Underway
<1>3. UNCHANGED <<pc, gap, fw, before, trap, answer>> /\ ~mem_valid'
  BY <1>1 DEF fwVars, SocReset
<1>4. UNCHANGED <<console, simio_halt>>
  BY <1>1, <1>2, Unreset DEF SocReset
<1>5. Progress'
  <2>1. cstate' = "C_IDLE" /\ ACC!AtRest'
    BY <1>1 DEF SocReset, WrapReset, HardReset, u_redmod!Reset,
       u_mulmod!Reset, ACC!AtRest, ACC!RedFree, ACC!RedIdle, ACC!MulFree,
       ACC!MulIdle
  <2>2. Prepared("banner")'
    BY <2>1 DEF Prepared, Loading, Reporting
  <2>3. Onscreen("banner")'
    BY <1>1, <1>2, <1>3, <1>4 DEF Onscreen, LinesAt
  <2>4. Reached' = "banner"
    BY <1>2, <1>3 DEF Reached, Effect
  <2>5. QED
    BY <1>2, <1>3, <2>2, <2>3, <2>4 DEF Progress
<1>6. PICK M \in Nat, W \in Nat, C \in Nat, E \in Nat, n \in Nat :
        /\ M = MaxGap /\ W = WIDTH /\ C = CYCLES /\ E = ResetEdges
        /\ n = cycle_count /\ cycle_count' = n + 1 /\ n < E
  BY <1>2, FirmwareAssumption, WidthAssumption, BenchAssumption
     DEF BenchInv, Watch, CountClock
<1>7. AccessLeft' = 3 * (M - 0) + 3 /\ Period = 3 * (M + 1)
  BY <1>2, <1>3, <1>6 DEF AccessLeft, Period
<1>8. HaltLeft' = 13 * Period + (Latency + AccessLeft')
  BY <1>2, <1>3 DEF HaltLeft, Later, Loading
<1>9. ClocksNeeded = E + 14 * (3 * (M + 1)) + (2 * W + 3)
  BY <1>6 DEF ClocksNeeded
<1>10. n + 1 + (13 * (3 * (M + 1)) + ((2 * W + 3) + (3 * (M - 0) + 3)))
         <= E + 14 * (3 * (M + 1)) + (2 * W + 3)
  <2>1. n < E
    BY <1>6
  <2>2. QED
    BY <2>1
<1>11. cycle_count' + HaltLeft' <= ClocksNeeded
  BY <1>6, <1>7, <1>8, <1>9, <1>10 DEF Latency
<1>12. AccessLeft' \in 1 .. Period
  <2>1. 3 * (M - 0) + 3 \in 1 .. 3 * (M + 1)
    OBVIOUS
  <2>2. QED
    BY <1>7, <2>1
<1>13. ~resetn' => cycle_count' < ResetEdges
  <2>1. resetn' \in {n + 1 >= E, n + 2 >= E}
    BY <1>6 DEF InReset
  <2>2. n + 1 >= E => (n + 1 >= E) = TRUE /\ (n + 2 >= E) = TRUE
    OBVIOUS
  <2>3. ~resetn' => ~(n + 1 >= E)
    <3>1. n + 1 >= E => resetn' \in {TRUE}
      BY <2>1, <2>2
    <3>2. QED
      BY <3>1
  <2>4. ~(n + 1 >= E) => n + 1 < E
    OBVIOUS
  <2>5. QED
    BY <1>6, <2>3, <2>4
<1>14. ~(cycle_count >= CYCLES)
  <2>1. E + 14 * (3 * (M + 1)) + (2 * W + 3) <= C
    BY <1>6, <1>9, WatchdogAssumption
  <2>2. n < E
    BY <1>6
  <2>3. n < C
    BY <2>1, <2>2
  <2>4. QED
    BY <1>6, <2>3
<1>15. Displays = {}
  BY <1>1, <1>14 DEF Displays
<1>16. log' = {} /\ ~finished'
  BY <1>2, <1>15 DEF Watch
<1>17. ~simio_halt' /\ ~Effect'
  BY <1>1, <1>2, <1>3, <1>4 DEF Effect, Underway
<1>18. Underway'
  BY <1>2, <1>3, <1>4, <1>11, <1>12, <1>13, <1>16, <1>17
     DEF Underway, Later, ClocksNeeded, Period
<1>19. QED
  BY <1>5, <1>16, <1>18 DEF ProgramInv, InTime

\* The bench starts with the whole of the time the programs need.
LEMMA BenchInvInit == BenchInit => BenchInv
<1> SUFFICES ASSUME BenchInit PROVE BenchInv
  OBVIOUS
<1>1. SocInv /\ AtPoint /\ ProgramInv
  BY SocInvInit, AtPointInit, ProgramInvInit DEF BenchInit, FirmwareInit
<1>2. /\ before = 0 /\ cycle_count = 0 /\ resetn = FALSE /\ finished = FALSE
      /\ log = {} /\ trap = FALSE /\ ~mem_valid /\ pc = "banner" /\ gap = 0
      /\ ~simio_halt /\ console = <<>>
  BY DEF BenchInit, FirmwareInit, SocInit
<1>3. PICK M \in Nat : M = MaxGap
  BY FirmwareAssumption
<1>4. AccessLeft = 3 * (M - 0) + 3 /\ Period = 3 * (M + 1)
  BY <1>2, <1>3 DEF AccessLeft, Period
<1>5. AccessLeft \in 1 .. Period
  <2>1. 3 * (M - 0) + 3 \in 1 .. 3 * (M + 1)
    OBVIOUS
  <2>2. QED
    BY <1>4, <2>1
<1>6. 0 < ResetEdges
  BY BenchAssumption
<1>7. Underway
  BY <1>2, <1>5, <1>6 DEF Underway, Later, Effect
<1>8. QED
  BY <1>1, <1>2, <1>7 DEF BenchInv, InTime

\* A clock of the bench is one of the SoC, run by its program or in reset.
LEMMA BenchOnSoc ==
  BenchInv /\ [BenchNext]_benchVars => [SocNext]_socVars /\ (SocInv /\ AtPoint)'
<1>1. ASSUME BenchInv, UNCHANGED benchVars
      PROVE  UNCHANGED socVars /\ (SocInv /\ AtPoint)'
  BY <1>1, SocInvStep, AtPointStep DEF BenchInv, benchVars, firmwareVars
<1>2. ASSUME BenchInv, InReset PROVE SocReset /\ (SocInv /\ AtPoint)'
  <2>1. SocReset /\ ~mem_valid' /\ UNCHANGED fwVars
    BY <1>2 DEF InReset, SocReset
  <2>2. AtPoint'
    BY <1>2, <2>1 DEF BenchInv, AtPoint, fwVars
  <2>3. QED
    BY <1>2, <2>1, <2>2, SocResetStep DEF BenchInv
<1>3. ASSUME BenchInv, Runs PROVE SocClock /\ (SocInv /\ AtPoint)'
  BY <1>3, ProgramClock, SocClockStep DEF BenchInv, Runs
<1>4. QED
  BY <1>1, <1>2, <1>3 DEF BenchNext, SocNext

\* What the bench has displayed, and what is left to do, is as it was while
\* nothing happens.
LEMMA InTimeKept ==
  ASSUME InTime, UNCHANGED benchVars
  PROVE  InTime'
<1>1. /\ UNCHANGED <<accelVars, cpuVars, busVars, fwVars>>
      /\ UNCHANGED <<resetn, cycle_count, trap, log, finished>>
  BY DEF benchVars, firmwareVars, socVars
<1>2. UNCHANGED <<AccessLeft, HaltLeft, Effect, Verdict>>
  <2>1. UNCHANGED mem_ready
    BY <1>1 DEF mem_ready, sel_ram, sel_simio, sel_accel, cpuVars, busVars
  <2>2. UNCHANGED <<AccessLeft, Effect>>
    BY <1>1, <2>1 DEF AccessLeft, Effect, cpuVars, fwVars
  <2>3. UNCHANGED ACC!ClocksLeft
    BY <1>1 DEF ACC!ClocksLeft, accelVars, commandVars, pipelineVars, rdVars,
       mlVars
  <2>4. UNCHANGED HaltLeft
    BY <1>1, <2>2, <2>3 DEF HaltLeft, fwVars
  <2>5. UNCHANGED Verdict
    BY <1>1 DEF Verdict, Printed, busVars
  <2>6. QED
    BY <2>2, <2>4, <2>5
<1>3. QED
  BY <1>1, <1>2
     DEF InTime, Underway, ClocksNeeded, Period, cpuVars, busVars, fwVars

\* The account of the time that is left is kept by every step of the bench.
LEMMA BenchInvStep == BenchInv /\ [BenchNext]_benchVars => BenchInv'
<1>1. ASSUME BenchInv, UNCHANGED benchVars PROVE BenchInv'
  <2>1. /\ UNCHANGED <<fw, before>> /\ UNCHANGED firmwareVars
        /\ UNCHANGED <<resetn, cycle_count, finished>>
    BY <1>1 DEF benchVars, firmwareVars, fwVars
  <2>2. SocInv' /\ AtPoint' /\ ProgramInv'
    BY <1>1, <2>1, BenchOnSoc, ProgramInvStep DEF BenchInv
  <2>3. QED
    BY <1>1, <2>1, <2>2, InTimeKept DEF BenchInv
<1>2. ASSUME BenchInv, ~finished, Watch, Runs PROVE BenchInv'
  <2>1. FirmwareClock /\ UNCHANGED <<fw, before>>
    BY <1>2 DEF Runs, FirmwareClock
  <2>2. SocInv' /\ AtPoint' /\ ProgramInv'
    BY <1>2, <2>1, BenchOnSoc, ProgramInvStep
       DEF BenchInv, BenchNext, FirmwareNext
  <2>3. resetn' \in BOOLEAN /\ finished' \in BOOLEAN /\ cycle_count' \in Nat
    BY <1>2 DEF BenchInv, Runs, Watch, CountClock
  <2>4. QED
    BY <1>2, <2>1, <2>2, <2>3, BenchClock DEF BenchInv
<1>3. ASSUME BenchInv, ~finished, Watch, InReset PROVE BenchInv'
  <2>1. UNCHANGED <<fw, before>>
    BY <1>3 DEF InReset, fwVars
  <2>2. SocInv' /\ AtPoint'
    BY <1>3, BenchOnSoc DEF BenchNext
  <2>3. resetn' \in BOOLEAN /\ finished' \in BOOLEAN /\ cycle_count' \in Nat
    <3>1. cycle_count' \in Nat
      BY <1>3 DEF BenchInv, Watch, CountClock
    <3>2. finished' \in BOOLEAN
      BY <1>3 DEF Watch
    <3>3. resetn' \in BOOLEAN
      <4>1. PICK x \in Nat, y \in Nat : x = cycle_count /\ y = ResetEdges
        BY <1>3, BenchAssumption DEF BenchInv
      <4>2. (x + 1 >= y) \in BOOLEAN /\ (x + 2 >= y) \in BOOLEAN
        OBVIOUS
      <4>3. QED
        BY <1>3, <4>1, <4>2 DEF InReset
    <3>4. QED
      BY <3>1, <3>2, <3>3
  <2>4. fw # "wild" => ProgramInv' /\ InTime'
    BY <1>3, BenchReset
  <2>5. QED
    BY <1>3, <2>1, <2>2, <2>3, <2>4 DEF BenchInv, ProgramInv
<1>4. QED
  BY <1>1, <1>2, <1>3 DEF BenchNext

\* Whenever the bench ends with one of the two integration programs in the
\* RAM, it is by the program's own halt and with PASS on the console: never
\* by the watchdog, by a trap or with FAIL, at whatever speed the processor
\* runs within its bound and in whichever order the simulator raises resetn.
THEOREM IntegrationCorrect == BenchSpec => []IntegrationPasses
<1>1. BenchInv => IntegrationPasses
  BY DEF BenchInv, InTime, IntegrationPasses
<1>2. QED
  BY <1>1, BenchInvInit, BenchInvStep, PTL DEF BenchSpec

\* Either integration program has halted, and the bench has ended, within
\* ClocksNeeded: a bound in the number of its accesses, in how far apart they
\* are and in WIDTH, whatever time the watchdog leaves beyond that.
THEOREM ProgramsInTime == BenchSpec => []HaltsInTime
<1>1. BenchInv => HaltsInTime
  <2> SUFFICES ASSUME BenchInv, fw # "wild", ~finished
               PROVE  cycle_count < ClocksNeeded
    BY DEF HaltsInTime
  <2>1. SocInv /\ Underway
    BY DEF BenchInv, InTime
  <2>2. PICK M \in Nat, W \in Nat, E \in Nat, n \in Nat :
          M = MaxGap /\ W = WIDTH /\ E = ResetEdges /\ n = cycle_count
    BY FirmwareAssumption, WidthAssumption, BenchAssumption DEF BenchInv
  <2>3. ClocksNeeded = E + 14 * (3 * (M + 1)) + (2 * W + 3)
    BY <2>2 DEF ClocksNeeded
  <2>4. PICK N \in Nat : N = ClocksNeeded /\ E <= N
    BY <2>3
  <2>5. CASE ~resetn
    <3>1. n < E
      BY <2>1, <2>2, <2>5 DEF Underway
    <3>2. QED
      BY <2>2, <2>4, <3>1
  <2>6. CASE resetn
    <3>1. PICK k \in Nat, P \in Nat, L \in Nat, a \in Nat :
            /\ k = Later[pc] /\ P = Period /\ L = Latency /\ a = AccessLeft
            /\ 0 < a /\ 0 < P
      BY <2>1, <2>2 DEF Underway, Later, Period, Latency
    <3>2. PICK c \in Nat : c = ACC!ClocksLeft
      <4>1. rd_cnt \in 0 .. WIDTH /\ ml_cnt \in 0 .. WIDTH
        BY <2>1 DEF SocInv, Peripheral, ACC!Race
      <4>2. ACC!ClocksLeft \in Nat
        BY <4>1, WidthAssumption DEF ACC!ClocksLeft
      <4>3. QED
        BY <4>2
    <3>3. PICK q \in Nat : q = k * P
      OBVIOUS
    <3>4. HaltLeft \in {q + (L + a), q + (c + P), q + a}
      BY <3>1, <3>2, <3>3 DEF HaltLeft
    <3>5. PICK h \in Nat : h = HaltLeft /\ h > 0
      <4>1. 0 < a /\ 0 < P
        BY <3>1
      <4>2. \A h \in {q + (L + a), q + (c + P), q + a} : h \in Nat /\ h > 0
        BY <4>1
      <4>3. QED
        BY <3>4, <4>2
    <3>6. n + h <= N /\ 0 < h
      BY <2>1, <2>2, <2>4, <2>6, <3>5 DEF Underway
    <3>7. n < N
      BY <3>6
    <3>8. QED
      BY <2>2, <2>4, <3>7
  <2>7. QED
    BY <2>1, <2>5, <2>6 DEF BenchInv
<1>2. QED
  BY <1>1, BenchInvInit, BenchInvStep, PTL DEF BenchSpec

\* What the bench drives is the SoC: it keeps its memory map there too, also
\* with any other program and when the processor traps.
THEOREM BenchOnMap == BenchSpec => MapSpec
<1>1. BenchInit => SocInit
  BY DEF BenchInit, FirmwareInit
<1>2. BenchSpec => SocSpec
  BY <1>1, BenchInvInit, BenchInvStep, BenchOnSoc, PTL DEF BenchSpec, SocSpec
<1>3. QED
  BY <1>2, MapImplemented

=============================================================================
