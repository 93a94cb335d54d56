---------------------------- MODULE WordsProofs ----------------------------
(***************************************************************************)
(* Arithmetic the proofs share: remainders that are known, what the word   *)
(* operators of Words return, and induction over a range of numbers.       *)
(***************************************************************************)
EXTENDS Words, FiniteSetTheorems, TLAPS

\* A number below the modulus is its own remainder.
LEMMA ModBelow ==
  ASSUME NEW n \in Nat, NEW x \in Nat, x < n
  PROVE  x % n = x
OBVIOUS

\* A remainder is recognised by being reduced and congruent.
LEMMA ModUnique ==
  ASSUME NEW m \in Nat, m > 0, NEW r \in Nat, r < m, NEW q \in Nat
  PROVE  (q * m + r) % m = r
OBVIOUS

\* A remainder is a natural number below the modulus, and a quotient exists.
LEMMA ModFacts ==
  ASSUME NEW m \in Nat, m > 0, NEW x \in Nat
  PROVE  /\ x % m \in Nat /\ x % m < m
         /\ \E q \in Nat : x = q * m + (x % m)
<1>1. x % m \in Nat /\ x % m < m
  OBVIOUS
<1>2. x \div m \in Nat
  OBVIOUS
<1>3. x = (x \div m) * m + (x % m)
  OBVIOUS
<1>4. QED
  BY <1>1, <1>2, <1>3

\* Squaring the remainder is squaring the number: what lets the accelerator
\* reduce its operand before it multiplies.
LEMMA SquareOfRemainder ==
  ASSUME NEW m \in Nat, m > 0, NEW x \in Nat
  PROVE  ((x % m) * (x % m)) % m = (x * x) % m
<1>1. PICK r \in Nat : r = x % m
  BY ModFacts
<1>2. PICK q \in Nat : x = q * m + r
  BY <1>1, ModFacts
<1>3. r * r \in Nat
  OBVIOUS
<1>4. PICK s \in Nat : s = (r * r) % m /\ s < m
  BY <1>3, ModFacts
<1>5. PICK k \in Nat : r * r = k * m + s
  BY <1>3, <1>4, ModFacts
<1> DEFINE c == q * q * m + 2 * q * r + k
<1>6. c \in Nat
  OBVIOUS
<1>7. x * x = c * m + s
  <2>1. x * x = (q * m + r) * (q * m + r)
    BY <1>2
  <2>2. (q * m + r) * (q * m + r) = (q * q * m + 2 * q * r) * m + r * r
    OBVIOUS
  <2>3. (q * q * m + 2 * q * r) * m + (k * m + s) = c * m + s
    OBVIOUS
  <2>4. QED
    BY <1>5, <2>1, <2>2, <2>3
<1> HIDE DEF c
<1>8. (c * m + s) % m = s
  BY <1>4, <1>6, ModUnique
<1>9. QED
  BY <1>1, <1>4, <1>7, <1>8

\* The product of a number that has been doubled and extended.
LEMMA DoubledProduct ==
  ASSUME NEW x \in Nat, NEW y \in Nat, NEW z \in Nat
  PROVE  /\ x * z \in Nat /\ y * z \in Nat
         /\ (2 * x + y) * z = 2 * (x * z) + y * z
OBVIOUS

\* The radixes in terms of each other and of the weight of the top bit.
LEMMA RadixFacts ==
  /\ Radix \in Nat /\ Radix > 0
  /\ WideRadix \in Nat /\ WideRadix = 2 * Radix
  /\ Pow2[WIDTH - 1] \in Nat /\ Radix = 2 * Pow2[WIDTH - 1]
<1>1. /\ WIDTH \in 0 .. WIDTH + 1
      /\ WIDTH + 1 \in 0 .. WIDTH + 1
      /\ WIDTH - 1 \in 0 .. WIDTH
      /\ WIDTH \in 0 .. WIDTH
      /\ WIDTH - 1 \in 0 .. WIDTH + 1
      /\ (WIDTH - 1) + 1 = WIDTH
  BY WidthAssumption
<1>2. Pow2[WIDTH + 1] = 2 * Pow2[WIDTH]
  BY <1>1, Pow2Assumption
<1>3. Pow2[WIDTH] = 2 * Pow2[WIDTH - 1]
  BY <1>1, Pow2Assumption
<1>4. QED
  BY <1>1, <1>2, <1>3, Pow2Assumption DEF Radix, WideRadix

\* A shift splits the doubled word into the bit that leaves and the rest.
LEMMA ShiftSplits ==
  ASSUME NEW w \in Word
  PROVE  /\ Msb(w) \in {0, 1}
         /\ ShiftLeft(w) \in Word
         /\ 2 * w = Msb(w) * Radix + ShiftLeft(w)
<1> USE RadixFacts
<1>1. CASE w >= Pow2[WIDTH - 1]
  <2>1. 2 * w - Radix \in Nat /\ 2 * w - Radix < Radix
    BY <1>1 DEF Word
  <2>2. 2 * w = 1 * Radix + (2 * w - Radix)
    BY <2>1 DEF Word
  <2>3. (1 * Radix + (2 * w - Radix)) % Radix = 2 * w - Radix
    BY <2>1, ModUnique
  <2>4. ShiftLeft(w) = 2 * w - Radix
    BY <2>2, <2>3 DEF ShiftLeft
  <2>5. QED
    BY <1>1, <2>1, <2>4 DEF Msb, Word
<1>2. CASE w < Pow2[WIDTH - 1]
  <2>1. 2 * w \in Nat /\ 2 * w < Radix
    BY <1>2 DEF Word
  <2>2. ShiftLeft(w) = 2 * w
    BY <2>1, ModBelow DEF ShiftLeft
  <2>3. QED
    BY <1>2, <2>1, <2>2 DEF Msb, Word
<1>3. QED
  BY <1>1, <1>2 DEF Word

\* One conditional subtract reduces any number below twice the modulus.
LEMMA CondSubReduces ==
  ASSUME NEW m \in Nat, NEW x \in Nat, x < 2 * m
  PROVE  /\ CondSub(x, m) \in Nat /\ CondSub(x, m) < m
         /\ \E k \in {0, 1} : CondSub(x, m) + k * m = x
<1>1. CASE x >= m
  BY <1>1 DEF CondSub
<1>2. CASE x < m
  BY <1>2 DEF CondSub
<1>3. QED
  BY <1>1, <1>2

\* The table doubles from one entry to the next, counted from the top: what
\* a datapath needs when its counter goes down by one.
LEMMA Pow2Down ==
  ASSUME NEW c \in 1 .. WIDTH
  PROVE  /\ Pow2[WIDTH - c] \in Nat
         /\ Pow2[WIDTH - (c - 1)] = 2 * Pow2[WIDTH - c]
<1>1. WIDTH - c \in 0 .. WIDTH /\ WIDTH - (c - 1) = (WIDTH - c) + 1
  BY WidthAssumption
<1>2. Pow2[(WIDTH - c) + 1] = 2 * Pow2[WIDTH - c]
  BY <1>1, Pow2Assumption
<1>3. WIDTH - c \in 0 .. WIDTH + 1
  BY <1>1, WidthAssumption
<1>4. QED
  BY <1>1, <1>2, <1>3, Pow2Assumption

\* A word scaled by the radix determines the word: when all its bits have
\* been shifted out, the prefix that was consumed is the word itself.
LEMMA AllConsumed ==
  ASSUME NEW w \in Word, NEW p \in Nat, NEW rest \in Word,
         w * Radix = p * Radix + rest
  PROVE  p = w
<1> USE RadixFacts
<1>1. w \in Nat /\ rest \in Nat /\ rest < Radix
  BY DEF Word
<1>2. (w - p) * Radix = rest
  BY <1>1
<1>3. ASSUME w - p >= 1 PROVE FALSE
  BY <1>1, <1>2, <1>3
<1>4. ASSUME w - p <= -1 PROVE FALSE
  BY <1>1, <1>2, <1>4
<1>5. QED
  BY <1>1, <1>3, <1>4

-----------------------------------------------------------------------------

\* Induction up to N, for a set instead of a predicate: an initial segment of
\* the naturals that is closed under successors below N leaves no number out.
\* Otherwise the successor would map it one to one into itself without 0.
LEMMA FiniteInduction ==
  ASSUME NEW N \in Nat, NEW G \in SUBSET (0 .. N), 0 \in G,
         \A i \in 0 .. N - 1 : i \in G => i + 1 \in G
  PROVE  N \in G
<1> SUFFICES ASSUME N \notin G PROVE FALSE
  OBVIOUS
<1> DEFINE next == [i \in G |-> i + 1]
<1>1. next \in [G -> G \ {0}]
  BY DEF next
<1>2. IsFiniteSet(0 .. N)
  BY FS_Interval
<1>3. IsFiniteSet(G) /\ Cardinality(G) \in Nat
  BY <1>2, FS_Subset, FS_CardinalityType
<1>4. /\ IsFiniteSet(G \ {0})
      /\ Cardinality(G \ {0}) = Cardinality(G) - 1
  BY <1>3, FS_RemoveElement
<1>5. Cardinality(G \ {0}) < Cardinality(G)
  BY <1>3, <1>4
<1> HIDE DEF next
<1>6. \E x, y \in G : x # y /\ next[x] = next[y]
  BY <1>1, <1>3, <1>4, <1>5, FS_PigeonHole, Zenon
<1>7. PICK x \in G, y \in G : x # y /\ next[x] = next[y]
  BY <1>6
<1>8. x \in Nat /\ y \in Nat /\ x + 1 = y + 1
  BY <1>7 DEF next
<1>9. QED
  BY <1>7, <1>8

=============================================================================
