--------------------------- MODULE MakeHexProofs ---------------------------
(***************************************************************************)
(* The image builder is faithful for every image, size and byte width.     *)
(***************************************************************************)
EXTENDS MakeHex, TLAPS

\* A number made of a byte and a rest falls apart into them.
LEMMA Split ==
  ASSUME NEW b \in Byte, NEW w \in Nat
  PROVE  /\ b + ByteRadix * w \in Nat
         /\ (b + ByteRadix * w) % ByteRadix = b
         /\ (b + ByteRadix * w) \div ByteRadix = w
<1>1. PICK R \in Nat \ {0} : R = ByteRadix
  BY HexAssumption
<1>2. b \in Nat /\ b < R
  BY <1>1 DEF Byte
<1>3. R * w \in Nat /\ b + R * w \in Nat
  BY <1>1, <1>2
<1>4. (b + R * w) % R = b
  BY <1>1, <1>2, <1>3
<1>5. (b + R * w) \div R = w
  BY <1>1, <1>2, <1>3
<1>6. QED
  BY <1>1, <1>3, <1>4, <1>5

\* The lanes of a packed word are its bytes.
LEMMA LanesOfPacked ==
  ASSUME NEW b0 \in Byte, NEW b1 \in Byte, NEW b2 \in Byte, NEW b3 \in Byte,
         NEW w, w = Packed(b0, b1, b2, b3)
  PROVE  /\ w \in Nat
         /\ LaneOf(w, 0) = b0 /\ LaneOf(w, 1) = b1
         /\ LaneOf(w, 2) = b2 /\ LaneOf(w, 3) = b3
<1> DEFINE w3 == b3
           w2 == b2 + ByteRadix * w3
           w1 == b1 + ByteRadix * w2
           w0 == b0 + ByteRadix * w1
<1>1. w3 \in Nat
  BY DEF Byte
<1>2. w2 \in Nat /\ w2 % ByteRadix = b2 /\ w2 \div ByteRadix = w3
  BY <1>1, Split
<1> HIDE DEF w2, w3
<1>3. w1 \in Nat /\ w1 % ByteRadix = b1 /\ w1 \div ByteRadix = w2
  BY <1>2, Split
<1> HIDE DEF w1
<1>4. w0 \in Nat /\ w0 % ByteRadix = b0 /\ w0 \div ByteRadix = w1
  BY <1>3, Split
<1>5. w = w0
  BY DEF Packed, w1, w2, w3
<1> HIDE DEF w0
<1>6. /\ LaneOf(w0, 0) = b0 /\ LaneOf(w0, 1) = b1
      /\ LaneOf(w0, 2) = b2 /\ LaneOf(w0, 3) = w3
  BY <1>2, <1>3, <1>4 DEF LaneOf
<1>7. QED
  BY <1>4, <1>5, <1>6 DEF w3

\* The builder packs the bytes that are there, and zeros.
LEMMA WordPacks ==
  ASSUME data \in Seq(Byte), NEW off \in Nat
  PROVE  Word(off) = Packed(AtOrZero(off), AtOrZero(off + 1),
                            AtOrZero(off + 2), AtOrZero(off + 3))
<1>1. Len(data) \in Nat
  OBVIOUS
<1>2. CASE off + 4 <= Len(data)
  BY <1>1, <1>2 DEF Word, AtOrZero, At
<1>3. CASE off + 4 > Len(data) /\ off < Len(data)
  BY <1>1, <1>3 DEF Word, AtOrZero
<1>4. CASE off >= Len(data)
  <2>1. ByteRadix * 0 = 0
    BY HexAssumption
  <2>2. Packed(0, 0, 0, 0) = 0
    BY <2>1 DEF Packed
  <2>3. QED
    BY <1>1, <1>4, <2>2 DEF Word, AtOrZero
<1>5. QED
  BY <1>1, <1>2, <1>3, <1>4

\* What is packed is bytes.
LEMMA AtOrZeroByte ==
  ASSUME data \in Seq(Byte), NEW k \in Nat
  PROVE  AtOrZero(k) \in Byte
<1>1. 0 \in Byte
  BY HexAssumption DEF Byte
<1>2. CASE k < Len(data)
  <2>1. k + 1 \in 1 .. Len(data)
    BY <1>2
  <2>2. QED
    BY <1>2, <2>1 DEF AtOrZero, At
<1>3. QED
  BY <1>1, <1>2 DEF AtOrZero

\* A printed word is a number, with the four bytes of its address range.
LEMMA WordLanes ==
  ASSUME data \in Seq(Byte), NEW n \in Nat, NEW j \in 0 .. 3
  PROVE  Word(4 * n) \in Nat /\ LaneOf(Word(4 * n), j) = AtOrZero(4 * n + j)
<1> DEFINE off == 4 * n
<1>1. off \in Nat
  OBVIOUS
<1> HIDE DEF off
<1>2. /\ AtOrZero(off) \in Byte /\ AtOrZero(off + 1) \in Byte
      /\ AtOrZero(off + 2) \in Byte /\ AtOrZero(off + 3) \in Byte
  BY <1>1, AtOrZeroByte
<1>3. /\ Word(off) \in Nat
      /\ LaneOf(Word(off), 0) = AtOrZero(off)
      /\ LaneOf(Word(off), 1) = AtOrZero(off + 1)
      /\ LaneOf(Word(off), 2) = AtOrZero(off + 2)
      /\ LaneOf(Word(off), 3) = AtOrZero(off + 3)
  <2>1. Word(off) = Packed(AtOrZero(off), AtOrZero(off + 1),
                           AtOrZero(off + 2), AtOrZero(off + 3))
    BY <1>1, WordPacks
  <2> DEFINE w == Word(off)
             b0 == AtOrZero(off)
             b1 == AtOrZero(off + 1)
             b2 == AtOrZero(off + 2)
             b3 == AtOrZero(off + 3)
  <2>2. /\ b0 \in Byte /\ b1 \in Byte /\ b2 \in Byte /\ b3 \in Byte
        /\ w = Packed(b0, b1, b2, b3)
    BY <1>2, <2>1
  <2> HIDE DEF w, b0, b1, b2, b3
  <2>3. /\ w \in Nat
        /\ LaneOf(w, 0) = b0 /\ LaneOf(w, 1) = b1
        /\ LaneOf(w, 2) = b2 /\ LaneOf(w, 3) = b3
    BY <2>2, LanesOfPacked
  <2>4. QED
    BY <2>3 DEF w, b0, b1, b2, b3
<1>4. j = 0 \/ j = 1 \/ j = 2 \/ j = 3
  OBVIOUS
<1>5. LaneOf(Word(off), j) = AtOrZero(off + j)
  <2>1. CASE j = 0
    <3>1. off + 0 = off
      BY <1>1
    <3>2. QED
      BY <2>1, <1>3, <3>1
  <2>2. CASE j = 1
    BY <2>2, <1>3
  <2>3. CASE j = 2
    BY <2>3, <1>3
  <2>4. CASE j = 3
    BY <2>4, <1>3
  <2>5. QED
    BY <1>4, <2>1, <2>2, <2>3, <2>4
<1>6. QED
  BY <1>3, <1>5 DEF off

-----------------------------------------------------------------------------

(* The index stays within the size asked for and counts the words printed, *)
(* whatever the image is (makehex.py:24-38).                               *)
THEOREM TypeCorrect == HexSpec => []HexTypeOK
<1>1. HexInit => HexTypeOK
  BY HexAssumption DEF HexInit, HexTypeOK
<1>2. HexTypeOK /\ [PrintWord]_hexVars => HexTypeOK'
  <2> SUFFICES ASSUME HexTypeOK, [PrintWord]_hexVars PROVE HexTypeOK'
    OBVIOUS
  <2>1. CASE PrintWord
    <3>1. data \in Seq(Byte) /\ i \in Nat /\ nwords \in Nat
      BY HexAssumption DEF HexTypeOK
    <3>2. Word(4 * i) \in Nat
      BY <3>1, WordLanes
    <3>3. /\ Append(ram, Word(4 * i)) \in Seq(Nat)
          /\ Len(Append(ram, Word(4 * i))) = i + 1
      BY <3>1, <3>2 DEF HexTypeOK
    <3>4. i + 1 \in 0 .. nwords
      BY <2>1, <3>1 DEF HexTypeOK, PrintWord
    <3>5. QED
      BY <2>1, <3>3, <3>4 DEF HexTypeOK, PrintWord
  <2>2. CASE UNCHANGED hexVars
    BY <2>2 DEF HexTypeOK, hexVars
  <2>3. QED
    BY <2>1, <2>2
<1>3. QED
  BY <1>1, <1>2, PTL DEF HexSpec

(* Byte k of the image is at address k of the RAM, and zero behind its     *)
(* end, for every image, size and byte width (makehex.py:6-8).             *)
THEOREM ImageIsFaithful == HexSpec => []ImageFaithful
<1>1. HexInit => ImageFaithful
  BY DEF HexInit, ImageFaithful
<1>2. HexTypeOK /\ ImageFaithful /\ [PrintWord]_hexVars => ImageFaithful'
  <2> SUFFICES ASSUME HexTypeOK, ImageFaithful, [PrintWord]_hexVars
               PROVE  ImageFaithful'
    OBVIOUS
  <2>1. CASE PrintWord
    <3> SUFFICES ASSUME NEW n \in 0 .. i' - 1, NEW j \in 0 .. 3
                 PROVE  LaneOf(ram'[n + 1], j) = AtOrZero(4 * n + j)'
      BY DEF ImageFaithful
    <3>1. data \in Seq(Byte) /\ i \in Nat /\ n \in Nat
      BY <2>1, HexAssumption DEF HexTypeOK, PrintWord
    <3>2. AtOrZero(4 * n + j)' = AtOrZero(4 * n + j)
      BY <2>1 DEF AtOrZero, At, PrintWord
    <3>3. CASE n < i
      <4>1. ram'[n + 1] = ram[n + 1]
        BY <2>1, <3>1, <3>3 DEF HexTypeOK, PrintWord
      <4>2. n \in 0 .. i - 1
        BY <3>1, <3>3
      <4>3. QED
        BY <3>2, <4>1, <4>2 DEF ImageFaithful
    <3>4. CASE n = i
      <4>1. ram'[n + 1] = Word(4 * n)
        BY <2>1, <3>1, <3>4 DEF HexTypeOK, PrintWord
      <4>2. LaneOf(Word(4 * n), j) = AtOrZero(4 * n + j)
        BY <3>1, WordLanes
      <4>3. QED
        BY <3>2, <4>1, <4>2
    <3>5. n < i \/ n = i
      BY <2>1, <3>1 DEF PrintWord
    <3>6. QED
      BY <3>3, <3>4, <3>5
  <2>2. CASE UNCHANGED hexVars
    BY <2>2 DEF ImageFaithful, hexVars, AtOrZero, At
  <2>3. QED
    BY <2>1, <2>2
<1>3. QED
  BY <1>1, <1>2, TypeCorrect, PTL DEF HexSpec

=============================================================================
