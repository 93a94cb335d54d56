------------------------------ MODULE MakeHex ------------------------------
(***************************************************************************)
(* blindsig-soc/fw/makehex.py: the binary image of a firmware is printed   *)
(* as words for $readmemh, which puts line i into word i of the RAM        *)
(* (soc_top.v:75).  One step prints one line.  A byte is a number below    *)
(* ByteRadix, 256 in the code.                                             *)
(***************************************************************************)
EXTENDS Integers, Sequences

CONSTANTS
  ByteRadix,
  Images,      \* the binaries it is given
  Sizes        \* num_words, 4096 in the Makefiles

Byte == 0 .. ByteRadix - 1

ASSUME HexAssumption ==
  /\ ByteRadix \in Nat \ {0}
  /\ Images \subseteq Seq(Byte)
  /\ Sizes \subseteq Nat

VARIABLES
  data, nwords,    \* the arguments
  i,               \* words printed
  ram              \* what $readmemh makes of the lines: word n is ram[n + 1]

hexVars == <<data, nwords, i, ram>>

\* b0 | (b1 << 8) | (b2 << 16) | (b3 << 24)
Packed(b0, b1, b2, b3) ==
  b0 + ByteRadix * (b1 + ByteRadix * (b2 + ByteRadix * b3))

At(k) == data[k + 1]

\* The bytes that are there, of a word that is not whole.
AtOrZero(k) == IF k < Len(data) THEN At(k) ELSE 0

\* A tail that is not a whole word is taken for the end.
Word_WholeOnly(off) ==
  IF off + 4 <= Len(data)
  THEN Packed(At(off), At(off + 1), At(off + 2), At(off + 3))
  ELSE 0

Word(off) ==
  IF off + 4 <= Len(data)
  THEN Packed(At(off), At(off + 1), At(off + 2), At(off + 3))
  ELSE IF off < Len(data)
  THEN Packed(AtOrZero(off), AtOrZero(off + 1), AtOrZero(off + 2), 0)
  ELSE 0

HexInit ==
  /\ data \in Images /\ nwords \in Sizes
  /\ i = 0
  /\ ram = <<>>

\* One line too many.
PrintWord_OneMore ==
  /\ i <= nwords
  /\ i' = i + 1
  /\ ram' = Append(ram, Word(4 * i))
  /\ UNCHANGED <<data, nwords>>

PrintWord ==
  /\ i < nwords
  /\ i' = i + 1
  /\ ram' = Append(ram, Word(4 * i))
  /\ UNCHANGED <<data, nwords>>

HexSpec == HexInit /\ [][PrintWord]_hexVars

-----------------------------------------------------------------------------

HexTypeOK ==
  /\ data \in Images /\ nwords \in Sizes
  /\ i \in 0 .. nwords
  /\ ram \in Seq(Nat) /\ Len(ram) = i

\* Byte lane j of a word, as the processor addresses it.
LaneOf(w, j) ==
  CASE j = 0 -> w % ByteRadix
    [] j = 1 -> (w \div ByteRadix) % ByteRadix
    [] j = 2 -> ((w \div ByteRadix) \div ByteRadix) % ByteRadix
    [] j = 3 -> ((w \div ByteRadix) \div ByteRadix) \div ByteRadix

(* The processor finds byte k of the image at address k, a tail that does  *)
(* not fill a word included, and zeros behind it ("little-endian byte      *)
(* order", "unused words are filled with zero", makehex.py:6-8).           *)
ImageFaithful ==
  \A n \in 0 .. i - 1 : \A j \in 0 .. 3 :
    LaneOf(ram[n + 1], j) = AtOrZero(4 * n + j)

=============================================================================
