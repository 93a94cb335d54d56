---------------------------- MODULE DriverProofs ----------------------------
(***************************************************************************)
(* compute() of the driver is right after any calls of the other methods,  *)
(* provided what was started was waited for, for every WIDTH and any       *)
(* slices.  It takes what the peripheral does for a driver that changes    *)
(* the modulus while an operation is in flight, which the careful host of  *)
(* AccelProofs does not: Control, the state of the pipeline and of the     *)
(* datapaths without their data, lasts until an operation is lost.         *)
(***************************************************************************)
EXTENDS Driver, WordsProofs, SequenceTheorems

-----------------------------------------------------------------------------
(* The writes of the methods.                                              *)

\* A pair at the end of a sequence.
LEMMA PairAtEnd ==
  ASSUME NEW S, NEW s \in Seq(S), NEW t \in Seq(S), NEW k \in Nat,
         Len(s) = k, Len(t) = 2
  PROVE  /\ s \o t \in Seq(S) /\ Len(s \o t) = k + 2
         /\ \A j \in 1 .. k : (s \o t)[j] = s[j]
         /\ (s \o t)[k + 1] = t[1] /\ (s \o t)[k + 2] = t[2]
<1>1. /\ s \o t \in Seq(S) /\ Len(s \o t) = Len(s) + Len(t)
      /\ \A j \in 1 .. Len(s) + Len(t) :
           (s \o t)[j] = IF j <= Len(s) THEN s[j] ELSE t[j - Len(s)]
  BY ConcatProperties
<1>2. \A j \in 1 .. k + 2 :
        (s \o t)[j] = IF j <= k THEN s[j] ELSE t[j - k]
  BY <1>1
<1>3. /\ k + 1 \in 1 .. k + 2 /\ ~(k + 1 <= k) /\ (k + 1) - k = 1
      /\ k + 2 \in 1 .. k + 2 /\ ~(k + 2 <= k) /\ (k + 2) - k = 2
  OBVIOUS
<1>4. QED
  BY <1>1, <1>2, <1>3

\* Flattening pairs lays them out one after the other.
LEMMA FlattenPairs ==
  ASSUME NEW S, NEW n \in Nat, NEW pairs \in [1 .. n -> Seq(S)],
         \A i \in 1 .. n : Len(pairs[i]) = 2
  PROVE  /\ FlattenSeq(pairs) \in Seq(S) /\ Len(FlattenSeq(pairs)) = 2 * n
         /\ \A i \in 1 .. n : /\ FlattenSeq(pairs)[2 * i - 1] = pairs[i][1]
                              /\ FlattenSeq(pairs)[2 * i] = pairs[i][2]
<1> DEFINE p == [i \in 1 .. n |-> pairs[i][1]]
           q == [i \in 1 .. n |-> pairs[i][2]]
           Flat(f) == f = [i \in 1 .. n |-> IF i = 1 THEN pairs[i]
                                            ELSE f[i - 1] \o pairs[i]]
           Laid(s, i) == /\ s \in Seq(S) /\ Len(s) = 2 * i
                         /\ \A j \in 1 .. i : s[2 * j - 1] = p[j]
                                              /\ s[2 * j] = q[j]
<1>1. Len(pairs) = n /\ pairs \in Seq(Seq(S))
  OBVIOUS
<1>2. ASSUME NEW i \in 1 .. n
      PROVE  /\ pairs[i] \in Seq(S) /\ Len(pairs[i]) = 2
             /\ pairs[i][1] = p[i] /\ pairs[i][2] = q[i]
  OBVIOUS
<1>2a. p \in [1 .. n -> S] /\ q \in [1 .. n -> S]
  BY <1>2
<1> HIDE DEF p, q
<1> HIDE DEF Flat
<1>3. CASE n = 0
  <2>1. pairs = <<>>
    BY <1>3
  <2>2. FlattenSeq(pairs) = <<>>
    BY <1>1, <1>3, <2>1 DEF FlattenSeq
  <2>3. /\ FlattenSeq(pairs) \in Seq(S) /\ Len(FlattenSeq(pairs)) = 2 * n
    BY <1>3, <2>2
  <2>4. 1 .. n = {}
    BY <1>3
  <2>5. QED
    BY <2>3, <2>4
<1>4. CASE n # 0
  <2> DEFINE g == [i \in 1 .. n |->
                     [k \in 1 .. 2 * i |-> IF k % 2 = 1 THEN p[(k + 1) \div 2]
                                           ELSE q[k \div 2]]]
  <2>1. ASSUME NEW i \in 1 .. n
        PROVE  /\ g[i] \in Seq(S) /\ Len(g[i]) = 2 * i
               /\ \A k \in 1 .. 2 * i :
                    g[i][k] = IF k % 2 = 1 THEN p[(k + 1) \div 2]
                              ELSE q[k \div 2]
    <3>1. ASSUME NEW k \in 1 .. 2 * i
          PROVE  (IF k % 2 = 1 THEN p[(k + 1) \div 2] ELSE q[k \div 2]) \in S
      <4>1. CASE k % 2 = 1
        <5>1. (k + 1) \div 2 \in 1 .. n
          BY <4>1
        <5>2. QED
          BY <1>2a, <4>1, <5>1
      <4>2. CASE k % 2 # 1
        <5>1. k \div 2 \in 1 .. n
          BY <4>2
        <5>2. QED
          BY <1>2a, <4>2, <5>1
      <4>3. QED
        BY <4>1, <4>2
    <3>2. 2 * i \in Nat
      OBVIOUS
    <3>3. g[i] = [k \in 1 .. 2 * i |-> IF k % 2 = 1 THEN p[(k + 1) \div 2]
                                       ELSE q[k \div 2]]
      OBVIOUS
    <3> HIDE DEF g
    <3>4. QED
      BY <3>1, <3>2, <3>3
  <2>2. DOMAIN g = 1 .. n
    OBVIOUS
  <2>2a. g = [i \in 1 .. n |-> g[i]]
    OBVIOUS
  <2> HIDE DEF g
  <2>3. ASSUME NEW i \in 1 .. n
        PROVE  g[i] = IF i = 1 THEN pairs[i] ELSE g[i - 1] \o pairs[i]
    <3>1. CASE i = 1
      <4>1. g[1] \in Seq(S) /\ Len(g[1]) = 2
        <5>1. g[i] \in Seq(S) /\ Len(g[i]) = 2 * i
          BY <2>1, Zenon
        <5>2. QED
          BY <3>1, <5>1
      <4>2. /\ 1 \in 1 .. 2 * i /\ 1 % 2 = 1 /\ (1 + 1) \div 2 = 1
            /\ 2 \in 1 .. 2 * i /\ 2 % 2 # 1 /\ 2 \div 2 = 1
        OBVIOUS
      <4>3. g[i][1] = p[1] /\ g[i][2] = q[1]
        <5>1. /\ g[i][1] = IF 1 % 2 = 1 THEN p[(1 + 1) \div 2]
                           ELSE q[1 \div 2]
              /\ g[i][2] = IF 2 % 2 = 1 THEN p[(2 + 1) \div 2]
                           ELSE q[2 \div 2]
          BY <2>1, <4>2, Zenon
        <5>2. QED
          BY <4>2, <5>1, Zenon
      <4>4. pairs[1] \in Seq(S) /\ Len(pairs[1]) = 2
            /\ pairs[1][1] = p[1] /\ pairs[1][2] = q[1]
        BY <1>2, <3>1
      <4>5. \A k \in 1 .. 2 : g[1][k] = pairs[1][k]
        BY <3>1, <4>3, <4>4
      <4>6. Len(g[1]) = Len(pairs[1])
            /\ \A k \in 1 .. Len(g[1]) : g[1][k] = pairs[1][k]
        BY <4>1, <4>4, <4>5
      <4>7. g[1] = pairs[1]
        BY <4>1, <4>4, <4>6, SeqEqual, Zenon
      <4>8. QED
        BY <3>1, <4>7
    <3>2. CASE i # 1
      <4> DEFINE h == g[i - 1] \o pairs[i]
      <4>1. i - 1 \in 1 .. n
        BY <3>2
      <4>2. g[i - 1] \in Seq(S) /\ Len(g[i - 1]) = 2 * (i - 1)
        BY <2>1, <4>1
      <4>3. /\ h \in Seq(S) /\ Len(h) = 2 * (i - 1) + 2
            /\ \A k \in 1 .. 2 * (i - 1) : h[k] = g[i - 1][k]
            /\ h[2 * (i - 1) + 1] = p[i] /\ h[2 * (i - 1) + 2] = q[i]
        <5>1. 2 * (i - 1) \in Nat
          BY <4>1
        <5>2. pairs[i] \in Seq(S) /\ Len(pairs[i]) = 2
          BY <1>2
        <5>3. /\ h \in Seq(S) /\ Len(h) = 2 * (i - 1) + 2
              /\ \A k \in 1 .. 2 * (i - 1) : h[k] = g[i - 1][k]
              /\ h[2 * (i - 1) + 1] = pairs[i][1]
              /\ h[2 * (i - 1) + 2] = pairs[i][2]
          <6>1. PICK s \in Seq(S), t \in Seq(S), k \in Nat :
                s = g[i - 1] /\ t = pairs[i] /\ k = 2 * (i - 1)
                /\ Len(s) = k /\ Len(t) = 2
            BY <4>2, <5>1, <5>2
          <6>2. /\ s \o t \in Seq(S) /\ Len(s \o t) = k + 2
                /\ \A j \in 1 .. k : (s \o t)[j] = s[j]
                /\ (s \o t)[k + 1] = t[1] /\ (s \o t)[k + 2] = t[2]
            <7>1. Len(s) = k /\ Len(t) = 2
              BY <6>1
            <7>2. QED
              BY <7>1, PairAtEnd
          <6>3. QED
            BY <6>1, <6>2, Zenon
        <5>4. QED
          BY <1>2, <5>3, Zenon
      <4> HIDE DEF h
      <4>4. ASSUME NEW k \in 1 .. 2 * i PROVE g[i][k] = h[k]
        <5>1. CASE k <= 2 * (i - 1)
          <6>1. k \in 1 .. 2 * (i - 1)
            BY <5>1
          <6>2. QED
            BY <2>1, <4>1, <4>3, <5>1, <6>1
        <5>2. CASE k = 2 * i - 1
          <6>1. k % 2 = 1 /\ (k + 1) \div 2 = i /\ k = 2 * (i - 1) + 1
            BY <5>2
          <6>2. QED
            BY <2>1, <4>3, <6>1
        <5>3. CASE k = 2 * i
          <6>1. k % 2 # 1 /\ k \div 2 = i /\ k = 2 * (i - 1) + 2
            BY <5>3
          <6>2. QED
            BY <2>1, <4>3, <6>1
        <5>4. k <= 2 * (i - 1) \/ k = 2 * i - 1 \/ k = 2 * i
          OBVIOUS
        <5>5. QED
          BY <5>1, <5>2, <5>3, <5>4
      <4>4a. Len(h) = 2 * i
        BY <4>3
      <4>5. g[i] = h
        BY <2>1, <4>3, <4>4, <4>4a, SeqEqual
      <4>6. QED
        BY <3>2, <4>5 DEF h
    <3>3. QED
      BY <3>1, <3>2
  <2>4. Flat(g)
    BY <2>2a, <2>3 DEF Flat
  <2> DEFINE flatten == CHOOSE f : Flat(f)
  <2>5. Flat(flatten)
    BY <2>4
  <2>6. FlattenSeq(pairs) = flatten[n]
    BY <1>1, <1>4 DEF FlattenSeq, Flat
  <2> HIDE DEF flatten
  <2> DEFINE G == {i \in 0 .. n : i = 0 \/ Laid(flatten[i], i)}
  <2>7. 0 \in G
    OBVIOUS
  <2>8. ASSUME NEW i \in 0 .. n - 1, i \in G PROVE i + 1 \in G
    <3>1. i + 1 \in 1 .. n
      OBVIOUS
    <3>2. CASE i = 0
      <4>1. flatten[1] = pairs[1]
        BY <2>5, <3>1, <3>2 DEF Flat
      <4>2. Laid(pairs[1], 1)
        BY <1>2, <3>1, <3>2
      <4>3. QED
        BY <3>1, <3>2, <4>1, <4>2
    <3>3. CASE i # 0
      <4>1. flatten[i + 1] = flatten[i] \o pairs[i + 1]
        <5>1. i + 1 # 1 /\ (i + 1) - 1 = i
          BY <3>3
        <5>2. QED
          BY <2>5, <3>1, <5>1 DEF Flat
      <4>2. Laid(flatten[i], i)
        BY <2>8, <3>3
      <4> DEFINE h == flatten[i] \o pairs[i + 1]
      <4>3. /\ h \in Seq(S) /\ Len(h) = 2 * i + 2
            /\ \A k \in 1 .. 2 * i : h[k] = flatten[i][k]
            /\ h[2 * i + 1] = p[i + 1] /\ h[2 * i + 2] = q[i + 1]
        <5>1. 2 * i \in Nat
          OBVIOUS
        <5>2. pairs[i + 1] \in Seq(S) /\ Len(pairs[i + 1]) = 2
          BY <1>2, <3>1
        <5>3. flatten[i] \in Seq(S) /\ Len(flatten[i]) = 2 * i
          BY <4>2
        <5>4. /\ h \in Seq(S) /\ Len(h) = 2 * i + 2
              /\ \A k \in 1 .. 2 * i : h[k] = flatten[i][k]
              /\ h[2 * i + 1] = pairs[i + 1][1]
              /\ h[2 * i + 2] = pairs[i + 1][2]
          <6>1. PICK s \in Seq(S), t \in Seq(S), k \in Nat :
                s = flatten[i] /\ t = pairs[i + 1] /\ k = 2 * i
                /\ Len(s) = k /\ Len(t) = 2
            BY <5>1, <5>2, <5>3
          <6>2. /\ s \o t \in Seq(S) /\ Len(s \o t) = k + 2
                /\ \A j \in 1 .. k : (s \o t)[j] = s[j]
                /\ (s \o t)[k + 1] = t[1] /\ (s \o t)[k + 2] = t[2]
            <7>1. Len(s) = k /\ Len(t) = 2
              BY <6>1
            <7>2. QED
              BY <7>1, PairAtEnd
          <6>3. QED
            BY <6>1, <6>2, Zenon
        <5>5. QED
          BY <1>2, <3>1, <5>4, Zenon
      <4> HIDE DEF h
      <4>4. ASSUME NEW j \in 1 .. i + 1
            PROVE  h[2 * j - 1] = p[j] /\ h[2 * j] = q[j]
        <5>1. CASE j = i + 1
          <6>1. 2 * j - 1 = 2 * i + 1 /\ 2 * j = 2 * i + 2
            BY <5>1
          <6>2. QED
            BY <4>3, <5>1, <6>1
        <5>2. CASE j # i + 1
          <6>1. /\ 2 * j - 1 \in 1 .. 2 * i /\ 2 * j \in 1 .. 2 * i
                /\ j \in 1 .. i
            BY <5>2
          <6>2. QED
            BY <4>2, <4>3, <6>1
        <5>3. QED
          BY <5>1, <5>2
      <4>4a. Len(h) = 2 * (i + 1)
        BY <4>3
      <4>5. Laid(h, i + 1)
        BY <4>3, <4>4, <4>4a
      <4>6. QED
        <5>1. Laid(flatten[i + 1], i + 1)
          BY <4>1, <4>5 DEF h
        <5>2. i + 1 \in 0 .. n
          OBVIOUS
        <5> HIDE DEF Laid
        <5>3. QED
          BY <5>1, <5>2 DEF G
    <3>4. QED
      BY <3>2, <3>3
  <2> HIDE DEF G, Laid
  <2>9. G \in SUBSET (0 .. n)
    BY DEF G
  <2>10. n \in G
    BY <2>7, <2>8, <2>9, FiniteInduction
  <2>11. Laid(FlattenSeq(pairs), n)
    BY <1>4, <2>6, <2>10 DEF G
  <2>12. QED
    BY <1>2, <2>11 DEF Laid
<1>5. QED
  BY <1>3, <1>4

\* Two sequences in a row.
LEMMA InARow ==
  ASSUME NEW S, NEW s \in Seq(S), NEW t \in Seq(S)
  PROVE  /\ s \o t \in Seq(S) /\ Len(s \o t) = Len(s) + Len(t)
         /\ \A j \in 1 .. Len(s) : (s \o t)[j] = s[j]
         /\ \A j \in 1 .. Len(t) : (s \o t)[Len(s) + j] = t[j]
<1>1. /\ s \o t \in Seq(S) /\ Len(s \o t) = Len(s) + Len(t)
      /\ \A j \in 1 .. Len(s) + Len(t) :
           (s \o t)[j] = IF j <= Len(s) THEN s[j] ELSE t[j - Len(s)]
  BY ConcatProperties
<1>2. PICK a \in Nat, b \in Nat : a = Len(s) /\ b = Len(t)
  OBVIOUS
<1>3. \A j \in 1 .. a + b :
        (s \o t)[j] = IF j <= a THEN s[j] ELSE t[j - a]
  BY <1>1, <1>2
<1>4. ASSUME NEW j \in 1 .. b PROVE (s \o t)[a + j] = t[j]
  <2>1. a + j \in 1 .. a + b /\ ~(a + j <= a) /\ (a + j) - a = j
    OBVIOUS
  <2>2. QED
    BY <1>3, <2>1
<1>5. ASSUME NEW j \in 1 .. a PROVE (s \o t)[j] = s[j]
  <2>1. j \in 1 .. a + b /\ j <= a
    OBVIOUS
  <2>2. QED
    BY <1>3, <2>1
<1>6. QED
  BY <1>1, <1>2, <1>4, <1>5

\* Two sequences between two elements, as compute lays its writes out.
LEMMA Enclosed ==
  ASSUME NEW S, NEW x \in S, NEW y \in S, NEW l \in Seq(S), NEW r \in Seq(S),
         NEW u, u = <<x>> \o l \o r \o <<y>>
  PROVE  /\ u \in Seq(S) /\ Len(u) = Len(l) + Len(r) + 2
         /\ u[1] = x
         /\ \A j \in 1 .. Len(l) : u[1 + j] = l[j]
         /\ \A j \in 1 .. Len(r) : u[1 + Len(l) + j] = r[j]
         /\ u[Len(l) + Len(r) + 2] = y
<1>0. PICK p \in Seq(S), q \in Seq(S), a \in Nat, b \in Nat :
        p = l /\ q = r /\ a = Len(l) /\ b = Len(r)
  OBVIOUS
<1>1. PICK h \in Seq(S) : h = <<x>> /\ Len(h) = 1 /\ h[1] = x
  <2>1. <<x>> \in Seq(S) /\ Len(<<x>>) = 1 /\ <<x>>[1] = x
    OBVIOUS
  <2>2. QED
    BY <2>1, Zenon
<1>2. PICK e \in Seq(S) : e = <<y>> /\ Len(e) = 1 /\ e[1] = y
  <2>1. <<y>> \in Seq(S) /\ Len(<<y>>) = 1 /\ <<y>>[1] = y
    OBVIOUS
  <2>2. QED
    BY <2>1, Zenon
<1>3. PICK c \in Nat, d \in Nat : c = 1 + a /\ d = c + b
  OBVIOUS
<1>4. PICK v \in Seq(S) :
        /\ v = h \o p /\ Len(v) = c
        /\ \A j \in 1 .. 1 : v[j] = h[j]
        /\ \A j \in 1 .. a : v[1 + j] = p[j]
  <2>1. /\ h \o p \in Seq(S) /\ Len(h \o p) = Len(h) + Len(p)
        /\ \A j \in 1 .. Len(h) : (h \o p)[j] = h[j]
        /\ \A j \in 1 .. Len(p) : (h \o p)[Len(h) + j] = p[j]
    BY InARow
  <2>2. Len(h) = 1 /\ Len(p) = a /\ Len(h) + Len(p) = c
    BY <1>0, <1>1, <1>3
  <2>3. QED
    BY <2>1, <2>2, Zenon
<1>5. PICK w \in Seq(S) :
        /\ w = v \o q /\ Len(w) = d
        /\ \A j \in 1 .. c : w[j] = v[j]
        /\ \A j \in 1 .. b : w[c + j] = q[j]
  <2>1. /\ v \o q \in Seq(S) /\ Len(v \o q) = Len(v) + Len(q)
        /\ \A j \in 1 .. Len(v) : (v \o q)[j] = v[j]
        /\ \A j \in 1 .. Len(q) : (v \o q)[Len(v) + j] = q[j]
    BY InARow
  <2>2. Len(v) = c /\ Len(q) = b /\ Len(v) + Len(q) = d
    BY <1>0, <1>3, <1>4
  <2>3. QED
    BY <2>1, <2>2, Zenon
<1>6. PICK z \in Seq(S) :
        /\ z = w \o e /\ Len(z) = d + 1
        /\ \A j \in 1 .. d : z[j] = w[j]
        /\ \A j \in 1 .. 1 : z[d + j] = e[j]
  <2>1. /\ w \o e \in Seq(S) /\ Len(w \o e) = Len(w) + Len(e)
        /\ \A j \in 1 .. Len(w) : (w \o e)[j] = w[j]
        /\ \A j \in 1 .. Len(e) : (w \o e)[Len(w) + j] = e[j]
    BY InARow
  <2>2. Len(w) = d /\ Len(e) = 1 /\ Len(w) + Len(e) = d + 1
    BY <1>2, <1>5
  <2>3. QED
    BY <2>1, <2>2, Zenon
<1>7. z = <<x>> \o l \o r \o <<y>>
  BY <1>0, <1>1, <1>2, <1>4, <1>5, <1>6
<1>8. Len(z) = a + b + 2
  BY <1>3, <1>6
<1>9. z[1] = x
  <2>1. 1 \in 1 .. 1 /\ 1 \in 1 .. c /\ 1 \in 1 .. d
    BY <1>3
  <2>2. QED
    BY <1>1, <1>4, <1>5, <1>6, <2>1
<1>10. ASSUME NEW j \in 1 .. a PROVE z[1 + j] = p[j]
  <2>1. 1 + j \in 1 .. c /\ 1 + j \in 1 .. d
    BY <1>3
  <2>2. QED
    BY <1>4, <1>5, <1>6, <2>1
<1>11. ASSUME NEW j \in 1 .. b PROVE z[1 + a + j] = q[j]
  <2>1. c + j \in 1 .. d /\ 1 + a + j = c + j
    BY <1>3
  <2>2. QED
    BY <1>5, <1>6, <2>1
<1>12. z[a + b + 2] = y
  <2>1. a + b + 2 = d + 1 /\ 1 \in 1 .. 1
    BY <1>3
  <2>2. QED
    BY <1>2, <1>6, <2>1
<1>13. QED
  BY <1>0, <1>6, <1>7, <1>8, <1>9, <1>10, <1>11, <1>12, Zenon

\* What the driver writes: no two CTRL bits at once.
LoadWrites ==
  {CtrlWrite({"LOAD_MOD"}), CtrlWrite({"LOAD_OP"})}
    \cup {ModulusWrite(word) : word \in Word}
    \cup {OperandWrite(word) : word \in Word}
DriverWrites ==
  LoadWrites \cup {CtrlWrite({"RESET"}), CtrlWrite({"START"})}

\* load_modulus and load_operand announce every word.
LEMMA LoadsInPairs ==
  ASSUME NEW words \in Seq(Word), NEW n \in Nat, Len(words) = n
  PROVE  /\ load_modulus(words) \in Seq(LoadWrites)
         /\ load_operand(words) \in Seq(LoadWrites)
         /\ Len(load_modulus(words)) = 2 * n
         /\ Len(load_operand(words)) = 2 * n
         /\ \A i \in 1 .. n :
              /\ load_modulus(words)[2 * i - 1] = CtrlWrite({"LOAD_MOD"})
              /\ load_modulus(words)[2 * i] = ModulusWrite(words[i])
              /\ load_operand(words)[2 * i - 1] = CtrlWrite({"LOAD_OP"})
              /\ load_operand(words)[2 * i] = OperandWrite(words[i])
<1>1. DOMAIN words = 1 .. n /\ \A i \in 1 .. n : words[i] \in Word
  OBVIOUS
<1>2. PICK p : p = [i \in 1 .. n |-> load_modulus_word(words[i])]
  OBVIOUS
<1>3. PICK q : q = [i \in 1 .. n |-> load_operand_word(words[i])]
  OBVIOUS
<1>4. /\ load_modulus(words) = FlattenSeq(p)
      /\ load_operand(words) = FlattenSeq(q)
  BY <1>1, <1>2, <1>3 DEF load_modulus, load_operand
<1>5. ASSUME NEW i \in 1 .. n
      PROVE  /\ p[i] \in Seq(LoadWrites) /\ Len(p[i]) = 2
             /\ p[i][1] = CtrlWrite({"LOAD_MOD"})
             /\ p[i][2] = ModulusWrite(words[i])
             /\ q[i] \in Seq(LoadWrites) /\ Len(q[i]) = 2
             /\ q[i][1] = CtrlWrite({"LOAD_OP"})
             /\ q[i][2] = OperandWrite(words[i])
  <2>1. /\ p[i] = <<CtrlWrite({"LOAD_MOD"}), ModulusWrite(words[i])>>
        /\ q[i] = <<CtrlWrite({"LOAD_OP"}), OperandWrite(words[i])>>
    BY <1>2, <1>3 DEF load_modulus_word, load_operand_word
  <2>2. /\ CtrlWrite({"LOAD_MOD"}) \in LoadWrites
        /\ CtrlWrite({"LOAD_OP"}) \in LoadWrites
        /\ ModulusWrite(words[i]) \in LoadWrites
        /\ OperandWrite(words[i]) \in LoadWrites
    BY <1>1 DEF LoadWrites
  <2>3. QED
    BY <2>1, <2>2
<1>6. /\ p \in [1 .. n -> Seq(LoadWrites)] /\ \A i \in 1 .. n : Len(p[i]) = 2
      /\ q \in [1 .. n -> Seq(LoadWrites)] /\ \A i \in 1 .. n : Len(q[i]) = 2
  <2>1. p = [i \in 1 .. n |-> p[i]] /\ q = [i \in 1 .. n |-> q[i]]
    BY <1>2, <1>3
  <2>2. QED
    BY <1>5, <2>1
<1>7. /\ FlattenSeq(p) \in Seq(LoadWrites) /\ Len(FlattenSeq(p)) = 2 * n
      /\ \A i \in 1 .. n : /\ FlattenSeq(p)[2 * i - 1] = p[i][1]
                           /\ FlattenSeq(p)[2 * i] = p[i][2]
  BY <1>6, FlattenPairs, Zenon
<1>8. /\ FlattenSeq(q) \in Seq(LoadWrites) /\ Len(FlattenSeq(q)) = 2 * n
      /\ \A i \in 1 .. n : /\ FlattenSeq(q)[2 * i - 1] = q[i][1]
                           /\ FlattenSeq(q)[2 * i] = q[i][2]
  BY <1>6, FlattenPairs, Zenon
<1>9. QED
  BY <1>4, <1>5, <1>7, <1>8, Zenon

\* The writes of compute, by their place, for slices of a and of b words.
LaidOut(u, ms, a, os, b) ==
  /\ u \in Seq(DriverWrites) /\ Len(u) = 2 * a + 2 * b + 2
  /\ u[1] = CtrlWrite({"RESET"})
  /\ \A i \in 1 .. a : /\ u[2 * i] = CtrlWrite({"LOAD_MOD"})
                       /\ u[2 * i + 1] = ModulusWrite(ms[i])
  /\ \A j \in 1 .. b :
       /\ u[2 * a + 2 * j] = CtrlWrite({"LOAD_OP"})
       /\ u[2 * a + 2 * j + 1] = OperandWrite(os[j])
  /\ u[2 * a + 2 * b + 2] = CtrlWrite({"START"})

\* Between RESET and START, compute announces and gives every word.
LEMMA ComputeWrites ==
  ASSUME NEW ms \in Seq(Word), NEW os \in Seq(Word), NEW a \in Nat,
         NEW b \in Nat, Len(ms) = a, Len(os) = b
  PROVE  LaidOut(compute(ms, os), ms, a, os, b)
<1>1. PICK first \in DriverWrites : first = CtrlWrite({"RESET"})
  BY DEF DriverWrites
<1>2. PICK last \in DriverWrites : last = CtrlWrite({"START"})
  BY DEF DriverWrites
<1>3. PICK c \in Nat, d \in Nat : c = 2 * a /\ d = 2 * b
  OBVIOUS
<1>4. PICK loadm \in Seq(DriverWrites) :
        /\ loadm = load_modulus(ms) /\ Len(loadm) = c
        /\ \A i \in 1 .. a : /\ loadm[2 * i - 1] = CtrlWrite({"LOAD_MOD"})
                             /\ loadm[2 * i] = ModulusWrite(ms[i])
  <2>1. /\ load_modulus(ms) \in Seq(LoadWrites)
        /\ Len(load_modulus(ms)) = 2 * a
        /\ \A i \in 1 .. a :
             /\ load_modulus(ms)[2 * i - 1] = CtrlWrite({"LOAD_MOD"})
             /\ load_modulus(ms)[2 * i] = ModulusWrite(ms[i])
    BY LoadsInPairs, Zenon
  <2>2. LoadWrites \subseteq DriverWrites
    BY DEF DriverWrites
  <2>3. load_modulus(ms) \in Seq(DriverWrites)
    BY <2>1, <2>2, SeqMonotonic
  <2>4. QED
    BY <1>3, <2>1, <2>3, Zenon
<1>5. PICK loado \in Seq(DriverWrites) :
        /\ loado = load_operand(os) /\ Len(loado) = d
        /\ \A i \in 1 .. b : /\ loado[2 * i - 1] = CtrlWrite({"LOAD_OP"})
                             /\ loado[2 * i] = OperandWrite(os[i])
  <2>1. /\ load_operand(os) \in Seq(LoadWrites)
        /\ Len(load_operand(os)) = 2 * b
        /\ \A i \in 1 .. b :
             /\ load_operand(os)[2 * i - 1] = CtrlWrite({"LOAD_OP"})
             /\ load_operand(os)[2 * i] = OperandWrite(os[i])
    BY LoadsInPairs, Zenon
  <2>2. LoadWrites \subseteq DriverWrites
    BY DEF DriverWrites
  <2>3. load_operand(os) \in Seq(DriverWrites)
    BY <2>1, <2>2, SeqMonotonic
  <2>4. QED
    BY <1>3, <2>1, <2>3, Zenon
<1>5a. PICK u : u = <<first>> \o loadm \o loado \o <<last>>
  OBVIOUS
<1>6. u = compute(ms, os)
  BY <1>1, <1>2, <1>4, <1>5, <1>5a DEF compute, reset, start
<1>7. /\ u \in Seq(DriverWrites) /\ Len(u) = c + d + 2
      /\ u[1] = first
      /\ \A j \in 1 .. c : u[1 + j] = loadm[j]
      /\ \A j \in 1 .. d : u[1 + c + j] = loado[j]
      /\ u[c + d + 2] = last
  <2>1. Len(loadm) = c /\ Len(loado) = d
    BY <1>4, <1>5
  <2>2. QED
    <3>1. /\ u \in Seq(DriverWrites)
          /\ Len(u) = Len(loadm) + Len(loado) + 2
          /\ u[1] = first
          /\ \A j \in 1 .. Len(loadm) : u[1 + j] = loadm[j]
          /\ \A j \in 1 .. Len(loado) : u[1 + Len(loadm) + j] = loado[j]
          /\ u[Len(loadm) + Len(loado) + 2] = last
      BY <1>5a, Enclosed
    <3>2. QED
      BY <2>1, <3>1, Zenon
<1>8. ASSUME NEW i \in 1 .. a
      PROVE  /\ u[2 * i] = CtrlWrite({"LOAD_MOD"})
             /\ u[2 * i + 1] = ModulusWrite(ms[i])
  <2>1. /\ 2 * i - 1 \in 1 .. c /\ 2 * i \in 1 .. c
        /\ 1 + (2 * i - 1) = 2 * i /\ 1 + 2 * i = 2 * i + 1
    BY <1>3
  <2>2. QED
    BY <1>4, <1>7, <2>1
<1>9. ASSUME NEW j \in 1 .. b
      PROVE  /\ u[2 * a + 2 * j] = CtrlWrite({"LOAD_OP"})
             /\ u[2 * a + 2 * j + 1] = OperandWrite(os[j])
  <2>1. /\ 2 * j - 1 \in 1 .. d /\ 2 * j \in 1 .. d
        /\ 1 + c + (2 * j - 1) = 2 * a + 2 * j
        /\ 1 + c + 2 * j = 2 * a + 2 * j + 1
    BY <1>3
  <2>2. QED
    BY <1>5, <1>7, <2>1
<1>10. Len(u) = 2 * a + 2 * b + 2 /\ u[2 * a + 2 * b + 2] = last
  BY <1>3, <1>7
<1>11. LaidOut(u, ms, a, os, b)
  BY <1>1, <1>2, <1>7, <1>8, <1>9, <1>10, Zenon DEF LaidOut
<1>12. QED
  BY <1>6, <1>11

-----------------------------------------------------------------------------
(* The accelerator the driver talks to.                                    *)

\* The lemmas about the accelerator, for any words and for the operation
\* that a call of compute asks for.
ACC == INSTANCE AccelProofs WITH
  Operands <- Word, Moduli <- Word,
  job <- [x |-> LastWord(call.operand), m |-> LastWord(call.modulus)]

\* The words are the same, as operands and as moduli.
LEMMA HostWords == Word \subseteq ACC!Word /\ Word \subseteq ACC!Word
BY DEF Word, Radix, ACC!Word, ACC!Radix

\* The driver is one of the hosts that the lemmas are about.
LEMMA HostMayWrite == \A w \in DriverWrites \cup {NoWrite} : w \in ACC!Writes
<1>1. NoWrite \in ACC!Writes
  BY DEF NoWrite, ACC!Writes, ACC!NoWrite
<1>2. \A bits \in SUBSET CtrlBits : CtrlWrite(bits) \in ACC!Writes
  BY DEF CtrlWrite, CtrlBits, ACC!Writes, ACC!CtrlWrite, ACC!CtrlBits
<1>3. \A word \in Word :
        OperandWrite(word) \in ACC!Writes /\ ModulusWrite(word) \in ACC!Writes
  BY DEF OperandWrite, ModulusWrite, ACC!Writes, ACC!OperandWrite,
         ACC!ModulusWrite
<1>4. /\ {"RESET"} \in SUBSET CtrlBits /\ {"START"} \in SUBSET CtrlBits
      /\ {"LOAD_MOD"} \in SUBSET CtrlBits /\ {"LOAD_OP"} \in SUBSET CtrlBits
  BY DEF CtrlBits
<1>5. QED
  BY <1>1, <1>2, <1>3, <1>4 DEF DriverWrites, LoadWrites

\* The peripheral of the driver is the one the lemmas are about.
LEMMA SamePeripheral ==
  /\ ACC!TypeOK <=> TypeOK
  /\ ACC!TypeOK' <=> TypeOK'
  /\ ACC!Init <=> Init
  /\ ACC!HardReset <=> HardReset
BY DEF TypeOK, u_redmod!TypeOK, u_redmod!Word, u_redmod!Radix,
       u_mulmod!TypeOK, u_mulmod!Word, u_mulmod!Radix, u_mulmod!WideWord,
       u_mulmod!WideRadix, Word, Radix,
       ACC!TypeOK, ACC!u_redmod!TypeOK, ACC!u_redmod!Word,
       ACC!u_redmod!Radix, ACC!u_mulmod!TypeOK, ACC!u_mulmod!Word,
       ACC!u_mulmod!Radix, ACC!u_mulmod!WideWord, ACC!u_mulmod!WideRadix,
       ACC!Word, ACC!Radix,
       Init, u_redmod!Init, u_mulmod!Init,
       ACC!Init, ACC!u_redmod!Init, ACC!u_mulmod!Init,
       HardReset, u_redmod!Reset, u_mulmod!Reset,
       ACC!HardReset, ACC!u_redmod!Reset, ACC!u_mulmod!Reset

\* Its datapaths take the same clocks.
LEMMA SameRedmod ==
  ASSUME NEW s, NEW x, NEW m
  PROVE  ACC!u_redmod!Clock(s, x, m) <=> u_redmod!Clock(s, x, m)
BY DEF u_redmod!Clock, u_redmod!Rest, u_redmod!Latch, u_redmod!Iterate,
       u_redmod!Finish, u_redmod!LastBit, u_redmod!next_r, u_redmod!Msb,
       u_redmod!CondSub, u_redmod!ShiftLeft, u_redmod!Radix,
       ACC!u_redmod!Clock, ACC!u_redmod!Rest, ACC!u_redmod!Latch,
       ACC!u_redmod!Iterate, ACC!u_redmod!Finish, ACC!u_redmod!LastBit,
       ACC!u_redmod!next_r, ACC!u_redmod!Msb, ACC!u_redmod!CondSub,
       ACC!u_redmod!ShiftLeft, ACC!u_redmod!Radix

\* The multiplier too.
LEMMA SameMulmod ==
  ASSUME NEW s, NEW a, NEW b, NEW m
  PROVE  ACC!u_mulmod!Clock(s, a, b, m) <=> u_mulmod!Clock(s, a, b, m)
BY DEF u_mulmod!Clock, u_mulmod!Rest, u_mulmod!Latch, u_mulmod!Iterate,
       u_mulmod!Finish, u_mulmod!LastBit, u_mulmod!Step, u_mulmod!Added,
       u_mulmod!Doubled, u_mulmod!Msb, u_mulmod!CondSub,
       u_mulmod!ShiftLeft, u_mulmod!Radix, u_mulmod!WideRadix,
       ACC!u_mulmod!Clock, ACC!u_mulmod!Rest, ACC!u_mulmod!Latch,
       ACC!u_mulmod!Iterate, ACC!u_mulmod!Finish, ACC!u_mulmod!LastBit,
       ACC!u_mulmod!Step, ACC!u_mulmod!Added, ACC!u_mulmod!Doubled,
       ACC!u_mulmod!Msb, ACC!u_mulmod!CondSub, ACC!u_mulmod!ShiftLeft,
       ACC!u_mulmod!Radix, ACC!u_mulmod!WideRadix

\* And so does the peripheral as a whole.
LEMMA SameClock ==
  ASSUME NEW w
  PROVE  ACC!Clock(w) <=> Clock(w)
<1>1. ACC!Command(w) <=> Command(w)
  BY DEF Command, ResetCommand, StartCommand, LoadOpCommand, LoadModCommand,
         WriteOperand, WriteModulus, NoCommand, IsReset, IsStart, IsLoadOp,
         IsLoadMod, IsOperand, IsModulus, Ctrl,
         ACC!Command, ACC!ResetCommand, ACC!StartCommand,
         ACC!LoadOpCommand, ACC!LoadModCommand, ACC!WriteOperand,
         ACC!WriteModulus, ACC!NoCommand, ACC!IsReset, ACC!IsStart,
         ACC!IsLoadOp, ACC!IsLoadMod, ACC!IsOperand, ACC!IsModulus, ACC!Ctrl
<1>2. ACC!Pipeline(w) <=> Pipeline(w)
  BY DEF Pipeline, PassReduced, PublishProduct, ClearPipeline, RefuseStart,
         AcceptStart, HoldPipeline, Reduced, Multiplied, IsReset, IsStart,
         Ctrl,
         ACC!Pipeline, ACC!PassReduced, ACC!PublishProduct,
         ACC!ClearPipeline, ACC!RefuseStart, ACC!AcceptStart,
         ACC!HoldPipeline, ACC!Reduced, ACC!Multiplied, ACC!IsReset,
         ACC!IsStart, ACC!Ctrl
<1>3. QED
  BY <1>1, <1>2, SameRedmod, SameMulmod DEF Clock, ACC!Clock

\* What no write breaks in the peripheral.
Peripheral == TypeOK /\ ACC!Race /\ ACC!StatusCoherent

\* A write of the driver's, or none.
LEMMA PeripheralClock ==
  ASSUME Peripheral, NEW w \in DriverWrites \cup {NoWrite}, Clock(w)
  PROVE  Peripheral'
<1>1. ACC!Clock(w) /\ ACC!TypeOK /\ w \in ACC!Writes
  BY SameClock, SamePeripheral, HostMayWrite DEF Peripheral
<1>2. Word \subseteq ACC!Word /\ Word \subseteq ACC!Word
  BY HostWords
<1>3. ACC!Race'
  BY <1>1, <1>2, ACC!RaceStep, WidthAssumption, Pow2Assumption
     DEF Peripheral
<1>4. ACC!StatusCoherent'
  BY <1>1, <1>2, ACC!StatusStep, WidthAssumption, Pow2Assumption
     DEF Peripheral
<1>5. ACC!TypeOK'
  BY <1>1, <1>2, ACC!TypeNext, WidthAssumption, Pow2Assumption
     DEF Peripheral, ACC!Next, ACC!HostClock
<1>6. QED
  BY <1>3, <1>4, <1>5, SamePeripheral DEF Peripheral

\* resetn.
LEMMA PeripheralReset ==
  ASSUME Peripheral, HardReset
  PROVE  Peripheral'
<1>1. ACC!HardReset /\ ACC!TypeOK
  BY SamePeripheral DEF Peripheral
<1>2. Word \subseteq ACC!Word /\ Word \subseteq ACC!Word
  BY HostWords
<1>3. ACC!Race'
  BY <1>1, <1>2, ACC!RaceNext, WidthAssumption, Pow2Assumption
     DEF Peripheral, ACC!Next
<1>4. ACC!StatusCoherent'
  BY DEF HardReset, ACC!StatusCoherent
<1>5. ACC!TypeOK'
  BY <1>1, <1>2, ACC!TypeNext, WidthAssumption, Pow2Assumption
     DEF Peripheral, ACC!Next
<1>6. QED
  BY <1>3, <1>4, <1>5, SamePeripheral DEF Peripheral

\* Power-up.
LEMMA PeripheralInit == Init => Peripheral
<1> SUFFICES ASSUME Init PROVE Peripheral
  OBVIOUS
<1>1. ACC!Init
  BY SamePeripheral
<1>2. Word \subseteq ACC!Word /\ Word \subseteq ACC!Word
  BY HostWords
<1>3. ACC!Race
  BY <1>1, <1>2, ACC!RaceInit, WidthAssumption, Pow2Assumption
<1>4. ACC!StatusCoherent
  BY DEF Init, ACC!StatusCoherent
<1>5. ACC!TypeOK
  BY <1>1, <1>2, ACC!TypeInit, WidthAssumption, Pow2Assumption
<1>6. QED
  BY <1>3, <1>4, <1>5, SamePeripheral DEF Peripheral

-----------------------------------------------------------------------------
(* What the accelerator does for a driver, whatever it loads meanwhile.    *)

\* The pipeline and the datapaths keep step, on whatever data.
RedWorks ==
  \/ redmod_start /\ rd_state = "S_IDLE" /\ rd_cnt = 0 /\ ~redmod_done
  \/ rd_state = "S_RUN" /\ ~redmod_start /\ ~redmod_done
  \/ ACC!RedIdle /\ redmod_done

MulWorks ==
  \/ mulmod_start /\ ml_state = "S_IDLE" /\ ml_cnt = 0 /\ ~mulmod_done
  \/ ml_state = "S_RUN" /\ ~mulmod_start /\ ~mulmod_done
  \/ ACC!MulIdle /\ mulmod_done

AtRest == cstate \in {"C_IDLE", "C_DONE"} /\ ACC!AtRest

Control ==
  /\ cstate \in {"C_IDLE", "C_DONE"} => ACC!AtRest
  /\ cstate = "C_REDUCE" => flag_busy /\ ACC!MulFree /\ RedWorks
  /\ cstate = "C_MUL" => flag_busy /\ ACC!RedFree /\ MulWorks

\* They do as long as nobody resets the peripheral while it is busy.
LEMMA ControlClock ==
  ASSUME Peripheral, Control, NEW w, Clock(w), flag_busy => ~IsReset(w)
  PROVE  Control'
<1>1. Word \subseteq ACC!Word /\ Word \subseteq ACC!Word
  BY HostWords
<1>2. ACC!Clock(w) /\ ACC!TypeOK /\ ACC!StatusCoherent
  BY SameClock, SamePeripheral DEF Peripheral
<1>3. CASE cstate \in {"C_IDLE", "C_DONE"}
  <2>1. \/ cstate' \in {"C_IDLE", "C_DONE"} /\ ACC!AtRest'
        \/ /\ cstate' = "C_REDUCE" /\ flag_busy'
           /\ redmod_start'
           /\ rd_state' = "S_IDLE" /\ rd_cnt' = 0 /\ ~redmod_done'
           /\ ACC!MulFree'
    BY <1>1, <1>2, <1>3, ACC!RestStep, WidthAssumption, Pow2Assumption
       DEF Control
  <2>2. QED
    BY <2>1 DEF Control, RedWorks
<1>4. CASE cstate \in {"C_REDUCE", "C_MUL"}
  <2>1. flag_busy /\ ~IsReset(w) /\ ~IsStart(w)
    BY <1>4 DEF Control, IsStart
  <2>2. ~redmod_start'
    BY <2>1 DEF Clock, Command, ResetCommand, StartCommand, LoadOpCommand,
       LoadModCommand, WriteOperand, WriteModulus, NoCommand
  <2>3. CASE cstate = "C_REDUCE"
    <3>1. /\ ml_state' = "S_IDLE" /\ ml_cnt' = 0 /\ ~mulmod_done'
      BY <1>1, <1>2, <2>3, ACC!MulRests, WidthAssumption, Pow2Assumption
         DEF Control, ACC!MulFree
    <3>2. CASE Reduced
      <4>1. PassReduced(w)
        BY <2>1, <2>3, <3>2 DEF Clock, Pipeline, PublishProduct,
           ClearPipeline, RefuseStart, AcceptStart, HoldPipeline, Multiplied
      <4>2. ACC!RedIdle
        BY <2>3, <3>2 DEF Reduced, Control, RedWorks
      <4>3. rd_state' = "S_IDLE" /\ rd_cnt' = 0 /\ ~redmod_done'
        BY <1>1, <1>2, <4>2, ACC!RedRests, WidthAssumption, Pow2Assumption
      <4>4. cstate' = "C_MUL" /\ mulmod_start' /\ flag_busy'
        BY <2>1, <4>1 DEF PassReduced
      <4>5. QED
        BY <2>2, <3>1, <4>3, <4>4
           DEF Control, ACC!RedFree, ACC!RedIdle, MulWorks
    <3>3. CASE ~Reduced
      <4>1. /\ cstate' = "C_REDUCE" /\ flag_busy' = flag_busy
            /\ ~mulmod_start'
        BY <2>1, <2>3, <3>3 DEF Clock, Pipeline, PassReduced,
           PublishProduct, ClearPipeline, RefuseStart, AcceptStart,
           HoldPipeline, Multiplied
      <4>2. RedWorks'
        <5>1. ~redmod_done
          BY <2>3, <3>3 DEF Reduced
        <5>2. u_redmod!Clock(redmod_start, operand, modulus)
          BY DEF Clock
        <5>3. \/ rd_state' = "S_RUN" /\ ~redmod_done'
              \/ rd_state' = "S_IDLE" /\ redmod_done' /\ rd_cnt' = 0
          BY <2>3, <5>1, <5>2
             DEF Control, RedWorks, u_redmod!Clock, u_redmod!Rest,
                 u_redmod!Latch, u_redmod!Iterate, u_redmod!Finish,
                 u_redmod!LastBit
        <5>4. QED
          BY <2>2, <5>3 DEF RedWorks, ACC!RedIdle
      <4>3. QED
        BY <2>1, <3>1, <4>1, <4>2 DEF Control, ACC!MulFree, ACC!MulIdle
    <3>4. QED
      BY <3>2, <3>3
  <2>4. CASE cstate = "C_MUL"
    <3>1. /\ rd_state' = "S_IDLE" /\ rd_cnt' = 0 /\ ~redmod_done'
      BY <1>1, <1>2, <2>4, ACC!RedRests, WidthAssumption, Pow2Assumption
         DEF Control, ACC!RedFree
    <3>2. ACC!RedFree'
      BY <2>2, <3>1 DEF ACC!RedFree, ACC!RedIdle
    <3>3. CASE Multiplied
      <4>1. PublishProduct(w)
        BY <2>1, <2>4, <3>3 DEF Clock, Pipeline, PassReduced,
           ClearPipeline, RefuseStart, AcceptStart, HoldPipeline, Reduced
      <4>2. ACC!MulIdle
        BY <2>4, <3>3 DEF Multiplied, Control, MulWorks
      <4>3. ml_state' = "S_IDLE" /\ ml_cnt' = 0 /\ ~mulmod_done'
        BY <1>1, <1>2, <4>2, ACC!MulRests, WidthAssumption, Pow2Assumption
      <4>4. /\ cstate' = "C_DONE" /\ ~mulmod_start' /\ ~flag_busy'
            /\ flag_done'
        BY <4>1 DEF PublishProduct
      <4>5. ACC!AtRest'
        BY <3>2, <4>3, <4>4 DEF ACC!AtRest, ACC!MulFree, ACC!MulIdle
      <4>6. QED
        BY <4>4, <4>5 DEF Control
    <3>4. CASE ~Multiplied
      <4>1. /\ cstate' = "C_MUL" /\ flag_busy' = flag_busy
            /\ ~mulmod_start'
        BY <2>1, <2>4, <3>4 DEF Clock, Pipeline, PassReduced,
           PublishProduct, ClearPipeline, RefuseStart, AcceptStart,
           HoldPipeline, Reduced
      <4>2. MulWorks'
        <5>1. ~mulmod_done
          BY <2>4, <3>4 DEF Multiplied
        <5>2. u_mulmod!Clock(mulmod_start, a_reduced, a_reduced, modulus)
          BY DEF Clock
        <5>3. \/ ml_state' = "S_RUN" /\ ~mulmod_done'
              \/ ml_state' = "S_IDLE" /\ mulmod_done' /\ ml_cnt' = 0
          BY <2>4, <5>1, <5>2
             DEF Control, MulWorks, u_mulmod!Clock, u_mulmod!Rest,
                 u_mulmod!Latch, u_mulmod!Iterate, u_mulmod!Finish,
                 u_mulmod!LastBit
        <5>4. QED
          BY <4>1, <5>3 DEF MulWorks, ACC!MulIdle
      <4>3. QED
        BY <2>1, <3>2, <4>1, <4>2 DEF Control
    <3>5. QED
      BY <3>3, <3>4
  <2>5. QED
    BY <1>4, <2>3, <2>4
<1>5. QED
  BY <1>3, <1>4 DEF Peripheral, TypeOK

\* A clock at rest in which no command starts or stops anything.
LEMMA QuietClock ==
  ASSUME Peripheral, NEW w, Clock(w), ~IsReset(w), ~IsStart(w),
         cstate \in {"C_IDLE", "C_DONE"}, ACC!AtRest
  PROVE  /\ UNCHANGED <<cstate, result, flag_busy, flag_done, flag_error>>
         /\ ACC!AtRest'
<1>1. Word \subseteq ACC!Word /\ Word \subseteq ACC!Word
  BY HostWords
<1>2. UNCHANGED <<cstate, result, flag_busy, flag_done>>
  BY DEF Clock, Pipeline, PassReduced, PublishProduct, ClearPipeline,
         RefuseStart, AcceptStart, HoldPipeline, Reduced, Multiplied
<1>3. UNCHANGED flag_error
  BY DEF Clock, Command, ResetCommand, StartCommand, LoadOpCommand,
         LoadModCommand, WriteOperand, WriteModulus, NoCommand
<1>4. ACC!Clock(w) /\ ~ACC!IsStart(w)
  BY SameClock DEF IsStart, IsReset, Ctrl, ACC!IsStart, ACC!IsReset, ACC!Ctrl
<1>5. ACC!AtRest'
  BY <1>1, <1>4, ACC!RestStep, WidthAssumption, Pow2Assumption
     DEF Peripheral
<1>6. QED
  BY <1>2, <1>3, <1>5

-----------------------------------------------------------------------------
(* What a write of compute does to an accelerator at rest.                 *)

\* No load resets the peripheral or starts it.
LEMMA LoadsOnly ==
  ASSUME NEW w \in LoadWrites \cup {NoWrite}
  PROVE  ~IsReset(w) /\ ~IsStart(w)
BY DEF LoadWrites, IsReset, IsStart, Ctrl, NoWrite, CtrlWrite, OperandWrite,
       ModulusWrite

\* Without a write the registers of the commands stay.
LEMMA NothingWritten ==
  ASSUME Clock(NoWrite)
  PROVE  UNCHANGED <<operand, modulus, flag_error, load_op_armed,
                     load_mod_armed>>
BY DEF Clock, Command, ResetCommand, StartCommand, LoadOpCommand,
       LoadModCommand, WriteOperand, WriteModulus, NoCommand, IsReset,
       IsStart, IsLoadOp, IsLoadMod, IsOperand, IsModulus, Ctrl, NoWrite

\* RESET leaves nothing loaded.
LEMMA ResetTaken ==
  ASSUME Peripheral, AtRest, Clock(CtrlWrite({"RESET"}))
  PROVE  /\ cstate' = "C_IDLE" /\ ACC!AtRest'
         /\ modulus' = 0 /\ operand' = 0
<1> DEFINE w == CtrlWrite({"RESET"})
<1>1. IsReset(w) /\ ~IsStart(w) /\ ~IsLoadOp(w) /\ ~IsLoadMod(w)
  BY DEF IsReset, IsStart, IsLoadOp, IsLoadMod, Ctrl, CtrlWrite
<1>2. ~IsOperand(w) /\ ~IsModulus(w)
  BY DEF IsOperand, IsModulus, CtrlWrite
<1>3. Clock(w)
  OBVIOUS
<1> HIDE DEF w
<1>4. modulus' = 0 /\ operand' = 0
  BY <1>1, <1>2, <1>3 DEF Clock, Command, ResetCommand, StartCommand,
     LoadOpCommand, LoadModCommand, WriteOperand, WriteModulus, NoCommand
<1>5. cstate' = "C_IDLE"
  BY <1>1, <1>3 DEF AtRest, Clock, Pipeline, PassReduced, PublishProduct,
     ClearPipeline, RefuseStart, AcceptStart, HoldPipeline, Reduced,
     Multiplied
<1>6. ACC!Clock(w) /\ ~ACC!IsStart(w)
  BY <1>1, <1>3, SameClock
     DEF IsStart, IsReset, Ctrl, ACC!IsStart, ACC!IsReset, ACC!Ctrl
<1>7. ACC!AtRest'
  BY <1>6, HostWords, ACC!RestStep, WidthAssumption, Pow2Assumption
     DEF Peripheral, AtRest
<1>8. QED
  BY <1>4, <1>5, <1>7

\* A word announced and then given is loaded, and nothing else changes.
LEMMA LoadTaken ==
  ASSUME Peripheral, cstate = "C_IDLE", ACC!AtRest, NEW word \in Word
  PROVE  /\ Clock(CtrlWrite({"LOAD_MOD"})) =>
              /\ cstate' = "C_IDLE" /\ ACC!AtRest' /\ load_mod_armed'
              /\ UNCHANGED <<modulus, operand>>
         /\ Clock(CtrlWrite({"LOAD_OP"})) =>
              /\ cstate' = "C_IDLE" /\ ACC!AtRest' /\ load_op_armed'
              /\ UNCHANGED <<modulus, operand>>
         /\ Clock(ModulusWrite(word)) /\ load_mod_armed =>
              /\ cstate' = "C_IDLE" /\ ACC!AtRest' /\ modulus' = word
              /\ UNCHANGED operand
         /\ Clock(OperandWrite(word)) /\ load_op_armed =>
              /\ cstate' = "C_IDLE" /\ ACC!AtRest' /\ operand' = word
              /\ UNCHANGED modulus
<1>1. ASSUME NEW w \in LoadWrites, Clock(w)
      PROVE  cstate' = "C_IDLE" /\ ACC!AtRest' /\ Command(w)
  BY <1>1, LoadsOnly, QuietClock DEF Clock
<1>2. /\ CtrlWrite({"LOAD_MOD"}) \in LoadWrites
      /\ CtrlWrite({"LOAD_OP"}) \in LoadWrites
      /\ ModulusWrite(word) \in LoadWrites
      /\ OperandWrite(word) \in LoadWrites
  BY DEF LoadWrites
<1> USE DEF Command, ResetCommand, StartCommand, LoadOpCommand,
            LoadModCommand, WriteOperand, WriteModulus, NoCommand, IsReset,
            IsStart, IsLoadOp, IsLoadMod, IsOperand, IsModulus, Ctrl
<1>3. Command(CtrlWrite({"LOAD_MOD"})) =>
        load_mod_armed' /\ UNCHANGED <<modulus, operand>>
  BY DEF CtrlWrite
<1>4. Command(CtrlWrite({"LOAD_OP"})) =>
        load_op_armed' /\ UNCHANGED <<modulus, operand>>
  BY DEF CtrlWrite
<1>5. Command(ModulusWrite(word)) /\ load_mod_armed =>
        modulus' = word /\ UNCHANGED operand
  BY DEF ModulusWrite
<1>6. Command(OperandWrite(word)) /\ load_op_armed =>
        operand' = word /\ UNCHANGED modulus
  BY DEF OperandWrite
<1> HIDE DEF Command
<1>7. QED
  BY <1>1, <1>2, <1>3, <1>4, <1>5, <1>6

-----------------------------------------------------------------------------
(* The operation a call of compute asks for.                               *)

m == LastWord(call.modulus)
x == LastWord(call.operand)

Refused == cstate = "C_IDLE" /\ ACC!AtRest /\ flag_error
Squaring == cstate \in {"C_REDUCE", "C_MUL"} /\ ACC!CInv
Squared ==
  /\ cstate = "C_DONE" /\ ACC!AtRest /\ ~flag_error
  /\ result = (x * x) % m

\* START refuses a zero modulus and takes any other.
LEMMA StartTaken ==
  ASSUME Peripheral, cstate = "C_IDLE", ACC!AtRest, modulus = m, operand = x,
         Clock(CtrlWrite({"START"})), call' = call
  PROVE  IF m = 0 THEN Refused' ELSE Squaring'
<1> DEFINE w == CtrlWrite({"START"})
<1>1. ACC!Clock(w) /\ ACC!IsStart(w) /\ IsStart(w)
  BY SameClock
     DEF ACC!IsStart, ACC!IsReset, ACC!Ctrl, IsStart, IsReset, Ctrl,
         CtrlWrite
<1>2. ACC!TypeOK /\ ACC!StatusCoherent
  BY SamePeripheral DEF Peripheral
<1>3. ~IsReset(w) /\ ~IsLoadOp(w) /\ ~IsLoadMod(w) /\ ~IsOperand(w)
      /\ ~IsModulus(w)
  BY <1>1 DEF IsStart, IsLoadOp, IsLoadMod, IsOperand, IsModulus, CtrlWrite
<1>4. Clock(w)
  OBVIOUS
<1> HIDE DEF w
<1>5. StartCommand(w)
  BY <1>1, <1>3, <1>4 DEF Clock, Command, ResetCommand, LoadOpCommand,
     LoadModCommand, WriteOperand, WriteModulus, NoCommand
<1>6. RefuseStart(w) \/ AcceptStart(w)
  BY <1>1, <1>3, <1>4 DEF Clock, Pipeline, PassReduced, PublishProduct,
     ClearPipeline, HoldPipeline, Reduced, Multiplied
<1>7. \/ /\ cstate' \in {"C_IDLE", "C_DONE"} /\ ACC!AtRest'
         /\ ~(ACC!IsStart(w) /\ modulus # 0)
      \/ /\ ACC!IsStart(w) /\ modulus # 0
         /\ cstate' = "C_REDUCE" /\ flag_busy'
         /\ redmod_start' /\ operand' = operand /\ modulus' = modulus
         /\ rd_state' = "S_IDLE" /\ rd_cnt' = 0 /\ ~redmod_done'
         /\ ACC!MulFree'
  BY <1>1, <1>2, HostWords, ACC!RestStep, WidthAssumption, Pow2Assumption
<1>8. CASE m = 0
  <2>1. ACC!AtRest'
    BY <1>7, <1>8
  <2>2. cstate' = "C_IDLE" /\ flag_error'
    BY <1>5, <1>6, <1>8 DEF StartCommand, RefuseStart, AcceptStart
  <2>3. QED
    BY <1>8, <2>1, <2>2 DEF Refused
<1>9. CASE m # 0
  <2>1. cstate' = "C_REDUCE"
    BY <1>6, <1>9 DEF RefuseStart, AcceptStart
  <2>2. /\ flag_busy' /\ redmod_start' /\ operand' = operand
        /\ modulus' = modulus
        /\ rd_state' = "S_IDLE" /\ rd_cnt' = 0 /\ ~redmod_done'
        /\ ACC!MulFree'
    BY <1>7, <2>1, <1>1, <1>9
  <2>3. [x |-> LastWord(call'.operand), m |-> LastWord(call'.modulus)]
        = [x |-> operand, m |-> modulus]
    BY DEF m, x
  <2>4. ACC!Reducing'
    BY <1>1, <1>2, <1>9, <2>1, <2>2, <2>3, HostWords, ACC!StartsJob,
       WidthAssumption, Pow2Assumption
  <2>5. QED
    BY <1>9, <2>1, <2>4 DEF Squaring, ACC!CInv
<1>10. QED
  BY <1>8, <1>9

\* While the driver polls, an operation goes on or ends with its answer.
LEMMA PolledClock ==
  ASSUME Peripheral, Clock(NoWrite), call' = call
  PROVE  /\ Refused => Refused' /\ ~flag_busy
         /\ Squared => Squared' /\ ~flag_busy
         /\ Squaring => (Squaring' \/ Squared') /\ flag_busy
<1>1. UNCHANGED flag_error
  BY NothingWritten
<1>2. ASSUME AtRest
      PROVE  UNCHANGED <<cstate, result>> /\ ACC!AtRest' /\ ~flag_busy
  <2>1. ~IsReset(NoWrite) /\ ~IsStart(NoWrite)
    BY LoadsOnly
  <2>2. QED
    BY <1>2, <2>1, QuietClock DEF AtRest, ACC!AtRest
<1>3. m' = m /\ x' = x
  BY DEF m, x
<1>4. Refused => Refused' /\ ~flag_busy
  BY <1>1, <1>2 DEF Refused, AtRest
<1>5. Squared => Squared' /\ ~flag_busy
  BY <1>1, <1>2, <1>3 DEF Squared, AtRest
<1>6. ASSUME Squaring PROVE (Squaring' \/ Squared') /\ flag_busy
  <2>1. /\ ACC!Clock(NoWrite) /\ ACC!Careful(NoWrite) /\ ACC!TypeOK
        /\ ACC!StatusCoherent
    BY SameClock, SamePeripheral
       DEF Peripheral, ACC!Careful, ACC!IsReset, ACC!IsModulus, ACC!Ctrl,
           NoWrite
  <2>2. [x |-> LastWord(call'.operand), m |-> LastWord(call'.modulus)]
        = [x |-> LastWord(call.operand), m |-> LastWord(call.modulus)]
    OBVIOUS
  <2>3. CASE cstate = "C_REDUCE"
    <3>1. ACC!Reducing
      BY <1>6, <2>3 DEF Squaring, ACC!CInv
    <3>2. \/ cstate' = "C_REDUCE" /\ ACC!Reducing'
          \/ cstate' = "C_MUL" /\ ACC!Multiplying'
      BY <2>1, <2>2, <2>3, <3>1, HostWords, ACC!ReduceStep,
         WidthAssumption, Pow2Assumption
    <3>3. flag_busy
      BY <3>1 DEF ACC!Reducing, ACC!InFlight
    <3>4. QED
      BY <3>2, <3>3 DEF Squaring, ACC!CInv
  <2>4. CASE cstate = "C_MUL"
    <3>1. ACC!Multiplying
      BY <1>6, <2>4 DEF Squaring, ACC!CInv
    <3>2. \/ cstate' = "C_MUL" /\ ACC!Multiplying'
          \/ /\ cstate' = "C_DONE" /\ ACC!AtRest'
             /\ result' = (x * x) % m
      BY <2>1, <2>2, <2>4, <3>1, HostWords, ACC!MultiplyStep,
         WidthAssumption, Pow2Assumption DEF x, m
    <3>3. flag_busy
      BY <3>1 DEF ACC!Multiplying, ACC!InFlight
    <3>4. ~flag_error
      BY <2>1, <2>4 DEF ACC!StatusCoherent
    <3>5. QED
      BY <1>1, <1>3, <3>2, <3>3, <3>4 DEF Squaring, Squared, ACC!CInv
  <2>5. QED
    BY <1>6, <2>3, <2>4 DEF Squaring
<1>7. QED
  BY <1>4, <1>5, <1>6

-----------------------------------------------------------------------------
(* The program calls methods and the driver makes their writes in order.   *)

\* The writes a call has made, and the words it was given.
Made == Len(Writes(call)) - Len(todo)
mods == Len(call.modulus)
ops == Len(call.operand)

\* What is left to write is the end of what the call writes.
Remaining ==
  /\ todo \in Seq(DriverWrites)
  /\ Len(todo) <= Len(Writes(call))
  /\ \A i \in 1 .. Len(todo) : todo[i] = Writes(call)[Made + i]

Shape ==
  /\ call \in Calls \cup {NoCall}
  /\ pc \in {"idle", "write", "poll", "check", "read"}
  /\ pending \in {"none", "start", "lost"}
  /\ Remaining
  /\ pc = "write" <=> todo # <<>>
  /\ pc \in {"poll", "check", "read"} => Waits(call)
  /\ call.method = "start" => pending # "none"
  /\ call.method \in {"reset", "compute", "wait_and_read_result"} =>
       pending # "start"

\* After k writes of compute: an announced word is awaited, and the last
\* word of a slice is in its register once the slice is through.
Loaded(k) ==
  k > 0 =>
    /\ cstate = "C_IDLE" /\ ACC!AtRest
    /\ \A i \in 1 .. mods : k = 2 * i => load_mod_armed
    /\ k > 2 * mods => modulus = m
    /\ \A j \in 1 .. ops : k = 2 * mods + 2 * j => load_op_armed
    /\ (ops = 0 \/ k > 2 * mods + 2 * ops) => operand = x

\* How far compute is, and what the accelerator has of it then.
Stage ==
  /\ pc = "write" => Loaded(Made)
  /\ pc = "poll" => IF m = 0 THEN Refused ELSE Squaring \/ Squared
  /\ pc = "check" => IF m = 0 THEN Refused ELSE Squared
  /\ pc = "read" => m # 0 /\ Squared
  /\ pc = "idle" => ret = Expected(call)

DInv ==
  /\ Peripheral
  /\ Shape
  /\ ret \in {None, Err} \cup {Ok(word) : word \in Word}
  /\ pending # "lost" => Control
  /\ (pending = "none" /\ pc # "poll") => AtRest
  /\ (pending = "none" /\ call.method = "compute") => Stage

\* The slices of a call are sequences of words.
LEMMA CallSlices ==
  ASSUME NEW c \in Calls
  PROVE  c.modulus \in Seq(Word) /\ c.operand \in Seq(Word)
<1>1. <<>> \in Seq(Word)
  OBVIOUS
<1>2. PICK M \in SUBSET Seq(Word), O \in SUBSET Seq(Word), t \in Methods :
        c \in [method : {t}, modulus : M, operand : O]
  <2>1. /\ {<<>>} \in SUBSET Seq(Word) /\ ModulusArgs \in SUBSET Seq(Word)
        /\ OperandArgs \in SUBSET Seq(Word)
    BY <1>1, ArgsAssumption
  <2>2. PICK t \in Methods :
          c \in [method : {t},
                 modulus : IF t \in {"compute", "load_modulus"}
                           THEN ModulusArgs ELSE {<<>>},
                 operand : IF t \in {"compute", "load_operand"}
                           THEN OperandArgs ELSE {<<>>}]
    BY DEF Calls
  <2>3. /\ (IF t \in {"compute", "load_modulus"}
            THEN ModulusArgs ELSE {<<>>}) \in SUBSET Seq(Word)
        /\ (IF t \in {"compute", "load_operand"}
            THEN OperandArgs ELSE {<<>>}) \in SUBSET Seq(Word)
    BY <2>1, Zenon
  <2>4. QED
    BY <2>2, <2>3, Zenon
<1>3. QED
  BY <1>2

\* No method writes anything but what the driver writes, a load method
\* nothing but loads.
LEMMA WritesOfCalls ==
  ASSUME NEW c \in Calls \cup {NoCall}
  PROVE  /\ Writes(c) \in Seq(DriverWrites)
         /\ c.method \notin {"reset", "start", "compute"} =>
              Writes(c) \in Seq(LoadWrites)
<1>1. LoadWrites \subseteq DriverWrites
  BY DEF DriverWrites
<1>2. <<>> \in Seq(LoadWrites) /\ <<>> \in Seq(DriverWrites)
  OBVIOUS
<1>3. reset \in Seq(DriverWrites) /\ start \in Seq(DriverWrites)
  <2>1. /\ CtrlWrite({"RESET"}) \in DriverWrites
        /\ CtrlWrite({"START"}) \in DriverWrites
    BY DEF DriverWrites
  <2>2. QED
    BY <2>1 DEF reset, start
<1>4. CASE c = NoCall
  BY <1>2, <1>4 DEF Writes, NoCall
<1>5. CASE c \in Calls
  <2>1. c.modulus \in Seq(Word) /\ c.operand \in Seq(Word)
    BY <1>5, CallSlices
  <2>2. PICK ms \in Seq(Word), os \in Seq(Word), a \in Nat, b \in Nat :
          /\ ms = c.modulus /\ os = c.operand
          /\ a = Len(ms) /\ b = Len(os)
    BY <2>1
  <2>3. /\ load_modulus(ms) \in Seq(LoadWrites)
        /\ load_operand(os) \in Seq(LoadWrites)
    BY <2>2, LoadsInPairs
  <2>4. compute(ms, os) \in Seq(DriverWrites)
    BY <2>2, ComputeWrites DEF LaidOut
  <2>5. /\ load_modulus(ms) \in Seq(DriverWrites)
        /\ load_operand(os) \in Seq(DriverWrites)
    BY <1>1, <2>3, SeqMonotonic
  <2>6. QED
    BY <1>2, <1>3, <2>2, <2>3, <2>4, <2>5 DEF Writes
<1>6. QED
  BY <1>4, <1>5

\* The write taken next, and what is left after it.
LEMMA NextWrite ==
  ASSUME NEW S, NEW u \in Seq(S), NEW l \in Seq(S), l # <<>>,
         Len(l) <= Len(u),
         \A i \in 1 .. Len(l) : l[i] = u[Len(u) - Len(l) + i]
  PROVE  /\ Head(l) \in S /\ Head(l) = u[Len(u) - Len(l) + 1]
         /\ Tail(l) \in Seq(S)
         /\ Len(u) - Len(Tail(l)) = (Len(u) - Len(l)) + 1
         /\ Len(u) - Len(l) \in 0 .. Len(u) - 1
         /\ Len(Tail(l)) <= Len(u)
         /\ \A i \in 1 .. Len(Tail(l)) :
              Tail(l)[i] = u[Len(u) - Len(Tail(l)) + i]
<1>1. PICK a \in Nat, b \in Nat : a = Len(u) /\ b = Len(l)
  OBVIOUS
<1>2. /\ Tail(l) \in Seq(S) /\ Len(Tail(l)) = Len(l) - 1
      /\ \A i \in 1 .. Len(Tail(l)) : Tail(l)[i] = l[i + 1]
  BY HeadTailProperties
<1>3. b # 0
  BY <1>1
<1>4. Len(Tail(l)) = b - 1
  BY <1>1, <1>2
<1>5. Head(l) = l[1] /\ l[1] \in S
  BY <1>1, <1>3
<1>6. \A i \in 1 .. b : l[i] = u[a - b + i]
  BY <1>1
<1>7. l[1] = u[a - b + 1]
  BY <1>3, <1>6
<1>8. ASSUME NEW i \in 1 .. b - 1 PROVE Tail(l)[i] = u[a - (b - 1) + i]
  <2>1. i + 1 \in 1 .. b /\ a - b + (i + 1) = a - (b - 1) + i
    OBVIOUS
  <2>2. QED
    BY <1>2, <1>4, <1>6, <2>1
<1>9. /\ a - (b - 1) = (a - b) + 1 /\ a - b \in 0 .. a - 1 /\ b - 1 <= a
  BY <1>1, <1>3
<1>10. QED
  BY <1>1, <1>2, <1>4, <1>5, <1>7, <1>8, <1>9

\* One write of a call.
LEMMA WriteOfCall ==
  ASSUME Shape, pc = "write", todo' = Tail(todo), call' = call
  PROVE  /\ Head(todo) \in DriverWrites
         /\ Head(todo) = Writes(call)[Made + 1]
         /\ call.method \notin {"reset", "start", "compute"} =>
              Head(todo) \in LoadWrites
         /\ Made \in 0 .. Len(Writes(call)) - 1 /\ Made' = Made + 1
         /\ Remaining'
<1>1. PICK u \in Seq(DriverWrites), l \in Seq(DriverWrites) :
        u = Writes(call) /\ l = todo
  BY WritesOfCalls DEF Shape, Remaining
<1>2. /\ l # <<>> /\ Len(l) <= Len(u)
      /\ \A i \in 1 .. Len(l) : l[i] = u[Len(u) - Len(l) + i]
  BY <1>1 DEF Shape, Remaining, Made
<1>3. /\ Head(l) \in DriverWrites /\ Head(l) = u[Len(u) - Len(l) + 1]
      /\ Tail(l) \in Seq(DriverWrites)
      /\ Len(u) - Len(Tail(l)) = (Len(u) - Len(l)) + 1
      /\ Len(u) - Len(l) \in 0 .. Len(u) - 1
      /\ Len(Tail(l)) <= Len(u)
      /\ \A i \in 1 .. Len(Tail(l)) :
           Tail(l)[i] = u[Len(u) - Len(Tail(l)) + i]
  BY <1>2, NextWrite
<1>4. todo' = Tail(l) /\ Writes(call') = u
  BY <1>1
<1>5. Made = Len(u) - Len(l) /\ Made' = Len(u) - Len(Tail(l))
  BY <1>1, <1>4 DEF Made
<1>6. Remaining'
  BY <1>3, <1>4, <1>5 DEF Remaining
<1>7. ASSUME call.method \notin {"reset", "start", "compute"}
      PROVE  Head(l) \in LoadWrites
  <2>1. u \in Seq(LoadWrites)
    BY <1>1, <1>7, WritesOfCalls DEF Shape
  <2>2. Len(u) - Len(l) + 1 \in 1 .. Len(u)
    BY <1>3
  <2>3. QED
    BY <1>3, <2>1, <2>2
<1>8. QED
  BY <1>1, <1>3, <1>5, <1>6, <1>7

\* A call has made some number of writes.
LEMMA MadeCounts ==
  ASSUME Shape
  PROVE  Made \in Nat
<1>1. PICK u \in Seq(DriverWrites), l \in Seq(DriverWrites) :
        u = Writes(call) /\ l = todo /\ Len(l) <= Len(u)
  BY WritesOfCalls DEF Shape, Remaining
<1>2. QED
  BY <1>1 DEF Made

\* What the last word of a slice is.
LEMMA LastOf ==
  ASSUME NEW words \in Seq(Word), NEW n \in Nat, Len(words) = n
  PROVE  /\ n = 0 => LastWord(words) = 0
         /\ n # 0 => LastWord(words) = words[n]
         /\ \A i \in 1 .. n : words[i] \in Word
BY DEF LastWord, Last

\* A write of compute before the last: another word is announced or loaded.
LEMMA LoadedStep ==
  ASSUME Peripheral, AtRest, call \in Calls, call.method = "compute",
         NEW k \in Nat, k <= 2 * mods + 2 * ops, Loaded(k),
         Clock(Writes(call)[k + 1]), call' = call
  PROVE  Loaded(k + 1)'
<1>1. PICK ms \in Seq(Word), os \in Seq(Word), a \in Nat, b \in Nat :
        /\ ms = call.modulus /\ os = call.operand
        /\ Len(ms) = a /\ Len(os) = b
  BY CallSlices
<1>2. mods = a /\ ops = b /\ mods' = a /\ ops' = b
  BY <1>1 DEF mods, ops
<1>3. m = LastWord(ms) /\ m' = LastWord(ms)
      /\ x = LastWord(os) /\ x' = LastWord(os)
  BY <1>1 DEF m, x
<1>4. PICK u : u = compute(ms, os)
  OBVIOUS
<1>5. Clock(u[k + 1])
  BY <1>1, <1>4 DEF Writes
<1>6. /\ u[1] = CtrlWrite({"RESET"})
      /\ \A i \in 1 .. a : /\ u[2 * i] = CtrlWrite({"LOAD_MOD"})
                           /\ u[2 * i + 1] = ModulusWrite(ms[i])
      /\ \A j \in 1 .. b :
           /\ u[2 * a + 2 * j] = CtrlWrite({"LOAD_OP"})
           /\ u[2 * a + 2 * j + 1] = OperandWrite(os[j])
  <2>1. LaidOut(u, ms, a, os, b)
    BY <1>1, <1>4, ComputeWrites
  <2>2. QED
    BY <2>1 DEF LaidOut
<1>7. /\ a = 0 => LastWord(ms) = 0
      /\ a # 0 => LastWord(ms) = ms[a]
      /\ \A i \in 1 .. a : ms[i] \in Word
      /\ b = 0 => LastWord(os) = 0
      /\ b # 0 => LastWord(os) = os[b]
      /\ \A j \in 1 .. b : os[j] \in Word
  BY <1>1, LastOf
<1>8. /\ k <= 2 * a + 2 * b
      /\ k > 0 =>
           /\ cstate = "C_IDLE" /\ ACC!AtRest
           /\ \A i \in 1 .. a : k = 2 * i => load_mod_armed
           /\ k > 2 * a => modulus = LastWord(ms)
           /\ \A j \in 1 .. b : k = 2 * a + 2 * j => load_op_armed
           /\ (b = 0 \/ k > 2 * a + 2 * b) => operand = LastWord(os)
  BY <1>2, <1>3 DEF Loaded
<1>9. SUFFICES
        /\ cstate' = "C_IDLE" /\ ACC!AtRest'
        /\ \A i \in 1 .. a : k + 1 = 2 * i => load_mod_armed'
        /\ k + 1 > 2 * a => modulus' = LastWord(ms)
        /\ \A j \in 1 .. b : k + 1 = 2 * a + 2 * j => load_op_armed'
        /\ (b = 0 \/ k + 1 > 2 * a + 2 * b) => operand' = LastWord(os)
  BY <1>2, <1>3 DEF Loaded
<1>10. CASE k = 0
  <2>1. /\ cstate' = "C_IDLE" /\ ACC!AtRest'
        /\ modulus' = 0 /\ operand' = 0
    BY <1>5, <1>6, <1>10, ResetTaken
  <2>2. /\ \A i \in 1 .. a : k + 1 # 2 * i
        /\ \A j \in 1 .. b : k + 1 # 2 * a + 2 * j
    BY <1>10
  <2>3. /\ k + 1 > 2 * a => a = 0
        /\ k + 1 > 2 * a + 2 * b => b = 0
    BY <1>10
  <2>4. QED
    BY <1>7, <2>1, <2>2, <2>3
<1>11. ASSUME k > 0
       PROVE  \/ \E i \in 1 .. a : k + 1 = 2 * i \/ k + 1 = 2 * i + 1
              \/ \E j \in 1 .. b : \/ k + 1 = 2 * a + 2 * j
                                   \/ k + 1 = 2 * a + 2 * j + 1
  <2>1. PICK h \in Nat : k + 1 = 2 * h \/ k + 1 = 2 * h + 1
    <3>1. (k + 1) \div 2 \in Nat
          /\ \/ k + 1 = 2 * ((k + 1) \div 2)
             \/ k + 1 = 2 * ((k + 1) \div 2) + 1
      OBVIOUS
    <3>2. QED
      BY <3>1, Zenon
  <2>2. h \in 1 .. a + b
    BY <1>8, <1>11, <2>1
  <2>3. CASE h <= a
    <3>1. h \in 1 .. a
      BY <2>2, <2>3
    <3>2. QED
      BY <2>1, <3>1
  <2>4. CASE ~(h <= a)
    <3>1. PICK j \in 1 .. b : h = a + j
      <4>1. h - a \in 1 .. b /\ h = a + (h - a)
        BY <2>2, <2>4
      <4>2. QED
        BY <4>1
    <3>2. 2 * h = 2 * a + 2 * j
      BY <3>1
    <3>3. QED
      BY <2>1, <3>2
  <2>5. QED
    BY <2>3, <2>4
<1>12. CASE \E i \in 1 .. a : k + 1 = 2 * i
  <2>1. PICK i \in 1 .. a : k + 1 = 2 * i
    BY <1>12
  <2>2. /\ k > 0 /\ ~(k + 1 > 2 * a) /\ ~(k + 1 > 2 * a + 2 * b)
        /\ \A j \in 1 .. b : k + 1 # 2 * a + 2 * j
    BY <2>1
  <2>3. Clock(CtrlWrite({"LOAD_MOD"}))
    BY <1>5, <1>6, <2>1
  <2>4. /\ cstate' = "C_IDLE" /\ ACC!AtRest' /\ load_mod_armed'
        /\ operand' = operand
    BY <1>8, <2>2, <2>3, LoadTaken DEF Peripheral, TypeOK
  <2>5. QED
    BY <1>8, <2>2, <2>4
<1>13. CASE \E i \in 1 .. a : k + 1 = 2 * i + 1
  <2>1. PICK i \in 1 .. a : k + 1 = 2 * i + 1
    BY <1>13
  <2>2. /\ k > 0 /\ k = 2 * i
        /\ \A h \in 1 .. a : k + 1 # 2 * h
        /\ \A j \in 1 .. b : k + 1 # 2 * a + 2 * j
        /\ k + 1 > 2 * a => i = a /\ a # 0
        /\ k + 1 > 2 * a + 2 * b => b = 0
    BY <2>1
  <2>3. Clock(ModulusWrite(ms[i])) /\ ms[i] \in Word /\ load_mod_armed
    BY <1>5, <1>6, <1>7, <1>8, <2>1, <2>2
  <2>4. /\ cstate' = "C_IDLE" /\ ACC!AtRest' /\ modulus' = ms[i]
        /\ operand' = operand
    BY <1>8, <2>2, <2>3, LoadTaken
  <2>5. QED
    BY <1>7, <1>8, <2>2, <2>4
<1>14. CASE \E j \in 1 .. b : k + 1 = 2 * a + 2 * j
  <2>1. PICK j \in 1 .. b : k + 1 = 2 * a + 2 * j
    BY <1>14
  <2>2. /\ k > 0 /\ k > 2 * a /\ b # 0 /\ ~(k + 1 > 2 * a + 2 * b)
        /\ \A i \in 1 .. a : k + 1 # 2 * i
    BY <2>1
  <2>3. Clock(CtrlWrite({"LOAD_OP"}))
    BY <1>5, <1>6, <2>1
  <2>4. /\ cstate' = "C_IDLE" /\ ACC!AtRest' /\ load_op_armed'
        /\ modulus' = modulus
    BY <1>8, <2>2, <2>3, LoadTaken DEF Peripheral, TypeOK
  <2>5. QED
    BY <1>8, <2>2, <2>4
<1>15. CASE \E j \in 1 .. b : k + 1 = 2 * a + 2 * j + 1
  <2>1. PICK j \in 1 .. b : k + 1 = 2 * a + 2 * j + 1
    BY <1>15
  <2>2. /\ k > 0 /\ k > 2 * a /\ k = 2 * a + 2 * j /\ b # 0
        /\ \A i \in 1 .. a : k + 1 # 2 * i
        /\ \A h \in 1 .. b : k + 1 # 2 * a + 2 * h
        /\ k + 1 > 2 * a + 2 * b => j = b
    BY <2>1
  <2>3. Clock(OperandWrite(os[j])) /\ os[j] \in Word /\ load_op_armed
    BY <1>5, <1>6, <1>7, <1>8, <2>1, <2>2
  <2>4. /\ cstate' = "C_IDLE" /\ ACC!AtRest' /\ operand' = os[j]
        /\ modulus' = modulus
    BY <1>8, <2>2, <2>3, LoadTaken
  <2>5. QED
    BY <1>7, <1>8, <2>2, <2>4
<1>16. QED
  <2>1. k = 0 \/ k > 0
    OBVIOUS
  <2>2. CASE k > 0
    <3>1. \/ \E i \in 1 .. a : k + 1 = 2 * i
          \/ \E i \in 1 .. a : k + 1 = 2 * i + 1
          \/ \E j \in 1 .. b : k + 1 = 2 * a + 2 * j
          \/ \E j \in 1 .. b : k + 1 = 2 * a + 2 * j + 1
      BY <1>11, <2>2, Zenon
    <3>2. QED
      BY <1>12, <1>13, <1>14, <1>15, <3>1, Zenon
  <2>3. QED
    BY <1>10, <2>1, <2>2, Zenon

-----------------------------------------------------------------------------
(* Every action of the driver keeps DInv.                                  *)

\* The accelerator does not move between its clocks.
LEMMA Unmoved ==
  ASSUME UNCHANGED accelVars
  PROVE  /\ Peripheral => Peripheral'
         /\ Control => Control'
         /\ AtRest => AtRest'
         /\ call' = call => /\ Refused => Refused'
                            /\ Squared => Squared'
                            /\ Squaring => Squaring'
                            /\ \A k \in Nat : Loaded(k) => Loaded(k)'
<1> USE DEF accelVars, commandVars, pipelineVars, rdVars, mlVars
<1>1. UNCHANGED <<ACC!RedIdle, ACC!RedFree, ACC!MulIdle, ACC!MulFree,
                  ACC!AtRest, ACC!StatusCoherent>>
  BY DEF ACC!RedIdle, ACC!RedFree, ACC!MulIdle, ACC!MulFree, ACC!AtRest,
         ACC!StatusCoherent
<1>2. UNCHANGED ACC!Race
  BY DEF ACC!Race, ACC!MulStartKept, ACC!MulLeft
<1>3. UNCHANGED TypeOK
  BY DEF TypeOK, u_redmod!TypeOK, u_mulmod!TypeOK
<1>4. Control => Control'
  BY <1>1 DEF Control, RedWorks, MulWorks
<1>5. ASSUME call' = call
      PROVE  /\ Refused => Refused'
             /\ Squared => Squared'
             /\ Squaring => Squaring'
             /\ \A k \in Nat : Loaded(k) => Loaded(k)'
  <2>1. UNCHANGED <<m, x, mods, ops>>
    BY <1>5 DEF m, x, mods, ops
  <2>2. UNCHANGED <<ACC!RP!Running, ACC!MP!Running>>
    BY <1>5 DEF ACC!RP!Running, ACC!RP!Consumed, ACC!RP!Radix,
       ACC!RP!Ops, ACC!MP!Running, ACC!MP!Accumulated, ACC!MP!Radix
  <2>3. UNCHANGED <<ACC!Reducing, ACC!Multiplying>>
    BY <1>1, <1>5, <2>2 DEF ACC!Reducing, ACC!Multiplying, ACC!InFlight
  <2>4. Squaring => Squaring'
    BY <1>1, <2>3 DEF Squaring, ACC!CInv
  <2>5. \A k \in Nat : Loaded(k) => Loaded(k)'
    BY <1>1, <2>1 DEF Loaded
  <2>6. QED
    BY <1>1, <2>1, <2>4, <2>5 DEF Refused, Squared
<1>6. QED
  BY <1>1, <1>2, <1>3, <1>4, <1>5 DEF Peripheral, AtRest

\* A clock in which nothing is written, whatever the driver is at.
LEMMA Waiting ==
  ASSUME DInv, Clock(NoWrite), UNCHANGED <<call, todo, pending>>
  PROVE  /\ Peripheral'
         /\ Remaining' /\ Made' = Made
         /\ pending # "lost" => Control'
         /\ AtRest => AtRest'
         /\ \A k \in Nat : AtRest /\ Loaded(k) => Loaded(k)'
<1>1. Peripheral'
  BY PeripheralClock DEF DInv
<1>2. Remaining' /\ Made' = Made
  BY DEF DInv, Shape, Remaining, Made
<1>3. ~IsReset(NoWrite) /\ ~IsStart(NoWrite)
  BY LoadsOnly
<1>4. pending # "lost" => Control'
  BY <1>3, ControlClock DEF DInv
<1>5. ASSUME AtRest
      PROVE  UNCHANGED cstate /\ ACC!AtRest'
  BY <1>3, <1>5, QuietClock DEF AtRest, DInv
<1>6. UNCHANGED <<operand, modulus, flag_error, load_op_armed,
                  load_mod_armed>>
  BY NothingWritten
<1>7. UNCHANGED <<m, x, mods, ops>>
  BY DEF m, x, mods, ops
<1>8. \A k \in Nat : AtRest /\ Loaded(k) => Loaded(k)'
  BY <1>5, <1>6, <1>7 DEF Loaded
<1>9. QED
  BY <1>1, <1>2, <1>4, <1>5, <1>8 DEF AtRest

\* A call is made between two others.
LEMMA CallStep ==
  ASSUME DInv, NEW c \in Calls, Call(c)
  PROVE  DInv'
<1>1. /\ pc = "idle" /\ call' = c /\ todo' = Writes(c)
      /\ pc' = At(c, Writes(c)) /\ ret' = None /\ pending' = Pending(c)
      /\ UNCHANGED accelVars
  BY DEF Call
<1>2. PICK u \in Seq(DriverWrites) : u = Writes(c)
  BY WritesOfCalls
<1>3. todo' = u /\ Writes(call') = u /\ pc' = At(c, u)
  BY <1>1, <1>2
<1>4. Made' = 0
  BY <1>3 DEF Made
<1>5. Remaining'
  BY <1>3, <1>4 DEF Remaining
<1>6. pending' # "lost" => pending # "lost"
  BY <1>1 DEF Pending
<1>7. Shape'
  <2>1. pc' \in {"write", "poll", "idle"} /\ (pc' = "write" <=> todo' # <<>>)
        /\ (pc' = "poll" => Waits(c))
    BY <1>3 DEF At
  <2>2. /\ pending' \in {"none", "start", "lost"}
        /\ c.method = "start" => pending' # "none"
        /\ c.method \in {"reset", "compute", "wait_and_read_result"} =>
             pending' # "start"
    BY <1>1 DEF Pending, DInv, Shape
  <2>3. QED
    BY <1>1, <1>5, <2>1, <2>2 DEF Shape
<1>8. ASSUME pending' = "none", pc' # "poll" PROVE AtRest'
  <2>1. CASE pending = "none"
    BY <1>1, <2>1, Unmoved DEF DInv
  <2>2. CASE pending # "none"
    <3>1. c.method = "wait_and_read_result"
      BY <1>1, <1>8, <2>2 DEF Pending
    <3>2. Writes(c) = <<>> /\ Waits(c)
      BY <3>1 DEF Writes, Waits
    <3>3. pc' = "poll"
      BY <1>1, <3>2 DEF At
    <3>4. QED
      BY <1>8, <3>3
  <2>3. QED
    BY <2>1, <2>2
<1>9. ASSUME c.method = "compute" PROVE Stage'
  <2>1. PICK ms \in Seq(Word), os \in Seq(Word), a \in Nat, b \in Nat :
          /\ ms = c.modulus /\ os = c.operand
          /\ Len(ms) = a /\ Len(os) = b
    BY CallSlices
  <2>2. LaidOut(u, ms, a, os, b)
    BY <1>2, <1>9, <2>1, ComputeWrites DEF Writes
  <2>3. Len(u) = 2 * a + 2 * b + 2
    BY <2>2 DEF LaidOut
  <2>4. u # <<>>
    BY <2>3
  <2>5. pc' = "write"
    BY <1>3, <2>4 DEF At
  <2>6. Loaded(Made)'
    BY <1>4 DEF Loaded
  <2>7. QED
    BY <2>5, <2>6 DEF Stage
<1>10. QED
  BY <1>1, <1>6, <1>7, <1>8, <1>9, Unmoved DEF DInv

\* A write of any method.
LEMMA WriteStep ==
  ASSUME DInv, Write
  PROVE  DInv'
<1> DEFINE w == Head(todo)
<1>1. /\ pc = "write" /\ Clock(w) /\ todo' = Tail(todo)
      /\ pc' = At(call, Tail(todo)) /\ call' = call /\ ret' = ret
      /\ pending' = pending
  BY DEF Write
<1>2. /\ w \in DriverWrites /\ w = Writes(call)[Made + 1]
      /\ call.method \notin {"reset", "start", "compute"} => w \in LoadWrites
      /\ Made \in 0 .. Len(Writes(call)) - 1 /\ Made' = Made + 1
      /\ Remaining'
  BY <1>1, WriteOfCall DEF DInv
<1> HIDE DEF w
<1>3. Peripheral'
  BY <1>1, <1>2, PeripheralClock DEF DInv
<1>4. Shape'
  <2>1. /\ pc' \in {"write", "poll", "idle"}
        /\ pc' = "write" <=> todo' # <<>>
        /\ pc' = "poll" => Waits(call')
    BY <1>1 DEF At
  <2>2. QED
    BY <1>1, <1>2, <2>1 DEF DInv, Shape
<1>5. pending = "none" => AtRest /\ ~flag_busy
  BY <1>1 DEF DInv, AtRest, ACC!AtRest
<1>6. call.method = "start" => w = CtrlWrite({"START"})
  <2>1. ASSUME call.method = "start" PROVE w = CtrlWrite({"START"})
    <3>1. Writes(call) = <<CtrlWrite({"START"})>>
      BY <2>1 DEF Writes, start
    <3>2. Made = 0
      BY <1>2, <3>1
    <3>3. QED
      BY <1>2, <3>1, <3>2
  <2>2. QED
    BY <2>1
<1>7. pending # "lost" => Control'
  <2>1. CASE pending = "none"
    BY <1>1, <1>5, <2>1, ControlClock DEF DInv
  <2>2. CASE pending = "start"
    <3>1. call.method \notin {"reset", "compute"}
      BY <2>2 DEF DInv, Shape
    <3>2. ~IsReset(w)
      <4>1. CASE call.method = "start"
        BY <1>6, <4>1 DEF IsReset, Ctrl, CtrlWrite
      <4>2. CASE call.method # "start"
        BY <1>2, <3>1, <4>2, LoadsOnly
      <4>3. QED
        BY <4>1, <4>2
    <3>3. QED
      BY <1>1, <2>2, <3>2, ControlClock DEF DInv
  <2>3. QED
    BY <2>1, <2>2 DEF DInv, Shape
<1>8. ASSUME pending = "none", call.method # "compute" PROVE AtRest'
  <2>1. call.method # "start"
    BY <1>8 DEF DInv, Shape
  <2>2. CASE call.method = "reset"
    <3>1. Writes(call) = <<CtrlWrite({"RESET"})>>
      BY <2>2 DEF Writes, reset
    <3>2. Made = 0
      BY <1>2, <3>1
    <3>3. w = CtrlWrite({"RESET"})
      BY <1>2, <3>1, <3>2
    <3>4. QED
      BY <1>1, <1>5, <1>8, <3>3, ResetTaken DEF DInv, AtRest
  <2>3. CASE call.method # "reset"
    <3>1. w \in LoadWrites
      BY <1>2, <1>8, <2>1, <2>3
    <3>2. ~IsReset(w) /\ ~IsStart(w)
      BY <3>1, LoadsOnly
    <3>3. QED
      BY <1>1, <1>5, <1>8, <3>2, QuietClock DEF DInv, AtRest
  <2>4. QED
    BY <2>2, <2>3
<1>9. ASSUME pending = "none", call.method = "compute"
      PROVE  Stage' /\ (pc' # "poll" => AtRest')
  <2>1. call \in Calls
    BY <1>9 DEF DInv, Shape, NoCall
  <2>2. PICK ms \in Seq(Word), os \in Seq(Word), a \in Nat, b \in Nat :
          /\ ms = call.modulus /\ os = call.operand
          /\ Len(ms) = a /\ Len(os) = b
    BY <2>1, CallSlices
  <2>3. PICK u \in Seq(DriverWrites) : u = Writes(call)
    BY WritesOfCalls DEF DInv, Shape
  <2>4. LaidOut(u, ms, a, os, b)
    BY <1>9, <2>2, <2>3, ComputeWrites DEF Writes
  <2>5. Len(u) = 2 * a + 2 * b + 2
        /\ u[2 * a + 2 * b + 2] = CtrlWrite({"START"})
    BY <2>4 DEF LaidOut
  <2>6. mods = a /\ ops = b
    BY <2>2 DEF mods, ops
  <2>7. PICK k \in Nat : k = Made /\ k <= 2 * a + 2 * b + 1
    BY <1>2, <2>3, <2>5
  <2>8. Loaded(k)
    BY <1>1, <1>9, <2>7 DEF DInv, Stage
  <2>9. Made' = k + 1
    BY <1>2, <2>7
  <2>10. Len(todo') = 2 * a + 2 * b + 2 - (k + 1)
    <3>1. Writes(call') = u /\ todo' \in Seq(DriverWrites)
      BY <1>1, <1>2, <2>3 DEF Remaining
    <3>2. PICK l \in Nat : l = Len(todo')
      BY <3>1
    <3>3. (2 * a + 2 * b + 2) - l = k + 1
      BY <2>5, <2>9, <3>1, <3>2 DEF Made
    <3>4. l = 2 * a + 2 * b + 2 - (k + 1)
      BY <3>3
    <3>5. QED
      BY <3>2, <3>4, Zenon
  <2>11. CASE k <= 2 * a + 2 * b
    <3>1. Loaded(k + 1)'
      <4>1. Clock(Writes(call)[k + 1])
        BY <1>1, <1>2, <2>7
      <4>2. k <= 2 * mods + 2 * ops
        BY <2>6, <2>11
      <4>3. QED
        BY <1>1, <1>5, <1>9, <2>1, <2>8, <4>1, <4>2, LoadedStep DEF DInv
    <3>2. Len(todo') # 0
      BY <2>10, <2>11
    <3>3. pc' = "write"
      <4>1. todo' # <<>>
        BY <3>2
      <4>2. QED
        BY <1>1, <4>1 DEF At
    <3>4. Loaded(Made)'
      BY <2>9, <3>1 DEF Loaded
    <3>5. AtRest'
      BY <3>1 DEF Loaded, AtRest
    <3>6. QED
      BY <3>3, <3>4, <3>5 DEF Stage
  <2>12. CASE k = 2 * a + 2 * b + 1
    <3>1. /\ cstate = "C_IDLE" /\ ACC!AtRest /\ modulus = m /\ operand = x
      <4>1. k > 0 /\ k > 2 * a /\ k > 2 * a + 2 * b
        BY <2>12
      <4>2. QED
        BY <2>6, <2>8, <4>1 DEF Loaded
    <3>2. w = CtrlWrite({"START"})
      <4>1. Made + 1 = 2 * a + 2 * b + 2
        BY <2>7, <2>12
      <4>2. QED
        BY <1>2, <2>3, <2>5, <4>1
    <3>3. IF m = 0 THEN Refused' ELSE Squaring'
      BY <1>1, <3>1, <3>2, StartTaken DEF DInv
    <3>4. Len(todo') = 0
      BY <2>10, <2>12
    <3>5. pc' = "poll"
      <4>1. todo' = <<>>
        BY <1>2, <3>4 DEF Remaining
      <4>2. QED
        BY <1>1, <1>9, <4>1 DEF At, Waits
    <3>6. m' = m
      BY <1>1 DEF m
    <3>7. QED
      BY <3>3, <3>5, <3>6 DEF Stage
  <2>13. QED
    BY <2>7, <2>11, <2>12
<1>10. QED
  BY <1>1, <1>3, <1>4, <1>7, <1>8, <1>9 DEF DInv

\* A clock without an access.
LEMMA PauseStep ==
  ASSUME DInv, Pause
  PROVE  DInv'
<1>1. /\ Clock(NoWrite)
      /\ UNCHANGED <<call, pc, todo, ret, pending>>
  BY DEF Pause, driverVars
<1>2. /\ Peripheral'
      /\ Remaining' /\ Made' = Made
      /\ pending # "lost" => Control'
      /\ AtRest => AtRest'
      /\ \A k \in Nat : AtRest /\ Loaded(k) => Loaded(k)'
  BY <1>1, Waiting
<1>3. Shape'
  BY <1>1, <1>2 DEF DInv, Shape
<1>4. ASSUME pending = "none", call.method = "compute" PROVE Stage'
  <2>1. /\ Refused => Refused'
        /\ Squared => Squared'
        /\ Squaring => Squaring' \/ Squared'
    BY <1>1, PolledClock DEF DInv
  <2>2. m' = m /\ Expected(call)' = Expected(call)
    BY <1>1 DEF m
  <2>3. Stage
    BY <1>4 DEF DInv
  <2>4. pc = "write" => Loaded(Made)'
    <3>1. ASSUME pc = "write" PROVE Loaded(Made)'
      <4>1. AtRest
        BY <1>4, <3>1 DEF DInv
      <4>2. PICK k \in Nat : k = Made
        BY MadeCounts DEF DInv
      <4>3. Loaded(k)'
        BY <1>2, <2>3, <3>1, <4>1, <4>2 DEF Stage
      <4>4. Made' = k
        BY <1>2, <4>2
      <4>5. QED
        BY <4>3, <4>4 DEF Loaded
    <3>2. QED
      BY <3>1
  <2>5. QED
    BY <1>1, <2>1, <2>2, <2>3, <2>4 DEF Stage
<1>5. QED
  BY <1>1, <1>2, <1>3, <1>4 DEF DInv

\* while self.is_busy() {}
LEMMA PollStep ==
  ASSUME DInv, Poll
  PROVE  DInv'
<1>1. /\ pc = "poll" /\ Clock(NoWrite)
      /\ pc' = IF flag_busy THEN "poll" ELSE "check"
      /\ UNCHANGED <<call, todo, ret, pending>>
  BY DEF Poll, Status
<1>2. /\ Peripheral'
      /\ Remaining' /\ Made' = Made
      /\ pending # "lost" => Control'
      /\ AtRest => AtRest'
  BY <1>1, Waiting
<1>3. Shape'
  BY <1>1, <1>2 DEF DInv, Shape
<1>4. ASSUME pending = "none", pc' # "poll" PROVE AtRest'
  <2>1. Control /\ ~flag_busy /\ TypeOK
    BY <1>1, <1>4 DEF DInv, Peripheral
  <2>2. AtRest
    BY <2>1 DEF Control, AtRest, TypeOK
  <2>3. QED
    BY <1>2, <2>2
<1>5. ASSUME pending = "none", call.method = "compute" PROVE Stage'
  <2>1. /\ Refused => Refused' /\ ~flag_busy
        /\ Squared => Squared' /\ ~flag_busy
        /\ Squaring => (Squaring' \/ Squared') /\ flag_busy
    BY <1>1, PolledClock DEF DInv
  <2>2. IF m = 0 THEN Refused ELSE Squaring \/ Squared
    BY <1>1, <1>5 DEF DInv, Stage
  <2>3. m' = m
    BY <1>1 DEF m
  <2>4. QED
    BY <1>1, <2>1, <2>2, <2>3 DEF Stage
<1>6. QED
  BY <1>1, <1>2, <1>3, <1>4, <1>5 DEF DInv

\* if self.is_error() { return Err(()) }
LEMMA CheckStep ==
  ASSUME DInv, Check
  PROVE  DInv'
<1>1. /\ pc = "check" /\ Clock(NoWrite)
      /\ IF flag_error THEN pc' = "idle" /\ ret' = Err
         ELSE pc' = "read" /\ ret' = ret
      /\ UNCHANGED <<call, todo, pending>>
  BY DEF Check, Status
<1>2. /\ Peripheral'
      /\ Remaining' /\ Made' = Made
      /\ pending # "lost" => Control'
      /\ AtRest => AtRest'
  BY <1>1, Waiting
<1>3. Shape'
  BY <1>1, <1>2 DEF DInv, Shape
<1>4. pending = "none" => AtRest'
  BY <1>1, <1>2 DEF DInv
<1>5. ASSUME pending = "none", call.method = "compute" PROVE Stage'
  <2>1. Squared => Squared'
    BY <1>1, PolledClock DEF DInv
  <2>2. IF m = 0 THEN Refused ELSE Squared
    BY <1>1, <1>5 DEF DInv, Stage
  <2>3. m' = m /\ x' = x
    BY <1>1 DEF m, x
  <2>4. Expected(call)' = IF m = 0 THEN Err ELSE Ok((x * x) % m)
    BY <1>1 DEF m, x, Expected
  <2>5. CASE m = 0
    <3>1. pc' = "idle" /\ ret' = Err
      BY <1>1, <2>2, <2>5 DEF Refused
    <3>2. QED
      BY <2>4, <2>5, <3>1 DEF Stage
  <2>6. CASE m # 0
    <3>1. pc' = "read"
      BY <1>1, <2>2, <2>6 DEF Squared
    <3>2. QED
      BY <2>1, <2>2, <2>3, <2>6, <3>1 DEF Stage
  <2>7. QED
    BY <2>5, <2>6
<1>6. QED
  BY <1>1, <1>2, <1>3, <1>4, <1>5 DEF DInv

\* Ok(mmio_read(RESULT))
LEMMA ReadStep ==
  ASSUME DInv, Read
  PROVE  DInv'
<1>1. /\ pc = "read" /\ Clock(NoWrite) /\ pc' = "idle" /\ ret' = Ok(result)
      /\ UNCHANGED <<call, todo, pending>>
  BY DEF Read, ResultWord
<1>2. /\ Peripheral'
      /\ Remaining' /\ Made' = Made
      /\ pending # "lost" => Control'
      /\ AtRest => AtRest'
  BY <1>1, Waiting
<1>3. Shape'
  BY <1>1, <1>2 DEF DInv, Shape
<1>4. pending = "none" => AtRest'
  BY <1>1, <1>2 DEF DInv
<1>5. ret' \in {Ok(word) : word \in Word}
  BY <1>1 DEF DInv, Peripheral, TypeOK
<1>6. ASSUME pending = "none", call.method = "compute" PROVE Stage'
  <2>1. m # 0 /\ result = (x * x) % m
    BY <1>1, <1>6 DEF DInv, Stage, Squared
  <2>2. Expected(call)' = IF m = 0 THEN Err ELSE Ok((x * x) % m)
    BY <1>1 DEF m, x, Expected
  <2>3. QED
    BY <1>1, <2>1, <2>2 DEF Stage
<1>7. QED
  BY <1>1, <1>2, <1>3, <1>4, <1>5, <1>6 DEF DInv

\* Nothing has been called, and nothing runs.
LEMMA FreshDriver ==
  ASSUME call = NoCall, pc = "idle", todo = <<>>, ret = None,
         pending = "none", Peripheral, cstate = "C_IDLE", ACC!AtRest
  PROVE  DInv
<1>1. Remaining
  BY DEF Remaining, Made, Writes, NoCall
<1>2. Shape
  BY <1>1 DEF Shape, Waits, NoCall
<1>3. Control /\ AtRest
  BY DEF Control, AtRest
<1>4. QED
  BY <1>2, <1>3 DEF DInv, NoCall

\* Power-up.
LEMMA DInvInit == DriverInit => DInv
<1> SUFFICES ASSUME DriverInit PROVE DInv
  OBVIOUS
<1>1. Peripheral
  BY PeripheralInit DEF DriverInit
<1>2. cstate = "C_IDLE" /\ ACC!AtRest
  BY DEF DriverInit, Init, u_redmod!Init, u_mulmod!Init, ACC!AtRest,
         ACC!RedFree, ACC!RedIdle, ACC!MulFree, ACC!MulIdle
<1>3. QED
  BY <1>1, <1>2, FreshDriver DEF DriverInit

\* resetn of the SoC.
LEMMA ResetStep ==
  ASSUME DInv, SystemReset
  PROVE  DInv'
<1>1. /\ HardReset /\ call' = NoCall /\ pc' = "idle" /\ todo' = <<>>
      /\ ret' = None /\ pending' = "none"
  BY DEF SystemReset
<1>2. Peripheral'
  BY <1>1, PeripheralReset DEF DInv
<1>3. cstate' = "C_IDLE" /\ ACC!AtRest'
  BY <1>1, SamePeripheral, HostWords, ACC!ResetRests, WidthAssumption,
     Pow2Assumption
<1>4. Remaining'
  BY <1>1 DEF Remaining, Made, Writes, NoCall
<1>5. Shape'
  BY <1>1, <1>4 DEF Shape, Waits, NoCall
<1>6. Control' /\ AtRest'
  BY <1>3 DEF Control, AtRest
<1>7. QED
  BY <1>1, <1>2, <1>5, <1>6 DEF DInv, NoCall

\* Nothing happens.
LEMMA StutterStep ==
  ASSUME DInv, UNCHANGED systemVars
  PROVE  DInv'
<1>1. UNCHANGED accelVars /\ UNCHANGED <<call, pc, todo, ret, pending>>
  BY DEF systemVars, driverVars
<1>2. Remaining' /\ Made' = Made
  BY <1>1 DEF DInv, Shape, Remaining, Made
<1>3. Shape'
  BY <1>1, <1>2 DEF DInv, Shape
<1>4. ASSUME Stage PROVE Stage'
  <2>1. m' = m /\ Expected(call)' = Expected(call)
    BY <1>1 DEF m
  <2>2. /\ Refused => Refused'
        /\ Squared => Squared'
        /\ Squaring => Squaring'
        /\ \A k \in Nat : Loaded(k) => Loaded(k)'
    BY <1>1, Unmoved
  <2>3. Loaded(Made) => Loaded(Made)'
    <3>1. PICK k \in Nat : k = Made
      BY MadeCounts DEF DInv
    <3>2. Made' = k
      BY <1>2, <3>1
    <3>3. QED
      BY <2>2, <3>1, <3>2 DEF Loaded
  <2>4. QED
    BY <1>1, <1>4, <2>1, <2>2, <2>3 DEF Stage
<1>5. QED
  BY <1>1, <1>3, <1>4, Unmoved DEF DInv

\* Every step.
LEMMA DInvNext == DInv /\ [DriverNext]_systemVars => DInv'
<1> SUFFICES ASSUME DInv, [DriverNext]_systemVars PROVE DInv'
  OBVIOUS
<1>1. ASSUME NEW c \in Calls, Call(c) PROVE DInv'
  BY <1>1, CallStep
<1>2. CASE Access
  BY <1>2, WriteStep, PollStep, CheckStep, ReadStep DEF Access
<1>3. QED
  BY <1>1, <1>2, PauseStep, ResetStep, StutterStep DEF DriverNext

\* So the driver always knows what the accelerator has of a call.
LEMMA DInvAlways == DriverSpec => []DInv
BY DInvInit, DInvNext, PTL DEF DriverSpec

-----------------------------------------------------------------------------

\* The driver is at a method it has, and returns what compute may return,
\* whatever calls are made in whatever order.
THEOREM DriverTypeCorrect == DriverSpec => []DriverTypeOK
<1>1. DInv => DriverTypeOK
  BY DEF DInv, Shape, Peripheral, DriverTypeOK
<1>2. QED
  BY <1>1, DInvAlways, PTL

\* compute returns operand^2 mod modulus of the last words of its slices,
\* and Err exactly for a zero modulus, after any calls of the other methods
\* and with any clocks between two accesses, as long as what start() began
\* has been waited for: for every WIDTH and slices of any length.
THEOREM ComputeCorrectAfterWaits == DriverSpec => []ComputeCorrectIfWaited
<1>1. DInv => ComputeCorrectIfWaited
  BY DEF DInv, Stage, ComputeCorrectIfWaited, ComputeCorrect
<1>2. QED
  BY <1>1, DInvAlways, PTL

-----------------------------------------------------------------------------
(* How long a call takes.                                                  *)

\* The clocks left to BUSY are those of the peripheral.
LEMMA SameBusyLeft ==
  ACC!BusyLeft = BusyLeft /\ ACC!BusyLeft' = BusyLeft'
BY DEF BusyLeft, ReductionLeft, ProductLeft, ACC!BusyLeft,
       ACC!ReductionLeft, ACC!ProductLeft

\* Whatever a clock brings, BUSY is nearer to its fall after it, and does not
\* rise but for a START.
LEMMA BusyClock ==
  ASSUME Peripheral, ACC!Awaited, NEW w, Clock(w)
  PROVE  /\ ACC!Awaited'
         /\ BusyLeft' \in 1 .. 2 * WIDTH + 4
         /\ flag_busy /\ flag_busy' => BusyLeft' \in 1 .. BusyLeft - 1
         /\ w = NoWrite /\ flag_busy' => flag_busy
<1>1. ACC!Clock(w) /\ Word \subseteq ACC!Word /\ Word \subseteq ACC!Word
  BY SameClock, HostWords
<1>2. /\ ACC!Awaited' /\ ACC!BusyLeft' \in 1 .. 2 * WIDTH + 4
      /\ flag_busy' =>
           ACC!BusyLeft' \in 1 .. (IF flag_busy THEN ACC!BusyLeft - 1
                                   ELSE 2 * WIDTH + 4)
  BY <1>1, ACC!BusyStep, WidthAssumption, Pow2Assumption DEF Peripheral
<1>3. ASSUME w = NoWrite PROVE ~IsStart(w)
  BY <1>3 DEF IsStart, Ctrl, NoWrite
<1>4. ~IsStart(w) /\ flag_busy' => flag_busy
  BY DEF Clock, Pipeline, PassReduced, PublishProduct, ClearPipeline,
         RefuseStart, AcceptStart, HoldPipeline
<1>5. QED
  BY <1>2, <1>3, <1>4, SameBusyLeft

\* The clocks left to BUSY are a number.
LEMMA BusyLeftCounts == DInv => BusyLeft \in Nat /\ BusyLeft > 0
<1> SUFFICES ASSUME DInv PROVE BusyLeft \in Nat /\ BusyLeft > 0
  OBVIOUS
<1>1. rd_cnt \in 0 .. WIDTH /\ ml_cnt \in 0 .. WIDTH
  BY DEF DInv, Peripheral, ACC!Race
<1>2. QED
  BY <1>1, WidthAssumption DEF BusyLeft, ReductionLeft, ProductLeft

\* The measure of a call is a number, and is used up when the call returns.
LEMMA CallLeftCounts ==
  ASSUME DInv
  PROVE  /\ pc = "write" => Len(todo) \in Nat \ {0}
         /\ CallLeft \in Nat
         /\ pc # "idle" => CallLeft > 0
<1>1. todo \in Seq(DriverWrites) /\ (pc = "write" <=> todo # <<>>)
      /\ pc \in {"idle", "write", "poll", "check", "read"}
  BY DEF DInv, Shape, Remaining
<1>2. PICK n \in Nat : n = Len(todo) /\ (pc = "write" => n # 0)
  BY <1>1
<1>3. PICK c \in Nat : c = BusyLeft
  BY BusyLeftCounts
<1>4. CASE pc = "write"
  BY <1>2, <1>4, WidthAssumption DEF CallLeft
<1>5. CASE pc = "poll"
  BY <1>3, <1>5 DEF CallLeft
<1>6. CASE pc \in {"idle", "check", "read"}
  BY <1>6 DEF CallLeft
<1>7. QED
  BY <1>1, <1>2, <1>4, <1>5, <1>6

\* The three accesses behind a poll are beside the clocks of its BUSY: a bound
\* of those is one of the call.
LEMMA CountBehindPoll ==
  /\ \A b \in Nat : \A c \in 1 .. b - 1 :
       c + 3 \in 0 .. (b + 3) - 1 /\ c + 3 \in 0 .. b + 3
  /\ \A c \in 1 .. 2 * WIDTH + 4 :
       c + 3 \in 0 .. (1 + ((2 * WIDTH + 4) + 3)) - 1
  /\ 0 + 3 \in 0 .. (1 + ((2 * WIDTH + 4) + 3)) - 1
BY WidthAssumption

\* Every access of a call leaves it fewer, the polls that find BUSY up too.
LEMMA AccessCountsDown ==
  ASSUME DInv, ACC!Awaited, Access
  PROVE  ACC!Awaited' /\ CallLeft' \in 0 .. CallLeft - 1
<1>1. Peripheral
  BY DEF DInv
<1>2. CASE Write
  <2>1. PICK l \in Seq(DriverWrites), n \in Nat :
          l = todo /\ n = Len(l) /\ n # 0
    BY <1>2, CallLeftCounts DEF Write, DInv, Shape, Remaining
  <2>2. todo' = Tail(l) /\ Len(Tail(l)) = n - 1 /\ (Tail(l) = <<>> => n = 1)
    <3>1. todo' = Tail(l)
      BY <1>2, <2>1 DEF Write
    <3>2. l # <<>>
      BY <2>1
    <3>3. Len(Tail(l)) = Len(l) - 1
      BY <2>1, <3>2, HeadTailProperties
    <3>4. Tail(l) = <<>> => Len(Tail(l)) = 0
      <4>1. Len(<<>>) = 0
        BY EmptySeq
      <4>2. QED
        BY <4>1, Zenon
    <3>5. QED
      BY <2>1, <3>1, <3>3, <3>4
  <2>3. ACC!Awaited' /\ BusyLeft' \in 1 .. 2 * WIDTH + 4
    BY <1>1, <1>2, BusyClock DEF Write
  <2>4. UNCHANGED Waits(call)
    BY <1>2 DEF Write, Waits
  <2>5. CallLeft = n + (IF Waits(call) THEN (2 * WIDTH + 4) + 3 ELSE 0)
    BY <1>2, <2>1 DEF Write, CallLeft
  <2>6. CASE Tail(l) # <<>>
    <3>1. pc' = "write"
      BY <1>2, <2>1, <2>6 DEF Write, At
    <3>2. CallLeft' =
            (n - 1) + (IF Waits(call) THEN (2 * WIDTH + 4) + 3 ELSE 0)
      BY <2>2, <2>4, <3>1 DEF CallLeft
    <3>3. QED
      BY <2>1, <2>3, <2>5, <3>2, WidthAssumption
  <2>7. CASE Tail(l) = <<>> /\ Waits(call)
    <3>1. pc' = "poll"
      BY <1>2, <2>1, <2>7 DEF Write, At
    <3>2. CallLeft' \in {BusyLeft' + 3, 0 + 3}
      BY <3>1 DEF CallLeft
    <3>3. CallLeft = 1 + ((2 * WIDTH + 4) + 3)
      <4>1. n = 1 /\ Waits(call)
        BY <2>2, <2>7
      <4>2. QED
        BY <2>5, <4>1, Zenon
    <3>4. QED
      BY <2>3, <3>2, <3>3, CountBehindPoll, Zenon
  <2>8. CASE Tail(l) = <<>> /\ ~Waits(call)
    <3>1. pc' = "idle"
      BY <1>2, <2>1, <2>8 DEF Write, At
    <3>2. CallLeft' = 0
      BY <3>1 DEF CallLeft
    <3>3. QED
      BY <2>2, <2>3, <2>5, <2>8, <3>2
  <2>9. QED
    BY <2>6, <2>7, <2>8
<1>3. CASE Poll
  <2>1. /\ ACC!Awaited' /\ BusyLeft' \in 1 .. 2 * WIDTH + 4
        /\ flag_busy /\ flag_busy' => BusyLeft' \in 1 .. BusyLeft - 1
    BY <1>1, <1>3, BusyClock DEF Poll
  <2>2. CallLeft = (IF flag_busy THEN BusyLeft ELSE 0) + 3
        /\ CallLeft \in Nat /\ CallLeft > 0
    BY <1>3, CallLeftCounts DEF Poll, CallLeft
  <2>3. CASE flag_busy
    <3>1. pc' = "poll"
      BY <1>3, <2>3 DEF Poll, Status
    <3>2. CallLeft' = (IF flag_busy' THEN BusyLeft' ELSE 0) + 3
      BY <3>1 DEF CallLeft
    <3>3. PICK b \in Nat : b = BusyLeft /\ b > 0
      BY BusyLeftCounts
    <3>4. CallLeft = b + 3
      BY <2>2, <2>3, <3>3
    <3>5. CASE flag_busy'
      <4>1. BusyLeft' \in 1 .. b - 1
        BY <2>1, <2>3, <3>3, <3>5
      <4>2. PICK c \in 1 .. b - 1 : c = BusyLeft'
        BY <4>1
      <4>3. CallLeft' = c + 3
        BY <3>2, <3>5, <4>2
      <4>4. c + 3 \in 0 .. (b + 3) - 1
        BY <3>3, CountBehindPoll, Zenon
      <4>5. QED
        BY <2>1, <3>4, <4>3, <4>4, Zenon
    <3>6. CASE ~flag_busy'
      <4>1. CallLeft' = 0 + 3
        BY <3>2, <3>6
      <4>2. 0 + 3 \in 0 .. (b + 3) - 1
        BY <3>3
      <4>3. QED
        BY <2>1, <3>4, <4>1, <4>2, Zenon
    <3>7. QED
      BY <3>5, <3>6
  <2>4. CASE ~flag_busy
    <3>1. pc' = "check"
      BY <1>3, <2>4 DEF Poll, Status
    <3>2. CallLeft' = 2
      BY <3>1 DEF CallLeft
    <3>3. QED
      BY <2>1, <2>2, <2>4, <3>2
  <2>5. QED
    BY <2>3, <2>4
<1>4. CASE Check
  <2>1. ACC!Awaited' /\ CallLeft = 2 /\ CallLeft' \in {0, 1}
    BY <1>1, <1>4, BusyClock DEF Check, CallLeft
  <2>2. QED
    BY <2>1
<1>5. CASE Read
  <2>1. ACC!Awaited' /\ CallLeft = 1 /\ CallLeft' = 0
    BY <1>1, <1>5, BusyClock DEF Read, CallLeft
  <2>2. QED
    BY <2>1
<1>6. QED
  BY <1>2, <1>3, <1>4, <1>5 DEF Access

\* The clocks between two of its accesses take nothing back.
LEMMA PauseCountsDown ==
  ASSUME DInv, ACC!Awaited, Pause
  PROVE  ACC!Awaited' /\ CallLeft' \in 0 .. CallLeft
<1>1. /\ ACC!Awaited' /\ BusyLeft' \in 1 .. 2 * WIDTH + 4
      /\ flag_busy /\ flag_busy' => BusyLeft' \in 1 .. BusyLeft - 1
      /\ flag_busy' => flag_busy
  BY BusyClock DEF DInv, Pause
<1>2. UNCHANGED <<pc, call, todo>>
  BY DEF Pause, driverVars
<1>3. CallLeft \in Nat
  BY CallLeftCounts
<1>4. CASE pc # "poll"
  <2>1. CallLeft' = CallLeft
    BY <1>2, <1>4 DEF CallLeft, Waits
  <2>2. QED
    BY <1>1, <1>3, <2>1
<1>5. CASE pc = "poll"
  <2>1. /\ CallLeft = (IF flag_busy THEN BusyLeft ELSE 0) + 3
        /\ CallLeft' = (IF flag_busy' THEN BusyLeft' ELSE 0) + 3
    BY <1>2, <1>5 DEF CallLeft
  <2>2. PICK b \in Nat : b = BusyLeft
    BY BusyLeftCounts
  <2>3. CASE flag_busy'
    <3>1. CallLeft = b + 3 /\ BusyLeft' \in 1 .. b - 1
      BY <1>1, <2>1, <2>2, <2>3
    <3>2. PICK c \in 1 .. b - 1 : c = BusyLeft'
      BY <3>1
    <3>3. CallLeft' = c + 3
      BY <2>1, <2>3, <3>2
    <3>4. c + 3 \in 0 .. b + 3
      BY CountBehindPoll, Zenon
    <3>5. QED
      BY <1>1, <3>1, <3>3, <3>4, Zenon
  <2>4. CASE ~flag_busy'
    <3>1. CallLeft' = 0 + 3
      BY <2>1, <2>4
    <3>2. CallLeft \in {b + 3, 0 + 3}
      BY <2>1, <2>2
    <3>3. 0 + 3 \in 0 .. b + 3 /\ 0 + 3 \in 0 .. 0 + 3
      BY <2>2
    <3>4. QED
      BY <1>1, <3>1, <3>2, <3>3, Zenon
  <2>5. QED
    BY <2>3, <2>4
<1>6. QED
  BY <1>4, <1>5

\* Every call returns after so many accesses as it has left when it is made,
\* whatever has been called, started, reset and lost before it: for every
\* WIDTH and slices of any length.  With CallsReturn only the fairness of the
\* processor remains.
THEOREM CallsAlwaysEnd == DriverSpec => CallsCountDown
<1> DEFINE InTime ==
      pc # "idle" =>
        CallLeft' \in 0 .. (IF Access THEN CallLeft - 1 ELSE CallLeft)
<1>1. DriverInit => ACC!Awaited
  BY DEF DriverInit, Init, ACC!Awaited
<1>2. DInv /\ ACC!Awaited /\ [DriverNext]_systemVars =>
        ACC!Awaited' /\ [InTime]_systemVars
  <2> SUFFICES ASSUME DInv, ACC!Awaited, [DriverNext]_systemVars
               PROVE  ACC!Awaited' /\ [InTime]_systemVars
    OBVIOUS
  <2>1. CASE Access
    BY <2>1, AccessCountsDown
  <2>2. CASE ~Access /\ Pause
    BY <2>2, PauseCountsDown
  <2>3. CASE SystemReset
    <3>1. ACC!Awaited'
      BY <2>3 DEF SystemReset, HardReset, ACC!Awaited
    <3>2. CallLeft' = 0
      BY <2>3 DEF SystemReset, CallLeft
    <3>3. pc # "idle" => CallLeft \in Nat /\ CallLeft > 0
      BY CallLeftCounts
    <3>4. QED
      BY <3>1, <3>2, <3>3
  <2>4. ASSUME NEW c \in Calls, Call(c) PROVE ACC!Awaited' /\ pc = "idle"
    BY <2>4 DEF Call, accelVars, commandVars, pipelineVars, rdVars, mlVars,
       ACC!Awaited
  <2>5. ASSUME UNCHANGED systemVars PROVE ACC!Awaited'
    BY <2>5 DEF systemVars, accelVars, commandVars, pipelineVars, rdVars,
       mlVars, ACC!Awaited
  <2>6. QED
    BY <2>1, <2>2, <2>3, <2>4, <2>5 DEF DriverNext
<1>3. QED
  BY <1>1, <1>2, DInvInit, DInvNext, PTL DEF DriverSpec, CallsCountDown

=============================================================================
