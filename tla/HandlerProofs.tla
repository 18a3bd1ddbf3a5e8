----------------------------- MODULE HandlerProofs -----------------------------
(***************************************************************************)
(* Theorems about Handler for any events, URLs, answers and bodies: which  *)
(* addresses the address policy lets through, that the download talks to   *)
(* no other, which hostnames are refused, what a body is known as, what the*)
(* query of an event asks for, and what each way to end answers.           *)
(***************************************************************************)
EXTENDS Handler, WellFoundedInduction, TLAPS

-----------------------------------------------------------------------------
(* The least-number principle, for sets.                                   *)
LEMMA Least ==
  ASSUME NEW D, D \subseteq Nat, D # {}
  PROVE  \E m \in D : \A j \in D : m <= j
<1>1. PICK m \in D : \A j \in D : ~(<<j, m>> \in OpToRel(<, Nat))
  BY WFMin, NatLessThanWellFounded
<1>2. \A j \in D : ~(j < m)
  BY <1>1 DEF OpToRel
<1> QED
  BY <1>2

LEMMA OctetsAre ==
  /\ 0 \in Octets /\ 255 \in Octets
  /\ \A x \in Octets : x \in Int /\ 0 <= x /\ x <= 255
BY DEF Octets

(* The order of addresses without a witness: as long as they agree the next*)
(* byte is no larger.                                                      *)
LEMMA AtMostIs ==
  ASSUME NEW n \in Nat, NEW s \in [1..n -> Octets], NEW t \in [1..n -> Octets]
  PROVE  AtMost(s, t) <=>
           \A m \in 1..n : (\A j \in 1..(m - 1) : s[j] = t[j]) => s[m] <= t[m]
<1>0. DOMAIN s = 1..n /\ \A i \in 1..n : s[i] \in Int /\ t[i] \in Int
  BY OctetsAre
<1>1. ASSUME AtMost(s, t), NEW m \in 1..n, \A j \in 1..(m - 1) : s[j] = t[j]
      PROVE  s[m] <= t[m]
  <2>1. CASE s = t
    BY <1>0, <2>1
  <2>2. CASE \E i \in DOMAIN s : s[i] < t[i] /\ \A j \in 1..(i - 1) : s[j] = t[j]
    <3>1. PICK i \in 1..n : s[i] < t[i] /\ \A j \in 1..(i - 1) : s[j] = t[j]
      BY <1>0, <2>2
    <3>2. CASE i < m
      <4>1. i \in 1..(m - 1)
        BY <3>2
      <4>2. s[i] = t[i]
        BY <4>1, <1>1
      <4> QED
        BY <4>2, <3>1, <1>0
    <3>3. CASE i = m
      BY <3>1, <3>3, <1>0
    <3>4. CASE m < i
      <4>1. m \in 1..(i - 1)
        BY <3>4
      <4> QED
        BY <4>1, <3>1, <1>0
    <3> QED
      BY <3>2, <3>3, <3>4
  <2> QED
    BY <1>1, <2>1, <2>2 DEF AtMost
<1>2. ASSUME \A m \in 1..n : (\A j \in 1..(m - 1) : s[j] = t[j]) => s[m] <= t[m]
      PROVE  AtMost(s, t)
  <2>1. CASE s = t
    BY <2>1 DEF AtMost
  <2>2. CASE s # t
    <3> DEFINE D == {i \in 1..n : s[i] # t[i]}
    <3>1. D \subseteq Nat /\ D # {}
      BY <2>2
    <3>2. PICK m \in D : \A j \in D : m <= j
      BY <3>1, Least
    <3>0. /\ m \in 1..n /\ s[m] # t[m]
          /\ \A j \in 1..(m - 1) : s[j] = t[j]
      BY <3>2
    <3>3. s[m] <= t[m]
      BY <1>2, <3>0
    <3>4. s[m] < t[m]
      BY <3>0, <3>3, <1>0
    <3> QED
      BY <3>0, <3>4, <1>0 DEF AtMost
  <2> QED
    BY <2>1, <2>2
<1> QED
  BY <1>1, <1>2

LEMMA FillType ==
  ASSUME NEW n \in Nat, NEW p \in Seq(Octets), NEW byte \in Octets
  PROVE  /\ Fill(p, n, byte) \in [1..n -> Octets]
         /\ \A i \in 1..n : Fill(p, n, byte)[i] = IF i <= Len(p) THEN p[i] ELSE byte
BY DEF Fill

(* A block is one range in its last given byte, behind the bytes both ends *)
(* have in common.                                                         *)
LEMMA InBlock ==
  ASSUME NEW n \in Nat, NEW b \in [1..n -> Octets],
         NEW p \in Seq(Octets), NEW q \in Seq(Octets),
         Len(p) \in 1..n, Len(q) = Len(p),
         \A i \in 1..(Len(p) - 1) : p[i] = q[i]
  PROVE  AtMost(Fill(p, n, 0), b) /\ AtMost(b, Fill(q, n, 255)) <=>
           /\ \A i \in 1..(Len(p) - 1) : b[i] = p[i]
           /\ p[Len(p)] <= b[Len(p)] /\ b[Len(p)] <= q[Len(p)]
<1> DEFINE k == Len(p)
           low == Fill(p, n, 0)
           high == Fill(q, n, 255)
<1>1. /\ low \in [1..n -> Octets] /\ high \in [1..n -> Octets]
      /\ \A i \in 1..n : low[i] = IF i <= k THEN p[i] ELSE 0
      /\ \A i \in 1..n : high[i] = IF i <= k THEN q[i] ELSE 255
  <2>1. low \in [1..n -> Octets] /\ \A i \in 1..n : low[i] = IF i <= k THEN p[i] ELSE 0
    <3>1. 0 \in Octets
      BY OctetsAre
    <3> QED
      BY <3>1, FillType
  <2>2. high \in [1..n -> Octets] /\ \A i \in 1..n : high[i] = IF i <= k THEN q[i] ELSE 255
    <3>1. 255 \in Octets
      BY OctetsAre
    <3>2. /\ high \in [1..n -> Octets]
          /\ \A i \in 1..n : high[i] = IF i <= Len(q) THEN q[i] ELSE 255
      BY <3>1 DEF Fill
    <3> QED
      BY <3>2
  <2> QED
    BY <2>1, <2>2
<1>2. /\ k \in 1..n
      /\ \A i \in 1..k : p[i] \in Int /\ q[i] \in Int
      /\ \A i \in 1..n : b[i] \in Int /\ 0 <= b[i] /\ b[i] <= 255
      /\ \A i \in 1..(k - 1) : p[i] = q[i]
  BY OctetsAre
<1> HIDE DEF k, low, high
<1>3. /\ AtMost(low, b) <=>
           \A m \in 1..n : (\A j \in 1..(m - 1) : low[j] = b[j]) => low[m] <= b[m]
      /\ AtMost(b, high) <=>
           \A m \in 1..n : (\A j \in 1..(m - 1) : b[j] = high[j]) => b[m] <= high[m]
  <2>1. AtMost(low, b) <=>
          \A m \in 1..n : (\A j \in 1..(m - 1) : low[j] = b[j]) => low[m] <= b[m]
    <3>1. low \in [1..n -> Octets]
      BY <1>1
    <3> QED
      BY <3>1, AtMostIs
  <2>2. AtMost(b, high) <=>
          \A m \in 1..n : (\A j \in 1..(m - 1) : b[j] = high[j]) => b[m] <= high[m]
    <3>1. high \in [1..n -> Octets]
      BY <1>1
    <3> QED
      BY <3>1, AtMostIs
  <2> QED
    BY <2>1, <2>2
<1>4. ASSUME AtMost(low, b), AtMost(b, high)
      PROVE  /\ \A i \in 1..(k - 1) : b[i] = p[i]
             /\ p[k] <= b[k] /\ b[k] <= q[k]
  <2>1. \A i \in 1..(k - 1) : b[i] = p[i]
    <3> SUFFICES ASSUME \E i \in 1..(k - 1) : b[i] # p[i] PROVE FALSE
      OBVIOUS
    <3> DEFINE D == {i \in 1..(k - 1) : b[i] # p[i]}
    <3>1. D \subseteq Nat
      OBVIOUS
    <3>4. D # {}
      OBVIOUS
    <3>0. PICK m \in D : \A j \in D : m <= j
      BY <3>1, <3>4, Least
    <3>2. /\ m \in 1..(k - 1) /\ b[m] # p[m]
          /\ \A j \in 1..(m - 1) : b[j] = p[j]
      BY <3>0, <1>2
    <3> HIDE DEF D
    <3>3. m \in 1..n /\ m <= k /\ \A j \in 1..(m - 1) : j \in 1..n /\ j <= k /\ j \in 1..(k - 1)
      BY <3>2, <1>2
    <3>7. \A j \in 1..(m - 1) : low[j] = b[j] /\ b[j] = high[j]
      <4> TAKE j \in 1..(m - 1)
      <4>1. j \in 1..n /\ j <= k /\ j \in 1..(k - 1)
        BY <3>3
      <4>2. b[j] = p[j] /\ p[j] = q[j]
        BY <4>1, <3>2, <1>2
      <4>3. low[j] = p[j] /\ high[j] = q[j]
        BY <4>1, <1>1
      <4> QED
        BY <4>2, <4>3
    <3>5. low[m] <= b[m] /\ b[m] <= high[m]
      BY <3>3, <3>7, <1>3, <1>4
    <3>6. low[m] = p[m] /\ high[m] = p[m]
      <4>1. low[m] = p[m] /\ high[m] = q[m]
        BY <3>3, <1>1
      <4>2. p[m] = q[m]
        BY <3>2, <1>2
      <4> QED
        BY <4>1, <4>2
    <3> QED
      BY <3>2, <3>3, <3>5, <3>6, <1>2
  <2>2. \A j \in 1..(k - 1) : low[j] = b[j] /\ b[j] = high[j]
    <3> TAKE j \in 1..(k - 1)
    <3>1. j \in 1..n /\ j <= k
      BY <1>2
    <3>2. b[j] = p[j] /\ q[j] = p[j]
      BY <2>1, <1>2
    <3> QED
      BY <3>1, <3>2, <1>1
  <2>3. low[k] <= b[k] /\ b[k] <= high[k]
    BY <2>2, <1>2, <1>3, <1>4
  <2>4. low[k] = p[k] /\ high[k] = q[k]
    BY <1>1, <1>2
  <2> QED
    BY <2>1, <2>3, <2>4
<1>5. ASSUME \A i \in 1..(k - 1) : b[i] = p[i], p[k] <= b[k], b[k] <= q[k]
      PROVE  AtMost(low, b) /\ AtMost(b, high)
  <2>1. \A m \in 1..n : low[m] <= b[m] \/ ~ \A j \in 1..(m - 1) : low[j] = b[j]
    <3> TAKE m \in 1..n
    <3>1. CASE m < k
      <4>1. m \in 1..(k - 1) /\ m <= k
        BY <3>1, <1>2
      <4>2. low[m] = b[m]
        BY <4>1, <1>1, <1>5
      <4> QED
        BY <4>2, <1>2
    <3>2. CASE m = k
      BY <3>2, <1>1, <1>5
    <3>3. CASE m > k
      <4>1. ~(m <= k)
        BY <3>3, <1>2
      <4>2. low[m] = 0
        BY <4>1, <1>1
      <4> QED
        BY <4>2, <1>2
    <3> QED
      BY <3>1, <3>2, <3>3, <1>2
  <2>2. \A m \in 1..n : b[m] <= high[m] \/ ~ \A j \in 1..(m - 1) : b[j] = high[j]
    <3> TAKE m \in 1..n
    <3>1. CASE m < k
      <4>1. m \in 1..(k - 1) /\ m <= k
        BY <3>1, <1>2
      <4>2. high[m] = b[m]
        BY <4>1, <1>1, <1>2, <1>5
      <4> QED
        BY <4>2, <1>2
    <3>2. CASE m = k
      BY <3>2, <1>1, <1>2, <1>5
    <3>3. CASE m > k
      <4>1. ~(m <= k)
        BY <3>3, <1>2
      <4>2. high[m] = 255
        BY <4>1, <1>1
      <4> QED
        BY <4>2, <1>2
    <3> QED
      BY <3>1, <3>2, <3>3, <1>2
  <2> QED
    BY <2>1, <2>2, <1>3
<1> QED
  BY <1>4, <1>5 DEF k, low, high

(* The blocks by the number of bytes they are given with.                  *)
LEMMA BlockOfOne ==
  ASSUME NEW n \in Nat, n >= 1, NEW b \in [1..n -> Octets], NEW x \in Octets, NEW y \in Octets
  PROVE  AtMost(Fill(<<x>>, n, 0), b) /\ AtMost(b, Fill(<<y>>, n, 255)) <=>
           x <= b[1] /\ b[1] <= y
<1> DEFINE p == <<x>>
           q == <<y>>
<1>1. /\ p \in Seq(Octets) /\ q \in Seq(Octets) /\ Len(p) = 1 /\ Len(q) = 1
      /\ p[1] = x /\ q[1] = y
  OBVIOUS
<1> HIDE DEF p, q
<1>2. AtMost(Fill(p, n, 0), b) /\ AtMost(b, Fill(q, n, 255)) <=>
        /\ \A i \in 1..(Len(p) - 1) : b[i] = p[i]
        /\ p[Len(p)] <= b[Len(p)] /\ b[Len(p)] <= q[Len(p)]
  <2>1. /\ p \in Seq(Octets) /\ q \in Seq(Octets) /\ Len(p) \in 1..n /\ Len(q) = Len(p)
        /\ \A i \in 1..(Len(p) - 1) : p[i] = q[i]
    BY <1>1
  <2> QED
    BY <2>1, InBlock, ZenonT(60)
<1>3. AtMost(Fill(p, n, 0), b) /\ AtMost(b, Fill(q, n, 255)) <=> x <= b[1] /\ b[1] <= y
  BY <1>1, <1>2
<1> QED
  BY <1>3 DEF p, q

LEMMA BlockOfTwo ==
  ASSUME NEW n \in Nat, n >= 2, NEW b \in [1..n -> Octets], NEW v \in Octets,
         NEW x \in Octets, NEW y \in Octets
  PROVE  AtMost(Fill(<<v, x>>, n, 0), b) /\ AtMost(b, Fill(<<v, y>>, n, 255)) <=>
           b[1] = v /\ x <= b[2] /\ b[2] <= y
<1> DEFINE p == <<v, x>>
           q == <<v, y>>
<1>1. /\ p \in Seq(Octets) /\ q \in Seq(Octets) /\ Len(p) = 2 /\ Len(q) = 2
      /\ p[1] = v /\ q[1] = v /\ p[2] = x /\ q[2] = y
  OBVIOUS
<1> HIDE DEF p, q
<1>2. AtMost(Fill(p, n, 0), b) /\ AtMost(b, Fill(q, n, 255)) <=>
        /\ \A i \in 1..(Len(p) - 1) : b[i] = p[i]
        /\ p[Len(p)] <= b[Len(p)] /\ b[Len(p)] <= q[Len(p)]
  <2>1. /\ p \in Seq(Octets) /\ q \in Seq(Octets) /\ Len(p) \in 1..n /\ Len(q) = Len(p)
        /\ \A i \in 1..(Len(p) - 1) : p[i] = q[i]
    BY <1>1
  <2> QED
    BY <2>1, InBlock, ZenonT(60)
<1>3. AtMost(Fill(p, n, 0), b) /\ AtMost(b, Fill(q, n, 255)) <=>
        b[1] = v /\ x <= b[2] /\ b[2] <= y
  BY <1>1, <1>2
<1> QED
  BY <1>3 DEF p, q

LEMMA BlockOfThree ==
  ASSUME NEW n \in Nat, n >= 3, NEW b \in [1..n -> Octets], NEW u \in Octets,
         NEW v \in Octets, NEW x \in Octets, NEW y \in Octets
  PROVE  AtMost(Fill(<<u, v, x>>, n, 0), b) /\ AtMost(b, Fill(<<u, v, y>>, n, 255)) <=>
           b[1] = u /\ b[2] = v /\ x <= b[3] /\ b[3] <= y
<1> DEFINE p == <<u, v, x>>
           q == <<u, v, y>>
<1>1. /\ p \in Seq(Octets) /\ q \in Seq(Octets) /\ Len(p) = 3 /\ Len(q) = 3
      /\ p[1] = u /\ q[1] = u /\ p[2] = v /\ q[2] = v /\ p[3] = x /\ q[3] = y
  OBVIOUS
<1> HIDE DEF p, q
<1>2. AtMost(Fill(p, n, 0), b) /\ AtMost(b, Fill(q, n, 255)) <=>
        /\ \A i \in 1..(Len(p) - 1) : b[i] = p[i]
        /\ p[Len(p)] <= b[Len(p)] /\ b[Len(p)] <= q[Len(p)]
  <2>1. /\ p \in Seq(Octets) /\ q \in Seq(Octets) /\ Len(p) \in 1..n /\ Len(q) = Len(p)
        /\ \A i \in 1..(Len(p) - 1) : p[i] = q[i]
    BY <1>1
  <2> QED
    BY <2>1, InBlock, ZenonT(60)
<1>3. AtMost(Fill(p, n, 0), b) /\ AtMost(b, Fill(q, n, 255)) <=>
        b[1] = u /\ b[2] = v /\ x <= b[3] /\ b[3] <= y
  BY <1>1, <1>2
<1> QED
  BY <1>3 DEF p, q

LEMMA BlockOfFour ==
  ASSUME NEW n \in Nat, n >= 4, NEW b \in [1..n -> Octets], NEW u \in Octets,
         NEW v \in Octets, NEW w \in Octets, NEW x \in Octets
  PROVE  AtMost(Fill(<<u, v, w, x>>, n, 0), b) /\ AtMost(b, Fill(<<u, v, w, x>>, n, 255)) <=>
           b[1] = u /\ b[2] = v /\ b[3] = w /\ b[4] = x
<1> DEFINE p == <<u, v, w, x>>
<1>1. /\ p \in Seq(Octets) /\ Len(p) = 4
      /\ p[1] = u /\ p[2] = v /\ p[3] = w /\ p[4] = x
  OBVIOUS
<1>0. x \in Int /\ b[4] \in Int
  BY OctetsAre
<1> HIDE DEF p
<1>2. AtMost(Fill(p, n, 0), b) /\ AtMost(b, Fill(p, n, 255)) <=>
        /\ \A i \in 1..(Len(p) - 1) : b[i] = p[i]
        /\ p[Len(p)] <= b[Len(p)] /\ b[Len(p)] <= p[Len(p)]
  <2>1. /\ p \in Seq(Octets) /\ Len(p) \in 1..n
        /\ \A i \in 1..(Len(p) - 1) : p[i] = p[i]
    BY <1>1
  <2> QED
    BY <2>1, InBlock, ZenonT(60)
<1>3. AtMost(Fill(p, n, 0), b) /\ AtMost(b, Fill(p, n, 255)) <=>
        b[1] = u /\ b[2] = v /\ b[3] = w /\ b[4] = x
  BY <1>0, <1>1, <1>2
<1> QED
  BY <1>3 DEF p
-----------------------------------------------------------------------------
(* What the prefixes under masks and the intervals of addresses both come  *)
(* to, byte by byte.                                                       *)
Special4(b) ==
  \/ b[1] \in {0, 10, 127} \/ 224 <= b[1]
  \/ b[1] = 100 /\ b[2] \in 64..127
  \/ b[1] = 169 /\ b[2] = 254
  \/ b[1] = 172 /\ b[2] \in 16..31
  \/ b[1] = 192 /\ b[2] = 0 /\ b[3] \in {0, 2}
  \/ b[1] = 192 /\ b[2] = 88 /\ b[3] = 99
  \/ b[1] = 192 /\ b[2] = 168
  \/ b[1] = 198 /\ b[2] \in {18, 19}
  \/ b[1] = 198 /\ b[2] = 51 /\ b[3] = 100
  \/ b[1] = 203 /\ b[2] = 0 /\ b[3] = 113

Special6(b) ==
  \/ b[1] \notin 32..63
  \/ b[1] = 32 /\ b[2] = 1 /\ b[3] \in {0, 1}
  \/ b[1] = 32 /\ b[2] = 1 /\ b[3] = 13 /\ b[4] = 184
  \/ b[1] = 32 /\ b[2] = 2
  \/ b[1] = 63 /\ b[2] = 255 /\ b[3] \in 0..15

Prefixes4(b) ==
  /\ HasPrefix(b, <<0, 0, 0, 0>>, 32) => b[1] = 0
  /\ HasPrefix(b, <<127>>, 8) <=> b[1] = 127
  /\ HasPrefix(b, <<10>>, 8) <=> b[1] = 10
  /\ HasPrefix(b, <<172, 16>>, 12) <=> b[1] = 172 /\ b[2] \in 16..31
  /\ HasPrefix(b, <<192, 168>>, 16) <=> b[1] = 192 /\ b[2] = 168
  /\ HasPrefix(b, <<169, 254>>, 16) <=> b[1] = 169 /\ b[2] = 254
  /\ HasPrefix(b, <<224>>, 4) <=> b[1] \in 224..239
  /\ HasPrefix(b, <<0>>, 8) <=> b[1] = 0
  /\ HasPrefix(b, <<100, 64>>, 10) <=> b[1] = 100 /\ b[2] \in 64..127
  /\ HasPrefix(b, <<192, 0, 0>>, 24) <=> b[1] = 192 /\ b[2] = 0 /\ b[3] = 0
  /\ HasPrefix(b, <<192, 0, 2>>, 24) <=> b[1] = 192 /\ b[2] = 0 /\ b[3] = 2
  /\ HasPrefix(b, <<192, 88, 99>>, 24) <=> b[1] = 192 /\ b[2] = 88 /\ b[3] = 99
  /\ HasPrefix(b, <<198, 18>>, 15) <=> b[1] = 198 /\ b[2] \in {18, 19}
  /\ HasPrefix(b, <<198, 51, 100>>, 24) <=> b[1] = 198 /\ b[2] = 51 /\ b[3] = 100
  /\ HasPrefix(b, <<203, 0, 113>>, 24) <=> b[1] = 203 /\ b[2] = 0 /\ b[3] = 113
  /\ HasPrefix(b, <<240>>, 4) <=> b[1] \in 240..255

LEMMA PrefixesOf4 ==
  ASSUME NEW b \in [1..4 -> Octets]
  PROVE  Prefixes4(b)
<1>0. /\ b[1] \in Octets /\ b[2] \in Octets /\ b[3] \in Octets /\ b[4] \in Octets
  OBVIOUS
<1>1. /\ b[1] \in 0..255 /\ b[2] \in 0..255 /\ b[3] \in 0..255 /\ b[4] \in 0..255
  BY <1>0 DEF Octets
<1>2. HasPrefix(b, <<0, 0, 0, 0>>, 32) => b[1] = 0
  BY DEF HasPrefix, ByteOf
<1>3. HasPrefix(b, <<127>>, 8) <=> b[1] = 127
  BY DEF HasPrefix, ByteOf
<1>4. HasPrefix(b, <<10>>, 8) <=> b[1] = 10
  BY DEF HasPrefix, ByteOf
<1>5. HasPrefix(b, <<172, 16>>, 12) <=> b[1] = 172 /\ b[2] \in 16..31
  BY <1>1 DEF HasPrefix, ByteOf
<1>6. HasPrefix(b, <<192, 168>>, 16) <=> b[1] = 192 /\ b[2] = 168
  BY DEF HasPrefix, ByteOf
<1>7. HasPrefix(b, <<169, 254>>, 16) <=> b[1] = 169 /\ b[2] = 254
  BY DEF HasPrefix, ByteOf
<1>8. HasPrefix(b, <<224>>, 4) <=> b[1] \in 224..239
  BY <1>1 DEF HasPrefix, ByteOf
<1>9. HasPrefix(b, <<0>>, 8) <=> b[1] = 0
  BY DEF HasPrefix, ByteOf
<1>10. HasPrefix(b, <<100, 64>>, 10) <=> b[1] = 100 /\ b[2] \in 64..127
  BY <1>1 DEF HasPrefix, ByteOf
<1>11. HasPrefix(b, <<192, 0, 0>>, 24) <=> b[1] = 192 /\ b[2] = 0 /\ b[3] = 0
  BY DEF HasPrefix, ByteOf
<1>12. HasPrefix(b, <<192, 0, 2>>, 24) <=> b[1] = 192 /\ b[2] = 0 /\ b[3] = 2
  BY DEF HasPrefix, ByteOf
<1>13. HasPrefix(b, <<192, 88, 99>>, 24) <=> b[1] = 192 /\ b[2] = 88 /\ b[3] = 99
  BY DEF HasPrefix, ByteOf
<1>14. HasPrefix(b, <<198, 18>>, 15) <=> b[1] = 198 /\ b[2] \in {18, 19}
  BY <1>1 DEF HasPrefix, ByteOf
<1>15. HasPrefix(b, <<198, 51, 100>>, 24) <=> b[1] = 198 /\ b[2] = 51 /\ b[3] = 100
  BY DEF HasPrefix, ByteOf
<1>16. HasPrefix(b, <<203, 0, 113>>, 24) <=> b[1] = 203 /\ b[2] = 0 /\ b[3] = 113
  BY DEF HasPrefix, ByteOf
<1>17. HasPrefix(b, <<240>>, 4) <=> b[1] \in 240..255
  BY <1>1 DEF HasPrefix, ByteOf
<1> QED
  BY <1>2, <1>3, <1>4, <1>5, <1>6, <1>7, <1>8, <1>9, <1>10, <1>11, <1>12, <1>13, <1>14,
     <1>15, <1>16, <1>17 DEF Prefixes4

Prefixes6(b) ==
  /\ HasPrefix(b, Zero, 128) => b[1] = 0
  /\ HasPrefix(b, Loopback, 128) => b[1] = 0
  /\ HasPrefix(b, Mapped, 96) => b[1] = 0
  /\ HasPrefix(b, <<252>>, 7) => b[1] \in {252, 253}
  /\ HasPrefix(b, <<254, 128>>, 10) => b[1] = 254
  /\ HasPrefix(b, <<255>>, 8) => b[1] = 255
  /\ HasPrefix(b, <<>>, 96) => b[1] = 0
  /\ HasPrefix(b, <<0, 100, 255, 155>>, 96) => b[1] = 0
  /\ HasPrefix(b, <<0, 100, 255, 155, 0, 1>>, 48) => b[1] = 0
  /\ HasPrefix(b, <<32, 1, 0, 16>>, 28) => b[1] = 32 /\ b[2] = 1 /\ b[3] = 0
  /\ HasPrefix(b, <<32, 1, 13, 184>>, 32) <=>
       b[1] = 32 /\ b[2] = 1 /\ b[3] = 13 /\ b[4] = 184
  /\ HasPrefix(b, <<1, 0>>, 64) => b[1] = 1
  /\ HasPrefix(b, <<32, 1>>, 23) <=> b[1] = 32 /\ b[2] = 1 /\ b[3] \in {0, 1}
  /\ HasPrefix(b, <<32, 2>>, 16) <=> b[1] = 32 /\ b[2] = 2
  /\ HasPrefix(b, <<63, 255>>, 20) <=> b[1] = 63 /\ b[2] = 255 /\ b[3] \in 0..15
  /\ HasPrefix(b, <<32>>, 3) <=> b[1] \in 32..63

LEMMA PrefixesOf6 ==
  ASSUME NEW b \in [1..16 -> Octets]
  PROVE  Prefixes6(b)
<1>0. /\ b[1] \in Octets /\ b[2] \in Octets /\ b[3] \in Octets /\ b[4] \in Octets
  OBVIOUS
<1>1. /\ b[1] \in 0..255 /\ b[2] \in 0..255 /\ b[3] \in 0..255 /\ b[4] \in 0..255
  BY <1>0 DEF Octets
<1>2. HasPrefix(b, Zero, 128) => b[1] = 0
  BY DEF HasPrefix, ByteOf, Zero, Zeros
<1>3. HasPrefix(b, Loopback, 128) => b[1] = 0
  <2>1. ByteOf(Loopback, 1) = 0
    BY DEF ByteOf, Loopback, Zeros
  <2> QED
    BY <2>1 DEF HasPrefix
<1>4. HasPrefix(b, Mapped, 96) => b[1] = 0
  <2>1. ByteOf(Mapped, 1) = 0
    BY DEF ByteOf, Mapped, Zeros
  <2> QED
    BY <2>1 DEF HasPrefix
<1>5. HasPrefix(b, <<252>>, 7) => b[1] \in {252, 253}
  BY <1>1 DEF HasPrefix, ByteOf
<1>6. HasPrefix(b, <<254, 128>>, 10) => b[1] = 254
  BY DEF HasPrefix, ByteOf
<1>7. HasPrefix(b, <<255>>, 8) => b[1] = 255
  BY DEF HasPrefix, ByteOf
<1>8. HasPrefix(b, <<>>, 96) => b[1] = 0
  BY DEF HasPrefix, ByteOf
<1>9. HasPrefix(b, <<0, 100, 255, 155>>, 96) => b[1] = 0
  BY DEF HasPrefix, ByteOf
<1>10. HasPrefix(b, <<0, 100, 255, 155, 0, 1>>, 48) => b[1] = 0
  BY DEF HasPrefix, ByteOf
<1>11. HasPrefix(b, <<32, 1, 0, 16>>, 28) => b[1] = 32 /\ b[2] = 1 /\ b[3] = 0
  BY DEF HasPrefix, ByteOf
<1>12. HasPrefix(b, <<32, 1, 13, 184>>, 32) <=>
         b[1] = 32 /\ b[2] = 1 /\ b[3] = 13 /\ b[4] = 184
  BY DEF HasPrefix, ByteOf
<1>13. HasPrefix(b, <<1, 0>>, 64) => b[1] = 1
  BY DEF HasPrefix, ByteOf
<1>14. HasPrefix(b, <<32, 1>>, 23) <=> b[1] = 32 /\ b[2] = 1 /\ b[3] \in {0, 1}
  BY <1>1 DEF HasPrefix, ByteOf
<1>15. HasPrefix(b, <<32, 2>>, 16) <=> b[1] = 32 /\ b[2] = 2
  BY DEF HasPrefix, ByteOf
<1>16. HasPrefix(b, <<63, 255>>, 20) <=> b[1] = 63 /\ b[2] = 255 /\ b[3] \in 0..15
  BY <1>1 DEF HasPrefix, ByteOf
<1>17. HasPrefix(b, <<32>>, 3) <=> b[1] \in 32..63
  BY <1>1 DEF HasPrefix, ByteOf
<1> QED
  BY <1>2, <1>3, <1>4, <1>5, <1>6, <1>7, <1>8, <1>9, <1>10, <1>11, <1>12, <1>13, <1>14,
     <1>15, <1>16, <1>17 DEF Prefixes6

(* The rules of each family, all of them together.                         *)
LEMMA RulesOf4 ==
  ASSUME NEW b \in [1..4 -> Octets]
  PROVE  (\E i \in DOMAIN Ipv4Rules : Matches(Ipv4Rules[i], b)) <=> Special4(b)
<1> DEFINE Hit(prefixes) == \E prefix \in prefixes : HasPrefix(b, prefix[1], prefix[2])
           rules == Ipv4Rules
<1>1. DOMAIN rules = 1..7
  BY DEF Ipv4Rules, Rule
<1>r1. rules[1].prefixes = {<<<<0, 0, 0, 0>>, 32>>}
  BY DEF Ipv4Rules, Rule
<1>r2. rules[2].prefixes = {<<<<127>>, 8>>}
  BY DEF Ipv4Rules, Rule
<1>r3. rules[3].prefixes = {<<<<10>>, 8>>, <<<<172, 16>>, 12>>, <<<<192, 168>>, 16>>}
  BY DEF Ipv4Rules, Rule
<1>r4. rules[4].prefixes = {<<<<169, 254>>, 16>>}
  BY DEF Ipv4Rules, Rule
<1>r5. rules[5].prefixes = {<<<<224>>, 4>>}
  BY DEF Ipv4Rules, Rule
<1>r6. rules[6].prefixes = {<<<<0>>, 8>>, <<<<100, 64>>, 10>>}
  BY DEF Ipv4Rules, Rule
<1>r7. rules[7].prefixes =
           {<<<<192, 0, 0>>, 24>>, <<<<192, 0, 2>>, 24>>, <<<<192, 88, 99>>, 24>>,
            <<<<198, 18>>, 15>>, <<<<198, 51, 100>>, 24>>, <<<<203, 0, 113>>, 24>>,
            <<<<240>>, 4>>}
  BY DEF Ipv4Rules, Rule
<1> HIDE DEF rules
<1>p. Prefixes4(b)
  BY PrefixesOf4
<1>2. (\E i \in DOMAIN rules : Matches(rules[i], b)) <=>
        \/ Hit(rules[1].prefixes) \/ Hit(rules[2].prefixes) \/ Hit(rules[3].prefixes)
        \/ Hit(rules[4].prefixes) \/ Hit(rules[5].prefixes) \/ Hit(rules[6].prefixes)
        \/ Hit(rules[7].prefixes)
  <2>1. \A i \in DOMAIN rules : i \in {1, 2, 3, 4, 5, 6, 7}
    BY <1>1
  <2>2. {1, 2, 3, 4, 5, 6, 7} \subseteq DOMAIN rules
    BY <1>1
  <2> QED
    BY <2>1, <2>2, Zenon DEF Matches
<1>3. Hit(rules[1].prefixes) => b[1] = 0
  BY <1>r1, <1>p DEF Prefixes4
<1>4. Hit(rules[2].prefixes) <=> b[1] = 127
  BY <1>r2, <1>p DEF Prefixes4
<1>5. Hit(rules[3].prefixes) <=>
        b[1] = 10 \/ (b[1] = 172 /\ b[2] \in 16..31) \/ (b[1] = 192 /\ b[2] = 168)
  BY <1>r3, <1>p DEF Prefixes4
<1>6. Hit(rules[4].prefixes) <=> b[1] = 169 /\ b[2] = 254
  BY <1>r4, <1>p DEF Prefixes4
<1>7. Hit(rules[5].prefixes) <=> b[1] \in 224..239
  BY <1>r5, <1>p DEF Prefixes4
<1>8. Hit(rules[6].prefixes) <=> b[1] = 0 \/ (b[1] = 100 /\ b[2] \in 64..127)
  BY <1>r6, <1>p DEF Prefixes4
<1>9. Hit(rules[7].prefixes) <=>
        \/ b[1] = 192 /\ b[2] = 0 /\ b[3] \in {0, 2}
        \/ b[1] = 192 /\ b[2] = 88 /\ b[3] = 99
        \/ b[1] = 198 /\ b[2] \in {18, 19}
        \/ b[1] = 198 /\ b[2] = 51 /\ b[3] = 100
        \/ b[1] = 203 /\ b[2] = 0 /\ b[3] = 113
        \/ b[1] \in 240..255
  BY <1>r7, <1>p DEF Prefixes4
<1>10. b[1] \in Int /\ b[1] <= 255
  BY OctetsAre
<1> QED
  BY <1>2, <1>3, <1>4, <1>5, <1>6, <1>7, <1>8, <1>9, <1>10 DEF Special4, rules

LEMMA RulesOf6 ==
  ASSUME NEW b \in [1..16 -> Octets]
  PROVE  \/ \E i \in DOMAIN Ipv6Rules : Matches(Ipv6Rules[i], b)
         \/ ~HasPrefix(b, <<32>>, 3)
         <=> Special6(b)
<1> DEFINE Hit(prefixes) == \E prefix \in prefixes : HasPrefix(b, prefix[1], prefix[2])
           rules == Ipv6Rules
<1>1. DOMAIN rules = 1..8
  BY DEF Ipv6Rules, Rule
<1>r1. rules[1].prefixes = {<<Zero, 128>>}
  BY DEF Ipv6Rules, Rule
<1>r2. rules[2].prefixes = {<<Loopback, 128>>}
  BY DEF Ipv6Rules, Rule
<1>r3. rules[3].prefixes = {<<Mapped, 96>>}
  BY DEF Ipv6Rules, Rule
<1>r4. rules[4].prefixes = {<<<<252>>, 7>>}
  BY DEF Ipv6Rules, Rule
<1>r5. rules[5].prefixes = {<<<<254, 128>>, 10>>}
  BY DEF Ipv6Rules, Rule
<1>r6. rules[6].prefixes = {<<<<255>>, 8>>}
  BY DEF Ipv6Rules, Rule
<1>r7. rules[7].prefixes =
           {<<<<>>, 96>>, <<<<0, 100, 255, 155>>, 96>>, <<<<0, 100, 255, 155, 0, 1>>, 48>>,
            <<<<32, 1, 0, 16>>, 28>>, <<<<32, 1, 13, 184>>, 32>>}
  BY DEF Ipv6Rules, Rule
<1>r8. rules[8].prefixes =
           {<<<<1, 0>>, 64>>, <<<<32, 1>>, 23>>, <<<<32, 2>>, 16>>, <<<<63, 255>>, 20>>}
  BY DEF Ipv6Rules, Rule
<1> HIDE DEF rules
<1>p. Prefixes6(b)
  BY PrefixesOf6
<1>2. (\E i \in DOMAIN rules : Matches(rules[i], b)) <=>
        \/ Hit(rules[1].prefixes) \/ Hit(rules[2].prefixes) \/ Hit(rules[3].prefixes)
        \/ Hit(rules[4].prefixes) \/ Hit(rules[5].prefixes) \/ Hit(rules[6].prefixes)
        \/ Hit(rules[7].prefixes) \/ Hit(rules[8].prefixes)
  <2>1. \A i \in DOMAIN rules : i \in {1, 2, 3, 4, 5, 6, 7, 8}
    BY <1>1
  <2>2. {1, 2, 3, 4, 5, 6, 7, 8} \subseteq DOMAIN rules
    BY <1>1
  <2> QED
    BY <2>1, <2>2, Zenon DEF Matches
<1>3. Hit(rules[1].prefixes) \/ Hit(rules[2].prefixes) \/ Hit(rules[3].prefixes) => b[1] = 0
  <2>1. /\ HasPrefix(b, Zero, 128) => b[1] = 0
        /\ HasPrefix(b, Loopback, 128) => b[1] = 0
        /\ HasPrefix(b, Mapped, 96) => b[1] = 0
    BY <1>p DEF Prefixes6
  <2> QED
    BY <1>r1, <1>r2, <1>r3, <2>1
<1>4. Hit(rules[4].prefixes) => b[1] \in {252, 253}
  <2>1. HasPrefix(b, <<252>>, 7) => b[1] \in {252, 253}
    BY <1>p DEF Prefixes6
  <2> QED
    BY <1>r4, <2>1
<1>5. Hit(rules[5].prefixes) => b[1] = 254
  <2>1. HasPrefix(b, <<254, 128>>, 10) => b[1] = 254
    BY <1>p DEF Prefixes6
  <2> QED
    BY <1>r5, <2>1
<1>6. Hit(rules[6].prefixes) => b[1] = 255
  <2>1. HasPrefix(b, <<255>>, 8) => b[1] = 255
    BY <1>p DEF Prefixes6
  <2> QED
    BY <1>r6, <2>1
<1>7. /\ Hit(rules[7].prefixes) =>
           \/ b[1] = 0
           \/ b[1] = 32 /\ b[2] = 1 /\ b[3] = 0
           \/ b[1] = 32 /\ b[2] = 1 /\ b[3] = 13 /\ b[4] = 184
      /\ b[1] = 32 /\ b[2] = 1 /\ b[3] = 13 /\ b[4] = 184 => Hit(rules[7].prefixes)
  <2>1. HasPrefix(b, <<>>, 96) => b[1] = 0
    BY <1>p DEF Prefixes6
  <2>2. HasPrefix(b, <<0, 100, 255, 155>>, 96) => b[1] = 0
    BY <1>p DEF Prefixes6
  <2>3. HasPrefix(b, <<0, 100, 255, 155, 0, 1>>, 48) => b[1] = 0
    BY <1>p DEF Prefixes6
  <2>4. HasPrefix(b, <<32, 1, 0, 16>>, 28) => b[1] = 32 /\ b[2] = 1 /\ b[3] = 0
    BY <1>p DEF Prefixes6
  <2>5. HasPrefix(b, <<32, 1, 13, 184>>, 32) <=>
          b[1] = 32 /\ b[2] = 1 /\ b[3] = 13 /\ b[4] = 184
    BY <1>p DEF Prefixes6
  <2> QED
    BY <1>r7, <2>1, <2>2, <2>3, <2>4, <2>5
<1>8. /\ Hit(rules[8].prefixes) =>
           \/ b[1] = 1
           \/ b[1] = 32 /\ b[2] = 1 /\ b[3] \in {0, 1}
           \/ b[1] = 32 /\ b[2] = 2
           \/ b[1] = 63 /\ b[2] = 255 /\ b[3] \in 0..15
      /\ b[1] = 32 /\ b[2] = 1 /\ b[3] \in {0, 1} => Hit(rules[8].prefixes)
      /\ b[1] = 32 /\ b[2] = 2 => Hit(rules[8].prefixes)
      /\ b[1] = 63 /\ b[2] = 255 /\ b[3] \in 0..15 => Hit(rules[8].prefixes)
  <2>1. HasPrefix(b, <<1, 0>>, 64) => b[1] = 1
    BY <1>p DEF Prefixes6
  <2>2. HasPrefix(b, <<32, 1>>, 23) <=> b[1] = 32 /\ b[2] = 1 /\ b[3] \in {0, 1}
    BY <1>p DEF Prefixes6
  <2>3. HasPrefix(b, <<32, 2>>, 16) <=> b[1] = 32 /\ b[2] = 2
    BY <1>p DEF Prefixes6
  <2>4. HasPrefix(b, <<63, 255>>, 20) <=> b[1] = 63 /\ b[2] = 255 /\ b[3] \in 0..15
    BY <1>p DEF Prefixes6
  <2> QED
    BY <1>r8, <2>1, <2>2, <2>3, <2>4
<1>9. HasPrefix(b, <<32>>, 3) <=> b[1] \in 32..63
  BY <1>p DEF Prefixes6
<1>10. b[1] \in Int
  BY OctetsAre
<1>11. (\E i \in DOMAIN rules : Matches(rules[i], b)) => Special6(b)
  BY <1>2, <1>3, <1>4, <1>5, <1>6, <1>7, <1>8, <1>10 DEF Special6
<1>12. Special6(b) => (\E i \in DOMAIN rules : Matches(rules[i], b)) \/ ~HasPrefix(b, <<32>>, 3)
  BY <1>2, <1>7, <1>8, <1>9 DEF Special6
<1>13. ~HasPrefix(b, <<32>>, 3) => Special6(b)
  BY <1>9 DEF Special6
<1> QED
  BY <1>11, <1>12, <1>13 DEF rules

(* The blocks of each family, all of them together.                        *)
Between(ends, n, b) == AtMost(Fill(ends[1], n, 0), b) /\ AtMost(b, Fill(ends[2], n, 255))

LEMMA BlocksByLength ==
  ASSUME NEW n \in Nat, n >= 4, NEW b \in [1..n -> Octets]
  PROVE  /\ \A x, y \in Octets :
              Between(<<<<x>>, <<y>>>>, n, b) <=> x <= b[1] /\ b[1] <= y
         /\ \A v, x, y \in Octets :
              Between(<<<<v, x>>, <<v, y>>>>, n, b) <=> b[1] = v /\ x <= b[2] /\ b[2] <= y
         /\ \A u, v, x, y \in Octets :
              Between(<<<<u, v, x>>, <<u, v, y>>>>, n, b) <=>
                b[1] = u /\ b[2] = v /\ x <= b[3] /\ b[3] <= y
         /\ \A u, v, w, x \in Octets :
              Between(<<<<u, v, w, x>>, <<u, v, w, x>>>>, n, b) <=>
                b[1] = u /\ b[2] = v /\ b[3] = w /\ b[4] = x
<1>1. ASSUME NEW x \in Octets, NEW y \in Octets
      PROVE  Between(<<<<x>>, <<y>>>>, n, b) <=> x <= b[1] /\ b[1] <= y
  BY BlockOfOne DEF Between
<1>2. ASSUME NEW v \in Octets, NEW x \in Octets, NEW y \in Octets
      PROVE  Between(<<<<v, x>>, <<v, y>>>>, n, b) <=> b[1] = v /\ x <= b[2] /\ b[2] <= y
  BY BlockOfTwo DEF Between
<1>3. ASSUME NEW u \in Octets, NEW v \in Octets, NEW x \in Octets, NEW y \in Octets
      PROVE  Between(<<<<u, v, x>>, <<u, v, y>>>>, n, b) <=>
               b[1] = u /\ b[2] = v /\ x <= b[3] /\ b[3] <= y
  BY BlockOfThree DEF Between
<1>4. ASSUME NEW u \in Octets, NEW v \in Octets, NEW w \in Octets, NEW x \in Octets
      PROVE  Between(<<<<u, v, w, x>>, <<u, v, w, x>>>>, n, b) <=>
               b[1] = u /\ b[2] = v /\ b[3] = w /\ b[4] = x
  BY BlockOfFour DEF Between
<1> QED
  BY <1>1, <1>2, <1>3, <1>4

LEMMA OctetLiterals ==
  /\ 0 \in Octets /\ 1 \in Octets /\ 2 \in Octets /\ 10 \in Octets /\ 13 \in Octets
  /\ 15 \in Octets /\ 16 \in Octets /\ 18 \in Octets /\ 19 \in Octets /\ 31 \in Octets
  /\ 32 \in Octets /\ 51 \in Octets /\ 63 \in Octets /\ 64 \in Octets /\ 88 \in Octets
  /\ 99 \in Octets /\ 100 \in Octets /\ 113 \in Octets /\ 127 \in Octets /\ 168 \in Octets
  /\ 169 \in Octets /\ 172 \in Octets /\ 184 \in Octets /\ 192 \in Octets /\ 198 \in Octets
  /\ 203 \in Octets /\ 224 \in Octets /\ 254 \in Octets /\ 255 \in Octets
BY DEF Octets

LEMMA BlocksOf4 ==
  ASSUME NEW b \in [1..4 -> Octets]
  PROVE  (\E ends \in Ends4 : Between(ends, 4, b)) <=> Special4(b)
<1>a. /\ b[1] \in Int /\ 0 <= b[1] /\ b[1] <= 255
      /\ b[2] \in Int /\ b[3] \in Int /\ b[4] \in Int
  BY OctetsAre
<1>0. 4 \in Nat /\ 4 >= 4
  OBVIOUS
<1>b. \A x, y \in Octets : Between(<<<<x>>, <<y>>>>, 4, b) <=> x <= b[1] /\ b[1] <= y
  BY <1>0, BlocksByLength, Zenon
<1>c. \A v, x, y \in Octets :
        Between(<<<<v, x>>, <<v, y>>>>, 4, b) <=> b[1] = v /\ x <= b[2] /\ b[2] <= y
  BY <1>0, BlocksByLength, Zenon
<1>d. \A u, v, x, y \in Octets :
        Between(<<<<u, v, x>>, <<u, v, y>>>>, 4, b) <=>
          b[1] = u /\ b[2] = v /\ x <= b[3] /\ b[3] <= y
  BY <1>0, BlocksByLength, Zenon
<1>1. Between(<<<<0>>, <<0>>>>, 4, b) <=> 0 <= b[1] /\ b[1] <= 0
  <2>1. 0 \in Octets
    BY OctetLiterals
  <2> QED
    BY <2>1, <1>b, SMT
<1>2. Between(<<<<10>>, <<10>>>>, 4, b) <=> 10 <= b[1] /\ b[1] <= 10
  <2>1. 10 \in Octets
    BY OctetLiterals
  <2> QED
    BY <2>1, <1>b, SMT
<1>3. Between(<<<<100, 64>>, <<100, 127>>>>, 4, b) <=>
       b[1] = 100 /\ 64 <= b[2] /\ b[2] <= 127
  <2>1. 64 \in Octets /\ 100 \in Octets /\ 127 \in Octets
    BY OctetLiterals
  <2> QED
    BY <2>1, <1>c, SMT
<1>4. Between(<<<<127>>, <<127>>>>, 4, b) <=> 127 <= b[1] /\ b[1] <= 127
  <2>1. 127 \in Octets
    BY OctetLiterals
  <2> QED
    BY <2>1, <1>b, SMT
<1>5. Between(<<<<169, 254>>, <<169, 254>>>>, 4, b) <=>
       b[1] = 169 /\ 254 <= b[2] /\ b[2] <= 254
  <2>1. 169 \in Octets /\ 254 \in Octets
    BY OctetLiterals
  <2> QED
    BY <2>1, <1>c, SMT
<1>6. Between(<<<<172, 16>>, <<172, 31>>>>, 4, b) <=> b[1] = 172 /\ 16 <= b[2] /\ b[2] <= 31
  <2>1. 16 \in Octets /\ 31 \in Octets /\ 172 \in Octets
    BY OctetLiterals
  <2> QED
    BY <2>1, <1>c, SMT
<1>7. Between(<<<<192, 0, 0>>, <<192, 0, 0>>>>, 4, b) <=>
       b[1] = 192 /\ b[2] = 0 /\ 0 <= b[3] /\ b[3] <= 0
  <2>1. 0 \in Octets /\ 192 \in Octets
    BY OctetLiterals
  <2> QED
    BY <2>1, <1>d, SMT
<1>8. Between(<<<<192, 0, 2>>, <<192, 0, 2>>>>, 4, b) <=>
       b[1] = 192 /\ b[2] = 0 /\ 2 <= b[3] /\ b[3] <= 2
  <2>1. 0 \in Octets /\ 2 \in Octets /\ 192 \in Octets
    BY OctetLiterals
  <2> QED
    BY <2>1, <1>d, SMT
<1>9. Between(<<<<192, 88, 99>>, <<192, 88, 99>>>>, 4, b) <=>
       b[1] = 192 /\ b[2] = 88 /\ 99 <= b[3] /\ b[3] <= 99
  <2>1. 88 \in Octets /\ 99 \in Octets /\ 192 \in Octets
    BY OctetLiterals
  <2> QED
    BY <2>1, <1>d, SMT
<1>10. Between(<<<<192, 168>>, <<192, 168>>>>, 4, b) <=>
       b[1] = 192 /\ 168 <= b[2] /\ b[2] <= 168
  <2>1. 168 \in Octets /\ 192 \in Octets
    BY OctetLiterals
  <2> QED
    BY <2>1, <1>c, SMT
<1>11. Between(<<<<198, 18>>, <<198, 19>>>>, 4, b) <=>
       b[1] = 198 /\ 18 <= b[2] /\ b[2] <= 19
  <2>1. 18 \in Octets /\ 19 \in Octets /\ 198 \in Octets
    BY OctetLiterals
  <2> QED
    BY <2>1, <1>c, SMT
<1>12. Between(<<<<198, 51, 100>>, <<198, 51, 100>>>>, 4, b) <=>
       b[1] = 198 /\ b[2] = 51 /\ 100 <= b[3] /\ b[3] <= 100
  <2>1. 51 \in Octets /\ 100 \in Octets /\ 198 \in Octets
    BY OctetLiterals
  <2> QED
    BY <2>1, <1>d, SMT
<1>13. Between(<<<<203, 0, 113>>, <<203, 0, 113>>>>, 4, b) <=>
       b[1] = 203 /\ b[2] = 0 /\ 113 <= b[3] /\ b[3] <= 113
  <2>1. 0 \in Octets /\ 113 \in Octets /\ 203 \in Octets
    BY OctetLiterals
  <2> QED
    BY <2>1, <1>d, SMT
<1>14. Between(<<<<224>>, <<255>>>>, 4, b) <=> 224 <= b[1] /\ b[1] <= 255
  <2>1. 224 \in Octets /\ 255 \in Octets
    BY OctetLiterals
  <2> QED
    BY <2>1, <1>b, SMT
<1>15. ASSUME NEW ends \in Ends4, Between(ends, 4, b)
      PROVE  Special4(b)
  <2>1. \/ ends = <<<<0>>, <<0>>>>
        \/ ends = <<<<10>>, <<10>>>>
        \/ ends = <<<<100, 64>>, <<100, 127>>>>
        \/ ends = <<<<127>>, <<127>>>>
        \/ ends = <<<<169, 254>>, <<169, 254>>>>
        \/ ends = <<<<172, 16>>, <<172, 31>>>>
        \/ ends = <<<<192, 0, 0>>, <<192, 0, 0>>>>
        \/ ends = <<<<192, 0, 2>>, <<192, 0, 2>>>>
        \/ ends = <<<<192, 88, 99>>, <<192, 88, 99>>>>
        \/ ends = <<<<192, 168>>, <<192, 168>>>>
        \/ ends = <<<<198, 18>>, <<198, 19>>>>
        \/ ends = <<<<198, 51, 100>>, <<198, 51, 100>>>>
        \/ ends = <<<<203, 0, 113>>, <<203, 0, 113>>>>
        \/ ends = <<<<224>>, <<255>>>>
    BY SMT DEF Ends4
  <2>2. CASE ends = <<<<0>>, <<0>>>>
    BY <2>2, <1>15, <1>1, <1>a DEF Special4
  <2>3. CASE ends = <<<<10>>, <<10>>>>
    BY <2>3, <1>15, <1>2, <1>a DEF Special4
  <2>4. CASE ends = <<<<100, 64>>, <<100, 127>>>>
    BY <2>4, <1>15, <1>3, <1>a DEF Special4
  <2>5. CASE ends = <<<<127>>, <<127>>>>
    BY <2>5, <1>15, <1>4, <1>a DEF Special4
  <2>6. CASE ends = <<<<169, 254>>, <<169, 254>>>>
    BY <2>6, <1>15, <1>5, <1>a DEF Special4
  <2>7. CASE ends = <<<<172, 16>>, <<172, 31>>>>
    BY <2>7, <1>15, <1>6, <1>a DEF Special4
  <2>8. CASE ends = <<<<192, 0, 0>>, <<192, 0, 0>>>>
    BY <2>8, <1>15, <1>7, <1>a DEF Special4
  <2>9. CASE ends = <<<<192, 0, 2>>, <<192, 0, 2>>>>
    BY <2>9, <1>15, <1>8, <1>a DEF Special4
  <2>10. CASE ends = <<<<192, 88, 99>>, <<192, 88, 99>>>>
    BY <2>10, <1>15, <1>9, <1>a DEF Special4
  <2>11. CASE ends = <<<<192, 168>>, <<192, 168>>>>
    BY <2>11, <1>15, <1>10, <1>a DEF Special4
  <2>12. CASE ends = <<<<198, 18>>, <<198, 19>>>>
    BY <2>12, <1>15, <1>11, <1>a DEF Special4
  <2>13. CASE ends = <<<<198, 51, 100>>, <<198, 51, 100>>>>
    BY <2>13, <1>15, <1>12, <1>a DEF Special4
  <2>14. CASE ends = <<<<203, 0, 113>>, <<203, 0, 113>>>>
    BY <2>14, <1>15, <1>13, <1>a DEF Special4
  <2>15. CASE ends = <<<<224>>, <<255>>>>
    BY <2>15, <1>15, <1>14, <1>a DEF Special4
  <2> QED
    BY <2>1, <2>2, <2>3, <2>4, <2>5, <2>6, <2>7, <2>8, <2>9, <2>10, <2>11, <2>12, <2>13,
       <2>14, <2>15, SMT
<1>16. ASSUME Special4(b)
      PROVE  \E ends \in Ends4 : Between(ends, 4, b)
  <2> DEFINE Some == \E ends \in Ends4 : Between(ends, 4, b)
  <2>1. \/ Between(<<<<0>>, <<0>>>>, 4, b)
        \/ Between(<<<<10>>, <<10>>>>, 4, b)
        \/ Between(<<<<100, 64>>, <<100, 127>>>>, 4, b)
        \/ Between(<<<<127>>, <<127>>>>, 4, b)
        \/ Between(<<<<169, 254>>, <<169, 254>>>>, 4, b)
        \/ Between(<<<<172, 16>>, <<172, 31>>>>, 4, b)
        \/ Between(<<<<192, 0, 0>>, <<192, 0, 0>>>>, 4, b)
        \/ Between(<<<<192, 0, 2>>, <<192, 0, 2>>>>, 4, b)
        \/ Between(<<<<192, 88, 99>>, <<192, 88, 99>>>>, 4, b)
        \/ Between(<<<<192, 168>>, <<192, 168>>>>, 4, b)
        \/ Between(<<<<198, 18>>, <<198, 19>>>>, 4, b)
        \/ Between(<<<<198, 51, 100>>, <<198, 51, 100>>>>, 4, b)
        \/ Between(<<<<203, 0, 113>>, <<203, 0, 113>>>>, 4, b)
        \/ Between(<<<<224>>, <<255>>>>, 4, b)
    BY <1>1, <1>2, <1>3, <1>4, <1>5, <1>6, <1>7, <1>8, <1>9, <1>10, <1>11, <1>12, <1>13,
       <1>14, <1>a, <1>16 DEF Special4
  <2>2. Between(<<<<0>>, <<0>>>>, 4, b) => Some
    <3>1. <<<<0>>, <<0>>>> \in Ends4
      BY SMT DEF Ends4
    <3> QED
      BY <3>1, Zenon
  <2>3. Between(<<<<10>>, <<10>>>>, 4, b) => Some
    <3>1. <<<<10>>, <<10>>>> \in Ends4
      BY SMT DEF Ends4
    <3> QED
      BY <3>1, Zenon
  <2>4. Between(<<<<100, 64>>, <<100, 127>>>>, 4, b) => Some
    <3>1. <<<<100, 64>>, <<100, 127>>>> \in Ends4
      BY SMT DEF Ends4
    <3> QED
      BY <3>1, Zenon
  <2>5. Between(<<<<127>>, <<127>>>>, 4, b) => Some
    <3>1. <<<<127>>, <<127>>>> \in Ends4
      BY SMT DEF Ends4
    <3> QED
      BY <3>1, Zenon
  <2>6. Between(<<<<169, 254>>, <<169, 254>>>>, 4, b) => Some
    <3>1. <<<<169, 254>>, <<169, 254>>>> \in Ends4
      BY SMT DEF Ends4
    <3> QED
      BY <3>1, Zenon
  <2>7. Between(<<<<172, 16>>, <<172, 31>>>>, 4, b) => Some
    <3>1. <<<<172, 16>>, <<172, 31>>>> \in Ends4
      BY SMT DEF Ends4
    <3> QED
      BY <3>1, Zenon
  <2>8. Between(<<<<192, 0, 0>>, <<192, 0, 0>>>>, 4, b) => Some
    <3>1. <<<<192, 0, 0>>, <<192, 0, 0>>>> \in Ends4
      BY SMT DEF Ends4
    <3> QED
      BY <3>1, Zenon
  <2>9. Between(<<<<192, 0, 2>>, <<192, 0, 2>>>>, 4, b) => Some
    <3>1. <<<<192, 0, 2>>, <<192, 0, 2>>>> \in Ends4
      BY SMT DEF Ends4
    <3> QED
      BY <3>1, Zenon
  <2>10. Between(<<<<192, 88, 99>>, <<192, 88, 99>>>>, 4, b) => Some
    <3>1. <<<<192, 88, 99>>, <<192, 88, 99>>>> \in Ends4
      BY SMT DEF Ends4
    <3> QED
      BY <3>1, Zenon
  <2>11. Between(<<<<192, 168>>, <<192, 168>>>>, 4, b) => Some
    <3>1. <<<<192, 168>>, <<192, 168>>>> \in Ends4
      BY SMT DEF Ends4
    <3> QED
      BY <3>1, Zenon
  <2>12. Between(<<<<198, 18>>, <<198, 19>>>>, 4, b) => Some
    <3>1. <<<<198, 18>>, <<198, 19>>>> \in Ends4
      BY SMT DEF Ends4
    <3> QED
      BY <3>1, Zenon
  <2>13. Between(<<<<198, 51, 100>>, <<198, 51, 100>>>>, 4, b) => Some
    <3>1. <<<<198, 51, 100>>, <<198, 51, 100>>>> \in Ends4
      BY SMT DEF Ends4
    <3> QED
      BY <3>1, Zenon
  <2>14. Between(<<<<203, 0, 113>>, <<203, 0, 113>>>>, 4, b) => Some
    <3>1. <<<<203, 0, 113>>, <<203, 0, 113>>>> \in Ends4
      BY SMT DEF Ends4
    <3> QED
      BY <3>1, Zenon
  <2>15. Between(<<<<224>>, <<255>>>>, 4, b) => Some
    <3>1. <<<<224>>, <<255>>>> \in Ends4
      BY SMT DEF Ends4
    <3> QED
      BY <3>1, Zenon
  <2> HIDE DEF Some
  <2>s. Some
    BY <2>1, <2>2, <2>3, <2>4, <2>5, <2>6, <2>7, <2>8, <2>9, <2>10, <2>11, <2>12, <2>13,
       <2>14, <2>15, SMT
  <2> QED
    BY <2>s DEF Some
<1> QED
  BY <1>15, <1>16

LEMMA BlocksOf6 ==
  ASSUME NEW b \in [1..16 -> Octets]
  PROVE  (\E ends \in Ends6 : Between(ends, 16, b)) <=> Special6(b)
<1>a. /\ b[1] \in Int /\ 0 <= b[1] /\ b[1] <= 255
      /\ b[2] \in Int /\ b[3] \in Int /\ b[4] \in Int
  BY OctetsAre
<1>0. 16 \in Nat /\ 16 >= 4
  OBVIOUS
<1>b. \A x, y \in Octets : Between(<<<<x>>, <<y>>>>, 16, b) <=> x <= b[1] /\ b[1] <= y
  BY <1>0, BlocksByLength, Zenon
<1>c. \A v, x, y \in Octets :
        Between(<<<<v, x>>, <<v, y>>>>, 16, b) <=> b[1] = v /\ x <= b[2] /\ b[2] <= y
  BY <1>0, BlocksByLength, Zenon
<1>d. \A u, v, x, y \in Octets :
        Between(<<<<u, v, x>>, <<u, v, y>>>>, 16, b) <=>
          b[1] = u /\ b[2] = v /\ x <= b[3] /\ b[3] <= y
  BY <1>0, BlocksByLength, Zenon
<1>e. \A u, v, w, x \in Octets :
        Between(<<<<u, v, w, x>>, <<u, v, w, x>>>>, 16, b) <=>
          b[1] = u /\ b[2] = v /\ b[3] = w /\ b[4] = x
  BY <1>0, BlocksByLength, Zenon
<1>1. Between(<<<<0>>, <<31>>>>, 16, b) <=> 0 <= b[1] /\ b[1] <= 31
  <2>1. 0 \in Octets /\ 31 \in Octets
    BY OctetLiterals
  <2> QED
    BY <2>1, <1>b, SMT
<1>2. Between(<<<<64>>, <<255>>>>, 16, b) <=> 64 <= b[1] /\ b[1] <= 255
  <2>1. 64 \in Octets /\ 255 \in Octets
    BY OctetLiterals
  <2> QED
    BY <2>1, <1>b, SMT
<1>3. Between(<<<<32, 1, 0>>, <<32, 1, 1>>>>, 16, b) <=>
       b[1] = 32 /\ b[2] = 1 /\ 0 <= b[3] /\ b[3] <= 1
  <2>1. 0 \in Octets /\ 1 \in Octets /\ 32 \in Octets
    BY OctetLiterals
  <2> QED
    BY <2>1, <1>d, SMT
<1>4. Between(<<<<32, 1, 13, 184>>, <<32, 1, 13, 184>>>>, 16, b) <=>
       b[1] = 32 /\ b[2] = 1 /\ b[3] = 13 /\ b[4] = 184
  <2>1. 1 \in Octets /\ 13 \in Octets /\ 32 \in Octets /\ 184 \in Octets
    BY OctetLiterals
  <2> QED
    BY <2>1, <1>e, SMT
<1>5. Between(<<<<32, 2>>, <<32, 2>>>>, 16, b) <=> b[1] = 32 /\ 2 <= b[2] /\ b[2] <= 2
  <2>1. 2 \in Octets /\ 32 \in Octets
    BY OctetLiterals
  <2> QED
    BY <2>1, <1>c, SMT
<1>6. Between(<<<<63, 255, 0>>, <<63, 255, 15>>>>, 16, b) <=>
       b[1] = 63 /\ b[2] = 255 /\ 0 <= b[3] /\ b[3] <= 15
  <2>1. 0 \in Octets /\ 15 \in Octets /\ 63 \in Octets /\ 255 \in Octets
    BY OctetLiterals
  <2> QED
    BY <2>1, <1>d, SMT
<1>7. ASSUME NEW ends \in Ends6, Between(ends, 16, b)
      PROVE  Special6(b)
  <2>1. \/ ends = <<<<0>>, <<31>>>>
        \/ ends = <<<<64>>, <<255>>>>
        \/ ends = <<<<32, 1, 0>>, <<32, 1, 1>>>>
        \/ ends = <<<<32, 1, 13, 184>>, <<32, 1, 13, 184>>>>
        \/ ends = <<<<32, 2>>, <<32, 2>>>>
        \/ ends = <<<<63, 255, 0>>, <<63, 255, 15>>>>
    BY SMT DEF Ends6
  <2>2. CASE ends = <<<<0>>, <<31>>>>
    BY <2>2, <1>7, <1>1, <1>a DEF Special6
  <2>3. CASE ends = <<<<64>>, <<255>>>>
    BY <2>3, <1>7, <1>2, <1>a DEF Special6
  <2>4. CASE ends = <<<<32, 1, 0>>, <<32, 1, 1>>>>
    BY <2>4, <1>7, <1>3, <1>a DEF Special6
  <2>5. CASE ends = <<<<32, 1, 13, 184>>, <<32, 1, 13, 184>>>>
    BY <2>5, <1>7, <1>4, <1>a DEF Special6
  <2>6. CASE ends = <<<<32, 2>>, <<32, 2>>>>
    BY <2>6, <1>7, <1>5, <1>a DEF Special6
  <2>7. CASE ends = <<<<63, 255, 0>>, <<63, 255, 15>>>>
    BY <2>7, <1>7, <1>6, <1>a DEF Special6
  <2> QED
    BY <2>1, <2>2, <2>3, <2>4, <2>5, <2>6, <2>7, Zenon
<1>8. ASSUME Special6(b)
      PROVE  \E ends \in Ends6 : Between(ends, 16, b)
  <2> DEFINE Some == \E ends \in Ends6 : Between(ends, 16, b)
  <2>1. \/ Between(<<<<0>>, <<31>>>>, 16, b)
        \/ Between(<<<<64>>, <<255>>>>, 16, b)
        \/ Between(<<<<32, 1, 0>>, <<32, 1, 1>>>>, 16, b)
        \/ Between(<<<<32, 1, 13, 184>>, <<32, 1, 13, 184>>>>, 16, b)
        \/ Between(<<<<32, 2>>, <<32, 2>>>>, 16, b)
        \/ Between(<<<<63, 255, 0>>, <<63, 255, 15>>>>, 16, b)
    BY <1>1, <1>2, <1>3, <1>4, <1>5, <1>6, <1>a, <1>8 DEF Special6
  <2>2. Between(<<<<0>>, <<31>>>>, 16, b) => Some
    <3>1. <<<<0>>, <<31>>>> \in Ends6
      BY SMT DEF Ends6
    <3> QED
      BY <3>1, Zenon
  <2>3. Between(<<<<64>>, <<255>>>>, 16, b) => Some
    <3>1. <<<<64>>, <<255>>>> \in Ends6
      BY SMT DEF Ends6
    <3> QED
      BY <3>1, Zenon
  <2>4. Between(<<<<32, 1, 0>>, <<32, 1, 1>>>>, 16, b) => Some
    <3>1. <<<<32, 1, 0>>, <<32, 1, 1>>>> \in Ends6
      BY SMT DEF Ends6
    <3> QED
      BY <3>1, Zenon
  <2>5. Between(<<<<32, 1, 13, 184>>, <<32, 1, 13, 184>>>>, 16, b) => Some
    <3>1. <<<<32, 1, 13, 184>>, <<32, 1, 13, 184>>>> \in Ends6
      BY SMT DEF Ends6
    <3> QED
      BY <3>1, Zenon
  <2>6. Between(<<<<32, 2>>, <<32, 2>>>>, 16, b) => Some
    <3>1. <<<<32, 2>>, <<32, 2>>>> \in Ends6
      BY SMT DEF Ends6
    <3> QED
      BY <3>1, Zenon
  <2>7. Between(<<<<63, 255, 0>>, <<63, 255, 15>>>>, 16, b) => Some
    <3>1. <<<<63, 255, 0>>, <<63, 255, 15>>>> \in Ends6
      BY SMT DEF Ends6
    <3> QED
      BY <3>1, Zenon
  <2> HIDE DEF Some
  <2>s. Some
    BY <2>1, <2>2, <2>3, <2>4, <2>5, <2>6, <2>7, SMT
  <2> QED
    BY <2>s DEF Some
<1> QED
  BY <1>7, <1>8

(* An address in a reserved block and one the policy refuses are the same. *)
LEMMA ReservedIs ==
  ASSUME NEW a, IsAddress(a)
  PROVE  InReserved(a) <=>
           (a.family = "ipv4" /\ Special4(a.bytes)) \/ (a.family = "ipv6" /\ Special6(a.bytes))
<1>1. /\ a.family = "ipv4" => a.bytes \in [1..4 -> Octets]
      /\ a.family = "ipv6" => a.bytes \in [1..16 -> Octets]
      /\ a.family \in {"ipv4", "ipv6"}
  BY DEF IsAddress
<1>2. InReserved(a) <=>
        \/ a.family = "ipv4" /\ \E ends \in Ends4 : Between(ends, 4, a.bytes)
        \/ a.family = "ipv6" /\ \E ends \in Ends6 : Between(ends, 16, a.bytes)
  <2>1. ASSUME NEW ends
        PROVE  /\ Block("ipv4", ends[1], ends[2]).family = "ipv4"
               /\ AtMost(Block("ipv4", ends[1], ends[2]).first, a.bytes)
                    /\ AtMost(a.bytes, Block("ipv4", ends[1], ends[2]).last)
                  <=> Between(ends, 4, a.bytes)
               /\ Block("ipv6", ends[1], ends[2]).family = "ipv6"
               /\ AtMost(Block("ipv6", ends[1], ends[2]).first, a.bytes)
                    /\ AtMost(a.bytes, Block("ipv6", ends[1], ends[2]).last)
                  <=> Between(ends, 16, a.bytes)
    <3>1. /\ Block("ipv4", ends[1], ends[2]).family = "ipv4"
          /\ Block("ipv4", ends[1], ends[2]).first = Fill(ends[1], 4, 0)
          /\ Block("ipv4", ends[1], ends[2]).last = Fill(ends[2], 4, 255)
      BY DEF Block
    <3>2. /\ Block("ipv6", ends[1], ends[2]).family = "ipv6"
          /\ Block("ipv6", ends[1], ends[2]).first = Fill(ends[1], 16, 0)
          /\ Block("ipv6", ends[1], ends[2]).last = Fill(ends[2], 16, 255)
      BY DEF Block
    <3> QED
      BY <3>1, <3>2 DEF Between
  <2>2. \A block : block \in Reserved <=>
          \/ \E ends \in Ends4 : block = Block("ipv4", ends[1], ends[2])
          \/ \E ends \in Ends6 : block = Block("ipv6", ends[1], ends[2])
    BY Zenon DEF Reserved
  <2>3. ASSUME InReserved(a)
        PROVE  \/ a.family = "ipv4" /\ \E ends \in Ends4 : Between(ends, 4, a.bytes)
               \/ a.family = "ipv6" /\ \E ends \in Ends6 : Between(ends, 16, a.bytes)
    <3>1. PICK block \in Reserved :
            a.family = block.family /\ AtMost(block.first, a.bytes) /\ AtMost(a.bytes, block.last)
      BY <2>3 DEF InReserved
    <3>2. CASE \E ends \in Ends4 : block = Block("ipv4", ends[1], ends[2])
      BY <3>1, <3>2, <2>1
    <3>3. CASE \E ends \in Ends6 : block = Block("ipv6", ends[1], ends[2])
      BY <3>1, <3>3, <2>1
    <3> QED
      BY <3>2, <3>3, <2>2
  <2>4. ASSUME a.family = "ipv4", NEW ends \in Ends4, Between(ends, 4, a.bytes)
        PROVE  InReserved(a)
    <3>1. Block("ipv4", ends[1], ends[2]) \in Reserved
      BY <2>2
    <3> QED
      BY <3>1, <2>1, <2>4 DEF InReserved
  <2>5. ASSUME a.family = "ipv6", NEW ends \in Ends6, Between(ends, 16, a.bytes)
        PROVE  InReserved(a)
    <3>1. Block("ipv6", ends[1], ends[2]) \in Reserved
      BY <2>2
    <3> QED
      BY <3>1, <2>1, <2>5 DEF InReserved
  <2> QED
    BY <2>3, <2>4, <2>5
<1>3. a.family = "ipv4" =>
        ((\E ends \in Ends4 : Between(ends, 4, a.bytes)) <=> Special4(a.bytes))
  BY <1>1, BlocksOf4
<1>4. a.family = "ipv6" =>
        ((\E ends \in Ends6 : Between(ends, 16, a.bytes)) <=> Special6(a.bytes))
  BY <1>1, BlocksOf6
<1> QED
  BY <1>2, <1>3, <1>4

LEMMA RulesRefuse ==
  /\ DOMAIN Ipv4Rules = 1..7 /\ \A i \in 1..7 : Ipv4Rules[i].error # "none"
  /\ DOMAIN Ipv6Rules = 1..8 /\ \A i \in 1..8 : Ipv6Rules[i].error # "none"
BY DEF Ipv4Rules, Ipv6Rules, Rule

LEMMA PublicIs ==
  ASSUME NEW a, IsAddress(a)
  PROVE  IsPublic(a) <=>
           ~((a.family = "ipv4" /\ Special4(a.bytes)) \/ (a.family = "ipv6" /\ Special6(a.bytes)))
<1> DEFINE rules == IF a.family = "ipv4" THEN Ipv4Rules ELSE Ipv6Rules
           hits == {i \in DOMAIN rules : Matches(rules[i], a.bytes)}
<1>1. IsPublic(a) <=> hits = {} /\ GlobalUnicast(a)
  <2>1. AddressError(a) = IF hits # {} THEN rules[Min(hits)].error
                          ELSE IF GlobalUnicast(a) THEN "none" ELSE "not_global_unicast"
    BY DEF AddressError
  <2>2. ASSUME hits # {} PROVE rules[Min(hits)].error # "none"
    <3>1. hits \subseteq Nat
      BY RulesRefuse
    <3>2. \E m \in hits : \A j \in hits : m <= j
      BY <3>1, <2>2, Least
    <3>3. Min(hits) \in hits
      BY <3>2 DEF Min
    <3>4. \A i \in DOMAIN rules : rules[i].error # "none"
      BY RulesRefuse
    <3> QED
      BY <3>3, <3>4
  <2> HIDE DEF rules, hits
  <2> QED
    BY <2>1, <2>2 DEF IsPublic
<1>2. a.family \in {"ipv4", "ipv6"}
  BY DEF IsAddress
<1>3. CASE a.family = "ipv4"
  <2>1. a.bytes \in [1..4 -> Octets] /\ rules = Ipv4Rules /\ GlobalUnicast(a)
    BY <1>3 DEF IsAddress, GlobalUnicast
  <2>2. hits # {} <=> \E i \in DOMAIN Ipv4Rules : Matches(Ipv4Rules[i], a.bytes)
    BY <2>1
  <2> HIDE DEF hits, rules
  <2> QED
    BY <2>1, <2>2, <1>1, <1>3, RulesOf4
<1>4. CASE a.family = "ipv6"
  <2>1. a.bytes \in [1..16 -> Octets] /\ rules = Ipv6Rules
    BY <1>4 DEF IsAddress
  <2>2. hits # {} <=> \E i \in DOMAIN Ipv6Rules : Matches(Ipv6Rules[i], a.bytes)
    BY <2>1
  <2>3. GlobalUnicast(a) <=> HasPrefix(a.bytes, <<32>>, 3)
    BY <1>4 DEF GlobalUnicast
  <2> HIDE DEF hits, rules
  <2> QED
    BY <2>1, <2>2, <2>3, <1>1, <1>4, RulesOf6
<1> QED
  BY <1>2, <1>3, <1>4

(* validate_public_address lets an address through exactly if it is in no  *)
(* reserved block: every rule's prefix under a mask is one, or in one, and *)
(* none is left out.                                                       *)
THEOREM PublicIsUnreserved ==
  ASSUME NEW a, IsAddress(a)
  PROVE  IsPublic(a) <=> ~InReserved(a)
BY ReservedIs, PublicIs
-----------------------------------------------------------------------------
(* Running sums, which the lengths of hostnames and of texts are.          *)
SumsUp(f, start, d, n) == f[0] = start /\ \A k \in 1..n : f[k] = f[k - 1] + d[k]

LEMMA SumsAgree ==
  ASSUME NEW n \in Nat, NEW f, NEW g, NEW start, NEW d,
         SumsUp(f, start, d, n), SumsUp(g, start, d, n)
  PROVE  f[n] = g[n]
<1> DEFINE D == {k \in 0..n : f[k] # g[k]}
<1>1. CASE D = {}
  BY <1>1
<1>2. CASE D # {}
  <2>1. D \subseteq Nat
    OBVIOUS
  <2>2. PICK m \in D : \A j \in D : m <= j
    <3> HIDE DEF D
    <3> QED
      BY <1>2, <2>1, Least
  <2>3. m \in 1..n /\ f[m] # g[m] /\ m - 1 \in 0..n /\ ~(m <= m - 1)
    BY <2>2 DEF SumsUp
  <2>4. f[m - 1] = g[m - 1]
    BY <2>2, <2>3
  <2> QED
    BY <2>3, <2>4 DEF SumsUp
<1> QED
  BY <1>1, <1>2

LEMMA SumsExist ==
  ASSUME NEW n \in Nat, NEW start \in Nat, NEW d \in [1..n -> Nat]
  PROVE  \E h \in [0..n -> Nat] : h[0] = start /\ \A k \in 1..n : h[k] = h[k - 1] + d[k]
<1> DEFINE Exist(i) == \E h \in [0..i -> Nat] :
                         h[0] = start /\ \A k \in 1..i : h[k] = h[k - 1] + d[k]
           D == {i \in 0..n : ~Exist(i)}
<1>1. SUFFICES ASSUME D # {} PROVE FALSE
  <2>1. n \in 0..n
    OBVIOUS
  <2> QED
    BY <1>1, <2>1
<1>2. PICK m \in D : \A j \in D : m <= j
  <2>1. D \subseteq Nat
    OBVIOUS
  <2> HIDE DEF D
  <2> QED
    BY <1>1, <2>1, Least
<1>3. Exist(0)
  <2>1. /\ [k \in 0..0 |-> start] \in [0..0 -> Nat] /\ [k \in 0..0 |-> start][0] = start
        /\ \A k \in 1..0 : FALSE
    OBVIOUS
  <2> QED
    BY <2>1
<1>4. m \in 1..n /\ Exist(m - 1)
  <2> HIDE DEF Exist
  <2>1. m \in 0..n /\ ~Exist(m)
    BY <1>2
  <2>2. m # 0
    BY <1>3, <2>1
  <2>3. m - 1 \in 0..n /\ ~(m <= m - 1)
    BY <2>1, <2>2
  <2>4. m - 1 \notin D
    BY <1>2, <2>3
  <2> QED
    BY <2>1, <2>2, <2>3, <2>4
<1>5. PICK h \in [0..(m - 1) -> Nat] :
        h[0] = start /\ \A k \in 1..(m - 1) : h[k] = h[k - 1] + d[k]
  BY <1>4
<1> DEFINE g == [k \in 0..m |-> IF k = m THEN h[m - 1] + d[m] ELSE h[k]]
<1>6. g \in [0..m -> Nat] /\ g[0] = start
  BY <1>4, <1>5
<1>7. \A k \in 1..m : g[k] = g[k - 1] + d[k]
  <2> TAKE k \in 1..m
  <2>1. k - 1 \in 0..m /\ k - 1 # m /\ g[k - 1] = h[k - 1]
    BY <1>4
  <2>2. CASE k = m
    BY <1>4, <2>1, <2>2
  <2>3. CASE k # m
    <3>1. k \in 1..(m - 1) /\ g[k] = h[k]
      BY <1>4, <2>3
    <3> QED
      BY <1>5, <2>1, <3>1
  <2> QED
    BY <2>2, <2>3
<1>8. Exist(m)
  <2> HIDE DEF g
  <2> QED
    BY <1>6, <1>7
<1> QED
  BY <1>2, <1>8

(* A recursive sum is a function that sums up, in the natural numbers.     *)
Sum(n, start, d) ==
  LET sum[i \in 0..n] == IF i = 0 THEN start ELSE sum[i - 1] + d[i]
  IN sum

LEMMA SumIs ==
  ASSUME NEW n \in Nat, NEW start \in Nat, NEW d \in [1..n -> Nat]
  PROVE  SumsUp(Sum(n, start, d), start, d, n) /\ \A k \in 0..n : Sum(n, start, d)[k] \in Nat
<1> DEFINE sum == Sum(n, start, d)
<1>1. PICK h \in [0..n -> Nat] : h[0] = start /\ \A k \in 1..n : h[k] = h[k - 1] + d[k]
  BY SumsExist
<1>2. h = [k \in 0..n |-> IF k = 0 THEN start ELSE h[k - 1] + d[k]]
  <2>1. \A k \in 0..n : h[k] = IF k = 0 THEN start ELSE h[k - 1] + d[k]
    BY <1>1
  <2>2. h = [k \in 0..n |-> h[k]]
    BY <1>1
  <2> QED
    BY <2>1, <2>2, Zenon
<1>3. sum = [k \in 0..n |-> IF k = 0 THEN start ELSE sum[k - 1] + d[k]]
  BY <1>2, Zenon DEF Sum
<1> HIDE DEF sum
<1>4. SumsUp(sum, start, d, n)
  BY <1>3 DEF SumsUp
<1>5. ASSUME NEW k \in 0..n PROVE sum[k] \in Nat
  <2>1. k \in Nat /\ \A i \in 1..k : i \in 1..n
    OBVIOUS
  <2>2. SumsUp(sum, start, d, k)
    BY <1>4, <2>1 DEF SumsUp
  <2>3. SumsUp(h, start, d, k)
    BY <1>1, <2>1 DEF SumsUp
  <2>4. sum[k] = h[k]
    BY <2>1, <2>2, <2>3, SumsAgree, Zenon
  <2> QED
    BY <1>1, <2>4
<1> QED
  BY <1>4, <1>5 DEF sum

(* The lengths of a hostname: the wire form has one byte more for every    *)
(* label, and one for the root.                                            *)
LEMMA LabelFields ==
  ASSUME NEW labels \in Seq(Label)
  PROVE  \A i \in 1..Len(labels) : labels[i].size \in Nat
<1>1. \A i \in 1..Len(labels) : labels[i] \in Label
  OBVIOUS
<1> QED
  BY <1>1 DEF Label

LEMMA BytesAre ==
  ASSUME NEW labels \in Seq(Label)
  PROVE  /\ Bytes(labels)[0] = 0
         /\ \A k \in 1..Len(labels) : Bytes(labels)[k] = Bytes(labels)[k - 1] + labels[k].size
         /\ \A k \in 0..Len(labels) : Bytes(labels)[k] \in Nat
<1> DEFINE n == Len(labels)
           d == [k \in 1..n |-> labels[k].size]
<1>1. n \in Nat /\ 0 \in Nat /\ d \in [1..n -> Nat]
  BY LabelFields
<1>2. \A k \in 1..n : d[k] = labels[k].size
  OBVIOUS
<1> HIDE DEF d
<1>3. Bytes(labels) = Sum(n, 0, d)
  <2>1. \A k \in 0..n : k # 0 => k \in 1..n
    OBVIOUS
  <2>2. \A sum : [i \in 0..n |-> IF i = 0 THEN 0 ELSE sum[i - 1] + labels[i].size]
                = [i \in 0..n |-> IF i = 0 THEN 0 ELSE sum[i - 1] + d[i]]
    BY <1>2, <2>1, Zenon
  <2> QED
    BY <2>2, Zenon DEF Bytes, Sum
<1>4. SumsUp(Bytes(labels), 0, d, n) /\ \A k \in 0..n : Bytes(labels)[k] \in Nat
  <2> HIDE DEF n
  <2> QED
    BY <1>1, <1>3, SumIs
<1> QED
  BY <1>2, <1>4 DEF SumsUp

LEMMA WireIs ==
  ASSUME NEW labels \in Seq(Label)
  PROVE  Wire(labels)[Len(labels)] = Bytes(labels)[Len(labels)] + Len(labels) + 1
<1> DEFINE n == Len(labels)
           d == [k \in 1..n |-> 1 + labels[k].size]
           w == [k \in 0..n |-> Bytes(labels)[k] + k + 1]
<1>1. n \in Nat /\ 1 \in Nat /\ d \in [1..n -> Nat]
  BY LabelFields
<1>2. Wire(labels) = Sum(n, 1, d)
  <2>1. \A k \in 1..n : d[k] = 1 + labels[k].size
    OBVIOUS
  <2>2. \A k \in 0..n : k # 0 => k \in 1..n
    OBVIOUS
  <2> HIDE DEF d
  <2>3. \A sum : [i \in 0..n |-> IF i = 0 THEN 1 ELSE sum[i - 1] + (1 + labels[i].size)]
                = [i \in 0..n |-> IF i = 0 THEN 1 ELSE sum[i - 1] + d[i]]
    BY <2>1, <2>2, Zenon
  <2> QED
    BY <2>3, Zenon DEF Wire, Sum
<1>3. SumsUp(Wire(labels), 1, d, n)
  <2> HIDE DEF d, n
  <2> QED
    BY <1>1, <1>2, SumIs
<1>4. SumsUp(w, 1, d, n)
  <2>1. w[0] = 1
    BY BytesAre
  <2>2. ASSUME NEW k \in 1..n PROVE w[k] = w[k - 1] + d[k]
    <3>1. k - 1 \in 0..n /\ k \in 0..n /\ labels[k].size \in Nat
      BY LabelFields
    <3>2. Bytes(labels)[k] = Bytes(labels)[k - 1] + labels[k].size /\ Bytes(labels)[k - 1] \in Nat
      BY <3>1, BytesAre
    <3>3. /\ w[k] = Bytes(labels)[k] + k + 1
          /\ w[k - 1] = Bytes(labels)[k - 1] + (k - 1) + 1
          /\ d[k] = 1 + labels[k].size
      BY <3>1
    <3> QED
      BY <3>1, <3>2, <3>3
  <2> HIDE DEF w, d, n
  <2> QED
    BY <2>1, <2>2 DEF SumsUp
<1>5. Wire(labels)[n] = w[n]
  <2> HIDE DEF w, d, n
  <2> QED
    BY <1>1, <1>3, <1>4, SumsAgree, Zenon
<1> QED
  BY <1>1, <1>5

(* The rules of idna.cpp and the dot of url_policy.cpp, counted in         *)
(* characters and dots, come to the limit of the wire form.                *)
LEMMA WireLimit ==
  ASSUME NEW host \in Hostname
  PROVE  FitsTheWire(host) <=> ~host.colon /\ Normalizes(host) /\ HasDot(host)
<1> DEFINE n == Len(host.labels)
           total == Bytes(host.labels)[n]
<1>1. /\ host.labels \in Seq(Label) /\ host.labels # <<>> /\ host.dot \in BOOLEAN
      /\ host.size \in Nat
  BY DEF Hostname
<1>2. n \in Nat \ {0} /\ total \in Nat /\ DOMAIN host.labels = 1..n
  <2>1. n \in Nat /\ n # 0 /\ n \in 0..n
    BY <1>1
  <2> QED
    BY <1>1, <2>1, BytesAre
<1>3. Wire(host.labels)[n] = total + n + 1
  BY <1>1, WireIs
<1> HIDE DEF n, total
<1>4. AsciiSize(host) = total + n - 1 + IF host.dot THEN 1 ELSE 0
  BY DEF AsciiSize, LettersOnly, total, n
<1>5. Wire(host.labels)[n] <= 255 <=>
        AsciiSize(host) <= IF host.dot THEN MaxDnsHostnameWithTrailingDotBytes
                           ELSE MaxDnsHostnameBytes
  BY <1>1, <1>2, <1>3, <1>4 DEF MaxDnsHostnameWithTrailingDotBytes, MaxDnsHostnameBytes
<1>6. ASSUME NEW i \in DOMAIN host.labels
      PROVE  LabelIsValid(host.labels[i]) <=> FitsLabel(host.labels[i])
  <2>1. host.labels[i] \in Label
    BY <1>1
  <2> QED
    BY <2>1 DEF Label, LabelIsValid, MaxDnsLabelBytes, FitsLabel
<1>7. HasDot(host) <=> host.dot \/ n # 1
  <2>1. HasDot(host) <=> n > 1 \/ host.dot
    BY DEF HasDot, n
  <2> QED
    BY <1>1, <1>2, <2>1
<1> DEFINE sized == host.size \in 1..MaxHostnameInputBytes
           valid == \A i \in DOMAIN host.labels : LabelIsValid(host.labels[i])
           short == Wire(host.labels)[n] <= 255
<1>8. Normalizes(host) <=> sized /\ host.converts /\ short /\ valid
  <2> HIDE DEF sized, valid, short
  <2>1. Normalizes(host) <=>
          /\ sized
          /\ host.converts
          /\ AsciiSize(host) <= IF host.dot THEN MaxDnsHostnameWithTrailingDotBytes
                                ELSE MaxDnsHostnameBytes
          /\ valid
    BY Zenon DEF Normalizes, sized, valid
  <2>2. short <=> AsciiSize(host) <= IF host.dot THEN MaxDnsHostnameWithTrailingDotBytes
                                    ELSE MaxDnsHostnameBytes
    BY <1>5, Zenon DEF short
  <2> QED
    BY <2>1, <2>2, Zenon
<1>9. FitsTheWire(host) <=> sized /\ host.converts /\ ~host.colon /\ (n # 1 \/ host.dot) /\ short /\ valid
  <2>1. valid <=> \A i \in DOMAIN host.labels : FitsLabel(host.labels[i])
    BY <1>6, Zenon
  <2>2. sized <=> host.size > 0 /\ host.size <= 4096
    <3>1. MaxHostnameInputBytes \in Nat
      BY DEF MaxHostnameInputBytes
    <3>2. sized <=> host.size > 0 /\ host.size <= MaxHostnameInputBytes
      BY <1>1, <3>1
    <3> HIDE DEF sized
    <3> QED
      BY <3>2 DEF MaxHostnameInputBytes
  <2>3. short <=> Wire(host.labels)[Len(host.labels)] <= 255
    BY Zenon DEF n
  <2> HIDE DEF sized, valid, short
  <2>4. FitsTheWire(host) <=>
          sized /\ host.converts /\ ~host.colon /\ short /\ valid
            /\ (host.dot \/ Len(host.labels) # 1)
    BY <2>1, <2>2, <2>3 DEF FitsTheWire
  <2> QED
    BY <2>4, Zenon DEF n
<1> HIDE DEF sized, valid, short
<1> QED
  BY <1>7, <1>8, <1>9, Zenon
-----------------------------------------------------------------------------
(* What the sniffer looks at, of a text of any number of pieces.           *)
LEMMA EndsAre ==
  ASSUME NEW text \in Seq(Piece)
  PROVE  /\ \A k \in 1..Len(text) : EndOf(text, k - 1) <= EndOf(text, k)
         /\ \A k \in 0..Len(text) : EndOf(text, k) \in Nat
<1> DEFINE n == Len(text)
           d == [k \in 1..n |-> text[k].size]
<1>1. n \in Nat /\ \A k \in 1..n : text[k].size \in Nat
  <2>1. ASSUME NEW k \in 1..n PROVE text[k].size \in Nat
    <3>1. PICK piece : piece = text[k] /\ piece \in Piece
      OBVIOUS
    <3>2. piece.size \in Nat
      BY <3>1 DEF Piece
    <3> QED
      BY <3>1, <3>2
  <2> QED
    BY <2>1
<1>2. d \in [1..n -> Nat] /\ \A k \in 1..n : d[k] = text[k].size
  BY <1>1
<1> HIDE DEF d
<1>3. Ends(text) = Sum(n, 0, d)
  <2>1. \A k \in 0..n : k # 0 => k \in 1..n
    OBVIOUS
  <2>2. \A sum : [i \in 0..n |-> IF i = 0 THEN 0 ELSE sum[i - 1] + text[i].size]
                = [i \in 0..n |-> IF i = 0 THEN 0 ELSE sum[i - 1] + d[i]]
    BY <1>2, <2>1, Zenon
  <2> QED
    BY <2>2, Zenon DEF Ends, Sum
<1>4. SumsUp(Ends(text), 0, d, n) /\ \A k \in 0..n : Ends(text)[k] \in Nat
  <2> HIDE DEF n
  <2>1. 0 \in Nat
    OBVIOUS
  <2> QED
    BY <1>1, <1>2, <1>3, <2>1, SumIs
<1>5. ASSUME NEW k \in 1..n PROVE Ends(text)[k - 1] <= Ends(text)[k]
  <2>1. k - 1 \in 0..n /\ Ends(text)[k - 1] \in Nat /\ d[k] \in Nat
    BY <1>1, <1>2, <1>4
  <2>2. Ends(text)[k] = Ends(text)[k - 1] + d[k]
    BY <1>4 DEF SumsUp
  <2> QED
    BY <2>1, <2>2
<1> QED
  BY <1>4, <1>5 DEF EndOf

(* Whatever a complete piece follows is complete.                          *)
LEMMA CompleteBefore ==
  ASSUME NEW text \in Seq(Piece), NEW i \in DOMAIN text, Complete(text, i)
  PROVE  \A j \in 1..i : Complete(text, j)
<1> DEFINE D == {j \in 1..i : \E k \in j..i : ~Complete(text, k)}
           E == {k \in 0..i : ~Complete(text, i - k)}
<1>1. i \in 1..Len(text) /\ i \in Nat
  OBVIOUS
<1>2. ASSUME NEW j \in 1..i, ~Complete(text, j) PROVE FALSE
  <2>1. i - j \in E
    BY <1>1, <1>2
  <2>2. E \subseteq Nat
    OBVIOUS
  <2>3. PICK m \in E : \A k \in E : m <= k
    <3> HIDE DEF E
    <3> QED
      BY <2>1, <2>2, Least
  <2>4. m # 0
    BY <1>1, <2>3
  <2>5. m <= i - j
    BY <2>1, <2>3
  <2>6. m - 1 \notin E /\ m - 1 \in 0..i /\ ~(m <= m - 1) /\ i - (m - 1) = (i - m) + 1
    BY <1>1, <2>3, <2>4
  <2>7. Complete(text, (i - m) + 1)
    BY <2>6
  <2>8. i - m \in 1..Len(text) /\ (i - m) + 1 \in 1..Len(text)
    BY <1>1, <1>2, <2>3, <2>4, <2>5
  <2>9. EndOf(text, i - m) <= EndOf(text, (i - m) + 1)
    <3>1. ((i - m) + 1) - 1 = i - m
      BY <1>1, <2>8
    <3> QED
      BY <2>8, <3>1, EndsAre
  <2>10. EndOf(text, (i - m) + 1) <= 512
    BY <2>7 DEF Complete, Shown, MaximumMimeSampleBytes
  <2>11. EndOf(text, i - m) \in Nat /\ EndOf(text, (i - m) + 1) \in Nat
    <3>1. i - m \in 0..Len(text) /\ (i - m) + 1 \in 0..Len(text)
      BY <2>8
    <3> QED
      BY <3>1, EndsAre
  <2>12. Complete(text, i - m)
    <3>1. EndOf(text, i - m) <= 512
      BY <2>9, <2>10, <2>11
    <3> QED
      BY <2>8, <3>1 DEF Complete, Shown, MaximumMimeSampleBytes
  <2> QED
    BY <2>3, <2>12
<1> QED
  BY <1>2

(* The first piece that is not skipped is the only one that is not and has *)
(* nothing before it but what is.                                          *)
LEMMA FirstUnskippedIs ==
  ASSUME NEW text \in Seq(Piece)
  PROVE  /\ FirstUnskipped(text) \in 1..(Len(text) + 1)
         /\ ~Skipped(text, FirstUnskipped(text))
         /\ \A j \in 1..(FirstUnskipped(text) - 1) : Skipped(text, j)
         /\ \A i \in 1..(Len(text) + 1) :
              ~Skipped(text, i) /\ (\A j \in 1..(i - 1) : Skipped(text, j)) => FirstUnskipped(text) = i
<1> DEFINE n == Len(text)
           U == {i \in 1..(n + 1) : ~Skipped(text, i)}
           S == {i \in 1..(n + 1) : ~Skipped(text, i) /\ \A j \in 1..(i - 1) : Skipped(text, j)}
<1>1. n \in Nat /\ DOMAIN text = 1..n
  OBVIOUS
<1>2. n + 1 \in U
  <2>1. n + 1 \notin DOMAIN text
    BY <1>1
  <2>2. ~Skipped(text, n + 1)
    BY <2>1 DEF Skipped, Complete, Shown
  <2> QED
    BY <1>1, <2>2
<1>3. PICK m \in U : \A j \in U : m <= j
  <2>1. U \subseteq Nat
    BY <1>1
  <2> HIDE DEF U
  <2> QED
    BY <1>2, <2>1, Least
<1>4. m \in S
  <2>1. ASSUME NEW j \in 1..(m - 1) PROVE Skipped(text, j)
    <3>1. j \in 1..(n + 1) /\ ~(m <= j)
      BY <1>1, <1>3
    <3>2. j \notin U
      BY <1>3, <3>1
    <3> QED
      BY <3>1, <3>2
  <2> QED
    BY <1>3, <2>1
<1>5. ASSUME NEW i \in S PROVE i = m
  <2>1. i \in Int /\ m \in Int /\ i \in 1..(n + 1) /\ m \in 1..(n + 1)
    BY <1>1, <1>3
  <2>2. ~(i < m)
    <3>1. i < m => i \in 1..(m - 1)
      BY <2>1
    <3> QED
      BY <3>1, <1>4, <1>5
  <2>3. ~(m < i)
    <3>1. m < i => m \in 1..(i - 1)
      BY <2>1
    <3> QED
      BY <3>1, <1>4, <1>5
  <2> QED
    BY <2>1, <2>2, <2>3
<1>6. FirstUnskipped(text) = m
  <2>1. FirstUnskipped(text) = Min(S)
    BY DEF FirstUnskipped
  <2>2. m <= m
    BY <1>1, <1>3
  <2> HIDE DEF S
  <2>3. \E x \in S : \A y \in S : x <= y
    BY <1>4, <1>5, <2>2
  <2>4. Min(S) \in S
    BY <2>3 DEF Min
  <2> QED
    BY <2>1, <2>4, <1>5
<1> QED
  BY <1>4, <1>5, <1>6

(* is_svg finds what the specification says an SVG begins with.            *)
SvgBegins(text) ==
  \E i \in DOMAIN text :
    /\ text[i].kind = "svg"
    /\ \A j \in 1..(i - 1) :
         text[j].kind \in {"space", "comment", "instruction", "xml"}
           \/ (j = 1 /\ text[j].kind = "bom")
    /\ EndOf(text, i) <= 512

LEMMA SvgIsFound ==
  ASSUME NEW text \in Seq(Piece)
  PROVE  IsSvg(text) <=> SvgBegins(text)
<1>1. Len(text) \in Nat /\ DOMAIN text = 1..Len(text)
  OBVIOUS
<1>2. ASSUME IsSvg(text) PROVE SvgBegins(text)
  <2>1. PICK i : i = FirstUnskipped(text)
    OBVIOUS
  <2>2. Kind(text, i) = "svg" /\ Complete(text, i)
    BY <1>2, <2>1 DEF IsSvg
  <2>3. i \in DOMAIN text /\ text[i].kind = "svg" /\ EndOf(text, i) <= 512
    BY <2>2 DEF Complete, Shown, MaximumMimeSampleBytes, Kind
  <2>4. ASSUME NEW j \in 1..(i - 1)
        PROVE  text[j].kind \in {"space", "comment", "instruction", "xml"}
                 \/ (j = 1 /\ text[j].kind = "bom")
    <3>1. Skipped(text, j)
      BY <2>1, FirstUnskippedIs
    <3>2. Kind(text, j) = text[j].kind
      BY <3>1 DEF Skipped, Complete, Shown, Kind
    <3> QED
      BY <3>1, <3>2 DEF Skipped
  <2> QED
    BY <2>3, <2>4 DEF SvgBegins
<1>3. ASSUME SvgBegins(text) PROVE IsSvg(text)
  <2>1. PICK i \in DOMAIN text :
          /\ text[i].kind = "svg"
          /\ \A j \in 1..(i - 1) :
               text[j].kind \in {"space", "comment", "instruction", "xml"}
                 \/ (j = 1 /\ text[j].kind = "bom")
          /\ EndOf(text, i) <= 512
    BY <1>3 DEF SvgBegins
  <2>2. Complete(text, i) /\ Kind(text, i) = "svg"
    BY <2>1 DEF Complete, Shown, MaximumMimeSampleBytes, Kind
  <2>3. ~Skipped(text, i)
    BY <2>2 DEF Skipped
  <2>4. ASSUME NEW j \in 1..(i - 1) PROVE Skipped(text, j)
    <3>1. j \in 1..i /\ j \in DOMAIN text
      BY <1>1
    <3>2. Complete(text, j)
      BY <2>2, <3>1, CompleteBefore
    <3>3. Kind(text, j) = text[j].kind
      BY <3>1 DEF Kind
    <3> QED
      BY <2>1, <3>2, <3>3 DEF Skipped
  <2>5. i \in 1..(Len(text) + 1)
    BY <1>1
  <2>6. FirstUnskipped(text) = i
    BY <2>3, <2>4, <2>5, FirstUnskippedIs
  <2> QED
    BY <2>2, <2>6 DEF IsSvg
<1> QED
  BY <1>2, <1>3

(* Neither a signature nor an "ftyp" box is taken for a text.              *)
LEMMA NoMarkupIs ==
  ASSUME NEW text \in Seq(Piece), Kind(text, 1) \in {"words", "end"}
  PROVE  ~IsSvg(text) /\ ~IsHtml(text) /\ ~IsXml(text) /\ ~Bom(text)
<1>1. Len(text) \in Nat
  OBVIOUS
<1>2. FirstUnskipped(text) = 1
  <2>1. ~Skipped(text, 1)
    BY DEF Skipped
  <2>2. 1 \in 1..(Len(text) + 1) /\ \A j \in 1..(1 - 1) : FALSE
    BY <1>1
  <2>3. \A j \in 1..(1 - 1) : Skipped(text, j)
    BY <2>2
  <2> QED
    BY <2>1, <2>2, <2>3, FirstUnskippedIs
<1>3. AfterSpace(text) = 1
  <2> DEFINE S == {i \in 1..(Len(text) + 1) :
                     Kind(text, i) # "space" /\ \A j \in 1..(i - 1) : Kind(text, j) = "space"}
  <2>1. S = {1}
    <3>1. 1 \in S
      BY <1>1
    <3>2. ASSUME NEW i \in S, i # 1 PROVE FALSE
      <4>1. 1 \in 1..(i - 1)
        BY <1>1, <3>2
      <4> QED
        BY <3>2, <4>1
    <3> QED
      BY <3>1, <3>2
  <2>2. Min({1}) = 1
    BY DEF Min
  <2> HIDE DEF S
  <2> QED
    BY <2>1, <2>2 DEF AfterSpace, S
<1> QED
  BY <1>2, <1>3 DEF IsSvg, IsHtml, IsXml, Bom

(* What sniff_standard looks for after an SVG.                             *)
Other(b) ==
  IF IsHtml(b.text) THEN "text/html; charset=utf-8"
  ELSE IF IsXml(b.text) THEN "text/xml; charset=utf-8"
  ELSE IF Bom(b.text) THEN BomType[b.text[1].kind]
  ELSE IF b.ftyp /\ b.brands[1] \in Mp4Brands THEN "video/mp4"
  ELSE IF SignatureOf(b) \in DOMAIN Fonts THEN Fonts[SignatureOf(b)]
  ELSE IF b.eot THEN "application/vnd.ms-fontobject"
  ELSE IF b.control THEN "application/octet-stream"
  ELSE "text/plain; charset=utf-8"

LEMMA StandardIs ==
  ASSUME NEW b
  PROVE  /\ SignatureOf(b) \in DOMAIN Binary => SniffStandard(b) = Binary[SignatureOf(b)]
         /\ SignatureOf(b) \notin DOMAIN Binary /\ IsSvg(b.text) => SniffStandard(b) = "image/svg+xml"
         /\ SignatureOf(b) \notin DOMAIN Binary /\ ~IsSvg(b.text) => SniffStandard(b) = Other(b)
<1>1. CASE SignatureOf(b) \in DOMAIN Binary
  BY <1>1 DEF SniffStandard
<1>2. CASE SignatureOf(b) \notin DOMAIN Binary /\ IsSvg(b.text)
  BY <1>2 DEF SniffStandard
<1>3. CASE SignatureOf(b) \notin DOMAIN Binary /\ ~IsSvg(b.text)
  BY <1>3 DEF SniffStandard, Other
<1> QED
  BY <1>1, <1>2, <1>3

LEMMA OtherIs ==
  ASSUME NEW b
  PROVE  /\ Other(b) \notin {"image/gif", "image/avif", "image/svg+xml"}
         /\ Other(b) = "application/octet-stream" => SignatureOf(b) \notin DOMAIN Fonts /\ ~b.eot
<1>1. \A font \in DOMAIN Fonts :
        Fonts[font] \notin {"image/gif", "image/avif", "image/svg+xml", "application/octet-stream"}
  BY DEF Fonts
<1>2. Bom(b.text) => BomType[b.text[1].kind] \notin
                       {"image/gif", "image/avif", "image/svg+xml", "application/octet-stream"}
  <2>1. /\ BomType["bom"] = "text/plain; charset=utf-8"
        /\ BomType["utf16be"] = "text/plain; charset=utf-16be"
        /\ BomType["utf16le"] = "text/plain; charset=utf-16le"
    BY DEF BomType
  <2>2. CASE Bom(b.text)
    <3>1. Kind(b.text, 1) \in {"bom", "utf16be", "utf16le"}
      BY <2>2 DEF Bom
    <3>2. Kind(b.text, 1) = b.text[1].kind
      BY <3>1 DEF Kind
    <3> QED
      BY <2>1, <3>1, <3>2
  <2> QED
    BY <2>2
<1> QED
  BY <1>1, <1>2 DEF Other

LEMMA BinaryIs ==
  /\ \A signature \in DOMAIN Binary :
       Binary[signature] \notin {"image/avif", "image/svg+xml", "application/octet-stream"}
  /\ "ico" \in DOMAIN Binary /\ "wasm" \in DOMAIN Binary /\ "none" \notin DOMAIN Binary
  /\ "truetype" \in DOMAIN Fonts /\ "none" \notin DOMAIN Fonts
BY DEF Binary, Fonts

LEMMA SignatureIs ==
  ASSUME NEW b, b.box \in Nat, SmallBox(b)
  PROVE  SignatureOf(b) = CASE b.box = 256 -> "ico" [] b.box = 65536 -> "truetype"
                            [] b.box = 6386541 -> "wasm" [] OTHER -> "none"
BY SMT DEF SignatureOf

(* What is known as a GIF has its signature.                               *)
LEMMA SniffedGif ==
  ASSUME NEW b, SniffMime(b) = "image/gif"
  PROVE  b.signature = "gif"
<1>1. SniffStandard(b) = "image/gif"
  BY DEF SniffMime
<1>2. SignatureOf(b) \in DOMAIN Binary /\ Binary[SignatureOf(b)] = "image/gif"
  BY <1>1, StandardIs, OtherIs
<1>3. SignatureOf(b) = "gif"
  BY <1>2 DEF Binary
<1> QED
  BY <1>3 DEF SignatureOf

(* A body known as AVIF is a sequence or a still, and they are known.      *)
Still(b) ==
  /\ b.ftyp /\ b.length >= 12 /\ b.brands[1] = "avif"
  /\ b.box \notin {256, 65536, 6386541} /\ ~b.eot

LEMMA SniffedAvif ==
  ASSUME NEW b \in Body, Coherent(b), ~b.ftyp \/ b.box < LargeBox
  PROVE  SniffMime(b) = "image/avif" <=> IsAnimatedAvif(b) \/ Still(b)
<1>1. /\ b.box \in Nat /\ b.length \in Nat /\ b.text \in Seq(Piece)
      /\ b.eot \in BOOLEAN /\ b.control \in BOOLEAN
  BY DEF Body
<1>2. SniffStandard(b) # "image/avif"
  BY StandardIs, OtherIs, BinaryIs
<1>3. SniffMime(b) = "image/avif" <=>
        \/ IsAnimatedAvif(b)
        \/ /\ SniffStandard(b) = "application/octet-stream"
           /\ b.length >= 12 /\ b.ftyp /\ b.brands[1] = "avif"
  BY <1>2 DEF SniffMime, IsSequence
<1>4. ASSUME b.ftyp, b.brands[1] = "avif"
      PROVE  SniffStandard(b) = "application/octet-stream" <=>
               b.box \notin {256, 65536, 6386541} /\ ~b.eot
  <2>1. b.box \in Nat /\ SmallBox(b)
    BY <1>1, <1>4 DEF SmallBox
  <2>2. b.control /\ ~IsSvg(b.text) /\ ~IsHtml(b.text) /\ ~IsXml(b.text) /\ ~Bom(b.text)
    BY <1>1, <2>1, NoMarkupIs DEF Coherent
  <2>3. b.brands[1] \notin Mp4Brands
    BY <1>4 DEF Mp4Brands
  <2>4. CASE b.box \in {256, 6386541}
    BY SMT, <2>1, <2>4, SignatureIs, BinaryIs, StandardIs
  <2>5. CASE b.box = 65536
    <3>1. SignatureOf(b) = "truetype"
      BY SMT, <2>1, <2>5, SignatureIs
    <3>2. SignatureOf(b) \notin DOMAIN Binary
      BY <3>1 DEF Binary
    <3> QED
      BY <2>2, <2>5, <3>1, <3>2, StandardIs, OtherIs, BinaryIs
  <2>6. CASE b.box \notin {256, 65536, 6386541}
    <3>1. SignatureOf(b) = "none"
      BY SMT, <2>1, <2>6, SignatureIs
    <3>2. SniffStandard(b) = Other(b)
      BY <2>2, <3>1, StandardIs, BinaryIs
    <3>3. ~b.eot => Other(b) = "application/octet-stream"
      BY <2>2, <2>3, <3>1, BinaryIs DEF Other
    <3> QED
      BY <1>1, <2>6, <3>2, <3>3, OtherIs
  <2> QED
    BY <2>4, <2>5, <2>6
<1> QED
  BY SMT, <1>3, <1>4 DEF Still

LEMMA SniffedSvg ==
  ASSUME NEW b \in Body, Coherent(b)
  PROVE  SniffMime(b) = "image/svg+xml" <=> SvgBegins(b.text)
<1>1. b.box \in Nat /\ b.length \in Nat /\ b.text \in Seq(Piece)
  BY DEF Body
<1>2. ASSUME SniffMime(b) = "image/svg+xml" PROVE IsSvg(b.text)
  <2>1. SniffStandard(b) = "image/svg+xml"
    BY <1>2 DEF SniffMime
  <2> QED
    BY <2>1, StandardIs, OtherIs, BinaryIs
<1>3. ASSUME IsSvg(b.text) PROVE SniffMime(b) = "image/svg+xml"
  <2>1. b.signature \notin DOMAIN Binary /\ ~SmallBox(b)
    BY <1>1, <1>3, NoMarkupIs DEF Coherent
  <2>2. ~b.ftyp \/ b.box >= LargeBox
    BY SMT, <1>1, <2>1 DEF SmallBox, LargeBox
  <2>3. SignatureOf(b) = b.signature
    BY SMT, <2>1 DEF SignatureOf
  <2>4. SniffStandard(b) = "image/svg+xml"
    BY <1>3, <2>1, <2>3, StandardIs
  <2>5. ~IsAnimatedAvif(b)
    BY SMT, <1>1, <2>2 DEF IsAnimatedAvif, Coherent, LargeBox
  <2> QED
    BY <2>4, <2>5 DEF SniffMime, IsSequence
<1> QED
  BY <1>1, <1>2, <1>3, SvgIsFound
-----------------------------------------------------------------------------
(* The parameters of a query, whose loop over the fields is a recursive    *)
(* function.                                                               *)
Begun == [field_start |-> 1, parameters |-> <<>>]

LEMMA LoopExists ==
  ASSUME NEW raw, NEW n \in Nat
  PROVE  \E h : h = [k \in 0..n |-> IF k = 0 THEN Begun ELSE ReadField(raw, h[k - 1])]
<1> DEFINE Fits(h, i) == /\ h = [k \in 0..i |-> h[k]]
                         /\ h[0] = Begun /\ \A k \in 1..i : h[k] = ReadField(raw, h[k - 1])
           D == {i \in 0..n : ~\E h : Fits(h, i)}
<1>1. D = {}
  <2> SUFFICES ASSUME D # {} PROVE FALSE
    OBVIOUS
  <2>1. PICK m \in D : \A j \in D : m <= j
    <3>1. D \subseteq Nat
      OBVIOUS
    <3> HIDE DEF D
    <3> QED
      BY <3>1, Least
  <2>2. Fits([k \in 0..0 |-> Begun], 0)
    OBVIOUS
  <2>3. m \in 1..n /\ m - 1 \in 0..n /\ m - 1 \notin D
    <3> HIDE DEF Fits
    <3>1. m \in 0..n /\ m # 0
      BY <2>1, <2>2
    <3>2. m - 1 \in 0..n /\ ~(m <= m - 1)
      BY <3>1
    <3> QED
      BY <2>1, <3>1, <3>2
  <2>4. PICK h : Fits(h, m - 1)
    <3> HIDE DEF Fits
    <3> QED
      BY <2>3
  <2> DEFINE g == [k \in 0..m |-> IF k = m THEN ReadField(raw, h[m - 1]) ELSE h[k]]
  <2>5. g[0] = Begun
    BY <2>3, <2>4
  <2>6. ASSUME NEW k \in 1..m PROVE g[k] = ReadField(raw, g[k - 1])
    <3>1. k - 1 \in 0..m /\ k - 1 # m /\ g[k - 1] = h[k - 1]
      BY <2>3
    <3>2. CASE k = m
      BY <2>3, <3>1, <3>2
    <3>3. CASE k # m
      <4>1. k \in 1..(m - 1) /\ g[k] = h[k]
        BY <2>3, <3>3
      <4> QED
        BY <2>4, <3>1, <4>1
    <3> QED
      BY <3>2, <3>3
  <2>7. g = [k \in 0..m |-> g[k]]
    OBVIOUS
  <2>8. Fits(g, m)
    <3> HIDE DEF g
    <3> QED
      BY <2>5, <2>6, <2>7
  <2> HIDE DEF Fits
  <2> QED
    BY <2>1, <2>8
<1>2. PICK h : Fits(h, n)
  <2> HIDE DEF Fits
  <2>1. n \in 0..n
    OBVIOUS
  <2> QED
    BY <1>1, <2>1
<1>3. \A k \in 0..n : h[k] = IF k = 0 THEN Begun ELSE ReadField(raw, h[k - 1])
  <2>1. \A k \in 0..n : k # 0 => k \in 1..n
    OBVIOUS
  <2> QED
    BY <1>2, <2>1
<1>4. h = [k \in 0..n |-> IF k = 0 THEN Begun ELSE ReadField(raw, h[k - 1])]
  <2>1. h = [k \in 0..n |-> h[k]]
    BY <1>2
  <2> QED
    BY <1>3, <2>1, Zenon
<1> QED
  BY <1>4

LEMMA LoopIs ==
  ASSUME NEW raw, Len(raw) \in Nat
  PROVE  /\ Loop(raw)[0] = Begun
         /\ \A k \in 1..(Len(raw) + 1) : Loop(raw)[k] = ReadField(raw, Loop(raw)[k - 1])
<1> DEFINE n == Len(raw) + 1
           loop == Loop(raw)
<1>1. n \in Nat
  OBVIOUS
<1>2. \E h : h = [k \in 0..n |-> IF k = 0 THEN Begun ELSE ReadField(raw, h[k - 1])]
  <2> HIDE DEF n
  <2> QED
    BY <1>1, LoopExists
<1>3. loop = [k \in 0..n |-> IF k = 0 THEN Begun ELSE ReadField(raw, loop[k - 1])]
  BY <1>2, Zenon DEF Loop, Begun
<1> HIDE DEF n, loop
<1>4. loop[0] = Begun
  BY <1>1, <1>3
<1>5. \A k \in 1..n : loop[k] = ReadField(raw, loop[k - 1])
  <2>1. \A k \in 1..n : k \in 0..n /\ k # 0
    BY <1>1
  <2> QED
    BY <1>3, <2>1
<1> QED
  BY <1>4, <1>5 DEF n, loop

LEMMA FieldEnds ==
  ASSUME NEW S, NEW raw \in Seq(S), NEW start \in 1..(Len(raw) + 1)
  PROVE  /\ FieldEnd(raw, start) \in start..(Len(raw) + 1)
         /\ \A i \in start..(FieldEnd(raw, start) - 1) : raw[i] # Plain("&")
         /\ FieldEnd(raw, start) <= Len(raw) => raw[FieldEnd(raw, start)] = Plain("&")
<1> DEFINE n == Len(raw)
           E == {i \in start..n : Separates(raw[i])} \cup {n + 1}
<1>1. n \in Nat /\ E \subseteq Nat /\ E # {} /\ \A i \in E : i \in start..(n + 1)
  OBVIOUS
<1>2. FieldEnd(raw, start) \in E /\ \A i \in E : FieldEnd(raw, start) <= i
  <2> HIDE DEF E
  <2>1. \E m \in E : \A i \in E : m <= i
    BY <1>1, Least
  <2>2. FieldEnd(raw, start) = Min(E)
    BY DEF FieldEnd, E
  <2> QED
    BY <2>1, <2>2 DEF Min
<1>3. PICK end : end = FieldEnd(raw, start)
  OBVIOUS
<1>4. end \in start..(n + 1)
  BY <1>1, <1>2, <1>3
<1>5. ASSUME NEW i \in start..(end - 1) PROVE raw[i] # Plain("&")
  <2>1. i \in start..n /\ ~(end <= i)
    BY <1>1, <1>4
  <2>2. i \notin E
    BY <1>2, <1>3, <2>1
  <2> QED
    BY <2>1, <2>2 DEF Separates
<1>6. end <= n => raw[end] = Plain("&")
  <2>1. end <= n => end # n + 1
    BY <1>1, <1>4
  <2> QED
    BY <1>2, <1>3, <2>1 DEF Separates
<1> QED
  BY <1>3, <1>4, <1>5, <1>6

(* A field is kept exactly if it is a good stretch.                        *)
LEMMA FieldIs ==
  ASSUME NEW S, NEW raw \in Seq(S), NEW a \in 1..(Len(raw) + 1), NEW b \in (a - 1)..Len(raw)
  PROVE  /\ Len(SubSeq(raw, a, b)) = b - a + 1
         /\ DOMAIN SubSeq(raw, a, b) = 1..(b - a + 1)
         /\ \A i \in 1..(b - a + 1) : SubSeq(raw, a, b)[i] = raw[a + i - 1]
OBVIOUS

LEMMA KeptIsGood ==
  ASSUME NEW S, NEW raw \in Seq(S), NEW start \in 1..(Len(raw) + 1),
         start = 1 \/ raw[start - 1] = Plain("&")
  PROVE  Kept(SubSeq(raw, start, FieldEnd(raw, start) - 1)) <=>
           <<start, FieldEnd(raw, start) - 1>> \in Good(raw)
<1>1. PICK b : b = FieldEnd(raw, start) - 1
  OBVIOUS
<1>2. /\ FieldEnd(raw, start) = b + 1 /\ b \in (start - 1)..Len(raw) /\ Len(raw) \in Nat
      /\ \A i \in start..b : raw[i] # Plain("&")
      /\ b < Len(raw) => raw[b + 1] = Plain("&")
  BY <1>1, FieldEnds
<1>3. PICK field : field = SubSeq(raw, start, b)
  OBVIOUS
<1>4. /\ Len(field) = b - start + 1 /\ DOMAIN field = 1..(b - start + 1)
      /\ \A i \in 1..(b - start + 1) : field[i] = raw[start + i - 1]
  BY <1>2, <1>3, FieldIs
<1>5. field # <<>> <=> start <= b
  <2>1. field = <<>> => Len(field) = 0
    OBVIOUS
  <2>2. field \in Seq(S)
    BY <1>2, <1>3
  <2>3. Len(field) = 0 => field = <<>>
    BY <2>2
  <2> QED
    BY <1>2, <1>4, <2>1, <2>3
<1>6. ASSUME NEW text
      PROVE  Positions(field, text) = {} <=> \A i \in start..b : raw[i] # Plain(text)
  <2>1. ASSUME NEW i \in start..b, raw[i] = Plain(text) PROVE Positions(field, text) # {}
    <3>1. i - start + 1 \in 1..(b - start + 1) /\ start + (i - start + 1) - 1 = i
      BY <1>2
    <3>2. field[i - start + 1] = Plain(text)
      BY <1>4, <2>1, <3>1
    <3> QED
      BY <1>4, <3>1, <3>2 DEF Positions
  <2>2. ASSUME NEW i \in Positions(field, text) PROVE \E k \in start..b : raw[k] = Plain(text)
    <3>1. i \in 1..(b - start + 1) /\ field[i] = Plain(text)
      BY <1>4 DEF Positions
    <3>2. start + i - 1 \in start..b
      BY <1>2, <3>1
    <3> QED
      BY <1>4, <3>1, <3>2
  <2> QED
    BY <2>1, <2>2
<1>7. Kept(field) <=> start <= b /\ \A i \in start..b : raw[i] \notin {Plain(";"), Plain("%")}
  BY <1>5, <1>6 DEF Kept, Decodes
<1>8. start <= b => <<start, b>> \in Stretches(raw)
  <2>1. start <= b => start \in 1..Len(raw) /\ b \in 1..Len(raw)
    BY <1>2
  <2> QED
    BY <1>2, <2>1 DEF Stretches
<1>9. <<start, b>> \in Stretches(raw) => start <= b
  BY DEF Stretches
<1>10. <<start, b>> \in Good(raw) <=>
         <<start, b>> \in Stretches(raw) /\ \A i \in start..b : raw[i] \notin {Plain(";"), Plain("%")}
  BY DEF Good
<1> QED
  BY <1>1, <1>3, <1>7, <1>8, <1>9, <1>10

(* What begins at the field or behind it is the field, or begins behind it.*)
LEMMA StretchFields ==
  ASSUME NEW raw, NEW ab \in Stretches(raw)
  PROVE  /\ ab = <<ab[1], ab[2]>> /\ ab[1] \in 1..Len(raw) /\ ab[2] \in 1..Len(raw) /\ ab[1] <= ab[2]
         /\ \A i \in ab[1]..ab[2] : raw[i] # Plain("&")
         /\ ab[1] > 1 => raw[ab[1] - 1] = Plain("&")
         /\ ab[2] < Len(raw) => raw[ab[2] + 1] = Plain("&")
BY DEF Stretches

LEMMA StretchBehind ==
  ASSUME NEW S, NEW raw \in Seq(S), NEW start \in 1..(Len(raw) + 1),
         NEW ab \in Stretches(raw), ab[1] >= start
  PROVE  ab = <<start, FieldEnd(raw, start) - 1>> \/ ab[1] > FieldEnd(raw, start)
<1>1. PICK end : end = FieldEnd(raw, start)
  OBVIOUS
<1>2. /\ end \in start..(Len(raw) + 1) /\ Len(raw) \in Nat
      /\ \A i \in start..(end - 1) : raw[i] # Plain("&")
      /\ end <= Len(raw) => raw[end] = Plain("&")
  BY <1>1, FieldEnds
<1>3. PICK a \in 1..Len(raw), b \in 1..Len(raw) :
        /\ ab = <<a, b>> /\ ab[1] = a /\ ab[2] = b
        /\ a <= b
        /\ \A i \in a..b : raw[i] # Plain("&")
        /\ a > 1 => raw[a - 1] = Plain("&")
        /\ b < Len(raw) => raw[b + 1] = Plain("&")
  BY StretchFields
<1>4. CASE a > end
  BY <1>1, <1>3, <1>4
<1>5. CASE a = end
  <2>1. end <= Len(raw) /\ end \in a..b
    BY <1>2, <1>3, <1>5
  <2> QED
    BY <1>2, <1>3, <2>1
<1>6. CASE a < end
  <2>1. a = start
    <3>1. a # start => a - 1 \in start..(end - 1) /\ a > 1
      BY <1>2, <1>3, <1>6
    <3> QED
      BY <1>2, <1>3, <3>1
  <2>2. ~(b >= end)
    <3>1. b >= end => end <= Len(raw) /\ end \in a..b
      BY <1>2, <1>3, <1>6
    <3> QED
      BY <1>2, <1>3, <3>1
  <2>3. ~(b < end - 1)
    <3>1. b < end - 1 => b < Len(raw) /\ b + 1 \in start..(end - 1)
      BY <1>2, <1>3, <2>1
    <3> QED
      BY <1>2, <1>3, <3>1
  <2>4. b = end - 1
    BY <1>2, <1>3, <2>2, <2>3
  <2> QED
    BY <1>1, <1>3, <2>1, <2>4
<1> QED
  BY <1>2, <1>3, <1>4, <1>5, <1>6

(* The parameters read so far are those of the good stretches before the   *)
(* field that comes next, in their order.                                  *)
ParameterOf(raw, ab) == Parameter(SubSeq(raw, ab[1], ab[2]))

InOrder(spans) == \A i, j \in 1..Len(spans) : i < j => spans[i][1] < spans[j][1]

ReadUpTo(raw, spans, start) ==
  \A ab \in Good(raw) : ab[1] < start <=> \E j \in 1..Len(spans) : spans[j] = ab

Parameters(raw, spans) == [j \in 1..Len(spans) |-> ParameterOf(raw, spans[j])]

Reads(raw, spans, loop) ==
  /\ spans \in Seq(Good(raw)) /\ InOrder(spans)
  /\ loop.parameters = Parameters(raw, spans)
  /\ ReadUpTo(raw, spans, loop.field_start)
  /\ loop.field_start \in 1..(Len(raw) + 2)
  /\ loop.field_start \in {1, Len(raw) + 2} \/ raw[loop.field_start - 1] = Plain("&")

LEMMA ReadsBegun ==
  ASSUME NEW S, NEW raw \in Seq(S)
  PROVE  Reads(raw, <<>>, Begun)
<1>1. Begun.field_start = 1 /\ Begun.parameters = <<>>
  BY DEF Begun
<1>2. Parameters(raw, <<>>) = <<>>
  BY DEF Parameters
<1>3. ReadUpTo(raw, <<>>, 1)
  <2>1. ASSUME NEW ab \in Good(raw) PROVE ~(ab[1] < 1)
    <3>1. ab[1] \in 1..Len(raw)
      BY StretchFields DEF Good
    <3> QED
      BY <3>1
  <2>2. ~\E j \in 1..Len(<<>>) : TRUE
    OBVIOUS
  <2> QED
    BY <2>1, <2>2 DEF ReadUpTo
<1>4. InOrder(<<>>) /\ <<>> \in Seq(Good(raw)) /\ 1 \in 1..(Len(raw) + 2)
  BY DEF InOrder
<1> QED
  BY <1>1, <1>2, <1>3, <1>4 DEF Reads

LEMMA ReadsOn ==
  ASSUME NEW S, NEW raw \in Seq(S), NEW spans, NEW loop, Reads(raw, spans, loop)
  PROVE  \E more : Reads(raw, more, ReadField(raw, loop))
<1>1. PICK start, n, end :
        start = loop.field_start /\ n = Len(raw) /\ end = FieldEnd(raw, start)
  OBVIOUS
<1>2. n \in Nat /\ start \in 1..(n + 2) /\ (start \in {1, n + 2} \/ raw[start - 1] = Plain("&"))
  BY <1>1 DEF Reads
<1>3. CASE start = n + 2
  <2>1. ReadField(raw, loop) = loop
    BY <1>1, <1>2, <1>3 DEF ReadField
  <2> QED
    BY <2>1
<1>4. CASE start # n + 2
  <2>1. start \in 1..(n + 1) /\ (start = 1 \/ raw[start - 1] = Plain("&"))
    BY <1>2, <1>4
  <2>2. end \in start..(n + 1) /\ (end <= n => raw[end] = Plain("&"))
    BY <1>1, <2>1, FieldEnds
  <2> DEFINE field == SubSeq(raw, start, end - 1)
             span == <<start, end - 1>>
  <2>3. ReadField(raw, loop) =
          [field_start |-> end + 1,
           parameters |-> IF Kept(field) THEN Append(loop.parameters, Parameter(field))
                          ELSE loop.parameters]
    BY <1>1, <1>2, <2>1 DEF ReadField
  <2>4. Kept(field) <=> span \in Good(raw)
    BY <1>1, <2>1, KeptIsGood
  <2>5. end + 1 \in 1..(n + 2) /\ (end + 1 \in {1, n + 2} \/ raw[(end + 1) - 1] = Plain("&"))
    BY <1>2, <2>1, <2>2
  <2>6. spans \in Seq(Good(raw)) /\ Len(spans) \in Nat
    BY DEF Reads
  <2>7. ASSUME NEW ab \in Good(raw)
        PROVE  ab[1] < end + 1 <=> ab[1] < start \/ ab = span
    <3>1. ab \in Stretches(raw) /\ ab[1] \in 1..n
      BY <1>1, StretchFields DEF Good
    <3>2. ab[1] >= start => ab = span \/ ab[1] > end
      BY <1>1, <2>1, <3>1, StretchBehind
    <3>3. ab = span => ab[1] = start
      OBVIOUS
    <3> HIDE DEF span
    <3> QED
      BY <1>2, <2>1, <2>2, <3>1, <3>2, <3>3
  <2> HIDE DEF field
  <2>8. CASE ~Kept(field)
    <3>1. /\ ReadField(raw, loop).field_start = end + 1
          /\ ReadField(raw, loop).parameters = loop.parameters
      BY <2>3, <2>8
    <3>2. ReadUpTo(raw, spans, end + 1)
      <4> HIDE DEF span
      <4> QED
        BY <1>1, <2>4, <2>7, <2>8 DEF Reads, ReadUpTo
    <3>3. Reads(raw, spans, ReadField(raw, loop))
      BY <1>1, <2>5, <3>1, <3>2 DEF Reads
    <3> QED
      BY <3>3
  <2>9. CASE Kept(field)
    <3> DEFINE more == Append(spans, span)
    <3>1. /\ ReadField(raw, loop).field_start = end + 1
          /\ ReadField(raw, loop).parameters = Append(loop.parameters, Parameter(field))
      BY <2>3, <2>9
    <3>2. /\ more \in Seq(Good(raw)) /\ Len(more) = Len(spans) + 1
          /\ \A j \in 1..Len(spans) : more[j] = spans[j]
          /\ more[Len(spans) + 1] = span
      <4> HIDE DEF span
      <4> QED
        BY <2>4, <2>6, <2>9
    <3>3. Parameter(field) = ParameterOf(raw, span)
      BY DEF ParameterOf, field
    <3>4. Append(loop.parameters, Parameter(field)) = Parameters(raw, more)
      <4> HIDE DEF more, span
      <4>1. Append(Parameters(raw, spans), ParameterOf(raw, span)) = Parameters(raw, more)
        <5> DEFINE old == Parameters(raw, spans)
        <5>1. old = [j \in 1..Len(spans) |-> ParameterOf(raw, spans[j])]
          BY DEF Parameters
        <5>2. old \in Seq({ParameterOf(raw, ab) : ab \in Good(raw)}) /\ Len(old) = Len(spans)
          BY <2>6, <5>1
        <5>3. Append(old, ParameterOf(raw, span)) =
                [j \in 1..(Len(spans) + 1) |->
                   IF j <= Len(spans) THEN old[j] ELSE ParameterOf(raw, span)]
          <6> DEFINE P == {ParameterOf(raw, ab) : ab \in Good(raw)}
          <6>1. PICK p : p = ParameterOf(raw, span)
            OBVIOUS
          <6>2. p \in P /\ old \in Seq(P) /\ Len(old) = Len(spans)
            BY <2>4, <2>9, <5>2, <6>1
          <6> HIDE DEF old, P
          <6>3. /\ Append(old, p) \in Seq(P) /\ Len(Append(old, p)) = Len(old) + 1
                /\ \A j \in 1..Len(old) : Append(old, p)[j] = old[j]
                /\ Append(old, p)[Len(old) + 1] = p
            BY <6>2
          <6>4. Append(old, p) = [j \in 1..(Len(old) + 1) |-> Append(old, p)[j]]
            <7>1. PICK t : t = Append(old, p)
              OBVIOUS
            <7>2. t \in Seq(P) /\ Len(t) = Len(old) + 1
              BY <6>3, <7>1
            <7>3. t = [j \in 1..Len(t) |-> t[j]]
              BY <7>2
            <7> QED
              BY <7>1, <7>2, <7>3, Zenon
          <6>5. \A j \in 1..(Len(old) + 1) : j <= Len(old) => j \in 1..Len(old)
            BY <6>2
          <6>6. \A j \in 1..(Len(old) + 1) : ~(j <= Len(old)) => j = Len(old) + 1
            BY <6>2
          <6>7. \A j \in 1..(Len(old) + 1) :
                  Append(old, p)[j] = IF j <= Len(old) THEN old[j] ELSE p
            BY <6>3, <6>5, <6>6
          <6>8. Append(old, p) = [j \in 1..(Len(old) + 1) |-> IF j <= Len(old) THEN old[j] ELSE p]
            BY <6>4, <6>7, Zenon
          <6> QED
            BY <6>1, <6>2, <6>8
        <5>4. ASSUME NEW j \in 1..(Len(spans) + 1)
              PROVE  (IF j <= Len(spans) THEN old[j] ELSE ParameterOf(raw, span))
                       = ParameterOf(raw, more[j])
          <6>1. CASE j <= Len(spans)
            <7>1. j \in 1..Len(spans)
              BY <2>6, <6>1
            <7> QED
              BY <3>2, <5>1, <6>1, <7>1
          <6>2. CASE ~(j <= Len(spans))
            <7>1. j = Len(spans) + 1
              BY <2>6, <6>2
            <7> QED
              BY <3>2, <6>2, <7>1
          <6> QED
            BY <6>1, <6>2
        <5> HIDE DEF old
        <5>5. Parameters(raw, more) = [j \in 1..(Len(spans) + 1) |-> ParameterOf(raw, more[j])]
          BY <3>2 DEF Parameters
        <5> QED
          BY <5>3, <5>4, <5>5 DEF old
      <4> QED
        BY <3>3, <4>1 DEF Reads
    <3>5. InOrder(more)
      <4>1. ASSUME NEW j \in 1..Len(spans) PROVE spans[j][1] < start
        <5>1. spans[j] \in Good(raw)
          BY <2>6
        <5> QED
          BY <1>1, <5>1 DEF Reads, ReadUpTo
      <4>2. span[1] = start
        OBVIOUS
      <4> HIDE DEF more, span
      <4>3. ASSUME NEW i \in 1..Len(more), NEW j \in 1..Len(more), i < j
            PROVE  more[i][1] < more[j][1]
        <5>1. i \in 1..Len(spans)
          BY <2>6, <3>2, <4>3
        <5>2. CASE j \in 1..Len(spans)
          BY <3>2, <4>3, <5>1, <5>2 DEF Reads, InOrder
        <5>3. CASE j \notin 1..Len(spans)
          <6>1. j = Len(spans) + 1
            BY <2>6, <3>2, <5>3
          <6> QED
            BY <3>2, <4>1, <4>2, <5>1, <6>1
        <5> QED
          BY <5>2, <5>3
      <4> QED
        BY <4>3 DEF InOrder
    <3>6. ReadUpTo(raw, more, end + 1)
      <4> HIDE DEF more, span
      <4>1. ASSUME NEW ab \in Good(raw)
            PROVE  (\E j \in 1..Len(more) : more[j] = ab)
                     <=> ab = span \/ \E j \in 1..Len(spans) : spans[j] = ab
        <5>1. \A j \in 1..Len(more) : j \in 1..Len(spans) \/ j = Len(spans) + 1
          BY <2>6, <3>2
        <5>2. \A j \in 1..Len(spans) : j \in 1..Len(more)
          BY <2>6, <3>2
        <5>3. Len(spans) + 1 \in 1..Len(more)
          BY <2>6, <3>2
        <5> QED
          BY <3>2, <5>1, <5>2, <5>3
      <4> QED
        BY <1>1, <2>7, <4>1 DEF Reads, ReadUpTo
    <3>7. Reads(raw, more, ReadField(raw, loop))
      <4> HIDE DEF more, span
      <4> QED
        BY <1>1, <2>5, <3>1, <3>2, <3>4, <3>5, <3>6 DEF Reads
    <3> QED
      BY <3>7
  <2> QED
    BY <2>8, <2>9
<1> QED
  BY <1>3, <1>4

(* Every turn of the loop takes a field, so that it has read them all.     *)
LEMMA ParseReads ==
  ASSUME NEW S, NEW raw \in Seq(S)
  PROVE  \E spans : /\ spans \in Seq(Good(raw)) /\ InOrder(spans)
                    /\ \A ab \in Good(raw) : \E j \in 1..Len(spans) : spans[j] = ab
                    /\ ParseQuery(raw) = Parameters(raw, spans)
<1> DEFINE n == Len(raw) + 1
           At(k) == /\ \E spans : Reads(raw, spans, Loop(raw)[k])
                    /\ Loop(raw)[k].field_start > k
           D == {k \in 0..n : ~At(k)}
<1>1. n \in Nat /\ Len(raw) \in Nat
  OBVIOUS
<1>2. D = {}
  <2> SUFFICES ASSUME D # {} PROVE FALSE
    OBVIOUS
  <2>1. PICK m \in D : \A j \in D : m <= j
    <3>1. D \subseteq Nat
      OBVIOUS
    <3> HIDE DEF D
    <3> QED
      BY <3>1, Least
  <2>2. At(0)
    <3>1. Loop(raw)[0] = Begun /\ Begun.field_start = 1
      BY <1>1, LoopIs DEF Begun
    <3> QED
      BY <3>1, ReadsBegun
  <2>3. m \in 1..n /\ m - 1 \in 0..n /\ At(m - 1) /\ ~At(m)
    <3> HIDE DEF At, n
    <3>1. m \in 0..n /\ m # 0 /\ ~At(m)
      BY <2>1, <2>2
    <3>2. m - 1 \in 0..n /\ ~(m <= m - 1)
      BY <1>1, <3>1
    <3> QED
      BY <1>1, <2>1, <3>1, <3>2
  <2>4. Loop(raw)[m] = ReadField(raw, Loop(raw)[m - 1])
    BY <1>1, <2>3, LoopIs
  <2>5. PICK loop : loop = Loop(raw)[m - 1]
    OBVIOUS
  <2>6. PICK spans : Reads(raw, spans, loop)
    BY <2>3, <2>5
  <2>7. \E more : Reads(raw, more, ReadField(raw, loop))
    BY <2>6, ReadsOn
  <2>8. ReadField(raw, loop).field_start > m
    <3>1. loop.field_start \in 1..(Len(raw) + 2) /\ loop.field_start > m - 1
      BY <2>3, <2>5, <2>6 DEF Reads
    <3>2. CASE loop.field_start > Len(raw) + 1
      <4>1. ReadField(raw, loop) = loop
        BY <3>2 DEF ReadField
      <4> QED
        BY <1>1, <2>3, <3>1, <3>2, <4>1
    <3>3. CASE ~(loop.field_start > Len(raw) + 1)
      <4>1. ReadField(raw, loop).field_start = FieldEnd(raw, loop.field_start) + 1
        BY <3>3 DEF ReadField
      <4>2. FieldEnd(raw, loop.field_start) \in loop.field_start..(Len(raw) + 1)
        BY <1>1, <3>1, <3>3, FieldEnds
      <4> QED
        BY <1>1, <2>3, <3>1, <4>1, <4>2
    <3> QED
      BY <3>2, <3>3
  <2> QED
    BY <2>3, <2>4, <2>5, <2>7, <2>8
<1>3. At(n)
  <2> HIDE DEF At
  <2>1. n \in 0..n
    BY <1>1
  <2> QED
    BY <1>2, <2>1
<1>4. PICK loop : loop = Loop(raw)[n]
  OBVIOUS
<1>5. PICK spans : Reads(raw, spans, loop)
  BY <1>3, <1>4
<1>6. \A ab \in Good(raw) : \E j \in 1..Len(spans) : spans[j] = ab
  <2>1. loop.field_start > Len(raw) + 1 /\ loop.field_start \in 1..(Len(raw) + 2)
    BY <1>3, <1>4, <1>5 DEF Reads
  <2>2. \A ab \in Good(raw) : ab[1] \in 1..Len(raw)
    BY StretchFields DEF Good
  <2>3. \A ab \in Good(raw) : ab[1] < loop.field_start
    BY <1>1, <2>1, <2>2
  <2> QED
    BY <1>5, <2>3 DEF Reads, ReadUpTo
<1>7. ParseQuery(raw) = Parameters(raw, spans)
  BY <1>4, <1>5 DEF ParseQuery, Reads
<1> QED
  BY <1>5, <1>6, <1>7 DEF Reads

(* What a parameter is, by the positions of its field.                     *)
Unescaped(token) == IF token = Plain("+") THEN " " ELSE token.text

Separators == {"=", "+", " "}

LEMMA ParameterIs ==
  ASSUME NEW S, NEW raw \in Seq(S), NEW ab \in Stretches(raw), NEW key, key \notin Separators
  PROVE  /\ ParameterOf(raw, ab).key = <<key>> <=> Names(raw, ab, key)
         /\ Names(raw, ab, key) =>
              ParameterOf(raw, ab).value = [i \in 1..(ab[2] - ab[1] - 1) |-> Unescaped(raw[ab[1] + 1 + i])]
<1>1. PICK a \in 1..Len(raw), b \in 1..Len(raw) : ab[1] = a /\ ab[2] = b /\ a <= b
  BY StretchFields
<1>2. PICK field, size : field = SubSeq(raw, a, b) /\ size = b - a + 1
  OBVIOUS
<1>3. /\ size \in Nat \ {0} /\ Len(raw) \in Nat
      /\ field \in Seq(S) /\ Len(field) = size
      /\ \A i \in 1..size : field[i] = raw[a + i - 1]
  <2>1. a \in 1..(Len(raw) + 1) /\ b \in (a - 1)..Len(raw)
    BY <1>1
  <2> QED
    BY <1>1, <1>2, <2>1, FieldIs
<1> DEFINE E == Positions(field, "=") \cup {size + 1}
<1>4. E \subseteq 1..(size + 1)
  BY <1>3 DEF Positions
<1>5. PICK end : end = KeyEnd(field)
  OBVIOUS
<1>6. end \in E /\ \A i \in E : end <= i
  <2>1. E \subseteq Nat /\ E # {}
    BY <1>3, <1>4
  <2> HIDE DEF E
  <2>2. \E m \in E : \A i \in E : m <= i
    BY <2>1, Least
  <2>3. end = Min(E)
    BY <1>3, <1>5 DEF KeyEnd, E
  <2> QED
    BY <2>2, <2>3 DEF Min
<1>7. end \in 1..(size + 1)
  BY <1>4, <1>6
<1> DEFINE head == SubSeq(field, 1, end - 1)
           tail == SubSeq(field, end + 1, size)
<1>8. head \in Seq(S) /\ DOMAIN head = 1..(end - 1) /\ \A i \in 1..(end - 1) : head[i] = field[i]
  <2>1. 1 \in 1..(Len(field) + 1) /\ end - 1 \in (1 - 1)..Len(field)
    BY <1>3, <1>7
  <2> QED
    BY <1>3, <1>7, <2>1, FieldIs
<1>9. /\ ParameterOf(raw, ab).key = [i \in 1..(end - 1) |-> Unescaped(head[i])]
      /\ ParameterOf(raw, ab).value = [i \in DOMAIN tail |-> Unescaped(tail[i])]
  <2>1. ParameterOf(raw, ab) = [key |-> PercentDecode(head, TRUE), value |-> PercentDecode(tail, TRUE)]
    BY <1>1, <1>2, <1>3, <1>5 DEF ParameterOf, Parameter
  <2>2. ASSUME NEW t PROVE PercentDecode(t, TRUE) = [i \in DOMAIN t |-> Unescaped(t[i])]
    BY DEF PercentDecode, Unescaped
  <2> HIDE DEF head, tail
  <2>3. /\ ParameterOf(raw, ab).key = PercentDecode(head, TRUE)
        /\ ParameterOf(raw, ab).value = PercentDecode(tail, TRUE)
    BY <2>1
  <2>4. PercentDecode(head, TRUE) = [i \in 1..(end - 1) |-> Unescaped(head[i])]
    BY <1>8, <2>2, Zenon
  <2> QED
    BY <2>2, <2>3, <2>4, Zenon
<1> HIDE DEF head, tail
<1>a. Plain("+").text = "+" /\ Plain("=").text = "=" /\ key \notin {"=", "+", " "}
  BY DEF Plain, Separators
<1>10. Unescaped(raw[a]) = key <=> raw[a].text = key
  BY <1>a DEF Unescaped
<1>11. field[1] = raw[a] /\ (size > 1 => field[2] = raw[a + 1])
  BY <1>1, <1>3
<1>12. (2 \in E) <=> (size = 1 \/ raw[a + 1] = Plain("="))
  BY <1>3, <1>11 DEF Positions
<1>13. raw[a].text = key => 1 \notin E
  <2>1. ASSUME raw[a].text = key PROVE field[1] # Plain("=")
    BY <1>a, <1>11, <2>1
  <2> QED
    BY <1>3, <2>1 DEF Positions
<1>14. Names(raw, ab, key) <=> raw[a].text = key /\ 2 \in E
  <2>1. a = b <=> size = 1
    BY <1>1, <1>2
  <2> QED
    BY <1>1, <1>12, <2>1 DEF Names
<1>15. Names(raw, ab, key) => end = 2
  <2> HIDE DEF E
  <2> QED
    BY <1>6, <1>7, <1>13, <1>14
<1>16. end = 2 => (ParameterOf(raw, ab).key = <<key>> <=> raw[a].text = key)
  <2>1. end = 2 => head[1] = raw[a]
    BY <1>8, <1>11
  <2>2. end = 2 => ParameterOf(raw, ab).key = [i \in 1..1 |-> Unescaped(head[i])]
    BY <1>9
  <2>3. ASSUME NEW t PROVE [i \in 1..1 |-> Unescaped(t[i])] = <<key>> <=> Unescaped(t[1]) = key
    OBVIOUS
  <2> QED
    BY <1>10, <2>1, <2>2, <2>3
<1>17. ParameterOf(raw, ab).key = <<key>> => end = 2
  <2>1. DOMAIN ParameterOf(raw, ab).key = 1..(end - 1)
    BY <1>9
  <2>2. DOMAIN <<key>> = 1..1
    OBVIOUS
  <2>3. ASSUME 1..(end - 1) = 1..1 PROVE end = 2
    <3>1. 1 \in 1..(end - 1) /\ ~(2 \in 1..(end - 1))
      BY <2>3
    <3> QED
      BY <1>7, <3>1
  <2> QED
    BY <2>1, <2>2, <2>3
<1>18. ParameterOf(raw, ab).key = <<key>> <=> Names(raw, ab, key)
  BY <1>6, <1>14, <1>15, <1>16, <1>17
<1>19. ASSUME end = 2
       PROVE  ParameterOf(raw, ab).value = [i \in 1..(b - a - 1) |-> Unescaped(raw[a + 1 + i])]
  <2>1. DOMAIN tail = 1..(size - 2) /\ \A i \in 1..(size - 2) : tail[i] = field[i + 2]
    <3>1. tail = SubSeq(field, 3, size)
      BY <1>19 DEF tail
    <3> QED
      BY <1>3, <3>1
  <2>2. size - 2 = b - a - 1
    BY <1>1, <1>2
  <2>3. ASSUME NEW i \in 1..(b - a - 1) PROVE tail[i] = raw[a + 1 + i]
    <3>1. i + 2 \in 1..size /\ a + (i + 2) - 1 = a + 1 + i
      BY <1>1, <1>2
    <3> QED
      BY <1>3, <2>1, <2>2, <3>1
  <2> QED
    BY <1>9, <2>1, <2>2, <2>3
<1> QED
  BY <1>1, <1>15, <1>18, <1>19

(* The first parameter with a key is the decisive field's.                 *)
ValueOf(raw, ab) == [i \in 1..(ab[2] - ab[1] - 1) |-> Unescaped(raw[ab[1] + 1 + i])]

LEMMA GoodFields ==
  ASSUME NEW S, NEW raw \in Seq(S), NEW ab \in Good(raw)
  PROVE  /\ ab \in Stretches(raw)
         /\ ab[1] \in Nat /\ ab[2] \in Nat /\ ab[1] \in Int /\ ab[1] <= ab[2]
<1>1. ab \in Stretches(raw)
  BY DEF Good
<1>2. ab[1] \in 1..Len(raw) /\ ab[2] \in 1..Len(raw) /\ ab[1] <= ab[2] /\ Len(raw) \in Nat
  BY <1>1, StretchFields
<1> QED
  BY <1>1, <1>2

LEMMA FirstIs ==
  ASSUME NEW S, NEW raw \in Seq(S), NEW key, key \notin Separators
  PROVE  /\ Decisive(raw, key) = {} => First(ParseQuery(raw), key) = <<>>
         /\ \A ab \in Decisive(raw, key) : First(ParseQuery(raw), key) = ValueOf(raw, ab)
<1>1. PICK spans : /\ spans \in Seq(Good(raw)) /\ InOrder(spans)
                   /\ \A ab \in Good(raw) : \E j \in 1..Len(spans) : spans[j] = ab
                   /\ ParseQuery(raw) = Parameters(raw, spans)
  BY ParseReads
<1>2. PICK parameters : parameters = ParseQuery(raw)
  OBVIOUS
<1>3. /\ DOMAIN parameters = 1..Len(spans) /\ Len(spans) \in Nat
      /\ \A j \in 1..Len(spans) : parameters[j] = ParameterOf(raw, spans[j])
  BY <1>1, <1>2 DEF Parameters
<1>4. \A j \in 1..Len(spans) : spans[j] \in Good(raw) /\ spans[j] \in Stretches(raw)
                                 /\ spans[j][1] \in Int
  <2>1. \A ab \in Good(raw) : ab \in Stretches(raw) /\ ab[1] \in Int
    BY GoodFields
  <2> QED
    BY <1>1, <2>1
<1> DEFINE at == {j \in DOMAIN parameters : parameters[j].key = <<key>>}
<1>5. at = {j \in 1..Len(spans) : Names(raw, spans[j], key)}
  BY <1>3, <1>4, ParameterIs
<1>6. First(parameters, key) = IF at = {} THEN <<>> ELSE parameters[Min(at)].value
  BY DEF First
<1> HIDE DEF at
<1>7. ASSUME at # {}
      PROVE  Min(at) \in at /\ \A j \in at : Min(at) <= j
  <2>1. at \subseteq Nat
    BY <1>5
  <2>2. \E m \in at : \A j \in at : m <= j
    BY <1>7, <2>1, Least
  <2> QED
    BY <2>2 DEF Min
<1>8. ASSUME at # {}
      PROVE  spans[Min(at)] \in Decisive(raw, key)
  <2>1. PICK m : m = Min(at)
    OBVIOUS
  <2>2. m \in 1..Len(spans) /\ Names(raw, spans[m], key) /\ spans[m] \in Good(raw)
    BY <1>4, <1>5, <1>7, <1>8, <2>1
  <2>3. ASSUME NEW cd \in Good(raw), Names(raw, cd, key) PROVE spans[m][1] <= cd[1]
    <3>1. PICK j \in 1..Len(spans) : spans[j] = cd
      BY <1>1
    <3>2. j \in at /\ m <= j
      BY <1>5, <1>7, <1>8, <2>1, <2>3, <3>1
    <3>3. CASE m = j
      BY <1>4, <2>2, <3>1, <3>3
    <3>4. CASE m < j
      <4>1. spans[m][1] < spans[j][1]
        BY <1>1, <2>2, <3>1, <3>4 DEF InOrder
      <4>2. spans[m][1] \in Int /\ spans[j][1] \in Int
        BY <1>4, <2>2, <3>1
      <4> QED
        BY <3>1, <4>1, <4>2
    <3> QED
      BY <2>2, <3>2, <3>3, <3>4
  <2> QED
    BY <2>1, <2>2, <2>3 DEF Decisive
<1>9. ASSUME NEW ab \in Decisive(raw, key)
      PROVE  First(parameters, key) = ValueOf(raw, ab)
  <2>1. ab \in Good(raw) /\ Names(raw, ab, key) /\ ab \in Stretches(raw)
          /\ \A cd \in Good(raw) : Names(raw, cd, key) => ab[1] <= cd[1]
    BY DEF Decisive, Good
  <2>2. PICK j \in 1..Len(spans) : spans[j] = ab
    BY <1>1, <2>1
  <2>3. j \in at
    BY <1>5, <2>1, <2>2
  <2>4. PICK m : m = Min(at) /\ m \in 1..Len(spans) /\ Names(raw, spans[m], key) /\ m <= j
    BY <1>5, <1>7, <2>3
  <2>5. ~(m < j)
    <3>1. ab[1] <= spans[m][1]
      BY <1>4, <2>1, <2>4
    <3>2. m < j => spans[m][1] < ab[1]
      BY <1>1, <2>2, <2>4 DEF InOrder
    <3> QED
      BY <1>4, <2>2, <2>4, <3>1, <3>2
  <2>6. m = j
    BY <2>2, <2>4, <2>5
  <2>7. First(parameters, key) = ParameterOf(raw, ab).value
    BY <1>3, <1>6, <2>2, <2>3, <2>4, <2>6
  <2> QED
    BY <2>1, <2>7, ParameterIs DEF ValueOf
<1> QED
  BY <1>2, <1>6, <1>8, <1>9

LEMMA OnlyOne == \A n \in Int : 1..n = 1..1 => n = 1
<1> SUFFICES ASSUME NEW n \in Int, 1..n = 1..1 PROVE n = 1
  OBVIOUS
<1>1. 1 \in 1..n /\ ~(2 \in 1..n)
  OBVIOUS
<1> QED
  BY <1>1

LEMMA BooleanIs ==
  ASSUME NEW S, NEW raw \in Seq(S), NEW key, key \notin Separators
  PROVE  Boolean(ParseQuery(raw), key) <=> On(raw, key)
<1>1. CASE Decisive(raw, key) = {}
  <2>1. <<>> # <<"1">>
    OBVIOUS
  <2> QED
    BY <1>1, <2>1, FirstIs DEF Boolean, On
<1>2. ASSUME NEW ab \in Decisive(raw, key)
      PROVE  Boolean(ParseQuery(raw), key) <=> ab[2] = ab[1] + 2 /\ raw[ab[2]].text = "1"
  <2>1. PICK a \in Nat, b \in Nat : ab[1] = a /\ ab[2] = b /\ a <= b
    BY GoodFields DEF Decisive
  <2>2. Boolean(ParseQuery(raw), key) <=>
          [i \in 1..(b - a - 1) |-> Unescaped(raw[a + 1 + i])] = <<"1">>
    <3>1. First(ParseQuery(raw), key) = ValueOf(raw, ab)
      BY FirstIs
    <3>2. ValueOf(raw, ab) = [i \in 1..(b - a - 1) |-> Unescaped(raw[a + 1 + i])]
      BY <2>1, Zenon DEF ValueOf
    <3> QED
      BY <3>1, <3>2, Zenon DEF Boolean
  <2>3. b - a - 1 = 1 <=> b = a + 2
    BY <2>1
  <2>4. [i \in 1..(b - a - 1) |-> Unescaped(raw[a + 1 + i])] = <<"1">> => b - a - 1 = 1
    <3> SUFFICES ASSUME [i \in 1..(b - a - 1) |-> Unescaped(raw[a + 1 + i])] = <<"1">>
                 PROVE  b - a - 1 = 1
      OBVIOUS
    <3>1. 1..(b - a - 1) = 1..1
      <4>1. DOMAIN [i \in 1..(b - a - 1) |-> Unescaped(raw[a + 1 + i])] = DOMAIN <<"1">>
        BY Zenon
      <4>2. DOMAIN <<"1">> = 1..1
        OBVIOUS
      <4>3. DOMAIN [i \in 1..(b - a - 1) |-> Unescaped(raw[a + 1 + i])] = 1..(b - a - 1)
        BY Zenon
      <4> QED
        BY <4>1, <4>2, <4>3, Zenon
    <3>2. b - a - 1 \in Int
      BY <2>1
    <3> QED
      BY <3>1, <3>2, OnlyOne, Zenon
  <2>5. b = a + 2 => ([i \in 1..(b - a - 1) |-> Unescaped(raw[a + 1 + i])] = <<"1">>
                        <=> Unescaped(raw[b]) = "1")
    <3> SUFFICES ASSUME b = a + 2
                 PROVE  [i \in 1..(b - a - 1) |-> Unescaped(raw[a + 1 + i])] = <<"1">>
                          <=> Unescaped(raw[b]) = "1"
      OBVIOUS
    <3>1. b - a - 1 = 1 /\ a + 1 + 1 = b
      BY <2>1
    <3>2. [i \in 1..1 |-> Unescaped(raw[a + 1 + i])] = <<"1">> <=> Unescaped(raw[a + 1 + 1]) = "1"
      OBVIOUS
    <3> QED
      BY <3>1, <3>2
  <2>6. Unescaped(raw[b]) = "1" <=> raw[b].text = "1"
    <3>1. Plain("+").text = "+"
      BY DEF Plain
    <3> QED
      BY <3>1 DEF Unescaped
  <2> QED
    BY <2>1, <2>2, <2>3, <2>4, <2>5, <2>6
<1>3. CASE Decisive(raw, key) # {}
  <2>1. PICK ab \in Decisive(raw, key) : TRUE
    BY <1>3
  <2>2. \A cd \in Decisive(raw, key) :
          Boolean(ParseQuery(raw), key) <=> cd[2] = cd[1] + 2 /\ raw[cd[2]].text = "1"
    BY <1>2
  <2> QED
    BY <2>1, <2>2 DEF On
<1> QED
  BY <1>1, <1>3

LEMMA GivenIs ==
  ASSUME NEW S, NEW raw \in Seq(S), NEW key, key \notin Separators
  PROVE  First(ParseQuery(raw), key) # <<>> <=> \E ab \in Decisive(raw, key) : ab[2] > ab[1] + 1
<1>1. ASSUME NEW ab \in Decisive(raw, key)
      PROVE  First(ParseQuery(raw), key) # <<>> <=> ab[2] > ab[1] + 1
  <2>1. PICK a \in Nat, b \in Nat : ab[1] = a /\ ab[2] = b /\ a <= b
    BY GoodFields DEF Decisive
  <2>2. First(ParseQuery(raw), key) = [i \in 1..(b - a - 1) |-> Unescaped(raw[a + 1 + i])]
    <3>1. First(ParseQuery(raw), key) = ValueOf(raw, ab)
      BY FirstIs
    <3> QED
      BY <2>1, <3>1, Zenon DEF ValueOf
  <2>3. CASE b > a + 1
    <3>1. 1 \in 1..(b - a - 1)
      BY <2>1, <2>3
    <3>2. DOMAIN First(ParseQuery(raw), key) # {}
      BY <2>2, <3>1
    <3>3. DOMAIN <<>> = {}
      OBVIOUS
    <3> QED
      BY <2>1, <2>3, <3>2, <3>3
  <2>4. CASE ~(b > a + 1)
    <3>1. 1..(b - a - 1) = {}
      BY <2>1, <2>4
    <3>2. First(ParseQuery(raw), key) = <<>>
      BY <2>2, <3>1
    <3> QED
      BY <2>1, <2>4, <3>2
  <2> QED
    BY <2>3, <2>4
<1> QED
  BY <1>1, FirstIs

LEMMA UrlOnlyIs ==
  ASSUME NEW S, NEW raw \in Seq(S), NEW key, key \notin Separators
  PROVE  Len(ParseQuery(raw)) = 1 /\ ParseQuery(raw)[1].key = <<key>>
           <=> \E ab \in Good(raw) : Good(raw) = {ab} /\ Names(raw, ab, key)
<1>1. PICK spans : /\ spans \in Seq(Good(raw)) /\ InOrder(spans)
                   /\ \A ab \in Good(raw) : \E j \in 1..Len(spans) : spans[j] = ab
                   /\ ParseQuery(raw) = Parameters(raw, spans)
  BY ParseReads
<1>2. PICK parameters : parameters = ParseQuery(raw)
  OBVIOUS
<1>3. PICK n \in Nat : n = Len(spans)
  BY <1>1
<1>4. Len(parameters) = n /\ \A j \in 1..n : parameters[j] = ParameterOf(raw, spans[j])
  BY <1>1, <1>2, <1>3 DEF Parameters
<1>5. \A j \in 1..n : spans[j] \in Good(raw) /\ spans[j] \in Stretches(raw) /\ spans[j][1] \in Int
  <2>1. \A ab \in Good(raw) : ab \in Stretches(raw) /\ ab[1] \in Int
    BY GoodFields
  <2> QED
    BY <1>1, <1>3, <2>1
<1>6. ASSUME n = 1 PROVE parameters[1].key = <<key>> <=> Names(raw, spans[1], key)
  <2>1. 1 \in 1..n
    BY <1>6
  <2>2. PICK ab : ab = spans[1]
    OBVIOUS
  <2>3. parameters[1] = ParameterOf(raw, ab) /\ ab \in Stretches(raw)
    BY <1>4, <1>5, <2>1, <2>2
  <2>4. ParameterOf(raw, ab).key = <<key>> <=> Names(raw, ab, key)
    BY <2>3, ParameterIs
  <2> QED
    BY <2>2, <2>3, <2>4
<1>7. n = 1 => Good(raw) = {spans[1]}
  BY <1>1, <1>3, <1>5
<1>8. ASSUME NEW ab \in Good(raw), Good(raw) = {ab} PROVE n = 1 /\ spans[1] = ab
  <2>1. n # 0
    BY <1>1, <1>3
  <2>2. ~(n > 1)
    <3>1. ASSUME n > 1 PROVE FALSE
      <4>1. 1 \in 1..n /\ 2 \in 1..n
        BY <3>1
      <4>2. spans[1] = ab /\ spans[2] = ab
        BY <1>5, <1>8, <4>1
      <4>3. spans[1][1] < spans[2][1]
        BY <1>1, <1>3, <4>1 DEF InOrder
      <4> QED
        BY <1>5, <4>1, <4>2, <4>3
    <3> QED
      BY <3>1
  <2>3. n = 1
    BY <2>1, <2>2
  <2> QED
    BY <1>7, <1>8, <2>3
<1> QED
  BY <1>2, <1>4, <1>5, <1>6, <1>7, <1>8

LEMMA Names6 ==
  /\ DOMAIN Precedence = 1..6
  /\ \A i \in 1..6 : Precedence[i] \in DOMAIN Presets
  /\ \A s \in DOMAIN Presets : s \notin Separators /\ \E i \in 1..6 : Precedence[i] = s
<1>1. DOMAIN Precedence = 1..6 /\ \A i \in 1..6 : Precedence[i] \in DOMAIN Presets
  BY DEF Precedence, Presets
<1>2. /\ Precedence[1] = "avatar" /\ Precedence[2] = "emoji" /\ Precedence[3] = "preview"
      /\ Precedence[4] = "badge" /\ Precedence[5] = "thumbnail" /\ Precedence[6] = "ticker"
  BY DEF Precedence
<1>3. DOMAIN Presets = {"avatar", "emoji", "preview", "badge", "thumbnail", "ticker"}
  BY DEF Presets
<1>4. 1 \in 1..6 /\ 2 \in 1..6 /\ 3 \in 1..6 /\ 4 \in 1..6 /\ 5 \in 1..6 /\ 6 \in 1..6
  OBVIOUS
<1>5. ASSUME NEW s \in DOMAIN Presets PROVE s \notin Separators /\ \E i \in 1..6 : Precedence[i] = s
  <2>1. s \notin Separators
    BY <1>3 DEF Separators
  <2>2. \E i \in 1..6 : Precedence[i] = s
    BY <1>2, <1>3, <1>4
  <2> QED
    BY <2>1, <2>2
<1> QED
  BY <1>1, <1>5

LEMMA PresetIs ==
  ASSUME NEW S, NEW raw \in Seq(S)
  PROVE  PresetRead(raw, Selected(ParseQuery(raw)))
<1> DEFINE on == {i \in DOMAIN Precedence : Boolean(ParseQuery(raw), Precedence[i])}
<1>1. PICK preset : preset = Selected(ParseQuery(raw))
  OBVIOUS
<1>2. preset = IF on = {} THEN DefaultMedia ELSE Presets[Precedence[Min(on)]]
  BY <1>1, Zenon DEF Selected
<1>3. \A i \in 1..6 : i \in on <=> Precedence[i] \in Selectors(raw)
  BY Names6, BooleanIs DEF Selectors
<1>4. on \subseteq 1..6
  BY Names6
<1> HIDE DEF on
<1>5. CASE Selectors(raw) = {}
  <2>1. on = {}
    BY <1>3, <1>4, <1>5
  <2>2. preset = [width_limit |-> 3200, height_limit |-> 3200, preferred_output |-> "webp"]
    BY <1>2, <2>1 DEF DefaultMedia, Preset
  <2> QED
    BY <1>1, <1>5, <2>2 DEF PresetRead
<1>6. CASE Selectors(raw) # {}
  <2>1. PICK s \in Selectors(raw) : TRUE
    BY <1>6
  <2>2. PICK i \in 1..6 : Precedence[i] = s
    BY <2>1, Names6 DEF Selectors
  <2>3. on # {} /\ on \subseteq Nat
    BY <1>3, <1>4, <2>1, <2>2
  <2>4. \E m \in on : \A j \in on : m <= j
    BY <2>3, Least
  <2>5. PICK m \in on : m = Min(on) /\ \A j \in on : m <= j
    BY <2>4 DEF Min
  <2>6. m \in 1..6 /\ Precedence[m] \in Selectors(raw)
    BY <1>3, <1>4, <2>5
  <2>7. ASSUME NEW j \in 1..(m - 1) PROVE Precedence[j] \notin Selectors(raw)
    <3>1. j \in 1..6 /\ ~(m <= j)
      BY <2>6
    <3> QED
      BY <1>3, <2>5, <3>1
  <2>8. preset = Presets[Precedence[m]]
    BY <1>2, <2>3, <2>5
  <2>9. \E k \in DOMAIN Precedence :
          /\ Precedence[k] \in Selectors(raw)
          /\ \A j \in 1..(k - 1) : Precedence[j] \notin Selectors(raw)
          /\ preset = Presets[Precedence[k]]
    BY <2>6, <2>7, <2>8, Names6
  <2> QED
    BY <1>1, <1>6, <2>9 DEF PresetRead
<1> QED
  BY <1>5, <1>6

LEMMA UrlIs ==
  ASSUME NEW S, NEW raw \in Seq(S), NEW url, url = First(ParseQuery(raw), "url"), url # <<>>
  PROVE  UrlRead(raw, url)
<1>1. "url" \notin Separators
  BY DEF Separators
<1>2. PICK ab \in Gives(raw) : TRUE
  BY <1>1, GivenIs DEF Gives
<1>3. PICK a \in Nat, b \in Nat : ab[1] = a /\ ab[2] = b /\ b > a + 1
  BY <1>2, GoodFields DEF Gives, Decisive
<1>4. url = [i \in 1..(b - a - 1) |-> Unescaped(raw[a + 1 + i])]
  <2>1. url = ValueOf(raw, ab)
    BY <1>1, <1>2, FirstIs DEF Gives
  <2>2. ValueOf(raw, ab) = [i \in 1..(b - a - 1) |-> Unescaped(raw[a + 1 + i])]
    BY <1>3, Zenon DEF ValueOf
  <2> QED
    BY <2>1, <2>2, Zenon
<1>5. Len(url) = b - a - 1 /\ DOMAIN url = 1..(b - a - 1)
  <2>1. \A n \in Nat : Len([i \in 1..n |-> Unescaped(raw[a + 1 + i])]) = n
    OBVIOUS
  <2>2. b - a - 1 \in Nat
    BY <1>3
  <2>3. DOMAIN [i \in 1..(b - a - 1) |-> Unescaped(raw[a + 1 + i])] = 1..(b - a - 1)
    OBVIOUS
  <2> QED
    BY <1>4, <2>1, <2>2, <2>3, Zenon
<1>6. \A i \in DOMAIN url : url[i] = IF raw[a + 1 + i] = Plain("+") THEN " " ELSE raw[a + 1 + i].text
  BY <1>4, <1>5 DEF Unescaped
<1> QED
  BY <1>2, <1>3, <1>5, <1>6 DEF UrlRead

-----------------------------------------------------------------------------
(* The state that matters to these theorems.  What a query's URL consists  *)
(* of is not part of it: a word that begins no URL is refused as one.      *)
Options == [preset : {DefaultMedia} \cup Range(Presets), force_static : BOOLEAN, url_only : BOOLEAN]

OriginUrls == {OriginUrl(text) : text \in Text}

TypeOK ==
  /\ pc \in {"plan", "url", "fetch", "convert", "respond", "done", "threw"}
  /\ DOMAIN request = {"url", "options"} /\ request.options \in Options
  /\ trail \in Seq(OriginUrls)
  /\ server \in [address : Addresses \cup {NoPeer}, status : Statuses \cup {0}, size : 0..1]
  /\ body \in Bodies \cup {EmptyBody}

(* The download runs in one stage, behind which its trail stays.           *)
StageInv ==
  /\ pc \in {"plan", "url"} => trail = <<>> /\ fetch = "none" /\ server.address = NoPeer
  /\ pc = "fetch" => trail # <<>> /\ fetch = "fetching"
  /\ pc \in {"convert", "respond"} => trail # <<>> /\ fetch = "delivered"
  /\ pc = "respond" => converted \in Conversions
  /\ pc # "done" => outcome = "bad_request"

(* Who answers the current request is a public address of its host.        *)
PeerInv ==
  server.address # NoPeer =>
    /\ server.address \in PublicAddresses
    /\ \E answer \in CandidateSets : server.address \in answer

(* What each way to end has left behind.                                   *)
EndInv ==
  pc = "done" =>
    /\ outcome \in {"bad_request", "status", "access_denied", "origin_failure", "media_failure",
                    "media_success"}
    /\ outcome \in {"bad_request", "status", "access_denied"} => trail = <<>> /\ fetch = "none"
    /\ outcome = "origin_failure" => trail # <<>> /\ fetch = "failed"
    /\ outcome \in {"media_failure", "media_success"} => trail # <<>> /\ fetch = "delivered"
    /\ outcome = "status" => response = Plainly(200, "application/json")
    /\ outcome \in {"bad_request", "media_failure"} =>
         response = TextResponse(400)
    /\ outcome = "access_denied" => response = TextResponse(403)
    /\ outcome = "origin_failure" => response = TextResponse(500)
    /\ outcome = "media_success" =>
         /\ converted \in Conversions /\ converted.error = "none"
         /\ response = [status |-> 200, content_type |-> ContentType, cached |-> TRUE,
                        body |-> converted]

(* A download runs for a URL that was accepted.                            *)
UrlInv == trail # <<>> => Accepted(UrlText)

IInv == TypeOK /\ StageInv /\ PeerInv /\ EndInv /\ UrlInv

(* Options come from the table of presets.                                 *)
LEMMA OptionsType ==
  ASSUME NEW parameters
  PROVE  SelectMediaOptions(parameters) \in Options
<1> DEFINE on == {i \in DOMAIN Precedence : Boolean(parameters, Precedence[i])}
<1>1. Selected(parameters) \in {DefaultMedia} \cup Range(Presets)
  <2>1. Selected(parameters) = IF on = {} THEN DefaultMedia ELSE Presets[Precedence[Min(on)]]
    BY DEF Selected
  <2>2. \A i \in DOMAIN Precedence : i \in Nat /\ Precedence[i] \in DOMAIN Presets
    BY DEF Precedence, Presets
  <2>3. CASE on # {}
    <3>1. on \subseteq Nat
      BY <2>2
    <3>2. \E m \in on : \A j \in on : m <= j
      BY <3>1, <2>3, Least
    <3>3. Min(on) \in on
      BY <3>2 DEF Min
    <3>4. Precedence[Min(on)] \in DOMAIN Presets
      BY <3>3, <2>2
    <3> QED
      BY <2>1, <2>3, <3>4 DEF Range
  <2> QED
    BY <2>1, <2>3
<1>2. /\ Boolean(parameters, "static") \in BOOLEAN
      /\ (Len(parameters) = 1 /\ parameters[1].key = <<"url">>) \in BOOLEAN
  BY DEF Boolean
<1> QED
  BY <1>1, <1>2 DEF SelectMediaOptions, Options

LEMMA PreferredOutput ==
  ASSUME NEW options \in Options
  PROVE  options.preset.preferred_output \in {"avif", "webp"}
<1>1. DefaultMedia.preferred_output \in {"avif", "webp"}
  BY DEF DefaultMedia, Preset
<1>2. \A name \in DOMAIN Presets : Presets[name].preferred_output \in {"avif", "webp"}
  BY DEF Presets, Preset
<1> QED
  BY <1>1, <1>2 DEF Options, Range

(* What the text of a request is as a URL is always one of the texts, or   *)
(* one of them altered.                                                    *)
LEMMA UrlTextType == UrlText \in Text
<1>1. \A word \in DOMAIN Texts : Texts[word] \in Text
  BY HandlerAssumption DEF Range
<1>2. (CHOOSE word \in DOMAIN Texts : TRUE) \in DOMAIN Texts
  BY HandlerAssumption
<1>3. \A text \in Text, flag \in BOOLEAN :
        [text EXCEPT !.nul = flag] \in Text /\ [text EXCEPT !.https = flag] \in Text
  BY DEF Text
<1>4. ("NUL" \in {request.url[i] : i \in DOMAIN request.url}) \in BOOLEAN
  OBVIOUS
<1> QED
  BY <1>1, <1>2, <1>3, <1>4 DEF UrlText

(* A URL is refused for its address only if nothing else is wrong with it, *)
(* and the address is reserved.                                            *)
LEMMA ForbiddenIsReserved ==
  ASSUME NEW text \in Text
  PROVE  UrlError(text) = "forbidden_address" <=>
           /\ UrlError([text EXCEPT !.host.quad = {}]) = "none"
           /\ \E a \in Literal(text.host) : InReserved(a)
<1> DEFINE named == [text EXCEPT !.host.quad = {}]
<1>1. text.host \in Hostname
  BY DEF Text
<1>2. /\ named.nul = text.nul /\ named.https = text.https /\ named.authority = text.authority
      /\ named.parses = text.parses /\ named.user_information = text.user_information
      /\ named.port = text.port
      /\ named.host = [text.host EXCEPT !.quad = {}]
  BY DEF Text
<1>3. /\ named.host.size = text.host.size /\ named.host.colon = text.host.colon
      /\ named.host.converts = text.host.converts /\ named.host.labels = text.host.labels
      /\ named.host.dot = text.host.dot /\ named.host.quad = {}
  BY <1>1, <1>2 DEF Hostname
<1> HIDE DEF named
<1>4. /\ Normalizes(named.host) <=> Normalizes(text.host)
      /\ HasDot(named.host) <=> HasDot(text.host)
      /\ PortOf(named) = PortOf(text)
      /\ Literal(named.host) = {}
  BY <1>2, <1>3 DEF Normalizes, AsciiSize, LettersOnly, HasDot, PortOf, Literal
<1>5. \A a \in Literal(text.host) : ~IsPublic(a) <=> InReserved(a)
  <2>1. \A a \in Literal(text.host) : IsAddress(a)
    BY <1>1 DEF Literal, Hostname, IsAddress
  <2> QED
    BY <2>1, PublicIsUnreserved
<1>6. UrlError(text) = "forbidden_address" <=>
        UrlError(named) = "none" /\ \E a \in Literal(text.host) : ~IsPublic(a)
  BY <1>2, <1>3, <1>4 DEF UrlError
<1>7. (\E a \in Literal(text.host) : ~IsPublic(a)) <=> \E a \in Literal(text.host) : InReserved(a)
  BY <1>5
<1> QED
  BY <1>6, <1>7 DEF named

(* Only a sequence or an animation becomes WebP against the selector.      *)
LEMMA AnimatedMeans ==
  ASSUME NEW b, NEW static \in BOOLEAN, NEW preferred,
         Plan(b, static, preferred).converts,
         Plan(b, static, preferred).output # preferred
  PROVE  /\ Plan(b, static, preferred).output = "webp"
         /\ b.apng \/ ~static
         /\ b.apng \/ b.anim \/ b.jxl_animation \/ b.signature = "gif"
              \/ "avis" \in {b.brands[i] : i \in DOMAIN b.brands}
<1> DEFINE mime == SniffMime(b)
           moves == ~static /\ Animated(b, mime)
           plan == Plan(b, static, preferred)
<1>1. CASE mime = "image/png" /\ b.apng
  BY <1>1 DEF Plan
<1>2. CASE ~(mime = "image/png" /\ b.apng)
  <2>1. mime \in ConvertibleMimes
    BY <1>2 DEF Plan
  <2>2. plan.output = IF moves THEN "webp" ELSE preferred
    BY <1>2, <2>1 DEF Plan
  <2>3. moves /\ plan.output = "webp"
    BY <2>2
  <2>4. b.anim \/ b.jxl_animation \/ b.signature = "gif"
          \/ "avis" \in {b.brands[i] : i \in DOMAIN b.brands}
    <3>1. CASE mime = "image/gif"
      BY <3>1, SniffedGif
    <3>2. CASE mime = "image/avif"
      BY <3>2, <2>3 DEF Animated, IsAnimatedAvif
    <3>3. CASE mime \notin {"image/gif", "image/avif"}
      BY <3>3, <2>3 DEF Animated
    <3> QED
      BY <3>1, <3>2, <3>3
  <2> QED
    BY <2>3, <2>4
<1> QED
  BY <1>1, <1>2
-----------------------------------------------------------------------------
LEMMA InitInv == Init => IInv
<1> SUFFICES ASSUME Init PROVE IInv
  OBVIOUS
<1>1. request.options \in Options /\ DOMAIN request = {"url", "options"}
  BY OptionsType DEF Init, NoRequest
<1>2. TypeOK
  BY <1>1 DEF Init, TypeOK
<1>3. StageInv /\ PeerInv /\ EndInv /\ UrlInv
  BY DEF Init, StageInv, PeerInv, EndInv, UrlInv
<1> QED
  BY <1>2, <1>3 DEF IInv

LEMMA OriginUrlType ==
  ASSUME NEW text \in Text
  PROVE  OriginUrl(text) \in OriginUrls
BY DEF OriginUrls

(* Candidates and outputs depend on what most steps leave alone.           *)
LEMMA TypeStep == IInv /\ [Next]_vars => TypeOK'
<1> SUFFICES ASSUME TypeOK, [Next]_vars PROVE TypeOK'
  BY DEF IInv
<1> USE DEF TypeOK
<1>1. CASE BadRequest
  BY <1>1 DEF BadRequest, Respond, fetchVars
<1>2. CASE Status
  BY <1>2 DEF Status, Respond, fetchVars
<1>3. CASE PlanMedia
  <2>1. SelectMediaOptions(ParseQuery(event.query)) \in Options
    BY OptionsType
  <2> QED
    BY <1>3, <2>1 DEF PlanMedia, fetchVars
<1>4. CASE AccessDenied
  BY <1>4 DEF AccessDenied, Respond, fetchVars
<1>5. CASE BeginFetch
  <2>1. OriginUrl(UrlText) \in OriginUrls
    BY UrlTextType, OriginUrlType
  <2>2. <<OriginUrl(UrlText)>> \in Seq(OriginUrls)
    BY <2>1
  <2> QED
    BY <1>5, <2>2 DEF BeginFetch
<1>6. CASE Contact
  <2>1. Reachable \subseteq Addresses
    BY DEF Reachable, PublicAddresses
  <2>2. server' \in [address : Addresses \cup {NoPeer}, status : Statuses \cup {0}, size : 0..1]
    BY <1>6, <2>1 DEF Contact
  <2>3. UNCHANGED <<pc, request, trail, body>>
    BY <1>6 DEF Contact, Fetch!Contact
  <2> QED
    BY <2>2, <2>3
<1>7. CASE \E word \in Locations : Redirect(word)
  <2>1. PICK word \in Locations : Redirect(word)
    BY <1>7
  <2>2. Texts[word] \in Text
    BY HandlerAssumption DEF Range
  <2>3. OriginUrl(Texts[word]) \in OriginUrls
    BY <2>2, OriginUrlType
  <2>4. trail' = Append(trail, OriginUrl(Texts[word])) /\ UNCHANGED <<pc, request, body>>
    BY <2>1 DEF Redirect, Fetch!Move
  <2>5. server' = [address |-> NoPeer, status |-> 0, size |-> 0]
    BY <2>1 DEF Redirect, Fetch!Move, Fetch!NoServer
  <2>6. trail' \in Seq(OriginUrls)
    BY <2>3, <2>4
  <2> QED
    BY <2>4, <2>5, <2>6
<1>8. CASE Deliver
  BY <1>8 DEF Deliver, Fetch!Deliver
<1>9. CASE OriginFailure
  BY <1>9 DEF OriginFailure, Respond, Fetch!Fail
<1>10. CASE Convert
  BY <1>10 DEF Convert, fetchVars
<1>11. CASE MediaFailure
  BY <1>11 DEF MediaFailure, Respond, fetchVars
<1>12. CASE MediaSuccess
  BY <1>12 DEF MediaSuccess, Respond, fetchVars
<1>13. CASE Throw
  BY <1>13 DEF Throw, fetchVars
<1>14. CASE UNCHANGED vars
  BY <1>14 DEF vars, fetchVars
<1> QED
  BY <1>1, <1>2, <1>3, <1>4, <1>5, <1>6, <1>7, <1>8, <1>9, <1>10, <1>11, <1>12, <1>13, <1>14
     DEF Next

LEMMA StageStep == IInv /\ [Next]_vars => StageInv'
<1> SUFFICES ASSUME TypeOK, StageInv, PeerInv, [Next]_vars PROVE StageInv'
  BY DEF IInv
<1> USE DEF StageInv
<1>1. CASE BadRequest
  BY <1>1 DEF BadRequest, Respond, fetchVars
<1>2. CASE Status
  BY <1>2 DEF Status, Respond, fetchVars
<1>3. CASE PlanMedia
  BY <1>3 DEF PlanMedia, fetchVars
<1>4. CASE AccessDenied
  BY <1>4 DEF AccessDenied, Respond, fetchVars
<1>5. CASE BeginFetch
  BY <1>5 DEF BeginFetch
<1>6. CASE Contact
  BY <1>6 DEF Contact, Fetch!Contact
<1>7. CASE \E word \in Locations : Redirect(word)
  <2>1. PICK word \in Locations : Redirect(word)
    BY <1>7
  <2>2. trail' = Append(trail, OriginUrl(Texts[word])) /\ trail \in Seq(OriginUrls)
    BY <2>1 DEF Redirect, Fetch!Move, TypeOK
  <2>3. trail' # <<>>
    BY <2>2
  <2>4. pc = "fetch" /\ UNCHANGED <<pc, fetch, outcome>>
    BY <2>1 DEF Redirect, Fetch!Move
  <2> QED
    BY <2>3, <2>4
<1>8. CASE Deliver
  BY <1>8 DEF Deliver, Fetch!Deliver
<1>9. CASE OriginFailure
  BY <1>9 DEF OriginFailure, Respond
<1>10. CASE Convert
  <2>1. Conversions' = Conversions
    BY <1>10 DEF Convert, Conversions, MediaPlan
  <2> QED
    BY <1>10, <2>1 DEF Convert, fetchVars
<1>11. CASE MediaFailure
  BY <1>11 DEF MediaFailure, Respond
<1>12. CASE MediaSuccess
  BY <1>12 DEF MediaSuccess, Respond
<1>13. CASE Throw
  BY <1>13 DEF Throw
<1>14. CASE UNCHANGED vars
  <2>1. Conversions' = Conversions
    BY <1>14 DEF vars, Conversions, MediaPlan
  <2> QED
    BY <1>14, <2>1 DEF vars, fetchVars
<1> QED
  BY <1>1, <1>2, <1>3, <1>4, <1>5, <1>6, <1>7, <1>8, <1>9, <1>10, <1>11, <1>12, <1>13, <1>14
     DEF Next

LEMMA PeerStep == IInv /\ [Next]_vars => PeerInv'
<1> SUFFICES ASSUME TypeOK, StageInv, PeerInv, [Next]_vars PROVE PeerInv'
  BY DEF IInv
<1>1. CASE UNCHANGED <<trail, server>>
  <2>1. CandidateSets' = CandidateSets
    BY <1>1 DEF CandidateSets, Current
  <2> QED
    BY <1>1, <2>1 DEF PeerInv, PublicAddresses
<1>2. CASE BeginFetch
  BY <1>2 DEF BeginFetch, StageInv, PeerInv
<1>3. CASE Contact
  <2>1. server'.address \in Reachable
    BY <1>3 DEF Contact
  <2>2. CandidateSets' = CandidateSets
    BY <1>3 DEF Contact, Fetch!Contact, CandidateSets, Current
  <2>3. PICK answer \in CandidateSets :
          answer \subseteq PublicAddresses /\ server'.address \in answer
    BY <2>1 DEF Reachable
  <2> QED
    BY <2>2, <2>3 DEF PeerInv, PublicAddresses
<1>4. CASE \E word \in Locations : Redirect(word)
  <2>1. PICK word \in Locations : Redirect(word)
    BY <1>4
  <2>2. server'.address = NoPeer
    BY <2>1 DEF Redirect, Fetch!Move, Fetch!NoServer
  <2> QED
    BY <2>2 DEF PeerInv
<1> QED
  BY <1>1, <1>2, <1>3, <1>4
     DEF Next, vars, fetchVars, BadRequest, Status, PlanMedia, AccessDenied, Deliver, Fetch!Deliver,
         OriginFailure, Fetch!Fail, Convert, MediaFailure, MediaSuccess, Throw

LEMMA UrlStep == IInv /\ [Next]_vars => UrlInv'
<1> SUFFICES ASSUME TypeOK, StageInv, UrlInv, [Next]_vars, trail' # <<>>
             PROVE  Accepted(UrlText)'
  BY DEF IInv, UrlInv
<1>1. CASE request' = request /\ Accepted(UrlText)
  BY <1>1 DEF UrlText
<1>2. CASE BeginFetch
  BY <1>2 DEF BeginFetch, UrlText
<1>3. request' = request \/ PlanMedia
  BY DEF Next, vars, BadRequest, Status, PlanMedia, AccessDenied, BeginFetch, Contact, Redirect,
         Deliver, OriginFailure, Convert, MediaFailure, MediaSuccess, Throw
<1>4. ~PlanMedia
  BY DEF PlanMedia, fetchVars, StageInv
<1>5. trail' = trail \/ BeginFetch \/ pc = "fetch"
  BY DEF Next, vars, fetchVars, BadRequest, Status, PlanMedia, AccessDenied, Contact, Redirect,
         Deliver, OriginFailure, Convert, MediaFailure, MediaSuccess, Throw
<1>6. trail # <<>> => Accepted(UrlText)
  BY DEF UrlInv
<1> QED
  BY <1>1, <1>2, <1>3, <1>4, <1>5, <1>6 DEF StageInv

LEMMA PlainResponses ==
  ASSUME NEW status
  PROVE  /\ Plainly(status, "application/json").status = status
         /\ ~Plainly(status, "application/json").cached
         /\ TextResponse(status).status = status /\ ~TextResponse(status).cached
<1>1. ASSUME NEW type
      PROVE  Plainly(status, type).status = status /\ ~Plainly(status, type).cached
  BY DEF Plainly
<1> QED
  BY <1>1, Zenon DEF TextResponse

LEMMA EndStep == IInv /\ [Next]_vars => EndInv'
<1> SUFFICES ASSUME TypeOK, StageInv, EndInv, [Next]_vars PROVE EndInv'
  BY DEF IInv
<1>1. CASE BadRequest
  BY <1>1 DEF BadRequest, Respond, fetchVars, StageInv, EndInv
<1>2. CASE Status
  BY <1>2 DEF Status, Respond, fetchVars, StageInv, EndInv
<1>3. CASE AccessDenied
  BY <1>3 DEF AccessDenied, Respond, fetchVars, StageInv, EndInv
<1>4. CASE OriginFailure
  BY <1>4 DEF OriginFailure, Respond, Fetch!Fail, StageInv, EndInv
<1>5. CASE MediaFailure
  BY <1>5 DEF MediaFailure, Respond, fetchVars, StageInv, EndInv
<1>6. CASE MediaSuccess
  <2>1. Conversions' = Conversions /\ ContentType' = ContentType
    BY <1>6 DEF MediaSuccess, Conversions, MediaPlan, ContentType
  <2>2. /\ outcome' = "media_success" /\ converted' \in Conversions' /\ converted'.error = "none"
        /\ response' = [status |-> 200, content_type |-> ContentType', cached |-> TRUE,
                        body |-> converted']
        /\ trail' # <<>> /\ fetch' = "delivered"
    BY <1>6, <2>1 DEF MediaSuccess, Respond, fetchVars, StageInv
  <2> QED
    BY <2>2 DEF EndInv
<1>7. CASE PlanMedia \/ BeginFetch \/ Contact \/ (\E word \in Locations : Redirect(word))
             \/ Deliver \/ Convert \/ Throw
  <2>1. pc' # "done"
    BY <1>7 DEF PlanMedia, BeginFetch, Contact, Redirect, Deliver, Convert, Throw
  <2> QED
    BY <2>1 DEF EndInv
<1>8. CASE UNCHANGED vars
  <2>1. Conversions' = Conversions /\ ContentType' = ContentType
    BY <1>8 DEF vars, Conversions, MediaPlan, ContentType
  <2>2. UNCHANGED <<pc, outcome, response, trail, fetch, converted>>
    BY <1>8 DEF vars, fetchVars
  <2> QED
    BY <2>1, <2>2 DEF EndInv, Plainly
<1> QED
  BY <1>1, <1>2, <1>3, <1>4, <1>5, <1>6, <1>7, <1>8 DEF Next

(* The invariant: whatever the events, texts, answers and bodies are.      *)
THEOREM Invariance == Spec => []IInv
<1>1. Init => IInv
  BY InitInv
<1>2. IInv /\ [Next]_vars => IInv'
  BY TypeStep, StageStep, PeerStep, EndStep, UrlStep DEF IInv
<1> QED
  BY <1>1, <1>2, PTL DEF Spec

(* Every variable that decides something keeps to its values.              *)
THEOREM TypeCorrectness == Spec => []TypeOK
<1>1. IInv => TypeOK
  BY DEF IInv
<1> QED
  BY <1>1, Invariance, PTL

(* A download talks only to addresses outside the reserved blocks, out of  *)
(* an answer for the host it asks, and a URL is refused for its address    *)
(* only if that is reserved.                                               *)
THEOREM PeersRoutable == Spec => []PeersAreRoutable
<1>1. ASSUME IInv PROVE PeersAreRoutable
  <2>1. ASSUME server.address # NoPeer
        PROVE  /\ ~InReserved(server.address)
               /\ \E answer \in CandidateSets : server.address \in answer
    <3>1. /\ server.address \in PublicAddresses
          /\ \E answer \in CandidateSets : server.address \in answer
      BY <1>1, <2>1 DEF IInv, PeerInv
    <3>2. IsAddress(server.address) /\ IsPublic(server.address)
      BY <3>1, HandlerAssumption DEF PublicAddresses
    <3> QED
      BY <3>1, <3>2, PublicIsUnreserved
  <2>2. UrlError(UrlText) = "forbidden_address" <=>
          /\ UrlError([UrlText EXCEPT !.host.quad = {}]) = "none"
          /\ \E a \in Literal(UrlText.host) : InReserved(a)
    BY UrlTextType, ForbiddenIsReserved
  <2> QED
    BY <2>1, <2>2 DEF PeersAreRoutable
<1> QED
  BY <1>1, Invariance, PTL

(* For hostnames of any number of labels of any length: one is refused     *)
(* exactly if it has no DNS wire form, or is one label without a dot.      *)
THEOREM HostnamesFit == Spec => []HostnamesFitTheWire
<1>1. ASSUME IInv PROVE HostnamesFitTheWire
  <2>1. PICK text \in Text : text = UrlText
    BY UrlTextType
  <2>2. text.host \in Hostname
    BY DEF Text
  <2>3. Accepted(text) => FitsTheWire(text.host)
    BY <2>2, WireLimit DEF Accepted, UrlError
  <2>4. UrlError(text) = "invalid_hostname" => ~FitsTheWire(text.host) \/ ~text.authority
    BY <2>2, WireLimit DEF UrlError
  <2> QED
    BY <1>1, <2>1, <2>3, <2>4 DEF HostnamesFitTheWire, IInv, UrlInv
<1> QED
  BY <1>1, Invariance, PTL

(* For bodies of any bytes: which are known as an AVIF image, and which as *)
(* an SVG.                                                                 *)
THEOREM SniffedRight == Spec => []SniffsAsSpecified
<1>1. EmptyBody \in Body /\ Coherent(EmptyBody)
  <2>1. EmptyBody.text = <<>> /\ ~EmptyBody.ftyp /\ EmptyBody.length = 0
    BY DEF EmptyBody
  <2>2. Kind(EmptyBody.text, 1) = "end"
    BY <2>1 DEF Kind
  <2>3. EmptyBody \in Body
    <3>1. <<>> \in Seq(STRING) /\ <<>> \in Seq(Piece)
      OBVIOUS
    <3>2. 0 \in Nat /\ FALSE \in BOOLEAN
      OBVIOUS
    <3>3. "none" \in DOMAIN Binary \cup DOMAIN Fonts \cup {"none"}
      OBVIOUS
    <3> QED
      BY <3>1, <3>2, <3>3, Zenon DEF EmptyBody, Body
  <2> QED
    BY <2>1, <2>2, <2>3 DEF Coherent, SmallBox
<1>2. ASSUME IInv PROVE SniffsAsSpecified
  <2>1. PICK b : b = body
    OBVIOUS
  <2>2. b \in Body /\ Coherent(b)
    BY <1>1, <1>2, <2>1, HandlerAssumption DEF IInv, TypeOK
  <2>3. b.box \in Nat /\ b.length \in Nat /\ b.brands \in Seq(STRING)
    BY <2>2 DEF Body
  <2> DEFINE sequence == /\ b.ftyp /\ b.box >= 16 /\ b.length >= b.box
                         /\ \E k \in DOMAIN b.brands :
                              b.brands[k] = "avis" /\ (k = 1 \/ 8 + 4 * k <= b.box - 4)
  <2>4. IsAnimatedAvif(b) <=> sequence
    <3>1. \A k \in DOMAIN b.brands : InBox(b, k) <=> k = 1 \/ 8 + 4 * k <= b.box - 4
      BY <2>3 DEF InBox
    <3>2. b.length >= 16 /\ b.box \in 16..b.length <=> b.box >= 16 /\ b.length >= b.box
      BY <2>3
    <3> QED
      BY <3>1, <3>2 DEF IsAnimatedAvif
  <2>5. sequence => SniffMime(b) = "image/avif"
    BY <2>4 DEF SniffMime, IsSequence
  <2>6. ~b.ftyp \/ b.box < LargeBox => (SniffMime(b) = "image/avif" <=> sequence \/ Still(b))
    BY <2>2, <2>4, SniffedAvif
  <2>7. SniffMime(b) = "image/svg+xml" <=> SvgBegins(b.text)
    BY <2>2, SniffedSvg
  <2> HIDE DEF sequence
  <2>8. SniffsAsSpecified <=>
          (pc = "convert" =>
             /\ sequence => SniffMime(b) = "image/avif"
             /\ ~b.ftyp \/ b.box < LargeBox => (SniffMime(b) = "image/avif" <=> sequence \/ Still(b))
             /\ SniffMime(b) = "image/svg+xml" <=> SvgBegins(b.text))
    BY <2>1 DEF SniffsAsSpecified, sequence, Still, SvgBegins
  <2> QED
    BY <2>5, <2>6, <2>7, <2>8
<1> QED
  BY <1>2, Invariance, PTL

(* Each way to end answers with its own status, and only a converted body  *)
(* is cached and has an image type.                                        *)
THEOREM TableAnswered == Spec => []AnswersTheTable
<1>1. ASSUME IInv, pc = "done", outcome # "media_success" PROVE AnswersTheTable
  <2>1. /\ outcome \in {"bad_request", "status", "access_denied", "origin_failure", "media_failure"}
        /\ outcome \in {"bad_request", "status", "access_denied"} => trail = <<>> /\ fetch = "none"
        /\ outcome = "origin_failure" => trail # <<>> /\ fetch = "failed"
        /\ outcome = "media_failure" => trail # <<>> /\ fetch = "delivered"
    BY <1>1 DEF IInv, EndInv
  <2>a. /\ outcome = "status" => response = Plainly(200, "application/json")
        /\ outcome \in {"bad_request", "media_failure"} =>
             response = TextResponse(400)
        /\ outcome = "access_denied" => response = TextResponse(403)
        /\ outcome = "origin_failure" => response = TextResponse(500)
    BY <1>1 DEF IInv, EndInv
  <2>b. outcome = "status" => response.status = 200 /\ ~response.cached
    BY <2>a, PlainResponses
  <2>c. outcome \in {"bad_request", "media_failure"} => response.status = 400 /\ ~response.cached
    BY <2>a, PlainResponses
  <2>d. outcome = "access_denied" => response.status = 403 /\ ~response.cached
    BY <2>a, PlainResponses
  <2>e. outcome = "origin_failure" => response.status = 500 /\ ~response.cached
    BY <2>a, PlainResponses
  <2>2. response.status = CASE outcome \in {"status", "media_success"} -> 200
                            [] outcome \in {"bad_request", "media_failure"} -> 400
                            [] outcome = "access_denied" -> 403
                            [] outcome = "origin_failure" -> 500
    BY <2>1, <2>b, <2>c, <2>d, <2>e
  <2>3. /\ outcome \in {"status", "bad_request", "access_denied"} <=> trail = <<>>
        /\ outcome \in {"media_success", "media_failure"} <=> fetch = "delivered"
    BY <2>1
  <2> QED
    BY <1>1, <2>1, <2>2, <2>3, <2>b, <2>c, <2>d, <2>e DEF AnswersTheTable
<1>2. ASSUME IInv, pc = "done", outcome = "media_success" PROVE AnswersTheTable
  <2> DEFINE preferred == request.options.preset.preferred_output
             formats == [avif |-> "image/avif", webp |-> "image/webp"]
  <2>1. /\ converted \in Conversions /\ converted.error = "none"
        /\ response = [status |-> 200, content_type |-> ContentType, cached |-> TRUE,
                       body |-> converted]
        /\ trail # <<>> /\ fetch = "delivered"
    BY <1>2 DEF IInv, EndInv
  <2>2. request.options \in Options /\ preferred \in {"avif", "webp"}
    BY <1>2, PreferredOutput DEF IInv, TypeOK
  <2>3. response.content_type = formats[preferred]
    BY <2>1, <2>2 DEF ContentType
  <2>4. /\ MediaPlan.converts /\ converted.output = MediaPlan.output
        /\ converted.quality = QualityValue(request.options.url_only)
    BY <2>1 DEF Conversions
  <2>5. response.body.output # preferred =>
          /\ response.body.output = "webp"
          /\ body.apng \/ ~request.options.force_static
          /\ body.apng \/ body.anim \/ body.jxl_animation \/ body.signature = "gif"
               \/ "avis" \in {body.brands[i] : i \in DOMAIN body.brands}
    <3>1. request.options.force_static \in BOOLEAN
      BY <2>2 DEF Options
    <3>2. response.body.output = Plan(body, request.options.force_static, preferred).output
      BY <2>1, <2>4 DEF MediaPlan
    <3>3. Plan(body, request.options.force_static, preferred).converts
      BY <2>4 DEF MediaPlan
    <3> QED
      BY <3>1, <3>2, <3>3, AnimatedMeans
  <2>6. response.body.quality = IF request.options.url_only THEN 70 ELSE 65
    BY <2>1, <2>4 DEF QualityValue
  <2> QED
    BY <1>2, <2>1, <2>3, <2>5, <2>6 DEF AnswersTheTable
<1>3. IInv => AnswersTheTable
  BY <1>1, <1>2 DEF AnswersTheTable
<1> QED
  BY <1>3, Invariance, PTL

(* A request's payload, and what it has become.                            *)
PlanInv ==
  /\ event \in Event
  /\ pc = "url" =>
       /\ SourceUrl(event) # <<>>
       /\ request = [url |-> SourceUrl(event), options |-> SelectMediaOptions(ParseQuery(event.query))]
  /\ pc = "done" /\ outcome = "bad_request" => ~Parses(event) \/ SourceUrl(event) = <<>>

LEMMA PlanInit == Init => PlanInv
BY HandlerAssumption DEF Init, PlanInv

LEMMA PlanStep == IInv /\ PlanInv /\ [Next]_vars => PlanInv'
<1> SUFFICES ASSUME StageInv, PlanInv, [Next]_vars PROVE PlanInv'
  BY DEF IInv
<1>1. NoEvent \in Event
  <2>1. <<>> \in Seq(Token(STRING))
    OBVIOUS
  <2> QED
    BY <2>1 DEF NoEvent, Event
<1>2. CASE BadRequest
  BY <1>2 DEF BadRequest, Respond, PlanInv, SourceUrl, Parses
<1>3. CASE PlanMedia
  BY <1>3 DEF PlanMedia, PlanInv, SourceUrl
<1>4. CASE BeginFetch
  BY <1>1, <1>4 DEF BeginFetch, PlanInv
<1>5. CASE event' = event /\ pc' # "url" /\ (pc' # "done" \/ outcome' # "bad_request")
  BY <1>5 DEF PlanInv
<1>6. CASE UNCHANGED vars
  BY <1>6 DEF vars, PlanInv, SourceUrl, Parses
<1>7. ASSUME Status \/ AccessDenied \/ OriginFailure \/ MediaFailure \/ MediaSuccess
      PROVE  event' = event /\ pc' = "done" /\ outcome' # "bad_request"
  BY <1>7 DEF Status, AccessDenied, OriginFailure, MediaFailure, MediaSuccess, Respond
<1>8. ASSUME Contact \/ (\E word \in Locations : Redirect(word)) \/ Deliver \/ Convert \/ Throw
      PROVE  event' = event /\ pc' \notin {"url", "done"}
  BY <1>8 DEF Contact, Redirect, Deliver, Convert, Throw
<1> QED
  BY <1>2, <1>3, <1>4, <1>5, <1>6, <1>7, <1>8 DEF Next

(* For queries of any number of fields and tokens: the request is what     *)
(* their positions say, and a payload is refused only without a URL.       *)
THEOREM FieldsAreRead == Spec => []QueryReadsFields
<1>1. PlanInv => QueryReadsFields
  <2> SUFFICES ASSUME PlanInv PROVE QueryReadsFields
    OBVIOUS
  <2>1. PICK raw : raw = event.query
    OBVIOUS
  <2>2. raw \in Seq(Token(STRING))
    BY <2>1 DEF PlanInv, Event
  <2>3. PICK url : url = First(ParseQuery(raw), "url")
    OBVIOUS
  <2>4. "url" \notin Separators /\ "static" \notin Separators
    BY DEF Separators
  <2>5. url # <<>> <=> Gives(raw) # {}
    BY <2>2, <2>3, <2>4, GivenIs DEF Gives
  <2>6. ASSUME pc = "url"
        PROVE  /\ UrlRead(raw, request.url)
               /\ PresetRead(raw, request.options.preset)
               /\ request.options.force_static <=> On(raw, "static")
               /\ request.options.url_only <=> UrlAlone(raw)
    <3>1. request.url = url /\ url # <<>> /\ request.options = SelectMediaOptions(ParseQuery(raw))
      BY <2>1, <2>3, <2>6 DEF PlanInv, SourceUrl
    <3>2. /\ request.options.preset = Selected(ParseQuery(raw))
          /\ request.options.force_static = Boolean(ParseQuery(raw), "static")
          /\ request.options.url_only =
               (Len(ParseQuery(raw)) = 1 /\ ParseQuery(raw)[1].key = <<"url">>)
      BY <3>1 DEF SelectMediaOptions
    <3>3. UrlRead(raw, url)
      BY <2>2, <2>3, <2>5, <3>1, UrlIs
    <3>4. request.options.force_static <=> On(raw, "static")
      BY <2>2, <2>4, <3>2, BooleanIs
    <3>5. request.options.url_only <=> UrlAlone(raw)
      BY <2>2, <2>4, <3>2, UrlOnlyIs DEF UrlAlone
    <3>6. PresetRead(raw, request.options.preset)
      BY <2>2, <3>2, PresetIs
    <3> QED
      BY <3>1, <3>3, <3>4, <3>5, <3>6
  <2>7. ASSUME pc = "done", outcome = "bad_request"
        PROVE  \/ event.json # "event"
               \/ Plain("%") \in {event.path[i] : i \in DOMAIN event.path}
               \/ Gives(raw) = {}
    <3>1. CASE ~Parses(event)
      BY <3>1 DEF Parses, Decodes, Positions
    <3>2. CASE SourceUrl(event) = <<>>
      BY <2>1, <2>3, <2>5, <3>2 DEF SourceUrl
    <3> QED
      BY <2>7, <3>1, <3>2 DEF PlanInv
  <2> QED
    BY <2>1, <2>6, <2>7 DEF QueryReadsFields
<1>2. Init => IInv /\ PlanInv
  BY InitInv, PlanInit
<1>3. (IInv /\ PlanInv) /\ [Next]_vars => (IInv /\ PlanInv)'
  BY TypeStep, StageStep, PeerStep, EndStep, UrlStep, PlanStep DEF IInv
<1> QED
  BY <1>1, <1>2, <1>3, PTL DEF Spec
=============================================================================
